------------------------------- MODULE Files --------------------------------
(* The file calls of a program, libc_backends/lib/l4re_file: descriptors and *)
(* the working directory are the Vfs's, outside this repository; here is     *)
(* what the C functions make of them.  The name of the working directory is  *)
(* a string of their own, beside the directory itself, and the calls that    *)
(* move one move the other or do not.                                        *)
(*                                                                           *)
(* One thread calls; a call is a step.  A string is a sequence of symbols,   *)
(* "/" or a letter; a file name is one letter.                               *)
EXTENDS Integers, Sequences, FiniteSetsExt

CONSTANTS File, Root, NoFile,   \* what the Vfs resolves names to
          Tree,                 \* directory trees, with what is mounted there
          Lookup(_, _, _),      \* the Vfs: tree, directory, path to a file
          Symbol,               \* what strings are made of
          Path,                 \* bound: the strings a name may be
          Arg,                  \* the paths a program passes
          Fd,                   \* descriptors
          Capacity,             \* bound: strings malloc has room for
          Size                  \* sizes given to getcwd

Heap(t) == [text |-> t, heap |-> TRUE]
Default == [text |-> <<"/">>, heap |-> FALSE]   \* _default_current_working_dir
Null    == [text |-> <<>>, heap |-> FALSE]

Absolute(p) == p # <<>> /\ p[1] = "/"

(* get_dir skips every slash that the path starts with.                      *)
Stripped(p) ==
  LET lead == {i \in 0..Len(p) : \A j \in 1..i : p[j] = "/"}
  IN SubSeq(p, Max(lead) + 1, Len(p))

(* len_cwd, a '/' if there is none, and path.                                *)
Joined(dir, p) == IF dir[Len(dir)] = "/" THEN dir \o p ELSE dir \o <<"/">> \o p

(* The Vfs takes a path apart; what a joined path leads to is what its parts *)
(* lead to one after the other.                                              *)
ASSUME LookupAssumption ==
  /\ Root \in File /\ NoFile \notin File
  /\ \A t \in Tree, f \in File, p \in Arg :
       Lookup(t, f, Stripped(p)) \in File \cup {NoFile}
  /\ \A t \in Tree : Lookup(t, Root, Stripped(<<"/">>)) = Root
  /\ \A t \in Tree, s \in Path, p \in Arg :
       LET d == Lookup(t, Root, Stripped(s))
       IN s # <<>> /\ ~ Absolute(p) /\ d # NoFile =>
            Lookup(t, Root, Stripped(Joined(s, p))) = Lookup(t, d, p)

ASSUME StringAssumption ==
  /\ <<"/">> \in Path /\ Arg \subseteq Path
  /\ Path \subseteq Seq(Symbol)
  /\ Capacity \in Nat /\ Size \subseteq Nat /\ Fd \subseteq Nat

VARIABLES tree, fds, cwd,     \* the Vfs
          name,               \* _current_working_dir
          strings,            \* heap strings in use
          held,               \* of these, those the program has from getcwd
          lost,               \* and those nobody has
          drifted,            \* history: the directory moved, the name did not
          result,             \* what the last call returned
          fault               \* the task was killed

vars == <<tree, fds, cwd, name, strings, held, lost, drifted, result, fault>>

Owned == IF name.heap THEN 1 ELSE 0

TypeOK ==
  /\ tree \in Tree /\ fds \in [Fd -> File \cup {NoFile}] /\ cwd \in File
  /\ name \in [text : Path, heap : BOOLEAN] \cup {Null}
  /\ strings \in 0..Capacity /\ held \in Nat /\ lost \in Nat
  /\ drifted \in BOOLEAN /\ fault \in BOOLEAN
  /\ result \in {"ok", "error", "-EBADF"}

-----------------------------------------------------------------------------
AT_FDCWD == -100

internal_get_dir(dirfd, p) ==
  IF Absolute(p) THEN Root ELSE IF dirfd = AT_FDCWD THEN cwd ELSE fds[dirfd]

Resolve(dirfd, p) ==
  LET dir == internal_get_dir(dirfd, p)
  IN IF dir = NoFile THEN NoFile ELSE Lookup(tree, dir, Stripped(p))

Return(r) == ~ fault /\ result' = r /\ fault' = FALSE
Fault     == ~ fault /\ fault' = TRUE /\ UNCHANGED result

Strings == <<name, strings, held, lost>>
Vfs     == <<tree, fds, cwd>>

(* The Vfs, or a null descriptor, refuses a call: POST, ERRNO_RET.           *)
Refused == Return("error") /\ UNCHANGED <<Vfs, Strings, drifted>>

(* alloc_fd: some descriptor that is free.                                   *)
alloc_fd(f) ==
  /\ \E fd \in Fd : fds[fd] = NoFile /\ fds' = [fds EXCEPT ![fd] = f]
  /\ Return("ok") /\ UNCHANGED <<tree, cwd, Strings, drifted>>

open(p) ==
  \/ Resolve(AT_FDCWD, p) # NoFile /\ alloc_fd(Resolve(AT_FDCWD, p))
  \/ Refused

(* dup, and fcntl's F_DUPFD, which forgets the descriptor to start from.     *)
dup(fd) ==
  \/ fds[fd] # NoFile /\ alloc_fd(fds[fd])
  \/ Refused

dup2(old, new) ==
  \/ /\ fds[old] # NoFile
     /\ fds' = [fds EXCEPT ![new] = fds[old]]
     /\ Return("ok") /\ UNCHANGED <<tree, cwd, Strings, drifted>>
  \/ fds[old] = NoFile /\ Refused

(* A bad descriptor is reported as -EBADF, not as -1 and errno.              *)
close(fd) ==
  /\ fds' = [fds EXCEPT ![fd] = NoFile]
  /\ Return(IF fds[fd] = NoFile THEN "-EBADF" ELSE "ok")
  /\ UNCHANGED <<tree, cwd, Strings, drifted>>

(* Calls that hand a file its arguments: by descriptor, and by name.         *)
OnDescriptor(fd) ==
  \/ fds[fd] # NoFile /\ Return("ok") /\ UNCHANGED <<Vfs, Strings, drifted>>
  \/ Refused

(* read, write and fstat are calls of readv, writev and fstat64.             *)
fstat(fd) == OnDescriptor(fd)

OnPath(p) ==
  \/ Resolve(AT_FDCWD, p) # NoFile /\ Return("ok") /\ UNCHANGED <<Vfs, Strings, drifted>>
  \/ Refused

(* The path's directory has to be open; what it holds, it answers itself.    *)
faccessat(dirfd, p) ==
  \/ /\ internal_get_dir(dirfd, p) # NoFile
     /\ Return("ok") /\ UNCHANGED <<Vfs, Strings, drifted>>
  \/ Refused

(* Afterwards a name may lead elsewhere.  As in any system, the name of the  *)
(* working directory is not looked after.                                    *)
Reshaped(t) ==
  /\ tree' = t /\ drifted' = (drifted \/ t # tree)
  /\ Return("ok") /\ UNCHANGED <<fds, cwd, Strings>>

(* unlink, rename, mkdir, rmdir, link, symlink.  The directory is called     *)
(* without asking, as faccessat does, whether the Vfs has found one.         *)
Reshape(t) ==
  \/ Reshaped(t)
  \/ Refused
  \/ Fault /\ UNCHANGED <<Vfs, Strings, drifted>>

(* fcntl's inquiries; mmap and its family, which the region manager answers. *)
Stateless(r) == Return(r) /\ UNCHANGED <<Vfs, Strings, drifted>>

mmap(r) == Stateless(r)

(* select reads *timeout before it asks whether there is one.                *)
select(timeout) ==
  /\ IF timeout THEN Return("ok") ELSE Fault
  /\ UNCHANGED <<Vfs, Strings, drifted>>

-----------------------------------------------------------------------------
(* The working directory.                                                    *)

(* Strings in use after free_cwd(), which spares the default.                *)
FreedNone    == strings

FreedCwd == strings - Owned

NewNamePlain(p) == name.text \o p

NewName(p) == Joined(name.text, p)

(* The new name replaces the old one, and f the directory.                   *)
SetCwd(n, f, used) ==
  /\ name' = n /\ cwd' = f /\ strings' = used
  /\ Return("ok") /\ UNCHANGED <<tree, fds, held, lost>>

(* strdup comes after free and is not checked.                               *)
ChdirAbsolute(p) ==
  LET f == Resolve(AT_FDCWD, p)
      used == FreedCwd
  IN /\ Absolute(p) /\ f # NoFile
     /\ \/ used < Capacity /\ SetCwd(Heap(p), f, used + 1)
        \/ SetCwd(Null, f, used)
     /\ drifted' = FALSE

(* malloc comes before free and is not checked.                              *)
ChdirRelative(p) ==
  LET f == Resolve(AT_FDCWD, p)
  IN /\ ~ Absolute(p) /\ f # NoFile /\ name # Null
     /\ strings < Capacity /\ NewName(p) \in Path
     /\ SetCwd(Heap(NewName(p)), f, FreedCwd + 1)
     /\ UNCHANGED drifted

(* malloc has failed; or strdup did, earlier: strlen(NULL), and free(NULL),  *)
(* which mem_list follows to before address 0.                               *)
ChdirFaults(p) ==
  /\ Resolve(AT_FDCWD, p) # NoFile
  /\ name = Null \/ ~ Absolute(p)
  /\ Fault /\ UNCHANGED <<Vfs, Strings, drifted>>

chdir(p) == ChdirAbsolute(p) \/ ChdirRelative(p) \/ ChdirFaults(p) \/ Refused

(* The directory moves, the name stays, and the caller is told of an error.  *)
fchdir(fd) ==
  \/ /\ fds[fd] # NoFile
     /\ cwd' = fds[fd] /\ drifted' = (drifted \/ fds[fd] # cwd)
     /\ Return("error") /\ UNCHANGED <<tree, fds, Strings>>
  \/ fds[fd] = NoFile /\ Refused

(* getcwd(buf, size), with a buffer of the caller's or without.  A buffer    *)
(* allocated and found too small is forgotten.                               *)
getcwd(given, size) ==
  LET len  == Len(name.text) + 1
      room == IF ~ given /\ size = 0 THEN len ELSE size
      new  == IF given THEN 0 ELSE 1
  IN /\ UNCHANGED <<Vfs, name, drifted>>
     /\ \/ name = Null /\ Fault /\ UNCHANGED Strings
        \/ ~ given /\ name # Null /\ Return("error") /\ UNCHANGED Strings
        \/ /\ name # Null /\ strings + new <= Capacity
           /\ strings' = strings + new
           /\ IF len > room
              THEN Return("error") /\ lost' = lost + new /\ UNCHANGED held
              ELSE Return("ok") /\ held' = held + new /\ UNCHANGED lost

(* The program is done with a string of getcwd's.                            *)
Release ==
  /\ held > 0 /\ held' = held - 1 /\ strings' = strings - 1
  /\ Return("ok") /\ UNCHANGED <<Vfs, name, lost, drifted>>

-----------------------------------------------------------------------------
Init ==
  /\ tree \in Tree /\ fds = [fd \in Fd |-> NoFile] /\ cwd = Root
  /\ name = Default /\ strings = 0 /\ held = 0 /\ lost = 0
  /\ drifted = FALSE /\ result = "ok" /\ fault = FALSE

Next ==
  \/ \E p \in Arg : open(p) \/ chdir(p) \/ OnPath(p)
  \/ \E dirfd \in Fd \cup {AT_FDCWD}, p \in Arg : faccessat(dirfd, p)
  \/ \E fd \in Fd : dup(fd) \/ close(fd) \/ fstat(fd) \/ fchdir(fd)
  \/ \E old, new \in Fd : dup2(old, new)
  \/ \E given \in BOOLEAN, size \in Size : getcwd(given, size)
  \/ \E t \in Tree : Reshape(t)
  \/ \E r \in {"ok", "error"} : Stateless(r)
  \/ \E timeout \in BOOLEAN : select(timeout)
  \/ Release

Spec == Init /\ [][Next]_vars

-----------------------------------------------------------------------------
(* Properties.                                                               *)

(* The string getcwd() copies leads from the root to the directory that      *)
(* relative names start from, whatever chdir() calls made it, unless the     *)
(* tree was changed or fchdir() was called since chdir() had a full path.    *)
NameIsCwd ==
  ~ drifted /\ name # Null => Lookup(tree, Root, Stripped(name.text)) = cwd

(* Every string allocated is the working directory's, or the program's from  *)
(* getcwd(), or one getcwd() dropped with ERANGE: chdir() frees what it      *)
(* replaces, once, and never the default.                                    *)
StringsAccounted == strings = Owned + held + lost
=============================================================================
