---------------------------- MODULE FstabProofs -----------------------------
(* The working directory and its name, for every file system, every set of   *)
(* paths and descriptors and every size of the heap.  The constructor makes  *)
(* calls of the file backend and no other changes, so what holds of those    *)
(* holds before main() and behind it, for every table.                       *)
EXTENDS Fstab, SequenceTheorems, FiniteSetTheorems, WellFoundedInduction, TLAPS

-----------------------------------------------------------------------------
(* The file backend.                                                         *)
(* A name that is there has a symbol: Joined looks at its last one.          *)
NameNotEmpty == name # Null => name.text # <<>>

(* A string can be freed since it is counted, and a path leads on from the   *)
(* directory since the name leads there.                                     *)
IInv == TypeOK /\ StringsAccounted /\ NameNotEmpty /\ NameIsCwd

-----------------------------------------------------------------------------
LEMMA PathIsSeq ==
  ASSUME NEW p \in Path
  PROVE  /\ p \in Seq(Symbol)
         /\ Len(p) \in Nat
         /\ p # <<>> => Len(p) >= 1
<1>1. p \in Seq(Symbol)
  BY StringAssumption
<1> QED BY <1>1, LenProperties, EmptySeq

(* get_dir takes nothing off a path that begins with no slash.               *)
LEMMA StrippedRelative ==
  ASSUME NEW p \in Path, ~ Absolute(p)
  PROVE  Stripped(p) = p
<1> DEFINE lead == {i \in 0..Len(p) : \A j \in 1..i : p[j] = "/"}
<1>1. lead = {0}
  <2>1. 0 \in lead
    BY PathIsSeq
  <2>2. ASSUME NEW i \in lead PROVE i = 0
    <3>1. ASSUME i # 0 PROVE FALSE
      <4>1. i \in 1..Len(p) /\ 1 \in 1..i
        BY <3>1, PathIsSeq
      <4>2. p[1] = "/"
        BY <4>1
      <4>3. p # <<>>
        BY <4>1, PathIsSeq
      <4> QED BY <4>2, <4>3 DEF Absolute
    <3> QED BY <3>1
  <2> QED BY <2>1, <2>2
<1>2. Max(lead) = 0
  BY <1>1 DEF Max
<1>3. SubSeq(p, 1, Len(p)) = p
  BY PathIsSeq, SubSeqFull
<1>4. Stripped(p) = SubSeq(p, Max(lead) + 1, Len(p))
  BY DEF Stripped
<1> HIDE DEF lead
<1> QED BY <1>2, <1>3, <1>4

LEMMA JoinedNotEmpty ==
  ASSUME NEW d \in Path, d # <<>>, NEW p \in Path
  PROVE  Joined(d, p) # <<>>
<1>1. <<"/">> \in Seq(Symbol) /\ Len(<<"/">>) = 1
  BY PathIsSeq, StringAssumption
<1>2. d \in Seq(Symbol) /\ p \in Seq(Symbol) /\ Len(d) >= 1
  BY PathIsSeq
<1>3. Len(d \o p) >= 1
  BY <1>2, ConcatProperties, LenProperties
<1>4. Len(d \o <<"/">> \o p) >= 1
  BY <1>1, <1>2, ConcatProperties, LenProperties
<1> QED BY <1>3, <1>4 DEF Joined

LEMMA ResolveType ==
  ASSUME TypeOK, NEW p \in Arg
  PROVE  /\ Resolve(AT_FDCWD, p) \in File \cup {NoFile}
         /\ internal_get_dir(AT_FDCWD, p) \in File
         /\ Resolve(AT_FDCWD, p) = Lookup(tree, internal_get_dir(AT_FDCWD, p), Stripped(p))
<1>1. internal_get_dir(AT_FDCWD, p) \in File /\ NoFile \notin File
  BY LookupAssumption DEF internal_get_dir, TypeOK
<1>2. Lookup(tree, internal_get_dir(AT_FDCWD, p), Stripped(p)) \in File \cup {NoFile}
  BY <1>1, LookupAssumption DEF TypeOK
<1> QED BY <1>1, <1>2 DEF Resolve

-----------------------------------------------------------------------------
LEMMA InvInit == Init => IInv
<1> SUFFICES ASSUME Init PROVE IInv
  OBVIOUS
<1> USE DEF Init
<1>1. TypeOK
  <2>1. name \in [text : Path, heap : BOOLEAN]
    BY StringAssumption DEF Default
  <2>2. fds \in [Fd -> File \cup {NoFile}] /\ cwd \in File
    BY LookupAssumption
  <2>3. strings \in 0..Capacity
    BY StringAssumption
  <2> QED BY <2>1, <2>2, <2>3 DEF TypeOK
<1>2. StringsAccounted
  BY DEF StringsAccounted, Owned, Default
<1>3. NameNotEmpty
  BY DEF NameNotEmpty, Default
<1>4. NameIsCwd
  BY LookupAssumption DEF NameIsCwd, Default
<1> QED BY <1>1, <1>2, <1>3, <1>4 DEF IInv

(* A call that leaves the strings, the tree and the directory alone.         *)
Quiet ==
  /\ fds' \in [Fd -> File \cup {NoFile}]
  /\ result' \in {"ok", "error", "-EBADF"} /\ fault' \in BOOLEAN
  /\ UNCHANGED <<tree, cwd, Strings, drifted>>

LEMMA QuietStep == IInv /\ Quiet => IInv'
<1> SUFFICES ASSUME IInv, Quiet PROVE IInv'
  OBVIOUS
<1> USE DEF IInv, Quiet, Strings
<1>1. TypeOK'
  BY DEF TypeOK
<1>2. StringsAccounted'
  BY DEF StringsAccounted, Owned
<1>3. NameNotEmpty'
  BY DEF NameNotEmpty
<1>4. NameIsCwd'
  BY DEF NameIsCwd
<1> QED BY <1>1, <1>2, <1>3, <1>4

LEMMA RefusedIsQuiet == TypeOK /\ Refused => Quiet
  BY DEF TypeOK, Refused, Return, Vfs, Quiet

LEMMA AllocIsQuiet ==
  ASSUME TypeOK, NEW f \in File, alloc_fd(f)
  PROVE  Quiet
  BY DEF TypeOK, alloc_fd, Return, Quiet

-----------------------------------------------------------------------------
(* Freeing the name leaves the strings of getcwd().                          *)
LEMMA FreedCount ==
  ASSUME TypeOK, StringsAccounted
  PROVE  /\ strings - Owned = held + lost
         /\ strings - Owned \in 0..Capacity
         /\ strings < Capacity => strings - Owned + 1 \in 0..Capacity
         /\ strings - Owned < Capacity => strings - Owned + 1 \in 0..Capacity
<1>1. Owned \in {0, 1}
  BY DEF Owned
<1>2. strings \in 0..Capacity /\ held \in Nat /\ lost \in Nat /\ Capacity \in Nat
  BY StringAssumption DEF TypeOK
<1>3. strings = Owned + held + lost
  BY DEF StringsAccounted
<1> QED BY <1>1, <1>2, <1>3

(* chdir() with a path from the root: the new name is the path.              *)
LEMMA AbsoluteStep ==
  ASSUME IInv, NEW p \in Arg, ChdirAbsolute(p)
  PROVE  IInv'
<1> DEFINE f == Resolve(AT_FDCWD, p)
<1> USE DEF IInv
<1>1. f \in File /\ f = Lookup(tree, Root, Stripped(p))
  BY ResolveType DEF ChdirAbsolute, internal_get_dir
<1>2. /\ cwd' = f /\ UNCHANGED <<tree, fds, held, lost>> /\ p # <<>>
      /\ result' = "ok" /\ fault' = FALSE /\ drifted' = FALSE
      /\ \/ name' = Heap(p) /\ strings - Owned < Capacity /\ strings' = strings - Owned + 1
         \/ name' = Null /\ strings' = strings - Owned
  BY DEF ChdirAbsolute, SetCwd, Return, Absolute, FreedCwd
<1> HIDE DEF f
<1>3. strings - Owned \in 0..Capacity /\ strings - Owned = held + lost
  BY FreedCount
<1>4. CASE name' = Heap(p) /\ strings - Owned < Capacity /\ strings' = strings - Owned + 1
  <2>1. name' \in [text : Path, heap : BOOLEAN] /\ name'.text = p /\ name'.heap
    BY <1>4, StringAssumption DEF Heap
  <2>2. TypeOK'
    <3>1. strings' \in 0..Capacity
      BY <1>4, FreedCount
    <3> QED BY <1>1, <1>2, <2>1, <3>1 DEF TypeOK
  <2>3. StringsAccounted'
    <3>1. Owned' = 1
      BY <2>1 DEF Owned
    <3> QED BY <1>2, <1>3, <1>4, <3>1 DEF StringsAccounted, TypeOK
  <2>4. NameNotEmpty' /\ NameIsCwd'
    BY <1>1, <1>2, <2>1 DEF NameNotEmpty, NameIsCwd
  <2> QED BY <2>2, <2>3, <2>4
<1>5. CASE name' = Null /\ strings' = strings - Owned
  <2>1. TypeOK'
    BY <1>1, <1>2, <1>3, <1>5 DEF TypeOK
  <2>2. StringsAccounted'
    <3>1. Owned' = 0
      BY <1>5 DEF Owned, Null
    <3> QED BY <1>2, <1>3, <1>5, <3>1 DEF StringsAccounted, TypeOK
  <2>3. NameNotEmpty' /\ NameIsCwd'
    BY <1>5 DEF NameNotEmpty, NameIsCwd, Null
  <2> QED BY <2>1, <2>2, <2>3
<1> QED BY <1>2, <1>4, <1>5

(* chdir() with a path from the working directory: the name leads to it, and *)
(* the joined name on to where the path leads.                               *)
LEMMA RelativeStep ==
  ASSUME IInv, NEW p \in Arg, ChdirRelative(p)
  PROVE  IInv'
<1> DEFINE f == Resolve(AT_FDCWD, p)
<1> USE DEF IInv
<1>1. f \in File /\ f = Lookup(tree, cwd, p)
  <2>1. p \in Path /\ ~ Absolute(p)
    BY StringAssumption DEF ChdirRelative
  <2>2. Stripped(p) = p /\ internal_get_dir(AT_FDCWD, p) = cwd
    BY <2>1, StrippedRelative DEF internal_get_dir
  <2> QED BY <2>2, ResolveType DEF ChdirRelative
<1>2. /\ cwd' = f /\ UNCHANGED <<tree, fds, held, lost, drifted>>
      /\ ~ Absolute(p) /\ name # Null
      /\ result' = "ok" /\ fault' = FALSE /\ strings < Capacity
      /\ Joined(name.text, p) \in Path
      /\ name' = Heap(Joined(name.text, p)) /\ strings' = strings - Owned + 1
  BY DEF ChdirRelative, SetCwd, Return, FreedCwd, NewName
<1> HIDE DEF f
<1>3. name'.text = Joined(name.text, p) /\ name'.heap /\ name' \in [text : Path, heap : BOOLEAN]
  BY <1>2 DEF Heap
<1>4. name.text \in Path /\ name.text # <<>> /\ p \in Path
  BY <1>2, StringAssumption DEF TypeOK, NameNotEmpty
<1>5. TypeOK'
  <2>1. strings' \in 0..Capacity
    BY <1>2, FreedCount
  <2> QED BY <1>1, <1>2, <1>3, <2>1 DEF TypeOK
<1>6. StringsAccounted'
  <2>1. Owned' = 1
    BY <1>3 DEF Owned
  <2>2. strings - Owned = held + lost
    BY FreedCount
  <2> QED BY <1>2, <2>1, <2>2 DEF StringsAccounted, TypeOK
<1>7. NameNotEmpty'
  BY <1>3, <1>4, JoinedNotEmpty DEF NameNotEmpty
<1>8. NameIsCwd'
  <2> SUFFICES ASSUME ~ drifted PROVE Lookup(tree, Root, Stripped(Joined(name.text, p))) = f
    BY <1>2, <1>3 DEF NameIsCwd
  <2>1. Lookup(tree, Root, Stripped(name.text)) = cwd
    BY <1>2 DEF NameIsCwd
  <2>2. cwd # NoFile /\ tree \in Tree
    BY LookupAssumption DEF TypeOK
  <2> QED BY <1>1, <1>2, <1>4, <2>1, <2>2, LookupAssumption
<1> QED BY <1>5, <1>6, <1>7, <1>8

-----------------------------------------------------------------------------
LEMMA ChdirStep ==
  ASSUME IInv, NEW p \in Arg, chdir(p)
  PROVE  IInv'
<1>1. CASE ChdirFaults(p)
  <2>1. Quiet
    BY <1>1 DEF ChdirFaults, Fault, Vfs, Quiet, IInv, TypeOK
  <2> QED BY <2>1, QuietStep
<1>2. CASE Refused
  BY <1>2, RefusedIsQuiet, QuietStep DEF IInv
<1> QED BY <1>1, <1>2, AbsoluteStep, RelativeStep DEF chdir

LEMMA FchdirStep ==
  ASSUME IInv, NEW d \in Fd, fchdir(d)
  PROVE  IInv'
<1> USE DEF IInv
<1>1. CASE Refused
  BY <1>1, RefusedIsQuiet, QuietStep
<1>2. CASE /\ fds[d] # NoFile
           /\ cwd' = fds[d] /\ drifted' = (drifted \/ fds[d] # cwd)
           /\ Return("error") /\ UNCHANGED <<tree, fds, Strings>>
  <2> USE <1>2 DEF Return, Strings
  <2>1. TypeOK'
    BY DEF TypeOK
  <2>2. StringsAccounted'
    BY DEF StringsAccounted, Owned
  <2>3. NameNotEmpty' /\ NameIsCwd'
    BY DEF NameNotEmpty, NameIsCwd, TypeOK
  <2> QED BY <2>1, <2>2, <2>3
<1> QED BY <1>1, <1>2 DEF fchdir

LEMMA ReshapedStep ==
  ASSUME IInv, NEW t \in Tree, Reshaped(t)
  PROVE  IInv'
<1> USE DEF IInv, Reshaped, Return, Strings
<1>1. TypeOK'
  BY DEF TypeOK
<1>2. StringsAccounted'
  BY DEF StringsAccounted, Owned
<1>3. NameNotEmpty' /\ NameIsCwd'
  BY DEF NameNotEmpty, NameIsCwd, TypeOK
<1> QED BY <1>1, <1>2, <1>3

LEMMA ReshapeStep ==
  ASSUME IInv, NEW t \in Tree, Reshape(t)
  PROVE  IInv'
<1>1. CASE Refused
  BY <1>1, RefusedIsQuiet, QuietStep DEF IInv
<1>2. CASE Fault /\ UNCHANGED <<Vfs, Strings, drifted>>
  <2>1. Quiet
    BY <1>2 DEF Fault, Vfs, Quiet, IInv, TypeOK
  <2> QED BY <2>1, QuietStep
<1> QED BY <1>1, <1>2, ReshapedStep DEF Reshape

(* getcwd() and the program's free() move the counts together.               *)
Counted ==
  /\ UNCHANGED <<Vfs, name, drifted>>
  /\ result' \in {"ok", "error", "-EBADF"} /\ fault' \in BOOLEAN
  /\ strings' \in 0..Capacity /\ held' \in Nat /\ lost' \in Nat
  /\ strings' = Owned + held' + lost'

LEMMA CountedStep == IInv /\ Counted => IInv'
<1> SUFFICES ASSUME IInv, Counted PROVE IInv'
  OBVIOUS
<1> USE DEF IInv, Counted, Vfs
<1>1. TypeOK'
  BY DEF TypeOK
<1>2. StringsAccounted'
  BY DEF StringsAccounted, Owned
<1>3. NameNotEmpty' /\ NameIsCwd'
  BY DEF NameNotEmpty, NameIsCwd
<1> QED BY <1>1, <1>2, <1>3

LEMMA GetcwdStep ==
  ASSUME IInv, NEW given \in BOOLEAN, NEW size \in Size, getcwd(given, size)
  PROVE  Counted
<1> DEFINE new == IF given THEN 0 ELSE 1
<1>1. Owned \in {0, 1} /\ strings = Owned + held + lost
  BY DEF Owned, IInv, StringsAccounted
<1>2. /\ strings \in 0..Capacity /\ held \in Nat /\ lost \in Nat /\ Capacity \in Nat
  BY StringAssumption DEF IInv, TypeOK
<1>3. UNCHANGED <<Vfs, name, drifted>>
  BY DEF getcwd
<1>4. CASE UNCHANGED Strings /\ (Fault \/ Return("error"))
  BY <1>1, <1>2, <1>3, <1>4 DEF Counted, Strings, Fault, Return, IInv, TypeOK
<1>5. CASE /\ strings + new <= Capacity /\ strings' = strings + new
           /\ \/ Return("error") /\ lost' = lost + new /\ UNCHANGED held
              \/ Return("ok") /\ held' = held + new /\ UNCHANGED lost
  <2>1. new \in {0, 1}
    OBVIOUS
  <2> HIDE DEF new
  <2>2. strings' \in 0..Capacity
    BY <1>2, <1>5, <2>1
  <2>3. held' \in Nat /\ lost' \in Nat /\ strings' = Owned + held' + lost'
    BY <1>1, <1>2, <1>5, <2>1
  <2> QED BY <1>3, <1>5, <2>2, <2>3 DEF Counted, Return
<1> QED BY <1>4, <1>5 DEF getcwd

LEMMA ReleaseStep ==
  ASSUME IInv, Release
  PROVE  Counted
<1>1. Owned \in {0, 1} /\ strings = Owned + held + lost
  BY DEF Owned, IInv, StringsAccounted
<1>2. /\ strings \in 0..Capacity /\ held \in Nat /\ lost \in Nat /\ Capacity \in Nat
  BY StringAssumption DEF IInv, TypeOK
<1>3. held > 0 /\ held' = held - 1 /\ strings' = strings - 1 /\ UNCHANGED <<Vfs, name, lost, drifted>>
  BY DEF Release
<1>4. /\ strings' \in 0..Capacity /\ held' \in Nat /\ lost' \in Nat
      /\ strings' = Owned + held' + lost'
  BY <1>1, <1>2, <1>3
<1> QED BY <1>3, <1>4 DEF Counted, Release, Return

-----------------------------------------------------------------------------
LEMMA InvNext == IInv /\ [Next]_vars => IInv'
<1> SUFFICES ASSUME IInv, [Next]_vars PROVE IInv'
  OBVIOUS
<1> USE DEF IInv
<1>1. ASSUME NEW p \in Arg, open(p) PROVE IInv'
  <2>1. Quiet
    BY <1>1, ResolveType, RefusedIsQuiet, AllocIsQuiet DEF open
  <2> QED BY <2>1, QuietStep
<1>2. ASSUME NEW p \in Arg, OnPath(p) PROVE IInv'
  <2>1. Quiet
    BY <1>2, RefusedIsQuiet DEF OnPath, Return, Vfs, Quiet, TypeOK
  <2> QED BY <2>1, QuietStep
<1>3. ASSUME NEW dirfd \in Fd \cup {AT_FDCWD}, NEW p \in Arg, faccessat(dirfd, p) PROVE IInv'
  <2>1. Quiet
    BY <1>3, RefusedIsQuiet DEF faccessat, Return, Vfs, Quiet, TypeOK
  <2> QED BY <2>1, QuietStep
<1>4. ASSUME NEW d \in Fd, dup(d) PROVE IInv'
  <2>1. Quiet
    BY <1>4, RefusedIsQuiet, AllocIsQuiet DEF dup, TypeOK
  <2> QED BY <2>1, QuietStep
<1>5. ASSUME NEW d \in Fd, close(d) PROVE IInv'
  <2>1. Quiet
    BY <1>5 DEF close, Return, Quiet, TypeOK
  <2> QED BY <2>1, QuietStep
<1>6. ASSUME NEW d \in Fd, fstat(d) PROVE IInv'
  <2>1. Quiet
    BY <1>6, RefusedIsQuiet DEF fstat, OnDescriptor, Return, Vfs, Quiet, TypeOK
  <2> QED BY <2>1, QuietStep
<1>7. ASSUME NEW old \in Fd, NEW new \in Fd, dup2(old, new) PROVE IInv'
  <2>1. Quiet
    BY <1>7, RefusedIsQuiet DEF dup2, Return, Quiet, TypeOK
  <2> QED BY <2>1, QuietStep
<1>8. ASSUME NEW r \in {"ok", "error"}, Stateless(r) PROVE IInv'
  <2>1. Quiet
    BY <1>8 DEF Stateless, Return, Vfs, Quiet, TypeOK
  <2> QED BY <2>1, QuietStep
<1>9. ASSUME NEW timeout \in BOOLEAN, select(timeout) PROVE IInv'
  <2>1. Quiet
    BY <1>9 DEF select, Return, Fault, Vfs, Quiet, TypeOK
  <2> QED BY <2>1, QuietStep
<1>10. CASE UNCHANGED vars
  <2>1. Quiet
    BY <1>10 DEF vars, Strings, Quiet, TypeOK
  <2> QED BY <2>1, QuietStep
<1> QED BY <1>1, <1>2, <1>3, <1>4, <1>5, <1>6, <1>7, <1>8, <1>9, <1>10,
           ChdirStep, FchdirStep, ReshapeStep, GetcwdStep, ReleaseStep, CountedStep DEF Next

LEMMA InvAlways == Spec => []IInv
  BY InvInit, InvNext, PTL DEF Spec

(* Types of the Vfs's state and of the file backend's.                       *)
THEOREM FilesTypeCorrect == Spec => []TypeOK
  BY InvAlways, PTL DEF IInv

(* getcwd()'s string leads to the directory that relative names start from,  *)
(* whatever paths chdir() was given and however often one failed.            *)
THEOREM NameLeadsToCwd == Spec => []NameIsCwd
  BY InvAlways, PTL DEF IInv

(* Each string in use has one owner, or was dropped by getcwd().             *)
THEOREM StringsHaveOwners == Spec => []StringsAccounted
  BY InvAlways, PTL DEF IInv

-----------------------------------------------------------------------------
(* The constructor.                                                          *)
Opened == {"fstat", "mmap", "parse", "munmap", "close"}

(* Until main() the constructor's descriptor is the only one in use.         *)
OnlyOurs ==
  /\ phase \in Opened => fd \in Fd
  /\ phase = "open" => fd = -1
  /\ phase # "main" => \A d \in Fd : d # fd => fds[d] = NoFile

FInv == IInv /\ OnlyOurs

-----------------------------------------------------------------------------
LEMMA RefusedIsNext == Refused => Next
<1> SUFFICES ASSUME Refused PROVE Next
  OBVIOUS
<1>1. Stateless("error")
  BY DEF Refused, Stateless
<1> QED BY <1>1 DEF Next

LEMMA StatelessIsNext == ASSUME NEW r \in {"ok", "error"}, mmap(r) PROVE Next
  BY DEF mmap, Next

LEMMA FaultIsNext == Fault /\ UNCHANGED <<Vfs, Strings, drifted>> => Next
<1> SUFFICES ASSUME Fault, UNCHANGED <<Vfs, Strings, drifted>> PROVE Next
  OBVIOUS
<1>1. select(FALSE)
  BY DEF select
<1> QED BY <1>1 DEF Next

LEMMA InitMaps == FstabInit => Init /\ FInv
<1> SUFFICES ASSUME FstabInit PROVE Init /\ FInv
  OBVIOUS
<1>1. Init
  BY DEF FstabInit
<1>2. IInv
  BY <1>1, InvInit
<1>3. OnlyOurs
  BY <1>1 DEF FstabInit, Init, OnlyOurs, Opened
<1> QED BY <1>1, <1>2, <1>3 DEF FInv

(* Every step of the constructor is a call of the file backend, or stutters. *)
LEMMA StepMaps ==
  ASSUME FInv, [FstabNext]_fstabVars
  PROVE  [Next]_vars
<1> USE DEF FInv
<1>1. CASE InitOpen
  BY <1>1, FstabAssumption DEF InitOpen, Next
<1>2. CASE InitStat
  <2>1. fd \in Fd
    BY <1>2 DEF InitStat, At, OnlyOurs, Opened
  <2> QED BY <1>2, <2>1 DEF InitStat, Next
<1>3. CASE InitMap
  BY <1>3, StatelessIsNext DEF InitMap
<1>4. CASE ParseLine
  <2>1. \E s, eol : parse_fstab_line(s, eol)
    BY <1>4 DEF ParseLine
  <2>2. PICK s, eol : parse_fstab_line(s, eol)
    BY <2>1
  <2>3. \/ UNCHANGED vars
        \/ \E t \in Tree : Reshaped(t)
        \/ Refused
        \/ Fault /\ UNCHANGED <<Vfs, Strings, drifted>>
    BY <2>2 DEF parse_fstab_line, mount
  <2> QED BY <2>3, RefusedIsNext, FaultIsNext DEF Reshape, Next
<1>5. CASE ParseEnds
  BY <1>5 DEF ParseEnds
<1>6. CASE ParseUnmapped
  BY <1>6, FaultIsNext DEF ParseUnmapped
<1>7. CASE InitUnmap
  BY <1>7, StatelessIsNext DEF InitUnmap
<1>8. CASE InitClose
  <2>1. fd \in Fd
    BY <1>8 DEF InitClose, At, OnlyOurs, Opened
  <2> QED BY <1>8, <2>1 DEF InitClose, Next
<1>9. CASE Main
  BY <1>9 DEF Main
<1>10. CASE UNCHANGED fstabVars
  BY <1>10 DEF fstabVars
<1> QED BY <1>1, <1>2, <1>3, <1>4, <1>5, <1>6, <1>7, <1>8, <1>9, <1>10
        DEF FstabNext, libmount_init

-----------------------------------------------------------------------------
(* open() has put a file where there was none, and that is the descriptor    *)
(* the constructor goes on with.                                             *)
LEMMA OpenTakesOne ==
  ASSUME TypeOK, NEW f \in File, alloc_fd(f), \A d \in Fd : fds[d] = NoFile
  PROVE  LET n == CHOOSE d \in Fd : fds'[d] # fds[d]
         IN n \in Fd /\ \A d \in Fd : d # n => fds'[d] = NoFile
<1> DEFINE n == CHOOSE d \in Fd : fds'[d] # fds[d]
<1>1. PICK c \in Fd : fds' = [fds EXCEPT ![c] = f]
  BY DEF alloc_fd
<1>2. fds'[c] = f /\ f # NoFile /\ \A d \in Fd : d # c => fds'[d] = NoFile
  BY <1>1, LookupAssumption DEF TypeOK
<1>3. n \in Fd /\ fds'[n] # fds[n]
  BY <1>2
<1>4. n = c
  BY <1>2, <1>3
<1> QED BY <1>2, <1>4

LEMMA OnlyOursStep ==
  ASSUME FInv, [FstabNext]_fstabVars
  PROVE  OnlyOurs'
<1> USE DEF FInv, OnlyOurs, Opened
<1>0. TypeOK /\ -1 \notin Fd
  BY StringAssumption DEF IInv
<1>1. CASE InitOpen
  <2>1. phase = "open" /\ open(FstabPath) /\ \A d \in Fd : fds[d] = NoFile
    BY <1>0, <1>1 DEF InitOpen, At
  <2>2. CASE result' = "ok"
    <3>1. PICK f \in File : alloc_fd(f)
      BY <1>0, <2>1, <2>2, ResolveType, FstabAssumption DEF open, Refused, Return
    <3>2. phase' = "fstat" /\ fd' = CHOOSE d \in Fd : fds'[d] # fds[d]
      BY <1>1, <2>2 DEF InitOpen
    <3> QED BY <1>0, <2>1, <3>1, <3>2, OpenTakesOne
  <2>3. CASE result' # "ok"
    <3>1. phase' = "main"
      BY <1>1, <2>3 DEF InitOpen
    <3> QED BY <3>1
  <2> QED BY <2>2, <2>3
<1>2. CASE InitStat
  <2>1. phase = "fstat" /\ fd \in Fd /\ UNCHANGED fds
    BY <1>2 DEF InitStat, At, fstat, OnDescriptor, Refused, Vfs
  <2> QED BY <1>2, <2>1 DEF InitStat
<1>3. CASE InitMap
  BY <1>3 DEF InitMap, At, mmap, Stateless, Vfs
<1>4. CASE ParseLine
  <2>1. UNCHANGED <<fds, phase, fd>>
    <3>1. \E s, eol : parse_fstab_line(s, eol)
      BY <1>4 DEF ParseLine
    <3>2. UNCHANGED fds
      BY <3>1 DEF parse_fstab_line, mount, Reshaped, Refused, Vfs, vars
    <3> QED BY <1>4, <3>2 DEF ParseLine
  <2> QED BY <2>1
<1>5. CASE ParseEnds
  BY <1>5 DEF ParseEnds, At, vars, locals
<1>6. CASE ParseUnmapped
  BY <1>6 DEF ParseUnmapped, At, vars, locals, Vfs
<1>7. CASE InitUnmap
  BY <1>7 DEF InitUnmap, At, mmap, Stateless, Vfs, locals
<1>8. CASE InitClose
  BY <1>8 DEF InitClose
<1>9. CASE Main
  BY <1>9 DEF Main, locals
<1>10. CASE UNCHANGED fstabVars
  BY <1>10 DEF fstabVars, vars, locals
<1> QED BY <1>1, <1>2, <1>3, <1>4, <1>5, <1>6, <1>7, <1>8, <1>9, <1>10
        DEF FstabNext, libmount_init

LEMMA FInvNext == FInv /\ [FstabNext]_fstabVars => FInv'
  BY StepMaps, InvNext, OnlyOursStep DEF FInv

(* The constructor leaves behind what close() returned, or failed before.    *)
LEMMA ReturnedStep ==
  ASSUME FInv, [FstabNext]_fstabVars, phase # "main", phase' = "main",
         fds' # [d \in Fd |-> NoFile]
  PROVE  phase = "fstat"
<1> USE DEF FInv
<1>1. TypeOK /\ fds' \in [Fd -> File \cup {NoFile}]
  BY FInvNext DEF IInv, TypeOK
<1>2. PICK d \in Fd : fds'[d] # NoFile
  BY <1>1
<1>3. CASE InitOpen
  <2>1. Refused
    BY <1>3 DEF InitOpen, open, alloc_fd, Return
  <2>2. phase = "open" /\ fd = -1 /\ UNCHANGED fds /\ d # -1
    BY <1>3, <2>1, StringAssumption DEF InitOpen, At, Refused, Vfs, OnlyOurs
  <2>3. fds[d] = NoFile
    BY <2>2 DEF OnlyOurs
  <2> QED BY <1>2, <2>2, <2>3
<1>4. CASE InitClose
  <2>1. phase = "close" /\ fds' = [fds EXCEPT ![fd] = NoFile]
    BY <1>4 DEF InitClose, At, close
  <2>2. fds'[d] = NoFile
    BY <1>1, <2>1 DEF OnlyOurs, TypeOK
  <2> QED BY <1>2, <2>2
<1>5. CASE InitStat
  BY <1>5 DEF InitStat, At
<1> QED BY <1>3, <1>4, <1>5
        DEF FstabNext, libmount_init, InitMap, ParseLine, ParseEnds, ParseUnmapped,
            InitUnmap, Main, fstabVars

-----------------------------------------------------------------------------
(* The program with the constructor before it implements the file backend:   *)
(* parsing, mounting and failing add nothing but calls of it.                *)
THEOREM FstabImplementsFiles == FstabSpec => Spec
<1>1. FstabInit => FInv /\ Init
  BY InitMaps
<1>2. FInv /\ [FstabNext]_fstabVars => FInv' /\ [Next]_vars
  BY FInvNext, StepMaps
<1> QED BY <1>1, <1>2, PTL DEF FstabSpec, Spec

(* Mounts made before main() do not take the working directory's name away   *)
(* from it.                                                                  *)
THEOREM NameLeadsToCwdInPrograms == FstabSpec => []NameIsCwd
  BY FstabImplementsFiles, NameLeadsToCwd, PTL

(* main() starts without a descriptor in use, for every table and wherever   *)
(* open(), mmap(), a mount or munmap() fails, but for fstat().               *)
THEOREM ConstructorReturnsItsDescriptor == FstabSpec => DescriptorReturned
<1>1. FstabInit => FInv
  BY InitMaps
<1>2. FInv /\ [FstabNext]_fstabVars => FInv'
  BY FInvNext
<1>3. FInv /\ [FstabNext]_fstabVars =>
        [phase # "main" /\ phase' = "main" /\ fds' # [d \in Fd |-> NoFile]
           => phase = "fstat"]_fstabVars
  BY ReturnedStep
<1> QED BY <1>1, <1>2, <1>3, PTL DEF FstabSpec, DescriptorReturned

-----------------------------------------------------------------------------
(* The table.                                                                *)

(* Every non-empty set of numbers has a least one, and Min finds it.         *)
LEMMA MinIsLeast ==
  ASSUME NEW S \in SUBSET Nat, S # {}
  PROVE  Min(S) \in S /\ \A k \in S : Min(S) <= k
<1> DEFINE T == {0..m : m \in S}
<1>1. IsWellFoundedOn(StrictSubsetOrdering(Nat), FiniteSubsetsOf(Nat))
  BY FS_StrictSubsetOrderingWellFounded
<1>2. T \subseteq FiniteSubsetsOf(Nat) /\ T # {}
  <2>1. ASSUME NEW m \in S PROVE 0..m \in FiniteSubsetsOf(Nat)
    <3>1. m \in Int /\ 0 \in Int /\ 0..m \subseteq Nat
      OBVIOUS
    <3>2. IsFiniteSet(0..m)
      BY <3>1, FS_Interval
    <3> QED BY <3>1, <3>2 DEF FiniteSubsetsOf
  <2> QED BY <2>1
<1>3. PICK X \in T : \A Y \in T : ~ (<<Y, X>> \in StrictSubsetOrdering(Nat))
  BY <1>1, <1>2, WFMin
<1>4. PICK m \in S : X = 0..m
  OBVIOUS
<1>5. ASSUME NEW k \in S, k < m
      PROVE  FALSE
  <2>1. 0..k \in T /\ 0..k \subseteq 0..m /\ 0..k # 0..m
    BY <1>5
  <2>2. <<0..k, 0..m>> \in StrictSubsetOrdering(Nat)
    BY <2>1 DEF StrictSubsetOrdering
  <2> QED BY <1>3, <1>4, <2>1, <2>2
<1>6. m \in S /\ \A k \in S : m <= k
  BY <1>5
<1> QED BY <1>6 DEF Min

(* Of a finite set of numbers, how many are not above x tells x.             *)
LEMMA RankTells ==
  ASSUME NEW S \in SUBSET Nat, IsFiniteSet(S), NEW x \in S, NEW y \in S,
         Cardinality({i \in S : i <= x}) = Cardinality({i \in S : i <= y})
  PROVE  x = y
<1>1. ASSUME NEW a \in S, NEW b \in S, a < b,
             Cardinality({i \in S : i <= a}) = Cardinality({i \in S : i <= b})
      PROVE  FALSE
  <2> DEFINE A == {i \in S : i <= a}
             B == {i \in S : i <= b}
  <2>1. IsFiniteSet(B)
    BY FS_Subset
  <2>2. A \in SUBSET B /\ b \in B /\ b \notin A
    <3>1. \A i \in S : i \in Nat
      OBVIOUS
    <3>2. \A i \in S : i <= a => i <= b
      BY <1>1, <3>1
    <3>3. b <= b /\ ~ b <= a
      BY <1>1, <3>1
    <3> QED BY <3>2, <3>3
  <2>3. Cardinality(B) = Cardinality(A)
    BY <1>1
  <2> HIDE DEF A, B
  <2>4. A = B
    BY <2>1, <2>2, <2>3, FS_Subset
  <2> QED BY <2>2, <2>4
<1>2. ~ x < y
  BY <1>1
<1>3. ~ y < x
  BY <1>1
<1> QED BY <1>2, <1>3

-----------------------------------------------------------------------------
(* Where the loops of the parser stop.                                       *)

LEMMA FirstIs ==
  ASSUME text \in Seq(STRING), NEW stops, NEW e \in Position, NEW p \in 0..e
  PROVE  LET q == First(stops)[e][p]
         IN /\ q \in p..e
            /\ q = e \/ text[q + 1] \in stops
            /\ \A i \in p..(q - 1) : text[i + 1] \notin stops
<1> DEFINE S == {i \in p..e : i = e \/ text[i + 1] \in stops}
           q == First(stops)[e][p]
<1>1. Len(text) \in Nat /\ e \in Nat /\ p \in Nat /\ p <= e /\ p \in Position
  BY LenProperties DEF Position
<1>2. q = Min(S)
  BY <1>1 DEF First
<1>3. S \in SUBSET Nat /\ S # {}
  BY <1>1
<1>4. q \in S /\ \A k \in S : q <= k
  BY <1>2, <1>3, MinIsLeast
<1>5. \A i \in p..(q - 1) : i \in p..e /\ i < q /\ i # e
  BY <1>1, <1>4
<1>6. \A i \in p..(q - 1) : i \notin S
  BY <1>1, <1>4, <1>5
<1>7. /\ q \in p..e
      /\ q = e \/ text[q + 1] \in stops
      /\ \A i \in p..(q - 1) : text[i + 1] \notin stops
  <2> HIDE DEF q
  <2>1. \A i \in p..(q - 1) : i \in p..e /\ text[i + 1] \notin stops
    BY <1>5, <1>6
  <2> QED BY <1>4, <2>1
<1> QED BY <1>7 DEF q

LEMMA CharsAre ==
  ASSUME text \in Seq(STRING), NEW i \in 0..(Len(text) - 1)
  PROVE  text[i + 1] \in Char
<1>1. Len(text) \in Nat
  BY LenProperties
<1>2. i + 1 \in 1..Len(text)
  BY <1>1
<1> QED BY <1>2 DEF Char

LEMMA SpaceIs ==
  ASSUME text \in Seq(STRING), NEW e \in Position, NEW p \in 0..e
  PROVE  LET q == next_space[e][p]
         IN /\ q \in p..e
            /\ q = e \/ IsSpace(text[q + 1])
            /\ \A i \in p..(q - 1) : ~ IsSpace(text[i + 1])
<1> DEFINE q == next_space[e][p]
<1>1. Len(text) \in Nat /\ e \in 0..Len(text)
  BY LenProperties DEF Position
<1>2. /\ q \in p..e
      /\ q = e \/ text[q + 1] \in {c \in Char : IsSpace(c)}
      /\ \A i \in p..(q - 1) : text[i + 1] \notin {c \in Char : IsSpace(c)}
  BY FirstIs DEF next_space
<1> HIDE DEF q
<1>3. \A i \in p..(q - 1) : i \in 0..(Len(text) - 1)
  BY <1>1, <1>2
<1>4. \A i \in p..(q - 1) : text[i + 1] \in Char
  BY <1>3, CharsAre
<1>5. /\ q \in p..e
      /\ q = e \/ IsSpace(text[q + 1])
      /\ \A i \in p..(q - 1) : ~ IsSpace(text[i + 1])
  BY <1>2, <1>4
<1> QED BY <1>5 DEF q

LEMMA BlankIs ==
  ASSUME text \in Seq(STRING), NEW e \in Position, NEW p \in 0..e
  PROVE  LET q == eat_space[e][p]
         IN /\ q \in p..e
            /\ q = e \/ ~ IsSpace(text[q + 1])
            /\ \A i \in p..(q - 1) : IsSpace(text[i + 1])
<1> DEFINE q == eat_space[e][p]
<1>1. Len(text) \in Nat /\ e \in 0..Len(text)
  BY LenProperties DEF Position
<1>2. /\ q \in p..e
      /\ q = e \/ text[q + 1] \in {c \in Char : ~ IsSpace(c)}
      /\ \A i \in p..(q - 1) : text[i + 1] \notin {c \in Char : ~ IsSpace(c)}
  BY FirstIs DEF eat_space
<1> HIDE DEF q
<1>3. \A i \in p..(q - 1) : i \in 0..(Len(text) - 1)
  BY <1>1, <1>2
<1>4. \A i \in p..(q - 1) : text[i + 1] \in Char
  BY <1>3, CharsAre
<1>5. /\ q \in p..e
      /\ q = e \/ ~ IsSpace(text[q + 1])
      /\ \A i \in p..(q - 1) : IsSpace(text[i + 1])
  BY <1>2, <1>4
<1> QED BY <1>5 DEF q

(* The end of the line that starts at b is the end of what the table has.    *)
LEMMA LineIs ==
  ASSUME text \in Seq(STRING), NEW b \in Starts
  PROVE  LET s == First({"\n"})[Len(text)][b]
             e == LineEnd(b, s)
         IN /\ s \in b..Len(text)
            /\ s = Len(text) \/ text[s + 1] = "\n"
            /\ \A i \in b..(s - 1) : text[i + 1] # "\n"
            /\ e \in b..s /\ e \in Position /\ b \in Nat
            /\ InLine(b) = (b + 1)..e
<1> DEFINE s == First({"\n"})[Len(text)][b]
           e == LineEnd(b, s)
<1>1. Len(text) \in Nat /\ b \in 0..Len(text) /\ Len(text) \in Position /\ b \in Nat
  BY LenProperties DEF Starts, Position
<1>2. /\ s \in b..Len(text)
      /\ s = Len(text) \/ text[s + 1] \in {"\n"}
      /\ \A i \in b..(s - 1) : text[i + 1] \notin {"\n"}
  BY <1>1, FirstIs
<1> HIDE DEF s
<1>3. s \in Position /\ b \in 0..s
  BY <1>1, <1>2 DEF Position
<1>4. /\ e \in b..s
      /\ e = s \/ text[e + 1] \in {"#"}
      /\ \A i \in b..(e - 1) : text[i + 1] \notin {"#"}
  BY <1>3, FirstIs DEF LineEnd
<1> HIDE DEF e
<1>5. ASSUME NEW i \in (b + 1)..e
      PROVE  i \in (b + 1)..Len(text) /\ text[i] \notin {"\n", "#"}
  <2>1. i - 1 \in b..(e - 1) /\ i - 1 \in b..(s - 1) /\ (i - 1) + 1 = i
    BY <1>1, <1>2, <1>4
  <2>2. text[(i - 1) + 1] # "\n" /\ text[(i - 1) + 1] # "#"
    BY <1>2, <1>4, <2>1
  <2>3. i \in (b + 1)..Len(text)
    BY <1>1, <1>2, <1>4
  <2> QED BY <2>1, <2>2, <2>3
<1>6. ASSUME NEW i \in (b + 1)..Len(text), i > e
      PROVE  e + 1 \in (b + 1)..i /\ text[e + 1] \in {"\n", "#"}
  BY <1>1, <1>2, <1>4, <1>6
<1>7. InLine(b) = (b + 1)..e
  <2>1. ASSUME NEW i \in (b + 1)..e PROVE i \in InLine(b)
    <3>1. \A j \in (b + 1)..i : j \in (b + 1)..e
      BY <1>1, <1>4
    <3> QED BY <1>5, <3>1 DEF InLine
  <2>2. ASSUME NEW i \in InLine(b) PROVE i \in (b + 1)..e
    <3>1. i \in (b + 1)..Len(text) /\ \A j \in (b + 1)..i : text[j] \notin {"\n", "#"}
      BY DEF InLine
    <3>2. ~ i > e
      BY <1>6, <3>1
    <3> QED BY <1>1, <1>4, <3>1, <3>2
  <2> QED BY <2>1, <2>2
<1>8. e \in Position
  BY <1>1, <1>2, <1>4 DEF Position
<1>9. /\ s \in b..Len(text)
      /\ s = Len(text) \/ text[s + 1] = "\n"
      /\ \A i \in b..(s - 1) : text[i + 1] # "\n"
      /\ e \in b..s /\ e \in Position /\ b \in Nat
      /\ InLine(b) = (b + 1)..e
  BY <1>1, <1>2, <1>4, <1>7, <1>8
<1> QED BY <1>9 DEF s, e

-----------------------------------------------------------------------------
(* From where a word begins to where next_space stops is a word of the line, *)
(* and its last character the next of the line's last characters.            *)
LEMMA WordAhead ==
  ASSUME text \in Seq(STRING), NEW b \in Nat, NEW e \in Position, b <= e,
         InLine(b) = (b + 1)..e, NEW q \in b..(e - 1), NEW r,
         r = next_space[e][q],
         ~ IsSpace(text[q + 1]), q = b \/ IsSpace(text[q])
  PROVE  /\ r \in (q + 1)..e /\ r \in Ends(b)
         /\ r = e \/ IsSpace(text[r + 1])
         /\ String(q, r) = WordAt(b, r) /\ String(q, r) # <<>>
         /\ {j \in Ends(b) : j <= r} = {j \in Ends(b) : j <= q} \cup {r}
         /\ r \notin {j \in Ends(b) : j <= q}
<1>1. Len(text) \in Nat /\ e \in 0..Len(text) /\ q \in 0..e /\ q \in Nat /\ q < e /\ e \in Nat
  BY LenProperties DEF Position
<1>2. /\ r \in q..e
      /\ r = e \/ IsSpace(text[r + 1])
      /\ \A i \in q..(r - 1) : ~ IsSpace(text[i + 1])
  BY <1>1, SpaceIs
<1>3. r \in (q + 1)..e /\ r \in Nat
  BY <1>1, <1>2
<1>4. ASSUME NEW i \in (q + 1)..r PROVE i \in WordChars(b)
  <2>1. i \in (b + 1)..e /\ i - 1 \in q..(r - 1) /\ (i - 1) + 1 = i
    BY <1>1, <1>3
  <2>2. ~ IsSpace(text[(i - 1) + 1])
    BY <1>2, <2>1
  <2> QED BY <2>1, <2>2 DEF WordChars
<1>5. r + 1 \notin WordChars(b)
  <2>1. CASE r = e
    <3>1. r + 1 \notin (b + 1)..e
      BY <1>1, <2>1
    <3> QED BY <3>1 DEF WordChars
  <2>2. CASE IsSpace(text[r + 1])
    BY <2>2 DEF WordChars
  <2> QED BY <1>2, <2>1, <2>2
<1>6. r \in Ends(b)
  BY <1>3, <1>4, <1>5 DEF Ends
<1>7. \A j \in Ends(b) : j \in Nat /\ j \in WordChars(b) /\ j + 1 \notin WordChars(b)
  BY DEF Ends, WordChars
<1>8. ASSUME NEW j \in Ends(b), j <= r, j > q PROVE j = r
  <2>1. ASSUME j # r PROVE FALSE
    <3>1. j + 1 \in (q + 1)..r
      BY <1>3, <1>7, <1>8, <2>1
    <3> QED BY <1>4, <1>7, <3>1
  <2> QED BY <2>1
<1>9. {j \in Ends(b) : j <= r} = {j \in Ends(b) : j <= q} \cup {r}
  <2>1. \A j \in Ends(b) : j <= r => j <= q \/ j = r
    BY <1>1, <1>7, <1>8
  <2>2. \A j \in Ends(b) : j <= q => j <= r
    BY <1>1, <1>3, <1>7
  <2>3. r <= r
    BY <1>3
  <2> QED BY <1>6, <2>1, <2>2, <2>3
<1>10. ~ r <= q
  BY <1>1, <1>3
<1>11. String(q, r) # <<>>
  <2>1. \A i \in (q + 1)..r : text[i] \in STRING
    <3>1. \A i \in (q + 1)..r : i \in 1..Len(text)
      BY <1>1, <1>3
    <3> QED BY <3>1, ElementOfSeq
  <2>2. Len(SubSeq(text, q + 1, r)) = IF q + 1 <= r THEN r - (q + 1) + 1 ELSE 0
    BY <1>1, <1>3, <2>1, SubSeqProperties
  <2>3. Len(SubSeq(text, q + 1, r)) # 0
    BY <1>1, <1>3, <2>2
  <2>4. Len(<<>>) = 0
    BY EmptySeq
  <2> QED BY <2>3, <2>4 DEF String
<1>12. String(q, r) = WordAt(b, r)
  <2> DEFINE S == {j \in WordChars(b) : j..r \subseteq WordChars(b)}
  <2>1. q + 1 \in S
    <3>1. q + 1 \in (q + 1)..r
      BY <1>1, <1>3
    <3> QED BY <1>4, <3>1
  <2>2. S \in SUBSET Nat
    BY DEF WordChars
  <2>3. ASSUME NEW j \in S, j < q + 1 PROVE FALSE
    <3>1. j \in (b + 1)..e /\ j <= q
      BY <1>1, <2>3 DEF WordChars
    <3>2. q # b /\ q \in j..r
      BY <1>1, <1>3, <3>1
    <3>3. q \in WordChars(b)
      BY <3>2
    <3> QED BY <3>2, <3>3 DEF WordChars
  <2>4. Min(S) \in S /\ \A k \in S : Min(S) <= k
    <3> HIDE DEF S
    <3> QED BY <2>1, <2>2, MinIsLeast
  <2>5. Min(S) = q + 1
    <3> HIDE DEF S
    <3>1. Min(S) \in Nat /\ Min(S) <= q + 1 /\ ~ Min(S) < q + 1
      BY <2>1, <2>2, <2>3, <2>4
    <3> QED BY <1>1, <3>1
  <2>6. WordAt(b, r) = SubSeq(text, Min(S), r)
    BY DEF WordAt
  <2> HIDE DEF S
  <2> QED BY <2>5, <2>6 DEF String
<1> QED BY <1>2, <1>3, <1>6, <1>9, <1>10, <1>11, <1>12

LEMMA EndsFinite ==
  ASSUME text \in Seq(STRING), NEW b \in Nat, NEW p
  PROVE  /\ Ends(b) \in SUBSET Nat /\ IsFiniteSet(Ends(b))
         /\ IsFiniteSet({j \in Ends(b) : j <= p})
         /\ Cardinality(Ends(b)) \in Nat
         /\ Cardinality({j \in Ends(b) : j <= p}) \in Nat
         /\ Cardinality({j \in Ends(b) : j <= p}) <= Cardinality(Ends(b))
<1>1. Len(text) \in Nat
  BY LenProperties
<1>2. IsFiniteSet((b + 1)..Len(text))
  <2>1. b + 1 \in Int /\ Len(text) \in Int
    BY <1>1
  <2> QED BY <2>1, FS_Interval
<1>3. Ends(b) \in SUBSET ((b + 1)..Len(text))
  BY DEF Ends, WordChars, InLine
<1>4. IsFiniteSet(Ends(b))
  BY <1>2, <1>3, FS_Subset
<1>5. {j \in Ends(b) : j <= p} \in SUBSET Ends(b)
  OBVIOUS
<1>6. Ends(b) \in SUBSET Nat
  BY <1>1, <1>3
<1> QED BY <1>4, <1>5, <1>6, FS_Subset, FS_CardinalityType

(* The word that ends with r is the one with r's number.                     *)
LEMMA WordIs ==
  ASSUME text \in Seq(STRING), NEW b \in Nat, NEW r \in Ends(b), NEW k \in Nat,
         Cardinality({j \in Ends(b) : j <= r}) = k
  PROVE  k <= Cardinality(Ends(b)) /\ Word(b, k) = WordAt(b, r)
<1> DEFINE i == CHOOSE i \in Ends(b) : Cardinality({j \in Ends(b) : j <= i}) = k
<1>1. k <= Cardinality(Ends(b)) /\ Cardinality(Ends(b)) \in Nat
  BY EndsFinite
<1>2. i \in Ends(b) /\ Cardinality({j \in Ends(b) : j <= i}) = k
  OBVIOUS
<1>3. Word(b, k) = WordAt(b, i)
  BY <1>1 DEF Word
<1> HIDE DEF i
<1>4. i = r
  BY <1>2, EndsFinite, RankTells
<1> QED BY <1>1, <1>3, <1>4

(* A line's reach, and the end of its k-th word.                             *)
LineTo(b, e) ==
  b \in Nat /\ e \in Position /\ b <= e /\ InLine(b) = (b + 1)..e

WordEnd(b, e, k, p) ==
  /\ p \in b..e /\ k \in Nat
  /\ p = e \/ IsSpace(text[p + 1])
  /\ Cardinality({j \in Ends(b) : j <= p}) = k

(* The word between m and r is the next one, or there is none.               *)
Following(b, e, k, m, r) ==
  /\ String(m, r) = Word(b, k + 1)
  /\ m # e => String(m, r) # <<>> /\ WordEnd(b, e, k + 1, r)
  /\ m = e => String(m, r) = <<>> /\ WordEnd(b, e, k, r) /\ Cardinality(Ends(b)) = k

(* eat_space and next_space, from the end of the k-th word.                  *)
LEMMA WordAfter ==
  ASSUME text \in Seq(STRING), NEW b, NEW e, LineTo(b, e), NEW k, NEW p, WordEnd(b, e, k, p),
         NEW m, NEW r, m = eat_space[e][p], r = next_space[e][m]
  PROVE  Following(b, e, k, m, r)
<1>0. /\ b \in Nat /\ e \in Position /\ b <= e /\ InLine(b) = (b + 1)..e
      /\ p \in b..e /\ k \in Nat
      /\ p = e \/ IsSpace(text[p + 1])
      /\ Cardinality({j \in Ends(b) : j <= p}) = k
  BY DEF LineTo, WordEnd
<1>1. Len(text) \in Nat /\ e \in 0..Len(text) /\ p \in 0..e /\ p \in Nat /\ e \in Nat
  BY <1>0, LenProperties DEF Position
<1>2. /\ m \in p..e
      /\ m = e \/ ~ IsSpace(text[m + 1])
      /\ \A i \in p..(m - 1) : IsSpace(text[i + 1])
  BY <1>0, <1>1, BlankIs
<1>3. m \in 0..e /\ m \in Nat /\ m \in b..e
  BY <1>0, <1>1, <1>2
<1>4. \A j \in Ends(b) : j \in (b + 1)..e /\ ~ IsSpace(text[j])
  BY <1>0 DEF Ends, WordChars
<1>5. {j \in Ends(b) : j <= m} = {j \in Ends(b) : j <= p}
  <2>1. ASSUME NEW j \in Ends(b), j <= m, ~ j <= p PROVE FALSE
    <3>1. j - 1 \in p..(m - 1) /\ (j - 1) + 1 = j
      BY <1>1, <1>3, <1>4, <2>1
    <3>2. IsSpace(text[(j - 1) + 1])
      BY <1>2, <3>1
    <3> QED BY <1>4, <3>1, <3>2
  <2>2. \A j \in Ends(b) : j <= p => j <= m
    BY <1>1, <1>2, <1>4
  <2> QED BY <2>1, <2>2
<1>6. CASE m = e
  <2>1. r = e
    <3>1. r \in m..e
      BY <1>0, <1>3, SpaceIs
    <3> QED BY <1>1, <1>6, <3>1
  <2>2. String(m, r) = <<>>
    BY <1>1, <1>6, <2>1, SubSeqEmpty DEF String
  <2>3. {j \in Ends(b) : j <= m} = Ends(b)
    BY <1>1, <1>4, <1>6
  <2>4. Cardinality(Ends(b)) = k
    BY <1>0, <1>5, <2>3
  <2>5. Word(b, k + 1) = <<>>
    BY <1>0, <2>4 DEF Word
  <2>6. WordEnd(b, e, k, r)
    BY <1>0, <1>3, <1>6, <2>1, <2>3, <2>4 DEF WordEnd
  <2> QED BY <1>6, <2>2, <2>4, <2>5, <2>6 DEF Following
<1>7. CASE m # e
  <2>1. ~ IsSpace(text[m + 1]) /\ m \in b..(e - 1)
    BY <1>0, <1>1, <1>2, <1>3, <1>7
  <2>2. m = b \/ IsSpace(text[m])
    <3>1. m # p
      BY <1>0, <1>7, <2>1
    <3>2. m - 1 \in p..(m - 1) /\ (m - 1) + 1 = m
      BY <1>1, <1>2, <1>3, <3>1
    <3>3. IsSpace(text[(m - 1) + 1])
      BY <1>2, <3>2
    <3> QED BY <3>2, <3>3
  <2>3. /\ r \in (m + 1)..e /\ r \in Ends(b)
        /\ r = e \/ IsSpace(text[r + 1])
        /\ String(m, r) = WordAt(b, r) /\ String(m, r) # <<>>
        /\ {j \in Ends(b) : j <= r} = {j \in Ends(b) : j <= m} \cup {r}
        /\ r \notin {j \in Ends(b) : j <= m}
    <3>1. /\ b \in Nat /\ e \in Position /\ b <= e
          /\ InLine(b) = (b + 1)..e /\ m \in b..(e - 1)
          /\ ~ IsSpace(text[m + 1])
          /\ m = b \/ IsSpace(text[m])
      BY <1>0, <2>1, <2>2
    <3> QED BY <3>1, WordAhead
  <2>4. Cardinality({j \in Ends(b) : j <= r}) = k + 1
    <3>1. IsFiniteSet({j \in Ends(b) : j <= m})
      BY <1>0, EndsFinite
    <3>2. Cardinality({j \in Ends(b) : j <= m} \cup {r})
            = IF r \in {j \in Ends(b) : j <= m} THEN Cardinality({j \in Ends(b) : j <= m})
              ELSE Cardinality({j \in Ends(b) : j <= m}) + 1
      BY <3>1, FS_AddElement
    <3>3. Cardinality({j \in Ends(b) : j <= m}) = k
      BY <1>0, <1>5
    <3> QED BY <2>3, <3>2, <3>3
  <2>5. Word(b, k + 1) = WordAt(b, r)
    <3>1. b \in Nat /\ r \in Ends(b) /\ k + 1 \in Nat
      BY <1>0, <2>3
    <3> QED BY <2>3, <2>4, <3>1, WordIs
  <2>6. r \in b..e /\ k + 1 \in Nat
    BY <1>0, <1>1, <1>3, <2>3
  <2>7. WordEnd(b, e, k + 1, r)
    BY <2>3, <2>4, <2>6 DEF WordEnd
  <2> QED BY <1>7, <2>3, <2>5, <2>7 DEF Following
<1> QED BY <1>6, <1>7

-----------------------------------------------------------------------------
(* A line of the table: the parser sees three words where there is an entry, *)
(* and nothing else, and the four words it has are the entry's.              *)
Arguments(b) == <<Word(b, 1), Relative(Word(b, 2)), Word(b, 3), Word(b, 4)>>

Parsed(b) == Words[LineEnd(b, First({"\n"})[Len(text)][b])][b]

LEMMA LineSaysEntry ==
  ASSUME text \in Seq(STRING), NEW b \in Starts, NEW w, w = Parsed(b)
  PROVE  /\ (\E i \in 1..3 : w[i] = <<>>) <=> b \notin Entries
         /\ b \in Entries => <<w[1], Relative(w[2]), w[3], w[4]>> = Arguments(b)
<1> DEFINE e  == LineEnd(b, First({"\n"})[Len(text)][b])
           r1 == next_space[e][b]
           m2 == eat_space[e][r1]
           r2 == next_space[e][m2]
           m3 == eat_space[e][r2]
           r3 == next_space[e][m3]
           m4 == eat_space[e][r3]
           r4 == next_space[e][m4]
<1>1. e \in Position /\ b \in Nat /\ InLine(b) = (b + 1)..e /\ b <= e /\ b \in Position
  <2>1. Len(text) \in Nat /\ b \in 0..Len(text)
    BY LenProperties DEF Starts
  <2>2. e \in b..(First({"\n"})[Len(text)][b]) /\ e \in Position /\ b \in Nat /\ InLine(b) = (b + 1)..e
    BY LineIs
  <2> HIDE DEF e
  <2> QED BY <2>1, <2>2 DEF Position
<1>2. w = <<String(b, r1), String(m2, r2), String(m3, r3), String(m4, r4)>>
  BY <1>1 DEF Words, Parsed
<1>3. Len(text) \in Nat /\ e \in 0..Len(text) /\ e \in Nat /\ b \in 0..e
  <2> HIDE DEF e
  <2> QED BY <1>1, LenProperties DEF Position
<1>4. r1 \in b..e /\ (r1 = e \/ IsSpace(text[r1 + 1]))
  <2> HIDE DEF e
  <2> QED BY <1>1, <1>3, SpaceIs
<1>0. /\ r1 = next_space[e][b]
      /\ m2 = eat_space[e][r1] /\ r2 = next_space[e][m2]
      /\ m3 = eat_space[e][r2] /\ r3 = next_space[e][m3]
      /\ m4 = eat_space[e][r3] /\ r4 = next_space[e][m4]
  OBVIOUS
<1> HIDE DEF e, r1, m2, r2, m3, r3, m4, r4
<1>5. w[1] = String(b, r1) /\ w[2] = String(m2, r2) /\ w[3] = String(m3, r3) /\ w[4] = String(m4, r4)
  BY <1>2
<1>6. CASE b + 1 \notin WordChars(b)
  <2>1. r1 = b
    <3>1. b = e \/ IsSpace(text[b + 1])
      BY <1>1, <1>3, <1>6 DEF WordChars
    <3> QED BY <1>1, <1>3, <3>1, SpaceIs DEF r1
  <2>2. w[1] = <<>>
    BY <1>1, <1>5, <2>1, SubSeqEmpty DEF String
  <2> QED BY <1>6, <2>2 DEF Entries
<1>7. CASE b + 1 \in WordChars(b)
  <2>1. b \in b..(e - 1) /\ ~ IsSpace(text[b + 1])
    BY <1>1, <1>3, <1>7 DEF WordChars
  <2>2. /\ r1 \in (b + 1)..e /\ r1 \in Ends(b)
        /\ r1 = e \/ IsSpace(text[r1 + 1])
        /\ String(b, r1) = WordAt(b, r1) /\ String(b, r1) # <<>>
        /\ {j \in Ends(b) : j <= r1} = {j \in Ends(b) : j <= b} \cup {r1}
        /\ r1 \notin {j \in Ends(b) : j <= b}
    <3>1. /\ text \in Seq(STRING) /\ b \in Nat /\ e \in Position /\ b <= e
          /\ InLine(b) = (b + 1)..e /\ b \in b..(e - 1)
          /\ r1 = next_space[e][b]
          /\ ~ IsSpace(text[b + 1])
      BY <1>1, <1>0, <2>1
    <3> QED BY <3>1, WordAhead
  <2>3. Cardinality({j \in Ends(b) : j <= r1}) = 1
    <3>1. \A j \in Ends(b) : ~ j <= b
      BY <1>1, <1>3 DEF Ends, WordChars
    <3>2. {j \in Ends(b) : j <= r1} = {r1}
      BY <2>2, <3>1
    <3> QED BY <3>2, FS_Singleton
  <2>4. String(b, r1) = Word(b, 1)
    BY <1>1, <2>2, <2>3, WordIs
  <2>5. LineTo(b, e) /\ WordEnd(b, e, 1, r1)
    <3>1. r1 \in b..e /\ 1 \in Nat
      BY <1>4
    <3> QED BY <1>1, <2>2, <2>3, <3>1 DEF LineTo, WordEnd
  <2>6. Following(b, e, 1, m2, r2)
    BY <1>0, <2>5, WordAfter
  <2>7. PICK k2 : WordEnd(b, e, k2, r2) /\ (m2 # e => k2 = 1 + 1) /\ (m2 = e => k2 = 1)
    BY <2>6 DEF Following
  <2>8. Following(b, e, k2, m3, r3)
    BY <1>0, <2>5, <2>7, WordAfter
  <2>9. PICK k3 : WordEnd(b, e, k3, r3) /\ (m3 # e => k3 = k2 + 1)
    BY <2>8 DEF Following
  <2>10. Following(b, e, k3, m4, r4)
    BY <1>0, <2>5, <2>9, WordAfter
  <2>11. k2 \in Nat /\ k3 \in Nat /\ Cardinality(Ends(b)) \in Nat /\ k3 <= Cardinality(Ends(b))
    BY <1>1, <2>7, <2>9, EndsFinite DEF WordEnd
  <2>12. w[1] # <<>>
    BY <1>5, <2>2
  <2>13. ASSUME m2 = e PROVE w[2] = <<>> /\ Cardinality(Ends(b)) = 1
    BY <1>5, <2>6, <2>13 DEF Following
  <2>14. ASSUME m2 # e, m3 = e PROVE w[3] = <<>> /\ Cardinality(Ends(b)) = 2
    BY <1>5, <2>7, <2>8, <2>14 DEF Following
  <2>15. ASSUME m2 # e, m3 # e
         PROVE  w[2] # <<>> /\ w[3] # <<>> /\ Cardinality(Ends(b)) >= 3 /\ k2 = 2 /\ k3 = 3
    <3>1. k2 = 1 + 1 /\ k3 = k2 + 1
      BY <2>7, <2>9, <2>15
    <3>2. w[2] # <<>> /\ w[3] # <<>>
      BY <1>5, <2>6, <2>8, <2>15 DEF Following
    <3> QED BY <2>11, <3>1, <3>2
  <2>16. (\E i \in 1..3 : w[i] = <<>>) <=> w[2] = <<>> \/ w[3] = <<>>
    BY <2>12
  <2>17. b \in Entries <=> Cardinality(Ends(b)) >= 3
    BY <1>7 DEF Entries
  <2>18. b \in Entries <=> m2 # e /\ m3 # e
    BY <2>13, <2>14, <2>15, <2>17
  <2>19. w[2] = <<>> \/ w[3] = <<>> <=> ~ (m2 # e /\ m3 # e)
    BY <2>13, <2>14, <2>15
  <2>20. ASSUME b \in Entries
         PROVE  <<w[1], Relative(w[2]), w[3], w[4]>> = Arguments(b)
    <3>1. k2 = 2 /\ k3 = 3
      BY <2>15, <2>18, <2>20
    <3>2. /\ String(m2, r2) = Word(b, 1 + 1) /\ String(m3, r3) = Word(b, k2 + 1)
          /\ String(m4, r4) = Word(b, k3 + 1)
      BY <2>6, <2>8, <2>10 DEF Following
    <3>3. w[1] = Word(b, 1) /\ w[2] = Word(b, 2) /\ w[3] = Word(b, 3) /\ w[4] = Word(b, 4)
      BY <1>5, <2>4, <3>1, <3>2
    <3> QED BY <3>3 DEF Arguments
  <2> QED BY <2>16, <2>18, <2>19, <2>20
<1> QED BY <1>6, <1>7

-----------------------------------------------------------------------------
(* The entries before character n, and the number of an entry.               *)
Before(n) == {c \in Entries : c < n}
Rank(b)   == Cardinality({c \in Entries : c <= b})

(* The mounts asked for are the entries before n.                            *)
MountedTo(n) ==
  /\ calls \in Seq({Arguments(b) : b \in Entries})
  /\ Len(calls) = Cardinality(Before(n))
  /\ \A b \in Before(n) : calls[Rank(b)] = Arguments(b)

(* Nothing has been read until mmap(); from then on the parser stands where  *)
(* a line begins or the table ends, and has mounted what is before.          *)
Unread == text = <<>> /\ fstab = 0 /\ calls = <<>> /\ ~ mapped

Reading ==
  /\ phase \in {"open", "fstat", "mmap"} => Unread
  /\ phase = "parse" /\ mapped /\ ~ fault =>
       fstab \in Starts \cup {Len(text)} /\ MountedTo(fstab)

PInv == FInv /\ FstabTypeOK /\ Reading /\ MountsAreEntries

LEMMA TextIsSeq ==
  ASSUME FstabTypeOK
  PROVE  /\ text \in Seq(STRING) /\ Len(text) \in Nat /\ fstab \in 0..Len(text)
         /\ Len(text) \in Position /\ 0 \in Position
<1>1. text \in Seq(STRING)
  BY FstabAssumption, EmptySeq DEF FstabTypeOK
<1> QED BY <1>1, LenProperties DEF FstabTypeOK, Position

LEMMA EntriesFinite ==
  ASSUME text \in Seq(STRING), NEW S \in SUBSET Entries
  PROVE  IsFiniteSet(S) /\ Cardinality(S) \in Nat /\ Entries \in SUBSET Nat
<1>1. Len(text) \in Nat
  BY LenProperties
<1>2. IsFiniteSet(0..(Len(text) - 1))
  <2>1. 0 \in Int /\ Len(text) - 1 \in Int
    BY <1>1
  <2> QED BY <2>1, FS_Interval
<1>3. S \in SUBSET (0..(Len(text) - 1)) /\ Entries \in SUBSET (0..(Len(text) - 1))
  BY DEF Entries, Starts
<1>4. IsFiniteSet(S)
  BY <1>2, <1>3, FS_Subset
<1>5. Entries \in SUBSET Nat
  BY <1>1, <1>3
<1> QED BY <1>4, <1>5, FS_CardinalityType

(* The element of S with number k.                                           *)
Nth(S, k) == CHOOSE i \in S : Cardinality({j \in S : j <= i}) = k

(* What the table says is the same while the table is.                       *)
LEMMA SameTable ==
  ASSUME text' = text
  PROVE  /\ Starts' = Starts /\ Entries' = Entries
         /\ \A b : (Arguments(b))' = Arguments(b)
<1>1. Starts' = Starts
  BY DEF Starts
<1>2. \A b : InLine(b)' = InLine(b)
  BY DEF InLine
<1>3. \A b : WordChars(b)' = WordChars(b)
  BY <1>2 DEF WordChars
<1>4. \A b : Ends(b)' = Ends(b)
  BY <1>3 DEF Ends
<1>5. \A b, i : WordAt(b, i)' = WordAt(b, i)
  BY <1>3 DEF WordAt
<1>6. \A b, k : Word(b, k)' = Word(b, k)
  <2> SUFFICES ASSUME NEW b, NEW k PROVE Word(b, k)' = Word(b, k)
    OBVIOUS
  <2>1. Word(b, k) = IF Cardinality(Ends(b)) < k THEN <<>> ELSE WordAt(b, Nth(Ends(b), k))
    BY DEF Word, Nth
  <2>2. (Word(b, k) = IF Cardinality(Ends(b)) < k THEN <<>> ELSE WordAt(b, Nth(Ends(b), k)))'
    BY DEF Word, Nth
  <2>3. (Nth(Ends(b), k))' = Nth(Ends(b), k)
    BY <1>4 DEF Nth
  <2>4. (WordAt(b, Nth(Ends(b), k)))' = WordAt(b, Nth(Ends(b), k))
    BY <1>5, <2>3
  <2> QED BY <1>4, <2>1, <2>2, <2>4
<1>7. Entries' = Entries
  BY <1>1, <1>3, <1>4 DEF Entries
<1>8. \A b : (Arguments(b))' = Arguments(b)
  BY <1>6 DEF Arguments
<1> QED BY <1>1, <1>7, <1>8

-----------------------------------------------------------------------------
(* Where the loop goes on, and what it leaves behind.                        *)
LEMMA NextLineIs ==
  ASSUME text \in Seq(STRING), NEW b \in Starts, NEW s, s = First({"\n"})[Len(text)][b]
  PROVE  /\ NextLine(s) \in Starts \cup {Len(text)} /\ NextLine(s) \in 0..Len(text)
         /\ Before(NextLine(s)) = Before(b) \cup ({b} \cap Entries)
<1>1. Len(text) \in Nat /\ b \in 0..(Len(text) - 1)
  BY LenProperties DEF Starts
<1>2. /\ s \in b..Len(text)
      /\ s = Len(text) \/ text[s + 1] = "\n"
      /\ \A i \in b..(s - 1) : text[i + 1] # "\n"
  BY LineIs
<1>3. NextLine(s) \in (b + 1)..Len(text) /\ NextLine(s) <= s + 1
  BY <1>1, <1>2 DEF NextLine
<1>4. NextLine(s) \in Starts \cup {Len(text)}
  <2>1. ASSUME NextLine(s) # Len(text) PROVE NextLine(s) \in Starts
    <3>1. NextLine(s) = s + 1 /\ s # Len(text)
      BY <2>1 DEF NextLine
    <3>2. text[NextLine(s)] = "\n" /\ NextLine(s) \in 0..(Len(text) - 1)
      BY <1>1, <1>2, <1>3, <2>1, <3>1
    <3> QED BY <3>2 DEF Starts
  <2> QED BY <2>1
<1>5. ASSUME NEW c \in Starts, c < NextLine(s) PROVE c <= b
  <2>1. c \in 0..(Len(text) - 1) /\ (c = 0 \/ text[c] = "\n")
    BY DEF Starts
  <2>2. ASSUME c > b PROVE FALSE
    <3>1. c - 1 \in b..(s - 1) /\ (c - 1) + 1 = c /\ c # 0
      BY <1>1, <1>2, <1>3, <1>5, <2>1, <2>2
    <3>2. text[(c - 1) + 1] # "\n"
      BY <1>2, <3>1
    <3> QED BY <2>1, <3>1, <3>2
  <2> QED BY <1>1, <2>1, <2>2
<1>6. \A c \in Entries : c \in Starts /\ c \in Nat
  BY EntriesFinite DEF Entries
<1>7. \A c \in Entries : c < NextLine(s) <=> (c < b \/ c = b)
  <2> SUFFICES ASSUME NEW c \in Entries PROVE c < NextLine(s) <=> (c < b \/ c = b)
    OBVIOUS
  <2>1. c < NextLine(s) => c <= b
    BY <1>5, <1>6
  <2>2. c <= b => c < NextLine(s)
    BY <1>1, <1>3, <1>6
  <2> QED BY <1>1, <1>6, <2>1, <2>2
<1>8. Before(NextLine(s)) = Before(b) \cup ({b} \cap Entries)
  BY <1>7 DEF Before
<1>9. NextLine(s) \in 0..Len(text)
  BY <1>1, <1>3
<1> QED BY <1>4, <1>8, <1>9

(* One more mount, with the words of the entry at b.                         *)
LEMMA MountCounts ==
  ASSUME text \in Seq(STRING), NEW b \in Entries, MountedTo(b), NEW n,
         Before(n) = Before(b) \cup {b},
         text' = text, calls' = Append(calls, Arguments(b))
  PROVE  /\ calls' \in Seq({Arguments(c) : c \in Entries})
         /\ Len(calls') = Cardinality(Before(n))
         /\ \A c \in Before(n) : calls'[Rank(c)] = Arguments(c)
<1> DEFINE T == {Arguments(c) : c \in Entries}
<1>1. /\ calls \in Seq(T) /\ Arguments(b) \in T
      /\ Len(calls) = Cardinality(Before(b))
      /\ \A c \in Before(b) : calls[Rank(c)] = Arguments(c)
  BY DEF MountedTo
<1> HIDE DEF T
<1>2. /\ calls' \in Seq(T) /\ Len(calls') = Len(calls) + 1 /\ Len(calls) \in Nat
      /\ \A i \in 1..Len(calls) : calls'[i] = calls[i]
      /\ calls'[Len(calls) + 1] = Arguments(b)
  BY <1>1, AppendProperties, LenProperties
<1>3. Entries \in SUBSET Nat
  BY EntriesFinite
<1>4. Before(b) \in SUBSET Entries /\ b \notin Before(b) /\ IsFiniteSet(Before(b))
  <2>1. Before(b) \in SUBSET Entries /\ b \notin Before(b)
    BY <1>3 DEF Before
  <2> QED BY <2>1, EntriesFinite
<1>5. Cardinality(Before(b) \cup {b}) = Cardinality(Before(b)) + 1
  BY <1>4, FS_AddElement
<1>6. Rank(b) = Len(calls) + 1
  <2>1. \A c \in Entries : c <= b <=> (c < b \/ c = b)
    BY <1>3
  <2>2. {c \in Entries : c <= b} = {c \in Entries : c < b} \cup {b}
    BY <2>1
  <2> QED BY <1>1, <1>5, <2>2 DEF Rank, Before
<1>7. ASSUME NEW c \in Before(b) PROVE Rank(c) \in 1..Len(calls)
  <2> DEFINE U == {d \in Entries : d <= c}
  <2>1. U \in SUBSET Before(b) /\ c \in U /\ U \in SUBSET Entries
    <3>1. c \in Entries /\ c < b /\ c <= c
      BY <1>3 DEF Before
    <3>2. \A d \in Entries : d <= c => d < b
      BY <1>3, <3>1
    <3> QED BY <3>1, <3>2 DEF Before
  <2> HIDE DEF U
  <2>2. Cardinality(U) <= Cardinality(Before(b)) /\ IsFiniteSet(U)
    BY <1>4, <2>1, FS_Subset
  <2>3. Cardinality(U) \in Nat /\ Cardinality(U) # 0
    BY <2>1, <2>2, FS_CardinalityType, FS_EmptySet
  <2> QED BY <1>1, <1>2, <2>2, <2>3 DEF Rank, U
<1>8. \A c \in Before(n) : calls'[Rank(c)] = Arguments(c)
  BY <1>1, <1>2, <1>6, <1>7
<1>9. Len(calls') = Cardinality(Before(n))
  BY <1>1, <1>2, <1>5
<1> QED BY <1>2, <1>8, <1>9 DEF T

(* A turn of the loop.                                                       *)
LEMMA ParseLineStep ==
  ASSUME FstabTypeOK, Reading, ParseLine, ~ fault'
  PROVE  (fstab \in Starts \cup {Len(text)} /\ MountedTo(fstab))'
<1> DEFINE s == First({"\n"})[Len(text)][fstab]
           w == Parsed(fstab)
<1>1. text \in Seq(STRING) /\ Len(text) \in Nat
  BY TextIsSeq
<1>2. /\ phase = "parse" /\ ~ fault /\ mapped /\ fstab # Len(text)
      /\ parse_fstab_line(fstab, s)
      /\ fstab' = NextLine(s) /\ UNCHANGED <<phase, fd, text, mapped>>
  BY DEF ParseLine, At
<1>3. fstab \in Starts /\ MountedTo(fstab)
  BY <1>2 DEF Reading
<1>4. Starts' = Starts /\ Entries' = Entries /\ \A b : (Arguments(b))' = Arguments(b)
  BY <1>2, SameTable
<1>5. /\ NextLine(s) \in Starts \cup {Len(text)}
      /\ Before(NextLine(s)) = Before(fstab) \cup ({fstab} \cap Entries)
  <2> HIDE DEF s
  <2>1. s = First({"\n"})[Len(text)][fstab]
    BY DEF s
  <2> QED BY <1>1, <1>3, <2>1, NextLineIs
<1>6. /\ (\E i \in 1..3 : w[i] = <<>>) <=> fstab \notin Entries
      /\ fstab \in Entries => <<w[1], Relative(w[2]), w[3], w[4]>> = Arguments(fstab)
  <2> HIDE DEF w
  <2>1. w = Parsed(fstab)
    BY DEF w
  <2> QED BY <1>1, <1>3, <2>1, LineSaysEntry
<1>7. IF \E i \in 1..3 : w[i] = <<>> THEN UNCHANGED calls
      ELSE calls' = Append(calls, <<w[1], Relative(w[2]), w[3], w[4]>>)
  <2>1. Words[LineEnd(fstab, s)][fstab] = w
    BY DEF Parsed
  <2>2. IF \E i \in 1..3 : w[i] = <<>> THEN UNCHANGED <<vars, calls>>
        ELSE \/ mount(<<w[1], Relative(w[2]), w[3], w[4]>>)
             \/ Fault /\ UNCHANGED <<Vfs, Strings, drifted, calls>>
    BY <1>2, <2>1 DEF parse_fstab_line
  <2> HIDE DEF w, s
  <2>3. ~ Fault
    BY DEF Fault
  <2> QED BY <2>2, <2>3 DEF mount
<1> HIDE DEF s, w
<1>8. /\ calls' \in Seq({Arguments(c) : c \in Entries})
      /\ Len(calls') = Cardinality(Before(NextLine(s)))
      /\ \A c \in Before(NextLine(s)) : calls'[Rank(c)] = Arguments(c)
  <2>1. CASE fstab \in Entries
    <3>1. Before(NextLine(s)) = Before(fstab) \cup {fstab}
      BY <1>5, <2>1
    <3>2. calls' = Append(calls, Arguments(fstab))
      BY <1>6, <1>7, <2>1
    <3> QED BY <1>1, <1>2, <1>3, <2>1, <3>1, <3>2, MountCounts
  <2>2. CASE fstab \notin Entries
    <3>1. Before(NextLine(s)) = Before(fstab) /\ calls' = calls
      BY <1>5, <1>6, <1>7, <2>2
    <3> QED BY <1>3, <3>1 DEF MountedTo
  <2> QED BY <2>1, <2>2
<1>9. MountedTo(fstab)'
  <2>1. {Arguments(c) : c \in Entries}' = {Arguments(c) : c \in Entries}
    BY <1>4
  <2>2. Before(fstab)' = Before(NextLine(s))
    BY <1>2, <1>4 DEF Before
  <2>3. \A c : Rank(c)' = Rank(c)
    BY <1>4 DEF Rank
  <2> QED BY <1>4, <1>8, <2>1, <2>2, <2>3 DEF MountedTo
<1>10. (fstab \in Starts \cup {Len(text)})'
  BY <1>2, <1>4, <1>5
<1> QED BY <1>9, <1>10

-----------------------------------------------------------------------------
LEMMA FstabTypeStep ==
  ASSUME PInv, [FstabNext]_fstabVars
  PROVE  FstabTypeOK'
<1> USE DEF PInv
<1>1. FInv' /\ TypeOK'
  BY FInvNext DEF FInv, IInv
<1>2. phase' \in Opened => fd' \in Fd
  BY <1>1 DEF FInv, OnlyOurs
<1>3. /\ phase \in Opened \cup {"open", "main"} /\ fd \in Fd \cup {-1}
      /\ text \in Text \cup {<<>>} /\ mapped \in BOOLEAN
      /\ fstab \in 0..Len(text) /\ text \in Seq(STRING) /\ Len(text) \in Nat
  BY TextIsSeq DEF FstabTypeOK, Opened
<1> DEFINE Rest == /\ phase' \in Opened \cup {"open", "main"} /\ fd' \in Fd \cup {-1}
                   /\ text' \in Text \cup {<<>>} /\ mapped' \in BOOLEAN
                   /\ fstab' \in 0..Len(text')
<1> SUFFICES Rest
  BY <1>1 DEF FstabTypeOK, Opened
<1>4. CASE InitOpen
  BY <1>2, <1>3, <1>4 DEF InitOpen, Opened
<1>5. CASE InitStat
  BY <1>3, <1>5 DEF InitStat, Opened
<1>6. CASE InitMap
  <2>1. phase' = "parse" /\ text' \in Text /\ mapped' \in BOOLEAN /\ UNCHANGED <<fd, fstab>>
    BY <1>6 DEF InitMap
  <2>2. fstab = 0
    BY <1>6 DEF InitMap, At, Reading, Unread
  <2>3. Len(text') \in Nat
    BY <2>1, FstabAssumption, LenProperties
  <2> QED BY <1>3, <2>1, <2>2, <2>3 DEF Opened
<1>7. CASE ParseLine
  <2> DEFINE s == First({"\n"})[Len(text)][fstab]
  <2>1. fstab' = NextLine(s) /\ UNCHANGED <<phase, fd, text, mapped>>
    BY <1>7 DEF ParseLine
  <2>2. s \in fstab..Len(text)
    BY <1>3, FirstIs DEF Position
  <2> HIDE DEF s
  <2>3. NextLine(s) \in 0..Len(text)
    BY <1>3, <2>2 DEF NextLine
  <2> QED BY <1>3, <2>1, <2>3
<1>8. CASE ParseEnds
  BY <1>3, <1>8 DEF ParseEnds, locals, Opened
<1>9. CASE ParseUnmapped
  BY <1>3, <1>9 DEF ParseUnmapped, locals, Opened
<1>10. CASE InitUnmap
  BY <1>3, <1>10 DEF InitUnmap, locals, Opened
<1>11. CASE InitClose
  <2>1. Len(<<>>) = 0
    BY EmptySeq
  <2>2. text' = <<>> /\ fstab' = 0
    BY <1>11 DEF InitClose
  <2>3. fstab' \in 0..Len(text')
    BY <2>1, <2>2
  <2> QED BY <1>11, <2>2, <2>3 DEF InitClose, Opened
<1>12. CASE Main
  BY <1>3, <1>12 DEF Main, locals
<1>13. CASE UNCHANGED fstabVars
  BY <1>3, <1>13 DEF fstabVars, locals
<1> HIDE DEF Rest
<1> QED BY <1>4, <1>5, <1>6, <1>7, <1>8, <1>9, <1>10, <1>11, <1>12, <1>13
        DEF FstabNext, libmount_init

LEMMA ReadingStep ==
  ASSUME PInv, [FstabNext]_fstabVars
  PROVE  Reading' /\ MountsAreEntries'
<1> USE DEF PInv
<1>0. text \in Seq(STRING) /\ Len(text) \in Nat
  BY TextIsSeq
<1>1. CASE InitOpen
  <2>1. Unread /\ UNCHANGED <<text, mapped, fstab, calls>>
    BY <1>1 DEF InitOpen, At, Reading
  <2>2. phase' \in {"fstat", "main"}
    BY <1>1 DEF InitOpen
  <2> QED BY <2>1, <2>2 DEF Reading, Unread, MountsAreEntries
<1>2. CASE InitStat
  <2>1. Unread /\ UNCHANGED <<text, mapped, fstab, calls>>
    BY <1>2 DEF InitStat, At, Reading
  <2>2. phase' \in {"mmap", "main"}
    BY <1>2 DEF InitStat
  <2> QED BY <2>1, <2>2 DEF Reading, Unread, MountsAreEntries
<1>3. CASE InitMap
  <2>1. phase' = "parse" /\ text' \in Text /\ fstab' = 0 /\ calls' = <<>>
    BY <1>3 DEF InitMap, At, Reading, Unread
  <2>2. text' \in Seq(STRING) /\ Len(text') \in Nat
    BY <2>1, FstabAssumption, LenProperties
  <2>3. (fstab \in Starts \cup {Len(text)})'
    BY <2>1, <2>2 DEF Starts
  <2>4. Before(fstab)' = {}
    <3>1. \A c \in Starts' : ~ c < 0
      BY <2>2 DEF Starts
    <3> QED BY <2>1, <3>1 DEF Before, Entries
  <2>5. MountedTo(fstab)'
    <3>1. calls' \in Seq({Arguments(b) : b \in Entries})' /\ Len(calls') = 0
      BY <2>1, EmptySeq
    <3> QED BY <2>4, <3>1, FS_EmptySet DEF MountedTo
  <2> QED BY <2>1, <2>3, <2>5 DEF Reading, MountsAreEntries
<1>4. CASE ParseLine
  <2>1. phase' = "parse"
    BY <1>4 DEF ParseLine, At
  <2> QED BY <1>4, <2>1, ParseLineStep DEF Reading, MountsAreEntries
<1>5. CASE ParseEnds
  <2>1. /\ phase = "parse" /\ ~ fault /\ mapped /\ fstab = Len(text)
        /\ phase' = "munmap" /\ UNCHANGED <<text, calls>>
    BY <1>5 DEF ParseEnds, At, locals
  <2>2. MountedTo(fstab)
    BY <2>1 DEF Reading
  <2>3. Before(fstab) = Entries
    <3>1. \A c \in Entries : c < Len(text)
      BY <1>0 DEF Entries, Starts
    <3> QED BY <2>1, <3>1 DEF Before
  <2>4. /\ Len(calls) = Cardinality(Entries)
        /\ \A b \in Entries : calls[Cardinality({c \in Entries : c <= b})] =
             <<Word(b, 1), Relative(Word(b, 2)), Word(b, 3), Word(b, 4)>>
    BY <2>2, <2>3 DEF MountedTo, Rank, Arguments
  <2>5. Entries' = Entries /\ \A b : (Arguments(b))' = Arguments(b)
    BY <2>1, SameTable
  <2>6. MountsAreEntries'
    BY <2>1, <2>4, <2>5 DEF MountsAreEntries, Arguments
  <2> QED BY <2>1, <2>6 DEF Reading
<1>6. CASE ParseUnmapped
  <2>1. ~ mapped' /\ phase' \in {"parse", "munmap"}
    BY <1>6 DEF ParseUnmapped, locals, At
  <2> QED BY <2>1 DEF Reading, MountsAreEntries
<1>7. CASE InitUnmap
  BY <1>7 DEF InitUnmap, Reading, MountsAreEntries
<1>8. CASE InitClose
  BY <1>8 DEF InitClose, Reading, MountsAreEntries
<1>9. CASE Main
  BY <1>9 DEF Main, Reading, MountsAreEntries
<1>10. CASE UNCHANGED fstabVars
  <2>1. UNCHANGED <<phase, text, mapped, fstab, calls, fault>>
    BY <1>10 DEF fstabVars, vars, locals
  <2>2. Starts' = Starts /\ Entries' = Entries /\ \A b : (Arguments(b))' = Arguments(b)
    BY <2>1, SameTable
  <2>3. MountedTo(fstab) => MountedTo(fstab)'
    <3>1. /\ {Arguments(b) : b \in Entries}' = {Arguments(b) : b \in Entries}
          /\ Before(fstab)' = Before(fstab) /\ \A b : Rank(b)' = Rank(b)
      BY <2>1, <2>2 DEF Before, Rank
    <3> QED BY <2>1, <2>2, <3>1 DEF MountedTo
  <2>4. MountsAreEntries'
    BY <2>1, <2>2 DEF MountsAreEntries, Arguments
  <2> QED BY <2>1, <2>2, <2>3, <2>4 DEF Reading, Unread
<1> QED BY <1>1, <1>2, <1>3, <1>4, <1>5, <1>6, <1>7, <1>8, <1>9, <1>10
        DEF FstabNext, libmount_init

LEMMA PInvInit == FstabInit => PInv
<1> SUFFICES ASSUME FstabInit PROVE PInv
  OBVIOUS
<1>1. FInv /\ TypeOK
  BY InitMaps DEF FInv, IInv
<1>2. Len(<<>>) = 0
  BY EmptySeq
<1>3. FstabTypeOK
  <2>1. fstab = 0 /\ Len(text) = 0
    BY <1>2 DEF FstabInit
  <2>2. fstab \in 0..Len(text)
    BY <2>1
  <2> QED BY <1>1, <2>2 DEF FstabInit, FstabTypeOK
<1>4. Reading /\ MountsAreEntries
  BY DEF FstabInit, Reading, Unread, MountsAreEntries
<1> QED BY <1>1, <1>3, <1>4 DEF PInv

LEMMA PInvAlways == FstabSpec => []PInv
<1>1. PInv /\ [FstabNext]_fstabVars => PInv'
  BY FInvNext, FstabTypeStep, ReadingStep DEF PInv
<1> QED BY <1>1, PInvInit, PTL DEF FstabSpec

(* Types of the constructor's state, and of the file backend's with it.      *)
THEOREM FstabTypeCorrect == FstabSpec => []FstabTypeOK
  BY PInvAlways, PTL DEF PInv

(* Behind its last line every table has been mounted as it says: the         *)
(* parser's turns over the text and its four searches in a line find the     *)
(* lines and the words that are there.                                       *)
THEOREM TableIsMounted == FstabSpec => []MountsAreEntries
  BY PInvAlways, PTL DEF PInv
=============================================================================
