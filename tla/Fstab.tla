------------------------------- MODULE Fstab --------------------------------
(* The constructor libmount_init of libc_backends/lib/mount/mount.cc, which  *)
(* runs before main(): it reads a table of file systems and mounts what its  *)
(* lines say.  It makes the calls of Files, and leaves the program what they *)
(* have done to descriptors and the tree.                                    *)
EXTENDS Files

CONSTANTS FstabPath,     \* FSTAB_FILE, or /etc/fstab
          Text           \* contents of the table, sequences of characters

(* A character is a string of its own.                                       *)
ASSUME FstabAssumption == FstabPath \in Arg /\ Text \subseteq Seq(STRING)

VARIABLES phase,         \* the next call of the constructor's
          fd,            \* its descriptor
          text, mapped,  \* the table, and whether mmap has mapped it
          fstab,         \* characters before the next line
          calls          \* history: arguments of mount()

locals    == <<fd, text, mapped, fstab, calls>>
fstabVars == <<vars, phase, locals>>

FstabTypeOK ==
  /\ TypeOK
  /\ phase \in {"open", "fstat", "mmap", "parse", "munmap", "close", "main"}
  /\ fd \in Fd \cup {-1} /\ text \in Text \cup {<<>>} /\ mapped \in BOOLEAN
  /\ fstab \in 0..Len(text)

-----------------------------------------------------------------------------
(* A pointer is the number of characters before it.                          *)
IsSpace(c) == c \in {" ", "\n"}

Position == 0..Len(text)

(* Where a loop stops that looks for one of stops: for each end and start.   *)
First(stops) == [end \in Position |-> [p \in Position |->
                   Min({i \in p..end : i = end \/ text[i + 1] \in stops})]]

Char == {text[i] : i \in 1..Len(text)}

next_space == First({c \in Char : IsSpace(c)})
eat_space  == First({c \in Char : ~ IsSpace(c)})

String(s, e) == SubSeq(text, s + 1, e)

CommentKept(s, eol) == eol

LineEnd(s, eol) == First({"#"})[eol][s]

(* The four words of a line; each search goes on where the last one stopped. *)
Words == [end \in Position |-> [s \in Position |->
  LET i1 == next_space[end][s]
      m  == eat_space[end][i1]
      i2 == next_space[end][m]
      f  == eat_space[end][i2]
      i3 == next_space[end][f]
      d  == eat_space[end][i3]
  IN <<String(s, i1), String(m, i2), String(f, i3), String(d, next_space[end][d])>>]]

Relative(p) == IF p[1] = "/" THEN Tail(p) ELSE p

(* mount(), of l4re_file/mount.cc: the Vfs mounts, or refuses.               *)
mount(arguments) ==
  /\ calls' = Append(calls, arguments)
  /\ (\E t \in Tree : Reshaped(t)) \/ Refused

(* A line that has no three words is passed over; strndup may fail, and its  *)
(* result is looked into.                                                    *)
parse_fstab_line(s, eol) ==
  LET end == LineEnd(s, eol)
      w   == Words[end][s]
  IN IF \E i \in 1..3 : w[i] = <<>>
     THEN UNCHANGED <<vars, calls>>
     ELSE \/ mount(<<w[1], Relative(w[2]), w[3], w[4]>>)
          \/ Fault /\ UNCHANGED <<Vfs, Strings, drifted, calls>>

-----------------------------------------------------------------------------
At(p) == phase = p /\ ~ fault

InitOpen ==
  /\ At("open") /\ open(FstabPath)
  /\ IF result' = "ok"
     THEN phase' = "fstat" /\ fd' = CHOOSE d \in Fd : fds'[d] # fds[d]
     ELSE phase' = "main" /\ UNCHANGED fd
  /\ UNCHANGED <<text, mapped, fstab, calls>>

(* It returns without a close().                                             *)
InitStat ==
  /\ At("fstat") /\ fstat(fd)
  /\ IF result' = "ok" THEN phase' = "mmap" /\ UNCHANGED fd
                       ELSE phase' = "main" /\ fd' = -1
  /\ UNCHANGED <<text, mapped, fstab, calls>>

(* mmap() fails with MAP_FAILED, that is -1, and the test is for 0.          *)
InitMap ==
  /\ At("mmap") /\ phase' = "parse" /\ text' \in Text
  /\ \E r \in {"ok", "error"} : mmap(r) /\ mapped' = (r = "ok")
  /\ UNCHANGED <<fd, fstab, calls>>

NextLinePast(eol) == eol + 1
NextLineAgain(eol) == eol

NextLine(eol) == IF eol = Len(text) THEN eol ELSE eol + 1

(* One turn of parse_fstab's loop.                                           *)
ParseLine ==
  LET s == First({"\n"})[Len(text)][fstab]
  IN /\ At("parse") /\ mapped /\ fstab # Len(text)
     /\ parse_fstab_line(fstab, s)
     /\ fstab' = NextLine(s)
     /\ UNCHANGED <<phase, fd, text, mapped>>

ParseEnds ==
  /\ At("parse") /\ mapped /\ fstab = Len(text)
  /\ phase' = "munmap" /\ UNCHANGED <<vars, locals>>

(* From address -1 on the loop takes an empty line, and then is at address 0 *)
(* and either at the end or reads there.                                     *)
ParseUnmapped ==
  /\ At("parse") /\ ~ mapped
  /\ IF Len(text) < 2 THEN phase' = "munmap" /\ UNCHANGED vars
                      ELSE phase' = "parse" /\ Fault /\ UNCHANGED <<Vfs, Strings, drifted>>
  /\ UNCHANGED locals

InitUnmap ==
  /\ At("munmap") /\ phase' = "close"
  /\ (\E r \in {"ok", "error"} : mmap(r)) /\ UNCHANGED locals

InitCloseForgets ==
  /\ At("close") /\ phase' = "main" /\ UNCHANGED vars
  /\ fd' = -1 /\ text' = <<>> /\ mapped' = FALSE /\ fstab' = 0 /\ calls' = <<>>

InitClose ==
  /\ At("close") /\ close(fd) /\ phase' = "main"
  /\ fd' = -1 /\ text' = <<>> /\ mapped' = FALSE /\ fstab' = 0 /\ calls' = <<>>

libmount_init == \/ InitOpen \/ InitStat \/ InitMap \/ ParseLine \/ ParseEnds
                 \/ ParseUnmapped \/ InitUnmap \/ InitClose

Main == phase = "main" /\ Next /\ UNCHANGED <<phase, locals>>

FstabInit ==
  /\ Init /\ phase = "open" /\ fd = -1
  /\ text = <<>> /\ mapped = FALSE /\ fstab = 0 /\ calls = <<>>

FstabNext == libmount_init \/ Main

(* A constructor is run before anything else the thread does.                *)
FstabSpec == FstabInit /\ [][FstabNext]_fstabVars /\ WF_fstabVars(libmount_init)

-----------------------------------------------------------------------------
(* What the table says, without a parser: a line begins the text or follows  *)
(* a newline, and reaches to the next newline or '#'; a word is a run of     *)
(* characters in it without a space next to it.                              *)
Starts == {b \in 0..(Len(text) - 1) : b = 0 \/ text[b] = "\n"}

InLine(b) == {i \in (b + 1)..Len(text) : \A j \in (b + 1)..i : text[j] \notin {"\n", "#"}}

WordChars(b) == {i \in InLine(b) : ~ IsSpace(text[i])}

(* The last characters of the words, and the word that ends with i.          *)
Ends(b) == {i \in WordChars(b) : i + 1 \notin WordChars(b)}

WordAt(b, i) ==
  LET first == Min({j \in WordChars(b) : j..i \subseteq WordChars(b)})
  IN SubSeq(text, first, i)

Word(b, k) ==
  IF Cardinality(Ends(b)) < k THEN <<>>
  ELSE WordAt(b, CHOOSE i \in Ends(b) : Cardinality({j \in Ends(b) : j <= i}) = k)

(* An entry has three words; an indented line is none.                       *)
Entries == {b \in Starts : b + 1 \in WordChars(b) /\ Cardinality(Ends(b)) >= 3}

-----------------------------------------------------------------------------
(* Properties.                                                               *)

(* Behind the last line the mounts asked for are the table's entries, each   *)
(* once and in order, with the words the line has, also if the last line has *)
(* no newline, if there are comments or blanks at its end, or if a mount     *)
(* before it was refused.                                                    *)
MountsAreEntries ==
  phase = "munmap" /\ mapped =>
    /\ Len(calls) = Cardinality(Entries)
    /\ \A b \in Entries :
         calls[Cardinality({c \in Entries : c <= b})] =
           <<Word(b, 1), Relative(Word(b, 2)), Word(b, 3), Word(b, 4)>>

(* The program starts with no descriptor in use, unless fstat() failed.      *)
DescriptorReturned ==
  [][phase # "main" /\ phase' = "main" /\ fds' # [d \in Fd |-> NoFile]
       => phase = "fstat"]_fstabVars

(* Whatever the table holds, the loop over it ends and main() is reached, or *)
(* the task is killed on the way.                                            *)
MainReached == <>(phase = "main" \/ fault)
=============================================================================
