------------------------------ MODULE MemList ------------------------------
(* malloc and free of libc_backends/lib/l4re_mem/mem_list.cc, on which every *)
(* server of the system runs.                                                *)
(*                                                                           *)
(* Blocks are a header (size, prev, next) and a payload; they lie in two     *)
(* circular lists, the blocks in use (sorted by address) and the holes.  The *)
(* memory is counted in words of four bytes: a header has HDR = 3 of them,   *)
(* and align() puts every payload on an even word (ALIGN = 8 bytes).         *)
(*                                                                           *)
(* The code takes no lock although the servers have several threads; a step  *)
(* below is one round of a loop or one helper, so that two threads in malloc *)
(* or free interleave between them.                                          *)
(*                                                                           *)
(* There are three things it makes no provision for: two calls at a time, a  *)
(* block whose size makes split() move the new header, and a size that no    *)
(* region can hold.  The variable flaws records which of them have happened. *)
EXTENDS Naturals, FiniteSets

CONSTANTS Thread,     \* the threads that call malloc and free
          Base,       \* addresses where the region manager attaches memory
          EXT,        \* EXT_MEM, in words
          Request,    \* sizes asked for, in bytes
          UMax,       \* 2^32: unsigned arithmetic is modulo UMax bytes
          MaxLive     \* bound: blocks in use at a time

HDR      == 3
SIZE_INT == 4
NULL     == 0

ASSUME MemListAssumption ==
  /\ Thread # {}
  /\ Base \subseteq Nat \ {0} /\ \A b \in Base : b % 2 = 0
  /\ IsFiniteSet(Base)
  /\ EXT \in Nat /\ EXT > HDR /\ EXT % 2 = 0
  /\ UMax \in Nat /\ UMax % SIZE_INT = 0 /\ UMax > SIZE_INT * EXT
  /\ Request \subseteq 0..(UMax - 1) /\ MaxLive \in Nat
  /\ \A b, c \in Base : b < c => b + EXT + HDR < c     \* regions are apart

(* A region: EXT + HDR words are asked for, and rounding to pages adds some. *)
Region(b) == b..(b + EXT + HDR)
Addr      == UNION {Region(b) : b \in Base}

VARIABLES hdr,             \* the headers, by address
          processes_head, holes_head,
          attached,        \* the bases in use
          th,              \* the threads
          live,            \* history: blocks returned and not yet freed
          flaws,           \* history: what happened that the code is not made for
          fault            \* why the task was killed, if it was

vars == <<hdr, processes_head, holes_head, attached, th, live, flaws, fault>>

Pointer == Addr \cup {NULL}
Idle == [pc |-> "idle", asked |-> 0, size |-> 0,
         run |-> NULL, elem |-> NULL, blk |-> NULL]

TypeOK ==
  /\ hdr \in [Addr -> [size : Nat, prev : Pointer, next : Pointer]]
  /\ processes_head \in Pointer /\ holes_head \in Pointer
  /\ attached \in SUBSET Base
  /\ th \in [Thread -> [pc : {"idle", "head", "search", "take", "extend", "cut",
                              "holes", "procs", "return", "free"},
                        asked : Nat, size : Nat, run : Pointer, elem : Pointer, blk : Pointer]]
  /\ live \in SUBSET [addr : {a + HDR : a \in Addr}, len : Nat]
  /\ flaws \in SUBSET {"unlocked", "moved", "large"}
  /\ fault \in {"none", "memory", "head", "null", "pointer"}

-----------------------------------------------------------------------------
(* Sizes and pointers.                                                       *)

(* "ensure that size is aligned", to whole words and at least one.           *)
Asked(bytes) == IF bytes <= SIZE_INT THEN 1
                ELSE (bytes + SIZE_INT - 1) \div SIZE_INT
Words(bytes) == Asked(bytes) % (UMax \div SIZE_INT)

Minus(a, b)  == (a - b) % (UMax \div SIZE_INT)

(* align(): the header moves so that the payload behind it is aligned.       *)
AlignDown(e) == IF (e + HDR) % 2 = 0 THEN e ELSE e - 1

Align(e) == IF (e + HDR) % 2 = 0 THEN e ELSE e + 1

Mapped == UNION {Region(b) : b \in attached}
Ok(ps) == ps \subseteq Mapped

(* split(elem, size); the remainder stays in elem's list.                    *)
SplitAtScaled(e, n) == Align(e + HDR + HDR * n)

SplitAt(e, n)     == Align(e + HDR + n)
Splittable(h, e, n) == Minus(h[e].size, n) > HDR
SplitNoHeader(h, e, n) ==
  LET new == SplitAt(e, n)
      h1  == [h EXCEPT ![new] = [size |-> Minus(h[e].size, n),
                                 prev |-> e, next |-> h[e].next]]
      h2  == [h1 EXCEPT ![h1[e].next].prev = new]
  IN [h2 EXCEPT ![e].size = n, ![e].next = new]

Split(h, e, n) ==
  LET new == SplitAt(e, n)
      h1  == [h EXCEPT ![new] = [size |-> Minus(h[e].size, n + HDR),
                                 prev |-> e, next |-> h[e].next]]
      h2  == [h1 EXCEPT ![h1[e].next].prev = new]
  IN [h2 EXCEPT ![e].size = n, ![e].next = new]

(* remove_from_processes, remove_from_holes                                  *)
Single(h, head, e)     == e = head /\ h[e].next = head
RemovedHead(h, head, e) == IF Single(h, head, e) THEN NULL
                           ELSE IF e = head THEN h[e].next ELSE head
RemovedOneWay(h, head, e) ==
  LET h1 == [h EXCEPT ![h[e].prev].next = h[e].next]
  IN [(IF Single(h, head, e) THEN h ELSE h1) EXCEPT ![e].next = NULL,
                                                    ![e].prev = NULL]

Removed(h, head, e) ==
  LET h1 == [h EXCEPT ![h[e].prev].next = h[e].next]
      h2 == [h1 EXCEPT ![h1[e].next].prev = h1[e].prev]
  IN [(IF Single(h, head, e) THEN h ELSE h2) EXCEPT ![e].next = NULL,
                                                    ![e].prev = NULL]

(* The end of insert_into_processes and insert_into_holes: e is linked       *)
(* before r, where the search stopped.  before says that r belongs before e; *)
(* then r was the last, and the two change places.                           *)
Linked(h, e, r) ==
  LET h1 == [h EXCEPT ![e].next = r, ![e].prev = h[r].prev]
      h2 == [h1 EXCEPT ![h1[r].prev].next = e]
  IN [h2 EXCEPT ![r].prev = e]

Exchanged(h, e, r) ==
  LET h1 == [h EXCEPT ![e].next = h[r].next]
      h2 == [h1 EXCEPT ![r].prev = h1[e].prev]
      h3 == [h2 EXCEPT ![h2[r].next].prev = e]
      h4 == [h3 EXCEPT ![r].next = e]
      h5 == [h4 EXCEPT ![h4[e].prev].next = r]
  IN [h5 EXCEPT ![e].prev = r]

Inserted(h, head, e, r, before) ==
  LET h1 == Linked(h, e, r) IN
  IF ~ (r = head /\ ~ before) /\ h1[r].next = head /\ before
  THEN Exchanged(h1, e, r) ELSE h1

InsertedHead(head, e, r, before) == IF r = head /\ ~ before THEN e ELSE head

-----------------------------------------------------------------------------
(* The steps of a thread.  A pointer that does not lead into attached memory *)
(* kills the task when it is followed.                                       *)

Step(t, r) == th' = [th EXCEPT ![t] = r]
Die(why)  == /\ fault' = why
             /\ UNCHANGED <<hdr, processes_head, holes_head, attached, th, live, flaws>>
Alive     == UNCHANGED <<flaws, fault>>

(* Thread t calls malloc or free while another thread is in one of them.     *)
Overlap(t) == IF \E u \in Thread \ {t} : th[u].pc # "idle" THEN {"unlocked"} ELSE {}

(* The end of a block that split() cuts is no place for the next header.     *)
Moved(e, n) == IF Splittable(hdr, e, n) /\ Align(e + HDR + n) # e + HDR + n
               THEN {"moved"} ELSE {}

(* A hole is large enough.                                                   *)
FitsWithHeader(e, n) == hdr[e].size + HDR >= n

Fits(e, n) == hdr[e].size >= n

(* The pointers a step follows.                                              *)
Follows(t) ==
  LET r == th[t].run  e == th[t].elem  n == th[t].size IN
  CASE th[t].pc \in {"holes", "procs"} ->
         IF Ok({r}) THEN {r, hdr[r].prev, hdr[r].next} ELSE {r}
    [] th[t].pc \in {"search", "cut"} ->
         IF /\ Ok({r}) /\ Splittable(hdr, r, n)
            /\ th[t].pc = "search" => Fits(r, n)
         THEN {r, hdr[r].next, SplitAt(r, n)} ELSE {r}
    [] th[t].pc \in {"take", "free"} ->
         IF Ok({e}) THEN {hdr[e].prev, hdr[e].next} ELSE {e}
    [] OTHER -> {}

At(t, l) == fault = "none" /\ th[t].pc = l /\ Ok(Follows(t))

(* "head" names one such pointer: processes_head of an empty list; "null"    *)
(* another: the header that free(NULL) takes to lie before address 0.        *)
WildPointer(t) ==
  /\ fault = "none" /\ ~ Ok(Follows(t))
  /\ Die(CASE th[t].pc = "procs" /\ th[t].run = NULL /\ processes_head = NULL -> "head"
           [] th[t].pc = "free" /\ th[t].elem = NULL -> "null"
           [] OTHER -> "pointer")

(* A program asks for bytes and later frees what it was given, or NULL.      *)
Malloc(t, bytes) ==
  /\ At(t, "idle") /\ Cardinality(live) < MaxLive
  /\ Step(t, [Idle EXCEPT !.pc = "head", !.asked = Asked(bytes),
                         !.size = Words(bytes)])
  /\ flaws' = flaws \cup Overlap(t) \cup (IF Asked(bytes) > EXT THEN {"large"} ELSE {})
  /\ UNCHANGED <<hdr, processes_head, holes_head, attached, live, fault>>

Free(t, b) ==
  /\ At(t, "idle") /\ b \in live
  /\ live' = live \ {b}
  /\ Step(t, [Idle EXCEPT !.pc = "free", !.elem = b.addr - HDR])
  /\ flaws' = flaws \cup Overlap(t)
  /\ UNCHANGED <<hdr, processes_head, holes_head, attached, fault>>

(* elem NULL stands for NULL - 1.                                            *)
FreeNull(t) ==
  /\ At(t, "idle")
  /\ Step(t, [Idle EXCEPT !.pc = "free"])
  /\ flaws' = flaws \cup Overlap(t)
  /\ UNCHANGED <<hdr, processes_head, holes_head, attached, live, fault>>

(* extend_mem() and the header that its callers write, alone in a list.      *)
Extended(b) == LET e == Align(b) IN
  [hdr EXCEPT ![e] = [size |-> EXT, prev |-> e, next |-> e]]

(* No dataspace to be had: align(NULL) is not NULL, and writing there kills. *)
OutOfMemory(t) ==
  /\ \/ At(t, "head") /\ holes_head = NULL
     \/ At(t, "extend")
  /\ Die("memory")

(* if( holes_head == NULL ) ...; runner = holes_head                         *)
FirstHole(t) ==
  /\ At(t, "head") /\ holes_head = NULL
  /\ \E b \in Base \ attached :
       /\ attached' = attached \cup {b}
       /\ hdr' = Extended(b) /\ holes_head' = Align(b)
       /\ Step(t, [th[t] EXCEPT !.pc = "search", !.run = Align(b)])
  /\ UNCHANGED <<processes_head, live>> /\ Alive

HaveHole(t) ==
  /\ At(t, "head") /\ holes_head # NULL
  /\ Step(t, [th[t] EXCEPT !.pc = "search", !.run = holes_head])
  /\ UNCHANGED <<hdr, processes_head, holes_head, attached, live>> /\ Alive

(* One round of the search: take the hole, cut to size, or go on.            *)
SearchFits(t) ==
  LET e == th[t].run  n == th[t].size IN
  /\ At(t, "search") /\ Fits(e, n)
  /\ hdr' = IF Splittable(hdr, e, n) THEN Split(hdr, e, n) ELSE hdr
  /\ Step(t, [th[t] EXCEPT !.pc = "take", !.elem = e, !.blk = e])
  /\ flaws' = flaws \cup Moved(e, n)
  /\ UNCHANGED <<processes_head, holes_head, attached, live, fault>>

SearchForever(t) ==
  /\ At(t, "search") /\ ~ Fits(th[t].run, th[t].size)
  /\ Step(t, [th[t] EXCEPT !.run = hdr[th[t].run].next])
  /\ UNCHANGED <<hdr, processes_head, holes_head, attached, live>> /\ Alive

SearchNext(t) ==
  LET e == th[t].run IN
  /\ At(t, "search") /\ ~ Fits(e, th[t].size)
  /\ Step(t, [th[t] EXCEPT !.run = hdr[e].next,
                           !.pc = IF hdr[e].next = holes_head THEN "extend" ELSE @])
  /\ UNCHANGED <<hdr, processes_head, holes_head, attached, live>> /\ Alive

(* remove_from_holes(runner), and the block becomes the first in use or is   *)
(* inserted among them.                                                      *)
TakeHole(t) ==
  LET e == th[t].elem  h == Removed(hdr, holes_head, e)
      first == processes_head = NULL IN
  /\ At(t, "take")
  /\ holes_head' = RemovedHead(hdr, holes_head, e)
  /\ hdr' = IF first THEN [h EXCEPT ![e].next = e, ![e].prev = e] ELSE h
  /\ processes_head' = IF first THEN e ELSE processes_head
  /\ Step(t, [th[t] EXCEPT !.pc = IF first THEN "return" ELSE "procs",
                           !.run = processes_head])
  /\ UNCHANGED <<attached, live>> /\ Alive

(* No hole fits: extend memory, and *)
Extend(t) ==
  /\ At(t, "extend")
  /\ \E b \in Base \ attached :
       /\ attached' = attached \cup {b}
       /\ hdr' = Extended(b)
       /\ Step(t, [th[t] EXCEPT !.pc = "cut", !.run = Align(b), !.blk = Align(b)])
  /\ UNCHANGED <<processes_head, holes_head, live>> /\ Alive

(* what the block does not need of the new region becomes a hole. *)
Cut(t) ==
  LET e == th[t].run  n == th[t].size IN
  /\ At(t, "cut")
  /\ IF Splittable(hdr, e, n)
     THEN /\ hdr' = Split(hdr, e, n)
          /\ Step(t, [th[t] EXCEPT !.pc = "holes", !.run = holes_head,
                                   !.elem = SplitAt(e, n)])
     ELSE /\ hdr' = hdr
          /\ Step(t, [th[t] EXCEPT !.pc = "procs", !.run = processes_head,
                                   !.elem = e])
  /\ flaws' = flaws \cup Moved(e, n)
  /\ UNCHANGED <<processes_head, holes_head, attached, live, fault>>

(* insert_into_holes: a round of its loop, or the insertion.  In free() it   *)
(* is the last thing done; in malloc() insert_into_processes follows.        *)
HolesBefore(t) == hdr[th[t].run].size <= hdr[th[t].elem].size

HolesNext(t) ==
  LET r == th[t].run IN
  /\ At(t, "holes") /\ hdr[r].next # holes_head /\ HolesBefore(t)
  /\ Step(t, [th[t] EXCEPT !.run = hdr[r].next])
  /\ UNCHANGED <<hdr, processes_head, holes_head, attached, live>> /\ Alive

HolesInsert(t) ==
  LET r == th[t].run  e == th[t].elem IN
  /\ At(t, "holes")
  /\ ~ (hdr[r].next # holes_head /\ HolesBefore(t))
  /\ hdr' = Inserted(hdr, holes_head, e, r, HolesBefore(t))
  /\ holes_head' = InsertedHead(holes_head, e, r, HolesBefore(t))
  /\ Step(t, IF th[t].blk = NULL THEN Idle
             ELSE [th[t] EXCEPT !.pc = "procs", !.run = processes_head,
                                !.elem = th[t].blk])
  /\ UNCHANGED <<processes_head, attached, live>> /\ Alive

(* insert_into_processes, in the same way.  malloc() calls it on the way     *)
(* through extend_mem() without looking whether the list is empty.           *)
ProcsNext(t) ==
  LET r == th[t].run IN
  /\ At(t, "procs") /\ hdr[r].next # processes_head /\ r < th[t].elem
  /\ Step(t, [th[t] EXCEPT !.run = hdr[r].next])
  /\ UNCHANGED <<hdr, processes_head, holes_head, attached, live>> /\ Alive

ProcsInsert(t) ==
  LET r == th[t].run  e == th[t].elem IN
  /\ At(t, "procs")
  /\ ~ (hdr[r].next # processes_head /\ r < e)
  /\ hdr' = Inserted(hdr, processes_head, e, r, r < e)
  /\ processes_head' = InsertedHead(processes_head, e, r, r < e)
  /\ Step(t, [th[t] EXCEPT !.pc = "return"])
  /\ UNCHANGED <<holes_head, attached, live>> /\ Alive

Return(t) ==
  /\ At(t, "return")
  /\ live' = live \cup {[addr |-> th[t].blk + HDR, len |-> th[t].asked]}
  /\ Step(t, Idle)
  /\ UNCHANGED <<hdr, processes_head, holes_head, attached>> /\ Alive

(* free(): remove_from_processes, and the block becomes the first hole or is *)
(* inserted among them.                                                      *)
FreeBlock(t) ==
  LET e == th[t].elem  h == Removed(hdr, processes_head, e)
      first == holes_head = NULL IN
  /\ At(t, "free")
  /\ processes_head' = RemovedHead(hdr, processes_head, e)
  /\ hdr' = IF first THEN [h EXCEPT ![e].next = e, ![e].prev = e] ELSE h
  /\ holes_head' = IF first THEN e ELSE holes_head
  /\ Step(t, IF first THEN Idle
             ELSE [th[t] EXCEPT !.pc = "holes", !.run = holes_head])
  /\ UNCHANGED <<attached, live>> /\ Alive

-----------------------------------------------------------------------------
Init ==
  /\ hdr = [a \in Addr |-> [size |-> 0, prev |-> NULL, next |-> NULL]]
  /\ processes_head = NULL /\ holes_head = NULL /\ attached = {}
  /\ th = [t \in Thread |-> Idle] /\ live = {}
  /\ flaws = {} /\ fault = "none"

Run(t) ==
  \/ FirstHole(t) \/ HaveHole(t) \/ SearchFits(t) \/ SearchNext(t)
  \/ TakeHole(t) \/ Extend(t) \/ Cut(t) \/ HolesNext(t) \/ HolesInsert(t)
  \/ ProcsNext(t) \/ ProcsInsert(t) \/ Return(t) \/ FreeBlock(t)
  \/ OutOfMemory(t) \/ WildPointer(t)

Use(t) == \/ \E bytes \in Request : Malloc(t, bytes)
          \/ \E b \in live : Free(t, b)
          \/ FreeNull(t)

Next == \E t \in Thread : Run(t) \/ Use(t)

Spec == Init /\ [][Next]_vars

(* A thread in malloc() or free() is runnable.                               *)
FairSpec == Spec /\ \A t \in Thread : WF_vars(Run(t))

-----------------------------------------------------------------------------
(* Properties.  All but TypeOK and NoOverlap are promises while flaws = {}.  *)

AllIdle == fault = "none" /\ \A t \in Thread : th[t].pc = "idle"
Sound   == flaws = {}

(* The blocks of the list that starts at head.                               *)
Ring(head) ==
  LET reach[k \in 0..Cardinality(Addr) \div HDR] ==
        IF k = 0 THEN {head}
        ELSE LET r == reach[k - 1] IN r \cup {hdr[a].next : a \in r \cap Addr}
  IN IF head = NULL THEN {} ELSE reach[Cardinality(Addr) \div HDR]

Extent(a) == a..(a + HDR + hdr[a].size - 1)

(* Until two calls overlap, a split moves a header or a size exceeds         *)
(* EXT_MEM: between calls the two lists are circular in both directions and  *)
(* share no block; the one of the processes is the blocks the callers hold,  *)
(* and is "sort by address" (mem_list.cc:240) from its head on: the exchange *)
(* at a list's end and the removal of a head keep them so.                   *)
ListsConsistent ==
  AllIdle /\ Sound =>
    /\ \A a \in Ring(processes_head) \cup Ring(holes_head) :
         a # NULL /\ hdr[a].next # NULL /\ hdr[hdr[a].next].prev = a
    /\ Ring(processes_head) \cap Ring(holes_head) = {}
    /\ Ring(processes_head) = {b.addr - HDR : b \in live}
    /\ \A a \in Ring(processes_head) :
         /\ processes_head <= a
         /\ hdr[a].next = processes_head \/ a < hdr[a].next

(* Until then, between calls, headers and payloads, in use or holes, share   *)
(* no word and cover each region from its first header on: split() neither   *)
(* loses memory nor hands any out twice.                                     *)
TilesMemory ==
  AllIdle /\ Sound =>
    LET blocks == Ring(processes_head) \cup Ring(holes_head) IN
    /\ \A a, b \in blocks : a # b => Extent(a) \cap Extent(b) = {}
    /\ UNION {Extent(a) : a \in blocks} =
         UNION {Align(b)..(Align(b) + HDR + EXT - 1) : b \in attached}

(* Until then malloc and free follow no wild pointer but two: the NULL a     *)
(* caller frees, and processes_head of an empty list, which malloc walks     *)
(* when everything was freed and no hole is large enough.                    *)
OnlyKnownPointersKill ==
  Sound => fault # "pointer" /\ (fault = "head" => live = {})

(* Until then what the callers see is the heap they expect.                  *)
AbstractHeap == INSTANCE Heap WITH Start <- {a + HDR : a \in Addr},
                                   Length <- {Asked(bytes) : bytes \in Request}
HeapImplemented == AbstractHeap!Spec

(* Until then every malloc and free returns, or the task dies: the search    *)
(* for a hole and the searches for a place in a list end.                    *)
CallsReturn ==
  \A t \in Thread :
    th[t].pc # "idle" ~> (th[t].pc = "idle" \/ fault # "none" \/ ~ Sound)

(* "ensure that size is aligned" (mem_list.cc:59): split() relies on it, but *)
(* the size is aligned to 4 bytes and align() moves the new header on to the *)
(* next 8; the remainder keeps its size and reaches into the next block.     *)
NoOverlap ==
  AllIdle =>
    \A a, b \in Ring(processes_head) \cup Ring(holes_head) :
      a # b => Extent(a) \cap Extent(b) = {}
=============================================================================
