-------------------------------- MODULE Heap --------------------------------
(* What malloc and free promise their callers: a block handed out is         *)
(* aligned, as long as was asked for, and shares no word with another block  *)
(* that has not been freed.  The unit is the machine word.  The promise ends *)
(* with the first flaw, in the calls or in the allocator.                    *)
EXTENDS Integers

CONSTANTS Start,     \* addresses a block may start at
          Length     \* lengths that may be asked for

VARIABLES live,      \* the blocks handed out and not freed
          flaws      \* what happened that ended the promise

Block == [addr : Start, len : Length]

Disjoint(a, b) == a.addr + a.len <= b.addr \/ b.addr + b.len <= a.addr

Init == live = {} /\ flaws = {}

Malloc == /\ flaws = {} /\ flaws' = {}
          /\ \E b \in Block : /\ b.addr % 2 = 0
                              /\ \A a \in live : Disjoint(a, b)
                              /\ live' = live \cup {b}

Free == /\ flaws = {} /\ flaws' = {}
        /\ \E b \in live : live' = live \ {b}

(* Nothing is promised of live from here on, and flaws are not undone.       *)
Flawed == flaws' # {}

Next == Malloc \/ Free \/ Flawed

Spec == Init /\ [][Next]_<<live, flaws>>
=============================================================================
