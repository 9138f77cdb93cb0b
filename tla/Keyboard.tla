------------------------------ MODULE Keyboard ------------------------------
(* The keyboard server, rm_keyboard/server/src/keyboard.cc.                  *)
(*                                                                           *)
(* Two threads share the list currently_pressed without a lock: the thread   *)
(* that loop() runs waits for the interrupt, reads one scan code and edits   *)
(* the list; the server thread answers a Keycode request in dispatch() by    *)
(* walking the list twice, once for size() and once to send the keys.  A step *)
(* below is one read of a walk, one erase, or one part of a push_front (fill *)
(* the node, point it at the list, link it), so TLC sees the two walks       *)
(* interleaved with the edits in every way.                                  *)
(*                                                                           *)
(* The list is a sequence of nodes, so a reader's iterator is a node: when   *)
(* its node is erased the reader keeps following the next pointer the freed  *)
(* memory still holds, until the node is handed out again by push_front.     *)
(* (malloc's free writes only its own header, libc_backends/lib/l4re_mem.)   *)
(* The PS/2 controller in front of the interrupt is external.                *)
EXTENDS Keys, Naturals, Sequences, FiniteSets, SequencesExt

CONSTANTS PhysKey,    \* the keys the user presses, named by their make code
          Client,     \* the tasks that send requests to the server
          Node,       \* the memory blocks that list nodes are made of
          End,        \* the list's sentinel, what end() returns
          NoKey,      \* no key repeats
          FifoSize,   \* scan codes the controller buffers
          MaxTyped    \* bound: scan codes the user causes

ASSUME KeyboardAssumption ==
  /\ PhysKey \subseteq 1..88 /\ NoKey \notin PhysKey
  /\ End \notin Node
  /\ FifoSize \in Nat \ {0} /\ MaxTyped \in Nat

-----------------------------------------------------------------------------
(* Scan codes.                                                               *)

(* Definitions named ...Raw, ...Swapped and the like, here and in the other  *)
(* modules, are faulty variants of the definition after them; no action uses *)
(* them.  Put in its place, each one breaks a property.                      *)

(* What the switch of loop() pushes for a scan code, as a set of at most one *)
(* key, and what the erase loop removes for it.                              *)
PressedRaw(code) == IF code \in {15, 30, 31, 38, 39} THEN {code} ELSE {}
PressedNoTab(code) == IF code = 31 THEN {UP_1} ELSE {}

Pressed(code) == CASE code = 15 -> {TAB}
                   [] code = 30 -> {DOWN_1}
                   [] code = 31 -> {UP_1}
                   [] code = 38 -> {DOWN_2}
                   [] code = 39 -> {UP_2}
                   [] OTHER     -> {}

ReleasedSwapped(code) == CASE code = 143 -> {TAB}
                           [] code = 158 -> {UP_1}
                           [] code = 159 -> {DOWN_1}
                           [] OTHER      -> {}

ReleasedNoTab(code) == CASE code = 158 -> {DOWN_1}
                         [] code = 159 -> {UP_1}
                         [] OTHER      -> {}

Released(code) == CASE code = 143 -> {TAB}
                    [] code = 158 -> {DOWN_1}
                    [] code = 159 -> {UP_1}
                    [] code = 166 -> {DOWN_2}
                    [] code = 167 -> {UP_2}
                    [] OTHER      -> {}

(* Scan code set 1: a key's break code is its make code with bit 7 set.      *)
BreakCode(p) == p + 128
ScanCode     == 1..255

-----------------------------------------------------------------------------
VARIABLES held, repeat, fifo, lost, typed,  \* the user and the controller
          lst, val, stale,                  \* currently_pressed
          irq,                              \* the thread that runs loop()
          srv,                              \* the thread that runs dispatch()
          queue, ipc,                       \* requests, and each client's call
          down, seen, window, stay          \* history, see below

deviceVars  == <<held, repeat, fifo, lost, typed>>
listVars    == <<lst, val, stale>>
clientVars  == <<queue, ipc>>
historyVars == <<down, seen, window, stay>>
vars == <<deviceVars, listVars, irq, srv, clientVars, historyVars>>

(* down: the keys whose last scan code that loop() has read was a make code. *)
(* seen, window: the keys and the nodes that were in the list at some time   *)
(* since the current dispatch() began, a key being in it from when its node  *)
(* is filled; stay: the nodes in the list all that time.                     *)

Reply == [err : BOOLEAN, size : Nat, items : Seq(Key)]

IrqType == [pc : {"receive", "hook", "link", "erase", "unique"}, buf : 0..255,
            node : Node \cup {End}]

TypeOK ==
  /\ held \in SUBSET PhysKey /\ repeat \in PhysKey \cup {NoKey}
  /\ fifo \in Seq(ScanCode) /\ lost \in SUBSET PhysKey /\ typed \in Nat
  /\ lst \in Seq(Node) /\ val \in [Node -> Key]
  /\ stale \in [Node -> Node \cup {End}]
  /\ irq \in IrqType
  /\ srv \in [pc : {"wait", "count", "walk", "step"}, caller : Client,
              cur : Node \cup {End}, size : Nat, items : Seq(Key)]
  /\ queue \in Seq(Client \X Label)
  /\ ipc \in [Client -> [st : {"idle", "sent", "replied"}, msg : Reply]]
  /\ down \in SUBSET Key /\ seen \in SUBSET Key
  /\ window \in SUBSET Node /\ stay \in SUBSET Node

-----------------------------------------------------------------------------
(* The list.                                                                 *)

First(s) == IF s = <<>> THEN End ELSE s[1]

After(s, i) == IF i = Len(s) THEN End ELSE s[i + 1]

(* The next pointer of a node: in the list its successor; in freed memory    *)
(* what it was when the node was erased.                                     *)
Next_(n) == IF n \in ToSet(lst)
            THEN After(lst, CHOOSE i \in DOMAIN lst : lst[i] = n)
            ELSE stale[n]

KeysOf(s, v) == {v[s[i]] : i \in DOMAIN s}

(* An edit of the list, with the history variables that follow it.           *)
SetList(s, v) ==
  /\ lst' = s /\ val' = v
  /\ IF srv.pc = "wait"
     THEN UNCHANGED <<seen, window, stay>>
     ELSE /\ seen' = seen \cup KeysOf(s, v)
          /\ window' = window \cup ToSet(s)
          /\ stay' = stay \cap ToSet(s)

EraseAt(i) == /\ SetList(RemoveAt(lst, i), val)
              /\ stale' = [stale EXCEPT ![lst[i]] = After(lst, i)]

-----------------------------------------------------------------------------
(* The user and the controller (external).  A scan code that finds the       *)
(* buffer full is dropped; lost holds the keys whose last code was dropped.  *)

Send(p, code) ==
  /\ typed < MaxTyped
  /\ typed' = typed + 1
  /\ IF Len(fifo) < FifoSize
     THEN fifo' = Append(fifo, code) /\ lost' = lost \ {p}
     ELSE fifo' = fifo /\ lost' = lost \cup {p}

PressKey(p) ==
  /\ p \notin held
  /\ held' = held \cup {p} /\ repeat' = p
  /\ Send(p, p)

Typematic == /\ repeat # NoKey
             /\ Send(repeat, repeat)
             /\ UNCHANGED <<held, repeat>>

ReleaseKey(p) ==
  /\ p \in held
  /\ held' = held \ {p}
  /\ repeat' = IF repeat = p THEN NoKey ELSE repeat
  /\ Send(p, BreakCode(p))

Device ==
  /\ Typematic \/ \E p \in PhysKey : PressKey(p) \/ ReleaseKey(p)
  /\ UNCHANGED <<listVars, irq, srv, clientVars, historyVars>>

-----------------------------------------------------------------------------
(* The interrupt thread: loop().                                             *)

(* receive() returns and port 0x60 is read.  push_front() takes whatever     *)
(* block the allocator returns and stores the key in it, which a walk that   *)
(* still stands on the block can read;                                       *)
ReceiveIrq ==
  /\ irq.pc = "receive" /\ fifo # <<>>
  /\ fifo' = Tail(fifo)
  /\ LET code == Head(fifo) IN
     /\ down' = (down \cup Pressed(code)) \ Released(code)
     /\ IF Pressed(code) = {}
        THEN /\ irq' = [pc |-> "erase", buf |-> code, node |-> First(lst)]
             /\ UNCHANGED <<val, seen>>
        ELSE \E n \in Node \ ToSet(lst), k \in Pressed(code) :
             /\ irq' = [pc |-> "hook", buf |-> code, node |-> n]
             /\ val' = [val EXCEPT ![n] = k]
             /\ seen' = IF srv.pc = "wait" THEN {} ELSE seen \cup {k}
  /\ UNCHANGED <<lst, stale, window, stay>>

(* then the node's next pointer is set to the first node,                    *)
HookUnset ==
  /\ irq.pc = "hook"
  /\ irq' = [irq EXCEPT !.pc = "link"]
  /\ \E n \in Node : stale' = [stale EXCEPT ![irq.node] = n]
  /\ UNCHANGED <<fifo, lst, val, historyVars>>

HookNode ==
  /\ irq.pc = "hook"
  /\ irq' = [irq EXCEPT !.pc = "link"]
  /\ stale' = [stale EXCEPT ![irq.node] = First(lst)]
  /\ UNCHANGED <<fifo, lst, val, historyVars>>

(* and at last the sentinel's to the node, where the erase loop begins.      *)
LinkNode ==
  /\ irq.pc = "link"
  /\ SetList(<<irq.node>> \o lst, val)
  /\ irq' = [irq EXCEPT !.pc = "erase"]
  /\ UNCHANGED <<fifo, stale, down>>

(* The erase loop steps its iterator, irq.node, through the list; only this  *)
(* thread edits it.  A node that matches is erased under the iterator, and   *)
(* the it++ after it reads the next pointer that the erased node still holds.*)
From(n) == {i \in DOMAIN lst : \E j \in 1..i : lst[j] = n}
ToErase == {i \in From(irq.node) : val[lst[i]] \in Released(irq.buf)}

EraseOnce ==
  /\ irq.pc = "erase"
  /\ \E i \in ToErase :
       /\ \A j \in ToErase : i <= j
       /\ EraseAt(i)
  /\ irq' = [irq EXCEPT !.pc = "unique", !.node = End]
  /\ UNCHANGED <<fifo, down>>

EraseNext ==
  /\ irq.pc = "erase"
  /\ \E i \in ToErase :
       /\ \A j \in ToErase : i <= j
       /\ EraseAt(i)
       /\ irq' = [irq EXCEPT !.node = stale'[lst[i]]]
  /\ UNCHANGED <<fifo, down>>

EraseDone ==
  /\ irq.pc = "erase" /\ ToErase = {}
  /\ irq' = [irq EXCEPT !.pc = "unique", !.node = End]
  /\ UNCHANGED <<listVars, fifo, historyVars>>

(* std::list::unique() removes a node whose key equals that of the node      *)
(* before it.                                                                *)
Doubled(i) == i > 1 /\ val[lst[i]] = val[lst[i - 1]]

UniqueNext ==
  /\ irq.pc = "unique"
  /\ \E i \in DOMAIN lst :
       /\ Doubled(i)
       /\ \A j \in 1..(i - 1) : ~ Doubled(j)
       /\ EraseAt(i)
  /\ UNCHANGED <<fifo, irq, down>>

UniqueDone ==
  /\ irq.pc = "unique"
  /\ \A i \in DOMAIN lst : ~ Doubled(i)
  /\ irq' = [irq EXCEPT !.pc = "receive"]
  /\ UNCHANGED <<listVars, fifo, historyVars>>

IrqThread ==
  /\ \/ ReceiveIrq \/ HookNode \/ LinkNode
     \/ EraseNext \/ EraseDone \/ UniqueNext \/ UniqueDone
  /\ UNCHANGED <<held, repeat, lost, typed, srv, clientVars>>

-----------------------------------------------------------------------------
(* The server thread: dispatch().                                            *)

Answer(c, e, n, s) ==
  ipc' = [ipc EXCEPT ![c] = [st |-> "replied",
                             msg |-> [err |-> e, size |-> n, items |-> s]]]

DispatchBadProto ==
  /\ srv.pc = "wait" /\ queue # <<>> /\ Head(queue)[2] # Keycode
  /\ queue' = Tail(queue)
  /\ Answer(Head(queue)[1], TRUE, 0, <<>>)
  /\ UNCHANGED <<srv, seen, window, stay>>

Dispatch ==
  /\ srv.pc = "wait" /\ queue # <<>> /\ Head(queue)[2] = Keycode
  /\ queue' = Tail(queue)
  /\ srv' = [pc |-> "count", caller |-> Head(queue)[1], cur |-> First(lst),
             size |-> 0, items |-> <<>>]
  /\ seen' = KeysOf(lst, val) /\ window' = ToSet(lst) /\ stay' = ToSet(lst)
  /\ UNCHANGED ipc

(* size() walks the list, *)
CountNext ==
  /\ srv.pc = "count" /\ srv.cur # End
  /\ srv' = [srv EXCEPT !.size = @ + 1, !.cur = Next_(srv.cur)]
  /\ UNCHANGED <<clientVars, seen, window, stay>>

CountNoRestart ==
  /\ srv.pc = "count" /\ srv.cur = End
  /\ srv' = [srv EXCEPT !.pc = "walk"]
  /\ UNCHANGED <<clientVars, seen, window, stay>>

CountDone ==
  /\ srv.pc = "count" /\ srv.cur = End
  /\ srv' = [srv EXCEPT !.pc = "walk", !.cur = First(lst)]
  /\ UNCHANGED <<clientVars, seen, window, stay>>

(* and the loop after it walks the list again to send the keys. *)
SendItem ==
  /\ srv.pc = "walk" /\ srv.cur # End
  /\ srv' = [srv EXCEPT !.pc = "step", !.items = Append(@, val[srv.cur])]
  /\ UNCHANGED <<clientVars, seen, window, stay>>

NextItem ==
  /\ srv.pc = "step"
  /\ srv' = [srv EXCEPT !.pc = "walk", !.cur = Next_(srv.cur)]
  /\ UNCHANGED <<clientVars, seen, window, stay>>

SendReplyWhenAny ==
  /\ srv.pc = "walk" /\ srv.cur = End
  /\ IF srv.items = <<>>
     THEN /\ srv' = [srv EXCEPT !.pc = "count", !.cur = First(lst), !.size = 0]
          /\ UNCHANGED <<ipc, seen, window, stay>>
     ELSE /\ Answer(srv.caller, FALSE, srv.size, srv.items)
          /\ srv' = [srv EXCEPT !.pc = "wait", !.size = 0, !.items = <<>>]
          /\ seen' = {} /\ window' = {} /\ stay' = {}
  /\ UNCHANGED queue

SendReply ==
  /\ srv.pc = "walk" /\ srv.cur = End
  /\ Answer(srv.caller, FALSE, srv.size, srv.items)
  /\ srv' = [srv EXCEPT !.pc = "wait", !.size = 0, !.items = <<>>]
  /\ seen' = {} /\ window' = {} /\ stay' = {}
  /\ UNCHANGED queue

ServerThread ==
  /\ \/ DispatchBadProto \/ Dispatch \/ CountNext \/ CountDone
     \/ SendItem \/ NextItem \/ SendReply
  /\ UNCHANGED <<deviceVars, listVars, irq, down>>

-----------------------------------------------------------------------------
(* A client calls and waits; the kernel queues callers in order.             *)

NoReply == [err |-> FALSE, size |-> 0, items |-> <<>>]

Call(c, label) ==
  /\ ipc[c].st = "idle"
  /\ ipc' = [ipc EXCEPT ![c].st = "sent"]
  /\ queue' = Append(queue, <<c, label>>)

Receive(c) ==
  /\ ipc[c].st = "replied"
  /\ ipc' = [ipc EXCEPT ![c] = [st |-> "idle", msg |-> NoReply]]
  /\ UNCHANGED queue

ClientStep ==
  /\ \E c \in Client : Receive(c) \/ \E label \in Label : Call(c, label)
  /\ UNCHANGED <<deviceVars, listVars, irq, srv, historyVars>>

-----------------------------------------------------------------------------
Init ==
  /\ held = {} /\ repeat = NoKey /\ fifo = <<>> /\ lost = {} /\ typed = 0
  /\ lst = <<>> /\ val = [n \in Node |-> UP_1] /\ stale = [n \in Node |-> End]
  /\ irq = [pc |-> "receive", buf |-> 0, node |-> End]
  /\ \E c \in Client :
       srv = [pc |-> "wait", caller |-> c, cur |-> End, size |-> 0, items |-> <<>>]
  /\ queue = <<>> /\ ipc = [c \in Client |-> [st |-> "idle", msg |-> NoReply]]
  /\ down = {} /\ seen = {} /\ window = {} /\ stay = {}

Next == Device \/ IrqThread \/ ServerThread \/ ClientStep

Spec == Init /\ [][Next]_vars

(* Both threads are runnable whenever their next step is enabled, and the    *)
(* kernel's scheduler runs every runnable thread.                            *)
Fairness == WF_vars(IrqThread) /\ WF_vars(ServerThread)

FairSpec == Spec /\ Fairness

-----------------------------------------------------------------------------
(* Properties.                                                               *)

Quiet == fifo = <<>> /\ irq.pc = "receive"

(* Between two interrupts the list holds exactly the keys whose last scan    *)
(* code was a make code: the erase loop, which steps its iterator past       *)
(* erased nodes, leaves no released key behind, and unique() drops no key.   *)
ListReflectsScans == irq.pc = "receive" => KeysOf(lst, val) = down

(* Once loop() has drained the controller, a key none of whose codes was     *)
(* dropped since is in the list exactly when the user holds it: the tables   *)
(* of make and break codes in loop() match what the keyboard sends.          *)
FaithfulWhenQuiet ==
  Quiet => \A p \in PhysKey \ lost :
             Pressed(p) # {} => (Pressed(p) \subseteq KeysOf(lst, val) <=> p \in held)

(* A reply names no key that was not in the list, or in the node on its way  *)
(* there, at some time during the dispatch, though the walk may stand on an  *)
(* erased or a reused node.                                                  *)
NoPhantomKey == \A i \in DOMAIN srv.items : srv.items[i] \in seen

(* A reply names every key whose node was in the list during all of the      *)
(* dispatch: an edit under the iterator never makes the walk skip a node.    *)
NoMissedKey ==
  srv.pc = "walk" /\ srv.cur = End =>
    \A n \in stay : \E i \in DOMAIN srv.items : srv.items[i] = val[n]

(* A walk over the list ends, and with it every call is answered.            *)
Answered == \A c \in Client : ipc[c].st = "sent" ~> ipc[c].st = "replied"

(* A key that the user lets go of leaves the list, unless it is pressed      *)
(* again or its break code is dropped.                                       *)
ReleaseSeen ==
  \A p \in PhysKey :
    (p \notin held) ~> \/ p \in held \cup lost
                       \/ Pressed(p) \cap KeysOf(lst, val) = {}
=============================================================================
