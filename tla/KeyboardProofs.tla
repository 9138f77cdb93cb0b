--------------------------- MODULE KeyboardProofs ---------------------------
(* Theorems about the keyboard server, for every set of keys, clients and    *)
(* nodes and every size of the controller's buffer, and about the console    *)
(* server's switch thread as its client.                                     *)
EXTENDS TabSwitch, SequenceTheorems, FiniteSetTheorems, WellFoundedInduction, TLAPS

(* Between reading a node's key and its next pointer the walk is on a node.  *)
StepOnNode == srv.pc = "step" => srv.cur # End

(* While push_front runs, its node holds the pressed key and is not in the   *)
(* list.                                                                     *)
Pushing == irq.pc \in {"hook", "link"}
PushInv == Pushing => /\ irq.node \in Node \ ToSet(lst)
                      /\ Pressed(irq.buf) = {val[irq.node]}

(* The erase loop has left no released key behind its iterator.              *)
CursorInv == irq.pc = "erase" => \A i \in DOMAIN lst :
               val[lst[i]] \in Released(irq.buf) => i \in From(irq.node)

(* The list lacks the key that is being pushed, and while the erase loop     *)
(* runs, a released key may still be in it.                                  *)
Added    == IF Pushing THEN Pressed(irq.buf) ELSE {}
Doomed   == IF irq.pc = "erase" THEN Released(irq.buf) ELSE {}
ScansInv == CursorInv /\ (KeysOf(lst, val) \cup Added) \ Doomed = down

(* The nodes that were in the list during a dispatch are closed under the    *)
(* next pointers its walk may follow, and their keys are keys it has seen.   *)
WalkInv ==
  /\ srv.pc = "wait" => srv.items = <<>>
  /\ srv.pc # "wait" =>
       /\ ToSet(lst) \subseteq window
       /\ srv.cur \in window \cup {End}
       /\ \A n \in window : val[n] \in seen
       /\ \A n \in window \ ToSet(lst) : stale[n] \in window \cup {End}
       /\ NoPhantomKey

IInv == TypeOK /\ StepOnNode /\ PushInv /\ ScansInv /\ WalkInv

-----------------------------------------------------------------------------
(* Removing one element from a sequence.                                     *)
LEMMA RemoveAtElements ==
  ASSUME NEW S, NEW s \in Seq(S), NEW i \in DOMAIN s
  PROVE  /\ RemoveAt(s, i) \in Seq(S)
         /\ Len(RemoveAt(s, i)) = Len(s) - 1
         /\ \A j \in 1..(Len(s) - 1) :
              RemoveAt(s, i)[j] = IF j < i THEN s[j] ELSE s[j + 1]
<1> DEFINE a == SubSeq(s, 1, i - 1)
           b == SubSeq(s, i + 1, Len(s))
<1>0. i \in 1..Len(s) /\ Len(s) \in Nat
  OBVIOUS
<1>1. /\ a \in Seq(S) /\ Len(a) = i - 1
      /\ \A j \in 1..(i - 1) : a[j] = s[j]
  <2>1. \A j \in 1..(i - 1) : s[j] \in S
    BY <1>0
  <2> HIDE DEF a
  <2> QED BY <1>0, <2>1, SubSeqProperties DEF a
<1>2. /\ b \in Seq(S) /\ Len(b) = Len(s) - i
      /\ \A j \in 1..(Len(s) - i) : b[j] = s[i + j]
  <2>1. \A j \in (i + 1)..Len(s) : s[j] \in S
    BY <1>0
  <2> HIDE DEF b
  <2>2. /\ b \in Seq(S)
        /\ Len(b) = IF i + 1 <= Len(s) THEN Len(s) - (i + 1) + 1 ELSE 0
        /\ \A j \in 1..(Len(s) - (i + 1) + 1) : b[j] = s[(i + 1) + j - 1]
    BY <1>0, <2>1, SubSeqProperties DEF b
  <2> QED BY <1>0, <2>2
<1> HIDE DEF a, b
<1>3. RemoveAt(s, i) = a \o b
  BY DEF RemoveAt, a, b
<1>4. /\ a \o b \in Seq(S)
      /\ Len(a \o b) = Len(a) + Len(b)
      /\ \A j \in 1..(Len(a) + Len(b)) :
           (a \o b)[j] = IF j <= Len(a) THEN a[j] ELSE b[j - Len(a)]
  BY <1>1, <1>2, ConcatProperties
<1>5. Len(a) + Len(b) = Len(s) - 1
  BY <1>0, <1>1, <1>2
<1>6. ASSUME NEW j \in 1..(Len(s) - 1)
      PROVE  (a \o b)[j] = IF j < i THEN s[j] ELSE s[j + 1]
  <2>1. CASE j < i
    BY <1>0, <1>1, <1>4, <1>5, <2>1
  <2>2. CASE ~ (j < i)
    <3>1. j - (i - 1) \in 1..(Len(s) - i) /\ i + (j - (i - 1)) = j + 1
      BY <1>0, <2>2
    <3>2. (a \o b)[j] = b[j - (i - 1)]
      BY <1>0, <1>1, <1>4, <1>5, <2>2
    <3> QED BY <1>2, <2>2, <3>1, <3>2
  <2> QED BY <2>1, <2>2
<1> QED BY <1>3, <1>4, <1>5, <1>6

LEMMA RemoveAtDomain ==
  ASSUME NEW S, NEW s \in Seq(S), NEW i \in DOMAIN s
  PROVE  /\ \A j \in DOMAIN RemoveAt(s, i) :
              \E k \in DOMAIN s : k # i /\ RemoveAt(s, i)[j] = s[k]
         /\ \A k \in DOMAIN s : k # i =>
              \E j \in DOMAIN RemoveAt(s, i) : RemoveAt(s, i)[j] = s[k]
<1> DEFINE r == RemoveAt(s, i)
<1> HIDE DEF r
<1>1. /\ r \in Seq(S) /\ Len(r) = Len(s) - 1
      /\ \A j \in 1..(Len(s) - 1) : r[j] = IF j < i THEN s[j] ELSE s[j + 1]
  BY RemoveAtElements DEF r
<1>2. ASSUME NEW j \in DOMAIN r
      PROVE  \E k \in DOMAIN s : k # i /\ r[j] = s[k]
  <2>1. CASE j < i
    BY <1>1, <2>1
  <2>2. CASE ~ (j < i)
    <3>1. j + 1 \in DOMAIN s /\ j + 1 # i /\ r[j] = s[j + 1]
      BY <1>1, <2>2
    <3> QED BY <3>1
  <2> QED BY <2>1, <2>2
<1>3. ASSUME NEW k \in DOMAIN s, k # i
      PROVE  \E j \in DOMAIN r : r[j] = s[k]
  <2>1. CASE k < i
    BY <1>1, <2>1
  <2>2. CASE ~ (k < i)
    <3>1. /\ k \in 1..Len(s) /\ i \in 1..Len(s) /\ Len(s) \in Nat
      OBVIOUS
    <3>2. /\ k - 1 \in 1..(Len(s) - 1) /\ ~ (k - 1 < i) /\ (k - 1) + 1 = k
      BY <1>3, <2>2, <3>1
    <3>3. k - 1 \in DOMAIN r
      BY <1>1, <3>2
    <3>4. r[k - 1] = s[k]
      BY <1>1, <3>2
    <3> QED BY <3>3, <3>4
  <2> QED BY <2>1, <2>2
<1> QED BY <1>2, <1>3 DEF r

-----------------------------------------------------------------------------
(* Typing.                                                                   *)

LEMMA NextPointer ==
  ASSUME TypeOK, NEW n \in Node
  PROVE  /\ Next_(n) \in Node \cup {End}
         /\ n \in ToSet(lst) => Next_(n) \in ToSet(lst) \cup {End}
         /\ n \notin ToSet(lst) => Next_(n) = stale[n]
<1>1. CASE n \in ToSet(lst)
  <2> DEFINE i == CHOOSE i \in DOMAIN lst : lst[i] = n
  <2>1. i \in DOMAIN lst
    BY <1>1 DEF ToSet
  <2> HIDE DEF i
  <2>2. Next_(n) = After(lst, i)
    BY <1>1 DEF Next_, i
  <2>3. After(lst, i) \in ToSet(lst) \cup {End}
    BY <2>1 DEF After, ToSet, TypeOK
  <2>4. ToSet(lst) \subseteq Node
    BY DEF ToSet, TypeOK
  <2> QED BY <1>1, <2>2, <2>3, <2>4
<1>2. CASE n \notin ToSet(lst)
  BY <1>2 DEF Next_, TypeOK
<1> QED BY <1>1, <1>2

LEMMA FirstNode ==
  ASSUME TypeOK
  PROVE  First(lst) \in ToSet(lst) \cup {End} /\ ToSet(lst) \subseteq Node
BY DEF First, ToSet, TypeOK

LEMMA PressedKeys ==
  ASSUME NEW code
  PROVE  /\ Pressed(code) \subseteq Key /\ Released(code) \subseteq Key
         /\ Pressed(code) # {} => Released(code) = {}
BY DEF Pressed, Released, Key, TAB, UP_1, UP_2, DOWN_1, DOWN_2

LEMMA SetListType ==
  ASSUME TypeOK, NEW s \in Seq(Node), NEW v \in [Node -> Key], SetList(s, v)
  PROVE  /\ lst' \in Seq(Node) /\ val' \in [Node -> Key]
         /\ seen' \in SUBSET Key /\ window' \in SUBSET Node /\ stay' \in SUBSET Node
<1>1. KeysOf(s, v) \subseteq Key /\ ToSet(s) \subseteq Node
  BY DEF KeysOf, ToSet
<1> QED BY <1>1 DEF SetList, TypeOK

LEMMA EraseType ==
  ASSUME TypeOK, NEW i \in DOMAIN lst, EraseAt(i)
  PROVE  /\ lst' \in Seq(Node) /\ val' \in [Node -> Key]
         /\ stale' \in [Node -> Node \cup {End}]
         /\ seen' \in SUBSET Key /\ window' \in SUBSET Node /\ stay' \in SUBSET Node
<1>1. RemoveAt(lst, i) \in Seq(Node)
  BY RemoveAtElements DEF TypeOK
<1>2. After(lst, i) \in Node \cup {End}
  BY DEF After, TypeOK
<1>3. stale' \in [Node -> Node \cup {End}]
  BY <1>2 DEF EraseAt, TypeOK
<1> QED BY <1>1, <1>3, SetListType DEF EraseAt, TypeOK

LEMMA DeviceType == TypeOK /\ Device => TypeOK'
<1> SUFFICES ASSUME TypeOK, Device PROVE TypeOK'
  OBVIOUS
<1> USE KeyboardAssumption
<1>1. ASSUME NEW p \in PhysKey, NEW code \in ScanCode, Send(p, code)
      PROVE  fifo' \in Seq(ScanCode) /\ lost' \in SUBSET PhysKey /\ typed' \in Nat
  <2>1. fifo \in Seq(ScanCode) /\ lost \in SUBSET PhysKey /\ typed \in Nat
    BY DEF TypeOK
  <2>2. Append(fifo, code) \in Seq(ScanCode)
    BY <2>1
  <2>3. lost \ {p} \in SUBSET PhysKey /\ lost \cup {p} \in SUBSET PhysKey
    BY <2>1
  <2>4. typed' \in Nat
    BY <1>1, <2>1 DEF Send
  <2>5. CASE Len(fifo) < FifoSize
    BY <1>1, <2>2, <2>3, <2>4, <2>5 DEF Send
  <2>6. CASE ~ (Len(fifo) < FifoSize)
    BY <1>1, <2>1, <2>3, <2>4, <2>6 DEF Send
  <2> QED BY <2>5, <2>6
<1>2. \A p \in PhysKey : p \in ScanCode /\ BreakCode(p) \in ScanCode
  BY DEF ScanCode, BreakCode
<1>3. /\ held' \in SUBSET PhysKey /\ repeat' \in PhysKey \cup {NoKey}
      /\ fifo' \in Seq(ScanCode) /\ lost' \in SUBSET PhysKey /\ typed' \in Nat
  <2>1. CASE Typematic
    BY <1>1, <1>2, <2>1 DEF Typematic, TypeOK
  <2>2. ASSUME NEW p \in PhysKey, PressKey(p) PROVE <1>3!:
    BY <1>1, <1>2, <2>2 DEF PressKey, TypeOK
  <2>3. ASSUME NEW p \in PhysKey, ReleaseKey(p) PROVE <1>3!:
    BY <1>1, <1>2, <2>3 DEF ReleaseKey, TypeOK
  <2> QED BY <2>1, <2>2, <2>3 DEF Device
<1> QED BY <1>3 DEF Device, listVars, clientVars, historyVars, TypeOK

LEMMA IrqThreadType == TypeOK /\ PushInv /\ IrqThread => TypeOK'
<1> SUFFICES ASSUME TypeOK, PushInv, IrqThread
             PROVE  /\ fifo' \in Seq(ScanCode) /\ lst' \in Seq(Node)
                    /\ val' \in [Node -> Key] /\ stale' \in [Node -> Node \cup {End}]
                    /\ irq' \in IrqType
                    /\ down' \in SUBSET Key /\ seen' \in SUBSET Key
                    /\ window' \in SUBSET Node /\ stay' \in SUBSET Node
  BY DEF IrqThread, clientVars, TypeOK
<1>1. CASE ReceiveIrq
  <2>1. fifo' \in Seq(ScanCode) /\ Head(fifo) \in ScanCode
    BY <1>1, HeadTailProperties DEF ReceiveIrq, TypeOK
  <2>2. down' \in SUBSET Key
    BY <1>1, PressedKeys DEF ReceiveIrq, TypeOK
  <2>3. irq' \in IrqType /\ val' \in [Node -> Key] /\ seen' \in SUBSET Key
    <3>1. CASE Pressed(Head(fifo)) = {}
      <4>1. /\ irq' = [pc |-> "erase", buf |-> Head(fifo), node |-> First(lst)]
            /\ UNCHANGED <<val, seen>>
        BY <1>1, <3>1 DEF ReceiveIrq
      <4>2. irq' \in IrqType
        BY <2>1, <4>1, FirstNode DEF ScanCode, IrqType
      <4> QED BY <4>1, <4>2 DEF TypeOK
    <3>2. CASE Pressed(Head(fifo)) # {}
      <4>1. PICK n \in Node, k \in Pressed(Head(fifo)) :
              /\ irq' = [pc |-> "hook", buf |-> Head(fifo), node |-> n]
              /\ val' = [val EXCEPT ![n] = k]
              /\ seen' = IF srv.pc = "wait" THEN {} ELSE seen \cup {k}
        BY <1>1, <3>2 DEF ReceiveIrq
      <4>2. k \in Key
        BY PressedKeys
      <4> QED BY <2>1, <4>1, <4>2 DEF ScanCode, IrqType, TypeOK
    <3> QED BY <3>1, <3>2
  <2> QED BY <1>1, <2>1, <2>2, <2>3 DEF ReceiveIrq, TypeOK
<1>6. CASE HookNode
  <2>1. First(lst) \in Node \cup {End}
    BY FirstNode
  <2>2. irq' \in IrqType
    BY <1>6 DEF HookNode, IrqType, TypeOK
  <2>3. stale' \in [Node -> Node \cup {End}]
    BY <1>6, <2>1 DEF HookNode, TypeOK
  <2> QED BY <1>6, <2>2, <2>3 DEF HookNode, historyVars, TypeOK
<1>7. CASE LinkNode
  <2>1. irq.node \in Node
    BY <1>7 DEF LinkNode, PushInv, Pushing
  <2>2. <<irq.node>> \o lst \in Seq(Node)
    BY <2>1 DEF TypeOK
  <2>3. SetList(<<irq.node>> \o lst, val) /\ val \in [Node -> Key]
    BY <1>7 DEF LinkNode, TypeOK
  <2>4. /\ lst' \in Seq(Node) /\ val' \in [Node -> Key]
        /\ seen' \in SUBSET Key /\ window' \in SUBSET Node /\ stay' \in SUBSET Node
    BY <2>2, <2>3, SetListType
  <2>5. irq' \in IrqType
    BY <1>7 DEF LinkNode, IrqType, TypeOK
  <2> QED BY <1>7, <2>4, <2>5 DEF LinkNode, TypeOK
<1>2. CASE EraseNext
  <2>1. PICK i \in DOMAIN lst : EraseAt(i) /\ irq' = [irq EXCEPT !.node = stale'[lst[i]]]
    BY <1>2 DEF EraseNext, ToErase, From
  <2>2. stale' \in [Node -> Node \cup {End}] /\ lst[i] \in Node
    BY <2>1, EraseType DEF TypeOK
  <2>3. irq' \in IrqType
    BY <2>1, <2>2 DEF IrqType, TypeOK
  <2> QED BY <1>2, <2>1, <2>3, EraseType DEF EraseNext, TypeOK
<1>3. CASE EraseDone
  BY <1>3 DEF EraseDone, listVars, historyVars, IrqType, TypeOK
<1>4. CASE UniqueNext
  BY <1>4, EraseType DEF UniqueNext, TypeOK
<1>5. CASE UniqueDone
  BY <1>5 DEF UniqueDone, listVars, historyVars, IrqType, TypeOK
<1> QED BY <1>1, <1>2, <1>3, <1>4, <1>5, <1>6, <1>7 DEF IrqThread

LEMMA AnswerType ==
  ASSUME TypeOK, NEW c \in Client, NEW e \in BOOLEAN, NEW n \in Nat,
         NEW s \in Seq(Key), Answer(c, e, n, s)
  PROVE  ipc' \in [Client -> [st : {"idle", "sent", "replied"}, msg : Reply]]
<1>1. [err |-> e, size |-> n, items |-> s] \in Reply
  BY DEF Reply
<1> QED BY <1>1 DEF Answer, TypeOK

LEMMA QueueType ==
  ASSUME TypeOK, queue # <<>>
  PROVE  /\ Head(queue) \in Client \X Label /\ Head(queue)[1] \in Client
         /\ Tail(queue) \in Seq(Client \X Label)
<1>1. Head(queue) \in Client \X Label /\ Tail(queue) \in Seq(Client \X Label)
  BY HeadTailProperties DEF TypeOK
<1> QED BY <1>1

LEMMA ServerType == TypeOK /\ StepOnNode /\ ServerThread => TypeOK'
<1> DEFINE SrvType == [pc : {"wait", "count", "walk", "step"}, caller : Client,
                       cur : Node \cup {End}, size : Nat, items : Seq(Key)]
           IpcType == [Client -> [st : {"idle", "sent", "replied"}, msg : Reply]]
<1> SUFFICES ASSUME TypeOK, StepOnNode, ServerThread
             PROVE  /\ srv' \in SrvType
                    /\ queue' \in Seq(Client \X Label) /\ ipc' \in IpcType
                    /\ seen' \in SUBSET Key
                    /\ window' \in SUBSET Node /\ stay' \in SUBSET Node
  BY DEF ServerThread, deviceVars, listVars, TypeOK
<1>1. CASE DispatchBadProto
  <2>1. Answer(Head(queue)[1], TRUE, 0, <<>>)
    BY <1>1 DEF DispatchBadProto
  <2>2. [err |-> TRUE, size |-> 0, items |-> <<>>] \in Reply
    BY DEF Reply
  <2>3. ipc' \in IpcType
    BY <2>1, <2>2 DEF Answer, TypeOK
  <2> QED BY <1>1, <2>3, QueueType DEF DispatchBadProto, TypeOK
<1>2. CASE Dispatch
  <2>1. srv' \in SrvType
    BY <1>2, QueueType, FirstNode DEF Dispatch
  <2>2. KeysOf(lst, val) \subseteq Key
    BY DEF KeysOf, TypeOK
  <2> QED BY <1>2, <2>1, <2>2, QueueType, FirstNode DEF Dispatch, TypeOK
<1>3. CASE CountNext
  <2>1. srv.cur \in Node /\ Next_(srv.cur) \in Node \cup {End}
    BY <1>3, NextPointer DEF CountNext, TypeOK
  <2>2. srv' \in SrvType
    <3>1. srv \in SrvType /\ srv.size + 1 \in Nat
      BY DEF TypeOK
    <3> QED BY <1>3, <2>1, <3>1 DEF CountNext
  <2> QED BY <1>3, <2>2 DEF CountNext, clientVars, TypeOK
<1>4. CASE CountDone
  BY <1>4, FirstNode DEF CountDone, clientVars, TypeOK
<1>5. CASE SendItem
  <2>1. val[srv.cur] \in Key
    BY <1>5 DEF SendItem, TypeOK
  <2>2. Append(srv.items, val[srv.cur]) \in Seq(Key)
    BY <2>1 DEF TypeOK
  <2> QED BY <1>5, <2>2 DEF SendItem, clientVars, TypeOK
<1>6. CASE NextItem
  <2>1. Next_(srv.cur) \in Node \cup {End}
    BY <1>6, NextPointer DEF NextItem, StepOnNode, TypeOK
  <2>2. srv' \in SrvType
    <3>1. srv \in SrvType
      BY DEF TypeOK
    <3> QED BY <1>6, <2>1, <3>1 DEF NextItem
  <2> QED BY <1>6, <2>2 DEF NextItem, clientVars, TypeOK
<1>7. CASE SendReply
  <2>1. Answer(srv.caller, FALSE, srv.size, srv.items)
    BY <1>7 DEF SendReply
  <2>2. ipc' \in IpcType
    BY <2>1, AnswerType DEF TypeOK
  <2>3. srv' \in SrvType
    <3>1. srv \in SrvType /\ <<>> \in Seq(Key)
      BY DEF TypeOK
    <3> QED BY <1>7, <3>1 DEF SendReply
  <2>4. seen' \in SUBSET Key /\ window' \in SUBSET Node /\ stay' \in SUBSET Node
    BY <1>7 DEF SendReply
  <2> QED BY <1>7, <2>2, <2>3, <2>4 DEF SendReply, TypeOK
<1> QED BY <1>1, <1>2, <1>3, <1>4, <1>5, <1>6, <1>7 DEF ServerThread

LEMMA ClientType == TypeOK /\ ClientStep => TypeOK'
<1> SUFFICES ASSUME TypeOK, NEW c \in Client, NEW label \in Label,
                    Receive(c) \/ Call(c, label)
             PROVE  /\ queue' \in Seq(Client \X Label)
                    /\ ipc' \in [Client -> [st : {"idle", "sent", "replied"}, msg : Reply]]
  BY DEF ClientStep, deviceVars, listVars, historyVars, TypeOK, Label
<1>1. CASE Receive(c)
  <2>1. NoReply \in Reply
    BY DEF NoReply, Reply
  <2> QED BY <1>1, <2>1 DEF Receive, TypeOK
<1>2. CASE Call(c, label)
  <2>1. <<c, label>> \in Client \X Label
    OBVIOUS
  <2>2. queue' \in Seq(Client \X Label)
    BY <1>2, <2>1 DEF Call, TypeOK
  <2> QED BY <1>2, <2>2 DEF Call, TypeOK
<1> QED BY <1>1, <1>2

LEMMA StepOnNodeStep == TypeOK /\ StepOnNode /\ [Next]_vars => StepOnNode'
<1> SUFFICES ASSUME TypeOK, StepOnNode, [Next]_vars PROVE StepOnNode'
  OBVIOUS
<1> USE DEF StepOnNode
<1>1. CASE UNCHANGED srv
  BY <1>1
<1>2. CASE ServerThread
  <2>1. CASE SendItem
    BY <2>1 DEF SendItem, TypeOK
  <2>2. CASE DispatchBadProto \/ Dispatch
    <3>1. DispatchBadProto => srv' = srv
      BY Zenon DEF DispatchBadProto
    <3>2. Dispatch => srv'.pc = "count"
      BY DEF Dispatch
    <3> QED BY <2>2, <3>1, <3>2
  <2>3. CASE CountNext
    BY <2>3 DEF CountNext, TypeOK
  <2>4. CASE CountDone \/ NextItem
    BY <2>4 DEF CountDone, NextItem, TypeOK
  <2>5. CASE SendReply
    BY <2>5 DEF SendReply, TypeOK
  <2> QED BY <1>2, <2>1, <2>2, <2>3, <2>4, <2>5 DEF ServerThread
<1> QED BY <1>1, <1>2 DEF Next, Device, IrqThread, ClientStep, vars

LEMMA PushStep == TypeOK /\ PushInv /\ [Next]_vars => PushInv'
<1> SUFFICES ASSUME TypeOK, PushInv, [Next]_vars PROVE PushInv'
  OBVIOUS
<1>1. CASE UNCHANGED <<lst, val, irq>>
  BY <1>1 DEF PushInv, Pushing, ToSet
<1>2. CASE ReceiveIrq
  <2>1. CASE Pressed(Head(fifo)) = {}
    BY <1>2, <2>1 DEF ReceiveIrq, PushInv, Pushing
  <2>2. CASE Pressed(Head(fifo)) # {}
    <3>1. PICK n \in Node \ ToSet(lst), k \in Pressed(Head(fifo)) :
            /\ irq' = [pc |-> "hook", buf |-> Head(fifo), node |-> n]
            /\ val' = [val EXCEPT ![n] = k]
      BY <1>2, <2>2 DEF ReceiveIrq
    <3>2. Pressed(Head(fifo)) = {k}
      BY DEF Pressed
    <3>3. val'[n] = k /\ lst' = lst
      BY <1>2, <3>1 DEF ReceiveIrq, TypeOK
    <3> QED BY <3>1, <3>2, <3>3 DEF PushInv, ToSet
  <2> QED BY <2>1, <2>2
<1>3. CASE HookNode
  BY <1>3 DEF HookNode, PushInv, Pushing, ToSet, IrqType, TypeOK
<1>4. CASE LinkNode \/ EraseNext \/ EraseDone \/ UniqueNext \/ UniqueDone
  BY <1>4 DEF LinkNode, EraseNext, EraseDone, UniqueNext, UniqueDone,
              PushInv, Pushing, IrqType, TypeOK
<1> QED
  BY <1>1, <1>2, <1>3, <1>4
  DEF Next, Device, IrqThread, ServerThread, ClientStep, vars, listVars

(* The types of the keyboard server's variables; TypeOK is inductive once it *)
(* is known that the walk steps on from nodes only and that push_front links *)
(* a node.                                                                   *)
THEOREM TypeCorrect == Spec => [](TypeOK /\ StepOnNode /\ PushInv)
<1>1. Init => TypeOK /\ StepOnNode /\ PushInv
  <2> SUFFICES ASSUME Init PROVE TypeOK /\ StepOnNode /\ PushInv
    OBVIOUS
  <2>1. NoReply \in Reply /\ UP_1 \in Key
    BY DEF NoReply, Reply, Key, UP_1
  <2>2. srv \in [pc : {"wait", "count", "walk", "step"}, caller : Client,
                 cur : Node \cup {End}, size : Nat, items : Seq(Key)]
    BY DEF Init
  <2> QED BY <2>1, <2>2 DEF Init, TypeOK, IrqType, StepOnNode, PushInv, Pushing
<1>2. TypeOK /\ StepOnNode /\ PushInv /\ [Next]_vars => (TypeOK /\ StepOnNode /\ PushInv)'
  <2>1. TypeOK /\ UNCHANGED vars => TypeOK'
    BY DEF vars, deviceVars, listVars, clientVars, historyVars, TypeOK
  <2> QED BY <2>1, DeviceType, IrqThreadType, ServerType, ClientType,
             StepOnNodeStep, PushStep DEF Next
<1> QED BY <1>1, <1>2, PTL DEF Spec

-----------------------------------------------------------------------------
(* What push_front and erase do to the list's keys and nodes.                *)

LEMMA FillNode ==
  ASSUME TypeOK, NEW n \in Node \ ToSet(lst), NEW k \in Key
  PROVE  KeysOf(lst, [val EXCEPT ![n] = k]) = KeysOf(lst, val)
<1>1. \A i \in DOMAIN lst : lst[i] \in Node /\ lst[i] # n
  BY DEF TypeOK, ToSet
<1>2. \A i \in DOMAIN lst : [val EXCEPT ![n] = k][lst[i]] = val[lst[i]]
  BY <1>1 DEF TypeOK
<1> QED BY <1>2 DEF KeysOf

LEMMA PushFront ==
  ASSUME TypeOK, NEW n \in Node \ ToSet(lst)
  PROVE  /\ KeysOf(<<n>> \o lst, val) = KeysOf(lst, val) \cup {val[n]}
         /\ ToSet(<<n>> \o lst) = ToSet(lst) \cup {n}
<1> DEFINE s == <<n>> \o lst
<1>1. /\ s \in Seq(Node) /\ Len(s) = Len(lst) + 1
      /\ s[1] = n /\ \A i \in DOMAIN lst : s[i + 1] = lst[i]
  BY DEF TypeOK
<1>2. \A i \in DOMAIN s : i = 1 \/ (i - 1 \in DOMAIN lst /\ s[i] = lst[i - 1])
  BY <1>1 DEF TypeOK
<1>3. \A i \in DOMAIN lst : i + 1 \in DOMAIN s /\ s[i + 1] = lst[i]
  BY <1>1 DEF TypeOK
<1>4. 1 \in DOMAIN s
  BY <1>1 DEF TypeOK
<1> HIDE DEF s
<1>5. ToSet(s) = ToSet(lst) \cup {n}
  BY <1>1, <1>2, <1>3, <1>4 DEF ToSet
<1>6. KeysOf(s, val) = KeysOf(lst, val) \cup {val[n]}
  <2>1. \A i \in DOMAIN s : val[s[i]] \in KeysOf(lst, val) \cup {val[n]}
    BY <1>1, <1>2 DEF KeysOf
  <2>2. \A i \in DOMAIN lst : val[lst[i]] \in KeysOf(s, val)
    BY <1>3 DEF KeysOf
  <2>3. val[n] \in KeysOf(s, val)
    BY <1>1, <1>4 DEF KeysOf
  <2> QED BY <2>1, <2>2, <2>3 DEF KeysOf
<1> QED BY <1>5, <1>6 DEF s

LEMMA Erase ==
  ASSUME TypeOK, NEW i \in DOMAIN lst
  PROVE  LET s == RemoveAt(lst, i) IN
         /\ ToSet(s) \subseteq ToSet(lst) /\ ToSet(lst) \subseteq ToSet(s) \cup {lst[i]}
         /\ KeysOf(s, val) \subseteq KeysOf(lst, val)
         /\ KeysOf(lst, val) \subseteq KeysOf(s, val) \cup {val[lst[i]]}
         /\ \A j \in DOMAIN lst :
              j # i /\ val[lst[j]] = val[lst[i]] => KeysOf(s, val) = KeysOf(lst, val)
<1> DEFINE s == RemoveAt(lst, i)
<1>1. /\ \A j \in DOMAIN s : \E k \in DOMAIN lst : k # i /\ s[j] = lst[k]
      /\ \A k \in DOMAIN lst : k # i => \E j \in DOMAIN s : s[j] = lst[k]
  BY RemoveAtDomain DEF TypeOK
<1> HIDE DEF s
<1>2. ToSet(s) \subseteq ToSet(lst) /\ ToSet(lst) \subseteq ToSet(s) \cup {lst[i]}
  BY <1>1 DEF ToSet
<1>3. KeysOf(s, val) \subseteq KeysOf(lst, val)
  BY <1>1 DEF KeysOf
<1>4. \A k \in DOMAIN lst : k # i => val[lst[k]] \in KeysOf(s, val)
  BY <1>1 DEF KeysOf
<1>5. KeysOf(lst, val) \subseteq KeysOf(s, val) \cup {val[lst[i]]}
  BY <1>4 DEF KeysOf
<1>6. ASSUME NEW j \in DOMAIN lst, j # i, val[lst[j]] = val[lst[i]]
      PROVE  KeysOf(s, val) = KeysOf(lst, val)
  BY <1>3, <1>4, <1>5, <1>6
<1> QED BY <1>2, <1>3, <1>5, <1>6 DEF s

-----------------------------------------------------------------------------
(* The list holds the keys that are down, but for the one being erased.      *)

LEMMA CursorStep == TypeOK /\ PushInv /\ CursorInv /\ [Next]_vars => CursorInv'
<1> SUFFICES ASSUME TypeOK, PushInv, CursorInv, [Next]_vars, irq'.pc = "erase",
                    NEW k \in DOMAIN lst', val'[lst'[k]] \in Released(irq'.buf)
             PROVE  \E j \in 1..k : lst'[j] = irq'.node
  BY DEF CursorInv, From
<1>0. lst \in Seq(Node) /\ irq \in IrqType
  BY DEF TypeOK
<1>1. CASE UNCHANGED <<lst, val, irq>>
  BY <1>1 DEF CursorInv, From
<1>2. CASE ReceiveIrq
  <2>1. irq'.node = First(lst) /\ lst' = lst
    BY <1>2 DEF ReceiveIrq
  <2>2. lst[1] = First(lst) /\ 1 \in 1..k
    BY <1>0, <2>1 DEF First
  <2> QED BY <2>1, <2>2
<1>3. CASE LinkNode
  <2>1. irq'.node = irq.node /\ lst' = <<irq.node>> \o lst
    BY <1>0, <1>3 DEF LinkNode, SetList, IrqType
  <2>2. irq.node \in Node
    BY <1>3 DEF LinkNode, PushInv, Pushing
  <2>3. lst'[1] = irq.node /\ 1 \in 1..k
    BY <1>0, <2>1, <2>2
  <2> QED BY <2>1, <2>3
<1>4. CASE EraseNext
  <2>1. PICK i \in ToErase : /\ \A j \in ToErase : i <= j
                             /\ EraseAt(i) /\ irq' = [irq EXCEPT !.node = stale'[lst[i]]]
    BY <1>4 DEF EraseNext
  <2>2. i \in DOMAIN lst /\ i \in 1..Len(lst) /\ Len(lst) \in Nat /\ lst[i] \in Node
    BY <1>0 DEF ToErase, From
  <2>3. /\ lst' = RemoveAt(lst, i) /\ val' = val /\ irq'.buf = irq.buf
        /\ stale' = [stale EXCEPT ![lst[i]] = After(lst, i)]
    BY <1>0, <2>1 DEF EraseAt, SetList, IrqType
  <2>4. irq'.node = After(lst, i)
    <3>1. stale'[lst[i]] = After(lst, i)
      BY <2>2, <2>3 DEF TypeOK
    <3> QED BY <1>0, <2>1, <3>1 DEF IrqType
  <2>5. /\ Len(lst') = Len(lst) - 1 /\ k \in 1..(Len(lst) - 1)
        /\ \A j \in 1..(Len(lst) - 1) : lst'[j] = IF j < i THEN lst[j] ELSE lst[j + 1]
    <3>1. /\ RemoveAt(lst, i) \in Seq(Node) /\ Len(RemoveAt(lst, i)) = Len(lst) - 1
          /\ \A j \in 1..(Len(lst) - 1) :
               RemoveAt(lst, i)[j] = IF j < i THEN lst[j] ELSE lst[j + 1]
      BY <1>0, <2>2, RemoveAtElements
    <3> QED BY <2>3, <3>1
  <2>6. \A m \in DOMAIN lst : val[lst[m]] \in Released(irq.buf) => i <= m
    BY <1>4, <2>1 DEF CursorInv, ToErase, EraseNext
  <2>7. ~ (k < i)
    BY <2>2, <2>3, <2>5, <2>6
  <2>8. i \in 1..k /\ i \in 1..(Len(lst) - 1) /\ i # Len(lst)
    BY <2>2, <2>5, <2>7
  <2>9. lst'[i] = lst[i + 1]
    BY <2>2, <2>5, <2>8
  <2> QED BY <2>4, <2>8, <2>9 DEF After
<1>5. CASE HookNode \/ EraseDone \/ UniqueNext \/ UniqueDone
  BY <1>0, <1>5 DEF HookNode, EraseDone, UniqueNext, UniqueDone, IrqType
<1> QED
  BY <1>1, <1>2, <1>3, <1>4, <1>5
  DEF Next, Device, IrqThread, ServerThread, ClientStep, vars, listVars

LEMMA ScansStep == TypeOK /\ PushInv /\ ScansInv /\ [Next]_vars => ScansInv'
<1> SUFFICES ASSUME TypeOK, PushInv, ScansInv, [Next]_vars
             PROVE  ((KeysOf(lst, val) \cup Added) \ Doomed = down)'
  BY CursorStep DEF ScansInv
<1>1. CASE UNCHANGED <<lst, val, irq, down>>
  BY <1>1 DEF ScansInv, Doomed, Added, Pushing, KeysOf
<1>2. CASE ReceiveIrq
  <2> DEFINE code == Head(fifo)
  <2>1. KeysOf(lst, val) = down
    BY <1>2 DEF ReceiveIrq, ScansInv, Doomed, Added, Pushing
  <2>2. down' = (down \cup Pressed(code)) \ Released(code)
    BY <1>2 DEF ReceiveIrq
  <2>3. CASE Pressed(code) = {}
    <3>1. Added' = {} /\ Doomed' = Released(code)
      BY <1>2, <2>3 DEF ReceiveIrq, Doomed, Added, Pushing
    <3>2. KeysOf(lst, val)' = KeysOf(lst, val)
      BY <1>2, <2>3 DEF ReceiveIrq, KeysOf
    <3> QED BY <2>1, <2>2, <2>3, <3>1, <3>2 DEF ScansInv
  <2>4. CASE Pressed(code) # {}
    <3>1. PICK n \in Node \ ToSet(lst), k \in Pressed(code) :
            /\ irq' = [pc |-> "hook", buf |-> code, node |-> n]
            /\ val' = [val EXCEPT ![n] = k]
      BY <1>2, <2>4 DEF ReceiveIrq
    <3>2. Added' = Pressed(code) /\ Doomed' = {}
      BY <3>1 DEF Doomed, Added, Pushing
    <3>3. Released(code) = {} /\ k \in Key
      BY <2>4, PressedKeys
    <3>4. KeysOf(lst, val)' = KeysOf(lst, [val EXCEPT ![n] = k])
      BY <1>2, <3>1 DEF ReceiveIrq, KeysOf
    <3>5. KeysOf(lst, val)' = KeysOf(lst, val)
      BY <3>3, <3>4, FillNode
    <3> QED BY <2>1, <2>2, <3>2, <3>3, <3>5 DEF ScansInv
  <2> QED BY <2>3, <2>4
<1>7. CASE HookNode
  <2>1. /\ UNCHANGED <<lst, val, down>> /\ irq.pc = "hook"
        /\ irq'.pc = "link" /\ irq'.buf = irq.buf
    BY <1>7 DEF HookNode, historyVars, IrqType, TypeOK
  <2> QED BY <2>1 DEF ScansInv, Doomed, Added, Pushing, KeysOf
<1>8. CASE LinkNode
  <2>1. /\ irq.pc = "link" /\ irq'.pc = "erase" /\ irq'.buf = irq.buf /\ down' = down
    BY <1>8 DEF LinkNode, IrqType, TypeOK
  <2>2. irq.node \in Node \ ToSet(lst) /\ Pressed(irq.buf) = {val[irq.node]}
    BY <2>1 DEF PushInv, Pushing
  <2>3. KeysOf(lst, val)' = KeysOf(<<irq.node>> \o lst, val)
    BY <1>8 DEF LinkNode, SetList, KeysOf
  <2>4. KeysOf(lst, val)' = KeysOf(lst, val) \cup Pressed(irq.buf)
    BY <2>2, <2>3, PushFront
  <2>5. Added = Pressed(irq.buf) /\ Doomed = {} /\ Added' = {}
    BY <2>1 DEF Added, Doomed, Pushing
  <2>6. Doomed' = {}
    BY <2>1, <2>2, PressedKeys DEF Doomed
  <2> QED BY <2>1, <2>4, <2>5, <2>6 DEF ScansInv
<1>3. CASE EraseNext
  <2>1. PICK i \in DOMAIN lst : val[lst[i]] \in Released(irq.buf) /\ EraseAt(i)
    BY <1>3 DEF EraseNext, ToErase, From
  <2>2. KeysOf(lst, val)' = KeysOf(RemoveAt(lst, i), val)
    BY <2>1 DEF EraseAt, SetList, KeysOf
  <2>3. /\ Doomed = Released(irq.buf) /\ Doomed' = Doomed /\ down' = down
        /\ Added = {} /\ Added' = {}
    <3>1. irq.pc = "erase" /\ irq'.pc = "erase" /\ irq'.buf = irq.buf /\ down' = down
      BY <1>3 DEF EraseNext, IrqType, TypeOK
    <3> QED BY <3>1 DEF Doomed, Added, Pushing
  <2> QED BY <2>1, <2>2, <2>3, Erase DEF ScansInv
<1>4. CASE EraseDone
  <2>1. KeysOf(lst, val) \cap Released(irq.buf) = {} /\ Doomed = Released(irq.buf)
    BY <1>4 DEF EraseDone, ToErase, ScansInv, CursorInv, KeysOf, Doomed
  <2>2. Doomed' = {} /\ Added = {} /\ Added' = {} /\ UNCHANGED <<lst, val, down>>
    BY <1>4 DEF EraseDone, Doomed, Added, Pushing, listVars, historyVars, IrqType, TypeOK
  <2> QED BY <2>1, <2>2 DEF ScansInv, KeysOf
<1>5. CASE UniqueNext
  <2>1. PICK i \in DOMAIN lst : Doubled(i) /\ EraseAt(i)
    BY <1>5 DEF UniqueNext
  <2>2. KeysOf(lst, val)' = KeysOf(RemoveAt(lst, i), val)
    BY <2>1 DEF EraseAt, SetList, KeysOf
  <2>3. i - 1 \in DOMAIN lst /\ i - 1 # i /\ val[lst[i - 1]] = val[lst[i]]
    BY <2>1 DEF Doubled, TypeOK
  <2>4. Doomed = {} /\ Doomed' = {} /\ Added = {} /\ Added' = {} /\ down' = down
    BY <1>5 DEF UniqueNext, Doomed, Added, Pushing
  <2> QED BY <2>2, <2>3, <2>4, Erase DEF ScansInv
<1>6. CASE UniqueDone
  <2>1. /\ Doomed = {} /\ Doomed' = {} /\ Added = {} /\ Added' = {}
        /\ UNCHANGED <<lst, val, down>>
    BY <1>6 DEF UniqueDone, Doomed, Added, Pushing, listVars, historyVars, IrqType, TypeOK
  <2> QED BY <2>1 DEF ScansInv, KeysOf
<1> QED
  BY <1>1, <1>2, <1>3, <1>4, <1>5, <1>6, <1>7, <1>8
  DEF Next, Device, IrqThread, ServerThread, ClientStep, vars, listVars, historyVars

(* Between two interrupts currently_pressed holds exactly the keys whose     *)
(* last scan code was a make code, whatever the erase loop and unique() met. *)
THEOREM ListIsFaithful == Spec => []ListReflectsScans
<1>1. Init => ScansInv
  BY DEF Init, ScansInv, CursorInv, Doomed, Added, Pushing, KeysOf
<1>2. ScansInv => ListReflectsScans
  BY DEF ScansInv, ListReflectsScans, Doomed, Added, Pushing
<1> QED BY <1>1, <1>2, ScansStep, TypeCorrect, PTL DEF Spec

-----------------------------------------------------------------------------
(* The walk of a dispatch under the edits of the other thread.               *)

(* An edit keeps the walk's nodes closed under their next pointers.          *)
LEMMA EditKeepsWalk ==
  ASSUME TypeOK, WalkInv, UNCHANGED srv, srv.pc # "wait",
         NEW s, NEW v, SetList(s, v),
         \A n \in window \cup ToSet(s) : v[n] \in seen \cup KeysOf(s, v),
         \A n \in (window \cup ToSet(s)) \ ToSet(s) :
            stale'[n] \in window \cup ToSet(s) \cup {End}
  PROVE  WalkInv'
<1>1. /\ lst' = s /\ val' = v
      /\ seen' = seen \cup KeysOf(s, v) /\ window' = window \cup ToSet(s)
  BY DEF SetList
<1>2. NoPhantomKey'
  BY <1>1 DEF WalkInv, NoPhantomKey
<1> QED BY <1>1, <1>2 DEF WalkInv

LEMMA EraseKeepsWalk ==
  ASSUME TypeOK, WalkInv, UNCHANGED srv, NEW i \in DOMAIN lst, EraseAt(i)
  PROVE  WalkInv'
<1>1. CASE srv.pc = "wait"
  BY <1>1 DEF WalkInv
<1>2. CASE srv.pc # "wait"
  <2> DEFINE s == RemoveAt(lst, i)
  <2>1. SetList(s, val) /\ stale' = [stale EXCEPT ![lst[i]] = After(lst, i)]
    BY DEF EraseAt
  <2>2. ToSet(lst) \subseteq window /\ ToSet(s) \subseteq ToSet(lst)
    BY <1>2, Erase DEF WalkInv
  <2>3. \A n \in window : val[n] \in seen
    BY <1>2 DEF WalkInv
  <2>4. After(lst, i) \in ToSet(lst) \cup {End}
    BY DEF After, ToSet, TypeOK
  <2>5. ASSUME NEW n \in window, n \notin ToSet(s)
        PROVE  stale'[n] \in window \cup {End}
    <3>1. n \in Node
      BY DEF TypeOK
    <3>2. CASE n = lst[i]
      BY <2>1, <2>2, <2>4, <3>1, <3>2 DEF TypeOK
    <3>3. CASE n # lst[i]
      <4>1. n \notin ToSet(lst)
        BY <2>5, <3>3, Erase
      <4>2. stale[n] \in window \cup {End}
        BY <1>2, <4>1 DEF WalkInv
      <4> QED BY <2>1, <3>1, <3>3, <4>2 DEF TypeOK
    <3> QED BY <3>2, <3>3
  <2> HIDE DEF s
  <2> QED BY <1>2, <2>1, <2>2, <2>3, <2>5, EditKeepsWalk
<1> QED BY <1>1, <1>2

LEMMA FillKeepsWalk ==
  ASSUME TypeOK, WalkInv, UNCHANGED <<srv, lst, stale, window>>,
         NEW n \in Node, NEW k \in Key, val' = [val EXCEPT ![n] = k],
         seen' = IF srv.pc = "wait" THEN {} ELSE seen \cup {k}
  PROVE  WalkInv'
<1>1. CASE srv.pc = "wait"
  BY <1>1 DEF WalkInv
<1>2. CASE srv.pc # "wait"
  <2>1. \A m \in window : val'[m] \in seen'
    <3> SUFFICES ASSUME NEW m \in window PROVE val'[m] \in seen \cup {k}
      BY <1>2
    <3>1. m \in Node /\ val[m] \in seen
      BY <1>2 DEF WalkInv, TypeOK
    <3> QED BY <3>1 DEF TypeOK
  <2>2. NoPhantomKey'
    BY <1>2 DEF WalkInv, NoPhantomKey
  <2>3. ToSet(lst)' = ToSet(lst)
    BY DEF ToSet
  <2> QED BY <1>2, <2>1, <2>2, <2>3 DEF WalkInv
<1> QED BY <1>1, <1>2

LEMMA HookKeepsWalk ==
  ASSUME TypeOK, WalkInv, UNCHANGED <<srv, lst, val, seen, window>>, NEW n \in Node,
         stale' = [stale EXCEPT ![n] = First(lst)]
  PROVE  WalkInv'
<1>1. CASE srv.pc = "wait"
  BY <1>1 DEF WalkInv
<1>2. CASE srv.pc # "wait"
  <2>1. ASSUME NEW m \in window \ ToSet(lst)
        PROVE  stale'[m] \in window \cup {End}
    <3>1. m \in Node /\ stale[m] \in window \cup {End}
      BY <1>2 DEF WalkInv, TypeOK
    <3>2. First(lst) \in window \cup {End}
      BY <1>2, FirstNode DEF WalkInv
    <3> QED BY <3>1, <3>2 DEF TypeOK
  <2>2. NoPhantomKey' /\ ToSet(lst)' = ToSet(lst)
    BY <1>2 DEF WalkInv, NoPhantomKey, ToSet
  <2> QED BY <1>2, <2>1, <2>2 DEF WalkInv
<1> QED BY <1>1, <1>2

LEMMA LinkKeepsWalk ==
  ASSUME TypeOK, WalkInv, UNCHANGED <<srv, stale>>, NEW n \in Node \ ToSet(lst),
         SetList(<<n>> \o lst, val)
  PROVE  WalkInv'
<1>1. CASE srv.pc = "wait"
  BY <1>1 DEF WalkInv
<1>2. CASE srv.pc # "wait"
  <2> DEFINE s == <<n>> \o lst
  <2>1. ToSet(s) = ToSet(lst) \cup {n} /\ KeysOf(s, val) = KeysOf(lst, val) \cup {val[n]}
    BY PushFront
  <2>2. ToSet(lst) \subseteq window
    BY <1>2 DEF WalkInv
  <2>3. \A m \in window \cup ToSet(s) : val[m] \in seen \cup KeysOf(s, val)
    BY <1>2, <2>1, <2>2 DEF WalkInv
  <2>4. \A m \in (window \cup ToSet(s)) \ ToSet(s) :
           stale'[m] \in window \cup ToSet(s) \cup {End}
    BY <1>2, <2>1 DEF WalkInv
  <2>5. SetList(s, val)
    OBVIOUS
  <2> HIDE DEF s
  <2> QED BY <1>2, <2>3, <2>4, <2>5, EditKeepsWalk
<1> QED BY <1>1, <1>2

LEMMA ServerKeepsWalk == TypeOK /\ StepOnNode /\ WalkInv /\ ServerThread => WalkInv'
<1> SUFFICES ASSUME TypeOK, StepOnNode, WalkInv, ServerThread PROVE WalkInv'
  OBVIOUS
<1>0. UNCHANGED <<lst, val, stale>>
  BY DEF ServerThread, listVars
<1>1. CASE DispatchBadProto
  <2>1. UNCHANGED <<srv, seen, window>>
    BY <1>1, Zenon DEF DispatchBadProto
  <2> QED BY <1>0, <2>1 DEF WalkInv, NoPhantomKey
<1>2. CASE Dispatch
  <2>1. /\ srv'.pc = "count" /\ srv'.cur = First(lst) /\ srv'.items = <<>>
        /\ seen' = KeysOf(lst, val) /\ window' = ToSet(lst)
    BY <1>2 DEF Dispatch
  <2>2. \A n \in ToSet(lst) : val[n] \in KeysOf(lst, val)
    BY DEF ToSet, KeysOf
  <2>3. NoPhantomKey'
    BY <2>1 DEF NoPhantomKey
  <2> QED BY <1>0, <2>1, <2>2, <2>3, FirstNode DEF WalkInv
<1>3. ASSUME srv.pc # "wait", srv'.pc # "wait", srv'.items = srv.items,
             UNCHANGED <<seen, window>>, srv'.cur \in window \cup {End}
      PROVE  WalkInv'
  BY <1>0, <1>3 DEF WalkInv, NoPhantomKey
<1>4. ASSUME srv.pc # "wait", srv.cur # End
      PROVE  srv.cur \in Node /\ Next_(srv.cur) \in window \cup {End}
  <2>1. srv.cur \in window /\ srv.cur \in Node
    BY <1>4 DEF WalkInv, TypeOK
  <2> QED BY <1>4, <2>1, NextPointer DEF WalkInv
<1>5. CASE CountNext
  <2>1. /\ srv.pc # "wait" /\ srv'.pc # "wait" /\ srv'.items = srv.items
        /\ srv.cur # End /\ srv'.cur = Next_(srv.cur) /\ UNCHANGED <<seen, window>>
    BY <1>5 DEF CountNext, TypeOK
  <2> QED BY <1>3, <1>4, <2>1
<1>6. CASE CountDone
  <2>1. /\ srv.pc # "wait" /\ srv'.pc # "wait" /\ srv'.items = srv.items
        /\ srv'.cur = First(lst) /\ UNCHANGED <<seen, window>>
    BY <1>6 DEF CountDone, TypeOK
  <2>2. First(lst) \in window \cup {End}
    BY <2>1, FirstNode DEF WalkInv
  <2> QED BY <1>3, <2>1, <2>2
<1>7. CASE SendItem
  <2>1. /\ srv.pc # "wait" /\ srv'.pc # "wait" /\ srv'.cur = srv.cur
        /\ srv'.items = Append(srv.items, val[srv.cur]) /\ UNCHANGED <<seen, window>>
    BY <1>7 DEF SendItem, TypeOK
  <2>2. val[srv.cur] \in seen
    BY <1>7, <2>1 DEF SendItem, WalkInv
  <2>3. NoPhantomKey'
    BY <2>1, <2>2 DEF WalkInv, NoPhantomKey, TypeOK
  <2> QED BY <1>0, <2>1, <2>3 DEF WalkInv
<1>8. CASE NextItem
  <2>1. /\ srv.pc # "wait" /\ srv'.pc # "wait" /\ srv'.items = srv.items
        /\ srv.cur # End /\ srv'.cur = Next_(srv.cur) /\ UNCHANGED <<seen, window>>
    BY <1>8 DEF NextItem, StepOnNode, TypeOK
  <2> QED BY <1>3, <1>4, <2>1
<1>9. CASE SendReply
  <2>1. srv'.pc = "wait" /\ srv'.items = <<>>
    BY <1>9 DEF SendReply, TypeOK
  <2> QED BY <2>1 DEF WalkInv
<1> QED BY <1>1, <1>2, <1>5, <1>6, <1>7, <1>8, <1>9 DEF ServerThread

LEMMA WalkStep ==
  TypeOK /\ StepOnNode /\ PushInv /\ WalkInv /\ [Next]_vars => WalkInv'
<1> SUFFICES ASSUME TypeOK, StepOnNode, PushInv, WalkInv, [Next]_vars PROVE WalkInv'
  OBVIOUS
<1>1. CASE UNCHANGED <<listVars, srv, seen, window>>
  BY <1>1 DEF WalkInv, NoPhantomKey, listVars
<1>2. CASE IrqThread
  <2>0. UNCHANGED srv
    BY <1>2 DEF IrqThread
  <2>1. CASE ReceiveIrq
    <3>1. CASE Pressed(Head(fifo)) = {}
      <4>1. UNCHANGED <<lst, val, stale, seen, window>>
        BY <2>1, <3>1 DEF ReceiveIrq
      <4> QED BY <2>0, <4>1 DEF WalkInv, NoPhantomKey
    <3>2. CASE Pressed(Head(fifo)) # {}
      <4>1. PICK n \in Node \ ToSet(lst), k \in Pressed(Head(fifo)) :
              /\ val' = [val EXCEPT ![n] = k]
              /\ seen' = IF srv.pc = "wait" THEN {} ELSE seen \cup {k}
        BY <2>1, <3>2 DEF ReceiveIrq
      <4>2. k \in Key /\ UNCHANGED <<lst, stale, window>>
        BY <2>1, PressedKeys DEF ReceiveIrq
      <4> QED BY <2>0, <4>1, <4>2, FillKeepsWalk
    <3> QED BY <3>1, <3>2
  <2>5. CASE HookNode
    <3>1. irq.node \in Node
      BY <2>5 DEF HookNode, PushInv, Pushing
    <3> QED BY <2>0, <2>5, <3>1, HookKeepsWalk DEF HookNode, historyVars
  <2>6. CASE LinkNode
    <3>1. irq.node \in Node \ ToSet(lst)
      BY <2>6 DEF LinkNode, PushInv, Pushing
    <3> QED BY <2>0, <2>6, <3>1, LinkKeepsWalk DEF LinkNode
  <2>2. CASE EraseNext
    BY <2>0, <2>2, EraseKeepsWalk DEF EraseNext, ToErase, From
  <2>3. CASE UniqueNext
    BY <2>0, <2>3, EraseKeepsWalk DEF UniqueNext
  <2>4. CASE EraseDone \/ UniqueDone
    BY <1>1, <2>0, <2>4 DEF EraseDone, UniqueDone, historyVars
  <2> QED BY <1>2, <2>1, <2>2, <2>3, <2>4, <2>5, <2>6 DEF IrqThread
<1>3. CASE ServerThread
  BY <1>3, ServerKeepsWalk
<1> QED BY <1>1, <1>2, <1>3 DEF Next, Device, ClientStep, vars, historyVars

(* No reply names a key that was not in currently_pressed, or being pushed,  *)
(* at some time during the dispatch, however the two threads interleave and  *)
(* whichever freed node push_front is given.                                 *)
THEOREM RepliesNameSeenKeys == Spec => []NoPhantomKey
<1>1. Init => WalkInv
  BY DEF Init, WalkInv
<1>2. WalkInv => NoPhantomKey
  BY DEF WalkInv, NoPhantomKey
<1> QED BY <1>1, <1>2, WalkStep, TypeCorrect, PTL DEF Spec

-----------------------------------------------------------------------------
(* What the controller still buffers.                                        *)

(* For a key none of whose codes was dropped since, the last of its codes in *)
(* the buffer says whether the user holds it; if none is left there, the     *)
(* codes loop() has read say so.                                             *)
KeyCodes(p)   == {p, BreakCode(p)}
LastCode(p, i) == /\ fifo[i] \in KeyCodes(p)
                  /\ \A j \in DOMAIN fifo : j > i => fifo[j] \notin KeyCodes(p)
FifoInv ==
  /\ repeat \in held \cup {NoKey}
  /\ \A p \in PhysKey \ lost : Pressed(p) # {} =>
       /\ \A i \in DOMAIN fifo : LastCode(p, i) => (fifo[i] = p <=> p \in held)
       /\ (\A i \in DOMAIN fifo : fifo[i] \notin KeyCodes(p)) =>
            (Pressed(p) \subseteq down <=> p \in held)

(* The tables of make and break codes in loop() agree: the break code of a   *)
(* key removes what its make code adds, and no other code touches it.        *)
LEMMA CodeTables ==
  ASSUME NEW p \in 1..88, Pressed(p) # {}
  PROVE  /\ Released(p) = {} /\ Pressed(BreakCode(p)) = {}
         /\ Released(BreakCode(p)) = Pressed(p)
         /\ \A code \in ScanCode \ KeyCodes(p) :
              /\ Pressed(code) \cap Pressed(p) = {}
              /\ Released(code) \cap Pressed(p) = {}
<1>1. p \in {15, 30, 31, 38, 39}
  BY DEF Pressed
<1>2. CASE p = 15
  BY <1>2 DEF Pressed, Released, BreakCode, KeyCodes, ScanCode, TAB, UP_1, UP_2, DOWN_1, DOWN_2
<1>3. CASE p = 30
  BY <1>3 DEF Pressed, Released, BreakCode, KeyCodes, ScanCode, TAB, UP_1, UP_2, DOWN_1, DOWN_2
<1>4. CASE p = 31
  BY <1>4 DEF Pressed, Released, BreakCode, KeyCodes, ScanCode, TAB, UP_1, UP_2, DOWN_1, DOWN_2
<1>5. CASE p = 38
  BY <1>5 DEF Pressed, Released, BreakCode, KeyCodes, ScanCode, TAB, UP_1, UP_2, DOWN_1, DOWN_2
<1>6. CASE p = 39
  BY <1>6 DEF Pressed, Released, BreakCode, KeyCodes, ScanCode, TAB, UP_1, UP_2, DOWN_1, DOWN_2
<1> QED BY <1>1, <1>2, <1>3, <1>4, <1>5, <1>6

LEMMA OneKeyPerCode ==
  ASSUME NEW p \in PhysKey, NEW q \in PhysKey, p # q
  PROVE  p \notin KeyCodes(q) /\ BreakCode(p) \notin KeyCodes(q)
<1>1. p \in 1..88 /\ q \in 1..88
  BY KeyboardAssumption
<1> QED BY <1>1 DEF KeyCodes, BreakCode

(* A code that is sent is the last of its key, or its key counts as lost.    *)
LEMMA SendKeepsFifo ==
  ASSUME TypeOK, FifoInv, NEW p \in PhysKey, NEW code \in KeyCodes(p), Send(p, code),
         p \in held' <=> code = p,
         \A q \in PhysKey \ {p} : q \in held' <=> q \in held,
         repeat' \in held' \cup {NoKey}, UNCHANGED down
  PROVE  FifoInv'
<1> DEFINE f == fifo'
<1>1. SUFFICES ASSUME NEW q \in PhysKey \ lost', Pressed(q) # {}
               PROVE  /\ \A i \in DOMAIN f :
                           /\ f[i] \in KeyCodes(q)
                           /\ \A j \in DOMAIN f : j > i => f[j] \notin KeyCodes(q)
                           => (f[i] = q <=> q \in held')
                      /\ (\A i \in DOMAIN f : f[i] \notin KeyCodes(q)) =>
                           (Pressed(q) \subseteq down <=> q \in held')
  BY DEF FifoInv, LastCode
<1>2. fifo \in Seq(ScanCode) /\ lost \in SUBSET PhysKey
  BY DEF TypeOK
<1>3. CASE q = p
  <2>1. f = Append(fifo, code)
    BY <1>1, <1>3 DEF Send
  <2>2. Len(f) = Len(fifo) + 1 /\ f[Len(fifo) + 1] = code /\ Len(fifo) + 1 \in DOMAIN f
    BY <1>2, <2>1
  <2>3. \A i \in DOMAIN f : i = Len(fifo) + 1 \/ i < Len(fifo) + 1
    BY <1>2, <2>2, <2>1
  <2> HIDE DEF f
  <2> QED BY <1>3, <2>2, <2>3
<1>4. CASE q # p
  <2>1. /\ q \notin lost /\ (q \in held' <=> q \in held)
        /\ code \notin KeyCodes(q)
    BY <1>1, <1>2, <1>4, OneKeyPerCode DEF Send, KeyCodes
  <2>2. /\ \A i \in DOMAIN fifo : LastCode(q, i) => (fifo[i] = q <=> q \in held)
        /\ (\A i \in DOMAIN fifo : fifo[i] \notin KeyCodes(q)) =>
             (Pressed(q) \subseteq down <=> q \in held)
    BY <1>1, <2>1 DEF FifoInv
  <2>3. CASE f = fifo
    BY <2>1, <2>2, <2>3 DEF LastCode
  <2>4. CASE f = Append(fifo, code)
    <3>1. /\ Len(f) = Len(fifo) + 1 /\ f[Len(fifo) + 1] = code
          /\ DOMAIN f = 1..(Len(fifo) + 1) /\ DOMAIN fifo = 1..Len(fifo)
          /\ \A i \in DOMAIN fifo : f[i] = fifo[i] /\ i \in DOMAIN f
      BY <1>2, <2>4
    <3>2. \A i \in DOMAIN f : i \notin DOMAIN fifo => f[i] \notin KeyCodes(q)
      BY <1>2, <2>1, <3>1
    <3> HIDE DEF f
    <3>3. ASSUME NEW i \in DOMAIN f, f[i] \in KeyCodes(q),
                 \A j \in DOMAIN f : j > i => f[j] \notin KeyCodes(q)
          PROVE  f[i] = q <=> q \in held'
      <4>1. i \in DOMAIN fifo /\ LastCode(q, i)
        BY <3>1, <3>2, <3>3 DEF LastCode
      <4> QED BY <2>1, <2>2, <3>1, <4>1
    <3> QED BY <2>1, <2>2, <3>1, <3>3
  <2> QED BY <2>3, <2>4 DEF Send
<1> QED BY <1>3, <1>4

LEMMA DeviceKeepsFifo == TypeOK /\ FifoInv /\ Device => FifoInv'
<1> SUFFICES ASSUME TypeOK, FifoInv, Device PROVE FifoInv'
  OBVIOUS
<1>1. UNCHANGED down
  BY DEF Device, historyVars
<1>2. \A p \in PhysKey : p # NoKey /\ BreakCode(p) # p /\ p \in KeyCodes(p)
                         /\ BreakCode(p) \in KeyCodes(p)
  BY KeyboardAssumption DEF BreakCode, KeyCodes
<1>3. held \in SUBSET PhysKey /\ repeat \in held \cup {NoKey}
  BY DEF TypeOK, FifoInv
<1>4. CASE Typematic
  <2>1. repeat \in held /\ repeat \in PhysKey /\ Send(repeat, repeat) /\ UNCHANGED <<held, repeat>>
    BY <1>3, <1>4 DEF Typematic
  <2> QED BY <1>1, <1>2, <1>3, <2>1, SendKeepsFifo
<1>5. ASSUME NEW p \in PhysKey, PressKey(p)
      PROVE  FifoInv'
  BY <1>1, <1>2, <1>3, <1>5, SendKeepsFifo DEF PressKey
<1>6. ASSUME NEW p \in PhysKey, ReleaseKey(p)
      PROVE  FifoInv'
  BY <1>1, <1>2, <1>3, <1>6, SendKeepsFifo DEF ReleaseKey
<1> QED BY <1>4, <1>5, <1>6 DEF Device

(* Reading a code moves what it says from the buffer to the keys that are    *)
(* down.                                                                     *)
LEMMA ReceiveKeepsFifo ==
  ASSUME TypeOK, FifoInv, ReceiveIrq, UNCHANGED <<held, repeat, lost>>
  PROVE  FifoInv'
<1> DEFINE code == Head(fifo)
           f    == fifo'
<1>1. /\ fifo \in Seq(ScanCode) /\ fifo # <<>> /\ code \in ScanCode /\ code = fifo[1]
      /\ f = Tail(fifo) /\ down' = (down \cup Pressed(code)) \ Released(code)
  BY HeadTailProperties DEF TypeOK, ReceiveIrq
<1>2. /\ DOMAIN fifo = 1..Len(fifo) /\ DOMAIN f = 1..(Len(fifo) - 1)
      /\ Len(fifo) \in Nat \ {0} /\ \A i \in DOMAIN f : f[i] = fifo[i + 1]
  BY <1>1
<1> SUFFICES ASSUME NEW p \in PhysKey \ lost, Pressed(p) # {}
             PROVE  /\ \A i \in DOMAIN f :
                         /\ f[i] \in KeyCodes(p)
                         /\ \A j \in DOMAIN f : j > i => f[j] \notin KeyCodes(p)
                         => (f[i] = p <=> p \in held)
                    /\ (\A i \in DOMAIN f : f[i] \notin KeyCodes(p)) =>
                         (Pressed(p) \subseteq down' <=> p \in held)
  BY DEF FifoInv, LastCode
<1>3. /\ \A i \in DOMAIN fifo : LastCode(p, i) => (fifo[i] = p <=> p \in held)
      /\ (\A i \in DOMAIN fifo : fifo[i] \notin KeyCodes(p)) =>
            (Pressed(p) \subseteq down <=> p \in held)
  BY DEF FifoInv
<1>4. p \in 1..88
  BY KeyboardAssumption
<1> HIDE DEF f, code
<1>5. ASSUME NEW i \in DOMAIN f, f[i] \in KeyCodes(p),
             \A j \in DOMAIN f : j > i => f[j] \notin KeyCodes(p)
      PROVE  f[i] = p <=> p \in held
  <2>1. i + 1 \in DOMAIN fifo /\ f[i] = fifo[i + 1]
    BY <1>2
  <2>2. ASSUME NEW j \in DOMAIN fifo, j > i + 1
        PROVE  fifo[j] \notin KeyCodes(p)
    <3>1. j - 1 \in DOMAIN f /\ j - 1 > i /\ (j - 1) + 1 = j
      BY <1>2, <2>2
    <3> QED BY <1>2, <1>5, <3>1
  <2> QED BY <1>3, <1>5, <2>1, <2>2 DEF LastCode
<1>6. ASSUME \A i \in DOMAIN f : f[i] \notin KeyCodes(p)
      PROVE  Pressed(p) \subseteq down' <=> p \in held
  <2>1. \A j \in DOMAIN fifo : j # 1 => fifo[j] \notin KeyCodes(p)
    <3> SUFFICES ASSUME NEW j \in DOMAIN fifo, j # 1 PROVE fifo[j] \notin KeyCodes(p)
      OBVIOUS
    <3>1. j - 1 \in DOMAIN f /\ (j - 1) + 1 = j
      BY <1>2
    <3> QED BY <1>2, <1>6, <3>1
  <2>2. 1 \in DOMAIN fifo
    BY <1>2
  <2>3. CASE code \notin KeyCodes(p)
    <3>1. Pressed(code) \cap Pressed(p) = {} /\ Released(code) \cap Pressed(p) = {}
      BY <1>1, <1>4, <2>3, CodeTables
    <3>2. \A i \in DOMAIN fifo : fifo[i] \notin KeyCodes(p)
      BY <1>1, <2>1, <2>3
    <3> QED BY <1>1, <1>3, <3>1, <3>2
  <2>4. CASE code \in KeyCodes(p)
    <3>1. code = p <=> p \in held
      BY <1>1, <1>3, <2>1, <2>2, <2>4, <1>2 DEF LastCode
    <3>2. code = p => Released(code) = {}
      BY <1>4, CodeTables
    <3>3. code # p => Pressed(code) = {} /\ Released(code) = Pressed(p)
      BY <1>4, <2>4, CodeTables DEF KeyCodes
    <3> QED BY <1>1, <3>1, <3>2, <3>3
  <2> QED BY <2>3, <2>4
<1> QED BY <1>5, <1>6

LEMMA FifoStep == TypeOK /\ FifoInv /\ [Next]_vars => FifoInv'
<1> SUFFICES ASSUME TypeOK, FifoInv, [Next]_vars PROVE FifoInv'
  OBVIOUS
<1>1. CASE UNCHANGED <<held, repeat, fifo, lost, down>>
  BY <1>1 DEF FifoInv, LastCode
<1>2. CASE IrqThread
  <2>1. CASE ReceiveIrq
    BY <1>2, <2>1, ReceiveKeepsFifo DEF IrqThread
  <2>2. CASE ~ ReceiveIrq
    BY <1>1, <1>2, <2>2
    DEF IrqThread, HookNode, LinkNode, EraseNext, EraseDone, UniqueNext, UniqueDone, historyVars
  <2> QED BY <2>1, <2>2
<1> QED BY <1>1, <1>2, DeviceKeepsFifo
        DEF Next, ServerThread, ClientStep, vars, deviceVars, historyVars

(* Once loop() has drained the controller, currently_pressed tells for every *)
(* key it knows whether the user holds it, unless the controller dropped the *)
(* key's last code.                                                          *)
THEOREM QuietListIsFaithful == Spec => []FaithfulWhenQuiet
<1>1. Init => FifoInv /\ ScansInv
  BY DEF Init, FifoInv, LastCode, ScansInv, CursorInv, Doomed, Added, Pushing, KeysOf
<1>2. ScansInv /\ FifoInv => FaithfulWhenQuiet
  <2> SUFFICES ASSUME ScansInv, FifoInv, Quiet, NEW p \in PhysKey \ lost, Pressed(p) # {}
               PROVE  Pressed(p) \subseteq KeysOf(lst, val) <=> p \in held
    BY DEF FaithfulWhenQuiet
  <2>1. KeysOf(lst, val) = down
    BY DEF Quiet, ScansInv, Doomed, Added, Pushing
  <2>2. Pressed(p) \subseteq down <=> p \in held
    BY DEF Quiet, FifoInv
  <2> QED BY <2>1, <2>2
<1> QED BY <1>1, <1>2, FifoStep, ScansStep, TypeCorrect, PTL DEF Spec

-----------------------------------------------------------------------------
(* What the walk of a dispatch still has ahead of it.                        *)

(* Every non-empty set of numbers has a least one.                           *)
LEMMA LeastNumber ==
  ASSUME NEW S \in SUBSET Nat, S # {}
  PROVE  \E m \in S : \A k \in S : m <= k
<1> DEFINE T == {0..m : m \in S}
<1>1. IsWellFoundedOn(StrictSubsetOrdering(Nat), FiniteSubsetsOf(Nat))
  BY FS_StrictSubsetOrderingWellFounded
<1>2. T \subseteq FiniteSubsetsOf(Nat) /\ T # {}
  <2>1. ASSUME NEW m \in S PROVE 0..m \in FiniteSubsetsOf(Nat)
    <3>1. m \in Int /\ 0 \in Int /\ 0..m \subseteq Nat
      OBVIOUS
    <3>2. IsFiniteSet(0..m)
      BY <3>1, FS_Interval
    <3> QED BY <3>1, <3>2 DEF FiniteSubsetsOf
  <2> QED BY <2>1
<1>3. PICK X \in T : \A Y \in T : ~ (<<Y, X>> \in StrictSubsetOrdering(Nat))
  BY <1>1, <1>2, WFMin
<1>4. PICK m \in S : X = 0..m
  OBVIOUS
<1>5. ASSUME NEW k \in S, k < m
      PROVE  FALSE
  <2>1. 0..k \in T /\ 0..k \subseteq 0..m /\ 0..k # 0..m
    BY <1>5
  <2>2. <<0..k, 0..m>> \in StrictSubsetOrdering(Nat)
    BY <2>1 DEF StrictSubsetOrdering
  <2> QED BY <1>3, <1>4, <2>1, <2>2
<1> QED BY <1>5

(* The next pointers of a list s over memory g, the sets of nodes closed     *)
(* under them, and the nodes a walk that stands on a will come to.           *)
NextIn(s, g, n)     == IF n \in ToSet(s)
                       THEN After(s, CHOOSE i \in DOMAIN s : s[i] = n) ELSE g[n]
ClosedIn(s, g, C)   == \A m \in C \cap Node : NextIn(s, g, m) \in C
Reaches(s, g, a, n) == \A C \in SUBSET (Node \cup {End}) :
                         ClosedIn(s, g, C) /\ a \in C => n \in C

(* A key in the list during all of the dispatch is in the reply already, or  *)
(* the walk will come to its node.                                           *)
Ahead(n)  == /\ Reaches(lst, stale, srv.cur, n)
             /\ srv.pc = "step" => n # srv.cur
StayInv ==
  /\ IsInjective(lst)
  /\ irq.pc = "link" => stale[irq.node] = First(lst)
  /\ srv.pc # "wait" => stay \subseteq ToSet(lst)
  /\ srv.pc \in {"walk", "step"} =>
       \A n \in stay : (\E i \in DOMAIN srv.items : srv.items[i] = val[n]) \/ Ahead(n)

LEMMA NextInList ==
  ASSUME NEW s \in Seq(Node), IsInjective(s), NEW g, NEW i \in DOMAIN s
  PROVE  NextIn(s, g, s[i]) = After(s, i)
<1> DEFINE k == CHOOSE j \in DOMAIN s : s[j] = s[i]
<1>1. k \in DOMAIN s /\ s[k] = s[i]
  OBVIOUS
<1>2. k = i
  BY <1>1 DEF IsInjective
<1> QED BY <1>2 DEF NextIn, ToSet

(* From the first node a walk comes to every node of the list.               *)
LEMMA FirstReaches ==
  ASSUME NEW s \in Seq(Node), IsInjective(s), NEW g, NEW n \in ToSet(s)
  PROVE  Reaches(s, g, First(s), n)
<1> SUFFICES ASSUME NEW C \in SUBSET (Node \cup {End}), ClosedIn(s, g, C), First(s) \in C,
                    n \notin C
             PROVE  FALSE
  BY DEF Reaches
<1> DEFINE S == {i \in 1..Len(s) : s[i] \notin C}
<1>1. S \in SUBSET Nat /\ S # {} /\ DOMAIN s = 1..Len(s)
  BY DEF ToSet
<1>2. PICK i \in S : \A k \in S : i <= k
  BY <1>1, LeastNumber
<1>3. i \in 1..Len(s) /\ s[i] \notin C
  OBVIOUS
<1>4. i # 1
  BY <1>3 DEF First
<1>5. i - 1 \in 1..Len(s) /\ i - 1 \notin S /\ (i - 1) + 1 = i /\ i - 1 # Len(s)
  BY <1>2, <1>3, <1>4
<1>6. s[i - 1] \in C /\ s[i - 1] \in Node
  BY <1>5
<1>7. NextIn(s, g, s[i - 1]) = s[i]
  BY <1>1, <1>5, NextInList DEF After
<1> QED BY <1>3, <1>6, <1>7 DEF ClosedIn

(* A walk that is not at its goal comes to it from the next node too.        *)
LEMMA StepReaches ==
  ASSUME NEW s, NEW g, NEW a \in Node, NEW n, n # a, Reaches(s, g, a, n)
  PROVE  Reaches(s, g, NextIn(s, g, a), n)
<1> SUFFICES ASSUME NEW C \in SUBSET (Node \cup {End}), ClosedIn(s, g, C),
                    NextIn(s, g, a) \in C
             PROVE  n \in C
  BY DEF Reaches
<1>1. ClosedIn(s, g, C \cup {a}) /\ a \in C \cup {a} /\ C \cup {a} \in SUBSET (Node \cup {End})
  BY DEF ClosedIn
<1> QED BY <1>1 DEF Reaches

LEMMA EndReaches ==
  ASSUME NEW s, NEW g, NEW n \in Node
  PROVE  ~ Reaches(s, g, End, n)
<1>1. {End} \in SUBSET (Node \cup {End}) /\ ClosedIn(s, g, {End}) /\ n \notin {End}
  BY KeyboardAssumption DEF ClosedIn
<1> QED BY <1>1 DEF Reaches

(* Pointing a node outside the list at the first node loses nothing of the   *)
(* list;                                                                     *)
LEMMA HookReaches ==
  ASSUME NEW s \in Seq(Node), IsInjective(s), NEW g \in [Node -> Node \cup {End}],
         NEW m \in Node \ ToSet(s), NEW a, NEW n \in ToSet(s), Reaches(s, g, a, n)
  PROVE  Reaches(s, [g EXCEPT ![m] = First(s)], a, n)
<1> DEFINE h == [g EXCEPT ![m] = First(s)]
<1>1. NextIn(s, h, m) = First(s) /\ \A x \in Node \ {m} : NextIn(s, h, x) = NextIn(s, g, x)
  BY DEF NextIn
<1> HIDE DEF h
<1> SUFFICES ASSUME NEW C \in SUBSET (Node \cup {End}), ClosedIn(s, h, C), a \in C
             PROVE  n \in C
  BY DEF Reaches, h
<1>2. CASE m \in C
  <2>1. First(s) \in C
    BY <1>1, <1>2 DEF ClosedIn
  <2>2. Reaches(s, h, First(s), n)
    BY FirstReaches
  <2> QED BY <2>1, <2>2 DEF Reaches
<1>3. CASE m \notin C
  BY <1>1, <1>3 DEF ClosedIn, Reaches
<1> QED BY <1>2, <1>3

(* linking it changes no next pointer;                                       *)
LEMMA LinkReaches ==
  ASSUME NEW s \in Seq(Node), IsInjective(s), NEW g, NEW m \in Node \ ToSet(s),
         g[m] = First(s)
  PROVE  /\ IsInjective(<<m>> \o s)
         /\ \A a, n : Reaches(s, g, a, n) => Reaches(<<m>> \o s, g, a, n)
<1> DEFINE t == <<m>> \o s
<1>1. /\ t \in Seq(Node) /\ Len(t) = Len(s) + 1 /\ Len(s) \in Nat
      /\ DOMAIN t = 1..(Len(s) + 1) /\ DOMAIN s = 1..Len(s)
      /\ t[1] = m /\ \A i \in DOMAIN s : t[i + 1] = s[i]
  OBVIOUS
<1>2. \A i \in DOMAIN t : i = 1 \/ (i - 1 \in DOMAIN s /\ t[i] = s[i - 1])
  BY <1>1
<1>3. \A i \in DOMAIN s : s[i] # m
  BY DEF ToSet
<1> HIDE DEF t
<1>4. IsInjective(t)
  <2> SUFFICES ASSUME NEW i \in DOMAIN t, NEW j \in DOMAIN t, t[i] = t[j]
               PROVE  i = j
    BY DEF IsInjective
  <2>1. CASE i = 1
    BY <1>1, <1>2, <1>3, <2>1
  <2>2. CASE j = 1
    BY <1>1, <1>2, <1>3, <2>2
  <2>3. CASE i # 1 /\ j # 1
    <3>1. i - 1 \in DOMAIN s /\ j - 1 \in DOMAIN s /\ s[i - 1] = s[j - 1]
      BY <1>2, <2>3
    <3>2. i - 1 = j - 1
      BY <3>1 DEF IsInjective
    <3> QED BY <1>1, <3>2
  <2> QED BY <2>1, <2>2, <2>3
<1>5. ASSUME NEW x \in Node
      PROVE  NextIn(t, g, x) = NextIn(s, g, x)
  <2>1. CASE x = m
    <3>1. NextIn(t, g, x) = After(t, 1)
      BY <1>1, <1>4, <2>1, NextInList
    <3>2. After(t, 1) = First(s)
      BY <1>1 DEF After, First
    <3> QED BY <2>1, <3>1, <3>2 DEF NextIn
  <2>2. CASE x \in ToSet(s)
    <3>1. PICK i \in DOMAIN s : s[i] = x
      BY <2>2 DEF ToSet
    <3>2. i + 1 \in DOMAIN t /\ t[i + 1] = x /\ i \in 1..Len(s)
      BY <1>1, <3>1
    <3>3. NextIn(t, g, x) = After(t, i + 1)
      BY <1>1, <1>4, <3>2, NextInList
    <3>4. NextIn(s, g, x) = After(s, i)
      BY <3>1, NextInList
    <3>5. After(t, i + 1) = After(s, i)
      BY <1>1, <3>2 DEF After
    <3> QED BY <3>3, <3>4, <3>5
  <2>3. CASE x # m /\ x \notin ToSet(s)
    <3>1. x \notin ToSet(t)
      BY <1>2, <1>1, <2>3 DEF ToSet
    <3> QED BY <2>3, <3>1 DEF NextIn
  <2> QED BY <2>1, <2>2, <2>3
<1>6. \A a, n : Reaches(s, g, a, n) => Reaches(t, g, a, n)
  BY <1>5 DEF Reaches, ClosedIn
<1> QED BY <1>4, <1>6 DEF t

(* erasing a node loses that node only: its own next pointer is what it was, *)
(* and the one before it skips it.                                           *)
LEMMA EraseReaches ==
  ASSUME NEW s \in Seq(Node), IsInjective(s), NEW g \in [Node -> Node \cup {End}],
         NEW i \in DOMAIN s
  PROVE  /\ IsInjective(RemoveAt(s, i))
         /\ \A a, n : n # s[i] /\ Reaches(s, g, a, n) =>
              Reaches(RemoveAt(s, i), [g EXCEPT ![s[i]] = After(s, i)], a, n)
<1> DEFINE t == RemoveAt(s, i)
           h == [g EXCEPT ![s[i]] = After(s, i)]
           e == s[i]
<1>0. Len(s) \in Nat
  OBVIOUS
<1>2. h[e] = After(s, i) /\ \A x \in Node \ {e} : h[x] = g[x]
  OBVIOUS
<1> HIDE DEF t, h
<1>1. /\ t \in Seq(Node) /\ Len(t) = Len(s) - 1 /\ Len(s) \in Nat
      /\ \A j \in 1..(Len(s) - 1) : t[j] = IF j < i THEN s[j] ELSE s[j + 1]
  BY <1>0, RemoveAtElements DEF t
<1>3. /\ e \in Node /\ i \in 1..Len(s) /\ DOMAIN s = 1..Len(s)
      /\ DOMAIN t = 1..(Len(s) - 1)
  BY <1>1
<1>4. \A j, k \in DOMAIN s : s[j] = s[k] => j = k
  BY DEF IsInjective
<1>5. IsInjective(t)
  <2> SUFFICES ASSUME NEW j \in DOMAIN t, NEW k \in DOMAIN t, t[j] = t[k]
               PROVE  j = k
    BY DEF IsInjective
  <2> DEFINE up(x) == IF x < i THEN x ELSE x + 1
  <2>1. up(j) \in DOMAIN s /\ up(k) \in DOMAIN s /\ t[j] = s[up(j)] /\ t[k] = s[up(k)]
    BY <1>1, <1>3
  <2>2. up(j) = up(k)
    BY <1>4, <2>1
  <2> QED BY <1>1, <1>3, <2>2
<1>6. e \notin ToSet(t) /\ NextIn(t, h, e) = NextIn(s, g, e)
  <2>1. e \notin ToSet(t)
    <3> SUFFICES ASSUME NEW j \in DOMAIN t, t[j] = s[i] PROVE FALSE
      BY DEF ToSet
    <3>1. CASE j < i
      BY <1>1, <1>3, <1>4, <3>1
    <3>2. CASE ~ (j < i)
      <4>1. t[j] = s[j + 1] /\ j + 1 \in DOMAIN s /\ j + 1 # i
        BY <1>1, <1>3, <3>2
      <4> QED BY <1>4, <4>1
    <3> QED BY <3>1, <3>2
  <2>2. NextIn(s, g, e) = After(s, i)
    BY NextInList
  <2> QED BY <1>2, <2>1, <2>2 DEF NextIn
<1>7. i > 1 => NextIn(t, h, s[i - 1]) = NextIn(s, g, e) /\ NextIn(s, g, s[i - 1]) = e
  <2> SUFFICES ASSUME i > 1
               PROVE  NextIn(t, h, s[i - 1]) = NextIn(s, g, e) /\ NextIn(s, g, s[i - 1]) = e
    OBVIOUS
  <2>1. i - 1 \in DOMAIN s /\ i - 1 \in DOMAIN t /\ t[i - 1] = s[i - 1] /\ i - 1 # Len(s)
    BY <1>1, <1>3
  <2>2. /\ NextIn(t, h, t[i - 1]) = After(t, i - 1)
        /\ NextIn(s, g, s[i - 1]) = After(s, i - 1) /\ NextIn(s, g, e) = After(s, i)
    BY <1>1, <1>5, <2>1, NextInList
  <2>3. After(s, i - 1) = e
    BY <1>3, <2>1 DEF After
  <2>4. After(t, i - 1) = After(s, i)
    BY <1>1, <1>3, <2>1 DEF After
  <2> QED BY <2>1, <2>2, <2>3, <2>4
<1>8. ASSUME NEW x \in Node, x # e, i > 1 => x # s[i - 1]
      PROVE  NextIn(t, h, x) = NextIn(s, g, x)
  <2>1. CASE x \in ToSet(s)
    <3>1. PICK k \in DOMAIN s : s[k] = x
      BY <2>1 DEF ToSet
    <3> DEFINE j == IF k < i THEN k ELSE k - 1
    <3>2. k # i /\ k + 1 # i
      BY <1>3, <1>8, <3>1
    <3>3. j \in DOMAIN t /\ t[j] = x
      BY <1>1, <1>3, <3>1, <3>2
    <3>4. NextIn(t, h, x) = After(t, j) /\ NextIn(s, g, x) = After(s, k)
      BY <1>1, <1>5, <3>1, <3>3, NextInList
    <3>5. After(t, j) = After(s, k)
      <4>1. CASE k = Len(s)
        BY <1>1, <1>3, <3>1, <3>2, <4>1 DEF After
      <4>2. CASE k # Len(s)
        <5>1. j # Len(t) /\ j + 1 \in 1..(Len(s) - 1)
          BY <1>1, <1>3, <3>1, <3>2, <4>2
        <5>2. t[j + 1] = s[k + 1]
          BY <1>1, <1>3, <3>1, <3>2, <4>2, <5>1
        <5> QED BY <4>2, <5>1, <5>2 DEF After
      <4> QED BY <4>1, <4>2
    <3> QED BY <3>4, <3>5
  <2>2. CASE x \notin ToSet(s)
    <3>1. x \notin ToSet(t)
      <4> SUFFICES ASSUME NEW j \in DOMAIN t, t[j] = x PROVE FALSE
        BY DEF ToSet
      <4>1. PICK k \in DOMAIN s : t[j] = s[k]
        BY <1>1, <1>3
      <4> QED BY <2>2, <4>1 DEF ToSet
    <3> QED BY <1>2, <1>8, <2>2, <3>1 DEF NextIn
  <2> QED BY <2>1, <2>2
<1>9. ASSUME NEW a, NEW n, n # e, Reaches(s, g, a, n),
             NEW C \in SUBSET (Node \cup {End}), ClosedIn(t, h, C), a \in C
      PROVE  n \in C
  <2>1. CASE i > 1 /\ s[i - 1] \in C
    <3>1. s[i - 1] \in Node
      BY <1>3, <2>1
    <3>2. NextIn(s, g, e) \in C
      BY <1>7, <1>9, <2>1, <3>1 DEF ClosedIn
    <3>3. ClosedIn(s, g, C \cup {e})
      <4> SUFFICES ASSUME NEW x \in (C \cup {e}) \cap Node
                   PROVE  NextIn(s, g, x) \in C \cup {e}
        BY DEF ClosedIn
      <4>1. CASE x = e
        BY <3>2, <4>1
      <4>2. CASE x # e /\ x = s[i - 1]
        BY <1>7, <2>1, <4>2
      <4>3. CASE x # e /\ x # s[i - 1]
        BY <1>8, <1>9, <4>3 DEF ClosedIn
      <4> QED BY <4>1, <4>2, <4>3
    <3>4. C \cup {e} \in SUBSET (Node \cup {End})
      BY <1>3
    <3> QED BY <1>9, <3>3, <3>4 DEF Reaches
  <2>2. CASE ~ (i > 1 /\ s[i - 1] \in C)
    <3>1. ClosedIn(s, g, C)
      <4> SUFFICES ASSUME NEW x \in C \cap Node PROVE NextIn(s, g, x) \in C
        BY DEF ClosedIn
      <4>1. CASE x = e
        BY <1>6, <1>9, <4>1 DEF ClosedIn
      <4>2. CASE x # e
        BY <1>8, <1>9, <2>2, <4>2 DEF ClosedIn
      <4> QED BY <4>1, <4>2
    <3> QED BY <1>9, <3>1 DEF Reaches
  <2> QED BY <2>1, <2>2
<1>10. \A a, n : n # e /\ Reaches(s, g, a, n) => Reaches(t, h, a, n)
  BY <1>9 DEF Reaches
<1> QED BY <1>5, <1>10 DEF t, h

(* An edit keeps what the reply holds of the nodes that stay, and what the   *)
(* walk still has ahead.                                                     *)
LEMMA EditKeepsStay ==
  ASSUME StayInv, UNCHANGED srv, IsInjective(lst'),
         irq'.pc = "link" => stale'[irq'.node] = First(lst'),
         stay' \subseteq stay,
         srv.pc # "wait" => stay' \subseteq ToSet(lst'),
         \A n \in stay' : val'[n] = val[n],
         \A n \in stay' : srv.pc # "wait" /\ Reaches(lst, stale, srv.cur, n) =>
                             Reaches(lst', stale', srv.cur, n)
  PROVE  StayInv'
<1>1. \A n \in stay' : srv.pc # "wait" /\ Ahead(n) => Ahead(n)'
  BY DEF Ahead
<1> QED BY <1>1 DEF StayInv

LEMMA EraseKeepsStay ==
  ASSUME TypeOK, StayInv, UNCHANGED srv, irq'.pc # "link", NEW i \in DOMAIN lst, EraseAt(i)
  PROVE  StayInv'
<1> DEFINE s == RemoveAt(lst, i)
<1>1. /\ lst' = s /\ val' = val /\ stale' = [stale EXCEPT ![lst[i]] = After(lst, i)]
      /\ stay' = IF srv.pc = "wait" THEN stay ELSE stay \cap ToSet(s)
  BY DEF EraseAt, SetList
<1>2. /\ IsInjective(s)
      /\ \A a, n : n # lst[i] /\ Reaches(lst, stale, a, n) => Reaches(s, stale', a, n)
  BY <1>1, EraseReaches DEF TypeOK, StayInv
<1>3. lst[i] \notin ToSet(s)
  <2>1. \A j \in DOMAIN s : \E k \in DOMAIN lst : k # i /\ s[j] = lst[k]
    BY RemoveAtDomain DEF TypeOK
  <2> HIDE DEF s
  <2> QED BY <2>1 DEF ToSet, StayInv, IsInjective
<1> HIDE DEF s
<1> QED BY <1>1, <1>2, <1>3, EditKeepsStay

LEMMA IrqKeepsStay ==
  TypeOK /\ PushInv /\ StayInv /\ IrqThread => StayInv'
<1> SUFFICES ASSUME TypeOK, PushInv, StayInv, IrqThread PROVE StayInv'
  OBVIOUS
<1>0. UNCHANGED srv
  BY DEF IrqThread
<1>1. CASE ReceiveIrq
  <2>1. UNCHANGED <<lst, stale, stay>> /\ irq'.pc # "link"
    BY <1>1 DEF ReceiveIrq
  <2>2. \A n \in ToSet(lst) : val'[n] = val[n]
    <3>1. ToSet(lst) \subseteq Node
      BY FirstNode
    <3>2. CASE Pressed(Head(fifo)) = {}
      BY <1>1, <3>2 DEF ReceiveIrq
    <3>3. CASE Pressed(Head(fifo)) # {}
      <4>1. PICK m \in Node \ ToSet(lst), k \in Pressed(Head(fifo)) :
              val' = [val EXCEPT ![m] = k]
        BY <1>1, <3>3 DEF ReceiveIrq
      <4> QED BY <3>1, <4>1 DEF TypeOK
    <3> QED BY <3>2, <3>3
  <2>3. srv.pc # "wait" => stay \subseteq ToSet(lst)
    BY DEF StayInv
  <2>4. CASE srv.pc = "wait"
    BY <1>0, <2>1, <2>4 DEF StayInv
  <2>5. CASE srv.pc # "wait"
    BY <1>0, <2>1, <2>2, <2>3, <2>5, EditKeepsStay DEF StayInv
  <2> QED BY <2>4, <2>5
<1>2. CASE HookNode
  <2>1. /\ UNCHANGED <<lst, val, stay>> /\ irq.node \in Node \ ToSet(lst)
        /\ stale' = [stale EXCEPT ![irq.node] = First(lst)] /\ irq'.node = irq.node
    BY <1>2 DEF HookNode, historyVars, PushInv, Pushing, IrqType, TypeOK
  <2>2. stale'[irq'.node] = First(lst')
    BY <2>1 DEF TypeOK
  <2>3. ASSUME NEW n \in stay', srv.pc # "wait", Reaches(lst, stale, srv.cur, n)
        PROVE  Reaches(lst', stale', srv.cur, n)
    <3>1. n \in ToSet(lst)
      BY <2>1, <2>3 DEF StayInv
    <3> QED BY <2>1, <2>3, <3>1, HookReaches DEF StayInv, TypeOK
  <2>4. IsInjective(lst') /\ (srv.pc # "wait" => stay' \subseteq ToSet(lst'))
    BY <2>1 DEF StayInv
  <2> QED BY <1>0, <2>1, <2>2, <2>3, <2>4, EditKeepsStay
<1>3. CASE LinkNode
  <2>1. /\ irq.node \in Node \ ToSet(lst) /\ stale[irq.node] = First(lst)
        /\ lst' = <<irq.node>> \o lst /\ UNCHANGED <<val, stale>> /\ irq'.pc = "erase"
        /\ stay' = IF srv.pc = "wait" THEN stay ELSE stay \cap ToSet(lst')
    BY <1>3 DEF LinkNode, SetList, PushInv, Pushing, StayInv, IrqType, TypeOK
  <2>2. /\ IsInjective(lst')
        /\ \A a, n : Reaches(lst, stale, a, n) => Reaches(lst', stale, a, n)
    BY <2>1, LinkReaches DEF StayInv, TypeOK
  <2> QED BY <1>0, <2>1, <2>2, EditKeepsStay
<1>4. CASE EraseNext
  <2>1. irq'.pc # "link" /\ \E i \in DOMAIN lst : EraseAt(i)
    BY <1>4 DEF EraseNext, ToErase, From, IrqType, TypeOK
  <2> QED BY <1>0, <2>1, EraseKeepsStay
<1>5. CASE UniqueNext
  BY <1>0, <1>5, EraseKeepsStay DEF UniqueNext
<1>6. CASE EraseDone \/ UniqueDone
  <2>1. UNCHANGED <<lst, val, stale, stay>> /\ irq'.pc # "link"
    BY <1>6 DEF EraseDone, UniqueDone, listVars, historyVars, IrqType, TypeOK
  <2> QED BY <1>0, <2>1 DEF StayInv, Ahead
<1> QED BY <1>1, <1>2, <1>3, <1>4, <1>5, <1>6 DEF IrqThread

LEMMA ServerKeepsStay ==
  TypeOK /\ StepOnNode /\ StayInv /\ ServerThread => StayInv'
<1> SUFFICES ASSUME TypeOK, StepOnNode, StayInv, ServerThread PROVE StayInv'
  OBVIOUS
<1>0. UNCHANGED <<lst, val, stale, irq>>
  BY DEF ServerThread, listVars
<1>1. ASSUME srv'.pc \notin {"walk", "step"},
             srv'.pc # "wait" => stay' \subseteq ToSet(lst)
      PROVE  StayInv'
  BY <1>0, <1>1 DEF StayInv
<1>2. CASE DispatchBadProto
  <2>1. srv' = srv /\ srv.pc = "wait"
    BY <1>2, Zenon DEF DispatchBadProto
  <2> QED BY <1>1, <2>1
<1>3. CASE Dispatch
  BY <1>1, <1>3 DEF Dispatch
<1>4. CASE CountNext
  BY <1>1, <1>4 DEF CountNext, StayInv, TypeOK
<1>5. CASE CountDone
  <2>1. /\ srv.pc = "count" /\ srv'.pc = "walk" /\ srv'.cur = First(lst) /\ stay' = stay
    BY <1>5 DEF CountDone, TypeOK
  <2>2. ASSUME NEW n \in stay PROVE Ahead(n)'
    <3>1. n \in ToSet(lst)
      BY <2>1 DEF StayInv
    <3> QED BY <1>0, <2>1, <3>1, FirstReaches DEF Ahead, StayInv, TypeOK
  <2> QED BY <1>0, <2>1, <2>2 DEF StayInv
<1>6. CASE SendItem
  <2>1. /\ srv.pc = "walk" /\ srv'.pc = "step" /\ srv'.cur = srv.cur /\ stay' = stay
        /\ srv'.items = Append(srv.items, val[srv.cur]) /\ srv.items \in Seq(Key)
    BY <1>6 DEF SendItem, TypeOK
  <2>2. /\ Len(srv.items) + 1 \in DOMAIN srv'.items
        /\ srv'.items[Len(srv.items) + 1] = val[srv.cur]
        /\ \A i \in DOMAIN srv.items : i \in DOMAIN srv'.items /\ srv'.items[i] = srv.items[i]
    BY <2>1
  <2>3. ASSUME NEW n \in stay
        PROVE  (\E i \in DOMAIN srv'.items : srv'.items[i] = val[n]) \/ Ahead(n)'
    <3>1. CASE n = srv.cur
      BY <2>2, <3>1
    <3>2. CASE n # srv.cur /\ Ahead(n)
      BY <1>0, <2>1, <3>2 DEF Ahead
    <3>3. CASE \E i \in DOMAIN srv.items : srv.items[i] = val[n]
      BY <2>2, <3>3
    <3> QED BY <2>1, <3>1, <3>2, <3>3 DEF StayInv
  <2> QED BY <1>0, <2>1, <2>3 DEF StayInv
<1>7. CASE NextItem
  <2>1. /\ srv.pc = "step" /\ srv'.pc = "walk" /\ srv'.items = srv.items /\ stay' = stay
        /\ srv.cur \in Node /\ srv'.cur = NextIn(lst, stale, srv.cur)
    BY <1>7 DEF NextItem, StepOnNode, TypeOK, Next_, NextIn
  <2>2. ASSUME NEW n \in stay, Ahead(n) PROVE Ahead(n)'
    <3>1. n # srv.cur /\ Reaches(lst, stale, srv.cur, n)
      BY <2>1, <2>2 DEF Ahead
    <3> QED BY <1>0, <2>1, <3>1, StepReaches DEF Ahead
  <2> QED BY <1>0, <2>1, <2>2 DEF StayInv
<1>8. CASE SendReply
  BY <1>1, <1>8 DEF SendReply, TypeOK
<1> QED BY <1>2, <1>3, <1>4, <1>5, <1>6, <1>7, <1>8 DEF ServerThread

LEMMA StayStep ==
  TypeOK /\ StepOnNode /\ PushInv /\ StayInv /\ [Next]_vars => StayInv'
<1> SUFFICES ASSUME TypeOK, StepOnNode, PushInv, StayInv, [Next]_vars PROVE StayInv'
  OBVIOUS
<1>1. CASE UNCHANGED <<listVars, irq, srv, stay>>
  BY <1>1 DEF StayInv, Ahead, listVars
<1> QED BY <1>1, IrqKeepsStay, ServerKeepsStay
        DEF Next, Device, ClientStep, vars, historyVars

(* Every reply names every key whose node was in the list all through the    *)
(* dispatch, however loop() edits the list under the walk: a node that is    *)
(* erased still leads back into the list, and so does a node that is reused. *)
THEOREM RepliesNameStayingKeys == Spec => []NoMissedKey
<1>1. Init => StayInv
  BY DEF Init, StayInv, IsInjective
<1>2. TypeOK /\ StayInv => NoMissedKey
  <2> SUFFICES ASSUME TypeOK, StayInv, srv.pc = "walk", srv.cur = End, NEW n \in stay
               PROVE  \E i \in DOMAIN srv.items : srv.items[i] = val[n]
    BY DEF NoMissedKey
  <2>1. ~ Ahead(n)
    BY EndReaches DEF Ahead, TypeOK
  <2> QED BY <2>1 DEF StayInv
<1> QED BY <1>1, <1>2, StayStep, TypeCorrect, PTL DEF Spec

-----------------------------------------------------------------------------
(* The switch thread as a client of the keyboard server.                     *)

(* The switch thread calls as a client of the keyboard may, so whatever      *)
(* holds of the keyboard holds of the two together.                          *)
LEMMA TabSteps == [TabNext]_tabVars => [Next]_vars
<1> SUFFICES ASSUME [TabNext]_tabVars PROVE [Next]_vars
  OBVIOUS
<1>1. CASE User \/ KeyboardServer
  BY <1>1 DEF User, KeyboardServer, Next
<1>2. CASE SwitchThread
  <2>1. CASE Poll /\ UNCHANGED <<deviceVars, listVars, irq, srv, historyVars>>
    <3>1. Keycode \in Label /\ Console \in Client
      BY ConsoleAssumption DEF Label
    <3> QED BY <2>1, <3>1 DEF Poll, ClientStep, Next
  <2>2. CASE ReadReply /\ UNCHANGED <<deviceVars, listVars, irq, srv, historyVars>>
    BY <2>2, ConsoleAssumption DEF ReadReply, ClientStep, Next
  <2>3. CASE UNCHANGED vars
    BY <2>3
  <2> QED BY <1>2, <2>1, <2>2, <2>3 DEF SwitchThread
<1>3. CASE UNCHANGED tabVars
  BY <1>3 DEF tabVars
<1> QED BY <1>1, <1>2, <1>3 DEF TabNext

(* The console server polling the keyboard server is the keyboard server with *)
(* one client more: all that is proved of Keyboard holds of TabSwitch.       *)
THEOREM TabImplementsKeyboard == TabSpec => Spec
BY TabSteps, PTL DEF TabSpec, TabInit, Spec

(* With a second key the consoles may switch twice for one press: its node   *)
(* takes TAB's place in a reply.                                             *)
OnlyTab == PhysKey = {TabKey}

(* While TAB is the only key, its codes are the only ones and the list holds *)
(* no other key;                                                             *)
CodesInv ==
  /\ \A i \in DOMAIN fifo : fifo[i] \in {TabKey, BreakCode(TabKey)}
  /\ irq.buf \in {0, TabKey, BreakCode(TabKey)}
  /\ down \subseteq {TAB} /\ seen \subseteq {TAB}

(* the switch thread's call is the only one under way.                       *)
CallInv ==
  LET st == ipc[Console].st IN
  /\ sw.pc = "wait" <=> st # "idle"
  /\ st # "sent" => queue = <<>> /\ srv.pc = "wait"
  /\ st = "sent" => \/ queue = <<<<Console, Keycode>>>> /\ srv.pc = "wait"
                    \/ queue = <<>> /\ srv.pc # "wait" /\ srv.caller = Console

(* What the reply to the call says or, while dispatch() walks the list, will *)
(* say: its size is 0, or it names TAB; before the walk neither is settled.  *)
Replied == ipc[Console].st = "replied"
Unread  == ~ Replied /\ srv.pc = "wait"
Counted == srv.size > 0 \/ (srv.pc = "count" /\ srv.cur # End)
WithoutTab == IF Replied THEN ipc[Console].msg.size = 0 ELSE ~ Counted
WithTab ==
  IF Replied
  THEN LET m == ipc[Console].msg IN m.size > 0 /\ m.items # <<>> /\ m.items[1] = TAB
  ELSE Counted /\ \/ srv.pc = "count" \/ srv.items # <<>>
                  \/ srv.pc = "walk" /\ srv.cur # End

(* Unless another node is linked into the empty list, the next reply will    *)
(* not switch the consoles: there is no TAB for it, or last_tab has it.      *)
Spent == IF lst = <<>> THEN Unread \/ WithoutTab \/ sw.lastTab
                       ELSE sw.lastTab /\ (Unread \/ WithTab)
Linking == Pushing /\ lst = <<>>

(* The codes in the buffer that make TAB go down, for loop() after it has    *)
(* read the others, and whether it is down after all of them.                *)
Rises(s, d) == {i \in DOMAIN s : s[i] = TabKey
                  /\ IF i = 1 THEN TAB \notin d ELSE s[i - 1] # TabKey}
LastDown(s, d) == IF s = <<>> THEN TAB \in d ELSE s[Len(s)] = TabKey

(* Every switch that is still to come has a press of its own: in the list,   *)
(* on its way there, in the buffer, or dropped while TAB is held.            *)
One(b) == IF b THEN 1 ELSE 0
TapInv == toggles + One(~ Spent) + One(Linking) + Cardinality(Rises(fifo, down))
            + One(TabKey \in held /\ ~ LastDown(fifo, down)) <= taps

SwitchOK == /\ sw \in [pc : SwitchPC, lastTab : BOOLEAN]
            /\ toggles \in Nat /\ taps \in Nat

-----------------------------------------------------------------------------
LEMMA RisesFinite ==
  ASSUME NEW s \in Seq(ScanCode), NEW d
  PROVE  IsFiniteSet(Rises(s, d)) /\ Cardinality(Rises(s, d)) \in Nat
<1>1. 1 \in Int /\ Len(s) \in Int /\ DOMAIN s = 1..Len(s)
  OBVIOUS
<1>2. IsFiniteSet(1..Len(s))
  BY <1>1, FS_Interval
<1>3. Rises(s, d) \in SUBSET (1..Len(s))
  BY <1>1 DEF Rises
<1> QED BY <1>2, <1>3, FS_Subset, FS_CardinalityType

(* A code that enters the buffer, *)
LEMMA RisesAppend ==
  ASSUME NEW s \in Seq(ScanCode), NEW c \in ScanCode, NEW d
  PROVE  /\ Cardinality(Rises(Append(s, c), d))
              = Cardinality(Rises(s, d)) + One(c = TabKey /\ ~ LastDown(s, d))
         /\ LastDown(Append(s, c), d) <=> c = TabKey
<1> DEFINE t == Append(s, c)
           n == Len(s) + 1
<1>1. /\ t \in Seq(ScanCode) /\ t # <<>> /\ Len(t) = n /\ Len(s) \in Nat
      /\ DOMAIN t = 1..n /\ DOMAIN s = 1..Len(s) /\ t[n] = c
      /\ \A i \in 1..Len(s) : t[i] = s[i]
  OBVIOUS
<1>2. s = <<>> <=> Len(s) = 0
  OBVIOUS
<1> HIDE DEF t
<1>3. \A i \in 1..Len(s) : i \in Rises(t, d) <=> i \in Rises(s, d)
  <2> SUFFICES ASSUME NEW i \in 1..Len(s)
               PROVE  i \in Rises(t, d) <=> i \in Rises(s, d)
    OBVIOUS
  <2>1. i \in DOMAIN t /\ i \in DOMAIN s /\ t[i] = s[i]
    BY <1>1
  <2>2. i # 1 => t[i - 1] = s[i - 1]
    <3>1. i # 1 => i - 1 \in 1..Len(s)
      BY <1>1
    <3> QED BY <1>1, <3>1
  <2> QED BY <2>1, <2>2 DEF Rises
<1>4. n \in Rises(t, d) <=> c = TabKey /\ ~ LastDown(s, d)
  <2>1. CASE Len(s) = 0
    BY <1>1, <1>2, <2>1 DEF Rises, LastDown
  <2>2. CASE Len(s) # 0
    <3>1. n # 1 /\ n - 1 = Len(s) /\ t[n - 1] = s[Len(s)] /\ n \in DOMAIN t
      BY <1>1, <2>2
    <3> QED BY <1>1, <1>2, <2>2, <3>1 DEF Rises, LastDown
  <2> QED BY <2>1, <2>2
<1>5. n \notin Rises(s, d) /\ Rises(s, d) \subseteq 1..Len(s) /\ Rises(t, d) \subseteq 1..n
  BY <1>1 DEF Rises
<1>6. LastDown(t, d) <=> c = TabKey
  BY <1>1 DEF LastDown
<1>7. IsFiniteSet(Rises(s, d)) /\ Cardinality(Rises(s, d)) \in Nat
  BY RisesFinite
<1>8. \A i \in 1..n : i = n \/ i \in 1..Len(s)
  BY <1>1
<1>9. CASE c = TabKey /\ ~ LastDown(s, d)
  <2>1. Rises(t, d) = Rises(s, d) \cup {n}
    BY <1>3, <1>4, <1>5, <1>8, <1>9
  <2> QED BY <1>5, <1>6, <1>7, <1>9, <2>1, FS_AddElement DEF One, t
<1>10. CASE ~ (c = TabKey /\ ~ LastDown(s, d))
  <2>1. Rises(t, d) = Rises(s, d)
    BY <1>3, <1>4, <1>5, <1>8, <1>10
  <2> QED BY <1>6, <1>7, <1>10, <2>1 DEF One, t
<1> QED BY <1>9, <1>10

(* and one that loop() reads.                                                *)
LEMMA RisesTail ==
  ASSUME NEW s \in Seq(ScanCode), s # <<>>, NEW d, NEW e, TAB \in e <=> Head(s) = TabKey
  PROVE  /\ Cardinality(Rises(Tail(s), e)) + One(Head(s) = TabKey /\ TAB \notin d)
              <= Cardinality(Rises(s, d))
         /\ LastDown(Tail(s), e) <=> LastDown(s, d)
<1> DEFINE t == Tail(s)
<1>1. /\ t \in Seq(ScanCode) /\ Len(t) = Len(s) - 1 /\ Len(s) \in Nat /\ Len(s) > 0
      /\ DOMAIN t = 1..(Len(s) - 1) /\ DOMAIN s = 1..Len(s) /\ Head(s) = s[1]
      /\ \A i \in 1..(Len(s) - 1) : t[i] = s[i + 1]
  OBVIOUS
<1>2. t = <<>> <=> Len(s) = 1
  <2>1. \A q \in Seq(ScanCode) : q = <<>> <=> Len(q) = 0
    OBVIOUS
  <2> HIDE DEF t
  <2> QED BY <1>1, <2>1
<1> HIDE DEF t
<1>3. LastDown(t, e) <=> LastDown(s, d)
  <2>1. CASE Len(s) = 1
    BY <1>1, <1>2, <2>1 DEF LastDown
  <2>2. CASE Len(s) # 1
    <3>1. t[Len(t)] = s[Len(s)]
      BY <1>1, <2>2
    <3> QED BY <1>2, <2>2, <3>1 DEF LastDown
  <2> QED BY <2>1, <2>2
<1> DEFINE A == Rises(t, e)
           B == Rises(s, d) \ {1}
           f == [i \in A |-> i + 1]
<1>4. ASSUME NEW i \in A
      PROVE  i \in 1..(Len(s) - 1) /\ i + 1 \in B
  <2>1. i \in 1..(Len(s) - 1) /\ t[i] = TabKey /\ (i # 1 => t[i - 1] # TabKey)
        /\ (i = 1 => TAB \notin e)
    BY <1>1 DEF Rises
  <2>2. i + 1 \in DOMAIN s /\ s[i + 1] = TabKey /\ i + 1 # 1 /\ (i + 1) - 1 = i
    BY <1>1, <2>1
  <2>3. s[i] # TabKey
    <3>1. CASE i = 1
      BY <1>1, <2>1, <3>1
    <3>2. CASE i # 1
      <4>1. i - 1 \in 1..(Len(s) - 1) /\ (i - 1) + 1 = i
        BY <1>1, <2>1, <3>2
      <4> QED BY <1>1, <2>1, <3>2, <4>1
    <3> QED BY <3>1, <3>2
  <2> QED BY <2>1, <2>2, <2>3 DEF Rises
<1>5. IsFiniteSet(Rises(s, d)) /\ Cardinality(Rises(s, d)) \in Nat
      /\ IsFiniteSet(A) /\ Cardinality(A) \in Nat
  BY <1>1, RisesFinite
<1>6. /\ IsFiniteSet(B)
      /\ Cardinality(B) = IF 1 \in Rises(s, d) THEN Cardinality(Rises(s, d)) - 1
                                               ELSE Cardinality(Rises(s, d))
  BY <1>5, FS_RemoveElement
<1>7. f \in Injection(A, B)
  <2>1. f \in [A -> B]
    BY <1>4
  <2>2. ASSUME NEW i \in A, NEW j \in A, f[i] = f[j] PROVE i = j
    <3>1. i \in Nat /\ j \in Nat /\ i + 1 = j + 1
      BY <1>1, <1>4, <2>2
    <3> QED BY <3>1
  <2> QED BY <2>1, <2>2 DEF Injection, IsInjective
<1>8. Cardinality(A) <= Cardinality(B)
  <2> HIDE DEF A, B, f
  <2> QED BY <1>6, <1>7, FS_Injection
<1>9. 1 \in Rises(s, d) <=> Head(s) = TabKey /\ TAB \notin d
  BY <1>1 DEF Rises
<1>10. Cardinality(A) + One(Head(s) = TabKey /\ TAB \notin d) <= Cardinality(Rises(s, d))
  <2> HIDE DEF A, B
  <2> QED BY <1>5, <1>6, <1>8, <1>9 DEF One
<1> QED BY <1>3, <1>10 DEF t

-----------------------------------------------------------------------------
TabInv == /\ TypeOK /\ StepOnNode /\ PushInv /\ ScansInv /\ WalkInv /\ FifoInv
          /\ SwitchOK /\ CodesInv /\ CallInv

LEMMA TabCodes ==
  /\ Pressed(TabKey) = {TAB} /\ Released(TabKey) = {}
  /\ Pressed(BreakCode(TabKey)) = {} /\ Released(BreakCode(TabKey)) = {TAB}
  /\ Pressed(0) = {} /\ Released(0) = {}
  /\ TabKey \in ScanCode /\ BreakCode(TabKey) \in ScanCode /\ TabKey # BreakCode(TabKey)
BY DEF Pressed, Released, TabKey, BreakCode, TAB, ScanCode

LEMMA OnlyTabListed == ScansInv /\ CodesInv => KeysOf(lst, val) \subseteq {TAB}
<1> SUFFICES ASSUME ScansInv, CodesInv PROVE KeysOf(lst, val) \subseteq {TAB}
  OBVIOUS
<1>1. Doomed \subseteq {TAB}
  BY TabCodes DEF Doomed, CodesInv
<1>2. KeysOf(lst, val) \subseteq down \cup Doomed
  BY DEF ScansInv
<1> QED BY <1>1, <1>2 DEF CodesInv

LEMMA SwitchStep == SwitchOK /\ [TabNext]_tabVars => SwitchOK'
<1> SUFFICES ASSUME SwitchOK, [TabNext]_tabVars PROVE SwitchOK'
  OBVIOUS
<1>1. ASSUME NEW l \in SwitchPC, Goto(l)
      PROVE  sw' \in [pc : SwitchPC, lastTab : BOOLEAN]
  BY <1>1 DEF Goto, SwitchOK
<1>2. CASE User
  <2>1. taps' \in Nat
    BY <1>2 DEF User, SwitchOK
  <2> QED BY <1>2, <2>1 DEF User, switchVars, SwitchOK
<1>3. CASE KeyboardServer
  BY <1>3 DEF KeyboardServer, switchVars, SwitchOK
<1>4. CASE Poll /\ UNCHANGED taps
  BY <1>1, <1>4 DEF Poll, SwitchPC, SwitchOK
<1>5. CASE ReadReply /\ UNCHANGED taps
  <2>1. PICK codes \in [1..ipc[Console].msg.size -> Key] :
          Decode({codes[i] : i \in 1..ipc[Console].msg.size})
    BY <1>5 DEF ReadReply
  <2> DEFINE c == {codes[i] : i \in 1..ipc[Console].msg.size}
  <2> HIDE DEF c
  <2>2. Decode(c)
    BY <2>1 DEF c
  <2>3. (TAB \in c) \in BOOLEAN
    OBVIOUS
  <2>4. sw' \in [pc : SwitchPC, lastTab : BOOLEAN]
    BY <2>2, <2>3 DEF Decode, SwitchPC
  <2>5. toggles' \in Nat
    BY <2>2 DEF Decode, SwitchOK
  <2> QED BY <1>5, <2>4, <2>5 DEF SwitchOK
<1>6. CASE Toggle /\ UNCHANGED taps
  BY <1>1, <1>6
  DEF Toggle, Test0, Off0, On1, Test1, On0, Off1, SwitchPC, SwitchOK
<1>7. CASE UNCHANGED tabVars
  BY <1>7 DEF tabVars, switchVars, SwitchOK
<1> QED BY <1>2, <1>3, <1>4, <1>5, <1>6, <1>7 DEF TabNext, SwitchThread

LEMMA CodesStep ==
  ASSUME OnlyTab, TypeOK, ScansInv, CodesInv, ScansInv', [Next]_vars
  PROVE  CodesInv'
<1>1. CASE Device
  <2>1. UNCHANGED <<irq, down, seen>>
    BY <1>1 DEF Device, historyVars
  <2>2. PICK code \in {TabKey, BreakCode(TabKey)} :
          fifo' = fifo \/ fifo' = Append(fifo, code)
    BY <1>1, KeyboardAssumption
    DEF Device, Typematic, PressKey, ReleaseKey, Send, OnlyTab, TypeOK
  <2>3. \A i \in DOMAIN fifo' : fifo'[i] \in {TabKey, BreakCode(TabKey)}
    <3>1. CASE fifo' = fifo
      BY <3>1 DEF CodesInv
    <3>2. CASE fifo' = Append(fifo, code)
      <4>1. \A i \in DOMAIN fifo' : i \in DOMAIN fifo \/ fifo'[i] = code
        BY <3>2 DEF TypeOK
      <4>2. \A i \in DOMAIN fifo : fifo'[i] = fifo[i]
        BY <3>2 DEF TypeOK
      <4> QED BY <4>1, <4>2 DEF CodesInv
    <3> QED BY <2>2, <3>1, <3>2
  <2> QED BY <2>1, <2>3 DEF CodesInv
<1>2. CASE ReceiveIrq
  <2> DEFINE code == Head(fifo)
  <2>1. code \in {TabKey, BreakCode(TabKey)} /\ fifo' = Tail(fifo)
    BY <1>2 DEF ReceiveIrq, CodesInv, TypeOK
  <2>2. \A i \in DOMAIN fifo' : fifo'[i] \in {TabKey, BreakCode(TabKey)}
    <3>1. \A i \in DOMAIN fifo' : i + 1 \in DOMAIN fifo /\ fifo'[i] = fifo[i + 1]
      BY <1>2, <2>1 DEF ReceiveIrq, TypeOK
    <3> QED BY <3>1 DEF CodesInv
  <2>3. down' \subseteq {TAB}
    BY <1>2, <2>1, TabCodes DEF ReceiveIrq, CodesInv
  <2>4. irq'.buf = code /\ seen' \subseteq {TAB}
    <3>1. CASE Pressed(code) = {}
      BY <1>2, <3>1 DEF ReceiveIrq, CodesInv
    <3>2. CASE Pressed(code) # {}
      <4>1. PICK n \in Node, k \in Pressed(code) :
              /\ irq' = [pc |-> "hook", buf |-> code, node |-> n]
              /\ seen' = IF srv.pc = "wait" THEN {} ELSE seen \cup {k}
        BY <1>2, <3>2 DEF ReceiveIrq
      <4>2. k = TAB
        BY <2>1, TabCodes
      <4> QED BY <4>1, <4>2 DEF CodesInv
    <3> QED BY <3>1, <3>2
  <2> QED BY <2>1, <2>2, <2>3, <2>4 DEF CodesInv
<1>3. CASE HookNode \/ LinkNode \/ EraseNext \/ EraseDone \/ UniqueNext \/ UniqueDone
  <2>1. fifo' = fifo /\ down' = down /\ irq'.buf = irq.buf
    BY <1>3 DEF HookNode, LinkNode, EraseNext, EraseDone, UniqueNext, UniqueDone,
                historyVars, IrqType, TypeOK
  <2>2. seen' \subseteq seen \cup KeysOf(lst, val)'
    BY <1>3 DEF HookNode, LinkNode, EraseNext, EraseDone, UniqueNext, UniqueDone,
                historyVars, EraseAt, SetList, KeysOf
  <2>3. KeysOf(lst, val)' \subseteq {TAB}
    <3>1. Doomed' \subseteq {TAB}
      BY <2>1, TabCodes DEF Doomed, CodesInv
    <3>2. KeysOf(lst, val)' \subseteq down' \cup Doomed'
      BY DEF ScansInv
    <3> QED BY <2>1, <3>1, <3>2 DEF CodesInv
  <2> QED BY <2>1, <2>2, <2>3 DEF CodesInv
<1>4. CASE ServerThread
  <2>1. UNCHANGED <<fifo, irq, down>>
    BY <1>4 DEF ServerThread, deviceVars
  <2>2. seen' \subseteq seen \cup KeysOf(lst, val)
    BY <1>4, Zenon DEF ServerThread, DispatchBadProto, Dispatch, CountNext, CountDone, SendItem,
                NextItem, SendReply
  <2> QED BY <2>1, <2>2, OnlyTabListed DEF CodesInv
<1>5. CASE ClientStep \/ UNCHANGED vars
  BY <1>5 DEF ClientStep, vars, deviceVars, historyVars, CodesInv
<1> QED BY <1>1, <1>2, <1>3, <1>4, <1>5 DEF Next, IrqThread

LEMMA CallStep ==
  ASSUME TypeOK, SwitchOK, CallInv, [TabNext]_tabVars
  PROVE  CallInv'
<1> USE ConsoleAssumption
<1>1. CASE User \/ UNCHANGED tabVars
  <2>1. UNCHANGED <<ipc, queue, srv, sw>>
    BY <1>1 DEF User, Device, tabVars, vars, clientVars, switchVars
  <2> QED BY <2>1 DEF CallInv
<1>2. CASE KeyboardServer
  <2>1. sw' = sw
    BY <1>2 DEF KeyboardServer, switchVars
  <2>2. CASE IrqThread
    BY <2>1, <2>2 DEF IrqThread, clientVars, CallInv
  <2>3. ASSUME queue # <<>>
        PROVE  /\ ipc[Console].st = "sent" /\ queue = <<<<Console, Keycode>>>>
               /\ Head(queue) = <<Console, Keycode>> /\ Tail(queue) = <<>>
    <3>1. ipc[Console].st = "sent" /\ queue = <<<<Console, Keycode>>>>
      BY <2>3 DEF CallInv
    <3> QED BY <3>1
  <2>4. ASSUME srv.pc # "wait"
        PROVE  ipc[Console].st = "sent" /\ queue = <<>> /\ srv.caller = Console
    BY <2>4 DEF CallInv
  <2>5. CASE DispatchBadProto
    BY <2>3, <2>5 DEF DispatchBadProto
  <2>6. CASE Dispatch
    <3>1. queue # <<>> /\ ipc' = ipc
      BY <2>6 DEF Dispatch
    <3>2. queue' = <<>> /\ srv'.caller = Console /\ srv'.pc = "count"
      BY <2>3, <2>6, <3>1 DEF Dispatch
    <3> QED BY <2>1, <2>3, <3>1, <3>2 DEF CallInv
  <2>7. CASE CountNext \/ CountDone \/ SendItem \/ NextItem
    <3>1. /\ srv.pc # "wait" /\ srv'.pc # "wait" /\ srv'.caller = srv.caller
          /\ UNCHANGED <<queue, ipc>>
      BY <2>7 DEF CountNext, CountDone, SendItem, NextItem, clientVars, TypeOK
    <3> QED BY <2>1, <2>4, <3>1 DEF CallInv
  <2>8. CASE SendReply
    <3>1. /\ srv.pc # "wait" /\ srv'.pc = "wait" /\ queue' = queue
          /\ Answer(srv.caller, FALSE, srv.size, srv.items)
      BY <2>8 DEF SendReply, TypeOK
    <3>2. ipc'[Console].st = "replied"
      BY <2>4, <3>1 DEF Answer, TypeOK
    <3> QED BY <2>1, <2>4, <3>1, <3>2 DEF CallInv
  <2> QED BY <1>2, <2>2, <2>5, <2>6, <2>7, <2>8 DEF KeyboardServer, ServerThread
<1>3. CASE SwitchThread
  <2>1. CASE Poll /\ UNCHANGED srv
    <3>1. sw.pc = "poll" /\ sw'.pc = "wait" /\ ipc[Console].st = "idle"
      BY <2>1 DEF Poll, Goto, Call, SwitchOK
    <3>2. queue = <<>> /\ srv.pc = "wait"
      BY <3>1 DEF CallInv
    <3>3. queue' = <<<<Console, Keycode>>>>
      BY <2>1, <3>2 DEF Poll, Call
    <3>4. ipc'[Console].st = "sent"
      BY <2>1 DEF Poll, Call, TypeOK
    <3> QED BY <2>1, <3>1, <3>2, <3>3, <3>4 DEF CallInv
  <2>2. CASE ReadReply /\ UNCHANGED srv
    <3>1. ipc[Console].st = "replied" /\ queue' = queue /\ ipc'[Console].st = "idle"
      BY <2>2 DEF ReadReply, Receive, TypeOK
    <3>2. sw'.pc # "wait"
      BY <2>2 DEF ReadReply, Decode
    <3> QED BY <2>2, <3>1, <3>2 DEF CallInv
  <2>3. CASE Toggle /\ UNCHANGED vars
    <3>1. sw.pc # "wait" /\ sw'.pc # "wait"
      BY <2>3 DEF Toggle, Test0, Off0, On1, Test1, On0, Off1, Goto, SwitchOK
    <3> QED BY <2>3, <3>1 DEF vars, clientVars, CallInv
  <2> QED BY <1>3, <2>1, <2>2, <2>3 DEF SwitchThread
<1> QED BY <1>1, <1>2, <1>3 DEF TabNext

-----------------------------------------------------------------------------
(* A reply switches the consoles only if it was not spent.                   *)
LEMMA ReplySpends ==
  ASSUME TypeOK, SwitchOK, CallInv, ReadReply, UNCHANGED <<lst, srv>>
  PROVE  \/ toggles' = toggles /\ (Spent => Spent')
         \/ toggles' = toggles + 1 /\ ~ Spent /\ Spent'
<1> DEFINE msg == ipc[Console].msg
<1>1. PICK codes \in [1..msg.size -> Key] :
        /\ \A i \in 1..msg.size : codes[i] \in Word(msg.items, i)
        /\ Decode({codes[i] : i \in 1..msg.size})
  BY DEF ReadReply
<1> DEFINE c == {codes[i] : i \in 1..msg.size}
<1>2. msg.size = 0 => TAB \notin c
  OBVIOUS
<1>3. ASSUME msg.size > 0, msg.items # <<>>, msg.items[1] = TAB
      PROVE  TAB \in c
  <2>1. msg.size \in Nat /\ msg.items \in Seq(Key)
    BY ConsoleAssumption DEF TypeOK, Reply
  <2>2. 1 \in 1..msg.size /\ 1 <= Len(msg.items)
    BY <1>3, <2>1
  <2>3. codes[1] = TAB
    BY <1>1, <1>3, <2>2 DEF Word
  <2> QED BY <2>2, <2>3
<1> HIDE DEF c
<1>4. /\ sw'.lastTab <=> TAB \in c
      /\ toggles' = IF TAB \in c /\ ~ sw.lastTab THEN toggles + 1 ELSE toggles
  BY <1>1 DEF Decode, c
<1>5. Replied /\ srv.pc = "wait" /\ ~ Unread
  BY DEF ReadReply, Replied, Unread, CallInv
<1>6. ~ Replied' /\ Unread'
  <2>1. ipc'[Console].st = "idle"
    BY ConsoleAssumption DEF ReadReply, Receive, TypeOK
  <2> QED BY <1>5, <2>1 DEF Replied, Unread
<1>7. /\ WithoutTab <=> msg.size = 0
      /\ WithTab <=> msg.size > 0 /\ msg.items # <<>> /\ msg.items[1] = TAB
  BY <1>5 DEF WithoutTab, WithTab
<1> HIDE DEF msg
<1>8. Spent' <=> (lst = <<>> \/ sw'.lastTab)
  BY <1>6 DEF Spent
<1>9. Spent <=> IF lst = <<>> THEN WithoutTab \/ sw.lastTab ELSE sw.lastTab /\ WithTab
  BY <1>5 DEF Spent
<1> QED BY <1>2, <1>3, <1>4, <1>7, <1>8, <1>9

(* The walk of dispatch() keeps what is spent.                               *)
LEMMA WalkSpends ==
  ASSUME TypeOK, CodesInv, WalkInv, CallInv, ServerThread, UNCHANGED sw
  PROVE  Spent => Spent'
<1> USE ConsoleAssumption
<1> SUFFICES ASSUME Spent PROVE Spent'
  OBVIOUS
<1>0. lst' = lst
  BY DEF ServerThread, listVars
<1>1. CASE DispatchBadProto
  <2>1. queue # <<>> /\ Head(queue)[2] # Keycode
    BY <1>1 DEF DispatchBadProto
  <2>2. queue = <<<<Console, Keycode>>>>
    BY <2>1 DEF CallInv
  <2> QED BY <2>1, <2>2
<1>2. CASE Dispatch
  <2>1. /\ ipc' = ipc /\ srv.pc = "wait" /\ srv'.pc = "count" /\ srv'.size = 0
        /\ srv'.cur = First(lst) /\ queue # <<>>
    BY <1>2 DEF Dispatch
  <2>2. ~ Replied /\ ~ Replied' /\ Unread
    BY <2>1 DEF CallInv, Replied, Unread
  <2>3. CASE lst = <<>>
    <3>1. srv'.cur = End
      BY <2>1, <2>3 DEF First
    <3>2. WithoutTab'
      BY <2>1, <2>2, <3>1 DEF WithoutTab, Counted
    <3> QED BY <1>0, <2>3, <3>2 DEF Spent
  <2>4. CASE lst # <<>>
    <3>1. srv'.cur # End
      BY <2>1, <2>4, KeyboardAssumption DEF First, TypeOK
    <3>2. WithTab'
      BY <2>1, <2>2, <3>1 DEF WithTab, Counted
    <3> QED BY <1>0, <2>4, <3>2 DEF Spent
  <2> QED BY <2>3, <2>4
<1>3. ASSUME srv.pc # "wait", srv'.pc # "wait", ipc' = ipc,
             ~ Counted => ~ Counted', WithTab => WithTab'
      PROVE  Spent'
  <2>1. ~ Replied /\ ~ Unread /\ ~ Replied'
    BY <1>3 DEF CallInv, Replied, Unread
  <2> QED BY <1>0, <1>3, <2>1 DEF Spent, WithoutTab
<1>4. srv.pc # "wait" => ~ Replied
  BY DEF CallInv, Replied
<1>5. CASE CountNext
  <2>1. /\ srv.pc = "count" /\ srv.cur # End /\ srv'.pc = "count" /\ ipc' = ipc
        /\ srv'.size = srv.size + 1 /\ srv.size \in Nat
    BY <1>5 DEF CountNext, clientVars, TypeOK
  <2>2. Counted /\ Counted'
    BY <2>1 DEF Counted
  <2>3. WithTab'
    BY <1>4, <2>1, <2>2 DEF WithTab, Replied
  <2> QED BY <1>3, <2>1, <2>2, <2>3
<1>6. CASE CountDone
  <2>1. /\ srv.pc = "count" /\ srv.cur = End /\ srv'.pc = "walk" /\ ipc' = ipc
        /\ srv'.size = srv.size /\ srv'.cur = First(lst)
    BY <1>6 DEF CountDone, clientVars, TypeOK
  <2>2. Counted' <=> Counted
    BY <2>1 DEF Counted
  <2>3. CASE lst = <<>>
    <3>1. ~ Replied /\ ~ Unread /\ ~ Replied'
      BY <1>4, <2>1 DEF Replied, Unread
    <3> QED BY <1>0, <2>2, <2>3, <3>1 DEF Spent, WithoutTab
  <2>4. CASE lst # <<>>
    <3>1. srv'.cur # End
      BY <2>1, <2>4, KeyboardAssumption DEF First, TypeOK
    <3>2. WithTab => WithTab'
      BY <1>4, <2>1, <2>2, <3>1 DEF WithTab, Replied
    <3> QED BY <1>3, <2>1, <2>2, <3>2
  <2> QED BY <2>3, <2>4
<1>7. CASE SendItem
  <2>1. /\ srv.pc = "walk" /\ srv'.pc = "step" /\ ipc' = ipc
        /\ srv'.size = srv.size /\ srv'.items = Append(srv.items, val[srv.cur])
        /\ srv.items \in Seq(Key)
    BY <1>7 DEF SendItem, clientVars, TypeOK
  <2>2. Counted' <=> Counted
    BY <2>1 DEF Counted
  <2>3. srv'.items # <<>>
    BY <2>1
  <2>4. WithTab => WithTab'
    BY <1>4, <2>1, <2>2, <2>3 DEF WithTab, Replied
  <2> QED BY <1>3, <2>1, <2>2, <2>4
<1>8. CASE NextItem
  <2>1. /\ srv.pc = "step" /\ srv'.pc = "walk" /\ ipc' = ipc
        /\ srv'.size = srv.size /\ srv'.items = srv.items
    BY <1>8 DEF NextItem, clientVars, TypeOK
  <2>2. Counted' <=> Counted
    BY <2>1 DEF Counted
  <2>3. WithTab => WithTab'
    BY <1>4, <2>1, <2>2 DEF WithTab, Replied
  <2> QED BY <1>3, <2>1, <2>2, <2>3
<1>9. CASE SendReply
  <2>1. /\ srv.pc = "walk" /\ srv.cur = End
        /\ Answer(srv.caller, FALSE, srv.size, srv.items)
        /\ srv.size \in Nat /\ srv.items \in Seq(Key)
    BY <1>9 DEF SendReply, TypeOK
  <2>2. ~ Replied /\ ~ Unread /\ srv.caller = Console
    BY <1>4, <2>1 DEF Unread, CallInv
  <2>3. /\ ipc'[Console].st = "replied" /\ ipc'[Console].msg.size = srv.size
        /\ ipc'[Console].msg.items = srv.items
    BY <2>1, <2>2 DEF Answer, TypeOK
  <2>4. Replied'
    BY <2>3 DEF Replied
  <2>5. WithoutTab => WithoutTab'
    BY <2>1, <2>2, <2>3, <2>4 DEF WithoutTab, Counted
  <2>6. srv.items # <<>> => srv.items[1] = TAB
    BY <2>1 DEF WalkInv, NoPhantomKey, CodesInv
  <2>7. WithTab => WithTab'
    BY <2>1, <2>2, <2>3, <2>4, <2>6 DEF WithTab, Counted
  <2> QED BY <1>0, <2>2, <2>5, <2>7 DEF Spent
<1> QED BY <1>1, <1>2, <1>5, <1>6, <1>7, <1>8, <1>9 DEF ServerThread

-----------------------------------------------------------------------------
(* loop() takes a press from the buffer to the list, and the first node      *)
(* linked into the empty list is the one press that may switch.              *)
LEMMA LoopSpends ==
  ASSUME OnlyTab, TabInv, IrqThread, UNCHANGED sw
  PROVE  /\ Cardinality(Rises(fifo, down)') \in Nat
         /\ One(~ Spent)' + One(Linking)' + Cardinality(Rises(fifo, down)')
              <= One(~ Spent) + One(Linking) + Cardinality(Rises(fifo, down))
         /\ LastDown(fifo, down)' <=> LastDown(fifo, down)
<1>0. UNCHANGED <<srv, ipc>> /\ TypeOK /\ fifo \in Seq(ScanCode)
  <2>1. TypeOK
    BY DEF TabInv
  <2>2. fifo \in Seq(ScanCode)
    BY <2>1 DEF TypeOK
  <2> QED BY <2>1, <2>2 DEF IrqThread, clientVars
<1>1. Cardinality(Rises(fifo, down)) \in Nat
  BY <1>0, RisesFinite
<1>2. /\ WithoutTab' <=> WithoutTab
      /\ WithTab' <=> WithTab
      /\ Unread' <=> Unread
  BY <1>0 DEF WithoutTab, WithTab, Unread, Replied, Counted
<1>3. CASE ReceiveIrq
  <2>1. /\ fifo # <<>> /\ fifo' = Tail(fifo) /\ lst' = lst /\ irq.pc = "receive"
        /\ down' = (down \cup Pressed(Head(fifo))) \ Released(Head(fifo))
    BY <1>3 DEF ReceiveIrq
  <2>2. Head(fifo) \in {TabKey, BreakCode(TabKey)}
    BY <1>0, <2>1 DEF TabInv, CodesInv
  <2>3. TAB \in down' <=> Head(fifo) = TabKey
    BY <2>1, <2>2, TabCodes
  <2>4. fifo' \in Seq(ScanCode)
    BY <1>0, <2>1
  <2>5. /\ Cardinality(Rises(fifo', down')) + One(Head(fifo) = TabKey /\ TAB \notin down)
              <= Cardinality(Rises(fifo, down))
        /\ LastDown(fifo', down') <=> LastDown(fifo, down)
    BY <1>0, <2>1, <2>3, RisesTail
  <2>6. Cardinality(Rises(fifo', down')) \in Nat
    BY <2>4, RisesFinite
  <2>7. lst = <<>> <=> TAB \notin down
    <3>1. KeysOf(lst, val) = down
      BY <2>1 DEF TabInv, ScansInv, Doomed, Added, Pushing
    <3>2. lst # <<>> => 1 \in DOMAIN lst
      BY <1>0 DEF TypeOK
    <3>3. lst # <<>> <=> KeysOf(lst, val) # {}
      BY <3>2 DEF KeysOf
    <3> QED BY <3>1, <3>3 DEF TabInv, CodesInv
  <2>8. ~ Linking
    BY <2>1 DEF Linking, Pushing
  <2>9. Linking' => Head(fifo) = TabKey /\ TAB \notin down
    <3>1. Pressed(Head(fifo)) = {} => ~ Linking'
      BY <1>3 DEF ReceiveIrq, Linking, Pushing
    <3> QED BY <2>1, <2>2, <2>7, <3>1, TabCodes DEF Linking
  <2>10. Spent' <=> Spent
    BY <1>2, <2>1 DEF Spent
  <2> QED BY <1>1, <2>5, <2>6, <2>8, <2>9, <2>10 DEF One
<1>4. CASE ~ ReceiveIrq
  <2>1. fifo' = fifo /\ down' = down
    BY <1>4 DEF IrqThread, HookNode, LinkNode, EraseNext, EraseDone, UniqueNext,
                UniqueDone, historyVars
  <2>2. /\ Linking' => Linking
        /\ Spent => Spent' \/ (Linking /\ ~ Linking')
    <3>1. CASE HookNode \/ EraseDone \/ UniqueDone
      <4>1. lst' = lst
        BY <3>1 DEF HookNode, EraseDone, UniqueDone, listVars
      <4>2. Pushing' => Pushing
        BY <1>0, <3>1 DEF HookNode, EraseDone, UniqueDone, Pushing, IrqType, TypeOK
      <4>3. Spent' <=> Spent
        BY <1>2, <4>1 DEF Spent
      <4> QED BY <4>1, <4>2, <4>3 DEF Linking
    <3>2. CASE LinkNode
      <4>1. /\ lst' # <<>> /\ ~ Pushing' /\ Pushing
        BY <1>0, <3>2 DEF LinkNode, SetList, Pushing, IrqType, TypeOK
      <4> QED BY <1>2, <4>1 DEF Linking, Spent
    <3>3. CASE EraseNext \/ UniqueNext
      <4>1. lst # <<>> /\ ~ Pushing /\ ~ Pushing'
        <5>1. /\ irq.pc \in {"erase", "unique"} /\ irq'.pc = irq.pc
              /\ \E i \in DOMAIN lst : TRUE
          BY <1>0, <3>3 DEF EraseNext, ToErase, From, UniqueNext, IrqType, TypeOK
        <5> QED BY <5>1 DEF Pushing
      <4> QED BY <1>2, <4>1 DEF Linking, Spent
    <3> QED BY <1>4, <3>1, <3>2, <3>3 DEF IrqThread
  <2> QED BY <1>1, <2>1, <2>2 DEF One
<1> QED BY <1>3, <1>4

(* The user and the controller: a press may be dropped, and the codes that   *)
(* a held key repeats may then make up for it.                               *)
LEMMA UserSpends ==
  ASSUME OnlyTab, TabInv, User
  PROVE  /\ Cardinality(Rises(fifo, down)') \in Nat /\ taps' \in Nat
         /\ Cardinality(Rises(fifo, down)') + One(TabKey \in held /\ ~ LastDown(fifo, down))'
              <= Cardinality(Rises(fifo, down)) + One(TabKey \in held /\ ~ LastDown(fifo, down))
                   + (taps' - taps)
<1>0. TypeOK /\ fifo \in Seq(ScanCode) /\ taps \in Nat /\ down' = down
  <2>1. TypeOK
    BY DEF TabInv
  <2>2. fifo \in Seq(ScanCode)
    BY <2>1 DEF TypeOK
  <2> QED BY <2>1, <2>2 DEF TabInv, SwitchOK, User, Device, historyVars
<1>1. Cardinality(Rises(fifo, down)) \in Nat
  BY <1>0, RisesFinite
<1>2. taps' = IF TabKey \in held' \ held THEN taps + 1 ELSE taps
  BY DEF User
<1>3. ASSUME NEW code \in {TabKey, BreakCode(TabKey)}, fifo' = Append(fifo, code)
      PROVE  /\ Cardinality(Rises(fifo, down)')
                  = Cardinality(Rises(fifo, down)) + One(code = TabKey /\ ~ LastDown(fifo, down))
             /\ LastDown(fifo, down)' <=> code = TabKey
  BY <1>0, <1>3, RisesAppend, TabCodes
<1> DEFINE R == Cardinality(Rises(fifo, down))
           L == LastDown(fifo, down)
<1> HIDE DEF R, L
<1>4. /\ R \in Nat
      /\ \A code \in {TabKey, BreakCode(TabKey)} : fifo' = Append(fifo, code) =>
           R' = R + One(code = TabKey /\ ~ L) /\ (L' <=> code = TabKey)
      /\ fifo' = fifo => R' = R /\ (L' <=> L)
  BY <1>0, <1>1, <1>3 DEF R, L
<1>5. R' \in Nat /\ R' + One(TabKey \in held /\ ~ L)' <= R + One(TabKey \in held /\ ~ L) + (taps' - taps)
  <2>1. CASE Typematic
    <3>1. TabKey \in held /\ held' = held
      BY <2>1, KeyboardAssumption DEF Typematic, OnlyTab, TabInv, FifoInv, TypeOK
    <3>2. fifo' = fifo \/ fifo' = Append(fifo, TabKey)
      BY <2>1, KeyboardAssumption DEF Typematic, Send, OnlyTab, TypeOK, TabInv
    <3> QED BY <1>0, <1>2, <1>4, <3>1, <3>2 DEF One
  <2>2. CASE PressKey(TabKey)
    <3>1. TabKey \notin held /\ TabKey \in held' /\ (fifo' = fifo \/ fifo' = Append(fifo, TabKey))
      BY <2>2 DEF PressKey, Send
    <3> QED BY <1>0, <1>2, <1>4, <3>1 DEF One
  <2>3. CASE ReleaseKey(TabKey)
    <3>1. TabKey \in held /\ TabKey \notin held'
          /\ (fifo' = fifo \/ fifo' = Append(fifo, BreakCode(TabKey)))
      BY <2>3 DEF ReleaseKey, Send
    <3> QED BY <1>0, <1>2, <1>4, <3>1, TabCodes DEF One
  <2> QED BY <2>1, <2>2, <2>3 DEF User, Device, OnlyTab
<1>6. taps' \in Nat
  BY <1>0, <1>2
<1> QED BY <1>5, <1>6 DEF R, L

LEMMA TapStep ==
  ASSUME OnlyTab, TabInv, TapInv, [TabNext]_tabVars, TypeOK', SwitchOK'
  PROVE  TapInv'
<1> DEFINE R == Cardinality(Rises(fifo, down))
           L == LastDown(fifo, down)
           a == One(~ Spent)
           b == One(Linking)
           k == One(TabKey \in held /\ ~ L)
<1>0. {R, toggles, taps} \subseteq Nat /\ {R', toggles', taps'} \subseteq Nat
  <2>1. fifo \in Seq(ScanCode) /\ fifo' \in Seq(ScanCode)
    BY DEF TabInv, TypeOK
  <2>2. R \in Nat /\ R' \in Nat
    BY <2>1, RisesFinite
  <2> QED BY <2>2 DEF TabInv, SwitchOK
<1>1. toggles + a + b + R + k <= taps
  BY DEF TapInv
<1>2. {a, b, k, a', b', k'} \subseteq Nat
  BY DEF One
<1> SUFFICES toggles' + a' + b' + R' + k' <= taps'
  BY DEF TapInv
<1>3. CASE User
  <2>1. UNCHANGED <<lst, irq, srv, ipc, sw, toggles>>
    BY <1>3 DEF User, Device, listVars, clientVars, switchVars
  <2>2. (Spent' <=> Spent) /\ (Linking' <=> Linking)
    BY <2>1 DEF Spent, Linking, Pushing, Unread, Replied, WithoutTab, WithTab, Counted
  <2>3. a' = a /\ b' = b
    BY <2>2 DEF One
  <2>4. R' + k' <= R + k + (taps' - taps)
    BY <1>3, UserSpends
  <2> HIDE DEF R, L, a, b, k
  <2> QED BY <1>0, <1>1, <1>2, <2>1, <2>3, <2>4
<1>4. CASE KeyboardServer
  <2>1. UNCHANGED <<sw, toggles, taps, held>>
    BY <1>4 DEF KeyboardServer, switchVars, IrqThread, ServerThread, deviceVars
  <2>2. CASE IrqThread
    <3>1. (L' <=> L) /\ a' + b' + R' <= a + b + R
      BY <2>1, <2>2, LoopSpends
    <3>2. k' = k
      BY <2>1, <3>1 DEF One
    <3> HIDE DEF R, L, a, b, k
    <3> QED BY <1>0, <1>1, <1>2, <2>1, <3>1, <3>2
  <2>3. CASE ServerThread
    <3>1. Spent => Spent'
      BY <2>1, <2>3, WalkSpends DEF TabInv
    <3>2. UNCHANGED <<lst, irq, fifo, down>>
      BY <2>3 DEF ServerThread, deviceVars, listVars
    <3>3. R' = R /\ (L' <=> L) /\ (Linking' <=> Linking)
      BY <3>2 DEF Linking, Pushing
    <3>4. a' <= a /\ b' = b /\ k' = k
      BY <2>1, <3>1, <3>3 DEF One
    <3> HIDE DEF R, L, a, b, k
    <3> QED BY <1>0, <1>1, <1>2, <2>1, <3>3, <3>4
  <2> QED BY <1>4, <2>2, <2>3 DEF KeyboardServer
<1>5. CASE SwitchThread \/ UNCHANGED tabVars
  <2>1. UNCHANGED <<lst, irq, srv, fifo, down, held, taps>>
    BY <1>5 DEF SwitchThread, tabVars, vars, deviceVars, listVars, historyVars
  <2>2. R' = R /\ (L' <=> L) /\ (Linking' <=> Linking)
    BY <2>1 DEF Linking, Pushing
  <2>3. b' = b /\ k' = k
    BY <2>1, <2>2 DEF One
  <2>4. CASE ReadReply
    <3>1. \/ toggles' = toggles /\ (Spent => Spent')
          \/ toggles' = toggles + 1 /\ ~ Spent /\ Spent'
      BY <2>1, <2>4, ReplySpends DEF TabInv
    <3>2. toggles' + a' <= toggles + a
      BY <1>0, <3>1 DEF One
    <3> HIDE DEF R, L, a, b, k
    <3> QED BY <1>0, <1>1, <1>2, <2>1, <2>2, <2>3, <3>2
  <2>5. CASE ~ ReadReply
    <3>1. toggles' = toggles
      BY <1>5, <2>5 DEF SwitchThread, Poll, Toggle, tabVars, switchVars
    <3>2. Spent' <=> Spent
      <4>1. CASE Poll
        <5>1. /\ ipc[Console].st = "idle" /\ ipc'[Console].st = "sent"
              /\ sw'.lastTab = sw.lastTab
          BY <2>5, <4>1, ConsoleAssumption
          DEF Poll, Goto, Call, TabInv, SwitchOK, TypeOK
        <5>2. Unread /\ Unread'
          BY <2>1, <5>1 DEF Unread, Replied, TabInv, CallInv
        <5> QED BY <2>1, <5>1, <5>2 DEF Spent
      <4>2. CASE (Toggle /\ UNCHANGED vars) \/ UNCHANGED tabVars
        <5>1. ipc' = ipc /\ sw'.lastTab = sw.lastTab
          BY <4>2 DEF Toggle, Test0, Off0, On1, Test1, On0, Off1, Goto, TabInv, SwitchOK,
                      tabVars, vars, clientVars, switchVars
        <5> QED BY <2>1, <5>1
                DEF Spent, Unread, Replied, WithoutTab, WithTab, Counted
      <4> QED BY <1>5, <2>5, <4>1, <4>2 DEF SwitchThread
    <3>3. a' = a
      BY <3>2 DEF One
    <3> HIDE DEF R, L, a, b, k
    <3> QED BY <1>0, <1>1, <1>2, <2>1, <2>2, <2>3, <3>1, <3>3
  <2> QED BY <2>4, <2>5
<1> QED BY <1>3, <1>4, <1>5 DEF TabNext

(* While TAB is the only key, no interleaving of the polling thread, the     *)
(* walk of dispatch() and the edits of loop(), and no code that the          *)
(* controller drops, makes the consoles switch more often than the user has  *)
(* pressed TAB, whatever the number of nodes and the size of the buffer.     *)
THEOREM OneSwitchPerTap == ASSUME OnlyTab PROVE TabSpec => []TogglesMatchTaps
<1> DEFINE Base == TypeOK /\ StepOnNode /\ PushInv
           Rest == ScansInv /\ WalkInv /\ FifoInv /\ SwitchOK /\ CodesInv /\ CallInv
<1>1. TabInit => Rest /\ TapInv
  <2> SUFFICES ASSUME TabInit PROVE Rest /\ TapInv
    OBVIOUS
  <2>1. Init
    BY DEF TabInit
  <2>2. ScansInv /\ WalkInv /\ FifoInv
    BY <2>1 DEF Init, ScansInv, CursorInv, WalkInv, FifoInv, LastCode, Doomed, Added,
                Pushing, KeysOf
  <2>3. SwitchOK
    BY DEF TabInit, SwitchOK, SwitchPC
  <2>4. CodesInv
    BY <2>1 DEF Init, CodesInv
  <2>5. ipc[Console].st = "idle"
    BY <2>1, ConsoleAssumption DEF Init
  <2>6. CallInv /\ Unread /\ ~ Linking
    BY <2>1, <2>5 DEF Init, TabInit, CallInv, Unread, Replied, Linking, Pushing
  <2>7. Rises(fifo, down) = {} /\ TabKey \notin held /\ Spent
    BY <2>1, <2>6 DEF Init, Rises, Spent
  <2>8. Cardinality(Rises(fifo, down)) = 0
    BY <2>7, FS_EmptySet
  <2>9. TapInv
    BY <2>6, <2>7, <2>8 DEF TapInv, TabInit, One
  <2> QED BY <2>2, <2>3, <2>4, <2>6, <2>9
<1>2. Base /\ Base' /\ Rest /\ TapInv /\ [TabNext]_tabVars => (Rest /\ TapInv)'
  <2> SUFFICES ASSUME Base, Base', Rest, TapInv, [TabNext]_tabVars PROVE (Rest /\ TapInv)'
    OBVIOUS
  <2>1. [Next]_vars
    BY TabSteps
  <2>2. (ScansInv /\ WalkInv /\ FifoInv)'
    BY <2>1, ScansStep, WalkStep, FifoStep
  <2>3. (SwitchOK /\ CodesInv /\ CallInv)'
    BY <2>1, <2>2, SwitchStep, CodesStep, CallStep
  <2>4. TabInv
    BY DEF TabInv
  <2>5. TapInv'
    BY <2>3, <2>4, TapStep
  <2> QED BY <2>2, <2>3, <2>5
<1>3. Base /\ Rest /\ TapInv => TogglesMatchTaps
  <2> SUFFICES ASSUME Base, Rest, TapInv PROVE toggles <= taps
    BY DEF TogglesMatchTaps
  <2>1. Cardinality(Rises(fifo, down)) \in Nat
    BY RisesFinite DEF TypeOK
  <2> QED BY <2>1 DEF TapInv, One, SwitchOK
<1> QED BY <1>1, <1>2, <1>3, TypeCorrect, TabImplementsKeyboard, PTL DEF TabSpec
=============================================================================
