---------------------------- MODULE ConsoleProofs ----------------------------
(* Theorems about the console server, for every number of clients, of        *)
(* consoles they create, and of consoles that exist when the two loops wake  *)
(* up.                                                                       *)
EXTENDS Console, FiniteSetTheorems, TLAPS

(* Ids are handed out in order, a client's is older than the one being made, *)
(* and an id's memory is attached once get_ds has stored its address.  An id *)
(* that consoles[] does not have is given to no one before the array has     *)
(* been overrun.                                                             *)
CreateInv ==
  /\ main.pc # "serve" => idCtrl = main.id + 1
  /\ \A c \in Client : client[c].st # "new" =>
       /\ client[c].id < idCtrl
       /\ main.pc # "serve" => client[c].id < main.id
  /\ \A c, d \in Client :
       client[c].st # "new" /\ client[d].st # "new" /\ c # d => client[c].id # client[d].id
  /\ \A id \in ConsoleId :
       addr[id] <=> id < idCtrl /\ ~ (main.pc \in {"alloc", "addr"} /\ main.id = id)
  /\ ~ overrun => idCtrl <= 2 \/ (idCtrl = 3 /\ main.pc \in {"alloc", "addr"})

(* The active flags until TAB is used too early: before both consoles exist  *)
(* only get_ds writes them, afterwards only the switch thread does.          *)
Even     == toggles % 2 = 0
Flags(a, b) == (active[0] <=> a) /\ (active[1] <=> b)
FlagInv ==
  ~ early =>
    IF AllCreated
    THEN /\ Settled                      => Flags(Even, ~ Even)
         /\ sw.pc = "test0"              => Flags(~ Even, Even)
         /\ sw.pc = "off0"               => ~ Even /\ Flags(TRUE, FALSE)
         /\ sw.pc = "on1"                => ~ Even /\ Flags(FALSE, FALSE)
         /\ sw.pc \in {"test1", "on0"}   => Even /\ Flags(FALSE, TRUE)
         /\ sw.pc = "off1"               => Even /\ Flags(TRUE, TRUE)
    ELSE /\ Settled /\ toggles = 0
         /\ Flags(Created(0), FALSE)

(* Until then the refresh thread copies attached memory only.                *)
CopyInv == /\ refresh.pc = "fault" => early
           /\ refresh.pc = "copy" /\ ~ early => addr[refresh.id]

-----------------------------------------------------------------------------
(* Types.                                                                    *)

LEMMA TwoConsoles ==
  /\ IsFiniteSet(ConsoleId) /\ Cardinality(ConsoleId) = 2
  /\ ConsoleId = {0, 1}
<1>1. {0, 1} = {0} \cup {1} /\ 1 \notin {0}
  OBVIOUS
<1>2. IsFiniteSet({0}) /\ Cardinality({0}) = 1
  BY FS_Singleton
<1>3. IsFiniteSet({0, 1}) /\ Cardinality({0, 1}) = 2
  BY <1>1, <1>2, FS_AddElement
<1>4. 0..1 = {0, 1}
  OBVIOUS
<1> QED BY <1>3, <1>4 DEF ConsoleId

LEMMA MainKeepsType == TypeOK /\ MainThread => TypeOK'
<1> SUFFICES ASSUME TypeOK, MainThread PROVE TypeOK'
  OBVIOUS
<1> DEFINE ClientType == [st : {"new", "open", "mapped"}, id : Nat]
           MainType   == [pc : {"serve", "alloc", "addr", "flag", "reply"},
                          id : Nat, for : Client]
<1>0. /\ UNCHANGED <<sw, toggles, refresh, fb, early>>
      /\ active \in [ConsoleId -> BOOLEAN] /\ main \in MainType
      /\ idCtrl \in Nat /\ client \in [Client -> ClientType]
      /\ addr \in [ConsoleId -> BOOLEAN] /\ alive \in BOOLEAN
      /\ overrun \in BOOLEAN /\ answer \in Result
  BY DEF MainThread, refreshVars, TypeOK, SwitchTypeOK
<1> DEFINE Typed == /\ active' \in [ConsoleId -> BOOLEAN]
                    /\ idCtrl' \in Nat /\ addr' \in [ConsoleId -> BOOLEAN]
                    /\ main' \in MainType /\ alive' \in BOOLEAN
                    /\ overrun' \in BOOLEAN /\ answer' \in Result
                    /\ client' \in [Client -> ClientType]
                    /\ buf' = buf
<1>1. SUFFICES Typed
  BY <1>0 DEF TypeOK, SwitchTypeOK
<1>2. CASE Allocate
  BY <1>0, <1>2 DEF Allocate, clientVars
<1>3. CASE SetAddr
  BY <1>0, <1>3 DEF SetAddr, clientVars
<1>4. CASE SetActive
  BY <1>0, <1>4 DEF SetActive, clientVars
<1>5. CASE ReplyConsole
  <2>1. [st |-> "open", id |-> main.id] \in ClientType
    BY <1>0
  <2> QED BY <1>0, <1>5, <2>1 DEF ReplyConsole, Result
<1>6. CASE FactoryDispatch
  <2>1. answer' \in Result
    BY <1>6 DEF FactoryDispatch, FactoryResult, Result
  <2> QED BY <1>0, <1>6, <2>1 DEF FactoryDispatch, clientVars
<1>7. ASSUME NEW c \in Client, FactoryCreate(c) PROVE Typed
  BY <1>0, <1>7 DEF FactoryCreate, clientVars, Result
<1>8. ASSUME NEW c \in Client, GoosDispatch(c) PROVE Typed
  <2>1. PICK label \in {"goos", "strange"}, op \in GoosOp, idx \in 0..1 :
          /\ answer' \in GoosResult(label, op, idx)
          /\ client' = [client EXCEPT ![c].st =
                          IF op = "get_buffer" /\ answer' = "ok" THEN "mapped" ELSE @]
    BY <1>8 DEF GoosDispatch
  <2>2. answer' \in Result
    BY <2>1 DEF GoosResult, GoosOp, Result
  <2>3. client' \in [Client -> ClientType]
    BY <1>0, <2>1
  <2> QED BY <1>0, <1>8, <2>2, <2>3 DEF GoosDispatch
<1> QED BY <1>2, <1>3, <1>4, <1>5, <1>6, <1>7, <1>8 DEF MainThread

LEMMA SwitchKeepsType == TypeOK /\ SwitchThread => TypeOK'
<1> SUFFICES ASSUME TypeOK, SwitchThread PROVE TypeOK'
  OBVIOUS
<1>0. /\ UNCHANGED <<serverVars, clientVars, refreshVars, overrun>>
      /\ sw \in [pc : SwitchPC, lastTab : BOOLEAN] /\ toggles \in Nat
      /\ active \in [ConsoleId -> BOOLEAN] /\ alive \in BOOLEAN
  BY DEF SwitchThread, TypeOK, SwitchTypeOK
<1>1. early' \in BOOLEAN
  BY DEF SwitchThread, TypeOK
<1>2. /\ sw' \in [pc : SwitchPC, lastTab : BOOLEAN] /\ toggles' \in Nat
      /\ active' \in [ConsoleId -> BOOLEAN] /\ alive' \in BOOLEAN
  <2>1. CASE GetKeyboard \/ PollKeyboard \/ KeyboardError
    BY <1>0, <2>1 DEF GetKeyboard, PollKeyboard, KeyboardError, Goto, SwitchPC, switchVars
  <2>2. CASE KeyboardReply
    <3>1. PICK codes \in SUBSET {TAB, UP_1} : Decode(codes)
      BY <2>2 DEF KeyboardReply
    <3> QED BY <1>0, <2>2, <3>1 DEF KeyboardReply, Decode, SwitchPC
  <2>3. CASE Toggle /\ UNCHANGED alive
    BY <1>0, <2>3 DEF Toggle, Test0, Off0, On1, Test1, On0, Off1, Goto, Set, SwitchPC, ConsoleId
  <2> QED BY <2>1, <2>2, <2>3 DEF SwitchThread
<1> QED BY <1>0, <1>1, <1>2
        DEF TypeOK, SwitchTypeOK, serverVars, clientVars, refreshVars

LEMMA RefreshKeepsType == TypeOK /\ RefreshThread => TypeOK'
<1> SUFFICES ASSUME TypeOK, RefreshThread PROVE TypeOK'
  OBVIOUS
<1> DEFINE RefreshType == [pc : {"sleep", "pick", "copy", "fault"}, id : ConsoleId,
                           left : SUBSET Chunk]
           FrameType   == [id : ConsoleId, frame : 0..MaxDraws]
<1>0. /\ UNCHANGED <<switchVars, serverVars, clientVars, alive, early, overrun>>
      /\ refresh \in RefreshType /\ fb \in [Chunk -> FrameType]
      /\ buf \in [ConsoleId -> 0..MaxDraws]
  BY DEF RefreshThread, TypeOK
<1>1. refresh' \in RefreshType /\ fb' \in [Chunk -> FrameType]
  <2>1. CASE Pick
    BY <1>0, <2>1 DEF Pick, ConsoleId
  <2>2. CASE Copy
    <3>1. PICK k \in refresh.left :
            /\ fb' = [fb EXCEPT ![k] = [id |-> refresh.id, frame |-> buf[refresh.id]]]
            /\ refresh' = [refresh EXCEPT !.left = @ \ {k}]
      BY <2>2 DEF Copy
    <3>2. [id |-> refresh.id, frame |-> buf[refresh.id]] \in FrameType
      BY <1>0
    <3> QED BY <1>0, <3>1, <3>2
  <2>3. CASE CopyFaults \/ CopyDone
    BY <1>0, <2>3 DEF CopyFaults, CopyDone
  <2> QED BY <2>1, <2>2, <2>3 DEF RefreshThread
<1> QED BY <1>0, <1>1
        DEF TypeOK, SwitchTypeOK, switchVars, serverVars, clientVars

LEMMA DrawKeepsType == TypeOK /\ Draw => TypeOK'
<1> SUFFICES ASSUME TypeOK, Draw PROVE TypeOK'
  OBVIOUS
<1>1. buf' \in [ConsoleId -> 0..MaxDraws]
  BY ClientAssumption DEF Draw, TypeOK
<1> QED BY <1>1 DEF Draw, TypeOK, SwitchTypeOK, switchVars, serverVars, refreshVars

-----------------------------------------------------------------------------
(* Creating consoles.                                                        *)

LEMMA CreateStep == TypeOK /\ CreateInv /\ [Next]_vars => CreateInv'
<1> SUFFICES ASSUME TypeOK, CreateInv, [Next]_vars PROVE CreateInv'
  OBVIOUS
<1>0. /\ idCtrl \in Nat /\ main.id \in Nat /\ main.for \in Client
      /\ \A c \in Client : client[c].id \in Nat
      /\ \A id \in ConsoleId : id \in Nat
  BY DEF TypeOK, ConsoleId
<1>1. CASE UNCHANGED <<idCtrl, addr, main, client, overrun>>
  BY <1>1 DEF CreateInv
<1>2. CASE MainThread
  <2>1. CASE Allocate
    <3>1. /\ UNCHANGED <<idCtrl, addr, client, overrun>> /\ main'.pc \in {"alloc", "addr"}
          /\ main.pc \in {"alloc", "addr"} /\ main'.id = main.id
      BY <2>1 DEF Allocate, clientVars, TypeOK
    <3> QED BY <3>1 DEF CreateInv
  <2>2. CASE SetAddr
    <3>1. /\ UNCHANGED <<idCtrl, client>> /\ main'.pc = "flag" /\ main.pc = "addr"
          /\ main'.id = main.id /\ (overrun' <=> overrun \/ main.id \notin ConsoleId)
          /\ \A id \in ConsoleId : addr'[id] <=> addr[id] \/ id = main.id
      BY <2>2 DEF SetAddr, clientVars, TypeOK
    <3>2. idCtrl = main.id + 1
      BY <3>1 DEF CreateInv
    <3>3. \A id \in ConsoleId : addr'[id] <=> id < idCtrl
      BY <1>0, <3>1, <3>2 DEF CreateInv
    <3>4. ~ overrun' => idCtrl <= 2
      BY <1>0, <3>1, <3>2 DEF ConsoleId
    <3>5. \A id \in ConsoleId :
            addr'[id] <=> id < idCtrl' /\ ~ (main'.pc \in {"alloc", "addr"} /\ main'.id = id)
      BY <3>1, <3>3
    <3> QED BY <3>1, <3>4, <3>5 DEF CreateInv
  <2>3. CASE SetActive
    <3>1. /\ UNCHANGED <<idCtrl, addr, client, overrun>> /\ main'.pc = "reply"
          /\ main.pc = "flag" /\ main'.id = main.id
      BY <2>3 DEF SetActive, clientVars, TypeOK
    <3> QED BY <3>1 DEF CreateInv
  <2>4. CASE ReplyConsole
    <3>1. /\ UNCHANGED <<idCtrl, addr, overrun>> /\ main'.pc = "serve" /\ main.pc = "reply"
          /\ client' = [client EXCEPT ![main.for] = [st |-> "open", id |-> main.id]]
      BY <2>4 DEF ReplyConsole, TypeOK
    <3>2. /\ client'[main.for].st = "open" /\ client'[main.for].id = main.id
          /\ \A c \in Client \ {main.for} : client'[c] = client[c]
      BY <1>0, <3>1 DEF TypeOK
    <3>3. idCtrl = main.id + 1
      BY <3>1 DEF CreateInv
    <3>4. \A id \in ConsoleId : addr[id] <=> id < idCtrl
      BY <3>1 DEF CreateInv
    <3>5. \A c \in Client \ {main.for} : client[c].st # "new" => client[c].id < main.id
      BY <3>1 DEF CreateInv
    <3>6. \A c \in Client : client'[c].st # "new" => client'[c].id < idCtrl
      BY <1>0, <3>2, <3>3, <3>5
    <3>7. \A c, d \in Client : client'[c].st # "new" /\ client'[d].st # "new" /\ c # d
            => client'[c].id # client'[d].id
      BY <1>0, <3>2, <3>5 DEF CreateInv
    <3> QED BY <3>1, <3>4, <3>6, <3>7 DEF CreateInv
  <2>5. CASE FactoryDispatch
    BY <1>1, <2>5 DEF FactoryDispatch, clientVars
  <2>6. ASSUME NEW c \in Client, GoosDispatch(c)
        PROVE  CreateInv'
    <3>1. client[c].st # "new" /\ UNCHANGED <<idCtrl, addr, main, overrun>>
      BY <2>6 DEF GoosDispatch
    <3>2. PICK st \in {client[c].st, "mapped"} : client' = [client EXCEPT ![c].st = st]
      BY <2>6 DEF GoosDispatch
    <3>3. \A d \in Client : /\ client'[d].id = client[d].id
                            /\ client'[d].st # "new" <=> client[d].st # "new"
      BY <3>1, <3>2 DEF TypeOK
    <3> QED BY <3>1, <3>3 DEF CreateInv
  <2>7. ASSUME NEW c \in Client, FactoryCreate(c)
        PROVE  CreateInv'
    <3>1. /\ main.pc = "serve" /\ UNCHANGED <<addr, client, overrun>>
          /\ main'.pc = "alloc" /\ main'.id = idCtrl /\ idCtrl' = idCtrl + 1
      BY <2>7 DEF FactoryCreate, clientVars
    <3>2. \A id \in ConsoleId : addr[id] <=> id < idCtrl
      BY <3>1 DEF CreateInv
    <3>3. ~ overrun => idCtrl <= 2
      BY <3>1 DEF CreateInv
    <3>4. ~ overrun' => idCtrl' <= 2 \/ idCtrl' = 3
      BY <1>0, <3>1, <3>3
    <3>5. \A id \in ConsoleId : addr'[id] <=> id < idCtrl' /\ main'.id # id
      BY <1>0, <3>1, <3>2
    <3>6. \A d \in Client : client'[d].st # "new" =>
            client'[d].id < main'.id /\ client'[d].id < idCtrl'
      BY <1>0, <3>1 DEF CreateInv
    <3> QED BY <3>1, <3>4, <3>5, <3>6 DEF CreateInv
  <2> QED BY <1>2, <2>1, <2>2, <2>3, <2>4, <2>5, <2>6, <2>7 DEF MainThread
<1> QED BY <1>1, <1>2
        DEF Next, Draw, SwitchThread, RefreshThread, vars, serverVars, clientVars

(* The types of the console server's variables, however many consoles are    *)
(* created: what the two loops read stays within consoles[].                 *)
THEOREM TypeCorrect == Spec => [](TypeOK /\ CreateInv)
<1>1. Init => TypeOK /\ CreateInv
  <2> SUFFICES ASSUME Init PROVE TypeOK /\ CreateInv
    OBVIOUS
  <2>1. SwitchTypeOK
    BY DEF Init, SwitchInit, SwitchTypeOK, SwitchPC
  <2>2. 0 \in ConsoleId /\ 0 \in 0..MaxDraws
    BY ClientAssumption DEF ConsoleId
  <2>3. main \in [pc : {"serve", "alloc", "addr", "flag", "reply"}, id : Nat, for : Client]
    BY DEF Init
  <2>4. TypeOK
    BY <2>1, <2>2, <2>3 DEF Init, TypeOK, Blank, Result
  <2>5. CreateInv
    BY <2>3 DEF Init, CreateInv, ConsoleId
  <2> QED BY <2>4, <2>5
<1>2. TypeOK /\ CreateInv /\ [Next]_vars => TypeOK' /\ CreateInv'
  <2>1. TypeOK /\ UNCHANGED vars => TypeOK'
    BY DEF vars, switchVars, serverVars, clientVars, refreshVars, TypeOK, SwitchTypeOK
  <2> QED BY <2>1, MainKeepsType, SwitchKeepsType, RefreshKeepsType, DrawKeepsType,
             CreateStep DEF Next
<1> QED BY <1>1, <1>2, PTL DEF Spec

(* No two clients have the same console, however many are created; and until *)
(* get_ds writes beyond consoles[], which the third creation makes it do,    *)
(* every client's console is one of the array's, with memory attached.       *)
THEOREM ConsolesAreOwned == Spec => []OwnConsole
<1>1. TypeOK /\ CreateInv => OwnConsole
  <2> SUFFICES ASSUME TypeOK, CreateInv PROVE OwnConsole
    OBVIOUS
  <2>1. ASSUME NEW c \in Client, client[c].st # "new", ~ overrun
        PROVE  client[c].id \in ConsoleId /\ addr[client[c].id]
    <3>1. client[c].id \in Nat /\ main.id \in Nat /\ idCtrl \in Nat
      BY DEF TypeOK
    <3>2. /\ client[c].id < idCtrl
          /\ main.pc # "serve" => client[c].id < main.id /\ idCtrl = main.id + 1
          /\ idCtrl <= 2 \/ (idCtrl = 3 /\ main.pc \in {"alloc", "addr"})
      BY <2>1 DEF CreateInv
    <3>3. client[c].id \in ConsoleId
      BY <3>1, <3>2 DEF ConsoleId
    <3> QED BY <3>1, <3>2, <3>3 DEF CreateInv
  <2> QED BY <2>1 DEF OwnConsole, CreateInv
<1> QED BY <1>1, TypeCorrect, PTL

-----------------------------------------------------------------------------
(* The active flags.                                                         *)

(* Consoles come into being in order.                                        *)
LEMMA CreatedInOrder ==
  ASSUME TypeOK, CreateInv
  PROVE  /\ Created(1) => Created(0)
         /\ AllCreated <=> Created(1)
         /\ main.pc = "flag" /\ main.id \in ConsoleId =>
              (main.id = 1 <=> Created(0)) /\ ~ AllCreated
<1>1. idCtrl \in Nat /\ main.id \in Nat /\ ConsoleId = {0, 1}
  BY TwoConsoles DEF TypeOK
<1>2. /\ addr[0] <=> 0 < idCtrl /\ ~ (main.pc \in {"alloc", "addr"} /\ main.id = 0)
      /\ addr[1] <=> 1 < idCtrl /\ ~ (main.pc \in {"alloc", "addr"} /\ main.id = 1)
      /\ main.pc # "serve" => idCtrl = main.id + 1
  BY <1>1 DEF CreateInv
<1>3. Created(1) => Created(0)
  BY <1>1, <1>2 DEF Created
<1>4. AllCreated <=> Created(1)
  BY <1>1, <1>3 DEF AllCreated
<1>5. ASSUME main.pc = "flag", main.id \in {0, 1}
      PROVE  (main.id = 1 <=> Created(0)) /\ ~ Created(1)
  BY <1>1, <1>2, <1>5 DEF Created
<1> QED BY <1>1, <1>3, <1>4, <1>5

(* Only SetActive lets a console come into being, and no step undoes it.     *)
LEMMA MainCreates ==
  ASSUME TypeOK, CreateInv, MainThread
  PROVE  /\ \A id \in ConsoleId :
              Created(id)' <=> Created(id) \/ (main.pc = "flag" /\ main.id = id)
         /\ main.pc # "flag" => active' = active
         /\ main.pc = "flag" => \A id \in ConsoleId :
              active'[id] <=> IF id = main.id THEN id = 0 ELSE active[id]
<1>1. CASE Allocate
  BY <1>1 DEF Allocate, Created, TypeOK
<1>2. CASE SetAddr
  <2>1. /\ UNCHANGED active /\ main.pc = "addr" /\ main'.pc = "flag" /\ main'.id = main.id
        /\ \A id \in ConsoleId : addr'[id] <=> addr[id] \/ id = main.id
    BY <1>2 DEF SetAddr, TypeOK
  <2>2. \A id \in ConsoleId : id = main.id => ~ addr[id]
    BY <2>1 DEF CreateInv
  <2> QED BY <2>1, <2>2 DEF Created
<1>3. CASE SetActive
  <2>1. /\ main.pc = "flag" /\ main'.pc = "reply" /\ addr' = addr
        /\ \A id \in ConsoleId : active'[id] <=> IF id = main.id THEN id = 0 ELSE active[id]
    BY <1>3 DEF SetActive, TypeOK, SwitchTypeOK
  <2>2. \A id \in ConsoleId : id = main.id => addr[id]
    BY <2>1 DEF CreateInv, TypeOK, ConsoleId
  <2> QED BY <2>1, <2>2 DEF Created
<1>4. CASE ReplyConsole
  BY <1>4 DEF ReplyConsole, Created, TypeOK
<1>5. CASE FactoryDispatch \/ \E c \in Client : GoosDispatch(c)
  BY <1>5 DEF FactoryDispatch, GoosDispatch, serverVars, Created
<1>6. CASE \E c \in Client : FactoryCreate(c)
  BY <1>6 DEF FactoryCreate, Created
<1> QED BY <1>1, <1>2, <1>3, <1>4, <1>5, <1>6 DEF MainThread

LEMMA MainKeepsFlags ==
  TypeOK /\ CreateInv /\ FlagInv /\ MainThread => FlagInv'
<1> SUFFICES ASSUME TypeOK, CreateInv, FlagInv, MainThread, ~ early' PROVE FlagInv'
  BY DEF FlagInv
<1>0. /\ ~ early /\ UNCHANGED <<sw, toggles, early>> /\ ConsoleId = {0, 1}
      /\ active \in [ConsoleId -> BOOLEAN]
  BY TwoConsoles DEF MainThread, TypeOK, SwitchTypeOK
<1>1. CASE main.pc # "flag"
  <2>1. active' = active /\ (AllCreated' <=> AllCreated) /\ (Created(0)' <=> Created(0))
    BY <1>0, <1>1, MainCreates DEF AllCreated
  <2> QED BY <1>0, <2>1 DEF FlagInv, Flags, Even, Settled
<1>2. CASE main.pc = "flag" /\ main.id = 0
  <2>1. ~ AllCreated /\ ~ Created(0) /\ ~ Created(1)
    BY <1>0, <1>2, CreatedInOrder
  <2>2. Created(0)' /\ ~ Created(1)' /\ ~ AllCreated'
    BY <1>0, <1>2, <2>1, MainCreates DEF AllCreated
  <2>3. active'[0] /\ (active'[1] <=> active[1])
    BY <1>0, <1>2, MainCreates
  <2> QED BY <1>0, <2>1, <2>2, <2>3 DEF FlagInv, Flags, Settled
<1>3. CASE main.pc = "flag" /\ main.id = 1
  <2>1. ~ AllCreated /\ Created(0)
    BY <1>0, <1>3, CreatedInOrder
  <2>2. AllCreated'
    BY <1>0, <1>3, <2>1, MainCreates DEF AllCreated
  <2>3. (active'[0] <=> active[0]) /\ ~ active'[1]
    BY <1>0, <1>3, MainCreates
  <2>4. Settled /\ toggles = 0 /\ active[0]
    BY <1>0, <2>1 DEF FlagInv, Flags
  <2>5. Even'
    BY <1>0, <2>4 DEF Even
  <2> QED BY <1>0, <2>2, <2>3, <2>4, <2>5 DEF FlagInv, Flags, Settled
<1>4. CASE main.pc = "flag" /\ main.id \notin ConsoleId
  <2>1. \A id \in ConsoleId : (active'[id] <=> active[id]) /\ (Created(id)' <=> Created(id))
    BY <1>4, MainCreates
  <2>2. Flags(TRUE, TRUE)' <=> Flags(TRUE, TRUE)
    BY <1>0, <2>1 DEF Flags
  <2> QED BY <1>0, <2>1 DEF FlagInv, Flags, AllCreated, Even, Settled
<1> QED BY <1>0, <1>1, <1>2, <1>3, <1>4

LEMMA SwitchKeepsFlags ==
  TypeOK /\ FlagInv /\ SwitchThread => FlagInv'
<1> SUFFICES ASSUME TypeOK, FlagInv, SwitchThread, ~ early' PROVE FlagInv'
  BY DEF FlagInv
<1>0. /\ ~ early /\ (toggles' > toggles => AllCreated) /\ UNCHANGED <<addr, main>>
      /\ toggles \in Nat /\ sw.pc \in SwitchPC
      /\ active \in [{0, 1} -> BOOLEAN]
  BY TwoConsoles DEF SwitchThread, serverVars, TypeOK, SwitchTypeOK
<1>1. (AllCreated' <=> AllCreated) /\ (Created(0)' <=> Created(0))
  BY <1>0 DEF AllCreated, Created
<1>2. CASE GetKeyboard \/ PollKeyboard \/ KeyboardError
  <2>1. Settled /\ Settled' /\ UNCHANGED <<active, toggles>>
    BY <1>2 DEF GetKeyboard, PollKeyboard, KeyboardError, Goto, Settled, switchVars,
                TypeOK, SwitchTypeOK
  <2>2. sw.pc \in {"start", "poll", "wait"} /\ sw'.pc \in {"start", "poll", "wait"}
    BY <2>1 DEF Settled
  <2> QED BY <1>0, <1>1, <2>1, <2>2 DEF FlagInv, Flags, Even
<1>3. CASE KeyboardReply
  <2>1. PICK codes : Decode(codes)
    BY <1>3 DEF KeyboardReply
  <2>2. sw.pc = "wait" /\ active' = active
    BY <2>1 DEF Decode
  <2>3. CASE sw'.pc = "poll" /\ toggles' = toggles
    BY <1>0, <1>1, <2>2, <2>3 DEF FlagInv, Flags, Even, Settled
  <2>4. CASE sw'.pc = "test0" /\ toggles' = toggles + 1
    <3>1. AllCreated /\ (Even' <=> ~ Even)
      BY <1>0, <2>4 DEF Even
    <3> QED BY <1>0, <1>1, <2>2, <2>4, <3>1 DEF FlagInv, Flags, Settled
  <2> QED BY <2>1, <2>3, <2>4 DEF Decode
<1>4. CASE Toggle
  <2>1. toggles' = toggles /\ (Even' <=> Even) /\ ~ Settled
    BY <1>4 DEF Toggle, Test0, Off0, On1, Test1, On0, Off1, Even, Settled
  <2>2. AllCreated
    BY <1>0, <2>1 DEF FlagInv
  <2> USE DEF FlagInv, Flags, Goto, Set, Settled, TypeOK, SwitchTypeOK
  <2>3. CASE Test0
    BY <1>0, <1>1, <2>1, <2>2, <2>3 DEF Test0
  <2>4. CASE Off0
    BY <1>0, <1>1, <2>1, <2>2, <2>4 DEF Off0
  <2>5. CASE On1
    BY <1>0, <1>1, <2>1, <2>2, <2>5 DEF On1
  <2>6. CASE Test1
    BY <1>0, <1>1, <2>1, <2>2, <2>6 DEF Test1
  <2>7. CASE On0
    BY <1>0, <1>1, <2>1, <2>2, <2>7 DEF On0
  <2>8. CASE Off1
    BY <1>0, <1>1, <2>1, <2>2, <2>8 DEF Off1
  <2> QED BY <1>4, <2>3, <2>4, <2>5, <2>6, <2>7, <2>8 DEF Toggle
<1> QED BY <1>2, <1>3, <1>4 DEF SwitchThread

LEMMA FlagStep == TypeOK /\ CreateInv /\ FlagInv /\ [Next]_vars => FlagInv'
<1>1. FlagInv /\ UNCHANGED <<switchVars, addr, main, early>> => FlagInv'
  BY DEF FlagInv, Flags, Even, AllCreated, Created, Settled, switchVars
<1> QED BY <1>1, MainKeepsFlags, SwitchKeepsFlags
        DEF Next, Draw, RefreshThread, vars, serverVars

(* Once both consoles exist, and unless TAB was used before or get_ds wrote  *)
(* beyond consoles[], exactly one is active between two switches, the one    *)
(* that the number of switches says.                                         *)
THEOREM ExactlyOneActive == Spec => []OneActive
<1>1. Init => FlagInv
  BY DEF Init, SwitchInit, FlagInv, Flags, AllCreated, Created, ConsoleId, Settled
<1>2. TypeOK /\ FlagInv => OneActive
  <2> SUFFICES ASSUME TypeOK, FlagInv, AllCreated, ~ early, Settled,
                      NEW id \in ConsoleId
               PROVE  active[id] <=> (toggles % 2 = id)
    BY DEF OneActive
  <2>1. Flags(Even, ~ Even)
    BY DEF FlagInv
  <2>2. toggles % 2 \in {0, 1}
    BY DEF TypeOK, SwitchTypeOK
  <2> QED BY <2>1, <2>2, TwoConsoles DEF Flags, Even
<1> QED BY <1>1, <1>2, FlagStep, TypeCorrect, PTL DEF Spec

-----------------------------------------------------------------------------
(* The refresh thread.                                                       *)

LEMMA CopyStep ==
  ASSUME EarlyConsoles # 0
  PROVE  TypeOK /\ CreateInv /\ FlagInv /\ CopyInv /\ [Next]_vars => CopyInv'
<1> SUFFICES ASSUME TypeOK, CreateInv, FlagInv, CopyInv, [Next]_vars PROVE CopyInv'
  OBVIOUS
<1>1. CASE RefreshThread
  <2>0. UNCHANGED <<addr, early>>
    BY <1>1 DEF RefreshThread, serverVars
  <2>1. CASE Pick
    <3>1. PICK id \in ConsoleId : Created(id)
      <4>1. Cardinality({id \in ConsoleId : Created(id)}) # 0
        BY <1>1, ClientAssumption, FS_EmptySet DEF RefreshThread, Awake
      <4>2. {id \in ConsoleId : Created(id)} # {}
        BY <4>1, FS_EmptySet
      <4> QED BY <4>2
    <3>2. Created(0) /\ addr[0] /\ (AllCreated => addr[1])
      BY <3>1, CreatedInOrder, TwoConsoles DEF Created
    <3>3. refresh'.pc = "copy" /\ refresh'.id = IF active[0] THEN 0 ELSE 1
      BY <2>1 DEF Pick
    <3>4. ~ early /\ ~ AllCreated => active[0]
      BY <3>2 DEF FlagInv, Flags
    <3> QED BY <2>0, <3>2, <3>3, <3>4 DEF CopyInv
  <2>2. CASE Copy \/ CopyFaults \/ CopyDone
    BY <2>0, <2>2 DEF Copy, CopyFaults, CopyDone, CopyInv, TypeOK
  <2> QED BY <1>1, <2>1, <2>2 DEF RefreshThread
<1>2. CASE MainThread
  <2>1. UNCHANGED <<refresh, early>>
    BY <1>2 DEF MainThread, refreshVars
  <2>2. \A id \in ConsoleId : addr[id] => addr'[id]
    <3>1. CASE SetAddr
      BY <3>1 DEF SetAddr, TypeOK
    <3>2. CASE ~ SetAddr
      BY <1>2, <3>2
      DEF MainThread, Allocate, SetActive, ReplyConsole, FactoryDispatch, FactoryCreate,
          GoosDispatch, serverVars
    <3> QED BY <3>1, <3>2
  <2> QED BY <2>1, <2>2 DEF CopyInv, TypeOK
<1>3. CASE SwitchThread
  BY <1>3 DEF SwitchThread, CopyInv, refreshVars, serverVars
<1>4. CASE Draw \/ UNCHANGED vars
  BY <1>4 DEF Draw, CopyInv, refreshVars, serverVars, vars
<1> QED BY <1>1, <1>2, <1>3, <1>4 DEF Next

(* If at least one console exists when the loops wake up, nothing but a TAB  *)
(* used before console 1 exists, or a write beyond consoles[], leads to two  *)
(* inactive consoles or to a copy from memory that is not attached.          *)
THEOREM HarmNeedsEarlyTab ==
  ASSUME EarlyConsoles # 0
  PROVE  Spec => []HarmOnlyIfEarly
<1>1. Init => FlagInv /\ CopyInv
  BY DEF Init, SwitchInit, FlagInv, Flags, AllCreated, Created, ConsoleId, Settled, CopyInv
<1>2. TypeOK /\ FlagInv /\ CopyInv => HarmOnlyIfEarly
  <2>1. FlagInv /\ Wedged => early
    BY TwoConsoles DEF FlagInv, Flags, Wedged, Settled
  <2> QED BY <2>1 DEF CopyInv, HarmOnlyIfEarly
<1> QED BY <1>1, <1>2, CopyStep, FlagStep, TypeCorrect, PTL DEF Spec
=============================================================================
