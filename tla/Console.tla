------------------------------ MODULE Console ------------------------------
(* The console server, rm_consoleAlt1/server/src: it multiplexes the frame   *)
(* buffer between two consoles.  Three of its threads share consoles[]       *)
(* without a lock:                                                           *)
(*   - the main thread creates consoles for its clients (FactoryServer::     *)
(*     dispatch, ConsoleCtrl::get_ds) and serves them (ConsoleAlt1);         *)
(*   - the switch thread makes the other console active on TAB (SwitchLoop,  *)
(*     here with arbitrary keyboard replies);                                *)
(*   - the refresh thread copies the active console to the frame buffer.     *)
(* The two loops start with sleep(5), which is meant to let the clients      *)
(* create their consoles first; EarlyConsoles is how many of them do.        *)
(*                                                                           *)
(* rm_consoleAlt1.lua makes two creations, but the factory counts nothing:   *)
(* here anyone may create as many as MaxCreations, and what get_ds writes    *)
(* beyond consoles[] is recorded in overrun.                                 *)
EXTENDS SwitchLoop, Naturals, FiniteSets

CONSTANTS Client,         \* the tasks that use the server
          MaxCreations,   \* bound: consoles created
          EarlyConsoles,  \* consoles created before the loops wake up
          Chunk,          \* the parts a memcpy of the frame buffer copies
          MaxToggles,     \* bound: switches
          MaxDraws        \* bound: frames a client draws

ASSUME ClientAssumption ==
  /\ EarlyConsoles \in Nat
  /\ MaxCreations \in Nat /\ MaxToggles \in Nat /\ MaxDraws \in Nat

VARIABLES idCtrl,   \* FactoryServer::id_ctrl
          addr,     \* consoles[id].addr is attached memory, not NULL
          main,     \* the main thread
          answer,   \* what its last dispatch returned, if it has returned
          refresh,  \* the refresh thread
          alive,    \* the task has not called exit()
          client,   \* what each client has
          buf,      \* the frame in each console's memory
          fb,       \* the console and frame each chunk of the screen shows
          early,    \* history: a switch began before both consoles existed
          overrun   \* history: get_ds wrote beyond consoles[]

serverVars  == <<idCtrl, addr, main, answer>>
clientVars  == <<client, buf>>
refreshVars == <<refresh, fb>>
vars == <<switchVars, serverVars, clientVars, refreshVars, alive, early, overrun>>

Blank  == [id |-> 0, frame |-> 0]
Result == {"none", "ok", "einval", "ebadproto", "erange", "enosys"}

TypeOK ==
  /\ SwitchTypeOK
  /\ idCtrl \in Nat /\ addr \in [ConsoleId -> BOOLEAN]
  /\ main \in [pc : {"serve", "alloc", "addr", "flag", "reply"},
               id : Nat, for : Client]
  /\ refresh \in [pc : {"sleep", "pick", "copy", "fault"}, id : ConsoleId,
                  left : SUBSET Chunk]
  /\ alive \in BOOLEAN /\ early \in BOOLEAN /\ overrun \in BOOLEAN
  /\ answer \in Result
  /\ client \in [Client -> [st : {"new", "open", "mapped"}, id : Nat]]
  /\ buf \in [ConsoleId -> 0..MaxDraws]
  /\ fb \in [Chunk -> [id : ConsoleId, frame : 0..MaxDraws]]

Created(id) == addr[id] /\ ~ (main.pc = "flag" /\ main.id = id)
AllCreated  == \A id \in ConsoleId : Created(id)

-----------------------------------------------------------------------------
(* The main thread.                                                          *)

(* FactoryServer::dispatch for everything but a creation changes nothing.    *)
FactoryResult(label, op) ==
  IF label = "factory" /\ op # 0 THEN "einval" ELSE "ok"

FactoryDispatch ==
  /\ main.pc = "serve"
  /\ \E label \in {"meta", "factory", "other"}, op \in 0..1 :
       /\ ~ (label = "factory" /\ op = 0)
       /\ answer' = FactoryResult(label, op)
  /\ UNCHANGED <<idCtrl, addr, main, clientVars, alive, active, overrun>>

(* new ConsoleAlt1(id_ctrl++, _fb)                                           *)
CreateNoIncrement(c) ==
  /\ main.pc = "serve" /\ idCtrl < MaxCreations
  /\ main' = [pc |-> "alloc", id |-> idCtrl, for |-> c] /\ answer' = "none"
  /\ UNCHANGED <<idCtrl, addr, clientVars, alive, active, overrun>>

FactoryCreate(c) ==
  /\ main.pc = "serve" /\ idCtrl < MaxCreations
  /\ main' = [pc |-> "alloc", id |-> idCtrl, for |-> c] /\ answer' = "none"
  /\ idCtrl' = idCtrl + 1
  /\ UNCHANGED <<addr, clientVars, alive, active, overrun>>

(* get_ds: each of the three allocations exits the task when it fails.       *)
Allocate ==
  /\ main.pc = "alloc"
  /\ \/ main' = [main EXCEPT !.pc = "addr"] /\ UNCHANGED alive
     \/ alive' = FALSE /\ UNCHANGED main
  /\ UNCHANGED <<idCtrl, addr, answer, clientVars, active, overrun>>

(* For an id that consoles[] does not have the two writes below change none  *)
(* of its elements, but what lies behind it.                                 *)
SetAddr ==
  /\ main.pc = "addr"
  /\ addr' = [id \in ConsoleId |-> addr[id] \/ id = main.id]
  /\ overrun' = (overrun \/ main.id \notin ConsoleId)
  /\ main' = [main EXCEPT !.pc = "flag"]
  /\ UNCHANGED <<idCtrl, answer, clientVars, alive, active>>

SetAllActive ==
  /\ main.pc = "flag"
  /\ active' = [id \in ConsoleId |-> id = main.id \/ active[id]]
  /\ main' = [main EXCEPT !.pc = "reply"]
  /\ UNCHANGED <<idCtrl, addr, answer, clientVars, alive, overrun>>

SetActive ==
  /\ main.pc = "flag"
  /\ active' = [id \in ConsoleId |-> IF id = main.id THEN id = 0 ELSE active[id]]
  /\ main' = [main EXCEPT !.pc = "reply"]
  /\ UNCHANGED <<idCtrl, addr, answer, clientVars, alive, overrun>>

(* register_obj, and the reply with the new object's capability.             *)
ReplyConsole ==
  /\ main.pc = "reply"
  /\ client' = [client EXCEPT ![main.for] = [st |-> "open", id |-> main.id]]
  /\ answer' = "ok"
  /\ main' = [main EXCEPT !.pc = "serve"]
  /\ UNCHANGED <<idCtrl, addr, buf, alive, active, overrun>>

(* ConsoleAlt1::dispatch                                                     *)
GoosOp == {"view_info", "info", "get_buffer", "view_refresh", "other"}

GoosResult(label, op, idx) ==
  CASE label # "goos"                      -> {"ebadproto"}
    [] label = "goos" /\ op = "other"      -> {"enosys"}
    [] label = "goos" /\ op = "info"       -> {"ok"}
    [] label = "goos" /\ op \in {"view_info", "get_buffer", "view_refresh"} ->
         IF idx # 0 THEN {"erange"}
         ELSE IF op = "view_refresh" THEN {"ok", "enosys"}  \* Goos_svr::refresh
         ELSE {"ok"}

GoosDispatch(c) ==
  /\ main.pc = "serve" /\ client[c].st # "new"
  /\ \E label \in {"goos", "strange"}, op \in GoosOp, idx \in 0..1 :
       /\ answer' \in GoosResult(label, op, idx)
       /\ client' = [client EXCEPT ![c].st =
                       IF op = "get_buffer" /\ answer' = "ok" THEN "mapped" ELSE @]
  /\ UNCHANGED <<idCtrl, addr, main, buf, alive, active, overrun>>

MainThread ==
  /\ alive
  /\ \/ Allocate \/ SetAddr \/ SetActive \/ ReplyConsole \/ FactoryDispatch
     \/ \E c \in Client : FactoryCreate(c) \/ GoosDispatch(c)
  /\ UNCHANGED <<sw, toggles, refreshVars, early>>

-----------------------------------------------------------------------------
(* A client that has mapped its console's memory draws into it; of interest  *)
(* is the memory that the refresh thread may copy.                           *)

Draw ==
  /\ \E c \in Client :
       /\ client[c].st = "mapped" /\ client[c].id \in ConsoleId
       /\ buf[client[c].id] < MaxDraws
       /\ buf' = [buf EXCEPT ![client[c].id] = @ + 1]
  /\ UNCHANGED <<switchVars, serverVars, refreshVars, client, alive, early, overrun>>

-----------------------------------------------------------------------------
(* The switch thread; the keyboard's replies are arbitrary.                  *)

Awake == alive /\ Cardinality({id \in ConsoleId : Created(id)}) >= EarlyConsoles

(* The capability of the keyboard; exit(1) if there is none.                 *)
GetKeyboard ==
  /\ sw.pc = "start"
  /\ \/ Goto("poll") /\ UNCHANGED alive
     \/ alive' = FALSE /\ UNCHANGED sw
  /\ UNCHANGED <<active, toggles>>

PollKeyboard == sw.pc = "poll" /\ Goto("wait") /\ UNCHANGED <<active, toggles, alive>>

(* The call fails: exit(1).                                                  *)
KeyboardError == /\ sw.pc = "wait" /\ alive' = FALSE
                 /\ UNCHANGED switchVars

KeyboardReply == /\ \E codes \in SUBSET {TAB, UP_1} : Decode(codes)
                 /\ toggles' <= MaxToggles
                 /\ UNCHANGED alive

SwitchThread ==
  /\ Awake
  /\ \/ GetKeyboard \/ PollKeyboard \/ KeyboardError \/ KeyboardReply
     \/ Toggle /\ UNCHANGED alive
  /\ early' = (early \/ (toggles' > toggles /\ ~ AllCreated))
  /\ UNCHANGED <<serverVars, clientVars, refreshVars, overrun>>

-----------------------------------------------------------------------------
(* The refresh thread.                                                       *)

PickFirst ==
  /\ refresh.pc \in {"sleep", "pick"}
  /\ refresh' = [pc |-> "copy", id |-> 0, left |-> Chunk]
  /\ UNCHANGED fb

PickScan ==
  /\ refresh.pc \in {"sleep", "pick"}
  /\ refresh' = [pc |-> "copy", id |-> IF active[0] THEN 0 ELSE IF active[1] THEN 1 ELSE 2,
                 left |-> Chunk]
  /\ UNCHANGED fb

Pick ==
  /\ refresh.pc \in {"sleep", "pick"}
  /\ refresh' = [pc |-> "copy", id |-> IF active[0] THEN 0 ELSE 1,
                 left |-> Chunk]
  /\ UNCHANGED fb

(* memcpy(_fb_addr, consoles[id].addr, _fb_size); a page fault at NULL ends  *)
(* the thread.                                                               *)
Copy ==
  /\ refresh.pc = "copy" /\ refresh.left # {} /\ addr[refresh.id]
  /\ \E k \in refresh.left :
       /\ fb' = [fb EXCEPT ![k] = [id |-> refresh.id, frame |-> buf[refresh.id]]]
       /\ refresh' = [refresh EXCEPT !.left = @ \ {k}]

CopyFaults ==
  /\ refresh.pc = "copy" /\ ~ addr[refresh.id]
  /\ refresh' = [refresh EXCEPT !.pc = "fault"]
  /\ UNCHANGED fb

CopyDone ==
  /\ refresh.pc = "copy" /\ refresh.left = {}
  /\ refresh' = [refresh EXCEPT !.pc = "pick"]
  /\ UNCHANGED fb

RefreshThread ==
  /\ Awake
  /\ Pick \/ Copy \/ CopyFaults \/ CopyDone
  /\ UNCHANGED <<switchVars, serverVars, clientVars, alive, early, overrun>>

-----------------------------------------------------------------------------
Init ==
  /\ SwitchInit
  /\ idCtrl = 0 /\ addr = [id \in ConsoleId |-> FALSE]
  /\ \E c \in Client : main = [pc |-> "serve", id |-> 0, for |-> c]
  /\ refresh = [pc |-> "sleep", id |-> 0, left |-> {}]
  /\ alive = TRUE /\ early = FALSE /\ overrun = FALSE
  /\ answer = "none" /\ client = [c \in Client |-> [st |-> "new", id |-> 0]]
  /\ buf = [id \in ConsoleId |-> 0] /\ fb = [k \in Chunk |-> Blank]

Next == MainThread \/ Draw \/ SwitchThread \/ RefreshThread

Spec == Init /\ [][Next]_vars

(* The kernel schedules every runnable thread.                               *)
FairSpec == Spec /\ WF_vars(RefreshThread) /\ WF_vars(SwitchThread)

-----------------------------------------------------------------------------
(* Properties.                                                               *)

(* No two clients are given the same console, whoever creates how many; and  *)
(* each console that a client has is an element of consoles[NUM_CONSOLES],   *)
(* with memory of its own, unless get_ds has written beyond it.              *)
OwnConsole ==
  /\ \A c, d \in Client :
       client[c].st # "new" /\ client[d].st # "new" /\ c # d =>
         client[c].id # client[d].id
  /\ \A c \in Client :
       client[c].st # "new" /\ ~ overrun =>
         client[c].id \in ConsoleId /\ addr[client[c].id]

Settled == sw.pc \in {"start", "poll", "wait"}

(* Once both consoles exist, and unless TAB was used before or get_ds wrote  *)
(* beyond consoles[], exactly one is active whenever no switch is under way, *)
(* and it is the one the number of switches says: get_ds and the switch      *)
(* thread do not undo each other.                                            *)
OneActive ==
  AllCreated /\ ~ early /\ ~ overrun /\ Settled =>
    \A id \in ConsoleId : active[id] <=> (toggles % 2 = id)

(* Both flags FALSE with both consoles created: switch_loop has no branch    *)
(* for it, and no TAB leads out of it.                                       *)
Wedged == /\ AllCreated /\ \A id \in ConsoleId : ~ active[id]
          /\ sw.pc \in {"start", "poll", "wait", "test0", "test1"}

(* Only a TAB used before console 1 existed leads there, or makes the        *)
(* refresh thread read from memory that is not attached; or a write beyond   *)
(* consoles[].                                                               *)
HarmOnlyIfEarly == refresh.pc = "fault" \/ Wedged => early \/ overrun

(* If one console stays the active one, the screen comes to show its last    *)
(* frame, all of it, and keeps showing it.                                   *)
ActiveIsShown ==
  \A id \in ConsoleId :
    <>[](alive /\ AllCreated /\ ~ early /\ ~ overrun /\ active[id] /\ ~ active[1 - id])
      => <>[](\A k \in Chunk : fb[k] = [id |-> id, frame |-> buf[id]])
=============================================================================
