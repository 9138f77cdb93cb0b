----------------------------- MODULE SwitchLoop -----------------------------
(* The thread of the console server that runs switch_loop(),                 *)
(* rm_consoleAlt1/server/src/consoleCtrl.cc: it polls the keyboard and, when *)
(* TAB is newly pressed, makes the other console the active one.  The two    *)
(* active flags are shared with the factory and the refresh thread and are   *)
(* read and written one at a time; each access is a step.                    *)
(*                                                                           *)
(* The module is composed with the keyboard in TabSwitch and with the rest   *)
(* of the console server in Console; each supplies the replies.              *)
EXTENDS Keys

ConsoleId == 0..1            \* consoles[NUM_CONSOLES]

VARIABLES active,            \* consoles[id].active
          sw,                \* the thread: pc, and last_tab
          toggles            \* history: switches begun

switchVars == <<active, sw, toggles>>

SwitchPC == {"start", "poll", "wait", "test0", "off0", "on1", "test1", "on0", "off1"}

SwitchTypeOK ==
  /\ active \in [ConsoleId -> BOOLEAN]
  /\ sw \in [pc : SwitchPC, lastTab : BOOLEAN]
  /\ toggles \in Nat

SwitchInit == /\ active = [id \in ConsoleId |-> FALSE]
              /\ sw = [pc |-> "start", lastTab |-> FALSE]
              /\ toggles = 0

Goto(l) == sw' = [sw EXCEPT !.pc = l]
Set(id, b) == active' = [active EXCEPT ![id] = b]

(* The reply is decoded into the set of its codes.  TAB switches unless the  *)
(* last reply had it too; last_tab becomes whether this one has it, FALSE    *)
(* for an empty reply as well.                                               *)
DecodeNoLast(codes) ==
  /\ sw.pc = "wait"
  /\ sw' = [pc |-> IF TAB \in codes THEN "test0" ELSE "poll",
            lastTab |-> TAB \in codes]
  /\ toggles' = IF TAB \in codes THEN toggles + 1 ELSE toggles
  /\ UNCHANGED active

Decode(codes) ==
  /\ sw.pc = "wait"
  /\ LET switch == TAB \in codes /\ ~ sw.lastTab IN
     /\ sw' = [pc |-> IF switch THEN "test0" ELSE "poll",
               lastTab |-> TAB \in codes]
     /\ toggles' = IF switch THEN toggles + 1 ELSE toggles
  /\ UNCHANGED active

(* if( consoles[0].active ) ... else if( consoles[1].active ) ...            *)
Test0 == /\ sw.pc = "test0" /\ Goto(IF active[0] THEN "off0" ELSE "test1")
         /\ UNCHANGED active
Off0  == sw.pc = "off0" /\ Set(0, FALSE) /\ Goto("on1")
On1Forgotten == sw.pc = "on1" /\ Goto("poll") /\ UNCHANGED active
On1   == sw.pc = "on1" /\ Set(1, TRUE) /\ Goto("poll")
Test1 == /\ sw.pc = "test1" /\ Goto(IF active[1] THEN "on0" ELSE "poll")
         /\ UNCHANGED active
On0   == sw.pc = "on0" /\ Set(0, TRUE) /\ Goto("off1")
Off1  == sw.pc = "off1" /\ Set(1, FALSE) /\ Goto("poll")

Toggle == /\ Test0 \/ Off0 \/ On1 \/ Test1 \/ On0 \/ Off1
          /\ UNCHANGED toggles
=============================================================================
