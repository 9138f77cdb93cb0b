------------------------------ MODULE SigProofs ------------------------------
(* Theorems about the signal backend, for all times that the program uses,   *)
(* every stack size and every number of calls.                               *)
EXTENDS Sig, SequenceTheorems, TLAPS

(* The handler thread owes its reply between taking a message and waiting    *)
(* again, while the main thread is blocked; a handler that returns has a     *)
(* frame to return to.                                                       *)
ReplyInv ==
  /\ hnd.reply => hnd.pc \in {"timeout", "clear"} /\ app.blocked \in {"ping", "exc"}
  /\ app.blocked = "exc" /\ app.kind = "return" /\ ~ hnd.reply => app.stack # <<>>

(* Without a race, setitimer() is interrupted by the timer's own exception   *)
(* only, until the handler thread reloads; no signal's frame holds a copy    *)
(* under way; a reload stores the interval it has loaded; and a copy that    *)
(* has stored the value leaves the timer running.                            *)
TimerInv ==
  ~ raced =>
    /\ ~ Storing(app.stack)
    /\ app.ctx.pc = "store" /\ ~ Running => hnd.pc = "reload"
    /\ hnd.pc = "store" => app.ctx.pc # "store" /\ hnd.loaded = it_interval
    /\ app.ctx.pc = "store" /\ "value" \notin app.ctx.left /\ armed => it_value # 0
    /\ app.ctx.pc # "store" /\ armed /\ it_interval # 0 => it_value # 0

HandlerType == [pc : {"timeout", "clear", "wait", "error", "reload", "store",
                       "fault"},
                till : Nat \cup {Never}, loaded : Nat, alarm : BOOLEAN,
                reply : BOOLEAN]
MainType    == [blocked : {"no", "ping", "exc", "hung"},
                kind : {"trigger", "return", "fault"}, ctx : Context,
                stack : Seq(Context), pending : BOOLEAN]

-----------------------------------------------------------------------------
(* Typing.                                                                   *)

LEMMA Contexts == Program \in Context /\ Calling \in Context
                  /\ Program.pc = "run" /\ Calling.pc = "call"
BY DEF Program, Calling, Context

LEMMA MainKeepsType == TypeOK /\ MainThread => TypeOK'
<1> SUFFICES ASSUME TypeOK, MainThread PROVE TypeOK'
  OBVIOUS
<1>0. /\ UNCHANGED <<clock, hnd>> /\ app \in MainType /\ Len(app.stack) <= Room
      /\ alarm_timeout \in Nat /\ it_value \in Nat /\ it_interval \in Nat
      /\ clock \in Nat /\ handlers \in SUBSET Signal /\ calls \in 0..MaxCalls
      /\ asked \in Nat /\ cut \in BOOLEAN /\ armed \in BOOLEAN /\ raced \in BOOLEAN
  BY DEF MainThread, TypeOK, MainType
<1> DEFINE Typed == /\ app' \in MainType /\ app'.stack = app.stack
                    /\ alarm_timeout' \in Nat /\ it_value' \in Nat /\ it_interval' \in Nat
                    /\ handlers' \in SUBSET Signal /\ calls' \in 0..MaxCalls
                    /\ asked' \in Nat /\ cut' \in BOOLEAN
                    /\ armed' \in BOOLEAN /\ raced' \in BOOLEAN
<1>1. SUFFICES Typed
  BY <1>0 DEF TypeOK, MainType
<1>2. Called => calls' \in 0..MaxCalls
  BY <1>0, SigAssumption DEF Called
<1>3. ASSUME NEW c \in Context
      PROVE  [app EXCEPT !.ctx = c] \in MainType
             /\ [app EXCEPT !.ctx = c].stack = app.stack
  BY <1>0 DEF MainType
<1>4. ASSUME NEW s \in Seconds, Alarm(s) PROVE Typed
  <2>1. clock + s \in Nat
    BY <1>0, SigAssumption
  <2> QED BY <1>0, <1>2, <1>3, <1>4, <2>1, Contexts DEF Alarm
<1>5. ASSUME NEW v \in Times, NEW i \in Times, SetTimer(v, i) PROVE Typed
  <2>1. [pc |-> "store", left |-> Field, v |-> v, i |-> i] \in Context
    BY SigAssumption DEF Context
  <2>2. raced' \in BOOLEAN
    BY <1>5 DEF SetTimer
  <2> QED BY <1>0, <1>2, <1>3, <1>5, <2>1, <2>2 DEF SetTimer, timerVars
<1>6. ASSUME NEW f \in Field, StoreField(f) PROVE Typed
  <2>1. /\ app.ctx \in Context /\ app.ctx.v \in Nat /\ app.ctx.i \in Nat
        /\ [app.ctx EXCEPT !.left = @ \ {f}] \in Context
    BY <1>0 DEF MainType, Context
  <2>2. app' \in MainType /\ app'.stack = app.stack
    <3>1. CASE app.ctx.left = {f}
      BY <1>0, <1>3, <1>6, <3>1, Contexts DEF StoreField, MainType
    <3>2. CASE app.ctx.left # {f}
      BY <1>0, <1>3, <1>6, <2>1, <3>2 DEF StoreField, MainType
    <3> QED BY <3>1, <3>2
  <2>3. armed' \in BOOLEAN
    BY <1>0, <1>6 DEF StoreField
  <2>4. it_value' \in Nat /\ it_interval' \in Nat
    BY <1>0, <1>6, <2>1 DEF StoreField
  <2>5. UNCHANGED <<alarm_timeout, handlers, calls, asked, cut, raced>>
    BY <1>6 DEF StoreField
  <2> QED BY <1>0, <2>2, <2>3, <2>4, <2>5
<1>7. CASE GetTimer
  BY <1>0, <1>2, <1>3, <1>7, Contexts DEF GetTimer, timerVars
<1>8. CASE Ping
  <2>1. app' \in MainType /\ app'.stack = app.stack
    BY <1>0, <1>8, Contexts DEF Ping, MainType
  <2> QED BY <1>0, <1>8, <2>1 DEF Ping, timerVars, historyVars
<1>9. CASE SetHandler
  BY <1>0, <1>9 DEF SetHandler, timerVars, historyVars
<1>10. CASE HandlerReturns
  BY <1>0, <1>10 DEF HandlerReturns, Raise, MainType, timerVars, historyVars
<1>11. CASE Fault
  BY <1>0, <1>2, <1>11 DEF Fault, Raise, MainType, timerVars
<1> QED BY <1>4, <1>5, <1>6, <1>7, <1>8, <1>9, <1>10, <1>11 DEF MainThread

(* What handle_exception() does to the main thread's stack of frames, and    *)
(* when it owes a reply.                                                     *)
LEMMA ExceptionFrames ==
  ASSUME TypeOK, ReplyInv, HandleException
  PROVE  /\ app' \in MainType /\ Len(app'.stack) <= Room
         /\ app'.blocked \in {"exc", "hung"}
         /\ hnd' \in HandlerType /\ hnd'.pc \in {"timeout", "fault"}
         /\ hnd'.reply => hnd'.pc = "timeout" /\ app'.blocked = "exc"
         /\ app'.blocked = "exc" => hnd'.reply \/ app' = app
         /\ \/ app'.stack = app.stack /\ app'.ctx = app.ctx
            \/ app'.stack = Append(app.stack, app.ctx) /\ app'.ctx = Program
            \/ /\ app.stack # <<>> /\ app'.ctx = app.stack[Len(app.stack)]
               /\ app'.stack = SubSeq(app.stack, 1, Len(app.stack) - 1)
<1> DEFINE Goal == /\ app' \in MainType /\ Len(app'.stack) <= Room
                   /\ app'.blocked \in {"exc", "hung"}
                   /\ hnd' \in HandlerType /\ hnd'.pc \in {"timeout", "fault"}
                   /\ hnd'.reply => hnd'.pc = "timeout" /\ app'.blocked = "exc"
                   /\ app'.blocked = "exc" => hnd'.reply \/ app' = app
                   /\ \/ app'.stack = app.stack /\ app'.ctx = app.ctx
                      \/ app'.stack = Append(app.stack, app.ctx) /\ app'.ctx = Program
                      \/ /\ app.stack # <<>> /\ app'.ctx = app.stack[Len(app.stack)]
                         /\ app'.stack = SubSeq(app.stack, 1, Len(app.stack) - 1)
<1>0. /\ app \in MainType /\ Len(app.stack) <= Room /\ app.stack \in Seq(Context)
      /\ app.ctx \in Context /\ app.blocked = "exc" /\ hnd.pc = "wait"
      /\ hnd \in HandlerType /\ ~ hnd.reply
  BY DEF TypeOK, MainType, HandlerType, HandleException, ReplyInv
<1>1. SUFFICES Goal
  OBVIOUS
<1>2. ASSUME NEW a \in MainType, Reply(a)
      PROVE  /\ app' = a /\ hnd' \in HandlerType /\ hnd'.pc = "timeout" /\ hnd'.reply
  BY <1>0, <1>2 DEF Reply, HandlerType
<1>3. CASE NoReply
  BY <1>0, <1>3 DEF NoReply, HandlerType, MainType
<1>4. ASSUME NEW sig, Enter(sig) PROVE Goal
  <2>1. CASE ~ (sig \in handlers /\ Len(app.stack) < Room)
    BY <1>3, <1>4, <2>1 DEF Enter
  <2>2. CASE hnd' = [hnd EXCEPT !.pc = "fault"] /\ UNCHANGED app
    BY <1>0, <2>2 DEF HandlerType
  <2> DEFINE a == [app EXCEPT !.ctx = Program, !.stack = Append(@, app.ctx)]
  <2>3. CASE Len(app.stack) < Room /\ Reply(a)
    <3>1. Append(app.stack, app.ctx) \in Seq(Context)
          /\ Len(Append(app.stack, app.ctx)) = Len(app.stack) + 1
      BY <1>0
    <3>2. Len(app.stack) + 1 <= Room
      BY <1>0, <2>3, SigAssumption
    <3>3. /\ a \in MainType /\ a.blocked = "exc" /\ a.ctx = Program
          /\ a.stack = Append(app.stack, app.ctx)
      BY <1>0, <3>1, Contexts DEF MainType
    <3> HIDE DEF a
    <3> QED BY <1>2, <2>3, <3>1, <3>2, <3>3
  <2> QED BY <1>4, <2>1, <2>2, <2>3 DEF Enter
<1>5. CASE app.kind = "return" /\ Return
  <2> DEFINE a == [app EXCEPT !.ctx = app.stack[Len(app.stack)],
                              !.stack = SubSeq(@, 1, Len(@) - 1)]
  <2>1. CASE Reply(a)
    <3>1. app.stack # <<>>
      BY <1>0, <1>5 DEF ReplyInv
    <3>2. app.stack[Len(app.stack)] \in Context /\ Len(app.stack) \in Nat \ {0}
      BY <1>0, <3>1
    <3>3. /\ SubSeq(app.stack, 1, Len(app.stack) - 1) \in Seq(Context)
          /\ Len(SubSeq(app.stack, 1, Len(app.stack) - 1)) = Len(app.stack) - 1
      <4>1. \A i \in 1..(Len(app.stack) - 1) : app.stack[i] \in Context
        BY <1>0
      <4> QED BY <1>0, <3>2, <4>1, SubSeqProperties
    <3>4. Len(app.stack) - 1 <= Room
      BY <1>0, <3>2, SigAssumption
    <3>5. /\ a \in MainType /\ a.blocked = "exc" /\ a.ctx = app.stack[Len(app.stack)]
          /\ a.stack = SubSeq(app.stack, 1, Len(app.stack) - 1)
      BY <1>0, <3>2, <3>3 DEF MainType
    <3> HIDE DEF a
    <3> QED BY <1>2, <2>1, <3>1, <3>3, <3>4, <3>5
  <2> QED BY <1>3, <1>5, <2>1 DEF Return
<1> HIDE DEF Goal
<1> QED BY <1>4, <1>5 DEF HandleException

LEMMA WaitType ==
  ASSUME TypeOK, NEW till \in Nat \cup {Never}, NEW alarm \in BOOLEAN, Wait(till, alarm)
  PROVE  /\ hnd' \in HandlerType /\ app' \in MainType /\ app'.stack = app.stack
         /\ hnd'.pc = "wait" /\ ~ hnd'.reply /\ app'.ctx = app.ctx
         /\ hnd.reply \/ app' = app
         /\ app'.kind = app.kind \/ app'.kind = "trigger"
BY DEF Wait, Resumed, TypeOK, HandlerType, MainType

LEMMA HandlerKeepsType == TypeOK /\ ReplyInv /\ HandlerThread => TypeOK'
<1> SUFFICES ASSUME TypeOK, ReplyInv, HandlerThread PROVE TypeOK'
  OBVIOUS
<1>0. /\ UNCHANGED <<clock, handlers>> /\ app \in MainType /\ hnd \in HandlerType
      /\ Len(app.stack) <= Room /\ clock \in Nat /\ handlers \in SUBSET Signal
      /\ alarm_timeout \in Nat /\ it_value \in Nat /\ it_interval \in Nat
      /\ calls \in 0..MaxCalls
      /\ asked \in Nat /\ cut \in BOOLEAN /\ armed \in BOOLEAN /\ raced \in BOOLEAN
  BY DEF HandlerThread, TypeOK, MainType, HandlerType
<1> DEFINE Typed == /\ app' \in MainType /\ Len(app'.stack) <= Room /\ hnd' \in HandlerType
                    /\ alarm_timeout' \in Nat /\ it_value' \in Nat /\ it_interval' \in Nat
                    /\ calls' \in 0..MaxCalls
                    /\ asked' \in Nat /\ cut' \in BOOLEAN
                    /\ armed' \in BOOLEAN /\ raced' \in BOOLEAN
<1>1. SUFFICES Typed
  BY <1>0 DEF TypeOK, MainType, HandlerType
<1>2. CASE Timeout
  <2>1. UNCHANGED <<timerVars, historyVars>>
    BY <1>2 DEF Timeout
  <2>2. CASE alarm_timeout # 0
    BY <1>0, <1>2, <2>1, <2>2 DEF Timeout, HandlerType, timerVars, historyVars
  <2>3. CASE alarm_timeout = 0
    <3>1. Wait(IF it_value = 0 THEN Never ELSE clock + it_value, FALSE)
      BY <1>2, <2>3 DEF Timeout
    <3>2. (IF it_value = 0 THEN Never ELSE clock + it_value) \in Nat \cup {Never}
      BY <1>0
    <3> QED BY <1>0, <2>1, <3>1, <3>2, WaitType DEF timerVars, historyVars
  <2> QED BY <2>2, <2>3
<1>3. CASE Clear
  <2>1. Wait(hnd.till, TRUE) /\ hnd.till \in Nat \cup {Never}
    BY <1>0, <1>3 DEF Clear, HandlerType
  <2> QED BY <1>0, <1>3, <2>1, WaitType DEF Clear, historyVars
<1>4. CASE DispatchPing
  <2>1. cut' \in BOOLEAN
    BY <1>0, <1>4 DEF DispatchPing, Forget
  <2> QED BY <1>0, <1>4, <2>1 DEF DispatchPing, HandlerType, timerVars
<1>5. CASE HandleException
  <2>1. cut' \in BOOLEAN
    BY <1>0, <1>5 DEF HandleException, Forget
  <2> QED BY <1>0, <1>5, <2>1, ExceptionFrames DEF HandleException, timerVars
<1>6. CASE Expire
  BY <1>0, <1>6 DEF Expire, HandlerType, timerVars
<1>7. CASE Trigger
  <2>1. app' \in MainType /\ app'.stack = app.stack
    BY <1>0, <1>7 DEF Trigger, Running, MainType
  <2> QED BY <1>0, <1>7, <2>1 DEF Trigger, HandlerType, timerVars
<1>8. CASE ReloadLoad
  <2>1. raced' \in BOOLEAN
    BY <1>0, <1>8 DEF ReloadLoad, Overlaps
  <2> QED BY <1>0, <1>8, <2>1 DEF ReloadLoad, HandlerType, timerVars
<1>9. CASE ReloadStore
  <2>1. raced' \in BOOLEAN
    BY <1>0, <1>9 DEF ReloadStore, Overlaps
  <2> QED BY <1>0, <1>9, <2>1 DEF ReloadStore, HandlerType
<1> QED BY <1>2, <1>3, <1>4, <1>5, <1>6, <1>7, <1>8, <1>9 DEF HandlerThread

-----------------------------------------------------------------------------
(* The handler thread's replies.                                             *)

LEMMA ReplyStep == TypeOK /\ ReplyInv /\ [Next]_vars => ReplyInv'
<1> SUFFICES ASSUME TypeOK, ReplyInv, [Next]_vars PROVE ReplyInv'
  OBVIOUS
<1>0. app \in MainType /\ hnd \in HandlerType
  BY DEF TypeOK, MainType, HandlerType
<1>1. CASE UNCHANGED <<app, hnd>>
  BY <1>1 DEF ReplyInv
<1>2. CASE MainThread
  <2>0. UNCHANGED hnd
    BY <1>2 DEF MainThread
  <2>1. CASE HandlerReturns
    BY <1>0, <2>0, <2>1 DEF HandlerReturns, Raise, InProgram, Running, ReplyInv, MainType
  <2>2. CASE Fault
    BY <1>0, <2>0, <2>2 DEF Fault, Raise, InProgram, Running, ReplyInv, MainType
  <2>3. CASE SetHandler
    BY <2>0, <2>3 DEF SetHandler, ReplyInv
  <2>4. CASE ~ (HandlerReturns \/ Fault \/ SetHandler)
    <3>1. Running /\ app'.blocked \in {"no", "ping"}
      BY <1>0, <1>2, <2>4
      DEF MainThread, Alarm, SetTimer, StoreField, GetTimer, Ping, InProgram, Running, MainType
    <3>2. ~ hnd.reply
      BY <3>1 DEF Running, ReplyInv
    <3> QED BY <2>0, <3>1, <3>2 DEF ReplyInv
  <2> QED BY <2>1, <2>2, <2>3, <2>4
<1>3. CASE HandlerThread
  <2>1. ASSUME NEW till \in Nat \cup {Never}, NEW alarm \in BOOLEAN, Wait(till, alarm)
        PROVE  ReplyInv'
    <3>1. /\ ~ hnd'.reply /\ app'.stack = app.stack
          /\ hnd.reply \/ app' = app
          /\ app'.kind = app.kind \/ app'.kind = "trigger"
      BY <2>1, WaitType
    <3>2. hnd.reply => app'.blocked = "no" \/ app'.kind = "trigger"
      BY <1>0, <2>1 DEF Wait, Resumed, MainType
    <3> QED BY <3>1, <3>2 DEF ReplyInv
  <2>2. CASE Timeout
    <3>1. CASE alarm_timeout # 0
      BY <1>0, <2>2, <3>1 DEF Timeout, ReplyInv, HandlerType
    <3>2. CASE alarm_timeout = 0
      <4>1. Wait(IF it_value = 0 THEN Never ELSE clock + it_value, FALSE)
        BY <2>2, <3>2 DEF Timeout
      <4>2. (IF it_value = 0 THEN Never ELSE clock + it_value) \in Nat \cup {Never}
        BY DEF TypeOK
      <4> QED BY <2>1, <4>1, <4>2
    <3> QED BY <3>1, <3>2
  <2>3. CASE Clear
    BY <1>0, <2>1, <2>3 DEF Clear, HandlerType
  <2>4. CASE DispatchPing
    BY <1>0, <2>4 DEF DispatchPing, ReplyInv, HandlerType
  <2>5. CASE HandleException
    <3>1. /\ hnd'.reply => hnd'.pc = "timeout" /\ app'.blocked = "exc"
          /\ app'.blocked \in {"exc", "hung"}
          /\ app'.blocked = "exc" => hnd'.reply \/ app' = app
      BY <2>5, ExceptionFrames
    <3>2. ~ hnd.reply
      BY <2>5 DEF HandleException, ReplyInv
    <3> QED BY <3>1, <3>2 DEF ReplyInv
  <2>6. CASE Trigger
    BY <1>0, <2>6 DEF Trigger, Running, ReplyInv, HandlerType, MainType
  <2>7. CASE Expire \/ ReloadLoad \/ ReloadStore
    BY <1>0, <2>7 DEF Expire, ReloadLoad, ReloadStore, ReplyInv, HandlerType
  <2> QED BY <1>3, <2>2, <2>3, <2>4, <2>5, <2>6, <2>7 DEF HandlerThread
<1> QED BY <1>1, <1>2, <1>3 DEF Next, Tick, vars

(* The types of the signal backend's variables: the stack never holds more   *)
(* frames than it has room for, and a handler that returns finds its frame.  *)
THEOREM TypeCorrect == Spec => [](TypeOK /\ ReplyInv)
<1>1. Init => TypeOK /\ ReplyInv
  <2> SUFFICES ASSUME Init PROVE TypeOK /\ ReplyInv
    OBVIOUS
  <2>1. app \in MainType /\ Len(app.stack) = 0
    BY Contexts DEF Init, MainType
  <2>2. hnd \in HandlerType /\ 0 \in 0..MaxCalls
    BY SigAssumption DEF Init, HandlerType
  <2>4. /\ clock \in Nat /\ alarm_timeout \in Nat /\ it_value \in Nat /\ it_interval \in Nat
        /\ handlers \in SUBSET Signal /\ asked \in Nat /\ calls \in 0..MaxCalls
    BY <2>2 DEF Init
  <2>5. cut \in BOOLEAN /\ armed \in BOOLEAN /\ raced \in BOOLEAN
    BY DEF Init
  <2>6. Len(app.stack) <= Room
    BY <2>1, SigAssumption
  <2>3. TypeOK
    BY <2>1, <2>2, <2>4, <2>5, <2>6 DEF TypeOK, MainType, HandlerType
  <2> QED BY <2>3 DEF Init, ReplyInv
<1>2. TypeOK /\ ReplyInv /\ [Next]_vars => TypeOK' /\ ReplyInv'
  <2>1. TypeOK /\ UNCHANGED vars => TypeOK'
    BY DEF vars, timerVars, historyVars, TypeOK
  <2>2. TypeOK /\ Tick => TypeOK'
    BY DEF Tick, timerVars, historyVars, TypeOK
  <2> QED BY <2>1, <2>2, MainKeepsType, HandlerKeepsType, ReplyStep DEF Next
<1> QED BY <1>1, <1>2, PTL DEF Spec

-----------------------------------------------------------------------------
(* The interval timer.                                                       *)

LEMMA MainKeepsTimer == TypeOK /\ TimerInv /\ MainThread => TimerInv'
<1> SUFFICES ASSUME TypeOK, TimerInv, MainThread, ~ raced' PROVE TimerInv'
  BY DEF TimerInv
<1>0. /\ UNCHANGED hnd /\ app \in MainType /\ app.ctx \in Context /\ hnd \in HandlerType
  BY DEF MainThread, TypeOK, MainType, HandlerType
<1>1. ASSUME UNCHANGED <<it_value, it_interval, armed, raced>>,
             app'.stack = app.stack, app.ctx.pc # "store", app'.ctx.pc # "store"
      PROVE  TimerInv'
  BY <1>0, <1>1 DEF TimerInv
<1>2. ASSUME NEW s \in Seconds, Alarm(s) PROVE TimerInv'
  BY <1>0, <1>1, <1>2, Contexts DEF Alarm, InProgram, MainType
<1>3. ASSUME NEW v \in Times, NEW i \in Times, SetTimer(v, i) PROVE TimerInv'
  <2>1. /\ Running /\ app'.blocked = app.blocked /\ app'.stack = app.stack
        /\ app'.ctx.pc = "store" /\ app'.ctx.left = Field
        /\ hnd.pc \notin {"error", "reload", "store"} /\ ~ Storing(app.stack)
    BY <1>0, <1>3 DEF SetTimer, InProgram, MainType
  <2> QED BY <1>0, <2>1 DEF TimerInv, Running, Field
<1>4. ASSUME NEW f \in Field, StoreField(f) PROVE TimerInv'
  <2>1. /\ ~ raced /\ Running /\ app.ctx.pc = "store" /\ f \in app.ctx.left
        /\ app'.blocked = app.blocked /\ app'.stack = app.stack
        /\ app'.ctx = IF app.ctx.left = {f} THEN Calling
                      ELSE [app.ctx EXCEPT !.left = @ \ {f}]
    BY <1>0, <1>4 DEF StoreField, MainType
  <2>2. hnd.pc # "store" /\ Running' /\ ~ Storing(app'.stack)
    BY <2>1 DEF TimerInv, Running
  <2>3. "value" \notin app.ctx.left \ {f} /\ armed' => it_value' # 0
    <3>1. CASE f = "value"
      BY <1>4, <3>1 DEF StoreField
    <3>2. CASE f # "value"
      BY <1>4, <2>1, <3>2 DEF StoreField, TimerInv
    <3> QED BY <3>1, <3>2
  <2>4. CASE app.ctx.left = {f}
    <3>1. app'.ctx.pc # "store"
      BY <2>1, <2>4, Contexts
    <3> QED BY <1>0, <2>2, <2>3, <2>4, <3>1 DEF TimerInv
  <2>5. CASE app.ctx.left # {f}
    <3>1. app'.ctx.left = app.ctx.left \ {f} /\ app'.ctx.pc = "store"
      BY <1>0, <2>1, <2>5 DEF Context
    <3> QED BY <1>0, <2>2, <2>3, <3>1 DEF TimerInv
  <2> QED BY <2>4, <2>5
<1>5. CASE GetTimer
  BY <1>0, <1>1, <1>5, Contexts DEF GetTimer, InProgram, MainType, timerVars
<1>6. CASE Ping
  BY <1>0, <1>1, <1>6, Contexts DEF Ping, MainType, timerVars, historyVars
<1>7. CASE SetHandler
  BY <1>0, <1>1, <1>7 DEF SetHandler, InProgram, timerVars, historyVars
<1>8. CASE HandlerReturns \/ Fault
  BY <1>0, <1>1, <1>8
  DEF HandlerReturns, Fault, Raise, InProgram, MainType, timerVars, historyVars
<1> QED BY <1>2, <1>3, <1>4, <1>5, <1>6, <1>7, <1>8 DEF MainThread

LEMMA HandlerKeepsTimer ==
  TypeOK /\ ReplyInv /\ TimerInv /\ HandlerThread => TimerInv'
<1> SUFFICES ASSUME TypeOK, ReplyInv, TimerInv, HandlerThread, ~ raced' PROVE TimerInv'
  BY DEF TimerInv
<1>0. /\ app \in MainType /\ hnd \in HandlerType /\ app.stack \in Seq(Context)
      /\ app.ctx \in Context
  BY DEF TypeOK, MainType, HandlerType
<1>1. ASSUME NEW till \in Nat \cup {Never}, NEW alarm \in BOOLEAN, Wait(till, alarm),
             hnd.pc \in {"timeout", "clear"},
             UNCHANGED <<it_value, it_interval, armed, raced>>
      PROVE  TimerInv'
  <2>1. /\ app'.stack = app.stack /\ app'.ctx = app.ctx /\ hnd'.pc = "wait"
        /\ hnd.reply \/ app' = app
    BY <1>1, WaitType
  <2>2. hnd.reply => ~ Running
    BY DEF ReplyInv, Running
  <2> QED BY <1>1, <2>1, <2>2 DEF TimerInv, Running
<1>2. CASE Timeout
  <2>1. UNCHANGED <<it_value, it_interval, armed, raced>> /\ hnd.pc = "timeout"
    BY <1>2 DEF Timeout, timerVars, historyVars
  <2>2. CASE alarm_timeout # 0
    <3>1. hnd'.pc = "clear" /\ app' = app
      BY <1>0, <1>2, <2>2 DEF Timeout, HandlerType
    <3> QED BY <2>1, <3>1 DEF TimerInv, Running
  <2>3. CASE alarm_timeout = 0
    <3>1. Wait(IF it_value = 0 THEN Never ELSE clock + it_value, FALSE)
      BY <1>2, <2>3 DEF Timeout
    <3>2. (IF it_value = 0 THEN Never ELSE clock + it_value) \in Nat \cup {Never}
      BY DEF TypeOK
    <3> QED BY <1>1, <2>1, <3>1, <3>2
  <2> QED BY <2>2, <2>3
<1>3. CASE Clear
  <2>1. UNCHANGED <<it_value, it_interval, armed, raced>> /\ hnd.pc = "clear"
        /\ Wait(hnd.till, TRUE) /\ hnd.till \in Nat \cup {Never}
    BY <1>0, <1>3 DEF Clear, HandlerType, historyVars
  <2> QED BY <1>1, <2>1
<1>4. CASE DispatchPing
  <2>1. /\ UNCHANGED <<app, it_value, it_interval, armed, raced>>
        /\ hnd.pc = "wait" /\ hnd'.pc = "timeout"
    BY <1>0, <1>4 DEF DispatchPing, timerVars, HandlerType
  <2> QED BY <2>1 DEF TimerInv, Running
<1>5. CASE HandleException
  <2>1. /\ UNCHANGED <<it_value, it_interval, armed, raced>>
        /\ hnd.pc = "wait" /\ hnd'.pc \in {"timeout", "fault"} /\ ~ Running
    BY <1>5, ExceptionFrames DEF HandleException, timerVars, Running
  <2>2. app.ctx.pc # "store" /\ ~ Storing(app.stack)
    BY <2>1 DEF TimerInv
  <2>3. app'.ctx.pc # "store" /\ ~ Storing(app'.stack)
    <3>1. CASE app'.stack = app.stack /\ app'.ctx = app.ctx
      BY <2>2, <3>1
    <3>2. CASE app'.stack = Append(app.stack, app.ctx) /\ app'.ctx = Program
      <4>1. \A k \in DOMAIN app'.stack :
               app'.stack[k] = app.ctx \/ (k \in DOMAIN app.stack /\ app'.stack[k] = app.stack[k])
        BY <1>0, <3>2
      <4> QED BY <2>2, <3>2, <4>1, Contexts DEF Storing
    <3>3. CASE /\ app.stack # <<>> /\ app'.ctx = app.stack[Len(app.stack)]
               /\ app'.stack = SubSeq(app.stack, 1, Len(app.stack) - 1)
      <4>1. Len(app.stack) \in DOMAIN app.stack
        BY <1>0, <3>3
      <4>2. /\ DOMAIN app'.stack = 1..(Len(app.stack) - 1)
            /\ \A k \in 1..(Len(app.stack) - 1) :
                 app'.stack[k] = app.stack[k] /\ k \in DOMAIN app.stack
        <5>1. \A k \in 1..(Len(app.stack) - 1) : app.stack[k] \in Context
          BY <1>0
        <5> QED BY <1>0, <3>3, <4>1, <5>1, SubSeqProperties
      <4> QED BY <2>2, <3>3, <4>1, <4>2 DEF Storing
    <3> QED BY <1>5, <3>1, <3>2, <3>3, ExceptionFrames
  <2> QED BY <2>1, <2>2, <2>3 DEF TimerInv
<1>6. CASE Expire
  <2>1. /\ UNCHANGED <<app, it_value, it_interval, armed, raced>>
        /\ hnd.pc = "wait" /\ hnd'.pc = "error"
    BY <1>0, <1>6 DEF Expire, timerVars, HandlerType
  <2> QED BY <2>1 DEF TimerInv, Running
<1>7. CASE Trigger
  <2>1. /\ UNCHANGED <<it_value, it_interval, armed, raced>>
        /\ hnd'.pc = "reload" /\ app'.ctx = app.ctx /\ app'.stack = app.stack
    BY <1>0, <1>7 DEF Trigger, timerVars, HandlerType, MainType
  <2> QED BY <2>1 DEF TimerInv
<1>8. CASE ReloadLoad
  <2>1. /\ UNCHANGED <<app, it_value, it_interval, armed>>
        /\ hnd'.pc = "store" /\ hnd'.loaded = it_interval
    BY <1>0, <1>8 DEF ReloadLoad, timerVars, HandlerType
  <2>2. ~ raced /\ app.ctx.pc # "store" /\ ~ Storing(app.stack)
    BY <1>8 DEF ReloadLoad, Overlaps
  <2> QED BY <2>1, <2>2 DEF TimerInv
<1>9. CASE ReloadStore
  <2>1. /\ UNCHANGED <<app, it_interval, armed>> /\ it_value' = hnd.loaded
        /\ hnd.pc = "store" /\ hnd'.pc = "timeout"
    BY <1>0, <1>9 DEF ReloadStore, HandlerType
  <2>2. ~ raced /\ app.ctx.pc # "store" /\ ~ Storing(app.stack)
    BY <1>9 DEF ReloadStore, Overlaps
  <2> QED BY <2>1, <2>2 DEF TimerInv
<1> QED BY <1>2, <1>3, <1>4, <1>5, <1>6, <1>7, <1>8, <1>9 DEF HandlerThread

LEMMA TimerStep == TypeOK /\ ReplyInv /\ TimerInv /\ [Next]_vars => TimerInv'
<1>1. TimerInv /\ UNCHANGED <<it_value, it_interval, hnd, app, armed, raced>> => TimerInv'
  BY DEF TimerInv, Running
<1> QED BY <1>1, MainKeepsTimer, HandlerKeepsTimer
        DEF Next, Tick, vars, timerVars, historyVars

(* A periodic timer is never switched off by what comes between: signals,    *)
(* alarms, faults and calls, in any order and nested to any depth, as long   *)
(* as setitimer() does not run into a reload or into itself.                 *)
THEOREM TimerKeepsRunning == Spec => []TimerSurvives
<1>1. Init => TimerInv
  BY Contexts DEF Init, TimerInv, Storing
<1>2. TimerInv => TimerSurvives
  BY DEF TimerInv, TimerSurvives
<1> QED BY <1>1, <1>2, TimerStep, TypeCorrect, PTL DEF Spec
=============================================================================
