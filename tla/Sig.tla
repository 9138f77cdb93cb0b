--------------------------------- MODULE Sig --------------------------------
(* Timers and signals, libc_backends/lib/sig/lib/sig.cc.  A thread of the    *)
(* library, the handler thread, runs a server loop.  It is the exception     *)
(* handler of the main thread, and its receive timeout is the timer: when it *)
(* runs out, the handler thread makes the main thread raise an exception,    *)
(* which comes back to it as a message and is answered with registers that   *)
(* let the main thread go on in the signal's handler.                        *)
(*                                                                           *)
(* alarm(), setitimer() and getitimer() run on the main thread.  They write  *)
(* variables that the handler thread reads and writes too, without a lock,   *)
(* and then call the handler thread with an empty message so that it waits   *)
(* anew.  The kernel (clock, IPC, ex_regs) and the program are external.     *)
EXTENDS Naturals, Sequences

CONSTANTS Never,       \* L4_IPC_NEVER
          Seconds,     \* what the program passes to alarm()
          Times,       \* and to setitimer(); 0 is no time
          Room,        \* signal frames that the main thread's stack can hold
          MaxClock,    \* bound: time
          MaxCalls     \* bound: calls and faults of the program

ASSUME SigAssumption ==
  /\ Never \notin Nat /\ Seconds \subseteq Nat /\ Times \subseteq Nat
  /\ Room \in Nat /\ MaxClock \in Nat /\ MaxCalls \in Nat

VARIABLES clock,
          alarm_timeout,             \* 0: none
          it_value, it_interval,     \* current_itimerval
          handlers,                  \* the signals with a handler in sigactions
          hnd,                       \* the handler thread
          app,                       \* the main thread
          calls,                     \* history: calls and faults so far
          asked,                     \* history: when alarm() is to fire, or 0
          cut,                       \* history: and what has kept it from that
          armed, raced      \* history of the timer, see the properties

timerVars   == <<alarm_timeout, it_value, it_interval>>
historyVars == <<calls, asked, cut, armed, raced>>
vars == <<clock, timerVars, handlers, hnd, app, historyVars>>

Signal == {"SIGALRM", "SIGSEGV"}
Field  == {"value", "interval"}

(* What the main thread executes: the program (or a handler), the stores of  *)
(* setitimer() that are left, or the call of ping_exc_handler().             *)
Context == [pc : {"run", "store", "call"}, left : SUBSET Field, v : Nat, i : Nat]
Program == [pc |-> "run", left |-> {}, v |-> 0, i |-> 0]
Calling == [Program EXCEPT !.pc = "call"]

TypeOK ==
  /\ clock \in Nat /\ alarm_timeout \in Nat
  /\ it_value \in Nat /\ it_interval \in Nat
  /\ handlers \in SUBSET Signal
  /\ hnd \in [pc : {"timeout", "clear", "wait", "error", "reload", "store",
                     "fault"},
              till : Nat \cup {Never}, loaded : Nat, alarm : BOOLEAN,
              reply : BOOLEAN]
  /\ app \in [blocked : {"no", "ping", "exc", "hung"},
              kind : {"trigger", "return", "fault"}, ctx : Context,
              stack : Seq(Context), pending : BOOLEAN]
  /\ Len(app.stack) <= Room
  /\ calls \in 0..MaxCalls /\ asked \in Nat /\ cut \in BOOLEAN
  /\ armed \in BOOLEAN /\ raced \in BOOLEAN

-----------------------------------------------------------------------------
(* The main thread.                                                          *)

Running == app.blocked = "no"
InProgram == Running /\ app.ctx.pc = "run"
Called == calls < MaxCalls /\ calls' = calls + 1

(* alarm(); its product in microseconds is exact up to 4294 seconds.         *)
Alarm(s) ==
  /\ InProgram /\ Called /\ clock + s <= MaxClock
  /\ alarm_timeout' = clock + s
  /\ asked' = clock + s /\ cut' = FALSE
  /\ app' = [app EXCEPT !.ctx = Calling]
  /\ UNCHANGED <<it_value, it_interval, handlers, armed, raced>>

Storing(s) == \E k \in DOMAIN s : s[k].pc = "store"

(* setitimer() of a valid time copies a structure, one word after another;   *)
(* another which or an invalid time is refused and changes nothing.          *)
SetTimer(v, i) ==
  /\ InProgram /\ Called
  /\ app' = [app EXCEPT !.ctx = [pc |-> "store", left |-> Field, v |-> v, i |-> i]]
  /\ raced' = (hnd.pc \in {"error", "reload", "store"} \/ Storing(app.stack))
  /\ UNCHANGED <<timerVars, handlers, asked, cut, armed>>

StoreField(f) ==
  /\ Running /\ app.ctx.pc = "store" /\ f \in app.ctx.left
  /\ it_value'    = IF f = "value" THEN app.ctx.v ELSE it_value
  /\ it_interval' = IF f = "interval" THEN app.ctx.i ELSE it_interval
  /\ LET ctx == IF app.ctx.left = {f} THEN Calling
                ELSE [app.ctx EXCEPT !.left = @ \ {f}]
     IN app' = [app EXCEPT !.ctx = ctx]
  /\ IF f = "value" THEN armed' = (app.ctx.v # 0)
     ELSE UNCHANGED <<armed>>
  /\ UNCHANGED <<alarm_timeout, handlers, calls, asked, cut, raced>>

(* getitimer() copies the structure and calls the handler thread as well. *)
GetTimer ==
  /\ InProgram /\ Called
  /\ app' = [app EXCEPT !.ctx = Calling]
  /\ UNCHANGED <<timerVars, handlers, asked, cut, armed, raced>>

(* ping_exc_handler() *)
Ping ==
  /\ Running /\ app.ctx.pc = "call"
  /\ app' = [app EXCEPT !.blocked = "ping", !.ctx = Program]
  /\ UNCHANGED <<timerVars, handlers, historyVars>>

(* signal(), sigaction() *)
SetHandler ==
  /\ InProgram
  /\ handlers' \in SUBSET Signal
  /\ UNCHANGED <<timerVars, app, historyVars>>

(* A handler returns to libc_be_sig_return_trap; the program faults.         *)
Raise(k) == app' = [app EXCEPT !.blocked = "exc", !.kind = k]

HandlerReturns == /\ InProgram /\ app.stack # <<>> /\ Raise("return")
                  /\ UNCHANGED <<timerVars, handlers, historyVars>>

Fault == /\ InProgram /\ Called /\ Raise("fault")
         /\ UNCHANGED <<timerVars, handlers, asked, cut, armed, raced>>

MainThread ==
  /\ \/ \E s \in Seconds : Alarm(s)
     \/ \E v, i \in Times : SetTimer(v, i)
     \/ \E f \in Field : StoreField(f)
     \/ GetTimer \/ Ping \/ SetHandler \/ HandlerReturns \/ Fault
  /\ UNCHANGED <<clock, hnd>>

-----------------------------------------------------------------------------
(* The handler thread: __handler_main().                                     *)

(* The reply: the main thread goes on, or takes the exception it owes.       *)
Resumed(a) == IF a.pending
              THEN [a EXCEPT !.blocked = "exc", !.kind = "trigger", !.pending = FALSE]
              ELSE [a EXCEPT !.blocked = "no"]

Wait(till, alarm) ==
  /\ hnd' = [hnd EXCEPT !.pc = "wait", !.till = till, !.alarm = alarm,
                        !.reply = FALSE]
  /\ app' = IF hnd.reply THEN Resumed(app) ELSE app

(* Loop_hooks::timeout() *)
Timeout ==
  /\ hnd.pc = "timeout"
  /\ IF alarm_timeout # 0
     THEN /\ hnd' = [hnd EXCEPT !.pc = "clear", !.till = alarm_timeout]
          /\ UNCHANGED app
     ELSE Wait(IF it_value = 0 THEN Never ELSE clock + it_value, FALSE)
  /\ UNCHANGED <<timerVars, historyVars>>

ClearFirst ==
  /\ hnd.pc = "clear"
  /\ alarm_timeout' = 0
  /\ Wait(IF it_value = 0 THEN Never ELSE clock + it_value, FALSE)
  /\ UNCHANGED <<it_value, it_interval, historyVars>>

Clear ==
  /\ hnd.pc = "clear"
  /\ alarm_timeout' = 0
  /\ Wait(hnd.till, TRUE)
  /\ UNCHANGED <<it_value, it_interval, historyVars>>

(* A message ends the wait; an alarm that has been taken is forgotten.       *)
Message == app.blocked \in {"ping", "exc"}
Forget  == cut' = (cut \/ (asked # 0 /\ alarm_timeout = 0))

(* setup_sig_frame() checks that the frame's memory can be written; without  *)
(* a handler or that memory the exception gets no reply, -L4_ENOREPLY.  Four *)
(* words below the frame are written unchecked: under the last frame that    *)
(* fits they may have no memory, and the handler thread faults itself.       *)
Reply(a) == app' = a /\ hnd' = [hnd EXCEPT !.pc = "timeout", !.reply = TRUE]
NoReply  == /\ app' = [app EXCEPT !.blocked = "hung"]
            /\ hnd' = [hnd EXCEPT !.pc = "timeout", !.reply = FALSE]

EnterAnyway(sig) ==
  IF sig \in handlers
  THEN Reply([app EXCEPT !.ctx = Program, !.stack = Append(@, app.ctx)])
  ELSE NoReply

Enter(sig) ==
  IF sig \in handlers /\ Len(app.stack) < Room
  THEN \/ Reply([app EXCEPT !.ctx = Program, !.stack = Append(@, app.ctx)])
       \/ /\ Len(app.stack) = Room - 1
          /\ hnd' = [hnd EXCEPT !.pc = "fault"]
          /\ UNCHANGED app
  ELSE NoReply

(* The frame that the handler's stack pointer leads back to is checked, too; *)
(* a program may have moved the one or unmapped the other.                   *)
Return ==
  \/ Reply([app EXCEPT !.ctx = app.stack[Len(app.stack)],
                       !.stack = SubSeq(@, 1, Len(@) - 1)])
  \/ NoReply

(* dispatch(), handle_exception(): a ping is answered with -L4_ENOSYS, which *)
(* its caller does not look at.                                              *)
DispatchNoReply ==
  /\ hnd.pc = "wait" /\ app.blocked = "ping"
  /\ hnd' = [hnd EXCEPT !.pc = "timeout", !.reply = FALSE]
  /\ Forget
  /\ UNCHANGED <<timerVars, app, calls, asked, armed, raced>>

DispatchPing ==
  /\ hnd.pc = "wait" /\ app.blocked = "ping"
  /\ hnd' = [hnd EXCEPT !.pc = "timeout", !.reply = TRUE]
  /\ Forget
  /\ UNCHANGED <<timerVars, app, calls, asked, armed, raced>>

HandleException ==
  /\ hnd.pc = "wait" /\ app.blocked = "exc"
  /\ \/ app.kind = "trigger" /\ Enter("SIGALRM")
     \/ app.kind = "fault"   /\ Enter("SIGSEGV")
     \/ app.kind = "return"  /\ Return
  /\ Forget
  /\ UNCHANGED <<timerVars, calls, asked, armed, raced>>

(* L4_IPC_RETIMEOUT.  A message that is there comes first.                   *)
Expire ==
  /\ hnd.pc = "wait" /\ ~ Message /\ hnd.till # Never /\ clock >= hnd.till
  /\ hnd' = [hnd EXCEPT !.pc = "error"]
  /\ UNCHANGED <<timerVars, app, calls, asked, cut, armed, raced>>

(* Loop_hooks::error(): ex_regs makes the main thread raise an exception, at *)
(* once or when its own IPC is over. *)
Trigger ==
  /\ hnd.pc = "error"
  /\ app' = IF Running THEN [app EXCEPT !.blocked = "exc", !.kind = "trigger"]
            ELSE [app EXCEPT !.pending = TRUE]
  /\ hnd' = [hnd EXCEPT !.pc = "reload"]
  /\ asked' = IF clock >= asked THEN 0 ELSE asked
  /\ UNCHANGED <<timerVars, calls, cut, armed, raced>>

(* it_value = it_interval, a load and a store. *)
Overlaps == raced' = (raced \/ app.ctx.pc = "store" \/ Storing(app.stack))

ReloadZero ==
  /\ hnd.pc = "store"
  /\ it_value' = 0
  /\ hnd' = [hnd EXCEPT !.pc = "timeout"]
  /\ Overlaps
  /\ UNCHANGED <<alarm_timeout, it_interval, app, calls, asked, cut, armed>>

ReloadLoad ==
  /\ hnd.pc = "reload"
  /\ hnd' = [hnd EXCEPT !.pc = "store", !.loaded = it_interval]
  /\ Overlaps
  /\ UNCHANGED <<timerVars, app, calls, asked, cut, armed>>

ReloadStore ==
  /\ hnd.pc = "store"
  /\ it_value' = hnd.loaded
  /\ hnd' = [hnd EXCEPT !.pc = "timeout"]
  /\ Overlaps
  /\ UNCHANGED <<alarm_timeout, it_interval, app, calls, asked, cut, armed>>

HandlerThread ==
  /\ \/ Timeout \/ Clear \/ DispatchPing \/ HandleException
     \/ Expire \/ Trigger \/ ReloadLoad \/ ReloadStore
  /\ UNCHANGED <<clock, handlers>>

-----------------------------------------------------------------------------
Tick == /\ clock < MaxClock /\ clock' = clock + 1
        /\ UNCHANGED <<timerVars, handlers, hnd, app, historyVars>>

Init ==
  /\ clock = 1
  /\ alarm_timeout = 0 /\ it_value = 0 /\ it_interval = 0 /\ handlers = {}
  /\ hnd = [pc |-> "timeout", till |-> Never, loaded |-> 0, alarm |-> FALSE,
            reply |-> FALSE]
  /\ app = [blocked |-> "no", kind |-> "trigger", ctx |-> Program,
            stack |-> <<>>, pending |-> FALSE]
  /\ calls = 0 /\ asked = 0 /\ cut = FALSE
  /\ armed = FALSE /\ raced = FALSE

Next == MainThread \/ HandlerThread \/ Tick

Spec == Init /\ [][Next]_vars

(* The kernel schedules both threads and time passes.  The main thread goes  *)
(* on inside the library; what the program does is its own business.         *)
FairSpec ==
  /\ Spec
  /\ WF_vars(HandlerThread) /\ WF_vars(Tick)
  /\ WF_vars((Ping \/ \E f \in Field : StoreField(f)) /\ UNCHANGED <<clock, hnd>>)

-----------------------------------------------------------------------------
(* Properties.                                                               *)

(* A periodic timer keeps running, whatever signals, alarms and calls come   *)
(* in between: the reload after a timeout never leaves it switched off.      *)
(* (Not so when setitimer() stores while the handler thread reloads, or when *)
(* a signal's handler calls it inside another setitimer(): raced.)           *)
TimerSurvives ==
  armed /\ it_interval # 0 /\ ~ raced /\ app.ctx.pc # "store" => it_value # 0

(* An alarm rings.  What keeps it from ringing is a message to the handler   *)
(* thread after this has taken the alarm's time and reset it: another call,  *)
(* a fault, or a handler's return; or that the handler thread has faulted.   *)
AlarmFires == (asked # 0) ~> (asked = 0 \/ cut \/ hnd.pc = "fault")

(* The main thread gets an answer from the handler thread, or it is to have  *)
(* none because a signal has no handler or its frame no memory; only a fault *)
(* of the handler thread below the last frame leaves it without.             *)
MainResumes == Message ~> (~ Message \/ hnd.pc = "fault")
=============================================================================
