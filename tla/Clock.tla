------------------------------- MODULE Clock --------------------------------
(* The clock backends, libc_backends/lib/l4re/lib: the kernel counts         *)
(* microseconds in a page that every task can read (the KIP); the program    *)
(* keeps beside it an offset that makes the real time of it.  Both have 64   *)
(* bits, and a processor of 32 loads and stores them in two halves, between  *)
(* which the kernel counts on or another thread has its turn.                *)
(*                                                                           *)
(* A step is the load or the store of one half, in any order.                *)
EXTENDS Integers

CONSTANTS Thread,      \* threads of the program
          Half,        \* 2^32
          Million,     \* microseconds in a second
          Second,      \* seconds given to clock_settime
          ClockId,     \* clocks asked for
          Start,       \* the kernel's clock when the program starts
          MaxClock,    \* bound: the kernel's clock
          MaxCalls     \* bound: calls

ASSUME ClockAssumption ==
  /\ Half \in Nat \ {0} /\ Million \in Nat \ {0} /\ MaxClock \in Nat
  /\ Start \in 0..MaxClock /\ MaxCalls \in Nat
  /\ Second \subseteq 0..(Half - 1) /\ ClockId \subseteq Int

VARIABLES clock,       \* l4re_kip()->clock
          offset,      \* __libc_l4_rt_clock_offset
          th,          \* the threads' calls
          result,      \* what the last of them to return gave back
          set,         \* history: the last clock_settime
          calls,       \* history: calls so far
          killed       \* the task was killed

clockVars == <<clock, offset, th, result, set, calls, killed>>

U64   == Half * Half
Lo(v) == v % Half
Hi(v) == v \div Half

Word  == {"clock_lo", "clock_hi", "offset_lo", "offset_hi"}
Clocks  == {"clock_lo", "clock_hi"}
Offsets == {"offset_lo", "offset_hi"}

(* A call: words to load or store, what has been loaded, the time to set;    *)
(* and as history when it began and whether another step came in between its *)
(* halves.                                                                   *)
Idle == [op |-> "idle", todo |-> {}, loaded |-> 0, off |-> 0, time |-> 0,
         asked |-> 0, from |-> 0, mixed |-> FALSE]

-----------------------------------------------------------------------------
(* The kernel.  A carry between the loads of the halves tears the value.     *)
OneClockHalf(t) == th[t].todo \cap Clocks \in {{"clock_lo"}, {"clock_hi"}}

Tick ==
  /\ ~ killed /\ clock < MaxClock /\ clock' = clock + 1
  /\ th' = [t \in Thread |->
              IF OneClockHalf(t) /\ Hi(clock') # Hi(clock)
              THEN [th[t] EXCEPT !.mixed = TRUE] ELSE th[t]]
  /\ UNCHANGED <<offset, result, set, calls, killed>>

-----------------------------------------------------------------------------
(* A call begins.  One that sets the time mixes with those under way that    *)
(* use the offset.                                                           *)
Mixes(op, other) == op # "mono" /\ other # "mono" /\ "set" \in {op, other}

Begin(t, call) ==
  /\ th' = [u \in Thread |->
       IF u = t
       THEN [call EXCEPT !.from = clock,
               !.mixed = \E v \in Thread \ {t} :
                           th[v].op # "idle" /\ Mixes(call.op, th[v].op)]
       ELSE IF th[u].op # "idle" /\ Mixes(call.op, th[u].op)
       THEN [th[u] EXCEPT !.mixed = TRUE] ELSE th[u]]
  /\ UNCHANGED <<clock, offset, result, set, killed>>

Ready(t) == ~ killed /\ th[t].op = "idle" /\ calls < MaxCalls /\ calls' = calls + 1

(* ENODEV: the tables have a place for four clocks, some of them empty.  An  *)
(* id below 0 is not refused: what lies before the table is called, if it is *)
(* not 0.                                                                    *)
NoDevice ==
  /\ result' = [ok |-> FALSE, sec |-> 0, usec |-> 0]
  /\ UNCHANGED <<clock, offset, th, set, killed>>

Wild == killed' = TRUE /\ UNCHANGED <<clock, offset, th, result, set>>

(* clock_gettime, with gettimeofday() and time(), which ask for clock 0.     *)
clock_gettime(t, id) ==
  /\ Ready(t)
  /\ CASE id = 0 -> Begin(t, [Idle EXCEPT !.op = "real", !.todo = Word])
       [] id = 1 -> Begin(t, [Idle EXCEPT !.op = "mono", !.todo = Clocks])
       [] id > 1 -> NoDevice
       [] id < 0 -> Wild \/ NoDevice

(* tv_sec * 1000000 + tv_nsec / 1000 is a long; it is made unsigned and 64   *)
(* bits wide afterwards.                                                     *)
FromLong(n) == LET w == n % Half IN IF 2 * w < Half THEN w ELSE U64 - Half + w

clock_settime(t, id, sec, usec) ==
  /\ Ready(t)
  /\ CASE id = 0 -> Begin(t, [Idle EXCEPT !.op = "set", !.todo = Word,
                                          !.asked = sec * Million + usec,
                                          !.time = FromLong(sec * Million + usec)])
       [] id > 0 -> NoDevice
       [] id < 0 -> Wild \/ NoDevice

(* settimeofday() is refused, clock() has no answer.                         *)
Unsupported(t) == Ready(t) /\ NoDevice

-----------------------------------------------------------------------------
Part(w, v) == IF w \in {"clock_lo", "offset_lo"} THEN Lo(v) ELSE Half * Hi(v)

LoadClock(t, w) ==
  /\ ~ killed /\ w \in th[t].todo \cap Clocks
  /\ th' = [th EXCEPT ![t].todo = @ \ {w}, ![t].loaded = @ + Part(w, clock)]
  /\ UNCHANGED <<clock, offset, result, set, calls, killed>>

LoadOffset(t, w) ==
  /\ ~ killed /\ th[t].op = "real" /\ w \in th[t].todo \cap Offsets
  /\ th' = [th EXCEPT ![t].todo = @ \ {w}, ![t].off = @ + Part(w, offset)]
  /\ UNCHANGED <<clock, result, offset, set, calls, killed>>

(* The offset is the time less the clock, modulo 2^64.                       *)
NewOffsetNarrow(t) == (th[t].time - th[t].loaded) % Half

NewOffset(t) == (th[t].time - th[t].loaded) % U64

StoreOffset(t, w) ==
  /\ ~ killed /\ th[t].op = "set" /\ th[t].todo \cap Clocks = {}
  /\ w \in th[t].todo
  /\ offset' = Part(w, NewOffset(t)) + offset - Part(w, offset)
  /\ th' = [th EXCEPT ![t].todo = @ \ {w}]
  /\ UNCHANGED <<clock, result, set, calls, killed>>

(* Seconds and the rest of a time; seconds have 32 bits.                     *)
TimespecRounded(v) ==
  [ok |-> TRUE, sec |-> ((v + Million - 1) \div Million) % Half, usec |-> v % Million]

Timespec(v) ==
  [ok |-> TRUE, sec |-> (v \div Million) % Half, usec |-> v % Million]

ReadOf(c) == IF c.op = "mono" THEN c.loaded ELSE (c.loaded + c.off) % U64

ReadReturns(t) ==
  /\ ~ killed /\ th[t].op \in {"mono", "real"} /\ th[t].todo = {}
  /\ result' = Timespec(ReadOf(th[t]))
  /\ th' = [th EXCEPT ![t] = Idle]
  /\ UNCHANGED <<clock, offset, set, calls, killed>>

SetReturns(t) ==
  /\ ~ killed /\ th[t].op = "set" /\ th[t].todo = {}
  /\ set' = [time |-> th[t].asked, from |-> th[t].from, to |-> clock,
             known |-> ~ th[t].mixed /\ 2 * th[t].asked < Half]
  /\ th' = [th EXCEPT ![t] = Idle]
  /\ UNCHANGED <<clock, offset, result, calls, killed>>

-----------------------------------------------------------------------------
ClockInit ==
  /\ clock = Start /\ offset = 0
  /\ th = [t \in Thread |-> Idle] /\ result = Timespec(0)
  /\ set = [time |-> Start, from |-> Start, to |-> Start, known |-> TRUE]
  /\ calls = 0 /\ killed = FALSE

ClockNext ==
  \/ Tick
  \/ \E t \in Thread :
       \/ \E id \in ClockId :
            \/ clock_gettime(t, id)
            \/ \E sec \in Second : clock_settime(t, id, sec, Million - 1)
       \/ \E w \in Word : LoadClock(t, w) \/ LoadOffset(t, w) \/ StoreOffset(t, w)
       \/ ReadReturns(t) \/ SetReturns(t) \/ Unsupported(t)

ClockSpec == ClockInit /\ [][ClockNext]_clockVars

-----------------------------------------------------------------------------
(* Properties.                                                               *)

Microseconds(ts) == ts.sec * Million + ts.usec

Returns(t, op) == th[t].op = op /\ th[t]' = Idle /\ ~ th[t].mixed

(* The monotonic clock tells a time between the call and its return, unless  *)
(* the clock's lower half ran over between the two loads.                    *)
MonotonicIsNow ==
  [][\A t \in Thread : Returns(t, "mono") =>
       Microseconds(result') \in th[t].from..clock]_clockVars

(* The real time is what it was last set to and what has passed since then,  *)
(* whatever the clock stood at, unless loads and stores of halves were mixed *)
(* or the time set was more than a long holds of microseconds.               *)
RealTimeAsSet ==
  [][\A t \in Thread : Returns(t, "real") /\ set.known =>
       Microseconds(result') \in
         (set.time + th[t].from - set.to)..(set.time + clock - set.from)]_clockVars
=============================================================================
