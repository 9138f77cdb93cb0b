-------------------------------- MODULE Pong --------------------------------
(* The pong client, rm_pong_client/pong_client.cc.  Each of its two paddles  *)
(* has a thread that connects to the pong server, tells it the paddle's      *)
(* position over and over and keeps that position on the field.  One more    *)
(* thread polls the keyboard and moves the paddles.  All of them read and    *)
(* write _pos without a lock, so up() and down() are a load and a store.     *)
(*                                                                           *)
(* The pong server is external, and so is the reply of the keyboard server,  *)
(* any short sequence of keys here.  lifes() changes nothing and is left out.*)
EXTENDS Keys, Integers, Sequences

CONSTANTS P0, P1,           \* the two paddles
          NoPaddle,           \* what TAB moves
          Unknown,          \* the server has not been told a position
          Speed,            \* what a key adds to or takes from a position
          Start, Field,     \* where a paddle starts; the last position (1023)
          MaxKeys,          \* bound: keys in the keyboard's replies
          MaxReply          \* bound: keys in one reply

Paddle == {P0, P1}

ASSUME PongAssumption ==
  /\ P0 # P1 /\ NoPaddle \notin Paddle /\ Unknown \notin Int
  /\ Speed \in Nat /\ Field \in Nat /\ Start \in 0..Field
  /\ MaxKeys \in Nat /\ MaxReply \in Nat

VARIABLES pos,      \* Paddle::_pos
          game,     \* where in run() the paddle's thread is
          linked,   \* the server has given out the paddle's capability
          told,     \* the position the server knows
          kb,       \* the keyboard thread: pc, the keys left, the value loaded
          alive,    \* the task has not called exit()
          keys,     \* history: how many keys the replies had so far
          net,      \* history: downs less ups since the paddle's start
          exact     \* history: only keys have moved the paddle since its start

gameVars    == <<game, linked, told>>
historyVars == <<keys, net, exact>>
vars == <<pos, gameVars, kb, alive, historyVars>>

TypeOK ==
  /\ pos \in [Paddle -> Int] /\ told \in [Paddle -> Int \cup {Unknown}]
  /\ game \in [Paddle -> {"connect", "start", "move", "low", "setLow",
                          "high", "setHigh"}]
  /\ linked \in [Paddle -> BOOLEAN]
  /\ kb \in [pc : {"poll", "load", "store"}, codes : Seq(Key), reg : Int]
  /\ alive \in BOOLEAN /\ keys \in 0..MaxKeys
  /\ net \in [Paddle -> Int] /\ exact \in [Paddle -> BOOLEAN]

-----------------------------------------------------------------------------
(* What the switch of thread_kb() calls for a key: whose up() or down().     *)

MovedTwo(k) == CASE k \in {UP_1, DOWN_1, DOWN_2} -> P0
                 [] k = UP_2                     -> P1
                 [] OTHER                        -> NoPaddle

Moved(k) == CASE k \in {UP_1, DOWN_1} -> P0
              [] k \in {UP_2, DOWN_2} -> P1
              [] OTHER                -> NoPaddle

Sign(k) == IF k \in {UP_1, UP_2} THEN -1 ELSE 1

-----------------------------------------------------------------------------
(* A paddle's thread: run().                                                 *)

Goto(p, l) == game' = [game EXCEPT ![p] = l]

(* The server hands out the paddle.  While it does not exist connect() tries *)
(* again; on any other error it returns the error's code, and run(), which   *)
(* looks for -1, goes on without a paddle.                                   *)
Connect(p) ==
  /\ game[p] = "connect"
  /\ \E ok \in BOOLEAN : linked' = [linked EXCEPT ![p] = ok]
  /\ Goto(p, "start")
  /\ UNCHANGED <<pos, told, historyVars>>

(* _pos = 180: the keyboard thread may be in the middle of moving the paddle.*)
SetStart(p) ==
  /\ game[p] = "start"
  /\ pos' = [pos EXCEPT ![p] = Start]
  /\ net' = [net EXCEPT ![p] = 0]
  /\ exact' = [exact EXCEPT ![p] = ~ (kb.pc = "store" /\ Moved(Head(kb.codes)) = p)]
  /\ Goto(p, "move")
  /\ UNCHANGED <<linked, told, keys>>

(* move(_pos); the call's error is ignored. *)
Move(p) ==
  /\ game[p] = "move"
  /\ told' = IF linked[p] THEN [told EXCEPT ![p] = pos[p]] ELSE told
  /\ Goto(p, "low")
  /\ UNCHANGED <<pos, linked, historyVars>>

(* if (_pos<0) _pos = 0; if (_pos>1023) _pos = 1023;                         *)
TestLow(p) ==
  /\ game[p] = "low"
  /\ Goto(p, IF pos[p] < 0 THEN "setLow" ELSE "high")
  /\ UNCHANGED <<pos, linked, told, historyVars>>

TestHighElse(p) ==
  /\ game[p] = "high"
  /\ Goto(p, "move")
  /\ UNCHANGED <<pos, linked, told, historyVars>>

TestHigh(p) ==
  /\ game[p] = "high"
  /\ Goto(p, IF pos[p] > Field THEN "setHigh" ELSE "move")
  /\ UNCHANGED <<pos, linked, told, historyVars>>

Clamp(p) ==
  /\ game[p] \in {"setLow", "setHigh"}
  /\ pos' = [pos EXCEPT ![p] = IF game[p] = "setLow" THEN 0 ELSE Field]
  /\ exact' = [exact EXCEPT ![p] = FALSE]
  /\ Goto(p, IF game[p] = "setLow" THEN "high" ELSE "move")
  /\ UNCHANGED <<linked, told, keys, net>>

Run(p) == /\ alive
          /\ Connect(p) \/ SetStart(p) \/ Move(p) \/ TestLow(p) \/ TestHigh(p)
             \/ Clamp(p)
          /\ UNCHANGED <<kb, alive>>

-----------------------------------------------------------------------------
(* The keyboard thread: thread_kb().                                         *)

(* push_front() turns the reply around.                                      *)
RepliesRaw == UNION {[1..n -> 0..5] : n \in 0..MaxReply}

Replies == UNION {[1..n -> Key] : n \in 0..MaxReply}

Poll ==
  /\ kb.pc = "poll"
  /\ \E r \in Replies :
       /\ keys + Len(r) <= MaxKeys
       /\ keys' = keys + Len(r)
       /\ kb' = [kb EXCEPT !.pc = IF r = <<>> THEN "poll" ELSE "load",
                           !.codes = [i \in 1..Len(r) |-> r[Len(r) + 1 - i]]]
  /\ UNCHANGED <<pos, alive, net, exact>>

(* An IPC error ends the task. *)
PollFails == /\ kb.pc = "poll" /\ alive' = FALSE
             /\ UNCHANGED <<pos, kb, historyVars>>

(* The next key; the history notes what the player who pressed this one      *)
(* wants of it.                                                              *)
Wants(k, p) == CASE k = (IF p = P0 THEN UP_1 ELSE UP_2)     -> -1
                 [] k = (IF p = P0 THEN DOWN_1 ELSE DOWN_2) -> 1
                 [] OTHER                                   -> 0

NextKey ==
  /\ net' = [p \in Paddle |-> net[p] + Wants(Head(kb.codes), p)]
  /\ kb' = [kb EXCEPT !.pc = IF Len(kb.codes) = 1 THEN "poll" ELSE "load",
                       !.codes = Tail(@)]

Load ==
  /\ kb.pc = "load"
  /\ LET p == Moved(Head(kb.codes)) IN
     IF p = NoPaddle THEN NextKey
     ELSE /\ kb' = [kb EXCEPT !.pc = "store",
                              !.reg = pos[p] + Sign(Head(kb.codes)) * Speed]
          /\ UNCHANGED net
  /\ UNCHANGED <<pos, alive, keys, exact>>

Store ==
  /\ kb.pc = "store"
  /\ pos' = [pos EXCEPT ![Moved(Head(kb.codes))] = kb.reg]
  /\ NextKey
  /\ UNCHANGED <<alive, keys, exact>>

KeyThread == /\ alive
             /\ Poll \/ PollFails \/ Load \/ Store
             /\ UNCHANGED gameVars

-----------------------------------------------------------------------------
(* The paddles are static objects: _pos is 0 until run() sets it.            *)
Init ==
  /\ pos = [p \in Paddle |-> 0] /\ game = [p \in Paddle |-> "connect"]
  /\ linked = [p \in Paddle |-> FALSE] /\ told = [p \in Paddle |-> Unknown]
  /\ kb = [pc |-> "poll", codes |-> <<>>, reg |-> 0]
  /\ alive = TRUE /\ keys = 0
  /\ net = [p \in Paddle |-> 0] /\ exact = [p \in Paddle |-> TRUE]

Next == KeyThread \/ \E p \in Paddle : Run(p)

Spec == Init /\ [][Next]_vars

(* The kernel schedules every runnable thread, and a call to the server      *)
(* returns; it is not said that there is a server, nor that keys are pressed.*)
FairSpec ==
  /\ Spec
  /\ WF_vars(alive /\ (Load \/ Store) /\ UNCHANGED gameVars)
  /\ \A p \in Paddle : WF_vars(game[p] # "connect" /\ Run(p))

-----------------------------------------------------------------------------
(* Properties.                                                               *)

(* A paddle is where its own keys put it, from its start on and until it     *)
(* first runs off the field: no key is lost, counted twice, or applied to    *)
(* the other paddle while the three threads interleave.  (Not so when a key  *)
(* is being applied at the very start, or at a clamp.)                       *)
KeysAddUp ==
  \A p \in Paddle :
    game[p] \notin {"connect", "start"} /\ exact[p] =>
      pos[p] = Start + Speed * net[p]

(* A store of up() or down() may undo a clamp, but not for good: when the    *)
(* players let go, each paddle that has a server comes to rest on the field, *)
(* and the server knows where.                                               *)
Settled(p) == pos[p] \in 0..Field /\ (linked[p] => told[p] = pos[p])

PaddleSettles ==
  []alive => \A p \in Paddle : <>[](game[p] = "connect" \/ Settled(p))
=============================================================================
