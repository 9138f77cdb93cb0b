----------------------------- MODULE PongProofs -----------------------------
(* Where the keys put a paddle, for every speed, start and field.            *)
EXTENDS Pong, SequenceTheorems, TLAPS

Playing(p) == game[p] \notin {"connect", "start"} /\ exact[p]

(* The value the keyboard thread is about to store, of a paddle that only    *)
(* keys have moved: nothing has moved it since the load.                     *)
LoadIsFresh ==
  \A p \in Paddle :
    Playing(p) /\ kb.pc = "store" /\ Moved(Head(kb.codes)) = p =>
      kb.reg = pos[p] + Sign(Head(kb.codes)) * Speed

(* The keyboard thread has a key in its hands, and when it stores, one that  *)
(* moves a paddle.                                                           *)
HasKey ==
  /\ kb.pc # "poll" => kb.codes # <<>>
  /\ kb.pc = "store" => Moved(Head(kb.codes)) \in Paddle

IInv == TypeOK /\ HasKey /\ LoadIsFresh /\ KeysAddUp

-----------------------------------------------------------------------------
(* The switch of thread_kb() does what each key's player wants.              *)
LEMMA SwitchIsRight ==
  ASSUME NEW k \in Key, NEW p \in Paddle
  PROVE  Wants(k, p) = IF Moved(k) = p THEN Sign(k) ELSE 0
  BY PongAssumption DEF Wants, Moved, Sign, Paddle, Key, UP_1, DOWN_1, UP_2, DOWN_2, TAB

LEMMA SignType == \A k : Sign(k) \in {-1, 1}
  BY DEF Sign

LEMMA WantsType == \A k, p : Wants(k, p) \in {-1, 0, 1}
  BY DEF Wants

(* A paddle's share of the keys so far grows by one key's worth.             *)
LEMMA OneMore ==
  ASSUME NEW n \in Int, NEW d \in Int
  PROVE  Start + Speed * (n + d) = (Start + Speed * n) + d * Speed
  BY PongAssumption, SMT

-----------------------------------------------------------------------------
LEMMA TypeInit == Init => TypeOK
  BY PongAssumption DEF Init, TypeOK

LEMMA OneLess == \A n \in Nat : n - 1 = 0 => n = 1
  OBVIOUS

LEMMA TailFacts ==
  ASSUME NEW S, NEW s \in Seq(S), s # <<>>
  PROVE  /\ Tail(s) \in Seq(S) /\ Len(s) \in Nat
         /\ Len(s) # 1 => Tail(s) # <<>>
<1>1. Len(s) \in Nat /\ Len(s) # 0 /\ Tail(s) \in Seq(S) /\ Len(Tail(s)) = Len(s) - 1
  BY HeadTailProperties, LenProperties, EmptySeq
<1>2. Len(<<>>) = 0
  OBVIOUS
<1>4. ASSUME Len(s) # 1, Tail(s) = <<>> PROVE FALSE
  <2>1. Len(Tail(s)) = 0
    BY <1>2, <1>4, Zenon
  <2> QED BY <1>1, <1>4, <2>1, OneLess, Zenon
<1> QED BY <1>1, <1>4, Zenon

LEMMA OneKeysWorth ==
  ASSUME NEW i \in Int, NEW k
  PROVE  i + Sign(k) * Speed \in Int
<1>1. Sign(k) = -1 \/ Sign(k) = 1
  BY SignType
<1>2. ASSUME NEW d \in Int PROVE i + d * Speed \in Int
  BY PongAssumption
<1> QED BY <1>1, <1>2

(* What Load and Store have in common: the key in hand is done with.         *)
LEMMA NextKeyType ==
  ASSUME TypeOK, kb.codes # <<>>, NextKey
  PROVE  /\ kb' \in [pc : {"poll", "load", "store"}, codes : Seq(Key), reg : Int]
         /\ net' \in [Paddle -> Int]
         /\ kb'.pc # "poll" => kb'.codes # <<>>
         /\ kb'.pc # "store"
<1>1. /\ Tail(kb.codes) \in Seq(Key) /\ Len(kb.codes) \in Nat
      /\ Len(kb.codes) # 1 => Tail(kb.codes) # <<>>
  <2>1. kb.codes \in Seq(Key)
    BY DEF TypeOK
  <2> QED BY <2>1, TailFacts
<1>2. kb'.codes = Tail(kb.codes)
  BY DEF NextKey, TypeOK
<1>3. kb'.pc = IF Len(kb.codes) = 1 THEN "poll" ELSE "load"
  BY DEF NextKey, TypeOK
<1>4. kb' \in [pc : {"poll", "load", "store"}, codes : Seq(Key), reg : Int]
  BY <1>1 DEF NextKey, TypeOK
<1>5. \A p \in Paddle : net[p] + Wants(Head(kb.codes), p) \in Int
  <2> TAKE p \in Paddle
  <2> DEFINE w == Wants(Head(kb.codes), p)
  <2>1. net[p] \in Int
    BY DEF TypeOK
  <2>2. w \in Int
    BY WantsType
  <2>3. ASSUME NEW i \in Int, NEW j \in Int PROVE i + j \in Int
    OBVIOUS
  <2> QED BY <2>1, <2>2, <2>3, Zenon
<1>6. net' \in [Paddle -> Int]
  BY <1>5 DEF NextKey
<1> QED BY <1>1, <1>2, <1>3, <1>4, <1>6

LEMMA TypeNext == TypeOK /\ HasKey /\ [Next]_vars => TypeOK' /\ HasKey'
<1> SUFFICES ASSUME TypeOK, HasKey, [Next]_vars PROVE TypeOK' /\ HasKey'
  OBVIOUS
<1> USE PongAssumption
<1>1. ASSUME NEW p \in Paddle, Run(p) PROVE TypeOK' /\ HasKey'
  <2>1. HasKey'
    BY <1>1 DEF Run, HasKey
  <2>2. CASE Connect(p)
    BY <1>1, <2>1, <2>2 DEF TypeOK, Run, Connect, Goto, historyVars
  <2>3. CASE SetStart(p)
    BY <1>1, <2>1, <2>3 DEF TypeOK, Run, SetStart, Goto
  <2>4. CASE Move(p)
    BY <1>1, <2>1, <2>4 DEF TypeOK, Run, Move, Goto, historyVars
  <2>5. CASE TestLow(p)
    BY <1>1, <2>1, <2>5 DEF TypeOK, Run, TestLow, Goto, historyVars
  <2>6. CASE TestHigh(p)
    BY <1>1, <2>1, <2>6 DEF TypeOK, Run, TestHigh, Goto, historyVars
  <2>7. CASE Clamp(p)
    BY <1>1, <2>1, <2>7 DEF TypeOK, Run, Clamp, Goto
  <2> QED BY <1>1, <2>2, <2>3, <2>4, <2>5, <2>6, <2>7 DEF Run
<1>2. ASSUME Poll, UNCHANGED gameVars PROVE TypeOK' /\ HasKey'
  <2>1. PICK r \in Replies :
          /\ keys + Len(r) <= MaxKeys /\ keys' = keys + Len(r)
          /\ kb' = [kb EXCEPT !.pc = IF r = <<>> THEN "poll" ELSE "load",
                              !.codes = [i \in 1..Len(r) |-> r[Len(r) + 1 - i]]]
    BY <1>2 DEF Poll
  <2> DEFINE turned == [i \in 1..Len(r) |-> r[Len(r) + 1 - i]]
  <2>2. PICK n \in 0..MaxReply : r \in [1..n -> Key]
    BY <2>1 DEF Replies
  <2>3. Len(r) = n /\ r \in Seq(Key)
    BY <2>2
  <2>4. turned \in Seq(Key) /\ Len(turned) = Len(r)
    BY <2>2, <2>3
  <2>5. keys' \in 0..MaxKeys
    BY <2>1, <2>3 DEF TypeOK
  <2>6. TypeOK'
    BY <1>2, <2>1, <2>4, <2>5 DEF TypeOK, Poll, gameVars
  <2>7. r # <<>> => turned # <<>>
    BY <2>3, <2>4
  <2>8. kb'.pc # "store" /\ (kb'.pc # "poll" => kb'.codes # <<>>)
    BY <2>1, <2>7 DEF TypeOK
  <2> QED BY <2>6, <2>8 DEF HasKey
<1>3. ASSUME PollFails, UNCHANGED gameVars PROVE TypeOK' /\ HasKey'
  BY <1>3 DEF TypeOK, HasKey, PollFails, gameVars, historyVars
<1>4. ASSUME Load, UNCHANGED gameVars PROVE TypeOK' /\ HasKey'
  <2> DEFINE k == Head(kb.codes)
  <2>1. kb.codes # <<>>
    BY <1>4 DEF Load, HasKey
  <2>2. CASE Moved(k) = NoPaddle
    <3>1. NextKey
      BY <1>4, <2>2 DEF Load
    <3> QED BY <1>4, <2>1, <3>1, NextKeyType DEF Load, TypeOK, HasKey, gameVars
  <2>3. CASE Moved(k) # NoPaddle
    <3>1. Moved(k) \in Paddle
      BY <2>3 DEF Moved, Paddle
    <3>2. /\ kb' = [kb EXCEPT !.pc = "store", !.reg = pos[Moved(k)] + Sign(k) * Speed]
          /\ UNCHANGED net
      BY <1>4, <2>3 DEF Load
    <3>3. pos[Moved(k)] + Sign(k) * Speed \in Int
      <4>1. pos[Moved(k)] \in Int
        BY <3>1 DEF TypeOK
      <4> QED BY <4>1, OneKeysWorth
    <3>4. TypeOK'
      BY <1>4, <3>2, <3>3 DEF Load, TypeOK, gameVars
    <3>5. kb'.codes = kb.codes
      BY <3>2 DEF TypeOK
    <3> QED BY <2>1, <3>1, <3>4, <3>5 DEF HasKey
  <2> QED BY <2>2, <2>3
<1>5. ASSUME Store, UNCHANGED gameVars PROVE TypeOK' /\ HasKey'
  <2>1. kb.codes # <<>> /\ NextKey
    BY <1>5 DEF Store, HasKey
  <2>2. pos' \in [Paddle -> Int]
    BY <1>5 DEF Store, TypeOK
  <2> QED BY <1>5, <2>1, <2>2, NextKeyType DEF Store, TypeOK, HasKey, gameVars
<1>6. ASSUME UNCHANGED vars PROVE TypeOK' /\ HasKey'
  BY <1>6 DEF vars, gameVars, historyVars, TypeOK, HasKey
<1> QED BY <1>1, <1>2, <1>3, <1>4, <1>5, <1>6 DEF Next, KeyThread

-----------------------------------------------------------------------------
LEMMA MoveNext == IInv /\ [Next]_vars => LoadIsFresh' /\ KeysAddUp'
<1> SUFFICES ASSUME IInv, [Next]_vars PROVE LoadIsFresh' /\ KeysAddUp'
  OBVIOUS
<1> USE PongAssumption
<1> DEFINE k == Head(kb.codes)
<1>1. ASSUME NEW p \in Paddle, Run(p) PROVE LoadIsFresh' /\ KeysAddUp'
  <2>1. CASE Connect(p) \/ Move(p) \/ TestLow(p) \/ TestHigh(p)
    <3>1. UNCHANGED <<pos, net, exact, kb>>
      BY <1>1, <2>1 DEF Run, Connect, Move, TestLow, TestHigh, historyVars
    <3>2. \A q \in Paddle : Playing(q)' /\ ~ Playing(q) =>
                              game[q] = "connect" /\ game'[q] = "start"
      BY <1>1, <2>1 DEF IInv, TypeOK, Playing, Connect, Move, TestLow, TestHigh,
                        Goto, historyVars
    <3> QED BY <3>1, <3>2 DEF IInv, LoadIsFresh, KeysAddUp, Playing
  <2>2. CASE SetStart(p)
    <3>1. /\ pos' = [pos EXCEPT ![p] = Start] /\ net' = [net EXCEPT ![p] = 0]
          /\ exact' = [exact EXCEPT ![p] = ~ (kb.pc = "store" /\ Moved(k) = p)]
          /\ game' = [game EXCEPT ![p] = "move"] /\ UNCHANGED kb
      BY <1>1, <2>2 DEF Run, SetStart, Goto
    <3>2. \A q \in Paddle : q # p =>
            Playing(q)' = Playing(q) /\ pos'[q] = pos[q] /\ net'[q] = net[q]
      BY <3>1 DEF IInv, TypeOK, Playing
    <3>3. pos'[p] = Start /\ net'[p] = 0
      BY <3>1 DEF IInv, TypeOK
    <3>4. ~ (exact'[p] /\ kb.pc = "store" /\ Moved(k) = p)
      BY <3>1 DEF IInv, TypeOK
    <3>5. Start = Start + Speed * 0
      BY SMT
    <3>6. KeysAddUp'
      BY <3>2, <3>3, <3>5 DEF IInv, KeysAddUp, Playing
    <3>7. LoadIsFresh'
      BY <3>1, <3>2, <3>4 DEF IInv, LoadIsFresh, Playing
    <3> QED BY <3>6, <3>7
  <2>3. CASE Clamp(p)
    <3>1. /\ exact' = [exact EXCEPT ![p] = FALSE] /\ UNCHANGED <<net, kb>>
          /\ \A q \in Paddle : q # p => pos'[q] = pos[q] /\ game'[q] = game[q]
      BY <1>1, <2>3 DEF Run, Clamp, Goto, IInv, TypeOK
    <3>2. ~ exact'[p] /\ \A q \in Paddle : q # p => Playing(q)' = Playing(q)
      BY <3>1 DEF IInv, TypeOK, Playing
    <3> QED BY <3>1, <3>2 DEF IInv, LoadIsFresh, KeysAddUp, Playing
  <2> QED BY <1>1, <2>1, <2>2, <2>3 DEF Run
<1>2. ASSUME Poll \/ PollFails, UNCHANGED gameVars PROVE LoadIsFresh' /\ KeysAddUp'
  <2>1. UNCHANGED <<pos, net, exact, game>> /\ kb'.pc # "store"
    BY <1>2 DEF Poll, PollFails, gameVars, historyVars, IInv, TypeOK
  <2> QED BY <2>1 DEF IInv, LoadIsFresh, KeysAddUp, Playing
<1>3. ASSUME Load, UNCHANGED gameVars PROVE LoadIsFresh' /\ KeysAddUp'
  <2>1. kb.codes # <<>> /\ k \in Key
    BY <1>3 DEF Load, IInv, HasKey, TypeOK
  <2>2. UNCHANGED <<pos, exact, game>>
    BY <1>3 DEF Load, gameVars
  <2>3. CASE Moved(k) = NoPaddle
    <3>1. NextKey
      BY <1>3, <2>3 DEF Load
    <3>2. \A q \in Paddle : Wants(k, q) = 0
      BY <2>1, <2>3, SwitchIsRight
    <3>3. \A q \in Paddle : net'[q] = net[q]
      BY <3>1, <3>2 DEF NextKey, IInv, TypeOK
    <3>4. kb'.pc # "store"
      BY <2>1, <3>1, NextKeyType DEF IInv
    <3> QED BY <2>2, <3>3, <3>4 DEF IInv, LoadIsFresh, KeysAddUp, Playing
  <2>4. CASE Moved(k) # NoPaddle
    <3>1. /\ kb' = [kb EXCEPT !.pc = "store", !.reg = pos[Moved(k)] + Sign(k) * Speed]
          /\ UNCHANGED net
      BY <1>3, <2>4 DEF Load
    <3>2. kb'.codes = kb.codes /\ kb'.reg = pos[Moved(k)] + Sign(k) * Speed
      BY <3>1 DEF IInv, TypeOK
    <3> QED BY <2>2, <3>1, <3>2 DEF IInv, LoadIsFresh, KeysAddUp, Playing
  <2> QED BY <2>3, <2>4
<1>4. ASSUME Store, UNCHANGED gameVars PROVE LoadIsFresh' /\ KeysAddUp'
  <2>1. /\ kb.codes # <<>> /\ k \in Key /\ NextKey /\ Moved(k) \in Paddle
        /\ pos' = [pos EXCEPT ![Moved(k)] = kb.reg] /\ UNCHANGED <<exact, game>>
        /\ kb.pc = "store"
    BY <1>4 DEF Store, IInv, HasKey, TypeOK, gameVars
  <2>2. kb'.pc # "store"
    BY <2>1, NextKeyType DEF IInv
  <2>3. ASSUME NEW q \in Paddle, Playing(q)'
        PROVE  pos'[q] = Start + Speed * net'[q]
    <3>1. Playing(q) /\ pos[q] = Start + Speed * net[q]
      BY <2>1, <2>3 DEF IInv, KeysAddUp, Playing
    <3>2. net'[q] = net[q] + Wants(k, q)
      BY <2>1 DEF NextKey
    <3>3. CASE Moved(k) = q
      <4>1. pos'[q] = pos[q] + Sign(k) * Speed
        BY <2>1, <3>1, <3>3 DEF IInv, TypeOK, LoadIsFresh
      <4>2. net'[q] = net[q] + Sign(k)
        BY <2>1, <3>2, <3>3, SwitchIsRight
      <4>3. net[q] \in Int /\ Sign(k) \in Int
        BY SignType DEF IInv, TypeOK
      <4> QED BY <3>1, <4>1, <4>2, <4>3, OneMore
    <3>4. CASE Moved(k) # q
      <4>1. pos'[q] = pos[q]
        BY <2>1, <3>4 DEF IInv, TypeOK
      <4>2. net'[q] = net[q]
        BY <2>1, <3>2, <3>4, SwitchIsRight DEF IInv, TypeOK
      <4> QED BY <3>1, <4>1, <4>2
    <3> QED BY <3>3, <3>4
  <2> QED BY <2>2, <2>3 DEF LoadIsFresh, KeysAddUp, Playing
<1>5. ASSUME UNCHANGED vars PROVE LoadIsFresh' /\ KeysAddUp'
  BY <1>5 DEF vars, gameVars, historyVars, IInv, LoadIsFresh, KeysAddUp, Playing
<1> QED BY <1>1, <1>2, <1>3, <1>4, <1>5 DEF Next, KeyThread

-----------------------------------------------------------------------------
(* The three threads share the positions without a lock, but between a       *)
(* paddle's start and its first clamp the keyboard thread alone writes its   *)
(* position, so every key counts, once, and for the paddle it belongs to.    *)
THEOREM PongKeysAddUp == Spec => []KeysAddUp
<1>1. Init => IInv
  <2>1. Init => HasKey /\ LoadIsFresh /\ KeysAddUp
    BY DEF Init, HasKey, LoadIsFresh, KeysAddUp, Playing
  <2> QED BY <2>1, TypeInit DEF IInv
<1>2. IInv /\ [Next]_vars => IInv'
  BY TypeNext, MoveNext DEF IInv
<1>3. IInv => KeysAddUp
  BY DEF IInv
<1> QED BY <1>1, <1>2, <1>3, PTL DEF Spec

(* The type invariant of the pong client; with it the keyboard thread never  *)
(* applies a key it does not hold.                                           *)
THEOREM PongTypeCorrect == Spec => []TypeOK
<1>1. Init => TypeOK /\ HasKey
  BY TypeInit DEF Init, HasKey
<1>2. TypeOK /\ HasKey /\ [Next]_vars => TypeOK' /\ HasKey'
  BY TypeNext
<1> QED BY <1>1, <1>2, PTL DEF Spec
=============================================================================
