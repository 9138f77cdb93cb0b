----------------------------- MODULE LogProofs ------------------------------
(* What is on the screen, for every height of the screen and of its lines,   *)
(* every number and size of message registers and any number of messages.    *)
EXTENDS Log, SequenceTheorems, FiniteSetTheorems, WellFoundedInduction, TLAPS

(* The next line's colour says how many lines were rendered.                 *)
ColourInv == fg <=> Len(shown) % 2 = 1

IInv == TypeOK /\ ColourInv /\ ScreenIsHistory

-----------------------------------------------------------------------------
(* Lines of the screen.                                                      *)
LEMMA DivMod ==
  ASSUME NEW u \in Nat, NEW F \in Nat \ {0}
  PROVE  /\ u \div F \in Nat /\ u % F \in 0..(F - 1)
         /\ u = F * (u \div F) + (u % F)
OBVIOUS

LEMMA OneQuotient ==
  ASSUME NEW F \in Nat \ {0}, NEW q \in Int, NEW p \in Int,
         NEW r \in 0..(F - 1), NEW s \in 0..(F - 1), F * q + r = F * p + s
  PROVE  q = p /\ r = s
<1>1. ASSUME NEW a \in Int, NEW b \in Int, NEW x \in 0..(F - 1), NEW y \in 0..(F - 1),
             F * a + x = F * b + y, a > b
      PROVE  FALSE
  <2>1. a = b + (a - b) /\ a - b \in Nat /\ a - b >= 1
    BY <1>1
  <2>2. F * (a - b) = y - x
    BY <1>1, SMT
  <2>3. F * (a - b) >= F
    BY <2>1, SMT
  <2> QED BY <2>2, <2>3
<1>2. q = p
  BY <1>1
<1> QED BY <1>2

(* A pixel of the last line, and one that is a line further up.              *)
LEMMA InLastLine ==
  ASSUME NEW F \in Nat \ {0}, NEW u \in 0..(F - 1)
  PROVE  u \div F = 0 /\ u % F = u
BY DivMod, OneQuotient

LEMMA OneLineUp ==
  ASSUME NEW u \in Nat, NEW F \in Nat \ {0}, NEW w \in Nat, w = u + F
  PROVE  w \div F = (u \div F) + 1 /\ w % F = u % F
<1> DEFINE q == u \div F
           r == u % F
           p == w \div F
           s == w % F
<1>1. q \in Nat /\ r \in 0..(F - 1) /\ u = F * q + r
  BY DivMod
<1>2. p \in Nat /\ s \in 0..(F - 1) /\ w = F * p + s
  BY DivMod
<1> SUFFICES p = q + 1 /\ s = r
  OBVIOUS
<1> HIDE DEF p, q, r, s
<1>3. F * (q + 1) + r = F * p + s
  <2>1. F * (q + 1) = F * q + F
    BY <1>1, SMT
  <2> QED BY <1>1, <1>2, <2>1
<1>4. q + 1 \in Int /\ p \in Int
  BY <1>1, <1>2
<1> QED BY <1>1, <1>2, <1>3, <1>4, OneQuotient

-----------------------------------------------------------------------------
(* Texts and registers.                                                      *)
LEMMA TextIsSeq ==
  ASSUME NEW text \in Texts
  PROVE  /\ text \in Seq(Char \cup Control)
         /\ Len(text) \in 0..Width /\ DOMAIN text = 1..Len(text)
<1>1. PICK n \in 0..Width : text \in [1..n -> Char \cup Control]
  BY DEF Texts
<1>2. n \in Nat
  BY LogAssumption
<1>3. text \in Seq(Char \cup Control)
  BY <1>1, <1>2, SeqDef
<1> QED BY <1>1, <1>2, <1>3, LenProperties

LEMMA ReceivedType ==
  ASSUME TypeOK, NEW text \in Texts, NEW fill \in Char \cup {NUL}
  PROVE  Received(text, fill) \in [1..Width -> Char \cup Control \cup {NUL}]
<1>1. \A i \in 1..Len(text) : text[i] \in Char \cup Control
  BY TextIsSeq
<1> QED BY <1>1, TextIsSeq DEF Received, TypeOK

(* A string in the registers ends, if not before, where they end: of the     *)
(* places where it could, the first is the end.                              *)
LEMMA StringEnds ==
  ASSUME NEW r
  PROVE  \E n \in 0..Width : /\ \A i \in 1..n : r[i] # NUL
                             /\ n = Width \/ r[n + 1] = NUL
<1> DEFINE S == {n \in 0..Width : n = Width \/ r[n + 1] = NUL}
           T == {0..m : m \in S}
<1>1. Width \in Nat /\ Width \in S /\ S \subseteq Nat
  BY LogAssumption
<1>2. IsWellFoundedOn(StrictSubsetOrdering(Nat), FiniteSubsetsOf(Nat))
  BY FS_StrictSubsetOrderingWellFounded
<1>3. T \subseteq FiniteSubsetsOf(Nat) /\ T # {}
  <2>1. ASSUME NEW m \in S PROVE 0..m \in FiniteSubsetsOf(Nat)
    <3>1. m \in Int /\ 0 \in Int /\ 0..m \subseteq Nat
      BY <1>1
    <3>2. IsFiniteSet(0..m)
      BY <3>1, FS_Interval
    <3> QED BY <3>1, <3>2 DEF FiniteSubsetsOf
  <2> QED BY <1>1, <2>1
<1>4. PICK X \in T : \A Y \in T : ~ (<<Y, X>> \in StrictSubsetOrdering(Nat))
  BY <1>2, <1>3, WFMin
<1>5. PICK m \in S : X = 0..m
  OBVIOUS
<1>6. ASSUME NEW k \in S, k < m
      PROVE  FALSE
  <2>1. 0..k \in T /\ 0..k \subseteq 0..m /\ 0..k # 0..m /\ 0..m \subseteq Nat
    BY <1>1, <1>6
  <2>2. <<0..k, 0..m>> \in StrictSubsetOrdering(Nat)
    BY <2>1 DEF StrictSubsetOrdering
  <2> QED BY <1>4, <1>5, <2>1, <2>2
<1>7. ASSUME NEW i \in 1..m PROVE r[i] # NUL
  <2>1. i - 1 \in 0..Width /\ i - 1 < m /\ (i - 1) + 1 = i
    BY <1>1
  <2>2. i - 1 \notin S
    BY <1>6, <2>1
  <2> QED BY <2>1, <2>2
<1> QED BY <1>7

LEMMA StringInType ==
  ASSUME NEW r \in [1..Width -> Char \cup Control \cup {NUL}]
  PROVE  \E n \in 0..Width :
           /\ StringIn(r) \in Seq(Char \cup Control) /\ Len(StringIn(r)) = n
           /\ \A i \in 1..n : StringIn(r)[i] = r[i] /\ r[i] # NUL
           /\ n = Width \/ r[n + 1] = NUL
<1> DEFINE End(n) == /\ \A i \in 1..n : r[i] # NUL
                     /\ n = Width \/ r[n + 1] = NUL
           end == CHOOSE n \in 0..Width : End(n)
<1>1. end \in 0..Width /\ End(end)
  BY StringEnds
<1>2. StringIn(r) = SubSeq(r, 1, end)
  BY DEF StringIn
<1> HIDE DEF end
<1>3. SubSeq(r, 1, end) \in [1..end -> Char \cup Control]
        /\ \A i \in 1..end : SubSeq(r, 1, end)[i] = r[i]
  <2>1. Width \in Nat /\ end \in Nat /\ 1..end \subseteq 1..Width
    BY <1>1, LogAssumption
  <2>2. r \in Seq(Char \cup Control \cup {NUL}) /\ Len(r) = Width
    BY <2>1, SeqDef, LenProperties
  <2>3. \A i \in 1..end : r[i] \in Char \cup Control \cup {NUL}
    BY <2>1
  <2>4. /\ SubSeq(r, 1, end) \in Seq(Char \cup Control \cup {NUL})
        /\ Len(SubSeq(r, 1, end)) = end
        /\ \A i \in 1..end : SubSeq(r, 1, end)[i] = r[i]
    BY <2>1, <2>2, <1>1
  <2>5. DOMAIN SubSeq(r, 1, end) = 1..end
    BY <2>4, LenProperties
  <2>6. SubSeq(r, 1, end) = [i \in 1..end |-> r[i]]
    BY <2>1, <2>2, <2>4, <2>5
  <2> QED BY <1>1, <2>1, <2>3, <2>6
<1>4. SubSeq(r, 1, end) \in Seq(Char \cup Control) /\ Len(SubSeq(r, 1, end)) = end
  BY <1>1, <1>3, SeqDef, LenProperties, LogAssumption
<1> QED BY <1>1, <1>2, <1>3, <1>4

LEMMA PrintableType ==
  ASSUME NEW s \in Seq(Char \cup Control)
  PROVE  /\ Printable(s) \in Seq(Char \cup {Space})
         /\ Len(Printable(s)) = Len(s)
         /\ \A i \in 1..Len(s) : Printable(s)[i] = IF s[i] \in Char THEN s[i] ELSE Space
<1>1. DOMAIN s = 1..Len(s) /\ Len(s) \in Nat
  BY LenProperties
<1>2. Printable(s) \in [1..Len(s) -> Char \cup {Space}]
  BY <1>1 DEF Printable
<1>3. Printable(s) \in Seq(Char \cup {Space})
  BY <1>1, <1>2, SeqDef
<1> QED BY <1>1, <1>2, <1>3, LenProperties DEF Printable

(* What a client sends has no NUL in it, so the string is not cut short.     *)
LEMMA NothingCutOff ==
  ASSUME TypeOK, NEW text \in Texts, NEW fill \in Char \cup {NUL}
  PROVE  IsPrefix(Printable(text), Printable(StringIn(Received(text, fill))))
<1> DEFINE r == Received(text, fill)
           s == StringIn(r)
<1>1. /\ text \in Seq(Char \cup Control) /\ Len(text) \in 0..Width
      /\ \A i \in 1..Len(text) : r[i] = text[i] /\ text[i] \in Char \cup Control
  <2>1. Width \in Nat /\ \A i \in 1..Len(text) : i \in 1..Width /\ i <= Len(text)
    BY TextIsSeq, LogAssumption
  <2>2. \A i \in 1..Len(text) : text[i] \in Char \cup Control
    BY TextIsSeq
  <2> QED BY <2>1, <2>2, TextIsSeq DEF Received
<1>2. PICK n \in 0..Width :
        /\ s \in Seq(Char \cup Control) /\ Len(s) = n
        /\ \A i \in 1..n : s[i] = r[i] /\ r[i] # NUL
        /\ n = Width \/ r[n + 1] = NUL
  BY ReceivedType, StringInType
<1> HIDE DEF s, r
<1>3. Len(text) <= n
  <2>1. \A i \in 1..Len(text) : r[i] # NUL
    BY <1>1, LogAssumption
  <2>2. n + 1 \in 1..Len(text) => r[n + 1] # NUL
    BY <2>1
  <2> QED BY <1>1, <1>2, <2>2, LogAssumption
<1>4. \A i \in 1..Len(text) : Printable(s)[i] = Printable(text)[i]
  <2> TAKE i \in 1..Len(text)
  <2>1. i \in 1..n /\ s[i] = text[i]
    BY <1>1, <1>2, <1>3
  <2> QED BY <1>1, <1>2, <2>1, PrintableType
<1> DEFINE t == Printable(text)
           u == Printable(s)
<1>5. /\ t \in Seq(Char \cup {Space}) /\ Len(t) = Len(text)
      /\ u \in Seq(Char \cup {Space}) /\ Len(u) = n
  BY <1>1, <1>2, PrintableType
<1>6. \A i \in 1..Len(t) : u[i] = t[i]
  BY <1>4, <1>5
<1> SUFFICES IsPrefix(t, u)
  BY DEF s, r
<1> HIDE DEF t, u
<1>7. Len(t) <= Len(u) /\ Len(t) \in Nat /\ Len(u) \in Nat
  BY <1>1, <1>3, <1>5
<1>8. SubSeq(u, 1, Len(t)) = t /\ SubSeq(t, 1, Len(t)) = t
  <2>1. /\ SubSeq(u, 1, Len(t)) \in Seq(Char \cup {Space})
        /\ Len(SubSeq(u, 1, Len(t))) = Len(t)
        /\ \A i \in 1..Len(t) : SubSeq(u, 1, Len(t))[i] = u[i]
    BY <1>5, <1>7
  <2>2. SubSeq(u, 1, Len(t)) = t
    BY <1>5, <1>6, <2>1, SeqEqual
  <2> QED BY <2>2, <1>5, SubSeqFull
<1> QED BY <1>7, <1>8 DEF IsPrefix

-----------------------------------------------------------------------------
LEMMA RenderedIs ==
  ASSUME TypeOK, NEW str, NEW y \in Pixels
  PROVE  Rendered(str)[y] = IF y >= LastLine
                            THEN [text |-> str, row |-> y - LastLine, fg |-> fg]
                            ELSE fb[y + FontHeight]
<1>1. /\ Height \in Nat /\ FontHeight \in Nat \ {0} /\ Height >= FontHeight
      /\ y \in Nat /\ y < Height /\ LastLine = Height - FontHeight
  BY LogAssumption DEF Pixels, LastLine
<1>2. y \in LastLine..(LastLine + FontHeight - 1) <=> y >= LastLine
  BY <1>1
<1>3. y + FontHeight < Height <=> ~ (y >= LastLine)
  BY <1>1
<1> HIDE DEF LastLine
<1> QED BY <1>2, <1>3 DEF Rendered, Draw, Fill, Scroll

-----------------------------------------------------------------------------
(* What a rendered message leaves of the registers, the texts and the lines. *)
LEMMA InitType == Init => TypeOK
<1> SUFFICES ASSUME Init PROVE TypeOK
  OBVIOUS
<1>1. <<>> \in Texts
  <2>1. 0 \in 0..Width /\ <<>> \in [1..0 -> Char \cup Control]
    BY LogAssumption
  <2> QED BY <2>1 DEF Texts
<1>2. 0 \in 0..(FontHeight - 1)
  BY LogAssumption
<1>3. Blank \in [text : Seq(Char \cup {Space}), row : 0..(FontHeight - 1), fg : BOOLEAN]
  BY <1>2 DEF Blank
<1>4. mr \in [1..Width -> Char \cup Control \cup {NUL}] /\ result \in [Client -> {"none", "ok", "ebadproto"}]
  BY DEF Init
<1>5. shown \in Seq(Seq(Char \cup {Space})) /\ sent \in Texts
  BY <1>1 DEF Init
<1>6. fg \in BOOLEAN
  BY DEF Init
<1> HIDE DEF Blank
<1>7. fb \in [Pixels -> [text : Seq(Char \cup {Space}), row : 0..(FontHeight - 1), fg : BOOLEAN]]
  BY <1>3 DEF Init
<1> QED BY <1>4, <1>5, <1>6, <1>7 DEF TypeOK

LEMMA WriteType == ASSUME TypeOK, NEW c \in Client, Write(c) PROVE TypeOK'
<1> DEFINE Line == [text : Seq(Char \cup {Space}), row : 0..(FontHeight - 1), fg : BOOLEAN]
           str  == Printable(StringIn(mr'))
<1>1. mr' \in [1..Width -> Char \cup Control \cup {NUL}] /\ sent' \in Texts
  BY ReceivedType DEF Write
<1>2. str \in Seq(Char \cup {Space})
  BY <1>1, StringInType, PrintableType
<1>3. fb' = Rendered(str) /\ shown' = Append(shown, str)
  BY DEF Write
<1> HIDE DEF str
<1>4. fb' \in [Pixels -> Line]
  <2>1. ASSUME NEW y \in Pixels PROVE Rendered(str)[y] \in Line
    <3>1. /\ Height \in Nat /\ FontHeight \in Nat \ {0} /\ Height >= FontHeight
          /\ y \in Nat /\ y < Height /\ LastLine = Height - FontHeight
      BY LogAssumption DEF Pixels, LastLine
    <3>2. CASE y >= LastLine
      <4>1. y - LastLine \in 0..(FontHeight - 1)
        BY <3>1, <3>2
      <4>2. fg \in BOOLEAN
        BY DEF TypeOK
      <4>3. Rendered(str)[y] = [text |-> str, row |-> y - LastLine, fg |-> fg]
        BY <3>2, RenderedIs
      <4> QED BY <1>2, <4>1, <4>2, <4>3
    <3>3. CASE ~ (y >= LastLine)
      <4>1. y + FontHeight \in Pixels
        BY <3>1, <3>3 DEF Pixels
      <4>2. fb[y + FontHeight] \in Line
        BY <4>1 DEF TypeOK
      <4>3. Rendered(str)[y] = fb[y + FontHeight]
        BY <3>3, RenderedIs
      <4> QED BY <4>2, <4>3
    <3> QED BY <3>2, <3>3
  <2>2. Rendered(str) = [y \in Pixels |-> Rendered(str)[y]]
    BY DEF Rendered, Draw
  <2> QED BY <1>3, <2>1, <2>2
<1>5. shown' \in Seq(Seq(Char \cup {Space}))
  BY <1>2, <1>3 DEF TypeOK
<1>6. fg' \in BOOLEAN
  BY DEF Write
<1>7. result' \in [Client -> {"none", "ok", "ebadproto"}]
  BY DEF Write, TypeOK
<1> QED BY <1>1, <1>4, <1>5, <1>6, <1>7 DEF TypeOK

LEMMA ComplainType ==
  ASSUME TypeOK, NEW c \in Client, NEW answer \in {"ok", "ebadproto"}, Complain(c, answer)
  PROVE  TypeOK'
<1>1. mr' \in [1..Width -> Char \cup Control \cup {NUL}]
  BY ReceivedType DEF Complain
<1>2. result' \in [Client -> {"none", "ok", "ebadproto"}]
  BY DEF Complain, TypeOK
<1> QED BY <1>1, <1>2 DEF Complain, TypeOK

LEMMA TypeStep == TypeOK /\ [Next]_vars => TypeOK'
<1>1. TypeOK /\ UNCHANGED vars => TypeOK'
  BY DEF TypeOK, vars
<1> QED BY <1>1, WriteType, ComplainType DEF Next, BadProtocol, Unsupported

(* The state of the log server has its types.                                *)
THEOREM TypeCorrect == Spec => []TypeOK
BY InitType, TypeStep, PTL DEF Spec

-----------------------------------------------------------------------------
(* A message scrolls every line of the history up by one, and takes the      *)
(* lowest for itself, in the colour the line above it does not have.         *)
LEMMA WriteKeepsHistory ==
  ASSUME IInv, NEW c \in Client, Write(c) PROVE ColourInv' /\ ScreenIsHistory'
<1> DEFINE str == Printable(StringIn(mr'))
           k   == Len(shown)
<1>1. str \in Seq(Char \cup {Space})
  <2>1. mr' \in [1..Width -> Char \cup Control \cup {NUL}]
    BY ReceivedType DEF Write, IInv
  <2> QED BY <2>1, StringInType, PrintableType
<1>2. fb' = Rendered(str) /\ shown' = Append(shown, str) /\ fg' = ~ fg
  BY DEF Write
<1> HIDE DEF str
<1>3. /\ k \in Nat /\ Len(shown') = k + 1 /\ shown'[k + 1] = str
      /\ \A i \in 1..k : shown'[i] = shown[i]
  BY <1>1, <1>2 DEF IInv, TypeOK
<1>4. /\ fg <=> k % 2 = 1
      /\ fg \in BOOLEAN
  BY DEF IInv, ColourInv, TypeOK
<1> HIDE DEF k
<1>5. ColourInv'
  <2>1. k % 2 = 1 <=> ~ ((k + 1) % 2 = 1)
    BY <1>3
  <2> QED BY <1>2, <1>3, <1>4, <2>1 DEF ColourInv
<1>6. ASSUME NEW y \in Pixels
      PROVE  fb'[y] = IF (Height - 1 - y) \div FontHeight >= Len(shown') THEN Blank
                      ELSE [text |-> shown'[Len(shown') - ((Height - 1 - y) \div FontHeight)],
                            row  |-> FontHeight - 1 - ((Height - 1 - y) % FontHeight),
                            fg   |-> (Len(shown') - ((Height - 1 - y) \div FontHeight)) % 2 = 0]
  <2> DEFINE up == Height - 1 - y
             n  == up \div FontHeight
             m  == up % FontHeight
  <2>1. /\ Height \in Nat /\ FontHeight \in Nat \ {0} /\ Height >= FontHeight
        /\ y \in Nat /\ y < Height /\ LastLine = Height - FontHeight /\ up \in Nat
    BY LogAssumption DEF Pixels, LastLine
  <2>2. CASE y >= LastLine
    <3>1. up \in 0..(FontHeight - 1) /\ FontHeight - 1 - up = y - LastLine
      BY <2>1, <2>2
    <3>2. n = 0 /\ m = up
      BY <2>1, <3>1, InLastLine
    <3>3. fb'[y] = [text |-> str, row |-> y - LastLine, fg |-> fg]
      BY <1>2, <2>2, RenderedIs DEF IInv
    <3>4. fg = ((k + 1) % 2 = 0)
      <4>1. k % 2 = 1 <=> (k + 1) % 2 = 0
        BY <1>3
      <4> QED BY <1>4, <4>1, Zenon
    <3> HIDE DEF up, n, m
    <3>5. ~ (n >= k + 1) /\ (k + 1) - n = k + 1
      BY <1>3, <3>2
    <3>6. fb'[y] = IF n >= k + 1 THEN Blank
                   ELSE [text |-> shown'[(k + 1) - n], row |-> FontHeight - 1 - m,
                         fg |-> ((k + 1) - n) % 2 = 0]
      BY <1>3, <3>1, <3>2, <3>3, <3>4, <3>5, Zenon
    <3> QED BY <1>3, <3>6, Zenon DEF up, n, m
  <2>3. CASE ~ (y >= LastLine)
    <3> DEFINE below == y + FontHeight
               low   == Height - 1 - below
               ln    == low \div FontHeight
               lm    == low % FontHeight
    <3>1. below \in Pixels /\ low \in Nat /\ up = low + FontHeight
      BY <2>1, <2>3 DEF Pixels
    <3>2. n = ln + 1 /\ m = lm /\ ln \in Nat
      <4> HIDE DEF up, low
      <4>1. up \in Nat /\ FontHeight \in Nat \ {0}
        BY <2>1, <3>1
      <4>2. up \div FontHeight = (low \div FontHeight) + 1 /\ up % FontHeight = low % FontHeight
        BY <3>1, <4>1, OneLineUp
      <4> QED BY <3>1, <4>1, <4>2, DivMod
    <3>3. fb'[y] = fb[below]
      BY <1>2, <2>3, RenderedIs DEF IInv
    <3>4. fb[below] = IF ln >= k THEN Blank
                      ELSE [text |-> shown[k - ln], row |-> FontHeight - 1 - lm,
                            fg |-> (k - ln) % 2 = 0]
      BY <3>1 DEF IInv, ScreenIsHistory, k
    <3> HIDE DEF up, n, m, below, low, ln, lm
    <3>5. n >= k + 1 <=> ln >= k
      BY <1>3, <3>2
    <3>6. ~ (ln >= k) => (k + 1) - n = k - ln /\ shown'[k - ln] = shown[k - ln]
      BY <1>3, <3>2
    <3>7. fb'[y] = IF n >= k + 1 THEN Blank
                   ELSE [text |-> shown'[(k + 1) - n], row |-> FontHeight - 1 - m,
                         fg |-> ((k + 1) - n) % 2 = 0]
      BY <3>2, <3>3, <3>4, <3>5, <3>6, Zenon
    <3> QED BY <1>3, <3>7, Zenon DEF up, n, m
  <2> QED BY <2>2, <2>3
<1>7. ScreenIsHistory'
  BY <1>6 DEF ScreenIsHistory
<1> QED BY <1>5, <1>7

LEMMA HistoryStep == IInv /\ [Next]_vars => IInv'
<1>1. IInv /\ UNCHANGED <<fb, fg, shown>> => ColourInv' /\ ScreenIsHistory'
  BY DEF IInv, ColourInv, ScreenIsHistory
<1>2. IInv /\ [Next]_vars => ColourInv' /\ ScreenIsHistory'
  BY <1>1, WriteKeepsHistory DEF Next, BadProtocol, Unsupported, Complain, vars
<1> QED BY <1>2, TypeStep DEF IInv

(* No line of pixels is lost, repeated or left behind by the scrolling.      *)
THEOREM ScreenShowsHistory == Spec => []ScreenIsHistory
<1>1. Init => IInv
  <2> SUFFICES ASSUME Init PROVE ColourInv /\ ScreenIsHistory
    BY InitType DEF IInv
  <2>1. shown = <<>> /\ Len(shown) = 0 /\ ~ fg
    BY DEF Init
  <2>2. ColourInv
    BY <2>1 DEF ColourInv
  <2>3. ASSUME NEW y \in Pixels
        PROVE  fb[y] = Blank /\ (Height - 1 - y) \div FontHeight >= Len(shown)
    <3>1. Height - 1 - y \in Nat /\ FontHeight \in Nat \ {0}
      BY LogAssumption DEF Pixels
    <3>2. (Height - 1 - y) \div FontHeight \in Nat
      BY <3>1, DivMod
    <3> QED BY <2>1, <3>2 DEF Init
  <2> QED BY <2>2, <2>3 DEF ScreenIsHistory
<1>2. IInv => ScreenIsHistory
  BY DEF IInv
<1> QED BY <1>1, <1>2, HistoryStep, PTL DEF Spec

-----------------------------------------------------------------------------
LEMMA WriteShowsAll == ASSUME TypeOK, NEW c \in Client, Write(c) PROVE ShowsAllOfMessage'
<1>1. PICK text \in Texts, fill \in Char \cup {NUL} :
        mr' = Received(text, fill) /\ sent' = text
  BY DEF Write
<1> DEFINE str == Printable(StringIn(mr'))
<1>2. IsPrefix(Printable(sent'), str)
  BY <1>1, NothingCutOff
<1>3. str \in Seq(Char \cup {Space})
  <2>1. mr' \in [1..Width -> Char \cup Control \cup {NUL}]
    BY <1>1, ReceivedType
  <2> QED BY <2>1, StringInType, PrintableType
<1>4. shown' = Append(shown, str)
  BY DEF Write
<1> HIDE DEF str
<1>5. Last(shown') = str
  BY <1>3, <1>4 DEF TypeOK, Last
<1> QED BY <1>2, <1>5 DEF ShowsAllOfMessage

(* A message is shown from its first character to its last, whatever the     *)
(* registers held before and whatever the server logged in between.          *)
THEOREM MessagesShownWhole == Spec => []ShowsAllOfMessage
<1>1. Init => ShowsAllOfMessage
  BY DEF Init, ShowsAllOfMessage
<1>2. TypeOK /\ ShowsAllOfMessage /\ [Next]_vars => ShowsAllOfMessage'
  <2>1. ShowsAllOfMessage /\ UNCHANGED <<sent, shown>> => ShowsAllOfMessage'
    BY DEF ShowsAllOfMessage
  <2> QED BY <2>1, WriteShowsAll DEF Next, BadProtocol, Unsupported, Complain, vars
<1> QED BY <1>1, <1>2, TypeCorrect, PTL DEF Spec
=============================================================================
