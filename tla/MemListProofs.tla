--------------------------- MODULE MemListProofs ----------------------------
(* malloc and free for any number of threads, every size of a region, every  *)
(* number of regions and every set of sizes: the types always, the rest until *)
(* the first flaw.                                                           *)
EXTENDS MemList, FiniteSetTheorems, TLAPS

-----------------------------------------------------------------------------
(* A circular list: set S, linked by the headers h, beginning at head.       *)
Memory == [Addr -> [size : Nat, prev : Pointer, next : Pointer]]

Circle(h, S, head) ==
  /\ S \subseteq Addr
  /\ S = {} => head = NULL
  /\ S # {} => head \in S
  /\ \A a \in S : /\ h[a].next \in S /\ h[a].prev \in S
                  /\ h[h[a].next].prev = a /\ h[h[a].prev].next = a
  /\ \A C \in SUBSET S : C # {} /\ (\A a \in C : h[a].next \in C) => C = S

Ordered(h, S, head) ==
  \A a, c \in S : /\ head <= a
                  /\ h[a].next = head => c <= a
                  /\ h[a].next # head => a < h[a].next /\ (c <= a \/ h[a].next <= c)

(* e comes behind p, or is gone.                                             *)
Between(g, h, S, e, p) ==
  /\ g[e].next = h[p].next /\ g[e].prev = p
  /\ \A a \in S : /\ g[a].next = IF a = p THEN e ELSE h[a].next
                  /\ g[a].prev = IF a = h[p].next THEN e ELSE h[a].prev

Without(g, h, S, e) ==
  \A a \in S \ {e} : /\ g[a].next = IF a = h[e].prev THEN h[e].next ELSE h[a].next
                     /\ g[a].prev = IF a = h[e].next THEN h[e].prev ELSE h[a].prev

LEMMA AddrFacts == Addr \subseteq Nat \ {0} /\ NULL \notin Addr
<1>1. \A b \in Base : Region(b) \subseteq Nat \ {0}
  BY MemListAssumption DEF Region, HDR
<1> QED BY <1>1 DEF Addr, NULL

LEMMA BetweenCircle ==
  ASSUME NEW g, NEW h, NEW S, NEW head, NEW hd, NEW e, NEW p,
         Circle(h, S, head), e \in Addr \ S, p \in S, Between(g, h, S, e, p), hd \in S \cup {e}
  PROVE  Circle(g, S \cup {e}, hd)
<1> DEFINE T == S \cup {e}
           q == h[p].next
<1>1. q \in S /\ h[q].prev = p
  BY DEF Circle
<1>2. g[e].next = q /\ g[e].prev = p
  BY DEF Between
<1>3. \A a \in S : /\ g[a].next = IF a = p THEN e ELSE h[a].next
                   /\ g[a].prev = IF a = q THEN e ELSE h[a].prev
  BY DEF Between
<1>4. \A a \in S : /\ h[a].next \in S /\ h[a].prev \in S
                   /\ h[h[a].next].prev = a /\ h[h[a].prev].next = a
  BY DEF Circle
<1> HIDE DEF q
<1>5. \A a \in T : /\ g[a].next \in T /\ g[a].prev \in T
                   /\ g[g[a].next].prev = a /\ g[g[a].prev].next = a
  <2>1. ASSUME NEW a \in S
        PROVE  /\ g[a].next \in T /\ g[a].prev \in T
               /\ g[g[a].next].prev = a /\ g[g[a].prev].next = a
    <3>1. h[a].next = q <=> a = p
      BY <1>1, <1>4 DEF q
    <3>2. h[a].prev = p <=> a = q
      BY <1>1, <1>4 DEF q
    <3> QED BY <1>1, <1>2, <1>3, <1>4, <3>1, <3>2
  <2>2. /\ g[e].next \in T /\ g[e].prev \in T
        /\ g[g[e].next].prev = e /\ g[g[e].prev].next = e
    BY <1>1, <1>2, <1>3
  <2> QED BY <2>1, <2>2
<1>6. ASSUME NEW C \in SUBSET T, C # {}, \A a \in C : g[a].next \in C
      PROVE  C = T
  <2> DEFINE D == C \ {e}
  <2>1. D \in SUBSET S
    OBVIOUS
  <2>2. D # {}
    BY <1>1, <1>2, <1>6
  <2>3. ASSUME NEW a \in D PROVE h[a].next \in D
    <3>1. CASE a = p
      <4>1. e \in C
        BY <1>3, <1>6, <3>1
      <4>2. q \in C
        BY <1>2, <1>6, <4>1
      <4> QED BY <1>1, <3>1, <4>2 DEF q
    <3>2. CASE a # p
      BY <1>3, <1>4, <1>6, <3>2
    <3> QED BY <3>1, <3>2
  <2>4. D = S
    BY <2>1, <2>2, <2>3 DEF Circle
  <2>5. e \in C
    BY <1>3, <1>6, <2>4
  <2> QED BY <2>4, <2>5
<1>7. T \subseteq Addr /\ T # {} /\ hd \in T
  BY DEF Circle
<1> QED BY <1>5, <1>6, <1>7 DEF Circle

LEMMA WithoutCircle ==
  ASSUME NEW g, NEW h, NEW S, NEW head, NEW hd, NEW e \in S,
         Circle(h, S, head), Without(g, h, S, e), S # {e}, hd \in S \ {e}
  PROVE  /\ Circle(g, S \ {e}, hd)
         /\ h[e].prev \in S \ {e} /\ h[e].next \in S \ {e}
<1> DEFINE T == S \ {e}
           p == h[e].prev
           q == h[e].next
<1>1. p \in S /\ q \in S /\ h[p].next = e /\ h[q].prev = e
  BY DEF Circle
<1>2. \A a \in T : /\ g[a].next = IF a = p THEN q ELSE h[a].next
                   /\ g[a].prev = IF a = q THEN p ELSE h[a].prev
  BY DEF Without
<1>3. \A a \in S : /\ h[a].next \in S /\ h[a].prev \in S
                   /\ h[h[a].next].prev = a /\ h[h[a].prev].next = a
  BY DEF Circle
<1>4. \A C \in SUBSET S : C # {} /\ (\A a \in C : h[a].next \in C) => C = S
  BY DEF Circle
<1>5. q # e
  <2>1. q = e => (\A a \in {e} : h[a].next \in {e})
    OBVIOUS
  <2> QED BY <1>4, <2>1
<1>6. p # e
  BY <1>1, <1>5
<1> HIDE DEF p, q
<1>7. ASSUME NEW a \in T
      PROVE  /\ g[a].next \in T /\ g[a].prev \in T
             /\ g[g[a].next].prev = a /\ g[g[a].prev].next = a
  <2>1. h[a].next = e <=> a = p
    BY <1>1, <1>3 DEF p
  <2>2. h[a].prev = e <=> a = q
    BY <1>1, <1>3 DEF q
  <2>3. h[a].next = q => a = e
    BY <1>1, <1>3
  <2>4. h[a].prev = p => a = e
    BY <1>1, <1>3
  <2> QED BY <1>1, <1>2, <1>3, <1>5, <1>6, <2>1, <2>2, <2>3, <2>4
<1>8. ASSUME NEW C \in SUBSET T, C # {}, \A a \in C : g[a].next \in C
      PROVE  C = T
  <2>1. CASE p \in C
    <3>1. \A a \in C \cup {e} : h[a].next \in C \cup {e}
      BY <1>1, <1>2, <1>6, <1>8, <2>1 DEF q
    <3>2. C \cup {e} \in SUBSET S /\ C \cup {e} # {}
      OBVIOUS
    <3>3. C \cup {e} = S
      BY <1>4, <3>1, <3>2
    <3> QED BY <3>3
  <2>2. CASE p \notin C
    <3>1. \A a \in C : h[a].next \in C
      BY <1>2, <1>8, <2>2
    <3>2. C = S
      BY <1>4, <1>8, <3>1
    <3> QED BY <3>2
  <2> QED BY <2>1, <2>2
<1>9. T \subseteq Addr
  BY DEF Circle
<1>10. p \in T /\ q \in T
  BY <1>1, <1>5, <1>6
<1> QED BY <1>7, <1>8, <1>9, <1>10 DEF Circle, p, q

LEMMA SameCircle ==
  ASSUME NEW g, NEW h, NEW S, NEW head, Circle(h, S, head),
         \A a \in S : g[a].next = h[a].next /\ g[a].prev = h[a].prev
  PROVE  Circle(g, S, head)
<1>1. \A C \in SUBSET S : C # {} /\ (\A a \in C : g[a].next \in C) => C = S
  BY DEF Circle
<1>2. \A a \in S : /\ g[a].next \in S /\ g[a].prev \in S
                   /\ g[g[a].next].prev = a /\ g[g[a].prev].next = a
  BY DEF Circle
<1> QED BY <1>1, <1>2 DEF Circle

LEMMA OneInCircle ==
  ASSUME NEW g, NEW e \in Addr, g[e].next = e, g[e].prev = e
  PROVE  Circle(g, {e}, e)
<1>1. \A C \in SUBSET {e} : C # {} => C = {e}
  OBVIOUS
<1> QED BY <1>1 DEF Circle

LEMMA AloneInCircle ==
  ASSUME NEW h, NEW S, NEW head, NEW e \in S, Circle(h, S, head), e = head, h[e].next = head
  PROVE  S = {e}
<1>1. {e} \in SUBSET S /\ \A a \in {e} : h[a].next \in {e}
  OBVIOUS
<1> QED BY <1>1 DEF Circle

-----------------------------------------------------------------------------
(* The helpers of the program on such a list.                                *)
LEMMA RemovedIs ==
  ASSUME NEW h \in Memory, NEW S, NEW head, NEW e \in S, Circle(h, S, head)
  PROVE  /\ Removed(h, head, e) \in Memory
         /\ \A a \in Addr : Removed(h, head, e)[a].size = h[a].size
         /\ \A a \in Addr \ S : Removed(h, head, e)[a] = h[a]
         /\ Circle(Removed(h, head, e), S \ {e}, RemovedHead(h, head, e))
         /\ S # {e} => Without(Removed(h, head, e), h, S, e)
<1> DEFINE g  == Removed(h, head, e)
           p  == h[e].prev
           q  == h[e].next
           h1 == [h EXCEPT ![p].next = q]
           h2 == [h1 EXCEPT ![h1[e].next].prev = h1[e].prev]
           k  == IF Single(h, head, e) THEN h ELSE h2
<1>1. /\ p \in S /\ q \in S /\ h[p].next = e /\ h[q].prev = e /\ S \subseteq Addr
      /\ head \in S
  BY DEF Circle
<1>2. g = [k EXCEPT ![e].next = NULL, ![e].prev = NULL]
  BY DEF Removed
<1>3. Single(h, head, e) => S = {e}
  BY AloneInCircle DEF Single
<1>4. S = {e} => Single(h, head, e)
  BY <1>1 DEF Single
<1>5. S # {e} => p # e /\ q # e
  <2>1. q = e \/ p = e => \A a \in {e} : h[a].next \in {e}
    BY <1>1
  <2>2. {e} \in SUBSET S /\ {e} # {}
    OBVIOUS
  <2> QED BY <2>1, <2>2 DEF Circle
<1> HIDE DEF p, q
<1>6. h1 \in Memory /\ h1[e] = [h[e] EXCEPT !.next = IF e = p THEN q ELSE @]
  BY <1>1, AddrFacts DEF Memory, Pointer
<1>7. \A a \in Addr : /\ h1[a].next = (IF a = p THEN q ELSE h[a].next)
                      /\ h1[a].prev = h[a].prev /\ h1[a].size = h[a].size
  BY <1>1 DEF Memory
<1> HIDE DEF h1
<1>8. S # {e} => h1[e].next = q /\ h1[e].prev = p
  BY <1>1, <1>5, <1>7 DEF p, q
<1>9. S # {e} => h2 = [h1 EXCEPT ![q].prev = p]
  BY <1>8
<1> HIDE DEF h2
<1>10. S # {e} =>
         /\ h2 \in Memory
         /\ \A a \in Addr : /\ h2[a].next = (IF a = p THEN q ELSE h[a].next)
                            /\ h2[a].prev = (IF a = q THEN p ELSE h[a].prev)
                            /\ h2[a].size = h[a].size
         /\ \A a \in Addr \ {p, q} : h2[a] = h[a]
  <2> SUFFICES ASSUME S # {e}
               PROVE  /\ h2 \in Memory
                      /\ \A a \in Addr : /\ h2[a].next = (IF a = p THEN q ELSE h[a].next)
                                         /\ h2[a].prev = (IF a = q THEN p ELSE h[a].prev)
                                         /\ h2[a].size = h[a].size
                      /\ \A a \in Addr \ {p, q} : h2[a] = h[a]
    OBVIOUS
  <2>1. h2 \in Memory
    BY <1>1, <1>6, <1>9, AddrFacts DEF Memory, Pointer
  <2>2. \A a \in Addr : /\ h2[a].next = h1[a].next
                        /\ h2[a].prev = (IF a = q THEN p ELSE h1[a].prev)
                        /\ h2[a].size = h1[a].size
    BY <1>6, <1>9 DEF Memory
  <2>3. \A a \in Addr \ {p, q} : h2[a] = h[a]
    BY <1>6, <1>9 DEF Memory, h1
  <2> QED BY <1>7, <2>1, <2>2, <2>3
<1>11. k = IF S = {e} THEN h ELSE h2
  BY <1>3, <1>4
<1>12. k \in Memory
  BY <1>10, <1>11
<1> HIDE DEF k, g
<1>13. /\ g \in Memory
       /\ \A a \in Addr : /\ g[a].next = (IF a = e THEN NULL ELSE k[a].next)
                          /\ g[a].prev = (IF a = e THEN NULL ELSE k[a].prev)
                          /\ g[a].size = k[a].size
       /\ \A a \in Addr \ {e} : g[a] = k[a]
  <2>1. e \in Addr /\ NULL \in Pointer
    BY <1>1 DEF Pointer
  <2>2. [k EXCEPT ![e].next = NULL, ![e].prev = NULL] =
          [k EXCEPT ![e] = [k[e] EXCEPT !.next = NULL, !.prev = NULL]]
    BY <1>12, <2>1 DEF Memory
  <2> DEFINE c == [k[e] EXCEPT !.next = NULL, !.prev = NULL]
  <2>3. /\ c \in [size : Nat, prev : Pointer, next : Pointer]
        /\ c.next = NULL /\ c.prev = NULL /\ c.size = k[e].size
    BY <1>12, <2>1 DEF Memory
  <2> HIDE DEF c
  <2>4. g = [k EXCEPT ![e] = c]
    BY <1>2, <2>2 DEF c
  <2> QED BY <1>12, <2>1, <2>3, <2>4 DEF Memory
<1>14. \A a \in Addr : g[a].size = h[a].size
  BY <1>10, <1>11, <1>13
<1>15. \A a \in Addr \ S : g[a] = h[a]
  BY <1>1, <1>10, <1>11, <1>13
<1>16. S # {e} => Without(g, h, S, e)
  <2>1. S # {e} => \A a \in S \ {e} : /\ g[a].next = (IF a = p THEN q ELSE h[a].next)
                                      /\ g[a].prev = (IF a = q THEN p ELSE h[a].prev)
    BY <1>1, <1>10, <1>11, <1>13
  <2> QED BY <2>1 DEF Without, p, q
<1>17. Circle(g, S \ {e}, RemovedHead(h, head, e))
  <2>1. CASE S = {e}
    <3>1. RemovedHead(h, head, e) = NULL /\ S \ {e} = {}
      BY <1>4, <2>1 DEF RemovedHead
    <3> QED BY <3>1 DEF Circle
  <2>2. CASE S # {e}
    <3>1. RemovedHead(h, head, e) = IF e = head THEN q ELSE head
      BY <1>3, <2>2 DEF RemovedHead, q
    <3>2. RemovedHead(h, head, e) \in S \ {e}
      BY <1>1, <1>5, <2>2, <3>1
    <3> QED BY <1>16, <2>2, <3>2, WithoutCircle
  <2> QED BY <2>1, <2>2
<1> QED BY <1>13, <1>14, <1>15, <1>16, <1>17 DEF g

LEMMA LinkedIs ==
  ASSUME NEW h \in Memory, NEW S, NEW head, Circle(h, S, head),
         NEW e \in Addr \ S, NEW r \in S
  PROVE  /\ Linked(h, e, r) \in Memory
         /\ \A a \in Addr : Linked(h, e, r)[a].size = h[a].size
         /\ \A a \in Addr \ (S \cup {e}) : Linked(h, e, r)[a] = h[a]
         /\ Between(Linked(h, e, r), h, S, e, h[r].prev)
<1> DEFINE p  == h[r].prev
           h1 == [h EXCEPT ![e].next = r, ![e].prev = p]
           h2 == [h1 EXCEPT ![h1[r].prev].next = e]
           g  == [h2 EXCEPT ![r].prev = e]
<1>1. /\ p \in S /\ h[p].next = r /\ S \subseteq Addr /\ e \notin S
  BY DEF Circle
<1>2. Linked(h, e, r) = g
  BY DEF Linked
<1> HIDE DEF p
<1>3. /\ h1 \in Memory
      /\ h1[e].next = r /\ h1[e].prev = p /\ h1[e].size = h[e].size
      /\ \A a \in Addr \ {e} : h1[a] = h[a]
  BY <1>1 DEF Memory, Pointer
<1>4. h1[r].prev = p
  BY <1>1, <1>3 DEF p
<1> HIDE DEF h1
<1>5. /\ h2 \in Memory
      /\ \A a \in Addr : /\ h2[a].next = (IF a = p THEN e ELSE h1[a].next)
                         /\ h2[a].prev = h1[a].prev /\ h2[a].size = h1[a].size
      /\ \A a \in Addr \ {p} : h2[a] = h1[a]
  BY <1>1, <1>3, <1>4 DEF Memory, Pointer
<1> HIDE DEF h2
<1>6. /\ g \in Memory
      /\ \A a \in Addr : /\ g[a].prev = (IF a = r THEN e ELSE h2[a].prev)
                         /\ g[a].next = h2[a].next /\ g[a].size = h2[a].size
      /\ \A a \in Addr \ {r} : g[a] = h2[a]
  BY <1>1, <1>5 DEF Memory, Pointer
<1> HIDE DEF g
<1>7. \A a \in Addr : g[a].size = h[a].size
  BY <1>3, <1>5, <1>6
<1>8. \A a \in Addr \ (S \cup {e}) : g[a] = h[a]
  BY <1>1, <1>3, <1>5, <1>6
<1>9. Between(g, h, S, e, p)
  <2>1. g[e].next = h[p].next /\ g[e].prev = p
    BY <1>1, <1>3, <1>5, <1>6
  <2>2. \A a \in S : /\ g[a].next = (IF a = p THEN e ELSE h[a].next)
                     /\ g[a].prev = (IF a = r THEN e ELSE h[a].prev)
    BY <1>1, <1>3, <1>5, <1>6
  <2> QED BY <1>1, <2>1, <2>2 DEF Between
<1> QED BY <1>2, <1>6, <1>7, <1>8, <1>9 DEF p

LEMMA ExchangedIs ==
  ASSUME NEW h \in Memory, NEW S, NEW head, Circle(h, S, head),
         NEW e \in Addr \ S, NEW r \in S, S # {r}
  PROVE  LET h1 == Linked(h, e, r)
             g  == Exchanged(h1, e, r)
         IN /\ h1[r].next = h[r].next
            /\ g \in Memory
            /\ \A a \in Addr : g[a].size = h[a].size
            /\ \A a \in Addr \ (S \cup {e}) : g[a] = h[a]
            /\ Between(g, h, S, e, r)
<1> DEFINE p  == h[r].prev
           q  == h[r].next
           l  == Linked(h, e, r)
           h1 == [l EXCEPT ![e].next = l[r].next]
           h2 == [h1 EXCEPT ![r].prev = h1[e].prev]
           h3 == [h2 EXCEPT ![h2[r].next].prev = e]
           h4 == [h3 EXCEPT ![r].next = e]
           h5 == [h4 EXCEPT ![h4[e].prev].next = r]
           g  == [h5 EXCEPT ![e].prev = r]
<1>1. /\ p \in S /\ q \in S /\ h[p].next = r /\ h[q].prev = r /\ S \subseteq Addr
      /\ e \notin S /\ e \in Addr
  BY DEF Circle
<1>2. p # r /\ q # r
  <2>1. q = r \/ p = r => \A a \in {r} : h[a].next \in {r}
    BY <1>1
  <2>2. {r} \in SUBSET S /\ {r} # {}
    OBVIOUS
  <2> QED BY <2>1, <2>2 DEF Circle
<1>3. Exchanged(l, e, r) = g
  BY DEF Exchanged
<1>4. /\ l \in Memory
      /\ \A a \in Addr : l[a].size = h[a].size
      /\ \A a \in Addr \ (S \cup {e}) : l[a] = h[a]
      /\ Between(l, h, S, e, p)
  BY LinkedIs
<1> HIDE DEF p, q, l
<1>5. /\ l[e].next = r /\ l[e].prev = p /\ l[r].next = q
      /\ \A a \in S : /\ l[a].next = IF a = p THEN e ELSE h[a].next
                      /\ l[a].prev = IF a = r THEN e ELSE h[a].prev
  BY <1>1, <1>2, <1>4 DEF Between, q
<1>6. /\ h1 \in Memory
      /\ h1[e].next = q /\ h1[e].prev = p /\ h1[e].size = h[e].size
      /\ \A a \in Addr \ {e} : h1[a] = l[a]
  BY <1>1, <1>4, <1>5 DEF Memory, Pointer
<1> HIDE DEF h1
<1>7. /\ h2 \in Memory
      /\ h2[r].prev = p /\ h2[r].next = q /\ h2[r].size = h[r].size
      /\ \A a \in Addr \ {r} : h2[a] = h1[a]
  BY <1>1, <1>4, <1>5, <1>6 DEF Memory, Pointer
<1> HIDE DEF h2
<1>8. /\ h3 \in Memory
      /\ h3[q].prev = e /\ h3[q].next = h2[q].next /\ h3[q].size = h2[q].size
      /\ \A a \in Addr \ {q} : h3[a] = h2[a]
  BY <1>1, <1>7 DEF Memory, Pointer
<1> HIDE DEF h3
<1>9. /\ h4 \in Memory
      /\ h4[r].next = e /\ h4[r].prev = p /\ h4[r].size = h[r].size
      /\ \A a \in Addr \ {r} : h4[a] = h3[a]
  BY <1>1, <1>2, <1>7, <1>8 DEF Memory, Pointer
<1> HIDE DEF h4
<1>10. /\ h5 \in Memory
       /\ h5[p].next = r /\ h5[p].prev = h4[p].prev /\ h5[p].size = h4[p].size
       /\ \A a \in Addr \ {p} : h5[a] = h4[a]
  <2>1. h4[e].prev = p
    BY <1>1, <1>6, <1>7, <1>8, <1>9
  <2> QED BY <1>1, <1>9, <2>1 DEF Memory, Pointer
<1> HIDE DEF h5
<1>11. /\ g \in Memory
       /\ g[e].prev = r /\ g[e].next = h5[e].next /\ g[e].size = h5[e].size
       /\ \A a \in Addr \ {e} : g[a] = h5[a]
  BY <1>1, <1>10 DEF Memory, Pointer
<1> HIDE DEF g
<1>12. ASSUME NEW a \in Addr \ {e}
       PROVE  /\ g[a].size = l[a].size
              /\ a \in S => g[a].next = (IF a = r THEN e ELSE h[a].next)
              /\ a \in S => g[a].prev = (IF a = q THEN e ELSE h[a].prev)
              /\ a \notin S => g[a] = l[a]
  <2>1. CASE a = r
    BY <1>1, <1>2, <1>4, <1>9, <1>10, <1>11, <2>1 DEF p
  <2>2. CASE a = q /\ a # p
    BY <1>1, <1>2, <1>5, <1>6, <1>7, <1>8, <1>9, <1>10, <1>11, <2>2
  <2>3. CASE a = p /\ a # q
    BY <1>1, <1>2, <1>5, <1>6, <1>7, <1>8, <1>9, <1>10, <1>11, <2>3
  <2>4. CASE a = p /\ a = q
    BY <1>1, <1>2, <1>5, <1>6, <1>7, <1>8, <1>9, <1>10, <1>11, <2>4
  <2>5. CASE a # p /\ a # q /\ a # r
    BY <1>1, <1>5, <1>6, <1>7, <1>8, <1>9, <1>10, <1>11, <2>5
  <2> QED BY <2>1, <2>2, <2>3, <2>4, <2>5
<1>13. g[e].next = q /\ g[e].prev = r /\ g[e].size = h[e].size
  BY <1>1, <1>2, <1>6, <1>7, <1>8, <1>9, <1>10, <1>11
<1>14. Between(g, h, S, e, r)
  BY <1>1, <1>12, <1>13 DEF Between, q
<1>15. \A a \in Addr : g[a].size = h[a].size
  BY <1>4, <1>12, <1>13
<1>16. \A a \in Addr \ (S \cup {e}) : g[a] = h[a]
  BY <1>4, <1>12
<1>17. g = Exchanged(l, e, r)
  BY <1>3 DEF g, h5, h4, h3, h2, h1
<1> QED BY <1>5, <1>11, <1>14, <1>15, <1>16, <1>17 DEF l, q

LEMMA InsertedIs ==
  ASSUME NEW h \in Memory, NEW S, NEW head, Circle(h, S, head),
         NEW e \in Addr \ S, NEW r \in S, NEW before \in BOOLEAN,
         before => h[r].next = head
  PROVE  /\ Inserted(h, head, e, r, before) \in Memory
         /\ \A a \in Addr : Inserted(h, head, e, r, before)[a].size = h[a].size
         /\ \A a \in Addr \ (S \cup {e}) : Inserted(h, head, e, r, before)[a] = h[a]
         /\ Between(Inserted(h, head, e, r, before), h, S, e,
                    IF before THEN r ELSE h[r].prev)
         /\ Circle(Inserted(h, head, e, r, before), S \cup {e},
                   InsertedHead(head, e, r, before))
<1> DEFINE g == Inserted(h, head, e, r, before)
           p == IF before THEN r ELSE h[r].prev
           x == IF before /\ S # {r} THEN Exchanged(Linked(h, e, r), e, r)
                ELSE Linked(h, e, r)
<1>0. head \in S /\ p \in S /\ e \notin S /\ h[r].next \in S /\ h[r].prev \in S
  BY DEF Circle
<1>1. /\ x \in Memory
      /\ \A a \in Addr : x[a].size = h[a].size
      /\ \A a \in Addr \ (S \cup {e}) : x[a] = h[a]
      /\ Between(x, h, S, e, p)
  <2>1. CASE before /\ S # {r}
    BY <2>1, ExchangedIs
  <2>2. CASE before /\ S = {r}
    <3>1. p = h[r].prev
      BY <1>0, <2>2
    <3> QED BY <2>2, <3>1, LinkedIs
  <2>3. CASE ~ before
    BY <2>3, LinkedIs
  <2> QED BY <2>1, <2>2, <2>3
<1>2. g = x
  <2>1. CASE before /\ S # {r}
    <3>1. Linked(h, e, r)[r].next = head
      BY <2>1, ExchangedIs
    <3> QED BY <2>1, <3>1 DEF Inserted
  <2>2. CASE before /\ S = {r}
    <3>1. Between(Linked(h, e, r), h, S, e, h[r].prev)
      BY LinkedIs
    <3>2. Linked(h, e, r)[r].next = e
      BY <1>0, <2>2, <3>1 DEF Between
    <3>3. Linked(h, e, r)[r].next # head
      BY <1>0, <3>2
    <3> QED BY <2>2, <3>3 DEF Inserted
  <2>3. CASE ~ before
    BY <2>3 DEF Inserted
  <2> QED BY <2>1, <2>2, <2>3
<1> HIDE DEF x, g, p
<1>3. InsertedHead(head, e, r, before) \in S \cup {e}
  BY <1>0 DEF InsertedHead
<1>4. Circle(g, S \cup {e}, InsertedHead(head, e, r, before))
  BY <1>0, <1>1, <1>2, <1>3, BetweenCircle
<1> QED BY <1>1, <1>2, <1>4 DEF g, p

(* The search for a place stops at one that keeps the order.                 *)
LEMMA InsertedOrdered ==
  ASSUME NEW g, NEW h, NEW S, NEW head, Circle(h, S, head), Ordered(h, S, head),
         NEW e \in Addr \ S, NEW r \in S, \A a \in S : a < r => a < e,
         r < e => h[r].next = head,
         Between(g, h, S, e, IF r < e THEN r ELSE h[r].prev)
  PROVE  Ordered(g, S \cup {e}, InsertedHead(head, e, r, r < e))
<1> DEFINE p  == IF r < e THEN r ELSE h[r].prev
           q  == h[p].next
           hd == IF r = head /\ ~ (r < e) THEN e ELSE head
<1>1. S \subseteq Nat /\ e \in Nat /\ e \notin S /\ r # e
  BY AddrFacts DEF Circle
<1>2. head \in S /\ \A a \in S : /\ h[a].next \in S /\ h[a].prev \in S
                                 /\ h[h[a].next].prev = a /\ h[h[a].prev].next = a
  BY DEF Circle
<1>3. \A a, c \in S : /\ head <= a
                      /\ h[a].next = head => c <= a
                      /\ h[a].next # head => a < h[a].next /\ (c <= a \/ h[a].next <= c)
  BY DEF Ordered
<1>4. p \in S /\ q \in S /\ h[q].prev = p
  BY <1>2
<1>5. g[e].next = q /\ \A a \in S : g[a].next = IF a = p THEN e ELSE h[a].next
  BY DEF Between
<1>6. CASE r < e
  <2>1. p = r /\ q = head /\ hd = head /\ \A a \in S : a <= r
    BY <1>3, <1>6
  <2> HIDE DEF p, q, hd
  <2>2. \A a \in S : a # r => h[a].next # head
    BY <1>2, <1>4, <2>1
  <2>3. ASSUME NEW a \in S \cup {e}, NEW c \in S \cup {e}
        PROVE  /\ hd <= a
               /\ g[a].next = hd => c <= a
               /\ g[a].next # hd => a < g[a].next /\ (c <= a \/ g[a].next <= c)
    <3>1. \A x \in S : x < e
      BY <1>1, <1>6, <2>1
    <3>2. CASE a = e
      BY <1>1, <1>2, <1>3, <1>5, <2>1, <3>1, <3>2
    <3>3. CASE a = r
      BY <1>1, <1>2, <1>3, <1>5, <1>6, <2>1, <3>1, <3>3
    <3>4. CASE a \in S /\ a # r
      <4>1. /\ g[a].next = h[a].next /\ h[a].next # head /\ h[a].next \in S
        BY <1>2, <1>5, <2>1, <2>2, <3>4
      <4>2. a < h[a].next /\ head <= a
        BY <1>3, <3>4, <4>1
      <4>3. c = e => h[a].next <= c
        <5>1. h[a].next < e /\ h[a].next \in Nat /\ e \in Nat
          BY <1>1, <3>1, <4>1
        <5> QED BY <5>1
      <4>4. c \in S => c <= a \/ h[a].next <= c
        BY <1>3, <3>4, <4>1
      <4> QED BY <2>1, <4>1, <4>2, <4>3, <4>4
    <3> QED BY <3>2, <3>3, <3>4
  <2> QED BY <2>3 DEF Ordered, hd, InsertedHead
<1>7. CASE ~ (r < e) /\ r = head
  <2>1. p = h[r].prev /\ q = r /\ hd = e /\ h[p].next = head
    BY <1>2, <1>7
  <2>2. e < r /\ \A a \in S : e < a
    BY <1>1, <1>2, <1>3, <1>7
  <2> HIDE DEF p, q, hd
  <2>3. \A a \in S : a # p => h[a].next # head
    BY <1>2, <1>4, <1>7, <2>1
  <2>4. ASSUME NEW a \in S \cup {e}, NEW c \in S \cup {e}
        PROVE  /\ hd <= a
               /\ g[a].next = hd => c <= a
               /\ g[a].next # hd => a < g[a].next /\ (c <= a \/ g[a].next <= c)
    <3>1. CASE a = e
      BY <1>1, <1>2, <1>3, <1>5, <1>7, <2>1, <2>2, <3>1
    <3>2. CASE a = p
      BY <1>1, <1>2, <1>3, <1>4, <1>5, <1>7, <2>1, <2>2, <3>2
    <3>3. CASE a \in S /\ a # p
      BY <1>1, <1>2, <1>3, <1>5, <1>7, <2>1, <2>2, <2>3, <3>3
    <3> QED BY <3>1, <3>2, <3>3
  <2> QED BY <2>4 DEF Ordered, hd, InsertedHead
<1>8. CASE ~ (r < e) /\ r # head
  <2>1. p = h[r].prev /\ q = r /\ hd = head /\ h[p].next = r
    BY <1>2, <1>8
  <2> HIDE DEF p, q, hd
  <2>2. p < e /\ e < r /\ \A a \in S : a <= p \/ r <= a
    BY <1>1, <1>3, <1>4, <1>8, <2>1
  <2>4. ASSUME NEW a \in S \cup {e}, NEW c \in S \cup {e}
        PROVE  /\ hd <= a
               /\ g[a].next = hd => c <= a
               /\ g[a].next # hd => a < g[a].next /\ (c <= a \/ g[a].next <= c)
    <3>1. CASE a = e
      BY <1>1, <1>2, <1>3, <1>4, <1>5, <1>8, <2>1, <2>2, <3>1
    <3>2. CASE a = p
      BY <1>1, <1>2, <1>3, <1>4, <1>5, <1>8, <2>1, <2>2, <3>2
    <3>3. CASE a \in S /\ a # p
      <4>1. h[a].next # r
        BY <1>2, <1>4, <2>1, <3>3
      <4>2. h[a].next = head => c <= a
        <5>1. h[a].next = head /\ c = e => c <= a
          BY <1>1, <1>2, <1>3, <1>4, <2>2, <3>3
        <5> QED BY <1>3, <3>3, <5>1
      <4>3. h[a].next # head => a < h[a].next /\ (c <= a \/ h[a].next <= c)
        <5>1. ASSUME h[a].next # head, c = e PROVE c <= a \/ h[a].next <= c
          <6>1. r <= a \/ h[a].next <= p
            BY <1>1, <1>2, <1>3, <1>4, <2>2, <3>3, <4>1, <5>1
          <6>2. r \in Nat /\ p \in Nat /\ a \in Nat /\ h[a].next \in Nat /\ e \in Nat
            BY <1>1, <1>2, <1>4, <3>3
          <6> QED BY <2>2, <5>1, <6>1, <6>2
        <5> QED BY <1>3, <3>3, <5>1
      <4> QED BY <1>3, <1>5, <2>1, <3>3, <4>2, <4>3
    <3> QED BY <3>1, <3>2, <3>3
  <2> QED BY <2>4 DEF Ordered, hd, InsertedHead
<1> QED BY <1>6, <1>7, <1>8

LEMMA WithoutOrdered ==
  ASSUME NEW g, NEW h, NEW S, NEW head, Circle(h, S, head), Ordered(h, S, head),
         NEW e \in S, Without(g, h, S, e), S # {e}
  PROVE  Ordered(g, S \ {e}, RemovedHead(h, head, e))
<1> DEFINE p  == h[e].prev
           q  == h[e].next
           hd == IF e = head THEN q ELSE head
<1>1. S \subseteq Nat
  BY AddrFacts DEF Circle
<1>2. head \in S /\ \A a \in S : /\ h[a].next \in S /\ h[a].prev \in S
                                 /\ h[h[a].next].prev = a /\ h[h[a].prev].next = a
  BY DEF Circle
<1>3. \A a, c \in S : /\ head <= a
                      /\ h[a].next = head => c <= a
                      /\ h[a].next # head => a < h[a].next /\ (c <= a \/ h[a].next <= c)
  BY DEF Ordered
<1>4. p \in S /\ q \in S /\ h[p].next = e /\ h[q].prev = e
  BY <1>2
<1>5. \A a \in S \ {e} : g[a].next = IF a = p THEN q ELSE h[a].next
  BY DEF Without
<1>6. p # e /\ q # e
  <2>1. q = e \/ p = e => \A a \in {e} : h[a].next \in {e}
    BY <1>4
  <2>2. {e} \in SUBSET S /\ {e} # {}
    OBVIOUS
  <2> QED BY <2>1, <2>2 DEF Circle
<1>7. RemovedHead(h, head, e) = hd
  <2>1. ~ Single(h, head, e)
    BY AloneInCircle DEF Single
  <2> QED BY <2>1 DEF RemovedHead
<1> HIDE DEF p, q
<1>8. \A a \in S \ {e} : h[a].next = q => FALSE
  BY <1>2, <1>4
<1>9. ASSUME NEW a \in S \ {e}, NEW c \in S \ {e}
      PROVE  /\ hd <= a
             /\ g[a].next = hd => c <= a
             /\ g[a].next # hd => a < g[a].next /\ (c <= a \/ g[a].next <= c)
  <2>1. CASE e = head
    <3>1. e < q /\ (\A x \in S \ {e} : q <= x) /\ hd = q
      BY <1>1, <1>2, <1>3, <1>4, <1>6, <2>1 DEF q
    <3>2. CASE a = p
      <4>1. c <= p
        BY <1>3, <1>4, <2>1
      <4> QED BY <1>5, <3>1, <3>2, <4>1
    <3>3. CASE a # p
      <4>1. h[a].next # head /\ h[a].next # q
        BY <1>2, <1>4, <1>8, <2>1, <3>3 DEF p
      <4> QED BY <1>3, <1>5, <3>1, <3>3, <4>1
    <3> QED BY <3>2, <3>3
  <2>2. CASE e # head
    <3>1. hd = head
      BY <2>2
    <3>2. CASE a = p
      <4>1. p < e /\ (c <= p \/ e <= c)
        BY <1>3, <1>4, <2>2
      <4>2. q = head => c <= e
        BY <1>3 DEF q
      <4>3. q # head => e < q /\ (c <= e \/ q <= c)
        BY <1>3 DEF q
      <4>4. p \in Nat /\ e \in Nat /\ q \in Nat /\ c \in Nat /\ c # e
        BY <1>1, <1>4
      <4>5. q = head => c <= p
        BY <4>1, <4>2, <4>4
      <4>6. q # head => p < q /\ (c <= p \/ q <= c)
        BY <4>1, <4>3, <4>4
      <4>7. g[a].next = q /\ head <= a
        BY <1>3, <1>5, <3>2
      <4> QED BY <3>1, <3>2, <4>5, <4>6, <4>7
    <3>3. CASE a # p
      BY <1>3, <1>5, <3>1, <3>3
    <3> QED BY <3>2, <3>3
  <2> QED BY <2>1, <2>2
<1> HIDE DEF hd
<1> QED BY <1>7, <1>9 DEF Ordered

-----------------------------------------------------------------------------
(* The invariant.  A header once written stays one: holes are never merged.  *)
Blocks(h) == {a \in Addr : h[a].size # 0}
Space(h, a) == a..(a + HDR + h[a].size - 1)
Whole(b)  == (b + 1)..(b + EXT + HDR)

(* Blocks are aligned and lie side by side in what is attached.              *)
Laid(h, att) ==
  /\ \A a \in Blocks(h) : a % 2 = 1 /\ h[a].size <= EXT /\ Space(h, a) \subseteq Addr
  /\ \A a, c \in Blocks(h) : a # c => a + HDR + h[a].size <= c \/ c + HDR + h[c].size <= a
  /\ \A x \in Addr : (\E a \in Blocks(h) : x \in Space(h, a)) <=> (\E b \in att : x \in Whole(b))

(* Each block is in use, a hole, or in the hands of the thread.              *)
Used      == {b.addr - HDR : b \in live}
Procs(t)  == Used \cup (IF th[t].pc = "return" THEN {th[t].blk}
                       ELSE IF th[t].pc = "free" THEN {th[t].elem} \ {NULL} ELSE {})
InHand(t) == IF th[t].pc \in {"cut", "holes", "procs"} THEN {th[t].elem, th[t].blk} \ {NULL} ELSE {}
Holes(t)  == Blocks(hdr) \ (Procs(t) \cup InHand(t))

LiveInv ==
  /\ \A b \in live : /\ b.len \in {Asked(bytes) : bytes \in Request}
                     /\ b.len <= hdr[b.addr - HDR].size
  /\ \A b, c \in live : b.addr = c.addr => b = c

ListInv(t) ==
  /\ Procs(t) \subseteq Blocks(hdr) /\ InHand(t) \subseteq Blocks(hdr) \ Procs(t)
  /\ Circle(hdr, Procs(t), processes_head) /\ Ordered(hdr, Procs(t), processes_head)
  /\ Circle(hdr, Holes(t), holes_head)

(* Where the thread stands.                                                  *)
Asking(t) == /\ th[t].size = th[t].asked /\ th[t].asked \in {Asked(bytes) : bytes \in Request}
             /\ th[t].asked <= EXT
Has(t)    == Asking(t) /\ th[t].blk # NULL /\ th[t].asked <= hdr[th[t].blk].size

ThreadInv(t) ==
  LET c == th[t] IN
  /\ c.pc \in {"head", "search", "extend"} => Asking(t) /\ c.elem = NULL
  /\ c.pc = "search" => c.run \in Holes(t)
  /\ c.pc = "take"   => Has(t) /\ c.elem = c.blk /\ c.elem \in Holes(t)
  /\ c.pc = "extend" => holes_head # NULL
  /\ c.pc = "cut"    => /\ Asking(t) /\ c.elem = NULL /\ c.run = c.blk /\ c.blk # NULL
                        /\ holes_head # NULL
                        /\ hdr[c.blk] = [size |-> EXT, prev |-> c.blk, next |-> c.blk]
  /\ c.pc = "holes"  => /\ c.run \in Holes(t) /\ c.elem # NULL
                        /\ c.blk = NULL \/ (Has(t) /\ c.blk # c.elem)
  /\ c.pc = "procs"  => /\ Has(t) /\ c.elem = c.blk
                        /\ \/ c.run = NULL /\ processes_head = NULL
                           \/ c.run \in Procs(t) /\ \A a \in Procs(t) : a < c.run => a < c.elem
  /\ c.pc = "return" => Has(t) /\ c.blk \notin Used
  /\ c.pc = "free"   => c.elem \notin Used /\ c.blk = NULL

Fine(t) == Laid(hdr, attached) /\ LiveInv /\ ListInv(t) /\ ThreadInv(t)
Good(t) == TypeOK /\ Fine(t)

-----------------------------------------------------------------------------
(* Sizes and addresses.                                                      *)
LEMMA AskedIs ==
  ASSUME NEW bytes \in Request, Asked(bytes) <= EXT
  PROVE  Asked(bytes) \in 1..EXT /\ Words(bytes) = Asked(bytes)
<1>1. bytes \in Nat /\ EXT \in Nat /\ UMax \in Nat /\ UMax > 4 * EXT /\ UMax % 4 = 0
  BY MemListAssumption DEF SIZE_INT
<1>2. Asked(bytes) \in Nat \ {0}
  BY <1>1 DEF Asked, SIZE_INT
<1>4. UMax \div 4 > EXT
  BY <1>1
<1>5. Asked(bytes) % (UMax \div 4) = Asked(bytes)
  <2> DEFINE a == Asked(bytes)
             m == UMax \div 4
  <2>1. a \in Nat /\ m \in Nat /\ a < m
    BY <1>1, <1>2, <1>4
  <2> HIDE DEF a, m
  <2>2. a % m = a
    BY <2>1
  <2> QED BY <2>2 DEF a, m
<1> QED BY <1>1, <1>2, <1>5 DEF Words, SIZE_INT

LEMMA MinusIs ==
  ASSUME NEW a \in Nat, NEW b \in Nat, a <= EXT, b <= a
  PROVE  Minus(a, b) = a - b
<1>1. EXT \in Nat /\ UMax \in Nat /\ UMax > 4 * EXT /\ UMax % 4 = 0
  BY MemListAssumption DEF SIZE_INT
<1> DEFINE m == UMax \div 4
<1>2. m \in Nat /\ m > EXT
  BY <1>1
<1> HIDE DEF m
<1>3. a - b \in Nat /\ a - b < m
  BY <1>1, <1>2
<1>4. (a - b) % m = a - b
  BY <1>2, <1>3
<1> QED BY <1>4 DEF Minus, m, SIZE_INT

LEMMA BaseIs ==
  ASSUME NEW b \in Base
  PROVE  /\ b \in Nat \ {0} /\ Align(b) = b + 1 /\ Align(b) \in Addr /\ Align(b) % 2 = 1
         /\ Whole(b) \subseteq Region(b) /\ Whole(b) = Align(b)..(Align(b) + HDR + EXT - 1)
         /\ Region(b) \subseteq Addr
<1>1. b \in Nat \ {0} /\ b % 2 = 0 /\ EXT \in Nat /\ EXT > 3
  BY MemListAssumption DEF HDR
<1>2. Align(b) = b + 1
  BY <1>1 DEF Align, HDR
<1>3. Region(b) \subseteq Addr
  BY DEF Addr
<1>4. b + 1 \in Region(b) /\ Whole(b) \subseteq Region(b)
  BY <1>1 DEF Region, Whole, HDR
<1>5. Whole(b) = (b + 1)..((b + 1) + HDR + EXT - 1)
  BY <1>1 DEF Whole, HDR
<1>6. (b + 1) % 2 = 1
  BY <1>1
<1> QED BY <1>1, <1>2, <1>3, <1>4, <1>5, <1>6

LEMMA SplitAtIs ==
  ASSUME NEW e \in Nat, NEW n \in Nat, e % 2 = 1, n % 2 = 1
  PROVE  SplitAt(e, n) = e + HDR + n /\ SplitAt(e, n) % 2 = 1
<1>1. (e + 3 + n) % 2 = 1 /\ (e + 3 + n + 3) % 2 = 0
  BY SMT
<1>2. SplitAt(e, n) = e + HDR + n
  BY <1>1 DEF SplitAt, Align, HDR
<1> QED BY <1>1, <1>2 DEF HDR

(* Headers that keep their sizes.                                            *)
LEMMA LaidSame ==
  ASSUME NEW g, NEW h, NEW att, Laid(h, att), \A a \in Addr : g[a].size = h[a].size
  PROVE  Laid(g, att) /\ Blocks(g) = Blocks(h)
<1>1. Blocks(g) = Blocks(h) /\ \A a \in Blocks(h) : a \in Addr /\ Space(g, a) = Space(h, a)
  BY DEF Blocks, Space
<1>2. \A a \in Blocks(h) : g[a].size = h[a].size
  BY DEF Blocks
<1> QED BY <1>1, <1>2 DEF Laid

LEMMA BlockIs ==
  ASSUME NEW h \in Memory, NEW att, Laid(h, att), NEW a \in Blocks(h)
  PROVE  /\ a \in Addr /\ a \in Nat /\ a % 2 = 1 /\ h[a].size \in 1..EXT
         /\ a \in Space(h, a) /\ Space(h, a) \subseteq Addr
         /\ \A x \in Space(h, a) : \E b \in att : x \in Whole(b)
         /\ a + HDR \in Space(h, a)
<1>1. a \in Addr /\ h[a].size \in Nat \ {0}
  BY DEF Blocks, Memory
<1>2. a \in Nat /\ EXT \in Nat
  BY <1>1, AddrFacts, MemListAssumption
<1>3. a % 2 = 1 /\ h[a].size <= EXT /\ Space(h, a) \subseteq Addr
  BY DEF Laid
<1>4. a \in Space(h, a) /\ a + HDR \in Space(h, a)
  BY <1>1, <1>2 DEF Space, HDR
<1>5. \A x \in Space(h, a) : \E b \in att : x \in Whole(b)
  BY <1>3 DEF Laid
<1> QED BY <1>1, <1>2, <1>3, <1>4, <1>5

(* The sizes that split() leaves.                                            *)
Sized(g, h, e, new, n) ==
  \A a \in Addr : g[a].size = IF a = e THEN n
                             ELSE IF a = new THEN h[e].size - (n + HDR) ELSE h[a].size

LEMMA LaidSplit ==
  ASSUME NEW h \in Memory, NEW g, NEW att, Laid(h, att), NEW e \in Blocks(h),
         NEW n \in Nat, n % 2 = 1, n + HDR < h[e].size, NEW new, new = e + HDR + n,
         Sized(g, h, e, new, n)
  PROVE  /\ new \in Addr \ Blocks(h)
         /\ Laid(g, att) /\ Blocks(g) = Blocks(h) \cup {new}
<1>1. /\ e \in Addr /\ e \in Nat /\ e % 2 = 1 /\ h[e].size \in 1..EXT /\ EXT \in Nat
      /\ Space(h, e) \subseteq Addr
  BY BlockIs, MemListAssumption
<1>2. new \in Nat /\ new > e /\ new % 2 = 1 /\ new \in Space(h, e) /\ new \in Addr
  <2>1. (e + 3 + n) % 2 = 1
    BY <1>1, SMT
  <2>2. e + 3 + n \in e..(e + 3 + h[e].size - 1) /\ e + 3 + n > e
    BY <1>1 DEF HDR
  <2> QED BY <1>1, <2>1, <2>2 DEF Space, HDR
<1>3. \A a \in Blocks(h) : a \in Addr /\ a \in Nat /\ h[a].size \in 1..EXT
  BY BlockIs
<1>4. \A a \in Blocks(h) : a # e => a + HDR + h[a].size <= e \/ e + HDR + h[e].size <= a
  BY DEF Laid
<1>5. new \notin Blocks(h)
  BY <1>1, <1>2, <1>3, <1>4 DEF HDR
<1>6. g[e].size = n /\ g[new].size = h[e].size - (n + HDR)
  BY <1>1, <1>2 DEF Sized
<1>7. \A a \in Blocks(h) : a # e => g[a].size = h[a].size
  BY <1>3, <1>5 DEF Sized
<1>8. Blocks(g) = Blocks(h) \cup {new}
  <2>1. n # 0 /\ h[e].size - (n + HDR) # 0
    BY <1>1 DEF HDR
  <2> QED BY <1>1, <1>2, <1>6, <2>1 DEF Blocks, Sized
<1>9. Space(g, e) = e..(new - 1) /\ Space(g, new) = new..(e + HDR + h[e].size - 1)
  <2>1. Space(g, e) = e..(e + HDR + n - 1)
    BY <1>6 DEF Space
  <2>2. e + HDR + n - 1 = new - 1
    BY <1>1 DEF HDR
  <2>3. Space(g, new) = new..(new + HDR + (h[e].size - (n + HDR)) - 1)
    BY <1>6 DEF Space
  <2>4. new + HDR + (h[e].size - (n + HDR)) - 1 = e + HDR + h[e].size - 1
    BY <1>1, <1>2 DEF HDR
  <2> QED BY <2>1, <2>2, <2>3, <2>4
<1>10. \A a \in Blocks(h) : a # e => Space(g, a) = Space(h, a)
  BY <1>7 DEF Space
<1>11. Space(h, e) = Space(g, e) \cup Space(g, new)
  <2>1. e + HDR + h[e].size - 1 \in Nat /\ new - 1 \in Nat /\ new <= e + HDR + h[e].size - 1
    BY <1>1, <1>2 DEF HDR
  <2> DEFINE m == e + HDR + h[e].size - 1
  <2>2. Space(h, e) = e..m /\ Space(g, new) = new..m
    BY <1>9 DEF Space
  <2> HIDE DEF m
  <2>3. e..m = e..(new - 1) \cup new..m
    BY <1>1, <1>2, <2>1 DEF m
  <2> QED BY <1>9, <2>2, <2>3
<1>12. \A a \in Blocks(g) : a % 2 = 1 /\ g[a].size <= EXT /\ Space(g, a) \subseteq Addr
  <2>1. n <= EXT /\ h[e].size - (n + HDR) <= EXT
    BY <1>1 DEF HDR
  <2> QED BY <1>1, <1>2, <1>6, <1>7, <1>8, <1>10, <1>11, <2>1 DEF Laid
<1>13. \A a, c \in Blocks(g) : a # c => a + HDR + g[a].size <= c \/ c + HDR + g[c].size <= a
  <2>1. /\ e + HDR + g[e].size = new /\ new + HDR + g[new].size = e + HDR + h[e].size
        /\ new < e + HDR + h[e].size
    BY <1>1, <1>2, <1>6 DEF HDR
  <2>2. ASSUME NEW a \in Blocks(h), a # e
        PROVE  \/ a + HDR + g[a].size <= e /\ a + HDR + g[a].size <= new
               \/ new <= a /\ new + HDR + g[new].size <= a
    <3>1. a + HDR + h[a].size <= e \/ e + HDR + h[e].size <= a
      BY <1>4, <2>2
    <3>2. a \in Nat /\ h[a].size \in Nat /\ g[a].size = h[a].size /\ HDR \in Nat
      BY <1>3, <1>7, <2>2 DEF HDR
    <3> QED BY <1>1, <1>2, <2>1, <3>1, <3>2
  <2>3. \A a, c \in Blocks(h) \ {e} : a # c => a + HDR + g[a].size <= c \/ c + HDR + g[c].size <= a
    BY <1>7 DEF Laid
  <2>4. \A a \in Blocks(h) \ {e} : /\ a + HDR + g[a].size <= e \/ e + HDR + g[e].size <= a
                                   /\ a + HDR + g[a].size <= new \/ new + HDR + g[new].size <= a
    BY <2>1, <2>2
  <2>5. e + HDR + g[e].size <= new
    BY <1>2, <2>1
  <2> QED BY <1>8, <2>3, <2>4, <2>5
<1>14. ASSUME NEW x \in Addr
       PROVE  (\E a \in Blocks(g) : x \in Space(g, a)) <=> (\E b \in att : x \in Whole(b))
  <2>1. (\E a \in Blocks(g) : x \in Space(g, a)) <=> (\E a \in Blocks(h) : x \in Space(h, a))
    BY <1>8, <1>10, <1>11
  <2> QED BY <2>1 DEF Laid
<1> QED BY <1>2, <1>5, <1>8, <1>12, <1>13, <1>14 DEF Laid

LEMMA LaidExtended ==
  ASSUME hdr \in Memory, attached \subseteq Base, Laid(hdr, attached), NEW b \in Base \ attached
  PROVE  /\ Extended(b) \in Memory
         /\ Extended(b)[Align(b)] = [size |-> EXT, prev |-> Align(b), next |-> Align(b)]
         /\ \A a \in Addr \ {Align(b)} : Extended(b)[a] = hdr[a]
         /\ Align(b) \in Addr \ Blocks(hdr)
         /\ Laid(Extended(b), attached \cup {b})
         /\ Blocks(Extended(b)) = Blocks(hdr) \cup {Align(b)}
<1> DEFINE e == Align(b)
           g == Extended(b)
<1>1. /\ b \in Nat \ {0} /\ e = b + 1 /\ e \in Addr /\ e % 2 = 1
      /\ Whole(b) \subseteq Region(b) /\ Whole(b) = e..(e + HDR + EXT - 1)
      /\ Region(b) \subseteq Addr /\ EXT \in Nat /\ EXT > 3
  BY BaseIs, MemListAssumption DEF HDR
<1>2. g = [hdr EXCEPT ![e] = [size |-> EXT, prev |-> e, next |-> e]]
  BY DEF Extended
<1> HIDE DEF e, g
<1>3. /\ g \in Memory /\ g[e] = [size |-> EXT, prev |-> e, next |-> e]
      /\ \A a \in Addr \ {e} : g[a] = hdr[a]
  BY <1>1, <1>2 DEF Memory, Pointer
<1>4. \A c \in attached, x \in Whole(b) : x \notin Whole(c)
  <2>1. \A c \in attached : c \in Base /\ c # b /\ Whole(c) \subseteq Region(c)
    BY BaseIs
  <2>2. \A c \in attached : c < b \/ b < c
    BY <2>1, MemListAssumption
  <2>3. \A c \in attached : c + EXT + HDR < b \/ b + EXT + HDR < c
    BY <2>1, <2>2, MemListAssumption
  <2> QED BY <2>1, <2>3, MemListAssumption DEF Whole, HDR
<1>5. \A a \in Blocks(hdr), x \in Whole(b) : x \notin Space(hdr, a)
  <2>1. ASSUME NEW a \in Blocks(hdr), NEW x \in Whole(b), x \in Space(hdr, a) PROVE FALSE
    <3>1. \E c \in attached : x \in Whole(c)
      BY <2>1, BlockIs
    <3> QED BY <1>4, <3>1
  <2> QED BY <2>1
<1>6. e \notin Blocks(hdr)
  <2>1. e \in Whole(b)
    BY <1>1 DEF HDR
  <2> QED BY <1>5, <2>1, BlockIs
<1>7. Blocks(g) = Blocks(hdr) \cup {e}
  <2>1. g[e].size # 0
    BY <1>1, <1>3
  <2>2. \A a \in Addr : g[a].size # 0 <=> (hdr[a].size # 0 \/ a = e)
    BY <1>1, <1>3, <2>1
  <2> QED BY <1>1, <2>2 DEF Blocks
<1>8. Space(g, e) = Whole(b)
  BY <1>1, <1>3 DEF Space
<1>9. \A a \in Blocks(hdr) : g[a].size = hdr[a].size /\ Space(g, a) = Space(hdr, a)
  BY <1>3, <1>6 DEF Space, Blocks
<1>10. \A a \in Blocks(g) : a % 2 = 1 /\ g[a].size <= EXT /\ Space(g, a) \subseteq Addr
  <2>1. \A a \in Blocks(hdr) : a % 2 = 1 /\ hdr[a].size <= EXT /\ Space(hdr, a) \subseteq Addr
    BY DEF Laid
  <2>2. g[e].size <= EXT
    BY <1>1, <1>3
  <2> QED BY <1>1, <1>7, <1>8, <1>9, <2>1, <2>2
<1>11. \A a, c \in Blocks(g) : a # c => a + HDR + g[a].size <= c \/ c + HDR + g[c].size <= a
  <2>1. ASSUME NEW a \in Blocks(hdr)
        PROVE  a + HDR + g[a].size <= e \/ e + HDR + g[e].size <= a
    <3>1. a \in Nat /\ hdr[a].size \in 1..EXT
      BY BlockIs
    <3>2. \A x \in e..(e + HDR + EXT - 1) : x \notin a..(a + HDR + hdr[a].size - 1)
      BY <1>1, <1>5 DEF Space
    <3>3. e \in e..(e + HDR + EXT - 1)
      BY <1>1 DEF HDR
    <3>4. a \in e..(e + HDR + EXT - 1) => a \in a..(a + HDR + hdr[a].size - 1)
      BY <1>1, <3>1 DEF HDR
    <3>5. e \notin a..(a + HDR + hdr[a].size - 1) /\ a \notin e..(e + HDR + EXT - 1)
      BY <3>2, <3>3, <3>4
    <3> QED BY <1>1, <1>3, <1>9, <3>1, <3>5 DEF HDR
  <2>2. \A a, c \in Blocks(hdr) : a # c => a + HDR + g[a].size <= c \/ c + HDR + g[c].size <= a
    BY <1>9 DEF Laid
  <2> QED BY <1>7, <2>1, <2>2
<1>12. ASSUME NEW x \in Addr
       PROVE  (\E a \in Blocks(g) : x \in Space(g, a))
                 <=> (\E c \in attached \cup {b} : x \in Whole(c))
  <2>1. (\E a \in Blocks(hdr) : x \in Space(hdr, a)) <=> (\E c \in attached : x \in Whole(c))
    BY DEF Laid
  <2> QED BY <1>7, <1>8, <1>9, <2>1
<1>13. Laid(g, attached \cup {b})
  BY <1>10, <1>11, <1>12 DEF Laid
<1> QED BY <1>1, <1>3, <1>6, <1>7, <1>13 DEF e, g

-----------------------------------------------------------------------------
(* What the invariant says of the one thread.                                *)
ThreadType ==
  [pc : {"idle", "head", "search", "take", "extend", "cut", "holes", "procs", "return", "free"},
   asked : Nat, size : Nat, run : Pointer, elem : Pointer, blk : Pointer]

LEMMA LiveAddr ==
  ASSUME live \subseteq [addr : {a + HDR : a \in Addr}, len : Nat], NEW b \in live
  PROVE  b.addr \in Nat /\ b.len \in Nat /\ b.addr - HDR \in Addr /\ (b.addr - HDR) + HDR = b.addr
<1>1. PICK a \in Addr : b.addr = a + HDR
  OBVIOUS
<1>2. a \in Nat
  BY AddrFacts
<1>3. (a + HDR) - HDR = a /\ a + HDR \in Nat
  BY <1>2 DEF HDR
<1> QED BY <1>1, <1>3

LEMMA StepIs ==
  ASSUME NEW t \in Thread, TypeOK, NEW r \in ThreadType, Step(t, r)
  PROVE  th'[t] = r /\ th' \in [Thread -> ThreadType]
<1>1. th \in [Thread -> ThreadType]
  BY DEF TypeOK, ThreadType
<1> QED BY <1>1 DEF Step

LEMMA Facts ==
  ASSUME NEW t \in Thread, Good(t)
  PROVE  /\ t \in Thread /\ th[t] \in ThreadType /\ th \in [Thread -> ThreadType]
         /\ hdr \in Memory /\ attached \subseteq Base /\ Laid(hdr, attached)
         /\ LiveInv /\ ListInv(t) /\ ThreadInv(t)
         /\ live \subseteq [addr : {a + HDR : a \in Addr}, len : Nat]
         /\ Blocks(hdr) = Procs(t) \cup Holes(t) \cup InHand(t)
         /\ Used \subseteq Procs(t) /\ Blocks(hdr) \subseteq Addr
         /\ holes_head = NULL => Holes(t) = {}
         /\ holes_head # NULL => holes_head \in Holes(t)
         /\ processes_head = NULL => Procs(t) = {}
         /\ processes_head # NULL => processes_head \in Procs(t)
<1>1. t \in Thread /\ th \in [Thread -> ThreadType]
  BY DEF Good, TypeOK, ThreadType
<1>2. /\ hdr \in Memory /\ attached \subseteq Base /\ Laid(hdr, attached)
      /\ LiveInv /\ ListInv(t) /\ ThreadInv(t)
      /\ live \subseteq [addr : {a + HDR : a \in Addr}, len : Nat]
  BY <1>1 DEF Good, Fine, TypeOK, Memory
<1>3. Blocks(hdr) = Procs(t) \cup Holes(t) \cup InHand(t)
  BY <1>2 DEF ListInv, Holes
<1>4. Used \subseteq Procs(t) /\ Blocks(hdr) \subseteq Addr
  BY DEF Procs, Blocks
<1>5. /\ holes_head = NULL => Holes(t) = {}
      /\ holes_head # NULL => holes_head \in Holes(t)
  BY <1>2, AddrFacts DEF ListInv, Circle
<1>6. /\ processes_head = NULL => Procs(t) = {}
      /\ processes_head # NULL => processes_head \in Procs(t)
  BY <1>2, AddrFacts DEF ListInv, Circle
<1> QED BY <1>1, <1>2, <1>3, <1>4, <1>5, <1>6

(* A step that leaves the lists and their blocks alone.                      *)
LEMMA Stands ==
  ASSUME NEW t \in Thread, Good(t), th' \in [Thread -> ThreadType],
         UNCHANGED <<hdr, processes_head, holes_head, attached, live>>,
         Procs(t)' = Procs(t), InHand(t)' = InHand(t), ThreadInv(t)'
  PROVE  Fine(t)'
<1>2. Holes(t)' = Holes(t)
  BY DEF Holes, Blocks
<1>3. Laid(hdr, attached)' /\ LiveInv'
  BY DEF Good, Fine, Laid, Blocks, Space, LiveInv
<1>4. ListInv(t)'
  <2>1. Blocks(hdr)' = Blocks(hdr)
    BY DEF Blocks
  <2> QED BY <1>2, <2>1, Facts DEF ListInv, Circle, Ordered
<1> QED BY <1>3, <1>4 DEF Fine

LEMMA MallocStep ==
  ASSUME NEW t \in Thread, Good(t), NEW bytes \in Request, Malloc(t, bytes), flaws' = {}
  PROVE  Fine(t)'
<1> DEFINE r == [Idle EXCEPT !.pc = "head", !.asked = Asked(bytes), !.size = Words(bytes)]
<1>1. Asked(bytes) \in Nat /\ Words(bytes) = Asked(bytes) /\ Asked(bytes) <= EXT
  <2>1. EXT \in Nat /\ bytes \in Nat
    BY MemListAssumption
  <2>2. Asked(bytes) \in Nat
    BY <2>1 DEF Asked, SIZE_INT
  <2>3. ~ (Asked(bytes) > EXT)
    BY DEF Malloc
  <2> QED BY <2>1, <2>2, <2>3, AskedIs
<1>2. r \in ThreadType /\ r.pc = "head" /\ r.asked = Asked(bytes) /\ r.size = r.asked
        /\ r.elem = NULL
  BY <1>1 DEF ThreadType, Idle, Pointer
<1>3. Step(t, r) /\ UNCHANGED <<hdr, processes_head, holes_head, attached, live>>
        /\ th[t].pc = "idle"
  BY DEF Malloc, At
<1> HIDE DEF r
<1>4. th'[t] = r /\ th' \in [Thread -> ThreadType]
  BY <1>2, <1>3, StepIs DEF Good
<1>5. Procs(t)' = Procs(t) /\ InHand(t)' = InHand(t)
  BY <1>2, <1>3, <1>4 DEF Procs, InHand, Used
<1>6. ThreadInv(t)'
  BY <1>1, <1>2, <1>4 DEF ThreadInv, Asking
<1> QED BY <1>3, <1>4, <1>5, <1>6, Stands

LEMMA HaveHoleStep ==
  ASSUME NEW t \in Thread, Good(t), HaveHole(t)
  PROVE  Fine(t)'
<1> DEFINE r == [th[t] EXCEPT !.pc = "search", !.run = holes_head]
<1>1. /\ Step(t, r) /\ UNCHANGED <<hdr, processes_head, holes_head, attached, live>>
      /\ th[t].pc = "head" /\ holes_head \in Holes(t)
  BY Facts DEF HaveHole, At
<1>2. /\ r \in ThreadType /\ r.pc = "search" /\ r.run = holes_head /\ r.asked = th[t].asked
      /\ r.size = th[t].size /\ r.elem = th[t].elem
  <2>1. holes_head \in Pointer
    BY DEF Good, TypeOK
  <2> QED BY <2>1, Facts DEF ThreadType
<1> HIDE DEF r
<1>3. th'[t] = r /\ th' \in [Thread -> ThreadType]
  BY <1>1, <1>2, StepIs DEF Good
<1>4. Procs(t)' = Procs(t) /\ InHand(t)' = InHand(t)
  BY <1>1, <1>2, <1>3 DEF Procs, InHand, Used
<1>5. Holes(t)' = Holes(t)
  BY <1>1, <1>4 DEF Holes, Blocks
<1>6. ThreadInv(t)'
  BY <1>1, <1>2, <1>3, <1>5, Facts DEF ThreadInv, Asking
<1> QED BY <1>1, <1>3, <1>4, <1>6, Stands

LEMMA SearchNextStep ==
  ASSUME NEW t \in Thread, Good(t), SearchNext(t)
  PROVE  Fine(t)'
<1> DEFINE next == hdr[th[t].run].next
           pc   == IF next = holes_head THEN "extend" ELSE "search"
           r    == [th[t] EXCEPT !.run = next, !.pc = pc]
<1>1. /\ th[t].pc = "search" /\ th[t].run \in Holes(t)
      /\ UNCHANGED <<hdr, processes_head, holes_head, attached, live>>
  BY Facts DEF SearchNext, At, ThreadInv
<1>2. Step(t, r)
  BY <1>1, Facts DEF SearchNext, ThreadType
<1>3. next \in Holes(t) /\ next \in Addr
  BY <1>1, Facts DEF ListInv, Circle
<1>4. /\ r \in ThreadType /\ r.pc = pc /\ r.run = next /\ r.asked = th[t].asked
      /\ r.size = th[t].size /\ r.elem = th[t].elem
  BY <1>3, Facts DEF ThreadType, Pointer
<1>5. pc \in {"extend", "search"}
  OBVIOUS
<1>6. holes_head # NULL
  BY <1>3, Facts
<1> HIDE DEF r, pc, next
<1>7. th'[t] = r /\ th' \in [Thread -> ThreadType]
  BY <1>2, <1>4, StepIs DEF Good
<1>8. Procs(t)' = Procs(t) /\ InHand(t)' = InHand(t)
  BY <1>1, <1>4, <1>5, <1>7 DEF Procs, InHand, Used
<1>9. Holes(t)' = Holes(t)
  BY <1>1, <1>8 DEF Holes, Blocks
<1>10. ThreadInv(t)'
  BY <1>1, <1>3, <1>4, <1>5, <1>6, <1>7, <1>9, Facts DEF ThreadInv, Asking
<1> QED BY <1>1, <1>7, <1>8, <1>10, Stands

LEMMA HolesNextStep ==
  ASSUME NEW t \in Thread, Good(t), HolesNext(t)
  PROVE  Fine(t)'
<1> DEFINE next == hdr[th[t].run].next
           r    == [th[t] EXCEPT !.run = next]
<1>1. /\ th[t].pc = "holes" /\ th[t].run \in Holes(t) /\ Step(t, r)
      /\ UNCHANGED <<hdr, processes_head, holes_head, attached, live>>
  BY Facts DEF HolesNext, At, ThreadInv
<1>2. next \in Holes(t) /\ next \in Addr
  BY <1>1, Facts DEF ListInv, Circle
<1>3. /\ r \in ThreadType /\ r.pc = "holes" /\ r.run = next /\ r.asked = th[t].asked
      /\ r.size = th[t].size /\ r.elem = th[t].elem /\ r.blk = th[t].blk
  BY <1>1, <1>2, Facts DEF ThreadType, Pointer
<1> HIDE DEF r, next
<1>4. th'[t] = r /\ th' \in [Thread -> ThreadType]
  BY <1>1, <1>3, StepIs DEF Good
<1>5. Procs(t)' = Procs(t) /\ InHand(t)' = InHand(t)
  BY <1>1, <1>3, <1>4 DEF Procs, InHand, Used
<1>6. Holes(t)' = Holes(t)
  BY <1>1, <1>5 DEF Holes, Blocks
<1>7. ThreadInv(t)'
  BY <1>1, <1>2, <1>3, <1>4, <1>6, Facts DEF ThreadInv, Asking, Has
<1> QED BY <1>1, <1>4, <1>5, <1>7, Stands

(* malloc() got past the head of the list of the blocks in use.              *)
LEMMA RunIs ==
  ASSUME NEW t \in Thread, Good(t), At(t, "procs")
  PROVE  th[t].run \in Procs(t) /\ \A a \in Procs(t) : a < th[t].run => a < th[t].elem
<1>1. th[t].pc = "procs" /\ Ok(Follows(t)) /\ th[t].run \in Follows(t)
  BY DEF At, Follows
<1>2. Mapped \subseteq Addr
  <2>1. attached \subseteq Base
    BY Facts
  <2> QED BY <2>1 DEF Mapped, Addr
<1>3. th[t].run # NULL
  BY <1>1, <1>2, AddrFacts DEF Ok
<1> QED BY <1>1, <1>3, Facts DEF ThreadInv

LEMMA ProcsNextStep ==
  ASSUME NEW t \in Thread, Good(t), ProcsNext(t)
  PROVE  Fine(t)'
<1> DEFINE run  == th[t].run
           next == hdr[run].next
           r    == [th[t] EXCEPT !.run = next]
<1>1. /\ th[t].pc = "procs" /\ Step(t, r) /\ next # processes_head /\ run < th[t].elem
      /\ UNCHANGED <<hdr, processes_head, holes_head, attached, live>>
  BY DEF ProcsNext, At
<1>2. run \in Procs(t) /\ \A a \in Procs(t) : a < run => a < th[t].elem
  BY RunIs DEF ProcsNext
<1>3. next \in Procs(t) /\ next \in Addr
  BY <1>2, Facts DEF ListInv, Circle
<1>4. /\ r \in ThreadType /\ r.pc = "procs" /\ r.run = next /\ r.asked = th[t].asked
      /\ r.size = th[t].size /\ r.elem = th[t].elem /\ r.blk = th[t].blk
  BY <1>1, <1>3, Facts DEF ThreadType, Pointer
<1>5. \A a \in Procs(t) : a < next => a < th[t].elem
  <2> TAKE a \in Procs(t)
  <2>1. a <= run \/ next <= a
    BY <1>1, <1>2, Facts DEF ListInv, Ordered
  <2>2. Procs(t) \subseteq Nat /\ Has(t) /\ th[t].elem = th[t].blk
    BY <1>1, AddrFacts, Facts DEF ListInv, Circle, ThreadInv
  <2>3. th[t].elem \in Nat
    BY <2>2, AddrFacts, Facts DEF ThreadType, Pointer, Has
  <2> QED BY <1>1, <1>2, <1>3, <2>1, <2>2, <2>3
<1> HIDE DEF r, next, run
<1>6. th'[t] = r /\ th' \in [Thread -> ThreadType]
  BY <1>1, <1>4, StepIs DEF Good
<1>7. Procs(t)' = Procs(t) /\ InHand(t)' = InHand(t)
  BY <1>1, <1>4, <1>6 DEF Procs, InHand, Used
<1>8. ThreadInv(t)'
  BY <1>1, <1>3, <1>4, <1>5, <1>6, <1>7, Facts DEF ThreadInv, Asking, Has
<1> QED BY <1>1, <1>6, <1>7, <1>8, Stands

LEMMA FreeStep ==
  ASSUME NEW t \in Thread, Good(t), NEW b \in live, Free(t, b)
  PROVE  Fine(t)'
<1> DEFINE e == b.addr - HDR
           r == [Idle EXCEPT !.pc = "free", !.elem = e]
<1>1. /\ th[t].pc = "idle" /\ Step(t, r) /\ live' = live \ {b}
      /\ UNCHANGED <<hdr, processes_head, holes_head, attached>>
  BY DEF Free, At
<1>2. e \in Used /\ e \in Addr
  BY Facts DEF Used, ListInv
<1>3. r \in ThreadType /\ r.pc = "free" /\ r.elem = e /\ r.blk = NULL
  BY <1>2 DEF ThreadType, Idle, Pointer, NULL
<1>4. \A c \in live : c.addr \in Nat
  BY Facts, LiveAddr
<1>5. Used' = Used \ {e}
  <2>1. \A c \in live : c.addr - HDR = e => c = b
    BY <1>4, Facts DEF LiveInv, HDR
  <2> QED BY <1>1, <2>1 DEF Used
<1> HIDE DEF r, e
<1>6. th'[t] = r /\ th' \in [Thread -> ThreadType]
  BY <1>1, <1>3, StepIs DEF Good
<1>7. Procs(t)' = Procs(t) /\ InHand(t)' = InHand(t)
  BY <1>1, <1>2, <1>3, <1>5, <1>6, AddrFacts DEF Procs, InHand
<1>8. Holes(t)' = Holes(t) /\ Blocks(hdr)' = Blocks(hdr)
  BY <1>1, <1>7 DEF Holes, Blocks
<1>9. ThreadInv(t)'
  BY <1>3, <1>5, <1>6 DEF ThreadInv
<1>10. ListInv(t)'
  BY <1>1, <1>7, <1>8, Facts DEF ListInv, Circle, Ordered
<1>11. LiveInv' /\ Laid(hdr, attached)'
  BY <1>1, Facts DEF LiveInv, Laid, Blocks, Space
<1> QED BY <1>9, <1>10, <1>11 DEF Fine

LEMMA FreeNullStep ==
  ASSUME NEW t \in Thread, Good(t), FreeNull(t)
  PROVE  Fine(t)'
<1> DEFINE r == [Idle EXCEPT !.pc = "free"]
<1>1. /\ th[t].pc = "idle" /\ Step(t, r)
      /\ UNCHANGED <<hdr, processes_head, holes_head, attached, live>>
  BY DEF FreeNull, At
<1>2. r \in ThreadType /\ r.pc = "free" /\ r.elem = NULL /\ r.blk = NULL
  BY DEF ThreadType, Idle, Pointer
<1> HIDE DEF r
<1>3. th'[t] = r /\ th' \in [Thread -> ThreadType]
  BY <1>1, <1>2, StepIs DEF Good
<1>4. Procs(t)' = Procs(t) /\ InHand(t)' = InHand(t)
  BY <1>1, <1>2, <1>3 DEF Procs, InHand, Used
<1>5. NULL \notin Used
  BY Facts, AddrFacts DEF ListInv
<1>6. ThreadInv(t)'
  BY <1>1, <1>2, <1>3, <1>5 DEF ThreadInv, Used
<1> QED BY <1>1, <1>3, <1>4, <1>6, Stands

(* The payload of a block lies in the region, behind its header.             *)
LEMMA PayloadIs ==
  ASSUME NEW a \in Addr, a + HDR \in Addr
  PROVE  (a + HDR) - HDR = a
<1>1. a \in Nat
  BY AddrFacts
<1> QED BY <1>1 DEF HDR

LEMMA ReturnStep ==
  ASSUME NEW t \in Thread, Good(t), Return(t)
  PROVE  Fine(t)'
<1> DEFINE e == th[t].blk
           b == [addr |-> e + HDR, len |-> th[t].asked]
<1>1. /\ th[t].pc = "return" /\ Step(t, Idle) /\ live' = live \cup {b}
      /\ UNCHANGED <<hdr, processes_head, holes_head, attached>>
  BY DEF Return, At
<1>2. Has(t) /\ e \notin Used /\ e \in Procs(t)
  BY <1>1, Facts DEF ThreadInv, Procs
<1>3. e \in Blocks(hdr)
  BY <1>2, Facts DEF ListInv
<1>4. e \in Addr /\ e + HDR \in Addr
  BY <1>3, Facts, BlockIs
<1>5. Idle \in ThreadType /\ Idle.pc = "idle"
  BY DEF ThreadType, Idle, Pointer, NULL
<1>6. th'[t] = Idle /\ th' \in [Thread -> ThreadType]
  BY <1>1, <1>5, StepIs DEF Good
<1>7. b.addr - HDR = e
  BY <1>4, PayloadIs
<1>8. Used' = Used \cup {e}
  BY <1>1, <1>7 DEF Used
<1> HIDE DEF e
<1>9. Procs(t)' = Procs(t) /\ InHand(t)' = InHand(t)
  BY <1>1, <1>5, <1>6, <1>8 DEF Procs, InHand, e
<1>10. Holes(t)' = Holes(t) /\ Blocks(hdr)' = Blocks(hdr)
  BY <1>1, <1>9 DEF Holes, Blocks
<1>11. ThreadInv(t)'
  BY <1>5, <1>6 DEF ThreadInv
<1>12. ListInv(t)'
  BY <1>1, <1>9, <1>10, Facts DEF ListInv, Circle, Ordered
<1>13. LiveInv'
  <2>1. /\ b.len \in {Asked(bytes) : bytes \in Request}
        /\ b.len <= hdr[b.addr - HDR].size
    BY <1>2, <1>7 DEF Has, Asking, e
  <2>2. \A c \in live : c.addr # b.addr
    BY <1>2, <1>7 DEF Used
  <2> HIDE DEF b
  <2> QED BY <1>1, <2>1, <2>2, Facts DEF LiveInv
<1>14. Laid(hdr, attached)'
  BY <1>1, Facts DEF Laid, Blocks, Space
<1> QED BY <1>11, <1>12, <1>13, <1>14 DEF Fine

LEMMA DieStep ==
  ASSUME NEW t \in Thread, Good(t), NEW why, Die(why)
  PROVE  Fine(t)'
<1>1. UNCHANGED <<hdr, processes_head, holes_head, attached, th, live>>
  BY DEF Die
<1>3. Procs(t)' = Procs(t) /\ InHand(t)' = InHand(t) /\ Holes(t)' = Holes(t)
  BY <1>1 DEF Procs, InHand, Used, Holes, Blocks
<1>4. ListInv(t)' /\ ThreadInv(t)'
  BY <1>1, <1>3, Facts DEF ListInv, ThreadInv, Circle, Ordered, Blocks, Asking, Has, Used
<1>5. LiveInv' /\ Laid(hdr, attached)'
  BY <1>1, Facts DEF LiveInv, Laid, Blocks, Space
<1> QED BY <1>4, <1>5 DEF Fine

(* A new region is one block, which is not in a list yet.                    *)
LEMMA FirstHoleStep ==
  ASSUME NEW t \in Thread, Good(t), FirstHole(t)
  PROVE  Fine(t)'
<1>1. /\ th[t].pc = "head" /\ holes_head = NULL
      /\ UNCHANGED <<processes_head, live>>
  BY DEF FirstHole, At
<1>2. PICK b \in Base \ attached :
        /\ attached' = attached \cup {b}
        /\ hdr' = Extended(b) /\ holes_head' = Align(b)
        /\ Step(t, [th[t] EXCEPT !.pc = "search", !.run = Align(b)])
  BY DEF FirstHole
<1> DEFINE e == Align(b)
           r == [th[t] EXCEPT !.pc = "search", !.run = e]
<1>3. /\ hdr' \in Memory
      /\ hdr'[e] = [size |-> EXT, prev |-> e, next |-> e]
      /\ \A a \in Addr \ {e} : hdr'[a] = hdr[a]
      /\ e \in Addr \ Blocks(hdr)
      /\ Laid(hdr', attached')
      /\ Blocks(hdr') = Blocks(hdr) \cup {e}
  BY <1>2, Facts, LaidExtended
<1>4. /\ r \in ThreadType /\ r.pc = "search" /\ r.run = e /\ r.asked = th[t].asked
      /\ r.size = th[t].size /\ r.elem = th[t].elem
  BY <1>3, Facts DEF ThreadType, Pointer
<1> HIDE DEF e, r
<1>5. th'[t] = r /\ th' \in [Thread -> ThreadType]
  BY <1>2, <1>4, StepIs DEF Good, e, r
<1>6. Used' = Used /\ Procs(t)' = Procs(t) /\ InHand(t)' = {} /\ InHand(t) = {}
  BY <1>1, <1>4, <1>5 DEF Procs, InHand, Used
<1>7. Holes(t)' = {e}
  <2>1. Blocks(hdr) = Procs(t)
    BY <1>1, <1>6, Facts
  <2> QED BY <1>3, <1>6, <2>1 DEF Holes
<1>8. \A a \in Blocks(hdr) : hdr'[a] = hdr[a]
  BY <1>3 DEF Blocks
<1>9. ListInv(t)'
  <2>1. Procs(t) \subseteq Blocks(hdr)
    BY Facts DEF ListInv
  <2>2. Circle(hdr', Procs(t), processes_head)
    BY <1>8, <2>1, Facts, SameCircle DEF ListInv
  <2>3. Ordered(hdr', Procs(t), processes_head)
    BY <1>8, <2>1, Facts DEF ListInv, Ordered
  <2>4. Circle(hdr', {e}, e)
    BY <1>3, OneInCircle
  <2>5. holes_head' = e /\ processes_head' = processes_head
    BY <1>1, <1>2 DEF e
  <2> QED BY <1>3, <1>6, <1>7, <2>1, <2>2, <2>3, <2>4, <2>5 DEF ListInv
<1>10. ThreadInv(t)'
  BY <1>1, <1>4, <1>5, <1>7, Facts DEF ThreadInv, Asking
<1>11. LiveInv'
  <2>1. \A c \in live : hdr'[c.addr - HDR] = hdr[c.addr - HDR]
    BY <1>8, Facts DEF ListInv, Used
  <2> QED BY <1>1, <2>1, Facts DEF LiveInv
<1> QED BY <1>3, <1>9, <1>10, <1>11 DEF Fine

LEMMA ExtendStep ==
  ASSUME NEW t \in Thread, Good(t), Extend(t)
  PROVE  Fine(t)'
<1>1. /\ th[t].pc = "extend"
      /\ UNCHANGED <<processes_head, holes_head, live>>
  BY DEF Extend, At
<1>2. PICK b \in Base \ attached :
        /\ attached' = attached \cup {b}
        /\ hdr' = Extended(b)
        /\ Step(t, [th[t] EXCEPT !.pc = "cut", !.run = Align(b), !.blk = Align(b)])
  BY DEF Extend
<1> DEFINE e == Align(b)
           r == [th[t] EXCEPT !.pc = "cut", !.run = e, !.blk = e]
<1>3. /\ hdr' \in Memory
      /\ hdr'[e] = [size |-> EXT, prev |-> e, next |-> e]
      /\ \A a \in Addr \ {e} : hdr'[a] = hdr[a]
      /\ e \in Addr \ Blocks(hdr)
      /\ Laid(hdr', attached')
      /\ Blocks(hdr') = Blocks(hdr) \cup {e}
  BY <1>2, Facts, LaidExtended
<1>4. /\ r \in ThreadType /\ r.pc = "cut" /\ r.run = e /\ r.blk = e /\ r.asked = th[t].asked
      /\ r.size = th[t].size /\ r.elem = th[t].elem
  BY <1>3, Facts DEF ThreadType, Pointer
<1>5. e # NULL
  BY <1>3, AddrFacts
<1> HIDE DEF e, r
<1>6. th'[t] = r /\ th' \in [Thread -> ThreadType]
  BY <1>2, <1>4, StepIs DEF Good, e, r
<1>7. th[t].elem = NULL /\ holes_head # NULL
  BY <1>1, Facts DEF ThreadInv
<1>8. Procs(t)' = Procs(t) /\ InHand(t)' = {e} /\ InHand(t) = {}
  BY <1>1, <1>4, <1>5, <1>6, <1>7 DEF Procs, InHand, Used
<1>9. Holes(t)' = Holes(t)
  <2>1. e \notin Procs(t)
    BY <1>3, Facts
  <2> QED BY <1>3, <1>8, <2>1 DEF Holes
<1>10. \A a \in Blocks(hdr) : hdr'[a] = hdr[a]
  BY <1>3 DEF Blocks
<1>11. ListInv(t)'
  <2>1. Procs(t) \subseteq Blocks(hdr) /\ Holes(t) \subseteq Blocks(hdr)
    BY Facts DEF ListInv, Holes
  <2>2. Circle(hdr', Procs(t), processes_head)
    BY <1>10, <2>1, Facts, SameCircle DEF ListInv
  <2>3. Ordered(hdr', Procs(t), processes_head)
    BY <1>10, <2>1, Facts DEF ListInv, Ordered
  <2>4. Circle(hdr', Holes(t), holes_head)
    BY <1>10, <2>1, Facts, SameCircle DEF ListInv
  <2> QED BY <1>1, <1>3, <1>8, <1>9, <2>1, <2>2, <2>3, <2>4 DEF ListInv
<1>12. ThreadInv(t)'
  BY <1>1, <1>3, <1>4, <1>5, <1>6, <1>7, Facts DEF ThreadInv, Asking
<1>13. LiveInv'
  <2>1. \A c \in live : hdr'[c.addr - HDR] = hdr[c.addr - HDR]
    BY <1>10, Facts DEF ListInv, Used
  <2> QED BY <1>1, <2>1, Facts DEF LiveInv
<1> QED BY <1>3, <1>11, <1>12, <1>13 DEF Fine

(* A split that does not move the header leaves a block of an odd size.      *)
LEMMA NotMoved ==
  ASSUME NEW e \in Nat, NEW n \in Nat, e % 2 = 1, Splittable(hdr, e, n), Moved(e, n) = {}
  PROVE  n % 2 = 1
<1>1. Align(e + HDR + n) = e + HDR + n
  BY DEF Moved
<1>2. (e + 3 + n + 3) % 2 = 0
  BY <1>1 DEF Align, HDR
<1> QED BY <1>2, SMT

(* split(): the remainder comes behind the block in its list.                *)
LEMMA SplitIs ==
  ASSUME NEW h \in Memory, NEW att, Laid(h, att), NEW e \in Blocks(h),
         NEW n \in Nat, n % 2 = 1, n <= h[e].size, Splittable(h, e, n), h[e].next \in Blocks(h)
  PROVE  /\ Split(h, e, n) \in Memory
         /\ SplitAt(e, n) \in Addr \ Blocks(h) /\ SplitAt(e, n) \in Space(h, e)
         /\ Laid(Split(h, e, n), att)
         /\ Blocks(Split(h, e, n)) = Blocks(h) \cup {SplitAt(e, n)}
         /\ Split(h, e, n)[e].size = n
         /\ \A a \in Blocks(h) \ {e} : Split(h, e, n)[a].size = h[a].size
         /\ \A S \in SUBSET Blocks(h) :
              e \in S => Between(Split(h, e, n), h, S, SplitAt(e, n), e)
         /\ \A a \in Blocks(h) \ {e, h[e].next} : Split(h, e, n)[a] = h[a]
<1> DEFINE new == SplitAt(e, n)
           q   == h[e].next
           m   == [size |-> Minus(h[e].size, n + HDR), prev |-> e, next |-> q]
           h1  == [h EXCEPT ![new] = m]
           h2  == [h1 EXCEPT ![h1[e].next].prev = new]
           g   == [h2 EXCEPT ![e].size = n, ![e].next = new]
<1>1. /\ e \in Addr /\ e \in Nat /\ e % 2 = 1 /\ h[e].size \in 1..EXT /\ EXT \in Nat
      /\ HDR \in Nat /\ Space(h, e) \subseteq Addr
  BY BlockIs, MemListAssumption DEF HDR
<1>2. n + HDR < h[e].size
  <2>1. Minus(h[e].size, n) = h[e].size - n
    BY <1>1, MinusIs
  <2> QED BY <1>1, <2>1 DEF Splittable
<1>3. Minus(h[e].size, n + HDR) = h[e].size - (n + HDR) /\ h[e].size - (n + HDR) \in Nat
  <2>1. n + HDR \in Nat /\ n + HDR <= h[e].size
    BY <1>1, <1>2
  <2> QED BY <1>1, <2>1, MinusIs
<1>4. new = e + HDR + n
  BY <1>1, SplitAtIs
<1>5. new \in Space(h, e) /\ new # e
  <2>1. e + HDR + n \in e..(e + HDR + h[e].size - 1) /\ e + HDR + n # e
    BY <1>1, <1>2 DEF HDR
  <2> QED BY <1>4, <2>1 DEF Space
<1>6. new \in Addr \ Blocks(h)
  <2> DEFINE f == [a \in Addr |-> [size |-> IF a = e THEN n
                                           ELSE IF a = new THEN h[e].size - (n + HDR) ELSE h[a].size]]
  <2>1. Sized(f, h, e, new, n)
    BY DEF Sized
  <2> HIDE DEF f, new
  <2> QED BY <1>2, <1>4, <2>1, LaidSplit
<1>7. Split(h, e, n) = g
  BY DEF Split
<1>8. q \in Addr /\ q # new
  BY <1>6 DEF Blocks
<1> HIDE DEF new, q
<1>9. m \in [size : Nat, prev : Pointer, next : Pointer]
  BY <1>1, <1>3, <1>8 DEF Pointer
<1>10. /\ h1 \in Memory /\ h1[new] = m /\ \A a \in Addr \ {new} : h1[a] = h[a]
  BY <1>6, <1>9 DEF Memory
<1>11. m.size = h[e].size - (n + HDR) /\ m.prev = e /\ m.next = q
  BY <1>3
<1>12. h1[e].next = q
  BY <1>1, <1>5, <1>10 DEF q
<1> HIDE DEF h1, m
<1>13. /\ h2 \in Memory
       /\ \A a \in Addr : /\ h2[a].prev = (IF a = q THEN new ELSE h1[a].prev)
                          /\ h2[a].next = h1[a].next /\ h2[a].size = h1[a].size
       /\ \A a \in Addr \ {q} : h2[a] = h1[a]
  BY <1>6, <1>8, <1>10, <1>12 DEF Memory, Pointer
<1> HIDE DEF h2
<1>14. /\ g \in Memory
       /\ g[e].size = n /\ g[e].next = new /\ g[e].prev = h2[e].prev
       /\ \A a \in Addr \ {e} : g[a] = h2[a]
  <2>1. g = [h2 EXCEPT ![e] = [h2[e] EXCEPT !.size = n, !.next = new]]
    BY <1>1, <1>13 DEF Memory
  <2> DEFINE c == [h2[e] EXCEPT !.size = n, !.next = new]
  <2>2. /\ c \in [size : Nat, prev : Pointer, next : Pointer]
        /\ c.next = new /\ c.size = n /\ c.prev = h2[e].prev
    <3>1. h2[e] \in [size : Nat, prev : Pointer, next : Pointer]
      BY <1>1, <1>13 DEF Memory
    <3>2. new \in Pointer
      BY <1>6 DEF Pointer
    <3> HIDE DEF g
    <3> QED BY <3>1, <3>2
  <2> HIDE DEF c, g
  <2>3. g = [h2 EXCEPT ![e] = c]
    BY <2>1 DEF c
  <2> QED BY <1>1, <1>13, <2>2, <2>3 DEF Memory
<1> HIDE DEF g
<1>15. Sized(g, h, e, new, n)
  BY <1>5, <1>10, <1>11, <1>13, <1>14 DEF Sized
<1>16. Laid(g, att) /\ Blocks(g) = Blocks(h) \cup {new}
  BY <1>2, <1>4, <1>15, LaidSplit
<1>17. \A a \in Blocks(h) \ {e} : g[a].size = h[a].size
  BY <1>6, <1>15 DEF Sized, Blocks
<1>18. ASSUME NEW S \in SUBSET Blocks(h), e \in S
       PROVE  Between(g, h, S, new, e)
  <2>1. S \subseteq Addr \ {new}
    BY <1>6 DEF Blocks
  <2>2. g[new].next = q /\ g[new].prev = e
    BY <1>5, <1>6, <1>8, <1>10, <1>11, <1>13, <1>14
  <2>3. ASSUME NEW a \in S
        PROVE  /\ g[a].next = (IF a = e THEN new ELSE h[a].next)
               /\ g[a].prev = (IF a = q THEN new ELSE h[a].prev)
    BY <1>10, <1>13, <1>14, <2>1
  <2> QED BY <2>2, <2>3 DEF Between, q
<1>19. \A a \in Blocks(h) \ {e, q} : g[a] = h[a]
  BY <1>6, <1>10, <1>13, <1>14 DEF Blocks
<1> QED BY <1>5, <1>6, <1>7, <1>14, <1>16, <1>17, <1>18, <1>19 DEF new, q

LEMMA SearchFitsStep ==
  ASSUME NEW t \in Thread, Good(t), SearchFits(t), flaws' = {}
  PROVE  Fine(t)'
<1> DEFINE e == th[t].run
           n == th[t].size
           r == [th[t] EXCEPT !.pc = "take", !.elem = e, !.blk = e]
<1>1. /\ th[t].pc = "search" /\ e \in Holes(t) /\ Step(t, r)
      /\ hdr' = IF Splittable(hdr, e, n) THEN Split(hdr, e, n) ELSE hdr
      /\ hdr[e].size >= n /\ Asking(t) /\ Moved(e, n) = {}
      /\ UNCHANGED <<processes_head, holes_head, attached, live>>
  BY Facts DEF SearchFits, At, ThreadInv, Fits
<1>2. n \in Nat /\ n = th[t].asked
  BY <1>1, AskedIs DEF Asking
<1>3. e \in Blocks(hdr) /\ e \in Addr /\ e # NULL /\ hdr[e].size \in Nat
  BY <1>1, Facts, AddrFacts DEF Memory
<1>4. /\ r \in ThreadType /\ r.pc = "take" /\ r.elem = e /\ r.blk = e
      /\ r.asked = th[t].asked /\ r.size = th[t].size
  BY <1>3, Facts DEF ThreadType, Pointer
<1> HIDE DEF e, n, r
<1>5. th'[t] = r /\ th' \in [Thread -> ThreadType]
  BY <1>1, <1>4, StepIs DEF Good
<1>6. Used' = Used /\ Procs(t)' = Procs(t) /\ InHand(t)' = {} /\ InHand(t) = {}
  BY <1>1, <1>4, <1>5 DEF Procs, InHand, Used
<1>7. CASE Splittable(hdr, e, n)
  <2> DEFINE new == SplitAt(e, n)
             q   == hdr[e].next
  <2>1. q \in Holes(t) /\ q \in Blocks(hdr)
    BY <1>1, Facts DEF ListInv, Circle
  <2>2. n <= hdr[e].size
    BY <1>1, <1>2, <1>3
  <2>3. hdr' = Split(hdr, e, n) /\ n % 2 = 1
    BY <1>1, <1>2, <1>3, <1>7, Facts, BlockIs, NotMoved
  <2>4. /\ hdr' \in Memory
        /\ new \in Addr \ Blocks(hdr)
        /\ Laid(hdr', attached)
        /\ Blocks(hdr') = Blocks(hdr) \cup {new}
        /\ hdr'[e].size = n
        /\ \A a \in Blocks(hdr) \ {e} : hdr'[a].size = hdr[a].size
        /\ \A S \in SUBSET Blocks(hdr) : e \in S => Between(hdr', hdr, S, new, e)
        /\ \A a \in Blocks(hdr) \ {e, q} : hdr'[a] = hdr[a]
    BY <1>2, <1>3, <1>7, <2>1, <2>2, <2>3, Facts, SplitIs
  <2> HIDE DEF new, q
  <2>5. Holes(t)' = Holes(t) \cup {new}
    <3>1. new \notin Procs(t)
      BY <2>4, Facts
    <3> QED BY <1>6, <2>4, <3>1 DEF Holes
  <2>6. \A a \in Procs(t) : hdr'[a] = hdr[a]
    BY <1>1, <2>1, <2>4, Facts DEF Holes
  <2>7. ListInv(t)'
    <3>1. Circle(hdr', Procs(t), processes_head)
      BY <2>6, Facts, SameCircle DEF ListInv
    <3>2. Ordered(hdr', Procs(t), processes_head)
      BY <2>6, Facts DEF ListInv, Ordered
    <3>3. Circle(hdr', Holes(t) \cup {new}, holes_head)
      <4>1. Between(hdr', hdr, Holes(t), new, e)
        BY <1>1, <2>4 DEF Holes
      <4>2. new \in Addr \ Holes(t) /\ holes_head \in Holes(t) \cup {new}
        BY <1>1, <2>4, Facts
      <4> QED BY <1>1, <4>1, <4>2, Facts, BetweenCircle DEF ListInv
    <3> QED BY <1>1, <1>6, <2>4, <2>5, <3>1, <3>2, <3>3, Facts DEF ListInv
  <2>8. ThreadInv(t)'
    <3>1. n <= n
      BY <1>2
    <3> QED BY <1>1, <1>2, <1>3, <1>4, <1>5, <2>4, <2>5, <3>1 DEF ThreadInv, Has, Asking, n
  <2>9. LiveInv'
    <3>1. \A c \in live : hdr'[c.addr - HDR] = hdr[c.addr - HDR]
      BY <2>6, Facts DEF Used
    <3> QED BY <1>1, <3>1, Facts DEF LiveInv
  <2> QED BY <1>1, <2>4, <2>7, <2>8, <2>9 DEF Fine
<1>8. CASE ~ Splittable(hdr, e, n)
  <2>1. hdr' = hdr
    BY <1>1, <1>8
  <2>2. Holes(t)' = Holes(t) /\ Blocks(hdr)' = Blocks(hdr)
    BY <1>6, <2>1 DEF Holes, Blocks
  <2>3. ListInv(t)'
    BY <1>1, <1>6, <2>1, <2>2, Facts DEF ListInv, Circle, Ordered
  <2>4. ThreadInv(t)'
    <3>1. n <= hdr[e].size
      BY <1>1, <1>2, <1>3
    <3> QED BY <1>1, <1>2, <1>3, <1>4, <1>5, <2>1, <2>2, <3>1 DEF ThreadInv, Has, Asking, n
  <2>5. LiveInv' /\ Laid(hdr, attached)'
    BY <1>1, <2>1, Facts DEF LiveInv, Laid, Blocks, Space
  <2> QED BY <2>3, <2>4, <2>5 DEF Fine
<1> QED BY <1>7, <1>8

LEMMA CutStep ==
  ASSUME NEW t \in Thread, Good(t), Cut(t), flaws' = {}
  PROVE  Fine(t)'
<1> DEFINE e   == th[t].run
           n   == th[t].size
           new == SplitAt(e, n)
           rs  == [th[t] EXCEPT !.pc = "holes", !.run = holes_head, !.elem = new]
           rw  == [th[t] EXCEPT !.pc = "procs", !.run = processes_head, !.elem = e]
<1>1. /\ th[t].pc = "cut" /\ Asking(t) /\ e # NULL /\ th[t].elem = NULL /\ holes_head # NULL
      /\ hdr[e] = [size |-> EXT, prev |-> e, next |-> e] /\ e = th[t].blk
      /\ UNCHANGED <<processes_head, holes_head, attached, live>> /\ Moved(e, n) = {}
  BY Facts DEF Cut, At, ThreadInv
<1>2. InHand(t) = {e} /\ e \in Blocks(hdr) \ Procs(t) /\ e \in Addr
  BY <1>1, Facts DEF InHand, ListInv
<1>3. n \in Nat /\ n = th[t].asked /\ n <= EXT
  BY <1>1, AskedIs DEF Asking
<1>4. hdr[e].size = EXT /\ hdr[e].next = e
  BY <1>1
<1>5. CASE Splittable(hdr, e, n)
  <2>1. hdr' = Split(hdr, e, n) /\ Step(t, rs) /\ n % 2 = 1
    <3>1. e \in Nat /\ e % 2 = 1
      BY <1>2, Facts, BlockIs
    <3>2. n % 2 = 1
      BY <1>1, <1>3, <1>5, <3>1, NotMoved
    <3> QED BY <1>5, <3>2 DEF Cut
  <2>2. /\ hdr' \in Memory
        /\ new \in Addr \ Blocks(hdr)
        /\ Laid(hdr', attached)
        /\ Blocks(hdr') = Blocks(hdr) \cup {new}
        /\ hdr'[e].size = n
        /\ \A a \in Blocks(hdr) \ {e} : hdr'[a] = hdr[a]
    BY <1>2, <1>3, <1>4, <1>5, <2>1, Facts, SplitIs
  <2>3. /\ rs \in ThreadType /\ rs.pc = "holes" /\ rs.elem = new /\ rs.blk = e
        /\ rs.run = holes_head /\ rs.asked = th[t].asked /\ rs.size = th[t].size
    <3>1. holes_head \in Pointer /\ new \in Pointer /\ th[t].blk = e /\ th[t] \in ThreadType
      BY <1>1, <2>2, Facts DEF Good, TypeOK, Pointer
    <3> HIDE DEF e, n, new
    <3> QED BY <3>1 DEF ThreadType
  <2> HIDE DEF e, n, new, rs, rw
  <2>4. th'[t] = rs /\ th' \in [Thread -> ThreadType]
    BY <2>1, <2>3, StepIs DEF Good
  <2>5. new # NULL /\ new # e
    BY <1>2, <2>2, AddrFacts
  <2>6. Procs(t)' = Procs(t) /\ InHand(t)' = {e, new}
    BY <1>1, <2>3, <2>4, <2>5 DEF Procs, InHand, Used
  <2>7. Holes(t)' = Holes(t)
    <3>1. new \notin Procs(t)
      BY <2>2, Facts
    <3> QED BY <1>2, <2>2, <2>6, <3>1 DEF Holes
  <2>8. \A a \in Procs(t) \cup Holes(t) : hdr'[a] = hdr[a]
    BY <1>2, <2>2, Facts DEF Holes
  <2>9. ListInv(t)'
    <3>1. Circle(hdr', Procs(t), processes_head)
      BY <2>8, Facts, SameCircle DEF ListInv
    <3>2. Ordered(hdr', Procs(t), processes_head)
      BY <2>8, Facts DEF ListInv, Ordered
    <3>3. Circle(hdr', Holes(t), holes_head)
      BY <2>8, Facts, SameCircle DEF ListInv
    <3>4. {e, new} \subseteq Blocks(hdr') \ Procs(t) /\ Procs(t) \subseteq Blocks(hdr')
      BY <1>2, <2>2, Facts
    <3> QED BY <1>1, <2>6, <2>7, <3>1, <3>2, <3>3, <3>4 DEF ListInv
  <2>10. ThreadInv(t)'
    <3>1. holes_head \in Holes(t)
      BY <1>1, Facts
    <3>2. n <= n
      BY <1>3
    <3>3. th'[t].pc = "holes" /\ Has(t)'
      BY <1>1, <1>3, <2>2, <2>3, <2>4, <3>2 DEF Has, Asking, n
    <3> QED BY <1>1, <2>3, <2>4, <2>5, <2>7, <3>1, <3>3 DEF ThreadInv
  <2>11. LiveInv'
    <3>1. \A c \in live : hdr'[c.addr - HDR] = hdr[c.addr - HDR]
      BY <2>8, Facts DEF Used
    <3> QED BY <1>1, <3>1, Facts DEF LiveInv
  <2> QED BY <1>1, <2>2, <2>9, <2>10, <2>11 DEF Fine
<1>6. CASE ~ Splittable(hdr, e, n)
  <2>1. hdr' = hdr /\ Step(t, rw)
    BY <1>6 DEF Cut
  <2>2. /\ rw \in ThreadType /\ rw.pc = "procs" /\ rw.elem = e /\ rw.blk = e
        /\ rw.run = processes_head /\ rw.asked = th[t].asked /\ rw.size = th[t].size
    <3>1. processes_head \in Pointer /\ e \in Pointer /\ th[t].blk = e
      BY <1>1, <1>2 DEF Good, TypeOK, Pointer
    <3>2. th[t] \in ThreadType
      BY Facts
    <3> HIDE DEF e, n, new, rs
    <3> QED BY <3>1, <3>2 DEF ThreadType
  <2> HIDE DEF e, n, new, rs, rw
  <2>3. th'[t] = rw /\ th' \in [Thread -> ThreadType]
    BY <2>1, <2>2, StepIs DEF Good
  <2>4. Procs(t)' = Procs(t) /\ InHand(t)' = InHand(t)
    BY <1>1, <1>2, <2>2, <2>3 DEF Procs, InHand, Used
  <2>5. ThreadInv(t)'
    <3>1. th'[t].pc = "procs" /\ Has(t)' /\ th'[t].elem = th'[t].blk
      BY <1>1, <1>3, <1>4, <2>1, <2>2, <2>3 DEF Has, Asking, n
    <3>2. processes_head = NULL \/ (processes_head \in Procs(t)
            /\ \A a \in Procs(t) : a < processes_head => a < e)
      <4>1. processes_head # NULL => \A a \in Procs(t) : ~ (a < processes_head)
        <5>1. Procs(t) \subseteq Nat
          BY Facts, AddrFacts DEF ListInv, Circle
        <5>2. \A a \in Procs(t) : processes_head <= a
          BY Facts DEF ListInv, Ordered
        <5>3. processes_head # NULL => processes_head \in Nat
          BY <5>1, Facts
        <5> QED BY <5>1, <5>2, <5>3
      <4> QED BY <4>1, Facts
    <3> QED BY <1>1, <2>2, <2>3, <2>4, <3>1, <3>2 DEF ThreadInv
  <2> QED BY <1>1, <2>1, <2>3, <2>4, <2>5, Stands
<1> QED BY <1>5, <1>6

(* A step that moves blocks between the lists and keeps their sizes.         *)
LEMMA Relinked ==
  ASSUME NEW t \in Thread, Good(t), th' \in [Thread -> ThreadType], hdr' \in Memory,
         \A a \in Addr : hdr'[a].size = hdr[a].size,
         processes_head' \in Pointer, holes_head' \in Pointer,
         UNCHANGED <<attached, live>>, ListInv(t)', ThreadInv(t)'
  PROVE  Fine(t)'
<1>2. Laid(hdr, attached)'
  BY LaidSame, Facts
<1>3. LiveInv'
  <2>1. \A c \in live : c.addr - HDR \in Addr
    BY Facts DEF Used, ListInv
  <2> QED BY <2>1, Facts DEF LiveInv
<1> QED BY <1>2, <1>3 DEF Fine

LEMMA BlocksSame ==
  ASSUME \A a \in Addr : hdr'[a].size = hdr[a].size
  PROVE  Blocks(hdr)' = Blocks(hdr)
BY DEF Blocks

LEMMA PointerIs ==
  ASSUME NEW h, NEW S, NEW head, Circle(h, S, head)
  PROVE  head \in Pointer
BY DEF Circle, Pointer

(* malloc() takes a hole out of its list: the first block in use, or one to  *)
(* be inserted among them.                                                   *)
LEMMA TakeHoleStep ==
  ASSUME NEW t \in Thread, Good(t), TakeHole(t)
  PROVE  Fine(t)'
<1> DEFINE e  == th[t].elem
           S  == Holes(t)
           h  == Removed(hdr, holes_head, e)
           hf == [h EXCEPT ![e].next = e, ![e].prev = e]
           rf == [th[t] EXCEPT !.pc = "return", !.run = processes_head]
           rp == [th[t] EXCEPT !.pc = "procs", !.run = processes_head]
<1>1. /\ th[t].pc = "take" /\ Has(t) /\ e = th[t].blk /\ e \in S
      /\ holes_head' = RemovedHead(hdr, holes_head, e)
      /\ UNCHANGED <<attached, live>>
  BY Facts DEF TakeHole, At, ThreadInv
<1>2. e \in Addr /\ e \in Blocks(hdr) /\ S \subseteq Addr /\ e \notin Procs(t) /\ e # NULL
  BY <1>1, Facts, AddrFacts DEF Holes
<1>3. /\ h \in Memory
      /\ \A a \in Addr : h[a].size = hdr[a].size
      /\ \A a \in Addr \ S : h[a] = hdr[a]
      /\ Circle(h, S \ {e}, holes_head')
  <2>1. Circle(hdr, S, holes_head) /\ hdr \in Memory
    BY Facts DEF ListInv
  <2>2. e \in S
    BY <1>1
  <2> HIDE DEF S, e
  <2>3. /\ h \in Memory
        /\ \A a \in Addr : h[a].size = hdr[a].size
        /\ \A a \in Addr \ S : h[a] = hdr[a]
        /\ Circle(h, S \ {e}, RemovedHead(hdr, holes_head, e))
        /\ S # {e} => Without(h, hdr, S, e)
    BY <2>1, <2>2, RemovedIs
  <2> HIDE DEF h
  <2> QED BY <1>1, <2>3 DEF S, e
<1>4. InHand(t) = {} /\ Procs(t) = Used /\ Used' = Used
  BY <1>1 DEF InHand, Procs, Used
<1>5. holes_head' \in Pointer
  BY <1>3, PointerIs
<1>6. CASE processes_head = NULL
  <2>1. hdr' = hf /\ processes_head' = e /\ Step(t, rf)
    BY <1>6 DEF TakeHole
  <2>2. /\ rf \in ThreadType /\ rf.pc = "return" /\ rf.elem = e /\ rf.blk = e
        /\ rf.asked = th[t].asked /\ rf.size = th[t].size
    <3>1. processes_head \in Pointer /\ th[t] \in ThreadType
      BY Facts DEF Good, TypeOK
    <3> QED BY <1>1, <3>1 DEF ThreadType
  <2> HIDE DEF rf, rp, h
  <2>3. /\ hf \in Memory
        /\ \A a \in Addr \ {e} : hf[a] = h[a]
        /\ hf[e].next = e /\ hf[e].prev = e /\ hf[e].size = h[e].size
    BY <1>2, <1>3 DEF Memory, Pointer
  <2> HIDE DEF hf, e, S
  <2>4. th'[t] = rf /\ th' \in [Thread -> ThreadType]
    BY <2>1, <2>2, StepIs DEF Good
  <2>5. \A a \in Addr : hdr'[a].size = hdr[a].size
    BY <1>2, <1>3, <2>1, <2>3
  <2>6. Blocks(hdr)' = Blocks(hdr)
    BY <2>5, BlocksSame
  <2>7. Procs(t) = {} /\ Procs(t)' = {e} /\ InHand(t)' = {}
    <3>1. Procs(t) = {}
      BY <1>6, Facts
    <3> QED BY <1>4, <2>2, <2>4, <3>1 DEF Procs, InHand
  <2>8. Holes(t)' = S \ {e}
    BY <1>4, <2>6, <2>7 DEF Holes, S
  <2>9. Circle(hdr', {e}, e) /\ Ordered(hdr', {e}, e)
    <3>1. hdr'[e].next = e /\ hdr'[e].prev = e
      BY <2>1, <2>3
    <3>2. e \in Nat
      BY <1>2, AddrFacts
    <3> QED BY <1>2, <3>1, <3>2, OneInCircle DEF Ordered
  <2>10. Circle(hdr', S \ {e}, holes_head')
    <3>1. \A a \in S \ {e} : hdr'[a].next = h[a].next /\ hdr'[a].prev = h[a].prev
      BY <1>2, <2>1, <2>3
    <3> QED BY <1>3, <3>1, SameCircle
  <2>11. ListInv(t)'
    BY <1>2, <2>1, <2>6, <2>7, <2>8, <2>9, <2>10 DEF ListInv
  <2>12. ThreadInv(t)'
    <3>1. Has(t)'
      BY <1>1, <1>2, <2>2, <2>4, <2>5 DEF Has, Asking, e
    <3>2. e \notin Used
      BY <1>2, <1>4
    <3> QED BY <1>4, <2>2, <2>4, <3>1, <3>2 DEF ThreadInv
  <2>13. hdr' \in Memory /\ processes_head' \in Pointer
    BY <1>2, <2>1, <2>3 DEF Pointer
  <2> QED BY <1>1, <1>5, <2>4, <2>5, <2>11, <2>12, <2>13, Relinked
<1>7. CASE processes_head # NULL
  <2>1. hdr' = h /\ processes_head' = processes_head /\ Step(t, rp)
    BY <1>7 DEF TakeHole
  <2>2. /\ rp \in ThreadType /\ rp.pc = "procs" /\ rp.elem = e /\ rp.blk = e
        /\ rp.run = processes_head /\ rp.asked = th[t].asked /\ rp.size = th[t].size
    <3>1. processes_head \in Pointer /\ th[t] \in ThreadType
      BY Facts DEF Good, TypeOK
    <3> QED BY <1>1, <3>1 DEF ThreadType
  <2> HIDE DEF rf, rp, h, hf, e, S
  <2>3. th'[t] = rp /\ th' \in [Thread -> ThreadType]
    BY <2>1, <2>2, StepIs DEF Good
  <2>4. Blocks(hdr)' = Blocks(hdr)
    BY <1>3, <2>1, BlocksSame
  <2>5. Procs(t)' = Procs(t) /\ InHand(t)' = {e}
    BY <1>2, <1>4, <2>2, <2>3 DEF Procs, InHand
  <2>6. Holes(t)' = S \ {e}
    BY <1>4, <2>4, <2>5 DEF Holes, S
  <2>7. \A a \in Procs(t) : hdr'[a] = hdr[a]
    BY <1>3, <2>1, Facts DEF Holes, S
  <2>8. Circle(hdr', Procs(t), processes_head)
    BY <2>7, Facts, SameCircle DEF ListInv
  <2>9. Ordered(hdr', Procs(t), processes_head)
    BY <2>7, Facts DEF ListInv, Ordered
  <2>10. ListInv(t)'
    <3>1. Procs(t) \subseteq Blocks(hdr)
      BY Facts DEF ListInv
    <3> QED BY <1>2, <1>3, <2>1, <2>4, <2>5, <2>6, <2>8, <2>9, <3>1 DEF ListInv
  <2>11. ThreadInv(t)'
    <3>1. Has(t)'
      BY <1>1, <1>2, <1>3, <2>1, <2>2, <2>3 DEF Has, Asking, e
    <3>2. processes_head \in Procs(t) /\ \A a \in Procs(t) : ~ (a < processes_head)
      <4>1. processes_head \in Procs(t)
        BY <1>7, Facts
      <4>2. Procs(t) \subseteq Nat
        BY Facts, AddrFacts DEF ListInv, Circle
      <4>3. \A a \in Procs(t) : processes_head <= a
        BY Facts DEF ListInv, Ordered
      <4> QED BY <4>1, <4>2, <4>3
    <3> QED BY <2>2, <2>3, <2>5, <3>1, <3>2 DEF ThreadInv
  <2>12. hdr' \in Memory /\ processes_head' \in Pointer
    BY <1>3, <2>1 DEF Good, TypeOK
  <2> QED BY <1>1, <1>3, <1>5, <2>1, <2>3, <2>10, <2>11, <2>12, Relinked
<1> QED BY <1>6, <1>7

(* free() takes a block out of the list of those in use.                     *)
LEMMA FreeBlockStep ==
  ASSUME NEW t \in Thread, Good(t), FreeBlock(t)
  PROVE  Fine(t)'
<1> DEFINE e  == th[t].elem
           S  == Procs(t)
           h  == Removed(hdr, processes_head, e)
           hf == [h EXCEPT ![e].next = e, ![e].prev = e]
           r  == [th[t] EXCEPT !.pc = "holes", !.run = holes_head]
<1>1. /\ th[t].pc = "free" /\ e \notin Used /\ th[t].blk = NULL
      /\ processes_head' = RemovedHead(hdr, processes_head, e)
      /\ UNCHANGED <<attached, live>>
  BY Facts DEF FreeBlock, At, ThreadInv
<1>0. e # NULL
  <2>1. Follows(t) \subseteq Mapped
    BY DEF FreeBlock, At, Ok
  <2>2. Mapped \subseteq Addr
    BY Facts DEF Mapped, Addr
  <2>3. Ok({e}) \/ Follows(t) = {e}
    BY <1>1 DEF Follows
  <2> QED BY <2>1, <2>2, <2>3, AddrFacts DEF Ok
<1>2. e \in S /\ S = Used \cup {e} /\ InHand(t) = {} /\ Used' = Used
  BY <1>0, <1>1 DEF Procs, InHand, Used
<1>3. e \in Addr /\ e \in Blocks(hdr) /\ S \subseteq Blocks(hdr) /\ S \subseteq Addr /\ e # NULL
  BY <1>2, Facts, AddrFacts DEF ListInv
<1>4. Circle(hdr, S, processes_head) /\ Ordered(hdr, S, processes_head)
  BY Facts DEF ListInv
<1>5. /\ h \in Memory
      /\ \A a \in Addr : h[a].size = hdr[a].size
      /\ \A a \in Addr \ S : h[a] = hdr[a]
      /\ Circle(h, S \ {e}, processes_head')
      /\ S # {e} => Without(h, hdr, S, e)
  <2>1. hdr \in Memory /\ e \in S /\ Circle(hdr, S, processes_head)
    BY <1>2, <1>4, Facts
  <2> HIDE DEF S, e
  <2>2. /\ h \in Memory
        /\ \A a \in Addr : h[a].size = hdr[a].size
        /\ \A a \in Addr \ S : h[a] = hdr[a]
        /\ Circle(h, S \ {e}, RemovedHead(hdr, processes_head, e))
        /\ S # {e} => Without(h, hdr, S, e)
    BY <2>1, RemovedIs
  <2> HIDE DEF h
  <2> QED BY <1>1, <2>2 DEF S, e
<1> HIDE DEF h
<1>6. Ordered(h, S \ {e}, processes_head')
  <2>1. S # {e} => Ordered(h, S \ {e}, processes_head')
    BY <1>1, <1>2, <1>4, <1>5, WithoutOrdered
  <2>2. S = {e} => Ordered(h, S \ {e}, processes_head')
    BY DEF Ordered
  <2> QED BY <2>1, <2>2
<1>7. processes_head' \in Pointer
  BY <1>5, PointerIs
<1>8. CASE holes_head = NULL
  <2>1. hdr' = hf /\ holes_head' = e /\ Step(t, Idle)
    BY <1>8 DEF FreeBlock, h
  <2>2. Idle \in ThreadType /\ Idle.pc = "idle"
    BY DEF ThreadType, Idle, Pointer, NULL
  <2>3. /\ hf \in Memory
        /\ \A a \in Addr \ {e} : hf[a] = h[a]
        /\ hf[e].next = e /\ hf[e].prev = e /\ hf[e].size = h[e].size
    BY <1>3, <1>5 DEF Memory, Pointer
  <2> HIDE DEF hf, e, S
  <2>4. th'[t] = Idle /\ th' \in [Thread -> ThreadType]
    BY <2>1, <2>2, StepIs DEF Good
  <2>5. \A a \in Addr : hdr'[a].size = hdr[a].size
    BY <1>3, <1>5, <2>1, <2>3
  <2>6. Blocks(hdr)' = Blocks(hdr)
    BY <2>5, BlocksSame
  <2>7. Procs(t)' = S \ {e} /\ InHand(t)' = {}
    BY <1>1, <1>2, <2>2, <2>4 DEF Procs, InHand
  <2>8. Holes(t)' = {e}
    <3>1. Holes(t) = {}
      BY <1>8, Facts
    <3>2. Blocks(hdr) = S
      BY <1>2, <3>1, Facts DEF S
    <3> QED BY <1>2, <2>6, <2>7, <3>2 DEF Holes
  <2>9. \A a \in S \ {e} : hdr'[a] = h[a]
    BY <1>3, <2>1, <2>3
  <2>10. Circle(hdr', S \ {e}, processes_head')
    BY <1>5, <2>9, SameCircle
  <2>11. Ordered(hdr', S \ {e}, processes_head')
    BY <1>6, <2>9 DEF Ordered
  <2>12. Circle(hdr', {e}, e)
    <3>1. hdr'[e].next = e /\ hdr'[e].prev = e
      BY <2>1, <2>3
    <3> QED BY <1>3, <3>1, OneInCircle
  <2>13. ListInv(t)'
    BY <1>3, <2>1, <2>6, <2>7, <2>8, <2>10, <2>11, <2>12 DEF ListInv
  <2>14. ThreadInv(t)'
    BY <2>2, <2>4 DEF ThreadInv
  <2>15. hdr' \in Memory /\ holes_head' \in Pointer
    BY <1>3, <2>1, <2>3 DEF Pointer
  <2> QED BY <1>1, <1>7, <2>4, <2>5, <2>13, <2>14, <2>15, Relinked
<1>9. CASE holes_head # NULL
  <2>1. hdr' = h /\ holes_head' = holes_head /\ Step(t, r)
    BY <1>9 DEF FreeBlock, h
  <2>2. /\ r \in ThreadType /\ r.pc = "holes" /\ r.elem = e /\ r.blk = NULL
        /\ r.run = holes_head
    <3>1. holes_head \in Pointer /\ th[t] \in ThreadType
      BY Facts DEF Good, TypeOK
    <3> QED BY <1>1, <3>1 DEF ThreadType
  <2> HIDE DEF r, hf, e, S
  <2>3. th'[t] = r /\ th' \in [Thread -> ThreadType]
    BY <2>1, <2>2, StepIs DEF Good
  <2>4. Blocks(hdr)' = Blocks(hdr)
    BY <1>5, <2>1, BlocksSame
  <2>5. Procs(t)' = S \ {e} /\ InHand(t)' = {e}
    BY <1>1, <1>2, <1>3, <2>2, <2>3 DEF Procs, InHand
  <2>6. Holes(t)' = Holes(t)
    BY <1>2, <2>4, <2>5 DEF Holes, S
  <2>7. Circle(hdr', Holes(t), holes_head)
    <3>1. \A a \in Holes(t) : hdr'[a] = hdr[a]
      BY <1>5, <2>1, Facts DEF Holes, S
    <3> QED BY <3>1, Facts, SameCircle DEF ListInv
  <2>8. ListInv(t)'
    BY <1>3, <1>5, <1>6, <2>1, <2>4, <2>5, <2>6, <2>7 DEF ListInv
  <2>9. ThreadInv(t)'
    <3>1. holes_head \in Holes(t)
      BY <1>9, Facts
    <3> QED BY <1>3, <2>2, <2>3, <2>6, <3>1 DEF ThreadInv
  <2>10. hdr' \in Memory /\ holes_head' \in Pointer
    BY <1>5, <2>1 DEF Good, TypeOK
  <2> QED BY <1>1, <1>5, <1>7, <2>1, <2>3, <2>8, <2>9, <2>10, Relinked
<1> QED BY <1>8, <1>9

(* The insertion at the end of malloc() or free().                           *)
LEMMA HolesInsertStep ==
  ASSUME NEW t \in Thread, Good(t), HolesInsert(t)
  PROVE  Fine(t)'
<1> DEFINE r  == th[t].run
           e  == th[t].elem
           S  == Holes(t)
           b  == HolesBefore(t)
           rp == [th[t] EXCEPT !.pc = "procs", !.run = processes_head, !.elem = th[t].blk]
<1>1. /\ th[t].pc = "holes" /\ r \in S /\ e # NULL
      /\ th[t].blk = NULL \/ (Has(t) /\ th[t].blk # e)
      /\ hdr' = Inserted(hdr, holes_head, e, r, b)
      /\ holes_head' = InsertedHead(holes_head, e, r, b)
      /\ ~ (hdr[r].next # holes_head /\ b)
      /\ Step(t, IF th[t].blk = NULL THEN Idle ELSE rp)
      /\ UNCHANGED <<processes_head, attached, live>>
  BY Facts DEF HolesInsert, At, ThreadInv
<1>2. InHand(t) = {e, th[t].blk} \ {NULL} /\ Procs(t) = Used /\ Used' = Used
  BY <1>1 DEF InHand, Procs, Used
<1>3. /\ e \in Blocks(hdr) \ Procs(t) /\ e \in Addr \ S /\ S \subseteq Blocks(hdr)
      /\ th[t].blk # NULL => th[t].blk \in Blocks(hdr) \ Procs(t)
  BY <1>1, <1>2, Facts DEF ListInv, Holes
<1>4. b \in BOOLEAN
  BY DEF HolesBefore
<1>5. Circle(hdr, S, holes_head) /\ hdr \in Memory
  BY Facts DEF ListInv
<1> HIDE DEF r, e, S, b
<1>6. /\ hdr' \in Memory
      /\ \A a \in Addr : hdr'[a].size = hdr[a].size
      /\ \A a \in Addr \ (S \cup {e}) : hdr'[a] = hdr[a]
      /\ Circle(hdr', S \cup {e}, holes_head')
  <2> DEFINE g == Inserted(hdr, holes_head, e, r, b)
  <2>1. /\ g \in Memory
        /\ \A a \in Addr : g[a].size = hdr[a].size
        /\ \A a \in Addr \ (S \cup {e}) : g[a] = hdr[a]
        /\ Circle(g, S \cup {e}, InsertedHead(holes_head, e, r, b))
    <3>1. /\ hdr \in Memory /\ Circle(hdr, S, holes_head) /\ e \in Addr \ S /\ r \in S
          /\ b \in BOOLEAN /\ ~ (hdr[r].next # holes_head /\ b)
      BY <1>1, <1>3, <1>4, <1>5
    <3> HIDE DEF rp
    <3> QED BY <3>1, InsertedIs
  <2> HIDE DEF g
  <2>2. hdr' = g /\ holes_head' = InsertedHead(holes_head, e, r, b)
    BY <1>1 DEF g
  <2> QED BY <2>1, <2>2
<1>7. holes_head' \in Pointer /\ processes_head' \in Pointer
  BY <1>1, <1>6, PointerIs DEF Good, TypeOK
<1>8. Blocks(hdr)' = Blocks(hdr)
  BY <1>6, BlocksSame
<1>9. \A a \in Procs(t) : hdr'[a] = hdr[a]
  <2>1. \A a \in Procs(t) : a \in Addr \ (S \cup {e})
    BY <1>3, Facts DEF Holes, S
  <2> QED BY <1>6, <2>1
<1>10. /\ Procs(t) \subseteq Blocks(hdr)
       /\ Circle(hdr', Procs(t), processes_head)
       /\ Ordered(hdr', Procs(t), processes_head)
  <2>1. Circle(hdr', Procs(t), processes_head)
    BY <1>9, Facts, SameCircle DEF ListInv
  <2>2. Ordered(hdr', Procs(t), processes_head)
    BY <1>9, Facts DEF ListInv, Ordered
  <2> QED BY <2>1, <2>2, Facts DEF ListInv
<1>11. CASE th[t].blk = NULL
  <2>1. Idle \in ThreadType /\ Idle.pc = "idle" /\ Step(t, Idle)
    BY <1>1, <1>11 DEF ThreadType, Idle, Pointer, NULL
  <2>2. th'[t] = Idle /\ th' \in [Thread -> ThreadType]
    BY <2>1, StepIs DEF Good
  <2>3. Procs(t)' = Procs(t) /\ InHand(t)' = {} /\ InHand(t) = {e}
    BY <1>1, <1>2, <1>11, <2>1, <2>2 DEF Procs, InHand
  <2>4. Holes(t)' = S \cup {e}
    BY <1>3, <1>8, <2>3 DEF Holes, S
  <2>5. ListInv(t)'
    BY <1>1, <1>6, <1>8, <1>10, <2>3, <2>4 DEF ListInv
  <2>6. ThreadInv(t)'
    BY <2>1, <2>2 DEF ThreadInv
  <2> QED BY <1>1, <1>6, <1>7, <2>2, <2>5, <2>6, Relinked
<1>12. CASE th[t].blk # NULL
  <2>1. Step(t, rp)
    BY <1>1, <1>12
  <2>2. /\ rp \in ThreadType /\ rp.pc = "procs" /\ rp.elem = th[t].blk /\ rp.blk = th[t].blk
        /\ rp.run = processes_head /\ rp.asked = th[t].asked /\ rp.size = th[t].size
    <3>1. processes_head \in Pointer /\ th[t] \in ThreadType
      BY Facts DEF Good, TypeOK
    <3> QED BY <3>1 DEF ThreadType
  <2> HIDE DEF rp
  <2>3. th'[t] = rp /\ th' \in [Thread -> ThreadType]
    BY <2>1, <2>2, StepIs DEF Good
  <2>4. Procs(t)' = Procs(t) /\ InHand(t)' = {th[t].blk} /\ th[t].blk # e
    BY <1>1, <1>2, <1>12, <2>2, <2>3 DEF Procs, InHand
  <2>5. Holes(t)' = S \cup {e}
    <3>1. InHand(t) = {e, th[t].blk}
      BY <1>1, <1>2, <1>12
    <3> QED BY <1>3, <1>8, <2>4, <3>1 DEF Holes, S
  <2>6. ListInv(t)'
    BY <1>1, <1>3, <1>6, <1>8, <1>10, <1>12, <2>4, <2>5 DEF ListInv
  <2>7. ThreadInv(t)'
    <3>1. Has(t)'
      <4>1. th[t].blk \in Addr
        BY <1>3, <1>12, Facts
      <4> QED BY <1>1, <1>6, <1>12, <2>2, <2>3, <4>1 DEF Has, Asking
    <3>2. processes_head # NULL =>
            processes_head \in Procs(t) /\ \A a \in Procs(t) : ~ (a < processes_head)
      <4>1. processes_head # NULL => processes_head \in Procs(t)
        BY Facts
      <4>2. Procs(t) \subseteq Nat
        BY Facts, AddrFacts DEF ListInv, Circle
      <4>3. \A a \in Procs(t) : processes_head <= a
        BY Facts DEF ListInv, Ordered
      <4> QED BY <4>1, <4>2, <4>3
    <3>3. processes_head' = processes_head
      BY <1>1
    <3> QED BY <2>2, <2>3, <2>4, <3>1, <3>2, <3>3 DEF ThreadInv
  <2> QED BY <1>1, <1>6, <1>7, <2>3, <2>6, <2>7, Relinked
<1> QED BY <1>11, <1>12

LEMMA ProcsInsertStep ==
  ASSUME NEW t \in Thread, Good(t), ProcsInsert(t)
  PROVE  Fine(t)'
<1> DEFINE r  == th[t].run
           e  == th[t].elem
           S  == Procs(t)
           b  == r < e
           rr == [th[t] EXCEPT !.pc = "return"]
<1>1. /\ th[t].pc = "procs" /\ Has(t) /\ e = th[t].blk
      /\ hdr' = Inserted(hdr, processes_head, e, r, b)
      /\ processes_head' = InsertedHead(processes_head, e, r, b)
      /\ ~ (hdr[r].next # processes_head /\ b)
      /\ Step(t, rr)
      /\ UNCHANGED <<holes_head, attached, live>>
  BY Facts DEF ProcsInsert, At, ThreadInv
<1>2. r \in S /\ \A a \in S : a < r => a < e
  BY RunIs DEF ProcsInsert
<1>3. InHand(t) = {e} /\ S = Used /\ Used' = Used /\ e # NULL
  BY <1>1 DEF InHand, Procs, Used, Has
<1>4. e \in Blocks(hdr) \ S /\ e \in Addr \ S /\ S \subseteq Blocks(hdr)
  BY <1>3, Facts DEF ListInv
<1>5. b \in BOOLEAN
  OBVIOUS
<1>6. Circle(hdr, S, processes_head) /\ Ordered(hdr, S, processes_head) /\ hdr \in Memory
  BY Facts DEF ListInv
<1>7. /\ rr \in ThreadType /\ rr.pc = "return" /\ rr.elem = e /\ rr.blk = e
      /\ rr.asked = th[t].asked /\ rr.size = th[t].size
  BY <1>1, Facts DEF ThreadType
<1> HIDE DEF S, e, r, rr
<1>8. /\ hdr' \in Memory
      /\ \A a \in Addr : hdr'[a].size = hdr[a].size
      /\ \A a \in Addr \ (S \cup {e}) : hdr'[a] = hdr[a]
      /\ Between(hdr', hdr, S, e, IF r < e THEN r ELSE hdr[r].prev)
      /\ Circle(hdr', S \cup {e}, processes_head')
  <2> DEFINE g == Inserted(hdr, processes_head, e, r, b)
             k == InsertedHead(processes_head, e, r, b)
  <2>1. r \in S /\ e \in Addr \ S /\ (b => hdr[r].next = processes_head)
    BY <1>1, <1>2, <1>4
  <2> HIDE DEF b
  <2>2. /\ g \in Memory
        /\ \A a \in Addr : g[a].size = hdr[a].size
        /\ \A a \in Addr \ (S \cup {e}) : g[a] = hdr[a]
        /\ Between(g, hdr, S, e, IF b THEN r ELSE hdr[r].prev)
        /\ Circle(g, S \cup {e}, k)
    BY <1>5, <1>6, <2>1, InsertedIs
  <2> HIDE DEF g, k
  <2>3. hdr' = g /\ processes_head' = k
    BY <1>1 DEF g, k
  <2> QED BY <2>2, <2>3 DEF b
<1>9. Ordered(hdr', S \cup {e}, processes_head')
  BY <1>1, <1>2, <1>4, <1>6, <1>8, InsertedOrdered
<1>10. th'[t] = rr /\ th' \in [Thread -> ThreadType]
  BY <1>1, <1>7, StepIs DEF Good
<1>11. Blocks(hdr)' = Blocks(hdr)
  BY <1>8, BlocksSame
<1>12. Procs(t)' = S \cup {e} /\ InHand(t)' = {}
  BY <1>3, <1>7, <1>10 DEF Procs, InHand
<1>13. Holes(t)' = Holes(t)
  BY <1>3, <1>11, <1>12 DEF Holes, S
<1>14. Circle(hdr', Holes(t), holes_head)
  <2>1. \A a \in Holes(t) : a \in Addr \ (S \cup {e})
    BY <1>3, Facts DEF Holes, S
  <2>2. \A a \in Holes(t) : hdr'[a] = hdr[a]
    BY <1>8, <2>1
  <2> QED BY <2>2, Facts, SameCircle DEF ListInv
<1>15. ListInv(t)'
  BY <1>1, <1>4, <1>8, <1>9, <1>11, <1>12, <1>13, <1>14 DEF ListInv
<1>16. ThreadInv(t)'
  <2>1. Has(t)'
    BY <1>1, <1>3, <1>4, <1>7, <1>8, <1>10 DEF Has, Asking
  <2> QED BY <1>3, <1>4, <1>7, <1>10, <2>1 DEF ThreadInv
<1>17. holes_head' \in Pointer /\ processes_head' \in Pointer
  BY <1>1, <1>8, PointerIs DEF Good, TypeOK
<1> QED BY <1>1, <1>8, <1>10, <1>15, <1>16, <1>17, Relinked

-----------------------------------------------------------------------------
(* Types, with any number of threads and after any flaw: a step follows only *)
(* pointers into attached memory, and stores only what it read from there.   *)
Held ==
  \A u \in Thread :
    /\ th[u].pc \in {"take", "cut", "procs", "return"} => th[u].blk \in Addr
    /\ th[u].pc \in {"holes", "procs"} => th[u].elem \in Addr

Typed == TypeOK /\ Held

LEMMA Parts ==
  ASSUME TypeOK
  PROVE  /\ th \in [Thread -> ThreadType] /\ hdr \in Memory /\ attached \in SUBSET Base
         /\ processes_head \in Pointer /\ holes_head \in Pointer
         /\ live \in SUBSET [addr : {a + HDR : a \in Addr}, len : Nat]
         /\ flaws \in SUBSET {"unlocked", "moved", "large"}
         /\ fault \in {"none", "memory", "head", "null", "pointer"}
BY DEF TypeOK, ThreadType, Memory

LEMMA WriteIs ==
  ASSUME NEW h \in Memory, NEW x, NEW y \in Pointer
  PROVE  [h EXCEPT ![x].next = y] \in Memory /\ [h EXCEPT ![x].prev = y] \in Memory
BY DEF Memory

LEMMA HeaderIs ==
  ASSUME NEW h \in Memory, NEW x, NEW m \in [size : Nat, prev : Pointer, next : Pointer]
  PROVE  [h EXCEPT ![x] = m] \in Memory
BY DEF Memory

LEMMA ReadIs ==
  ASSUME NEW h \in Memory, NEW x \in Addr
  PROVE  h[x].next \in Pointer /\ h[x].prev \in Pointer /\ h[x].size \in Nat
BY DEF Memory

LEMMA MinusType ==
  ASSUME NEW a \in Nat, NEW b \in Nat
  PROVE  Minus(a, b) \in Nat
<1>1. UMax \div SIZE_INT \in Nat \ {0}
  BY MemListAssumption DEF SIZE_INT
<1> DEFINE m == UMax \div SIZE_INT
<1> HIDE DEF m
<1>2. m \in Nat \ {0} /\ a - b \in Int
  BY <1>1 DEF m
<1>3. (a - b) % m \in Nat
  BY <1>2
<1> QED BY <1>3 DEF Minus, m

LEMMA RemovedType ==
  ASSUME NEW h \in Memory, NEW head, NEW e \in Addr
  PROVE  Removed(h, head, e) \in Memory
<1> DEFINE h1 == [h EXCEPT ![h[e].prev].next = h[e].next]
           h2 == [h1 EXCEPT ![h1[e].next].prev = h1[e].prev]
           g  == IF Single(h, head, e) THEN h ELSE h2
           g1 == [g EXCEPT ![e].next = NULL]
<1>1. h1 \in Memory
  BY ReadIs, WriteIs
<1>2. h2 \in Memory
  <2> HIDE DEF h1
  <2> QED BY <1>1, ReadIs, WriteIs
<1>3. g \in Memory
  <2> HIDE DEF h1, h2
  <2> QED BY <1>2
<1>4. Removed(h, head, e) = [g EXCEPT ![e].next = NULL, ![e].prev = NULL]
  BY DEF Removed
<1> HIDE DEF g
<1>5. g1 \in Memory /\ NULL \in Pointer
  BY <1>3, WriteIs DEF Pointer
<1>6. Removed(h, head, e) = [g1 EXCEPT ![e].prev = NULL]
  BY <1>3, <1>4 DEF Memory
<1> HIDE DEF g1
<1>7. [g1 EXCEPT ![e].prev = NULL] \in Memory
  BY <1>5, WriteIs
<1> QED BY <1>6, <1>7

LEMMA InsertedType ==
  ASSUME NEW h \in Memory, NEW head, NEW e \in Addr, NEW r \in Addr, NEW before
  PROVE  Inserted(h, head, e, r, before) \in Memory
<1>1. Linked(h, e, r) \in Memory
  <2> DEFINE h0 == [h EXCEPT ![e].next = r]
             h1 == [h0 EXCEPT ![e].prev = h[r].prev]
             h2 == [h1 EXCEPT ![h1[r].prev].next = e]
  <2>1. e \in Pointer /\ r \in Pointer
    BY DEF Pointer
  <2>2. h0 \in Memory /\ h[r].prev \in Pointer
    BY <2>1, ReadIs, WriteIs
  <2>3. Linked(h, e, r) = [h2 EXCEPT ![r].prev = e]
    BY DEF Linked, Memory
  <2> HIDE DEF h0
  <2>4. h1 \in Memory
    BY <2>2, WriteIs
  <2> HIDE DEF h1
  <2>5. h2 \in Memory
    BY <2>1, <2>4, WriteIs
  <2> HIDE DEF h2
  <2>6. [h2 EXCEPT ![r].prev = e] \in Memory
    BY <2>1, <2>5, WriteIs
  <2> QED BY <2>3, <2>6
<1>2. ASSUME NEW k \in Memory PROVE Exchanged(k, e, r) \in Memory
  <2> DEFINE h1 == [k EXCEPT ![e].next = k[r].next]
             h2 == [h1 EXCEPT ![r].prev = h1[e].prev]
             h3 == [h2 EXCEPT ![h2[r].next].prev = e]
             h4 == [h3 EXCEPT ![r].next = e]
             h5 == [h4 EXCEPT ![h4[e].prev].next = r]
  <2>1. Exchanged(k, e, r) = [h5 EXCEPT ![e].prev = r]
    BY DEF Exchanged
  <2>2. e \in Pointer /\ r \in Pointer
    BY DEF Pointer
  <2>3. h1 \in Memory
    BY ReadIs, WriteIs
  <2> HIDE DEF h1
  <2>4. h2 \in Memory
    BY <2>3, ReadIs, WriteIs
  <2> HIDE DEF h2
  <2>5. h3 \in Memory
    BY <2>2, <2>4, WriteIs
  <2> HIDE DEF h3
  <2>6. h4 \in Memory
    BY <2>2, <2>5, WriteIs
  <2> HIDE DEF h4
  <2>7. h5 \in Memory
    BY <2>2, <2>6, WriteIs
  <2> HIDE DEF h5
  <2>8. [h5 EXCEPT ![e].prev = r] \in Memory
    BY <2>2, <2>7, WriteIs
  <2> QED BY <2>1, <2>8
<1> DEFINE x == Linked(h, e, r)
<1>3. Inserted(h, head, e, r, before) = x \/ Inserted(h, head, e, r, before) = Exchanged(x, e, r)
  BY DEF Inserted
<1> HIDE DEF x
<1>4. x \in Memory /\ Exchanged(x, e, r) \in Memory
  BY <1>1, <1>2 DEF x
<1> QED BY <1>3, <1>4

LEMMA SplitType ==
  ASSUME NEW h \in Memory, NEW e \in Addr, NEW n \in Nat, SplitAt(e, n) \in Addr
  PROVE  Split(h, e, n) \in Memory
<1> DEFINE new == SplitAt(e, n)
           m   == [size |-> Minus(h[e].size, n + HDR), prev |-> e, next |-> h[e].next]
           h1  == [h EXCEPT ![new] = m]
           h2  == [h1 EXCEPT ![h1[e].next].prev = new]
           c   == [h2[e] EXCEPT !.size = n, !.next = new]
<1>1. Split(h, e, n) = [h2 EXCEPT ![e].size = n, ![e].next = new]
  BY DEF Split
<1>2. h[e].next \in Pointer /\ h[e].size \in Nat /\ e \in Pointer /\ n + HDR \in Nat
  BY ReadIs DEF Pointer, HDR
<1>3. m \in [size : Nat, prev : Pointer, next : Pointer]
  BY <1>2, MinusType
<1>4. new \in Pointer /\ new \in Addr
  BY DEF Pointer
<1> HIDE DEF m, new
<1>5. h1 \in Memory
  BY <1>3, HeaderIs
<1> HIDE DEF h1
<1>6. h2 \in Memory
  BY <1>4, <1>5, WriteIs
<1> HIDE DEF h2
<1>7. c \in [size : Nat, prev : Pointer, next : Pointer]
  <2>1. h2[e] \in [size : Nat, prev : Pointer, next : Pointer]
    BY <1>6 DEF Memory
  <2> QED BY <1>4, <2>1
<1>8. Split(h, e, n) = [h2 EXCEPT ![e] = c]
  BY <1>1, <1>6 DEF Memory
<1> HIDE DEF c
<1>9. [h2 EXCEPT ![e] = c] \in Memory
  BY <1>6, <1>7, HeaderIs
<1> QED BY <1>8, <1>9

(* What a step may follow lies in a region.                                  *)
LEMMA Reach ==
  ASSUME NEW t \in Thread, TypeOK, Ok(Follows(t))
  PROVE  /\ th[t].pc \in {"search", "cut", "holes", "procs"} => th[t].run \in Addr
         /\ th[t].pc \in {"take", "free"} => th[t].elem \in Addr
         /\ /\ th[t].pc \in {"search", "cut"} /\ Splittable(hdr, th[t].run, th[t].size)
            /\ th[t].pc = "search" => Fits(th[t].run, th[t].size)
            => SplitAt(th[t].run, th[t].size) \in Addr
<1>1. Mapped \subseteq Addr
  BY Parts DEF Mapped, Addr
<1>2. Follows(t) \subseteq Mapped
  BY DEF Ok
<1>3. ASSUME th[t].pc \in {"search", "cut", "holes", "procs"} PROVE th[t].run \in Follows(t)
  BY <1>3 DEF Follows
<1>4. ASSUME th[t].pc \in {"take", "free"} PROVE th[t].elem \in Addr
  <2>1. CASE Ok({th[t].elem})
    BY <1>1, <2>1 DEF Ok
  <2>2. CASE ~ Ok({th[t].elem})
    <3>1. Follows(t) = {th[t].elem}
      BY <1>4, <2>2 DEF Follows
    <3> QED BY <2>2, <3>1 DEF Ok
  <2> QED BY <2>1, <2>2
<1>5. ASSUME th[t].pc \in {"search", "cut"}, Splittable(hdr, th[t].run, th[t].size),
             th[t].pc = "search" => Fits(th[t].run, th[t].size)
      PROVE  SplitAt(th[t].run, th[t].size) \in Addr
  <2>1. th[t].run \in Follows(t)
    BY <1>3, <1>5
  <2>2. Ok({th[t].run})
    BY <1>2, <2>1 DEF Ok
  <2>3. Follows(t) = {th[t].run, hdr[th[t].run].next, SplitAt(th[t].run, th[t].size)}
    BY <1>5, <2>2 DEF Follows
  <2> QED BY <1>1, <1>2, <2>3
<1> QED BY <1>1, <1>2, <1>3, <1>4, <1>5

LEMMA StepType ==
  ASSUME NEW t \in Thread, Typed, NEW r \in ThreadType, Step(t, r),
         r.pc \in {"take", "cut", "procs", "return"} => r.blk \in Addr,
         r.pc \in {"holes", "procs"} => r.elem \in Addr
  PROVE  th' \in [Thread -> ThreadType] /\ Held'
<1>1. th'[t] = r /\ th' \in [Thread -> ThreadType]
  BY StepIs DEF Typed
<1>2. \A u \in Thread \ {t} : th'[u] = th[u]
  BY Parts DEF Typed, Step
<1> QED BY <1>1, <1>2 DEF Held, Typed

LEMMA Together ==
  ASSUME th' \in [Thread -> ThreadType], Held', hdr' \in Memory, attached' \in SUBSET Base,
         processes_head' \in Pointer, holes_head' \in Pointer,
         live' \in SUBSET [addr : {a + HDR : a \in Addr}, len : Nat],
         flaws' \in SUBSET {"unlocked", "moved", "large"},
         fault' \in {"none", "memory", "head", "null", "pointer"}
  PROVE  Typed'
BY DEF Typed, TypeOK, ThreadType, Memory

LEMMA FlawsAre ==
  ASSUME NEW t, NEW e, NEW n
  PROVE  Overlap(t) \subseteq {"unlocked"} /\ Moved(e, n) \subseteq {"moved"}
BY DEF Overlap, Moved

LEMMA UseTyped ==
  ASSUME NEW t \in Thread, Typed, Use(t)
  PROVE  Typed'
<1>1. ASSUME NEW r \in ThreadType, Step(t, r), r.pc \in {"head", "free"},
             UNCHANGED <<hdr, processes_head, holes_head, attached, fault>>,
             flaws' \in SUBSET {"unlocked", "moved", "large"}, live' \subseteq live
      PROVE  Typed'
  <2>1. th' \in [Thread -> ThreadType] /\ Held'
    BY <1>1, StepType
  <2> QED BY <1>1, <2>1, Parts, Together DEF Typed
<1>2. TypeOK
  BY DEF Typed
<1>3. ASSUME NEW bytes \in Request, Malloc(t, bytes) PROVE Typed'
  <2> DEFINE r == [Idle EXCEPT !.pc = "head", !.asked = Asked(bytes), !.size = Words(bytes)]
  <2>1. Asked(bytes) \in Nat /\ Words(bytes) \in Nat
    <3>1. bytes \in Nat /\ UMax \div SIZE_INT \in Nat \ {0}
      BY MemListAssumption DEF SIZE_INT
    <3>2. Asked(bytes) \in Nat
      BY <3>1 DEF Asked, SIZE_INT
    <3> DEFINE m == UMax \div SIZE_INT
               a == Asked(bytes)
    <3>3. m \in Nat \ {0} /\ a \in Nat
      BY <3>1, <3>2
    <3> HIDE DEF m, a
    <3>4. a % m \in Nat
      BY <3>3
    <3> QED BY <3>2, <3>4 DEF Words, m, a
  <2>2. r \in ThreadType /\ r.pc = "head"
    BY <2>1 DEF ThreadType, Idle, Pointer
  <2>3. /\ Step(t, r) /\ UNCHANGED <<hdr, processes_head, holes_head, attached, live, fault>>
        /\ flaws' = flaws \cup Overlap(t) \cup (IF Asked(bytes) > EXT THEN {"large"} ELSE {})
    BY <1>3 DEF Malloc
  <2> HIDE DEF r
  <2>4. flaws' \in SUBSET {"unlocked", "moved", "large"}
    BY <1>2, <2>3, Parts, FlawsAre
  <2> QED BY <1>1, <2>2, <2>3, <2>4
<1>4. ASSUME NEW b \in live, Free(t, b) PROVE Typed'
  <2> DEFINE r == [Idle EXCEPT !.pc = "free", !.elem = b.addr - HDR]
  <2>1. r \in ThreadType /\ r.pc = "free"
    BY <1>2, Parts, LiveAddr DEF ThreadType, Idle, Pointer
  <2>2. /\ Step(t, r) /\ UNCHANGED <<hdr, processes_head, holes_head, attached, fault>>
        /\ flaws' = flaws \cup Overlap(t) /\ live' = live \ {b}
    BY <1>4 DEF Free
  <2> HIDE DEF r
  <2>3. flaws' \in SUBSET {"unlocked", "moved", "large"}
    BY <1>2, <2>2, Parts, FlawsAre
  <2> QED BY <1>1, <2>1, <2>2, <2>3
<1>5. ASSUME FreeNull(t) PROVE Typed'
  <2> DEFINE r == [Idle EXCEPT !.pc = "free"]
  <2>1. r \in ThreadType /\ r.pc = "free"
    BY DEF ThreadType, Idle, Pointer
  <2>2. /\ Step(t, r) /\ UNCHANGED <<hdr, processes_head, holes_head, attached, live, fault>>
        /\ flaws' = flaws \cup Overlap(t)
    BY <1>5 DEF FreeNull
  <2> HIDE DEF r
  <2>3. flaws' \in SUBSET {"unlocked", "moved", "large"}
    BY <1>2, <2>2, Parts, FlawsAre
  <2> QED BY <1>1, <2>1, <2>2, <2>3
<1> QED BY <1>3, <1>4, <1>5 DEF Use

(* The steps inside a call.                                                  *)
LEMMA WalkTyped ==
  ASSUME NEW t \in Thread, Typed, HaveHole(t) \/ SearchNext(t) \/ HolesNext(t) \/ ProcsNext(t)
  PROVE  Typed'
<1>1. TypeOK /\ th[t] \in ThreadType
  BY Parts DEF Typed
<1>2. /\ Ok(Follows(t)) /\ UNCHANGED <<hdr, processes_head, holes_head, attached, live, flaws, fault>>
      /\ th[t].pc \in {"head", "search", "holes", "procs"}
  BY DEF HaveHole, SearchNext, HolesNext, ProcsNext, At, Alive
<1>3. PICK p \in Pointer : \E l \in {th[t].pc, "search", "extend"} :
        /\ l \in {"search", "extend"} \/ th[t].pc \in {"holes", "procs"}
        /\ Step(t, [th[t] EXCEPT !.run = p, !.pc = l])
  <2>1. CASE HaveHole(t)
    <3>1. Step(t, [th[t] EXCEPT !.run = holes_head, !.pc = "search"])
      BY <1>1, <2>1 DEF HaveHole, ThreadType
    <3> QED BY <1>1, <3>1, Parts
  <2>2. CASE SearchNext(t)
    <3>1. th[t].pc = "search" /\ hdr[th[t].run].next \in Pointer
      BY <1>1, <1>2, <2>2, Parts, Reach, ReadIs DEF SearchNext, At
    <3>2. Step(t, [th[t] EXCEPT !.run = hdr[th[t].run].next,
                               !.pc = IF hdr[th[t].run].next = holes_head THEN "extend" ELSE "search"])
      BY <1>1, <2>2, <3>1 DEF SearchNext, ThreadType
    <3> QED BY <3>1, <3>2
  <2>3. CASE HolesNext(t)
    <3>1. th[t].pc = "holes" /\ hdr[th[t].run].next \in Pointer
      BY <1>1, <1>2, <2>3, Parts, Reach, ReadIs DEF HolesNext, At
    <3>2. Step(t, [th[t] EXCEPT !.run = hdr[th[t].run].next, !.pc = th[t].pc])
      BY <1>1, <2>3, <3>1 DEF HolesNext, ThreadType
    <3> QED BY <3>1, <3>2
  <2>4. CASE ProcsNext(t)
    <3>1. th[t].pc = "procs" /\ hdr[th[t].run].next \in Pointer
      BY <1>1, <1>2, <2>4, Parts, Reach, ReadIs DEF ProcsNext, At
    <3>2. Step(t, [th[t] EXCEPT !.run = hdr[th[t].run].next, !.pc = th[t].pc])
      BY <1>1, <2>4, <3>1 DEF ProcsNext, ThreadType
    <3> QED BY <3>1, <3>2
  <2> QED BY <2>1, <2>2, <2>3, <2>4
<1>4. PICK l \in {th[t].pc, "search", "extend"} :
        /\ l \in {"search", "extend"} \/ th[t].pc \in {"holes", "procs"}
        /\ Step(t, [th[t] EXCEPT !.run = p, !.pc = l])
  BY <1>3
<1> DEFINE r == [th[t] EXCEPT !.run = p, !.pc = l]
<1>5. r \in ThreadType /\ r.pc = l /\ r.blk = th[t].blk /\ r.elem = th[t].elem
  BY <1>1, <1>2, <1>4 DEF ThreadType
<1> HIDE DEF r
<1>6. Step(t, r)
  BY <1>4 DEF r
<1>7. /\ r.pc \in {"take", "cut", "procs", "return"} => r.blk \in Addr
      /\ r.pc \in {"holes", "procs"} => r.elem \in Addr
  BY <1>2, <1>4, <1>5 DEF Typed, Held
<1>8. th' \in [Thread -> ThreadType] /\ Held'
  BY <1>5, <1>6, <1>7, StepType
<1> QED BY <1>1, <1>2, <1>8, Parts, Together

LEMMA ExtendTyped ==
  ASSUME NEW t \in Thread, Typed, FirstHole(t) \/ Extend(t)
  PROVE  Typed'
<1>1. TypeOK /\ th[t] \in ThreadType
  BY Parts DEF Typed
<1>2. PICK b \in Base \ attached :
        /\ attached' = attached \cup {b} /\ hdr' = Extended(b)
        /\ \/ /\ holes_head' = Align(b)
              /\ Step(t, [th[t] EXCEPT !.pc = "search", !.run = Align(b)])
           \/ /\ holes_head' = holes_head
              /\ Step(t, [th[t] EXCEPT !.pc = "cut", !.run = Align(b), !.blk = Align(b)])
  BY DEF FirstHole, Extend
<1>3. UNCHANGED <<processes_head, live, flaws, fault>>
  BY DEF FirstHole, Extend, Alive
<1> DEFINE e  == Align(b)
           rs == [th[t] EXCEPT !.pc = "search", !.run = e]
           rc == [th[t] EXCEPT !.pc = "cut", !.run = e, !.blk = e]
<1>4. e \in Addr /\ e \in Pointer /\ EXT \in Nat
  BY BaseIs, MemListAssumption DEF Pointer
<1>5. hdr' \in Memory
  <2> DEFINE m == [size |-> EXT, prev |-> e, next |-> e]
  <2>1. m \in [size : Nat, prev : Pointer, next : Pointer] /\ hdr' = [hdr EXCEPT ![e] = m]
    BY <1>2, <1>4 DEF Extended
  <2> HIDE DEF m, e
  <2>2. [hdr EXCEPT ![e] = m] \in Memory
    BY <1>1, <2>1, Parts, HeaderIs
  <2> QED BY <2>1, <2>2
<1> HIDE DEF e
<1>6. /\ rs \in ThreadType /\ rs.pc = "search"
      /\ rc \in ThreadType /\ rc.pc = "cut" /\ rc.blk = e
  BY <1>1, <1>4 DEF ThreadType
<1> HIDE DEF rs, rc
<1>7. Step(t, rs) \/ Step(t, rc)
  BY <1>2 DEF rs, rc, e
<1>8. th' \in [Thread -> ThreadType] /\ Held'
  BY <1>4, <1>6, <1>7, StepType
<1>9. holes_head' \in Pointer
  BY <1>1, <1>2, <1>4, Parts DEF e
<1> QED BY <1>1, <1>2, <1>3, <1>5, <1>8, <1>9, Parts, Together

LEMMA SearchFitsTyped ==
  ASSUME NEW t \in Thread, Typed, SearchFits(t)
  PROVE  Typed'
<1> DEFINE e == th[t].run
           n == th[t].size
           r == [th[t] EXCEPT !.pc = "take", !.elem = e, !.blk = e]
<1>1. TypeOK /\ th[t] \in ThreadType
  BY Parts DEF Typed
<1>2. /\ Ok(Follows(t)) /\ th[t].pc = "search" /\ Fits(e, n) /\ Step(t, r)
      /\ hdr' = IF Splittable(hdr, e, n) THEN Split(hdr, e, n) ELSE hdr
      /\ flaws' = flaws \cup Moved(e, n)
      /\ UNCHANGED <<processes_head, holes_head, attached, live, fault>>
  BY DEF SearchFits, At
<1>3. e \in Addr /\ e \in Pointer /\ n \in Nat
  BY <1>1, <1>2, Reach DEF Pointer, ThreadType
<1>4. hdr' \in Memory
  <2>1. Splittable(hdr, e, n) => SplitAt(e, n) \in Addr
    BY <1>1, <1>2, Reach
  <2> HIDE DEF e, n
  <2> QED BY <1>1, <1>2, <1>3, <2>1, Parts, SplitType
<1>5. r \in ThreadType /\ r.pc = "take" /\ r.blk = e
  BY <1>1, <1>3 DEF ThreadType
<1> HIDE DEF r, e, n
<1>6. th' \in [Thread -> ThreadType] /\ Held'
  BY <1>2, <1>3, <1>5, StepType
<1>7. flaws' \in SUBSET {"unlocked", "moved", "large"}
  BY <1>1, <1>2, Parts, FlawsAre
<1> QED BY <1>1, <1>2, <1>4, <1>6, <1>7, Parts, Together

LEMMA CutTyped ==
  ASSUME NEW t \in Thread, Typed, Cut(t)
  PROVE  Typed'
<1> DEFINE e   == th[t].run
           n   == th[t].size
           new == SplitAt(e, n)
           rs  == [th[t] EXCEPT !.pc = "holes", !.run = holes_head, !.elem = new]
           rw  == [th[t] EXCEPT !.pc = "procs", !.run = processes_head, !.elem = e]
<1>1. TypeOK /\ th[t] \in ThreadType
  BY Parts DEF Typed
<1>2. /\ Ok(Follows(t)) /\ th[t].pc = "cut" /\ flaws' = flaws \cup Moved(e, n)
      /\ UNCHANGED <<processes_head, holes_head, attached, live, fault>>
      /\ \/ Splittable(hdr, e, n) /\ hdr' = Split(hdr, e, n) /\ Step(t, rs)
         \/ hdr' = hdr /\ Step(t, rw)
  BY DEF Cut, At
<1>3. /\ e \in Addr /\ n \in Nat /\ th[t].blk \in Addr
      /\ Splittable(hdr, e, n) => new \in Addr
  BY <1>1, <1>2, Reach DEF ThreadType, Typed, Held
<1>4. holes_head \in Pointer /\ processes_head \in Pointer /\ e \in Pointer
  BY <1>1, <1>3, Parts DEF Pointer
<1>5. hdr' \in Memory
  <2> HIDE DEF e, n, rs, rw
  <2> QED BY <1>1, <1>2, <1>3, Parts, SplitType
<1> HIDE DEF e, n, new
<1>6. rw \in ThreadType /\ rw.pc = "procs" /\ rw.blk = th[t].blk /\ rw.elem = e
  BY <1>1, <1>4 DEF ThreadType
<1>7. new \in Addr => rs \in ThreadType /\ rs.pc = "holes" /\ rs.elem = new
  BY <1>1, <1>4 DEF ThreadType, Pointer
<1> HIDE DEF rs, rw
<1>8. th' \in [Thread -> ThreadType] /\ Held'
  BY <1>2, <1>3, <1>6, <1>7, StepType
<1>9. flaws' \in SUBSET {"unlocked", "moved", "large"}
  BY <1>1, <1>2, Parts, FlawsAre
<1> QED BY <1>1, <1>2, <1>5, <1>8, <1>9, Parts, Together

LEMMA LinkTyped ==
  ASSUME NEW t \in Thread, Typed, TakeHole(t) \/ FreeBlock(t)
  PROVE  Typed'
<1> DEFINE e == th[t].elem
           A(h) == [h EXCEPT ![e].next = e, ![e].prev = e]
<1>1. TypeOK /\ th[t] \in ThreadType /\ e \in Pointer
  BY Parts DEF Typed, ThreadType
<1>2. /\ Ok(Follows(t)) /\ th[t].pc \in {"take", "free"}
      /\ UNCHANGED <<attached, live, flaws, fault>>
  BY DEF TakeHole, FreeBlock, At, Alive
<1>3. e \in Addr
  BY <1>1, <1>2, Reach
<1>4. processes_head \in Pointer /\ holes_head \in Pointer /\ hdr \in Memory
  BY <1>1, Parts
<1>5. ASSUME NEW h \in Memory PROVE A(h) \in Memory
  <2> DEFINE g == [h EXCEPT ![e].next = e]
  <2>1. A(h) = [g EXCEPT ![e].prev = e]
    BY DEF Memory
  <2>2. g \in Memory
    BY <1>1, WriteIs
  <2> HIDE DEF g, e
  <2>3. [g EXCEPT ![e].prev = e] \in Memory
    BY <1>1, <2>2, WriteIs
  <2> QED BY <2>1, <2>3
<1>6. ASSUME NEW head \in Pointer PROVE RemovedHead(hdr, head, e) \in Pointer
  <2>1. hdr[e].next \in Pointer /\ NULL \in Pointer
    BY <1>3, <1>4, ReadIs DEF Pointer
  <2> QED BY <1>6, <2>1 DEF RemovedHead
<1>7. ASSUME NEW head PROVE Removed(hdr, head, e) \in Memory /\ A(Removed(hdr, head, e)) \in Memory
  <2>1. Removed(hdr, head, e) \in Memory
    BY <1>3, <1>4, RemovedType
  <2> QED BY <1>5, <2>1
<1>8. CASE TakeHole(t)
  <2> DEFINE r(l) == [th[t] EXCEPT !.pc = l, !.run = processes_head]
  <2>1. /\ th[t].pc = "take"
        /\ Step(t, r("return")) \/ Step(t, r("procs"))
        /\ holes_head' = RemovedHead(hdr, holes_head, e) /\ processes_head' \in {processes_head, e}
        /\ hdr' \in {Removed(hdr, holes_head, e), A(Removed(hdr, holes_head, e))}
    BY <1>8 DEF TakeHole, At
  <2>2. th[t].blk \in Addr
    BY <2>1 DEF Typed, Held
  <2>3. ASSUME NEW l \in {"return", "procs"}
        PROVE  r(l) \in ThreadType /\ r(l).pc = l /\ r(l).blk = th[t].blk /\ r(l).elem = e
    BY <1>1, <1>4, <2>3 DEF ThreadType
  <2> HIDE DEF r, A
  <2>4. th' \in [Thread -> ThreadType] /\ Held'
    BY <1>3, <2>1, <2>2, <2>3, StepType
  <2>5. hdr' \in Memory /\ processes_head' \in Pointer /\ holes_head' \in Pointer
    BY <1>1, <1>4, <1>6, <1>7, <2>1
  <2> QED BY <1>1, <1>2, <2>4, <2>5, Parts, Together
<1>9. CASE FreeBlock(t)
  <2> DEFINE r == [th[t] EXCEPT !.pc = "holes", !.run = holes_head]
  <2>1. /\ Step(t, Idle) \/ Step(t, r)
        /\ processes_head' = RemovedHead(hdr, processes_head, e) /\ holes_head' \in {holes_head, e}
        /\ hdr' \in {Removed(hdr, processes_head, e), A(Removed(hdr, processes_head, e))}
    BY <1>9 DEF FreeBlock
  <2>2. r \in ThreadType /\ r.pc = "holes" /\ r.elem = e
    BY <1>1, <1>4 DEF ThreadType
  <2>3. Idle \in ThreadType /\ Idle.pc = "idle"
    BY DEF ThreadType, Idle, Pointer
  <2> HIDE DEF r, A
  <2>4. th' \in [Thread -> ThreadType] /\ Held'
    BY <1>3, <2>1, <2>2, <2>3, StepType
  <2>5. hdr' \in Memory /\ processes_head' \in Pointer /\ holes_head' \in Pointer
    BY <1>1, <1>4, <1>6, <1>7, <2>1
  <2> QED BY <1>1, <1>2, <2>4, <2>5, Parts, Together
<1> QED BY <1>8, <1>9

LEMMA InsertTyped ==
  ASSUME NEW t \in Thread, Typed, HolesInsert(t) \/ ProcsInsert(t)
  PROVE  Typed'
<1> DEFINE r == th[t].run
           e == th[t].elem
<1>1. TypeOK /\ th[t] \in ThreadType /\ e \in Pointer
  BY Parts DEF Typed, ThreadType
<1>2. /\ Ok(Follows(t)) /\ th[t].pc \in {"holes", "procs"}
      /\ UNCHANGED <<attached, live, flaws, fault>>
  BY DEF HolesInsert, ProcsInsert, At, Alive
<1>3. r \in Addr /\ e \in Addr
  BY <1>1, <1>2, Reach DEF Typed, Held
<1>4. processes_head \in Pointer /\ holes_head \in Pointer /\ hdr \in Memory
  BY <1>1, Parts
<1>5. CASE HolesInsert(t)
  <2> DEFINE rp == [th[t] EXCEPT !.pc = "procs", !.run = processes_head, !.elem = th[t].blk]
             b  == HolesBefore(t)
  <2>1. /\ \/ Step(t, Idle)
           \/ th[t].blk # NULL /\ Step(t, rp)
        /\ hdr' = Inserted(hdr, holes_head, e, r, b)
        /\ holes_head' \in {holes_head, e} /\ processes_head' = processes_head
    BY <1>5 DEF HolesInsert, InsertedHead
  <2>2. Idle \in ThreadType /\ Idle.pc = "idle"
    BY DEF ThreadType, Idle, Pointer
  <2>3. rp \in ThreadType /\ rp.pc = "procs" /\ rp.elem = th[t].blk /\ rp.blk = th[t].blk
    BY <1>1, <1>4 DEF ThreadType
  <2>4. th[t].blk # NULL => th[t].blk \in Addr
    BY <1>1 DEF ThreadType, Pointer
  <2> HIDE DEF rp, b, e, r
  <2>5. th' \in [Thread -> ThreadType] /\ Held'
    BY <2>1, <2>2, <2>3, <2>4, StepType
  <2>6. hdr' \in Memory
    BY <1>3, <1>4, <2>1, InsertedType
  <2> QED BY <1>1, <1>2, <1>4, <2>1, <2>5, <2>6, Parts, Together
<1>6. CASE ProcsInsert(t)
  <2> DEFINE rr == [th[t] EXCEPT !.pc = "return"]
             b  == r < e
  <2>1. /\ th[t].pc = "procs" /\ Step(t, rr)
        /\ hdr' = Inserted(hdr, processes_head, e, r, b)
        /\ processes_head' \in {processes_head, e} /\ holes_head' = holes_head
    BY <1>6 DEF ProcsInsert, InsertedHead, At
  <2>2. rr \in ThreadType /\ rr.pc = "return" /\ rr.blk = th[t].blk
    BY <1>1 DEF ThreadType
  <2>3. th[t].blk \in Addr
    BY <2>1 DEF Typed, Held
  <2> HIDE DEF rr, b, e, r
  <2>4. th' \in [Thread -> ThreadType] /\ Held'
    BY <2>1, <2>2, <2>3, StepType
  <2>5. hdr' \in Memory
    BY <1>3, <1>4, <2>1, InsertedType
  <2> QED BY <1>1, <1>2, <1>4, <2>1, <2>4, <2>5, Parts, Together
<1> QED BY <1>5, <1>6

LEMMA ReturnTyped ==
  ASSUME NEW t \in Thread, Typed, Return(t)
  PROVE  Typed'
<1> DEFINE b == [addr |-> th[t].blk + HDR, len |-> th[t].asked]
<1>1. TypeOK /\ th[t] \in ThreadType
  BY Parts DEF Typed
<1>2. /\ th[t].pc = "return" /\ live' = live \cup {b} /\ Step(t, Idle)
      /\ UNCHANGED <<hdr, processes_head, holes_head, attached, flaws, fault>>
  BY DEF Return, At, Alive
<1>3. Idle \in ThreadType /\ Idle.pc = "idle"
  BY DEF ThreadType, Idle, Pointer
<1>4. th' \in [Thread -> ThreadType] /\ Held'
  BY <1>2, <1>3, StepType
<1>5. b \in [addr : {a + HDR : a \in Addr}, len : Nat]
  BY <1>1, <1>2 DEF Typed, Held, ThreadType
<1> HIDE DEF b
<1> QED BY <1>1, <1>2, <1>4, <1>5, Parts, Together

LEMMA DieTyped ==
  ASSUME Typed, NEW why \in {"memory", "head", "null", "pointer"}, Die(why)
  PROVE  Typed'
BY DEF Typed, TypeOK, Held, Die

LEMMA NextTyped ==
  ASSUME Typed, [Next]_vars
  PROVE  Typed'
<1>1. ASSUME NEW t \in Thread, Run(t) PROVE Typed'
  <2>1. CASE OutOfMemory(t)
    BY <2>1, DieTyped DEF OutOfMemory
  <2>2. CASE WildPointer(t)
    <3>1. PICK why \in {"head", "null", "pointer"} : Die(why)
      BY <2>2 DEF WildPointer
    <3> QED BY <3>1, DieTyped
  <2> QED BY <1>1, <2>1, <2>2, WalkTyped, ExtendTyped, SearchFitsTyped, CutTyped, LinkTyped,
             InsertTyped, ReturnTyped DEF Run
<1>2. CASE UNCHANGED vars
  BY <1>2 DEF vars, Typed, TypeOK, Held
<1> QED BY <1>1, <1>2, UseTyped DEF Next

LEMMA InitTyped == ASSUME Init PROVE Typed
<1>1. Idle \in ThreadType /\ Idle.pc = "idle"
  BY DEF ThreadType, Idle, Pointer
<1>2. [size |-> 0, prev |-> NULL, next |-> NULL] \in [size : Nat, prev : Pointer, next : Pointer]
  BY DEF Pointer
<1>3. TypeOK
  BY <1>1, <1>2 DEF Init, TypeOK, ThreadType, Pointer
<1>4. Held
  BY <1>1 DEF Init, Held
<1> QED BY <1>3, <1>4 DEF Typed

(* Every variable keeps its type, whatever sizes are asked for, however many *)
(* threads are in malloc() and free() at once, and after a split that moved  *)
(* a header: a pointer in a header or in a thread is NULL or lies in a       *)
(* region, for the task dies at the first one that leads out of them.        *)
THEOREM TypeCorrect == Spec => []TypeOK
<1>1. Typed => TypeOK
  BY DEF Typed
<1> QED BY <1>1, InitTyped, NextTyped, PTL DEF Spec

-----------------------------------------------------------------------------
(* The invariant.  Until the first flaw one thread at a time is in a call,   *)
(* and the lists and that thread are as they should be; afterwards only the  *)
(* types remain.                                                             *)
Alone(t) == \A u \in Thread \ {t} : th[u].pc = "idle"
IInv     == Typed /\ (flaws = {} => \E t \in Thread : Alone(t) /\ Fine(t))

LEMMA InitIInv == ASSUME Init PROVE IInv
<1>1. \A a \in Addr : hdr[a] = [size |-> 0, prev |-> NULL, next |-> NULL]
  BY DEF Init
<1>2. Blocks(hdr) = {}
  BY <1>1 DEF Blocks
<1>3. PICK t \in Thread : TRUE
  BY MemListAssumption
<1>4. Idle.pc = "idle" /\ live = {} /\ attached = {} /\ \A u \in Thread : th[u] = Idle
  BY DEF Init, Idle
<1>5. Laid(hdr, attached) /\ LiveInv
  BY <1>2, <1>4 DEF Laid, LiveInv
<1>6. Procs(t) = {} /\ InHand(t) = {} /\ Holes(t) = {}
  BY <1>2, <1>4 DEF Procs, InHand, Holes, Used
<1>7. ListInv(t)
  <2>1. processes_head = NULL /\ holes_head = NULL
    BY DEF Init
  <2> QED BY <1>2, <1>6, <2>1 DEF ListInv, Circle, Ordered
<1>8. ThreadInv(t)
  BY <1>4 DEF ThreadInv
<1>9. Alone(t)
  BY <1>4 DEF Alone
<1> QED BY <1>5, <1>7, <1>8, <1>9, InitTyped DEF IInv, Fine

(* Between two calls it makes no difference whose turn it is.                *)
LEMMA Handover ==
  ASSUME NEW t \in Thread, NEW u \in Thread, Fine(t), th[t].pc = "idle", th[u].pc = "idle"
  PROVE  Fine(u)
<1>1. Procs(u) = Procs(t) /\ InHand(u) = InHand(t)
  BY DEF Procs, InHand
<1>2. Holes(u) = Holes(t)
  BY <1>1 DEF Holes
<1>3. ListInv(u)
  BY <1>1, <1>2 DEF Fine, ListInv
<1>4. ThreadInv(u)
  BY DEF ThreadInv
<1> QED BY <1>3, <1>4 DEF Fine

(* A flaw is not undone, and a thread that begins a call while another is in *)
(* one adds one.                                                             *)
LEMMA FlawsStay ==
  ASSUME [Next]_vars
  PROVE  flaws' = {} => flaws = {}
<1>1. ASSUME NEW t \in Thread, Run(t) PROVE flaws \subseteq flaws'
  BY <1>1 DEF Run, FirstHole, HaveHole, SearchFits, SearchNext, TakeHole, Extend, Cut,
     HolesNext, HolesInsert, ProcsNext, ProcsInsert, Return, FreeBlock, OutOfMemory,
     WildPointer, Die, Alive
<1>2. ASSUME NEW t \in Thread, Use(t) PROVE flaws \subseteq flaws'
  BY <1>2 DEF Use, Malloc, Free, FreeNull
<1>3. CASE UNCHANGED vars
  BY <1>3 DEF vars
<1> QED BY <1>1, <1>2, <1>3 DEF Next

LEMMA BusyRuns ==
  ASSUME NEW u \in Thread, TypeOK, Run(u)
  PROVE  th[u].pc # "idle"
<1>1. CASE WildPointer(u)
  <2>1. th[u].pc = "idle" => Follows(u) = {}
    BY DEF Follows
  <2> QED BY <1>1, <2>1 DEF WildPointer, Ok
<1>2. CASE ~ WildPointer(u)
  BY <1>2 DEF Run, FirstHole, HaveHole, SearchFits, SearchNext, TakeHole, Extend, Cut,
     HolesNext, HolesInsert, ProcsNext, ProcsInsert, Return, FreeBlock, OutOfMemory, At
<1> QED BY <1>1, <1>2

LEMMA Turn ==
  ASSUME NEW u \in Thread, IInv, Run(u) \/ Use(u), flaws = {}, flaws' = {}
  PROVE  Alone(u) /\ Good(u)
<1>1. PICK t \in Thread : Alone(t) /\ Fine(t)
  BY DEF IInv
<1>2. TypeOK
  BY DEF IInv, Typed
<1>3. CASE u = t
  BY <1>1, <1>2, <1>3 DEF Good
<1>4. CASE u # t
  <2>1. th[u].pc = "idle" /\ Use(u)
    BY <1>1, <1>2, <1>4, BusyRuns DEF Alone
  <2>2. Overlap(u) = {}
    BY <2>1 DEF Use, Malloc, Free, FreeNull
  <2>3. th[t].pc = "idle"
    BY <1>4, <2>2 DEF Overlap
  <2> QED BY <1>1, <1>2, <2>1, <2>3, Handover DEF Alone, Good
<1> QED BY <1>3, <1>4

(* Only the thread of a step moves.                                          *)
LEMMA Mine ==
  ASSUME NEW u \in Thread, TypeOK, Run(u) \/ Use(u)
  PROVE  \A v \in Thread \ {u} : th'[v] = th[v]
<1>1. ASSUME NEW r, Step(u, r) PROVE \A v \in Thread \ {u} : th'[v] = th[v]
  <2>1. th \in [Thread -> ThreadType]
    BY Parts
  <2> QED BY <1>1, <2>1 DEF Step
<1>2. CASE \E r : Step(u, r)
  BY <1>1, <1>2
<1>3. CASE UNCHANGED th
  BY <1>3
<1>4. CASE OutOfMemory(u) \/ WildPointer(u)
  BY <1>3, <1>4 DEF OutOfMemory, WildPointer, Die
<1>5. CASE ~ OutOfMemory(u) /\ ~ WildPointer(u)
  <2>1. \E r : Step(u, r)
    BY <1>5 DEF Run, FirstHole, HaveHole, SearchFits, SearchNext, TakeHole, Extend, Cut,
       HolesNext, HolesInsert, ProcsNext, ProcsInsert, Return, FreeBlock,
       Use, Malloc, Free, FreeNull
  <2> QED BY <1>2, <2>1
<1> QED BY <1>4, <1>5

LEMMA NextFine ==
  ASSUME NEW t \in Thread, Good(t), Run(t) \/ Use(t), flaws' = {}
  PROVE  Fine(t)'
<1>1. CASE FirstHole(t)
  BY <1>1, FirstHoleStep
<1>2. CASE HaveHole(t)
  BY <1>2, HaveHoleStep
<1>3. CASE SearchFits(t)
  BY <1>3, SearchFitsStep
<1>4. CASE SearchNext(t)
  BY <1>4, SearchNextStep
<1>5. CASE TakeHole(t)
  BY <1>5, TakeHoleStep
<1>6. CASE Extend(t)
  BY <1>6, ExtendStep
<1>7. CASE Cut(t)
  BY <1>7, CutStep
<1>8. CASE HolesNext(t)
  BY <1>8, HolesNextStep
<1>9. CASE HolesInsert(t)
  BY <1>9, HolesInsertStep
<1>10. CASE ProcsNext(t)
  BY <1>10, ProcsNextStep
<1>11. CASE ProcsInsert(t)
  BY <1>11, ProcsInsertStep
<1>12. CASE Return(t)
  BY <1>12, ReturnStep
<1>13. CASE FreeBlock(t)
  BY <1>13, FreeBlockStep
<1>14. CASE OutOfMemory(t)
  BY <1>14, DieStep DEF OutOfMemory
<1>15. CASE WildPointer(t)
  <2>1. PICK why \in {"head", "null", "pointer"} : Die(why)
    BY <1>15 DEF WildPointer
  <2> QED BY <2>1, DieStep
<1>16. CASE \E bytes \in Request : Malloc(t, bytes)
  BY <1>16, MallocStep
<1>17. CASE \E b \in live : Free(t, b)
  BY <1>17, FreeStep
<1>18. CASE FreeNull(t)
  BY <1>18, FreeNullStep
<1> QED
  BY <1>1, <1>2, <1>3, <1>4, <1>5, <1>6, <1>7, <1>8, <1>9, <1>10, <1>11, <1>12, <1>13,
     <1>14, <1>15, <1>16, <1>17, <1>18 DEF Run, Use

LEMMA NextIInv ==
  ASSUME IInv, [Next]_vars
  PROVE  IInv'
<1>1. Typed'
  BY NextTyped DEF IInv
<1>2. TypeOK
  BY DEF IInv, Typed
<1> SUFFICES ASSUME flaws' = {} PROVE (\E t \in Thread : Alone(t) /\ Fine(t))'
  BY <1>1 DEF IInv
<1>3. flaws = {}
  BY FlawsStay
<1>4. CASE UNCHANGED vars
  <2>1. PICK t \in Thread : Alone(t) /\ Fine(t)
    BY <1>3 DEF IInv
  <2>2. UNCHANGED <<hdr, processes_head, holes_head, attached, th, live>>
    BY <1>4 DEF vars
  <2>3. Procs(t)' = Procs(t) /\ InHand(t)' = InHand(t)
    BY <2>2 DEF Procs, InHand, Used
  <2>4. Good(t)
    BY <1>2, <2>1 DEF Good
  <2>5. Holes(t)' = Holes(t)
    BY <2>2, <2>3 DEF Holes, Blocks
  <2>6. ThreadInv(t)'
    BY <2>2, <2>3, <2>4, <2>5, Facts DEF ThreadInv, Asking, Has, Used
  <2>7. Fine(t)'
    BY <2>2, <2>3, <2>4, <2>6, Facts, Stands
  <2>8. Alone(t)'
    BY <2>1, <2>2 DEF Alone
  <2> QED BY <2>7, <2>8
<1>5. ASSUME NEW t \in Thread, Run(t) \/ Use(t)
      PROVE  (\E u \in Thread : Alone(u) /\ Fine(u))'
  <2>1. Alone(t) /\ Good(t)
    BY <1>3, <1>5, Turn
  <2>2. Fine(t)'
    BY <1>5, <2>1, NextFine
  <2>3. Alone(t)'
    BY <1>2, <1>5, <2>1, Mine DEF Alone
  <2> QED BY <2>2, <2>3
<1> QED BY <1>4, <1>5 DEF Next

LEMMA SpecIInv == Spec => []IInv
BY InitIInv, NextIInv, PTL DEF Spec

-----------------------------------------------------------------------------
(* The pointers a call follows.  A split leads no further than its block,    *)
(* wherever it puts the new header.                                          *)
LEMMA SplitInside ==
  ASSUME NEW a \in Blocks(hdr), hdr \in Memory, Laid(hdr, attached), NEW n \in Nat,
         n <= hdr[a].size, Splittable(hdr, a, n)
  PROVE  SplitAt(a, n) \in Space(hdr, a)
<1> DEFINE x == a + HDR + n
           m == a + HDR + hdr[a].size - 1
<1>1. a \in Nat /\ hdr[a].size \in 1..EXT /\ EXT \in Nat
  BY BlockIs, MemListAssumption
<1>2. n + HDR < hdr[a].size
  <2>1. Minus(hdr[a].size, n) = hdr[a].size - n
    BY <1>1, MinusIs
  <2> QED BY <1>1, <2>1 DEF Splittable, HDR
<1>3. x \in Nat /\ m \in Nat /\ a <= x /\ x + 1 <= m
  BY <1>1, <1>2 DEF HDR
<1>4. SplitAt(a, n) \in {x, x + 1}
  BY <1>1 DEF SplitAt, Align, HDR
<1> HIDE DEF x, m
<1>5. SplitAt(a, n) \in a..m
  BY <1>1, <1>3, <1>4
<1> QED BY <1>5 DEF Space, m

LEMMA Inside ==
  ASSUME NEW t \in Thread, Good(t)
  PROVE  /\ \A a \in Blocks(hdr) : a \in Mapped /\ Space(hdr, a) \subseteq Mapped
         /\ Procs(t) \subseteq Mapped /\ Holes(t) \subseteq Mapped /\ InHand(t) \subseteq Mapped
<1>1. \A a \in Blocks(hdr) : a \in Mapped /\ Space(hdr, a) \subseteq Mapped
  <2>1. ASSUME NEW a \in Blocks(hdr), NEW x \in Space(hdr, a) PROVE x \in Mapped
    <3>1. PICK b \in attached : x \in Whole(b)
      BY Facts, BlockIs
    <3>2. Whole(b) \subseteq Region(b)
      BY Facts, BaseIs
    <3> QED BY <3>1, <3>2 DEF Mapped
  <2> QED BY <2>1, Facts, BlockIs
<1> QED BY <1>1, Facts DEF ListInv, Holes

(* The two that lead nowhere: the head of the empty list of the blocks in    *)
(* use, which malloc() follows after it extended the memory, and the NULL    *)
(* that a caller frees.                                                      *)
LEMMA WildIsKnown ==
  ASSUME NEW t \in Thread, Good(t), ~ Ok(Follows(t))
  PROVE  \/ /\ th[t].pc = "procs" /\ th[t].run = NULL /\ processes_head = NULL
            /\ live = {}
         \/ th[t].pc = "free" /\ th[t].elem = NULL
<1> DEFINE r == th[t].run
           e == th[t].elem
           n == th[t].size
<1>1. th[t].size \in Nat /\ hdr \in Memory /\ Laid(hdr, attached)
  BY Facts DEF ThreadType
<1>2. /\ Procs(t) \subseteq Mapped /\ Holes(t) \subseteq Mapped /\ InHand(t) \subseteq Mapped
      /\ \A a \in Blocks(hdr) : a \in Mapped /\ Space(hdr, a) \subseteq Mapped
  BY Inside
<1>3. \A a \in Procs(t) : hdr[a].prev \in Procs(t) /\ hdr[a].next \in Procs(t)
  BY Facts DEF ListInv, Circle
<1>4. \A a \in Holes(t) : hdr[a].prev \in Holes(t) /\ hdr[a].next \in Holes(t)
  BY Facts DEF ListInv, Circle
<1>5. ASSUME NEW a \in Blocks(hdr), n <= hdr[a].size, Splittable(hdr, a, n)
      PROVE  SplitAt(a, n) \in Mapped
  BY <1>1, <1>2, <1>5, SplitInside
<1>6. CASE th[t].pc = "holes"
  <2>1. r \in Holes(t)
    BY <1>6, Facts DEF ThreadInv
  <2>2. Follows(t) \subseteq {r, hdr[r].prev, hdr[r].next}
    BY <1>6 DEF Follows
  <2> QED BY <1>2, <1>4, <2>1, <2>2 DEF Ok
<1>7. CASE th[t].pc = "procs"
  <2>1. Follows(t) \subseteq {r, hdr[r].prev, hdr[r].next}
    BY <1>7 DEF Follows
  <2>2. r \notin Procs(t)
    BY <1>2, <1>3, <2>1 DEF Ok
  <2>3. r = NULL /\ processes_head = NULL
    BY <1>7, <2>2, Facts DEF ThreadInv
  <2>4. live = {}
    BY <2>3, Facts DEF Used
  <2> QED BY <1>7, <2>3, <2>4
<1>8. CASE th[t].pc = "search"
  <2>1. r \in Holes(t) /\ r \in Blocks(hdr) /\ hdr[r].next \in Mapped
    BY <1>2, <1>4, <1>8, Facts DEF ThreadInv, Holes
  <2>2. Fits(r, n) /\ Splittable(hdr, r, n) => SplitAt(r, n) \in Mapped
    <3>1. Fits(r, n) => n <= hdr[r].size
      <4>1. hdr[r].size \in Nat
        BY <1>1, <2>1, BlockIs
      <4> QED BY <1>1, <4>1 DEF Fits
    <3> QED BY <1>5, <2>1, <3>1
  <2>3. \/ Follows(t) = {r}
        \/ /\ Fits(r, n) /\ Splittable(hdr, r, n)
           /\ Follows(t) = {r, hdr[r].next, SplitAt(r, n)}
    BY <1>8 DEF Follows
  <2> QED BY <1>2, <2>1, <2>2, <2>3 DEF Ok
<1>9. CASE th[t].pc = "cut"
  <2>1. r = th[t].blk /\ r # NULL /\ Asking(t) /\ hdr[r] = [size |-> EXT, prev |-> r, next |-> r]
    BY <1>9, Facts DEF ThreadInv
  <2>2. r \in InHand(t) /\ r \in Blocks(hdr) /\ hdr[r].next = r
    BY <1>9, <2>1, Facts DEF InHand
  <2>3. Splittable(hdr, r, n) => SplitAt(r, n) \in Mapped
    BY <1>5, <2>1, <2>2 DEF Asking
  <2>4. \/ Follows(t) = {r}
        \/ Splittable(hdr, r, n) /\ Follows(t) = {r, hdr[r].next, SplitAt(r, n)}
    BY <1>9 DEF Follows
  <2> QED BY <1>2, <2>2, <2>3, <2>4 DEF Ok
<1>10. CASE th[t].pc = "take"
  <2>1. e \in Holes(t)
    BY <1>10, Facts DEF ThreadInv
  <2>2. Follows(t) = {hdr[e].prev, hdr[e].next}
    BY <1>2, <1>10, <2>1 DEF Follows, Ok
  <2> QED BY <1>2, <1>4, <2>1, <2>2 DEF Ok
<1>11. CASE th[t].pc = "free"
  <2>1. e # NULL => e \in Procs(t)
    BY <1>11 DEF Procs
  <2>2. e # NULL => Follows(t) = {hdr[e].prev, hdr[e].next}
    BY <1>2, <1>11, <2>1 DEF Follows, Ok
  <2> QED BY <1>2, <1>3, <1>11, <2>1, <2>2 DEF Ok
<1>12. CASE th[t].pc \notin {"holes", "procs", "search", "cut", "take", "free"}
  <2>1. Follows(t) = {}
    BY <1>12 DEF Follows
  <2> QED BY <2>1 DEF Ok
<1> QED BY <1>6, <1>7, <1>8, <1>9, <1>10, <1>11, <1>12

LEMMA NoWildPointer ==
  ASSUME IInv, OnlyKnownPointersKill, [Next]_vars
  PROVE  OnlyKnownPointersKill'
<1> SUFFICES ASSUME flaws' = {}
             PROVE  (fault # "pointer" /\ (fault = "head" => live = {}))'
  BY DEF OnlyKnownPointersKill, Sound
<1>1. flaws = {} /\ fault # "pointer" /\ (fault = "head" => live = {})
  BY FlawsStay DEF OnlyKnownPointersKill, Sound
<1>2. CASE UNCHANGED vars
  BY <1>1, <1>2 DEF vars
<1>3. ASSUME NEW t \in Thread, WildPointer(t)
      PROVE  (fault # "pointer" /\ (fault = "head" => live = {}))'
  <2>1. Good(t) /\ ~ Ok(Follows(t))
    BY <1>1, <1>3, Turn DEF Run, WildPointer
  <2>2. CASE th[t].pc = "procs" /\ th[t].run = NULL /\ processes_head = NULL /\ live = {}
    BY <1>3, <2>2 DEF WildPointer, Die
  <2>3. CASE th[t].pc = "free" /\ th[t].elem = NULL
    <3>1. Die("null")
      BY <1>3, <2>3 DEF WildPointer
    <3> QED BY <3>1 DEF Die
  <2> QED BY <2>1, <2>2, <2>3, WildIsKnown
<1>4. ASSUME NEW t \in Thread, OutOfMemory(t)
      PROVE  (fault # "pointer" /\ (fault = "head" => live = {}))'
  BY <1>4 DEF OutOfMemory, Die
<1>5. ASSUME NEW t \in Thread, Run(t) \/ Use(t), ~ WildPointer(t), ~ OutOfMemory(t)
      PROVE  (fault # "pointer" /\ (fault = "head" => live = {}))'
  <2>1. fault = "none" /\ fault' = fault
    BY <1>5 DEF Run, FirstHole, HaveHole, SearchFits, SearchNext, TakeHole, Extend, Cut,
                HolesNext, HolesInsert, ProcsNext, ProcsInsert, Return, FreeBlock, At, Alive,
                Use, Malloc, Free, FreeNull
  <2> QED BY <2>1
<1> QED BY <1>2, <1>3, <1>4, <1>5 DEF Next

(* Until two calls overlap, a split moves a header or more than a region is  *)
(* asked for, malloc and free follow no pointer but their own, and two that  *)
(* lead nowhere: the NULL that a caller frees, and the head of the empty     *)
(* list of the blocks in use.                                                *)
THEOREM OnlyKnownPointers == Spec => []OnlyKnownPointersKill
<1>1. Init => OnlyKnownPointersKill
  BY DEF Init, OnlyKnownPointersKill
<1>2. IInv /\ OnlyKnownPointersKill /\ [Next]_vars => OnlyKnownPointersKill'
  BY NoWildPointer
<1> QED BY <1>1, <1>2, SpecIInv, PTL DEF Spec

-----------------------------------------------------------------------------
(* The steps of the heap.                                                    *)
LEMMA ReturnIsMalloc ==
  ASSUME NEW t \in Thread, Good(t), Return(t), flaws = {}
  PROVE  AbstractHeap!Malloc
<1> DEFINE e == th[t].blk
           n == th[t].asked
           b == [addr |-> e + HDR, len |-> n]
<1>1. th[t].pc = "return" /\ live' = live \cup {b} /\ flaws' = flaws
  BY DEF Return, At, Alive
<1>2. Has(t) /\ e \notin Used /\ e \in Procs(t)
  BY <1>1, Facts DEF ThreadInv, Procs
<1>3. e \in Blocks(hdr) /\ n \in {Asked(bytes) : bytes \in Request} /\ n <= hdr[e].size
  BY <1>2, Facts DEF ListInv, Has, Asking
<1>4. e \in Nat /\ e % 2 = 1 /\ e \in Addr /\ n \in Nat
  BY <1>3, Facts, BlockIs DEF ThreadType
<1> HIDE DEF e, n
<1>5. b \in AbstractHeap!Block
  BY <1>3, <1>4 DEF AbstractHeap!Block
<1>6. b.addr % 2 = 0
  BY <1>4 DEF HDR
<1>7. ASSUME NEW a \in live PROVE AbstractHeap!Disjoint(a, b)
  <2> DEFINE x == a.addr - HDR
  <2>1. a.addr \in Nat /\ a.len \in Nat
    BY Facts, LiveAddr
  <2>2. x \in Used /\ a.len <= hdr[x].size
    BY Facts DEF Used, LiveInv
  <2>3. x \in Blocks(hdr) /\ x # e
    BY <1>2, <2>2, Facts DEF ListInv, e
  <2>4. x \in Nat /\ hdr[x].size \in Nat /\ hdr[e].size \in Nat
    <3>1. x \in Addr /\ e \in Addr
      BY <1>3, <2>3, Facts
    <3> HIDE DEF x
    <3> QED BY <3>1, AddrFacts, Facts DEF Memory
  <2>5. x + HDR + hdr[x].size <= e \/ e + HDR + hdr[e].size <= x
    BY <1>3, <2>3, Facts DEF Laid
  <2>6. x + HDR = a.addr
    BY <2>1 DEF HDR
  <2> HIDE DEF x
  <2>7. a.addr + a.len <= e \/ e + HDR + n <= x
    BY <1>3, <1>4, <2>1, <2>2, <2>4, <2>5, <2>6 DEF HDR
  <2> QED BY <1>4, <2>1, <2>4, <2>6, <2>7 DEF AbstractHeap!Disjoint, HDR
<1> HIDE DEF b
<1> QED BY <1>1, <1>5, <1>6, <1>7 DEF AbstractHeap!Malloc

LEMMA StepIsHeap ==
  ASSUME IInv, [Next]_vars
  PROVE  [AbstractHeap!Next]_<<live, flaws>>
<1>1. CASE flaws' # {}
  BY <1>1 DEF AbstractHeap!Next, AbstractHeap!Flawed
<1>2. CASE flaws' = {}
  <2>1. flaws = {}
    BY <1>2, FlawsStay
  <2>2. CASE UNCHANGED vars
    BY <2>2 DEF vars
  <2>3. ASSUME NEW t \in Thread, Return(t)
        PROVE  AbstractHeap!Next
    <3>1. Good(t)
      BY <1>2, <2>1, <2>3, Turn DEF Run
    <3> QED BY <2>1, <2>3, <3>1, ReturnIsMalloc DEF AbstractHeap!Next
  <2>4. ASSUME NEW t \in Thread, NEW b \in live, Free(t, b)
        PROVE  AbstractHeap!Next
    <3>1. live' = live \ {b}
      BY <2>4 DEF Free
    <3> QED BY <1>2, <2>1, <3>1 DEF AbstractHeap!Next, AbstractHeap!Free
  <2>5. ASSUME NEW t \in Thread, Run(t), ~ Return(t)
        PROVE  UNCHANGED live
    BY <2>5 DEF Run, FirstHole, HaveHole, SearchFits, SearchNext, TakeHole, Extend, Cut,
                HolesNext, HolesInsert, ProcsNext, ProcsInsert, FreeBlock, OutOfMemory,
                WildPointer, Die
  <2>6. ASSUME NEW t \in Thread, FreeNull(t) \/ \E bytes \in Request : Malloc(t, bytes)
        PROVE  UNCHANGED live
    BY <2>6 DEF Malloc, FreeNull
  <2>7. AbstractHeap!Next \/ UNCHANGED live
    BY <2>2, <2>3, <2>4, <2>5, <2>6 DEF Next, Use, vars
  <2> QED BY <1>2, <2>1, <2>7
<1> QED BY <1>1, <1>2

(* The lists implement the heap: malloc() hands out a block that is aligned, *)
(* as long as was asked for, and apart from every block that is still held,  *)
(* until two calls overlap, a split moves a header or more than a region is  *)
(* asked for.                                                                *)
THEOREM ImplementsHeap == Spec => HeapImplemented
<1>1. Init => AbstractHeap!Init
  BY DEF Init, AbstractHeap!Init
<1>2. IInv /\ [Next]_vars => [AbstractHeap!Next]_<<live, flaws>>
  BY StepIsHeap
<1> QED BY <1>1, <1>2, SpecIInv, PTL DEF Spec, HeapImplemented, AbstractHeap!Spec

-----------------------------------------------------------------------------
(* Ring goes round a circle: memory has room for no more blocks than rounds. *)
LEMMA LeastNumber ==
  ASSUME NEW S \in SUBSET Nat, S # {}
  PROVE  \E m \in S : \A k \in S : m <= k
<1> DEFINE T == {0..m : m \in S}
<1>1. IsWellFoundedOn(StrictSubsetOrdering(Nat), FiniteSubsetsOf(Nat))
  BY FS_StrictSubsetOrderingWellFounded
<1>2. T \subseteq FiniteSubsetsOf(Nat) /\ T # {}
  <2>1. ASSUME NEW m \in S PROVE 0..m \in FiniteSubsetsOf(Nat)
    <3>1. m \in Int /\ 0 \in Int /\ 0..m \subseteq Nat
      OBVIOUS
    <3>2. IsFiniteSet(0..m)
      BY <3>1, FS_Interval
    <3> QED BY <3>1, <3>2 DEF FiniteSubsetsOf
  <2> QED BY <2>1
<1>3. PICK X \in T : \A Y \in T : ~ (<<Y, X>> \in StrictSubsetOrdering(Nat))
  BY <1>1, <1>2, WFMin
<1>4. PICK m \in S : X = 0..m
  OBVIOUS
<1>5. ASSUME NEW k \in S, k < m
      PROVE  FALSE
  <2>1. 0..k \in T /\ 0..k \subseteq 0..m /\ 0..k # 0..m
    BY <1>5
  <2>2. <<0..k, 0..m>> \in StrictSubsetOrdering(Nat)
    BY <2>1 DEF StrictSubsetOrdering
  <2> QED BY <1>3, <1>4, <2>1, <2>2
<1> QED BY <1>5

LEMMA AddrFinite == IsFiniteSet(Addr)
<1> DEFINE R == {Region(b) : b \in Base}
           f == [b \in Base |-> Region(b)]
<1>1. f \in Surjection(Base, R)
  BY DEF Surjection
<1> HIDE DEF f
<1>2. IsFiniteSet(R)
  BY <1>1, FS_Surjection, MemListAssumption
<1>3. \A b \in Base : IsFiniteSet(Region(b))
  <2>1. \A b \in Base : b \in Int /\ b + EXT + HDR \in Int
    BY MemListAssumption DEF HDR
  <2> QED BY <2>1, FS_Interval DEF Region
<1>4. \A T \in R : IsFiniteSet(T)
  BY <1>3
<1> HIDE DEF R
<1>5. IsFiniteSet(UNION R)
  BY <1>2, <1>4, FS_UNION
<1> QED BY <1>5 DEF Addr, R

Rounds == Cardinality(Addr) \div HDR

LEMMA FewBlocks ==
  ASSUME NEW h \in Memory, NEW att, Laid(h, att)
  PROVE  /\ IsFiniteSet(Blocks(h))
         /\ Rounds \in Nat /\ Cardinality(Blocks(h)) \in Nat /\ Cardinality(Blocks(h)) <= Rounds
<1> DEFINE B == Blocks(h)
           P == B \X (0..2)
           f == [p \in P |-> p[1] + p[2]]
<1>1. IsFiniteSet(B) /\ Cardinality(B) \in Nat /\ Cardinality(Addr) \in Nat
  <2>1. B \in SUBSET Addr
    BY DEF Blocks
  <2>2. IsFiniteSet(B)
    BY <2>1, AddrFinite, FS_Subset
  <2> QED BY <2>2, AddrFinite, FS_CardinalityType
<1>2. \A a \in B : a \in Nat /\ h[a].size \in Nat /\ Space(h, a) \subseteq Addr
  <2>1. \A a \in B : a \in Addr /\ Space(h, a) \subseteq Addr
    BY BlockIs
  <2> QED BY <2>1, AddrFacts DEF Memory
<1>3. \A a \in B, i \in 0..2 : a + i \in Addr
  <2>1. \A a \in B, i \in 0..2 : a + i \in Space(h, a)
    BY <1>2 DEF Space, HDR
  <2> QED BY <1>2, <2>1
<1>4. \A a, c \in B, i, j \in 0..2 : a + i = c + j => a = c /\ i = j
  <2>1. \A a, c \in B : a # c => a + HDR + h[a].size <= c \/ c + HDR + h[c].size <= a
    BY DEF Laid
  <2> QED BY <1>2, <2>1 DEF HDR
<1>5. f \in Injection(P, Addr)
  <2>1. f \in [P -> Addr]
    BY <1>3
  <2>2. ASSUME NEW p \in P, NEW q \in P, f[p] = f[q] PROVE p = q
    <3>1. PICK a \in B, i \in 0..2 : p = <<a, i>>
      OBVIOUS
    <3>2. PICK c \in B, k \in 0..2 : q = <<c, k>>
      OBVIOUS
    <3>3. a + i = c + k
      BY <2>2, <3>1, <3>2
    <3>4. a = c /\ i = k
      BY <1>2, <1>4, <3>3
    <3> QED BY <3>1, <3>2, <3>4
  <2> QED BY <2>1, <2>2 DEF Injection, IsInjective
<1> HIDE DEF f, P
<1>6. Cardinality(P) <= Cardinality(Addr)
  BY <1>5, AddrFinite, FS_Injection
<1>7. IsFiniteSet(0..2) /\ Cardinality(0..2) = 3
  <2>1. 0 \in Int /\ 2 \in Int
    OBVIOUS
  <2>2. IsFiniteSet(0..2) /\ Cardinality(0..2) = IF 0 > 2 THEN 0 ELSE 2 - 0 + 1
    BY <2>1, FS_Interval
  <2> QED BY <2>2
<1>8. Cardinality(P) = Cardinality(B) * 3
  BY <1>1, <1>7, FS_Product DEF P
<1> QED BY <1>1, <1>6, <1>8 DEF Rounds, HDR

(* The sets that Ring goes through, from its n-th round on.                  *)
Round(f, head, k) == IF k = 0 THEN {head}
                     ELSE LET r == f[k - 1] IN r \cup {hdr[a].next : a \in r \cap Addr}
Walk(f, head, n)  == f = [k \in 0..n |-> Round(f, head, k)]

LEMMA WalkExists == ASSUME NEW head, NEW n \in Nat PROVE \E f : Walk(f, head, n)
<1> DEFINE Bad == {m \in Nat : ~ \E f : Walk(f, head, m)}
<1> SUFFICES ASSUME Bad # {} PROVE FALSE
  OBVIOUS
<1>1. PICK m \in Bad : \A k \in Bad : m <= k
  BY LeastNumber
<1>2. m # 0
  <2> DEFINE f == [k \in 0..0 |-> {head}]
  <2>1. Walk(f, head, 0)
    BY DEF Walk, Round
  <2> QED BY <2>1
<1>3. m - 1 \in Nat /\ m - 1 \notin Bad
  BY <1>1, <1>2
<1>4. PICK f : Walk(f, head, m - 1)
  BY <1>3
<1> DEFINE g == [k \in 0..m |-> IF k = m THEN Round(f, head, m) ELSE f[k]]
<1>5. \A k \in 0..(m - 1) : f[k] = Round(f, head, k) /\ g[k] = f[k]
  BY <1>4 DEF Walk
<1>6. ASSUME NEW k \in 0..m PROVE g[k] = Round(g, head, k)
  <2>1. k # 0 => k - 1 \in 0..(m - 1)
    OBVIOUS
  <2>2. k # 0 => g[k - 1] = f[k - 1]
    BY <1>5, <2>1
  <2>3. Round(g, head, k) = Round(f, head, k)
    BY <2>2 DEF Round
  <2>4. k # m => k \in 0..(m - 1)
    OBVIOUS
  <2> QED BY <1>5, <2>3, <2>4
<1>7. Walk(g, head, m)
  <2>1. g = [k \in 0..m |-> g[k]]
    OBVIOUS
  <2> HIDE DEF g
  <2> QED BY <1>6, <2>1 DEF Walk
<1> QED BY <1>7

LEMMA RingIs ==
  ASSUME hdr \in Memory, Laid(hdr, attached), NEW S \in SUBSET Blocks(hdr), NEW head,
         Circle(hdr, S, head)
  PROVE  Ring(head) = S
<1>1. CASE S = {}
  BY <1>1 DEF Circle, Ring
<1>2. CASE S # {}
  <2>1. /\ head \in S /\ head # NULL /\ S \subseteq Addr
        /\ \A a \in S : hdr[a].next \in S
        /\ \A C \in SUBSET S : C # {} /\ (\A a \in C : hdr[a].next \in C) => C = S
    BY <1>2, AddrFacts DEF Circle
  <2>2. Rounds \in Nat /\ IsFiniteSet(S) /\ Cardinality(S) \in Nat /\ Cardinality(S) <= Rounds
    <3>1. /\ IsFiniteSet(Blocks(hdr)) /\ Rounds \in Nat /\ Cardinality(Blocks(hdr)) \in Nat
          /\ Cardinality(Blocks(hdr)) <= Rounds
      BY FewBlocks
    <3>2. IsFiniteSet(S) /\ Cardinality(S) <= Cardinality(Blocks(hdr))
      BY <3>1, FS_Subset
    <3>3. Cardinality(S) \in Nat
      BY <3>2, FS_CardinalityType
    <3> QED BY <3>1, <3>2, <3>3
  <2> DEFINE f == CHOOSE g : Walk(g, head, Rounds)
  <2>3. Walk(f, head, Rounds)
    BY <2>2, WalkExists
  <2>4. Ring(head) = f[Rounds]
    BY <2>1 DEF Ring, Walk, Round, Rounds
  <2> HIDE DEF f
  <2>5. f[0] = {head}
    BY <2>2, <2>3 DEF Walk, Round
  <2>6. \A k \in 1..Rounds : f[k] = f[k - 1] \cup {hdr[a].next : a \in f[k - 1] \cap Addr}
    BY <2>2, <2>3 DEF Walk, Round
  <2> DEFINE Grown(k) == f[k] \in SUBSET S /\ head \in f[k]
                        /\ (f[k] = S \/ Cardinality(f[k]) > k)
             Bad     == {k \in 0..Rounds : ~ Grown(k)}
  <2>7. Bad = {}
    <3> SUFFICES ASSUME Bad # {} PROVE FALSE
      OBVIOUS
    <3>1. PICK m \in Bad : \A k \in Bad : m <= k
      <4>1. Bad \in SUBSET Nat
        BY <2>2
      <4> HIDE DEF Bad
      <4> QED BY <4>1, LeastNumber
    <3>2. m \in 0..Rounds /\ ~ Grown(m)
      BY <3>1
    <3>3. m # 0
      <4>1. Cardinality({head}) = 1
        BY FS_Singleton
      <4>2. Grown(0)
        BY <2>1, <2>5, <4>1
      <4> QED BY <3>2, <4>2
    <3>4. m - 1 \in 0..Rounds /\ m \in 1..Rounds /\ m - 1 \notin Bad
      BY <2>2, <3>1, <3>2, <3>3
    <3>5. Grown(m - 1)
      BY <3>4
    <3> DEFINE R == f[m - 1]
               T == f[m]
    <3>6. /\ R \in SUBSET S /\ head \in R /\ (R = S \/ Cardinality(R) > m - 1)
          /\ ~ (T \in SUBSET S /\ head \in T /\ (T = S \/ Cardinality(T) > m))
      BY <3>2, <3>5
    <3>7. T = R \cup {hdr[a].next : a \in R \cap Addr}
      BY <2>6, <3>4
    <3> HIDE DEF R, T, Bad, Good
    <3>8. T \in SUBSET S /\ head \in T /\ R \subseteq T
      <4>1. R \subseteq S /\ R \subseteq Addr
        BY <2>1, <3>6
      <4>2. \A a \in R : hdr[a].next \in S
        BY <2>1, <4>1
      <4> QED BY <3>6, <3>7, <4>1, <4>2
    <3>9. R # S
      BY <3>6, <3>8
    <3>10. PICK a \in R : hdr[a].next \notin R
      <4>1. R \in SUBSET S /\ R # {}
        BY <3>6
      <4>2. (\A a \in R : hdr[a].next \in R) => R = S
        BY <2>1, <4>1
      <4> QED BY <3>9, <4>2
    <3>11. R \cup {hdr[a].next} \in SUBSET T
      BY <2>1, <3>6, <3>7, <3>8
    <3>12. IsFiniteSet(R) /\ IsFiniteSet(T)
      BY <2>2, <3>6, <3>8, FS_Subset
    <3>13. Cardinality(R \cup {hdr[a].next}) = Cardinality(R) + 1
      BY <3>10, <3>12, FS_AddElement
    <3>14. Cardinality(R) + 1 <= Cardinality(T)
      BY <3>11, <3>12, <3>13, FS_Subset
    <3>15. Cardinality(R) \in Nat /\ Cardinality(T) \in Nat
      BY <3>12, FS_CardinalityType
    <3> QED BY <3>2, <3>6, <3>8, <3>9, <3>14, <3>15
  <2>8. Grown(Rounds)
    BY <2>2, <2>7
  <2>9. f[Rounds] # S => Cardinality(f[Rounds]) > Cardinality(S)
    <3>1. Cardinality(f[Rounds]) \in Nat
      BY <2>2, <2>8, FS_Subset, FS_CardinalityType
    <3> QED BY <2>2, <2>8, <3>1
  <2>10. Cardinality(f[Rounds]) <= Cardinality(S) /\ Cardinality(f[Rounds]) \in Nat
    <3>1. IsFiniteSet(f[Rounds]) /\ Cardinality(f[Rounds]) <= Cardinality(S)
      BY <2>2, <2>8, FS_Subset
    <3> QED BY <3>1, FS_CardinalityType
  <2> QED BY <2>2, <2>4, <2>9, <2>10
<1> QED BY <1>1, <1>2

-----------------------------------------------------------------------------
(* Between calls.                                                            *)
LEMMA IdleRings ==
  ASSUME NEW t \in Thread, Good(t), AllIdle
  PROVE  /\ Ring(processes_head) = Used /\ Ring(holes_head) = Blocks(hdr) \ Used
         /\ Used \subseteq Blocks(hdr)
         /\ Circle(hdr, Used, processes_head) /\ Ordered(hdr, Used, processes_head)
         /\ Circle(hdr, Blocks(hdr) \ Used, holes_head)
<1>1. th[t].pc = "idle"
  BY DEF AllIdle
<1>2. Procs(t) = Used /\ Holes(t) = Blocks(hdr) \ Used
  BY <1>1 DEF Procs, InHand, Holes
<1>3. /\ Used \subseteq Blocks(hdr)
      /\ Circle(hdr, Used, processes_head) /\ Ordered(hdr, Used, processes_head)
      /\ Circle(hdr, Blocks(hdr) \ Used, holes_head)
  BY <1>2, Facts DEF ListInv
<1>4. hdr \in Memory /\ Laid(hdr, attached)
  BY Facts
<1>5. Ring(processes_head) = Used
  BY <1>3, <1>4, RingIs
<1>6. Ring(holes_head) = Blocks(hdr) \ Used
  BY <1>3, <1>4, RingIs
<1> QED BY <1>3, <1>5, <1>6

(* Until two calls overlap, a split moves a header or more than a region is  *)
(* asked for: between calls both lists are circular in both directions,      *)
(* share no block, and the one of the blocks in use holds what the callers   *)
(* hold, by address.                                                         *)
THEOREM ListsStayConsistent == Spec => []ListsConsistent
<1>1. ASSUME IInv, Sound PROVE \E t \in Thread : Good(t)
  BY <1>1 DEF IInv, Sound, Typed, Good
<1>2. ASSUME IInv, AllIdle, Sound PROVE ListsConsistent
  <2> PICK t \in Thread : Good(t)
    BY <1>1, <1>2
  <2>1. /\ Ring(processes_head) = Used /\ Ring(holes_head) = Blocks(hdr) \ Used
        /\ Used \subseteq Blocks(hdr)
        /\ Circle(hdr, Used, processes_head) /\ Ordered(hdr, Used, processes_head)
        /\ Circle(hdr, Blocks(hdr) \ Used, holes_head)
    BY <1>2, IdleRings
  <2>2. \A a \in Used \cup (Blocks(hdr) \ Used) :
          a # NULL /\ hdr[a].next # NULL /\ hdr[hdr[a].next].prev = a
    <3>1. ASSUME NEW S, NEW head, Circle(hdr, S, head), NEW a \in S
          PROVE  a # NULL /\ hdr[a].next # NULL /\ hdr[hdr[a].next].prev = a
      <4>1. a \in Addr /\ hdr[a].next \in Addr /\ hdr[hdr[a].next].prev = a
        BY <3>1 DEF Circle
      <4> QED BY <4>1, AddrFacts
    <3> QED BY <2>1, <3>1
  <2>3. \A a \in Used : /\ processes_head <= a
                        /\ hdr[a].next = processes_head \/ a < hdr[a].next
    BY <2>1 DEF Ordered
  <2>4. Used = {b.addr - HDR : b \in live}
    BY DEF Used
  <2> QED BY <2>1, <2>2, <2>3, <2>4 DEF ListsConsistent
<1>3. IInv => ListsConsistent
  BY <1>2 DEF ListsConsistent
<1> QED BY <1>3, SpecIInv, PTL

(* Until then, between calls, the blocks, in use or holes, share no word and *)
(* cover all of each region from its first header on.                        *)
THEOREM MemoryStaysTiled == Spec => []TilesMemory
<1>1. ASSUME IInv, Sound PROVE \E t \in Thread : Good(t)
  BY <1>1 DEF IInv, Sound, Typed, Good
<1>2. ASSUME IInv, AllIdle, Sound PROVE TilesMemory
  <2> PICK t \in Thread : Good(t)
    BY <1>1, <1>2
  <2> DEFINE B == Blocks(hdr)
  <2>1. Ring(processes_head) \cup Ring(holes_head) = B
    BY <1>2, IdleRings
  <2>2. hdr \in Memory /\ Laid(hdr, attached) /\ attached \subseteq Base
    BY Facts
  <2>3. \A a \in B : Extent(a) = Space(hdr, a) /\ Space(hdr, a) \subseteq Addr
    BY <2>2, BlockIs DEF Extent, Space
  <2>4. ASSUME NEW a \in B, NEW c \in B, a # c PROVE Extent(a) \cap Extent(c) = {}
    <3>1. a + HDR + hdr[a].size <= c \/ c + HDR + hdr[c].size <= a
      BY <2>2, <2>4 DEF Laid
    <3>2. a \in Nat /\ c \in Nat /\ hdr[a].size \in Nat /\ hdr[c].size \in Nat
      <4>1. a \in Addr /\ c \in Addr
        BY DEF Blocks
      <4> QED BY <2>2, <4>1, AddrFacts DEF Memory
    <3> HIDE DEF B
    <3> QED BY <3>1, <3>2 DEF Extent, HDR
  <2>5. \A b \in attached : /\ Whole(b) = Align(b)..(Align(b) + HDR + EXT - 1)
                            /\ Whole(b) \subseteq Addr
    BY <2>2, BaseIs
  <2>6. UNION {Extent(a) : a \in B} = UNION {Whole(b) : b \in attached}
    <3>1. \A x \in Addr : (\E a \in B : x \in Extent(a)) <=> (\E b \in attached : x \in Whole(b))
      BY <2>2, <2>3 DEF Laid
    <3> HIDE DEF B
    <3> QED BY <2>3, <2>5, <3>1
  <2>7. UNION {Whole(b) : b \in attached} =
          UNION {Align(b)..(Align(b) + HDR + EXT - 1) : b \in attached}
    BY <2>5
  <2> HIDE DEF B
  <2> QED BY <2>1, <2>4, <2>6, <2>7 DEF TilesMemory
<1>3. IInv => TilesMemory
  BY <1>2 DEF TilesMemory
<1> QED BY <1>3, SpecIInv, PTL
=============================================================================
