-------------------------- MODULE ArithmeticProofs --------------------------
(* Theorems about the two backends whose correctness is arithmetic modulo    *)
(* powers of 2: the bitmap allocator, for every size of the region, every    *)
(* width of an unsigned number and all sizes asked for; and the clocks, for  *)
(* all threads, widths, times to set and ways to mix the halves of a value.  *)
EXTENDS Bitmap, Clock, FiniteSetTheorems, TLAPS

-----------------------------------------------------------------------------
(* The bitmap allocator.                                                     *)

(* Sizes are whole pages, so that what is divided away holds nothing.        *)
WholePages == \A b \in live : b.size % PAGE_SIZE = 0

(* init() clears bitmap[] before the first malloc() only.                    *)
NoneBeforeInit == region = "none" => live = {}

IInv == TypeOK /\ WholePages /\ NoneBeforeInit /\ OverlapOnlyAfterWrap

-----------------------------------------------------------------------------
(* Arithmetic.                                                               *)

(* Rounding up yields whole pages, and 0 if it reaches 2^32.                 *)
LEMMA AlignedSize ==
  ASSUME NEW asked \in Request
  PROVE  Aligned(asked) \in Nat /\ Aligned(asked) % PAGE_SIZE = 0
<1> DEFINE sum == asked + (4 - (asked % 4))
<1>1. asked \in Nat /\ asked < UMax /\ UMax \in Nat /\ UMax % 4 = 0
  BY BitmapAssumption DEF PAGE_SIZE
<1>2. sum \in Nat /\ sum % 4 = 0 /\ sum <= UMax
  BY <1>1
<1>3. sum % UMax = sum \/ sum % UMax = 0
  <2> HIDE DEF sum
  <2>1. CASE sum < UMax
    BY <1>1, <1>2, <2>1
  <2>2. CASE sum = UMax
    BY <1>1, <1>2, <2>2
  <2> QED BY <1>1, <1>2, <2>1, <2>2
<1> HIDE DEF sum
<1>4. Aligned(asked) = IF asked <= 4 THEN 4 ELSE sum % UMax
  BY DEF Aligned, PAGE_SIZE, sum
<1> QED BY <1>1, <1>2, <1>3, <1>4 DEF PAGE_SIZE

(* A block's pages: the header's and those of a size of whole pages.         *)
LEMMA PagesOfBlock ==
  ASSUME NEW b \in [at : Nat, asked : Nat, size : Nat], b.size % PAGE_SIZE = 0
  PROVE  /\ b.at \in Pages(b)
         /\ PAGE_SIZE * (Cardinality(Pages(b)) - 1) = b.size
         /\ b.asked <= b.size => Filled(b) \subseteq Pages(b)
         /\ 0..(b.size \div WordBits) \subseteq 0..(b.size \div PAGE_SIZE)
<1> DEFINE q == b.size \div 4
<1>1. b.at \in Nat /\ b.asked \in Nat /\ b.size \in Nat /\ b.size % 4 = 0
  BY DEF PAGE_SIZE
<1>2. q \in Nat /\ 4 * q = b.size
  BY <1>1
<1>3. Pages(b) = b.at..(b.at + q)
  BY <1>1, <1>2 DEF Pages, required_pages, PAGE_SIZE
<1>4. b.size \div 32 <= q /\ b.size \div 32 \in Nat
  BY <1>1
<1>5. b.asked <= b.size => (b.asked + 4 - 1) \div 4 <= q
  BY <1>1, <1>2
<1>6. Filled(b) = (b.at + 1)..(b.at + ((b.asked + 4 - 1) \div 4))
  BY DEF Filled, PAGE_SIZE
<1>7. (b.asked + 4 - 1) \div 4 \in Nat
  BY <1>1
<1>8. 0..(b.size \div WordBits) \subseteq 0..(b.size \div PAGE_SIZE)
  BY <1>1, <1>4 DEF WordBits, PAGE_SIZE
<1> HIDE DEF q
<1>9. Cardinality(Pages(b)) = q + 1
  BY <1>1, <1>2, <1>3, FS_Interval
<1>10. b.asked <= b.size => Filled(b) \subseteq Pages(b)
  BY <1>1, <1>2, <1>3, <1>5, <1>6, <1>7
<1> QED BY <1>1, <1>2, <1>3, <1>8, <1>9, <1>10 DEF PAGE_SIZE

(* What the inductive invariant says of a block in use.                      *)
LEMMA BlockInUse ==
  ASSUME TypeOK, WholePages, NEW b \in live
  PROVE  /\ b \in [at : Nat, asked : Nat, size : Nat] /\ b.size % PAGE_SIZE = 0
         /\ b.at \in Page /\ b.at \in Starts(live) /\ header[b.at] \in Nat
<1>1. b \in Block
  BY DEF TypeOK
<1>2. b.at \in Starts(live)
  BY DEF Starts
<1>3. Page \subseteq Nat /\ Request \subseteq Nat
  BY BitmapAssumption DEF Page
<1>4. header[b.at] \in Nat
  BY <1>2 DEF TypeOK
<1>5. b \in [at : Nat, asked : Nat, size : Nat]
  BY <1>1, <1>3 DEF Block
<1> QED BY <1>1, <1>2, <1>4, <1>5 DEF Block, WholePages

(* The bits that free() clears of the first block are its own; those of any  *)
(* other block lie beyond the region, unless the count comes round to bit 0. *)
LEMMA ClearedBits ==
  ASSUME NEW at \in Page, header[at] \in Nat
  PROVE  \/ at = 0 /\ Cleared(at) \subseteq 0..(header[at] \div WordBits)
         \/ at > 0 /\ (0 \in Cleared(at) \/ Cleared(at) \cap Page = {})
<1> DEFINE last == header[at] \div 32
<1>1. at \in Nat /\ at < BITS /\ BITS \in Nat /\ UMax \in Nat /\ UMax > 9 * BITS
  BY BitmapAssumption DEF Page
<1>2. last \in Nat /\ header[at] \div WordBits = last
  BY DEF WordBits
<1> HIDE DEF last
<1>3. Cleared(at) = {Bit(at, i) : i \in 0..last}
  BY <1>2 DEF Cleared
<1>4. CASE at = 0
  <2>1. \A i \in 0..last : Bit(at, i) = i
    BY <1>2, <1>4 DEF Bit
  <2> QED BY <1>2, <1>3, <1>4, <2>1
<1>5. CASE at > 0 /\ at <= last
  <2>1. at \in 0..last /\ Bit(at, at) = 0
    BY <1>1, <1>2, <1>5 DEF Bit
  <2> QED BY <1>3, <1>5, <2>1
<1>6. CASE at > last
  <2>1. \A i \in 0..last : Bit(at, i) \notin Page
    <3> TAKE i \in 0..last
    <3>1. i \in Nat /\ i < at
      BY <1>1, <1>2, <1>6
    <3>2. Bit(at, i) = UMax - (at - i)
      BY <3>1 DEF Bit
    <3> QED BY <1>1, <3>1, <3>2 DEF Page
  <2> QED BY <1>1, <1>2, <1>3, <1>6, <2>1
<1> QED BY <1>1, <1>2, <1>4, <1>5, <1>6

-----------------------------------------------------------------------------
(* The steps that change blocks.                                             *)

(* A run of clear bits that ends at e: its pages are in the region, and no   *)
(* block in use has any of them while bits and blocks agree.                 *)
LEMMA MallocStep ==
  ASSUME IInv, NEW asked \in Request, Malloc(asked)
  PROVE  IInv'
<1> DEFINE size == Aligned(asked)
           n    == required_pages(size)
<1>1. PICK e \in RunEnds(n) :
        /\ bitmap' = bitmap \cup (e + 1 - n)..e
        /\ live' = live \cup {[at |-> e + 1 - n, asked |-> asked, size |-> size]}
        /\ header' = [p \in Starts(live') |-> IF p = e + 1 - n THEN size ELSE header[p]]
        /\ wrapped' = (wrapped \/ size < asked)
        /\ UNCHANGED <<region, fault>>
  BY DEF Malloc
<1> DEFINE new == [at |-> e + 1 - n, asked |-> asked, size |-> size]
<1>2. size \in Nat /\ size % PAGE_SIZE = 0 /\ asked \in Nat
  BY AlignedSize, BitmapAssumption
<1>3. n \in Nat \ {0} /\ n = 1 + size \div PAGE_SIZE
  BY <1>2 DEF required_pages, PAGE_SIZE
<1>4. /\ e \in Page /\ e \in Nat /\ e + 1 - n \in Nat
      /\ (e + 1 - n)..e \subseteq Page
      /\ (e + 1 - n)..e \cap bitmap = {}
  BY <1>1, <1>3, BitmapAssumption DEF RunEnds, Page
<1>5. Pages(new) = (e + 1 - n)..e /\ new.at = e + 1 - n /\ new.size = size
      /\ new.asked = asked
  BY <1>3, <1>4 DEF Pages
<1>6. new \in Block /\ new \in [at : Nat, asked : Nat, size : Nat]
  <2>1. e + 1 - n \in Page
    BY <1>3, <1>4
  <2> QED BY <1>2, <1>4, <2>1 DEF Block
<1> HIDE DEF size, n
<1>7. TypeOK'
  <2>1. live' \in SUBSET Block /\ bitmap' \in SUBSET Page
    BY <1>1, <1>4, <1>6 DEF IInv, TypeOK
  <2>2. header' \in [Starts(live') -> Nat]
    <3>1. Starts(live') = Starts(live) \cup {e + 1 - n}
      <4>1. live' = live \cup {new}
        BY <1>1
      <4> HIDE DEF new
      <4> QED BY <1>5, <4>1 DEF Starts
    <3>2. \A p \in Starts(live) : header[p] \in Nat
      BY DEF IInv, TypeOK
    <3> QED BY <1>1, <1>2, <3>1, <3>2
  <2> QED BY <1>1, <2>1, <2>2 DEF IInv, TypeOK
<1>8. WholePages'
  BY <1>1, <1>2 DEF IInv, WholePages
<1>9. ASSUME ~ wrapped'
      PROVE  /\ \A a, b \in live' : a # b => Pages(a) \cap Pages(b) = {}
             /\ \A b \in live' :
                  /\ Pages(b) \subseteq bitmap' /\ header'[b.at] = b.size
                  /\ PAGE_SIZE * (Cardinality(Pages(b)) - 1) >= b.asked
  <2>1. ~ wrapped /\ ~ (size < asked)
    BY <1>1, <1>9
  <2>2. /\ \A a, b \in live : a # b => Pages(a) \cap Pages(b) = {}
        /\ \A b \in live : /\ Pages(b) \subseteq bitmap /\ header[b.at] = b.size
                           /\ PAGE_SIZE * (Cardinality(Pages(b)) - 1) >= b.asked
    BY <2>1 DEF IInv, OverlapOnlyAfterWrap
  <2>3. live' = live \cup {new}
    BY <1>1
  <2> HIDE DEF new
  <2>4. \A b \in live : Pages(b) \cap Pages(new) = {} /\ b.at # new.at
    <3> TAKE b \in live
    <3>1. b.at \in Pages(b)
      BY BlockInUse, PagesOfBlock DEF IInv
    <3>2. new.at \in Pages(new)
      BY <1>2, <1>5, <1>6, PagesOfBlock
    <3> QED BY <1>4, <1>5, <2>2, <3>1, <3>2
  <2>5. PAGE_SIZE * (Cardinality(Pages(new)) - 1) >= new.asked
    BY <1>2, <1>5, <1>6, <2>1, PagesOfBlock
  <2>6. \A b \in live : header'[b.at] = header[b.at]
    <3> TAKE b \in live
    <3>1. b.at \in Starts(live')
      BY <2>3 DEF Starts
    <3> QED BY <1>1, <1>5, <2>4, <3>1
  <2>7. header'[new.at] = new.size
    <3>1. new.at \in Starts(live')
      BY <2>3 DEF Starts
    <3> QED BY <1>1, <1>5, <3>1
  <2> QED BY <1>1, <1>5, <2>2, <2>3, <2>4, <2>5, <2>6, <2>7
<1>10. NoneBeforeInit'
  BY <1>1 DEF Malloc, NoneBeforeInit
<1> QED BY <1>7, <1>8, <1>9, <1>10 DEF IInv, OverlapOnlyAfterWrap

(* A block leaves, and bits that no other block's page has are cleared.      *)
LEMMA LeaveStep ==
  ASSUME IInv, NEW b \in live, NEW bits,
         live' = live \ {b}, bitmap' = bitmap \ bits,
         header' = [p \in Starts(live') |-> header[p]],
         region' = region, fault' = fault, wrapped' \in BOOLEAN,
         ~ wrapped' => ~ wrapped /\ \A c \in live' : Pages(c) \cap bits = {}
  PROVE  IInv'
<1>1. Starts(live') \subseteq Starts(live)
  BY DEF Starts
<1>2. TypeOK'
  BY <1>1 DEF IInv, TypeOK
<1>3. WholePages'
  BY DEF IInv, WholePages
<1>4. \A c \in live' : header'[c.at] = header[c.at]
  BY DEF Starts
<1>5. OverlapOnlyAfterWrap'
  <2> SUFFICES ASSUME ~ wrapped'
               PROVE  OverlapOnlyAfterWrap'
    BY DEF OverlapOnlyAfterWrap
  <2>1. /\ \A a, c \in live : a # c => Pages(a) \cap Pages(c) = {}
        /\ \A c \in live : /\ Pages(c) \subseteq bitmap /\ header[c.at] = c.size
                           /\ PAGE_SIZE * (Cardinality(Pages(c)) - 1) >= c.asked
    BY DEF IInv, OverlapOnlyAfterWrap
  <2>2. \A c \in live' : c \in live /\ Pages(c) \subseteq bitmap'
    BY <2>1
  <2> QED BY <1>4, <2>1, <2>2 DEF OverlapOnlyAfterWrap
<1>6. NoneBeforeInit'
  BY DEF IInv, NoneBeforeInit
<1> QED BY <1>2, <1>3, <1>5, <1>6 DEF IInv

LEMMA RefuseStep ==
  ASSUME IInv, NEW b \in live, Refuse(b)
  PROVE  IInv'
<1>1. /\ live' = live \ {b} /\ bitmap' = bitmap \ {}
      /\ header' = [p \in Starts(live') |-> header[p]]
      /\ region' = region /\ fault' = fault /\ wrapped' = wrapped
  BY DEF Refuse
<1>2. \A c \in live' : Pages(c) \cap {} = {}
  OBVIOUS
<1>3. wrapped' \in BOOLEAN
  BY <1>1 DEF IInv, TypeOK
<1> QED BY <1>1, <1>2, <1>3, LeaveStep

LEMMA FreeStep ==
  ASSUME IInv, NEW b \in live, Free(b)
  PROVE  IInv'
<1>1. /\ live' = live \ {b} /\ bitmap' = bitmap \ Cleared(b.at)
      /\ header' = [p \in Starts(live') |-> header[p]]
      /\ wrapped' = (wrapped \/ (b.at > 0 /\ 0 \in Cleared(b.at)))
      /\ region' = region /\ fault' = fault
  BY DEF Free
<1>2. ASSUME ~ wrapped', NEW c \in live'
      PROVE  Pages(c) \cap Cleared(b.at) = {}
  <2>1. ~ wrapped /\ ~ (b.at > 0 /\ 0 \in Cleared(b.at)) /\ c \in live /\ c # b
    BY <1>1, <1>2
  <2>2. /\ Pages(c) \cap Pages(b) = {} /\ Pages(c) \subseteq bitmap
        /\ Pages(b) \subseteq bitmap /\ header[b.at] = b.size
    BY <2>1 DEF IInv, OverlapOnlyAfterWrap
  <2>3. b.at \in Page /\ header[b.at] \in Nat
    BY BlockInUse DEF IInv
  <2>4. CASE b.at = 0
    <3>1. b.size \in Nat /\ Pages(b) = 0..(b.size \div PAGE_SIZE)
      <4>1. b.size \in Nat
        BY BlockInUse DEF IInv
      <4> QED BY <2>4, <4>1 DEF Pages, required_pages, PAGE_SIZE
    <3>2. 0..(b.size \div WordBits) \subseteq 0..(b.size \div PAGE_SIZE)
      BY BlockInUse, PagesOfBlock DEF IInv
    <3>3. Cleared(b.at) \subseteq 0..(header[b.at] \div WordBits)
      BY <2>3, <2>4, ClearedBits
    <3> QED BY <2>2, <3>1, <3>2, <3>3
  <2>5. CASE b.at # 0
    <3>1. Cleared(b.at) \cap Page = {}
      BY <2>1, <2>3, <2>5, ClearedBits
    <3>2. bitmap \subseteq Page
      BY DEF IInv, TypeOK
    <3> QED BY <2>2, <3>1, <3>2
  <2> QED BY <2>4, <2>5
<1>3. wrapped' \in BOOLEAN /\ (~ wrapped' => ~ wrapped)
  BY <1>1 DEF IInv, TypeOK
<1> QED BY <1>1, <1>2, <1>3, LeaveStep

(* While blocks are apart and large enough, what a client may fill holds no  *)
(* header, so only blocks that already overlap lose one.                     *)
LEMMA OverwriteStep ==
  ASSUME IInv, NEW b \in live, NEW word \in Written, Overwrite(b, word)
  PROVE  IInv'
<1>1. PICK c \in live : c.at \in Filled(b) /\ header' = [header EXCEPT ![c.at] = word]
  BY DEF Overwrite
<1>2. UNCHANGED <<region, bitmap, live, wrapped, fault>> /\ word \in Nat
  BY BitmapAssumption DEF Overwrite
<1>3. TypeOK'
  BY <1>1, <1>2 DEF IInv, TypeOK
<1>4. WholePages'
  BY <1>2 DEF IInv, WholePages
<1>5. wrapped
  <2> SUFFICES ASSUME ~ wrapped
               PROVE  FALSE
    OBVIOUS
  <2>1. /\ \A a \in live : a # b => Pages(a) \cap Pages(b) = {}
        /\ PAGE_SIZE * (Cardinality(Pages(b)) - 1) >= b.asked
    BY DEF IInv, OverlapOnlyAfterWrap
  <2>2. c.at \in Pages(c) /\ c.at \in Pages(b)
    BY <1>1, <2>1, BlockInUse, PagesOfBlock DEF IInv
  <2>3. c = b
    BY <2>1, <2>2
  <2>4. b.at \in Nat /\ b.at \in (b.at + 1)..(b.at + ((b.asked + PAGE_SIZE - 1) \div PAGE_SIZE))
    BY <1>1, <2>3, BlockInUse DEF IInv, Filled
  <2> QED BY <2>4
<1> QED BY <1>2, <1>3, <1>4, <1>5 DEF IInv, NoneBeforeInit, OverlapOnlyAfterWrap

-----------------------------------------------------------------------------
LEMMA Inductive == Init => IInv
<1> SUFFICES ASSUME Init
             PROVE  IInv
  OBVIOUS
<1>1. live = {} /\ Starts(live) = {}
  BY DEF Init, Starts
<1>2. header \in [Starts(live) -> Nat]
  BY <1>1 DEF Init
<1> QED BY <1>1, <1>2 DEF Init, IInv, TypeOK, WholePages, NoneBeforeInit, OverlapOnlyAfterWrap

LEMMA Preserved == IInv /\ [Next]_vars => IInv'
<1> SUFFICES ASSUME IInv, [Next]_vars
             PROVE  IInv'
  OBVIOUS
<1> USE DEF IInv, TypeOK, WholePages, NoneBeforeInit, OverlapOnlyAfterWrap
<1>1. CASE InitFails
  BY <1>1 DEF InitFails, vars
<1>2. CASE InitMemory
  BY <1>2 DEF InitMemory
<1>3. CASE FreeNull
  BY <1>3 DEF FreeNull
<1>4. ASSUME NEW asked \in Request, Malloc(asked)
      PROVE  IInv'
  BY <1>4, MallocStep
<1>5. ASSUME NEW asked \in Request, NotEnoughSpace(asked)
      PROVE  IInv'
  BY <1>5 DEF NotEnoughSpace, vars
<1>6. ASSUME NEW b \in live, Refuse(b)
      PROVE  IInv'
  BY <1>6, RefuseStep
<1>7. ASSUME NEW b \in live, Free(b)
      PROVE  IInv'
  BY <1>7, FreeStep
<1>8. ASSUME NEW b \in live, FreeFaults(b)
      PROVE  IInv'
  BY <1>8 DEF FreeFaults
<1>9. ASSUME NEW b \in live, NEW word \in Written, Overwrite(b, word)
      PROVE  IInv'
  BY <1>9, OverwriteStep
<1>10. CASE UNCHANGED vars
  BY <1>10 DEF vars
<1> QED
  BY <1>1, <1>2, <1>3, <1>4, <1>5, <1>6, <1>7, <1>8, <1>9, <1>10 DEF Next

-----------------------------------------------------------------------------
(* The type invariant of the bitmap allocator.                               *)
THEOREM BitmapTypeCorrect == Spec => []TypeOK
<1>1. IInv => TypeOK
  BY DEF IInv
<1> QED BY Inductive, Preserved, <1>1, PTL DEF Spec

(* For every region and width: until a free or a size wraps, blocks in use   *)
(* are disjoint, marked, large enough, and have their headers.  In           *)
(* particular the bits that free() miscalculates belong to no other block.   *)
THEOREM BlocksApartUntilWrap == Spec => []OverlapOnlyAfterWrap
<1>1. IInv => OverlapOnlyAfterWrap
  BY DEF IInv
<1> QED BY Inductive, Preserved, <1>1, PTL DEF Spec

-----------------------------------------------------------------------------
(* The clocks: what holds between the steps of the calls.                    *)

(* What a call holds.                                                        *)
CallType == [op : {"idle", "mono", "real", "set"}, todo : SUBSET Word, loaded : Nat,
             off : Nat, time : Nat, asked : Nat, from : Nat, mixed : BOOLEAN]

(* The types of the variables, with the offset in its 64 bits.               *)
ClockTypes ==
  /\ clock \in Nat /\ clock <= MaxClock /\ offset \in 0..(U64 - 1)
  /\ th \in [Thread -> CallType]
  /\ set \in [time : Nat, from : Nat, to : Nat, known : BOOLEAN]

(* A call of kind op that no other step has come in between so far.          *)
Clean(c, op) == c.op = op /\ ~ c.mixed

(* While no carry comes between the halves, they are those of one time,      *)
(* which the clock has shown since the call began;                           *)
OneTime(c) ==
  /\ c.todo \cap Clocks = Clocks => c.loaded = 0
  /\ c.todo \cap Clocks = {"clock_hi"} =>
       \E v \in c.from..clock : Hi(v) = Hi(clock) /\ c.loaded = Lo(v)
  /\ c.todo \cap Clocks = {"clock_lo"} => c.loaded = Half * Hi(clock)
  /\ c.todo \cap Clocks = {} => c.loaded \in c.from..clock

TimeOf(t) ==
  th[t].op # "idle" => th[t].from <= clock /\ (~ th[t].mixed => OneTime(th[t]))

(* calls that are not mixed do not mix with another one under way, so the    *)
(* halves a reader has of the offset are the offset's, and those a setter    *)
(* has stored are still there;                                               *)
ApartInv == \A t, u \in Thread :
  t # u /\ th[t].op # "idle" /\ th[u].op # "idle" /\ ~ th[t].mixed =>
    ~ Mixes(th[t].op, th[u].op)

OffsetOf(t) ==
  /\ Clean(th[t], "real") =>
       th[t].off = (IF "offset_lo" \in th[t].todo THEN 0 ELSE Lo(offset))
                     + (IF "offset_hi" \in th[t].todo THEN 0 ELSE Half * Hi(offset))
  /\ th[t].op = "set" =>
       /\ th[t].todo \cap Clocks # {} => Offsets \subseteq th[t].todo
       /\ 2 * th[t].asked < Half => th[t].time = th[t].asked
  /\ Clean(th[t], "set") =>
       /\ "offset_lo" \notin th[t].todo => Lo(offset) = Lo(NewOffset(t))
       /\ "offset_hi" \notin th[t].todo => Hi(offset) = Hi(NewOffset(t))

(* and while no call sets the time, the offset is that of the last one.      *)
SetInv ==
  /\ set.from <= set.to /\ set.to <= clock
  /\ set.known => 2 * set.time < Half \/ set.time <= set.from
  /\ \A t \in Thread : Clean(th[t], "real") => set.to <= th[t].from
  /\ set.known /\ (\A t \in Thread : th[t].op # "set") =>
       \E at \in set.from..set.to : offset = (set.time - at) % U64

ClockInv == /\ ClockTypes /\ ApartInv /\ SetInv
            /\ \A t \in Thread : TimeOf(t) /\ OffsetOf(t)

-----------------------------------------------------------------------------
(* Division, and values in halves.                                           *)

(* Division with remainder.                                                  *)
LEMMA DivMod ==
  ASSUME NEW n \in Int, NEW d \in Nat \ {0}
  PROVE  /\ n \div d \in Int /\ n % d \in 0..(d - 1)
         /\ n = d * (n \div d) + (n % d)
         /\ n \in Nat => n \div d \in Nat
<1>1. n \div d \in Int
  OBVIOUS
<1>2. n % d \in 0..(d - 1)
  OBVIOUS
<1>3. n = d * (n \div d) + (n % d)
  OBVIOUS
<1>4. n \in Nat => n \div d \in Nat
  OBVIOUS
<1> QED BY <1>1, <1>2, <1>3, <1>4

(* Multiples of d lie at least d apart,                                      *)
LEMMA Multiples ==
  ASSUME NEW d \in Nat \ {0}, NEW p \in Int, NEW q \in Int, p < q
  PROVE  d * p \in Int /\ d * q \in Int /\ d * p + d <= d * q
<1>1. d * p \in Int /\ d * q \in Int /\ d * (p + 1) = d * p + d
  OBVIOUS
<1>2. q - (p + 1) \in Nat /\ d * (q - (p + 1)) \in Nat
  OBVIOUS
<1>3. d * q = d * (p + 1) + d * (q - (p + 1))
  OBVIOUS
<1> QED BY <1>1, <1>2, <1>3

(* and so quotient and remainder are the only ones.                          *)
LEMMA DivModUnique ==
  ASSUME NEW d \in Nat \ {0}, NEW q \in Int, NEW r \in 0..(d - 1)
  PROVE  (d * q + r) \div d = q /\ (d * q + r) % d = r
<1> DEFINE n == d * q + r
           p == n \div d
           m == n % d
<1>1. n \in Int /\ d * q \in Int
  OBVIOUS
<1>2. p \in Int /\ m \in 0..(d - 1) /\ n = d * p + m
  BY <1>1, DivMod
<1>3. n = d * q + r
  OBVIOUS
<1> HIDE DEF n, p, m
<1>4. p = q
  <2>1. CASE p < q
    BY <1>2, <1>3, <2>1, Multiples
  <2>2. CASE q < p
    BY <1>2, <1>3, <2>2, Multiples
  <2> QED BY <1>2, <2>1, <2>2
<1>5. m = r
  BY <1>1, <1>2, <1>3, <1>4
<1> QED BY <1>4, <1>5 DEF n, p, m

-----------------------------------------------------------------------------
(* A value and its halves.                                                   *)
LEMMA Halves ==
  ASSUME NEW v \in Nat
  PROVE  /\ Lo(v) \in 0..(Half - 1) /\ Hi(v) \in Nat /\ v = Half * Hi(v) + Lo(v)
         /\ v < U64 => Hi(v) < Half
<1>1. Lo(v) \in 0..(Half - 1) /\ Hi(v) \in Nat /\ v = Half * Hi(v) + Lo(v)
  BY ClockAssumption, DivMod DEF Lo, Hi
<1>2. CASE Hi(v) < Half
  BY <1>1, <1>2
<1>3. CASE ~ (Hi(v) < Half)
  <2>1. Half * Half <= Half * Hi(v)
    <3>1. CASE Hi(v) = Half
      BY <3>1, ClockAssumption
    <3>2. CASE Half < Hi(v)
      BY <1>1, <3>2, ClockAssumption, Multiples
    <3> QED BY <1>1, <1>3, <3>1, <3>2, ClockAssumption
  <2>2. Half * Hi(v) \in Nat /\ Half * Half \in Nat
    BY <1>1, ClockAssumption
  <2>3. U64 <= v
    BY <1>1, <2>1, <2>2 DEF U64
  <2> QED BY <1>1, <2>2, <2>3 DEF U64
<1> QED BY <1>2, <1>3

(* Two halves make one value, which has them.                                *)
LEMMA FromHalves ==
  ASSUME NEW h \in 0..(Half - 1), NEW l \in 0..(Half - 1)
  PROVE  /\ Half * h + l \in 0..(U64 - 1)
         /\ Hi(Half * h + l) = h /\ Lo(Half * h + l) = l
<1>1. Hi(Half * h + l) = h /\ Lo(Half * h + l) = l
  BY ClockAssumption, DivModUnique DEF Hi, Lo
<1>2. Half * h \in Nat /\ Half * Half \in Nat /\ Half * h + Half <= Half * Half
  <2>1. h \in Int /\ Half \in Int /\ h < Half
    BY ClockAssumption
  <2>2. Half * h \in Nat /\ Half * Half \in Nat
    BY ClockAssumption
  <2> QED BY <2>1, <2>2, ClockAssumption, Multiples
<1>3. Half * h + l \in 0..(U64 - 1)
  BY <1>2, ClockAssumption DEF U64
<1> QED BY <1>1, <1>3

(* A store of one half leaves the other as it is.                            *)
LEMMA StoreHalf ==
  ASSUME NEW v \in 0..(U64 - 1), NEW n \in 0..(U64 - 1), NEW w \in Offsets
  PROVE  LET x == Part(w, n) + v - Part(w, v) IN
         /\ x \in 0..(U64 - 1)
         /\ w = "offset_lo" => Lo(x) = Lo(n) /\ Hi(x) = Hi(v)
         /\ w = "offset_hi" => Lo(x) = Lo(v) /\ Hi(x) = Hi(n)
<1> DEFINE x == Part(w, n) + v - Part(w, v)
<1>1. U64 \in Nat /\ v \in Nat /\ n \in Nat /\ v < U64 /\ n < U64
  BY ClockAssumption DEF U64
<1>2. /\ Lo(v) \in 0..(Half - 1) /\ Hi(v) \in 0..(Half - 1) /\ v = Half * Hi(v) + Lo(v)
      /\ Lo(n) \in 0..(Half - 1) /\ Hi(n) \in 0..(Half - 1) /\ n = Half * Hi(n) + Lo(n)
  BY <1>1, Halves, ClockAssumption
<1>3. CASE w = "offset_lo"
  <2>1. x = Half * Hi(v) + Lo(n)
    <3>1. x = Lo(n) + v - Lo(v)
      BY <1>3 DEF Part
    <3>2. Half * Hi(v) \in Int
      BY <1>2, ClockAssumption
    <3> HIDE DEF x
    <3> QED BY <1>2, <3>1, <3>2, ClockAssumption
  <2> HIDE DEF x
  <2> QED BY <1>2, <1>3, <2>1, FromHalves DEF x
<1>4. CASE w = "offset_hi"
  <2>1. x = Half * Hi(n) + Lo(v)
    <3>1. x = Half * Hi(n) + v - Half * Hi(v)
      BY <1>4 DEF Part
    <3>2. Half * Hi(v) \in Int /\ Half * Hi(n) \in Int
      BY <1>2, ClockAssumption
    <3> HIDE DEF x
    <3> QED BY <1>2, <3>1, <3>2, ClockAssumption
  <2> HIDE DEF x
  <2> QED BY <1>2, <1>4, <2>1, FromHalves DEF x
<1> QED BY <1>3, <1>4 DEF Offsets

(* What is subtracted modulo m and added again.                              *)
LEMMA AddBack ==
  ASSUME NEW m \in Nat \ {0}, NEW x \in Int, NEW c \in Int, c + x \in 0..(m - 1)
  PROVE  (c + (x % m)) % m = c + x
<1> DEFINE k == x \div m
           r == x % m
<1>1. k \in Int /\ r \in 0..(m - 1) /\ x = m * k + r
  BY DivMod
<1> HIDE DEF k, r
<1>2. m * k \in Int /\ m * (- k) = - (m * k)
  BY <1>1
<1>3. c + r = m * (- k) + (c + x)
  BY <1>1, <1>2
<1>4. (m * (- k) + (c + x)) % m = c + x
  <2>1. (- k) \in Int
    BY <1>1
  <2> QED BY <2>1, DivModUnique
<1> QED BY <1>3, <1>4 DEF r

(* A time whose seconds fit is told to the microsecond.                      *)
LEMMA Told ==
  ASSUME NEW v \in Nat, v < Half * Million
  PROVE  Microseconds(Timespec(v)) = v
<1> DEFINE s == v \div Million
           u == v % Million
<1>1. s \in Nat /\ u \in 0..(Million - 1) /\ v = Million * s + u
  <2>1. v \in Int /\ Million \in Nat \ {0}
    BY ClockAssumption
  <2> QED BY <2>1, DivMod
<1> HIDE DEF s, u
<1>2. Million * s \in Nat /\ Half * Million = Million * Half /\ Million * Half \in Nat
  BY <1>1, ClockAssumption
<1>3. s < Half
  <2> SUFFICES ASSUME ~ (s < Half) PROVE Million * Half <= Million * s
    BY <1>1, <1>2, ClockAssumption
  <2>1. CASE s = Half
    BY <1>2, <2>1
  <2>2. CASE Half < s
    BY <1>1, <2>2, ClockAssumption, Multiples
  <2> QED BY <1>1, <2>1, <2>2, ClockAssumption
<1>4. s % Half = s
  BY <1>1, <1>3, ClockAssumption
<1>5. Microseconds(Timespec(v)) = (s % Half) * Million + u
  BY DEF Microseconds, Timespec, s, u
<1>6. s * Million = Million * s
  BY <1>1, ClockAssumption
<1> QED BY <1>1, <1>2, <1>4, <1>5, <1>6

-----------------------------------------------------------------------------
(* What a load adds to the halves a call has.                                *)
LEMMA LoadKeepsTime ==
  ASSUME ClockTypes, NEW t \in Thread, NEW w \in th[t].todo \cap Clocks,
         th[t].from <= clock, OneTime(th[t])
  PROVE  OneTime([th[t] EXCEPT !.todo = @ \ {w}, !.loaded = @ + Part(w, clock)])
<1> DEFINE c == th[t]
           d == [c EXCEPT !.todo = @ \ {w}, !.loaded = @ + Part(w, clock)]
<1>1. /\ c \in CallType /\ clock \in Nat
      /\ d.todo = c.todo \ {w} /\ d.loaded = c.loaded + Part(w, clock) /\ d.from = c.from
  BY DEF ClockTypes, CallType
<1>2. /\ Lo(clock) \in 0..(Half - 1) /\ Hi(clock) \in Nat /\ clock = Half * Hi(clock) + Lo(clock)
  BY <1>1, Halves
<1>3. /\ w = "clock_lo" => Part(w, clock) = Lo(clock)
      /\ w = "clock_hi" => Part(w, clock) = Half * Hi(clock)
  BY DEF Part
<1>4. Half * Hi(clock) \in Nat /\ Lo(clock) \in Nat
  BY <1>2, ClockAssumption
<1>5. c.from \in Nat /\ c.from <= clock
  BY <1>1 DEF CallType
<1> HIDE DEF d
<1>6. CASE c.todo \cap Clocks = Clocks
  <2>1. c.loaded = 0
    BY <1>6 DEF OneTime
  <2>2. CASE w = "clock_lo"
    <3>1. d.todo \cap Clocks = {"clock_hi"} /\ d.loaded = Lo(clock)
      BY <1>1, <1>3, <1>4, <1>6, <2>1, <2>2 DEF Clocks
    <3>2. clock \in d.from..clock
      BY <1>1, <1>5
    <3> QED BY <3>1, <3>2 DEF OneTime, Clocks, d
  <2>3. CASE w = "clock_hi"
    <3>1. d.todo \cap Clocks = {"clock_lo"} /\ d.loaded = Half * Hi(clock)
      BY <1>1, <1>3, <1>4, <1>6, <2>1, <2>3 DEF Clocks
    <3> QED BY <3>1 DEF OneTime, Clocks, d
  <2> QED BY <2>2, <2>3 DEF Clocks
<1>7. CASE c.todo \cap Clocks = {w}
  <2>1. d.todo \cap Clocks = {}
    BY <1>1, <1>7
  <2>2. d.loaded \in c.from..clock
    <3>1. CASE w = "clock_lo"
      <4>1. c.loaded = Half * Hi(clock)
        BY <1>7, <3>1 DEF OneTime
      <4>2. d.loaded = clock
        BY <1>1, <1>2, <1>3, <3>1, <4>1
      <4> QED BY <1>1, <1>5, <4>2
    <3>2. CASE w = "clock_hi"
      <4>1. PICK v \in c.from..clock : Hi(v) = Hi(clock) /\ c.loaded = Lo(v)
        BY <1>7, <3>2 DEF OneTime
      <4>2. v \in Nat /\ v = Half * Hi(v) + Lo(v) /\ Lo(v) \in Nat
        BY <1>5, Halves
      <4>3. d.loaded = Lo(v) + Half * Hi(v)
        BY <1>1, <1>3, <3>2, <4>1
      <4>4. d.loaded = v
        BY <1>4, <4>1, <4>2, <4>3
      <4> QED BY <4>4
    <3> QED BY <3>1, <3>2 DEF Clocks
  <2> QED BY <1>1, <2>1, <2>2 DEF OneTime, Clocks, d
<1> QED BY <1>6, <1>7 DEF Clocks

-----------------------------------------------------------------------------
(* A call that does not move stays as it is, or is mixed.                    *)
Stays(t) ==
  /\ th'[t].op = th[t].op /\ th'[t].todo = th[t].todo /\ th'[t].loaded = th[t].loaded
  /\ th'[t].off = th[t].off /\ th'[t].time = th[t].time /\ th'[t].asked = th[t].asked
  /\ th'[t].from = th[t].from
  /\ th[t].mixed => th'[t].mixed

(* Of such a call the invariant keeps what it says of the offset,            *)
LEMMA StaysOffset ==
  ASSUME NEW t \in Thread, Stays(t), offset' = offset, OffsetOf(t)
  PROVE  OffsetOf(t)'
<1>1. NewOffset(t)' = NewOffset(t)
  BY DEF NewOffset, Stays
<1>2. /\ Clean(th[t], "real")' => Clean(th[t], "real")
      /\ Clean(th[t], "set")' => Clean(th[t], "set")
  BY DEF Clean, Stays
<1>3. /\ th[t].op' = th[t].op /\ th[t].todo' = th[t].todo /\ th[t].off' = th[t].off
      /\ th[t].time' = th[t].time /\ th[t].asked' = th[t].asked
  BY DEF Stays
<1> QED BY <1>1, <1>2, <1>3 DEF OffsetOf

(* what it says of the time, while the clock stays,                          *)
LEMMA StaysTime ==
  ASSUME NEW t \in Thread, Stays(t), clock' = clock, TimeOf(t)
  PROVE  TimeOf(t)'
<1>1. OneTime(th[t]) => OneTime(th[t])'
  BY DEF OneTime, Stays
<1> QED BY <1>1 DEF TimeOf, Stays

(* and that it does not mix with another.                                    *)
LEMMA StaysApart ==
  ASSUME NEW t \in Thread, NEW u \in Thread, ApartInv, Stays(t), Stays(u),
         t # u, th'[t].op # "idle", th'[u].op # "idle", ~ th'[t].mixed
  PROVE  ~ Mixes(th'[t].op, th'[u].op)
BY DEF ApartInv, Stays

(* What is known of the offset stays known while no call starts to set it.   *)
LEMMA SetStays ==
  ASSUME ClockTypes, clock \in Nat, clock' \in Nat, clock <= clock', SetInv,
         UNCHANGED <<offset, set>>,
         \A t \in Thread : Clean(th'[t], "real") =>
            \/ Clean(th[t], "real") /\ th'[t].from = th[t].from
            \/ th'[t].from = clock,
         (\A t \in Thread : th'[t].op # "set") => (\A t \in Thread : th[t].op # "set")
  PROVE  SetInv'
<1>1. set.from \in Nat /\ set.to \in Nat
  BY DEF ClockTypes
<1>2. set.from <= set.to /\ set.to <= clock'
  BY <1>1 DEF SetInv
<1>3. \A t \in Thread : Clean(th'[t], "real") => set.to <= th'[t].from
  BY DEF SetInv
<1> QED BY <1>2, <1>3 DEF SetInv, Clean

(* A call begins.                                                            *)
LEMMA BeginStep ==
  ASSUME ClockInv, NEW t \in Thread, th[t].op = "idle",
         NEW call \in CallType, call.op # "idle", call.loaded = 0, call.off = 0,
         Clocks \subseteq call.todo, call.op # "mono" => Offsets \subseteq call.todo,
         call.op = "set" /\ 2 * call.asked < Half => call.time = call.asked,
         Begin(t, call)
  PROVE  ClockInv'
<1> DEFINE Mixed == \E v \in Thread \ {t} : th[v].op # "idle" /\ Mixes(call.op, th[v].op)
<1> HIDE DEF Mixed
<1>1. th' = [u \in Thread |->
        IF u = t THEN [call EXCEPT !.from = clock, !.mixed = Mixed]
        ELSE IF th[u].op # "idle" /\ Mixes(call.op, th[u].op)
        THEN [th[u] EXCEPT !.mixed = TRUE] ELSE th[u]]
  BY DEF Begin, Mixed
<1>2. UNCHANGED <<clock, offset, set>>
  BY DEF Begin
<1>3. Mixed \in BOOLEAN /\ clock \in Nat
  BY DEF Mixed, ClockInv, ClockTypes
<1>4. /\ th'[t].op = call.op /\ th'[t].todo = call.todo /\ th'[t].loaded = 0
      /\ th'[t].off = 0 /\ th'[t].time = call.time /\ th'[t].asked = call.asked
      /\ th'[t].from = clock /\ (th'[t].mixed <=> Mixed)
  BY <1>1, <1>3 DEF CallType
<1>5. ASSUME NEW u \in Thread, u # t
      PROVE  /\ Stays(u) /\ th'[u] \in CallType
             /\ th[u].op # "idle" /\ Mixes(call.op, th[u].op) => th'[u].mixed
  <2>1. th[u] \in CallType
    BY DEF ClockInv, ClockTypes
  <2>2. th'[u] = IF th[u].op # "idle" /\ Mixes(call.op, th[u].op)
                 THEN [th[u] EXCEPT !.mixed = TRUE] ELSE th[u]
    BY <1>1, <1>5
  <2>3. CASE th[u].op # "idle" /\ Mixes(call.op, th[u].op)
    <3>1. th'[u] = [th[u] EXCEPT !.mixed = TRUE]
      BY <2>2, <2>3
    <3> QED BY <2>1, <3>1 DEF Stays, CallType
  <2>4. CASE ~ (th[u].op # "idle" /\ Mixes(call.op, th[u].op))
    <3>1. th'[u] = th[u]
      BY <2>2, <2>4
    <3> QED BY <2>1, <2>4, <3>1 DEF Stays
  <2> QED BY <2>3, <2>4
<1>6. ClockTypes'
  <2>1. th'[t] \in CallType
    <3>1. th'[t] = [call EXCEPT !.from = clock, !.mixed = Mixed]
      BY <1>1
    <3> QED BY <1>3, <3>1 DEF CallType
  <2>2. \A u \in Thread : th'[u] \in CallType
    BY <1>5, <2>1
  <2>3. th' \in [Thread -> CallType]
    <3>1. th' = [u \in Thread |-> th'[u]]
      BY <1>1
    <3> QED BY <2>2, <3>1
  <2> QED BY <1>2, <2>3 DEF ClockInv, ClockTypes
<1>7. ApartInv'
  <2> SUFFICES ASSUME NEW u \in Thread, NEW v \in Thread, u # v,
                      th'[u].op # "idle", th'[v].op # "idle", ~ th'[u].mixed
               PROVE  ~ Mixes(th'[u].op, th'[v].op)
    BY DEF ApartInv
  <2>1. CASE u = t
    <3>1. v \in Thread \ {t} /\ th'[v].op = th[v].op /\ ~ Mixed
      BY <1>4, <1>5, <2>1 DEF Stays
    <3> QED BY <1>4, <2>1, <3>1 DEF Mixed
  <2>2. CASE v = t
    <3>1. th'[u].op = th[u].op /\ ~ Mixes(call.op, th[u].op)
      BY <1>5, <2>2 DEF Stays
    <3> QED BY <1>4, <2>2, <3>1 DEF Mixes
  <2>3. CASE u # t /\ v # t
    BY <1>5, <2>3, StaysApart DEF ClockInv
  <2> QED BY <2>1, <2>2, <2>3
<1>8. SetInv'
  <2>1. \A u \in Thread : Clean(th'[u], "real") =>
            \/ Clean(th[u], "real") /\ th'[u].from = th[u].from
            \/ th'[u].from = clock
    BY <1>4, <1>5 DEF Clean, Stays
  <2>2. (\A u \in Thread : th'[u].op # "set") => (\A u \in Thread : th[u].op # "set")
    <3>1. \A u \in Thread : u = t \/ th'[u].op = th[u].op
      BY <1>5 DEF Stays
    <3> QED BY <3>1
  <2>3. clock' \in Nat /\ clock <= clock'
    BY <1>2, <1>3
  <2> QED BY <1>2, <1>3, <2>1, <2>2, <2>3, SetStays DEF ClockInv
<1>9. ASSUME NEW u \in Thread
      PROVE  TimeOf(u)' /\ OffsetOf(u)'
  <2>1. CASE u # t
    BY <1>2, <1>5, <2>1, StaysTime, StaysOffset DEF ClockInv
  <2>2. CASE u = t
    <3>1. TimeOf(t)'
      <4>1. th'[t].todo \cap Clocks = Clocks
        BY <1>4
      <4>2. OneTime(th[t])'
        BY <1>4, <4>1 DEF OneTime, Clocks
      <4>3. th'[t].from <= clock'
        BY <1>2, <1>3, <1>4
      <4> QED BY <4>2, <4>3 DEF TimeOf
    <3>2. OffsetOf(t)'
      <4>1. th'[t].op # "mono" => "offset_lo" \in th'[t].todo /\ "offset_hi" \in th'[t].todo
        BY <1>4 DEF Offsets
      <4> QED BY <1>4, <4>1 DEF OffsetOf, Clean, Offsets
    <3> QED BY <2>2, <3>1, <3>2
  <2> QED BY <2>1, <2>2
<1> QED BY <1>6, <1>7, <1>8, <1>9 DEF ClockInv

-----------------------------------------------------------------------------
(* The steps.                                                                *)

(* The kernel counts on: a carry marks the calls that have one half.         *)
LEMMA TickStep ==
  ASSUME ClockInv, Tick
  PROVE  ClockInv'
<1>1. UNCHANGED <<offset, set>> /\ clock' = clock + 1 /\ clock < MaxClock /\ clock \in Nat
  BY DEF Tick, ClockInv, ClockTypes
<1>2. clock' \in Nat /\ clock <= clock' /\ clock' <= MaxClock
  BY <1>1, ClockAssumption
<1>3. ASSUME NEW t \in Thread
      PROVE  /\ Stays(t) /\ th'[t] \in CallType
             /\ ~ th'[t].mixed /\ OneClockHalf(t) => Hi(clock') = Hi(clock)
  <2>1. th[t] \in CallType
    BY DEF ClockInv, ClockTypes
  <2>2. th'[t] = IF OneClockHalf(t) /\ Hi(clock') # Hi(clock)
                 THEN [th[t] EXCEPT !.mixed = TRUE] ELSE th[t]
    BY DEF Tick
  <2>3. CASE OneClockHalf(t) /\ Hi(clock') # Hi(clock)
    <3>1. th'[t] = [th[t] EXCEPT !.mixed = TRUE]
      BY <2>2, <2>3
    <3> QED BY <2>1, <3>1 DEF Stays, CallType
  <2>4. CASE ~ (OneClockHalf(t) /\ Hi(clock') # Hi(clock))
    <3>1. th'[t] = th[t]
      BY <2>2, <2>4
    <3> QED BY <2>1, <2>4, <3>1 DEF Stays
  <2> QED BY <2>3, <2>4
<1>4. ClockTypes'
  <2>1. th' \in [Thread -> CallType]
    <3>1. th' = [t \in Thread |-> th'[t]]
      BY DEF Tick
    <3> QED BY <1>3, <3>1
  <2> QED BY <1>1, <1>2, <2>1 DEF ClockInv, ClockTypes
<1>5. ApartInv'
  <2> SUFFICES ASSUME NEW t \in Thread, NEW u \in Thread, t # u,
                      th'[t].op # "idle", th'[u].op # "idle", ~ th'[t].mixed
               PROVE  ~ Mixes(th'[t].op, th'[u].op)
    BY DEF ApartInv
  <2> QED BY <1>3, StaysApart DEF ClockInv
<1>6. SetInv'
  <2>1. \A t \in Thread : Clean(th'[t], "real") =>
          \/ Clean(th[t], "real") /\ th'[t].from = th[t].from
          \/ th'[t].from = clock
    BY <1>3 DEF Clean, Stays
  <2>2. (\A t \in Thread : th'[t].op # "set") => (\A t \in Thread : th[t].op # "set")
    BY <1>3 DEF Stays
  <2> QED BY <1>1, <1>2, <2>1, <2>2, SetStays DEF ClockInv
<1>7. ASSUME NEW t \in Thread, th'[t].op # "idle"
      PROVE  th'[t].from <= clock' /\ (~ th'[t].mixed => OneTime(th[t])')
  <2>1. Stays(t) /\ th[t].op # "idle" /\ th[t] \in CallType
    BY <1>3, <1>7 DEF Stays, ClockInv, ClockTypes
  <2>2. th[t].from \in Nat /\ th[t].from <= clock
    BY <2>1 DEF ClockInv, TimeOf, CallType
  <2>3. ASSUME ~ th'[t].mixed
        PROVE  OneTime(th[t])'
    <3>1. OneTime(th[t])
      BY <2>1, <2>3 DEF ClockInv, TimeOf, Stays
    <3>2. OneClockHalf(t) => Hi(clock') = Hi(clock)
      BY <1>3, <2>3
    <3>3. \A v : v \in th[t].from..clock => v \in th[t].from..clock'
      BY <1>1, <2>2
    <3>4. CASE OneClockHalf(t)
      BY <2>1, <3>1, <3>2, <3>3, <3>4 DEF OneTime, Stays
    <3>5. CASE ~ OneClockHalf(t)
      BY <2>1, <3>1, <3>3, <3>5 DEF OneTime, Stays, OneClockHalf
    <3> QED BY <3>4, <3>5
  <2> QED BY <1>1, <1>2, <2>1, <2>2, <2>3 DEF Stays
<1>8. \A t \in Thread : TimeOf(t)' /\ OffsetOf(t)'
  BY <1>1, <1>3, <1>7, StaysOffset DEF ClockInv, TimeOf
<1> QED BY <1>4, <1>5, <1>6, <1>8 DEF ClockInv

(* Nothing the invariant speaks of changes.                                  *)
LEMMA ClockStutters ==
  ASSUME ClockInv, UNCHANGED <<clock, offset, th, set>>
  PROVE  ClockInv'
BY DEF ClockInv, ClockTypes, ApartInv, SetInv, TimeOf, OneTime, OffsetOf, NewOffset

(* A long keeps a time of less than half its range.                          *)
LEMMA LongTime ==
  ASSUME NEW n \in Nat
  PROVE  FromLong(n) \in Nat /\ (2 * n < Half => FromLong(n) = n)
<1>1. n % Half \in 0..(Half - 1) /\ (2 * n < Half => n % Half = n)
  BY ClockAssumption
<1>2. U64 \in Nat /\ Half <= U64
  <2>1. Half * Half \in Nat
    BY ClockAssumption
  <2>2. CASE Half = 1
    BY <2>2 DEF U64
  <2>3. CASE 1 < Half
    <3>1. Half * 1 + Half <= Half * Half
      BY <2>3, ClockAssumption, Multiples
    <3> QED BY <2>1, <3>1, ClockAssumption DEF U64
  <2> QED BY <2>1, <2>2, <2>3, ClockAssumption DEF U64
<1> QED BY <1>1, <1>2, ClockAssumption DEF FromLong

(* clock_gettime begins a read, or is refused, or calls what is not there,   *)
LEMMA GettimeStep ==
  ASSUME ClockInv, NEW t \in Thread, NEW id \in ClockId, clock_gettime(t, id)
  PROVE  ClockInv'
<1> DEFINE real == [Idle EXCEPT !.op = "real", !.todo = Word]
           mono == [Idle EXCEPT !.op = "mono", !.todo = Clocks]
<1>1. th[t].op = "idle" /\ id \in Int
  BY ClockAssumption DEF clock_gettime, Ready
<1>2. CASE id = 0
  <2>1. Begin(t, real)
    BY <1>2 DEF clock_gettime
  <2>2. /\ real \in CallType /\ real.op = "real" /\ real.loaded = 0 /\ real.off = 0
        /\ real.todo = Word
    BY DEF CallType, Idle
  <2>3. Clocks \subseteq real.todo /\ Offsets \subseteq real.todo
    BY <2>2 DEF Word, Clocks, Offsets
  <2> HIDE DEF real
  <2> QED BY <1>1, <2>1, <2>2, <2>3, BeginStep
<1>3. CASE id = 1
  <2>1. Begin(t, mono)
    BY <1>3 DEF clock_gettime
  <2>2. /\ mono \in CallType /\ mono.op = "mono" /\ mono.loaded = 0 /\ mono.off = 0
        /\ mono.todo = Clocks
    BY DEF CallType, Idle, Word, Clocks
  <2> HIDE DEF mono
  <2> QED BY <1>1, <2>1, <2>2, BeginStep
<1>4. CASE id > 1
  <2>1. ~ (id = 0) /\ ~ (id = 1) /\ ~ (id < 0)
    BY <1>1, <1>4
  <2>2. NoDevice
    BY <1>4, <2>1, Zenon DEF clock_gettime
  <2> QED BY <2>2, ClockStutters DEF NoDevice
<1>5. CASE id < 0
  <2>1. ~ (id = 0) /\ ~ (id = 1) /\ ~ (id > 1)
    BY <1>1, <1>5
  <2>2. Wild \/ NoDevice
    BY <1>5, <2>1, Zenon DEF clock_gettime
  <2> QED BY <2>2, ClockStutters DEF Wild, NoDevice
<1> QED BY <1>1, <1>2, <1>3, <1>4, <1>5

(* and so does clock_settime.                                                *)
LEMMA SettimeStep ==
  ASSUME ClockInv, NEW t \in Thread, NEW id \in ClockId, NEW sec \in Second,
         clock_settime(t, id, sec, Million - 1)
  PROVE  ClockInv'
<1> DEFINE asked == sec * Million + (Million - 1)
           call == [Idle EXCEPT !.op = "set", !.todo = Word,
                                !.asked = asked, !.time = FromLong(asked)]
<1>1. th[t].op = "idle" /\ id \in Int
  BY ClockAssumption DEF clock_settime, Ready
<1>2. asked \in Nat
  <2>1. sec \in Nat /\ Million - 1 \in Nat /\ sec * Million \in Nat
    BY ClockAssumption
  <2> QED BY <2>1
<1> HIDE DEF asked
<1>3. CASE id = 0
  <2>1. Begin(t, call)
    BY <1>3 DEF clock_settime, asked
  <2>2. FromLong(asked) \in Nat /\ (2 * asked < Half => FromLong(asked) = asked)
    BY <1>2, LongTime
  <2>3. /\ call \in CallType /\ call.op = "set" /\ call.loaded = 0 /\ call.off = 0
        /\ call.todo = Word /\ call.asked = asked /\ call.time = FromLong(asked)
    BY <1>2, <2>2 DEF CallType, Idle
  <2>4. Clocks \subseteq call.todo /\ Offsets \subseteq call.todo
    BY <2>3 DEF Word, Clocks, Offsets
  <2> HIDE DEF call
  <2> QED BY <1>1, <2>1, <2>2, <2>3, <2>4, BeginStep
<1>4. CASE id > 0
  <2>1. ~ (id = 0) /\ ~ (id < 0)
    BY <1>1, <1>4
  <2>2. NoDevice
    BY <1>4, <2>1, Zenon DEF clock_settime
  <2> QED BY <2>2, ClockStutters DEF NoDevice
<1>5. CASE id < 0
  <2>1. ~ (id = 0) /\ ~ (id > 0)
    BY <1>1, <1>5
  <2>2. Wild \/ NoDevice
    BY <1>5, <2>1, Zenon DEF clock_settime
  <2> QED BY <2>2, ClockStutters DEF Wild, NoDevice
<1> QED BY <1>1, <1>3, <1>4, <1>5

(* One thread's call moves on or ends.                                       *)
Moves(t, c) ==
  /\ c \in CallType /\ th' = [th EXCEPT ![t] = c]
  /\ c.op = "idle" \/ (c.op = th[t].op /\ (c.mixed <=> th[t].mixed))

(* Then the others are as before, and it mixes with no new one.              *)
LEMMA MoveStep ==
  ASSUME ClockInv, NEW t \in Thread, NEW c, Moves(t, c)
  PROVE  /\ th' \in [Thread -> CallType] /\ th'[t] = c /\ ApartInv'
         /\ \A u \in Thread \ {t} : /\ th'[u] = th[u] /\ Stays(u)
                                    /\ clock' = clock => TimeOf(u)'
                                    /\ offset' = offset => OffsetOf(u)'
<1>1. th \in [Thread -> CallType]
  BY DEF ClockInv, ClockTypes
<1>2. /\ th' \in [Thread -> CallType] /\ th'[t] = c
      /\ \A u \in Thread \ {t} : th'[u] = th[u]
  BY <1>1 DEF Moves
<1>3. ASSUME NEW u \in Thread \ {t}
      PROVE  /\ Stays(u) /\ (clock' = clock => TimeOf(u)')
             /\ (offset' = offset => OffsetOf(u)')
  <2>1. Stays(u) /\ TimeOf(u) /\ OffsetOf(u)
    BY <1>2 DEF Stays, ClockInv
  <2> QED BY <2>1, StaysTime, StaysOffset
<1>4. ApartInv'
  <2> SUFFICES ASSUME NEW u \in Thread, NEW v \in Thread, u # v,
                      th'[u].op # "idle", th'[v].op # "idle", ~ th'[u].mixed
               PROVE  ~ Mixes(th'[u].op, th'[v].op)
    BY DEF ApartInv
  <2>1. th'[u].op = th[u].op /\ th'[v].op = th[v].op /\ ~ th[u].mixed
    BY <1>2 DEF Moves
  <2> QED BY <2>1 DEF ClockInv, ApartInv
<1> QED BY <1>2, <1>3, <1>4

(* The loads.                                                                *)
LEMMA LoadClockStep ==
  ASSUME ClockInv, NEW t \in Thread, NEW w \in Word, LoadClock(t, w)
  PROVE  ClockInv'
<1> DEFINE c == [th[t] EXCEPT !.todo = @ \ {w}, !.loaded = @ + Part(w, clock)]
<1>1. UNCHANGED <<clock, offset, set>> /\ w \in th[t].todo \cap Clocks
  BY DEF LoadClock
<1>2. th[t] \in CallType /\ th \in [Thread -> CallType] /\ ClockTypes /\ clock \in Nat
  BY DEF ClockInv, ClockTypes
<1>3. Part(w, clock) \in Nat
  <2>1. Lo(clock) \in Nat /\ Hi(clock) \in Nat /\ Half * Hi(clock) \in Nat
    <3>1. Lo(clock) \in Nat /\ Hi(clock) \in Nat
      BY <1>2, Halves, ClockAssumption
    <3> QED BY <3>1, ClockAssumption
  <2> QED BY <2>1 DEF Part
<1>4. /\ c \in CallType /\ c.op = th[t].op /\ c.todo = th[t].todo \ {w}
      /\ c.off = th[t].off /\ c.time = th[t].time /\ c.asked = th[t].asked
      /\ c.from = th[t].from /\ (c.mixed <=> th[t].mixed)
  <2>1. th[t].todo \ {w} \in SUBSET Word /\ th[t].loaded + Part(w, clock) \in Nat
    BY <1>2, <1>3 DEF CallType
  <2> QED BY <1>2, <2>1 DEF CallType
<1>5. th' = [th EXCEPT ![t] = c]
  BY <1>2 DEF LoadClock
<1>6. OneTime(th[t]) /\ th[t].from <= clock => OneTime(c)
  BY <1>1, <1>2, LoadKeepsTime
<1> HIDE DEF c
<1>7. Moves(t, c)
  BY <1>4, <1>5 DEF Moves
<1>8. /\ th' \in [Thread -> CallType] /\ th'[t] = c /\ ApartInv'
      /\ \A u \in Thread \ {t} : Stays(u) /\ TimeOf(u)' /\ OffsetOf(u)'
  BY <1>1, <1>7, MoveStep
<1>9. SetInv'
  <2>1. \A u \in Thread : Clean(th'[u], "real") =>
          \/ Clean(th[u], "real") /\ th'[u].from = th[u].from
          \/ th'[u].from = clock
    BY <1>4, <1>8 DEF Clean, Stays
  <2>2. (\A u \in Thread : th'[u].op # "set") => (\A u \in Thread : th[u].op # "set")
    BY <1>4, <1>8 DEF Stays
  <2>3. clock' \in Nat /\ clock <= clock'
    BY <1>1, <1>2
  <2> QED BY <1>1, <1>2, <2>1, <2>2, <2>3, SetStays DEF ClockInv
<1>10. TimeOf(t)'
  <2>1. OneTime(c) => OneTime(th[t])'
    BY <1>1, <1>8 DEF OneTime
  <2> QED BY <1>1, <1>4, <1>6, <1>8, <2>1 DEF ClockInv, TimeOf
<1>11. OffsetOf(t)'
  <2>1. OffsetOf(t) /\ Offsets \cap Clocks = {}
    BY DEF ClockInv, Offsets, Clocks
  <2>2. \A o \in Offsets : o \in c.todo <=> o \in th[t].todo
    BY <1>1, <1>4, <2>1
  <2>3. "offset_lo" \in Offsets /\ "offset_hi" \in Offsets
    BY DEF Offsets
  <2>4. th[t].op = "set" => Offsets \subseteq c.todo
    BY <1>1, <2>1, <2>2 DEF OffsetOf
  <2> QED BY <1>1, <1>4, <1>8, <2>1, <2>2, <2>3, <2>4 DEF OffsetOf, Clean
<1>12. ClockTypes'
  BY <1>1, <1>2, <1>8 DEF ClockTypes
<1>13. \A u \in Thread : TimeOf(u)' /\ OffsetOf(u)'
  BY <1>8, <1>10, <1>11
<1> QED BY <1>8, <1>9, <1>12, <1>13 DEF ClockInv

(* The offset is only added to once per half.                                *)
LEMMA LoadOffsetStep ==
  ASSUME ClockInv, NEW t \in Thread, NEW w \in Word, LoadOffset(t, w)
  PROVE  ClockInv'
<1> DEFINE c == [th[t] EXCEPT !.todo = @ \ {w}, !.off = @ + Part(w, offset)]
<1>1. /\ UNCHANGED <<clock, offset, set>> /\ w \in th[t].todo \cap Offsets
      /\ th[t].op = "real"
  BY DEF LoadOffset
<1>2. th[t] \in CallType /\ th \in [Thread -> CallType] /\ ClockTypes /\ clock \in Nat
  BY DEF ClockInv, ClockTypes
<1>3. /\ w = "offset_lo" => Part(w, offset) = Lo(offset)
      /\ w = "offset_hi" => Part(w, offset) = Half * Hi(offset)
      /\ Lo(offset) \in Nat /\ Half * Hi(offset) \in Nat
  <2>1. offset \in Nat
    BY <1>2, ClockAssumption DEF ClockTypes, U64
  <2>2. Lo(offset) \in Nat /\ Hi(offset) \in Nat
    BY <2>1, Halves, ClockAssumption
  <2> QED BY <2>2, ClockAssumption DEF Part
<1>4. /\ c \in CallType /\ c.op = th[t].op /\ c.todo = th[t].todo \ {w}
      /\ c.off = th[t].off + Part(w, offset) /\ c.loaded = th[t].loaded
      /\ c.from = th[t].from /\ (c.mixed <=> th[t].mixed)
  <2>1. th[t].todo \ {w} \in SUBSET Word /\ th[t].off + Part(w, offset) \in Nat
    BY <1>1, <1>2, <1>3 DEF CallType, Offsets
  <2> QED BY <1>2, <2>1 DEF CallType
<1>5. th' = [th EXCEPT ![t] = c]
  BY <1>2 DEF LoadOffset
<1> HIDE DEF c
<1>7. Moves(t, c)
  BY <1>4, <1>5 DEF Moves
<1>8. /\ th' \in [Thread -> CallType] /\ th'[t] = c /\ ApartInv'
      /\ \A u \in Thread \ {t} : Stays(u) /\ TimeOf(u)' /\ OffsetOf(u)'
  BY <1>1, <1>7, MoveStep
<1>9. SetInv'
  <2>1. \A u \in Thread : Clean(th'[u], "real") =>
          \/ Clean(th[u], "real") /\ th'[u].from = th[u].from
          \/ th'[u].from = clock
    BY <1>4, <1>8 DEF Clean, Stays
  <2>2. (\A u \in Thread : th'[u].op # "set") => (\A u \in Thread : th[u].op # "set")
    BY <1>4, <1>8 DEF Stays
  <2>3. clock' \in Nat /\ clock <= clock'
    BY <1>1, <1>2
  <2> QED BY <1>1, <1>2, <2>1, <2>2, <2>3, SetStays DEF ClockInv
<1>10. TimeOf(t)'
  <2>1. c.todo \cap Clocks = th[t].todo \cap Clocks
    BY <1>1, <1>4 DEF Clocks, Offsets
  <2>2. OneTime(th[t]) => OneTime(th[t])'
    BY <1>1, <1>4, <1>8, <2>1 DEF OneTime
  <2> QED BY <1>1, <1>4, <1>8, <2>2 DEF ClockInv, TimeOf
<1>11. OffsetOf(t)'
  <2> SUFFICES ASSUME ~ th[t].mixed
               PROVE  c.off = (IF "offset_lo" \in c.todo THEN 0 ELSE Lo(offset))
                                + (IF "offset_hi" \in c.todo THEN 0 ELSE Half * Hi(offset))
    BY <1>1, <1>4, <1>8 DEF OffsetOf, Clean
  <2>1. th[t].off = (IF "offset_lo" \in th[t].todo THEN 0 ELSE Lo(offset))
                      + (IF "offset_hi" \in th[t].todo THEN 0 ELSE Half * Hi(offset))
    BY <1>1 DEF ClockInv, OffsetOf, Clean
  <2>2. CASE w = "offset_lo"
    BY <1>1, <1>3, <1>4, <2>1, <2>2
  <2>3. CASE w = "offset_hi"
    BY <1>1, <1>3, <1>4, <2>1, <2>3
  <2> QED BY <1>1, <2>2, <2>3 DEF Offsets
<1>12. ClockTypes'
  BY <1>1, <1>2, <1>8 DEF ClockTypes
<1>13. \A u \in Thread : TimeOf(u)' /\ OffsetOf(u)'
  BY <1>8, <1>10, <1>11
<1> QED BY <1>8, <1>9, <1>12, <1>13 DEF ClockInv

(* The offset to store has 64 bits.                                          *)
LEMMA NewOffsetRange ==
  ASSUME ClockTypes, NEW t \in Thread
  PROVE  NewOffset(t) \in 0..(U64 - 1)
<1>1. th[t].time - th[t].loaded \in Int
  BY DEF ClockTypes, CallType
<1>2. U64 \in Nat \ {0}
  BY ClockAssumption DEF U64
<1> QED BY <1>1, <1>2, DivMod DEF NewOffset

(* A store: no reader and no other setter that is not mixed is under way.    *)
LEMMA StoreOffsetStep ==
  ASSUME ClockInv, NEW t \in Thread, NEW w \in Word, StoreOffset(t, w)
  PROVE  ClockInv'
<1> DEFINE c == [th[t] EXCEPT !.todo = @ \ {w}]
           n == NewOffset(t)
<1>1. /\ UNCHANGED <<clock, set>> /\ w \in th[t].todo /\ w \in Offsets
      /\ th[t].op = "set" /\ th[t].todo \cap Clocks = {}
      /\ offset' = Part(w, n) + offset - Part(w, offset)
  BY DEF StoreOffset, Word, Clocks, Offsets
<1>2. th[t] \in CallType /\ th \in [Thread -> CallType] /\ ClockTypes /\ clock \in Nat
  BY DEF ClockInv, ClockTypes
<1>3. /\ offset' \in 0..(U64 - 1)
      /\ w = "offset_lo" => Lo(offset') = Lo(n) /\ Hi(offset') = Hi(offset)
      /\ w = "offset_hi" => Lo(offset') = Lo(offset) /\ Hi(offset') = Hi(n)
  <2>1. n \in 0..(U64 - 1) /\ offset \in 0..(U64 - 1)
    BY <1>2, NewOffsetRange DEF ClockTypes
  <2> HIDE DEF n, c
  <2>2. LET x == Part(w, n) + offset - Part(w, offset) IN
        /\ x \in 0..(U64 - 1)
        /\ w = "offset_lo" => Lo(x) = Lo(n) /\ Hi(x) = Hi(offset)
        /\ w = "offset_hi" => Lo(x) = Lo(offset) /\ Hi(x) = Hi(n)
    BY <1>1, <2>1, StoreHalf
  <2> QED BY <1>1, <2>2
<1>4. /\ c \in CallType /\ c.op = th[t].op /\ c.todo = th[t].todo \ {w}
      /\ c.off = th[t].off /\ c.loaded = th[t].loaded
      /\ c.time = th[t].time /\ c.asked = th[t].asked
      /\ c.from = th[t].from /\ (c.mixed <=> th[t].mixed)
  <2>1. th[t].todo \ {w} \in SUBSET Word
    BY <1>2 DEF CallType
  <2> QED BY <1>2, <2>1 DEF CallType
<1>5. th' = [th EXCEPT ![t] = c]
  BY <1>2 DEF StoreOffset
<1> HIDE DEF c
<1>6. Moves(t, c)
  BY <1>4, <1>5 DEF Moves
<1>7. /\ th' \in [Thread -> CallType] /\ th'[t] = c /\ ApartInv'
      /\ \A u \in Thread \ {t} : th'[u] = th[u] /\ Stays(u) /\ TimeOf(u)'
  BY <1>1, <1>6, MoveStep
<1>8. SetInv'
  <2>1. th'[t].op = "set"
    BY <1>1, <1>4, <1>7
  <2>2. \A u \in Thread : Clean(th'[u], "real") =>
          Clean(th[u], "real") /\ th'[u].from = th[u].from
    BY <1>4, <1>7 DEF Clean
  <2> QED BY <1>1, <2>1, <2>2 DEF ClockInv, SetInv
<1>9. TimeOf(t)'
  <2>1. c.todo \cap Clocks = {} /\ th[t].todo \cap Clocks = {}
    BY <1>1, <1>4
  <2>2. OneTime(th[t]) => OneTime(th[t])'
    BY <1>1, <1>4, <1>7, <2>1 DEF OneTime, Clocks
  <2> QED BY <1>1, <1>4, <1>7, <2>2 DEF ClockInv, TimeOf
<1>10. OffsetOf(t)'
  <2>1. NewOffset(t)' = n
    BY <1>4, <1>7 DEF NewOffset
  <2>2. OffsetOf(t) /\ c.todo \cap Clocks = {} /\ c.op = "set"
    BY <1>1, <1>4 DEF ClockInv
  <2>3. 2 * c.asked < Half => c.time = c.asked
    BY <1>1, <1>4, <2>2 DEF OffsetOf
  <2> SUFFICES ASSUME ~ th[t].mixed
               PROVE  /\ "offset_lo" \notin c.todo => Lo(offset') = Lo(n)
                      /\ "offset_hi" \notin c.todo => Hi(offset') = Hi(n)
    BY <1>4, <1>7, <2>1, <2>2, <2>3 DEF OffsetOf, Clean
  <2>4. /\ "offset_lo" \notin th[t].todo => Lo(offset) = Lo(n)
        /\ "offset_hi" \notin th[t].todo => Hi(offset) = Hi(n)
    BY <1>1, <2>2 DEF OffsetOf, Clean
  <2> HIDE DEF n
  <2>5. CASE w = "offset_lo"
    BY <1>3, <1>4, <2>4, <2>5
  <2>6. CASE w = "offset_hi"
    BY <1>3, <1>4, <2>4, <2>6
  <2> QED BY <1>1, <2>5, <2>6 DEF Offsets
<1>11. ASSUME NEW u \in Thread \ {t}
       PROVE  OffsetOf(u)'
  <2>1. OffsetOf(u) /\ th'[u] = th[u]
    BY <1>7 DEF ClockInv
  <2>2. ~ Clean(th[u], "real") /\ ~ Clean(th[u], "set")
    BY <1>1 DEF ClockInv, ApartInv, Mixes, Clean
  <2> QED BY <2>1, <2>2 DEF OffsetOf
<1>12. ClockTypes'
  BY <1>1, <1>2, <1>3, <1>7 DEF ClockTypes
<1>13. \A u \in Thread : TimeOf(u)' /\ OffsetOf(u)'
  BY <1>7, <1>9, <1>10, <1>11
<1> QED BY <1>7, <1>8, <1>12, <1>13 DEF ClockInv

(* A thread without a call.                                                  *)
LEMMA IdleCall ==
  /\ Idle \in CallType /\ Idle.op = "idle"
BY DEF Idle, CallType

(* A read returns.                                                           *)
LEMMA ReadReturnsStep ==
  ASSUME ClockInv, NEW t \in Thread, ReadReturns(t)
  PROVE  ClockInv'
<1>1. /\ UNCHANGED <<clock, offset, set>> /\ th[t].op \in {"mono", "real"}
      /\ th' = [th EXCEPT ![t] = Idle]
  BY DEF ReadReturns
<1>2. /\ th' \in [Thread -> CallType] /\ th'[t].op = "idle" /\ ApartInv'
      /\ \A u \in Thread \ {t} : Stays(u) /\ TimeOf(u)' /\ OffsetOf(u)'
  <2>1. Moves(t, Idle)
    BY <1>1, IdleCall DEF Moves
  <2> QED BY <1>1, <2>1, IdleCall, MoveStep
<1>3. clock \in Nat /\ ClockTypes
  BY DEF ClockInv, ClockTypes
<1>4. SetInv'
  <2>1. \A u \in Thread : Clean(th'[u], "real") =>
          \/ Clean(th[u], "real") /\ th'[u].from = th[u].from
          \/ th'[u].from = clock
    BY <1>2 DEF Clean, Stays
  <2>2. (\A u \in Thread : th'[u].op # "set") => (\A u \in Thread : th[u].op # "set")
    BY <1>1, <1>2 DEF Stays
  <2>3. clock' \in Nat /\ clock <= clock'
    BY <1>1, <1>3
  <2> QED BY <1>1, <1>3, <2>1, <2>2, <2>3, SetStays DEF ClockInv
<1>5. TimeOf(t)' /\ OffsetOf(t)'
  BY <1>2 DEF TimeOf, OffsetOf, Clean
<1>6. ClockTypes'
  BY <1>1, <1>2, <1>3 DEF ClockTypes
<1>7. \A u \in Thread : TimeOf(u)' /\ OffsetOf(u)'
  BY <1>2, <1>5
<1> QED BY <1>2, <1>4, <1>6, <1>7 DEF ClockInv

(* What the offset is when a call that sets it returns.                      *)
LEMMA OffsetSet ==
  ASSUME ClockInv, NEW t \in Thread, Clean(th[t], "set"), th[t].todo = {}
  PROVE  th[t].loaded \in th[t].from..clock /\ offset = NewOffset(t)
<1>1. OneTime(th[t]) /\ th[t].todo \cap Clocks = {}
  BY DEF ClockInv, TimeOf, Clean
<1>2. th[t].loaded \in th[t].from..clock
  BY <1>1 DEF OneTime
<1>3. Lo(offset) = Lo(NewOffset(t)) /\ Hi(offset) = Hi(NewOffset(t))
  BY DEF ClockInv, OffsetOf
<1>4. offset \in Nat /\ NewOffset(t) \in Nat
  <2>1. U64 \in Nat
    BY ClockAssumption DEF U64
  <2>2. offset \in 0..(U64 - 1) /\ NewOffset(t) \in 0..(U64 - 1)
    BY NewOffsetRange DEF ClockInv, ClockTypes
  <2> QED BY <2>1, <2>2
<1>5. /\ offset = Half * Hi(offset) + Lo(offset)
      /\ NewOffset(t) = Half * Hi(NewOffset(t)) + Lo(NewOffset(t))
  BY <1>4, Halves
<1> QED BY <1>2, <1>3, <1>5

(* A call that sets the time returns: what it stored stays for the history.  *)
LEMMA SetReturnsStep ==
  ASSUME ClockInv, NEW t \in Thread, SetReturns(t)
  PROVE  ClockInv'
<1>1. /\ UNCHANGED <<clock, offset>> /\ th[t].op = "set" /\ th[t].todo = {}
      /\ th' = [th EXCEPT ![t] = Idle]
      /\ set' = [time |-> th[t].asked, from |-> th[t].from, to |-> clock,
                 known |-> ~ th[t].mixed /\ 2 * th[t].asked < Half]
  BY DEF SetReturns
<1>2. /\ th' \in [Thread -> CallType] /\ th'[t].op = "idle" /\ ApartInv'
      /\ \A u \in Thread \ {t} : th'[u] = th[u] /\ TimeOf(u)' /\ OffsetOf(u)'
  <2>1. Moves(t, Idle)
    BY <1>1, IdleCall DEF Moves
  <2> QED BY <1>1, <2>1, IdleCall, MoveStep
<1>3. clock \in Nat /\ ClockTypes /\ th[t] \in CallType
  BY DEF ClockInv, ClockTypes
<1>4. /\ set'.time = th[t].asked /\ set'.from = th[t].from /\ set'.to = clock
      /\ set'.known <=> (Clean(th[t], "set") /\ 2 * th[t].asked < Half)
  BY <1>1 DEF Clean
<1>5. th[t].from <= clock
  BY <1>1 DEF ClockInv, TimeOf
<1>6. SetInv'
  <2>1. ASSUME NEW u \in Thread, Clean(th'[u], "real")
        PROVE  FALSE
    <3>1. u # t /\ th'[u] = th[u]
      BY <1>2, <2>1 DEF Clean
    <3> QED BY <1>1, <2>1, <3>1 DEF ClockInv, ApartInv, Mixes, Clean
  <2>2. ASSUME set'.known
        PROVE  \E at \in set'.from..set'.to : offset' = (set'.time - at) % U64
    <3>1. th[t].loaded \in th[t].from..clock /\ offset = NewOffset(t)
      BY <1>1, <1>4, <2>2, OffsetSet
    <3>2. th[t].time = th[t].asked
      BY <1>1, <1>4, <2>2 DEF ClockInv, OffsetOf
    <3> QED BY <1>1, <1>4, <3>1, <3>2 DEF NewOffset
  <2>3. set'.from <= set'.to /\ set'.to <= clock'
    BY <1>1, <1>3, <1>4, <1>5
  <2>4. set'.known => 2 * set'.time < Half
    BY <1>4
  <2> QED BY <2>1, <2>2, <2>3, <2>4 DEF SetInv
<1>7. TimeOf(t)' /\ OffsetOf(t)'
  BY <1>2 DEF TimeOf, OffsetOf, Clean
<1>8. ClockTypes'
  <2>1. set' \in [time : Nat, from : Nat, to : Nat, known : BOOLEAN]
    BY <1>1, <1>3 DEF CallType
  <2> QED BY <1>1, <1>2, <1>3, <2>1 DEF ClockTypes
<1>9. \A u \in Thread : TimeOf(u)' /\ OffsetOf(u)'
  BY <1>2, <1>7
<1> QED BY <1>2, <1>6, <1>8, <1>9 DEF ClockInv

(* The invariant is inductive.                                               *)
LEMMA ClockInvInit ==
  ClockInit => ClockInv
<1> SUFFICES ASSUME ClockInit PROVE ClockInv
  OBVIOUS
<1>1. /\ clock = Start /\ offset = 0 /\ Start \in Nat /\ Start <= MaxClock
      /\ set = [time |-> Start, from |-> Start, to |-> Start, known |-> TRUE]
  BY ClockAssumption DEF ClockInit
<1>2. \A t \in Thread : th[t] = Idle /\ th[t].op = "idle"
  BY IdleCall DEF ClockInit
<1>3. U64 \in Nat \ {0}
  BY ClockAssumption DEF U64
<1>4. ClockTypes
  <2>1. th \in [Thread -> CallType]
    BY IdleCall DEF ClockInit
  <2>2. set \in [time : Nat, from : Nat, to : Nat, known : BOOLEAN]
    BY <1>1
  <2> QED BY <1>1, <1>3, <2>1, <2>2 DEF ClockTypes
<1>5. SetInv
  <2>1. offset = (set.time - Start) % U64 /\ Start \in set.from..set.to
    BY <1>1, <1>3
  <2>2. set.from <= set.to /\ set.to <= clock /\ set.time <= set.from
    BY <1>1
  <2> QED BY <1>2, <2>1, <2>2 DEF SetInv, Clean
<1> QED BY <1>2, <1>4, <1>5 DEF ClockInv, ApartInv, TimeOf, OffsetOf, Clean

(* Every step keeps it.                                                      *)
LEMMA ClockInvStep ==
  ClockInv /\ [ClockNext]_clockVars => ClockInv'
<1> SUFFICES ASSUME ClockInv, [ClockNext]_clockVars PROVE ClockInv'
  OBVIOUS
<1>1. CASE UNCHANGED clockVars
  BY <1>1, ClockStutters DEF clockVars
<1>2. CASE Tick
  BY <1>2, TickStep
<1>3. ASSUME NEW t \in Thread,
             \E id \in ClockId :
               \/ clock_gettime(t, id)
               \/ \E sec \in Second : clock_settime(t, id, sec, Million - 1)
      PROVE  ClockInv'
  BY <1>3, GettimeStep, SettimeStep
<1>4. ASSUME NEW t \in Thread,
             \E w \in Word : LoadClock(t, w) \/ LoadOffset(t, w) \/ StoreOffset(t, w)
      PROVE  ClockInv'
  BY <1>4, LoadClockStep, LoadOffsetStep, StoreOffsetStep
<1>5. ASSUME NEW t \in Thread, ReadReturns(t) \/ SetReturns(t) \/ Unsupported(t)
      PROVE  ClockInv'
  BY <1>5, ReadReturnsStep, SetReturnsStep, ClockStutters DEF Unsupported, NoDevice
<1> QED BY <1>1, <1>2, <1>3, <1>4, <1>5 DEF ClockNext

(* So it holds in every state.                                               *)
LEMMA ClockInvariant ==
  ClockSpec => []ClockInv
<1> QED BY ClockInvInit, ClockInvStep, PTL DEF ClockSpec

-----------------------------------------------------------------------------
(* Seconds have 32 bits: the kernel has counted for less than 2^32 of them,  *)
(* so that no time to tell needs more.                                       *)
SecondsFit == Million <= Half /\ 2 * MaxClock + Half <= 2 * (Half * Million)

(* Only the return of a read ends a read.                                    *)
LEMMA ReturnIsRead ==
  ASSUME ClockInv, [ClockNext]_clockVars, NEW t \in Thread,
         NEW op \in {"mono", "real"}, Returns(t, op)
  PROVE  ReadReturns(t)
<1>1. /\ th \in [Thread -> CallType] /\ th[t].op = op /\ op # "idle" /\ op # "set"
      /\ th'[t].op = "idle"
  BY IdleCall DEF ClockInv, ClockTypes, Returns
<1>2. CASE UNCHANGED clockVars
  BY <1>1, <1>2 DEF clockVars
<1>3. CASE Tick
  <2>1. th'[t] = th[t] \/ th'[t] = [th[t] EXCEPT !.mixed = TRUE]
    BY <1>3 DEF Tick
  <2> QED BY <1>1, <2>1 DEF CallType
<1>4. ASSUME NEW u \in Thread, NEW call, th[u].op = "idle", Begin(u, call)
      PROVE  FALSE
  <2>1. t # u
    BY <1>1, <1>4
  <2>2. th'[t] = th[t] \/ th'[t] = [th[t] EXCEPT !.mixed = TRUE]
    BY <1>4, <2>1 DEF Begin
  <2> QED BY <1>1, <2>2 DEF CallType
<1>5. ~ NoDevice /\ ~ Wild
  BY <1>1 DEF NoDevice, Wild
<1>6. ASSUME NEW u \in Thread, NEW id \in ClockId, clock_gettime(u, id)
      PROVE  FALSE
  <2>1. th[u].op = "idle" /\ id \in Int
    BY <1>6, ClockAssumption DEF clock_gettime, Ready
  <2>2. id = 0 \/ (id # 0 /\ id = 1) \/ (id # 0 /\ id # 1 /\ id > 1)
          \/ (id # 0 /\ id # 1 /\ ~ (id > 1) /\ id < 0)
    BY <2>1
  <2>3. \/ \E call : Begin(u, call)
        \/ NoDevice \/ Wild
    BY <1>6, <2>2, Zenon DEF clock_gettime
  <2> QED BY <1>4, <1>5, <2>1, <2>3
<1>7. ASSUME NEW u \in Thread, NEW id \in ClockId, NEW sec \in Second,
             clock_settime(u, id, sec, Million - 1)
      PROVE  FALSE
  <2>1. th[u].op = "idle" /\ id \in Int
    BY <1>7, ClockAssumption DEF clock_settime, Ready
  <2>2. id = 0 \/ (id # 0 /\ id > 0) \/ (id # 0 /\ ~ (id > 0) /\ id < 0)
    BY <2>1
  <2>3. \/ \E call : Begin(u, call)
        \/ NoDevice \/ Wild
    BY <1>7, <2>2, Zenon DEF clock_settime
  <2> QED BY <1>4, <1>5, <2>1, <2>3
<1>8. ASSUME NEW u \in Thread, NEW w \in Word,
             LoadClock(u, w) \/ LoadOffset(u, w) \/ StoreOffset(u, w)
      PROVE  FALSE
  <2>1. th'[t].op = th[t].op
    BY <1>1, <1>8 DEF LoadClock, LoadOffset, StoreOffset, CallType
  <2> QED BY <1>1, <2>1
<1>9. ASSUME NEW u \in Thread, SetReturns(u)
      PROVE  FALSE
  <2>1. u # t
    BY <1>1, <1>9 DEF SetReturns
  <2>2. th'[t] = th[t]
    BY <1>1, <1>9, <2>1 DEF SetReturns
  <2> QED BY <1>1, <2>2
<1>10. ASSUME NEW u \in Thread, ReadReturns(u)
       PROVE  u = t
  <2>1. u # t => th'[t] = th[t]
    BY <1>1, <1>10 DEF ReadReturns
  <2> QED BY <1>1, <2>1
<1> QED BY <1>2, <1>3, <1>5, <1>6, <1>7, <1>8, <1>9, <1>10 DEF ClockNext, Unsupported

(* What a read finds when it returns: a time the clock has shown during the  *)
(* call, and, of the offset, both halves.                                    *)
LEMMA ReadFinds ==
  ASSUME ClockInv, NEW t \in Thread, NEW op \in {"mono", "real"},
         ReadReturns(t), Clean(th[t], op)
  PROVE  /\ th[t].loaded \in th[t].from..clock
         /\ op = "real" => th[t].off = offset
<1>1. th[t].todo = {} /\ th[t].op = op /\ ~ th[t].mixed
  BY DEF ReadReturns, Clean
<1>2. OneTime(th[t]) /\ OffsetOf(t)
  BY <1>1 DEF ClockInv, TimeOf
<1>3. th[t].loaded \in th[t].from..clock
  BY <1>1, <1>2 DEF OneTime
<1>4. ASSUME op = "real"
      PROVE  th[t].off = offset
  <2>1. th[t].off = Lo(offset) + Half * Hi(offset)
    BY <1>1, <1>2, <1>4 DEF OffsetOf, Clean
  <2>2. offset \in Nat
    BY ClockAssumption DEF ClockInv, ClockTypes, U64
  <2>3. Lo(offset) \in Nat /\ Hi(offset) \in Nat /\ offset = Half * Hi(offset) + Lo(offset)
    BY <2>2, Halves, ClockAssumption
  <2>4. Half * Hi(offset) \in Nat
    BY <2>3, ClockAssumption
  <2> QED BY <2>1, <2>3, <2>4
<1> QED BY <1>3, <1>4

(* A time the kernel has counted to fits.                                    *)
LEMMA TimeFits ==
  ASSUME SecondsFit, NEW v \in Nat, v <= MaxClock
  PROVE  v < Half * Million
<1>1. Half * Million \in Nat
  BY ClockAssumption
<1> QED BY <1>1, ClockAssumption DEF SecondsFit

(* What the last step of a read tells, of either clock.                      *)
LEMMA MonotonicStep ==
  ASSUME SecondsFit, ClockInv, [ClockNext]_clockVars, NEW t \in Thread, Returns(t, "mono")
  PROVE  Microseconds(result') \in th[t].from..clock
<1>1. ReadReturns(t) /\ Clean(th[t], "mono")
  BY ReturnIsRead DEF Returns, Clean
<1>2. th[t].loaded \in th[t].from..clock
  BY <1>1, ReadFinds
<1>3. /\ clock \in Nat /\ clock <= MaxClock /\ th[t].from \in Nat
  BY DEF ClockInv, ClockTypes, CallType
<1>4. th[t].loaded \in Nat /\ th[t].loaded <= MaxClock
  BY <1>2, <1>3, ClockAssumption
<1>5. result' = Timespec(th[t].loaded)
  BY <1>1 DEF ReadReturns, ReadOf, Clean
<1>6. Microseconds(result') = th[t].loaded
  BY <1>4, <1>5, TimeFits, Told
<1> QED BY <1>2, <1>6

(* The offset is the last time set less the clock then: added to the clock it *)
(* makes that time and what has passed since.                                *)
LEMMA RealTimeStep ==
  ASSUME SecondsFit, ClockInv, [ClockNext]_clockVars, NEW t \in Thread,
         Returns(t, "real"), set.known
  PROVE  Microseconds(result') \in
           (set.time + th[t].from - set.to)..(set.time + clock - set.from)
<1> DEFINE c == th[t].loaded
<1>1. ReadReturns(t) /\ Clean(th[t], "real")
  BY ReturnIsRead DEF Returns, Clean
<1>2. c \in th[t].from..clock /\ th[t].off = offset
  BY <1>1, ReadFinds
<1>3. /\ clock \in Nat /\ clock <= MaxClock /\ th[t].from \in Nat
      /\ set.time \in Nat /\ set.from \in Nat /\ set.to \in Nat
  BY DEF ClockInv, ClockTypes, CallType
<1>4. /\ set.from <= set.to /\ set.to <= th[t].from
      /\ 2 * set.time < Half \/ set.time <= set.from
  BY <1>1 DEF ClockInv, SetInv
<1>5. \A u \in Thread : th[u].op # "set"
  BY <1>1 DEF ClockInv, ApartInv, Clean, Mixes
<1>6. PICK at \in set.from..set.to : offset = (set.time - at) % U64
  BY <1>5 DEF ClockInv, SetInv
<1> DEFINE v == c + (set.time - at)
<1>7. result' = Timespec((c + offset) % U64)
  BY <1>1, <1>2 DEF ReadReturns, ReadOf, Clean
<1> HIDE DEF c
<1>8. at \in Nat /\ set.from <= at /\ at <= set.to
  BY <1>3, <1>6
<1>9. c \in Nat /\ th[t].from <= c /\ c <= clock
  BY <1>2, <1>3
<1>10. v \in Nat /\ v \in (set.time + th[t].from - set.to)..(set.time + clock - set.from)
  BY <1>3, <1>4, <1>8, <1>9
<1>11. v < Half * Million
  <2>1. Half * Million \in Nat /\ 2 * MaxClock + Half <= 2 * (Half * Million)
    BY ClockAssumption DEF SecondsFit
  <2>2. CASE 2 * set.time < Half
    <3>1. v <= set.time + MaxClock
      BY <1>3, <1>8, <1>9, ClockAssumption
    <3> HIDE DEF v
    <3> QED BY <1>3, <1>10, <2>1, <2>2, <3>1, ClockAssumption
  <2>3. CASE set.time <= set.from
    <3>1. v <= MaxClock
      BY <1>3, <1>8, <1>9, <2>3, ClockAssumption
    <3> HIDE DEF v
    <3> QED BY <1>10, <3>1, TimeFits
  <2> QED BY <1>4, <2>2, <2>3
<1>12. U64 \in Nat \ {0} /\ Half * Million <= U64
  <2>1. CASE Million = Half
    BY <2>1, ClockAssumption DEF U64
  <2>2. CASE Million < Half
    <3>1. Half * Million + Half <= Half * Half /\ Half * Million \in Int /\ Half * Half \in Nat
      BY <2>2, ClockAssumption, Multiples
    <3> QED BY <3>1, ClockAssumption DEF U64
  <2> QED BY <2>1, <2>2, ClockAssumption DEF SecondsFit
<1>13. (c + offset) % U64 = v
  <2>1. v \in 0..(U64 - 1)
    <3>1. Half * Million \in Nat
      BY ClockAssumption
    <3> HIDE DEF v
    <3> QED BY <1>10, <1>11, <1>12, <3>1
  <2>2. set.time - at \in Int /\ c \in Int
    BY <1>3, <1>8, <1>9
  <2> QED BY <1>6, <1>12, <2>1, <2>2, AddBack
<1> HIDE DEF v
<1>14. Microseconds(result') = v
  BY <1>7, <1>10, <1>11, <1>13, Told
<1> QED BY <1>10, <1>14

(* clock_gettime of the monotonic clock: however the threads take turns and  *)
(* whenever the kernel counts, the time told is one the clock has shown      *)
(* between the call and its return, unless a carry parted the two loads.     *)
THEOREM MonotonicTellsNow ==
  ASSUME SecondsFit
  PROVE  ClockSpec => MonotonicIsNow
<1>1. ClockInv /\ [ClockNext]_clockVars =>
        [\A t \in Thread : Returns(t, "mono") =>
           Microseconds(result') \in th[t].from..clock]_clockVars
  BY MonotonicStep
<1> QED BY <1>1, ClockInvariant, PTL DEF ClockSpec, MonotonicIsNow

(* clock_gettime of the real time, after clock_settime: the time told is the *)
(* one set and what has passed since, to within the two calls, unless loads  *)
(* and stores of halves were mixed or the time set did not fit a long.       *)
THEOREM RealTimeIsAsSet ==
  ASSUME SecondsFit
  PROVE  ClockSpec => RealTimeAsSet
<1>1. ClockInv /\ [ClockNext]_clockVars =>
        [\A t \in Thread : Returns(t, "real") /\ set.known =>
           Microseconds(result') \in
             (set.time + th[t].from - set.to)..(set.time + clock - set.from)]_clockVars
  BY RealTimeStep
<1> QED BY <1>1, ClockInvariant, PTL DEF ClockSpec, RealTimeAsSet
=============================================================================
