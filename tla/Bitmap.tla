------------------------------- MODULE Bitmap -------------------------------
(* malloc and free of libc_backends/lib/l4re_mem/mem_bitmap.cc: one region   *)
(* of memory, cut into pages of a word each, with a bit for every page.  A   *)
(* block is a header, which holds its size in bytes, and the payload.        *)
(*                                                                           *)
(* free() takes the header's distance from the start the wrong way round, so *)
(* it counts bits up from just below 2^32, where there is no bitmap: the     *)
(* store faults, or changes memory that belongs to something else; a block   *)
(* long enough takes the count past 2^32 and on at bit 0.                    *)
(*                                                                           *)
(* One thread calls; a call is a step.                                       *)
EXTENDS Integers, FiniteSets

CONSTANTS BITS,       \* pages in the region
          UMax,       \* 2^32: unsigned arithmetic is modulo UMax
          Request,    \* sizes asked for, in bytes
          Written,    \* words a client fills its memory with
          MaxLive     \* bound: blocks in use at a time

PAGE_SIZE == 4        \* sizeof(unsigned)
WordBits  == 32       \* bits in an element of bitmap[]
BMP_SIZE  == BITS \div PAGE_SIZE   \* elements of bitmap[], more than needed

ASSUME BitmapAssumption ==
  /\ BITS \in Nat \ {0} /\ MaxLive \in Nat
  /\ UMax \in Nat /\ UMax % PAGE_SIZE = 0 /\ UMax > 9 * BITS
  /\ Request \subseteq 0..(UMax - 1) /\ Written \subseteq 0..(UMax - 1)

Page == 0..(BITS - 1)

VARIABLES region,     \* where the memory lies, seen from bitmap[]
          bitmap,     \* the pages whose bits are set
          header,     \* the words before the addresses of the blocks in use
          live,       \* history: blocks returned and not yet freed
          wrapped,    \* history: a free, or a size, went past 2^32 and on at 0
          fault       \* the task was killed

vars == <<region, bitmap, header, live, wrapped, fault>>

Starts(blocks) == {b.at : b \in blocks}

Block == [at : Page, asked : Request, size : Nat]

TypeOK ==
  /\ region \in {"none", "below", "above"}
  /\ bitmap \in SUBSET Page /\ live \in SUBSET Block
  /\ header \in [Starts(live) -> Nat]
  /\ wrapped \in BOOLEAN /\ fault \in BOOLEAN

-----------------------------------------------------------------------------
(* Sizes.                                                                    *)

(* A size that is a multiple already gets a page more; one close to 2^32     *)
(* comes round to 0.                                                         *)
Aligned(size) == IF size <= PAGE_SIZE THEN PAGE_SIZE
                 ELSE (size + (PAGE_SIZE - (size % PAGE_SIZE))) % UMax

required_pages(size) == 1 + size \div PAGE_SIZE

(* The pages malloc marks, header and payload, and those the caller may fill *)
(* with what it asked for.                                                   *)
Pages(b)  == b.at..(b.at + required_pages(b.size) - 1)
Filled(b) == (b.at + 1)..(b.at + ((b.asked + PAGE_SIZE - 1) \div PAGE_SIZE))

(* The search: bits at which a run of n clear ones ends; the loop stops at   *)
(* the first.                                                                *)
RunEndsPast(n) == {e \in 0..BITS : e + 1 >= n /\ \A p \in (e + 1 - n)..e : p \notin bitmap}

RunEnds(n) == {e \in Page : e + 1 >= n /\ \A p \in (e + 1 - n)..e : p \notin bitmap}

-----------------------------------------------------------------------------
(* init(): a dataspace, attached where the region manager finds room.        *)
InitFails ==
  /\ region = "none" /\ ~ fault
  /\ UNCHANGED vars

InitMemory ==
  /\ region = "none" /\ ~ fault
  /\ region' \in {"below", "above"} /\ bitmap' = {}
  /\ UNCHANGED <<header, live, wrapped, fault>>

(* malloc(), behind the init() of the first call.                            *)
Malloc(asked) ==
  LET size == Aligned(asked)
      n    == required_pages(size)
  IN /\ region # "none" /\ ~ fault /\ Cardinality(live) < MaxLive
     /\ \E e \in RunEnds(n) :
          /\ \A d \in RunEnds(n) : e <= d
          /\ bitmap' = bitmap \cup (e + 1 - n)..e
          /\ live' = live \cup {[at |-> e + 1 - n, asked |-> asked, size |-> size]}
          /\ header' = [p \in Starts(live') |-> IF p = e + 1 - n THEN size ELSE header[p]]
     /\ wrapped' = (wrapped \/ size < asked)
     /\ UNCHANGED <<region, fault>>

NotEnoughSpace(asked) ==
  /\ region # "none" /\ ~ fault
  /\ RunEnds(required_pages(Aligned(asked))) = {}
  /\ UNCHANGED vars

(* free(): an address above bitmap[] "isn't a valid address to free".        *)
Refuse(b) ==
  /\ region = "above" /\ ~ fault
  /\ live' = live \ {b} /\ header' = [p \in Starts(live') |-> header[p]]
  /\ UNCHANGED <<region, bitmap, wrapped, fault>>

(* start_addr - (iter - 1), and ++bit, i times.                              *)
Bit(at, i) == IF i < at THEN UMax - (at - i) ELSE i - at

ClearedPastEnd(at) == {Bit(at, i) : i \in 0..(1 + header[at] \div PAGE_SIZE)}

Cleared(at) == {Bit(at, i) : i \in 0..(header[at] \div WordBits)}

Free(b) ==
  /\ region = "below" /\ ~ fault
  /\ bitmap' = bitmap \ Cleared(b.at)
  /\ live' = live \ {b} /\ header' = [p \in Starts(live') |-> header[p]]
  /\ wrapped' = (wrapped \/ (b.at > 0 /\ 0 \in Cleared(b.at)))
  /\ UNCHANGED <<region, fault>>

FreeFaults(b) ==
  /\ region = "below" /\ ~ fault
  /\ ~ (Cleared(b.at) \subseteq 0..(BMP_SIZE * WordBits - 1))
  /\ fault' = TRUE
  /\ UNCHANGED <<region, bitmap, header, live, wrapped>>

(* free(NULL) is refused once there is memory; before, NULL - 1 is read.     *)
FreeNull ==
  /\ ~ fault
  /\ fault' = (region = "none")
  /\ UNCHANGED <<region, bitmap, header, live, wrapped>>

(* A client fills its payload, and with it whatever header it covers.        *)
Overwrite(b, word) ==
  /\ ~ fault
  /\ \E c \in live :
       /\ c.at \in Filled(b)
       /\ header' = [header EXCEPT ![c.at] = word]
  /\ UNCHANGED <<region, bitmap, live, wrapped, fault>>

-----------------------------------------------------------------------------
Init == /\ region = "none" /\ bitmap = {} /\ live = {}
        /\ header = [p \in {} |-> 0] /\ wrapped = FALSE /\ fault = FALSE

Next ==
  \/ InitFails \/ InitMemory \/ FreeNull
  \/ \E asked \in Request : Malloc(asked) \/ NotEnoughSpace(asked)
  \/ \E b \in live : \/ Refuse(b) \/ Free(b) \/ FreeFaults(b)
                     \/ \E word \in Written : Overwrite(b, word)

Spec == Init /\ [][Next]_vars

-----------------------------------------------------------------------------
(* Properties.                                                               *)

(* "space found": the space a block is given is no other block's and has     *)
(* room for what was asked, and what its header says stays there, as long as *)
(* no free has come round to bit 0 and no size to 0.  Although free() clears *)
(* the wrong bits of all blocks but the first, and too few of the first,     *)
(* that alone hurts nobody.                                                  *)
OverlapOnlyAfterWrap ==
  ~ wrapped =>
    /\ \A a, b \in live : a # b => Pages(a) \cap Pages(b) = {}
    /\ \A b \in live : /\ Pages(b) \subseteq bitmap /\ header[b.at] = b.size
                       /\ PAGE_SIZE * (Cardinality(Pages(b)) - 1) >= b.asked
=============================================================================
