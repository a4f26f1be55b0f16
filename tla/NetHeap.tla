------------------------------- MODULE NetHeap -------------------------------
(***************************************************************************)
(* The page allocator of the peers' animations (server/src/net_mem.c).     *)
(* page[p] is 0 for a free page; the first page of a block holds the       *)
(* block's length and the others hold 1.  The bytes after page[] in memory *)
(* are the data of page 0, and the search for room reads them: byte Len+k  *)
(* is spill[k], whatever the animation stored there has in it.             *)
(***************************************************************************)
EXTENDS Integers, FiniteSets

CONSTANTS
  PageLen,    \* NET_PAGE_LEN
  MaxPages,   \* pages of the largest animation
  None

ASSUME HeapAssumption ==
  /\ PageLen \in Nat \ {0}
  /\ MaxPages \in 1 .. PageLen

VARIABLES
  page,     \* net_heap.page
  spill,    \* which of the bytes that follow it are zero
  blocks,   \* history: the blocks handed out and not freed: first page, length
  result    \* history: the first page of the block last asked for, or None

vars == <<page, spill, blocks, result>>

Page == 0 .. PageLen - 1
Cell == 0 .. PageLen + MaxPages - 2       \* the bytes a search may read

Block == [at : Page, len : 1 .. MaxPages]
Pages(b) == b.at .. b.at + b.len - 1

TypeOK ==
  /\ page \in [Page -> 0 .. MaxPages]
  /\ spill \in [Cell \ Page -> BOOLEAN]
  /\ blocks \in SUBSET Block
  /\ result \in Page \cup {None}

(* net_mem_init; the game's memory holds anything. *)
Init ==
  /\ page = [p \in Page |-> 0]
  /\ spill \in [Cell \ Page -> BOOLEAN]
  /\ blocks = {}
  /\ result = None

Zero(c) == IF c \in Page THEN page[c] = 0 ELSE spill[c]

(***************************************************************************)
(* net_alloc: the first page from which n bytes of the table are zero, in  *)
(* one step.  NetHeapScan has the loops of the code and implements this.   *)
(***************************************************************************)
Fits(p, n) == \A c \in p .. p + n - 1 : Zero(c)

Marked(p, n) ==
  [q \in Page |-> IF q = p THEN n ELSE IF q \in p + 1 .. p + n - 1 THEN 1 ELSE page[q]]

(* The bytes that the marks of pages past the end overwrite. *)
Overwritten(p, n) ==
  [c \in DOMAIN spill |-> IF c \in p + 1 .. p + n - 1 THEN FALSE ELSE spill[c]]

(* The block is marked and handed out.  The animation is copied in by the  *)
(* caller; when it lies in page 0 it decides what the following bytes are. *)
TakePages(p, n) ==
  /\ page' = Marked(p, n)
  /\ IF p = 0 THEN spill' \in [DOMAIN spill -> BOOLEAN] ELSE spill' = Overwritten(p, n)
  /\ blocks' = blocks \cup {[at |-> p, len |-> n]}
  /\ result' = p

Refuse ==
  /\ result' = None
  /\ UNCHANGED <<page, spill, blocks>>

Alloc(n) ==
  \/ \E p \in Page :
       /\ Fits(p, n)
       /\ \A q \in Page : q < p => ~Fits(q, n)
       /\ TakePages(p, n)
  \/ /\ \A p \in Page : ~Fits(p, n)
     /\ Refuse

(* net_free, of a pointer that net_alloc returned. *)
ClearedShort(b) ==
  [q \in Page |-> IF q \in b.at .. b.at + page[b.at] - 2 THEN 0 ELSE page[q]]
Cleared(b) ==
  [q \in Page |-> IF q \in b.at .. b.at + page[b.at] - 1 THEN 0 ELSE page[q]]

Free(b) ==
  /\ b \in blocks
  /\ page' = Cleared(b)
  /\ spill' = [c \in DOMAIN spill |->
                 IF c \in b.at .. b.at + page[b.at] - 1 THEN TRUE ELSE spill[c]]
  /\ blocks' = blocks \ {b}
  /\ UNCHANGED result

Next == (\E n \in 1 .. MaxPages : Alloc(n)) \/ (\E b \in blocks : Free(b))

Spec == Init /\ [][Next]_vars

-----------------------------------------------------------------------------
(* No page belongs to two blocks: two peers never animate from the same    *)
(* memory.                                                                 *)
Disjoint == \A b, d \in blocks : b # d => Pages(b) \cap Pages(d) = {}

(* The table says exactly what is handed out, so that net_free, which only *)
(* knows the pointer, clears the block's pages and no others.              *)
TableExact ==
  /\ \A b \in blocks : \A q \in Page \cap Pages(b) :
        page[q] = IF q = b.at THEN b.len ELSE 1
  /\ \A q \in Page : page[q] # 0 => \E b \in blocks : q \in Pages(b)

(* A block ends within the heap, at NET_HEAP_END (server/main.ld).         *)
InHeap == \A b \in blocks : b.at + b.len <= PageLen
=============================================================================
