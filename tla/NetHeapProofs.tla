---------------------------- MODULE NetHeapProofs ----------------------------
(***************************************************************************)
(* For every number of pages and every length of animation: the allocator  *)
(* keeps its blocks apart and its table exact, and the loops of the code   *)
(* implement it.                                                           *)
(***************************************************************************)
EXTENDS NetHeapScan, TLAPS

HeapInv == TypeOK /\ Disjoint /\ TableExact

(* Where the search succeeds no block is.  A block that shares only bytes  *)
(* past the end with the place found would have the last page in common    *)
(* with it, since both begin in the table.                                 *)
LEMMA FoundIsFree ==
  ASSUME HeapInv, NEW p \in Page, NEW n \in 1 .. MaxPages, Fits(p, n),
         NEW b \in blocks
  PROVE  Pages(b) \cap (p .. p + n - 1) = {}
<1> USE HeapAssumption
<1>1. b \in Block /\ b.at \in Page /\ b.len \in 1 .. MaxPages
  BY DEF HeapInv, TypeOK, Block
<1>2. \A q \in Page \cap Pages(b) : page[q] # 0
  BY <1>1 DEF HeapInv, TableExact, Page
<1>3. \A q \in Page : q \in p .. p + n - 1 => page[q] = 0
  BY DEF Fits, Zero
<1>4. SUFFICES ASSUME NEW c \in Pages(b), c \in p .. p + n - 1
               PROVE  FALSE
  OBVIOUS
<1>5. CASE c < PageLen
  <2>1. c \in Page
    BY <1>1, <1>4, <1>5 DEF Page, Pages
  <2> QED BY <2>1, <1>2, <1>3, <1>4
<1>6. CASE c >= PageLen
  <2>1. PageLen - 1 \in Page /\ PageLen - 1 \in Pages(b) /\ PageLen - 1 \in p .. p + n - 1
    BY <1>1, <1>4, <1>6 DEF Page, Pages
  <2> QED BY <2>1, <1>2, <1>3
<1> QED BY <1>1, <1>4, <1>5, <1>6 DEF Page, Pages

(* Handing out a place where no block is keeps the invariant. *)
LEMMA TakeKeepsInv ==
  ASSUME HeapInv, NEW p \in Page, NEW n \in 1 .. MaxPages, Fits(p, n), TakePages(p, n)
  PROVE  HeapInv'
<1> USE HeapAssumption
<1> DEFINE new == [at |-> p, len |-> n]
<1>1. new \in Block /\ Pages(new) = p .. p + n - 1
  BY DEF Block, Pages
<1>2. \A b \in blocks : Pages(b) \cap Pages(new) = {}
  BY <1>1, FoundIsFree
<1>3. blocks' = blocks \cup {new} /\ page' = Marked(p, n)
  BY DEF TakePages
<1>4. TypeOK'
  <2>1. page' \in [Page -> 0 .. MaxPages]
    BY <1>3 DEF HeapInv, TypeOK, Marked, Page
  <2>2. spill' \in [Cell \ Page -> BOOLEAN]
    <3>1. DOMAIN spill = Cell \ Page
      BY DEF HeapInv, TypeOK
    <3>2. CASE p = 0
      BY <3>1, <3>2 DEF TakePages
    <3>3. CASE p # 0
      <4>1. spill' = Overwritten(p, n)
        BY <3>3 DEF TakePages
      <4> QED BY <4>1, <3>1 DEF HeapInv, TypeOK, Overwritten
    <3> QED BY <3>2, <3>3
  <2>3. blocks' \in SUBSET Block /\ result' \in Page \cup {None}
    BY <1>1, <1>3 DEF HeapInv, TypeOK, TakePages
  <2> QED BY <2>1, <2>2, <2>3 DEF TypeOK
<1>5. Disjoint'
  <2>1. SUFFICES ASSUME NEW b \in blocks', NEW d \in blocks', b # d
                 PROVE  Pages(b) \cap Pages(d) = {}
    BY DEF Disjoint, Pages
  <2>2. CASE b \in blocks /\ d \in blocks
    BY <2>1, <2>2 DEF HeapInv, Disjoint
  <2>3. CASE b = new /\ d \in blocks
    BY <1>2, <2>3
  <2>4. CASE d = new /\ b \in blocks
    BY <1>2, <2>4
  <2> QED BY <1>3, <2>1, <2>2, <2>3, <2>4
<1>6. TableExact'
  <2>1. ASSUME NEW b \in blocks', NEW q \in Page \cap Pages(b)
        PROVE  page'[q] = IF q = b.at THEN b.len ELSE 1
    <3>1. CASE b \in blocks
      <4>1. q \notin p .. p + n - 1
        BY <1>1, <1>2, <2>1, <3>1
      <4>2. page'[q] = page[q]
        BY <1>3, <2>1, <4>1 DEF Marked, Page
      <4> QED BY <2>1, <3>1, <4>2 DEF HeapInv, TableExact
    <3>2. CASE b = new
      <4>1. q \in Page /\ q \in p .. p + n - 1
        BY <1>1, <2>1, <3>2
      <4> QED BY <1>3, <3>2, <4>1 DEF Marked, Page
    <3> QED BY <1>3, <2>1, <3>1, <3>2
  <2>2. ASSUME NEW q \in Page, page'[q] # 0
        PROVE  \E b \in blocks' : q \in Pages(b)
    <3>1. CASE q \in p .. p + n - 1
      BY <1>1, <1>3, <3>1
    <3>2. CASE q \notin p .. p + n - 1
      <4>1. page'[q] = page[q]
        BY <1>3, <3>2 DEF Marked, Page
      <4> QED BY <1>3, <2>2, <4>1 DEF HeapInv, TableExact
    <3> QED BY <3>1, <3>2
  <2> QED BY <2>1, <2>2 DEF TableExact, Pages
<1> QED BY <1>4, <1>5, <1>6 DEF HeapInv

(* net_free clears the pages of its block, whose length the table holds. *)
LEMMA FreeKeepsInv ==
  ASSUME HeapInv, NEW b \in Block, Free(b)
  PROVE  HeapInv'
<1> USE HeapAssumption
<1>1. b \in blocks /\ blocks' = blocks \ {b} /\ page' = Cleared(b)
  BY DEF Free
<1>2. b.at \in Page /\ b.len \in 1 .. MaxPages /\ b.at \in Pages(b)
  BY DEF Block, Pages, Page
<1>3. b.at .. b.at + page[b.at] - 1 = Pages(b)
  BY <1>1, <1>2 DEF HeapInv, TableExact, Pages
<1>4. page' = [q \in Page |-> IF q \in Pages(b) THEN 0 ELSE page[q]]
  BY <1>1, <1>3 DEF Cleared
<1>5. \A d \in blocks' : d \in blocks /\ Pages(d) \cap Pages(b) = {}
  BY <1>1 DEF HeapInv, Disjoint
<1>6. TypeOK'
  <2>1. page' \in [Page -> 0 .. MaxPages]
    BY <1>4 DEF HeapInv, TypeOK
  <2>2. spill' \in [Cell \ Page -> BOOLEAN]
    BY DEF HeapInv, TypeOK, Free
  <2> QED BY <1>1, <2>1, <2>2 DEF HeapInv, TypeOK, Free
<1>7. Disjoint'
  BY <1>1 DEF HeapInv, Disjoint, Pages
<1>8. TableExact'
  <2>1. ASSUME NEW d \in blocks', NEW q \in Page \cap Pages(d)
        PROVE  page'[q] = IF q = d.at THEN d.len ELSE 1
    BY <1>4, <1>5, <2>1 DEF HeapInv, TableExact
  <2>2. ASSUME NEW q \in Page, page'[q] # 0
        PROVE  \E d \in blocks' : q \in Pages(d)
    <3>1. q \notin Pages(b) /\ page[q] # 0
      BY <1>4, <2>2
    <3>2. PICK d \in blocks : q \in Pages(d)
      BY <3>1 DEF HeapInv, TableExact
    <3> QED BY <1>1, <3>1, <3>2
  <2> QED BY <2>1, <2>2 DEF TableExact, Pages
<1> QED BY <1>6, <1>7, <1>8 DEF HeapInv

(* The allocator that searches in one step: no page belongs to two blocks, *)
(* and the table describes the blocks (net_mem.c:15-42).                   *)
THEOREM HeapInvariant == Spec => []HeapInv
<1>1. Init => HeapInv
  BY HeapAssumption DEF Init, HeapInv, TypeOK, Disjoint, TableExact
<1>2. HeapInv /\ [Next]_vars => HeapInv'
  <2> SUFFICES ASSUME HeapInv, [Next]_vars
               PROVE  HeapInv'
    OBVIOUS
  <2>1. ASSUME NEW n \in 1 .. MaxPages, Alloc(n)
        PROVE  HeapInv'
    <3>1. CASE \E p \in Page : Fits(p, n) /\ TakePages(p, n)
      BY <3>1, TakeKeepsInv
    <3>2. CASE Refuse
      BY <3>2 DEF Refuse, HeapInv, TypeOK, Disjoint, TableExact, Pages
    <3> QED BY <2>1, <3>1, <3>2 DEF Alloc
  <2>2. ASSUME NEW b \in blocks, Free(b)
        PROVE  HeapInv'
    <3>1. b \in Block
      BY DEF HeapInv, TypeOK
    <3> QED BY <2>2, <3>1, FreeKeepsInv
  <2>3. CASE UNCHANGED vars
    BY <2>3 DEF vars, HeapInv, TypeOK, Disjoint, TableExact, Pages
  <2> QED BY <2>1, <2>2, <2>3 DEF Next
<1> QED BY <1>1, <1>2, PTL DEF Spec

-----------------------------------------------------------------------------
(* When the search has met a taken byte, no page up to that byte will do. *)
LEMMA SkippedDoNotFit ==
  ASSUME ScanInv, wanted # 0, i < wanted, ~Zero(at + i),
         NEW p \in Page, p < SkipTo(at, i)
  PROVE  ~Fits(p, wanted)
<1> USE HeapAssumption
<1>1. at \in Page /\ i \in 0 .. MaxPages /\ wanted \in 1 .. MaxPages
  BY DEF ScanInv, LoopTypeOK
<1>2. CASE p < at
  BY <1>2 DEF ScanInv
<1>3. CASE p >= at
  <2>1. at + i \in p .. p + wanted - 1
    BY <1>1, <1>3 DEF Page, SkipTo
  <2> QED BY <2>1 DEF Fits
<1> QED BY <1>1, <1>2, <1>3 DEF Page

(* No step of the search, and no free between two searches, breaks         *)
(* ScanInv.                                                                *)
LEMMA ScanInvStep ==
  ASSUME ScanInv, [ScanNext]_scanVars
  PROVE  ScanInv'
<1> USE HeapAssumption
<1>1. at \in Page /\ i \in 0 .. MaxPages /\ wanted \in 0 .. MaxPages
  BY DEF ScanInv, LoopTypeOK
<1>2. ASSUME NEW n \in 1 .. MaxPages, Search(n)
      PROVE  ScanInv'
  BY <1>2 DEF Search, ScanInv, LoopTypeOK, Page
<1>3. CASE TestFree
  <2>1. i' = i + 1 /\ i < wanted /\ Zero(at + i)
    BY <1>3 DEF TestFree
  <2>2. at' = at /\ wanted' = wanted /\ page' = page /\ spill' = spill
    BY <1>3 DEF TestFree, vars
  <2>3. \A c \in at .. at + i : Zero(c)
    BY <1>1, <2>1 DEF ScanInv, Page
  <2>4. \A c : Zero(c)' <=> Zero(c)
    BY <2>2 DEF Zero
  <2>5. \A p \in Page : p < at' => ~Fits(p, wanted)'
    BY <1>1, <2>1, <2>2, <2>4 DEF ScanInv, Fits
  <2>6. \A c \in at' .. at' + i' - 1 : Zero(c)'
    BY <1>1, <2>1, <2>2, <2>3, <2>4 DEF Page
  <2>7. LoopTypeOK' /\ i' <= wanted'
    BY <1>1, <2>1, <2>2 DEF LoopTypeOK
  <2> QED BY <2>5, <2>6, <2>7 DEF ScanInv
<1>4. CASE Skip
  <2>1. at' = SkipTo(at, i) /\ at' < PageLen /\ i' = 0
    BY <1>4 DEF Skip
  <2>2. wanted' = wanted /\ page' = page /\ spill' = spill
    BY <1>4 DEF Skip, vars
  <2>3. wanted # 0 => \A p \in Page : p < at' => ~Fits(p, wanted)
    BY <1>4, <2>1, SkippedDoNotFit DEF Skip
  <2> QED BY <1>1, <2>1, <2>2, <2>3 DEF ScanInv, LoopTypeOK, Zero, Fits, SkipTo, Page
<1>5. CASE GiveUp
  BY <1>1, <1>5 DEF GiveUp, ScanInv, LoopTypeOK
<1>6. CASE Found
  BY <1>1, <1>6 DEF Found, ScanInv, LoopTypeOK
<1>7. CASE wanted = 0 /\ UNCHANGED loopVars
  BY <1>1, <1>7 DEF loopVars, ScanInv, LoopTypeOK
<1>8. CASE UNCHANGED scanVars
  BY <1>8 DEF scanVars, vars, loopVars, ScanInv, LoopTypeOK, Zero, Fits
<1> QED BY <1>2, <1>3, <1>4, <1>5, <1>6, <1>7, <1>8 DEF ScanNext

(* The search never rules out a page from which the block fits, and never  *)
(* counts a taken page as free (net_mem.c:21-32).                          *)
THEOREM ScanInvariant == ScanSpec => []ScanInv
<1>1. ScanInit => ScanInv
  BY HeapAssumption DEF ScanInit, ScanInv, LoopTypeOK, Page
<1> QED BY <1>1, ScanInvStep, PTL DEF ScanSpec

(* A step of the loops is a step of the allocator or no step of it. *)
LEMMA ScanStepAllocates ==
  ASSUME ScanInv, [ScanNext]_scanVars
  PROVE  [Next]_vars
<1> USE HeapAssumption
<1>1. at \in Page /\ i \in 0 .. MaxPages /\ wanted \in 0 .. MaxPages
  BY DEF ScanInv, LoopTypeOK
<1>2. CASE GiveUp
  <2>1. wanted \in 1 .. MaxPages /\ i < wanted /\ ~Zero(at + i)
    BY <1>1, <1>2 DEF GiveUp
  <2>2. \A p \in Page : p < SkipTo(at, i)
    BY <1>1, <1>2 DEF GiveUp, SkipTo, Page
  <2>3. \A p \in Page : ~Fits(p, wanted)
    BY <2>1, <2>2, SkippedDoNotFit
  <2>4. Refuse
    BY <1>2 DEF GiveUp
  <2> QED BY <2>1, <2>3, <2>4 DEF Next, Alloc
<1>3. CASE Found
  <2>1. wanted \in 1 .. MaxPages /\ TakePages(at, wanted)
    BY <1>1, <1>3 DEF Found
  <2>2. Fits(at, wanted) /\ \A p \in Page : p < at => ~Fits(p, wanted)
    BY <1>3 DEF Found, ScanInv, Fits
  <2> QED BY <1>1, <2>1, <2>2 DEF Next, Alloc
<1>4. CASE \E b \in blocks : Free(b)
  BY ONLY <1>4 DEF Next
<1>5. CASE UNCHANGED vars
  BY <1>5
<1> QED
  BY <1>2, <1>3, <1>4, <1>5 DEF ScanNext, Search, TestFree, Skip, scanVars

(* The loops of net_alloc implement the one-step, first-fit allocator. *)
THEOREM LoopsImplementFirstFit == ScanSpec => FirstFit
<1>1. ScanInit => Init
  BY DEF ScanInit
<1> QED BY <1>1, ScanInvariant, ScanStepAllocates, PTL DEF ScanSpec, FirstFit, Spec

(* No two animations get the same memory. *)
THEOREM BlocksAreDisjoint == ScanSpec => []Disjoint
<1>1. HeapInv => Disjoint
  BY DEF HeapInv
<1> QED BY <1>1, LoopsImplementFirstFit, HeapInvariant, PTL DEF FirstFit

(* What net_free reads from the table is the length of the block. *)
THEOREM TableDescribesBlocks == ScanSpec => []TableExact
<1>1. HeapInv => TableExact
  BY DEF HeapInv
<1> QED BY <1>1, LoopsImplementFirstFit, HeapInvariant, PTL DEF FirstFit
=============================================================================
