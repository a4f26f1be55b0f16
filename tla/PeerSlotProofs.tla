---------------------------- MODULE PeerSlotProofs ----------------------------
(***************************************************************************)
(* For every number of peers, animations, pages and objects, and whenever  *)
(* the client writes over a record: what np_update_peer keeps of the heap, *)
(* of the animations, of the timers and of the objects.                    *)
(***************************************************************************)
EXTENDS PeerSlot, TLAPS

(* The allocator's lemmas, which are not about its loops. *)
Allocator == INSTANCE NetHeapProofs WITH wanted <- 0, at <- 0, i <- 0

-----------------------------------------------------------------------------
(* The heap as its users see it. *)

HeapOK == Heap!TypeOK /\ Heap!Disjoint /\ Heap!TableExact

(* What is proved of the allocator holds for the heap of the peers.        *)
LEMMA SameHeap ==
  /\ HeapOK <=> Allocator!HeapInv
  /\ HeapOK' <=> Allocator!HeapInv'
  /\ \A k : Heap!Alloc(k) <=> Allocator!Alloc(k)
  /\ \A b : Heap!Free(b) <=> Allocator!Free(b)
  /\ \A p, k : Heap!TakePages(p, k) <=> Allocator!TakePages(p, k)
  /\ \A p, k : Heap!Fits(p, k) <=> Allocator!Fits(p, k)
  /\ Heap!Refuse <=> Allocator!Refuse
  /\ Heap!Page = Allocator!Page /\ Heap!Block = Allocator!Block
  /\ Allocator!HeapAssumption
<1>1. Allocator!HeapAssumption
  BY PeerSlotAssumption DEF Allocator!HeapAssumption
<1>2. Heap!Page = Allocator!Page /\ Heap!Cell = Allocator!Cell /\ Heap!Block = Allocator!Block
  BY DEF Heap!Page, Allocator!Page, Heap!Cell, Allocator!Cell, Heap!Block, Allocator!Block
<1>3. \A b : Heap!Pages(b) = Allocator!Pages(b)
  BY DEF Heap!Pages, Allocator!Pages
<1>4. /\ Heap!TypeOK <=> Allocator!TypeOK
      /\ Heap!Disjoint <=> Allocator!Disjoint
      /\ Heap!TableExact <=> Allocator!TableExact
  BY <1>2, <1>3 DEF Heap!TypeOK, Allocator!TypeOK, Heap!Disjoint, Allocator!Disjoint,
                    Heap!TableExact, Allocator!TableExact
<1>5. /\ Heap!TypeOK' <=> Allocator!TypeOK'
      /\ Heap!Disjoint' <=> Allocator!Disjoint'
      /\ Heap!TableExact' <=> Allocator!TableExact'
  BY <1>2, <1>3 DEF Heap!TypeOK, Allocator!TypeOK, Heap!Disjoint, Allocator!Disjoint,
                    Heap!TableExact, Allocator!TableExact
<1>6. \A c : Heap!Zero(c) <=> Allocator!Zero(c)
  BY <1>2 DEF Heap!Zero, Allocator!Zero
<1>7. \A p, k : Heap!Fits(p, k) <=> Allocator!Fits(p, k)
  BY <1>6 DEF Heap!Fits, Allocator!Fits
<1>8. \A p, k : Heap!TakePages(p, k) <=> Allocator!TakePages(p, k)
  BY <1>2 DEF Heap!TakePages, Allocator!TakePages, Heap!Marked, Allocator!Marked,
              Heap!Overwritten, Allocator!Overwritten
<1>9. Heap!Refuse <=> Allocator!Refuse
  BY DEF Heap!Refuse, Allocator!Refuse
<1>10. \A k : Heap!Alloc(k) <=> Allocator!Alloc(k)
  BY <1>2, <1>7, <1>8, <1>9 DEF Heap!Alloc, Allocator!Alloc
<1>11. \A b : Heap!Free(b) <=> Allocator!Free(b)
  BY <1>2 DEF Heap!Free, Allocator!Free, Heap!Cleared, Allocator!Cleared
<1>12. (HeapOK <=> Allocator!HeapInv) /\ (HeapOK' <=> Allocator!HeapInv')
  BY <1>4, <1>5 DEF HeapOK, Allocator!HeapInv
<1> QED BY <1>1, <1>2, <1>7, <1>8, <1>9, <1>10, <1>11, <1>12

(* A call of net_alloc hands out a block that begins where none begins, or *)
(* nothing.                                                                *)
LEMMA AllocGives ==
  ASSUME HeapOK, NEW k \in 1 .. MaxPages, Heap!Alloc(k)
  PROVE  /\ HeapOK'
         /\ \/ Heap!Refuse
            \/ \E p \in Heap!Page :
                 /\ result' = p /\ blocks' = blocks \cup {[at |-> p, len |-> k]}
                 /\ \A b \in blocks : b.at # p
<1>1. CASE Heap!Refuse
  BY <1>1 DEF Heap!Refuse, HeapOK, Heap!TypeOK, Heap!Disjoint, Heap!TableExact, Heap!Pages
<1>2. ASSUME NEW p \in Heap!Page, Heap!Fits(p, k), Heap!TakePages(p, k)
      PROVE  /\ HeapOK'
             /\ result' = p /\ blocks' = blocks \cup {[at |-> p, len |-> k]}
             /\ \A b \in blocks : b.at # p
  <2>1. /\ p \in Allocator!Page /\ Allocator!Fits(p, k)
        /\ Allocator!TakePages(p, k) /\ Allocator!HeapInv
    BY <1>2, SameHeap
  <2>2. HeapOK'
    BY <2>1, SameHeap, Allocator!TakeKeepsInv
  <2>3. ASSUME NEW b \in blocks
        PROVE  b.at # p
    <3>1. Allocator!Pages(b) \cap (p .. p + k - 1) = {}
      BY <2>1, SameHeap, Allocator!FoundIsFree
    <3>2. b.at \in Heap!Page /\ b.len \in 1 .. MaxPages
      BY DEF HeapOK, Heap!TypeOK, Heap!Block
    <3>3. b.at \in Allocator!Pages(b) /\ p \in p .. p + k - 1
      BY <3>2, PeerSlotAssumption DEF Allocator!Pages, Heap!Page
    <3> QED BY <3>1, <3>3
  <2> QED BY <1>2, <2>2, <2>3 DEF Heap!TakePages
<1> QED BY <1>1, <1>2 DEF Heap!Alloc

(* net_free of a pointer that is a block's first page frees that block.    *)
LEMMA FreeTakesBack ==
  ASSUME HeapOK, NEW b \in blocks, FreeAt(b.at)
  PROVE  /\ HeapOK' /\ Heap!Free(b) /\ b \in Heap!Block
         /\ blocks' = blocks \ {b} /\ \A d \in blocks' : d \in blocks /\ d.at # b.at
<1>1. /\ b \in Heap!Block /\ blocks \subseteq Heap!Block
      /\ spill \in [Heap!Cell \ Heap!Page -> BOOLEAN]
  BY DEF HeapOK, Heap!TypeOK
<1>2. \A d \in blocks : d.at = b.at => d = b
  <2> SUFFICES ASSUME NEW d \in blocks, d.at = b.at, d # b
               PROVE  FALSE
    OBVIOUS
  <2>1. /\ d.at \in Heap!Page /\ d.len \in 1 .. MaxPages
        /\ b.at \in Heap!Page /\ b.len \in 1 .. MaxPages
    BY <1>1 DEF Heap!Block
  <2>2. b.at \in Heap!Pages(b) /\ b.at \in Heap!Pages(d)
    BY <2>1, PeerSlotAssumption DEF Heap!Pages, Heap!Page
  <2> QED BY <2>2 DEF HeapOK, Heap!Disjoint
<1>3. blocks' = blocks \ {b}
  BY <1>2 DEF FreeAt
<1>4. page' = Heap!Cleared(b)
  BY DEF FreeAt, Heap!Cleared
<1>5. spill' = [c \in DOMAIN spill |->
                  IF c \in b.at .. b.at + page[b.at] - 1 THEN TRUE ELSE spill[c]]
  <2>1. \A c \in DOMAIN spill : spill[c] \in BOOLEAN
    BY <1>1
  <2>2. spill' = [c \in DOMAIN spill |-> spill[c] \/ c \in b.at .. b.at + page[b.at] - 1]
    BY DEF FreeAt
  <2> QED BY <2>1, <2>2
<1>6. Heap!Free(b)
  BY <1>3, <1>4, <1>5 DEF FreeAt, Heap!Free
<1>7. HeapOK'
  BY <1>1, <1>6, SameHeap, Allocator!FreeKeepsInv
<1> QED BY <1>1, <1>2, <1>3, <1>6, <1>7

(* A new heap is in order. *)
LEMMA EmptyHeapOK ==
  ASSUME page = [q \in Heap!Page |-> 0], blocks = {},
         spill \in [Heap!Cell \ Heap!Page -> BOOLEAN], result \in Heap!Page \cup {None}
  PROVE  HeapOK
BY PeerSlotAssumption
DEF HeapOK, Heap!TypeOK, Heap!Disjoint, Heap!TableExact, Heap!Page

-----------------------------------------------------------------------------
(* Pages and their owners. *)

Paged(a) == \E b \in blocks : b.at = a
Owned(b) == \E p \in Peer : anime[p] = b.at

(* Every block is some record's, and while one is being loaded it is the   *)
(* result of net_alloc, which no record has yet.                           *)
PageInv ==
  /\ HeapOK
  /\ \A p, q \in Peer : anime[p] # None /\ anime[p] = anime[q] => p = q
  /\ \A p \in Peer : anime[p] # None => Paged(anime[p])
  /\ pc \notin {"dma", "store"} => \A b \in blocks : Owned(b)
  /\ pc \in {"dma", "store"} =>
       /\ result # None /\ Paged(result)
       /\ \A p \in Peer : anime[p] # result
       /\ \A b \in blocks : Owned(b) \/ b.at = result
  /\ pc \in Load => anime[n] = None

(* Steps that leave the pages alone. *)
LEMMA PagesKept ==
  ASSUME PageInv, UNCHANGED <<anime, heapVars>>,
         pc' \in {"dma", "store"} <=> pc \in {"dma", "store"},
         pc' \in Load => pc \in Load /\ n' = n
  PROVE  PageInv'
<1>1. UNCHANGED <<page, spill, blocks, result, anime>>
  BY DEF heapVars
<1>2. HeapOK'
  BY <1>1 DEF PageInv, HeapOK, Heap!TypeOK, Heap!Disjoint, Heap!TableExact, Heap!Pages
<1> QED BY <1>1, <1>2 DEF PageInv, Paged, Owned

(* A record gives its pages back, if it has any; what it gives back is a   *)
(* block it was given.                                                     *)
LEMMA FreePagesGivesBack ==
  ASSUME TypeOK, PageInv, pc \notin {"dma", "store"}, FreePages
  PROVE  /\ anime' = [anime EXCEPT ![n] = None]
         /\ HeapOK'
         /\ \A p, q \in Peer : anime'[p] # None /\ anime'[p] = anime'[q] => p = q
         /\ \A p \in Peer : anime'[p] # None => Paged(anime[p])'
         /\ \A b \in blocks' : Owned(b)'
         /\ UNCHANGED heapVars \/ \E b \in blocks : Heap!Free(b)
<1>1. n \in Peer /\ anime \in [Peer -> Heap!Page \cup {None}]
  BY DEF TypeOK
<1>2. anime' = [anime EXCEPT ![n] = None]
  BY DEF FreePages
<1>3. \A p \in Peer : p # n => anime'[p] = anime[p]
  BY <1>1, <1>2
<1>4. anime'[n] = None
  BY <1>1, <1>2
<1>5. \A p, q \in Peer : anime'[p] # None /\ anime'[p] = anime'[q] => p = q
  BY <1>3, <1>4 DEF PageInv
<1>6. CASE anime[n] = None
  <2>1. UNCHANGED heapVars /\ anime' = anime
    BY <1>1, <1>2, <1>6 DEF FreePages
  <2>2. UNCHANGED <<page, spill, blocks, result>>
    BY <2>1 DEF heapVars
  <2>3. HeapOK'
    BY <2>2 DEF PageInv, HeapOK, Heap!TypeOK, Heap!Disjoint, Heap!TableExact, Heap!Pages
  <2> QED BY <1>2, <1>5, <2>1, <2>2, <2>3 DEF PageInv, Paged, Owned
<1>7. CASE anime[n] # None
  <2>1. PICK b \in blocks : b.at = anime[n]
    BY <1>1, <1>7 DEF PageInv, Paged
  <2>2. FreeAt(b.at)
    BY <1>7, <2>1 DEF FreePages
  <2>3. /\ HeapOK' /\ Heap!Free(b) /\ b \in Heap!Block
        /\ blocks' = blocks \ {b} /\ \A d \in blocks' : d \in blocks /\ d.at # b.at
    BY <2>2, FreeTakesBack DEF PageInv
  <2>4. ASSUME NEW p \in Peer, anime'[p] # None
        PROVE  \E d \in blocks' : d.at = anime'[p]
    <3>1. p # n /\ anime'[p] = anime[p]
      BY <1>3, <1>4, <2>4
    <3>2. PICK d \in blocks : d.at = anime[p]
      BY <2>4, <3>1 DEF PageInv, Paged
    <3>3. anime[p] # anime[n]
      BY <1>1, <1>7, <3>1 DEF PageInv
    <3> QED BY <2>1, <2>3, <3>1, <3>2, <3>3
  <2>5. ASSUME NEW d \in blocks'
        PROVE  \E p \in Peer : anime'[p] = d.at
    <3>1. d \in blocks /\ d.at # anime[n]
      BY <2>1, <2>3
    <3>2. PICK p \in Peer : anime[p] = d.at
      BY <3>1 DEF PageInv, Owned
    <3> QED BY <1>3, <3>1, <3>2
  <2> QED BY <1>2, <1>5, <2>3, <2>4, <2>5 DEF Paged, Owned
<1> QED BY <1>6, <1>7

(* np_free: the object ends and the pages are given back. *)
LEMMA NpFreeGivesBack ==
  ASSUME TypeOK, PageInv, pc \notin {"dma", "store"}, FreePages,
         pc' \notin {"dma", "store"}, pc' \in Load => n' = n
  PROVE  PageInv'
<1>1. n \in Peer /\ anime \in [Peer -> Heap!Page \cup {None}]
  BY DEF TypeOK
<1>2. pc' \in Load => anime'[n'] = None
  BY <1>1, FreePagesGivesBack
<1> QED BY <1>2, FreePagesGivesBack DEF PageInv

(* net_alloc is called for a record that has no pages. *)
LEMMA AllocKeepsPages ==
  ASSUME TypeOK, PageInv, Alloc
  PROVE  PageInv' /\ (Heap!Refuse \/ \E k \in 1 .. MaxPages : Heap!Alloc(k))
<1>1. /\ n \in Peer /\ anime \in [Peer -> Heap!Page \cup {None}] /\ anime[n] = None
      /\ dst \in [Peer -> Anime \cup {None}] /\ anime' = anime /\ n' = n /\ pc = "alloc"
  BY DEF TypeOK, Alloc, PageInv, At, Goto, Load, peerVars
<1>2. Heap!Refuse \/ \E k \in 1 .. MaxPages : Heap!Alloc(k)
  <2>1. dst[n] # None => Size[dst[n]] \in 1 .. MaxPages
    BY <1>1, PeerSlotAssumption
  <2>2. CASE dst[n] = None
    BY <2>2 DEF Alloc
  <2>3. CASE dst[n] # None
    BY <2>1, <2>3 DEF Alloc
  <2> QED BY <2>2, <2>3
<1>3. None \notin Heap!Page
  BY PeerSlotAssumption DEF Heap!Page
<1>4. CASE Heap!Refuse
  <2>1. UNCHANGED <<page, spill, blocks>> /\ result' = None /\ pc' = "object"
    BY <1>4 DEF Heap!Refuse, Alloc, Goto
  <2>2. HeapOK'
    BY <2>1 DEF PageInv, HeapOK, Heap!TypeOK, Heap!Disjoint, Heap!TableExact, Heap!Pages
  <2>3. PageInv'
    BY <1>1, <2>1, <2>2 DEF PageInv, Paged, Owned, Load
  <2> QED BY <1>4, <2>3
<1>5. ASSUME NEW k \in 1 .. MaxPages, NEW p \in Heap!Page,
             HeapOK', result' = p, blocks' = blocks \cup {[at |-> p, len |-> k]},
             \A b \in blocks : b.at # p
      PROVE  PageInv'
  <2>1. pc' = "dma"
    BY <1>3, <1>5 DEF Alloc, Goto
  <2>2. result' # None /\ \E b \in blocks' : b.at = result'
    <3>1. [at |-> p, len |-> k] \in blocks' /\ [at |-> p, len |-> k].at = p
      BY <1>5
    <3> QED BY <1>3, <1>5, <3>1
  <2>5. \A q \in Peer : anime[q] # None => \E b \in blocks' : b.at = anime[q]
    BY <1>5 DEF PageInv, Paged
  <2>3. \A q \in Peer : anime[q] # result'
    BY <1>3, <1>5 DEF PageInv, Paged
  <2>4. \A b \in blocks' : Owned(b)' \/ b.at = result'
    BY <1>1, <1>5 DEF PageInv, Owned
  <2> QED BY <1>1, <1>5, <2>1, <2>2, <2>3, <2>4, <2>5 DEF PageInv, Paged
<1>6. ASSUME NEW k \in 1 .. MaxPages, Heap!Alloc(k)
      PROVE  PageInv'
  <2>1. /\ HeapOK'
        /\ \/ Heap!Refuse
           \/ \E p \in Heap!Page :
                /\ result' = p /\ blocks' = blocks \cup {[at |-> p, len |-> k]}
                /\ \A b \in blocks : b.at # p
    BY <1>6, AllocGives DEF PageInv
  <2> QED BY <1>4, <1>5, <2>1
<1> QED BY <1>2, <1>4, <1>6

(* np_anime and np_anime_src are set to what was loaded. *)
LEMMA StoreKeepsPages ==
  ASSUME TypeOK, PageInv, Store
  PROVE  PageInv'
<1>1. /\ n \in Peer /\ anime \in [Peer -> Heap!Page \cup {None}] /\ pc = "store"
      /\ anime' = [anime EXCEPT ![n] = result] /\ pc' = "object" /\ n' = n
      /\ UNCHANGED <<page, spill, blocks>> /\ result' = None
  BY DEF TypeOK, Store, At, Goto
<1>2. /\ anime[n] = None /\ result # None /\ Paged(result)
      /\ \A p \in Peer : anime[p] # result
      /\ \A b \in blocks : Owned(b) \/ b.at = result
  BY <1>1 DEF PageInv, Load
<1>3. \A p \in Peer : anime'[p] = IF p = n THEN result ELSE anime[p]
  BY <1>1
<1>4. HeapOK'
  BY <1>1 DEF PageInv, HeapOK, Heap!TypeOK, Heap!Disjoint, Heap!TableExact, Heap!Pages
<1>5. \A p, q \in Peer : anime'[p] # None /\ anime'[p] = anime'[q] => p = q
  BY <1>2, <1>3 DEF PageInv
<1>6. ASSUME NEW p \in Peer, anime'[p] # None
      PROVE  \E b \in blocks' : b.at = anime'[p]
  BY <1>1, <1>2, <1>3, <1>6 DEF PageInv, Paged
<1>7. ASSUME NEW b \in blocks'
      PROVE  \E p \in Peer : anime'[p] = b.at
  <2>1. CASE b.at = result
    BY <1>1, <1>3, <2>1
  <2>2. CASE b.at # result
    <3>1. PICK p \in Peer : anime[p] = b.at
      BY <1>1, <1>2, <2>2 DEF Owned
    <3>2. anime[n] # b.at
      BY <1>2, <3>1, <1>1, PeerSlotAssumption
         DEF PageInv, HeapOK, Heap!TypeOK, Heap!Block, Heap!Page
    <3> QED BY <1>3, <3>1, <3>2
  <2> QED BY <2>1, <2>2
<1> QED BY <1>1, <1>4, <1>5, <1>6, <1>7 DEF PageInv, Paged, Owned, Load

-----------------------------------------------------------------------------
(* Every step. *)

(* The next record, or the end of the frame. *)
LEMMA NextRecordType ==
  ASSUME TypeOK, NextRecord
  PROVE  /\ n' \in Peer /\ pc' \in {"check", "objects"}
         /\ pc' = "check" => n' = n + 1 /\ n < NPeer
         /\ pc' = "objects" => n' = 1 /\ n = NPeer
BY PeerSlotAssumption DEF TypeOK, NextRecord, Peer

(* What net_free or net_alloc does is what a user of the heap does. *)
Use ==
  \/ Heap!Next \/ Heap!Refuse
  \/ blocks' = {} /\ \A q \in Heap!Page : page'[q] = 0

(* The test of np_stage and np_timer, and np_free. *)
LEMMA CheckStep ==
  ASSUME TypeOK, PageInv, Check
  PROVE  TypeOK' /\ PageInv' /\ (Use \/ UNCHANGED heapVars)
<1>1. pc = "check" /\ UNCHANGED <<mario, timer, dst, zeroed, t>>
  BY DEF Check, At, udpVars
<1>2. ASSUME ForgetObject, NextRecord
      PROVE  TypeOK' /\ PageInv' /\ (Use \/ UNCHANGED heapVars)
  <2>1. PageInv'
    BY <1>1, <1>2, NextRecordType, PagesKept DEF ForgetObject, Load
  <2>2. obj' \in [Peer -> Object \cup {None}]
    BY <1>2 DEF ForgetObject, TypeOK
  <2>3. TypeOK'
    BY <1>1, <1>2, <2>1, <2>2, NextRecordType DEF ForgetObject, TypeOK, PageInv, HeapOK
  <2> QED BY <1>2, <2>1, <2>3 DEF ForgetObject
<1>3. ASSUME NpFree, NextRecord
      PROVE  TypeOK' /\ PageInv' /\ (Use \/ UNCHANGED heapVars)
  <2>1. FreePages /\ EndObject
    BY <1>3 DEF NpFree
  <2>2. PageInv'
    BY <1>1, <1>3, <2>1, NextRecordType, NpFreeGivesBack DEF Load
  <2>3. UNCHANGED heapVars \/ \E b \in blocks : Heap!Free(b)
    BY <1>1, <2>1, FreePagesGivesBack
  <2>4. /\ obj' \in [Peer -> Object \cup {None}]
        /\ pool' \in [Object -> Peer \cup {None, Ended}]
        /\ shows' \in [Object -> Heap!Page \cup {None}]
    BY <2>1 DEF EndObject, TypeOK
  <2>5. anime' \in [Peer -> Heap!Page \cup {None}]
    BY <2>1 DEF FreePages, TypeOK
  <2>6. src' \in [Peer -> Anime \cup {None}] /\ loaded' \in [Peer -> Anime \cup {None, Torn}]
    BY <1>3 DEF NpFree, Forget, TypeOK
  <2>7. TypeOK'
    BY <1>1, <1>3, <2>2, <2>4, <2>5, <2>6, NextRecordType DEF TypeOK, PageInv, HeapOK
  <2> QED BY <2>2, <2>3, <2>7 DEF Use, Heap!Next
<1>4. ASSUME Goto("compare"), UNCHANGED <<peerVars, heapVars, pool, shows>>
      PROVE  TypeOK' /\ PageInv' /\ (Use \/ UNCHANGED heapVars)
  <2>1. PageInv'
    BY <1>1, <1>4, PagesKept DEF Goto, Load, peerVars
  <2>2. TypeOK'
    BY <1>1, <1>4, <2>1 DEF Goto, peerVars, TypeOK, PageInv, HeapOK
  <2> QED BY <1>4, <2>1, <2>2
<1> QED BY <1>2, <1>3, <1>4 DEF Check

(* The comparison of np_anime_src and np_anime_dst. *)
LEMMA CompareStep ==
  ASSUME TypeOK, PageInv, Compare
  PROVE  TypeOK' /\ PageInv' /\ (Use \/ UNCHANGED heapVars)
<1>1. pc = "compare" /\ UNCHANGED <<mario, timer, dst, zeroed, pool, shows, t, n>>
  BY DEF Compare, At, Goto, udpVars
<1>2. CASE pc' = "object" /\ UNCHANGED <<peerVars, heapVars>>
  <2>1. PageInv'
    BY <1>1, <1>2, PagesKept DEF Load, peerVars
  <2>2. TypeOK'
    BY <1>1, <1>2, <2>1 DEF peerVars, TypeOK, PageInv, HeapOK
  <2> QED BY <1>2, <2>1, <2>2
<1>3. CASE pc' = "test" /\ FreePages /\ Forget /\ UNCHANGED obj
  <2>1. PageInv'
    BY <1>1, <1>3, NpFreeGivesBack DEF Load
  <2>2. UNCHANGED heapVars \/ \E b \in blocks : Heap!Free(b)
    BY <1>1, <1>3, FreePagesGivesBack
  <2>3. anime' \in [Peer -> Heap!Page \cup {None}]
    BY <1>3 DEF FreePages, TypeOK
  <2>4. src' \in [Peer -> Anime \cup {None}] /\ loaded' \in [Peer -> Anime \cup {None, Torn}]
    BY <1>3 DEF Forget, TypeOK
  <2>5. TypeOK'
    BY <1>1, <1>3, <2>1, <2>3, <2>4 DEF TypeOK, PageInv, HeapOK, Load
  <2> QED BY <2>1, <2>2, <2>5 DEF Use, Heap!Next
<1> QED BY <1>2, <1>3 DEF Compare, Goto

(* The call of net_alloc. *)
LEMMA AllocStep ==
  ASSUME TypeOK, PageInv, Alloc
  PROVE  TypeOK' /\ PageInv' /\ Use
<1>1. PageInv' /\ (Heap!Refuse \/ \E k \in 1 .. MaxPages : Heap!Alloc(k))
  BY AllocKeepsPages
<1>2. /\ UNCHANGED <<timer, dst, zeroed, obj, anime, src, loaded, pool, shows, t, mario, n>>
      /\ pc' \in {"dma", "object"}
  BY DEF Alloc, At, Goto, udpVars, peerVars
<1>3. TypeOK'
  BY <1>1, <1>2 DEF TypeOK, PageInv, HeapOK, Load
<1> QED BY <1>1, <1>3 DEF Use, Heap!Next

(* np_anime and np_anime_src are set. *)
LEMMA StoreStep ==
  ASSUME TypeOK, PageInv, Store
  PROVE  TypeOK' /\ PageInv' /\ Use
<1>1. PageInv'
  BY StoreKeepsPages
<1>2. /\ UNCHANGED <<timer, dst, zeroed, obj, loaded, pool, shows, t, mario, n,
                      page, spill, blocks>>
      /\ pc' = "object" /\ result' = None
      /\ anime' = [anime EXCEPT ![n] = result] /\ src' = [src EXCEPT ![n] = dst[n]]
  BY DEF Store, At, Goto, udpVars
<1>3. anime' \in [Peer -> Heap!Page \cup {None}]
  BY <1>2 DEF TypeOK, Heap!TypeOK
<1>4. src' \in [Peer -> Anime \cup {None}]
  BY <1>2 DEF TypeOK
<1>5. TypeOK'
  BY <1>1, <1>2, <1>3, <1>4 DEF TypeOK, PageInv, HeapOK
<1> QED BY <1>1, <1>2, <1>5 DEF Use, Heap!Refuse

(* The steps of np_update_peer that do not touch the pages. *)
LEMMA OtherStep ==
  ASSUME TypeOK, PageInv, Test \/ Dma \/ ShowObject \/ Recount
  PROVE  TypeOK' /\ PageInv' /\ UNCHANGED heapVars
<1>1. CASE Test
  <2>1. UNCHANGED <<udpVars, peerVars, heapVars, pool, shows, t, mario, n>>
    BY <1>1 DEF Test, At, Goto
  <2>2. pc = "test" /\ pc' \in {"alloc", "object"}
    BY <1>1 DEF Test, At, Goto
  <2>3. PageInv'
    BY <2>1, <2>2, PagesKept DEF peerVars, Load
  <2> QED BY <2>1, <2>2, <2>3 DEF TypeOK, PageInv, HeapOK, udpVars, peerVars, Load
<1>2. CASE Dma
  <2>1. /\ UNCHANGED <<timer, dst, zeroed, obj, anime, src, heapVars, pool, shows, t, mario, n>>
        /\ pc = "dma" /\ pc' = "store"
    BY <1>2 DEF Dma, At, Goto, udpVars
  <2>2. PageInv'
    BY <2>1, PagesKept DEF Load
  <2>3. loaded' \in [Peer -> Anime \cup {None, Torn}]
    BY <1>2 DEF Dma, TypeOK
  <2> QED BY <2>1, <2>2, <2>3 DEF TypeOK, PageInv, HeapOK, Load
<1>3. CASE ShowObject
  <2>1. /\ UNCHANGED <<timer, dst, zeroed, anime, src, loaded, heapVars, mario, n>>
        /\ pc = "object" /\ pc' = "recount" /\ t' = timer[n]
        /\ shows' = [shows EXCEPT ![obj'[n]] = anime[n]]
    BY <1>3 DEF ShowObject, At, Goto, udpVars
  <2>2. PageInv'
    BY <2>1, PagesKept DEF Load
  <2>3. obj' \in [Peer -> Object \cup {None}] /\ pool' \in [Object -> Peer \cup {None, Ended}]
    BY <1>3 DEF ShowObject, TypeOK
  <2>4. shows' \in [Object -> Heap!Page \cup {None}]
    BY <2>1 DEF TypeOK
  <2>5. t' \in 0 .. Byte - 1
    BY <2>1 DEF TypeOK
  <2> QED BY <2>1, <2>2, <2>3, <2>4, <2>5 DEF TypeOK, PageInv, HeapOK
<1>4. CASE Recount
  <2>1. /\ UNCHANGED <<dst, obj, anime, src, loaded, heapVars, pool, shows, mario>>
        /\ pc = "recount" /\ t' = 0 /\ NextRecord
        /\ timer' = [timer EXCEPT ![n] = Less(t)]
        /\ zeroed' = [zeroed EXCEPT ![n] = @ /\ timer'[n] > Timeout]
    BY <1>4 DEF Recount, At, peerVars
  <2>2. PageInv'
    BY <2>1, NextRecordType, PagesKept DEF Load
  <2>3. Less(t) \in 0 .. Byte - 1 /\ 0 \in 0 .. Byte - 1
    BY PeerSlotAssumption DEF Less, TypeOK
  <2>4. timer' \in [Peer -> 0 .. Byte - 1]
    BY <2>1, <2>3 DEF TypeOK
  <2>5. zeroed' \in [Peer -> BOOLEAN]
    BY <2>1 DEF TypeOK
  <2> QED BY <2>1, <2>2, <2>3, <2>4, <2>5, NextRecordType DEF TypeOK, PageInv, HeapOK
<1> QED BY <1>1, <1>2, <1>3, <1>4

(* The steps of the game around np_update_peer. *)
LEMMA GameStep ==
  ASSUME TypeOK, PageInv, Objects \/ RunFrame \/ Reload \/ LeaveStage \/ EnterStage
  PROVE  TypeOK' /\ PageInv' /\ (Use \/ UNCHANGED heapVars)
<1>1. CASE Objects
  <2>1. /\ UNCHANGED <<timer, dst, zeroed, obj, anime, src, loaded, heapVars, n, t>>
        /\ pc = "objects" /\ pc' = "frame"
    BY <1>1 DEF Objects, udpVars, peerVars
  <2>2. PageInv'
    BY <2>1, PagesKept DEF Load
  <2>3. /\ pool' \in [Object -> Peer \cup {None, Ended}]
        /\ shows' \in [Object -> Heap!Page \cup {None}]
    BY <1>1 DEF Objects, TypeOK
  <2>4. mario' \in {"in", "left", "out"}
    BY <1>1 DEF Objects, TypeOK
  <2> QED BY <2>1, <2>2, <2>3, <2>4 DEF TypeOK, PageInv, HeapOK
<1>2. CASE RunFrame
  <2>1. UNCHANGED <<udpVars, peerVars, heapVars, worldVars, n, t>> /\ pc = "frame" /\ pc' = "check"
    BY <1>2 DEF RunFrame
  <2>2. PageInv'
    BY <2>1, PagesKept DEF Load, peerVars
  <2> QED BY <2>1, <2>2 DEF TypeOK, PageInv, HeapOK, udpVars, peerVars, worldVars
<1>3. CASE Reload
  <2>1. /\ UNCHANGED <<dst, spill, result, pool, shows, mario, n, t>> /\ pc' = "check"
        /\ timer' = [p \in Peer |-> 0] /\ zeroed' = [p \in Peer |-> FALSE]
        /\ obj' = [p \in Peer |-> None] /\ anime' = [p \in Peer |-> None]
        /\ src' = [p \in Peer |-> None] /\ loaded' = [p \in Peer |-> None]
        /\ page' = [q \in Heap!Page |-> 0] /\ blocks' = {}
    BY <1>3 DEF Reload, worldVars
  <2>2. HeapOK'
    BY <2>1, PeerSlotAssumption
    DEF PageInv, HeapOK, Heap!TypeOK, Heap!Disjoint, Heap!TableExact, Heap!Page
  <2>3. PageInv'
    BY <2>1, <2>2 DEF PageInv, Load, Owned, Paged
  <2>4. 0 \in 0 .. Byte - 1
    BY PeerSlotAssumption
  <2>5. TypeOK'
    BY <2>1, <2>3, <2>4 DEF TypeOK, PageInv, HeapOK
  <2> QED BY <2>1, <2>3, <2>5 DEF Use
<1>4. CASE LeaveStage
  <2>1. /\ UNCHANGED <<udpVars, peerVars, heapVars, pc, n, t>> /\ mario' = "left"
        /\ pool' = [o \in Object |-> None] /\ shows' = [o \in Object |-> None]
    BY <1>4 DEF LeaveStage
  <2>2. PageInv'
    BY <2>1, PagesKept DEF peerVars
  <2> QED BY <2>1, <2>2 DEF TypeOK, PageInv, HeapOK, udpVars, peerVars
<1>5. CASE EnterStage
  <2>1. UNCHANGED <<udpVars, peerVars, heapVars, pool, shows, pc, n, t>> /\ mario' = "in"
    BY <1>5 DEF EnterStage
  <2>2. PageInv'
    BY <2>1, PagesKept DEF peerVars
  <2> QED BY <2>1, <2>2 DEF TypeOK, PageInv, HeapOK, udpVars, peerVars
<1> QED BY <1>1, <1>2, <1>3, <1>4, <1>5

(* A datagram of the client. *)
LEMMA RecvUdpStep ==
  ASSUME TypeOK, PageInv, NEW p \in Peer, RecvUdp(p)
  PROVE  TypeOK' /\ PageInv' /\ UNCHANGED heapVars
<1>1. UNCHANGED <<obj, anime, src, heapVars, worldVars, pc, n, t>>
  BY DEF RecvUdp
<1>2. PageInv'
  BY <1>1, PagesKept
<1>3. PICK a \in Anime \cup {None}, v \in {0, Timeout} :
        /\ timer' = [timer EXCEPT ![p] = v]
        /\ dst' = [dst EXCEPT ![p] = a]
        /\ zeroed' = [zeroed EXCEPT ![p] = IF n = p /\ pc = "recount" THEN @
                                           ELSE v = 0 /\ n = p /\ pc \in Turn]
        /\ loaded' = [loaded EXCEPT ![p] = IF pc \in Load /\ n = p /\ a # dst[p]
                                           THEN Torn ELSE @]
  BY DEF RecvUdp
<1>4. v \in 0 .. Byte - 1
  BY PeerSlotAssumption
<1>5. timer' \in [Peer -> 0 .. Byte - 1] /\ dst' \in [Peer -> Anime \cup {None}]
  BY <1>3, <1>4 DEF TypeOK
<1>6. zeroed' \in [Peer -> BOOLEAN]
  <2>1. (v = 0 /\ n = p /\ pc \in Turn) \in BOOLEAN /\ zeroed[p] \in BOOLEAN
    BY DEF TypeOK
  <2> QED BY <1>3, <2>1 DEF TypeOK
<1>7. loaded' \in [Peer -> Anime \cup {None, Torn}]
  BY <1>3 DEF TypeOK
<1> QED BY <1>1, <1>2, <1>5, <1>6, <1>7 DEF TypeOK, PageInv, HeapOK, worldVars

(* The game starts with nothing shown and an empty heap. *)
LEMMA PagesInit == Init => TypeOK /\ PageInv
<1> SUFFICES ASSUME Init
             PROVE  TypeOK /\ PageInv
  OBVIOUS
<1> USE PeerSlotAssumption
<1>1. HeapOK
  BY DEF Init, Heap!Init, HeapOK, Heap!TypeOK, Heap!Disjoint, Heap!TableExact, Heap!Page
<1>2. blocks = {}
  BY DEF Init, Heap!Init
<1>3. PageInv
  BY <1>1, <1>2 DEF Init, PageInv, Load, Owned, Paged
<1>4. 1 \in Peer /\ 0 \in 0 .. Byte - 1
  BY DEF Peer
<1>5. TypeOK
  BY <1>1, <1>4 DEF Init, TypeOK, HeapOK
<1> QED BY <1>3, <1>5

(* A step keeps the pages in order, and uses the heap as it may be used. *)
LEMMA PagesStep ==
  ASSUME TypeOK, PageInv, [Next]_vars
  PROVE  TypeOK' /\ PageInv' /\ (Use \/ UNCHANGED heapVars)
<1>1. CASE UNCHANGED vars
  <2>1. UNCHANGED <<udpVars, peerVars, heapVars, worldVars, pc, n, t>>
    BY <1>1 DEF vars
  <2>2. PageInv'
    BY <2>1, PagesKept DEF peerVars
  <2> QED BY <2>1, <2>2 DEF TypeOK, PageInv, HeapOK, udpVars, peerVars, worldVars
<1>2. ASSUME NEW p \in Peer, RecvUdp(p)
      PROVE  TypeOK' /\ PageInv' /\ (Use \/ UNCHANGED heapVars)
  BY <1>2, RecvUdpStep
<1>3. CASE Check \/ Compare
  BY <1>3, CheckStep, CompareStep
<1>4. CASE Alloc \/ Store
  BY <1>4, AllocStep, StoreStep
<1>5. CASE Test \/ Dma \/ ShowObject \/ Recount
  BY <1>5, OtherStep
<1>6. CASE Objects \/ RunFrame \/ Reload \/ LeaveStage \/ EnterStage
  BY <1>6, GameStep
<1> QED BY <1>1, <1>2, <1>3, <1>4, <1>5, <1>6 DEF Next

(* The inductive invariant: the heap in order, each block some record's or *)
(* being loaded (np.c:97-121, 311-334).                                    *)
THEOREM PagesInvariant == Spec => [](TypeOK /\ PageInv)
<1>1. Init => TypeOK /\ PageInv
  BY PagesInit
<1>2. TypeOK /\ PageInv /\ [Next]_vars => (TypeOK /\ PageInv)'
  BY PagesStep
<1> QED BY <1>1, <1>2, PTL DEF Spec

(* Type correctness. *)
THEOREM SlotTypes == Spec => []TypeOK
BY PagesInvariant, PTL

(* No two records have the same pages, a record's animation is a block of  *)
(* the heap, and no block is lost (np.c:97-121, 311-334).                  *)
THEOREM NoPageLost == Spec => []PagesOwned
<1>1. PageInv => PagesOwned
  BY DEF PageInv, PagesOwned, Paged, Owned
<1> QED BY <1>1, PagesInvariant, PTL

(* The records use the heap only as the allocator's proofs suppose: they   *)
(* give back what they were given, and each block once (np.c:115-119,      *)
(* 314-318).                                                               *)
THEOREM HeapUsedRight == Spec => HeapUse
<1>1. TypeOK /\ PageInv /\ [Next]_vars =>
        [ \/ Heap!Next \/ Heap!Refuse
          \/ blocks' = {} /\ \A q \in Heap!Page : page'[q] = 0 ]_heapVars
  BY PagesStep DEF Use
<1> QED BY <1>1, PagesInvariant, PTL DEF Spec, HeapUse

-----------------------------------------------------------------------------
(* What is loaded. *)

AnimeInv ==
  /\ AnimeKnown
  /\ pc \in Load => src[n] = None
  /\ pc \in {"test", "alloc", "dma"} => loaded[n] \in {None, Torn}
  /\ pc = "store" => loaded[n] \in {dst[n], Torn}
  /\ pc \in {"alloc", "dma", "store"} => loaded[n] = Torn \/ dst[n] # None

(* Outside the loading of an animation all records are known. *)
LEMMA AnimeOutside ==
  ASSUME AnimeKnown', pc' \notin Load
  PROVE  AnimeInv'
BY DEF AnimeInv, Load

(* A datagram: an animation that replaces the one being loaded is marked.  *)
LEMMA AnimeRecv ==
  ASSUME TypeOK, AnimeInv, NEW p \in Peer, RecvUdp(p)
  PROVE  AnimeInv'
<1>1. PICK a \in Anime \cup {None} :
        /\ dst' = [dst EXCEPT ![p] = a]
        /\ loaded' = [loaded EXCEPT ![p] = IF pc \in Load /\ n = p /\ a # dst[p]
                                           THEN Torn ELSE @]
        /\ UNCHANGED <<obj, anime, src, pc, n>>
  BY DEF RecvUdp
<1>2. /\ n \in Peer /\ loaded \in [Peer -> Anime \cup {None, Torn}]
      /\ dst \in [Peer -> Anime \cup {None}]
  BY DEF TypeOK
<1>3. \A q \in Peer : loaded'[q] = loaded[q] \/ loaded'[q] = Torn
  BY <1>1, <1>2
<1>4. AnimeKnown'
  BY <1>1, <1>3 DEF AnimeInv, AnimeKnown
<1>5. pc \in Load => loaded'[n] = Torn \/ (loaded'[n] = loaded[n] /\ dst'[n] = dst[n])
  BY <1>1, <1>2
<1>6. {"test", "alloc", "dma"} \subseteq Load /\ {"alloc", "dma", "store"} \subseteq Load
  BY DEF Load
<1> QED BY <1>1, <1>4, <1>5, <1>6 DEF AnimeInv, Load

(* np_free: what had no pages keeps its np_anime_src, which names none. *)
LEMMA AnimeCheck ==
  ASSUME TypeOK, AnimeInv, Check
  PROVE  AnimeInv'
<1>1. /\ n \in Peer /\ loaded \in [Peer -> Anime \cup {None, Torn}]
      /\ src \in [Peer -> Anime \cup {None}] /\ anime \in [Peer -> Heap!Page \cup {None}]
  BY DEF TypeOK
<1>2. pc = "check" /\ \A p \in Peer : loaded[p] # Torn =>
                         loaded[p] = src[p] /\ (src[p] = None <=> anime[p] = None)
  BY DEF Check, At, AnimeInv, AnimeKnown, Load
<1>3. pc' \notin Load
  <2>1. NextRecord => pc' \notin Load
    BY NextRecordType DEF Load
  <2> QED BY <2>1 DEF Check, Goto, Load
<1>4. CASE UNCHANGED <<anime, src, loaded>>
  <2>1. AnimeKnown'
    BY <1>2, <1>4 DEF AnimeKnown
  <2> QED BY <1>3, <2>1, AnimeOutside
<1>5. CASE NpFree
  <2>1. anime' = [anime EXCEPT ![n] = None]
    BY <1>5 DEF NpFree, FreePages
  <2>2. CASE anime[n] = None
    <3>1. UNCHANGED <<src, loaded>> /\ anime' = anime
      BY <1>1, <1>5, <2>1, <2>2 DEF NpFree
    <3>2. AnimeKnown'
      BY <1>2, <3>1 DEF AnimeKnown
    <3> QED BY <1>3, <3>2, AnimeOutside
  <2>3. CASE anime[n] # None
    <3>1. src' = [src EXCEPT ![n] = None] /\ loaded' = [loaded EXCEPT ![n] = None]
      BY <1>5, <2>3 DEF NpFree, Forget
    <3>2. \A p \in Peer : /\ p = n => src'[p] = None /\ loaded'[p] = None /\ anime'[p] = None
                          /\ p # n => /\ src'[p] = src[p] /\ loaded'[p] = loaded[p]
                                      /\ anime'[p] = anime[p]
      BY <1>1, <2>1, <3>1
    <3>3. AnimeKnown'
      BY <1>2, <3>2 DEF AnimeKnown
    <3> QED BY <1>3, <3>3, AnimeOutside
  <2> QED BY <2>2, <2>3
<1> QED BY <1>4, <1>5 DEF Check, ForgetObject, peerVars

(* The loading, from the comparison to the store. *)
LEMMA AnimeLoad ==
  ASSUME TypeOK, PageInv, AnimeInv, Compare \/ Test \/ Alloc \/ Dma \/ Store
  PROVE  AnimeInv'
<1>1. /\ n \in Peer /\ loaded \in [Peer -> Anime \cup {None, Torn}]
      /\ src \in [Peer -> Anime \cup {None}] /\ anime \in [Peer -> Heap!Page \cup {None}]
      /\ dst \in [Peer -> Anime \cup {None}] /\ Torn \notin Anime \cup {None}
  BY PeerSlotAssumption DEF TypeOK
<1>2. n' = n /\ dst' = dst
  BY DEF Compare, Test, Alloc, Dma, Store, Goto, udpVars
<1>3. \A p \in Peer : p # n /\ loaded[p] # Torn =>
                        loaded[p] = src[p] /\ (src[p] = None <=> anime[p] = None)
  BY DEF AnimeInv, AnimeKnown
<1>4. CASE Compare
  <2>1. CASE pc' = "object" /\ UNCHANGED peerVars
    <3>1. AnimeKnown'
      BY <1>4, <2>1 DEF Compare, At, peerVars, AnimeInv, AnimeKnown, Load
    <3> QED BY <2>1, <3>1, AnimeOutside DEF Load
  <2>2. CASE pc' = "test" /\ FreePages /\ Forget
    <3>1. /\ src' = [src EXCEPT ![n] = None] /\ loaded' = [loaded EXCEPT ![n] = None]
          /\ anime' = [anime EXCEPT ![n] = None]
      BY <2>2 DEF FreePages, Forget
    <3>2. \A p \in Peer : /\ p = n => src'[p] = None /\ loaded'[p] = None
                          /\ p # n => /\ src'[p] = src[p] /\ loaded'[p] = loaded[p]
                                      /\ anime'[p] = anime[p]
      BY <1>1, <3>1
    <3>3. AnimeKnown'
      BY <1>2, <1>3, <2>2, <3>2 DEF AnimeKnown, Load
    <3> QED BY <1>1, <1>2, <2>2, <3>2, <3>3 DEF AnimeInv
  <2> QED BY <1>4, <2>1, <2>2 DEF Compare, Goto
<1>5. CASE Test \/ Alloc
  <2>1. /\ UNCHANGED <<anime, src, loaded>> /\ pc \in {"test", "alloc"}
        /\ pc = "test" => pc' = IF dst[n] # None THEN "alloc" ELSE "object"
        /\ pc = "alloc" => pc' \in {"dma", "object"}
    BY <1>5 DEF Test, Alloc, At, Goto, peerVars
  <2>2. src[n] = None /\ loaded[n] \in {None, Torn} /\ anime[n] = None
    BY <2>1 DEF AnimeInv, PageInv, Load
  <2>3. AnimeKnown'
    BY <1>2, <1>3, <2>1, <2>2 DEF AnimeKnown
  <2>4. pc' \in {"alloc", "dma"} => loaded[n] = Torn \/ dst[n] # None
    BY <2>1 DEF AnimeInv
  <2> QED BY <1>2, <2>1, <2>2, <2>3, <2>4 DEF AnimeInv, Load
<1>6. CASE Dma
  <2>1. pc = "dma" /\ pc' = "store" /\ UNCHANGED <<anime, src>>
    BY <1>6 DEF Dma, At, Goto
  <2>2. \A q \in Peer : q # n => loaded'[q] = Torn \/ loaded'[q] = loaded[q]
    BY <1>6 DEF Dma
  <2>3. loaded'[n] = IF loaded[n] = Torn THEN Torn ELSE dst[n]
    BY <1>1, <1>6 DEF Dma
  <2>4. AnimeKnown'
    BY <1>2, <1>3, <2>1, <2>2 DEF AnimeKnown, Load
  <2> QED BY <1>2, <2>1, <2>3, <2>4 DEF AnimeInv, Load
<1>7. CASE Store
  <2>1. /\ pc = "store" /\ pc' = "object" /\ loaded' = loaded
        /\ anime' = [anime EXCEPT ![n] = result] /\ src' = [src EXCEPT ![n] = dst[n]]
    BY <1>7 DEF Store, At, Goto
  <2>2. \A p \in Peer : /\ p = n => anime'[p] = result /\ src'[p] = dst[n]
                        /\ p # n => anime'[p] = anime[p] /\ src'[p] = src[p]
    BY <1>1, <2>1
  <2>3. loaded[n] = Torn \/ (loaded[n] = dst[n] /\ dst[n] # None)
    BY <2>1 DEF AnimeInv
  <2>4. result # None
    BY <2>1 DEF PageInv
  <2>5. AnimeKnown'
    BY <1>2, <1>3, <2>1, <2>2, <2>3, <2>4 DEF AnimeKnown
  <2> QED BY <2>1, <2>5, AnimeOutside DEF Load
<1> QED BY <1>4, <1>5, <1>6, <1>7

(* A step keeps it. *)
LEMMA AnimeStep ==
  ASSUME TypeOK, PageInv, AnimeInv, [Next]_vars
  PROVE  AnimeInv'
<1>1. CASE Compare \/ Test \/ Alloc \/ Dma \/ Store
  BY <1>1, AnimeLoad
<1>2. CASE Check
  BY <1>2, AnimeCheck
<1>3. ASSUME NEW p \in Peer, RecvUdp(p)
      PROVE  AnimeInv'
  BY <1>3, AnimeRecv
<1>4. CASE Reload
  <2>1. /\ anime' = [p \in Peer |-> None] /\ src' = [p \in Peer |-> None]
        /\ loaded' = [p \in Peer |-> None] /\ pc' = "check"
    BY <1>4 DEF Reload
  <2>2. AnimeKnown'
    BY <2>1 DEF AnimeKnown
  <2> QED BY <2>1, <2>2, AnimeOutside DEF Load
<1>5. CASE ShowObject \/ Recount \/ Objects \/ RunFrame
  <2>1. UNCHANGED <<anime, src, loaded>> /\ pc \notin Load
    BY <1>5 DEF ShowObject, Recount, Objects, RunFrame, At, peerVars, Load
  <2>2. pc' \notin Load
    <3>1. NextRecord => pc' \notin Load
      BY NextRecordType DEF Load
    <3> QED BY <1>5, <3>1 DEF ShowObject, Recount, Objects, RunFrame, Goto, Load
  <2>3. AnimeKnown'
    BY <2>1, <2>2 DEF AnimeInv, AnimeKnown
  <2> QED BY <2>2, <2>3, AnimeOutside
<1>6. CASE LeaveStage \/ EnterStage \/ UNCHANGED vars
  <2>1. UNCHANGED <<anime, src, loaded, dst, pc, n>>
    BY <1>6 DEF LeaveStage, EnterStage, vars, udpVars, peerVars
  <2> QED BY <2>1 DEF AnimeInv, AnimeKnown
<1> QED BY <1>1, <1>2, <1>3, <1>4, <1>5, <1>6 DEF Next

(* The inductive invariant of the animations. *)
THEOREM AnimeInvariant == Spec => []AnimeInv
<1>1. Init => AnimeInv
  <2> SUFFICES ASSUME Init
               PROVE  AnimeInv
    OBVIOUS
  <2>1. AnimeKnown
    BY DEF Init, AnimeKnown
  <2> QED BY <2>1 DEF Init, AnimeInv, Load
<1>2. TypeOK /\ PageInv /\ AnimeInv /\ [Next]_vars => AnimeInv'
  BY AnimeStep
<1> QED BY <1>1, <1>2, PagesInvariant, PTL DEF Spec

(* np_anime_src names what is loaded, unless np_anime_dst was replaced     *)
(* while it was being loaded (np.c:311-334).                               *)
THEOREM AnimationsKnown == Spec => []AnimeKnown
<1>1. AnimeInv => AnimeKnown
  BY DEF AnimeInv
<1> QED BY <1>1, AnimeInvariant, PTL

-----------------------------------------------------------------------------
(* The timers. *)

FadeInv ==
  /\ PeerFades
  /\ pc \in Turn /\ timer[n] = 0 => zeroed[n]
  /\ pc = "recount" /\ (t = 0 \/ t > Timeout) => zeroed[n]

(* np_timer-- of a timer that has not run out is one less. *)
LEMMA LessOne == \A v \in 1 .. Byte - 1 : Less(v) = v - 1
BY PeerSlotAssumption DEF Less

(* A datagram brings a timer that is not beyond NP_TIMEOUT, and a 0 within *)
(* the record's turn is remembered until the decrement.                    *)
LEMMA FadeRecv ==
  ASSUME TypeOK, FadeInv, NEW p \in Peer, RecvUdp(p)
  PROVE  FadeInv'
<1>1. PICK v \in {0, Timeout} :
        /\ timer' = [timer EXCEPT ![p] = v]
        /\ zeroed' = [zeroed EXCEPT ![p] = IF n = p /\ pc = "recount" THEN @
                                           ELSE v = 0 /\ n = p /\ pc \in Turn]
        /\ UNCHANGED <<pc, n, t>>
  BY DEF RecvUdp
<1>2. /\ n \in Peer /\ timer \in [Peer -> 0 .. Byte - 1] /\ zeroed \in [Peer -> BOOLEAN]
      /\ Timeout \in Nat /\ Byte \in Nat
  BY PeerSlotAssumption DEF TypeOK
<1>3. \A q \in Peer : q # p => timer'[q] = timer[q] /\ zeroed'[q] = zeroed[q]
  BY <1>1, <1>2
<1>4. timer'[p] = v /\ ~(timer'[p] > Timeout)
  BY <1>1, <1>2
<1>5. PeerFades'
  BY <1>3, <1>4 DEF FadeInv, PeerFades
<1>6. zeroed'[p] = IF n = p /\ pc = "recount" THEN zeroed[p] ELSE v = 0 /\ n = p /\ pc \in Turn
  BY <1>1, <1>2
<1>7. ASSUME pc' \in Turn, timer'[n'] = 0
      PROVE  zeroed'[n']
  <2>1. pc # "recount" /\ pc \in Turn /\ n' = n
    BY <1>1, <1>7 DEF Turn, Load
  <2>2. CASE n = p
    BY <1>4, <1>6, <1>7, <2>1, <2>2
  <2>3. CASE n # p
    BY <1>2, <1>3, <1>7, <2>1, <2>3 DEF FadeInv
  <2> QED BY <2>2, <2>3
<1>8. ASSUME pc' = "recount", t' = 0 \/ t' > Timeout
      PROVE  zeroed'[n']
  <2>1. pc = "recount" /\ n' = n /\ zeroed[n]
    BY <1>1, <1>8 DEF FadeInv
  <2>2. zeroed'[n] = zeroed[n]
    BY <1>2, <1>3, <1>6, <2>1
  <2> QED BY <2>1, <2>2
<1> QED BY <1>5, <1>7, <1>8 DEF FadeInv

(* np_timer-- goes beyond NP_TIMEOUT only from 0, or from beyond it. *)
LEMMA FadeRecount ==
  ASSUME TypeOK, FadeInv, Recount
  PROVE  FadeInv'
<1>1. /\ pc = "recount" /\ t' = 0 /\ NextRecord
      /\ timer' = [timer EXCEPT ![n] = Less(t)]
      /\ zeroed' = [zeroed EXCEPT ![n] = @ /\ timer'[n] > Timeout]
  BY DEF Recount, At
<1>2. /\ n \in Peer /\ timer \in [Peer -> 0 .. Byte - 1] /\ zeroed \in [Peer -> BOOLEAN]
      /\ Timeout \in Nat /\ Byte \in Nat /\ t \in 0 .. Byte - 1
  BY PeerSlotAssumption DEF TypeOK
<1>3. \A q \in Peer : q # n => timer'[q] = timer[q] /\ zeroed'[q] = zeroed[q]
  BY <1>1, <1>2
<1>4. timer'[n] = Less(t)
  BY <1>1, <1>2
<1>5. ASSUME Less(t) > Timeout
      PROVE  zeroed[n]
  <2>1. CASE t = 0
    BY <1>1, <2>1 DEF FadeInv
  <2>2. CASE t # 0
    <3>1. t \in 1 .. Byte - 1
      BY <1>2, <2>2
    <3>2. Less(t) = t - 1
      BY <3>1, LessOne
    <3>3. t > Timeout
      BY <1>2, <1>5, <3>2
    <3> QED BY <1>1, <3>3 DEF FadeInv
  <2> QED BY <2>1, <2>2
<1>6. timer'[n] > Timeout => zeroed'[n]
  <2>1. zeroed'[n] = (zeroed[n] /\ timer'[n] > Timeout)
    BY <1>1, <1>2
  <2> QED BY <1>4, <1>5, <2>1
<1>7. PeerFades'
  BY <1>3, <1>6 DEF FadeInv, PeerFades
<1>8. pc' \notin Turn /\ pc' # "recount"
  BY <1>1, NextRecordType DEF Turn, Load
<1> QED BY <1>7, <1>8 DEF FadeInv

(* A step keeps the timers. *)
LEMMA FadeStep ==
  ASSUME TypeOK, FadeInv, [Next]_vars
  PROVE  FadeInv'
<1>1. ASSUME NEW p \in Peer, RecvUdp(p)
      PROVE  FadeInv'
  BY <1>1, FadeRecv
<1>2. CASE Recount
  BY <1>2, FadeRecount
<1>3. CASE Check
  <2>1. pc = "check" /\ UNCHANGED <<timer, zeroed>>
    BY <1>3 DEF Check, At, udpVars
  <2>2. PeerFades'
    BY <2>1 DEF FadeInv, PeerFades
  <2>3. CASE NextRecord
    BY <2>2, <2>3, NextRecordType DEF FadeInv, Turn, Load
  <2>4. CASE timer[n] # 0 /\ pc' = "compare" /\ n' = n
    BY <2>1, <2>2, <2>4 DEF FadeInv
  <2> QED BY <1>3, <2>3, <2>4 DEF Check, Faded, Goto
<1>4. CASE Compare \/ Test \/ Alloc \/ Dma \/ Store
  <2>1. UNCHANGED <<timer, zeroed, n>>
    BY <1>4 DEF Compare, Test, Alloc, Dma, Store, Goto, udpVars
  <2>2. pc \in Turn /\ pc' \in Turn
    <3>1. CASE Compare
      BY <3>1 DEF Compare, At, Goto, Turn, Load
    <3>2. CASE Test
      BY <3>2 DEF Test, At, Goto, Turn, Load
    <3>3. CASE Alloc
      BY <3>3 DEF Alloc, At, Goto, Turn, Load
    <3>4. CASE Dma \/ Store
      BY <3>4 DEF Dma, Store, At, Goto, Turn, Load
    <3> QED BY <1>4, <3>1, <3>2, <3>3, <3>4
  <2>3. pc' # "recount"
    BY <2>2 DEF Turn, Load
  <2> QED BY <2>1, <2>2, <2>3 DEF FadeInv, PeerFades
<1>5. CASE ShowObject
  <2>1. UNCHANGED <<timer, zeroed, n>> /\ pc \in Turn /\ pc' = "recount" /\ t' = timer[n]
    BY <1>5 DEF ShowObject, At, Goto, udpVars, Turn
  <2>2. n \in Peer
    BY DEF TypeOK
  <2> QED BY <2>1, <2>2 DEF FadeInv, PeerFades, Turn, Load
<1>6. CASE Reload
  <2>1. timer' = [p \in Peer |-> 0] /\ pc' = "check"
    BY <1>6 DEF Reload
  <2>2. Timeout \in Nat
    BY PeerSlotAssumption
  <2>3. PeerFades'
    BY <2>1, <2>2 DEF PeerFades
  <2> QED BY <2>1, <2>3 DEF FadeInv, Turn, Load
<1>7. CASE Objects \/ RunFrame
  <2>1. UNCHANGED <<timer, zeroed>> /\ pc' \in {"frame", "check"}
    BY <1>7 DEF Objects, RunFrame, udpVars
  <2> QED BY <2>1 DEF FadeInv, PeerFades, Turn, Load
<1>8. CASE LeaveStage \/ EnterStage \/ UNCHANGED vars
  <2>1. UNCHANGED <<timer, zeroed, pc, n, t>>
    BY <1>8 DEF LeaveStage, EnterStage, vars, udpVars
  <2> QED BY <2>1 DEF FadeInv, PeerFades
<1> QED BY <1>1, <1>2, <1>3, <1>4, <1>5, <1>6, <1>7, <1>8 DEF Next

(* The inductive invariant of the timers: a record that is shown though    *)
(* its timer is 0, or beyond NP_TIMEOUT, had a 0 come within its turn.     *)
THEOREM FadeInvariant == Spec => []FadeInv
<1>1. Init => FadeInv
  <2> SUFFICES ASSUME Init
               PROVE  FadeInv
    OBVIOUS
  <2>1. Timeout \in Nat
    BY PeerSlotAssumption
  <2>2. PeerFades
    BY <2>1 DEF Init, PeerFades
  <2> QED BY <2>2 DEF Init, FadeInv, Turn, Load
<1>2. TypeOK /\ FadeInv /\ [Next]_vars => FadeInv'
  BY FadeStep
<1> QED BY <1>1, <1>2, PagesInvariant, PTL DEF Spec

(* A timer goes beyond NP_TIMEOUT only when a 0 came between the test and  *)
(* the decrement (np.c:305, 379).                                          *)
THEOREM TimersRunOut == Spec => []PeerFades
<1>1. FadeInv => PeerFades
  BY DEF FadeInv
<1> QED BY <1>1, FadeInvariant, PTL

-----------------------------------------------------------------------------
(* The objects. *)

InStage ==
  mario = "in" =>
    /\ \A p \in Peer : obj[p] # None => pool[obj[p]] = p
    /\ \A p \in Peer : obj[p] # None /\ ~(p = n /\ pc \in Turn) => shows[obj[p]] = anime[p]
    /\ pc = "frame" => \A o \in Object : pool[o] # None => pool[o] \in Peer /\ obj[pool[o]] = o

(* Without a stage there are no objects, and one frame without obj_mario   *)
(* has all records forget theirs.                                          *)
OffStage ==
  mario # "in" =>
    /\ pc \in {"frame", "check", "objects"}
    /\ \A o \in Object : pool[o] = None
    /\ \A p \in Peer : mario = "out" \/ pc = "objects" \/ (pc = "check" /\ p < n) => obj[p] = None

ObjectInv == (pc \in {"frame", "objects"} => n = 1) /\ InStage /\ OffStage

(* np_free of the record in turn, or nothing, in a stage. *)
LEMMA ObjectCheckIn ==
  ASSUME TypeOK, PageInv, ObjectInv, Check, mario = "in"
  PROVE  ObjectInv'
<1>1. /\ n \in Peer /\ obj \in [Peer -> Object \cup {None}] /\ None \notin Object
      /\ anime \in [Peer -> Heap!Page \cup {None}]
      /\ pool \in [Object -> Peer \cup {None, Ended}]
      /\ shows \in [Object -> Heap!Page \cup {None}]
  BY PeerSlotAssumption DEF TypeOK
<1>2. pc = "check" /\ mario' = "in"
  BY DEF Check, At
<1>3. /\ \A p \in Peer : obj[p] # None => pool[obj[p]] = p
      /\ \A p \in Peer : obj[p] # None => shows[obj[p]] = anime[p]
  BY <1>2 DEF ObjectInv, InStage, Turn, Load
<1>4. CASE NpFree /\ NextRecord
  <2>1. /\ pool' = [o \in Object |-> IF o = obj[n] THEN Ended ELSE pool[o]]
        /\ shows' = [o \in Object |-> IF o = obj[n] THEN None ELSE shows[o]]
        /\ obj' = [obj EXCEPT ![n] = None] /\ anime' = [anime EXCEPT ![n] = None]
    BY <1>4 DEF NpFree, EndObject, FreePages
  <2>2. obj'[n] = None /\ \A p \in Peer : p # n => obj'[p] = obj[p] /\ anime'[p] = anime[p]
    BY <1>1, <2>1
  <2>3. ASSUME NEW p \in Peer, obj'[p] # None
        PROVE  pool'[obj'[p]] = p /\ shows'[obj'[p]] = anime'[p]
    <3>1. p # n /\ obj'[p] = obj[p] /\ anime'[p] = anime[p] /\ obj[p] \in Object
      BY <1>1, <2>2, <2>3
    <3>2. obj[p] # obj[n]
      <4>1. obj[p] # None /\ pool[obj[p]] = p
        BY <1>3, <2>3, <3>1
      <4>2. obj[n] # None => pool[obj[n]] = n
        BY <1>1, <1>3
      <4> QED BY <3>1, <4>1, <4>2
    <3>3. pool'[obj[p]] = pool[obj[p]] /\ shows'[obj[p]] = shows[obj[p]]
      BY <2>1, <3>1, <3>2
    <3> QED BY <1>3, <2>3, <3>1, <3>3
  <2>4. (pc' \in {"frame", "objects"} => n' = 1) /\ pc' # "frame"
    BY <1>4, NextRecordType
  <2> QED BY <1>2, <2>3, <2>4 DEF ObjectInv, InStage, OffStage
<1>5. CASE Goto("compare") /\ UNCHANGED <<peerVars, pool, shows>>
  <2>1. pc' = "compare" /\ UNCHANGED <<obj, anime, pool, shows>>
    BY <1>5 DEF Goto, peerVars
  <2> QED BY <1>2, <1>3, <2>1 DEF ObjectInv, InStage, OffStage
<1> QED BY <1>4, <1>5 DEF Check

(* Without a stage the record in turn forgets its object. *)
LEMMA ObjectCheckOff ==
  ASSUME TypeOK, ObjectInv, Check, mario # "in"
  PROVE  ObjectInv'
<1>1. /\ n \in Peer /\ obj \in [Peer -> Object \cup {None}] /\ NPeer \in Nat /\ Peer = 1 .. NPeer
  BY PeerSlotAssumption DEF TypeOK, Peer
<1>2. /\ pc = "check" /\ mario' = mario /\ NextRecord /\ pool' = pool
      /\ obj' = [obj EXCEPT ![n] = None]
  BY DEF Check, At, ForgetObject
<1>3. \A p \in Peer : mario = "out" \/ p < n => obj[p] = None
  BY <1>2 DEF ObjectInv, OffStage
<1>4. \A p \in Peer : obj'[p] = IF p = n THEN None ELSE obj[p]
  BY <1>1, <1>2
<1>5. \A p \in Peer : mario = "out" \/ p < n + 1 => obj'[p] = None
  <2>1. \A p \in Peer : p < n + 1 => p < n \/ p = n
    BY <1>1
  <2> QED BY <1>3, <1>4, <2>1
<1>6. CASE pc' = "check" /\ n' = n + 1
  BY <1>2, <1>5, <1>6 DEF ObjectInv, InStage, OffStage
<1>7. CASE pc' = "objects" /\ n' = 1 /\ n = NPeer
  <2>1. \A p \in Peer : obj'[p] = None
    <3>1. \A p \in Peer : p < NPeer + 1
      BY <1>1
    <3> QED BY <1>5, <1>7, <3>1
  <2> QED BY <1>2, <1>7, <2>1 DEF ObjectInv, InStage, OffStage
<1> QED BY <1>2, <1>6, <1>7, NextRecordType

(* The object of the record in turn is there and shows its animation. *)
LEMMA ObjectShow ==
  ASSUME TypeOK, PageInv, ObjectInv, ShowObject
  PROVE  ObjectInv'
<1>1. /\ n \in Peer /\ obj \in [Peer -> Object \cup {None}] /\ None \notin Object
      /\ None \notin Peer
      /\ pool \in [Object -> Peer \cup {None, Ended}]
      /\ shows \in [Object -> Heap!Page \cup {None}]
  BY PeerSlotAssumption DEF TypeOK, Peer
<1>2. /\ pc = "object" /\ pc' = "recount" /\ UNCHANGED <<mario, anime, n>>
      /\ shows' = [shows EXCEPT ![obj'[n]] = anime[n]]
  BY DEF ShowObject, At, Goto
<1>3. mario = "in"
  BY <1>2 DEF ObjectInv, OffStage
<1>4. /\ \A p \in Peer : obj[p] # None => pool[obj[p]] = p
      /\ \A p \in Peer : obj[p] # None /\ p # n => shows[obj[p]] = anime[p]
  BY <1>2, <1>3 DEF ObjectInv, InStage
<1>5. /\ obj'[n] \in Object /\ pool'[obj'[n]] = n
      /\ \A p \in Peer : p # n => obj'[p] = obj[p]
      /\ \A p \in Peer : p # n /\ obj[p] # None => obj[p] # obj'[n] /\ pool'[obj[p]] = p
  <2>1. CASE obj[n] # None /\ UNCHANGED <<obj, pool>>
    BY <1>1, <1>4, <2>1
  <2>2. ASSUME NEW o \in Object, pool[o] = None,
               obj' = [obj EXCEPT ![n] = o], pool' = [pool EXCEPT ![o] = n]
        PROVE  /\ obj'[n] \in Object /\ pool'[obj'[n]] = n
               /\ \A p \in Peer : p # n => obj'[p] = obj[p]
               /\ \A p \in Peer : p # n /\ obj[p] # None => obj[p] # obj'[n] /\ pool'[obj[p]] = p
    <3>1. obj'[n] = o /\ pool'[o] = n /\ \A p \in Peer : p # n => obj'[p] = obj[p]
      BY <1>1, <2>2
    <3>2. ASSUME NEW p \in Peer, p # n, obj[p] # None
          PROVE  obj[p] # o /\ pool'[obj[p]] = p
      BY <1>1, <1>4, <2>2, <3>2
    <3> QED BY <3>1, <3>2
  <2> QED BY <2>1, <2>2 DEF ShowObject
<1>6. ASSUME NEW p \in Peer, obj'[p] # None
      PROVE  pool'[obj'[p]] = p /\ shows'[obj'[p]] = anime[p]
  <2>1. CASE p = n
    BY <1>1, <1>2, <1>5, <2>1
  <2>2. CASE p # n
    <3>1. obj[p] \in Object /\ obj[p] # obj'[n]
      BY <1>1, <1>5, <1>6, <2>2
    <3>2. shows'[obj[p]] = shows[obj[p]]
      BY <1>1, <1>2, <3>1
    <3> QED BY <1>4, <1>5, <1>6, <2>2, <3>2
  <2> QED BY <2>1, <2>2
<1> QED BY <1>2, <1>3, <1>6 DEF ObjectInv, InStage, OffStage

(* The objects' scripts. *)
LEMMA ObjectScripts ==
  ASSUME TypeOK, ObjectInv, Objects
  PROVE  ObjectInv'
<1>1. /\ obj \in [Peer -> Object \cup {None}] /\ pool \in [Object -> Peer \cup {None, Ended}]
      /\ None \notin Peer \cup Object /\ Ended \notin Peer \cup {None}
  BY PeerSlotAssumption DEF TypeOK, Peer
<1>2. /\ pc = "objects" /\ pc' = "frame" /\ UNCHANGED <<obj, anime, n>>
      /\ pool' = [o \in Object |-> IF o \in Gone THEN None ELSE pool[o]]
      /\ shows' = [o \in Object |-> IF o \in Gone THEN None ELSE shows[o]]
      /\ mario' = IF mario = "left" THEN "out" ELSE mario
  BY DEF Objects, peerVars
<1>3. n = 1
  BY <1>2 DEF ObjectInv
<1>4. CASE mario = "in"
  <2>1. /\ \A p \in Peer : obj[p] # None => pool[obj[p]] = p
        /\ \A p \in Peer : obj[p] # None => shows[obj[p]] = anime[p]
    BY <1>2, <1>4 DEF ObjectInv, InStage, Turn, Load
  <2>2. ASSUME NEW p \in Peer, obj[p] # None
        PROVE  pool'[obj[p]] = p /\ shows'[obj[p]] = anime[p]
    <3>1. obj[p] \in Object /\ pool[obj[p]] = p
      BY <1>1, <2>1, <2>2
    <3>2. obj[p] \notin Gone
      BY <1>1, <3>1 DEF Gone
    <3> QED BY <1>2, <2>1, <2>2, <3>1, <3>2
  <2>3. ASSUME NEW o \in Object, pool'[o] # None
        PROVE  pool'[o] \in Peer /\ obj[pool'[o]] = o
    <3>1. o \notin Gone /\ pool'[o] = pool[o]
      BY <1>2, <2>3
    <3>2. pool[o] \in Peer
      BY <1>1, <2>3, <3>1 DEF Gone
    <3> QED BY <3>1, <3>2 DEF Gone
  <2> QED BY <1>2, <1>3, <1>4, <2>2, <2>3 DEF ObjectInv, InStage, OffStage
<1>5. CASE mario # "in"
  <2>1. (\A o \in Object : pool[o] = None) /\ \A p \in Peer : obj[p] = None
    BY <1>2, <1>5 DEF ObjectInv, OffStage
  <2>2. \A o \in Object : pool'[o] = None
    BY <1>2, <2>1
  <2>3. mario' # "in"
    BY <1>2, <1>5
  <2> QED BY <1>2, <1>3, <2>1, <2>2, <2>3 DEF ObjectInv, InStage, OffStage
<1> QED BY <1>4, <1>5

(* A step keeps the objects right. *)
LEMMA ObjectStep ==
  ASSUME TypeOK, PageInv, ObjectInv, [Next]_vars
  PROVE  ObjectInv'
<1>1. CASE Check
  BY <1>1, ObjectCheckIn, ObjectCheckOff
<1>2. CASE ShowObject
  BY <1>2, ObjectShow
<1>3. CASE Objects
  BY <1>3, ObjectScripts
<1>4. CASE Compare \/ Test \/ Alloc \/ Dma \/ Store
  <2>1. /\ UNCHANGED <<obj, pool, shows, mario, n>>
        /\ pc \in Turn /\ pc' \in Turn
        /\ anime' = anime \/ \E a : anime' = [anime EXCEPT ![n] = a]
    <3>1. CASE Compare
      BY <3>1 DEF Compare, At, Goto, Turn, Load, peerVars, FreePages
    <3>2. CASE Test \/ Alloc
      BY <3>2 DEF Test, Alloc, At, Goto, Turn, Load, peerVars
    <3>3. CASE Dma \/ Store
      BY <3>3 DEF Dma, Store, At, Goto, Turn, Load
    <3> QED BY <1>4, <3>1, <3>2, <3>3
  <2>2. anime \in [Peer -> Heap!Page \cup {None}]
    BY DEF TypeOK
  <2>3. \A p \in Peer : p # n => anime'[p] = anime[p]
    BY <2>1, <2>2
  <2>4. mario = "in"
    BY <2>1 DEF ObjectInv, OffStage, Turn, Load
  <2>5. pc' \notin {"frame", "objects"}
    BY <2>1 DEF Turn, Load
  <2> QED BY <2>1, <2>3, <2>4, <2>5 DEF ObjectInv, InStage, OffStage
<1>5. CASE Recount
  <2>1. /\ UNCHANGED <<obj, anime, pool, shows, mario>>
        /\ pc = "recount" /\ NextRecord
    BY <1>5 DEF Recount, At, peerVars
  <2>2. mario = "in"
    BY <2>1 DEF ObjectInv, OffStage
  <2>3. pc \notin Turn
    BY <2>1 DEF Turn, Load
  <2>4. pc' # "frame" /\ (pc' = "objects" => n' = 1)
    BY <2>1, NextRecordType
  <2> QED BY <2>1, <2>2, <2>3, <2>4 DEF ObjectInv, InStage, OffStage
<1>6. CASE RunFrame
  <2>1. UNCHANGED <<obj, anime, pool, shows, mario, n>> /\ pc = "frame" /\ pc' = "check"
    BY <1>6 DEF RunFrame, peerVars, worldVars
  <2>2. n = 1 /\ \A p \in Peer : ~(p < 1)
    BY <2>1, PeerSlotAssumption DEF ObjectInv, Peer
  <2>3. InStage'
    BY <2>1 DEF ObjectInv, InStage, Turn, Load
  <2>4. OffStage'
    BY <2>1, <2>2 DEF ObjectInv, OffStage
  <2> QED BY <2>1, <2>3, <2>4 DEF ObjectInv
<1>7. CASE Reload
  <2>1. /\ UNCHANGED <<pool, mario>> /\ pc = "frame" /\ pc' = "check"
        /\ obj' = [p \in Peer |-> None]
    BY <1>7 DEF Reload, worldVars
  <2> QED BY <2>1 DEF ObjectInv, InStage, OffStage
<1>8. CASE LeaveStage
  <2>1. /\ pc' = "frame" /\ pc = "frame" /\ n' = n /\ mario' = "left"
        /\ pool' = [o \in Object |-> None]
    BY <1>8 DEF LeaveStage
  <2> QED BY <2>1 DEF ObjectInv, InStage, OffStage
<1>9. CASE EnterStage
  <2>1. /\ UNCHANGED <<obj, pool, pc, n>> /\ mario = "out" /\ mario' = "in"
    BY <1>9 DEF EnterStage, peerVars
  <2> QED BY <2>1 DEF ObjectInv, InStage, OffStage
<1>10. CASE (\E p \in Peer : RecvUdp(p)) \/ UNCHANGED vars
  <2>1. UNCHANGED <<obj, anime, pool, shows, mario, pc, n>>
    BY <1>10 DEF RecvUdp, vars, peerVars, worldVars
  <2> QED BY <2>1 DEF ObjectInv, InStage, OffStage
<1> QED BY <1>1, <1>2, <1>3, <1>4, <1>5, <1>6, <1>7, <1>8, <1>9, <1>10 DEF Next

(* The inductive invariant of the objects. *)
THEOREM ObjectInvariant == Spec => []ObjectInv
<1>1. Init => ObjectInv
  BY DEF Init, ObjectInv, InStage, OffStage
<1>2. TypeOK /\ PageInv /\ ObjectInv /\ [Next]_vars => ObjectInv'
  BY ObjectStep
<1> QED BY <1>1, <1>2, PagesInvariant, PTL DEF Spec

(* In a stage np_obj is an object created for that record, and after the   *)
(* objects' scripts each shown peer has one object, with her animation     *)
(* (np.c:265-273, np_object.c:11).                                         *)
THEOREM PeersShown == Spec => []ObjectsRight
<1>1. TypeOK /\ ObjectInv => ObjectsRight
  <2> SUFFICES ASSUME TypeOK, ObjectInv
               PROVE  ObjectsRight
    OBVIOUS
  <2>1. None \notin Object /\ obj \in [Peer -> Object \cup {None}]
    BY PeerSlotAssumption DEF TypeOK
  <2>2. ASSUME mario = "in", pc = "frame", NEW o \in Object, pool[o] # None
        PROVE  obj[pool[o]] = o /\ shows[o] = anime[pool[o]]
    <3>1. pool[o] \in Peer /\ obj[pool[o]] = o
      BY <2>2 DEF ObjectInv, InStage
    <3>2. obj[pool[o]] # None /\ pc \notin Turn
      BY <2>1, <2>2, <3>1 DEF Turn, Load
    <3> QED BY <2>2, <3>1, <3>2 DEF ObjectInv, InStage
  <2>3. mario = "in" => \A p \in Peer : obj[p] # None => pool[obj[p]] = p
    BY DEF ObjectInv, InStage
  <2> QED BY <2>2, <2>3 DEF ObjectsRight
<1> QED BY <1>1, ObjectInvariant, PagesInvariant, PTL
=============================================================================
