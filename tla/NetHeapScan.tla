----------------------------- MODULE NetHeapScan -----------------------------
(***************************************************************************)
(* net_alloc with its loops (server/src/net_mem.c:15-34), one test of a    *)
(* byte per step.  The C loop does not test every page: a taken byte at    *)
(* at+i moves it beyond that byte.  NetHeap is what it must implement.     *)
(***************************************************************************)
EXTENDS NetHeap

VARIABLES
  wanted,   \* pages asked for; 0 when no search is under way
  at, i     \* the loops' counters, page and i in the code

loopVars == <<wanted, at, i>>
scanVars == <<vars, loopVars>>

LoopTypeOK ==
  /\ wanted \in 0 .. MaxPages
  /\ at \in Page
  /\ i \in 0 .. MaxPages

ScanInit ==
  /\ Init
  /\ wanted = 0 /\ at = 0 /\ i = 0

(* net_alloc is called; no animation of the game is empty. *)
Search(n) ==
  /\ wanted = 0
  /\ wanted' = n /\ at' = 0 /\ i' = 0
  /\ UNCHANGED vars

TestFreeFirst ==
  /\ i < wanted
  /\ Zero(at)
  /\ i' = i + 1
  /\ UNCHANGED <<vars, wanted, at>>

(* The inner loop finds page at+i free. *)
TestFree ==
  /\ i < wanted
  /\ Zero(at + i)
  /\ i' = i + 1
  /\ UNCHANGED <<vars, wanted, at>>

(* goto cnt: page += i, and then the outer loop's page++. *)
SkipFar(p, k) == p + k + 2
SkipTo(p, k) == p + k + 1

Skip ==
  /\ i < wanted
  /\ ~Zero(at + i)
  /\ SkipTo(at, i) < PageLen
  /\ at' = SkipTo(at, i) /\ i' = 0
  /\ UNCHANGED <<vars, wanted>>

(* The outer loop ends: return NULL. *)
GiveUp ==
  /\ i < wanted
  /\ ~Zero(at + i)
  /\ SkipTo(at, i) >= PageLen
  /\ Refuse
  /\ wanted' = 0
  /\ UNCHANGED <<at, i>>

(* The inner loop ran through. *)
Found ==
  /\ wanted # 0
  /\ i = wanted
  /\ TakePages(at, wanted)
  /\ wanted' = 0
  /\ UNCHANGED <<at, i>>

ScanNext ==
  \/ \E n \in 1 .. MaxPages : Search(n)
  \/ TestFree \/ Skip \/ GiveUp \/ Found
  \/ wanted = 0 /\ (\E b \in blocks : Free(b)) /\ UNCHANGED loopVars

ScanSpec == ScanInit /\ [][ScanNext]_scanVars

-----------------------------------------------------------------------------
(* While it searches, all before page was ruled out, though most of it was *)
(* never tested, and all from page up to page+i is free.                   *)
ScanInv ==
  /\ LoopTypeOK
  /\ wanted # 0 => /\ i <= wanted
                   /\ \A c \in at .. at + i - 1 : Zero(c)
                   /\ \A p \in Page : p < at => ~Fits(p, wanted)

(* The loops allocate the first page from which the length fits, and       *)
(* return NULL only if there is none.                                      *)
FirstFit == Spec
=============================================================================
