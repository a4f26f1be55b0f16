------------------------------ MODULE MCPeerSlot ------------------------------
(* A small instance of PeerSlot: a short and a long animation. *)
EXTENDS PeerSlot, TLC

CONSTANTS short, long, o1, o2, o3, o4

MCAnime == {short, long}
MCSize == short :> 1 @@ long :> 2
MCObject == {o1, o2, o3, o4}

(* Objects of the pool are alike. *)
Alike == Permutations(MCObject)

(* The client's writes only where they can make a difference: in the       *)
(* record's own turn, and to the animation while that is read.  A write at *)
(* any other time commutes with the game's steps up to there.              *)
InTurn ==
  \A p \in Peer : pc' = pc =>
    /\ timer'[p] # timer[p] => n = p /\ pc \in Turn \cup {"check", "recount"}
    /\ dst'[p] # dst[p] => n = p /\ pc \in Load \cup {"compare"}
=============================================================================
