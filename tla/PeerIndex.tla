------------------------------ MODULE PeerIndex ------------------------------
(***************************************************************************)
(* How players are numbered (server/sm64net.py, NET_PL.sync and            *)
(* NET_PL.cmd_col).  The server keeps one table with NP_LEN slots; every   *)
(* game keeps a table np_data of the same length in which record 0 is its  *)
(* own player and records 1 .. NP_LEN-1 are its peers.  The server         *)
(* renumbers every message it forwards from the sender's slot to the       *)
(* record of the receiver.                                                 *)
(***************************************************************************)
EXTENDS Integers

CONSTANT NP_LEN   \* slots of the server table, records of a game's np_data

ASSUME NPLenAssumption == NP_LEN \in Nat \ {0}

Slots == 0 .. NP_LEN - 1

(***************************************************************************)
(* The record of the viewer in slot i that stands for the player in slot   *)
(* s.  Slot 0 cannot be record 0 of another game, so it borrows the number *)
(* the viewer's own slot leaves free.                                      *)
(***************************************************************************)
PeerIndexNoSwap(i, s) == s
PeerIndexPastEnd(i, s) == IF s # 0 THEN s ELSE NP_LEN
PeerIndex(i, s) == IF s # 0 THEN s ELSE i
=============================================================================
