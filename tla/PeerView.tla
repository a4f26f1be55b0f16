------------------------------ MODULE PeerView ------------------------------
(***************************************************************************)
(* How a peer moves on the screen (server/src/np.c, np_update_peer): each  *)
(* frame her object goes a part of the way to where the last datagram put  *)
(* her; the part depends on how many frames lay between two datagrams.  An *)
(* angle is exact, in 16 bits; a coordinate is a float, and what is left   *)
(* of its way is rounded up here, to a sixteenth.                          *)
(***************************************************************************)
EXTENDS Integers

CONSTANTS
  NP_TIMEOUT, NP_DELTA_MAX,
  Turn,    \* bound: how far a datagram turns her
  Leap,    \* bound: how far away it puts her
  MaxRecv  \* bound: datagrams

(* Coordinates are those of a level, -16384 .. 16384. *)
ASSUME ViewAssumption ==
  /\ NP_TIMEOUT \in Nat /\ NP_TIMEOUT >= 30 * 5 + 15
  /\ NP_DELTA_MAX \in Int /\ NP_DELTA_MAX <= 10
  /\ Turn \subseteq Int
  /\ \A d \in Leap : d \in Nat /\ d <= 32768 * 16

VARIABLES
  rot,    \* the angle still to be turned, of s16
  dist,   \* the way still to go, in sixteenths
  np_timer, np_timer_prev, np_timer_delta,
  recvs   \* datagrams so far

viewVars == <<rot, dist, np_timer, np_timer_prev, np_timer_delta, recvs>>

S16(i) == ((i + 32768) % 65536) - 32768

(* C's division, towards zero. *)
Quotient(d, div) == IF d < 0 THEN -((-d) \div div) ELSE d \div div

Delay == IF np_timer_delta > 0 THEN np_timer_delta ELSE 1

InterpolateSNoSnap ==
  IF rot = 0 THEN 0
  ELSE S16(rot - Quotient(rot, (Delay * 3) \div 2))

(* interpolate_s: the s16 difference is the short way round. *)
InterpolateS ==
  IF rot > -64 /\ rot < 64 THEN 0
  ELSE S16(rot - Quotient(rot, (Delay * 3) \div 2))

(* interpolate_f, div = 1.5 * delay. *)
InterpolateF ==
  IF dist < 8 * 16 THEN 0
  ELSE dist - (2 * dist) \div (3 * Delay)

ViewInit ==
  /\ rot = 0 /\ dist = 0
  /\ np_timer = NP_TIMEOUT /\ np_timer_prev = 0 /\ np_timer_delta = 0
  /\ recvs = 0

RecvMove(a, d) ==
  /\ recvs < MaxRecv
  /\ recvs' = recvs + 1
  /\ rot' = S16(rot + a)
  /\ dist' = d
  /\ np_timer' = NP_TIMEOUT
  /\ UNCHANGED <<np_timer_prev, np_timer_delta>>

Delta ==
  LET delta == np_timer - np_timer_prev
  IN IF delta < NP_DELTA_MAX THEN delta ELSE NP_DELTA_MAX

UpdatePeer ==
  /\ np_timer > 0
  /\ rot' = InterpolateS
  /\ dist' = InterpolateF
  /\ IF np_timer = NP_TIMEOUT
     THEN np_timer_delta' = Delta /\ UNCHANGED np_timer_prev
     ELSE np_timer_prev' = np_timer /\ UNCHANGED np_timer_delta
  /\ np_timer' = np_timer - 1
  /\ UNCHANGED recvs

ViewNext ==
  \/ \E a \in Turn, d \in Leap : RecvMove(a, d)
  \/ UpdatePeer

-----------------------------------------------------------------------------
(* However the datagrams were spaced, a peer from whom nothing more comes  *)
(* stands where she last was, turned as she last was, before she begins to *)
(* fade: the steps do not die out at a distance, and a half turn does not  *)
(* swing to and fro (np.c:57-83, 347-366).                                 *)
Settled == np_timer < 16 => rot = 0 /\ dist = 0
=============================================================================
