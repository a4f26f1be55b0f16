-------------------------------- MODULE Draw --------------------------------
(***************************************************************************)
(* How peers are drawn (server/src/np_shape.c): the game draws a player    *)
(* from what it keeps of Mario (pl_shape_data[0], the object he holds, how *)
(* his head is turned, the mode of the camera).  np_draw is called before  *)
(* each body, when it puts a peer's values there, and after it, when it    *)
(* puts Mario's back.                                                      *)
(***************************************************************************)
EXTENDS Integers

CONSTANT
  Others     \* peers with an object

ASSUME DrawAssumption == Others \in Nat

VARIABLES
  now,    \* the values the game draws with: whose they are
  prev,   \* np_draw's static copies and pl_shape_data[1]
  child,  \* shape_np_body.child: whose body
  drawn,  \* the object being drawn, -1: none
  mario   \* history: the values the game last gave Mario

drawVars == <<now, prev, child, drawn, mario>>

(* A peer's values are her number; of Mario's, there are two of each.      *)
Mario == {0, -1}
Look == {"pls", "obj_hold", "head_x", "head_y", "cam_mode"}

DrawInit ==
  /\ now = [l \in Look |-> 0] /\ mario = now
  /\ prev = now
  /\ child = 0 /\ drawn = -1

(* The game changes some of Mario's values: all but the head's angles      *)
(* often, those in first person.                                           *)
UpdateMario(l, v) ==
  /\ drawn = -1
  /\ now' = [now EXCEPT ![l] = v]
  /\ mario' = [mario EXCEPT ![l] = v]
  /\ UNCHANGED <<prev, child, drawn>>

(* arg 0, before the body; visible is NP_SHAPE_BODY.  rot_head_prev has    *)
(* room for both angles of the head; one is copied.                        *)
DrawName(i, visible) ==
  /\ drawn = -1
  /\ drawn' = i
  /\ child' = IF visible THEN i ELSE -1
  /\ IF i # 0
     THEN /\ prev' = [now EXCEPT !.head_y = prev.head_y]
          /\ now' = [l \in Look |-> i]
     ELSE UNCHANGED <<prev, now>>
  /\ UNCHANGED mario

(* arg 1, behind the body. *)
DrawEndAlways ==
  /\ drawn # -1
  /\ drawn' = -1
  /\ now' = [prev EXCEPT !.head_y = now.head_y]
  /\ UNCHANGED <<prev, child, mario>>
DrawEnd ==
  /\ drawn # -1
  /\ drawn' = -1
  /\ now' = IF drawn # 0 THEN [prev EXCEPT !.head_y = now.head_y] ELSE now
  /\ UNCHANGED <<prev, child, mario>>

DrawNext ==
  \/ \E l \in Look, v \in Mario : UpdateMario(l, v)
  \/ \E i \in 0 .. Others, visible \in BOOLEAN : DrawName(i, visible)
  \/ DrawEnd

DrawSpec == DrawInit /\ [][DrawNext]_drawVars

-----------------------------------------------------------------------------
(* In whatever order and number of frames Mario, his mirror image and the  *)
(* peers are drawn: everybody is drawn with her own values, and Mario has, *)
(* before, between and after them, those the game gave him, both angles of *)
(* his head among them (np_shape.c:71-73, 85-101, 145-151).                *)
DrawnRight ==
  /\ drawn > 0 => \A l \in Look : now[l] = drawn
  /\ drawn <= 0 => \A l \in Look : now[l] = mario[l]

(* What holds of it: a peer is drawn with all her own values, with         *)
(* another's body never, however often Mario's mirror image comes between, *)
(* and Mario has his but for head_y, the value np_draw does not keep.      *)
DrawnRightButHead ==
  /\ drawn # -1 => child \in {drawn, -1}
  /\ drawn > 0 => \A l \in Look : now[l] = drawn
  /\ drawn <= 0 => \A l \in Look \ {"head_y"} : now[l] = mario[l]
=============================================================================
