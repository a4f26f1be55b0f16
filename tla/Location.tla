------------------------------ MODULE Location ------------------------------
(***************************************************************************)
(* The list of who is where (server/src/np.c): while it is on, every frame *)
(* np_update_self resets the counter and the height, and each peer whose   *)
(* np_timer has not run out counts herself and prints her row, from the    *)
(* one the pad has scrolled to and as far as the screen has room.          *)
(***************************************************************************)
EXTENDS Integers, Sequences, FiniteSets

CONSTANTS
  Peers,   \* NP_LEN-1, the records behind the player's own
  Rows     \* rows of the screen

ASSUME LocationAssumption == Peers \in Nat \ {0} /\ Rows \in Nat

VARIABLES
  location_start, location_index, location_draw,
  location_y,  \* rows still free
  online,      \* of each peer, np_timer > 0
  turn,        \* the record whose update is next; 0 is the player's own
  rows,        \* the rows printed in this frame: number and record
  seen         \* history: the peers who were online at their turn

locationVars == <<location_start, location_index, location_draw, location_y,
                  online, turn, rows, seen>>

LocationInit ==
  /\ location_start = 1 /\ location_index = 1
  /\ location_draw = FALSE /\ location_y = 0
  /\ online = [i \in 1 .. Peers |-> FALSE]
  /\ turn = 0 /\ rows = <<>> /\ seen = {}

(* Datagrams come, timers run out. *)
Online(i) ==
  /\ online' = [online EXCEPT ![i] = ~@]
  /\ UNCHANGED <<location_start, location_index, location_draw, location_y,
                 turn, rows, seen>>

(* np_update_self; down is what the pad scrolls by.                        *)
UpdateSelf(toggle, down) ==
  /\ turn = 0
  /\ location_draw' = (location_draw # toggle)
  /\ rows' = <<>> /\ seen' = {}
  /\ IF location_draw'
     THEN /\ location_start' = IF location_start + down \in 1 .. Peers + 1
                               THEN location_start + down ELSE location_start
          /\ location_y' = Rows
          /\ location_index' = 1
     ELSE UNCHANGED <<location_start, location_y, location_index>>
  /\ turn' = 1
  /\ UNCHANGED online

UpdatePeerRowCounts(i) ==
  /\ turn = i
  /\ turn' = (i + 1) % (Peers + 1)
  /\ IF location_draw /\ online[i] /\ location_index >= location_start /\ location_y > 0
     THEN /\ location_index' = location_index + 1
          /\ rows' = Append(rows, <<location_index, i>>)
          /\ location_y' = location_y - 1
     ELSE UNCHANGED <<location_index, rows, location_y>>
  /\ seen' = IF online[i] THEN seen \cup {i} ELSE seen
  /\ UNCHANGED <<location_start, location_draw, online>>

UpdatePeerRow(i) ==
  /\ turn = i
  /\ turn' = (i + 1) % (Peers + 1)
  /\ IF location_draw /\ online[i]
     THEN /\ location_index' = location_index + 1
          /\ IF location_index >= location_start /\ location_y > 0
             THEN /\ rows' = Append(rows, <<location_index, i>>)
                  /\ location_y' = location_y - 1
             ELSE UNCHANGED <<rows, location_y>>
     ELSE UNCHANGED <<location_index, rows, location_y>>
  /\ seen' = IF online[i] THEN seen \cup {i} ELSE seen
  /\ UNCHANGED <<location_start, location_draw, online>>

LocationNext ==
  \/ \E i \in 1 .. Peers : Online(i) \/ UpdatePeerRow(i)
  \/ \E toggle \in BOOLEAN, down \in -1 .. 1 : UpdateSelf(toggle, down)

-----------------------------------------------------------------------------
(* However far the list is scrolled and whoever comes and goes between two *)
(* frames or within one: the rows of a frame are the players online, each  *)
(* under her number among them, in that order, none twice and none left    *)
(* out but before the first row and behind the last of the screen          *)
(* (np.c:198-215, 274-301).                                                *)
RowsRight ==
  turn = 0 /\ location_draw =>
    LET Nth(i) == Cardinality({j \in seen : j <= i})
        shown == {i \in seen : Nth(i) \in location_start .. location_start + Rows - 1}
    IN /\ {rows[k] : k \in DOMAIN rows} = {<<Nth(i), i>> : i \in shown}
       /\ \A k \in DOMAIN rows : rows[k][1] = location_start + k - 1
=============================================================================
