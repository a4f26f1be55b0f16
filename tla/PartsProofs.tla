----------------------------- MODULE PartsProofs -----------------------------
(***************************************************************************)
(* What holds of the parts of the program that meet in no state, for every *)
(* size of memory, list, screen and packet.                                *)
(***************************************************************************)
EXTENDS Usb, MemScan, MemWords, PeerView, Location, Draw,
        FiniteSetTheorems, SequenceTheorems, TLAPS

UsbSpec == UsbInit /\ [][UsbNext]_usbVars
MemScanSpec == MemScanInit /\ [][MemScanNext]_memScanVars
ViewSpec == ViewInit /\ [][ViewNext]_viewVars
WordSpec == WordInit /\ [][WordNext]_wordVars
LocationSpec == LocationInit /\ [][LocationNext]_locationVars

-----------------------------------------------------------------------------
(* Drawing. *)

(* While a peer is drawn, what is put back are Mario's values. *)
DrawInv ==
  /\ now \in [Look -> Mario \cup 1 .. Others]
  /\ prev \in [Look -> Mario \cup 1 .. Others]
  /\ mario \in [Look -> Mario]
  /\ drawn \in -1 .. Others
  /\ drawn > 0 => \A l \in Look \ {"head_y"} : prev[l] = mario[l]
  /\ DrawnRightButHead

(* A step of the game or of np_draw keeps it. *)
LEMMA DrawStep ==
  ASSUME DrawInv, [DrawNext]_drawVars
  PROVE  DrawInv'
<1> USE DrawAssumption
<1>1. ASSUME NEW l \in Look, NEW v \in Mario, UpdateMario(l, v)
      PROVE  DrawInv'
  BY <1>1 DEF UpdateMario, DrawInv, DrawnRightButHead
<1>2. ASSUME NEW i \in 0 .. Others, NEW visible \in BOOLEAN, DrawName(i, visible)
      PROVE  DrawInv'
  <2>1. /\ drawn = -1 /\ drawn' = i /\ mario' = mario
        /\ child' = IF visible THEN i ELSE -1
    BY <1>2 DEF DrawName
  <2>2. \A l \in Look \ {"head_y"} : now[l] = mario[l]
    BY <2>1 DEF DrawInv, DrawnRightButHead
  <2>3. CASE i # 0
    <3>1. prev' = [now EXCEPT !.head_y = prev.head_y] /\ now' = [l \in Look |-> i]
      BY <1>2, <2>3 DEF DrawName
    <3>2. prev' \in [Look -> Mario \cup 1 .. Others]
      BY <3>1 DEF DrawInv, Look
    <3>3. now' \in [Look -> Mario \cup 1 .. Others]
      BY <2>3, <3>1
    <3>4. \A l \in Look \ {"head_y"} : prev'[l] = mario[l]
      BY <2>2, <3>1 DEF DrawInv
    <3>5. DrawnRightButHead'
      BY <2>1, <2>3, <3>1 DEF DrawnRightButHead
    <3> QED BY <2>1, <3>2, <3>3, <3>4, <3>5 DEF DrawInv
  <2>4. CASE i = 0
    BY <1>2, <2>1, <2>2, <2>4 DEF DrawName, DrawInv, DrawnRightButHead
  <2> QED BY <2>3, <2>4
<1>3. CASE DrawEnd
  <2>1. /\ drawn # -1 /\ drawn' = -1 /\ UNCHANGED <<prev, child, mario>>
        /\ now' = IF drawn # 0 THEN [prev EXCEPT !.head_y = now.head_y] ELSE now
    BY <1>3 DEF DrawEnd
  <2>2. CASE drawn = 0
    BY <2>1, <2>2 DEF DrawInv, DrawnRightButHead
  <2>3. CASE drawn # 0
    <3>1. now' = [prev EXCEPT !.head_y = now.head_y] /\ drawn > 0
      BY <2>1, <2>3 DEF DrawInv
    <3>2. now' \in [Look -> Mario \cup 1 .. Others]
      BY <3>1 DEF DrawInv, Look
    <3>3. \A l \in Look \ {"head_y"} : now'[l] = mario[l]
      BY <3>1 DEF DrawInv
    <3> QED BY <2>1, <3>2, <3>3 DEF DrawInv, DrawnRightButHead
  <2> QED BY <2>2, <2>3
<1>4. CASE UNCHANGED drawVars
  BY <1>4 DEF drawVars, DrawInv, DrawnRightButHead
<1> QED BY <1>1, <1>2, <1>3, <1>4 DEF DrawNext

(* The inductive invariant of the drawing. *)
THEOREM DrawInvariant == DrawSpec => []DrawInv
<1>1. DrawInit => DrawInv
  BY DrawAssumption DEF DrawInit, DrawInv, DrawnRightButHead, Mario
<1>2. DrawInv /\ [DrawNext]_drawVars => DrawInv'
  BY DrawStep
<1> QED BY <1>1, <1>2, PTL DEF DrawSpec

(* For any number of peers, drawn in any order: a peer with all her own    *)
(* values and her body, Mario with all of his but head_y, which            *)
(* np_draw does not keep (np_shape.c:85-101, 145-151).                     *)
THEOREM DrawnAsThemselves == DrawSpec => []DrawnRightButHead
<1>1. DrawInv => DrawnRightButHead
  BY DEF DrawInv
<1> QED BY <1>1, DrawInvariant, PTL

-----------------------------------------------------------------------------
(* The location list. *)

(* The number of i among S. *)
Nth(S, i) == Cardinality({j \in S : j <= i})
LastTurn == IF turn = 0 THEN Peers ELSE turn - 1

LocationType ==
  /\ location_start \in 1 .. Peers + 1 /\ location_index \in Nat \ {0}
  /\ location_draw \in BOOLEAN /\ location_y \in 0 .. Rows
  /\ online \in [1 .. Peers -> BOOLEAN]
  /\ turn \in 0 .. Peers
  /\ rows \in Seq(Nat \X (1 .. Peers))
  /\ seen \subseteq 1 .. LastTurn

(* The counter is the number of those seen so far, and the rows are full   *)
(* or as many as there are numbers from the first row's to the counter.    *)
LocationInv ==
  /\ LocationType
  /\ location_draw =>
       /\ location_index = Cardinality(seen) + 1
       /\ location_y = Rows - Len(rows)
       /\ location_index <= location_start => Len(rows) = 0
       /\ location_index > location_start =>
            Len(rows) = IF location_index - location_start <= Rows
                        THEN location_index - location_start ELSE Rows
       /\ \A k \in DOMAIN rows : /\ rows[k][1] = location_start + k - 1
                                 /\ rows[k][2] \in seen
                                 /\ rows[k][1] = Nth(seen, rows[k][2])
       /\ \A i \in seen : Nth(seen, i) \in location_start .. location_start + Rows - 1 =>
            /\ Nth(seen, i) - location_start + 1 \in DOMAIN rows
            /\ rows[Nth(seen, i) - location_start + 1] = <<Nth(seen, i), i>>

(* Numbers are numbers. *)
LEMMA NthType ==
  ASSUME NEW m \in Nat, NEW S \in SUBSET (1 .. m), NEW i \in Nat
  PROVE  IsFiniteSet(S) /\ Cardinality(S) \in Nat /\ Nth(S, i) \in Nat
<1>1. IsFiniteSet(1 .. m)
  BY FS_Interval
<1>2. IsFiniteSet(S)
  BY <1>1, FS_Subset
<1>3. {j \in S : j <= i} \in SUBSET S
  OBVIOUS
<1>4. IsFiniteSet({j \in S : j <= i})
  BY <1>2, <1>3, FS_Subset
<1>5. Cardinality(S) \in Nat
  BY <1>2, FS_CardinalityType
<1>6. Cardinality({j \in S : j <= i}) \in Nat
  BY <1>4, FS_CardinalityType
<1> QED BY <1>2, <1>5, <1>6 DEF Nth

(* One who comes behind all of S gets the next number, and they keep theirs. *)
LEMMA NextNumber ==
  ASSUME NEW m \in Nat, NEW S \in SUBSET (1 .. m), NEW n \in Nat, n > m
  PROVE  /\ Cardinality(S \cup {n}) = Cardinality(S) + 1
         /\ Nth(S \cup {n}, n) = Cardinality(S) + 1
         /\ \A i \in S : Nth(S \cup {n}, i) = Nth(S, i)
<1>1. \A j \in S : j < n /\ j \in Nat
  OBVIOUS
<1>2. 0 \in Nat
  OBVIOUS
<1>3. Cardinality(S \cup {n}) = Cardinality(S) + 1
  <2>1. n \notin S
    BY <1>1
  <2>2. IsFiniteSet(S)
    BY <1>2, NthType
  <2> QED BY <2>1, <2>2, FS_AddElement
<1>4. {j \in S \cup {n} : j <= n} = S \cup {n}
  <2>1. \A j \in S \cup {n} : j <= n
    BY <1>1
  <2> QED BY <2>1
<1>5. ASSUME NEW i \in S
      PROVE  Nth(S \cup {n}, i) = Nth(S, i)
  <2>1. {j \in S \cup {n} : j <= i} = {j \in S : j <= i}
    BY <1>1
  <2> QED BY <2>1 DEF Nth
<1> QED BY <1>3, <1>4, <1>5 DEF Nth

(* Of those who have their number, none has one beyond their count. *)
LEMMA NthInCount ==
  ASSUME NEW m \in Nat, NEW S \in SUBSET (1 .. m), NEW i \in S
  PROVE  Nth(S, i) \in 1 .. Cardinality(S)
<1>1. i \in Nat /\ {j \in S : j <= i} \in SUBSET S
  OBVIOUS
<1>2. IsFiniteSet(S) /\ Cardinality(S) \in Nat /\ Nth(S, i) \in Nat
  BY <1>1, NthType
<1>3. IsFiniteSet({j \in S : j <= i}) /\ Nth(S, i) <= Cardinality(S)
  BY <1>1, <1>2, FS_Subset DEF Nth
<1>4. Nth(S, i) # 0
  <2>1. i \in {j \in S : j <= i}
    BY <1>1
  <2> QED BY <1>3, <2>1, FS_EmptySet DEF Nth
<1> QED BY <1>2, <1>3, <1>4

(* The player's own update begins a new list. *)
LEMMA LocationSelf ==
  ASSUME LocationInv, NEW toggle \in BOOLEAN, NEW step \in -1 .. 1, UpdateSelf(toggle, step)
  PROVE  LocationInv'
<1> USE LocationAssumption
<1>1. /\ turn = 0 /\ turn' = 1 /\ online' = online /\ rows' = <<>> /\ seen' = {}
      /\ location_draw' = (location_draw # toggle)
      /\ IF location_draw'
         THEN /\ location_start' = IF location_start + step \in 1 .. Peers + 1
                                   THEN location_start + step ELSE location_start
              /\ location_y' = Rows
              /\ location_index' = 1
         ELSE UNCHANGED <<location_start, location_y, location_index>>
  BY DEF UpdateSelf
<1>2. LocationType
  BY DEF LocationInv
<1>3. location_draw' \in BOOLEAN /\ rows' \in Seq(Nat \X (1 .. Peers)) /\ Len(rows') = 0
  BY <1>1, <1>2 DEF LocationType
<1>4. location_start' \in 1 .. Peers + 1 /\ location_y' \in 0 .. Rows
      /\ location_index' \in Nat \ {0}
  BY <1>1, <1>2 DEF LocationType
<1>5. LocationType'
  BY <1>1, <1>2, <1>3, <1>4 DEF LocationType, LastTurn
<1>6. Cardinality(seen') = 0
  BY <1>1, FS_EmptySet
<1>7. DOMAIN rows' = {}
  BY <1>1
<1>8. location_draw' => location_index' = 1 /\ location_y' = Rows
  BY <1>1
<1>9. location_draw' => /\ location_index' = Cardinality(seen') + 1
                        /\ location_y' = Rows - Len(rows')
                        /\ location_index' <= location_start'
  BY <1>3, <1>4, <1>6, <1>8
<1>10. (location_index' <= location_start') => ~(location_index' > location_start')
  BY <1>4
<1> QED BY <1>1, <1>3, <1>5, <1>7, <1>9, <1>10 DEF LocationInv

(* The turn goes on to the next record, or back to the player's own.       *)
LEMMA NextTurn ==
  ASSUME LocationType, NEW i \in 1 .. Peers, turn = i, turn' = (i + 1) % (Peers + 1),
         seen' = seen \/ seen' = seen \cup {i}
  PROVE  /\ turn' \in 0 .. Peers /\ i - 1 \in Nat /\ i > i - 1
         /\ seen \in SUBSET (1 .. (i - 1)) /\ seen' \subseteq 1 .. LastTurn'
<1> USE LocationAssumption
<1>1. seen \in SUBSET (1 .. (i - 1))
  BY DEF LocationType, LastTurn
<1>2. seen' \subseteq 1 .. i
  <2>1. \A j \in seen : j \in 1 .. i
    BY <1>1
  <2> QED BY <2>1
<1>3. CASE i < Peers
  <2>1. turn' = i + 1
    BY <1>3
  <2>2. LastTurn' = i
    BY <2>1 DEF LastTurn
  <2>3. turn' \in 0 .. Peers /\ i - 1 \in Nat /\ i > i - 1
    BY <2>1, <1>3
  <2> QED BY <1>1, <1>2, <2>2, <2>3
<1>4. CASE i = Peers
  <2>1. turn' = 0
    BY <1>4
  <2>2. LastTurn' = i
    BY <1>4, <2>1 DEF LastTurn
  <2>3. turn' \in 0 .. Peers /\ i - 1 \in Nat /\ i > i - 1
    BY <2>1
  <2> QED BY <1>1, <1>2, <2>2, <2>3
<1> QED BY <1>3, <1>4

(* A peer's update: her row, if she is in the list and there is room.      *)
LEMMA LocationRow ==
  ASSUME LocationInv, NEW i \in 1 .. Peers, UpdatePeerRow(i)
  PROVE  LocationInv'
<1> USE LocationAssumption
<1>1. /\ turn = i /\ turn' = (i + 1) % (Peers + 1)
      /\ seen' = IF online[i] THEN seen \cup {i} ELSE seen
      /\ UNCHANGED <<location_start, location_draw, online>>
  BY DEF UpdatePeerRow
<1>2. LocationType
  BY DEF LocationInv
<1>3. /\ turn' \in 0 .. Peers /\ i - 1 \in Nat /\ i > i - 1
      /\ seen \in SUBSET (1 .. (i - 1)) /\ seen' \subseteq 1 .. LastTurn'
  BY <1>1, <1>2, NextTurn
<1>4. CASE ~(location_draw /\ online[i])
  <2>1. UNCHANGED <<location_index, rows, location_y>>
    BY <1>4 DEF UpdatePeerRow
  <2>2. LocationType'
    BY <1>1, <1>2, <1>3, <2>1 DEF LocationType
  <2>3. location_draw => seen' = seen
    BY <1>1, <1>4
  <2> QED BY <1>1, <2>1, <2>2, <2>3 DEF LocationInv
<1>5. CASE location_draw /\ online[i]
  <2> DEFINE c == Cardinality(seen)
             s == location_start
  <2>1. /\ location_index = c + 1 /\ location_y = Rows - Len(rows)
        /\ location_index <= s => Len(rows) = 0
        /\ location_index > s =>
             Len(rows) = IF location_index - s <= Rows THEN location_index - s ELSE Rows
        /\ \A k \in DOMAIN rows : /\ rows[k][1] = s + k - 1 /\ rows[k][2] \in seen
                                  /\ rows[k][1] = Nth(seen, rows[k][2])
        /\ \A j \in seen : Nth(seen, j) \in s .. s + Rows - 1 =>
             /\ Nth(seen, j) - s + 1 \in DOMAIN rows
             /\ rows[Nth(seen, j) - s + 1] = <<Nth(seen, j), j>>
    BY <1>5 DEF LocationInv
  <2>2. /\ Cardinality(seen') = c + 1 /\ Nth(seen', i) = c + 1
        /\ \A j \in seen : Nth(seen', j) = Nth(seen, j)
        /\ seen' = seen \cup {i}
    <3>1. seen' = seen \cup {i}
      BY <1>1, <1>5
    <3>2. PICK m \in Nat : seen \in SUBSET (1 .. m) /\ i > m /\ i \in Nat
      BY <1>3
    <3> QED BY <3>1, <3>2, NextNumber
  <2>3. c \in Nat /\ s \in Nat /\ s' = s /\ location_y \in Nat
    <3>1. PICK m \in Nat : seen \in SUBSET (1 .. m)
      BY <1>3
    <3>2. c \in Nat
      BY <3>1, NthType
    <3> QED BY <1>1, <1>2, <3>2 DEF LocationType
  <2>4. location_index' = c + 2
    <3>1. location_index' = location_index + 1
      BY <1>5 DEF UpdatePeerRow
    <3> QED BY <2>1, <2>3, <3>1
  <2> HIDE DEF c
  <2>5. PICK len \in Nat : len = Len(rows) /\ DOMAIN rows = 1 .. len
    BY <1>2 DEF LocationType
  <2>6. CASE location_index >= s /\ location_y > 0
    <3>1. rows' = Append(rows, <<location_index, i>>) /\ location_y' = location_y - 1
      BY <1>5, <2>6 DEF UpdatePeerRow
    <3>2. len = c + 1 - s /\ len < Rows
      BY <2>1, <2>3, <2>5, <2>6
    <3>3. /\ Len(rows') = len + 1 /\ DOMAIN rows' = 1 .. len + 1
          /\ \A k \in 1 .. len : rows'[k] = rows[k]
          /\ rows'[len + 1] = <<c + 1, i>>
      BY <1>2, <2>1, <2>5, <3>1 DEF LocationType
    <3>4. rows' \in Seq(Nat \X (1 .. Peers))
      BY <1>2, <3>1 DEF LocationType
    <3>5. LocationType'
      BY <1>1, <1>2, <1>3, <2>3, <2>4, <2>6, <3>1, <3>4 DEF LocationType
    <3>6. \A k \in DOMAIN rows' : /\ rows'[k][1] = s + k - 1 /\ rows'[k][2] \in seen'
                                  /\ rows'[k][1] = Nth(seen', rows'[k][2])
      <4> SUFFICES ASSUME NEW k \in 1 .. len + 1
                   PROVE  /\ rows'[k][1] = s + k - 1 /\ rows'[k][2] \in seen'
                          /\ rows'[k][1] = Nth(seen', rows'[k][2])
        BY <3>3
      <4>1. CASE k = len + 1
        BY <2>2, <2>3, <3>2, <3>3, <4>1
      <4>2. CASE k # len + 1
        <5>1. k \in DOMAIN rows /\ rows'[k] = rows[k]
          BY <2>5, <3>3, <4>2
        <5> QED BY <2>1, <2>2, <5>1
      <4> QED BY <4>1, <4>2
    <3>7. ASSUME NEW j \in seen', Nth(seen', j) \in s .. s + Rows - 1
          PROVE  /\ Nth(seen', j) - s + 1 \in DOMAIN rows'
                 /\ rows'[Nth(seen', j) - s + 1] = <<Nth(seen', j), j>>
      <4>1. CASE j = i
        <5>1. PICK k : k = Nth(seen', i) - s + 1
          OBVIOUS
        <5>2. k = len + 1
          BY <2>2, <2>3, <3>2, <5>1
        <5>3. k \in DOMAIN rows' /\ rows'[k] = <<Nth(seen', i), i>>
          BY <2>2, <3>3, <5>2
        <5> QED BY <4>1, <5>1, <5>3
      <4>2. CASE j # i
        <5>1. j \in seen /\ Nth(seen', j) = Nth(seen, j)
          BY <2>2, <3>7, <4>2
        <5>2. PICK k : k = Nth(seen, j) - s + 1
          OBVIOUS
        <5>3. k \in 1 .. len /\ rows[k] = <<Nth(seen, j), j>>
          BY <2>1, <2>5, <3>7, <5>1, <5>2
        <5> QED BY <3>3, <5>1, <5>2, <5>3
      <4> QED BY <4>1, <4>2
    <3>8. /\ location_index' = Cardinality(seen') + 1 /\ location_y' = Rows - Len(rows')
          /\ location_index' > s
          /\ Len(rows') = IF location_index' - s <= Rows THEN location_index' - s ELSE Rows
      <4>1. len + 1 = c + 2 - s
        BY <2>3, <3>2
      <4>2. location_y' = Rows - (len + 1)
        BY <2>1, <2>3, <2>5, <3>1
      <4> QED BY <2>2, <2>3, <2>4, <3>2, <3>3, <4>1, <4>2
    <3> QED BY <2>3, <2>4, <3>5, <3>6, <3>7, <3>8 DEF LocationInv
  <2>7. CASE ~(location_index >= s /\ location_y > 0)
    <3>1. UNCHANGED <<rows, location_y>>
      BY <1>5, <2>7 DEF UpdatePeerRow
    <3>2. LocationType'
      BY <1>1, <1>2, <1>3, <2>3, <2>4, <3>1 DEF LocationType
    <3>3. /\ location_index' <= s => len = 0
          /\ location_index' > s =>
               len = IF location_index' - s <= Rows THEN location_index' - s ELSE Rows
      BY <2>1, <2>3, <2>4, <2>5, <2>7
    <3>4. c + 1 \notin s .. s + Rows - 1
      BY <2>1, <2>3, <2>5, <2>7
    <3>5. ASSUME NEW j \in seen', Nth(seen', j) \in s .. s + Rows - 1
          PROVE  j \in seen /\ Nth(seen', j) = Nth(seen, j)
      BY <2>2, <3>4, <3>5
    <3>6. \A k \in DOMAIN rows : rows[k][2] \in seen' /\ rows[k][1] = Nth(seen', rows[k][2])
      BY <2>1, <2>2
    <3>7. location_index' = Cardinality(seen') + 1
      BY <2>2, <2>3, <2>4
    <3> QED BY <2>1, <2>3, <2>5, <3>1, <3>2, <3>3, <3>5, <3>6, <3>7 DEF LocationInv
  <2> QED BY <2>6, <2>7
<1> QED BY <1>4, <1>5

(* A step keeps the list. *)
LEMMA LocationStep ==
  ASSUME LocationInv, [LocationNext]_locationVars
  PROVE  LocationInv'
<1>1. ASSUME NEW i \in 1 .. Peers, Online(i)
      PROVE  LocationInv'
  <2>1. /\ online' = [online EXCEPT ![i] = ~@]
        /\ UNCHANGED <<location_start, location_index, location_draw, location_y,
                       turn, rows, seen>>
    BY <1>1 DEF Online
  <2>2. online' \in [1 .. Peers -> BOOLEAN]
    BY <2>1 DEF LocationInv, LocationType
  <2>3. LocationType'
    BY <2>1, <2>2 DEF LocationInv, LocationType, LastTurn
  <2> QED BY <2>1, <2>3 DEF LocationInv
<1>2. ASSUME NEW i \in 1 .. Peers, UpdatePeerRow(i)
      PROVE  LocationInv'
  BY <1>2, LocationRow
<1>3. ASSUME NEW toggle \in BOOLEAN, NEW step \in -1 .. 1, UpdateSelf(toggle, step)
      PROVE  LocationInv'
  BY <1>3, LocationSelf
<1>4. CASE UNCHANGED locationVars
  <2>1. UNCHANGED <<location_start, location_index, location_draw, location_y, online,
                    turn, rows, seen>>
    BY <1>4 DEF locationVars
  <2>2. LocationType'
    BY <2>1 DEF LocationInv, LocationType, LastTurn
  <2> QED BY <2>1, <2>2 DEF LocationInv
<1> QED BY <1>1, <1>2, <1>3, <1>4 DEF LocationNext

(* The inductive invariant of the list. *)
THEOREM LocationInvariant == LocationSpec => []LocationInv
<1>1. LocationInit => LocationInv
  <2> SUFFICES ASSUME LocationInit
               PROVE  LocationInv
    OBVIOUS
  <2>1. rows \in Seq(Nat \X (1 .. Peers)) /\ online \in [1 .. Peers -> BOOLEAN]
    BY DEF LocationInit
  <2>2. /\ location_start = 1 /\ location_index = 1 /\ location_draw = FALSE
        /\ location_y = 0 /\ turn = 0 /\ seen = {}
    BY DEF LocationInit
  <2>3. LocationType
    <3>1. /\ location_start \in 1 .. Peers + 1 /\ location_index \in Nat \ {0}
          /\ location_y \in 0 .. Rows /\ turn \in 0 .. Peers
      BY <2>2, LocationAssumption
    <3>2. location_draw \in BOOLEAN
      BY <2>2
    <3>3. seen \subseteq 1 .. LastTurn
      BY <2>2
    <3> QED BY <2>1, <3>1, <3>2, <3>3 DEF LocationType
  <2> QED BY <2>2, <2>3 DEF LocationInv
<1>2. LocationInv /\ [LocationNext]_locationVars => LocationInv'
  BY LocationStep
<1> QED BY <1>1, <1>2, PTL DEF LocationSpec

(* For any number of peers and rows: the rows are those online, each under *)
(* her number, as many as there is room for (np.c:198-215, 274-301).       *)
THEOREM RowsAreRight == LocationSpec => []RowsRight
<1>1. LocationInv => RowsRight
  <2> SUFFICES ASSUME LocationInv, turn = 0, location_draw
               PROVE  LET shown == {i \in seen : Nth(seen, i) \in
                                      location_start .. location_start + Rows - 1}
                      IN /\ {rows[k] : k \in DOMAIN rows} = {<<Nth(seen, i), i>> : i \in shown}
                         /\ \A k \in DOMAIN rows : rows[k][1] = location_start + k - 1
    BY DEF RowsRight, Nth
  <2> DEFINE s == location_start
             shown == {i \in seen : Nth(seen, i) \in s .. s + Rows - 1}
  <2>1. PICK len \in Nat : len = Len(rows) /\ DOMAIN rows = 1 .. len
    BY DEF LocationInv, LocationType
  <2>2. len <= Rows /\ s \in Nat /\ Rows \in Nat
    BY <2>1, LocationAssumption DEF LocationInv, LocationType
  <2>3. ASSUME NEW k \in DOMAIN rows
        PROVE  /\ rows[k][1] = s + k - 1 /\ rows[k][2] \in shown
               /\ rows[k] = <<Nth(seen, rows[k][2]), rows[k][2]>>
    <3>1. /\ rows[k][1] = s + k - 1 /\ rows[k][2] \in seen
          /\ rows[k][1] = Nth(seen, rows[k][2])
      BY DEF LocationInv
    <3>2. rows[k] = <<rows[k][1], rows[k][2]>>
      BY DEF LocationInv, LocationType
    <3>3. s + k - 1 \in s .. s + Rows - 1
      BY <2>1, <2>2
    <3> QED BY <3>1, <3>2, <3>3
  <2>4. \A i \in shown : \E k \in DOMAIN rows : rows[k] = <<Nth(seen, i), i>>
    BY DEF LocationInv
  <2> QED BY <2>3, <2>4
<1> QED BY <1>1, LocationInvariant, PTL

-----------------------------------------------------------------------------
(* The emulator's words. *)

(* A number is its word and its place in it. *)
LEMMA InWord ==
  ASSUME NEW y \in Nat, NEW w \in Int, NEW r \in 0 .. 3, y = 4 * w + r
  PROVE  y \div 4 = w /\ y % 4 = r
<1>1. PICK q \in Int, m \in 0 .. 3 : q = y \div 4 /\ m = y % 4 /\ y = 4 * q + m
  <2>1. y = 4 * (y \div 4) + (y % 4) /\ y \div 4 \in Int /\ y % 4 \in 0 .. 3
    OBVIOUS
  <2> QED BY <2>1
<1>2. q = w
  BY <1>1
<1> QED BY <1>1, <1>2

(* i^3: a place in the same word, and back.                                *)
LEMMA XorTurns ==
  ASSUME NEW x \in Nat
  PROVE  /\ Xor3(x) \in Nat /\ Xor3(Xor3(x)) = x
         /\ \E w \in Nat : /\ 4 * w <= x /\ x < 4 * w + 4 /\ w = x \div 4
                           /\ 4 * w <= Xor3(x) /\ Xor3(x) < 4 * w + 4
                           /\ Xor3(x) = 8 * w + 3 - x
<1>1. PICK w \in Nat, r \in 0 .. 3 : x = 4 * w + r /\ w = x \div 4 /\ r = x % 4
  <2>1. x = 4 * (x \div 4) + (x % 4) /\ x \div 4 \in Nat /\ x % 4 \in 0 .. 3
    OBVIOUS
  <2> QED BY <2>1
<1>2. Xor3(x) = 4 * w + 3 - r
  BY <1>1 DEF Xor3
<1>3. PICK y \in Nat : y = 4 * w + 3 - r
  BY <1>1
<1>4. y \div 4 = w /\ y % 4 = 3 - r
  <2>1. PICK k \in 0 .. 3 : k = 3 - r
    OBVIOUS
  <2>2. y = 4 * w + k
    BY <1>3, <2>1
  <2> QED BY <2>1, <2>2, InWord
<1>5. Xor3(y) = x
  BY <1>1, <1>3, <1>4 DEF Xor3
<1>6. /\ 4 * w <= x /\ x < 4 * w + 4 /\ 4 * w <= y /\ y < 4 * w + 4
      /\ y = 8 * w + 3 - x
  <2>1. x = 4 * w + r
    BY <1>1
  <2> QED BY <1>3, <2>1
<1> QED BY <1>1, <1>2, <1>3, <1>5, <1>6

(* From the beginning of a word, i^3 counts alike.                         *)
LEMMA XorFrom ==
  ASSUME NEW v \in Nat, NEW i \in Nat
  PROVE  Xor3(4 * v + i) = 4 * v + Xor3(i)
<1>1. PICK w \in Nat, r \in 0 .. 3 : i = 4 * w + r /\ w = i \div 4 /\ r = i % 4
  <2>1. i = 4 * (i \div 4) + (i % 4) /\ i \div 4 \in Nat /\ i % 4 \in 0 .. 3
    OBVIOUS
  <2> QED BY <2>1
<1>2. PICK y \in Nat : y = 4 * v + i
  OBVIOUS
<1>3. y \div 4 = v + w /\ y % 4 = r
  <2>1. PICK k \in Int : k = v + w
    OBVIOUS
  <2>2. y = 4 * k + r
    BY <1>1, <1>2, <2>1
  <2> QED BY <2>1, <2>2, InWord
<1> QED BY <1>1, <1>2, <1>3 DEF Xor3

(* byteswap of a whole word. *)
LEMMA SwapTurns ==
  ASSUME NEW src, NEW n \in Nat, NEW i \in 0 .. n - 1, 4 * (i \div 4) + 3 < n
  PROVE  Byteswap(src, n)[i] = src[Xor3(i)]
<1>1. PICK w \in Nat, r \in 0 .. 3 : i = 4 * w + r /\ w = i \div 4 /\ r = i % 4
  <2>1. i = 4 * (i \div 4) + (i % 4) /\ i \div 4 \in Nat /\ i % 4 \in 0 .. 3
    OBVIOUS
  <2> QED BY <2>1
<1>2. PICK b : b = <<src[4 * w], src[4 * w + 1], src[4 * w + 2], src[4 * w + 3]>>
  OBVIOUS
<1>3. Byteswap(src, n)[i] = Turned(b)[r + 1]
  <2>1. i - 4 * w + 1 = r + 1 /\ 4 * w + 3 < n
    BY <1>1
  <2> QED BY <1>1, <1>2, <2>1 DEF Byteswap
<1>4. Turned(b) = <<src[4 * w + 3], src[4 * w + 2], src[4 * w + 1], src[4 * w]>>
  BY <1>2 DEF Turned
<1>5. Xor3(i) = 4 * w + 3 - r
  BY <1>1 DEF Xor3
<1>6. r = 0 \/ r = 1 \/ r = 2 \/ r = 3
  BY <1>1
<1>7. /\ 4 * w + 3 - 0 = 4 * w + 3 /\ 4 * w + 3 - 1 = 4 * w + 2
      /\ 4 * w + 3 - 2 = 4 * w + 1 /\ 4 * w + 3 - 3 = 4 * w
  BY <1>1
<1> QED BY <1>3, <1>4, <1>5, <1>6, <1>7

(* The console sees the emulator's words turned round, and what was read   *)
(* is what the console sees.                                               *)
WordInv ==
  /\ DOMAIN ram = Byte /\ DOMAIN console = Byte
  /\ np_table \in Aligned /\ from \in Aligned /\ section \in Nat
  /\ \A x \in Byte : console[x] = Junk \/ ram[Xor3(x)] = console[x]
  /\ dst = <<>> \/ \E n \in Nat :
       /\ from + n <= 4 * Words /\ DOMAIN dst = 0 .. n - 1
       /\ \A i \in 0 .. n - 1 : 4 * (i \div 4) + 3 < n => dst[i] = ram[from + Xor3(i)]

(* Within the memory i^3 stays there. *)
LEMMA XorInMemory ==
  ASSUME NEW x \in Byte
  PROVE  x \in Nat /\ Xor3(x) \in Byte
<1>1. x \in Nat /\ x < 4 * Words /\ Words \in Nat
  BY MemWordsAssumption DEF Byte
<1>2. PICK w \in Nat : 4 * w <= x /\ x < 4 * w + 4 /\ Xor3(x) < 4 * w + 4 /\ Xor3(x) \in Nat
  BY <1>1, XorTurns
<1>3. w < Words
  BY <1>1, <1>2
<1> QED BY <1>1, <1>2, <1>3 DEF Byte

(* mem_rd. *)
LEMMA WordRead ==
  ASSUME WordInv, NEW a \in Aligned, NEW n \in 1 .. MaxLen, a + n <= 4 * Words, RamRd(a, n)
  PROVE  WordInv'
<1> USE MemWordsAssumption
<1> DEFINE src == [i \in 0 .. n - 1 |-> ram[a + i]]
<1>1. /\ dst' = Byteswap(src, n) /\ from' = a
      /\ UNCHANGED <<ram, np_table, section, console>>
  BY DEF RamRd
<1>2. n \in Nat /\ DOMAIN dst' = 0 .. n - 1
  BY <1>1 DEF Byteswap
<1>3. ASSUME NEW i \in 0 .. n - 1, 4 * (i \div 4) + 3 < n
      PROVE  dst'[i] = ram[a + Xor3(i)]
  <2>1. dst'[i] = src[Xor3(i)]
    BY <1>1, <1>2, <1>3, SwapTurns
  <2>2. Xor3(i) \in 0 .. n - 1
    <3>1. i \in Nat
      BY <1>2
    <3>2. PICK w \in Nat : w = i \div 4 /\ Xor3(i) < 4 * w + 4 /\ Xor3(i) \in Nat
      BY <3>1, XorTurns
    <3> QED BY <1>2, <1>3, <3>2
  <2> QED BY <2>1, <2>2
<1> HIDE DEF src
<1> QED BY <1>1, <1>2, <1>3 DEF WordInv

(* mem_wr of a section. *)
LEMMA WordWrite ==
  ASSUME WordInv, NEW addr \in Aligned \cup {-1}, NEW n \in 1 .. MaxLen, RamWr(addr, n)
  PROVE  WordInv'
<1> USE MemWordsAssumption
<1>1. PICK v \in Nat : (IF addr = -1 THEN np_table ELSE addr) = 4 * v
  BY DEF WordInv, Aligned
<1>2. PICK q \in Nat : q = n \div 4 /\ 4 * q <= n /\ n < 4 * q + 4
  <2>1. n \in Nat
    OBVIOUS
  <2>2. n = 4 * (n \div 4) + (n % 4) /\ n \div 4 \in Nat /\ n % 4 \in 0 .. 3
    BY <2>1
  <2> QED BY <2>2
<1>3. PICK top \in Nat : top = 4 * ((n + 3) \div 4) /\ n <= top /\ \E u \in Nat : top = 4 * u
  <2>1. PICK k \in Nat : k = n + 3
    OBVIOUS
  <2>2. k = 4 * (k \div 4) + (k % 4) /\ k \div 4 \in Nat /\ k % 4 \in 0 .. 3
    OBVIOUS
  <2> QED BY <2>1, <2>2
<1> DEFINE op == section + 1
           data == Byteswap([i \in 0 .. n - 1 |-> <<op, i>>], n)
<1>4. /\ 4 * v + n <= 4 * Words
      /\ section' = op /\ dst' = <<>> /\ UNCHANGED <<np_table, from>>
      /\ ram' = [p \in Byte |-> IF p \in 4 * v .. 4 * v + n - 1 THEN data[p - 4 * v] ELSE ram[p]]
      /\ console' = [x \in Byte |->
                       IF x \in 4 * v .. 4 * v + 4 * q - 1 THEN <<op, x - 4 * v>>
                       ELSE IF x \in 4 * v + 4 * q .. 4 * v + top - 1 THEN Junk
                       ELSE console[x]]
  BY <1>1, <1>2, <1>3 DEF RamWr
<1>5. \A i \in 0 .. 4 * q - 1 : data[Xor3(i)] = <<op, i>>
  <2> SUFFICES ASSUME NEW i \in 0 .. 4 * q - 1
               PROVE  data[Xor3(i)] = <<op, i>>
    OBVIOUS
  <2>1. i \in Nat /\ i < 4 * q /\ n \in Nat
    BY <1>2
  <2>2. PICK y \in Nat : y = Xor3(i) /\ Xor3(y) = i
    BY <2>1, XorTurns
  <2>3. PICK w \in Nat : 4 * w <= y /\ y < 4 * w + 4 /\ w = y \div 4 /\ 4 * w <= i
    BY <2>2, XorTurns
  <2>4. w < q
    BY <2>1, <2>3
  <2>5. y \in 0 .. n - 1 /\ 4 * w + 3 < n
    BY <1>2, <2>3, <2>4
  <2>6. 4 * (y \div 4) + 3 < n
    BY <2>3, <2>5
  <2>7. data[y] = [k \in 0 .. n - 1 |-> <<op, k>>][Xor3(y)]
    BY <2>1, <2>5, <2>6, SwapTurns
  <2>8. i \in 0 .. n - 1
    BY <1>2, <2>1
  <2> QED BY <2>2, <2>7, <2>8
<1> HIDE DEF data
<1>6. ASSUME NEW x \in Byte, console'[x] # Junk
      PROVE  ram'[Xor3(x)] = console'[x]
  <2>1. x \in Nat /\ Xor3(x) \in Byte
    BY XorInMemory
  <2>2. PICK w \in Nat : /\ 4 * w <= x /\ x < 4 * w + 4
                         /\ 4 * w <= Xor3(x) /\ Xor3(x) < 4 * w + 4
    BY <2>1, XorTurns
  <2>3. PICK y \in Nat : y = Xor3(x) /\ 4 * w <= y /\ y < 4 * w + 4 /\ y \in Byte
    BY <2>1, <2>2, XorTurns
  <2>4. CASE x \in 4 * v .. 4 * v + 4 * q - 1
    <3>1. PICK i \in Nat : x = 4 * v + i /\ i \in 0 .. 4 * q - 1
      BY <2>1, <2>4
    <3>2. PICK z \in Nat : z = Xor3(i)
      BY <3>1, XorTurns
    <3>3. y = 4 * v + z
      BY <2>3, <3>1, <3>2, XorFrom
    <3>4. y \in 4 * v .. 4 * v + n - 1
      BY <1>2, <2>2, <2>3, <2>4, <3>2, <3>3
    <3>5. ram'[y] = data[y - 4 * v]
      BY <1>4, <2>3, <3>4
    <3>6. y - 4 * v = z
      BY <3>3
    <3>7. ram'[y] = <<op, i>>
      BY <1>5, <3>1, <3>2, <3>5, <3>6
    <3>8. console'[x] = <<op, x - 4 * v>> /\ x - 4 * v = i
      BY <1>4, <2>4, <3>1
    <3> QED BY <2>3, <3>7, <3>8
  <2>5. CASE x \notin 4 * v .. 4 * v + 4 * q - 1
    <3>1. x \notin 4 * v .. 4 * v + top - 1 /\ console'[x] = console[x]
      <4>1. x \notin 4 * v + 4 * q .. 4 * v + top - 1 /\ console'[x] = console[x]
        BY <1>4, <1>6, <2>5
      <4> QED BY <2>1, <2>5, <4>1, <1>2, <1>3
    <3>2. PICK u \in Nat : top = 4 * u
      BY <1>3
    <3>3. y \notin 4 * v .. 4 * v + n - 1
      BY <1>3, <2>1, <2>2, <2>3, <3>1, <3>2
    <3>4. ram'[y] = ram[y]
      BY <1>4, <2>3, <3>3
    <3>5. console[x] # Junk => ram[y] = console[x]
      BY <2>3 DEF WordInv
    <3> QED BY <1>6, <2>3, <3>1, <3>4, <3>5
  <2> QED BY <2>4, <2>5
<1>7. section' \in Nat /\ DOMAIN ram' = Byte /\ DOMAIN console' = Byte
  BY <1>4 DEF WordInv
<1> QED BY <1>4, <1>6, <1>7 DEF WordInv

(* The inductive invariant of the words. *)
THEOREM WordInvariant == WordSpec => []WordInv
<1> USE MemWordsAssumption
<1>1. WordInit => WordInv
  <2> SUFFICES ASSUME WordInit
               PROVE  WordInv
    OBVIOUS
  <2>1. ASSUME NEW x \in Byte
        PROVE  ram[Xor3(x)] = console[x]
    <3>1. x \in Nat /\ Xor3(x) \in Byte /\ Xor3(Xor3(x)) = x
      BY XorInMemory, XorTurns
    <3> QED BY <3>1 DEF WordInit
  <2>2. np_table \in Aligned /\ from \in Aligned
    <3>1. Words - 2 \in 0 .. Words - 1 /\ 0 \in 0 .. Words - 1
      OBVIOUS
    <3> QED BY <3>1 DEF WordInit, Aligned
  <2> QED BY <2>1, <2>2 DEF WordInit, WordInv
<1>2. WordInv /\ [WordNext]_wordVars => WordInv'
  <2> SUFFICES ASSUME WordInv, [WordNext]_wordVars
               PROVE  WordInv'
    OBVIOUS
  <2>1. CASE UNCHANGED wordVars
    BY <2>1 DEF wordVars, WordInv
  <2> QED BY <2>1, WordRead, WordWrite DEF WordNext
<1> QED BY <1>1, <1>2, PTL DEF WordSpec

(* For any memory and sections of any length, written over each other: the *)
(* console sees the file's bytes in their order, and the client the        *)
(* console's (memory.c:29-50, main.c:92-114).                              *)
THEOREM WordsAreRight == WordSpec => []WordsRight
<1>1. WordInv => WordsRight
  <2> SUFFICES ASSUME WordInv
               PROVE  WordsRight
    OBVIOUS
  <2>1. ASSUME NEW i \in DOMAIN dst, 4 * (i \div 4) + 3 \in DOMAIN dst, console[from + i] # Junk
        PROVE  dst[i] = console[from + i]
    <3>1. dst # <<>>
      BY <2>1
    <3>2. PICK n \in Nat : 
            /\ from + n <= 4 * Words /\ DOMAIN dst = 0 .. n - 1
            /\ \A j \in 0 .. n - 1 : 4 * (j \div 4) + 3 < n => dst[j] = ram[from + Xor3(j)]
      BY <3>1 DEF WordInv
    <3>3. PICK v \in Nat : from = 4 * v
      BY DEF WordInv, Aligned
    <3>4. i \in 0 .. n - 1 /\ i \in Nat /\ 4 * (i \div 4) + 3 < n
      BY <2>1, <3>2
    <3>5. from + i \in Byte
      BY <3>2, <3>3, <3>4, MemWordsAssumption DEF Byte
    <3>6. Xor3(from + i) = from + Xor3(i)
      BY <3>3, <3>4, XorFrom
    <3>7. ram[Xor3(from + i)] = console[from + i]
      BY <2>1, <3>5 DEF WordInv
    <3> QED BY <3>2, <3>4, <3>6, <3>7
  <2>2. \A x \in Byte : console[x] = Junk \/ ram[Xor3(x)] = console[x]
    BY DEF WordInv
  <2> QED BY <2>1, <2>2 DEF WordsRight
<1> QED BY <1>1, WordInvariant, PTL

-----------------------------------------------------------------------------
(* The search for the console's memory. *)

(* A place of the search is a line, of that page and place.                *)
LEMMA PlaceIsLine ==
  ASSUME NEW p \in 0 .. PageCount - 1, NEW o \in 0 .. PgLen - 1
  PROVE  p * PgLen + o \in Line /\ (p * PgLen + o) \div PgLen = p /\ (p * PgLen + o) % PgLen = o
<1> USE MemScanAssumption
<1>1. PICK y \in Nat : y = p * PgLen + o
  <2>1. p * PgLen \in Nat
    OBVIOUS
  <2> QED BY <2>1
<1>2. y < PgLen * PageCount
  <2>1. PICK k \in Nat : PageCount = p + 1 + k
    <3>1. PageCount - p - 1 \in Nat /\ PageCount = p + 1 + (PageCount - p - 1)
      OBVIOUS
    <3> QED BY <3>1
  <2>2. PgLen * PageCount = p * PgLen + PgLen + PgLen * k /\ PgLen * k \in Nat
    BY <2>1
  <2>3. PICK z \in Nat, x \in Nat : z = p * PgLen /\ x = PgLen * k
    BY <2>2
  <2> QED BY <1>1, <2>2, <2>3
<1>3. PICK q \in Int, r \in 0 .. PgLen - 1 : q = y \div PgLen /\ r = y % PgLen /\ y = PgLen * q + r
  <2>1. /\ y = PgLen * (y \div PgLen) + (y % PgLen)
        /\ y \div PgLen \in Int /\ y % PgLen \in 0 .. PgLen - 1
    OBVIOUS
  <2> QED BY <2>1
<1>4. q = p
  <2>1. CASE q < p
    <3>1. PICK k \in Nat : p = q + 1 + k
      <4>1. p - q - 1 \in Nat /\ p = q + 1 + (p - q - 1)
        BY <2>1
      <4> QED BY <4>1
    <3>2. p * PgLen = PgLen * q + PgLen + PgLen * k /\ PgLen * k \in Nat
      BY <3>1
    <3>3. PICK z \in Int, x \in Nat : z = PgLen * q /\ x = PgLen * k
      BY <3>2
    <3> QED BY <1>1, <1>3, <3>2, <3>3
  <2>2. CASE q > p
    <3>1. PICK k \in Nat : q = p + 1 + k
      <4>1. q - p - 1 \in Nat /\ q = p + 1 + (q - p - 1)
        BY <2>2
      <4> QED BY <4>1
    <3>2. PgLen * q = p * PgLen + PgLen + PgLen * k /\ PgLen * k \in Nat
      BY <3>1
    <3>3. PICK z \in Int, x \in Nat : z = p * PgLen /\ x = PgLen * k
      BY <3>2
    <3> QED BY <1>1, <1>3, <3>2, <3>3
  <2> QED BY <2>1, <2>2
<1>5. r = o
  <2>1. PICK z \in Int : z = p * PgLen
    OBVIOUS
  <2>2. PgLen * q = z
    BY <1>4, <2>1
  <2> QED BY <1>1, <1>3, <2>1, <2>2
<1> QED BY <1>1, <1>2, <1>3, <1>4, <1>5 DEF Line

(* And every line is a place of the search. *)
LEMMA LineIsPlace ==
  ASSUME NEW b \in Line
  PROVE  /\ b \div PgLen \in 0 .. PageCount - 1 /\ b % PgLen \in 0 .. PgLen - 1
         /\ b = (b \div PgLen) * PgLen + (b % PgLen)
<1> USE MemScanAssumption
<1>1. b \in Nat /\ b < PgLen * PageCount
  BY DEF Line
<1>2. PICK q \in Int, r \in 0 .. PgLen - 1 : q = b \div PgLen /\ r = b % PgLen /\ b = q * PgLen + r
  <2>1. /\ b = (b \div PgLen) * PgLen + (b % PgLen)
        /\ b \div PgLen \in Int /\ b % PgLen \in 0 .. PgLen - 1
    BY <1>1
  <2> QED BY <2>1
<1>3. q >= 0
  <2> SUFFICES ASSUME q <= -1
               PROVE  FALSE
    OBVIOUS
  <2>1. PICK k \in Nat : q = -1 - k
    <3>1. -1 - q \in Nat /\ q = -1 - (-1 - q)
      OBVIOUS
    <3> QED BY <3>1
  <2>2. q * PgLen = -PgLen - k * PgLen /\ k * PgLen \in Nat
    BY <2>1
  <2>3. PICK z \in Int, x \in Nat : z = q * PgLen /\ x = k * PgLen
    BY <2>2
  <2> QED BY <1>1, <1>2, <2>2, <2>3
<1>4. q < PageCount
  <2> SUFFICES ASSUME q >= PageCount
               PROVE  FALSE
    OBVIOUS
  <2>1. PICK k \in Nat : q = PageCount + k
    <3>1. q - PageCount \in Nat /\ q = PageCount + (q - PageCount)
      OBVIOUS
    <3> QED BY <3>1
  <2>2. q * PgLen = PgLen * PageCount + k * PgLen /\ k * PgLen \in Nat
    BY <2>1
  <2>3. PICK z \in Int, x \in Nat, y \in Int :
          z = q * PgLen /\ x = k * PgLen /\ y = PgLen * PageCount
    BY <2>2
  <2> QED BY <1>1, <1>2, <2>2, <2>3
<1> QED BY <1>2, <1>3, <1>4

(* Line b comes before the place that is looked at.                        *)
Passed(b) == b % PgLen < off \/ (b % PgLen = off /\ b \div PgLen < area)

(* While the search goes on: none of the places passed is the memory, and  *)
(* the vectors read so far are there, and were read from this place.       *)
ScanInv ==
  /\ map \in [0 .. PageCount - 1 -> {"rw", "r", "none"}]
  /\ base \in Line \cup {-1, Nothing}
  /\ base = Nothing =>
       /\ area \in 0 .. PageCount - 1 /\ off \in 0 .. PgLen - 1 /\ sample \in 0 .. 3
       /\ sample > 0 => buf = "key"
       /\ \A k \in 0 .. sample - 1 :
            LET l == Sample(area * PgLen + off, k) IN Readable(l) /\ line[l] = "turned"
       /\ \A b \in Line : Passed(b) => ~IsBase(b)
  /\ FoundRight

(* The next place, when this one is not the memory. *)
LEMMA ScanOn ==
  ASSUME ScanInv, base = Nothing, UNCHANGED <<map, line>>,
         ~IsBase(area * PgLen + off), NextPlace(area, off)
  PROVE  ScanInv'
<1> USE MemScanAssumption
<1>1. area \in 0 .. PageCount - 1 /\ off \in 0 .. PgLen - 1
  BY DEF ScanInv
<1>2. Nothing # -1 /\ Nothing \notin Line
  BY DEF Line
<1>3. \A b : IsBase(b)' <=> IsBase(b)
  BY DEF IsBase, Readable, PageOf, Sample
<1>4. /\ area' = IF area < PageCount - 1 THEN area + 1 ELSE 0
      /\ off' = IF area < PageCount - 1 THEN off ELSE off + 1
      /\ base' = IF area = PageCount - 1 /\ off = PgLen - 1 THEN -1 ELSE Nothing
      /\ sample' = 0
  BY DEF NextPlace
<1>5. ASSUME NEW b \in Line, b % PgLen < off' \/ (b % PgLen = off' /\ b \div PgLen < area')
      PROVE  ~IsBase(b)
  <2>1. PICK q \in 0 .. PageCount - 1, r \in 0 .. PgLen - 1 :
          q = b \div PgLen /\ r = b % PgLen /\ b = q * PgLen + r
    BY LineIsPlace
  <2>2. CASE q = area /\ r = off
    BY <2>1, <2>2
  <2>3. CASE ~(q = area /\ r = off)
    <3>1. r < off' \/ (r = off' /\ q < area')
      BY <1>5, <2>1
    <3>2. r < off \/ (r = off /\ q < area)
      BY <1>1, <1>4, <2>1, <2>3, <3>1
    <3>3. Passed(b)
      BY <2>1, <3>2 DEF Passed
    <3> QED BY <3>3 DEF ScanInv
  <2> QED BY <2>2, <2>3
<1>6. CASE area = PageCount - 1 /\ off = PgLen - 1
  <2>1. base' = -1 /\ off' = PgLen
    BY <1>1, <1>4, <1>6
  <2>2. \A b \in Line : ~IsBase(b)
    <3>1. \A b \in Line : b % PgLen < PgLen
      BY LineIsPlace
    <3> QED BY <1>5, <2>1, <3>1
  <2>3. -1 \notin Line
    BY DEF Line
  <2>4. FoundRight'
    BY <1>3, <2>1, <2>2, <2>3 DEF FoundRight
  <2> QED BY <1>2, <2>1, <2>4 DEF ScanInv
<1>7. CASE ~(area = PageCount - 1 /\ off = PgLen - 1)
  <2>1. base' = Nothing
    BY <1>4, <1>7
  <2>2. area' \in 0 .. PageCount - 1 /\ off' \in 0 .. PgLen - 1 /\ sample' = 0
    BY <1>1, <1>4, <1>7
  <2>3. FoundRight'
    BY <1>2, <2>1 DEF FoundRight
  <2>4. \A b \in Line : Passed(b)' => ~IsBase(b)'
    BY <1>3, <1>5 DEF Passed
  <2>5. map' \in [0 .. PageCount - 1 -> {"rw", "r", "none"}] /\ 0 .. sample' - 1 = {}
    BY <2>2 DEF ScanInv
  <2> QED BY <2>1, <2>2, <2>3, <2>4, <2>5 DEF ScanInv
<1> QED BY <1>6, <1>7

(* A page that is left out is not the memory. *)
LEMMA ScanSkip ==
  ASSUME ScanInv, SkipPage
  PROVE  ScanInv'
<1>1. base = Nothing /\ map[area] # "rw" /\ NextPlace(area, off) /\ UNCHANGED <<map, line>>
  BY DEF SkipPage
<1>2. (area * PgLen + off) \div PgLen = area
  BY <1>1, PlaceIsLine DEF ScanInv
<1>3. ~IsBase(area * PgLen + off)
  BY <1>1, <1>2 DEF IsBase, PageOf
<1> QED BY <1>1, <1>3, ScanOn

(* A line that is read as a vector is one, and belongs to this place.      *)
LEMMA ScanTest ==
  ASSUME ScanInv, MemTest
  PROVE  ScanInv'
<1> USE MemScanAssumption
<1>1. PICK b : b = area * PgLen + off
  OBVIOUS
<1>2. /\ base = Nothing /\ map[area] = "rw" /\ UNCHANGED <<map, line>>
      /\ buf' = ReadLine(Sample(b, sample))
      /\ IF buf' # "key" THEN NextPlace(area, off)
         ELSE IF sample < 3
         THEN sample' = sample + 1 /\ UNCHANGED <<area, off, base>>
         ELSE base' = b /\ UNCHANGED <<area, off, sample>>
  BY <1>1 DEF MemTest
<1>3. /\ area \in 0 .. PageCount - 1 /\ off \in 0 .. PgLen - 1 /\ sample \in 0 .. 3
      /\ sample > 0 => buf = "key"
      /\ \A k \in 0 .. sample - 1 : Readable(Sample(b, k)) /\ line[Sample(b, k)] = "turned"
      /\ \A d \in Line : Passed(d) => ~IsBase(d)
  BY <1>1, <1>2 DEF ScanInv
<1>4. b \in Line /\ b \div PgLen = area /\ b % PgLen = off
  BY <1>1, <1>3, PlaceIsLine
<1>5. Sample(b, 0) = b
  BY <1>4 DEF Sample, Line
<1>6. \A d : IsBase(d)' <=> IsBase(d)
  BY <1>2 DEF IsBase, Readable, PageOf, Sample
<1>7. CASE buf' # "key"
  <2>1. ~(Readable(Sample(b, sample)) /\ line[Sample(b, sample)] = "turned")
    BY <1>2, <1>7 DEF ReadLine, Swapped
  <2>2. ~IsBase(b)
    BY <1>3, <2>1 DEF IsBase
  <2> QED BY <1>1, <1>2, <1>7, <2>2, ScanOn
<1>8. CASE buf' = "key"
  <2>1. Readable(Sample(b, sample)) /\ line[Sample(b, sample)] = "turned"
    <3>1. Readable(Sample(b, sample))
      <4>1. CASE sample = 0
        BY <1>2, <1>4, <1>5, <4>1 DEF Readable, PageOf
      <4>2. CASE sample # 0
        <5>1. buf = "key"
          BY <1>3, <4>2
        <5> QED BY <1>2, <1>8, <5>1 DEF ReadLine, Swapped
      <4> QED BY <4>1, <4>2
    <3>2. Swapped(line[Sample(b, sample)]) = "key"
      BY <1>2, <1>8, <3>1 DEF ReadLine
    <3> QED BY <3>1, <3>2 DEF Swapped
  <2>2. \A k \in 0 .. sample : Readable(Sample(b, k)) /\ line[Sample(b, k)] = "turned"
    BY <1>3, <2>1
  <2>3. CASE sample < 3
    <3>1. sample' = sample + 1 /\ UNCHANGED <<area, off, base>>
      BY <1>2, <1>8, <2>3
    <3>2. \A k \in 0 .. sample' - 1 :
            Readable(Sample(b, k))' /\ line'[Sample(b, k)] = "turned"
      BY <1>2, <1>3, <2>2, <3>1 DEF Readable, PageOf
    <3>3. /\ \A d \in Line : Passed(d)' => ~IsBase(d)'
          /\ FoundRight'
      BY <1>3, <1>6, <3>1 DEF Passed, FoundRight, ScanInv, Before
    <3>4. sample' \in 0 .. 3
      BY <1>3, <2>3, <3>1
    <3> QED BY <1>1, <1>2, <1>3, <1>8, <3>1, <3>2, <3>3, <3>4 DEF ScanInv, Sample, Readable, PageOf
  <2>4. CASE sample = 3
    <3>1. base' = b /\ b \in Line
      BY <1>2, <1>4, <1>8, <2>4
    <3>2. IsBase(b)
      BY <1>2, <1>4, <2>2, <2>4 DEF IsBase, PageOf
    <3>3. ASSUME NEW d \in Line, IsBase(d), Before(d, b)
          PROVE  FALSE
      <4>1. PICK q \in 0 .. PageCount - 1, r \in 0 .. PgLen - 1 :
              q = d \div PgLen /\ r = d % PgLen /\ d = q * PgLen + r
        BY LineIsPlace
      <4>2. r < off \/ (r = off /\ d < b)
        BY <1>4, <3>3, <4>1 DEF Before
      <4>3. CASE r < off
        BY <1>3, <3>3, <4>1, <4>3 DEF Passed
      <4>4. CASE r = off /\ d < b
        <5>1. q < area
          <6> SUFFICES ASSUME q >= area
                       PROVE  FALSE
            BY <1>3, <4>1
          <6>1. q * PgLen >= area * PgLen
            BY <1>3
          <6>2. PICK z \in Int, x \in Int : z = q * PgLen /\ x = area * PgLen
            BY <1>3
          <6> QED BY <1>1, <1>3, <4>1, <4>4, <6>1, <6>2
        <5> QED BY <1>3, <3>3, <4>1, <4>4, <5>1 DEF Passed
      <4> QED BY <4>2, <4>3, <4>4
    <3>4. b # Nothing /\ b # -1
      BY <3>1 DEF Line
    <3>5. FoundRight'
      BY <1>6, <3>1, <3>2, <3>3, <3>4 DEF FoundRight
    <3> QED BY <1>2, <3>1, <3>4, <3>5 DEF ScanInv
  <2> QED BY <1>3, <2>3, <2>4
<1> QED BY <1>7, <1>8

(* The inductive invariant of the search. *)
THEOREM SearchInvariant == MemScanSpec => []ScanInv
<1> USE MemScanAssumption
<1>1. MemScanInit => ScanInv
  <2> SUFFICES ASSUME MemScanInit
               PROVE  ScanInv
    OBVIOUS
  <2>1. /\ off = 0 /\ area = 0 /\ sample = 0 /\ base = Nothing
        /\ map \in [0 .. PageCount - 1 -> {"rw", "r", "none"}]
    BY DEF MemScanInit
  <2>2. \A b \in Line : ~Passed(b)
    BY <2>1, LineIsPlace DEF Passed
  <2>3. FoundRight
    BY <2>1 DEF FoundRight, Line
  <2>4. 0 \in 0 .. PageCount - 1 /\ 0 \in 0 .. PgLen - 1 /\ 0 .. 0 - 1 = {}
    OBVIOUS
  <2> QED BY <2>1, <2>2, <2>3, <2>4 DEF ScanInv
<1>2. ScanInv /\ [MemScanNext]_memScanVars => ScanInv'
  <2> SUFFICES ASSUME ScanInv, [MemScanNext]_memScanVars
               PROVE  ScanInv'
    OBVIOUS
  <2>1. CASE UNCHANGED memScanVars
    BY <2>1 DEF memScanVars, ScanInv, FoundRight, IsBase, Before, Passed, Readable, PageOf, Sample
  <2> QED BY <2>1, ScanSkip, ScanTest DEF MemScanNext
<1> QED BY <1>1, <1>2, PTL DEF MemScanSpec

(* For any number of pages and any distance of the vectors: what is taken  *)
(* for the console's memory is the first place with all four vectors       *)
(* (memory.c:116-133, 253-281).                                            *)
THEOREM MemoryIsFound == MemScanSpec => []FoundRight
<1>1. ScanInv => FoundRight
  BY DEF ScanInv
<1> QED BY <1>1, SearchInvariant, PTL

-----------------------------------------------------------------------------
(* Interpolation.  A step takes at least a 15th of what is left, so seven  *)
(* take a third: a row of bounds, each for seven frames, and between two   *)
(* of them what the bound falls by in a frame.                             *)

Bound ==
  <<617807, 411874, 274583, 183058, 122039, 81362, 54244, 36163, 24109, 16073, 10718,
    7148, 4768, 3179, 2122, 1415, 946, 631, 421, 281, 190, 127>>
Fall ==
  <<29419, 19613, 13075, 8717, 5811, 3874, 2583, 1722, 1148, 765, 510,
    340, 227, 151, 101, 67, 45, 30, 20, 13, 9>>

(* What is left, left, is within the bounds from the first on, e frames    *)
(* after a datagram.                                                       *)
Within(left, e, first) ==
  \A k \in first .. 21, j \in 0 .. 7 :
    e = 7 * (k - first) + j => left <= Bound[k] - j * Fall[k]

IsS16(i) == i \in Int /\ i >= -32768 /\ i <= 32767
Amount(i) == IF i < 0 THEN -i ELSE i
Frames == NP_TIMEOUT - np_timer

ViewInv ==
  /\ IsS16(rot) /\ dist \in Nat
  /\ np_timer \in 0 .. NP_TIMEOUT /\ np_timer_prev \in Int
  /\ np_timer_delta \in Int /\ np_timer_delta <= 10
  /\ Within(dist, Frames, 1)
  /\ Frames >= 147 => dist <= 127
  /\ Frames >= 148 => dist = 0
  /\ Within(Amount(rot), Frames, 8)
  /\ \A i \in 0 .. 16 : Frames >= 98 + i => Amount(rot) <= 127 - 4 * i
  /\ Frames >= 115 => rot = 0

(* The bounds fall as fast as the steps allow, and no faster. *)
LEMMA Falls ==
  ASSUME NEW k \in 1 .. 21
  PROVE  /\ Bound[k] \in Nat /\ Fall[k] \in Nat /\ Bound[k + 1] \in Nat
         /\ Bound[k] = Bound[k + 1] + 7 * Fall[k] /\ Bound[k + 1] >= 14 * Fall[k]
<1>1. CASE k \in 1 .. 7
  <2>1. k = 1 \/ k = 2 \/ k = 3 \/ k = 4 \/ k = 5 \/ k = 6 \/ k = 7
    BY <1>1
  <2> QED BY <2>1 DEF Bound, Fall
<1>2. CASE k \in 8 .. 14
  <2>1. k = 8 \/ k = 9 \/ k = 10 \/ k = 11 \/ k = 12 \/ k = 13 \/ k = 14
    BY <1>2
  <2> QED BY <2>1 DEF Bound, Fall
<1>3. CASE k \in 15 .. 21
  <2>1. k = 15 \/ k = 16 \/ k = 17 \/ k = 18 \/ k = 19 \/ k = 20 \/ k = 21
    BY <1>3
  <2> QED BY <2>1 DEF Bound, Fall
<1> QED BY <1>1, <1>2, <1>3

(* A step that takes a 15th, rounded down, keeps to the bounds. *)
LEMMA StepWithin ==
  ASSUME NEW left \in Nat, NEW less \in Nat, 15 * less <= 14 * left + 14,
         NEW e \in Nat, NEW first \in 1 .. 21, Within(left, e, first)
  PROVE  /\ Within(less, e + 1, first)
         /\ e = 7 * (21 - first) + 6 => less <= 127
<1>1. ASSUME NEW k \in first .. 21, NEW j \in 0 .. 6, e = 7 * (k - first) + j
      PROVE  less <= Bound[k] - (j + 1) * Fall[k]
  <2>1. k \in 1 .. 21 /\ j \in 0 .. 7
    OBVIOUS
  <2>2. PICK b \in Nat, f \in Nat, c \in Nat :
          b = Bound[k] /\ f = Fall[k] /\ c = Bound[k + 1] /\ b = c + 7 * f /\ c >= 14 * f
    BY <2>1, Falls
  <2>3. left <= b - j * f
    BY <1>1, <2>1, <2>2 DEF Within
  <2>4. PICK p \in Int : p = j * f /\ p <= 6 * f /\ (j + 1) * f = p + f
    <3>1. j = 0 \/ j = 1 \/ j = 2 \/ j = 3 \/ j = 4 \/ j = 5 \/ j = 6
      OBVIOUS
    <3> QED BY <3>1
  <2>5. less <= b - (p + f)
    BY <2>2, <2>3, <2>4
  <2> QED BY <2>2, <2>4, <2>5
<1>2. Within(less, e + 1, first)
  <2> SUFFICES ASSUME NEW k \in first .. 21, NEW j \in 0 .. 7, e + 1 = 7 * (k - first) + j
               PROVE  less <= Bound[k] - j * Fall[k]
    BY DEF Within
  <2>1. CASE j # 0
    <3>1. PICK i \in 0 .. 6 : j = i + 1
      BY <2>1
    <3>2. e = 7 * (k - first) + i
      BY <3>1
    <3> QED BY <1>1, <3>1, <3>2
  <2>2. CASE j = 0
    <3>1. k # first
      BY <2>2
    <3>2. PICK i \in first .. 21 : k = i + 1 /\ i \in 1 .. 21
      BY <3>1
    <3>3. e = 7 * (i - first) + 6 /\ 6 \in 0 .. 6 /\ 6 + 1 = 7
      BY <2>2, <3>2
    <3>4. less <= Bound[i] - 7 * Fall[i]
      BY <1>1, <3>3
    <3>5. Bound[i] - 7 * Fall[i] = Bound[k] /\ Bound[k] \in Nat /\ k \in 1 .. 21
      BY <3>2, Falls
    <3>6. Bound[k] - j * Fall[k] = Bound[k]
      BY <2>2, <3>5, Falls
    <3> QED BY <3>4, <3>5, <3>6
  <2> QED BY <2>1, <2>2
<1>3. ASSUME e = 7 * (21 - first) + 6
      PROVE  less <= 127
  <2>1. 21 \in first .. 21 /\ 6 \in 0 .. 6 /\ 6 + 1 = 7
    OBVIOUS
  <2>2. less <= Bound[21] - 7 * Fall[21]
    BY <1>1, <1>3, <2>1
  <2> QED BY <2>2 DEF Bound, Fall
<1> QED BY <1>2, <1>3

(* A quotient by a delay of at most 10 is a 15th or more. *)
LEMMA QuotientOfWay ==
  ASSUME NEW n \in Nat, NEW k \in 1 .. 10
  PROVE  (2 * n) \div (3 * k) \in 0 .. n /\ 15 * (n - (2 * n) \div (3 * k)) <= 14 * n + 14
<1>1. \/ k = 1 \/ k = 2 \/ k = 3 \/ k = 4 \/ k = 5
      \/ k = 6 \/ k = 7 \/ k = 8 \/ k = 9 \/ k = 10
  OBVIOUS
<1> QED BY <1>1

(* The same of an angle, where the delay is multiplied first. *)
LEMMA QuotientOfTurn ==
  ASSUME NEW n \in Nat, NEW k \in 1 .. 10
  PROVE  /\ n \div ((k * 3) \div 2) \in 0 .. n
         /\ 15 * (n - n \div ((k * 3) \div 2)) <= 14 * n + 14
<1>1. \/ k = 1 \/ k = 2 \/ k = 3 \/ k = 4 \/ k = 5
      \/ k = 6 \/ k = 7 \/ k = 8 \/ k = 9 \/ k = 10
  OBVIOUS
<1>2. PICK d \in 1 .. 15 : d = (k * 3) \div 2
  BY <1>1
<1>3. \/ d = 1 \/ d = 2 \/ d = 3 \/ d = 4 \/ d = 5 \/ d = 6 \/ d = 7 \/ d = 8
      \/ d = 9 \/ d = 10 \/ d = 11 \/ d = 12 \/ d = 13 \/ d = 14 \/ d = 15
  OBVIOUS
<1>4. n \div d \in 0 .. n /\ 15 * (n - n \div d) <= 14 * n + 14
  BY <1>3
<1> QED BY <1>2, <1>4

(* What a frame leaves of the way. *)
LEMMA WayStep ==
  ASSUME ViewInv
  PROVE  /\ InterpolateF \in 0 .. dist /\ 15 * InterpolateF <= 14 * dist + 14
         /\ dist <= 127 => InterpolateF = 0
<1>1. dist \in Nat /\ Delay \in 1 .. 10
  BY DEF ViewInv, Delay
<1>2. /\ (2 * dist) \div (3 * Delay) \in 0 .. dist
      /\ 15 * (dist - (2 * dist) \div (3 * Delay)) <= 14 * dist + 14
  BY <1>1, QuotientOfWay
<1>3. PICK q \in 0 .. dist : q = (2 * dist) \div (3 * Delay) /\ 15 * (dist - q) <= 14 * dist + 14
  BY <1>2
<1>4. InterpolateF = IF dist < 128 THEN 0 ELSE dist - q
  BY <1>3 DEF InterpolateF
<1> QED BY <1>1, <1>3, <1>4

(* What it leaves of the angle, half turns included. *)
LEMMA TurnStep ==
  ASSUME ViewInv
  PROVE  /\ IsS16(InterpolateS)
         /\ Amount(InterpolateS) \in 0 .. Amount(rot)
         /\ 15 * Amount(InterpolateS) <= 14 * Amount(rot) + 14
         /\ Amount(rot) <= 63 => InterpolateS = 0
<1>1. IsS16(rot) /\ Delay \in 1 .. 10
  BY DEF ViewInv, Delay
<1>2. PICK n \in Nat : n = Amount(rot)
  BY <1>1 DEF Amount, IsS16
<1>3. /\ n \div ((Delay * 3) \div 2) \in 0 .. n
      /\ 15 * (n - n \div ((Delay * 3) \div 2)) <= 14 * n + 14
  BY <1>1, QuotientOfTurn
<1>4. PICK q \in 0 .. n :
        q = n \div ((Delay * 3) \div 2) /\ 15 * (n - q) <= 14 * n + 14
  BY <1>3
<1>5. Quotient(rot, (Delay * 3) \div 2) = IF rot < 0 THEN -q ELSE q
  BY <1>1, <1>2, <1>4 DEF Quotient, Amount, IsS16
<1>6. PICK r \in Int : IsS16(r) /\ r = rot - (IF rot < 0 THEN -q ELSE q) /\ Amount(r) = n - q
  BY <1>1, <1>2 DEF Amount, IsS16
<1>7. S16(r) = r
  BY <1>6 DEF S16, IsS16
<1>8. InterpolateS = IF rot > -64 /\ rot < 64 THEN 0 ELSE r
  BY <1>5, <1>6, <1>7 DEF InterpolateS, IsS16
<1>9. CASE rot > -64 /\ rot < 64
  <2>1. InterpolateS = 0 /\ Amount(InterpolateS) = 0
    BY <1>8, <1>9 DEF Amount
  <2> QED BY <1>2, <2>1 DEF IsS16
<1>10. CASE ~(rot > -64 /\ rot < 64)
  <2>1. InterpolateS = r /\ Amount(rot) > 63
    BY <1>1, <1>8, <1>10 DEF Amount, IsS16
  <2> QED BY <1>2, <1>4, <1>6, <2>1
<1> QED BY <1>9, <1>10

(* A datagram or a frame keeps the invariant. *)
LEMMA ViewStep == ASSUME ViewInv, [ViewNext]_viewVars PROVE ViewInv'
<1>1. ASSUME NEW a \in Turn, NEW d \in Leap, RecvMove(a, d)
      PROVE  ViewInv'
  <2>1. rot' = S16(rot + a) /\ dist' = d /\ Frames' = 0 /\ np_timer' = NP_TIMEOUT
        /\ UNCHANGED <<np_timer_prev, np_timer_delta>>
    BY <1>1, ViewAssumption DEF RecvMove, Frames
  <2>2. a \in Int /\ d \in Nat /\ d <= 524288
    BY ViewAssumption
  <2>3. IsS16(rot')
    <3>1. PICK i \in Int : i = rot + a
      BY <2>2 DEF ViewInv, IsS16
    <3>2. IsS16(S16(i))
      BY DEF S16, IsS16
    <3> QED BY <2>1, <3>1, <3>2
  <2>4. Amount(rot') \in Nat /\ Amount(rot') <= 32768
    <3>1. PICK i \in Int : i = rot' /\ i >= -32768 /\ i <= 32767
      BY <2>3 DEF IsS16
    <3>2. CASE i < 0
      <4>1. Amount(rot') = -i
        BY <3>1, <3>2 DEF Amount
      <4>2. -i \in Nat /\ -i <= 32768
        <5>1. i >= -32768 /\ i < 0
          BY <3>1, <3>2
        <5> QED BY <5>1
      <4> QED BY <4>1, <4>2
    <3>3. CASE ~(i < 0)
      BY <3>1, <3>3 DEF Amount
    <3> QED BY <3>2, <3>3
  <2>5. Within(dist', Frames', 1)
    <3> SUFFICES ASSUME NEW k \in 1 .. 21, NEW j \in 0 .. 7, 0 = 7 * (k - 1) + j
                 PROVE  d <= Bound[k] - j * Fall[k]
      BY <2>1 DEF Within
    <3>1. k = 1 /\ j = 0
      OBVIOUS
    <3> QED BY <2>2, <3>1 DEF Bound, Fall
  <2>6. Within(Amount(rot'), Frames', 8)
    <3>1. PICK n \in Nat : n = Amount(rot') /\ n <= 32768
      BY <2>4
    <3> SUFFICES ASSUME NEW k \in 8 .. 21, NEW j \in 0 .. 7, 0 = 7 * (k - 8) + j
                 PROVE  n <= Bound[k] - j * Fall[k]
      BY <2>1, <3>1 DEF Within
    <3>2. k = 8 /\ j = 0
      OBVIOUS
    <3> QED BY <3>1, <3>2 DEF Bound, Fall
  <2>7. np_timer' \in 0 .. NP_TIMEOUT /\ np_timer_prev' \in Int
        /\ np_timer_delta' \in Int /\ np_timer_delta' <= 10
    BY <2>1, ViewAssumption DEF ViewInv
  <2> QED BY <2>1, <2>2, <2>3, <2>5, <2>6, <2>7 DEF ViewInv
<1>2. CASE UpdatePeer
  <2>1. /\ rot' = InterpolateS /\ dist' = InterpolateF
        /\ np_timer > 0 /\ np_timer' = np_timer - 1
    BY <1>2 DEF UpdatePeer
  <2>2. PICK e \in Nat : e = Frames /\ Frames' = e + 1
    BY <2>1, ViewAssumption DEF Frames, ViewInv
  <2>3. np_timer' \in 0 .. NP_TIMEOUT
    BY <2>1, ViewAssumption DEF ViewInv
  <2>4. np_timer_prev' \in Int /\ np_timer_delta' \in Int /\ np_timer_delta' <= 10
    BY <1>2, ViewAssumption DEF UpdatePeer, Delta, ViewInv
  <2>5. /\ InterpolateF \in 0 .. dist /\ 15 * InterpolateF <= 14 * dist + 14
        /\ dist <= 127 => InterpolateF = 0
    BY WayStep
  <2>6. /\ IsS16(InterpolateS)
        /\ Amount(InterpolateS) \in 0 .. Amount(rot)
        /\ 15 * Amount(InterpolateS) <= 14 * Amount(rot) + 14
        /\ Amount(rot) <= 63 => InterpolateS = 0
    BY TurnStep
  <2>7. PICK way \in Nat, less \in Nat : way = dist /\ less = dist' /\ less <= way
                                         /\ 15 * less <= 14 * way + 14
                                         /\ (way <= 127 => less = 0)
    BY <2>1, <2>5 DEF ViewInv
  <2>8. PICK angle \in Nat, rest \in Nat :
          /\ angle = Amount(rot) /\ rest = Amount(rot') /\ rest <= angle
          /\ 15 * rest <= 14 * angle + 14 /\ (angle <= 63 => rest = 0 /\ rot' = 0)
    <3>1. Amount(rot) \in Nat /\ Amount(0) = 0
      BY DEF ViewInv, Amount, IsS16
    <3> QED BY <2>1, <2>6, <3>1
  <2>9. Within(less, e + 1, 1) /\ (e = 146 => less <= 127)
    <3>1. Within(way, e, 1)
      BY <2>2, <2>7 DEF ViewInv
    <3>2. 15 * less <= 14 * way + 14
      BY <2>7
    <3>3. PICK first \in 1 .. 21 : first = 1
      OBVIOUS
    <3>4. Within(way, e, first)
      BY <3>1, <3>3
    <3>5. Within(less, e + 1, first) /\ (e = 7 * (21 - first) + 6 => less <= 127)
      BY <3>2, <3>4, StepWithin
    <3> QED BY <3>3, <3>5
  <2>10. Within(rest, e + 1, 8) /\ (e = 97 => rest <= 127)
    <3>1. Within(angle, e, 8)
      BY <2>2, <2>8 DEF ViewInv
    <3>2. 15 * rest <= 14 * angle + 14
      BY <2>8
    <3>3. PICK first \in 1 .. 21 : first = 8
      OBVIOUS
    <3>4. Within(angle, e, first)
      BY <3>1, <3>3
    <3>5. Within(rest, e + 1, first) /\ (e = 7 * (21 - first) + 6 => rest <= 127)
      BY <3>2, <3>4, StepWithin
    <3> QED BY <3>3, <3>5
  <2>11. (e >= 147 => way <= 127) /\ (e >= 148 => way = 0)
    BY <2>2, <2>7 DEF ViewInv
  <2>12. (e + 1 >= 147 => less <= 127) /\ (e + 1 >= 148 => less = 0)
    BY <2>7, <2>9, <2>11
  <2>13. \A i \in 0 .. 16 : e >= 98 + i => angle <= 127 - 4 * i
    BY <2>2, <2>8 DEF ViewInv
  <2>14. \A i \in 0 .. 16 : e + 1 >= 98 + i => rest <= 127 - 4 * i
    <3> SUFFICES ASSUME NEW i \in 0 .. 16, e + 1 >= 98 + i PROVE rest <= 127 - 4 * i
      OBVIOUS
    <3>1. CASE i = 0
      BY <2>8, <2>10, <2>13, <3>1
    <3>2. CASE i # 0
      <4>1. PICK j \in 0 .. 15 : i = j + 1
        BY <3>2
      <4>2. angle <= 127 - 4 * j
        BY <2>13, <4>1
      <4> QED BY <2>8, <4>1, <4>2
    <3> QED BY <3>1, <3>2
  <2>15. e + 1 >= 115 => rot' = 0
    <3>1. e >= 114 => angle <= 127 - 4 * 16
      BY <2>13
    <3> QED BY <2>8, <3>1
  <2>16. IsS16(rot') /\ dist' \in Nat
    BY <2>1, <2>6, <2>7
  <2> QED BY <2>2, <2>3, <2>4, <2>7, <2>8, <2>9, <2>10, <2>12, <2>14, <2>15, <2>16 DEF ViewInv
<1>3. CASE UNCHANGED viewVars
  BY <1>3 DEF ViewInv, Frames, viewVars
<1> QED BY <1>1, <1>2, <1>3 DEF ViewNext

(* What is left of the way and of the angle keeps to the bounds, for any   *)
(* datagrams at any times.                                                 *)
THEOREM ViewInvariant == ViewSpec => []ViewInv
<1>1. ViewInit => ViewInv
  <2> SUFFICES ASSUME ViewInit PROVE ViewInv
    OBVIOUS
  <2> USE DEF ViewInit
  <2>1. Frames = 0 /\ Amount(rot) = 0 /\ NP_TIMEOUT \in Nat
    BY ViewAssumption DEF Frames, Amount
  <2>2. \A k \in 1 .. 21, j \in 0 .. 7 : 0 <= Bound[k] - j * Fall[k]
    <3> SUFFICES ASSUME NEW k \in 1 .. 21, NEW j \in 0 .. 7
                 PROVE  0 <= Bound[k] - j * Fall[k]
      OBVIOUS
    <3>1. j = 0 \/ j = 1 \/ j = 2 \/ j = 3 \/ j = 4 \/ j = 5 \/ j = 6 \/ j = 7
      OBVIOUS
    <3>2. PICK b \in Nat, f \in Nat, c \in Nat : b = Bound[k] /\ f = Fall[k] /\ b = c + 7 * f
      BY Falls
    <3> QED BY <3>1, <3>2
  <2>3. Within(dist, Frames, 1) /\ Within(Amount(rot), Frames, 8)
    BY <2>1, <2>2 DEF Within
  <2> QED BY <2>1, <2>3 DEF ViewInv, IsS16
<1>2. ViewInv /\ [ViewNext]_viewVars => ViewInv'
  BY ViewStep
<1> QED BY <1>1, <1>2, PTL DEF ViewSpec

(* A peer from whom nothing more comes stands where she last was, turned   *)
(* as she last was, before she begins to fade: whatever the angle, half    *)
(* turns included, however the datagrams were spaced, and as far as a      *)
(* level is wide (np.c:57-83, 347-366).                                    *)
THEOREM PeersSettle == ViewSpec => []Settled
<1>1. ViewInv => Settled
  BY ViewAssumption DEF ViewInv, Settled, Frames
<1> QED BY <1>1, ViewInvariant, PTL

-----------------------------------------------------------------------------
(* The USB client. *)

(* The words of both directions. *)
Word == [is : {"netR", "netW", "number", "data"}, v : Int, op : Nat]

UsbType ==
  /\ mem \in [Place -> Word] /\ meant \in [Place -> Word]
  /\ up \in Seq(Word) /\ down \in Seq(Word) /\ got \in Seq(Word)
  /\ Len(down) <= Fifo
  /\ came \in 0 .. Len(up)
  /\ host \in {"off", "idle", "data", "recv"}
  /\ req \in [addr : Nat, size : Nat] /\ asked \in Nat
  /\ usb \in {"idle", "cmd", "in", "out"}
  /\ usb_cmd \in [code : {"none", "netR", "netW", "number", "data"}, addr : Int, left : Int]
  /\ late \in BOOLEAN

IsCode(w) == w.is \in {"netR", "netW"}
IsData(w, a) == w.is = "data" /\ w.v = a

(* What stands behind the first word of a command in what the host sent. *)
Whole(s, i) == /\ \A k \in 1 .. 3 : s[i + k].is = "number"
               /\ s[i + 1].v \in Nat /\ s[i + 2].v \in 1 .. MemLen
               /\ s[i + 1].v + s[i + 2].v <= MemLen
Asks(s, i, r) == s[i + 1].v = r.addr /\ s[i + 2].v = r.size
HasData(s, i) ==
  \A k \in 1 .. s[i + 2].v : i + 3 + k <= Len(s) => IsData(s[i + 3 + k], s[i + 1].v + k - 1)

(* The words on the way to the console, if the client is in state h of     *)
(* request r: whole commands, a write followed by its data and these by a  *)
(* command, only the last command open.  A client that ended may have left *)
(* the last one cut.                                                       *)
Stream(s, h, r) ==
  \A i \in 1 .. Len(s) : IsCode(s[i]) =>
    /\ h # "off" => i + 3 <= Len(s)
    /\ i + 3 <= Len(s) =>
         /\ Whole(s, i)
         /\ s[i].is = "netR" => h = "off" \/ (h = "recv" /\ i + 3 = Len(s) /\ Asks(s, i, r))
         /\ s[i].is = "netW" =>
              /\ HasData(s, i)
              /\ \/ h = "off" \/ i + 3 + s[i + 2].v <= Len(s)
                 \/ h = "data" /\ i + 3 = Len(s) /\ Asks(s, i, r)
              /\ i + 4 + s[i + 2].v <= Len(s) => IsCode(s[i + 4 + s[i + 2].v])

Writing == usb = "in" /\ usb_cmd.left > 0
Reading == usb = "out" /\ usb_cmd.left > 0

(* Whatever the console takes for a command is one the host said, or no    *)
(* command at all, and what it takes for data of a command are its data.   *)
WriteInv ==
  /\ \A a \in Place : IsData(mem[a], a)
  /\ Stream(up, host, req)
  /\ usb = "in" =>
       /\ usb_cmd.left \in Nat
       /\ \A k \in 1 .. usb_cmd.left :
            /\ usb_cmd.addr + k - 1 \in Place
            /\ k <= Len(up) => IsData(up[k], usb_cmd.addr + k - 1)
  /\ usb = "out" =>
       usb_cmd.left \in Nat /\ \A k \in 1 .. usb_cmd.left : usb_cmd.addr + k - 1 \in Place
  /\ Writing => \/ host = "off" \/ usb_cmd.left <= Len(up)
                \/ /\ host = "data" /\ up = <<>>
                   /\ req.addr = usb_cmd.addr /\ req.size = usb_cmd.left
  /\ host \in {"data", "recv"} => req.size \in 1 .. MemLen /\ req.addr + req.size <= MemLen
  /\ host = "data" => up = <<>> \/ up[Len(up)].is = "number"

(* A mem_rd receives the words of its request in order, and while they are *)
(* on the way nothing can change the memory they were read from.           *)
ReadInv ==
  /\ host = "off" => got = <<>>
  /\ host \in {"idle", "data"} => down = <<>>
  /\ host = "data" => got = <<>>
  /\ host = "recv" => Len(got) < req.size /\ Len(got) + Len(down) <= req.size
  /\ host # "off" =>
       /\ got # <<>> \/ down # <<>> => up = <<>> /\ usb # "in"
       /\ Reading => /\ host = "recv" /\ up = <<>>
                     /\ usb_cmd.addr = req.addr + Len(got) + Len(down)
                     /\ usb_cmd.left = req.size - Len(got) - Len(down)
       /\ \A i \in 1 .. Len(got) : got[i] = mem[req.addr + i - 1]
       /\ \A i \in 1 .. Len(down) : down[i] = mem[req.addr + Len(got) + i - 1]

(* The word that is the last for a place in what is on the way, if any. *)
LastFor(s, j, a) ==
  IsData(s[j], a) /\ \A m \in j + 1 .. Len(s) : ~IsData(s[m], a)

(* Once all of s has arrived in memory m, it is w. *)
Arrives(s, m, w) ==
  \A a \in Place :
    \/ \E j \in 1 .. Len(s) : LastFor(s, j, a) /\ w[a] = s[j]
    \/ (\A j \in 1 .. Len(s) : ~IsData(s[j], a)) /\ w[a] = m[a]

(* Where nothing was late, console and host agree where a command begins,  *)
(* and memory will be as it was meant once all words have arrived.         *)
MeantInv ==
  ~late /\ host # "off" =>
    /\ ~Writing /\ up # <<>> => IsCode(up[1])
    /\ Writing /\ usb_cmd.left < Len(up) => IsCode(up[usb_cmd.left + 1])
    /\ host = "data" /\ up = <<>> => Writing
    /\ Arrives(up, mem, meant)

UsbInv == UsbType /\ WriteInv /\ ReadInv /\ MeantInv

(* What is left of a sequence of words when the first n are taken. *)
LEMMA Rest ==
  ASSUME NEW s \in Seq(Word), NEW n \in 0 .. Len(s), NEW t, t = SubSeq(s, n + 1, Len(s))
  PROVE  /\ t \in Seq(Word) /\ Len(t) = Len(s) - n
         /\ \A i \in 1 .. Len(t) : t[i] = s[i + n]
<1>1. PICK len \in Nat : len = Len(s) /\ n \in 0 .. len /\ \A i \in 1 .. len : s[i] \in Word
  OBVIOUS
<1>2. \A i \in n + 1 .. len : s[i] \in Word
  BY <1>1
<1>3. /\ t \in Seq(Word) /\ Len(t) = IF n + 1 <= len THEN len - (n + 1) + 1 ELSE 0
      /\ \A i \in 1 .. len - (n + 1) + 1 : t[i] = s[n + 1 + i - 1]
  BY <1>1, <1>2, SubSeqProperties
<1>4. Len(t) = len - n
  BY <1>1, <1>3
<1>5. \A i \in 1 .. len - n : t[i] = s[i + n]
  <2>1. \A i \in 1 .. len - n : i \in 1 .. len - (n + 1) + 1 /\ n + 1 + i - 1 = i + n
    BY <1>1
  <2> QED BY <1>3, <2>1
<1> QED BY <1>1, <1>3, <1>4, <1>5

(* What is left is still a row of commands with their data. *)
LEMMA StreamRest ==
  ASSUME NEW s \in Seq(Word), NEW h, NEW r, Stream(s, h, r),
         NEW n \in 0 .. Len(s), NEW t, t = SubSeq(s, n + 1, Len(s))
  PROVE  Stream(t, h, r)
<1>1. PICK len \in Nat : len = Len(s) /\ n \in 0 .. len
  OBVIOUS
<1>2. Len(t) = len - n /\ \A i \in 1 .. len - n : t[i] = s[i + n]
  BY <1>1, Rest
<1> SUFFICES ASSUME NEW i \in 1 .. len - n, IsCode(t[i])
             PROVE  /\ h # "off" => i + 3 <= len - n
                    /\ i + 3 <= len - n =>
                         /\ Whole(t, i)
                         /\ t[i].is = "netR" =>
                              h = "off" \/ (h = "recv" /\ i + 3 = len - n /\ Asks(t, i, r))
                         /\ t[i].is = "netW" =>
                              /\ HasData(t, i)
                              /\ \/ h = "off" \/ i + 3 + t[i + 2].v <= len - n
                                 \/ h = "data" /\ i + 3 = len - n /\ Asks(t, i, r)
                              /\ i + 4 + t[i + 2].v <= len - n => IsCode(t[i + 4 + t[i + 2].v])
  BY <1>2 DEF Stream
<1>3. PICK j \in 1 .. len : j = i + n
  BY <1>1
<1>4. IsCode(s[j]) /\ t[i] = s[j]
  BY <1>2, <1>3
<1>5. /\ h # "off" => j + 3 <= len
      /\ j + 3 <= len =>
           /\ Whole(s, j)
           /\ s[j].is = "netR" => h = "off" \/ (h = "recv" /\ j + 3 = len /\ Asks(s, j, r))
           /\ s[j].is = "netW" =>
                /\ HasData(s, j)
                /\ \/ h = "off" \/ j + 3 + s[j + 2].v <= len
                   \/ h = "data" /\ j + 3 = len /\ Asks(s, j, r)
                /\ j + 4 + s[j + 2].v <= len => IsCode(s[j + 4 + s[j + 2].v])
  BY <1>1, <1>4 DEF Stream
<1>6. h # "off" => i + 3 <= len - n
  BY <1>1, <1>3, <1>5
<1>7. ASSUME i + 3 <= len - n
      PROVE  /\ Whole(t, i)
             /\ t[i].is = "netR" =>
                  h = "off" \/ (h = "recv" /\ i + 3 = len - n /\ Asks(t, i, r))
             /\ t[i].is = "netW" =>
                  /\ HasData(t, i)
                  /\ \/ h = "off" \/ i + 3 + t[i + 2].v <= len - n
                     \/ h = "data" /\ i + 3 = len - n /\ Asks(t, i, r)
                  /\ i + 4 + t[i + 2].v <= len - n => IsCode(t[i + 4 + t[i + 2].v])
  <2>1. j + 3 <= len /\ (i + 3 = len - n <=> j + 3 = len)
    BY <1>1, <1>3, <1>7
  <2>2. t[i + 1] = s[j + 1] /\ t[i + 2] = s[j + 2] /\ t[i + 3] = s[j + 3]
    <3>1. /\ i + 1 \in 1 .. len - n /\ i + 2 \in 1 .. len - n /\ i + 3 \in 1 .. len - n
          /\ i + 1 + n = j + 1 /\ i + 2 + n = j + 2 /\ i + 3 + n = j + 3
      BY <1>1, <1>3, <1>7
    <3> QED BY <1>2, <3>1
  <2>3. PICK size \in 1 .. MemLen : size = s[j + 2].v
    BY <1>5, <2>1 DEF Whole
  <2>4. Whole(t, i)
    <3>1. \A k \in 1 .. 3 : k = 1 \/ k = 2 \/ k = 3
      OBVIOUS
    <3> QED BY <1>5, <2>1, <2>2, <3>1 DEF Whole
  <2>5. Asks(t, i, r) <=> Asks(s, j, r)
    BY <2>2 DEF Asks
  <2>6. ASSUME HasData(s, j)
        PROVE  HasData(t, i)
    <3> SUFFICES ASSUME NEW k \in 1 .. size, i + 3 + k <= len - n
                 PROVE  IsData(t[i + 3 + k], t[i + 1].v + k - 1)
      BY <1>2, <2>2, <2>3 DEF HasData
    <3>1. i + 3 + k \in 1 .. len - n /\ i + 3 + k + n = j + 3 + k /\ j + 3 + k <= len
      BY <1>1, <1>3, UsbAssumption
    <3>2. IsData(s[j + 3 + k], s[j + 1].v + k - 1)
      BY <1>1, <2>3, <2>6, <3>1 DEF HasData
    <3> QED BY <1>2, <2>2, <3>1, <3>2
  <2>7. ASSUME i + 4 + size <= len - n, j + 4 + size <= len => IsCode(s[j + 4 + size])
        PROVE  IsCode(t[i + 4 + size])
    <3>1. i + 4 + size \in 1 .. len - n /\ i + 4 + size + n = j + 4 + size /\ j + 4 + size <= len
      BY <1>1, <1>3, <2>7, UsbAssumption
    <3> QED BY <1>2, <2>7, <3>1
  <2>8. j + 3 + size <= len <=> i + 3 + size <= len - n
    BY <1>1, <1>3, UsbAssumption
  <2> QED BY <1>4, <1>5, <2>1, <2>2, <2>3, <2>4, <2>5, <2>6, <2>7, <2>8
<1> QED BY <1>6, <1>7

(* The first n words of a sequence. *)
LEMMA FirstWords ==
  ASSUME NEW s \in Seq(Word), NEW n \in 0 .. Len(s), NEW t, t = SubSeq(s, 1, n)
  PROVE  t \in Seq(Word) /\ Len(t) = n /\ \A i \in 1 .. n : t[i] = s[i]
<1>1. PICK len \in Nat : len = Len(s) /\ n \in 0 .. len /\ \A i \in 1 .. len : s[i] \in Word
  OBVIOUS
<1>2. \A i \in 1 .. n : s[i] \in Word
  BY <1>1
<1>3. /\ t \in Seq(Word) /\ Len(t) = IF 1 <= n THEN n - 1 + 1 ELSE 0
      /\ \A i \in 1 .. n - 1 + 1 : t[i] = s[1 + i - 1]
  BY <1>1, <1>2, SubSeqProperties
<1>4. Len(t) = n
  BY <1>1, <1>3
<1>5. \A i \in 1 .. n : t[i] = s[i]
  <2>1. \A i \in 1 .. n : i \in 1 .. n - 1 + 1 /\ 1 + i - 1 = i
    BY <1>1
  <2> QED BY <1>3, <2>1
<1> QED BY <1>3, <1>4, <1>5

(* What has left a client that ended is still a row of commands, the last  *)
(* of them perhaps cut.                                                    *)
LEMMA StreamCut ==
  ASSUME NEW s \in Seq(Word), NEW h, NEW r, Stream(s, h, r),
         NEW n \in 0 .. Len(s), NEW t, t = SubSeq(s, 1, n)
  PROVE  Stream(t, "off", r)
<1>1. PICK len \in Nat : len = Len(s) /\ n \in 0 .. len
  OBVIOUS
<1>2. Len(t) = n /\ \A i \in 1 .. n : t[i] = s[i]
  BY <1>1, FirstWords
<1> SUFFICES ASSUME NEW i \in 1 .. n, IsCode(t[i]), i + 3 <= n
             PROVE  /\ Whole(t, i)
                    /\ t[i].is = "netW" =>
                         /\ HasData(t, i)
                         /\ i + 4 + t[i + 2].v <= n => IsCode(t[i + 4 + t[i + 2].v])
  BY <1>2 DEF Stream
<1>3. t[i] = s[i] /\ t[i + 1] = s[i + 1] /\ t[i + 2] = s[i + 2] /\ t[i + 3] = s[i + 3]
  <2>1. i + 1 \in 1 .. n /\ i + 2 \in 1 .. n /\ i + 3 \in 1 .. n
    BY <1>1
  <2> QED BY <1>2, <2>1
<1>4. /\ Whole(s, i)
      /\ s[i].is = "netW" =>
           /\ HasData(s, i)
           /\ i + 4 + s[i + 2].v <= len => IsCode(s[i + 4 + s[i + 2].v])
  <2>1. i \in 1 .. len /\ i + 3 <= len /\ IsCode(s[i])
    BY <1>1, <1>3
  <2> QED BY <1>1, <2>1 DEF Stream
<1>5. PICK size \in 1 .. MemLen : size = s[i + 2].v
  BY <1>4 DEF Whole
<1>6. Whole(t, i)
  <2>1. \A k \in 1 .. 3 : k = 1 \/ k = 2 \/ k = 3
    OBVIOUS
  <2> QED BY <1>3, <1>4, <2>1 DEF Whole
<1>7. ASSUME HasData(s, i)
      PROVE  HasData(t, i)
  <2> SUFFICES ASSUME NEW k \in 1 .. size, i + 3 + k <= n
               PROVE  IsData(t[i + 3 + k], t[i + 1].v + k - 1)
    BY <1>2, <1>3, <1>5 DEF HasData
  <2>1. i + 3 + k \in 1 .. n /\ i + 3 + k <= len
    BY <1>1, UsbAssumption
  <2>2. IsData(s[i + 3 + k], s[i + 1].v + k - 1)
    BY <1>1, <1>5, <1>7, <2>1 DEF HasData
  <2> QED BY <1>2, <1>3, <2>1, <2>2
<1>8. ASSUME i + 4 + size <= n, i + 4 + size <= len => IsCode(s[i + 4 + size])
      PROVE  IsCode(t[i + 4 + size])
  <2>1. i + 4 + size \in 1 .. n /\ i + 4 + size <= len
    BY <1>1, <1>8, UsbAssumption
  <2> QED BY <1>2, <1>8, <2>1
<1> QED BY <1>3, <1>4, <1>5, <1>6, <1>7, <1>8

(* Two sequences have the same first n words. *)
Agree(s, t, n) == \A j \in 1 .. n : t[j] = s[j]

(* A sequence that begins as another has the commands that lie there. *)
LEMMA SameCommand ==
  ASSUME NEW s, NEW t, NEW n \in Nat, NEW i \in 1 .. n, Agree(s, t, n),
         i + 3 <= n, Whole(s, i)
  PROVE  Whole(t, i) /\ t[i] = s[i] /\ t[i + 1] = s[i + 1] /\ t[i + 2] = s[i + 2]
<1>1. t[i + 1] = s[i + 1] /\ t[i + 2] = s[i + 2] /\ t[i + 3] = s[i + 3]
  <2>1. i + 1 \in 1 .. n /\ i + 2 \in 1 .. n /\ i + 3 \in 1 .. n
    OBVIOUS
  <2> QED BY <2>1 DEF Agree
<1>2. Whole(t, i)
  <2>1. \A k \in 1 .. 3 : k = 1 \/ k = 2 \/ k = 3
    OBVIOUS
  <2> QED BY <1>1, <2>1 DEF Whole
<1>3. t[i] = s[i]
  BY DEF Agree
<1> QED BY <1>1, <1>2, <1>3

(* And their data, where these lie there too. *)
LEMMA SameData ==
  ASSUME NEW s, NEW t, NEW n \in Nat, NEW i \in 1 .. n, Agree(s, t, n),
         i + 3 <= n, Whole(s, i), Len(s) \in Nat, n <= Len(s),
         HasData(s, i), i + 3 + s[i + 2].v <= n
  PROVE  HasData(t, i)
<1>1. t[i + 1] = s[i + 1] /\ t[i + 2] = s[i + 2]
  BY SameCommand
<1>2. PICK size \in 1 .. MemLen : size = s[i + 2].v
  BY DEF Whole
<1> SUFFICES ASSUME NEW k \in 1 .. size
             PROVE  IsData(t[i + 3 + k], t[i + 1].v + k - 1)
  BY <1>1, <1>2 DEF HasData
<1>3. i + 3 + k \in 1 .. n /\ i + 3 + k <= Len(s)
  BY <1>2, UsbAssumption
<1>4. IsData(s[i + 3 + k], s[i + 1].v + k - 1)
  BY <1>2, <1>3 DEF HasData
<1> QED BY <1>1, <1>3, <1>4 DEF Agree

(* A command said where nothing is open is whole, and opens a request. *)
LEMMA StreamAsk ==
  ASSUME NEW s, NEW t, NEW len \in Nat, Len(s) = len, Len(t) = len + 4, Agree(s, t, len),
         NEW old, Stream(s, "idle", old),
         NEW r, r.addr \in Nat, r.size \in 1 .. MemLen, r.addr + r.size <= MemLen,
         NEW h, NEW c, \/ c = "netR" /\ h = "recv"
                       \/ c = "netW" /\ h = "data",
         t[len + 1].is = c,
         t[len + 2].is = "number", t[len + 2].v = r.addr,
         t[len + 3].is = "number", t[len + 3].v = r.size,
         t[len + 4].is = "number"
  PROVE  Stream(t, h, r)
<1>1. \A i \in 1 .. len : t[i] = s[i]
  BY DEF Agree
<1>2. PICK n \in 1 .. MemLen : n = r.size
  OBVIOUS
<1>3. ASSUME NEW i \in 1 .. len + 4, IsCode(t[i])
      PROVE  /\ i + 3 <= len + 4
             /\ Whole(t, i)
             /\ t[i].is = "netR" => (h = "recv" /\ i + 3 = len + 4 /\ Asks(t, i, r))
             /\ t[i].is = "netW" =>
                  /\ HasData(t, i)
                  /\ \/ i + 3 + t[i + 2].v <= len + 4
                     \/ h = "data" /\ i + 3 = len + 4 /\ Asks(t, i, r)
                  /\ i + 4 + t[i + 2].v <= len + 4 => IsCode(t[i + 4 + t[i + 2].v])
  <2>1. i \in 1 .. len \/ i = len + 1 \/ i = len + 2 \/ i = len + 3 \/ i = len + 4
    OBVIOUS
  <2>2. i # len + 2 /\ i # len + 3 /\ i # len + 4
    BY <1>3 DEF IsCode
  <2>3. CASE i \in 1 .. len
    <3>1. IsCode(s[i]) /\ t[i] = s[i]
      BY <1>1, <1>3, <2>3
    <3>2. /\ i + 3 <= len /\ Whole(s, i)
          /\ s[i].is # "netR"
          /\ s[i].is = "netW" =>
               /\ HasData(s, i)
               /\ i + 3 + s[i + 2].v <= len
               /\ i + 4 + s[i + 2].v <= len => IsCode(s[i + 4 + s[i + 2].v])
      BY <2>3, <3>1 DEF Stream
    <3>3. PICK size \in 1 .. MemLen : size = s[i + 2].v
      BY <3>2 DEF Whole
    <3>4. Whole(t, i) /\ t[i + 2] = s[i + 2]
      <4>1. i + 3 <= len /\ Whole(s, i)
        BY <3>2
      <4> QED BY <2>3, <4>1, SameCommand
    <3>5. ASSUME s[i].is = "netW"
          PROVE  HasData(t, i)
      <4>1. HasData(s, i) /\ i + 3 + s[i + 2].v <= len /\ len <= Len(s) /\ Len(s) \in Nat
        BY <3>2, <3>5
      <4>2. i + 3 <= len /\ Whole(s, i)
        BY <3>2
      <4> QED BY <2>3, <4>1, <4>2, SameData
    <3>6. ASSUME s[i].is = "netW", i + 4 + size <= len + 4
          PROVE  IsCode(t[i + 4 + size])
      <4>1. CASE i + 4 + size <= len
        <5>1. i + 4 + size \in 1 .. len
          BY <4>1, UsbAssumption
        <5> QED BY <1>1, <3>2, <3>3, <3>6, <4>1, <5>1
      <4>2. CASE ~(i + 4 + size <= len)
        <5>1. i + 3 + size <= len
          BY <3>2, <3>3, <3>6
        <5>2. i + 4 + size = len + 1
          <6>1. PICK x \in Int : x = i + 4 + size /\ i + 3 + size = x - 1
            BY UsbAssumption
          <6>2. ~(x <= len) /\ x - 1 <= len
            BY <4>2, <5>1, <6>1
          <6>3. x = len + 1
            BY <6>2
          <6> QED BY <6>1, <6>3
        <5> QED BY <5>2 DEF IsCode
      <4> QED BY <4>1, <4>2
    <3>7. i + 3 + size <= len => i + 3 + size <= len + 4
      BY UsbAssumption
    <3>8. i + 3 <= len + 4
      BY <3>2
    <3> QED BY <3>1, <3>2, <3>3, <3>4, <3>5, <3>6, <3>7, <3>8
  <2>4. CASE i = len + 1
    <3>1. i + 1 = len + 2 /\ i + 2 = len + 3 /\ i + 3 = len + 4
      BY <2>4
    <3>2. Whole(t, i) /\ Asks(t, i, r)
      <4>1. \A k \in 1 .. 3 : k = 1 \/ k = 2 \/ k = 3
        OBVIOUS
      <4> QED BY <2>4, <3>1, <4>1, UsbAssumption DEF Whole, Asks
    <3>3. HasData(t, i)
      <4>1. \A k \in 1 .. n : ~(i + 3 + k <= len + 4)
        BY <2>4, UsbAssumption
      <4> QED BY <1>2, <3>1, <4>1 DEF HasData
    <3>4. ~(i + 4 + n <= len + 4) /\ i + 3 = len + 4
      BY <2>4, UsbAssumption
    <3> QED BY <1>2, <2>4, <3>1, <3>2, <3>3, <3>4
  <2> QED BY <2>1, <2>2, <2>3, <2>4
<1> QED BY <1>3 DEF Stream

(* The data that follow make the command complete. *)
LEMMA StreamData ==
  ASSUME NEW s, NEW t, NEW len \in Nat, NEW m \in Nat,
         Len(s) = len, Len(t) = len + m, Agree(s, t, len),
         NEW r, r.size = m, Stream(s, "data", r), len = 0 \/ s[len].is = "number",
         \A k \in 1 .. m : IsData(t[len + k], r.addr + k - 1)
  PROVE  Stream(t, "idle", r)
<1>1. \A i \in 1 .. len : t[i] = s[i]
  BY DEF Agree
<1>2. ASSUME NEW i \in 1 .. len + m, IsCode(t[i])
      PROVE  /\ i + 3 <= len + m
             /\ Whole(t, i)
             /\ t[i].is # "netR"
             /\ t[i].is = "netW" =>
                  /\ HasData(t, i)
                  /\ i + 3 + t[i + 2].v <= len + m
                  /\ i + 4 + t[i + 2].v <= len + m => IsCode(t[i + 4 + t[i + 2].v])
  <2>1. i \in 1 .. len
    <3> SUFFICES ASSUME i \notin 1 .. len PROVE FALSE
      OBVIOUS
    <3>1. PICK k \in 1 .. m : i = len + k
      OBVIOUS
    <3>2. IsData(t[i], r.addr + k - 1)
      BY <3>1
    <3> QED BY <1>2, <3>2 DEF IsCode, IsData
  <2>2. IsCode(s[i]) /\ t[i] = s[i]
    BY <1>1, <1>2, <2>1
  <2>3. /\ i + 3 <= len /\ Whole(s, i)
        /\ s[i].is # "netR"
        /\ s[i].is = "netW" =>
             /\ HasData(s, i)
             /\ i + 3 + s[i + 2].v <= len \/ (i + 3 = len /\ Asks(s, i, r))
             /\ i + 4 + s[i + 2].v <= len => IsCode(s[i + 4 + s[i + 2].v])
    BY <2>1, <2>2 DEF Stream
  <2>4. PICK size \in 1 .. MemLen : size = s[i + 2].v
    BY <2>3 DEF Whole
  <2>5. Whole(t, i) /\ t[i + 2] = s[i + 2] /\ t[i + 1] = s[i + 1]
    <3>1. i + 3 <= len /\ Whole(s, i)
      BY <2>3
    <3> QED BY <2>1, <3>1, SameCommand
  <2>6. i + 3 <= len + m
    BY <2>3
  <2>7. ASSUME s[i].is = "netW"
        PROVE  /\ HasData(t, i) /\ i + 3 + size <= len + m
               /\ i + 4 + size <= len + m => IsCode(t[i + 4 + size])
    <3>1. CASE i + 3 + size <= len
      <4>1. HasData(t, i)
        <5>1. HasData(s, i) /\ i + 3 + s[i + 2].v <= len /\ len <= Len(s) /\ Len(s) \in Nat
          BY <2>3, <2>4, <2>7, <3>1
        <5>2. i + 3 <= len /\ Whole(s, i)
          BY <2>3
        <5> QED BY <2>1, <5>1, <5>2, SameData
      <4>2. i + 3 + size <= len + m
        BY <3>1, UsbAssumption
      <4>3. i + 4 + size <= len
        <5> SUFFICES ASSUME i + 3 + size = len PROVE FALSE
          BY <3>1, UsbAssumption
        <5>1. size \in 1 .. size /\ i + 3 + size <= len
          BY UsbAssumption
        <5>2. IsData(s[len], s[i + 1].v + size - 1)
          BY <2>3, <2>4, <2>7, <5>1 DEF HasData
        <5> QED BY <2>1, <5>2 DEF IsData
      <4>4. i + 4 + size \in 1 .. len
        BY <4>3, UsbAssumption
      <4> QED BY <1>1, <2>3, <2>4, <2>7, <4>1, <4>2, <4>3, <4>4
    <3>2. CASE i + 3 = len /\ Asks(s, i, r)
      <4>1. size = m /\ s[i + 1].v = r.addr
        BY <2>4, <3>2 DEF Asks
      <4>2. \A k \in 1 .. size : IsData(t[i + 3 + k], t[i + 1].v + k - 1)
        BY <2>5, <3>2, <4>1
      <4>3. HasData(t, i)
        BY <2>4, <2>5, <4>2 DEF HasData
      <4>4. i + 3 + size <= len + m /\ ~(i + 4 + size <= len + m)
        BY <3>2, <4>1
      <4> QED BY <4>3, <4>4
    <3> QED BY <2>3, <2>4, <2>7, <3>1, <3>2
  <2> QED BY <2>2, <2>3, <2>4, <2>5, <2>6, <2>7
<1> QED BY <1>2 DEF Stream

(* Words put behind a sequence. *)
LEMMA Behind ==
  ASSUME NEW s \in Seq(Word), NEW d \in Seq(Word)
  PROVE  /\ s \o d \in Seq(Word) /\ Len(s \o d) = Len(s) + Len(d)
         /\ Agree(s, s \o d, Len(s))
         /\ \A i \in 1 .. Len(d) : (s \o d)[Len(s) + i] = d[i]
<1>1. PICK l \in Nat, m \in Nat : l = Len(s) /\ m = Len(d)
  OBVIOUS
<1>2. PICK t : t = s \o d
  OBVIOUS
<1>3. /\ t \in Seq(Word) /\ Len(t) = l + m
      /\ \A i \in 1 .. l + m : t[i] = IF i <= l THEN s[i] ELSE d[i - l]
  BY <1>1, <1>2, ConcatProperties
<1>4. \A i \in 1 .. l : t[i] = s[i]
  BY <1>3
<1>5. \A i \in 1 .. m : t[l + i] = d[i]
  <2>1. \A i \in 1 .. m : l + i \in 1 .. l + m /\ ~(l + i <= l) /\ l + i - l = i
    OBVIOUS
  <2> QED BY <1>3, <2>1
<1> QED BY <1>1, <1>2, <1>3, <1>4, <1>5 DEF Agree

(* The words of a command. *)
IsCommand(d, c, a, n) ==
  /\ d \in Seq(Word) /\ Len(d) = 4 /\ d[1].is = c
  /\ d[2].is = "number" /\ d[2].v = a /\ d[3].is = "number" /\ d[3].v = n
  /\ d[4].is = "number"

(* Command makes one. *)
LEMMA CommandWords ==
  ASSUME NEW c \in {"netR", "netW"}, NEW a \in Nat, NEW n \in Nat
  PROVE  IsCommand(Command(c, a, n), c, a, n)
<1>1. Code(c) \in Word /\ Number(a) \in Word /\ Number(n) \in Word /\ Number(0) \in Word
  BY DEF Code, Number, Word
<1> DEFINE d == Command(c, a, n)
<1>2. d \in Seq(Word) /\ Len(d) = 4
  BY <1>1 DEF Command
<1>3. d[1] = Code(c) /\ d[2] = Number(a) /\ d[3] = Number(n) /\ d[4] = Number(0)
  BY DEF Command
<1> QED BY <1>2, <1>3 DEF IsCommand, Code, Number

(* Some words arrive at their places: what they leave there was meant. *)
LEMMA ArrivesRest ==
  ASSUME NEW s, NEW t, NEW len \in Nat, NEW n \in 0 .. len, Len(s) = len, Len(t) = len - n,
         \A i \in 1 .. len - n : t[i] = s[i + n],
         NEW m, NEW now2, NEW w, Arrives(s, m, w),
         \A a \in Place :
           \/ now2[a] = m[a] /\ \A j \in 1 .. n : ~IsData(s[j], a)
           \/ \E j \in 1 .. n : /\ now2[a] = s[j] /\ IsData(s[j], a)
                                /\ \A k \in j + 1 .. n : ~IsData(s[k], a)
  PROVE  Arrives(t, now2, w)
<1> SUFFICES ASSUME NEW a \in Place
             PROVE  \/ \E j \in 1 .. len - n : LastFor(t, j, a) /\ w[a] = t[j]
                    \/ (\A j \in 1 .. len - n : ~IsData(t[j], a)) /\ w[a] = now2[a]
  BY DEF Arrives
<1>1. \/ now2[a] = m[a] /\ \A j \in 1 .. n : ~IsData(s[j], a)
      \/ \E j \in 1 .. n : /\ now2[a] = s[j] /\ IsData(s[j], a)
                           /\ \A k \in j + 1 .. n : ~IsData(s[k], a)
  OBVIOUS
<1>2. CASE \E j \in 1 .. len : LastFor(s, j, a) /\ w[a] = s[j]
  <2>1. PICK j \in 1 .. len : LastFor(s, j, a) /\ w[a] = s[j]
    BY <1>2
  <2>2. IsData(s[j], a) /\ \A k \in j + 1 .. len : ~IsData(s[k], a)
    BY <2>1 DEF LastFor
  <2>3. CASE j > n
    <3>1. PICK i \in 1 .. len - n : j = i + n
      BY <2>3
    <3>2. t[i] = s[j]
      BY <3>1
    <3>3. \A k \in i + 1 .. len - n : ~IsData(t[k], a)
      <4>1. \A k \in i + 1 .. len - n : k \in 1 .. len - n /\ k + n \in j + 1 .. len
        BY <3>1
      <4> QED BY <2>2, <4>1
    <3> QED BY <2>1, <2>2, <3>2, <3>3 DEF LastFor
  <2>4. CASE ~(j > n)
    <3>1. j \in 1 .. n
      BY <2>4
    <3>2. PICK i \in 1 .. n : /\ now2[a] = s[i] /\ IsData(s[i], a)
                              /\ \A k \in i + 1 .. n : ~IsData(s[k], a)
      BY <1>1, <2>2, <3>1
    <3>3. i = j
      <4>1. ~(i > j)
        BY <2>2, <3>2
      <4>2. ~(j > i)
        BY <2>2, <3>1, <3>2
      <4> QED BY <4>1, <4>2
    <3>4. \A k \in 1 .. len - n : ~IsData(t[k], a)
      <4>1. \A k \in 1 .. len - n : k + n \in j + 1 .. len
        BY <2>4
      <4> QED BY <2>2, <4>1
    <3> QED BY <2>1, <3>2, <3>3, <3>4
  <2> QED BY <2>3, <2>4
<1>3. CASE (\A j \in 1 .. len : ~IsData(s[j], a)) /\ w[a] = m[a]
  <2>1. now2[a] = m[a]
    BY <1>1, <1>3
  <2>2. \A k \in 1 .. len - n : ~IsData(t[k], a)
    <3>1. \A k \in 1 .. len - n : k + n \in 1 .. len
      OBVIOUS
    <3> QED BY <1>3, <3>1
  <2> QED BY <1>3, <2>1, <2>2
<1>4. \/ \E j \in 1 .. len : LastFor(s, j, a) /\ w[a] = s[j]
      \/ (\A j \in 1 .. len : ~IsData(s[j], a)) /\ w[a] = m[a]
  BY DEF Arrives
<1> QED BY <1>2, <1>3, <1>4

(* The n words behind the first len are no data. *)
Plain(t, len, n) == \A k \in 1 .. n : t[len + k].is # "data"

(* A command says nothing of what memory shall be. *)
LEMMA ArrivesCommand ==
  ASSUME NEW s, NEW t, NEW len \in Nat, NEW n \in Nat, Len(s) = len, Len(t) = len + n,
         Agree(s, t, len), Plain(t, len, n),
         NEW m, NEW w, Arrives(s, m, w)
  PROVE  Arrives(t, m, w)
<1>1. \A j \in 1 .. len : t[j] = s[j]
  BY DEF Agree
<1>2. \A a, j \in Int : j \in len + 1 .. len + n => ~IsData(t[j], a)
  <2>1. \A j \in len + 1 .. len + n : \E k \in 1 .. n : j = len + k
    <3>1. \A j \in len + 1 .. len + n : j - len \in 1 .. n /\ j = len + (j - len)
      OBVIOUS
    <3> QED BY <3>1
  <2> QED BY <2>1 DEF IsData, Plain
<1> SUFFICES ASSUME NEW a \in Place
             PROVE  \/ \E j \in 1 .. len + n : LastFor(t, j, a) /\ w[a] = t[j]
                    \/ (\A j \in 1 .. len + n : ~IsData(t[j], a)) /\ w[a] = m[a]
  BY DEF Arrives
<1>3. a \in Int
  BY UsbAssumption DEF Place
<1>4. CASE \E j \in 1 .. len : LastFor(s, j, a) /\ w[a] = s[j]
  <2>1. PICK j \in 1 .. len : LastFor(s, j, a) /\ w[a] = s[j]
    BY <1>4
  <2>2. \A k \in j + 1 .. len + n : ~IsData(t[k], a)
    <3> SUFFICES ASSUME NEW k \in j + 1 .. len + n PROVE ~IsData(t[k], a)
      OBVIOUS
    <3>1. CASE k <= len
      BY <1>1, <2>1, <3>1 DEF LastFor
    <3>2. CASE ~(k <= len)
      BY <1>2, <1>3, <3>2
    <3> QED BY <3>1, <3>2
  <2>3. j \in 1 .. len + n /\ t[j] = s[j] /\ IsData(t[j], a)
    BY <1>1, <2>1 DEF LastFor
  <2> QED BY <2>1, <2>2, <2>3 DEF LastFor
<1>5. CASE (\A j \in 1 .. len : ~IsData(s[j], a)) /\ w[a] = m[a]
  <2> SUFFICES ASSUME NEW j \in 1 .. len + n PROVE ~IsData(t[j], a)
    BY <1>5
  <2>1. CASE j <= len
    BY <1>1, <1>5, <2>1
  <2>2. CASE ~(j <= len)
    BY <1>2, <1>3, <2>2
  <2> QED BY <2>1, <2>2
<1>6. \/ \E j \in 1 .. len : LastFor(s, j, a) /\ w[a] = s[j]
      \/ (\A j \in 1 .. len : ~IsData(s[j], a)) /\ w[a] = m[a]
  BY DEF Arrives
<1> QED BY <1>4, <1>5, <1>6

(* The n words behind the first len are data for the places from b on, and *)
(* w2 is w with these at their places.                                     *)
Puts(t, len, n, b) == \A k \in 1 .. n : IsData(t[len + k], b + k - 1)
Placed(w2, w, t, len, n, b) ==
  \A a \in Place : w2[a] = IF a \in b .. b + n - 1 THEN t[len + (a - b + 1)] ELSE w[a]

(* What a request writes is what memory shall be from then on. *)
LEMMA ArrivesData ==
  ASSUME NEW s, NEW t, NEW len \in Nat, NEW n \in Nat, Len(s) = len, Len(t) = len + n,
         Agree(s, t, len),
         NEW b \in Nat, Puts(t, len, n, b),
         NEW m, NEW w, Arrives(s, m, w), NEW w2, Placed(w2, w, t, len, n, b)
  PROVE  Arrives(t, m, w2)
<1>1. \A j \in 1 .. len : t[j] = s[j]
  BY DEF Agree
<1> SUFFICES ASSUME NEW a \in Place
             PROVE  \/ \E j \in 1 .. len + n : LastFor(t, j, a) /\ w2[a] = t[j]
                    \/ (\A j \in 1 .. len + n : ~IsData(t[j], a)) /\ w2[a] = m[a]
  BY DEF Arrives
<1>2. a \in Int
  BY UsbAssumption DEF Place
<1>3. \A j \in len + 1 .. len + n : IsData(t[j], b + (j - len) - 1)
  <2>1. \A j \in len + 1 .. len + n : j - len \in 1 .. n /\ j = len + (j - len)
    OBVIOUS
  <2> QED BY <2>1 DEF Puts
<1>4. \A j \in len + 1 .. len + n : IsData(t[j], a) => a = b + (j - len) - 1
  BY <1>3 DEF IsData
<1>5. CASE a \in b .. b + n - 1
  <2>1. PICK j \in len + 1 .. len + n : a = b + (j - len) - 1 /\ j = len + (a - b + 1)
    <3>1. PICK j \in Int : j = len + (a - b + 1)
      BY <1>2
    <3>2. j \in len + 1 .. len + n /\ a = b + (j - len) - 1
      BY <1>2, <1>5, <3>1
    <3> QED BY <3>1, <3>2
  <2>2. w2[a] = t[j] /\ IsData(t[j], a) /\ j \in 1 .. len + n
    BY <1>3, <1>5, <2>1 DEF Placed
  <2>3. \A k \in j + 1 .. len + n : ~IsData(t[k], a)
    <3>1. \A k \in j + 1 .. len + n : k \in len + 1 .. len + n /\ a # b + (k - len) - 1
      BY <2>1
    <3> QED BY <1>4, <3>1
  <2> QED BY <2>2, <2>3 DEF LastFor
<1>6. CASE a \notin b .. b + n - 1
  <2>1. w2[a] = w[a]
    BY <1>6 DEF Placed
  <2>2. \A j \in len + 1 .. len + n : ~IsData(t[j], a)
    <3>1. \A j \in len + 1 .. len + n : a # b + (j - len) - 1
      BY <1>2, <1>6
    <3> QED BY <1>4, <3>1
  <2>3. CASE \E j \in 1 .. len : LastFor(s, j, a) /\ w[a] = s[j]
    <3>1. PICK j \in 1 .. len : LastFor(s, j, a) /\ w[a] = s[j]
      BY <2>3
    <3>2. \A k \in j + 1 .. len + n : ~IsData(t[k], a)
      <4> SUFFICES ASSUME NEW k \in j + 1 .. len + n PROVE ~IsData(t[k], a)
        OBVIOUS
      <4>1. CASE k <= len
        BY <1>1, <3>1, <4>1 DEF LastFor
      <4>2. CASE ~(k <= len)
        BY <2>2, <4>2
      <4> QED BY <4>1, <4>2
    <3>3. j \in 1 .. len + n /\ t[j] = s[j] /\ IsData(t[j], a)
      BY <1>1, <3>1 DEF LastFor
    <3> QED BY <2>1, <3>1, <3>2, <3>3 DEF LastFor
  <2>4. CASE (\A j \in 1 .. len : ~IsData(s[j], a)) /\ w[a] = m[a]
    <3> SUFFICES ASSUME NEW j \in 1 .. len + n PROVE ~IsData(t[j], a)
      BY <2>1, <2>4
    <3>1. CASE j <= len
      BY <1>1, <2>4, <3>1
    <3>2. CASE ~(j <= len)
      BY <2>2, <3>2
    <3> QED BY <3>1, <3>2
  <2>5. \/ \E j \in 1 .. len : LastFor(s, j, a) /\ w[a] = s[j]
        \/ (\A j \in 1 .. len : ~IsData(s[j], a)) /\ w[a] = m[a]
    BY DEF Arrives
  <2> QED BY <2>3, <2>4, <2>5
<1> QED BY <1>5, <1>6

(* Words arrive. *)
LEMMA ArriveStep == ASSUME UsbInv, Arrive PROVE UsbInv'
<1>1. UsbType'
  BY DEF UsbInv, UsbType, Arrive, hostVars, consoleVars
<1>2. WriteInv'
  BY DEF UsbInv, WriteInv, Writing, Arrive, hostVars, consoleVars
<1>3. ReadInv'
  BY DEF UsbInv, ReadInv, Reading, Arrive, hostVars, consoleVars
<1>4. MeantInv'
  BY DEF UsbInv, MeantInv, Writing, Arrive, hostVars, consoleVars
<1> QED BY <1>1, <1>2, <1>3, <1>4 DEF UsbInv

(* The console goes from one thing to the next. *)
LEMMA ConsoleTurns ==
  ASSUME UsbInv, ~Writing, usb' \in {"idle", "cmd"},
         UNCHANGED <<hostVars, mem, usb_cmd, late, up, came, down>>
  PROVE  UsbInv'
<1>1. UsbType'
  BY DEF UsbInv, UsbType, hostVars
<1>2. ~Writing' /\ ~Reading'
  BY DEF Writing, Reading
<1>3. WriteInv'
  BY <1>2 DEF UsbInv, WriteInv, hostVars
<1>4. ReadInv'
  BY <1>2 DEF UsbInv, ReadInv, hostVars
<1>5. MeantInv'
  BY <1>2 DEF UsbInv, MeantInv, hostVars
<1> QED BY <1>1, <1>3, <1>4, <1>5 DEF UsbInv

(* The console gives up on something; some words are gone. *)
LEMMA GivesUp ==
  ASSUME UsbInv, NEW n \in 0 .. came, Take(n), late' = TRUE, UNCHANGED <<mem, usb_cmd>>,
         usb' \in {"idle", "cmd"}
  PROVE  UsbInv'
<1> USE DEF UsbInv
<1>1. PICK len \in Nat : /\ len = Len(up) /\ n \in 0 .. len /\ came \in 0 .. len
                         /\ (up = <<>> => len = 0) /\ (len = 0 => up = <<>>)
  BY DEF UsbType
<1>2. /\ up' \in Seq(Word) /\ Len(up') = len - n
      /\ \A i \in 1 .. len - n : up'[i] = up[i + n]
  BY <1>1, Rest DEF UsbType, Take
<1>3. UNCHANGED <<mem, meant, down, got, host, req, asked>> /\ came' = came - n
  BY DEF Take, hostVars
<1>4. ~Writing' /\ ~Reading'
  BY DEF Writing, Reading
<1>5. UsbType'
  <2>1. came' \in 0 .. len - n
    BY <1>1, <1>3
  <2> QED BY <1>2, <1>3, <2>1 DEF UsbType
<1>6. up = <<>> => up' = <<>>
  BY <1>1, <1>2
<1>7. WriteInv'
  <2>1. Stream(up', host, req)
    BY <1>1, StreamRest DEF WriteInv, UsbType, Take
  <2>2. host = "data" => up' = <<>> \/ up'[Len(up')].is = "number"
    <3> SUFFICES ASSUME host = "data", up' # <<>> PROVE up'[Len(up')].is = "number"
      OBVIOUS
    <3>1. len - n # 0 /\ len - n \in Nat
      BY <1>1, <1>2
    <3>2. len - n \in 1 .. len - n /\ (len - n) + n = len
      BY <1>1, <3>1
    <3>3. up'[len - n] = up[len]
      BY <1>2, <3>2
    <3>4. up[len].is = "number"
      BY <1>1, <1>6 DEF WriteInv
    <3> QED BY <1>2, <3>3, <3>4
  <2> QED BY <1>3, <1>4, <2>1, <2>2 DEF WriteInv
<1>8. ReadInv'
  BY <1>3, <1>4, <1>6 DEF ReadInv
<1> QED BY <1>5, <1>7, <1>8 DEF MeantInv

(* A client ends. *)
LEMMA EndsStep ==
  ASSUME UsbInv, NEW n \in 0 .. Len(up), Ends(n)
  PROVE  UsbInv'
<1> USE DEF UsbInv
<1>1. up' \in Seq(Word) /\ Len(up') = n /\ \A i \in 1 .. n : up'[i] = up[i]
  BY FirstWords DEF Ends, UsbType
<1>2. UNCHANGED <<mem, meant, down, req, asked, came, usb, usb_cmd, late>>
  BY DEF Ends, consoleVars
<1>3. host' = "off" /\ got' = <<>>
  BY DEF Ends
<1>4. UsbType'
  <2>1. came \in 0 .. n
    BY DEF Ends, UsbType
  <2> QED BY <1>1, <1>2, <1>3, <2>1 DEF UsbType
<1>5. WriteInv'
  <2>1. Stream(up', host', req)
    <3>1. Stream(up, host, req) /\ up \in Seq(Word) /\ up' = SubSeq(up, 1, n)
      BY DEF WriteInv, UsbType, Ends
    <3>2. Stream(up', "off", req)
      BY <3>1, StreamCut
    <3> QED BY <1>3, <3>2
  <2>2. \A k \in Nat : k >= 1 /\ k <= Len(up') => k <= Len(up) /\ up'[k] = up[k]
    BY <1>1 DEF UsbType
  <2>3. usb = "in" => \A k \in 1 .. usb_cmd.left :
          k <= Len(up') => IsData(up'[k], usb_cmd.addr + k - 1)
    BY <2>2 DEF WriteInv
  <2> QED BY <1>2, <1>3, <2>1, <2>3 DEF WriteInv, Writing
<1>6. ReadInv'
  BY <1>2, <1>3 DEF ReadInv
<1>7. MeantInv'
  BY <1>3 DEF MeantInv
<1> QED BY <1>4, <1>5, <1>6, <1>7

(* A client begins. *)
LEMMA OpenStep == ASSUME UsbInv, Open PROVE UsbInv'
<1> USE DEF UsbInv
<1>1. /\ up' = <<>> /\ down' = <<>> /\ got' = <<>> /\ came' = 0 /\ host' = "idle"
      /\ late' = FALSE /\ meant' = mem /\ usb = "idle"
      /\ UNCHANGED <<req, asked, mem, usb, usb_cmd>>
  BY DEF Open
<1>2. Len(up') = 0 /\ Len(down') = 0 /\ Len(got') = 0
  BY <1>1
<1>3. UsbType'
  <2>1. up' \in Seq(Word) /\ down' \in Seq(Word) /\ got' \in Seq(Word)
    BY <1>1
  <2>2. Len(down') <= Fifo /\ came' \in 0 .. Len(up')
    BY <1>1, <1>2, UsbAssumption
  <2> QED BY <1>1, <2>1, <2>2 DEF UsbType
<1>4. ~Writing' /\ ~Reading'
  BY <1>1 DEF Writing, Reading
<1>5. WriteInv'
  <2>1. Stream(up', host', req')
    BY <1>2 DEF Stream
  <2> QED BY <1>1, <1>4, <2>1 DEF WriteInv
<1>6. ReadInv'
  BY <1>1, <1>2, <1>4 DEF ReadInv
<1>7. MeantInv'
  <2>1. Arrives(up', mem', meant')
    BY <1>1, <1>2 DEF Arrives
  <2> QED BY <1>1, <1>4, <2>1 DEF MeantInv
<1> QED BY <1>3, <1>5, <1>6, <1>7

(* The console reads a command.  What it takes for one is one, or it is    *)
(* data, which no command is mistaken for.                                 *)
LEMMA RdCmdStep == ASSUME UsbInv, RdCmd PROVE UsbInv'
<1> USE DEF UsbInv
<1>1. PICK len \in Nat : len = Len(up) /\ came \in 0 .. len /\ 4 <= came
  <2>1. 4 <= came
    BY DEF RdCmd, Take
  <2>2. came \in 0 .. Len(up) /\ Len(up) \in Nat
    BY DEF UsbType
  <2> QED BY <2>1, <2>2
<1>2. /\ up' \in Seq(Word) /\ Len(up') = len - 4
      /\ \A i \in 1 .. len - 4 : up'[i] = up[i + 4]
  <2>1. up \in Seq(Word) /\ 4 \in 0 .. Len(up)
    BY <1>1 DEF UsbType
  <2>2. up' = SubSeq(up, 4 + 1, Len(up))
    BY DEF RdCmd, Take
  <2> QED BY <1>1, <2>1, <2>2, Rest
<1>3. /\ UNCHANGED <<mem, meant, down, got, host, req, asked, late>> /\ came' = came - 4
      /\ usb = "cmd" /\ up # <<>>
      /\ usb_cmd' = [code |-> up[1].is, addr |-> up[2].v, left |-> up[3].v]
  BY <1>1 DEF RdCmd, Take, hostVars, UsbType
<1>4. /\ 1 \in 1 .. len /\ up[1] \in Word /\ up[2] \in Word /\ up[3] \in Word /\ up[4] \in Word
      /\ up[len] \in Word
  BY <1>1 DEF UsbType
<1>5. /\ up[1].is = "netR" => usb' = "out"
      /\ up[1].is = "netW" => usb' = "in"
      /\ ~IsCode(up[1]) => usb' \in {"cmd", "idle"}
  BY DEF RdCmd, Loop, IsCode
<1>6. up[1].is \in {"netR", "netW", "number", "data"}
  BY <1>4 DEF Word
<1>7. UsbType'
  <2>1. came' \in 0 .. len - 4
    BY <1>1, <1>3
  <2>2. up[2].v \in Int /\ up[3].v \in Int
    BY <1>4 DEF Word
  <2>3. usb_cmd' \in [code : {"none", "netR", "netW", "number", "data"}, addr : Int, left : Int]
    BY <1>3, <1>6, <2>2
  <2>4. usb' \in {"idle", "cmd", "in", "out"}
    BY <1>5, <1>6 DEF IsCode
  <2> QED BY <1>2, <1>3, <2>1, <2>3, <2>4 DEF UsbType
<1>8. usb_cmd'.addr = up[2].v /\ usb_cmd'.left = up[3].v
  BY <1>3
<1>9. Stream(up', host', req') /\ Stream(up, host, req)
  <2>1. Stream(up, host, req) /\ up \in Seq(Word) /\ up' = SubSeq(up, 4 + 1, Len(up))
    BY DEF WriteInv, UsbType, RdCmd, Take
  <2>2. Stream(up', host, req)
    <3>1. 4 \in 0 .. Len(up)
      BY <1>1
    <3> QED BY <2>1, <3>1, StreamRest
  <2> QED BY <1>3, <2>1, <2>2
<1>10. host' = "data" => up' = <<>> \/ up'[Len(up')].is = "number"
  <2> SUFFICES ASSUME host = "data", up' # <<>> PROVE up'[len - 4].is = "number"
    BY <1>2, <1>3
  <2>1. len - 4 \in 1 .. len - 4 /\ len - 4 + 4 = len
    BY <1>1, <1>2
  <2>2. up[len].is = "number"
    BY <1>1, <1>3 DEF WriteInv
  <2> QED BY <1>2, <2>1, <2>2
<1>11. host \in {"data", "recv"} => req.size \in 1 .. MemLen /\ req.addr + req.size <= MemLen
  BY DEF WriteInv
<1>12. host # "off" => got = <<>> /\ down = <<>>
  BY <1>3 DEF ReadInv
<1>13. Len(<<>>) = 0
  OBVIOUS
<1>14. IsCode(up[1]) =>
         /\ Whole(up, 1)
         /\ up[1].is = "netR" => host = "off" \/ (host = "recv" /\ 4 = len /\ Asks(up, 1, req))
         /\ up[1].is = "netW" =>
              /\ HasData(up, 1)
              /\ \/ host = "off" \/ 4 + up[3].v <= len
                 \/ host = "data" /\ 4 = len /\ Asks(up, 1, req)
              /\ 5 + up[3].v <= len => IsCode(up[5 + up[3].v])
  BY <1>1, <1>4, <1>9 DEF Stream
<1>15. Whole(up, 1) =>
         up[2].v \in Nat /\ up[3].v \in 1 .. MemLen /\ up[2].v + up[3].v <= MemLen
  BY DEF Whole
<1>16. ~late /\ host # "off" => IsCode(up[1]) /\ Arrives(up, mem, meant)
  BY <1>3 DEF MeantInv, Writing
<1>17. IsCode(up[1]) /\ Arrives(up, mem, meant) => Arrives(up', mem, meant)
  <2> SUFFICES ASSUME IsCode(up[1]), Arrives(up, mem, meant) PROVE Arrives(up', mem, meant)
    OBVIOUS
  <2>1. \A j \in 1 .. 4 : up[j].is # "data"
    <3>1. up[1].is # "data"
      BY DEF IsCode
    <3>2. \A k \in 1 .. 3 : up[1 + k].is = "number"
      BY <1>14 DEF Whole
    <3>3. \A j \in 1 .. 4 : j = 1 \/ (j - 1 \in 1 .. 3 /\ 1 + (j - 1) = j)
      OBVIOUS
    <3> QED BY <3>1, <3>2, <3>3
  <2>2. \A a \in Place : mem[a] = mem[a] /\ \A j \in 1 .. 4 : ~IsData(up[j], a)
    BY <2>1 DEF IsData
  <2>3. 4 \in 0 .. len
    BY <1>1
  <2> QED BY <1>1, <1>2, <2>2, <2>3, ArrivesRest
<1>18. CASE up[1].is = "netR"
  <2>1. IsCode(up[1]) /\ usb' = "out"
    BY <1>5, <1>18 DEF IsCode
  <2>2. PICK a \in Nat, n \in 1 .. MemLen : a = up[2].v /\ n = up[3].v /\ a + n <= MemLen
    BY <1>14, <1>15, <2>1
  <2>3. usb_cmd'.addr = a /\ usb_cmd'.left = n
    BY <1>8, <2>2
  <2>4. ~Writing'
    BY <2>1 DEF Writing
  <2>5. n \in Nat /\ \A k \in 1 .. n : a + k - 1 \in Place
    BY <2>2, UsbAssumption DEF Place
  <2>6. WriteInv'
    BY <1>3, <1>9, <1>10, <1>11, <2>1, <2>3, <2>4, <2>5 DEF WriteInv
  <2>7. host # "off" => host = "recv" /\ len = 4 /\ a = req.addr /\ n = req.size
    BY <1>14, <1>18, <2>1, <2>2 DEF Asks
  <2>8. host # "off" => up' = <<>>
    BY <1>2, <2>7
  <2>9. ReadInv'
    <3>1. host # "off" => a = req.addr + 0 + 0 /\ n = req.size - 0 - 0
      BY <2>2, <2>7, UsbAssumption
    <3>2. ASSUME host' # "off"
          PROVE  /\ got' # <<>> \/ down' # <<>> => up' = <<>> /\ usb' # "in"
                 /\ Reading' => /\ host' = "recv" /\ up' = <<>>
                                /\ usb_cmd'.addr = req'.addr + Len(got') + Len(down')
                                /\ usb_cmd'.left = req'.size - Len(got') - Len(down')
                 /\ \A i \in 1 .. Len(got') : got'[i] = mem'[req'.addr + i - 1]
                 /\ \A i \in 1 .. Len(down') : down'[i] = mem'[req'.addr + Len(got') + i - 1]
      BY <1>3, <1>12, <1>13, <2>1, <2>3, <2>7, <2>8, <3>1, <3>2
    <3>3. /\ host' = "off" => got' = <<>>
          /\ host' \in {"idle", "data"} => down' = <<>>
          /\ host' = "data" => got' = <<>>
          /\ host' = "recv" => Len(got') < req'.size /\ Len(got') + Len(down') <= req'.size
      BY <1>3 DEF ReadInv
    <3> QED BY <3>2, <3>3 DEF ReadInv
  <2>10. MeantInv'
    BY <1>3, <1>16, <1>17, <2>4, <2>7, <2>8 DEF MeantInv
  <2> QED BY <1>7, <2>6, <2>9, <2>10
<1>19. CASE up[1].is = "netW"
  <2>1. IsCode(up[1]) /\ usb' = "in"
    BY <1>5, <1>19 DEF IsCode
  <2>2. PICK a \in Nat, n \in 1 .. MemLen : a = up[2].v /\ n = up[3].v /\ a + n <= MemLen
    BY <1>14, <1>15, <2>1
  <2>3. usb_cmd'.addr = a /\ usb_cmd'.left = n
    BY <1>8, <2>2
  <2>4. n \in Nat /\ n > 0
    BY UsbAssumption
  <2>5. Writing' /\ ~Reading'
    BY <2>1, <2>3, <2>4 DEF Writing, Reading
  <2>6. /\ HasData(up, 1)
        /\ \/ host = "off" \/ 4 + n <= len
           \/ host = "data" /\ 4 = len /\ Asks(up, 1, req)
        /\ 5 + n <= len => IsCode(up[5 + n])
    BY <1>14, <1>19, <2>1, <2>2
  <2>7. \A k \in 1 .. n : a + k - 1 \in Place
    BY <2>2, UsbAssumption DEF Place
  <2>8. \A k \in 1 .. n : k <= len - 4 => IsData(up'[k], a + k - 1)
    <3> SUFFICES ASSUME NEW k \in 1 .. n, k <= len - 4 PROVE IsData(up'[k], a + k - 1)
      OBVIOUS
    <3>1. k \in 1 .. len - 4 /\ k + 4 = 1 + 3 + k /\ 1 + 3 + k <= len
      BY <1>1, <2>4
    <3>2. up'[k] = up[1 + 3 + k]
      BY <1>2, <3>1
    <3>3. IsData(up[1 + 3 + k], up[1 + 1].v + k - 1)
      <4>1. 1 + 2 = 3
        OBVIOUS
      <4> QED BY <1>1, <2>2, <2>6, <3>1, <4>1 DEF HasData
    <3> QED BY <2>2, <3>2, <3>3
  <2>9. \/ host' = "off" \/ n <= len - 4
        \/ host' = "data" /\ up' = <<>> /\ req'.addr = a /\ req'.size = n
    <3>1. 4 = len => up' = <<>>
      BY <1>2
    <3>2. 4 + n <= len => n <= len - 4
      BY <1>1, <2>4
    <3>3. Asks(up, 1, req) => req.addr = a /\ req.size = n
      BY <2>2 DEF Asks
    <3> QED BY <1>3, <2>6, <3>1, <3>2, <3>3
  <2>10. WriteInv'
    BY <1>2, <1>3, <1>9, <1>10, <1>11, <2>1, <2>3, <2>4, <2>7, <2>8, <2>9 DEF WriteInv
  <2>11. ReadInv'
    <3>1. /\ host' = "off" => got' = <<>>
          /\ host' \in {"idle", "data"} => down' = <<>>
          /\ host' = "data" => got' = <<>>
          /\ host' = "recv" => Len(got') < req'.size /\ Len(got') + Len(down') <= req'.size
      BY <1>3 DEF ReadInv
    <3> QED BY <1>3, <1>12, <1>13, <2>5, <3>1 DEF ReadInv
  <2>12. n < len - 4 => IsCode(up'[n + 1])
    <3> SUFFICES ASSUME n < len - 4 PROVE IsCode(up'[n + 1])
      OBVIOUS
    <3>1. n + 1 \in 1 .. len - 4 /\ n + 1 + 4 = 5 + n /\ 5 + n <= len
      BY <1>1, <2>4
    <3> QED BY <1>2, <2>6, <3>1
  <2>13. MeantInv'
    BY <1>2, <1>3, <1>16, <1>17, <2>3, <2>5, <2>12 DEF MeantInv
  <2> QED BY <1>7, <2>10, <2>11, <2>13
<1>20. CASE ~IsCode(up[1])
  <2>1. ~Writing' /\ ~Reading' /\ usb' \notin {"in", "out"}
    BY <1>5, <1>20 DEF Writing, Reading
  <2>2. WriteInv'
    BY <1>3, <1>9, <1>10, <1>11, <2>1 DEF WriteInv
  <2>3. ReadInv'
    <3>1. /\ host' = "off" => got' = <<>>
          /\ host' \in {"idle", "data"} => down' = <<>>
          /\ host' = "data" => got' = <<>>
          /\ host' = "recv" => Len(got') < req'.size /\ Len(got') + Len(down') <= req'.size
      BY <1>3 DEF ReadInv
    <3> QED BY <1>3, <1>12, <1>13, <2>1, <3>1 DEF ReadInv
  <2>4. MeantInv'
    BY <1>3, <1>16, <1>20 DEF MeantInv
  <2> QED BY <1>7, <2>2, <2>3, <2>4
<1> QED BY <1>6, <1>18, <1>19, <1>20 DEF IsCode

(* The console puts a chunk of data into memory. *)
LEMMA RdDramStep == ASSUME UsbInv, RdDram PROVE UsbInv'
<1> USE DEF UsbInv
<1>1. PICK left \in Nat, addr \in Int :
        left = usb_cmd.left /\ addr = usb_cmd.addr /\ left > 0 /\ usb = "in"
  BY DEF UsbType, WriteInv, RdDram
<1>2. PICK n \in 1 .. left : n = Part
  BY <1>1, UsbAssumption DEF Part, Least
<1>3. PICK len \in Nat : len = Len(up) /\ n \in 0 .. len /\ came \in 0 .. len /\ n <= came
  <2>1. n <= came
    BY <1>2 DEF RdDram, Take
  <2>2. came \in 0 .. Len(up) /\ Len(up) \in Nat
    BY DEF UsbType
  <2> QED BY <2>1, <2>2
<1>4. up \in Seq(Word) /\ n \in 0 .. Len(up) /\ up' = SubSeq(up, n + 1, Len(up))
  BY <1>2, <1>3 DEF UsbType, RdDram, Take
<1>5. /\ up' \in Seq(Word) /\ Len(up') = len - n
      /\ \A i \in 1 .. len - n : up'[i] = up[i + n]
  BY <1>3, <1>4, Rest
<1>6. /\ UNCHANGED <<meant, down, got, host, req, asked, usb, late>> /\ came' = came - n
      /\ up # <<>>
  BY <1>2, <1>3 DEF RdDram, Take, hostVars, UsbType
<1>7. usb_cmd'.addr = addr + n /\ usb_cmd'.left = left - n
  BY <1>1, <1>2 DEF RdDram, Moved, UsbType
<1>8. mem' = [a \in Place |-> IF a \in addr .. addr + n - 1 THEN up[a - addr + 1] ELSE mem[a]]
  BY <1>1, <1>2 DEF RdDram
<1>9. /\ \A k \in 1 .. left : addr + k - 1 \in Place
      /\ \A k \in 1 .. left : k <= len => IsData(up[k], addr + k - 1)
  BY <1>1, <1>3 DEF WriteInv
<1>10. \A k \in 1 .. n : k \in 1 .. len /\ IsData(up[k], addr + k - 1) /\ up[k] \in Word
  <2>1. \A k \in 1 .. n : k \in 1 .. left /\ k <= len /\ k \in 1 .. len
    BY <1>3
  <2> QED BY <1>3, <1>9, <2>1 DEF UsbType
<1>11. \A a \in Place : a \in addr .. addr + n - 1 =>
         /\ a - addr + 1 \in 1 .. n /\ mem'[a] = up[a - addr + 1]
         /\ IsData(up[a - addr + 1], a) /\ up[a - addr + 1] \in Word
  <2> SUFFICES ASSUME NEW a \in Place, a \in addr .. addr + n - 1
               PROVE  /\ a - addr + 1 \in 1 .. n /\ mem'[a] = up[a - addr + 1]
                      /\ IsData(up[a - addr + 1], a) /\ up[a - addr + 1] \in Word
    OBVIOUS
  <2>1. PICK k \in 1 .. n : k = a - addr + 1 /\ addr + k - 1 = a
    OBVIOUS
  <2>2. mem'[a] = up[a - addr + 1]
    BY <1>8
  <2> QED BY <1>10, <2>1, <2>2
<1>12. \A a \in Place : a \notin addr .. addr + n - 1 => mem'[a] = mem[a]
  BY <1>8
<1>13. UsbType'
  <2>1. mem' \in [Place -> Word]
    <3>1. \A a \in Place : mem'[a] \in Word
      BY <1>11, <1>12 DEF UsbType
    <3>2. mem' = [a \in Place |-> mem'[a]]
      BY <1>8
    <3> QED BY <3>1, <3>2
  <2>2. usb_cmd' \in [code : {"none", "netR", "netW", "number", "data"}, addr : Int, left : Int]
    <3>1. usb_cmd' = [usb_cmd EXCEPT !.addr = addr + n, !.left = left - n]
      BY <1>1, <1>2 DEF RdDram, Moved, UsbType
    <3>2. addr + n \in Int /\ left - n \in Int
      BY <1>1, <1>2
    <3> QED BY <3>1, <3>2 DEF UsbType
  <2>3. came' \in 0 .. len - n
    BY <1>3, <1>6
  <2> QED BY <1>5, <1>6, <2>1, <2>2, <2>3 DEF UsbType
<1>14. /\ \A a \in Place : IsData(mem'[a], a)
       /\ Stream(up', host', req')
  <2>1. \A a \in Place : IsData(mem'[a], a)
    BY <1>11, <1>12 DEF WriteInv
  <2>2. Stream(up, host, req)
    BY DEF WriteInv
  <2>3. Stream(up', host, req)
    BY <1>4, <2>2, StreamRest
  <2> QED BY <1>6, <2>1, <2>3
<1>15. /\ left - n \in Nat
       /\ \A k \in 1 .. left - n : /\ addr + n + k - 1 \in Place
                                   /\ k <= len - n => IsData(up'[k], addr + n + k - 1)
  <2>1. left - n \in Nat
    BY <1>2
  <2> SUFFICES ASSUME NEW k \in 1 .. left - n
               PROVE  /\ addr + n + k - 1 \in Place
                      /\ k <= len - n => IsData(up'[k], addr + n + k - 1)
    BY <2>1
  <2>2. k + n \in 1 .. left /\ addr + (k + n) - 1 = addr + n + k - 1
    BY <1>2
  <2>3. k <= len - n => k \in 1 .. len - n /\ k + n <= len
    BY <1>3
  <2> QED BY <1>5, <1>9, <2>2, <2>3
<1>16. Writing /\ (Writing' <=> left - n > 0) /\ ~Reading'
  BY <1>1, <1>6, <1>7 DEF Writing, Reading
<1>17. host = "off" \/ left <= len
  BY <1>1, <1>3, <1>6, <1>16 DEF WriteInv
<1>18. host = "off" \/ left - n <= len - n
  BY <1>3, <1>17
<1>19. host = "data" => up' # <<>> /\ up'[len - n].is = "number"
  <2> SUFFICES ASSUME host = "data" PROVE up' # <<>> /\ up'[len - n].is = "number"
    OBVIOUS
  <2>1. up[len].is = "number"
    BY <1>3, <1>6 DEF WriteInv
  <2>2. len # n
    <3>1. len = n => IsData(up[len], addr + n - 1)
      BY <1>2, <1>10
    <3> QED BY <2>1, <3>1 DEF IsData
  <2>3. len - n \in 1 .. len - n /\ len - n + n = len
    BY <1>3, <2>2
  <2>4. Len(up') # 0
    BY <1>5, <2>3
  <2> QED BY <1>5, <2>1, <2>3, <2>4
<1>20. WriteInv'
  <2>1. host' \in {"data", "recv"} =>
          req'.size \in 1 .. MemLen /\ req'.addr + req'.size <= MemLen
    BY <1>6 DEF WriteInv
  <2> QED BY <1>1, <1>5, <1>6, <1>7, <1>14, <1>15, <1>16, <1>18, <1>19, <2>1 DEF WriteInv
<1>21. ReadInv'
  <2>1. host # "off" => got = <<>> /\ down = <<>>
    BY <1>6 DEF ReadInv
  <2>2. /\ host' = "off" => got' = <<>>
        /\ host' \in {"idle", "data"} => down' = <<>>
        /\ host' = "data" => got' = <<>>
        /\ host' = "recv" => Len(got') < req'.size /\ Len(got') + Len(down') <= req'.size
    BY <1>6 DEF ReadInv
  <2>3. Len(<<>>) = 0
    OBVIOUS
  <2> QED BY <1>6, <1>16, <2>1, <2>2, <2>3 DEF ReadInv
<1>22. MeantInv'
  <2> SUFFICES ASSUME ~late, host # "off"
               PROVE  /\ ~Writing' /\ up' # <<>> => IsCode(up'[1])
                      /\ Writing' /\ left - n < len - n => IsCode(up'[left - n + 1])
                      /\ host = "data" /\ up' = <<>> => Writing'
                      /\ Arrives(up', mem', meant)
    BY <1>5, <1>6, <1>7 DEF MeantInv
  <2>1. left < len => IsCode(up[left + 1])
    BY <1>1, <1>3, <1>16 DEF MeantInv
  <2>2. ASSUME left - n < len - n
        PROVE  IsCode(up'[left - n + 1])
    <3>1. left - n + 1 \in 1 .. len - n /\ left - n + 1 + n = left + 1 /\ left < len
      BY <1>2, <1>3, <2>2
    <3> QED BY <1>5, <2>1, <3>1
  <2>3. ASSUME ~Writing', up' # <<>>
        PROVE  IsCode(up'[1])
    <3>1. left - n = 0 /\ len - n # 0
      BY <1>5, <1>15, <1>16, <2>3
    <3>2. left - n < len - n /\ left - n + 1 = 1
      BY <1>3, <3>1
    <3> QED BY <2>2, <3>2
  <2>4. Arrives(up', mem', meant)
    <3>1. Arrives(up, mem, meant)
      BY DEF MeantInv
    <3>2. \A a \in Place :
            \/ mem'[a] = mem[a] /\ \A j \in 1 .. n : ~IsData(up[j], a)
            \/ \E j \in 1 .. n : /\ mem'[a] = up[j] /\ IsData(up[j], a)
                                 /\ \A k \in j + 1 .. n : ~IsData(up[k], a)
      <4> SUFFICES ASSUME NEW a \in Place
                   PROVE  \/ mem'[a] = mem[a] /\ \A j \in 1 .. n : ~IsData(up[j], a)
                          \/ \E j \in 1 .. n : /\ mem'[a] = up[j] /\ IsData(up[j], a)
                                               /\ \A k \in j + 1 .. n : ~IsData(up[k], a)
        OBVIOUS
      <4>1. a \in Int
        BY UsbAssumption DEF Place
      <4>2. \A j \in 1 .. n : IsData(up[j], a) => a = addr + j - 1
        BY <1>10 DEF IsData
      <4>3. CASE a \in addr .. addr + n - 1
        <5>1. PICK j \in 1 .. n : j = a - addr + 1 /\ mem'[a] = up[j] /\ IsData(up[j], a)
          BY <1>11, <4>3
        <5>2. \A k \in j + 1 .. n : k \in 1 .. n /\ a # addr + k - 1
          BY <4>1, <5>1
        <5> QED BY <4>2, <5>1, <5>2
      <4>4. CASE a \notin addr .. addr + n - 1
        <5>1. \A j \in 1 .. n : a # addr + j - 1
          BY <4>1, <4>4
        <5> QED BY <1>12, <4>2, <4>4, <5>1
      <4> QED BY <4>3, <4>4
    <3> QED BY <1>3, <1>5, <3>1, <3>2, ArrivesRest
  <2> QED BY <1>19, <2>2, <2>3, <2>4
<1> QED BY <1>13, <1>20, <1>21, <1>22

(* Words of memory leave for the host, all of the chunk or what fits. *)
LEMMA WrDramStep ==
  ASSUME UsbInv, usb = "out", usb_cmd.left > 0, NEW n \in 0 .. Part, Len(down) + n <= Fifo,
         down' = down \o [i \in 1 .. n |-> mem[usb_cmd.addr + i - 1]],
         \/ usb_cmd' = Moved /\ n = Part /\ usb' = usb /\ late' = late
         \/ usb_cmd' = usb_cmd /\ n < Part /\ usb' \in {"idle", "cmd"} /\ late' = TRUE,
         UNCHANGED <<hostVars, up, came, mem>>
  PROVE  UsbInv'
<1> USE DEF UsbInv
<1>1. PICK left \in Nat, addr \in Int : left = usb_cmd.left /\ addr = usb_cmd.addr /\ left > 0
  BY DEF UsbType, WriteInv
<1>2. PICK part \in 1 .. left : part = Part /\ n \in 0 .. part
  BY <1>1, UsbAssumption DEF Part, Least
<1>3. PICK d : d = [i \in 1 .. n |-> mem[addr + i - 1]] /\ down' = down \o d
  BY <1>1
<1>4. PICK dl \in Nat, gl \in Nat : dl = Len(down) /\ gl = Len(got) /\ down \in Seq(Word)
  BY DEF UsbType
<1>5. \A k \in 1 .. left : addr + k - 1 \in Place
  BY <1>1 DEF WriteInv
<1>6. d \in Seq(Word) /\ Len(d) = n /\ \A i \in 1 .. n : d[i] = mem[addr + i - 1]
  <2>1. n \in Nat /\ \A i \in 1 .. n : i \in 1 .. left
    BY <1>2
  <2>2. \A i \in 1 .. n : mem[addr + i - 1] \in Word
    BY <1>5, <2>1 DEF UsbType
  <2> QED BY <1>3, <2>1, <2>2
<1>7. /\ down' \in Seq(Word) /\ Len(down') = dl + n
      /\ \A i \in 1 .. dl : down'[i] = down[i]
      /\ \A i \in 1 .. n : down'[dl + i] = mem[addr + i - 1]
  <2>1. /\ down \o d \in Seq(Word) /\ Len(down \o d) = Len(down) + Len(d)
        /\ Agree(down, down \o d, Len(down))
        /\ \A i \in 1 .. Len(d) : (down \o d)[Len(down) + i] = d[i]
    BY <1>4, <1>6, Behind
  <2>2. /\ down' \in Seq(Word) /\ Len(down') = dl + n /\ Agree(down, down', dl)
        /\ \A i \in 1 .. n : down'[dl + i] = d[i]
    BY <1>3, <1>4, <1>6, <2>1
  <2> QED BY <1>6, <2>2 DEF Agree
<1>8. UNCHANGED <<mem, meant, up, came, got, host, req, asked>>
  BY DEF hostVars
<1>9. \/ usb_cmd'.addr = addr + part /\ usb_cmd'.left = left - part /\ n = part /\ usb' = "out"
         /\ late' = late
      \/ usb' \in {"idle", "cmd"} /\ late' = TRUE /\ n < part
  BY <1>1, <1>2 DEF Moved, UsbType
<1>10. UsbType'
  <2>1. usb_cmd' \in [code : {"none", "netR", "netW", "number", "data"}, addr : Int, left : Int]
    <3>1. Moved = [usb_cmd EXCEPT !.addr = addr + part, !.left = left - part]
      BY <1>1, <1>2 DEF Moved, UsbType
    <3>2. addr + part \in Int /\ left - part \in Int
      BY <1>1, <1>2
    <3>3. Moved \in [code : {"none", "netR", "netW", "number", "data"}, addr : Int, left : Int]
      BY <3>1, <3>2 DEF UsbType
    <3>4. usb_cmd' = Moved \/ usb_cmd' = usb_cmd
      OBVIOUS
    <3> QED BY <3>3, <3>4 DEF UsbType
  <2>2. usb' \in {"idle", "cmd", "in", "out"} /\ late' \in BOOLEAN
    BY <1>9 DEF UsbType
  <2>3. Len(down') <= Fifo
    BY <1>4, <1>7
  <2> QED BY <1>7, <1>8, <2>1, <2>2, <2>3 DEF UsbType
<1>11. ~Writing /\ ~Writing'
  BY <1>9 DEF Writing
<1>12. usb' = "out" => /\ left - part \in Nat
                       /\ \A k \in 1 .. left - part : addr + part + k - 1 \in Place
  <2>1. left - part \in Nat
    BY <1>2
  <2>2. \A k \in 1 .. left - part :
          part + k \in 1 .. left /\ addr + (part + k) - 1 = addr + part + k - 1
    BY <1>2
  <2> QED BY <1>5, <2>1, <2>2
<1>13. WriteInv'
  <2>1. usb' # "in"
    BY <1>9
  <2>2. usb' = "out" => /\ usb_cmd'.left \in Nat
                        /\ \A k \in 1 .. usb_cmd'.left : usb_cmd'.addr + k - 1 \in Place
    BY <1>9, <1>12
  <2>3. /\ \A a \in Place : IsData(mem[a], a)
        /\ Stream(up, host, req)
        /\ host \in {"data", "recv"} => req.size \in 1 .. MemLen /\ req.addr + req.size <= MemLen
        /\ host = "data" => up = <<>> \/ up[Len(up)].is = "number"
    BY DEF WriteInv
  <2> QED BY <1>8, <1>11, <2>1, <2>2, <2>3 DEF WriteInv
<1>14. ASSUME host # "off"
       PROVE  /\ host = "recv" /\ up = <<>> /\ req.addr \in Nat /\ req.size \in Nat
              /\ addr = req.addr + gl + dl /\ left = req.size - gl - dl
              /\ gl < req.size
              /\ \A i \in 1 .. gl : got[i] = mem[req.addr + i - 1]
              /\ \A i \in 1 .. dl : down[i] = mem[req.addr + gl + i - 1]
  <2>1. Reading
    BY <1>1 DEF Reading
  <2> QED BY <1>1, <1>4, <1>14, <2>1 DEF ReadInv, UsbType
<1>15. ReadInv'
  <2>1. CASE host = "off"
    BY <1>8, <2>1 DEF ReadInv
  <2>2. CASE host # "off"
    <3>1. PICK ra \in Nat, size \in Nat : ra = req.addr /\ size = req.size
      BY <1>14, <2>2
    <3>2. addr = ra + gl + dl /\ left = size - gl - dl
      BY <1>14, <2>2, <3>1
    <3>3. /\ host' = "recv" /\ up' = <<>> /\ usb' # "in" /\ Len(got') = gl
          /\ req' = req /\ got' = got /\ mem' = mem
      BY <1>4, <1>8, <1>9, <1>14, <2>2
    <3>4. gl < req.size /\ gl + (dl + n) <= req.size
      BY <1>2, <1>14, <2>2
    <3>5. Reading' => usb_cmd'.addr = req.addr + gl + (dl + n)
                      /\ usb_cmd'.left = req.size - gl - (dl + n)
      <4>1. addr + part = ra + gl + (dl + part) /\ left - part = size - gl - (dl + part)
        BY <1>2, <3>2
      <4> QED BY <1>9, <3>1, <4>1 DEF Reading
    <3>6. \A i \in 1 .. dl + n : down'[i] = mem[req.addr + gl + i - 1]
      <4> SUFFICES ASSUME NEW i \in 1 .. dl + n
                   PROVE  down'[i] = mem[req.addr + gl + i - 1]
        OBVIOUS
      <4>1. CASE i <= dl
        BY <1>7, <1>14, <2>2, <4>1
      <4>2. CASE ~(i <= dl)
        <5>1. PICK k \in 1 .. n : i = dl + k
          BY <4>2
        <5>2. addr + k - 1 = req.addr + gl + i - 1
          BY <3>1, <3>2, <5>1
        <5> QED BY <1>7, <5>1, <5>2
      <4> QED BY <4>1, <4>2
    <3>7. \A i \in 1 .. gl : got[i] = mem[req.addr + i - 1]
      BY <1>14, <2>2
    <3>8. Len(down') = dl + n
      BY <1>7
    <3>9. /\ up' = <<>> /\ usb' # "in"
           /\ Reading' => /\ host' = "recv" /\ up' = <<>>
                          /\ usb_cmd'.addr = req'.addr + Len(got') + Len(down')
                          /\ usb_cmd'.left = req'.size - Len(got') - Len(down')
      BY <3>3, <3>5, <3>8
    <3>10. \A i \in 1 .. Len(got') : got'[i] = mem'[req'.addr + i - 1]
      BY <3>3, <3>7
    <3>11. \A i \in 1 .. Len(down') : down'[i] = mem'[req'.addr + Len(got') + i - 1]
      BY <3>3, <3>6, <3>8
    <3>12. Len(got') < req'.size /\ Len(got') + Len(down') <= req'.size
      BY <3>3, <3>4, <3>8
    <3> QED BY <3>3, <3>9, <3>10, <3>11, <3>12 DEF ReadInv
  <2> QED BY <2>1, <2>2
<1>16. MeantInv'
  BY <1>8, <1>9, <1>11 DEF MeantInv
<1> QED BY <1>10, <1>13, <1>15, <1>16

(* The host asks for memory, or says it is going to write. *)
LEMMA AskStep ==
  ASSUME UsbInv, NEW a \in Place, NEW n \in Size, Ask(a, n),
         NEW c \in {"netR", "netW"}, Say(Command(c, a, n)),
         host' = IF c = "netR" THEN "recv" ELSE "data"
  PROVE  UsbInv'
<1> USE DEF UsbInv
<1>1. /\ host = "idle" /\ a + n <= MemLen /\ got' = <<>> /\ asked' = asked + 1
      /\ req' = [addr |-> a, size |-> n]
      /\ UNCHANGED <<meant, came, down, mem, usb, usb_cmd, late>>
  BY DEF Ask, Say, consoleVars
<1>2. a \in Nat /\ n \in 1 .. MemLen /\ n \in Nat /\ n > 0
  BY UsbAssumption DEF Place
<1>3. PICK d : d = Command(c, a, n) /\ up' = up \o d
  BY DEF Say
<1>4. /\ d \in Seq(Word) /\ Len(d) = 4 /\ d[1].is = c
      /\ d[2].is = "number" /\ d[2].v = a /\ d[3].is = "number" /\ d[3].v = n
      /\ d[4].is = "number"
  <2>1. IsCommand(Command(c, a, n), c, a, n)
    BY <1>2, CommandWords
  <2>2. IsCommand(d, c, a, n)
    BY <1>3, <2>1
  <2> QED BY <2>2 DEF IsCommand
<1>5. PICK len \in Nat : len = Len(up) /\ came \in 0 .. len /\ (len = 0 <=> up = <<>>)
  BY DEF UsbType
<1>6. /\ up' \in Seq(Word) /\ Len(up') = len + 4 /\ Agree(up, up', len)
      /\ \A i \in 1 .. 4 : up'[len + i] = d[i]
  <2>1. up \in Seq(Word)
    BY DEF UsbType
  <2>2. /\ up \o d \in Seq(Word) /\ Len(up \o d) = Len(up) + Len(d)
        /\ Agree(up, up \o d, Len(up))
        /\ \A i \in 1 .. Len(d) : (up \o d)[Len(up) + i] = d[i]
    BY <1>4, <2>1, Behind
  <2> QED BY <1>3, <1>4, <1>5, <2>2
<1>7. \A i \in 1 .. len : up'[i] = up[i]
  BY <1>6 DEF Agree
<1>8. /\ up'[len + 1].is = c
      /\ up'[len + 2].is = "number" /\ up'[len + 2].v = a
      /\ up'[len + 3].is = "number" /\ up'[len + 3].v = n
      /\ up'[len + 4].is = "number"
  <2>1. 1 \in 1 .. 4 /\ 2 \in 1 .. 4 /\ 3 \in 1 .. 4 /\ 4 \in 1 .. 4
    OBVIOUS
  <2> QED BY <1>4, <1>6, <2>1
<1>9. req'.addr = a /\ req'.size = n /\ req' \in [addr : Nat, size : Nat]
  BY <1>1, <1>2
<1>10. UsbType'
  <2>1. came \in 0 .. len + 4
    BY <1>5
  <2>2. got' \in Seq(Word) /\ asked + 1 \in Nat
    BY <1>1 DEF UsbType
  <2> QED BY <1>1, <1>6, <1>9, <2>1, <2>2 DEF UsbType
<1>11. Stream(up', host', req')
  <2>1. Stream(up, "idle", req)
    BY <1>1 DEF WriteInv
  <2>2. \/ c = "netR" /\ host' = "recv"
        \/ c = "netW" /\ host' = "data"
    OBVIOUS
  <2>3. PICK r : r = req'
    OBVIOUS
  <2>4. r.addr \in Nat /\ r.size \in 1 .. MemLen /\ r.addr + r.size <= MemLen
        /\ r.addr = a /\ r.size = n
    BY <1>1, <1>2, <1>9, <2>3
  <2> QED BY <1>5, <1>6, <1>8, <2>1, <2>2, <2>3, <2>4, StreamAsk
<1>12. ~Reading /\ ~Reading' /\ (Writing' <=> Writing)
  BY <1>1 DEF ReadInv, Reading, Writing
<1>13. Writing => usb_cmd.left <= len
  BY <1>1, <1>5 DEF WriteInv
<1>14. WriteInv'
  <2>1. usb = "in" => \A k \in 1 .. usb_cmd.left :
          /\ usb_cmd.addr + k - 1 \in Place
          /\ k <= len + 4 => IsData(up'[k], usb_cmd.addr + k - 1)
    <3> SUFFICES ASSUME usb = "in", NEW k \in 1 .. usb_cmd.left
                 PROVE  /\ usb_cmd.addr + k - 1 \in Place
                        /\ IsData(up'[k], usb_cmd.addr + k - 1)
      OBVIOUS
    <3>1. usb_cmd.left \in Nat /\ k \in 1 .. usb_cmd.left
      BY DEF WriteInv
    <3>2. Writing
      BY <3>1 DEF Writing
    <3>3. k \in 1 .. len
      BY <1>13, <3>1, <3>2
    <3> QED BY <1>5, <1>7, <3>3 DEF WriteInv
  <2>2. Writing => usb_cmd.left <= len + 4
    BY <1>5, <1>13 DEF UsbType
  <2>3. /\ \A b \in Place : IsData(mem[b], b)
        /\ usb = "in" => usb_cmd.left \in Nat
        /\ usb = "out" => /\ usb_cmd.left \in Nat
                          /\ \A k \in 1 .. usb_cmd.left : usb_cmd.addr + k - 1 \in Place
    BY DEF WriteInv
  <2>4. req'.size \in 1 .. MemLen /\ req'.addr + req'.size <= MemLen
    BY <1>1, <1>2, <1>9
  <2> QED BY <1>1, <1>6, <1>8, <1>11, <1>12, <2>1, <2>2, <2>3, <2>4 DEF WriteInv
<1>15. ReadInv'
  <2>1. down = <<>> /\ Len(<<>>) = 0
    BY <1>1 DEF ReadInv
  <2>2. 0 < req'.size /\ 0 + 0 <= req'.size
    BY <1>2, <1>9
  <2>3. got' = <<>> /\ down' = <<>>
    BY <1>1, <2>1
  <2> QED BY <1>12, <2>1, <2>2, <2>3 DEF ReadInv
<1>16. MeantInv'
  <2> SUFFICES ASSUME ~late
               PROVE  /\ ~Writing => IsCode(up'[1])
                      /\ Writing /\ usb_cmd.left < len + 4 => IsCode(up'[usb_cmd.left + 1])
                      /\ up' # <<>>
                      /\ Arrives(up', mem, meant)
    BY <1>1, <1>6, <1>12 DEF MeantInv
  <2>1. IsCode(up'[len + 1])
    BY <1>8 DEF IsCode
  <2>2. ~Writing => IsCode(up'[1])
    <3>1. CASE len = 0
      <4>1. up'[1] = up'[len + 1]
        BY <3>1
      <4> QED BY <2>1, <4>1
    <3>2. CASE len # 0
      <4>1. 1 \in 1 .. len
        BY <3>2
      <4>2. ~Writing => IsCode(up[1])
        BY <1>1, <1>5, <3>2 DEF MeantInv
      <4> QED BY <1>7, <4>1, <4>2
    <3> QED BY <3>1, <3>2
  <2>3. ASSUME Writing
        PROVE  IsCode(up'[usb_cmd.left + 1])
    <3>1. PICK left \in Nat : left = usb_cmd.left
      BY <2>3 DEF Writing, WriteInv
    <3>2. CASE left = len
      BY <2>1, <3>1, <3>2
    <3>3. CASE left # len
      <4>1. left < len /\ left + 1 \in 1 .. len
        BY <1>13, <2>3, <3>1, <3>3
      <4>2. IsCode(up[left + 1])
        BY <1>1, <1>5, <2>3, <3>1, <4>1 DEF MeantInv
      <4> QED BY <1>7, <3>1, <4>1, <4>2
    <3> QED BY <3>2, <3>3
  <2>4. up' # <<>>
    BY <1>6
  <2>5. Arrives(up', mem, meant)
    <3>1. Arrives(up, mem, meant)
      BY <1>1 DEF MeantInv
    <3>2. Plain(up', len, 4)
      <4>1. \A k \in 1 .. 4 : k = 1 \/ k = 2 \/ k = 3 \/ k = 4
        OBVIOUS
      <4> QED BY <1>8, <4>1 DEF Plain
    <3>3. Len(up) = len /\ Len(up') = len + 4 /\ Agree(up, up', len) /\ 4 \in Nat
      BY <1>5, <1>6
    <3> QED BY <3>1, <3>2, <3>3, ArrivesCommand
  <2> QED BY <2>2, <2>3, <2>4, <2>5
<1> QED BY <1>10, <1>14, <1>15, <1>16

(* The data of a write follow its command. *)
LEMMA MemWrDataStep == ASSUME UsbInv, MemWrData PROVE UsbInv'
<1> USE DEF UsbInv
<1>1. /\ host = "data" /\ host' = "idle"
      /\ UNCHANGED <<req, got, asked, came, down, mem, usb, usb_cmd, late>>
      /\ meant' = [a \in Place |-> IF a \in req.addr .. req.addr + req.size - 1
                                   THEN Data(a, asked) ELSE meant[a]]
  BY DEF MemWrData, Say, consoleVars
<1>2. PICK b \in Nat, n \in 1 .. MemLen : b = req.addr /\ n = req.size /\ b + n <= MemLen
  BY <1>1 DEF UsbType, WriteInv
<1>3. n \in Nat /\ n > 0
  BY UsbAssumption
<1>4. PICK d : d = [i \in 1 .. n |-> Data(b + i - 1, asked)] /\ up' = up \o d
  BY <1>2 DEF MemWrData, Say
<1>5. d \in Seq(Word) /\ Len(d) = n /\ \A i \in 1 .. n : d[i] = Data(b + i - 1, asked)
  <2>1. \A i \in 1 .. n : Data(b + i - 1, asked) \in Word
    BY DEF Data, Word, UsbType
  <2> QED BY <1>3, <1>4, <2>1
<1>6. PICK len \in Nat : len = Len(up) /\ came \in 0 .. len /\ (len = 0 <=> up = <<>>)
  BY DEF UsbType
<1>7. /\ up' \in Seq(Word) /\ Len(up') = len + n /\ Agree(up, up', len)
      /\ \A i \in 1 .. n : up'[len + i] = Data(b + i - 1, asked)
  <2>1. up \in Seq(Word)
    BY DEF UsbType
  <2>2. /\ up \o d \in Seq(Word) /\ Len(up \o d) = Len(up) + Len(d)
        /\ Agree(up, up \o d, Len(up))
        /\ \A i \in 1 .. Len(d) : (up \o d)[Len(up) + i] = d[i]
    BY <1>5, <2>1, Behind
  <2> QED BY <1>4, <1>5, <1>6, <2>2
<1>8. \A i \in 1 .. len : up'[i] = up[i]
  BY <1>7 DEF Agree
<1>9. \A i \in 1 .. n : IsData(up'[len + i], b + i - 1)
  <2>1. \A i \in 1 .. n : IsData(Data(b + i - 1, asked), b + i - 1)
    BY DEF IsData, Data
  <2> QED BY <1>7, <2>1
<1>10. UsbType'
  <2>1. meant' \in [Place -> Word]
    <3>1. \A a \in Place : Data(a, asked) \in Word
      BY UsbAssumption DEF Data, Word, UsbType, Place
    <3>2. \A a \in Place : meant'[a] \in Word
      BY <1>1, <3>1 DEF UsbType
    <3> QED BY <1>1, <3>2
  <2>2. came \in 0 .. len + n
    BY <1>3, <1>6
  <2> QED BY <1>1, <1>7, <2>1, <2>2 DEF UsbType
<1>11. len = 0 \/ up[len].is = "number"
  BY <1>1, <1>6 DEF WriteInv
<1>12. Stream(up', host', req')
  <2>1. Stream(up, "data", req)
    BY <1>1 DEF WriteInv
  <2>2. Stream(up', "idle", req)
    BY <1>2, <1>3, <1>6, <1>7, <1>9, <1>11, <2>1, StreamData
  <2> QED BY <1>1, <2>2
<1>13. ~Reading /\ ~Reading' /\ (Writing' <=> Writing)
  BY <1>1 DEF ReadInv, Reading, Writing
<1>14. ASSUME Writing
       PROVE  /\ usb_cmd.left \in Nat /\ usb_cmd.left > 0
              /\ \/ usb_cmd.left <= len
                 \/ len = 0 /\ usb_cmd.addr = b /\ usb_cmd.left = n
  BY <1>1, <1>2, <1>6, <1>14 DEF WriteInv, Writing
<1>15. WriteInv'
  <2>1. usb = "in" => \A k \in 1 .. usb_cmd.left :
          /\ usb_cmd.addr + k - 1 \in Place
          /\ k <= len + n => IsData(up'[k], usb_cmd.addr + k - 1)
    <3> SUFFICES ASSUME usb = "in", NEW k \in 1 .. usb_cmd.left
                 PROVE  /\ usb_cmd.addr + k - 1 \in Place
                        /\ IsData(up'[k], usb_cmd.addr + k - 1)
      OBVIOUS
    <3>1. usb_cmd.left \in Nat /\ usb_cmd.addr + k - 1 \in Place
          /\ (k <= len => IsData(up[k], usb_cmd.addr + k - 1))
      BY <1>6 DEF WriteInv
    <3>2. Writing
      BY <3>1 DEF Writing
    <3>3. CASE usb_cmd.left <= len
      <4>1. k \in 1 .. len
        BY <3>1, <3>3
      <4> QED BY <1>8, <3>1, <4>1
    <3>4. CASE len = 0 /\ usb_cmd.addr = b /\ usb_cmd.left = n
      <4>1. k \in 1 .. n /\ len + k = k
        BY <3>4
      <4> QED BY <1>9, <3>1, <3>4, <4>1
    <3> QED BY <1>14, <3>2, <3>3, <3>4
  <2>2. Writing => usb_cmd.left <= len + n
    BY <1>3, <1>14
  <2>3. /\ \A a \in Place : IsData(mem[a], a)
        /\ usb = "in" => usb_cmd.left \in Nat
        /\ usb = "out" => /\ usb_cmd.left \in Nat
                          /\ \A k \in 1 .. usb_cmd.left : usb_cmd.addr + k - 1 \in Place
    BY DEF WriteInv
  <2> QED BY <1>1, <1>7, <1>12, <1>13, <2>1, <2>2, <2>3 DEF WriteInv
<1>16. ReadInv'
  <2>1. got = <<>> /\ down = <<>> /\ Len(<<>>) = 0
    BY <1>1 DEF ReadInv
  <2> QED BY <1>1, <1>13, <2>1 DEF ReadInv
<1>17. MeantInv'
  <2> SUFFICES ASSUME ~late
               PROVE  /\ ~Writing => IsCode(up'[1])
                      /\ Writing /\ usb_cmd.left < len + n => IsCode(up'[usb_cmd.left + 1])
                      /\ Arrives(up', mem, meant')
    BY <1>1, <1>7, <1>13 DEF MeantInv
  <2>1. ~Writing => IsCode(up'[1])
    <3> SUFFICES ASSUME ~Writing PROVE IsCode(up'[1])
      OBVIOUS
    <3>1. up # <<>> /\ IsCode(up[1])
      BY <1>1 DEF MeantInv
    <3>2. 1 \in 1 .. len
      BY <1>6, <3>1
    <3> QED BY <1>8, <3>1, <3>2
  <2>2. ASSUME Writing, usb_cmd.left < len + n
        PROVE  IsCode(up'[usb_cmd.left + 1])
    <3>1. PICK left \in Nat : left = usb_cmd.left /\ left > 0
      BY <1>14, <2>2
    <3>2. left <= len
      BY <1>3, <1>14, <2>2, <3>1
    <3>3. left # len
      <4> SUFFICES ASSUME left = len PROVE FALSE
        OBVIOUS
      <4>1. usb = "in" /\ len \in 1 .. usb_cmd.left /\ len <= Len(up)
        BY <1>6, <2>2, <3>1 DEF Writing
      <4>2. IsData(up[len], usb_cmd.addr + len - 1)
        BY <4>1 DEF WriteInv
      <4> QED BY <1>11, <3>1, <4>2 DEF IsData
    <3>4. left < len /\ left + 1 \in 1 .. len
      BY <3>2, <3>3
    <3>5. IsCode(up[left + 1])
      BY <1>1, <1>6, <2>2, <3>1, <3>4 DEF MeantInv
    <3> QED BY <1>8, <3>1, <3>4, <3>5
  <2>3. Arrives(up', mem, meant')
    <3>1. Arrives(up, mem, meant)
      BY <1>1 DEF MeantInv
    <3>2. Placed(meant', meant, up', len, n, b)
      <4> SUFFICES ASSUME NEW a \in Place
                   PROVE  meant'[a] = IF a \in b .. b + n - 1 THEN up'[len + (a - b + 1)]
                                      ELSE meant[a]
        BY DEF Placed
      <4>1. a \in Int
        BY UsbAssumption DEF Place
      <4>2. meant'[a] = IF a \in b .. b + n - 1 THEN Data(a, asked) ELSE meant[a]
        BY <1>1, <1>2
      <4>3. a \in b .. b + n - 1 => up'[len + (a - b + 1)] = Data(a, asked)
        <5> SUFFICES ASSUME a \in b .. b + n - 1
                     PROVE  up'[len + (a - b + 1)] = Data(a, asked)
          OBVIOUS
        <5>1. PICK i \in 1 .. n : i = a - b + 1 /\ b + i - 1 = a
          BY <4>1
        <5> QED BY <1>7, <5>1
      <4> QED BY <4>2, <4>3
    <3>3. len \in Nat /\ n \in Nat /\ Len(up) = len
      BY <1>3, <1>6
    <3>4. Puts(up', len, n, b)
      BY <1>9 DEF Puts
    <3>5. Len(up') = len + n /\ Agree(up, up', len)
      BY <1>7
    <3> QED BY <3>1, <3>2, <3>3, <3>4, <3>5, ArrivesData
  <2> QED BY <2>1, <2>2, <2>3
<1> QED BY <1>10, <1>15, <1>16, <1>17

(* The host takes words; if there were any, the stream to the console is   *)
(* empty, and nothing is written under what it receives.                   *)
LEMMA RecvAllStep ==
  ASSUME UsbInv, NEW n \in 1 .. MemLen, RecvAll(n)
  PROVE  UsbInv'
<1> USE DEF UsbInv
<1>1. /\ host = "recv" /\ host' \in {"recv", "idle"}
      /\ UNCHANGED <<req, asked, meant, up, came, mem, usb, usb_cmd, late>>
  BY DEF RecvAll, consoleVars
<1>2. PICK gl \in Nat, dl \in Nat, b \in Nat, size \in Nat :
        /\ gl = Len(got) /\ dl = Len(down) /\ b = req.addr /\ size = req.size
        /\ (dl = 0 <=> down = <<>>)
  BY DEF UsbType
<1>3. n \in 1 .. dl /\ n \in Nat /\ n <= size - gl /\ gl < size /\ gl + dl <= size
  BY <1>1, <1>2, UsbAssumption DEF RecvAll, ReadInv
<1>4. PICK d : d = SubSeq(down, 1, n) /\ got' = got \o d
  BY DEF RecvAll
<1>5. d \in Seq(Word) /\ Len(d) = n /\ \A i \in 1 .. n : d[i] = down[i]
  <2>1. down \in Seq(Word) /\ n \in 0 .. Len(down)
    BY <1>2, <1>3 DEF UsbType
  <2> QED BY <1>4, <2>1, FirstWords
<1>6. /\ down' \in Seq(Word) /\ Len(down') = dl - n
      /\ \A i \in 1 .. dl - n : down'[i] = down[i + n]
  <2>1. down \in Seq(Word) /\ n \in 0 .. Len(down) /\ down' = SubSeq(down, n + 1, Len(down))
    BY <1>2, <1>3 DEF UsbType, RecvAll
  <2> QED BY <1>2, <2>1, Rest
<1>7. /\ got' \in Seq(Word) /\ Len(got') = gl + n /\ Agree(got, got', gl)
      /\ \A i \in 1 .. n : got'[gl + i] = d[i]
  <2>1. got \in Seq(Word)
    BY DEF UsbType
  <2>2. /\ got \o d \in Seq(Word) /\ Len(got \o d) = Len(got) + Len(d)
        /\ Agree(got, got \o d, Len(got))
        /\ \A i \in 1 .. Len(d) : (got \o d)[Len(got) + i] = d[i]
    BY <1>5, <2>1, Behind
  <2> QED BY <1>2, <1>4, <1>5, <2>2
<1>8. host' = IF gl + n = size THEN "idle" ELSE "recv"
  BY <1>2, <1>7 DEF RecvAll
<1>9. UsbType'
  <2>1. Len(down') <= Fifo
    BY <1>2, <1>3, <1>6, UsbAssumption DEF UsbType
  <2>2. came' \in 0 .. Len(up')
    BY <1>1 DEF UsbType
  <2> QED BY <1>1, <1>6, <1>7, <2>1, <2>2 DEF UsbType
<1>10. up = <<>> /\ Len(up) = 0 /\ usb # "in"
  BY <1>1, <1>2, <1>3 DEF ReadInv
<1>11. ~Writing /\ ~Writing'
  BY <1>1, <1>10 DEF Writing
<1>12. WriteInv'
  <2>1. Stream(up', host', req')
    BY <1>1, <1>10 DEF Stream
  <2>2. /\ \A a \in Place : IsData(mem[a], a)
        /\ usb = "out" => /\ usb_cmd.left \in Nat
                          /\ \A k \in 1 .. usb_cmd.left : usb_cmd.addr + k - 1 \in Place
        /\ req.size \in 1 .. MemLen /\ req.addr + req.size <= MemLen
    BY <1>1 DEF WriteInv
  <2> QED BY <1>1, <1>10, <1>11, <2>1, <2>2 DEF WriteInv
<1>13. ReadInv'
  <2>1. /\ \A i \in 1 .. gl : got[i] = mem[b + i - 1]
        /\ \A i \in 1 .. dl : down[i] = mem[b + gl + i - 1]
    BY <1>1, <1>2 DEF ReadInv
  <2>2. \A i \in 1 .. gl + n : got'[i] = mem[b + i - 1]
    <3> SUFFICES ASSUME NEW i \in 1 .. gl + n PROVE got'[i] = mem[b + i - 1]
      OBVIOUS
    <3>1. CASE i <= gl
      BY <1>7, <2>1, <3>1 DEF Agree
    <3>2. CASE ~(i <= gl)
      <4>1. PICK k \in 1 .. n : i = gl + k
        BY <1>3, <3>2
      <4>2. k \in 1 .. dl /\ b + gl + k - 1 = b + i - 1
        BY <1>3, <4>1
      <4> QED BY <1>5, <1>7, <2>1, <4>1, <4>2
    <3> QED BY <3>1, <3>2
  <2>3. \A i \in 1 .. dl - n : down'[i] = mem[b + (gl + n) + i - 1]
    <3> SUFFICES ASSUME NEW i \in 1 .. dl - n PROVE down'[i] = mem[b + (gl + n) + i - 1]
      OBVIOUS
    <3>1. i + n \in 1 .. dl /\ b + gl + (i + n) - 1 = b + (gl + n) + i - 1
      BY <1>3
    <3> QED BY <1>6, <2>1, <3>1
  <2>4. Reading => /\ usb_cmd.addr = b + gl + dl /\ usb_cmd.left = size - gl - dl
                   /\ usb_cmd.left > 0
    BY <1>1, <1>2 DEF ReadInv, Reading
  <2>5. Reading' <=> Reading
    BY <1>1 DEF Reading
  <2>6. Reading => /\ host' = "recv"
                   /\ usb_cmd.addr = b + (gl + n) + (dl - n)
                   /\ usb_cmd.left = size - (gl + n) - (dl - n)
    <3>1. b + gl + dl = b + (gl + n) + (dl - n) /\ size - gl - dl = size - (gl + n) - (dl - n)
      BY <1>3
    <3>2. size - gl - dl > 0 => gl + n # size
      BY <1>3
    <3> QED BY <1>8, <2>4, <3>1, <3>2
  <2>7. host' = "idle" => down' = <<>>
    <3> SUFFICES ASSUME gl + n = size PROVE down' = <<>>
      BY <1>8
    <3>1. dl - n = 0
      BY <1>3
    <3> QED BY <1>6, <3>1
  <2>8. host' = "recv" => gl + n < size /\ (gl + n) + (dl - n) <= size
    BY <1>3, <1>8
  <2>9. /\ up' = <<>> /\ usb' # "in" /\ mem' = mem /\ req'.addr = b /\ req'.size = size
        /\ usb_cmd' = usb_cmd
    BY <1>1, <1>2, <1>10
  <2>10. /\ Reading' => /\ host' = "recv"
                        /\ usb_cmd'.addr = req'.addr + Len(got') + Len(down')
                        /\ usb_cmd'.left = req'.size - Len(got') - Len(down')
         /\ \A i \in 1 .. Len(got') : got'[i] = mem'[req'.addr + i - 1]
         /\ \A i \in 1 .. Len(down') : down'[i] = mem'[req'.addr + Len(got') + i - 1]
    BY <1>6, <1>7, <2>2, <2>3, <2>5, <2>6, <2>9
  <2>11. host' = "recv" => Len(got') < req'.size /\ Len(got') + Len(down') <= req'.size
    BY <1>6, <1>7, <2>8, <2>9
  <2> QED BY <1>1, <2>7, <2>9, <2>10, <2>11 DEF ReadInv
<1>14. MeantInv'
  BY <1>1, <1>10, <1>11 DEF MeantInv
<1> QED BY <1>9, <1>12, <1>13, <1>14

(* Every step of host, chip and console keeps it. *)
LEMMA UsbStep == ASSUME UsbInv, [UsbNext]_usbVars PROVE UsbInv'
<1>1. ASSUME NEW a \in Place, NEW n \in Size, MemRd(a, n)
      PROVE  UsbInv'
  <2>1. PICK c \in {"netR", "netW"} : c = "netR"
    OBVIOUS
  <2> QED BY <1>1, <2>1, AskStep DEF MemRd
<1>2. ASSUME NEW a \in Place, NEW n \in Size, MemWr(a, n)
      PROVE  UsbInv'
  <2>1. PICK c \in {"netR", "netW"} : c = "netW"
    OBVIOUS
  <2> QED BY <1>2, <2>1, AskStep DEF MemWr
<1>3. ASSUME NEW n \in 1 .. MemLen, RecvAll(n)
      PROVE  UsbInv'
  BY <1>3, RecvAllStep
<1>4. ASSUME NEW n \in 0 .. Len(up), Ends(n)
      PROVE  UsbInv'
  BY <1>4, EndsStep
<1>5. CASE MemWrData
  BY <1>5, MemWrDataStep
<1>6. CASE Open
  BY <1>6, OpenStep
<1>7. CASE Arrive
  BY <1>7, ArriveStep
<1>8. CASE Poll
  BY <1>8, ConsoleTurns DEF Poll, Writing
<1>9. CASE RdCmd
  BY <1>9, RdCmdStep
<1>10. CASE RdCmdFails
  <2>1. PICK n \in 0 .. came : Take(n)
    BY <1>10 DEF RdCmdFails, TimesOut
  <2> QED BY <1>10, <2>1, GivesUp DEF RdCmdFails, TimesOut
<1>11. CASE RdDram
  BY <1>11, RdDramStep
<1>12. CASE RdDramFails
  <2>1. PICK n \in 0 .. came : Take(n)
    BY <1>12 DEF RdDramFails, TimesOut
  <2> QED BY <1>12, <2>1, GivesUp DEF RdDramFails, TimesOut, Loop
<1>13. CASE WrDram
  <2>1. PICK left \in Nat : left = usb_cmd.left /\ left > 0 /\ usb = "out"
    BY <1>13 DEF WrDram, UsbInv, WriteInv
  <2>2. PICK n \in 0 .. Part : n = Part
    BY <2>1, UsbAssumption DEF Part, Least
  <2>3. /\ Len(down) + n <= Fifo /\ usb_cmd' = Moved /\ usb' = usb /\ late' = late
        /\ down' = down \o [i \in 1 .. n |-> mem[usb_cmd.addr + i - 1]]
        /\ UNCHANGED <<hostVars, up, came, mem>>
    BY <1>13, <2>2 DEF WrDram
  <2> QED BY <2>1, <2>2, <2>3, WrDramStep
<1>14. CASE WrDramFails
  <2>1. PICK left \in Nat : left = usb_cmd.left /\ left > 0 /\ usb = "out"
    BY <1>14 DEF WrDramFails, UsbInv, WriteInv
  <2>2. PICK part \in 1 .. left : part = Part
    BY <2>1, UsbAssumption DEF Part, Least
  <2>3. PICK room \in Nat : room = Fifo - Len(down) /\ Len(down) \in Nat
    <3>1. Len(down) \in Nat /\ Len(down) <= Fifo
      BY DEF UsbInv, UsbType
    <3>2. Fifo - Len(down) \in Nat
      BY <3>1, UsbAssumption
    <3> QED BY <3>1, <3>2
  <2>4. part > room /\ down' = down \o [i \in 1 .. room |-> mem[usb_cmd.addr + i - 1]]
    BY <1>14, <2>2, <2>3 DEF WrDramFails
  <2>5. room \in 0 .. Part /\ room < Part /\ Len(down) + room <= Fifo
    BY <2>2, <2>3, <2>4, UsbAssumption
  <2>6. usb_cmd' = usb_cmd /\ usb' \in {"idle", "cmd"} /\ late' = TRUE
        /\ UNCHANGED <<hostVars, up, came, mem>>
    BY <1>14 DEF WrDramFails, Loop
  <2> QED BY <2>1, <2>4, <2>5, <2>6, WrDramStep
<1>15. CASE Served
  <2>1. ~Writing /\ usb' \in {"idle", "cmd"}
    BY <1>15 DEF Served, Loop, Writing
  <2> QED BY <1>15, <2>1, ConsoleTurns DEF Served
<1>16. CASE UNCHANGED usbVars
  <2>1. UsbType' /\ WriteInv'
    BY <1>16 DEF UsbInv, UsbType, WriteInv, Writing, usbVars, hostVars, consoleVars
  <2>2. ReadInv'
    BY <1>16 DEF UsbInv, ReadInv, Reading, usbVars, hostVars, consoleVars
  <2>3. MeantInv'
    BY <1>16 DEF UsbInv, MeantInv, Writing, usbVars, hostVars, consoleVars
  <2> QED BY <2>1, <2>2, <2>3 DEF UsbInv
<1> QED BY <1>1, <1>2, <1>3, <1>4, <1>5, <1>6, <1>7, <1>8, <1>9, <1>10, <1>11, <1>12, <1>13,
           <1>14, <1>15, <1>16 DEF UsbNext

(* The invariant of the USB client, for any sizes of memory, chunk, FIFO   *)
(* and request, whatever is late and whenever the client ends.             *)
THEOREM UsbInvariant == UsbSpec => []UsbInv
<1>1. UsbInit => UsbInv
  <2> SUFFICES ASSUME UsbInit PROVE UsbInv
    OBVIOUS
  <2> USE DEF UsbInit
  <2>1. Len(up) = 0 /\ Len(down) = 0
    OBVIOUS
  <2>2. mem \in [Place -> Word]
    BY UsbAssumption DEF Data, Word, Place
  <2>3. UsbType
    <3>1. up \in Seq(Word) /\ down \in Seq(Word) /\ got \in Seq(Word)
      OBVIOUS
    <3>2. Len(down) <= Fifo /\ came \in 0 .. Len(up)
      BY <2>1, UsbAssumption
    <3>3. usb_cmd \in [code : {"none", "netR", "netW", "number", "data"}, addr : Int, left : Int]
      OBVIOUS
    <3> QED BY <2>2, <3>1, <3>2, <3>3 DEF UsbType
  <2>4. ~Writing /\ ~Reading
    BY DEF Writing, Reading
  <2>5. WriteInv
    BY <2>1, <2>4 DEF WriteInv, Stream, IsData, Data
  <2>6. ReadInv
    BY DEF ReadInv
  <2>7. MeantInv
    BY DEF MeantInv
  <2> QED BY <2>3, <2>5, <2>6, <2>7 DEF UsbInv
<1>2. UsbInv /\ [UsbNext]_usbVars => UsbInv'
  BY UsbStep
<1> QED BY <1>1, <1>2, PTL DEF UsbSpec

(* However late the words of either side come, whatever the console gives  *)
(* up on, and whenever a client is stopped, every word of memory and of    *)
(* what a mem_rd receives is the one for its place, and where nothing was  *)
(* late all that was written is there (main.c:38-51, edx.c:65-103).        *)
THEOREM UsbStaysInStep == UsbSpec => []UsbInStep
<1>1. UsbInv => UsbInStep
  <2> SUFFICES ASSUME UsbInv PROVE UsbInStep
    OBVIOUS
  <2> USE DEF UsbInv
  <2>1. \A a \in Place : mem[a].is = "data" /\ mem[a].v = a
    BY DEF WriteInv, IsData
  <2>2. \A i \in DOMAIN got : got[i] = mem[req.addr + i - 1]
    <3>1. DOMAIN got = 1 .. Len(got)
      BY DEF UsbType
    <3>2. CASE host = "off"
      BY <3>2 DEF ReadInv
    <3>3. CASE host # "off"
      BY <3>1, <3>3 DEF ReadInv
    <3> QED BY <3>2, <3>3
  <2>3. ASSUME host = "idle", up = <<>>, usb = "idle", ~late
        PROVE  mem = meant
    <3>1. Arrives(up, mem, meant) /\ Len(up) = 0
      BY <2>3 DEF MeantInv
    <3>2. \A a \in Place : meant[a] = mem[a]
      BY <3>1 DEF Arrives
    <3> QED BY <3>2 DEF UsbType
  <2> QED BY <2>1, <2>2, <2>3 DEF UsbInStep
<1> QED BY <1>1, UsbInvariant, PTL
=============================================================================
