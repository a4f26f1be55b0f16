------------------------------ MODULE NetProofs ------------------------------
(***************************************************************************)
(* For every number of slots, clients and hosts: who sits where, that the  *)
(* renumbering never aims at a game's own record, and, when a host runs    *)
(* its client once, whose data is in which record.                         *)
(***************************************************************************)
EXTENDS Net, FiniteSetTheorems, SequenceTheorems, TLAPS

(* The numbering: the record of another slot is never record 0, and two    *)
(* other slots never share a record.                                       *)
LEMMA NumberingSound ==
  ASSUME NEW i \in Slots, NEW s \in Slots, i # s
  PROVE  /\ PeerIndex(i, s) \in Slots \ {0}
         /\ \A r \in Slots \ {i} : PeerIndex(i, r) = PeerIndex(i, s) => r = s
BY NPLenAssumption DEF PeerIndex, Slots

-----------------------------------------------------------------------------
(* Types, and the numbers on messages. *)

(* Messages that are not numbered for the receiver's own record. *)
SoundMsg == {m \in DownMsg : m.t = "peer" => m.idx # 0}

NumberInv ==
  /\ down \in [Conn -> Seq(SoundMsg)]
  /\ \A d \in udpDown : d.idx # 0
  /\ \A a \in Addr : rec[a][0] = NoRec /\ pos[a][0] = None

TypeInv == TypeOK /\ NumberInv

(* There is a slot 0.                                                      *)
LEMMA ZeroSlot == 0 \in Slots
BY NPLenAssumption DEF Slots

(* SeatOf is the slot of a seated connection.                              *)
LEMMA SeatOfSlot ==
  ASSUME NEW c, Seated(c)
  PROVE  SeatOf(c) \in Slots /\ np_table[SeatOf(c)] = c
BY DEF Seated, SeatOf

(* Soundly numbered streams are streams.                                   *)
LEMMA SoundIsDown == [Conn -> Seq(SoundMsg)] \subseteq [Conn -> Seq(DownMsg)]
<1>1. SoundMsg \subseteq DownMsg
  BY DEF SoundMsg
<1> QED BY <1>1

(* Taking a message from a client's stream.                                *)
LEMMA ReceivedOK ==
  ASSUME up \in [Conn -> Seq(UpMsg)], NEW c \in Conn, Received(c)
  PROVE  up' \in [Conn -> Seq(UpMsg)] /\ Head(up[c]) \in UpMsg
<1>1. up[c] \in Seq(UpMsg) /\ up[c] # <<>>
  BY DEF Received
<1>2. Head(up[c]) \in UpMsg /\ Tail(up[c]) \in Seq(UpMsg)
  BY <1>1
<1> QED BY <1>2 DEF Received

(* What a newcomer is sent. *)
LEMMA WelcomeOK ==
  ASSUME TypeOK, NEW i \in Slots, NEW q \in Ascending(Synced(i))
  PROVE  Welcome(i, q) \in Seq(SoundMsg)
<1> DEFINE msg(k) == Kept(PeerIndex(i, q[k]), np_table[q[k]])
<1>1. IsFiniteSet(Synced(i))
  <2>1. IsFiniteSet(Slots)
    BY NPLenAssumption, FS_Interval DEF Slots
  <2>2. Synced(i) \subseteq Slots
    BY DEF Synced
  <2> QED BY <2>1, <2>2, FS_Subset
<1>2. q \in Seq(Synced(i))
  BY <1>1, FS_CardinalityType DEF Ascending
<1>3. \A k \in 1 .. Len(q) : msg(k) \in SoundMsg
  <2> TAKE k \in 1 .. Len(q)
  <2>1. q[k] \in Slots /\ q[k] # i /\ np_table[q[k]] # None /\ tcp[np_table[q[k]]] # NoTcp
    BY <1>2 DEF Synced
  <2>2. np_table[q[k]] \in Conn /\ tcp[np_table[q[k]]] \in Ver
    BY <2>1 DEF TypeOK, ServerTypeOK
  <2>3. PeerIndex(i, q[k]) \in Slots \ {0}
    BY <2>1, NumberingSound
  <2> QED BY <2>2, <2>3 DEF Kept, Peer, SoundMsg, DownMsg, PeerMsg
<1>4. [k \in 1 .. Len(q) |-> msg(k)] \in Seq(SoundMsg)
  BY <1>2, <1>3
<1>5. <<Ctl("meta"), Ctl("write")>> \in Seq(SoundMsg)
  BY DEF Ctl, SoundMsg, DownMsg, Control
<1> QED BY <1>4, <1>5 DEF Welcome

(* What the others are sent of a player's message. *)
LEMMA ForwardedOK ==
  ASSUME TypeInv, NEW i \in Slots, np_table[i] # None, NEW v \in Ver,
         NEW hit \in [Conn -> Conn \cup {None}], NEW sy \in Ver \cup {NoTcp},
         Forwarded(i, v, hit, sy)
  PROVE  down' \in [Conn -> Seq(SoundMsg)]
<1> DEFINE msg(d) == Peer(PeerIndex(SeatOf(d), i), np_table[i], v, hit[d], sy)
<1>1. down \in [Conn -> Seq(SoundMsg)]
  BY DEF TypeInv, NumberInv
<1>2. np_table[i] \in Conn
  BY DEF TypeInv, TypeOK, ServerTypeOK
<1>3. \A d \in Others(i) : msg(d) \in SoundMsg
  <2> TAKE d \in Others(i)
  <2>1. d \in Conn /\ Seated(d) /\ SeatOf(d) # i
    BY DEF Others
  <2>2. PeerIndex(SeatOf(d), i) \in Slots \ {0}
    BY <2>1, SeatOfSlot, NumberingSound
  <2> QED BY <1>2, <2>1, <2>2 DEF Peer, SoundMsg, DownMsg, PeerMsg
<1>4. \A d \in Conn :
        (IF d \in Others(i) THEN Append(down[d], msg(d)) ELSE down[d]) \in Seq(SoundMsg)
  BY <1>1, <1>3
<1> QED BY <1>4 DEF Forwarded

(* The server's steps. *)
LEMMA ServerTypes ==
  ASSUME TypeInv, ServerNext, UNCHANGED clientVars
  PROVE  TypeInv'
<1> USE DEF TypeInv, TypeOK, WireTypeOK, ServerTypeOK, NumberInv
<1>0. ClientTypeOK' /\ \A a \in Addr : rec'[a][0] = NoRec /\ pos'[a][0] = None
  BY DEF ClientTypeOK, clientVars
<1>1. CASE Select
  BY <1>0, <1>1 DEF Select, NoneReady, Readable
<1>2. ASSUME NEW c \in Conn, RefuseBanned(c)
      PROVE  TypeInv'
  <2>1. Ctl("ban") \in SoundMsg /\ SoundMsg \subseteq DownMsg
    BY DEF Ctl, SoundMsg, DownMsg, Control
  <2>2. down' \in [Conn -> Seq(SoundMsg)] /\ down' \in [Conn -> Seq(DownMsg)]
    BY <1>2, <2>1 DEF RefuseBanned
  <2>3. WireTypeOK'
    BY <1>0, <1>2, <2>2 DEF RefuseBanned, Accepting
  <2>4. ServerTypeOK'
    BY <1>0, <1>2, <2>2 DEF RefuseBanned, Accepting
  <2>5. NumberInv'
    BY <1>0, <1>2, <2>2 DEF RefuseBanned, Accepting
  <2> QED BY <1>0, <2>3, <2>4, <2>5
<1>3. ASSUME NEW c \in Conn, RefuseFull(c)
      PROVE  TypeInv'
  <2>1. WireTypeOK'
    BY <1>0, <1>3 DEF RefuseFull, Accepting
  <2>2. ServerTypeOK'
    BY <1>0, <1>3 DEF RefuseFull, Accepting
  <2>3. NumberInv'
    BY <1>0, <1>3 DEF RefuseFull, Accepting
  <2> QED BY <1>0, <2>1, <2>2, <2>3
<1>4. ASSUME NEW c \in Conn, NEW i \in Slots, Admit(c, i)
      PROVE  TypeInv'
  <2>1. down' \in [Conn -> Seq(SoundMsg)] /\ down' \in [Conn -> Seq(DownMsg)]
    <3>1. PICK q \in Ascending(Synced(i)) :
            down' = IF Alive(c) THEN [down EXCEPT ![c] = @ \o Welcome(i, q)] ELSE down
      BY <1>4 DEF Admit
    <3>2. Welcome(i, q) \in Seq(SoundMsg)
      BY WelcomeOK
    <3>3. Welcome(i, q) \in Seq(DownMsg)
      BY <3>2 DEF SoundMsg
    <3> QED BY <3>1, <3>2, <3>3
  <2>2. np_table' \in [Slots -> Conn \cup {None}] /\ tcp' \in [Conn -> Ver \cup {NoTcp}]
    BY <1>4 DEF Admit
  <2>3. WireTypeOK'
    BY <1>0, <1>4, <2>1, <2>2 DEF Admit, Accepting
  <2>4. ServerTypeOK'
    BY <1>0, <1>4, <2>1, <2>2 DEF Admit, Accepting
  <2>5. NumberInv'
    BY <1>0, <1>4, <2>1, <2>2 DEF Admit, Accepting
  <2> QED BY <1>0, <2>3, <2>4, <2>5
<1>5. CASE ServeDgram
  <2>1. ASSUME NEW i \in Slots, FirstOf(AddrOf[rdDgram], i)
        PROVE  Echoes(i, rdDgram) \in SUBSET Dgram /\ \A d \in Echoes(i, rdDgram) : d.idx # 0
    <3> SUFFICES ASSUME NEW s \in Slots \ {i}, np_table[s] # None
                 PROVE  /\ [to |-> AddrOf[np_table[s]], idx |-> PeerIndex(s, i),
                             owner |-> rdDgram] \in Dgram
                        /\ PeerIndex(s, i) # 0
      BY DEF Echoes
    <3>1. PeerIndex(s, i) \in Slots \ {0}
      BY NumberingSound
    <3> QED BY <1>5, <3>1, WireAssumption DEF Dgram, ServeDgram
  <2>2. udpDown' \in SUBSET Dgram /\ \A d \in udpDown' : d.idx # 0
    BY <1>5, <2>1 DEF ServeDgram
  <2>3. WireTypeOK'
    BY <1>0, <1>5, <2>2 DEF ServeDgram
  <2>4. ServerTypeOK'
    BY <1>0, <1>5, <2>2 DEF ServeDgram
  <2>5. NumberInv'
    BY <1>0, <1>5, <2>2 DEF ServeDgram
  <2> QED BY <1>0, <2>3, <2>4, <2>5
<1>6. ASSUME NEW s \in Slots, CmdSync(s)
      PROVE  TypeInv'
  <2> DEFINE c == rdSock[s]
             m == Head(up[c])
  <2>1. c \in Conn /\ np_table[s] = c /\ np_table[s] # None
    BY <1>6 DEF CmdSync, Serving
  <2>2. up' \in [Conn -> Seq(UpMsg)] /\ m \in UpMsg
    BY <1>6, <2>1, ReceivedOK DEF CmdSync
  <2>3. m.ver \in Ver
    BY <2>2 DEF UpMsg
  <2>4. /\ Forwarded(s, m.ver, [d \in Conn |-> None], m.ver)
        /\ tcp' = [tcp EXCEPT ![c] = m.ver]
    BY <1>6 DEF CmdSync, SyncForwards, SyncKeeps
  <2>5. down' \in [Conn -> Seq(SoundMsg)]
    BY <2>1, <2>3, <2>4, ForwardedOK
  <2>6. down' \in [Conn -> Seq(DownMsg)]
    BY <2>5, SoundIsDown
  <2> HIDE DEF c, m
  <2>7. WireTypeOK'
    BY <1>0, <1>6, <2>1, <2>2, <2>3, <2>4, <2>5, <2>6 DEF CmdSync, Serving
  <2>8. ServerTypeOK'
    BY <1>0, <1>6, <2>1, <2>2, <2>3, <2>4, <2>5, <2>6 DEF CmdSync, Serving
  <2>9. NumberInv'
    BY <1>0, <1>6, <2>1, <2>2, <2>3, <2>4, <2>5, <2>6 DEF CmdSync, Serving
  <2> QED BY <1>0, <2>7, <2>8, <2>9
<1>7. ASSUME NEW s \in Slots, CmdCol(s)
      PROVE  TypeInv'
  <2> DEFINE c == rdSock[s]
             m == Head(up[c])
  <2>1. c \in Conn /\ np_table[s] = c /\ np_table[s] # None
    BY <1>7 DEF CmdCol, Serving
  <2>2. up' \in [Conn -> Seq(UpMsg)] /\ m \in UpMsg
    BY <1>7, <2>1, ReceivedOK DEF CmdCol
  <2>3. m.ver \in Ver /\ m.aim \in Conn \cup {None}
    BY <2>2 DEF UpMsg
  <2>4. Forwarded(s, m.ver, Hit(s, m), tcp[c]) /\ tcp[c] \in Ver \cup {NoTcp}
    BY <1>7, <2>1 DEF CmdCol
  <2>5. Hit(s, m) \in [Conn -> Conn \cup {None}]
    BY <2>3 DEF Hit
  <2>6. down' \in [Conn -> Seq(SoundMsg)]
    BY <2>1, <2>3, <2>4, <2>5, ForwardedOK
  <2>7. down' \in [Conn -> Seq(DownMsg)]
    BY <2>6, SoundIsDown
  <2> HIDE DEF c, m
  <2>8. WireTypeOK'
    BY <1>0, <1>7, <2>2, <2>3, <2>6, <2>7 DEF CmdCol, Serving
  <2>9. ServerTypeOK'
    BY <1>0, <1>7, <2>2, <2>3, <2>6, <2>7 DEF CmdCol, Serving
  <2>10. NumberInv'
    BY <1>0, <1>7, <2>2, <2>3, <2>6, <2>7 DEF CmdCol, Serving
  <2> QED BY <1>0, <2>8, <2>9, <2>10
<1>8. ASSUME NEW s \in Slots, Leave(s)
      PROVE  TypeInv'
  <2>1. WireTypeOK'
    BY <1>0, <1>8 DEF Leave, Serving
  <2>2. ServerTypeOK'
    BY <1>0, <1>8 DEF Leave, Serving
  <2>3. NumberInv'
    BY <1>0, <1>8 DEF Leave, Serving
  <2> QED BY <1>0, <2>1, <2>2, <2>3
<1>9. ASSUME NEW s \in Slots, Stray(s)
      PROVE  TypeInv'
  <2>1. WireTypeOK'
    <3>1. up' \in [Conn -> Seq(UpMsg)]
      BY <1>9, ReceivedOK DEF Stray, Serving
    <3> QED BY <1>9, <3>1 DEF Stray, Serving
  <2>2. ServerTypeOK'
    BY <1>0, <1>9 DEF Stray, Serving, Received
  <2>3. NumberInv'
    BY <1>0, <1>9 DEF Stray, Serving, Received
  <2> QED BY <1>0, <2>1, <2>2, <2>3
<1> QED BY <1>1, <1>2, <1>3, <1>4, <1>5, <1>6, <1>7, <1>8, <1>9 DEF ServerNext

(* The clients' steps. *)
LEMMA EndsTypes ==
  ASSUME TypeInv, NEW c \in Conn,
         NEW reason \in {"none", "banned", "version", "disconnected"}, Ends(c, reason)
  PROVE  /\ phase' \in [Conn -> {"off", "meta", "run", "gone"}]
         /\ why' \in [Conn -> {"none", "banned", "version", "disconnected"}]
         /\ down' \in [Conn -> Seq(SoundMsg)] /\ down' \in [Conn -> Seq(DownMsg)]
BY DEF TypeInv, TypeOK, WireTypeOK, ClientTypeOK, NumberInv, Ends

(* Reading a message from the server's stream.                             *)
LEMMA TailTypes ==
  ASSUME TypeInv, NEW c \in Conn, down[c] # <<>>, down' = [down EXCEPT ![c] = Tail(@)]
  PROVE  /\ Head(down[c]) \in SoundMsg
         /\ down' \in [Conn -> Seq(SoundMsg)] /\ down' \in [Conn -> Seq(DownMsg)]
<1>1. down \in [Conn -> Seq(SoundMsg)]
  BY DEF TypeInv, NumberInv
<1>2. Head(down[c]) \in SoundMsg /\ Tail(down[c]) \in Seq(SoundMsg)
  BY <1>1
<1> QED BY <1>1, <1>2, SoundIsDown

(* A SYNC or COL keeps the types.                                          *)
LEMMA SendsTypes ==
  ASSUME TypeInv, NEW c \in Conn, NEW m \in UpMsg, Sends(c, m), UNCHANGED serverVars
  PROVE  TypeInv'
<1> USE DEF TypeInv, TypeOK, WireTypeOK, ClientTypeOK, NumberInv
<1>1. up' \in [Conn -> Seq(UpMsg)]
  BY DEF Sends
<1>2. ver' \in [Conn -> Ver]
  BY WireAssumption DEF Sends, Ver
<1>3. WireTypeOK' /\ NumberInv'
  BY <1>1 DEF Sends
<1>4. ClientTypeOK'
  BY <1>2 DEF Sends
<1>5. ServerTypeOK'
  BY DEF ServerTypeOK, serverVars
<1> QED BY <1>3, <1>4, <1>5

(* Every step of a client keeps the types and the numbers.                 *)
LEMMA ClientTypes ==
  ASSUME TypeInv, ClientNext, UNCHANGED serverVars
  PROVE  TypeInv'
<1> USE DEF TypeInv, TypeOK, WireTypeOK, ClientTypeOK, NumberInv
<1>0. ServerTypeOK'
  BY DEF ServerTypeOK, serverVars
<1>1. ASSUME NEW a \in Addr, RestartGame(a)
      PROVE  TypeInv'
  <2>1. EmptyGame \in [Slots -> Rec] /\ EmptyGame[0] = NoRec
    BY ZeroSlot DEF EmptyGame, NoRec, Rec
  <2>2. /\ rec' \in [Addr -> [Slots -> Rec]]
        /\ pos' \in [Addr -> [Slots -> Conn \cup {None}]]
        /\ \A b \in Addr : rec'[b][0] = NoRec /\ pos'[b][0] = None
    BY <1>1, <2>1, ZeroSlot DEF RestartGame
  <2>3. ClientTypeOK'
    BY <1>1, <2>2 DEF RestartGame
  <2>4. WireTypeOK' /\ NumberInv'
    BY <1>1, <2>2 DEF RestartGame
  <2> QED BY <1>0, <2>3, <2>4
<1>11. ASSUME NEW a \in Addr, NetInit(a)
       PROVE  TypeInv'
  BY <1>0, <1>11 DEF NetInit, wireVars
<1>2. ASSUME NEW c \in Conn, Start(c)
      PROVE  TypeInv'
  BY <1>0, <1>2 DEF Start
<1>3. ASSUME NEW c \in Conn, RecvMeta(c)
      PROVE  TypeInv'
  <2>1. /\ phase' \in [Conn -> {"off", "meta", "run", "gone"}]
        /\ why' \in [Conn -> {"none", "banned", "version", "disconnected"}]
        /\ down' \in [Conn -> Seq(SoundMsg)] /\ down' \in [Conn -> Seq(DownMsg)]
    <3>1. CASE Ends(c, "version")
      BY <3>1, EndsTypes
    <3>2. CASE /\ phase' = [phase EXCEPT ![c] = "run"] /\ down' = [down EXCEPT ![c] = Tail(@)]
               /\ UNCHANGED why
      BY <1>3, <3>2, TailTypes DEF RecvMeta
    <3> QED BY <1>3, <3>1, <3>2 DEF RecvMeta
  <2>2. ClientTypeOK'
    BY <1>3, <2>1 DEF RecvMeta
  <2>3. WireTypeOK' /\ NumberInv'
    BY <1>3, <2>1 DEF RecvMeta
  <2> QED BY <1>0, <2>2, <2>3
<1>4. ASSUME NEW c \in Conn, RecvTcp(c)
      PROVE  TypeInv'
  <2> DEFINE m == Head(down[c])
  <2>1. /\ phase' \in [Conn -> {"off", "meta", "run", "gone"}]
        /\ why' \in [Conn -> {"none", "banned", "version", "disconnected"}]
        /\ down' \in [Conn -> Seq(SoundMsg)] /\ down' \in [Conn -> Seq(DownMsg)]
    <3>1. CASE Ends(c, "banned")
      BY <3>1, EndsTypes
    <3>2. CASE down' = [down EXCEPT ![c] = Tail(@)] /\ UNCHANGED <<phase, why>>
      BY <1>4, <3>2, TailTypes DEF RecvTcp
    <3> QED BY <1>4, <3>1, <3>2 DEF RecvTcp
  <2>2. m \in SoundMsg
    <3>1. down[c] \in Seq(SoundMsg) /\ down[c] # <<>>
      BY <1>4 DEF RecvTcp
    <3> QED BY <3>1
  <2>3. m.t = "peer" =>
          /\ m.idx \in Slots \ {0}
          /\ [owner |-> m.owner, ver |-> m.ver, synced |-> m.synced] \in Rec
    BY <2>2 DEF SoundMsg, DownMsg, Control, PeerMsg, Rec
  <2>4. rec' = IF m.t = "peer"
                  THEN [rec EXCEPT ![AddrOf[c]][m.idx] =
                          [owner |-> m.owner, ver |-> m.ver, synced |-> m.synced]]
                  ELSE rec
    BY <1>4 DEF RecvTcp
  <2> HIDE DEF m
  <2>5. /\ rec' \in [Addr -> [Slots -> Rec]]
        /\ \A a \in Addr : rec'[a][0] = NoRec
    BY <2>3, <2>4, WireAssumption
  <2>6. pos' = pos /\ ver' = ver /\ udpDown' = udpDown
    BY <1>4 DEF RecvTcp
  <2>7. ClientTypeOK'
    <3>1. boot' \in SUBSET Addr /\ chr' \in [Addr -> SUBSET Slots]
      <4>1. /\ chr' = IF m.t = "peer" THEN [chr EXCEPT ![AddrOf[c]] = @ \cup {m.idx}] ELSE chr
            /\ boot' = IF m.t = "write" THEN boot \cup {AddrOf[c]} ELSE boot
        BY <1>4 DEF RecvTcp, m
      <4> QED BY <2>3, <4>1, WireAssumption
    <3> QED BY <2>1, <2>5, <2>6, <3>1
  <2>8. WireTypeOK' /\ NumberInv'
    BY <1>4, <2>1, <2>5, <2>6 DEF RecvTcp
  <2> QED BY <1>0, <2>7, <2>8
<1>5. ASSUME NEW c \in Conn, RecvEof(c)
      PROVE  TypeInv'
  <2>1. Ends(c, IF phase[c] = "meta" THEN "banned" ELSE "disconnected")
    BY <1>5 DEF RecvEof
  <2>2. /\ phase' \in [Conn -> {"off", "meta", "run", "gone"}]
        /\ why' \in [Conn -> {"none", "banned", "version", "disconnected"}]
        /\ down' \in [Conn -> Seq(SoundMsg)] /\ down' \in [Conn -> Seq(DownMsg)]
    BY <2>1, EndsTypes
  <2>3. ClientTypeOK'
    BY <1>5, <2>2 DEF RecvEof
  <2>4. WireTypeOK' /\ NumberInv'
    BY <1>5, <2>2 DEF RecvEof
  <2> QED BY <1>0, <2>3, <2>4
<1>6. ASSUME NEW c \in Conn, RecvUdp(c)
      PROVE  TypeInv'
  <2>1. PICK d \in udpDown :
          /\ d.to = AddrOf[c]
          /\ pos' = [pos EXCEPT ![d.to][d.idx] = d.owner]
          /\ udpDown' \in {udpDown, udpDown \ {d}}
    BY <1>6 DEF RecvUdp
  <2>2. d.to \in Addr /\ d.idx \in Slots \ {0} /\ d.owner \in Conn
    BY DEF Dgram
  <2>3. /\ pos' \in [Addr -> [Slots -> Conn \cup {None}]]
        /\ \A a \in Addr : pos'[a][0] = None
    BY <2>1, <2>2
  <2>4. ClientTypeOK'
    BY <1>6, <2>3 DEF RecvUdp
  <2>5. WireTypeOK' /\ NumberInv'
    BY <1>6, <2>1, <2>3 DEF RecvUdp
  <2> QED BY <1>0, <2>4, <2>5
<1>7. ASSUME NEW c \in Conn, SendSync(c)
      PROVE  TypeInv'
  <2>1. [cmd |-> "SYNC", ver |-> ver[c] + 1, col |-> 0, aim |-> None] \in UpMsg
    BY <1>7, WireAssumption, ZeroSlot DEF SendSync, Sends, UpMsg, Ver
  <2> QED BY <1>7, <2>1, SendsTypes DEF SendSync
<1>8. ASSUME NEW c \in Conn, NEW n \in Slots \ {0}, SendCol(c, n)
      PROVE  TypeInv'
  <2>1. rec[AddrOf[c]][n].owner \in Conn
    BY <1>8, WireAssumption DEF SendCol, Rec
  <2>2. [cmd |-> "COL", ver |-> ver[c] + 1, col |-> n, aim |-> rec[AddrOf[c]][n].owner] \in UpMsg
    BY <1>8, <2>1, WireAssumption DEF SendCol, Sends, UpMsg, Ver
  <2> QED BY <1>8, <2>2, SendsTypes DEF SendCol
<1>9. ASSUME NEW c \in Conn, SendUdp(c)
      PROVE  TypeInv'
  BY <1>0, <1>9 DEF SendUdp
<1>10. ASSUME NEW c \in Conn, Exit(c)
       PROVE  TypeInv'
  <2>1. /\ phase' \in [Conn -> {"off", "meta", "run", "gone"}]
        /\ why' \in [Conn -> {"none", "banned", "version", "disconnected"}]
        /\ down' \in [Conn -> Seq(SoundMsg)] /\ down' \in [Conn -> Seq(DownMsg)]
    BY <1>10, EndsTypes DEF Exit
  <2>2. ClientTypeOK'
    BY <1>10, <2>1 DEF Exit
  <2>3. WireTypeOK' /\ NumberInv'
    BY <1>10, <2>1 DEF Exit
  <2> QED BY <1>0, <2>2, <2>3
<1> QED
  BY <1>1, <1>2, <1>3, <1>4, <1>5, <1>6, <1>7, <1>8, <1>9, <1>10, <1>11 DEF ClientNext

(* The network's steps. *)
LEMMA NetworkTypes ==
  ASSUME TypeInv, NetworkStep
  PROVE  TypeInv'
<1> USE DEF TypeInv, TypeOK, WireTypeOK, NumberInv
<1>0. ServerTypeOK' /\ ClientTypeOK'
  BY DEF NetworkStep, ServerTypeOK, serverVars, ClientTypeOK, clientVars
<1>1. rec' = rec /\ pos' = pos
  BY DEF NetworkStep, clientVars
<1>2. CASE LoseDgram
  BY <1>0, <1>1, <1>2 DEF LoseDgram
<1>3. ASSUME NEW c \in Conn, CloseArrives(c)
      PROVE  TypeInv'
  <2>1. PICK n \in 0 .. Len(up[c]) : up' = [up EXCEPT ![c] = SubSeq(@, 1, n)]
    BY <1>3 DEF CloseArrives
  <2>2. SubSeq(up[c], 1, n) \in Seq(UpMsg)
    BY SubSeqProperties
  <2>3. up' \in [Conn -> Seq(UpMsg)]
    BY <2>1, <2>2
  <2>4. WireTypeOK' /\ NumberInv'
    BY <1>1, <1>3, <2>3 DEF CloseArrives
  <2> QED BY <1>0, <2>4
<1> QED BY <1>2, <1>3 DEF NetworkStep

(* The inductive invariant of the types: besides TypeOK it says that no    *)
(* message is numbered for record 0 and record 0 is never written, which   *)
(* is what keeps PeerIndex within the receiver's records.                  *)
THEOREM TypeInvariant == Spec => []TypeInv
<1>1. Init => TypeInv
  <2>1. EmptyGame \in [Slots -> Rec] /\ EmptyGame[0] = NoRec
    BY ZeroSlot DEF EmptyGame, NoRec, Rec
  <2>2. Init => ClientTypeOK /\ \A a \in Addr : rec[a][0] = NoRec /\ pos[a][0] = None
    BY <2>1, ZeroSlot, WireAssumption DEF Init, ClientInit, ClientTypeOK, Ver
  <2>3. Init => WireTypeOK
    BY DEF Init, WireInit, WireTypeOK
  <2>4. Init => ServerTypeOK
    BY DEF Init, ServerInit, ServerTypeOK, NoneReady
  <2>5. Init => down \in [Conn -> Seq(SoundMsg)] /\ udpDown = {}
    BY DEF Init, WireInit
  <2> QED BY <2>2, <2>3, <2>4, <2>5 DEF TypeInv, TypeOK, NumberInv
<1>2. TypeInv /\ [Next]_vars => TypeInv'
  <2> SUFFICES ASSUME TypeInv, [Next]_vars
               PROVE  TypeInv'
    OBVIOUS
  <2>1. CASE UNCHANGED vars
    BY <2>1 DEF vars, wireVars, serverVars, clientVars, TypeInv, TypeOK, WireTypeOK,
                ServerTypeOK, ClientTypeOK, NumberInv
  <2> QED
    BY <2>1, ServerTypes, ClientTypes, NetworkTypes DEF Next, ServerStep, ClientStep
<1> QED BY <1>1, <1>2, PTL DEF Spec

(* Every message, seat and record is what the programs take it for, for    *)
(* any number of slots, hosts and clients.                                 *)
THEOREM NetTypes == Spec => []TypeOK
<1>1. TypeInv => TypeOK
  BY DEF TypeInv
<1> QED BY <1>1, TypeInvariant, PTL

(* Nothing the server sends is aimed at record 0 of a game, and nothing is *)
(* written there (sm64net.py:173-174, 189-198).                            *)
THEOREM OwnRecordNeverTouched == Spec => []OwnRecordUntouched
<1>1. TypeInv => OwnRecordUntouched
  <2> SUFFICES ASSUME TypeInv
               PROVE  OwnRecordUntouched
    OBVIOUS
  <2>1. \A c \in Conn : \A k \in DOMAIN down[c] : down[c][k].t = "peer" => down[c][k].idx # 0
    <3> TAKE c \in Conn
    <3>1. down[c] \in Seq(SoundMsg)
      BY DEF TypeInv, NumberInv
    <3>2. \A k \in DOMAIN down[c] : down[c][k] \in SoundMsg
      BY <3>1
    <3> QED BY <3>2 DEF SoundMsg
  <2> QED BY <2>1 DEF TypeInv, NumberInv, OwnRecordUntouched
<1> QED BY <1>1, TypeInvariant, PTL

-----------------------------------------------------------------------------
(* Seats.  A socket is either in the listen queue, once, or in one slot.   *)
(* Of a host's runs that are waiting or seated, only the one that          *)
(* connected last may still be alive.                                      *)

QueueInv ==
  /\ \A k \in 1 .. Len(backlog) : sock[backlog[k]] = "backlog"
  /\ \A k, m \in 1 .. Len(backlog) : backlog[k] = backlog[m] => k = m
  /\ \A c \in Conn : phase[c] = "off" => sock[c] = "none"
  /\ \A c \in Conn : fin[c] => phase[c] = "gone"

HostInv ==
  /\ \A k, m \in 1 .. Len(backlog) :
       k < m /\ AddrOf[backlog[k]] = AddrOf[backlog[m]] => ~Alive(backlog[k])
  /\ \A s \in Slots : \A k \in 1 .. Len(backlog) :
       np_table[s] # None /\ AddrOf[np_table[s]] = AddrOf[backlog[k]] => ~Alive(np_table[s])

SeatInv == SeatedOnce /\ QueueInv /\ HostInv

(* A step that leaves the table, the queue and the sockets alone, and only *)
(* ends clients or advances them.                                          *)
Onward ==
  /\ UNCHANGED <<np_table, backlog, sock>>
  /\ \A c \in Conn : phase[c] = "off" <=> phase'[c] = "off"
  /\ \A c \in Conn : phase[c] = "gone" => phase'[c] = "gone"
  /\ \A c \in Conn : fin'[c] => phase[c] = "gone"

(* Steps that only end clients or advance them.                            *)
LEMMA OnwardKeepsSeats ==
  ASSUME TypeOK, SeatInv, Onward
  PROVE  SeatInv'
<1> USE DEF TypeOK, WireTypeOK, ServerTypeOK
<1>1. SeatedOnce'
  BY DEF SeatInv, SeatedOnce, Seated, Onward
<1>2. QueueInv'
  BY DEF SeatInv, QueueInv, Onward
<1>4. \A c \in Conn : ~Alive(c) => ~Alive(c)'
  <2> TAKE c \in Conn
  <2>1. phase[c] \in {"off", "meta", "run", "gone"}
    OBVIOUS
  <2> QED BY <2>1 DEF Onward, Alive
<1>5. \A k \in 1 .. Len(backlog) : backlog[k] \in Conn
  OBVIOUS
<1>6. \A s \in Slots : np_table[s] # None => np_table[s] \in Conn
  OBVIOUS
<1>7. HostInv'
  BY <1>4, <1>5, <1>6 DEF SeatInv, HostInv, Onward
<1> QED BY <1>1, <1>2, <1>7 DEF SeatInv

(* The head of the queue is accepted; what is left of it. *)
LEMMA AcceptFacts ==
  ASSUME TypeOK, SeatInv, NEW c \in Conn, Accepting(c)
  PROVE  /\ sock[c] = "backlog" /\ ~Seated(c) /\ phase[c] # "off"
         /\ phase' = phase /\ fin' = fin
         /\ \A k \in 1 .. Len(backlog') :
              /\ backlog'[k] \in Conn /\ backlog'[k] # c
              /\ sock[backlog'[k]] = "backlog"
              /\ AddrOf[c] = AddrOf[backlog'[k]] => ~Alive(c)
              /\ \A s \in Slots : np_table[s] # None /\ AddrOf[np_table[s]] = AddrOf[backlog'[k]]
                                  => ~Alive(np_table[s])
         /\ \A k, m \in 1 .. Len(backlog') :
              /\ backlog'[k] = backlog'[m] => k = m
              /\ k < m /\ AddrOf[backlog'[k]] = AddrOf[backlog'[m]] => ~Alive(backlog'[k])
<1>1. backlog \in Seq(Conn) /\ backlog # <<>> /\ c = Head(backlog) /\ backlog' = Tail(backlog)
  BY DEF TypeOK, WireTypeOK, Accepting
<1>2. 1 \in 1 .. Len(backlog) /\ backlog[1] = c
  BY <1>1
<1>3. \A k \in 1 .. Len(backlog') :
        k \in Nat /\ k + 1 \in 1 .. Len(backlog) /\ backlog'[k] = backlog[k + 1]
  BY <1>1
<1>4. QueueInv /\ HostInv /\ SeatedOnce
  BY DEF SeatInv
<1>5. \A k \in 1 .. Len(backlog) : backlog[k] \in Conn /\ sock[backlog[k]] = "backlog"
  BY <1>1, <1>4 DEF QueueInv
<1>6. sock[c] = "backlog" /\ ~Seated(c) /\ phase[c] # "off"
  BY <1>2, <1>4, <1>5 DEF SeatedOnce, QueueInv
<1>7. ASSUME NEW k \in 1 .. Len(backlog')
      PROVE  /\ backlog'[k] \in Conn /\ backlog'[k] # c
             /\ sock[backlog'[k]] = "backlog"
             /\ AddrOf[c] = AddrOf[backlog'[k]] => ~Alive(c)
             /\ \A s \in Slots : np_table[s] # None /\ AddrOf[np_table[s]] = AddrOf[backlog'[k]]
                                 => ~Alive(np_table[s])
  <2>1. k \in Nat /\ k + 1 \in 1 .. Len(backlog) /\ backlog'[k] = backlog[k + 1] /\ 1 < k + 1
    BY <1>3
  <2>2. backlog[k + 1] # backlog[1]
    BY <1>2, <1>4, <2>1 DEF QueueInv
  <2>3. AddrOf[backlog[1]] = AddrOf[backlog[k + 1]] => ~Alive(backlog[1])
    BY <1>2, <1>4, <2>1 DEF HostInv
  <2>4. \A s \in Slots : np_table[s] # None /\ AddrOf[np_table[s]] = AddrOf[backlog[k + 1]]
                         => ~Alive(np_table[s])
    BY <1>4, <2>1 DEF HostInv
  <2> QED BY <1>2, <1>5, <2>1, <2>2, <2>3, <2>4
<1>8. ASSUME NEW k \in 1 .. Len(backlog'), NEW m \in 1 .. Len(backlog')
      PROVE  /\ backlog'[k] = backlog'[m] => k = m
             /\ k < m /\ AddrOf[backlog'[k]] = AddrOf[backlog'[m]] => ~Alive(backlog'[k])
  <2>1. /\ k \in Nat /\ k + 1 \in 1 .. Len(backlog) /\ backlog'[k] = backlog[k + 1]
        /\ m \in Nat /\ m + 1 \in 1 .. Len(backlog) /\ backlog'[m] = backlog[m + 1]
    BY <1>3
  <2>2. backlog[k + 1] = backlog[m + 1] => k + 1 = m + 1
    BY <1>4, <2>1 DEF QueueInv
  <2>3. k + 1 < m + 1 /\ AddrOf[backlog[k + 1]] = AddrOf[backlog[m + 1]] => ~Alive(backlog[k + 1])
    BY <1>4, <2>1 DEF HostInv
  <2> QED BY <2>1, <2>2, <2>3
<1>9. phase' = phase /\ fin' = fin
  BY DEF Accepting
<1> QED BY <1>6, <1>7, <1>8, <1>9

(* Accepting, whatever becomes of the one accepted and of the one it       *)
(* replaces, keeps the queue; and so it does the seats, if its own is new. *)
LEMMA AcceptKeepsQueue ==
  ASSUME TypeOK, SeatInv, NEW c \in Conn, Accepting(c),
         \A d \in Conn : d # c /\ sock[d] \in {"none", "backlog"} => sock'[d] = sock[d],
         \A s \in Slots : np_table'[s] # None => np_table'[s] = np_table[s] \/ np_table'[s] = c
  PROVE  QueueInv' /\ HostInv'
<1>1. \A k \in 1 .. Len(backlog') : sock'[backlog'[k]] = "backlog"
  BY AcceptFacts
<1>2. \A k, m \in 1 .. Len(backlog') : backlog'[k] = backlog'[m] => k = m
  BY AcceptFacts
<1>3. \A d \in Conn : phase'[d] = "off" => sock'[d] = "none"
  BY AcceptFacts DEF SeatInv, QueueInv
<1>4. \A d \in Conn : fin'[d] => phase'[d] = "gone"
  BY AcceptFacts DEF SeatInv, QueueInv
<1>5. QueueInv'
  BY <1>1, <1>2, <1>3, <1>4 DEF QueueInv
<1>6. \A d : Alive(d)' = Alive(d)
  BY AcceptFacts DEF Alive
<1>7. \A k, m \in 1 .. Len(backlog') :
        k < m /\ AddrOf[backlog'[k]] = AddrOf[backlog'[m]] => ~Alive(backlog'[k])
  BY AcceptFacts
<1>8. \A s \in Slots : \A k \in 1 .. Len(backlog') :
        np_table'[s] # None /\ AddrOf[np_table'[s]] = AddrOf[backlog'[k]] => ~Alive(np_table'[s])
  BY AcceptFacts
<1>9. HostInv'
  BY <1>6, <1>7, <1>8 DEF HostInv
<1> QED BY <1>5, <1>9

(* A refused connection leaves the queue without a seat.                   *)
LEMMA RefuseKeepsSeats ==
  ASSUME TypeOK, SeatInv, NEW c \in Conn, Accepting(c),
         sock' = [sock EXCEPT ![c] = "closed"], UNCHANGED np_table
  PROVE  SeatInv'
<1>1. QueueInv' /\ HostInv'
  BY AcceptKeepsQueue DEF TypeOK, WireTypeOK
<1>2. ~Seated(c)
  BY AcceptFacts
<1>3. SeatedOnce'
  BY <1>2 DEF SeatInv, SeatedOnce, Seated, TypeOK, WireTypeOK
<1> QED BY <1>1, <1>3 DEF SeatInv

(* The slot taken was free or of the newcomer's host; whoever loses it     *)
(* loses the socket, and by HostInv is not running any more.               *)
LEMMA AdmitKeepsSeats ==
  ASSUME TypeOK, SeatInv, NEW c \in Conn, NEW i \in Slots, Admit(c, i)
  PROVE  SeatInv'
<1>1. Accepting(c) /\ np_table' = [np_table EXCEPT ![i] = c]
  BY DEF Admit
<1>2. sock' = [d \in Conn |-> IF d = c THEN "open"
                              ELSE IF d = np_table[i] THEN "closed" ELSE sock[d]]
  BY DEF Admit
<1>3. /\ np_table \in [Slots -> Conn \cup {None}]
      /\ sock \in [Conn -> {"none", "backlog", "open", "closed"}]
  BY DEF TypeOK, WireTypeOK, ServerTypeOK
<1>4. SeatedOnce
  BY DEF SeatInv
<1>5. QueueInv' /\ HostInv'
  <2>1. \A d \in Conn : d # c /\ sock[d] \in {"none", "backlog"} => sock'[d] = sock[d]
    BY <1>2, <1>4 DEF SeatedOnce, Seated
  <2>2. \A s \in Slots : np_table'[s] # None => np_table'[s] = np_table[s] \/ np_table'[s] = c
    BY <1>1, <1>3
  <2> QED BY <1>1, <2>1, <2>2, AcceptKeepsQueue
<1>6. SeatedOnce'
  <2>1. \A s \in Slots : np_table[s] # c
    BY <1>1, AcceptFacts DEF Seated
  <2>2. \A s, r \in Slots : np_table'[s] = np_table'[r] /\ np_table'[s] # None => s = r
    BY <1>1, <1>3, <1>4, <2>1 DEF SeatedOnce
  <2>3. ASSUME NEW d \in Conn
        PROVE  sock'[d] = "open" <=> \E s \in Slots : np_table'[s] = d
    <3>1. d # None
      BY WireAssumption
    <3>2. CASE d = c
      BY <1>1, <1>2, <1>3, <3>2
    <3>3. CASE d # c /\ d = np_table[i]
      BY <1>1, <1>2, <1>3, <1>4, <3>1, <3>3 DEF SeatedOnce
    <3>4. CASE d # c /\ d # np_table[i]
      BY <1>1, <1>2, <1>3, <1>4, <3>4 DEF SeatedOnce, Seated
    <3> QED BY <3>2, <3>3, <3>4
  <2> QED BY <2>2, <2>3 DEF SeatedOnce, Seated
<1> QED BY <1>5, <1>6 DEF SeatInv

(* A player who left gives up slot and socket together.                    *)
LEMMA LeaveKeepsSeats ==
  ASSUME TypeOK, SeatInv, NEW s \in Slots, Leave(s)
  PROVE  SeatInv'
<1>1. /\ np_table \in [Slots -> Conn \cup {None}]
      /\ sock \in [Conn -> {"none", "backlog", "open", "closed"}]
      /\ backlog \in Seq(Conn)
  BY DEF TypeOK, WireTypeOK, ServerTypeOK
<1>2. /\ np_table[s] = rdSock[s] /\ np_table[s] \in Conn
      /\ np_table' = [np_table EXCEPT ![s] = None]
      /\ sock' = [sock EXCEPT ![np_table[s]] = "closed"]
      /\ backlog' = backlog /\ phase' = phase /\ fin' = fin
  BY <1>1 DEF Leave, Serving
<1>3. SeatedOnce
  BY DEF SeatInv
<1>4. SeatedOnce'
  BY <1>1, <1>2, <1>3, WireAssumption DEF SeatedOnce, Seated
<1>5. \A c \in Conn : sock[c] # "open" => sock'[c] = sock[c]
  BY <1>1, <1>2, <1>3 DEF SeatedOnce, Seated
<1>6. QueueInv'
  <2>1. sock[np_table[s]] = "open"
    BY <1>2, <1>3 DEF SeatedOnce, Seated
  <2>2. \A k \in 1 .. Len(backlog) : backlog[k] \in Conn
    BY <1>1
  <2>3. phase[np_table[s]] # "off"
    BY <1>2, <2>1 DEF SeatInv, QueueInv
  <2> QED BY <1>2, <1>5, <2>2, <2>3 DEF SeatInv, QueueInv
<1>7. HostInv'
  BY <1>1, <1>2 DEF SeatInv, HostInv, Alive
<1> QED BY <1>4, <1>6, <1>7 DEF SeatInv

(* A new client is at the end of the queue, and every older one of its     *)
(* host, queued or seated, has ended.                                      *)
LEMMA StartKeepsSeats ==
  ASSUME TypeOK, SeatInv, NEW c \in Conn, Start(c), UNCHANGED serverVars
  PROVE  SeatInv'
<1>1. /\ np_table \in [Slots -> Conn \cup {None}]
      /\ sock \in [Conn -> {"none", "backlog", "open", "closed"}]
      /\ phase \in [Conn -> {"off", "meta", "run", "gone"}]
      /\ backlog \in Seq(Conn)
  BY DEF TypeOK, WireTypeOK, ServerTypeOK
<1>2. /\ phase[c] = "off" /\ phase' = [phase EXCEPT ![c] = "meta"]
      /\ sock' = [sock EXCEPT ![c] = "backlog"]
      /\ backlog' = Append(backlog, c) /\ fin' = fin /\ np_table' = np_table
      /\ \A d \in Conn : AddrOf[d] = AddrOf[c] => ~Alive(d)
  BY DEF Start, serverVars
<1>3. sock[c] = "none" /\ ~fin[c]
  BY <1>2 DEF SeatInv, QueueInv
<1>4. ~Seated(c)
  BY <1>3 DEF SeatInv, SeatedOnce
<1>5. \A k \in 1 .. Len(backlog) : backlog[k] \in Conn /\ backlog[k] # c
  BY <1>1, <1>3 DEF SeatInv, QueueInv
<1>6. /\ Len(backlog) \in Nat /\ Len(backlog') = Len(backlog) + 1
      /\ \A k \in 1 .. Len(backlog') :
           backlog'[k] = IF k = Len(backlog) + 1 THEN c ELSE backlog[k]
  BY <1>1, <1>2
<1>7. \A d \in Conn : d # c => (Alive(d)' <=> Alive(d))
  BY <1>1, <1>2 DEF Alive
<1>8. SeatedOnce'
  BY <1>1, <1>2, <1>4 DEF SeatInv, SeatedOnce, Seated
<1>9. QueueInv'
  <2>1. \A k \in 1 .. Len(backlog') : sock'[backlog'[k]] = "backlog"
    <3> TAKE k \in 1 .. Len(backlog')
    <3>1. CASE k = Len(backlog) + 1
      BY <1>1, <1>2, <1>6, <3>1
    <3>2. CASE k \in 1 .. Len(backlog)
      BY <1>1, <1>2, <1>5, <1>6, <3>2 DEF SeatInv, QueueInv
    <3> QED BY <1>6, <3>1, <3>2
  <2>2. \A k, m \in 1 .. Len(backlog') : backlog'[k] = backlog'[m] => k = m
    <3> TAKE k, m \in 1 .. Len(backlog')
    <3>1. CASE k \in 1 .. Len(backlog) /\ m \in 1 .. Len(backlog)
      BY <1>6, <3>1 DEF SeatInv, QueueInv
    <3>2. CASE k = Len(backlog) + 1 \/ m = Len(backlog) + 1
      BY <1>5, <1>6, <3>2
    <3> QED BY <1>6, <3>1, <3>2
  <2>3. \A d \in Conn : phase'[d] = "off" => sock'[d] = "none"
    BY <1>1, <1>2 DEF SeatInv, QueueInv
  <2>4. \A d \in Conn : fin'[d] => phase'[d] = "gone"
    BY <1>1, <1>2, <1>3 DEF SeatInv, QueueInv
  <2> QED BY <2>1, <2>2, <2>3, <2>4 DEF QueueInv
<1>10. HostInv'
  <2>1. ASSUME NEW k \in 1 .. Len(backlog'), NEW m \in 1 .. Len(backlog'), k < m,
               AddrOf[backlog'[k]] = AddrOf[backlog'[m]]
        PROVE  phase'[backlog'[k]] \notin {"meta", "run"}
    <3>1. /\ k \in 1 .. Len(backlog) /\ backlog'[k] = backlog[k]
          /\ backlog[k] \in Conn /\ backlog[k] # c
      BY <1>5, <1>6, <2>1
    <3>2. ~Alive(backlog[k])
      <4>1. CASE m \in 1 .. Len(backlog)
        BY <1>6, <2>1, <3>1, <4>1 DEF SeatInv, HostInv
      <4>2. CASE m = Len(backlog) + 1
        BY <1>2, <1>6, <2>1, <3>1, <4>2
      <4> QED BY <1>6, <4>1, <4>2
    <3> QED BY <1>7, <3>1, <3>2 DEF Alive
  <2>2. ASSUME NEW s \in Slots, NEW k \in 1 .. Len(backlog'), np_table'[s] # None,
               AddrOf[np_table'[s]] = AddrOf[backlog'[k]]
        PROVE  phase'[np_table'[s]] \notin {"meta", "run"}
    <3>1. np_table'[s] = np_table[s] /\ np_table[s] \in Conn /\ np_table[s] # c
      BY <1>1, <1>2, <1>4, <2>2 DEF Seated
    <3>2. ~Alive(np_table[s])
      <4>1. CASE k \in 1 .. Len(backlog)
        BY <1>6, <2>2, <3>1, <4>1 DEF SeatInv, HostInv
      <4>2. CASE k = Len(backlog) + 1
        BY <1>2, <1>6, <2>2, <3>1, <4>2
      <4> QED BY <1>6, <4>1, <4>2
    <3> QED BY <1>7, <3>1, <3>2 DEF Alive
  <2> QED BY <2>1, <2>2 DEF HostInv, Alive
<1> QED BY <1>8, <1>9, <1>10 DEF SeatInv

(* All other steps leave table, queue and sockets alone. *)
LEMMA OtherStepsOnward ==
  ASSUME TypeOK, SeatInv, [Next]_vars
  PROVE  \/ \E c \in Conn :
              Accepting(c) /\ sock' = [sock EXCEPT ![c] = "closed"] /\ UNCHANGED np_table
         \/ \E c \in Conn : \E i \in Slots : Admit(c, i)
         \/ \E s \in Slots : Leave(s)
         \/ \E c \in Conn : Start(c) /\ UNCHANGED serverVars
         \/ Onward
<1>1. phase \in [Conn -> {"off", "meta", "run", "gone"}] /\ fin \in [Conn -> BOOLEAN]
  BY DEF TypeOK, WireTypeOK
<1>2. \A c \in Conn : fin[c] => phase[c] = "gone"
  BY DEF SeatInv, QueueInv
<1>3. CASE UNCHANGED <<np_table, backlog, sock, phase, fin>>
  BY <1>2, <1>3 DEF Onward
<1>4. CASE ServerStep
  <2>1. ASSUME NEW c \in Conn, RefuseBanned(c) \/ RefuseFull(c)
        PROVE  Accepting(c) /\ sock' = [sock EXCEPT ![c] = "closed"] /\ UNCHANGED np_table
    BY <2>1 DEF RefuseBanned, RefuseFull
  <2>2. CASE Select \/ ServeDgram
    BY <1>3, <2>2 DEF Select, ServeDgram
  <2>3. ASSUME NEW s \in Slots, CmdSync(s) \/ CmdCol(s) \/ Stray(s)
        PROVE  UNCHANGED <<np_table, backlog, sock, phase, fin>>
    BY <2>3 DEF CmdSync, CmdCol, Stray, Serving
  <2> QED BY <1>3, <1>4, <2>1, <2>2, <2>3 DEF ServerStep, ServerNext
<1>5. CASE ClientStep
  <2>1. UNCHANGED serverVars /\ np_table' = np_table
    BY <1>5 DEF ClientStep, serverVars
  <2>2. ASSUME NEW a \in Addr, RestartGame(a) \/ NetInit(a)
        PROVE  UNCHANGED <<backlog, sock, phase, fin>>
    BY <2>2 DEF RestartGame, NetInit, wireVars
  <2>3. ASSUME NEW c \in Conn, NEW reason, Alive(c), Ends(c, reason),
               UNCHANGED <<backlog, sock, fin>>
        PROVE  Onward
    BY <1>1, <1>2, <2>1, <2>3 DEF Ends, Onward, Alive
  <2>4. ASSUME NEW c \in Conn, RecvMeta(c)
        PROVE  Onward
    <3>1. CASE phase' = [phase EXCEPT ![c] = "run"]
      BY <1>1, <1>2, <2>1, <2>4, <3>1 DEF RecvMeta, Onward
    <3>2. CASE Ends(c, "version")
      BY <2>3, <2>4, <3>2 DEF RecvMeta, Alive
    <3> QED BY <2>4, <3>1, <3>2 DEF RecvMeta
  <2>5. ASSUME NEW c \in Conn, RecvTcp(c)
        PROVE  Onward
    <3>1. CASE Ends(c, "banned")
      BY <2>3, <2>5, <3>1 DEF RecvTcp, Alive
    <3>2. CASE UNCHANGED <<phase, why>>
      BY <1>3, <2>1, <2>5, <3>2, <1>2 DEF RecvTcp, Onward
    <3> QED BY <2>5, <3>1, <3>2 DEF RecvTcp
  <2>6. ASSUME NEW c \in Conn, RecvEof(c)
        PROVE  Onward
    BY <2>3, <2>6 DEF RecvEof
  <2>7. ASSUME NEW c \in Conn, Exit(c)
        PROVE  Onward
    BY <2>3, <2>7 DEF Exit
  <2>8. ASSUME NEW c \in Conn,
               RecvUdp(c) \/ SendUdp(c) \/ SendSync(c) \/ (\E n \in Slots \ {0} : SendCol(c, n))
        PROVE  UNCHANGED <<backlog, sock, phase, fin>>
    BY <2>8 DEF RecvUdp, SendUdp, SendSync, SendCol, Sends
  <2> QED BY <1>3, <1>5, <2>1, <2>2, <2>4, <2>5, <2>6, <2>7, <2>8 DEF ClientStep, ClientNext
<1>6. CASE NetworkStep
  <2>1. np_table' = np_table
    BY <1>6 DEF NetworkStep, serverVars
  <2>2. CASE LoseDgram
    BY <1>3, <2>1, <2>2 DEF LoseDgram
  <2>3. ASSUME NEW c \in Conn, CloseArrives(c)
        PROVE  Onward
    BY <1>1, <1>2, <2>1, <2>3 DEF CloseArrives, Onward
  <2> QED BY <1>6, <2>2, <2>3 DEF NetworkStep
<1>7. CASE UNCHANGED vars
  BY <1>3, <1>7 DEF vars, wireVars, serverVars
<1> QED BY <1>4, <1>5, <1>6, <1>7 DEF Next

(* The inductive invariant of the table, the queue and the sockets. *)
THEOREM SeatInvariant == Spec => []SeatInv
<1>1. Init => SeatInv
  BY WireAssumption DEF Init, WireInit, ServerInit, SeatInv, SeatedOnce, QueueInv, HostInv, Seated
<1>2. TypeOK /\ SeatInv /\ [Next]_vars => SeatInv'
  BY OtherStepsOnward, RefuseKeepsSeats, AdmitKeepsSeats, LeaveKeepsSeats, StartKeepsSeats,
     OnwardKeepsSeats
<1>3. TypeInv => TypeOK
  BY DEF TypeInv
<1> QED BY <1>1, <1>2, <1>3, TypeInvariant, PTL DEF Spec

(* One seat for a connection, and open sockets for the seated only.        *)
THEOREM OneSeatEach == Spec => []SeatedOnce
<1>1. SeatInv => SeatedOnce
  BY DEF SeatInv
<1> QED BY <1>1, SeatInvariant, PTL

(* Nobody who is still there loses her seat, to a newcomer or to an end of *)
(* stream (server.py:57-61, 80-85): one who connects from the host of a    *)
(* seated client connected after that client had ended.                    *)
THEOREM SeatsOfTheLivingKept == Spec => LiveSeatKept
<1>1. TypeOK /\ SeatInv /\ [Next]_vars =>
        \A s \in Slots : np_table[s] # None /\ Alive(np_table[s]) => np_table'[s] = np_table[s]
  <2> SUFFICES ASSUME TypeOK, SeatInv, [Next]_vars, NEW s \in Slots,
                      np_table[s] # None, Alive(np_table[s])
               PROVE  np_table'[s] = np_table[s]
    OBVIOUS
  <2>0. np_table \in [Slots -> Conn \cup {None}] /\ backlog \in Seq(Conn)
    BY DEF TypeOK, ServerTypeOK, WireTypeOK
  <2>1. ASSUME NEW c \in Conn, NEW i \in Slots, Admit(c, i)
        PROVE  np_table'[s] = np_table[s]
    <3>1. c = backlog[1] /\ 1 \in 1 .. Len(backlog)
      BY <2>0, <2>1 DEF Admit, Accepting
    <3>2. AddrOf[np_table[s]] # AddrOf[c]
      BY <3>1 DEF SeatInv, HostInv
    <3>3. s # i
      BY <2>1, <3>2 DEF Admit, Admits
    <3> QED BY <2>0, <2>1, <3>3 DEF Admit
  <2>2. ASSUME NEW r \in Slots, Leave(r)
        PROVE  np_table'[s] = np_table[s]
    <3>1. phase[np_table[r]] = "gone"
      BY <2>0, <2>2 DEF Leave, Serving, SeatInv, QueueInv
    <3>2. s # r
      BY <3>1 DEF Alive
    <3> QED BY <2>0, <2>2, <3>2 DEF Leave
  <2>3. CASE UNCHANGED np_table
    BY <2>3
  <2> QED BY <2>1, <2>2, <2>3, OtherStepsOnward DEF Onward, serverVars
<1>2. TypeInv => TypeOK
  BY DEF TypeInv
<1> QED BY <1>1, <1>2, TypeInvariant, SeatInvariant, PTL DEF Spec, LiveSeatKept

-----------------------------------------------------------------------------
(* Whatever is on its way from one player to the game of another, or has   *)
(* arrived there, is numbered as their seats say as long as both have one. *)

(* Something of player d may be in, or on its way to, record n of the game *)
(* of c: both have been seated, they are not the same, and if both still   *)
(* are, n is the number of one seat seen from the other.                   *)
Fits(c, d, n) ==
  /\ c # d
  /\ sock[c] \in {"open", "closed"}
  /\ sock[d] \in {"open", "closed"}
  /\ \A i, j \in Slots : np_table[i] = c /\ np_table[j] = d => n = PeerIndex(i, j)

RecFits ==
  \A c \in Conn : \A n \in Slots :
    rec[AddrOf[c]][n].owner # None => Fits(c, rec[AddrOf[c]][n].owner, n)

PosFits ==
  \A c \in Conn : \A n \in Slots :
    pos[AddrOf[c]][n] # None => Fits(c, pos[AddrOf[c]][n], n)

MsgFits(c, m) == m.t = "peer" => Fits(c, m.owner, m.idx)

DownFits == \A c \in Conn : \A k \in 1 .. Len(down[c]) : MsgFits(c, down[c][k])

DgramFits == \A c \in Conn : \A g \in udpDown : g.to = AddrOf[c] => Fits(c, g.owner, g.idx)

ColFits ==
  \A c \in Conn : \A k \in 1 .. Len(up[c]) :
    up[c][k].cmd = "COL" => up[c][k].aim # None /\ Fits(c, up[c][k].aim, up[c][k].col)

GhostInv == RecFits /\ PosFits /\ DownFits /\ DgramFits /\ ColFits

-----------------------------------------------------------------------------
(* What is left of a sequence, and what is put behind it. *)

(* The tail of a sequence holds its elements from the second on. *)
LEMMA TailElements ==
  ASSUME NEW S, NEW q \in Seq(S), q # <<>>
  PROVE  /\ Len(q) \in Nat /\ 1 \in 1 .. Len(q) /\ Head(q) = q[1]
         /\ Tail(q) \in Seq(S) /\ Len(Tail(q)) = Len(q) - 1
         /\ \A k \in 1 .. Len(Tail(q)) : k + 1 \in 1 .. Len(q) /\ Tail(q)[k] = q[k + 1]
OBVIOUS

(* Append keeps the elements there are and adds one at the end. *)
LEMMA AppendElements ==
  ASSUME NEW S, NEW q \in Seq(S), NEW x
  PROVE  /\ Len(q) \in Nat /\ Len(Append(q, x)) = Len(q) + 1
         /\ \A k \in 1 .. Len(q) : Append(q, x)[k] = q[k]
         /\ Append(q, x)[Len(q) + 1] = x
         /\ \A k \in 1 .. Len(Append(q, x)) : k \in 1 .. Len(q) \/ k = Len(q) + 1
OBVIOUS

(* The elements of two sequences put together. *)
LEMMA ConcatElements ==
  ASSUME NEW S, NEW p \in Seq(S), NEW q \in Seq(S)
  PROVE  /\ Len(p) \in Nat /\ Len(q) \in Nat /\ Len(p \o q) = Len(p) + Len(q)
         /\ \A k \in 1 .. Len(p) : (p \o q)[k] = p[k]
         /\ \A k \in 1 .. Len(q) : (p \o q)[Len(p) + k] = q[k]
<1>1. Len(p) \in Nat /\ Len(q) \in Nat
  OBVIOUS
<1>2. Len(p \o q) = Len(p) + Len(q)
  BY ConcatProperties
<1>3. \A k \in 1 .. Len(p) + Len(q) :
        (p \o q)[k] = IF k <= Len(p) THEN p[k] ELSE q[k - Len(p)]
  BY ConcatProperties
<1>4. ASSUME NEW k \in 1 .. Len(q)
      PROVE  (p \o q)[Len(p) + k] = q[k]
  <2>1. Len(p) + k \in 1 .. Len(p) + Len(q) /\ ~(Len(p) + k <= Len(p)) /\ Len(p) + k - Len(p) = k
    BY <1>1
  <2> QED BY <1>3, <2>1
<1>5. \A k \in 1 .. Len(p) : (p \o q)[k] = p[k]
  BY <1>1, <1>3
<1> QED BY <1>1, <1>2, <1>4, <1>5

-----------------------------------------------------------------------------
(* Seats are taken from the queue and given up for good. *)

(* A connection that was accepted stays so; closed is closed, and nobody   *)
(* takes a second seat.                                                    *)
LEMMA SeatsOnward ==
  ASSUME TypeOK, SeatInv, [Next]_vars, NEW c \in Conn, sock[c] \in {"open", "closed"}
  PROVE  /\ sock'[c] \in {"open", "closed"}
         /\ sock[c] = "closed" => sock'[c] = "closed"
         /\ \A i \in Slots : np_table'[i] = c => np_table[i] = c
<1>1. /\ np_table \in [Slots -> Conn \cup {None}]
      /\ sock \in [Conn -> {"none", "backlog", "open", "closed"}]
  BY DEF TypeOK, WireTypeOK, ServerTypeOK
<1>2. c # None
  BY WireAssumption
<1>3. ASSUME NEW d \in Conn, Accepting(d)
      PROVE  d # c
  BY <1>3, AcceptFacts
<1>4. ASSUME NEW d \in Conn, Accepting(d), sock' = [sock EXCEPT ![d] = "closed"], UNCHANGED np_table
      PROVE  sock'[c] = sock[c] /\ np_table' = np_table
  BY <1>1, <1>3, <1>4
<1>5. ASSUME NEW d \in Conn, NEW i \in Slots, Admit(d, i)
      PROVE  /\ sock'[c] \in {sock[c], "closed"}
             /\ \A j \in Slots : np_table'[j] = c => np_table[j] = c
  BY <1>1, <1>3, <1>5 DEF Admit
<1>6. ASSUME NEW s \in Slots, Leave(s)
      PROVE  /\ sock'[c] \in {sock[c], "closed"}
             /\ \A j \in Slots : np_table'[j] = c => np_table[j] = c
  BY <1>1, <1>2, <1>6 DEF Leave
<1>7. ASSUME NEW d \in Conn, Start(d), UNCHANGED serverVars
      PROVE  sock'[c] = sock[c] /\ np_table' = np_table
  BY <1>1, <1>7 DEF Start, serverVars, SeatInv, QueueInv
<1>8. CASE Onward
  BY <1>8 DEF Onward
<1> QED BY <1>4, <1>5, <1>6, <1>7, <1>8, OtherStepsOnward

(* What is numbered right stays numbered right: the seats can only go. *)
LEMMA FitsKept ==
  ASSUME TypeOK, SeatInv, [Next]_vars, NEW c \in Conn, NEW d \in Conn, NEW n, Fits(c, d, n)
  PROVE  Fits(c, d, n)'
BY SeatsOnward DEF Fits

(* Two players who have a seat each are numbered by their seats. *)
LEMMA SeatedFit ==
  ASSUME TypeOK, SeatInv, NEW i \in Slots, NEW j \in Slots, i # j,
         np_table[i] # None, np_table[j] # None
  PROVE  /\ np_table[i] \in Conn /\ np_table[j] \in Conn
         /\ Fits(np_table[i], np_table[j], PeerIndex(i, j))
BY DEF TypeOK, ServerTypeOK, SeatInv, SeatedOnce, Seated, Fits

(* The same in the next state, for a player who just took her seat. *)
LEMMA AdmittedFits ==
  ASSUME TypeOK, SeatInv, NEW c \in Conn, NEW i \in Slots, Admit(c, i),
         NEW j \in Slots, j # i, NEW o, np_table[j] = o, o # None
  PROVE  o \in Conn /\ Fits(c, o, PeerIndex(i, j))'
<1>1. SeatInv'
  BY AdmitKeepsSeats
<1>2. np_table \in [Slots -> Conn \cup {None}] /\ np_table' = [np_table EXCEPT ![i] = c]
  BY DEF TypeOK, ServerTypeOK, Admit
<1>3. o \in Conn /\ np_table'[j] = o /\ np_table'[i] = c
  BY <1>2
<1>4. c # o
  BY <1>1, <1>3 DEF SeatInv, SeatedOnce
<1>5. sock'[c] = "open" /\ sock'[o] = "open"
  BY <1>1, <1>3 DEF SeatInv, SeatedOnce, Seated
<1>6. \A s, r \in Slots : np_table'[s] = c /\ np_table'[r] = o => s = i /\ r = j
  BY <1>1, <1>3, WireAssumption DEF SeatInv, SeatedOnce
<1> QED BY <1>3, <1>4, <1>5, <1>6 DEF Fits

-----------------------------------------------------------------------------
(* Who changes what. *)

(* A game's records are written by its client and cleared by a restart. *)
LEMMA GameWrites ==
  ASSUME [Next]_vars
  PROVE  /\ UNCHANGED rec \/ (\E a \in Addr : RestartGame(a)) \/ (\E c \in Conn : RecvTcp(c))
         /\ UNCHANGED pos \/ (\E a \in Addr : RestartGame(a)) \/ (\E c \in Conn : RecvUdp(c))
<1>1. CASE ClientStep
  BY <1>1 DEF ClientStep, ClientNext, NetInit, Start, RecvMeta, RecvTcp, RecvEof, RecvUdp, SendSync,
              SendCol, Sends, SendUdp, Exit
<1>2. CASE ServerStep \/ NetworkStep \/ UNCHANGED vars
  BY <1>2 DEF ServerStep, NetworkStep, vars, clientVars
<1> QED BY <1>1, <1>2 DEF Next

(* Datagrams for the clients come from the server's datagram step only. *)
LEMMA DgramWrites ==
  ASSUME [Next]_vars
  PROVE  udpDown' \subseteq udpDown \/ ServeDgram
<1>1. CASE ServerStep
  BY <1>1 DEF ServerStep, ServerNext, Select, RefuseBanned, RefuseFull, Admit, Accepting,
              CmdSync, CmdCol, Leave, Stray, Serving
<1>2. CASE ClientStep
  BY <1>2 DEF ClientStep, ClientNext, RestartGame, NetInit, wireVars, Start, RecvMeta, RecvTcp,
              RecvEof, RecvUdp,
              SendSync, SendCol, Sends, SendUdp, Exit
<1>3. CASE NetworkStep
  BY <1>3 DEF NetworkStep, LoseDgram, CloseArrives
<1>4. CASE UNCHANGED vars
  BY <1>4 DEF vars, wireVars
<1> QED BY <1>1, <1>2, <1>3, <1>4 DEF Next

(* A client's stream to the server grows by what it sends, is read from    *)
(* the front, and may be cut short by the end of its connection.           *)
LEMMA UpWrites ==
  ASSUME TypeOK, [Next]_vars
  PROVE  \/ UNCHANGED up
         \/ \E c \in Conn : SendSync(c) \/ (\E n \in Slots \ {0} : SendCol(c, n))
         \/ \E c \in Conn : Received(c)
         \/ \E c \in Conn : CloseArrives(c)
<1>1. CASE ServerStep
  <2>1. \A s \in Slots : rdSock[s] # None => rdSock[s] \in Conn
    BY DEF TypeOK, ServerTypeOK
  <2>2. ASSUME NEW s \in Slots, CmdSync(s) \/ CmdCol(s) \/ Stray(s)
        PROVE  UNCHANGED up \/ \E c \in Conn : Received(c)
    BY <2>1, <2>2 DEF CmdSync, CmdCol, Stray, Serving
  <2> QED BY <1>1, <2>2 DEF ServerStep, ServerNext, Select, ServeDgram, RefuseBanned,
                            RefuseFull, Admit, Accepting, Leave
<1>2. CASE ClientStep
  BY <1>2 DEF ClientStep, ClientNext, RestartGame, NetInit, wireVars, Start, RecvMeta, RecvTcp,
              RecvEof, RecvUdp,
              SendSync, SendCol, SendUdp, Exit
<1>3. CASE NetworkStep
  BY <1>3 DEF NetworkStep, LoseDgram
<1>4. CASE UNCHANGED vars
  BY <1>4 DEF vars, wireVars
<1> QED BY <1>1, <1>2, <1>3, <1>4 DEF Next

(* The stream to a client grows by a notice, a welcome or what is          *)
(* forwarded, and is read from the front or dropped with the client.       *)
DownRead(c) == down[c] # <<>> /\ down' = [down EXCEPT ![c] = Tail(@)]
DownDropped(c) == down' = [down EXCEPT ![c] = <<>>]
DownNotice(c) == Alive(c) /\ down' = [down EXCEPT ![c] = Append(@, Ctl("ban"))]

(* Which steps write to the streams to the clients.                         *)
LEMMA DownWrites ==
  ASSUME [Next]_vars
  PROVE  \/ UNCHANGED down
         \/ \E c \in Conn : DownRead(c) \/ DownDropped(c) \/ DownNotice(c)
         \/ \E c \in Conn : \E i \in Slots : Admit(c, i)
         \/ \E s \in Slots : CmdSync(s) \/ CmdCol(s)
<1>1. CASE ServerStep
  BY <1>1 DEF ServerStep, ServerNext, Select, ServeDgram, RefuseBanned, RefuseFull,
              Leave, Stray, DownNotice
<1>2. CASE ClientStep
  BY <1>2 DEF ClientStep, ClientNext, RestartGame, NetInit, wireVars, Start, RecvMeta, RecvTcp,
              RecvEof, RecvUdp,
              SendSync, SendCol, Sends, SendUdp, Exit, Ends, DownRead, DownDropped
<1>3. CASE NetworkStep
  BY <1>3 DEF NetworkStep, LoseDgram, CloseArrives
<1>4. CASE UNCHANGED vars
  BY <1>4 DEF vars, wireVars
<1> QED BY <1>1, <1>2, <1>3, <1>4 DEF Next

-----------------------------------------------------------------------------
(* Each place where somebody's data can be. *)

(* The records: a message read was rightly numbered. *)
LEMMA RecFitsKept ==
  ASSUME TypeOK, SeatInv, OneRunPerHost, GhostInv, [Next]_vars
  PROVE  RecFits'
<1>1. /\ rec \in [Addr -> [Slots -> Rec]] /\ down \in [Conn -> Seq(DownMsg)]
      /\ AddrOf \in [Conn -> Addr]
  BY WireAssumption DEF TypeOK, WireTypeOK, ClientTypeOK
<1> SUFFICES ASSUME NEW c \in Conn, NEW n \in Slots, NEW o, o # None,
                    rec'[AddrOf[c]][n].owner = o
             PROVE  Fits(c, o, n)'
  BY DEF RecFits
<1>2. CASE rec'[AddrOf[c]][n] = rec[AddrOf[c]][n]
  <2>1. o \in Conn
    BY <1>1, <1>2 DEF Rec
  <2>2. Fits(c, o, n)
    BY <1>2 DEF GhostInv, RecFits
  <2> QED BY <2>1, <2>2, FitsKept
<1>3. ASSUME NEW a \in Addr, RestartGame(a)
      PROVE  rec'[AddrOf[c]][n] = rec[AddrOf[c]][n]
  BY <1>1, <1>3 DEF RestartGame, EmptyGame, NoRec
<1>4. ASSUME NEW d \in Conn, RecvTcp(d), rec'[AddrOf[c]][n] # rec[AddrOf[c]][n]
      PROVE  Fits(c, o, n)'
  <2> DEFINE m == Head(down[d])
  <2>1. m = down[d][1] /\ 1 \in 1 .. Len(down[d]) /\ m \in DownMsg
    BY <1>1, <1>4 DEF RecvTcp
  <2>2. /\ m.t = "peer"
        /\ rec' = [rec EXCEPT ![AddrOf[d]][m.idx] =
                     [owner |-> m.owner, ver |-> m.ver, synced |-> m.synced]]
    BY <1>4 DEF RecvTcp
  <2>3. m.idx \in Slots /\ m.owner \in Conn
    BY <2>1, <2>2 DEF DownMsg, Control, PeerMsg
  <2>4. MsgFits(d, m)
    BY <2>1 DEF GhostInv, DownFits
  <2>5. Fits(d, m.owner, m.idx)
    BY <2>2, <2>4 DEF MsgFits
  <2>6. AddrOf[c] = AddrOf[d] /\ n = m.idx /\ m.owner = o
    <3> HIDE DEF m
    <3> QED BY <1>1, <1>4, <2>2, <2>3
  <2>7. c = d
    BY <2>6 DEF OneRunPerHost
  <2> QED BY <2>3, <2>5, <2>6, <2>7, FitsKept
<1> QED BY <1>2, <1>3, <1>4, GameWrites

(* The positions: a datagram read was rightly numbered. *)
LEMMA PosFitsKept ==
  ASSUME TypeOK, SeatInv, OneRunPerHost, GhostInv, [Next]_vars
  PROVE  PosFits'
<1>1. /\ pos \in [Addr -> [Slots -> Conn \cup {None}]] /\ udpDown \subseteq Dgram
      /\ AddrOf \in [Conn -> Addr]
  BY WireAssumption DEF TypeOK, WireTypeOK, ClientTypeOK
<1> SUFFICES ASSUME NEW c \in Conn, NEW n \in Slots, NEW o, o # None,
                    pos'[AddrOf[c]][n] = o
             PROVE  Fits(c, o, n)'
  BY DEF PosFits
<1>2. CASE pos'[AddrOf[c]][n] = pos[AddrOf[c]][n]
  <2>1. o \in Conn
    BY <1>1, <1>2
  <2>2. Fits(c, o, n)
    BY <1>2 DEF GhostInv, PosFits
  <2> QED BY <2>1, <2>2, FitsKept
<1>3. ASSUME NEW a \in Addr, RestartGame(a)
      PROVE  pos'[AddrOf[c]][n] = pos[AddrOf[c]][n]
  BY <1>1, <1>3 DEF RestartGame
<1>4. ASSUME NEW d \in Conn, RecvUdp(d), pos'[AddrOf[c]][n] # pos[AddrOf[c]][n]
      PROVE  Fits(c, o, n)'
  <2>1. PICK g \in udpDown :
          g.to = AddrOf[d] /\ pos' = [pos EXCEPT ![g.to][g.idx] = g.owner]
    BY <1>4 DEF RecvUdp
  <2>2. g.idx \in Slots /\ g.owner \in Conn /\ g.to \in Addr
    BY <1>1 DEF Dgram
  <2>3. g.to = AddrOf[c] /\ n = g.idx /\ g.owner = o
    BY <1>1, <1>4, <2>1, <2>2
  <2>4. Fits(c, g.owner, g.idx)
    BY <2>3 DEF GhostInv, DgramFits
  <2> QED BY <2>2, <2>3, <2>4, FitsKept
<1> QED BY <1>2, <1>3, <1>4, GameWrites

(* The datagrams: what a player sent goes out under her seat's number.     *)
LEMMA DgramFitsKept ==
  ASSUME TypeOK, SeatInv, OneRunPerHost, GhostInv, [Next]_vars
  PROVE  DgramFits'
<1>1. /\ udpDown \subseteq Dgram /\ np_table \in [Slots -> Conn \cup {None}]
      /\ rdDgram \in Conn \cup {None}
  BY DEF TypeOK, WireTypeOK, ServerTypeOK
<1> SUFFICES ASSUME NEW c \in Conn, NEW g \in udpDown', g.to = AddrOf[c]
             PROVE  Fits(c, g.owner, g.idx)'
  BY DEF DgramFits
<1>2. CASE g \in udpDown
  <2>1. g.owner \in Conn /\ Fits(c, g.owner, g.idx)
    BY <1>1, <1>2 DEF Dgram, GhostInv, DgramFits
  <2> QED BY <2>1, FitsKept
<1>3. CASE g \notin udpDown
  <2>1. ServeDgram
    BY <1>3, DgramWrites
  <2>2. PICK i \in Slots : FirstOf(AddrOf[rdDgram], i) /\ udpDown' = udpDown \cup Echoes(i, rdDgram)
    BY <1>3, <2>1 DEF ServeDgram
  <2>3. PICK s \in Slots \ {i} :
          /\ np_table[s] # None
          /\ g = [to |-> AddrOf[np_table[s]], idx |-> PeerIndex(s, i), owner |-> rdDgram]
    BY <1>3, <2>2 DEF Echoes
  <2>4. np_table[i] = rdDgram /\ np_table[i] # None
    BY <1>1, <2>1, <2>2 DEF FirstOf, ServeDgram, OneRunPerHost
  <2>5. np_table[s] = c
    BY <1>1, <2>3 DEF OneRunPerHost
  <2>6. Fits(c, rdDgram, PeerIndex(s, i)) /\ rdDgram \in Conn
    BY <2>3, <2>4, <2>5, SeatedFit
  <2> QED BY <2>3, <2>6, FitsKept
<1> QED BY <1>2, <1>3

(* The collisions under way to the server: the sender's game showed whom   *)
(* she hit in that record.                                                 *)
LEMMA ColFitsKept ==
  ASSUME TypeOK, SeatInv, OneRunPerHost, GhostInv, [Next]_vars
  PROVE  ColFits'
<1> DEFINE Good(c, m) == m.cmd = "COL" => m.aim # None /\ Fits(c, m.aim, m.col)
<1>1. /\ up \in [Conn -> Seq(UpMsg)] /\ rec \in [Addr -> [Slots -> Rec]]
      /\ AddrOf \in [Conn -> Addr]
  BY WireAssumption DEF TypeOK, WireTypeOK, ClientTypeOK
<1>2. \A c \in Conn : \A k \in 1 .. Len(up[c]) : up[c][k] \in UpMsg /\ Good(c, up[c][k])
  BY <1>1 DEF GhostInv, ColFits
<1> SUFFICES ASSUME NEW c \in Conn, NEW k \in 1 .. Len(up'[c]), NEW x, up'[c][k] = x,
                    x.cmd = "COL"
             PROVE  x.aim # None /\ Fits(c, x.aim, x.col)'
  BY DEF ColFits
<1>3. ASSUME NEW j \in 1 .. Len(up[c]), x = up[c][j]
      PROVE  x.aim # None /\ Fits(c, x.aim, x.col)'
  <2>1. x.aim # None /\ x.aim \in Conn /\ Fits(c, x.aim, x.col)
    BY <1>2, <1>3 DEF UpMsg
  <2> QED BY <2>1, FitsKept
<1>4. CASE up'[c] = up[c]
  BY <1>3, <1>4
<1>5. ASSUME NEW d \in Conn, Received(d), up'[c] # up[c]
      PROVE  \E j \in 1 .. Len(up[c]) : x = up[c][j]
  <2>1. d = c /\ up'[c] = Tail(up[c]) /\ up[c] # <<>>
    BY <1>1, <1>5 DEF Received
  <2> QED BY <1>1, <2>1, TailElements
<1>6. ASSUME NEW d \in Conn, CloseArrives(d), up'[c] # up[c]
      PROVE  \E j \in 1 .. Len(up[c]) : x = up[c][j]
  <2>1. PICK n \in 0 .. Len(up[c]) : up'[c] = SubSeq(up[c], 1, n)
    BY <1>1, <1>6 DEF CloseArrives
  <2>2. k \in 1 .. Len(up[c]) /\ up'[c][k] = up[c][k]
    BY <1>1, <2>1
  <2> QED BY <2>2
<1>7. ASSUME NEW d \in Conn, NEW m, up' = [up EXCEPT ![d] = Append(@, m)], up'[c] # up[c]
      PROVE  d = c /\ (x = m \/ \E j \in 1 .. Len(up[c]) : x = up[c][j])
  <2>1. d = c /\ up'[c] = Append(up[c], m)
    BY <1>1, <1>7
  <2> QED BY <1>1, <2>1, AppendElements
<1>8. ASSUME NEW d \in Conn, SendSync(d), up'[c] # up[c]
      PROVE  \E j \in 1 .. Len(up[c]) : x = up[c][j]
  <2>1. up' = [up EXCEPT ![d] = Append(@, [cmd |-> "SYNC", ver |-> ver[d] + 1, col |-> 0,
                                           aim |-> None])]
    BY <1>8 DEF SendSync, Sends
  <2> QED BY <1>7, <1>8, <2>1
<1>9. ASSUME NEW d \in Conn, NEW n \in Slots \ {0}, SendCol(d, n), up'[c] # up[c]
      PROVE  x.aim # None /\ Fits(c, x.aim, x.col)'
  <2>1. PICK o \in Conn : o = rec[AddrOf[d]][n].owner
    BY <1>1, <1>9 DEF SendCol, Rec
  <2>2. PICK m : /\ m = [cmd |-> "COL", ver |-> ver[d] + 1, col |-> n, aim |-> o]
                 /\ up' = [up EXCEPT ![d] = Append(@, m)]
    BY <1>9, <2>1 DEF SendCol, Sends
  <2>3. Fits(d, o, n) /\ o # None
    BY <2>1, WireAssumption DEF GhostInv, RecFits
  <2>4. d = c /\ (x = m \/ \E j \in 1 .. Len(up[c]) : x = up[c][j])
    BY <1>7, <1>9, <2>2
  <2>5. CASE x = m
    <3>1. x.aim = o /\ x.col = n
      BY <2>2, <2>5
    <3>2. Fits(c, o, n)'
      BY <2>3, <2>4, FitsKept
    <3> QED BY <2>3, <3>1, <3>2
  <2> QED BY <1>3, <2>4, <2>5
<1> QED BY <1>3, <1>4, <1>5, <1>6, <1>8, <1>9, UpWrites

(* What a step may put on a stream to a client, besides what was there:    *)
(* nothing of a player, except for the two writers below.                  *)
LEMMA DownElements ==
  ASSUME TypeOK, NEW d \in Conn, DownRead(d) \/ DownDropped(d) \/ DownNotice(d),
         NEW c \in Conn, NEW k \in 1 .. Len(down'[c]), down'[c][k].t = "peer"
  PROVE  \E j \in 1 .. Len(down[c]) : down'[c][k] = down[c][j]
<1>1. down \in [Conn -> Seq(DownMsg)]
  BY DEF TypeOK, WireTypeOK
<1>2. CASE down'[c] = down[c]
  BY <1>2
<1>3. ASSUME DownRead(d), down'[c] # down[c]
      PROVE  \E j \in 1 .. Len(down[c]) : down'[c][k] = down[c][j]
  <2>1. down[c] # <<>> /\ down'[c] = Tail(down[c])
    BY <1>1, <1>3 DEF DownRead
  <2> QED BY <1>1, <2>1, TailElements
<1>4. ASSUME DownDropped(d), down'[c] # down[c]
      PROVE  FALSE
  BY <1>1, <1>4 DEF DownDropped
<1>5. ASSUME DownNotice(d), down'[c] # down[c]
      PROVE  \E j \in 1 .. Len(down[c]) : down'[c][k] = down[c][j]
  <2>1. down'[c] = Append(down[c], Ctl("ban")) /\ Ctl("ban").t # "peer"
    BY <1>1, <1>5 DEF DownNotice, Ctl
  <2> QED BY <1>1, <2>1, AppendElements
<1> QED BY <1>2, <1>3, <1>4, <1>5

(* What is forwarded: each running player in another seat gets, behind     *)
(* what was there, the record under her own numbering.                     *)
LEMMA ForwardedElements ==
  ASSUME TypeOK, NEW s \in Slots, NEW v, NEW hit, NEW sy, Forwarded(s, v, hit, sy),
         NEW c \in Conn, NEW k \in 1 .. Len(down'[c])
  PROVE  \/ k \in 1 .. Len(down[c]) /\ down'[c][k] = down[c][k]
         \/ /\ c \in Others(s) /\ k = Len(down[c]) + 1
            /\ down'[c][k] = Peer(PeerIndex(SeatOf(c), s), np_table[s], v, hit[c], sy)
<1>1. down \in [Conn -> Seq(DownMsg)]
  BY DEF TypeOK, WireTypeOK
<1>2. CASE c \in Others(s)
  <2>1. down'[c] = Append(down[c], Peer(PeerIndex(SeatOf(c), s), np_table[s], v, hit[c], sy))
    BY <1>2 DEF Forwarded
  <2> QED BY <1>1, <1>2, <2>1, AppendElements
<1>3. CASE c \notin Others(s)
  BY <1>3 DEF Forwarded
<1> QED BY <1>2, <1>3

(* What the server does with a message m of the player c in slot s: it is  *)
(* the first of her stream, and a record goes to all the others.           *)
Served(s, c, m, hit, sy) ==
  /\ np_table[s] = c
  /\ Len(up[c]) \in Nat /\ 1 \in 1 .. Len(up[c]) /\ m = up[c][1]
  /\ Received(c)
  /\ Forwarded(s, m.ver, hit, sy)
  /\ \/ /\ m.cmd = "SYNC" /\ hit = [d \in Conn |-> None] /\ sy = m.ver
        /\ tcp' = [tcp EXCEPT ![c] = m.ver]
     \/ m.cmd = "COL" /\ hit = Hit(s, m) /\ sy = tcp[c] /\ tcp' = tcp

(* A command the server serves is such a message.                          *)
LEMMA ServedMessage ==
  ASSUME TypeOK, NEW s \in Slots, CmdSync(s) \/ CmdCol(s)
  PROVE  \E c \in Conn : \E m \in UpMsg : \E hit \in [Conn -> Conn \cup {None}] :
           \E sy \in Ver \cup {NoTcp} : Served(s, c, m, hit, sy)
<1>1. /\ up \in [Conn -> Seq(UpMsg)] /\ np_table \in [Slots -> Conn \cup {None}]
      /\ tcp \in [Conn -> Ver \cup {NoTcp}]
  BY DEF TypeOK, WireTypeOK, ServerTypeOK
<1>2. PICK c \in Conn : c = rdSock[s] /\ np_table[s] = c /\ Received(c)
  BY <1>1 DEF CmdSync, CmdCol, Serving
<1>3. PICK m \in UpMsg :
        /\ m = Head(up[c]) /\ m = up[c][1]
        /\ Len(up[c]) \in Nat /\ 1 \in 1 .. Len(up[c])
  BY <1>1, <1>2, ReceivedOK DEF Received
<1>4. m.ver \in Ver /\ tcp[c] \in Ver \cup {NoTcp}
  BY <1>1 DEF UpMsg
<1>5. CASE CmdSync(s)
  <2>1. /\ Forwarded(s, m.ver, [d \in Conn |-> None], m.ver) /\ m.cmd = "SYNC"
        /\ tcp' = [tcp EXCEPT ![c] = m.ver]
    BY <1>2, <1>3, <1>5 DEF CmdSync, SyncForwards, SyncKeeps
  <2>2. [d \in Conn |-> None] \in [Conn -> Conn \cup {None}]
    OBVIOUS
  <2> QED BY <1>2, <1>3, <1>4, <2>1, <2>2 DEF Served
<1>6. CASE CmdCol(s)
  <2>1. Forwarded(s, m.ver, Hit(s, m), tcp[c]) /\ m.cmd = "COL" /\ tcp' = tcp
    BY <1>2, <1>3, <1>6 DEF CmdCol
  <2>2. Hit(s, m) \in [Conn -> Conn \cup {None}]
    BY <1>3 DEF Hit, UpMsg
  <2> QED BY <1>2, <1>3, <1>4, <2>1, <2>2 DEF Served
<1> QED BY <1>5, <1>6

(* What a newcomer is sent, message by message. *)
LEMMA WelcomeElements ==
  ASSUME TypeOK, NEW i \in Slots, NEW q \in Ascending(Synced(i))
  PROVE  /\ Len(q) \in Nat /\ q \in [1 .. Len(q) -> Synced(i)]
         /\ Welcome(i, q) \in Seq(DownMsg) /\ Len(Welcome(i, q)) = Len(q) + 2
         /\ Welcome(i, q)[1].t = "meta" /\ Welcome(i, q)[2].t = "write"
         /\ \A k \in 1 .. Len(q) :
              Welcome(i, q)[k + 2] = Kept(PeerIndex(i, q[k]), np_table[q[k]])
<1> DEFINE msg(k) == Kept(PeerIndex(i, q[k]), np_table[q[k]])
           tail == [k \in 1 .. Len(q) |-> msg(k)]
           front == <<Ctl("meta"), Ctl("write")>>
<1>1. IsFiniteSet(Synced(i))
  <2>1. IsFiniteSet(Slots)
    BY NPLenAssumption, FS_Interval DEF Slots
  <2>2. Synced(i) \subseteq Slots
    BY DEF Synced
  <2> QED BY <2>1, <2>2, FS_Subset
<1>2. q \in Seq(Synced(i))
  BY <1>1, FS_CardinalityType DEF Ascending
<1>3. Len(q) \in Nat /\ q \in [1 .. Len(q) -> Synced(i)]
  BY <1>2
<1>4. Welcome(i, q) = front \o tail
  BY DEF Welcome
<1>5. Welcome(i, q) \in Seq(DownMsg)
  <2>1. Welcome(i, q) \in Seq(SoundMsg)
    BY WelcomeOK
  <2> QED BY <2>1 DEF SoundMsg
<1>6. front \in Seq({front[1], front[2]}) /\ Len(front) = 2
      /\ front[1] = Ctl("meta") /\ front[2] = Ctl("write")
  OBVIOUS
<1>7. tail \in Seq({tail[k] : k \in 1 .. Len(q)}) /\ Len(tail) = Len(q)
      /\ \A k \in 1 .. Len(q) : tail[k] = msg(k)
  BY <1>3
<1> HIDE DEF front, tail, msg
<1>8. PICK S : S = {front[1], front[2]} \cup {tail[k] : k \in 1 .. Len(q)}
  OBVIOUS
<1>9. front \in Seq(S) /\ tail \in Seq(S)
  <2>1. {front[1], front[2]} \subseteq S /\ {tail[k] : k \in 1 .. Len(q)} \subseteq S
    BY <1>8
  <2>2. Seq({front[1], front[2]}) \subseteq Seq(S)
    BY <2>1
  <2>3. Seq({tail[k] : k \in 1 .. Len(q)}) \subseteq Seq(S)
    BY <2>1
  <2> QED BY <1>6, <1>7, <2>2, <2>3
<1> DEFINE W == Welcome(i, q)
<1>10. /\ Len(front \o tail) = Len(front) + Len(tail)
       /\ \A k \in 1 .. Len(front) : (front \o tail)[k] = front[k]
       /\ \A k \in 1 .. Len(tail) : (front \o tail)[Len(front) + k] = tail[k]
  BY <1>9, ConcatElements
<1>11. W = front \o tail
  BY <1>4
<1> HIDE DEF W
<1>12. Len(W) = Len(q) + 2
  BY <1>3, <1>6, <1>7, <1>10, <1>11
<1>13. W[1] = Ctl("meta") /\ W[2] = Ctl("write")
  BY <1>6, <1>10, <1>11
<1>14. ASSUME NEW k \in 1 .. Len(q)
       PROVE  W[k + 2] = msg(k)
  <2>1. k + 2 = Len(front) + k
    BY <1>3, <1>6
  <2> QED BY <1>7, <1>10, <1>11, <2>1
<1>15. Ctl("meta").t = "meta" /\ Ctl("write").t = "write"
  BY DEF Ctl
<1> QED BY <1>3, <1>5, <1>12, <1>13, <1>14, <1>15 DEF msg, W

(* The slots of a welcome come in ascending order, so each exactly once.   *)
LEMMA WelcomeComplete ==
  ASSUME NEW i \in Slots, NEW q \in Ascending(Synced(i))
  PROVE  /\ \A j \in Synced(i) : \E k \in 1 .. Len(q) : q[k] = j
         /\ \A k, m \in 1 .. Len(q) : q[k] = q[m] => k = m
<1> DEFINE N == Cardinality(Synced(i))
<1>1. IsFiniteSet(Synced(i)) /\ Synced(i) \subseteq Int
  <2>1. IsFiniteSet(Slots) /\ Slots \subseteq Int
    BY NPLenAssumption, FS_Interval DEF Slots
  <2>2. Synced(i) \subseteq Slots
    BY DEF Synced
  <2> QED BY <2>1, <2>2, FS_Subset
<1>2. N \in Nat
  BY <1>1, FS_CardinalityType
<1>3. q \in [1 .. N -> Synced(i)] /\ \A k, m \in 1 .. N : k < m => q[k] < q[m]
  BY DEF Ascending
<1> HIDE DEF N
<1>4. \A k, m \in 1 .. N : q[k] = q[m] => k = m
  <2> SUFFICES ASSUME NEW k \in 1 .. N, NEW m \in 1 .. N, q[k] = q[m], k # m
               PROVE  FALSE
    OBVIOUS
  <2>1. q[k] \in Int
    BY <1>1, <1>3
  <2>2. k < m \/ m < k
    BY <1>2
  <2> QED BY <1>3, <2>1, <2>2
<1>5. q \in Injection(1 .. N, Synced(i))
  BY <1>3, <1>4 DEF Injection, IsInjective
<1>6. Cardinality(1 .. N) = N
  BY <1>2, FS_Interval
<1>7. q \in Surjection(1 .. N, Synced(i))
  BY <1>1, <1>5, <1>6, FS_Injection DEF N
<1>8. Len(q) = N
  BY <1>2, <1>3
<1> QED BY <1>4, <1>7, <1>8 DEF Surjection

(* What an admission puts on the streams: nothing, except for the welcome  *)
(* behind what the newcomer may have been sent.                            *)
LEMMA AdmitElements ==
  ASSUME TypeOK, NEW c \in Conn, NEW i \in Slots, Admit(c, i)
  PROVE  /\ \A d \in Conn : d # c \/ ~Alive(c) => down'[d] = down[d]
         /\ Alive(c) =>
              \E q \in Ascending(Synced(i)) :
                /\ Len(q) \in Nat /\ q \in [1 .. Len(q) -> Synced(i)]
                /\ Len(down[c]) \in Nat /\ Len(down'[c]) = Len(down[c]) + 2 + Len(q)
                /\ \A k \in 1 .. Len(down[c]) : down'[c][k] = down[c][k]
                /\ \A k \in {1, 2} : down'[c][Len(down[c]) + k].t # "peer"
                /\ \A k \in 1 .. Len(q) :
                     down'[c][Len(down[c]) + 2 + k] =
                       Kept(PeerIndex(i, q[k]), np_table[q[k]])
<1>1. down \in [Conn -> Seq(DownMsg)]
  BY DEF TypeOK, WireTypeOK
<1>2. PICK q \in Ascending(Synced(i)) :
        down' = IF Alive(c) THEN [down EXCEPT ![c] = @ \o Welcome(i, q)] ELSE down
  BY DEF Admit
<1>3. \A d \in Conn : d # c \/ ~Alive(c) => down'[d] = down[d]
  BY <1>1, <1>2
<1> SUFFICES ASSUME Alive(c)
             PROVE  /\ Len(q) \in Nat /\ q \in [1 .. Len(q) -> Synced(i)]
                    /\ Len(down[c]) \in Nat /\ Len(down'[c]) = Len(down[c]) + 2 + Len(q)
                    /\ \A k \in 1 .. Len(down[c]) : down'[c][k] = down[c][k]
                    /\ \A k \in {1, 2} : down'[c][Len(down[c]) + k].t # "peer"
                    /\ \A k \in 1 .. Len(q) :
                         down'[c][Len(down[c]) + 2 + k] =
                           Kept(PeerIndex(i, q[k]), np_table[q[k]])
  BY <1>3
<1> DEFINE W == Welcome(i, q)
           msg(k) == Kept(PeerIndex(i, q[k]), np_table[q[k]])
<1>4. /\ Len(q) \in Nat /\ q \in [1 .. Len(q) -> Synced(i)]
      /\ W \in Seq(DownMsg) /\ Len(W) = Len(q) + 2
      /\ W[1].t = "meta" /\ W[2].t = "write"
      /\ \A k \in 1 .. Len(q) : W[k + 2] = msg(k)
  BY WelcomeElements
<1>5. down'[c] = down[c] \o W /\ down[c] \in Seq(DownMsg) /\ Len(down[c]) \in Nat
  BY <1>1, <1>2
<1>6. PICK p \in Seq(DownMsg), w \in Seq(DownMsg) : p = down[c] /\ w = W
  BY <1>4, <1>5
<1>7. PICK n \in Nat, l \in Nat : n = Len(down[c]) /\ l = Len(q)
  BY <1>4, <1>5
<1> HIDE DEF W, msg
<1>8. /\ Len(p \o w) = Len(p) + Len(w)
      /\ \A k \in 1 .. Len(p) : (p \o w)[k] = p[k]
      /\ \A k \in 1 .. Len(w) : (p \o w)[Len(p) + k] = w[k]
  BY ConcatElements
<1>9. Len(p) = n /\ Len(w) = l + 2 /\ down'[c] = p \o w
  BY <1>4, <1>5, <1>6, <1>7
<1>10. /\ Len(down'[c]) = n + (l + 2)
       /\ \A k \in 1 .. n : down'[c][k] = down[c][k]
       /\ \A k \in 1 .. (l + 2) : down'[c][n + k] = W[k]
  BY <1>6, <1>8, <1>9
<1>11. \A k \in {1, 2} : down'[c][n + k].t # "peer"
  <2>1. 1 \in 1 .. (l + 2) /\ 2 \in 1 .. (l + 2)
    OBVIOUS
  <2> QED BY <1>4, <1>10, <2>1
<1>12. ASSUME NEW k \in 1 .. l
       PROVE  down'[c][n + 2 + k] = msg(k)
  <2>1. k + 2 \in 1 .. (l + 2) /\ n + 2 + k = n + (k + 2)
    OBVIOUS
  <2>2. W[k + 2] = msg(k)
    BY <1>4, <1>7
  <2> QED BY <1>10, <2>1, <2>2
<1>13. Len(down'[c]) = n + 2 + l
  BY <1>10
<1> QED BY <1>4, <1>7, <1>10, <1>11, <1>12, <1>13 DEF msg

(* A message that fits goes on to fit.                                     *)
LEMMA MsgFitsKept ==
  ASSUME TypeOK, SeatInv, [Next]_vars, NEW c \in Conn, NEW m \in DownMsg, MsgFits(c, m)
  PROVE  MsgFits(c, m)'
<1>1. CASE m.t # "peer"
  BY <1>1 DEF MsgFits
<1>2. CASE m.t = "peer"
  <2>1. m.owner \in Conn
    BY <1>2 DEF DownMsg, Control, PeerMsg
  <2> QED BY <1>2, <2>1, FitsKept DEF MsgFits
<1> QED BY <1>1, <1>2

(* The streams to the clients: a newcomer's snapshot and what is forwarded *)
(* are numbered by the seats of the moment.                                *)
LEMMA DownFitsKept ==
  ASSUME TypeOK, SeatInv, GhostInv, [Next]_vars
  PROVE  DownFits'
<1>1. /\ down \in [Conn -> Seq(DownMsg)] /\ np_table \in [Slots -> Conn \cup {None}]
      /\ tcp \in [Conn -> Ver \cup {NoTcp}]
  BY DEF TypeOK, WireTypeOK, ServerTypeOK
<1> SUFFICES ASSUME NEW c \in Conn, NEW k \in 1 .. Len(down'[c]), NEW x, down'[c][k] = x,
                    x.t = "peer"
             PROVE  MsgFits(c, x)'
  BY DEF DownFits, MsgFits
<1>2. ASSUME NEW j \in 1 .. Len(down[c]), x = down[c][j]
      PROVE  MsgFits(c, x)'
  <2>1. x \in DownMsg /\ MsgFits(c, x)
    BY <1>1, <1>2 DEF GhostInv, DownFits
  <2> QED BY <2>1, MsgFitsKept
<1>3. CASE UNCHANGED down
  BY <1>2, <1>3
<1>4. ASSUME NEW d \in Conn, DownRead(d) \/ DownDropped(d) \/ DownNotice(d)
      PROVE  MsgFits(c, x)'
  BY <1>2, <1>4, DownElements
<1>5. ASSUME NEW d \in Conn, NEW i \in Slots, Admit(d, i)
      PROVE  MsgFits(c, x)'
  <2>1. CASE d # c \/ ~Alive(d)
    <3>1. down'[c] = down[c]
      BY <1>5, <2>1, AdmitElements
    <3> QED BY <1>2, <3>1
  <2>2. CASE d = c /\ Alive(d)
    <3>1. PICK q \in Ascending(Synced(i)) :
                /\ Len(q) \in Nat /\ q \in [1 .. Len(q) -> Synced(i)]
                /\ Len(down[c]) \in Nat /\ Len(down'[c]) = Len(down[c]) + 2 + Len(q)
                /\ \A j \in 1 .. Len(down[c]) : down'[c][j] = down[c][j]
                /\ \A j \in {1, 2} : down'[c][Len(down[c]) + j].t # "peer"
                /\ \A j \in 1 .. Len(q) :
                     down'[c][Len(down[c]) + 2 + j] =
                       Kept(PeerIndex(i, q[j]), np_table[q[j]])
      BY <1>5, <2>2, AdmitElements
    <3>2. PICK n \in Nat, l \in Nat : n = Len(down[c]) /\ l = Len(q)
      BY <3>1
    <3>3. CASE k \in 1 .. n
      BY <1>2, <3>1, <3>2, <3>3
    <3>4. CASE k = n + 1 \/ k = n + 2
      BY <3>1, <3>2, <3>4
    <3>5. ASSUME NEW j \in 1 .. l, k = n + 2 + j
          PROVE  MsgFits(c, x)'
      <4>1. q[j] \in Slots /\ q[j] # i /\ np_table[q[j]] # None
        BY <3>1, <3>2, <3>5 DEF Synced
      <4>2. PICK o : o = np_table[q[j]]
        OBVIOUS
      <4>3. o \in Conn /\ Fits(c, o, PeerIndex(i, q[j]))'
        BY <1>5, <2>2, <4>1, <4>2, AdmittedFits
      <4>4. x = Kept(PeerIndex(i, q[j]), o)
        BY <3>1, <3>2, <3>5, <4>2
      <4>5. x.owner = o /\ x.idx = PeerIndex(i, q[j])
        BY <4>4 DEF Kept, Peer
      <4> QED BY <4>3, <4>5 DEF MsgFits
    <3>6. k \in 1 .. n \/ k = n + 1 \/ k = n + 2 \/ \E j \in 1 .. l : k = n + 2 + j
      <4>1. k \in 1 .. n + 2 + l
        BY <3>1, <3>2
      <4>2. k > n + 2 => k - (n + 2) \in 1 .. l /\ k = n + 2 + (k - (n + 2))
        BY <4>1
      <4> QED BY <4>1, <4>2
    <3> QED BY <3>3, <3>4, <3>5, <3>6
  <2> QED BY <2>1, <2>2
<1>6. ASSUME NEW s \in Slots, CmdSync(s) \/ CmdCol(s)
      PROVE  MsgFits(c, x)'
  <2>1. PICK o \in Conn, m \in UpMsg, hit \in [Conn -> Conn \cup {None}],
             sy \in Ver \cup {NoTcp} : Served(s, o, m, hit, sy)
    BY <1>6, ServedMessage
  <2>2. CASE k \in 1 .. Len(down[c]) /\ x = down[c][k]
    BY <1>2, <2>2
  <2>3. CASE c \in Others(s) /\ x = Peer(PeerIndex(SeatOf(c), s), np_table[s], m.ver, hit[c], sy)
    <3>1. Seated(c) /\ SeatOf(c) # s
      BY <2>3 DEF Others
    <3>2. SeatOf(c) \in Slots /\ np_table[SeatOf(c)] = c /\ np_table[s] = o
      BY <2>1, <3>1, SeatOfSlot DEF Served
    <3>3. x.owner = o /\ x.idx = PeerIndex(SeatOf(c), s) /\ x \in DownMsg
      BY <2>3, <3>1, <3>2, NumberingSound DEF Peer, UpMsg, DownMsg, PeerMsg
    <3>4. Fits(c, o, x.idx)
      BY <3>1, <3>2, <3>3, SeatedFit, WireAssumption
    <3>5. MsgFits(c, x)
      BY <3>3, <3>4 DEF MsgFits
    <3> QED BY <3>3, <3>5, MsgFitsKept
  <2>4. \/ k \in 1 .. Len(down[c]) /\ x = down[c][k]
        \/ /\ c \in Others(s)
           /\ x = Peer(PeerIndex(SeatOf(c), s), np_table[s], m.ver, hit[c], sy)
    BY <2>1, ForwardedElements DEF Served
  <2> QED BY <2>2, <2>3, <2>4
<1> QED BY <1>3, <1>4, <1>5, <1>6, DownWrites

-----------------------------------------------------------------------------
(* The inductive invariant: every place where data of one player is kept   *)
(* for another, from the sender's stream to the receiver's records, obeys  *)
(* the seats.                                                              *)
THEOREM GhostInvariant == Spec => [](OneRunPerHost => GhostInv)
<1>1. Init => GhostInv
  <2> SUFFICES ASSUME Init
               PROVE  GhostInv
    OBVIOUS
  <2>1. \A c \in Conn : AddrOf[c] \in Addr
    BY WireAssumption
  <2>2. RecFits
    BY <2>1 DEF Init, ClientInit, RecFits, EmptyGame, NoRec
  <2>3. PosFits
    BY <2>1 DEF Init, ClientInit, PosFits
  <2>4. DownFits /\ DgramFits /\ ColFits
    BY DEF Init, WireInit, DownFits, DgramFits, ColFits
  <2> QED BY <2>2, <2>3, <2>4 DEF GhostInv
<1>2. TypeOK /\ SeatInv /\ (OneRunPerHost => GhostInv) /\ [Next]_vars
        => (OneRunPerHost => GhostInv)'
  <2> SUFFICES ASSUME TypeOK, SeatInv, OneRunPerHost => GhostInv, [Next]_vars, OneRunPerHost
               PROVE  GhostInv'
    BY DEF OneRunPerHost
  <2>1. RecFits' /\ PosFits'
    BY RecFitsKept, PosFitsKept
  <2>2. DownFits' /\ DgramFits' /\ ColFits'
    BY DownFitsKept, DgramFitsKept, ColFitsKept
  <2> QED BY <2>1, <2>2 DEF GhostInv
<1>3. TypeInv => TypeOK
  BY DEF TypeInv
<1> QED BY <1>1, <1>2, <1>3, TypeInvariant, SeatInvariant, PTL DEF Spec

(* Two players who are online are shown to each other in one record each,  *)
(* whatever was there before and however late a message or a datagram.     *)
THEOREM NoGhosts == Spec => []NoGhost
<1>1. TypeOK /\ SeatInv /\ (OneRunPerHost => GhostInv) => NoGhost
  <2> SUFFICES ASSUME TypeOK, SeatInv, GhostInv, NEW i \in Slots, NEW j \in Slots,
                      i # j, np_table[i] # None, np_table[j] # None, NEW n \in Slots
               PROVE  /\ rec[AddrOf[np_table[i]]][n].owner = np_table[j] => n = PeerIndex(i, j)
                      /\ pos[AddrOf[np_table[i]]][n] = np_table[j] => n = PeerIndex(i, j)
    BY DEF NoGhost
  <2>1. np_table[i] \in Conn
    BY DEF TypeOK, ServerTypeOK
  <2> QED BY <2>1 DEF GhostInv, RecFits, PosFits, Fits
<1>2. TypeInv => TypeOK
  BY DEF TypeInv
<1> QED BY <1>1, <1>2, TypeInvariant, SeatInvariant, GhostInvariant, PTL

(* No game shows its own player as a peer, by way of the server.  (With    *)
(* two runs of one host it may: the run NetEcho.)                          *)
THEOREM NoEcho == Spec => [](OneRunPerHost => NeverSeesSelf)
<1>1. TypeOK /\ (OneRunPerHost => GhostInv) => (OneRunPerHost => NeverSeesSelf)
  <2> SUFFICES ASSUME TypeOK, GhostInv, OneRunPerHost, NEW c \in Conn, NEW n \in Slots,
                      pos[AddrOf[c]][n] # None
               PROVE  AddrOf[pos[AddrOf[c]][n]] # AddrOf[c]
    BY DEF NeverSeesSelf
  <2>1. pos[AddrOf[c]][n] \in Conn
    BY WireAssumption DEF TypeOK, ClientTypeOK
  <2>2. pos[AddrOf[c]][n] # c
    BY DEF GhostInv, PosFits, Fits
  <2> QED BY <2>1, <2>2 DEF OneRunPerHost
<1>2. TypeInv => TypeOK
  BY DEF TypeInv
<1> QED BY <1>1, <1>2, TypeInvariant, GhostInvariant, PTL

(* np_col of a forwarded collision, as long as the player who was hit has  *)
(* a seat: her seat is the one the attacker's record stands for, and hers  *)
(* alone.                                                                  *)
LEMMA HitFits ==
  ASSUME TypeOK, SeatInv, NEW s \in Slots, NEW m \in UpMsg, np_table[s] # None,
         Fits(np_table[s], m.aim, m.col), m.aim \in Others(s), NEW d \in Others(s)
  PROVE  Hit(s, m)[d] = IF d = m.aim THEN m.aim ELSE None
<1>1. \A e \in Others(s) :
        /\ e \in Conn /\ Seated(e)
        /\ SeatOf(e) \in Slots \ {s} /\ np_table[SeatOf(e)] = e
  BY SeatOfSlot DEF Others
<1>2. m.col = PeerIndex(s, SeatOf(m.aim))
  BY <1>1 DEF Fits
<1>3. PeerIndex(s, SeatOf(d)) = m.col => SeatOf(d) = SeatOf(m.aim)
  BY <1>1, <1>2, NumberingSound
<1>4. PeerIndex(s, SeatOf(d)) = m.col <=> d = m.aim
  BY <1>1, <1>2, <1>3
<1> QED BY <1>1, <1>4 DEF Hit

(* The server takes up a COL in no other step than CmdCol.                 *)
LEMMA ColServedByCmdCol ==
  ASSUME TypeOK, [Next]_vars, NEW s \in Slots, ColServed(s)
  PROVE  CmdCol(s)
<1>1. /\ rdSock \in [Slots -> Conn \cup {None}] /\ rdSock[s] # None
      /\ rdSock'[s] = None /\ np_table[s] = rdSock[s]
      /\ up[rdSock[s]] # <<>> /\ Head(up[rdSock[s]]).cmd = "COL"
  BY DEF TypeOK, ServerTypeOK, ColServed
<1>2. rdSock' # rdSock
  BY <1>1
<1>3. ASSUME NEW r \in Slots, Serving(r)
      PROVE  r = s
  BY <1>1, <1>3 DEF Serving
<1>4. ServerStep
  BY <1>2 DEF Next, ClientStep, NetworkStep, vars, serverVars
<1>5. ~Select
  BY <1>1 DEF Select, NoneReady
<1>6. \A c \in Conn : ~Accepting(c)
  BY <1>2 DEF Accepting
<1>7. ~ServeDgram
  BY <1>2 DEF ServeDgram
<1>8. PICK r \in Slots : CmdSync(r) \/ CmdCol(r) \/ Leave(r) \/ Stray(r)
  BY <1>4, <1>5, <1>6, <1>7 DEF ServerStep, ServerNext, RefuseBanned, RefuseFull, Admit
<1>9. r = s
  BY <1>3, <1>8 DEF CmdSync, CmdCol, Leave, Stray
<1>10. ~CmdSync(s)
  BY <1>1 DEF CmdSync
<1> QED BY <1>1, <1>8, <1>9, <1>10 DEF Leave, Stray

(* However slots changed hands while the record number of a collision      *)
(* travelled: if the player who was hit still has hers when the server     *)
(* takes the command up, she is told of it and nobody else is.             *)
THEOREM HitsReachTheHit == Spec => HitFindsPlayer
<1>1. TypeOK /\ SeatInv /\ (OneRunPerHost => GhostInv) /\ [Next]_vars =>
        (OneRunPerHost =>
           \A s \in Slots :
             LET aim == Head(up[rdSock[s]]).aim
             IN ColServed(s) /\ aim \in Others(s) =>
                  \A d \in Others(s) :
                    down'[d][Len(down'[d])].hit = IF d = aim THEN aim ELSE None)
  <2> SUFFICES ASSUME TypeOK, SeatInv, GhostInv, [Next]_vars, NEW s \in Slots, ColServed(s),
                      Head(up[rdSock[s]]).aim \in Others(s), NEW d \in Others(s)
               PROVE  down'[d][Len(down'[d])].hit
                        = IF d = Head(up[rdSock[s]]).aim THEN Head(up[rdSock[s]]).aim ELSE None
    OBVIOUS
  <2>1. PICK c : c = rdSock[s]
    OBVIOUS
  <2>2. PICK m : m = Head(up[c])
    OBVIOUS
  <2>3. c \in Conn /\ np_table[s] = c /\ np_table[s] # None /\ up[c] # <<>> /\ m.cmd = "COL"
    BY <2>1, <2>2 DEF TypeOK, ServerTypeOK, ColServed
  <2>4. m \in UpMsg /\ 1 \in 1 .. Len(up[c]) /\ m = up[c][1]
    <3>1. up[c] \in Seq(UpMsg)
      BY <2>3 DEF TypeOK, WireTypeOK
    <3> QED BY <2>2, <2>3, <3>1
  <2>5. Fits(np_table[s], m.aim, m.col)
    BY <2>3, <2>4 DEF GhostInv, ColFits
  <2>6. Forwarded(s, m.ver, Hit(s, m), tcp[c])
    BY <2>1, <2>2, ColServedByCmdCol DEF CmdCol
  <2>7. Hit(s, m)[d] = IF d = m.aim THEN m.aim ELSE None
    BY <2>1, <2>2, <2>3, <2>4, <2>5, HitFits
  <2>8. d \in Conn
    BY DEF Others
  <2>9. down[d] \in Seq(DownMsg)
    BY <2>8 DEF TypeOK, WireTypeOK
  <2>10. PICK x : x = Peer(PeerIndex(SeatOf(d), s), np_table[s], m.ver, Hit(s, m)[d], tcp[c])
    OBVIOUS
  <2>11. down'[d] = Append(down[d], x)
    BY <2>6, <2>8, <2>10 DEF Forwarded
  <2>12. down'[d][Len(down'[d])] = x
    BY <2>9, <2>11, AppendElements
  <2> QED BY <2>1, <2>2, <2>7, <2>10, <2>12 DEF Peer
<1>2. TypeInv => TypeOK
  BY DEF TypeInv
<1> QED BY <1>1, <1>2, TypeInvariant, SeatInvariant, GhostInvariant, PTL DEF Spec, HitFindsPlayer
=============================================================================
