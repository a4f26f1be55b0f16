---------------------------- MODULE NetOrderProofs ----------------------------
(***************************************************************************)
(* In which order a player's records reach the others, for every number of *)
(* slots, clients and messages: a newcomer's snapshot and the SYNCs        *)
(* forwarded after it leave no gap, and no game goes back behind a SYNC.   *)
(***************************************************************************)
EXTENDS NetProofs

(* What a client sends is numbered upwards, and the server's copy of its   *)
(* record is older than all it has not read yet.                           *)
InOrder(lo, u, hi) ==
  /\ lo <= hi
  /\ \A k \in 1 .. Len(u) : lo <= u[k].ver /\ u[k].ver <= hi
  /\ \A k, m \in 1 .. Len(u) : k < m => u[k].ver <= u[m].ver

UpInv == \A c \in Conn : InOrder(tcp[c], up[c], ver[c])

(* A host runs one client at a time.                                       *)
AliveOnce == \A c, d \in Conn : Alive(c) /\ Alive(d) /\ AddrOf[c] = AddrOf[d] => c = d

(* After reading the messages q a game whose record n is r now shows d     *)
(* there, with version v or a later one.                                   *)
About(m, n) == m.t = "peer" /\ m.idx = n
Says(q, n, r, d, v) ==
  \/ \E k \in 1 .. Len(q) :
       /\ About(q[k], n)
       /\ q[k].owner = d /\ q[k].ver >= v
       /\ \A m \in 1 .. Len(q) : About(q[m], n) => m <= k
  \/ /\ \A m \in 1 .. Len(q) : ~About(q[m], n)
     /\ r.owner = d /\ r.ver >= v

Informed ==
  \A c, d \in Conn : \A i, j \in Slots :
    /\ i # j
    /\ np_table[i] = c /\ Alive(c)
    /\ np_table[j] = d /\ tcp[d] # NoTcp
    => Says(down[c], PeerIndex(i, j), rec[AddrOf[c]][PeerIndex(i, j)], d, tcp[d])

JoinInv == AliveOnce /\ UpInv /\ Informed

-----------------------------------------------------------------------------
(* The order of a client's stream. *)

(* Versions are integers.                                                  *)
LEMMA VersionsAreInts ==
  /\ Ver \subseteq Int /\ NoTcp \in Int
  /\ \A v \in Ver : NoTcp <= v
BY WireAssumption DEF Ver, NoTcp

(* Reading from the front keeps the order, below what was read too. *)
LEMMA OrderOfTail ==
  ASSUME NEW lo \in Int, NEW hi \in Int, NEW u \in Seq(UpMsg), u # <<>>, InOrder(lo, u, hi)
  PROVE  InOrder(lo, Tail(u), hi) /\ InOrder(u[1].ver, Tail(u), hi)
<1>1. PICK n \in Nat : n = Len(u)
  OBVIOUS
<1>2. PICK w \in Seq(UpMsg) :
        /\ w = Tail(u) /\ Len(w) = n - 1 /\ 1 \in 1 .. n
        /\ \A k \in 1 .. n - 1 : k + 1 \in 1 .. n /\ w[k] = u[k + 1]
  <2>1. /\ Tail(u) \in Seq(UpMsg) /\ Len(Tail(u)) = Len(u) - 1 /\ 1 \in 1 .. Len(u)
        /\ \A k \in 1 .. Len(Tail(u)) : k + 1 \in 1 .. Len(u) /\ Tail(u)[k] = u[k + 1]
    BY TailElements
  <2> QED BY <1>1, <2>1
<1>3. \A k \in 1 .. n : u[k].ver \in Int
  <2>1. \A k \in 1 .. n : u[k] \in UpMsg
    BY <1>1
  <2> QED BY <2>1, VersionsAreInts DEF UpMsg
<1>4. \A k \in 1 .. n - 1 : lo <= w[k].ver /\ u[1].ver <= w[k].ver /\ w[k].ver <= hi
  BY <1>1, <1>2, <1>3 DEF InOrder
<1>5. \A k, m \in 1 .. n - 1 : k < m => w[k].ver <= w[m].ver
  <2> TAKE k, m \in 1 .. n - 1
  <2>1. k < m => k + 1 < m + 1
    OBVIOUS
  <2> QED BY <1>1, <1>2, <2>1 DEF InOrder
<1> QED BY <1>1, <1>2, <1>4, <1>5 DEF InOrder

(* A message with the next number goes to the end.                         *)
LEMMA OrderOfAppend ==
  ASSUME NEW lo \in Int, NEW hi \in Int, NEW u \in Seq(UpMsg), InOrder(lo, u, hi),
         NEW m, m.ver = hi + 1
  PROVE  InOrder(lo, Append(u, m), hi + 1)
<1>1. PICK n \in Nat : n = Len(u)
  OBVIOUS
<1>2. PICK w : /\ w = Append(u, m) /\ Len(w) = n + 1 /\ w[n + 1] = m
               /\ \A k \in 1 .. n : w[k] = u[k]
  <2>1. /\ Len(Append(u, m)) = Len(u) + 1 /\ Append(u, m)[Len(u) + 1] = m
        /\ \A k \in 1 .. Len(u) : Append(u, m)[k] = u[k]
    BY AppendElements
  <2> QED BY <1>1, <2>1
<1>3. \A k \in 1 .. n : u[k].ver \in Int
  <2>1. \A k \in 1 .. n : u[k] \in UpMsg
    BY <1>1
  <2> QED BY <2>1, VersionsAreInts DEF UpMsg
<1>4. \A k \in 1 .. n + 1 : k \in 1 .. n \/ k = n + 1
  BY <1>1
<1>5. \A k \in 1 .. n + 1 : lo <= w[k].ver /\ w[k].ver <= hi + 1
  BY <1>1, <1>2, <1>3, <1>4 DEF InOrder
<1>6. \A k, l \in 1 .. n + 1 : k < l => w[k].ver <= w[l].ver
  BY <1>1, <1>2, <1>3, <1>4 DEF InOrder
<1> QED BY <1>1, <1>2, <1>5, <1>6 DEF InOrder

(* The end of a connection cuts the stream somewhere.                      *)
LEMMA OrderOfPrefix ==
  ASSUME NEW lo \in Int, NEW hi \in Int, NEW u \in Seq(UpMsg), InOrder(lo, u, hi),
         NEW n \in 0 .. Len(u)
  PROVE  InOrder(lo, SubSeq(u, 1, n), hi)
<1>1. /\ Len(SubSeq(u, 1, n)) = n
      /\ \A k \in 1 .. n : k \in 1 .. Len(u) /\ SubSeq(u, 1, n)[k] = u[k]
  OBVIOUS
<1> QED BY <1>1 DEF InOrder

(* Who changes what the order speaks of.                                   *)
LEMMA OrderWrites ==
  ASSUME TypeOK, [Next]_vars
  PROVE  \/ UNCHANGED <<up, tcp, ver>>
         \/ \E c \in Conn : \E i \in Slots : Admit(c, i) /\ UNCHANGED <<up, ver>>
         \/ \E s \in Slots : CmdSync(s) /\ UNCHANGED ver
         \/ \E c \in Conn : Received(c) /\ UNCHANGED <<tcp, ver>>
         \/ \E c \in Conn : \E m : Sends(c, m) /\ m.ver = ver[c] + 1 /\ UNCHANGED tcp
         \/ \E c \in Conn : CloseArrives(c) /\ UNCHANGED <<tcp, ver>>
<1>1. CASE ServerStep
  <2>1. ver' = ver
    BY <1>1 DEF ServerStep, clientVars
  <2>2. \A s \in Slots : rdSock[s] # None => rdSock[s] \in Conn
    BY DEF TypeOK, ServerTypeOK
  <2>3. ASSUME NEW s \in Slots, CmdCol(s) \/ Stray(s)
        PROVE  UNCHANGED <<up, tcp, ver>> \/ \E c \in Conn : Received(c) /\ UNCHANGED <<tcp, ver>>
    BY <2>1, <2>2, <2>3 DEF CmdCol, Stray, Serving
  <2>4. ASSUME NEW c \in Conn, NEW i \in Slots, Admit(c, i)
        PROVE  UNCHANGED <<up, ver>>
    BY <2>1, <2>4 DEF Admit, Accepting
  <2>5. ASSUME NEW c \in Conn, RefuseBanned(c) \/ RefuseFull(c)
        PROVE  UNCHANGED <<up, tcp, ver>>
    BY <2>1, <2>5 DEF RefuseBanned, RefuseFull, Accepting
  <2>6. ASSUME NEW s \in Slots, Leave(s)
        PROVE  UNCHANGED <<up, tcp, ver>>
    BY <2>1, <2>6 DEF Leave
  <2>7. CASE Select \/ ServeDgram
    BY <2>1, <2>7 DEF Select, ServeDgram
  <2> QED BY <1>1, <2>1, <2>3, <2>4, <2>5, <2>6, <2>7 DEF ServerStep, ServerNext
<1>2. CASE ClientStep
  <2>1. tcp' = tcp
    BY <1>2 DEF ClientStep, serverVars
  <2>2. ASSUME NEW c \in Conn, SendSync(c)
        PROVE  \E m : Sends(c, m) /\ m.ver = ver[c] + 1
    BY <2>2 DEF SendSync
  <2>3. ASSUME NEW c \in Conn, NEW n \in Slots \ {0}, SendCol(c, n)
        PROVE  \E m : Sends(c, m) /\ m.ver = ver[c] + 1
    BY <2>3 DEF SendCol
  <2> QED BY <1>2, <2>1, <2>2, <2>3 DEF ClientStep, ClientNext, RestartGame, NetInit, wireVars,
                Start, RecvMeta, RecvTcp, RecvEof, RecvUdp, SendUdp, Exit
<1>3. CASE NetworkStep
  BY <1>3 DEF NetworkStep, LoseDgram, serverVars, clientVars
<1>4. CASE UNCHANGED vars
  BY <1>4 DEF vars, wireVars, serverVars, clientVars
<1> QED BY <1>1, <1>2, <1>3, <1>4 DEF Next

(* The numbers stay in order.                                              *)
LEMMA UpInvKept ==
  ASSUME TypeOK, UpInv, [Next]_vars
  PROVE  UpInv'
<1>1. /\ up \in [Conn -> Seq(UpMsg)] /\ tcp \in [Conn -> Ver \cup {NoTcp}] /\ ver \in [Conn -> Ver]
  BY DEF TypeOK, WireTypeOK, ServerTypeOK, ClientTypeOK
<1> SUFFICES ASSUME NEW c \in Conn
             PROVE  InOrder(tcp'[c], up'[c], ver'[c])
  BY DEF UpInv
<1>2. /\ tcp[c] \in Int /\ ver[c] \in Int /\ up[c] \in Seq(UpMsg)
      /\ InOrder(tcp[c], up[c], ver[c])
  BY <1>1, VersionsAreInts DEF UpInv
<1>3. CASE up'[c] = up[c] /\ tcp'[c] = tcp[c] /\ ver'[c] = ver[c]
  BY <1>2, <1>3
<1>4. ASSUME NEW d \in Conn, NEW i \in Slots, Admit(d, i), UNCHANGED <<up, ver>>
      PROVE  InOrder(tcp'[c], up'[c], ver'[c])
  <2>1. CASE d # c
    BY <1>1, <1>3, <1>4, <2>1 DEF Admit
  <2>2. CASE d = c
    <3>1. tcp'[c] = NoTcp
      BY <1>1, <1>4, <2>2 DEF Admit
    <3>2. NoTcp <= ver[c] /\ \A k \in 1 .. Len(up[c]) : NoTcp <= up[c][k].ver
      <4>1. \A k \in 1 .. Len(up[c]) : up[c][k] \in UpMsg
        BY <1>2
      <4> QED BY <1>1, <4>1, VersionsAreInts DEF UpMsg
    <3> QED BY <1>2, <1>4, <3>1, <3>2 DEF InOrder
  <2> QED BY <2>1, <2>2
<1>5. ASSUME NEW s \in Slots, CmdSync(s), UNCHANGED ver
      PROVE  InOrder(tcp'[c], up'[c], ver'[c])
  <2>1. PICK o \in Conn : o = rdSock[s]
    BY <1>5 DEF CmdSync, Serving, TypeOK, ServerTypeOK
  <2>2. /\ up[o] # <<>> /\ up' = [up EXCEPT ![o] = Tail(@)]
        /\ tcp' = [tcp EXCEPT ![o] = Head(up[o]).ver]
    BY <1>5, <2>1 DEF CmdSync, SyncKeeps, Received
  <2>3. CASE o # c
    BY <1>1, <1>3, <1>5, <2>2, <2>3
  <2>4. CASE o = c
    <3>1. Head(up[c]) = up[c][1] /\ up[c] # <<>>
      BY <1>1, <2>2, <2>4
    <3>2. tcp'[c] = up[c][1].ver /\ up'[c] = Tail(up[c]) /\ ver'[c] = ver[c]
      BY <1>1, <1>5, <2>2, <2>4, <3>1
    <3>3. InOrder(up[c][1].ver, Tail(up[c]), ver[c])
      BY <1>2, <3>1, OrderOfTail
    <3> QED BY <3>2, <3>3
  <2> QED BY <2>3, <2>4
<1>6. ASSUME NEW d \in Conn, Received(d), UNCHANGED <<tcp, ver>>
      PROVE  InOrder(tcp'[c], up'[c], ver'[c])
  <2>1. CASE d # c
    BY <1>1, <1>3, <1>6, <2>1 DEF Received
  <2>2. CASE d = c
    <3>1. up[c] # <<>> /\ up'[c] = Tail(up[c])
      BY <1>1, <1>6, <2>2 DEF Received
    <3> QED BY <1>2, <1>6, <3>1, OrderOfTail
  <2> QED BY <2>1, <2>2
<1>7. ASSUME NEW d \in Conn, NEW m, Sends(d, m), m.ver = ver[d] + 1, UNCHANGED tcp
      PROVE  InOrder(tcp'[c], up'[c], ver'[c])
  <2>1. CASE d # c
    BY <1>1, <1>3, <1>7, <2>1 DEF Sends
  <2>2. CASE d = c
    <3>1. up'[c] = Append(up[c], m) /\ ver'[c] = ver[c] + 1
      BY <1>1, <1>7, <2>2 DEF Sends
    <3> QED BY <1>2, <1>7, <2>2, <3>1, OrderOfAppend
  <2> QED BY <2>1, <2>2
<1>8. ASSUME NEW d \in Conn, CloseArrives(d), UNCHANGED <<tcp, ver>>
      PROVE  InOrder(tcp'[c], up'[c], ver'[c])
  <2>1. PICK n \in 0 .. Len(up[d]) : up' = [up EXCEPT ![d] = SubSeq(@, 1, n)]
    BY <1>8 DEF CloseArrives
  <2>2. CASE d # c
    BY <1>1, <1>3, <1>8, <2>1, <2>2
  <2>3. CASE d = c
    <3>1. up'[c] = SubSeq(up[c], 1, n) /\ n \in 0 .. Len(up[c])
      BY <1>1, <2>1, <2>3
    <3> QED BY <1>2, <1>8, <3>1, OrderOfPrefix
  <2> QED BY <2>2, <2>3
<1> QED BY <1>3, <1>4, <1>5, <1>6, <1>7, <1>8, OrderWrites

-----------------------------------------------------------------------------
(* One client at a time. *)

(* Only Start makes a client alive, and not while another runs there.      *)
LEMMA AliveOnceKept ==
  ASSUME TypeOK, SeatInv, AliveOnce, [Next]_vars
  PROVE  AliveOnce'
<1>1. phase \in [Conn -> {"off", "meta", "run", "gone"}]
  BY DEF TypeOK, WireTypeOK
<1>2. ASSUME NEW d \in Conn, Accepting(d)
      PROVE  phase' = phase
  BY <1>2 DEF Accepting
<1>3. ASSUME NEW d \in Conn, NEW i \in Slots, Admit(d, i)
      PROVE  phase' = phase
  BY <1>2, <1>3 DEF Admit
<1>4. ASSUME NEW s \in Slots, Leave(s)
      PROVE  phase' = phase
  BY <1>4 DEF Leave, Serving
<1>5. ASSUME phase' = phase
      PROVE  AliveOnce'
  BY <1>5 DEF AliveOnce, Alive
<1>6. ASSUME Onward
      PROVE  AliveOnce'
  <2>1. \A c \in Conn : phase'[c] \in {"meta", "run"} => phase[c] \in {"meta", "run"}
    BY <1>1, <1>6 DEF Onward
  <2> QED BY <2>1 DEF AliveOnce, Alive
<1>7. ASSUME NEW d \in Conn, Start(d)
      PROVE  AliveOnce'
  <2>1. \A c \in Conn : c # d => phase'[c] = phase[c]
    BY <1>1, <1>7 DEF Start
  <2>2. \A c \in Conn : AddrOf[c] = AddrOf[d] => ~Alive(c)
    BY <1>7 DEF Start
  <2> QED BY <2>1, <2>2 DEF AliveOnce, Alive
<1> QED BY <1>2, <1>3, <1>4, <1>5, <1>6, <1>7, OtherStepsOnward

-----------------------------------------------------------------------------
(* What a game will show after reading what was sent to it. *)

(* A message about another record is read.                                 *)
LEMMA ReadOther ==
  ASSUME NEW q \in Seq(DownMsg), q # <<>>, NEW n, NEW r, NEW d, NEW v,
         ~About(q[1], n), Says(q, n, r, d, v)
  PROVE  Says(Tail(q), n, r, d, v)
<1>1. PICK l \in Nat : l = Len(q)
  OBVIOUS
<1>2. PICK w : /\ w = Tail(q) /\ Len(w) = l - 1 /\ 1 \in 1 .. l
               /\ \A k \in 1 .. l - 1 : k + 1 \in 1 .. l /\ w[k] = q[k + 1]
  <2>1. /\ Len(Tail(q)) = Len(q) - 1 /\ 1 \in 1 .. Len(q)
        /\ \A k \in 1 .. Len(Tail(q)) : k + 1 \in 1 .. Len(q) /\ Tail(q)[k] = q[k + 1]
    BY TailElements
  <2> QED BY <1>1, <2>1
<1>3. ASSUME NEW k \in 1 .. l, About(q[k], n), q[k].owner = d, q[k].ver >= v,
             \A m \in 1 .. l : About(q[m], n) => m <= k
      PROVE  Says(w, n, r, d, v)
  <2>1. k # 1
    BY <1>3
  <2>2. PICK j \in 1 .. l - 1 : j = k - 1 /\ w[j] = q[k]
    <3>1. k - 1 \in 1 .. l - 1 /\ k = (k - 1) + 1
      BY <2>1
    <3> QED BY <1>2, <3>1
  <2>3. \A m \in 1 .. l - 1 : About(w[m], n) => m <= j
    <3> TAKE m \in 1 .. l - 1
    <3>1. m + 1 \in 1 .. l /\ w[m] = q[m + 1]
      BY <1>2
    <3>2. About(w[m], n) => m + 1 <= k
      BY <1>3, <3>1
    <3> QED BY <2>2, <3>2
  <2> QED BY <1>2, <1>3, <2>2, <2>3 DEF Says
<1>4. ASSUME \A m \in 1 .. l : ~About(q[m], n), r.owner = d, r.ver >= v
      PROVE  Says(w, n, r, d, v)
  BY <1>2, <1>4 DEF Says
<1> QED BY <1>1, <1>2, <1>3, <1>4 DEF Says

(* A message about the record is read, and the record written. *)
LEMMA ReadThis ==
  ASSUME NEW q \in Seq(DownMsg), q # <<>>, NEW n, NEW r, NEW d, NEW v, NEW x,
         About(q[1], n), Says(q, n, r, d, v), x.owner = q[1].owner, x.ver = q[1].ver
  PROVE  Says(Tail(q), n, x, d, v)
<1>1. PICK l \in Nat : l = Len(q)
  OBVIOUS
<1>2. PICK w : /\ w = Tail(q) /\ Len(w) = l - 1 /\ 1 \in 1 .. l
               /\ \A k \in 1 .. l - 1 : k + 1 \in 1 .. l /\ w[k] = q[k + 1]
  <2>1. /\ Len(Tail(q)) = Len(q) - 1 /\ 1 \in 1 .. Len(q)
        /\ \A k \in 1 .. Len(Tail(q)) : k + 1 \in 1 .. Len(q) /\ Tail(q)[k] = q[k + 1]
    BY TailElements
  <2> QED BY <1>1, <2>1
<1>3. PICK k \in 1 .. l : /\ About(q[k], n) /\ q[k].owner = d /\ q[k].ver >= v
                          /\ \A m \in 1 .. l : About(q[m], n) => m <= k
  BY <1>1, <1>2 DEF Says
<1>4. CASE k = 1
  <2>1. ASSUME NEW m \in 1 .. l - 1
        PROVE  ~About(w[m], n)
    <3>1. m + 1 \in 1 .. l /\ w[m] = q[m + 1] /\ ~(m + 1 <= k)
      BY <1>2, <1>4
    <3> QED BY <1>3, <3>1
  <2> QED BY <1>2, <1>3, <1>4, <2>1 DEF Says
<1>5. CASE k # 1
  <2>1. PICK j \in 1 .. l - 1 : j = k - 1 /\ w[j] = q[k]
    <3>1. k - 1 \in 1 .. l - 1 /\ k = (k - 1) + 1
      BY <1>5
    <3> QED BY <1>2, <3>1
  <2>2. \A m \in 1 .. l - 1 : About(w[m], n) => m <= j
    <3> TAKE m \in 1 .. l - 1
    <3>1. m + 1 \in 1 .. l /\ w[m] = q[m + 1]
      BY <1>2
    <3>2. About(w[m], n) => m + 1 <= k
      BY <1>3, <3>1
    <3> QED BY <2>1, <3>2
  <2> QED BY <1>2, <1>3, <2>1, <2>2 DEF Says
<1> QED BY <1>4, <1>5

(* A message about another record is put behind. *)
LEMMA AppendOther ==
  ASSUME NEW q \in Seq(DownMsg), NEW m, NEW n, NEW r, NEW d, NEW v,
         ~About(m, n), Says(q, n, r, d, v)
  PROVE  Says(Append(q, m), n, r, d, v)
<1>1. PICK l \in Nat : l = Len(q)
  OBVIOUS
<1>2. PICK w : /\ w = Append(q, m) /\ Len(w) = l + 1 /\ w[l + 1] = m
               /\ \A k \in 1 .. l : w[k] = q[k]
  <2>1. /\ Len(Append(q, m)) = Len(q) + 1 /\ Append(q, m)[Len(q) + 1] = m
        /\ \A k \in 1 .. Len(q) : Append(q, m)[k] = q[k]
    BY AppendElements
  <2> QED BY <1>1, <2>1
<1>3. \A k \in 1 .. l + 1 : k \in 1 .. l \/ k = l + 1
  OBVIOUS
<1>4. \A k \in 1 .. l + 1 : About(w[k], n) => k \in 1 .. l /\ About(q[k], n)
  BY <1>2, <1>3
<1>5. ASSUME NEW k \in 1 .. l, About(q[k], n), q[k].owner = d, q[k].ver >= v,
             \A j \in 1 .. l : About(q[j], n) => j <= k
      PROVE  Says(w, n, r, d, v)
  <2>1. k \in 1 .. l + 1 /\ w[k] = q[k]
    BY <1>2
  <2> QED BY <1>2, <1>4, <1>5, <2>1 DEF Says
<1>6. ASSUME \A k \in 1 .. l : ~About(q[k], n), r.owner = d, r.ver >= v
      PROVE  Says(w, n, r, d, v)
  BY <1>2, <1>4, <1>6 DEF Says
<1> QED BY <1>1, <1>2, <1>5, <1>6 DEF Says

(* A message about the record is put behind. *)
LEMMA AppendThis ==
  ASSUME NEW q \in Seq(DownMsg), NEW m, NEW n, NEW r, NEW d, NEW v,
         About(m, n), m.owner = d, m.ver >= v
  PROVE  Says(Append(q, m), n, r, d, v)
<1>1. PICK l \in Nat : l = Len(q)
  OBVIOUS
<1>2. Len(Append(q, m)) = l + 1 /\ Append(q, m)[l + 1] = m /\ l + 1 \in 1 .. l + 1
  <2>1. Len(Append(q, m)) = Len(q) + 1 /\ Append(q, m)[Len(q) + 1] = m
    BY AppendElements
  <2> QED BY <1>1, <2>1
<1>3. \A k \in 1 .. l + 1 : k <= l + 1
  OBVIOUS
<1> QED BY <1>2, <1>3 DEF Says

(* The newcomer's snapshot says of every other seat what that player last  *)
(* SYNCed: the records come in slot order, each slot once, behind nothing  *)
(* that could contradict them.                                             *)
LEMMA WelcomeSays ==
  ASSUME TypeOK, SeatInv, NEW c \in Conn, NEW i \in Slots, Admit(c, i), Alive(c),
         NEW j \in Slots, i # j, NEW d \in Conn, np_table[j] = d, tcp[d] # NoTcp, NEW r
  PROVE  Says(down'[c], PeerIndex(i, j), r, d, tcp[d])
<1>1. PICK q \in Ascending(Synced(i)) :
        /\ Len(q) \in Nat /\ q \in [1 .. Len(q) -> Synced(i)]
        /\ Len(down[c]) \in Nat /\ Len(down'[c]) = Len(down[c]) + 2 + Len(q)
        /\ \A k \in 1 .. Len(down[c]) : down'[c][k] = down[c][k]
        /\ \A k \in {1, 2} : down'[c][Len(down[c]) + k].t # "peer"
        /\ \A k \in 1 .. Len(q) :
             down'[c][Len(down[c]) + 2 + k] =
               Kept(PeerIndex(i, q[k]), np_table[q[k]])
  BY AdmitElements
<1>2. PICK n \in Nat, l \in Nat : n = Len(down[c]) /\ l = Len(q)
  BY <1>1
<1>3. j \in Synced(i)
  BY WireAssumption DEF Synced
<1>4. PICK k \in 1 .. l : q[k] = j
  BY <1>2, <1>3, WelcomeComplete
<1>5. PICK p \in 1 .. n + 2 + l : p = n + 2 + k
  OBVIOUS
<1>6. down'[c][p] = Kept(PeerIndex(i, j), d)
  BY <1>1, <1>2, <1>4, <1>5
<1>7. \A x \in 1 .. l : q[x] \in Slots \ {i}
  BY <1>1, <1>2 DEF Synced
<1>8. ASSUME NEW x \in 1 .. n + 2 + l, About(down'[c][x], PeerIndex(i, j)), x > p
      PROVE  FALSE
  <2>1. PICK y \in 1 .. l : x = n + 2 + y
    <3>1. x > n + 2
      BY <1>5, <1>8
    <3>2. PICK y \in Int : y = x - (n + 2)
      OBVIOUS
    <3>3. y \in 1 .. l /\ x = n + 2 + y
      BY <3>1, <3>2
    <3> QED BY <3>3
  <2>2. down'[c][x] = Kept(PeerIndex(i, q[y]), np_table[q[y]])
    BY <1>1, <1>2, <2>1
  <2>3. q[y] = j
    BY <1>7, <1>8, <2>2, NumberingSound DEF About, Kept, Peer
  <2>4. y = k
    BY <1>2, <1>4, <2>3, WelcomeComplete
  <2> QED BY <1>5, <1>8, <2>1, <2>4
<1>9. \A x \in 1 .. n + 2 + l : About(down'[c][x], PeerIndex(i, j)) => x <= p
  BY <1>8
<1>10. About(down'[c][p], PeerIndex(i, j)) /\ down'[c][p].owner = d /\ down'[c][p].ver = tcp[d]
  BY <1>6 DEF About, Kept, Peer
<1>11. tcp[d] >= tcp[d]
  <2>1. tcp[d] \in Int
    BY VersionsAreInts DEF TypeOK, ServerTypeOK
  <2> QED BY <2>1
<1>12. Len(down'[c]) = n + 2 + l
  BY <1>1, <1>2
<1> QED BY <1>9, <1>10, <1>11, <1>12 DEF Says

(* A player's message is forwarded: it brings her record up to what the    *)
(* server now holds of her, and leaves the other records alone.            *)
LEMMA ForwardSays ==
  ASSUME TypeOK, SeatInv, JoinInv, NEW s \in Slots, CmdSync(s) \/ CmdCol(s),
         NEW c \in Conn, NEW d \in Conn, NEW i \in Slots, NEW j \in Slots, i # j,
         np_table[i] = c, Alive(c), np_table[j] = d, tcp'[d] # NoTcp, NEW r,
         tcp[d] # NoTcp => Says(down[c], PeerIndex(i, j), r, d, tcp[d])
  PROVE  Says(down'[c], PeerIndex(i, j), r, d, tcp'[d])
<1>1. PICK o \in Conn, m \in UpMsg, hit \in [Conn -> Conn \cup {None}], sy \in Ver \cup {NoTcp} :
        /\ np_table[s] = o
        /\ 1 \in 1 .. Len(up[o]) /\ m = up[o][1]
        /\ Forwarded(s, m.ver, hit, sy)
        /\ tcp' = [tcp EXCEPT ![o] = m.ver] \/ tcp' = tcp
  BY ServedMessage DEF Served
<1>2. /\ down[c] \in Seq(DownMsg) /\ tcp \in [Conn -> Ver \cup {NoTcp}]
      /\ m.ver \in Int /\ tcp[o] \in Int
  BY VersionsAreInts DEF TypeOK, WireTypeOK, ServerTypeOK, UpMsg
<1>3. Seated(c) /\ SeatOf(c) = i
  <2>1. Seated(c)
    BY DEF Seated
  <2> QED BY <2>1, SeatOfSlot, WireAssumption DEF SeatInv, SeatedOnce
<1>4. c \in Others(s) <=> s # i
  BY <1>3 DEF Others
<1> DEFINE msg == Peer(PeerIndex(i, s), o, m.ver, hit[c], sy)
<1>5. /\ s # i => down'[c] = Append(down[c], msg)
      /\ s = i => down'[c] = down[c]
  BY <1>1, <1>3, <1>4 DEF Forwarded
<1>6. CASE s = j
  <2>1. o = d /\ down'[c] = Append(down[c], msg)
    BY <1>1, <1>5, <1>6
  <2>2. tcp'[d] <= m.ver
    <3>1. tcp[o] <= m.ver
      BY <1>1 DEF JoinInv, UpInv, InOrder
    <3> QED BY <1>1, <1>2, <2>1, <3>1
  <2>3. About(msg, PeerIndex(i, j)) /\ msg.owner = d /\ msg.ver >= tcp'[d]
    <3>1. tcp'[d] \in Int
      BY <1>1, <1>2, <2>1
    <3> QED BY <1>2, <1>6, <2>1, <2>2, <3>1 DEF About, Peer
  <2> HIDE DEF msg
  <2> QED BY <1>2, <2>1, <2>3, AppendThis
<1>7. CASE s # j
  <2>1. o # d
    BY <1>1, <1>7, WireAssumption DEF SeatInv, SeatedOnce
  <2>2. tcp'[d] = tcp[d]
    BY <1>1, <1>2, <2>1
  <2>3. CASE s = i
    BY <1>5, <2>2, <2>3
  <2>4. CASE s # i
    <3>1. ~About(msg, PeerIndex(i, j))
      BY <1>7, <2>4, NumberingSound DEF About, Peer
    <3> HIDE DEF msg
    <3> QED BY <1>2, <1>5, <2>2, <2>4, <3>1, AppendOther
  <2> QED BY <2>3, <2>4
<1> QED BY <1>6, <1>7

(* A client step: reading a record shows it, nothing else touches what a   *)
(* running game was told.                                                  *)
LEMMA ClientSays ==
  ASSUME TypeOK, SeatInv, JoinInv, ClientNext, UNCHANGED serverVars,
         NEW c \in Conn, Seated(c), phase'[c] \in {"meta", "run"}, NEW n \in Slots,
         NEW d \in Conn, NEW v,
         Alive(c) => Says(down[c], n, rec[AddrOf[c]][n], d, v)
  PROVE  Says(down'[c], n, rec'[AddrOf[c]][n], d, v)
<1>1. /\ phase \in [Conn -> {"off", "meta", "run", "gone"}]
      /\ down \in [Conn -> Seq(DownMsg)] /\ rec \in [Addr -> [Slots -> Rec]]
      /\ AddrOf \in [Conn -> Addr]
  BY WireAssumption DEF TypeOK, WireTypeOK, ClientTypeOK
<1>2. ASSUME phase'[c] = phase[c], down'[c] = down[c], rec'[AddrOf[c]] = rec[AddrOf[c]]
      PROVE  Says(down'[c], n, rec'[AddrOf[c]][n], d, v)
  BY <1>2 DEF Alive
<1>3. ASSUME NEW a \in Addr, RestartGame(a)
      PROVE  Says(down'[c], n, rec'[AddrOf[c]][n], d, v)
  <2>1. phase' = phase /\ down' = down
    BY <1>3 DEF RestartGame
  <2>2. AddrOf[c] # a
    BY <1>3, <2>1 DEF RestartGame, Alive
  <2>3. rec'[AddrOf[c]] = rec[AddrOf[c]]
    BY <1>1, <1>3, <2>2 DEF RestartGame
  <2> QED BY <1>2, <2>1, <2>3
<1>10. ASSUME NEW a \in Addr, NetInit(a)
       PROVE  Says(down'[c], n, rec'[AddrOf[c]][n], d, v)
  BY <1>2, <1>10 DEF NetInit, wireVars
<1>4. ASSUME NEW e \in Conn, Start(e)
      PROVE  Says(down'[c], n, rec'[AddrOf[c]][n], d, v)
  <2>1. sock[e] = "none" /\ sock[c] = "open"
    BY <1>4 DEF Start, SeatInv, QueueInv, SeatedOnce
  <2> QED BY <1>1, <1>2, <1>4, <2>1 DEF Start
<1>5. ASSUME NEW e \in Conn, NEW reason, Ends(e, reason), UNCHANGED rec
      PROVE  Says(down'[c], n, rec'[AddrOf[c]][n], d, v)
  <2>1. e # c
    BY <1>1, <1>5 DEF Ends
  <2> QED BY <1>1, <1>2, <1>5, <2>1 DEF Ends
<1>6. ASSUME NEW e \in Conn, RecvMeta(e)
      PROVE  Says(down'[c], n, rec'[AddrOf[c]][n], d, v)
  <2>1. CASE Ends(e, "version")
    BY <1>5, <1>6, <2>1 DEF RecvMeta
  <2>2. CASE e # c /\ down' = [down EXCEPT ![e] = Tail(@)] /\ phase' = [phase EXCEPT ![e] = "run"]
    BY <1>1, <1>2, <1>6, <2>2 DEF RecvMeta
  <2>3. CASE e = c /\ down' = [down EXCEPT ![e] = Tail(@)] /\ Head(down[e]).t = "meta"
    <3>1. down[c] # <<>> /\ down'[c] = Tail(down[c]) /\ rec' = rec /\ Alive(c)
      BY <1>1, <1>6, <2>3 DEF RecvMeta, Alive
    <3>2. down[c][1] = Head(down[c])
      BY <1>1, <3>1
    <3>3. ~About(down[c][1], n)
      BY <2>3, <3>2 DEF About
    <3> QED BY <1>1, <3>1, <3>3, ReadOther
  <2> QED BY <1>6, <2>1, <2>2, <2>3 DEF RecvMeta
<1>7. ASSUME NEW e \in Conn, RecvTcp(e)
      PROVE  Says(down'[c], n, rec'[AddrOf[c]][n], d, v)
  <2>1. PICK m : m = Head(down[e]) /\ m = down[e][1] /\ m \in DownMsg
    BY <1>1, <1>7 DEF RecvTcp
  <2>2. rec' = IF m.t = "peer"
                  THEN [rec EXCEPT ![AddrOf[e]][m.idx] =
                          [owner |-> m.owner, ver |-> m.ver, synced |-> m.synced]]
                  ELSE rec
    BY <1>7, <2>1 DEF RecvTcp
  <2>3. m.t = "peer" => m.idx \in Slots /\ m.t # "ban"
    BY <2>1 DEF DownMsg, Control, PeerMsg
  <2>4. CASE m.t = "ban"
    BY <1>5, <1>7, <2>1, <2>2, <2>4 DEF RecvTcp
  <2>5. CASE m.t # "ban"
    <3>1. down' = [down EXCEPT ![e] = Tail(@)] /\ phase' = phase /\ Alive(e) /\ down[e] # <<>>
      BY <1>7, <2>1, <2>5 DEF RecvTcp, Alive
    <3>2. Alive(c)
      BY <3>1 DEF Alive
    <3>3. CASE e # c
      <4>1. AddrOf[e] # AddrOf[c]
        BY <3>1, <3>2, <3>3 DEF JoinInv, AliveOnce
      <4>2. rec'[AddrOf[c]] = rec[AddrOf[c]]
        BY <1>1, <2>2, <4>1
      <4> QED BY <1>1, <1>2, <3>1, <3>3, <4>2
    <3>4. CASE e = c
      <4>1. down'[c] = Tail(down[c]) /\ down[c] # <<>> /\ down[c][1] = m
        BY <1>1, <2>1, <3>1, <3>4
      <4>2. CASE About(m, n)
        <5>1. rec'[AddrOf[c]][n] = [owner |-> m.owner, ver |-> m.ver, synced |-> m.synced]
          BY <1>1, <2>2, <2>3, <3>4, <4>2 DEF About
        <5>2. rec'[AddrOf[c]][n].owner = m.owner /\ rec'[AddrOf[c]][n].ver = m.ver
          BY <5>1
        <5> QED BY <1>1, <3>2, <4>1, <4>2, <5>2, ReadThis
      <4>3. CASE ~About(m, n)
        <5>1. rec'[AddrOf[c]][n] = rec[AddrOf[c]][n]
          BY <1>1, <2>2, <2>3, <3>4, <4>3 DEF About
        <5> QED BY <1>1, <3>2, <4>1, <4>3, <5>1, ReadOther
      <4> QED BY <4>2, <4>3
    <3> QED BY <3>3, <3>4
  <2> QED BY <2>4, <2>5
<1>8. ASSUME NEW e \in Conn, RecvEof(e) \/ Exit(e)
      PROVE  Says(down'[c], n, rec'[AddrOf[c]][n], d, v)
  BY <1>5, <1>8 DEF RecvEof, Exit
<1>9. ASSUME NEW e \in Conn,
             RecvUdp(e) \/ SendUdp(e) \/ SendSync(e) \/ (\E l \in Slots \ {0} : SendCol(e, l))
      PROVE  Says(down'[c], n, rec'[AddrOf[c]][n], d, v)
  BY <1>2, <1>9 DEF RecvUdp, SendUdp, SendSync, SendCol, Sends
<1> QED BY <1>3, <1>4, <1>6, <1>7, <1>8, <1>9, <1>10 DEF ClientNext

(* The snapshot and what is forwarded after it leave no gap.               *)
LEMMA InformedKept ==
  ASSUME TypeOK, SeatInv, JoinInv, [Next]_vars
  PROVE  Informed'
<1>1. /\ np_table \in [Slots -> Conn \cup {None}] /\ tcp \in [Conn -> Ver \cup {NoTcp}]
      /\ down \in [Conn -> Seq(DownMsg)] /\ None \notin Conn
  BY WireAssumption DEF TypeOK, WireTypeOK, ServerTypeOK
<1> SUFFICES ASSUME NEW c \in Conn, NEW d \in Conn, NEW i \in Slots, NEW j \in Slots, i # j,
                    np_table'[i] = c, phase'[c] \in {"meta", "run"},
                    np_table'[j] = d, tcp'[d] # NoTcp
             PROVE  Says(down'[c], PeerIndex(i, j), rec'[AddrOf[c]][PeerIndex(i, j)], d, tcp'[d])
  BY DEF Informed, Alive
<1>2. PICK n \in Slots : n = PeerIndex(i, j)
  BY NumberingSound
<1> DEFINE Goal == Says(down'[c], n, rec'[AddrOf[c]][n], d, tcp'[d])
<1> SUFFICES Goal
  BY <1>2
<1>3. ASSUME np_table[i] = c, np_table[j] = d, Alive(c), tcp[d] # NoTcp
      PROVE  Says(down[c], n, rec[AddrOf[c]][n], d, tcp[d])
  BY <1>2, <1>3 DEF JoinInv, Informed
<1>4. ASSUME UNCHANGED <<np_table, tcp, phase, rec>>, down'[c] = down[c]
      PROVE  Goal
  BY <1>3, <1>4 DEF Alive
<1>5. CASE ServerStep
  <2>1. rec' = rec
    BY <1>5 DEF ServerStep, clientVars
  <2>2. CASE Select \/ ServeDgram
    BY <1>4, <2>1, <2>2 DEF Select, ServeDgram
  <2>3. ASSUME NEW e \in Conn, RefuseBanned(e) \/ RefuseFull(e)
        PROVE  Goal
    <3>1. UNCHANGED <<np_table, tcp, phase>>
      BY <2>3 DEF RefuseBanned, RefuseFull, Accepting
    <3>2. down'[c] = down[c] \/ down'[c] = Append(down[c], Ctl("ban"))
      BY <1>1, <2>3 DEF RefuseBanned, RefuseFull
    <3>3. ~About(Ctl("ban"), n)
      BY DEF About, Ctl
    <3>4. CASE down'[c] = down[c]
      BY <1>4, <2>1, <3>1, <3>4
    <3>5. CASE down'[c] = Append(down[c], Ctl("ban"))
      <4>1. down[c] \in Seq(DownMsg) /\ rec'[AddrOf[c]][n] = rec[AddrOf[c]][n] /\ tcp'[d] = tcp[d]
        BY <1>1, <2>1, <3>1
      <4>2. Says(down[c], n, rec[AddrOf[c]][n], d, tcp[d])
        BY <1>3, <3>1 DEF Alive
      <4>3. Says(Append(down[c], Ctl("ban")), n, rec[AddrOf[c]][n], d, tcp[d])
        BY <3>3, <4>1, <4>2, AppendOther
      <4> QED BY <3>5, <4>1, <4>3
    <3> QED BY <3>2, <3>4, <3>5
  <2>4. ASSUME NEW s \in Slots, Leave(s)
        PROVE  Goal
    <3>1. np_table[i] = c /\ np_table[j] = d
      BY <1>1, <2>4 DEF Leave
    <3>2. UNCHANGED <<tcp, phase, down>>
      BY <2>4 DEF Leave, Serving
    <3> QED BY <1>3, <2>1, <3>1, <3>2 DEF Alive
  <2>5. ASSUME NEW s \in Slots, Stray(s)
        PROVE  Goal
    BY <1>4, <2>1, <2>5 DEF Stray, Serving
  <2>6. ASSUME NEW s \in Slots, CmdSync(s) \/ CmdCol(s)
        PROVE  Goal
    <3>1. np_table' = np_table /\ phase' = phase
      BY <2>6 DEF CmdSync, CmdCol, Serving
    <3>2. np_table[i] = c /\ np_table[j] = d /\ Alive(c)
      BY <3>1 DEF Alive
    <3>3. tcp[d] # NoTcp => Says(down[c], n, rec[AddrOf[c]][n], d, tcp[d])
      BY <1>3, <3>2
    <3>4. Says(down'[c], n, rec[AddrOf[c]][n], d, tcp'[d])
      BY <1>2, <2>6, <3>2, <3>3, ForwardSays
    <3> QED BY <2>1, <3>4
  <2>7. ASSUME NEW e \in Conn, NEW s \in Slots, Admit(e, s)
        PROVE  Goal
    <3>1. /\ np_table' = [np_table EXCEPT ![s] = e] /\ tcp' = [tcp EXCEPT ![e] = NoTcp]
          /\ phase' = phase
      BY <2>7 DEF Admit, Accepting
    <3>2. d # e /\ tcp'[d] = tcp[d] /\ j # s /\ np_table[j] = d
      BY <1>1, <3>1
    <3>3. Alive(c)
      BY <3>1 DEF Alive
    <3>4. CASE c = e
      <4>1. ~Seated(c)
        BY <2>7, <3>4, AcceptFacts DEF Admit
      <4>2. i = s
        BY <1>1, <3>1, <4>1 DEF Seated
      <4> QED BY <1>2, <2>7, <3>2, <3>3, <3>4, <4>2, WelcomeSays
    <3>5. CASE c # e
      <4>1. np_table[i] = c
        BY <1>1, <3>1, <3>5
      <4>2. down'[c] = down[c]
        BY <2>7, <3>5, AdmitElements
      <4> QED BY <1>3, <2>1, <3>2, <3>3, <4>1, <4>2
    <3> QED BY <3>4, <3>5
  <2> HIDE DEF Goal
  <2> QED BY <1>5, <2>2, <2>3, <2>4, <2>5, <2>6, <2>7 DEF ServerStep, ServerNext
<1>6. CASE ClientStep
  <2>1. UNCHANGED serverVars /\ ClientNext /\ np_table' = np_table /\ tcp' = tcp
    BY <1>6 DEF ClientStep, serverVars
  <2>2. Seated(c)
    BY <2>1 DEF Seated
  <2>3. Alive(c) => Says(down[c], n, rec[AddrOf[c]][n], d, tcp[d])
    BY <1>3, <2>1
  <2>4. Says(down'[c], n, rec'[AddrOf[c]][n], d, tcp[d])
    BY <2>1, <2>2, <2>3, ClientSays
  <2> QED BY <2>1, <2>4
<1>7. CASE NetworkStep
  BY <1>4, <1>7 DEF NetworkStep, LoseDgram, CloseArrives, serverVars, clientVars
<1>8. CASE UNCHANGED vars
  BY <1>4, <1>8 DEF vars, wireVars, serverVars, clientVars
<1> HIDE DEF Goal
<1> QED BY <1>5, <1>6, <1>7, <1>8 DEF Next

(* The inductive invariant of the join.  That the versions under way are   *)
(* in order is needed for COL, which forwards a record the server does not *)
(* keep; that a host runs one client at a time, for the game's memory.     *)
THEOREM JoinInvariant == Spec => []JoinInv
<1>1. Init => JoinInv
  <2>1. Init => AliveOnce
    BY DEF Init, WireInit, AliveOnce, Alive
  <2>2. Init => UpInv
    BY VersionsAreInts DEF Init, WireInit, ServerInit, ClientInit, UpInv, InOrder, NoTcp
  <2>3. Init => Informed
    BY WireAssumption DEF Init, ServerInit, Informed
  <2> QED BY <2>1, <2>2, <2>3 DEF JoinInv
<1>2. TypeOK /\ SeatInv /\ JoinInv /\ [Next]_vars => JoinInv'
  BY AliveOnceKept, UpInvKept, InformedKept DEF JoinInv
<1>3. TypeInv => TypeOK
  BY DEF TypeInv
<1> QED BY <1>1, <1>2, <1>3, TypeInvariant, SeatInvariant, PTL DEF Spec

(* Whoever has read all that the server sent knows every other player who  *)
(* is seated, at least as that player last SYNCed, the character aside:    *)
(* net_init may reset it after that (the run NetChar).                     *)
THEOREM JoinsMissNothing == Spec => []JoinMissesNothing
<1>1. TypeOK /\ JoinInv => JoinMissesNothing
  <2> SUFFICES ASSUME TypeOK, JoinInv, NEW i \in Slots, NEW j \in Slots, i # j,
                      np_table[i] # None, np_table[j] # None,
                      NEW c, c = np_table[i], NEW d, d = np_table[j],
                      phase[c] = "run", down[c] = <<>>, tcp[d] # NoTcp
               PROVE  /\ rec[AddrOf[c]][PeerIndex(i, j)].owner = d
                      /\ rec[AddrOf[c]][PeerIndex(i, j)].ver >= tcp[d]
    BY DEF JoinMissesNothing
  <2>1. c \in Conn /\ d \in Conn
    BY DEF TypeOK, ServerTypeOK
  <2>2. Says(<<>>, PeerIndex(i, j), rec[AddrOf[c]][PeerIndex(i, j)], d, tcp[d])
    BY <2>1 DEF JoinInv, Informed, Alive
  <2> QED BY <2>2 DEF Says
<1>2. TypeInv => TypeOK
  BY DEF TypeInv
<1> QED BY <1>1, <1>2, TypeInvariant, JoinInvariant, PTL

-----------------------------------------------------------------------------
(* What a player SYNCs is numbered upwards all the way from her stream     *)
(* over the server and the stream of a viewer to the viewer's records; the *)
(* COLs in between only run ahead of it.                                   *)

(* A record of o in version v, sent when sy was the last she had SYNCed.   *)
Behind(o, v, sy) == sy <= v /\ sy <= tcp[o] /\ sock[o] \in {"open", "closed"}

(* What c was sent of o and has not read is version sy or later.           *)
Ahead(c, o, sy) ==
  \A l \in 1 .. Len(down[c]) :
    down[c][l].t = "peer" /\ down[c][l].owner = o => sy <= down[c][l].ver

RecOrder ==
  \A a \in Addr : \A n \in Slots :
    LET r == rec[a][n]
    IN \/ r = NoRec
       \/ /\ r.owner \in Conn
          /\ Behind(r.owner, r.ver, r.synced)
          /\ \A c \in Conn : AddrOf[c] = a => Ahead(c, r.owner, r.synced)

DownOrder ==
  \A c \in Conn : \A k \in 1 .. Len(down[c]) :
    LET m == down[c][k]
    IN m.t = "peer" =>
         /\ Behind(m.owner, m.ver, m.synced)
         /\ \A l \in 1 .. Len(down[c]) :
              down[c][l].t = "peer" /\ down[c][l].owner = m.owner /\ k < l
                => m.synced <= down[c][l].ver

(* Nothing is kept for a client that is not running.                       *)
Quiet == \A c \in Conn : ~Alive(c) => down[c] = <<>>

OrderInv == Quiet /\ RecOrder /\ DownOrder

(* What was SYNCed stays SYNCed: the server's copy is reset for a player   *)
(* of whom nothing was sent yet, and replaced by later versions only.      *)
LEMMA BehindKept ==
  ASSUME TypeOK, SeatInv, UpInv, [Next]_vars, NEW o \in Conn, NEW v \in Int, NEW sy \in Int,
         Behind(o, v, sy)
  PROVE  Behind(o, v, sy)'
<1>1. /\ up \in [Conn -> Seq(UpMsg)] /\ tcp \in [Conn -> Ver \cup {NoTcp}] /\ Ver \subseteq Int
      /\ NoTcp \in Int
  BY VersionsAreInts DEF TypeOK, WireTypeOK, ServerTypeOK
<1>2. tcp[o] \in Int
  BY <1>1
<1>3. sock'[o] \in {"open", "closed"}
  BY SeatsOnward DEF Behind
<1>4. sy <= tcp'[o]
  <2>1. CASE tcp'[o] = tcp[o]
    BY <2>1 DEF Behind
  <2>2. ASSUME NEW d \in Conn, NEW i \in Slots, Admit(d, i)
        PROVE  tcp'[o] = tcp[o]
    <3>1. d # o
      BY <2>2, AcceptFacts DEF Admit, Behind
    <3> QED BY <1>1, <2>2, <3>1 DEF Admit
  <2>3. ASSUME NEW s \in Slots, CmdSync(s), tcp'[o] # tcp[o]
        PROVE  sy <= tcp'[o]
    <3>1. PICK d \in Conn : d = rdSock[s]
      BY <2>3 DEF CmdSync, Serving, TypeOK, ServerTypeOK
    <3>2. up[d] # <<>> /\ tcp' = [tcp EXCEPT ![d] = Head(up[d]).ver]
      BY <2>3, <3>1 DEF CmdSync, SyncKeeps, Received
    <3>3. d = o /\ tcp'[o] = Head(up[o]).ver
      BY <1>1, <2>3, <3>2
    <3>4. 1 \in 1 .. Len(up[o]) /\ Head(up[o]) = up[o][1] /\ up[o][1] \in UpMsg
      BY <1>1, <3>2, <3>3
    <3>5. tcp[o] <= up[o][1].ver
      BY <3>4 DEF UpInv, InOrder
    <3>6. up[o][1].ver \in Int
      BY <1>1, <3>4 DEF UpMsg
    <3> QED BY <1>2, <3>3, <3>4, <3>5, <3>6 DEF Behind
  <2> QED BY <2>1, <2>2, <2>3, OrderWrites
<1> QED BY <1>3, <1>4 DEF Behind

-----------------------------------------------------------------------------
(* What a step puts behind what a client was sent: records of seated       *)
(* players, no older than what the server keeps of them.                   *)
Fresh(m) ==
  /\ m.owner \in Conn /\ tcp[m.owner] <= m.ver
  /\ m.synced <= m.ver /\ m.synced <= tcp'[m.owner]
  /\ sock'[m.owner] \in {"open", "closed"}

Grown(c) ==
  /\ \A l \in 1 .. Len(down'[c]) :
       \/ l \in 1 .. Len(down[c]) /\ down'[c][l] = down[c][l]
       \/ l > Len(down[c]) /\ (down'[c][l].t = "peer" => Fresh(down'[c][l]))
  /\ \A k, l \in 1 .. Len(down'[c]) :
       Len(down[c]) < k /\ k < l /\ down'[c][k].t = "peer"
         => down'[c][k].synced <= tcp[down'[c][k].owner]

(* The welcome puts what the server keeps behind what was there. *)
LEMMA AdmitGrows ==
  ASSUME TypeOK, SeatInv, NEW c \in Conn, NEW i \in Slots, Admit(c, i), Alive(c)
  PROVE  Grown(c)
<1>1. PICK q \in Ascending(Synced(i)) :
        /\ Len(q) \in Nat /\ q \in [1 .. Len(q) -> Synced(i)]
        /\ Len(down[c]) \in Nat /\ Len(down'[c]) = Len(down[c]) + 2 + Len(q)
        /\ \A j \in 1 .. Len(down[c]) : down'[c][j] = down[c][j]
        /\ \A j \in {1, 2} : down'[c][Len(down[c]) + j].t # "peer"
        /\ \A j \in 1 .. Len(q) :
             down'[c][Len(down[c]) + 2 + j] = Kept(PeerIndex(i, q[j]), np_table[q[j]])
  BY AdmitElements
<1>2. PICK n \in Nat, z \in Nat : n = Len(down[c]) /\ z = Len(q)
  BY <1>1
<1>3. \A j \in 1 .. z : q[j] \in Slots \ {i} /\ np_table[q[j]] # None
  BY <1>1, <1>2 DEF Synced
<1>4. ASSUME NEW l \in 1 .. n + 2 + z, l > n, down'[c][l].t = "peer"
      PROVE  /\ Fresh(down'[c][l])
             /\ down'[c][l].synced <= tcp[down'[c][l].owner]
  <2>1. PICK j \in 1 .. z : l = n + 2 + j
    <3>1. l # n + 1 /\ l # n + 2
      BY <1>1, <1>2, <1>4
    <3>2. l - (n + 2) \in 1 .. z /\ l = n + 2 + (l - (n + 2))
      BY <1>4, <3>1
    <3> QED BY <3>2
  <2>2. PICK o : o = np_table[q[j]]
    OBVIOUS
  <2>3. down'[c][l] = Kept(PeerIndex(i, q[j]), o)
    BY <1>1, <1>2, <2>1, <2>2
  <2>4. down'[c][l].owner = o /\ down'[c][l].ver = tcp[o] /\ down'[c][l].synced = tcp[o]
    BY <2>3 DEF Kept, Peer
  <2>5. o \in Conn /\ Fits(c, o, PeerIndex(i, q[j]))'
    BY <1>3, <2>2, AdmittedFits
  <2>6. tcp[o] \in Int
    BY <2>5, VersionsAreInts DEF TypeOK, ServerTypeOK
  <2>7. tcp'[o] = tcp[o]
    <3>1. o # c
      BY <1>3, <2>2, AcceptFacts DEF Admit, Seated
    <3> QED BY <2>5, <3>1 DEF Admit, TypeOK, ServerTypeOK
  <2> QED BY <2>4, <2>5, <2>6, <2>7 DEF Fresh, Fits
<1>5. ASSUME NEW l \in 1 .. n + 2 + z
      PROVE  \/ l \in 1 .. n /\ down'[c][l] = down[c][l]
             \/ l > n /\ (down'[c][l].t = "peer" => Fresh(down'[c][l]))
  BY <1>1, <1>2, <1>4
<1>6. Len(down'[c]) = n + 2 + z
  BY <1>1, <1>2
<1>7. ASSUME NEW k \in 1 .. n + 2 + z, n < k, down'[c][k].t = "peer"
      PROVE  down'[c][k].synced <= tcp[down'[c][k].owner]
  BY <1>4, <1>7
<1> QED BY <1>2, <1>5, <1>6, <1>7 DEF Grown

(* A SYNC or a COL puts one record behind, that of the one who sent it. *)
LEMMA ForwardGrows ==
  ASSUME TypeOK, SeatInv, UpInv, [Next]_vars, NEW s \in Slots, CmdSync(s) \/ CmdCol(s),
         NEW c \in Conn
  PROVE  Grown(c)
<1>1. PICK o \in Conn, m \in UpMsg, hit \in [Conn -> Conn \cup {None}], sy \in Ver \cup {NoTcp} :
        Served(s, o, m, hit, sy)
  BY ServedMessage
<1>2. /\ down \in [Conn -> Seq(DownMsg)] /\ tcp \in [Conn -> Ver \cup {NoTcp}]
      /\ m.ver \in Int /\ tcp[o] \in Int /\ sy \in Int
  BY VersionsAreInts DEF TypeOK, WireTypeOK, ServerTypeOK, UpMsg
<1>3. PICK n \in Nat : n = Len(down[c])
  BY <1>2
<1>4. \A l \in 1 .. Len(down'[c]) :
        \/ l \in 1 .. n /\ down'[c][l] = down[c][l]
        \/ l = n + 1 /\ down'[c][l] = Peer(PeerIndex(SeatOf(c), s), np_table[s], m.ver, hit[c], sy)
  BY <1>1, <1>3, ForwardedElements DEF Served
<1>5. ASSUME NEW x, x = Peer(PeerIndex(SeatOf(c), s), np_table[s], m.ver, hit[c], sy)
      PROVE  Fresh(x)
  <2>1. x.owner = o /\ x.ver = m.ver /\ x.synced = sy
    BY <1>1, <1>5 DEF Peer, Served
  <2>2. tcp[o] <= m.ver
    BY <1>1 DEF Served, UpInv, InOrder
  <2>3. sy <= m.ver /\ sy <= tcp'[o]
    BY <1>1, <1>2, <2>2 DEF Served
  <2>4. sock[o] \in {"open", "closed"}
    BY <1>1 DEF Served, SeatInv, SeatedOnce, Seated
  <2>5. sock'[o] \in {"open", "closed"}
    BY <2>4, SeatsOnward
  <2> QED BY <2>1, <2>2, <2>3, <2>5 DEF Fresh
<1>6. \A l \in 1 .. Len(down'[c]) :
        \/ l \in 1 .. n /\ down'[c][l] = down[c][l]
        \/ l > n /\ Fresh(down'[c][l])
  BY <1>4, <1>5
<1>7. \A k, l \in 1 .. Len(down'[c]) : ~(n < k /\ k < l)
  <2> SUFFICES ASSUME NEW k \in 1 .. Len(down'[c]), NEW l \in 1 .. Len(down'[c]), n < k, k < l
               PROVE  FALSE
    OBVIOUS
  <2>1. (l \in 1 .. n \/ l = n + 1) /\ (k \in 1 .. n \/ k = n + 1)
    BY <1>4
  <2> QED BY <2>1
<1> QED BY <1>3, <1>6, <1>7 DEF Grown

(* A client's stream is emptied, read from the front, or grows.            *)
LEMMA DownGrows ==
  ASSUME TypeOK, SeatInv, UpInv, [Next]_vars, NEW c \in Conn
  PROVE  \/ down'[c] = <<>>
         \/ down[c] # <<>> /\ down'[c] = Tail(down[c])
         \/ Grown(c)
<1>1. down \in [Conn -> Seq(DownMsg)]
  BY DEF TypeOK, WireTypeOK
<1>2. PICK n \in Nat : n = Len(down[c])
  BY <1>1
<1>3. CASE down'[c] = down[c]
  BY <1>2, <1>3 DEF Grown
<1>4. ASSUME NEW d \in Conn, DownRead(d) \/ DownDropped(d), down'[c] # down[c]
      PROVE  down'[c] = <<>> \/ (down[c] # <<>> /\ down'[c] = Tail(down[c]))
  BY <1>1, <1>4 DEF DownRead, DownDropped
<1>5. ASSUME NEW d \in Conn, DownNotice(d), down'[c] # down[c]
      PROVE  Grown(c)
  <2>1. down'[c] = Append(down[c], Ctl("ban")) /\ Ctl("ban").t # "peer"
    BY <1>1, <1>5 DEF DownNotice, Ctl
  <2>2. /\ Len(down'[c]) = n + 1
        /\ \A l \in 1 .. Len(down'[c]) :
             \/ l \in 1 .. n /\ down'[c][l] = down[c][l]
             \/ l = n + 1 /\ down'[c][l].t # "peer"
    BY <1>1, <1>2, <2>1, AppendElements
  <2>3. \A k, l \in 1 .. Len(down'[c]) : ~(n < k /\ k < l)
    BY <2>2
  <2> QED BY <1>2, <2>2, <2>3 DEF Grown
<1>6. ASSUME NEW d \in Conn, NEW i \in Slots, Admit(d, i), down'[c] # down[c]
      PROVE  Grown(c)
  <2>1. d = c /\ Alive(c)
    BY <1>6, AdmitElements
  <2> QED BY <1>6, <2>1, AdmitGrows
<1>7. ASSUME NEW s \in Slots, CmdSync(s) \/ CmdCol(s)
      PROVE  Grown(c)
  BY <1>7, ForwardGrows
<1> QED BY <1>3, <1>4, <1>5, <1>6, <1>7, DownWrites

-----------------------------------------------------------------------------
(* The streams and the records. *)

(* Who ends a client.                                                      *)
LEMMA PhaseWrites ==
  ASSUME TypeOK, [Next]_vars
  PROVE  \/ UNCHANGED phase
         \/ \E d \in Conn : Start(d)
         \/ \E d \in Conn : phase' = [phase EXCEPT ![d] = "run"]
         \/ \E d \in Conn : \E reason : Ends(d, reason)
<1>1. CASE ServerStep
  BY <1>1 DEF ServerStep, ServerNext, Select, RefuseBanned, RefuseFull, Admit, Accepting,
              ServeDgram, CmdSync, CmdCol, Leave, Stray, Serving
<1>2. CASE ClientStep
  <2>1. ASSUME NEW d \in Conn, RecvEof(d) \/ Exit(d)
        PROVE  \E reason : Ends(d, reason)
    BY <2>1 DEF RecvEof, Exit
  <2>2. ASSUME NEW d \in Conn, RecvMeta(d)
        PROVE  phase' = [phase EXCEPT ![d] = "run"] \/ \E reason : Ends(d, reason)
    BY <2>2 DEF RecvMeta
  <2>3. ASSUME NEW d \in Conn, RecvTcp(d)
        PROVE  UNCHANGED phase \/ \E reason : Ends(d, reason)
    BY <2>3 DEF RecvTcp
  <2>4. ASSUME NEW a \in Addr, RestartGame(a) \/ NetInit(a)
        PROVE  UNCHANGED phase
    BY <2>4 DEF RestartGame, NetInit, wireVars
  <2>5. ASSUME NEW d \in Conn,
               RecvUdp(d) \/ SendUdp(d) \/ SendSync(d) \/ (\E n \in Slots \ {0} : SendCol(d, n))
        PROVE  UNCHANGED phase
    BY <2>5 DEF RecvUdp, SendUdp, SendSync, SendCol, Sends
  <2> QED BY <1>2, <2>1, <2>2, <2>3, <2>4, <2>5 DEF ClientStep, ClientNext
<1>3. CASE NetworkStep
  BY <1>3 DEF NetworkStep, LoseDgram, CloseArrives
<1>4. CASE UNCHANGED vars
  BY <1>4 DEF vars, wireVars
<1> QED BY <1>1, <1>2, <1>3, <1>4 DEF Next

(* The server writes to nobody who is gone, and who ends reads no more.    *)
LEMMA QuietKept ==
  ASSUME TypeOK, SeatInv, Quiet, [Next]_vars
  PROVE  Quiet'
<1>1. phase \in [Conn -> {"off", "meta", "run", "gone"}] /\ down \in [Conn -> Seq(DownMsg)]
  BY DEF TypeOK, WireTypeOK
<1> SUFFICES ASSUME NEW c \in Conn, phase'[c] \notin {"meta", "run"}
             PROVE  down'[c] = <<>>
  BY DEF Quiet, Alive
<1>2. CASE ~Alive(c)
  <2>1. down[c] = <<>>
    BY <1>2 DEF Quiet
  <2>2. ASSUME NEW d \in Conn, DownRead(d) \/ DownDropped(d) \/ DownNotice(d)
        PROVE  down'[c] = <<>>
    BY <1>1, <1>2, <2>1, <2>2 DEF DownRead, DownDropped, DownNotice
  <2>3. ASSUME NEW d \in Conn, NEW i \in Slots, Admit(d, i)
        PROVE  down'[c] = <<>>
    BY <1>2, <2>1, <2>3, AdmitElements
  <2>4. ASSUME NEW s \in Slots, CmdSync(s) \/ CmdCol(s)
        PROVE  down'[c] = <<>>
    <3>1. c \notin Others(s)
      BY <1>2 DEF Others
    <3> QED BY <2>1, <2>4, <3>1, ServedMessage DEF Served, Forwarded
  <2> QED BY <2>1, <2>2, <2>3, <2>4, DownWrites
<1>3. CASE Alive(c)
  <2>1. phase'[c] # phase[c]
    BY <1>3 DEF Alive
  <2>2. \A d \in Conn : Start(d) => phase'[c] \in {phase[c], "meta"}
    BY <1>1 DEF Start
  <2>3. \A d \in Conn : phase' = [phase EXCEPT ![d] = "run"] => phase'[c] \in {phase[c], "run"}
    BY <1>1
  <2>4. PICK d \in Conn : \E reason : Ends(d, reason)
    BY <2>1, <2>2, <2>3, PhaseWrites
  <2>5. d = c
    BY <1>1, <2>1, <2>4 DEF Ends
  <2> QED BY <1>1, <2>4, <2>5 DEF Ends
<1> QED BY <1>2, <1>3

(* The streams to the clients: what comes behind a record is no older than *)
(* what had been SYNCed when that one was sent.                            *)
LEMMA DownOrderKept ==
  ASSUME TypeOK, TypeOK', SeatInv, UpInv, OrderInv, [Next]_vars
  PROVE  DownOrder'
<1>1. down \in [Conn -> Seq(DownMsg)] /\ down' \in [Conn -> Seq(DownMsg)]
      /\ tcp \in [Conn -> Ver \cup {NoTcp}]
  BY DEF TypeOK, WireTypeOK, ServerTypeOK
<1> SUFFICES ASSUME NEW c \in Conn, NEW k \in 1 .. Len(down'[c]), NEW o, NEW v, NEW sy,
                    down'[c][k].t = "peer", down'[c][k].owner = o, down'[c][k].ver = v,
                    down'[c][k].synced = sy
             PROVE  /\ Behind(o, v, sy)'
                    /\ \A l \in 1 .. Len(down'[c]) :
                         down'[c][l].t = "peer" /\ down'[c][l].owner = o /\ k < l
                           => sy <= down'[c][l].ver
  BY DEF DownOrder, Behind
<1>2. /\ \A l \in 1 .. Len(down'[c]) : down'[c][l] \in DownMsg
      /\ down[c] \in Seq(DownMsg)
  BY <1>1
<1>3. o \in Conn /\ v \in Int /\ sy \in Int
  BY <1>2, VersionsAreInts DEF DownMsg, Control, PeerMsg
<1>4. ASSUME NEW j \in 1 .. Len(down[c]), down'[c][k] = down[c][j]
      PROVE  /\ Behind(o, v, sy) /\ Behind(o, v, sy)'
             /\ \A l \in 1 .. Len(down[c]) :
                  down[c][l].t = "peer" /\ down[c][l].owner = o /\ j < l => sy <= down[c][l].ver
  <2>1. /\ Behind(o, v, sy)
        /\ \A l \in 1 .. Len(down[c]) :
             down[c][l].t = "peer" /\ down[c][l].owner = o /\ j < l => sy <= down[c][l].ver
    BY <1>4 DEF OrderInv, DownOrder
  <2> QED BY <1>3, <2>1, BehindKept
<1>5. CASE down[c] # <<>> /\ down'[c] = Tail(down[c])
  <2>1. \A l \in 1 .. Len(down'[c]) : l + 1 \in 1 .. Len(down[c]) /\ down'[c][l] = down[c][l + 1]
    BY <1>2, <1>5, TailElements
  <2>2. PICK j \in 1 .. Len(down[c]) : j = k + 1 /\ down'[c][k] = down[c][j]
    BY <2>1
  <2>3. \A l \in 1 .. Len(down'[c]) : k < l => j < l + 1
    BY <2>2
  <2> QED BY <1>4, <2>1, <2>2, <2>3
<1>6. CASE Grown(c)
  <2>1. PICK n \in Nat : n = Len(down[c])
    BY <1>2
  <2>2. CASE k \in 1 .. n /\ down'[c][k] = down[c][k]
    <3>1. /\ Behind(o, v, sy) /\ Behind(o, v, sy)'
          /\ \A l \in 1 .. n :
               down[c][l].t = "peer" /\ down[c][l].owner = o /\ k < l => sy <= down[c][l].ver
      BY <1>4, <2>1, <2>2
    <3>2. ASSUME NEW l \in 1 .. Len(down'[c]), down'[c][l].t = "peer", down'[c][l].owner = o, k < l
          PROVE  sy <= down'[c][l].ver
      <4>1. CASE l \in 1 .. n /\ down'[c][l] = down[c][l]
        BY <3>1, <3>2, <4>1
      <4>2. CASE Fresh(down'[c][l])
        <5>1. tcp[o] <= down'[c][l].ver /\ sy <= tcp[o]
          BY <3>1, <3>2, <4>2 DEF Fresh, Behind
        <5>2. tcp[o] \in Int /\ down'[c][l].ver \in Int
          BY <1>1, <1>2, <1>3, <3>2, VersionsAreInts DEF DownMsg, Control, PeerMsg
        <5> QED BY <1>3, <5>1, <5>2
      <4> QED BY <1>6, <2>1, <3>2, <4>1, <4>2 DEF Grown
    <3> QED BY <3>1, <3>2
  <2>3. CASE k > n /\ Fresh(down'[c][k])
    <3>1. Behind(o, v, sy)'
      BY <2>3 DEF Fresh, Behind
    <3>2. ASSUME NEW l \in 1 .. Len(down'[c]), down'[c][l].t = "peer", down'[c][l].owner = o, k < l
          PROVE  sy <= down'[c][l].ver
      <4>1. sy <= tcp[o]
        BY <1>6, <2>1, <2>3, <3>2 DEF Grown
      <4>2. l \notin 1 .. n
        BY <2>3, <3>2
      <4>3. tcp[o] <= down'[c][l].ver
        BY <1>6, <2>1, <3>2, <4>2 DEF Grown, Fresh
      <4>4. tcp[o] \in Int /\ down'[c][l].ver \in Int
        BY <1>1, <1>2, <1>3, <3>2, VersionsAreInts DEF DownMsg, Control, PeerMsg
      <4> QED BY <1>3, <4>1, <4>3, <4>4
    <3> QED BY <3>1, <3>2
  <2> QED BY <1>6, <2>1, <2>2, <2>3 DEF Grown
<1>7. CASE down'[c] = <<>>
  BY <1>7
<1> QED BY <1>5, <1>6, <1>7, DownGrows

(* What a viewer's stream holds stays ahead of what the game shows.        *)
LEMMA AheadKept ==
  ASSUME TypeOK, TypeOK', SeatInv, UpInv, [Next]_vars, NEW c \in Conn, NEW o \in Conn,
         NEW v \in Int, NEW sy \in Int, Behind(o, v, sy), Ahead(c, o, sy)
  PROVE  Ahead(c, o, sy)'
<1>1. /\ down[c] \in Seq(DownMsg) /\ down'[c] \in Seq(DownMsg)
      /\ tcp \in [Conn -> Ver \cup {NoTcp}]
  BY DEF TypeOK, WireTypeOK, ServerTypeOK
<1> SUFFICES ASSUME NEW l \in 1 .. Len(down'[c]), down'[c][l].t = "peer", down'[c][l].owner = o
             PROVE  sy <= down'[c][l].ver
  BY DEF Ahead
<1>2. ASSUME NEW j \in 1 .. Len(down[c]), down'[c][l] = down[c][j]
      PROVE  sy <= down'[c][l].ver
  BY <1>2 DEF Ahead
<1>3. CASE down[c] # <<>> /\ down'[c] = Tail(down[c])
  <2>1. l + 1 \in 1 .. Len(down[c]) /\ down'[c][l] = down[c][l + 1]
    BY <1>1, <1>3, TailElements
  <2> QED BY <1>2, <2>1
<1>4. CASE Fresh(down'[c][l])
  <2>1. down'[c][l] \in DownMsg
    BY <1>1
  <2>2. tcp[o] \in Int /\ down'[c][l].ver \in Int
    BY <1>1, <2>1, VersionsAreInts DEF DownMsg, Control, PeerMsg
  <2>3. tcp[o] <= down'[c][l].ver /\ sy <= tcp[o]
    BY <1>4 DEF Fresh, Behind
  <2> QED BY <2>2, <2>3
<1>5. CASE Grown(c)
  BY <1>2, <1>4, <1>5 DEF Grown
<1>6. CASE down'[c] = <<>>
  BY <1>6
<1> QED BY <1>3, <1>5, <1>6, DownGrows

(* What a read brings into a record. *)
LEMMA RecordRead ==
  ASSUME TypeOK, NEW d \in Conn, RecvTcp(d), NEW a \in Addr, NEW n \in Slots,
         rec'[a][n] # rec[a][n]
  PROVE  \E m \in PeerMsg :
           /\ m = down[d][1] /\ 1 \in 1 .. Len(down[d]) /\ a = AddrOf[d]
           /\ rec'[a][n] = [owner |-> m.owner, ver |-> m.ver, synced |-> m.synced]
           /\ down[d] # <<>> /\ down'[d] = Tail(down[d]) /\ Alive(d)
<1>1. /\ down \in [Conn -> Seq(DownMsg)] /\ rec \in [Addr -> [Slots -> Rec]]
      /\ AddrOf \in [Conn -> Addr]
  BY WireAssumption DEF TypeOK, WireTypeOK, ClientTypeOK
<1>2. PICK m \in DownMsg : m = Head(down[d]) /\ m = down[d][1] /\ 1 \in 1 .. Len(down[d])
  BY <1>1 DEF RecvTcp
<1>3. /\ m.t = "peer"
      /\ rec' = [rec EXCEPT ![AddrOf[d]][m.idx] =
                   [owner |-> m.owner, ver |-> m.ver, synced |-> m.synced]]
  BY <1>2 DEF RecvTcp
<1>4. m \in PeerMsg /\ m.idx \in Slots
  BY <1>2, <1>3 DEF DownMsg, Control, PeerMsg
<1>5. /\ a = AddrOf[d]
      /\ rec'[a][n] = [owner |-> m.owner, ver |-> m.ver, synced |-> m.synced]
  BY <1>1, <1>3, <1>4
<1>6. down[d] # <<>> /\ down'[d] = Tail(down[d]) /\ Alive(d)
  BY <1>1, <1>2, <1>3 DEF RecvTcp, Alive
<1> QED BY <1>2, <1>4, <1>5, <1>6

(* The records: all that a game's client has still to read is no older     *)
(* than what had been SYNCed of a record when it was sent.  A client that  *)
(* ran there before has nothing left to read.                              *)
LEMMA RecOrderKept ==
  ASSUME TypeOK, TypeOK', SeatInv, JoinInv, OrderInv, [Next]_vars
  PROVE  RecOrder'
<1>1. /\ rec \in [Addr -> [Slots -> Rec]] /\ rec' \in [Addr -> [Slots -> Rec]]
      /\ down \in [Conn -> Seq(DownMsg)] /\ UpInv
  BY DEF TypeOK, WireTypeOK, ClientTypeOK, JoinInv
<1> SUFFICES ASSUME NEW a \in Addr, NEW n \in Slots, rec'[a][n] # NoRec,
                    NEW o, NEW v, NEW sy, rec'[a][n].owner = o, rec'[a][n].ver = v,
                    rec'[a][n].synced = sy
             PROVE  /\ o \in Conn /\ Behind(o, v, sy)'
                    /\ \A c \in Conn : AddrOf[c] = a => Ahead(c, o, sy)'
  BY DEF RecOrder, Behind, Ahead
<1>2. v \in Int /\ sy \in Int
  <2>1. rec'[a][n] \in Rec
    BY <1>1
  <2> QED BY <2>1, VersionsAreInts DEF Rec
<1>3. CASE rec'[a][n] = rec[a][n]
  <2>1. /\ o \in Conn /\ Behind(o, v, sy)
        /\ \A c \in Conn : AddrOf[c] = a => Ahead(c, o, sy)
    BY <1>3 DEF OrderInv, RecOrder
  <2> QED BY <1>1, <1>2, <2>1, BehindKept, AheadKept
<1>4. ASSUME NEW b \in Addr, RestartGame(b)
      PROVE  rec'[a][n] = rec[a][n]
  BY <1>1, <1>4 DEF RestartGame, EmptyGame
<1>5. ASSUME NEW d \in Conn, RecvTcp(d), rec'[a][n] # rec[a][n]
      PROVE  /\ o \in Conn /\ Behind(o, v, sy)'
             /\ \A c \in Conn : AddrOf[c] = a => Ahead(c, o, sy)'
  <2>1. PICK m \in PeerMsg :
          /\ m = down[d][1] /\ 1 \in 1 .. Len(down[d]) /\ a = AddrOf[d]
          /\ rec'[a][n] = [owner |-> m.owner, ver |-> m.ver, synced |-> m.synced]
          /\ down[d] # <<>> /\ down'[d] = Tail(down[d]) /\ Alive(d)
    BY <1>5, RecordRead
  <2>2. o = m.owner /\ v = m.ver /\ sy = m.synced
    BY <2>1
  <2>3. o \in Conn /\ m.t = "peer"
    BY <2>2 DEF PeerMsg
  <2>4. /\ Behind(o, v, sy)
        /\ \A l \in 1 .. Len(down[d]) :
             down[d][l].t = "peer" /\ down[d][l].owner = o /\ 1 < l => sy <= down[d][l].ver
    BY <2>1, <2>2, <2>3 DEF OrderInv, DownOrder
  <2>5. Ahead(d, o, sy)'
    <3>1. \A l \in 1 .. Len(down'[d]) :
            l + 1 \in 1 .. Len(down[d]) /\ down'[d][l] = down[d][l + 1] /\ 1 < l + 1
      BY <1>1, <2>1, TailElements
    <3> QED BY <2>4, <3>1 DEF Ahead
  <2>6. ASSUME NEW c \in Conn, AddrOf[c] = a, c # d
        PROVE  Ahead(c, o, sy)'
    <3>1. ~Alive(c)
      BY <2>1, <2>6 DEF JoinInv, AliveOnce
    <3>2. down[c] = <<>>
      BY <3>1 DEF OrderInv, Quiet
    <3>3. Ahead(c, o, sy)
      BY <3>2 DEF Ahead
    <3> QED BY <1>1, <1>2, <2>3, <2>4, <3>3, AheadKept
  <2> QED BY <1>1, <1>2, <2>3, <2>4, <2>5, <2>6, BehindKept
<1> QED BY <1>3, <1>4, <1>5, GameWrites

(* The inductive invariant of the order: the version that was SYNCed when  *)
(* a record was sent bounds from below all that the server keeps of that   *)
(* player and all that a viewer of the record has still to read of her.    *)
THEOREM OrderInvariant == Spec => []OrderInv
<1>1. Init => OrderInv
  <2> SUFFICES ASSUME Init
               PROVE  OrderInv
    OBVIOUS
  <2>1. rec = [a \in Addr |-> EmptyGame] /\ down = [c \in Conn |-> <<>>]
    BY DEF Init, WireInit, ClientInit
  <2>2. \A a \in Addr : \A n \in Slots : rec[a][n] = NoRec
    BY <2>1 DEF EmptyGame
  <2> QED BY <2>1, <2>2 DEF OrderInv, Quiet, RecOrder, DownOrder
<1>2. TypeOK /\ TypeOK' /\ SeatInv /\ JoinInv /\ OrderInv /\ [Next]_vars => OrderInv'
  <2> SUFFICES ASSUME TypeOK, TypeOK', SeatInv, JoinInv, OrderInv, [Next]_vars
               PROVE  OrderInv'
    OBVIOUS
  <2>1. Quiet' /\ RecOrder'
    BY QuietKept, RecOrderKept DEF OrderInv
  <2>2. DownOrder'
    BY DownOrderKept DEF JoinInv
  <2> QED BY <2>1, <2>2 DEF OrderInv
<1>3. TypeInv => TypeOK
  BY DEF TypeInv
<1> QED BY <1>1, <1>2, <1>3, TypeInvariant, SeatInvariant, JoinInvariant, PTL DEF Spec

(* What a player had SYNCed when a game was sent her record is never taken *)
(* back there while it shows her; also by the welcome to a game whose last *)
(* client had read a COL, which is newer than what the server keeps.       *)
THEOREM RecordsOnward == Spec => NoRollback
<1>1. TypeOK /\ OrderInv /\ [Next]_vars
        => \A a \in Addr : \A n \in Slots :
             rec'[a][n].owner = rec[a][n].owner => rec'[a][n].ver >= rec[a][n].synced
  <2> SUFFICES ASSUME TypeOK, OrderInv, [Next]_vars, NEW a \in Addr, NEW n \in Slots,
                      rec'[a][n].owner = rec[a][n].owner
               PROVE  rec'[a][n].ver >= rec[a][n].synced
    OBVIOUS
  <2>1. PICK r \in Rec : r = rec[a][n]
    BY DEF TypeOK, ClientTypeOK
  <2>2. /\ r.synced \in Int /\ r.synced <= r.ver /\ r.ver \in Int
        /\ r.owner \in Conn =>
             \A c \in Conn : AddrOf[c] = a => Ahead(c, r.owner, r.synced)
    <3>1. CASE r = NoRec
      BY <3>1, VersionsAreInts, WireAssumption DEF NoRec
    <3>2. CASE r # NoRec
      BY <2>1, <3>2, VersionsAreInts DEF OrderInv, RecOrder, Behind, Rec
    <3> QED BY <3>1, <3>2
  <2>3. CASE rec'[a][n] = rec[a][n]
    BY <2>1, <2>2, <2>3
  <2>4. ASSUME NEW b \in Addr, RestartGame(b), rec'[a][n] # rec[a][n]
        PROVE  FALSE
    <3>1. rec'[a][n] = NoRec
      BY <2>4 DEF RestartGame, EmptyGame, TypeOK, ClientTypeOK
    <3>2. r.owner = None
      BY <2>1, <3>1 DEF NoRec
    <3>3. r = NoRec
      BY <2>1, <3>2, WireAssumption DEF OrderInv, RecOrder
    <3> QED BY <2>1, <2>4, <3>1, <3>3
  <2>5. ASSUME NEW d \in Conn, RecvTcp(d), rec'[a][n] # rec[a][n]
        PROVE  rec'[a][n].ver >= rec[a][n].synced
    <3>1. PICK m \in PeerMsg :
            /\ m = down[d][1] /\ 1 \in 1 .. Len(down[d]) /\ a = AddrOf[d]
            /\ rec'[a][n] = [owner |-> m.owner, ver |-> m.ver, synced |-> m.synced]
      BY <2>5, RecordRead
    <3>2. m.t = "peer" /\ m.owner \in Conn /\ m.ver \in Int
      BY <3>1, VersionsAreInts DEF PeerMsg
    <3>3. m.owner = r.owner /\ rec'[a][n].ver = m.ver
      BY <2>1, <3>1
    <3>4. Ahead(d, r.owner, r.synced)
      BY <2>2, <3>1, <3>2, <3>3
    <3>5. r.synced <= m.ver
      BY <3>1, <3>2, <3>3, <3>4 DEF Ahead
    <3> QED BY <2>1, <2>2, <3>2, <3>3, <3>5
  <2> QED BY <2>3, <2>4, <2>5, GameWrites
<1>2. TypeInv => TypeOK
  BY DEF TypeInv
<1> QED BY <1>1, <1>2, TypeInvariant, OrderInvariant, PTL DEF Spec, NoRollback
=============================================================================
