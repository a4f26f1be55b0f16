-------------------------------- MODULE Server --------------------------------
(***************************************************************************)
(* The server program (server/server.py, server/sm64net.py): one thread    *)
(* that polls its sockets with select(), takes what the poll returned in   *)
(* order (listener, datagram socket, then one message of every readable    *)
(* player), and polls again.  np_table is the table of NET_PL objects;     *)
(* tcp[c] is the NET_PL.tcp of connection c, the last record it SYNCed.    *)
(* The rest of an update() is kept in rd*: the world goes on between two   *)
(* of its steps.  SAVE commands are in module Save.                        *)
(***************************************************************************)
EXTENDS Wire

VARIABLES
  np_table,  \* the connection seated in each slot, or None
  tcp,       \* version of the record last SYNCed on a connection
  rdListen,  \* select() returned the listen socket, not yet served
  rdDgram,   \* the datagram at the head of s_udp, returned and not yet served
  rdSock     \* the player sockets returned and not yet served, by slot

serverVars == <<np_table, tcp, rdListen, rdDgram, rdSock>>

NoneReady == [s \in Slots |-> None]

ServerTypeOK ==
  /\ np_table \in [Slots -> Conn \cup {None}]
  /\ tcp \in [Conn -> Ver \cup {NoTcp}]
  /\ rdListen \in BOOLEAN
  /\ rdDgram \in Conn \cup {None}
  /\ rdSock \in [Slots -> Conn \cup {None}]

ServerInit ==
  /\ np_table = [s \in Slots |-> None]
  /\ tcp = [c \in Conn |-> NoTcp]
  /\ rdListen = FALSE
  /\ rdDgram = None
  /\ rdSock = NoneReady

Seated(c) == \E s \in Slots : np_table[s] = c
SeatOf(c) == CHOOSE s \in Slots : np_table[s] = c

(***************************************************************************)
(* select() with timeout 0.  A message or a datagram that is still under   *)
(* way is not seen; a datagram that is seen may arrive a second time.      *)
(***************************************************************************)
Readable == {s \in Slots : np_table[s] # None
                            /\ (up[np_table[s]] # <<>> \/ fin[np_table[s]])}

Select ==
  /\ ~rdListen /\ rdDgram = None /\ rdSock = NoneReady
  /\ rdListen' = (backlog # <<>>)
  /\ \/ rdDgram' = None /\ UNCHANGED udpUp
     \/ rdDgram' \in udpUp /\ udpUp' = udpUp \ {rdDgram'}
     \/ rdDgram' \in udpUp /\ UnderWay <= MaxDgram /\ UNCHANGED udpUp
  /\ \E R \in SUBSET Readable :
        rdSock' = [s \in Slots |-> IF s \in R THEN np_table[s] ELSE None]
  /\ rdListen' \/ rdDgram' # None \/ rdSock' # NoneReady
  /\ UNCHANGED <<np_table, tcp, backlog, sock, phase, fin, up, down, udpDown>>

(***************************************************************************)
(* What the server writes.  write_tcp swallows the error of a connection   *)
(* that is gone.                                                           *)
(***************************************************************************)
Ctl(t) == [t |-> t]
Peer(idx, owner, v, hit, synced) ==
  [t |-> "peer", idx |-> idx, owner |-> owner, ver |-> v, hit |-> hit, synced |-> synced]

(* The listening step of update(): update_connect on the first of the queue. *)
Accepting(c) ==
  /\ rdListen
  /\ backlog # <<>>
  /\ c = Head(backlog)
  /\ rdListen' = FALSE
  /\ backlog' = Tail(backlog)
  /\ UNCHANGED <<rdDgram, rdSock, phase, fin, up, udpUp, udpDown>>

(* ban.txt is read anew for each connection.  The host is in it: its       *)
(* message, if it has one, and the door.                                   *)
RefuseBanned(c) ==
  /\ Accepting(c)
  /\ AddrOf[c] \in Banned
  /\ sock' = [sock EXCEPT ![c] = "closed"]
  /\ down' = IF AddrOf[c] \in BanText /\ Alive(c)
                THEN [down EXCEPT ![c] = Append(@, Ctl("ban"))]
                ELSE down
  /\ UNCHANGED <<np_table, tcp>>

AdmitsAnywhere(c, s) == s \in Slots
Admits(c, s) == np_table[s] # None => AddrOf[np_table[s]] = AddrOf[c]

(* NET_PL.sync(False, True): the slots whose record a newcomer in i gets. *)
SyncedNone(i) == {s \in Slots : s # s}
Synced(i) == {s \in Slots \ {i} : np_table[s] # None /\ tcp[np_table[s]] # NoTcp}
Ascending(S) ==
  {q \in [1 .. Cardinality(S) -> S] : \A m, n \in DOMAIN q : m < n => q[m] < q[n]}

(* NET_PL.update_connect: NET_META, the program (three NFF files) and the  *)
(* save image as memory writes, then the records of the others.            *)
Kept(idx, d) == Peer(idx, d, tcp[d], None, tcp[d])

Welcome(i, q) ==
  <<Ctl("meta"), Ctl("write")>> \o
  [k \in 1 .. Len(q) |-> Kept(PeerIndex(i, q[k]), np_table[q[k]])]

(* The newcomer takes the first slot that is free or held by its own host; *)
(* the NET_PL it replaces is dropped and with it its socket.               *)
Admit(c, i) ==
  /\ Accepting(c)
  /\ Admits(c, i)
  /\ \A s \in Slots : s < i => ~Admits(c, s)
  /\ np_table' = [np_table EXCEPT ![i] = c]
  /\ tcp' = [tcp EXCEPT ![c] = NoTcp]
  /\ sock' = [d \in Conn |-> IF d = c THEN "open"
                             ELSE IF d = np_table[i] THEN "closed" ELSE sock[d]]
  /\ \E q \in Ascending(Synced(i)) :
        down' = IF Alive(c) THEN [down EXCEPT ![c] = @ \o Welcome(i, q)] ELSE down

RefuseFullKeepsSocket(c) ==
  /\ Accepting(c)
  /\ \A s \in Slots : ~Admits(c, s)
  /\ UNCHANGED <<sock, np_table, tcp, down>>

RefuseFull(c) ==
  /\ Accepting(c)
  /\ \A s \in Slots : ~Admits(c, s)
  /\ sock' = [sock EXCEPT ![c] = "closed"]
  /\ UNCHANGED <<np_table, tcp, down>>

(***************************************************************************)
(* The datagram step: the first slot of the sender's host is taken for the *)
(* sender; update_udp forwards to every other seat, at its host's address. *)
(***************************************************************************)
FirstOf(a, i) ==
  /\ np_table[i] # None
  /\ AddrOf[np_table[i]] = a
  /\ \A s \in Slots : s < i /\ np_table[s] # None => AddrOf[np_table[s]] # a

EchoesToSelf(i, c) ==
  {[to |-> AddrOf[np_table[s]], idx |-> PeerIndex(s, i), owner |-> c] :
     s \in {r \in Slots : np_table[r] # None}}
EchoesSwapped(i, c) ==
  {[to |-> AddrOf[np_table[s]], idx |-> PeerIndex(i, s), owner |-> c] :
     s \in {r \in Slots \ {i} : np_table[r] # None}}

Echoes(i, c) ==
  {[to |-> AddrOf[np_table[s]], idx |-> PeerIndex(s, i), owner |-> c] :
     s \in {r \in Slots \ {i} : np_table[r] # None}}

ServeDgram ==
  /\ ~rdListen
  /\ rdDgram # None
  /\ rdDgram' = None
  /\ \/ \E i \in Slots :
          /\ FirstOf(AddrOf[rdDgram], i)
          /\ udpDown' = udpDown \cup Echoes(i, rdDgram)
     \/ /\ \A s \in Slots : ~FirstOf(AddrOf[rdDgram], s)
        /\ UNCHANGED udpDown
  /\ UNCHANGED <<np_table, tcp, rdListen, rdSock>>
  /\ UNCHANGED <<backlog, sock, phase, fin, up, down, udpUp>>

(***************************************************************************)
(* The socket step, for the lowest slot left: one message or the end of    *)
(* the stream, looked up in the table as it is by now.                     *)
(***************************************************************************)
Serving(s) ==
  /\ ~rdListen /\ rdDgram = None
  /\ rdSock[s] # None
  /\ \A r \in Slots : r < s => rdSock[r] = None
  /\ rdSock' = [rdSock EXCEPT ![s] = None]
  /\ UNCHANGED <<rdListen, rdDgram, backlog, phase, fin, udpUp, udpDown>>

Received(c) == up[c] # <<>> /\ up' = [up EXCEPT ![c] = Tail(@)]

(* NET_PL.sync(True, True) and cmd_col: who is sent a message of slot i. *)
OthersBelow(i) == {d \in Conn : Alive(d) /\ Seated(d) /\ SeatOf(d) < i}
Others(i) == {d \in Conn : Alive(d) /\ Seated(d) /\ SeatOf(d) # i}

Forwarded(i, v, hit, synced) ==
  down' = [d \in Conn |->
             IF d \in Others(i)
                THEN Append(down[d],
                            Peer(PeerIndex(SeatOf(d), i), np_table[i], v, hit[d], synced))
                ELSE down[d]]

(* cmd_sync: the record is kept for newcomers and np_col cleared. *)
SyncForwards(c, m) == m.ver
SyncKeepsFirst(c, m) == IF tcp[c] = NoTcp THEN m.ver ELSE tcp[c]
SyncKeeps(c, m) == m.ver

CmdSync(s) ==
  /\ Serving(s)
  /\ np_table[s] = rdSock[s]
  /\ Received(rdSock[s])
  /\ LET c == rdSock[s]
         m == Head(up[c])
     IN /\ m.cmd = "SYNC"
        /\ tcp' = [tcp EXCEPT ![c] = SyncKeeps(c, m)]
        /\ Forwarded(s, SyncForwards(c, m), [d \in Conn |-> None], m.ver)
  /\ UNCHANGED <<np_table, sock>>

(* cmd_col: the record is forwarded only; the receiver that is record col  *)
(* of the sender's game gets np_col set.                                   *)
HitAsSeenByVictim(s, m) ==
  [d \in Conn |-> IF Seated(d) /\ PeerIndex(SeatOf(d), s) = m.col THEN m.aim ELSE None]
Hit(s, m) ==
  [d \in Conn |-> IF Seated(d) /\ PeerIndex(s, SeatOf(d)) = m.col THEN m.aim ELSE None]

CmdCol(s) ==
  /\ Serving(s)
  /\ np_table[s] = rdSock[s]
  /\ Received(rdSock[s])
  /\ LET c == rdSock[s]
         m == Head(up[c])
     IN /\ m.cmd = "COL"
        /\ Forwarded(s, m.ver, Hit(s, m), tcp[c])
  /\ UNCHANGED <<np_table, tcp, sock>>

LeaveKeepsSeat(s) ==
  /\ Serving(s)
  /\ np_table[s] = rdSock[s]
  /\ up[rdSock[s]] = <<>> /\ fin[rdSock[s]]
  /\ sock' = [sock EXCEPT ![rdSock[s]] = "closed"]
  /\ UNCHANGED <<np_table, tcp, up, down>>

(* recvall returned None: the slot is freed and the socket dropped. *)
Leave(s) ==
  /\ Serving(s)
  /\ np_table[s] = rdSock[s]
  /\ up[rdSock[s]] = <<>> /\ fin[rdSock[s]]
  /\ np_table' = [np_table EXCEPT ![s] = None]
  /\ sock' = [sock EXCEPT ![rdSock[s]] = "closed"]
  /\ UNCHANGED <<tcp, up, down>>

(* The socket lost its seat to a reconnect earlier in this update(). *)
Stray(s) ==
  /\ Serving(s)
  /\ np_table[s] # rdSock[s]
  /\ \/ Received(rdSock[s])
     \/ up[rdSock[s]] = <<>> /\ UNCHANGED up
  /\ UNCHANGED <<np_table, tcp, sock, down>>

ServerNext ==
  \/ Select
  \/ \E c \in Conn : RefuseBanned(c) \/ RefuseFull(c) \/ \E i \in Slots : Admit(c, i)
  \/ ServeDgram
  \/ \E s \in Slots : CmdSync(s) \/ CmdCol(s) \/ Leave(s) \/ Stray(s)
=============================================================================
