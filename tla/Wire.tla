--------------------------------- MODULE Wire ---------------------------------
(***************************************************************************)
(* What the server and the clients share: the TCP connections with their   *)
(* two byte streams, cut into the fixed-size messages both ends read, the  *)
(* listen queue, and the datagrams under way.  A connection stands for     *)
(* one run of the client program: the program connects once and exits when *)
(* the connection ends, so a reconnect is another member of Conn.          *)
(***************************************************************************)
EXTENDS PeerIndex, Sequences, FiniteSets

CONSTANTS
  Conn,      \* runs of the client program
  Addr,      \* host addresses
  AddrOf,    \* the host a client runs on
  Banned,    \* hosts that are written into ban.txt, or out of it, at any time
  BanText,   \* those of them whose line there carries a message
  MaxVer,    \* bound: TCP messages a client sends
  MaxDgram,  \* bound: datagrams under way
  None

ASSUME WireAssumption ==
  /\ AddrOf \in [Conn -> Addr]
  /\ Banned \subseteq Addr
  /\ BanText \subseteq Banned
  /\ MaxVer \in Nat
  /\ MaxDgram \in Nat
  /\ None \notin Conn

VARIABLES
  backlog,   \* listen queue: connections made and not yet accepted
  sock,      \* the server's end of a connection
  phase,     \* the client's end of a connection
  fin,       \* the server's host knows that the client's end is gone
  up,        \* TCP messages from a client to the server
  down,      \* TCP messages from the server to a client
  udpUp,     \* datagrams to the server (the client that sent each)
  udpDown    \* datagrams to clients

wireVars == <<backlog, sock, phase, fin, up, down, udpUp, udpDown>>

(***************************************************************************)
(* A player's TCP half of a NET_PL record (name, colour, stage, shape) is  *)
(* a version number: its owner numbers what it sends.  NoTcp is Python's   *)
(* None, "nothing synchronised yet".                                       *)
(***************************************************************************)
Ver   == 0 .. MaxVer
NoTcp == -1

(* Client to server: a command with the record it carries.  col is np_col, *)
(* the record number of the peer that was hit; aim remembers which player  *)
(* the sender's game showed there (no program variable holds it).          *)
UpMsg == [cmd : {"SYNC", "COL"}, ver : Ver, col : Slots, aim : Conn \cup {None}]

(* Server to client: NET_META, the ban notice, a memory write (tcp id -2), *)
(* or a peer's record.  hit stands for np_col: None for 0, otherwise the   *)
(* player the attacker aimed at.  synced is history: the version its owner *)
(* had SYNCed last when the message was sent.                              *)
Control == [t : {"meta", "ban", "write"}]
PeerMsg == [t : {"peer"}, idx : Slots, owner : Conn, ver : Ver,
            hit : Conn \cup {None}, synced : Ver \cup {NoTcp}]
DownMsg == Control \cup PeerMsg

(* A datagram for host to: the movement of owner, for record idx. *)
Dgram == [to : Addr, idx : Slots, owner : Conn]

Alive(c) == phase[c] \in {"meta", "run"}

WireTypeOK ==
  /\ backlog \in Seq(Conn)
  /\ sock \in [Conn -> {"none", "backlog", "open", "closed"}]
  /\ phase \in [Conn -> {"off", "meta", "run", "gone"}]
  /\ fin \in [Conn -> BOOLEAN]
  /\ up \in [Conn -> Seq(UpMsg)]
  /\ down \in [Conn -> Seq(DownMsg)]
  /\ udpUp \in SUBSET Conn
  /\ udpDown \in SUBSET Dgram

WireInit ==
  /\ backlog = <<>>
  /\ sock = [c \in Conn |-> "none"]
  /\ phase = [c \in Conn |-> "off"]
  /\ fin = [c \in Conn |-> FALSE]
  /\ up = [c \in Conn |-> <<>>]
  /\ down = [c \in Conn |-> <<>>]
  /\ udpUp = {}
  /\ udpDown = {}

UnderWay == Cardinality(udpUp) + Cardinality(udpDown)

(* Datagrams are dropped anywhere; being late, doubled or overtaken comes  *)
(* from udpUp and udpDown being sets that a receipt may leave unchanged.   *)
LoseDgram ==
  /\ \/ \E c \in udpUp : udpUp' = udpUp \ {c} /\ UNCHANGED udpDown
     \/ \E d \in udpDown : udpDown' = udpDown \ {d} /\ UNCHANGED udpUp
  /\ UNCHANGED <<backlog, sock, phase, fin, up, down>>

(* The server's host learns, at once or much later, that a client is gone: *)
(* a process that exits sends a FIN, a host that dies is noticed by a      *)
(* retransmission timeout.  What the client had written and its host had   *)
(* not yet sent is lost when the connection is reset.                      *)
CloseArrives(c) ==
  /\ phase[c] = "gone"
  /\ ~fin[c]
  /\ sock[c] \in {"backlog", "open"}
  /\ fin' = [fin EXCEPT ![c] = TRUE]
  /\ \E n \in 0 .. Len(up[c]) : up' = [up EXCEPT ![c] = SubSeq(@, 1, n)]
  /\ UNCHANGED <<backlog, sock, phase, down, udpUp, udpDown>>
=============================================================================
