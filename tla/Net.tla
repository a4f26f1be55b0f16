--------------------------------- MODULE Net ---------------------------------
(***************************************************************************)
(* The server, its clients and the network between them.                   *)
(***************************************************************************)
EXTENDS Server, Client

vars == <<wireVars, serverVars, clientVars>>

TypeOK == WireTypeOK /\ ServerTypeOK /\ ClientTypeOK

Init == WireInit /\ ServerInit /\ ClientInit

ServerStep == ServerNext /\ UNCHANGED clientVars
ClientStep == ClientNext /\ UNCHANGED serverVars
NetworkStep ==
  /\ LoseDgram \/ \E c \in Conn : CloseArrives(c)
  /\ UNCHANGED <<serverVars, clientVars>>

Next == ServerStep \/ ClientStep \/ NetworkStep

Spec == Init /\ [][Next]_vars

(***************************************************************************)
(* Fairness.  The server's main loop polls 60 times a second and serves    *)
(* what a poll returned; a client that is not stopped runs net_update 30   *)
(* times a second; a host in the end learns that a peer is gone.  A socket *)
(* with something to read is not overlooked by select() for ever.  Nobody  *)
(* is obliged to start, to send or to leave.                               *)
(***************************************************************************)
Fairness ==
  /\ WF_vars(ServerStep)
  /\ \A s \in Slots : SF_vars(Select /\ rdSock'[s] # None /\ UNCHANGED clientVars)
  /\ \A c \in Conn :
       /\ WF_vars((RecvMeta(c) \/ RecvTcp(c) \/ RecvEof(c)) /\ UNCHANGED serverVars)
       /\ WF_vars(CloseArrives(c) /\ UNCHANGED <<serverVars, clientVars>>)

FairSpec == Spec /\ Fairness

-----------------------------------------------------------------------------
(***************************************************************************)
(* The table and the sockets.                                              *)
(***************************************************************************)

(* A connection sits in one slot only, and the sockets the server keeps    *)
(* open are exactly those of the table: a NET_PL that loses its place, by  *)
(* leaving or by a reconnect, takes its socket with it (server.py:59, 84). *)
SeatedOnce ==
  /\ \A s, r \in Slots : np_table[s] = np_table[r] /\ np_table[s] # None => s = r
  /\ \A c \in Conn : sock[c] = "open" <=> Seated(c)

(* The server never takes the seat of a client that is still running: the  *)
(* search of update_connect stops at a free slot or at one of the same     *)
(* host, and a host runs one client at a time (server.py:57-61, 81-85).    *)
LiveSeatKept ==
  [][\A s \in Slots : np_table[s] # None /\ Alive(np_table[s])
                        => np_table'[s] = np_table[s]]_vars

-----------------------------------------------------------------------------
(***************************************************************************)
(* Whose data is in which record.                                          *)
(***************************************************************************)
OneRunPerHost == \A c, d \in Conn : AddrOf[c] = AddrOf[d] => c = d

(* Record 0 is written by the game itself; nothing the server sends, over  *)
(* TCP or UDP, in any numbering, is ever aimed at it (sm64net.py:173-174). *)
OwnRecordUntouched ==
  /\ \A c \in Conn : \A k \in DOMAIN down[c] :
        down[c][k].t = "peer" => down[c][k].idx # 0
  /\ \A d \in udpDown : d.idx # 0
  /\ \A a \in Addr : rec[a][0] = NoRec /\ pos[a][0] = None

(* A player who is online is shown in one record of every other game, the  *)
(* one the server counts as hers, both with her name and with her          *)
(* position; whoever had the record before, however late a message.        *)
NoGhost ==
  OneRunPerHost =>
    \A i, j \in Slots : i # j /\ np_table[i] # None /\ np_table[j] # None =>
      \A n \in Slots :
        /\ rec[AddrOf[np_table[i]]][n].owner = np_table[j] => n = PeerIndex(i, j)
        /\ pos[AddrOf[np_table[i]]][n] = np_table[j] => n = PeerIndex(i, j)

(* A player never sees a double of herself: what her game sent does not    *)
(* come back as a peer.                                                    *)
NeverSeesSelf ==
  \A c \in Conn : \A n \in Slots : pos[AddrOf[c]][n] # None
                                   => AddrOf[pos[AddrOf[c]][n]] # AddrOf[c]

-----------------------------------------------------------------------------
(***************************************************************************)
(* Who knows what.                                                         *)
(***************************************************************************)

(* A client that has read all the server sent it shows every other seated  *)
(* player at least as that player last SYNCed, in name, colour and place:  *)
(* the join's snapshot and the SYNCs forwarded after it leave no gap       *)
(* (sm64net.py:169-182, 249).  The character is JoinShowsCharacter.        *)
JoinMissesNothing ==
  \A i, j \in Slots :
    i # j /\ np_table[i] # None /\ np_table[j] # None =>
      LET c == np_table[i]
          d == np_table[j]
          r == rec[AddrOf[c]][PeerIndex(i, j)]
      IN phase[c] = "run" /\ down[c] = <<>> /\ tcp[d] # NoTcp
           => r.owner = d /\ r.ver >= tcp[d]

(* ... and with the character she SYNCed, once its game has started the    *)
(* program the welcome brought: the records of that welcome come with the  *)
(* character too (np.c:127-128, sm64net.py:245-249).                       *)
JoinShowsCharacter ==
  \A i, j \in Slots :
    i # j /\ np_table[i] # None /\ np_table[j] # None =>
      LET c == np_table[i]
      IN phase[c] = "run" /\ down[c] = <<>> /\ AddrOf[c] \notin boot
           /\ tcp[np_table[j]] # NoTcp
           => PeerIndex(i, j) \in chr[AddrOf[c]]

(* What a player had SYNCed when a game was sent her record is never taken *)
(* back there while it shows her.  The game may outlive the client that    *)
(* wrote it: the welcome of the next one overwrites what came with a COL,  *)
(* which the server did not keep, but nothing SYNCed (sm64net.py:179-198). *)
NoRollback ==
  [][\A a \in Addr : \A n \in Slots :
       rec'[a][n].owner = rec[a][n].owner => rec'[a][n].ver >= rec[a][n].synced]_vars

(* The server takes up a COL of slot s. *)
ColServed(s) ==
  /\ rdSock[s] # None /\ rdSock'[s] = None
  /\ np_table[s] = rdSock[s]
  /\ up[rdSock[s]] # <<>>
  /\ Head(up[rdSock[s]]).cmd = "COL"

(* As long as the player who was hit is online, she is told, and she only: *)
(* np_col numbers her as the attacker's game does, and the server resolves *)
(* it by its own table only when the command reaches it, when slots may    *)
(* have been freed and taken (sm64net.py:189-198).  A game that outlived   *)
(* its client may show its peers under the numbers of an earlier slot.     *)
HitFindsPlayer ==
  [][OneRunPerHost =>
       \A s \in Slots :
         LET aim == Head(up[rdSock[s]]).aim
         IN ColServed(s) /\ aim \in Others(s) =>
              \A d \in Others(s) :
                down'[d][Len(down'[d])].hit = IF d = aim THEN aim ELSE None]_vars

(* A collision is reported to nobody but the player that was hit: the      *)
(* server sets np_col in one copy of the record, that of the player whom   *)
(* the attacker's game showed (sm64net.py:194-197).                        *)
HitRightPlayer ==
  \A c \in Conn : \A k \in DOMAIN down[c] :
    down[c][k].t = "peer" => down[c][k].hit \in {None, c}

-----------------------------------------------------------------------------
(***************************************************************************)
(* What must happen in the end, if nobody blocks the server.               *)
(***************************************************************************)

(* A client that connects is welcomed, turned away, or stopped by its user. *)
EveryoneAnswered == \A c \in Conn : phase[c] = "meta" ~> phase[c] # "meta"

(* A client that is gone does not keep its slot. *)
SeatFreed == \A c \in Conn : phase[c] = "gone" /\ Seated(c) ~> ~Seated(c)

(* What a player SYNCs is shown to each other player who is online then,   *)
(* unless one of the two leaves first; through COLs and other traffic.     *)
InFlight(c, v) == \E k \in DOMAIN up[c] : up[c][k].cmd = "SYNC" /\ up[c][k].ver = v
Shown(c, d, v) ==
  \E n \in Slots : rec[AddrOf[d]][n].owner = c /\ rec[AddrOf[d]][n].ver >= v

SyncSpreads ==
  \A c, d \in Conn : \A v \in Ver \ {0} :
    c # d /\ phase[c] = "run" /\ phase[d] = "run" /\ Seated(d) /\ InFlight(c, v)
      ~> Shown(c, d, v) \/ phase[c] = "gone" \/ phase[d] = "gone"

-----------------------------------------------------------------------------
(***************************************************************************)
(* What the user is told.                                                  *)
(***************************************************************************)

(* A host whose line in ban.txt has a text is told that it is banned, not  *)
(* that its version is wrong (client/src/main.c:160-165, 209-216).         *)
BanTextShown == \A c \in Conn : AddrOf[c] \in BanText => why[c] # "version"
=============================================================================
