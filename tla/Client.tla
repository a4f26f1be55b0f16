-------------------------------- MODULE Client --------------------------------
(***************************************************************************)
(* The client program (client/src/main.c) between a server connection and  *)
(* the memory of the game on its host.  A game outlives its clients: what  *)
(* a client wrote into np_data is still there for the next one, unless the *)
(* game was restarted.  rec and pos are the two halves of the game's       *)
(* np_data: rec[a][n] the TCP half of record n (whose, and which version), *)
(* pos[a][n] the player whose datagram was last written to its UDP half.   *)
(* The program a welcome writes runs net_init in the game's own time, over *)
(* records that came before or after it.                                   *)
(* The handshake between game and client is in module Mailbox.             *)
(***************************************************************************)
EXTENDS Wire

VARIABLES
  rec,    \* TCP half of each record of each game
  pos,    \* UDP half of each record of each game
  ver,    \* TCP messages a client has sent
  why,    \* what a client told its user when it ended
  boot,   \* hosts whose game got main.nff and has not run its net_init
  chr     \* records whose np_shape_index, the character, is the one sent

clientVars == <<rec, pos, ver, why, boot, chr>>

(* Whose record it is, in which version; synced is that of PeerMsg. *)
NoRec == [owner |-> None, ver |-> NoTcp, synced |-> NoTcp]
Rec == [owner : Conn \cup {None}, ver : Ver \cup {NoTcp}, synced : Ver \cup {NoTcp}]
EmptyGame == [n \in Slots |-> NoRec]

ClientTypeOK ==
  /\ rec \in [Addr -> [Slots -> Rec]]
  /\ pos \in [Addr -> [Slots -> Conn \cup {None}]]
  /\ ver \in [Conn -> Ver]
  /\ why \in [Conn -> {"none", "banned", "version", "disconnected"}]
  /\ boot \in SUBSET Addr
  /\ chr \in [Addr -> SUBSET Slots]

ClientInit ==
  /\ rec = [a \in Addr |-> EmptyGame]
  /\ pos = [a \in Addr |-> [n \in Slots |-> None]]
  /\ ver = [c \in Conn |-> 0]
  /\ why = [c \in Conn |-> "none"]
  /\ boot = {}
  /\ chr = [a \in Addr |-> {}]

(* net_init up to the first recvall: connect and bind.  A user runs one    *)
(* client at a time on a host.                                             *)
Start(c) ==
  /\ phase[c] = "off"
  /\ \A d \in Conn : AddrOf[d] = AddrOf[c] => ~Alive(d)
  /\ phase' = [phase EXCEPT ![c] = "meta"]
  /\ sock' = [sock EXCEPT ![c] = "backlog"]
  /\ backlog' = Append(backlog, c)
  /\ UNCHANGED <<rec, pos, boot, chr, ver, why, fin, up, down, udpUp, udpDown>>

(* The emulator is reset while no client is attached to it. *)
RestartGame(a) ==
  /\ \A c \in Conn : AddrOf[c] = a => ~Alive(c)
  /\ \E c \in Conn : AddrOf[c] = a /\ phase[c] = "off"
  /\ rec' = [rec EXCEPT ![a] = EmptyGame]
  /\ pos' = [pos EXCEPT ![a] = [n \in Slots |-> None]]
  /\ boot' = boot \ {a}
  /\ chr' = [chr EXCEPT ![a] = {}]
  /\ UNCHANGED <<ver, why, backlog, sock, phase, fin, up, down, udpUp, udpDown>>

(* The game has loaded Mario's segment and net_main runs for the first     *)
(* time since main.nff was written: np_init_peer resets the character in   *)
(* every record of a peer, whatever was written there.  What it does to    *)
(* the game's own record, objects and pages is in Mailbox and PeerSlot.    *)
NetInit(a) ==
  /\ a \in boot
  /\ boot' = boot \ {a}
  /\ chr' = [chr EXCEPT ![a] = {}]
  /\ UNCHANGED <<rec, pos, ver, why, wireVars>>

(* The program ends; what was still to be read is gone. *)
Ends(c, reason) ==
  /\ phase' = [phase EXCEPT ![c] = "gone"]
  /\ why' = [why EXCEPT ![c] = reason]
  /\ down' = [down EXCEPT ![c] = <<>>]

(* net_init: the first message is read as a NET_META.  The notice of a ban *)
(* holds no version, so it is taken for a server of another version.       *)
RecvMeta(c) ==
  /\ phase[c] = "meta"
  /\ down[c] # <<>>
  /\ \/ /\ Head(down[c]).t = "meta"
        /\ phase' = [phase EXCEPT ![c] = "run"]
        /\ down' = [down EXCEPT ![c] = Tail(@)]
        /\ UNCHANGED why
     \/ /\ Head(down[c]).t # "meta"
        /\ Ends(c, "version")
  /\ UNCHANGED <<rec, pos, boot, chr, ver, backlog, sock, fin, up, udpUp, udpDown>>

(* The TCP read of net_update: a ban, a memory write or a peer's record.   *)
(* The writes of a welcome bring main.nff.                                 *)
RecvTcp(c) ==
  /\ phase[c] = "run"
  /\ down[c] # <<>>
  /\ LET m == Head(down[c]) IN
       /\ rec' = IF m.t = "peer"
                    THEN [rec EXCEPT ![AddrOf[c]][m.idx] =
                            [owner |-> m.owner, ver |-> m.ver, synced |-> m.synced]]
                    ELSE rec
       /\ chr' = IF m.t = "peer" THEN [chr EXCEPT ![AddrOf[c]] = @ \cup {m.idx}] ELSE chr
       /\ boot' = IF m.t = "write" THEN boot \cup {AddrOf[c]} ELSE boot
       /\ IF m.t = "ban"
             THEN Ends(c, "banned")
             ELSE down' = [down EXCEPT ![c] = Tail(@)] /\ UNCHANGED <<phase, why>>
  /\ UNCHANGED <<pos, ver, backlog, sock, fin, up, udpUp, udpDown>>

(* recvall reads 0 bytes: its message depends on whether it ever returned. *)
RecvEof(c) ==
  /\ Alive(c)
  /\ down[c] = <<>>
  /\ sock[c] = "closed"
  /\ Ends(c, IF phase[c] = "meta" THEN "banned" ELSE "disconnected")
  /\ UNCHANGED <<rec, pos, boot, chr, ver, backlog, sock, fin, up, udpUp, udpDown>>

(* The UDP read of net_update; the datagram may come a second time. *)
RecvUdp(c) ==
  /\ phase[c] = "run"
  /\ \E d \in udpDown :
       /\ d.to = AddrOf[c]
       /\ pos' = [pos EXCEPT ![d.to][d.idx] = d.owner]
       /\ udpDown' \in {udpDown, udpDown \ {d}}
  /\ UNCHANGED <<rec, boot, chr, ver, why, backlog, sock, phase, fin, up, down, udpUp>>

(* The TCP write of net_update: a SYNC the game posted, or the collision   *)
(* with a peer its game shows.                                             *)
Sends(c, m) ==
  /\ phase[c] = "run"
  /\ sock[c] = "open"
  /\ ver[c] < MaxVer
  /\ ver' = [ver EXCEPT ![c] = @ + 1]
  /\ up' = [up EXCEPT ![c] = Append(@, m)]
  /\ UNCHANGED <<rec, pos, boot, chr, why, backlog, sock, phase, fin, down, udpUp, udpDown>>

SendSync(c) == Sends(c, [cmd |-> "SYNC", ver |-> ver[c] + 1, col |-> 0, aim |-> None])

SendCol(c, n) ==
  /\ rec[AddrOf[c]][n].owner # None
  /\ Sends(c, [cmd |-> "COL", ver |-> ver[c] + 1, col |-> n,
               aim |-> rec[AddrOf[c]][n].owner])

(* The UDP write of net_update, once a frame. *)
SendUdp(c) ==
  /\ phase[c] = "run"
  /\ UnderWay < MaxDgram
  /\ udpUp' = udpUp \cup {c}
  /\ UNCHANGED <<rec, pos, boot, chr, ver, why, backlog, sock, phase, fin, up, down, udpDown>>

(* The user stops the client, it crashes, or one of its socket calls fails. *)
Exit(c) ==
  /\ Alive(c)
  /\ Ends(c, "none")
  /\ UNCHANGED <<rec, pos, boot, chr, ver, backlog, sock, fin, up, udpUp, udpDown>>

ClientNext ==
  \/ \E a \in Addr : RestartGame(a) \/ NetInit(a)
  \/ \E c \in Conn :
       \/ Start(c) \/ RecvMeta(c) \/ RecvTcp(c) \/ RecvEof(c) \/ RecvUdp(c)
       \/ SendSync(c) \/ (\E n \in Slots \ {0} : SendCol(c, n))
       \/ SendUdp(c) \/ Exit(c)
=============================================================================
