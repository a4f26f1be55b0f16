-------------------------------- MODULE MCNet --------------------------------
(* Small instances of Net: two to four runs of the client.  *)
EXTENDS Net, TLC

CONSTANTS c1, c2, c3, c4, a1, a2, a3

MCConn == {c1, c2, c3}
MCConn2 == {c1, c2}
MCAddr == {a1, a2, a3}
OneRunEach == c1 :> a1 @@ c2 :> a2 @@ c3 :> a3
OneRunEach2 == c1 :> a1 @@ c2 :> a2
NoHosts == {}
FirstHost == {a1}

(* With one client on each host and no bans, players may be exchanged      *)
(* together with their hosts.                                              *)
Swap(p) == [x \in MCConn \cup MCAddr |->
              IF x \in MCConn THEN p[x]
              ELSE OneRunEach[p[CHOOSE c \in MCConn : OneRunEach[c] = x]]]
Players == {Swap(p) : p \in Permutations(MCConn)}

(* A behaviour has TCP messages or datagrams, whose receipt writes the two *)
(* halves of the records: neither step reads or writes what the other does. *)
OneTraffic ==
  \/ \A c \in Conn : ver[c] = 0
  \/ /\ udpUp = {} /\ udpDown = {} /\ rdDgram = None
     /\ \A a \in Addr : \A n \in Slots : pos[a][n] = None

(* What begins a welcome, up to the records, is read before anything else  *)
(* happens: reading it disables no step, and every step that could come    *)
(* before it leads to the same state after it.                             *)
Greeted(c) == down[c] # <<>> /\ Head(down[c]).t \in {"meta", "write"}
WelcomeFirst ==
  (\E c \in Conn : Greeted(c)) => \E c \in Conn : Greeted(c) /\ down'[c] = Tail(down[c])

(* States that differ in the characters shown are one state: boot and chr  *)
(* decide nothing in another step and are in no property but               *)
(* JoinShowsCharacter.                                                     *)
NoCharacter == <<wireVars, serverVars, rec, pos, ver, why>>

(* Then a game starts the program that came, for the same reason: the step *)
(* and any other do not touch each other, save in chr.                     *)
BootsFirst ==
  /\ WelcomeFirst
  /\ boot # {} /\ (\A c \in Conn : ~Greeted(c)) => boot' # boot

SecondRun == c1 :> a1 @@ c2 :> a2 @@ c3 :> a2

(* One player talks, another has been heard of, so that she can be hit, and *)
(* starts her client a second time.                                        *)
OneTalks ==
  /\ BootsFirst
  /\ ver'[c2] <= 1 /\ ver'[c3] = 0
  /\ \A k \in DOMAIN up'[c2] : up'[c2][k].cmd = "SYNC"

(* The second host starts its client again; a third finds the table full. *)
MCConn4 == {c1, c2, c3, c4}
Door == c1 :> a1 @@ c2 :> a2 @@ c3 :> a2 @@ c4 :> a3
=============================================================================
