------------------------------- MODULE Mailbox -------------------------------
(***************************************************************************)
(* The mailbox np_data[0] through which a game hands commands to the       *)
(* client on its host (server/src/net.c, np.c, np_object.c on the game's   *)
(* side, client/src/main.c on the other).  np_tcp_id = 0 means empty.  The *)
(* game spins until it is, fills in what the command needs and stores the  *)
(* id; the client, in another process, copies the record out of the        *)
(* emulator's memory in ascending order (the id lies before the other      *)
(* fields), sends it and stores 0.  Nothing locks anything.                *)
(***************************************************************************)
EXTENDS Integers, Sequences

CONSTANTS
  MaxPost,    \* bound: commands a game posts
  Stages,     \* stages of the game; 0 is "none yet"
  Arg,        \* arguments of SAVE, numbers of peers hit
  MaxShape,   \* last entry of net_chr_table
  MaxStart    \* bound: runs of the client

ASSUME MailboxAssumption ==
  /\ MaxPost \in Nat /\ MaxShape \in Nat /\ MaxStart \in Nat
  /\ 0 \notin Stages /\ 0 \in Arg

VARIABLES
  np,        \* np_data[0]; num is a history field, the number of the post
  stage,     \* stage_index
  init,      \* net_main: not loaded yet, net_init still to be run, or done
  gpc,       \* where the game's thread is
  want,      \* the command the game is about to post
  posted,    \* history: what the game posted
  cpc,       \* where the client is
  buf,       \* the client's copy of np_data[0]
  sent,      \* what the client sent
  starts,    \* runs of the client so far
  before,    \* history: what np_stage was before it was last stored
  wiped      \* history: a config.nff was written over a command in np_data[0]

gameVars == <<stage, init, gpc, want, posted, before>>
clientVars == <<cpc, buf, sent, starts, wiped>>
vars == <<np, gameVars, clientVars>>

Cmds == {"SYNC", "COL", "SAVE"}
Record == [id : Cmds \cup {"none"}, col : Arg, save : Arg,
           stage : Stages \cup {0}, shape : 0 .. MaxShape, num : 0 .. MaxPost]
Zero == [id |-> "none", col |-> 0, save |-> 0, stage |-> 0, shape |-> 0, num |-> 0]

Post == [cmd : Cmds, arg : Arg]

TypeOK ==
  /\ np \in Record
  /\ stage \in Stages
  /\ init \in {"absent", "todo", "done"}
  /\ gpc \in {"frame", "wait", "fill", "post", "store"}
  /\ want \in [cmd : Cmds, arg : Arg, stage : BOOLEAN]
  /\ posted \in Seq(Post) /\ Len(posted) <= MaxPost
  /\ cpc \in {"off", "load", "head", "rest", "send", "clear"}
  /\ buf \in Record
  /\ sent \in Seq(Record)
  /\ starts \in 0 .. MaxStart
  /\ before \in Stages \cup {0}
  /\ wiped \in BOOLEAN

Init ==
  /\ np = Zero
  /\ stage \in Stages
  /\ init = "absent"
  /\ gpc = "frame"
  /\ want = [cmd |-> "SYNC", arg |-> 0, stage |-> FALSE]
  /\ posted = <<>>
  /\ cpc = "off"
  /\ buf = Zero
  /\ sent = <<>>
  /\ starts = 0
  /\ before = 0
  /\ wiped = FALSE

-----------------------------------------------------------------------------
(* The game. *)

Begins(cmd, arg, isStage) ==
  /\ gpc = "frame"
  /\ Len(posted) < MaxPost
  /\ gpc' = "wait"
  /\ want' = [cmd |-> cmd, arg |-> arg, stage |-> isStage]
  /\ UNCHANGED <<stage, posted, before, clientVars>>

(* net_main after main.nff was written (again): np_init_self. *)
NetInit ==
  /\ init = "todo"
  /\ Begins("SYNC", 0, FALSE)
  /\ init' = "done"
  /\ np' = [np EXCEPT !.shape = 0]

(* net_save_*, called from the game's own code in place of its functions. *)
SaveCommand(a) ==
  /\ init = "done"
  /\ Begins("SAVE", a, FALSE)
  /\ UNCHANGED <<np, init>>

(* np_main: a peer's object was hit. *)
Collision(n) ==
  /\ init = "done"
  /\ Begins("COL", n, FALSE)
  /\ UNCHANGED <<np, init>>

(* np_update_self: another character.  The index is stored, then posted. *)
ChangeShape(d) ==
  /\ init = "done"
  /\ np.shape + d \in 0 .. MaxShape
  /\ Begins("SYNC", 0, FALSE)
  /\ np' = [np EXCEPT !.shape = @ + d]
  /\ UNCHANGED init

(* np_update_self: np_stage is not stage_index. *)
StageDiffers ==
  /\ init = "done"
  /\ np.stage # stage
  /\ Begins("SYNC", 0, TRUE)
  /\ UNCHANGED <<np, init>>

(* The player is in another stage (or the title screen is passed). *)
EnterStage(s) ==
  /\ gpc = "frame"
  /\ s # stage
  /\ stage' = s
  /\ UNCHANGED <<np, init, gpc, want, posted, before, clientVars>>

(* while (np_data[0].np_tcp_id != 0); *)
SpinStoresId ==
  /\ gpc = "wait"
  /\ np.id = "none"
  /\ np' = [np EXCEPT !.id = want.cmd, !.num = Len(posted) + 1]
  /\ gpc' = "fill"
  /\ UNCHANGED <<stage, init, want, posted, before, clientVars>>
SpinOnce ==
  /\ gpc = "wait"
  /\ gpc' = "fill"
  /\ UNCHANGED <<np, stage, init, want, posted, before, clientVars>>

Spin ==
  /\ gpc = "wait"
  /\ np.id = "none"
  /\ gpc' = "fill"
  /\ UNCHANGED <<np, stage, init, want, posted, before, clientVars>>

Fill ==
  /\ gpc = "fill"
  /\ np' = CASE want.cmd = "SAVE" -> [np EXCEPT !.save = want.arg]
             [] want.cmd = "COL"  -> [np EXCEPT !.col = want.arg]
             [] OTHER             -> np
  /\ gpc' = "post"
  /\ UNCHANGED <<stage, init, want, posted, before, clientVars>>

(* The id is stored; np_stage, when that is what changed, only after it.   *)
PostId ==
  /\ gpc = "post"
  /\ posted' = Append(posted, [cmd |-> want.cmd, arg |-> want.arg])
  /\ np' = [np EXCEPT !.id = want.cmd, !.num = Len(posted) + 1]
  /\ gpc' = IF want.stage THEN "store" ELSE "frame"
  /\ UNCHANGED <<stage, init, want, before, clientVars>>

StoreStage ==
  /\ gpc = "store"
  /\ np' = [np EXCEPT !.stage = stage]
  /\ before' = np.stage
  /\ gpc' = "frame"
  /\ UNCHANGED <<stage, init, want, posted, clientVars>>

-----------------------------------------------------------------------------
(* The client. *)

(* A new run of the client, with config.nff (which holds a whole record,   *)
(* all zero but for name and colour) or, from a shell, without.            *)
StartClient ==
  /\ cpc = "off"
  /\ starts < MaxStart
  /\ starts' = starts + 1
  /\ cpc' = "load"
  /\ \/ /\ np' = Zero
        /\ wiped' = (wiped \/ np.id # "none" \/ gpc = "post")
     \/ UNCHANGED <<np, wiped>>
  /\ UNCHANGED <<gameVars, buf, sent>>

(* The server's memory writes arrive: main.nff with init = TRUE.           *)
LoadMain ==
  /\ cpc = "load"
  /\ cpc' = "head"
  /\ init' = "todo"
  /\ UNCHANGED <<np, stage, gpc, want, posted, before, buf, sent, starts, wiped>>

(* mem_rd of np_data[0]: first np_tcp_id, then the rest. *)
ReadHead ==
  /\ cpc = "head"
  /\ buf' = [Zero EXCEPT !.id = np.id, !.num = np.num]
  /\ cpc' = "rest"
  /\ UNCHANGED <<np, gameVars, sent, starts, wiped>>

ReadRestSyncOnly ==
  /\ cpc = "rest"
  /\ buf' = [np EXCEPT !.id = buf.id, !.num = buf.num]
  /\ cpc' = IF buf.id # "SYNC" THEN "head" ELSE "send"
  /\ UNCHANGED <<np, gameVars, sent, starts, wiped>>

ReadRest ==
  /\ cpc = "rest"
  /\ buf' = [np EXCEPT !.id = buf.id, !.num = buf.num]
  /\ cpc' = IF buf.id = "none" THEN "head" ELSE "send"
  /\ UNCHANGED <<np, gameVars, sent, starts, wiped>>

Send ==
  /\ cpc = "send"
  /\ sent' = Append(sent, buf)
  /\ cpc' = "clear"
  /\ UNCHANGED <<np, gameVars, buf, starts, wiped>>

Clear ==
  /\ cpc = "clear"
  /\ np' = [np EXCEPT !.id = "none"]
  /\ cpc' = "head"
  /\ UNCHANGED <<gameVars, buf, sent, starts, wiped>>

StopClient ==
  /\ cpc # "off"
  /\ cpc' = "off"
  /\ buf' = Zero
  /\ UNCHANGED <<np, gameVars, sent, starts, wiped>>

GameStep ==
  \/ NetInit
  \/ \E a \in Arg \ {0} : SaveCommand(a) \/ Collision(a)
  \/ \E d \in {-1, 1} : ChangeShape(d)
  \/ StageDiffers
  \/ \E s \in Stages : EnterStage(s)
  \/ Spin \/ Fill \/ PostId \/ StoreStage

Next ==
  \/ GameStep
  \/ StartClient \/ LoadMain \/ ReadHead \/ ReadRest \/ Send \/ Clear \/ StopClient

Spec == Init /\ [][Next]_vars

(***************************************************************************)
(* The game's thread runs on (a frame it is in is finished), and so does a *)
(* client that was not stopped.                                            *)
(***************************************************************************)
FairSpec ==
  /\ Spec
  /\ WF_vars(Spin \/ Fill \/ PostId \/ StoreStage)
  /\ WF_vars(LoadMain \/ ReadHead \/ ReadRest \/ Send \/ Clear)

-----------------------------------------------------------------------------
Content(r) ==
  [num |-> r.num, cmd |-> r.id,
   arg |-> CASE r.id = "SAVE" -> r.save [] r.id = "COL" -> r.col [] OTHER -> 0]

NoPost == [num |-> 0, cmd |-> "none", arg |-> 0]
(* What the game has posted, and not just begun to. *)
Posted(k) ==
  IF k \notin DOMAIN posted THEN NoPost
  ELSE [num |-> k, cmd |-> posted[k].cmd, arg |-> posted[k].arg]

(* The mailbox as a channel.  A message in it is what the game meant to    *)
(* post; what is delivered is what the client read.                        *)
Chan == INSTANCE Channel WITH
  Message   <- [num : 1 .. MaxPost, cmd : Cmds, arg : Arg],
  Empty     <- NoPost,
  box       <- IF np.id = "none" THEN NoPost ELSE Posted(np.num),
  done      <- cpc = "clear",
  delivered <- [k \in DOMAIN sent |-> Content(sent[k])],
  spoiled   <- wiped

(* What is sent under a command's id are the arguments the game posted     *)
(* with it, not those of the command before or of a half-filled record;    *)
(* commands are sent in the order they were posted and none is left out,   *)
(* though the client may be stopped and started anywhere; one stopped      *)
(* between sending and clearing costs a repetition of that command.  Only  *)
(* a config.nff, written over a command that is posted or being filled in, *)
(* spoils this.                                                            *)
OnceInOrder == Chan!Spec

(* When the game has nothing more to post and the client nothing to send,  *)
(* the last SYNC sent shows the present character, and the present stage   *)
(* or the one before it: np_stage is stored after the id that announces    *)
(* it, so a quick client sends the old one (np.c:190-196).                 *)
Quiet == /\ init = "done" /\ gpc = "frame" /\ np.id = "none"
         /\ np.stage = stage /\ cpc = "head"

ServerUpToDate ==
  Quiet =>
    \E k \in DOMAIN sent :
      /\ sent[k].id = "SYNC"
      /\ \A m \in k + 1 .. Len(sent) : sent[m].id # "SYNC"
      /\ sent[k].shape = np.shape
      /\ sent[k].stage \in {stage, before}

(* The game does not hang in a spin while a client runs.                   *)
GameGoesOn == gpc = "wait" ~> gpc # "wait" \/ cpc = "off"
=============================================================================
