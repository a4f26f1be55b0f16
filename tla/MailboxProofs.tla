---------------------------- MODULE MailboxProofs ----------------------------
(***************************************************************************)
(* For any number of commands, stages and runs of the client: the mailbox  *)
(* implements Channel, and the last SYNC the server has is up to date.     *)
(***************************************************************************)
EXTENDS Mailbox, TLAPS

(* The argument of a command where the game puts it. *)
Argument(r, cmd) ==
  CASE cmd = "SAVE" -> r.save [] cmd = "COL" -> r.col [] OTHER -> 0

(* Where the game's thread is, and the command it works on. *)
GameInv ==
  /\ gpc \in {"wait", "fill", "post"} => Len(posted) < MaxPost
  /\ gpc \in {"fill", "post"} => np.id = "none"
  /\ want.cmd = "SYNC" => want.arg = 0
  /\ want.stage => want.cmd = "SYNC"

(* The copy of a command is of the command that is still in the mailbox:   *)
(* only the client empties it.                                             *)
CopyInv ==
  /\ cpc \in {"send", "clear"} => np.id # "none" /\ buf.id = np.id /\ buf.num = np.num
  /\ cpc = "rest" /\ buf.id # "none" => buf.id = np.id /\ buf.num = np.num

(* Unless a config.nff was in the way, the mailbox holds the arguments of  *)
(* its command, and so does the copy.                                      *)
ArgsInv ==
  ~wiped =>
    /\ gpc = "post" => Argument(np, want.cmd) = want.arg
    /\ np.id # "none" =>
         /\ np.num \in DOMAIN posted
         /\ posted[np.num] = [cmd |-> np.id, arg |-> Argument(np, np.id)]
    /\ cpc = "send" => Argument(buf, np.id) = Argument(np, np.id)

MailInv == TypeOK /\ GameInv /\ CopyInv /\ ArgsInv

(* Every step keeps the types, one action after the other.                 *)
LEMMA TypesStep ==
  ASSUME TypeOK, GameInv, [Next]_vars
  PROVE  TypeOK'
<1> USE MailboxAssumption DEF TypeOK, Record, Post, Cmds, gameVars, clientVars, Begins
<1>1. CASE NetInit
  <2>1. np' \in Record
    <3>1. 0 \in 0 .. MaxShape
      OBVIOUS
    <3>2. np' = [np EXCEPT !.shape = 0]
      BY <1>1 DEF NetInit
    <3> QED BY <3>1, <3>2
  <2>2. want' \in [cmd : Cmds, arg : Arg, stage : BOOLEAN]
    BY <1>1 DEF NetInit
  <2> QED BY <1>1, <2>1, <2>2 DEF NetInit
<1>2. CASE \E a \in Arg \ {0} : SaveCommand(a) \/ Collision(a)
  <2>1. PICK a \in Arg : SaveCommand(a) \/ Collision(a)
    BY <1>2
  <2>2. \E c \in Cmds : want' = [cmd |-> c, arg |-> a, stage |-> FALSE]
    BY <2>1 DEF SaveCommand, Collision
  <2>3. want' \in [cmd : Cmds, arg : Arg, stage : BOOLEAN]
    BY <2>2
  <2>4. gpc' = "wait"
        /\ UNCHANGED <<np, init, stage, posted, before, cpc, buf, sent, starts, wiped>>
    BY <2>1 DEF SaveCommand, Collision
  <2> QED BY <2>3, <2>4
<1>3. CASE \E d \in {-1, 1} : ChangeShape(d)
  BY <1>3 DEF ChangeShape
<1>4. CASE StageDiffers
  BY <1>4 DEF StageDiffers
<1>5. CASE \E s \in Stages : EnterStage(s)
  BY <1>5 DEF EnterStage
<1>6. CASE Spin
  BY <1>6 DEF Spin
<1>7. CASE Fill
  BY <1>7 DEF Fill
<1>8. CASE PostId
  <2>1. Len(posted) + 1 \in 0 .. MaxPost
    BY <1>8 DEF PostId, GameInv
  <2>2. np' \in Record
    BY <1>8, <2>1 DEF PostId
  <2>3. posted' \in Seq(Post) /\ Len(posted') = Len(posted) + 1
    <3>1. [cmd |-> want.cmd, arg |-> want.arg] \in Post
      OBVIOUS
    <3> QED BY <1>8, <3>1 DEF PostId
  <2> QED BY <1>8, <2>1, <2>2, <2>3 DEF PostId
<1>9. CASE StoreStage
  <2>1. np' \in Record
    BY <1>9 DEF StoreStage
  <2> QED BY <1>9, <2>1 DEF StoreStage
<1>10. CASE StartClient
  <2>1. Zero \in Record
    BY DEF Zero
  <2>2. np' \in Record
    BY <1>10, <2>1 DEF StartClient
  <2>3. wiped' \in BOOLEAN
    BY <1>10, Zenon DEF StartClient
  <2> QED BY <1>10, <2>2, <2>3 DEF StartClient
<1>11. CASE LoadMain
  BY <1>11 DEF LoadMain
<1>12. CASE ReadHead
  <2>1. Zero \in Record /\ np \in Record
    BY DEF Zero
  <2>2. buf' = [Zero EXCEPT !.id = np.id, !.num = np.num]
    BY <1>12 DEF ReadHead
  <2>3. buf' \in Record
    BY <2>1, <2>2
  <2> QED BY <1>12, <2>3 DEF ReadHead
<1>13. CASE ReadRest
  <2>1. buf' \in Record
    BY <1>13 DEF ReadRest
  <2> QED BY <1>13, <2>1 DEF ReadRest
<1>14. CASE Send
  BY <1>14 DEF Send
<1>15. CASE Clear
  BY <1>15 DEF Clear
<1>16. CASE StopClient
  BY <1>16 DEF StopClient, Zero
<1>17. CASE UNCHANGED vars
  BY <1>17 DEF vars
<1> QED
  BY <1>1, <1>2, <1>3, <1>4, <1>5, <1>6, <1>7, <1>8, <1>9, <1>10, <1>11, <1>12,
     <1>13, <1>14, <1>15, <1>16, <1>17
  DEF Next, GameStep

(* Every step keeps what is known of the game, the copy and the arguments. *)
LEMMA InvStep ==
  ASSUME TypeOK, GameInv, CopyInv, ArgsInv, [Next]_vars
  PROVE  GameInv' /\ CopyInv' /\ ArgsInv'
<1> USE MailboxAssumption DEF TypeOK, Record, Post, Cmds, gameVars, clientVars, Begins,
        GameInv, CopyInv, ArgsInv, Argument
<1>1. CASE NetInit
  BY <1>1 DEF NetInit
<1>2. CASE \E a \in Arg \ {0} : SaveCommand(a) \/ Collision(a)
  BY <1>2 DEF SaveCommand, Collision
<1>3. CASE \E d \in {-1, 1} : ChangeShape(d)
  BY <1>3 DEF ChangeShape
<1>4. CASE StageDiffers
  BY <1>4 DEF StageDiffers
<1>5. CASE \E s \in Stages : EnterStage(s)
  BY <1>5 DEF EnterStage
<1>6. CASE Spin
  BY <1>6 DEF Spin
<1>7. CASE Fill
  BY <1>7 DEF Fill
<1>8. CASE PostId
  BY <1>8 DEF PostId
<1>9. CASE StoreStage
  BY <1>9 DEF StoreStage
<1>10. CASE StartClient
  <2>1. CASE np' = Zero /\ wiped' = (wiped \/ np.id # "none" \/ gpc = "post")
    <3>1. np'.id = "none"
      BY <2>1 DEF Zero
    <3>2. ~wiped' => ~wiped /\ np.id = "none" /\ gpc # "post"
      BY <2>1
    <3> QED BY <1>10, <3>1, <3>2 DEF StartClient
  <2>2. CASE UNCHANGED <<np, wiped>>
    BY <1>10, <2>2 DEF StartClient
  <2> QED BY <1>10, <2>1, <2>2 DEF StartClient
<1>11. CASE LoadMain
  BY <1>11 DEF LoadMain
<1>12. CASE ReadHead
  BY <1>12 DEF ReadHead, Zero
<1>13. CASE ReadRest
  BY <1>13 DEF ReadRest
<1>14. CASE Send
  BY <1>14 DEF Send
<1>15. CASE Clear
  BY <1>15 DEF Clear
<1>16. CASE StopClient
  BY <1>16 DEF StopClient, Zero
<1>17. CASE UNCHANGED vars
  BY <1>17 DEF vars
<1> QED
  BY <1>1, <1>2, <1>3, <1>4, <1>5, <1>6, <1>7, <1>8, <1>9, <1>10, <1>11, <1>12,
     <1>13, <1>14, <1>15, <1>16, <1>17
  DEF Next, GameStep

(* The mailbox is empty before main.nff is loaded.                         *)
LEMMA MailInvInit == Init => MailInv
<1> USE MailboxAssumption
<1> SUFFICES ASSUME Init PROVE MailInv
  OBVIOUS
<1>1. TypeOK
  <2>1. Zero \in Record
    BY DEF Zero, Record, Cmds
  <2>2. want \in [cmd : Cmds, arg : Arg, stage : BOOLEAN]
    BY DEF Init, Cmds
  <2>3. <<>> \in Seq(Post) /\ <<>> \in Seq(Record) /\ Len(<<>>) = 0
    OBVIOUS
  <2>4. np \in Record /\ buf \in Record /\ sent \in Seq(Record)
    BY <2>1, <2>3 DEF Init
  <2>5. posted \in Seq(Post) /\ Len(posted) <= MaxPost
    BY <2>3 DEF Init
  <2>6. starts \in 0 .. MaxStart /\ before \in Stages \cup {0} /\ stage \in Stages
    BY DEF Init
  <2>7. wiped \in BOOLEAN /\ init \in {"absent"} /\ gpc \in {"frame"} /\ cpc \in {"off"}
    BY DEF Init
  <2> QED BY <2>2, <2>4, <2>5, <2>6, <2>7 DEF TypeOK
<1>2. GameInv /\ CopyInv /\ ArgsInv
  BY DEF Init, GameInv, CopyInv, ArgsInv, Zero
<1> QED BY <1>1, <1>2 DEF MailInv

(* What is where in the mailbox, in the client's copy and in the game's    *)
(* hands, for every interleaving of the two and every stop of the client.  *)
THEOREM MailInvariant == Spec => []MailInv
<1>1. MailInv /\ [Next]_vars => MailInv'
  BY TypesStep, InvStep DEF MailInv
<1> QED BY <1>1, MailInvInit, PTL DEF Spec

-----------------------------------------------------------------------------
(* A copy that is about to be sent is the command in the mailbox.          *)
LEMMA CopyIsPosted ==
  ASSUME MailInv, cpc = "send", ~wiped
  PROVE  /\ np.id # "none" /\ np.num \in DOMAIN posted
         /\ Content(buf) = Posted(np.num)
<1>1. np.id # "none" /\ buf.id = np.id /\ buf.num = np.num
  BY DEF MailInv, CopyInv
<1>2. np.num \in DOMAIN posted
      /\ posted[np.num] = [cmd |-> np.id, arg |-> Argument(np, np.id)]
      /\ Argument(buf, np.id) = Argument(np, np.id)
  BY <1>1 DEF MailInv, ArgsInv
<1> QED BY <1>1, <1>2 DEF Content, Posted, Argument

(* What is delivered and what is in the box do not depend on the fields of *)
(* np_data[0] that no command names.                                       *)
LEMMA SameBox ==
  ASSUME np'.id = np.id, np'.num = np.num, UNCHANGED <<posted, sent, wiped>>,
         (cpc' = "clear") <=> (cpc = "clear")
  PROVE  UNCHANGED Chan!vars
BY DEF Chan!vars, Posted, Content, NoPost

(* What is sent is the message in the box.                                 *)
LEMMA DeliversCopy ==
  ASSUME MailInv, ~wiped, Send
  PROVE  Chan!Deliver
<1>1. np.id # "none" /\ np.num \in DOMAIN posted /\ Content(buf) = Posted(np.num)
  BY CopyIsPosted DEF Send
<1>2. sent \in Seq(Record) /\ buf \in Record
  BY DEF MailInv, TypeOK
<1>3. [k \in DOMAIN sent' |-> Content(sent'[k])]
        = Append([k \in DOMAIN sent |-> Content(sent[k])], Content(buf))
  <2> DEFINE old == [k \in DOMAIN sent |-> Content(sent[k])]
             All == {Content(sent[k]) : k \in DOMAIN sent} \cup {Content(buf)}
             new == Append(old, Content(buf))
  <2>1. sent' = Append(sent, buf)
    BY DEF Send
  <2>2. old \in Seq(All) /\ Len(old) = Len(sent) /\ Content(buf) \in All
    BY <1>2
  <2>3. DOMAIN sent' = 1 .. Len(sent) + 1 /\ DOMAIN sent = 1 .. Len(sent) /\ Len(sent) \in Nat
    BY <1>2, <2>1
  <2>4. new \in [1 .. Len(sent) + 1 -> All]
    <3>1. new \in Seq(All) /\ Len(new) = Len(sent) + 1
      <4> HIDE DEF old, All
      <4> QED BY <2>2, <2>3
    <3> HIDE DEF new
    <3> QED BY <3>1
  <2>5. \A k \in 1 .. Len(sent) + 1 : new[k] = Content(sent'[k])
    BY <1>2, <2>1, <2>2, <2>3
  <2>6. new = [k \in 1 .. Len(sent) + 1 |-> Content(sent'[k])]
    <3> HIDE DEF new
    <3> QED BY <2>4, <2>5
  <2> QED BY <2>3, <2>6
<1>4. Posted(np.num).num # 0
  BY <1>1 DEF Posted, MailInv, TypeOK, Post
<1> QED
  BY <1>1, <1>3, <1>4 DEF Send, Chan!Deliver, NoPost, gameVars, Posted

(* Storing the id puts the command in, with the arguments filled in before. *)
LEMMA PutsCommand ==
  ASSUME MailInv, PostId
  PROVE  Chan!Next
<1> DEFINE n == Len(posted) + 1
           m == [num |-> n, cmd |-> want.cmd, arg |-> want.arg]
<1>1. n \in 1 .. MaxPost /\ want.cmd \in Cmds /\ want.arg \in Arg
      /\ np \in Record /\ posted \in Seq(Post)
  BY MailboxAssumption DEF PostId, MailInv, TypeOK, GameInv
<1>2. np.id = "none"
  BY DEF PostId, MailInv, GameInv
<1>3. np'.id = want.cmd /\ np'.num = n /\ np'.id # "none"
  BY <1>1 DEF PostId, Record, Cmds
<1>4. n \in DOMAIN posted' /\ posted'[n] = [cmd |-> want.cmd, arg |-> want.arg]
  BY <1>1 DEF PostId
<1>5. Posted(np.num)' = m
  BY <1>3, <1>4 DEF Posted
<1>6. m \in [num : 1 .. MaxPost, cmd : Cmds, arg : Arg]
  BY <1>1
<1>7. Chan!Put(m)
  BY <1>2, <1>3, <1>5 DEF PostId, Chan!Put, Content, clientVars
<1> QED BY <1>6, <1>7 DEF Chan!Next

(* A step of the game or of the client is a step of the channel or none.   *)
LEMMA ChannelStep ==
  ASSUME MailInv, [Next]_vars
  PROVE  [Chan!Next]_(Chan!vars)
<1> USE DEF gameVars, clientVars, Begins
<1>0. np \in Record
  BY DEF MailInv, TypeOK
<1>1. CASE wiped'
  BY <1>1 DEF Chan!Next
<1>2. CASE NetInit \/ (\E d \in {-1, 1} : ChangeShape(d)) \/ StoreStage
  <2>1. np'.id = np.id /\ np'.num = np.num
    BY <1>0, <1>2 DEF NetInit, ChangeShape, StoreStage, Record
  <2> QED BY <1>2, <2>1, SameBox DEF NetInit, ChangeShape, StoreStage
<1>3. CASE Fill
  <2>1. np'.id = np.id /\ np'.num = np.num
    BY <1>0, <1>3 DEF Fill, Record
  <2> QED BY <1>3, <2>1, SameBox DEF Fill
<1>4. CASE \/ \E a \in Arg \ {0} : SaveCommand(a) \/ Collision(a)
           \/ StageDiffers \/ (\E s \in Stages : EnterStage(s)) \/ Spin
  BY <1>4, SameBox DEF SaveCommand, Collision, StageDiffers, EnterStage, Spin
<1>5. CASE PostId
  BY <1>5, PutsCommand
<1>6. CASE StartClient /\ ~wiped'
  <2>1. CASE UNCHANGED <<np, wiped>>
    BY <1>6, <2>1, SameBox DEF StartClient
  <2>2. CASE np' = Zero /\ wiped' = (wiped \/ np.id # "none" \/ gpc = "post")
    <3>1. np.id = "none" /\ np'.id = "none" /\ ~wiped
      BY <1>6, <2>2 DEF Zero
    <3>2. UNCHANGED <<posted, sent>> /\ cpc = "off" /\ cpc' = "load"
      BY <1>6 DEF StartClient
    <3>3. UNCHANGED wiped
      <4>1. wiped \in BOOLEAN /\ wiped' \in BOOLEAN
        BY <2>2 DEF MailInv, TypeOK
      <4> QED BY <1>6, <3>1, <4>1
    <3> QED BY <3>1, <3>2, <3>3 DEF Chan!vars, Content
  <2> QED BY <1>6, <2>1, <2>2 DEF StartClient
<1>7. CASE LoadMain \/ ReadHead \/ ReadRest
  BY <1>7, SameBox DEF LoadMain, ReadHead, ReadRest
<1>8. CASE Send /\ ~wiped'
  <2>1. ~wiped
    BY <1>8 DEF Send
  <2> QED BY <1>8, <2>1, DeliversCopy DEF Chan!Next
<1>9. CASE Clear
  <2>1. np'.id = "none"
    BY <1>0, <1>9 DEF Clear, Record
  <2>2. Chan!Remove
    BY <1>9, <2>1 DEF Clear, Chan!Remove, Content
  <2> QED BY <2>2 DEF Chan!Next
<1>10. CASE StopClient
  <2>1. Chan!Forget
    BY <1>10 DEF StopClient, Chan!Forget, Posted, Content, NoPost
  <2> QED BY <2>1 DEF Chan!Next
<1>11. CASE UNCHANGED vars
  BY <1>11, SameBox DEF vars
<1> QED
  BY <1>1, <1>2, <1>3, <1>4, <1>5, <1>6, <1>7, <1>8, <1>9, <1>10, <1>11
  DEF Next, GameStep

(* Whatever the client and the game do to np_data[0], and wherever the     *)
(* client is stopped: commands arrive whole, in order, none left out,      *)
(* unless a config.nff was written over one (client main.c:172-183).       *)
THEOREM MailboxDelivers == Spec => OnceInOrder
<1>1. Init => Chan!Init
  <2> SUFFICES ASSUME Init PROVE Chan!Init
    OBVIOUS
  <2>1. np.id = "none" /\ cpc = "off" /\ sent = <<>> /\ wiped = FALSE
    BY DEF Init, Zero
  <2>2. [k \in DOMAIN sent |-> Content(sent[k])] = <<>>
    BY <2>1
  <2> QED BY <2>1, <2>2 DEF Chan!Init
<1> QED
  BY <1>1, MailInvariant, ChannelStep, PTL DEF Spec, OnceInOrder, Chan!Spec

-----------------------------------------------------------------------------
(* A SYNC is on its way from the game to the mailbox. *)
SyncBegun == gpc \in {"wait", "fill", "post"} /\ want.cmd = "SYNC"

(* A record that shows the server what np_data[0] shows, but for a stage   *)
(* that is stored only after the id.                                       *)
Fresh(r) ==
  /\ r.shape = np.shape
  /\ r.stage \in IF gpc = "store" THEN {np.stage} ELSE {np.stage, before}

LastSync(k) ==
  /\ k \in DOMAIN sent /\ sent[k].id = "SYNC"
  /\ \A m \in k + 1 .. Len(sent) : sent[m].id # "SYNC"

(* Since main.nff was loaded by this run of the client and has started,    *)
(* the present record is on its way, in the mailbox, copied, or sent.      *)
SyncInv ==
  init = "done" /\ cpc \notin {"off", "load"} /\ ~SyncBegun =>
    \/ np.id = "SYNC" /\ cpc \in {"head", "rest"}
    \/ np.id = "SYNC" /\ cpc = "send" /\ Fresh(buf)
    \/ /\ np.id # "SYNC" \/ cpc = "clear"
       /\ \E k \in DOMAIN sent : LastSync(k) /\ Fresh(sent[k])

(* What was sent last stays fresh as long as nothing is stored into the    *)
(* record but an id or arguments.                                          *)
LEMMA KeepsLast ==
  ASSUME np'.shape = np.shape, np'.stage = np.stage, UNCHANGED <<sent, before>>,
         (gpc' = "store") <=> (gpc = "store"),
         \E k \in DOMAIN sent : LastSync(k) /\ Fresh(sent[k])
  PROVE  (\E k \in DOMAIN sent : LastSync(k) /\ Fresh(sent[k]))'
BY DEF LastSync, Fresh

(* The game announces what it changes before or as it changes it.          *)
LEMMA SyncInvGame ==
  ASSUME MailInv, SyncInv, GameStep
  PROVE  SyncInv'
<1> USE DEF gameVars, clientVars, Begins
<1>0. np \in Record /\ cpc \in {"off", "load", "head", "rest", "send", "clear"}
  BY DEF MailInv, TypeOK
<1>1. CASE NetInit \/ (\E d \in {-1, 1} : ChangeShape(d)) \/ StageDiffers
  <2>1. SyncBegun'
    BY <1>1 DEF NetInit, ChangeShape, StageDiffers, SyncBegun
  <2> QED BY <2>1 DEF SyncInv
<1>2. CASE \E a \in Arg \ {0} : SaveCommand(a) \/ Collision(a)
  BY <1>2 DEF SaveCommand, Collision, SyncInv, SyncBegun, LastSync, Fresh
<1>3. CASE (\E s \in Stages : EnterStage(s)) \/ Spin
  BY <1>3 DEF EnterStage, Spin, SyncInv, SyncBegun, LastSync, Fresh
<1>4. CASE Fill
  <2>1. np'.id = np.id /\ np'.shape = np.shape /\ np'.stage = np.stage
    BY <1>0, <1>4 DEF Fill, Record
  <2> QED BY <1>4, <2>1 DEF Fill, SyncInv, SyncBegun, LastSync, Fresh
<1>5. CASE PostId
  <2>1. np'.id = want.cmd /\ np'.shape = np.shape /\ np'.stage = np.stage
    BY <1>0, <1>5 DEF PostId, Record
  <2>2. np.id = "none" /\ cpc \notin {"send", "clear"} /\ (want.stage => want.cmd = "SYNC")
    BY <1>5 DEF PostId, MailInv, GameInv, CopyInv
  <2>3. CASE want.cmd = "SYNC"
    BY <1>0, <1>5, <2>1, <2>2, <2>3 DEF PostId, SyncInv
  <2>4. CASE want.cmd # "SYNC"
    <3>1. ~SyncBegun /\ gpc' = "frame" /\ gpc = "post"
      BY <1>5, <2>2, <2>4 DEF PostId, SyncBegun
    <3>2. UNCHANGED <<sent, before, cpc, init>>
      BY <1>5 DEF PostId
    <3>3. init = "done" /\ cpc \notin {"off", "load"}
            => (\E k \in DOMAIN sent : LastSync(k) /\ Fresh(sent[k]))'
      BY <2>1, <2>2, <3>1, <3>2, KeepsLast DEF SyncInv
    <3> QED BY <2>1, <2>4, <3>2, <3>3 DEF SyncInv
  <2> QED BY <2>3, <2>4
<1>6. CASE StoreStage
  <2>1. np'.id = np.id /\ np'.shape = np.shape /\ before' = np.stage
    BY <1>0, <1>6 DEF StoreStage, Record
  <2>2. \A r : Fresh(r) => (r.shape = np'.shape /\ r.stage \in {np'.stage, before'})
    BY <1>6, <2>1 DEF StoreStage, Fresh
  <2>3. gpc' = "frame" /\ gpc = "store" /\ UNCHANGED <<init, want, sent, cpc, buf>>
    BY <1>6 DEF StoreStage
  <2> QED BY <2>1, <2>2, <2>3 DEF SyncInv, SyncBegun, LastSync, Fresh
<1> QED BY <1>1, <1>2, <1>3, <1>4, <1>5, <1>6 DEF GameStep

(* The client sends what it copied before it empties the mailbox.          *)
LEMMA SyncInvClient ==
  ASSUME MailInv, SyncInv,
         StartClient \/ LoadMain \/ ReadHead \/ ReadRest \/ Send \/ Clear \/ StopClient
  PROVE  SyncInv'
<1> USE DEF gameVars
<1>0. np \in Record /\ buf \in Record /\ sent \in Seq(Record)
  BY DEF MailInv, TypeOK
<1>1. CASE StartClient \/ LoadMain \/ StopClient
  BY <1>1 DEF StartClient, LoadMain, StopClient, SyncInv
<1>2. CASE ReadHead
  BY <1>2 DEF ReadHead, SyncInv, SyncBegun, LastSync, Fresh
<1>3. CASE ReadRest
  <2>1. buf'.shape = np.shape /\ buf'.stage = np.stage
    BY <1>0, <1>3 DEF ReadRest, Record
  <2>2. cpc = "rest" /\ cpc' \in {"head", "send"}
        /\ UNCHANGED <<np, init, gpc, want, before, sent>>
    BY <1>3 DEF ReadRest
  <2> QED BY <2>1, <2>2 DEF SyncInv, SyncBegun, LastSync, Fresh
<1>4. CASE Send
  <2>0. PICK n \in Nat : n = Len(sent) + 1
    BY <1>0
  <2>1. buf.id = np.id /\ cpc = "send" /\ cpc' = "clear"
        /\ UNCHANGED <<np, init, gpc, want, before, buf>>
    BY <1>4 DEF Send, MailInv, CopyInv
  <2>2. /\ Len(sent) \in Nat /\ Len(sent') = n
        /\ DOMAIN sent = 1 .. Len(sent) /\ DOMAIN sent' = 1 .. n
        /\ sent'[n] = buf /\ \A k \in DOMAIN sent : sent'[k] = sent[k]
    BY <1>0, <1>4, <2>0 DEF Send
  <2> SUFFICES ASSUME init = "done", ~SyncBegun
               PROVE  (\E k \in DOMAIN sent : LastSync(k) /\ Fresh(sent[k]))'
    BY <2>1 DEF SyncInv, SyncBegun
  <2>3. CASE np.id = "SYNC"
    <3>1. Fresh(buf)
      BY <2>1, <2>3 DEF SyncInv
    <3>2. LastSync(n)'
      BY <2>0, <2>1, <2>2, <2>3 DEF LastSync
    <3>3. Fresh(sent[n])'
      BY <2>1, <2>2, <3>1 DEF Fresh
    <3> QED BY <2>2, <3>2, <3>3 DEF LastSync, Fresh
  <2>4. CASE np.id # "SYNC"
    <3>1. PICK k \in DOMAIN sent : LastSync(k) /\ Fresh(sent[k])
      BY <2>1, <2>4 DEF SyncInv
    <3>2. LastSync(k)'
      <4>1. \A m \in k + 1 .. n : sent'[m].id # "SYNC"
        BY <2>0, <2>1, <2>2, <2>4, <3>1 DEF LastSync
      <4> QED BY <2>0, <2>1, <2>2, <3>1, <4>1 DEF LastSync
    <3>3. Fresh(sent[k])'
      BY <2>1, <2>2, <3>1 DEF Fresh
    <3> QED BY <2>2, <3>2, <3>3 DEF LastSync, Fresh
  <2> QED BY <2>3, <2>4
<1>5. CASE Clear
  <2>1. np'.id = "none" /\ np'.shape = np.shape /\ np'.stage = np.stage
    BY <1>0, <1>5 DEF Clear, Record
  <2>2. cpc = "clear" /\ cpc' = "head" /\ UNCHANGED <<init, gpc, want, before, sent>>
    BY <1>5 DEF Clear
  <2> QED BY <2>1, <2>2, KeepsLast DEF SyncInv, SyncBegun
<1> QED BY <1>1, <1>2, <1>3, <1>4, <1>5

(* Every interleaving of the game's stores with the client's reads leaves  *)
(* the present record announced, or sent.                                  *)
THEOREM SyncInvariant == Spec => []SyncInv
<1>1. Init => SyncInv
  BY DEF Init, SyncInv
<1>2. MailInv /\ SyncInv /\ [Next]_vars => SyncInv'
  <2>1. UNCHANGED vars /\ SyncInv => SyncInv'
    BY DEF vars, gameVars, clientVars, SyncInv, SyncBegun, LastSync, Fresh
  <2> QED BY <2>1, SyncInvGame, SyncInvClient DEF Next
<1> QED BY <1>1, <1>2, MailInvariant, PTL DEF Spec

(* When all is quiet the server has the present character, and the present *)
(* stage or the one before it, which the game stores too late.             *)
THEOREM ServerIsUpToDate == Spec => []ServerUpToDate
<1>1. MailInv /\ SyncInv => ServerUpToDate
  <2> SUFFICES ASSUME MailInv, SyncInv, Quiet
               PROVE  \E k \in DOMAIN sent :
                        /\ sent[k].id = "SYNC"
                        /\ \A m \in k + 1 .. Len(sent) : sent[m].id # "SYNC"
                        /\ sent[k].shape = np.shape
                        /\ sent[k].stage \in {stage, before}
    BY DEF ServerUpToDate
  <2>1. \E k \in DOMAIN sent : LastSync(k) /\ Fresh(sent[k])
    BY DEF Quiet, SyncInv, SyncBegun
  <2> QED BY <2>1 DEF Quiet, LastSync, Fresh
<1> QED BY <1>1, MailInvariant, SyncInvariant, PTL
=============================================================================
