--------------------------------- MODULE Save ---------------------------------
(***************************************************************************)
(* The shared save game (server/sm64net.py: SAVE, SAVE_FILE, cmd_save).    *)
(* The games' own functions that would change a save file are replaced by  *)
(* hooks that post a SAVE command (server/src/net.c:34-87, nff.sx), so a   *)
(* game's copy only changes when the server writes to it.  The server      *)
(* applies a command, writes the file and the ages into every seated game  *)
(* and rewrites save.bin, in one step of its thread: a crash may come in   *)
(* between the three.                                                      *)
(***************************************************************************)
EXTENDS SaveData, Sequences, FiniteSets

CONSTANTS
  Conn,     \* connections
  Shared,   \* flag bits of the whole session
  Private,  \* flag bits of a player (0x000F0000: where Mario's cap is)
  Used,     \* flag bit 0, set by every change of a flag or star
  Bit,      \* star bits of a course
  Castle,   \* the index -1 of STARSET: star bits kept among the flags
  MaxCoin,  \* bound: coins of a course
  MaxCmd    \* bound: SAVE commands handled

Flag == Shared \cup Private \cup {Used} \cup ({Castle} \X Bit)

ASSUME SaveAssumption ==
  /\ Shared \cap Private = {}
  /\ Used \notin Private
  /\ MaxCoin \in Nat
  /\ MaxCmd \in Nat

VARIABLES
  file,      \* SAVE.file
  time,      \* SAVE.data.time
  pc,        \* what the server process does: serve, save(), or nothing
  disk,      \* save.bin: absent, torn (opened for writing), or whole
  seated,    \* connections in np_table
  save_flag, \* NET_PL.save_flag, the private flags last set on a connection
  pend,      \* memory writes on their way to a game
  game,      \* the save files and ages in a game's memory
  saved,     \* history: the image last written completely
  cmds       \* commands handled

saveVars == <<file, time, pc, disk, seated, save_flag, pend, game, saved, cmds>>

SaveFile == [flag : SUBSET Flag, star : SUBSET (Course \X Bit), coin : [Course -> 0 .. MaxCoin]]
EmptyFile == [flag |-> {}, star |-> {}, coin |-> [c \in Course |-> 0]]
Image == [file : [File -> SaveFile], time : Times]
Blank == [file |-> [f \in File |-> EmptyFile], time |-> FirstTimes]

(* A memory write: all files or one, and the ages. *)
MemWrite == [file : [File -> SaveFile] \cup UNION {[{f} -> SaveFile] : f \in File},
             time : Times]

SaveTypeOK ==
  /\ file \in [File -> SaveFile]
  /\ time \in Times
  /\ pc \in {"serve", "open", "write", "down"}
  /\ disk \in [kind : {"absent", "torn", "whole"}, image : Image]
  /\ seated \in SUBSET Conn
  /\ save_flag \in [Conn -> SUBSET Private]
  /\ pend \in [Conn -> Seq(MemWrite)]
  /\ game \in [Conn -> Image]
  /\ saved \in Image
  /\ cmds \in 0 .. MaxCmd

SaveInit ==
  /\ file = Blank.file /\ time = Blank.time
  /\ pc = "serve"
  /\ disk = [kind |-> "absent", image |-> Blank]
  /\ seated = {}
  /\ save_flag = [c \in Conn |-> {}]
  /\ pend = [c \in Conn |-> <<>>]
  /\ game = [c \in Conn |-> Blank]
  /\ saved = Blank
  /\ cmds = 0

(* SAVE.pack, SAVE_FILE.pack(flag) *)
Packed == [file |-> file, time |-> time]
PackFile(f, extra) == [f EXCEPT !.flag = @ \cup extra]

(* update_connect: a new NET_PL, and the whole save image for its game. *)
Join(c) ==
  /\ pc = "serve"
  /\ c \notin seated
  /\ seated' = seated \cup {c}
  /\ save_flag' = [save_flag EXCEPT ![c] = {}]
  /\ pend' = [pend EXCEPT ![c] = <<Packed>>]
  /\ UNCHANGED <<file, time, pc, disk, game, saved, cmds>>

(* The connection ends: what was on its way is lost. *)
Leave(c) ==
  /\ pc = "serve"
  /\ c \in seated
  /\ seated' = seated \ {c}
  /\ pend' = [pend EXCEPT ![c] = <<>>]
  /\ UNCHANGED <<file, time, pc, disk, save_flag, game, saved, cmds>>

(* The client copies a memory write into its game. *)
Deliver(c) ==
  /\ pend[c] # <<>>
  /\ pend' = [pend EXCEPT ![c] = Tail(@)]
  /\ LET w == Head(pend[c]) IN
       game' = [game EXCEPT ![c] =
                  [file |-> [f \in File |-> IF f \in DOMAIN w.file THEN w.file[f]
                                                                  ELSE @.file[f]],
                   time |-> w.time]]
  /\ UNCHANGED <<file, time, pc, disk, seated, save_flag, saved, cmds>>

(***************************************************************************)
(* cmd_save.  Its end: the file, with the private flags of the player who  *)
(* sent the command, and the ages are written into every seated game, and  *)
(* save() is next.                                                         *)
(***************************************************************************)
UpdateOldAges(f, private) ==
  [file |-> [g \in {f} |-> PackFile(file'[g], private)], time |-> time]
Update(f, private) ==
  [file |-> [g \in {f} |-> PackFile(file'[g], private)], time |-> time']

Broadcast(f, private) ==
  /\ pend' = [c \in Conn |->
                IF c \in seated THEN Append(pend[c], Update(f, private)) ELSE pend[c]]
  /\ pc' = "open"
  /\ cmds' = cmds + 1
  /\ UNCHANGED <<disk, seated, game, saved>>

Handles(c, f) ==
  /\ pc = "serve"
  /\ c \in seated
  /\ cmds < MaxCmd
  /\ f \in File

Kept(flags) == flags
Stored(flags) == flags \ Private

(* FLAGSET, FLAGCLR, STARSET: new is the player's view of the flags. *)
SetFlags(c, f, new) ==
  /\ file' = [file EXCEPT ![f].flag = Stored(new \cup {Used})]
  /\ save_flag' = [save_flag EXCEPT ![c] = (new \cup {Used}) \cap Private]
  /\ UNCHANGED time
  /\ Broadcast(f, save_flag'[c])

View(c, f) == file[f].flag \cup save_flag[c]

FlagSet(c, f, value) == Handles(c, f) /\ SetFlags(c, f, View(c, f) \cup value)
FlagClr(c, f, value) == Handles(c, f) /\ SetFlags(c, f, View(c, f) \ value)

StarSetCastle(c, f, value) ==
  Handles(c, f) /\ SetFlags(c, f, View(c, f) \cup ({Castle} \X value))

StarSet(c, f, course, value) ==
  /\ Handles(c, f)
  /\ LET new == View(c, f) \cup {Used} IN
       /\ file' = [file EXCEPT ![f].star = @ \cup ({course} \X value),
                               ![f].flag = Stored(new)]
       /\ save_flag' = [save_flag EXCEPT ![c] = new \cap Private]
  /\ UNCHANGED time
  /\ Broadcast(f, save_flag'[c])

CoinSet(c, f, course, value) ==
  /\ Handles(c, f)
  /\ file' = [file EXCEPT ![f].coin[course] = value]
  /\ time' = Touched(time, f, {course})
  /\ UNCHANGED save_flag
  /\ Broadcast(f, save_flag[c])

Erase(c, f) ==
  /\ Handles(c, f)
  /\ file' = [file EXCEPT ![f] = EmptyFile]
  /\ time' = Touched(time, f, Course)
  /\ UNCHANGED save_flag
  /\ Broadcast(f, save_flag[c])

Copy(c, f, src) ==
  /\ Handles(c, f)
  /\ src \in File
  /\ file' = [file EXCEPT ![f] = file[src]]
  /\ time' = Touched(time, f, Course)
  /\ UNCHANGED save_flag
  /\ Broadcast(f, save_flag[c])

CmdSave(c) ==
  \E f \in File :
    \/ \E value \in SUBSET (Shared \cup Private) : FlagSet(c, f, value) \/ FlagClr(c, f, value)
    \/ \E value \in SUBSET Bit : StarSetCastle(c, f, value)
    \/ \E course \in Course : \E value \in SUBSET Bit : StarSet(c, f, course, value)
    \/ \E course \in Course : \E value \in 0 .. MaxCoin : CoinSet(c, f, course, value)
    \/ Erase(c, f)
    \/ \E src \in File : Copy(c, f, src)

(* SAVE.save: open(..., "wb") empties the file, then it is written. *)
Truncate ==
  /\ pc = "open"
  /\ pc' = "write"
  /\ disk' = [kind |-> "torn", image |-> Blank]
  /\ UNCHANGED <<file, time, seated, save_flag, pend, game, saved, cmds>>

ToDiskFilesOnly == [Packed EXCEPT !.time = FirstTimes]
ToDisk == Packed

WriteOut ==
  /\ pc = "write"
  /\ pc' = "serve"
  /\ disk' = [kind |-> "whole", image |-> ToDisk]
  /\ saved' = Packed
  /\ UNCHANGED <<file, time, seated, save_flag, pend, game, cmds>>

(* The server process dies; its connections die with it. *)
Crash ==
  /\ pc # "down"
  /\ pc' = "down"
  /\ seated' = {}
  /\ pend' = [c \in Conn |-> <<>>]
  /\ file' = Blank.file /\ time' = Blank.time
  /\ UNCHANGED <<disk, save_flag, game, saved, cmds>>

(* SAVE.__init__: no save.bin is a new game, a torn one ends the start with *)
(* struct.error, and a whole one is read.                                   *)
CanStartTorn(d) == d = d
CanStart(d) == d.kind # "torn"

Restart ==
  /\ pc = "down"
  /\ CanStart(disk)
  /\ pc' = "serve"
  /\ file' = [f \in File |-> [disk.image.file[f] EXCEPT !.flag = Stored(@)]]
  /\ time' = disk.image.time
  /\ UNCHANGED <<disk, seated, save_flag, pend, game, saved, cmds>>

SaveNext ==
  \/ \E c \in Conn : Join(c) \/ Leave(c) \/ Deliver(c) \/ CmdSave(c)
  \/ Truncate \/ WriteOut \/ Crash \/ Restart

SaveSpec == SaveInit /\ [][SaveNext]_saveVars

-----------------------------------------------------------------------------
(* The ages of a course rank the files: no two files are equally recent,   *)
(* through any mix of scoring, erasing, copying, crashes and restarts.     *)
AgesRank == Ranked(time)

(* A command that scores in file f: a coin record in one course, or, in    *)
(* all, the file erased or copied over.                                    *)
Scores(f, C) ==
  \E p \in seated :
    \/ \E course \in Course : \E value \in 0 .. MaxCoin :
         C = {course} /\ CoinSet(p, f, course, value)
    \/ C = Course /\ (Erase(p, f) \/ \E src \in File : Copy(p, f, src))

(* In the courses of C, f is the most recent file now and the others are   *)
(* in the order they were in; in other courses all ages are what they were. *)
MovedUp(f, C) ==
  \A c \in Course :
    IF c \in C
    THEN /\ time'[f][c] = 0
         /\ \A i, j \in File \ {f} : time[i][c] < time[j][c] => time'[i][c] < time'[j][c]
    ELSE \A i \in File : time'[i][c] = time[i][c]

(* Scoring in a file makes that file the most recent one of the course, or *)
(* of every course, behind which the others keep their order, and does not *)
(* touch the ages of another course (sm64net.py:66-74, 213-223).           *)
ScoredComesFirst ==
  [][\A f \in File : \A C \in SUBSET Course : Scores(f, C) => MovedUp(f, C)]_saveVars

(* A player's private flags (where her cap was lost) never get into the    *)
(* session's files or into save.bin, whatever commands they travel with.   *)
PrivateNotKept ==
  /\ \A f \in File : file[f].flag \cap Private = {}
  /\ \A f \in File : disk.image.file[f].flag \cap Private = {}

(* A game that received everything shows the session's files and ages, up  *)
(* to the private flags: a command's two writes are all that it changed.   *)
GamesAgree ==
  \A c \in seated : pend[c] = <<>> =>
    /\ game[c].time = time
    /\ \A f \in File : [game[c].file[f] EXCEPT !.flag = @ \ Private] = file[f]

(* Between two commands save.bin holds exactly what the server holds; a    *)
(* server that never saved started from nothing.                           *)
DiskCurrent ==
  pc = "serve" => disk.kind # "torn" /\ disk.image = Packed

(* A restart never goes on without the progress of the last complete save: *)
(* it loads it, or it does not start.                                      *)
NothingForgotten ==
  [][pc = "down" /\ pc' = "serve" => file' = saved.file /\ time' = saved.time]_saveVars
=============================================================================
