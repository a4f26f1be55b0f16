------------------------------ MODULE SaveProofs ------------------------------
(***************************************************************************)
(* For every number of files, courses, players and flags: what SAVE        *)
(* commands, crashes and restarts keep of the shared save game.            *)
(***************************************************************************)
EXTENDS Save, TLAPS

-----------------------------------------------------------------------------
(* Ages. *)

(* Touching file f of a ranking gives a ranking, with f first and the      *)
(* others in the order they had.                                           *)
LEMMA AgedRanks ==
  ASSUME NEW age \in [File -> Age], NEW f \in File,
         \A i, j \in File : age[i] = age[j] => i = j
  PROVE  /\ Aged(age, f) \in [File -> Age]
         /\ \A i, j \in File : Aged(age, f)[i] = Aged(age, f)[j] => i = j
         /\ Aged(age, f)[f] = 0
         /\ \A i, j \in File \ {f} : age[i] < age[j] => Aged(age, f)[i] < Aged(age, f)[j]
<1> USE NFileAssumption
<1> DEFINE new == Aged(age, f)
<1>1. \A i \in File : age[i] \in Int /\ age[i] >= 0 /\ age[i] < NFile
  BY DEF Age
<1>2. \A i \in File : age[i] < age[f] => (age[i] + 1) % NFile = age[i] + 1
  <2> TAKE i \in File
  <2> HAVE age[i] < age[f]
  <2>1. age[i] + 1 \in 0 .. NFile - 1
    BY <1>1
  <2>2. \A x \in 0 .. NFile - 1 : x % NFile = x
    OBVIOUS
  <2> QED BY <2>1, <2>2
<1>3. \A i \in File : new[i] = IF i = f THEN 0
                               ELSE IF age[i] < age[f] THEN age[i] + 1 ELSE age[i]
  BY <1>2 DEF Aged
<1>4. new \in [File -> Age]
  BY <1>1, <1>2 DEF Aged, Age
<1>5. \A i, j \in File : new[i] = new[j] => i = j
  <2> TAKE i, j \in File
  <2> QED BY <1>1, <1>3
<1>6. new[f] = 0
  BY <1>3
<1>7. \A i, j \in File \ {f} : age[i] < age[j] => new[i] < new[j]
  <2> TAKE i, j \in File \ {f}
  <2> QED BY <1>1, <1>3
<1> QED BY <1>4, <1>5, <1>6, <1>7

(* What the ages u of the files are to the ages t after scoring in f, in   *)
(* the courses of C.                                                       *)
FirstIn(t, u, f, C) ==
  \A c \in Course :
    IF c \in C
    THEN u[f][c] = 0 /\ \A i, j \in File \ {f} : t[i][c] < t[j][c] => u[i][c] < u[j][c]
    ELSE \A i \in File : u[i][c] = t[i][c]

(* The same for the courses of C at once; the others stay as they are. *)
LEMMA TouchedRanks ==
  ASSUME NEW t \in Times, Ranked(t), NEW f \in File, NEW C \in SUBSET Course
  PROVE  /\ Touched(t, f, C) \in Times
         /\ Ranked(Touched(t, f, C))
         /\ FirstIn(t, Touched(t, f, C), f, C)
<1> DEFINE age(c) == [j \in File |-> t[j][c]]
           new == Touched(t, f, C)
<1>1. \A c \in Course : /\ age(c) \in [File -> Age]
                        /\ \A i, j \in File : age(c)[i] = age(c)[j] => i = j
  BY DEF Times, Ranked
<1>2. \A c \in Course : \A i \in File :
        new[i][c] = IF c \in C THEN Aged(age(c), f)[i] ELSE t[i][c]
  BY DEF Touched
<1>3. \A c \in Course :
        /\ Aged(age(c), f) \in [File -> Age]
        /\ \A i, j \in File : Aged(age(c), f)[i] = Aged(age(c), f)[j] => i = j
        /\ Aged(age(c), f)[f] = 0
        /\ \A i, j \in File \ {f} : age(c)[i] < age(c)[j] =>
              Aged(age(c), f)[i] < Aged(age(c), f)[j]
  <2> TAKE c \in Course
  <2> HIDE DEF age
  <2> QED BY <1>1, AgedRanks
<1> HIDE DEF age
<1>4. new \in Times
  <2>1. \A c \in Course : \A i \in File :
          (IF c \in C THEN Aged(age(c), f)[i] ELSE t[i][c]) \in Age
    BY <1>3 DEF Times
  <2> QED BY <2>1 DEF Touched, Times, age
<1>5. Ranked(new)
  <2> SUFFICES ASSUME NEW c \in Course, NEW i \in File, NEW j \in File, new[i][c] = new[j][c]
               PROVE  i = j
    BY DEF Ranked
  <2> HIDE DEF new
  <2>1. CASE c \in C
    BY <1>2, <1>3, <2>1
  <2>2. CASE c \notin C
    BY <1>2, <2>2 DEF Ranked
  <2> QED BY <2>1, <2>2
<1>6. FirstIn(t, new, f, C)
  <2> HIDE DEF new
  <2>1. ASSUME NEW c \in Course, c \in C
        PROVE  new[f][c] = 0
    BY <1>2, <1>3, <2>1
  <2>2. ASSUME NEW c \in Course, c \in C, NEW i \in File \ {f}, NEW j \in File \ {f},
               t[i][c] < t[j][c]
        PROVE  new[i][c] < new[j][c]
    <3>1. age(c)[i] = t[i][c] /\ age(c)[j] = t[j][c]
      BY DEF age
    <3> QED BY <1>2, <1>3, <2>2, <3>1
  <2>3. ASSUME NEW c \in Course, c \notin C, NEW i \in File
        PROVE  new[i][c] = t[i][c]
    BY <1>2, <2>3
  <2> QED BY <2>1, <2>2, <2>3 DEF FirstIn
<1> QED BY <1>4, <1>5, <1>6

-----------------------------------------------------------------------------
(* The invariant. *)

AgesInv == Ranked(time) /\ Ranked(disk.image.time)
DiskInv == DiskCurrent /\ (disk.kind # "torn" => disk.image = saved)
SaveInv == SaveTypeOK /\ AgesInv /\ PrivateNotKept /\ DiskInv

(* A new game's files and ages.                                            *)
LEMMA BlankOK ==
  /\ EmptyFile \in SaveFile /\ EmptyFile.flag = {}
  /\ FirstTimes \in Times /\ Ranked(FirstTimes)
  /\ Blank \in Image
  /\ \A f \in File : Blank.file[f].flag = {}
<1>1. EmptyFile \in SaveFile /\ EmptyFile.flag = {}
  BY SaveAssumption DEF EmptyFile, SaveFile
<1>2. FirstTimes \in Times
  BY NFileAssumption DEF FirstTimes, Times, File, Age
<1>3. Ranked(FirstTimes)
  BY NFileAssumption DEF FirstTimes, Ranked, File
<1> QED BY <1>1, <1>2, <1>3 DEF Blank, Image

(* What every SAVE command does, and what none does. *)
Tidy(files) == \A f \in File : files[f].flag \cap Private = {}

CommandEffect ==
  /\ pc = "serve"
  /\ cmds < MaxCmd
  /\ file' \in [File -> SaveFile] /\ Tidy(file')
  /\ time' \in Times /\ Ranked(time')
  /\ save_flag' \in [Conn -> SUBSET Private]
  /\ \E f \in File : \E private \in SUBSET Private :
       Broadcast(f, private) /\ \A g \in File \ {f} : file'[g] = file[g]

(* The commands that set flags: the private ones are sorted out. *)
LEMMA SetFlagsEffect ==
  ASSUME SaveInv, NEW c \in Conn, NEW f \in File, NEW new \in SUBSET Flag,
         Handles(c, f), SetFlags(c, f, new)
  PROVE  CommandEffect
<1>1. file \in [File -> SaveFile] /\ Tidy(file) /\ save_flag \in [Conn -> SUBSET Private]
  BY DEF SaveInv, SaveTypeOK, PrivateNotKept, Tidy
<1>2. Stored(new \cup {Used}) \in SUBSET Flag /\ Stored(new \cup {Used}) \cap Private = {}
  BY DEF Stored, Flag
<1>3. file' \in [File -> SaveFile] /\ Tidy(file')
  BY <1>1, <1>2 DEF SetFlags, SaveFile, Tidy
<1>4. save_flag' \in [Conn -> SUBSET Private]
  BY <1>1 DEF SetFlags
<1>5. time' = time /\ time \in Times /\ Ranked(time)
  BY DEF SetFlags, SaveInv, AgesInv, SaveTypeOK
<1>6. Broadcast(f, save_flag'[c]) /\ save_flag'[c] \in SUBSET Private
  BY <1>4 DEF SetFlags
<1>7. \A g \in File \ {f} : file'[g] = file[g]
  BY <1>1 DEF SetFlags
<1> QED BY <1>3, <1>4, <1>5, <1>6, <1>7 DEF CommandEffect, Handles

(* STARSET changes a star set and the flags.                               *)
LEMMA StarSetEffect ==
  ASSUME SaveInv, NEW c \in Conn, NEW f \in File, NEW course \in Course,
         NEW value \in SUBSET Bit, StarSet(c, f, course, value)
  PROVE  CommandEffect
<1> DEFINE new == View(c, f) \cup {Used}
<1>1. file \in [File -> SaveFile] /\ Tidy(file) /\ save_flag \in [Conn -> SUBSET Private]
  BY DEF SaveInv, SaveTypeOK, PrivateNotKept, Tidy
<1>2. new \in SUBSET Flag
  BY <1>1 DEF View, SaveFile, Flag
<1>3. Stored(new) \in SUBSET Flag /\ Stored(new) \cap Private = {}
  BY <1>2 DEF Stored
<1>4. file' = [file EXCEPT ![f].star = @ \cup ({course} \X value), ![f].flag = Stored(new)]
  BY DEF StarSet
<1>5. {course} \X value \subseteq Course \X Bit
  OBVIOUS
<1> HIDE DEF new
<1>6. file' \in [File -> SaveFile] /\ Tidy(file')
  <2>1. PICK x \in SUBSET Flag : x = Stored(new) /\ x \cap Private = {}
    BY <1>3
  <2>2. file[f].star \cup ({course} \X value) \in SUBSET (Course \X Bit)
    <3>1. file[f].star \in SUBSET (Course \X Bit)
      BY <1>1 DEF SaveFile
    <3> QED BY <1>5, <3>1
  <2>3. PICK y \in SUBSET (Course \X Bit) : y = file[f].star \cup ({course} \X value)
    BY <2>2
  <2>4. PICK s \in SaveFile : s = [file[f] EXCEPT !.star = y, !.flag = x] /\ s.flag = x
    <3>1. PICK old : old = file[f] /\ old \in SaveFile
      BY <1>1
    <3>2. [old EXCEPT !.star = y] \in SaveFile
      BY <3>1 DEF SaveFile
    <3>3. PICK mid \in SaveFile : mid = [old EXCEPT !.star = y]
      BY <3>2
    <3>4. [mid EXCEPT !.flag = x] \in SaveFile /\ [mid EXCEPT !.flag = x].flag = x
      BY DEF SaveFile
    <3> QED BY <3>1, <3>3, <3>4
  <2>5. file' = [file EXCEPT ![f] = s]
    <3>1. file' = [file EXCEPT ![f].star = y, ![f].flag = x]
      BY <1>4, <2>1, <2>3
    <3> QED BY <1>1, <2>4, <3>1
  <2>6. file' \in [File -> SaveFile]
    BY <1>1, <2>5
  <2>7. Tidy(file')
    BY <1>1, <2>1, <2>4, <2>5 DEF Tidy
  <2> QED BY <2>6, <2>7
<1>7. save_flag' \in [Conn -> SUBSET Private]
  BY <1>1 DEF StarSet
<1>8. time' = time /\ time \in Times /\ Ranked(time)
  BY DEF StarSet, SaveInv, AgesInv, SaveTypeOK
<1>9. Broadcast(f, save_flag'[c]) /\ save_flag'[c] \in SUBSET Private
  BY <1>7 DEF StarSet
<1>10. \A g \in File \ {f} : file'[g] = file[g]
  BY <1>1, <1>4
<1> QED BY <1>6, <1>7, <1>8, <1>9, <1>10 DEF CommandEffect, Handles, StarSet

(* The commands that touch the ages. *)
LEMMA TouchingEffect ==
  ASSUME SaveInv, NEW c \in Conn, NEW f \in File, NEW C \in SUBSET Course,
         Handles(c, f), time' = Touched(time, f, C), UNCHANGED save_flag,
         Broadcast(f, save_flag[c]),
         file' \in [File -> SaveFile], Tidy(file'),
         \A g \in File \ {f} : file'[g] = file[g]
  PROVE  CommandEffect
<1>1. time \in Times /\ Ranked(time) /\ save_flag \in [Conn -> SUBSET Private]
  BY DEF SaveInv, AgesInv, SaveTypeOK
<1>2. time' \in Times /\ Ranked(time')
  BY <1>1, TouchedRanks
<1> QED BY <1>1, <1>2 DEF CommandEffect, Handles

(* Every command does what CommandEffect says and no more.                 *)
LEMMA CommandHasEffect ==
  ASSUME SaveInv, NEW c \in Conn, CmdSave(c)
  PROVE  CommandEffect
<1>1. file \in [File -> SaveFile] /\ Tidy(file) /\ save_flag \in [Conn -> SUBSET Private]
  BY DEF SaveInv, SaveTypeOK, PrivateNotKept, Tidy
<1>2. PICK f \in File :
        \/ \E value \in SUBSET (Shared \cup Private) : FlagSet(c, f, value) \/ FlagClr(c, f, value)
        \/ \E value \in SUBSET Bit : StarSetCastle(c, f, value)
        \/ \E course \in Course : \E value \in SUBSET Bit : StarSet(c, f, course, value)
        \/ \E course \in Course : \E value \in 0 .. MaxCoin : CoinSet(c, f, course, value)
        \/ Erase(c, f)
        \/ \E src \in File : Copy(c, f, src)
  BY DEF CmdSave
<1>3. View(c, f) \in SUBSET Flag
  BY <1>1 DEF View, SaveFile, Flag
<1>4. ASSUME NEW value \in SUBSET (Shared \cup Private), FlagSet(c, f, value)
      PROVE  CommandEffect
  <2>1. View(c, f) \cup value \in SUBSET Flag
    BY <1>3 DEF Flag
  <2> QED BY <1>4, <2>1, SetFlagsEffect DEF FlagSet
<1>5. ASSUME NEW value \in SUBSET (Shared \cup Private), FlagClr(c, f, value)
      PROVE  CommandEffect
  <2>1. View(c, f) \ value \in SUBSET Flag
    BY <1>3
  <2> QED BY <1>5, <2>1, SetFlagsEffect DEF FlagClr
<1>6. ASSUME NEW value \in SUBSET Bit, StarSetCastle(c, f, value)
      PROVE  CommandEffect
  <2>1. View(c, f) \cup ({Castle} \X value) \in SUBSET Flag
    BY <1>3 DEF Flag
  <2> QED BY <1>6, <2>1, SetFlagsEffect DEF StarSetCastle
<1>7. ASSUME NEW course \in Course, NEW value \in SUBSET Bit, StarSet(c, f, course, value)
      PROVE  CommandEffect
  BY <1>7, StarSetEffect
<1>8. ASSUME NEW course \in Course, NEW value \in 0 .. MaxCoin, CoinSet(c, f, course, value)
      PROVE  CommandEffect
  <2>1. file' = [file EXCEPT ![f].coin[course] = value]
    BY <1>8 DEF CoinSet
  <2>2. file' \in [File -> SaveFile] /\ Tidy(file') /\ \A g \in File \ {f} : file'[g] = file[g]
    BY <1>1, <2>1 DEF SaveFile, Tidy
  <2> QED BY <1>8, <2>2, TouchingEffect DEF CoinSet
<1>9. CASE Erase(c, f)
  <2>1. file' \in [File -> SaveFile] /\ Tidy(file') /\ \A g \in File \ {f} : file'[g] = file[g]
    BY <1>1, <1>9, BlankOK DEF Erase, Tidy
  <2> QED BY <1>9, <2>1, TouchingEffect DEF Erase
<1>10. ASSUME NEW src \in File, Copy(c, f, src)
       PROVE  CommandEffect
  <2>1. file' \in [File -> SaveFile] /\ Tidy(file') /\ \A g \in File \ {f} : file'[g] = file[g]
    BY <1>1, <1>10 DEF Copy, Tidy
  <2> QED BY <1>10, <2>1, TouchingEffect DEF Copy
<1> QED BY <1>2, <1>4, <1>5, <1>6, <1>7, <1>8, <1>9, <1>10

-----------------------------------------------------------------------------
(* Every step keeps the invariant. *)

(* The two writes of a command are a memory write.                         *)
LEMMA UpdateIsWrite ==
  ASSUME NEW f \in File, NEW private \in SUBSET Private,
         file' \in [File -> SaveFile], time' \in Times
  PROVE  Update(f, private) \in MemWrite
<1>1. PackFile(file'[f], private) \in SaveFile
  BY DEF PackFile, SaveFile, Flag
<1>2. [g \in {f} |-> PackFile(file'[g], private)] \in [{f} -> SaveFile]
  BY <1>1
<1>3. {f} \in SUBSET File
  OBVIOUS
<1>4. [g \in {f} |-> PackFile(file'[g], private)] \in UNION {[{h} -> SaveFile] : h \in File}
  BY <1>2, <1>3
<1> QED BY <1>4 DEF Update, MemWrite

(* A command keeps the invariant: it ranks the ages again, stores no       *)
(* private flag, and leaves it to save() to make the disk current.         *)
LEMMA CommandKeepsInv ==
  ASSUME SaveInv, CommandEffect
  PROVE  SaveInv'
<1>1. PICK f \in File, private \in SUBSET Private : Broadcast(f, private)
  BY DEF CommandEffect
<1>2. Update(f, private) \in MemWrite
  BY UpdateIsWrite DEF CommandEffect
<1>3. SaveTypeOK'
  <2>1. pend' \in [Conn -> Seq(MemWrite)]
    BY <1>1, <1>2 DEF Broadcast, SaveInv, SaveTypeOK
  <2>2. cmds' \in 0 .. MaxCmd /\ pc' = "open"
    BY <1>1, SaveAssumption DEF Broadcast, SaveInv, SaveTypeOK, CommandEffect
  <2> QED BY <1>1, <2>1, <2>2 DEF Broadcast, CommandEffect, SaveInv, SaveTypeOK
<1>4. AgesInv'
  BY <1>1 DEF Broadcast, CommandEffect, SaveInv, AgesInv, Ranked
<1>5. PrivateNotKept'
  BY <1>1 DEF Broadcast, CommandEffect, SaveInv, PrivateNotKept, Tidy
<1>6. DiskInv'
  BY <1>1 DEF Broadcast, SaveInv, DiskInv, DiskCurrent
<1> QED BY <1>3, <1>4, <1>5, <1>6 DEF SaveInv

(* What is packed is an image.                                             *)
LEMMA PackedOK ==
  ASSUME SaveTypeOK
  PROVE  Packed \in Image
BY DEF SaveTypeOK, Packed, Image

(* A delivered write makes a well-formed game.                             *)
LEMMA DeliverKeepsInv ==
  ASSUME SaveInv, NEW c \in Conn, Deliver(c)
  PROVE  SaveInv'
<1> DEFINE w == Head(pend[c])
<1>1. pend \in [Conn -> Seq(MemWrite)] /\ pend[c] # <<>> /\ game \in [Conn -> Image]
  BY DEF SaveInv, SaveTypeOK, Deliver
<1>2. w \in MemWrite /\ Tail(pend[c]) \in Seq(MemWrite)
  BY <1>1
<1>3. PICK F \in SUBSET File : w.file \in [F -> SaveFile]
  BY <1>2 DEF MemWrite
<1>4. w.time \in Times
  BY <1>2 DEF MemWrite
<1>5. [f \in File |-> IF f \in DOMAIN w.file THEN w.file[f] ELSE game[c].file[f]]
        \in [File -> SaveFile]
  BY <1>1, <1>3 DEF Image
<1>6. game' \in [Conn -> Image]
  BY <1>1, <1>4, <1>5 DEF Deliver, Image
<1>7. SaveTypeOK'
  BY <1>1, <1>2, <1>6 DEF Deliver, SaveInv, SaveTypeOK
<1> QED
  BY <1>7 DEF Deliver, SaveInv, AgesInv, PrivateNotKept, DiskInv, DiskCurrent, Packed

(* Masking the flags again on loading changes nothing, since no private    *)
(* flag was written; what is loaded is the last complete save.             *)
LEMMA RestartLoads ==
  ASSUME SaveInv, Restart
  PROVE  file' = disk.image.file /\ time' = disk.image.time /\ disk.image = saved
<1>1. disk.image \in Image
  BY DEF SaveInv, SaveTypeOK
<1>2. \A f \in File : [disk.image.file[f] EXCEPT !.flag = Stored(@)] = disk.image.file[f]
  <2> TAKE f \in File
  <2>1. disk.image.file[f] \in SaveFile
    BY <1>1 DEF Image
  <2>2. Stored(disk.image.file[f].flag) = disk.image.file[f].flag
    BY DEF SaveInv, PrivateNotKept, Stored
  <2> QED BY <2>1, <2>2 DEF SaveFile
<1>3. file' = disk.image.file
  BY <1>1, <1>2 DEF Restart, Image
<1> QED BY <1>3 DEF Restart, CanStart, SaveInv, DiskInv

(* A restart finds the disk current.                                       *)
LEMMA RestartKeepsInv ==
  ASSUME SaveInv, Restart
  PROVE  SaveInv'
<1>1. file' = disk.image.file /\ time' = disk.image.time /\ disk' = disk
  BY RestartLoads DEF Restart
<1>2. disk.image \in Image
  BY DEF SaveInv, SaveTypeOK
<1>3. SaveTypeOK'
  BY <1>1, <1>2 DEF Restart, Image, SaveInv, SaveTypeOK
<1>4. AgesInv'
  BY <1>1 DEF SaveInv, AgesInv, Ranked
<1>5. PrivateNotKept'
  BY <1>1 DEF SaveInv, PrivateNotKept
<1>6. disk.image = Packed'
  BY <1>1, <1>2 DEF Packed, Image
<1> QED
  BY <1>1, <1>3, <1>4, <1>5, <1>6 DEF Restart, CanStart, SaveInv, DiskInv, DiskCurrent

(* The inductive invariant of the shared save game. *)
THEOREM SaveInvariant == SaveSpec => []SaveInv
<1>1. SaveInit => SaveInv
  BY BlankOK, SaveAssumption
  DEF SaveInit, SaveInv, SaveTypeOK, AgesInv, PrivateNotKept, DiskInv, DiskCurrent,
      Packed, Blank, Image
<1>2. SaveInv /\ [SaveNext]_saveVars => SaveInv'
  <2> SUFFICES ASSUME SaveInv, [SaveNext]_saveVars
               PROVE  SaveInv'
    OBVIOUS
  <2>1. ASSUME NEW c \in Conn, Join(c)
        PROVE  SaveInv'
    <3>1. Packed \in MemWrite
      BY DEF SaveInv, SaveTypeOK, Packed, MemWrite
    <3>2. pend' \in [Conn -> Seq(MemWrite)] /\ save_flag' \in [Conn -> SUBSET Private]
      BY <2>1, <3>1 DEF Join, SaveInv, SaveTypeOK
    <3> QED
      BY <2>1, <3>2
      DEF Join, SaveInv, SaveTypeOK, AgesInv, PrivateNotKept, DiskInv, DiskCurrent, Packed
  <2>2. ASSUME NEW c \in Conn, Leave(c)
        PROVE  SaveInv'
    BY <2>2 DEF Leave, SaveInv, SaveTypeOK, AgesInv, PrivateNotKept, DiskInv, DiskCurrent, Packed
  <2>3. ASSUME NEW c \in Conn, Deliver(c)
        PROVE  SaveInv'
    BY <2>3, DeliverKeepsInv
  <2>4. ASSUME NEW c \in Conn, CmdSave(c)
        PROVE  SaveInv'
    BY <2>4, CommandHasEffect, CommandKeepsInv
  <2>5. CASE Truncate
    BY <2>5, BlankOK
    DEF Truncate, SaveInv, SaveTypeOK, AgesInv, PrivateNotKept, DiskInv, DiskCurrent, Blank
  <2>6. CASE WriteOut
    <3>1. disk' = [kind |-> "whole", image |-> Packed] /\ saved' = Packed /\ Packed' = Packed
      BY <2>6 DEF WriteOut, ToDisk, Packed
    <3>2. Packed \in Image /\ Packed.file = file /\ Packed.time = time
      BY PackedOK DEF SaveInv, Packed
    <3> QED
      BY <2>6, <3>1, <3>2
      DEF WriteOut, SaveInv, SaveTypeOK, AgesInv, PrivateNotKept, DiskInv, DiskCurrent
  <2>7. CASE Crash
    <3>1. pend' \in [Conn -> Seq(MemWrite)]
      BY <2>7 DEF Crash
    <3>2. file' = Blank.file /\ time' = FirstTimes /\ file' \in [File -> SaveFile]
      BY <2>7, BlankOK DEF Crash, Blank, Image
    <3> QED
      BY <2>7, <3>1, <3>2, BlankOK
      DEF Crash, SaveInv, SaveTypeOK, AgesInv, PrivateNotKept, DiskInv, DiskCurrent
  <2>8. CASE Restart
    BY <2>8, RestartKeepsInv
  <2>9. CASE UNCHANGED saveVars
    BY <2>9 DEF saveVars, SaveInv, SaveTypeOK, AgesInv, PrivateNotKept, DiskInv, DiskCurrent, Packed
  <2> QED BY <2>1, <2>2, <2>3, <2>4, <2>5, <2>6, <2>7, <2>8, <2>9 DEF SaveNext
<1> QED BY <1>1, <1>2, PTL DEF SaveSpec

-----------------------------------------------------------------------------
(* Results. *)

(* Files, ages, what is in save.bin and what is under way are well formed, *)
(* whatever commands, crashes and restarts came before.                    *)
THEOREM SaveTypes == SaveSpec => []SaveTypeOK
<1>1. SaveInv => SaveTypeOK
  BY DEF SaveInv
<1> QED BY <1>1, SaveInvariant, PTL

(* Two files are never equally recent in a course (sm64net.py:66-74),      *)
(* for any number of files.                                                *)
THEOREM AgesAlwaysRank == SaveSpec => []AgesRank
<1>1. SaveInv => AgesRank
  BY DEF SaveInv, AgesInv, AgesRank
<1> QED BY <1>1, SaveInvariant, PTL

(* A player's private flags get neither into the session's files nor into  *)
(* save.bin (sm64net.py:204-227).                                          *)
THEOREM PrivateFlagsNotKept == SaveSpec => []PrivateNotKept
<1>1. SaveInv => PrivateNotKept
  BY DEF SaveInv
<1> QED BY <1>1, SaveInvariant, PTL

(* A server that serves has saved what it holds (sm64net.py:129-131, 234). *)
THEOREM DiskIsCurrent == SaveSpec => []DiskCurrent
<1>1. SaveInv => DiskCurrent
  BY DEF SaveInv, DiskInv
<1> QED BY <1>1, SaveInvariant, PTL

(* Only a restart makes a server that is down serve, and it loads the last *)
(* complete save.                                                          *)
THEOREM RestartForgetsNothing == SaveSpec => NothingForgotten
<1>1. SaveInv /\ [SaveNext]_saveVars =>
        (pc = "down" /\ pc' = "serve" => file' = saved.file /\ time' = saved.time)
  <2> SUFFICES ASSUME SaveInv, [SaveNext]_saveVars, pc = "down", pc' = "serve"
               PROVE  file' = saved.file /\ time' = saved.time
    OBVIOUS
  <2>1. ASSUME NEW c \in Conn, Deliver(c)
        PROVE  FALSE
    BY <2>1 DEF Deliver
  <2>2. ASSUME NEW c \in Conn, CmdSave(c)
        PROVE  FALSE
    BY <2>2, CommandHasEffect DEF CommandEffect
  <2>3. Restart
    BY <2>1, <2>2 DEF SaveNext, saveVars, Join, Leave, Truncate, WriteOut, Crash
  <2> QED BY <2>3, RestartLoads
<1> QED BY <1>1, SaveInvariant, PTL DEF SaveSpec, NothingForgotten

(* Scoring in a file makes it the most recent one of the course, or of     *)
(* every course, and leaves all else in order (sm64net.py:66-74, 213-223), *)
(* for any number of files and courses.                                    *)
THEOREM AgesKeepOrder == SaveSpec => ScoredComesFirst
<1>1. SaveInv /\ [SaveNext]_saveVars =>
        \A f \in File : \A C \in SUBSET Course : Scores(f, C) => MovedUp(f, C)
  <2> SUFFICES ASSUME SaveInv, NEW f \in File, NEW C \in SUBSET Course, Scores(f, C)
               PROVE  MovedUp(f, C)
    OBVIOUS
  <2>1. time' = Touched(time, f, C)
    BY DEF Scores, CoinSet, Erase, Copy
  <2>2. time \in Times /\ Ranked(time)
    BY DEF SaveInv, AgesInv, SaveTypeOK
  <2>3. FirstIn(time, time', f, C)
    BY <2>1, <2>2, TouchedRanks
  <2> QED BY <2>3 DEF FirstIn, MovedUp
<1> QED BY <1>1, SaveInvariant, PTL DEF SaveSpec, ScoredComesFirst

-----------------------------------------------------------------------------
(* What a game will show after it got the writes on their way to it. *)

Public(x) == [x EXCEPT !.flag = @ \ Private]
Has(w, f) == f \in DOMAIN w.file

(* After the writes q a game whose image is g has x in file f, up to the   *)
(* private flags: from the last of the writes that has f, or all along.    *)
Comes(g, q, f, x) ==
  \/ \E k \in 1 .. Len(q) :
       /\ Has(q[k], f) /\ Public(q[k].file[f]) = x
       /\ \A m \in 1 .. Len(q) : Has(q[m], f) => m <= k
  \/ /\ \A m \in 1 .. Len(q) : ~Has(q[m], f)
     /\ Public(g.file[f]) = x

AgesCome(g, q, t) ==
  /\ q = <<>> => g.time = t
  /\ \A k \in 1 .. Len(q) : k = Len(q) => q[k].time = t

GamesInv ==
  /\ pc = "down" => seated = {}
  /\ \A c \in seated :
       /\ AgesCome(game[c], pend[c], time)
       /\ \A f \in File : Comes(game[c], pend[c], f, file[f])

(* The head of a sequence and what follows it. *)
LEMMA TailElements ==
  ASSUME NEW S, NEW q \in Seq(S), q # <<>>
  PROVE  /\ Len(q) \in Nat /\ 1 \in 1 .. Len(q) /\ Head(q) = q[1]
         /\ Len(Tail(q)) = Len(q) - 1
         /\ \A k \in 1 .. Len(Tail(q)) : k + 1 \in 1 .. Len(q) /\ Tail(q)[k] = q[k + 1]
OBVIOUS

(* Append keeps the elements there are and adds one at the end. *)
LEMMA AppendElements ==
  ASSUME NEW S, NEW q \in Seq(S), NEW x
  PROVE  /\ Len(q) \in Nat /\ Len(Append(q, x)) = Len(q) + 1
         /\ \A k \in 1 .. Len(q) : Append(q, x)[k] = q[k]
         /\ Append(q, x)[Len(q) + 1] = x
OBVIOUS

(* A write is delivered: it goes from the front of the writes to the game. *)
LEMMA ComesRead ==
  ASSUME NEW q \in Seq(MemWrite), q # <<>>, NEW g, NEW h, NEW f, NEW x,
         Comes(g, q, f, x),
         h.file[f] = IF Has(q[1], f) THEN q[1].file[f] ELSE g.file[f]
  PROVE  Comes(h, Tail(q), f, x)
<1>1. PICK l \in Nat : l = Len(q)
  OBVIOUS
<1>2. PICK w : /\ w = Tail(q) /\ Len(w) = l - 1 /\ 1 \in 1 .. l
               /\ \A k \in 1 .. l - 1 : k + 1 \in 1 .. l /\ w[k] = q[k + 1]
  <2>1. /\ Len(Tail(q)) = Len(q) - 1 /\ 1 \in 1 .. Len(q)
        /\ \A k \in 1 .. Len(Tail(q)) : k + 1 \in 1 .. Len(q) /\ Tail(q)[k] = q[k + 1]
    BY TailElements
  <2> QED BY <1>1, <2>1
<1>3. ASSUME NEW k \in 1 .. l, Has(q[k], f), Public(q[k].file[f]) = x,
             \A m \in 1 .. l : Has(q[m], f) => m <= k
      PROVE  Comes(h, w, f, x)
  <2>1. CASE k = 1
    <3>1. ASSUME NEW m \in 1 .. l - 1
          PROVE  ~Has(w[m], f)
      <4>1. m + 1 \in 1 .. l /\ w[m] = q[m + 1] /\ ~(m + 1 <= k)
        BY <1>2, <2>1
      <4> QED BY <1>3, <4>1
    <3>2. Public(h.file[f]) = x
      BY <1>3, <2>1
    <3> QED BY <1>2, <3>1, <3>2 DEF Comes
  <2>2. CASE k # 1
    <3>1. PICK j \in 1 .. l - 1 : j = k - 1 /\ w[j] = q[k]
      <4>1. k - 1 \in 1 .. l - 1 /\ k = (k - 1) + 1
        BY <2>2
      <4> QED BY <1>2, <4>1
    <3>2. \A m \in 1 .. l - 1 : Has(w[m], f) => m <= j
      <4> TAKE m \in 1 .. l - 1
      <4>1. m + 1 \in 1 .. l /\ w[m] = q[m + 1]
        BY <1>2
      <4>2. Has(w[m], f) => m + 1 <= k
        BY <1>3, <4>1
      <4> QED BY <3>1, <4>2
    <3> QED BY <1>2, <1>3, <3>1, <3>2 DEF Comes
  <2> QED BY <2>1, <2>2
<1>4. ASSUME \A m \in 1 .. l : ~Has(q[m], f), Public(g.file[f]) = x
      PROVE  Comes(h, w, f, x)
  <2>1. \A m \in 1 .. l - 1 : ~Has(w[m], f)
    BY <1>2, <1>4
  <2>2. h.file[f] = g.file[f]
    BY <1>2, <1>4
  <2> QED BY <1>2, <1>4, <2>1, <2>2 DEF Comes
<1> QED BY <1>1, <1>2, <1>3, <1>4 DEF Comes

(* A write that leaves a file alone is put behind the others.              *)
LEMMA ComesOther ==
  ASSUME NEW q \in Seq(MemWrite), NEW w, NEW g, NEW f, NEW x,
         ~Has(w, f), Comes(g, q, f, x)
  PROVE  Comes(g, Append(q, w), f, x)
<1>1. PICK l \in Nat : l = Len(q)
  OBVIOUS
<1>2. PICK p : /\ p = Append(q, w) /\ Len(p) = l + 1 /\ p[l + 1] = w
               /\ \A k \in 1 .. l : p[k] = q[k]
  <2>1. /\ Len(Append(q, w)) = Len(q) + 1 /\ Append(q, w)[Len(q) + 1] = w
        /\ \A k \in 1 .. Len(q) : Append(q, w)[k] = q[k]
    BY AppendElements
  <2> QED BY <1>1, <2>1
<1>3. \A k \in 1 .. l + 1 : Has(p[k], f) => k \in 1 .. l /\ p[k] = q[k]
  <2> TAKE k \in 1 .. l + 1
  <2>1. k \in 1 .. l \/ k = l + 1
    OBVIOUS
  <2> QED BY <1>2, <2>1
<1>4. \A k \in 1 .. l : k \in 1 .. l + 1 /\ p[k] = q[k]
  BY <1>2
<1>5. ASSUME NEW k \in 1 .. l, Has(q[k], f), Public(q[k].file[f]) = x,
             \A m \in 1 .. l : Has(q[m], f) => m <= k
      PROVE  Comes(g, p, f, x)
  <2>1. k \in 1 .. Len(p) /\ Has(p[k], f) /\ Public(p[k].file[f]) = x
    BY <1>2, <1>4, <1>5
  <2>2. \A m \in 1 .. Len(p) : Has(p[m], f) => m <= k
    BY <1>2, <1>3, <1>5
  <2> QED BY <2>1, <2>2 DEF Comes
<1>6. ASSUME \A m \in 1 .. l : ~Has(q[m], f), Public(g.file[f]) = x
      PROVE  Comes(g, p, f, x)
  BY <1>2, <1>3, <1>6 DEF Comes
<1> QED BY <1>1, <1>2, <1>5, <1>6 DEF Comes

(* A write of the file is put behind the others, and is the last word.     *)
LEMMA ComesThis ==
  ASSUME NEW q \in Seq(MemWrite), NEW w, NEW g, NEW f, NEW x,
         Has(w, f), Public(w.file[f]) = x
  PROVE  Comes(g, Append(q, w), f, x)
<1>1. /\ Len(q) \in Nat /\ Len(Append(q, w)) = Len(q) + 1 /\ Append(q, w)[Len(q) + 1] = w
  BY AppendElements
<1>2. /\ Len(q) + 1 \in 1 .. Len(Append(q, w))
      /\ \A m \in 1 .. Len(Append(q, w)) : m <= Len(q) + 1
  BY <1>1
<1> QED BY <1>1, <1>2 DEF Comes

(* Without their private flags, the session's files are themselves, and    *)
(* what is written of them is.                                             *)
LEMMA PublicOfTidy ==
  ASSUME NEW x \in SaveFile, x.flag \cap Private = {}, NEW private \in SUBSET Private
  PROVE  Public(x) = x /\ Public(PackFile(x, private)) = x
<1>1. x.flag \ Private = x.flag /\ (x.flag \cup private) \ Private = x.flag
  OBVIOUS
<1> QED BY <1>1 DEF Public, PackFile, SaveFile

(* The newcomer is sent everything.                                        *)
LEMMA JoinBrings ==
  ASSUME SaveInv, NEW c \in Conn, Join(c), NEW g
  PROVE  /\ pend'[c] = <<Packed>>
         /\ AgesCome(g, <<Packed>>, time)
         /\ \A f \in File : Comes(g, <<Packed>>, f, file[f])
<1>1. pend'[c] = <<Packed>>
  BY DEF Join, SaveInv, SaveTypeOK
<1>2. PICK q : q = <<Packed>> /\ Len(q) = 1 /\ q[1] = Packed /\ q # <<>>
  <2>1. Len(<<Packed>>) = 1 /\ <<Packed>>[1] = Packed /\ <<Packed>> # <<>>
    OBVIOUS
  <2> QED BY <2>1
<1>3. Packed.file = file /\ Packed.time = time
  BY DEF Packed
<1>4. AgesCome(g, q, time)
  BY <1>2, <1>3 DEF AgesCome
<1>5. ASSUME NEW f \in File
      PROVE  Comes(g, q, f, file[f])
  <2>1. file[f] \in SaveFile /\ file[f].flag \cap Private = {} /\ DOMAIN file = File
    BY DEF SaveInv, SaveTypeOK, PrivateNotKept
  <2>2. Has(q[1], f) /\ Public(q[1].file[f]) = file[f]
    BY <1>2, <1>3, <2>1, PublicOfTidy DEF Has
  <2> QED BY <1>2, <2>2 DEF Comes
<1> QED BY <1>1, <1>2, <1>4, <1>5

(* A command's write brings the one file it changed, and the ages.         *)
LEMMA CommandBrings ==
  ASSUME SaveInv, CommandEffect, NEW c \in seated, NEW g,
         AgesCome(g, pend[c], time),
         \A f \in File : Comes(g, pend[c], f, file[f])
  PROVE  /\ AgesCome(g, pend'[c], time')
         /\ \A f \in File : Comes(g, pend'[c], f, file'[f])
<1>1. PICK f \in File, private \in SUBSET Private :
        Broadcast(f, private) /\ \A h \in File \ {f} : file'[h] = file[h]
  BY DEF CommandEffect
<1>2. c \in Conn /\ pend[c] \in Seq(MemWrite)
  BY DEF SaveInv, SaveTypeOK
<1>3. PICK w : w = Update(f, private)
  OBVIOUS
<1>4. pend'[c] = Append(pend[c], w)
  BY <1>1, <1>2, <1>3 DEF Broadcast
<1>5. /\ w.time = time'
      /\ \A h : Has(w, h) <=> h = f
      /\ w.file[f] = PackFile(file'[f], private)
  BY <1>3 DEF Update, Has
<1>6. AgesCome(g, pend'[c], time')
  <2>1. /\ Len(pend[c]) \in Nat /\ Len(pend'[c]) = Len(pend[c]) + 1
        /\ pend'[c][Len(pend[c]) + 1] = w
    BY <1>2, <1>4, AppendElements
  <2>2. pend'[c] # <<>>
    BY <2>1
  <2> QED BY <1>5, <2>1, <2>2 DEF AgesCome
<1>7. ASSUME NEW h \in File
      PROVE  Comes(g, pend'[c], h, file'[h])
  <2>1. CASE h = f
    <3>1. file'[f] \in SaveFile /\ file'[f].flag \cap Private = {}
      BY DEF CommandEffect, Tidy
    <3>2. Has(w, f) /\ Public(w.file[f]) = file'[f]
      BY <1>5, <3>1, PublicOfTidy
    <3> QED BY <1>2, <1>4, <2>1, <3>2, ComesThis
  <2>2. CASE h # f
    <3>1. ~Has(w, h) /\ file'[h] = file[h] /\ Comes(g, pend[c], h, file[h])
      BY <1>1, <1>5, <2>2
    <3> QED BY <1>2, <1>4, <3>1, ComesOther
  <2> QED BY <2>1, <2>2
<1> QED BY <1>6, <1>7

(* A delivery takes a write from the stream to the game.                   *)
LEMMA DeliverBrings ==
  ASSUME SaveInv, NEW c \in Conn, Deliver(c),
         AgesCome(game[c], pend[c], time),
         \A f \in File : Comes(game[c], pend[c], f, file[f])
  PROVE  /\ AgesCome(game'[c], pend'[c], time)
         /\ \A f \in File : Comes(game'[c], pend'[c], f, file[f])
<1>1. pend[c] \in Seq(MemWrite) /\ pend[c] # <<>> /\ pend'[c] = Tail(pend[c])
  BY DEF SaveInv, SaveTypeOK, Deliver
<1>2. /\ Len(pend[c]) \in Nat /\ 1 \in 1 .. Len(pend[c]) /\ Head(pend[c]) = pend[c][1]
      /\ Len(pend'[c]) = Len(pend[c]) - 1
      /\ \A k \in 1 .. Len(pend'[c]) :
           k + 1 \in 1 .. Len(pend[c]) /\ pend'[c][k] = pend[c][k + 1]
  BY <1>1, TailElements
<1>3. PICK w : w = pend[c][1]
  OBVIOUS
<1>4. game'[c] = [file |-> [f \in File |-> IF f \in DOMAIN w.file THEN w.file[f]
                                                                ELSE game[c].file[f]],
                  time |-> w.time]
  BY <1>2, <1>3 DEF Deliver, SaveInv, SaveTypeOK
<1>5. AgesCome(game'[c], pend'[c], time)
  <2>1. ASSUME pend'[c] = <<>>
        PROVE  game'[c].time = time
    <3>1. Len(pend[c]) = 1
      BY <1>2, <2>1
    <3> QED BY <1>2, <1>3, <1>4, <3>1 DEF AgesCome
  <2>2. ASSUME NEW k \in 1 .. Len(pend'[c]), k = Len(pend'[c])
        PROVE  pend'[c][k].time = time
    <3>1. k + 1 = Len(pend[c])
      BY <1>2, <2>2
    <3> QED BY <1>2, <3>1 DEF AgesCome
  <2> QED BY <2>1, <2>2 DEF AgesCome
<1>6. ASSUME NEW f \in File
      PROVE  Comes(game'[c], pend'[c], f, file[f])
  <2>1. game'[c].file[f] = IF Has(pend[c][1], f) THEN pend[c][1].file[f] ELSE game[c].file[f]
    BY <1>3, <1>4 DEF Has
  <2> QED BY <1>1, <2>1, ComesRead
<1> QED BY <1>5, <1>6

(* The inductive invariant of the games: what is on its way to a game      *)
(* makes it what the server holds.                                         *)
THEOREM GamesInvariant == SaveSpec => []GamesInv
<1>1. SaveInit => GamesInv
  BY DEF SaveInit, GamesInv
<1>2. SaveInv /\ GamesInv /\ [SaveNext]_saveVars => GamesInv'
  <2> SUFFICES ASSUME SaveInv, GamesInv, [SaveNext]_saveVars
               PROVE  GamesInv'
    OBVIOUS
  <2> DEFINE Served(g, q, t, files) ==
               AgesCome(g, q, t) /\ \A f \in File : Comes(g, q, f, files[f])
  <2>1. /\ pend \in [Conn -> Seq(MemWrite)] /\ game \in [Conn -> Image] /\ seated \subseteq Conn
        /\ \A c \in seated : Served(game[c], pend[c], time, file)
    BY DEF SaveInv, SaveTypeOK, GamesInv
  <2>2. SUFFICES /\ pc' = "down" => seated' = {}
                 /\ \A c \in seated' : Served(game'[c], pend'[c], time', file')
    BY DEF GamesInv
  <2> HIDE DEF Served
  <2>3. ASSUME NEW d \in Conn, Join(d)
        PROVE  /\ pc' = "down" => seated' = {}
               /\ \A c \in seated' : Served(game'[c], pend'[c], time', file')
    <3>1. Served(game[d], pend'[d], time, file)
      BY <2>3, JoinBrings DEF Served
    <3>2. \A c \in seated : c # d /\ pend'[c] = pend[c]
      BY <2>1, <2>3 DEF Join
    <3> QED BY <2>1, <2>3, <3>1, <3>2 DEF Join
  <2>4. ASSUME NEW d \in Conn, Leave(d)
        PROVE  /\ pc' = "down" => seated' = {}
               /\ \A c \in seated' : Served(game'[c], pend'[c], time', file')
    BY <2>1, <2>4 DEF Leave
  <2>5. ASSUME NEW d \in Conn, Deliver(d)
        PROVE  /\ pc' = "down" => seated' = {}
               /\ \A c \in seated' : Served(game'[c], pend'[c], time', file')
    <3>1. d \in seated => Served(game'[d], pend'[d], time, file)
      BY <2>1, <2>5, DeliverBrings DEF Served
    <3>2. \A c \in seated : c # d => pend'[c] = pend[c] /\ game'[c] = game[c]
      BY <2>1, <2>5 DEF Deliver
    <3>3. UNCHANGED <<file, time, pc, seated>>
      BY <2>5 DEF Deliver
    <3> QED BY <2>1, <3>1, <3>2, <3>3 DEF GamesInv
  <2>6. ASSUME NEW d \in Conn, CmdSave(d)
        PROVE  /\ pc' = "down" => seated' = {}
               /\ \A c \in seated' : Served(game'[c], pend'[c], time', file')
    <3>1. CommandEffect
      BY <2>6, CommandHasEffect
    <3>2. pc' = "open" /\ seated' = seated /\ game' = game
      BY <3>1 DEF CommandEffect, Broadcast
    <3>3. ASSUME NEW c \in seated
          PROVE  Served(game[c], pend'[c], time', file')
      BY <2>1, <3>1, CommandBrings DEF Served
    <3> QED BY <3>2, <3>3
  <2>7. CASE Truncate \/ WriteOut \/ UNCHANGED saveVars
    BY <2>1, <2>7 DEF Truncate, WriteOut, saveVars, GamesInv
  <2>8. CASE Crash
    BY <2>8 DEF Crash
  <2>9. CASE Restart
    BY <2>9 DEF Restart, GamesInv
  <2> QED BY <2>3, <2>4, <2>5, <2>6, <2>7, <2>8, <2>9 DEF SaveNext
<1> QED BY <1>1, <1>2, SaveInvariant, PTL DEF SaveSpec

(* A game that got everything shows the session's files and ages, up to    *)
(* the private flags, though a command writes no more than it changed.     *)
THEOREM GamesShowTheSession == SaveSpec => []GamesAgree
<1>1. GamesInv => GamesAgree
  <2> SUFFICES ASSUME GamesInv, NEW c \in seated, pend[c] = <<>>
               PROVE  /\ game[c].time = time
                      /\ \A f \in File : [game[c].file[f] EXCEPT !.flag = @ \ Private] = file[f]
    BY DEF GamesAgree
  <2>1. /\ AgesCome(game[c], <<>>, time)
        /\ \A f \in File : Comes(game[c], <<>>, f, file[f])
    BY DEF GamesInv
  <2>2. game[c].time = time
    BY <2>1 DEF AgesCome
  <2>3. ASSUME NEW f \in File
        PROVE  Public(game[c].file[f]) = file[f]
    BY <2>1 DEF Comes
  <2> QED BY <2>2, <2>3 DEF Public
<1> QED BY <1>1, GamesInvariant, PTL
=============================================================================
