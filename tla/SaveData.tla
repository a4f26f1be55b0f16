------------------------------- MODULE SaveData -------------------------------
(***************************************************************************)
(* SAVE_DATA (server/sm64net.py:63-79): for every course, how recently     *)
(* each save file scored in it.  time[f][c] is 0 for the file that scored  *)
(* last; the game breaks ties between equal coin records by it.            *)
(***************************************************************************)
EXTENDS Integers

CONSTANTS
  NFile,    \* save files (4 in the program, whose ages are masked with 3)
  Course    \* courses with a coin record

ASSUME NFileAssumption == NFile \in Nat \ {0}

File == 0 .. NFile - 1
Age  == 0 .. NFile - 1
Times == [File -> [Course -> Age]]

(* SAVE_DATA.__init__ *)
FirstTimes == [f \in File |-> [c \in Course |-> NFile - 1 - f]]

(***************************************************************************)
(* time_update of one course: the files that are younger than f grow older *)
(* by one and f becomes the youngest.  The loop reads time[f] unchanged,   *)
(* since f is never younger than itself.                                   *)
(***************************************************************************)
AgedUnmasked(age, f) == [i \in File |-> IF i = f THEN 0 ELSE age[i] + 1]
AgedAll(age, f) == [i \in File |-> IF i = f THEN 0 ELSE (age[i] + 1) % NFile]
AgedSwap(age, f) ==
  [i \in File |-> IF i = f THEN 0 ELSE IF age[i] = 0 THEN age[f] ELSE age[i]]
Aged(age, f) ==
  [i \in File |-> IF i = f THEN 0
                  ELSE IF age[i] < age[f] THEN (age[i] + 1) % NFile ELSE age[i]]

(* time_update for the courses in C: one of them, or all (time_update_all). *)
Touched(time, f, C) ==
  [i \in File |->
     [c \in Course |-> IF c \in C THEN Aged([j \in File |-> time[j][c]], f)[i]
                                  ELSE time[i][c]]]

Ranked(time) == \A c \in Course : \A i, j \in File : time[i][c] = time[j][c] => i = j
=============================================================================
