------------------------------ MODULE MemScan ------------------------------
(***************************************************************************)
(* mem_init of the client (client/src/memory.c): where in the emulator's   *)
(* process is the console's memory?  Its exception vectors, four equal     *)
(* lines of 16 bytes, are looked for at every line of every writable page; *)
(* the line of a page is the outer loop.  A line that cannot be read       *)
(* leaves buf as it was, and mem_rd turns the bytes of buf round all the   *)
(* same.                                                                   *)
(***************************************************************************)
EXTENDS Integers, FiniteSets

CONSTANTS
  PgLen,     \* lines of a page
  PageCount,  \* bound: pages of the process
  Vector,    \* lines from one vector to the next
  Nothing

ASSUME MemScanAssumption ==
  /\ PgLen \in Nat /\ PageCount \in Nat \ {0}
  /\ Vector \in Nat /\ 3 * Vector < PgLen
  /\ Nothing \notin -1 .. PgLen * PageCount - 1

VARIABLES
  map,   \* of each page: read and written, only read, or not there
  line,  \* of each line, the bytes: the vector in the emulator's order, the
         \* vector as the console has it, or others
  off, area, sample, \* the loops, area over the pages
  buf,   \* mem_test's
  base   \* Nothing, the line found, or -1: eprint

memScanVars == <<map, line, off, area, sample, buf, base>>

Line == 0 .. PgLen * PageCount - 1
PageOf(l) == l \div PgLen
Readable(l) == l \in Line /\ map[PageOf(l)] # "none"

Sample(b, k) == b + k * Vector

(* byteswap of a whole line. *)
Swapped(bytes) ==
  CASE bytes = "turned" -> "key" [] bytes = "key" -> "turned" [] OTHER -> bytes

(* A process holds one run of lines in the emulator's order, and perhaps a *)
(* line of a ROM file in the console's.                                    *)
MemScanInit ==
  /\ map \in [0 .. PageCount - 1 -> {"rw", "r", "none"}]
  /\ \E first \in Line, len \in 0 .. 3 * Vector + 2, rom \in Line \cup {-1} :
       line = [l \in Line |-> IF l \in first .. first + len - 1 THEN "turned"
                              ELSE IF l = rom THEN "key" ELSE "other"]
  /\ off = 0 /\ area = 0 /\ sample = 0
  /\ buf \in {"other", "key"}
  /\ base = Nothing

ReadLineUnswapped(l) ==
  IF Readable(l) THEN Swapped(line[l]) ELSE buf
ReadLine(l) ==
  IF Readable(l) THEN Swapped(line[l]) ELSE Swapped(buf)

NextPlace(p, o) ==
  /\ area' = IF p < PageCount - 1 THEN p + 1 ELSE 0
  /\ off' = IF p < PageCount - 1 THEN o ELSE o + 1
  /\ base' = IF p = PageCount - 1 /\ o = PgLen - 1 THEN -1 ELSE Nothing
  /\ sample' = 0

(* mem_scan leaves out what is not both readable and writable. *)
SkipPage ==
  /\ base = Nothing
  /\ map[area] # "rw"
  /\ NextPlace(area, off)
  /\ UNCHANGED <<map, line, buf>>

MemTest ==
  /\ base = Nothing
  /\ map[area] = "rw"
  /\ LET b == area * PgLen + off
     IN /\ buf' = ReadLine(Sample(b, sample))
        /\ IF buf' # "key" THEN NextPlace(area, off)
           ELSE IF sample < 3
           THEN sample' = sample + 1 /\ UNCHANGED <<area, off, base>>
           ELSE base' = b /\ UNCHANGED <<area, off, sample>>
  /\ UNCHANGED <<map, line>>

MemScanNext == SkipPage \/ MemTest

-----------------------------------------------------------------------------
IsBase(b) ==
  /\ map[PageOf(b)] = "rw"
  /\ \A k \in 0 .. 3 : Readable(Sample(b, k)) /\ line[Sample(b, k)] = "turned"

(* The order of the search: lines of a page, then pages. *)
Before(a, b) == a % PgLen < b % PgLen \/ (a % PgLen = b % PgLen /\ a < b)

(* What is taken for the console's memory has all four vectors, none of    *)
(* them read before from elsewhere, and is the first such place; the       *)
(* search fails only if there is none (memory.c:116-133, 253-281).         *)
FoundRight ==
  /\ base \in Line => IsBase(base) /\ \A b \in Line : IsBase(b) => ~Before(b, base)
  /\ base = -1 => \A b \in Line : ~IsBase(b)
=============================================================================
