------------------------------ MODULE MemWords ------------------------------
(***************************************************************************)
(* The emulator keeps the console's memory in words of the host, so byte   *)
(* i of the console is byte i^3 of its word.  mem_wr and mem_rd of the     *)
(* client (client/src/memory.c) turn every word round, mem_rd in place;    *)
(* nff_load (client/src/main.c) writes the sections of a file.             *)
(***************************************************************************)
EXTENDS Integers

CONSTANTS
  Words,   \* bound: words of memory
  MaxLen,  \* bound: bytes of a section
  Sections \* bound: sections of a file

ASSUME MemWordsAssumption ==
  /\ Words \in Nat /\ Words >= 2
  /\ MaxLen \in Nat /\ Sections \in Nat

VARIABLES
  ram,      \* the emulator's bytes
  np_table, \* what address -1 stands for
  section,  \* sections written so far
  dst,      \* what the last mem_rd returned, until the next mem_wr
  from,     \* history: and from which address
  console     \* history: the bytes the console should see

wordVars == <<ram, np_table, section, dst, from, console>>

Byte == 0 .. 4 * Words - 1
Xor3(i) == 4 * (i \div 4) + 3 - (i % 4)

Junk == <<0, -1>>

(* One word turned round in place, byte by byte. *)
TurnedInPlace(b) == <<b[4], b[3], b[3], b[4]>>
Turned(b) == <<b[4], b[3], b[2], b[1]>>

(* byteswap: whole words, and then a rest that comes in part from beyond   *)
(* the source; what it becomes is not followed.                            *)
Byteswap(src, size) ==
  [i \in 0 .. size - 1 |->
     LET w == 4 * (i \div 4)
     IN IF w + 3 < size
        THEN Turned(<<src[w], src[w + 1], src[w + 2], src[w + 3]>>)[i - w + 1]
        ELSE Junk]

WordInit ==
  /\ ram = [p \in Byte |-> <<0, Xor3(p)>>]
  /\ np_table = 4 * (Words - 2)
  /\ section = 0
  /\ dst = <<>> /\ from = 0
  /\ console = [a \in Byte |-> <<0, a>>]

(* A section of n bytes for addr. *)
RamWr(addr, n) ==
  LET a    == IF addr = -1 THEN np_table ELSE addr
      op   == section + 1
      data == Byteswap([i \in 0 .. n - 1 |-> <<op, i>>], n)
      last == 4 * (n \div 4)
  IN /\ section < Sections
     /\ a + n <= 4 * Words
     /\ section' = op
     /\ ram' = [p \in Byte |-> IF p \in a .. a + n - 1 THEN data[p - a] ELSE ram[p]]
     /\ console' = [x \in Byte |->
                    IF x \in a .. a + last - 1 THEN <<op, x - a>>
                    ELSE IF x \in a + last .. a + 4 * ((n + 3) \div 4) - 1 THEN Junk
                    ELSE console[x]]
     /\ dst' = <<>>
     /\ UNCHANGED <<np_table, from>>

RamRd(a, n) ==
  /\ dst' = Byteswap([i \in 0 .. n - 1 |-> ram[a + i]], n)
  /\ from' = a
  /\ UNCHANGED <<ram, np_table, section, console>>

Aligned == {4 * w : w \in 0 .. Words - 1}

WordNext ==
  \/ \E a \in Aligned \cup {-1}, n \in 1 .. MaxLen : RamWr(a, n)
  \/ \E a \in Aligned, n \in 1 .. MaxLen : a + n <= 4 * Words /\ RamRd(a, n)

-----------------------------------------------------------------------------
(* Whatever sections were written over each other: of every whole word the *)
(* console sees the bytes of the file in the file's order, a word that no  *)
(* section touches is left alone, and a mem_rd returns what the console    *)
(* sees; only a last word that a size leaves incomplete is lost            *)
(* (memory.c:29-50, main.c:92-114).                                       *)
WordsRight ==
  /\ \A x \in Byte : console[x] = Junk \/ ram[Xor3(x)] = console[x]
  /\ \A i \in DOMAIN dst :
       (4 * (i \div 4) + 3 \in DOMAIN dst /\ console[from + i] # Junk)
          => dst[i] = console[from + i]
=============================================================================
