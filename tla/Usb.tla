--------------------------------- MODULE Usb ---------------------------------
(***************************************************************************)
(* The client of a real console: client/src/memory_usb.c on the host,      *)
(* usb/src/main.c, edx.c and cart.c on the console, and the two FIFOs of   *)
(* the USB chip between them, word by word.  A command is four words, a    *)
(* write is followed by its data.  Nothing marks where a command begins:   *)
(* if the console gives up waiting (8192 polls) for words that come later, *)
(* it reads them as the next command.                                      *)
(***************************************************************************)
EXTENDS Integers, Sequences, SequencesExt

CONSTANTS
  MemLen,    \* words of memory
  Chunk,     \* words the chip hands over at once, 512 bytes
  Fifo,      \* words the chip keeps for the host
  Size,      \* bound: words of a request
  MaxOp,     \* bound: requests of the host
  MaxOpen    \* bound: runs of the client

ASSUME UsbAssumption ==
  /\ Chunk \in Nat /\ Chunk >= 4 /\ Fifo \in Nat /\ Fifo >= Chunk
  /\ MemLen \in Nat /\ Size \subseteq 1 .. MemLen

VARIABLES
  mem,     \* the console's memory: for each word, what was put there
  up,      \* words sent to the console
  came,    \* how many of them have arrived
  down,    \* words sent to the host
  host,    \* the client: off, idle, or in a request
  req,     \* its request
  got,     \* what a mem_rd has received
  asked,   \* history: requests so far
  opens,   \* runs of the client so far
  usb,     \* where the console's thread is
  usb_cmd, \* the command it works on, with the address and length left
  late,    \* history: in this run the console has given up on something
  meant    \* history: memory as this run of the client meant it to be

hostVars == <<host, req, got, asked, opens, meant>>
consoleVars == <<mem, usb, usb_cmd, late>>
usbVars == <<hostVars, consoleVars, up, came, down>>

Place == 0 .. MemLen - 1

(* A word: part of a command, or data of the request op for a place. *)
Code(c) == [is |-> c, v |-> 0, op |-> 0]
Number(v) == [is |-> "number", v |-> v, op |-> 0]
Data(a, op) == [is |-> "data", v |-> a, op |-> op]

Command(code, addr, size) == <<Code(code), Number(addr), Number(size), Number(0)>>

UsbInit ==
  /\ mem = [a \in Place |-> Data(a, 0)]
  /\ up = <<>> /\ came = 0 /\ down = <<>>
  /\ host = "off" /\ req = [addr |-> 0, size |-> 0] /\ got = <<>>
  /\ asked = 0 /\ opens = 0
  /\ usb = "idle"
  /\ usb_cmd = [code |-> "none", addr |-> 0, left |-> 0]
  /\ late = FALSE /\ meant = mem

-----------------------------------------------------------------------------
(* The host. *)

Say(words) == up' = up \o words /\ UNCHANGED <<came, down, consoleVars>>

Ask(a, n) ==
  /\ host = "idle" /\ asked < MaxOp
  /\ a + n <= MemLen
  /\ asked' = asked + 1
  /\ req' = [addr |-> a, size |-> n]
  /\ got' = <<>>
  /\ UNCHANGED <<opens, meant>>

MemRd(a, n) == Ask(a, n) /\ host' = "recv" /\ Say(Command("netR", a, n))

(* mem_wr: two calls of ftdi_write_data, whose results nobody looks at. *)
MemWr(a, n) == Ask(a, n) /\ host' = "data" /\ Say(Command("netW", a, n))
MemWrData ==
  /\ host = "data"
  /\ host' = "idle"
  /\ Say([i \in 1 .. req.size |-> Data(req.addr + i - 1, asked)])
  /\ meant' = [a \in Place |-> IF a \in req.addr .. req.addr + req.size - 1
                               THEN Data(a, asked) ELSE meant[a]]
  /\ UNCHANGED <<req, got, asked, opens>>

RecvAll(n) ==
  /\ host = "recv"
  /\ n <= Len(down) /\ n <= req.size - Len(got)
  /\ got' = got \o SubSeq(down, 1, n)
  /\ down' = SubSeq(down, n + 1, Len(down))
  /\ host' = IF Len(got') = req.size THEN "idle" ELSE "recv"
  /\ UNCHANGED <<req, asked, opens, meant, up, came, consoleVars>>

(* The client ends: nothing was read 300 times, or it is stopped; of what  *)
(* it wrote, what has not arrived may be lost.                             *)
Ends(sent) ==
  /\ host # "off" /\ sent \in came .. Len(up)
  /\ host' = "off" /\ got' = <<>>
  /\ up' = SubSeq(up, 1, sent)
  /\ UNCHANGED <<req, asked, opens, meant, came, down, consoleVars>>

(* mem_init: opening the device empties both FIFOs.  Until a client is     *)
(* started again the console has given up on what the last one left.       *)
Open ==
  /\ host = "off" /\ opens < MaxOpen
  /\ usb = "idle"
  /\ opens' = opens + 1
  /\ host' = "idle" /\ got' = <<>>
  /\ up' = <<>> /\ came' = 0 /\ down' = <<>>
  /\ late' = FALSE /\ meant' = mem
  /\ UNCHANGED <<req, asked, mem, usb, usb_cmd>>

Arrive ==
  /\ came < Len(up)
  /\ came' = came + 1
  /\ UNCHANGED <<hostVars, consoleVars, up, down>>

-----------------------------------------------------------------------------
(* The console.  The thread outranks the game's, which stands still until  *)
(* usb is idle again.                                                      *)

Least(a, b) == IF a < b THEN a ELSE b
Part == Least(Chunk, usb_cmd.left)

Take(n) ==
  /\ n <= came
  /\ up' = SubSeq(up, n + 1, Len(up))
  /\ came' = came - n
  /\ UNCHANGED <<hostVars, down>>

(* __edx_usb_sync fails: the chip has moved some words into its buffer by  *)
(* then; from there nobody fetches them.                                   *)
TimesOut(needs) ==
  /\ came < needs
  /\ \E n \in 0 .. came : Take(n)
  /\ late' = TRUE
  /\ UNCHANGED mem

(* usb_update wakes the thread once a frame; __edx_usb_is_rd. *)
Poll ==
  /\ usb = "idle" /\ came > 0
  /\ usb' = "cmd"
  /\ UNCHANGED <<hostVars, mem, usb_cmd, late, up, came, down>>

Loop(more) == usb' = IF more > 0 THEN "cmd" ELSE "idle"

RdCmd ==
  /\ usb = "cmd"
  /\ Take(4)
  /\ usb_cmd' = [code |-> up[1].is, addr |-> up[2].v, left |-> up[3].v]
  /\ CASE up[1].is = "netR" -> usb' = "out"
       [] up[1].is = "netW" -> usb' = "in"
       [] OTHER -> Loop(came - 4)
  /\ UNCHANGED <<mem, late>>

RdCmdFails ==
  /\ usb = "cmd"
  /\ TimesOut(4)
  /\ usb' = "idle"
  /\ UNCHANGED usb_cmd

Moved == [usb_cmd EXCEPT !.addr = @ + Part, !.left = @ - Part]

(* __edx_usb_rd_dram and __edx_usb_wr_dram, one chunk.  Data read in the   *)
(* place of a command may name any address; the game's memory ends here.   *)
RdDram ==
  /\ usb = "in" /\ usb_cmd.left > 0
  /\ Take(Part)
  /\ mem' = [a \in Place |->
               IF a \in usb_cmd.addr .. usb_cmd.addr + Part - 1
               THEN up[a - usb_cmd.addr + 1] ELSE mem[a]]
  /\ usb_cmd' = Moved
  /\ UNCHANGED <<usb, late>>

RdDramGoesOn ==
  /\ usb = "in" /\ usb_cmd.left > 0
  /\ TimesOut(Part)
  /\ usb_cmd' = Moved
  /\ UNCHANGED usb
RdDramFails ==
  /\ usb = "in" /\ usb_cmd.left > 0
  /\ TimesOut(Part)
  /\ Loop(came')
  /\ UNCHANGED usb_cmd

WrDram ==
  /\ usb = "out" /\ usb_cmd.left > 0
  /\ Len(down) + Part <= Fifo
  /\ down' = down \o [i \in 1 .. Part |-> mem[usb_cmd.addr + i - 1]]
  /\ usb_cmd' = Moved
  /\ UNCHANGED <<hostVars, up, came, mem, usb, late>>

(* The host does not read: as much of the chunk as fits is in its FIFO. *)
WrDramFails ==
  /\ usb = "out" /\ usb_cmd.left > 0
  /\ LET room == Fifo - Len(down)
     IN /\ Part > room
        /\ down' = down \o [i \in 1 .. room |-> mem[usb_cmd.addr + i - 1]]
  /\ late' = TRUE
  /\ Loop(came)
  /\ UNCHANGED <<hostVars, up, came, mem, usb_cmd>>

Served ==
  /\ usb \in {"in", "out"} /\ usb_cmd.left = 0
  /\ Loop(came)
  /\ UNCHANGED <<hostVars, mem, usb_cmd, late, up, came, down>>

UsbNext ==
  \/ \E a \in Place, n \in Size : MemRd(a, n) \/ MemWr(a, n)
  \/ \E n \in 1 .. MemLen : RecvAll(n)
  \/ \E n \in 0 .. Len(up) : Ends(n)
  \/ MemWrData \/ Open \/ Arrive
  \/ Poll \/ RdCmd \/ RdCmdFails \/ RdDram \/ RdDramFails \/ WrDram \/ WrDramFails \/ Served

-----------------------------------------------------------------------------
(* However late the words of either side come, whatever the console gives  *)
(* up on, and whenever a client is stopped: a word in memory is one that   *)
(* the host or the game meant for that place, and a word a mem_rd has      *)
(* received is the one at the place it asked for.  Where nothing came too  *)
(* late, all that this run of the client wrote is there (main.c:38-51,     *)
(* edx.c:65-103).                                                          *)
UsbInStep ==
  /\ \A a \in Place : mem[a].is = "data" /\ mem[a].v = a
  /\ \A i \in DOMAIN got : got[i] = mem[req.addr + i - 1]
  /\ (host = "idle" /\ up = <<>> /\ usb = "idle" /\ ~late) => mem = meant
=============================================================================
