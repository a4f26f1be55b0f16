# SM64Net in TLA+

TLA+ models of SM64Net, the framework that lets several players of *Super Mario
64* share a session: what its server, its clients and the code it loads into the
games do to each other, model-checked with TLC on small instances, with the
central results proved with TLAPS for every size. Paths below are relative to
the repository's root.

- [1 The system](#1-the-system)
- [2 Components, their state, and what makes them correct](#2-components-their-state-and-what-makes-them-correct)
- [3 Modules and how they correspond to the code](#3-modules-and-how-they-correspond-to-the-code)
- [4 Runs: what is checked](#4-runs-what-is-checked)
- [5 Proofs: what holds for every size](#5-proofs-what-holds-for-every-size)
- [6 Findings](#6-findings)
- [7 What is not modelled, and the simplifications](#7-what-is-not-modelled-and-the-simplifications)
- [8 Plan](#8-plan)

## 1 The system

```
  game (N64 code in an emulator)          client (client/)             server (server/*.py)
  +---------------------------+    memory    +-----------+   TCP + UDP   +-----------------+
  | np_data[0]  own record    | -----------> | net_update| ------------> | update()        |
  | np_data[1..] peers        | <----------- | 30 / s    | <------------ | 60 / s          |
  | net_main, np_*, net_mem   |              +-----------+               | np_table, SAVE  |
  +---------------------------+                                          +-----------------+
```

Every player runs an emulator and, beside it, the *client*, a program that reads
and writes the emulator's memory. The *server* is one Python thread. When a
client connects, the server sends it a `NET_META`, the machine code of the
framework (`main.nff`, with the C files of `server/src`), the save game, and the
records of the players who are there. From then on

- 30 times a second the client sends the *UDP half* of the game's own record
  (position, animation) as a datagram; the server forwards it to every other
  player, renumbered, and their clients write it into a peer record;
- when the game has something that must not be lost (another stage or character,
  a hit on a peer, a change of the save game), it fills in the *TCP half* of its
  record and stores a command in `np_tcp_id`. The client sends the record, then
  stores 0. The server keeps it for newcomers (`SYNC`), forwards it (`SYNC`,
  `COL`), or applies it to the save game it owns and writes the result into all
  games (`SAVE`).

There are no locks and no acknowledgements. Four kinds of process touch the same
data in steps nobody orders: the game's thread, the client, the server, and the
network.

## 2 Components, their state, and what makes them correct

| component | source | state | operations |
| --- | --- | --- | --- |
| server event loop | `server/server.py`, `server/main.py` | `np_table`, sockets, result of `select()` | `init`, `update_connect`, `update` (accept, datagram, one message or end of stream per player) |
| player table and forwarding | `server/sm64net.py` `NET_PL` | `tcp`, the last record SYNCed | `sync`, `cmd_sync`, `cmd_col`, `update_connect`, `update_tcp`, `update_udp` |
| shared save game | `server/sm64net.py` `SAVE*`, `cmd_save` | four files, the ages of their coin records, `save_flag` per player, `save.bin` | six `SAVE` commands, `save`, start from `save.bin` |
| client program | `client/src/main.c` | its connection, `np_table` (an address in the game) | `net_init`, `net_update`, `recvall`, `sendall`, `nff_load` |
| game mailbox | `server/src/net.c`, `np.c`, `np_object.c` | `np_data[0]` | `net_init`, `net_save_*`, `np_main` (collisions), `np_update_self` |
| animation page allocator | `server/src/net_mem.c` | `net_heap.page[]` | `net_mem_init`, `net_alloc`, `net_free` |
| peer display | `server/src/np.c` | object, animation and timer of a peer | `np_update_peer`, `np_free`, `np_init_peer` |
| location list | `server/src/np.c` | scroll position, rows | part of `np_update_self`, `np_update_peer` |
| interpolation | `server/src/np.c` | `np_timer`, `np_timer_prev`, `np_timer_delta`, the object | `interpolate_s`, `interpolate_f` |
| peer drawing | `server/src/np_shape.c` | copies of Mario's values | `np_draw`, before and after a body |
| emulator memory access | `client/src/memory.c` | base address | `mem_rd`, `mem_wr`, `mem_test`, `mem_scan`, `byteswap` |
| NFF files | `client/src/main.c`, `server/sm64net.py` | none | `nff_load`, `nff` |
| GUI | `gui/src/main.c` | settings, `config.bin`, `config.nff` | `ascii_to_msg`, `cfg_*`, `wnd_save`, windows |
| USB client | `usb/src/*`, `client/src/memory_usb.c` | position in a command stream | read and write over an EverDrive |
| server console | `server/ui.py` | none of its own | shows names |
| hooks, link scripts, build, headers | `nff.sx`, `*.ld`, `*.mk`, `include/*` | none | |

What makes them correct, and is hard to test:

- **Table and forwarding.** The server numbers players by slot; every game has
  its own player in record 0 and so numbers them differently. A slot is freed and
  taken again while records, datagrams and collision reports with the old number
  are still under way. Whose data is in which record? Does a player see the
  others, only the others, and each once? Does a newcomer miss a change that
  falls between its snapshot and the messages forwarded afterwards? Does a
  reconnect throw somebody out?
- **Save game.** The four files' ages must stay a ranking; a player's private
  flags (where her cap was lost) are mixed into the shared ones to apply a
  command and must be taken out again on every path; `save.bin` is emptied
  before it is written.
- **Mailbox.** The client copies the record out of a running machine, in address
  order, while the game fills it in. What is sent under an id must be what the
  game posted with it, in order, none missing, although the client may be
  stopped anywhere and started again.
- **Peer display.** A record's pages and object are given back on five paths, each
  of which clears another part of the record, while the client replaces what the
  game reads twice. Nothing may leak, be freed twice or be shown after it was
  given back, and a peer who is gone must fade.
- **Allocator.** The search skips pages it never looked at and adds two
  increments; blocks must be disjoint and the first fit must be found.
- **Console over USB.** The command stream has no marks: a side that gives up
  waiting leaves words behind that the other side takes for something else.
- **Emulator memory.** Its base is searched for with a buffer that an unreadable
  page leaves as it was; its bytes are in another order than the console's.
- **Launcher.** Two files are emptied and written one after the other, and the game
  must get the name and colour that the window shows.
- **On the screen.** A peer must arrive where she is, by the short way round; the
  list of players must not skip or repeat one while it scrolls and players come
  and go; and what is changed in Mario's values to draw a peer must be put back.

## 3 Modules and how they correspond to the code

| module | models |
| --- | --- |
| `PeerIndex` | the renumbering of `NET_PL.sync`: slot of a player to record of a viewer |
| `Wire` | TCP connections (listen queue, two streams of messages, end of stream), datagrams, losses: external |
| `Server` | one action per step of `server.py:update` |
| `Client` | one action per operation of `client/src/main.c`; the peer records of the game it writes to |
| `Net` | the three together, with fairness and the properties |
| `SaveData` | `SAVE_DATA`: the ages of the coin records, as operators |
| `Save` | `SAVE`, `cmd_save`, `save.bin`, crash and restart |
| `Channel` | the abstract mailbox: an at-least-once channel of whole messages |
| `Mailbox` | a game's thread and its client on `np_data[0]`; implements `Channel` |
| `NetHeap` | the abstract allocator: first fit, in one step |
| `NetHeapScan` | the loops of `net_alloc`, one test of a byte per step; implements `NetHeap` |
| `PeerSlot` | how a game shows its peers: timer, object and animation of the records 1.., in pages of `NetHeap` |
| `PeerView` | how a peer moves: the interpolations, and the delay they get from the timers |
| `Location` | the list of players and places, row by row |
| `Draw` | `np_draw`: Mario's values exchanged for a peer's and back |
| `Usb` | `memory_usb.c`, `usb/src/main.c` and `edx.c`, and the chip between them |
| `MemScan` | the search for the console's memory in an emulator |
| `MemWords` | byte order: `mem_rd`, `mem_wr`, `byteswap`, and the sections of `nff_load` |
| `Gui` | the launcher's window, names and files |
| `MCNet`, `MCMailbox`, `MCPeerSlot`, `MCParts` | instances for TLC |
| `NetProofs`, `NetOrderProofs`, `SaveProofs`, `NetHeapProofs`, `MailboxProofs`, `PeerSlotProofs`, `PartsProofs`, `GuiProofs` | theorems |

**Connections.** The client program connects once and exits when its connection
ends, so a member of `Conn` is one run of the client: `phase` goes from `off`
over `meta` (waiting for `NET_META`) and `run` to `gone`. `AddrOf` says on which
host it runs; two members with the same host are a client and its reconnect.
`sock` is the server's end, `fin` that the server's host knows that the other
end is gone, which may be long after. The streams hold the fixed-size messages
both ends read. What a message carries is a version number of its owner's TCP
half, or for a datagram only its owner: enough to tell whose data is where, and
how old it is.

**`update()`.** `select()` is the action `Select`; what it returned and is not yet
served is in `rdListen`, `rdDgram`, `rdSock`, so the world goes on between the
steps of one `update()`, and a socket that was readable may have lost its seat by
the time it is its turn (`Stray`). Accepting is `RefuseBanned`, `Admit` or
`RefuseFull`; `Admit` is the whole of `update_connect`, the welcome included.
`ServeDgram` is `update_udp`; `CmdSync`, `CmdCol` and `Leave` are `update_tcp` and
the end of a stream. `ban.txt` is read anew for every connection, so a host is
banned or not from one to the next: `Banned` are the hosts that are written into it or
out of it at any time, `BanText` those of them with a text.

**Games.** `rec[a][n]` and `pos[a][n]` are the two halves of record `n` in the game
on host `a`. They belong to the host: a client that is started again finds what
the one before wrote, unless the game was restarted (`RestartGame`). A welcome brings
the program (`main.nff`) before the records of the others, and the game starts it when
it next comes to `net_main`: from then on the host is in `boot` until `NetInit`, which
takes the character out of every peer's record, those of the same welcome included.
`chr[a]` are the records whose character is still the one that was sent. A record's
`synced`, a history field, is what its player had SYNCed when it was sent.

**Collisions.** `np_col` holds a record number of the attacker's game. The history
field `aim` remembers which player that game showed there, and `hit` in the answer
is that player, so that `HitFindsPlayer` and `HitRightPlayer` can say whom the answer reached.

**Save.** One server thread: `pc` is `serve` between commands, then `open` (before
`open(..., "wb")`), `write` (the file is empty), and `down` after a crash. `pend`
is what was sent to a game and not yet written into it. `saved` is a history
variable, the last image written completely.

**Mailbox.** The client's copy is two steps, `ReadHead` (the id, which lies first)
and `ReadRest`, and sending and clearing are two more. On the game's side, the
end of a spin, filling in the arguments, storing the id, and storing `np_stage`
are steps of their own. `num`, the number of the post, is a history field. The mapping to
`Channel` takes for the message in the box what the game *meant* to post
(`Posted(np.num)`, from the history) and for a delivered message what the client
*read* (`Content`), so a copy that mixes two commands, or a half-filled one, is no
step of the channel. A delivery is `Send`, a removal `Clear`; a client that is stopped
in between is the deliverer who forgets. `wiped` is a history variable: a `config.nff`
was written over a command, and the channel is spoiled.

**Allocator.** The bytes that follow `page[]` in memory are the data of page 0 and
the search reads them; `spill` says which of them are zero.

**Peers in a game.** A frame runs through the records, `n`; `pc` is the next line of
`np_update_peer` that reads something the client may write: the test of the timer
and the place (`Check`), `np_anime_dst` when it is compared, tested, used for the
size, for the copy, and kept (`Compare`, `Test`, `Alloc`, `Dma`, `Store`), and the load and
store of `np_timer--` (`ShowObject`, `Recount`). `RecvUdp` comes between any two of
them. What the place test finds is a free choice: nothing else reads
`np_stage` and `np_scene`, so a `SYNC` may always have come just before. `FreeAt` is
`net_free` of a pointer that need not be a block; `Alloc` is `NetHeap`'s. `Reload` is
`net_init` under a client that was started again, `LeaveStage` and `EnterStage` are
the game. `loaded` and `zeroed` are history.

**Parts that meet in no state.** `Save`, `NetHeapScan`, `PeerView`, `Location`, `Draw`, `Usb`,
`MemScan`, `MemWords` and `Gui` share no variable with each other.
`MCParts` checks them in one run: a behaviour chooses one `part` at its start and the
others stay as they began.

*`Usb`.* Words, not bytes: every command is four words and the requests of this
program are of whole words; the data never equals a command's code (the codes are
ASCII, and a transfer that is in step never looks). What was sent and has not
arrived is behind `came`, so that a read of the chip can run out of time between two
words (`RdCmdFails`, `RdDramFails`), after the chip has moved some of them. `Open` empties
both FIFOs; until a client is started again the console has long given up on what
the last one left. `late` says that the console gave up on something in this run of
the client: such a write is lost, silently, since neither side acknowledges.

*`MemScan`.* A line of 16 bytes is what it matters as: the vector in the emulator's
byte order, in the console's, or other bytes. `ReadLine` of a line that cannot be
read turns round what was in `buf`: a vector read before becomes the vector in the
wrong order, which is why a stale buffer does not match again.

*`MemWords`.* `console` is a history variable: the bytes the console should see. A
last word that a size leaves incomplete is filled from beyond the source, and is
not followed; the sections of the project's own files are whole words.

*`PeerView`.* Angles are exact, in 16 bits with C's division. What is left of a way is
in sixteenths of a unit and rounded up, since a float may stop there too; it is
never less than what the code leaves.

*`Location`.* The rows of a frame are printed peer by peer, and between two of them
datagrams come (`Online`).

*`Draw`.* Values are those of Mario or of a peer; `mario` is history, what the game last
gave Mario. Both angles of the head are set to the peer's, but only the first is saved
before and put back after (`np_shape.c:87`, `:101`, `:149`): finding 6.

*`Gui`.* A name is text in the window and game characters in the files. `Macro` are
the entries of `msg_char_table` that are spelled with two or three letters, `Known` the
characters that stand for themselves; the assumption says that macros overlap only as
those of the table do. `Round` is one round of the loop of `ascii_to_msg`: it takes a macro
or one character, and a character that means nothing is skipped but uses up a round,
and with it room. `config.bin` and `config.nff` are empty from `Cut` until
they are written; opening either may fail, and the window may be killed at any
step.

Operators such as `EchoesSwapped` or `AgedAll` stand beside the operator whose
name they extend: they are that operator with a plausible slip in it, and are
used to confirm that the properties notice it. No specification uses them.

## 4 Runs: what is checked

| run | question | bounds | states |
| --- | --- | --- | --- |
| `NetJoin` | joins, leaves, SYNCs, hits and datagrams of three players in every order: snapshot, numbering, ghosts, hits | 3 clients on 3 hosts, 3 slots; 1 message each, or 1 datagram sent at a time and up to 4 on the way with copies | 1.1 million |
| `NetOrder` | nothing SYNCed is taken back, by a reconnect neither; a SYNC reaches everyone who stays (liveness) | 3 clients on 2 hosts, 2 slots; 2 messages of one, a SYNC of the other | 71 000 |
| `NetAgain` | two slots; a host banned at some time, a client and its reconnect with the old seat perhaps still there, and one more: seats, answers to everybody, seats freed (liveness) | 4 clients on 3 hosts, 2 slots | 49 000 |
| `NetEcho` | *violated*: a player never sees herself as a peer | two hosts, with a reconnect | |
| `NetBanText` | *violated*: the text of a ban is shown as a ban | 2 clients | |
| `NetChar` | *violated*: a newcomer shows the characters that were SYNCed | 2 clients | |
| `NetHit` | *violated*: a hit is reported to nobody but the player that was hit | 3 clients, 2 slots | |
| `Mailbox` | the mailbox implements `Channel`; freshness of what is sent; the game does not hang while a client runs (liveness) | 4 posts, 2 runs of the client, 2 stages | 679 000 |
| `PeerSlot` | peers come, change animations, fade and are forgotten, the client writing in between: pages, objects, timers | 2 peers, 3 pages, 2 animations of 1 and 2 pages, 4 objects, timeout 1 of a byte of 3 values | 613 000 |
| `Parts` | the parts that share no state, each by itself | see below | 1.4 million |
| `NetHeapEnd` | *violated*: a block ends within the heap | 5 pages, blocks of up to 3 | |
| `DrawHead` | *violated*: Mario is drawn with all his own values | 1 peer | |

**Properties of `Net`.**
`SeatedOnce`: one seat for a connection, and open sockets exactly for the seated.
`LiveSeatKept`: nobody who is still running loses her seat.
`OwnRecordUntouched`: nothing is aimed at record 0.
`NoGhost`: whoever is online is shown in the one record the server counts as hers,
in both halves, however late a message for that record's previous owner.
`NeverSeesSelf`: no double of oneself.
`JoinMissesNothing`: a game whose client read everything shows every other player
at least as she last SYNCed, in name, colour and place; the snapshot and the forwarded
messages leave no gap. `JoinShowsCharacter` says the same of the character, and is
violated (finding 4).
`NoRollback`: while a game shows a player, what she had SYNCed when that was sent is
never taken back. A COL's record is newer than the one the server keeps, and a game that
outlived its client is given the older one by the next welcome; that much may
go back, but nothing that was SYNCed.
`HitFindsPlayer`: if the player that was hit is still online when the COL is served, she is
told and nobody else. `HitRightPlayer`: nobody but her is ever told; violated, once she has
left (finding 5).
`EveryoneAnswered`, `SeatFreed`, `SyncSpreads`: what happens in the end.
`NoGhost` and `HitFindsPlayer` assume one run of the client per host (`OneRunPerHost`): a
game that outlived its client shows its peers under the numbers of an earlier slot until
they SYNC again, and finding 1 shows that a reconnect can be seated twice. `NoGhost` is
about two players who are online: data that a player who left has left in a record
may stand there until the next owner of her slot SYNCs or moves.

**Properties of `Save`.** `AgesRank`: the ages are a ranking. `ScoredComesFirst`: a
coin record makes the file it is in the most recent of its course, an erasure or a copy the
file erased or copied over the most recent of every course; behind it the others keep
their order, and the ages of other courses do not change. `PrivateNotKept`: no private flag in the
session's files or in `save.bin`. `GamesAgree`: the two memory writes of a command
are all that it changed, so that a game that received everything has the
session's files, up to private flags. `DiskCurrent`, `NothingForgotten`: the disk.

**Properties of `Mailbox`.** `OnceInOrder`, the refinement: what is sent under an id is
what was posted with it, commands are sent in order, none left out, and one is
repeated only after a stop between sending and clearing; all this as long as no
`config.nff` was written over a command. `ServerUpToDate`: once
all is quiet, the server knows the present character, and the present stage or
the one before it; the code stores `np_stage` after the id that announces it.
`GameGoesOn`: the game does not hang in a spin while a client runs.

**Properties of the allocator.** `FirstFit`, the abstract allocator, is a property
of the loops; with it `Disjoint` and `TableExact`. `ScanInv`, which says what the search
knows about the pages it skipped, is the invariant of the proof.

**Properties of `PeerSlot`.** `PagesOwned`: every page handed out belongs to one
record and every animation shown is a block of the heap. `HeapUse`: what the
records do to the heap is a behaviour of `NetHeap`, so that the theorems about it
apply. `ObjectsRight`: in a stage `np_obj` is the record's own object, and after the
objects' scripts there is one for a peer who is shown and none for any other.
`AnimeKnown`: `np_anime_src` names what is loaded, unless `np_anime_dst` was replaced
during the load; then the peer is shown with a wrong animation until she
changes to another. `PeerFades`: the timer stays within `NP_TIMEOUT`, unless a 0 came
between its test and its decrement; then it comes round once.

**Properties of the parts.** `UsbInStep`: no word ends up where nobody meant it,
whatever came late, and where nothing did all writes are there. `NameKept`: a name
fits its record, is a beginning of what was typed but for what means nothing, and
all of it when that is no longer than the room; loading and saving it again changes
nothing. `LaunchShown`: the game gets what
the window shows, unless a save failed or was cut short. `FoundRight`: the console's
memory is found at the first place that is one, and nowhere else. `WordsRight`: the
console sees a section's bytes in the file's order, and reads come back the same.
`Settled`: a peer from whom nothing comes any more stands where she last was before
she fades. `RowsRight`: the list shows those online, each once, under her number.
`DrawnRightButHead`: a peer is drawn with all her own values and no body but hers, and Mario
with his but for `head_y`; with `head_y` too, `DrawnRight`, it is violated (finding 6).

**Why the bounds are enough.** Every hazard in `Net` needs at most three parties: a
viewer, a player who leaves, and one who takes her slot; three slots are the
least in which slot 0, the viewer's own slot and another slot are all
different, the three cases of the renumbering. One message each makes versions 0
and 1, old and new; order needs more and has a run of its own. A datagram sent
becomes one to each other player, any of which may be doubled, overtaken and
late: more than one of them at a time is the least that can overtake.
`NetOrder` needs two messages of one player, so that there is something to take
back, a player who can be hit, and her second client, into whose game a welcome
writes. Of `Save`, in `Parts`, three files make a source and a target of a copy and a
file that is neither, and three ages are the least that can be in a wrong order; two
courses, so that one of them is not the one scored in; two
commands let the second one meet what the other player's left behind, in the games and
on a disk that was not written. The ages are proved for any number of files. Four
posts in `Mailbox` are two more than can be under way at once. A heap of five pages
fits a block of three, one of two and leaves every kind of hole. In `PeerSlot`
two peers with animations of one and two pages fill three pages, so that one is
refused and holes arise; four objects are two for each peer, her present one and
one that was forgotten. A timeout of 1 and a byte of 3 values keep the order
0 < `NP_TIMEOUT` < 255 on which `PeerFades` turns.
In `NetAgain` two slots and four clients are the least for a reconnect, another
player and one who finds no room. In `Parts`: requests of one word and of one more
than the chip hands over at once, two of them, and two runs of the client; all
entries of two or three letters of `msg_char_table` with a few characters that stand for
themselves, a room of five, and names that end within a macro, overlap themselves, or
have a meaningless character whose loss would join the parts of a macro; three pages of four lines, so that vectors lie on three pages and across
their ends; three words and two sections that overlap in every way; half a
turn, an angle that is no power of two, and the width of a course, with the code's own `NP_TIMEOUT` and
`NP_DELTA_MAX` and two datagrams at any distance; four peers for two rows; two peers
beside Mario.

**Symmetry and pruning.** `NetJoin`, `PeerSlot` and `Parts` check invariants and
action properties only, none of which names a player, a host, a course or an object, and
permute those: in `Net` a player together with her host, in `Save` the players and the
courses, in `PeerSlot` the objects. The runs with liveness properties use no symmetry.

- `NetJoin`, `OneTraffic` (constraint): a behaviour has TCP messages or datagrams, not
  both. They write the two halves of the records, and no step reads or writes both; only
  seats decide about both, and those are in every behaviour.
- `NetJoin`, `NoCharacter` (view): `boot` and `chr` are left out of what tells states
  apart. They decide about no step but `NetInit`, which changes nothing else, and are in
  none of the properties of that run.
- `NetJoin`, `NetAgain` and `NetOrder`, `WelcomeFirst` (action constraint): the beginning of a
  welcome, up to the records, is read at once. Reading it disables nothing, and whatever
  could have come before leads to the same state after it.
- `NetAgain` and `NetOrder`, `BootsFirst` (action constraint, `WelcomeFirst` included): `NetInit`
  comes at once, for the same reason. `NetChar` has it at any time.
- `NetOrder`, `OneTalks` (action constraint): one player sends what she likes, the other's first
  client a single SYNC, without which nobody could hit her, her second client nothing.
- `PeerSlot`, `InTurn` (action constraint): the client writes a record only during that
  record's turn, and its animation only while that is read. Nothing reads a record
  at another time, so a write then commutes with the game's steps up to its turn.

`CHECK_DEADLOCK FALSE` is set where the system may really stop: every client is
gone, the bounded counters are used up, the server does not start because `save.bin` is
empty, or a part of `Parts` has come to its end. In `PeerSlot`, `NetHeapEnd` and
`DrawHead` deadlock is checked.

**Fairness.** The server's loop runs 60 times a second and serves what `select()`
returned: weak fairness of a server step. `select()` may leave out a socket whose
data is only just arriving, but not for ever: strong fairness of a `Select` that
returns it. A client that is not stopped runs `net_update` 30 times a second and
reads what is there; a host learns in the end that a peer is gone (FIN or
keep-alive): weak fairness. Nobody is obliged to start, to send, to move or to
leave. In `Mailbox` the game's thread and a client that was not stopped go on.
None of this covers two `sendall` calls that block each other, see section 7.

## 5 Proofs: what holds for every size

Every invariant and every action property that a passing run checks is also stated by
a theorem here, for every value of the constants; so are the two refinements. TLAPS
checks them without assumptions other than those named in the modules:

| assumption | says |
| --- | --- |
| `NPLenAssumption`, `WireAssumption` | at least one slot; every client has a host; banned hosts are hosts |
| `NFileAssumption`, `SaveAssumption` | at least one file; private flags are not shared flags |
| `HeapAssumption`, `PeerSlotAssumption` | a heap in which a block of the largest animation fits; `NP_TIMEOUT` within the byte that holds it |
| `MailboxAssumption` | numbers of commands and characters are natural; 0 is no stage |
| `UsbAssumption` | the chip hands over at least a command at once and its FIFO holds what it hands over; requests lie within the memory |
| `MemScanAssumption`, `MemWordsAssumption` | the four vectors that are looked for lie within a page; room for two words |
| `LocationAssumption`, `DrawAssumption` | numbers of peers and rows are natural, and the list has at least one peer |
| `ViewAssumption` | the code's `NP_TIMEOUT` (5.5 s) or more, its `NP_DELTA_MAX` or less, ways no longer than a course |
| `GuiAssumption` | what `msg_char_table` is like: macros have two letters or more and overlap no other |

**`NetProofs`.** `TypeInv` is `TypeOK` and `NumberInv`: every message and datagram is
numbered for a record other than 0, and record 0 of no game is written. The types
alone would not be inductive about record 0, since a client writes wherever a
message says; with the numbers it follows from the lemma `NumberingSound` (the
record of another slot is never 0, two slots never share a record). Results:
`NetTypes`, `OwnRecordNeverTouched`.

`SeatInv` is about seats and sockets. `SeatedOnce` is not inductive: it needs
`QueueInv`, that a connection is in the listen queue once and has no seat yet.
`LiveSeatKept` needs `HostInv` as well: among the connections of one host, seated or
queued, every one but the last has ended, because a user starts a client only
when the one before has ended, and the queue keeps the order of connecting. So
when `update_connect` gives a seat to a newcomer of the same host, the client that
had it is gone. Results: `OneSeatEach`, `SeatsOfTheLivingKept`.

`GhostInv` follows data from player to player. It says the same of every place where
something of one player is kept for another: a record (`RecFits`), its position
(`PosFits`), a message (`DownFits`), a datagram (`DgramFits`), a collision report
(`ColFits`). The other is not the receiver, both have been seated, and, if both are
seated now, the number is the one the server computes from their seats. That a seat, once
lost, is not had again by the same connection is why it is inductive: data of a
player who left says nothing about the seats from then on, however late it is. It needs
`OneRunPerHost`, since a game's records outlive its client; the run `NetEcho` shows
what goes wrong without. The properties are what it says of players who are both seated.
For a hit, `ColFits` says that the number a COL carries is, while attacker and victim are
seated, the one under which `cmd_col` finds her. Results: `NoGhosts`, `NoEcho`, `HitsReachTheHit`.

**`NetOrderProofs`.** `JoinInv`: a host runs one client at a time (`AliveOnce`), the
versions on the way to the server are in order (`UpInv`), and of every two seated
players (`Informed`) the last of the messages not yet read about the one's record, or the
record itself if there is none, shows the other with the version she last SYNCed,
or a later one. `UpInv` is needed because a hit forwards a record the server does not
keep. Result: `JoinsMissNothing`. It is about what `RecvTcp` writes; the character, which `NetInit`
takes out again, is in none of it.

`OrderInv` is about what had been SYNCed, and holds for any number of clients to a host.
What a message says was SYNCed is a lower bound for the versions behind it in the same
stream (`DownOrder`) and for what the server keeps (`Behind`, `Ahead`); what a record of a game says
was SYNCed is one for everything still on its way to that game about that player, from
whichever of the host's clients (`RecOrder`). Nothing is asked of the version a COL brought,
which may go back. So whatever is read into the record next is at least what
was SYNCed when the present content was sent. Result: `RecordsOnward`.

**`SaveProofs`.** `SaveInv` joins the types, the ranking of the session's ages and of
those on disk and in `saved`, the absence of private flags in all of them, and
`DiskInv`, which ties the disk to the program counter: whole and current when the
server serves, equal to `saved` unless torn. The lemma `CommandHasEffect` says
what the six commands have in common; the rest of the proof sees only that.
Results: `SaveTypes`, `AgesAlwaysRank` and `AgesKeepOrder` (`ScoredComesFirst`; any number of files and
courses), `PrivateFlagsNotKept`, `DiskIsCurrent`, `RestartForgetsNothing`.

`GamesInv` is about the writes on the way to a game. `GamesAgree` speaks of a game that has
received everything, which no step preserves by itself; the invariant says what the
pending writes make of the game: the last of them that has a file, or the game if none
has, has the session's file up to private flags (`Comes`), and the last of all has its ages
(`AgesCome`). A command that changes a file sends it; one that does not leaves the last
writer in place. Result: `GamesShowTheSession`.

**`NetHeapProofs`.** `HeapInv` for the abstract allocator; `ScanInv` for the loops: when
byte `page+i` is taken, no block that starts at or before it fits, so skipping to
the byte after it misses nothing. With it, each step of the loops is a step
of the abstract allocator or changes nothing of its state:
`LoopsImplementFirstFit`. `BlocksAreDisjoint` and `TableDescribesBlocks` are then
inherited.

**`MailboxProofs`.** `MailInv` says where the two processes are: while the game fills in
arguments the mailbox is empty (`GameInv`); a command that the client copied is still
there, since only a client empties it (`CopyInv`); and, unless wiped, the arguments in
the mailbox and in a copy about to be sent are those posted (`ArgsInv`). A copy can
be half of one command and half of nothing, but its id says "none" then and it is
not sent. With it each step is a step of `Channel` or none: `MailboxDelivers`. `SyncInv`
follows the present record on its way from the game to the server, and allows a
stage that is stored after the id: `ServerIsUpToDate`.

**`PeerSlotProofs`.** `PageInv`: no two records have the same animation, each record's is a
block, and each block is a record's, except that between `net_alloc` and the end of the
copy the new block is nobody's yet. What it needs of the allocator are the lemmas of
`NetHeapProofs`, by INSTANCE: a block that is freed was one, a new one is at no page of
the others. Results: `SlotTypes`, `NoPageLost`, and `HeapUsedRight`, that every step of the
records is a step of the allocator. `AnimeInv` says what is loaded while an
animation is being replaced, and marks a load that a datagram tore
(`AnimationsKnown`); `FadeInv` that a timer of 0 or beyond `NP_TIMEOUT` within the record's turn
is one that a datagram zeroed in that turn (`TimersRunOut`). `ObjectInv`: in a stage an
object and its record name each other and, but for the record whose turn it is, the
object shows the record's animation; out of a stage there is no object, and the frame
without `obj_mario` has emptied the records before the present one (`PeersShown`).

**`PartsProofs`.** One invariant for each part.
`DrawInv`: while a peer is drawn the copies hold Mario's values, `head_y` excepted (`DrawnAsThemselves`).
`LocationInv`: the counter is the number of those seen so far in this frame, and the rows
printed are the consecutive numbers from the first row's on, as many as fit or as
there are (`RowsAreRight`).
`WordInv`: the emulator's words are the console's turned round, for every offset and
length (`WordsAreRight`); the lemma under it is that turning round the bytes of a word
twice is nothing and that an address and its word agree.
`ScanInv`: none of the places before the present one is the memory, and the buffer's
vectors were read from the present place (`MemoryIsFound`). Here it matters that a line that
cannot be read turns the old buffer round.
`ViewInv`: every frame takes at least a fifteenth of the way, since the delay is 10 at most
and the divisor 15. Rounding leaves no closed form, so `Bound` is a table of what may be
left after every seventh frame, from the width of a course down to nothing;
`Falls` checks the table and `StepWithin` a single frame. `PeersSettle` says that the way, and
half a turn, are used up before `NP_TIMEOUT` is.
`UsbInv`: what is on the way to the console is a row of whole commands, a write followed by
its data, of which a beginning may be gone (`WriteInv`); what is on the way back are
the words of the request in order (`ReadInv`); and when nothing was late the words on
the way make of the memory what was meant (`MeantInv`). So a console that gave up
in the middle of a write finds data where it looks for a command and skips them
(`UsbStaysInStep`).

**`GuiProofs`.** The loop of `ascii_to_msg` for every text, every room and every table that
`GuiAssumption` admits. It is written as a function of the number of rounds;
`RoundsMade` and `MeantSoFar` are its invariants. A macro that was begun when there was no
more room for its spelling is taken letter by letter, and the second of them says that
such a name is full before the macro ends. `InStep` compares a name with the
reading of its own text: the second reading makes no more rounds than there are
pieces, so it never lacks the room that the first one had, and comes to the same
pieces. Result: `NameIsKept`. `LaunchInv` then ties window, `config`, and the two files
together, through every save that is cut short (`LaunchesAsShown`).

*Induction.* The library's induction rules take an operator as a parameter, which these
provers cannot instantiate. Where a proof about a recursive function needs one
(`GuiProofs`), it is done with a set: the numbers for which the claim is false have,
were there any, a least element (`Least`, from the well-foundedness of `<` on the naturals),
and the recursion equation refutes it. Elsewhere recursion is avoided by describing loops
as steps (`NetHeapScan`) or their result by a function (`Aged`).

*Only model-checked*: the four liveness properties, `GameGoesOn`, `EveryoneAnswered`,
`SeatFreed` and `SyncSpreads`, since the prover has no rules for fairness and ENABLED; and
of course the findings, which are counterexamples.

## 6 Findings

1. **A reconnect can be seated twice** (`NetEcho`). `server/server.py:57-61` takes the
   first slot that is free *or* of the same host. If the old connection's end was
   not noticed yet and a lower slot is free, the newcomer takes the lower one and
   the old seat stays. The server then forwards the player's own datagrams to
   her host as those of a peer, and she sees a double, until the old socket ends.
   `SeatedOnce` and `LiveSeatKept` still hold in this situation (`NetAgain`).
2. **The text of a ban is never shown** (`NetBanText`). It is sent as the first
   message (`server/server.py:49-53`), which `client/src/main.c:160-169` reads as a
   `NET_META` and reports as a server of another version. The branch for the ban
   notice, `client/src/main.c:209-214`, is never reached by it.
3. **A block may end beyond the heap** (`NetHeapEnd`). `server/src/net_mem.c:25` reads
   `page[page+i]` without comparing `page+i` with `NET_PAGE_LEN`. Near the end of the
   table it takes zero bytes of an animation for free pages.
4. **A newcomer may draw a player as another character** (`NetChar`). The welcome writes
   `main.nff` and then the records of the others (`server/sm64net.py:245-249`). The game
   starts the program in its own time, and `net_init` runs `np_init_peer`, which sets
   `np_shape_index`, a field of the TCP half, to 0 in every peer's record
   (`server/src/np.c:101`), also when the records have been written already. `np_update`
   takes the body from it (`np.c:127-128`), until that player SYNCs again.
5. **A hit may reach somebody else** (`NetHit`). `np_col` is a record number of the
   attacker's game, and `cmd_col` (`server/sm64net.py:189-198`) looks up its owner
   in the table of the moment it is served. If the player that was hit has left by then and
   another has taken her slot, the other is hit.
6. **Mario keeps a peer's head** (`DrawHead`). `np_shape.c:72` declares
   `static s16 rot_head_prev[2];`, with room for both angles, and `:100-101` set both to the
   peer's, but `:87` and `:149` copy `*camera_rot_head` and back, which is one of them.

## 7 What is not modelled, and the simplifications

Not modelled (`PROJECT.json` lists every component): the server's console, which
only reads; the hooks and the link scripts, used as facts about who calls what; the
checksum tool, which runs when a ROM is built; and the headers of the console and
of the game (`gbi.h`, `ultra64.h`, `sm64.h`), two thirds of the repository's lines, which
declare other people's code. Of the parts that are modelled: matrices and display
lists of `np_shape.c`, the texts of rows and names, the layout of windows and message
boxes, the parsing of arguments and of NFF tables, `mem_find`, which picks a process by
its name, and the registers of the cartridge.

Simplifications of what is modelled:

- The streams have no capacity: `sendall` never blocks. A server that blocks on a
  client which itself blocks in `sendall` depends on the sizes of socket buffers,
  which neither side sets; a bound chosen here would not be the code's.
- An error of the unguarded `sendall` of a ban notice is swallowed as `write_tcp`
  does it; in the code it would end `update()` with an exception.
- A socket that lost its seat earlier in the same `update()` is closed at once; in
  the code the list of `select()` holds it until the end of the call.
- `SAVE` commands are in `Save`, not in `Net`: they change nothing that `Net` has, and
  travel like SYNCs. Their delivery into the mailbox is in `Mailbox`.
- In `Save` the byte layout of `pack()`, checksums and the sound byte are left out; a
  crash during a write leaves the file torn, whatever its length.
- Names, colours, stage and character are a version number in `Net`.
- In `PeerSlot`, objects vanish only with the stage, and a frame is run without
  `obj_mario` before the next stage is there, as the comment in `np_update_peer` has
  it. `np_init_self`, scales and the look of a fading peer are left out (positions and
  `np_timer_delta` are in `PeerView`), and so is a garbage size of 0 from beyond the table.
- In `Mailbox` a client reads the mailbox first when it has written `main.nff`; in the code
  `net_update` may read, and send, in the frames before the welcome has arrived.
- No animation of the game is empty, so `net_alloc` is not called with size 0.

## 8 Plan

In this order:

1. A *roster*, the abstract specification of what `Net` promises: every viewer has a
   set of players, each with a version and the SYNC it is sure of, which only grows. `Net` under
   `OneRunPerHost` is to be shown to implement it, from `GhostInv`, `JoinInv` and `OrderInv`.
2. The parsing of NFF tables in `nff_load`, which reads offsets from the file it loads.
3. What `Net` abstracts from `SAVE` commands: their order with SYNCs in one stream, in a run
   that composes `Save` with the streams of `Wire`.
