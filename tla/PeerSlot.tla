------------------------------- MODULE PeerSlot -------------------------------
(***************************************************************************)
(* How a game shows its peers (server/src/np.c: np_update_peer, np_free,   *)
(* np_init_peer; np_object.c: np_main): for each record an object, and a   *)
(* copy of its animation in pages of the heap (NetHeap).  The game's       *)
(* thread runs through the records once a frame.  The client, in another   *)
(* process, writes a datagram or a TCP message over a record whenever one  *)
(* arrives, so that what np_update_peer reads twice may have changed.      *)
(***************************************************************************)
EXTENDS Integers, FiniteSets

CONSTANTS
  NPeer,     \* records shown, NP_LEN - 1
  Anime,     \* animations of the game
  Size,      \* pages of each
  Object,    \* objects of the game's pool that peers may get
  Timeout,   \* NP_TIMEOUT
  Byte,      \* 2^8, values of np_timer
  PageLen, MaxPages,
  None,      \* NULL; as an animation's index, 0xFF
  Torn, Ended   \* marks of loaded and of pool

ASSUME PeerSlotAssumption ==
  /\ NPeer \in Nat \ {0}
  /\ PageLen \in Nat \ {0} /\ MaxPages \in 1 .. PageLen
  /\ Size \in [Anime -> 1 .. MaxPages]
  /\ Timeout \in Nat \ {0} /\ Byte \in Nat /\ Timeout < Byte
  /\ Cardinality(Object) >= 2 * NPeer
  /\ None \notin Anime \cup Object \cup (1 .. NPeer) \cup (0 .. PageLen - 1)
  /\ Torn \notin Anime \cup {None}
  /\ Ended \notin (1 .. NPeer) \cup {None}

Peer == 1 .. NPeer

VARIABLES
  timer,     \* np_timer of each record     (UDP half)
  dst,       \* np_anime_dst                (UDP half)
  obj,       \* np_obj
  anime,     \* np_anime, as its first page
  src,       \* np_anime_src
  page, spill, blocks, result,   \* the heap
  pool,      \* the record an object was created for; None: not in use;
             \* Ended: its flag was set to 0
  shows,     \* the animation an object points to, skeleton.anime
  mario,     \* obj_mario: in a stage, gone with the stage, seen to be gone
  pc, n,     \* where the game's thread is in np_update_peer, for which record
  t,         \* the np_timer it loaded to decrement
  loaded,    \* history: the animation in a record's pages; Torn if np_anime_dst
             \* was replaced while it was being loaded
  zeroed     \* history: the timer came as 0 in the record's turn, after the test

heapVars == <<page, spill, blocks, result>>
udpVars == <<timer, dst, zeroed>>
peerVars == <<obj, anime, src, loaded>>
worldVars == <<pool, shows, mario>>
vars == <<udpVars, peerVars, heapVars, worldVars, pc, n, t>>

Heap == INSTANCE NetHeap

Load == {"test", "alloc", "dma", "store"}
Turn == Load \cup {"compare", "object"}

TypeOK ==
  /\ timer \in [Peer -> 0 .. Byte - 1]
  /\ dst \in [Peer -> Anime \cup {None}]
  /\ obj \in [Peer -> Object \cup {None}]
  /\ anime \in [Peer -> Heap!Page \cup {None}]
  /\ src \in [Peer -> Anime \cup {None}]
  /\ Heap!TypeOK
  /\ pool \in [Object -> Peer \cup {None, Ended}]
  /\ shows \in [Object -> Heap!Page \cup {None}]
  /\ mario \in {"in", "left", "out"}
  /\ pc \in {"frame", "check", "compare", "object", "recount", "objects"} \cup Load
  /\ n \in Peer
  /\ t \in 0 .. Byte - 1
  /\ loaded \in [Peer -> Anime \cup {None, Torn}]
  /\ zeroed \in [Peer -> BOOLEAN]

Init ==
  /\ timer = [p \in Peer |-> 0] /\ dst \in [Peer -> Anime \cup {None}]
  /\ obj = [p \in Peer |-> None]
  /\ anime = [p \in Peer |-> None] /\ src = [p \in Peer |-> None]
  /\ Heap!Init
  /\ pool = [o \in Object |-> None] /\ shows = [o \in Object |-> None]
  /\ mario = "out"
  /\ pc = "frame" /\ n = 1 /\ t = 0
  /\ loaded = [p \in Peer |-> None] /\ zeroed = [p \in Peer |-> FALSE]

-----------------------------------------------------------------------------
(* The client. *)

(* A datagram: the owner's record has np_timer = NP_TIMEOUT, or 0 if her   *)
(* game has not run np_init_self since her client wrote config.nff.        *)
RecvUdp(p) ==
  \E a \in Anime \cup {None}, v \in {0, Timeout} :
    /\ timer' = [timer EXCEPT ![p] = v]
    /\ dst' = [dst EXCEPT ![p] = a]
    /\ zeroed' = [zeroed EXCEPT ![p] =
                    IF n = p /\ pc = "recount" THEN @
                    ELSE v = 0 /\ n = p /\ pc \in Turn]
    /\ loaded' = [loaded EXCEPT ![p] = IF pc \in Load /\ n = p /\ a # dst[p] THEN Torn ELSE @]
    /\ UNCHANGED <<obj, anime, src, heapVars, worldVars, pc, n, t>>

-----------------------------------------------------------------------------
(* np_update_peer. *)

At(label) == pc = label /\ UNCHANGED mario
Goto(label) == pc' = label /\ UNCHANGED n
NextRecord == IF n < NPeer THEN pc' = "check" /\ n' = n + 1
                           ELSE pc' = "objects" /\ n' = 1

(* net_free(np_anime), whatever the table says by now; then np_anime_src. *)
FreeAt(at) ==
  /\ page' = Heap!Cleared([at |-> at])
  /\ spill' = [c \in DOMAIN spill |-> spill[c] \/ c \in at .. at + page[at] - 1]
  /\ blocks' = {b \in blocks : b.at # at}
  /\ UNCHANGED result

FreePagesKeepPtr ==
  /\ IF anime[n] = None THEN UNCHANGED heapVars ELSE FreeAt(anime[n])
  /\ UNCHANGED anime
FreePages ==
  /\ IF anime[n] = None THEN UNCHANGED heapVars ELSE FreeAt(anime[n])
  /\ anime' = [anime EXCEPT ![n] = None]

ForgetPages == /\ UNCHANGED src
               /\ loaded' = [loaded EXCEPT ![n] = None]
Forget == /\ src' = [src EXCEPT ![n] = None]
          /\ loaded' = [loaded EXCEPT ![n] = None]

EndObject ==
  /\ pool' = [o \in Object |-> IF o = obj[n] THEN Ended ELSE pool[o]]
  /\ shows' = [o \in Object |-> IF o = obj[n] THEN None ELSE shows[o]]
  /\ obj' = [obj EXCEPT ![n] = None]

NpFreeObject ==
  /\ EndObject
  /\ anime' = [anime EXCEPT ![n] = None]
  /\ UNCHANGED heapVars
  /\ IF anime[n] = None THEN UNCHANGED <<src, loaded>> ELSE Forget
NpFree ==
  /\ EndObject
  /\ FreePages
  /\ IF anime[n] = None THEN UNCHANGED <<src, loaded>> ELSE Forget

FadedNever == FALSE
Faded == timer[n] = 0

(* No stage: np_obj points to an object that is no more. *)
ForgetObject ==
  /\ obj' = [obj EXCEPT ![n] = None]
  /\ UNCHANGED <<anime, src, loaded, heapVars, pool, shows>>

(* A SYNC may have put the peer in any place by now, and nothing but this  *)
(* test reads np_stage and np_scene, once a frame: it may find either.     *)
Check ==
  /\ At("check")
  /\ \/ mario # "in" /\ ForgetObject /\ NextRecord
     \/ mario = "in" /\ NpFree /\ NextRecord
     \/ mario = "in" /\ ~Faded /\ Goto("compare") /\ UNCHANGED <<peerVars, heapVars, pool, shows>>
  /\ UNCHANGED <<udpVars, t>>

(* Another animation than the one that is loaded. *)
Compare ==
  /\ At("compare")
  /\ \/ dst[n] = src[n] /\ Goto("object") /\ UNCHANGED <<peerVars, heapVars>>
     \/ dst[n] # src[n] /\ Goto("test") /\ FreePages /\ Forget /\ UNCHANGED obj
  /\ UNCHANGED <<udpVars, pool, shows, t>>

Test ==
  /\ At("test")
  /\ Goto(IF dst[n] # None THEN "alloc" ELSE "object")
  /\ UNCHANGED <<udpVars, peerVars, heapVars, pool, shows, t>>

(* An index that is none by now reads any size from beyond the table. *)
Alloc ==
  /\ At("alloc")
  /\ \/ \E k \in IF dst[n] = None THEN 1 .. MaxPages ELSE {Size[dst[n]]} : Heap!Alloc(k)
     \/ dst[n] = None /\ Heap!Refuse
  /\ Goto(IF result' # None THEN "dma" ELSE "object")
  /\ UNCHANGED <<udpVars, peerVars, pool, shows, t>>

(* The copy is as long as the animation that is wanted now, and may reach  *)
(* into the pages of others.                                               *)
Dma ==
  /\ At("dma")
  /\ LET end == result + IF dst[n] = None THEN PageLen ELSE Size[dst[n]]
     IN loaded' = [q \in Peer |->
          IF q = n THEN IF loaded[n] = Torn THEN Torn ELSE dst[n]
          ELSE IF loaded[n] = Torn /\ anime[q] # None /\ anime[q] \in result .. end - 1 THEN Torn
          ELSE loaded[q]]
  /\ Goto("store")
  /\ UNCHANGED <<udpVars, obj, anime, src, heapVars, pool, shows, t>>

Store ==
  /\ At("store")
  /\ anime' = [anime EXCEPT ![n] = result]
  /\ src' = [src EXCEPT ![n] = dst[n]]
  /\ result' = None
  /\ Goto("object")
  /\ UNCHANGED <<udpVars, obj, loaded, page, spill, blocks, pool, shows, t>>

(* The object, created if there is none, and its animation; then the load  *)
(* of np_timer--.                                                          *)
ShowObject ==
  /\ At("object")
  /\ \/ obj[n] # None /\ UNCHANGED <<obj, pool>>
     \/ /\ obj[n] = None
        /\ \E o \in Object : /\ pool[o] = None
                             /\ obj' = [obj EXCEPT ![n] = o]
                             /\ pool' = [pool EXCEPT ![o] = n]
  /\ shows' = [shows EXCEPT ![obj'[n]] = anime[n]]
  /\ t' = timer[n]
  /\ Goto("recount")
  /\ UNCHANGED <<udpVars, anime, src, loaded, heapVars>>

(* np_timer--, its store: an unsigned byte. *)
LessSigned(v) == v - 1
Less(v) == (v - 1) % Byte

Recount ==
  /\ At("recount")
  /\ timer' = [timer EXCEPT ![n] = Less(t)]
  /\ zeroed' = [zeroed EXCEPT ![n] = @ /\ timer'[n] > Timeout]
  /\ t' = 0
  /\ NextRecord
  /\ UNCHANGED <<dst, peerVars, heapVars, pool, shows>>

-----------------------------------------------------------------------------
(* The game around it. *)

(* The objects' scripts: np_main ends an object that its record has        *)
(* forgotten; the game takes back what has ended.                          *)
GoneFlagged == {o \in Object : pool[o] = Ended}
Gone == {o \in Object : pool[o] = Ended \/ (pool[o] \in Peer /\ obj[pool[o]] # o)}

Objects ==
  /\ pc = "objects"
  /\ pool' = [o \in Object |-> IF o \in Gone THEN None ELSE pool[o]]
  /\ shows' = [o \in Object |-> IF o \in Gone THEN None ELSE shows[o]]
  /\ mario' = IF mario = "left" THEN "out" ELSE mario
  /\ pc' = "frame"
  /\ UNCHANGED <<udpVars, peerVars, heapVars, n, t>>

RunFrame ==
  /\ pc = "frame"
  /\ pc' = "check"
  /\ UNCHANGED <<udpVars, peerVars, heapVars, worldVars, n, t>>

(* net_init, when a client has loaded main.nff again; then the frame. *)
Reload ==
  /\ pc = "frame"
  /\ timer' = [p \in Peer |-> 0] /\ zeroed' = [p \in Peer |-> FALSE]
  /\ obj' = [p \in Peer |-> None]
  /\ anime' = [p \in Peer |-> None] /\ src' = [p \in Peer |-> None]
  /\ loaded' = src'
  /\ page' = [q \in Heap!Page |-> 0] /\ blocks' = {}
  /\ pc' = "check"
  /\ UNCHANGED <<dst, spill, result, worldVars, n, t>>

(* The stage is unloaded with all its objects.  Before the next one is     *)
(* there a frame is run without obj_mario (the comment of np_update_peer). *)
LeaveStage ==
  /\ pc = "frame" /\ mario = "in"
  /\ mario' = "left"
  /\ pool' = [o \in Object |-> None] /\ shows' = [o \in Object |-> None]
  /\ UNCHANGED <<udpVars, peerVars, heapVars, pc, n, t>>

EnterStage ==
  /\ pc = "frame" /\ mario = "out"
  /\ mario' = "in"
  /\ UNCHANGED <<udpVars, peerVars, heapVars, pool, shows, pc, n, t>>

Next ==
  \/ \E p \in Peer : RecvUdp(p)
  \/ Check \/ Compare \/ Test \/ Alloc \/ Dma \/ Store \/ ShowObject \/ Recount
  \/ Objects \/ RunFrame \/ Reload \/ LeaveStage \/ EnterStage

Spec == Init /\ [][Next]_vars

-----------------------------------------------------------------------------
(* Every page handed out belongs to one record, and a record's animation   *)
(* is a block of the heap, through every way a peer can disappear, change  *)
(* her animation or be forgotten (np.c:97-121, 311-334): nothing leaks,    *)
(* and nothing is shown from memory that was given back.                   *)
PagesOwned ==
  /\ \A p, q \in Peer : anime[p] # None /\ anime[p] = anime[q] => p = q
  /\ \A p \in Peer : anime[p] # None => \E b \in blocks : b.at = anime[p]
  /\ pc \notin {"dma", "store"} =>
       \A b \in blocks : \E p \in Peer : anime[p] = b.at

(* What the records do to the heap is what its users may do: they only     *)
(* give back blocks they were given, and each once (np.c:115-119,          *)
(* 314-318), or the game's memory is new (net_mem_init).                   *)
HeapUse ==
  [][ \/ Heap!Next \/ Heap!Refuse
      \/ blocks' = {} /\ \A q \in Heap!Page : page'[q] = 0 ]_heapVars

(* In a stage, np_obj is an object created for that record, so that        *)
(* np_free ends no other; and once the objects' scripts have run there is  *)
(* one object for a shown peer and none for any other, with the animation  *)
(* of that peer (np.c:265-273, np_object.c:11).                            *)
ObjectsRight ==
  /\ mario = "in" => \A p \in Peer : obj[p] # None => pool[obj[p]] = p
  /\ mario = "in" /\ pc = "frame" =>
       \A o \in Object : pool[o] # None =>
         obj[pool[o]] = o /\ shows[o] = anime[pool[o]]

(* np_anime_src names the animation that is loaded, unless np_anime_dst    *)
(* was replaced while it was being loaded (np.c:311-334).                  *)
AnimeKnown ==
  \A p \in Peer :
    loaded[p] # Torn /\ (pc \in Load => n # p) =>
      loaded[p] = src[p] /\ (src[p] = None <=> anime[p] = None)

(* A timer never exceeds NP_TIMEOUT, so that a peer of whom nothing comes  *)
(* any more fades within NP_TIMEOUT frames in her place, unless np_timer 0 *)
(* came in a datagram between the test and the decrement (np.c:305, 379).  *)
PeerFades == \A p \in Peer : timer[p] > Timeout => zeroed[p]
=============================================================================
