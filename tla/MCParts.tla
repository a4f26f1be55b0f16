------------------------------ MODULE MCParts ------------------------------
(***************************************************************************)
(* Small instances of the parts of the program that meet in no state: a    *)
(* behaviour is one of a single part, chosen at the start, the others stay *)
(* as they began.                                                          *)
(***************************************************************************)
EXTENDS Usb, Gui, MemScan, MemWords, PeerView, Location, Draw, Save, NetHeapScan, TLC

VARIABLE part

CONSTANTS p1, p2, shared, private, bit, co1, co2

MCConn == {p1, p2}
MCShared == {shared}
MCPrivate == {private}
MCBit == {bit}
MCCourse == {co1, co2}

(* Players, and courses, differ in nothing but their name. *)
Alike == Permutations(MCConn) \cup Permutations(MCCourse)

(* A word, and more than the chip hands over at once. *)
MCSize == {1, 5}

(* The entries of msg_char_table that are spelled with two or three.      *)
MCMacro ==
  {<<"[", "^", "]">>, <<"[", "v", "]">>, <<"[", "<", "]">>, <<"[", ">", "]">>,
   <<"[", "A", "]">>, <<"[", "B", "]">>, <<"[", "C", "]">>, <<"[", "Z", "]">>,
   <<"[", "R", "]">>, <<"t", "h", "e">>, <<"y", "o", "u">>, <<"<", "-", ">">>,
   <<".", ".", ".">>, <<"[", "+", "]">>, <<"[", "*", "]">>, <<"[", "x", "]">>,
   <<"[", "-", "]">>, <<"[", ".", "]">>, <<" ", " ">>, <<")", "(">>}
(* A few of the letters and signs that stand for themselves. *)
MCKnown == {"t", "h", "e", ")", "(", ".", " ", "0"}

(* Names that end within a macro, or in which leaving out what means       *)
(* nothing brings the parts of one together.                               *)
MCTexts ==
  {<<>>, <<"(">>, <<")", "(">>, <<"t", "h", "e">>, <<"t", "#", "h", "e">>, <<"#">>,
   <<")", "#", "(">>, <<")", ")", "(", ")", "(">>, <<"[", ".", "]">>,
   <<".", "[", ".", ".", ".", "]">>, <<".", ".", ".", ".">>,
   <<")", "t", "h", "#", "t", "h", "e">>, <<"#", "#", "#", "[", ".", "]">>,
   <<"#", "#", "#", ".", ".", ".", ".">>, <<")", ")", ")", ")", ")", ")">>}

(* Half a turn, and an angle that is no power of two. *)
MCTurn == {-32768, 20000}
(* Out of the reach of a snap, and across a course, in sixteenths. *)
MCLeap == {8 * 16, 32768 * 16}

Parts == {"usb", "gui", "scan", "words", "view", "location", "draw", "save", "heap"}

PartsInit ==
  /\ part \in Parts
  /\ UsbInit /\ GuiInit /\ WordInit /\ ViewInit /\ LocationInit /\ DrawInit /\ SaveInit
  /\ MemScanInit /\ ScanInit
  /\ part # "scan" => (\A l \in Line : line[l] = "other") /\ buf = "other"
                      /\ \A p \in DOMAIN map : map[p] = "none"
  /\ part # "heap" => \A c \in DOMAIN spill : ~spill[c]

PartsNext ==
  \/ /\ part = "usb" /\ UsbNext
     /\ UNCHANGED <<part, guiVars, memScanVars, wordVars, viewVars, locationVars,
                    drawVars, saveVars, scanVars>>
  \/ /\ part = "gui" /\ GuiNext
     /\ UNCHANGED <<part, usbVars, memScanVars, wordVars, viewVars, locationVars,
                    drawVars, saveVars, scanVars>>
  \/ /\ part = "scan" /\ MemScanNext
     /\ UNCHANGED <<part, usbVars, guiVars, wordVars, viewVars, locationVars,
                    drawVars, saveVars, scanVars>>
  \/ /\ part = "words" /\ WordNext
     /\ UNCHANGED <<part, usbVars, guiVars, memScanVars, viewVars, locationVars,
                    drawVars, saveVars, scanVars>>
  \/ /\ part = "view" /\ ViewNext
     /\ UNCHANGED <<part, usbVars, guiVars, memScanVars, wordVars, locationVars,
                    drawVars, saveVars, scanVars>>
  \/ /\ part = "location" /\ LocationNext
     /\ UNCHANGED <<part, usbVars, guiVars, memScanVars, wordVars, viewVars,
                    drawVars, saveVars, scanVars>>
  \/ /\ part = "draw" /\ DrawNext
     /\ UNCHANGED <<part, usbVars, guiVars, memScanVars, wordVars, viewVars,
                    locationVars, saveVars, scanVars>>
  \/ /\ part = "save" /\ SaveNext
     /\ UNCHANGED <<part, usbVars, guiVars, memScanVars, wordVars, viewVars,
                    locationVars, drawVars, scanVars>>
  \/ /\ part = "heap" /\ ScanNext
     /\ UNCHANGED <<part, usbVars, guiVars, memScanVars, wordVars, viewVars,
                    locationVars, drawVars, saveVars>>

PartsSpec ==
  PartsInit /\ [][PartsNext]_<<part, usbVars, guiVars, memScanVars, wordVars, viewVars,
                              locationVars, drawVars, saveVars, scanVars>>
=============================================================================
