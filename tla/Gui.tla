-------------------------------- MODULE Gui --------------------------------
(***************************************************************************)
(* The launcher (gui/src/main.c): a window with the player's name and      *)
(* colour, config.bin, which keeps them for the next start of the window,  *)
(* and config.nff, which the client writes into the game.  Both files are  *)
(* emptied before they are written, one after the other, and either may    *)
(* fail; the window may be killed at any step.  A name is text in the      *)
(* window and game characters in the files, some of which are spelled      *)
(* with two or three letters.                                              *)
(***************************************************************************)
EXTENDS Naturals, Sequences, SequencesExt

CONSTANTS
  Room,   \* game characters of a name, sizeof(config.name)-1
  Macro,  \* the entries of msg_char_table that are spelled with two or three
  Known,  \* characters that stand for themselves, the entries of one included
  Texts,  \* bound: what is typed as a name
  MaxEdit \* bound: how often

(* Macro m is written in s from place i on.                                *)
Stands(m, s, i) ==
  i + Len(m) <= Len(s) + 1 /\ \A k \in 1 .. Len(m) : s[i + k - 1] = m[k]

(* A macro overlaps no other; "..." and "  " overlap themselves.           *)
ASSUME GuiAssumption ==
  /\ Room \in Nat
  /\ Known \subseteq STRING /\ "0" \in Known
  /\ \A m \in Macro : m \in Seq(STRING) /\ Len(m) > 1
  /\ \A m, n \in Macro : \A o \in 0 .. Len(m) - 1 :
       (\A k \in 1 .. Len(n) : o + k <= Len(m) => m[o + k] = n[k])
         => m = n /\ (o > 0 => \A k \in 1 .. Len(m) : m[k] \in Known)
  /\ Texts \subseteq Seq(STRING)

VARIABLES
  win,     \* the window: closed, idle, or saving (config.bin, config.nff)
  text,    \* the name as the window shows it
  filled,  \* the other fields are good enough to launch
  name, colour, \* config
  bin, nff,     \* the files
  toNff,   \* wnd_save's parameter
  edits,   \* names typed so far
  stale    \* history: a save was cut short or has failed since config.nff

guiVars == <<win, text, filled, name, colour, bin, nff, toNff, edits, stale>>

(* The room for the text of a name, 128, is never used up.                 *)
MsgToAscii(m) == FlattenSeq(m)

RoundStepsOne(s, r, size) ==
  LET Fits(m) == Len(m) <= size /\ Stands(m, s, r.at)
      p == IF \E m \in Macro : Fits(m) THEN CHOOSE m \in Macro : Fits(m) ELSE <<s[r.at]>>
  IN IF r.at > Len(s) THEN r
     ELSE [at |-> r.at + 1,
           out |-> IF p \in Macro \/ s[r.at] \in Known THEN Append(r.out, p) ELSE r.out]

(* A round of ascii_to_msg, at place r.at, with room for size.  A macro is *)
(* taken while there is room for its spelling; a character that means      *)
(* nothing is skipped, and counts.                                         *)
Round(s, r, size) ==
  LET Fits(m) == Len(m) <= size /\ Stands(m, s, r.at)
  IN IF r.at > Len(s) THEN r
     ELSE IF \E m \in Macro : Fits(m)
     THEN LET m == CHOOSE m \in Macro : Fits(m)
          IN [at |-> r.at + Len(m), out |-> Append(r.out, m)]
     ELSE [at |-> r.at + 1,
           out |-> IF s[r.at] \in Known THEN Append(r.out, <<s[r.at]>>) ELSE r.out]

AsciiToMsg(s) ==
  LET loop[k \in 0 .. Room] ==
        IF k = 0 THEN [at |-> 1, out |-> <<>>] ELSE Round(s, loop[k - 1], Room - k + 1)
  IN loop[Room].out

NoFile == [is |-> "absent", name |-> <<>>, colour |-> 0]
Cut    == [is |-> "cut",    name |-> <<>>, colour |-> 0]
Config == [is |-> "whole",  name |-> name, colour |-> colour]

GuiInit ==
  /\ win = "closed" /\ text = <<>> /\ filled = FALSE
  /\ name = <<>> /\ colour = 0
  /\ bin = NoFile /\ nff = NoFile
  /\ toNff = FALSE /\ edits = 0 /\ stale = FALSE

(* wnd_save, as far as emptying config.bin.                                *)
WndSave(withNff) ==
  /\ name' = AsciiToMsg(text')
  /\ toNff' = withNff
  /\ \/ win' = "bin" /\ bin' = Cut /\ UNCHANGED stale
     \/ win' = "idle" /\ stale' = (stale \/ withNff) /\ UNCHANGED bin
  /\ UNCHANGED nff

(* cfg_load of a config.bin that is whole, or empty: all bytes 0, but for  *)
(* the end of the name.                                                    *)
CfgLoad ==
  /\ win = "closed" /\ bin.is # "absent"
  /\ win' = "idle"
  /\ name' = IF bin.is = "whole" THEN bin.name ELSE [i \in 1 .. Room |-> <<"0">>]
  /\ colour' = bin.colour
  /\ filled' \in IF bin.is = "whole" THEN {filled} ELSE {FALSE}
  /\ text' = MsgToAscii(name')
  /\ UNCHANGED <<bin, nff, toNff, edits, stale>>

CfgDefault ==
  /\ win = "closed" /\ bin.is = "absent"
  /\ text' = <<>> /\ colour' = 1 /\ filled' = FALSE
  /\ WndSave(TRUE)
  /\ UNCHANGED edits

EditName(t) ==
  /\ win = "idle" /\ t # text
  /\ edits < MaxEdit /\ edits' = edits + 1
  /\ text' = t
  /\ WndSave(TRUE)
  /\ UNCHANGED <<filled, colour>>

EditOther ==
  /\ win = "idle"
  /\ filled' = ~filled
  /\ UNCHANGED <<text, colour, edits>>
  /\ WndSave(FALSE)

WndColourNoNff(c) ==
  /\ win = "idle"
  /\ colour' = c
  /\ UNCHANGED <<text, filled, edits>>
  /\ WndSave(FALSE)

(* Saved when the choice was cancelled, too.                               *)
WndColour(c) ==
  /\ win = "idle"
  /\ colour' = c
  /\ UNCHANGED <<text, filled, edits>>
  /\ WndSave(TRUE)

BinWritten ==
  /\ win = "bin"
  /\ bin' = Config
  /\ \/ toNff /\ win' = "nff" /\ nff' = Cut /\ UNCHANGED stale
     \/ toNff /\ win' = "idle" /\ stale' = TRUE /\ UNCHANGED nff
     \/ ~toNff /\ win' = "idle" /\ UNCHANGED <<stale, nff>>
  /\ UNCHANGED <<text, filled, name, colour, toNff, edits>>

NffWritten ==
  /\ win = "nff"
  /\ win' = "idle"
  /\ nff' = Config
  /\ stale' = FALSE
  /\ UNCHANGED <<text, filled, name, colour, bin, toNff, edits>>

(* The window is closed, or killed.                                        *)
Close ==
  /\ win # "closed"
  /\ win' = "closed"
  /\ stale' = (stale \/ win \in {"bin", "nff"})
  /\ UNCHANGED <<text, filled, name, colour, bin, nff, toNff, edits>>

GuiNext ==
  \/ CfgLoad \/ CfgDefault
  \/ \E t \in Texts : EditName(t)
  \/ EditOther
  \/ \E c \in 0 .. 1 : WndColour(c)
  \/ BinWritten \/ NffWritten \/ Close

-----------------------------------------------------------------------------
Shown(s) == MsgToAscii(AsciiToMsg(s))

(* What the first n characters of s mean: those that stand for themselves  *)
(* or belong to a macro.                                                   *)
Means(s, n, i) ==
  \/ s[i] \in Known
  \/ \E m \in Macro, j \in 1 .. i :
       Stands(m, s, j) /\ i < j + Len(m) /\ j + Len(m) <= n + 1
Meaning(s, n) ==
  LET kept[i \in 0 .. n] ==
        IF i = 0 THEN <<>>
        ELSE IF Means(s, n, i) THEN Append(kept[i - 1], s[i]) ELSE kept[i - 1]
  IN kept[n]

(* The name the window shows fits into a record, keeps what was typed but  *)
(* for what means nothing and for an end that does not fit, and stays the  *)
(* same however often it is loaded and saved (main.c:205-258).             *)
NameKept ==
  LET msg == AsciiToMsg(text)
      shown == MsgToAscii(msg)
  IN /\ Len(msg) <= Room
     /\ \E n \in 0 .. Len(text) :
          (Len(text) <= Room => n = Len(text)) /\ shown = Meaning(text, n)
     /\ Shown(shown) = shown

CanLaunch == win = "idle" /\ filled /\ name # <<>>

(* Who launches plays under the name and in the colour the window shows,   *)
(* whatever was edited, saved and loaded before; only a save that failed   *)
(* or was cut short, with none that wrote config.nff after it, leaves      *)
(* another name in the game than in the window (main.c:272-360, 410-437).  *)
LaunchShown ==
  CanLaunch /\ ~stale =>
    /\ nff.is = "whole" /\ nff.name # <<>>
    /\ nff.colour = colour
    /\ MsgToAscii(nff.name) = Shown(text)
=============================================================================
