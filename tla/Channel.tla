------------------------------- MODULE Channel -------------------------------
(***************************************************************************)
(* What the mailbox of a game promises: messages are delivered one at a    *)
(* time, whole, in the order they were put in, and each at least once; a   *)
(* deliverer who is stopped forgets whether the message was delivered, so  *)
(* the next one delivers it again.  A spoiled channel promises nothing.    *)
(***************************************************************************)
EXTENDS Sequences

CONSTANTS Message, Empty

VARIABLES
  box,        \* the message put in, or Empty
  done,       \* this deliverer has delivered it
  delivered,  \* everything delivered so far
  spoiled

vars == <<box, done, delivered, spoiled>>

Init ==
  /\ box = Empty
  /\ done = FALSE
  /\ delivered = <<>>
  /\ spoiled = FALSE

Put(m) ==
  /\ box = Empty
  /\ box' = m
  /\ UNCHANGED <<done, delivered, spoiled>>

Deliver ==
  /\ box # Empty
  /\ ~done
  /\ delivered' = Append(delivered, box)
  /\ done' = TRUE
  /\ UNCHANGED <<box, spoiled>>

Remove ==
  /\ done
  /\ box' = Empty
  /\ done' = FALSE
  /\ UNCHANGED <<delivered, spoiled>>

Forget ==
  /\ done' = FALSE
  /\ UNCHANGED <<box, delivered, spoiled>>

Next ==
  \/ \E m \in Message : Put(m)
  \/ Deliver \/ Remove \/ Forget
  \/ spoiled'

Spec == Init /\ [][Next]_vars
=============================================================================
