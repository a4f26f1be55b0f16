------------------------------ MODULE MCMailbox ------------------------------
(* A small instance of Mailbox. *)
EXTENDS Mailbox

MCStages == {1, 2}
MCArg == 0 .. 2
=============================================================================
