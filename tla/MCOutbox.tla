------------------------------ MODULE MCOutbox ------------------------------
(* A small instance of Outbox for TLC. *)
EXTENDS Outbox
CONSTANT j1

OneJob == {j1}
=============================================================================
