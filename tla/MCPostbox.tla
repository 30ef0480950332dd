------------------------------ MODULE MCPostbox ------------------------------
(* Enough messages to fill the queue and to go round once.                 *)
EXTENDS Postbox
=============================================================================
