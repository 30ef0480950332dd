------------------------------ MODULE MCPorts ------------------------------
(* The threads and ports of the kernel: the keyboard sends to 1,           *)
(* postbox_debug listens to 1 and sends to 2, tty_update listens to 2 and  *)
(* 3 and sends to 3; here it also listens to 1, so that two threads listen *)
(* to one port.  The vector grows from 0 to 1, 2 and 4 cells.              *)
EXTENDS Ports

CONSTANTS keyboard, debug, tty

MCUses == keyboard :> {1} @@ debug :> {1, 2} @@ tty :> {2, 3}
MCListens == debug :> <<1>> @@ tty :> <<2, 1, 3>>

\* Every property is about what happens until two listens race.
UntilRaced == ~raced
=============================================================================
