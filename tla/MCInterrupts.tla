---------------------------- MODULE MCInterrupts ----------------------------
(* Line 1 is that of the keyboard and line 14 that of the disk; line 10 is   *)
(* the one without a gate, which a network card may use.                    *)
EXTENDS Interrupts
=============================================================================
