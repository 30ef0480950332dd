----------------------------- MODULE MCKeyboard -----------------------------
(* A buffer of three slots, one plain key, '\n' and '\b', three key        *)
(* presses; a line can run past the end of the buffer.  What getc returns  *)
(* when it gives up can be 0xFF, and its store can hit a waiting key.      *)
EXTENDS Keyboard
=============================================================================
