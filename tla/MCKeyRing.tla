----------------------------- MODULE MCKeyRing -----------------------------
(* A ring of four slots and three keys: it wraps, fills up and empties.    *)
EXTENDS KeyRing
=============================================================================
