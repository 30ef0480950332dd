----------------------------- MODULE MCDisplay -----------------------------
(* Two text rows of two pixel rows in a frame one pixel wide; glyphs that  *)
(* set the upper, or both, of their pixel rows; column 1 is off the frame. *)
(* Row 0 is the one text row in use, row 1 ends behind the frame, and      *)
(* row 2 lies behind the byte that nobody reads.                           *)
EXTENDS Display

Upper == {<<0, 0>>}
Full == {<<0, 0>>, <<0, 1>>}
TwoGlyphs == {Upper, Full}
=============================================================================
