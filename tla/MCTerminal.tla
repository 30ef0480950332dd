----------------------------- MODULE MCTerminal -----------------------------
(* A screen of three rows of four columns, tabs that do not divide a row,  *)
(* ports of three messages, a buffer of four characters; the command "l".  *)
EXTENDS Terminal

OneCommand == {<<Letter>>}
ThreeOutputs == {<<Letter, NewLine>>, <<Tab, Letter>>, <<Return>>}
Suffix == <<Letter, NewLine>>
TwoStrings == <<Check, Letter, Check, Letter>>
=============================================================================
