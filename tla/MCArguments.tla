---------------------------- MODULE MCArguments ----------------------------
(* Two lines one after the other: every line of up to four letters and     *)
(* spaces, ls with every path of up to three letters and slashes, ls with  *)
(* folders of 11 and of 139 letters, whose header byte is a slash, and a   *)
(* word of 116 letters, whose header has two bytes that are not 0.  The    *)
(* library functions are called with strings of up to three letters and    *)
(* 8-bit integers, of which tmp has place for 4 digits: like in the kernel *)
(* (32 bits and 16 digits) binary numbers do not all fit.                  *)
EXTENDS Arguments

Letter == 97
Letters(n) == [k \in 1 .. n |-> Letter]
Eleven == Letters(11)
LsOf(p) == ls \o <<Space>> \o p

ShortLines == SeqOf({Letter, Space}, 4)
ShortPaths == SeqOf({Letter, Slash}, 3)
LongPaths == {Eleven \o <<Letter>>, Eleven, Eleven \o <<Slash>>,
              Eleven \o <<Slash, Letter>>, <<Slash>> \o Eleven \o <<Slash, Letter, Slash>>,
              Letters(139)}

MCLines ==
  ShortLines
    \cup {LsOf(p) : p \in ShortPaths \cup LongPaths}
    \cup {LsOf(p) \o <<Space>> : p \in ShortPaths}
    \cup {ls, <<Space>> \o LsOf(<<Letter>>), LsOf(<<Letter, Space, Letter>>),
          LsOf(<<Space, Space, Letter>>), Letters(116) \o <<Space, Letter>>}
MCGarbage == {<< >>, <<Letter>>, <<Slash, Letter>>}

MCStrings == SeqOf({97, 98}, 3)
MCNumbers == {-128, -19, -1, 0, 9, 10, 16, 127}
=============================================================================
