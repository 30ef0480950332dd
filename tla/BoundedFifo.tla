---------------------------- MODULE BoundedFifo ----------------------------
(***************************************************************************)
(* What a bounded buffer between one writer and one reader promises: a     *)
(* write is accepted unless Capacity values are waiting, and the reader    *)
(* gets the accepted values in the order in which they were accepted, each *)
(* exactly once.                                                           *)
(***************************************************************************)
EXTENDS Naturals, Sequences

CONSTANTS Value,      \* what can be written
          NoValue,    \* what "out" is before the first read
          Capacity    \* how many values can wait

VARIABLES queue,      \* accepted and not yet read, oldest first
          out,        \* the value that the last read returned
          accepted    \* whether the last write was accepted

Init == queue = << >> /\ out = NoValue /\ accepted = TRUE

Accept(v) ==
  /\ Len(queue) < Capacity
  /\ queue' = Append(queue, v)
  /\ accepted' = TRUE
  /\ UNCHANGED out

Reject ==
  /\ Len(queue) = Capacity
  /\ accepted' = FALSE
  /\ UNCHANGED <<queue, out>>

Take ==
  /\ queue # << >>
  /\ out' = Head(queue)
  /\ queue' = Tail(queue)
  /\ UNCHANGED accepted

Next == (\E v \in Value : Accept(v)) \/ Reject \/ Take

Spec == Init /\ [][Next]_<<queue, out, accepted>>
=============================================================================
