------------------------------ MODULE Postbox ------------------------------
(***************************************************************************)
(* One port of the postbox, kernel/proc/message.cpp, between two threads:  *)
(* the keyboard thread sends to port 1 and postbox_debug pops from it and  *)
(* forwards to port 2.  Neither push nor pop takes a lock, so the timer    *)
(* may switch threads between their loads and stores.                      *)
(*                                                                         *)
(* list_size is read by the test and again, or not, by the increment: both *)
(* are what the compiler may make of list_size++ and list_size--, which    *)
(* race.  wrap() subtracts floor(index / kMaxMessages) from the index, not *)
(* that many times kMaxMessages, and can return an index behind the array. *)
(***************************************************************************)
EXTENDS Integers, Sequences, SequencesExt

CONSTANTS kMaxMessages,  \* 32 in the code
          Msg,           \* messages with a data byte that is not 0
          ZeroMsg,       \* a message whose data byte is 0
          NoMsg,         \* kMessageNull, the content of a fresh Message
          MaxSends       \* how many messages are sent in the model

ASSUME PostboxAssumption ==
  /\ kMaxMessages \in Nat /\ kMaxMessages >= 2
  /\ ZeroMsg \notin Msg /\ NoMsg \notin Msg /\ ZeroMsg # NoMsg
  /\ MaxSends \in Nat

VARIABLES listening,     \* the port exists
          list, head_index, list_size,
          sender,        \* where SendMessage is: "idle", "store", "count"
          sending,       \* its message
          sendSize,      \* the list_size it has tested
          receiver,      \* postbox_debug: "start", "idle", "take", "count",
                         \* "forward"
          msg,           \* its message
          popSize,       \* the list_size it has tested
          sends,         \* number of calls of SendMessage
          accepted,      \* history: the messages that were stored
          due,           \* history: those of them that are not null
          forwarded,     \* history: the messages that were sent to port 2
          collided,      \* history: a push and a pop overlapped
          burst          \* history: the most messages that waited at once

senderVars == <<sender, sending, sendSize>>
receiverVars == <<receiver, msg, popSize>>
postboxVars == <<listening, list, head_index, list_size, senderVars, receiverVars,
                 sends, accepted, due, forwarded, collided, burst>>

Message == Msg \cup {ZeroMsg}

\* Every index that wrap() can return is a cell; those of Array are
\* list[0] to list[kMaxMessages - 1], the others lie behind the array.
Cells == 0 .. 2 * kMaxMessages - 2
Array == 0 .. kMaxMessages - 1

\* wrap(): index - floor(index / kMaxMessages)
wrap(index) == index - index \div kMaxMessages

PostboxInit ==
  /\ listening = FALSE
  /\ list = [n \in Cells |-> NoMsg]
  /\ head_index = 0
  /\ list_size = 0
  /\ sender = "idle" /\ sending = NoMsg /\ sendSize = 0
  /\ receiver = "start" /\ msg = NoMsg /\ popSize = 0
  /\ sends = 0
  /\ accepted = << >>
  /\ due = << >>
  /\ forwarded = << >>
  /\ collided = FALSE
  /\ burst = 0

\* !(m != kMessageNull): operator!= wants source and data to differ, so every
\* message whose data byte is 0 is taken for the null message.
IsNull(m) == m \in {ZeroMsg, NoMsg}

Popping == receiver \in {"take", "count"}
Pushing == sender # "idle"

\* Process::listen(1)
Listen ==
  /\ receiver = "start"
  /\ listening' = TRUE
  /\ receiver' = "idle"
  /\ UNCHANGED <<list, head_index, list_size, senderVars, msg, popSize, sends,
                 accepted, due, forwarded, collided, burst>>

HasRoom == list_size < kMaxMessages

\* SendMessage(1, c) to a port that nobody listens to or that is full: it
\* returns true all the same.
SendIsLost ==
  /\ sends < MaxSends
  /\ sender = "idle"
  /\ ~listening \/ ~HasRoom
  /\ sends' = sends + 1
  /\ UNCHANGED <<listening, list, head_index, list_size, senderVars,
                 receiverVars, accepted, due, forwarded, collided, burst>>

\* SendMessage(1, c), up to the test of MessageList::push ...
SendTest(m) ==
  /\ sends < MaxSends
  /\ sender = "idle"
  /\ listening /\ HasRoom
  /\ sending' = m
  /\ sendSize' = list_size
  /\ sender' = "store"
  /\ sends' = sends + 1
  /\ collided' = (collided \/ Popping)
  /\ UNCHANGED <<listening, list, head_index, list_size, receiverVars, accepted,
                 due, forwarded, burst>>

\* ... list[wrap(head_index + list_size)] = msg ...
SendStore ==
  /\ sender = "store"
  /\ \E n \in {sendSize, list_size} :
        list' = [list EXCEPT ![wrap(head_index + n)] = sending]
  /\ accepted' = Append(accepted, sending)
  /\ due' = IF IsNull(sending) THEN due ELSE Append(due, sending)
  /\ burst' = IF list_size + 1 > burst THEN list_size + 1 ELSE burst
  /\ sender' = "count"
  /\ UNCHANGED <<listening, head_index, list_size, sending, sendSize,
                 receiverVars, sends, forwarded, collided>>

\* ... and list_size++.
SendCount ==
  /\ sender = "count"
  /\ \E n \in {sendSize, list_size} : list_size' = n + 1
  /\ sender' = "idle"
  /\ UNCHANGED <<listening, list, head_index, sending, sendSize, receiverVars,
                 sends, accepted, due, forwarded, collided, burst>>

\* MessageQueue::pop(1) of an empty port: kMessageNull.
PopNothing ==
  /\ receiver = "idle"
  /\ list_size = 0
  /\ UNCHANGED postboxVars

\* MessageQueue::pop(1), up to its test ...
PopTest ==
  /\ receiver = "idle"
  /\ list_size > 0
  /\ popSize' = list_size
  /\ receiver' = "take"
  /\ collided' = (collided \/ Pushing)
  /\ UNCHANGED <<listening, list, head_index, list_size, senderVars, msg, sends,
                 accepted, due, forwarded, burst>>

\* A pop that moves the head before it reads.
TakeNext ==
  /\ receiver = "take"
  /\ head_index' = wrap(head_index + 1)
  /\ msg' = list[head_index']
  /\ receiver' = "count"
  /\ UNCHANGED <<listening, list, list_size, senderVars, popSize, sends,
                 accepted, due, forwarded, collided, burst>>

\* ... pop = list[head_index]; head_index = wrap(head_index + 1) ...
Take ==
  /\ receiver = "take"
  /\ msg' = list[head_index]
  /\ head_index' = wrap(head_index + 1)
  /\ receiver' = "count"
  /\ UNCHANGED <<listening, list, list_size, senderVars, popSize, sends,
                 accepted, due, forwarded, collided, burst>>

\* ... and list_size--.
PopCount ==
  /\ receiver = "count"
  /\ \E n \in {popSize, list_size} : list_size' = n - 1
  /\ receiver' = "forward"
  /\ UNCHANGED <<listening, list, head_index, senderVars, msg, popSize, sends,
                 accepted, due, forwarded, collided, burst>>

\* SendMessage(2, msg.data), unless the message is null.
Forward ==
  /\ receiver = "forward"
  /\ forwarded' = IF IsNull(msg) THEN forwarded ELSE Append(forwarded, msg)
  /\ receiver' = "idle"
  /\ UNCHANGED <<listening, list, head_index, list_size, senderVars, msg,
                 popSize, sends, accepted, due, collided, burst>>

PostboxNext ==
  \/ SendIsLost \/ \E m \in Message : SendTest(m)
  \/ SendStore \/ SendCount
  \/ Listen \/ PopNothing \/ PopTest \/ Take \/ PopCount \/ Forward

PostboxSpec == PostboxInit /\ [][PostboxNext]_postboxVars

-----------------------------------------------------------------------------
(* Properties *)

QueueType ==
  /\ listening \in BOOLEAN
  /\ list \in [Cells -> Message \cup {NoMsg}]
  /\ head_index \in Array
  /\ list_size \in 0 .. kMaxMessages
  /\ sender \in {"idle", "store", "count"}
  /\ sending \in Message \cup {NoMsg}
  /\ sendSize \in 0 .. kMaxMessages
  /\ receiver \in {"start", "idle", "take", "count", "forward"}
  /\ msg \in Message \cup {NoMsg}
  /\ popSize \in 0 .. kMaxMessages
  /\ sends \in 0 .. MaxSends
  /\ accepted \in Seq(Message)
  /\ due \in Seq(Msg) /\ forwarded \in Seq(Msg)
  /\ collided \in BOOLEAN
  /\ burst \in 0 .. kMaxMessages

InOrder == IsPrefix(forwarded, due)
FirstRound == Len(accepted) <= kMaxMessages

\* Whatever overlaps, postbox_debug forwards nothing that was not sent: the
\* counter may make it read a cell again or read an empty one, but an empty
\* one is null.  As long as no push overlaps a pop, it forwards what was
\* accepted, in order, without the messages it takes for null: the first
\* kMaxMessages messages however sends and pops alternate, and every message,
\* for ever, if no two wait at once (the stuck head is then written and read in
\* turn).  Nor does push store behind the array, in the first round or as long
\* as no three messages wait at once.
ForwardsWhatWasSent ==
  /\ QueueType
  /\ ToSet(forwarded) \subseteq ToSet(accepted)
  /\ ~collided /\ (FirstRound \/ burst <= 1) => InOrder
  /\ ~collided /\ (FirstRound \/ burst <= 2)
       => \A n \in Cells \ Array : list[n] = NoMsg
=============================================================================
