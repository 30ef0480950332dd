----------------------------- MODULE Interrupts -----------------------------
(***************************************************************************)
(* Interrupt dispatch in muk, composed with time slicing: the descriptor   *)
(* table of kernel/idt.cpp, the stubs of kernel/asm/interrupts.s and       *)
(* isr_handler, between the two interrupt controllers and the handlers     *)
(* that Timer::initTimer and keyboard_install register.                    *)
(*                                                                         *)
(* The controllers (8259) are external: a line that a device raises stays  *)
(* pending until the CPU takes it; from then on it is in service, and      *)
(* keeps back the lines of its own and of lower priority, until an "end of *)
(* interrupt" clears the bit of highest priority that is in service.       *)
(* Lines 8 to 15 come through line 2 of the first controller.              *)
(*                                                                         *)
(* A handler runs with the interrupt flag clear, so one interrupt, from    *)
(* the stub to iret or to the switch of the stack, is one step.            *)
(***************************************************************************)
EXTENDS Scheduler

CONSTANT Devices   \* the lines, besides that of the timer, with a device

TimerLine == 0
Cascade   == 2

ASSUME DevicesAssumption == Devices \subseteq (1 .. 15) \ {Cascade}

Lines == {TimerLine} \cup Devices

VARIABLES
  pending,     \* the lines that wait for the CPU
  in_service   \* per controller: its lines that are not ended

pic     == <<pending, in_service>>
allVars == <<vars, pic>>

Pic == {1, 2}
First(S) == CHOOSE n \in S : \A m \in S : n <= m

\* The lines of an interrupt: on the first controller, and on the second.
LinesOf(n) == [p \in Pic |-> IF p = 1 THEN {IF n < 8 THEN n ELSE Cascade}
                                      ELSE {n} \cap (8 .. 15)]

\* No line of higher priority, or the line itself, is in service.
Unmasked(n) ==
  \A p \in Pic : \A m \in LinesOf(n)[p], k \in in_service[p] : m < k

\* Outranks(m, n): the controllers offer line m before line n.
Outranks(m, n) ==
  LET mine == First(LinesOf(m)[1])  other == First(LinesOf(n)[1])
  IN mine < other \/ (mine = other /\ m < n)

Offered(n) ==
  /\ n \in pending
  /\ Unmasked(n)
  /\ \A m \in pending \ {n} : Unmasked(m) => Outranks(n, m)

InterruptsInit ==
  /\ Init
  /\ pending = {}
  /\ in_service = [p \in Pic |-> {}]

Raise(n) ==
  /\ n \notin pending
  /\ pending' = pending \cup {n}
  /\ UNCHANGED <<vars, in_service>>

-----------------------------------------------------------------------------
(* The descriptor table and the stubs *)

NoGate == 0

\* idt_install maps line n to vector 32 + n and gives every vector the stub
\* of its own number, except that it enters isr42 for vector 43, and nothing
\* for vector 42.
IRQ0 == 32
Gate(vector) == CASE vector = 42 -> NoGate
                  [] vector = 43 -> 42
                  [] OTHER       -> vector

\* What an outportb(..., PIC_EOI) leaves in service.
Ended(S) == S \ {n \in S : n = First(S)}

\* isr_handler tells the controllers before it calls the handler.
EndOfInterrupt(isr_num, busy) ==
  IF isr_num < IRQ0 + 8 THEN [busy EXCEPT ![1] = Ended(@)]
                        ELSE [p \in Pic |-> Ended(busy[p])]

\* The handlers: timer_irq is registered by Timer::initTimer.  That of the
\* keyboard and a missing one leave the state of the scheduler alone.
Handle(isr_num) ==
  IF isr_num = IRQ0 + TimerLine /\ irq0 THEN TimerIrq ELSE UNCHANGED vars

\* An isr_handler that calls the handler first: the thread that set_context
\* starts does not come back to it.
IrqHandledFirst(n) ==
  /\ iflag /\ sp # Lost
  /\ Offered(n)
  /\ Gate(IRQ0 + n) # NoGate
  /\ Handle(Gate(IRQ0 + n))
  /\ pending' = pending \ {n}
  /\ LET busy == [p \in Pic |-> in_service[p] \cup LinesOf(n)[p]]
     IN in_service' = IF started' = started
                      THEN EndOfInterrupt(Gate(IRQ0 + n), busy) ELSE busy

\* An interrupt, from the stub to the end of the handler.
Irq(n) ==
  /\ iflag /\ sp # Lost
  /\ Offered(n)
  /\ Gate(IRQ0 + n) # NoGate
  /\ pending' = pending \ {n}
  /\ in_service' =
       EndOfInterrupt(Gate(IRQ0 + n),
                      [p \in Pic |-> in_service[p] \cup LinesOf(n)[p]])
  /\ Handle(Gate(IRQ0 + n))

\* Without a gate the CPU raises an exception instead.  Its number is below
\* IRQ0, so isr_handler tells nobody, has no handler for it and returns.
IrqWithoutGate(n) ==
  /\ iflag /\ sp # Lost
  /\ Offered(n)
  /\ Gate(IRQ0 + n) = NoGate
  /\ pending' = pending \ {n}
  /\ in_service' = [p \in Pic |-> in_service[p] \cup LinesOf(n)[p]]
  /\ UNCHANGED vars

\* A line that was withdrawn too late: the first controller reports its line
\* 7 without putting it in service, and isr_handler ends whatever is.
Spurious ==
  /\ iflag /\ sp # Lost
  /\ in_service' = EndOfInterrupt(IRQ0 + 7, in_service)
  /\ UNCHANGED <<vars, pending>>

\* The instructions of the contexts.
Code ==
  /\ \/ KernelMain \/ SurfaceUpdate \/ ParseLock \/ ParseUnlock \/ Vmalloc
     \/ FaultAgain
     \/ \E c \in Contexts : Sleep(c)
  /\ UNCHANGED pic

InterruptsNext ==
  \/ \E n \in Lines : Raise(n) \/ Irq(n) \/ IrqWithoutGate(n)
  \/ Spurious
  \/ Code

InterruptsSpec == InterruptsInit /\ [][InterruptsNext]_allVars

\* The CPU takes a line that is offered to it again and again, and the section
\* in which surface_update keeps interrupts off ends.
FairInterruptsSpec ==
  /\ InterruptsSpec
  /\ \A n \in Lines : SF_allVars(Irq(n) \/ IrqWithoutGate(n))
  /\ SF_allVars(SurfaceUpdate /\ UNCHANGED pic)

-----------------------------------------------------------------------------
(* Properties *)

\* Line 10 is left in service, and the lines behind it are kept back.
KeptBack(n) ==
  n > Cascade /\ (in_service[1] = {Cascade} \/ in_service[2] = {10})

\* What a device raises is taken, although handlers switch threads and do not
\* return in order: no line stays in service, but for the one without a gate;
\* and even then the timer and the keyboard, with lines before the cascade,
\* get through.  Only where the tty thread never switches interrupts on again
\* behind a vmalloc(0), none is.
LinesAnswered ==
  \/ <>[](sp = TtyThread /\ ~iflag)
  \/ \A n \in Lines :
       started /\ n \in pending ~>
          n \notin pending \/ KeptBack(n) \/ sp = Lost
=============================================================================
