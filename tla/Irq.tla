-------------------------------- MODULE Irq --------------------------------
(***************************************************************************)
(* Interrupts: the pair of 8259 controllers (arch/x86/drivers/pic.c), the  *)
(* dispatcher and the registration of handlers (arch/x86/kernel/idt.c) and *)
(* the timer (arch/x86/kernel/timer.c).                                    *)
(*                                                                         *)
(* A controller is external: Raise and Deliver are its side.  It starts    *)
(* fully masked, as the firmware leaves it.  Gates are interrupt gates, so *)
(* a handler runs with IF clear; the CPU executes boot code, handler steps *)
(* and registrations one at a time, and lines may be raised in between.    *)
(***************************************************************************)
EXTENDS Integers, FiniteSets

CONSTANTS Lines,          \* interrupt lines with a device: 0 is the timer, 2 the cascade
          MaxMs           \* bound: counted milliseconds

ASSUME IrqAssumption == Lines \subseteq (0 .. 15 \ {2}) /\ 0 \in Lines /\ MaxMs \in Nat \ {0}

VARIABLES boot,           \* next step of _kentry: "init_idt", "init_pic", "init_timer", "done"
          reg,            \* register_irq_handler under way: [line, step], or None
          frame,          \* irq_global_handler under way: [line, step], or None
          ifl,            \* the interrupt flag
          handlers,       \* lines with a callback on their list
          imr, irr, isr,  \* mask, request and in-service bits of both controllers
          timer_ms        \* milliseconds counted

pic  == <<imr, irr, isr>>
vars == <<boot, reg, frame, ifl, handlers, pic, timer_ms>>

None     == [line |-> 16, step |-> "none"]
AllLines == 0 .. 15
Cascade  == 2
OnSlave(l) == l >= 8

Init ==
  /\ boot = "init_idt" /\ reg = None /\ frame = None
  /\ ifl \in BOOLEAN
  /\ handlers = {}
  /\ imr = AllLines /\ irr = {} /\ isr = {}
  /\ timer_ms = 0

-----------------------------------------------------------------------------
(* The controllers (external). *)

Raise(l) ==
  /\ boot \in {"init_timer", "done"}
  /\ l \notin irr
  /\ irr' = irr \cup {l}
  /\ UNCHANGED <<boot, reg, frame, ifl, handlers, imr, isr, timer_ms>>

\* Order of priority: the slave's lines come in at line 2.
Rank(l) == IF OnSlave(l) THEN 20 + (l - 7) ELSE 10 * l

\* Nothing of its rank or above is in service.
Open(l) ==
  /\ l \notin imr
  /\ OnSlave(l) => Cascade \notin imr
  /\ \A k \in isr : Rank(k) > Rank(l)

Deliver(l) ==
  /\ ifl /\ boot # "init_idt"
  /\ l \in irr /\ Open(l)
  /\ \A k \in irr : Open(k) => Rank(l) <= Rank(k)
  /\ irr' = irr \ {l}
  /\ isr' = isr \cup {l} \cup (IF OnSlave(l) THEN {Cascade} ELSE {})
  /\ ifl' = FALSE
  /\ frame' = [line |-> l, step |-> "mask"]
  /\ UNCHANGED <<boot, reg, handlers, imr, timer_ms>>

\* A request that has gone by the time it is acknowledged arrives as line 7,
\* with nothing in service.
Spurious ==
  /\ ifl /\ boot \in {"init_timer", "done"}
  /\ 7 \notin imr /\ 7 \in Lines
  /\ ifl' = FALSE
  /\ frame' = [line |-> 7, step |-> "mask"]
  /\ UNCHANGED <<boot, reg, handlers, pic, timer_ms>>

-----------------------------------------------------------------------------
(* pic.c *)

\* (mutant) The master is not told about the slave's lines.
AcknowledgedOnOne(l) == isr \ {l}

\* pic_send_eoi: specific, on the slave and then the cascade line for 8 and up.
Acknowledged(l) == isr \ ({l} \cup (IF OnSlave(l) THEN {Cascade} ELSE {}))

InitPic ==
  /\ boot = "init_pic" /\ frame = None
  /\ imr' = {} /\ irr' = {} /\ isr' = {}
  /\ boot' = "init_timer"
  /\ UNCHANGED <<reg, frame, ifl, handlers, timer_ms>>

-----------------------------------------------------------------------------
(* idt.c: irq_global_handler, on the frame *)

MaskLine ==
  /\ frame.step = "mask"
  /\ imr' = imr \cup {frame.line}
  /\ frame' = [frame EXCEPT !.step = "eoi"]
  /\ UNCHANGED <<boot, reg, ifl, handlers, irr, isr, timer_ms>>

SendEoi ==
  /\ frame.step = "eoi"
  /\ isr' = Acknowledged(frame.line)
  /\ frame' = [frame EXCEPT !.step = "callbacks"]
  /\ UNCHANGED <<boot, reg, ifl, handlers, imr, irr, timer_ms>>

\* timer_handler counts and acknowledges line 0 once more.
Callbacks ==
  /\ frame.step = "callbacks"
  /\ IF frame.line = 0 /\ 0 \in handlers
       THEN /\ timer_ms' = IF timer_ms < MaxMs THEN timer_ms + 1 ELSE timer_ms
            /\ isr' = Acknowledged(0)
       ELSE UNCHANGED <<timer_ms, isr>>
  /\ frame' = [frame EXCEPT !.step = "unmask"]
  /\ UNCHANGED <<boot, reg, ifl, handlers, imr, irr>>

\* (mutant) Only the master's lines are opened again.
ReopensOnMaster(l) == l \in 1 .. 7

Reopens(l) == l > 0

\* if (pic_irq > 0) pic_enable_irq(pic_irq), and iretq restores IF.
Unmask ==
  /\ frame.step = "unmask"
  /\ imr' = IF Reopens(frame.line) THEN imr \ {frame.line} ELSE imr
  /\ ifl' = TRUE
  /\ frame' = None
  /\ UNCHANGED <<boot, reg, handlers, irr, isr, timer_ms>>

-----------------------------------------------------------------------------
(* idt.c: init_idt and register_irq_handler; the kernel's own code runs    *)
(* only while no handler does.                                             *)

\* The handlers of the exceptions are registered before idt_load: cli and
\* sti around each.
InitIdt ==
  /\ boot = "init_idt"
  /\ ifl' = TRUE
  /\ boot' = "init_pic"
  /\ UNCHANGED <<reg, frame, handlers, pic, timer_ms>>

\* (mutant) Interrupts stay on.
CliMissing(l) ==
  /\ frame = None /\ reg = None
  /\ (boot = "done" /\ l \notin handlers) \/ (boot = "init_timer" /\ l = 0)
  /\ reg' = [line |-> l, step |-> "add"]
  /\ UNCHANGED <<boot, frame, ifl, handlers, pic, timer_ms>>

Cli(l) ==
  /\ frame = None /\ reg = None
  /\ \/ boot = "init_timer" /\ l = 0
     \/ boot = "done" /\ l \notin handlers
  /\ ifl' = FALSE
  /\ reg' = [line |-> l, step |-> "add"]
  /\ UNCHANGED <<boot, frame, handlers, pic, timer_ms>>

AddAndEnable ==
  /\ reg.step = "add" /\ frame = None
  /\ handlers' = handlers \cup {reg.line}
  /\ imr' = imr \ {reg.line}
  /\ reg' = [reg EXCEPT !.step = "sti"]
  /\ UNCHANGED <<boot, frame, ifl, irr, isr, timer_ms>>

Sti ==
  /\ reg.step = "sti" /\ frame = None
  /\ ifl' = TRUE
  /\ reg' = None
  /\ boot' = "done"
  /\ UNCHANGED <<frame, handlers, pic, timer_ms>>

Cpu == MaskLine \/ SendEoi \/ Callbacks \/ Unmask \/ InitIdt \/ InitPic \/ AddAndEnable \/ Sti

Next ==
  \/ Cpu
  \/ Spurious
  \/ \E l \in Lines : Raise(l) \/ Deliver(l) \/ Cli(l)

\* The CPU executes, takes interrupts that are open, init_timer is called and
\* the timer chip keeps raising its line.
Spec ==
  /\ Init /\ [][Next]_vars
  /\ WF_vars(Cpu) /\ SF_vars(Cli(0)) /\ SF_vars(AddAndEnable) /\ SF_vars(Sti)
  /\ \A l \in Lines : SF_vars(Deliver(l))
  /\ WF_vars(Raise(0))

-----------------------------------------------------------------------------
(* Correctness *)

\* Every interrupt is acknowledged by the time its handler returns, on both
\* controllers: nothing stays in service to block the lines below it.
AllAcknowledged == frame = None => isr = {}

\* No handler leaves a line shut: once the controllers are set up only the
\* timer's may be masked while no handler runs.
LinesReopen == (frame = None /\ boot \in {"init_timer", "done"}) => imr \subseteq {0}

\* Registration is atomic to the interrupts, and it does not lose or shut
\* lines that a handler is dealing with.
RegistrationUndisturbed == [][reg.step = "add" => frame' = None]_vars

Above(l) == {k \in Lines \ {0} : Rank(k) < Rank(l)}

\* A raised line is delivered in the end, unless lines of higher priority
\* keep the CPU busy for ever.
LinesAreServed ==
  \A l \in Lines \ {0} :
    []<>(l \notin irr) \/ []<>(frame.line \in Above(l))

\* timer.c:20, "1kHz timer": the count of milliseconds goes on.
ClockRuns == timer_ms = 0 ~> timer_ms = MaxMs
=============================================================================
