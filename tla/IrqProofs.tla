----------------------------- MODULE IrqProofs -----------------------------
(***************************************************************************)
(* What interrupts must not disturb.  First what Irq keeps whatever lines  *)
(* have devices: every interrupt is acknowledged, no line but the timer's  *)
(* stays shut, and no handler runs inside a registration.  Then what Tty   *)
(* keeps for every size of screen and glyph and for every text, while      *)
(* handlers print between any two steps of write_char: the screen shows    *)
(* the last rows of what was printed.  Last what Format keeps: a number    *)
(* printed in any format is the number that was passed.                    *)
(***************************************************************************)
EXTENDS Irq, Tty, SequenceTheorems, WellFoundedInduction, TLAPS

-----------------------------------------------------------------------------
(* The interrupt controllers.                                                *)

Steps == {"mask", "eoi", "callbacks", "unmask"}

TypeInv ==
  /\ boot \in {"init_idt", "init_pic", "init_timer", "done"}
  /\ reg = None \/ reg \in [line : Lines, step : {"add", "sti"}]
  /\ frame = None \/ frame \in [line : Lines, step : Steps]
  /\ ifl \in BOOLEAN

\* One thing at a time: a handler or a registration runs with IF clear, and
\* neither before the controllers are set up, when all lines are shut.
OneAtATime ==
  /\ frame # None => reg = None /\ ~ ifl /\ boot \in {"init_timer", "done"}
  /\ reg # None => ~ ifl /\ boot \in {"init_timer", "done"}
  /\ boot \in {"init_idt", "init_pic"} => imr = AllLines

\* What is in service, and what is shut, belongs to the handler under way.
Served(f) == IF f.step \in {"mask", "eoi"} THEN {f.line} \cup (IF OnSlave(f.line) THEN {Cascade} ELSE {})
                                           ELSE {}
OwnBits ==
  /\ isr \subseteq Served(frame)
  /\ boot \in {"init_timer", "done"} => imr \subseteq {0, frame.line}
  /\ LinesReopen

IInv == TypeInv /\ OneAtATime /\ OwnBits

-----------------------------------------------------------------------------
(* The facts about None that the steps use: a step that needs a handler or a *)
(* registration has one.                                                     *)

LEMMA NoneFacts ==
  /\ None.step = "none" /\ None.line = 16 /\ None.step \notin Steps \cup {"add", "sti"}
  /\ \A l \in Lines : l # 16 /\ l # Cascade /\ l \in AllLines
BY IrqAssumption DEF None, Steps, Cascade, AllLines

LEMMA InitInvariant == Init => IInv
BY DEF Init, IInv, TypeInv, OneAtATime, OwnBits, LinesReopen, Served, None

\* Taking an interrupt: nothing was under way, and nothing in service.
LEMMA TakePreserves ==
  ASSUME IInv, NEW l \in Lines, ifl, boot \in {"init_timer", "done"},
         ifl' = FALSE, frame' = [line |-> l, step |-> "mask"],
         isr' = isr \/ isr' = isr \cup {l} \cup (IF OnSlave(l) THEN {Cascade} ELSE {}),
         UNCHANGED <<boot, reg, imr>>
  PROVE  IInv'
<1>1. frame = None /\ reg = None
  BY DEF IInv, TypeInv, OneAtATime
<1>2. isr = {} /\ imr \subseteq {0}
  BY <1>1, NoneFacts DEF IInv, OwnBits, Served, LinesReopen
<1>3. frame' # None /\ frame'.line = l /\ frame'.step = "mask" /\ frame' \in [line : Lines, step : Steps]
  BY NoneFacts DEF Steps
<1>4. TypeInv'
  BY <1>1, <1>3 DEF IInv, TypeInv
<1>5. OneAtATime'
  BY <1>1, <1>3 DEF IInv, OneAtATime
<1>6. OwnBits'
  BY <1>2, <1>3 DEF OwnBits, Served, LinesReopen
<1> QED
  BY <1>4, <1>5, <1>6 DEF IInv

\* A step of the handler but its last.
LEMMA HandlerPreserves ==
  ASSUME IInv, frame # None, NEW s \in Steps, frame' = [frame EXCEPT !.step = s],
         isr' \subseteq Served(frame'), imr' \subseteq imr \cup {frame.line},
         UNCHANGED <<boot, reg, ifl>>
  PROVE  IInv'
<1>1. frame \in [line : Lines, step : Steps]
  BY DEF IInv, TypeInv
<1>2. frame' \in [line : Lines, step : Steps] /\ frame'.line = frame.line /\ frame' # None
  BY <1>1, NoneFacts
<1>3. TypeInv'
  BY <1>2 DEF IInv, TypeInv
<1>4. OneAtATime'
  BY <1>2 DEF IInv, OneAtATime
<1>5. OwnBits'
  BY <1>2 DEF IInv, OwnBits, OneAtATime, LinesReopen
<1> QED
  BY <1>3, <1>4, <1>5 DEF IInv

LEMMA NextInvariant == IInv /\ [Next]_vars => IInv'
<1> SUFFICES ASSUME IInv, [Next]_vars PROVE IInv'
  OBVIOUS
<1> USE NoneFacts
<1>1. ASSUME NEW l \in Lines, Raise(l) PROVE IInv'
  BY <1>1 DEF Raise, IInv, TypeInv, OneAtATime, OwnBits, LinesReopen, Served
<1>2. ASSUME NEW l \in Lines, Deliver(l) PROVE IInv'
  <2>1. boot \in {"init_timer", "done"}
    BY <1>2 DEF Deliver, Open, IInv, TypeInv, OneAtATime
  <2> QED
    BY <1>2, <2>1, TakePreserves DEF Deliver
<1>3. ASSUME Spurious PROVE IInv'
  BY <1>3, TakePreserves DEF Spurious, pic
<1>4. ASSUME NEW l \in Lines, Cli(l) PROVE IInv'
  <2>1. reg' \in [line : Lines, step : {"add", "sti"}] /\ frame' = None
    BY <1>4 DEF Cli
  <2>2. TypeInv'
    BY <1>4, <2>1 DEF Cli, IInv, TypeInv
  <2>3. OneAtATime'
    BY <1>4 DEF Cli, pic, IInv, OneAtATime
  <2> QED
    BY <1>4, <2>2, <2>3 DEF Cli, pic, IInv, OwnBits, LinesReopen, Served
<1>5. ASSUME MaskLine PROVE IInv'
  <2>1. frame \in [line : Lines, step : Steps] /\ frame # None
    BY <1>5 DEF MaskLine, IInv, TypeInv
  <2>2. Served(frame') = Served(frame)
    BY <1>5, <2>1 DEF MaskLine, Served, Steps
  <2> QED
    BY <1>5, <2>1, <2>2, HandlerPreserves DEF MaskLine, Steps, IInv, OwnBits
<1>6. ASSUME SendEoi PROVE IInv'
  <2>1. frame \in [line : Lines, step : Steps] /\ frame # None
    BY <1>6 DEF SendEoi, IInv, TypeInv
  <2>2. isr' = {}
    BY <1>6 DEF SendEoi, Acknowledged, Served, IInv, OwnBits
  <2> QED
    BY <1>6, <2>1, <2>2, HandlerPreserves DEF SendEoi, Steps
<1>7. ASSUME Callbacks PROVE IInv'
  <2>1. frame \in [line : Lines, step : Steps] /\ frame # None
    BY <1>7 DEF Callbacks, IInv, TypeInv
  <2>2. isr' = {}
    BY <1>7 DEF Callbacks, Acknowledged, Served, IInv, OwnBits
  <2> QED
    BY <1>7, <2>1, <2>2, HandlerPreserves DEF Callbacks, Steps
<1>8. ASSUME Unmask PROVE IInv'
  <2>1. frame \in [line : Lines, step : Steps] /\ frame # None
    BY <1>8 DEF Unmask, IInv, TypeInv
  <2>2. isr' = {} /\ imr' \subseteq {0} /\ boot' \in {"init_timer", "done"} /\ reg' = None
    BY <1>8, <2>1 DEF Unmask, Reopens, Served, IInv, OwnBits, OneAtATime, AllLines
  <2> QED
    BY <1>8, <2>2 DEF Unmask, IInv, TypeInv, OneAtATime, OwnBits, LinesReopen
<1>9. ASSUME InitIdt PROVE IInv'
  BY <1>9 DEF InitIdt, pic, IInv, TypeInv, OneAtATime, OwnBits, LinesReopen, Served
<1>10. ASSUME InitPic PROVE IInv'
  BY <1>10 DEF InitPic, IInv, TypeInv, OneAtATime, OwnBits, LinesReopen, Served
<1>11. ASSUME AddAndEnable PROVE IInv'
  <2>1. reg \in [line : Lines, step : {"add", "sti"}] /\ reg # None
    BY <1>11 DEF AddAndEnable, IInv, TypeInv
  <2>2. reg' \in [line : Lines, step : {"add", "sti"}] /\ reg' # None
    BY <1>11, <2>1 DEF AddAndEnable
  <2> QED
    BY <1>11, <2>1, <2>2 DEF AddAndEnable, IInv, TypeInv, OneAtATime, OwnBits, LinesReopen, Served
<1>12. ASSUME Sti PROVE IInv'
  <2>1. reg # None
    BY <1>12 DEF Sti
  <2> QED
    BY <1>12, <2>1 DEF Sti, pic, IInv, TypeInv, OneAtATime, OwnBits, LinesReopen, Served
<1>13. ASSUME UNCHANGED vars PROVE IInv'
  BY <1>13 DEF vars, pic, IInv, TypeInv, OneAtATime, OwnBits, LinesReopen, Served
<1> QED
  BY <1>1, <1>2, <1>3, <1>4, <1>5, <1>6, <1>7, <1>8, <1>9, <1>10, <1>11, <1>12, <1>13 DEF Next, Cpu

-----------------------------------------------------------------------------
(* The theorems *)

\* Interrupts of irq_global_handler and register_irq_handler: in every state
\* the bits of the controllers belong to what is under way.
THEOREM IrqInvariant == Spec => []IInv
BY InitInvariant, NextInvariant, PTL DEF Spec

\* irq_global_handler: nothing stays in service once a handler has returned.
THEOREM IrqAcknowledges == Spec => []AllAcknowledged
<1>1. IInv => AllAcknowledged
  BY NoneFacts DEF IInv, OwnBits, Served, AllAcknowledged
<1> QED
  BY <1>1, IrqInvariant, PTL

\* irq_global_handler: no line but the timer's stays shut.
THEOREM IrqReopensLines == Spec => []LinesReopen
<1>1. IInv => LinesReopen
  BY DEF IInv, OwnBits
<1> QED
  BY <1>1, IrqInvariant, PTL

\* register_irq_handler: no handler runs while the list and the mask change.
THEOREM IrqRegistersUndisturbed == Spec => RegistrationUndisturbed
<1>1. IInv /\ [Next]_vars => [reg.step = "add" => frame' = None]_vars
  <2> SUFFICES ASSUME IInv, Next, reg.step = "add" PROVE frame' = None
    BY DEF vars
  <2>1. reg # None /\ frame = None /\ ~ ifl
    BY NoneFacts DEF IInv, TypeInv, OneAtATime
  <2>2. frame.step \notin Steps
    BY <2>1, NoneFacts
  <2> QED
    BY <2>1, <2>2 DEF Next, Cpu, Raise, Deliver, Spurious, Cli, MaskLine, SendEoi, Callbacks, Unmask,
       InitIdt, InitPic, AddAndEnable, Sti, Steps
<1> QED
  BY <1>1, IrqInvariant, PTL DEF Spec, RegistrationUndisturbed

-----------------------------------------------------------------------------
(* The console.  Folds first: a fold over a text is a recursive function    *)
(* over the sets of its positions; the operator folded is given as a         *)
(* function F on the values.                                                 *)

\* Induction, for a set in the place of a predicate.
LEMMA SetInduction ==
  ASSUME NEW T, 0 \in T, \A n \in Nat : n \in T => n + 1 \in T
  PROVE  Nat \subseteq T
<1> DEFINE U == Nat \ T
           R == OpToRel(<, Nat)
<1> SUFFICES ASSUME U # {} PROVE FALSE
  OBVIOUS
<1>1. IsWellFoundedOn(R, Nat)
  BY NatLessThanWellFounded
<1>2. \A x, y \in Nat : <<x, y>> \in R <=> x < y
  BY DEF OpToRel
<1> HIDE DEF R
<1>3. PICK x \in U : \A y \in U : ~ (<<y, x>> \in R)
  <2>1. U \subseteq Nat
    OBVIOUS
  <2> HIDE DEF U
  <2> QED
    BY <1>1, <2>1, WFMin
<1>4. x # 0 /\ x - 1 \in Nat /\ <<x - 1, x>> \in R
  BY <1>2
<1>5. x - 1 \in T
  BY <1>3, <1>4
<1> QED
  BY <1>3, <1>4, <1>5

LEMMA MaxOf ==
  ASSUME NEW n \in Nat, NEW s \in SUBSET (1 .. n), s # {}
  PROVE  Max(s) \in s /\ \A y \in s : y <= Max(s)
<1> DEFINE T == {k \in Nat : \A u \in SUBSET (1 .. k) : u # {} => \E x \in u : \A y \in u : x >= y}
<1>1. 0 \in T
  <2>1. SUBSET (1 .. 0) = {{}}
    OBVIOUS
  <2> QED
    BY <2>1
<1>2. ASSUME NEW k \in Nat, k \in T PROVE k + 1 \in T
  <2> SUFFICES ASSUME NEW u \in SUBSET (1 .. k + 1), u # {} PROVE \E x \in u : \A y \in u : x >= y
    OBVIOUS
  <2>1. CASE k + 1 \in u
    BY <2>1
  <2>2. CASE k + 1 \notin u
    <3>1. u \in SUBSET (1 .. k)
      BY <2>2
    <3> QED
      BY <1>2, <3>1
  <2> QED
    BY <2>1, <2>2
<1>3. n \in T
  <2> HIDE DEF T
  <2> QED
    BY <1>1, <1>2, SetInduction
<1>4. \E x \in s : \A y \in s : x >= y
  BY <1>3
<1>5. Max(s) \in s /\ \A y \in s : Max(s) >= y
  BY <1>4 DEF Max
<1> QED
  BY <1>5

LEMMA MaxLast ==
  ASSUME NEW n \in Nat, NEW s \in SUBSET (1 .. n + 1), n + 1 \in s
  PROVE  Max(s) = n + 1
<1>1. PICK m : m = n + 1
  OBVIOUS
<1>2. m \in Nat /\ s \in SUBSET (1 .. m) /\ s # {} /\ m \in s
  BY <1>1
<1>3. PICK x : x = Max(s)
  OBVIOUS
<1>4. x \in s /\ \A y \in s : y <= x
  BY <1>2, <1>3, MaxOf
<1>5. x \in 1 .. m /\ m <= x
  BY <1>2, <1>4
<1> QED
  BY <1>1, <1>2, <1>3, <1>5

\* g is the fold of F over text, as far as its values lie in S.
Folds(g, S, F, base, text) ==
  \A s \in SUBSET (1 .. Len(text)) :
    /\ s = {} => g[s] = base
    /\ s # {} /\ g[s \ {Max(s)}] \in S => g[s] = F[<<g[s \ {Max(s)}], text[Max(s)]>>]

LEMMA FoldExists ==
  ASSUME NEW S, NEW C, NEW base \in S, NEW F \in [S \X C -> S], NEW text \in Seq(C)
  PROVE  \E g \in [SUBSET (1 .. Len(text)) -> S] : Folds(g, S, F, base, text)
<1>1. Len(text) \in Nat /\ \A i \in 1 .. Len(text) : text[i] \in C
  OBVIOUS
<1> DEFINE Upto(k) == \E g \in [SUBSET (1 .. k) -> S] : \A s \in SUBSET (1 .. k) :
                        /\ s = {} => g[s] = base
                        /\ s # {} => g[s] = F[<<g[s \ {Max(s)}], text[Max(s)]>>]
           T == {k \in Nat : k <= Len(text) => Upto(k)}
<1>2. 0 \in T
  <2>1. SUBSET (1 .. 0) = {{}}
    OBVIOUS
  <2>2. [s \in {{}} |-> base] \in [{{}} -> S] /\ [s \in {{}} |-> base][{}] = base
    OBVIOUS
  <2> QED
    BY <2>1, <2>2
<1>3. ASSUME NEW k \in Nat, k \in T PROVE k + 1 \in T
  <2> SUFFICES ASSUME k + 1 <= Len(text) PROVE Upto(k + 1)
    <3> HIDE DEF Upto
    <3> QED
      OBVIOUS
  <2>0. Upto(k)
    <3> HIDE DEF Upto
    <3> QED
      BY <1>1, <1>3
  <2>1. PICK g \in [SUBSET (1 .. k) -> S] : \A s \in SUBSET (1 .. k) :
                        /\ s = {} => g[s] = base
                        /\ s # {} => g[s] = F[<<g[s \ {Max(s)}], text[Max(s)]>>]
    BY <2>0
  <2> DEFINE h == [s \in SUBSET (1 .. k + 1) |->
                     IF k + 1 \in s THEN F[<<g[s \ {k + 1}], text[k + 1]>>] ELSE g[s]]
  <2>2. text[k + 1] \in C
    BY <1>1
  <2>3. ASSUME NEW s \in SUBSET (1 .. k + 1)
        PROVE  /\ k + 1 \in s => s \ {k + 1} \in SUBSET (1 .. k) /\ Max(s) = k + 1
               /\ k + 1 \notin s => s \in SUBSET (1 .. k)
    <3>1. ASSUME k + 1 \in s PROVE Max(s) = k + 1
      BY <3>1, MaxLast
    <3> QED
      BY <3>1
  <2>4. \A s \in SUBSET (1 .. k) : h[s] = g[s] /\ g[s] \in S
    OBVIOUS
  <2>5. \A s \in SUBSET (1 .. k + 1) : k + 1 \in s => h[s] = F[<<g[s \ {k + 1}], text[k + 1]>>]
    OBVIOUS
  <2>6. h \in [SUBSET (1 .. k + 1) -> S]
    <3>1. \A s \in SUBSET (1 .. k + 1) : k + 1 \in s => <<g[s \ {k + 1}], text[k + 1]>> \in S \X C
      BY <2>2, <2>3, <2>4
    <3> QED
      BY <2>3, <2>4, <3>1
  <2> HIDE DEF h
  <2>7. ASSUME NEW s \in SUBSET (1 .. k + 1), s # {}
        PROVE  h[s] = F[<<h[s \ {Max(s)}], text[Max(s)]>>]
    <3>1. CASE k + 1 \in s
      BY <2>3, <2>4, <2>5, <3>1
    <3>2. CASE k + 1 \notin s
      <4>1. s \in SUBSET (1 .. k) /\ s \ {Max(s)} \in SUBSET (1 .. k)
        BY <2>3, <3>2
      <4> QED
        BY <2>1, <2>4, <2>7, <4>1
    <3> QED
      BY <3>1, <3>2
  <2>8. h[{}] = base
    BY <2>1, <2>4
  <2> QED
    BY <2>6, <2>7, <2>8
<1>4. Len(text) \in T
  <2> HIDE DEF T
  <2> QED
    BY <1>1, <1>2, <1>3, SetInduction
<1>5. Upto(Len(text))
  <2> HIDE DEF Upto
  <2> QED
    BY <1>1, <1>4
<1> QED
  BY <1>5 DEF Folds

Extends(text, more) == Len(text) <= Len(more) /\ \A i \in 1 .. Len(text) : more[i] = text[i]

SameAt(s, g, h, S) == g[s] \in S /\ h[s] = g[s]

\* What a fold has come to depends on what it has read only.
LEMMA FoldAgrees ==
  ASSUME NEW S, NEW C, NEW base \in S, NEW F \in [S \X C -> S], NEW text \in Seq(C), NEW more \in Seq(C),
         Extends(text, more),
         NEW g, Folds(g, S, F, base, text), NEW h, Folds(h, S, F, base, more)
  PROVE  SameAt(1 .. Len(text), g, h, S)
<1> USE DEF Extends, SameAt
<1>1. /\ Len(text) \in Nat /\ Len(more) \in Nat /\ \A i \in 1 .. Len(text) : text[i] \in C
  OBVIOUS
<1> DEFINE Agree(k) == \A s \in SUBSET (1 .. k) : g[s] \in S /\ h[s] = g[s]
           T == {k \in Nat : k <= Len(text) => Agree(k)}
<1>2. 0 \in T
  <2>1. SUBSET (1 .. 0) = {{}}
    OBVIOUS
  <2>2. {} \in SUBSET (1 .. Len(text)) /\ {} \in SUBSET (1 .. Len(more))
    OBVIOUS
  <2>3. g[{}] = base /\ h[{}] = base
    BY <2>2 DEF Folds
  <2> QED
    BY <2>1, <2>3
<1>3. ASSUME NEW k \in Nat, k \in T PROVE k + 1 \in T
  <2> SUFFICES ASSUME k + 1 <= Len(text) PROVE Agree(k + 1)
    <3> HIDE DEF Agree
    <3> QED
      OBVIOUS
  <2>0. Agree(k)
    <3> HIDE DEF Agree
    <3> QED
      BY <1>1, <1>3
  <2> SUFFICES ASSUME NEW s \in SUBSET (1 .. k + 1), k + 1 \in s
               PROVE  g[s] \in S /\ h[s] = g[s]
    BY <2>0
  <2>1. Max(s) = k + 1
    BY MaxLast
  <2>2. s \ {k + 1} \in SUBSET (1 .. k)
    OBVIOUS
  <2>3. g[s \ {k + 1}] \in S /\ h[s \ {k + 1}] = g[s \ {k + 1}]
    BY <2>0, <2>2
  <2>4. s \in SUBSET (1 .. Len(text)) /\ s \in SUBSET (1 .. Len(more)) /\ k + 1 \in 1 .. Len(text)
    BY <1>1
  <2>5. /\ g[s] = F[<<g[s \ {k + 1}], text[k + 1]>>]
        /\ h[s] = F[<<h[s \ {k + 1}], more[k + 1]>>]
    BY <2>1, <2>3, <2>4 DEF Folds
  <2>6. more[k + 1] = text[k + 1] /\ text[k + 1] \in C
    BY <1>1, <2>4
  <2>7. <<g[s \ {k + 1}], text[k + 1]>> \in S \X C
    BY <2>3, <2>6
  <2> QED
    BY <2>3, <2>5, <2>6, <2>7
<1>4. Len(text) \in T
  <2> HIDE DEF T
  <2> QED
    BY <1>1, <1>2, <1>3, SetInduction
<1> QED
  BY <1>1, <1>4

Grown(g, h, S, F, text, c) ==
  /\ g[1 .. Len(text)] \in S
  /\ h[1 .. Len(Append(text, c))] = F[<<g[1 .. Len(text)], c>>]

LEMMA FoldAppend ==
  ASSUME NEW S, NEW C, NEW base \in S, NEW F \in [S \X C -> S], NEW text \in Seq(C), NEW c \in C,
         NEW g, Folds(g, S, F, base, text), NEW h, Folds(h, S, F, base, Append(text, c))
  PROVE  Grown(g, h, S, F, text, c)
<1> USE DEF Grown
<1>1. PICK n : n = Len(text) /\ n \in Nat
  OBVIOUS
<1>2. PICK more : more = Append(text, c)
  OBVIOUS
<1>3. /\ more \in Seq(C) /\ Len(more) = n + 1 /\ more[n + 1] = c
      /\ \A i \in 1 .. n : more[i] = text[i]
  BY <1>1, <1>2
<1>4. g[1 .. n] \in S /\ h[1 .. n] = g[1 .. n]
  <2>1. Extends(text, more)
    BY <1>1, <1>3 DEF Extends
  <2>2. Folds(h, S, F, base, more)
    BY <1>2
  <2>3. SameAt(1 .. Len(text), g, h, S)
    BY <1>3, <2>1, <2>2, FoldAgrees, Zenon
  <2> QED
    BY <1>1, <2>3 DEF SameAt
<1>5. PICK s : s = 1 .. n + 1
  OBVIOUS
<1>6. s \in SUBSET (1 .. n + 1) /\ n + 1 \in s /\ s \ {n + 1} = 1 .. n /\ s # {}
  BY <1>1, <1>5
<1>6a. Max(s) = n + 1
  BY <1>1, <1>6, MaxLast
<1>6b. s \in SUBSET (1 .. Len(more))
  BY <1>3, <1>6
<1>7. h[1 .. n + 1] = F[<<h[1 .. n], more[n + 1]>>]
  <2>1. s # {} /\ h[s \ {Max(s)}] \in S => h[s] = F[<<h[s \ {Max(s)}], more[Max(s)]>>]
    BY <1>2, <1>6b DEF Folds
  <2> QED
    BY <1>4, <1>5, <1>6, <1>6a, <2>1
<1> QED
  BY <1>1, <1>2, <1>3, <1>4, <1>7
-----------------------------------------------------------------------------
(* The folds of the console: the lines of a scroll, the lines of a glyph,    *)
(* the characters of a text.                                                 *)

Shades  == {Blank, Beyond} \cup (STRING \X Nat)
Screens == [Words -> Shades]
Consoles    == [cell : Int, screen : Screens]
Inks    == UNION {[D -> STRING] : D \in SUBSET Nat}
Tapes   == [pos : Nat, bottom : Nat, at : Inks, past : BOOLEAN]

LEMMA Sizes ==
  /\ Rows \in Nat /\ Rows >= 1 /\ Cols \in Nat /\ Cols >= 1 /\ CharSize \in Nat /\ CharSize >= 1
  /\ Height \in Nat /\ Rows * CharSize <= Height /\ Height < (Rows + 1) * CharSize
  /\ NL # CR /\ NL \in STRING /\ CR \in STRING
<1>1. /\ Rows \in Nat /\ Rows >= 1 /\ Cols \in Nat /\ Cols >= 1 /\ CharSize \in Nat /\ CharSize >= 1
      /\ NL # CR /\ NL \in STRING /\ CR \in STRING
  BY TtyAssumption, TextAssumption
<1>2. PICK p, q : p = Rows * CharSize /\ q = (Rows + 1) * CharSize
  OBVIOUS
<1>3. p \in Nat /\ q \in Nat
  BY <1>1, <1>2
<1>4. Height \in p .. q - 1
  BY <1>2, TtyAssumption, Zenon
<1>5. Height \in Nat /\ p <= Height /\ Height < q
  BY <1>3, <1>4
<1> QED
  BY <1>1, <1>2, <1>5

LEMMA ShadeTypes ==
  /\ Blank \in Shades /\ Beyond \in Shades
  /\ \A c \in STRING, k \in Nat : <<c, k>> \in Shades
BY DEF Shades

LEMMA TotalType ==
  Total \in Nat /\ Full \in Nat /\ Words = {i \in Nat : i < Total}
<1>1. Total \in Nat /\ Full \in Nat
  BY Sizes DEF Total, Full
<1> QED
  BY <1>1 DEF Words

LEMMA LineTypes ==
  ASSUME NEW scr \in Screens
  PROVE  /\ \A y \in Int : ScrolledLine(scr, y) \in Screens
         /\ \A c \in STRING, col, row \in Int, k \in Nat : DrawnLine(scr, c, col, row, k) \in Screens
<1>1. \A i : PixelAt(scr, i) \in Shades \/ ~ i \in Nat
  <2> SUFFICES ASSUME NEW i \in Nat PROVE PixelAt(scr, i) \in Shades
    OBVIOUS
  <2>1. CASE i < Total
    BY <2>1, TotalType DEF PixelAt, Screens
  <2>2. CASE ~ i < Total
    BY <2>2, ShadeTypes DEF PixelAt
  <2> QED
    BY <2>1, <2>2
<1>2. ASSUME NEW y \in Int PROVE ScrolledLine(scr, y) \in Screens
  <2>1. CharSize * Cols \in Nat
    BY Sizes
  <2>2. \A i \in Words : i \in Nat /\ i + CharSize * Cols \in Nat /\ scr[i] \in Shades
    BY <2>1, TotalType DEF Screens
  <2>3. \A i \in Words : (IF i \div Cols = y THEN PixelAt(scr, i + CharSize * Cols) ELSE scr[i]) \in Shades
    BY <1>1, <2>2
  <2> QED
    BY <2>3 DEF ScrolledLine, Screens
<1>3. ASSUME NEW c \in STRING, NEW col \in Int, NEW row \in Int, NEW k \in Nat
      PROVE  DrawnLine(scr, c, col, row, k) \in Screens
  <2>1. \A i \in Words : (IF i = (row * CharSize + k) * Cols + col THEN <<c, k>> ELSE scr[i]) \in Shades
    BY ShadeTypes DEF Screens
  <2> QED
    BY <2>1 DEF DrawnLine, Screens
<1> QED
  BY <1>2, <1>3

ScrollTo(scr, n) == FoldLeft(ScrolledLine, scr, UpTo(n))
DrawTo(scr, c, col, row, n) == FoldLeft(LAMBDA s, k : DrawnLine(s, c, col, row, k), scr, UpTo(n))

LEMMA UpToIs ==
  /\ UpTo(0) = << >>
  /\ \A n \in Nat : UpTo(n) \in Seq(Nat) /\ Len(UpTo(n)) = n /\ UpTo(n + 1) = Append(UpTo(n), n)
<1>1. UpTo(0) = << >>
  BY DEF UpTo
<1>2. ASSUME NEW n \in Nat
      PROVE  UpTo(n) \in Seq(Nat) /\ Len(UpTo(n)) = n /\ \A i \in 1 .. n : UpTo(n)[i] = i - 1
  <2>1. UpTo(n) \in [1 .. n -> Nat]
    BY DEF UpTo
  <2> QED
    BY <2>1 DEF UpTo
<1>3. ASSUME NEW n \in Nat PROVE UpTo(n + 1) = Append(UpTo(n), n)
  <2>1. PICK m : m = n + 1
    OBVIOUS
  <2>2. PICK s : s = Append(UpTo(n), n)
    OBVIOUS
  <2>3. s \in Seq(Nat) /\ Len(s) = m /\ s[m] = n /\ \A i \in 1 .. n : s[i] = i - 1
    <3>1. PICK r : r = UpTo(n)
      OBVIOUS
    <3>2. r \in Seq(Nat) /\ Len(r) = n /\ \A i \in 1 .. n : r[i] = i - 1
      BY <1>2, <3>1
    <3>3. s = Append(r, n)
      BY <2>2, <3>1
    <3> QED
      BY <2>1, <3>2, <3>3
  <2>4. UpTo(m) \in Seq(Nat) /\ Len(UpTo(m)) = m /\ \A i \in 1 .. m : UpTo(m)[i] = i - 1
    BY <1>2, <2>1
  <2>5. \A i \in 1 .. Len(UpTo(m)) : UpTo(m)[i] = s[i]
    BY <2>1, <2>3, <2>4
  <2>6. Len(UpTo(m)) = Len(s)
    BY <2>3, <2>4
  <2>7. UpTo(m) = s
    BY <2>3, <2>4, <2>5, <2>6, SeqEqual, Zenon
  <2> QED
    BY <2>1, <2>2, <2>7
<1> QED
  BY <1>1, <1>2, <1>3

\* Each fold is the value of a recursive function, its Steps, which exists.
ScrollSteps(scr, n) ==
  CHOOSE g : g = [s \in SUBSET DOMAIN UpTo(n) |->
                    IF s = {} THEN scr ELSE ScrolledLine(g[s \ {Max(s)}], UpTo(n)[Max(s)])]
ScrollF == [x \in Screens \X Nat |-> ScrolledLine(x[1], x[2])]

LEMMA ScrollFType ==
  ScrollF \in [Screens \X Nat -> Screens]
<1>1. ASSUME NEW x \in Screens \X Nat PROVE ScrolledLine(x[1], x[2]) \in Screens
  <2>1. x[1] \in Screens /\ x[2] \in Int
    OBVIOUS
  <2> QED
    BY <2>1, LineTypes
<1> QED
  BY <1>1 DEF ScrollF

LEMMA ScrollIsFold ==
  ASSUME NEW scr \in Screens, NEW n \in Nat
  PROVE  /\ ScrollTo(scr, n) = ScrollSteps(scr, n)[1 .. Len(UpTo(n))]
         /\ Folds(ScrollSteps(scr, n), Screens, ScrollF, scr, UpTo(n))
<1>1. ScrollTo(scr, n) = ScrollSteps(scr, n)[DOMAIN UpTo(n)]
  BY Zenon DEF ScrollTo, ScrollSteps, FoldLeft, MapThenFoldSet
<1>2. UpTo(n) \in Seq(Nat) /\ DOMAIN UpTo(n) = 1 .. Len(UpTo(n)) /\ Len(UpTo(n)) \in Nat
  <2>1. UpTo(n) \in Seq(Nat)
    BY UpToIs
  <2> QED
    BY <2>1, LenProperties, Zenon
<1>3. ScrollF \in [Screens \X Nat -> Screens] /\ scr \in Screens
  BY ScrollFType
<1>4. PICK g \in [SUBSET (1 .. Len(UpTo(n))) -> Screens] : Folds(g, Screens, ScrollF, scr, UpTo(n))
  BY <1>2, <1>3, FoldExists
<1> DEFINE D == SUBSET (1 .. Len(UpTo(n)))
           Val(h, s) == IF s = {} THEN scr ELSE ScrolledLine(h[s \ {Max(s)}], UpTo(n)[Max(s)])
<1>5. ASSUME NEW s \in D, s # {} PROVE Max(s) \in 1 .. Len(UpTo(n)) /\ s \ {Max(s)} \in D /\ UpTo(n)[Max(s)] \in Nat
  <2>1. PICK m : m = Max(s)
    OBVIOUS
  <2>2. m \in s
    BY <1>2, <1>5, <2>1, MaxOf
  <2>3. UpTo(n)[m] \in Nat
    BY <1>2, <2>2, ElementOfSeq
  <2> QED
    BY <2>1, <2>2, <2>3
<1>6. \A s \in D : g[s] = Val(g, s)
  <2> SUFFICES ASSUME NEW s \in D PROVE g[s] = Val(g, s)
    OBVIOUS
  <2>1. CASE s = {}
    BY <1>4, <2>1 DEF Folds
  <2>2. CASE s # {}
    <3>1. g[s \ {Max(s)}] \in Screens
      BY <1>4, <1>5, <2>2
    <3>2. g[s] = ScrollF[<<g[s \ {Max(s)}], UpTo(n)[Max(s)]>>]
      BY <1>4, <2>2, <3>1 DEF Folds
    <3> QED
      BY <1>5, <2>2, <3>1, <3>2 DEF ScrollF
  <2> QED
    BY <2>1, <2>2
<1>7. g = [s \in SUBSET DOMAIN UpTo(n) |-> Val(g, s)]
  BY <1>2, <1>4, <1>6
<1>8. ScrollSteps(scr, n) = [s \in SUBSET DOMAIN UpTo(n) |-> Val(ScrollSteps(scr, n), s)]
  BY <1>7, Zenon DEF ScrollSteps
<1>9. Folds(ScrollSteps(scr, n), Screens, ScrollF, scr, UpTo(n))
  <2>1. PICK h : h = ScrollSteps(scr, n)
    OBVIOUS
  <2>2. \A s \in D : h[s] = Val(h, s)
    BY <1>2, <1>8, <2>1
  <2>3. ASSUME NEW s \in D, s # {}, h[s \ {Max(s)}] \in Screens
        PROVE  h[s] = ScrollF[<<h[s \ {Max(s)}], UpTo(n)[Max(s)]>>]
    BY <1>5, <2>2, <2>3 DEF ScrollF
  <2>4. h[{}] = scr
    BY <2>2
  <2> QED
    BY <2>1, <2>3, <2>4 DEF Folds
<1> QED
  BY <1>1, <1>2, <1>9

DrawSteps(scr, c, col, row, n) ==
  CHOOSE g : g = [s \in SUBSET DOMAIN UpTo(n) |->
                    IF s = {} THEN scr ELSE DrawnLine(g[s \ {Max(s)}], c, col, row, UpTo(n)[Max(s)])]
DrawF(c, col, row) == [x \in Screens \X Nat |-> DrawnLine(x[1], c, col, row, x[2])]

LEMMA DrawFType ==
  ASSUME NEW c \in STRING, NEW col \in Int, NEW row \in Int
  PROVE  DrawF(c, col, row) \in [Screens \X Nat -> Screens]
<1>1. ASSUME NEW x \in Screens \X Nat PROVE DrawnLine(x[1], c, col, row, x[2]) \in Screens
  <2>1. x[1] \in Screens /\ x[2] \in Nat
    OBVIOUS
  <2> QED
    BY <2>1, LineTypes
<1> QED
  BY <1>1 DEF DrawF

LEMMA DrawIsFold ==
  ASSUME NEW scr \in Screens, NEW c \in STRING, NEW col \in Int, NEW row \in Int, NEW n \in Nat
  PROVE  /\ DrawTo(scr, c, col, row, n) = DrawSteps(scr, c, col, row, n)[1 .. Len(UpTo(n))]
         /\ Folds(DrawSteps(scr, c, col, row, n), Screens, DrawF(c, col, row), scr, UpTo(n))
<1>1. DrawTo(scr, c, col, row, n) = DrawSteps(scr, c, col, row, n)[DOMAIN UpTo(n)]
  BY Zenon DEF DrawTo, DrawSteps, FoldLeft, MapThenFoldSet
<1>2. UpTo(n) \in Seq(Nat) /\ DOMAIN UpTo(n) = 1 .. Len(UpTo(n)) /\ Len(UpTo(n)) \in Nat
  <2>1. UpTo(n) \in Seq(Nat)
    BY UpToIs
  <2> QED
    BY <2>1, LenProperties, Zenon
<1>3. DrawF(c, col, row) \in [Screens \X Nat -> Screens] /\ scr \in Screens
  BY DrawFType
<1>4. PICK g \in [SUBSET (1 .. Len(UpTo(n))) -> Screens] : Folds(g, Screens, DrawF(c, col, row), scr, UpTo(n))
  BY <1>2, <1>3, FoldExists
<1> DEFINE D == SUBSET (1 .. Len(UpTo(n)))
           Val(h, s) == IF s = {} THEN scr ELSE DrawnLine(h[s \ {Max(s)}], c, col, row, UpTo(n)[Max(s)])
<1>5. ASSUME NEW s \in D, s # {} PROVE Max(s) \in 1 .. Len(UpTo(n)) /\ s \ {Max(s)} \in D /\ UpTo(n)[Max(s)] \in Nat
  <2>1. PICK m : m = Max(s)
    OBVIOUS
  <2>2. m \in s
    BY <1>2, <1>5, <2>1, MaxOf
  <2>3. UpTo(n)[m] \in Nat
    BY <1>2, <2>2, ElementOfSeq
  <2> QED
    BY <2>1, <2>2, <2>3
<1>6. \A s \in D : g[s] = Val(g, s)
  <2> SUFFICES ASSUME NEW s \in D PROVE g[s] = Val(g, s)
    OBVIOUS
  <2>1. CASE s = {}
    BY <1>4, <2>1 DEF Folds
  <2>2. CASE s # {}
    <3>1. g[s \ {Max(s)}] \in Screens
      BY <1>4, <1>5, <2>2
    <3>2. g[s] = DrawF(c, col, row)[<<g[s \ {Max(s)}], UpTo(n)[Max(s)]>>]
      BY <1>4, <2>2, <3>1 DEF Folds
    <3> QED
      BY <1>5, <2>2, <3>1, <3>2 DEF DrawF
  <2> QED
    BY <2>1, <2>2
<1>7. g = [s \in SUBSET DOMAIN UpTo(n) |-> Val(g, s)]
  BY <1>2, <1>4, <1>6
<1>8. DrawSteps(scr, c, col, row, n) = [s \in SUBSET DOMAIN UpTo(n) |-> Val(DrawSteps(scr, c, col, row, n), s)]
  BY <1>7, Zenon DEF DrawSteps
<1>9. Folds(DrawSteps(scr, c, col, row, n), Screens, DrawF(c, col, row), scr, UpTo(n))
  <2>1. PICK h : h = DrawSteps(scr, c, col, row, n)
    OBVIOUS
  <2>2. \A s \in D : h[s] = Val(h, s)
    BY <1>2, <1>8, <2>1
  <2>3. ASSUME NEW s \in D, s # {}, h[s \ {Max(s)}] \in Screens
        PROVE  h[s] = DrawF(c, col, row)[<<h[s \ {Max(s)}], UpTo(n)[Max(s)]>>]
    BY <1>5, <2>2, <2>3 DEF DrawF
  <2>4. h[{}] = scr
    BY <2>2
  <2> QED
    BY <2>1, <2>3, <2>4 DEF Folds
<1> QED
  BY <1>1, <1>2, <1>9

LEMMA ScrollSoFar ==
  ASSUME NEW scr \in Screens, NEW n \in Nat
  PROVE  /\ ScrollTo(scr, 0) = scr /\ ScrollTo(scr, n) \in Screens
         /\ ScrollTo(scr, n + 1) = ScrolledLine(ScrollTo(scr, n), n)
<1>1. PICK m : m = n + 1 /\ m \in Nat
  OBVIOUS
<1>2. PICK text : text = UpTo(n) /\ text \in Seq(Nat)
  BY UpToIs
<1>3. PICK more : more = UpTo(m) /\ more = Append(text, n)
  BY <1>1, <1>2, UpToIs
<1>4. PICK g : g = ScrollSteps(scr, n)
  OBVIOUS
<1>5. PICK h : h = ScrollSteps(scr, m)
  OBVIOUS
<1>6. Folds(g, Screens, ScrollF, scr, text) /\ ScrollTo(scr, n) = g[1 .. Len(text)]
  BY <1>2, <1>4, ScrollIsFold
<1>7. Folds(h, Screens, ScrollF, scr, more) /\ ScrollTo(scr, m) = h[1 .. Len(more)]
  BY <1>1, <1>3, <1>5, ScrollIsFold
<1>8. Folds(h, Screens, ScrollF, scr, Append(text, n))
  BY <1>3, <1>7, Zenon
<1>9. g[1 .. Len(text)] \in Screens /\ h[1 .. Len(Append(text, n))] = ScrollF[<<g[1 .. Len(text)], n>>]
  <2>1. Grown(g, h, Screens, ScrollF, text, n)
    BY <1>2, <1>6, <1>8, ScrollFType, FoldAppend
  <2> QED
    BY <2>1 DEF Grown
<1>10. ScrollTo(scr, n) \in Screens /\ ScrollTo(scr, m) = ScrollF[<<ScrollTo(scr, n), n>>]
  BY <1>3, <1>6, <1>7, <1>9
<1>11. ScrollTo(scr, 0) = scr
  <2>1. PICK r : r = ScrollSteps(scr, 0)
    OBVIOUS
  <2>2. ScrollTo(scr, 0) = r[1 .. Len(UpTo(0))] /\ Folds(r, Screens, ScrollF, scr, UpTo(0))
    BY <2>1, ScrollIsFold
  <2>3. 1 .. Len(UpTo(0)) = {}
    BY UpToIs
  <2> QED
    BY <2>2, <2>3 DEF Folds
<1> QED
  BY <1>1, <1>10, <1>11 DEF ScrollF

DrawFacts(scr, c, col, row, n) ==
  /\ DrawTo(scr, c, col, row, 0) = scr /\ DrawTo(scr, c, col, row, n) \in Screens
  /\ DrawTo(scr, c, col, row, n + 1) = DrawnLine(DrawTo(scr, c, col, row, n), c, col, row, n)

LEMMA DrawSoFar ==
  ASSUME NEW scr \in Screens, NEW c \in STRING, NEW col \in Int, NEW row \in Int, NEW n \in Nat
  PROVE  DrawFacts(scr, c, col, row, n)
<1>1. PICK m : m = n + 1 /\ m \in Nat
  OBVIOUS
<1>2. PICK text : text = UpTo(n) /\ text \in Seq(Nat)
  BY UpToIs
<1>3. PICK more : more = UpTo(m) /\ more = Append(text, n)
  BY <1>1, <1>2, UpToIs
<1>4. PICK g : g = DrawSteps(scr, c, col, row, n)
  OBVIOUS
<1>5. PICK h : h = DrawSteps(scr, c, col, row, m)
  OBVIOUS
<1>f. PICK F : F = DrawF(c, col, row) /\ F \in [Screens \X Nat -> Screens]
  BY DrawFType
<1>6. Folds(g, Screens, F, scr, text) /\ DrawTo(scr, c, col, row, n) = g[1 .. Len(text)]
  <2>1. /\ DrawTo(scr, c, col, row, n) = DrawSteps(scr, c, col, row, n)[1 .. Len(UpTo(n))]
        /\ Folds(DrawSteps(scr, c, col, row, n), Screens, DrawF(c, col, row), scr, UpTo(n))
    BY DrawIsFold
  <2> QED
    BY <1>2, <1>4, <1>f, <2>1
<1>7. Folds(h, Screens, F, scr, more) /\ DrawTo(scr, c, col, row, m) = h[1 .. Len(more)]
  <2>1. /\ DrawTo(scr, c, col, row, m) = DrawSteps(scr, c, col, row, m)[1 .. Len(UpTo(m))]
        /\ Folds(DrawSteps(scr, c, col, row, m), Screens, DrawF(c, col, row), scr, UpTo(m))
    <3>1. m \in Nat
      BY <1>1
    <3> QED
      BY <3>1, DrawIsFold
  <2> QED
    BY <1>3, <1>5, <1>f, <2>1
<1>8. Folds(h, Screens, F, scr, Append(text, n))
  BY <1>3, <1>7, Zenon
<1>9. g[1 .. Len(text)] \in Screens /\ h[1 .. Len(Append(text, n))] = F[<<g[1 .. Len(text)], n>>]
  <2>1. Grown(g, h, Screens, F, text, n)
    BY <1>2, <1>6, <1>8, <1>f, FoldAppend
  <2> QED
    BY <2>1 DEF Grown
<1>10. DrawTo(scr, c, col, row, n) \in Screens /\ DrawTo(scr, c, col, row, m) = F[<<DrawTo(scr, c, col, row, n), n>>]
  BY <1>3, <1>6, <1>7, <1>9
<1>11. DrawTo(scr, c, col, row, 0) = scr
  <2>1. PICK r : r = DrawSteps(scr, c, col, row, 0)
    OBVIOUS
  <2>2. DrawTo(scr, c, col, row, 0) = r[1 .. Len(UpTo(0))] /\ Folds(r, Screens, F, scr, UpTo(0))
    <3>1. /\ DrawTo(scr, c, col, row, 0) = DrawSteps(scr, c, col, row, 0)[1 .. Len(UpTo(0))]
          /\ Folds(DrawSteps(scr, c, col, row, 0), Screens, DrawF(c, col, row), scr, UpTo(0))
      BY DrawIsFold
    <3> QED
      BY <1>f, <2>1, <3>1
  <2>3. 1 .. Len(UpTo(0)) = {}
    BY UpToIs
  <2> QED
    BY <2>2, <2>3 DEF Folds
<1> QED
  BY <1>1, <1>f, <1>10, <1>11 DEF DrawF, DrawFacts

LEMMA DrawnAll ==
  ASSUME NEW scr, NEW c, NEW col, NEW row
  PROVE  Drawn(scr, c, col, row) = DrawTo(scr, c, col, row, CharSize)
BY DEF Drawn, DrawTo

LEMMA WriteCharType ==
  ASSUME NEW con \in Consoles, NEW c \in STRING
  PROVE  WriteChar(con, c) \in Consoles
<1> DEFINE p == Moved(con.cell, c)
           s == IF AtEnd(p) THEN Scrolled(con.screen) ELSE con.screen
           q == IF AtEnd(p) THEN (Rows - 1) * Cols ELSE p
<1>1. con.cell \in Int /\ con.screen \in Screens
  BY DEF Consoles
<1>2. p \in Int
  <2>1. \A x \in Int : LineStart(x) \in Int
    BY Sizes DEF LineStart
  <2>2. con.cell + Cols \in Int
    BY <1>1, Sizes
  <2> QED
    BY <1>1, <2>1, <2>2 DEF Moved
<1>3. s \in Screens
  <2>1. Scrolled(con.screen) \in Screens
    BY <1>1, Sizes, ScrollSoFar DEF Scrolled, ScrollTo
  <2> QED
    BY <1>1, <2>1
<1>4. q \in Int /\ q + 1 \in Int /\ q % Cols \in Int /\ q \div Cols \in Int
  <2>1. (Rows - 1) * Cols \in Int
    BY Sizes
  <2>2. q \in Int
    BY <1>2, <2>1
  <2> HIDE DEF q
  <2> QED
    BY <2>2, Sizes
<1> HIDE DEF p, s, q
<1>5. Drawn(s, c, q % Cols, q \div Cols) \in Screens
  <2>1. PICK col, row \in Int : col = q % Cols /\ row = q \div Cols
    BY <1>4
  <2>2. DrawTo(s, c, col, row, CharSize) \in Screens
    BY <1>3, Sizes, DrawSoFar DEF DrawFacts
  <2> QED
    BY <2>1, <2>2, DrawnAll
<1>6. WriteChar(con, c) = IF Special(c) THEN [cell |-> q, screen |-> s]
                          ELSE [cell |-> q + 1, screen |-> Drawn(s, c, q % Cols, q \div Cols)]
  BY DEF WriteChar, p, s, q
<1> QED
  BY <1>3, <1>4, <1>5, <1>6 DEF Consoles

PutSteps(con, text) ==
  CHOOSE g : g = [s \in SUBSET DOMAIN text |->
                    IF s = {} THEN con ELSE WriteChar(g[s \ {Max(s)}], text[Max(s)])]
PutF == [x \in Consoles \X STRING |-> WriteChar(x[1], x[2])]

LEMMA PutFType ==
  PutF \in [Consoles \X STRING -> Consoles]
<1>1. ASSUME NEW x \in Consoles \X STRING PROVE WriteChar(x[1], x[2]) \in Consoles
  <2>1. x[1] \in Consoles /\ x[2] \in STRING
    OBVIOUS
  <2> QED
    BY <2>1, WriteCharType
<1> QED
  BY <1>1 DEF PutF

LEMMA PutIsFold ==
  ASSUME NEW con \in Consoles, NEW text \in Seq(STRING)
  PROVE  /\ Put(con, text) = PutSteps(con, text)[1 .. Len(text)]
         /\ Folds(PutSteps(con, text), Consoles, PutF, con, text)
<1>1. Put(con, text) = PutSteps(con, text)[DOMAIN text]
  BY Zenon DEF Put, PutSteps, FoldLeft, MapThenFoldSet
<1>2. text \in Seq(STRING) /\ DOMAIN text = 1 .. Len(text) /\ Len(text) \in Nat
  <2>1. text \in Seq(STRING)
    OBVIOUS
  <2> QED
    BY <2>1, LenProperties, Zenon
<1>3. PutF \in [Consoles \X STRING -> Consoles] /\ con \in Consoles
  BY PutFType
<1>4. PICK g \in [SUBSET (1 .. Len(text)) -> Consoles] : Folds(g, Consoles, PutF, con, text)
  BY <1>2, <1>3, FoldExists
<1> DEFINE D == SUBSET (1 .. Len(text))
           Val(h, s) == IF s = {} THEN con ELSE WriteChar(h[s \ {Max(s)}], text[Max(s)])
<1>5. ASSUME NEW s \in D, s # {} PROVE Max(s) \in 1 .. Len(text) /\ s \ {Max(s)} \in D /\ text[Max(s)] \in STRING
  <2>1. PICK m : m = Max(s)
    OBVIOUS
  <2>2. m \in s
    BY <1>2, <1>5, <2>1, MaxOf
  <2>3. text[m] \in STRING
    BY <1>2, <2>2, ElementOfSeq
  <2> QED
    BY <2>1, <2>2, <2>3
<1>6. \A s \in D : g[s] = Val(g, s)
  <2> SUFFICES ASSUME NEW s \in D PROVE g[s] = Val(g, s)
    OBVIOUS
  <2>1. CASE s = {}
    BY <1>4, <2>1 DEF Folds
  <2>2. CASE s # {}
    <3>1. g[s \ {Max(s)}] \in Consoles
      BY <1>4, <1>5, <2>2
    <3>2. g[s] = PutF[<<g[s \ {Max(s)}], text[Max(s)]>>]
      BY <1>4, <2>2, <3>1 DEF Folds
    <3> QED
      BY <1>5, <2>2, <3>1, <3>2 DEF PutF
  <2> QED
    BY <2>1, <2>2
<1>7. g = [s \in SUBSET DOMAIN text |-> Val(g, s)]
  BY <1>2, <1>4, <1>6
<1>8. PutSteps(con, text) = [s \in SUBSET DOMAIN text |-> Val(PutSteps(con, text), s)]
  BY <1>7, Zenon DEF PutSteps
<1>9. Folds(PutSteps(con, text), Consoles, PutF, con, text)
  <2>1. PICK h : h = PutSteps(con, text)
    OBVIOUS
  <2>2. \A s \in D : h[s] = Val(h, s)
    BY <1>2, <1>8, <2>1
  <2>3. ASSUME NEW s \in D, s # {}, h[s \ {Max(s)}] \in Consoles
        PROVE  h[s] = PutF[<<h[s \ {Max(s)}], text[Max(s)]>>]
    BY <1>5, <2>2, <2>3 DEF PutF
  <2>4. h[{}] = con
    BY <2>2
  <2> QED
    BY <2>1, <2>3, <2>4 DEF Folds
<1> QED
  BY <1>1, <1>2, <1>9

LEMMA LaidType ==
  ASSUME NEW t \in Tapes, NEW c \in STRING
  PROVE  Laid(t, c) \in Tapes
<1>1. t.pos \in Nat /\ t.bottom \in Nat /\ t.at \in Inks /\ t.past \in BOOLEAN
  BY DEF Tapes
<1>2. t.pos \div Cols \in Nat
  BY <1>1, Sizes
<1>3. PICK r \in Nat : r = t.pos \div Cols
  BY <1>2
<1>4. PICK n, m \in Nat : n = (r + 1) * Cols /\ m = r * Cols
  BY Sizes
<1>5. n \div Cols \in Nat /\ m \div Cols \in Nat /\ t.pos + 1 \in Nat
  BY <1>1, Sizes
<1>6. \A x, y \in Nat : Later(x, y) \in Nat
  BY DEF Later
<1>7. Inked(t.at, t.pos, c) \in Inks
  <2>1. PICK D \in SUBSET Nat : t.at \in [D -> STRING]
    BY <1>1 DEF Inks
  <2>2. DOMAIN t.at = D
    BY <2>1
  <2>3. Inked(t.at, t.pos, c) \in [D \cup {t.pos} -> STRING]
    BY <2>1, <2>2 DEF Inked
  <2>4. D \cup {t.pos} \in SUBSET Nat
    BY <1>1
  <2> QED
    BY <2>3, <2>4 DEF Inks
<1>8. CASE c = NL
  <2>1. Laid(t, c) = [t EXCEPT !.pos = n, !.bottom = Later(@, n \div Cols), !.past = @ \/ r > t.bottom]
    <3>1. Laid(t, c) = [t EXCEPT !.pos = (t.pos \div Cols + 1) * Cols,
                                 !.bottom = Later(@, ((t.pos \div Cols + 1) * Cols) \div Cols),
                                 !.past = @ \/ t.pos \div Cols > t.bottom]
      BY <1>8, Sizes DEF Laid
    <3> QED
      BY <1>3, <1>4, <3>1, Zenon
  <2>2. PICK low \in Nat, past1 \in BOOLEAN : low = Later(t.bottom, n \div Cols) /\ past1 = (t.past \/ r > t.bottom)
    BY <1>1, <1>5, <1>6
  <2>3. Laid(t, c) = [t EXCEPT !.pos = n, !.bottom = low, !.past = past1]
    BY <2>1, <2>2, Zenon
  <2> QED
    BY <2>3 DEF Tapes
<1>9. CASE c # NL /\ c = CR
  <2>1. Laid(t, c) = [t EXCEPT !.pos = m, !.bottom = Later(@, m \div Cols)]
    BY <1>3, <1>4, <1>9 DEF Laid
  <2> QED
    BY <1>1, <1>5, <1>6, <2>1 DEF Tapes
<1>10. CASE c # NL /\ c # CR
  <2>1. Laid(t, c) = [t EXCEPT !.pos = @ + 1, !.bottom = Later(@, r), !.at = Inked(@, t.pos, c)]
    BY <1>3, <1>10 DEF Laid
  <2> QED
    BY <1>1, <1>5, <1>6, <1>7, <2>1 DEF Tapes
<1> QED
  BY <1>8, <1>9, <1>10

LEMMA BlankTapeType ==
  BlankTape \in Tapes
<1>1. << >> \in [{} -> STRING]
  OBVIOUS
<1>2. << >> \in Inks
  BY <1>1 DEF Inks
<1>3. Rows - 1 \in Nat
  BY Sizes
<1> QED
  BY <1>2, <1>3 DEF BlankTape, Tapes

TapeSteps(text) ==
  CHOOSE g : g = [s \in SUBSET DOMAIN text |->
                    IF s = {} THEN BlankTape ELSE Laid(g[s \ {Max(s)}], text[Max(s)])]
TapeF == [x \in Tapes \X STRING |-> Laid(x[1], x[2])]

LEMMA TapeFType ==
  TapeF \in [Tapes \X STRING -> Tapes]
<1>1. ASSUME NEW x \in Tapes \X STRING PROVE Laid(x[1], x[2]) \in Tapes
  <2>1. x[1] \in Tapes /\ x[2] \in STRING
    OBVIOUS
  <2> QED
    BY <2>1, LaidType
<1> QED
  BY <1>1 DEF TapeF

LEMMA TapeIsFold ==
  ASSUME NEW text \in Seq(STRING)
  PROVE  /\ Tape(text) = TapeSteps(text)[1 .. Len(text)]
         /\ Folds(TapeSteps(text), Tapes, TapeF, BlankTape, text)
<1>1. Tape(text) = TapeSteps(text)[DOMAIN text]
  BY Zenon DEF Tape, TapeSteps, FoldLeft, MapThenFoldSet
<1>2. text \in Seq(STRING) /\ DOMAIN text = 1 .. Len(text) /\ Len(text) \in Nat
  <2>1. text \in Seq(STRING)
    OBVIOUS
  <2> QED
    BY <2>1, LenProperties, Zenon
<1>3. TapeF \in [Tapes \X STRING -> Tapes] /\ BlankTape \in Tapes
  BY TapeFType, BlankTapeType
<1>4. PICK g \in [SUBSET (1 .. Len(text)) -> Tapes] : Folds(g, Tapes, TapeF, BlankTape, text)
  BY <1>2, <1>3, FoldExists
<1> DEFINE D == SUBSET (1 .. Len(text))
           Val(h, s) == IF s = {} THEN BlankTape ELSE Laid(h[s \ {Max(s)}], text[Max(s)])
<1>5. ASSUME NEW s \in D, s # {} PROVE Max(s) \in 1 .. Len(text) /\ s \ {Max(s)} \in D /\ text[Max(s)] \in STRING
  <2>1. PICK m : m = Max(s)
    OBVIOUS
  <2>2. m \in s
    BY <1>2, <1>5, <2>1, MaxOf
  <2>3. text[m] \in STRING
    BY <1>2, <2>2, ElementOfSeq
  <2> QED
    BY <2>1, <2>2, <2>3
<1>6. \A s \in D : g[s] = Val(g, s)
  <2> SUFFICES ASSUME NEW s \in D PROVE g[s] = Val(g, s)
    OBVIOUS
  <2>1. CASE s = {}
    BY <1>4, <2>1 DEF Folds
  <2>2. CASE s # {}
    <3>1. g[s \ {Max(s)}] \in Tapes
      BY <1>4, <1>5, <2>2
    <3>2. g[s] = TapeF[<<g[s \ {Max(s)}], text[Max(s)]>>]
      BY <1>4, <2>2, <3>1 DEF Folds
    <3> QED
      BY <1>5, <2>2, <3>1, <3>2 DEF TapeF
  <2> QED
    BY <2>1, <2>2
<1>7. g = [s \in SUBSET DOMAIN text |-> Val(g, s)]
  BY <1>2, <1>4, <1>6
<1>8. TapeSteps(text) = [s \in SUBSET DOMAIN text |-> Val(TapeSteps(text), s)]
  BY <1>7, Zenon DEF TapeSteps
<1>9. Folds(TapeSteps(text), Tapes, TapeF, BlankTape, text)
  <2>1. PICK h : h = TapeSteps(text)
    OBVIOUS
  <2>2. \A s \in D : h[s] = Val(h, s)
    BY <1>2, <1>8, <2>1
  <2>3. ASSUME NEW s \in D, s # {}, h[s \ {Max(s)}] \in Tapes
        PROVE  h[s] = TapeF[<<h[s \ {Max(s)}], text[Max(s)]>>]
    BY <1>5, <2>2, <2>3 DEF TapeF
  <2>4. h[{}] = BlankTape
    BY <2>2
  <2> QED
    BY <2>1, <2>3, <2>4 DEF Folds
<1> QED
  BY <1>1, <1>2, <1>9

LEMMA PutSoFar ==
  ASSUME NEW con \in Consoles, NEW text \in Seq(STRING), NEW c \in STRING
  PROVE  /\ Put(con, << >>) = con /\ Put(con, text) \in Consoles
         /\ Put(con, Append(text, c)) = WriteChar(Put(con, text), c)
<1>1. PICK more : more = Append(text, c)
  OBVIOUS
<1>2. more \in Seq(STRING)
  BY <1>1, AppendProperties
<1>3. PICK g : g = PutSteps(con, text)
  OBVIOUS
<1>4. PICK h : h = PutSteps(con, more)
  OBVIOUS
<1>5. Folds(g, Consoles, PutF, con, text) /\ Put(con, text) = g[1 .. Len(text)]
  <2>1. /\ Put(con, text) = PutSteps(con, text)[1 .. Len(text)]
        /\ Folds(PutSteps(con, text), Consoles, PutF, con, text)
    BY PutIsFold
  <2> QED
    BY <1>3, <2>1
<1>6. Folds(h, Consoles, PutF, con, more) /\ Put(con, more) = h[1 .. Len(more)]
  <2>1. /\ Put(con, more) = PutSteps(con, more)[1 .. Len(more)]
        /\ Folds(PutSteps(con, more), Consoles, PutF, con, more)
    BY <1>2, PutIsFold
  <2> QED
    BY <1>4, <2>1
<1>7. Folds(h, Consoles, PutF, con, Append(text, c))
  BY <1>1, <1>6, Zenon
<1>8. g[1 .. Len(text)] \in Consoles /\ h[1 .. Len(Append(text, c))] = PutF[<<g[1 .. Len(text)], c>>]
  <2>1. Grown(g, h, Consoles, PutF, text, c)
    BY <1>5, <1>7, PutFType, FoldAppend
  <2> QED
    BY <2>1 DEF Grown
<1>9. Put(con, text) \in Consoles /\ Put(con, more) = PutF[<<Put(con, text), c>>]
  BY <1>1, <1>5, <1>6, <1>8
<1>10. Put(con, << >>) = con
  <2>1. PICK e : e = << >>
    OBVIOUS
  <2>2. e \in Seq(STRING) /\ 1 .. Len(e) = {}
    BY <2>1
  <2>3. PICK r : r = PutSteps(con, e)
    OBVIOUS
  <2>4. Put(con, e) = r[1 .. Len(e)] /\ Folds(r, Consoles, PutF, con, e)
    <3>1. Put(con, e) = PutSteps(con, e)[1 .. Len(e)] /\ Folds(PutSteps(con, e), Consoles, PutF, con, e)
      BY <2>2, PutIsFold
    <3> QED
      BY <2>3, <3>1
  <2>5. Put(con, e) = con
    BY <2>2, <2>4 DEF Folds
  <2> QED
    BY <2>1, <2>5
<1> QED
  BY <1>1, <1>9, <1>10 DEF PutF

LEMMA TapeSoFar ==
  ASSUME NEW text \in Seq(STRING), NEW c \in STRING
  PROVE  /\ Tape(<< >>) = BlankTape /\ Tape(text) \in Tapes
         /\ Tape(Append(text, c)) = Laid(Tape(text), c)
<1>1. PICK more : more = Append(text, c)
  OBVIOUS
<1>2. more \in Seq(STRING)
  BY <1>1, AppendProperties
<1>3. PICK g : g = TapeSteps(text)
  OBVIOUS
<1>4. PICK h : h = TapeSteps(more)
  OBVIOUS
<1>5. Folds(g, Tapes, TapeF, BlankTape, text) /\ Tape(text) = g[1 .. Len(text)]
  <2>1. /\ Tape(text) = TapeSteps(text)[1 .. Len(text)]
        /\ Folds(TapeSteps(text), Tapes, TapeF, BlankTape, text)
    BY TapeIsFold
  <2> QED
    BY <1>3, <2>1
<1>6. Folds(h, Tapes, TapeF, BlankTape, more) /\ Tape(more) = h[1 .. Len(more)]
  <2>1. /\ Tape(more) = TapeSteps(more)[1 .. Len(more)]
        /\ Folds(TapeSteps(more), Tapes, TapeF, BlankTape, more)
    BY <1>2, TapeIsFold
  <2> QED
    BY <1>4, <2>1
<1>7. Folds(h, Tapes, TapeF, BlankTape, Append(text, c))
  BY <1>1, <1>6, Zenon
<1>8. g[1 .. Len(text)] \in Tapes /\ h[1 .. Len(Append(text, c))] = TapeF[<<g[1 .. Len(text)], c>>]
  <2>1. Grown(g, h, Tapes, TapeF, text, c)
    BY <1>5, <1>7, TapeFType, BlankTapeType, FoldAppend
  <2> QED
    BY <2>1 DEF Grown
<1>9. Tape(text) \in Tapes /\ Tape(more) = TapeF[<<Tape(text), c>>]
  BY <1>1, <1>5, <1>6, <1>8
<1>10. Tape(<< >>) = BlankTape
  <2>1. PICK e : e = << >>
    OBVIOUS
  <2>2. e \in Seq(STRING) /\ 1 .. Len(e) = {}
    BY <2>1
  <2>3. PICK r : r = TapeSteps(e)
    OBVIOUS
  <2>4. Tape(e) = r[1 .. Len(e)] /\ Folds(r, Tapes, TapeF, BlankTape, e)
    <3>1. Tape(e) = TapeSteps(e)[1 .. Len(e)] /\ Folds(TapeSteps(e), Tapes, TapeF, BlankTape, e)
      BY <2>2, TapeIsFold
    <3> QED
      BY <2>3, <3>1
  <2>5. Tape(e) = BlankTape
    BY <2>2, <2>4 DEF Folds
  <2> QED
    BY <2>1, <2>5
<1> QED
  BY <1>1, <1>9, <1>10 DEF TapeF
-----------------------------------------------------------------------------
(* Scan lines and columns. *)

LEMMA Monotone ==
  ASSUME NEW p \in Int, NEW q \in Int, NEW s \in Nat, p <= q
  PROVE  p * s <= q * s
<1>1. (q - p) * s >= 0
  OBVIOUS
<1>2. (q - p) * s = q * s - p * s
  OBVIOUS
<1> QED
  BY <1>1, <1>2

\* A number has one quotient and one remainder.
LEMMA Divide ==
  ASSUME NEW x \in Nat, NEW s \in Nat \ {0}
  PROVE  x \div s \in Nat /\ x % s \in 0 .. s - 1 /\ x = (x \div s) * s + (x % s)
<1>1. x \div s \in Nat /\ x % s \in 0 .. s - 1
  OBVIOUS
<1>2. \A q \in Nat, r \in 0 .. s - 1 : q = x \div s /\ r = x % s => x = q * s + r
  <2> SUFFICES ASSUME NEW q \in Nat, NEW r \in 0 .. s - 1, q = x \div s, r = x % s
               PROVE  x = q * s + r
    OBVIOUS
  <2>1. x % s = x - s * (x \div s)
    OBVIOUS
  <2>2. r = x - s * q
    BY <2>1, Zenon
  <2> QED
    BY <2>2
<1> QED
  BY <1>1, <1>2, Zenon

LEMMA Unique ==
  ASSUME NEW s \in Nat \ {0}, NEW q \in Nat, NEW r \in 0 .. s - 1,
         NEW p \in Nat, NEW t \in 0 .. s - 1, q * s + r = p * s + t
  PROVE  q = p /\ r = t
<1>1. \A k, m \in Nat : k < m => k * s + s <= m * s
  <2> SUFFICES ASSUME NEW k \in Nat, NEW m \in Nat, k < m PROVE k * s + s <= m * s
    OBVIOUS
  <2>1. (k + 1) * s <= m * s
    BY Monotone
  <2>2. (k + 1) * s = k * s + s
    OBVIOUS
  <2> QED
    BY <2>1, <2>2
<1>2. q * s \in Nat /\ p * s \in Nat
  OBVIOUS
<1>3. ~ (q < p) /\ ~ (p < q)
  BY <1>1, <1>2
<1> QED
  BY <1>3

\* x is the place r of row q, where rows are s long.
Placed(x, s, q, r) == x \in Nat /\ x \div s = q /\ x % s = r

LEMMA Quotient ==
  ASSUME NEW s \in Nat \ {0}, NEW q \in Nat, NEW r \in 0 .. s - 1, NEW x, x = q * s + r
  PROVE  Placed(x, s, q, r)
<1> USE DEF Placed
<1>1. x \in Nat
  OBVIOUS
<1>2. x \div s \in Nat /\ x % s \in 0 .. s - 1 /\ x = (x \div s) * s + (x % s)
  BY <1>1, Divide
<1> QED
  BY <1>1, <1>2, Unique

\* Where a word is: its scan line and its column.
At(i, y, x) ==
  /\ y \in Nat /\ x \in 0 .. Cols - 1 /\ i \in Nat
  /\ i \div Cols = y /\ i % Cols = x /\ i = y * Cols + x

LEMMA WordAt ==
  ASSUME NEW i \in Nat
  PROVE  \E y, x : At(i, y, x)
<1>1. Cols \in Nat \ {0}
  BY Sizes
<1>2. PICK y, x : y = i \div Cols /\ x = i % Cols
  OBVIOUS
<1>3. i \div Cols \in Nat /\ i % Cols \in 0 .. Cols - 1 /\ i = (i \div Cols) * Cols + (i % Cols)
  BY <1>1, Divide
<1>4. At(i, y, x)
  BY <1>2, <1>3 DEF At
<1> QED
  BY <1>4

LEMMA AtWord ==
  ASSUME NEW y \in Nat, NEW x \in 0 .. Cols - 1, NEW i, i = y * Cols + x
  PROVE  At(i, y, x)
<1>1. Cols \in Nat \ {0}
  BY Sizes
<1>2. Placed(i, Cols, y, x)
  BY <1>1, Quotient
<1> QED
  BY <1>2 DEF At, Placed

LEMMA AtOnce ==
  ASSUME NEW i, NEW y, NEW x, NEW j, NEW z, NEW w, At(i, y, x), At(j, z, w)
  PROVE  i = j <=> y = z /\ x = w
BY DEF At

\* One glyph further down.
LEMMA AtBelow ==
  ASSUME NEW i, NEW y, NEW x, At(i, y, x)
  PROVE  At(i + CharSize * Cols, y + CharSize, x)
<1>1. PICK p, d \in Nat : p = y * Cols /\ d = CharSize * Cols
  BY Sizes DEF At
<1>2. (y + CharSize) * Cols = p + d
  <2>1. (y + CharSize) * Cols = y * Cols + CharSize * Cols
    BY Sizes DEF At
  <2> QED
    BY <1>1, <2>1
<1>3. PICK j : j = i + d
  OBVIOUS
<1>4. PICK z \in Nat : z = y + CharSize
  BY Sizes DEF At
<1>5. j = z * Cols + x
  <2>1. z * Cols = p + d
    BY <1>2, <1>4
  <2>2. i = p + x /\ x \in Int
    BY <1>1, Sizes DEF At
  <2> QED
    BY <1>1, <1>3, <2>1, <2>2
<1>6. At(j, z, x)
  BY <1>5, AtWord DEF At
<1> QED
  BY <1>1, <1>3, <1>4, <1>6

\* The last word of the framebuffer ends its last scan line.
LEMMA WordLine ==
  ASSUME NEW i, NEW y, NEW x, At(i, y, x)
  PROVE  i < Total <=> y < Height
<1>1. PICK p, h \in Nat : p = y * Cols /\ h = Height * Cols
  BY Sizes DEF At
<1>2. i = p + x /\ x \in 0 .. Cols - 1 /\ Cols \in Nat /\ Cols >= 1
  BY <1>1, Sizes DEF At
<1>3. CASE y < Height
  <2>1. (y + 1) * Cols <= Height * Cols
    BY <1>3, Sizes, Monotone DEF At
  <2>2. (y + 1) * Cols = p + Cols
    <3>1. (y + 1) * Cols = y * Cols + Cols
      BY Sizes DEF At
    <3> QED
      BY <1>1, <3>1
  <2> QED
    BY <1>1, <1>2, <1>3, <2>1, <2>2 DEF Total
<1>4. CASE ~ y < Height
  <2>1. Height * Cols <= y * Cols
    BY <1>4, Sizes, Monotone DEF At
  <2> QED
    BY <1>1, <1>2, <1>4, <2>1 DEF Total
<1> QED
  BY <1>3, <1>4

ScrolledSoFar(scr, n) ==
  \A i \in Words : ScrollTo(scr, n)[i] = IF i \div Cols < n THEN PixelAt(scr, i + CharSize * Cols) ELSE scr[i]

\* What a scroll has done by scan line n: it reads what it has not written yet.
LEMMA ScrolledUpTo ==
  ASSUME NEW scr \in Screens, NEW n \in Nat
  PROVE  ScrolledSoFar(scr, n)
<1> DEFINE T == {k \in Nat : ScrolledSoFar(scr, k)}
<1>1. 0 \in T
  <2>1. \A i \in Words : i \div Cols \in Nat
    BY TotalType, Sizes
  <2>2. ScrollTo(scr, 0) = scr
    BY ScrollSoFar
  <2> QED
    BY <2>1, <2>2 DEF ScrolledSoFar
<1>2. ASSUME NEW k \in Nat, k \in T PROVE k + 1 \in T
  <2>1. PICK so : so = ScrollTo(scr, k)
    OBVIOUS
  <2>2. PICK m : m = k + 1 /\ m \in Nat
    OBVIOUS
  <2>3. so \in Screens /\ ScrollTo(scr, m) = ScrolledLine(so, k)
    BY <2>1, <2>2, ScrollSoFar
  <2>4. \A i \in Words : so[i] = IF i \div Cols < k THEN PixelAt(scr, i + CharSize * Cols) ELSE scr[i]
    BY <1>2, <2>1 DEF ScrolledSoFar
  <2>5. ASSUME NEW i \in Words
        PROVE  ScrolledLine(so, k)[i] = IF i \div Cols < m THEN PixelAt(scr, i + CharSize * Cols) ELSE scr[i]
    <3>1. PICK y, x : At(i, y, x)
      BY TotalType, WordAt
    <3>2. PICK j : j = i + CharSize * Cols
      OBVIOUS
    <3>3. At(j, y + CharSize, x)
      BY <3>1, <3>2, AtBelow
    <3>4. ScrolledLine(so, k)[i] = IF y = k THEN PixelAt(so, j) ELSE so[i]
      BY <3>1, <3>2 DEF ScrolledLine, At
    <3>5. so[i] = IF y < k THEN PixelAt(scr, j) ELSE scr[i]
      BY <2>4, <3>1, <3>2 DEF At
    <3>6. y = k => PixelAt(so, j) = PixelAt(scr, j)
      <4> SUFFICES ASSUME y = k PROVE PixelAt(so, j) = PixelAt(scr, j)
        OBVIOUS
      <4>1. ASSUME j < Total PROVE so[j] = scr[j]
        <5>1. j \in Words
          BY <3>3, <4>1, TotalType DEF At
        <5>2. j \div Cols = k + CharSize
          BY <3>3 DEF At
        <5>3. ~ k + CharSize < k
          BY Sizes
        <5> QED
          BY <2>4, <5>1, <5>2, <5>3
      <4> QED
        BY <4>1 DEF PixelAt
    <3>7. y \in Nat /\ i \div Cols = y
      BY <3>1 DEF At
    <3>8. CASE y = k
      <4>1. y < m
        BY <2>2, <3>8
      <4> QED
        BY <3>2, <3>4, <3>6, <3>7, <3>8, <4>1
    <3>9. CASE y < k
      <4>1. y < m /\ y # k
        BY <2>2, <3>7, <3>9
      <4> QED
        BY <3>2, <3>4, <3>5, <3>7, <3>9, <4>1
    <3>10. CASE k < y
      <4>1. ~ y < m /\ y # k /\ ~ y < k
        BY <2>2, <3>7, <3>10
      <4> QED
        BY <3>2, <3>4, <3>5, <3>7, <4>1
    <3> QED
      BY <3>7, <3>8, <3>9, <3>10
  <2>6. ScrolledSoFar(scr, m)
    BY <2>3, <2>5 DEF ScrolledSoFar
  <2> QED
    BY <2>2, <2>6
<1> QED
  <2> HIDE DEF T
  <2>1. n \in T
    BY <1>1, <1>2, SetInduction
  <2> QED
    BY <2>1 DEF T

DrawnSoFar(scr, c, col, row, n) ==
  \A i \in Words : DrawTo(scr, c, col, row, n)[i] =
     IF i % Cols = col /\ row * CharSize <= i \div Cols /\ i \div Cols < row * CharSize + n
       THEN <<c, i \div Cols - row * CharSize>> ELSE scr[i]

\* The glyph of a cell covers its column of CharSize scan lines.
LEMMA DrawnUpTo ==
  ASSUME NEW scr \in Screens, NEW c \in STRING, NEW col \in 0 .. Cols - 1, NEW row \in Nat, NEW n \in Nat
  PROVE  DrawnSoFar(scr, c, col, row, n)
<1> DEFINE T == {k \in Nat : DrawnSoFar(scr, c, col, row, k)}
<1>0. PICK top \in Nat : top = row * CharSize
  BY Sizes
<1>t. col \in Int /\ row \in Int
  BY Sizes
<1>1. 0 \in T
  <2>1. \A i \in Words : i \div Cols \in Nat
    BY TotalType, Sizes
  <2>2. DrawTo(scr, c, col, row, 0) = scr
    BY <1>t, DrawSoFar DEF DrawFacts
  <2>3. \A i \in Words : ~ (top <= i \div Cols /\ i \div Cols < top + 0)
    BY <2>1
  <2> QED
    BY <1>0, <2>2, <2>3 DEF DrawnSoFar
<1>2. ASSUME NEW k \in Nat, k \in T PROVE k + 1 \in T
  <2>1. PICK so : so = DrawTo(scr, c, col, row, k)
    OBVIOUS
  <2>2. PICK m : m = k + 1 /\ m \in Nat
    OBVIOUS
  <2>3. DrawTo(scr, c, col, row, m) = DrawnLine(so, c, col, row, k)
    <3>0. DrawFacts(scr, c, col, row, k)
      BY <1>t, DrawSoFar
    <3>1. DrawTo(scr, c, col, row, k + 1) = DrawnLine(DrawTo(scr, c, col, row, k), c, col, row, k)
      BY <3>0 DEF DrawFacts
    <3> QED
      BY <2>1, <2>2, <3>1
  <2>4. \A i \in Words : so[i] = IF i % Cols = col /\ top <= i \div Cols /\ i \div Cols < top + k
                                   THEN <<c, i \div Cols - top>> ELSE scr[i]
    BY <1>0, <1>2, <2>1 DEF DrawnSoFar
  <2>5. ASSUME NEW i \in Words
        PROVE  DrawnLine(so, c, col, row, k)[i] =
                 IF i % Cols = col /\ top <= i \div Cols /\ i \div Cols < top + m
                   THEN <<c, i \div Cols - top>> ELSE scr[i]
    <3>1. PICK y, x : At(i, y, x)
      BY TotalType, WordAt
    <3>2. PICK z \in Nat : z = top + k
      OBVIOUS
    <3>3. PICK j : j = z * Cols + col
      OBVIOUS
    <3>4. At(j, z, col)
      BY <3>3, AtWord
    <3>5. DrawnLine(so, c, col, row, k)[i] = IF i = j THEN <<c, k>> ELSE so[i]
      <4>1. j = (row * CharSize + k) * Cols + col
        BY <1>0, <3>2, <3>3, Zenon
      <4> QED
        BY <4>1 DEF DrawnLine
    <3>6. i = j <=> y = z /\ x = col
      BY <3>1, <3>4, AtOnce
    <3>7. y \in Nat /\ i \div Cols = y /\ i % Cols = x
      BY <3>1 DEF At
    <3>8. so[i] = IF x = col /\ top <= y /\ y < top + k THEN <<c, y - top>> ELSE scr[i]
      BY <2>4, <3>7
    <3>9. CASE y = z /\ x = col
      <4>1. top <= y /\ y < top + m /\ y - top = k
        BY <2>2, <3>2, <3>9
      <4> QED
        BY <3>5, <3>6, <3>7, <3>9, <4>1
    <3>10. CASE ~ (y = z /\ x = col)
      <4>1. x = col => (y < top + k <=> y < top + m)
        BY <2>2, <3>2, <3>7, <3>10
      <4> QED
        BY <3>5, <3>6, <3>7, <3>8, <3>10, <4>1
    <3> QED
      BY <3>9, <3>10
  <2>6. DrawnSoFar(scr, c, col, row, m)
    BY <1>0, <2>3, <2>5 DEF DrawnSoFar
  <2> QED
    BY <2>2, <2>6
<1> QED
  <2> HIDE DEF T
  <2>1. n \in T
    BY <1>1, <1>2, SetInduction
  <2> QED
    BY <2>1 DEF T
-----------------------------------------------------------------------------
(* A screen and a tape. *)

Like(w, t, y, x) ==
  \/ w = Visible(t, y, x)
  \/ Stray(y, x) /\ Visible(t, y, x) = Blank /\ w = Beyond

Pictured(scr, t) == \A i \in Words : Like(scr[i], t, i \div Cols, i % Cols)

\* Nothing stands below the last row reached.
Bounded(t) == t.bottom >= Rows - 1 /\ \A p \in DOMAIN t.at : p < (t.bottom + 1) * Cols

\* u is t one row further up the screen.
FedOne(t, u) == u.bottom = t.bottom + 1 /\ u.at = t.at

LEMMA GlyphLine ==
  ASSUME NEW y \in Nat
  PROVE  \E d \in Nat, r \in 0 .. CharSize - 1 :
           /\ y = d * CharSize + r /\ y \div CharSize = d /\ y % CharSize = r
           /\ Placed(y + CharSize, CharSize, d + 1, r)
<1>1. CharSize \in Nat \ {0}
  BY Sizes
<1>2. PICK d \in Nat, r \in 0 .. CharSize - 1 : y = d * CharSize + r /\ d = y \div CharSize /\ r = y % CharSize
  <2>1. y \div CharSize \in Nat /\ y % CharSize \in 0 .. CharSize - 1 /\ y = (y \div CharSize) * CharSize + (y % CharSize)
    BY <1>1, Divide
  <2> QED
    BY <2>1
<1>3. PICK e \in Nat : e = d + 1
  OBVIOUS
<1>4. e * CharSize = d * CharSize + CharSize
  BY <1>1, <1>3
<1>5. PICK z : z = y + CharSize
  OBVIOUS
<1>6. z = e * CharSize + r
  <2>1. PICK p, q \in Nat : p = d * CharSize /\ q = e * CharSize
    BY <1>1
  <2>2. q = p + CharSize /\ y = p + r
    BY <1>2, <1>4, <2>1
  <2>3. z = q + r
    BY <1>1, <1>5, <2>1, <2>2
  <2> QED
    BY <2>1, <2>3
<1>7. Placed(z, CharSize, e, r)
  BY <1>1, <1>6, Quotient
<1> QED
  BY <1>2, <1>3, <1>5, <1>7

\* Below the last row of cells there is less than a line of them.
LEMMA LastRow ==
  ASSUME NEW y \in Nat, Height <= y + CharSize
  PROVE  y \div CharSize + 1 >= Rows
<1>1. PICK d \in Nat, r \in 0 .. CharSize - 1 : y = d * CharSize + r /\ y \div CharSize = d
  BY GlyphLine
<1>2. SUFFICES ASSUME d + 1 < Rows PROVE FALSE
  BY <1>1, Sizes
<1>3. (d + 2) * CharSize <= Rows * CharSize
  BY <1>2, Sizes, Monotone
<1>4. (d + 2) * CharSize = d * CharSize + CharSize + CharSize
  BY Sizes
<1>5. PICK p, q \in Nat : p = d * CharSize /\ q = Rows * CharSize
  BY Sizes
<1> QED
  BY <1>1, <1>3, <1>4, <1>5, Sizes

LEMMA StrayBelow ==
  ASSUME NEW y \in Nat, NEW x, y + CharSize <= Height
  PROVE  Stray(y, x) <=> Stray(y + CharSize, x)
<1>1. PICK h \in Nat : h = Height - (y + CharSize)
  BY Sizes
<1>2. PICK k \in Nat : k = h + CharSize
  BY Sizes
<1>3. k = Height - y
  BY <1>1, <1>2, Sizes
<1>4. k % CharSize = h % CharSize
  <2>1. PICK d \in Nat, r \in 0 .. CharSize - 1 : h % CharSize = r /\ Placed(h + CharSize, CharSize, d + 1, r)
    BY GlyphLine
  <2>2. (h + CharSize) % CharSize = r
    BY <2>1 DEF Placed
  <2> QED
    BY <1>2, <2>1, <2>2
<1> QED
  BY <1>1, <1>3, <1>4 DEF Stray

LEMMA VisibleBelow ==
  ASSUME NEW t \in Tapes, NEW u, FedOne(t, u), NEW y \in Nat, NEW x \in Nat, Bounded(t)
  PROVE  Visible(u, y, x) = IF y \div CharSize + 1 < Rows THEN Visible(t, y + CharSize, x) ELSE Blank
<1>1. PICK d \in Nat, r \in 0 .. CharSize - 1 : /\ y \div CharSize = d /\ y % CharSize = r
                                               /\ Placed(y + CharSize, CharSize, d + 1, r)
  BY GlyphLine
<1>2. (y + CharSize) \div CharSize = d + 1 /\ (y + CharSize) % CharSize = r
  BY <1>1 DEF Placed
<1>3. t.bottom \in Nat /\ u.bottom = t.bottom + 1 /\ u.at = t.at
  BY DEF Tapes, FedOne
<1>4. PICK k \in Int : k = u.bottom - (Rows - 1) + d
  BY <1>3, Sizes
<1>5. k = t.bottom - (Rows - 1) + (d + 1)
  BY <1>3, <1>4, Sizes
<1>6. PICK p : p = k * Cols + x
  OBVIOUS
<1>7. Visible(u, y, x) = IF d < Rows /\ p \in DOMAIN t.at THEN <<t.at[p], r>> ELSE Blank
  <2>1. p = (u.bottom - (Rows - 1) + y \div CharSize) * Cols + x
    BY <1>1, <1>4, <1>6, Zenon
  <2> QED
    BY <1>1, <1>3, <2>1, Zenon DEF Visible
<1>8. Visible(t, y + CharSize, x) = IF d + 1 < Rows /\ p \in DOMAIN t.at THEN <<t.at[p], r>> ELSE Blank
  <2>1. p = (t.bottom - (Rows - 1) + ((y + CharSize) \div CharSize)) * Cols + x
    BY <1>2, <1>5, <1>6, Zenon
  <2>2. PICK z : z = y + CharSize
    OBVIOUS
  <2>3. Visible(t, z, x) = IF d + 1 < Rows /\ p \in DOMAIN t.at THEN <<t.at[p], r>> ELSE Blank
    <3>1. z \div CharSize = d + 1 /\ z % CharSize = r /\ p = (t.bottom - (Rows - 1) + (z \div CharSize)) * Cols + x
      BY <1>2, <2>1, <2>2
    <3> QED
      BY <3>1, Zenon DEF Visible
  <2> QED
    BY <2>2, <2>3
<1>9. CASE d + 1 < Rows
  <2>1. d < Rows
    BY <1>9, Sizes
  <2> QED
    BY <1>1, <1>7, <1>8, <1>9, <2>1
<1>10. CASE ~ d + 1 < Rows
  <2>1. ~ (d < Rows /\ p \in DOMAIN t.at)
    <3> SUFFICES ASSUME d < Rows, p \in DOMAIN t.at PROVE FALSE
      OBVIOUS
    <3>1. k = t.bottom + 1
      BY <1>3, <1>5, <1>10, Sizes
    <3>2. p < (t.bottom + 1) * Cols
      BY DEF Bounded
    <3>3. PICK q \in Int : q = k * Cols
      BY Sizes
    <3>4. p < q
      BY <3>1, <3>2, <3>3, Zenon
    <3> QED
      BY <1>6, <3>3, <3>4
  <2> QED
    BY <1>1, <1>7, <1>10, <2>1
<1> QED
  BY <1>9, <1>10

\* Scrolling shows the tape one row further.
LEMMA ScrollPictured ==
  ASSUME NEW scr \in Screens, NEW t \in Tapes, NEW u, FedOne(t, u), Bounded(t), Pictured(scr, t)
  PROVE  Pictured(Scrolled(scr), u)
<1>1. SUFFICES ASSUME NEW i \in Words PROVE Like(Scrolled(scr)[i], u, i \div Cols, i % Cols)
  BY DEF Pictured
<1>2. PICK y, x : At(i, y, x)
  BY TotalType, WordAt
<1>3. y \in Nat /\ x \in Nat /\ i \div Cols = y /\ i % Cols = x /\ i < Total
  BY <1>2, Sizes, TotalType DEF At
<1>4. PICK j : j = i + CharSize * Cols
  OBVIOUS
<1>5. PICK z : z = y + CharSize /\ z \in Nat
  BY <1>3, Sizes
<1>6. At(j, z, x)
  BY <1>2, <1>4, <1>5, AtBelow
<1>7. j \in Nat /\ j \div Cols = z /\ j % Cols = x
  BY <1>6 DEF At
<1>8. y < Height
  BY <1>2, <1>3, WordLine
<1>9. Scrolled(scr)[i] = PixelAt(scr, j)
  <2>1. ScrolledSoFar(scr, Height)
    BY Sizes, ScrolledUpTo
  <2> QED
    BY <1>3, <1>4, <1>8, <2>1 DEF ScrolledSoFar, Scrolled, ScrollTo
<1>10. Visible(u, y, x) = IF y \div CharSize + 1 < Rows THEN Visible(t, z, x) ELSE Blank
  BY <1>3, <1>5, VisibleBelow
<1>11. CASE j < Total
  <2>1. j \in Words
    BY <1>7, <1>11, TotalType
  <2>2. Like(scr[j], t, z, x)
    BY <1>7, <2>1 DEF Pictured
  <2>3. PixelAt(scr, j) = scr[j]
    BY <1>11 DEF PixelAt
  <2>4. z < Height
    BY <1>6, <1>11, WordLine
  <2>5. Stray(y, x) <=> Stray(z, x)
    BY <1>3, <1>5, <2>4, Sizes, StrayBelow
  <2>6. Visible(u, y, x) = Visible(t, z, x)
    <3>1. CASE y \div CharSize + 1 < Rows
      BY <1>10, <3>1
    <3>2. CASE ~ y \div CharSize + 1 < Rows
      <4>1. z \div CharSize = y \div CharSize + 1
        BY <1>3, <1>5, GlyphLine DEF Placed
      <4>2. Visible(t, z, x) = Blank
        BY <3>2, <4>1 DEF Visible
      <4> QED
        BY <1>10, <3>2, <4>2
    <3> QED
      BY <3>1, <3>2
  <2> QED
    BY <1>3, <1>9, <2>2, <2>3, <2>5, <2>6 DEF Like
<1>12. CASE ~ j < Total
  <2>1. ~ z < Height
    BY <1>6, <1>12, WordLine
  <2>2. Visible(u, y, x) = Blank
    <3>1. Height <= y + CharSize
      BY <1>5, <2>1, Sizes
    <3>2. y \div CharSize + 1 >= Rows
      BY <1>3, <3>1, LastRow
    <3>3. y \div CharSize \in Int
      BY <1>3, Sizes
    <3>4. ~ y \div CharSize + 1 < Rows
      BY <3>2, <3>3, Sizes
    <3> QED
      BY <1>10, <3>4
  <2>3. CASE j = Total
    <3>1. At(j, Height, 0)
      BY <2>3, Sizes, AtWord DEF Total
    <3>2. z = Height /\ x = 0
      BY <1>6, <3>1 DEF At
    <3>3. Height - y = CharSize
      BY <1>3, <1>5, <3>2, Sizes
    <3>4. CharSize % CharSize = 0
      BY Sizes
    <3>5. Stray(y, x)
      BY <3>2, <3>3, <3>4 DEF Stray
    <3>6. PixelAt(scr, j) = Beyond
      BY <1>12, <2>3 DEF PixelAt
    <3> QED
      BY <1>3, <1>9, <2>2, <3>5, <3>6 DEF Like
  <2>4. CASE j # Total
    <3>1. PixelAt(scr, j) = Blank
      BY <1>12, <2>4 DEF PixelAt
    <3> QED
      BY <1>3, <1>9, <2>2, <3>1 DEF Like
  <2> QED
    BY <2>3, <2>4
<1> QED
  BY <1>11, <1>12

\* u is t with c at the place of the cell.
InkedAt(t, u, c, col, row) ==
  /\ u.bottom = t.bottom
  /\ u.at = Inked(t.at, (t.bottom - (Rows - 1) + row) * Cols + col, c)

\* Drawing a glyph in a cell shows the character at its place on the tape.
LEMMA DrawPictured ==
  ASSUME NEW scr \in Screens, NEW t \in Tapes, NEW c \in STRING,
         NEW col \in 0 .. Cols - 1, NEW row \in 0 .. Rows - 1, NEW u, InkedAt(t, u, c, col, row),
         Bounded(t), Pictured(scr, t)
  PROVE  Pictured(Drawn(scr, c, col, row), u) /\ Bounded(u)
<1>1. t.bottom \in Nat /\ t.bottom >= Rows - 1 /\ u.bottom = t.bottom
  BY DEF Tapes, Bounded, InkedAt
<1>2. PICK up1 \in Nat : up1 = t.bottom - (Rows - 1)
  BY <1>1, Sizes
<1>3. PICK k \in Nat : k = up1 + row
  BY Sizes
<1>4. PICK pos : pos = k * Cols + col
  OBVIOUS
<1>5. At(pos, k, col)
  BY <1>4, AtWord
<1>6. u.at = Inked(t.at, pos, c)
  <2>1. pos = (t.bottom - (Rows - 1) + row) * Cols + col
    BY <1>2, <1>3, <1>4, Zenon
  <2> QED
    BY <2>1, Zenon DEF InkedAt
<1>7. DOMAIN u.at = DOMAIN t.at \cup {pos} /\ u.at[pos] = c /\ \A p \in DOMAIN t.at : p # pos => u.at[p] = t.at[p]
  BY <1>6 DEF Inked
<1>8. Bounded(u)
  <2>1. pos < (t.bottom + 1) * Cols
    <3>1. k + 1 <= t.bottom + 1
      BY <1>1, <1>2, <1>3, Sizes
    <3>2. PICK m \in Nat : m = t.bottom + 1
      BY <1>1
    <3>3. (k + 1) * Cols <= m * Cols
      BY <3>1, <3>2, Sizes, Monotone
    <3>4. (k + 1) * Cols = k * Cols + Cols
      BY Sizes
    <3>5. PICK q, r \in Nat : q = k * Cols /\ r = m * Cols
      BY Sizes
    <3>6. pos < r
      BY <1>4, <3>3, <3>4, <3>5, Sizes
    <3> QED
      BY <3>2, <3>5, <3>6, Zenon
  <2> QED
    BY <1>1, <1>7, <2>1 DEF Bounded
<1>9. ASSUME NEW i \in Words PROVE Like(Drawn(scr, c, col, row)[i], u, i \div Cols, i % Cols)
  <2>1. PICK y, x : At(i, y, x)
    BY TotalType, WordAt
  <2>2. y \in Nat /\ x \in 0 .. Cols - 1 /\ i \div Cols = y /\ i % Cols = x
    BY <2>1 DEF At
  <2>3. PICK d \in Nat, r \in 0 .. CharSize - 1 :
          y = d * CharSize + r /\ y \div CharSize = d /\ y % CharSize = r
    BY <2>2, GlyphLine
  <2>4. PICK top \in Nat : top = row * CharSize
    BY Sizes
  <2>5. Drawn(scr, c, col, row)[i] =
          IF x = col /\ top <= y /\ y < top + CharSize THEN <<c, y - top>> ELSE scr[i]
    <3>1. DrawnSoFar(scr, c, col, row, CharSize)
      <4>1. row \in Nat /\ CharSize \in Nat
        BY Sizes
      <4> QED
        BY <4>1, DrawnUpTo
    <3>2. Drawn(scr, c, col, row) = DrawTo(scr, c, col, row, CharSize)
      BY DrawnAll
    <3> QED
      BY <2>2, <2>4, <3>1, <3>2 DEF DrawnSoFar
  <2>6. PICK e \in Nat : e = up1 + d
    OBVIOUS
  <2>7. PICK p : p = e * Cols + x
    OBVIOUS
  <2>8. At(p, e, x)
    BY <2>2, <2>7, AtWord
  <2>9. p = pos <=> e = k /\ x = col
    BY <1>5, <2>8, AtOnce
  <2>10. p = (t.bottom - (Rows - 1) + y \div CharSize) * Cols + x
    BY <1>2, <2>3, <2>6, <2>7, Zenon
  <2>11. Visible(t, y, x) = IF d < Rows /\ p \in DOMAIN t.at THEN <<t.at[p], r>> ELSE Blank
    BY <2>3, <2>10, Zenon DEF Visible
  <2>12. Visible(u, y, x) = IF d < Rows /\ p \in DOMAIN u.at THEN <<u.at[p], r>> ELSE Blank
    BY <1>1, <2>3, <2>10, Zenon DEF Visible
  <2>13. CASE x = col /\ d = row
    <3>1. top <= y /\ y < top + CharSize /\ y - top = r
      BY <2>3, <2>4, <2>13, Sizes
    <3>2. Drawn(scr, c, col, row)[i] = <<c, r>>
      BY <2>5, <2>13, <3>1
    <3>3. p = pos
      BY <1>3, <2>6, <2>9, <2>13
    <3>4. d < Rows
      BY <2>13, Sizes
    <3>5. Visible(u, y, x) = <<c, r>>
      BY <1>7, <2>12, <3>3, <3>4
    <3> QED
      BY <2>2, <3>2, <3>5 DEF Like
  <2>14. CASE ~ (x = col /\ d = row)
    <3>1. x = col => ~ (top <= y /\ y < top + CharSize)
      <4> SUFFICES ASSUME d # row, top <= y, y < top + CharSize PROVE FALSE
        BY <2>14
      <4>1. PICK v \in 0 .. CharSize - 1 : v = y - top
        <5>1. y - top \in 0 .. CharSize - 1
          BY <2>2, Sizes
        <5> QED
          BY <5>1
      <4>2. y = row * CharSize + v
        BY <2>2, <2>4, <4>1
      <4>3. CharSize \in Nat \ {0} /\ row \in Nat
        BY Sizes
      <4>4. d * CharSize + r = row * CharSize + v
        BY <2>3, <4>2
      <4> QED
        BY <4>3, <4>4, Unique
    <3>2. Drawn(scr, c, col, row)[i] = scr[i]
      BY <2>5, <3>1
    <3>3. p # pos
      BY <1>3, <2>6, <2>9, <2>14
    <3>4. Visible(u, y, x) = Visible(t, y, x)
      BY <1>7, <2>11, <2>12, <3>3
    <3>5. Like(scr[i], t, y, x)
      BY <2>2 DEF Pictured
    <3> QED
      BY <2>2, <3>2, <3>4, <3>5 DEF Like
  <2> QED
    BY <2>13, <2>14
<1> QED
  BY <1>8, <1>9 DEF Pictured

-----------------------------------------------------------------------------
(* A console and a tape: what a character does to both. *)

Wrapped(con) ==
  IF AtEnd(con.cell) THEN [cell |-> (Rows - 1) * Cols, screen |-> Scrolled(con.screen)] ELSE con

MovedTo(con, p) == [cell |-> p, screen |-> con.screen]

Advanced(con, c) ==
  [cell |-> con.cell + 1, screen |-> Drawn(con.screen, c, con.cell % Cols, con.cell \div Cols)]

LEMMA WriteCharIs ==
  ASSUME NEW con \in Consoles, NEW c
  PROVE  /\ Special(c) => WriteChar(con, c) = Wrapped(MovedTo(con, Moved(con.cell, c)))
         /\ ~ Special(c) => WriteChar(con, c) = Advanced(Wrapped(con), c)
<1>1. CASE Special(c)
  BY <1>1 DEF WriteChar, Wrapped, MovedTo
<1>2. CASE ~ Special(c)
  <2>1. Moved(con.cell, c) = con.cell
    BY <1>2 DEF Moved, Special
  <2> QED
    BY <1>2, <2>1 DEF WriteChar, Wrapped, Advanced
<1> QED
  BY <1>1, <1>2

LEMMA WrappedType ==
  ASSUME NEW con \in Consoles
  PROVE  Wrapped(con) \in Consoles
<1>1. con.screen \in Screens /\ (Rows - 1) * Cols \in Int
  BY Sizes DEF Consoles
<1>2. Scrolled(con.screen) \in Screens
  BY <1>1, Sizes, ScrollSoFar DEF Scrolled, ScrollTo
<1> QED
  BY <1>1, <1>2 DEF Wrapped, Consoles

\* The cursor and the screen are those of the tape.
Rep(con, t) ==
  /\ con.cell \in 0 .. Full
  /\ t.pos = con.cell + (t.bottom - (Rows - 1)) * Cols
  /\ Bounded(t)
  /\ Pictured(con.screen, t)

\* The cursor has left the screen.
Lost(con, t) == t.past /\ con.cell >= Full + Cols

Good(con, t) == (~ t.past /\ Rep(con, t)) \/ Lost(con, t)

\* The cell and the place on the tape are in the same column.
Cursor(con, t, r, x) ==
  /\ r \in 0 .. Rows /\ x \in 0 .. Cols - 1
  /\ At(con.cell, r, x) /\ At(t.pos, t.bottom - (Rows - 1) + r, x)
  /\ con.cell = Full <=> r = Rows
  /\ r = Rows => x = 0

LEMMA CursorIs ==
  ASSUME NEW con, NEW t \in Tapes, Rep(con, t)
  PROVE  \E r, x : Cursor(con, t, r, x)
<1>1. PICK full \in Nat : full = Full /\ full = Rows * Cols
  BY Sizes DEF Full
<1>2. con.cell \in Nat /\ con.cell <= full
  BY <1>1 DEF Rep
<1>3. PICK r, x : At(con.cell, r, x)
  BY <1>2, WordAt
<1>4. r \in Nat /\ x \in 0 .. Cols - 1 /\ con.cell = r * Cols + x
  BY <1>3 DEF At
<1>5. PICK p \in Nat : p = r * Cols
  BY <1>4, Sizes
<1>6. con.cell = p + x
  BY <1>4, <1>5
<1>7. r <= Rows
  <2> SUFFICES ASSUME Rows + 1 <= r PROVE FALSE
    BY <1>4, Sizes
  <2>1. (Rows + 1) * Cols <= r * Cols
    BY <1>4, Sizes, Monotone
  <2>2. (Rows + 1) * Cols = Rows * Cols + Cols
    BY Sizes
  <2> QED
    BY <1>1, <1>2, <1>4, <1>5, <1>6, <2>1, <2>2, Sizes
<1>8. At(full, Rows, 0)
  <2>1. full = Rows * Cols + 0
    BY <1>1
  <2> QED
    BY <2>1, Sizes, AtWord
<1>9. con.cell = full <=> r = Rows /\ x = 0
  BY <1>3, <1>8, AtOnce
<1>10. r = Rows => x = 0
  BY <1>1, <1>2, <1>4, <1>5, <1>6
<1>11. At(t.pos, t.bottom - (Rows - 1) + r, x)
  <2>1. t.bottom \in Nat /\ t.bottom >= Rows - 1
    BY DEF Tapes, Rep, Bounded
  <2>2. PICK k \in Nat : k = t.bottom - (Rows - 1)
    BY <2>1, Sizes
  <2>3. PICK m \in Nat : m = k + r
    BY <1>4
  <2>4. t.pos = m * Cols + x
    <3>1. m * Cols = k * Cols + r * Cols
      BY <1>4, <2>3, Sizes
    <3>2. PICK q \in Nat : q = k * Cols
      BY Sizes
    <3>3. t.pos = con.cell + q
      BY <2>2, <3>2 DEF Rep
    <3>4. m * Cols = q + p
      BY <1>5, <3>1, <3>2
    <3> QED
      BY <1>4, <1>5, <1>6, <3>2, <3>3, <3>4, Sizes
  <2>5. At(t.pos, m, x)
    BY <1>4, <2>4, AtWord
  <2> QED
    BY <2>2, <2>3, <2>5
<1>12. Cursor(con, t, r, x)
  BY <1>1, <1>3, <1>4, <1>7, <1>9, <1>10, <1>11, Sizes DEF Cursor
<1> QED
  BY <1>12

LEMMA SamePicture ==
  ASSUME NEW scr, NEW t, NEW u, Pictured(scr, t), u.bottom = t.bottom /\ u.at = t.at
  PROVE  Pictured(scr, u)
<1>1. \A y, x : Visible(u, y, x) = Visible(t, y, x)
  BY DEF Visible
<1> QED
  BY <1>1 DEF Pictured, Like

\* u is t after a row that was reached has come into view.
SettledAs(t, u) == u.pos = t.pos /\ u.at = t.at /\ u.bottom = Later(t.bottom, t.pos \div Cols)

LEMMA WrapFollows ==
  ASSUME NEW con \in Consoles, NEW t \in Tapes, NEW u \in Tapes, Rep(con, t), SettledAs(t, u)
  PROVE  Rep(Wrapped(con), u) /\ Wrapped(con).cell < Full
<1>1. PICK r, x : Cursor(con, t, r, x)
  BY CursorIs
<1>2. r \in 0 .. Rows /\ (con.cell = Full <=> r = Rows) /\ t.pos \div Cols = t.bottom - (Rows - 1) + r
  BY <1>1 DEF Cursor, At
<1>3. t.bottom \in Nat /\ t.bottom >= Rows - 1 /\ t.pos \in Nat
  BY DEF Tapes, Rep, Bounded
<1>4. CASE con.cell = Full
  <2>1. u.bottom = t.bottom + 1
    <3>1. t.pos \div Cols = t.bottom + 1
      BY <1>2, <1>3, <1>4, Sizes
    <3> QED
      BY <1>3, <3>1 DEF SettledAs, Later
  <2>2. FedOne(t, u)
    BY <2>1 DEF FedOne, SettledAs
  <2>3. Wrapped(con).cell = (Rows - 1) * Cols /\ Wrapped(con).screen = Scrolled(con.screen)
    BY <1>4 DEF Wrapped, AtEnd
  <2>4. Pictured(Scrolled(con.screen), u)
    <3>1. con.screen \in Screens /\ Bounded(t) /\ Pictured(con.screen, t)
      BY DEF Consoles, Rep
    <3> QED
      BY <2>2, <3>1, ScrollPictured
  <2>5. Bounded(u)
    <3>1. ASSUME NEW p \in DOMAIN t.at PROVE p < (u.bottom + 1) * Cols
      <4>1. PICK m \in Nat : m = t.bottom + 1
        BY <1>3
      <4>2. (m + 1) * Cols = m * Cols + Cols
        BY <4>1, Sizes
      <4>3. PICK q \in Nat : q = m * Cols
        BY <4>1, Sizes
      <4>4. p < q
        BY <4>1, <4>3 DEF Rep, Bounded
      <4>5. p \in Nat
        <5>1. t.at \in Inks
          BY DEF Tapes
        <5> QED
          BY <5>1 DEF Inks
      <4>6. p < q + Cols
        BY <4>3, <4>4, <4>5, Sizes
      <4>7. u.bottom + 1 = m + 1
        BY <2>1, <4>1
      <4> QED
        BY <4>2, <4>3, <4>6, <4>7, Zenon
    <3>2. u.bottom >= Rows - 1
      BY <1>3, <2>1, Sizes
    <3> QED
      BY <3>1, <3>2 DEF Bounded, SettledAs
  <2>6. PICK full \in Nat : full = Full /\ full = Rows * Cols
    BY Sizes DEF Full
  <2>7. PICK l \in Nat : l = (Rows - 1) * Cols /\ full = l + Cols
    <3>1. (Rows - 1) * Cols \in Nat
      BY Sizes
    <3>2. Rows * Cols = (Rows - 1) * Cols + Cols
      BY Sizes
    <3> QED
      BY <2>6, <3>1, <3>2
  <2>8. u.pos = l + (u.bottom - (Rows - 1)) * Cols
    <3>1. PICK k \in Nat : k = t.bottom - (Rows - 1)
      BY <1>3, Sizes
    <3>2. (k + 1) * Cols = k * Cols + Cols
      BY <3>1, Sizes
    <3>3. PICK q \in Nat : q = k * Cols
      BY <3>1, Sizes
    <3>4. t.pos = full + q
      BY <1>4, <2>6, <3>1, <3>3 DEF Rep
    <3>5. u.bottom - (Rows - 1) = k + 1
      BY <1>3, <2>1, <3>1, Sizes
    <3>6. t.pos = l + (q + Cols)
      BY <2>7, <3>3, <3>4, Sizes
    <3>7. u.pos = t.pos
      BY DEF SettledAs
    <3> QED
      BY <3>2, <3>3, <3>5, <3>6, <3>7, Zenon
  <2>9. l \in 0 .. Full /\ l < Full
    BY <2>6, <2>7, Sizes
  <2> QED
    BY <2>3, <2>4, <2>5, <2>7, <2>8, <2>9 DEF Rep
<1>5. CASE con.cell # Full
  <2>1. Wrapped(con) = con
    BY <1>5 DEF Wrapped, AtEnd
  <2>2. u.bottom = t.bottom
    <3>1. ~ t.bottom < t.pos \div Cols
      BY <1>2, <1>3, <1>5, Sizes
    <3> QED
      BY <3>1 DEF SettledAs, Later
  <2>3. u.pos = t.pos /\ u.at = t.at
    BY DEF SettledAs
  <2>4. Pictured(con.screen, u)
    BY <2>2, <2>3, SamePicture DEF Rep
  <2>5. con.cell \in 0 .. Full /\ Full \in Nat
    BY TotalType DEF Rep
  <2>6. con.cell < Full
    BY <1>5, <2>5
  <2> QED
    BY <2>1, <2>2, <2>3, <2>4, <2>5, <2>6 DEF Rep, Bounded
<1> QED
  BY <1>4, <1>5

\* u is t with the place q cells after the first of the screen.
MovedAs(t, u, q) ==
  u.bottom = t.bottom /\ u.at = t.at /\ u.pos = q + (t.bottom - (Rows - 1)) * Cols

LEMMA MoveFollows ==
  ASSUME NEW con, NEW t, NEW u, NEW q \in 0 .. Full, Rep(con, t), MovedAs(t, u, q)
  PROVE  Rep(MovedTo(con, q), u)
<1>1. u.bottom = t.bottom /\ u.at = t.at /\ u.pos = q + (u.bottom - (Rows - 1)) * Cols
  BY DEF MovedAs
<1>2. Pictured(con.screen, u)
  BY <1>1, SamePicture DEF Rep
<1>3. Bounded(u)
  BY <1>1 DEF Rep, Bounded
<1> QED
  BY <1>1, <1>2, <1>3 DEF Rep, MovedTo

LEMMA Steered ==
  ASSUME NEW t \in Tapes, NEW pos \in Nat
  PROVE  LET v == [t EXCEPT !.pos = pos]
         IN  /\ v \in Tapes /\ v.pos = pos
             /\ v.bottom = t.bottom /\ v.at = t.at /\ v.past = t.past
BY DEF Tapes

LEMMA LaidNewline ==
  ASSUME NEW t \in Tapes, NEW v, v = [t EXCEPT !.pos = (t.pos \div Cols + 1) * Cols]
  PROVE  /\ SettledAs(v, Laid(t, NL))
         /\ Laid(t, NL).past = (t.past \/ (t.pos \div Cols > t.bottom))
<1>1. Laid(t, NL) = [t EXCEPT !.pos = (t.pos \div Cols + 1) * Cols,
                             !.bottom = Later(@, ((t.pos \div Cols + 1) * Cols) \div Cols),
                             !.past = @ \/ t.pos \div Cols > t.bottom]
  BY Sizes DEF Laid
<1>2. PICK pos : pos = (t.pos \div Cols + 1) * Cols
  OBVIOUS
<1>3. PICK past : past = (t.past \/ (t.pos \div Cols > t.bottom))
  OBVIOUS
<1>4. Laid(t, NL) = [t EXCEPT !.pos = pos, !.bottom = Later(@, pos \div Cols), !.past = past]
  BY <1>1, <1>2, <1>3, Zenon
<1>5. v = [t EXCEPT !.pos = pos]
  BY <1>2, Zenon
<1> QED
  BY <1>3, <1>4, <1>5 DEF SettledAs, Tapes

LEMMA LaidReturn ==
  ASSUME NEW t \in Tapes, NEW v, v = [t EXCEPT !.pos = (t.pos \div Cols) * Cols]
  PROVE  SettledAs(v, Laid(t, CR)) /\ Laid(t, CR).past = t.past
<1>1. Laid(t, CR) = [t EXCEPT !.pos = (t.pos \div Cols) * Cols,
                             !.bottom = Later(@, ((t.pos \div Cols) * Cols) \div Cols)]
  BY Sizes DEF Laid
<1>2. PICK pos : pos = (t.pos \div Cols) * Cols
  OBVIOUS
<1>3. Laid(t, CR) = [t EXCEPT !.pos = pos, !.bottom = Later(@, pos \div Cols)]
  BY <1>1, <1>2, Zenon
<1>4. v = [t EXCEPT !.pos = pos]
  BY <1>2, Zenon
<1> QED
  BY <1>3, <1>4 DEF SettledAs, Tapes

LEMMA LaidInk ==
  ASSUME NEW t \in Tapes, NEW c, ~ Special(c)
  PROVE  /\ Laid(t, c).pos = t.pos + 1 /\ Laid(t, c).past = t.past
         /\ Laid(t, c).bottom = Later(t.bottom, t.pos \div Cols)
         /\ Laid(t, c).at = Inked(t.at, t.pos, c)
<1>1. Laid(t, c) = [t EXCEPT !.pos = @ + 1, !.bottom = Later(@, t.pos \div Cols), !.at = Inked(@, t.pos, c)]
  BY DEF Laid, Special
<1>2. PICK k, at : k = t.pos \div Cols /\ at = Inked(t.at, t.pos, c)
  OBVIOUS
<1>3. Laid(t, c) = [t EXCEPT !.pos = @ + 1, !.bottom = Later(@, k), !.at = at]
  BY <1>1, <1>2, Zenon
<1> QED
  BY <1>2, <1>3 DEF Tapes

LEMMA LineStartIs ==
  ASSUME NEW p, NEW r, NEW x, At(p, r, x)
  PROVE  LineStart(p) = r * Cols
<1>1. PICK q \in Nat : q = r * Cols
  BY Sizes DEF At
<1>2. p = q + x /\ p % Cols = x /\ x \in Int /\ p \in Nat
  BY <1>1, Sizes DEF At
<1>3. p - x = q
  BY <1>1, <1>2
<1> QED
  BY <1>1, <1>2, <1>3 DEF LineStart

\* A return, on the screen.
LEMMA ReturnKeeps ==
  ASSUME NEW con \in Consoles, NEW t \in Tapes, Rep(con, t)
  PROVE  Rep(WriteChar(con, CR), Laid(t, CR)) /\ Laid(t, CR).past = t.past
<1>1. PICK r, x : Cursor(con, t, r, x)
  BY CursorIs
<1>2. PICK q : q = r * Cols
  OBVIOUS
<1>3. PICK k \in Nat : k = t.bottom - (Rows - 1)
  <2>1. t.bottom \in Nat /\ t.bottom >= Rows - 1
    BY DEF Tapes, Rep, Bounded
  <2> QED
    BY <2>1, Sizes
<1>4. r \in 0 .. Rows /\ t.pos \div Cols = k + r /\ At(con.cell, r, x)
  BY <1>1, <1>3 DEF Cursor, At
<1>5. PICK v : v = [t EXCEPT !.pos = (t.pos \div Cols) * Cols]
  OBVIOUS
<1>6. PICK pos \in Nat : pos = (t.pos \div Cols) * Cols
  BY <1>4, Sizes
<1>7. v \in Tapes /\ v.pos = pos /\ v.bottom = t.bottom /\ v.at = t.at
  BY <1>5, <1>6, Steered, Zenon
<1>8. q \in 0 .. Full
  <2>1. r * Cols <= Rows * Cols
    BY <1>4, Sizes, Monotone
  <2>2. r * Cols \in Nat /\ Rows * Cols \in Nat
    BY <1>4, Sizes
  <2>3. PICK full \in Nat : full = Full /\ full = Rows * Cols
    BY <2>2 DEF Full
  <2> QED
    BY <1>2, <2>1, <2>2, <2>3
<1>9. MovedAs(t, v, q)
  <2>1. (k + r) * Cols = q + k * Cols
    BY <1>2, <1>3, <1>4, Sizes
  <2> QED
    BY <1>3, <1>4, <1>6, <1>7, <2>1 DEF MovedAs
<1>10. Rep(MovedTo(con, q), v)
  BY <1>8, <1>9, MoveFollows
<1>11. MovedTo(con, q) \in Consoles
  BY <1>8, TotalType DEF MovedTo, Consoles
<1>12. SettledAs(v, Laid(t, CR)) /\ Laid(t, CR).past = t.past /\ Laid(t, CR) \in Tapes
  BY <1>5, LaidReturn, LaidType, Sizes
<1>13. Rep(Wrapped(MovedTo(con, q)), Laid(t, CR))
  BY <1>7, <1>10, <1>11, <1>12, WrapFollows
<1>14. WriteChar(con, CR) = Wrapped(MovedTo(con, q))
  <2>1. Moved(con.cell, CR) = q
    BY <1>2, <1>4, Sizes, LineStartIs DEF Moved
  <2>2. Special(CR)
    BY DEF Special
  <2> QED
    BY <2>1, <2>2, WriteCharIs, Zenon
<1> QED
  BY <1>12, <1>13, <1>14

\* A newline above the last row, or in it.
LEMMA NewlineKeeps ==
  ASSUME NEW con \in Consoles, NEW t \in Tapes, Rep(con, t), con.cell # Full, ~ t.past
  PROVE  Rep(WriteChar(con, NL), Laid(t, NL)) /\ ~ Laid(t, NL).past
<1>1. PICK r, x : Cursor(con, t, r, x)
  BY CursorIs
<1>2. PICK s \in Nat : s = r + 1
  BY <1>1, Sizes DEF Cursor
<1>2q. PICK q : q = s * Cols
  OBVIOUS
<1>3. PICK k \in Nat : k = t.bottom - (Rows - 1)
  <2>1. t.bottom \in Nat /\ t.bottom >= Rows - 1
    BY DEF Tapes, Rep, Bounded
  <2> QED
    BY <2>1, Sizes
<1>4. r \in 0 .. Rows /\ r # Rows /\ t.pos \div Cols = k + r /\ At(con.cell, r, x)
  BY <1>1, <1>3 DEF Cursor, At
<1>4s. s \in 0 .. Rows /\ t.pos \div Cols + 1 = k + s
  BY <1>2, <1>4, Sizes
<1>5. PICK v : v = [t EXCEPT !.pos = (t.pos \div Cols + 1) * Cols]
  OBVIOUS
<1>6. PICK pos \in Nat : pos = (t.pos \div Cols + 1) * Cols
  BY <1>4s, Sizes
<1>7. v \in Tapes /\ v.pos = pos /\ v.bottom = t.bottom /\ v.at = t.at
  BY <1>5, <1>6, Steered, Zenon
<1>8. q \in 0 .. Full
  <2>1. s * Cols <= Rows * Cols
    BY <1>4s, Sizes, Monotone
  <2>2. s * Cols \in Nat /\ Rows * Cols \in Nat
    BY <1>2, Sizes
  <2>3. PICK full \in Nat : full = Full /\ full = Rows * Cols
    BY <2>2 DEF Full
  <2> QED
    BY <1>2q, <2>1, <2>2, <2>3
<1>9. MovedAs(t, v, q)
  <2>1. (k + s) * Cols = q + k * Cols
    BY <1>2, <1>2q, <1>3, Sizes
  <2> QED
    BY <1>3, <1>4s, <1>6, <1>7, <2>1 DEF MovedAs
<1>10. Rep(MovedTo(con, q), v)
  BY <1>8, <1>9, MoveFollows
<1>11. MovedTo(con, q) \in Consoles
  BY <1>8, TotalType DEF MovedTo, Consoles
<1>12. /\ SettledAs(v, Laid(t, NL)) /\ Laid(t, NL) \in Tapes
       /\ Laid(t, NL).past = (t.past \/ (t.pos \div Cols > t.bottom))
  BY <1>5, LaidNewline, LaidType, Sizes
<1>13. Rep(Wrapped(MovedTo(con, q)), Laid(t, NL))
  BY <1>7, <1>10, <1>11, <1>12, WrapFollows
<1>14. WriteChar(con, NL) = Wrapped(MovedTo(con, q))
  <2>1. At(con.cell + Cols, s, x)
    <3>1. PICK p : p = con.cell + Cols
      OBVIOUS
    <3>2. PICK m, n \in Nat : m = r * Cols /\ n = s * Cols
      BY <1>2, <1>4, Sizes
    <3>3. n = m + Cols
      <4>1. s * Cols = r * Cols + Cols
        BY <1>2, <1>4, Sizes
      <4> QED
        BY <3>2, <4>1
    <3>4. con.cell = m + x /\ x \in 0 .. Cols - 1
      BY <1>4, <3>2 DEF At
    <3>5. p = n + x
      BY <3>1, <3>2, <3>3, <3>4, Sizes
    <3>6. At(p, s, x)
      BY <3>2, <3>4, <3>5, AtWord
    <3> QED
      BY <3>1, <3>6
  <2>2. Moved(con.cell, NL) = q
    BY <1>2q, <2>1, LineStartIs DEF Moved
  <2>3. Special(NL)
    BY DEF Special
  <2> QED
    BY <2>2, <2>3, WriteCharIs, Zenon
<1>15. ~ t.pos \div Cols > t.bottom
  <2>1. t.bottom \in Nat
    BY DEF Tapes
  <2> QED
    BY <1>3, <1>4, <2>1, Sizes
<1> QED
  BY <1>12, <1>13, <1>14, <1>15

\* A newline after a last row that is full to its end.
LEMMA NewlineLoses ==
  ASSUME NEW con \in Consoles, NEW t \in Tapes, Rep(con, t), con.cell = Full
  PROVE  Lost(WriteChar(con, NL), Laid(t, NL))
<1>1. PICK r, x : Cursor(con, t, r, x)
  BY CursorIs
<1>2. r = Rows /\ t.pos \div Cols = t.bottom - (Rows - 1) + r
  BY <1>1 DEF Cursor, At
<1>3. t.pos \div Cols > t.bottom
  BY <1>2, Sizes DEF Tapes
<1>4. Laid(t, NL).past
  <2>1. PICK v : v = [t EXCEPT !.pos = (t.pos \div Cols + 1) * Cols]
    OBVIOUS
  <2>2. Laid(t, NL).past = (t.past \/ (t.pos \div Cols > t.bottom))
    BY <2>1, LaidNewline
  <2> QED
    BY <1>3, <2>2
<1>5. PICK s \in Nat : s = Rows + 1
  BY Sizes
<1>6. PICK q \in Nat : q = s * Cols /\ q = Full + Cols
  <2>1. s * Cols = Rows * Cols + Cols /\ s * Cols \in Nat
    BY <1>5, Sizes
  <2> QED
    BY <2>1 DEF Full
<1>7. LineStart(con.cell + Cols) = q
  <2>1. At(q, s, 0)
    <3>1. q = s * Cols + 0 /\ 0 \in 0 .. Cols - 1
      BY <1>6, Sizes
    <3> QED
      BY <3>1, AtWord
  <2>2. LineStart(q) = q
    BY <1>6, <2>1, LineStartIs
  <2> QED
    BY <1>6, <2>2
<1>8. q # Full
  BY <1>6, TotalType, Sizes
<1>9. WriteChar(con, NL).cell = q
  <2>1. Special(NL) /\ Moved(con.cell, NL) = q
    BY <1>7 DEF Special, Moved
  <2>2. WriteChar(con, NL) = Wrapped(MovedTo(con, q))
    BY <2>1, WriteCharIs, Zenon
  <2> QED
    BY <1>8, <2>2 DEF Wrapped, MovedTo, AtEnd
<1> QED
  BY <1>4, <1>6, <1>9 DEF Lost

\* Nothing brings the cursor back.
LEMMA LostStays ==
  ASSUME NEW con \in Consoles, NEW t \in Tapes, NEW c \in STRING, Lost(con, t)
  PROVE  Lost(WriteChar(con, c), Laid(t, c))
<1>1. PICK p : p = con.cell
  OBVIOUS
<1>2. Full \in Nat /\ Cols \in Nat /\ Cols >= 1
  BY TotalType, Sizes
<1>3. p \in Nat /\ p >= Full + Cols /\ t.past
  BY <1>1, <1>2 DEF Lost, Consoles
<1>4. PICK r, x : At(p, r, x)
  BY <1>3, WordAt
<1>5. LineStart(p) = r * Cols
  BY <1>4, LineStartIs
<1>6. PICK m \in Nat : m = r * Cols
  BY <1>4, <1>2 DEF At
<1>7. p = m + x /\ x \in 0 .. Cols - 1 /\ r \in Nat
  BY <1>4, <1>6 DEF At
<1>8. m >= Full + Cols
  <2>1. r >= Rows + 1
    <3> SUFFICES ASSUME r <= Rows PROVE FALSE
      BY <1>7, Sizes
    <3>1. r * Cols <= Rows * Cols
      BY <1>7, Sizes, Monotone
    <3>2. m <= Full
      BY <1>6, <3>1 DEF Full
    <3> QED
      BY <1>2, <1>3, <1>6, <1>7, <3>2
  <2>2. (Rows + 1) * Cols <= r * Cols
    BY <1>7, <2>1, Sizes, Monotone
  <2>3. (Rows + 1) * Cols = Rows * Cols + Cols
    BY Sizes
  <2>4. (Rows + 1) * Cols = Full + Cols
    BY <2>3 DEF Full
  <2> QED
    BY <1>6, <2>2, <2>4
<1>9. PICK q \in Nat : q = Moved(p, c) /\ q >= Full + Cols
  <2>1. CASE c = NL
    <3>1. PICK z : z = p + Cols
      OBVIOUS
    <3>2. z % Cols \in 0 .. Cols - 1 /\ z \in Nat
      BY <1>2, <1>3, <3>1
    <3>3. PICK w \in 0 .. Cols - 1 : w = z % Cols
      BY <3>2
    <3>4. Moved(p, c) = z - w
      BY <2>1, <3>1, <3>3 DEF Moved, LineStart
    <3>5. z - w \in Nat /\ z - w >= Full + Cols
      BY <1>2, <1>3, <3>1, <3>3
    <3> QED
      BY <3>4, <3>5
  <2>2. CASE c # NL /\ c = CR
    BY <1>5, <1>6, <1>8, <2>2 DEF Moved
  <2>3. CASE c # NL /\ c # CR
    BY <1>3, <2>3 DEF Moved
  <2> QED
    BY <2>1, <2>2, <2>3
<1>10. q # Full
  <2>1. q >= Full + Cols
    BY <1>9
  <2> QED
    BY <1>2, <2>1
<1>11. WriteChar(con, c).cell = IF Special(c) THEN q ELSE q + 1
  <2>1. q = Moved(con.cell, c)
    BY <1>1, <1>9
  <2> QED
    BY <1>10, <2>1, Zenon DEF WriteChar, AtEnd
<1>12. WriteChar(con, c).cell >= Full + Cols
  BY <1>2, <1>9, <1>11
<1>13. Laid(t, c).past
  <2>1. CASE c = NL
    <3>1. PICK v : v = [t EXCEPT !.pos = (t.pos \div Cols + 1) * Cols]
      OBVIOUS
    <3>2. Laid(t, NL).past = (t.past \/ (t.pos \div Cols > t.bottom))
      BY <3>1, LaidNewline
    <3> QED
      BY <1>3, <2>1, <3>2
  <2>2. CASE c = CR
    <3>1. PICK v : v = [t EXCEPT !.pos = (t.pos \div Cols) * Cols]
      OBVIOUS
    <3>2. Laid(t, CR).past = t.past
      BY <3>1, LaidReturn
    <3> QED
      BY <1>3, <2>2, <3>2
  <2>3. CASE ~ Special(c)
    BY <1>3, <2>3, LaidInk
  <2> QED
    BY <2>1, <2>2, <2>3 DEF Special
<1> QED
  BY <1>12, <1>13 DEF Lost

\* A character that is drawn.
LEMMA InkKeeps ==
  ASSUME NEW con \in Consoles, NEW t \in Tapes, NEW c \in STRING, ~ Special(c), Rep(con, t)
  PROVE  Rep(WriteChar(con, c), Laid(t, c)) /\ Laid(t, c).past = t.past
<1>1. PICK u : u = [t EXCEPT !.bottom = Later(@, t.pos \div Cols)]
  OBVIOUS
<1>2. t.pos \div Cols \in Nat /\ t.bottom \in Nat
  BY Sizes DEF Tapes
<1>3. PICK k \in Nat : k = Later(t.bottom, t.pos \div Cols)
  BY <1>2 DEF Later
<1>4. u = [t EXCEPT !.bottom = k]
  BY <1>1, <1>3, Zenon
<1>5. u \in Tapes /\ u.pos = t.pos /\ u.at = t.at /\ u.bottom = k
  BY <1>4 DEF Tapes
<1>6. SettledAs(t, u)
  BY <1>3, <1>5 DEF SettledAs
<1>7. PICK w \in Consoles : w = Wrapped(con)
  BY WrappedType
<1>8. Rep(w, u) /\ w.cell < Full
  BY <1>5, <1>6, <1>7, WrapFollows
<1>9. PICK r, x : Cursor(w, u, r, x)
  BY <1>5, <1>8, CursorIs
<1>10. r \in 0 .. Rows - 1 /\ x \in 0 .. Cols - 1 /\ At(w.cell, r, x) /\ At(u.pos, u.bottom - (Rows - 1) + r, x)
  BY <1>8, <1>9, TotalType, Sizes DEF Cursor, Rep
<1>11. PICK n : n = Laid(t, c)
  OBVIOUS
<1>12. n.pos = u.pos + 1 /\ n.past = t.past /\ n.bottom = u.bottom /\ n.at = Inked(u.at, u.pos, c)
  BY <1>3, <1>5, <1>11, LaidInk
<1>13. InkedAt(u, n, c, x, r)
  <2>1. u.pos = (u.bottom - (Rows - 1) + r) * Cols + x
    BY <1>10 DEF At
  <2> QED
    BY <1>12, <2>1, Zenon DEF InkedAt
<1>14. Pictured(Drawn(w.screen, c, x, r), n) /\ Bounded(n)
  <2>1. w.screen \in Screens /\ Bounded(u) /\ Pictured(w.screen, u)
    BY <1>8 DEF Consoles, Rep
  <2> QED
    BY <1>5, <1>10, <1>13, <2>1, DrawPictured
<1>15. Advanced(w, c).cell = w.cell + 1 /\ Advanced(w, c).screen = Drawn(w.screen, c, x, r)
  <2>1. w.cell % Cols = x /\ w.cell \div Cols = r
    BY <1>10 DEF At
  <2> QED
    BY <2>1, Zenon DEF Advanced
<1>16. w.cell + 1 \in 0 .. Full
  BY <1>8, TotalType DEF Rep
<1>17. n.pos = (w.cell + 1) + (n.bottom - (Rows - 1)) * Cols
  <2>1. u.bottom - (Rows - 1) \in Int
    BY <1>5, Sizes
  <2>2. PICK q \in Int : q = (u.bottom - (Rows - 1)) * Cols
    BY <2>1, Sizes
  <2>3. u.pos = w.cell + q /\ w.cell \in Int
    BY <1>8, <2>2, TotalType DEF Rep
  <2>4. u.pos + 1 = (w.cell + 1) + q
    BY <2>2, <2>3
  <2> QED
    BY <1>12, <2>2, <2>4
<1>18. WriteChar(con, c) = Advanced(w, c)
  BY <1>7, WriteCharIs
<1>19. Rep(Advanced(w, c), n)
  BY <1>14, <1>15, <1>16, <1>17 DEF Rep
<1> QED
  BY <1>11, <1>12, <1>18, <1>19

\* Every character keeps the console with the tape.
LEMMA CharacterGood ==
  ASSUME NEW con \in Consoles, NEW t \in Tapes, NEW c \in STRING, Good(con, t)
  PROVE  Good(WriteChar(con, c), Laid(t, c))
<1>1. CASE Lost(con, t)
  BY <1>1, LostStays DEF Good
<1>2. CASE ~ t.past /\ Rep(con, t)
  <2>1. CASE c = NL
    BY <1>2, <2>1, NewlineKeeps, NewlineLoses DEF Good
  <2>2. CASE c = CR
    BY <1>2, <2>2, ReturnKeeps DEF Good
  <2>3. CASE ~ Special(c)
    BY <1>2, <2>3, InkKeeps DEF Good
  <2> QED
    BY <2>1, <2>2, <2>3 DEF Special
<1> QED
  BY <1>1, <1>2 DEF Good

\* A special character does not leave the cursor behind the last cell.
LEMMA SpecialWraps ==
  ASSUME NEW con \in Consoles, NEW c, Special(c)
  PROVE  WriteChar(con, c).cell # Full
<1>1. (Rows - 1) * Cols # Full
  <2>1. Rows * Cols = (Rows - 1) * Cols + Cols /\ (Rows - 1) * Cols \in Int
    BY Sizes
  <2> QED
    BY <2>1, Sizes DEF Full
<1>2. WriteChar(con, c) = Wrapped(MovedTo(con, Moved(con.cell, c)))
  BY WriteCharIs
<1> QED
  BY <1>1, <1>2 DEF Wrapped, MovedTo, AtEnd

-----------------------------------------------------------------------------
(* Texts. *)

\* s is the text r with c behind it.
EndsIn(s, r, c) ==
  s = Append(r, c) /\ c = s[Len(s)] /\ Len(s) = Len(r) + 1 /\ \A i \in 1 .. Len(r) : r[i] = s[i]

LEMMA LastIn ==
  ASSUME NEW S, NEW s \in Seq(S), s # << >>
  PROVE  \E r \in Seq(S), c \in S : EndsIn(s, r, c)
<1>0. Len(s) \in Nat /\ Len(s) # 0
  OBVIOUS
<1>1. PICK k \in Nat : Len(s) = k + 1
  <2>1. Len(s) - 1 \in Nat /\ Len(s) = (Len(s) - 1) + 1
    BY <1>0
  <2> QED
    BY <2>1
<1>2. PICK c \in S : c = s[k + 1]
  BY <1>1
<1>3. PICK r : r = [i \in 1 .. k |-> s[i]]
  OBVIOUS
<1>4. \A i \in 1 .. k : s[i] \in S
  BY <1>1
<1>5. r \in Seq(S) /\ Len(r) = k /\ \A i \in 1 .. k : r[i] = s[i]
  BY <1>3, <1>4
<1>6. PICK more : more = Append(r, c)
  OBVIOUS
<1>7. more \in Seq(S) /\ Len(more) = Len(s) /\ \A i \in 1 .. Len(more) : more[i] = s[i]
  BY <1>1, <1>2, <1>5, <1>6, AppendProperties
<1>8. more = s
  BY <1>7, SeqEqual, Zenon
<1> QED
  BY <1>1, <1>2, <1>5, <1>6, <1>8 DEF EndsIn

LEMMA LastOf ==
  ASSUME NEW s \in Seq(STRING), s # << >>
  PROVE  \E r \in Seq(STRING), c \in STRING : EndsIn(s, r, c)
BY LastIn, Zenon

\* Put together, two texts end as the second does.
Behind(before, r, c, S) == before \o Append(r, c) = Append(before \o r, c) /\ before \o r \in Seq(S)

LEMMA AppendIn ==
  ASSUME NEW S, NEW before \in Seq(S), NEW r \in Seq(S), NEW c \in S
  PROVE  Behind(before, r, c, S)
BY DEF Behind

LEMMA AppendBehind ==
  ASSUME NEW before \in Seq(STRING), NEW r \in Seq(STRING), NEW c \in STRING
  PROVE  Behind(before, r, c, STRING)
BY AppendIn, Zenon

\* A text keeps the console with the tape.
LEMMA PutGood ==
  ASSUME NEW con \in Consoles, NEW before \in Seq(STRING), Good(con, Tape(before)), NEW text \in Seq(STRING)
  PROVE  Good(Put(con, text), Tape(before \o text))
<1> DEFINE T == {k \in Nat : \A s \in Seq(STRING) : Len(s) = k => Good(Put(con, s), Tape(before \o s))}
<1>1. 0 \in T
  <2> SUFFICES ASSUME NEW s \in Seq(STRING), Len(s) = 0 PROVE Good(Put(con, s), Tape(before \o s))
    OBVIOUS
  <2>1. s = << >> /\ before \o s = before
    OBVIOUS
  <2>2. Put(con, << >>) = con
    BY PutSoFar, Sizes
  <2> QED
    BY <2>1, <2>2
<1>2. ASSUME NEW k \in Nat, k \in T PROVE k + 1 \in T
  <2> SUFFICES ASSUME NEW s \in Seq(STRING), Len(s) = k + 1 PROVE Good(Put(con, s), Tape(before \o s))
    OBVIOUS
  <2>0. Len(s) # 0
    OBVIOUS
  <2>1. PICK r \in Seq(STRING), c \in STRING : s = Append(r, c) /\ Len(r) = k
    <3>1. s # << >>
      BY <2>0
    <3>2. PICK r \in Seq(STRING), c \in STRING : EndsIn(s, r, c)
      BY <3>1, LastOf
    <3>3. Len(r) = k
      BY <3>2, LenProperties DEF EndsIn
    <3> QED
      BY <3>2, <3>3 DEF EndsIn
  <2>2. Good(Put(con, r), Tape(before \o r))
    BY <1>2, <2>1
  <2>3. Put(con, r) \in Consoles /\ Put(con, s) = WriteChar(Put(con, r), c)
    BY <2>1, PutSoFar
  <2>4. PICK q \in Seq(STRING) : q = before \o r
    BY AppendBehind DEF Behind
  <2>5. before \o s = Append(q, c)
    <3>1. Behind(before, r, c, STRING)
      BY AppendBehind
    <3> QED
      BY <2>1, <2>4, <3>1, Zenon DEF Behind
  <2>6. Tape(q) \in Tapes /\ Tape(Append(q, c)) = Laid(Tape(q), c)
    BY TapeSoFar
  <2>7. PICK w \in Consoles : w = Put(con, r)
    BY <2>3
  <2>8. PICK t \in Tapes : t = Tape(q)
    BY <2>6
  <2>9. Good(w, t)
    BY <2>2, <2>4, <2>7, <2>8
  <2>10. Good(WriteChar(w, c), Laid(t, c))
    BY <2>9, CharacterGood
  <2> QED
    BY <2>3, <2>5, <2>6, <2>7, <2>8, <2>10
<1>3. Len(text) \in T
  <2> HIDE DEF T
  <2>1. Len(text) \in Nat
    OBVIOUS
  <2> QED
    BY <1>1, <1>2, <2>1, SetInduction
<1> QED
  BY <1>3

LEMMA WrappedOnce ==
  ASSUME NEW con \in Consoles
  PROVE  Wrapped(Wrapped(con)) = Wrapped(con) /\ Wrapped(con).cell # Full
<1>1. (Rows - 1) * Cols # Full
  <2>1. Rows * Cols = (Rows - 1) * Cols + Cols /\ (Rows - 1) * Cols \in Int
    BY Sizes
  <2> QED
    BY <2>1, Sizes DEF Full
<1> QED
  BY <1>1 DEF Wrapped, AtEnd

\* A text that is drawn from its first character on scrolls first if it must.
LEMMA PutWrapped ==
  ASSUME NEW con \in Consoles, NEW text \in Seq(STRING), text # << >>, ~ Special(text[1])
  PROVE  Put(Wrapped(con), text) = Put(con, text)
<1> DEFINE T == {k \in Nat : \A s \in Seq(STRING) :
                   Len(s) = k + 1 /\ ~ Special(s[1]) => Put(Wrapped(con), s) = Put(con, s)}
<1>0. PICK w \in Consoles : w = Wrapped(con)
  BY WrappedType
<1>1. 0 \in T
  <2> SUFFICES ASSUME NEW s \in Seq(STRING), Len(s) = 0 + 1, ~ Special(s[1])
               PROVE  Put(Wrapped(con), s) = Put(con, s)
    OBVIOUS
  <2>0. s # << >>
    <3>1. Len(s) # 0
      OBVIOUS
    <3> QED
      BY <3>1, EmptySeq
  <2>1. PICK r \in Seq(STRING), c \in STRING : EndsIn(s, r, c)
    BY <2>0, LastOf
  <2>1a. s = Append(r, c) /\ Len(r) = 0
    BY <2>1, LenProperties DEF EndsIn
  <2>2. r = << >> /\ c = s[1]
    BY <2>1, <2>1a, EmptySeq DEF EndsIn
  <2>3. Put(con, s) = WriteChar(con, c)
    <3>1. Put(con, s) = WriteChar(Put(con, r), c) /\ Put(con, << >>) = con
      BY <2>1a, PutSoFar
    <3> QED
      BY <2>1a, <2>2, <3>1
  <2>4. Put(w, s) = WriteChar(w, c)
    <3>1. Put(w, s) = WriteChar(Put(w, r), c) /\ Put(w, << >>) = w
      BY <2>1a, PutSoFar
    <3> QED
      BY <2>1a, <2>2, <3>1
  <2>5. WriteChar(con, c) = Advanced(Wrapped(con), c) /\ WriteChar(w, c) = Advanced(Wrapped(w), c)
    BY <2>2, WriteCharIs
  <2>6. Wrapped(w) = w
    BY <1>0, WrappedOnce
  <2> QED
    BY <1>0, <2>3, <2>4, <2>5, <2>6
<1>2. ASSUME NEW k \in Nat, k \in T PROVE k + 1 \in T
  <2> SUFFICES ASSUME NEW s \in Seq(STRING), Len(s) = (k + 1) + 1, ~ Special(s[1])
               PROVE  Put(Wrapped(con), s) = Put(con, s)
    OBVIOUS
  <2>0. PICK m \in Nat : m = k + 1
    OBVIOUS
  <2>1. PICK r \in Seq(STRING), c \in STRING : s = Append(r, c) /\ Len(r) = m /\ \A i \in 1 .. m : r[i] = s[i]
    <3>1. s # << >>
      BY <2>0
    <3>2. PICK r \in Seq(STRING), c \in STRING : EndsIn(s, r, c)
      BY <3>1, LastOf
    <3>3. Len(r) = m
      BY <2>0, <3>2, LenProperties DEF EndsIn
    <3> QED
      BY <3>2, <3>3 DEF EndsIn
  <2>2. ~ Special(r[1])
    <3>1. 1 \in 1 .. m
      BY <2>0
    <3>2. r[1] = s[1]
      BY <2>1, <3>1
    <3> QED
      BY <3>2
  <2>3. Put(w, r) = Put(con, r)
    BY <1>0, <1>2, <2>0, <2>1, <2>2
  <2>4. Put(con, s) = WriteChar(Put(con, r), c)
    BY <2>1, PutSoFar
  <2>5. Put(w, s) = WriteChar(Put(w, r), c)
    BY <2>1, PutSoFar
  <2> QED
    BY <1>0, <2>3, <2>4, <2>5
<1>3. PICK k \in Nat : Len(text) = k + 1
  <2>1. Len(text) \in Nat /\ Len(text) # 0
    OBVIOUS
  <2>2. Len(text) - 1 \in Nat /\ Len(text) = (Len(text) - 1) + 1
    BY <2>1
  <2> QED
    BY <2>2
<1>4. k \in T
  <2> HIDE DEF T
  <2> QED
    BY <1>1, <1>2, SetInduction
<1> QED
  BY <1>3, <1>4

\* The next character that is drawn finds the console as the tape has it.
Ready(con, t) == \E was \in Consoles : Good(was, t) /\ Wrapped(was) = Wrapped(con)

LEMMA ReadyWhen ==
  ASSUME NEW con \in Consoles, NEW t
  PROVE  /\ Good(con, t) => Ready(con, t)
         /\ Good(Wrapped(con), t) => Ready(con, t)
         /\ (\E was \in Consoles : Good(was, t) /\ con = Wrapped(was)) => Ready(con, t)
<1>1. Wrapped(con) \in Consoles /\ Wrapped(Wrapped(con)) = Wrapped(con)
  BY WrappedType, WrappedOnce
<1>2. \A was \in Consoles : con = Wrapped(was) => Wrapped(was) = Wrapped(con)
  BY WrappedOnce
<1> QED
  BY <1>1, <1>2 DEF Ready

\* What a handler prints is a line.
LEMMA HandlerLine ==
  ASSUME NEW con \in Consoles, NEW before \in Seq(STRING), Ready(con, Tape(before)), HandlerMessage # << >>
  PROVE  /\ Put(con, HandlerMessage) \in Consoles
         /\ Good(Put(con, HandlerMessage), Tape(before \o HandlerMessage))
         /\ Put(con, HandlerMessage).cell # Full
<1>1. PICK text \in Seq(STRING) : text = HandlerMessage
  BY TextAssumption
<1>2. text # << >> /\ ~ Special(text[1]) /\ text[Len(text)] = NL
  BY <1>1, TextAssumption
<1>3. PICK was \in Consoles : Good(was, Tape(before)) /\ Wrapped(was) = Wrapped(con)
  BY DEF Ready
<1>4. Put(con, text) = Put(was, text)
  <2>1. Put(Wrapped(con), text) = Put(con, text)
    BY <1>2, PutWrapped
  <2>2. Put(Wrapped(was), text) = Put(was, text)
    BY <1>2, PutWrapped
  <2> QED
    BY <1>3, <2>1, <2>2
<1>5. Good(Put(was, text), Tape(before \o text))
  BY <1>3, PutGood
<1>7. PICK r \in Seq(STRING), c \in STRING : EndsIn(text, r, c)
  BY <1>2, LastOf
<1>8. c = NL /\ text = Append(r, c)
  BY <1>2, <1>7 DEF EndsIn
<1>9. Put(con, text) = WriteChar(Put(con, r), c) /\ Put(con, r) \in Consoles /\ Put(con, text) \in Consoles
  BY <1>8, PutSoFar
<1>10. WriteChar(Put(con, r), c).cell # Full
  <2>1. Special(c)
    BY <1>8 DEF Special
  <2> QED
    BY <1>9, <2>1, SpecialWraps
<1> QED
  BY <1>1, <1>4, <1>5, <1>9, <1>10

-----------------------------------------------------------------------------
(* The invariant.  Until an interrupt tears it, a write_char under way has   *)
(* done a part of what WriteChar does to a console that was as its tape has  *)
(* it: which part, pc and the values loaded say.                             *)

Pcs == {"idle", "halted", "nl_load", "nl_store", "cr_load", "cr_mod", "cr_store", "check", "wrap",
        "scroll", "col", "row", "draw", "inc_load", "inc_store"}

TtyTypes ==
  /\ up \in {"none", "video", "tty"} /\ panicking \in {"no", "base", "handler"}
  /\ screen \in Screens /\ cell \in Int /\ a \in Int /\ b \in Int /\ line \in Nat
  /\ todo \in Seq(STRING) /\ printed \in Seq(STRING)
  /\ pc \in Pcs /\ torn \in BOOLEAN

\* What pc says of the character under way, and of the next scan line.
TtyShape ==
  /\ pc \notin {"idle", "halted"} => todo # << >>
  /\ pc \in {"nl_load", "nl_store"} => Head(todo) = NL
  /\ pc \in {"cr_load", "cr_mod", "cr_store"} => Special(Head(todo))
  /\ pc \in {"draw", "inc_load", "inc_store"} => ~ Special(Head(todo))
  /\ pc \notin {"scroll", "draw", "halted"} => line = 0
  /\ pc = "scroll" => line < Height
  /\ pc = "draw" => line < CharSize

\* Without a console nothing is printed; a panic in a handler is the end.
Quiet ==
  /\ up # "tty" =>
       pc \in {"idle", "halted"} /\ todo = << >> /\ printed = << >> /\ cell = 0 /\ screen = Clear
  /\ panicking = "handler" => pc = "halted" /\ printed = Shown(PanicMessage)

\* A newline has added a line, which for a return is nothing.
Returning ==
  \E con \in Consoles :
    /\ Good(con, Tape(printed))
    /\ screen = con.screen /\ cell = IF Head(todo) = NL THEN con.cell + Cols ELSE con.cell

\* The tape has a special character already, and one that is drawn not yet.
Checking ==
  IF Special(Head(todo)) THEN Good(Wrapped(Console), Tape(printed)) ELSE Good(Console, Tape(printed))

Scrolling ==
  \E con \in Consoles :
    /\ con.cell = Full /\ cell = (Rows - 1) * Cols /\ screen = ScrollTo(con.screen, line)
    /\ IF Special(Head(todo)) THEN Good(Wrapped(con), Tape(printed)) ELSE Good(con, Tape(printed))

Placing ==
  IF Special(Head(todo)) THEN Good(Console, Tape(printed))
  ELSE \E con \in Consoles : Good(con, Tape(printed)) /\ Console = Wrapped(con)

Drawing ==
  \E con \in Consoles, text \in Seq(STRING) :
    /\ printed = Append(text, Head(todo)) /\ Good(con, Tape(text))
    /\ cell = Wrapped(con).cell /\ a = cell % Cols /\ b = cell \div Cols
    /\ screen = DrawTo(Wrapped(con).screen, Head(todo), a, b, line)

Stepping == Good([cell |-> cell + 1, screen |-> screen], Tape(printed))

Stage ==
  /\ pc \in {"idle", "halted", "nl_load", "nl_store"} => Good(Console, Tape(printed))
  /\ pc \in {"cr_load", "cr_mod", "cr_store"} => Returning
  /\ pc \in {"check", "wrap"} => Checking
  /\ pc = "scroll" => Scrolling
  /\ pc \in {"col", "row"} => Placing
  /\ pc = "draw" => Drawing
  /\ pc \in {"inc_load", "inc_store"} => Stepping
  /\ pc \in {"nl_store", "cr_mod", "cr_store", "inc_store"} => a = cell
  /\ pc = "cr_store" => b = cell % Cols
  /\ pc = "wrap" => cell = Full
  /\ pc = "row" /\ ~ Special(Head(todo)) => a = cell % Cols

TtyInv == TtyTypes /\ TtyShape /\ Quiet /\ (torn \/ Stage)

LEMMA ConsoleType ==
  ASSUME screen \in Screens, cell \in Int
  PROVE  Console \in Consoles
BY DEF Console, Consoles

LEMMA HeadType ==
  ASSUME NEW s \in Seq(STRING), s # << >>
  PROVE  Head(s) \in STRING /\ Tail(s) \in Seq(STRING)
BY HeadTailProperties

LEMMA BlankGood ==
  Good([cell |-> 0, screen |-> Clear], BlankTape) /\ Clear \in Screens /\ [cell |-> 0, screen |-> Clear] \in Consoles
<1>1. Clear \in Screens
  BY ShadeTypes DEF Clear, Screens
<1>2. [cell |-> 0, screen |-> Clear] \in Consoles
  BY <1>1 DEF Consoles
<1>3. \A y, x : Visible(BlankTape, y, x) = Blank
  BY DEF Visible, BlankTape
<1>4. Pictured(Clear, BlankTape)
  BY <1>3 DEF Pictured, Like, Clear
<1>5. 0 = 0 + (Rows - 1 - (Rows - 1)) * Cols
  BY Sizes
<1>6. Rep([cell |-> 0, screen |-> Clear], BlankTape)
  <2>1. Bounded(BlankTape)
    BY Sizes DEF Bounded, BlankTape
  <2> QED
    BY <1>4, <1>5, <2>1, TotalType DEF Rep, BlankTape
<1> QED
  BY <1>1, <1>2, <1>6 DEF Good, BlankTape

LEMMA TapeOfNothing ==
  Tape(<< >>) = BlankTape
BY EmptySeq, Sizes, TapeSoFar

LEMMA TtyInitInv ==
  TtyInit => TtyInv
<1> SUFFICES ASSUME TtyInit PROVE TtyInv
  OBVIOUS
<1> USE DEF TtyInit
<1>1. TtyTypes
  <2>1. << >> \in Seq(STRING)
    BY EmptySeq, Zenon
  <2>2. printed \in Seq(STRING) /\ todo \in Seq(STRING)
    BY <2>1
  <2>3. screen \in Screens
    BY BlankGood
  <2>4. pc \in Pcs /\ torn \in BOOLEAN
    BY DEF Pcs
  <2>5. cell \in Int /\ a \in Int /\ b \in Int /\ line \in Nat
    OBVIOUS
  <2> QED
    BY <2>2, <2>3, <2>4, <2>5 DEF TtyTypes
<1>2. TtyShape /\ Quiet
  BY DEF TtyShape, Quiet
<1>3. Good(Console, Tape(printed))
  BY BlankGood, TapeOfNothing DEF Console
<1>4. Stage
  BY <1>3 DEF Stage
<1> QED
  BY <1>1, <1>2, <1>4 DEF TtyInv

-----------------------------------------------------------------------------
(* write_char step by step. *)

LEMMA FetchKeeps ==
  ASSUME TtyInv, Fetch
  PROVE  TtyInv'
<1> USE DEF Fetch, Same
<1>1. pc' \in {"nl_load", "cr_load", "check"}
  OBVIOUS
<1>2. /\ pc' = "nl_load" => Head(todo) = NL
      /\ pc' = "cr_load" => Head(todo) = CR
      /\ pc' = "check" => ~ Special(Head(todo))
  BY Sizes DEF Special
<1>3. TtyTypes'
  BY <1>1 DEF TtyInv, TtyTypes, Pcs
<1>4. TtyShape'
  BY <1>1, <1>2 DEF TtyInv, TtyShape, Special
<1>5. Quiet'
  BY DEF TtyInv, Quiet, Shown
<1>6. ASSUME ~ torn PROVE Stage'
  <2>1. Good(Console, Tape(printed)) /\ Console \in Consoles
    BY <1>6, ConsoleType DEF TtyInv, Stage, TtyTypes
  <2>2. Console' = Console
    BY DEF Console
  <2>3. pc' = "cr_load" => Returning'
    <3>1. Console.cell = cell /\ Console.screen = screen
      BY DEF Console
    <3>2. pc' = "cr_load" => Head(todo) # NL
      BY <1>2, Sizes
    <3> QED
      BY <2>1, <3>1, <3>2 DEF Returning
  <2>4. pc' = "check" => Checking'
    BY <1>2, <2>1, <2>2 DEF Checking
  <2> QED
    BY <1>1, <2>1, <2>2, <2>3, <2>4 DEF Stage
<1> QED
  BY <1>3, <1>4, <1>5, <1>6 DEF TtyInv

LEMMA NlLoadKeeps ==
  ASSUME TtyInv, NlLoad
  PROVE  TtyInv'
<1> USE DEF NlLoad, Same
<1>1. TtyTypes' /\ TtyShape' /\ Quiet'
  BY DEF TtyInv, TtyTypes, TtyShape, Quiet, Shown, Pcs, Special
<1>2. ASSUME ~ torn PROVE Stage'
  <2>1. Good(Console, Tape(printed))
    BY <1>2 DEF TtyInv, Stage
  <2>2. Console' = Console
    BY DEF Console
  <2> QED
    BY <2>1, <2>2 DEF Stage
<1> QED
  BY <1>1, <1>2 DEF TtyInv

LEMMA NlStoreKeeps ==
  ASSUME TtyInv, NlStore
  PROVE  TtyInv'
<1> USE DEF NlStore, Same
<1>1. TtyTypes'
  BY Sizes DEF TtyInv, TtyTypes, Pcs
<1>2. TtyShape' /\ Quiet'
  BY DEF TtyInv, TtyShape, Quiet, Shown, Special
<1>3. ASSUME ~ torn PROVE Stage'
  <2>1. Good(Console, Tape(printed)) /\ Console \in Consoles /\ a = cell
    BY <1>3, ConsoleType DEF TtyInv, Stage, TtyTypes
  <2>2. Console.cell = cell /\ Console.screen = screen
    BY DEF Console
  <2>3. Head(todo) = NL
    BY DEF TtyInv, TtyShape
  <2>4. Returning'
    BY <2>1, <2>2, <2>3 DEF Returning
  <2> QED
    BY <2>4 DEF Stage
<1> QED
  BY <1>1, <1>2, <1>3 DEF TtyInv

LEMMA CrLoadKeeps ==
  ASSUME TtyInv, CrLoad
  PROVE  TtyInv'
<1> USE DEF CrLoad, Same
<1>1. TtyTypes' /\ TtyShape' /\ Quiet'
  BY DEF TtyInv, TtyTypes, TtyShape, Quiet, Shown, Pcs, Special
<1>2. ASSUME ~ torn PROVE Stage'
  <2>1. Returning
    BY <1>2 DEF TtyInv, Stage
  <2>2. Returning'
    BY <2>1 DEF Returning
  <2> QED
    BY <2>2 DEF Stage
<1> QED
  BY <1>1, <1>2 DEF TtyInv

LEMMA CrModKeeps ==
  ASSUME TtyInv, CrMod
  PROVE  TtyInv'
<1> USE DEF CrMod, Same
<1>1. TtyTypes'
  BY Sizes DEF TtyInv, TtyTypes, Pcs
<1>2. TtyShape' /\ Quiet'
  BY DEF TtyInv, TtyShape, Quiet, Shown, Special
<1>3. ASSUME ~ torn PROVE Stage'
  <2>1. Returning /\ a = cell
    BY <1>3 DEF TtyInv, Stage
  <2>2. Returning'
    BY <2>1 DEF Returning
  <2> QED
    BY <2>1, <2>2 DEF Stage
<1> QED
  BY <1>1, <1>2, <1>3 DEF TtyInv

LEMMA CrStoreKeeps ==
  ASSUME TtyInv, CrStore
  PROVE  TtyInv'
<1> USE DEF CrStore, Same
<1>1. Head(todo) \in STRING /\ Special(Head(todo)) /\ printed \in Seq(STRING)
  BY HeadType DEF TtyInv, TtyTypes, TtyShape
<1>2. PICK c \in STRING : c = Head(todo)
  BY <1>1
<1>3. printed' = Append(printed, c)
  BY <1>2
<1>4. TtyTypes'
  <2>1. Append(printed, c) \in Seq(STRING)
    BY <1>1, AppendProperties
  <2>2. cell' \in Int
    BY DEF TtyInv, TtyTypes
  <2> QED
    BY <1>3, <2>1, <2>2 DEF TtyInv, TtyTypes, Pcs
<1>5. TtyShape' /\ Quiet'
  BY DEF TtyInv, TtyShape, Quiet, Shown, Special
<1>6. ASSUME ~ torn PROVE Stage'
  <2>1. Returning /\ a = cell /\ b = cell % Cols
    BY <1>6 DEF TtyInv, Stage
  <2>2. PICK con \in Consoles : /\ Good(con, Tape(printed)) /\ screen = con.screen
                            /\ cell = IF c = NL THEN con.cell + Cols ELSE con.cell
    BY <1>2, <2>1 DEF Returning
  <2>3. PICK q : q = Moved(con.cell, c)
    OBVIOUS
  <2>4. cell' = q
    <3>1. cell' = LineStart(cell)
      BY <2>1 DEF LineStart
    <3>2. Special(c)
      BY <1>1, <1>2
    <3> QED
      BY <2>2, <2>3, <3>1, <3>2 DEF Moved, Special
  <2>5. WriteChar(con, c) = Wrapped(MovedTo(con, q))
    BY <1>1, <1>2, <2>3, WriteCharIs, Zenon
  <2>6. Console' = MovedTo(con, q)
    BY <2>2, <2>4 DEF Console, MovedTo
  <2>7. PICK t \in Tapes : t = Tape(printed) /\ Tape(Append(printed, c)) = Laid(t, c)
    BY <1>1, TapeSoFar
  <2>8. Good(WriteChar(con, c), Laid(t, c))
    BY <2>2, <2>7, CharacterGood
  <2>9. Good(Wrapped(Console'), Tape(printed'))
    BY <1>3, <2>5, <2>6, <2>7, <2>8
  <2>10. Special(Head(todo'))
    BY <1>1
  <2>11. Checking'
    BY <2>9, <2>10 DEF Checking
  <2> QED
    BY <2>11 DEF Stage
<1> QED
  BY <1>4, <1>5, <1>6 DEF TtyInv

LEMMA CheckKeeps ==
  ASSUME TtyInv, Check
  PROVE  TtyInv'
<1> USE DEF Check, Same
<1>1. TtyTypes' /\ TtyShape' /\ Quiet'
  BY DEF TtyInv, TtyTypes, TtyShape, Quiet, Shown, Pcs, Special
<1>2. ASSUME ~ torn PROVE Stage'
  <2>1. Checking
    BY <1>2 DEF TtyInv, Stage
  <2>2. Console' = Console /\ Console.cell = cell /\ Console \in Consoles
    BY ConsoleType DEF Console, TtyInv, TtyTypes
  <2>3. CASE AtEnd(cell)
    <3>1. Checking'
      BY <2>1, <2>2 DEF Checking
    <3> QED
      BY <2>3, <3>1 DEF Stage, AtEnd
  <2>4. CASE ~ AtEnd(cell)
    <3>1. Wrapped(Console) = Console
      BY <2>2, <2>4 DEF Wrapped
    <3>2. Placing'
      BY <2>1, <2>2, <3>1 DEF Checking, Placing
    <3> QED
      BY <2>4, <3>2 DEF Stage
  <2> QED
    BY <2>3, <2>4
<1> QED
  BY <1>1, <1>2 DEF TtyInv

LEMMA WrapKeeps ==
  ASSUME TtyInv, Wrap
  PROVE  TtyInv'
<1> USE DEF Wrap, Same
<1>1. TtyTypes'
  <2>1. cell' \in Int
    BY Sizes
  <2> QED
    BY <2>1 DEF TtyInv, TtyTypes, Pcs
<1>2. TtyShape' /\ Quiet'
  <2>1. 0 < Height
    <3>1. Rows * CharSize >= 1
      <4>1. 1 * CharSize <= Rows * CharSize
        BY Sizes, Monotone
      <4>2. Rows * CharSize \in Nat
        BY Sizes
      <4> QED
        BY <4>1, <4>2, Sizes
    <3>2. Rows * CharSize \in Nat
      BY Sizes
    <3> QED
      BY <3>1, <3>2, Sizes
  <2> QED
    BY <2>1 DEF TtyInv, TtyShape, Quiet, Shown, Special
<1>3. ASSUME ~ torn PROVE Stage'
  <2>1. Checking /\ cell = Full /\ line' = 0
    BY <1>3 DEF TtyInv, Stage
  <2>2. Console.cell = cell /\ Console.screen = screen /\ Console \in Consoles /\ screen \in Screens
    BY ConsoleType DEF Console, TtyInv, TtyTypes
  <2>3. ScrollTo(screen, 0) = screen
    BY <2>2, Sizes, ScrollSoFar
  <2>4. Scrolling'
    BY <2>1, <2>2, <2>3 DEF Scrolling, Checking
  <2> QED
    BY <2>4 DEF Stage
<1> QED
  BY <1>1, <1>2, <1>3 DEF TtyInv

LEMMA NextLine ==
  ASSUME NEW n \in Nat, NEW m \in Nat, n < m
  PROVE  /\ (n + 1) % m \in Nat /\ (n + 1) % m < m
         /\ n + 1 = m => (n + 1) % m = 0
         /\ n + 1 # m => n + 1 < m /\ (n + 1) % m = n + 1
OBVIOUS

LEMMA ScrollKeeps ==
  ASSUME TtyInv, Scroll
  PROVE  TtyInv'
<1> USE DEF Scroll, Same
<1>0. line \in Nat /\ line < Height /\ screen \in Screens
  BY DEF TtyInv, TtyTypes, TtyShape
<1>1. PICK n : n = line' /\ n \in Nat /\ n < Height /\ (line + 1 = Height => n = 0) /\ (line + 1 # Height => n = line + 1)
  BY <1>0, NextLine, Sizes
<1>2. TtyTypes'
  <2>1. screen' \in Screens
    BY <1>0, LineTypes
  <2> QED
    BY <1>1, <2>1 DEF TtyInv, TtyTypes, Pcs
<1>3. TtyShape' /\ Quiet'
  BY <1>1 DEF TtyInv, TtyShape, Quiet, Shown, Special
<1>4. ASSUME ~ torn PROVE Stage'
  <2>1. PICK con \in Consoles :
          /\ con.cell = Full /\ cell = (Rows - 1) * Cols /\ screen = ScrollTo(con.screen, line)
          /\ IF Special(Head(todo)) THEN Good(Wrapped(con), Tape(printed)) ELSE Good(con, Tape(printed))
    BY <1>4 DEF TtyInv, Stage, Scrolling
  <2>2. screen' = ScrollTo(con.screen, line + 1)
    <3>1. con.screen \in Screens
      BY DEF Consoles
    <3>2. ScrollTo(con.screen, line + 1) = ScrolledLine(ScrollTo(con.screen, line), line)
      BY <1>0, <3>1, ScrollSoFar
    <3> QED
      BY <2>1, <3>2
  <2>3. CASE line + 1 = Height
    <3>1. screen' = Scrolled(con.screen)
      BY <2>2, <2>3 DEF Scrolled, ScrollTo
    <3>2. Console' = Wrapped(con)
      BY <2>1, <3>1 DEF Console, Wrapped, AtEnd
    <3>3. Placing'
      BY <2>1, <3>2 DEF Placing
    <3> QED
      BY <2>3, <3>3 DEF Stage
  <2>4. CASE line + 1 # Height
    <3>1. screen' = ScrollTo(con.screen, line')
      BY <1>1, <2>2, <2>4
    <3>2. Scrolling'
      BY <2>1, <3>1 DEF Scrolling
    <3> QED
      BY <2>4, <3>2 DEF Stage
  <2> QED
    BY <2>3, <2>4
<1> QED
  BY <1>2, <1>3, <1>4 DEF TtyInv

LEMMA ColKeeps ==
  ASSUME TtyInv, Col
  PROVE  TtyInv'
<1> USE DEF Col, Same
<1>1. TtyTypes'
  BY Sizes DEF TtyInv, TtyTypes, Pcs
<1>2. TtyShape' /\ Quiet'
  BY DEF TtyInv, TtyShape, Quiet, Shown, Special
<1>3. ASSUME ~ torn PROVE Stage'
  <2>1. Placing
    BY <1>3 DEF TtyInv, Stage
  <2>2. Placing'
    BY <2>1 DEF Placing, Console
  <2> QED
    BY <2>2 DEF Stage
<1> QED
  BY <1>1, <1>2, <1>3 DEF TtyInv

LEMMA RowKeeps ==
  ASSUME TtyInv, Row
  PROVE  TtyInv'
<1> USE DEF Row, Same
<1>1. /\ todo # << >> /\ todo \in Seq(STRING) /\ printed \in Seq(STRING) /\ line = 0
      /\ cell \in Int /\ screen \in Screens
  BY DEF TtyInv, TtyTypes, TtyShape
<1>2. PICK c \in STRING : c = Head(todo) /\ Tail(todo) \in Seq(STRING)
  BY <1>1, HeadType
<1>3. b' \in Int
  BY <1>1, Sizes
<1>4. CASE Special(c)
  <2>1. pc' = "idle" /\ todo' = Tail(todo) /\ UNCHANGED printed
    BY <1>2, <1>4
  <2>2. TtyTypes'
    BY <1>2, <1>3, <2>1 DEF TtyInv, TtyTypes, Pcs
  <2>3. TtyShape' /\ Quiet'
    BY <2>1 DEF TtyInv, TtyShape, Quiet, Shown, Special
  <2>4. ASSUME ~ torn PROVE Stage'
    <3>1. Good(Console, Tape(printed))
      BY <1>2, <1>4, <2>4 DEF TtyInv, Stage, Placing
    <3>2. Good(Console', Tape(printed'))
      BY <2>1, <3>1 DEF Console
    <3> QED
      BY <2>1, <3>2 DEF Stage
  <2> QED
    BY <2>2, <2>3, <2>4 DEF TtyInv
<1>5. CASE ~ Special(c)
  <2>1. pc' = "draw" /\ todo' = todo /\ printed' = Append(printed, c)
    BY <1>2, <1>5
  <2>2. TtyTypes'
    <3>1. Append(printed, c) \in Seq(STRING)
      BY <1>1, AppendProperties
    <3> QED
      BY <1>3, <2>1, <3>1 DEF TtyInv, TtyTypes, Pcs
  <2>3. TtyShape' /\ Quiet'
    <3>1. 0 < CharSize /\ ~ Special(Head(todo'))
      BY <1>2, <1>5, <2>1, Sizes
    <3> QED
      BY <1>1, <2>1, <3>1 DEF TtyInv, TtyShape, Quiet, Shown
  <2>4. ASSUME ~ torn PROVE Stage'
    <3>1. a = cell % Cols /\ Placing
      BY <1>2, <1>5, <2>4 DEF TtyInv, Stage
    <3>2. PICK con \in Consoles : Good(con, Tape(printed)) /\ Console = Wrapped(con)
      BY <1>2, <1>5, <3>1 DEF Placing
    <3>3. cell = Wrapped(con).cell /\ screen = Wrapped(con).screen
      BY <3>2 DEF Console
    <3>4. DrawTo(screen, c, a, b', 0) = screen
      <4>1. PICK row \in Int : row = b'
        BY <1>3
      <4>2. a \in Int
        BY DEF TtyInv, TtyTypes
      <4>3. DrawFacts(screen, c, a, row, 0)
        BY <1>1, <4>2, DrawSoFar
      <4> QED
        BY <4>1, <4>3 DEF DrawFacts
    <3>5. Drawing'
      BY <1>1, <1>2, <2>1, <3>1, <3>2, <3>3, <3>4 DEF Drawing
    <3> QED
      BY <2>1, <3>5 DEF Stage
  <2> QED
    BY <2>2, <2>3, <2>4 DEF TtyInv
<1> QED
  BY <1>4, <1>5

LEMMA DrawKeeps ==
  ASSUME TtyInv, Draw
  PROVE  TtyInv'
<1> USE DEF Draw, Same
<1>0. /\ line \in Nat /\ line < CharSize /\ screen \in Screens /\ a \in Int /\ b \in Int
      /\ todo # << >> /\ todo \in Seq(STRING)
  BY DEF TtyInv, TtyTypes, TtyShape
<1>1. PICK n : n = line' /\ n \in Nat /\ n < CharSize /\ (line + 1 = CharSize => n = 0) /\ (line + 1 # CharSize => n = line + 1)
  BY <1>0, NextLine, Sizes
<1>c. PICK c \in STRING : c = Head(todo) /\ ~ Special(c)
  BY <1>0, HeadType DEF TtyInv, TtyShape
<1>2. TtyTypes'
  <2>1. screen' \in Screens
    BY <1>0, <1>c, LineTypes
  <2> QED
    BY <1>1, <2>1 DEF TtyInv, TtyTypes, Pcs
<1>3. TtyShape' /\ Quiet'
  BY <1>1 DEF TtyInv, TtyShape, Quiet, Shown, Special
<1>4. ASSUME ~ torn PROVE Stage'
  <2>1. PICK con \in Consoles, text \in Seq(STRING) :
          /\ printed = Append(text, c) /\ Good(con, Tape(text))
          /\ cell = Wrapped(con).cell /\ a = cell % Cols /\ b = cell \div Cols
          /\ screen = DrawTo(Wrapped(con).screen, c, a, b, line)
    BY <1>4, <1>c DEF TtyInv, Stage, Drawing
  <2>2. PICK w \in Consoles : w = Wrapped(con)
    BY WrappedType
  <2>3. PICK so : so = w.screen /\ so \in Screens
    BY DEF Consoles
  <2>4. screen' = DrawTo(so, c, a, b, line + 1)
    <3>1. DrawFacts(so, c, a, b, line)
      BY <1>0, <2>3, DrawSoFar
    <3>2. screen' = DrawnLine(screen, c, a, b, line)
      BY <1>c
    <3> QED
      BY <2>1, <2>2, <2>3, <3>1, <3>2 DEF DrawFacts
  <2>5. CASE line + 1 = CharSize
    <3>1. screen' = Drawn(so, c, a, b)
      BY <2>4, <2>5, DrawnAll
    <3>2. [cell |-> cell + 1, screen |-> screen'] = Advanced(w, c)
      <4>1. w.cell = cell
        BY <2>1, <2>2
      <4> QED
        BY <2>1, <2>3, <3>1, <4>1, Zenon DEF Advanced
    <3>3. WriteChar(con, c) = Advanced(w, c)
      BY <1>c, <2>2, WriteCharIs
    <3>4. PICK t \in Tapes : t = Tape(text) /\ Tape(Append(text, c)) = Laid(t, c)
      BY TapeSoFar
    <3>5. Good(WriteChar(con, c), Laid(t, c))
      BY <2>1, <3>4, CharacterGood
    <3>6. Good([cell |-> cell + 1, screen |-> screen'], Tape(printed))
      BY <2>1, <3>2, <3>3, <3>4, <3>5
    <3>7. Stepping'
      BY <3>6 DEF Stepping
    <3> QED
      BY <2>5, <3>7 DEF Stage
  <2>6. CASE line + 1 # CharSize
    <3>1. screen' = DrawTo(so, c, a, b, line')
      BY <1>1, <2>4, <2>6
    <3>2. Drawing'
      BY <1>c, <2>1, <2>2, <2>3, <3>1 DEF Drawing
    <3> QED
      BY <2>6, <3>2 DEF Stage
  <2> QED
    BY <2>5, <2>6
<1> QED
  BY <1>2, <1>3, <1>4 DEF TtyInv

LEMMA IncLoadKeeps ==
  ASSUME TtyInv, IncLoad
  PROVE  TtyInv'
<1> USE DEF IncLoad, Same
<1>1. TtyTypes' /\ TtyShape' /\ Quiet'
  BY DEF TtyInv, TtyTypes, TtyShape, Quiet, Shown, Pcs, Special
<1>2. ASSUME ~ torn PROVE Stage'
  <2>1. Stepping
    BY <1>2 DEF TtyInv, Stage
  <2>2. Stepping'
    BY <2>1 DEF Stepping
  <2> QED
    BY <2>2 DEF Stage
<1> QED
  BY <1>1, <1>2 DEF TtyInv

LEMMA IncStoreKeeps ==
  ASSUME TtyInv, IncStore
  PROVE  TtyInv'
<1> USE DEF IncStore, Same
<1>1. todo # << >> /\ todo \in Seq(STRING)
  BY DEF TtyInv, TtyTypes, TtyShape
<1>2. Tail(todo) \in Seq(STRING)
  BY <1>1, HeadType
<1>3. TtyTypes'
  BY <1>2 DEF TtyInv, TtyTypes, Pcs
<1>4. TtyShape' /\ Quiet'
  BY DEF TtyInv, TtyShape, Quiet, Shown, Special
<1>5. ASSUME ~ torn PROVE Stage'
  <2>1. Stepping /\ a = cell
    BY <1>5 DEF TtyInv, Stage
  <2>2. Good(Console', Tape(printed'))
    BY <2>1 DEF Stepping, Console
  <2> QED
    BY <2>2 DEF Stage
<1> QED
  BY <1>3, <1>4, <1>5 DEF TtyInv

-----------------------------------------------------------------------------
(* The code around it. *)

LEMMA ShownType ==
  ASSUME NEW text \in Seq(STRING)
  PROVE  Shown(text) \in Seq(STRING)
BY EmptySeq DEF Shown

LEMMA UpKeeps ==
  ASSUME TtyInv, InitVideo \/ InitTty
  PROVE  TtyInv'
<1> USE DEF InitVideo, InitTty, Idle
<1>1. TtyTypes'
  BY BlankGood DEF TtyInv, TtyTypes
<1>2. TtyShape' /\ Quiet'
  BY DEF TtyInv, TtyShape, Quiet
<1>3. ASSUME ~ torn PROVE Stage'
  <2>1. Good(Console, Tape(printed)) /\ cell' = cell /\ printed' = printed /\ pc' = "idle"
    BY <1>3 DEF TtyInv, Stage
  <2>2. screen' = screen
    BY DEF TtyInv, Quiet
  <2>3. Good(Console', Tape(printed'))
    BY <2>1, <2>2 DEF Console
  <2> QED
    BY <2>1, <2>3 DEF Stage
<1> QED
  BY <1>1, <1>2, <1>3 DEF TtyInv

LEMMA KprintfKeeps ==
  ASSUME TtyInv, KprintfEarly \/ \E m \in Messages : Kprintf(m)
  PROVE  TtyInv'
<1>1. /\ UNCHANGED <<up, screen, cell, pc, a, b, line, printed, torn, panicking, interrupts>>
      /\ Idle /\ panicking = "no"
  BY DEF KprintfEarly, Kprintf
<1>2. todo' \in Seq(STRING) /\ (up # "tty" => todo' = << >>)
  <2>1. CASE KprintfEarly
    BY <2>1 DEF KprintfEarly, TtyInv, TtyTypes, Quiet
  <2>2. ASSUME NEW m \in Messages, Kprintf(m) PROVE todo' \in Seq(STRING) /\ (up # "tty" => todo' = << >>)
    <3>1. PICK text \in Seq(STRING) : text = Vsprintf(m[1], m[2])
      BY TextAssumption
    <3>2. todo' = Shown(text)
      BY <2>2, <3>1 DEF Kprintf
    <3>3. Shown(text) \in Seq(STRING)
      BY ShownType
    <3> QED
      BY <3>2, <3>3 DEF Shown
  <2> QED
    BY <2>1, <2>2
<1>3. TtyTypes'
  BY <1>1, <1>2 DEF TtyInv, TtyTypes
<1>4. TtyShape' /\ Quiet'
  BY <1>1, <1>2 DEF TtyInv, TtyShape, Quiet, Idle
<1>5. ASSUME ~ torn PROVE Stage'
  <2>1. Good(Console', Tape(printed'))
    BY <1>1, <1>5 DEF TtyInv, Stage, Console, Idle
  <2> QED
    BY <1>1, <2>1 DEF Stage, Idle
<1> QED
  BY <1>1, <1>3, <1>4, <1>5 DEF TtyInv

LEMMA PanicKeeps ==
  ASSUME TtyInv, Panic
  PROVE  TtyInv'
<1> USE DEF Panic, Idle
<1>1. PICK text \in Seq(STRING) : text = PanicMessage
  BY TextAssumption
<1>2. todo' = Shown(text) /\ todo' \in Seq(STRING) /\ (up # "tty" => todo' = << >>)
  BY <1>1, ShownType DEF Shown
<1>3. << >> \in Seq(STRING)
  BY EmptySeq, Zenon
<1>4. TtyTypes'
  <2>1. /\ screen' \in Screens /\ cell' \in Int /\ panicking' \in {"no", "base", "handler"}
        /\ todo' \in Seq(STRING) /\ printed' \in Seq(STRING) /\ torn' \in BOOLEAN
    <3>1. screen' \in Screens
      BY BlankGood
    <3>2. todo' \in Seq(STRING)
      BY <1>2
    <3>3. printed' = << >> /\ cell' = 0 /\ torn' = FALSE /\ panicking' = "base"
      OBVIOUS
    <3>4. printed' \in Seq(STRING)
      BY <1>3, <3>3, Zenon
    <3>5a. torn' \in BOOLEAN
      BY <3>3, Zenon
    <3>5b. cell' \in Int
      BY <3>3
    <3>6. panicking' \in {"no", "base", "handler"}
      BY <3>3
    <3> QED
      BY <3>1, <3>2, <3>4, <3>5a, <3>5b, <3>6, Zenon
  <2>2. UNCHANGED <<up, a, b, line, pc>>
    OBVIOUS
  <2> QED
    BY <2>1, <2>2 DEF TtyInv, TtyTypes
<1>5. TtyShape' /\ Quiet'
  BY <1>2 DEF TtyInv, TtyShape, Quiet
<1>6. Stage'
  <2>1. Good(Console', Tape(printed'))
    BY BlankGood, TapeOfNothing DEF Console
  <2> QED
    BY <2>1 DEF Stage
<1> QED
  BY <1>4, <1>5, <1>6 DEF TtyInv

LEMMA PanicInHandlerKeeps ==
  ASSUME TtyInv, PanicInHandler
  PROVE  TtyInv'
<1>1. PICK text \in Seq(STRING) : text = Shown(PanicMessage)
  BY ShownType, TextAssumption
<1>2. PICK con \in Consoles : con = [cell |-> 0, screen |-> Clear]
  BY BlankGood
<1>3. PICK new \in Consoles : new = Put(con, text)
  BY PutSoFar, Sizes
<1>4. /\ screen' = new.screen /\ cell' = new.cell /\ printed' = text /\ torn' = FALSE /\ todo' = << >>
      /\ pc' = "halted" /\ panicking' = "handler" /\ UNCHANGED <<up, a, b, line>>
  BY <1>1, <1>2, <1>3, Zenon DEF PanicInHandler
<1>5. Good(new, Tape(text))
  <2>1. << >> \in Seq(STRING) /\ << >> \o text = text
    BY EmptySeq, ConcatEmptySeq, Zenon
  <2>2. Good(con, Tape(<< >>))
    BY <1>2, BlankGood, TapeOfNothing
  <2>3. Good(Put(con, text), Tape(<< >> \o text))
    BY <2>1, <2>2, PutGood
  <2> QED
    BY <1>3, <2>1, <2>3
<1>6. up # "tty" => text = << >> /\ new = con
  <2>1. Put(con, << >>) = con
    BY PutSoFar, Sizes
  <2> QED
    BY <1>1, <1>3, <2>1 DEF Shown
<1>7. TtyTypes'
  <2>1. << >> \in Seq(STRING)
    BY EmptySeq, Zenon
  <2>2. new.screen \in Screens /\ new.cell \in Int
    BY DEF Consoles
  <2> QED
    BY <1>4, <2>1, <2>2 DEF TtyInv, TtyTypes, Pcs
<1>8. TtyShape'
  BY <1>4 DEF TtyShape
<1>9. Quiet'
  <2>1. Shown(PanicMessage)' = text
    BY <1>1, <1>4 DEF Shown
  <2>2. up # "tty" => cell' = 0 /\ screen' = Clear /\ printed' = << >>
    BY <1>2, <1>4, <1>6
  <2> QED
    BY <1>4, <2>1, <2>2 DEF Quiet
<1>10. Stage'
  <2>1. Console' = new
    BY <1>4 DEF Console, Consoles
  <2> QED
    BY <1>4, <1>5, <2>1 DEF Stage
<1> QED
  BY <1>7, <1>8, <1>9, <1>10 DEF TtyInv

LEMMA HaltKeeps ==
  ASSUME TtyInv, Halt
  PROVE  TtyInv'
<1> USE DEF Halt, Idle
<1>1. TtyTypes' /\ TtyShape' /\ Quiet'
  BY DEF TtyInv, TtyTypes, TtyShape, Quiet, Pcs
<1>2. ASSUME ~ torn PROVE Stage'
  <2>1. Good(Console', Tape(printed'))
    BY <1>2 DEF TtyInv, Stage, Console
  <2> QED
    BY <2>1 DEF Stage
<1> QED
  BY <1>1, <1>2 DEF TtyInv

\* A handler prints between two steps.
LEMMA InterruptKeeps ==
  ASSUME TtyInv, Interrupt
  PROVE  TtyInv'
<1>1. /\ UNCHANGED <<up, todo, pc, a, b, line, panicking>>
      /\ panicking # "handler"
      /\ torn' = (torn \/ (up = "tty" /\ ~ Safe))
      /\ screen' = Put(Console, Shown(HandlerMessage)).screen
      /\ cell' = Put(Console, Shown(HandlerMessage)).cell
      /\ printed' = printed \o Shown(HandlerMessage)
  BY DEF Interrupt
<1>2. Console \in Consoles /\ printed \in Seq(STRING) /\ torn \in BOOLEAN
  BY ConsoleType DEF TtyInv, TtyTypes
<1>3. torn' \in BOOLEAN /\ (~ torn' => ~ torn /\ (up = "tty" => Safe))
  BY <1>1, <1>2
<1>4. CASE up # "tty" \/ HandlerMessage = << >>
  <2>1. Shown(HandlerMessage) = << >>
    BY <1>4 DEF Shown
  <2>2. Put(Console, << >>) = Console
    BY <1>2, PutSoFar, Sizes
  <2>3. printed \o << >> = printed
    BY <1>2, ConcatEmptySeq, Zenon
  <2>4. screen' = screen /\ cell' = cell /\ printed' = printed
    BY <1>1, <2>1, <2>2, <2>3 DEF Console
  <2>5. TtyTypes'
    BY <1>1, <1>3, <2>4 DEF TtyInv, TtyTypes
  <2>6. TtyShape' /\ Quiet'
    BY <1>1, <2>4 DEF TtyInv, TtyShape, Quiet
  <2>7. ASSUME ~ torn PROVE Stage'
    <3>1. Stage /\ Console' = Console
      BY <2>4, <2>7 DEF TtyInv, Console
    <3>2. /\ Returning = Returning' /\ Checking = Checking' /\ Scrolling = Scrolling' /\ Placing = Placing'
          /\ Drawing = Drawing' /\ Stepping = Stepping'
      BY <1>1, <2>4, <3>1 DEF Returning, Checking, Scrolling, Placing, Drawing, Stepping
    <3> QED
      BY <1>1, <2>4, <3>1, <3>2 DEF Stage
  <2> QED
    BY <1>3, <2>5, <2>6, <2>7 DEF TtyInv
<1>5. CASE up = "tty" /\ HandlerMessage # << >>
  <2>1. PICK text \in Seq(STRING) : text = HandlerMessage
    BY TextAssumption
  <2>2. Shown(HandlerMessage) = text
    BY <1>5, <2>1 DEF Shown
  <2>3. PICK new \in Consoles : new = Put(Console, text)
    BY <1>2, PutSoFar, Sizes
  <2>4. screen' = new.screen /\ cell' = new.cell /\ printed' = printed \o text
    BY <1>1, <2>2, <2>3
  <2>5. Console' = new
    BY <2>4 DEF Console, Consoles
  <2>6. TtyTypes'
    <3>1. printed \o text \in Seq(STRING)
      BY <1>2, ConcatProperties
    <3>2. new.screen \in Screens /\ new.cell \in Int
      BY DEF Consoles
    <3> QED
      BY <1>1, <1>3, <2>4, <3>1, <3>2 DEF TtyInv, TtyTypes
  <2>7. TtyShape' /\ Quiet'
    BY <1>1, <1>5 DEF TtyInv, TtyShape, Quiet
  <2>8. ASSUME ~ torn' PROVE Stage'
    <3>1. Stage /\ Safe
      BY <1>3, <1>5, <2>8 DEF TtyInv
    <3>2. /\ Good(Console, Tape(printed)) => Ready(Console, Tape(printed))
          /\ Good(Wrapped(Console), Tape(printed)) => Ready(Console, Tape(printed))
          /\ (\E was \in Consoles : Good(was, Tape(printed)) /\ Console = Wrapped(was)) => Ready(Console, Tape(printed))
      BY <1>2, ReadyWhen
    <3>3. Ready(Console, Tape(printed))
      <4>1. CASE pc \in {"idle", "nl_load", "halted"}
        BY <3>1, <3>2, <4>1 DEF Stage
      <4>2. CASE pc = "check"
        BY <3>1, <3>2, <4>2 DEF Stage, Checking
      <4>3. CASE pc = "col"
        BY <3>1, <3>2, <4>3 DEF Stage, Placing
      <4>4. CASE pc = "cr_load" /\ Head(todo) = CR
        <5>1. PICK con \in Consoles : Good(con, Tape(printed)) /\ screen = con.screen /\ cell = con.cell
          BY <3>1, <4>4, Sizes DEF Stage, Returning
        <5>2. Console = con
          BY <5>1 DEF Console, Consoles
        <5> QED
          BY <3>2, <5>1, <5>2
      <4>5. CASE pc = "row" /\ Special(Head(todo))
        BY <3>1, <3>2, <4>5 DEF Stage, Placing
      <4> QED
        BY <3>1, <4>1, <4>2, <4>3, <4>4, <4>5 DEF Safe
    <3>4. Good(new, Tape(printed')) /\ new.cell # Full
      BY <1>2, <1>5, <2>1, <2>3, <2>4, <3>3, HandlerLine
    <3>5. Wrapped(new) = new
      BY <3>4 DEF Wrapped, AtEnd
    <3>6. Checking' /\ Placing'
      BY <2>5, <3>4, <3>5 DEF Checking, Placing
    <3>7. Head(todo) = CR => Returning'
      BY <1>1, <2>4, <3>4, Sizes DEF Returning
    <3> QED
      BY <1>1, <2>5, <3>1, <3>4, <3>6, <3>7 DEF Stage, Safe
  <2> QED
    BY <1>3, <2>6, <2>7, <2>8 DEF TtyInv
<1> QED
  BY <1>4, <1>5

LEMMA TtyStutters ==
  ASSUME TtyInv, UNCHANGED ttyVars
  PROVE  TtyInv'
<1> USE DEF ttyVars
<1>1. TtyTypes' /\ TtyShape' /\ Quiet'
  BY DEF TtyInv, TtyTypes, TtyShape, Quiet, Shown
<1>2. ASSUME ~ torn PROVE Stage'
  <2>1. Stage /\ Console' = Console
    BY <1>2 DEF TtyInv, Console
  <2>2. /\ Returning = Returning' /\ Checking = Checking' /\ Scrolling = Scrolling' /\ Placing = Placing'
        /\ Drawing = Drawing' /\ Stepping = Stepping'
    BY <2>1 DEF Returning, Checking, Scrolling, Placing, Drawing, Stepping
  <2> QED
    BY <2>1, <2>2 DEF Stage
<1> QED
  BY <1>1, <1>2 DEF TtyInv

LEMMA TtyStep ==
  TtyInv /\ [TtyNext]_ttyVars => TtyInv'
<1> SUFFICES ASSUME TtyInv, [TtyNext]_ttyVars PROVE TtyInv'
  OBVIOUS
<1>1. CASE WriteCharStep
  BY <1>1, FetchKeeps, NlLoadKeeps, NlStoreKeeps, CrLoadKeeps, CrModKeeps, CrStoreKeeps, CheckKeeps,
     WrapKeeps, ScrollKeeps, ColKeeps, RowKeeps, DrawKeeps, IncLoadKeeps, IncStoreKeeps DEF WriteCharStep
<1>2. CASE InitVideo \/ InitTty
  BY <1>2, UpKeeps
<1>3. CASE KprintfEarly \/ \E m \in Messages : Kprintf(m)
  BY <1>3, KprintfKeeps
<1>4. CASE Panic
  BY <1>4, PanicKeeps
<1>5. CASE PanicInHandler
  BY <1>5, PanicInHandlerKeeps
<1>6. CASE Halt
  BY <1>6, HaltKeeps
<1>7. CASE Interrupt
  BY <1>7, InterruptKeeps
<1>8. CASE UNCHANGED ttyVars
  BY <1>8, TtyStutters
<1> QED
  BY <1>1, <1>2, <1>3, <1>4, <1>5, <1>6, <1>7, <1>8 DEF TtyNext

\* The invariant of the console: between the steps of write_char, and for an
\* interrupt between any two of them, the cursor and the screen are what the
\* characters printed and the part done of the next one make of them.
THEOREM ConsoleIsInductive ==
  TtySpec => []TtyInv
<1>1. TtyInit => TtyInv
  BY TtyInitInv
<1>2. TtyInv /\ [TtyNext]_ttyVars => TtyInv'
  BY TtyStep
<1> QED
  BY <1>1, <1>2, PTL DEF TtySpec

LEMMA RestIsGood ==
  ASSUME TtyInv, AtRest, ~ torn
  PROVE  Good(Console, Tape(printed))
BY DEF TtyInv, Stage, AtRest

\* For every size of screen and glyph, every text and every interrupt: the
\* cursor leaves the screen exactly with a newline after a full last row, or
\* in the critical part of write_char (tty.c:85).
THEOREM CursorStays ==
  TtySpec => []CursorLostOnlyAtFullRow
<1>1. TtyInv => CursorLostOnlyAtFullRow
  <2> SUFFICES ASSUME TtyInv, AtRest, ~ torn PROVE cell > Full <=> Tape(printed).past
    BY DEF CursorLostOnlyAtFullRow
  <2>1. Good(Console, Tape(printed)) /\ Console.cell = cell
    BY RestIsGood DEF Console
  <2>2. Full \in Nat /\ Cols >= 1 /\ Cols \in Nat /\ cell \in Int
    BY TotalType, Sizes DEF TtyInv, TtyTypes
  <2>3. CASE Lost(Console, Tape(printed))
    BY <2>1, <2>2, <2>3 DEF Lost
  <2>4. CASE ~ Tape(printed).past /\ Rep(Console, Tape(printed))
    BY <2>1, <2>2, <2>4 DEF Rep
  <2> QED
    BY <2>1, <2>3, <2>4 DEF Good
<1> QED
  BY <1>1, ConsoleIsInductive, PTL

LEMMA PicturedShows ==
  ASSUME NEW text, Pictured(screen, Tape(text))
  PROVE  Shows(text)
BY DEF Pictured, Like, Shows

\* For every size of screen and glyph: wrapping, newlines, returns and
\* scrolling by copying pixels, interrupted between two characters or not,
\* show the last rows of what was printed (tty.c and video.c).
THEOREM ScreenIsText ==
  TtySpec => []ScreenShowsText
<1>1. TtyInv => ScreenShowsText
  <2> SUFFICES ASSUME TtyInv, AtRest, ~ torn, ~ Tape(printed).past PROVE Shows(printed)
    BY DEF ScreenShowsText
  <2>1. Good(Console, Tape(printed)) /\ Console.screen = screen
    BY RestIsGood DEF Console
  <2>2. Pictured(screen, Tape(printed))
    BY <2>1 DEF Good, Lost, Rep
  <2> QED
    BY <2>2, PicturedShows
<1> QED
  BY <1>1, ConsoleIsInductive, PTL

\* Whatever became of the cursor and the screen before: a panic that is not
\* interrupted ends with its own text on the screen, and one in a handler
\* cannot be interrupted (kernel/panic.c, keyboard.c).
THEOREM PanicIsSeen ==
  TtySpec => []PanicIsShown
<1>1. TtyInv => PanicIsShown
  <2> SUFFICES ASSUME TtyInv PROVE PanicIsShown
    OBVIOUS
  <2>1. panicking = "handler" => pc = "halted" /\ printed = Shown(PanicMessage)
    BY DEF TtyInv, Quiet
  <2>2. ASSUME pc = "halted", printed = Shown(PanicMessage), ~ torn
        PROVE  Shows(printed) /\ cell <= Full
    <3>1. ~ Tape(printed).past
      <4>1. ~ Tape(<< >>).past
        BY TapeOfNothing DEF BlankTape
      <4>2. printed = PanicMessage \/ printed = << >>
        BY <2>2 DEF Shown
      <4> QED
        BY <4>1, <4>2, TextAssumption
    <3>2. Good(Console, Tape(printed)) /\ Console.screen = screen /\ Console.cell = cell
      BY <2>2, RestIsGood DEF Console, AtRest
    <3>3. Pictured(screen, Tape(printed)) /\ cell \in 0 .. Full
      BY <3>1, <3>2 DEF Good, Lost, Rep
    <3>4. Shows(printed)
      BY <3>3, PicturedShows
    <3> QED
      BY <3>3, <3>4, TotalType
  <2> QED
    BY <2>1, <2>2 DEF PanicIsShown
<1> QED
  BY <1>1, ConsoleIsInductive, PTL

-----------------------------------------------------------------------------
(* Formatted output.  The loops and the reading of a numeral are folds whose *)
(* values have no type: what a conversion makes of a missing argument is not *)
(* defined.  So the operator itself is folded, "k" saying which.             *)

Does(k, x, c) == CASE k[1] = "vsprintf" -> VTurn(x, c)
                   [] k[1] = "sprintf"  -> STurn(x, c)
                   [] k[1] = "numeral"  -> x * k[2] + Value(c)

\* g has what the fold comes to over every set of the first n positions.
Reads(g, k, base, text, n) ==
  \A s \in SUBSET (1 .. n) :
    g[s] = IF s = {} THEN base ELSE Does(k, g[s \ {Max(s)}], text[Max(s)])

\* The fold over text of what "k" does comes to x.
Comes(k, base, text, x) ==
  \E g : Reads(g, k, base, text, Len(text)) /\ x = g[1 .. Len(text)]

\* A set of positions ends with the last of them or lies before it.
LEMMA Positions ==
  ASSUME NEW n \in Nat, NEW s \in SUBSET (1 .. n + 1)
  PROVE  /\ n + 1 \in s => Max(s) = n + 1 /\ s \ {n + 1} \in SUBSET (1 .. n) /\ s # {}
         /\ n + 1 \notin s => s \in SUBSET (1 .. n)
         /\ n + 1 \notin s /\ s # {} => Max(s) \in 1 .. n /\ s \ {Max(s)} \in SUBSET (1 .. n)
<1>1. ASSUME n + 1 \in s PROVE Max(s) = n + 1
  BY <1>1, MaxLast
<1>2. ASSUME n + 1 \notin s PROVE s \in SUBSET (1 .. n)
  BY <1>2
<1>3. ASSUME n + 1 \notin s, s # {} PROVE Max(s) \in 1 .. n /\ s \ {Max(s)} \in SUBSET (1 .. n)
  <2>1. s \in SUBSET (1 .. n)
    BY <1>2, <1>3
  <2>2. Max(s) \in s
    BY <1>3, <2>1, MaxOf
  <2> QED
    BY <2>1, <2>2
<1> QED
  BY <1>1, <1>2, <1>3

LEMMA ReadsNothing ==
  ASSUME NEW k, NEW base, NEW text
  PROVE  \A g : Reads(g, k, base, text, 0) <=> g[{}] = base
<1>1. SUBSET (1 .. 0) = {{}}
  OBVIOUS
<1> QED
  BY <1>1 DEF Reads

LEMMA ReadsOn ==
  ASSUME NEW k, NEW base, NEW text, NEW n \in Nat, NEW g, Reads(g, k, base, text, n)
  PROVE  \E h : Reads(h, k, base, text, n + 1)
<1> DEFINE h == [s \in SUBSET (1 .. n + 1) |->
                   IF n + 1 \in s THEN Does(k, g[s \ {n + 1}], text[n + 1]) ELSE g[s]]
<1>1. \A s \in SUBSET (1 .. n) : h[s] = g[s]
  OBVIOUS
<1>2. \A s \in SUBSET (1 .. n + 1) : n + 1 \in s => h[s] = Does(k, g[s \ {n + 1}], text[n + 1])
  OBVIOUS
<1> HIDE DEF h
<1>3. ASSUME NEW s \in SUBSET (1 .. n + 1)
      PROVE  h[s] = IF s = {} THEN base ELSE Does(k, h[s \ {Max(s)}], text[Max(s)])
  <2>1. CASE n + 1 \in s
    BY <1>1, <1>2, <2>1, Positions
  <2>2. CASE n + 1 \notin s
    <3>1. s \in SUBSET (1 .. n)
      BY <2>2, Positions
    <3>2. h[s] = g[s] /\ g[s] = IF s = {} THEN base ELSE Does(k, g[s \ {Max(s)}], text[Max(s)])
      BY <1>1, <3>1 DEF Reads
    <3>3. CASE s = {}
      BY <3>2, <3>3
    <3>4. CASE s # {}
      <4>1. h[s \ {Max(s)}] = g[s \ {Max(s)}]
        BY <1>1, <2>2, <3>4, Positions
      <4> QED
        BY <3>2, <3>4, <4>1
    <3> QED
      BY <3>3, <3>4
  <2> QED
    BY <2>1, <2>2
<1> QED
  BY <1>3 DEF Reads

LEMMA ReadsExist ==
  ASSUME NEW k, NEW base, NEW text, NEW n \in Nat
  PROVE  \E g : Reads(g, k, base, text, n)
<1> DEFINE T == {m \in Nat : \E g : Reads(g, k, base, text, m)}
<1>1. 0 \in T
  <2>1. PICK g : g = [s \in {{}} |-> base]
    OBVIOUS
  <2>2. Reads(g, k, base, text, 0)
    BY <2>1, ReadsNothing
  <2> QED
    BY <2>2
<1>2. ASSUME NEW m \in Nat, m \in T PROVE m + 1 \in T
  BY <1>2, ReadsOn
<1> HIDE DEF T
<1>3. n \in T
  BY <1>1, <1>2, SetInduction
<1> QED
  BY <1>3 DEF T

\* What a fold has come to depends on what it has read only.
LEMMA ReadsAgree ==
  ASSUME NEW k, NEW base, NEW text, NEW more, NEW n \in Nat, \A i \in 1 .. n : text[i] = more[i],
         NEW g, Reads(g, k, base, text, n), NEW h, Reads(h, k, base, more, n)
  PROVE  \A s \in SUBSET (1 .. n) : g[s] = h[s]
<1> DEFINE Alike(m) == \A s \in SUBSET (1 .. m) : g[s] = h[s]
           T == {m \in Nat : m <= n => Alike(m)}
<1>1. 0 \in T
  <2>1. {} \in SUBSET (1 .. n) /\ SUBSET (1 .. 0) = {{}}
    OBVIOUS
  <2>2. g[{}] = base /\ h[{}] = base
    BY <2>1 DEF Reads
  <2> QED
    BY <2>1, <2>2
<1>2. ASSUME NEW m \in Nat, m \in T PROVE m + 1 \in T
  <2> SUFFICES ASSUME m + 1 <= n PROVE Alike(m + 1)
    <3> HIDE DEF Alike
    <3> QED
      OBVIOUS
  <2>0. Alike(m)
    <3> HIDE DEF Alike
    <3> QED
      BY <1>2
  <2> SUFFICES ASSUME NEW s \in SUBSET (1 .. m + 1), m + 1 \in s PROVE g[s] = h[s]
    BY <2>0, Positions
  <2>1. Max(s) = m + 1 /\ s \ {m + 1} \in SUBSET (1 .. m) /\ s # {}
    BY Positions
  <2>2. s \in SUBSET (1 .. n) /\ text[m + 1] = more[m + 1]
    OBVIOUS
  <2>3. g[s] = Does(k, g[s \ {m + 1}], text[m + 1])
    BY <2>1, <2>2 DEF Reads
  <2>4. h[s] = Does(k, h[s \ {m + 1}], more[m + 1])
    BY <2>1, <2>2 DEF Reads
  <2>5. g[s \ {m + 1}] = h[s \ {m + 1}]
    BY <2>0, <2>1
  <2> QED
    BY <2>2, <2>3, <2>4, <2>5
<1>3. n \in T
  <2> HIDE DEF T
  <2> QED
    BY <1>1, <1>2, SetInduction
<1> QED
  BY <1>3

LEMMA ComesOnce ==
  ASSUME NEW C, NEW text \in Seq(C), NEW k, NEW base,
         NEW x, Comes(k, base, text, x), NEW y, Comes(k, base, text, y)
  PROVE  x = y
<1>1. PICK g : Reads(g, k, base, text, Len(text)) /\ x = g[1 .. Len(text)]
  BY DEF Comes
<1>2. PICK h : Reads(h, k, base, text, Len(text)) /\ y = h[1 .. Len(text)]
  BY DEF Comes
<1>3. Len(text) \in Nat
  OBVIOUS
<1>4. \A s \in SUBSET (1 .. Len(text)) : g[s] = h[s]
  BY <1>1, <1>2, <1>3, ReadsAgree
<1> QED
  BY <1>1, <1>2, <1>4

LEMMA ComesSomewhere ==
  ASSUME NEW C, NEW text \in Seq(C), NEW k, NEW base
  PROVE  \E x : Comes(k, base, text, x)
<1>1. Len(text) \in Nat
  OBVIOUS
<1> QED
  BY <1>1, ReadsExist DEF Comes

LEMMA ComesNowhere ==
  ASSUME NEW k, NEW base
  PROVE  Comes(k, base, << >>, base)
<1>1. PICK e : e = << >>
  OBVIOUS
<1>2. Len(e) = 0 /\ 1 .. Len(e) = {}
  BY <1>1
<1>3. PICK g : g = [s \in {{}} |-> base]
  OBVIOUS
<1>4. Reads(g, k, base, e, 0) /\ base = g[{}]
  BY <1>3, ReadsNothing
<1>5. Comes(k, base, e, base)
  BY <1>2, <1>4 DEF Comes
<1> QED
  BY <1>1, <1>5

LEMMA ComesFurther ==
  ASSUME NEW C, NEW text \in Seq(C), NEW c \in C, NEW k, NEW base, NEW x, Comes(k, base, text, x)
  PROVE  Comes(k, base, Append(text, c), Does(k, x, c))
<1>1. PICK n \in Nat : n = Len(text)
  OBVIOUS
<1>2. PICK more : more = Append(text, c)
  OBVIOUS
<1>3. Len(more) = n + 1 /\ more[n + 1] = c /\ \A i \in 1 .. n : text[i] = more[i]
  BY <1>1, <1>2
<1>4. PICK g : Reads(g, k, base, text, n) /\ x = g[1 .. n]
  BY <1>1 DEF Comes
<1>5. PICK h : Reads(h, k, base, more, n + 1)
  BY ReadsExist
<1>6. Reads(h, k, base, more, n)
  <2>1. \A s \in SUBSET (1 .. n) : s \in SUBSET (1 .. n + 1)
    OBVIOUS
  <2> QED
    BY <1>5, <2>1, Zenon DEF Reads
<1>7. \A s \in SUBSET (1 .. n) : g[s] = h[s]
  BY <1>3, <1>4, <1>6, ReadsAgree
<1>8. PICK s : s = 1 .. n + 1
  OBVIOUS
<1>9. s \in SUBSET (1 .. n + 1) /\ n + 1 \in s /\ s \ {n + 1} = 1 .. n /\ s # {}
  BY <1>8
<1>10. Max(s) = n + 1
  BY <1>9, Positions
<1>11. h[s] = Does(k, x, c)
  <2>1. h[s] = Does(k, h[s \ {n + 1}], more[n + 1])
    BY <1>5, <1>9, <1>10 DEF Reads
  <2>2. h[1 .. n] = x
    BY <1>4, <1>7
  <2> QED
    BY <1>3, <1>9, <2>1, <2>2
<1>12. Comes(k, base, more, Does(k, x, c))
  <2>1. Reads(h, k, base, more, Len(more))
    BY <1>3, <1>5
  <2>2. Does(k, x, c) = h[1 .. Len(more)]
    BY <1>3, <1>8, <1>11
  <2> QED
    BY <2>1, <2>2 DEF Comes
<1> QED
  BY <1>2, <1>12

\* One text after the other.
LEMMA ComesJoined ==
  ASSUME NEW C, NEW text \in Seq(C), NEW more \in Seq(C), NEW k, NEW base,
         NEW x, Comes(k, base, text, x), NEW y, Comes(k, x, more, y)
  PROVE  Comes(k, base, text \o more, y)
<1> DEFINE Joined(m) == \A z : Comes(k, x, SubSeq(more, 1, m), z) => Comes(k, base, text \o SubSeq(more, 1, m), z)
           T == {m \in Nat : m <= Len(more) => Joined(m)}
<1>0. Len(more) \in Nat
  OBVIOUS
<1>1. 0 \in T
  <2>1. SubSeq(more, 1, 0) = << >>
    OBVIOUS
  <2>2. PICK e : e = << >>
    OBVIOUS
  <2>3. e \in Seq(C) /\ Comes(k, x, e, x)
    BY <2>2, ComesNowhere
  <2>4. \A z : Comes(k, x, e, z) => z = x
    BY <2>3, ComesOnce
  <2>5. text \o e = text
    BY <2>2
  <2>6. \A z : Comes(k, x, e, z) => Comes(k, base, text \o e, z)
    BY <2>4, <2>5
  <2>7. Joined(0)
    BY <2>1, <2>2, <2>6
  <2> QED
    BY <2>7
<1>2. ASSUME NEW m \in Nat, m \in T PROVE m + 1 \in T
  <2> SUFFICES ASSUME m + 1 <= Len(more) PROVE Joined(m + 1)
    <3> HIDE DEF Joined
    <3> QED
      OBVIOUS
  <2>0. Joined(m)
    <3> HIDE DEF Joined
    <3> QED
      BY <1>0, <1>2
  <2>1. PICK p : p = SubSeq(more, 1, m) /\ p \in Seq(C)
    <3>1. \A i \in 1 .. m : i \in DOMAIN more
      BY <1>0
    <3>2. SubSeq(more, 1, m) \in Seq(C)
      BY <3>1, SubSeqProperties
    <3> QED
      BY <3>2
  <2>2. PICK c \in C : c = more[m + 1]
    BY <1>0
  <2>3. SubSeq(more, 1, m + 1) = Append(p, c)
    BY <1>0, <2>1, <2>2
  <2>4. text \o Append(p, c) = Append(text \o p, c)
    BY <2>1, <2>2
  <2>5. PICK q : q = text \o p /\ q \in Seq(C)
    BY <2>1, ConcatProperties, Zenon
  <2>6. PICK z : Comes(k, x, p, z)
    BY <2>1, ComesSomewhere
  <2>7. Comes(k, base, q, z)
    BY <2>0, <2>1, <2>5, <2>6
  <2>8. Comes(k, x, Append(p, c), Does(k, z, c)) /\ Comes(k, base, Append(q, c), Does(k, z, c))
    BY <2>1, <2>2, <2>5, <2>6, <2>7, ComesFurther
  <2>9. \A w : Comes(k, x, Append(p, c), w) => w = Does(k, z, c)
    <3>1. PICK r : r = Append(p, c) /\ r \in Seq(C)
      BY <2>1, <2>2, AppendProperties, Zenon
    <3> QED
      BY <2>8, <3>1, ComesOnce
  <2> QED
    BY <2>3, <2>4, <2>5, <2>8, <2>9
<1>3. Len(more) \in T
  <2> HIDE DEF T
  <2> QED
    BY <1>0, <1>1, <1>2, SetInduction
<1>4. Joined(Len(more))
  BY <1>0, <1>3
<1>5. SubSeq(more, 1, Len(more)) = more
  OBVIOUS
<1> QED
  BY <1>4, <1>5
-----------------------------------------------------------------------------
(* The folds of the code are those.                                          *)

\* The folds there are: the two loops, and a numeral being read.
VLoop == <<"vsprintf", 0>>
SLoop == <<"sprintf", 0>>
InBase(radix) == <<"numeral", radix>>

LEMMA DoesV ==
  \A x, c : Does(VLoop, x, c) = VTurn(x, c)
BY DEF Does, VLoop

LEMMA DoesS ==
  \A x, c : Does(SLoop, x, c) = STurn(x, c)
BY DEF Does, SLoop

LEMMA DoesN ==
  ASSUME NEW radix
  PROVE  \A x, c : Does(InBase(radix), x, c) = x * radix + Value(c)
BY DEF Does, InBase

\* The functions FoldLeft is defined by, for each of them.
VSteps(base, text) ==
  CHOOSE g : g = [s \in SUBSET DOMAIN text |->
                    IF s = {} THEN base ELSE VTurn(g[s \ {Max(s)}], text[Max(s)])]
SSteps(base, text) ==
  CHOOSE g : g = [s \in SUBSET DOMAIN text |->
                    IF s = {} THEN base ELSE STurn(g[s \ {Max(s)}], text[Max(s)])]
NSteps(radix, text) ==
  CHOOSE g : g = [s \in SUBSET DOMAIN text |->
                    IF s = {} THEN 0 ELSE g[s \ {Max(s)}] * radix + Value(text[Max(s)])]

\* A function that reads the text can be cut to the sets of positions.
IsCut(g, k, base, text) ==
  g = [s \in SUBSET DOMAIN text |->
         IF s = {} THEN base ELSE Does(k, g[s \ {Max(s)}], text[Max(s)])]

LEMMA Cut ==
  ASSUME NEW C, NEW text \in Seq(C), NEW k, NEW base
  PROVE  \E g : IsCut(g, k, base, text)
<1>1. DOMAIN text = 1 .. Len(text) /\ Len(text) \in Nat
  OBVIOUS
<1>2. PICK f : Reads(f, k, base, text, Len(text))
  BY <1>1, ReadsExist
<1>3. PICK g : g = [s \in SUBSET DOMAIN text |-> f[s]]
  OBVIOUS
<1>4. \A s \in SUBSET DOMAIN text : f[s \ {Max(s)}] = g[s \ {Max(s)}]
  BY <1>3
<1>5. g = [s \in SUBSET DOMAIN text |->
             IF s = {} THEN base ELSE Does(k, g[s \ {Max(s)}], text[Max(s)])]
  BY <1>1, <1>2, <1>3, <1>4 DEF Reads
<1> QED
  BY <1>5 DEF IsCut

LEMMA VComes ==
  ASSUME NEW C, NEW text \in Seq(C), NEW base
  PROVE  Comes(VLoop, base, text, FoldLeft(VTurn, base, text))
<1>1. FoldLeft(VTurn, base, text) = VSteps(base, text)[DOMAIN text]
  BY Zenon DEF VSteps, FoldLeft, MapThenFoldSet
<1>2. DOMAIN text = 1 .. Len(text)
  OBVIOUS
<1>3. PICK g : IsCut(g, VLoop, base, text)
  BY Cut
<1>4. g = [s \in SUBSET DOMAIN text |->
             IF s = {} THEN base ELSE VTurn(g[s \ {Max(s)}], text[Max(s)])]
  BY <1>3, DoesV DEF IsCut
<1>5. VSteps(base, text) =
        [s \in SUBSET DOMAIN text |->
           IF s = {} THEN base ELSE VTurn(VSteps(base, text)[s \ {Max(s)}], text[Max(s)])]
  BY <1>4, Zenon DEF VSteps
<1>6. PICK h : h = VSteps(base, text)
  OBVIOUS
<1>7. \A s \in SUBSET DOMAIN text : h[s] = IF s = {} THEN base ELSE VTurn(h[s \ {Max(s)}], text[Max(s)])
  BY <1>5, <1>6
<1>8. Reads(h, VLoop, base, text, Len(text))
  <2>1. SUBSET DOMAIN text = SUBSET (1 .. Len(text))
    BY <1>2
  <2>2. ASSUME NEW s \in SUBSET (1 .. Len(text))
        PROVE  h[s] = IF s = {} THEN base ELSE Does(VLoop, h[s \ {Max(s)}], text[Max(s)])
    <3>1. h[s] = IF s = {} THEN base ELSE VTurn(h[s \ {Max(s)}], text[Max(s)])
      BY <1>7, <2>1
    <3> QED
      BY <3>1, DoesV
  <2> QED
    BY <2>2 DEF Reads
<1> QED
  BY <1>1, <1>2, <1>6, <1>8 DEF Comes

LEMMA SComes ==
  ASSUME NEW C, NEW text \in Seq(C), NEW base
  PROVE  Comes(SLoop, base, text, FoldLeft(STurn, base, text))
<1>1. FoldLeft(STurn, base, text) = SSteps(base, text)[DOMAIN text]
  BY Zenon DEF SSteps, FoldLeft, MapThenFoldSet
<1>2. DOMAIN text = 1 .. Len(text)
  OBVIOUS
<1>3. PICK g : IsCut(g, SLoop, base, text)
  BY Cut
<1>4. g = [s \in SUBSET DOMAIN text |->
             IF s = {} THEN base ELSE STurn(g[s \ {Max(s)}], text[Max(s)])]
  BY <1>3, DoesS DEF IsCut
<1>5. SSteps(base, text) =
        [s \in SUBSET DOMAIN text |->
           IF s = {} THEN base ELSE STurn(SSteps(base, text)[s \ {Max(s)}], text[Max(s)])]
  BY <1>4, Zenon DEF SSteps
<1>6. PICK h : h = SSteps(base, text)
  OBVIOUS
<1>7. \A s \in SUBSET DOMAIN text : h[s] = IF s = {} THEN base ELSE STurn(h[s \ {Max(s)}], text[Max(s)])
  BY <1>5, <1>6
<1>8. Reads(h, SLoop, base, text, Len(text))
  <2>1. SUBSET DOMAIN text = SUBSET (1 .. Len(text))
    BY <1>2
  <2>2. ASSUME NEW s \in SUBSET (1 .. Len(text))
        PROVE  h[s] = IF s = {} THEN base ELSE Does(SLoop, h[s \ {Max(s)}], text[Max(s)])
    <3>1. h[s] = IF s = {} THEN base ELSE STurn(h[s \ {Max(s)}], text[Max(s)])
      BY <1>7, <2>1
    <3> QED
      BY <3>1, DoesS
  <2> QED
    BY <2>2 DEF Reads
<1> QED
  BY <1>1, <1>2, <1>6, <1>8 DEF Comes

LEMMA NumeralComes ==
  ASSUME NEW C, NEW text \in Seq(C), NEW radix
  PROVE  Comes(InBase(radix), 0, text, Numeral(text, radix))
<1>1. Numeral(text, radix) = NSteps(radix, text)[DOMAIN text]
  BY Zenon DEF Numeral, NSteps, FoldLeft, MapThenFoldSet
<1>2. DOMAIN text = 1 .. Len(text)
  OBVIOUS
<1>3. PICK g : IsCut(g, InBase(radix), 0, text)
  BY Cut
<1>4. g = [s \in SUBSET DOMAIN text |->
             IF s = {} THEN 0 ELSE g[s \ {Max(s)}] * radix + Value(text[Max(s)])]
  <2>1. \A s : Does(InBase(radix), g[s \ {Max(s)}], text[Max(s)]) = g[s \ {Max(s)}] * radix + Value(text[Max(s)])
    BY DoesN, Zenon
  <2>2. g = [s \in SUBSET DOMAIN text |->
               IF s = {} THEN 0 ELSE Does(InBase(radix), g[s \ {Max(s)}], text[Max(s)])]
    BY <1>3, Zenon DEF IsCut
  <2> DEFINE D(s) == Does(InBase(radix), g[s \ {Max(s)}], text[Max(s)])
             P(s) == g[s \ {Max(s)}] * radix + Value(text[Max(s)])
  <2>3. \A s : D(s) = P(s)
    BY <2>1, Zenon
  <2>4. g = [s \in SUBSET DOMAIN text |-> IF s = {} THEN 0 ELSE D(s)]
    BY <2>2, Zenon
  <2>5. g = [s \in SUBSET DOMAIN text |-> IF s = {} THEN 0 ELSE P(s)]
    <3> HIDE DEF D, P
    <3> QED
      BY <2>3, <2>4
  <2> QED
    BY <2>5, Zenon
<1>5. NSteps(radix, text) =
        [s \in SUBSET DOMAIN text |->
           IF s = {} THEN 0 ELSE NSteps(radix, text)[s \ {Max(s)}] * radix + Value(text[Max(s)])]
  BY <1>4, Zenon DEF NSteps
<1>6. PICK h : h = NSteps(radix, text)
  OBVIOUS
<1>7. \A s \in SUBSET DOMAIN text :
        h[s] = IF s = {} THEN 0 ELSE h[s \ {Max(s)}] * radix + Value(text[Max(s)])
  BY <1>5, <1>6
<1>8. Reads(h, InBase(radix), 0, text, Len(text))
  <2>1. SUBSET DOMAIN text = SUBSET (1 .. Len(text))
    BY <1>2
  <2>2. ASSUME NEW s \in SUBSET (1 .. Len(text))
        PROVE  h[s] = IF s = {} THEN 0 ELSE Does(InBase(radix), h[s \ {Max(s)}], text[Max(s)])
    <3>1. h[s] = IF s = {} THEN 0 ELSE h[s \ {Max(s)}] * radix + Value(text[Max(s)])
      BY <1>7, <2>1
    <3> QED
      BY <3>1, DoesN
  <2> QED
    BY <2>2 DEF Reads
<1> QED
  BY <1>1, <1>2, <1>6, <1>8 DEF Comes
-----------------------------------------------------------------------------
(* What the loops do with a directive.                                       *)

\* What directives are spelled with.
DigitChars == {HexChars[i] : i \in 1 .. 10}
Chars == DigitChars \cup {"%", "l", "h", "d", "u", "x", "o", "p"}

LEMMA HexFacts ==
  /\ DOMAIN HexChars = 1 .. 16
  /\ \A i \in 1 .. 16 : Value(HexChars[i]) = i - 1 /\ HexChars[i] # "-"
<1>1. DOMAIN HexChars = 1 .. 16
  BY DEF HexChars
<1>2. \A i \in 1 .. 16, j \in 1 .. 16 : HexChars[i] = HexChars[j] => i = j
  BY DEF HexChars
<1>3. ASSUME NEW i \in 1 .. 16 PROVE Value(HexChars[i]) = i - 1
  <2>1. PICK j : j = CHOOSE k \in DOMAIN HexChars : HexChars[k] = HexChars[i]
    OBVIOUS
  <2>2. j \in 1 .. 16 /\ HexChars[j] = HexChars[i]
    BY <1>1, <2>1
  <2> QED
    BY <1>2, <2>1, <2>2 DEF Value
<1>4. \A i \in 1 .. 16 : HexChars[i] # "-"
  BY DEF HexChars
<1> QED
  BY <1>1, <1>3, <1>4

LEMMA DigitFacts ==
  /\ \A c : IsDigit(c) <=> c \in DigitChars
  /\ \A c \in DigitChars : Value(c) \in 0 .. 9 /\ c \notin {"%", "l", "h", "d", "u", "x", "o", "p"}
<1>1. \A c : IsDigit(c) <=> c \in DigitChars
  BY DEF IsDigit, DigitChars
<1>2. ASSUME NEW c \in DigitChars PROVE Value(c) \in 0 .. 9
  <2>1. PICK i \in 1 .. 10 : c = HexChars[i]
    BY DEF DigitChars
  <2> QED
    BY <2>1, HexFacts
<1>3. ASSUME NEW i \in 1 .. 10 PROVE HexChars[i] \notin {"%", "l", "h", "d", "u", "x", "o", "p"}
  BY DEF HexChars
<1> QED
  BY <1>1, <1>2, <1>3 DEF DigitChars

\* A loop between two characters of its format.
Machine(state, width, len, out, args) ==
  [state |-> state, width |-> width, len |-> len, out |-> out, args |-> args]

LEMMA StartIs ==
  \A args : Start(args) = Machine("normal", 0, "default", << >>, args)
BY DEF Start, Machine

LEMMA OnPercent ==
  ASSUME NEW k \in {VLoop, SLoop}, NEW w, NEW l, NEW o, NEW a0
  PROVE  Does(k, Machine("normal", w, l, o, a0), "%") = Machine("width", w, l, o, a0)
<1> DEFINE m == Machine("normal", w, l, o, a0)
<1>1. ~ AtSpecifier(m, "%") /\ Turn(m, "%") = Machine("width", w, l, o, a0)
  BY DEF AtSpecifier, Turn, Machine
<1> QED
  BY <1>1, DoesV, DoesS DEF VTurn, STurn

LEMMA OnDigit ==
  ASSUME NEW k \in {VLoop, SLoop}, NEW w \in Nat, NEW l, NEW o, NEW a0, NEW c \in DigitChars, w * 10 + Value(c) <= 255
  PROVE  Does(k, Machine("width", w, l, o, a0), c) = Machine("width", w * 10 + Value(c), l, o, a0)
<1> DEFINE m == Machine("width", w, l, o, a0)
<1>1. IsDigit(c) /\ c \notin {"%", "l", "h"} /\ Value(c) \in 0 .. 9
  BY DigitFacts
<1>2. ~ AtSpecifier(m, c)
  BY <1>1 DEF AtSpecifier, Machine
<1>3. (w * 10 + Value(c)) % 256 = w * 10 + Value(c)
  BY <1>1
<1>4. Turn(m, c) = [m EXCEPT !.width = (w * 10 + Value(c)) % 256]
  BY <1>1 DEF Turn, Machine
<1>5. Turn(m, c) = Machine("width", w * 10 + Value(c), l, o, a0)
  BY <1>3, <1>4 DEF Machine
<1> QED
  BY <1>2, <1>5, DoesV, DoesS DEF VTurn, STurn

LEMMA OnLength ==
  ASSUME NEW k \in {VLoop, SLoop}, NEW st \in {"width", "length"}
  PROVE  \A w, l, o, a0 :
           /\ Does(k, Machine(st, w, l, o, a0), "l") = Machine("length", w, "long", o, a0)
           /\ l = "half" => Does(k, Machine(st, w, l, o, a0), "h") = Machine("length", w, "half_half", o, a0)
           /\ l # "half" => Does(k, Machine(st, w, l, o, a0), "h") = Machine("length", w, "half", o, a0)
<1> SUFFICES ASSUME NEW w, NEW l, NEW o, NEW a0
    PROVE  /\ Does(k, Machine(st, w, l, o, a0), "l") = Machine("length", w, "long", o, a0)
           /\ l = "half" => Does(k, Machine(st, w, l, o, a0), "h") = Machine("length", w, "half_half", o, a0)
           /\ l # "half" => Does(k, Machine(st, w, l, o, a0), "h") = Machine("length", w, "half", o, a0)
  OBVIOUS
<1> DEFINE m == Machine(st, w, l, o, a0)
<1>1. ~ IsDigit("l") /\ ~ IsDigit("h")
  BY DigitFacts
<1>2. ~ AtSpecifier(m, "l") /\ ~ AtSpecifier(m, "h")
  BY DEF AtSpecifier
<1>3. Turn(m, "l") = Machine("length", w, "long", o, a0)
  BY <1>1 DEF Turn, Machine
<1>4. Turn(m, "h") = Machine("length", w, IF l = "half" THEN "half_half" ELSE "half", o, a0)
  BY <1>1 DEF Turn, Machine
<1> QED
  BY <1>2, <1>3, <1>4, DoesV, DoesS DEF VTurn, STurn

\* What a conversion writes of a word.
Written(w, len, c, word) ==
  PrintNumber(w, Fetched(word, len, c = "d"), c = "d", Radix(c))

LEMMA OnSpecifier ==
  ASSUME NEW st \in {"width", "length"}, NEW w, NEW l, NEW o, NEW a0,
         NEW c \in {"d", "u", "x", "o", "p"}
  PROVE  /\ Does(VLoop, Machine(st, w, l, o, a0), c) =
              Machine("normal", 0, "default",
                      o \o Written(w, IF c = "p" THEN "long" ELSE l, c, Head(a0)), Tail(a0))
         /\ Does(SLoop, Machine(st, w, l, o, a0), c) =
              Machine("normal", w, l, o \o Written(w, l, c, Head(a0)), Tail(a0))
<1> DEFINE m == Machine(st, w, l, o, a0)
<1>1. ~ IsDigit(c) /\ c \notin {"l", "h"}
  BY DigitFacts
<1>2. AtSpecifier(m, c)
  BY <1>1 DEF AtSpecifier, Machine
<1>3. (c \in {"i", "d"}) = (c = "d")
  OBVIOUS
<1>4. \A len : Converted(m, c, len) = <<Written(w, len, c, Head(a0)), Tail(a0)>>
  <2> SUFFICES ASSUME NEW len PROVE Converted(m, c, len) = <<Written(w, len, c, Head(a0)), Tail(a0)>>
    OBVIOUS
  <2>1. m.width = w /\ m.args = a0
    BY DEF Machine
  <2> HIDE DEF m
  <2>2. Converted(m, c, len) =
          <<PrintNumber(m.width, Fetched(Head(m.args), len, c \in {"i", "d"}), c \in {"i", "d"}, Radix(c)),
            Tail(m.args)>>
    BY DEF Converted
  <2> QED
    BY <1>3, <2>1, <2>2 DEF Written
<1>5. m.len = l /\ m.out = o
  BY DEF Machine
<1>6. VSpecifier(m, c) =
        Machine("normal", 0, "default",
                o \o Written(w, IF c = "p" THEN "long" ELSE l, c, Head(a0)), Tail(a0))
  <2>1. PICK r : r = Converted(m, c, IF c = "p" THEN "long" ELSE m.len)
    OBVIOUS
  <2>2. r[1] = Written(w, IF c = "p" THEN "long" ELSE l, c, Head(a0)) /\ r[2] = Tail(a0)
    BY <1>4, <1>5, <2>1
  <2>3. VSpecifier(m, c) = [Start(r[2]) EXCEPT !.out = m.out \o r[1]]
    BY <2>1, Zenon DEF VSpecifier
  <2> HIDE DEF m
  <2> QED
    BY <1>5, <2>2, <2>3, StartIs DEF Machine
<1>7. SSpecifier(m, c) = Machine("normal", w, l, o \o Written(w, l, c, Head(a0)), Tail(a0))
  <2>1. PICK r : r = Converted(m, c, m.len)
    OBVIOUS
  <2>2. r[1] = Written(w, l, c, Head(a0)) /\ r[2] = Tail(a0)
    BY <1>4, <1>5, <2>1
  <2>3. SSpecifier(m, c) = [m EXCEPT !.state = "normal", !.out = @ \o r[1], !.args = r[2]]
    BY <2>1, Zenon DEF SSpecifier
  <2> QED
    BY <2>2, <2>3 DEF Machine
<1> QED
  BY <1>2, <1>6, <1>7, DoesV, DoesS DEF VTurn, STurn
\* Induction over the texts, character by character.
LEMMA TextInduction ==
  ASSUME NEW C, NEW T, << >> \in T, \A text \in Seq(C), c \in C : text \in T => Append(text, c) \in T
  PROVE  Seq(C) \subseteq T
<1> SUFFICES ASSUME NEW text \in Seq(C) PROVE text \in T
  OBVIOUS
<1> DEFINE U == {m \in Nat : m <= Len(text) => SubSeq(text, 1, m) \in T}
<1>0. Len(text) \in Nat
  OBVIOUS
<1>1. 0 \in U
  <2>1. SubSeq(text, 1, 0) = << >>
    OBVIOUS
  <2> QED
    BY <2>1
<1>2. ASSUME NEW m \in Nat, m \in U PROVE m + 1 \in U
  <2> SUFFICES ASSUME m + 1 <= Len(text) PROVE SubSeq(text, 1, m + 1) \in T
    OBVIOUS
  <2>1. SubSeq(text, 1, m) \in T
    BY <1>0, <1>2
  <2>2. SubSeq(text, 1, m) \in Seq(C)
    <3>1. \A i \in 1 .. m : text[i] \in C
      BY <1>0
    <3> QED
      BY <3>1, SubSeqProperties
  <2>3. text[m + 1] \in C
    BY <1>0
  <2>4. SubSeq(text, 1, m + 1) = Append(SubSeq(text, 1, m), text[m + 1])
    BY <1>0
  <2> QED
    BY <2>1, <2>2, <2>3, <2>4
<1>3. Len(text) \in U
  <2> HIDE DEF U
  <2> QED
    BY <1>0, <1>1, <1>2, SetInduction
<1>4. SubSeq(text, 1, Len(text)) \in T
  BY <1>0, <1>3
<1>5. SubSeq(text, 1, Len(text)) = text
  BY SubSeqFull
<1> QED
  BY <1>4, <1>5, Zenon

LEMMA NumeralSoFar ==
  ASSUME NEW C, NEW text \in Seq(C), NEW c \in C, NEW radix
  PROVE  /\ Numeral(<< >>, radix) = 0
         /\ Numeral(Append(text, c), radix) = Numeral(text, radix) * radix + Value(c)
<1>1. Numeral(<< >>, radix) = 0
  <2>1. PICK e : e = << >> /\ e \in Seq(C)
    BY EmptySeq
  <2>2. Comes(InBase(radix), 0, e, Numeral(e, radix))
    BY <2>1, NumeralComes
  <2>3. Comes(InBase(radix), 0, e, 0)
    BY <2>1, ComesNowhere
  <2>4. Numeral(e, radix) = 0
    BY <2>1, <2>2, <2>3, ComesOnce
  <2> QED
    BY <2>1, <2>4
<1>2. PICK more : more = Append(text, c)
  OBVIOUS
<1>3. more \in Seq(C)
  BY <1>2, AppendProperties
<1>4. Comes(InBase(radix), 0, more, Numeral(more, radix))
  BY <1>3, NumeralComes
<1>5. Comes(InBase(radix), 0, text, Numeral(text, radix))
  BY NumeralComes
<1>6. Comes(InBase(radix), 0, Append(text, c), Does(InBase(radix), Numeral(text, radix), c))
  BY <1>5, ComesFurther
<1>7. Comes(InBase(radix), 0, more, Does(InBase(radix), Numeral(text, radix), c))
  BY <1>2, <1>6
<1>8. Numeral(more, radix) = Does(InBase(radix), Numeral(text, radix), c)
  BY <1>3, <1>4, <1>7, ComesOnce
<1>9. Does(InBase(radix), Numeral(text, radix), c) = Numeral(text, radix) * radix + Value(c)
  BY DoesN, Zenon
<1> QED
  BY <1>1, <1>2, <1>8, <1>9, Zenon

\* The loops read a width as it is meant.
WidthIsRead(text) ==
  /\ Numeral(text, 10) \in Nat
  /\ Numeral(text, 10) <= 255 =>
       \A k \in {VLoop, SLoop} : \A l, o, a0 :
         Comes(k, Machine("width", 0, l, o, a0), text, Machine("width", Numeral(text, 10), l, o, a0))

LEMMA ReadsWidth ==
  ASSUME NEW text \in Seq(DigitChars)
  PROVE  WidthIsRead(text)
<1> DEFINE T == {t \in Seq(DigitChars) : WidthIsRead(t)}
<1>1. << >> \in T
  <2>1. PICK e : e = << >> /\ e \in Seq(DigitChars)
    BY EmptySeq
  <2>2. Numeral(e, 10) = 0
    <3>1. HexChars[1] \in DigitChars
      BY DEF DigitChars
    <3> QED
      BY <2>1, <3>1, NumeralSoFar
  <2>3. \A k, l, o, a0 : Comes(k, Machine("width", 0, l, o, a0), e, Machine("width", 0, l, o, a0))
    BY <2>1, ComesNowhere
  <2>4. WidthIsRead(e)
    BY <2>2, <2>3 DEF WidthIsRead
  <2> QED
    BY <2>1, <2>4
<1>2. ASSUME NEW t \in Seq(DigitChars), NEW c \in DigitChars, t \in T PROVE Append(t, c) \in T
  <2>0. WidthIsRead(t)
    BY <1>2
  <2>1. PICK n \in Nat : n = Numeral(t, 10)
    BY <2>0 DEF WidthIsRead
  <2>2. PICK more : more = Append(t, c)
    OBVIOUS
  <2>3. more \in Seq(DigitChars)
    BY <2>2, AppendProperties
  <2>4. Numeral(more, 10) = n * 10 + Value(c)
    BY <2>1, <2>2, NumeralSoFar
  <2>5. Value(c) \in 0 .. 9
    BY DigitFacts
  <2>6. ASSUME Numeral(more, 10) <= 255, NEW k \in {VLoop, SLoop}, NEW l, NEW o, NEW a0
        PROVE  Comes(k, Machine("width", 0, l, o, a0), more, Machine("width", Numeral(more, 10), l, o, a0))
    <3>1. n <= 255 /\ n * 10 + Value(c) <= 255
      BY <2>4, <2>5, <2>6
    <3>2. Comes(k, Machine("width", 0, l, o, a0), t, Machine("width", n, l, o, a0))
      BY <2>0, <2>1, <3>1 DEF WidthIsRead
    <3>3. Comes(k, Machine("width", 0, l, o, a0), Append(t, c), Does(k, Machine("width", n, l, o, a0), c))
      BY <3>2, ComesFurther
    <3>4. Does(k, Machine("width", n, l, o, a0), c) = Machine("width", n * 10 + Value(c), l, o, a0)
      BY <3>1, OnDigit
    <3> QED
      BY <2>2, <2>4, <3>3, <3>4
  <2>7. WidthIsRead(more)
    BY <2>4, <2>5, <2>6 DEF WidthIsRead
  <2> QED
    BY <2>2, <2>3, <2>7
<1> HIDE DEF T
<1>3. Seq(DigitChars) \subseteq T
  BY <1>1, <1>2, TextInduction
<1> QED
  BY <1>3 DEF T

LEMMA ComesTo ==
  ASSUME NEW c, NEW k, NEW base
  PROVE  Comes(k, base, <<c>>, Does(k, base, c))
<1>1. PICK e : e = << >>
  OBVIOUS
<1>2. e \in Seq({c}) /\ Append(e, c) = <<c>>
  BY <1>1
<1>3. Comes(k, base, e, base)
  BY <1>1, ComesNowhere
<1>4. Comes(k, base, Append(e, c), Does(k, base, c))
  BY <1>2, <1>3, ComesFurther
<1> QED
  BY <1>2, <1>4

LEMMA ComesToSecond ==
  ASSUME NEW c, NEW e, NEW k, NEW base
  PROVE  Comes(k, base, <<c, e>>, Does(k, Does(k, base, c), e))
<1>1. PICK t : t = <<c>>
  OBVIOUS
<1>2. t \in Seq({c, e}) /\ Append(t, e) = <<c, e>>
  <2>1. \A i \in 1 .. 1 : <<c>>[i] \in {c, e}
    OBVIOUS
  <2>2. <<c>> \in Seq({c, e})
    BY <2>1
  <2>3. \A i \in 1 .. 2 : <<c, e>>[i] \in {c, e}
    OBVIOUS
  <2>4. <<c, e>> \in Seq({c, e}) /\ Len(<<c, e>>) = 2 /\ <<c, e>>[1] = c /\ <<c, e>>[2] = e
    BY <2>3
  <2>5. PICK r : r = Append(t, e)
    OBVIOUS
  <2>6. r \in Seq({c, e}) /\ Len(r) = 2 /\ r[1] = c /\ r[2] = e
    BY <1>1, <2>2, <2>5, AppendProperties
  <2>7. r = <<c, e>>
    <3>1. \A i \in 1 .. Len(r) : r[i] = <<c, e>>[i]
      BY <2>4, <2>6
    <3>2. Len(r) = Len(<<c, e>>)
      BY <2>4, <2>6
    <3> QED
      BY <2>4, <2>6, <3>1, <3>2, SeqEqual, Zenon
  <2> QED
    BY <1>1, <2>2, <2>5, <2>7
<1>3. Comes(k, base, t, Does(k, base, c))
  BY <1>1, ComesTo
<1>4. Comes(k, base, Append(t, e), Does(k, Does(k, base, c), e))
  BY <1>2, <1>3, ComesFurther
<1> QED
  BY <1>2, <1>4

\* The length the loops read.
LengthOf(m) ==
  CASE m = << >> -> "default" [] m = <<"h">> -> "half" [] m = <<"h", "h">> -> "half_half" [] OTHER -> "long"

LEMMA ReadsLength ==
  ASSUME NEW m \in Lengths, NEW k \in {VLoop, SLoop}, NEW w, NEW o, NEW a0
  PROVE  \E st \in {"width", "length"} :
           Comes(k, Machine("width", w, "default", o, a0), m, Machine(st, w, LengthOf(m), o, a0))
<1> DEFINE base == Machine("width", w, "default", o, a0)
<1>0. \A c, e : << >> # <<c>> /\ << >> # <<c, e>> /\ \A f : <<f>> # <<c, e>>
  OBVIOUS
<1>1. CASE m = << >>
  <2>1. Comes(k, base, m, base)
    BY <1>1, ComesNowhere
  <2>2. LengthOf(m) = "default"
    BY <1>1 DEF LengthOf
  <2> QED
    BY <2>1, <2>2
<1>2. CASE m = <<"h">>
  <2>1. Comes(k, base, m, Does(k, base, "h"))
    BY <1>2, ComesTo
  <2>2. Does(k, base, "h") = Machine("length", w, "half", o, a0)
    BY OnLength
  <2>3. LengthOf(m) = "half"
    BY <1>2 DEF LengthOf
  <2> QED
    BY <2>1, <2>2, <2>3
<1>3. CASE m = <<"h", "h">>
  <2>1. Comes(k, base, m, Does(k, Does(k, base, "h"), "h"))
    BY <1>3, ComesToSecond
  <2>2. Does(k, base, "h") = Machine("length", w, "half", o, a0)
    BY OnLength
  <2>3. Does(k, Machine("length", w, "half", o, a0), "h") = Machine("length", w, "half_half", o, a0)
    BY OnLength
  <2>4. LengthOf(m) = "half_half"
    BY <1>3 DEF LengthOf
  <2> QED
    BY <2>1, <2>2, <2>3, <2>4
<1>4. CASE m = <<"l">>
  <2>1. Comes(k, base, m, Does(k, base, "l"))
    BY <1>4, ComesTo
  <2>2. Does(k, base, "l") = Machine("length", w, "long", o, a0)
    BY OnLength
  <2>3. LengthOf(m) = "long"
    BY <1>4 DEF LengthOf
  <2> QED
    BY <2>1, <2>2, <2>3
<1>5. CASE m = <<"l", "l">>
  <2>1. Comes(k, base, m, Does(k, Does(k, base, "l"), "l"))
    BY <1>5, ComesToSecond
  <2>2. Does(k, base, "l") = Machine("length", w, "long", o, a0)
    BY OnLength
  <2>3. Does(k, Machine("length", w, "long", o, a0), "l") = Machine("length", w, "long", o, a0)
    BY OnLength
  <2>4. LengthOf(m) = "long"
    BY <1>5 DEF LengthOf
  <2> QED
    BY <2>1, <2>2, <2>3, <2>4
<1> QED
  BY <1>1, <1>2, <1>3, <1>4, <1>5 DEF Lengths
LEMMA SpelledParts ==
  ASSUME NEW d, IsDirective(d)
  PROVE  /\ d[1] \in Seq(Chars) /\ d[2] \in Seq(Chars) /\ <<"%">> \in Seq(Chars) /\ <<d[3]>> \in Seq(Chars)
         /\ <<"%">> \o d[1] \in Seq(Chars) /\ <<"%">> \o d[1] \o d[2] \in Seq(Chars)
         /\ Spelled(d) = (<<"%">> \o d[1] \o d[2]) \o <<d[3]>> /\ Spelled(d) \in Seq(Chars)
<1>1. ASSUME NEW c \in Chars PROVE <<c>> \in Seq(Chars)
  BY <1>1
<1>2. ASSUME NEW c \in Chars, NEW e \in Chars PROVE <<c, e>> \in Seq(Chars)
  BY <1>2
<1>3. "%" \in Chars /\ "h" \in Chars /\ "l" \in Chars /\ d[3] \in Chars
  BY DEF Chars, IsDirective
<1>4. d[1] \in Seq(Chars)
  <2>1. d[1] \in Seq(DigitChars) /\ DigitChars \subseteq Chars
    BY DEF IsDirective, DigitChars, Chars
  <2> QED
    BY <2>1, SeqMonotonic
<1>5. d[2] \in Seq(Chars)
  <2>1. d[2] \in Lengths
    BY DEF IsDirective
  <2>2. CASE d[2] = << >>
    BY <2>2, EmptySeq
  <2>3. CASE d[2] = <<"h">>
    BY <1>1, <1>3, <2>3
  <2>4. CASE d[2] = <<"h", "h">>
    BY <1>2, <1>3, <2>4
  <2>5. CASE d[2] = <<"l">>
    BY <1>1, <1>3, <2>5
  <2>6. CASE d[2] = <<"l", "l">>
    BY <1>2, <1>3, <2>6
  <2> QED
    BY <2>1, <2>2, <2>3, <2>4, <2>5, <2>6 DEF Lengths
<1>6. <<"%">> \in Seq(Chars) /\ <<d[3]>> \in Seq(Chars)
  BY <1>1, <1>3
<1>7. <<"%">> \o d[1] \in Seq(Chars)
  BY <1>4, <1>6, ConcatProperties, Zenon
<1>8. <<"%">> \o d[1] \o d[2] \in Seq(Chars)
  BY <1>5, <1>7, ConcatProperties, Zenon
<1>9. (<<"%">> \o d[1] \o d[2]) \o <<d[3]>> \in Seq(Chars)
  BY <1>6, <1>8, ConcatProperties, Zenon
<1> QED
  BY <1>4, <1>5, <1>6, <1>7, <1>8, <1>9 DEF Spelled

\* What the conversion d writes of a word.
Conversion(d, word) ==
  Written(Numeral(d[1], 10), IF d[3] = "p" THEN "long" ELSE LengthOf(d[2]), d[3], word)

LEMMA ReadsDirective ==
  ASSUME NEW d, IsDirective(d), NEW o, NEW a0
  PROVE  /\ Comes(VLoop, Machine("normal", 0, "default", o, a0), Spelled(d),
                  Machine("normal", 0, "default", o \o Conversion(d, Head(a0)), Tail(a0)))
         /\ d[3] # "p" =>
              Comes(SLoop, Machine("normal", 0, "default", o, a0), Spelled(d),
                    Machine("normal", Numeral(d[1], 10), LengthOf(d[2]), o \o Conversion(d, Head(a0)), Tail(a0)))
<1>1. PICK p, t, r : p = <<"%">> /\ t = p \o d[1] /\ r = t \o d[2]
  OBVIOUS
<1>2. /\ p \in Seq(Chars) /\ t \in Seq(Chars) /\ r \in Seq(Chars) /\ d[1] \in Seq(Chars) /\ d[2] \in Seq(Chars)
      /\ <<d[3]>> \in Seq(Chars) /\ Spelled(d) = r \o <<d[3]>>
  BY <1>1, SpelledParts
<1>3. PICK n \in Nat : n = Numeral(d[1], 10) /\ n <= 255
  <2>1. d[1] \in Seq(DigitChars) /\ Numeral(d[1], 10) <= 32
    BY DEF IsDirective, DigitChars
  <2>2. Numeral(d[1], 10) \in Nat
    BY <2>1, ReadsWidth DEF WidthIsRead
  <2> QED
    BY <2>1, <2>2
<1>4. PICK l : l = LengthOf(d[2])
  OBVIOUS
<1>5. PICK c \in {"d", "u", "x", "o", "p"} : c = d[3]
  BY DEF IsDirective
<1>6. PICK base : base = Machine("normal", 0, "default", o, a0)
  OBVIOUS
<1>7. ASSUME NEW k \in {VLoop, SLoop}
      PROVE  \E st \in {"width", "length"} : Comes(k, base, r, Machine(st, n, l, o, a0))
  <2>1. Comes(k, base, p, Machine("width", 0, "default", o, a0))
    <3>1. Comes(k, base, p, Does(k, base, "%"))
      BY <1>1, ComesTo
    <3> QED
      BY <1>6, <3>1, OnPercent
  <2>2. Comes(k, Machine("width", 0, "default", o, a0), d[1], Machine("width", n, "default", o, a0))
    <3>1. d[1] \in Seq(DigitChars)
      BY DEF IsDirective, DigitChars
    <3> QED
      BY <1>3, <3>1, ReadsWidth DEF WidthIsRead
  <2>3. Comes(k, base, t, Machine("width", n, "default", o, a0))
    BY <1>1, <1>2, <2>1, <2>2, ComesJoined
  <2>4. d[2] \in Lengths
    BY DEF IsDirective
  <2>5. PICK st \in {"width", "length"} :
          Comes(k, Machine("width", n, "default", o, a0), d[2], Machine(st, n, l, o, a0))
    BY <1>4, <2>4, ReadsLength
  <2>6. Comes(k, base, r, Machine(st, n, l, o, a0))
    BY <1>1, <1>2, <2>3, <2>5, ComesJoined
  <2> QED
    BY <2>6
<1>8. ASSUME NEW k \in {VLoop, SLoop}
      PROVE  \E st \in {"width", "length"} : Comes(k, base, Spelled(d), Does(k, Machine(st, n, l, o, a0), c))
  <2>1. PICK st \in {"width", "length"} : Comes(k, base, r, Machine(st, n, l, o, a0))
    BY <1>7
  <2>2. Comes(k, Machine(st, n, l, o, a0), <<d[3]>>, Does(k, Machine(st, n, l, o, a0), c))
    BY <1>5, ComesTo
  <2>3. Comes(k, base, r \o <<d[3]>>, Does(k, Machine(st, n, l, o, a0), c))
    BY <1>2, <2>1, <2>2, ComesJoined
  <2> QED
    BY <1>2, <2>3
<1>9. Conversion(d, Head(a0)) = Written(n, IF c = "p" THEN "long" ELSE l, c, Head(a0))
  BY <1>3, <1>4, <1>5 DEF Conversion
<1>10. Comes(VLoop, base, Spelled(d), Machine("normal", 0, "default", o \o Conversion(d, Head(a0)), Tail(a0)))
  <2>1. PICK st \in {"width", "length"} : Comes(VLoop, base, Spelled(d), Does(VLoop, Machine(st, n, l, o, a0), c))
    BY <1>8
  <2>2. Does(VLoop, Machine(st, n, l, o, a0), c) =
          Machine("normal", 0, "default", o \o Conversion(d, Head(a0)), Tail(a0))
    BY <1>9, OnSpecifier
  <2> QED
    BY <2>1, <2>2
<1>11. ASSUME c # "p"
       PROVE  Comes(SLoop, base, Spelled(d), Machine("normal", n, l, o \o Conversion(d, Head(a0)), Tail(a0)))
  <2>1. PICK st \in {"width", "length"} : Comes(SLoop, base, Spelled(d), Does(SLoop, Machine(st, n, l, o, a0), c))
    BY <1>8
  <2>2. Does(SLoop, Machine(st, n, l, o, a0), c) = Machine("normal", n, l, o \o Conversion(d, Head(a0)), Tail(a0))
    BY <1>9, <1>11, OnSpecifier
  <2> QED
    BY <2>1, <2>2
<1> QED
  BY <1>3, <1>4, <1>5, <1>6, <1>10, <1>11

\* A directive on its own writes its conversion.
LEMMA AloneIs ==
  ASSUME NEW d, IsDirective(d), NEW word, NEW C, Conversion(d, word) \in Seq(C)
  PROVE  Vsprintf(Spelled(d), <<word>>) = Conversion(d, word)
<1>1. PICK a0 : a0 = <<word>> /\ Head(a0) = word
  <2>1. \A i \in 1 .. 1 : <<word>>[i] \in {word}
    OBVIOUS
  <2>2. PICK a0 : a0 = <<word>>
    OBVIOUS
  <2>3. a0 \in Seq({word}) /\ a0 # << >>
    BY <2>1, <2>2
  <2>4. Head(a0) \in {word}
    BY <2>3, HeadTailProperties
  <2> QED
    BY <2>2, <2>4
<1>2. PICK o : o = << >>
  OBVIOUS
<1>3. Start(a0) = Machine("normal", 0, "default", o, a0)
  BY <1>2, StartIs
<1>4. PICK text : text = Spelled(d) /\ text \in Seq(Chars)
  BY SpelledParts
<1>5. Comes(VLoop, Start(a0), text, Machine("normal", 0, "default", o \o Conversion(d, word), Tail(a0)))
  BY <1>1, <1>3, <1>4, ReadsDirective
<1>6. Comes(VLoop, Start(a0), text, FoldLeft(VTurn, Start(a0), text))
  BY <1>4, VComes
<1>7. FoldLeft(VTurn, Start(a0), text) = Machine("normal", 0, "default", o \o Conversion(d, word), Tail(a0))
  BY <1>4, <1>5, <1>6, ComesOnce
<1>8. Vsprintf(text, a0) = o \o Conversion(d, word)
  <2>1. Vsprintf(text, a0) = FoldLeft(VTurn, Start(a0), text).out
    BY Zenon DEF Vsprintf
  <2> QED
    BY <1>7, <2>1 DEF Machine
<1>9. o \o Conversion(d, word) = Conversion(d, word)
  BY <1>2, ConcatEmptySeq
<1> QED
  BY <1>1, <1>4, <1>8, <1>9
-----------------------------------------------------------------------------
(* A format is read directive by directive.                                  *)

\* f[i] is what the first i of seqs are together.
Together(f, seqs) ==
  /\ f[0] = << >> /\ f[Len(seqs)] = FlattenSeq(seqs)
  /\ \A i \in 1 .. Len(seqs) : f[i] = f[i - 1] \o seqs[i]

\* The function FlattenSeq is defined by.
FlattenSteps(seqs) ==
  CHOOSE f : f = [i \in 1 .. Len(seqs) |-> IF i = 1 THEN seqs[i] ELSE f[i - 1] \o seqs[i]]

LEMMA FlattenIs ==
  ASSUME NEW C, NEW seqs \in Seq(Seq(C))
  PROVE  \E f : Together(f, seqs)
<1>1. PICK n \in Nat : n = Len(seqs)
  OBVIOUS
<1> DEFINE Val(f, i) == IF i = 1 THEN seqs[i] ELSE f[i - 1] \o seqs[i]
           T == {m \in Nat : \E f : \A i \in 1 .. m : f[i] = Val(f, i)}
<1>2. 0 \in T
  OBVIOUS
<1>3. ASSUME NEW m \in Nat, m \in T PROVE m + 1 \in T
  <2>1. PICK f : \A i \in 1 .. m : f[i] = Val(f, i)
    BY <1>3
  <2>2. PICK g : g = [i \in 1 .. m + 1 |-> IF i = m + 1 THEN Val(f, m + 1) ELSE f[i]]
    OBVIOUS
  <2>3. \A i \in 1 .. m : g[i] = f[i]
    BY <2>2
  <2>4. g[m + 1] = Val(f, m + 1)
    BY <2>2
  <2>5. ASSUME NEW i \in 1 .. m + 1 PROVE g[i] = Val(g, i)
    <3>1. CASE i = 1
      BY <2>1, <2>3, <2>4, <3>1
    <3>2. CASE i # 1
      <4>1. i - 1 \in 1 .. m /\ g[i - 1] = f[i - 1]
        BY <2>3, <3>2
      <4>2. g[i] = Val(f, i)
        BY <2>1, <2>3, <2>4
      <4> QED
        BY <3>2, <4>1, <4>2
    <3> QED
      BY <3>1, <3>2
  <2> QED
    BY <2>5
<1>4. n \in T
  <2> HIDE DEF T
  <2> QED
    BY <1>2, <1>3, SetInduction
<1>5. PICK g : \A i \in 1 .. n : g[i] = Val(g, i)
  BY <1>4
<1>6. PICK h : h = [i \in 1 .. n |-> g[i]]
  OBVIOUS
<1>7. h = [i \in 1 .. Len(seqs) |-> IF i = 1 THEN seqs[i] ELSE h[i - 1] \o seqs[i]]
  <2>1. \A i \in 1 .. n : h[i] = IF i = 1 THEN seqs[i] ELSE h[i - 1] \o seqs[i]
    BY <1>5, <1>6
  <2> QED
    BY <1>1, <1>6, <2>1
<1>8. FlattenSteps(seqs) =
        [i \in 1 .. Len(seqs) |-> IF i = 1 THEN seqs[i] ELSE FlattenSteps(seqs)[i - 1] \o seqs[i]]
  BY <1>7, Zenon DEF FlattenSteps
<1>9. PICK s : s = FlattenSteps(seqs)
  OBVIOUS
<1>10. \A i \in 1 .. n : s[i] = IF i = 1 THEN seqs[i] ELSE s[i - 1] \o seqs[i]
  BY <1>1, <1>8, <1>9
<1>11. PICK f : f = [i \in 0 .. n |-> IF i = 0 THEN << >> ELSE s[i]]
  OBVIOUS
<1>12. f[0] = << >>
  BY <1>11
<1>13. ASSUME NEW i \in 1 .. n PROVE f[i] = f[i - 1] \o seqs[i]
  <2>1. f[i] = s[i]
    BY <1>11
  <2>2. CASE i = 1
    <3>1. PICK t : t = seqs[1] /\ t \in Seq(C)
      BY <1>1
    <3>2. << >> \o t = t
      BY <3>1, ConcatEmptySeq
    <3>3. f[1] = t
      BY <1>10, <2>1, <2>2, <3>1
    <3>4. i - 1 = 0 /\ f[i - 1] = << >>
      BY <1>12, <2>2
    <3>5. f[i - 1] \o seqs[i] = t
      BY <2>2, <3>1, <3>2, <3>4, Zenon
    <3> QED
      BY <2>2, <3>3, <3>5
  <2>3. CASE i # 1
    <3>1. f[i - 1] = s[i - 1]
      BY <1>11, <2>3
    <3> QED
      BY <1>10, <2>1, <2>3, <3>1
  <2> QED
    BY <2>2, <2>3
<1>14. f[Len(seqs)] = FlattenSeq(seqs)
  <2>1. CASE n = 0
    <3>1. seqs = << >>
      BY <1>1, <2>1, EmptySeq
    <3>2. FlattenSeq(seqs) = seqs
      BY <1>1, <2>1 DEF FlattenSeq
    <3> QED
      BY <1>1, <1>12, <2>1, <3>1, <3>2
  <2>2. CASE n # 0
    <3>1. FlattenSeq(seqs) = FlattenSteps(seqs)[Len(seqs)]
      <4>1. Len(seqs) # 0
        BY <1>1, <2>2
      <4> QED
        BY <4>1, Zenon DEF FlattenSeq, FlattenSteps
    <3>2. f[n] = s[n]
      BY <1>11, <2>2
    <3> QED
      BY <1>1, <1>9, <3>1, <3>2
  <2> QED
    BY <2>1, <2>2
<1> QED
  BY <1>1, <1>12, <1>13, <1>14 DEF Together

LEMMA TogetherType ==
  ASSUME NEW C, NEW seqs \in Seq(Seq(C)), NEW f, Together(f, seqs)
  PROVE  \A i \in 0 .. Len(seqs) : f[i] \in Seq(C)
<1> DEFINE T == {m \in Nat : m <= Len(seqs) => f[m] \in Seq(C)}
<1>0. Len(seqs) \in Nat
  OBVIOUS
<1>1. 0 \in T
  BY EmptySeq DEF Together
<1>2. ASSUME NEW m \in Nat, m \in T PROVE m + 1 \in T
  <2> SUFFICES ASSUME m + 1 <= Len(seqs) PROVE f[m + 1] \in Seq(C)
    OBVIOUS
  <2>1. f[m] \in Seq(C)
    BY <1>0, <1>2
  <2>2. f[m + 1] = f[m] \o seqs[m + 1]
    <3>1. m + 1 \in 1 .. Len(seqs) /\ (m + 1) - 1 = m
      BY <1>0
    <3> QED
      BY <3>1 DEF Together
  <2>3. seqs[m + 1] \in Seq(C)
    BY <1>0
  <2>4. f[m] \o seqs[m + 1] \in Seq(C)
    BY <2>1, <2>3, ConcatProperties, Zenon
  <2> QED
    BY <2>2, <2>4
<1> HIDE DEF T
<1>3. Nat \subseteq T
  BY <1>1, <1>2, SetInduction
<1>4. \A m \in Nat : m <= Len(seqs) => f[m] \in Seq(C)
  BY <1>3 DEF T
<1> QED
  BY <1>0, <1>4
\* The directives of a format one by one, and what each writes of its word.
Spellings(ds)         == [i \in DOMAIN ds |-> Spelled(ds[i])]
Conversions(ds, args) == [i \in DOMAIN ds |-> Conversion(ds[i], args[i])]

\* Directives and a word for each, all of which are converted to characters in C.
Call(ds, args, C) ==
  /\ Len(ds) \in Nat /\ DOMAIN ds = 1 .. Len(ds)
  /\ \A i \in DOMAIN ds : IsDirective(ds[i])
  /\ args \in Seq(Nat) /\ Len(args) = Len(ds)
  /\ \A i \in DOMAIN ds : Conversion(ds[i], args[i]) \in Seq(C)

LEMMA CallTypes ==
  ASSUME NEW ds, NEW args, NEW C, Call(ds, args, C)
  PROVE  /\ Spellings(ds) \in Seq(Seq(Chars)) /\ Len(Spellings(ds)) = Len(ds)
         /\ Conversions(ds, args) \in Seq(Seq(C)) /\ Len(Conversions(ds, args)) = Len(ds)
         /\ \A i \in 1 .. Len(ds) : /\ Spellings(ds)[i] = Spelled(ds[i])
                                    /\ Conversions(ds, args)[i] = Conversion(ds[i], args[i])
<1>1. PICK n \in Nat : n = Len(ds) /\ DOMAIN ds = 1 .. n
  BY DEF Call
<1>2. Spellings(ds) \in [1 .. n -> Seq(Chars)]
  <2>1. \A i \in 1 .. n : Spelled(ds[i]) \in Seq(Chars)
    BY <1>1, SpelledParts DEF Call
  <2> QED
    BY <1>1, <2>1 DEF Spellings
<1>3. Conversions(ds, args) \in [1 .. n -> Seq(C)]
  <2>1. \A i \in 1 .. n : Conversion(ds[i], args[i]) \in Seq(C)
    BY <1>1 DEF Call
  <2> QED
    BY <1>1, <2>1 DEF Conversions
<1>4. \A D : \A s \in [1 .. n -> D] : s \in Seq(D) /\ Len(s) = n
  OBVIOUS
<1>5. Spellings(ds) \in Seq(Seq(Chars)) /\ Len(Spellings(ds)) = n
  BY <1>2, <1>4
<1>6. Conversions(ds, args) \in Seq(Seq(C)) /\ Len(Conversions(ds, args)) = n
  BY <1>3, <1>4
<1>7. \A i \in 1 .. n : /\ Spellings(ds)[i] = Spelled(ds[i])
                        /\ Conversions(ds, args)[i] = Conversion(ds[i], args[i])
  BY <1>1 DEF Spellings, Conversions
<1> QED
  BY <1>1, <1>5, <1>6, <1>7

\* What is left of the words.
LeftOf(args, m) == SubSeq(args, m + 1, Len(args))

LEMMA LeftIs ==
  ASSUME NEW args \in Seq(Nat), NEW m \in Nat, m < Len(args)
  PROVE  Head(LeftOf(args, m)) = args[m + 1] /\ Tail(LeftOf(args, m)) = LeftOf(args, m + 1) /\ LeftOf(args, 0) = args
<1>1. PICK n \in Nat : n = Len(args)
  OBVIOUS
<1>2. PICK j \in 1 .. n : j = m + 1
  BY <1>1
<1>3. n \in j .. n
  OBVIOUS
<1>4. Head(SubSeq(args, j, n)) = args[j] /\ Tail(SubSeq(args, j, n)) = SubSeq(args, j + 1, n)
  BY <1>1, <1>3, HeadTailOfSubSeq
<1>5. SubSeq(args, 1, n) = args
  BY <1>1, SubSeqFull
<1> QED
  BY <1>1, <1>2, <1>4, <1>5 DEF LeftOf

\* A machine that is as at the start, but for what is written and what is left.
Begun(out, args) == Machine("normal", 0, "default", out, args)

\* The directives before the last have neither width nor length, and none is %p.
SprintfKnows(ds) ==
  \A i \in DOMAIN ds : ds[i][3] # "p" /\ (i < Len(ds) => ds[i][1] = << >> /\ ds[i][2] = << >>)

LEMMA ReadsFormat ==
  ASSUME NEW ds, NEW args, NEW C, Call(ds, args, C),
         NEW f, Together(f, Spellings(ds)), NEW h, Together(h, Conversions(ds, args)),
         NEW m \in Nat, m < Len(ds)
  PROVE  /\ Comes(VLoop, Begun(<< >>, args), f[m], Begun(h[m], LeftOf(args, m)))
         /\ SprintfKnows(ds) => Comes(SLoop, Begun(<< >>, args), f[m], Begun(h[m], LeftOf(args, m)))
<1>1. PICK n \in Nat : n = Len(ds) /\ DOMAIN ds = 1 .. n /\ Len(args) = n
  BY DEF Call
<1> DEFINE T == {j \in Nat : j < n =>
                   /\ Comes(VLoop, Begun(<< >>, args), f[j], Begun(h[j], LeftOf(args, j)))
                   /\ SprintfKnows(ds) => Comes(SLoop, Begun(<< >>, args), f[j], Begun(h[j], LeftOf(args, j)))}
<1>2. 0 \in T
  <2> SUFFICES ASSUME 0 < n
      PROVE /\ Comes(VLoop, Begun(<< >>, args), f[0], Begun(h[0], LeftOf(args, 0)))
            /\ SprintfKnows(ds) => Comes(SLoop, Begun(<< >>, args), f[0], Begun(h[0], LeftOf(args, 0)))
    OBVIOUS
  <2>1. f[0] = << >> /\ h[0] = << >>
    BY DEF Together
  <2>2. LeftOf(args, 0) = args
    BY <1>1, LeftIs DEF Call
  <2> QED
    BY <2>1, <2>2, ComesNowhere
<1>3. ASSUME NEW j \in Nat, j \in T PROVE j + 1 \in T
  <2>0. PICK i : i = j + 1
    OBVIOUS
  <2> SUFFICES ASSUME i < n
      PROVE /\ Comes(VLoop, Begun(<< >>, args), f[i], Begun(h[i], LeftOf(args, i)))
            /\ SprintfKnows(ds) => Comes(SLoop, Begun(<< >>, args), f[i], Begun(h[i], LeftOf(args, i)))
    BY <2>0
  <2>1. /\ Comes(VLoop, Begun(<< >>, args), f[j], Begun(h[j], LeftOf(args, j)))
        /\ SprintfKnows(ds) => Comes(SLoop, Begun(<< >>, args), f[j], Begun(h[j], LeftOf(args, j)))
    BY <1>3, <2>0
  <2>2. i \in 1 .. n /\ i \in DOMAIN ds /\ i - 1 = j /\ IsDirective(ds[i])
    BY <1>1, <2>0 DEF Call
  <2>3. f[i] = f[j] \o Spelled(ds[i]) /\ h[i] = h[j] \o Conversion(ds[i], args[i])
    <3>1. /\ i \in 1 .. Len(Spellings(ds)) /\ i \in 1 .. Len(Conversions(ds, args))
          /\ Spellings(ds)[i] = Spelled(ds[i]) /\ Conversions(ds, args)[i] = Conversion(ds[i], args[i])
      BY <1>1, <2>2, CallTypes
    <3>2. f[i] = f[i - 1] \o Spellings(ds)[i] /\ h[i] = h[i - 1] \o Conversions(ds, args)[i]
      BY <3>1 DEF Together
    <3> QED
      BY <2>2, <3>1, <3>2
  <2>4. f[j] \in Seq(Chars) /\ Spelled(ds[i]) \in Seq(Chars)
    <3>1. j \in 0 .. Len(Spellings(ds))
      BY <1>1, <2>0, CallTypes
    <3>2. f[j] \in Seq(Chars)
      BY <3>1, CallTypes, TogetherType
    <3> QED
      BY <2>2, <3>2, SpelledParts
  <2>5. Head(LeftOf(args, j)) = args[i] /\ Tail(LeftOf(args, j)) = LeftOf(args, i)
    <3>1. args \in Seq(Nat) /\ j < Len(args)
      BY <1>1, <2>0 DEF Call
    <3> QED
      BY <2>0, <3>1, LeftIs
  <2>6. Comes(VLoop, Begun(h[j], LeftOf(args, j)), Spelled(ds[i]), Begun(h[i], LeftOf(args, i)))
    BY <2>2, <2>3, <2>5, ReadsDirective DEF Begun
  <2>7. ASSUME SprintfKnows(ds)
        PROVE  Comes(SLoop, Begun(h[j], LeftOf(args, j)), Spelled(ds[i]), Begun(h[i], LeftOf(args, i)))
    <3>1. ds[i][3] # "p" /\ ds[i][1] = << >> /\ ds[i][2] = << >>
      BY <1>1, <2>2, <2>7 DEF SprintfKnows
    <3>2. Numeral(ds[i][1], 10) = 0
      <4>1. Numeral(<< >>, 10) = 0
        <5>1. << >> \in Seq(Nat) /\ 0 \in Nat
          BY EmptySeq
        <5> QED
          BY <5>1, NumeralSoFar
      <4> QED
        BY <3>1, <4>1
    <3>3. LengthOf(ds[i][2]) = "default"
      BY <3>1 DEF LengthOf
    <3> QED
      BY <2>2, <2>3, <2>5, <3>1, <3>2, <3>3, ReadsDirective DEF Begun
  <2>8. Comes(VLoop, Begun(<< >>, args), f[i], Begun(h[i], LeftOf(args, i)))
    BY <2>1, <2>3, <2>4, <2>6, ComesJoined
  <2>9. SprintfKnows(ds) => Comes(SLoop, Begun(<< >>, args), f[i], Begun(h[i], LeftOf(args, i)))
    BY <2>1, <2>3, <2>4, <2>7, ComesJoined
  <2> QED
    BY <2>8, <2>9
<1> HIDE DEF T
<1>4. Nat \subseteq T
  BY <1>2, <1>3, SetInduction
<1> QED
  BY <1>1, <1>4 DEF T

\* vsprintf writes the conversions one after the other, and so does sprintf
\* where there is no width and no length that it would carry over.
LEMMA WritesConversions ==
  ASSUME NEW ds, NEW args, NEW C, Call(ds, args, C)
  PROVE  /\ Vsprintf(Format(ds), args) = FlattenSeq(Conversions(ds, args))
         /\ SprintfKnows(ds) => Sprintf(Format(ds), args) = FlattenSeq(Conversions(ds, args))
<1>1. PICK n \in Nat : n = Len(ds) /\ DOMAIN ds = 1 .. n /\ Len(args) = n
  BY DEF Call
<1>2. PICK f : Together(f, Spellings(ds))
  BY CallTypes, FlattenIs
<1>3. PICK h : Together(h, Conversions(ds, args))
  BY CallTypes, FlattenIs
<1>4. Format(ds) = f[n] /\ FlattenSeq(Conversions(ds, args)) = h[n]
  BY <1>1, <1>2, <1>3, CallTypes DEF Together, Format, Spellings
<1>5. f[n] \in Seq(Chars)
  <2>1. n \in 0 .. Len(Spellings(ds))
    BY <1>1, CallTypes
  <2> QED
    BY <1>2, <2>1, CallTypes, TogetherType
<1>6. Start(args) = Begun(<< >>, args)
  BY StartIs DEF Begun
<1>7. /\ \E x : Comes(VLoop, Begun(<< >>, args), f[n], x) /\ x.out = h[n]
      /\ SprintfKnows(ds) => \E x : Comes(SLoop, Begun(<< >>, args), f[n], x) /\ x.out = h[n]
  <2>1. CASE n = 0
    <3>1. f[n] = << >> /\ h[n] = << >>
      BY <1>2, <1>3, <2>1 DEF Together
    <3>2. \A k : Comes(k, Begun(<< >>, args), f[n], Begun(<< >>, args))
      BY <3>1, ComesNowhere
    <3> QED
      BY <3>1, <3>2 DEF Begun, Machine
  <2>2. CASE n # 0
    <3>1. PICK j \in Nat : j = n - 1 /\ j < n /\ n \in 1 .. n /\ n \in DOMAIN ds
      BY <1>1, <2>2
    <3>2. IsDirective(ds[n])
      BY <3>1 DEF Call
    <3>3. /\ Comes(VLoop, Begun(<< >>, args), f[j], Begun(h[j], LeftOf(args, j)))
          /\ SprintfKnows(ds) => Comes(SLoop, Begun(<< >>, args), f[j], Begun(h[j], LeftOf(args, j)))
      BY <1>1, <1>2, <1>3, <3>1, ReadsFormat
    <3>4. f[n] = f[j] \o Spelled(ds[n]) /\ h[n] = h[j] \o Conversion(ds[n], args[n])
      <4>1. /\ n \in 1 .. Len(Spellings(ds)) /\ n \in 1 .. Len(Conversions(ds, args))
            /\ Spellings(ds)[n] = Spelled(ds[n]) /\ Conversions(ds, args)[n] = Conversion(ds[n], args[n])
        BY <1>1, <3>1, CallTypes
      <4>2. f[n] = f[n - 1] \o Spellings(ds)[n] /\ h[n] = h[n - 1] \o Conversions(ds, args)[n]
        BY <1>2, <1>3, <4>1 DEF Together
      <4> QED
        BY <3>1, <4>1, <4>2
    <3>5. f[j] \in Seq(Chars) /\ Spelled(ds[n]) \in Seq(Chars)
      <4>1. j \in 0 .. Len(Spellings(ds))
        BY <1>1, <3>1, CallTypes
      <4>2. f[j] \in Seq(Chars)
        BY <1>2, <4>1, CallTypes, TogetherType
      <4> QED
        BY <3>2, <4>2, SpelledParts
    <3>6. Head(LeftOf(args, j)) = args[n]
      <4>1. args \in Seq(Nat) /\ j < Len(args) /\ j + 1 = n
        BY <1>1, <3>1 DEF Call
      <4> QED
        BY <4>1, LeftIs
    <3>7. \E x : Comes(VLoop, Begun(h[j], LeftOf(args, j)), Spelled(ds[n]), x) /\ x.out = h[n]
      <4>1. Comes(VLoop, Begun(h[j], LeftOf(args, j)), Spelled(ds[n]), Begun(h[n], Tail(LeftOf(args, j))))
        BY <3>2, <3>4, <3>6, ReadsDirective DEF Begun
      <4>2. Begun(h[n], Tail(LeftOf(args, j))).out = h[n]
        BY DEF Begun, Machine
      <4> QED
        BY <4>1, <4>2
    <3>8. ASSUME SprintfKnows(ds)
          PROVE  \E x : Comes(SLoop, Begun(h[j], LeftOf(args, j)), Spelled(ds[n]), x) /\ x.out = h[n]
      <4>1. ds[n][3] # "p"
        BY <3>1, <3>8 DEF SprintfKnows
      <4>2. PICK w, l : w = Numeral(ds[n][1], 10) /\ l = LengthOf(ds[n][2])
        OBVIOUS
      <4>3. Comes(SLoop, Begun(h[j], LeftOf(args, j)), Spelled(ds[n]), Machine("normal", w, l, h[n], Tail(LeftOf(args, j))))
        BY <3>2, <3>4, <3>6, <4>1, <4>2, ReadsDirective DEF Begun
      <4>4. Machine("normal", w, l, h[n], Tail(LeftOf(args, j))).out = h[n]
        BY DEF Machine
      <4> QED
        BY <4>3, <4>4
    <3>9. \E x : Comes(VLoop, Begun(<< >>, args), f[n], x) /\ x.out = h[n]
      BY <3>3, <3>4, <3>5, <3>7, ComesJoined
    <3>10. SprintfKnows(ds) => \E x : Comes(SLoop, Begun(<< >>, args), f[n], x) /\ x.out = h[n]
      BY <3>3, <3>4, <3>5, <3>8, ComesJoined
    <3> QED
      BY <3>9, <3>10
  <2> QED
    BY <2>1, <2>2
<1>8. Vsprintf(Format(ds), args) = h[n]
  <2>1. PICK x : Comes(VLoop, Start(args), f[n], x) /\ x.out = h[n]
    BY <1>6, <1>7
  <2>2. Comes(VLoop, Start(args), f[n], FoldLeft(VTurn, Start(args), f[n]))
    BY <1>5, VComes
  <2>3. FoldLeft(VTurn, Start(args), f[n]) = x
    BY <1>5, <2>1, <2>2, ComesOnce
  <2>4. Vsprintf(f[n], args) = FoldLeft(VTurn, Start(args), f[n]).out
    BY Zenon DEF Vsprintf
  <2> QED
    BY <1>4, <2>1, <2>3, <2>4
<1>9. ASSUME SprintfKnows(ds) PROVE Sprintf(Format(ds), args) = h[n]
  <2>1. PICK x : Comes(SLoop, Start(args), f[n], x) /\ x.out = h[n]
    BY <1>6, <1>7, <1>9
  <2>2. Comes(SLoop, Start(args), f[n], FoldLeft(STurn, Start(args), f[n]))
    BY <1>5, SComes
  <2>3. FoldLeft(STurn, Start(args), f[n]) = x
    BY <1>5, <2>1, <2>2, ComesOnce
  <2>4. Sprintf(f[n], args) = FoldLeft(STurn, Start(args), f[n]).out
    BY Zenon DEF Sprintf
  <2> QED
    BY <1>4, <2>1, <2>3, <2>4
<1> QED
  BY <1>4, <1>8, <1>9
-----------------------------------------------------------------------------
(* Digits.                                                                   *)

\* g has the powers of b0 up to the n-th; the function Power is defined by.
IsPower(g, b0, n) ==
  \A k \in 0 .. n : g[k] \in Nat /\ g[k] = IF k = 0 THEN 1 ELSE g[k - 1] * b0

PowerSteps(b0, n) ==
  CHOOSE g : g = [k \in 0 .. n |-> IF k = 0 THEN 1 ELSE g[k - 1] * b0]

LEMMA PowerExists ==
  ASSUME NEW b0 \in Nat, NEW n \in Nat
  PROVE  \E g : IsPower(g, b0, n)
<1> DEFINE T == {m \in Nat : \E g : IsPower(g, b0, m)}
<1>1. 0 \in T
  <2>1. PICK g : g = [k \in {0} |-> 1]
    OBVIOUS
  <2>2. IsPower(g, b0, 0)
    BY <2>1 DEF IsPower
  <2> QED
    BY <2>2
<1>2. ASSUME NEW m \in Nat, m \in T PROVE m + 1 \in T
  <2>1. PICK g : IsPower(g, b0, m)
    BY <1>2
  <2>2. PICK v \in Nat : v = g[m] * b0
    BY <2>1 DEF IsPower
  <2>3. PICK h : h = [k \in 0 .. m + 1 |-> IF k = m + 1 THEN v ELSE g[k]]
    OBVIOUS
  <2>4. h[m + 1] = v /\ \A k \in 0 .. m : h[k] = g[k]
    BY <2>3
  <2>5. ASSUME NEW k \in 0 .. m + 1 PROVE h[k] \in Nat /\ h[k] = IF k = 0 THEN 1 ELSE h[k - 1] * b0
    <3>1. CASE k = m + 1
      <4>1. k # 0 /\ k - 1 = m /\ m \in 0 .. m
        BY <3>1
      <4>2. h[k - 1] = g[m]
        BY <2>4, <4>1
      <4> QED
        BY <2>2, <2>4, <3>1, <4>1, <4>2
    <3>2. CASE k # m + 1
      <4>1. k \in 0 .. m /\ (k # 0 => k - 1 \in 0 .. m)
        BY <3>2
      <4>2. g[k] \in Nat /\ g[k] = IF k = 0 THEN 1 ELSE g[k - 1] * b0
        BY <2>1, <4>1 DEF IsPower
      <4> QED
        BY <2>4, <4>1, <4>2
    <3> QED
      BY <3>1, <3>2
  <2>6. IsPower(h, b0, m + 1)
    BY <2>5 DEF IsPower
  <2> QED
    BY <2>6
<1> HIDE DEF T
<1>3. n \in T
  BY <1>1, <1>2, SetInduction
<1> QED
  BY <1>3 DEF T

LEMMA PowerAgrees ==
  ASSUME NEW b0 \in Nat, NEW n \in Nat, NEW g, IsPower(g, b0, n), NEW h, IsPower(h, b0, n)
  PROVE  g[n] = h[n]
<1> DEFINE T == {m \in Nat : m <= n => g[m] = h[m]}
<1>1. 0 \in T
  BY DEF IsPower
<1>2. ASSUME NEW m \in Nat, m \in T PROVE m + 1 \in T
  <2> SUFFICES ASSUME m + 1 <= n PROVE g[m + 1] = h[m + 1]
    OBVIOUS
  <2>1. PICK k : k = m + 1
    OBVIOUS
  <2>2. k \in 0 .. n /\ k # 0 /\ k - 1 = m /\ g[m] = h[m]
    BY <1>2, <2>1
  <2>3. g[k] = g[k - 1] * b0 /\ h[k] = h[k - 1] * b0
    BY <2>2 DEF IsPower
  <2> QED
    BY <2>1, <2>2, <2>3
<1> HIDE DEF T
<1>3. n \in T
  BY <1>1, <1>2, SetInduction
<1> QED
  BY <1>3 DEF T

LEMMA PowerIsSteps ==
  ASSUME NEW b0 \in Nat, NEW n \in Nat
  PROVE  \E g : IsPower(g, b0, n) /\ Power(b0, n) = g[n]
<1>1. PICK g : IsPower(g, b0, n)
  BY PowerExists
<1>2. PICK h : h = [k \in 0 .. n |-> g[k]]
  OBVIOUS
<1>3. \A k \in 0 .. n : h[k] = g[k] /\ (k # 0 => h[k - 1] = g[k - 1])
  BY <1>2
<1>4. \A k \in 0 .. n : g[k] = IF k = 0 THEN 1 ELSE h[k - 1] * b0
  BY <1>1, <1>3 DEF IsPower
<1>5. h = [k \in 0 .. n |-> IF k = 0 THEN 1 ELSE h[k - 1] * b0]
  BY <1>2, <1>4
<1>6. PowerSteps(b0, n) = [k \in 0 .. n |-> IF k = 0 THEN 1 ELSE PowerSteps(b0, n)[k - 1] * b0]
  BY <1>5, Zenon DEF PowerSteps
<1>7. PICK s : s = PowerSteps(b0, n)
  OBVIOUS
<1>8. \A k \in 0 .. n : s[k] = IF k = 0 THEN 1 ELSE s[k - 1] * b0
  BY <1>6, <1>7
<1> DEFINE T == {k \in Nat : k <= n => s[k] \in Nat}
<1>9. Nat \subseteq T
  <2>1. 0 \in T
    BY <1>8
  <2>2. ASSUME NEW k \in Nat, k \in T PROVE k + 1 \in T
    <3> SUFFICES ASSUME k + 1 <= n PROVE s[k + 1] \in Nat
      OBVIOUS
    <3>1. PICK m : m = k + 1
      OBVIOUS
    <3>2. m \in 0 .. n /\ m # 0 /\ m - 1 = k /\ s[k] \in Nat
      BY <2>2, <3>1
    <3>3. s[m] = s[k] * b0
      BY <1>8, <3>2
    <3> QED
      BY <3>1, <3>2, <3>3
  <2> HIDE DEF T
  <2> QED
    BY <2>1, <2>2, SetInduction
<1>10. IsPower(s, b0, n)
  BY <1>8, <1>9 DEF IsPower
<1>11. Power(b0, n) = PowerSteps(b0, n)[n]
  BY Zenon DEF Power, PowerSteps
<1> QED
  BY <1>7, <1>10, <1>11

LEMMA PowerIs ==
  ASSUME NEW b0 \in Nat, NEW n \in Nat, NEW m, m = n + 1
  PROVE  Power(b0, 0) = 1 /\ Power(b0, n) \in Nat /\ Power(b0, m) = Power(b0, n) * b0
<1>1. PICK g : IsPower(g, b0, n) /\ Power(b0, n) = g[n]
  BY PowerIsSteps
<1>2. PICK h : IsPower(h, b0, m) /\ Power(b0, m) = h[m]
  BY PowerIsSteps
<1>3. IsPower(h, b0, n)
  BY <1>2 DEF IsPower
<1>4. g[n] = h[n]
  BY <1>1, <1>3, PowerAgrees
<1>5. h[m] = h[n] * b0 /\ g[n] \in Nat
  <2>1. m \in 0 .. m /\ m # 0 /\ m - 1 = n /\ n \in 0 .. n
    OBVIOUS
  <2>2. h[m] = h[m - 1] * b0
    BY <1>2, <2>1 DEF IsPower
  <2> QED
    BY <1>1, <2>1, <2>2 DEF IsPower
<1>6. Power(b0, 0) = 1
  <2>1. PICK f : IsPower(f, b0, 0) /\ Power(b0, 0) = f[0]
    BY PowerIsSteps
  <2> QED
    BY <2>1 DEF IsPower
<1> QED
  BY <1>1, <1>2, <1>4, <1>5, <1>6

\* e are the digits of n from the lowest up, and no more than it takes: q are
\* the quotients of the loop.
Quotients(q, e, n, radix) ==
  /\ q[0] = n /\ q[Len(e)] = 0
  /\ \A i \in 0 .. Len(e) : q[i] \in Nat
  /\ \A i \in 1 .. Len(e) : q[i - 1] = q[i] * radix + e[i]

Expands(e, n, radix) ==
  /\ e \in Seq(0 .. radix - 1) /\ Len(e) >= 1
  /\ Len(e) = 1 \/ e[Len(e)] # 0
  /\ \E q : Quotients(q, e, n, radix)

\* The function Digits is defined by.
DigitSteps(number, radix) ==
  CHOOSE d : d = [n \in 0 .. number |->
                    IF n < radix THEN <<n>> ELSE <<n % radix>> \o d[n \div radix]]

LEMMA Shrinks ==
  ASSUME NEW n \in Nat, NEW radix \in Nat, radix >= 2, n >= radix
  PROVE  n \div radix \in 1 .. n - 1 /\ n % radix \in 0 .. radix - 1 /\ n = (n \div radix) * radix + (n % radix)
<1>1. PICK q \in Nat, r \in 0 .. radix - 1 : q = n \div radix /\ r = n % radix
  BY Divide
<1>2. n = q * radix + r
  <2>1. n = (n \div radix) * radix + (n % radix)
    BY Divide
  <2> QED
    BY <1>1, <2>1
<1>3. PICK p \in Nat : p = q * radix
  OBVIOUS
<1>4. 2 * q <= p
  <2>1. 2 * q <= radix * q
    BY Monotone
  <2>2. radix * q = q * radix
    OBVIOUS
  <2> QED
    BY <1>3, <2>1, <2>2
<1>5. q # 0
  <2> SUFFICES ASSUME q = 0 PROVE FALSE
    OBVIOUS
  <2>1. q * radix = 0
    OBVIOUS
  <2> QED
    BY <1>2, <2>1
<1>6. q \in 1 .. n - 1
  BY <1>2, <1>3, <1>4, <1>5
<1> QED
  BY <1>1, <1>2, <1>6

LEMMA ShortExpands ==
  ASSUME NEW radix \in Nat, radix >= 2, NEW n \in 0 .. radix - 1
  PROVE  Expands(<<n>>, n, radix)
<1>1. PICK e : e = <<n>>
  OBVIOUS
<1>2. e \in Seq(0 .. radix - 1) /\ Len(e) = 1 /\ e[1] = n
  <2>1. \A i \in 1 .. 1 : <<n>>[i] \in 0 .. radix - 1
    OBVIOUS
  <2> QED
    BY <1>1, <2>1
<1>3. PICK q : q = [i \in 0 .. 1 |-> IF i = 0 THEN n ELSE 0]
  OBVIOUS
<1>4. q[0] = n /\ q[1] = 0
  BY <1>3
<1>5. n = 0 * radix + n
  OBVIOUS
<1>6. Quotients(q, e, n, radix)
  <2>1. \A i \in 0 .. 1 : q[i] \in Nat
    BY <1>4
  <2>2. \A i \in 1 .. 1 : q[i - 1] = q[i] * radix + e[i]
    BY <1>2, <1>4, <1>5
  <2> QED
    BY <1>2, <1>4, <2>1, <2>2 DEF Quotients
<1> QED
  BY <1>1, <1>2, <1>6 DEF Expands

LEMMA LongExpands ==
  ASSUME NEW radix \in Nat, radix >= 2, NEW n \in Nat, n >= radix, NEW e, Expands(e, n \div radix, radix)
  PROVE  Expands(<<n % radix>> \o e, n, radix)
<1>1. PICK p \in Nat, r \in 0 .. radix - 1 : p = n \div radix /\ r = n % radix /\ n = p * radix + r /\ p >= 1
  <2>1. n \div radix \in 1 .. n - 1 /\ n % radix \in 0 .. radix - 1 /\ n = (n \div radix) * radix + (n % radix)
    BY Shrinks
  <2>2. PICK p, r : p = n \div radix /\ r = n % radix
    OBVIOUS
  <2>3. n = p * radix + r
    BY <2>1, <2>2, Zenon
  <2>4. p \in 1 .. n - 1 /\ r \in 0 .. radix - 1
    BY <2>1, <2>2, Zenon
  <2>5. p \in Nat /\ p >= 1
    BY <2>4
  <2> QED
    BY <2>2, <2>3, <2>4, <2>5, Zenon
<1>2. PICK m \in Nat : m = Len(e) /\ m >= 1
  BY DEF Expands
<1>3. PICK t, f : t = <<r>> /\ f = t \o e
  OBVIOUS
<1>4. /\ f \in Seq(0 .. radix - 1) /\ Len(f) = m + 1 /\ f[1] = r
      /\ \A i \in 2 .. m + 1 : f[i] = e[i - 1]
  <2>1. \A i \in 1 .. 1 : <<r>>[i] \in 0 .. radix - 1
    OBVIOUS
  <2>2. t \in Seq(0 .. radix - 1) /\ Len(t) = 1 /\ t[1] = r /\ e \in Seq(0 .. radix - 1)
    <3>1. t \in Seq(0 .. radix - 1)
      BY <1>3, <2>1
    <3>2. Len(t) = 1 /\ t[1] = r
      BY <1>3
    <3> QED
      BY <3>1, <3>2 DEF Expands
  <2>3. /\ f \in Seq(0 .. radix - 1) /\ Len(f) = Len(t) + Len(e)
        /\ \A i \in 1 .. Len(t) + Len(e) : f[i] = IF i <= Len(t) THEN t[i] ELSE e[i - Len(t)]
    <3>1. PICK C : C = 0 .. radix - 1
      OBVIOUS
    <3>2. t \in Seq(C) /\ e \in Seq(C)
      BY <2>2, <3>1, Zenon
    <3>3. /\ t \o e \in Seq(C) /\ Len(t \o e) = Len(t) + Len(e)
          /\ \A i \in 1 .. Len(t) + Len(e) : (t \o e)[i] = IF i <= Len(t) THEN t[i] ELSE e[i - Len(t)]
      BY <3>2, ConcatProperties
    <3> QED
      BY <1>3, <3>1, <3>3, Zenon
  <2>4. f \in Seq(0 .. radix - 1) /\ Len(f) = m + 1
    BY <1>2, <2>2, <2>3
  <2>5. f[1] = r
    <3>1. 1 \in 1 .. Len(t) + Len(e) /\ 1 <= Len(t)
      BY <1>2, <2>2
    <3> QED
      BY <2>2, <2>3, <3>1, Zenon
  <2>6. ASSUME NEW i \in 2 .. m + 1 PROVE f[i] = e[i - 1]
    <3>1. i \in 1 .. Len(t) + Len(e) /\ ~ (i <= Len(t)) /\ i - Len(t) = i - 1
      BY <1>2, <2>2
    <3> QED
      BY <2>3, <3>1, Zenon
  <2> QED
    BY <2>4, <2>5, <2>6
<1>5. PICK q : Quotients(q, e, p, radix)
  BY <1>1 DEF Expands
<1>6. PICK h : h = [i \in 0 .. m + 1 |-> IF i = 0 THEN n ELSE q[i - 1]]
  OBVIOUS
<1>7. h[0] = n /\ \A i \in 1 .. m + 1 : h[i] = q[i - 1]
  BY <1>6
<1>8. q[0] = p /\ q[m] = 0 /\ (\A i \in 0 .. m : q[i] \in Nat) /\ \A i \in 1 .. m : q[i - 1] = q[i] * radix + e[i]
  BY <1>2, <1>5 DEF Quotients
<1>9. ASSUME NEW i \in 1 .. m + 1 PROVE h[i - 1] = h[i] * radix + f[i]
  <2>1. CASE i = 1
    <3>1. h[1] = p /\ h[i - 1] = n
      BY <1>7, <1>8, <2>1
    <3> QED
      BY <1>1, <1>4, <2>1, <3>1
  <2>2. CASE i # 1
    <3>1. PICK j \in 1 .. m : j = i - 1
      BY <2>2
    <3>2. h[j] = q[j - 1] /\ h[i] = q[j] /\ f[i] = e[j]
      <4>1. i \in 1 .. m + 1 /\ i \in 2 .. m + 1 /\ j \in 1 .. m + 1
        BY <2>2, <3>1
      <4>2. h[j] = q[j - 1] /\ h[i] = q[i - 1] /\ f[i] = e[i - 1]
        BY <1>4, <1>7, <4>1
      <4> QED
        BY <3>1, <4>2
    <3>3. q[j - 1] = q[j] * radix + e[j]
      BY <1>8
    <3> QED
      BY <3>1, <3>2, <3>3
  <2> QED
    BY <2>1, <2>2
<1>10. Quotients(h, f, n, radix)
  <2>1. h[m + 1] = 0
    <3>1. m + 1 \in 1 .. m + 1 /\ (m + 1) - 1 = m
      OBVIOUS
    <3> QED
      BY <1>7, <1>8, <3>1
  <2>2. \A i \in 0 .. m + 1 : h[i] \in Nat
    BY <1>7, <1>8
  <2> QED
    BY <1>4, <1>7, <1>9, <2>1, <2>2 DEF Quotients
<1>11. f[m + 1] # 0
  <2>1. f[m + 1] = e[m]
    <3>1. m + 1 \in 2 .. m + 1 /\ (m + 1) - 1 = m
      BY <1>2
    <3> QED
      BY <1>4, <3>1
  <2>2. CASE m = 1
    <3>1. q[0] = q[1] * radix + e[1] /\ q[1] = 0 /\ q[0] = p /\ e[1] \in Int
      <4>1. 1 \in 1 .. m /\ 1 - 1 = 0
        BY <2>2
      <4>2. q[0] = q[1] * radix + e[1]
        BY <1>8, <4>1
      <4>3. e[1] \in 0 .. radix - 1
        BY <1>2, <4>1, ElementOfSeq DEF Expands
      <4> QED
        BY <1>8, <2>2, <4>2, <4>3
    <3>2. q[1] * radix = 0
      BY <3>1
    <3> QED
      BY <1>1, <2>1, <2>2, <3>1, <3>2
  <2>3. CASE m # 1
    BY <1>2, <2>1, <2>3 DEF Expands
  <2> QED
    BY <2>2, <2>3
<1>12. Expands(f, n, radix)
  BY <1>2, <1>4, <1>10, <1>11 DEF Expands
<1> QED
  BY <1>1, <1>3, <1>12

\* The recursion of the digits has a value.
Digitises(d, m, radix) ==
  \A n \in 0 .. m : d[n] = IF n < radix THEN <<n>> ELSE <<n % radix>> \o d[n \div radix]

LEMMA DigitsExist ==
  ASSUME NEW radix \in Nat, radix >= 2, NEW number \in Nat
  PROVE  \E d : Digitises(d, number, radix)
<1> DEFINE Val(d, n) == IF n < radix THEN <<n>> ELSE <<n % radix>> \o d[n \div radix]
           T == {m \in Nat : \E d : \A n \in 0 .. m : d[n] = Val(d, n)}
<1>1. 0 \in T
  <2>1. PICK d : d = [n \in {0} |-> <<0>>]
    OBVIOUS
  <2>2. \A n \in 0 .. 0 : d[n] = Val(d, n)
    BY <2>1
  <2> QED
    BY <2>2
<1>2. ASSUME NEW m \in Nat, m \in T PROVE m + 1 \in T
  <2>1. PICK d : \A n \in 0 .. m : d[n] = Val(d, n)
    BY <1>2
  <2>2. PICK g : g = [n \in 0 .. m + 1 |-> IF n = m + 1 THEN Val(d, m + 1) ELSE d[n]]
    OBVIOUS
  <2>3. g[m + 1] = Val(d, m + 1) /\ \A n \in 0 .. m : g[n] = d[n]
    BY <2>2
  <2>4. ASSUME NEW n \in 0 .. m + 1 PROVE g[n] = Val(g, n)
    <3>1. g[n] = Val(d, n)
      BY <2>1, <2>3
    <3>2. CASE n < radix
      BY <3>1, <3>2
    <3>3. CASE n >= radix
      <4>1. n \div radix \in 0 .. m
        <5>1. n \in Nat
          OBVIOUS
        <5>2. n \div radix \in 1 .. n - 1
          BY <3>3, <5>1, Shrinks
        <5>3. PICK k : k = n \div radix
          OBVIOUS
        <5>4. k \in 0 .. m
          BY <5>2, <5>3
        <5> QED
          BY <5>3, <5>4
      <4>2. g[n \div radix] = d[n \div radix]
        BY <2>3, <4>1
      <4> QED
        BY <3>1, <3>3, <4>2
    <3> QED
      BY <3>2, <3>3
  <2> HIDE DEF Val
  <2> QED
    BY <2>4
<1>3. number \in T
  <2> HIDE DEF T
  <2> QED
    BY <1>1, <1>2, SetInduction
<1> QED
  BY <1>3 DEF Digitises

LEMMA DigitsExpand ==
  ASSUME NEW radix \in Nat, radix >= 2, NEW number \in Nat
  PROVE  Expands(Digits(number, radix), number, radix)
<1>1. PICK d : Digitises(d, number, radix)
  BY DigitsExist
<1>2. PICK g : g = [n \in 0 .. number |-> d[n]]
  OBVIOUS
<1>3. ASSUME NEW n \in 0 .. number
      PROVE  g[n] = IF n < radix THEN <<n>> ELSE <<n % radix>> \o g[n \div radix]
  <2>1. g[n] = IF n < radix THEN <<n>> ELSE <<n % radix>> \o d[n \div radix]
    BY <1>1, <1>2 DEF Digitises
  <2>2. CASE n < radix
    BY <2>1, <2>2
  <2>3. CASE n >= radix
    <3>1. n \div radix \in 1 .. n - 1
      <4>1. n \in Nat
        OBVIOUS
      <4> QED
        BY <2>3, <4>1, Shrinks
    <3>2. PICK k : k = n \div radix
      OBVIOUS
    <3>3. k \in 0 .. number
      BY <3>1, <3>2
    <3>4. g[n \div radix] = d[n \div radix]
      BY <1>2, <3>2, <3>3
    <3> QED
      BY <2>1, <2>3, <3>4
  <2> QED
    BY <2>2, <2>3
<1>4. g = [n \in 0 .. number |-> IF n < radix THEN <<n>> ELSE <<n % radix>> \o g[n \div radix]]
  BY <1>2, <1>3
<1>5. DigitSteps(number, radix) =
        [n \in 0 .. number |->
           IF n < radix THEN <<n>> ELSE <<n % radix>> \o DigitSteps(number, radix)[n \div radix]]
  BY <1>4, Zenon DEF DigitSteps
<1>6. PICK s : s = DigitSteps(number, radix)
  OBVIOUS
<1>7. \A n \in 0 .. number : s[n] = IF n < radix THEN <<n>> ELSE <<n % radix>> \o s[n \div radix]
  BY <1>5, <1>6
<1> DEFINE T == {m \in Nat : \A n \in 0 .. m : n <= number => Expands(s[n], n, radix)}
<1>8. 0 \in T
  <2>1. s[0] = <<0>>
    <3>1. 0 \in 0 .. number /\ 0 < radix
      OBVIOUS
    <3> QED
      BY <1>7, <3>1
  <2>2. Expands(<<0>>, 0, radix)
    BY ShortExpands
  <2> QED
    BY <2>1, <2>2
<1>9. ASSUME NEW m \in Nat, m \in T PROVE m + 1 \in T
  <2> SUFFICES ASSUME NEW n \in 0 .. m + 1, n <= number PROVE Expands(s[n], n, radix)
    OBVIOUS
  <2>1. CASE n < radix
    <3>1. s[n] = <<n>>
      <4>1. n \in 0 .. number
        OBVIOUS
      <4> QED
        BY <1>7, <2>1, <4>1
    <3>2. Expands(<<n>>, n, radix)
      BY <2>1, ShortExpands
    <3> QED
      BY <3>1, <3>2
  <2>2. CASE n >= radix
    <3>1. n \div radix \in 1 .. n - 1
      <4>1. n \in Nat
        OBVIOUS
      <4> QED
        BY <2>2, <4>1, Shrinks
    <3>2. PICK k : k = n \div radix
      OBVIOUS
    <3>3. k \in 0 .. m /\ k <= number
      BY <3>1, <3>2
    <3>4. Expands(s[k], k, radix)
      BY <1>9, <3>3
    <3>5. s[n] = <<n % radix>> \o s[k]
      <4>1. n \in 0 .. number /\ ~ (n < radix)
        BY <2>2
      <4> QED
        BY <1>7, <3>2, <4>1
    <3>6. Expands(<<n % radix>> \o s[k], n, radix)
      BY <2>2, <3>2, <3>4, LongExpands
    <3> QED
      BY <3>5, <3>6
  <2> QED
    BY <2>1, <2>2
<1>10. number \in T
  <2> HIDE DEF T
  <2> QED
    BY <1>8, <1>9, SetInduction
<1>11. Expands(s[number], number, radix)
  BY <1>10
<1>12. Digits(number, radix) = DigitSteps(number, radix)[number]
  BY Zenon DEF Digits, DigitSteps
<1> QED
  BY <1>6, <1>11, <1>12

\* pos digits that are written, those past the number's own being 0.
Padded(q, e, n, pos, radix) ==
  /\ q[0] = n
  /\ \A i \in 0 .. pos : q[i] \in Nat
  /\ \A i \in 1 .. pos : e[i] \in 0 .. radix - 1 /\ q[i - 1] = q[i] * radix + e[i]

\* e as it is written: from the highest digit down.
WrittenDown(text, e, pos) ==
  /\ text \in Seq(Range(HexChars)) /\ Len(text) = pos
  /\ \A i \in 1 .. pos : text[i] = HexChars[e[pos + 1 - i] + 1]

LEMMA NumeralOfDigits ==
  ASSUME NEW radix \in Nat, radix >= 2, radix <= 16, NEW pos \in Nat, NEW n \in Nat,
         NEW q, NEW e, Padded(q, e, n, pos, radix), NEW text, WrittenDown(text, e, pos)
  PROVE  /\ Numeral(text, radix) \in Nat
         /\ Numeral(text, radix) + q[pos] * Power(radix, pos) = n
         /\ Numeral(text, radix) < Power(radix, pos)
<1> DEFINE C == Range(HexChars)
           P(j) == SubSeq(text, 1, j)
           T == {j \in Nat : j <= pos =>
                   /\ Numeral(P(j), radix) \in Nat
                   /\ Numeral(P(j), radix) + q[pos] * Power(radix, j) = q[pos - j]
                   /\ Numeral(P(j), radix) < Power(radix, j)}
<1>0. text \in Seq(C) /\ Len(text) = pos
  BY DEF WrittenDown
<1>1. 0 \in T
  <2>1. P(0) = << >>
    BY <1>0
  <2>2. Numeral(<< >>, radix) = 0
    <3>1. << >> \in Seq(Nat) /\ 0 \in Nat
      BY EmptySeq
    <3> QED
      BY <3>1, NumeralSoFar
  <2>3. Power(radix, 0) = 1
    BY PowerIs
  <2>4. q[pos] \in Nat /\ q[pos - 0] = q[pos]
    BY DEF Padded
  <2>5. q[pos] * 1 = q[pos]
    BY <2>4
  <2>6. /\ Numeral(P(0), radix) = 0
        /\ q[pos] * Power(radix, 0) = q[pos]
    BY <2>1, <2>2, <2>3, <2>5, Zenon
  <2> HIDE DEF P
  <2> QED
    BY <2>3, <2>4, <2>6
<1>2. ASSUME NEW j \in Nat, j \in T PROVE j + 1 \in T
  <2>0. PICK k : k = j + 1
    OBVIOUS
  <2> SUFFICES ASSUME k <= pos
      PROVE  /\ Numeral(P(k), radix) \in Nat
             /\ Numeral(P(k), radix) + q[pos] * Power(radix, k) = q[pos - k]
             /\ Numeral(P(k), radix) < Power(radix, k)
    <3> HIDE DEF P
    <3> QED
      BY <2>0
  <2>1. PICK x \in Nat, w \in Nat :
          /\ x = Numeral(P(j), radix) /\ w = Power(radix, j)
          /\ x + q[pos] * w = q[pos - j] /\ x < w
    <3>1. Power(radix, j) \in Nat
      BY PowerIs
    <3> HIDE DEF P
    <3> QED
      BY <1>2, <2>0, <3>1
  <2>2. P(j) \in Seq(C) /\ text[k] \in C /\ P(k) = Append(P(j), text[k])
    <3>1. \A i \in 1 .. j : text[i] \in C
      BY <1>0, <2>0
    <3>2. P(j) \in Seq(C)
      BY <3>1, SubSeqProperties
    <3> QED
      BY <1>0, <2>0, <3>2
  <2>3. PICK i \in 1 .. pos : i = pos - j /\ i = pos + 1 - k
    BY <2>0
  <2>4. PICK c \in 0 .. radix - 1 : c = e[i] /\ q[i - 1] = q[i] * radix + c
    BY DEF Padded
  <2>5. Value(text[k]) = c
    <3>1. text[k] = HexChars[c + 1]
      BY <2>0, <2>3, <2>4 DEF WrittenDown
    <3>2. c + 1 \in 1 .. 16 /\ (c + 1) - 1 = c
      OBVIOUS
    <3> QED
      BY <3>1, <3>2, HexFacts
  <2>6. Numeral(P(k), radix) = x * radix + c
    <3>1. Numeral(Append(P(j), text[k]), radix) = Numeral(P(j), radix) * radix + Value(text[k])
      BY <2>2, NumeralSoFar
    <3> QED
      BY <2>1, <2>2, <2>5, <3>1, Zenon
  <2>7. Power(radix, k) = w * radix
    BY <2>0, <2>1, PowerIs
  <2>8. PICK top \in Nat, mid \in Nat, low \in Nat : top = q[pos] /\ mid = q[i] /\ low = q[i - 1]
    <3>1. i - 1 \in 0 .. pos
      OBVIOUS
    <3> QED
      BY <3>1 DEF Padded
  <2>9. x + top * w = mid
    BY <2>1, <2>3, <2>8
  <2>10. low = mid * radix + c
    BY <2>4, <2>8
  <2>11. (x * radix + c) + top * (w * radix) = low
    <3>1. PICK u \in Nat : u = top * w
      OBVIOUS
    <3>2. top * (w * radix) = u * radix
      <4>1. top * (w * radix) = (top * w) * radix
        OBVIOUS
      <4> QED
        BY <3>1, <4>1
    <3>3. (x + u) * radix = x * radix + u * radix
      OBVIOUS
    <3>4. mid * radix = x * radix + u * radix
      BY <2>9, <3>1, <3>3
    <3>5. PICK a1 \in Nat, a2 \in Nat : a1 = x * radix /\ a2 = u * radix
      OBVIOUS
    <3> QED
      BY <2>10, <3>2, <3>4, <3>5
  <2>12. x * radix + c < w * radix
    <3>1. (x + 1) * radix <= w * radix
      BY <2>1, Monotone
    <3>2. (x + 1) * radix = x * radix + radix
      OBVIOUS
    <3>3. PICK a1 \in Nat, a2 \in Nat : a1 = x * radix /\ a2 = w * radix
      OBVIOUS
    <3> QED
      BY <3>1, <3>2, <3>3
  <2>13. q[pos - k] = low
    <3>1. k \in Nat /\ pos - k = i - 1
      BY <2>0, <2>3
    <3> QED
      BY <2>8, <3>1, Zenon
  <2>14. x * radix + c \in Nat
    OBVIOUS
  <2> HIDE DEF P
  <2> QED
    BY <2>6, <2>7, <2>8, <2>11, <2>12, <2>13, <2>14
<1>3. pos \in T
  <2> HIDE DEF T
  <2> QED
    BY <1>1, <1>2, SetInduction
<1>4. P(pos) = text
  BY <1>0, SubSeqFull
<1>5. q[pos - pos] = n
  BY DEF Padded
<1> HIDE DEF P
<1> QED
  BY <1>3, <1>4, <1>5

\* The buffer of print_number as it is sent.
Buffer(e, pos) == [i \in 1 .. pos |-> IF i <= Len(e) THEN HexChars[e[i] + 1] ELSE "0"]

\* The digits in the buffer: the number's own, and zeros.
Zeros(e, pos) == [i \in 1 .. pos |-> IF i <= Len(e) THEN e[i] ELSE 0]

LEMMA BufferIsWritten ==
  ASSUME NEW radix \in Nat, radix >= 2, radix <= 16, NEW pos \in Nat, NEW e \in Seq(0 .. radix - 1)
  PROVE  WrittenDown(Reverse(Buffer(e, pos)), Zeros(e, pos), pos)
<1> DEFINE b0 == Buffer(e, pos)
           z  == Zeros(e, pos)
           C  == Range(HexChars)
<1>1. DOMAIN b0 = 1 .. pos /\ Len(e) \in Nat
  BY DEF Buffer
<1>2. \A i \in 1 .. pos : z[i] \in 0 .. radix - 1 /\ b0[i] = HexChars[z[i] + 1]
  <2> SUFFICES ASSUME NEW i \in 1 .. pos PROVE z[i] \in 0 .. radix - 1 /\ b0[i] = HexChars[z[i] + 1]
    OBVIOUS
  <2>1. CASE i <= Len(e)
    <3>1. e[i] \in 0 .. radix - 1
      BY <1>1, <2>1
    <3> QED
      BY <2>1, <3>1 DEF Buffer, Zeros
  <2>2. CASE ~ (i <= Len(e))
    <3>1. z[i] = 0 /\ b0[i] = "0"
      BY <2>2 DEF Buffer, Zeros
    <3>2. HexChars[0 + 1] = "0"
      BY DEF HexChars
    <3> QED
      BY <3>1, <3>2
  <2> QED
    BY <2>1, <2>2
<1>3. \A i \in 1 .. pos : b0[i] \in C
  <2> SUFFICES ASSUME NEW i \in 1 .. pos PROVE b0[i] \in C
    OBVIOUS
  <2>1. PICK c \in 0 .. radix - 1 : c = z[i]
    BY <1>2
  <2>2. PICK j \in 1 .. 16 : j = c + 1
    OBVIOUS
  <2>3. HexChars[j] \in C
    BY HexFacts DEF Range
  <2>4. b0[i] = HexChars[z[i] + 1]
    BY <1>2
  <2> HIDE DEF z, b0, C
  <2> QED
    BY <2>1, <2>2, <2>3, <2>4
<1>4. b0 \in Seq(C)
  BY <1>3 DEF Buffer
<1>5. Len(b0) = pos
  BY <1>4, <1>1
<1> HIDE DEF b0, C, z
<1>6. Reverse(b0) = [i \in 1 .. pos |-> b0[pos - i + 1]]
  BY <1>5 DEF Reverse
<1>7. \A i \in 1 .. pos : (pos - i) + 1 \in 1 .. pos /\ (pos - i) + 1 = pos + 1 - i
  OBVIOUS
<1>8. \A i \in 1 .. pos : Reverse(b0)[i] = b0[pos + 1 - i]
  <2> SUFFICES ASSUME NEW i \in 1 .. pos PROVE Reverse(b0)[i] = b0[pos + 1 - i]
    OBVIOUS
  <2>1. Reverse(b0)[i] = b0[(pos - i) + 1]
    BY <1>5 DEF Reverse
  <2> QED
    BY <1>7, <2>1
<1>9. Reverse(b0) \in Seq(C) /\ Len(Reverse(b0)) = pos
  <2>1. \A i \in 1 .. pos : Reverse(b0)[i] \in C
    <3> SUFFICES ASSUME NEW i \in 1 .. pos PROVE Reverse(b0)[i] \in C
      OBVIOUS
    <3>1. pos + 1 - i \in 1 .. pos
      OBVIOUS
    <3> QED
      BY <1>3, <1>8, <3>1
  <2>2. DOMAIN Reverse(b0) = 1 .. pos /\ Reverse(b0) = [i \in 1 .. pos |-> Reverse(b0)[i]]
    BY <1>5 DEF Reverse
  <2>3. PICK g : g = Reverse(b0)
    OBVIOUS
  <2>4. g = [i \in 1 .. pos |-> g[i]] /\ (\A i \in 1 .. pos : g[i] \in C)
    BY <2>1, <2>2, <2>3, Zenon
  <2>5. g \in Seq(C) /\ Len(g) = pos
    <3>1. g \in [1 .. pos -> C]
      BY <2>4, Zenon
    <3>2. g \in Seq(C)
      BY <3>1
    <3>3. DOMAIN g = 1 .. pos
      BY <3>1
    <3> QED
      BY <3>2, <3>3
  <2> QED
    BY <2>3, <2>5, Zenon
<1>10. \A i \in 1 .. pos : Reverse(b0)[i] = HexChars[z[pos + 1 - i] + 1]
  <2> SUFFICES ASSUME NEW i \in 1 .. pos PROVE Reverse(b0)[i] = HexChars[z[pos + 1 - i] + 1]
    OBVIOUS
  <2>1. PICK j \in 1 .. pos : j = pos + 1 - i
    OBVIOUS
  <2> QED
    BY <1>2, <1>8, <2>1
<1> QED
  BY <1>9, <1>10 DEF WrittenDown, b0, z, C

\* Past the digits of a number there is nothing left of it.
LEMMA ZerosArePadded ==
  ASSUME NEW radix \in Nat, radix >= 2, NEW number \in Nat, NEW e, Expands(e, number, radix), NEW pos \in Nat
  PROVE  \E q : /\ Padded(q, Zeros(e, pos), number, pos, radix)
                /\ q[pos] \in Nat /\ pos >= Len(e) => q[pos] = 0
<1> DEFINE z == Zeros(e, pos)
<1>0. e \in Seq(0 .. radix - 1) /\ Len(e) \in Nat
  BY DEF Expands
<1>1. PICK g : Quotients(g, e, number, radix)
  BY DEF Expands
<1> DEFINE q == [i \in 0 .. pos |-> IF i <= Len(e) THEN g[i] ELSE 0]
<1>2. q[0] = number
  BY <1>0, <1>1 DEF Quotients
<1>3. \A i \in 0 .. pos : q[i] \in Nat
  BY <1>0, <1>1 DEF Quotients
<1>4. ASSUME NEW i \in 1 .. pos PROVE z[i] \in 0 .. radix - 1 /\ q[i - 1] = q[i] * radix + z[i]
  <2>0. PICK h \in 0 .. pos : h = i - 1
    OBVIOUS
  <2>1. CASE i <= Len(e)
    <3>1. e[i] \in 0 .. radix - 1 /\ g[i - 1] = g[i] * radix + e[i]
      BY <1>0, <1>1, <2>1 DEF Quotients
    <3>2. z[i] = e[i] /\ q[i] = g[i] /\ q[h] = g[h]
      BY <1>0, <2>0, <2>1 DEF Zeros
    <3> QED
      BY <2>0, <3>1, <3>2
  <2>2. CASE i = Len(e) + 1
    <3>1. q[i] = 0 /\ z[i] = 0 /\ q[h] = g[h] /\ h = Len(e)
      BY <1>0, <2>0, <2>2 DEF Zeros
    <3>2. g[h] = 0
      BY <1>1, <3>1 DEF Quotients
    <3>3. 0 * radix + 0 = 0
      OBVIOUS
    <3> QED
      BY <2>0, <3>1, <3>2, <3>3
  <2>3. CASE i > Len(e) + 1
    <3>1. q[i] = 0 /\ z[i] = 0 /\ q[h] = 0
      BY <1>0, <2>0, <2>3 DEF Zeros
    <3>2. 0 * radix + 0 = 0
      OBVIOUS
    <3> QED
      BY <2>0, <3>1, <3>2
  <2> QED
    BY <1>0, <2>1, <2>2, <2>3
<1>5. pos >= Len(e) => q[pos] = 0
  BY <1>0, <1>1 DEF Quotients
<1> HIDE DEF q, z
<1>6. Padded(q, z, number, pos, radix)
  BY <1>2, <1>3, <1>4 DEF Padded
<1> QED
  BY <1>3, <1>5, <1>6 DEF z

-----------------------------------------------------------------------------

\* The digits that are sent for a number.
Sent(width, number, radix) ==
  Reverse(Buffer(Digits(number, radix), IF width > 0 THEN width ELSE Len(Digits(number, radix))))

LEMMA SentIsWritten ==
  ASSUME NEW radix \in Nat, radix >= 2, radix <= 16, NEW number \in Nat, NEW width \in Nat
  PROVE  \E pos \in Nat : \E e, q :
           /\ Expands(e, number, radix) /\ pos = IF width > 0 THEN width ELSE Len(e)
           /\ WrittenDown(Sent(width, number, radix), Zeros(e, pos), pos)
           /\ Padded(q, Zeros(e, pos), number, pos, radix)
           /\ q[pos] \in Nat /\ pos >= Len(e) => q[pos] = 0
<1>1. PICK e : e = Digits(number, radix)
  OBVIOUS
<1>2. Expands(e, number, radix)
  BY <1>1, DigitsExpand, Zenon
<1>3. e \in Seq(0 .. radix - 1) /\ Len(e) \in Nat
  BY <1>2 DEF Expands
<1>4. PICK pos \in Nat : pos = IF width > 0 THEN width ELSE Len(e)
  BY <1>3
<1>5. WrittenDown(Reverse(Buffer(e, pos)), Zeros(e, pos), pos)
  BY <1>3, BufferIsWritten
<1>6. Sent(width, number, radix) = Reverse(Buffer(e, pos))
  BY <1>1, <1>4, Zenon DEF Sent
<1>7. WrittenDown(Sent(width, number, radix), Zeros(e, pos), pos)
  BY <1>5, <1>6, Zenon
<1>8. PICK q : /\ Padded(q, Zeros(e, pos), number, pos, radix)
               /\ q[pos] \in Nat /\ pos >= Len(e) => q[pos] = 0
  BY <1>2, ZerosArePadded
<1> QED
  BY <1>2, <1>4, <1>7, <1>8, Zenon

LEMMA WrittenDigits ==
  ASSUME NEW radix \in Nat, radix >= 2, radix <= 16, NEW pos \in Nat, NEW n, NEW q, NEW e,
         Padded(q, e, n, pos, radix), NEW text, WrittenDown(text, e, pos)
  PROVE  \A i \in 1 .. pos : text[i] # "-" /\ Value(text[i]) < radix
<1> SUFFICES ASSUME NEW i \in 1 .. pos PROVE text[i] # "-" /\ Value(text[i]) < radix
  OBVIOUS
<1>1. PICK j \in 1 .. pos : j = pos + 1 - i
  OBVIOUS
<1>2. PICK c \in 0 .. radix - 1 : c = e[j]
  BY DEF Padded
<1>3. text[i] = HexChars[c + 1]
  BY <1>1, <1>2 DEF WrittenDown
<1>4. PICK k \in 1 .. 16 : k = c + 1
  OBVIOUS
<1> QED
  BY <1>3, <1>4, HexFacts

\* What is left of a number when it is divided.
LEMMA Rest ==
  ASSUME NEW n \in Nat, NEW x \in Nat, NEW q \in Nat, NEW m \in Nat, x + q * m = n, x < m
  PROVE  x = n % m
<1>0. m \in Nat \ {0} /\ x \in 0 .. m - 1
  OBVIOUS
<1>1. n \div m \in Nat /\ n % m \in 0 .. m - 1 /\ n = (n \div m) * m + (n % m)
  BY <1>0, Divide
<1>2. PICK p \in Nat, r \in 0 .. m - 1 : p = n \div m /\ r = n % m
  BY <1>1
<1>3. q * m + x = p * m + r
  BY <1>1, <1>2
<1>4. x = r
  BY <1>0, <1>3, Unique
<1> QED
  BY <1>2, <1>4

\* What is sent, read as a numeral, is the number: all of it, and no longer than it
\* has to be, or as many of the lowest digits as were asked for.
IsSent(text, number, width, radix) ==
  /\ text \in Seq(Range(HexChars))
  /\ \A i \in DOMAIN text : text[i] # "-" /\ Value(text[i]) < radix
  /\ IF width = 0 THEN Numeral(text, radix) = number /\ (Len(text) > 1 => text[1] # "0")
                  ELSE Numeral(text, radix) = number % Power(radix, width) /\ Len(text) = width

LEMMA SentReads ==
  ASSUME NEW radix \in Nat, radix >= 2, radix <= 16, NEW number \in Nat, NEW width \in Nat
  PROVE  IsSent(Sent(width, number, radix), number, width, radix)
<1>0. PICK text : text = Sent(width, number, radix)
  OBVIOUS
<1>a. PICK pos \in Nat : \E e, q :
           /\ Expands(e, number, radix) /\ pos = IF width > 0 THEN width ELSE Len(e)
           /\ WrittenDown(text, Zeros(e, pos), pos)
           /\ Padded(q, Zeros(e, pos), number, pos, radix)
           /\ q[pos] \in Nat /\ pos >= Len(e) => q[pos] = 0
  BY <1>0, SentIsWritten
<1>1. PICK e, q :
           /\ Expands(e, number, radix) /\ pos = IF width > 0 THEN width ELSE Len(e)
           /\ WrittenDown(text, Zeros(e, pos), pos)
           /\ Padded(q, Zeros(e, pos), number, pos, radix)
           /\ q[pos] \in Nat /\ pos >= Len(e) => q[pos] = 0
  BY <1>a
<1>2. text \in Seq(Range(HexChars)) /\ Len(text) = pos /\ DOMAIN text = 1 .. pos
  <2>1. text \in Seq(Range(HexChars)) /\ Len(text) = pos
    BY <1>1 DEF WrittenDown
  <2> QED
    BY <2>1
<1>3. \A i \in 1 .. pos : text[i] # "-" /\ Value(text[i]) < radix
  BY <1>1, WrittenDigits
<1>4. PICK x \in Nat, top \in Nat, w \in Nat :
         /\ x = Numeral(text, radix) /\ top = q[pos] /\ w = Power(radix, pos)
         /\ x + top * w = number /\ x < w
  <2>1. /\ Numeral(text, radix) \in Nat
        /\ Numeral(text, radix) + q[pos] * Power(radix, pos) = number
        /\ Numeral(text, radix) < Power(radix, pos)
    BY <1>1, NumeralOfDigits
  <2>2. Power(radix, pos) \in Nat
    BY PowerIs
  <2>3. q[pos] \in Nat
    BY <1>1 DEF Padded
  <2> QED
    BY <2>1, <2>2, <2>3
<1>5. ASSUME width = 0
      PROVE  Numeral(text, radix) = number /\ (Len(text) > 1 => text[1] # "0")
  <2>1. pos = Len(e)
    BY <1>1, <1>5
  <2>2. top = 0
    BY <1>1, <1>4, <2>1
  <2>3. 0 * w = 0
    OBVIOUS
  <2>4. x = number
    BY <1>4, <2>2, <2>3
  <2>5. ASSUME Len(text) > 1 PROVE text[1] # "0"
    <3>1. pos > 1 /\ pos = pos + 1 - 1
      BY <1>2, <2>5
    <3>2. e[pos] # 0
      BY <1>1, <2>1, <3>1 DEF Expands
    <3>3. Zeros(e, pos)[pos] = e[pos]
      BY <2>1, <3>1 DEF Zeros
    <3>4. PICK c \in 0 .. radix - 1 : c = Zeros(e, pos)[pos]
      BY <1>1, <3>1 DEF Padded
    <3>5. text[1] = HexChars[c + 1]
      BY <1>1, <3>1, <3>4 DEF WrittenDown
    <3>6. PICK k \in 2 .. 16 : k = c + 1
      BY <3>2, <3>3, <3>4
    <3>7. HexChars[k] # "0"
      BY DEF HexChars
    <3> QED
      BY <3>5, <3>6, <3>7
  <2> QED
    BY <1>4, <2>4, <2>5
<1>6. ASSUME width # 0
      PROVE  Numeral(text, radix) = number % Power(radix, width) /\ Len(text) = width
  <2>1. pos = width
    BY <1>1, <1>6
  <2>2. x = number % w
    <3>1. x + top * w = number /\ x < w
      BY <1>4
    <3> QED
      BY <3>1, Rest, Zenon
  <2>3. Numeral(text, radix) = number % Power(radix, width)
    BY <1>4, <2>1, <2>2, Zenon
  <2> QED
    BY <1>2, <2>1, <2>3, Zenon
<1>7. IsSent(text, number, width, radix)
  BY <1>2, <1>3, <1>5, <1>6 DEF IsSent
<1> QED
  BY <1>0, <1>7, Zenon

-----------------------------------------------------------------------------

\* A word is read as a number with a sign, which two's complement gives it.
LEMMA SignedIs ==
  ASSUME NEW u \in {U32, U64}, NEW w \in 0 .. u - 1
  PROVE  /\ Signed(w, u) \in Int
         /\ Signed(w, u) < 0 => Magnitude(Signed(w, u)) = - Signed(w, u)
<1>1. u \in Nat /\ u >= 2 /\ u <= U64 /\ U64 \in Nat
  BY FormatAssumption
<1>2. PICK h \in Nat : h = u \div 2 /\ h >= 1
  <2>1. u \div 2 \in Nat /\ u \div 2 >= 1
    BY <1>1
  <2> QED
    BY <2>1
<1>3. PICK n \in Int : n = Signed(w, u) /\ (n < 0 => w >= h /\ n = w - u)
  BY <1>1, <1>2 DEF Signed
<1>4. ASSUME n < 0 PROVE Magnitude(n) = - n
  <2>1. PICK m \in Nat : m = - n /\ m < U64
    BY <1>1, <1>2, <1>3, <1>4
  <2>2. m % U64 = m
    BY <1>1, <2>1
  <2> QED
    BY <1>4, <2>1, <2>2 DEF Magnitude
<1> QED
  BY <1>3, <1>4

\* What the loops read of a length is what it means.
LEMMA LengthMeans ==
  ASSUME NEW d, IsDirective(d)
  PROVE  (IF d[3] = "p" THEN "long" ELSE LengthOf(d[2])) = "long" <=> d[3] = "p" \/ "l" \in Range(d[2])
<1>1. d[2] \in Lengths
  BY DEF IsDirective
<1>2. \A m \in Lengths : LengthOf(m) = "long" <=> "l" \in Range(m)
  <2>1. LengthOf(<< >>) = "long" <=> "l" \in Range(<< >>)
    BY DEF LengthOf, Range
  <2>2. LengthOf(<<"h">>) = "long" <=> "l" \in Range(<<"h">>)
    BY DEF LengthOf, Range
  <2>3. LengthOf(<<"h", "h">>) = "long" <=> "l" \in Range(<<"h", "h">>)
    BY DEF LengthOf, Range
  <2>4. LengthOf(<<"l">>) = "long" <=> "l" \in Range(<<"l">>)
    BY DEF LengthOf, Range
  <2>5. LengthOf(<<"l", "l">>) = "long" <=> "l" \in Range(<<"l", "l">>)
    BY DEF LengthOf, Range
  <2> QED
    BY <2>1, <2>2, <2>3, <2>4, <2>5 DEF Lengths
<1> QED
  BY <1>1, <1>2

LEMMA FetchedIsMeant ==
  ASSUME NEW d, IsDirective(d), NEW word \in Nat
  PROVE  \E n \in Int :
           /\ n = Meant(word, d)
           /\ n = Fetched(word, IF d[3] = "p" THEN "long" ELSE LengthOf(d[2]), d[3] = "d")
           /\ d[3] # "d" => n \in Nat
           /\ n < 0 => Magnitude(n) = - n
<1>1. PICK len : len = IF d[3] = "p" THEN "long" ELSE LengthOf(d[2])
  OBVIOUS
<1>2. len = "long" <=> d[3] = "p" \/ "l" \in Range(d[2])
  BY <1>1, LengthMeans
<1>3. PICK u \in {U32, U64} : u = IF len = "long" THEN U64 ELSE U32
  OBVIOUS
<1>4. u \in Nat \ {0}
  BY FormatAssumption
<1>5. PICK w \in 0 .. u - 1 : w = word % u
  <2>1. word % u \in 0 .. u - 1
    BY <1>4
  <2> QED
    BY <2>1
<1>6. PICK n : n = IF d[3] = "d" THEN Signed(w, u) ELSE w
  OBVIOUS
<1>7. n = Meant(word, d)
  BY <1>2, <1>3, <1>5, <1>6 DEF Meant
<1>8. n = Fetched(word, len, d[3] = "d")
  BY <1>3, <1>5, <1>6 DEF Fetched
<1>9. n \in Int /\ (d[3] # "d" => n \in Nat) /\ (n < 0 => Magnitude(n) = - n)
  <2>1. CASE d[3] = "d"
    BY <1>6, <2>1, SignedIs
  <2>2. CASE d[3] # "d"
    BY <1>4, <1>6, <2>2
  <2> QED
    BY <2>1, <2>2
<1> QED
  BY <1>1, <1>7, <1>8, <1>9

\* What print_number writes: a sign, and the digits.
LEMMA PrintedIs ==
  ASSUME NEW width, NEW n \in Int, NEW sign \in BOOLEAN, NEW radix, sign \/ n \in Nat,
         n < 0 => Magnitude(n) = - n
  PROVE  /\ n < 0 => PrintNumber(width, n, sign, radix) = <<"-">> \o Sent(width, - n, radix)
         /\ n >= 0 => PrintNumber(width, n, sign, radix) = << >> \o Sent(width, n, radix)
<1>1. ASSUME n < 0
      PROVE  PrintNumber(width, n, sign, radix) = <<"-">> \o Sent(width, - n, radix)
  <2>1. sign /\ sign /\ n < 0
    BY <1>1
  <2>2. PICK m : m = - n /\ m = Magnitude(n)
    BY <1>1
  <2>3. PrintNumber(width, n, sign, radix) = <<"-">> \o Sent(width, m, radix)
    BY <2>1, <2>2, Zenon DEF PrintNumber, Sent, Buffer
  <2> QED
    BY <2>2, <2>3, Zenon
<1>2. ASSUME n >= 0
      PROVE  PrintNumber(width, n, sign, radix) = << >> \o Sent(width, n, radix)
  <2>1. ~ (n < 0) /\ Magnitude(n) = n
    BY <1>2 DEF Magnitude
  <2> QED
    BY <2>1 DEF PrintNumber, Sent, Buffer
<1> QED
  BY <1>1, <1>2

\* The characters of a number.
NumberChars == Range(HexChars) \cup {"-"}

LEMMA AfterMinus ==
  ASSUME NEW digits \in Seq(Range(HexChars))
  PROVE  /\ <<"-">> \o digits \in Seq(NumberChars) /\ digits \in Seq(NumberChars)
         /\ << >> \o digits = digits
         /\ Head(<<"-">> \o digits) = "-" /\ Tail(<<"-">> \o digits) = digits
<1> DEFINE C == NumberChars
           text == <<"-">> \o digits
<1>1. digits \in Seq(C)
  BY SeqMonotonic DEF NumberChars
<1>2. <<"-">> \in Seq(C)
  <2>1. \A i \in 1 .. 1 : <<"-">>[i] \in C
    BY DEF NumberChars
  <2> QED
    BY <2>1
<1> HIDE DEF C
<1>3. /\ text \in Seq(C) /\ Len(text) = 1 + Len(digits)
      /\ \A i \in 1 .. 1 + Len(digits) : text[i] = IF i <= 1 THEN <<"-">>[i] ELSE digits[i - 1]
  <2>1. Len(<<"-">>) = 1
    OBVIOUS
  <2> QED
    BY <1>1, <1>2, <2>1, ConcatProperties
<1>4. << >> \o digits = digits
  BY <1>1, ConcatEmptySeq
<1>5. Len(digits) \in Nat
  BY <1>1
<1> HIDE DEF text
<1>6. text[1] = "-" /\ text # << >>
  BY <1>3, <1>5
<1>7. Head(text) = "-"
  BY <1>3, <1>6
<1>8. /\ Tail(text) \in Seq(C) /\ Len(Tail(text)) = Len(digits)
      /\ \A i \in 1 .. Len(digits) : Tail(text)[i] = text[i + 1]
  <2>1. Tail(text) \in Seq(C) /\ Len(Tail(text)) = Len(text) - 1
        /\ \A i \in 1 .. Len(Tail(text)) : Tail(text)[i] = text[i + 1]
    BY <1>3, <1>6, HeadTailProperties
  <2> QED
    BY <1>3, <1>5, <2>1
<1>9. \A i \in 1 .. Len(digits) : Tail(text)[i] = digits[i]
  <2> SUFFICES ASSUME NEW i \in 1 .. Len(digits) PROVE Tail(text)[i] = digits[i]
    OBVIOUS
  <2>1. PICK k \in 2 .. 1 + Len(digits) : k = i + 1
    BY <1>5
  <2>2. text[k] = digits[i]
    <3>1. k - 1 = i /\ ~ (k <= 1) /\ k \in 1 .. 1 + Len(digits)
      BY <1>5, <2>1
    <3>2. text[k] = digits[k - 1]
      BY <1>3, <3>1
    <3> QED
      BY <3>1, <3>2, Zenon
  <2> QED
    BY <1>8, <2>1, <2>2
<1>10. Tail(text) = digits
  BY <1>1, <1>8, <1>9, SeqEqual
<1> QED
  BY <1>1, <1>3, <1>4, <1>7, <1>10 DEF text, C

LEMMA ConversionReadsBack ==
  ASSUME NEW d, IsDirective(d), NEW word \in Nat
  PROVE  Conversion(d, word) \in Seq(NumberChars) /\ ReadsBack(Conversion(d, word), d, word)
<1>1. PICK n \in Int :
        /\ n = Meant(word, d)
        /\ n = Fetched(word, IF d[3] = "p" THEN "long" ELSE LengthOf(d[2]), d[3] = "d")
        /\ d[3] # "d" => n \in Nat
        /\ n < 0 => Magnitude(n) = - n
  BY FetchedIsMeant
<1>2. PICK width \in Nat : width = Numeral(d[1], 10)
  <2>1. d[1] \in Seq(DigitChars)
    BY DEF IsDirective, DigitChars
  <2> QED
    BY <2>1, ReadsWidth DEF WidthIsRead
<1>3. PICK radix \in {8, 10, 16} : radix = Radix(d[3])
  BY DEF Radix
<1>4. PICK sign \in BOOLEAN : sign <=> d[3] = "d"
  OBVIOUS
<1>5. Conversion(d, word) = PrintNumber(width, n, sign, radix)
  <2>1. sign = (d[3] = "d")
    BY <1>4
  <2> QED
    BY <1>1, <1>2, <1>3, <2>1, Zenon DEF Conversion, Written
<1>6. PICK given \in Nat : given = IF n < 0 THEN - n ELSE n
  OBVIOUS
<1>7. PICK digits : digits = Sent(width, given, radix)
  OBVIOUS
<1>8. /\ n < 0 => Conversion(d, word) = <<"-">> \o digits
      /\ n >= 0 => Conversion(d, word) = << >> \o digits
  <2>1. sign \/ n \in Nat
    BY <1>1, <1>4
  <2>2. /\ n < 0 => PrintNumber(width, n, sign, radix) = <<"-">> \o Sent(width, - n, radix)
        /\ n >= 0 => PrintNumber(width, n, sign, radix) = << >> \o Sent(width, n, radix)
    BY <1>1, <2>1, PrintedIs
  <2>3. (n < 0 => - n = given) /\ (n >= 0 => n = given)
    BY <1>6
  <2> QED
    BY <1>5, <1>7, <2>2, <2>3, Zenon
<1>9. /\ digits \in Seq(Range(HexChars))
      /\ \A i \in DOMAIN digits : digits[i] # "-" /\ Value(digits[i]) < radix
      /\ IF width = 0 THEN Numeral(digits, radix) = given /\ (Len(digits) > 1 => digits[1] # "0")
                      ELSE Numeral(digits, radix) = given % Power(radix, width) /\ Len(digits) = width
  <2>1. radix \in Nat /\ radix >= 2 /\ radix <= 16
    OBVIOUS
  <2>2. IsSent(Sent(width, given, radix), given, width, radix)
    BY <2>1, SentReads
  <2>3. IsSent(digits, given, width, radix)
    BY <1>7, <2>2, Zenon
  <2> QED
    BY <2>3 DEF IsSent
<1>10. PICK text : text = Conversion(d, word)
  OBVIOUS
<1>11. CASE n < 0
  <2>1. text \in Seq(NumberChars) /\ Head(text) = "-" /\ Tail(text) = digits
    BY <1>8, <1>9, <1>10, <1>11, AfterMinus
  <2>2. ReadsBack(text, d, word)
    BY <1>1, <1>2, <1>3, <1>6, <1>9, <1>11, <2>1, Zenon DEF ReadsBack
  <2> QED
    BY <1>10, <2>1, <2>2, Zenon
<1>12. CASE ~ (n < 0)
  <2>1. text \in Seq(NumberChars) /\ text = digits
    BY <1>8, <1>9, <1>10, <1>12, AfterMinus
  <2>2. ReadsBack(text, d, word)
    BY <1>1, <1>2, <1>3, <1>6, <1>9, <1>12, <2>1, Zenon DEF ReadsBack
  <2> QED
    BY <1>10, <2>1, <2>2, Zenon
<1> QED
  BY <1>11, <1>12

-----------------------------------------------------------------------------
(* The calls before there is a console. *)

\* What has been sent is what a call sent, or nothing.
SerialInv ==
  \E ds, args :
    /\ Call(ds, args, NumberChars)
    /\ serial = [said |-> ds, args |-> args, text |-> Vsprintf(Format(ds), args)]

LEMMA CallOfNumbers ==
  ASSUME NEW ds, NEW args, Len(ds) \in Nat, DOMAIN ds = 1 .. Len(ds),
         \A i \in DOMAIN ds : IsDirective(ds[i]), args \in Seq(Nat), Len(args) = Len(ds)
  PROVE  Call(ds, args, NumberChars)
<1>1. \A i \in DOMAIN ds : args[i] \in Nat
  OBVIOUS
<1>2. \A i \in DOMAIN ds : Conversion(ds[i], args[i]) \in Seq(NumberChars)
  BY <1>1, ConversionReadsBack
<1> QED
  BY <1>2 DEF Call

LEMMA CallIsMeant ==
  ASSUME SerialInv
  PROVE  TextIsMeant
<1>1. PICK ds, args :
        /\ Call(ds, args, NumberChars)
        /\ serial = [said |-> ds, args |-> args, text |-> Vsprintf(Format(ds), args)]
  BY DEF SerialInv
<1>2. serial.said = ds /\ serial.args = args /\ serial.text = Vsprintf(Format(ds), args)
  BY <1>1
<1>3. \A i \in DOMAIN ds :
        /\ Vsprintf(Spelled(ds[i]), <<args[i]>>) = Conversion(ds[i], args[i])
        /\ ReadsBack(Conversion(ds[i], args[i]), ds[i], args[i])
  <2> SUFFICES ASSUME NEW i \in DOMAIN ds
               PROVE  /\ Vsprintf(Spelled(ds[i]), <<args[i]>>) = Conversion(ds[i], args[i])
                      /\ ReadsBack(Conversion(ds[i], args[i]), ds[i], args[i])
    OBVIOUS
  <2>1. IsDirective(ds[i]) /\ args[i] \in Nat
    BY <1>1 DEF Call
  <2>2. Conversion(ds[i], args[i]) \in Seq(NumberChars) /\ ReadsBack(Conversion(ds[i], args[i]), ds[i], args[i])
    BY <2>1, ConversionReadsBack
  <2> QED
    BY <2>1, <2>2, AloneIs
<1>4. [i \in DOMAIN ds |-> Vsprintf(Spelled(ds[i]), <<args[i]>>)] = Conversions(ds, args)
  BY <1>3 DEF Conversions
<1>5. /\ Vsprintf(Format(ds), args) = FlattenSeq(Conversions(ds, args))
      /\ SprintfKnows(ds) => Sprintf(Format(ds), args) = FlattenSeq(Conversions(ds, args))
  BY <1>1, WritesConversions
<1>6. \A i \in DOMAIN ds : ReadsBack(Vsprintf(Spelled(ds[i]), <<args[i]>>), ds[i], args[i])
  BY <1>3, Zenon
<1>7. serial.text = FlattenSeq([i \in DOMAIN ds |-> Vsprintf(Spelled(ds[i]), <<args[i]>>)])
  BY <1>2, <1>4, <1>5, Zenon
<1>8. (\A i \in DOMAIN ds : ds[i][3] # "p" /\ (i < Len(ds) => ds[i][1] = << >> /\ ds[i][2] = << >>)) =>
        Sprintf(Format(ds), args) = serial.text
  BY <1>2, <1>5, Zenon DEF SprintfKnows
<1> QED
  BY <1>2, <1>6, <1>7, <1>8, Zenon DEF TextIsMeant

\* Nothing is the text of nothing.
LEMMA SilentIsCall ==
  /\ Call(<< >>, << >>, NumberChars)
  /\ Silent = [said |-> << >>, args |-> << >>, text |-> Vsprintf(Format(<< >>), << >>)]
<1>1. Call(<< >>, << >>, NumberChars)
  <2>1. << >> \in Seq(Nat)
    BY EmptySeq
  <2>2. Len(<< >>) = 0 /\ DOMAIN << >> = 1 .. 0 /\ 0 \in Nat
    OBVIOUS
  <2>3. \A i \in 1 .. 0 : FALSE
    OBVIOUS
  <2>4. \A i \in DOMAIN << >> : IsDirective(<< >>[i])
    BY <2>2, <2>3, Zenon
  <2> QED
    BY <2>1, <2>2, <2>4, CallOfNumbers, Zenon
<1>2. Vsprintf(Format(<< >>), << >>) = << >>
  <2>1. Vsprintf(Format(<< >>), << >>) = FlattenSeq(Conversions(<< >>, << >>))
    BY <1>1, WritesConversions
  <2>2. Conversions(<< >>, << >>) \in Seq(Seq(NumberChars)) /\ Len(Conversions(<< >>, << >>)) = 0
    BY <1>1, CallTypes
  <2>3. PICK f : Together(f, Conversions(<< >>, << >>))
    BY <2>2, FlattenIs
  <2> QED
    BY <2>1, <2>2, <2>3 DEF Together
<1> QED
  BY <1>1, <1>2 DEF Silent

LEMMA SerialInit ==
  TtyInit => SerialInv
<1>1. TtyInit => serial = Silent
  BY DEF TtyInit
<1> QED
  BY <1>1, SilentIsCall, Zenon DEF SerialInv

LEMMA SerialStep ==
  SerialInv /\ [TtyNext]_ttyVars => SerialInv'
<1> SUFFICES ASSUME SerialInv, [TtyNext]_ttyVars PROVE SerialInv'
  OBVIOUS
<1>1. ASSUME serial' = serial PROVE SerialInv'
  BY <1>1 DEF SerialInv
<1>2. ASSUME KprintfEarly PROVE SerialInv'
  <2>1. PICK call \in EarlyCalls :
          serial' = [said |-> call[1], args |-> call[2], text |-> Vsprintf(Format(call[1]), call[2])]
    BY <1>2 DEF KprintfEarly
  <2>2. Call(call[1], call[2], NumberChars)
    BY EarlyAssumption, CallOfNumbers
  <2> QED
    BY <2>1, <2>2, Zenon DEF SerialInv
<1>3. ASSUME WriteCharStep PROVE serial' = serial
  BY <1>3 DEF WriteCharStep, Same, Fetch, NlLoad, NlStore, CrLoad, CrMod, CrStore, Check,
              Wrap, Scroll, Col, Row, Draw, IncLoad, IncStore
<1>4. ASSUME InitVideo PROVE SerialInv'
  <2>1. serial' = Silent
    BY <1>4 DEF InitVideo
  <2> QED
    BY <2>1, SilentIsCall, Zenon DEF SerialInv
<1>7. ASSUME InitTty \/ Panic \/ PanicInHandler \/ Halt \/ Interrupt
      PROVE  serial' = serial
  BY <1>7 DEF InitTty, Panic, PanicInHandler, Halt, Interrupt
<1>5. ASSUME NEW m \in Messages, Kprintf(m) PROVE serial' = serial
  BY <1>5 DEF Kprintf
<1>6. ASSUME UNCHANGED ttyVars PROVE serial' = serial
  BY <1>6 DEF ttyVars
<1> QED
  BY <1>1, <1>2, <1>3, <1>4, <1>5, <1>6, <1>7 DEF TtyNext

\* For every call of kprintf with numbers, in every format of directives vsprintf
\* knows: what each directive writes is the number passed, as short as it can be
\* or as wide as was asked, the same wherever it stands, and sprintf writes the
\* same where it has no width or length to carry over (kernel/io.c).
THEOREM NumbersAreMeant ==
  TtySpec => []TextIsMeant
<1>1. TtyInit => SerialInv
  BY SerialInit
<1>2. SerialInv /\ [TtyNext]_ttyVars => SerialInv'
  BY SerialStep
<1>3. SerialInv => TextIsMeant
  BY CallIsMeant
<1> QED
  BY <1>1, <1>2, <1>3, PTL DEF TtySpec
=============================================================================
