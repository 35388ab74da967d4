-------------------------------- MODULE Tty --------------------------------
(***************************************************************************)
(* The console: write_char, the scrolling and drawing of kernel/tty.c and  *)
(* kernel/video.c, kprintf as the source of characters and __panic.        *)
(*                                                                         *)
(* The code the processor runs with interrupts enabled advances by one     *)
(* load or store of console.current_cell, one scan line drawn or one       *)
(* scrolled.  A handler runs between any two of these steps and prints     *)
(* too (irq_global_handler starts with a kprintf); interrupts are off in   *)
(* it, so that it is one step here.                                        *)
(*                                                                         *)
(* A word of the framebuffer stands for the FONT_WIDTH pixels of one scan  *)
(* line of a cell, and the scan line is as long as the columns.            *)
(***************************************************************************)
EXTENDS Format

CONSTANTS Rows, Cols,      \* console.rows, console.cols
          CharSize,        \* scan lines of a glyph
          Height,          \* scan lines of the framebuffer
          Messages,        \* what the kernel prints: <<format, arguments>>
          EarlyCalls,      \* and before there is a console: <<directives, arguments>>
          HandlerMessage,  \* what an interrupt handler prints
          PanicMessage,    \* what __panic prints
          NL, CR,          \* '\n' and '\r'
          MaxChars,        \* bound: characters printed
          MaxInterrupts    \* bound: interrupts taken

ASSUME TtyAssumption ==
  /\ Rows \in Nat \ {0} /\ Cols \in Nat \ {0} /\ CharSize \in Nat \ {0}
  /\ Height \in Rows * CharSize .. (Rows + 1) * CharSize - 1
  /\ MaxChars \in Nat /\ MaxInterrupts \in Nat
  /\ NL # CR

VARIABLES up,          \* which of init_video and init_tty has run
          screen,      \* the framebuffer, word by word
          cell,        \* console.current_cell
          todo,        \* what is left of the kprintf being executed
          pc,          \* the next step of write_char, or of the code around it
          a, b,        \* values loaded and not yet stored; col and row later
          line,        \* next scan line of a scroll, or of the glyph drawn
          printed,     \* every character since the screen was cleared, in order
          torn,        \* an interrupt came inside the critical part of write_char
          panicking,   \* who has called __panic: "no", "base" or "handler"
          interrupts,  \* interrupts taken
          serial       \* a kprintf before there is a console, and what it sent

ttyVars == <<serial, up, screen, cell, todo, pc, a, b, line, printed, torn, panicking, interrupts>>

Blank  == <<"blank", 0>>
Beyond == <<"beyond", 0>>    \* whatever lies behind the framebuffer

Full  == Rows * Cols         \* the cell behind the last one
Total == Height * Cols       \* words of the framebuffer
Words == 0 .. Total - 1
Clear == [i \in Words |-> Blank]

Special(c) == c \in {NL, CR}

Silent == [said |-> << >>, args |-> << >>, text |-> << >>]

\* init_tty has not run: kprintf reaches the serial port only.
TtyInit ==
  /\ up = "none" /\ screen = Clear /\ cell = 0
  /\ todo = << >> /\ pc = "idle" /\ a = 0 /\ b = 0 /\ line = 0
  /\ printed = << >> /\ torn = FALSE /\ panicking = "no" /\ interrupts = 0
  /\ serial = Silent

-----------------------------------------------------------------------------
(* video.c and the drawing of tty.c *)

\* vga_get_pixel_index: the test lets the word just behind the framebuffer by.
PixelAt(scr, i) == IF i < Total THEN scr[i] ELSE IF i = Total THEN Beyond ELSE Blank

\* (mutant) The pixels are taken from one scan line above.
ScrolledLineShort(scr, y) ==
  [i \in Words |-> IF i \div Cols = y THEN PixelAt(scr, i + (CharSize - 1) * Cols) ELSE scr[i]]

\* tty_offset_line, for one scan line.
ScrolledLine(scr, y) ==
  [i \in Words |-> IF i \div Cols = y THEN PixelAt(scr, i + CharSize * Cols) ELSE scr[i]]

\* draw_char, for scan line k of the glyph.  Below the framebuffer nothing is drawn.
DrawnLine(scr, c, col, row, k) ==
  [i \in Words |-> IF i = (row * CharSize + k) * Cols + col THEN <<c, k>> ELSE scr[i]]

UpTo(n) == [k \in 1 .. n |-> k - 1]

Scrolled(scr) == FoldLeft(ScrolledLine, scr, UpTo(Height))
Drawn(scr, c, col, row) ==
  FoldLeft(LAMBDA s, k : DrawnLine(s, c, col, row, k), scr, UpTo(CharSize))

-----------------------------------------------------------------------------
(* write_char as a whole, on the console [cell, screen] *)

LineStart(p) == p - (p % Cols)

Moved(p, c) == IF c = NL THEN LineStart(p + Cols) ELSE IF c = CR THEN LineStart(p) ELSE p

\* (mutant) The screen scrolls one character late.
AtEndLate(p) == p = Full + 1

AtEnd(p) == p = Full

WriteChar(con, c) ==
  LET p   == Moved(con.cell, c)
      s   == IF AtEnd(p) THEN Scrolled(con.screen) ELSE con.screen
      q   == IF AtEnd(p) THEN (Rows - 1) * Cols ELSE p
  IN  IF Special(c) THEN [cell |-> q, screen |-> s]
      ELSE [cell |-> q + 1, screen |-> Drawn(s, c, q % Cols, q \div Cols)]

Console == [cell |-> cell, screen |-> screen]
Put(con, text) == FoldLeft(WriteChar, con, text)

-----------------------------------------------------------------------------
(* write_char step by step *)

Idle == pc = "idle" /\ todo = << >>

Same == UNCHANGED <<serial, up, panicking, interrupts, torn>>

Fetch ==
  /\ pc = "idle" /\ todo # << >>
  /\ pc' = CASE Head(todo) = NL -> "nl_load" [] Head(todo) = CR -> "cr_load" [] OTHER -> "check"
  /\ UNCHANGED <<screen, cell, todo, a, b, line, printed>> /\ Same

\* current_cell += cols
NlLoad ==
  /\ pc = "nl_load" /\ a' = cell /\ pc' = "nl_store"
  /\ UNCHANGED <<screen, cell, todo, b, line, printed>> /\ Same

NlStore ==
  /\ pc = "nl_store" /\ cell' = a + Cols /\ pc' = "cr_load"
  /\ UNCHANGED <<screen, todo, a, b, line, printed>> /\ Same

\* current_cell -= current_cell % cols
CrLoad ==
  /\ pc = "cr_load" /\ a' = cell /\ pc' = "cr_mod"
  /\ UNCHANGED <<screen, cell, todo, b, line, printed>> /\ Same

CrMod ==
  /\ pc = "cr_mod" /\ b' = cell % Cols /\ pc' = "cr_store"
  /\ UNCHANGED <<screen, cell, todo, a, line, printed>> /\ Same

CrStore ==
  /\ pc = "cr_store" /\ cell' = a - b /\ pc' = "check"
  /\ printed' = Append(printed, Head(todo))
  /\ UNCHANGED <<screen, todo, a, b, line>> /\ Same

Check ==
  /\ pc = "check" /\ pc' = IF AtEnd(cell) THEN "wrap" ELSE "col"
  /\ UNCHANGED <<screen, cell, todo, a, b, line, printed>> /\ Same

Wrap ==
  /\ pc = "wrap" /\ cell' = (Rows - 1) * Cols /\ line' = 0 /\ pc' = "scroll"
  /\ UNCHANGED <<screen, todo, a, b, printed>> /\ Same

Scroll ==
  /\ pc = "scroll" /\ screen' = ScrolledLine(screen, line)
  /\ line' = (line + 1) % Height
  /\ pc' = IF line + 1 = Height THEN "col" ELSE "scroll"
  /\ UNCHANGED <<cell, todo, a, b, printed>> /\ Same

Col ==
  /\ pc = "col" /\ a' = cell % Cols /\ pc' = "row"
  /\ UNCHANGED <<screen, cell, todo, b, line, printed>> /\ Same

\* The row; a special character ends here.
Row ==
  /\ pc = "row" /\ b' = cell \div Cols
  /\ IF Special(Head(todo))
       THEN pc' = "idle" /\ todo' = Tail(todo) /\ UNCHANGED printed
       ELSE pc' = "draw" /\ printed' = Append(printed, Head(todo)) /\ UNCHANGED todo
  /\ UNCHANGED <<screen, cell, a, line>> /\ Same

Draw ==
  /\ pc = "draw" /\ screen' = DrawnLine(screen, Head(todo), a, b, line)
  /\ line' = (line + 1) % CharSize
  /\ pc' = IF line + 1 = CharSize THEN "inc_load" ELSE "draw"
  /\ UNCHANGED <<cell, todo, a, b, printed>> /\ Same

\* current_cell++
IncLoad ==
  /\ pc = "inc_load" /\ a' = cell /\ pc' = "inc_store"
  /\ UNCHANGED <<screen, cell, todo, b, line, printed>> /\ Same

IncStore ==
  /\ pc = "inc_store" /\ cell' = a + 1
  /\ pc' = "idle" /\ todo' = Tail(todo)
  /\ UNCHANGED <<screen, a, b, line, printed>> /\ Same

WriteCharStep ==
  \/ Fetch \/ NlLoad \/ NlStore \/ CrLoad \/ CrMod \/ CrStore \/ Check \/ Wrap
  \/ Scroll \/ Col \/ Row \/ Draw \/ IncLoad \/ IncStore

-----------------------------------------------------------------------------
(* The code around it *)

InitVideo ==
  /\ Idle /\ panicking = "no" /\ up = "none" /\ up' = "video"
  /\ screen' = Clear
  /\ UNCHANGED <<cell, todo, pc, a, b, line, printed, torn, panicking, interrupts>>
  /\ serial' = Silent

InitTty ==
  /\ Idle /\ panicking = "no" /\ up = "video" /\ up' = "tty"
  /\ UNCHANGED <<serial, screen, cell, todo, pc, a, b, line, printed, torn, panicking, interrupts>>

\* What reaches the screen of a kprintf depends on TTY_MODULE.
Shown(text) == IF up = "tty" THEN text ELSE << >>

Kprintf(m) ==
  LET text == Vsprintf(m[1], m[2])
  IN  /\ Idle /\ panicking = "no"
      /\ Len(printed) + Len(text) <= MaxChars
      /\ todo' = Shown(text)
      /\ UNCHANGED <<serial, up, screen, cell, pc, a, b, line, printed, torn, panicking, interrupts>>

\* kprintf before there is a console, which is when a kernel finds out what it
\* runs on.  One call is followed, until init_video.
KprintfEarly ==
  /\ Idle /\ panicking = "no" /\ up = "none" /\ serial = Silent
  /\ \E call \in EarlyCalls :
       serial' = [said |-> call[1], args |-> call[2], text |-> Vsprintf(Format(call[1]), call[2])]
  /\ UNCHANGED <<up, screen, cell, todo, pc, a, b, line, printed, torn, panicking, interrupts>>

\* (mutant) The cursor is not put back.
PanicBelow ==
  /\ Idle /\ panicking = "no" /\ up # "none"
  /\ panicking' = "base"
  /\ screen' = Clear /\ printed' = << >> /\ torn' = FALSE
  /\ todo' = Shown(PanicMessage)
  /\ UNCHANGED <<serial, up, cell, pc, a, b, line, interrupts>>

\* __panic, called with interrupts as they are.  Before init_video there is
\* no framebuffer to clear and what happens is not defined: left out.
Panic ==
  /\ Idle /\ panicking = "no" /\ up # "none"
  /\ panicking' = "base"
  /\ screen' = Clear /\ cell' = 0 /\ printed' = << >> /\ torn' = FALSE
  /\ todo' = Shown(PanicMessage)
  /\ UNCHANGED <<serial, up, pc, a, b, line, interrupts>>

\* Where an interrupt does no harm: where nothing loaded is used again.
Safe ==
  \/ pc \in {"idle", "nl_load", "check", "col", "halted"}
  \/ pc = "cr_load" /\ Head(todo) = CR
  \/ pc = "row" /\ Special(Head(todo))

\* An interrupt whose handler prints.
Interrupt ==
  /\ interrupts < MaxInterrupts /\ panicking # "handler"
  /\ interrupts' = interrupts + 1
  /\ LET con == Put(Console, Shown(HandlerMessage))
     IN  screen' = con.screen /\ cell' = con.cell
  /\ printed' = printed \o Shown(HandlerMessage)
  /\ torn' = (torn \/ (up = "tty" /\ ~ Safe))
  /\ UNCHANGED <<serial, up, todo, pc, a, b, line, panicking>>

\* A handler that panics, as the keyboard's does: interrupts stay off.
PanicInHandler ==
  /\ interrupts < MaxInterrupts /\ panicking # "handler" /\ up # "none"
  /\ interrupts' = interrupts + 1
  /\ panicking' = "handler"
  /\ LET con == Put([cell |-> 0, screen |-> Clear], Shown(PanicMessage))
     IN  screen' = con.screen /\ cell' = con.cell
  /\ printed' = Shown(PanicMessage) /\ torn' = FALSE
  /\ todo' = << >> /\ pc' = "halted"
  /\ UNCHANGED <<serial, up, a, b, line>>

\* __panic ends in a loop of hlt.
Halt ==
  /\ Idle /\ panicking = "base" /\ pc' = "halted"
  /\ UNCHANGED <<serial, up, screen, cell, todo, a, b, line, printed, torn, panicking, interrupts>>

TtyNext ==
  \/ WriteCharStep
  \/ InitVideo \/ InitTty
  \/ KprintfEarly \/ \E m \in Messages : Kprintf(m)
  \/ Panic \/ PanicInHandler \/ Halt
  \/ Interrupt

TtySpec == TtyInit /\ [][TtyNext]_ttyVars

-----------------------------------------------------------------------------
(* What a console shows of a text, said without cells and copied pixels: the *)
(* text is laid out on an endless tape of rows, and the last Rows of them    *)
(* that were reached are visible.                                            *)

\* "at": what stands where something was printed.
BlankTape == [pos |-> 0, bottom |-> Rows - 1, at |-> << >>, past |-> FALSE]

Inked(at, pos, c) == [p \in DOMAIN at \cup {pos} |-> IF p = pos THEN c ELSE at[p]]

Later(x, y) == IF x < y THEN y ELSE x

\* "past": a newline came when the last visible row was full to its end.
Laid(t, c) ==
  LET newline == (t.pos \div Cols + 1) * Cols
      return  == (t.pos \div Cols) * Cols
  IN  CASE c = NL -> [t EXCEPT !.pos = newline, !.bottom = Later(@, newline \div Cols),
                               !.past = @ \/ t.pos \div Cols > t.bottom]
        [] c = CR -> [t EXCEPT !.pos = return, !.bottom = Later(@, return \div Cols)]
        [] OTHER  -> [t EXCEPT !.pos = @ + 1, !.bottom = Later(@, t.pos \div Cols), !.at = Inked(@, t.pos, c)]

Tape(text) == FoldLeft(Laid, BlankTape, text)

\* Before there is a console, each number has its conversion.
ASSUME EarlyAssumption ==
  \A call \in EarlyCalls :
    /\ Len(call[1]) \in Nat /\ DOMAIN call[1] = 1 .. Len(call[1])
    /\ \A i \in DOMAIN call[1] : IsDirective(call[1][i])
    /\ call[2] \in Seq(Nat) /\ Len(call[2]) = Len(call[1])

\* What is printed are texts.  That of a handler is a line (idt.c:145, keyboard.c:19),
\* and the rows of a panic are shorter than those of the screen.
ASSUME TextAssumption ==
  /\ {NL, CR} \subseteq STRING /\ {HandlerMessage, PanicMessage} \subseteq Seq(STRING)
  /\ \A m \in Messages : Vsprintf(m[1], m[2]) \in Seq(STRING)
  /\ HandlerMessage # << >> =>
       ~ Special(HandlerMessage[1]) /\ HandlerMessage[Len(HandlerMessage)] = NL
  /\ ~ Tape(PanicMessage).past

\* The word of the screen at scan line y, column x.
Visible(tape, y, x) ==
  LET p == (tape.bottom - (Rows - 1) + y \div CharSize) * Cols + x
  IN  IF y \div CharSize < Rows /\ p \in DOMAIN tape.at THEN <<tape.at[p], y % CharSize>> ELSE Blank

\* The one word that a scroll reads from behind the framebuffer may show in
\* an empty place of the first column.
Stray(y, x) == x = 0 /\ (Height - y) % CharSize = 0

Shows(text) ==
  LET tape == Tape(text)
  IN  \A i \in Words :
        LET y == i \div Cols
            x == i % Cols
        IN  \/ screen[i] = Visible(tape, y, x)
            \/ Stray(y, x) /\ Visible(tape, y, x) = Blank /\ screen[i] = Beyond

-----------------------------------------------------------------------------
(* Correctness *)

AtRest == pc \in {"idle", "halted"}

\* kernel/tty.c and video.c: wrapping, newlines, returns and scrolling by
\* copying pixels show the last rows of what was printed, interrupts between
\* two characters included, until a newline follows a last row that is full.
ScreenShowsText ==
  AtRest /\ ~ torn /\ ~ Tape(printed).past => Shows(printed)

\* write_char, tty.c:85: the cursor leaves the screen, where nothing brings
\* it back and nothing printed is seen again, exactly with a newline after a
\* full last row or in the critical part of write_char.
CursorLostOnlyAtFullRow ==
  AtRest /\ ~ torn => (cell > Full <=> Tape(printed).past)

\* __panic: whatever became of the cursor and the screen before, a panic
\* that is not interrupted ends with its own text on the screen and no
\* other; one in a handler cannot be interrupted.
PanicIsShown ==
  /\ panicking = "handler" => pc = "halted" /\ printed = Shown(PanicMessage)
  /\ pc = "halted" /\ printed = Shown(PanicMessage) /\ ~ torn => Shows(printed) /\ cell <= Full

\* kernel/io.c: what a conversion writes is the number passed, read in its base
\* (a width that is too small keeps the low digits only, which printf elsewhere
\* never does), and it is the same wherever its directive stands.  sprintf, which
\* names the disks, writes the same text while only the last directive has a
\* width or a length and none is %p: it carries width and length to the next.
TextIsMeant ==
  LET ds       == serial.said
      Plain(d) == d[1] = << >> /\ d[2] = << >>
      Alone(i) == Vsprintf(Spelled(ds[i]), <<serial.args[i]>>)
  IN  /\ \A i \in DOMAIN ds : ReadsBack(Alone(i), ds[i], serial.args[i])
      /\ serial.text = FlattenSeq([i \in DOMAIN ds |-> Alone(i)])
      /\ (\A i \in DOMAIN ds : ds[i][3] # "p" /\ (i < Len(ds) => Plain(ds[i]))) =>
           Sprintf(Format(ds), serial.args) = serial.text

=============================================================================
