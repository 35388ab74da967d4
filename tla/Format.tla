------------------------------ MODULE Format -------------------------------
(***************************************************************************)
(* The formatted output of kernel/io.c: print_number, and the loops of     *)
(* vsprintf (which kprintf calls) and sprintf (which names the disks).     *)
(*                                                                         *)
(* A format is a sequence of characters; an argument is the word va_arg    *)
(* finds, a natural below 2^64, or the characters of a string.  A width    *)
(* and a minus sign have room in the buffer of 32 characters, and          *)
(* arguments suffice: what happens otherwise is undefined.  The counts the *)
(* functions return are left out: the kernel uses none.                    *)
(***************************************************************************)
EXTENDS Integers, Sequences, SequencesExt

CONSTANTS U32, U64    \* 2^32 and 2^64

ASSUME FormatAssumption == U32 \in Nat \ {0, 1} /\ U64 \in Nat /\ U64 >= U32

HexChars == <<"0", "1", "2", "3", "4", "5", "6", "7",
              "8", "9", "a", "b", "c", "d", "e", "f">>
Value(c) == (CHOOSE i \in DOMAIN HexChars : HexChars[i] = c) - 1

IsDigit(c) == \E i \in 1 .. 10 : HexChars[i] = c

-----------------------------------------------------------------------------
(* print_number *)

Signed(word, u) == IF word < u \div 2 THEN word ELSE word - u
Magnitude(n) == IF n < 0 THEN (- n) % U64 ELSE n

\* The digits from the lowest up, as the loop puts them into the buffer.
Digits(number, radix) ==
  LET digits[n \in 0 .. number] ==
        IF n < radix THEN <<n>> ELSE <<n % radix>> \o digits[n \div radix]
  IN  digits[number]

\* The buffer is full of '0', and a width decides how many are taken from it.
PrintNumber(width, n, sign, radix) ==
  LET number == IF sign THEN Magnitude(n) ELSE n
      digits == Digits(number, radix)
      pos    == IF width > 0 THEN width ELSE Len(digits)
      buffer == [i \in 1 .. pos |-> IF i <= Len(digits) THEN HexChars[digits[i] + 1] ELSE "0"]
  IN  (IF sign /\ n < 0 THEN <<"-">> ELSE << >>) \o Reverse(buffer)

-----------------------------------------------------------------------------
(* The loops.  What is known of the directive being read is in state, width  *)
(* and len; only vsprintf forgets width and len at its end.                  *)

Start(args) == [state |-> "normal", width |-> 0, len |-> "default", out |-> << >>, args |-> args]

Radix(c) == CASE c = "o" -> 8 [] c \in {"x", "X", "p"} -> 16 [] OTHER -> 10

Fetched(word, len, sign) ==
  LET u == IF len = "long" THEN U64 ELSE U32
  IN  IF sign THEN Signed(word % u, u) ELSE word % u

\* What a specifier writes, and what it leaves of the arguments.
Converted(s, c, len) ==
  LET sign == c \in {"i", "d"}
  IN  CASE c \in {"i", "d", "u", "x", "X", "p", "o"} ->
             <<PrintNumber(s.width, Fetched(Head(s.args), len, sign), sign, Radix(c)), Tail(s.args)>>
        [] c = "s"  -> <<Head(s.args), Tail(s.args)>>
        [] c = "c"  -> <<Head(s.args), Tail(s.args)>>
        [] c = "%"  -> <<<<"%">>, s.args>>
        [] OTHER    -> << << >>, s.args>>

\* (mutant) The width is not forgotten.
VSpecifierKeepsWidth(s, c) ==
  LET r == Converted(s, c, IF c = "p" THEN "long" ELSE s.len)
  IN  [Start(r[2]) EXCEPT !.out = s.out \o r[1], !.width = s.width]

VSpecifier(s, c) ==
  LET r == Converted(s, c, IF c = "p" THEN "long" ELSE s.len)
  IN  [Start(r[2]) EXCEPT !.out = s.out \o r[1]]

SSpecifier(s, c) ==
  LET r == Converted(s, c, s.len)
  IN  [s EXCEPT !.state = "normal", !.out = @ \o r[1], !.args = r[2]]

\* Whether the loop has come to the specifier.
AtSpecifier(s, c) ==
  /\ s.state # "normal" /\ c \notin {"l", "h"}
  /\ s.state = "width" => ~ IsDigit(c)

\* Before that: a turn that moves on in the format, with the turns before it that
\* only change the state.
Turn(s, c) ==
  CASE s.state = "normal" /\ c = "%" -> [s EXCEPT !.state = "width"]
    [] s.state = "normal" /\ c # "%" -> [s EXCEPT !.out = Append(@, c)]
    [] s.state = "width" /\ IsDigit(c) -> [s EXCEPT !.width = (@ * 10 + Value(c)) % 256]
    [] s.state # "normal" /\ c = "l" -> [s EXCEPT !.len = "long", !.state = "length"]
    [] s.state # "normal" /\ c = "h" ->
         [s EXCEPT !.len = IF @ = "half" THEN "half_half" ELSE "half", !.state = "length"]

VTurn(s, c) == IF AtSpecifier(s, c) THEN VSpecifier(s, c) ELSE Turn(s, c)
STurn(s, c) == IF AtSpecifier(s, c) THEN SSpecifier(s, c) ELSE Turn(s, c)

Vsprintf(fmt, args) == FoldLeft(VTurn, Start(args), fmt).out
Sprintf(fmt, args)  == FoldLeft(STurn, Start(args), fmt).out

-----------------------------------------------------------------------------
(* What is meant: a directive is <<width, length, specifier>>.             *)

Spelled(d) == <<"%">> \o d[1] \o d[2] \o <<d[3]>>
Format(ds) == FlattenSeq([i \in DOMAIN ds |-> Spelled(ds[i])])

Numeral(text, base) == FoldLeft(LAMBDA n, c : n * base + Value(c), 0, text)

\* The lengths vsprintf knows: an int but for those with an 'l'.
Lengths == {<< >>, <<"h">>, <<"h", "h">>, <<"l">>, <<"l", "l">>}

\* A conversion of a number, in no more characters than the buffer holds: the
\* sign of a negative number takes the last one.
IsDirective(d) ==
  /\ d[1] \in Seq({HexChars[i] : i \in 1 .. 10})
  /\ Numeral(d[1], 10) <= 32
  /\ d[3] = "d" => Numeral(d[1], 10) <= 31
  /\ d[2] \in Lengths
  /\ d[3] \in {"d", "u", "x", "o", "p"}

\* base to the n-th.
Power(base, n) ==
  LET power[k \in 0 .. n] == IF k = 0 THEN 1 ELSE power[k - 1] * base
  IN  power[n]

\* The number an argument of a conversion stands for.
Meant(word, d) ==
  LET u == IF d[3] = "p" \/ "l" \in Range(d[2]) THEN U64 ELSE U32
  IN  IF d[3] = "d" THEN Signed(word % u, u) ELSE word % u

\* The text, read as a numeral, is the number passed, as short as it can be or
\* as wide as was asked, and then without the digits there is no room for.
ReadsBack(text, d, word) ==
  LET n      == Meant(word, d)
      asked  == Numeral(d[1], 10)
      digits == IF n < 0 THEN Tail(text) ELSE text
      number == Numeral(digits, Radix(d[3]))
      given  == IF n < 0 THEN - n ELSE n
  IN  /\ n < 0 => Head(text) = "-"
      /\ \A i \in DOMAIN digits : digits[i] # "-" /\ Value(digits[i]) < Radix(d[3])
      /\ IF asked = 0 THEN number = given /\ (Len(digits) > 1 => digits[1] # "0")
                      ELSE number = given % Power(Radix(d[3]), asked) /\ Len(digits) = asked
=============================================================================
