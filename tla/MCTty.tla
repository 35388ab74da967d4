-------------------------------- MODULE MCTty ------------------------------
(***************************************************************************)
(* A screen of two rows of three cells, two scan lines each, and one scan  *)
(* line that no row uses.  Words of eight bits, of which an int has four.  *)
(***************************************************************************)
EXTENDS Tty

MCMessages ==
  {<<<<"%", "s">>, <<<<"a", "b">>>>>>,
   <<<<"%", "u", "nl">>, <<7>>>>,
   <<<<"nl">>, << >>>>,
   <<<<"cr", "%", "c">>, <<<<"d">>>>>>}

MCHandlerMessage == <<"i", "nl">>

MCPanicMessage == <<"nl", "p", "q">>

Widths == {<< >>, <<"1">>, <<"2">>, <<"0", "4">>}

\* Zero, one and two digits in each base, a carry between them, the largest
\* and the smallest number of each size, signed and not.
Arguments == {0, 7, 8, 10, 15, 16, 100, 127, 128, 255}

\* One conversion of any number, and two of which one may change the other.
MCEarlyCalls ==
  {<<<<d>>, <<word>>>> : d \in Widths \X Lengths \X {"d", "u", "x", "o", "p"}, word \in Arguments}
  \cup
  {<<<<d, e>>, <<word, 90>>>> :
     d, e \in {<< >>, <<"2">>} \X {<< >>, <<"h">>, <<"l">>} \X {"d", "x", "p"}, word \in {9, 200}}
=============================================================================
