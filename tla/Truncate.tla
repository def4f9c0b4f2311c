------------------------------ MODULE Truncate ------------------------------
(***************************************************************************)
(* truncate_middle (context/truncate.py), with the counts of               *)
(* context/tokens.py.  A text is what its lines' lengths and its tokens    *)
(* are: length characters, a newline after each place in breaks.  Tokens   *)
(* are counted one way and the text is cut by characters, at 3.6 to a      *)
(* token: tenths are used here.                                            *)
(***************************************************************************)
EXTENDS Integers, FiniteSetsExt

MarkerAllowance == 80
Text(length, breaks, tokens) == [length |-> length, breaks |-> breaks, tokens |-> tokens]

\* max(1, round(len / 3.6)), halves to even.
Estimated(length) ==
  LET q == (length * 10) \div 36  r == (length * 10) % 36
      n == IF r > 18 \/ (r = 18 /\ q % 2 = 1) THEN q + 1 ELSE q
  IN  IF n < 1 THEN 1 ELSE n

\* [head, tail]: how many characters of either end are kept, after cutting both back to
\* a line; or the whole text, untouched.
TruncateMiddle(text, max_tokens) ==
  IF text.tokens <= max_tokens THEN [cut |-> FALSE, head |-> text.length, tail |-> 0]
  ELSE LET budget == (max_tokens * 36) \div 10
           keep == IF budget > MarkerAllowance THEN budget - MarkerAllowance ELSE 0
           head == (keep * 6) \div 10
           tail == keep - head
           inHead == {b \in text.breaks : b <= Min({head, text.length})}
           inTail == {b \in text.breaks : b > text.length - tail}
       IN  [cut |-> TRUE,
            head |-> IF inHead = {} THEN Min({head, text.length}) ELSE Max(inHead) - 1,
            tail |-> IF inTail = {} THEN Min({tail, text.length}) ELSE text.length - Min(inTail)]

\* What elided_chars says: a slice whose ends have crossed is empty.
Elided(text, kept) ==
  LET n == text.length - kept.tail - kept.head IN IF n < 0 THEN 0 ELSE n

\* Head, elision and tail make up the text, none of it twice.
Adds(text, kept) == kept.cut => kept.head + Elided(text, kept) + kept.tail = text.length
=============================================================================
