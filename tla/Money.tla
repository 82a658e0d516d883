------------------------------- MODULE Money -------------------------------
(***************************************************************************)
(* Splitting an amount of money into parts (src/decimal/money.go), in      *)
(* pennies. Split fills a slice part by part: first every part with the    *)
(* base amount, then the remainder penny by penny.                         *)
(***************************************************************************)
EXTENDS Integers, SequencesExt

CONSTANTS MaxPennies,   \* bound of the amounts
          MaxParts      \* bound of the number of parts

VARIABLES amount,    \* the receiver m, in pennies
          parts,     \* the argument n
          returned,  \* the call has returned
          results    \* what it returned

moneyVars == <<amount, parts, returned, results>>

\* m.DivFloat(n).Floor(): the amount is counted in units of 100 pennies, and
\* Floor rounds down to whole units, not to pennies.
BaseAmount(m, n) == (m \div (100 * n)) * 100

\* m.Sub(distributed) in pennies.
Remainder(m, n) == m - n * BaseAmount(m, n)

\* The loop that hands out pennies ends with the remainder or with the parts.
Split(m, n) ==
  IF n <= 0 THEN <<>>
  ELSE [i \in 1..n |-> BaseAmount(m, n) + (IF i <= Remainder(m, n) THEN 1 ELSE 0)]

Init == /\ amount \in 0..MaxPennies
        /\ parts \in 0..MaxParts
        /\ returned = FALSE /\ results = <<>>

Call == /\ ~returned /\ returned' = TRUE
        /\ results' = Split(amount, parts)
        /\ UNCHANGED <<amount, parts>>

Next == Call

Spec == Init /\ [][Next]_moneyVars

-----------------------------------------------------------------------------
\* "Split splits Money evenly among n parts, with remainder going to first
\* parts" (money.go:279), and "Total should equal original" (money_test.go):
\* the parts add up to the amount.
SplitKeepsTotal ==
  (returned /\ parts > 0) => FoldSeq(+, 0, results) = amount
=============================================================================
