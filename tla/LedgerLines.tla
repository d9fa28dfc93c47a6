----------------------------- MODULE LedgerLines -----------------------------
(***************************************************************************)
(* The ledger lines of a voucher, as the amount each account is debited    *)
(* (positive) or credited (negative) in paise.  A voucher may not name an  *)
(* account twice and every line is positive, so the signed map loses       *)
(* nothing but the order of the lines, tax codes and cost centres.         *)
(***************************************************************************)
EXTENDS Integers, FiniteSets, Functions

CONSTANTS Accounts,
          Amounts    \* the signed paise a line may carry, 0 for no line

\* The chart of accounts is a table of the company's file.
ASSUME AccountsAssumption == IsFiniteSet(Accounts)

ASSUME AmountsAssumption == /\ Amounts \subseteq Int
                            /\ 0 \in Amounts
                            /\ \A n \in Amounts : -n \in Amounts

LineSet == [Accounts -> Amounts]

NoLines == [a \in Accounts |-> 0]

\* The accounts that have a line.
Touched(lines) == {a \in Accounts : lines[a] # 0}

\* The same amounts on the other side: a reversal's lines.
Flipped(lines) == [a \in Accounts |-> -lines[a]]

\* The sum of f over its domain.
SumOf(f) == FoldFunction(+, 0, f)

\* Total debits equal total credits.
Balanced(lines) == SumOf(lines) = 0

\* The balance per account of a set of postings <<voucher, lines>>.
TotalOf(postings) ==
  [a \in Accounts |-> SumOf([p \in postings |-> p[2][a]])]
=============================================================================
