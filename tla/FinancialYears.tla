--------------------------- MODULE FinancialYears ---------------------------
(***************************************************************************)
(* The financial years of a company: FinancialYearService and the rows of  *)
(* avelo_financial_years and avelo_financial_year_opening_balances.        *)
(* A year is a slot ordered by start date; slots never overlap, and a year *)
(* may be created in any slot, also between two existing ones.  What a     *)
(* year closes with is computed from the vouchers, so CloseYear takes the  *)
(* balance as a parameter and VoucherLedger supplies it.                   *)
(***************************************************************************)
EXTENDS LedgerLines

CONSTANT Years

ASSUME YearsAssumption == Years \subseteq Nat \ {0}

VARIABLES fy,       \* the rows: created, locked, closed
          carried   \* the opening snapshot published into each year

yearVars == <<fy, carried>>

YearRow == [created : BOOLEAN, locked : BOOLEAN, closed : BOOLEAN]

\* A published snapshot names the year it was carried from; 0 is no snapshot.
Snapshot == [source : Years \cup {0}, balance : [Accounts -> Int]]

NoSnapshot == [source |-> 0, balance |-> NoLines]

YearsTypeOK == fy \in [Years -> YearRow] /\ carried \in [Years -> Snapshot]

Created == {y \in Years : fy[y].created}

\* FinancialYearRepository.findNext: the first year starting after s ends.
IsNextYear(s, t) == /\ t \in Created
                    /\ s < t
                    /\ \A y \in Created : s < y => t =< y

\* FinancialYearRepository.findOpenForCompany.
OpenYears == {y \in Created : ~fy[y].locked /\ ~fy[y].closed}

\* What the fiscal-lock check and the fiscal-lock triggers ask.
Writable(y) == y \in Created /\ ~fy[y].locked

YearsInit == /\ \E first \in Years :
                  fy = [y \in Years |-> [created |-> y = first,
                                         locked |-> FALSE, closed |-> FALSE]]
             /\ carried = [y \in Years |-> NoSnapshot]

CreateYear(y) == /\ y \notin Created
                 /\ fy' = [fy EXCEPT ![y].created = TRUE]
                 /\ UNCHANGED carried

LockYear(y) == /\ y \in Created
               /\ fy' = [fy EXCEPT ![y].locked = TRUE]
               /\ UNCHANGED carried

\* The service asks nothing of the year: a closed one is unlocked too.
UnlockYear(y) == /\ y \in Created
                 /\ fy' = [fy EXCEPT ![y].locked = FALSE]
                 /\ UNCHANGED carried

\* Closing a closed year returns without a change.
CloseYear(s, balance) ==
  /\ s \in Created
  /\ ~fy[s].closed
  /\ \E t \in Created :
       /\ IsNextYear(s, t)
       /\ carried' = [carried EXCEPT ![t] = [source |-> s, balance |-> balance]]
  /\ fy' = [fy EXCEPT ![s].closed = TRUE, ![s].locked = TRUE]

\* Reopening withdraws the snapshot of whichever year now follows s.
ReopenYear(s) ==
  /\ s \in Created
  /\ \E t \in Created :
       /\ IsNextYear(s, t)
       /\ carried' = [carried EXCEPT ![t] = NoSnapshot]
  /\ fy' = [fy EXCEPT ![s].closed = FALSE, ![s].locked = FALSE]
=============================================================================
