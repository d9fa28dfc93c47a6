--------------------------- MODULE MCVoucherLedger ---------------------------
(***************************************************************************)
(* Constants of VoucherLedger for TLC: one cash account and one customer.  *)
(***************************************************************************)
EXTENDS VoucherLedger

CONSTANTS Cash, Customer

MCAccounts == {Cash, Customer}

MCCashAccounts == {Cash}

MCAmounts == -2..2

\* For drafts of one paisa.
MCUnitAmounts == -1..1

Draft(type, debit, credit, cheque) ==
  [type |-> type, cheque |-> cheque,
   lines |-> [a \in MCAccounts |-> IF a = Cash THEN debit ELSE -credit]]

\* A receipt by cheque; a journal, which is bound by no single-entry rule; a
\* receipt entered the wrong way round; a journal that does not balance.
LedgerDrafts == {Draft("receipt", 1, 1, TRUE), Draft("journal", 1, 1, FALSE),
                 Draft("receipt", -1, -1, FALSE), Draft("journal", 2, 1, FALSE)}

\* A receipt by cheque, and what it may be corrected to.
ChequeDrafts == {Draft("receipt", 1, 1, TRUE), Draft("receipt", 2, 2, FALSE)}

\* An opening for the cash account, with nothing to balance it.
CashOpening == [a \in MCAccounts |-> IF a = Cash THEN {1} ELSE {}]

\* The customer's account is saved, and keeps its opening.
CustomerSaved == [a \in MCAccounts |-> IF a = Customer THEN {0} ELSE {}]

\* No account is saved.
NoOpenings == [a \in MCAccounts |-> {}]

ChequeOnly == {Draft("receipt", 1, 1, TRUE)}

\* A journal with a cheque, and the same entered the other way round: every
\* kind of correction applies to both.
CorrectableDrafts == {Draft("journal", 1, 1, TRUE), Draft("journal", -1, -1, FALSE)}

JournalDrafts == {Draft("journal", 1, 1, FALSE)}
=============================================================================
