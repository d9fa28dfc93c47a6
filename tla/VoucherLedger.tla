---------------------------- MODULE VoucherLedger ----------------------------
(***************************************************************************)
(* VoucherService: posting, editing, reversing and cancelling vouchers and *)
(* bouncing and re-presenting their cheques, over the rows it keeps        *)
(* (vouchers with their lines, cheques, number sequences, audit events),   *)
(* with the financial-year operations and account changes that run between *)
(* them and the disabling of accounts that runs during them.               *)
(*                                                                         *)
(* Posting is one transaction.  Every other operation reads its guards,    *)
(* takes a number and validates outside the transaction that writes, so it *)
(* is several steps here: Begin..., Validate, Commit..., or Abort at any   *)
(* of them.  The services run on the main actor, so one such operation is  *)
(* in flight at a time; AccountService.disableAccount runs in a detached   *)
(* task, so it may come between any two steps.                             *)
(***************************************************************************)
EXTENDS FinancialYears, Sequences

CONSTANTS Types,          \* voucher type codes in use
          CashAccounts,   \* the cash and bank accounts
          Drafts,         \* the drafts a user may submit
          Disabling,      \* the accounts a user may disable
          Openings,       \* the signed opening balances a user may give each account
          MaxVouchers,    \* bound on the vouchers ever written
          MaxNumber       \* bound on each number sequence

ASSUME LedgerAssumption ==
  /\ CashAccounts \subseteq Accounts
  /\ Drafts \subseteq [type : Types, lines : LineSet, cheque : BOOLEAN]
  /\ Disabling \subseteq Accounts
  /\ Openings \in [Accounts -> SUBSET Int]
  /\ MaxVouchers \in Nat
  /\ MaxNumber \in Nat

VARIABLES vouchers,    \* rows in creation order; a row is never deleted
          cheques,     \* the cheque of each voucher
          trail,       \* the latest audited change of each voucher
          lastNumber,  \* last number taken, by year and type
          opening,     \* each account's own signed opening balance
          disabled,    \* the accounts that are no longer active
          op           \* the operation in flight

ledgerVars == <<vouchers, cheques, trail, lastNumber>>
accountVars == <<opening, disabled>>
vars == <<fy, carried, vouchers, cheques, trail, lastNumber, opening, disabled, op>>

Voucher == [fy : Years, type : Types, number : Nat, lines : LineSet,
            status : {"open", "cancelled"},
            reversalOf : Nat,            \* the voucher it reverses, 0 if none
            cancellationVoucher : Nat]   \* the reversal that cancelled it, or 0

Cheque == [status : {"none", "issued", "bounced"},
           bouncedReversal : Nat,        \* the voucher of the bounce, or 0
           representedFrom : Nat]        \* the cheque it presents again, or 0

NoCheque == [status |-> "none", bouncedReversal |-> 0, representedFrom |-> 0]

IssuedCheque(from) == [status |-> "issued", bouncedReversal |-> 0,
                       representedFrom |-> from]

ChequeFor(given) == IF given THEN IssuedCheque(0) ELSE NoCheque

\* What a snapshot in the audit trail says of a voucher, "none" before it was.
Evidence == [lines : LineSet, status : {"none", "open", "cancelled"}]

NoEvidence == [lines |-> NoLines, status |-> "none"]

EvidenceOf(v) == [lines |-> v.lines, status |-> v.status]

\* An audit event: the snapshots before and after the change it records.
Event == [before : Evidence, after : Evidence]

Kinds == {"edit", "reverse", "cancel", "bounce", "represent"}

\* fy and number are the target year and the number already taken; lines and
\* cheque are what the operation is going to write; seen is what it read of its
\* voucher at its start, and will report as the state before its change.
Operation == [kind : Kinds \cup {"none"}, valid : BOOLEAN, id : Nat,
              fy : Years \cup {0}, number : Nat, lines : LineSet,
              cheque : BOOLEAN, seen : Evidence]

Idle == [kind |-> "none", valid |-> FALSE, id |-> 0, fy |-> 0, number |-> 0,
         lines |-> NoLines, cheque |-> FALSE, seen |-> NoEvidence]

LedgerTypeOK ==
  /\ vouchers \in Seq(Voucher)
  /\ cheques \in Seq(Cheque)
  /\ trail \in Seq(Event)
  /\ Len(cheques) = Len(vouchers)
  /\ Len(trail) = Len(vouchers)
  /\ lastNumber \in [Years -> [Types -> Nat]]
  /\ opening \in [Accounts -> Int]
  /\ disabled \subseteq Accounts
  /\ op \in Operation

TypeOK == YearsTypeOK /\ LedgerTypeOK

-----------------------------------------------------------------------------
Ids == 1..Len(vouchers)

NewId == Len(vouchers) + 1

HasReversal(i) == \E j \in Ids : vouchers[j].reversalOf = i

\* Wrong: a voucher that has a reversal may be corrected again.
CorrectableTwice(i) == /\ vouchers[i].status # "cancelled"
                       /\ vouchers[i].reversalOf = 0

\* The guards shared by edit, reverse, cancel and bounce.
Correctable(i) == /\ vouchers[i].status # "cancelled"
                  /\ vouchers[i].reversalOf = 0
                  /\ ~HasReversal(i)

\* Wrong: debits need not equal credits.
WellFormedUnbalanced(lines) == Cardinality(Touched(lines)) >= 2

\* The validator's shape checks: two lines at least, debits equal credits.
WellFormed(lines) == /\ Cardinality(Touched(lines)) >= 2
                     /\ Balanced(lines)

OneCashLine(lines, IsSide(_), IsOther(_)) ==
  LET cash == Touched(lines) \cap CashAccounts
  IN /\ Cardinality(cash) = 1
     /\ \A a \in cash : IsSide(lines[a])
     /\ \A a \in Touched(lines) \ CashAccounts : IsOther(lines[a])

\* A payment credits one cash or bank account and debits the rest, a receipt
\* the reverse; a contra moves money between cash and bank accounts only.
SingleEntryOK(type, lines) ==
  LET Debit(n) == n > 0
      Credit(n) == n < 0
  IN CASE type = "payment" -> OneCashLine(lines, Credit, Debit)
       [] type = "receipt" -> OneCashLine(lines, Debit, Credit)
       [] type = "contra" ->
            /\ Touched(lines) \subseteq CashAccounts
            /\ Cardinality({a \in Touched(lines) : lines[a] > 0}) = 1
            /\ \E a \in Touched(lines) : lines[a] < 0
       [] OTHER -> TRUE

AccountsActive(lines) == Touched(lines) \cap disabled = {}

\* VoucherDraftValidator.validate for lines dated in year y.
Acceptable(type, lines, y, isSystemReversal) ==
  /\ WellFormed(lines)
  /\ isSystemReversal \/ SingleEntryOK(type, lines)
  /\ Writable(y)
  /\ AccountsActive(lines)

\* Wrong: a voucher of a locked year is reversed in that year.
IsReversalYearIgnoringLock(y, t) == t = y

\* VoucherService.reversalFinancialYear: the voucher's own year unless it is
\* locked, else the latest year that is neither locked nor closed.
IsReversalYear(y, t) == IF ~fy[y].locked
                        THEN t = y
                        ELSE t \in OpenYears /\ \A z \in OpenYears : z =< t

NextNumber(y, type) == lastNumber[y][type] + 1

\* Wrong: the sequence row is read and not advanced.
TakeNumberAgain(y, type) == NextNumber(y, type) =< MaxNumber /\ UNCHANGED lastNumber

\* VoucherNumberGenerator.nextBatch for one number.
TakeNumber(y, type) ==
  /\ NextNumber(y, type) =< MaxNumber
  /\ lastNumber' = [lastNumber EXCEPT ![y][type] = NextNumber(y, type)]

\* Wrong: the triggers are missing and only the validator stands guard.
NoTriggers(y) == y \in Years

\* The triggers that abort a write into a locked year.
TriggersAllow(y) == ~fy[y].locked

\* Wrong: a voucher is written without its cheque row.
InsertWithoutCheque(v, c, before) ==
  /\ vouchers' = Append(vouchers, v)
  /\ trail' = Append(trail, [before |-> before, after |-> EvidenceOf(v)])
  /\ cheques' = IF c = NoCheque THEN cheques ELSE Append(cheques, c)

\* One row appended to each table of a new voucher.  The event of a reversal
\* or re-presentation gives as before what was read of the original voucher.
Insert(v, c, before) ==
  /\ vouchers' = Append(vouchers, v)
  /\ cheques' = Append(cheques, c)
  /\ trail' = Append(trail, [before |-> before, after |-> EvidenceOf(v)])

\* ReportRepository.movementTotals: the postings dated up to the end of year
\* y, a cancelled voucher's among them.
Contributions(y) == {<<i, vouchers[i].lines>> :
                       i \in {j \in Ids : vouchers[j].fy =< y}}

\* FinancialYearService.closingBalanceRows: signed opening + debit - credit.
ClosingBalance(y) == [a \in Accounts |-> opening[a] + TotalOf(Contributions(y))[a]]

-----------------------------------------------------------------------------
Init == /\ YearsInit
        /\ vouchers = <<>>
        /\ cheques = <<>>
        /\ trail = <<>>
        /\ lastNumber = [y \in Years |-> [t \in Types |-> 0]]
        /\ opening = NoLines
        /\ disabled = {}
        /\ op = Idle

\* postInCurrentTransaction: validation, number, rows and audit in one write.
Post(d, y) ==
  /\ op = Idle
  /\ Len(vouchers) < MaxVouchers
  /\ Acceptable(d.type, d.lines, y, FALSE)
  /\ TakeNumber(y, d.type)
  /\ TriggersAllow(y)
  /\ Insert([fy |-> y, type |-> d.type, number |-> NextNumber(y, d.type),
             lines |-> d.lines, status |-> "open", reversalOf |-> 0,
             cancellationVoucher |-> 0],
            ChequeFor(d.cheque), NoEvidence)
  /\ UNCHANGED <<yearVars, accountVars, op>>

\* Wrong: a copy of the voucher from before its last change is used.
SeenStale(i) == IF trail[i].before = NoEvidence THEN EvidenceOf(vouchers[i])
                                                ELSE trail[i].before

\* The original and its lines as every operation but post reads them at its
\* start, ahead of its transaction.
Seen(i) == EvidenceOf(vouchers[i])

\* edit, up to and including its validation.
BeginEdit(i, d) ==
  /\ op = Idle
  /\ Correctable(i)
  /\ d.type = vouchers[i].type
  /\ Acceptable(d.type, d.lines, vouchers[i].fy, FALSE)
  /\ op' = [kind |-> "edit", valid |-> TRUE, id |-> i, fy |-> vouchers[i].fy,
            number |-> 0, lines |-> d.lines, cheque |-> d.cheque,
            seen |-> Seen(i)]
  /\ UNCHANGED <<yearVars, ledgerVars, accountVars>>

\* Wrong: the event reports the voucher that was read, without the new lines.
EditedAsRead == op.seen

\* The audited snapshot after an edit: the copy that was read, and new lines.
EditedEvidence == [op.seen EXCEPT !.lines = op.lines]

\* The transaction of edit: the lines are replaced and the cheque row is
\* deleted and written anew from the draft, without a represented-from link.
CommitEdit ==
  /\ op.kind = "edit"
  /\ TriggersAllow(vouchers[op.id].fy)
  /\ vouchers' = [vouchers EXCEPT ![op.id].lines = op.lines]
  /\ cheques' = [cheques EXCEPT ![op.id] = ChequeFor(op.cheque)]
  /\ trail' = [trail EXCEPT ![op.id] = [before |-> op.seen, after |-> EditedEvidence]]
  /\ op' = Idle
  /\ UNCHANGED <<yearVars, lastNumber, accountVars>>

\* reverse, cancel and bounceCheque up to the number, which is committed on
\* its own, before validation and outside the transaction that uses it.
BeginReversal(kind, i) ==
  /\ op = Idle
  /\ Len(vouchers) < MaxVouchers
  /\ Correctable(i)
  /\ \E t \in Created :
       /\ IsReversalYear(vouchers[i].fy, t)
       /\ TakeNumber(t, vouchers[i].type)
       /\ op' = [kind |-> kind, valid |-> FALSE, id |-> i, fy |-> t,
                 number |-> NextNumber(t, vouchers[i].type),
                 lines |-> Flipped(vouchers[i].lines), cheque |-> FALSE,
                 seen |-> Seen(i)]
  /\ UNCHANGED <<yearVars, vouchers, cheques, trail, accountVars>>

\* Wrong: a cheque need not have bounced to be presented again.
MayRepresentIssued(i) ==
  /\ vouchers[i].reversalOf = 0
  /\ cheques[i].status # "none"

\* Wrong: nothing asks whether the cheque has been presented again already.
MayRepresentAgain(i) == /\ vouchers[i].reversalOf = 0
                        /\ cheques[i].status = "bounced"

\* The latest re-presentation of cheque i, when there is one, has bounced.
MayRepresent(i) ==
  /\ vouchers[i].reversalOf = 0
  /\ cheques[i].status = "bounced"
  /\ \A j \in Ids :
       /\ cheques[j].representedFrom = i
       /\ \A k \in Ids : cheques[k].representedFrom = i => k =< j
       => cheques[j].status = "bounced"

\* representCheque up to its number, dated in year y.
BeginRepresent(i, y) ==
  /\ op = Idle
  /\ Len(vouchers) < MaxVouchers
  /\ MayRepresent(i)
  /\ Writable(y)
  /\ TakeNumber(y, vouchers[i].type)
  /\ op' = [kind |-> "represent", valid |-> FALSE, id |-> i, fy |-> y,
            number |-> NextNumber(y, vouchers[i].type),
            lines |-> vouchers[i].lines, cheque |-> TRUE, seen |-> Seen(i)]
  /\ UNCHANGED <<yearVars, vouchers, cheques, trail, accountVars>>

\* The validation of a numbered operation.  Only cancel and bounceCheque pass
\* isSystemReversal; reverse submits its flipped lines to the entry rules.
Validate ==
  /\ op.kind \in {"reverse", "cancel", "bounce", "represent"}
  /\ ~op.valid
  /\ Acceptable(vouchers[op.id].type, op.lines, op.fy, op.kind \in {"cancel", "bounce"})
  /\ op' = [op EXCEPT !.valid = TRUE]
  /\ UNCHANGED <<yearVars, ledgerVars, accountVars>>

\* The voucher a numbered operation writes.
OpVoucher(reverses) ==
  [fy |-> op.fy, type |-> vouchers[op.id].type, number |-> op.number,
   lines |-> op.lines, status |-> "open", reversalOf |-> reverses,
   cancellationVoucher |-> 0]

CommitReverse ==
  /\ op.kind = "reverse" /\ op.valid
  /\ TriggersAllow(op.fy)
  /\ Insert(OpVoucher(op.id), NoCheque, op.seen)
  /\ op' = Idle
  /\ UNCHANGED <<yearVars, lastNumber, accountVars>>

\* The event of the voucher an operation in flight adds.
OpEvent(v) == [before |-> op.seen, after |-> EvidenceOf(v)]

\* Wrong: markCancelled writes the status and forgets the link.
CancelledUnlinked(v) == [v EXCEPT !.status = "cancelled"]

\* VoucherRepository.markCancelled.
Cancelled(v) == [v EXCEPT !.status = "cancelled", !.cancellationVoucher = NewId]

\* The reversal, the marked original and an event for each; the update trigger
\* refuses it when the voucher's own year is locked.
CommitCancel ==
  /\ op.kind = "cancel" /\ op.valid
  /\ TriggersAllow(op.fy)
  /\ TriggersAllow(vouchers[op.id].fy)
  /\ vouchers' = Append([vouchers EXCEPT ![op.id] = Cancelled(vouchers[op.id])],
                        OpVoucher(op.id))
  /\ trail' = Append([trail EXCEPT ![op.id] = [before |-> op.seen,
                                              after |-> [op.seen EXCEPT !.status = "cancelled"]]],
                     OpEvent(OpVoucher(op.id)))
  /\ cheques' = Append(cheques, NoCheque)
  /\ op' = Idle
  /\ UNCHANGED <<yearVars, lastNumber, accountVars>>

CommitBounce ==
  /\ op.kind = "bounce" /\ op.valid
  /\ cheques[op.id].status = "issued"
  /\ TriggersAllow(op.fy)
  /\ vouchers' = Append(vouchers, OpVoucher(op.id))
  /\ cheques' = Append([cheques EXCEPT ![op.id].status = "bounced",
                                       ![op.id].bouncedReversal = NewId],
                       NoCheque)
  /\ trail' = Append(trail, OpEvent(OpVoucher(op.id)))
  /\ op' = Idle
  /\ UNCHANGED <<yearVars, lastNumber, accountVars>>

CommitRepresent ==
  /\ op.kind = "represent" /\ op.valid
  /\ TriggersAllow(op.fy)
  /\ Insert(OpVoucher(0), IssuedCheque(op.id), op.seen)
  /\ op' = Idle
  /\ UNCHANGED <<yearVars, lastNumber, accountVars>>

\* A validation error, a failed or rolled back transaction, or a crash: what
\* was committed before, the number, stays.
Abort ==
  /\ op # Idle
  /\ op' = Idle
  /\ UNCHANGED <<yearVars, ledgerVars, accountVars>>

\* AccountService.disableAccount, from AccountsViewModel's detached task.
DisableAccount(a) ==
  /\ a \notin disabled
  /\ disabled' = disabled \cup {a}
  /\ UNCHANGED <<yearVars, ledgerVars, opening, op>>

\* Saving the account sheet writes the whole account it loaded when it opened,
\* the active flag too: an account disabled meanwhile may be active again.
SaveAccount(a, n) ==
  /\ op = Idle
  /\ opening' = [opening EXCEPT ![a] = n]
  /\ disabled' \in {disabled, disabled \ {a}}
  /\ UNCHANGED <<yearVars, ledgerVars, op>>

\* Wrong: nothing asks whether a year is locked.
AlterAccountAnyTime(a, n) == SaveAccount(a, n)

\* AccountService.updateAccount: another opening only while no year is locked.
AlterAccount(a, n) ==
  /\ n # opening[a] => \A y \in Years : ~fy[y].locked
  /\ SaveAccount(a, n)

YearAction == /\ op = Idle
              /\ \E y \in Years : \/ CreateYear(y)
                                  \/ LockYear(y)
                                  \/ UnlockYear(y)
                                  \/ CloseYear(y, ClosingBalance(y))
                                  \/ ReopenYear(y)
              /\ UNCHANGED <<ledgerVars, accountVars, op>>

Next == \/ \E d \in Drafts, y \in Years : Post(d, y)
        \/ \E i \in Ids, d \in Drafts : BeginEdit(i, d)
        \/ \E i \in Ids, kind \in {"reverse", "cancel", "bounce"} : BeginReversal(kind, i)
        \/ \E i \in Ids, y \in Years : BeginRepresent(i, y)
        \/ Validate
        \/ CommitEdit \/ CommitReverse \/ CommitCancel
        \/ CommitBounce \/ CommitRepresent
        \/ Abort
        \/ \E a \in Disabling : DisableAccount(a)
        \/ \E a \in Accounts : \E n \in Openings[a] : AlterAccount(a, n)
        \/ YearAction

Spec == Init /\ [][Next]_vars

-----------------------------------------------------------------------------
\* A voucher's line in its number series.
Series(v) == <<v.fy, v.type>>

\* Numbers are handed out once and in order: in a series, a later voucher has
\* a higher number, none is past the sequence row, and the number an operation
\* in flight has taken is still ahead of every voucher's (the UNIQUE constraint
\* of avelo_vouchers never fires, though the number is taken in a transaction
\* of its own and may be burned).
NumberingSound ==
  /\ \A i, j \in Ids : i < j /\ Series(vouchers[i]) = Series(vouchers[j])
                         => vouchers[i].number < vouchers[j].number
  /\ \A i \in Ids :
       vouchers[i].number =< lastNumber[vouchers[i].fy][vouchers[i].type]
  /\ op.number # 0 =>
       /\ op.number =< lastNumber[op.fy][vouchers[op.id].type]
       /\ \A i \in Ids : Series(vouchers[i]) = <<op.fy, vouchers[op.id].type>>
                           => vouchers[i].number < op.number

\* However many correction paths a voucher goes through (reverse, cancel,
\* bounce, with edits and aborted attempts between), it ends with at most one
\* reversal, which is not itself reversed and still negates its lines.
ReversalNetsToZero ==
  \A j \in Ids : LET i == vouchers[j].reversalOf IN
    i # 0 => /\ i < j
             /\ vouchers[i].reversalOf = 0
             /\ vouchers[j].type = vouchers[i].type
             /\ vouchers[j].lines = Flipped(vouchers[i].lines)
             /\ \A k \in Ids : vouchers[k].reversalOf = i => k = j

\* A voucher is cancelled exactly when it links to the reversal that cancelled
\* it, and that reversal is its own (VoucherService.cancel writes both rows).
CancellationLinked ==
  \A i \in Ids : LET r == vouchers[i].cancellationVoucher IN
    /\ (vouchers[i].status = "cancelled") <=> (r # 0)
    /\ r # 0 => r \in Ids /\ vouchers[r].reversalOf = i

\* A bounced cheque names the reversal of its own voucher, and a cheque that
\* presents another again has the type and lines of that one's voucher, which
\* has bounced (bounceCheque, representCheque and every edit in between).
ChequesFollowVouchers ==
  \A i \in Ids : LET c == cheques[i] IN
    /\ c.status = "bounced" <=> c.bouncedReversal # 0
    /\ c.status = "bounced" =>
         c.bouncedReversal \in Ids /\ vouchers[c.bouncedReversal].reversalOf = i
    /\ c.representedFrom # 0 =>
         /\ c.representedFrom < i
         /\ cheques[c.representedFrom].status = "bounced"
         /\ vouchers[i].type = vouchers[c.representedFrom].type
         /\ vouchers[i].lines = vouchers[c.representedFrom].lines

\* A bounced cheque has at most one linked re-presentation outstanding, which
\* is the latest one (the check in representCheque looks only at the latest).
OneOutstandingRepresentation ==
  \A i, j \in Ids :
    /\ cheques[i].representedFrom # 0
    /\ cheques[j].representedFrom = cheques[i].representedFrom
    /\ i < j
    => cheques[i].status = "bounced"

\* Each operation reads its voucher ahead of the transaction that reports what
\* it read.  Whatever edits, cancellations, bounces and aborts run between, the
\* last event of a voucher ends with what its row holds, and that of a reversal
\* or of a re-presentation starts with the lines its original still has (R-9).
EvidenceCurrent ==
  \A i \in Ids : LET from == cheques[i].representedFrom IN
    /\ trail[i].after = EvidenceOf(vouchers[i])
    /\ vouchers[i].reversalOf # 0
         => trail[i].before.lines = vouchers[vouchers[i].reversalOf].lines
    /\ from # 0 => trail[i].before.lines = vouchers[from].lines

\* What the operation in flight was admitted on still holds when it commits:
\* its voucher is uncorrected, its lines are the ones that voucher has, its
\* year is open, a cheque to present again has not been presented meanwhile, and
\* the copy it audits is current (each is read before the transaction).
OpSound ==
  \/ op = Idle
  \/ /\ op.kind \in Kinds
     /\ op.id \in Ids
     /\ Writable(op.fy)
     /\ op.seen = EvidenceOf(vouchers[op.id])
     /\ vouchers[op.id].reversalOf = 0
     /\ op.kind = "represent" \/ Correctable(op.id)
     /\ (op.kind = "edit") <=> (op.number = 0)
     /\ op.kind = "edit" => Balanced(op.lines) /\ op.fy = vouchers[op.id].fy
     /\ op.kind \in {"reverse", "cancel", "bounce"}
          => op.lines = Flipped(vouchers[op.id].lines)
     /\ op.kind = "represent"
          => /\ MayRepresent(op.id)
             /\ op.lines = vouchers[op.id].lines
             /\ op.valid => Balanced(op.lines)

\* Vouchers are dated in years that exist.
DatedInCreated == \A i \in Ids : vouchers[i].fy \in Created

\* The inductive invariant the theorems rest on.
IInv == /\ TypeOK
        /\ OpSound
        /\ DatedInCreated
        /\ NumberingSound
        /\ ReversalNetsToZero
        /\ CancellationLinked
        /\ ChequesFollowVouchers
        /\ OneOutstandingRepresentation
        /\ EvidenceCurrent

\* Every audited change starts where the one before it ended: no operation
\* reports as the state before its change one that a later write had replaced
\* (the snapshots are read before the transaction that records them).
EvidenceChained ==
  [][\A i \in Ids : trail'[i] # trail[i] => trail'[i].before = trail[i].after]_vars

\* While a year is locked no voucher or line in it is added, changed or
\* cancelled, whichever operation was validated before the write.
LockedYearFrozen ==
  [][\A y \in Years : fy[y].locked =>
       {<<i, vouchers[i]>> : i \in {j \in Ids : vouchers[j].fy = y}}'
         = {<<i, vouchers[i]>> : i \in {j \in Ids : vouchers[j].fy = y}}]_vars

\* What has been corrected is settled for good: no operation writes again the
\* row, the cheque or the audited snapshot of a voucher that is a reversal or
\* has one, so none forgets that a cheque has bounced (edit writes all three).
CorrectedForGood ==
  [][\A i \in Ids : vouchers[i].reversalOf # 0 \/ HasReversal(i) =>
        /\ vouchers'[i] = vouchers[i]
        /\ cheques'[i] = cheques[i]
        /\ trail'[i] = trail[i]]_vars

\* Everything posted before year t begins, whatever year published a snapshot.
HistoryBefore(t) == {<<i, vouchers[i].lines>> :
                       i \in {j \in Ids : vouchers[j].fy < t}}

OpeningExact(t) ==
  carried[t].balance = [a \in Accounts |-> opening[a] + TotalOf(HistoryBefore(t))[a]]

LockedBefore(t) == \A y \in Created : y < t => fy[y].locked

\* A snapshot is, for every account, its opening balance and the whole history
\* before the year when it is published, and from a state where it is so, as
\* long as every earlier year is locked, nothing makes it stale: no voucher
\* operation, no other year and no change of an account's opening balance
\* (FinancialYearService.close, AccountService.updateAccount).
OpeningExactWhileLocked ==
  [][\A t \in Years :
       /\ carried'[t].source # 0
       /\ carried'[t] # carried[t] \/ (OpeningExact(t) /\ LockedBefore(t))
       => OpeningExact(t)']_vars

\* A snapshot is out of balance by what the accounts' openings are, which no
\* rule makes balance, and by nothing else.
InBalance(t) == SumOf(carried[t].balance) = SumOf(opening)

\* No voucher, of any kind and however corrected, brings a difference of its
\* own into the snapshot a year publishes, and while any year is locked the
\* openings cannot move away from it.
CarriedInBalance ==
  [][\A t \in Years :
       /\ carried'[t].source # 0
       /\ carried'[t] # carried[t] \/ (InBalance(t) /\ \E y \in Years : fy[y].locked)
       => InBalance(t)']_vars

EntryOf(v) == [fy |-> v.fy, lines |-> v.lines, offsets |-> v.reversalOf]

BookEntries == [i \in Ids |-> EntryOf(vouchers[i])]

LockedYears == {y \in Years : fy[y].locked}

BooksOfLedger == INSTANCE Books WITH entries <- BookEntries, frozen <- LockedYears

\* The ledger implements Books: operations in flight, numbers, cheques and
\* audit rows are hidden, and every committed write is one of its steps.
ImplementsBooks == BooksOfLedger!BooksSpec

-----------------------------------------------------------------------------
(* What the documents say of the ledger and the code does not do.          *)

\* The cheque a presentation goes back to, through every re-presentation.
Origin[i \in Ids] == IF cheques[i].representedFrom = 0
                     THEN i ELSE Origin[cheques[i].representedFrom]

\* Re-presenting preserves lineage: of all the presentations that go back to
\* one cheque at most one is outstanding.
OneLivePresentation ==
  \A i, j \in Ids : /\ cheques[i].status = "issued"
                    /\ cheques[j].status = "issued"
                    /\ Origin[i] = Origin[j]
                    => i = j

\* While a year is closed, the snapshot it published is its closing balance.
ClosedSnapshotExact ==
  \A t \in Years : LET s == carried[t].source IN
    s # 0 => (fy[s].closed => carried[t].balance = ClosingBalance(s))

\* No write puts a line on an account that is disabled when it commits.
InactiveNeverWritten ==
  [][\A i \in 1..Len(vouchers') :
       (i > Len(vouchers) \/ vouchers'[i].lines # vouchers[i].lines)
         => AccountsActive(vouchers'[i].lines)]_vars
=============================================================================
