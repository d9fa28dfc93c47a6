------------------------ MODULE VoucherLedger_proofs ------------------------
(***************************************************************************)
(* Theorems about VoucherLedger for every set of accounts, years, types    *)
(* and drafts and every bound.                                             *)
(***************************************************************************)
EXTENDS VoucherLedger, LedgerLines_proofs

\* A reversal's lines are lines: the amounts are closed under negation.
LEMMA FlippedType ==
  ASSUME NEW lines \in LineSet
  PROVE  Flipped(lines) \in LineSet
BY AmountsAssumption DEF LineSet, Flipped

LEMMA NoLinesType == NoLines \in LineSet
BY AmountsAssumption DEF NoLines, LineSet

LEMMA IdleType == Idle \in Operation /\ NoEvidence \in Evidence
BY NoLinesType DEF Idle, Operation, NoEvidence, Evidence

\* The postings up to a year are finitely many, with whole amounts.
LEMMA ContributionsFinite ==
  ASSUME LedgerTypeOK, NEW y
  PROVE  /\ IsFiniteSet(Contributions(y))
         /\ \A p \in Contributions(y) : p[2] \in LineSet
<1> DEFINE dated == {j \in Ids : vouchers[j].fy =< y}
           posting == [i \in dated |-> <<i, vouchers[i].lines>>]
<1>1. vouchers \in Seq(Voucher) /\ Len(vouchers) \in Nat
  BY DEF LedgerTypeOK
<1>2. \A i \in Ids : vouchers[i] \in Voucher
  BY <1>1 DEF Ids
<1>3. IsFiniteSet(Ids) /\ dated \in SUBSET Ids
  BY <1>1, FS_Interval DEF Ids
<1>4. IsFiniteSet(dated)
  BY <1>3, FS_Subset
<1>5. posting \in Surjection(dated, Contributions(y))
  BY DEF Surjection, Contributions
<1>6. IsFiniteSet(Contributions(y))
  BY <1>4, <1>5, FS_Surjection
<1>7. \A p \in Contributions(y) : p[2] \in LineSet
  BY <1>2 DEF Contributions, Voucher
<1>8. QED BY <1>6, <1>7

\* The closing balance is a whole amount for each account.
LEMMA ClosingBalanceType ==
  ASSUME LedgerTypeOK, NEW y
  PROVE  ClosingBalance(y) \in [Accounts -> Int]
<1>1. \A p \in Contributions(y) : p[2] \in IntLines
  BY ContributionsFinite, LinesAreInt
<1>2. TotalOf(Contributions(y)) \in [Accounts -> Int]
  BY <1>1, ContributionsFinite, TotalType DEF IntLines
<1>3. opening \in [Accounts -> Int]
  BY DEF LedgerTypeOK
<1>4. QED BY <1>2, <1>3 DEF ClosingBalance

\* Setting flags of one year leaves a table of years.
LEMMA FlagsType ==
  ASSUME NEW f \in [Years -> YearRow], NEW y \in Years, NEW b \in BOOLEAN
  PROVE  /\ [f EXCEPT ![y].created = b] \in [Years -> YearRow]
         /\ [f EXCEPT ![y].locked = b] \in [Years -> YearRow]
         /\ [f EXCEPT ![y].closed = b] \in [Years -> YearRow]
<1>1. f[y] \in YearRow
  OBVIOUS
<1>2. /\ [f[y] EXCEPT !.created = b] \in YearRow
      /\ [f[y] EXCEPT !.locked = b] \in YearRow
      /\ [f[y] EXCEPT !.closed = b] \in YearRow
  BY <1>1 DEF YearRow
<1>3. ASSUME NEW r \in YearRow PROVE [f EXCEPT ![y] = r] \in [Years -> YearRow]
  OBVIOUS
<1>4. QED BY <1>2, <1>3

LEMMA YearStepType ==
  ASSUME YearsTypeOK, LedgerTypeOK, YearAction
  PROVE  YearsTypeOK'
<1> USE DEF YearsTypeOK, Snapshot
<1>1. PICK y \in Years : \/ CreateYear(y)
                         \/ LockYear(y)
                         \/ UnlockYear(y)
                         \/ CloseYear(y, ClosingBalance(y))
                         \/ ReopenYear(y)
  BY DEF YearAction
<1>2. CASE CreateYear(y) \/ LockYear(y) \/ UnlockYear(y)
  <2>1. fy' \in [Years -> YearRow]
    <3>1. \/ fy' = [fy EXCEPT ![y].created = TRUE]
          \/ fy' = [fy EXCEPT ![y].locked = TRUE]
          \/ fy' = [fy EXCEPT ![y].locked = FALSE]
      BY <1>2 DEF CreateYear, LockYear, UnlockYear
    <3>2. fy \in [Years -> YearRow]
      OBVIOUS
    <3> HIDE DEF YearsTypeOK
    <3>3. /\ [fy EXCEPT ![y].created = TRUE] \in [Years -> YearRow]
          /\ [fy EXCEPT ![y].locked = TRUE] \in [Years -> YearRow]
          /\ [fy EXCEPT ![y].locked = FALSE] \in [Years -> YearRow]
      BY <3>2, FlagsType
    <3>4. QED BY <3>1, <3>3
  <2>2. carried' = carried
    BY <1>2 DEF CreateYear, LockYear, UnlockYear
  <2>3. QED BY <2>1, <2>2
<1>3. CASE CloseYear(y, ClosingBalance(y))
  <2>1. ClosingBalance(y) \in [Accounts -> Int]
    BY ClosingBalanceType
  <2>2. fy' \in [Years -> YearRow]
    <3> DEFINE f == [fy EXCEPT ![y].closed = TRUE]
    <3>1. fy' = [f EXCEPT ![y].locked = TRUE]
      BY <1>3 DEF CloseYear
    <3>2. f \in [Years -> YearRow]
      BY FlagsType
    <3> HIDE DEF f
    <3>3. QED BY <3>1, <3>2, FlagsType
  <2>3. PICK t \in Years :
          carried' = [carried EXCEPT ![t] = [source |-> y, balance |-> ClosingBalance(y)]]
    BY <1>3 DEF CloseYear, Created
  <2>4. QED BY <2>1, <2>2, <2>3
<1>4. CASE ReopenYear(y)
  <2>1. NoSnapshot \in Snapshot
    BY DEF NoSnapshot, NoLines
  <2>2. fy' \in [Years -> YearRow]
    <3> DEFINE f == [fy EXCEPT ![y].closed = FALSE]
    <3>1. fy' = [f EXCEPT ![y].locked = FALSE]
      BY <1>4 DEF ReopenYear
    <3>2. f \in [Years -> YearRow]
      BY FlagsType
    <3> HIDE DEF f
    <3>3. QED BY <3>1, <3>2, FlagsType
  <2>3. PICK t \in Years : carried' = [carried EXCEPT ![t] = NoSnapshot]
    BY <1>4 DEF ReopenYear, Created
  <2>4. QED BY <2>1, <2>2, <2>3
<1>5. QED BY <1>1, <1>2, <1>3, <1>4

\* The voucher a numbered operation writes is a voucher.
LEMMA OpVoucherType ==
  ASSUME TypeOK, op.fy \in Years, op.id \in Ids, NEW r \in Nat
  PROVE  OpVoucher(r) \in Voucher
<1>1. vouchers[op.id] \in Voucher
  BY DEF TypeOK, LedgerTypeOK, Ids
<1>2. op.number \in Nat /\ op.lines \in LineSet
  BY DEF TypeOK, LedgerTypeOK, Operation
<1>3. QED BY <1>1, <1>2 DEF OpVoucher, Voucher

\* Appending one row to each table keeps the tables typed and of one length.
LEMMA InsertType ==
  ASSUME LedgerTypeOK, NEW v \in Voucher, NEW c \in Cheque, NEW before \in Evidence,
         Insert(v, c, before), opening' = opening,
         lastNumber' \in [Years -> [Types -> Nat]],
         disabled' \subseteq Accounts, op' \in Operation
  PROVE  LedgerTypeOK'
<1>1. EvidenceOf(v) \in Evidence
  BY DEF EvidenceOf, Evidence, Voucher
<1>2. [before |-> before, after |-> EvidenceOf(v)] \in Event
  BY <1>1 DEF Event
<1>3. QED BY <1>2 DEF LedgerTypeOK, Insert

LEMMA TakeNumberType ==
  ASSUME TypeOK, NEW y \in Years, NEW t \in Types, TakeNumber(y, t)
  PROVE  /\ lastNumber' \in [Years -> [Types -> Nat]]
         /\ NextNumber(y, t) \in Nat
BY DEF TypeOK, LedgerTypeOK, TakeNumber, NextNumber

LEMMA ChequeForType ==
  /\ NoCheque \in Cheque
  /\ \A given \in BOOLEAN : ChequeFor(given) \in Cheque
  /\ \A from \in Nat : IssuedCheque(from) \in Cheque
BY DEF ChequeFor, NoCheque, IssuedCheque, Cheque


-----------------------------------------------------------------------------
\* The rows, one by one.
LEMMA RowType ==
  ASSUME TypeOK, NEW i \in Ids
  PROVE  /\ i \in Nat /\ i > 0 /\ i < NewId
         /\ vouchers[i] \in Voucher
         /\ cheques[i] \in Cheque
         /\ trail[i] \in Event
BY DEF TypeOK, LedgerTypeOK, Ids, NewId

\* Replacing a row of a table by another row of its type.
LEMMA ReplaceRow ==
  ASSUME NEW S, NEW s \in Seq(S), NEW n \in 1..Len(s), NEW e \in S
  PROVE  [s EXCEPT ![n] = e] \in Seq(S)
OBVIOUS

LEMMA EarlierRow ==
  ASSUME TypeOK, NEW i \in Ids, NEW j \in Nat, j # 0, j < i
  PROVE  j \in Ids
BY DEF TypeOK, LedgerTypeOK, Ids

\* Inserting a voucher adds one row at the end and disturbs no other.
LEMMA InsertRow ==
  ASSUME TypeOK, NEW v, NEW c, NEW before, Insert(v, c, before)
  PROVE  /\ Ids' = Ids \cup {NewId}
         /\ NewId \in Nat /\ NewId \notin Ids
         /\ \A i \in Ids : /\ vouchers'[i] = vouchers[i]
                           /\ cheques'[i] = cheques[i]
                           /\ trail'[i] = trail[i]
         /\ vouchers'[NewId] = v
         /\ cheques'[NewId] = c
         /\ trail'[NewId] = [before |-> before, after |-> EvidenceOf(v)]
BY DEF TypeOK, LedgerTypeOK, Insert, Ids, NewId

\* A voucher of this kind may be inserted: its number is past its series, it
\* reverses nothing or exactly a voucher that has no reversal, and its event
\* starts with the lines of the voucher it comes from.
Insertable(v, c, before) ==
  /\ v \in Voucher
  /\ c \in Cheque
  /\ v.fy \in Created
  /\ v.cancellationVoucher = 0
  /\ v.status = "open"
  /\ c.status # "bounced" /\ c.bouncedReversal = 0
  /\ \A i \in Ids : Series(vouchers[i]) = Series(v) => vouchers[i].number < v.number
  /\ v.reversalOf # 0 =>
       /\ v.reversalOf \in Ids
       /\ vouchers[v.reversalOf].reversalOf = 0
       /\ ~HasReversal(v.reversalOf)
       /\ v.type = vouchers[v.reversalOf].type
       /\ v.lines = Flipped(vouchers[v.reversalOf].lines)
       /\ before.lines = vouchers[v.reversalOf].lines
  /\ c.representedFrom # 0 =>
       /\ c.representedFrom \in Ids
       /\ MayRepresent(c.representedFrom)
       /\ v.type = vouchers[c.representedFrom].type
       /\ v.lines = vouchers[c.representedFrom].lines
       /\ before.lines = vouchers[c.representedFrom].lines

\* The facts about the rows alone, without the operation and the sequences.
RowsSound == /\ DatedInCreated
             /\ ReversalNetsToZero
             /\ CancellationLinked
             /\ ChequesFollowVouchers
             /\ OneOutstandingRepresentation
             /\ EvidenceCurrent

LEMMA InsertSound ==
  ASSUME TypeOK, RowsSound, NEW v, NEW c, NEW before,
         Insertable(v, c, before), Insert(v, c, before),
         Created \subseteq Created'
  PROVE  RowsSound'
<1>0. /\ Ids' = Ids \cup {NewId}
      /\ NewId \in Nat /\ NewId \notin Ids
      /\ \A i \in Ids : /\ vouchers'[i] = vouchers[i]
                        /\ cheques'[i] = cheques[i]
                        /\ trail'[i] = trail[i]
      /\ vouchers'[NewId] = v
      /\ cheques'[NewId] = c
      /\ trail'[NewId].before = before /\ trail'[NewId].after = EvidenceOf(v)
  <2>1. trail'[NewId] = [before |-> before, after |-> EvidenceOf(v)]
    BY InsertRow, Zenon
  <2>2. QED BY <2>1, InsertRow
<1> USE <1>0, RowType DEF RowsSound, Insertable, Voucher, Cheque
<1>1. DatedInCreated'
  BY DEF DatedInCreated
<1>2. ReversalNetsToZero'
  <2>1. SUFFICES ASSUME NEW j \in Ids', vouchers'[j].reversalOf # 0
                 PROVE  LET i == vouchers'[j].reversalOf IN
                          /\ i < j
                          /\ vouchers'[i].reversalOf = 0
                          /\ vouchers'[j].type = vouchers'[i].type
                          /\ vouchers'[j].lines = Flipped(vouchers'[i].lines)
                          /\ \A k \in Ids' : vouchers'[k].reversalOf = i => k = j
    BY DEF ReversalNetsToZero, Flipped
  <2>2. CASE j \in Ids
    <3>1. vouchers[j].reversalOf \in Ids
      BY <2>1, <2>2 DEF ReversalNetsToZero, Ids
    <3>2. vouchers[j].reversalOf # v.reversalOf
      BY <2>1, <2>2 DEF HasReversal
    <3>3. QED BY <2>1, <2>2, <3>1, <3>2 DEF ReversalNetsToZero
  <2>3. CASE j = NewId
    <3>1. \A k \in Ids : vouchers[k].reversalOf # v.reversalOf
      BY <2>1, <2>3 DEF HasReversal
    <3>2. QED BY <2>1, <2>3, <3>1
  <2>4. QED BY <2>1, <2>2, <2>3
<1>3. CancellationLinked'
  BY DEF CancellationLinked
<1>4. ChequesFollowVouchers'
  <2>1. SUFFICES ASSUME NEW i \in Ids'
                 PROVE  LET d == cheques'[i] IN
                          /\ d.status = "bounced" <=> d.bouncedReversal # 0
                          /\ d.status = "bounced" =>
                               /\ d.bouncedReversal \in Ids'
                               /\ vouchers'[d.bouncedReversal].reversalOf = i
                          /\ d.representedFrom # 0 =>
                               /\ d.representedFrom < i
                               /\ cheques'[d.representedFrom].status = "bounced"
                               /\ vouchers'[i].type = vouchers'[d.representedFrom].type
                               /\ vouchers'[i].lines = vouchers'[d.representedFrom].lines
    BY DEF ChequesFollowVouchers
  <2>2. CASE i \in Ids
    <3>1. cheques[i].representedFrom # 0 => cheques[i].representedFrom \in Ids
      <4>1. cheques[i].representedFrom \in Nat
        BY <2>2
      <4>2. cheques[i].representedFrom # 0 => cheques[i].representedFrom < i
        BY <2>2 DEF ChequesFollowVouchers
      <4>3. QED BY <2>2, <4>1, <4>2, EarlierRow
    <3>2. QED BY <2>2, <3>1 DEF ChequesFollowVouchers
  <2>3. CASE i = NewId
    BY <2>3 DEF MayRepresent
  <2>4. QED BY <2>1, <2>2, <2>3
<1>5. OneOutstandingRepresentation'
  BY DEF OneOutstandingRepresentation, MayRepresent
<1>6. EvidenceCurrent'
  <2>1. SUFFICES ASSUME NEW i \in Ids'
                 PROVE  /\ trail'[i].after = EvidenceOf(vouchers'[i])
                        /\ vouchers'[i].reversalOf # 0
                             => trail'[i].before.lines = vouchers'[vouchers'[i].reversalOf].lines
                        /\ cheques'[i].representedFrom # 0
                             => trail'[i].before.lines
                                  = vouchers'[cheques'[i].representedFrom].lines
    BY DEF EvidenceCurrent, EvidenceOf
  <2>2. CASE i \in Ids
    <3>1. vouchers[i].reversalOf # 0 => vouchers[i].reversalOf \in Ids
      BY <2>2, EarlierRow DEF ReversalNetsToZero
    <3>2. cheques[i].representedFrom # 0 => cheques[i].representedFrom \in Ids
      BY <2>2, EarlierRow DEF ChequesFollowVouchers
    <3>3. QED BY <2>2, <3>1, <3>2 DEF EvidenceCurrent
  <2>3. CASE i = NewId
    BY <2>3 DEF MayRepresent
  <2>4. QED BY <2>1, <2>2, <2>3
<1>7. QED BY <1>1, <1>2, <1>3, <1>4, <1>5, <1>6

\* Sequences only advance.
Advancing == \A y \in Years, t \in Types : lastNumber[y][t] =< lastNumber'[y][t]

LEMMA InsertNumbering ==
  ASSUME TypeOK, NumberingSound, NEW v \in Voucher, NEW c, NEW before,
         Insert(v, c, before),
         \A i \in Ids : Series(vouchers[i]) = Series(v) => vouchers[i].number < v.number,
         v.number =< lastNumber'[v.fy][v.type],
         lastNumber' \in [Years -> [Types -> Nat]],
         Advancing, op' = Idle
  PROVE  NumberingSound'
<1>0. /\ Ids' = Ids \cup {NewId}
      /\ NewId \in Nat /\ NewId \notin Ids
      /\ \A i \in Ids : /\ vouchers'[i] = vouchers[i]
                        /\ cheques'[i] = cheques[i]
                        /\ trail'[i] = trail[i]
      /\ vouchers'[NewId] = v
      /\ cheques'[NewId] = c
      /\ trail'[NewId].before = before /\ trail'[NewId].after = EvidenceOf(v)
  <2>1. trail'[NewId] = [before |-> before, after |-> EvidenceOf(v)]
    BY InsertRow, Zenon
  <2>2. QED BY <2>1, InsertRow
<1> USE <1>0, RowType DEF Voucher
<1>1. op'.number = 0
  BY DEF Idle
<1>2. \A i, j \in Ids' : i < j /\ Series(vouchers'[i]) = Series(vouchers'[j])
                           => vouchers'[i].number < vouchers'[j].number
  BY DEF NumberingSound, Series
<1>3. ASSUME NEW i \in Ids'
      PROVE  vouchers'[i].number =< lastNumber'[vouchers'[i].fy][vouchers'[i].type]
  <2>1. CASE i \in Ids
    <3>1. vouchers[i].number =< lastNumber[vouchers[i].fy][vouchers[i].type]
      BY <2>1 DEF NumberingSound
    <3>2. lastNumber[vouchers[i].fy][vouchers[i].type]
            =< lastNumber'[vouchers[i].fy][vouchers[i].type]
      BY <2>1 DEF Advancing
    <3>3. lastNumber[vouchers[i].fy][vouchers[i].type] \in Nat
      BY <2>1 DEF TypeOK, LedgerTypeOK
    <3>4. QED BY <2>1, <3>1, <3>2, <3>3
  <2>2. CASE i = NewId
    BY <2>2
  <2>3. QED BY <2>1, <2>2
<1>4. QED BY <1>1, <1>2, <1>3 DEF NumberingSound, Series

LEMMA TakeNumberAdvances ==
  ASSUME TypeOK, NEW y \in Years, NEW t \in Types, TakeNumber(y, t)
  PROVE  /\ Advancing
         /\ lastNumber'[y][t] = NextNumber(y, t)
         /\ NextNumber(y, t) # 0
BY DEF TypeOK, LedgerTypeOK, TakeNumber, NextNumber, Advancing

\* The number taken is past every voucher of its series.
LEMMA TakenIsFresh ==
  ASSUME TypeOK, NumberingSound, NEW y \in Years, NEW t \in Types,
         NEW i \in Ids, Series(vouchers[i]) = <<y, t>>
  PROVE  vouchers[i].number < NextNumber(y, t)
<1>1. vouchers[i].fy = y /\ vouchers[i].type = t
  BY DEF Series
<1>2. vouchers[i].number =< lastNumber[y][t]
  BY <1>1 DEF NumberingSound
<1>3. vouchers[i].number \in Nat
  BY RowType DEF Voucher
<1>4. lastNumber[y][t] \in Nat
  BY DEF TypeOK, LedgerTypeOK
<1>5. QED BY <1>2, <1>3, <1>4 DEF NextNumber

LEMMA DraftType ==
  ASSUME NEW d \in Drafts
  PROVE  d.type \in Types /\ d.lines \in LineSet /\ d.cheque \in BOOLEAN
BY LedgerAssumption

-----------------------------------------------------------------------------
\* Posting.
LEMMA PostStep ==
  ASSUME IInv, NEW d \in Drafts, NEW y \in Years, Post(d, y)
  PROVE  IInv'
<1> DEFINE v == [fy |-> y, type |-> d.type, number |-> NextNumber(y, d.type),
                 lines |-> d.lines, status |-> "open", reversalOf |-> 0,
                 cancellationVoucher |-> 0]
           c == ChequeFor(d.cheque)
<1>1. TypeOK /\ RowsSound /\ NumberingSound
  BY DEF IInv, RowsSound
<1>2. Insert(v, c, NoEvidence) /\ TakeNumber(y, d.type) /\ op' = Idle
      /\ y \in Created /\ UNCHANGED <<fy, carried, opening, disabled>>
  BY DEF Post, yearVars, accountVars, Acceptable, Writable
<1>3. v \in Voucher /\ c \in Cheque
  BY <1>1, <1>2, DraftType, TakeNumberType, ChequeForType DEF Voucher
<1>4. \A i \in Ids : Series(vouchers[i]) = Series(v) => vouchers[i].number < v.number
  BY <1>1, DraftType, TakenIsFresh DEF Series
<1>5. TypeOK'
  <2>1. YearsTypeOK'
    BY <1>1, <1>2 DEF TypeOK, YearsTypeOK, Snapshot
  <2>2. LedgerTypeOK'
    BY <1>1, <1>2, <1>3, IdleType, InsertType, TakeNumberType, DraftType
       DEF TypeOK, LedgerTypeOK
  <2>3. QED BY <2>1, <2>2 DEF TypeOK
<1>6. RowsSound'
  <2>1. Insertable(v, c, NoEvidence)
    BY <1>2, <1>3, <1>4 DEF Insertable, ChequeFor, NoCheque, IssuedCheque
  <2>2. Created' = Created
    BY <1>2 DEF Created
  <2>3. QED BY <1>1, <1>2, <2>1, <2>2, InsertSound
<1>7. NumberingSound'
  <2>1. Advancing /\ v.number = lastNumber'[v.fy][v.type]
    BY <1>1, <1>2, TakeNumberAdvances, DraftType
  <2>2. lastNumber' \in [Years -> [Types -> Nat]]
    BY <1>5 DEF TypeOK, LedgerTypeOK
  <2>3. v.number \in Nat
    BY <1>3 DEF Voucher
  <2>4. v.number =< lastNumber'[v.fy][v.type]
    BY <2>1, <2>3
  <2>5. QED
    <3> HIDE DEF v, c
    <3>1. QED BY <1>1, <1>2, <1>3, <1>4, <2>1, <2>2, <2>4, InsertNumbering
<1>8. OpSound'
  BY <1>2 DEF OpSound
<1>9. QED BY <1>5, <1>6, <1>7, <1>8 DEF IInv, RowsSound

-----------------------------------------------------------------------------
\* Steps that touch no row: those of YearAction, the first half of every
\* operation, its validation, an abort, and the disabling of an account.
LEMMA RowsUntouched ==
  ASSUME RowsSound, UNCHANGED <<vouchers, cheques, trail>>, Created \subseteq Created'
  PROVE  RowsSound'
BY DEF RowsSound, DatedInCreated, ReversalNetsToZero, CancellationLinked,
       ChequesFollowVouchers, OneOutstandingRepresentation, EvidenceCurrent, Ids

\* Steps that also leave the operation and the sequences alone.
LEMMA NumbersUntouched ==
  ASSUME NumberingSound, UNCHANGED <<vouchers, lastNumber>>,
         op'.number = op.number \/ op'.number = 0,
         op'.number # 0 => op'.id = op.id /\ op'.fy = op.fy
  PROVE  NumberingSound'
BY DEF NumberingSound, Ids, Series

\* A number taken for an operation that begins.
LEMMA NumberTaken ==
  ASSUME TypeOK, NumberingSound, NEW y \in Years, NEW i \in Ids,
         UNCHANGED vouchers, TakeNumber(y, vouchers[i].type),
         op'.number = NextNumber(y, vouchers[i].type), op'.fy = y, op'.id = i
  PROVE  NumberingSound'
<1> DEFINE t == vouchers[i].type
<1>1. t \in Types
  BY RowType DEF Voucher
<1>2. Advancing /\ lastNumber'[y][t] = NextNumber(y, t) /\ NextNumber(y, t) \in Nat
      /\ lastNumber' \in [Years -> [Types -> Nat]]
  BY <1>1, TakeNumberAdvances, TakeNumberType
<1>3. \A j \in Ids : vouchers[j].number =< lastNumber'[vouchers[j].fy][vouchers[j].type]
  <2>1. TAKE j \in Ids
  <2>2. vouchers[j].number =< lastNumber[vouchers[j].fy][vouchers[j].type]
    BY DEF NumberingSound
  <2>3. vouchers[j].fy \in Years /\ vouchers[j].type \in Types /\ vouchers[j].number \in Nat
    BY RowType DEF Voucher
  <2>4. lastNumber[vouchers[j].fy][vouchers[j].type] \in Nat
    BY <2>3 DEF TypeOK, LedgerTypeOK
  <2>5. lastNumber'[vouchers[j].fy][vouchers[j].type] \in Nat
    BY <2>3, <1>2
  <2>6. QED BY <2>2, <2>3, <2>4, <2>5, <1>2 DEF Advancing
<1>4. \A j \in Ids : Series(vouchers[j]) = <<y, t>> => vouchers[j].number < NextNumber(y, t)
  BY <1>1, TakenIsFresh
<1>5. QED BY <1>2, <1>3, <1>4 DEF NumberingSound, Ids, Series

\* An operation that begins or goes on keeps the types.
LEMMA OpMovesType ==
  ASSUME TypeOK, UNCHANGED <<fy, carried, vouchers, cheques, trail, opening, disabled>>,
         lastNumber' \in [Years -> [Types -> Nat]], op' \in Operation
  PROVE  TypeOK'
BY DEF TypeOK, YearsTypeOK, LedgerTypeOK, Snapshot

\* What an operation reads of its voucher is a snapshot of it.
LEMMA SeenType ==
  ASSUME TypeOK, NEW i \in Ids
  PROVE  Seen(i) \in Evidence
BY RowType DEF Seen, EvidenceOf, Evidence, Voucher

LEMMA BeginEditStep ==
  ASSUME IInv, NEW i \in Ids, NEW d \in Drafts, BeginEdit(i, d)
  PROVE  IInv'
<1>1. TypeOK /\ RowsSound /\ NumberingSound
  BY DEF IInv, RowsSound
<1>2. vouchers[i] \in Voucher /\ i \in Nat
  BY <1>1, RowType
<1>3. UNCHANGED <<fy, carried, vouchers, cheques, trail, lastNumber, opening, disabled>>
  BY DEF BeginEdit, yearVars, accountVars, ledgerVars
<1>4. op' = [kind |-> "edit", valid |-> TRUE, id |-> i, fy |-> vouchers[i].fy,
             number |-> 0, lines |-> d.lines, cheque |-> d.cheque,
             seen |-> Seen(i)]
  BY DEF BeginEdit
<1>5. TypeOK'
  <2>1. op' \in Operation
    BY <1>1, <1>2, <1>4, DraftType, SeenType DEF Operation, Kinds, Voucher
  <2>2. QED BY <1>1, <1>3, <2>1, OpMovesType DEF TypeOK, LedgerTypeOK
<1>6. RowsSound'
  BY <1>1, <1>3, RowsUntouched DEF Created
<1>7. NumberingSound'
  BY <1>1, <1>3, <1>4, NumbersUntouched
<1>8. OpSound'
  BY <1>3, <1>4 DEF OpSound, BeginEdit, Acceptable, WellFormed, Writable, Created,
     Correctable, HasReversal, Ids, Kinds, Seen, EvidenceOf
<1>9. QED BY <1>5, <1>6, <1>7, <1>8 DEF IInv, RowsSound

LEMMA BeginReversalStep ==
  ASSUME IInv, NEW kind \in {"reverse", "cancel", "bounce"}, NEW i \in Ids,
         BeginReversal(kind, i)
  PROVE  IInv'
<1>1. TypeOK /\ RowsSound /\ NumberingSound
  BY DEF IInv, RowsSound
<1>2. vouchers[i] \in Voucher /\ i \in Nat
  BY <1>1, RowType
<1>3. PICK y \in Created :
        /\ IsReversalYear(vouchers[i].fy, y)
        /\ TakeNumber(y, vouchers[i].type)
        /\ op' = [kind |-> kind, valid |-> FALSE, id |-> i, fy |-> y,
                  number |-> NextNumber(y, vouchers[i].type),
                  lines |-> Flipped(vouchers[i].lines), cheque |-> FALSE,
                  seen |-> Seen(i)]
  BY DEF BeginReversal
<1>4. UNCHANGED <<fy, carried, vouchers, cheques, trail, opening, disabled>>
  BY DEF BeginReversal, yearVars, accountVars
<1>5. y \in Years /\ vouchers[i].type \in Types
  BY <1>2 DEF Created, Voucher
<1>6. NextNumber(y, vouchers[i].type) \in Nat \ {0}
  BY <1>1, <1>3, <1>5, TakeNumberType, TakeNumberAdvances
<1>7. TypeOK'
  <2>1. op' \in Operation
    BY <1>1, <1>2, <1>3, <1>5, <1>6, FlippedType, SeenType DEF Operation, Kinds, Voucher
  <2>2. QED BY <1>1, <1>3, <1>4, <1>5, <2>1, TakeNumberType, OpMovesType
<1>8. RowsSound'
  BY <1>1, <1>4, RowsUntouched DEF Created
<1>9. NumberingSound'
  BY <1>1, <1>3, <1>4, <1>5, NumberTaken
<1>10. Writable(y)
  BY <1>3 DEF IsReversalYear, OpenYears, Writable
<1>11. OpSound'
  BY <1>3, <1>4, <1>6, <1>10 DEF OpSound, BeginReversal, Writable, Created,
     Correctable, HasReversal, Ids, Kinds, Flipped, Seen, EvidenceOf
<1>12. QED BY <1>7, <1>8, <1>9, <1>11 DEF IInv, RowsSound

LEMMA BeginRepresentStep ==
  ASSUME IInv, NEW i \in Ids, NEW y \in Years, BeginRepresent(i, y)
  PROVE  IInv'
<1>1. TypeOK /\ RowsSound /\ NumberingSound
  BY DEF IInv, RowsSound
<1>2. vouchers[i] \in Voucher /\ i \in Nat
  BY <1>1, RowType
<1>3. /\ TakeNumber(y, vouchers[i].type)
      /\ op' = [kind |-> "represent", valid |-> FALSE, id |-> i, fy |-> y,
                number |-> NextNumber(y, vouchers[i].type),
                lines |-> vouchers[i].lines, cheque |-> TRUE, seen |-> Seen(i)]
      /\ UNCHANGED <<fy, carried, vouchers, cheques, trail, opening, disabled>>
  BY DEF BeginRepresent, yearVars, accountVars
<1>4. vouchers[i].type \in Types
  BY <1>2 DEF Voucher
<1>5. NextNumber(y, vouchers[i].type) \in Nat \ {0}
  BY <1>1, <1>3, <1>4, TakeNumberType, TakeNumberAdvances
<1>6. TypeOK'
  <2>1. op' \in Operation
    BY <1>1, <1>2, <1>3, <1>5, SeenType DEF Operation, Kinds, Voucher
  <2>2. QED BY <1>1, <1>3, <1>4, <2>1, TakeNumberType, OpMovesType
<1>7. RowsSound'
  BY <1>1, <1>3, RowsUntouched DEF Created
<1>8. NumberingSound'
  BY <1>1, <1>3, NumberTaken
<1>9. OpSound'
  BY <1>3, <1>5 DEF OpSound, BeginRepresent, MayRepresent, Writable, Created, Ids, Kinds,
     Seen, EvidenceOf
<1>10. QED BY <1>6, <1>7, <1>8, <1>9 DEF IInv, RowsSound

LEMMA ValidateStep ==
  ASSUME IInv, Validate
  PROVE  IInv'
<1>1. TypeOK /\ RowsSound /\ NumberingSound /\ OpSound
  BY DEF IInv, RowsSound
<1>2. UNCHANGED <<fy, carried, vouchers, cheques, trail, lastNumber, opening, disabled>>
  BY DEF Validate, yearVars, accountVars, ledgerVars
<1>3. op \in Operation /\ op' = [op EXCEPT !.valid = TRUE]
  BY <1>1 DEF Validate, TypeOK, LedgerTypeOK
<1>4. TypeOK'
  <2>1. op' \in Operation
    BY <1>3 DEF Operation
  <2>2. QED BY <1>1, <1>2, <2>1, OpMovesType DEF TypeOK, LedgerTypeOK
<1>5. RowsSound'
  BY <1>1, <1>2, RowsUntouched DEF Created
<1>6. NumberingSound'
  BY <1>1, <1>2, <1>3, NumbersUntouched DEF Operation
<1>7. OpSound'
  <2>1. op # Idle
    BY DEF Validate, Idle
  <2>2. Balanced(op.lines)
    BY DEF Validate, Acceptable, WellFormed
  <2>3. /\ op'.kind = op.kind /\ op'.id = op.id /\ op'.fy = op.fy
        /\ op'.number = op.number /\ op'.lines = op.lines /\ op'.seen = op.seen
    BY <1>3 DEF Operation
  <2>4. QED BY <1>1, <1>2, <2>1, <2>2, <2>3
            DEF OpSound, Writable, Created, Correctable, HasReversal, MayRepresent,
                Ids, Flipped, EvidenceOf
<1>8. QED BY <1>4, <1>5, <1>6, <1>7 DEF IInv, RowsSound

LEMMA AbortStep ==
  ASSUME IInv, Abort
  PROVE  IInv'
<1>1. TypeOK /\ RowsSound /\ NumberingSound
  BY DEF IInv, RowsSound
<1>2. UNCHANGED <<fy, carried, vouchers, cheques, trail, lastNumber, opening, disabled>> /\ op' = Idle
  BY DEF Abort, yearVars, accountVars, ledgerVars
<1>3. TypeOK'
  BY <1>1, <1>2, IdleType, OpMovesType DEF TypeOK, LedgerTypeOK
<1>4. RowsSound'
  BY <1>1, <1>2, RowsUntouched DEF Created
<1>5. NumberingSound'
  BY <1>1, <1>2, NumbersUntouched DEF Idle
<1>6. QED BY <1>2, <1>3, <1>4, <1>5 DEF IInv, RowsSound, OpSound

LEMMA AccountStep ==
  ASSUME IInv, UNCHANGED <<yearVars, ledgerVars, op>>,
         opening' \in [Accounts -> Int], disabled' \subseteq Accounts
  PROVE  IInv'
<1>1. UNCHANGED <<fy, carried, vouchers, cheques, trail, lastNumber, op>>
  BY DEF yearVars, ledgerVars
<1>2. TypeOK'
  BY <1>1 DEF IInv, TypeOK, YearsTypeOK, LedgerTypeOK, Snapshot
<1>3. RowsSound'
  BY <1>1, RowsUntouched DEF IInv, RowsSound, Created
<1>4. NumberingSound'
  BY <1>1, NumbersUntouched DEF IInv
<1>5. OpSound'
  BY <1>1 DEF IInv, OpSound, Writable, Created, Correctable, HasReversal,
     MayRepresent, Ids, Flipped, EvidenceOf
<1>6. QED BY <1>2, <1>3, <1>4, <1>5 DEF IInv, RowsSound

LEMMA DisableAccountStep ==
  ASSUME IInv, NEW a \in Disabling, DisableAccount(a)
  PROVE  IInv'
BY AccountStep, LedgerAssumption DEF DisableAccount, IInv, TypeOK, LedgerTypeOK

LEMMA AlterAccountStep ==
  ASSUME IInv, NEW a \in Accounts, NEW n \in Openings[a], AlterAccount(a, n)
  PROVE  IInv'
BY AccountStep, LedgerAssumption DEF AlterAccount, SaveAccount, IInv, TypeOK, LedgerTypeOK

LEMMA YearStep ==
  ASSUME IInv, YearAction
  PROVE  IInv'
<1>1. op = Idle /\ UNCHANGED <<vouchers, cheques, trail, lastNumber, opening, disabled, op>>
  BY DEF YearAction, ledgerVars, accountVars
<1>2. TypeOK'
  BY <1>1, YearStepType DEF IInv, TypeOK, LedgerTypeOK
<1>3. Created \subseteq Created'
  <2>1. fy \in [Years -> YearRow]
    BY DEF IInv, TypeOK, YearsTypeOK
  <2>2. QED BY <2>1 DEF YearAction, CreateYear, LockYear, UnlockYear, CloseYear,
               ReopenYear, Created, YearRow
<1>4. RowsSound'
  BY <1>1, <1>3, RowsUntouched DEF IInv, RowsSound
<1>5. NumberingSound'
  BY <1>1, NumbersUntouched DEF IInv
<1>6. QED BY <1>1, <1>2, <1>4, <1>5 DEF IInv, RowsSound, OpSound

-----------------------------------------------------------------------------
\* What a numbered operation brings to its transaction.
LEMMA OpFacts ==
  ASSUME IInv, op.kind \in Kinds
  PROVE  /\ op # Idle
         /\ op.id \in Ids /\ op.id \in Nat /\ op.id # 0
         /\ op.fy \in Years /\ op.fy \in Created
         /\ vouchers[op.id] \in Voucher
         /\ op.number \in Nat /\ op.lines \in LineSet /\ op.cheque \in BOOLEAN
         /\ vouchers[op.id].reversalOf = 0
         /\ op.kind # "represent" => Correctable(op.id)
         /\ op.kind \in {"reverse", "cancel", "bounce"}
              => op.lines = Flipped(vouchers[op.id].lines)
         /\ op.seen \in Evidence /\ op.seen = EvidenceOf(vouchers[op.id])
         /\ op.seen.lines = vouchers[op.id].lines
<1>1. op # Idle
  BY DEF Kinds, Idle
<1>2. TypeOK /\ op \in Operation
  BY DEF IInv, TypeOK, LedgerTypeOK
<1>3. QED BY <1>1, <1>2, RowType DEF IInv, OpSound, Operation, Writable, Created, Kinds, EvidenceOf

\* The number of an operation in flight is past its series and its sequence.
LEMMA OpNumberFresh ==
  ASSUME IInv, op.kind \in Kinds \ {"edit"}, NEW r \in Nat
  PROVE  /\ \A i \in Ids : Series(vouchers[i]) = Series(OpVoucher(r))
                             => vouchers[i].number < OpVoucher(r).number
         /\ OpVoucher(r).number =< lastNumber[OpVoucher(r).fy][OpVoucher(r).type]
<1>1. op.number # 0
  BY OpFacts DEF IInv, OpSound, Kinds
<1>2. QED BY <1>1 DEF IInv, NumberingSound, OpVoucher, Series

LEMMA CommitInsertStep ==
  ASSUME IInv, op.kind \in Kinds \ {"edit"}, NEW r \in Nat, NEW c \in Cheque,
         Insertable(OpVoucher(r), c, op.seen), Insert(OpVoucher(r), c, op.seen), op' = Idle,
         UNCHANGED <<fy, carried, lastNumber, opening, disabled>>
  PROVE  IInv'
<1>1. TypeOK /\ RowsSound /\ NumberingSound
  BY DEF IInv, RowsSound
<1>2. OpVoucher(r) \in Voucher
  BY <1>1, OpFacts, OpVoucherType
<1>3. lastNumber' \in [Years -> [Types -> Nat]] /\ Advancing
  BY <1>1 DEF TypeOK, LedgerTypeOK, Advancing
<1>4. TypeOK'
  <2>1. YearsTypeOK'
    BY <1>1 DEF TypeOK, YearsTypeOK, Snapshot
  <2>2. LedgerTypeOK'
    BY <1>1, <1>2, <1>3, IdleType, InsertType, OpFacts DEF TypeOK, LedgerTypeOK
  <2>3. QED BY <2>1, <2>2 DEF TypeOK
<1>5. RowsSound'
  BY <1>1, InsertSound DEF Created
<1>6. NumberingSound'
  BY <1>1, <1>2, <1>3, OpNumberFresh, InsertNumbering
<1>7. QED BY <1>4, <1>5, <1>6 DEF IInv, RowsSound, OpSound

LEMMA CommitReverseStep ==
  ASSUME IInv, CommitReverse
  PROVE  IInv'
<1>1. op.kind = "reverse" /\ Insert(OpVoucher(op.id), NoCheque, op.seen) /\ op' = Idle
      /\ UNCHANGED <<fy, carried, lastNumber, opening, disabled>>
  BY DEF CommitReverse, yearVars, accountVars
<1>2. op.kind \in Kinds \ {"edit"}
  BY <1>1 DEF Kinds
<1>3. Insertable(OpVoucher(op.id), NoCheque, op.seen)
  <2>1. OpVoucher(op.id) \in Voucher
    BY <1>2, OpFacts, OpVoucherType DEF IInv
  <2>2. NoCheque \in Cheque
    BY ChequeForType
  <2>3. QED BY <1>1, <1>2, <2>1, <2>2, OpFacts, OpNumberFresh
            DEF Insertable, OpVoucher, NoCheque, Correctable
<1>4. QED BY <1>1, <1>2, <1>3, OpFacts, ChequeForType, CommitInsertStep

LEMMA CommitRepresentStep ==
  ASSUME IInv, CommitRepresent
  PROVE  IInv'
<1>1. op.kind = "represent" /\ Insert(OpVoucher(0), IssuedCheque(op.id), op.seen) /\ op' = Idle
      /\ UNCHANGED <<fy, carried, lastNumber, opening, disabled>>
  BY DEF CommitRepresent, yearVars, accountVars
<1>2. op.kind \in Kinds \ {"edit"}
  BY <1>1 DEF Kinds
<1>3. MayRepresent(op.id) /\ op.lines = vouchers[op.id].lines
  BY <1>1, <1>2, OpFacts DEF IInv, OpSound
<1>4. IssuedCheque(op.id) \in Cheque
  BY <1>2, OpFacts, ChequeForType
<1>5. Insertable(OpVoucher(0), IssuedCheque(op.id), op.seen)
  <2>1. OpVoucher(0) \in Voucher
    BY <1>2, OpFacts, OpVoucherType DEF IInv
  <2>2. QED BY <1>1, <1>2, <1>3, <1>4, <2>1, OpFacts, OpNumberFresh
            DEF Insertable, OpVoucher, IssuedCheque
<1>6. QED BY <1>1, <1>2, <1>4, <1>5, CommitInsertStep

-----------------------------------------------------------------------------
\* Editing replaces the lines and the cheque of a voucher nothing refers to.
LEMMA CommitEditStep ==
  ASSUME IInv, CommitEdit
  PROVE  IInv'
<1> DEFINE n == op.id
           c == ChequeFor(op.cheque)
<1>1. TypeOK /\ RowsSound /\ NumberingSound
  BY DEF IInv, RowsSound
<1>2. op.kind = "edit" /\ op.kind \in Kinds /\ op' = Idle
      /\ UNCHANGED <<fy, carried, lastNumber, opening, disabled>>
  BY DEF CommitEdit, Kinds, yearVars, accountVars
<1>3. n \in Ids /\ vouchers[n] \in Voucher /\ op.lines \in LineSet /\ Correctable(n)
  BY <1>2, OpFacts
<1>4. c \in Cheque /\ c.status # "bounced" /\ c.bouncedReversal = 0 /\ c.representedFrom = 0
  BY <1>2, OpFacts, ChequeForType DEF ChequeFor, NoCheque, IssuedCheque
<1>5. Ids' = Ids /\ Len(cheques') = Len(vouchers') /\ Len(trail') = Len(vouchers')
  BY <1>1 DEF CommitEdit, Ids, TypeOK, LedgerTypeOK
<1>6. \A i \in Ids : /\ vouchers'[i] = IF i = n THEN [vouchers[n] EXCEPT !.lines = op.lines]
                                                ELSE vouchers[i]
                     /\ cheques'[i] = IF i = n THEN c ELSE cheques[i]
                     /\ trail'[i] = IF i = n
                                    THEN [before |-> op.seen, after |-> EditedEvidence]
                                    ELSE trail[i]
  BY <1>1 DEF CommitEdit, Ids, TypeOK, LedgerTypeOK
<1>7. \A i \in Ids : /\ vouchers'[i].reversalOf = vouchers[i].reversalOf
                     /\ vouchers'[i].type = vouchers[i].type
                     /\ vouchers'[i].fy = vouchers[i].fy
                     /\ vouchers'[i].number = vouchers[i].number
                     /\ vouchers'[i].status = vouchers[i].status
                     /\ vouchers'[i].cancellationVoucher = vouchers[i].cancellationVoucher
                     /\ vouchers'[i].lines = IF i = n THEN op.lines ELSE vouchers[i].lines
  BY <1>1, <1>3, <1>6, RowType DEF Voucher
<1>8. TypeOK'
  <2>1. YearsTypeOK'
    BY <1>1, <1>2 DEF TypeOK, YearsTypeOK, Snapshot
  <2>2. vouchers' \in Seq(Voucher)
    <3>1. [vouchers[n] EXCEPT !.lines = op.lines] \in Voucher
      BY <1>3 DEF Voucher
    <3>2. QED BY <1>1, <1>3, <3>1, ReplaceRow DEF CommitEdit, TypeOK, LedgerTypeOK, Ids
  <2>3. cheques' \in Seq(Cheque)
    BY <1>1, <1>3, <1>4, ReplaceRow DEF CommitEdit, TypeOK, LedgerTypeOK, Ids
  <2>4. trail' \in Seq(Event)
    <3>1. [before |-> op.seen, after |-> EditedEvidence] \in Event
      BY <1>2, <1>3, OpFacts DEF Evidence, Event, EditedEvidence
    <3>2. QED BY <1>1, <1>3, <3>1, ReplaceRow DEF CommitEdit, TypeOK, LedgerTypeOK, Ids
  <2>5. QED BY <1>1, <1>2, <1>5, <2>1, <2>2, <2>3, <2>4, IdleType
            DEF TypeOK, LedgerTypeOK
<1>9. DatedInCreated'
  BY <1>1, <1>2, <1>5, <1>7 DEF RowsSound, DatedInCreated, Created
<1>10. NumberingSound'
  BY <1>1, <1>2, <1>5, <1>7 DEF NumberingSound, Series, Idle
<1>11. ReversalNetsToZero'
  <2>1. \A j \in Ids : vouchers[j].reversalOf # n
    BY <1>3 DEF Correctable, HasReversal
  <2>2. \A j \in Ids : vouchers[j].reversalOf # 0 => vouchers[j].reversalOf \in Ids /\ j # n
    BY <1>1, <1>3, RowType, EarlierRow
       DEF RowsSound, ReversalNetsToZero, Correctable, Voucher
  <2>3. SUFFICES ASSUME NEW j \in Ids, vouchers[j].reversalOf # 0
                 PROVE  LET i == vouchers[j].reversalOf IN
                          /\ i < j
                          /\ vouchers'[i].reversalOf = 0
                          /\ vouchers'[j].type = vouchers'[i].type
                          /\ vouchers'[j].lines = Flipped(vouchers'[i].lines)
                          /\ \A k \in Ids : vouchers'[k].reversalOf = i => k = j
    <3>1. \A j \in Ids : vouchers'[j].reversalOf = vouchers[j].reversalOf
      BY <1>7
    <3>2. Ids' = Ids
      BY <1>5
    <3> HIDE DEF n, c
    <3>3. QED BY <3>1, <3>2 DEF ReversalNetsToZero, Flipped
  <2>4. QED BY <1>1, <1>7, <2>1, <2>2, <2>3 DEF RowsSound, ReversalNetsToZero
<1>12. CancellationLinked'
  BY <1>1, <1>5, <1>7 DEF RowsSound, CancellationLinked
<1>13. cheques[n].status # "bounced"
  BY <1>1, <1>3 DEF RowsSound, ChequesFollowVouchers, Correctable, HasReversal
<1>14. ChequesFollowVouchers'
  <2>1. \A i \in Ids : cheques[i].representedFrom # 0
                         => /\ cheques[i].representedFrom \in Ids
                            /\ cheques[i].representedFrom # n
    BY <1>1, <1>13, RowType, EarlierRow DEF RowsSound, ChequesFollowVouchers, Cheque
  <2>2. QED BY <1>1, <1>4, <1>5, <1>6, <1>7, <2>1 DEF RowsSound, ChequesFollowVouchers
<1>15. OneOutstandingRepresentation'
  BY <1>1, <1>4, <1>5, <1>6 DEF RowsSound, OneOutstandingRepresentation
<1>16. EvidenceCurrent'
  <2>1. op.seen = EvidenceOf(vouchers[n]) /\ EditedEvidence = EvidenceOf(vouchers'[n])
    BY <1>2, <1>3, <1>7, OpFacts DEF EditedEvidence, EvidenceOf
  <2>2. \A i \in Ids : vouchers[i].reversalOf # 0
                        => vouchers[i].reversalOf \in Ids /\ vouchers[i].reversalOf # n
    BY <1>1, <1>3, RowType, EarlierRow
       DEF RowsSound, ReversalNetsToZero, Correctable, HasReversal, Voucher
  <2>3. \A i \in Ids : cheques[i].representedFrom # 0
                        => cheques[i].representedFrom \in Ids /\ cheques[i].representedFrom # n
    BY <1>1, <1>13, RowType, EarlierRow DEF RowsSound, ChequesFollowVouchers, Cheque
  <2>4. vouchers[n].reversalOf = 0
    BY <1>3 DEF Correctable
  <2> HIDE DEF n, c
  <2>5. SUFFICES ASSUME NEW i \in Ids
                 PROVE  /\ trail'[i].after = EvidenceOf(vouchers'[i])
                        /\ vouchers'[i].reversalOf # 0
                             => trail'[i].before.lines = vouchers'[vouchers'[i].reversalOf].lines
                        /\ cheques'[i].representedFrom # 0
                             => trail'[i].before.lines
                                  = vouchers'[cheques'[i].representedFrom].lines
    BY <1>5 DEF EvidenceCurrent, EvidenceOf
  <2>6. CASE i = n
    BY <1>4, <1>6, <1>7, <2>1, <2>4, <2>6
  <2>7. CASE i # n
    BY <1>1, <1>6, <1>7, <2>2, <2>3, <2>7 DEF RowsSound, EvidenceCurrent, EvidenceOf
  <2>8. QED BY <2>6, <2>7
<1>17. QED
  BY <1>2, <1>8, <1>9, <1>10, <1>11, <1>12, <1>14, <1>15, <1>16 DEF IInv, OpSound

-----------------------------------------------------------------------------
\* Appending a row to a table in which one row is replaced.
LEMMA ReplaceAndAppend ==
  ASSUME NEW S, NEW s \in Seq(S), NEW n \in 1..Len(s), NEW e \in S, NEW f \in S,
         NEW t, t = Append([s EXCEPT ![n] = e], f)
  PROVE  /\ t \in Seq(S)
         /\ Len(t) = Len(s) + 1
         /\ \A i \in 1..Len(s) : t[i] = IF i = n THEN e ELSE s[i]
         /\ t[Len(s) + 1] = f
OBVIOUS

\* Cancelling marks a voucher and adds its reversal.
LEMMA CommitCancelStep ==
  ASSUME IInv, CommitCancel
  PROVE  IInv'
<1> DEFINE n == op.id
           v == OpVoucher(n)
           marked == Cancelled(vouchers[n])
           event == [before |-> op.seen, after |-> [op.seen EXCEPT !.status = "cancelled"]]
<1>1. TypeOK /\ RowsSound /\ NumberingSound
  BY DEF IInv, RowsSound
<1>2. /\ op.kind = "cancel" /\ op.kind \in Kinds \ {"edit"} /\ op' = Idle
      /\ vouchers' = Append([vouchers EXCEPT ![n] = marked], v)
      /\ cheques' = Append(cheques, NoCheque)
      /\ trail' = Append([trail EXCEPT ![n] = event], OpEvent(v))
      /\ UNCHANGED <<fy, carried, lastNumber, opening, disabled>>
  BY DEF CommitCancel, Kinds, yearVars, accountVars
<1>3. n \in Ids /\ vouchers[n] \in Voucher /\ Correctable(n)
      /\ v.lines = Flipped(vouchers[n].lines) /\ v.fy \in Created
  BY <1>2, OpFacts DEF OpVoucher
<1>4. NewId \in Nat /\ NewId # 0 /\ NewId \notin Ids
  BY <1>1 DEF TypeOK, LedgerTypeOK, NewId, Ids
<1>5. v \in Voucher /\ marked \in Voucher /\ NoCheque \in Cheque
  BY <1>1, <1>2, <1>3, <1>4, OpFacts, OpVoucherType, ChequeForType DEF Voucher, Cancelled
<1>6. /\ OpEvent(v) \in Event /\ event \in Event
      /\ event.after = EvidenceOf(marked) /\ OpEvent(v).after = EvidenceOf(v)
      /\ event.before.lines = vouchers[n].lines /\ OpEvent(v).before.lines = vouchers[n].lines
  <2>1. op.seen \in Evidence /\ op.seen = EvidenceOf(vouchers[n])
        /\ op.seen.lines = vouchers[n].lines
    BY <1>2, OpFacts
  <2>2. EvidenceOf(v) \in Evidence
    BY <1>5 DEF EvidenceOf, Evidence, Voucher
  <2>3. EvidenceOf(marked) = [op.seen EXCEPT !.status = "cancelled"]
    BY <1>3, <2>1 DEF EvidenceOf, Cancelled, Voucher
  <2> HIDE DEF v, marked
  <2>4. QED BY <2>1, <2>2, <2>3 DEF OpEvent, Event, Evidence
<1>7. /\ vouchers' \in Seq(Voucher) /\ Ids' = Ids \cup {NewId}
      /\ \A i \in Ids : vouchers'[i] = IF i = n THEN marked ELSE vouchers[i]
      /\ vouchers'[NewId] = v
  <2> HIDE DEF v, marked
  <2>1. vouchers \in Seq(Voucher) /\ n \in 1..Len(vouchers)
    BY <1>1, <1>3 DEF TypeOK, LedgerTypeOK, Ids
  <2>2. QED BY <1>2, <1>5, <2>1, ReplaceAndAppend DEF Ids, NewId
<1>8. /\ cheques' \in Seq(Cheque) /\ Len(cheques') = Len(vouchers')
      /\ \A i \in Ids : cheques'[i] = cheques[i]
      /\ cheques'[NewId] = NoCheque
  BY <1>1, <1>2, <1>5 DEF TypeOK, LedgerTypeOK, Ids, NewId
<1>9. /\ trail' \in Seq(Event) /\ Len(trail') = Len(vouchers')
      /\ \A i \in Ids : trail'[i] = IF i = n THEN event ELSE trail[i]
      /\ trail'[NewId] = OpEvent(v)
  <2> HIDE DEF v, marked, event
  <2>1. trail \in Seq(Event) /\ n \in 1..Len(trail) /\ Len(trail) = Len(vouchers)
        /\ vouchers \in Seq(Voucher)
    BY <1>1, <1>3 DEF TypeOK, LedgerTypeOK, Ids
  <2>2. Len(vouchers') = Len(vouchers) + 1
    BY <1>2, <2>1
  <2>3. QED BY <1>2, <1>6, <2>1, <2>2, ReplaceAndAppend DEF Ids, NewId
<1>10. TypeOK'
  BY <1>1, <1>2, <1>7, <1>8, <1>9, IdleType DEF TypeOK, LedgerTypeOK, YearsTypeOK, Snapshot
<1>11. \A i \in Ids : /\ vouchers'[i].reversalOf = vouchers[i].reversalOf
                      /\ vouchers'[i].type = vouchers[i].type
                      /\ vouchers'[i].fy = vouchers[i].fy
                      /\ vouchers'[i].number = vouchers[i].number
                      /\ vouchers'[i].lines = vouchers[i].lines
                      /\ i # n => vouchers'[i] = vouchers[i]
  <2>1. /\ marked.reversalOf = vouchers[n].reversalOf /\ marked.type = vouchers[n].type
        /\ marked.fy = vouchers[n].fy /\ marked.number = vouchers[n].number
        /\ marked.lines = vouchers[n].lines
    BY <1>3 DEF Voucher, Cancelled
  <2>2. QED
    <3> HIDE DEF v, marked
    <3>1. QED BY <1>7, <2>1
<1>12. v.reversalOf = n /\ v.type = vouchers[n].type /\ v.status = "open"
       /\ v.cancellationVoucher = 0
  BY DEF OpVoucher
<1>13. DatedInCreated'
  <2> HIDE DEF v, marked
  <2>1. \A i \in Ids : vouchers[i].fy \in Created
    BY <1>1 DEF RowsSound, DatedInCreated
  <2>2. Created' = Created
    BY <1>2 DEF Created
  <2>3. \A i \in Ids' : vouchers'[i].fy \in Created
    BY <1>3, <1>7, <1>11, <2>1
  <2>4. QED BY <2>2, <2>3 DEF DatedInCreated
<1>14. NumberingSound'
  <2>1. op'.number = 0
    BY <1>2 DEF Idle
  <2>2. \A i \in Ids : Series(vouchers[i]) = Series(v) => vouchers[i].number < v.number
    BY <1>2, <1>3, OpNumberFresh, OpFacts
  <2>3. v.number =< lastNumber[v.fy][v.type]
    BY <1>2, <1>3, OpNumberFresh, OpFacts
  <2>4. \A i \in Ids : i < NewId
    BY <1>1, RowType
  <2>5. \A i, j \in Ids' : i < j /\ Series(vouchers'[i]) = Series(vouchers'[j])
                             => vouchers'[i].number < vouchers'[j].number
    <3> HIDE DEF v
    <3>1. \A i, j \in Ids : i < j /\ Series(vouchers[i]) = Series(vouchers[j])
                              => vouchers[i].number < vouchers[j].number
      BY <1>1 DEF NumberingSound
    <3>2. ~(NewId < NewId) /\ \A i \in Ids : ~(NewId < i)
      BY <1>1, <1>4, <2>4, RowType
    <3>3. \A i \in Ids : Series(vouchers'[i]) = Series(vouchers[i])
                         /\ vouchers'[i].number = vouchers[i].number
      BY <1>11 DEF Series
    <3>4. Ids' = Ids \cup {NewId} /\ vouchers'[NewId] = v
      BY <1>7
    <3>5. TAKE i, j \in Ids'
    <3>6. CASE i \in Ids /\ j \in Ids
      BY <3>1, <3>3, <3>6
    <3>7. CASE i \in Ids /\ j = NewId
      BY <2>2, <3>3, <3>4, <3>7
    <3>8. CASE i = NewId
      <4>1. j \in Ids \/ j = NewId
        BY <3>4
      <4>2. ~(NewId < j)
        BY <3>2, <4>1
      <4>3. QED BY <3>8, <4>2
    <3>9. QED BY <3>4, <3>6, <3>7, <3>8
  <2>6. \A i \in Ids' : vouchers'[i].number =< lastNumber'[vouchers'[i].fy][vouchers'[i].type]
    <3> HIDE DEF v, marked
    <3>1. \A i \in Ids : vouchers[i].number =< lastNumber[vouchers[i].fy][vouchers[i].type]
      BY <1>1 DEF NumberingSound
    <3>2. \A i \in Ids :
            vouchers'[i].number =< lastNumber[vouchers'[i].fy][vouchers'[i].type]
      BY <1>11, <3>1
    <3>3. QED BY <1>2, <1>7, <2>3, <3>2
  <2>7. QED BY <2>1, <2>5, <2>6 DEF NumberingSound, Series
<1>15. ReversalNetsToZero'
  <2>1. SUFFICES ASSUME NEW j \in Ids', vouchers'[j].reversalOf # 0
                 PROVE  LET i == vouchers'[j].reversalOf IN
                          /\ i < j
                          /\ vouchers'[i].reversalOf = 0
                          /\ vouchers'[j].type = vouchers'[i].type
                          /\ vouchers'[j].lines = Flipped(vouchers'[i].lines)
                          /\ \A k \in Ids' : vouchers'[k].reversalOf = i => k = j
    BY DEF ReversalNetsToZero, Flipped
  <2>2. \A k \in Ids : vouchers[k].reversalOf # n
    BY <1>3 DEF Correctable, HasReversal
  <2>3. CASE j \in Ids
    <3>1. vouchers[j].reversalOf \in Ids
      BY <1>1, <1>11, <2>1, <2>3, RowType, EarlierRow
         DEF RowsSound, ReversalNetsToZero, Voucher
    <3>2. QED BY <1>1, <1>7, <1>11, <1>12, <2>1, <2>2, <2>3, <3>1
              DEF RowsSound, ReversalNetsToZero
  <2>4. CASE j = NewId
    <3>1. n < NewId
      BY <1>1, <1>3, RowType
    <3>2. QED BY <1>3, <1>7, <1>11, <1>12, <2>1, <2>2, <2>4, <3>1 DEF Correctable
  <2>5. QED BY <1>7, <2>1, <2>3, <2>4
<1>16. CancellationLinked'
  <2>1. marked.status = "cancelled" /\ marked.cancellationVoucher = NewId
    BY <1>3 DEF Voucher, Cancelled
  <2>2. QED
    <3> HIDE DEF v, marked
    <3>1. \A i \in Ids : i # n => vouchers'[i] = vouchers[i]
      BY <1>11
    <3>2. vouchers'[n] = marked
      BY <1>3, <1>7
    <3>3. vouchers'[NewId].reversalOf = n /\ vouchers'[NewId].status = "open"
          /\ vouchers'[NewId].cancellationVoucher = 0
      BY <1>7, <1>12
    <3>4. \A i \in Ids : vouchers'[i].reversalOf = vouchers[i].reversalOf
      BY <1>11
    <3>5. Ids' = Ids \cup {NewId}
      BY <1>7
    <3>6. QED BY <1>1, <1>3, <1>4, <2>1, <3>1, <3>2, <3>3, <3>4, <3>5
              DEF RowsSound, CancellationLinked
<1>17. ChequesFollowVouchers'
  <2>1. \A i \in Ids : cheques[i].representedFrom # 0 => cheques[i].representedFrom \in Ids
    BY <1>1, RowType, EarlierRow DEF RowsSound, ChequesFollowVouchers, Cheque
  <2>2. QED
    <3> HIDE DEF v, marked
    <3>1. QED BY <1>1, <1>7, <1>8, <1>11, <2>1
              DEF RowsSound, ChequesFollowVouchers, NoCheque
<1>18. OneOutstandingRepresentation'
  BY <1>1, <1>7, <1>8 DEF RowsSound, OneOutstandingRepresentation, NoCheque
<1>19. EvidenceCurrent'
  <2>1. \A i \in Ids : vouchers[i].reversalOf # 0 => vouchers[i].reversalOf \in Ids
    BY <1>1, RowType, EarlierRow DEF RowsSound, ReversalNetsToZero, Voucher
  <2>2. \A i \in Ids : cheques[i].representedFrom # 0 => cheques[i].representedFrom \in Ids
    BY <1>1, RowType, EarlierRow DEF RowsSound, ChequesFollowVouchers, Cheque
  <2>3. SUFFICES ASSUME NEW i \in Ids'
                 PROVE  /\ trail'[i].after = EvidenceOf(vouchers'[i])
                        /\ vouchers'[i].reversalOf # 0
                             => trail'[i].before.lines = vouchers'[vouchers'[i].reversalOf].lines
                        /\ cheques'[i].representedFrom # 0
                             => trail'[i].before.lines
                                  = vouchers'[cheques'[i].representedFrom].lines
    BY DEF EvidenceCurrent, EvidenceOf
  <2> HIDE DEF v, marked, event
  <2>4. CASE i = n
    <3>1. vouchers[n].reversalOf = 0
      BY <1>3 DEF Correctable
    <3>2. cheques[n].representedFrom # 0
            => vouchers[n].lines = vouchers[cheques[n].representedFrom].lines
      BY <1>1, <1>3 DEF RowsSound, ChequesFollowVouchers
    <3>3. QED BY <1>3, <1>6, <1>7, <1>8, <1>9, <1>11, <2>2, <2>4, <3>1, <3>2
  <2>5. CASE i \in Ids /\ i # n
    <3>1. /\ trail[i].after = EvidenceOf(vouchers[i])
          /\ vouchers[i].reversalOf # 0
               => trail[i].before.lines = vouchers[vouchers[i].reversalOf].lines
          /\ cheques[i].representedFrom # 0
               => trail[i].before.lines = vouchers[cheques[i].representedFrom].lines
      BY <1>1, <2>5 DEF RowsSound, EvidenceCurrent
    <3>2. trail'[i] = trail[i] /\ cheques'[i] = cheques[i] /\ vouchers'[i] = vouchers[i]
      BY <1>8, <1>9, <1>11, <2>5
    <3>3. \A j \in Ids : vouchers'[j].lines = vouchers[j].lines
      BY <1>11
    <3>4. QED BY <2>1, <2>2, <2>5, <3>1, <3>2, <3>3
  <2>6. CASE i = NewId
    <3>1. /\ trail'[i] = OpEvent(v) /\ vouchers'[i] = v /\ v.reversalOf = n
          /\ cheques'[i].representedFrom = 0
      BY <1>7, <1>8, <1>9, <1>12, <2>6 DEF NoCheque
    <3>2. vouchers'[n].lines = vouchers[n].lines
      BY <1>3, <1>11
    <3>3. QED BY <1>6, <3>1, <3>2
  <2>7. QED BY <1>7, <2>3, <2>4, <2>5, <2>6
<1>20. QED
  BY <1>2, <1>10, <1>13, <1>14, <1>15, <1>16, <1>17, <1>18, <1>19 DEF IInv, OpSound

-----------------------------------------------------------------------------
\* Bouncing marks a cheque and adds the reversal of its voucher.
LEMMA CommitBounceStep ==
  ASSUME IInv, CommitBounce
  PROVE  IInv'
<1> DEFINE n == op.id
           v == OpVoucher(n)
           c == [cheques[n] EXCEPT !.status = "bounced", !.bouncedReversal = NewId]
<1>1. TypeOK /\ RowsSound /\ NumberingSound
  BY DEF IInv, RowsSound
<1>2. /\ op.kind = "bounce" /\ op.kind \in Kinds \ {"edit"} /\ op' = Idle
      /\ cheques[n].status = "issued"
      /\ vouchers' = Append(vouchers, v)
      /\ trail' = Append(trail, OpEvent(v))
      /\ UNCHANGED <<fy, carried, lastNumber, opening, disabled>>
  BY DEF CommitBounce, Kinds, yearVars, accountVars
<1>3. n \in Ids /\ n \in Nat /\ n # 0 /\ cheques[n] \in Cheque /\ Correctable(n)
      /\ v.lines = Flipped(vouchers[n].lines) /\ v.fy \in Created
  BY <1>1, <1>2, OpFacts, RowType DEF OpVoucher
<1>4. NewId \in Nat /\ NewId # 0 /\ NewId \notin Ids /\ n < NewId
  BY <1>1, <1>3, RowType DEF TypeOK, LedgerTypeOK, NewId, Ids
<1>5. v \in Voucher /\ c \in Cheque /\ NoCheque \in Cheque
  BY <1>1, <1>2, <1>3, <1>4, OpFacts, OpVoucherType, ChequeForType DEF Cheque
<1>6. /\ cheques' \in Seq(Cheque) /\ Len(cheques') = Len(cheques) + 1
      /\ \A i \in Ids : cheques'[i] = IF i = n THEN c ELSE cheques[i]
      /\ cheques'[NewId] = NoCheque
  <2>1. cheques' = Append([cheques EXCEPT ![n] = c], NoCheque)
    BY <1>1, <1>3 DEF CommitBounce, TypeOK, LedgerTypeOK, Ids, Cheque
  <2>2. cheques \in Seq(Cheque) /\ n \in 1..Len(cheques) /\ Len(cheques) = Len(vouchers)
    BY <1>1, <1>3 DEF TypeOK, LedgerTypeOK, Ids
  <2>3. QED
    <3> HIDE DEF c
    <3>1. QED BY <1>5, <2>1, <2>2, ReplaceAndAppend DEF Ids, NewId
<1>7. /\ vouchers' \in Seq(Voucher) /\ Len(vouchers') = Len(vouchers) + 1
      /\ Ids' = Ids \cup {NewId}
      /\ \A i \in Ids : vouchers'[i] = vouchers[i]
      /\ vouchers'[NewId] = v
  <2> HIDE DEF v
  <2>1. QED BY <1>1, <1>2, <1>5 DEF TypeOK, LedgerTypeOK, Ids, NewId
<1>8. /\ trail' \in Seq(Event) /\ Len(trail') = Len(trail) + 1
      /\ \A i \in Ids : trail'[i] = trail[i]
      /\ trail'[NewId] = OpEvent(v)
  <2>1. OpEvent(v) \in Event
    <3>1. EvidenceOf(v) \in Evidence /\ op.seen \in Evidence
      BY <1>2, <1>5, OpFacts DEF EvidenceOf, Evidence, Voucher
    <3>2. QED BY <3>1 DEF OpEvent, Event
  <2> HIDE DEF v
  <2>2. QED BY <1>1, <1>2, <2>1 DEF TypeOK, LedgerTypeOK, Ids, NewId
<1>9. TypeOK'
  BY <1>1, <1>2, <1>6, <1>7, <1>8, IdleType DEF TypeOK, LedgerTypeOK, YearsTypeOK, Snapshot
<1>10. v.reversalOf = n /\ v.type = vouchers[n].type /\ v.status = "open"
       /\ v.cancellationVoucher = 0
  BY DEF OpVoucher
<1>11. c.status = "bounced" /\ c.bouncedReversal = NewId
       /\ c.representedFrom = cheques[n].representedFrom
  BY <1>3 DEF Cheque
<1>12. \A k \in Ids : vouchers[k].reversalOf # n
  BY <1>3 DEF Correctable, HasReversal
<1>13. DatedInCreated'
  BY <1>1, <1>2, <1>3, <1>7 DEF RowsSound, DatedInCreated, Created
<1>14. NumberingSound'
  <2>1. op'.number = 0
    BY <1>2 DEF Idle
  <2>2. \A i \in Ids : Series(vouchers[i]) = Series(v) => vouchers[i].number < v.number
    BY <1>2, <1>3, OpNumberFresh
  <2>3. v.number =< lastNumber[v.fy][v.type]
    BY <1>2, <1>3, OpNumberFresh
  <2>4. ~(NewId < NewId) /\ \A i \in Ids : ~(NewId < i)
    BY <1>1, <1>4, RowType
  <2> HIDE DEF v, c
  <2>5. \A i, j \in Ids' : i < j /\ Series(vouchers'[i]) = Series(vouchers'[j])
                             => vouchers'[i].number < vouchers'[j].number
    BY <1>1, <1>7, <2>2, <2>4 DEF NumberingSound
  <2>6. \A i \in Ids' : vouchers'[i].number =< lastNumber'[vouchers'[i].fy][vouchers'[i].type]
    BY <1>1, <1>2, <1>7, <2>3 DEF NumberingSound
  <2>7. QED BY <2>1, <2>5, <2>6 DEF NumberingSound, Series
<1>15. ReversalNetsToZero'
  <2> HIDE DEF v, c
  <2>1. SUFFICES ASSUME NEW j \in Ids', vouchers'[j].reversalOf # 0
                 PROVE  LET i == vouchers'[j].reversalOf IN
                          /\ i < j
                          /\ vouchers'[i].reversalOf = 0
                          /\ vouchers'[j].type = vouchers'[i].type
                          /\ vouchers'[j].lines = Flipped(vouchers'[i].lines)
                          /\ \A k \in Ids' : vouchers'[k].reversalOf = i => k = j
    BY DEF ReversalNetsToZero, Flipped
  <2>2. CASE j \in Ids
    <3>1. vouchers[j].reversalOf \in Ids
      BY <1>1, <1>7, <2>1, <2>2, RowType, EarlierRow
         DEF RowsSound, ReversalNetsToZero, Voucher
    <3>2. QED BY <1>1, <1>7, <1>10, <1>12, <2>1, <2>2, <3>1
              DEF RowsSound, ReversalNetsToZero
  <2>3. CASE j = NewId
    BY <1>3, <1>4, <1>7, <1>10, <1>12, <2>1, <2>3 DEF Correctable
  <2>4. QED BY <1>7, <2>1, <2>2, <2>3
<1>16. CancellationLinked'
  <2> HIDE DEF v, c
  <2>1. QED BY <1>1, <1>7, <1>10 DEF RowsSound, CancellationLinked
<1>17. ChequesFollowVouchers'
  <2>1. \A i \in Ids : cheques[i].representedFrom # 0
                         => cheques[i].representedFrom \in Ids
    BY <1>1, RowType, EarlierRow DEF RowsSound, ChequesFollowVouchers, Cheque
  <2> HIDE DEF v, c
  <2>2. cheques[n].representedFrom # n
    BY <1>1, <1>3 DEF RowsSound, ChequesFollowVouchers
  <2>3. SUFFICES ASSUME NEW i \in Ids'
                 PROVE  LET q == cheques'[i] IN
          /\ q.status = "bounced" <=> q.bouncedReversal # 0
          /\ q.status = "bounced" =>
               /\ q.bouncedReversal \in Ids'
               /\ vouchers'[q.bouncedReversal].reversalOf = i
          /\ q.representedFrom # 0 =>
               /\ q.representedFrom < i
               /\ cheques'[q.representedFrom].status = "bounced"
               /\ vouchers'[i].type = vouchers'[q.representedFrom].type
               /\ vouchers'[i].lines = vouchers'[q.representedFrom].lines
    BY DEF ChequesFollowVouchers
  <2>4. CASE i = n
    <3>1. /\ cheques'[i].status = "bounced" /\ cheques'[i].bouncedReversal = NewId
          /\ cheques'[i].representedFrom = cheques[n].representedFrom
      BY <1>3, <1>6, <1>11, <2>4
    <3>2. NewId \in Ids' /\ vouchers'[NewId].reversalOf = i
      BY <1>7, <1>10, <2>4
    <3>3. cheques[n].representedFrom # 0 =>
            /\ cheques[n].representedFrom < i
            /\ cheques'[cheques[n].representedFrom].status = "bounced"
            /\ vouchers'[i].type = vouchers'[cheques[n].representedFrom].type
            /\ vouchers'[i].lines = vouchers'[cheques[n].representedFrom].lines
      <4>1. SUFFICES ASSUME cheques[n].representedFrom # 0
                     PROVE  /\ cheques[n].representedFrom < i
                            /\ cheques'[cheques[n].representedFrom].status = "bounced"
                            /\ vouchers'[i].type = vouchers'[cheques[n].representedFrom].type
                            /\ vouchers'[i].lines = vouchers'[cheques[n].representedFrom].lines
        OBVIOUS
      <4>2. cheques[n].representedFrom \in Ids
        BY <1>3, <2>1, <4>1
      <4>3. /\ cheques[n].representedFrom < n
            /\ cheques[cheques[n].representedFrom].status = "bounced"
            /\ vouchers[n].type = vouchers[cheques[n].representedFrom].type
            /\ vouchers[n].lines = vouchers[cheques[n].representedFrom].lines
        BY <1>1, <1>3, <4>1 DEF RowsSound, ChequesFollowVouchers
      <4>4. cheques'[cheques[n].representedFrom] = cheques[cheques[n].representedFrom]
        BY <1>6, <2>2, <4>2
      <4>5. vouchers'[cheques[n].representedFrom] = vouchers[cheques[n].representedFrom]
            /\ vouchers'[i] = vouchers[n]
        BY <1>3, <1>7, <2>4, <4>2
      <4>6. QED BY <2>4, <4>3, <4>4, <4>5
    <3>4. QED BY <1>4, <3>1, <3>2, <3>3
  <2>5. CASE i \in Ids /\ i # n
    <3>1. cheques'[i] = cheques[i]
      BY <1>6, <2>5
    <3>2. \A r \in Ids : cheques[r].status = "bounced" => cheques'[r].status = "bounced"
      BY <1>6, <1>11
    <3>3. \A r \in Ids : /\ vouchers'[r].reversalOf = vouchers[r].reversalOf
                         /\ vouchers'[r].type = vouchers[r].type
                         /\ vouchers'[r].lines = vouchers[r].lines
      BY <1>7
    <3>4. LET d == cheques[i] IN
            /\ d.status = "bounced" <=> d.bouncedReversal # 0
            /\ d.status = "bounced" =>
                 d.bouncedReversal \in Ids /\ vouchers[d.bouncedReversal].reversalOf = i
            /\ d.representedFrom # 0 =>
                 /\ d.representedFrom < i
                 /\ cheques[d.representedFrom].status = "bounced"
                 /\ vouchers[i].type = vouchers[d.representedFrom].type
                 /\ vouchers[i].lines = vouchers[d.representedFrom].lines
      BY <1>1, <2>5 DEF RowsSound, ChequesFollowVouchers
    <3>5. Ids \subseteq Ids'
      BY <1>7
    <3>6. QED BY <2>1, <2>5, <3>1, <3>2, <3>3, <3>4, <3>5
  <2>6. CASE i = NewId
    BY <1>6, <2>6 DEF NoCheque
  <2>7. QED BY <1>7, <2>4, <2>5, <2>6
<1>18. OneOutstandingRepresentation'
  <2> HIDE DEF v, c
  <2>1. QED BY <1>1, <1>6, <1>7, <1>11 DEF RowsSound, OneOutstandingRepresentation, NoCheque
<1>19. EvidenceCurrent'
  <2>1. \A i \in Ids : vouchers[i].reversalOf # 0 => vouchers[i].reversalOf \in Ids
    BY <1>1, RowType, EarlierRow DEF RowsSound, ReversalNetsToZero, Voucher
  <2>2. \A i \in Ids : cheques[i].representedFrom # 0 => cheques[i].representedFrom \in Ids
    BY <1>1, RowType, EarlierRow DEF RowsSound, ChequesFollowVouchers, Cheque
  <2>3. /\ OpEvent(v).after = EvidenceOf(v)
        /\ OpEvent(v).before.lines = vouchers[n].lines
    BY <1>2, OpFacts DEF OpEvent
  <2>4. SUFFICES ASSUME NEW i \in Ids'
                 PROVE  /\ trail'[i].after = EvidenceOf(vouchers'[i])
                        /\ vouchers'[i].reversalOf # 0
                             => trail'[i].before.lines = vouchers'[vouchers'[i].reversalOf].lines
                        /\ cheques'[i].representedFrom # 0
                             => trail'[i].before.lines
                                  = vouchers'[cheques'[i].representedFrom].lines
    BY DEF EvidenceCurrent, EvidenceOf
  <2> HIDE DEF v, c
  <2>5. CASE i \in Ids
    <3>1. cheques'[i].representedFrom = cheques[i].representedFrom
      BY <1>6, <1>11, <2>5
    <3>2. QED BY <1>1, <1>7, <1>8, <2>1, <2>2, <2>5, <3>1 DEF RowsSound, EvidenceCurrent
  <2>6. CASE i = NewId
    BY <1>3, <1>6, <1>7, <1>8, <1>10, <2>3, <2>6 DEF NoCheque
  <2>7. QED BY <1>7, <2>4, <2>5, <2>6
<1>20. QED
  BY <1>2, <1>9, <1>13, <1>14, <1>15, <1>16, <1>17, <1>18, <1>19 DEF IInv, OpSound

-----------------------------------------------------------------------------
LEMMA InitInv == Init => IInv
<1> SUFFICES ASSUME Init PROVE IInv
  OBVIOUS
<1>0. NoLines \in [Accounts -> Int]
  BY LinesAreInt DEF IntLines
<1>1. YearsTypeOK
  BY DEF Init, YearsInit, YearsTypeOK, YearRow, Snapshot, NoSnapshot, NoLines
<1>2. LedgerTypeOK
  BY <1>0, IdleType DEF Init, LedgerTypeOK
<1>3. Ids = {} /\ op = Idle
  BY DEF Init, Ids
<1>4. QED
  BY <1>1, <1>2, <1>3 DEF IInv, TypeOK, OpSound, DatedInCreated, NumberingSound,
     ReversalNetsToZero, CancellationLinked, ChequesFollowVouchers,
     OneOutstandingRepresentation, EvidenceCurrent, Idle

\* Every step of the specification preserves the inductive invariant.
LEMMA NextInv == IInv /\ [Next]_vars => IInv'
<1> SUFFICES ASSUME IInv, [Next]_vars PROVE IInv'
  OBVIOUS
<1>1. CASE UNCHANGED vars
  <2>1. UNCHANGED <<fy, carried, vouchers, cheques, trail, lastNumber, opening, disabled, op>>
    BY <1>1 DEF vars
  <2>2. TypeOK'
    BY <2>1 DEF IInv, TypeOK, YearsTypeOK, LedgerTypeOK, Snapshot
  <2>3. RowsSound'
    BY <2>1, RowsUntouched DEF IInv, RowsSound, Created
  <2>4. NumberingSound'
    BY <2>1, NumbersUntouched DEF IInv
  <2>5. OpSound'
    BY <2>1 DEF IInv, OpSound, Writable, Created, Correctable, HasReversal,
       MayRepresent, Ids, Flipped, EvidenceOf
  <2>6. QED BY <2>2, <2>3, <2>4, <2>5 DEF IInv, RowsSound
<1>2. CASE Next
  BY <1>2, PostStep, BeginEditStep, BeginReversalStep, BeginRepresentStep, ValidateStep,
     CommitEditStep, CommitReverseStep, CommitCancelStep, CommitBounceStep,
     CommitRepresentStep, AbortStep, DisableAccountStep, AlterAccountStep,
     YearStep DEF Next
<1>3. QED BY <1>1, <1>2

\* The inductive invariant holds in every reachable state.
THEOREM Invariance == Spec => []IInv
BY InitInv, NextInv, PTL DEF Spec
\* The types of the tables, the years and the operation hold throughout.
THEOREM TypeCorrect == Spec => []TypeOK
BY Invariance, PTL DEF IInv

\* Voucher numbers are handed out once and in order, in every series.
THEOREM Numbering == Spec => []NumberingSound
BY Invariance, PTL DEF IInv

\* A voucher has at most one reversal and the reversal negates its lines.
THEOREM Reversal == Spec => []ReversalNetsToZero
BY Invariance, PTL DEF IInv

\* A cancelled voucher and the reversal that cancelled it name each other.
THEOREM Cancellation == Spec => []CancellationLinked
BY Invariance, PTL DEF IInv

\* Cheques follow the vouchers of their bounce and of their presentation.
THEOREM ChequeLinks == Spec => []ChequesFollowVouchers
BY Invariance, PTL DEF IInv

\* A cheque has at most one linked presentation outstanding.
THEOREM Representation == Spec => []OneOutstandingRepresentation
BY Invariance, PTL DEF IInv

\* What an operation was admitted on still holds when it commits.
THEOREM Admission == Spec => []OpSound
BY Invariance, PTL DEF IInv

\* The last audited change of a voucher ends with the voucher as it is, and a
\* reversal's starts with its original, though both were read ahead of time.
THEOREM Evidenced == Spec => []EvidenceCurrent
BY Invariance, PTL DEF IInv
=============================================================================
