------------------------- MODULE VoucherLedger_steps -------------------------
(***************************************************************************)
(* What a step of VoucherLedger may do to the vouchers, from the inductive *)
(* invariant of VoucherLedger_proofs: theorems about its action properties *)
(* and the proof that it implements Books.                                 *)
(***************************************************************************)
EXTENDS VoucherLedger_proofs, SequenceTheorems

\* A step that writes vouchers writes only in years it may write in, moves no
\* voucher to another year, and leaves the years alone.
Writes == /\ UNCHANGED yearVars
          /\ Ids \subseteq Ids'
          /\ \A i \in Ids : /\ vouchers'[i].fy = vouchers[i].fy
                            /\ vouchers'[i] = vouchers[i] \/ Writable(vouchers[i].fy)
          /\ \A i \in Ids' \ Ids : Writable(vouchers'[i].fy)

LEMMA InsertWrites ==
  ASSUME IInv, NEW v, NEW c, NEW before, Insert(v, c, before), Writable(v.fy),
         UNCHANGED yearVars
  PROVE  Writes
<1>1. /\ Ids' = Ids \cup {NewId} /\ vouchers'[NewId] = v
      /\ \A i \in Ids : vouchers'[i] = vouchers[i]
  BY InsertRow DEF IInv
<1>2. QED BY <1>1 DEF Writes

LEMMA PostWrites ==
  ASSUME IInv, NEW d \in Drafts, NEW y \in Years, Post(d, y)
  PROVE  Writes
<1> DEFINE v == [fy |-> y, type |-> d.type, number |-> NextNumber(y, d.type),
                 lines |-> d.lines, status |-> "open", reversalOf |-> 0,
                 cancellationVoucher |-> 0]
<1>1. Writable(v.fy) /\ UNCHANGED yearVars
      /\ Insert(v, ChequeFor(d.cheque), NoEvidence)
  BY DEF Post, Acceptable
<1> HIDE DEF v
<1>2. QED BY <1>1, InsertWrites

\* The year of an operation in flight is writable.
LEMMA OpWritable ==
  ASSUME IInv, op.kind \in Kinds
  PROVE  Writable(op.fy)
BY OpFacts DEF IInv, OpSound

LEMMA CommitEditWrites ==
  ASSUME IInv, CommitEdit
  PROVE  Writes
<1>1. op.kind \in Kinds
  BY DEF CommitEdit, Kinds
<1>2. op.id \in Ids /\ Writable(vouchers[op.id].fy)
  BY <1>1, OpFacts DEF IInv, DatedInCreated, Writable, CommitEdit, TriggersAllow
<1>3. Ids' = Ids /\ vouchers' = [vouchers EXCEPT ![op.id].lines = op.lines]
  BY DEF CommitEdit, IInv, TypeOK, LedgerTypeOK, Ids
<1>4. \A i \in Ids : vouchers[i] \in Voucher
  BY RowType DEF IInv
<1>5. \A i \in Ids : /\ i # op.id => vouchers'[i] = vouchers[i]
                     /\ vouchers'[i].fy = vouchers[i].fy
  <2>1. vouchers \in Seq(Voucher)
    BY DEF IInv, TypeOK, LedgerTypeOK
  <2>2. \A i \in Ids : vouchers'[i] = IF i = op.id
                                      THEN [vouchers[op.id] EXCEPT !.lines = op.lines]
                                      ELSE vouchers[i]
    BY <1>2, <1>3, <2>1 DEF Ids
  <2>3. QED BY <1>2, <1>4, <2>2 DEF Voucher
<1>6. UNCHANGED yearVars
  BY DEF CommitEdit
<1>7. QED BY <1>2, <1>3, <1>5, <1>6 DEF Writes

LEMMA CommitCancelWrites ==
  ASSUME IInv, CommitCancel
  PROVE  Writes
<1> DEFINE m == Cancelled(vouchers[op.id])
           v == OpVoucher(op.id)
<1>1. op.kind \in Kinds
  BY DEF CommitCancel, Kinds
<1>2. op.id \in Ids /\ op.fy \in Years /\ Writable(vouchers[op.id].fy)
  BY <1>1, OpFacts DEF IInv, DatedInCreated, Writable, CommitCancel, TriggersAllow
<1>3. Writable(v.fy)
  BY <1>1, OpWritable DEF OpVoucher
<1>4. vouchers[op.id] \in Voucher /\ NewId \in Nat /\ op.id \in Nat
  BY <1>2, RowType DEF IInv, NewId, TypeOK, LedgerTypeOK
<1>5. m \in Voucher /\ m.fy = vouchers[op.id].fy
  BY <1>4 DEF Voucher, Cancelled
<1>6. v \in Voucher
  BY <1>2, <1>4, OpVoucherType DEF IInv
<1>7. vouchers' = Append([vouchers EXCEPT ![op.id] = m], v)
  BY DEF CommitCancel
<1>8. vouchers \in Seq(Voucher)
  BY DEF IInv, TypeOK, LedgerTypeOK
<1> HIDE DEF m, v
<1>9. /\ Ids' = Ids \cup {NewId}
      /\ \A i \in Ids : vouchers'[i] = IF i = op.id THEN m ELSE vouchers[i]
      /\ vouchers'[NewId] = v
  BY <1>2, <1>5, <1>6, <1>7, <1>8, ReplaceAndAppend DEF Ids, NewId
<1>10. QED BY <1>2, <1>3, <1>5, <1>9 DEF Writes, CommitCancel

LEMMA CommitBounceWrites ==
  ASSUME IInv, CommitBounce
  PROVE  Writes
<1> DEFINE v == OpVoucher(op.id)
<1>1. op.kind \in Kinds
  BY DEF CommitBounce, Kinds
<1>2. op.id \in Ids /\ op.id \in Nat /\ op.fy \in Years
  BY <1>1, OpFacts
<1>3. Writable(v.fy) /\ v \in Voucher
  BY <1>1, <1>2, OpWritable, OpVoucherType DEF OpVoucher, IInv
<1>4. vouchers' = Append(vouchers, v) /\ UNCHANGED yearVars
  BY DEF CommitBounce
<1>5. vouchers \in Seq(Voucher)
  BY DEF IInv, TypeOK, LedgerTypeOK
<1> HIDE DEF v
<1>6. QED BY <1>3, <1>4, <1>5 DEF Writes, Ids, NewId

\* Every step writes so, or leaves the vouchers alone.
LEMMA StepWrites ==
  ASSUME IInv, [Next]_vars
  PROVE  \/ Writes
         \/ UNCHANGED vouchers /\ (UNCHANGED carried \/ YearAction)
<1>1. CASE CommitReverse
  BY <1>1, OpWritable, InsertWrites DEF CommitReverse, Kinds, OpVoucher
<1>2. CASE CommitRepresent
  BY <1>2, OpWritable, InsertWrites DEF CommitRepresent, Kinds, OpVoucher
<1>3. CASE \/ Validate \/ Abort \/ UNCHANGED vars
           \/ \E a \in Disabling : DisableAccount(a)
           \/ \E a \in Accounts : \E n \in Openings[a] : AlterAccount(a, n)
           \/ \E i \in Ids, d \in Drafts : BeginEdit(i, d)
           \/ \E i \in Ids, kind \in {"reverse", "cancel", "bounce"} : BeginReversal(kind, i)
           \/ \E i \in Ids, y \in Years : BeginRepresent(i, y)
  BY <1>3 DEF Validate, Abort, vars, DisableAccount, AlterAccount, SaveAccount,
     BeginEdit, BeginReversal, BeginRepresent, yearVars, ledgerVars
<1>4. CASE YearAction
  BY <1>4 DEF YearAction, ledgerVars
<1>5. QED BY <1>1, <1>2, <1>3, <1>4, PostWrites, CommitEditWrites, CommitCancelWrites,
          CommitBounceWrites DEF Next

-----------------------------------------------------------------------------
\* A locked year holds the same vouchers after a step as before it.
LEMMA LockedStep ==
  ASSUME IInv, [Next]_vars, NEW y \in Years, fy[y].locked
  PROVE  {<<i, vouchers[i]>> : i \in {j \in Ids : vouchers[j].fy = y}}'
           = {<<i, vouchers[i]>> : i \in {j \in Ids : vouchers[j].fy = y}}
<1>1. CASE UNCHANGED vouchers
  BY <1>1 DEF Ids
<1>2. CASE Writes
  <2>1. {j \in Ids' : vouchers'[j].fy = y} = {j \in Ids : vouchers[j].fy = y}
    BY <1>2 DEF Writes, Writable
  <2>2. \A j \in Ids : vouchers[j].fy = y => vouchers'[j] = vouchers[j]
    BY <1>2 DEF Writes, Writable
  <2>3. QED BY <2>1, <2>2
<1>3. QED BY <1>1, <1>2, StepWrites

\* While a year is locked no step adds, changes or cancels a voucher in it.
THEOREM LockedFrozen == Spec => LockedYearFrozen
<1>1. IInv /\ [Next]_vars =>
        [\A y \in Years : fy[y].locked =>
           {<<i, vouchers[i]>> : i \in {j \in Ids : vouchers[j].fy = y}}'
             = {<<i, vouchers[i]>> : i \in {j \in Ids : vouchers[j].fy = y}}]_vars
  BY LockedStep
<1>2. QED BY <1>1, Invariance, PTL DEF Spec, LockedYearFrozen

-----------------------------------------------------------------------------
\* A step that changes an account's opening balance changes nothing else that
\* snapshots depend on, and is taken only while no year is locked.
LEMMA OpeningStep ==
  ASSUME IInv, [Next]_vars
  PROVE  \/ opening' = opening
         \/ UNCHANGED <<vouchers, carried>> /\ \A y \in Years : ~fy[y].locked
<1>1. CASE \E a \in Accounts : \E n \in Openings[a] : AlterAccount(a, n)
  <2>0. PICK a \in Accounts : \E n \in Openings[a] : AlterAccount(a, n)
    BY <1>1
  <2>1. PICK n \in Openings[a] : AlterAccount(a, n)
    BY <2>0
  <2>2. opening' = [opening EXCEPT ![a] = n] /\ UNCHANGED <<vouchers, carried>>
    BY <2>1 DEF AlterAccount, SaveAccount, yearVars, ledgerVars
  <2>3. CASE n = opening[a]
    <3>1. opening \in [Accounts -> Int]
      BY DEF IInv, TypeOK, LedgerTypeOK
    <3>2. QED BY <2>2, <2>3, <3>1
  <2>4. CASE n # opening[a]
    BY <2>1, <2>2, <2>4 DEF AlterAccount
  <2>5. QED BY <2>3, <2>4
<1>2. CASE \/ \E d \in Drafts, y \in Years : Post(d, y)
           \/ CommitEdit \/ CommitReverse \/ CommitCancel
           \/ CommitBounce \/ CommitRepresent
  BY <1>2 DEF Post, CommitEdit, CommitReverse, CommitCancel, CommitBounce,
     CommitRepresent, accountVars
<1>3. CASE \/ Validate \/ Abort \/ UNCHANGED vars \/ YearAction
           \/ \E a \in Disabling : DisableAccount(a)
           \/ \E i \in Ids, d \in Drafts : BeginEdit(i, d)
           \/ \E i \in Ids, kind \in {"reverse", "cancel", "bounce"} : BeginReversal(kind, i)
           \/ \E i \in Ids, y \in Years : BeginRepresent(i, y)
  BY <1>3 DEF Validate, Abort, vars, YearAction, DisableAccount, BeginEdit,
     BeginReversal, BeginRepresent, accountVars
<1>4. QED BY <1>1, <1>2, <1>3 DEF Next

\* A snapshot that appears is the closing balance of the year before.
LEMMA PublishStep ==
  ASSUME IInv, [Next]_vars, NEW t \in Years,
         carried'[t].source # 0, carried'[t] # carried[t]
  PROVE  /\ UNCHANGED <<vouchers, opening>>
         /\ \E s \in Created : /\ IsNextYear(s, t) /\ carried'[t].source = s
                               /\ carried'[t].balance = ClosingBalance(s)
<1>1. UNCHANGED vouchers /\ YearAction /\ carried' # carried
  BY StepWrites DEF Writes, yearVars
<1>2. UNCHANGED opening
  BY <1>1 DEF YearAction, accountVars
<1>3. PICK s \in Years : CloseYear(s, ClosingBalance(s)) \/ ReopenYear(s)
  BY <1>1 DEF YearAction, CreateYear, LockYear, UnlockYear
<1>4. ~ReopenYear(s)
  BY DEF ReopenYear, IInv, TypeOK, YearsTypeOK, NoSnapshot, Created
<1>5. PICK u \in Created :
        /\ s \in Created /\ IsNextYear(s, u)
        /\ carried' = [carried EXCEPT ![u] = [source |-> s, balance |-> ClosingBalance(s)]]
  BY <1>3, <1>4 DEF CloseYear
<1>6. u = t /\ carried'[t].balance = ClosingBalance(s) /\ carried'[t].source = s
  BY <1>5 DEF IInv, TypeOK, YearsTypeOK, Created
<1>7. QED BY <1>1, <1>2, <1>5, <1>6

\* A snapshot was carried from an earlier year, and years are never deleted.
CarriedForward ==
  \A t \in Years : carried[t].source # 0
                     => carried[t].source \in Created /\ carried[t].source < t

LEMMA CarriedFrom == Spec => [](IInv /\ CarriedForward)
<1>1. Init => CarriedForward
  BY DEF Init, YearsInit, NoSnapshot, CarriedForward
<1>2. IInv /\ CarriedForward /\ [Next]_vars => CarriedForward'
  <2> SUFFICES ASSUME IInv, CarriedForward, [Next]_vars,
                      NEW t \in Years, carried'[t].source # 0
               PROVE  carried'[t].source \in Created' /\ carried'[t].source < t
    BY DEF CarriedForward
  <2>1. Created \subseteq Created'
    <3>1. fy \in [Years -> YearRow]
      BY DEF IInv, TypeOK, YearsTypeOK
    <3>2. CASE UNCHANGED fy
      BY <3>2 DEF Created
    <3>3. CASE YearAction
      BY <3>1, <3>3 DEF YearAction, CreateYear, LockYear, UnlockYear, CloseYear,
         ReopenYear, Created, YearRow
    <3>4. QED BY <3>2, <3>3 DEF Next, vars, Post, BeginEdit, CommitEdit, BeginReversal,
              BeginRepresent, Validate, CommitReverse, CommitCancel, CommitBounce,
              CommitRepresent, Abort, DisableAccount, AlterAccount, SaveAccount, yearVars
  <2>2. CASE carried'[t] = carried[t]
    BY <2>1, <2>2 DEF CarriedForward
  <2>3. CASE carried'[t] # carried[t]
    BY <2>1, <2>3, PublishStep DEF IsNextYear
  <2>4. QED BY <2>2, <2>3
<1>3. QED BY <1>1, <1>2, Invariance, PTL DEF Spec

\* The years up to s hold what is before the year that follows s.
LEMMA ClosingIsHistory ==
  ASSUME IInv, NEW s \in Years, NEW t \in Years, IsNextYear(s, t)
  PROVE  Contributions(s) = HistoryBefore(t)
<1>1. \A i \in Ids : vouchers[i].fy \in Created /\ vouchers[i].fy \in Nat
  BY YearsAssumption DEF IInv, DatedInCreated, Created
<1>2. s \in Nat /\ t \in Nat
  BY YearsAssumption
<1>3. \A i \in Ids : vouchers[i].fy =< s <=> vouchers[i].fy < t
  BY <1>1, <1>2 DEF IsNextYear
<1>4. QED BY <1>3 DEF Contributions, HistoryBefore

\* With every earlier year locked, no step changes the history before a year.
LEMMA HistoryKept ==
  ASSUME IInv, [Next]_vars, NEW t \in Years, LockedBefore(t)
  PROVE  HistoryBefore(t)' = HistoryBefore(t)
<1>1. CASE UNCHANGED vouchers
  BY <1>1 DEF HistoryBefore, Ids
<1>2. CASE Writes
  <2>1. \A j \in Ids : vouchers[j].fy < t => vouchers'[j] = vouchers[j]
    BY <1>2 DEF Writes, LockedBefore, Writable
  <2>2. \A j \in Ids' \ Ids : ~(vouchers'[j].fy < t)
    BY <1>2 DEF Writes, LockedBefore, Writable
  <2>3. {j \in Ids' : vouchers'[j].fy < t} = {j \in Ids : vouchers[j].fy < t}
    BY <1>2, <2>2, <2>1 DEF Writes
  <2>4. QED BY <2>1, <2>3 DEF HistoryBefore
<1>3. QED BY <1>1, <1>2, StepWrites

LEMMA ExactStep ==
  ASSUME IInv, CarriedForward, [Next]_vars, NEW t \in Years, carried'[t].source # 0,
         carried'[t] # carried[t] \/ (OpeningExact(t) /\ LockedBefore(t))
  PROVE  OpeningExact(t)'
<1>1. CASE carried'[t] # carried[t]
  <2>1. PICK s \in Created : IsNextYear(s, t) /\ carried'[t].balance = ClosingBalance(s)
    BY <1>1, PublishStep
  <2>2. UNCHANGED <<vouchers, opening>>
    BY <1>1, PublishStep
  <2>3. HistoryBefore(t)' = Contributions(s)
    <3>1. HistoryBefore(t)' = HistoryBefore(t)
      BY <2>2 DEF HistoryBefore, Ids
    <3>2. QED BY <2>1, <3>1, ClosingIsHistory DEF Created
  <2>4. QED BY <2>1, <2>2, <2>3 DEF OpeningExact, ClosingBalance
<1>2. CASE carried'[t] = carried[t]
  <2>1. OpeningExact(t) /\ LockedBefore(t) /\ carried[t].source # 0
    BY <1>2
  <2>2. fy[carried[t].source].locked /\ carried[t].source \in Years
    BY <2>1 DEF CarriedForward, LockedBefore, Created
  <2>3. opening' = opening
    BY <2>2, OpeningStep
  <2>4. HistoryBefore(t)' = HistoryBefore(t)
    BY <2>1, HistoryKept
  <2>5. QED BY <1>2, <2>1, <2>3, <2>4 DEF OpeningExact
<1>3. QED BY <1>1, <1>2

\* A published snapshot is, account by account, the opening balance and the
\* whole history before its year, and while every earlier year is locked no
\* voucher operation, year operation or account change makes it stale.
THEOREM OpeningExactness == Spec => OpeningExactWhileLocked
<1>1. IInv /\ CarriedForward /\ [Next]_vars =>
        [\A t \in Years :
           /\ carried'[t].source # 0
           /\ carried'[t] # carried[t] \/ (OpeningExact(t) /\ LockedBefore(t))
           => OpeningExact(t)']_vars
  BY ExactStep
<1>2. QED BY <1>1, CarriedFrom, PTL DEF Spec, OpeningExactWhileLocked

-----------------------------------------------------------------------------
\* A step that keeps every row but those of the vouchers in S.
KeepsBut(S) == \A i \in Ids \ S : /\ vouchers'[i] = vouchers[i]
                                  /\ cheques'[i] = cheques[i]
                                  /\ trail'[i] = trail[i]

LEMMA InsertKeeps ==
  ASSUME IInv, NEW v, NEW c, NEW before, Insert(v, c, before)
  PROVE  KeepsBut({})
<1>1. \A i \in Ids : /\ vouchers'[i] = vouchers[i]
                     /\ cheques'[i] = cheques[i]
                     /\ trail'[i] = trail[i]
  BY InsertRow DEF IInv
<1>2. QED BY <1>1 DEF KeepsBut

LEMMA EditKeeps ==
  ASSUME IInv, CommitEdit
  PROVE  KeepsBut({op.id})
<1>1. /\ vouchers \in Seq(Voucher) /\ cheques \in Seq(Cheque) /\ trail \in Seq(Event)
      /\ DOMAIN vouchers = Ids /\ DOMAIN cheques = Ids /\ DOMAIN trail = Ids
  BY DEF IInv, TypeOK, LedgerTypeOK, Ids
<1>2. QED BY <1>1 DEF CommitEdit, KeepsBut

\* Appending to a table in which one row is replaced keeps the other rows.
LEMMA OthersKept ==
  ASSUME NEW S, NEW s \in Seq(S), NEW n \in 1..Len(s), NEW e, NEW f
  PROVE  \A i \in 1..Len(s) \ {n} : Append([s EXCEPT ![n] = e], f)[i] = s[i]
<1>1. s \in Seq(S \cup {e, f})
  OBVIOUS
<1>2. QED BY <1>1, ReplaceAndAppend

\* Cancelling and bouncing write the row of their own voucher, and add one.
LEMMA ReversalKeeps ==
  ASSUME IInv, CommitCancel \/ CommitBounce
  PROVE  KeepsBut({op.id})
<1>1. /\ vouchers \in Seq(Voucher) /\ cheques \in Seq(Cheque) /\ trail \in Seq(Event)
      /\ Ids = 1..Len(vouchers) /\ Len(cheques) = Len(vouchers) /\ Len(trail) = Len(vouchers)
  BY DEF IInv, TypeOK, LedgerTypeOK, Ids
<1>2. op.id \in Ids
  BY OpFacts DEF CommitCancel, CommitBounce, Kinds
<1>3. CASE CommitCancel
  <2> DEFINE m == Cancelled(vouchers[op.id])
             e == [before |-> op.seen, after |-> [op.seen EXCEPT !.status = "cancelled"]]
  <2>1. /\ vouchers' = Append([vouchers EXCEPT ![op.id] = m], OpVoucher(op.id))
        /\ trail' = Append([trail EXCEPT ![op.id] = e], OpEvent(OpVoucher(op.id)))
        /\ cheques' = Append(cheques, NoCheque)
    BY <1>3 DEF CommitCancel
  <2> HIDE DEF m, e
  <2>2. \A i \in Ids : cheques'[i] = cheques[i]
    BY <1>1, <2>1
  <2>3. \A i \in Ids \ {op.id} : vouchers'[i] = vouchers[i] /\ trail'[i] = trail[i]
    BY <1>1, <1>2, <2>1, OthersKept
  <2>4. QED BY <2>2, <2>3 DEF KeepsBut
<1>4. CASE CommitBounce
  <2> DEFINE c == [cheques[op.id] EXCEPT !.status = "bounced", !.bouncedReversal = NewId]
             v == OpVoucher(op.id)
  <2>1. vouchers' = Append(vouchers, v) /\ trail' = Append(trail, OpEvent(v))
    BY <1>4 DEF CommitBounce
  <2>2. cheques' = Append([cheques EXCEPT ![op.id] = c], NoCheque)
    BY <1>4 DEF CommitBounce
  <2> HIDE DEF c, v
  <2>3. \A i \in Ids : vouchers'[i] = vouchers[i] /\ trail'[i] = trail[i]
    BY <1>1, <2>1
  <2>4. \A i \in Ids \ {op.id} : cheques'[i] = cheques[i]
    BY <1>1, <1>2, <2>2, OthersKept
  <2>5. QED BY <2>3, <2>4 DEF KeepsBut
<1>5. QED BY <1>3, <1>4

\* Only a voucher that nothing corrects is written again.
LEMMA StepKeeps ==
  ASSUME IInv, [Next]_vars, NEW i \in Ids, vouchers[i].reversalOf # 0 \/ HasReversal(i)
  PROVE  vouchers'[i] = vouchers[i] /\ cheques'[i] = cheques[i] /\ trail'[i] = trail[i]
<1>1. CASE \/ \E d \in Drafts, y \in Years : Post(d, y)
           \/ CommitReverse \/ CommitRepresent
  BY <1>1, InsertKeeps DEF Post, CommitReverse, CommitRepresent, KeepsBut
<1>2. CASE CommitEdit \/ CommitCancel \/ CommitBounce
  <2>1. op.kind \in Kinds /\ op.kind # "represent"
    BY <1>2 DEF CommitEdit, CommitCancel, CommitBounce, Kinds
  <2>2. i # op.id
    BY <2>1, OpFacts DEF Correctable
  <2>3. QED BY <1>2, <2>2, EditKeeps, ReversalKeeps DEF KeepsBut
<1>3. CASE UNCHANGED ledgerVars
  BY <1>3 DEF ledgerVars
<1>4. CASE \E j \in Ids, kind \in {"reverse", "cancel", "bounce"} : BeginReversal(kind, j)
  BY <1>4 DEF BeginReversal
<1>5. CASE \E j \in Ids, y \in Years : BeginRepresent(j, y)
  BY <1>5 DEF BeginRepresent
<1>6. QED BY <1>1, <1>2, <1>3, <1>4, <1>5
      DEF Next, Validate, Abort, vars, YearAction, DisableAccount, AlterAccount,
          SaveAccount, BeginEdit, ledgerVars

\* What has been corrected is never written again: no row, cheque or audited
\* snapshot of a voucher that is a reversal or has one.
THEOREM Corrected == Spec => CorrectedForGood
<1>1. IInv /\ [Next]_vars =>
        [\A i \in Ids : vouchers[i].reversalOf # 0 \/ HasReversal(i) =>
           /\ vouchers'[i] = vouchers[i]
           /\ cheques'[i] = cheques[i]
           /\ trail'[i] = trail[i]]_vars
  BY StepKeeps
<1>2. QED BY <1>1, Invariance, PTL DEF Spec, CorrectedForGood

-----------------------------------------------------------------------------
\* An edit and a cancellation report as before what the last event reported
\* as after; no other operation reports anything of a voucher that was there.
LEMMA ChainStep ==
  ASSUME IInv, [Next]_vars, NEW i \in Ids, trail'[i] # trail[i]
  PROVE  trail'[i].before = trail[i].after
<1>1. CASE \/ \E d \in Drafts, y \in Years : Post(d, y)
           \/ CommitReverse \/ CommitRepresent
  BY <1>1, InsertKeeps DEF Post, CommitReverse, CommitRepresent, KeepsBut
<1>2. CASE CommitEdit \/ CommitCancel \/ CommitBounce
  <2>1. op.kind \in Kinds
    BY <1>2 DEF CommitEdit, CommitCancel, CommitBounce, Kinds
  <2>2. i = op.id
    BY <1>2, EditKeeps, ReversalKeeps DEF KeepsBut
  <2>3. trail[i].after = op.seen
    BY <2>1, <2>2, OpFacts DEF IInv, EvidenceCurrent
  <2>4. trail \in Seq(Event) /\ Len(trail) = Len(vouchers) /\ i \in 1..Len(trail)
    BY DEF IInv, TypeOK, LedgerTypeOK, Ids
  <2>5. CASE CommitEdit
    <3>1. trail'[i] = [before |-> op.seen, after |-> EditedEvidence]
      BY <2>2, <2>4, <2>5 DEF CommitEdit
    <3>2. QED BY <2>3, <3>1
  <2>6. CASE CommitCancel
    <3> DEFINE e == [before |-> op.seen, after |-> [op.seen EXCEPT !.status = "cancelled"]]
               f == OpEvent(OpVoucher(op.id))
    <3>1. trail' = Append([trail EXCEPT ![i] = e], f)
      BY <2>2, <2>6 DEF CommitCancel
    <3>2. e.before = op.seen
      OBVIOUS
    <3> HIDE DEF e, f
    <3>3. trail \in Seq(Event \cup {e, f})
      BY <2>4
    <3>4. trail'[i] = e
      BY <2>4, <3>1, <3>3, ReplaceAndAppend
    <3>5. QED BY <2>3, <3>2, <3>4
  <2>7. CASE CommitBounce
    BY <2>4, <2>7 DEF CommitBounce
  <2>8. QED BY <1>2, <2>5, <2>6, <2>7
<1>3. CASE UNCHANGED trail
  BY <1>3
<1>4. QED BY <1>1, <1>2, <1>3
      DEF Next, Validate, Abort, vars, YearAction, DisableAccount, AlterAccount,
          SaveAccount, BeginEdit, BeginReversal, BeginRepresent, ledgerVars

\* Every audited change of a voucher starts where the one before it ended.
THEOREM Chained == Spec => EvidenceChained
<1>1. IInv /\ [Next]_vars =>
        [\A i \in Ids : trail'[i] # trail[i] => trail'[i].before = trail[i].after]_vars
  BY ChainStep
<1>2. QED BY <1>1, Invariance, PTL DEF Spec, EvidenceChained

-----------------------------------------------------------------------------
(* VoucherLedger implements Books: every step that writes vouchers is an   *)
(* Enter, an Amend or an Offset of Books, and every other step at most     *)
(* changes the frozen years.                                               *)

BookEntry == [fy : Years, lines : LineSet, offsets : Nat]

LEMMA EntryType ==
  ASSUME NEW v \in Voucher
  PROVE  EntryOf(v) \in BookEntry
BY DEF EntryOf, BookEntry, Voucher

LEMMA EntriesType ==
  ASSUME TypeOK
  PROVE  /\ BookEntries \in Seq(BookEntry) /\ Len(BookEntries) = Len(vouchers)
         /\ DOMAIN BookEntries = Ids
         /\ \A i \in Ids : BookEntries[i] = EntryOf(vouchers[i])
<1>1. \A i \in Ids : EntryOf(vouchers[i]) \in BookEntry
  BY RowType, EntryType
<1>2. Len(vouchers) \in Nat
  BY DEF TypeOK, LedgerTypeOK
<1>3. QED BY <1>1, <1>2 DEF BookEntries, Ids

\* A row added to the vouchers is an entry added to the books.
LEMMA EntryAdded ==
  ASSUME IInv, IInv', NEW v \in Voucher, Len(vouchers') = Len(vouchers) + 1,
         vouchers'[NewId] = v, \A i \in Ids : EntryOf(vouchers'[i]) = EntryOf(vouchers[i])
  PROVE  BookEntries' = Append(BookEntries, EntryOf(v))
<1> DEFINE b == BookEntries
           c == BookEntries'
           e == EntryOf(v)
<1>1. /\ b \in Seq(BookEntry) /\ Len(b) = Len(vouchers)
      /\ \A i \in Ids : b[i] = EntryOf(vouchers[i])
  BY EntriesType DEF IInv
<1>2. /\ c \in Seq(BookEntry) /\ Len(c) = Len(vouchers')
      /\ \A i \in Ids' : c[i] = EntryOf(vouchers'[i])
  <2>1. \A i \in Ids' : vouchers'[i] \in Voucher
    BY DEF IInv, TypeOK, LedgerTypeOK, Ids
  <2>2. \A i \in Ids' : EntryOf(vouchers'[i]) \in BookEntry
    BY <2>1, EntryType
  <2>3. c = [i \in Ids' |-> EntryOf(vouchers'[i])]
    BY DEF BookEntries
  <2>4. Ids' = 1..Len(vouchers') /\ Len(vouchers') \in Nat
    BY DEF IInv, TypeOK, LedgerTypeOK, Ids
  <2> HIDE DEF c
  <2>5. DOMAIN c = Ids' /\ \A i \in Ids' : c[i] = EntryOf(vouchers'[i])
    BY <2>3
  <2>6. c \in Seq(BookEntry) /\ Len(c) = Len(vouchers')
    BY <2>2, <2>3, <2>4
  <2>7. QED BY <2>5, <2>6
<1>3. e \in BookEntry
  BY EntryType
<1>4. Len(vouchers) \in Nat /\ Len(vouchers') = Len(vouchers) + 1
  BY DEF IInv, TypeOK, LedgerTypeOK
<1>5. NewId = Len(vouchers) + 1 /\ Ids = 1..Len(vouchers)
  BY DEF NewId, Ids
<1>6. \A i \in 1..Len(c) : c[i] = IF i = Len(b) + 1 THEN e ELSE b[i]
  <2>1. Ids' = 1..Len(vouchers')
    BY DEF Ids
  <2>2. QED BY <1>1, <1>2, <1>4, <1>5, <2>1
<1> HIDE DEF b, c, e
<1>7. /\ Append(b, e) \in Seq(BookEntry) /\ Len(Append(b, e)) = Len(b) + 1
      /\ \A i \in 1..Len(b) : Append(b, e)[i] = b[i]
      /\ Append(b, e)[Len(b) + 1] = e
  BY <1>1, <1>3, AppendProperties
<1>8. Len(c) = Len(Append(b, e)) /\ \A i \in 1..Len(c) : c[i] = Append(b, e)[i]
  BY <1>1, <1>2, <1>4, <1>6, <1>7
<1>9. c = Append(b, e)
  BY <1>2, <1>7, <1>8, SeqEqual
<1>10. QED BY <1>9 DEF b, c, e

-----------------------------------------------------------------------------
\* A step that keeps the vouchers at most changes the frozen years.
LEMMA FreezeStep ==
  ASSUME UNCHANGED vouchers
  PROVE  BooksOfLedger!BooksNext
BY DEF BooksOfLedger!BooksNext, BooksOfLedger!Freeze, BookEntries, LockedYears, Ids

\* A new voucher that reverses none is an entry made.
LEMMA EnterStep ==
  ASSUME IInv, IInv', NEW v \in Voucher, Len(vouchers') = Len(vouchers) + 1,
         vouchers'[NewId] = v, \A i \in Ids : EntryOf(vouchers'[i]) = EntryOf(vouchers[i]),
         v.reversalOf = 0, Balanced(v.lines), Writable(v.fy), UNCHANGED fy
  PROVE  BooksOfLedger!BooksNext
<1>1. BookEntries' = Append(BookEntries, [fy |-> v.fy, lines |-> v.lines, offsets |-> 0])
  BY EntryAdded DEF EntryOf
<1>2. v.fy \in Years \ LockedYears /\ v.lines \in LineSet
  BY DEF Writable, LockedYears, Voucher
<1>3. BooksOfLedger!Enter
  BY <1>1, <1>2 DEF BooksOfLedger!Enter
<1>4. QED BY <1>3 DEF BooksOfLedger!BooksNext, BooksOfLedger!Write, LockedYears

\* A voucher nothing corrects is an entry that stands.
LEMMA StandingEntry ==
  ASSUME TypeOK, NEW n \in Ids, Correctable(n)
  PROVE  n \in DOMAIN BookEntries /\ BooksOfLedger!Standing(n)
BY EntriesType DEF Correctable, HasReversal, BooksOfLedger!Standing, EntryOf

\* A reversal of a voucher nothing corrects is an offset of its entry.
LEMMA OffsetStep ==
  ASSUME IInv, IInv', NEW v \in Voucher, Len(vouchers') = Len(vouchers) + 1,
         vouchers'[NewId] = v, \A i \in Ids : EntryOf(vouchers'[i]) = EntryOf(vouchers[i]),
         NEW n \in Ids, Correctable(n), v.reversalOf = n,
         v.lines = Flipped(vouchers[n].lines), Writable(v.fy), UNCHANGED fy
  PROVE  BooksOfLedger!BooksNext
<1>1. n \in DOMAIN BookEntries /\ BooksOfLedger!Standing(n)
      /\ BookEntries[n].lines = vouchers[n].lines
  BY StandingEntry, EntriesType DEF IInv, EntryOf
<1>2. BookEntries' = Append(BookEntries, [fy |-> v.fy, lines |-> Flipped(BookEntries[n].lines),
                                          offsets |-> n])
  BY <1>1, EntryAdded DEF EntryOf
<1>3. v.fy \in Years \ LockedYears
  BY DEF Writable, LockedYears, Voucher
<1>4. BooksOfLedger!Offset
  BY <1>1, <1>2, <1>3 DEF BooksOfLedger!Offset
<1>5. QED BY <1>4 DEF BooksOfLedger!BooksNext, BooksOfLedger!Write, LockedYears

-----------------------------------------------------------------------------
\* Appending a voucher.
LEMMA AppendedVoucher ==
  ASSUME IInv, NEW v \in Voucher, vouchers' = Append(vouchers, v)
  PROVE  /\ Len(vouchers') = Len(vouchers) + 1
         /\ vouchers'[NewId] = v
         /\ \A i \in Ids : vouchers'[i] = vouchers[i]
BY DEF IInv, TypeOK, LedgerTypeOK, Ids, NewId

LEMMA PostBooks ==
  ASSUME IInv, IInv', NEW d \in Drafts, NEW y \in Years, Post(d, y)
  PROVE  BooksOfLedger!BooksNext
<1> DEFINE v == [fy |-> y, type |-> d.type, number |-> NextNumber(y, d.type),
                 lines |-> d.lines, status |-> "open", reversalOf |-> 0,
                 cancellationVoucher |-> 0]
<1>1. Insert(v, ChequeFor(d.cheque), NoEvidence) /\ UNCHANGED fy
  BY DEF Post, yearVars
<1>2. v.reversalOf = 0 /\ Balanced(v.lines) /\ Writable(v.fy)
  BY DEF Post, Acceptable, WellFormed
<1>3. d.type \in Types /\ d.lines \in LineSet /\ NextNumber(y, d.type) \in Nat
  BY DraftType DEF IInv, TypeOK, LedgerTypeOK, NextNumber
<1>4. v \in Voucher
  BY <1>3 DEF Voucher
<1> HIDE DEF v
<1>5. vouchers' = Append(vouchers, v)
  BY <1>1 DEF Insert
<1>6. QED BY <1>1, <1>2, <1>4, <1>5, AppendedVoucher, EnterStep

\* The voucher of an operation in flight.
LEMMA OpVoucherFacts ==
  ASSUME IInv, op.kind \in Kinds, NEW r \in Nat
  PROVE  /\ OpVoucher(r) \in Voucher
         /\ Writable(OpVoucher(r).fy)
         /\ OpVoucher(r).reversalOf = r
         /\ OpVoucher(r).lines = op.lines
<1>1. TypeOK /\ op.fy \in Years /\ op.id \in Ids
  BY OpFacts DEF IInv
<1>2. QED BY <1>1, OpVoucherType, OpWritable DEF OpVoucher

LEMMA CommitReverseBooks ==
  ASSUME IInv, IInv', CommitReverse \/ CommitBounce
  PROVE  BooksOfLedger!BooksNext
<1> DEFINE v == OpVoucher(op.id)
<1>1. op.kind \in {"reverse", "bounce"} /\ op.kind \in Kinds
      /\ vouchers' = Append(vouchers, v) /\ UNCHANGED fy
  BY DEF CommitReverse, CommitBounce, Insert, Kinds, yearVars
<1>2. op.id \in Ids /\ op.id \in Nat /\ Correctable(op.id)
      /\ op.lines = Flipped(vouchers[op.id].lines)
  BY <1>1, OpFacts
<1>3. v \in Voucher /\ Writable(v.fy) /\ v.reversalOf = op.id /\ v.lines = op.lines
  BY <1>1, <1>2, OpVoucherFacts
<1> HIDE DEF v
<1>4. QED BY <1>1, <1>2, <1>3, AppendedVoucher, OffsetStep

LEMMA CommitRepresentBooks ==
  ASSUME IInv, IInv', CommitRepresent
  PROVE  BooksOfLedger!BooksNext
<1> DEFINE v == OpVoucher(0)
<1>1. op.kind = "represent" /\ op.valid /\ op.kind \in Kinds
      /\ vouchers' = Append(vouchers, v) /\ UNCHANGED fy
  BY DEF CommitRepresent, Insert, Kinds, yearVars
<1>2. Balanced(op.lines)
  BY <1>1, OpFacts DEF IInv, OpSound
<1>3. v \in Voucher /\ Writable(v.fy) /\ v.reversalOf = 0 /\ v.lines = op.lines
  BY <1>1, OpVoucherFacts
<1> HIDE DEF v
<1>4. QED BY <1>1, <1>2, <1>3, AppendedVoucher, EnterStep

LEMMA CommitCancelBooks ==
  ASSUME IInv, IInv', CommitCancel
  PROVE  BooksOfLedger!BooksNext
<1> DEFINE v == OpVoucher(op.id)
           m == Cancelled(vouchers[op.id])
<1>1. op.kind = "cancel" /\ op.kind \in Kinds
      /\ vouchers' = Append([vouchers EXCEPT ![op.id] = m], v) /\ UNCHANGED fy
  BY DEF CommitCancel, Kinds, yearVars
<1>2. op.id \in Ids /\ op.id \in Nat /\ Correctable(op.id)
      /\ op.lines = Flipped(vouchers[op.id].lines) /\ vouchers[op.id] \in Voucher
  BY <1>1, OpFacts
<1>3. v \in Voucher /\ Writable(v.fy) /\ v.reversalOf = op.id /\ v.lines = op.lines
  BY <1>1, <1>2, OpVoucherFacts
<1>4. m \in Voucher /\ EntryOf(m) = EntryOf(vouchers[op.id])
  <2>1. NewId \in Nat
    BY DEF IInv, TypeOK, LedgerTypeOK, NewId
  <2>2. QED BY <1>2, <2>1 DEF Voucher, EntryOf, Cancelled
<1>5. vouchers \in Seq(Voucher)
  BY DEF IInv, TypeOK, LedgerTypeOK
<1> HIDE DEF m, v
<1>6. /\ Len(vouchers') = Len(vouchers) + 1
      /\ \A i \in Ids : vouchers'[i] = IF i = op.id THEN m ELSE vouchers[i]
      /\ vouchers'[NewId] = v
  BY <1>1, <1>2, <1>3, <1>4, <1>5, ReplaceAndAppend DEF Ids, NewId
<1>7. \A i \in Ids : EntryOf(vouchers'[i]) = EntryOf(vouchers[i])
  BY <1>4, <1>6
<1>8. QED BY <1>1, <1>2, <1>3, <1>6, <1>7, OffsetStep

LEMMA CommitEditBooks ==
  ASSUME IInv, IInv', CommitEdit
  PROVE  BooksOfLedger!BooksNext
<1> DEFINE n == op.id
<1>1. op.kind = "edit" /\ op.kind \in Kinds /\ UNCHANGED fy
      /\ vouchers' = [vouchers EXCEPT ![n].lines = op.lines]
      /\ ~fy[vouchers[n].fy].locked
  BY DEF CommitEdit, Kinds, yearVars, TriggersAllow
<1>2. n \in Ids /\ Correctable(n) /\ vouchers[n] \in Voucher /\ op.lines \in LineSet
  BY <1>1, OpFacts
<1>3. Balanced(op.lines)
  BY <1>1, OpFacts DEF IInv, OpSound
<1>4. n \in DOMAIN BookEntries /\ BooksOfLedger!Standing(n)
      /\ BookEntries[n].fy \notin LockedYears
  BY <1>1, <1>2, StandingEntry, EntriesType DEF IInv, EntryOf, LockedYears
<1>5. BookEntries' = [BookEntries EXCEPT ![n].lines = op.lines]
  <2>1. vouchers \in Seq(Voucher)
    BY DEF IInv, TypeOK, LedgerTypeOK
  <2>2. Ids' = Ids
    BY <1>1, <1>2, <2>1 DEF Ids
  <2>3. \A i \in Ids : vouchers'[i] = IF i = n THEN [vouchers[n] EXCEPT !.lines = op.lines]
                                              ELSE vouchers[i]
    BY <1>1, <1>2, <2>1 DEF Ids
  <2>4. EntryOf([vouchers[n] EXCEPT !.lines = op.lines])
          = [EntryOf(vouchers[n]) EXCEPT !.lines = op.lines]
    BY <1>2 DEF EntryOf, Voucher
  <2>5. \A i \in Ids : EntryOf(vouchers'[i])
                         = IF i = n THEN [EntryOf(vouchers[n]) EXCEPT !.lines = op.lines]
                                    ELSE EntryOf(vouchers[i])
    BY <2>3, <2>4
  <2>6. QED BY <1>2, <2>2, <2>5 DEF BookEntries
<1>6. BooksOfLedger!Amend
  BY <1>2, <1>3, <1>4, <1>5 DEF BooksOfLedger!Amend
<1>7. QED BY <1>1, <1>6 DEF BooksOfLedger!BooksNext, BooksOfLedger!Write, LockedYears

-----------------------------------------------------------------------------
LEMMA InitBooks == Init => BooksOfLedger!BooksInit
BY DEF Init, YearsInit, BooksOfLedger!BooksInit, BookEntries, LockedYears, Ids

LEMMA StepBooks ==
  ASSUME IInv, IInv', [Next]_vars
  PROVE  BooksOfLedger!BooksNext
<1>1. CASE \/ Validate \/ Abort \/ UNCHANGED vars \/ YearAction
           \/ \E a \in Disabling : DisableAccount(a)
           \/ \E a \in Accounts : \E n \in Openings[a] : AlterAccount(a, n)
           \/ \E i \in Ids, d \in Drafts : BeginEdit(i, d)
           \/ \E i \in Ids, kind \in {"reverse", "cancel", "bounce"} : BeginReversal(kind, i)
           \/ \E i \in Ids, y \in Years : BeginRepresent(i, y)
  <2>1. UNCHANGED vouchers
    BY <1>1 DEF Validate, Abort, vars, YearAction, DisableAccount, AlterAccount,
       SaveAccount, BeginEdit, BeginReversal, BeginRepresent, ledgerVars
  <2>2. QED BY <2>1, FreezeStep
<1>2. QED BY <1>1, PostBooks, CommitReverseBooks, CommitRepresentBooks, CommitCancelBooks,
          CommitEditBooks DEF Next

\* The ledger implements Books.
THEOREM Implementation == Spec => ImplementsBooks
<1>1. IInv /\ IInv' /\ [Next]_vars => [BooksOfLedger!BooksNext]_BooksOfLedger!bookVars
  BY StepBooks
<1>2. QED BY <1>1, InitBooks, Invariance, PTL
          DEF Spec, ImplementsBooks, BooksOfLedger!BooksSpec

-----------------------------------------------------------------------------
(* Books that implement Books balance: an entry is made or amended to      *)
(* balanced lines, or offsets balanced lines, so what a year publishes is   *)
(* out of balance by what the accounts' opening balances are.               *)

EntriesBalance == \A i \in Ids : Balanced(vouchers[i].lines)

\* A step of the abstract books keeps their entries balanced.
LEMMA EntriesBalanceStep ==
  ASSUME IInv, IInv', EntriesBalance, BooksOfLedger!BooksNext
  PROVE  EntriesBalance'
<1> DEFINE b == BookEntries
           c == BookEntries'
<1>1. /\ b \in Seq(BookEntry) /\ DOMAIN b = Ids /\ Len(b) = Len(vouchers)
      /\ \A i \in Ids : b[i].lines = vouchers[i].lines
  BY EntriesType DEF IInv, EntryOf
<1>2. DOMAIN c = Ids' /\ \A i \in Ids' : c[i].lines = vouchers'[i].lines
  BY DEF BookEntries, EntryOf
<1>3. \A i \in DOMAIN b : b[i].lines \in LineSet /\ Balanced(b[i].lines)
  <2>1. \A i \in Ids : vouchers[i].lines \in LineSet
    BY RowType DEF IInv, Voucher
  <2>2. QED BY <1>1, <2>1 DEF EntriesBalance
<1>4. SUFFICES \A i \in DOMAIN c : Balanced(c[i].lines)
  BY <1>2 DEF EntriesBalance
<1>5. ASSUME NEW e, Balanced(e.lines), c = Append(b, e)
      PROVE  \A i \in DOMAIN c : Balanced(c[i].lines)
  <2> HIDE DEF b, c
  <2>1. \A i \in DOMAIN c : c[i] = e \/ (i \in DOMAIN b /\ c[i] = b[i])
    BY <1>1, <1>5
  <2>2. QED BY <1>3, <1>5, <2>1
<1>6. CASE BooksOfLedger!Enter
  <2>1. PICK y \in Years, lines \in LineSet :
          /\ Balanced(lines)
          /\ c = Append(b, [fy |-> y, lines |-> lines, offsets |-> 0])
    BY <1>6 DEF BooksOfLedger!Enter
  <2> HIDE DEF b, c
  <2>2. QED BY <1>5, <2>1
<1>7. CASE BooksOfLedger!Amend
  <2>1. PICK n \in DOMAIN b, lines \in LineSet :
          Balanced(lines) /\ c = [b EXCEPT ![n].lines = lines]
    BY <1>7 DEF BooksOfLedger!Amend
  <2> HIDE DEF b, c
  <2>2. \A i \in DOMAIN b : b[i] \in BookEntry
    BY <1>1
  <2>3. DOMAIN c = DOMAIN b
        /\ \A i \in DOMAIN c : c[i].lines = IF i = n THEN lines ELSE b[i].lines
    BY <2>1, <2>2 DEF BookEntry
  <2>4. QED BY <1>3, <2>1, <2>3
<1>8. CASE BooksOfLedger!Offset
  <2>1. PICK n \in DOMAIN b, y \in Years :
          c = Append(b, [fy |-> y, lines |-> Flipped(b[n].lines), offsets |-> n])
    BY <1>8 DEF BooksOfLedger!Offset
  <2> HIDE DEF b, c
  <2>2. Balanced(Flipped(b[n].lines))
    BY <1>3, FlippedBalance, LinesAreInt
  <2>3. QED BY <1>5, <2>1, <2>2
<1>9. CASE c = b
  BY <1>3, <1>9
<1>10. QED BY <1>6, <1>7, <1>8, <1>9
           DEF BooksOfLedger!BooksNext, BooksOfLedger!Write, BooksOfLedger!Freeze

\* The movements up to a year balance, so what it closes with is out of
\* balance by the openings.
LEMMA ClosingInBalance ==
  ASSUME IInv, EntriesBalance, NEW s \in Years
  PROVE  SumOf(ClosingBalance(s)) = SumOf(opening)
<1> DEFINE moved == TotalOf(Contributions(s))
<1>1. \A p \in Contributions(s) : Balanced(p[2])
  BY DEF EntriesBalance, Contributions
<1>2. IsFiniteSet(Contributions(s)) /\ \A p \in Contributions(s) : p[2] \in IntLines
  BY ContributionsFinite, LinesAreInt DEF IInv, TypeOK
<1>3. moved \in [Accounts -> Int] /\ SumOf(moved) = 0
  BY <1>1, <1>2, TotalBalances, TotalType DEF Balanced, IntLines
<1>4. opening \in [Accounts -> Int] /\ ClosingBalance(s) \in [Accounts -> Int]
  BY ClosingBalanceType DEF IInv, TypeOK, LedgerTypeOK
<1>5. \A a \in Accounts : ClosingBalance(s)[a] = opening[a] + moved[a]
  BY DEF ClosingBalance
<1> HIDE DEF moved
<1>6. SumOf(ClosingBalance(s)) = SumOf(opening) + SumOf(moved)
  BY <1>3, <1>4, <1>5, AccountsAssumption, SumOfPairs
<1>7. SumOf(opening) \in Int
  BY <1>4, AccountsAssumption, SumType
<1>8. QED BY <1>3, <1>6, <1>7

LEMMA InBalanceStep ==
  ASSUME IInv, EntriesBalance, [Next]_vars, NEW t \in Years, carried'[t].source # 0,
         carried'[t] # carried[t] \/ (InBalance(t) /\ \E y \in Years : fy[y].locked)
  PROVE  InBalance(t)'
<1>1. CASE carried'[t] # carried[t]
  BY <1>1, PublishStep, ClosingInBalance DEF InBalance, Created
<1>2. CASE carried'[t] = carried[t]
  BY <1>2, OpeningStep DEF InBalance
<1>3. QED BY <1>1, <1>2

\* Whatever was posted, edited, reversed, cancelled, bounced or re-presented,
\* a published snapshot is out of balance by exactly what the accounts' opening
\* balances are, and stays so while any year is locked.
THEOREM Balance == Spec => CarriedInBalance
<1>1. Init => EntriesBalance
  BY DEF Init, EntriesBalance, Ids
<1>2. IInv /\ IInv' /\ [Next]_vars /\ EntriesBalance => EntriesBalance'
  BY StepBooks, EntriesBalanceStep
<1>3. IInv /\ EntriesBalance /\ [Next]_vars =>
        [\A t \in Years :
           /\ carried'[t].source # 0
           /\ carried'[t] # carried[t] \/ (InBalance(t) /\ \E y \in Years : fy[y].locked)
           => InBalance(t)']_vars
  BY InBalanceStep
<1>4. QED BY <1>1, <1>2, <1>3, Invariance, PTL DEF Spec, CarriedInBalance
=============================================================================
