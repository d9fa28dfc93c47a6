# Avelo: a verification project

Avelo is a double-entry bookkeeping application for macOS (Swift, SwiftUI,
SQLite). A company is one SQLite file; services validate and write, repositories
hold the SQL, view models load and present. This directory holds TLA+ models of
the parts of it where a mistake would silently corrupt the books, the TLC runs
that check them on small instances, and theorems about them that TLAPS checks
for every value of the constants. Paths below are relative to the repository
root (`src/Avelo/...` in `PROJECT.json`).

1. [Inventory](#1-inventory) - what the system is made of and what makes it correct
2. [Modules and the code](#2-modules-and-the-code) - what is modelled and how it corresponds
3. [Runs](#3-runs) - what TLC checks, with which bounds
4. [Disagreements](#4-disagreements-between-code-and-documents) - where code and documents differ
5. [Theorems](#5-theorems) - what is proved, from what, and how
6. [Not modelled](#6-not-modelled) and 7. [Plan](#7-plan)

To reproduce, from this directory:

    tlc -workers 2 -config ledger.cfg MCVoucherLedger
    tlapm VoucherLedger_proofs.tla

## 1. Inventory

| Component | State | Operations | Correct when |
|---|---|---|---|
| **Voucher ledger** (`VoucherService`, `VoucherDraftValidator`, `VoucherNumberGenerator`, voucher, cheque and line repositories) | `avelo_vouchers`, `trn_accounting`, `avelo_cheques`, `avelo_voucher_sequences` | post, postBatch, edit, reverse, cancel, bounceCheque, representCheque | debits equal credits; a voucher is reversed at most once and nets to zero; numbers are never handed out twice; cheque rows follow their vouchers; a locked year does not change |
| **Financial years** (`FinancialYearService`) | `avelo_financial_years`, `avelo_financial_year_opening_balances` | create, lock, unlock, close, reopen | years do not overlap; the snapshot a close publishes is the openings and the whole history before the next year |
| **SQLite transactions** (`SQLiteDatabase`) | the handle's two depths and recursive lock, the engine's transaction | read, write, nesting, close | a call that returned is on disk; a call that threw left nothing |
| **Accounts** (`AccountService`) | `avelo_accounts`, `avelo_account_groups` | create, update, disable | a disabled account gets no new line; openings stand while a year is locked; codes unique, groups form a tree |
| **Audit trail** (`AuditService`, `AuditChainIntegrity`) | audit events, a keyed hash chain | append, verify, rebuild | the events about a voucher join up and end with its rows; the chain verifies unless tampered with |
| **Bill allocations** (`BillAllocationEngine`) | none: a function of the allocation rows | settle | settled never exceeds the bill; does not depend on row order |
| **Company sessions** (`DatabaseManager`, `AppEnvironment`, `RegistryRepository`) | open handles, registry rows, files, keys | open, close, switch, create, delete | registry, files and keys agree; the open company's handle is open |
| **Backup and restore** | file, manifest, registry, key | export, validate, restore | a restored company is what was exported; a failure leaves the old one |
| **Migrations** (`MigrationRunner`, `SchemaVersion`, 40+ versions) | `user_version`, applied-migration rows | run | version and schema agree after any crash |
| **Account tree cache** (`AccountTreeCache`) | tree, `isDirty`, reload task | invalidate, reload | the tree shown eventually is the one on disk |
| **Reports and cache** | cached results under a change token | run, invalidate | a cached report is never older than its token |
| **View models** | the loaded rows, a load generation | load, filter | the last request wins |
| **Voucher editor** (`VoucherEditViewModel`) | fields, drafts, undo stack, submission state | type, autosave, leave, submit, recover, undo | unsaved input survives a crash and is not left without a question; a posted draft is gone |
| **Inventory, item invoices, orders, BOM** | movements, valuations, item lines, orders | post, reverse, return, fulfil | stock and value follow the vouchers; no cycles |
| **Bank reconciliation, payroll, GST** | matches; payroll entries; none | match, run, compute | a matched voucher is live; one entry per employee and month |
| **Navigation, keyboard, views** | current screen and sheet, a pending navigation | route, ask, keep, discard | nothing unsaved is left without a question |

**How they interact.** A sheet submits to `VoucherService`, which validates,
takes a number, and writes vouchers, lines, cheques, allocations and audit events
inside `SQLiteDatabase.write`. The database's own triggers refuse a write dated in
a locked year. `FinancialYearService.close` sums the ledger and publishes opening
balances into the next year. Reads of the account tree and of reports run on
detached tasks and go through `SQLiteDatabase.read` or single statements on the
same handle, serialised by its lock. Cache invalidation is by callback
(`ReloadGeneration`, `AccountTreeCache.invalidate`).

**What is hard.** (1) Every correction of a voucher reads its guards, takes and
commits a number, and validates *before* the transaction that writes. (2) Services
are main-actor code, but several view models call services from detached tasks.
(3) Vouchers, years, numbers and cheques are linked by ids that long sequences of
legal calls must keep consistent. (4) Nested transactions are counted by hand.
(5) Companies, backups and migrations span files, a registry and a key store and
can be cut between any two. (6) Detached loads answer out of order. (7) A timer,
a sheet that disappears late and the end of the process all write, delete or lose
the draft of the voucher on screen. (8) Opens, closes, deletions and exports of
companies share one table of handles and are ordered by nothing. The hazards at their lines are in
`PROJECT.json`; one without a property has a note that says why.

## 2. Modules and the code

    LedgerLines <- FinancialYears <- VoucherLedger <- MCVoucherLedger   (TLC constants)
         ^                                |    ^
         |             implements: Books <+    +-- VoucherLedger_proofs <- VoucherLedger_steps
         +-- LedgerLines_proofs                                             (uses both)
    SQLiteTransaction <- SQLiteTransaction_proofs
        implements: AtomicCalls
    CompanyStore <- MCCompanyStore (symmetry); CompanyStore_proofs
        implements: CompanyShelf
    Sessions <- Sessions_proofs
    Screens <- Screens_proofs
    VoucherEditor <- VoucherEditor_proofs

**`LedgerLines`** - the lines of a voucher as a map from account to signed paise.
The validator forbids two lines of one account and lines of zero or negative
amount, so the map loses only order, tax codes and cost centres. `Flipped` is
`VoucherService`'s reversed lines, `Balanced` the validator's totals, `TotalOf` the
movements query of the reports repository (`movementTotals`). A sum is a fold over a finite set of accounts or of postings.

**`FinancialYears`** - a year is a slot ordered by start date, with `created`,
`locked` and `closed`; a year may be created in any slot (also between two others),
which is what the overlap check leaves possible. `CreateYear`, `LockYear`,
`UnlockYear`, `CloseYear`, `ReopenYear` are the service's methods with their
guards; the snapshot they publish or withdraw is `carried`. What a close publishes is
`ClosingBalance` of `VoucherLedger`: each account's own opening balance and its
movements up to the end of the year (`closingBalanceRows`).

**`VoucherLedger`** - `vouchers`, `cheques`, `trail` (the latest audited change of each
voucher, with the snapshots `before` and `after` it), `lastNumber`, each account's own
signed `opening`, `disabled`, and `op`, the operation in flight. `op.seen` is the copy of
the voucher that the operation read at its start: the code reads it ahead of the
transaction and records it there as the state before the change
(`VoucherService.swift:428`), so the events of edit, cancel, reverse, bounce and
re-presentation are built from `op.seen` and not from the rows of the commit.

| Action | Code |
|---|---|
| `Post` | `post`: one transaction around validation, number, rows and audit |
| `BeginEdit`, `CommitEdit` | `edit`: guards and validation; then the transaction that replaces lines and rewrites the cheque row |
| `BeginReversal("reverse" / "cancel" / "bounce")` | guards, `reversalFinancialYear`, and the number, committed on its own |
| `BeginRepresent` | `representCheque` up to its number |
| `Validate` | the validator call of these four, after the number; only cancel and bounce pass `isSystemReversal` |
| `CommitReverse`, `CommitCancel`, `CommitBounce`, `CommitRepresent` | the transaction of each, refused by the triggers (`TriggersAllow`) in a locked year |
| `Abort` | a validation error, a rolled back transaction or a crash: the number stays taken |
| `DisableAccount` | `AccountService.disableAccount`, at any moment |
| `AlterAccount` | `AccountService.updateAccount` from the account sheet, between operations: another opening only while no year is locked |
| `YearAction` | the year operations, between ledger operations |

One operation is in flight at a time because the voucher and year services run to
completion on the main actor; `disableAccount` is called from a detached task
(`AccountsViewModel.swift:106`), so it may come between any two steps. Facts of the
code the model keeps and a reader may not expect:

- a payment or a receipt submitted to `reverse` always fails validation, because
  its flipped lines break the single-entry rule, and its number is burned;
- cancelling a voucher of a locked year always fails at the update trigger, after
  its reversal has been given a number in the latest open year;
- a reversed or cancelled voucher's cheque stays `issued`;
- `edit` keeps the year and the type and drops the represented-from link;
- `unlock` accepts a closed year and leaves its snapshot published;
- an account's own opening balance is in every snapshot (the test
  FinancialYearCloseCarryForwardTests.swift:32 carries 60 000 where 50 000 moved), and
  no rule makes the openings of the accounts balance each other, so a snapshot is out
  of balance by what they are;
- the account sheet writes back the whole account it loaded, its active flag too, so a
  disable that ran meanwhile may be undone (`NewAccountSheet.save`,
  `AccountRepository.swift:208`);
- the snapshots of post, edit, reverse and cancel hold the voucher and its lines, not its
  cheque; those of a bounce or re-presentation, on the cheque's own entity, hold the
  original before and the new voucher after, and are `trail` of the new voucher here;
- the app's screens give a cheque no status but issued and bounced, so the model has no other.

Left out of `VoucherLedger`: parties, narrations, tax codes, bill allocations,
`markAccountsUsed`, item lines, templates, and `postBatch` (see the plan). The accounts
are those of the company from its first to its last day: one that is created later is an
account without openings or lines until then, and gets its opening by the same rule.

**`Books`** - the abstract specification: entries that are made, amended while
nothing offsets them, or offset once by exactly their lines, and frozen years.
It has no numbers, cheques, audit rows, or operations in flight. `BooksOfLedger`
is the refinement mapping: `entries` from `vouchers`, `frozen` from the locked years.

**`SQLiteTransaction`** - `read` and `write` as the code counts them: `Enter` /
`EnterFails` (BEGIN), `Statement`, `BlockThrows`, `Return` (COMMIT at depth 1),
`ReturnThrows` (COMMIT throws: the `catch` counts the depth down a second time),
`Catch` (ROLLBACK at depth 1), and `Reopen` (crash or close, then recovery). The
engine's part (`Begin`, `Commit`, `Discard`, `Store`, and which statements may
fail) is external: it is SQLite's behaviour as this code relies on it. A failing
statement may or may not have made the engine roll back by itself. The recursive
lock is held for the whole outermost call, so calls do not interleave.
A crash here is the end of the process: the database runs in WAL mode with
`synchronous = NORMAL`, so a power failure may also lose the last commits, which the
model does not include.

**`AtomicCalls`** - the abstract specification of the above: calls one after the
other, each of which puts all its rows on disk in the step in which it returns, or
throws or is lost and puts none. Blocks, depths, the engine's transaction and pending
rows are not in it. It promises nothing once a COMMIT has failed.

`VoucherLedger` and `CompanyStore` rest on `AtomicCalls`: their commits are single
steps. `commitfault` shows the one case in which that fails; they do not include it.

**`CompanyStore`** - the companies on disk: `registry` rows, database `files`,
Keychain `keys`, the creates and restores under way (`making`), the export under way
(`exporting`), and the backup and its manifest at the `place` the user saves to. A
file holds committed `books` and the part of them that is `flushed` from the WAL
into the main file, which is what an export copies. `gone` is history: companies
whose deletion or rekey has begun, of which nothing is promised.

| Action | Code |
|---|---|
| `Post`, `Checkpoint` | a committed write; `wal_checkpoint` on close, before an export, or by the engine |
| `Migrate` | one version of `MigrationRunner`, each in its own transaction |
| `Rekey`, `RekeyCut` | `LegacyKeyMigrationService`, whole or cut off |
| `CreateFile`, `CreateFileCut`, `WriteBooks`, `Register`, `CreateFails` | `CompanyService.create` and `DatabaseManager.createCompanyFile` |
| `Delete` | `deleteCompanyFiles`, after any number of its three removals |
| `ExportAsked` ... `ExportReturns`, `ExportFails`, `AuditFails` | `BackupService.export`, step by step |
| `RestoreChecks`, `RestoreStages`, `RestorePublishes`, `Register`, `RestoreFails` | `RestoreService.restore` |
| `Crash` | the end of the process: what is under way is lost, what is on disk stays |

The services are actors or run off the main actor, so their steps interleave with
each other's and with the writes of an open company. A copy of a file that a
checkpoint or a migration wrote meanwhile may be `Torn`. Assumed: the integrity
check of a restore refuses a torn copy, a UUID is never drawn twice, and a migrated
schema counts as in the main file at once. Remark: when the audit event of an
export fails, the code removes the copy and the manifest it has just put in the
place of an older backup, so neither backup is left (`AuditFails`), although
Docs/Avelo_Master_PRD.md:253 promises the prior destination on failure.

**`CompanyShelf`** - the abstract specification: a shelf of books, one for each
company. Books change by one commit, appear whole from some copy, or go. The
refinement maps the companies that are listed and open with their key to `shelf`, and every
copy of books (main files, staged files, the backup) to `copies`.

**`Sessions`** - the open handles: the manager's `table`, the handles SQLite has
`live`, the `tasks` under way, `isBusy` and the window's `context`. Handles are
numbered as they are opened, so a closed one is never confused with a new one.
`context.quiet` is history: the window took its company when nobody was about to
close it, and no deletion has reached it since.

| Action | Code |
|---|---|
| `OpenAsked`, `OpenMade` | Open in the picker (which asks nothing of `isBusy`) or in the sheet; the open that ends a create or a restore |
| `OpenGranted`, `OpenRefused` | `DatabaseManager.openCompany` answers or throws, with a handle in the table or not |
| `OpenApplied`, `OpenFails`, `OpenShown` | `applyOpenCompany` after its first wait, and after the wait for the tree |
| `CloseAsked`, `CloseRuns` | `applyCloseCompany`, and the close in a task that nobody awaits |
| `DeleteAsked`, `DeleteRuns`, `DeleteReturns` | `deleteCompany` over `deleteCompanyFiles`, which may throw at any removal |
| `ExportAsked`, `ExportProbes`, `ExportReopens`, `ExportUses`, `ExportReleases`, `ExportFails` | the two times an export takes a handle: for its checkpoint and for its audit event |

`DatabaseManager` is an actor whose methods do not wait, so each call is one step.
Which files exist is only what an open needs of it; the rest of a create, a deletion
or an export is `CompanyStore`, and nothing here contradicts it: `CompanyStore` lets a
company be written, checkpointed and copied at any time. Remarks, where the code
allows what one would rather not see, and which `SessionKeepsHandle` exempts:

- a company closed and reopened at once may be given the handle that the late close
  then closes (`AppEnvironment.swift:376`); the window stays on a closed handle;
- an export that found no handle opens one and closes it by the company's id, also
  when a window has been given the same handle meanwhile (`BackupService.swift:42`);
- a deletion that throws has closed the handle of a window that stays on its company;
- opening another company leaves the earlier handle in the table: nothing closes it but
  a close or a deletion of that company;
- `pendingDraftRecovery` is set after the wait for the tree, whatever company the window
  shows by then (`AppEnvironment.swift:293`; not in the model).

**`Screens`** - what the windows of an open company show while the books change: the
`cache` of the account tree, the `dashboard`, and the `list` of vouchers or accounts,
over `loads` in flight. The books are the number of writes committed, and what is
shown is the number of writes its read came after. A handler of a view is one
action, since it runs to its end on the main actor; tree loads, list loads and the
disabling of an account are detached tasks whose steps fall in between. `due` says
that the screen's `.task(id: reloadKey)` has still to run. Facts a reader may not expect:

- `invalidate` drops the tree and no view calls `ensureLoaded`: after a post the tree is
  loaded again only by Rebuild, a year switch or opening the company;
- a list does not reload after a post from a sheet over it (`TaskIdles`), which a
  step of .agents/logs/FLOW_SCRIPTS.md expects;
- two tree loads may run at once, and `isLoading` be false while the second runs;
- a load of the tree that is under way at an invalidation brings its older tree and clears
  the mark (`AccountTreeCache.swift:76`), so that nothing rebuilds it; `TreeHasInvalidated`
  exempts that one load (`missed`) and no other;
- a reload of the dashboard that throws keeps the old figures (`DashboardKeeps`);
- bouncing or re-presenting a cheque invalidates nothing (`ChequeMoved`,
  `ChequesViewModel.swift:31`), and the old balances stay on screen, although
  Docs/Avelo_Architecture.md:173 has the tree "invalidated after relevant writes".

**`VoucherEditor`** - the sheet that enters a new voucher, with `drafts` on disk, the
recovery `offer`, the presented `sheet`, the request `waiting` behind the prompt of
unsaved changes, the view model of the sheet on screen (`editor`) and of one that has
still to disappear (`leaving`). All fields together are one value, and an undo is a
change to an earlier one. `posted` and `orphaned` are history.

| Action | Code |
|---|---|
| `Type`, `Autosave` | `onChange` schedules the snapshot; 800 ms later it is written, or the write fails unseen |
| `Navigate`, `AskFirst`, `KeepEditing`, `Discard` | `AppRouter.requestNavigation` and the two answers of its prompt |
| `Setup`, `Disappear` | the sheet's `setup` and `onDisappear`, which SwiftUI calls some time after the router's change |
| `Submit`, `Complete` | the committed voucher; then `deleteDraft` and `completeVoucherSubmission` in the same turn, which only a crash can cut |
| `OpenCompany`, `Resume`, `DiscardOffer` | the latest draft is offered; the two answers of that prompt |
| `Duplicate` | Alt+2 in the vouchers list, which uses the same hook |
| `Crash` | a crash or a quit |

Assumed of SwiftUI: the two prompts are modal, one sheet transition runs at a time,
and the company picker is reached when the sheets have gone. When it clears the item of the
recovery prompt, before or after the sheet's `setup` has read it, is left open. Remarks:

- posting commits the voucher, then deletes the draft. A process that ends in
  between offers the draft of a posted voucher on the next start, and the user who
  saves it posts it twice (Docs/Avelo_Release_Board.md:184 wants recovery "without
  double-posting"); `PostedDraftIsGone` exempts exactly these drafts (`orphaned`);
- after Discard and a move to another module the sheet is still on screen, clean, and never
  autosaves again (`suppressed`), so a crash takes what is typed from then on;
- Discard on the recovery prompt deletes every draft of the company, also those that
  were never offered;
- if SwiftUI clears the prompt's item before `setup`, Resume opens a blank sheet; the
  draft's row stays.

## 3. Runs

| Run | Constants | Checks |
|---|---|---|
| `ledger` | 2 accounts, one of which may get an opening, 2 years, receipts and journals, 3 vouchers, numbers to 2, drafts right and wrong | `TypeOK`, `NumberingSound`, `ReversalNetsToZero`, `CancellationLinked`, `LockedYearFrozen`, `OpeningExactWhileLocked`, `CarriedInBalance` |
| `cheques` | 1 year, journals either way round and one with a cheque, 5 vouchers, numbers to 5, one account that may be disabled and saved | `ChequesFollowVouchers`, `OneOutstandingRepresentation`, `OpSound`, `EvidenceCurrent`, `EvidenceChained`, `CorrectedForGood`, `ImplementsBooks` |
| `transaction` | 3 calls, 3 nested blocks, 2 rows each, COMMIT may fail | `TypeOK`, `ReturnedIsDurable`, `OthersLeaveNothing`, `AtRest`, `ImplementsAtomicCalls` |
| `companies` | 2 companies, 2 names, 2 schema versions, 2 revisions | `TypeOK`, `RegisteredOpens`, `BackupHoldsWhatWasAsked`, `ImplementsShelf` |
| `screens` | 2 writes, 2 loads in flight | `TypeOK`, `TreeHasInvalidated`, `ListAnswersLatest`, `SomebodyComes`, `DashboardCatchesUp`, `SpinnersStop` |
| `editor` | 2 voucher types, 3 texts, 2 drafts, 3 snapshots | `TypeOK`, `PostedDraftIsGone`, `InputIsSaved`, `NothingLeavesUnasked`, `DraftsGoForward` |
| `sessions` | 2 companies, 2 tasks under way, 3 handles | `TypeOK`, `TableHasLive`, `SessionKeepsHandle`, `BusyIsOwned`, `BusyEnds` |
| `represent`, `inactive`, `snapshot`, `commitfault`, `rekey` | see section 4 | one property each, violated |

What the passing runs ask:

- **`ledger`** (1 million states): does any order of posts, edits, reversals,
  cancellations, aborts, changed openings and year operations give a number twice,
  reverse twice, leave a half-made cancellation, or change a locked year; is what a
  close publishes the openings and the whole history before the next year, does it stay
  so while that is locked, and is it out of balance by the openings alone? The drafts
  include a receipt entered the wrong way round and a journal that does not balance, so
  that the validator is what keeps them out. Two numbers in each of four series hold
  three vouchers unless all three are of one series, and a burned number still leaves a
  gap; one account that gets an opening is what makes the openings of a company not
  balance. A year created between two others needs a third one; the theorem
  `OpeningExactness` covers it.
- **`cheques`** (1.2 million states): the same for bounce and re-presentation. What an
  operation was admitted on, and the copy of its voucher that it is going to audit, are
  read ahead of its transaction: do they still hold when it commits (`OpSound`), does
  each audited change start where the one before it ended (`EvidenceChained`) and the
  last one end with the row (`EvidenceCurrent`), does anything write again the row,
  cheque or audit event of a voucher that has been corrected (`CorrectedForGood`), and
  is every committed write, whatever was read before it, a step of `Books`? A journal
  passes the validator in either direction, so every kind of correction applies. Five
  vouchers are the least that allow a cheque, its bounce, its re-presentation, that one's
  bounce, and a second re-presentation; an account may be disabled at any point.
- **`transaction`**: atomicity and durability over every nesting of blocks, error and
  crash. Three nested blocks are one more than outer and inner; two rows tell a
  partial write from a whole one. `ReturnedIsDurable`, and in `AtRest` that no transaction is
  left open, are claimed always; `OthersLeaveNothing`, the depths in `AtRest` and the
  refinement of `AtomicCalls` until a COMMIT has failed.
- **`companies`** (45 thousand states up to symmetry): can a failure or a crash
  between two steps list a company that does not open, put a stale or foreign copy
  where a backup was asked for, or change a company other than by its own commits?
  Two companies let a create, a restore and a deletion meet an export of another;
  the second revision tells committed from flushed, the second schema version pending from done.
- **`screens`** (190 thousand states): do answers that come out of order or late
  replace newer ones, does a notified write reach the dashboard, and does what loads
  stop loading? `SomebodyComes` is the safety half of the last two: whatever loads or is out
  of date has a load or the screen's task coming for it, or its reload has failed. Two loads in flight are what an older and a newer answer need, and two
  writes separate before, between and after them.
- **`editor`** (710 thousand states): can a posted draft come back, unsaved input be
  neither on disk nor in the timer, or leave the screen without a question, over every
  order of typing, timer, sheet changes, prompts, failed writes and crashes; and does a
  late write ever put an earlier snapshot over a later one (`DraftsGoForward`)? Two
  types let one sheet replace another, two drafts let two rows compete for the recovery
  prompt, and three texts let the fields differ from what is loaded and what is saved.
  The same properties hold with three drafts (10 million states).
- **`sessions`** (130 thousand states): can two tasks leave a handle open that the table
  does not know, be given a closed one, or take the handle of a window that nobody was
  about to close; and does the busy flag always have a task that clears it (`BusyIsOwned`),
  and fall (`BusyEnds`)? Two tasks are what a race
  needs (a late close against an open, an export against an open); two companies tell a
  close of the window's company from one of another, and three handles let
  a company be closed and opened again beside the other. The theorems cover any number.

The bounds: `MaxVouchers` bounds the rows written and `MaxNumber` each number
sequence (numbers are burned by aborted operations, so it is its own bound and
guards the taking of a number); `Disabling` and `Openings` are the accounts that may be
disabled and the openings each may be given, any in the theorems; `MaxCalls`, `MaxNesting` and `MaxRows` bound
`SQLiteTransaction`; `MaxRevision` the commits of a company; `MaxWrites` and `MaxLoads`
a session of `Screens`; `MaxTasks` and `MaxHandles` the tasks and handles of `Sessions`; `MaxDrafts` and `MaxClock` the drafts and the snapshots of
`VoucherEditor`. A bound only disables actions, so no bound makes a safety
property true that would be false without it except by stopping too early; the
theorems hold for every bound. Symmetry is used by `companies` alone, on companies
and on names, which every definition treats alike; in the ledger the cash account
and the customer's are not interchangeable.

**Fairness.** `Screens` and `Sessions` state it: a task that was started runs, so each load's
steps, the task of the screen and the disable task are weakly fair, and so are the
steps of each open, close, deletion and export. The Swift
runtime schedules a task that can run, SQLite answers or throws, and the main actor
is not held for ever. Nothing is assumed of the user, who may always do something
else; `SpinnersStop` is therefore about a user who at some time stops asking for
reloads and year switches (`UserRests`), because each of these supersedes the answer
that is on its way. The other specifications are `Init /\ [][Next]_vars`, since
everything checked of them is safety. Deadlock is checked in every run.

## 4. Disagreements between code and documents

Each is a run whose single property states what a document says.

| Run | Document | Code |
|---|---|---|
| `represent` | Docs/Avelo_Master_PRD.md:233: re-presentation preserves lineage | a re-presentation that bounces makes *both* cheques presentable; one cheque may be outstanding twice (`VoucherService.swift:640`) |
| `inactive` | Docs/Avelo_Master_Product_Execution_Plan.md:146: inactive accounts are rejected | accounts are validated before the write and may be disabled in between (`:371`) |
| `snapshot` | Docs/Avelo_Master_PRD.md:135: close publishes one exact opening snapshot | unlocking a closed year and posting in it leaves the snapshot stale (`FinancialYearService.swift:97`) |
| `commitfault` | Docs/Avelo_Rules.md:32: a thrown error rolls back | a COMMIT that throws leaves the depth at -1; later writes run without a transaction (`SQLiteDatabase.swift:630`) |
| `rekey` | Docs/Avelo_Phase0_Manual_Acceptance.md:102: valid old or new state, never partial state | the encrypted file is in place before its key is stored; when the Keychain refuses the key, the original is thrown away and nothing opens the file (`LegacyKeyMigrationService.swift:92`) |

`OneOutstandingRepresentation` (checked and proved) says exactly what the check in
`representCheque` does guarantee: of the cheques linked *directly* to one bounced
cheque, at most one is outstanding. The links themselves do not outlive an edit: `edit`
rewrites the cheque row without its represented-from link (`VoucherService.swift:421`),
although Docs/Avelo_Release_Board.md:170 says that cheque metadata survives edit. That
is plain in one line of the code and has no run.

## 5. Theorems

All proofs are checked by TLAPS without trusted steps. The assumptions on the
constants are `AmountsAssumption` (amounts are integers, with 0 and closed under
negation), `AccountsAssumption` (there are finitely many accounts), `YearsAssumption`
(years are positive numbers), `LedgerAssumption` (drafts are drafts, openings are
integers, who may be disabled is an account, bounds are numbers), `TransactionAssumption`, `StoreAssumption`,
`ScreensAssumption`, `SessionsAssumption` and `EditorAssumption` (bounds are numbers, names are distinct), and
`MarkerAssumption` and `NilAssumption` (nil and the mark of a torn copy are no
records; in `Screens`, no view model and no load); TLC evaluates all of them in the runs.

**`LedgerLines_proofs`** - what a sum over ledger lines is: it takes up one entry at a
time in any order (`SumTakesOne`), the sum of sums is the sum over the other index
(`SumOfSums`), flipped lines balance when the lines do (`FlippedBalance`), and lines that
each balance have a total that balances (the lemma `TotalBalances`). These are inductions over
finite sets. The library's induction theorems take a predicate as a parameter, so the two
inductions here take the *set* of the cases that hold and find its least missing number.

**`VoucherLedger_proofs`** - `Invariance`: `Spec => []IInv`, and from it
`TypeCorrect`, `Numbering`, `Reversal`, `Cancellation`, `ChequeLinks`,
`Representation`, `Admission` and `Evidenced`, one for each conjunct. The conjuncts
hold only together:

- *one reversal per voucher* needs that the voucher in flight is still uncorrected
  when it commits (`OpSound`);
- `OpSound` in its turn needs that nothing but the operation itself touches the
  rows, the years or the sequences while it is in flight;
- *numbers once and in order* needs that the number in flight is ahead of every
  voucher's of its series and behind the sequence row;
- *a re-presented cheque has the lines of what it presents again* needs that a
  bounced voucher has a reversal, since `edit` refuses exactly those;
- *an audit event ends with the row* (`EvidenceCurrent`) needs that the copy read ahead of
  the transaction is still the voucher when the operation commits, and *that of a reversal
  starts with its original's lines* that nothing edits a voucher with a reversal.

The proof has one lemma per action; the four that add a voucher share the lemmas
`InsertType`, `InsertSound`, `InsertNumbering` and `CommitInsertStep`.

**`VoucherLedger_steps`** - what a step may do.

- `LockedFrozen`: every step that writes has a writable year (`StepWrites`), so no
  step touches a locked one.
- `OpeningExactness`: when a year closes, the movements it publishes range over exactly
  the vouchers dated before the next year (`ClosingIsHistory`, which uses that every
  voucher is dated in a created year); while earlier years are locked that set does not
  change (`HistoryKept`), and neither does an opening, since a year that has a snapshot
  has an earlier year (`CarriedForward`), which is then locked (`ExactStep`,
  `OpeningStep`).
- `Corrected` (`CorrectedForGood`): the vouchers, cheques and audit events that a
  step writes are new, or belong to a voucher that `OpSound` says is still uncorrected
  (`StepKeeps`). That a cheque once bounced stays so, and that nothing rewrites a
  reversal, are cases of it.
- `Chained` (`EvidenceChained`): the event a commit writes starts with the copy read
  ahead of it, which `OpSound` says is still the voucher, which `EvidenceCurrent` says is
  what the last event ended with (`ChainStep`).
- `Balance` (`CarriedInBalance`): the validator accepts balanced lines only, their
  reversal is balanced by `FlippedBalance` and a re-presentation copies balanced lines
  (`EntriesBalanceStep`), so the movements a close publishes cancel out and leave the
  openings (`ClosingInBalance`), which do not change while a year is locked
  (`InBalanceStep`).
- `Implementation`, `Spec => ImplementsBooks`. Initial states map to initial states;
  post and represent map to `Enter`, edit to `Amend`, reverse, cancel and bounce to
  `Offset`, year operations to `Freeze`, and everything else to a stutter.

**`SQLiteTransaction_proofs`** - two inductive invariants. `Invariance`,
`Spec => [](commitFailed \/ IInv)`, says until a COMMIT fails which blocks are open,
that they are of one kind and counted in that kind's depth, and that the rows of the
running call are exactly the pending ones; it gives `Atomicity` (`OthersLeaveNothing`).
The condition is needed: `commitfault` is the counterexample without it.
`FailureInvariance`, `Spec => []FInv`, has no condition. After a failed COMMIT the depths
are too low, so `FInv` says no more of them than that they do not exceed the blocks open,
that one of them at most is positive, and that a transaction is open exactly while one is
or until an error ended it (`TransactionOwned`); and that the rows of a call that raises
nothing are pending or on disk (`RowsKept`). It gives `TypeCorrect` and `Durability` (`ReturnedIsDurable`) whatever has
failed, and with the other invariant `Rest` (`AtRest`). `Implementation`,
`Spec => ImplementsAtomicCalls`: the exit of the outermost block without an error maps to
`Return`, an error that leaves it or a crash to `GiveUp`, its entry to `Begin`, a
failed COMMIT to the end of the promise, and everything else to a stutter.

**`CompanyStore_proofs`** - `Invariance`, and from it `TypeCorrect`, `Opening`
(`RegisteredOpens`) and `BackupFresh` (`BackupHoldsWhatWasAsked`). That a listed company
opens needs what each stage of a create or restore has done and nobody may undo
(`MakingSound`), that a listed file has books (`ListedHaveBooks`); that a backup is
fresh needs what the export has read so far (`ExportSound`). All but the export's
conjunct speak of one company at a time, so the lemma `OneCompany` reduces most
actions to the company they touch. `Implementation`, `Spec => ImplementsShelf`: a post
maps to `Write`, the registration of a create or a restore to `Place`, a deletion to
`Drop`, and every other step leaves the shelf alone and takes copies only of what is on
it or was copied before.

**`Screens_proofs`** - `Invariance`, and from it `TypeCorrect`, `TreeFresh` and
`ListFresh`. The invariant adds that a current load that has read came after the
last invalidation (a tree) or the last reload asked (a list), and that only the
view model on screen has a current list load. `SomebodyIsComing` (`SomebodyComes`) is
proved from an invariant of its own, `Coming`, whose conjuncts speak of the tree, the
list and the dashboard apart; it needs that no notification runs ahead of the writes, since a
dashboard reads all that is written. All hold for the specification with its fairness,
which the safety proofs do not use.

**`Sessions_proofs`** - `Invariance`, and from it `TypeCorrect`, `OneHandle`
(`TableHasLive`) and `WindowKeepsHandle` (`SessionKeepsHandle`). The last is not
inductive: it needs that nobody is to come who closes the window's company
(`ContextSound`), that an export becomes such a one only when the company has no handle,
and that a handle granted to an open is the company's for as long as it is live
(`GrantSound`), which uses that handles are never numbered again. What an open and a
close do to the table is in `OpensKeeps` and `ClosesKeeps`, and every action is an
instance of `StartKeeps`, `TaskKeeps`, `EndKeeps` or `ExportGoesOn`. `BusyOwned`
(`BusyIsOwned`) is inductive as it stands: a task that raised the flag goes on to a stage
that owns it (`OwnerStays`), and the others leave it alone (`OthersStay`).

**`VoucherEditor_proofs`** - `Invariance`, and from it `TypeCorrect`, `PostedOnce`
(`PostedDraftIsGone`), `Saved` (`InputIsSaved`) and `AskedFirst`
(`NothingLeavesUnasked`). The invariant adds that the sheet on screen, the one leaving
and the draft on offer are different drafts, that a timer holds what its fields show,
that a posted draft has a row only while its post is half done, and that a request
waits only behind unsaved changes. `GoesForward` (`DraftsGoForward`) needs `Dated`: one
row for each draft, none later than the clock, and a pending timer not earlier than the row it
will replace.

**Only model-checked.** `DashboardCatchesUp`, `SpinnersStop` and `BusyEnds`, since
liveness under fairness and `ENABLED` are out of the provers' reach; their safety halves
`SomebodyComes` and `BusyIsOwned` are proved. Every other property of a passing run is a
theorem. The five violated properties are refuted by TLC.

## 6. Not modelled

- **Sessions**: `closeAll` at the end of the process, moving a registered file, the year
  and capabilities in the window's context, and the draft offered after an open.
- **Bill allocations**: a function of the allocation rows, without state; what it
  computes for every input is an induction over the events. `postBatch`, parties,
  narrations, templates and item lines of vouchers.
- **Inventory, item invoices, orders, bills of materials**: exact fractions whose
  numbers and not their control are the difficulty; the rest is row editing in the
  caller's transaction.
- **Bank reconciliation, payroll, GST, reports and their cache**: rows beside the
  vouchers that no operation of the ledger reads, or queries without state.
- **Audit hash chain**: what it promises rests on the hash function, which a model can
  only assume. The latest audit event of each voucher is state of `VoucherLedger`.
- **Migrations' contents** and what a restore rewrites inside the file: SQL on rows,
  not steps between which something can happen.
- **Editor**: the undo history, the sheet that edits a posted voucher (it saves no
  draft), a draft whose lines cannot be decoded (it stays and stays on offer), and the
  contents of the fields.
- **Views, keyboard**: layout, focus, shortcuts, a company's capabilities.
- SQL text, encryption, pragmas and the statement cache of `SQLiteDatabase`; creation
  of accounts and groups, and what an edit of an account changes besides its opening
  balance and its active flag.
- **`.ua/`**: a generated, minified viewer of a map of the source, not part of the
  application.

## 7. Plan

Done: `LedgerLines`, `FinancialYears`, `VoucherLedger`, `Books`; `SQLiteTransaction`,
`AtomicCalls`; `CompanyStore`, `CompanyShelf`; `Sessions`; `Screens`; `VoucherEditor`; their runs and theorems.
What remains, in order of what would hurt most if it were wrong:

1. `postBatch` as an action of `VoucherLedger` (chunks that commit one by one).
2. `BillSettlement` - settlement as a fold over allocations, against a reference
   definition.
3. `Inventory` - movements and item invoices that follow the vouchers.
4. `AuditChain` - append, verify, rebuild, over an injective hash.
