-------------------------- MODULE SQLiteTransaction --------------------------
(***************************************************************************)
(* SQLiteDatabase.read and write: nested blocks on one handle, counted by  *)
(* inTransactionDepth and inReadTransactionDepth, over the transactions of *)
(* the SQLite engine.  The handle's recursive lock is held from the entry  *)
(* of the outermost block to its exit, so calls follow one another; what   *)
(* comes between two steps of a call is a failing statement or a crash.    *)
(***************************************************************************)
EXTENDS Integers, Sequences, FiniteSets

CONSTANTS MaxCalls,      \* bound on the outermost calls
          MaxNesting,    \* bound on the blocks open at once
          MaxRows,       \* bound on the rows one call writes
          CommitMayFail  \* whether the engine may fail a COMMIT

ASSUME TransactionAssumption ==
  /\ MaxCalls \in Nat /\ MaxNesting \in Nat /\ MaxRows \in Nat
  /\ CommitMayFail \in BOOLEAN

VARIABLES blocks,     \* the kinds of the blocks entered, outermost first
          raising,    \* an error is on its way out of the blocks
          depth,      \* inTransactionDepth
          readDepth,  \* inReadTransactionDepth
          inTx,       \* the engine has a transaction open
          pending,    \* rows written in the open transaction
          durable,    \* rows committed
          asked,      \* the rows each call has written so far
          outcome,    \* what each call reported
          commitFailed \* history: a COMMIT has failed

handleVars == <<blocks, raising, depth, readDepth>>
engineVars == <<inTx, pending, durable>>
callVars == <<asked, outcome>>
vars == <<blocks, raising, depth, readDepth, inTx, pending, durable, asked, outcome,
          commitFailed>>

Calls == 1..Len(outcome)
LastCall == Len(outcome)
Rows == (1..MaxCalls) \X (1..MaxRows)
RowsOf(c) == {r \in Rows : r[1] = c}
Outcomes == {"running", "returned", "threw", "lost"}

CallsTypeOK == /\ blocks \in Seq({"read", "write"})
               /\ raising \in BOOLEAN
               /\ depth \in Int
               /\ readDepth \in Int
               /\ inTx \in BOOLEAN
               /\ pending \subseteq Rows
               /\ durable \subseteq Rows
               /\ asked \in Seq(0..MaxRows)
               /\ outcome \in Seq(Outcomes)
               /\ Len(asked) = Len(outcome)

TypeOK == CallsTypeOK /\ commitFailed \in BOOLEAN

-----------------------------------------------------------------------------
Init == /\ blocks = <<>> /\ raising = FALSE /\ depth = 0 /\ readDepth = 0
        /\ inTx = FALSE /\ pending = {} /\ durable = {}
        /\ asked = <<>> /\ outcome = <<>> /\ commitFailed = FALSE

\* The engine's BEGIN, COMMIT, ROLLBACK and INSERT.
Begin == ~inTx /\ inTx' = TRUE /\ UNCHANGED <<pending, durable>>

Commit == /\ inTx /\ inTx' = FALSE
          /\ durable' = durable \cup pending /\ pending' = {}

Discard == inTx' = FALSE /\ pending' = {} /\ UNCHANGED durable

\* On an I/O error or a full disk the engine rolls the transaction back.
CommitFails == CommitMayFail /\ inTx /\ Discard

Store(row) == /\ UNCHANGED inTx
              /\ IF inTx THEN pending' = pending \cup {row} /\ UNCHANGED durable
                         ELSE durable' = durable \cup {row} /\ UNCHANGED pending

\* The depth that a block of this kind counts in, before and after.
DepthOf(kind) == IF kind = "write" THEN depth ELSE readDepth

SetDepth(kind, n) == IF kind = "write" THEN depth' = n /\ UNCHANGED readDepth
                                       ELSE readDepth' = n /\ UNCHANGED depth

\* Wrong: the call's row count is not started with the call.
StartCallUncounted ==
  IF blocks = <<>>
  THEN /\ LastCall < MaxCalls
       /\ outcome' = Append(outcome, "running")
       /\ UNCHANGED asked
  ELSE UNCHANGED callVars

\* The outermost block starts a call; an inner one belongs to the call.
StartCall == IF blocks = <<>>
             THEN /\ LastCall < MaxCalls
                  /\ asked' = Append(asked, 0)
                  /\ outcome' = Append(outcome, "running")
             ELSE UNCHANGED callVars

\* The call reports when its outermost block is left.
Report(result) == /\ UNCHANGED asked
                  /\ outcome' = IF Len(blocks) = 1
                                THEN [outcome EXCEPT ![LastCall] = result]
                                ELSE outcome

Innermost == blocks[Len(blocks)]
Leave == blocks' = SubSeq(blocks, 1, Len(blocks) - 1)

\* write (BEGIN IMMEDIATE) and read (BEGIN DEFERRED) up to their block.
Enter(kind) == /\ ~raising /\ Len(blocks) < MaxNesting
               /\ StartCall
               /\ IF DepthOf(kind) = 0 THEN Begin ELSE UNCHANGED engineVars
               /\ SetDepth(kind, DepthOf(kind) + 1)
               /\ blocks' = Append(blocks, kind)
               /\ UNCHANGED raising

\* BEGIN fails: a transaction is open already, or another handle on the file
\* holds the write lock longer than busy_timeout.  No depth has changed yet.
EnterFails(kind) == /\ ~raising /\ Len(blocks) < MaxNesting
                    /\ DepthOf(kind) = 0
                    /\ IF blocks = <<>>
                       THEN /\ LastCall < MaxCalls
                            /\ asked' = Append(asked, 0)
                            /\ outcome' = Append(outcome, "threw")
                            /\ UNCHANGED raising
                       ELSE raising' = TRUE /\ UNCHANGED callVars
                    /\ UNCHANGED <<blocks, depth, readDepth, engineVars>>

\* One statement of the innermost write block.
Statement == /\ blocks # <<>> /\ ~raising
             /\ Innermost = "write"
             /\ asked[LastCall] < MaxRows
             /\ Store(<<LastCall, asked[LastCall] + 1>>)
             /\ asked' = [asked EXCEPT ![LastCall] = @ + 1]
             /\ UNCHANGED <<handleVars, outcome>>

\* The block throws: a validation or constraint error, or an error on which
\* the engine has rolled the transaction back itself.
BlockThrows == /\ blocks # <<>> /\ ~raising
               /\ raising' = TRUE
               /\ UNCHANGED engineVars \/ Discard
               /\ UNCHANGED <<blocks, depth, readDepth, callVars>>

\* Wrong: the depth is compared before it is counted down, so no block commits.
ReturnUncommitted == /\ blocks # <<>> /\ ~raising
                     /\ SetDepth(Innermost, DepthOf(Innermost) - 1)
                     /\ IF DepthOf(Innermost) = 0 THEN Commit ELSE UNCHANGED engineVars
                     /\ Leave
                     /\ Report("returned")
                     /\ UNCHANGED raising

\* Wrong: every block commits, whatever is still open around it.
ReturnCommitsEach == /\ blocks # <<>> /\ ~raising
                     /\ SetDepth(Innermost, DepthOf(Innermost) - 1)
                     /\ IF inTx THEN Commit ELSE UNCHANGED engineVars
                     /\ Leave
                     /\ Report("returned")
                     /\ UNCHANGED raising

\* The block returns and the outermost one commits.
Return == /\ blocks # <<>> /\ ~raising
          /\ SetDepth(Innermost, DepthOf(Innermost) - 1)
          /\ IF DepthOf(Innermost) = 1 THEN Commit ELSE UNCHANGED engineVars
          /\ Leave
          /\ Report("returned")
          /\ UNCHANGED raising

\* COMMIT throws inside the do: the catch counts down a second time, finds
\* the depth to be -1 and so does not roll back.
ReturnThrows == /\ blocks # <<>> /\ ~raising
                /\ DepthOf(Innermost) = 1
                /\ CommitFails
                /\ SetDepth(Innermost, -1)
                /\ Leave
                /\ Report("threw")
                /\ raising' = (Len(blocks) > 1)

\* Wrong: the outermost block commits on its way out, as if it had returned.
CatchCommits == /\ blocks # <<>> /\ raising
                /\ SetDepth(Innermost, DepthOf(Innermost) - 1)
                /\ IF DepthOf(Innermost) = 1
                   THEN IF inTx THEN Commit ELSE UNCHANGED engineVars
                   ELSE UNCHANGED engineVars
                /\ Leave
                /\ Report("threw")
                /\ raising' = (Len(blocks) > 1)

\* Wrong: an error leaves the block without counting its depth down.
CatchUncounted == /\ blocks # <<>> /\ raising
                  /\ UNCHANGED <<depth, readDepth>>
                  /\ IF DepthOf(Innermost) = 1 THEN Discard ELSE UNCHANGED engineVars
                  /\ Leave
                  /\ Report("threw")
                  /\ raising' = (Len(blocks) > 1)

\* The catch: the outermost block rolls back; a failing ROLLBACK, of a
\* transaction the engine has already rolled back, is only logged.
Catch == /\ blocks # <<>> /\ raising
         /\ SetDepth(Innermost, DepthOf(Innermost) - 1)
         /\ IF DepthOf(Innermost) = 1 THEN Discard ELSE UNCHANGED engineVars
         /\ Leave
         /\ Report("threw")
         /\ raising' = (Len(blocks) > 1)

\* The process ends (not the power, as synchronous is NORMAL), or the handle
\* is closed, and the file is opened again: recovery drops what was not
\* committed.
Reopen == /\ Discard
          /\ blocks' = <<>> /\ raising' = FALSE /\ depth' = 0 /\ readDepth' = 0
          /\ outcome' = IF blocks = <<>> THEN outcome
                        ELSE [outcome EXCEPT ![LastCall] = "lost"]
          /\ UNCHANGED asked

Step == \/ \E kind \in {"read", "write"} : Enter(kind) \/ EnterFails(kind)
        \/ Statement \/ BlockThrows \/ Return \/ Catch \/ Reopen

Next == \/ Step /\ UNCHANGED commitFailed
        \/ ReturnThrows /\ commitFailed' = TRUE

Spec == Init /\ [][Next]_vars

-----------------------------------------------------------------------------
\* A call that returned has every row it wrote on disk, when the process ends too.
ReturnedIsDurable ==
  \A c \in Calls : outcome[c] = "returned" => {c} \X (1..asked[c]) \subseteq durable

\* A call that did not return has left nothing on disk.
OthersLeftNothing ==
  \A c \in Calls : outcome[c] # "returned" => durable \cap RowsOf(c) = {}

\* Rule R-3: "A thrown error rolls back the transaction."
ThrownLeavesNothing ==
  \A c \in Calls : outcome[c] = "threw" => durable \cap RowsOf(c) = {}

\* While no COMMIT has failed, a call that threw, was cut off by a crash or is
\* still running has left nothing on disk: write is all or nothing.
OthersLeaveNothing == ~commitFailed => OthersLeftNothing

\* Between calls no transaction is open and nothing is pending, however the
\* last call ended; and while no COMMIT has failed both depths are zero.
AtRest == blocks = <<>> => /\ ~inTx /\ pending = {}
                           /\ ~commitFailed => depth = 0 /\ readDepth = 0

\* Until a COMMIT fails, nested blocks, errors and crashes cannot be told from
\* calls that each do all they do in one step or nothing.
AtomicCallsOf == INSTANCE AtomicCalls WITH failed <- commitFailed
ImplementsAtomicCalls == AtomicCallsOf!AtomicSpec

\* The blocks open at once are of one kind and counted in its depth, and a
\* transaction is open while they are, unless an error has ended it.
BlocksCounted ==
  /\ \A i \in 1..Len(blocks) : blocks[i] = blocks[1]
  /\ depth = IF blocks # <<>> /\ blocks[1] = "write" THEN Len(blocks) ELSE 0
  /\ readDepth = IF blocks # <<>> /\ blocks[1] = "read" THEN Len(blocks) ELSE 0
  /\ raising => blocks # <<>>
  /\ inTx => blocks # <<>>
  /\ blocks # <<>> => inTx \/ raising

\* The rows of the running call are pending, and no others are.
CallsCounted ==
  /\ LastCall =< MaxCalls
  /\ blocks # <<>> => LastCall # 0
  /\ \A c \in Calls : (outcome[c] = "running") <=> (blocks # <<>> /\ c = LastCall)
  /\ ~inTx => pending = {}
  /\ inTx => pending = {LastCall} \X (1..asked[LastCall])
  /\ \A r \in durable : r[1] \in Calls

\* The inductive invariant, until a COMMIT fails.
IInv == CallsTypeOK /\ BlocksCounted /\ CallsCounted /\ ReturnedIsDurable /\ OthersLeftNothing

-----------------------------------------------------------------------------
Opened(kind) == {i \in 1..Len(blocks) : blocks[i] = kind}

\* A failed COMMIT leaves a depth too low, so the block that begins and ends a
\* transaction is an inner one afterwards, or there is none.  Still at most one
\* of the depths is positive, no block outlives its transaction but for an
\* error, and no transaction outlives its blocks.
TransactionOwned ==
  /\ depth =< Cardinality(Opened("write"))
  /\ readDepth =< Cardinality(Opened("read"))
  /\ ~(depth > 0 /\ readDepth > 0)
  /\ inTx => depth > 0 \/ readDepth > 0
  /\ depth > 0 \/ readDepth > 0 => inTx \/ raising
  /\ raising => blocks # <<>>

\* The rows of the running call are pending or on disk until an error is raised.
RowsKept ==
  /\ LastCall =< MaxCalls
  /\ ~inTx => pending = {}
  /\ blocks # <<>> => LastCall # 0 /\ outcome[LastCall] = "running"
  /\ blocks # <<>> /\ ~raising
       => {LastCall} \X (1..asked[LastCall]) \subseteq pending \cup durable

\* The inductive invariant, also when a COMMIT has failed.
FInv == TypeOK /\ TransactionOwned /\ RowsKept /\ ReturnedIsDurable
=============================================================================
