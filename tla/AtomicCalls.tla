----------------------------- MODULE AtomicCalls -----------------------------
(***************************************************************************)
(* What SQLiteDatabase.write promises the services: calls one after the    *)
(* other, each of which puts all its rows on disk as it returns, or ends   *)
(* otherwise and puts none.  Nothing is promised once a commit has failed. *)
(***************************************************************************)
EXTENDS Naturals, Sequences

CONSTANT MaxRows  \* bound on the rows of one call

VARIABLES outcome,  \* what each call reported
          durable,  \* the rows <<call, number>> on disk
          failed    \* a commit has failed

atomicVars == <<outcome, durable, failed>>

Last == Len(outcome)

Running == outcome # <<>> /\ outcome[Last] = "running"

AtomicInit == outcome = <<>> /\ durable = {} /\ failed = FALSE

\* A call begins, or is refused.
Begin == /\ ~Running
         /\ \E result \in {"running", "threw"} : outcome' = Append(outcome, result)
         /\ UNCHANGED durable

\* The call returns and its rows are on disk, in one step.
Return == /\ Running
          /\ outcome' = [outcome EXCEPT ![Last] = "returned"]
          /\ \E n \in 0..MaxRows : durable' = durable \cup ({Last} \X (1..n))

\* The call throws or is cut off: the disk is as it was before the call.
GiveUp == /\ Running
          /\ \E result \in {"threw", "lost"} : outcome' = [outcome EXCEPT ![Last] = result]
          /\ UNCHANGED durable

AtomicNext == \/ (Begin \/ Return \/ GiveUp) /\ UNCHANGED failed
              \/ failed' = TRUE

AtomicSpec == AtomicInit /\ [][AtomicNext]_atomicVars
=============================================================================
