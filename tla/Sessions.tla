------------------------------ MODULE Sessions ------------------------------
(***************************************************************************)
(* The open handles of company files and the company on screen.            *)
(* DatabaseManager is an actor: each of its methods is one step, and keeps *)
(* one handle for each company.  AppEnvironment opens, closes and deletes  *)
(* companies, and BackupService exports them, in tasks that wait for the   *)
(* manager again and again; between two waits anything may have happened,  *)
(* and nothing orders the calls of different tasks.                        *)
(***************************************************************************)
EXTENDS Naturals

CONSTANTS
  Companies,
  MaxHandles,   \* bound: handles opened
  MaxTasks,     \* bound: tasks under way at once
  Nil           \* Swift's nil

Handles == 1..MaxHandles
Slots == 1..MaxTasks

\* A window's CompanyContext.  quiet: history, it was shown when nobody else
\* was about to close its company, and no deletion has reached it since.
Contexts == [company : Companies, handle : Handles, quiet : BOOLEAN]

OpenStages == {"opening", "granted", "showing"}
ExportStages == {"probing", "reopening", "using", "releasing"}
DeleteStages == {"deleting", "deleted"}

\* A task between two of its steps.  An export uses a handle twice, for the
\* checkpoint (round 1) and for its audit event (round 2), and owns the one it
\* asked for because it found none.
Tasks == [company : Companies,
          stage : OpenStages \cup ExportStages \cup DeleteStages \cup {"closing"},
          handle : Handles \cup {Nil}, owns : BOOLEAN, round : {1, 2}]

ASSUME SessionsAssumption ==
  /\ MaxHandles \in Nat /\ MaxTasks \in Nat
  /\ Nil \notin Companies \cup Handles \cup Contexts \cup Tasks

VARIABLES
  files,     \* each company's: to be made, there, or gone
  table,     \* DatabaseManager.openHandles
  live,      \* the handles SQLite has open
  drawn,     \* handles opened so far
  tasks,     \* the tasks under way
  isBusy,    \* env.isBusy
  context    \* env.companyContext

vars == <<files, table, live, drawn, tasks, isBusy, context>>
manager == <<table, live, drawn>>
window == <<isBusy, context>>

Init ==
  /\ files \in [Companies -> {"new", "there"}]
  /\ table = [c \in Companies |-> Nil] /\ live = {} /\ drawn = 0
  /\ tasks = [l \in Slots |-> Nil]
  /\ isBusy = FALSE /\ context = Nil

At(l, stage) == tasks[l] # Nil /\ tasks[l].stage = stage

Starts(l, c, stage) ==
  /\ tasks[l] = Nil
  /\ tasks' = [tasks EXCEPT ![l] = [company |-> c, stage |-> stage, handle |-> Nil,
                                    owns |-> FALSE, round |-> 1]]

Ends(l) == tasks' = [tasks EXCEPT ![l] = Nil]

-----------------------------------------------------------------------------
(* The manager *)

\* openCompany: the handle there is, or a new one.
Opens(c) ==
  \/ table[c] # Nil /\ UNCHANGED manager
  \/ /\ table[c] = Nil /\ files[c] = "there" /\ drawn < MaxHandles
     /\ drawn' = drawn + 1
     /\ live' = live \cup {drawn'}
     /\ table' = [table EXCEPT ![c] = drawn']

\* It throws: before there is a handle, or when the registry refuses the date
\* of a handle that is in the table already.
OpenThrows(c) == UNCHANGED manager \/ Opens(c)

\* Defect: the closed handle stays in the table.
ClosesOnly(c) ==
  /\ live' = live \ {table[c]}
  /\ UNCHANGED <<table, drawn>>

\* closeCompany: whoever else may hold the handle.
Closes(c) ==
  /\ live' = live \ {table[c]}
  /\ table' = [table EXCEPT ![c] = Nil]
  /\ UNCHANGED drawn

-----------------------------------------------------------------------------
(* Opening a company *)

\* The picker asks nothing of isBusy, the sheet of an open company does.
OpenAsked(l, c) ==
  /\ files[c] # "new"
  /\ context = Nil \/ ~isBusy
  /\ Starts(l, c, "opening") /\ isBusy' = TRUE
  /\ UNCHANGED <<files, manager, context>>

\* A company that was just created or restored is opened at once.
OpenMade(l, c) ==
  /\ files[c] = "new" /\ files' = [files EXCEPT ![c] = "there"]
  /\ Starts(l, c, "opening") /\ isBusy' = TRUE
  /\ UNCHANGED <<manager, context>>

\* Defect: the handle is looked up before the manager has opened it.
GrantsEarlier(l) ==
  /\ At(l, "opening")
  /\ Opens(tasks[l].company)
  /\ tasks' = [tasks EXCEPT ![l].stage = "granted", ![l].handle = table[tasks[l].company]]
  /\ UNCHANGED <<files, window>>

OpenGranted(l) ==
  /\ At(l, "opening")
  /\ Opens(tasks[l].company)
  /\ tasks' = [tasks EXCEPT ![l].stage = "granted", ![l].handle = table'[tasks[l].company]]
  /\ UNCHANGED <<files, window>>

\* Defect: isBusy is cleared by the way that succeeds alone.
RefusedBusy(l) ==
  /\ At(l, "opening") /\ OpenThrows(tasks[l].company)
  /\ Ends(l)
  /\ UNCHANGED <<files, window>>

OpenRefused(l) ==
  /\ At(l, "opening") /\ OpenThrows(tasks[l].company)
  /\ Ends(l) /\ isBusy' = FALSE
  /\ UNCHANGED <<files, context>>

\* Who will close the company's handle by its id when his turn comes.
Closer(t) == t.stage = "closing" \/ t.owns

Quiet(c) == \A l \in Slots : tasks[l] # Nil /\ tasks[l].company = c => ~Closer(tasks[l])

\* Back on the main actor: the year is read and the opening audited, which a
\* closed handle refuses; then the window has its company and loads its tree.
OpenApplied(l) ==
  /\ At(l, "granted") /\ tasks[l].handle \in live
  /\ tasks' = [tasks EXCEPT ![l].stage = "showing"]
  /\ context' = [company |-> tasks[l].company, handle |-> tasks[l].handle,
                 quiet |-> Quiet(tasks[l].company)]
  /\ UNCHANGED <<files, manager, isBusy>>

OpenFails(l) ==
  /\ At(l, "granted")
  /\ Ends(l) /\ isBusy' = FALSE
  /\ UNCHANGED <<files, manager, context>>

\* The tree is loaded, through the handle or not.
OpenShown(l) ==
  /\ At(l, "showing")
  /\ Ends(l) /\ isBusy' = FALSE
  /\ UNCHANGED <<files, manager, context>>

-----------------------------------------------------------------------------
(* Closing and deleting *)

\* The window lets go at once; a task that nobody awaits closes the handle.
CloseAsked(l) ==
  /\ context # Nil
  /\ Starts(l, context.company, "closing")
  /\ context' = Nil
  /\ UNCHANGED <<files, manager, isBusy>>

CloseRuns(l) ==
  /\ At(l, "closing")
  /\ Closes(tasks[l].company)
  /\ Ends(l)
  /\ UNCHANGED <<files, window>>

\* The sheet that deletes may be opened over the picker too.
DeleteAsked(l, c) ==
  /\ files[c] # "new" /\ ~isBusy
  /\ Starts(l, c, "deleting") /\ isBusy' = TRUE
  /\ UNCHANGED <<files, manager, context>>

\* The window's company, now without its handle.
Disturbed(c) ==
  IF context # Nil /\ context.company = c
  THEN context' = [context EXCEPT !.quiet = FALSE] ELSE UNCHANGED context

\* deleteCompanyFiles closes the handle first, and may throw with the files
\* removed or not; the window then keeps its context.
DeleteRuns(l) ==
  /\ At(l, "deleting")
  /\ Closes(tasks[l].company)
  /\ files' \in {files, [files EXCEPT ![tasks[l].company] = "gone"]}
  /\ Disturbed(tasks[l].company)
  /\ \/ /\ files'[tasks[l].company] = "gone"
        /\ tasks' = [tasks EXCEPT ![l].stage = "deleted"] /\ UNCHANGED isBusy
     \/ Ends(l) /\ isBusy' = FALSE

\* A window on the deleted company closes it as CloseAsked does, unless unsaved
\* input holds it up.
DeleteReturns(l) ==
  /\ At(l, "deleted") /\ isBusy' = FALSE
  /\ \/ /\ context # Nil /\ context.company = tasks[l].company
        /\ tasks' = [tasks EXCEPT ![l].stage = "closing"]
        /\ context' = Nil
     \/ Ends(l) /\ UNCHANGED context
  /\ UNCHANGED <<files, manager>>

-----------------------------------------------------------------------------
(* Exporting the company on screen *)

ExportAsked(l) ==
  /\ context # Nil
  /\ Starts(l, context.company, "probing")
  /\ UNCHANGED <<files, manager, window>>

\* Defect: it will close also the handle it found.
OwnsAny(l) ==
  /\ At(l, "probing")
  /\ tasks' = IF table[tasks[l].company] # Nil
              THEN [tasks EXCEPT ![l].stage = "using", ![l].owns = TRUE,
                                 ![l].handle = table[tasks[l].company]]
              ELSE [tasks EXCEPT ![l].stage = "reopening", ![l].owns = TRUE]
  /\ UNCHANGED <<files, manager, window>>

\* openHandle, the handle there is, if any.
ExportProbes(l) ==
  /\ At(l, "probing")
  /\ tasks' = IF table[tasks[l].company] # Nil
              THEN [tasks EXCEPT ![l].stage = "using", ![l].owns = FALSE,
                                 ![l].handle = table[tasks[l].company]]
              ELSE [tasks EXCEPT ![l].stage = "reopening", ![l].owns = TRUE]
  /\ UNCHANGED <<files, manager, window>>

\* By now another's open may have left a handle, which the export then shares.
ExportReopens(l) ==
  /\ At(l, "reopening")
  /\ Opens(tasks[l].company)
  /\ tasks' = [tasks EXCEPT ![l].stage = "using", ![l].handle = table'[tasks[l].company]]
  /\ UNCHANGED <<files, window>>

\* The second round, or the end.
Continues(l) ==
  IF tasks[l].round = 1
  THEN tasks' = [tasks EXCEPT ![l].round = 2, ![l].stage = "probing", ![l].owns = FALSE]
  ELSE Ends(l)

ExportUses(l) ==
  /\ At(l, "using") /\ tasks[l].handle \in live
  /\ IF tasks[l].owns
     THEN tasks' = [tasks EXCEPT ![l].stage = "releasing"] ELSE Continues(l)
  /\ UNCHANGED <<files, manager, window>>

ExportReleases(l) ==
  /\ At(l, "releasing")
  /\ Closes(tasks[l].company)
  /\ Continues(l)
  /\ UNCHANGED <<files, window>>

\* It throws: only after a failed audit event is what it owns released.
ExportFails(l) ==
  /\ \/ At(l, "probing") /\ Ends(l) /\ UNCHANGED manager
     \/ At(l, "reopening") /\ OpenThrows(tasks[l].company) /\ Ends(l)
     \/ /\ At(l, "using")
        /\ IF tasks[l].owns /\ tasks[l].round = 2
           THEN tasks' = [tasks EXCEPT ![l].stage = "releasing"] ELSE Ends(l)
        /\ UNCHANGED manager
  /\ UNCHANGED <<files, window>>

-----------------------------------------------------------------------------
OpenStep(l) == \/ OpenGranted(l) \/ OpenRefused(l) \/ OpenApplied(l) \/ OpenFails(l)
               \/ OpenShown(l)
ExportStep(l) == \/ ExportProbes(l) \/ ExportReopens(l) \/ ExportUses(l)
                 \/ ExportReleases(l) \/ ExportFails(l)
TaskStep(l) == \/ OpenStep(l) \/ CloseRuns(l) \/ DeleteRuns(l) \/ DeleteReturns(l)
               \/ ExportStep(l)

User == \/ \E l \in Slots, c \in Companies : OpenAsked(l, c) \/ OpenMade(l, c) \/ DeleteAsked(l, c)
        \/ \E l \in Slots : CloseAsked(l) \/ ExportAsked(l)

Next == User \/ \E l \in Slots : TaskStep(l)

\* A task that was started goes on; of the user nothing is assumed.
Fairness == \A l \in Slots : WF_vars(TaskStep(l))

Spec == Init /\ [][Next]_vars /\ Fairness

-----------------------------------------------------------------------------
(* Properties *)

\* The state has its shape, and a task that has been given a handle has one.
TypeOK ==
  /\ files \in [Companies -> {"new", "there", "gone"}]
  /\ table \in [Companies -> Handles \cup {Nil}]
  /\ live \subseteq 1..drawn /\ drawn \in 0..MaxHandles
  /\ tasks \in [Slots -> Tasks \cup {Nil}]
  /\ isBusy \in BOOLEAN
  /\ context \in Contexts \cup {Nil}
  /\ \A l \in Slots : At(l, "granted") \/ At(l, "showing") \/ At(l, "using")
                        => tasks[l].handle \in Handles

\* DatabaseManager.openHandles: the handles SQLite has open are those of the
\* table, one for each company, however opens, closes, exports and deletions
\* interleave; so nobody is given a closed handle, no file is open twice, and
\* no handle is left that no closeCompany reaches.
TableHasLive ==
  /\ live = {table[c] : c \in Companies} \ {Nil}
  /\ \A c, d \in Companies : table[c] # Nil /\ table[c] = table[d] => c = d

\* AppEnvironment.applyOpenCompany: a window that takes its company when no
\* late close and no export is about to close it keeps an open handle of that
\* company until it lets go or the company is deleted, whatever is asked in
\* between.
SessionKeepsHandle ==
  context # Nil /\ context.quiet =>
    context.handle \in live /\ table[context.company] = context.handle

\* env.isBusy is up only while an open or a deletion is under way that will
\* clear it, though two of them may overlap, each of which raises it and lowers
\* it alone, and closes and exports come and go between them.
BusyIsOwned ==
  isBusy => \E l \in Slots : tasks[l] # Nil /\ tasks[l].stage \in OpenStages \cup DeleteStages

\* env.isBusy, which holds up the sheet that opens and deletes companies, is
\* cleared again, whatever throws.
BusyEnds == isBusy ~> ~isBusy
=============================================================================
