--------------------------- MODULE Sessions_proofs ---------------------------
(***************************************************************************)
(* Proofs about Sessions, for every set of companies, every number of      *)
(* tasks under way and of handles opened: the manager's table and SQLite   *)
(* agree, a window keeps the handle it was given in quiet, and the busy    *)
(* flag has a task that clears it.                                         *)
(***************************************************************************)
EXTENDS Sessions, TLAPS

\* What the type invariant says of a task beyond its record.
HasHandle(t) == t.stage \in {"granted", "showing", "using"} => t.handle \in Handles

\* A handle that was granted is the company's for as long as it is open: the
\* numbers of handles are never used again.
GrantSound(t) ==
  t.stage = "granted" =>
    t.handle \in 1..drawn /\ (t.handle \in live => table[t.company] = t.handle)

\* Only what owns its handle is about to close it.
OwnerReleases(t) == t.stage = "releasing" => t.owns

TasksSound ==
  \A l \in Slots : tasks[l] # Nil => GrantSound(tasks[l]) /\ OwnerReleases(tasks[l])

\* SessionKeepsHandle is not inductive: nobody is to come who closes it either.
ContextSound ==
  context # Nil /\ context.quiet =>
    /\ context.handle \in live /\ table[context.company] = context.handle
    /\ Quiet(context.company)

IInv == TypeOK /\ TableHasLive /\ TasksSound /\ ContextSound

LEMMA HandleIsNotNil == Nil \notin Handles /\ Handles \subseteq Nat
BY SessionsAssumption DEF Handles

LEMMA TaskFacts ==
  ASSUME TypeOK, NEW l \in Slots, tasks[l] # Nil
  PROVE  tasks[l] \in Tasks /\ tasks[l].company \in Companies /\ HasHandle(tasks[l])
BY DEF TypeOK, Tasks, HasHandle, At

LEMMA TableFacts ==
  ASSUME TypeOK, TableHasLive, NEW c \in Companies, table[c] # Nil
  PROVE  table[c] \in Handles /\ table[c] \in live /\ table[c] \in 1..drawn
BY DEF TypeOK, TableHasLive

-----------------------------------------------------------------------------
(* The manager *)

ManagerOK == /\ table \in [Companies -> Handles \cup {Nil}]
             /\ live \subseteq 1..drawn /\ drawn \in 0..MaxHandles
             /\ TableHasLive

\* Opening keeps every handle there is, and the company has one afterwards.
LEMMA OpensKeeps ==
  ASSUME TypeOK, TableHasLive, NEW c \in Companies, Opens(c)
  PROVE  /\ ManagerOK'
         /\ table'[c] \in live' /\ table'[c] \in Handles /\ table'[c] \in 1..drawn'
         /\ 1..drawn \subseteq 1..drawn'
         /\ live' \cap 1..drawn \subseteq live /\ live \subseteq live'
         /\ \A d \in Companies : table[d] # Nil => table'[d] = table[d]
<1> USE SessionsAssumption
<1>1. CASE table[c] # Nil /\ UNCHANGED manager
  BY <1>1, TableFacts DEF TypeOK, TableHasLive, ManagerOK, manager
<1>2. CASE /\ table[c] = Nil /\ drawn < MaxHandles /\ drawn' = drawn + 1
           /\ live' = live \cup {drawn'} /\ table' = [table EXCEPT ![c] = drawn']
  <2>1. drawn \in Nat /\ drawn' \in Handles /\ drawn' \notin 1..drawn /\ drawn' # Nil
    BY <1>2, HandleIsNotNil DEF TypeOK, Handles
  <2>2. /\ table' \in [Companies -> Handles \cup {Nil}] /\ table'[c] = drawn'
        /\ \A d \in Companies \ {c} : table'[d] = table[d]
    BY <1>2, <2>1 DEF TypeOK
  <2>3. /\ live' \subseteq 1..drawn' /\ drawn' \in 0..MaxHandles
        /\ 1..drawn \subseteq 1..drawn'
    BY <1>2, <2>1 DEF TypeOK
  <2>4. live' = {table'[d] : d \in Companies} \ {Nil}
    BY <1>2, <2>1, <2>2 DEF TableHasLive
  <2>5. \A d, e \in Companies : table'[d] # Nil /\ table'[d] = table'[e] => d = e
    BY <2>1, <2>2, TableFacts DEF TableHasLive
  <2>6. QED BY <1>2, <2>1, <2>2, <2>3, <2>4, <2>5 DEF TypeOK, ManagerOK, TableHasLive
<1>3. QED BY <1>1, <1>2 DEF Opens

\* Closing takes the handle of one company and of no other.
LEMMA ClosesKeeps ==
  ASSUME TypeOK, TableHasLive, NEW c \in Companies, Closes(c)
  PROVE  /\ ManagerOK'
         /\ UNCHANGED drawn /\ live' = live \ {table[c]}
         /\ \A d \in Companies \ {c} : /\ table'[d] = table[d]
                                       /\ table[d] # Nil => table[d] \in live'
<1>1. /\ table' \in [Companies -> Handles \cup {Nil}] /\ table'[c] = Nil
      /\ \A d \in Companies \ {c} : table'[d] = table[d]
      /\ UNCHANGED drawn /\ live' = live \ {table[c]}
  BY DEF Closes, TypeOK
<1>2. \A d \in Companies \ {c} : table[d] # Nil => table[d] \in live'
  BY <1>1, TableFacts DEF TableHasLive
<1>3. live' = {table'[d] : d \in Companies} \ {Nil}
  BY <1>1, <1>2 DEF TableHasLive
<1>4. QED BY <1>1, <1>2, <1>3 DEF TypeOK, ManagerOK, TableHasLive

\* What a step asks of the manager: nothing, an open, or a close.
Managed(c) == UNCHANGED manager \/ Opens(c) \/ Closes(c)

LEMMA GrantKept ==
  ASSUME TypeOK, TableHasLive, NEW c \in Companies, Managed(c), NEW t \in Tasks,
         GrantSound(t)
  PROVE  GrantSound(t)'
<1> SUFFICES ASSUME t.stage = "granted"
             PROVE  GrantSound(t)'
  BY DEF GrantSound
<1>1. t.company \in Companies /\ t.handle \in 1..drawn /\ t.handle # Nil
      /\ (t.handle \in live => table[t.company] = t.handle)
  BY HandleIsNotNil, SessionsAssumption DEF Tasks, GrantSound, TypeOK, Handles
<1>2. CASE UNCHANGED manager
  BY <1>1, <1>2 DEF GrantSound, manager
<1>3. CASE Opens(c)
  BY <1>1, <1>3, OpensKeeps DEF GrantSound
<1>4. CASE Closes(c)
  BY <1>1, <1>4, ClosesKeeps DEF GrantSound
<1>5. QED BY <1>2, <1>3, <1>4 DEF Managed

-----------------------------------------------------------------------------
(* A step of one task *)

\* Task l becomes t, or ends.
Becomes(l, t) == tasks' = [tasks EXCEPT ![l] = t]

LEMMA StepKeeps ==
  ASSUME TypeOK, TableHasLive, TasksSound, NEW c \in Companies, Managed(c),
         NEW l \in Slots, NEW t \in Tasks \cup {Nil}, Becomes(l, t),
         t # Nil => HasHandle(t) /\ GrantSound(t)' /\ OwnerReleases(t),
         files' \in [Companies -> {"new", "there", "gone"}],
         isBusy' \in BOOLEAN, context' \in Contexts \cup {Nil}
  PROVE  TypeOK' /\ TableHasLive' /\ TasksSound'
<1>1. ManagerOK'
  <2>1. CASE UNCHANGED manager
    BY <2>1 DEF manager, ManagerOK, TypeOK, TableHasLive
  <2>2. QED BY <2>1, OpensKeeps, ClosesKeeps DEF Managed
<1>2. /\ tasks' \in [Slots -> Tasks \cup {Nil}] /\ tasks'[l] = t
      /\ \A m \in Slots \ {l} : tasks'[m] = tasks[m]
  BY DEF TypeOK, Becomes
<1>3. \A m \in Slots : tasks'[m] # Nil => HasHandle(tasks'[m])
  BY <1>2, TaskFacts
<1>4. TypeOK'
  BY <1>1, <1>2, <1>3 DEF TypeOK, ManagerOK, At, HasHandle
<1>5. ASSUME NEW m \in Slots, tasks'[m] # Nil
      PROVE  GrantSound(tasks[m])' /\ OwnerReleases(tasks[m])'
  <2>1. CASE m = l
    BY <1>2, <1>5, <2>1 DEF GrantSound, OwnerReleases
  <2>2. CASE m # l
    <3>1. tasks'[m] = tasks[m] /\ tasks[m] \in Tasks /\ GrantSound(tasks[m])
          /\ OwnerReleases(tasks[m])
      BY <1>2, <1>5, <2>2, TaskFacts DEF TasksSound
    <3>2. PICK u \in Tasks : u = tasks[m]
      BY <3>1
    <3>3. GrantSound(u)'
      BY <3>1, <3>2, GrantKept
    <3>4. QED BY <3>1, <3>2, <3>3 DEF GrantSound, OwnerReleases
  <2>3. QED BY <2>1, <2>2
<1>6. TasksSound'
  BY <1>5 DEF TasksSound, GrantSound, OwnerReleases
<1>7. QED BY <1>1, <1>4, <1>6 DEF ManagerOK

\* A window's handle is safe from an open, from a close of another company, and
\* from a task that does not come to close it.
LEMMA ContextKept ==
  ASSUME IInv, NEW c \in Companies, Managed(c),
         NEW l \in Slots, NEW t \in Tasks \cup {Nil}, Becomes(l, t),
         \/ UNCHANGED context
         \/ context' = Nil
         \/ context # Nil /\ context'.quiet = FALSE,
         context' # Nil /\ context'.quiet =>
           /\ t # Nil /\ t.company = context.company => ~Closer(t)
           /\ Closes(c) => c # context.company
  PROVE  ContextSound'
<1> SUFFICES ASSUME context' # Nil, context'.quiet
             PROVE  ContextSound'
  BY DEF ContextSound
<1> DEFINE d == context.company
<1>1. context' = context /\ d \in Companies /\ context.handle \in Handles
  BY DEF IInv, TypeOK, Contexts
<1>2. context.handle \in live /\ table[d] = context.handle /\ Quiet(d)
      /\ context.handle # Nil
  BY <1>1, HandleIsNotNil DEF IInv, ContextSound
<1>3. Quiet(d)'
  BY <1>1, <1>2 DEF Quiet, Becomes, IInv, TypeOK
<1>4. context.handle \in live' /\ table'[d] = context.handle
  <2>1. CASE UNCHANGED manager
    BY <1>2, <2>1 DEF manager
  <2>2. CASE Opens(c)
    BY <1>1, <1>2, <2>2, OpensKeeps DEF IInv
  <2>3. CASE Closes(c)
    BY <1>1, <1>2, <2>3, ClosesKeeps DEF IInv
  <2>4. QED BY <2>1, <2>2, <2>3 DEF Managed
<1>5. QED BY <1>1, <1>3, <1>4 DEF ContextSound, Quiet

\* A task that is neither granted nor releasing asks nothing more of its step.
LEMMA PlainTask ==
  ASSUME NEW t, t.stage \notin {"granted", "releasing"}
  PROVE  GrantSound(t)' /\ OwnerReleases(t)
BY DEF GrantSound, OwnerReleases

\* A task that the user starts.
LEMMA StartKeeps ==
  ASSUME IInv, NEW l \in Slots, NEW c \in Companies,
         NEW stage \in {"opening", "closing", "deleting", "probing"}, Starts(l, c, stage),
         UNCHANGED manager, files' \in [Companies -> {"new", "there", "gone"}],
         isBusy' \in BOOLEAN,
         \/ UNCHANGED context /\ stage # "closing"
         \/ context' = Nil
  PROVE  IInv'
<1> DEFINE t == [company |-> c, stage |-> stage, handle |-> Nil, owns |-> FALSE, round |-> 1]
<1>1. t \in Tasks /\ Becomes(l, t) /\ t # Nil
  <2>1. t \in Tasks
    BY DEF Tasks, OpenStages, ExportStages, DeleteStages
  <2>2. QED BY <2>1, SessionsAssumption DEF Starts, Becomes
<1>2. HasHandle(t) /\ GrantSound(t)' /\ OwnerReleases(t)
  BY PlainTask DEF HasHandle
<1>3. Managed(c) /\ (context' # Nil => ~Closer(t))
  BY DEF Managed, Closer
<1>4. context' \in Contexts \cup {Nil}
  BY DEF IInv, TypeOK
<1> HIDE DEF t
<1>5. TypeOK' /\ TableHasLive' /\ TasksSound'
  BY <1>1, <1>2, <1>3, <1>4, StepKeeps DEF IInv
<1>6. CASE context' = Nil
  BY <1>5, <1>6 DEF IInv, ContextSound
<1>7. CASE context' # Nil
  <2>1. context' # Nil /\ context'.quiet => (Closes(c) => c # context.company)
    <3> SUFFICES ASSUME context' # Nil, context'.quiet, Closes(c), c = context.company
                 PROVE  FALSE
      OBVIOUS
    <3>1. UNCHANGED context
      BY <1>7
    <3>2. context.handle \in live /\ table[c] = context.handle
      BY <3>1 DEF IInv, ContextSound
    <3>3. QED BY <3>2 DEF Closes, manager
  <2>2. UNCHANGED context
    BY <1>7
  <2>3. ContextSound'
    BY <1>1, <1>3, <2>1, <2>2, ContextKept
  <2>4. QED BY <1>5, <2>3 DEF IInv
<1>8. QED BY <1>6, <1>7

\* A task that goes on, or ends.
LEMMA TaskKeeps ==
  ASSUME IInv, NEW c \in Companies, Managed(c),
         NEW l \in Slots, NEW t \in Tasks \cup {Nil}, Becomes(l, t),
         t # Nil => HasHandle(t) /\ GrantSound(t)' /\ OwnerReleases(t),
         files' \in [Companies -> {"new", "there", "gone"}],
         isBusy' \in BOOLEAN, context' \in Contexts \cup {Nil},
         \/ UNCHANGED context
         \/ context' = Nil
         \/ context # Nil /\ context'.quiet = FALSE,
         context' # Nil /\ context'.quiet =>
           /\ t # Nil /\ t.company = context.company => ~Closer(t)
           /\ Closes(c) => c # context.company
  PROVE  IInv'
<1>1. TypeOK' /\ TableHasLive' /\ TasksSound'
  BY StepKeeps DEF IInv
<1>2. ContextSound'
  BY ContextKept
<1>3. QED BY <1>1, <1>2 DEF IInv

\* The window's company has no closer, if the window took it in quiet.
LEMMA NoCloser ==
  ASSUME IInv, NEW l \in Slots, tasks[l] # Nil, context # Nil, context.quiet,
         tasks[l].company = context.company
  PROVE  ~Closer(tasks[l]) /\ table[context.company] # Nil
BY HandleIsNotNil DEF IInv, TypeOK, Contexts, ContextSound, Quiet

-----------------------------------------------------------------------------
(* Opening *)

LEMMA OpenAskedKeeps ==
  ASSUME IInv, NEW l \in Slots, NEW c \in Companies,
         OpenAsked(l, c) \/ OpenMade(l, c) \/ DeleteAsked(l, c)
  PROVE  IInv'
<1>1. files \in [Companies -> {"new", "there", "gone"}]
  BY DEF IInv, TypeOK
<1>2. CASE OpenAsked(l, c)
  BY <1>1, <1>2, StartKeeps DEF OpenAsked
<1>3. CASE OpenMade(l, c)
  BY <1>1, <1>3, StartKeeps DEF OpenMade
<1>4. CASE DeleteAsked(l, c)
  BY <1>1, <1>4, StartKeeps DEF DeleteAsked
<1>5. QED BY <1>2, <1>3, <1>4

LEMMA CloseAskedKeeps ==
  ASSUME IInv, NEW l \in Slots, CloseAsked(l) \/ ExportAsked(l)
  PROVE  IInv'
<1>1. /\ files \in [Companies -> {"new", "there", "gone"}] /\ isBusy \in BOOLEAN
      /\ context \in Contexts /\ context.company \in Companies
  BY DEF IInv, TypeOK, CloseAsked, ExportAsked, Contexts
<1>2. CASE CloseAsked(l)
  BY <1>1, <1>2, StartKeeps DEF CloseAsked
<1>3. CASE ExportAsked(l)
  BY <1>1, <1>3, StartKeeps DEF ExportAsked, window
<1>4. QED BY <1>2, <1>3

LEMMA OpenGrantedKeeps ==
  ASSUME IInv, NEW l \in Slots, OpenGranted(l)
  PROVE  IInv'
<1> DEFINE c == tasks[l].company
           g == [tasks[l] EXCEPT !.stage = "granted", !.handle = table'[c]]
<1>1. tasks[l] # Nil /\ tasks[l] \in Tasks /\ c \in Companies /\ Opens(c)
  BY TaskFacts DEF OpenGranted, At, IInv
<1>2. table'[c] \in Handles /\ table'[c] \in 1..drawn'
  BY <1>1, OpensKeeps DEF IInv
<1>3. PICK t \in Tasks : /\ t = g /\ t.stage = "granted" /\ t.handle = table'[c]
                         /\ t.company = c /\ t.owns = tasks[l].owns
  <2>1. g \in Tasks
    BY <1>1, <1>2 DEF Tasks, OpenStages
  <2>2. QED BY <2>1, <1>1 DEF Tasks
<1>4. Becomes(l, t) /\ Managed(c)
  BY <1>1, <1>3 DEF OpenGranted, Becomes, Managed
<1>5. HasHandle(t) /\ GrantSound(t)' /\ OwnerReleases(t)
  BY <1>2, <1>3 DEF HasHandle, GrantSound, OwnerReleases
<1>6. context # Nil /\ context.quiet =>
        /\ t.company = context.company => ~Closer(t)
        /\ Closes(c) => c # context.company
  <2>1. ASSUME context # Nil, context.quiet, c = context.company
        PROVE  ~Closer(t) /\ ~Closes(c)
    <3>1. ~Closer(tasks[l]) /\ table[c] \in live
      BY <1>1, <2>1, NoCloser, TableFacts DEF IInv
    <3>2. table[c] \in live'
      BY <1>1, <3>1, OpensKeeps DEF IInv
    <3>3. QED BY <1>3, <3>1, <3>2 DEF Closer, Closes
  <2>2. QED BY <1>3, <2>1
<1>7. QED BY <1>1, <1>4, <1>5, <1>3, <1>6, TaskKeeps DEF OpenGranted, window, IInv, TypeOK

\* A task that ends, with an open tried or nothing asked of the manager.
LEMMA EndKeeps ==
  ASSUME IInv, NEW l \in Slots, tasks[l] # Nil, OpenThrows(tasks[l].company), Ends(l),
         UNCHANGED <<files, context>>, isBusy' \in BOOLEAN
  PROVE  IInv'
<1> DEFINE c == tasks[l].company
<1>1. c \in Companies /\ Managed(c) /\ Becomes(l, Nil)
  BY TaskFacts DEF IInv, OpenThrows, Managed, Ends, Becomes
<1>2. context # Nil /\ context.quiet => (Closes(c) => c # context.company)
  <2>1. ASSUME context # Nil, context.quiet, c = context.company
        PROVE  ~Closes(c)
    <3>1. table[c] \in live
      BY <1>1, <2>1, NoCloser, TableFacts DEF IInv
    <3>2. table[c] \in live'
      BY <1>1, <3>1, OpensKeeps DEF IInv, OpenThrows, manager
    <3>3. QED BY <3>2 DEF Closes
  <2>2. QED BY <2>1
<1>3. QED BY <1>1, <1>2, TaskKeeps DEF IInv, TypeOK

LEMMA OpenEndsKeep ==
  ASSUME IInv, NEW l \in Slots, OpenRefused(l) \/ OpenFails(l) \/ OpenShown(l)
  PROVE  IInv'
<1>1. /\ tasks[l] # Nil /\ OpenThrows(tasks[l].company) /\ Ends(l)
      /\ UNCHANGED <<files, context>> /\ isBusy' \in BOOLEAN
  BY DEF OpenRefused, OpenFails, OpenShown, At, OpenThrows
<1>2. QED BY <1>1, EndKeeps

LEMMA OpenAppliedKeeps ==
  ASSUME IInv, NEW l \in Slots, OpenApplied(l)
  PROVE  IInv'
<1> DEFINE s == [tasks[l] EXCEPT !.stage = "showing"]
<1>0. PICK c \in Companies : c = tasks[l].company
  BY TaskFacts DEF OpenApplied, At, IInv
<1>1. /\ tasks[l] # Nil /\ tasks[l] \in Tasks
      /\ tasks[l].stage = "granted" /\ tasks[l].handle \in live
      /\ tasks[l].handle \in Handles
  BY TaskFacts DEF OpenApplied, At, IInv, HasHandle
<1>2. table[c] = tasks[l].handle
  BY <1>0, <1>1 DEF IInv, TasksSound, GrantSound
<1>3. PICK t \in Tasks : /\ t = s /\ t.stage = "showing" /\ t.handle \in Handles
                         /\ t.company = c /\ t.owns = tasks[l].owns
  <2>1. s \in Tasks
    BY <1>1 DEF Tasks, OpenStages
  <2>2. QED BY <2>1, <1>0, <1>1 DEF Tasks
<1>4. Becomes(l, t) /\ Managed(c) /\ UNCHANGED <<files, manager, isBusy>>
      /\ context' = [company |-> c, handle |-> tasks[l].handle, quiet |-> Quiet(c)]
  BY <1>0, <1>3 DEF OpenApplied, Becomes, Managed
<1>5. HasHandle(t) /\ GrantSound(t)' /\ OwnerReleases(t)
  BY <1>3 DEF HasHandle, GrantSound, OwnerReleases
<1>6. Quiet(c) \in BOOLEAN
  BY DEF Quiet
<1>7. context' \in Contexts /\ context'.company = c /\ context'.handle = tasks[l].handle
      /\ context'.quiet = Quiet(c)
  BY <1>1, <1>4, <1>6 DEF Contexts
<1>8. Quiet(c) => Quiet(c)'
  BY <1>0, <1>1, <1>3, <1>4 DEF Quiet, Becomes, Closer, IInv, TypeOK
<1>9. TypeOK' /\ TableHasLive' /\ TasksSound'
  BY <1>1, <1>3, <1>4, <1>5, <1>7, StepKeeps DEF IInv, TypeOK
<1>10. ContextSound'
  BY <1>1, <1>2, <1>4, <1>7, <1>8 DEF ContextSound, Quiet, manager
<1>11. QED BY <1>9, <1>10 DEF IInv

-----------------------------------------------------------------------------
(* Closing and deleting *)

LEMMA CloseRunsKeeps ==
  ASSUME IInv, NEW l \in Slots, CloseRuns(l)
  PROVE  IInv'
<1> DEFINE c == tasks[l].company
<1>1. tasks[l] # Nil /\ c \in Companies /\ Managed(c) /\ Becomes(l, Nil) /\ Closer(tasks[l])
  BY TaskFacts DEF CloseRuns, At, IInv, Managed, Ends, Becomes, Closer
<1>2. context # Nil /\ context.quiet => c # context.company
  BY <1>1, NoCloser
<1>3. QED BY <1>1, <1>2, TaskKeeps DEF CloseRuns, window, IInv, TypeOK

LEMMA DeleteRunsKeeps ==
  ASSUME IInv, NEW l \in Slots, DeleteRuns(l)
  PROVE  IInv'
<1> DEFINE c == tasks[l].company
           d == [tasks[l] EXCEPT !.stage = "deleted"]
<1>1. /\ tasks[l] # Nil /\ tasks[l] \in Tasks /\ c \in Companies /\ Managed(c)
      /\ Disturbed(c)
  BY TaskFacts DEF DeleteRuns, At, IInv, Managed
<1>2. files' \in [Companies -> {"new", "there", "gone"}] /\ isBusy' \in BOOLEAN
  BY <1>1 DEF DeleteRuns, IInv, TypeOK
<1>3. PICK t \in Tasks : t = d /\ t.stage = "deleted" /\ t.company = c
  <2>1. d \in Tasks
    BY <1>1 DEF Tasks, DeleteStages
  <2>2. QED BY <2>1, <1>1 DEF Tasks
<1>8. HasHandle(t) /\ GrantSound(t)' /\ OwnerReleases(t)
  BY <1>3, PlainTask DEF HasHandle
<1>4. /\ context' \in Contexts \cup {Nil}
      /\ UNCHANGED context \/ (context # Nil /\ context'.quiet = FALSE)
      /\ context' # Nil /\ context'.quiet => UNCHANGED context /\ c # context.company
  <2>1. context \in Contexts \cup {Nil}
    BY DEF IInv, TypeOK
  <2>2. QED BY <1>1, <2>1 DEF Disturbed, Contexts
<1>5. context' # Nil /\ context'.quiet => (t.company = context.company => ~Closer(t))
  BY <1>3, <1>4
<1>6. Becomes(l, t) \/ Becomes(l, Nil)
  BY <1>3 DEF DeleteRuns, Becomes, Ends
<1>7. QED BY <1>1, <1>2, <1>3, <1>4, <1>5, <1>6, <1>8, TaskKeeps

LEMMA DeleteReturnsKeeps ==
  ASSUME IInv, NEW l \in Slots, DeleteReturns(l)
  PROVE  IInv'
<1> DEFINE c == tasks[l].company
           e == [tasks[l] EXCEPT !.stage = "closing"]
<1>1. tasks[l] # Nil /\ tasks[l] \in Tasks /\ c \in Companies /\ Managed(c)
  BY TaskFacts DEF DeleteReturns, At, IInv, Managed
<1>2. PICK t \in Tasks : t = e /\ t.stage = "closing"
  <2>1. e \in Tasks
    BY <1>1 DEF Tasks
  <2>2. QED BY <2>1, <1>1 DEF Tasks
<1>6. HasHandle(t) /\ GrantSound(t)' /\ OwnerReleases(t)
  BY <1>2, PlainTask DEF HasHandle
<1>3. CASE Becomes(l, t) /\ context' = Nil
  BY <1>1, <1>2, <1>3, <1>6, TaskKeeps DEF DeleteReturns, IInv, TypeOK
<1>4. CASE Ends(l) /\ UNCHANGED context
  BY <1>1, <1>4, EndKeeps DEF DeleteReturns, OpenThrows
<1>5. QED BY <1>2, <1>3, <1>4 DEF DeleteReturns, Becomes

-----------------------------------------------------------------------------
(* Exporting *)

\* An export that goes on owns a handle only if it did before, or if the company
\* has none.
LEMMA ExportGoesOn ==
  ASSUME IInv, NEW l \in Slots, tasks[l] # Nil, NEW t \in Tasks, Becomes(l, t),
         t.company = tasks[l].company, t.stage \in ExportStages, HasHandle(t),
         OwnerReleases(t), t.owns => tasks[l].owns \/ table[t.company] = Nil,
         OpenThrows(t.company), UNCHANGED <<files, window>>
  PROVE  IInv'
<1>1. t.company \in Companies /\ Managed(t.company)
  BY DEF Tasks, OpenThrows, Managed
<1>2. GrantSound(t)'
  BY DEF GrantSound, ExportStages
<1>3. ASSUME context # Nil, context.quiet, t.company = context.company
      PROVE  ~Closer(t) /\ ~Closes(t.company)
  <2>1. ~Closer(tasks[l]) /\ table[t.company] # Nil
    BY <1>3, NoCloser
  <2>2. table[t.company] \in live
    BY <1>1, <2>1, TableFacts DEF IInv
  <2>3. table[t.company] \in live'
    BY <1>1, <2>2, OpensKeeps DEF IInv, OpenThrows, manager
  <2>4. QED BY <2>1, <2>3 DEF Closer, Closes, ExportStages
<1>4. QED BY <1>1, <1>2, <1>3, TaskKeeps DEF IInv, TypeOK, window

LEMMA ExportProbesKeeps ==
  ASSUME IInv, NEW l \in Slots, ExportProbes(l)
  PROVE  IInv'
<1>1. tasks[l] # Nil /\ tasks[l] \in Tasks /\ tasks[l].company \in Companies
  BY TaskFacts DEF ExportProbes, At, IInv
<1>2. CASE table[tasks[l].company] # Nil
  <2> DEFINE g == [tasks[l] EXCEPT !.stage = "using", !.owns = FALSE,
                                   !.handle = table[tasks[l].company]]
  <2>1. g \in Tasks /\ g.handle \in Handles
    BY <1>1, <1>2, TableFacts DEF Tasks, ExportStages, IInv
  <2>2. PICK t \in Tasks : /\ t = g /\ t.company = tasks[l].company /\ t.stage = "using"
                           /\ ~t.owns /\ t.handle \in Handles
    BY <2>1, <1>1 DEF Tasks
  <2>3. Becomes(l, t) /\ HasHandle(t) /\ OwnerReleases(t) /\ t.stage \in ExportStages
    BY <1>2, <2>2 DEF ExportProbes, Becomes, HasHandle, OwnerReleases, ExportStages
  <2>4. QED BY <1>1, <2>2, <2>3, ExportGoesOn DEF ExportProbes, OpenThrows
<1>3. CASE table[tasks[l].company] = Nil
  <2> DEFINE g == [tasks[l] EXCEPT !.stage = "reopening", !.owns = TRUE]
  <2>1. g \in Tasks
    BY <1>1 DEF Tasks, ExportStages
  <2>2. PICK t \in Tasks : t = g /\ t.company = tasks[l].company /\ t.stage = "reopening"
    BY <2>1, <1>1 DEF Tasks
  <2>3. Becomes(l, t) /\ HasHandle(t) /\ OwnerReleases(t) /\ t.stage \in ExportStages
    BY <1>3, <2>2 DEF ExportProbes, Becomes, HasHandle, OwnerReleases, ExportStages
  <2>4. QED BY <1>1, <1>3, <2>2, <2>3, ExportGoesOn DEF ExportProbes, OpenThrows
<1>4. QED BY <1>2, <1>3

LEMMA ExportReopensKeeps ==
  ASSUME IInv, NEW l \in Slots, ExportReopens(l)
  PROVE  IInv'
<1> DEFINE g == [tasks[l] EXCEPT !.stage = "using", !.handle = table'[tasks[l].company]]
<1>1. /\ tasks[l] # Nil /\ tasks[l] \in Tasks /\ tasks[l].company \in Companies
      /\ Opens(tasks[l].company)
  BY TaskFacts DEF ExportReopens, At, IInv
<1>2. table'[tasks[l].company] \in Handles
  BY <1>1, OpensKeeps DEF IInv
<1>3. g \in Tasks
  BY <1>1, <1>2 DEF Tasks, ExportStages
<1>4. PICK t \in Tasks : /\ t = g /\ t.company = tasks[l].company /\ t.stage = "using"
                         /\ t.owns = tasks[l].owns /\ t.handle \in Handles
  BY <1>1, <1>2, <1>3 DEF Tasks
<1>5. Becomes(l, t) /\ HasHandle(t) /\ OwnerReleases(t) /\ t.stage \in ExportStages
  BY <1>4 DEF ExportReopens, Becomes, HasHandle, OwnerReleases, ExportStages
<1>6. QED BY <1>1, <1>4, <1>5, ExportGoesOn DEF ExportReopens, OpenThrows

\* What an export becomes that has done with its handle.
LEMMA NextRound ==
  ASSUME IInv, NEW l \in Slots, tasks[l] # Nil, Continues(l)
  PROVE  \/ Ends(l)
         \/ \E t \in Tasks : /\ Becomes(l, t) /\ t.company = tasks[l].company
                             /\ t.stage = "probing" /\ ~t.owns
<1> DEFINE g == [tasks[l] EXCEPT !.round = 2, !.stage = "probing", !.owns = FALSE]
<1>1. tasks[l] \in Tasks
  BY TaskFacts DEF IInv
<1>2. g \in Tasks
  BY <1>1 DEF Tasks, ExportStages
<1>3. PICK t \in Tasks : /\ t = g /\ t.company = tasks[l].company /\ t.stage = "probing"
                         /\ ~t.owns
  BY <1>1, <1>2 DEF Tasks
<1>4. QED BY <1>3 DEF Continues, Becomes

LEMMA ExportReleasing ==
  ASSUME IInv, NEW l \in Slots, tasks[l] # Nil, tasks[l].owns,
         tasks' = [tasks EXCEPT ![l].stage = "releasing"],
         UNCHANGED <<files, manager, window>>
  PROVE  IInv'
<1> DEFINE g == [tasks[l] EXCEPT !.stage = "releasing"]
<1>1. tasks[l] \in Tasks
  BY TaskFacts DEF IInv
<1>2. g \in Tasks
  BY <1>1 DEF Tasks, ExportStages
<1>3. PICK t \in Tasks : /\ t = g /\ t.company = tasks[l].company /\ t.stage = "releasing"
                         /\ t.owns = tasks[l].owns
  BY <1>1, <1>2 DEF Tasks
<1>4. Becomes(l, t) /\ HasHandle(t) /\ OwnerReleases(t) /\ t.stage \in ExportStages
  BY <1>3 DEF Becomes, HasHandle, OwnerReleases, ExportStages
<1>5. QED BY <1>3, <1>4, ExportGoesOn DEF OpenThrows

LEMMA ExportUsesKeeps ==
  ASSUME IInv, NEW l \in Slots, ExportUses(l)
  PROVE  IInv'
<1>1. tasks[l] # Nil /\ UNCHANGED <<files, manager, window>> /\ isBusy' \in BOOLEAN
  BY DEF ExportUses, At, window, IInv, TypeOK
<1>2. CASE tasks[l].owns
  BY <1>1, <1>2, ExportReleasing DEF ExportUses
<1>3. CASE ~tasks[l].owns /\ Continues(l)
  <2>1. CASE Ends(l)
    BY <1>1, <2>1, EndKeeps DEF OpenThrows, window
  <2>2. CASE ~Ends(l)
    <3>1. PICK t \in Tasks : /\ Becomes(l, t) /\ t.company = tasks[l].company
                             /\ t.stage = "probing" /\ ~t.owns
      BY <1>1, <1>3, <2>2, NextRound
    <3>2. HasHandle(t) /\ OwnerReleases(t) /\ t.stage \in ExportStages
      BY <3>1 DEF HasHandle, OwnerReleases, ExportStages
    <3>3. QED BY <1>1, <3>1, <3>2, ExportGoesOn DEF OpenThrows
  <2>3. QED BY <2>1, <2>2
<1>4. QED BY <1>2, <1>3 DEF ExportUses

LEMMA ExportReleasesKeeps ==
  ASSUME IInv, NEW l \in Slots, ExportReleases(l)
  PROVE  IInv'
<1> DEFINE c == tasks[l].company
<1>1. /\ tasks[l] # Nil /\ c \in Companies /\ Managed(c) /\ Closer(tasks[l])
      /\ UNCHANGED <<files, isBusy, context>> /\ Continues(l)
  BY TaskFacts DEF ExportReleases, At, IInv, TasksSound, OwnerReleases, Closer, Managed, window
<1>2. context # Nil /\ context.quiet => c # context.company
  BY <1>1, NoCloser
<1>3. CASE Ends(l)
  <2>1. Becomes(l, Nil)
    BY <1>3 DEF Ends, Becomes
  <2>2. QED BY <1>1, <1>2, <2>1, TaskKeeps DEF IInv, TypeOK
<1>4. CASE ~Ends(l)
  <2>1. PICK t \in Tasks : /\ Becomes(l, t) /\ t.company = c /\ t.stage = "probing" /\ ~t.owns
    BY <1>1, <1>4, NextRound
  <2>2. HasHandle(t) /\ GrantSound(t)' /\ OwnerReleases(t)
    BY <2>1, PlainTask DEF HasHandle
  <2>3. QED BY <1>1, <1>2, <2>1, <2>2, TaskKeeps DEF IInv, TypeOK
<1>5. QED BY <1>3, <1>4

LEMMA ExportFailsKeeps ==
  ASSUME IInv, NEW l \in Slots, ExportFails(l)
  PROVE  IInv'
<1>1. tasks[l] # Nil /\ UNCHANGED <<files, window>> /\ isBusy' \in BOOLEAN
  BY DEF ExportFails, At, window, IInv, TypeOK
<1>2. CASE Ends(l) /\ OpenThrows(tasks[l].company)
  BY <1>1, <1>2, EndKeeps DEF window
<1>3. CASE /\ tasks[l].owns /\ UNCHANGED manager
           /\ tasks' = [tasks EXCEPT ![l].stage = "releasing"]
  BY <1>1, <1>3, ExportReleasing
<1>4. QED BY <1>2, <1>3 DEF ExportFails, OpenThrows

-----------------------------------------------------------------------------
(* The theorems *)

LEMMA InitKeeps == Init => IInv
<1> SUFFICES ASSUME Init
             PROVE  IInv
  OBVIOUS
<1>1. TypeOK
  <2>1. files \in [Companies -> {"new", "there", "gone"}]
    BY DEF Init
  <2>2. table \in [Companies -> Handles \cup {Nil}] /\ tasks \in [Slots -> Tasks \cup {Nil}]
    BY DEF Init
  <2>3. live \subseteq 1..drawn /\ drawn \in 0..MaxHandles
    BY SessionsAssumption DEF Init
  <2>4. \A l \in Slots : tasks[l] = Nil
    BY DEF Init
  <2>5. QED BY <2>1, <2>2, <2>3, <2>4 DEF Init, TypeOK, At
<1>2. TableHasLive
  BY DEF Init, TableHasLive
<1>3. TasksSound /\ ContextSound
  BY DEF Init, TasksSound, ContextSound
<1>4. QED BY <1>1, <1>2, <1>3 DEF IInv

LEMMA StutterKeeps ==
  ASSUME IInv, UNCHANGED vars
  PROVE  IInv'
BY DEF IInv, TypeOK, At, TableHasLive, TasksSound, GrantSound, OwnerReleases, ContextSound,
       Quiet, vars

LEMMA NextKeeps ==
  ASSUME IInv, [Next]_vars
  PROVE  IInv'
<1>1. ASSUME User
      PROVE  IInv'
  BY <1>1, OpenAskedKeeps, CloseAskedKeeps DEF User
<1>2. ASSUME NEW l \in Slots, OpenStep(l)
      PROVE  IInv'
  BY <1>2, OpenGrantedKeeps, OpenEndsKeep, OpenAppliedKeeps DEF OpenStep
<1>3. ASSUME NEW l \in Slots, ExportStep(l)
      PROVE  IInv'
  BY <1>3, ExportProbesKeeps, ExportReopensKeeps, ExportUsesKeeps, ExportReleasesKeeps,
     ExportFailsKeeps DEF ExportStep
<1>4. ASSUME NEW l \in Slots, TaskStep(l)
      PROVE  IInv'
  BY <1>2, <1>3, <1>4, CloseRunsKeeps, DeleteRunsKeeps, DeleteReturnsKeeps DEF TaskStep
<1>5. QED BY <1>1, <1>4, StutterKeeps DEF Next

\* The strengthened invariant holds of every state.
THEOREM Invariance == Spec => []IInv
<1>1. IInv /\ [Next]_vars => IInv'
  BY NextKeeps
<1>2. QED BY <1>1, InitKeeps, PTL DEF Spec

\* The state keeps its shape, whatever opens, closes, exports and deletions are
\* under way.
THEOREM TypeCorrect == Spec => []TypeOK
<1>1. IInv => TypeOK
  BY DEF IInv
<1>2. QED BY <1>1, Invariance, PTL

\* DatabaseManager.openHandles and SQLite agree: one handle for each company that
\* is open, and none that the table does not know.
THEOREM OneHandle == Spec => []TableHasLive
<1>1. IInv => TableHasLive
  BY DEF IInv
<1>2. QED BY <1>1, Invariance, PTL

\* A window that takes its company while nobody is about to close it keeps an
\* open handle until it lets go or the company is deleted.
THEOREM WindowKeepsHandle == Spec => []SessionKeepsHandle
<1>1. IInv => SessionKeepsHandle
  BY DEF IInv, ContextSound, SessionKeepsHandle
<1>2. QED BY <1>1, Invariance, PTL

-----------------------------------------------------------------------------
(* The busy flag: the safety that BusyEnds rests on.                       *)

\* A task that clears isBusy when it ends.
Clears(t) == t.stage \in OpenStages \cup DeleteStages

\* A step of task l, which goes on clearing the flag if it was to.
LEMMA OwnerStays ==
  ASSUME BusyIsOwned, NEW l \in Slots, isBusy' = isBusy,
         \A k \in Slots : k # l => tasks'[k] = tasks[k],
         tasks[l] # Nil /\ Clears(tasks[l]) => tasks'[l] # Nil /\ Clears(tasks'[l])
  PROVE  BusyIsOwned'
<1> SUFFICES ASSUME isBusy
             PROVE  \E k \in Slots : tasks'[k] # Nil /\ Clears(tasks'[k])
  BY DEF BusyIsOwned, Clears
<1>1. PICK k \in Slots : tasks[k] # Nil /\ Clears(tasks[k])
  BY DEF BusyIsOwned, Clears
<1>2. CASE k = l
  BY <1>1, <1>2
<1>3. CASE k # l
  <2>1. tasks'[k] = tasks[k]
    BY <1>3
  <2>2. QED BY <1>1, <2>1
<1>4. QED BY <1>2, <1>3

LEMMA OthersStay ==
  ASSUME TypeOK, NEW l \in Slots, NEW t, Becomes(l, t)
  PROVE  tasks'[l] = t /\ \A k \in Slots : k # l => tasks'[k] = tasks[k]
BY DEF TypeOK, Becomes

\* The user's step: what raises the flag is what will clear it.
LEMMA UserOwns ==
  ASSUME TypeOK, BusyIsOwned, User
  PROVE  BusyIsOwned'
<1>1. ASSUME NEW l \in Slots, NEW c \in Companies,
             NEW stage \in {"opening", "deleting", "closing", "probing"}, Starts(l, c, stage),
             stage \in {"closing", "probing"} => isBusy' = isBusy
      PROVE  BusyIsOwned'
  <2> DEFINE t == [company |-> c, stage |-> stage, handle |-> Nil, owns |-> FALSE, round |-> 1]
  <2>1. t \in Tasks /\ t.stage = stage
    BY DEF Tasks, OpenStages, ExportStages, DeleteStages
  <2>2. Becomes(l, t) /\ t # Nil /\ tasks[l] = Nil
    BY <1>1, <2>1, SessionsAssumption DEF Starts, Becomes
  <2> HIDE DEF t
  <2>3. tasks'[l] = t /\ \A k \in Slots : k # l => tasks'[k] = tasks[k]
    BY <2>2, OthersStay
  <2>4. CASE stage \in {"opening", "deleting"}
    BY <2>1, <2>2, <2>3, <2>4 DEF BusyIsOwned, OpenStages, DeleteStages
  <2>5. CASE stage \in {"closing", "probing"}
    BY <1>1, <2>2, <2>3, <2>5, OwnerStays
  <2>6. QED BY <2>4, <2>5
<1>2. ASSUME NEW l \in Slots, CloseAsked(l) \/ ExportAsked(l)
      PROVE  BusyIsOwned'
  <2>1. context.company \in Companies
    BY <1>2 DEF CloseAsked, ExportAsked, TypeOK, Contexts
  <2>2. isBusy' = isBusy
    BY <1>2 DEF CloseAsked, ExportAsked, window
  <2>3. QED BY <1>1, <1>2, <2>1, <2>2 DEF CloseAsked, ExportAsked
<1>3. QED BY <1>1, <1>2 DEF User, OpenAsked, OpenMade, DeleteAsked

\* A step of an open or a deletion keeps the task or lowers the flag.
LEMMA OpenOwns ==
  ASSUME TypeOK, TypeOK', BusyIsOwned, NEW l \in Slots, OpenStep(l) \/ DeleteRuns(l) \/ DeleteReturns(l)
  PROVE  BusyIsOwned'
<1>1. CASE isBusy' = FALSE
  BY <1>1 DEF BusyIsOwned
<1>2. ASSUME NEW t \in Tasks, Becomes(l, t), Clears(t), isBusy' = isBusy
      PROVE  BusyIsOwned'
  <2>1. tasks'[l] = t /\ t # Nil /\ \A k \in Slots : k # l => tasks'[k] = tasks[k]
    BY <1>2, OthersStay, SessionsAssumption
  <2>2. QED BY <1>2, <2>1, OwnerStays
<1>3. CASE OpenGranted(l)
  <2> DEFINE t == [tasks[l] EXCEPT !.stage = "granted", !.handle = table'[tasks[l].company]]
  <2>1. tasks[l] \in Tasks /\ tasks[l].company \in Companies
    BY <1>3, TaskFacts DEF OpenGranted, At
  <2>2. table'[tasks[l].company] \in Handles \cup {Nil}
    BY <2>1 DEF TypeOK
  <2>3. t \in Tasks /\ Clears(t)
    BY <2>1, <2>2 DEF Tasks, Clears, OpenStages
  <2>4. Becomes(l, t) /\ isBusy' = isBusy
    BY <1>3 DEF OpenGranted, Becomes, window
  <2>5. QED BY <1>2, <2>3, <2>4
<1>4. CASE OpenApplied(l)
  <2> DEFINE t == [tasks[l] EXCEPT !.stage = "showing"]
  <2>1. tasks[l] \in Tasks
    BY <1>4, TaskFacts DEF OpenApplied, At
  <2>2. t \in Tasks /\ Clears(t)
    BY <2>1 DEF Tasks, Clears, OpenStages
  <2>3. Becomes(l, t) /\ isBusy' = isBusy
    BY <1>4 DEF OpenApplied, Becomes
  <2>4. QED BY <1>2, <2>2, <2>3
<1>5. CASE DeleteRuns(l) /\ tasks' = [tasks EXCEPT ![l].stage = "deleted"] /\ isBusy' = isBusy
  <2> DEFINE t == [tasks[l] EXCEPT !.stage = "deleted"]
  <2>1. tasks[l] \in Tasks
    BY <1>5, TaskFacts DEF DeleteRuns, At
  <2>2. t \in Tasks /\ Clears(t)
    BY <2>1 DEF Tasks, Clears, DeleteStages
  <2>3. Becomes(l, t)
    BY <1>5 DEF Becomes
  <2>4. QED BY <1>2, <1>5, <2>2, <2>3
<1>6. CASE DeleteRuns(l)
  BY <1>1, <1>5, <1>6 DEF DeleteRuns
<1>7. CASE DeleteReturns(l) \/ OpenRefused(l) \/ OpenFails(l) \/ OpenShown(l)
  BY <1>1, <1>7 DEF DeleteReturns, OpenRefused, OpenFails, OpenShown
<1>8. QED BY <1>3, <1>4, <1>6, <1>7 DEF OpenStep

\* A close and an export neither touch the flag nor were to clear it.
LEMMA ExportOwns ==
  ASSUME TypeOK, BusyIsOwned, NEW l \in Slots, CloseRuns(l) \/ ExportStep(l)
  PROVE  BusyIsOwned'
<1>1. tasks[l] # Nil /\ ~Clears(tasks[l]) /\ isBusy' = isBusy
  BY DEF CloseRuns, ExportStep, ExportProbes, ExportReopens, ExportUses, ExportReleases,
     ExportFails, At, Clears, OpenStages, DeleteStages, window
<1>2. \E t : Becomes(l, t)
  BY DEF CloseRuns, ExportStep, ExportProbes, ExportReopens, ExportUses, ExportReleases,
     ExportFails, Continues, Ends, Becomes
<1>3. \A k \in Slots : k # l => tasks'[k] = tasks[k]
  BY <1>2, OthersStay
<1>4. QED BY <1>1, <1>3, OwnerStays

\* isBusy is up only while an open or a deletion is under way that clears it.
THEOREM BusyOwned == Spec => []BusyIsOwned
<1>1. Init => BusyIsOwned
  BY DEF Init, BusyIsOwned
<1>2. TypeOK /\ TypeOK' /\ BusyIsOwned /\ [Next]_vars => BusyIsOwned'
  <2> SUFFICES ASSUME TypeOK, TypeOK', BusyIsOwned, [Next]_vars
               PROVE  BusyIsOwned'
    OBVIOUS
  <2>1. CASE UNCHANGED vars
    BY <2>1 DEF vars, BusyIsOwned
  <2>2. ASSUME NEW l \in Slots, TaskStep(l) PROVE BusyIsOwned'
    BY <2>2, OpenOwns, ExportOwns DEF TaskStep
  <2>3. QED BY <2>1, <2>2, UserOwns DEF Next
<1>3. QED BY <1>1, <1>2, TypeCorrect, PTL DEF Spec
=============================================================================
