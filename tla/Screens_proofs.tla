--------------------------- MODULE Screens_proofs ---------------------------
(***************************************************************************)
(* The safety properties of Screens, for any number of writes and of loads *)
(* in flight.  The inductive invariant adds to them what a load in flight  *)
(* is worth when it ends: a current load of the tree was read after the    *)
(* last invalidation, a current load of a list after the last reload that  *)
(* its view model asked for.  A second one says who comes for what still   *)
(* loads.                                                                  *)
(***************************************************************************)
EXTENDS Screens, TLAPS

\* History does not run ahead of the books.
HistorySound ==
  /\ invalidated <= written
  /\ list \in ViewModels => list.asked <= written

TreeLoadSound(l) ==
  loads[l] # Nil /\ loads[l].of = "tree" /\ loads[l].current /\ loads[l].at # Nil
    => loads[l].at >= invalidated

ListLoadSound(l) ==
  loads[l] # Nil /\ loads[l].of = "list" /\ loads[l].current
    => list \in ViewModels /\ (loads[l].at # Nil => loads[l].at >= list.asked)

LoadsSound == \A l \in Slots : TreeLoadSound(l) /\ ListLoadSound(l)

IInv ==
  /\ TypeOK
  /\ HistorySound
  /\ LoadsSound
  /\ TreeHasInvalidated
  /\ ListAnswersLatest

USE ScreensAssumption, NilAssumption DEF Slots, Writes, Read

----------------------------------------------------------------------------
(* What the helpers leave of the loads *)

LEMMA OutdatedType ==
  ASSUME TypeOK, NEW kind
  PROVE  Outdated(kind) \in [Slots -> Loads \cup {Nil}]
<1> SUFFICES ASSUME NEW l \in Slots, loads[l] # Nil, loads[l].of = kind
             PROVE  [loads[l] EXCEPT !.current = FALSE] \in Loads
  BY DEF Outdated, TypeOK
<1> QED BY DEF TypeOK, Loads

LEMMA OutdatedOf ==
  ASSUME TypeOK, NEW kind, NEW l \in Slots, Outdated(kind)[l] # Nil
  PROVE  /\ loads[l] # Nil
         /\ Outdated(kind)[l].of = loads[l].of /\ Outdated(kind)[l].at = loads[l].at
         /\ Outdated(kind)[l].current => loads[l].current /\ loads[l].of # kind
<1>1. CASE loads[l] # Nil /\ loads[l].of = kind
  <2>1. loads[l] \in Loads  BY <1>1 DEF TypeOK
  <2>2. Outdated(kind)[l] = [loads[l] EXCEPT !.current = FALSE]  BY <1>1 DEF Outdated
  <2> QED BY <1>1, <2>1, <2>2 DEF Loads
<1>2. CASE ~(loads[l] # Nil /\ loads[l].of = kind)
  <2>1. Outdated(kind)[l] = loads[l]  BY <1>2 DEF Outdated
  <2> QED BY <1>2, <2>1
<1> QED BY <1>1, <1>2

\* A load that begins is of its kind, current, and has read nothing.
LEMMA Begun ==
  ASSUME TypeOK, NEW k \in Slots, NEW kind \in {"tree", "list"},
         NEW others \in [Slots -> Loads \cup {Nil}], Begin(k, kind, others)
  PROVE  /\ loads' \in [Slots -> Loads \cup {Nil}]
         /\ loads'[k].of = kind /\ loads'[k].at = Nil
         /\ \A l \in Slots : l # k => loads'[l] = others[l]
<1>1. [of |-> kind, at |-> Nil, current |-> TRUE] \in Loads  BY DEF Loads
<1> QED BY <1>1 DEF Begin

----------------------------------------------------------------------------
LEMMA InitInv == Init => IInv
<1> SUFFICES ASSUME Init PROVE IInv  OBVIOUS
<1>1. PICK t \in {0, Nil} :
        cache = [tree |-> t, isDirty |-> t = Nil, isLoading |-> FALSE, missed |-> FALSE]
  BY DEF Init
<1>2. cache \in Caches /\ (cache.tree # Nil => cache.tree = 0)
  BY <1>1 DEF Caches
<1>3. TypeOK
  BY <1>2 DEF Init, TypeOK, Dashboards, ScreenNames
<1> QED BY <1>2, <1>3 DEF Init, IInv, HistorySound, LoadsSound, TreeLoadSound,
              ListLoadSound, TreeHasInvalidated, ListAnswersLatest

----------------------------------------------------------------------------
(* The steps of a load *)

\* What a current load has read is as new as anything asked for so far.
LEMMA ReadsInv == ASSUME IInv, NEW l \in Slots, Reads(l) PROVE IInv'
<1>1. loads[l] \in Loads  BY DEF IInv, TypeOK, Reads
<1>2. [loads[l] EXCEPT !.at = written] \in Loads  BY <1>1 DEF IInv, TypeOK, Loads
<1>3. loads' = [loads EXCEPT ![l] = [loads[l] EXCEPT !.at = written]]  BY DEF Reads
<1>4. TypeOK'  BY <1>2, <1>3 DEF IInv, TypeOK, Reads, books, window
<1>5. /\ HistorySound' /\ TreeHasInvalidated' /\ ListAnswersLatest'
  BY DEF IInv, HistorySound, TreeHasInvalidated, ListAnswersLatest, Reads, books
<1>6. LoadsSound'
  <2> SUFFICES ASSUME NEW k \in Slots PROVE TreeLoadSound(k)' /\ ListLoadSound(k)'
    BY DEF LoadsSound
  <2>1. CASE k = l
    <3>1. loads'[k] = [loads[l] EXCEPT !.at = written]  BY <1>3, <2>1 DEF IInv, TypeOK
    <3>2. loads'[k].of = loads[l].of /\ loads'[k].current = loads[l].current
             /\ loads'[k].at = written
      BY <1>1, <3>1 DEF Loads
    <3> QED BY <3>2, <2>1 DEF IInv, TypeOK, HistorySound, LoadsSound, TreeLoadSound,
              ListLoadSound, ViewModels, Reads, books
  <2>2. CASE k # l
    <3>1. loads'[k] = loads[k]  BY <1>3, <2>2 DEF IInv, TypeOK
    <3> QED BY <3>1 DEF IInv, LoadsSound, TreeLoadSound, ListLoadSound, Reads, books
  <2> QED BY <2>1, <2>2
<1> QED BY <1>4, <1>5, <1>6 DEF IInv

\* A load that ends leaves the others as they are.
LEMMA EndsLoads ==
  ASSUME IInv, NEW l \in Slots, NEW kind, Ends(l, kind)
  PROVE  /\ loads[l] \in Loads
         /\ loads' \in [Slots -> Loads \cup {Nil}]
         /\ loads'[l] = Nil
         /\ \A k \in Slots : k # l => loads'[k] = loads[k]
  BY DEF IInv, TypeOK, Ends

LEMMA TreePublishedInv == ASSUME IInv, NEW l \in Slots, TreePublished(l) PROVE IInv'
<1>1. Ends(l, "tree")  BY DEF TreePublished
<1>2. loads[l].at \in Writes /\ loads[l].current \in BOOLEAN
  BY <1>1, EndsLoads DEF TreePublished, Loads
<1>3. TypeOK'
  BY <1>1, <1>2, EndsLoads DEF IInv, TypeOK, TreePublished, Ends, Caches, books, window
<1>4. HistorySound' /\ ListAnswersLatest'
  BY <1>1 DEF IInv, HistorySound, ListAnswersLatest, TreePublished, Ends, books
<1>5. LoadsSound'
  BY <1>1, EndsLoads DEF IInv, LoadsSound, TreeLoadSound, ListLoadSound, TreePublished,
     Ends, books
<1>6. TreeHasInvalidated'
  BY <1>1, <1>2 DEF IInv, LoadsSound, TreeLoadSound, TreeHasInvalidated, TreePublished,
     Ends, books
<1> QED BY <1>3, <1>4, <1>5, <1>6 DEF IInv

LEMMA TreeFailsInv == ASSUME IInv, NEW l \in Slots, TreeFails(l) PROVE IInv'
<1>1. Ends(l, "tree")  BY DEF TreeFails
<1>2. cache' \in Caches /\ cache'.tree = cache.tree /\ cache'.missed = cache.missed
  BY DEF IInv, TypeOK, TreeFails, Caches
<1>3. TypeOK'  BY <1>1, <1>2, EndsLoads DEF IInv, TypeOK, TreeFails, Ends, books, window
<1>4. HistorySound' /\ ListAnswersLatest' /\ TreeHasInvalidated'
  BY <1>1, <1>2 DEF IInv, HistorySound, ListAnswersLatest, TreeHasInvalidated, TreeFails,
     Ends, books
<1>5. LoadsSound'
  BY <1>1, EndsLoads DEF IInv, LoadsSound, TreeLoadSound, ListLoadSound, TreeFails, Ends,
     books
<1> QED BY <1>3, <1>4, <1>5 DEF IInv

\* A current load of a list belongs to the view model on screen: its answer
\* settles it, at what the load has read or with an error.
LEMMA AnswerInv ==
  ASSUME IInv, NEW l \in Slots, NEW answered, Ends(l, "list"), UNCHANGED cache,
         list' = Answer(l, answered),
         loads[l].current =>
           /\ answered \in ViewModels /\ answered.asked = list.asked
           /\ answered.error \/ (answered.at # Nil /\ answered.at >= list.asked)
  PROVE  IInv'
<1>1. list' = list \/ (/\ list \in ViewModels /\ list' \in ViewModels
                       /\ list'.asked = list.asked
                       /\ list'.error \/ (list'.at # Nil /\ list'.at >= list'.asked))
  BY DEF Answer, IInv, LoadsSound, ListLoadSound, Ends
<1>2. TypeOK'  BY <1>1, EndsLoads DEF IInv, TypeOK, Ends, books, window
<1>3. HistorySound' /\ ListAnswersLatest' /\ TreeHasInvalidated'
  BY <1>1 DEF IInv, HistorySound, ListAnswersLatest, TreeHasInvalidated, Ends, books
<1>4. LoadsSound'
  <2> SUFFICES ASSUME NEW k \in Slots, k # l, loads'[k] = loads[k]
               PROVE  TreeLoadSound(k)' /\ ListLoadSound(k)'
    BY EndsLoads DEF LoadsSound, TreeLoadSound, ListLoadSound
  <2> QED BY <1>1 DEF IInv, LoadsSound, TreeLoadSound, ListLoadSound, Ends, books
<1> QED BY <1>2, <1>3, <1>4 DEF IInv

LEMMA ListPublishedInv == ASSUME IInv, NEW l \in Slots, ListPublished(l) PROVE IInv'
<1> DEFINE answered == [list EXCEPT !.at = loads[l].at, !.isLoading = FALSE]
<1>1. Ends(l, "list") /\ loads[l].at # Nil  BY DEF ListPublished
<1>2. ASSUME loads[l].current
      PROVE  /\ answered \in ViewModels /\ answered.asked = list.asked
             /\ answered.at # Nil /\ answered.at >= list.asked
  <2>1. /\ list \in ViewModels /\ loads[l].at \in Writes
        /\ loads[l].at >= list.asked
    BY <1>1, <1>2, EndsLoads
    DEF IInv, LoadsSound, ListLoadSound, Ends, Loads
  <2> QED BY <2>1, <1>1 DEF ViewModels
<1> HIDE DEF answered
<1>3. UNCHANGED cache /\ list' = Answer(l, answered)  BY DEF ListPublished, answered
<1> QED BY <1>1, <1>2, <1>3, AnswerInv

LEMMA ListFailsInv == ASSUME IInv, NEW l \in Slots, ListFails(l) PROVE IInv'
<1> DEFINE answered == [list EXCEPT !.error = TRUE, !.isLoading = FALSE]
<1>1. Ends(l, "list")  BY DEF ListFails
<1>2. ASSUME loads[l].current
      PROVE  /\ answered \in ViewModels /\ answered.asked = list.asked
             /\ answered.error
  <2>1. list \in ViewModels
    BY <1>1, <1>2 DEF IInv, LoadsSound, ListLoadSound, Ends
  <2> QED BY <2>1 DEF ViewModels
<1> HIDE DEF answered
<1>3. UNCHANGED cache /\ list' = Answer(l, answered)  BY DEF ListFails, answered
<1> QED BY <1>1, <1>2, <1>3, AnswerInv

----------------------------------------------------------------------------
(* What begins a load, or outdates those there are *)

\* The loads of one kind outdated, and no other state of a list or of the tree
\* changed, the loads are as sound as they were.
LEMMA InvalidateInv ==
  ASSUME IInv, NEW writes \in Writes, Invalidate(writes), writes <= written',
         written' \in Writes, written <= written', UNCHANGED list
  PROVE  /\ cache' \in Caches /\ loads' \in [Slots -> Loads \cup {Nil}]
         /\ invalidated' \in Writes
         /\ HistorySound' /\ LoadsSound' /\ TreeHasInvalidated' /\ ListAnswersLatest'
<1>1. cache' \in Caches /\ cache'.tree = Nil
  BY DEF IInv, TypeOK, Invalidate, Caches
<1>2. loads' = Outdated("tree") /\ invalidated' = writes  BY DEF Invalidate
<1>3. HistorySound' /\ TreeHasInvalidated' /\ ListAnswersLatest'
  BY <1>1, <1>2 DEF IInv, TypeOK, HistorySound, TreeHasInvalidated, ListAnswersLatest,
     ViewModels
<1>4. LoadsSound'
  <2> SUFFICES ASSUME NEW k \in Slots, loads'[k] # Nil, loads'[k].current
               PROVE  TreeLoadSound(k)' /\ ListLoadSound(k)'
    BY DEF LoadsSound, TreeLoadSound, ListLoadSound
  <2>1. /\ loads[k] # Nil /\ loads[k].current /\ loads'[k].of # "tree"
        /\ loads'[k].of = loads[k].of /\ loads'[k].at = loads[k].at
    BY <1>2, OutdatedOf DEF IInv
  <2> QED BY <2>1 DEF IInv, LoadsSound, TreeLoadSound, ListLoadSound
<1>5. loads' \in [Slots -> Loads \cup {Nil}]  BY <1>2, OutdatedType DEF IInv
<1> QED BY <1>1, <1>2, <1>3, <1>4, <1>5

LEMMA RebuildInv == ASSUME IInv, NEW l \in Slots, Rebuild(l) PROVE IInv'
<1>1. /\ loads' \in [Slots -> Loads \cup {Nil}]
      /\ loads'[l].of = "tree" /\ loads'[l].at = Nil
      /\ \A k \in Slots : k # l => loads'[k] = loads[k]
  BY Begun DEF IInv, TypeOK, Rebuild
<1>2. cache' \in Caches /\ cache'.tree = cache.tree /\ cache'.missed = cache.missed
  BY DEF IInv, TypeOK, Rebuild, Caches
<1>3. TypeOK'  BY <1>1, <1>2 DEF IInv, TypeOK, Rebuild, books, window
<1>4. HistorySound' /\ ListAnswersLatest' /\ TreeHasInvalidated'
  BY <1>2 DEF IInv, HistorySound, ListAnswersLatest, TreeHasInvalidated, Rebuild, books
<1>5. LoadsSound'
  BY <1>1 DEF IInv, LoadsSound, TreeLoadSound, ListLoadSound, Rebuild, books
<1> QED BY <1>3, <1>4, <1>5 DEF IInv

LEMMA SwitchYearInv == ASSUME IInv, NEW l \in Slots, SwitchYear(l) PROVE IInv'
<1> DEFINE others == [k \in Slots |-> IF loads[k] # Nil /\ loads[k].of = "tree"
                                      THEN Nil ELSE loads[k]]
<1>1. others \in [Slots -> Loads \cup {Nil}]  BY DEF IInv, TypeOK
<1>2. /\ loads' \in [Slots -> Loads \cup {Nil}]
      /\ loads'[l].of = "tree" /\ loads'[l].at = Nil
      /\ \A k \in Slots : k # l => loads'[k] = others[k]
  BY <1>1, Begun DEF IInv, SwitchYear
<1>3. cache' \in Caches /\ cache'.tree = Nil  BY DEF SwitchYear, Caches
<1>4. TypeOK'  BY <1>2, <1>3 DEF IInv, TypeOK, SwitchYear
<1>5. HistorySound' /\ ListAnswersLatest' /\ TreeHasInvalidated'
  BY <1>3 DEF IInv, TypeOK, HistorySound, ListAnswersLatest, TreeHasInvalidated, SwitchYear
<1>6. LoadsSound'
  BY <1>2 DEF IInv, LoadsSound, TreeLoadSound, ListLoadSound, SwitchYear
<1> QED BY <1>4, <1>5, <1>6 DEF IInv

\* The only current load of a list is the one the reload begins.
LEMMA ReloadInv ==
  ASSUME IInv, NEW l \in Slots, NEW viewModel \in ViewModels, Reload(l, viewModel),
         UNCHANGED <<books, cache>>
  PROVE  /\ list' \in ViewModels /\ loads' \in [Slots -> Loads \cup {Nil}]
         /\ HistorySound' /\ LoadsSound' /\ TreeHasInvalidated' /\ ListAnswersLatest'
<1>1. /\ list' \in ViewModels /\ list'.isLoading /\ list'.asked = written
  BY DEF IInv, TypeOK, Reload, ViewModels
<1>2. /\ loads' \in [Slots -> Loads \cup {Nil}]
      /\ loads'[l].of = "list" /\ loads'[l].at = Nil
      /\ \A k \in Slots : k # l => loads'[k] = Outdated("list")[k]
  BY OutdatedType, Begun DEF IInv, Reload
<1>3. HistorySound' /\ ListAnswersLatest' /\ TreeHasInvalidated'
  BY <1>1 DEF IInv, TypeOK, HistorySound, ListAnswersLatest, TreeHasInvalidated, books
<1>4. LoadsSound'
  <2> SUFFICES ASSUME NEW k \in Slots, loads'[k] # Nil, loads'[k].current
               PROVE  TreeLoadSound(k)' /\ ListLoadSound(k)'
    BY DEF LoadsSound, TreeLoadSound, ListLoadSound
  <2>1. CASE k = l
    BY <1>1, <1>2, <2>1 DEF TreeLoadSound, ListLoadSound
  <2>2. CASE k # l
    <3>1. /\ loads[k] # Nil /\ loads[k].current /\ loads'[k].of # "list"
          /\ loads'[k].of = loads[k].of /\ loads'[k].at = loads[k].at
      BY <1>2, <2>2, OutdatedOf DEF IInv
    <3> QED BY <3>1 DEF IInv, LoadsSound, TreeLoadSound, ListLoadSound, books
  <2> QED BY <2>1, <2>2
<1> QED BY <1>1, <1>2, <1>3, <1>4

----------------------------------------------------------------------------
(* The other steps *)

LEMMA ReloadAskedInv == ASSUME IInv, NEW l \in Slots, ReloadAsked(l) PROVE IInv'
<1>1. list \in ViewModels  BY DEF IInv, TypeOK, ReloadAsked
<1>2. /\ list' \in ViewModels /\ loads' \in [Slots -> Loads \cup {Nil}]
      /\ HistorySound' /\ LoadsSound' /\ TreeHasInvalidated' /\ ListAnswersLatest'
  BY <1>1, ReloadInv DEF ReloadAsked
<1>3. TypeOK'  BY <1>2 DEF IInv, TypeOK, ReloadAsked, books, window
<1> QED BY <1>2, <1>3 DEF IInv

LEMMA SetupInv == ASSUME IInv, NEW l \in Slots, Setup(l) PROVE IInv'
<1> DEFINE new == [at |-> Nil, isLoading |-> TRUE, error |-> FALSE, asked |-> written]
<1>1. new \in ViewModels  BY DEF IInv, TypeOK, ViewModels
<1> HIDE DEF new
<1>2. Reload(l, new)  BY DEF Setup, new
<1>3. /\ list' \in ViewModels /\ loads' \in [Slots -> Loads \cup {Nil}]
      /\ HistorySound' /\ LoadsSound' /\ TreeHasInvalidated' /\ ListAnswersLatest'
  BY <1>1, <1>2, ReloadInv DEF Setup
<1>4. TypeOK'  BY <1>3 DEF IInv, TypeOK, Setup, books
<1> QED BY <1>3, <1>4 DEF IInv

LEMMA DisableReloadsInv == ASSUME IInv, NEW l \in Slots, DisableReloads(l) PROVE IInv'
<1>1. list \in ViewModels  BY DEF IInv, TypeOK, DisableReloads
<1>2. /\ list' \in ViewModels /\ loads' \in [Slots -> Loads \cup {Nil}]
      /\ HistorySound' /\ LoadsSound' /\ TreeHasInvalidated' /\ ListAnswersLatest'
  BY <1>1, ReloadInv DEF DisableReloads
<1>3. TypeOK'  BY <1>2 DEF IInv, TypeOK, DisableReloads, books, window
<1> QED BY <1>2, <1>3 DEF IInv

\* With the view model go the loads that were current for it.
LEMMA NavigateInv == ASSUME IInv, NEW s \in ScreenNames, Navigate(s) PROVE IInv'
<1>1. loads' \in [Slots -> Loads \cup {Nil}]
  BY OutdatedType DEF IInv, Navigate
<1>2. disabling' \in {"none", "orphan"}
  BY DEF IInv, TypeOK, Navigate
<1>3. TypeOK'
  BY <1>1, <1>2 DEF IInv, TypeOK, Navigate, books, Dashboards
<1>4. HistorySound'
  BY DEF IInv, HistorySound, Navigate, books
<1>5. ListAnswersLatest' /\ TreeHasInvalidated'
  BY DEF IInv, ListAnswersLatest, TreeHasInvalidated, Navigate, books
<1>6. LoadsSound'
  <2> SUFFICES ASSUME NEW k \in Slots, loads'[k] # Nil, loads'[k].current
               PROVE  TreeLoadSound(k)' /\ ListLoadSound(k)'
    BY DEF LoadsSound, TreeLoadSound, ListLoadSound
  <2>1. /\ loads[k] # Nil /\ loads[k].current /\ loads'[k].of # "list"
        /\ loads'[k].of = loads[k].of /\ loads'[k].at = loads[k].at
    BY OutdatedOf DEF IInv, Navigate
  <2> QED BY <2>1 DEF IInv, LoadsSound, TreeLoadSound, ListLoadSound, Navigate, books
<1> QED BY <1>3, <1>4, <1>5, <1>6 DEF IInv

\* A write alone makes nothing on screen older than it was asked to be.
LEMMA WriteInv ==
  ASSUME IInv, Commits, UNCHANGED <<invalidated, notified, cache, loads, window, list>>,
         disabling' \in {"none", "written"} \cup {disabling},
         disabling' = "written" => disabling \in {"asked", "written"}
  PROVE  IInv'
<1>1. written' \in Writes /\ written' = written + 1  BY DEF IInv, TypeOK, Commits
<1>2. TypeOK'  BY <1>1 DEF IInv, TypeOK, window
<1>3. HistorySound' /\ TreeHasInvalidated' /\ ListAnswersLatest' /\ LoadsSound'
  BY <1>1 DEF IInv, TypeOK, HistorySound, TreeHasInvalidated, ListAnswersLatest,
     LoadsSound, TreeLoadSound, ListLoadSound, ViewModels
<1> QED BY <1>2, <1>3 DEF IInv

LEMMA InvalidatingInv ==
  ASSUME IInv, PostSaved \/ SalaryPosted \/ DisableAsked PROVE IInv'
<1>1. /\ written' \in Writes /\ written <= written' /\ UNCHANGED list
      /\ Invalidate(written')
  BY DEF IInv, TypeOK, PostSaved, SalaryPosted, DisableAsked, Commits, Invalidate
<1>2. /\ cache' \in Caches /\ loads' \in [Slots -> Loads \cup {Nil}]
      /\ invalidated' \in Writes
      /\ HistorySound' /\ LoadsSound' /\ TreeHasInvalidated' /\ ListAnswersLatest'
  BY <1>1, InvalidateInv
<1>3. notified' \in Writes /\ screen' \in ScreenNames /\ due' \in BOOLEAN
      /\ dashboard' \in Dashboards
  BY <1>1 DEF IInv, TypeOK, PostSaved, SalaryPosted, DisableAsked, window
<1>4. /\ disabling' \in {"none", "asked", "written", "orphan"}
      /\ disabling' \in {"asked", "written"} => list' \in ViewModels
  BY <1>1 DEF IInv, TypeOK, PostSaved, SalaryPosted, DisableAsked
<1>5. TypeOK'  BY <1>1, <1>2, <1>3, <1>4 DEF IInv, TypeOK
<1> QED BY <1>2, <1>5 DEF IInv

LEMMA DisableFailsInv == ASSUME IInv, DisableFails PROVE IInv'
<1>1. list' = list \/ (/\ list \in ViewModels /\ list' = [list EXCEPT !.error = TRUE])
  BY DEF IInv, TypeOK, DisableFails
<1>2. list' = list \/ (/\ list \in ViewModels /\ list' \in ViewModels
                       /\ list'.error /\ list'.asked = list.asked)
  BY <1>1 DEF ViewModels
<1>3. TypeOK'  BY <1>2 DEF IInv, TypeOK, DisableFails, books, window
<1>4. HistorySound' /\ TreeHasInvalidated' /\ ListAnswersLatest'
  BY <1>2 DEF IInv, HistorySound, TreeHasInvalidated, ListAnswersLatest, DisableFails,
     books
<1>5. LoadsSound'
  BY <1>2 DEF IInv, LoadsSound, TreeLoadSound, ListLoadSound, DisableFails, books
<1> QED BY <1>3, <1>4, <1>5 DEF IInv

\* The dashboard, an idle task, a notification and a stutter touch no load.
LEMMA QuietInv ==
  ASSUME IInv,
         DashboardLoads \/ DashboardKeeps \/ TaskIdles \/ SettingsSaved \/ UNCHANGED vars
  PROVE  IInv'
<1>1. /\ UNCHANGED <<written, invalidated, cache, loads, screen, list, disabling>>
      /\ notified' \in {notified, written} /\ due' \in {due, TRUE, FALSE}
  BY DEF DashboardLoads, DashboardKeeps, TaskIdles, SettingsSaved, vars, books
<1>2. dashboard' \in Dashboards
  <2>1. dashboard' \in {dashboard, [dashboard EXCEPT !.failed = TRUE],
                        [at |-> written, failed |-> FALSE]}
    BY DEF DashboardLoads, DashboardKeeps, TaskIdles, SettingsSaved, vars
  <2>2. [dashboard EXCEPT !.failed = TRUE] \in Dashboards
    BY DEF IInv, TypeOK, Dashboards
  <2>3. dashboard \in Dashboards /\ [at |-> written, failed |-> FALSE] \in Dashboards
    BY DEF IInv, TypeOK, Dashboards
  <2> QED BY <2>1, <2>2, <2>3
<1>3. TypeOK'  BY <1>1, <1>2 DEF IInv, TypeOK
<1>4. HistorySound' /\ TreeHasInvalidated' /\ ListAnswersLatest'
  BY <1>1 DEF IInv, HistorySound, TreeHasInvalidated, ListAnswersLatest
<1>5. LoadsSound'
  BY <1>1 DEF IInv, LoadsSound, TreeLoadSound, ListLoadSound
<1> QED BY <1>3, <1>4, <1>5 DEF IInv

LEMMA NextInv == IInv /\ [Next]_vars => IInv'
<1> SUFFICES ASSUME IInv, [Next]_vars PROVE IInv'  OBVIOUS
<1>1. ASSUME NEW l \in Slots, LoadStep(l) PROVE IInv'
  BY <1>1, ReadsInv, TreePublishedInv, TreeFailsInv, ListPublishedInv, ListFailsInv
  DEF LoadStep
<1>2. CASE TaskStep
  BY <1>2, QuietInv, SetupInv DEF TaskStep
<1>3. CASE DisableStep
  <2>1. CASE DisableWrites
    BY <2>1, WriteInv DEF DisableWrites
  <2> QED BY <1>3, <2>1, DisableFailsInv, DisableReloadsInv DEF DisableStep
<1>4. CASE User
  <2>1. CASE ChequeMoved
    BY <2>1, WriteInv DEF ChequeMoved
  <2> QED BY <1>4, <2>1, NavigateInv, RebuildInv, SwitchYearInv, ReloadAskedInv,
             InvalidatingInv, QuietInv DEF User
<1>5. CASE UNCHANGED vars
  BY <1>5, QuietInv
<1> QED BY <1>1, <1>2, <1>3, <1>4, <1>5 DEF Next

----------------------------------------------------------------------------
\* The strengthened invariant holds in every state Screens reaches.
THEOREM Invariance == Spec => []IInv
BY InitInv, NextInv, PTL DEF Spec

\* AccountsViewModel.disable: the state has its shape, and a disable that wants
\* its list reloaded has the view model it began from.
THEOREM TypeCorrect == Spec => []TypeOK
<1>1. IInv => TypeOK  BY DEF IInv
<1> QED BY <1>1, Invariance, PTL

\* AccountTreeCache.reload: a tree on screen has every write an invalidation was
\* made for, unless its own load was under way at the invalidation.
THEOREM TreeFresh == Spec => []TreeHasInvalidated
<1>1. IInv => TreeHasInvalidated  BY DEF IInv
<1> QED BY <1>1, Invariance, PTL

\* VouchersViewModel.reload: a list at rest shows an answer read after the last
\* reload was asked.
THEOREM ListFresh == Spec => []ListAnswersLatest
<1>1. IInv => ListAnswersLatest  BY DEF IInv
<1> QED BY <1>1, Invariance, PTL

----------------------------------------------------------------------------
(* Somebody comes *)

TreeLoads(l) == loads[l] # Nil /\ loads[l].of = "tree"
ListLoads(l) == loads[l] # Nil /\ loads[l].of = "list" /\ loads[l].current

TreeComes == cache.isLoading => \E l \in Slots : TreeLoads(l)
ListComes == list # Nil /\ list.isLoading => \E l \in Slots : ListLoads(l)
ListIsMade ==
  /\ list # Nil => screen \in ListScreens
  /\ screen \in ListScreens /\ list = Nil => due
DashboardComes ==
  screen = "dashboard" => \/ due \/ dashboard.failed
                          \/ dashboard.at # Nil /\ dashboard.at >= notified

\* What the dashboard has read came after every notification there has been.
Coming ==
  /\ notified <= written
  /\ TreeComes /\ ListComes
  /\ ListIsMade /\ DashboardComes

LEMMA ComingSays == Coming => SomebodyComes
BY DEF Coming, TreeComes, TreeLoads, ListComes, ListLoads, ListIsMade, DashboardComes,
   SomebodyComes

\* A spinner that was turning is answered by the load that was to answer it.
LEMMA TreeStays ==
  ASSUME TreeComes, cache'.isLoading => cache.isLoading,
         \A l \in Slots : TreeLoads(l) => TreeLoads(l)'
  PROVE  TreeComes'
BY DEF TreeComes

LEMMA ListStays ==
  ASSUME ListComes, list' # Nil /\ list'.isLoading => list # Nil /\ list.isLoading,
         \A l \in Slots : ListLoads(l) => ListLoads(l)'
  PROVE  ListComes'
BY DEF ListComes

\* What Outdated(kind) keeps: each load its kind, and those of another kind
\* their generation.
LEMMA OutdatedKeeps ==
  ASSUME TypeOK, NEW kind, NEW l \in Slots, loads[l] # Nil
  PROVE  /\ Outdated(kind)[l] # Nil /\ Outdated(kind)[l].of = loads[l].of
         /\ loads[l].of # kind => Outdated(kind)[l] = loads[l]
<1>1. loads[l] \in Loads  BY DEF TypeOK
<1>2. CASE loads[l].of = kind
  <2>1. Outdated(kind)[l] = [loads[l] EXCEPT !.current = FALSE]  BY <1>2 DEF Outdated
  <2>2. [loads[l] EXCEPT !.current = FALSE] \in Loads  BY <1>1 DEF Loads
  <2>3. Outdated(kind)[l].of = loads[l].of  BY <1>1, <2>1 DEF Loads
  <2>4. Outdated(kind)[l] # Nil  BY <2>1, <2>2
  <2> QED BY <1>2, <2>3, <2>4
<1>3. CASE loads[l].of # kind
  BY <1>3 DEF Outdated
<1> QED BY <1>2, <1>3

LEMMA InitComing == Init => Coming
<1> SUFFICES ASSUME Init PROVE Coming  OBVIOUS
<1>1. ~cache.isLoading  BY DEF Init
<1> QED BY <1>1 DEF Init, Coming, TreeComes, ListComes, ListIsMade, DashboardComes,
              ListScreens

\* The steps of a load.
LEMMA LoadComing ==
  ASSUME IInv, Coming, NEW l \in Slots, LoadStep(l) PROVE Coming'
<1>1. UNCHANGED <<books, screen, due, dashboard>>
  BY DEF LoadStep, Reads, TreePublished, TreeFails, ListPublished, ListFails, Ends, window
<1>2. \A k \in Slots : k # l => loads'[k] = loads[k]
  BY DEF IInv, TypeOK, LoadStep, Reads, TreePublished, TreeFails, ListPublished, ListFails,
     Ends
<1>3. (notified <= written)' /\ DashboardComes'
  BY <1>1 DEF Coming, DashboardComes, books
<1>4. CASE Reads(l)
  <2>1. loads[l] \in Loads /\ [loads[l] EXCEPT !.at = written] \in Loads
    BY <1>4 DEF IInv, TypeOK, Reads, Loads
  <2>2. loads'[l] = [loads[l] EXCEPT !.at = written]
    BY <1>4 DEF IInv, TypeOK, Reads
  <2>3. loads'[l] # Nil /\ loads'[l].of = loads[l].of /\ loads'[l].current = loads[l].current
    BY <2>1, <2>2 DEF Loads
  <2>4. \A k \in Slots : (TreeLoads(k) => TreeLoads(k)') /\ (ListLoads(k) => ListLoads(k)')
    BY <1>2, <2>3 DEF TreeLoads, ListLoads
  <2>5. UNCHANGED <<cache, list>>
    BY <1>4 DEF Reads
  <2>6. TreeComes' /\ ListComes'
    BY <2>4, <2>5, TreeStays, ListStays DEF Coming
  <2> QED BY <1>1, <1>3, <2>5, <2>6 DEF Coming, ListIsMade
<1>5. CASE TreePublished(l) \/ TreeFails(l)
  <2>1. ~cache'.isLoading
    BY <1>5 DEF IInv, TypeOK, TreePublished, TreeFails, Caches
  <2>2. Ends(l, "tree") /\ UNCHANGED list
    BY <1>5 DEF TreePublished, TreeFails
  <2>3. \A k \in Slots : ListLoads(k) => ListLoads(k)'
    BY <1>2, <2>2 DEF Ends, ListLoads
  <2>4. TreeComes' /\ ListComes'
    BY <2>1, <2>2, <2>3, ListStays DEF Coming, TreeComes
  <2> QED BY <1>1, <1>3, <2>2, <2>4 DEF Coming, ListIsMade
<1>6. CASE ListPublished(l) \/ ListFails(l)
  <2>1. Ends(l, "list") /\ UNCHANGED cache
    BY <1>6 DEF ListPublished, ListFails
  <2>2. \A k \in Slots : TreeLoads(k) => TreeLoads(k)'
    BY <1>2, <2>1 DEF Ends, TreeLoads
  <2>3. TreeComes'
    BY <2>1, <2>2, TreeStays DEF Coming
  <2>4. CASE loads[l].current
    <3>1. list \in ViewModels
      BY <2>1, <2>4 DEF IInv, LoadsSound, ListLoadSound, Ends
    <3>2. list' # Nil /\ ~list'.isLoading
      <4>1. list' \in {[list EXCEPT !.at = loads[l].at, !.isLoading = FALSE],
                       [list EXCEPT !.error = TRUE, !.isLoading = FALSE]}
        BY <1>6, <2>4 DEF ListPublished, ListFails, Answer
      <4>2. loads[l].at \in Read
        BY <2>1, EndsLoads DEF Loads
      <4>3. list' \in ViewModels /\ ~list'.isLoading
        BY <3>1, <4>1, <4>2 DEF ViewModels
      <4> QED BY <4>3
    <3> QED BY <1>1, <1>3, <2>3, <3>1, <3>2 DEF Coming, ListComes, ListIsMade
  <2>5. CASE ~loads[l].current
    <3>1. UNCHANGED list
      BY <1>6, <2>5 DEF ListPublished, ListFails, Answer
    <3>2. \A k \in Slots : ListLoads(k) => ListLoads(k)'
      BY <1>2, <2>5 DEF ListLoads
    <3>3. ListComes'
      BY <3>1, <3>2, ListStays DEF Coming
    <3> QED BY <1>1, <1>3, <2>3, <3>1, <3>3 DEF Coming, ListIsMade
  <2> QED BY <2>4, <2>5
<1> QED BY <1>4, <1>5, <1>6 DEF LoadStep

\* An invalidation stops no load of the tree, and no list's.
LEMMA InvalidateComing ==
  ASSUME IInv, Coming, NEW writes, Invalidate(writes), UNCHANGED list
  PROVE  TreeComes' /\ ListComes'
<1>1. cache'.isLoading = cache.isLoading
  BY DEF IInv, TypeOK, Invalidate, Caches
<1>2. loads' = Outdated("tree")  BY DEF Invalidate
<1>3. \A k \in Slots : (TreeLoads(k) => TreeLoads(k)') /\ (ListLoads(k) => ListLoads(k)')
  BY <1>2, OutdatedKeeps DEF IInv, TreeLoads, ListLoads
<1> QED BY <1>1, <1>3, TreeStays, ListStays DEF Coming

\* A load of the tree that begins is the one the spinner waits for.
LEMMA TreeBegins ==
  ASSUME IInv, Coming, NEW l \in Slots, Rebuild(l) \/ SwitchYear(l)
  PROVE  Coming'
<1> DEFINE others == IF Rebuild(l) THEN loads
                     ELSE [k \in Slots |-> IF loads[k] # Nil /\ loads[k].of = "tree"
                                           THEN Nil ELSE loads[k]]
           new == [of |-> "tree", at |-> Nil, current |-> TRUE]
<1>1. others \in [Slots -> Loads \cup {Nil}]
  BY DEF IInv, TypeOK
<1>2. \A k \in Slots : ListLoads(k) => others[k] = loads[k]
  BY DEF ListLoads, IInv, TypeOK
<1>3. Begin(l, "tree", others)
  BY DEF Rebuild, SwitchYear
<1>4. new \in Loads
  BY DEF Loads
<1> HIDE DEF others, new
<1>5. loads[l] = Nil /\ TreeLoads(l)' /\ \A k \in Slots : k # l => loads'[k] = others[k]
  <2>1. new # Nil
    BY <1>4
  <2> QED BY <1>1, <1>3, <2>1 DEF new, Begin, TreeLoads
<1>6. \A k \in Slots : ListLoads(k) => ListLoads(k)'
  BY <1>2, <1>5 DEF ListLoads
<1>7. UNCHANGED list
  BY DEF Rebuild, SwitchYear
<1>8. TreeComes' /\ ListComes'
  BY <1>5, <1>6, <1>7, ListStays DEF Coming, TreeComes
<1>9. (notified <= written)' /\ ListIsMade' /\ DashboardComes'
  <2>1. CASE Rebuild(l)
    BY <2>1 DEF Coming, Rebuild, books, window, ListIsMade, DashboardComes
  <2>2. CASE SwitchYear(l)
    BY <2>2 DEF IInv, TypeOK, Coming, SwitchYear, ListIsMade, DashboardComes
  <2> QED BY <2>1, <2>2
<1> QED BY <1>8, <1>9 DEF Coming

\* The load a reload begins is current, and stops none of the tree.
LEMMA ReloadComing ==
  ASSUME IInv, Coming, NEW l \in Slots, NEW viewModel \in ViewModels, Reload(l, viewModel),
         UNCHANGED cache
  PROVE  TreeComes' /\ ListComes' /\ list' # Nil
<1> DEFINE new == [of |-> "list", at |-> Nil, current |-> TRUE]
<1>1. new \in Loads
  BY DEF Loads
<1> HIDE DEF new
<1>2. /\ loads[l] = Nil /\ ListLoads(l)'
      /\ \A k \in Slots : k # l => loads'[k] = Outdated("list")[k]
  <2>1. new # Nil
    BY <1>1
  <2> QED BY <2>1, OutdatedType DEF new, IInv, Reload, Begin, ListLoads
<1>3. \A k \in Slots : TreeLoads(k) => TreeLoads(k)'
  BY <1>2, OutdatedKeeps DEF IInv, TreeLoads
<1>4. list' \in ViewModels
  BY DEF IInv, TypeOK, Reload, ViewModels
<1> QED BY <1>2, <1>3, <1>4, TreeStays DEF Coming, ListComes

LEMMA ReloadingComing ==
  ASSUME IInv, Coming, NEW l \in Slots, ReloadAsked(l) \/ Setup(l) \/ DisableReloads(l)
  PROVE  Coming'
<1> DEFINE new == [at |-> Nil, isLoading |-> TRUE, error |-> FALSE, asked |-> written]
<1>1. new \in ViewModels  BY DEF IInv, TypeOK, ViewModels
<1>2. PICK viewModel \in ViewModels : Reload(l, viewModel)
  <2>1. CASE ReloadAsked(l) \/ DisableReloads(l)
    BY <2>1 DEF IInv, TypeOK, ReloadAsked, DisableReloads
  <2>2. CASE Setup(l)
    BY <1>1, <2>2 DEF Setup
  <2> QED BY <2>1, <2>2
<1>3. UNCHANGED <<books, cache, screen, dashboard>>
  BY DEF ReloadAsked, Setup, DisableReloads, window
<1>4. TreeComes' /\ ListComes' /\ list' # Nil
  BY <1>2, <1>3, ReloadComing
<1>5. DashboardComes'
  <2>1. CASE Setup(l)
    BY <1>3, <2>1 DEF Setup, DashboardComes, ListScreens
  <2>2. CASE ~Setup(l)
    BY <1>3, <2>2 DEF ReloadAsked, DisableReloads, window, books, Coming, DashboardComes
  <2> QED BY <2>1, <2>2
<1>6. screen \in ListScreens
  BY DEF IInv, TypeOK, Coming, ListIsMade, ReloadAsked, Setup, DisableReloads
<1> QED BY <1>3, <1>4, <1>5, <1>6 DEF Coming, ListIsMade, books

LEMMA NavigateComing ==
  ASSUME IInv, Coming, NEW s \in ScreenNames, Navigate(s) PROVE Coming'
<1>1. \A k \in Slots : TreeLoads(k) => TreeLoads(k)'
  BY OutdatedKeeps DEF IInv, Navigate, TreeLoads
<1>2. TreeComes'
  BY <1>1, TreeStays DEF Coming, Navigate
<1> QED BY <1>2 DEF Coming, Navigate, books, ListComes, ListIsMade, DashboardComes

LEMMA InvalidatingComing ==
  ASSUME IInv, Coming, PostSaved \/ SalaryPosted \/ DisableAsked PROVE Coming'
<1>1. /\ written <= written' /\ written' \in Nat /\ notified' \in {notified, written'}
      /\ UNCHANGED list /\ Invalidate(written')
  BY DEF IInv, TypeOK, PostSaved, SalaryPosted, DisableAsked, Commits, Invalidate
<1>2. TreeComes' /\ ListComes'
  BY <1>1, InvalidateComing
<1>3. due' \/ (UNCHANGED <<notified, screen, due, dashboard>> /\ screen = "other")
  BY DEF PostSaved, SalaryPosted, DisableAsked, window
<1>4. ListIsMade' /\ DashboardComes'
  <2>1. screen' = screen /\ list' = list /\ (list # Nil => screen \in ListScreens)
    BY DEF Coming, ListIsMade, PostSaved, SalaryPosted, DisableAsked, window
  <2> QED BY <1>3, <2>1 DEF Coming, ListIsMade, DashboardComes, ListScreens
<1>5. (notified <= written)'
  BY <1>1 DEF Coming, IInv, TypeOK
<1> QED BY <1>2, <1>4, <1>5 DEF Coming

\* The writes that nobody is told of, and a disable that fails.
LEMMA UntoldComing ==
  ASSUME IInv, Coming, ChequeMoved \/ DisableWrites \/ DisableFails PROVE Coming'
<1>1. /\ UNCHANGED <<notified, cache, loads, screen, due, dashboard>>
      /\ written <= written' /\ written' \in Nat
  BY DEF IInv, TypeOK, ChequeMoved, DisableWrites, DisableFails, Commits, window, books
<1>2. /\ list' = Nil <=> list = Nil
      /\ list # Nil => list'.isLoading = list.isLoading
  <2>1. CASE DisableFails /\ disabling = "asked"
    <3>1. list \in ViewModels /\ list' = [list EXCEPT !.error = TRUE]
      BY <2>1 DEF IInv, TypeOK, DisableFails
    <3>2. list' \in ViewModels /\ list'.isLoading = list.isLoading
      BY <3>1 DEF ViewModels
    <3> QED BY <3>1, <3>2
  <2>2. CASE ~(DisableFails /\ disabling = "asked")
    BY <2>2 DEF ChequeMoved, DisableWrites, DisableFails
  <2> QED BY <2>1, <2>2
<1>3. TreeComes' /\ ListComes'
  BY <1>1, <1>2 DEF Coming, TreeComes, TreeLoads, ListComes, ListLoads
<1>4. (notified <= written)'
  BY <1>1 DEF Coming, IInv, TypeOK
<1> QED BY <1>1, <1>2, <1>3, <1>4 DEF Coming, ListIsMade, DashboardComes

\* The task of the screen ran and left it up to date, or had nothing to do.
LEMMA QuietComing ==
  ASSUME IInv, Coming,
         DashboardLoads \/ DashboardKeeps \/ TaskIdles \/ SettingsSaved \/ UNCHANGED vars
  PROVE  Coming'
<1>1. UNCHANGED <<written, cache, loads, screen, list>> /\ notified' \in {notified, written}
  BY DEF DashboardLoads, DashboardKeeps, TaskIdles, SettingsSaved, vars, books
<1>2. TreeComes' /\ ListComes' /\ (notified <= written)'
  BY <1>1 DEF IInv, TypeOK, Coming, TreeComes, TreeLoads, ListComes, ListLoads
<1>3. ListIsMade'
  BY <1>1 DEF Coming, ListIsMade, ListScreens, DashboardLoads, DashboardKeeps, TaskIdles,
     SettingsSaved, vars
<1>4. DashboardComes'
  <2>1. CASE DashboardLoads
    BY <2>1 DEF IInv, TypeOK, Coming, DashboardLoads, DashboardComes, books
  <2>2. CASE DashboardKeeps
    <3>1. dashboard'.failed
      BY <2>2 DEF IInv, TypeOK, DashboardKeeps, Dashboards
    <3> QED BY <3>1 DEF DashboardComes
  <2>3. CASE TaskIdles
    <3>1. screen # "dashboard"
      BY <2>3 DEF Coming, TaskIdles, ListIsMade, ListScreens
    <3> QED BY <2>3, <3>1 DEF TaskIdles, DashboardComes
  <2>4. CASE SettingsSaved
    BY <2>4 DEF SettingsSaved, DashboardComes
  <2>5. CASE UNCHANGED vars
    BY <2>5 DEF vars, Coming, DashboardComes
  <2> QED BY <2>1, <2>2, <2>3, <2>4, <2>5
<1> QED BY <1>2, <1>3, <1>4 DEF Coming

LEMMA NextComing == IInv /\ Coming /\ [Next]_vars => Coming'
<1> SUFFICES ASSUME IInv, Coming, [Next]_vars PROVE Coming'  OBVIOUS
<1>1. CASE TaskStep
  BY <1>1, QuietComing, ReloadingComing DEF TaskStep
<1>2. CASE DisableStep
  BY <1>2, UntoldComing, ReloadingComing DEF DisableStep
<1>3. CASE User
  BY <1>3, NavigateComing, TreeBegins, ReloadingComing, InvalidatingComing, QuietComing,
     UntoldComing DEF User
<1>4. CASE UNCHANGED vars
  BY <1>4, QuietComing
<1> QED BY <1>1, <1>2, <1>3, <1>4, LoadComing DEF Next

\* Whatever still loads, and the list or the dashboard that is out of date, has
\* a load or a task that comes for it.
THEOREM SomebodyIsComing == Spec => []SomebodyComes
<1>1. Init => Coming  BY InitComing
<1>2. IInv /\ Coming /\ [Next]_vars => Coming'  BY NextComing
<1>3. Coming => SomebodyComes  BY ComingSays
<1> QED BY <1>1, <1>2, <1>3, Invariance, PTL DEF Spec

=============================================================================
