------------------------------ MODULE Screens ------------------------------
(***************************************************************************)
(* What the windows of an open company show while the books change under   *)
(* them: the account tree that AppEnvironment caches, the dashboard, and   *)
(* the list of the vouchers or accounts screen.  Every handler of a view   *)
(* runs to its end on the main actor, so it is one action; a tree is read, *)
(* a list is read and an account is disabled by detached tasks, whose      *)
(* steps fall between the handlers.  The books are the number of writes    *)
(* committed so far, and what a screen shows is the number of writes its   *)
(* read came after.                                                        *)
(***************************************************************************)
EXTENDS Naturals

CONSTANTS
  MaxWrites,   \* bound: writes of one session
  MaxLoads,    \* bound: loads in flight at once, of the tree and of lists
  Nil          \* Swift's nil

ASSUME ScreensAssumption ==
  MaxWrites \in Nat /\ MaxLoads \in Nat /\ Nil \notin Nat

VARIABLES
  written,       \* writes committed that change what these views show
  invalidated,   \* history: the writes there were when invalidate() last ran
  notified,      \* history: the writes there were at the last notifyDataChanged()
  cache,         \* AccountTreeCache; missed: its tree's load overlapped an invalidate()
  loads,         \* the detached reads in flight
  screen,        \* AppRouter.selection
  due,           \* the .task(id: reloadKey) of the screen has yet to run
  dashboard,     \* DashboardViewModel; failed: its last reload threw
  list,          \* the view model of a list; asked: the writes at its last reload()
  disabling      \* AccountsViewModel.disable; orphan: its view model is gone

vars == <<written, invalidated, notified, cache, loads, screen, due,
          dashboard, list, disabling>>

books == <<written, invalidated, notified>>
window == <<screen, due, dashboard>>

ListScreens == {"list"}
ScreenNames == ListScreens \cup {"dashboard", "other"}

Slots == 1..MaxLoads
Writes == 0..MaxWrites
Read == Writes \cup {Nil}

Caches == [tree : Read, isDirty : BOOLEAN, isLoading : BOOLEAN, missed : BOOLEAN]

\* current, of a list: its generation is the view model's; of the tree: no
\* invalidate() came since it began.
Loads == [of : {"tree", "list"}, at : Read, current : BOOLEAN]

Dashboards == [at : Read, failed : BOOLEAN]
ViewModels == [at : Read, isLoading : BOOLEAN, error : BOOLEAN, asked : Writes]

ASSUME NilAssumption == Nil \notin ViewModels \cup Loads

\* openCompany has reloaded the tree, or failed to, and reset the router.
Init ==
  /\ written = 0 /\ invalidated = 0 /\ notified = 0
  /\ cache \in {[tree |-> t, isDirty |-> t = Nil, isLoading |-> FALSE,
                 missed |-> FALSE] : t \in {0, Nil}}
  /\ loads = [l \in Slots |-> Nil]
  /\ screen = "dashboard" /\ due = TRUE
  /\ dashboard = [at |-> Nil, failed |-> FALSE]
  /\ list = Nil
  /\ disabling = "none"

----------------------------------------------------------------------------
(* Loads *)

\* The loads of a kind are no longer current.
Outdated(kind) ==
  [l \in Slots |-> IF loads[l] # Nil /\ loads[l].of = kind
                   THEN [loads[l] EXCEPT !.current = FALSE] ELSE loads[l]]

Begin(l, kind, others) ==
  /\ loads[l] = Nil
  /\ loads' = [others EXCEPT ![l] = [of |-> kind, at |-> Nil, current |-> TRUE]]

\* The detached task reads: the tree in one transaction; the rows of a list,
\* and after them, no older, the total and the names.
Reads(l) ==
  /\ loads[l] # Nil /\ loads[l].at = Nil
  /\ loads' = [loads EXCEPT ![l].at = written]
  /\ UNCHANGED <<books, cache, window, list, disabling>>

\* Back on the main actor, with an answer or with an error.
Ends(l, kind) ==
  /\ loads[l] # Nil /\ loads[l].of = kind
  /\ loads' = [loads EXCEPT ![l] = Nil]
  /\ UNCHANGED <<books, window, disabling>>

----------------------------------------------------------------------------
(* The account tree *)

\* Defect: the tree is kept on screen until its next load.
InvalidateKeeps(writes) ==
  /\ invalidated' = writes
  /\ cache' = [cache EXCEPT !.isDirty = TRUE]
  /\ loads' = Outdated("tree")

\* The tree goes, and nothing asks for another.
Invalidate(writes) ==
  /\ invalidated' = writes
  /\ cache' = [cache EXCEPT !.tree = Nil, !.isDirty = TRUE, !.missed = FALSE]
  /\ loads' = Outdated("tree")

\* The dashboard's Rebuild; reload() does not look at isLoading.
Rebuild(l) ==
  /\ screen = "dashboard"
  /\ Begin(l, "tree", loads)
  /\ cache' = [cache EXCEPT !.isLoading = TRUE]
  /\ UNCHANGED <<books, window, list, disabling>>

TreePublished(l) ==
  /\ Ends(l, "tree") /\ loads[l].at # Nil
  /\ cache' = [tree |-> loads[l].at, isDirty |-> FALSE, isLoading |-> FALSE,
               missed |-> ~loads[l].current]
  /\ UNCHANGED list

\* Defect: the error path leaves isLoading.
TreeFailsLoading(l) ==
  /\ Ends(l, "tree")
  /\ UNCHANGED <<cache, list>>

\* lastError, and the tree there was stays.
TreeFails(l) ==
  /\ Ends(l, "tree")
  /\ cache' = [cache EXCEPT !.isLoading = FALSE]
  /\ UNCHANGED list

\* From the settings: a new cache and a load of it; the loads of the old one
\* end unseen.
SwitchYear(l) ==
  /\ screen = "other"
  /\ invalidated' = written /\ notified' = written
  /\ cache' = [tree |-> Nil, isDirty |-> TRUE, isLoading |-> TRUE, missed |-> FALSE]
  /\ Begin(l, "tree", [k \in Slots |-> IF loads[k] # Nil /\ loads[k].of = "tree"
                                       THEN Nil ELSE loads[k]])
  /\ due' = TRUE
  /\ UNCHANGED <<written, screen, dashboard, list, disabling>>

----------------------------------------------------------------------------
(* Lists *)

\* reload(): the task before it is cancelled and of an older generation.
Reload(l, viewModel) ==
  /\ list' = [viewModel EXCEPT !.isLoading = TRUE, !.error = FALSE, !.asked = written]
  /\ Begin(l, "list", Outdated("list"))

\* Search, filters, Apply and the pages.
ReloadAsked(l) ==
  /\ list # Nil
  /\ Reload(l, list)
  /\ UNCHANGED <<books, cache, window, disabling>>

\* Defect: only a view model that is gone drops an answer.
AnswerAnyway(l, answered) == IF list # Nil THEN answered ELSE list

\* An answer whose generation is gone is dropped.
Answer(l, answered) == IF loads[l].current THEN answered ELSE list

ListPublished(l) ==
  /\ Ends(l, "list") /\ loads[l].at # Nil
  /\ list' = Answer(l, [list EXCEPT !.at = loads[l].at, !.isLoading = FALSE])
  /\ UNCHANGED cache

ListFails(l) ==
  /\ Ends(l, "list")
  /\ list' = Answer(l, [list EXCEPT !.error = TRUE, !.isLoading = FALSE])
  /\ UNCHANGED cache

----------------------------------------------------------------------------
(* The window *)

\* Another view takes the place of the one on screen, whose view model goes.
Navigate(s) ==
  /\ s # screen
  /\ screen' = s /\ due' = TRUE
  /\ dashboard' = [at |-> Nil, failed |-> FALSE]
  /\ list' = Nil
  /\ loads' = Outdated("list")
  /\ disabling' = CASE disabling = "asked" -> "orphan"
                    [] disabling = "written" -> "none"
                    [] OTHER -> disabling
  /\ UNCHANGED <<books, cache>>

\* Defect: the task reloads only what has never loaded, as the lists' does.
DashboardLoadsOnce ==
  /\ screen = "dashboard" /\ due
  /\ due' = FALSE
  /\ dashboard' = IF dashboard.at = Nil THEN [at |-> written, failed |-> FALSE]
                  ELSE dashboard
  /\ UNCHANGED <<books, cache, loads, screen, list, disabling>>

\* The task of the dashboard reloads it at each new revision, on the main
\* actor; a throw leaves the figures of before.
DashboardLoads ==
  /\ screen = "dashboard" /\ due
  /\ due' = FALSE
  /\ dashboard' = [at |-> written, failed |-> FALSE]
  /\ UNCHANGED <<books, cache, loads, screen, list, disabling>>

DashboardKeeps ==
  /\ screen = "dashboard" /\ due
  /\ due' = FALSE
  /\ dashboard' = [dashboard EXCEPT !.failed = TRUE]
  /\ UNCHANGED <<books, cache, loads, screen, list, disabling>>

\* The task of a list makes the view model, once.
Setup(l) ==
  /\ screen \in ListScreens /\ due /\ list = Nil
  /\ due' = FALSE
  /\ Reload(l, [at |-> Nil, isLoading |-> TRUE, error |-> FALSE, asked |-> written])
  /\ UNCHANGED <<books, cache, screen, dashboard, disabling>>

\* A new revision finds the view model there, or a screen without a task.
TaskIdles ==
  /\ due /\ (list # Nil \/ screen = "other")
  /\ due' = FALSE
  /\ UNCHANGED <<books, cache, loads, screen, dashboard, list, disabling>>

----------------------------------------------------------------------------
(* Writes *)

Commits == written < MaxWrites /\ written' = written + 1

\* The sheets of vouchers, accounts and groups, over any screen.
PostSaved ==
  /\ Commits
  /\ Invalidate(written')
  /\ notified' = written' /\ due' = TRUE
  /\ UNCHANGED <<screen, dashboard, list, disabling>>

\* Payroll: the sheet marks the tree and notifies nobody.
SalaryPosted ==
  /\ screen = "other"
  /\ Commits
  /\ Invalidate(written')
  /\ UNCHANGED <<notified, window, list, disabling>>

\* The sheets of the settings: what they write shows in none of these views,
\* and they notify all the same.
SettingsSaved ==
  /\ screen = "other"
  /\ notified' = written /\ due' = TRUE
  /\ UNCHANGED <<written, invalidated, cache, loads, screen, dashboard, list, disabling>>

\* Banking: a cheque bounced or presented again; only the register reloads.
ChequeMoved ==
  /\ screen = "other"
  /\ Commits
  /\ UNCHANGED <<invalidated, notified, cache, loads, window, list, disabling>>

\* The button starts a task, and marks and notifies before the task has written.
DisableAsked ==
  /\ screen = "list" /\ list # Nil /\ disabling = "none"
  /\ disabling' = "asked"
  /\ Invalidate(written)
  /\ notified' = written /\ due' = TRUE
  /\ UNCHANGED <<written, screen, dashboard, list>>

\* Defect: the reload is asked of a view model that is gone.
DisableWritesBlindly ==
  /\ disabling \in {"asked", "orphan"}
  /\ Commits
  /\ disabling' = "written"
  /\ UNCHANGED <<invalidated, notified, cache, loads, window, list>>

DisableWrites ==
  /\ disabling \in {"asked", "orphan"}
  /\ Commits
  /\ disabling' = IF disabling = "asked" THEN "written" ELSE "none"
  /\ UNCHANGED <<invalidated, notified, cache, loads, window, list>>

DisableReloads(l) ==
  /\ disabling = "written"
  /\ disabling' = "none"
  /\ Reload(l, list)
  /\ UNCHANGED <<books, cache, window>>

DisableFails ==
  /\ disabling \in {"asked", "orphan"}
  /\ disabling' = "none"
  /\ list' = IF disabling = "asked" THEN [list EXCEPT !.error = TRUE] ELSE list
  /\ UNCHANGED <<books, cache, loads, window>>

----------------------------------------------------------------------------
LoadStep(l) ==
  \/ Reads(l)
  \/ TreePublished(l) \/ TreeFails(l)
  \/ ListPublished(l) \/ ListFails(l)
TaskStep ==
  \/ DashboardLoads \/ DashboardKeeps \/ TaskIdles
  \/ \E l \in Slots : Setup(l)
DisableStep ==
  \/ DisableWrites \/ DisableFails
  \/ \E l \in Slots : DisableReloads(l)
User ==
  \/ \E s \in ScreenNames : Navigate(s)
  \/ \E l \in Slots : Rebuild(l) \/ SwitchYear(l) \/ ReloadAsked(l)
  \/ PostSaved \/ SalaryPosted \/ SettingsSaved \/ ChequeMoved \/ DisableAsked

Next ==
  \/ \E l \in Slots : LoadStep(l)
  \/ TaskStep \/ DisableStep \/ User

\* A task that was started runs; of the user nothing is assumed.
Fairness ==
  /\ \A l \in Slots : WF_vars(LoadStep(l))
  /\ WF_vars(TaskStep) /\ WF_vars(DisableStep)

Spec == Init /\ [][Next]_vars /\ Fairness

----------------------------------------------------------------------------
(* Properties *)

\* AccountsViewModel.disable: the state has its shape, and a disable that wants
\* its list reloaded has the view model it began from.
TypeOK ==
  /\ written \in Writes /\ invalidated \in Writes /\ notified \in Writes
  /\ cache \in Caches
  /\ loads \in [Slots -> Loads \cup {Nil}]
  /\ screen \in ScreenNames /\ due \in BOOLEAN
  /\ dashboard \in Dashboards
  /\ list \in ViewModels \cup {Nil}
  /\ disabling \in {"none", "asked", "written", "orphan"}
  /\ disabling \in {"asked", "written"} => list \in ViewModels

\* AccountTreeCache.invalidate and reload: a tree on screen has every write
\* that an invalidation was made for, however loads overlap, unless the very
\* load that brought it was under way when the invalidation came.
TreeHasInvalidated ==
  cache.tree # Nil /\ ~cache.missed => cache.tree >= invalidated

\* VouchersViewModel.reload and AccountsViewModel.reload: a list at rest shows
\* an answer read after the last reload was asked, whatever order the answers
\* of the earlier ones and of a disable come in.
ListAnswersLatest ==
  list # Nil => \/ list.isLoading \/ list.error
                \/ list.at # Nil /\ list.at >= list.asked

\* What is on screen and still loads or is out of date has somebody coming for
\* it: a load of the tree, the current load of the list, the task that makes the
\* list, the task that reloads the dashboard.  Nothing waits for an answer that
\* was dropped, or for a notification that came before it looked.
SomebodyComes ==
  /\ cache.isLoading => \E l \in Slots : loads[l] # Nil /\ loads[l].of = "tree"
  /\ list # Nil /\ list.isLoading
       => \E l \in Slots : loads[l] # Nil /\ loads[l].of = "list" /\ loads[l].current
  /\ screen \in ListScreens /\ list = Nil => due
  /\ screen = "dashboard"
       => \/ due \/ dashboard.failed
          \/ dashboard.at # Nil /\ dashboard.at >= notified

\* DashboardView's task: what was notified while the dashboard is on screen
\* reaches its figures, unless it is left or its reload throws.
DashboardCatchesUp ==
  \A w \in Writes :
    screen = "dashboard" /\ notified >= w
      ~> \/ screen # "dashboard" \/ dashboard.failed
         \/ dashboard.at # Nil /\ dashboard.at >= w

UserRests == <>[][~ \E l \in Slots : SwitchYear(l) \/ ReloadAsked(l)]_vars

\* No spinner turns for ever: when the user stops asking for more, the tree and
\* the list on screen stop loading, and a list comes to be where one belongs.
SpinnersStop ==
  UserRests => /\ cache.isLoading ~> ~cache.isLoading
               /\ list # Nil /\ list.isLoading ~> (list = Nil \/ ~list.isLoading)
               /\ screen \in ListScreens ~> (screen \notin ListScreens \/ list # Nil)
=============================================================================
