---------------------------- MODULE VoucherEditor ----------------------------
(***************************************************************************)
(* The sheet that enters a new voucher: its autosaved draft, the gate that *)
(* asks before unsaved input is left behind, and the recovery of a draft   *)
(* after the process has ended.  The handlers run to their end on the main *)
(* actor; between them fall the autosave's timer, SwiftUI's calls when a   *)
(* sheet has appeared or disappeared, and the end of the process.  Posting *)
(* commits the voucher before it deletes the draft, so it is two steps     *)
(* that only the end of the process can separate.                          *)
(***************************************************************************)
EXTENDS Naturals

CONSTANTS
  Types,       \* voucher types that have a sheet
  Texts,       \* what the fields may hold, all of them together
  Blank,       \* a fresh sheet's fields
  Other,       \* any sheet without a new voucher
  MaxDrafts,   \* bound: draft ids drawn
  MaxClock,    \* bound: snapshots taken
  Nil          \* Swift's nil

Sheets == Types \cup {Other}
Ids == 1..MaxDrafts

\* A row of avelo_voucher_drafts; at orders the snapshots by their Date().
Rows == [id : Ids, type : Types, text : Texts, at : Nat]

\* A VoucherEditViewModel in create mode.  timer: the snapshot its autosave
\* will write; committed: its voucher is posted and its draft not yet deleted;
\* missed, history: the last attempt to write its draft failed.
Editors == [id : Ids, type : Types, text : Texts, clean : Texts,
            suppressed : BOOLEAN, timer : Rows \cup {Nil},
            committed : BOOLEAN, missed : BOOLEAN]

\* What requestNavigation is asked for.  "go" stands for every destination
\* that leaves the sheet where it is: another module, another year.
Requests == Sheets \cup {"dismiss", "go", "close"}

ASSUME EditorAssumption ==
  /\ Blank \in Texts /\ MaxDrafts \in Nat /\ MaxClock \in Nat
  /\ Nil \notin Rows \cup Editors \cup Requests
  /\ Other \notin Types \cup {"dismiss", "go", "close"}
  /\ Types \cap {"dismiss", "go", "close"} = {}

VARIABLES
  drafts,    \* the rows on disk
  posted,    \* history: the drafts whose voucher was committed
  orphaned,  \* history: of these, the ones whose row could not be deleted
  drawn,     \* draft ids drawn
  clock,     \* snapshots taken
  isOpen,    \* companyContext is not nil
  offer,     \* env.pendingDraftRecovery
  sheet,     \* router.presentedSheet
  waiting,   \* router.pendingNavigation
  editor,    \* the view model of the sheet on screen
  leaving    \* the view model of a sheet that has yet to disappear

vars == <<drafts, posted, orphaned, drawn, clock, isOpen, offer, sheet, waiting,
          editor, leaving>>
disk == <<drafts, posted, orphaned>>
counters == <<drawn, clock>>
routing == <<isOpen, offer, sheet, waiting>>

Init ==
  /\ drafts = {} /\ posted = {} /\ orphaned = {}
  /\ drawn = 0 /\ clock = 0
  /\ isOpen = TRUE /\ offer = Nil /\ sheet = Nil /\ waiting = Nil
  /\ editor = Nil /\ leaving = Nil

-----------------------------------------------------------------------------
(* The table of drafts *)

Without(id) == {r \in drafts : r.id # id}
Upserted(row) == Without(row.id) \cup {row}

\* The company's latest row; nil also when the query fails.
MostRecent(row) ==
  \/ row = Nil
  \/ row \in drafts /\ \A r \in drafts : r.at <= row.at

-----------------------------------------------------------------------------
(* The view model *)

HasUnsavedChanges == editor # Nil /\ editor.text # editor.clean

Snapshot(vm, text) == [id |-> vm.id, type |-> vm.type, text |-> text, at |-> clock]

\* The view model as loaded and captured clean.
Loaded(id, type, text) ==
  [id |-> id, type |-> type, text |-> text, clean |-> text, suppressed |-> FALSE,
   timer |-> Nil, committed |-> FALSE, missed |-> FALSE]

\* Defect: a deleted draft may be saved again.
OnlyCancelled(vm) == [vm EXCEPT !.timer = Nil, !.committed = FALSE]

\* What deleteDraft does to the view model: no autosave, now or later.
Silenced(vm) == [vm EXCEPT !.suppressed = TRUE, !.timer = Nil, !.committed = FALSE]

\* The turn of the main actor that posts is over.
Idle == editor # Nil => ~editor.committed

\* The user is not held up by the prompt of unsaved changes, which is modal.
Free == Idle /\ waiting = Nil

\* Defect: the snapshot is taken before the change.
EditedLate(text) ==
  [editor EXCEPT !.text = text,
                 !.timer = IF editor.suppressed THEN Nil
                           ELSE Snapshot(editor, editor.text)]

\* The user changes the fields, or undoes to an earlier state of them, and
\* onChange schedules the autosave of what they hold now.
Edited(text) ==
  [editor EXCEPT !.text = text,
                 !.timer = IF editor.suppressed THEN Nil ELSE Snapshot(editor, text)]

Type(text) ==
  /\ editor # Nil /\ Free /\ text # editor.text
  /\ clock < MaxClock /\ clock' = clock + 1
  /\ editor' = Edited(text)
  /\ UNCHANGED <<disk, drawn, routing, leaving>>

\* Attempts to write vm's row: try? ignores a failure, which leaves no retry.
Saves(vm, row, vmNext) ==
  \/ drafts' = Upserted(row) /\ vmNext = [vm EXCEPT !.timer = Nil, !.missed = FALSE]
  \/ drafts' = drafts /\ vmNext = [vm EXCEPT !.timer = Nil, !.missed = TRUE]

\* 800 ms without a change; the timer of a sheet that is leaving runs too.
Autosave ==
  /\ Idle
  /\ \/ /\ editor # Nil /\ editor.timer # Nil
        /\ Saves(editor, editor.timer, editor')
        /\ UNCHANGED leaving
     \/ /\ leaving # Nil /\ leaving.timer # Nil
        /\ Saves(leaving, leaving.timer, leaving')
        /\ UNCHANGED editor
  /\ UNCHANGED <<posted, orphaned, counters, routing>>

-----------------------------------------------------------------------------
(* Navigation *)

\* vm's sheet goes; its onDisappear comes later.
Leaves(vm) ==
  /\ editor' = Nil
  /\ IF vm = Nil THEN UNCHANGED leaving ELSE leaving = Nil /\ leaving' = vm

\* Defect: the draft on offer stays.
ClosesOffering(vm) == isOpen' = FALSE /\ sheet' = Nil /\ Leaves(vm) /\ UNCHANGED offer

\* closeCompany, and the router's reset.
Closes(vm) == isOpen' = FALSE /\ offer' = Nil /\ sheet' = Nil /\ Leaves(vm)

\* Carries a request out; vm is the view model as it stands then.
Perform(request, vm) ==
  \/ /\ request \in Sheets /\ request # sheet
     /\ sheet' = request /\ Leaves(vm) /\ UNCHANGED <<isOpen, offer>>
  \/ /\ request \in Sheets /\ request = sheet
     /\ editor' = vm /\ UNCHANGED <<isOpen, offer, sheet, leaving>>
  \/ /\ request = "dismiss"
     /\ sheet' = Nil /\ Leaves(vm) /\ UNCHANGED <<isOpen, offer>>
  \/ /\ request = "go"
     /\ editor' = vm /\ UNCHANGED <<isOpen, offer, sheet, leaving>>
  \/ request = "close" /\ Closes(vm)

\* Defect: requestNavigation does not ask.
NavigateAnyway(request) ==
  /\ isOpen /\ Free
  /\ Perform(request, editor)
  /\ UNCHANGED <<disk, counters, waiting>>

\* requestNavigation: unsaved input first asks the user, about one request.
Navigate(request) ==
  /\ isOpen /\ Free /\ ~HasUnsavedChanges
  /\ Perform(request, editor)
  /\ UNCHANGED <<disk, counters, waiting>>

AskFirst(request) ==
  /\ isOpen /\ Free /\ HasUnsavedChanges
  /\ waiting' = request
  /\ UNCHANGED <<disk, counters, isOpen, offer, sheet, editor, leaving>>

KeepEditing ==
  /\ waiting # Nil /\ Idle /\ waiting' = Nil
  /\ UNCHANGED <<disk, counters, isOpen, offer, sheet, editor, leaving>>

\* The failure of a DELETE is ignored, so the row may stay.
DeletesOf(id) == drafts' \in {Without(id), drafts}

\* discardUnsavedChanges, then what was waiting.  After a "go" the sheet is
\* still there, and never autosaves again.
Discard ==
  /\ waiting # Nil /\ Idle
  /\ DeletesOf(editor.id)
  /\ Perform(waiting, [Silenced(editor) EXCEPT !.clean = editor.text])
  /\ waiting' = Nil
  /\ UNCHANGED <<posted, orphaned, counters>>

\* NewVoucherSheet.setup: an offered draft of this type is consumed.
Setup ==
  /\ isOpen /\ sheet \in Types /\ editor = Nil /\ clock < MaxClock
  /\ IF offer # Nil /\ offer.type = sheet
     THEN /\ editor' = Loaded(offer.id, sheet, offer.text)
          /\ offer' = Nil /\ UNCHANGED drawn
     ELSE /\ drawn < MaxDrafts /\ drawn' = drawn + 1
          /\ editor' = Loaded(drawn', sheet, Blank)
          /\ UNCHANGED offer
  /\ UNCHANGED <<disk, clock, isOpen, sheet, waiting, leaving>>

\* onDisappear asks what is presented by then: nothing, and the draft is
\* deleted; another sheet, and it is kept as it is now.
Disappear ==
  /\ leaving # Nil /\ Idle /\ leaving' = Nil
  /\ \/ sheet = Nil /\ DeletesOf(leaving.id) /\ UNCHANGED clock
     \/ /\ sheet # Nil /\ ~leaving.suppressed
        /\ clock' = clock + 1
        /\ drafts' \in {Upserted(Snapshot(leaving, leaving.text)), drafts}
     \/ sheet # Nil /\ leaving.suppressed /\ UNCHANGED <<drafts, clock>>
  /\ UNCHANGED <<posted, orphaned, drawn, routing, editor>>

-----------------------------------------------------------------------------
(* Posting *)

\* The service commits the voucher; a refusal changes nothing here.
Submit ==
  /\ isOpen /\ editor # Nil /\ Free /\ leaving = Nil
  /\ editor' = [editor EXCEPT !.committed = TRUE]
  /\ posted' = posted \cup {editor.id}
  /\ UNCHANGED <<drafts, orphaned, counters, routing, leaving>>

\* deleteDraft and completeVoucherSubmission.
Complete ==
  /\ ~Idle
  /\ \/ drafts' = Without(editor.id) /\ UNCHANGED orphaned
     \/ drafts' = drafts /\ orphaned' = orphaned \cup {editor.id}
  /\ sheet' = Nil /\ waiting' = Nil /\ Leaves(Silenced(editor))
  /\ UNCHANGED <<posted, counters, isOpen, offer>>

-----------------------------------------------------------------------------
(* Recovery *)

\* A crash or a quit; memory goes, and with it a post's second half.
Crash ==
  /\ isOpen
  /\ isOpen' = FALSE /\ offer' = Nil /\ sheet' = Nil /\ waiting' = Nil
  /\ editor' = Nil /\ leaving' = Nil
  /\ orphaned' = IF Idle THEN orphaned ELSE orphaned \cup {editor.id}
  /\ UNCHANGED <<drafts, posted, counters>>

\* Defect: the picker is there before the sheets have gone.
OpenCompanySooner ==
  /\ ~isOpen
  /\ isOpen' = TRUE
  /\ MostRecent(offer')
  /\ UNCHANGED <<disk, counters, sheet, waiting, editor, leaving>>

\* The picker is shown once the sheets have gone.
OpenCompany ==
  /\ ~isOpen /\ leaving = Nil
  /\ isOpen' = TRUE
  /\ MostRecent(offer')
  /\ UNCHANGED <<disk, counters, sheet, waiting, editor, leaving>>

\* The prompt of RootView, which needs a window without a sheet.
Offered == offer # Nil /\ editor = Nil /\ isOpen

\* Resume presents the sheet; SwiftUI clears the alert's item when it goes,
\* before the sheet's setup has read it or after.
Resume ==
  /\ Offered
  /\ sheet' = offer.type /\ offer' \in {offer, Nil}
  /\ UNCHANGED <<disk, counters, isOpen, waiting, editor, leaving>>

\* Every draft of the company goes, not only the one offered.
DiscardOffer ==
  /\ Offered
  /\ drafts' \in {{}, drafts} /\ offer' = Nil
  /\ UNCHANGED <<posted, orphaned, counters, isOpen, sheet, waiting, editor, leaving>>

\* VouchersView offers a voucher's lines to the sheet under a fresh id.
Duplicate(type, text) ==
  /\ isOpen /\ sheet = Nil /\ offer = Nil
  /\ drawn < MaxDrafts /\ drawn' = drawn + 1
  /\ offer' = [id |-> drawn', type |-> type, text |-> text, at |-> clock]
  /\ sheet' = type
  /\ UNCHANGED <<disk, clock, isOpen, waiting, editor, leaving>>

Next ==
  \/ \E text \in Texts : Type(text)
  \/ Autosave
  \/ \E request \in Requests : Navigate(request) \/ AskFirst(request)
  \/ KeepEditing \/ Discard
  \/ Setup \/ Disappear
  \/ Submit \/ Complete
  \/ Crash \/ OpenCompany
  \/ Resume \/ DiscardOffer
  \/ \E type \in Types, text \in Texts : Duplicate(type, text)

Spec == Init /\ [][Next]_vars

-----------------------------------------------------------------------------
(* Properties *)

\* The values have their types, an editor has a sheet, and a closed company has
\* neither, nor a draft on offer.
TypeOK ==
  /\ drafts \subseteq Rows /\ posted \subseteq Ids /\ orphaned \subseteq Ids
  /\ drawn \in 0..MaxDrafts /\ clock \in Nat
  /\ isOpen \in BOOLEAN
  /\ offer \in Rows \cup {Nil} /\ sheet \in Sheets \cup {Nil}
  /\ waiting \in Requests \cup {Nil}
  /\ editor \in Editors \cup {Nil} /\ leaving \in Editors \cup {Nil}
  /\ ~isOpen => offer = Nil /\ sheet = Nil /\ editor = Nil
  /\ editor # Nil => sheet # Nil

\* Once its voucher is committed a draft cannot come back: it has no row, no
\* prompt offers it, no editor holds it, and neither a timer nor the
\* disappearance of its sheet can write it again; unless the process ended
\* between the two halves of the post, or the row could not be deleted.
PostedDraftIsGone ==
  \A id \in posted \ orphaned :
    /\ editor # Nil /\ editor.id = id => editor.committed
    /\ Idle => \A r \in drafts : r.id # id
    /\ offer # Nil => offer.id # id
    /\ leaving # Nil /\ leaving.id = id => leaving.suppressed /\ leaving.timer = Nil

\* What a crash can take of unsaved input is what the timer still holds: the
\* row, or the snapshot the timer will write, is what the fields show.  Not so
\* after a failed write, nor in a sheet that went on after its draft was
\* discarded.
InputIsSaved ==
  HasUnsavedChanges /\ ~editor.suppressed /\ ~editor.missed =>
    \E row \in {editor.timer} \cup drafts :
      /\ row # Nil /\ row.id = editor.id
      /\ row.type = editor.type /\ row.text = editor.text

\* Unsaved input leaves the screen only posted or by the user's decision: a
\* sheet on its way out holds what was loaded, discarded or posted.
NothingLeavesUnasked ==
  leaving # Nil => leaving.text = leaving.clean \/ leaving.id \in posted

\* A draft never goes back: no timer that was late, no sheet that disappears
\* after another has recovered its draft, puts an earlier snapshot over a later
\* one, though the row is written without a look at what is there (upsert).
DraftsGoForward ==
  [][\A r \in drafts, s \in drafts' : r.id = s.id => r.at <= s.at]_vars
=============================================================================
