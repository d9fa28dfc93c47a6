------------------------ MODULE VoucherEditor_proofs ------------------------
(***************************************************************************)
(* The safety properties of VoucherEditor, for any number of drafts and of *)
(* snapshots.  The inductive invariant adds to them that the editor, the   *)
(* sheet on its way out and the draft on offer have ids of their own, that *)
(* a timer holds what the fields show, and whose rows may still be on disk *)
(* while a post is half done.  That drafts only go forward has one of its  *)
(* own: rows and timers against the clock.                                 *)
(***************************************************************************)
EXTENDS VoucherEditor, TLAPS

Gone == posted \ orphaned

TimerSound(vm) ==
  vm.timer # Nil => /\ vm.timer.id = vm.id /\ vm.timer.type = vm.type
                    /\ vm.timer.text = vm.text /\ ~vm.suppressed

\* A view model that may be on screen.
EditorSound(vm) ==
  /\ vm.id <= drawn /\ TimerSound(vm)
  /\ IF vm.committed THEN vm.id \in posted /\ waiting = Nil ELSE vm.id \notin Gone

\* A view model that may be on its way out.
LeavingSound(vm) ==
  /\ vm.id <= drawn /\ TimerSound(vm)
  /\ vm.id \in Gone => vm.suppressed /\ vm.timer = Nil
  /\ vm.text = vm.clean \/ vm.id \in posted

DraftsSound ==
  \A r \in drafts :
    r.id <= drawn
    /\ (r.id \in Gone => editor # Nil /\ editor.committed /\ editor.id = r.id)

OfferSound == offer # Nil => offer.id <= drawn /\ offer.id \notin Gone

Apart ==
  /\ editor # Nil /\ leaving # Nil => editor.id # leaving.id
  /\ editor # Nil /\ offer # Nil => editor.id # offer.id
  /\ leaving # Nil /\ offer # Nil => leaving.id # offer.id

IInv ==
  /\ TypeOK
  /\ \A id \in posted : id <= drawn
  /\ editor # Nil => EditorSound(editor)
  /\ leaving # Nil => LeavingSound(leaving)
  /\ DraftsSound
  /\ OfferSound
  /\ Apart
  /\ waiting # Nil => HasUnsavedChanges
  /\ InputIsSaved

USE DEF Ids

LEMMA Constants ==
  /\ Blank \in Texts /\ MaxDrafts \in Nat
  /\ Nil \notin Rows /\ Nil \notin Editors /\ Nil \notin Requests
BY EditorAssumption DEF EditorAssumption

USE Constants

-----------------------------------------------------------------------------
(* View models and rows *)

LEMMA SnapshotRow ==
  ASSUME TypeOK, NEW vm \in Editors, NEW text \in Texts
  PROVE  /\ Snapshot(vm, text) \in Rows
         /\ Snapshot(vm, text).id = vm.id /\ Snapshot(vm, text).type = vm.type
         /\ Snapshot(vm, text).text = text
BY DEF TypeOK, Snapshot, Editors, Rows

LEMMA LoadedEditor ==
  ASSUME NEW id \in Ids, NEW type \in Types, NEW text \in Texts
  PROVE  /\ Loaded(id, type, text) \in Editors
         /\ Loaded(id, type, text).id = id
         /\ Loaded(id, type, text).text = Loaded(id, type, text).clean
         /\ Loaded(id, type, text).timer = Nil
         /\ ~Loaded(id, type, text).committed
BY DEF Loaded, Editors

LEMMA SilencedEditor ==
  ASSUME NEW vm \in Editors
  PROVE  /\ Silenced(vm) \in Editors /\ Silenced(vm).id = vm.id
         /\ Silenced(vm).text = vm.text /\ Silenced(vm).clean = vm.clean
         /\ Silenced(vm).suppressed /\ Silenced(vm).timer = Nil
         /\ ~Silenced(vm).committed
BY DEF Silenced, Editors

LEMMA WithoutType ==
  ASSUME TypeOK, NEW id
  PROVE  Without(id) \subseteq drafts /\ \A r \in drafts : r.id # id => r \in Without(id)
BY DEF Without

-----------------------------------------------------------------------------
LEMMA InitInv == Init => IInv
BY DEF Init, IInv, TypeOK, DraftsSound, OfferSound, Apart, InputIsSaved,
   HasUnsavedChanges

\* Rows other than the editor's may come and go.
LEMMA InputKept ==
  ASSUME IInv, editor' = editor,
         \A r \in drafts : editor # Nil /\ r.id = editor.id => r \in drafts'
  PROVE  InputIsSaved'
BY DEF IInv, InputIsSaved, HasUnsavedChanges

LEMMA TypeInv == ASSUME IInv, NEW text \in Texts, Type(text) PROVE IInv'
<1> DEFINE row == Snapshot(editor, text)
<1>1. editor \in Editors /\ row \in Rows /\ row.id = editor.id
         /\ row.type = editor.type /\ row.text = text
  BY SnapshotRow DEF IInv, TypeOK, Type
<1>2. /\ editor' \in Editors /\ editor' # Nil
      /\ editor'.id = editor.id /\ editor'.type = editor.type /\ editor'.text = text
      /\ editor'.suppressed = editor.suppressed /\ editor'.committed = editor.committed
      /\ editor'.timer = IF editor.suppressed THEN Nil ELSE row
  BY <1>1 DEF Type, Edited, Editors
<1>3. ~editor.committed /\ waiting = Nil  BY DEF Type, Free, Idle
<1>4. TypeOK'
  BY <1>2 DEF IInv, TypeOK, Type, disk, routing
<1>5. EditorSound(editor)'
  BY <1>1, <1>2, <1>3 DEF IInv, EditorSound, TimerSound, Type, Gone, disk, routing
<1>6. InputIsSaved'
  BY <1>1, <1>2 DEF InputIsSaved, Type
<1>7. (leaving # Nil => LeavingSound(leaving))'
  BY DEF IInv, LeavingSound, TimerSound, Type, Gone, disk
<1>8. DraftsSound'
  BY <1>2, <1>3 DEF IInv, DraftsSound, Type, Gone, disk
<1>9. OfferSound' /\ Apart'
  BY <1>2 DEF IInv, OfferSound, Apart, Type, Gone, disk, routing
<1>10. (waiting # Nil => HasUnsavedChanges)' /\ (\A id \in posted : id <= drawn)'
  BY <1>3 DEF IInv, Type, disk, routing
<1> QED BY <1>4, <1>5, <1>6, <1>7, <1>8, <1>9, <1>10 DEF IInv

\* A row that is written belongs to a view model whose draft may have one.
LEMMA UpsertedDrafts ==
  ASSUME IInv, NEW row \in Rows, row.id <= drawn, row.id \notin Gone,
         drafts' = Upserted(row) \/ drafts' = drafts
  PROVE  /\ drafts' \subseteq Rows
         /\ \A r \in drafts' : r.id <= drawn
         /\ \A r \in drafts' : r.id \in Gone => r \in drafts
         /\ \A r \in drafts : r.id # row.id => r \in drafts'
BY DEF IInv, TypeOK, DraftsSound, Upserted, Without

\* What an autosave leaves of a view model.
LEMMA SavesEffect ==
  ASSUME IInv, NEW vm \in Editors, vm.timer # Nil, NEW next, Saves(vm, vm.timer, next)
  PROVE  /\ next \in Editors /\ next # Nil
         /\ next.id = vm.id /\ next.type = vm.type /\ next.text = vm.text
         /\ next.clean = vm.clean /\ next.suppressed = vm.suppressed
         /\ next.committed = vm.committed /\ next.timer = Nil
         /\ next.missed \/ drafts' = Upserted(vm.timer)
         /\ drafts' = Upserted(vm.timer) \/ drafts' = drafts
BY DEF Saves, Editors

LEMMA AutosaveInv == ASSUME IInv, Autosave PROVE IInv'
<1>1. CASE /\ editor # Nil /\ editor.timer # Nil
           /\ Saves(editor, editor.timer, editor') /\ UNCHANGED leaving
  <2>1. editor \in Editors /\ editor.timer \in Rows /\ ~editor.committed
    BY <1>1 DEF IInv, TypeOK, Editors, Autosave, Idle
  <2>2. /\ editor' \in Editors /\ editor' # Nil
        /\ editor'.id = editor.id /\ editor'.type = editor.type
        /\ editor'.text = editor.text /\ editor'.clean = editor.clean
        /\ editor'.suppressed = editor.suppressed
        /\ editor'.committed = editor.committed /\ editor'.timer = Nil
        /\ editor'.missed \/ drafts' = Upserted(editor.timer)
        /\ drafts' = Upserted(editor.timer) \/ drafts' = drafts
    BY <1>1, <2>1, SavesEffect
  <2>3. /\ editor.timer.id = editor.id /\ editor.timer.type = editor.type
        /\ editor.timer.text = editor.text
        /\ editor.id <= drawn /\ editor.id \notin Gone
    BY <1>1, <2>1 DEF IInv, EditorSound, TimerSound
  <2>4. /\ drafts' \subseteq Rows
        /\ \A r \in drafts' : r.id <= drawn
        /\ \A r \in drafts' : r.id \in Gone => r \in drafts
    BY <2>1, <2>2, <2>3, UpsertedDrafts
  <2>5. TypeOK'
    BY <1>1, <2>2, <2>4 DEF IInv, TypeOK, Autosave, counters, routing
  <2>6. EditorSound(editor)'
    BY <2>1, <2>2, <2>3 DEF IInv, EditorSound, TimerSound, Autosave, Gone, counters
  <2>7. (leaving # Nil => LeavingSound(leaving))'
    BY <1>1 DEF IInv, LeavingSound, TimerSound, Autosave, Gone, counters
  <2>8. DraftsSound'
    BY <2>1, <2>2, <2>3, <2>4 DEF IInv, DraftsSound, Autosave, Gone, counters
  <2>9. OfferSound' /\ Apart'
    BY <1>1, <2>2 DEF IInv, OfferSound, Apart, Autosave, Gone, counters, routing
  <2>10. (waiting # Nil => HasUnsavedChanges)' /\ (\A id \in posted : id <= drawn)'
    BY <2>2 DEF IInv, HasUnsavedChanges, Autosave, counters, routing
  <2>11. InputIsSaved'
    <3>1. CASE editor'.missed  BY <3>1 DEF InputIsSaved
    <3>2. CASE drafts' = Upserted(editor.timer)
      <4>1. editor.timer \in drafts'  BY <3>2 DEF Upserted
      <4> QED BY <1>1, <2>2, <2>3, <4>1 DEF InputIsSaved
    <3> QED BY <2>2, <3>1, <3>2
  <2> QED BY <2>5, <2>6, <2>7, <2>8, <2>9, <2>10, <2>11 DEF IInv
<1>2. CASE /\ leaving # Nil /\ leaving.timer # Nil
           /\ Saves(leaving, leaving.timer, leaving') /\ UNCHANGED editor
  <2>1. leaving \in Editors /\ leaving.timer \in Rows
    BY <1>2 DEF IInv, TypeOK, Editors
  <2>2. /\ leaving' \in Editors /\ leaving' # Nil
        /\ leaving'.id = leaving.id /\ leaving'.text = leaving.text
        /\ leaving'.clean = leaving.clean
        /\ leaving'.suppressed = leaving.suppressed /\ leaving'.timer = Nil
        /\ drafts' = Upserted(leaving.timer) \/ drafts' = drafts
    BY <1>2, <2>1, SavesEffect
  <2>3. /\ leaving.timer.id = leaving.id /\ leaving.id <= drawn /\ leaving.id \notin Gone
    BY <1>2, <2>1 DEF IInv, LeavingSound, TimerSound
  <2>4. /\ drafts' \subseteq Rows
        /\ \A r \in drafts' : r.id <= drawn
        /\ \A r \in drafts' : r.id \in Gone => r \in drafts
        /\ \A r \in drafts : r.id # leaving.id => r \in drafts'
    BY <2>1, <2>2, <2>3, UpsertedDrafts
  <2>5. TypeOK'
    BY <1>2, <2>2, <2>4 DEF IInv, TypeOK, Autosave, counters, routing
  <2>6. (editor # Nil => EditorSound(editor))'
    BY <1>2 DEF IInv, EditorSound, TimerSound, Autosave, Gone, counters, routing
  <2>7. LeavingSound(leaving)'
    BY <1>2, <2>2, <2>3 DEF IInv, LeavingSound, TimerSound, Autosave, Gone, counters
  <2>8. DraftsSound'
    BY <1>2, <2>4 DEF IInv, DraftsSound, Autosave, Gone, counters
  <2>9. OfferSound' /\ Apart'
    BY <1>2, <2>2 DEF IInv, OfferSound, Apart, Autosave, Gone, counters, routing
  <2>10. (waiting # Nil => HasUnsavedChanges)' /\ (\A id \in posted : id <= drawn)'
    BY <1>2 DEF IInv, HasUnsavedChanges, Autosave, counters, routing
  <2>11. InputIsSaved'
    BY <1>2, <2>4, InputKept DEF IInv, Apart
  <2> QED BY <2>5, <2>6, <2>7, <2>8, <2>9, <2>10, <2>11 DEF IInv
<1> QED BY <1>1, <1>2 DEF Autosave

-----------------------------------------------------------------------------
(* Navigation *)

\* Carrying a request out leaves the view model on screen or sends it away.
LEMMA PerformEffect ==
  ASSUME TypeOK, isOpen, NEW request \in Requests, NEW vm \in Editors \cup {Nil},
         Perform(request, vm)
  PROVE  /\ isOpen' \in BOOLEAN /\ offer' \in {offer, Nil}
         /\ sheet' \in Sheets \cup {Nil}
         /\ ~isOpen' => offer' = Nil /\ sheet' = Nil /\ editor' = Nil
         /\ editor' # Nil => sheet' = sheet
         /\ \/ editor' = vm /\ leaving' = leaving
            \/ editor' = Nil /\ vm # Nil /\ leaving' = vm
<1>1. CASE request \in Sheets
  BY <1>1, EditorAssumption DEF EditorAssumption, TypeOK, Perform, Leaves, Sheets
<1>2. CASE request \notin Sheets
  BY <1>2 DEF TypeOK, Perform, Leaves, Closes
<1> QED BY <1>1, <1>2

\* A step that carries a request out for a view model whose input is settled.
LEMMA MovedInv ==
  ASSUME IInv, isOpen, Idle, NEW request \in Requests,
         NEW vm \in Editors \cup {Nil}, Perform(request, vm), waiting' = Nil,
         UNCHANGED <<posted, orphaned, counters>>,
         vm = Nil => editor = Nil,
         vm # Nil => /\ editor # Nil /\ vm.id = editor.id /\ ~vm.committed
                     /\ TimerSound(vm) /\ vm.text = vm.clean,
         \/ drafts' = drafts
         \/ editor # Nil /\ drafts' = Without(editor.id)
  PROVE  IInv'
<1>1. /\ isOpen' \in BOOLEAN /\ offer' \in {offer, Nil}
      /\ sheet' \in Sheets \cup {Nil}
      /\ ~isOpen' => offer' = Nil /\ sheet' = Nil /\ editor' = Nil
      /\ editor' # Nil => sheet' = sheet
      /\ \/ editor' = vm /\ leaving' = leaving
         \/ editor' = Nil /\ vm # Nil /\ leaving' = vm
  BY PerformEffect DEF IInv
<1>2. /\ drafts' \subseteq drafts
      /\ posted' = posted /\ orphaned' = orphaned /\ drawn' = drawn /\ clock' = clock
      /\ Gone' = Gone
  BY WithoutType DEF IInv, counters, Gone
<1>3. editor # Nil => ~editor.committed /\ editor.id <= drawn /\ editor.id \notin Gone
  BY DEF IInv, EditorSound, Idle
<1>4. TypeOK'
  BY <1>1, <1>2 DEF IInv, TypeOK
<1>5. (editor # Nil => EditorSound(editor))'
  BY <1>1, <1>2, <1>3 DEF EditorSound, TimerSound
<1>6. (leaving # Nil => LeavingSound(leaving))'
  BY <1>1, <1>2, <1>3 DEF IInv, LeavingSound, TimerSound
<1>7. DraftsSound'
  BY <1>2, <1>3 DEF IInv, DraftsSound
<1>8. OfferSound' /\ Apart'
  BY <1>1, <1>2 DEF IInv, OfferSound, Apart
<1>9. (waiting # Nil => HasUnsavedChanges)' /\ (\A id \in posted : id <= drawn)'
  BY <1>2 DEF IInv
<1>10. InputIsSaved'
  BY <1>1 DEF InputIsSaved, HasUnsavedChanges
<1> QED BY <1>4, <1>5, <1>6, <1>7, <1>8, <1>9, <1>10 DEF IInv

LEMMA NavigateInv == ASSUME IInv, NEW request \in Requests, Navigate(request) PROVE IInv'
<1>1. /\ isOpen /\ Idle /\ waiting = Nil /\ waiting' = Nil /\ Perform(request, editor)
      /\ drafts' = drafts /\ UNCHANGED <<posted, orphaned, counters>>
      /\ editor = Nil \/ editor.text = editor.clean
  BY DEF Navigate, Free, HasUnsavedChanges, disk
<1>2. editor \in Editors \cup {Nil}
      /\ (editor # Nil => TimerSound(editor) /\ ~editor.committed)
  BY <1>1 DEF IInv, TypeOK, EditorSound, Idle
<1> QED BY <1>1, <1>2, MovedInv

LEMMA DiscardInv == ASSUME IInv, Discard PROVE IInv'
<1> DEFINE vm == [Silenced(editor) EXCEPT !.clean = editor.text]
<1>1. /\ waiting # Nil /\ Idle /\ editor # Nil /\ editor \in Editors
      /\ waiting \in Requests /\ isOpen
  BY DEF IInv, TypeOK, Discard, HasUnsavedChanges
<1>2. Silenced(editor) \in Editors /\ Silenced(editor).id = editor.id
      /\ Silenced(editor).timer = Nil /\ ~Silenced(editor).committed
      /\ Silenced(editor).text = editor.text
  BY <1>1, SilencedEditor
<1>3. /\ vm \in Editors /\ vm.id = editor.id /\ vm.timer = Nil /\ ~vm.committed
      /\ vm.text = vm.clean /\ vm # Nil
  <2>1. editor.text \in Texts  BY <1>1 DEF Editors
  <2> QED BY <1>2, <2>1 DEF Editors
<1>4. TimerSound(vm)  BY <1>3 DEF TimerSound
<1>5. /\ Perform(waiting, vm) /\ waiting' = Nil
      /\ UNCHANGED <<posted, orphaned, counters>>
      /\ drafts' = Without(editor.id) \/ drafts' = drafts
  BY DEF Discard, DeletesOf
<1> HIDE DEF vm
<1> QED BY <1>1, <1>3, <1>4, <1>5, MovedInv

\* Asking and taking the question back.
LEMMA AskedInv ==
  ASSUME IInv, waiting' \in Requests \cup {Nil},
         waiting' # Nil => HasUnsavedChanges /\ Idle,
         UNCHANGED <<disk, counters, isOpen, offer, sheet, editor, leaving>>
  PROVE  IInv'
<1>1. TypeOK'
  BY DEF IInv, TypeOK, disk, counters
<1>2. (editor # Nil => EditorSound(editor))'
  BY DEF IInv, EditorSound, TimerSound, Idle, Gone, disk, counters
<1>3. (leaving # Nil => LeavingSound(leaving))' /\ DraftsSound' /\ OfferSound' /\ Apart'
  BY DEF IInv, LeavingSound, TimerSound, DraftsSound, OfferSound, Apart, Gone, disk, counters
<1>4. (waiting # Nil => HasUnsavedChanges)' /\ (\A id \in posted : id <= drawn)'
      /\ InputIsSaved'
  BY DEF IInv, HasUnsavedChanges, InputIsSaved, disk, counters
<1> QED BY <1>1, <1>2, <1>3, <1>4 DEF IInv

LEMMA QuestionInv ==
  ASSUME IInv, KeepEditing \/ \E request \in Requests : AskFirst(request)
  PROVE  IInv'
BY AskedInv DEF KeepEditing, AskFirst, Free, HasUnsavedChanges

-----------------------------------------------------------------------------
(* Sheets come and go *)

LEMMA SetupInv == ASSUME IInv, Setup PROVE IInv'
<1>1. /\ editor = Nil /\ sheet \in Types /\ isOpen /\ waiting' = waiting /\ waiting = Nil
      /\ UNCHANGED <<disk, clock, isOpen, sheet, leaving>>
  BY DEF IInv, Setup, HasUnsavedChanges
<1>2. PICK id \in Ids, text \in Texts :
        /\ editor' = Loaded(id, sheet, text)
        /\ id \notin Gone /\ id <= drawn' /\ drawn <= drawn'
        /\ drawn' \in 0..MaxDrafts
        /\ offer' \in {offer, Nil}
        /\ leaving # Nil => leaving.id # id
        /\ offer' # Nil => offer'.id # id
  <2>1. CASE offer # Nil /\ offer.type = sheet
    <3>1. offer.id \in Ids /\ offer.text \in Texts  BY <2>1 DEF IInv, TypeOK, Rows
    <3>2. offer.id \notin Gone /\ offer.id <= drawn /\ drawn \in 0..MaxDrafts
          /\ (leaving # Nil => leaving.id # offer.id)
      BY <2>1 DEF IInv, TypeOK, OfferSound, Apart
    <3> QED BY <2>1, <3>1, <3>2 DEF Setup
  <2>2. CASE ~(offer # Nil /\ offer.type = sheet)
    <3>1. /\ drawn \in 0..MaxDrafts /\ drawn < MaxDrafts /\ drawn' = drawn + 1
          /\ editor' = Loaded(drawn', sheet, Blank) /\ offer' = offer
      BY <2>2 DEF IInv, TypeOK, Setup
    <3>2. drawn' \in Ids /\ \A id \in Ids : id <= drawn => id # drawn'
      BY <3>1
    <3>3. drawn' \notin Gone
      BY <3>1, <3>2 DEF IInv, TypeOK, Gone
    <3>4. (leaving # Nil => leaving.id # drawn') /\ (offer # Nil => offer.id # drawn')
      <4>1. /\ leaving # Nil => leaving.id \in Ids /\ leaving.id <= drawn
            /\ offer # Nil => offer.id \in Ids /\ offer.id <= drawn
        BY DEF IInv, TypeOK, LeavingSound, OfferSound, Editors, Rows
      <4> QED BY <3>2, <4>1
    <3> QED BY <3>1, <3>2, <3>3, <3>4
  <2> QED BY <2>1, <2>2
<1>3. /\ editor' \in Editors /\ editor' # Nil /\ editor'.id = id
      /\ editor'.text = editor'.clean /\ editor'.timer = Nil /\ ~editor'.committed
  BY <1>1, <1>2, LoadedEditor
<1>4. drafts' = drafts /\ posted' = posted /\ Gone' = Gone
  BY <1>1 DEF disk, Gone
<1>5. TypeOK'
  <2>1. sheet # Nil  BY <1>1 DEF Requests, Sheets
  <2> QED BY <1>1, <1>2, <1>3, <2>1 DEF IInv, TypeOK, disk
<1>6. EditorSound(editor)'
  BY <1>2, <1>3, <1>4 DEF EditorSound, TimerSound
<1>7. (leaving # Nil => LeavingSound(leaving))'
  <2>1. leaving # Nil => leaving.id \in Ids  BY DEF IInv, TypeOK, Editors
  <2> QED BY <1>1, <1>2, <1>4, <2>1 DEF IInv, TypeOK, LeavingSound, TimerSound
<1>8. DraftsSound'
  <2>1. \A r \in drafts : r.id \in Ids  BY DEF IInv, TypeOK, Rows
  <2> QED BY <1>1, <1>2, <1>4, <2>1 DEF IInv, TypeOK, DraftsSound
<1>9. OfferSound' /\ Apart'
  <2>1. offer # Nil => offer.id \in Ids  BY DEF IInv, TypeOK, Rows
  <2> QED BY <1>1, <1>2, <1>3, <1>4, <2>1 DEF IInv, TypeOK, OfferSound, Apart
<1>10. (waiting # Nil => HasUnsavedChanges)' /\ (\A i \in posted : i <= drawn)'
  BY <1>1, <1>2, <1>4 DEF IInv, TypeOK
<1>11. InputIsSaved'
  BY <1>3 DEF InputIsSaved, HasUnsavedChanges
<1> QED BY <1>5, <1>6, <1>7, <1>8, <1>9, <1>10, <1>11 DEF IInv

LEMMA DisappearInv == ASSUME IInv, Disappear PROVE IInv'
<1>1. /\ leaving # Nil /\ leaving \in Editors /\ Idle /\ leaving' = Nil
      /\ UNCHANGED <<posted, orphaned, drawn, routing, editor>>
      /\ Gone' = Gone
  BY DEF IInv, TypeOK, Disappear, Gone
<1>2. /\ clock' \in Nat
      /\ drafts' \subseteq Rows
      /\ \A r \in drafts' : r.id <= drawn
      /\ \A r \in drafts' : r.id \in Gone => r \in drafts
      /\ \A r \in drafts : r.id # leaving.id => r \in drafts'
  <2>1. CASE sheet = Nil \/ leaving.suppressed
    BY <2>1, WithoutType DEF IInv, TypeOK, DraftsSound, Disappear, DeletesOf
  <2>2. CASE sheet # Nil /\ ~leaving.suppressed
    <3>1. leaving.text \in Texts  BY <1>1 DEF Editors
    <3>2. Snapshot(leaving, leaving.text) \in Rows
          /\ Snapshot(leaving, leaving.text).id = leaving.id
      BY <1>1, <3>1, SnapshotRow DEF IInv
    <3>3. leaving.id <= drawn /\ leaving.id \notin Gone
      BY <1>1, <2>2 DEF IInv, LeavingSound
    <3>4. /\ clock' = clock + 1
          /\ \/ drafts' = Upserted(Snapshot(leaving, leaving.text))
             \/ drafts' = drafts
      BY <2>2 DEF Disappear
    <3> QED BY <3>2, <3>3, <3>4, UpsertedDrafts DEF IInv, TypeOK
  <2> QED BY <2>1, <2>2
<1>3. TypeOK'
  BY <1>1, <1>2 DEF IInv, TypeOK, routing
<1>4. (editor # Nil => EditorSound(editor))' /\ (leaving # Nil => LeavingSound(leaving))'
  BY <1>1 DEF IInv, EditorSound, TimerSound, routing
<1>5. DraftsSound'
  BY <1>1, <1>2 DEF IInv, DraftsSound
<1>6. OfferSound' /\ Apart'
  BY <1>1 DEF IInv, OfferSound, Apart, routing
<1>7. (waiting # Nil => HasUnsavedChanges)' /\ (\A id \in posted : id <= drawn)'
  BY <1>1 DEF IInv, HasUnsavedChanges, routing
<1>8. InputIsSaved'
  BY <1>1, <1>2, InputKept DEF IInv, Apart
<1> QED BY <1>3, <1>4, <1>5, <1>6, <1>7, <1>8 DEF IInv

-----------------------------------------------------------------------------
(* Posting: the voucher, then the draft *)

LEMMA SubmitInv == ASSUME IInv, Submit PROVE IInv'
<1>1. /\ editor # Nil /\ editor \in Editors /\ ~editor.committed
      /\ leaving = Nil /\ leaving' = Nil /\ waiting = Nil /\ isOpen
      /\ posted' = posted \cup {editor.id}
      /\ UNCHANGED <<drafts, orphaned, counters, routing>>
  BY DEF IInv, TypeOK, Submit, Free, Idle
<1>2. /\ editor' \in Editors /\ editor' # Nil /\ editor'.committed
      /\ editor'.id = editor.id /\ editor'.type = editor.type
      /\ editor'.text = editor.text /\ editor'.clean = editor.clean
      /\ editor'.suppressed = editor.suppressed /\ editor'.timer = editor.timer
      /\ editor'.missed = editor.missed
  BY <1>1 DEF Submit, Editors
<1>3. editor.id \in Ids /\ editor.id <= drawn  BY <1>1 DEF IInv, EditorSound, Editors
<1>4. TypeOK'
  BY <1>1, <1>2, <1>3 DEF IInv, TypeOK, counters, routing
<1>5. EditorSound(editor)'
  BY <1>1, <1>2, <1>3 DEF IInv, EditorSound, TimerSound, counters, routing
<1>6. \A id \in Gone' : id \in Gone \/ id = editor.id
  BY <1>1 DEF Gone
<1>7. DraftsSound'
  BY <1>1, <1>2, <1>6 DEF IInv, DraftsSound, counters
<1>8. OfferSound' /\ Apart'
  BY <1>1, <1>2, <1>6 DEF IInv, OfferSound, Apart, counters, routing
<1>9. (waiting # Nil => HasUnsavedChanges)' /\ (\A id \in posted : id <= drawn)'
  BY <1>1, <1>3 DEF IInv, counters, routing
<1>10. InputIsSaved'
  BY <1>1, <1>2 DEF IInv, InputIsSaved, HasUnsavedChanges
<1> QED BY <1>1, <1>4, <1>5, <1>7, <1>8, <1>9, <1>10 DEF IInv

LEMMA CompleteInv == ASSUME IInv, Complete PROVE IInv'
<1>1. /\ editor # Nil /\ editor \in Editors /\ editor.committed /\ isOpen
      /\ UNCHANGED <<posted, counters, isOpen, offer>>
      /\ sheet' = Nil /\ waiting' = Nil
      /\ \/ drafts' = Without(editor.id) /\ orphaned' = orphaned
         \/ drafts' = drafts /\ orphaned' = orphaned \cup {editor.id}
  BY DEF IInv, TypeOK, Complete, Idle
<1>2. /\ Silenced(editor) \in Editors /\ Silenced(editor).id = editor.id
      /\ Silenced(editor).suppressed /\ Silenced(editor).timer = Nil
  BY <1>1, SilencedEditor
<1>3. /\ editor' = Nil /\ leaving' = Silenced(editor) /\ leaving' # Nil
  BY <1>2 DEF Complete, Leaves
<1>4. editor.id \in posted /\ editor.id <= drawn /\ editor.id \in Ids
  BY <1>1 DEF IInv, EditorSound, Editors
<1>5. /\ drafts' \subseteq drafts /\ Gone' \subseteq Gone
      /\ \A r \in drafts' : r.id \in Gone' => r.id # editor.id
  BY <1>1 DEF Gone, Without
<1>6. TypeOK'
  BY <1>1, <1>2, <1>3, <1>4, <1>5 DEF IInv, TypeOK, counters
<1>7. LeavingSound(leaving)'
  BY <1>1, <1>2, <1>3, <1>4 DEF LeavingSound, TimerSound, counters
<1>8. DraftsSound'
  BY <1>1, <1>5 DEF IInv, DraftsSound, counters
<1>9. OfferSound' /\ Apart'
  BY <1>1, <1>2, <1>3, <1>5 DEF IInv, OfferSound, Apart, counters
<1>10. (waiting # Nil => HasUnsavedChanges)' /\ (\A id \in posted : id <= drawn)'
      /\ InputIsSaved'
  BY <1>1, <1>3 DEF IInv, InputIsSaved, HasUnsavedChanges, counters
<1> QED BY <1>3, <1>6, <1>7, <1>8, <1>9, <1>10 DEF IInv

-----------------------------------------------------------------------------
(* Recovery *)

LEMMA CrashInv == ASSUME IInv, Crash PROVE IInv'
<1>1. /\ ~isOpen' /\ isOpen' \in BOOLEAN
      /\ offer' = Nil /\ sheet' = Nil /\ waiting' = Nil
      /\ editor' = Nil /\ leaving' = Nil
      /\ UNCHANGED <<drafts, posted, counters>>
  BY DEF Crash
<1>2. /\ orphaned' \subseteq Ids /\ Gone' \subseteq Gone
      /\ \A r \in drafts : r.id \notin Gone'
  <2>1. CASE Idle
    BY <2>1 DEF IInv, TypeOK, DraftsSound, Crash, Gone, Idle
  <2>2. CASE ~Idle
    <3>1. editor # Nil /\ editor.id \in Ids /\ orphaned' = orphaned \cup {editor.id}
      BY <2>2 DEF IInv, TypeOK, Crash, Idle, Editors
    <3>2. posted' = posted  BY DEF Crash
    <3> QED BY <3>1, <3>2 DEF IInv, TypeOK, DraftsSound, Gone
  <2> QED BY <2>1, <2>2
<1> QED BY <1>1, <1>2 DEF IInv, TypeOK, DraftsSound, OfferSound, Apart, InputIsSaved,
          HasUnsavedChanges, counters

\* A step that only offers a draft, and shows no editor.
LEMMA OfferInv ==
  ASSUME IInv, editor = Nil, editor' = Nil, leaving' = leaving, waiting' = waiting,
         clock' = clock, posted' = posted, orphaned' = orphaned, drafts' \subseteq drafts,
         drawn' \in 0..MaxDrafts, drawn <= drawn',
         isOpen', isOpen' \in BOOLEAN, sheet' \in Sheets \cup {Nil},
         offer' \in Rows \cup {Nil},
         offer' # Nil => /\ offer'.id <= drawn' /\ offer'.id \notin Gone
                         /\ leaving # Nil => leaving.id # offer'.id
  PROVE  IInv'
<1>1. Gone' = Gone  BY DEF Gone
<1>2. TypeOK'  BY DEF IInv, TypeOK
<1>3. (leaving # Nil => LeavingSound(leaving))'
  <2>1. leaving # Nil => leaving.id \in Ids  BY DEF IInv, TypeOK, Editors
  <2> QED BY <1>1, <2>1 DEF IInv, TypeOK, LeavingSound, TimerSound
<1>4. DraftsSound'
  <2>1. \A r \in drafts : r.id \in Ids  BY DEF IInv, TypeOK, Rows
  <2> QED BY <1>1, <2>1 DEF IInv, TypeOK, DraftsSound
<1>5. OfferSound' /\ Apart'
  BY <1>1 DEF IInv, OfferSound, Apart
<1>6. (waiting # Nil => HasUnsavedChanges)' /\ (\A id \in posted : id <= drawn)'
      /\ InputIsSaved'
  BY DEF IInv, TypeOK, HasUnsavedChanges, InputIsSaved
<1> QED BY <1>2, <1>3, <1>4, <1>5, <1>6 DEF IInv

LEMMA OpenCompanyInv == ASSUME IInv, OpenCompany PROVE IInv'
<1>1. editor = Nil /\ leaving = Nil  BY DEF IInv, TypeOK, OpenCompany
<1>2. offer' # Nil => offer' \in drafts  BY DEF OpenCompany, MostRecent
<1>3. offer' # Nil => offer' \in Rows /\ offer'.id <= drawn /\ offer'.id \notin Gone
  BY <1>1, <1>2 DEF IInv, TypeOK, DraftsSound
<1> QED BY <1>1, <1>3, OfferInv DEF IInv, TypeOK, OpenCompany, disk, counters

LEMMA ResumeInv == ASSUME IInv, Resume PROVE IInv'
<1>1. offer \in Rows /\ offer.type \in Types /\ editor = Nil
  BY DEF IInv, TypeOK, Resume, Offered, Rows
<1> QED BY <1>1, OfferInv
        DEF IInv, TypeOK, OfferSound, Apart, Resume, Offered, Sheets, disk, counters

LEMMA DiscardOfferInv == ASSUME IInv, DiscardOffer PROVE IInv'
BY OfferInv DEF IInv, TypeOK, DiscardOffer, Offered, counters

LEMMA DuplicateInv ==
  ASSUME IInv, NEW type \in Types, NEW text \in Texts, Duplicate(type, text)
  PROVE  IInv'
<1>1. editor = Nil /\ isOpen
  BY DEF IInv, TypeOK, Duplicate
<1>2. /\ drawn \in 0..MaxDrafts /\ drawn' = drawn + 1 /\ drawn' \in Ids
      /\ drawn' \in 0..MaxDrafts
  BY DEF IInv, TypeOK, Duplicate
<1>3. offer' \in Rows /\ offer'.id = drawn'
  BY <1>2 DEF IInv, TypeOK, Duplicate, Rows
<1>4. drawn' \notin Gone /\ (leaving # Nil => leaving.id # drawn')
  <2>1. leaving # Nil => leaving.id \in Ids /\ leaving.id <= drawn
    BY DEF IInv, TypeOK, LeavingSound, Editors
  <2> QED BY <1>2, <2>1 DEF IInv, TypeOK, Gone
<1> QED BY <1>1, <1>2, <1>3, <1>4, OfferInv
        DEF IInv, TypeOK, Duplicate, Sheets, disk

-----------------------------------------------------------------------------
LEMMA StutterInv == ASSUME IInv, UNCHANGED vars PROVE IInv'
BY DEF IInv, TypeOK, EditorSound, LeavingSound, TimerSound, DraftsSound, OfferSound,
   Apart, HasUnsavedChanges, InputIsSaved, Gone, vars

LEMMA NextInv == IInv /\ [Next]_vars => IInv'
<1> SUFFICES ASSUME IInv, [Next]_vars PROVE IInv'  OBVIOUS
<1>1. ASSUME NEW text \in Texts, Type(text) PROVE IInv'
  BY <1>1, TypeInv
<1>2. ASSUME NEW request \in Requests, Navigate(request) \/ AskFirst(request) PROVE IInv'
  BY <1>2, NavigateInv, QuestionInv
<1>3. CASE KeepEditing
  BY <1>3, QuestionInv
<1>4. CASE Autosave \/ Discard \/ Setup \/ Disappear
  BY <1>4, AutosaveInv, DiscardInv, SetupInv, DisappearInv
<1>5. CASE Submit \/ Complete \/ Crash
  BY <1>5, SubmitInv, CompleteInv, CrashInv
<1>6. CASE OpenCompany \/ Resume \/ DiscardOffer
  BY <1>6, OpenCompanyInv, ResumeInv, DiscardOfferInv
<1>7. ASSUME NEW type \in Types, NEW text \in Texts, Duplicate(type, text) PROVE IInv'
  BY <1>7, DuplicateInv
<1>8. CASE UNCHANGED vars
  BY <1>8, StutterInv
<1> QED BY <1>1, <1>2, <1>3, <1>4, <1>5, <1>6, <1>7, <1>8 DEF Next

-----------------------------------------------------------------------------
\* The strengthened invariant holds in every state VoucherEditor reaches.
THEOREM Invariance == Spec => []IInv
BY InitInv, NextInv, PTL DEF Spec

\* AppRouter and NewVoucherSheet: the state has its shape; no editor is without
\* its sheet, and nothing is shown or offered of a closed company.
THEOREM TypeCorrect == Spec => []TypeOK
<1>1. IInv => TypeOK  BY DEF IInv
<1> QED BY <1>1, Invariance, PTL

\* VoucherEditViewModel.deleteDraft: after its voucher is committed no row,
\* prompt, timer or disappearing sheet brings a draft back, unless the process
\* ended before the row was deleted or the row could not be deleted.
THEOREM PostedOnce == Spec => []PostedDraftIsGone
<1>1. IInv => PostedDraftIsGone
  BY DEF IInv, PostedDraftIsGone, EditorSound, LeavingSound, DraftsSound, OfferSound,
     Gone, Idle
<1> QED BY <1>1, Invariance, PTL

\* VoucherEditViewModel.scheduleAutosave: unsaved input that a crash would find
\* neither on disk nor in the timer follows a failed write or a discard.
THEOREM Saved == Spec => []InputIsSaved
<1>1. IInv => InputIsSaved  BY DEF IInv
<1> QED BY <1>1, Invariance, PTL

\* AppRouter.requestNavigation: a sheet on its way out takes no unsaved input
\* along that the user was not asked about.
THEOREM AskedFirst == Spec => []NothingLeavesUnasked
<1>1. IInv => NothingLeavesUnasked  BY DEF IInv, LeavingSound, NothingLeavesUnasked
<1> QED BY <1>1, Invariance, PTL

-----------------------------------------------------------------------------
(* Drafts go forward: a timer that has yet to run holds a snapshot later   *)
(* than any row of its draft, and no two view models share a draft.        *)

OneRowEach == \A r, s \in drafts : r.id = s.id => r = s

\* No row of the draft id is later than the snapshot at.
NoneLater(id, at) == \A r \in drafts : r.id = id => r.at <= at

TimerLatest(vm) ==
  vm # Nil => (vm.timer # Nil => vm.timer.at <= clock /\ NoneLater(vm.id, vm.timer.at))

Dated ==
  /\ OneRowEach
  /\ \A r \in drafts : r.at <= clock
  /\ TimerLatest(editor) /\ TimerLatest(leaving)

Forward == \A r \in drafts, s \in drafts' : r.id = s.id => r.at <= s.at

\* vm is nobody, or has no timer, or one that was there before the step.
NoNewTimer(vm) ==
  \/ vm = Nil \/ vm.timer = Nil
  \/ \E old \in {editor, leaving} : old # Nil /\ old.id = vm.id /\ old.timer = vm.timer

\* A step that writes no row and takes no snapshot.
LEMMA RowsGo ==
  ASSUME IInv, Dated, drafts' \subseteq drafts, clock' = clock,
         NoNewTimer(editor'), NoNewTimer(leaving')
  PROVE  Dated' /\ Forward
<1>1. \A r \in drafts : r.at \in Nat
  BY DEF IInv, TypeOK, Rows
<1>2. Forward /\ OneRowEach' /\ \A r \in drafts' : r.at <= clock'
  BY <1>1 DEF Forward, Dated, OneRowEach
<1>3. ASSUME NEW vm, NoNewTimer(vm), vm # Nil, vm.timer # Nil
      PROVE  vm.timer.at <= clock' /\ \A r \in drafts' : r.id = vm.id => r.at <= vm.timer.at
  BY <1>3 DEF NoNewTimer, Dated, TimerLatest, NoneLater
<1>4. TimerLatest(editor)' /\ TimerLatest(leaving)'
  BY <1>3 DEF TimerLatest, NoneLater
<1> QED BY <1>2, <1>4 DEF Dated

\* A step that writes the latest snapshot of a draft that no timer holds now.
LEMMA RowWritten ==
  ASSUME IInv, Dated, NEW row \in Rows, drafts' = Upserted(row),
         NoneLater(row.id, row.at), row.at <= clock, clock' \in Nat, clock <= clock',
         NoNewTimer(editor'), NoNewTimer(leaving'),
         editor' # Nil /\ editor'.timer # Nil => editor'.id # row.id,
         leaving' # Nil /\ leaving'.timer # Nil => leaving'.id # row.id
  PROVE  Dated' /\ Forward
<1>1. \A r \in drafts : r.at \in Nat
  BY DEF IInv, TypeOK, Rows
<1>2. row.at \in Nat /\ clock \in Nat
  BY DEF IInv, TypeOK, Rows
<1>3. \A s \in drafts' : s = row \/ (s \in drafts /\ s.id # row.id)
  BY DEF Upserted, Without
<1>4. Forward /\ OneRowEach' /\ \A r \in drafts' : r.at <= clock'
  BY <1>1, <1>2, <1>3 DEF Forward, Dated, OneRowEach, NoneLater
<1>5. ASSUME NEW vm, NoNewTimer(vm), vm # Nil, vm.timer # Nil, vm.id # row.id
      PROVE  vm.timer.at <= clock' /\ \A r \in drafts' : r.id = vm.id => r.at <= vm.timer.at
  <2>1. PICK old \in {editor, leaving} : old # Nil /\ old.id = vm.id /\ old.timer = vm.timer
    BY <1>5 DEF NoNewTimer
  <2>2. vm.timer \in Rows
    BY <1>5, <2>1 DEF IInv, TypeOK, Editors
  <2>3. vm.timer.at <= clock /\ NoneLater(vm.id, vm.timer.at) /\ vm.timer.at \in Nat
    BY <1>5, <2>1, <2>2 DEF Dated, TimerLatest, Rows
  <2> QED BY <1>2, <1>3, <1>5, <2>3 DEF NoneLater
<1>6. TimerLatest(editor)' /\ TimerLatest(leaving)'
  BY <1>5 DEF TimerLatest, NoneLater
<1> QED BY <1>4, <1>6 DEF Dated

LEMMA TypeDated ==
  ASSUME IInv, Dated, NEW text \in Texts, Type(text)
  PROVE  Dated' /\ Forward
<1> DEFINE row == Snapshot(editor, text)
<1>1. editor \in Editors /\ row.id = editor.id /\ row.at = clock
  BY DEF IInv, TypeOK, Type, Snapshot
<1>2. editor'.id = editor.id /\ editor'.timer \in {Nil, row}
  BY <1>1 DEF Type, Edited, Editors
<1>3. drafts' = drafts /\ leaving' = leaving /\ clock' = clock + 1 /\ clock \in Nat
  BY DEF IInv, TypeOK, Type, disk
<1>4. (\A r \in drafts : r.at \in Nat) /\ (leaving # Nil /\ leaving.timer # Nil =>
                                             leaving.timer.at \in Nat)
  BY DEF IInv, TypeOK, Rows, Editors
<1> HIDE DEF row
<1>5. TimerLatest(editor)'
  BY <1>1, <1>2, <1>3, <1>4 DEF Dated, TimerLatest, NoneLater
<1>6. TimerLatest(leaving)' /\ Forward /\ OneRowEach' /\ \A r \in drafts' : r.at <= clock'
  BY <1>3, <1>4 DEF Dated, TimerLatest, NoneLater, Forward, OneRowEach
<1> QED BY <1>5, <1>6 DEF Dated

LEMMA AutosaveDated ==
  ASSUME IInv, Dated, Autosave
  PROVE  Dated' /\ Forward
<1>1. ASSUME NEW vm \in {editor, leaving}, NEW next, vm # Nil, vm.timer # Nil,
             Saves(vm, vm.timer, next),
             \/ vm = editor /\ editor' = next /\ leaving' = leaving
             \/ vm = leaving /\ leaving' = next /\ editor' = editor
      PROVE  Dated' /\ Forward
  <2>1. vm \in Editors /\ vm.timer \in Rows /\ vm.timer.id = vm.id
    BY <1>1 DEF IInv, TypeOK, Editors, EditorSound, LeavingSound, TimerSound
  <2>2. next.timer = Nil /\ (drafts' = Upserted(vm.timer) \/ drafts' = drafts)
    BY <1>1, <2>1, SavesEffect
  <2>3. NoneLater(vm.id, vm.timer.at) /\ vm.timer.at <= clock
    BY <1>1 DEF Dated, TimerLatest
  <2>4. clock' = clock /\ clock \in Nat
    BY DEF IInv, TypeOK, Autosave, counters
  <2>5. NoNewTimer(editor') /\ NoNewTimer(leaving')
    BY <1>1, <2>2 DEF NoNewTimer
  <2>6. /\ editor' # Nil /\ editor'.timer # Nil => editor'.id # vm.id
        /\ leaving' # Nil /\ leaving'.timer # Nil => leaving'.id # vm.id
    BY <1>1, <2>2 DEF IInv, Apart
  <2>7. CASE drafts' = Upserted(vm.timer)
    BY <2>1, <2>3, <2>4, <2>5, <2>6, <2>7, RowWritten
  <2>8. CASE drafts' = drafts
    BY <2>4, <2>5, <2>8, RowsGo
  <2> QED BY <2>2, <2>7, <2>8
<1> QED BY <1>1 DEF Autosave

LEMMA MovedDated ==
  ASSUME IInv, Dated, (\E request \in Requests : Navigate(request)) \/ Discard
  PROVE  Dated' /\ Forward
<1>1. PICK vm \in Editors \cup {Nil}, request \in Requests :
        /\ Perform(request, vm)
        /\ vm = editor \/ (vm # Nil /\ vm.timer = Nil)
  <2>1. CASE \E request \in Requests : Navigate(request)
    BY <2>1 DEF IInv, TypeOK, Navigate
  <2>2. CASE Discard
    <3> DEFINE vm == [Silenced(editor) EXCEPT !.clean = editor.text]
    <3>1. editor \in Editors /\ waiting \in Requests
      BY <2>2 DEF IInv, TypeOK, Discard, HasUnsavedChanges
    <3>2. vm \in Editors /\ vm.timer = Nil
      BY <3>1, SilencedEditor DEF Editors
    <3>3. Perform(waiting, vm)
      BY <2>2 DEF Discard
    <3> HIDE DEF vm
    <3> QED BY <3>1, <3>2, <3>3
  <2> QED BY <2>1, <2>2
<1>2. isOpen
  BY DEF IInv, TypeOK, Navigate, Discard, HasUnsavedChanges
<1>3. \/ editor' = vm /\ leaving' = leaving
      \/ editor' = Nil /\ vm # Nil /\ leaving' = vm
  BY <1>1, <1>2, PerformEffect DEF IInv
<1>4. drafts' \subseteq drafts /\ clock' = clock
  BY DEF Navigate, Discard, DeletesOf, Without, disk, counters
<1>5. NoNewTimer(editor') /\ NoNewTimer(leaving')
  BY <1>1, <1>3 DEF NoNewTimer
<1> QED BY <1>4, <1>5, RowsGo

LEMMA DisappearDated ==
  ASSUME IInv, Dated, Disappear
  PROVE  Dated' /\ Forward
<1> DEFINE row == Snapshot(leaving, leaving.text)
<1>1. /\ leaving \in Editors /\ leaving # Nil /\ leaving' = Nil /\ editor' = editor
      /\ clock \in Nat
  BY DEF IInv, TypeOK, Disappear
<1>2. row \in Rows /\ row.id = leaving.id /\ row.at = clock
  BY <1>1, SnapshotRow DEF IInv, Editors, Snapshot
<1>3. NoNewTimer(editor') /\ NoNewTimer(leaving')
  BY <1>1 DEF NoNewTimer
<1>4. editor' # Nil => editor'.id # row.id
  BY <1>1, <1>2 DEF IInv, Apart
<1>5. NoneLater(row.id, row.at)
  BY <1>2 DEF Dated, NoneLater
<1>6. \/ drafts' \subseteq drafts /\ clock' = clock
      \/ drafts' = Upserted(row) /\ clock' = clock + 1
      \/ drafts' = drafts /\ clock' = clock + 1
  BY DEF Disappear, DeletesOf, Without
<1> HIDE DEF row
<1>7. CASE drafts' \subseteq drafts /\ clock' = clock
  BY <1>3, <1>7, RowsGo
<1>8. CASE drafts' = Upserted(row) /\ clock' = clock + 1
  BY <1>1, <1>2, <1>3, <1>4, <1>5, <1>8, RowWritten
<1>9. CASE drafts' = drafts /\ clock' = clock + 1
  <2>1. (\A r \in drafts : r.at \in Nat)
        /\ (editor # Nil /\ editor.timer # Nil => editor.timer.at \in Nat)
    BY DEF IInv, TypeOK, Rows, Editors
  <2>2. TimerLatest(editor)' /\ TimerLatest(leaving)'
    BY <1>1, <1>9, <2>1 DEF Dated, TimerLatest, NoneLater
  <2>3. Forward /\ OneRowEach' /\ \A r \in drafts' : r.at <= clock'
    BY <1>1, <1>9, <2>1 DEF Dated, Forward, OneRowEach
  <2> QED BY <2>2, <2>3 DEF Dated
<1> QED BY <1>6, <1>7, <1>8, <1>9

\* The other steps take no snapshot and write no row.
LEMMA QuietDated ==
  ASSUME IInv, Dated,
         \/ KeepEditing \/ \E request \in Requests : AskFirst(request)
         \/ Setup \/ Submit \/ Complete \/ Crash \/ OpenCompany \/ Resume \/ DiscardOffer
         \/ \E type \in Types, text \in Texts : Duplicate(type, text)
         \/ UNCHANGED vars
  PROVE  Dated' /\ Forward
<1>1. drafts' \subseteq drafts /\ clock' = clock
  BY DEF KeepEditing, AskFirst, Setup, Submit, Complete, Crash, OpenCompany, Resume,
     DiscardOffer, Duplicate, Without, disk, counters, vars
<1>2. editor \in Editors \cup {Nil}
  BY DEF IInv, TypeOK
<1>3. CASE editor' \in {Nil, editor} /\ leaving' \in {Nil, leaving}
  BY <1>1, <1>3, RowsGo DEF NoNewTimer
<1>4. CASE Setup
  <2>1. editor'.timer = Nil /\ leaving' = leaving
    BY <1>4 DEF Setup, Loaded
  <2> QED BY <1>1, <2>1, RowsGo DEF NoNewTimer
<1>5. CASE Submit
  <2>1. editor \in Editors /\ editor # Nil
    BY <1>2, <1>5 DEF Submit
  <2>2. editor'.timer = editor.timer /\ editor'.id = editor.id /\ leaving' = leaving
    BY <1>5, <2>1 DEF Submit, Editors
  <2> QED BY <1>1, <2>1, <2>2, RowsGo DEF NoNewTimer
<1>6. CASE Complete
  <2>1. editor \in Editors /\ Silenced(editor).timer = Nil
    BY <1>2, <1>6, SilencedEditor DEF Complete, Idle
  <2>2. editor' = Nil /\ leaving' \in {leaving, Silenced(editor)}
    BY <1>6 DEF Complete, Leaves
  <2> QED BY <1>1, <2>1, <2>2, RowsGo DEF NoNewTimer
<1> QED BY <1>3, <1>4, <1>5, <1>6
        DEF KeepEditing, AskFirst, Crash, OpenCompany, Resume, DiscardOffer, Duplicate, vars

LEMMA NextDated == IInv /\ Dated /\ [Next]_vars => Dated' /\ Forward
BY TypeDated, AutosaveDated, MovedDated, DisappearDated, QuietDated DEF Next

\* VoucherDraftRepository.upsert: no timer and no disappearing sheet puts an
\* earlier snapshot of a draft over a later one.
THEOREM GoesForward == Spec => DraftsGoForward
<1>1. Init => Dated
  BY DEF Init, Dated, OneRowEach, TimerLatest
<1>2. IInv /\ Dated /\ [Next]_vars => Dated'
  BY NextDated
<1>3. IInv /\ Dated /\ [Next]_vars => [\A r \in drafts, s \in drafts' :
                                         r.id = s.id => r.at <= s.at]_vars
  BY NextDated DEF Forward
<1> QED BY <1>1, <1>2, <1>3, Invariance, PTL DEF Spec, DraftsGoForward

=============================================================================
