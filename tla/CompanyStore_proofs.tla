------------------------ MODULE CompanyStore_proofs ------------------------
(***************************************************************************)
(* Proofs about CompanyStore, for every set of companies and names, every  *)
(* number of migrations and every bound on revisions.                      *)
(***************************************************************************)
EXTENDS CompanyStore, TLAPS

-----------------------------------------------------------------------------
(* A step of a company's handle keeps the invariant. *)

\* A file g holds at least what f does.
Extends(g, f) ==
  /\ g.schema >= f.schema
  /\ f.books # Nil => /\ g.books # Nil /\ g.books.root = f.books.root
                      /\ g.books.at >= f.books.at
  /\ g.flushed \in {f.flushed, g.books}

Covering(e, books) == books # Nil /\ books.root = e.since.root /\ books.at >= e.since.at

\* Books extended still cover what an export was asked for.
LEMMA ExtendsCovers ==
  ASSUME NEW e \in Exports, NEW f \in Files, NEW g \in Files, Extends(g, f),
         Covering(e, f.books)
  PROVE  /\ Covering(e, g.books)
         /\ Covering(e, f.flushed) => Covering(e, g.flushed)
<1> USE StoreAssumption, MarkerAssumption
<1>1. f.books \in Books /\ g.books \in Books /\ e.since \in Books
  BY DEF Files, Exports, Covering, Extends
<1>2. f.books.at \in Nat /\ g.books.at \in Nat /\ e.since.at \in Nat
  BY <1>1 DEF Books
<1>3. Covering(e, g.books)
  BY <1>2 DEF Covering, Extends
<1>4. QED BY <1>3 DEF Extends

\* What is known of an export survives a step that leaves the export alone, and
\* leaves, extends or removes the file of its company.
LEMMA ExportKept ==
  ASSUME TypeOK, TypeOK', ExportSound, UNCHANGED <<exporting, place>>,
         exporting # Nil =>
           LET d == exporting.company IN
           /\ making'[d] = Nil
           /\ \/ files'[d] \in {Nil, files[d]}
              \/ files[d] # Nil /\ Extends(files'[d], files[d])
  PROVE  ExportSound'
<1> USE StoreAssumption, MarkerAssumption
<1> SUFFICES ASSUME exporting # Nil
             PROVE  ExportSound'
  BY DEF ExportSound
<1> DEFINE d == exporting.company
<1>1. exporting \in Exports /\ d \in Companies
  BY DEF TypeOK, Exports
<1>2. CASE files'[d] \in {Nil, files[d]}
  BY <1>1, <1>2 DEF ExportSound, Covers, CopyCovers
<1>3. CASE files'[d] # Nil /\ files[d] # Nil /\ Extends(files'[d], files[d])
  <2>1. files[d] \in Files /\ files'[d] \in Files
    BY <1>1, <1>3 DEF TypeOK
  <2>2. Covering(exporting, files[d].books)
    BY <1>3 DEF ExportSound, Covers, Covering
  <2>3. /\ Covering(exporting, files'[d].books)
        /\ Covering(exporting, files[d].flushed) => Covering(exporting, files'[d].flushed)
    BY <1>1, <1>3, <2>1, <2>2, ExtendsCovers
  <2>4. files[d].schema = LatestSchema => files'[d].schema = LatestSchema
    BY <1>3, <2>1 DEF Extends, Files
  <2>5. QED BY <1>1, <1>3, <2>3, <2>4 DEF ExportSound, Covers, CopyCovers, Covering
<1>4. QED BY <1>2, <1>3

\* A step that only extends the file of a company, its key included or not.
LEMMA FileStep ==
  ASSUME IInv, NEW c \in Companies, files[c] # Nil, NEW g \in Files, Extends(g, files[c]),
         files' = [files EXCEPT ![c] = g], TypeOK',
         KeyFits(c) => KeyFits(c)',
         \A d \in Companies \ {c} : keys'[d] = keys[d],
         making[c] = Nil,
         UNCHANGED <<registry, making, exporting, place, gone>>
  PROVE  IInv'
<1> USE StoreAssumption, MarkerAssumption
<1>1. TypeOK /\ files[c] \in Files
  BY DEF IInv, TypeOK
<1>2. /\ files'[c] = g /\ Extends(g, files[c])
      /\ \A d \in Companies : d # c => files'[d] = files[d]
      /\ g # Nil
  BY <1>1 DEF TypeOK, Files
<1>3. ASSUME NEW d \in Companies, files[d] # Nil, files[d].books # Nil
      PROVE  files'[d].books # Nil
  BY <1>2, <1>3 DEF Extends
<1>4. ASSUME NEW d \in Companies, KeyFits(d)
      PROVE  KeyFits(d)'
  BY <1>2, <1>4 DEF KeyFits
<1>5. Registered' = Registered /\ Registered \subseteq Companies
  BY DEF Registered
<1>6. RegisteredOpens'
  BY <1>3, <1>4, <1>5 DEF IInv, RegisteredOpens, KeyFits
<1>7. ListedHaveBooks'
  BY <1>2, <1>3, <1>5 DEF IInv, ListedHaveBooks
<1>8. MakingSound'
  <2>1. ASSUME NEW d \in Companies, making[d] # Nil
        PROVE  keys'[d] = keys[d] /\ files'[d] = files[d]
    BY <1>2, <2>1
  <2>2. QED BY <1>3, <1>4, <2>1 DEF IInv, MakingSound, KeyFits
<1>9. ExportSound'
  <2>1. exporting # Nil => exporting.company \in Companies /\ making[exporting.company] = Nil
    BY <1>1 DEF TypeOK, Exports, IInv, ExportSound
  <2>2. QED BY <1>1, <1>2, <2>1, ExportKept DEF IInv
<1>10. QED BY <1>6, <1>7, <1>8, <1>9 DEF IInv

LEMMA PostKeeps ==
  ASSUME NEW c \in Companies, IInv, Post(c)
  PROVE  IInv'
<1> USE StoreAssumption, MarkerAssumption
<1> DEFINE f == files[c]
           g == [f EXCEPT !.books.at = @ + 1]
<1>1. f \in Files /\ f # Nil /\ f.books \in Books
  BY DEF IInv, TypeOK, Post, Opens, KeyFits, Files
<1>2. f.books.at \in 1..MaxRevision /\ f.books.at < MaxRevision
  BY <1>1 DEF Post, Books
<1>3. /\ g \in Files /\ g.key = f.key /\ g.schema = f.schema /\ g.flushed = f.flushed
      /\ g.books = [f.books EXCEPT !.at = @ + 1]
  BY <1>1, <1>2 DEF Files, Books
<1>4. g.books \in Books /\ g.books.root = f.books.root /\ g.books.at = f.books.at + 1
  BY <1>1, <1>2, <1>3 DEF Books
<1>5. Extends(g, f) 
  BY <1>1, <1>2, <1>3, <1>4 DEF Extends, Files, Books
<1>6. files' = [files EXCEPT ![c] = g]
  BY DEF Post, IInv, TypeOK
<1>7. TypeOK' /\ KeyFits(c)' /\ keys' = keys /\ making[c] = Nil
  BY <1>1, <1>3, <1>6 DEF Post, Opens, KeyFits, IInv, TypeOK, MakingSound, Registered
<1>8. UNCHANGED <<registry, making, exporting, place, gone>>
  BY DEF Post
<1> HIDE DEF g
<1>9. QED BY <1>1, <1>3, <1>5, <1>6, <1>7, <1>8, FileStep

LEMMA CheckpointKeeps ==
  ASSUME NEW c \in Companies, IInv, Checkpoint(c)
  PROVE  IInv'
<1> USE StoreAssumption, MarkerAssumption
<1> DEFINE f == files[c]
           g == [f EXCEPT !.flushed = f.books]
<1>1. f \in Files /\ f # Nil
  BY DEF IInv, TypeOK, Checkpoint, Opens, KeyFits
<1>2. /\ g \in Files /\ g.key = f.key /\ g.schema = f.schema /\ g.flushed = g.books
      /\ g.books = f.books
  BY <1>1 DEF Files
<1>3. Extends(g, f)
  BY <1>1, <1>2 DEF Extends, Files, Books
<1>4. files' = [files EXCEPT ![c] = g]
  BY DEF Checkpoint, Flushed, IInv, TypeOK
<1>5. TypeOK' /\ KeyFits(c)' /\ keys' = keys /\ making[c] = Nil
  BY <1>1, <1>2, <1>4 DEF Checkpoint, Opens, KeyFits, IInv, TypeOK, MakingSound, Registered
<1>6. UNCHANGED <<registry, making, exporting, place, gone>>
  BY DEF Checkpoint
<1> HIDE DEF g
<1>7. QED BY <1>1, <1>2, <1>3, <1>4, <1>5, <1>6, FileStep

LEMMA MigrateKeeps ==
  ASSUME NEW c \in Companies, IInv, Migrate(c)
  PROVE  IInv'
<1> USE StoreAssumption, MarkerAssumption
<1> DEFINE f == files[c]
           g == [f EXCEPT !.schema = @ + 1]
<1>1. f \in Files /\ f # Nil /\ f.schema \in 1..LatestSchema /\ f.schema < LatestSchema
  BY DEF IInv, TypeOK, Migrate, Pending, Opens, KeyFits, Files
<1>2. /\ g \in Files /\ g.key = f.key /\ g.schema = f.schema + 1 /\ g.flushed = f.flushed
      /\ g.books = f.books
  BY <1>1 DEF Files
<1>3. Extends(g, f)
  BY <1>1, <1>2 DEF Extends, Files, Books
<1>4. files' = [files EXCEPT ![c] = g]
  BY DEF Migrate, IInv, TypeOK
<1>5. TypeOK' /\ KeyFits(c)' /\ keys' = keys /\ making[c] = Nil
  BY <1>1, <1>2, <1>4 DEF Migrate, Opens, KeyFits, IInv, TypeOK, MakingSound, Registered
<1>6. UNCHANGED <<registry, making, exporting, place, gone>>
  BY DEF Migrate
<1> HIDE DEF g
<1>7. QED BY <1>1, <1>2, <1>3, <1>4, <1>5, <1>6, FileStep

LEMMA RekeyKeeps ==
  ASSUME NEW c \in Companies, IInv, Rekey(c)
  PROVE  IInv'
<1> USE StoreAssumption, MarkerAssumption
<1> DEFINE f == files[c]
           g == Whole(f.books, c, f.schema)
<1>1. f \in Files /\ f # Nil
  BY DEF IInv, TypeOK, Rekey, NeedsKey
<1>2. /\ g \in Files /\ g.key = c /\ g.schema = f.schema /\ g.flushed = g.books
      /\ g.books = f.books
  BY <1>1 DEF Files, Whole
<1>3. Extends(g, f)
  BY <1>1, <1>2 DEF Extends, Files, Books
<1>4. files' = [files EXCEPT ![c] = g] /\ keys' = [keys EXCEPT ![c] = c]
  BY DEF Rekey, Rekeyed, IInv, TypeOK
<1>5. making[c] = Nil
  BY DEF IInv, MakingSound, Rekey, NeedsKey, Registered
<1>6. TypeOK' /\ KeyFits(c)' /\ \A d \in Companies \ {c} : keys'[d] = keys[d]
  BY <1>1, <1>2, <1>4 DEF Rekey, KeyFits, IInv, TypeOK
<1>7. UNCHANGED <<registry, making, exporting, place, gone>>
  BY DEF Rekey
<1> HIDE DEF g
<1>8. QED BY <1>1, <1>2, <1>3, <1>4, <1>5, <1>6, <1>7, FileStep

-----------------------------------------------------------------------------
(* Creates, deletions, restores and lost keys touch one company. *)

\* What the invariant says of one company.
CompanySound(c) ==
  /\ registry[c] # Nil /\ c \notin gone => KeyFits(c) /\ files[c].books # Nil
  /\ registry[c] # Nil /\ files[c] # Nil => files[c].books # Nil
  /\ making[c] # Nil =>
       /\ registry[c] = Nil
       /\ making[c].stage = "filed" => KeyFits(c)
       /\ making[c].stage = "staged" =>
            /\ making[c].staged # Nil /\ making[c].staged.books # Nil
            /\ keys[c] = making[c].staged.key
       /\ making[c].stage \in {"written", "published"} =>
            /\ KeyFits(c) /\ files[c].books # Nil
            /\ files[c].flushed = files[c].books

LEMMA InvByCompany == IInv <=> TypeOK /\ (\A c \in Companies : CompanySound(c)) /\ ExportSound
BY DEF IInv, CompanySound, RegisteredOpens, ListedHaveBooks, MakingSound, Registered

\* A step that changes what is stored of one company only, and leaves that
\* company sound, keeps the invariant.
LEMMA OneCompany ==
  ASSUME IInv, TypeOK', NEW c \in Companies, CompanySound(c)',
         \A d \in Companies \ {c} :
           /\ registry'[d] = registry[d] /\ files'[d] = files[d]
           /\ keys'[d] = keys[d] /\ making'[d] = making[d]
           /\ d \in gone <=> d \in gone',
         UNCHANGED <<exporting, place>>,
         exporting # Nil /\ exporting.company = c =>
           /\ making'[c] = Nil
           /\ \/ files'[c] \in {Nil, files[c]}
              \/ files[c] # Nil /\ Extends(files'[c], files[c])
  PROVE  IInv'
<1>1. \A d \in Companies : CompanySound(d)'
  <2> SUFFICES ASSUME NEW d \in Companies, d # c PROVE CompanySound(d)'
    OBVIOUS
  <2>1. CompanySound(d)
    BY InvByCompany
  <2>2. QED BY <2>1 DEF CompanySound, KeyFits
<1>2. ExportSound'
  <2>1. exporting # Nil => exporting.company \in Companies /\ making[exporting.company] = Nil
    BY DEF TypeOK, Exports, IInv, ExportSound
  <2>2. QED BY <2>1, ExportKept DEF IInv
<1>3. QED BY <1>1, <1>2 DEF CompanySound, IInv, RegisteredOpens, ListedHaveBooks, MakingSound,
      Registered

LEMMA RekeyCutKeeps ==
  ASSUME NEW c \in Companies, IInv, RekeyCut(c)
  PROVE  IInv'
<1> USE StoreAssumption, MarkerAssumption
<1> DEFINE f == files[c]
           g == Whole(f.books, c, f.schema)
<1>1. f \in Files /\ f # Nil /\ TypeOK /\ registry[c] # Nil
  BY DEF IInv, TypeOK, RekeyCut, NeedsKey, Registered
<1>2. g \in Files /\ Extends(g, f) /\ g.books = f.books
  BY <1>1 DEF Files, Whole, Extends, Books
<1>3. files' \in {[files EXCEPT ![c] = g], [files EXCEPT ![c] = Nil]} /\ gone' = gone \cup {c}
  BY DEF RekeyCut, Rekeyed, IInv, TypeOK
<1>4. making[c] = Nil /\ f.books # Nil
  BY <1>1, InvByCompany DEF CompanySound
<1>5. UNCHANGED <<registry, keys, making, exporting, place>>
  BY DEF RekeyCut
<1> HIDE DEF g
<1>6. files'[c] \in {g, Nil} /\ \A d \in Companies \ {c} : files'[d] = files[d]
  BY <1>1, <1>3 DEF TypeOK
<1>7. TypeOK'
  BY <1>1, <1>2, <1>3, <1>5 DEF TypeOK
<1>8. CompanySound(c)'
  BY <1>2, <1>3, <1>4, <1>5, <1>6 DEF CompanySound, KeyFits
<1>9. QED BY <1>1, <1>2, <1>3, <1>4, <1>5, <1>6, <1>7, <1>8, OneCompany

LEMMA CreateFileKeeps ==
  ASSUME NEW c \in Companies, NEW name \in Names, IInv, CreateFile(c, name)
  PROVE  IInv'
<1> USE StoreAssumption, MarkerAssumption
<1>1. TypeOK /\ Fresh(c)
  BY DEF IInv, CreateFile
<1>2. Blank(c) \in Files /\ Blank(c).key = c
  BY DEF Blank, Whole, Files
<1>3. Task("filed", name, Nil) \in Makings /\ Task("filed", name, Nil).stage = "filed"
  BY DEF Task, Makings, CreatingStages
<1>4. TypeOK'
  BY <1>1, <1>2, <1>3 DEF TypeOK, CreateFile
<1>5. /\ files'[c] = Blank(c) /\ keys'[c] = c /\ making'[c] = Task("filed", name, Nil)
      /\ registry'[c] = Nil
  BY <1>1 DEF TypeOK, CreateFile, Fresh
<1>6. CompanySound(c)'
  BY <1>2, <1>3, <1>5 DEF CompanySound, KeyFits
<1>7. QED BY <1>1, <1>4, <1>6, OneCompany DEF CreateFile, Fresh, TypeOK

LEMMA CreateFileCutKeeps ==
  ASSUME NEW c \in Companies, IInv, CreateFileCut(c)
  PROVE  IInv'
<1> USE StoreAssumption, MarkerAssumption
<1>1. TypeOK /\ Fresh(c)
  BY DEF IInv, CreateFileCut
<1>2. Blank(c) \in Files
  BY DEF Blank, Whole, Files
<1>3. TypeOK'
  BY <1>1, <1>2 DEF TypeOK, CreateFileCut
<1>4. CompanySound(c)'
  BY <1>1 DEF CompanySound, CreateFileCut, Fresh
<1>5. QED BY <1>1, <1>3, <1>4, OneCompany DEF CreateFileCut, Fresh, TypeOK

LEMMA WriteBooksKeeps ==
  ASSUME NEW c \in Companies, IInv, WriteBooks(c)
  PROVE  IInv'
<1> USE StoreAssumption, MarkerAssumption
<1> DEFINE g == Whole(First(c), files[c].key, files[c].schema)
           t == [making[c] EXCEPT !.stage = "written"]
<1>1. TypeOK /\ CompanySound(c) /\ making[c] \in Makings /\ making[c].stage = "filed"
  BY InvByCompany DEF TypeOK, WriteBooks
<1>2. First(c) \in Books
  BY DEF First, Books
<1>3. g \in Files /\ g.key = files[c].key /\ g.books = First(c) /\ g.books # Nil /\ g.flushed = g.books
  <2>1. KeyFits(c) /\ files[c] \in Files
    BY <1>1 DEF CompanySound, KeyFits, TypeOK
  <2>2. QED BY <1>2, <2>1 DEF Whole, Files
<1>4. t \in Makings /\ t.stage = "written" /\ t # Nil
  BY <1>1 DEF Makings, CreatingStages
<1>5. files' = [files EXCEPT ![c] = g] /\ making' = [making EXCEPT ![c] = t]
  BY <1>1 DEF WriteBooks, TypeOK
<1>6. UNCHANGED <<registry, keys, exporting, place, gone>>
  BY DEF WriteBooks
<1> HIDE DEF g, t
<1>7. TypeOK' /\ files'[c] = g /\ making'[c] = t
  BY <1>1, <1>3, <1>4, <1>5, <1>6 DEF TypeOK
<1>8. CompanySound(c)'
  BY <1>1, <1>3, <1>4, <1>6, <1>7 DEF CompanySound, KeyFits
<1>9. QED BY <1>1, <1>4, <1>5, <1>6, <1>7, <1>8, OneCompany DEF TypeOK, IInv, ExportSound, Makings

LEMMA RegisterKeeps ==
  ASSUME NEW c \in Companies, IInv, Register(c)
  PROVE  IInv'
<1>1. TypeOK /\ CompanySound(c) /\ making[c] \in Makings
  BY InvByCompany DEF TypeOK, Register
<1>2. making[c].name \in Names
  BY <1>1 DEF Makings
<1>3. TypeOK'
  BY <1>1, <1>2 DEF TypeOK, Register
<1>4. CompanySound(c)'
  BY <1>1 DEF CompanySound, Register, ReadyToRegister, KeyFits, TypeOK
<1>5. QED BY <1>1, <1>3, <1>4, OneCompany DEF Register, TypeOK, IInv, ExportSound

\* What removing a company's traces leaves of them.
LEMMA Removed ==
  ASSUME TypeOK, NEW c \in Companies, NEW steps \in 0..3, Remove(c, steps)
  PROVE  /\ files'[c] \in {Nil, files[c]} /\ (steps # 0 => files'[c] = Nil)
         /\ registry'[c] \in {Nil, registry[c]}
         /\ files' \in [Companies -> Files \cup {Nil}]
         /\ registry' \in [Companies -> Names \cup {Nil}]
         /\ keys' \in [Companies -> Companies \cup {Nil}]
         /\ steps = 0 => UNCHANGED <<files, registry, keys>>
         /\ \A d \in Companies \ {c} :
              files'[d] = files[d] /\ registry'[d] = registry[d] /\ keys'[d] = keys[d]
BY DEF TypeOK, Remove

LEMMA CreateFailsKeeps ==
  ASSUME NEW c \in Companies, IInv, CreateFails(c)
  PROVE  IInv'
<1>1. TypeOK /\ CompanySound(c) /\ registry[c] = Nil
  BY InvByCompany DEF CreateFails, CompanySound
<1>2. PICK steps \in 0..3 : Remove(c, steps)
  BY DEF CreateFails
<1>3. making' = [making EXCEPT ![c] = Nil] /\ UNCHANGED <<exporting, place, gone>>
  BY DEF CreateFails
<1>4. TypeOK'
  BY <1>1, <1>2, <1>3, Removed DEF TypeOK
<1>5. making'[c] = Nil /\ registry'[c] = Nil
  BY <1>1, <1>2, <1>3, Removed DEF TypeOK
<1>6. CompanySound(c)'
  BY <1>5 DEF CompanySound
<1>7. QED BY <1>1, <1>2, <1>3, <1>4, <1>5, <1>6, Removed, OneCompany DEF TypeOK

LEMMA DeleteKeeps ==
  ASSUME NEW c \in Companies, NEW steps \in 0..3, IInv, Delete(c, steps)
  PROVE  IInv'
<1>1. TypeOK /\ CompanySound(c) /\ registry[c] # Nil /\ making[c] = Nil
  BY InvByCompany DEF Delete, Registered, CompanySound
<1>2. Remove(c, steps) /\ UNCHANGED <<making, exporting, place>>
  BY DEF Delete
<1>3. gone' = IF steps = 0 THEN gone ELSE gone \cup {c}
  BY DEF Delete
<1>4. TypeOK'
  BY <1>1, <1>2, <1>3, Removed DEF TypeOK
<1>5. CompanySound(c)'
  BY <1>1, <1>2, <1>3, Removed DEF CompanySound, KeyFits
<1>6. QED BY <1>1, <1>2, <1>3, <1>4, <1>5, Removed, OneCompany

LEMMA RestoreChecksKeeps ==
  ASSUME NEW c \in Companies, NEW name \in Names, IInv, RestoreChecks(c, name)
  PROVE  IInv'
<1>1. TypeOK /\ Fresh(c)
  BY DEF IInv, RestoreChecks
<1>2. Task("checked", name, Nil) \in Makings /\ Task("checked", name, Nil).stage = "checked"
  BY DEF Task, Makings, RestoringStages
<1>3. TypeOK'
  BY <1>1, <1>2 DEF TypeOK, RestoreChecks
<1>4. CompanySound(c)'
  BY <1>1, <1>2 DEF CompanySound, RestoreChecks, Fresh, TypeOK
<1>5. QED BY <1>1, <1>3, <1>4, OneCompany DEF RestoreChecks, Fresh, TypeOK

LEMMA RestoreStagesKeeps ==
  ASSUME NEW c \in Companies, IInv, RestoreStages(c)
  PROVE  IInv'
<1> USE StoreAssumption, MarkerAssumption
<1> DEFINE key == IF place.copy.key = Nil THEN c ELSE place.copy.key
           staged == [books |-> place.copy.books, key |-> key, schema |-> LatestSchema]
           t == Task("staged", making[c].name, staged)
<1>1. /\ TypeOK /\ CompanySound(c) /\ making[c] \in Makings
      /\ place.copy \in Databases /\ place.copy.books # Nil
  BY InvByCompany DEF TypeOK, RestoreStages
<1>2. staged \in Databases /\ staged.books # Nil /\ staged.key = key /\ key \in Companies
  BY <1>1 DEF Databases
<1>3. t \in Makings /\ t.stage = "staged" /\ t.staged = staged
  BY <1>1, <1>2 DEF Task, Makings, RestoringStages
<1>4. keys' = [keys EXCEPT ![c] = key] /\ making' = [making EXCEPT ![c] = t]
  BY <1>1 DEF RestoreStages, TypeOK
<1>5. UNCHANGED <<registry, files, exporting, place, gone>> /\ making[c] # Nil
  BY DEF RestoreStages
<1> HIDE DEF t, key, staged
<1>6. TypeOK' /\ keys'[c] = key /\ making'[c] = t
  BY <1>1, <1>2, <1>3, <1>4, <1>5 DEF TypeOK
<1>7. CompanySound(c)'
  BY <1>1, <1>2, <1>3, <1>5, <1>6 DEF CompanySound
<1>8. QED BY <1>1, <1>4, <1>5, <1>6, <1>7, OneCompany DEF TypeOK, IInv, ExportSound

LEMMA RestorePublishesKeeps ==
  ASSUME NEW c \in Companies, IInv, RestorePublishes(c)
  PROVE  IInv'
<1> USE StoreAssumption, MarkerAssumption
<1> DEFINE s == making[c].staged
           g == Whole(s.books, s.key, s.schema)
           t == Task("published", making[c].name, Nil)
<1>1. /\ TypeOK /\ CompanySound(c) /\ making[c] \in Makings /\ making[c].stage = "staged"
      /\ making[c] # Nil
  BY InvByCompany DEF TypeOK, RestorePublishes
<1>2. s \in Databases /\ s.books # Nil /\ keys[c] = s.key
  BY <1>1 DEF CompanySound, Makings
<1>3. g \in Files /\ g.books = s.books /\ g.key = s.key /\ g.flushed = g.books
  BY <1>2 DEF Databases, Files, Whole
<1>4. t \in Makings /\ t.stage = "published"
  BY <1>1 DEF Task, Makings, RestoringStages
<1>5. files' = [files EXCEPT ![c] = g] /\ making' = [making EXCEPT ![c] = t]
  BY <1>1 DEF RestorePublishes, TypeOK
<1>6. UNCHANGED <<registry, keys, exporting, place, gone>>
  BY DEF RestorePublishes
<1> HIDE DEF g, t, s
<1>7. TypeOK' /\ files'[c] = g /\ making'[c] = t
  BY <1>1, <1>3, <1>4, <1>5, <1>6 DEF TypeOK
<1>8. CompanySound(c)'
  BY <1>1, <1>2, <1>3, <1>4, <1>6, <1>7 DEF CompanySound, KeyFits
<1>9. QED BY <1>1, <1>5, <1>6, <1>7, <1>8, OneCompany DEF TypeOK, IInv, ExportSound

LEMMA RestoreFailsKeeps ==
  ASSUME NEW c \in Companies, IInv, RestoreFails(c)
  PROVE  IInv'
<1>1. TypeOK /\ CompanySound(c) /\ registry[c] = Nil /\ making[c] # Nil
  BY InvByCompany DEF RestoreFails, CompanySound
<1>2. TypeOK'
  BY <1>1 DEF TypeOK, RestoreFails
<1>3. CompanySound(c)'
  BY <1>1 DEF CompanySound, RestoreFails, TypeOK
<1>4. QED BY <1>1, <1>2, <1>3, OneCompany DEF RestoreFails, TypeOK, IInv, ExportSound

LEMMA CrashKeeps ==
  ASSUME IInv, Crash
  PROVE  IInv'
<1>1. TypeOK /\ \A c \in Companies : CompanySound(c)
  BY InvByCompany
<1>2. TypeOK' /\ ExportSound'
  BY <1>1 DEF TypeOK, Crash, ExportSound
<1>3. \A c \in Companies : CompanySound(c)'
  BY <1>1 DEF CompanySound, Crash, KeyFits
<1>4. QED BY <1>2, <1>3 DEF CompanySound, IInv, RegisteredOpens, ListedHaveBooks, MakingSound,
      Registered

-----------------------------------------------------------------------------
(* The steps of an export. *)

\* A step of an export that changes no company keeps the invariant if it keeps
\* what is known of the export.
LEMMA ExportOnly ==
  ASSUME IInv, UNCHANGED <<registry, files, keys, making, gone>>,
         exporting' \in Exports \cup {Nil},
         place' \in [copy : Copies \cup {Nil}, manifest : Manifests \cup {Nil}],
         ExportSound'
  PROVE  IInv'
<1>1. TypeOK'
  BY DEF IInv, TypeOK
<1>2. QED BY <1>1 DEF IInv, RegisteredOpens, ListedHaveBooks, MakingSound, Registered, KeyFits

LEMMA ExportEndsKeeps ==
  ASSUME IInv, ExportReturns \/ ExportFails \/ AuditFails
  PROVE  IInv'
<1>1. ExportSound' /\ exporting' = Nil
  BY DEF ExportReturns, ExportFails, AuditFails, ExportSound
<1>2. place' \in [copy : Copies \cup {Nil}, manifest : Manifests \cup {Nil}]
  BY DEF ExportReturns, ExportFails, AuditFails, IInv, TypeOK
<1>3. QED BY <1>1, <1>2, ExportOnly DEF ExportReturns, ExportFails, AuditFails

LEMMA ExportAskedKeeps ==
  ASSUME NEW c \in Companies, IInv, ExportAsked(c)
  PROVE  IInv'
<1> USE StoreAssumption, MarkerAssumption
<1> DEFINE e == [company |-> c, name |-> registry[c], stage |-> "asked",
                 copy |-> Nil, since |-> files[c].books]
<1>1. /\ TypeOK /\ CompanySound(c) /\ registry[c] # Nil /\ files[c] # Nil
      /\ files[c].books # Nil /\ making[c] = Nil
  BY InvByCompany DEF ExportAsked, Opens, Registered, KeyFits, CompanySound
<1>2. registry[c] \in Names /\ files[c] \in Files /\ files[c].books \in Books
  BY <1>1 DEF TypeOK, Files
<1>3. e \in Exports
  BY <1>2 DEF Exports, ExportingStages
<1>4. exporting' = e /\ UNCHANGED <<registry, files, keys, making, place, gone>>
  BY DEF ExportAsked
<1>5. ExportSound'
  <2>1. files[c].books.at \in Nat
    BY <1>2 DEF Books
  <2>2. QED BY <1>1, <1>4, <2>1 DEF ExportSound, Covers
<1> HIDE DEF e
<1>6. QED BY <1>1, <1>3, <1>4, <1>5, ExportOnly DEF TypeOK

\* What the invariant says while an export is under way.
LEMMA Exporting ==
  ASSUME IInv, exporting # Nil
  PROVE  /\ TypeOK /\ exporting \in Exports /\ exporting.company \in Companies
         /\ making[exporting.company] = Nil
         /\ files[exporting.company] # Nil =>
              /\ files[exporting.company] \in Files
              /\ files[exporting.company].books \in Books
              /\ Covers(files[exporting.company].books)
<1>1. TypeOK /\ exporting \in Exports /\ exporting.company \in Companies
  BY DEF IInv, TypeOK, Exports
<1>2. QED BY <1>1 DEF IInv, ExportSound, TypeOK, Covers, Files

LEMMA ExportFlushesKeeps ==
  ASSUME IInv, ExportFlushes
  PROVE  IInv'
<1> USE StoreAssumption, MarkerAssumption
<1> DEFINE c == exporting.company
           f == files[c]
           g == [f EXCEPT !.flushed = f.books]
           e == [exporting EXCEPT !.stage = "flushed"]
<1>1. /\ exporting # Nil /\ c \in Registered /\ f # Nil
      /\ f.schema = LatestSchema /\ exporting.stage = "asked"
  BY DEF ExportFlushes, ExportAt, Opens, KeyFits
<1>2. /\ TypeOK /\ exporting \in Exports /\ c \in Companies /\ making[c] = Nil
      /\ f \in Files /\ Covers(f.books)
  BY <1>1, Exporting
<1>3. /\ g \in Files /\ g.key = f.key /\ g.schema = f.schema /\ g.flushed = f.books
      /\ g.books = f.books
  BY <1>2 DEF Files
<1>4. /\ e \in Exports /\ e.company = c /\ e.stage = "flushed" /\ e.since = exporting.since
      /\ e.copy = exporting.copy
  BY <1>2 DEF Exports, ExportingStages
<1>5. files' = [files EXCEPT ![c] = g] /\ exporting' = e
  BY <1>2 DEF ExportFlushes, Flushed, TypeOK
<1>6. UNCHANGED <<registry, keys, making, place, gone>>
  BY DEF ExportFlushes
<1> HIDE DEF g, e
<1>7. TypeOK' /\ files'[c] = g /\ \A d \in Companies \ {c} : files'[d] = files[d]
  BY <1>2, <1>3, <1>4, <1>5, <1>6 DEF TypeOK
<1>8. ASSUME NEW d \in Companies PROVE CompanySound(d)'
  <2>1. CompanySound(d)
    BY InvByCompany
  <2>2. QED BY <1>1, <1>3, <1>6, <1>7, <2>1 DEF CompanySound, KeyFits
<1>9. ExportSound'
  BY <1>1, <1>2, <1>3, <1>4, <1>5, <1>6, <1>7 DEF ExportSound, Covers
<1>10. QED BY <1>7, <1>8, <1>9 DEF CompanySound, IInv, RegisteredOpens, ListedHaveBooks,
       MakingSound, Registered

LEMMA CopyBeginsKeeps ==
  ASSUME IInv, CopyBegins
  PROVE  IInv'
<1> USE StoreAssumption, MarkerAssumption
<1> DEFINE c == exporting.company
           m == MainFile(c)
           e == [exporting EXCEPT !.stage = "copying", !.copy = m]
<1>1. /\ exporting # Nil /\ files[c] # Nil /\ exporting.stage = "flushed"
  BY DEF CopyBegins, ExportAt
<1>2. /\ TypeOK /\ exporting \in Exports /\ c \in Companies /\ files[c] \in Files
  BY <1>1, Exporting
<1>3. m \in Databases /\ m.books = files[c].flushed /\ m.schema = files[c].schema /\ m # Nil
  BY <1>2 DEF MainFile, Files, Databases
<1>4. /\ e \in Exports /\ e.company = c /\ e.stage = "copying" /\ e.since = exporting.since
      /\ e.copy = m
  BY <1>2, <1>3 DEF Exports, ExportingStages, Copies
<1>5. exporting' = e /\ UNCHANGED <<registry, files, keys, making, place, gone>>
  BY DEF CopyBegins
<1> HIDE DEF m, e
<1>6. ExportSound'
  BY <1>1, <1>2, <1>3, <1>4, <1>5 DEF IInv, ExportSound, Covers, CopyCovers
<1>7. QED BY <1>2, <1>4, <1>5, <1>6, ExportOnly DEF TypeOK

LEMMA CopyEndsKeeps ==
  ASSUME IInv, CopyEnds
  PROVE  IInv'
<1> USE StoreAssumption, MarkerAssumption
<1>1. /\ TypeOK /\ exporting \in Exports /\ exporting # Nil /\ exporting.stage = "copying"
  BY Exporting DEF CopyEnds, ExportAt
<1>2. PICK copy \in {exporting.copy, Torn} :
        exporting' = [exporting EXCEPT !.stage = "copied", !.copy = copy]
  <2>1. [exporting EXCEPT !.stage = "copied"]
           = [exporting EXCEPT !.stage = "copied", !.copy = exporting.copy]
    BY <1>1 DEF Exports
  <2>2. QED BY <2>1 DEF CopyEnds
<1>3. /\ exporting' \in Exports /\ exporting'.company = exporting.company
      /\ exporting'.stage = "copied" /\ exporting'.since = exporting.since
      /\ exporting'.copy = copy
  BY <1>1, <1>2 DEF Exports, ExportingStages, Copies
<1>4. UNCHANGED <<registry, files, keys, making, place, gone>>
  BY DEF CopyEnds
<1>5. ExportSound'
  BY <1>1, <1>2, <1>3, <1>4 DEF IInv, ExportSound, Covers, CopyCovers
<1>6. QED BY <1>1, <1>3, <1>4, <1>5, ExportOnly DEF TypeOK

LEMMA ExportReplacesKeeps ==
  ASSUME IInv, ExportReplaces
  PROVE  IInv'
<1> USE StoreAssumption, MarkerAssumption
<1>1. /\ TypeOK /\ exporting \in Exports /\ exporting # Nil /\ exporting.stage = "copied"
  BY Exporting DEF ExportReplaces, ExportAt
<1>2. /\ exporting' \in Exports /\ exporting'.company = exporting.company
      /\ exporting'.stage = "replaced" /\ exporting'.since = exporting.since
      /\ exporting'.copy = exporting.copy
  BY <1>1 DEF ExportReplaces, Exports, ExportingStages
<1>3. /\ place' \in [copy : Copies \cup {Nil}, manifest : Manifests \cup {Nil}]
      /\ place'.copy = exporting.copy
  BY <1>1 DEF ExportReplaces, TypeOK, Exports
<1>4. UNCHANGED <<registry, files, keys, making, gone>>
  BY DEF ExportReplaces
<1>5. ExportSound'
  BY <1>1, <1>2, <1>3, <1>4 DEF IInv, ExportSound, Covers, CopyCovers
<1>6. QED BY <1>2, <1>3, <1>4, <1>5, ExportOnly

LEMMA ExportDescribesKeeps ==
  ASSUME IInv, ExportDescribes
  PROVE  IInv'
<1> USE StoreAssumption, MarkerAssumption
<1>1. /\ TypeOK /\ exporting \in Exports /\ exporting # Nil /\ exporting.stage = "replaced"
  BY Exporting DEF ExportDescribes, ExportAt
<1>2. /\ exporting' \in Exports /\ exporting'.company = exporting.company
      /\ exporting'.stage = "described" /\ exporting'.since = exporting.since
      /\ exporting'.copy = exporting.copy
  BY <1>1 DEF ExportDescribes, Exports, ExportingStages
<1>3. exporting.copy \in Copies /\ exporting.name \in Names
  BY <1>1 DEF IInv, ExportSound, CopyCovers, Exports, Copies
<1>4. /\ place' \in [copy : Copies \cup {Nil}, manifest : Manifests \cup {Nil}]
      /\ place'.copy = place.copy
  BY <1>1, <1>3 DEF ExportDescribes, TypeOK, Manifests
<1>5. UNCHANGED <<registry, files, keys, making, gone>>
  BY DEF ExportDescribes
<1>6. ExportSound'
  BY <1>1, <1>2, <1>4, <1>5 DEF IInv, ExportSound, Covers, CopyCovers
<1>7. QED BY <1>2, <1>4, <1>5, <1>6, ExportOnly

-----------------------------------------------------------------------------
(* The theorems. *)

LEMMA InitInv == Init => IInv
<1> SUFFICES ASSUME Init PROVE IInv
  OBVIOUS
<1> USE StoreAssumption, MarkerAssumption
<1>1. PICK present \in SUBSET Companies :
        \E legacy \in SUBSET present :
        \E name \in [Companies -> Names], schema \in [Companies -> 1..LatestSchema] :
          /\ \A c, d \in present : name[c] = name[d] => c = d
          /\ \A c \in legacy : schema[c] < LatestSchema
          /\ registry = [c \in Companies |-> IF c \in present THEN name[c] ELSE Nil]
          /\ keys = [c \in Companies |-> IF c \in present \ legacy THEN c ELSE Nil]
          /\ files = [c \in Companies |->
                        IF c \in present THEN Whole(First(c), keys[c], schema[c]) ELSE Nil]
          /\ place \in {[copy |-> Nil, manifest |-> Nil]}
                       \cup {[copy |-> OldCopy(c), manifest |-> Nil] : c \in present}
  BY Zenon DEF Init
<1>a. PICK legacy \in SUBSET present, name \in [Companies -> Names],
           schema \in [Companies -> 1..LatestSchema] :
        /\ \A c, d \in present : name[c] = name[d] => c = d
        /\ \A c \in legacy : schema[c] < LatestSchema
        /\ registry = [c \in Companies |-> IF c \in present THEN name[c] ELSE Nil]
        /\ keys = [c \in Companies |-> IF c \in present \ legacy THEN c ELSE Nil]
        /\ files = [c \in Companies |->
                      IF c \in present THEN Whole(First(c), keys[c], schema[c]) ELSE Nil]
        /\ place \in {[copy |-> Nil, manifest |-> Nil]}
                     \cup {[copy |-> OldCopy(c), manifest |-> Nil] : c \in present}
  BY <1>1, Zenon
<1>2. making = [c \in Companies |-> Nil] /\ exporting = Nil /\ gone = {}
  BY DEF Init
<1>3. \A c \in Companies : First(c) \in Books /\ OldCopy(c) \in Databases
  BY DEF First, OldCopy, Books, Databases
<1>4. keys \in [Companies -> Companies \cup {Nil}]
  BY <1>a
<1>5. \A c \in Companies : Whole(First(c), keys[c], schema[c]) \in Files
  BY <1>3, <1>4 DEF Whole, Files
<1>6. /\ registry \in [Companies -> Names \cup {Nil}]
      /\ files \in [Companies -> Files \cup {Nil}]
  BY <1>a, <1>5
<1>7. place \in [copy : Copies \cup {Nil}, manifest : Manifests \cup {Nil}]
  BY <1>a, <1>3 DEF Copies
<1>8. TypeOK
  BY <1>2, <1>4, <1>6, <1>7 DEF TypeOK
<1>9. ASSUME NEW c \in Companies, registry[c] # Nil
      PROVE  KeyFits(c) /\ files[c].books # Nil
  BY <1>a, <1>3, <1>5, <1>9 DEF KeyFits, Whole
<1>10. QED BY <1>2, <1>8, <1>9 DEF IInv, RegisteredOpens, ListedHaveBooks, MakingSound,
       ExportSound, Registered

LEMMA NextKeeps == IInv /\ [Next]_vars => IInv'
<1> SUFFICES ASSUME IInv, [Next]_vars PROVE IInv'
  OBVIOUS
<1>1. ASSUME NEW c \in Companies, HandleStep(c) PROVE IInv'
  BY <1>1, PostKeeps, CheckpointKeeps, MigrateKeeps, RekeyKeeps, RekeyCutKeeps DEF HandleStep
<1>2. ASSUME NEW c \in Companies, CreateStep(c) PROVE IInv'
  BY <1>2, CreateFileKeeps, CreateFileCutKeeps, WriteBooksKeeps, RegisterKeeps,
     CreateFailsKeeps DEF CreateStep
<1>3. ASSUME NEW c \in Companies, RestoreStep(c) PROVE IInv'
  BY <1>3, RestoreChecksKeeps, RestoreStagesKeeps, RestorePublishesKeeps, RestoreFailsKeeps
     DEF RestoreStep
<1>4. CASE \E c \in Companies, steps \in 0..3 : Delete(c, steps)
  BY <1>4, DeleteKeeps
<1>5. CASE ExportStep
  BY <1>5, ExportAskedKeeps, ExportFlushesKeeps, CopyBeginsKeeps, CopyEndsKeeps,
     ExportReplacesKeeps, ExportDescribesKeeps, ExportEndsKeeps DEF ExportStep
<1>6. CASE Crash
  BY <1>6, CrashKeeps
<1>7. CASE UNCHANGED vars
  BY <1>7 DEF vars, IInv, TypeOK, RegisteredOpens, ListedHaveBooks, MakingSound, ExportSound,
     Registered, KeyFits, Covers, CopyCovers
<1>8. QED BY <1>1, <1>2, <1>3, <1>4, <1>5, <1>6, <1>7 DEF Next

\* The inductive invariant holds in every reachable state.
THEOREM Invariance == Spec => []IInv
BY InitInv, NextKeeps, PTL DEF Spec

\* Every reachable state of the store is well typed.
THEOREM TypeCorrect == Spec => []TypeOK
<1>1. IInv => TypeOK
  BY DEF IInv
<1>2. QED BY <1>1, Invariance, PTL

\* Every company of the list opens, unless its deletion or a rekey was cut off.
THEOREM Opening == Spec => []RegisteredOpens
<1>1. IInv => RegisteredOpens
  BY DEF IInv
<1>2. QED BY <1>1, Invariance, PTL

\* A published backup holds every commit made before its export was asked for.
THEOREM BackupFresh == Spec => []BackupHoldsWhatWasAsked
<1>1. IInv => BackupHoldsWhatWasAsked
  BY DEF IInv, ExportSound, BackupHoldsWhatWasAsked, CopyCovers, Covers
<1>2. QED BY <1>1, Invariance, PTL

-----------------------------------------------------------------------------
(***************************************************************************)
(* The company store implements the shelf of books: under the mapping of   *)
(* CompanyStore, every step is a step of CompanyShelf or a stutter.        *)
(***************************************************************************)

\* The books a copy may hold after a step.
Sources == Copied \cup ({Shelved[c] : c \in Companies} \ {Nil}) \cup {First(c) : c \in Companies}

LEMMA ShelvedType ==
  ASSUME TypeOK
  PROVE  Shelved \in [Companies -> Books \cup {Nil}]
BY DEF Shelved, TypeOK, Files, Registered, KeyFits

\* What is in a main file is a copy.
LEMMA FlushedIsCopied ==
  ASSUME TypeOK, NEW c \in Companies, files[c] # Nil, files[c].flushed # Nil
  PROVE  files[c].flushed \in Copied
BY DEF TypeOK, Files, Copied

\* What a company that opens holds is on the shelf.
LEMMA OpenIsShelved ==
  ASSUME NEW c \in Companies, c \in Registered, KeyFits(c)
  PROVE  Shelved[c] = files[c].books /\ (files[c].books # Nil => files[c].books \in Sources)
BY DEF Shelved, Sources

\* A step that leaves the export and the place alone takes only the copies it may,
\* if the company it touches does.
LEMMA CompanyCopies ==
  ASSUME TypeOK, TypeOK', NEW c \in Companies, UNCHANGED <<exporting, place>>,
         \A d \in Companies \ {c} : files'[d] = files[d] /\ making'[d] = making[d],
         files'[c] # Nil /\ files'[c].flushed # Nil => files'[c].flushed \in Sources,
         making'[c] # Nil /\ making'[c].staged # Nil /\ making'[c].staged.books # Nil =>
           making'[c].staged.books \in Sources
  PROVE  Shelf!Copying
<1> USE MarkerAssumption
<1>1. ASSUME NEW b \in Copied' PROVE b \in Sources
  <2>1. b \in Books /\ b # Nil
    BY DEF Copied
  <2>2. CASE \E d \in Companies : files'[d] # Nil /\ files'[d].flushed = b
    BY <2>1, <2>2 DEF Sources, Copied
  <2>3. CASE \E d \in Companies : /\ making'[d] # Nil /\ making'[d].staged # Nil
                                  /\ making'[d].staged.books = b
    BY <2>1, <2>3 DEF Sources, Copied
  <2>4. CASE place'.copy \in Databases /\ place'.copy.books = b
    BY <2>1, <2>4 DEF Sources, Copied
  <2>5. CASE exporting' # Nil /\ exporting'.copy \in Databases /\ exporting'.copy.books = b
    BY <2>1, <2>5 DEF Sources, Copied
  <2>6. QED BY <2>2, <2>3, <2>4, <2>5 DEF Copied
<1>2. QED BY <1>1 DEF Sources, Shelf!Copying, Shelf!First, First

\* A step of the shelf, from what it does to one company.
LEMMA ShelfStep ==
  ASSUME TypeOK, TypeOK', Shelf!Copying, NEW c \in Companies,
         \A d \in Companies \ {c} : Shelved'[d] = Shelved[d],
         \/ Shelved'[c] \in {Shelved[c], Nil}
         \/ Shelved[c] = Nil /\ Shelved'[c] \in Copied
         \/ Shelved[c] # Nil /\ Shelved'[c] = [Shelved[c] EXCEPT !.at = @ + 1]
  PROVE  Shelf!Next
<1>1. Shelved \in [Companies -> Books \cup {Nil}] /\ Shelved' \in [Companies -> Books \cup {Nil}]
  BY ShelvedType DEF Shelved, TypeOK, Files, Registered, KeyFits
<1>2. Shelved' = [Shelved EXCEPT ![c] = Shelved'[c]]
  BY <1>1
<1>3. CASE Shelved'[c] = Shelved[c]
  BY <1>1, <1>2, <1>3 DEF Shelf!Next
<1>4. CASE Shelved'[c] = Nil
  BY <1>2, <1>4 DEF Shelf!Next, Shelf!Drop
<1>5. CASE Shelved[c] = Nil /\ Shelved'[c] \in Copied
  BY <1>2, <1>5 DEF Shelf!Next, Shelf!Place
<1>6. CASE Shelved[c] # Nil /\ Shelved'[c] = [Shelved[c] EXCEPT !.at = @ + 1]
  BY <1>1, <1>2, <1>6 DEF Shelf!Next, Shelf!Write
<1>7. QED BY <1>3, <1>4, <1>5, <1>6

\* What is shelved for a company depends on that company only.
LEMMA ShelvedLocal ==
  ASSUME NEW d \in Companies, registry'[d] = registry[d], files'[d] = files[d],
         keys'[d] = keys[d]
  PROVE  Shelved'[d] = Shelved[d]
BY DEF Shelved, Registered, KeyFits

-----------------------------------------------------------------------------
(* The steps of handles, creates, restores and deletions. *)

LEMMA PostShelved ==
  ASSUME NEW c \in Companies, IInv, IInv', Post(c)
  PROVE  Shelf!Next
<1> USE StoreAssumption, MarkerAssumption
<1>1. /\ TypeOK /\ TypeOK' /\ files[c] \in Files /\ files[c].books \in Books
      /\ c \in Registered /\ KeyFits(c)
  BY DEF IInv, Post, Opens, KeyFits, TypeOK, Files
<1>2. /\ files'[c] = [files[c] EXCEPT !.books.at = @ + 1]
      /\ \A d \in Companies \ {c} : files'[d] = files[d]
      /\ UNCHANGED <<registry, keys, making, exporting, place>>
  BY <1>1 DEF Post, TypeOK
<1>3. /\ files'[c].books = [files[c].books EXCEPT !.at = @ + 1]
      /\ files'[c].flushed = files[c].flushed /\ files'[c].key = files[c].key
      /\ files'[c] # Nil
  <2>1. files[c].books.at < MaxRevision /\ files[c].books.at \in 1..MaxRevision
    BY <1>1 DEF Post, Books
  <2>2. [files[c].books EXCEPT !.at = @ + 1] \in Books
    BY <1>1, <2>1 DEF Books
  <2>3. files'[c] = [files[c] EXCEPT !.books = [files[c].books EXCEPT !.at = @ + 1]]
    BY <1>2
  <2>4. files'[c] \in Files
    BY <1>1, <2>2, <2>3 DEF Files
  <2>5. QED BY <1>1, <2>3, <2>4 DEF Files
<1>4. Shelf!Copying
  <2>1. files'[c].flushed # Nil => files'[c].flushed \in Sources
    BY <1>1, <1>3, FlushedIsCopied DEF Sources
  <2>2. making[c] = Nil
    BY <1>1 DEF IInv, MakingSound, Registered
  <2>3. QED BY <1>1, <1>2, <2>1, <2>2, CompanyCopies
<1>5. Shelved[c] = files[c].books /\ Shelved'[c] = files'[c].books
  BY <1>1, <1>2, <1>3 DEF Shelved, Registered, KeyFits
<1>6. QED BY <1>1, <1>2, <1>3, <1>4, <1>5, ShelfStep, ShelvedLocal

LEMMA CheckpointShelved ==
  ASSUME NEW c \in Companies, IInv, IInv', Checkpoint(c)
  PROVE  Shelf!Next
<1> USE StoreAssumption, MarkerAssumption
<1>1. /\ TypeOK /\ TypeOK' /\ files[c] \in Files /\ c \in Registered /\ KeyFits(c)
  BY DEF IInv, Checkpoint, Opens, KeyFits, TypeOK
<1>2. /\ files'[c] = [files[c] EXCEPT !.flushed = files[c].books]
      /\ \A d \in Companies \ {c} : files'[d] = files[d]
      /\ UNCHANGED <<registry, keys, making, exporting, place>>
  BY <1>1 DEF Checkpoint, Flushed, TypeOK
<1>3. /\ files'[c].books = files[c].books /\ files'[c].flushed = files[c].books
      /\ files'[c].key = files[c].key /\ files'[c] \in Files
  BY <1>1, <1>2 DEF Files, TypeOK
<1>4. making[c] = Nil
  BY <1>1 DEF IInv, MakingSound, Registered
<1>5. Shelf!Copying
  BY <1>1, <1>2, <1>3, <1>4, OpenIsShelved, CompanyCopies
<1>6. Shelved'[c] = Shelved[c]
  BY <1>1, <1>2, <1>3 DEF Shelved, Registered, KeyFits
<1>7. QED BY <1>1, <1>2, <1>5, <1>6, ShelfStep, ShelvedLocal

LEMMA MigrateShelved ==
  ASSUME NEW c \in Companies, IInv, IInv', Migrate(c)
  PROVE  Shelf!Next
<1> USE StoreAssumption, MarkerAssumption
<1>1. /\ TypeOK /\ TypeOK' /\ files[c] \in Files /\ c \in Registered /\ KeyFits(c)
  BY DEF IInv, Migrate, Opens, KeyFits, TypeOK
<1>2. /\ files'[c] = [files[c] EXCEPT !.schema = @ + 1]
      /\ \A d \in Companies \ {c} : files'[d] = files[d]
      /\ UNCHANGED <<registry, keys, making, exporting, place>>
  BY <1>1 DEF Migrate, TypeOK
<1>3. /\ files'[c].books = files[c].books /\ files'[c].flushed = files[c].flushed
      /\ files'[c].key = files[c].key /\ files'[c] # Nil
  <2>1. files[c].schema \in 1..LatestSchema /\ files[c].schema < LatestSchema
    BY <1>1 DEF Migrate, Pending, Files
  <2>2. files'[c] \in Files
    BY <1>1, <1>2, <2>1 DEF Files
  <2>3. QED BY <1>1, <1>2, <2>2 DEF Files
<1>4. making[c] = Nil
  BY <1>1 DEF IInv, MakingSound, Registered
<1>5. Shelf!Copying
  BY <1>1, <1>2, <1>3, <1>4, FlushedIsCopied, CompanyCopies DEF Sources
<1>6. Shelved'[c] = Shelved[c]
  BY <1>1, <1>2, <1>3 DEF Shelved, Registered, KeyFits, TypeOK
<1>7. QED BY <1>1, <1>2, <1>5, <1>6, ShelfStep, ShelvedLocal

\* A legacy file is on the shelf before its rekey, and after it unless the key
\* was lost.
LEMMA RekeyShelved ==
  ASSUME NEW c \in Companies, IInv, IInv', Rekey(c) \/ RekeyCut(c)
  PROVE  Shelf!Next
<1> USE StoreAssumption, MarkerAssumption
<1>1. /\ TypeOK /\ TypeOK' /\ files[c] \in Files /\ c \in Registered /\ KeyFits(c)
  BY DEF IInv, Rekey, RekeyCut, NeedsKey, KeyFits, TypeOK
<1>2. /\ files'[c] \in {Nil, Whole(files[c].books, c, files[c].schema)}
      /\ \A d \in Companies \ {c} : files'[d] = files[d] /\ keys'[d] = keys[d]
      /\ UNCHANGED <<registry, making, exporting, place>>
  BY <1>1 DEF Rekey, RekeyCut, Rekeyed, TypeOK
<1>3. files'[c] # Nil => files'[c].flushed = files[c].books /\ files'[c].books = files[c].books
  BY <1>2 DEF Whole
<1>4. making[c] = Nil
  BY <1>1 DEF IInv, MakingSound, Registered
<1>5. Shelf!Copying
  BY <1>1, <1>2, <1>3, <1>4, OpenIsShelved, CompanyCopies
<1>6. Shelved'[c] \in {Shelved[c], Nil}
  BY <1>1, <1>2, <1>3 DEF Shelved, Registered, KeyFits
<1>7. QED BY <1>1, <1>2, <1>5, <1>6, ShelfStep, ShelvedLocal

\* While a company is not in the registry, nothing of it is on the shelf.
LEMMA MakingShelved ==
  ASSUME NEW c \in Companies, IInv, IInv',
         \/ \E name \in Names : CreateFile(c, name) \/ RestoreChecks(c, name)
         \/ CreateFileCut(c) \/ WriteBooks(c) \/ CreateFails(c)
         \/ RestoreStages(c) \/ RestorePublishes(c) \/ RestoreFails(c)
  PROVE  Shelf!Next
<1> USE StoreAssumption, MarkerAssumption
<1>1. /\ TypeOK /\ TypeOK' /\ registry[c] = Nil /\ CompanySound(c)
  <2>1. TypeOK /\ TypeOK' /\ CompanySound(c)
    BY InvByCompany DEF IInv
  <2>2. Fresh(c) \/ making[c] # Nil
    BY DEF CreateFile, RestoreChecks, CreateFileCut, WriteBooks, CreateFails, RestoreStages,
       RestorePublishes, RestoreFails
  <2>3. QED BY <2>1, <2>2 DEF Fresh, CompanySound
<1>2. UNCHANGED <<exporting, place>>
  BY DEF CreateFile, RestoreChecks, CreateFileCut, Fresh, WriteBooks, CreateFails,
     RestoreStages, RestorePublishes, RestoreFails
<1>3. /\ registry'[c] = Nil
      /\ \A d \in Companies \ {c} : /\ registry'[d] = registry[d] /\ files'[d] = files[d]
                                    /\ keys'[d] = keys[d] /\ making'[d] = making[d]
  BY <1>1, Removed DEF CreateFile, RestoreChecks, CreateFileCut, Fresh, WriteBooks, CreateFails,
     RestoreStages, RestorePublishes, RestoreFails, TypeOK
<1>4. files'[c] # Nil /\ files'[c].flushed # Nil => files'[c].flushed \in Sources
  <2>1. ASSUME files'[c] = files[c], files[c] # Nil, files[c].flushed # Nil
        PROVE  files[c].flushed \in Sources
    BY <1>1, <2>1, FlushedIsCopied DEF Sources
  <2>2. CASE CreateFails(c) \/ RestoreStages(c) \/ RestoreFails(c)
             \/ \E name \in Names : RestoreChecks(c, name)
    BY <1>1, <2>1, <2>2, Removed DEF CreateFails, RestoreStages, RestoreFails, RestoreChecks,
       TypeOK
  <2>3. CASE CreateFileCut(c) \/ \E name \in Names : CreateFile(c, name)
    <3>1. files'[c] \in {files[c], Blank(c)} /\ Blank(c).flushed = Nil
      BY <1>1, <2>3 DEF CreateFile, CreateFileCut, Blank, Whole, TypeOK
    <3>2. QED BY <2>1, <3>1
  <2>4. CASE WriteBooks(c)
    BY <1>1, <2>4 DEF WriteBooks, Whole, Sources, TypeOK
  <2>5. CASE RestorePublishes(c)
    <3>1. files'[c].flushed = making[c].staged.books /\ making[c] \in Makings
      BY <1>1, <2>5 DEF RestorePublishes, Whole, TypeOK
    <3>2. making[c].staged # Nil /\ making[c].staged.books \in Books \cup {Nil}
      BY <1>1, <2>5, <3>1 DEF RestorePublishes, CompanySound, Makings, Databases
    <3>3. QED BY <2>5, <3>1, <3>2 DEF Sources, Copied, RestorePublishes
  <2>6. QED BY <2>2, <2>3, <2>4, <2>5
<1>5. making'[c] # Nil /\ making'[c].staged # Nil /\ making'[c].staged.books # Nil =>
        making'[c].staged.books \in Sources
  <2>1. CASE RestoreStages(c)
    BY <1>1, <2>1 DEF RestoreStages, Task, Sources, Copied, TypeOK, Databases
  <2>2. CASE WriteBooks(c)
    <3>1. /\ making[c] \in Makings /\ making[c] # Nil
          /\ making'[c] = [making[c] EXCEPT !.stage = "written"]
      BY <1>1, <2>2 DEF WriteBooks, TypeOK
    <3>2. making'[c].staged = making[c].staged
      BY <3>1 DEF Makings
    <3>3. making[c].staged \in Databases \cup {Nil}
      BY <3>1 DEF Makings
    <3>4. QED BY <3>1, <3>2, <3>3 DEF Sources, Copied, Databases
  <2>3. CASE \/ \E name \in Names : CreateFile(c, name) \/ RestoreChecks(c, name)
             \/ CreateFileCut(c) \/ CreateFails(c) \/ RestorePublishes(c) \/ RestoreFails(c)
    BY <1>1, <2>3 DEF CreateFile, RestoreChecks, CreateFileCut, Fresh, CreateFails,
       RestorePublishes, RestoreFails, Task, TypeOK
  <2>4. QED BY <2>1, <2>2, <2>3
<1>6. Shelf!Copying
  BY <1>1, <1>2, <1>3, <1>4, <1>5, CompanyCopies
<1>7. Shelved'[c] = Shelved[c]
  BY <1>1, <1>3 DEF Shelved, Registered
<1>8. QED BY <1>1, <1>3, <1>6, <1>7, ShelfStep, ShelvedLocal

\* A company appears with the books of its file, which are a copy until then.
LEMMA RegisterShelved ==
  ASSUME NEW c \in Companies, IInv, IInv', Register(c)
  PROVE  Shelf!Next
<1> USE StoreAssumption, MarkerAssumption
<1>1. /\ TypeOK /\ TypeOK' /\ CompanySound(c) /\ registry[c] = Nil
      /\ files[c] # Nil /\ files[c].books # Nil /\ files[c].flushed = files[c].books
  BY InvByCompany DEF Register, ReadyToRegister, CompanySound, IInv, KeyFits
<1>2. /\ \A d \in Companies \ {c} : registry'[d] = registry[d] /\ making'[d] = making[d]
      /\ making'[c] = Nil /\ UNCHANGED <<files, keys, exporting, place>>
  BY <1>1 DEF Register, TypeOK
<1>3. files[c].flushed \in Copied
  BY <1>1, FlushedIsCopied
<1>4. Shelf!Copying
  BY <1>1, <1>2, <1>3, CompanyCopies DEF Sources
<1>5. Shelved[c] = Nil /\ Shelved'[c] \in {Nil, files[c].books}
  BY <1>1, <1>2 DEF Shelved, Registered, KeyFits
<1>6. QED BY <1>1, <1>2, <1>3, <1>4, <1>5, ShelfStep, ShelvedLocal

LEMMA DeleteShelved ==
  ASSUME NEW c \in Companies, NEW steps \in 0..3, IInv, IInv', Delete(c, steps)
  PROVE  Shelf!Next
<1> USE StoreAssumption, MarkerAssumption
<1>1. TypeOK /\ TypeOK' /\ registry[c] # Nil /\ making[c] = Nil
  BY InvByCompany DEF IInv, Delete, Registered, CompanySound
<1>2. Remove(c, steps) /\ UNCHANGED <<making, exporting, place>>
  BY DEF Delete
<1>3. files'[c] # Nil => UNCHANGED <<files, registry, keys>>
  BY <1>1, <1>2, Removed
<1>4. Shelf!Copying
  BY <1>1, <1>2, <1>3, Removed, FlushedIsCopied, CompanyCopies DEF Sources
<1>5. Shelved'[c] \in {Shelved[c], Nil}
  BY <1>3 DEF Shelved, Registered, KeyFits
<1>6. QED BY <1>1, <1>2, <1>4, <1>5, Removed, ShelfStep, ShelvedLocal

-----------------------------------------------------------------------------
(* The steps of an export, and a crash. *)

\* A step that changes no company takes only the copies it may, if the export
\* and the place do.
LEMMA StillShelf ==
  ASSUME IInv, IInv', UNCHANGED <<registry, keys>>,
         \A c \in Companies :
           \/ files'[c] = files[c]
           \/ /\ files[c] # Nil /\ files'[c] # Nil /\ c \in Registered /\ KeyFits(c)
              /\ files'[c].books = files[c].books /\ files'[c].key = files[c].key
              /\ files'[c].flushed = files[c].books,
         \A c \in Companies : making'[c] \in {making[c], Nil},
         exporting' # Nil /\ exporting'.copy \in Databases /\ exporting'.copy.books # Nil =>
           exporting'.copy.books \in Sources,
         place'.copy \in Databases /\ place'.copy.books # Nil => place'.copy.books \in Sources
  PROVE  Shelf!Next
<1> USE MarkerAssumption
<1>1. TypeOK /\ TypeOK'
  BY DEF IInv
<1>2. ASSUME NEW b \in Copied' PROVE b \in Sources
  <2>1. b \in Books /\ b # Nil
    BY DEF Copied
  <2>2. CASE \E d \in Companies : files'[d] # Nil /\ files'[d].flushed = b
    <3>1. PICK d \in Companies : files'[d] # Nil /\ files'[d].flushed = b
      BY <2>2
    <3>2. CASE files'[d] = files[d]
      BY <1>1, <2>1, <3>1, <3>2, FlushedIsCopied DEF Sources
    <3>3. CASE files'[d] # files[d]
      BY <2>1, <3>1, <3>3, OpenIsShelved
    <3>4. QED BY <3>2, <3>3
  <2>3. CASE \E d \in Companies : /\ making'[d] # Nil /\ making'[d].staged # Nil
                                  /\ making'[d].staged.books = b
    BY <2>1, <2>3 DEF Sources, Copied
  <2>4. CASE place'.copy \in Databases /\ place'.copy.books = b
    BY <2>1, <2>4
  <2>5. CASE exporting' # Nil /\ exporting'.copy \in Databases /\ exporting'.copy.books = b
    BY <2>1, <2>5
  <2>6. QED BY <2>2, <2>3, <2>4, <2>5 DEF Copied
<1>3. Shelf!Copying
  BY <1>2 DEF Sources, Shelf!Copying, Shelf!First, First
<1>4. Shelved' = Shelved
  BY DEF Shelved, Registered, KeyFits
<1>5. QED BY <1>3, <1>4 DEF Shelf!Next

LEMMA CrashShelved ==
  ASSUME IInv, IInv', Crash
  PROVE  Shelf!Next
<1>1. \A c \in Companies : making'[c] \in {making[c], Nil}
  BY DEF Crash
<1>2. place.copy \in Databases /\ place.copy.books # Nil => place.copy.books \in Sources
  BY DEF Sources, Copied, Databases
<1>3. QED BY <1>1, <1>2, StillShelf DEF Crash

LEMMA ExportEndsShelved ==
  ASSUME IInv, IInv', ExportReturns \/ ExportFails \/ AuditFails
  PROVE  Shelf!Next
<1> USE MarkerAssumption
<1>1. place.copy \in Databases /\ place.copy.books # Nil => place.copy.books \in Sources
  BY DEF Sources, Copied, Databases
<1>2. /\ exporting' = Nil /\ UNCHANGED <<registry, files, keys, making>>
      /\ place' = place \/ place'.copy = Nil
  BY DEF ExportReturns, ExportFails, AuditFails
<1>3. QED BY <1>1, <1>2, StillShelf

LEMMA ExportAskedShelved ==
  ASSUME NEW c \in Companies, IInv, IInv', ExportAsked(c)
  PROVE  Shelf!Next
<1> USE MarkerAssumption
<1>1. place.copy \in Databases /\ place.copy.books # Nil => place.copy.books \in Sources
  BY DEF Sources, Copied, Databases
<1>2. exporting'.copy = Nil /\ UNCHANGED <<registry, files, keys, making, place>>
  BY DEF ExportAsked
<1>3. QED BY <1>1, <1>2, StillShelf

LEMMA ExportFlushesShelved ==
  ASSUME IInv, IInv', ExportFlushes
  PROVE  Shelf!Next
<1> USE StoreAssumption, MarkerAssumption
<1> DEFINE c == exporting.company
<1>1. exporting # Nil /\ c \in Registered /\ KeyFits(c) /\ files[c] # Nil
  BY DEF ExportFlushes, ExportAt, Opens, KeyFits
<1>2. TypeOK /\ exporting \in Exports /\ c \in Companies /\ files[c] \in Files
  BY <1>1, Exporting
<1>3. /\ files'[c] = [files[c] EXCEPT !.flushed = files[c].books]
      /\ \A d \in Companies \ {c} : files'[d] = files[d]
      /\ UNCHANGED <<registry, keys, making, place>>
      /\ exporting' = [exporting EXCEPT !.stage = "flushed"]
  BY <1>2 DEF ExportFlushes, Flushed, TypeOK
<1>4. /\ files'[c].books = files[c].books /\ files'[c].key = files[c].key
      /\ files'[c].flushed = files[c].books /\ files'[c] \in Files
  BY <1>2, <1>3 DEF Files
<1>5. exporting'.copy = exporting.copy
  BY <1>2, <1>3 DEF Exports
<1>6. /\ exporting.copy \in Databases /\ exporting.copy.books # Nil =>
           exporting.copy.books \in Sources
      /\ place.copy \in Databases /\ place.copy.books # Nil => place.copy.books \in Sources
  BY <1>1 DEF Sources, Copied, Databases
<1>7. QED BY <1>1, <1>2, <1>3, <1>4, <1>5, <1>6, StillShelf

LEMMA CopyShelved ==
  ASSUME IInv, IInv', CopyBegins \/ CopyEnds
  PROVE  Shelf!Next
<1> USE StoreAssumption, MarkerAssumption
<1> DEFINE c == exporting.company
<1>1. /\ exporting # Nil /\ TypeOK /\ exporting \in Exports /\ c \in Companies
  BY Exporting DEF CopyBegins, CopyEnds, ExportAt
<1>2. UNCHANGED <<registry, files, keys, making, place>>
  BY DEF CopyBegins, CopyEnds
<1>3. \/ exporting'.copy \in {exporting.copy, Torn}
      \/ files[c] # Nil /\ exporting'.copy = MainFile(c)
  BY <1>1 DEF CopyBegins, CopyEnds, Exports
<1>4. /\ exporting.copy \in Databases /\ exporting.copy.books # Nil =>
           exporting.copy.books \in Sources
      /\ place.copy \in Databases /\ place.copy.books # Nil => place.copy.books \in Sources
  BY <1>1 DEF Sources, Copied, Databases
<1>5. files[c] # Nil /\ files[c].flushed # Nil => MainFile(c).books \in Sources
  BY <1>1, FlushedIsCopied DEF MainFile, Sources
<1>6. exporting'.copy \in Databases /\ exporting'.copy.books # Nil =>
        exporting'.copy.books \in Sources
  BY <1>3, <1>4, <1>5 DEF MainFile
<1>7. QED BY <1>2, <1>4, <1>6, StillShelf

LEMMA PublishShelved ==
  ASSUME IInv, IInv', ExportReplaces \/ ExportDescribes
  PROVE  Shelf!Next
<1> USE StoreAssumption, MarkerAssumption
<1>1. /\ exporting # Nil /\ TypeOK /\ exporting \in Exports
  BY Exporting DEF ExportReplaces, ExportDescribes, ExportAt
<1>2. UNCHANGED <<registry, files, keys, making>>
  BY DEF ExportReplaces, ExportDescribes
<1>3. exporting'.copy = exporting.copy /\ place'.copy \in {place.copy, exporting.copy}
  BY <1>1 DEF ExportReplaces, ExportDescribes, Exports, TypeOK
<1>4. /\ exporting.copy \in Databases /\ exporting.copy.books # Nil =>
           exporting.copy.books \in Sources
      /\ place.copy \in Databases /\ place.copy.books # Nil => place.copy.books \in Sources
  BY <1>1 DEF Sources, Copied, Databases
<1>5. QED BY <1>2, <1>3, <1>4, StillShelf

-----------------------------------------------------------------------------
LEMMA StepShelved ==
  ASSUME IInv, IInv', [Next]_vars
  PROVE  [Shelf!Next]_<<Shelved, Copied>>
<1>1. ASSUME NEW c \in Companies, HandleStep(c) PROVE Shelf!Next
  BY <1>1, PostShelved, CheckpointShelved, MigrateShelved, RekeyShelved DEF HandleStep
<1>2. ASSUME NEW c \in Companies, CreateStep(c) \/ RestoreStep(c) PROVE Shelf!Next
  BY <1>2, MakingShelved, RegisterShelved DEF CreateStep, RestoreStep
<1>3. ASSUME NEW c \in Companies, NEW steps \in 0..3, Delete(c, steps) PROVE Shelf!Next
  BY <1>3, DeleteShelved
<1>4. CASE ExportStep
  BY <1>4, ExportAskedShelved, ExportFlushesShelved, CopyShelved, PublishShelved,
     ExportEndsShelved DEF ExportStep
<1>5. CASE Crash
  BY <1>5, CrashShelved
<1>6. CASE UNCHANGED vars
  BY <1>6 DEF vars, Shelved, Copied, Registered, KeyFits
<1>7. QED BY <1>1, <1>2, <1>3, <1>4, <1>5, <1>6 DEF Next

\* However their steps interleave and fail, creates, restores, exports, migrations
\* and deletions behave as steps of a shelf of books.
THEOREM Implementation == Spec => ImplementsShelf
<1>1. Init => Shelf!Init
  <2>1. Init => TypeOK
    BY InitInv DEF IInv
  <2>2. QED BY <2>1, ShelvedType DEF Shelf!Init, Shelf!Books, Books, Copied
<1>2. IInv /\ IInv' /\ [Next]_vars => [Shelf!Next]_<<Shelved, Copied>>
  BY StepShelved
<1>3. QED BY <1>1, <1>2, Invariance, PTL DEF Spec, ImplementsShelf, Shelf!Spec
=============================================================================
