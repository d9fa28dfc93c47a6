---------------------------- MODULE CompanyStore ----------------------------
(***************************************************************************)
(* What Avelo keeps of its companies on disk: the registry, the encrypted  *)
(* SQLite files, the keys in the Keychain, and the backup at the place the *)
(* user saves to.  Creating, deleting, exporting, restoring and upgrading  *)
(* a company touch several of them one after another, may fail or be cut   *)
(* off between any two, and run beside each other.                         *)
(***************************************************************************)
EXTENDS Naturals

CONSTANTS Companies,     \* the UUIDs the program may generate
          Names,         \* company names
          LatestSchema,  \* SchemaVersion.current
          MaxRevision,   \* bound on the revisions of a company's books
          Nil,           \* nothing: no row, no file, no key, no task
          Torn           \* a copy some pages of which are older than others

ASSUME StoreAssumption ==
  /\ Nil \notin Companies /\ Nil \notin Names
  /\ LatestSchema \in Nat \ {0}
  /\ MaxRevision \in Nat \ {0}

VARIABLES registry,   \* the name in each company's registry row, or Nil
          files,      \* each company's database file, or Nil
          keys,       \* the key stored for each company, or Nil
          making,     \* the create or the restore under way for each id, or Nil
          exporting,  \* the export under way, or Nil
          place,      \* the backup file and the manifest beside it
          gone        \* history: companies deleted, and those a rekey has lost

vars == <<registry, files, keys, making, exporting, place, gone>>

\* The books of a company: whose they were first, and how often written.
Books == [root : Companies, at : 1..MaxRevision]

\* A database as a copy holds it.  Its key is that of the company it was
\* generated for; Nil stands for plaintext or the passphrase of old versions,
\* which any installation opens.
Databases == [books : Books \cup {Nil}, key : Companies \cup {Nil}, schema : 1..LatestSchema]

\* A database file: what is committed, and what of it the main file holds;
\* the rest is in the WAL.
Files == [books : Books \cup {Nil}, flushed : Books \cup {Nil},
          key : Companies \cup {Nil}, schema : 1..LatestSchema]

Copies == Databases \cup {Torn}

\* The manifest names the company and holds the digest of the copy.
Manifests == [digest : Copies, name : Names]

CreatingStages == {"filed", "written"}
RestoringStages == {"checked", "staged", "published"}
ExportingStages == {"asked", "flushed", "copying", "copied", "replaced", "described"}

Makings == [stage : CreatingStages \cup RestoringStages, name : Names, staged : Databases \cup {Nil}]

Exports == [company : Companies, name : Names, stage : ExportingStages,
            copy : Copies \cup {Nil}, since : Books]

\* The two markers are not data.
ASSUME MarkerAssumption ==
  /\ Torn # Nil /\ Torn \notin Databases
  /\ Nil \notin Books /\ Nil \notin Databases /\ Nil \notin Files
  /\ Nil \notin Manifests /\ Nil \notin Makings /\ Nil \notin Exports

TypeOK == /\ registry \in [Companies -> Names \cup {Nil}]
          /\ files \in [Companies -> Files \cup {Nil}]
          /\ keys \in [Companies -> Companies \cup {Nil}]
          /\ making \in [Companies -> Makings \cup {Nil}]
          /\ exporting \in Exports \cup {Nil}
          /\ place \in [copy : Copies \cup {Nil}, manifest : Manifests \cup {Nil}]
          /\ gone \subseteq Companies

-----------------------------------------------------------------------------
Registered == {c \in Companies : registry[c] # Nil}

NameFree(name) == \A c \in Registered : registry[c] # name

\* A UUID that nothing is under way for.  (Mutant of Fresh: ids are reused.)
Idle(c) == making[c] = Nil

\* A UUID that has left no trace.
Fresh(c) == /\ registry[c] = Nil /\ files[c] = Nil /\ keys[c] = Nil
            /\ making[c] = Nil /\ c \notin gone
            /\ exporting # Nil => exporting.company # c

\* The stored key opens the file, or there is none and none is needed.
KeyFits(c) == files[c] # Nil /\ keys[c] = files[c].key

\* What opening the company asks of its file, before the migrations.
Opens(c) == c \in Registered /\ keys[c] # Nil /\ KeyFits(c)

Whole(books, key, schema) == [books |-> books, flushed |-> books, key |-> key, schema |-> schema]

\* The main file of a company, as a copy of it reads.
MainFile(c) == [books |-> files[c].flushed, key |-> files[c].key, schema |-> files[c].schema]

First(c) == [root |-> c, at |-> 1]

OldCopy(c) == [books |-> First(c), key |-> Nil, schema |-> 1]

\* Companies installed earlier, by this version or by an older one, and perhaps
\* a backup of one of them that an older version wrote.
Init == /\ \E present \in SUBSET Companies : \E legacy \in SUBSET present :
           \E name \in [Companies -> Names], schema \in [Companies -> 1..LatestSchema] :
             /\ \A c, d \in present : name[c] = name[d] => c = d
             /\ \A c \in legacy : schema[c] < LatestSchema
             /\ registry = [c \in Companies |-> IF c \in present THEN name[c] ELSE Nil]
             /\ keys = [c \in Companies |-> IF c \in present \ legacy THEN c ELSE Nil]
             /\ files = [c \in Companies |->
                           IF c \in present
                           THEN Whole(First(c), keys[c], schema[c])
                           ELSE Nil]
             /\ place \in {[copy |-> Nil, manifest |-> Nil]}
                          \cup {[copy |-> OldCopy(c), manifest |-> Nil] : c \in present}
        /\ making = [c \in Companies |-> Nil]
        /\ exporting = Nil
        /\ gone = {}

-----------------------------------------------------------------------------
(* What an open company's handle does to its file. *)

\* A committed write, in the WAL.
Post(c) ==
  /\ Opens(c) /\ files[c].books # Nil
  /\ files[c].schema = LatestSchema /\ files[c].books.at < MaxRevision
  /\ files' = [files EXCEPT ![c].books.at = @ + 1]
  /\ UNCHANGED <<registry, keys, making, exporting, place, gone>>

\* (Mutant of Flushed: the pragma does nothing.)
NotFlushed(c) == files

Flushed(c) == [files EXCEPT ![c].flushed = files[c].books]

\* The WAL is moved into the main file: on close, before an export, or when the
\* engine finds it long.
Checkpoint(c) ==
  /\ Opens(c)
  /\ files' = Flushed(c)
  /\ UNCHANGED <<registry, keys, making, exporting, place, gone>>

\* (Mutant of Pending: the version reached counts as pending.)
PendingAgain(c) == files[c].schema <= LatestSchema

Pending(c) == files[c].schema < LatestSchema

\* One migration of openCompany, in its own transaction; a failure, a
\* cancellation or a crash may come after any of them.
Migrate(c) ==
  /\ Opens(c) /\ Pending(c)
  /\ files' = [files EXCEPT ![c].schema = @ + 1]
  /\ UNCHANGED <<registry, keys, making, exporting, place, gone>>

\* Opening a legacy file gives it a key: an encrypted copy replaces it, then
\* the key is stored.
NeedsKey(c) == c \in Registered /\ files[c] # Nil /\ keys[c] = Nil /\ files[c].key = Nil

Rekeyed(c) == [files EXCEPT ![c] = Whole(@.books, c, @.schema)]

Rekey(c) ==
  /\ NeedsKey(c)
  /\ files' = Rekeyed(c)
  /\ keys' = [keys EXCEPT ![c] = c]
  /\ UNCHANGED <<registry, making, exporting, place, gone>>

\* The key is not stored: the Keychain refuses it, and the file replaced is
\* thrown away as the error leaves, or the process ends before it is asked.
\* Or it ends between the moves and the file is only there under another name.
RekeyCut(c) ==
  /\ NeedsKey(c)
  /\ files' \in {Rekeyed(c), [files EXCEPT ![c] = Nil]}
  /\ gone' = gone \cup {c}
  /\ UNCHANGED <<registry, keys, making, exporting, place>>

-----------------------------------------------------------------------------
(* Creating a company, and deleting one. *)

Task(stage, name, staged) == [stage |-> stage, name |-> name, staged |-> staged]

Blank(c) == Whole(Nil, c, LatestSchema)

\* createCompanyFile: the key is stored, and the file made and migrated.
CreateFile(c, name) ==
  /\ Fresh(c)
  /\ keys' = [keys EXCEPT ![c] = c]
  /\ files' = [files EXCEPT ![c] = Blank(c)]
  /\ making' = [making EXCEPT ![c] = Task("filed", name, Nil)]
  /\ UNCHANGED <<registry, exporting, place, gone>>

\* It is cut off, or throws and cannot take everything back.
CreateFileCut(c) ==
  /\ Fresh(c)
  /\ keys' = [keys EXCEPT ![c] = c]
  /\ \/ UNCHANGED files
     \/ files' = [files EXCEPT ![c] = Blank(c)]
  /\ UNCHANGED <<registry, making, exporting, place, gone>>

\* CompanyService.create writes the company, its year and the default chart in
\* one transaction on a handle of its own.
WriteBooks(c) ==
  /\ making[c] # Nil /\ making[c].stage = "filed"
  /\ files' = [files EXCEPT ![c] = Whole(First(c), @.key, @.schema)]
  /\ making' = [making EXCEPT ![c].stage = "written"]
  /\ UNCHANGED <<registry, keys, exporting, place, gone>>

\* (Mutant of ReadyToRegister: a restore registers before it moves the file.)
ReadyEarly(c) == making[c].stage \in {"written", "staged", "published"}

ReadyToRegister(c) == making[c].stage \in {"written", "published"}

\* registerCompany, which insists on a name of its own: the last step of a
\* create and of a restore.
Register(c) ==
  /\ making[c] # Nil /\ ReadyToRegister(c)
  /\ NameFree(making[c].name)
  /\ registry' = [registry EXCEPT ![c] = making[c].name]
  /\ making' = [making EXCEPT ![c] = Nil]
  /\ UNCHANGED <<files, keys, exporting, place, gone>>

\* deleteCompanyFiles removes the file, the row and the key in this order, and
\* may throw or be cut off after any number of these steps.
Remove(c, steps) ==
  /\ files' = IF steps >= 1 THEN [files EXCEPT ![c] = Nil] ELSE files
  /\ registry' = IF steps >= 2 THEN [registry EXCEPT ![c] = Nil] ELSE registry
  /\ keys' = IF steps >= 3 THEN [keys EXCEPT ![c] = Nil] ELSE keys

\* A create that throws removes what it made.
CreateFails(c) ==
  /\ making[c] # Nil /\ making[c].stage \in CreatingStages
  /\ \E steps \in 0..3 : Remove(c, steps)
  /\ making' = [making EXCEPT ![c] = Nil]
  /\ UNCHANGED <<exporting, place, gone>>

\* The user deletes a company of the list.
Delete(c, steps) ==
  /\ c \in Registered
  /\ Remove(c, steps)
  /\ gone' = IF steps = 0 THEN gone ELSE gone \cup {c}
  /\ UNCHANGED <<making, exporting, place>>

-----------------------------------------------------------------------------
(* Exporting a company to the place the user chose. *)

ExportAsked(c) ==
  /\ exporting = Nil
  /\ Opens(c)
  /\ exporting' = [company |-> c, name |-> registry[c], stage |-> "asked",
                   copy |-> Nil, since |-> files[c].books]
  /\ UNCHANGED <<registry, files, keys, making, place, gone>>

ExportAt(stage) == exporting # Nil /\ exporting.stage = stage

\* The checkpoint, through the company's handle or one opened for it.
ExportFlushes ==
  /\ ExportAt("asked")
  /\ Opens(exporting.company)
  /\ files[exporting.company].schema = LatestSchema
  /\ files' = Flushed(exporting.company)
  /\ exporting' = [exporting EXCEPT !.stage = "flushed"]
  /\ UNCHANGED <<registry, keys, making, place, gone>>

\* The main file is copied, without a lock on it.
CopyBegins ==
  /\ ExportAt("flushed") /\ files[exporting.company] # Nil
  /\ exporting' = [exporting EXCEPT !.stage = "copying", !.copy = MainFile(exporting.company)]
  /\ UNCHANGED <<registry, files, keys, making, place, gone>>

\* Pages that a checkpoint or a migration wrote meanwhile may be in the copy.
CopyEnds ==
  /\ ExportAt("copying")
  /\ \/ exporting' = [exporting EXCEPT !.stage = "copied"]
     \/ /\ files[exporting.company] # Nil /\ MainFile(exporting.company) # exporting.copy
        /\ exporting' = [exporting EXCEPT !.stage = "copied", !.copy = Torn]
  /\ UNCHANGED <<registry, files, keys, making, place, gone>>

ExportReplaces ==
  /\ ExportAt("copied")
  /\ place' = [place EXCEPT !.copy = exporting.copy]
  /\ exporting' = [exporting EXCEPT !.stage = "replaced"]
  /\ UNCHANGED <<registry, files, keys, making, gone>>

ExportDescribes ==
  /\ ExportAt("replaced")
  /\ place' = [place EXCEPT !.manifest = [digest |-> exporting.copy, name |-> exporting.name]]
  /\ exporting' = [exporting EXCEPT !.stage = "described"]
  /\ UNCHANGED <<registry, files, keys, making, gone>>

\* The audit event is written and the export returns.
ExportReturns ==
  /\ ExportAt("described")
  /\ exporting' = Nil
  /\ UNCHANGED <<registry, files, keys, making, place, gone>>

\* It throws, before the copy, between the two files, or because the company
\* cannot be opened for the audit event: what it has replaced stays replaced.
ExportFails ==
  /\ exporting # Nil
  /\ exporting' = Nil
  /\ UNCHANGED <<registry, files, keys, making, place, gone>>

\* The audit event fails: the copy and its manifest are removed.
AuditFails ==
  /\ ExportAt("described")
  /\ place' = [copy |-> Nil, manifest |-> Nil]
  /\ exporting' = Nil
  /\ UNCHANGED <<registry, files, keys, making, gone>>

-----------------------------------------------------------------------------
(* Restoring the backup at that place as a new company. *)

\* The manifest's digest, if there is a manifest, is that of the copy; its
\* name, or else the file's, is nobody's.
RestoreChecks(c, name) ==
  /\ Fresh(c) /\ place.copy # Nil
  /\ place.manifest # Nil => place.manifest = [digest |-> place.copy, name |-> name]
  /\ NameFree(name)
  /\ making' = [making EXCEPT ![c] = Task("checked", name, Nil)]
  /\ UNCHANGED <<registry, files, keys, exporting, place, gone>>

\* The file is read again, into the staging copy, which the user's recovery key
\* opens, or no key if it is a legacy one; it is migrated, given to the new
\* company, and encrypted if it was not.  The integrity check refuses torn pages.
RestoreStages(c) ==
  /\ making[c] # Nil /\ making[c].stage = "checked"
  /\ place.copy \in Databases /\ place.copy.books # Nil
  /\ LET key == IF place.copy.key = Nil THEN c ELSE place.copy.key
     IN /\ keys' = [keys EXCEPT ![c] = key]
        /\ making' = [making EXCEPT ![c] =
             Task("staged", @.name,
                  [books |-> place.copy.books, key |-> key, schema |-> LatestSchema])]
  /\ UNCHANGED <<registry, files, exporting, place, gone>>

RestorePublishes(c) ==
  /\ making[c] # Nil /\ making[c].stage = "staged"
  /\ files' = [files EXCEPT ![c] =
                 Whole(making[c].staged.books, making[c].staged.key, making[c].staged.schema)]
  /\ making' = [making EXCEPT ![c] = Task("published", @.name, Nil)]
  /\ UNCHANGED <<registry, keys, exporting, place, gone>>

\* A restore that throws removes its file and its key, as far as it can.
RestoreFails(c) ==
  /\ making[c] # Nil /\ making[c].stage \in RestoringStages
  /\ files' \in {files, [files EXCEPT ![c] = Nil]}
  /\ keys' \in {keys, [keys EXCEPT ![c] = Nil]}
  /\ making' = [making EXCEPT ![c] = Nil]
  /\ UNCHANGED <<registry, exporting, place, gone>>

\* The process ends: what is on disk stays.
Crash == /\ making' = [c \in Companies |-> Nil]
         /\ exporting' = Nil
         /\ UNCHANGED <<registry, files, keys, place, gone>>

-----------------------------------------------------------------------------
HandleStep(c) == Post(c) \/ Checkpoint(c) \/ Migrate(c) \/ Rekey(c) \/ RekeyCut(c)

CreateStep(c) == \/ \E name \in Names : CreateFile(c, name)
                 \/ CreateFileCut(c) \/ WriteBooks(c) \/ Register(c) \/ CreateFails(c)

ExportStep == \/ \E c \in Companies : ExportAsked(c)
              \/ ExportFlushes \/ CopyBegins \/ CopyEnds \/ ExportReplaces
              \/ ExportDescribes \/ ExportReturns \/ ExportFails \/ AuditFails

RestoreStep(c) == \/ \E name \in Names : RestoreChecks(c, name)
                  \/ RestoreStages(c) \/ RestorePublishes(c) \/ RestoreFails(c)

Next == \/ \E c \in Companies : HandleStep(c) \/ CreateStep(c) \/ RestoreStep(c)
        \/ \E c \in Companies, steps \in 0..3 : Delete(c, steps)
        \/ ExportStep
        \/ Crash

Spec == Init /\ [][Next]_vars

-----------------------------------------------------------------------------
\* Every company of the list has a file with books in it that the stored key, or
\* no key, opens, unless its deletion or a rekey was cut off: whatever step of a
\* create, a restore, an export or a migration failed, and wherever the process
\* ended.
RegisteredOpens ==
  \A c \in Registered \ gone : KeyFits(c) /\ files[c].books # Nil

\* A backup just published holds every commit made before its export was asked
\* for, and the books of no other company, unless a checkpoint tore the copy.
BackupHoldsWhatWasAsked ==
  exporting # Nil /\ exporting.stage \in {"replaced", "described"} =>
     \/ place.copy = Torn
     \/ /\ place.copy.books.root = exporting.since.root
        /\ place.copy.books.at >= exporting.since.at
        /\ place.copy.schema = LatestSchema

\* A file that is listed was written before it was.
ListedHaveBooks ==
  \A c \in Registered : files[c] # Nil => files[c].books # Nil

\* What each stage of a create or a restore has done, and no one may undo: the id
\* is not in the registry, and the key fits what is to be registered.
MakingSound ==
  \A c \in Companies : making[c] # Nil =>
     /\ registry[c] = Nil
     /\ making[c].stage = "filed" => KeyFits(c)
     /\ making[c].stage = "staged" =>
          /\ making[c].staged # Nil /\ making[c].staged.books # Nil
          /\ keys[c] = making[c].staged.key
     /\ making[c].stage \in {"written", "published"} =>
          /\ KeyFits(c) /\ files[c].books # Nil
          /\ files[c].flushed = files[c].books

\* The books are those the export was asked for, or later ones of the same company.
Covers(books) == /\ books # Nil
                 /\ books.root = exporting.since.root
                 /\ books.at >= exporting.since.at

CopyCovers(copy) ==
  copy = Torn \/ (copy # Nil /\ copy.schema = LatestSchema /\ Covers(copy.books))

\* What the company exported still holds, and what the export has read so far.
ExportSound ==
  exporting # Nil =>
     LET c == exporting.company IN
     /\ making[c] = Nil
     /\ files[c] # Nil => Covers(files[c].books)
     /\ exporting.stage # "asked" /\ files[c] # Nil =>
          files[c].schema = LatestSchema /\ Covers(files[c].flushed)
     /\ exporting.stage \notin {"asked", "flushed"} => CopyCovers(exporting.copy)
     /\ exporting.stage \in {"replaced", "described"} => place.copy = exporting.copy

\* The inductive invariant.
IInv == TypeOK /\ RegisteredOpens /\ ListedHaveBooks /\ MakingSound /\ ExportSound

\* Manual acceptance, keys: "valid old or new state, never partial state".
\* A listed company whose file is there can be opened, in its old form or its new.
RekeyKeepsBooks ==
  \A c \in Registered : files[c] # Nil => KeyFits(c)

\* What the user sees on the shelf: the companies of the list that open.
Shelved == [c \in Companies |->
              IF c \in Registered /\ KeyFits(c) THEN files[c].books ELSE Nil]

\* Every copy of books that is not a company's committed state.
Copied ==
  {books \in Books :
     \/ \E c \in Companies : files[c] # Nil /\ files[c].flushed = books
     \/ \E c \in Companies : /\ making[c] # Nil /\ making[c].staged # Nil
                             /\ making[c].staged.books = books
     \/ place.copy \in Databases /\ place.copy.books = books
     \/ exporting # Nil /\ exporting.copy \in Databases /\ exporting.copy.books = books}

Shelf == INSTANCE CompanyShelf WITH shelf <- Shelved, copies <- Copied

\* However the steps of creates, restores, exports, migrations and deletions
\* interleave and fail, the companies behave as a shelf of books: each changes
\* only by its own commits, appears whole, and from a copy of some company.
ImplementsShelf == Shelf!Spec
=============================================================================
