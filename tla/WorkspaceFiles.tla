---------------------------- MODULE WorkspaceFiles ----------------------------
(***************************************************************************)
(* The files of a workspace: how its directory and its database are         *)
(* created, migrated, backed up and restored (workspace-store.ts,           *)
(* workspace-admin.ts, POST /workspaces and the start of server.ts), how     *)
(* bytes are sealed (artifact-store.ts), and the import of Career Ops data,  *)
(* which seals before it commits (career-ops-import, its endpoints in        *)
(* routes.ts, workbench.ts, and the page Imports).  The computer may stop    *)
(* between any two steps, which leaves the files as they are and loses all   *)
(* else.  The database is a file and a write-ahead log: commits go to the    *)
(* log, a clean close moves them to the file.  The server and the            *)
(* administration are not run at the same time (OPERATIONS.md:19).          *)
(***************************************************************************)
EXTENDS Naturals, FiniteSets

CONSTANTS
  Sources,     \* contents the imported directory can have; also what an import
               \* of it seals and records
  Imports,     \* handlers of the requests to apply an import
  None,        \* no file, no content
  Latest,      \* the version of the schema (6)
  MaxPreviews, \* limit on the previews the server keeps (8)
  MaxCrashes,  \* bound: how often the computer stops
  MaxRestores, \* bound: restores; each begins from a stopped server
  MaxEdits,    \* bound: changes of the imported directory
  MaxApplies,  \* bound: confirmed imports
  MaxStarts    \* bound: starts of the server

ASSUME ConstantsAssumption ==
  /\ None \notin Sources
  /\ Latest \in Nat \ {0} /\ MaxPreviews \in Nat \ {0}
  /\ {MaxCrashes, MaxRestores, MaxEdits, MaxApplies, MaxStarts} \subseteq Nat

VARIABLES
  disk,    \* the files of the workspace
  server,  \* the server's process
  admin,   \* the process of a backup or a restore
  import,  \* handlers of confirmed imports
  preview, \* careerOpsPreviews: the directory's contents a preview showed
  folder,  \* the directory to import from: its content now
  said,    \* the imports the user has confirmed, and those answered as done
  spent    \* how often the bounded things have happened

vars == <<disk, server, admin, import, preview, folder, said, spent>>
memory == <<import, preview>>
user == <<folder, said>>

-----------------------------------------------------------------------------
\* A workspace's records: schema, the workspace row and its identity, and what
\* was imported, as often as it was.  A legacy one has a lead that the last
\* migration cannot bind; only the migration before it made leads possible.  A
\* torn one mixes the pages of two databases.
Records == [version : 0..Latest, identity : Nat, imported : [Sources -> Nat],
            legacy : BOOLEAN, torn : BOOLEAN]
Empty == [version |-> 0, identity |-> 0, imported |-> [s \in Sources |-> 0],
          legacy |-> FALSE, torn |-> FALSE]

\* A database file and its log carry the stamp of the file the log belongs to.
Databases == [records : Records, stamp : Nat]
Files == Databases \cup {None}
Disks == [directory : {"none", "made", "whole"}, file : Files, log : Files,
          backup : Records \cup {None}, rollbacks : SUBSET Records,
          staged : Records \cup {None}, displaced : Files,
          parts : SUBSET Sources, sealed : SUBSET Sources]

ASSUME NoneAssumption == None \notin Records \cup Databases

\* What a connection to the database reads.
Content(d) ==
  IF d.log = None THEN d.file.records
  ELSE IF d.log.stamp = d.file.stamp THEN d.log.records
  ELSE [d.log.records EXCEPT !.torn = TRUE]

Write(records) == [disk EXCEPT !.log = [records |-> records, stamp |-> disk.file.stamp]]
\* The last connection moves the log to the file.
Checkpoint(d) ==
  IF d.log = None THEN d
  ELSE [d EXCEPT !.file = [records |-> Content(d), stamp |-> d.file.stamp], !.log = None]

NoImport == [step |-> "free", source |-> None]
NoAdmin == [step |-> "none", source |-> None]
Down == [state |-> "down", store |-> FALSE, workspace |-> FALSE]
NewDisk == [directory |-> "none", file |-> None, log |-> None, backup |-> None,
            rollbacks |-> {}, staged |-> None, displaced |-> None, parts |-> {}, sealed |-> {}]

\* Of an older version, with or without a legacy lead.
Older(l) == [Empty EXCEPT !.version = Latest - 1, !.identity = 1, !.legacy = l]

\* A new computer, or a workspace of an older version with a backup of its own.
Init ==
  /\ \/ disk = NewDisk
     \/ \E l, k \in BOOLEAN :
          disk = [NewDisk EXCEPT !.directory = "whole",
                                 !.file = [records |-> Older(l), stamp |-> 0],
                                 !.backup = Older(k)]
  /\ server = Down
  /\ admin = NoAdmin
  /\ import = [h \in Imports |-> NoImport]
  /\ preview = {}
  /\ folder \in Sources
  /\ said = [confirmed |-> {}, done |-> {}]
  /\ spent = [crashes |-> 0, restores |-> 0, edits |-> 0, applies |-> 0, starts |-> 0,
              made |-> IF disk.file = None THEN 0 ELSE 1]

Spend(what, limit) == spent[what] < limit /\ spent' = [spent EXCEPT ![what] = @ + 1]
Idle == server.state = "down" /\ admin = NoAdmin

-----------------------------------------------------------------------------
\* The server and its workspace.

\* A server without a database file has no store; another one opens it.
Start ==
  /\ Idle /\ Spend("starts", MaxStarts)
  /\ server' = IF disk.file = None THEN [Down EXCEPT !.state = "up"]
               ELSE [Down EXCEPT !.state = "opening"]
  /\ UNCHANGED <<disk, admin, memory, user>>

\* POST /workspaces.  The directory must not exist yet: a workspace is never
\* made where there is, or was, another one.
CreateDirectory ==
  /\ server.state = "up" /\ ~server.workspace /\ disk.directory = "none"
  /\ disk' = [disk EXCEPT !.directory = "made"]
  /\ server' = [server EXCEPT !.state = "creating"]
  /\ UNCHANGED <<admin, memory, user, spent>>

\* The directories within, and config.toml; then an empty database.
CreateLayout ==
  /\ server.state = "creating" /\ disk.directory = "made"
  /\ disk' = [disk EXCEPT !.directory = "whole"]
  /\ UNCHANGED <<server, admin, memory, user, spent>>
CreateDatabase ==
  /\ server.state = "creating" /\ disk.directory = "whole"
  /\ disk' = [disk EXCEPT !.file = [records |-> Empty, stamp |-> 0]]
  /\ server' = [server EXCEPT !.state = "making"]
  /\ UNCHANGED <<admin, memory, user, spent>>

\* One migration is one transaction.  The last refuses a legacy lead.
Migratable(r) == r.version < Latest /\ ~(r.version = Latest - 1 /\ r.legacy)
MigrationFails(r) == r.version = Latest - 1 /\ r.legacy
Migrate(r) == [r EXCEPT !.version = @ + 1]

MigrateServer ==
  /\ server.state \in {"opening", "making"}
  /\ Migratable(Content(disk))
  /\ disk' = Write(Migrate(Content(disk)))
  /\ UNCHANGED <<server, admin, memory, user, spent>>

\* A start that cannot migrate ends; the versions it has passed stay.
OpenFails ==
  /\ server.state = "opening" /\ MigrationFails(Content(disk))
  /\ disk' = Checkpoint(disk)
  /\ server' = Down
  /\ UNCHANGED <<admin, memory, user, spent>>

\* The store is open; a start looks for the workspace in it, and creation
\* enters it, unless its input is refused.
Open ==
  /\ \/ /\ server.state = "opening" /\ Content(disk).version = Latest
        /\ server' = [state |-> "up", store |-> TRUE, workspace |-> Content(disk).identity > 0]
        /\ UNCHANGED <<disk, spent>>
     \/ /\ server.state = "making" /\ Content(disk).version = Latest
        /\ \E accepted \in BOOLEAN :
             /\ server' = [state |-> "up", store |-> TRUE, workspace |-> accepted]
             /\ disk' = IF accepted
                  THEN Write([Content(disk) EXCEPT !.identity = spent.made + 1])
                  ELSE disk
             /\ spent' = IF accepted THEN [spent EXCEPT !.made = @ + 1] ELSE spent
  /\ UNCHANGED <<admin, memory, user>>

\* A clean stop waits for the requests and closes the database.
Stop ==
  /\ server.state = "up" /\ \A h \in Imports : import[h] = NoImport
  /\ disk' = IF server.store THEN Checkpoint(disk) ELSE disk
  /\ server' = Down
  /\ preview' = {}
  /\ UNCHANGED <<admin, import, user, spent>>

\* The computer stops.
Crash ==
  /\ ~Idle /\ Spend("crashes", MaxCrashes)
  /\ server' = Down
  /\ admin' = NoAdmin
  /\ import' = [h \in Imports |-> NoImport]
  /\ preview' = {}
  /\ UNCHANGED <<disk, user>>

-----------------------------------------------------------------------------
\* The import of a directory.  It may change whenever somebody works in it.

EditFolder ==
  /\ Spend("edits", MaxEdits)
  /\ \E s \in Sources \ {folder} : folder' = s
  /\ UNCHANGED <<disk, server, admin, memory, said>>

\* The directory is read and the preview kept, in the place of the oldest.
\* Fault: no preview makes room for another.
PreviewUnbounded ==
  /\ server.workspace /\ folder \notin preview
  /\ preview' = preview \cup {folder}
  /\ UNCHANGED <<disk, server, admin, import, user, spent>>
Preview ==
  /\ server.workspace /\ folder \notin preview
  /\ preview' = IF Cardinality(preview) < MaxPreviews THEN preview \cup {folder} ELSE {folder}
  /\ UNCHANGED <<disk, server, admin, import, user, spent>>

\* After 15 minutes a preview is worth nothing.
PreviewExpires ==
  /\ \E s \in preview : preview' = preview \ {s}
  /\ UNCHANGED <<disk, server, admin, import, user, spent>>

\* The directory, read anew, has the bytes the preview was made of.
StillReads(s) == folder = s

\* The user confirms what a preview showed, perhaps an old one.  The directory
\* is read again and must still be the same.
\* Fault: what the directory holds now is imported as it is.
ApplyUnchecked(h, s) ==
  /\ server.workspace /\ import[h] = NoImport /\ s \in preview
  /\ Spend("applies", MaxApplies)
  /\ said' = [said EXCEPT !.confirmed = @ \cup {s}]
  /\ import' = [import EXCEPT ![h] = [step |-> "read", source |-> folder]]
  /\ UNCHANGED <<disk, server, admin, preview, folder>>
Apply(h, s) ==
  /\ server.workspace /\ import[h] = NoImport /\ s \in preview
  /\ Spend("applies", MaxApplies)
  /\ said' = [said EXCEPT !.confirmed = @ \cup {s}]
  /\ import' = IF StillReads(s) THEN [import EXCEPT ![h] = [step |-> "read", source |-> s]]
               ELSE import
  /\ UNCHANGED <<disk, server, admin, preview, folder>>

Goes(h, step) == import' = [import EXCEPT ![h].step = step]
Ends(h) == import' = [import EXCEPT ![h] = NoImport]

\* An import of the same bytes is answered with the manifest of the first.
LookForManifest(h) ==
  /\ import[h].step = "read"
  /\ IF Content(disk).imported[import[h].source] > 0 THEN Ends(h) ELSE Goes(h, "known")
  /\ UNCHANGED <<disk, server, admin, preview, user, spent>>

\* ContentAddressedArtifactStore.seal: the bytes are written and flushed under
\* a name of their own, then renamed to their digest.
WritePart(h) ==
  /\ import[h].step = "known"
  /\ disk' = [disk EXCEPT !.parts = @ \cup {import[h].source}]
  /\ Goes(h, "written")
  /\ UNCHANGED <<server, admin, preview, user, spent>>
\* Fault: the part is left for a later step to rename.
PlacePartLater(h) ==
  /\ import[h].step = "written"
  /\ Goes(h, "sealed")
  /\ UNCHANGED <<disk, server, admin, preview, user, spent>>
PlacePart(h) ==
  /\ import[h].step = "written"
  /\ disk' = [disk EXCEPT !.parts = @ \ {import[h].source}, !.sealed = @ \cup {import[h].source}]
  /\ Goes(h, "sealed")
  /\ UNCHANGED <<server, admin, preview, user, spent>>

\* The records made of the files: their sources and artifacts, the facts and
\* applications found in them, and the manifest of them all.
WithImport(records, s) == [records EXCEPT !.imported[s] = @ + 1]

\* They are one commit.
CommitImport(h) ==
  LET s == import[h].source IN
  /\ import[h].step = "sealed"
  /\ disk' = Write(WithImport(Content(disk), s))
  /\ said' = [said EXCEPT !.done = @ \cup {s}]
  /\ Ends(h)
  /\ UNCHANGED <<server, admin, preview, folder, spent>>

-----------------------------------------------------------------------------
\* workspace-admin.ts.  Each process opens the database as the server does,
\* migrates it and closes it at its end.

At(step) == admin.step = step
Go(step) == admin' = [admin EXCEPT !.step = step]
Exit == admin' = NoAdmin

\* A backup opens the workspace, and copies and verifies it.  (Where there is no
\* database the code would create an empty one; that is left out.)
Backup ==
  /\ Idle /\ disk.file # None
  /\ ~Content(disk).torn /\ Content(disk).version = Latest /\ disk.backup # Content(disk)
  /\ disk' = [Checkpoint(disk) EXCEPT !.backup = Content(disk)]
  /\ UNCHANGED <<server, admin, memory, user, spent>>

\* Fault: the current database is not copied.
KeepRollbackNot ==
  /\ Idle /\ disk.file # None /\ Spend("restores", MaxRestores)
  /\ \E r \in ({disk.backup} \cup disk.rollbacks) \ {None} :
       admin' = [step |-> "kept", source |-> r]
  /\ UNCHANGED <<disk, server, memory, user>>

\* restoreWorkspaceBackup, of a backup or of an earlier rollback.  The current
\* database is first copied.
KeepRollback ==
  /\ Idle /\ disk.file # None /\ Spend("restores", MaxRestores)
  /\ \E r \in ({disk.backup} \cup disk.rollbacks) \ {None} :
       admin' = [step |-> "kept", source |-> r]
  /\ disk' = [disk EXCEPT !.rollbacks = @ \cup {Content(disk)}]
  /\ UNCHANGED <<server, memory, user>>

Stage ==
  /\ At("kept")
  /\ disk' = [disk EXCEPT !.staged = admin.source]
  /\ Go("staged")
  /\ UNCHANGED <<server, memory, user, spent>>

Displace ==
  /\ At("staged")
  /\ disk' = [disk EXCEPT !.displaced = disk.file, !.file = None]
  /\ Go("displaced")
  /\ UNCHANGED <<server, memory, user, spent>>

\* The staged copy is moved in; else the displaced file is put back, which may
\* fail too and leaves it under its own name.
MoveIn ==
  /\ At("displaced")
  /\ \/ /\ disk' = [disk EXCEPT !.file = [records |-> disk.staged, stamp |-> spent.restores],
                              !.staged = None]
        /\ Go("moved")
     \/ /\ disk' = [disk EXCEPT !.file = disk.displaced, !.displaced = None, !.staged = None]
        /\ Exit
     \/ /\ disk' = [disk EXCEPT !.staged = None]
        /\ Exit
  /\ UNCHANGED <<server, memory, user, spent>>

DropDisplaced ==
  /\ At("moved")
  /\ disk' = [disk EXCEPT !.displaced = None]
  /\ Go("dropped")
  /\ UNCHANGED <<server, memory, user, spent>>

\* The log of the database before.
DropLog ==
  /\ At("dropped")
  /\ disk' = [disk EXCEPT !.log = None]
  /\ Go("opening")
  /\ UNCHANGED <<server, memory, user, spent>>

MigrateRestored ==
  /\ At("opening") /\ Migratable(Content(disk))
  /\ disk' = Write(Migrate(Content(disk)))
  /\ UNCHANGED <<server, admin, memory, user, spent>>

\* The restored database is open, or cannot be migrated.
RestoreEnds ==
  /\ At("opening") /\ ~Migratable(Content(disk))
  /\ disk' = Checkpoint(disk)
  /\ Exit
  /\ UNCHANGED <<server, memory, user, spent>>

-----------------------------------------------------------------------------
ServerStep ==
  \/ Start \/ CreateDirectory \/ CreateLayout \/ CreateDatabase
  \/ MigrateServer \/ OpenFails \/ Open \/ Stop \/ Crash

ImportStep ==
  \/ EditFolder \/ Preview \/ PreviewExpires
  \/ \E h \in Imports :
       \/ \E s \in Sources : Apply(h, s)
       \/ LookForManifest(h) \/ WritePart(h) \/ PlacePart(h) \/ CommitImport(h)

AdminStep ==
  \/ Backup \/ KeepRollback \/ Stage \/ Displace \/ MoveIn \/ DropDisplaced \/ DropLog
  \/ MigrateRestored \/ RestoreEnds

Next == ServerStep \/ ImportStep \/ AdminStep

Spec == Init /\ [][Next]_vars

-----------------------------------------------------------------------------
\* Properties.

\* Records on the disk, wherever they are.
Kept == ({disk.backup} \cup disk.rollbacks \cup {disk.staged}
          \cup {f.records : f \in {disk.file, disk.log, disk.displaced} \ {None}}) \ {None}

\* The files are files, and a process is at a step of its own.
TypeOK ==
  /\ disk \in Disks
  /\ server.state \in {"down", "opening", "creating", "making", "up"}
  /\ server.workspace => server.store /\ disk.file # None
  /\ \A h \in Imports : import[h] # NoImport => server.workspace
  /\ preview \subseteq Sources /\ Cardinality(preview) <= MaxPreviews

\* Every artifact that a database names, be it a backup, has its bytes under
\* their digest, whenever the computer stopped and whatever was restored.
RecordsHaveTheirBytes ==
  \A r \in Kept, s \in Sources : r.imported[s] > 0 => s \in disk.sealed

\* What was answered as imported is found on the disk for ever: in the database
\* or its log or, once that was restored from a backup, in the rollback.
ImportsAreDurable ==
  \A s \in said.done : \E r \in Kept : r.imported[s] > 0

\* Only what the user has confirmed is imported.
ImportIsWhatWasReviewed ==
  \A r \in Kept, s \in Sources : r.imported[s] > 0 => s \in said.confirmed

\* "atomically swaps the database, removes obsolete WAL/SHM sidecars"
\* (OPERATIONS.md:36): whenever no administration runs, the directory has a
\* database, and the log beside it is its own.
SwapIsAtomic ==
  spent.restores > 0 /\ admin = NoAdmin =>
    disk.file # None /\ (disk.log = None \/ disk.log.stamp = disk.file.stamp)

\* "apply one idempotent transaction" (SPEC.md:996): the same bytes are
\* imported once.  Two imports look for the manifest before either commits.
ImportedOnce == \A r \in Kept, s \in Sources : r.imported[s] <= 1
===============================================================================
