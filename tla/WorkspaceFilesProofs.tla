------------------------ MODULE WorkspaceFilesProofs ------------------------
(***************************************************************************)
(* For every number of imports, contents, crashes and restores: whatever    *)
(* database or copy of one is on the disk, the artifacts it names have      *)
(* their bytes and were confirmed by the user, and an import that was       *)
(* answered as done is in the database or in a rollback.  The last rests on *)
(* the order of a restore: the rollback is kept before the database is      *)
(* touched, so that from then on nothing done depends on the database.      *)
(***************************************************************************)
EXTENDS WorkspaceFiles, FiniteSetTheorems, TLAPS

\* What may be named by a record: it has its bytes and was confirmed.
Vouched == disk.sealed \cap said.confirmed

\* Records, a database file, and all files, that name no more than v.
Backed(r, v) == \A s \in Sources : r.imported[s] > 0 => s \in v
CopyOK(r, v) == r # None => Backed(r, v)
FileOK(f, v) == f # None => Backed(f.records, v)
DiskOK(d, v) ==
  /\ d \in Disks
  /\ FileOK(d.file, v) /\ FileOK(d.log, v) /\ FileOK(d.displaced, v)
  /\ CopyOK(d.backup, v) /\ CopyOK(d.staged, v)
  /\ \A r \in d.rollbacks : Backed(r, v)

FilesInv == DiskOK(disk, Vouched)

\* A server that opens or has opened a database has a file; one that makes the
\* directory has answered no import yet.
Servers == [state : {"down", "opening", "creating", "making", "up"},
            store : BOOLEAN, workspace : BOOLEAN]
ServerInv ==
  /\ server \in Servers
  /\ server.state \in {"opening", "making"} => disk.file # None
  /\ server.store => server.state = "up" /\ disk.file # None
  /\ server.workspace => server.store
  /\ disk.directory = "none" => disk.file = None /\ said.done = {}
  /\ server.state = "creating" => said.done = {}

\* A restore runs alone, with a copy to restore, and moves it in before it opens it.
Restores == [step : {"kept", "staged", "displaced", "moved", "dropped", "opening"},
             source : Records]
AdminInv ==
  /\ admin # NoAdmin => admin \in Restores /\ server.state = "down" /\ disk.directory # "none"
  /\ admin.step \in {"staged", "displaced"} => disk.staged \in Records
  /\ admin.step \in {"moved", "dropped", "opening"} => disk.file # None
  /\ admin # NoAdmin => Backed(admin.source, Vouched)

\* An import that goes on was confirmed, and one that may commit has its bytes.
ImportOK(row) ==
  row # NoImport =>
    /\ row \in [step : {"read", "known", "written", "sealed"}, source : Sources]
    /\ server.workspace /\ row.source \in said.confirmed
    /\ row.step = "sealed" => row.source \in disk.sealed
ImportInv == import \in [Imports -> {NoImport} \cup
                [step : {"read", "known", "written", "sealed"}, source : Sources]]
             /\ \A h \in Imports : ImportOK(import[h])

UserInv ==
  /\ folder \in Sources /\ preview \subseteq Sources
  /\ IsFiniteSet(preview) /\ Cardinality(preview) <= MaxPreviews
  /\ said \in [confirmed : SUBSET Sources, done : SUBSET Sources]
  /\ spent \in [crashes : Nat, restores : Nat, edits : Nat, applies : Nat,
                 starts : Nat, made : Nat]

\* What was answered as done is in a rollback or, while no restore runs, in
\* the database.
Survives(s) ==
  \/ \E r \in disk.rollbacks : r.imported[s] > 0
  \/ admin = NoAdmin /\ disk.file # None /\ Content(disk).imported[s] > 0
DurableInv == \A s \in said.done : Survives(s)

IInv ==
  /\ FilesInv /\ ServerInv /\ AdminInv
  /\ ImportInv /\ UserInv /\ DurableInv

-----------------------------------------------------------------------------
\* What the disk may hold only grows with what is vouched for.
LEMMA Grown ==
  ASSUME NEW d, NEW v, NEW w, v \subseteq w, DiskOK(d, v)
  PROVE  DiskOK(d, w)
BY DEF DiskOK, FileOK, CopyOK, Backed

LEMMA DiskTyped ==
  ASSUME NEW d, NEW v, DiskOK(d, v)
  PROVE  /\ d \in Disks
         /\ d.file # None => d.file \in Databases /\ d.file.records \in Records
                             /\ d.file.stamp \in Nat /\ Backed(d.file.records, v)
         /\ d.log # None => d.log \in Databases /\ d.log.records \in Records
                            /\ Backed(d.log.records, v)
         /\ d.displaced # None => d.displaced \in Databases
         /\ d.backup # None => d.backup \in Records /\ Backed(d.backup, v)
         /\ d.staged # None => d.staged \in Records /\ Backed(d.staged, v)
         /\ d.rollbacks \subseteq Records
BY DEF DiskOK, FileOK, CopyOK, Disks, Files, Databases

\* A database that is read has records, and no more than the disk holds.
LEMMA ContentOK ==
  ASSUME NEW d, NEW v, DiskOK(d, v), d.file # None
  PROVE  Content(d) \in Records /\ Backed(Content(d), v)
<1>1. CASE d.log = None \/ d.log.stamp = d.file.stamp
  BY <1>1, DiskTyped DEF Content
<1>2. CASE d.log # None /\ d.log.stamp # d.file.stamp
  <2>1. PICK r \in Records : r = d.log.records
    BY <1>2, DiskTyped
  <2>2. Content(d) = [r EXCEPT !.torn = TRUE] /\ Backed(r, v)
    BY <1>2, <2>1, DiskTyped DEF Content
  <2>3. [r EXCEPT !.torn = TRUE] \in Records /\ [r EXCEPT !.torn = TRUE].imported = r.imported
    BY DEF Records
  <2>4. QED
    BY <2>2, <2>3 DEF Backed
<1>3. QED
  BY <1>1, <1>2

\* A commit is what a connection then reads.
LEMMA WriteOK ==
  ASSUME NEW v, DiskOK(disk, v), disk.file # None, NEW r \in Records, Backed(r, v)
  PROVE  /\ DiskOK(Write(r), v) /\ Content(Write(r)) = r /\ Write(r).file # None
         /\ Write(r).directory = disk.directory /\ Write(r).rollbacks = disk.rollbacks
         /\ Write(r).sealed = disk.sealed
<1>1. PICK log \in Databases : log = [records |-> r, stamp |-> disk.file.stamp]
  BY DiskTyped DEF Databases
<1>2. log # None /\ log.records = r /\ log.stamp = disk.file.stamp
  BY <1>1, NoneAssumption
<1>3. Write(r) = [disk EXCEPT !.log = log] /\ disk \in Disks
  BY <1>1, DiskTyped DEF Write
<1>4. /\ Write(r) \in Disks /\ Write(r).log = log /\ Write(r).file = disk.file
      /\ Write(r).directory = disk.directory /\ Write(r).rollbacks = disk.rollbacks
      /\ Write(r).sealed = disk.sealed /\ Write(r).displaced = disk.displaced
      /\ Write(r).backup = disk.backup /\ Write(r).staged = disk.staged
  BY <1>3 DEF Disks, Files
<1>5. DiskOK(Write(r), v)
  BY <1>2, <1>4 DEF DiskOK, FileOK
<1>6. QED
  BY <1>2, <1>4, <1>5 DEF Content

\* A clean close changes nothing that is read.
LEMMA CheckpointOK ==
  ASSUME NEW v, DiskOK(disk, v), disk.file # None
  PROVE  LET d == Checkpoint(disk) IN
         /\ DiskOK(d, v) /\ Content(d) = Content(disk) /\ d.file # None
         /\ d.directory = disk.directory /\ d.rollbacks = disk.rollbacks
         /\ d.sealed = disk.sealed
<1> DEFINE d == Checkpoint(disk)
<1>1. CASE disk.log = None
  BY <1>1 DEF Checkpoint
<1>2. CASE disk.log # None
  <2>1. PICK file \in Databases : file = [records |-> Content(disk), stamp |-> disk.file.stamp]
    BY DiskTyped, ContentOK DEF Databases
  <2>2. file # None /\ file.records = Content(disk) /\ Backed(file.records, v)
    BY <2>1, ContentOK, NoneAssumption
  <2>3. d = [disk EXCEPT !.file = file, !.log = None] /\ disk \in Disks
    BY <1>2, <2>1, DiskTyped DEF Checkpoint
  <2>4. /\ d \in Disks /\ d.log = None /\ d.file = file
        /\ d.directory = disk.directory /\ d.rollbacks = disk.rollbacks
        /\ d.sealed = disk.sealed /\ d.displaced = disk.displaced
        /\ d.backup = disk.backup /\ d.staged = disk.staged
    BY <2>3 DEF Disks, Files
  <2>5. DiskOK(d, v)
    BY <2>2, <2>4 DEF DiskOK, FileOK
  <2>6. QED
    BY <2>2, <2>4, <2>5 DEF Content
<1>3. QED
  BY <1>1, <1>2

\* A migration leaves what was imported.
LEMMA MigrateOK ==
  ASSUME NEW r \in Records, Migratable(r)
  PROVE  Migrate(r) \in Records /\ Migrate(r).imported = r.imported
<1>1. r.version \in 0..Latest /\ r.version < Latest
  BY DEF Migratable, Records
<1>2. r.version + 1 \in 0..Latest
  BY <1>1, ConstantsAssumption
<1>3. Migrate(r) = [r EXCEPT !.version = r.version + 1]
  BY DEF Migrate, Records
<1>4. QED
  BY <1>2, <1>3 DEF Records

-----------------------------------------------------------------------------
\* How a step keeps the parts of the invariant it touches lightly.
LEMMA FilesKept ==
  ASSUME FilesInv, DiskOK(disk', Vouched), Vouched \subseteq Vouched'
  PROVE  FilesInv'
BY Grown DEF FilesInv

\* The database that was read is read still, or has been copied to a rollback.
LEMMA DurableKept ==
  ASSUME DurableInv, said'.done = said.done, disk.rollbacks \subseteq disk'.rollbacks,
         admin = NoAdmin /\ disk.file # None =>
           \/ Content(disk) \in disk'.rollbacks
           \/ /\ admin' = NoAdmin /\ disk'.file # None
              /\ Content(disk').imported = Content(disk).imported
  PROVE  DurableInv'
<1> SUFFICES ASSUME NEW s \in said.done
             PROVE  Survives(s)'
  BY DEF DurableInv
<1>1. Survives(s)
  BY DEF DurableInv
<1>2. QED
  BY <1>1 DEF Survives

\* Imports and restores ask of the disk only what every step leaves.
LEMMA ImportKept ==
  ASSUME ImportInv, import' = import, server' = server \/ \A h \in Imports : import[h] = NoImport,
         disk.sealed \subseteq disk'.sealed, said'.confirmed = said.confirmed
  PROVE  ImportInv'
BY DEF ImportInv, ImportOK

LEMMA AdminKept ==
  ASSUME AdminInv, admin' = admin, server'.state = server.state \/ admin = NoAdmin,
         Vouched \subseteq Vouched',
         \/ admin = NoAdmin
         \/ /\ disk'.directory = disk.directory /\ disk'.staged = disk.staged
            /\ disk'.file = None => disk.file = None
  PROVE  AdminInv'
<1>1. admin # NoAdmin => Backed(admin.source, Vouched')
  BY DEF AdminInv, Backed
<1>2. admin = NoAdmin => admin.step = "none"
  BY DEF NoAdmin
<1>3. QED
  BY <1>1, <1>2 DEF AdminInv

LEMMA DownTyped ==
  /\ Down \in Servers /\ Down.state = "down" /\ ~Down.store /\ ~Down.workspace
  /\ \A state \in {"opening", "up"} :
       /\ [Down EXCEPT !.state = state] \in Servers
       /\ [Down EXCEPT !.state = state].state = state
       /\ ~[Down EXCEPT !.state = state].store /\ ~[Down EXCEPT !.state = state].workspace
<1>1. Down \in Servers /\ Down.state = "down" /\ ~Down.store /\ ~Down.workspace
  BY DEF Down, Servers
<1>2. ASSUME NEW d \in Servers, ~d.store, ~d.workspace, NEW state \in {"opening", "up"}
      PROVE  /\ [d EXCEPT !.state = state] \in Servers
             /\ [d EXCEPT !.state = state].state = state
             /\ ~[d EXCEPT !.state = state].store /\ ~[d EXCEPT !.state = state].workspace
  BY <1>2 DEF Servers
<1>3. QED
  BY <1>1, <1>2

LEMMA Started ==
  ASSUME IInv, Start
  PROVE  IInv'
<1>1. /\ UNCHANGED <<disk, admin, import, preview, folder, said>> /\ admin = NoAdmin
      /\ server.state = "down" /\ Spend("starts", MaxStarts)
      /\ \/ disk.file = None /\ server' = [Down EXCEPT !.state = "up"]
         \/ disk.file # None /\ server' = [Down EXCEPT !.state = "opening"]
  BY DEF Start, Idle, memory, user
<1>2. spent' = [spent EXCEPT !.starts = @ + 1]
  BY <1>1 DEF Spend
<1>3. UserInv'
  BY <1>1, <1>2 DEF IInv, UserInv
<1>4. ServerInv'
  <2>1. CASE disk.file = None /\ server' = [Down EXCEPT !.state = "up"]
    BY <1>1, <2>1, DownTyped DEF IInv, ServerInv
  <2>2. CASE disk.file # None /\ server' = [Down EXCEPT !.state = "opening"]
    BY <1>1, <2>2, DownTyped DEF IInv, ServerInv
  <2>3. QED
    BY <1>1, <2>1, <2>2
<1>5. \A h \in Imports : import[h] = NoImport
  BY <1>1 DEF IInv, ImportInv, ImportOK, ServerInv
<1>6. ImportInv'
  BY <1>1, <1>5, ImportKept DEF IInv
<1>7. AdminInv'
  BY <1>1, AdminKept DEF IInv, Vouched
<1>8. FilesInv' /\ DurableInv'
  <2>1. FilesInv'
    BY <1>1 DEF IInv, FilesInv, Vouched
  <2>2. QED
    BY <1>1, <2>1, DurableKept DEF IInv
<1>9. QED
  BY <1>3, <1>4, <1>6, <1>7, <1>8 DEF IInv

\* While the server is not down no restore runs, and imports need a workspace.
LEMMA Exclusive ==
  ASSUME IInv
  PROVE  /\ server.state # "down" => admin = NoAdmin
         /\ ~server.workspace => \A h \in Imports : import[h] = NoImport
         /\ server.workspace => server.state = "up" /\ disk.file # None
         /\ admin # NoAdmin => ~server.workspace /\ ~server.store
BY DEF IInv, AdminInv, ImportInv, ImportOK, ServerInv

\* A step of the server that creates the directory: nothing is imported yet.
LEMMA Creating ==
  ASSUME IInv, CreateDirectory \/ CreateLayout \/ CreateDatabase
  PROVE  IInv'
<1>1. /\ UNCHANGED <<admin, import, preview, folder, said, spent>>
      /\ ~server.workspace /\ ~server.store /\ server.state # "down" /\ said.done = {}
  BY DEF CreateDirectory, CreateLayout, CreateDatabase, memory, user, IInv, ServerInv
<1>2. admin = NoAdmin /\ \A h \in Imports : import[h] = NoImport
  BY <1>1, Exclusive
<1>3. PICK blank \in Databases : blank = [records |-> Empty, stamp |-> 0]
  <2>1. Empty \in Records
    BY ConstantsAssumption DEF Empty, Records
  <2>2. QED
    BY <2>1 DEF Databases
<1>4. blank # None /\ Backed(blank.records, Vouched)
  <2>1. blank # None /\ blank.records = Empty
    BY <1>3, NoneAssumption
  <2>2. Empty.imported = [s \in Sources |-> 0]
    BY DEF Empty
  <2>3. QED
    BY <2>1, <2>2 DEF Backed
<1>5. disk \in Disks /\ DiskOK(disk, Vouched) /\ server \in Servers
  BY DEF IInv, FilesInv, DiskOK, ServerInv
<1>6. /\ DiskOK(disk', Vouched) /\ disk'.sealed = disk.sealed
      /\ (disk'.directory # "none" \/ disk'.file = None)
  <2>1. CASE CreateDirectory
    BY <1>5, <2>1 DEF CreateDirectory, DiskOK, Disks, IInv, ServerInv
  <2>2. CASE CreateLayout
    BY <1>5, <2>2 DEF CreateLayout, DiskOK, Disks
  <2>3. CASE CreateDatabase
    <3>1. disk' = [disk EXCEPT !.file = blank]
      BY <1>3, <2>3 DEF CreateDatabase
    <3>2. disk' \in Disks
      BY <1>5, <3>1 DEF Disks, Files
    <3>3. QED
      BY <1>4, <1>5, <2>3, <3>1, <3>2 DEF CreateDatabase, DiskOK, FileOK, Disks
  <2>4. QED
    BY <2>1, <2>2, <2>3
<1>7. ServerInv'
  <2>1. CASE CreateDirectory \/ CreateLayout
    BY <1>1, <1>5, <1>6, <2>1 DEF CreateDirectory, CreateLayout, ServerInv, Servers, Disks, IInv
  <2>2. CASE CreateDatabase
    <3>1. disk'.file # None
      BY <1>3, <1>4, <1>5, <2>2 DEF CreateDatabase, Disks
    <3>2. QED
      BY <1>1, <1>5, <1>6, <2>2, <3>1 DEF CreateDatabase, ServerInv, Servers, IInv
  <2>3. QED
    BY <2>1, <2>2
<1>8. FilesInv' /\ AdminInv'
  <2>1. Vouched' = Vouched
    BY <1>1, <1>6 DEF Vouched
  <2>2. Vouched \subseteq Vouched' /\ AdminInv /\ FilesInv
    BY <2>1 DEF IInv
  <2>3. FilesInv'
    BY <1>6, <2>1, FilesKept, <2>2
  <2>4. AdminInv'
    BY <1>1, <1>2, <2>2, AdminKept
  <2>5. QED
    BY <2>3, <2>4
<1>9. ImportInv' /\ UserInv'
  BY <1>1, <1>2, <1>6, ImportKept DEF IInv, UserInv
<1>10. DurableInv'
  BY <1>1 DEF DurableInv
<1>11. QED
  BY <1>7, <1>8, <1>9, <1>10 DEF IInv

\* A step that leaves the database as rich as it was, and the rest of the disk.
Reopens ==
  /\ UNCHANGED <<admin, folder, said>>
  /\ disk.file # None /\ DiskOK(disk', Vouched) /\ disk'.file # None
  /\ Content(disk').imported = Content(disk).imported
  /\ disk'.directory = disk.directory /\ disk'.rollbacks = disk.rollbacks
  /\ disk'.sealed = disk.sealed

LEMMA Reopened ==
  ASSUME IInv, Reopens
  PROVE  FilesInv' /\ DurableInv' /\ (admin = NoAdmin => AdminInv')
<1>1. Vouched' = Vouched
  BY DEF Reopens, Vouched
<1>2. FilesInv'
  BY <1>1, FilesKept DEF IInv, Reopens
<1>3. DurableInv'
  BY DurableKept DEF IInv, Reopens
<1>4. admin = NoAdmin => AdminInv'
  <2>1. Vouched \subseteq Vouched' /\ AdminInv /\ admin' = admin
    BY <1>1 DEF IInv, Reopens
  <2>2. QED
    BY <2>1, AdminKept
<1>5. QED
  BY <1>2, <1>3, <1>4

\* A migration of the database at hand.
LEMMA Migrates ==
  ASSUME FilesInv, disk.file # None, Migratable(Content(disk)),
         disk' = Write(Migrate(Content(disk))), UNCHANGED <<admin, folder, said>>
  PROVE  Reopens /\ disk'.staged = disk.staged
<1>1. Content(disk) \in Records /\ Backed(Content(disk), Vouched)
  BY ContentOK DEF FilesInv
<1>2. /\ Migrate(Content(disk)) \in Records
      /\ Migrate(Content(disk)).imported = Content(disk).imported
  BY <1>1, MigrateOK
<1>3. Backed(Migrate(Content(disk)), Vouched)
  BY <1>1, <1>2 DEF Backed
<1>4. Reopens
  BY <1>2, <1>3, WriteOK DEF FilesInv, Reopens
<1>5. disk'.staged = disk.staged
  BY DEF Write, FilesInv, DiskOK, Disks
<1>6. QED
  BY <1>4, <1>5

LEMMA Migrated ==
  ASSUME IInv, MigrateServer
  PROVE  IInv'
<1>1. /\ UNCHANGED <<server, admin, import, preview, folder, said, spent>>
      /\ disk.file # None /\ admin = NoAdmin
  BY Exclusive DEF MigrateServer, memory, user, IInv, ServerInv
<1>2. Reopens
  BY <1>1, Migrates DEF MigrateServer, IInv
<1>3. ServerInv' /\ ImportInv' /\ UserInv'
  BY <1>1, <1>2, ImportKept DEF IInv, Reopens, ServerInv, UserInv
<1>4. QED
  BY <1>1, <1>2, <1>3, Reopened DEF IInv

\* The process of the server ends, and closes the database if it has it.
LEMMA Ended ==
  ASSUME IInv, Reopens \/ UNCHANGED <<disk, folder, said>>,
         admin = NoAdmin, admin' = NoAdmin, server' = Down, preview' \in {preview, {}},
         \A h \in Imports : import'[h] = NoImport, import' \in [Imports -> {NoImport}],
         UNCHANGED spent
  PROVE  IInv'
<1>1. ServerInv'
  BY DownTyped DEF IInv, ServerInv, Reopens
<1>2. ImportInv'
  BY DEF ImportInv, ImportOK
<1>3. UserInv'
  BY FS_EmptySet, ConstantsAssumption DEF IInv, UserInv, Reopens
<1>4. FilesInv' /\ DurableInv' /\ AdminInv'
  <2>1. CASE Reopens
    BY <2>1, Reopened
  <2>2. CASE UNCHANGED <<disk, folder, said>>
    <3>1. Vouched' = Vouched
      BY <2>2 DEF Vouched
    <3>2. FilesInv' /\ AdminInv'
      BY <2>2, <3>1, AdminKept DEF IInv, FilesInv
    <3>3. DurableInv'
      BY <2>2, DurableKept DEF IInv
    <3>4. QED
      BY <3>2, <3>3
  <2>3. QED
    BY <2>1, <2>2
<1>5. QED
  BY <1>1, <1>2, <1>3, <1>4 DEF IInv

LEMMA Closes ==
  ASSUME FilesInv, disk.file # None, disk' = Checkpoint(disk), UNCHANGED <<admin, folder, said>>
  PROVE  Reopens
BY CheckpointOK DEF FilesInv, Reopens

LEMMA FailedToOpen ==
  ASSUME IInv, OpenFails
  PROVE  IInv'
<1>1. /\ UNCHANGED <<admin, import, preview, folder, said, spent>> /\ server' = Down
      /\ server.state = "opening" /\ disk.file # None /\ disk' = Checkpoint(disk)
  BY DEF OpenFails, memory, user, IInv, ServerInv
<1>2. admin = NoAdmin /\ \A h \in Imports : import[h] = NoImport
  BY <1>1, Exclusive
<1>3. import \in [Imports -> {NoImport}]
  BY <1>2 DEF IInv, ImportInv
<1>4. Reopens
  BY <1>1, Closes DEF IInv
<1>5. QED
  BY <1>1, <1>2, <1>3, <1>4, Ended

LEMMA Stopped ==
  ASSUME IInv, Stop
  PROVE  IInv'
<1>1. /\ UNCHANGED <<admin, import, folder, said, spent>> /\ server' = Down /\ preview' = {}
      /\ server.state = "up" /\ \A h \in Imports : import[h] = NoImport
      /\ disk' = IF server.store THEN Checkpoint(disk) ELSE disk
  BY DEF Stop, user
<1>2. admin = NoAdmin
  BY <1>1, Exclusive
<1>3. import \in [Imports -> {NoImport}]
  BY <1>1 DEF IInv, ImportInv
<1>4. Reopens \/ UNCHANGED <<disk, folder, said>>
  BY <1>1, Closes DEF IInv, ServerInv
<1>5. QED
  BY <1>1, <1>2, <1>3, <1>4, Ended

LEMMA UpTyped ==
  ASSUME NEW b \in BOOLEAN
  PROVE  LET up == [state |-> "up", store |-> TRUE, workspace |-> b] IN
         up \in Servers /\ up.state = "up" /\ up.store /\ up.workspace = b
BY DEF Servers

LEMMA Opened ==
  ASSUME IInv, Open
  PROVE  IInv'
<1>1. /\ UNCHANGED <<admin, import, preview, folder, said>>
      /\ server.state \in {"opening", "making"} /\ disk.file # None
      /\ ~server.workspace /\ admin = NoAdmin /\ \A h \in Imports : import[h] = NoImport
  BY Exclusive DEF Open, memory, user, IInv, ServerInv
<1>2. PICK b \in BOOLEAN : server' = [state |-> "up", store |-> TRUE, workspace |-> b]
  <2>1. (Content(disk).identity > 0) \in BOOLEAN
    OBVIOUS
  <2>2. QED
    BY <2>1 DEF Open
<1>3. /\ server' \in Servers /\ server'.state = "up" /\ server'.store
      /\ server'.workspace \in BOOLEAN
  BY <1>2, UpTyped
<1>4. \/ UNCHANGED <<disk, spent>>
      \/ /\ disk' = Write([Content(disk) EXCEPT !.identity = spent.made + 1])
         /\ spent' = [spent EXCEPT !.made = @ + 1]
  BY DEF Open
<1>5. UserInv'
  <2>1. spent \in [crashes : Nat, restores : Nat, edits : Nat, applies : Nat,
                   starts : Nat, made : Nat] /\ spent.made + 1 \in Nat
    BY DEF IInv, UserInv
  <2>2. QED
    BY <1>1, <1>4, <2>1 DEF IInv, UserInv
<1>6. Reopens
  <2>1. Content(disk) \in Records /\ Backed(Content(disk), Vouched) /\ DiskOK(disk, Vouched)
    BY <1>1, ContentOK DEF IInv, FilesInv
  <2>2. CASE UNCHANGED disk
    BY <1>1, <2>1, <2>2 DEF Reopens
  <2>3. CASE disk' = Write([Content(disk) EXCEPT !.identity = spent.made + 1])
    <3>1. PICK r \in Records : r = Content(disk)
      BY <2>1
    <3>n. spent.made + 1 \in Nat
      BY DEF IInv, UserInv
    <3>2. PICK named \in Records : named = [r EXCEPT !.identity = spent.made + 1]
      BY <3>n DEF Records
    <3>3. named.imported = Content(disk).imported
      BY <3>1, <3>2 DEF Records
    <3>4. Backed(named, Vouched) /\ disk' = Write(named)
      BY <2>1, <2>3, <3>1, <3>2, <3>3 DEF Backed
    <3>5. QED
      BY <1>1, <2>1, <3>3, <3>4, WriteOK DEF Reopens
  <2>4. QED
    BY <1>4, <2>2, <2>3
<1>7. ServerInv'
  BY <1>1, <1>3, <1>6 DEF IInv, ServerInv, Reopens
<1>8. ImportInv'
  BY <1>1, <1>6, ImportKept DEF IInv, Reopens
<1>9. FilesInv' /\ DurableInv' /\ AdminInv'
  BY <1>1, <1>6, Reopened
<1>10. QED
  BY <1>5, <1>7, <1>8, <1>9 DEF IInv

\* What the computer had in memory is lost; what was done is where it was.
LEMMA Crashed ==
  ASSUME IInv, Crash
  PROVE  IInv'
<1>1. /\ UNCHANGED <<disk, folder, said>> /\ server' = Down /\ admin' = NoAdmin
      /\ preview' = {} /\ import' = [h \in Imports |-> NoImport]
      /\ spent' = [spent EXCEPT !.crashes = @ + 1]
  BY DEF Crash, user, Spend
<1>2. ServerInv'
  BY <1>1, DownTyped DEF IInv, ServerInv
<1>3. ImportInv'
  BY <1>1 DEF ImportInv, ImportOK
<1>4. UserInv'
  <2>1. IsFiniteSet(preview') /\ Cardinality(preview') = 0
    BY <1>1, FS_EmptySet
  <2>2. QED
    BY <1>1, <2>1, ConstantsAssumption DEF IInv, UserInv
<1>5. FilesInv'
  BY <1>1 DEF IInv, FilesInv, Vouched
<1>6. AdminInv'
  BY <1>1 DEF AdminInv, NoAdmin
<1>7. DurableInv'
  BY <1>1, DurableKept DEF IInv
<1>8. QED
  BY <1>2, <1>3, <1>4, <1>5, <1>6, <1>7 DEF IInv

-----------------------------------------------------------------------------
\* The import.  A step of the user, or one that only reads.
LEMMA DiskStays ==
  ASSUME IInv, UNCHANGED <<disk, server, admin>>,
         said'.done = said.done, said.confirmed \subseteq said'.confirmed
  PROVE  FilesInv' /\ ServerInv' /\ AdminInv' /\ DurableInv'
<1>1. Vouched \subseteq Vouched'
  BY DEF Vouched
<1>2. FilesInv'
  BY <1>1, FilesKept DEF IInv, FilesInv
<1>3. ServerInv'
  BY DEF IInv, ServerInv
<1>4. AdminInv'
  BY <1>1, AdminKept DEF IInv
<1>5. DurableInv'
  BY DurableKept DEF IInv
<1>6. QED
  BY <1>2, <1>3, <1>4, <1>5

LEMMA Watched ==
  ASSUME IInv, EditFolder \/ Preview \/ PreviewExpires
  PROVE  IInv'
<1>1. UNCHANGED <<disk, server, admin, import, said>>
  BY DEF EditFolder, Preview, PreviewExpires, memory, user
<1>2. ImportInv'
  BY <1>1, ImportKept DEF IInv
<1>3. UserInv'
  <2>1. UserInv
    BY DEF IInv
  <2>2. CASE EditFolder
    BY <1>1, <2>1, <2>2 DEF EditFolder, Spend, memory, UserInv
  <2>3. CASE Preview
    <3>1. folder \in Sources /\ IsFiniteSet(preview) /\ preview \subseteq Sources
          /\ UNCHANGED <<folder, said, spent>> /\ folder \notin preview
      BY <2>1, <2>3 DEF Preview, user, UserInv
    <3>2. CASE Cardinality(preview) < MaxPreviews /\ preview' = preview \cup {folder}
      <4>1. IsFiniteSet(preview') /\ Cardinality(preview') = Cardinality(preview) + 1
        BY <3>1, <3>2, FS_AddElement
      <4>2. Cardinality(preview) \in Nat
        BY <3>1, FS_CardinalityType
      <4>3. Cardinality(preview') <= MaxPreviews
        BY <3>2, <4>1, <4>2, ConstantsAssumption
      <4>4. QED
        BY <2>1, <3>1, <3>2, <4>1, <4>3 DEF UserInv
    <3>3. CASE preview' = {folder}
      <4>1. IsFiniteSet(preview') /\ Cardinality(preview') = 1
        BY <3>3, FS_Singleton
      <4>2. Cardinality(preview') <= MaxPreviews
        BY <4>1, ConstantsAssumption
      <4>3. QED
        BY <2>1, <3>1, <3>3, <4>1, <4>2 DEF UserInv
    <3>4. QED
      BY <2>3, <3>2, <3>3 DEF Preview
  <2>4. CASE PreviewExpires
    <3>1. PICK s \in preview : preview' = preview \ {s}
      BY <2>4 DEF PreviewExpires
    <3>2. /\ IsFiniteSet(preview') /\ Cardinality(preview') <= Cardinality(preview)
          /\ Cardinality(preview') \in Nat /\ Cardinality(preview) \in Nat
      BY <2>1, <3>1, FS_RemoveElement, FS_CardinalityType, FS_Subset DEF UserInv
    <3>3. Cardinality(preview') <= MaxPreviews
      BY <2>1, <3>2, ConstantsAssumption DEF UserInv
    <3>4. QED
      BY <2>1, <2>4, <3>1, <3>2, <3>3 DEF PreviewExpires, user, UserInv
  <2>5. QED
    BY <2>2, <2>3, <2>4
<1>4. QED
  BY <1>1, <1>2, <1>3, DiskStays DEF IInv

LEMMA Confirmed ==
  ASSUME IInv, NEW h \in Imports, NEW s \in Sources, Apply(h, s)
  PROVE  IInv'
<1>1. /\ UNCHANGED <<disk, server, admin, preview, folder>> /\ server.workspace
      /\ said' = [said EXCEPT !.confirmed = @ \cup {s}]
      /\ spent' = [spent EXCEPT !.applies = @ + 1]
      /\ \/ import' = [import EXCEPT ![h] = [step |-> "read", source |-> s]]
         \/ import' = import
  BY DEF Apply, Spend
<1>2. UserInv' /\ said'.done = said.done /\ said'.confirmed = said.confirmed \cup {s}
  BY <1>1 DEF IInv, UserInv
<1>3. ImportInv'
  <2>1. [step |-> "read", source |-> s] \in
          [step : {"read", "known", "written", "sealed"}, source : Sources]
    OBVIOUS
  <2>2. ImportInv
    BY DEF IInv
  <2>3. ASSUME NEW g \in Imports, import'[g] = import[g]
        PROVE  ImportOK(import[g])'
    BY <1>1, <1>2, <2>2, <2>3 DEF ImportInv, ImportOK
  <2>4. CASE import' = import
    BY <2>2, <2>3, <2>4 DEF ImportInv
  <2>5. CASE import' = [import EXCEPT ![h] = [step |-> "read", source |-> s]]
    <3>1. ImportOK(import[h])'
      BY <1>1, <1>2, <2>1, <2>2, <2>5 DEF ImportInv, ImportOK
    <3>2. ASSUME NEW g \in Imports
          PROVE  ImportOK(import[g])'
      BY <2>2, <2>3, <2>5, <3>1 DEF ImportInv
    <3>3. import' \in [Imports -> {NoImport} \cup
                [step : {"read", "known", "written", "sealed"}, source : Sources]]
      BY <2>1, <2>2, <2>5 DEF ImportInv
    <3>4. QED
      BY <3>2, <3>3 DEF ImportInv
  <2>6. QED
    BY <1>1, <2>4, <2>5
<1>4. QED
  BY <1>1, <1>2, <1>3, DiskStays DEF IInv

\* A step of one import: the server is up and no restore runs.
Rows == [step : {"read", "known", "written", "sealed"}, source : Sources]

LEMMA Importing ==
  ASSUME IInv, NEW h \in Imports, import[h] # NoImport
  PROVE  /\ import[h] \in Rows
         /\ import[h].source \in Sources /\ import[h].source \in said.confirmed
         /\ import[h].step = "sealed" => import[h].source \in Vouched
         /\ server.workspace /\ server.state = "up" /\ admin = NoAdmin /\ disk.file # None
         /\ DiskOK(disk, Vouched)
<1>1. import[h] \in Rows /\ ImportOK(import[h])
  BY DEF IInv, ImportInv, Rows
<1>2. server.workspace
  BY <1>1 DEF ImportOK
<1>3. QED
  BY <1>1, <1>2, Exclusive DEF Rows, ImportOK, Vouched, IInv, FilesInv

LEMMA Advanced ==
  ASSUME IInv, NEW h \in Imports, NEW row, row = NoImport \/ row \in Rows,
         row # NoImport => row.source \in said.confirmed /\ server.workspace,
         row # NoImport /\ row.step = "sealed" => row.source \in disk'.sealed,
         import' = [import EXCEPT ![h] = row],
         disk.sealed \subseteq disk'.sealed, said'.confirmed = said.confirmed,
         server' = server
  PROVE  ImportInv'
<1>1. ImportInv
  BY DEF IInv
<1>2. import' \in [Imports -> {NoImport} \cup Rows]
  BY <1>1 DEF ImportInv, Rows
<1>3. ASSUME NEW g \in Imports
      PROVE  ImportOK(import[g])'
  <2>1. CASE g = h
    BY <1>1, <2>1 DEF ImportInv, ImportOK, Rows
  <2>2. CASE g # h
    BY <1>1, <2>2 DEF ImportInv, ImportOK
  <2>3. QED
    BY <2>1, <2>2
<1>4. QED
  BY <1>2, <1>3 DEF ImportInv, Rows

LEMMA StepsOn ==
  ASSUME NEW row \in Rows, NEW step \in {"read", "known", "written", "sealed"}
  PROVE  /\ [row EXCEPT !.step = step] \in Rows /\ [row EXCEPT !.step = step].step = step
         /\ [row EXCEPT !.step = step].source = row.source
BY DEF Rows

LEMMA NoImportIsFree ==
  NoImport.step = "free" /\ NoImport.source = None
BY DEF NoImport

LEMMA GoesOn ==
  ASSUME IInv, NEW h \in Imports, import[h] # NoImport,
         NEW step \in {"read", "known", "written", "sealed"}, Goes(h, step)
  PROVE  \E row \in Rows : /\ row # NoImport /\ row.step = step
                           /\ row.source = import[h].source
                           /\ import' = [import EXCEPT ![h] = row]
<1>1. import[h] \in Rows
  BY Importing
<1>2. PICK old \in Rows : old = import[h]
  BY <1>1
<1>3. PICK row \in Rows : row = [old EXCEPT !.step = step]
  BY StepsOn
<1>4. row.step = step /\ row.source = old.source
  BY <1>3, StepsOn
<1>5. row # NoImport
  BY <1>4, NoImportIsFree
<1>6. import' = [import EXCEPT ![h] = row]
  BY <1>2, <1>3 DEF Goes, IInv, ImportInv
<1>7. QED
  BY <1>2, <1>4, <1>5, <1>6

LEMMA LookedUp ==
  ASSUME IInv, NEW h \in Imports, LookForManifest(h)
  PROVE  IInv'
<1>1. /\ UNCHANGED <<disk, server, admin, preview, folder, said, spent>>
      /\ import[h].step = "read" /\ (Ends(h) \/ Goes(h, "known"))
  BY DEF LookForManifest, user
<1>2. import[h] # NoImport
  BY <1>1, NoImportIsFree
<1>4. ImportInv'
  <2>1. CASE Ends(h)
    BY <1>1, <2>1, Advanced DEF Ends
  <2>2. CASE Goes(h, "known")
    <3>1. PICK row \in Rows : /\ row # NoImport /\ row.step = "known"
                              /\ row.source = import[h].source
                              /\ import' = [import EXCEPT ![h] = row]
      BY <1>2, <2>2, GoesOn
    <3>2. row.source \in said.confirmed /\ server.workspace
      BY <1>2, <3>1, Importing
    <3>3. QED
      BY <1>1, <3>1, <3>2, Advanced
  <2>3. QED
    BY <1>1, <2>1, <2>2
<1>5. UserInv'
  BY <1>1 DEF IInv, UserInv
<1>6. QED
  BY <1>1, <1>4, <1>5, DiskStays DEF IInv

\* A step of a seal writes only the bytes.
LEMMA Sealing ==
  ASSUME IInv, UNCHANGED <<server, admin, said>>, disk.file # None, disk' \in Disks,
         disk.sealed \subseteq disk'.sealed, disk'.directory = disk.directory,
         disk'.file = disk.file, disk'.log = disk.log, disk'.backup = disk.backup,
         disk'.rollbacks = disk.rollbacks, disk'.staged = disk.staged,
         disk'.displaced = disk.displaced
  PROVE  FilesInv' /\ ServerInv' /\ AdminInv' /\ DurableInv'
<1>1. Vouched \subseteq Vouched'
  BY DEF Vouched
<1>2. FilesInv'
  <2>1. DiskOK(disk', Vouched)
    BY DEF IInv, FilesInv, DiskOK
  <2>2. QED
    BY <1>1, <2>1, FilesKept DEF IInv
<1>3. ServerInv'
  BY DEF IInv, ServerInv
<1>4. AdminInv'
  BY <1>1, AdminKept DEF IInv
<1>5. DurableInv'
  <2>1. Content(disk') = Content(disk)
    BY DEF Content
  <2>2. QED
    BY <2>1, DurableKept DEF IInv
<1>6. QED
  BY <1>2, <1>3, <1>4, <1>5

LEMMA PartWritten ==
  ASSUME IInv, NEW h \in Imports, WritePart(h) \/ PlacePart(h)
  PROVE  IInv'
<1>1. /\ UNCHANGED <<server, admin, preview, folder, said, spent>>
      /\ import[h].step \in {"known", "written"}
      /\ \/ /\ disk' = [disk EXCEPT !.parts = @ \cup {import[h].source}]
            /\ Goes(h, "written")
         \/ /\ disk' = [disk EXCEPT !.parts = @ \ {import[h].source},
                                    !.sealed = @ \cup {import[h].source}]
            /\ Goes(h, "sealed")
  BY DEF WritePart, PlacePart, user
<1>2. import[h] # NoImport
  BY <1>1, NoImportIsFree
<1>3. import[h] \in Rows /\ import[h].source \in Sources /\ disk \in Disks /\ disk.file # None
  BY <1>2, Importing DEF DiskOK
<1>4. /\ disk' \in Disks /\ disk.sealed \subseteq disk'.sealed
      /\ disk'.directory = disk.directory
      /\ disk'.file = disk.file /\ disk'.log = disk.log /\ disk'.backup = disk.backup
      /\ disk'.rollbacks = disk.rollbacks /\ disk'.staged = disk.staged
      /\ disk'.displaced = disk.displaced
  <2>1. \A parts, sealed \in SUBSET Sources :
          LET d == [disk EXCEPT !.parts = parts, !.sealed = sealed] IN
          /\ d \in Disks /\ d.sealed = sealed /\ d.directory = disk.directory
          /\ d.file = disk.file /\ d.log = disk.log /\ d.backup = disk.backup
          /\ d.rollbacks = disk.rollbacks /\ d.staged = disk.staged
          /\ d.displaced = disk.displaced
    BY <1>3 DEF Disks
  <2>2. disk.parts \subseteq Sources /\ disk.sealed \subseteq Sources
    BY <1>3 DEF Disks
  <2>3. PICK parts, sealed \in SUBSET Sources :
          /\ disk' = [disk EXCEPT !.parts = parts, !.sealed = sealed]
          /\ disk.sealed \subseteq sealed
    <3>1. CASE disk' = [disk EXCEPT !.parts = @ \cup {import[h].source}]
      <4>1. disk' = [disk EXCEPT !.parts = disk.parts \cup {import[h].source},
                                 !.sealed = disk.sealed]
        BY <1>3, <3>1 DEF Disks
      <4>2. QED
        BY <1>3, <2>2, <4>1
    <3>2. CASE disk' = [disk EXCEPT !.parts = @ \ {import[h].source},
                                    !.sealed = @ \cup {import[h].source}]
      <4> DEFINE parts == disk.parts \ {import[h].source}
                 sealed == disk.sealed \cup {import[h].source}
      <4>1. parts \in SUBSET Sources /\ sealed \in SUBSET Sources /\ disk.sealed \subseteq sealed
        BY <1>3, <2>2
      <4>2. disk' = [disk EXCEPT !.parts = parts, !.sealed = sealed]
        BY <1>3, <3>2
      <4>3. QED
        BY <4>1, <4>2
    <3>3. QED
      BY <1>1, <3>1, <3>2
  <2>4. QED
    BY <2>1, <2>3, ZenonT(60)
<1>5. FilesInv' /\ ServerInv' /\ AdminInv' /\ DurableInv'
  BY <1>1, <1>3, <1>4, Sealing
<1>6. PICK step \in {"written", "sealed"} :
        Goes(h, step) /\ (step = "sealed" => import[h].source \in disk'.sealed)
  <2>1. CASE disk' = [disk EXCEPT !.parts = @ \cup {import[h].source}] /\ Goes(h, "written")
    BY <2>1
  <2>2. CASE disk' = [disk EXCEPT !.parts = @ \ {import[h].source},
                                  !.sealed = @ \cup {import[h].source}] /\ Goes(h, "sealed")
    <3>1. import[h].source \in disk'.sealed
      BY <1>3, <2>2 DEF Disks
    <3>2. QED
      BY <2>2, <3>1
  <2>3. QED
    BY <1>1, <2>1, <2>2
<1>7. ImportInv'
  <2>1. PICK row \in Rows : /\ row # NoImport /\ row.step = step
                            /\ row.source = import[h].source
                            /\ import' = [import EXCEPT ![h] = row]
    BY <1>2, <1>6, GoesOn
  <2>2. row.source \in said.confirmed /\ server.workspace
    BY <1>2, <2>1, Importing
  <2>3. QED
    BY <1>1, <1>4, <1>6, <2>1, <2>2, Advanced
<1>8. UserInv'
  BY <1>1 DEF IInv, UserInv
<1>9. QED
  BY <1>5, <1>7, <1>8 DEF IInv

\* The commit: its bytes are sealed, so the database that results is vouched for.
LEMMA Committed ==
  ASSUME IInv, NEW h \in Imports, CommitImport(h)
  PROVE  IInv'
<1> DEFINE s == import[h].source
<1>1. /\ UNCHANGED <<server, admin, preview, folder, spent>>
      /\ import[h].step = "sealed" /\ import' = [import EXCEPT ![h] = NoImport]
      /\ disk' = Write(WithImport(Content(disk), s))
      /\ said' = [said EXCEPT !.done = @ \cup {s}]
  BY DEF CommitImport, Ends
<1>2. import[h] # NoImport
  BY <1>1, NoImportIsFree
<1>3. /\ s \in Sources /\ s \in Vouched /\ disk.file # None /\ DiskOK(disk, Vouched)
      /\ server.workspace /\ server.state = "up" /\ admin = NoAdmin
  BY <1>1, <1>2, Importing
<1>4. UserInv' /\ said'.done = said.done \cup {s} /\ said'.confirmed = said.confirmed
  BY <1>1, <1>3 DEF IInv, UserInv
<1>5. Content(disk) \in Records /\ Backed(Content(disk), Vouched)
  BY <1>3, ContentOK
<1>6. PICK r \in Records :
        /\ r = WithImport(Content(disk), s) /\ r.imported[s] > 0
        /\ \A t \in Sources : t # s => r.imported[t] = Content(disk).imported[t]
        /\ \A t \in Sources : Content(disk).imported[t] > 0 => r.imported[t] > 0
  <2>1. PICK old \in Records : old = Content(disk)
    BY <1>5
  <2>2. old.imported \in [Sources -> Nat] /\ old.imported[s] + 1 \in Nat
        /\ old.imported[s] + 1 > 0
    BY <1>3 DEF Records
  <2>3. PICK imported \in [Sources -> Nat] :
          imported = [old.imported EXCEPT ![s] = old.imported[s] + 1]
    BY <2>2
  <2>4. WithImport(old, s) = [old EXCEPT !.imported = imported]
    BY <2>2, <2>3 DEF WithImport, Records
  <2>5. WithImport(old, s) \in Records /\ WithImport(old, s).imported = imported
    BY <2>4 DEF Records
  <2>6. QED
    BY <1>3, <2>1, <2>2, <2>3, <2>5
<1>7. Backed(r, Vouched)
  BY <1>3, <1>5, <1>6 DEF Backed
<1>8. /\ DiskOK(disk', Vouched) /\ Content(disk') = r /\ disk'.file # None
      /\ disk'.directory = disk.directory /\ disk'.rollbacks = disk.rollbacks
      /\ disk'.sealed = disk.sealed
  BY <1>1, <1>3, <1>6, <1>7, WriteOK
<1>9. Vouched' = Vouched
  BY <1>4, <1>8 DEF Vouched
<1>10. FilesInv'
  BY <1>8, <1>9, FilesKept DEF IInv
<1>11. ServerInv'
  BY <1>1, <1>3, <1>8 DEF IInv, ServerInv
<1>12. AdminInv'
  <2>1. Vouched \subseteq Vouched' /\ AdminInv
    BY <1>9 DEF IInv
  <2>2. QED
    BY <1>1, <1>3, <2>1, AdminKept
<1>13. ImportInv'
  BY <1>1, <1>4, <1>8, NoImportIsFree, Advanced
<1>14. DurableInv'
  <2>1. ASSUME NEW t \in said'.done
        PROVE  Survives(t)'
    <3>1. CASE t = s
      BY <1>1, <1>3, <1>6, <1>8, <3>1 DEF Survives
    <3>2. CASE t \in said.done
      <4>1. Survives(t) /\ t \in Sources
        BY <3>2 DEF IInv, DurableInv, UserInv
      <4>2. QED
        BY <1>1, <1>3, <1>6, <1>8, <4>1 DEF Survives
    <3>3. QED
      BY <1>4, <3>1, <3>2
  <2>2. QED
    BY <2>1 DEF DurableInv
<1>15. QED
  BY <1>4, <1>10, <1>11, <1>12, <1>13, <1>14 DEF IInv

-----------------------------------------------------------------------------
\* The administration.  A step of a restore: nothing done depends on the
\* database now, so whatever becomes of that the rollback holds it.
LEMMA Restored ==
  ASSUME IInv, admin # NoAdmin, UNCHANGED <<server, import, preview, folder, said, spent>>,
         disk'.directory = disk.directory, disk'.sealed = disk.sealed,
         disk'.rollbacks = disk.rollbacks, DiskOK(disk', Vouched), AdminInv'
  PROVE  IInv'
<1>1. server.state = "down" /\ ~server.store /\ ~server.workspace /\ disk.directory # "none"
  BY Exclusive DEF IInv, AdminInv
<1>2. ServerInv'
  BY <1>1 DEF IInv, ServerInv
<1>3. ImportInv' /\ UserInv'
  BY ImportKept DEF IInv, UserInv
<1>4. FilesInv'
  <2>1. Vouched' = Vouched
    BY DEF Vouched
  <2>2. QED
    BY <2>1, FilesKept DEF IInv
<1>5. DurableInv'
  BY DurableKept DEF IInv
<1>6. QED
  BY <1>2, <1>3, <1>4, <1>5 DEF IInv

LEMMA NoAdminTyped == NoAdmin.step = "none" /\ NoAdmin.source = None
BY DEF NoAdmin

LEMMA Went ==
  ASSUME IInv, admin # NoAdmin,
         NEW step \in {"kept", "staged", "displaced", "moved", "dropped", "opening"}, Go(step),
         UNCHANGED <<server, said>>, disk'.directory = disk.directory,
         disk'.sealed = disk.sealed,
         step \in {"staged", "displaced"} => disk'.staged \in Records,
         step \in {"moved", "dropped", "opening"} => disk'.file # None
  PROVE  AdminInv'
<1>1. admin \in Restores /\ server.state = "down" /\ disk.directory # "none"
      /\ Backed(admin.source, Vouched)
  BY DEF IInv, AdminInv
<1>2. admin' \in Restores /\ admin'.step = step /\ admin'.source = admin.source
  BY <1>1 DEF Go, Restores
<1>3. Vouched' = Vouched
  BY DEF Vouched
<1>4. Backed(admin'.source, Vouched')
  BY <1>1, <1>2, <1>3
<1>5. QED
  BY <1>1, <1>2, <1>4 DEF AdminInv

LEMMA Exited ==
  ASSUME Exit
  PROVE  AdminInv'
BY NoAdminTyped DEF Exit, AdminInv

\* A file that is made of records, beside what the disk has.
LEMMA FileMade ==
  ASSUME NEW r \in Records, NEW stamp \in Nat, NEW v, Backed(r, v)
  PROVE  \E f \in Databases : f = [records |-> r, stamp |-> stamp] /\ f # None /\ FileOK(f, v)
<1>1. PICK f \in Databases : f = [records |-> r, stamp |-> stamp]
  BY DEF Databases
<1>2. f # None /\ f.records = r
  BY <1>1, NoneAssumption
<1>3. QED
  BY <1>1, <1>2 DEF FileOK

LEMMA BackedUp ==
  ASSUME IInv, Backup
  PROVE  IInv'
<1>1. /\ UNCHANGED <<server, admin, import, preview, folder, said, spent>>
      /\ server.state = "down" /\ admin = NoAdmin /\ disk.file # None
      /\ disk' = [Checkpoint(disk) EXCEPT !.backup = Content(disk)]
  BY DEF Backup, Idle, memory, user
<1>2. DiskOK(disk, Vouched) /\ Content(disk) \in Records /\ Backed(Content(disk), Vouched)
  BY <1>1, ContentOK DEF IInv, FilesInv
<1>3. PICK closed : closed = Checkpoint(disk)
  OBVIOUS
<1>4. /\ DiskOK(closed, Vouched) /\ Content(closed) = Content(disk) /\ closed.file # None
      /\ closed.directory = disk.directory /\ closed.rollbacks = disk.rollbacks
      /\ closed.sealed = disk.sealed
  BY <1>1, <1>2, <1>3, CheckpointOK
<1>5. closed \in Disks /\ disk' = [closed EXCEPT !.backup = Content(disk)]
  BY <1>1, <1>3, <1>4 DEF DiskOK
<1>6. /\ disk' \in Disks /\ disk'.backup = Content(disk) /\ disk'.file = closed.file
      /\ disk'.log = closed.log /\ disk'.staged = closed.staged
      /\ disk'.displaced = closed.displaced /\ disk'.rollbacks = closed.rollbacks
      /\ disk'.sealed = closed.sealed /\ disk'.directory = closed.directory
  BY <1>2, <1>5 DEF Disks
<1>7. Reopens
  <2>1. DiskOK(disk', Vouched)
    BY <1>2, <1>4, <1>6 DEF DiskOK, CopyOK
  <2>2. Content(disk') = Content(closed)
    BY <1>6 DEF Content
  <2>3. QED
    BY <1>1, <1>4, <1>6, <2>1, <2>2 DEF Reopens
<1>8. ServerInv' /\ ImportInv' /\ UserInv'
  BY <1>1, <1>7, ImportKept DEF IInv, Reopens, ServerInv, UserInv
<1>9. QED
  BY <1>1, <1>7, <1>8, Reopened DEF IInv

\* What the database holds is copied to a rollback before anything else.
LEMMA RollbackKept ==
  ASSUME IInv, KeepRollback
  PROVE  IInv'
<1>1. /\ UNCHANGED <<server, import, preview, folder, said>>
      /\ server.state = "down" /\ admin = NoAdmin /\ disk.file # None
      /\ disk' = [disk EXCEPT !.rollbacks = @ \cup {Content(disk)}]
      /\ spent' = [spent EXCEPT !.restores = @ + 1]
  BY DEF KeepRollback, Idle, memory, user, Spend
<1>2. PICK r \in ({disk.backup} \cup disk.rollbacks) \ {None} :
        admin' = [step |-> "kept", source |-> r]
  BY DEF KeepRollback
<1>3. DiskOK(disk, Vouched) /\ Content(disk) \in Records /\ Backed(Content(disk), Vouched)
  BY <1>1, ContentOK DEF IInv, FilesInv
<1>4. r \in Records /\ Backed(r, Vouched)
  BY <1>3, DiskTyped DEF DiskOK
<1>5. /\ disk' \in Disks /\ disk'.rollbacks = disk.rollbacks \cup {Content(disk)}
      /\ disk'.file = disk.file /\ disk'.log = disk.log /\ disk'.backup = disk.backup
      /\ disk'.staged = disk.staged /\ disk'.displaced = disk.displaced
      /\ disk'.sealed = disk.sealed /\ disk'.directory = disk.directory
  <2>1. disk \in Disks
    BY <1>3 DEF DiskOK
  <2>2. QED
    BY <1>1, <1>3, <2>1 DEF Disks
<1>6. Vouched' = Vouched
  BY <1>1, <1>5 DEF Vouched
<1>7. FilesInv'
  <2>1. DiskOK(disk', Vouched)
    BY <1>3, <1>5 DEF DiskOK
  <2>2. QED
    BY <1>6, <2>1, FilesKept DEF IInv
<1>8. AdminInv'
  <2>1. admin' \in Restores /\ admin'.step = "kept" /\ admin'.source = r
    BY <1>2, <1>4 DEF Restores
  <2>2. disk'.directory # "none"
    BY <1>1, <1>5 DEF IInv, ServerInv
  <2>3. Backed(admin'.source, Vouched')
    BY <1>4, <1>6, <2>1
  <2>4. QED
    BY <1>1, <2>1, <2>2, <2>3 DEF AdminInv
<1>9. DurableInv'
  BY <1>1, <1>5, DurableKept DEF IInv
<1>10. ServerInv' /\ ImportInv'
  BY <1>1, <1>5, ImportKept DEF IInv, ServerInv
<1>11. UserInv'
  BY <1>1 DEF IInv, UserInv
<1>12. QED
  BY <1>7, <1>8, <1>9, <1>10, <1>11 DEF IInv

LEMMA Staged ==
  ASSUME IInv, Stage
  PROVE  IInv'
<1>1. /\ UNCHANGED <<server, import, preview, folder, said, spent>>
      /\ admin.step = "kept" /\ Go("staged")
      /\ disk' = [disk EXCEPT !.staged = admin.source]
  BY DEF Stage, At, memory, user
<1>2. admin # NoAdmin
  BY <1>1, NoAdminTyped
<1>3. /\ admin.source \in Records /\ Backed(admin.source, Vouched)
      /\ DiskOK(disk, Vouched) /\ disk \in Disks
  BY <1>2 DEF IInv, AdminInv, Restores, FilesInv, DiskOK
<1>4. /\ disk' \in Disks /\ disk'.staged = admin.source /\ disk'.rollbacks = disk.rollbacks
      /\ disk'.file = disk.file /\ disk'.log = disk.log /\ disk'.backup = disk.backup
      /\ disk'.displaced = disk.displaced
      /\ disk'.sealed = disk.sealed /\ disk'.directory = disk.directory
  BY <1>1, <1>3 DEF Disks
<1>5. DiskOK(disk', Vouched)
  BY <1>3, <1>4 DEF DiskOK, CopyOK
<1>6. AdminInv'
  BY <1>1, <1>2, <1>3, <1>4, Went
<1>7. QED
  BY <1>1, <1>2, <1>4, <1>5, <1>6, Restored

LEMMA Displaced ==
  ASSUME IInv, Displace
  PROVE  IInv'
<1>1. /\ UNCHANGED <<server, import, preview, folder, said, spent>>
      /\ admin.step = "staged" /\ Go("displaced")
      /\ disk' = [disk EXCEPT !.displaced = disk.file, !.file = None]
  BY DEF Displace, At, memory, user
<1>2. admin # NoAdmin
  BY <1>1, NoAdminTyped
<1>3. disk.staged \in Records /\ DiskOK(disk, Vouched) /\ disk \in Disks
  BY <1>1 DEF IInv, AdminInv, FilesInv, DiskOK
<1>4. /\ disk' \in Disks /\ disk'.staged = disk.staged /\ disk'.rollbacks = disk.rollbacks
      /\ disk'.file = None /\ disk'.log = disk.log /\ disk'.backup = disk.backup
      /\ disk'.displaced = disk.file
      /\ disk'.sealed = disk.sealed /\ disk'.directory = disk.directory
  BY <1>1, <1>3 DEF Disks, Files
<1>5. DiskOK(disk', Vouched)
  BY <1>3, <1>4 DEF DiskOK, FileOK
<1>6. AdminInv'
  BY <1>1, <1>2, <1>3, <1>4, Went
<1>7. QED
  BY <1>1, <1>2, <1>4, <1>5, <1>6, Restored

LEMMA MovedIn ==
  ASSUME IInv, MoveIn
  PROVE  IInv'
<1>1. /\ UNCHANGED <<server, import, preview, folder, said, spent>> /\ admin.step = "displaced"
  BY DEF MoveIn, At, memory, user
<1>2. admin # NoAdmin
  BY <1>1, NoAdminTyped
<1>3. /\ disk.staged \in Records /\ disk.staged # None /\ Backed(disk.staged, Vouched)
      /\ DiskOK(disk, Vouched) /\ disk \in Disks /\ spent.restores \in Nat
  BY <1>1, NoneAssumption DEF IInv, AdminInv, FilesInv, DiskOK, CopyOK, UserInv
<1>4. CASE /\ disk' = [disk EXCEPT !.file = [records |-> disk.staged, stamp |-> spent.restores],
                                  !.staged = None]
           /\ Go("moved")
  <2>1. PICK f \in Databases : /\ f = [records |-> disk.staged, stamp |-> spent.restores]
                               /\ f # None /\ FileOK(f, Vouched)
    BY <1>3, FileMade
  <2>2. disk' = [disk EXCEPT !.file = f, !.staged = None]
    BY <1>4, <2>1
  <2>3. /\ disk' \in Disks /\ disk'.staged = None /\ disk'.rollbacks = disk.rollbacks
        /\ disk'.file = f /\ disk'.log = disk.log /\ disk'.backup = disk.backup
        /\ disk'.displaced = disk.displaced
        /\ disk'.sealed = disk.sealed /\ disk'.directory = disk.directory
    BY <1>3, <2>2 DEF Disks, Files
  <2>4. DiskOK(disk', Vouched)
    BY <1>3, <2>1, <2>3 DEF DiskOK, CopyOK
  <2>5. AdminInv'
    BY <1>1, <1>2, <1>4, <2>1, <2>3, Went
  <2>6. QED
    BY <1>1, <1>2, <2>3, <2>4, <2>5, Restored
<1>5. CASE /\ disk' = [disk EXCEPT !.file = disk.displaced, !.displaced = None, !.staged = None]
           /\ Exit
  <2>1. /\ disk' \in Disks /\ disk'.staged = None /\ disk'.rollbacks = disk.rollbacks
        /\ disk'.file = disk.displaced /\ disk'.log = disk.log /\ disk'.backup = disk.backup
        /\ disk'.displaced = None
        /\ disk'.sealed = disk.sealed /\ disk'.directory = disk.directory
    BY <1>3, <1>5 DEF Disks, Files
  <2>2. DiskOK(disk', Vouched)
    BY <1>3, <2>1 DEF DiskOK, CopyOK, FileOK
  <2>3. QED
    BY <1>1, <1>2, <1>5, <2>1, <2>2, Exited, Restored
<1>6. CASE disk' = [disk EXCEPT !.staged = None] /\ Exit
  <2>1. /\ disk' \in Disks /\ disk'.staged = None /\ disk'.rollbacks = disk.rollbacks
        /\ disk'.file = disk.file /\ disk'.log = disk.log /\ disk'.backup = disk.backup
        /\ disk'.displaced = disk.displaced
        /\ disk'.sealed = disk.sealed /\ disk'.directory = disk.directory
    BY <1>3, <1>6 DEF Disks
  <2>2. DiskOK(disk', Vouched)
    BY <1>3, <2>1 DEF DiskOK, CopyOK
  <2>3. QED
    BY <1>1, <1>2, <1>6, <2>1, <2>2, Exited, Restored
<1>7. QED
  BY <1>4, <1>5, <1>6 DEF MoveIn

LEMMA Dropped ==
  ASSUME IInv, DropDisplaced \/ DropLog
  PROVE  IInv'
<1>1. /\ UNCHANGED <<server, import, preview, folder, said, spent>>
      /\ admin.step \in {"moved", "dropped"} /\ (Go("dropped") \/ Go("opening"))
      /\ \/ disk' = [disk EXCEPT !.displaced = None]
         \/ disk' = [disk EXCEPT !.log = None]
  BY DEF DropDisplaced, DropLog, At, memory, user
<1>2. admin # NoAdmin
  BY <1>1, NoAdminTyped
<1>3. disk.file # None /\ DiskOK(disk, Vouched) /\ disk \in Disks
  BY <1>1 DEF IInv, AdminInv, FilesInv, DiskOK
<1>4. /\ disk' \in Disks /\ disk'.staged = disk.staged /\ disk'.rollbacks = disk.rollbacks
      /\ disk'.file = disk.file /\ disk'.log \in {disk.log, None}
      /\ disk'.backup = disk.backup /\ disk'.displaced \in {disk.displaced, None}
      /\ disk'.sealed = disk.sealed /\ disk'.directory = disk.directory
  BY <1>1, <1>3 DEF Disks, Files
<1>5. DiskOK(disk', Vouched)
  BY <1>3, <1>4 DEF DiskOK, FileOK
<1>6. AdminInv'
  BY <1>1, <1>2, <1>3, <1>4, Went
<1>7. QED
  BY <1>1, <1>2, <1>4, <1>5, <1>6, Restored

LEMMA RestoreEnded ==
  ASSUME IInv, MigrateRestored \/ RestoreEnds
  PROVE  IInv'
<1>1. /\ UNCHANGED <<server, import, preview, folder, said, spent>> /\ admin.step = "opening"
  BY DEF MigrateRestored, RestoreEnds, At, memory, user
<1>2. admin # NoAdmin
  BY <1>1, NoAdminTyped
<1>3. disk.file # None /\ DiskOK(disk, Vouched)
  BY <1>1 DEF IInv, AdminInv, FilesInv
<1>4. CASE MigrateRestored
  <2>1. /\ admin' = admin /\ Migratable(Content(disk))
        /\ disk' = Write(Migrate(Content(disk)))
    BY <1>4 DEF MigrateRestored
  <2>2. Reopens /\ disk'.staged = disk.staged
    BY <1>1, <1>3, <2>1, Migrates DEF IInv
  <2>3. AdminInv'
    <3>1. AdminInv /\ Vouched' = Vouched
      BY <2>2 DEF IInv, Reopens, Vouched
    <3>2. Vouched \subseteq Vouched'
      BY <3>1
    <3>3. QED
      BY <1>1, <2>1, <2>2, <3>1, <3>2, AdminKept DEF Reopens
  <2>4. QED
    BY <1>1, <1>2, <2>2, <2>3, Restored DEF Reopens
<1>5. CASE RestoreEnds
  <2>1. disk' = Checkpoint(disk) /\ Exit
    BY <1>5 DEF RestoreEnds
  <2>2. /\ DiskOK(disk', Vouched) /\ disk'.directory = disk.directory
        /\ disk'.rollbacks = disk.rollbacks /\ disk'.sealed = disk.sealed
    BY <1>3, <2>1, CheckpointOK
  <2>3. QED
    BY <1>1, <1>2, <2>1, <2>2, Exited, Restored
<1>6. QED
  BY <1>4, <1>5

-----------------------------------------------------------------------------
LEMMA NewDiskOK ==
  /\ DiskOK(NewDisk, {}) /\ NewDisk.directory = "none" /\ NewDisk.file = None
  /\ NewDisk.sealed = {}
<1>1. NewDisk \in Disks
  BY DEF NewDisk, Disks, Files
<1>2. QED
  BY <1>1 DEF NewDisk, DiskOK, FileOK, CopyOK

LEMMA OlderOK ==
  ASSUME NEW l \in BOOLEAN
  PROVE  Older(l) \in Records /\ Older(l) # None /\ Backed(Older(l), {})
<1>1. Latest - 1 \in 0..Latest
  BY ConstantsAssumption
<1>2. Empty \in Records /\ Empty.imported = [s \in Sources |-> 0]
  BY ConstantsAssumption DEF Empty, Records
<1>3. PICK e \in Records : e = Empty
  BY <1>2
<1>4. PICK r \in Records : r = [e EXCEPT !.version = Latest - 1, !.identity = 1]
  BY <1>1 DEF Records
<1>5. r.imported = [s \in Sources |-> 0]
  BY <1>2, <1>3, <1>4 DEF Records
<1>6. [r EXCEPT !.legacy = l] \in Records /\ [r EXCEPT !.legacy = l].imported = r.imported
  BY DEF Records
<1>7. Older(l) = [r EXCEPT !.legacy = l]
  BY <1>3, <1>4 DEF Older, Records
<1>8. QED
  BY <1>5, <1>6, <1>7, NoneAssumption DEF Backed

LEMMA Begun ==
  ASSUME Init
  PROVE  IInv
<1>1. /\ server = Down /\ admin = NoAdmin /\ import = [h \in Imports |-> NoImport]
      /\ preview = {} /\ folder \in Sources /\ said = [confirmed |-> {}, done |-> {}]
  BY DEF Init
<1>2. /\ DiskOK(disk, {})
      /\ disk.directory = "none" => disk.file = None
  <2>1. CASE disk = NewDisk
    BY <2>1, NewDiskOK
  <2>2. CASE disk # NewDisk
    <3>1. PICK l, k \in BOOLEAN :
            disk = [NewDisk EXCEPT !.directory = "whole",
                                   !.file = [records |-> Older(l), stamp |-> 0],
                                   !.backup = Older(k)]
      BY <2>2 DEF Init
    <3>2. PICK old, kept : old = Older(l) /\ kept = Older(k)
      OBVIOUS
    <3>3. /\ old \in Records /\ Backed(old, {})
          /\ kept \in Records /\ kept # None /\ Backed(kept, {})
      BY <3>2, OlderOK
    <3>4. PICK f \in Databases : /\ f = [records |-> old, stamp |-> 0] /\ FileOK(f, {})
      BY <3>3, FileMade
    <3>5. disk = [NewDisk EXCEPT !.directory = "whole", !.file = f, !.backup = kept]
      BY <3>1, <3>2, <3>4
    <3>6. /\ disk \in Disks /\ disk.staged = NewDisk.staged
          /\ disk.rollbacks = NewDisk.rollbacks /\ disk.file = f /\ disk.log = NewDisk.log
          /\ disk.backup = kept /\ disk.displaced = NewDisk.displaced
          /\ disk.directory = "whole"
      <4>1. NewDisk \in Disks
        BY NewDiskOK DEF DiskOK
      <4>2. QED
        BY <3>3, <3>5, <4>1 DEF Disks, Files
    <3>7. DiskOK(disk, {})
      BY <3>3, <3>4, <3>6, NewDiskOK DEF DiskOK, CopyOK
    <3>8. QED
      BY <3>6, <3>7
  <2>3. QED
    BY <2>1, <2>2
<1>3. said.done = {} /\ said.confirmed = {} /\ Vouched = {}
  BY <1>1 DEF Vouched
<1>4. FilesInv
  BY <1>2, <1>3 DEF FilesInv
<1>5. ServerInv
  BY <1>1, <1>2, <1>3, DownTyped DEF ServerInv
<1>6. AdminInv
  BY <1>1, NoAdminTyped DEF AdminInv
<1>7. ImportInv
  BY <1>1 DEF ImportInv, ImportOK
<1>8. UserInv
  <2>1. IsFiniteSet(preview) /\ Cardinality(preview) <= MaxPreviews
    BY <1>1, FS_EmptySet, ConstantsAssumption
  <2>2. PICK made \in Nat : spent = [crashes |-> 0, restores |-> 0, edits |-> 0, applies |-> 0,
                                     starts |-> 0, made |-> made]
    BY DEF Init
  <2>3. QED
    BY <1>1, <2>1, <2>2 DEF UserInv
<1>9. DurableInv
  BY <1>3 DEF DurableInv
<1>10. QED
  BY <1>4, <1>5, <1>6, <1>7, <1>8, <1>9 DEF IInv

LEMMA Preserved ==
  ASSUME IInv, [Next]_vars
  PROVE  IInv'
<1>1. CASE ServerStep
  BY <1>1, Started, Creating, Migrated, FailedToOpen, Opened, Stopped, Crashed DEF ServerStep
<1>2. CASE ImportStep
  BY <1>2, Watched, Confirmed, LookedUp, PartWritten, Committed DEF ImportStep
<1>3. CASE AdminStep
  BY <1>3, BackedUp, RollbackKept, Staged, Displaced, MovedIn, Dropped, RestoreEnded
  DEF AdminStep
<1>4. CASE UNCHANGED vars
  <2>1. UNCHANGED <<disk, server, admin, import, preview, folder, said, spent>>
    BY <1>4 DEF vars
  <2>2. ImportInv' /\ UserInv'
    BY <2>1, ImportKept DEF IInv, UserInv
  <2>3. QED
    BY <2>1, <2>2, DiskStays DEF IInv
<1>5. QED
  BY <1>1, <1>2, <1>3, <1>4 DEF Next

\* The inductive invariant: whatever is on the disk is vouched for, a process
\* works on files that are there, and what is done survives.
THEOREM Invariant == Spec => []IInv
<1>1. Init => IInv
  BY Begun
<1>2. IInv /\ [Next]_vars => IInv'
  BY Preserved
<1>3. QED
  BY <1>1, <1>2, PTL DEF Spec

\* The files are files, a workspace that is entered has its database, an import
\* needs one, and the previews kept are never more than their limit.
THEOREM TypeCorrect == Spec => []TypeOK
<1>1. IInv => TypeOK
  <2> SUFFICES ASSUME IInv
               PROVE  TypeOK
    OBVIOUS
  <2>1. disk \in Disks
    BY DEF IInv, FilesInv, DiskOK
  <2>2. /\ server.state \in {"down", "opening", "creating", "making", "up"}
        /\ server.workspace => server.store /\ disk.file # None
    BY DEF IInv, ServerInv, Servers
  <2>3. \A h \in Imports : import[h] # NoImport => server.workspace
    BY DEF IInv, ImportInv, ImportOK
  <2>4. QED
    BY <2>1, <2>2, <2>3 DEF IInv, UserInv, TypeOK
<1>2. QED
  BY <1>1, Invariant, PTL

\* What is kept anywhere on the disk names only what is vouched for.
LEMMA KeptIsBacked ==
  ASSUME IInv, NEW r \in Kept, NEW s \in Sources, r.imported[s] > 0
  PROVE  s \in Vouched
<1>1. DiskOK(disk, Vouched)
  BY DEF IInv, FilesInv
<1>2. Backed(r, Vouched)
  BY <1>1 DEF Kept, DiskOK, FileOK, CopyOK
<1>3. QED
  BY <1>2 DEF Backed

\* Every artifact that the database, its log, a backup, a rollback, a staged
\* copy or a displaced file names has its bytes under their digest, whenever
\* the computer stopped and whatever was restored: the bytes are placed before
\* the commit that names them, and nothing ever removes them.
THEOREM NothingNamedIsMissing == Spec => []RecordsHaveTheirBytes
<1>1. IInv => RecordsHaveTheirBytes
  BY KeptIsBacked DEF RecordsHaveTheirBytes, Vouched
<1>2. QED
  BY <1>1, Invariant, PTL

\* What any of them holds of an import is what a preview had shown and the user
\* confirmed, although the directory may change between the two.
THEOREM ReviewedIsImported == Spec => []ImportIsWhatWasReviewed
<1>1. IInv => ImportIsWhatWasReviewed
  BY KeptIsBacked DEF ImportIsWhatWasReviewed, Vouched
<1>2. QED
  BY <1>1, Invariant, PTL

\* An import that was answered as done is on the disk for ever, across crashes,
\* failed migrations and restores that stop half way.
THEOREM DoneIsDurable == Spec => []ImportsAreDurable
<1>1. IInv => ImportsAreDurable
  <2> SUFFICES ASSUME IInv, NEW s \in said.done
               PROVE  \E r \in Kept : r.imported[s] > 0
    BY DEF ImportsAreDurable
  <2>1. Survives(s) /\ DiskOK(disk, Vouched)
    BY DEF IInv, DurableInv, FilesInv
  <2>2. CASE \E r \in disk.rollbacks : r.imported[s] > 0
    <3>1. disk.rollbacks \subseteq Kept
      BY <2>1, DiskTyped, NoneAssumption DEF Kept
    <3>2. QED
      BY <2>2, <3>1
  <2>3. CASE disk.file # None /\ Content(disk).imported[s] > 0
    <3>1. PICK f \in {disk.file, disk.log} : f # None /\ Content(disk).imported = f.records.imported
      <4>1. CASE disk.log = None \/ disk.log.stamp = disk.file.stamp
        BY <2>3, <4>1 DEF Content
      <4>2. CASE disk.log # None /\ disk.log.stamp # disk.file.stamp
        <5>1. disk.log.records \in Records
          BY <2>1, <4>2, DiskTyped
        <5>2. Content(disk).imported = disk.log.records.imported
          BY <4>2, <5>1 DEF Content, Records
        <5>3. QED
          BY <4>2, <5>2
      <4>3. QED
        BY <4>1, <4>2
    <3>2. f.records \in Records
      BY <2>1, <3>1, DiskTyped
    <3>3. f.records \in Kept
      BY <3>1, <3>2, NoneAssumption DEF Kept
    <3>4. QED
      BY <2>3, <3>1, <3>3
  <2>4. QED
    BY <2>1, <2>2, <2>3 DEF Survives
<1>2. QED
  BY <1>1, Invariant, PTL

=============================================================================
