------------------------- MODULE StorageMaintenance -------------------------
(* The files of versions under their directories: uploads and restored       *)
(* versions write them before the database knows the version, storage:gc    *)
(* removes directories nobody refers to, ops:backup copies database and     *)
(* files while all of them go on, and ops:restore puts a copy back.         *)
EXTENDS Integers, FiniteSets

CONSTANTS
  Original,     \* the version that is registered when the behaviour begins
  Ingested,     \* versions written by an upload, under a lease
  Restored,     \* versions copied from a registered one, under no lease
  Parts,        \* the files of a version
  Lease,        \* how long an upload may take, in ticks
  Retention,    \* ORPHAN_RETENTION_MS, in ticks
  MaxTime       \* bound: ticks of the clock

ASSUME StorageAssumption ==
  /\ Ingested \cap Restored = {} /\ Original \notin Ingested \cup Restored
  /\ Parts # {} /\ MaxTime \in Nat
  /\ {Lease, Retention} \subseteq Nat \ {0}

VARIABLES
  now,
  state,      \* of each version: who writes it, or whether it is in the database
  begun,      \* when its writer began, until it is forgotten
  put,        \* the files its writer has stored, while it writes
  directory,  \* its directory: the files in it and when it last changed
  gc,         \* storage:gc
  backup,     \* the latest backup
  restore     \* ops:restore

storageVars == <<now, state, begun, put, directory, gc, backup, restore>>

Versions == {Original} \cup Ingested \cup Restored

Absent == [there |-> FALSE]
Directories == {Absent} \cup [there : {TRUE}, files : SUBSET Parts, touched : 0 .. MaxTime]
NoBackup == [place |-> "none"]

StorageTypeOK ==
  /\ now \in 0 .. MaxTime
  /\ state \in [Versions -> {"unborn", "writing", "registered", "failed", "lost"}]
  /\ begun \in [Versions -> 0 .. MaxTime]
  /\ put \in [Versions -> SUBSET Parts]
  /\ directory \in [Versions -> Directories]
  /\ gc.place \in {"idle", "planned", "read", "removing"}
  /\ backup.place \in {"none", "dumped", "hashed", "packed", "done", "verified"}
  /\ restore \in {"no", "database", "wiped", "unpacked", "refused"}

IdleGc == [place |-> "idle"]

StorageInit ==
  /\ now = 0
  /\ state = [v \in Versions |-> IF v = Original THEN "registered" ELSE "unborn"]
  /\ begun = [v \in Versions |-> 0]
  /\ put = [v \in Versions |-> {}]
  /\ directory = [v \in Versions |->
       IF v = Original THEN [there |-> TRUE, files |-> Parts, touched |-> 0] ELSE Absent]
  /\ gc = IdleGc /\ backup = NoBackup /\ restore = "no"

Registered == {v \in Versions : state[v] = "registered"}
Files(v) == IF directory[v].there THEN directory[v].files ELSE {}
Holding(files) == [there |-> TRUE, files |-> files, touched |-> now]

------------------------------------------------------------------------------
(* Writers. storage:gc holds the maintenance lock from its plan to its end. *)

Maintenance == gc.place # "idle"

LeaseHeld(v) == now < begun[v] + Lease

\* Mutant: what is kept is the end of the lease, not its beginning.
BeginUntil(v) ==
  /\ state[v] = "unborn" /\ restore = "no"
  /\ v \in Ingested => ~Maintenance
  /\ state' = [state EXCEPT ![v] = "writing"]
  /\ begun' = [begun EXCEPT ![v] = now + Lease]
  /\ UNCHANGED <<now, put, directory, gc, backup, restore>>

\* reserve; restoreVersion reads its source and takes neither lock nor lease.
Begin(v) ==
  /\ state[v] = "unborn" /\ restore = "no"
  /\ v \in Ingested => ~Maintenance
  /\ state' = [state EXCEPT ![v] = "writing"]
  /\ begun' = [begun EXCEPT ![v] = now]
  /\ UNCHANGED <<now, put, directory, gc, backup, restore>>

\* putImmutable makes the directory if it is missing. A copy reads its source first.
Put(v, p) ==
  /\ state[v] = "writing" /\ p \notin put[v]
  /\ v \in Restored => \E s \in Registered : p \in Files(s)
  /\ directory' = [directory EXCEPT ![v] = Holding(Files(v) \cup {p})]
  /\ put' = [put EXCEPT ![v] = @ \cup {p}]
  /\ UNCHANGED <<now, state, begun, gc, backup, restore>>

\* complete, or rollback_version: the row is written once everything is stored.
Register(v) ==
  /\ state[v] = "writing" /\ put[v] = Parts
  /\ v \in Ingested => ~Maintenance /\ LeaseHeld(v)
  /\ state' = [state EXCEPT ![v] = "registered"]
  /\ begun' = [begun EXCEPT ![v] = 0] /\ put' = [put EXCEPT ![v] = {}]
  /\ UNCHANGED <<now, directory, gc, backup, restore>>

\* The writer fails or its process dies, perhaps in the middle of a file. A receipt
\* that was not marked failed stays in processing until its lease is over.
GiveUp(v) ==
  /\ state[v] = "writing"
  /\ \/ state' = [state EXCEPT ![v] = "failed"] /\ begun' = [begun EXCEPT ![v] = 0]
     \/ state' = [state EXCEPT ![v] = "lost"] /\ v \in Ingested /\ UNCHANGED begun
  /\ put' = [put EXCEPT ![v] = {}]
  /\ \/ UNCHANGED directory
     \/ directory' = [directory EXCEPT ![v] = Holding(Files(v))]
  /\ UNCHANGED <<now, gc, backup, restore>>

------------------------------------------------------------------------------
(* storage:gc --apply *)

\* readStorageReferences
References ==
  Registered \cup {v \in Ingested : state[v] \in {"writing", "lost"} /\ LeaseHeld(v)}

\* Mutant: a directory counts as an orphan at once.
EverOld(v) == directory[v].there

Old(v) == directory[v].there /\ now - directory[v].touched >= Retention

PlanOrphanCleanup ==
  LET orphans == {v \in Versions \ References : Old(v)} IN
  /\ gc.place = "idle" /\ restore # "database"
  /\ orphans # {}
  /\ gc' = [place |-> "planned", plan |-> [v \in orphans |-> directory[v]]]
  /\ UNCHANGED <<now, state, begun, put, directory, backup, restore>>

\* The references are read anew for every removal ...
ReadReferences(v) ==
  /\ gc.place = "planned" /\ v \in DOMAIN gc.plan
  /\ gc' = [place |-> "read", plan |-> gc.plan, candidate |-> v, refs |-> References]
  /\ UNCHANGED <<now, state, begun, put, directory, backup, restore>>

Rest(v) == [place |-> "planned", plan |-> [w \in DOMAIN gc.plan \ {v} |-> gc.plan[w]]]

\* ... and the directory must still be as it was planned.
Inspect ==
  /\ gc.place = "read"
  /\ LET v == gc.candidate IN
     gc' = IF v \notin gc.refs /\ directory[v] = gc.plan[v] /\ Old(v)
           THEN [place |-> "removing", plan |-> gc.plan, candidate |-> v, todo |-> Files(v)]
           ELSE Rest(v)
  /\ UNCHANGED <<now, state, begun, put, directory, backup, restore>>

Unlink(p) ==
  /\ gc.place = "removing" /\ p \in gc.todo \cap Files(gc.candidate)
  /\ directory' = [directory EXCEPT ![gc.candidate] = Holding(Files(gc.candidate) \ {p})]
  /\ gc' = [gc EXCEPT !.todo = @ \ {p}]
  /\ UNCHANGED <<now, state, begun, put, backup, restore>>

RemoveDirectory ==
  /\ gc.place = "removing" /\ gc.todo = {} /\ Files(gc.candidate) = {}
  /\ directory' = [directory EXCEPT ![gc.candidate] = Absent]
  /\ gc' = Rest(gc.candidate)
  /\ UNCHANGED <<now, state, begun, put, backup, restore>>

\* It is done, stopped, or finds what it did not expect. The lock goes with the session.
EndGc ==
  /\ gc.place # "idle" /\ gc' = IdleGc
  /\ UNCHANGED <<now, state, begun, put, directory, backup, restore>>

------------------------------------------------------------------------------
(* ops:backup, ops:verify-backup and ops:restore take no lock at all. Writing *)
(* the hashes and the archive is one step each: what a step could see of a    *)
(* directory that changes under it, it could see before or after it.          *)

Dump ==
  /\ backup.place = "none" /\ restore = "no"
  /\ backup' = [place |-> "dumped", versions |-> Registered]
  /\ UNCHANGED <<now, state, begun, put, directory, gc, restore>>

Hash ==
  /\ backup.place = "dumped" /\ restore = "no"
  /\ backup' = [place |-> "hashed", versions |-> backup.versions,
                hashes |-> [v \in Versions |-> Files(v)]]
  /\ UNCHANGED <<now, state, begun, put, directory, gc, restore>>

Pack ==
  /\ backup.place = "hashed" /\ restore = "no"
  /\ backup' = [place |-> "packed", versions |-> backup.versions, hashes |-> backup.hashes,
                archive |-> [v \in Versions |-> Files(v)]]
  /\ UNCHANGED <<now, state, begun, put, directory, gc, restore>>

Manifest(place, versions, counted) ==
  [place |-> place, versions |-> versions, hashes |-> backup.hashes,
   archive |-> backup.archive, counted |-> counted]

\* Mutant: the dump is taken last.
CountAndDump ==
  /\ backup.place = "packed" /\ restore = "no"
  /\ backup' = Manifest("done", Registered, Registered)
  /\ UNCHANGED <<now, state, begun, put, directory, gc, restore>>

Count ==
  /\ backup.place = "packed" /\ restore = "no"
  /\ backup' = Manifest("done", backup.versions, Registered)
  /\ UNCHANGED <<now, state, begun, put, directory, gc, restore>>

\* What both the drill and the restore compare.
Agrees ==
  /\ backup.counted = backup.versions
  /\ \A v \in Versions : backup.hashes[v] \subseteq backup.archive[v]

VerifyBackup ==
  /\ backup.place = "done" /\ Agrees
  /\ backup' = Manifest("verified", backup.versions, backup.counted)
  /\ UNCHANGED <<now, state, begun, put, directory, gc, restore>>

\* It fails, or the operator throws it away.
Discard ==
  /\ backup.place # "none" /\ restore = "no"
  /\ backup' = NoBackup
  /\ UNCHANGED <<now, state, begun, put, directory, gc, restore>>

\* The application is down, and what it was writing is lost. An interrupted restore
\* begins again.
RestoreDatabase ==
  /\ backup.place \in {"done", "verified"}
  /\ \A v \in Versions : state[v] # "writing"
  /\ state' = [v \in Versions |-> IF v \in backup.versions THEN "registered"
                                  ELSE IF state[v] = "registered" THEN "failed" ELSE state[v]]
  /\ restore' = "database"
  /\ UNCHANGED <<now, begun, put, directory, gc, backup>>

\* A cleanup at work finds no inode as it planned it from here on: it removes nothing
\* more, and might as well have ended.
RestoreWipes ==
  /\ restore = "database" /\ restore' = "wiped"
  /\ directory' = [v \in Versions |-> Absent]
  /\ gc' = IdleGc
  /\ UNCHANGED <<now, state, begun, put, backup>>

RestoreUnpacks ==
  /\ restore = "wiped" /\ restore' = "unpacked"
  /\ directory' = [v \in Versions |-> IF backup.archive[v] = {} THEN Absent
                                      ELSE Holding(backup.archive[v])]
  /\ UNCHANGED <<now, state, begun, put, gc, backup>>

RestoreCompares ==
  /\ restore = "unpacked"
  /\ restore' = IF /\ backup.counted = Registered
                   /\ \A v \in Versions : backup.hashes[v] \subseteq Files(v)
                THEN "no" ELSE "refused"
  /\ UNCHANGED <<now, state, begun, put, directory, gc, backup>>

\* The operator puts up with the difference and starts the application.
StartAnyway ==
  /\ restore = "refused" /\ restore' = "no"
  /\ UNCHANGED <<now, state, begun, put, directory, gc, backup>>

------------------------------------------------------------------------------

\* A restored version is copied within a request, which a server does not keep open
\* for the 24 hours of Retention, and a restore compares what it has just unpacked.
\* Nothing is assumed of the duration of an upload.
Tick ==
  /\ now < MaxTime /\ now' = now + 1 /\ restore # "unpacked"
  /\ \A v \in Restored : state[v] = "writing" => now' - begun[v] < Retention
  /\ UNCHANGED <<state, begun, put, directory, gc, backup, restore>>

WriterStep(v) == Begin(v) \/ (\E p \in Parts : Put(v, p)) \/ Register(v) \/ GiveUp(v)

GcStep == \/ PlanOrphanCleanup \/ (\E v \in Versions : ReadReferences(v))
          \/ Inspect \/ (\E p \in Parts : Unlink(p)) \/ RemoveDirectory \/ EndGc

BackupStep == Dump \/ Hash \/ Pack \/ Count \/ VerifyBackup \/ Discard

RestoreStep == \/ RestoreDatabase \/ RestoreWipes \/ RestoreUnpacks
               \/ RestoreCompares \/ StartAnyway

StorageNext == (\E v \in Versions : WriterStep(v)) \/ GcStep \/ BackupStep \/ RestoreStep \/ Tick

StorageSpec == StorageInit /\ [][StorageNext]_storageVars

------------------------------------------------------------------------------

\* Every version the database knows has all its files, whatever the cleanup removes
\* next to slow uploads, copies and restores (orphan-cleanup.ts:194-245), unless a
\* restore is between the database and the files.
RegisteredIsStored ==
  restore \in {"no", "refused", "unpacked"} => \A v \in Registered : Files(v) = Parts

\* A backup restores. Made while uploads and the cleanup go on, it holds the files of
\* every version in its dump, because they are packed after the dump (ops.ts:103-150);
\* and one that has passed the drill is never refused by the restore that destroys what
\* was there (ops.ts:262-303, 316-443).
BackupsRestore ==
  /\ backup.place \in {"packed", "done", "verified"} =>
       \A v \in backup.versions : backup.archive[v] = Parts
  /\ restore = "refused" => backup.place # "verified"
==============================================================================
