----------------------------- MODULE StorageProofs -----------------------------
(* Why every version in the database keeps its files, and why a backup         *)
(* restores. What the cleanup plans to remove can never be registered again:   *)
(* its writer has failed or has lost its lease, and a copy that is at work is  *)
(* younger than anything the cleanup plans. A restore leaves in the database   *)
(* what the dump holds, and in the files what was packed.                      *)
EXTENDS StorageMaintenance, TLAPS

Plans == UNION {[S -> Directories] : S \in SUBSET Versions}

GcStates ==
  {IdleGc} \cup [place : {"planned"}, plan : Plans]
    \cup [place : {"read"}, plan : Plans, candidate : Versions, refs : SUBSET Versions]
    \cup [place : {"removing"}, plan : Plans, candidate : Versions, todo : SUBSET Parts]

\* What is known of a version by who writes it. What it has put is there while its writer
\* may still register it; a copy is younger than the retention, and its directory than it.
WriterIsSound(v) ==
  /\ state[v] = "unborn" => directory[v] = Absent
  /\ state[v] # "writing" => put[v] = {}
  /\ state[v] = "writing" =>
       /\ restore = "no" /\ v # Original
       /\ v \in Restored \/ LeaseHeld(v) => put[v] \subseteq Files(v)
       /\ v \in Restored => /\ begun[v] <= now /\ now - begun[v] < Retention
                            /\ directory[v].there => begun[v] <= directory[v].touched
  /\ v = Original => state[v] \in {"registered", "failed"}
  /\ state[v] = "lost" => v \in Ingested

WritersAreSound == \A v \in Versions : WriterIsSound(v)

\* What is planned to be removed will never be registered.
PlanIsSound == gc.place # "idle" => \A v \in DOMAIN gc.plan :
  \/ state[v] = "failed"
  \/ v \in Ingested /\ state[v] \in {"writing", "lost"} /\ ~LeaseHeld(v)

CandidateIsPlanned == gc.place \in {"read", "removing"} => gc.candidate \in DOMAIN gc.plan

Packed == backup.place \in {"packed", "done", "verified"}

\* The dump of a backup holds registered versions, its archive all their files, and
\* nothing of versions that are yet to be written.
BackupIsSound ==
  /\ backup.place # "none" => backup.versions \subseteq Registered
  /\ Packed => /\ \A v \in backup.versions : backup.archive[v] = Parts
               /\ \A v \in Versions : backup.archive[v] \subseteq Parts
               /\ \A v \in Versions : state[v] = "unborn" => backup.archive[v] = {}
  /\ backup.place = "verified" => Agrees

\* During a restore the database holds what was dumped, and once it has unpacked the files
\* are those of the archive, which the cleanup finds too young to plan anything.
RestoreIsSound ==
  /\ restore # "no" => /\ backup.place \in {"done", "verified"}
                       /\ Registered = backup.versions
  /\ restore \in {"wiped", "unpacked"} => gc.place = "idle"
  /\ restore = "wiped" => \A v \in Versions : directory[v] = Absent
  /\ restore = "unpacked" => \A v \in Versions :
       directory[v] = IF backup.archive[v] = {} THEN Absent ELSE Holding(backup.archive[v])
  /\ restore = "refused" => ~Agrees

StorageInv == /\ StorageTypeOK /\ gc \in GcStates /\ CandidateIsPlanned
              /\ WritersAreSound /\ PlanIsSound /\ BackupIsSound /\ RestoreIsSound
              /\ RegisteredIsStored

------------------------------------------------------------------------------
(* Types, and the first state. *)

\* What is assumed of the constants.
LEMMA StorageConstants ==
  /\ Lease \in Nat /\ Lease >= 1 /\ Retention \in Nat /\ Retention >= 1 /\ MaxTime \in Nat
  /\ Parts # {} /\ Ingested \cap Restored = {} /\ Original \notin Ingested \cup Restored
BY StorageAssumption

\* A directory, and the files in it.
LEMMA DirectoryFields ==
  ASSUME StorageTypeOK, NEW v \in Versions
  PROVE  /\ directory[v] \in Directories /\ Files(v) \subseteq Parts
         /\ directory[v] = Absent => Files(v) = {} /\ ~directory[v].there
         /\ directory[v].there => directory[v].touched \in 0 .. MaxTime
         /\ directory[v].there => Files(v) = directory[v].files
<1>1. directory[v] \in Directories BY DEF StorageTypeOK
<1>2. CASE directory[v] = Absent
  <2>1. directory[v].there = FALSE BY <1>2 DEF Absent
  <2>2. Files(v) = {} BY <2>1 DEF Files
  <2> QED BY <1>1, <2>1, <2>2
<1>3. CASE directory[v] \in [there : {TRUE}, files : SUBSET Parts, touched : 0 .. MaxTime]
  <2>1. /\ directory[v].there = TRUE /\ directory[v].files \subseteq Parts
        /\ directory[v].touched \in 0 .. MaxTime
    BY <1>3
  <2>2. Files(v) = directory[v].files BY <2>1 DEF Files
  <2>3. Absent.there = FALSE BY DEF Absent
  <2> QED BY <1>1, <2>1, <2>2, <2>3
<1> QED BY <1>1, <1>2, <1>3 DEF Directories

\* A directory that is written now.
LEMMA HoldingFields ==
  ASSUME now \in 0 .. MaxTime, NEW files \in SUBSET Parts
  PROVE  /\ Holding(files) \in Directories /\ Holding(files).there
         /\ Holding(files).files = files /\ Holding(files).touched = now
BY DEF Holding, Directories

\* In the first state only the first version is there, with all its files.
LEMMA StorageInitially == StorageInit => StorageInv
<1> SUFFICES ASSUME StorageInit PROVE StorageInv OBVIOUS
<1> USE StorageConstants DEF StorageInit
<1>1. StorageTypeOK
  BY DEF StorageTypeOK, Directories, Absent, IdleGc, NoBackup
<1>2. gc \in GcStates BY DEF GcStates
<1>3. CandidateIsPlanned /\ PlanIsSound BY DEF CandidateIsPlanned, PlanIsSound, IdleGc
<1>4. WritersAreSound BY DEF WritersAreSound, WriterIsSound, Versions
<1>5. BackupIsSound BY DEF BackupIsSound, NoBackup, Packed
<1>6. RestoreIsSound BY DEF RestoreIsSound
<1>7. RegisteredIsStored BY DEF RegisteredIsStored, Registered, Files
<1> QED BY <1>1, <1>2, <1>3, <1>4, <1>5, <1>6, <1>7 DEF StorageInv

------------------------------------------------------------------------------
(* Writers. *)

\* What a writer may do to its version while no restore is at work: it begins, stores
\* a file, registers the version once all is stored, or gives up.
OneVersionChanges(v) ==
  /\ UNCHANGED <<now, gc, backup, restore>> /\ restore = "no"
  /\ state[v] \in {"unborn", "writing"}
  /\ \A w \in Versions : w # v =>
       /\ state'[w] = state[w] /\ begun'[w] = begun[w]
       /\ put'[w] = put[w] /\ directory'[w] = directory[w]
  /\ state'[v] # "unborn"
  /\ v \in Ingested /\ gc.place # "idle" /\ state[v] = "writing" =>
       \/ state'[v] = "failed"
       \/ state'[v] \in {"writing", "lost"} /\ begun'[v] = begun[v]
  /\ state[v] = "unborn" => state'[v] = "writing"

\* That keeps everything but what is said of the version itself.
LEMMA OneVersionKeeps ==
  ASSUME StorageInv, NEW v \in Versions, OneVersionChanges(v), StorageTypeOK', WriterIsSound(v)',
         state'[v] = "registered" => Files(v)' = Parts /\ (v \in Ingested => gc.place = "idle")
  PROVE  StorageInv'
<1> USE DEF StorageInv, OneVersionChanges
<1>1. CandidateIsPlanned' /\ (gc \in GcStates)' BY DEF CandidateIsPlanned
<1>2. WritersAreSound'
  <2> SUFFICES ASSUME NEW w \in Versions, w # v PROVE WriterIsSound(w)' BY DEF WritersAreSound
  <2> QED BY DEF WritersAreSound, WriterIsSound, Files, LeaseHeld
<1>3. PlanIsSound'
  <2> SUFFICES ASSUME gc.place # "idle", NEW w \in DOMAIN gc.plan
               PROVE  \/ state'[w] = "failed"
                      \/ w \in Ingested /\ state'[w] \in {"writing", "lost"} /\ ~LeaseHeld(w)'
    BY DEF PlanIsSound
  <2>1. \/ state[w] = "failed"
        \/ w \in Ingested /\ state[w] \in {"writing", "lost"} /\ ~LeaseHeld(w)
    BY DEF PlanIsSound
  <2>2. w \in Versions
    <3>1. gc.plan \in Plans BY DEF GcStates, IdleGc
    <3> QED BY <3>1 DEF Plans
  <2>3. CASE w # v BY <2>1, <2>2, <2>3 DEF LeaseHeld
  <2>4. CASE w = v BY <2>1, <2>4 DEF LeaseHeld
  <2> QED BY <2>3, <2>4
<1>4. Registered \subseteq Registered' BY DEF Registered
<1>5. BackupIsSound'
  <2>1. \A w \in Versions : state'[w] = "unborn" => state[w] = "unborn" OBVIOUS
  <2> QED BY <1>4, <2>1 DEF BackupIsSound, Packed, Agrees
<1>6. RestoreIsSound' BY DEF RestoreIsSound
<1>7. RegisteredIsStored'
  <2> SUFFICES ASSUME NEW w \in Versions, state'[w] = "registered" PROVE Files(w)' = Parts
    BY DEF RegisteredIsStored, Registered
  <2>1. CASE w = v BY <2>1
  <2>2. CASE w # v BY <2>2 DEF RegisteredIsStored, Registered, Files
  <2> QED BY <2>1, <2>2
<1> QED BY <1>1, <1>2, <1>3, <1>5, <1>6, <1>7

\* A writer begins: nothing is stored yet, so its directory is younger than it.
LEMMA BeginKeeps ==
  ASSUME StorageInv, NEW v \in Versions, Begin(v)
  PROVE  StorageInv'
<1> USE StorageConstants DEF StorageInv
<1>1. StorageTypeOK' BY DEF Begin, StorageTypeOK
<1>2. /\ state'[v] = "writing" /\ begun'[v] = now /\ put'[v] = {} /\ directory'[v] = Absent
      /\ now' = now /\ restore' = "no" /\ v # Original
  BY DEF Begin, StorageTypeOK, WritersAreSound, WriterIsSound
<1>3. now \in Nat BY DEF StorageTypeOK
<1>4. WriterIsSound(v)' BY <1>2, <1>3 DEF WriterIsSound, Absent
<1>5. OneVersionChanges(v) BY DEF Begin, OneVersionChanges, StorageTypeOK
<1> QED BY <1>1, <1>2, <1>4, <1>5, OneVersionKeeps

\* A file is stored.
LEMMA PutKeeps ==
  ASSUME StorageInv, NEW v \in Versions, NEW p \in Parts, Put(v, p)
  PROVE  StorageInv'
<1> USE StorageConstants DEF StorageInv
<1>1. now \in 0 .. MaxTime /\ Files(v) \cup {p} \in SUBSET Parts
  BY DirectoryFields DEF StorageTypeOK
<1>2. PICK d \in Directories : /\ d = Holding(Files(v) \cup {p})
                              /\ d.there /\ d.files = Files(v) \cup {p} /\ d.touched = now
  BY <1>1, HoldingFields
<1>3. directory' = [directory EXCEPT ![v] = d] BY <1>2 DEF Put
<1>4. StorageTypeOK' BY <1>3 DEF Put, StorageTypeOK
<1>5. /\ directory'[v] = d /\ put'[v] = put[v] \cup {p} /\ state'[v] = "writing"
      /\ begun'[v] = begun[v] /\ now' = now /\ restore' = restore /\ state[v] = "writing"
  BY <1>3 DEF Put, StorageTypeOK
<1>6. Files(v)' = Files(v) \cup {p} BY <1>2, <1>5 DEF Files
<1>7. WriterIsSound(v) BY DEF WritersAreSound
<1>8. WriterIsSound(v)'
  BY <1>2, <1>5, <1>6, <1>7 DEF WriterIsSound, LeaseHeld
<1>9. OneVersionChanges(v)
  BY <1>3, <1>5, <1>7 DEF Put, OneVersionChanges, WriterIsSound, StorageTypeOK
<1> QED BY <1>4, <1>5, <1>8, <1>9, OneVersionKeeps

\* What is put is still there when the version is registered: an upload holds its lease, and
\* a copy is younger than the retention.
LEMMA RegisterKeeps ==
  ASSUME StorageInv, NEW v \in Versions, Register(v)
  PROVE  StorageInv'
<1> USE StorageConstants DEF StorageInv
<1>1. StorageTypeOK' BY DEF Register, StorageTypeOK
<1>2. /\ directory' = directory /\ put'[v] = {} /\ state'[v] = "registered"
      /\ state[v] = "writing" /\ v \in Versions
  BY DEF Register, StorageTypeOK
<1>3. WriterIsSound(v) /\ v # Original /\ restore = "no"
  BY <1>2 DEF WritersAreSound, WriterIsSound
<1>4. put[v] \subseteq Files(v)
  BY <1>2, <1>3 DEF Register, WriterIsSound, Versions
<1>5. Files(v)' = Parts
  <2>1. Files(v)' = Files(v) BY <1>2 DEF Files
  <2>2. Files(v) \subseteq Parts BY DirectoryFields
  <2>3. put[v] = Parts BY DEF Register
  <2> QED BY <1>4, <2>1, <2>2, <2>3
<1>6. WriterIsSound(v)' BY <1>2, <1>3 DEF WriterIsSound
<1>7. v \in Ingested => gc.place = "idle" BY DEF Register, Maintenance
<1>8. OneVersionChanges(v)
  BY <1>2, <1>3, <1>7 DEF Register, OneVersionChanges, StorageTypeOK
<1> QED BY <1>1, <1>5, <1>6, <1>7, <1>8, OneVersionKeeps

\* A writer gives up, and what it leaves is nobody's but perhaps its lease's.
LEMMA GiveUpKeeps ==
  ASSUME StorageInv, NEW v \in Versions, GiveUp(v)
  PROVE  StorageInv'
<1> USE StorageConstants DEF StorageInv
<1>1. now \in 0 .. MaxTime /\ Files(v) \in SUBSET Parts BY DirectoryFields DEF StorageTypeOK
<1>2. PICK d \in Directories : d = directory'[v] /\ directory' = [directory EXCEPT ![v] = d]
  <2>1. CASE UNCHANGED directory BY <2>1 DEF StorageTypeOK
  <2>2. CASE directory' = [directory EXCEPT ![v] = Holding(Files(v))]
    BY <1>1, <2>2, HoldingFields DEF StorageTypeOK
  <2> QED BY <2>1, <2>2 DEF GiveUp
<1>3. PICK s \in {"failed", "lost"} :
        /\ state' = [state EXCEPT ![v] = s] /\ (s = "lost" => v \in Ingested /\ begun' = begun)
        /\ begun' \in [Versions -> 0 .. MaxTime]
        /\ \A w \in Versions : w # v => begun'[w] = begun[w]
  BY DEF GiveUp, StorageTypeOK
<1>4. StorageTypeOK' BY <1>2, <1>3 DEF GiveUp, StorageTypeOK
<1>5. /\ state'[v] = s /\ put'[v] = {} /\ state[v] = "writing"
      /\ \A w \in Versions : w # v => /\ state'[w] = state[w] /\ put'[w] = put[w]
                                      /\ directory'[w] = directory[w]
  BY <1>2, <1>3 DEF GiveUp, StorageTypeOK
<1>6. v # Original /\ restore = "no" BY <1>5 DEF WritersAreSound, WriterIsSound
<1>7. WriterIsSound(v)' BY <1>3, <1>5, <1>6 DEF WriterIsSound
<1>8. OneVersionChanges(v) BY <1>3, <1>5, <1>6 DEF GiveUp, OneVersionChanges
<1> QED BY <1>4, <1>5, <1>7, <1>8, OneVersionKeeps

------------------------------------------------------------------------------
(* The cleanup. *)

\* The fields of the cleanup, by where it is.
LEMMA GcFields ==
  ASSUME gc \in GcStates
  PROVE  /\ gc.place \in {"idle", "planned", "read", "removing"}
         /\ gc.place # "idle" => /\ gc.plan \in Plans
                                 /\ DOMAIN gc.plan \in SUBSET Versions
         /\ gc.place \in {"read", "removing"} => gc.candidate \in Versions
         /\ gc.place = "read" => gc.refs \in SUBSET Versions
         /\ gc.place = "removing" => gc.todo \in SUBSET Parts
<1>1. \A f \in Plans : DOMAIN f \in SUBSET Versions BY DEF Plans
<1>2. CASE gc = IdleGc BY <1>2 DEF IdleGc
<1>3. CASE gc \in [place : {"planned"}, plan : Plans] BY <1>1, <1>3
<1>4. CASE gc \in [place : {"read"}, plan : Plans, candidate : Versions, refs : SUBSET Versions]
  BY <1>1, <1>4
<1>5. CASE gc \in [place : {"removing"}, plan : Plans, candidate : Versions,
                   todo : SUBSET Parts]
  BY <1>1, <1>5
<1> QED BY <1>2, <1>3, <1>4, <1>5 DEF GcStates

\* A plan without one of its directories is a plan.
LEMMA RestFields ==
  ASSUME gc \in GcStates, gc.place # "idle", NEW v
  PROVE  /\ Rest(v) \in GcStates /\ Rest(v).place = "planned"
         /\ DOMAIN Rest(v).plan \subseteq DOMAIN gc.plan
<1>1. gc.plan \in Plans BY GcFields
<1>2. [w \in DOMAIN gc.plan \ {v} |-> gc.plan[w]] \in Plans
  <2>1. PICK S \in SUBSET Versions : gc.plan \in [S -> Directories] BY <1>1 DEF Plans
  <2>2. [w \in S \ {v} |-> gc.plan[w]] \in [S \ {v} -> Directories] BY <2>1
  <2>3. S \ {v} \in SUBSET Versions /\ DOMAIN gc.plan = S BY <2>1
  <2> QED BY <2>2, <2>3 DEF Plans
<1> QED BY <1>2 DEF Rest, GcStates

\* The plan of the next state is sound too, when it is part of this one.
LEMMA ShorterPlans ==
  ASSUME PlanIsSound, UNCHANGED <<now, state, begun>>,
         gc'.place # "idle" => gc.place # "idle" /\ DOMAIN gc'.plan \subseteq DOMAIN gc.plan
  PROVE  PlanIsSound'
BY DEF PlanIsSound, LeaseHeld

\* A cleanup that touches nothing but directories it has planned to remove.
LEMMA CleanupKeeps ==
  ASSUME StorageInv, UNCHANGED <<now, state, begun, put, backup, restore>>,
         gc' \in GcStates, CandidateIsPlanned', PlanIsSound',
         restore \in {"wiped", "unpacked"} => gc.place = "idle" /\ gc'.place = "idle",
         directory' \in [Versions -> Directories],
         \A w \in Versions : directory'[w] # directory[w] =>
           gc.place # "idle" /\ w \in DOMAIN gc.plan
  PROVE  StorageInv'
<1> USE DEF StorageInv
<1>1. StorageTypeOK'
  <2>1. (gc.place)' \in {"idle", "planned", "read", "removing"}
    <3>1. (gc \in GcStates)' => (gc.place \in {"idle", "planned", "read", "removing"})'
      BY GcFields, PTL
    <3> QED BY <3>1
  <2> QED BY <2>1 DEF StorageTypeOK
<1>2. \A w \in Versions : directory'[w] # directory[w] =>
        \/ state[w] = "failed"
        \/ w \in Ingested /\ state[w] \in {"writing", "lost"} /\ ~LeaseHeld(w)
  BY DEF PlanIsSound
<1>3. WritersAreSound'
  <2> SUFFICES ASSUME NEW w \in Versions PROVE WriterIsSound(w)' BY DEF WritersAreSound
  <2>1. WriterIsSound(w) BY DEF WritersAreSound
  <2>2. CASE directory'[w] = directory[w]
    BY <2>1, <2>2 DEF WriterIsSound, LeaseHeld, Files
  <2>3. CASE directory'[w] # directory[w]
    <3>1. w \notin Restored \/ state[w] # "writing" BY <1>2, <2>3, StorageConstants
    <3> QED BY <1>2, <2>1, <2>3, <3>1 DEF WriterIsSound, LeaseHeld
  <2> QED BY <2>2, <2>3
<1>4. BackupIsSound' BY DEF BackupIsSound, Packed, Registered, Agrees
<1>5. RestoreIsSound'
  <2>1. restore \in {"wiped", "unpacked"} => \A w \in Versions : directory'[w] = directory[w]
    OBVIOUS
  <2> QED BY <2>1 DEF RestoreIsSound, Registered, Agrees, Holding
<1>6. RegisteredIsStored'
  <2>1. \A w \in Registered : w \in Versions /\ directory'[w] = directory[w]
    BY <1>2 DEF Registered
  <2> QED BY <2>1 DEF RegisteredIsStored, Registered, Files
<1> QED BY <1>1, <1>3, <1>4, <1>5, <1>6

\* A plan names only what is never registered again: of what is old and in no reference,
\* nothing is unborn, and no copy is at work.
LEMMA PlanKeeps ==
  ASSUME StorageInv, PlanOrphanCleanup
  PROVE  StorageInv'
<1> DEFINE orphans == {v \in Versions \ References : Old(v)}
           f == [v \in orphans |-> directory[v]]
<1> USE DEF StorageInv
<1>1. /\ gc' = [place |-> "planned", plan |-> f] /\ restore # "database" /\ orphans # {}
      /\ UNCHANGED <<now, state, begun, put, directory, backup, restore>>
  BY DEF PlanOrphanCleanup
<1>2. f \in Plans /\ DOMAIN f = orphans
  <2>1. f \in [orphans -> Directories] BY DEF StorageTypeOK
  <2> QED BY <2>1 DEF Plans
<1>3. \A v \in orphans :
        \/ state[v] = "failed"
        \/ v \in Ingested /\ state[v] \in {"writing", "lost"} /\ ~LeaseHeld(v)
  <2> SUFFICES ASSUME NEW v \in orphans, state[v] # "failed"
               PROVE  v \in Ingested /\ state[v] \in {"writing", "lost"} /\ ~LeaseHeld(v)
    OBVIOUS
  <2>1. WriterIsSound(v) /\ v \in Versions /\ Old(v) /\ v \notin References
    BY DEF WritersAreSound
  <2>2. state[v] # "registered" BY <2>1 DEF References, Registered
  <2>3. state[v] # "unborn" BY <2>1, DirectoryFields DEF WriterIsSound, Old
  <2>4. ~(v \in Restored /\ state[v] = "writing")
    BY <2>1, DirectoryFields, StorageConstants DEF WriterIsSound, Old, StorageTypeOK
  <2>5. state[v] \in {"writing", "lost"} BY <2>1, <2>2, <2>3 DEF StorageTypeOK
  <2>6. v \in Ingested BY <2>1, <2>4, <2>5 DEF WriterIsSound, Versions
  <2> QED BY <2>1, <2>5, <2>6 DEF References
<1>4. restore \notin {"wiped", "unpacked"}
  <2>1. PICK v \in Versions : Old(v) BY <1>1
  <2>2. now \in 0 .. MaxTime /\ directory[v] # Absent
    BY <2>1, DirectoryFields DEF StorageTypeOK, Old
  <2>3. CASE restore = "wiped" BY <2>2, <2>3 DEF RestoreIsSound
  <2>4. CASE restore = "unpacked"
    <3>1. directory[v] = Holding(backup.archive[v]) BY <2>2, <2>4 DEF RestoreIsSound
    <3>2. directory[v].touched = now BY <3>1 DEF Holding
    <3> QED BY <2>1, <2>2, <3>2, StorageConstants DEF Old
  <2> QED BY <2>3, <2>4
<1> HIDE DEF orphans, f
<1>5. gc' \in GcStates BY <1>1, <1>2 DEF GcStates
<1>6. gc'.place = "planned" /\ DOMAIN gc'.plan = orphans BY <1>1, <1>2
<1>7. CandidateIsPlanned' BY <1>6 DEF CandidateIsPlanned
<1>8. PlanIsSound' BY <1>1, <1>3, <1>6 DEF PlanIsSound, LeaseHeld
<1>9. directory' \in [Versions -> Directories] BY <1>1 DEF StorageTypeOK
<1> QED BY <1>1, <1>4, <1>5, <1>7, <1>8, <1>9, CleanupKeeps

\* The references are read.
LEMMA ReadKeeps ==
  ASSUME StorageInv, NEW v \in Versions, ReadReferences(v)
  PROVE  StorageInv'
<1> USE DEF StorageInv
<1>1. gc.place = "planned" /\ gc.plan \in Plans /\ v \in DOMAIN gc.plan
  BY GcFields DEF ReadReferences
<1>2. References \in SUBSET Versions BY DEF References, Registered, Versions
<1>3. gc' \in GcStates BY <1>1, <1>2 DEF ReadReferences, GcStates
<1>4. gc'.place = "read" /\ gc'.plan = gc.plan /\ gc'.candidate = v BY DEF ReadReferences
<1>5. UNCHANGED <<now, state, begun, put, directory, backup, restore>> BY DEF ReadReferences
<1>6. CandidateIsPlanned' BY <1>1, <1>4 DEF CandidateIsPlanned
<1>7. PlanIsSound' BY <1>1, <1>4, <1>5, ShorterPlans
<1>8. restore \notin {"wiped", "unpacked"} BY <1>1 DEF RestoreIsSound
<1>9. directory' \in [Versions -> Directories] BY <1>5 DEF StorageTypeOK
<1> QED BY <1>3, <1>5, <1>6, <1>7, <1>8, <1>9, CleanupKeeps

\* The directory is compared with its plan.
LEMMA InspectKeeps ==
  ASSUME StorageInv, Inspect
  PROVE  StorageInv'
<1> USE DEF StorageInv
<1>1. /\ gc.place = "read" /\ gc.plan \in Plans /\ gc.candidate \in DOMAIN gc.plan
      /\ gc.candidate \in Versions
  BY GcFields DEF Inspect, CandidateIsPlanned
<1>2. UNCHANGED <<now, state, begun, put, directory, backup, restore>> BY DEF Inspect
<1>3. /\ gc' \in GcStates /\ gc'.place \in {"planned", "removing"}
      /\ DOMAIN gc'.plan \subseteq DOMAIN gc.plan
      /\ gc'.place = "removing" => gc'.candidate \in DOMAIN gc'.plan
  <2>1. CASE gc' = Rest(gc.candidate) BY <1>1, <2>1, RestFields
  <2>2. CASE gc' = [place |-> "removing", plan |-> gc.plan, candidate |-> gc.candidate,
                    todo |-> Files(gc.candidate)]
    <3>1. Files(gc.candidate) \in SUBSET Parts BY <1>1, DirectoryFields
    <3>2. gc' \in GcStates BY <1>1, <2>2, <3>1 DEF GcStates
    <3> QED BY <1>1, <2>2, <3>2
  <2> QED BY <2>1, <2>2 DEF Inspect
<1>4. CandidateIsPlanned' BY <1>3 DEF CandidateIsPlanned
<1>5. PlanIsSound' BY <1>1, <1>2, <1>3, ShorterPlans
<1>6. restore \notin {"wiped", "unpacked"} BY <1>1 DEF RestoreIsSound
<1>7. directory' \in [Versions -> Directories] BY <1>2 DEF StorageTypeOK
<1> QED BY <1>2, <1>3, <1>4, <1>5, <1>6, <1>7, CleanupKeeps

\* A file of the candidate is removed.
LEMMA UnlinkKeeps ==
  ASSUME StorageInv, NEW p \in Parts, Unlink(p)
  PROVE  StorageInv'
<1> DEFINE c == gc.candidate
           g == [gc EXCEPT !.todo = @ \ {p}]
<1> USE DEF StorageInv
<1>1. /\ gc.place = "removing" /\ gc.plan \in Plans /\ c \in DOMAIN gc.plan
      /\ c \in Versions /\ gc.todo \in SUBSET Parts
  BY GcFields DEF Unlink, CandidateIsPlanned
<1>2. gc \in [place : {"removing"}, plan : Plans, candidate : Versions, todo : SUBSET Parts]
  BY <1>1 DEF GcStates, IdleGc
<1>3. g \in GcStates BY <1>1, <1>2 DEF GcStates
<1>4. g.place = "removing" /\ g.plan = gc.plan /\ g.candidate = c BY <1>1, <1>2
<1>5. /\ gc' = g /\ UNCHANGED <<now, state, begun, put, backup, restore>>
      /\ directory' = [directory EXCEPT ![c] = Holding(Files(c) \ {p})]
  BY DEF Unlink
<1>6. Holding(Files(c) \ {p}) \in Directories
  BY <1>1, DirectoryFields, HoldingFields DEF StorageTypeOK
<1> HIDE DEF c, g
<1>7. directory' \in [Versions -> Directories] BY <1>5, <1>6 DEF StorageTypeOK
<1>8. \A w \in Versions : directory'[w] # directory[w] => w = c
  BY <1>5 DEF StorageTypeOK
<1>9. CandidateIsPlanned' BY <1>1, <1>4, <1>5 DEF CandidateIsPlanned
<1>10. PlanIsSound' BY <1>1, <1>4, <1>5, ShorterPlans
<1>11. restore \notin {"wiped", "unpacked"} BY <1>1 DEF RestoreIsSound
<1> QED BY <1>1, <1>3, <1>5, <1>7, <1>8, <1>9, <1>10, <1>11, CleanupKeeps

\* The candidate's directory is removed.
LEMMA RemoveKeeps ==
  ASSUME StorageInv, RemoveDirectory
  PROVE  StorageInv'
<1> DEFINE c == gc.candidate
<1> USE DEF StorageInv
<1>1. gc.place = "removing" /\ c \in DOMAIN gc.plan /\ c \in Versions
  BY GcFields DEF RemoveDirectory, CandidateIsPlanned
<1>2. /\ gc' = Rest(c) /\ UNCHANGED <<now, state, begun, put, backup, restore>>
      /\ directory' = [directory EXCEPT ![c] = Absent]
  BY DEF RemoveDirectory
<1>3. /\ gc' \in GcStates /\ gc'.place = "planned" /\ DOMAIN gc'.plan \subseteq DOMAIN gc.plan
  BY <1>1, <1>2, RestFields
<1> HIDE DEF c
<1>4. directory' \in [Versions -> Directories]
  BY <1>2 DEF StorageTypeOK, Directories
<1>5. \A w \in Versions : directory'[w] # directory[w] => w = c
  BY <1>2 DEF StorageTypeOK
<1>6. CandidateIsPlanned' BY <1>3 DEF CandidateIsPlanned
<1>7. PlanIsSound' BY <1>1, <1>2, <1>3, ShorterPlans
<1>8. restore \notin {"wiped", "unpacked"} BY <1>1 DEF RestoreIsSound
<1> QED BY <1>1, <1>2, <1>3, <1>4, <1>5, <1>6, <1>7, <1>8, CleanupKeeps

\* The cleanup ends.
LEMMA EndKeeps ==
  ASSUME StorageInv, EndGc
  PROVE  StorageInv'
<1> USE DEF StorageInv
<1>1. /\ gc' = IdleGc /\ gc.place # "idle"
      /\ UNCHANGED <<now, state, begun, put, directory, backup, restore>>
  BY DEF EndGc
<1>2. gc' \in GcStates /\ gc'.place = "idle" BY <1>1 DEF GcStates, IdleGc
<1>3. CandidateIsPlanned' /\ PlanIsSound' BY <1>2 DEF CandidateIsPlanned, PlanIsSound
<1>4. directory' \in [Versions -> Directories] BY <1>1 DEF StorageTypeOK
<1>5. restore \notin {"wiped", "unpacked"} BY <1>1 DEF RestoreIsSound
<1> QED BY <1>1, <1>2, <1>3, <1>4, <1>5, CleanupKeeps

------------------------------------------------------------------------------
(* Backups. *)

\* A step of a backup, which a restore only lets the drill take.
LEMMA BackupKeeps ==
  ASSUME StorageInv, UNCHANGED <<now, state, begun, put, directory, gc, restore>>,
         backup'.place \in {"none", "dumped", "hashed", "packed", "done", "verified"},
         BackupIsSound',
         \/ restore = "no"
         \/ /\ backup'.place \in {"done", "verified"} /\ backup'.versions = backup.versions
            /\ backup'.archive = backup.archive /\ Agrees
  PROVE  StorageInv'
<1> USE DEF StorageInv
<1>1. StorageTypeOK' BY DEF StorageTypeOK
<1>2. (gc \in GcStates)' /\ CandidateIsPlanned' BY DEF CandidateIsPlanned
<1>3. PlanIsSound' BY DEF PlanIsSound, LeaseHeld
<1>4. WritersAreSound' BY DEF WritersAreSound, WriterIsSound, LeaseHeld, Files
<1>5. RestoreIsSound' BY DEF RestoreIsSound, Registered, Holding
<1>6. RegisteredIsStored' BY DEF RegisteredIsStored, Registered, Files
<1> QED BY <1>1, <1>2, <1>3, <1>4, <1>5, <1>6

\* A file of no version is in no directory.
LEMMA FilesOfAll ==
  ASSUME StorageInv
  PROVE  \A v \in Versions : /\ Files(v) \subseteq Parts
                             /\ state[v] = "unborn" => Files(v) = {}
BY DirectoryFields DEF StorageInv, WritersAreSound, WriterIsSound

\* The database is dumped.
LEMMA DumpKeeps ==
  ASSUME StorageInv, Dump
  PROVE  StorageInv'
<1>1. BackupIsSound' BY DEF Dump, BackupIsSound, Packed, Registered
<1> QED BY <1>1, BackupKeeps DEF Dump

\* The files are hashed: what was dumped stays registered.
LEMMA HashKeeps ==
  ASSUME StorageInv, Hash
  PROVE  StorageInv'
<1>1. backup.versions \subseteq Registered BY DEF Hash, StorageInv, BackupIsSound
<1>2. backup'.place = "hashed" /\ backup'.versions = backup.versions BY DEF Hash
<1>3. BackupIsSound' BY <1>1, <1>2 DEF Hash, BackupIsSound, Packed, Registered
<1> QED BY <1>2, <1>3, BackupKeeps DEF Hash

\* What is dumped is registered, and what is registered has all its files when they are
\* packed.
LEMMA PackKeeps ==
  ASSUME StorageInv, Pack
  PROVE  StorageInv'
<1>1. backup.versions \subseteq Registered /\ restore = "no"
  BY DEF Pack, StorageInv, BackupIsSound
<1>2. \A v \in Registered : Files(v) = Parts BY <1>1 DEF StorageInv, RegisteredIsStored
<1>3. /\ backup'.place = "packed" /\ backup'.versions = backup.versions
      /\ backup'.archive = [v \in Versions |-> Files(v)]
  BY DEF Pack
<1>4. Registered \subseteq Versions BY DEF Registered
<1>5. /\ \A v \in backup'.versions : backup'.archive[v] = Parts
      /\ \A v \in Versions : backup'.archive[v] \subseteq Parts
      /\ \A v \in Versions : state[v] = "unborn" => backup'.archive[v] = {}
  BY <1>1, <1>2, <1>3, <1>4, FilesOfAll
<1>6. BackupIsSound' BY <1>1, <1>3, <1>5 DEF Pack, BackupIsSound, Packed, Registered
<1> QED BY <1>1, <1>3, <1>6, BackupKeeps DEF Pack

\* The rows are counted.
LEMMA CountKeeps ==
  ASSUME StorageInv, Count
  PROVE  StorageInv'
<1>1. BackupIsSound /\ backup.place = "packed" BY DEF Count, StorageInv
<1>2. /\ backup'.place = "done" /\ backup'.versions = backup.versions
      /\ backup'.archive = backup.archive
  BY DEF Count, Manifest
<1>3. BackupIsSound' BY <1>1, <1>2 DEF Count, BackupIsSound, Packed, Registered
<1> QED BY <1>2, <1>3, BackupKeeps DEF Count

\* The drill, which only a backup that agrees passes.
LEMMA VerifyKeeps ==
  ASSUME StorageInv, VerifyBackup
  PROVE  StorageInv'
<1>1. BackupIsSound /\ backup.place = "done" /\ Agrees BY DEF VerifyBackup, StorageInv
<1>2. /\ backup'.place = "verified" /\ backup'.versions = backup.versions
      /\ backup'.archive = backup.archive /\ backup'.counted = backup.counted
      /\ backup'.hashes = backup.hashes
  BY DEF VerifyBackup, Manifest
<1>3. Agrees' BY <1>1, <1>2 DEF Agrees
<1>4. BackupIsSound'
  BY <1>1, <1>2, <1>3 DEF VerifyBackup, BackupIsSound, Packed, Registered
<1> QED BY <1>1, <1>2, <1>4, BackupKeeps DEF VerifyBackup

\* The backup is gone, while no restore needs it.
LEMMA DiscardKeeps ==
  ASSUME StorageInv, Discard
  PROVE  StorageInv'
<1>1. backup'.place = "none" BY DEF Discard, NoBackup
<1>2. BackupIsSound' BY <1>1 DEF BackupIsSound, Packed
<1> QED BY <1>1, <1>2, BackupKeeps DEF Discard

------------------------------------------------------------------------------
(* Restores. *)

\* While a restore is at work nobody writes a version.
LEMMA NobodyWrites ==
  ASSUME StorageInv, restore # "no"
  PROVE  \A v \in Versions : state[v] # "writing"
BY DEF StorageInv, WritersAreSound, WriterIsSound

\* The database becomes what was dumped: nothing that was not registered is.
LEMMA RestoreDatabaseKeeps ==
  ASSUME StorageInv, RestoreDatabase
  PROVE  StorageInv'
<1> USE DEF StorageInv
<1>1. /\ backup.place \in {"done", "verified"} /\ restore' = "database"
      /\ \A v \in Versions : state[v] # "writing"
      /\ UNCHANGED <<now, begun, put, directory, gc, backup>>
  BY DEF RestoreDatabase
<1>2. backup.versions \subseteq Registered /\ Registered \subseteq Versions
  BY <1>1 DEF BackupIsSound, Registered
<1>3. \A v \in Versions :
        \/ state[v] = "registered" /\ v \in backup.versions /\ state'[v] = "registered"
        \/ state[v] = "registered" /\ v \notin backup.versions /\ state'[v] = "failed"
        \/ state[v] # "registered" /\ v \notin backup.versions /\ state'[v] = state[v]
  BY <1>2 DEF RestoreDatabase, Registered
<1>4. state' \in [Versions -> {"unborn", "writing", "registered", "failed", "lost"}]
  BY DEF RestoreDatabase, StorageTypeOK
<1>5. Registered' = backup.versions BY <1>2, <1>3 DEF Registered
<1>6. StorageTypeOK' BY <1>1, <1>4 DEF StorageTypeOK
<1>7. (gc \in GcStates)' /\ CandidateIsPlanned' BY <1>1 DEF CandidateIsPlanned
<1>8. WritersAreSound'
  <2> SUFFICES ASSUME NEW v \in Versions PROVE WriterIsSound(v)' BY DEF WritersAreSound
  <2> QED BY <1>1, <1>3 DEF WritersAreSound, WriterIsSound
<1>9. PlanIsSound'
  <2>1. gc.place # "idle" => DOMAIN gc.plan \subseteq Versions BY GcFields
  <2> QED BY <1>1, <1>3, <2>1 DEF PlanIsSound, LeaseHeld
<1>10. BackupIsSound' BY <1>1, <1>3, <1>5 DEF BackupIsSound, Packed, Agrees
<1>11. RestoreIsSound' BY <1>1, <1>5 DEF RestoreIsSound
<1>12. RegisteredIsStored' BY <1>1 DEF RegisteredIsStored
<1> QED BY <1>6, <1>7, <1>8, <1>9, <1>10, <1>11, <1>12

\* A step of a restore that leaves the database alone, the cleanup being done with.
LEMMA FilesOnlyKeeps ==
  ASSUME StorageInv, restore # "no", UNCHANGED <<now, state, begun, put, backup>>,
         restore' \in {"no", "wiped", "unpacked", "refused"},
         directory' \in [Versions -> Directories],
         \A v \in Versions : state[v] = "unborn" => directory'[v] = Absent,
         gc' = gc \/ gc' = IdleGc,
         RestoreIsSound', RegisteredIsStored'
  PROVE  StorageInv'
<1> USE DEF StorageInv
<1>1. /\ (gc \in GcStates)' /\ CandidateIsPlanned' /\ PlanIsSound'
      /\ gc'.place \in {"idle", "planned", "read", "removing"}
  <2>1. CASE gc' = gc
    BY <2>1, GcFields DEF CandidateIsPlanned, PlanIsSound, LeaseHeld
  <2>2. CASE gc' = IdleGc
    BY <2>2 DEF GcStates, IdleGc, CandidateIsPlanned, PlanIsSound
  <2> QED BY <2>1, <2>2
<1>2. StorageTypeOK' BY <1>1 DEF StorageTypeOK
<1>3. WritersAreSound' BY NobodyWrites DEF WritersAreSound, WriterIsSound
<1>4. BackupIsSound' BY DEF BackupIsSound, Packed, Registered, Agrees
<1> QED BY <1>1, <1>2, <1>3, <1>4

\* The files are wiped, and the cleanup is at an end.
LEMMA RestoreWipesKeeps ==
  ASSUME StorageInv, RestoreWipes
  PROVE  StorageInv'
<1> USE DEF StorageInv
<1>1. /\ restore = "database" /\ restore' = "wiped" /\ gc' = IdleGc /\ gc'.place = "idle"
      /\ directory' = [v \in Versions |-> Absent]
      /\ UNCHANGED <<now, state, begun, put, backup>>
  BY DEF RestoreWipes, IdleGc
<1>2. directory' \in [Versions -> Directories] BY <1>1 DEF Directories
<1>3. RestoreIsSound' BY <1>1 DEF RestoreIsSound, Registered
<1>4. RegisteredIsStored' BY <1>1 DEF RegisteredIsStored
<1> QED BY <1>1, <1>2, <1>3, <1>4, FilesOnlyKeeps

\* What is unpacked are all the files of what the database holds, for those are packed.
LEMMA RestoreUnpacksKeeps ==
  ASSUME StorageInv, RestoreUnpacks
  PROVE  StorageInv'
<1> USE DEF StorageInv
<1>1. /\ restore = "wiped" /\ restore' = "unpacked" /\ gc.place = "idle"
      /\ UNCHANGED <<now, state, begun, put, gc, backup>>
      /\ Packed /\ Registered = backup.versions /\ backup.place \in {"done", "verified"}
  BY DEF RestoreUnpacks, RestoreIsSound, Packed
<1>2. \A v \in Versions :
        directory'[v] = IF backup.archive[v] = {} THEN Absent ELSE Holding(backup.archive[v])
  BY DEF RestoreUnpacks
<1>3. \A v \in Versions : backup.archive[v] \in SUBSET Parts
  BY <1>1 DEF BackupIsSound
<1>4. \A v \in Versions : Holding(backup.archive[v]) \in Directories
  BY <1>3, HoldingFields DEF StorageTypeOK
<1>5. directory' \in [Versions -> Directories]
  BY <1>4 DEF RestoreUnpacks, Directories
<1>6. \A v \in Versions : state[v] = "unborn" => directory'[v] = Absent
  BY <1>1, <1>2 DEF BackupIsSound
<1>7. RestoreIsSound'
  <2>1. (\A v \in Versions :
           directory[v] = IF backup.archive[v] = {} THEN Absent
                          ELSE Holding(backup.archive[v]))'
    BY <1>1, <1>2 DEF Holding
  <2>2. Registered' = backup'.versions BY <1>1 DEF Registered
  <2> QED BY <1>1, <2>1, <2>2 DEF RestoreIsSound
<1>8. RegisteredIsStored'
  <2> SUFFICES ASSUME NEW v \in Registered' PROVE Files(v)' = Parts
    BY DEF RegisteredIsStored
  <2>1. v \in Versions /\ v \in backup.versions BY <1>1 DEF Registered
  <2>2. backup.archive[v] = Parts /\ Parts # {}
    BY <1>1, <2>1, StorageConstants DEF BackupIsSound
  <2>3. directory'[v] = Holding(Parts) BY <1>2, <2>1, <2>2
  <2> QED BY <2>3 DEF Holding, Files
<1> QED BY <1>1, <1>5, <1>6, <1>7, <1>8, FilesOnlyKeeps

\* What is compared with what was unpacked is what the drill compares.
LEMMA RestoreComparesKeeps ==
  ASSUME StorageInv, RestoreCompares
  PROVE  StorageInv'
<1> USE DEF StorageInv
<1>1. /\ restore = "unpacked" /\ gc.place = "idle"
      /\ UNCHANGED <<now, state, begun, put, directory, gc, backup>>
      /\ backup.place \in {"done", "verified"} /\ Registered = backup.versions
  BY DEF RestoreCompares, RestoreIsSound
<1>2. \A v \in Versions : Files(v) = backup.archive[v]
  <2> SUFFICES ASSUME NEW v \in Versions PROVE Files(v) = backup.archive[v] OBVIOUS
  <2>1. directory[v] = IF backup.archive[v] = {} THEN Absent ELSE Holding(backup.archive[v])
    BY <1>1 DEF RestoreIsSound
  <2>2. CASE backup.archive[v] = {} BY <2>1, <2>2 DEF Absent, Files
  <2>3. CASE backup.archive[v] # {} BY <2>1, <2>3 DEF Holding, Files
  <2> QED BY <2>2, <2>3
<1>3. \/ restore' = "no"
      \/ restore' = "refused" /\ ~Agrees
  BY <1>1, <1>2 DEF RestoreCompares, Agrees
<1>4. RestoreIsSound' BY <1>1, <1>3 DEF RestoreIsSound, Registered, Agrees
<1>5. RegisteredIsStored' BY <1>1 DEF RegisteredIsStored, Registered, Files
<1>6. directory' \in [Versions -> Directories] BY <1>1 DEF StorageTypeOK
<1>7. \A v \in Versions : state[v] = "unborn" => directory'[v] = Absent
  BY <1>1 DEF WritersAreSound, WriterIsSound
<1> QED BY <1>1, <1>3, <1>4, <1>5, <1>6, <1>7, FilesOnlyKeeps

\* The application starts in spite of a difference.
LEMMA StartAnywayKeeps ==
  ASSUME StorageInv, StartAnyway
  PROVE  StorageInv'
<1> USE DEF StorageInv
<1>1. /\ restore = "refused" /\ restore' = "no"
      /\ UNCHANGED <<now, state, begun, put, directory, gc, backup>>
  BY DEF StartAnyway
<1>2. RestoreIsSound' BY <1>1 DEF RestoreIsSound
<1>3. RegisteredIsStored' BY <1>1 DEF RegisteredIsStored, Registered, Files
<1>4. directory' \in [Versions -> Directories] BY <1>1 DEF StorageTypeOK
<1>5. \A v \in Versions : state[v] = "unborn" => directory'[v] = Absent
  BY <1>1 DEF WritersAreSound, WriterIsSound
<1> QED BY <1>1, <1>2, <1>3, <1>4, <1>5, FilesOnlyKeeps

------------------------------------------------------------------------------
(* Time, and every step. *)

\* Time ends leases, and begins none.
LEMMA TickKeeps ==
  ASSUME StorageInv, Tick
  PROVE  StorageInv'
<1> USE DEF StorageInv
<1>1. /\ now \in Nat /\ now' = now + 1 /\ now' \in 0 .. MaxTime /\ restore # "unpacked"
      /\ UNCHANGED <<state, begun, put, directory, gc, backup, restore>>
      /\ \A v \in Restored : state[v] = "writing" => now' - begun[v] < Retention
  BY StorageConstants DEF Tick, StorageTypeOK
<1>2. StorageTypeOK' BY <1>1 DEF StorageTypeOK
<1>3. \A v \in Versions : LeaseHeld(v)' => LeaseHeld(v)
  BY <1>1, StorageConstants DEF LeaseHeld, StorageTypeOK
<1>4. WritersAreSound'
  <2> SUFFICES ASSUME NEW v \in Versions PROVE WriterIsSound(v)' BY DEF WritersAreSound
  <2>1. WriterIsSound(v) /\ begun[v] \in Nat BY DEF WritersAreSound, StorageTypeOK
  <2>2. Files(v)' = Files(v) BY <1>1 DEF Files
  <2> QED BY <1>1, <1>3, <2>1, <2>2 DEF WriterIsSound
<1>5. PlanIsSound'
  <2>1. gc.place # "idle" => DOMAIN gc.plan \subseteq Versions BY GcFields
  <2> QED BY <1>1, <1>3, <2>1 DEF PlanIsSound
<1>6. (gc \in GcStates)' /\ CandidateIsPlanned' BY <1>1 DEF CandidateIsPlanned
<1>7. BackupIsSound' BY <1>1 DEF BackupIsSound, Packed, Registered, Agrees
<1>8. RestoreIsSound' BY <1>1 DEF RestoreIsSound, Registered, Agrees
<1>9. RegisteredIsStored' BY <1>1 DEF RegisteredIsStored, Registered, Files
<1> QED BY <1>2, <1>4, <1>5, <1>6, <1>7, <1>8, <1>9

\* Every step keeps the invariant.
LEMMA StorageStepKeeps ==
  ASSUME StorageInv, [StorageNext]_storageVars
  PROVE  StorageInv'
<1>1. CASE UNCHANGED storageVars
  BY <1>1 DEF storageVars, StorageInv, StorageTypeOK, CandidateIsPlanned, WritersAreSound,
     WriterIsSound, LeaseHeld, Files, PlanIsSound, BackupIsSound, Packed, Registered, Agrees,
     RestoreIsSound, Holding, RegisteredIsStored
<1>2. CASE \E v \in Versions : WriterStep(v)
  BY <1>2, BeginKeeps, PutKeeps, RegisterKeeps, GiveUpKeeps DEF WriterStep
<1>3. CASE GcStep
  BY <1>3, PlanKeeps, ReadKeeps, InspectKeeps, UnlinkKeeps, RemoveKeeps, EndKeeps DEF GcStep
<1>4. CASE BackupStep
  BY <1>4, DumpKeeps, HashKeeps, PackKeeps, CountKeeps, VerifyKeeps, DiscardKeeps
  DEF BackupStep
<1>5. CASE RestoreStep
  BY <1>5, RestoreDatabaseKeeps, RestoreWipesKeeps, RestoreUnpacksKeeps,
     RestoreComparesKeeps, StartAnywayKeeps DEF RestoreStep
<1>6. CASE Tick BY <1>6, TickKeeps
<1> QED BY <1>1, <1>2, <1>3, <1>4, <1>5, <1>6 DEF StorageNext

\* Whatever uploads, copies, the cleanup, backups and restores do side by side, what is
\* planned to be removed stays out of the database, and a backup stays whole.
THEOREM StorageInvariant == StorageSpec => []StorageInv
BY StorageInitially, StorageStepKeeps, PTL DEF StorageSpec

\* The variables keep their types.
THEOREM StorageTypeCorrect == StorageSpec => []StorageTypeOK
<1>1. StorageInv => StorageTypeOK BY DEF StorageInv
<1> QED BY <1>1, StorageInvariant, PTL

\* Every version the database knows has all its files: storage:gc never removes one of
\* them, however its steps fall among those of the writers.
THEOREM RegisteredIsStoredHolds == StorageSpec => []RegisteredIsStored
<1>1. StorageInv => RegisteredIsStored BY DEF StorageInv
<1> QED BY <1>1, StorageInvariant, PTL

\* The files are packed after the dump, so the archive holds those of all it names; and a
\* backup that has passed the drill is never refused.
THEOREM BackupsRestoreHolds == StorageSpec => []BackupsRestore
<1>1. StorageInv => BackupsRestore
  BY DEF StorageInv, BackupIsSound, RestoreIsSound, Packed, BackupsRestore
<1> QED BY <1>1, StorageInvariant, PTL
==============================================================================
