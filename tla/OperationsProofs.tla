-------------------------- MODULE OperationsProofs --------------------------
(***************************************************************************)
(* What the services around the trading cycle promise, for every value of  *)
(* their constants: the halt flag, the daily loss, the health of the       *)
(* cycles, the periodic jobs and the calendar they ask, the instance lock, *)
(* the schema migrations, the commission backfill and the nightly backup.  *)
(* Each part is a module of its own and is proved by itself.               *)
(***************************************************************************)
EXTENDS HaltFlag, DailyLoss, CycleHealth, PeriodicJobs, InstanceLock,
        Migrations, Commissions, Backups, TLAPS

-----------------------------------------------------------------------------
(* The halt flag *)

CallsOK ==
  call \in [Tasks -> [op : {"none", "halt", "resume"}, at : {"-", "lock", "update", "commit"},
                      reason : Reasons, replacing : BOOLEAN]]

FlagOK == /\ flag \in [halted : BOOLEAN, reason : Reasons]
          /\ durableFlag \in [halted : BOOLEAN, reason : Reasons]

(* What a halt in progress will commit: one that replaces the reason relies *)
(* on the row it read being halted still.                                   *)
HaltingHalts ==
  \A t \in Tasks :
    t \in halting =>
      /\ call[t].op = "halt"
      /\ call[t].replacing \/ call[t].at = "commit" => flag.halted

StandsInv == CallsOK /\ FlagOK /\ HaltingHalts /\ HaltStands

LEMMA StandsStarts == HaltInit => StandsInv
<1> SUFFICES ASSUME HaltInit PROVE StandsInv
  OBVIOUS
<1>1. CallsOK
  BY DEF HaltInit, CallsOK, NoCall, Reasons
<1>2. FlagOK
  <2>1. /\ Trading \in [halted : BOOLEAN, reason : Reasons]
        /\ \A r \in Reasons : HaltedFor(r) \in [halted : BOOLEAN, reason : Reasons]
    BY DEF Trading, HaltedFor, Reasons
  <2>2. flag = Trading \/ \E r \in Reasons : flag = HaltedFor(r)
    BY DEF HaltInit
  <2>3. durableFlag = flag
    BY DEF HaltInit
  <2> QED BY <2>1, <2>2, <2>3 DEF FlagOK
<1>3. HaltingHalts /\ HaltStands
  BY DEF HaltInit, HaltingHalts, HaltStands
<1> QED BY <1>1, <1>2, <1>3 DEF StandsInv

LEMMA BeginHaltStands ==
  ASSUME StandsInv, NEW t \in Tasks, Free(t), NEW reason \in Reasons,
         BeginHalt(t, reason), UNCHANGED <<flag, durableFlag>>
  PROVE  StandsInv'
<1> USE DEF StandsInv
<1>1. HaltCall(reason) \in [op : {"none", "halt", "resume"},
                            at : {"-", "lock", "update", "commit"},
                            reason : Reasons, replacing : BOOLEAN]
  BY DEF HaltCall, NoCall, Reasons, FlagOK
<1>2. CallsOK' /\ FlagOK'
  BY <1>1 DEF BeginHalt, CallsOK, FlagOK
<1>3. CASE Superseded(reason)
  <2>1. /\ call' = [call EXCEPT ![t] = NoCall]
        /\ owed' = (owed \/ (durableFlag.halted /\ ~torn)) /\ flag.halted
        /\ UNCHANGED halting /\ t \notin halting
    BY <1>3 DEF BeginHalt, HaltCall, Superseded, Free, HaltingHalts
  <2>2. HaltingHalts'
    BY <2>1 DEF CallsOK, HaltingHalts
  <2> QED BY <1>2, <2>1, <2>2 DEF HaltStands
<1>4. CASE ~Superseded(reason)
  <2>1. /\ call' = [call EXCEPT ![t] = [op |-> "halt", at |-> "lock", reason |-> reason,
                                        replacing |-> flag.halted]]
        /\ halting' = halting \cup {t} /\ UNCHANGED owed
    BY <1>4 DEF BeginHalt, HaltCall
  <2> QED BY <1>2, <2>1 DEF CallsOK, HaltingHalts, HaltStands
<1> QED BY <1>2, <1>3, <1>4

LEMMA UpdateStands ==
  ASSUME StandsInv, NEW t \in Tasks, Update(t)
  PROVE  StandsInv'
<1> USE DEF StandsInv
<1>1. CallsOK'
  BY DEF Update, CallsOK
<1>2. FlagOK'
  BY DEF Update, Written, HaltedFor, FlagOK, CallsOK
<1>3. CASE call[t].op = "resume"
  BY <1>1, <1>2, <1>3 DEF Update, HaltingHalts, HaltStands
<1>4. CASE call[t].op # "resume"
  <2>1. flag.halted => flag'.halted
    BY <1>4 DEF Update, Written, HaltedFor, FlagOK
  <2>2. t \in halting => flag'.halted
    <3>1. CASE call[t].replacing
      BY <2>1, <3>1 DEF HaltingHalts
    <3>2. CASE ~call[t].replacing
      BY <1>4, <3>2 DEF Update, Written, HaltedFor
    <3> QED BY <3>1, <3>2
  <2>3. /\ UNCHANGED <<halting, owed, durableFlag>>
        /\ \A u \in Tasks : /\ call'[u].op = call[u].op
                            /\ call'[u].replacing = call[u].replacing
                            /\ u # t => call'[u].at = call[u].at
    BY <1>4 DEF Update, CallsOK
  <2> QED BY <1>1, <1>2, <2>1, <2>2, <2>3 DEF HaltingHalts, HaltStands
<1> QED BY <1>3, <1>4

(* A failed write, a task that gives up and a restart leave only halts that *)
(* were there before.                                                       *)
LEMMA RaiseStands ==
  ASSUME StandsInv, NEW t \in Tasks, Raise(t), UNCHANGED <<flag, durableFlag, owed>>
  PROVE  StandsInv'
<1> USE DEF StandsInv
<1>1. CallsOK' /\ FlagOK'
  BY DEF Raise, CallsOK, FlagOK, NoCall, Reasons
<1>2. \A u \in Tasks : u \in halting' => u \in halting /\ call'[u] = call[u]
  BY DEF Raise, CallsOK
<1> QED BY <1>1, <1>2 DEF HaltingHalts, HaltStands

LEMMA TaskStands ==
  ASSUME StandsInv, NEW t \in Tasks, TaskStep(t)
  PROVE  StandsInv'
<1> USE DEF StandsInv
<1>1. CASE Begin(t)
  <2>1. /\ CallsOK' /\ UNCHANGED <<flag, durableFlag, owed, halting>>
        /\ \A u \in Tasks : /\ call'[u].op = call[u].op
                            /\ call'[u].replacing = call[u].replacing
                            /\ call'[u].at = "commit" => call[u].at = "commit"
    BY <1>1 DEF Begin, CallsOK
  <2> QED BY <2>1 DEF FlagOK, HaltingHalts, HaltStands
<1>2. CASE BeginFails(t) \/ UpdateFails(t)
  BY <1>2, RaiseStands DEF BeginFails, UpdateFails
<1>3. CASE Update(t)
  BY <1>3, UpdateStands
<1>4. CASE Commit(t)
  <2>1. CallsOK' /\ FlagOK'
    BY <1>4 DEF Commit, CallsOK, FlagOK, NoCall, Reasons
  <2>2. \A u \in Tasks : u \in halting' => u \in halting /\ call'[u] = call[u]
    BY <1>4 DEF Commit, CallsOK
  <2>3. HaltingHalts' /\ HaltStands'
    BY <1>4, <2>2 DEF Commit, HaltingHalts, HaltStands
  <2> QED BY <2>1, <2>3
<1>5. CASE CommitFails(t)
  <2>1. CallsOK' /\ FlagOK'
    BY <1>5 DEF CommitFails, CallsOK, FlagOK, NoCall, Reasons
  <2>2. HaltingHalts' /\ HaltStands'
    BY <1>5 DEF CommitFails, HaltingHalts, HaltStands
  <2> QED BY <2>1, <2>2
<1> QED BY <1>1, <1>2, <1>3, <1>4, <1>5 DEF TaskStep

LEMMA StandsStep == StandsInv /\ [HaltNext]_haltVars => StandsInv'
<1> SUFFICES ASSUME StandsInv, [HaltNext]_haltVars PROVE StandsInv'
  OBVIOUS
<1>1. ASSUME NEW t \in Tasks, AskHalt(t) PROVE StandsInv'
  BY <1>1, BeginHaltStands DEF AskHalt, Reasons
<1>2. CASE AskResume
  <2>1. "owner" \in Tasks /\ call["owner"].op = "none"
    BY <1>2 DEF AskResume, Free, Tasks
  <2>2. CallsOK' /\ FlagOK'
    BY <1>2, <2>1 DEF StandsInv, AskResume, CallsOK, FlagOK, NoCall, Reasons
  <2>3. "owner" \notin halting
    BY <2>1 DEF StandsInv, HaltingHalts
  <2>4. HaltingHalts' /\ HaltStands'
    BY <1>2, <2>3 DEF StandsInv, AskResume, CallsOK, HaltingHalts, HaltStands
  <2> QED BY <2>2, <2>4 DEF StandsInv
<1>3. ASSUME NEW breach \in BOOLEAN, Measure(breach) PROVE StandsInv'
  <2>1. CASE breach
    BY <1>3, <2>1, BeginHaltStands DEF Measure, Reasons, Tasks
  <2>2. CASE ~breach
    BY <1>3, <2>2 DEF Measure, StandsInv, CallsOK, FlagOK, HaltingHalts, HaltStands
  <2> QED BY <2>1, <2>2
<1>4. CASE EntryWriteFails
  BY <1>4, BeginHaltStands DEF EntryWriteFails, Reasons, Tasks
<1>5. ASSUME NEW t \in Tasks, TaskStep(t) PROVE StandsInv'
  BY <1>5, TaskStands
<1>6. CASE Restart
  <2>1. CallsOK' /\ FlagOK'
    BY <1>6 DEF StandsInv, Restart, CallsOK, FlagOK, NoCall, Reasons
  <2>2. HaltingHalts' /\ HaltStands'
    BY <1>6 DEF StandsInv, Restart, HaltingHalts, HaltStands
  <2> QED BY <2>1, <2>2 DEF StandsInv
<1>7. CASE CheckHalted \/ ReadHalted \/ OpenEntry \/ EndPass \/ UNCHANGED haltVars
  <2>1. UNCHANGED <<flag, durableFlag, call, owed, halting>>
    BY <1>7 DEF CheckHalted, ReadHalted, OpenEntry, EndPass, haltVars
  <2> QED BY <2>1 DEF StandsInv, CallsOK, FlagOK, HaltingHalts, HaltStands
<1> QED BY <1>1, <1>2, <1>3, <1>4, <1>5, <1>6, <1>7 DEF HaltNext

LEMMA StandsInvariant == HaltSpec => []StandsInv
BY StandsStarts, StandsStep, PTL DEF HaltSpec

(* A halt() that returned is in force and survives a restart until a       *)
(* resume() writes or a write of the flag fails, although halt() reads the *)
(* row outside its transaction (state/halt.py): a halt that only replaces  *)
(* the reason relies on the row it read, and nothing but a resume clears   *)
(* that row before it writes.                                              *)
THEOREM ReturnedHaltStands == HaltSpec => []HaltStands
<1>1. StandsInv => HaltStands
  BY DEF StandsInv
<1> QED BY <1>1, StandsInvariant, PTL

-----------------------------------------------------------------------------
PassInv == /\ opened \in Nat
           /\ pass = "passing" => ~seenOwed

LEMMA PassStarts == HaltInit => PassInv
BY DEF HaltInit, PassInv

LEMMA PassStep == StandsInv /\ PassInv /\ [HaltNext]_haltVars => PassInv'
<1> SUFFICES ASSUME StandsInv, PassInv, [HaltNext]_haltVars PROVE PassInv'
  OBVIOUS
<1> USE DEF PassInv
<1>1. ASSUME NEW t \in Tasks, AskHalt(t) PROVE PassInv'
  BY <1>1 DEF AskHalt
<1>2. ASSUME NEW t \in Tasks, TaskStep(t) PROVE PassInv'
  BY <1>2 DEF TaskStep, Begin, BeginFails, Update, UpdateFails, Commit, CommitFails, Raise
<1>3. ASSUME NEW breach \in BOOLEAN, Measure(breach) PROVE PassInv'
  BY <1>3 DEF Measure
<1>4. CASE ReadHalted
  BY <1>4 DEF ReadHalted, StandsInv, HaltStands
<1>5. CASE AskResume \/ CheckHalted \/ OpenEntry \/ EntryWriteFails \/ EndPass \/ Restart
           \/ UNCHANGED haltVars
  BY <1>5 DEF AskResume, CheckHalted, OpenEntry, EntryWriteFails, EndPass, Restart, haltVars
<1> QED BY <1>1, <1>2, <1>3, <1>4, <1>5 DEF HaltNext

LEMMA OnlyAPassOpens ==
  ASSUME PassInv, [HaltNext]_haltVars, opened' > opened
  PROVE  ~seenOwed
<1>1. ASSUME NEW t \in Tasks, TaskStep(t) PROVE FALSE
  BY <1>1 DEF PassInv, TaskStep, Begin, BeginFails, Update, UpdateFails, Commit, CommitFails,
     Raise
<1>2. CASE OpenEntry
  BY <1>2 DEF PassInv, OpenEntry
<1>3. CASE AskResume \/ CheckHalted \/ ReadHalted \/ EntryWriteFails \/ EndPass \/ Restart
           \/ UNCHANGED haltVars \/ (\E t \in Tasks : AskHalt(t))
           \/ (\E breach \in BOOLEAN : Measure(breach))
  BY <1>3 DEF PassInv, AskResume, CheckHalted, ReadHalted, EntryWriteFails, EndPass, Restart,
     haltVars, AskHalt, Measure
<1> QED BY <1>1, <1>2, <1>3 DEF HaltNext

(* An entry pass that began after a halt() returned opens nothing: the     *)
(* second is_halted, read as the pass begins (app/loops.py,                *)
(* _evaluate_entries), is what carries it.                                 *)
THEOREM PassesHeedHalts == HaltSpec => PassHeedsHalts
<1>1. PassInv /\ [HaltNext]_haltVars => [opened' > opened => ~seenOwed]_haltVars
  BY OnlyAPassOpens
<1> QED BY <1>1, PassStarts, PassStep, StandsInvariant, PTL DEF HaltSpec, PassHeedsHalts

-----------------------------------------------------------------------------
(* The schema migrations *)

SchemaFilesOK ==
  /\ applied \in [Files -> Nat]
  /\ version \in {0} \cup Files
  /\ deployed \in Files
  /\ starting \in [at : {"down", "files", "up", "refused"}, file : Nat, done : Nat]

(* The file a start runs is the first that is not recorded, and what it has *)
(* run of it is in the database, more of it perhaps from an earlier start.  *)
RunsTheNext ==
  starting.at = "files" =>
    /\ starting.file = version + 1 /\ starting.file \in Files
    /\ version < deployed
    /\ starting.done \in Nat /\ starting.done <= applied[starting.file]

(* No file has more statements in the database than it has.                 *)
NoneTwice == \A f \in Files : applied[f] <= Statements[f]

WholeInv == SchemaFilesOK /\ RunsTheNext /\ NoneTwice /\ VersionIsWhole

LEMMA FilesAre == Files = 1 .. 8 /\ Statements \in [Files -> Nat]
BY DEF Files, Statements

LEMMA WholeStarts == SchemaInit => WholeInv
<1> USE FilesAre
<1> QED
  BY DEF SchemaInit, WholeInv, SchemaFilesOK, RunsTheNext, NoneTwice, VersionIsWhole, NotStarting

(* Where a start goes on after version v: the next file, or up.             *)
LEMMA PendingIs ==
  ASSUME NEW v \in {0} \cup Files, deployed \in Files
  PROVE  /\ v = deployed => Pending(v).at = "up"
         /\ v # deployed => Pending(v) = [at |-> "files", file |-> v + 1, done |-> 0]
BY DEF Pending

LEMMA WholeStep == WholeInv /\ [SchemaNext]_schemaVars => WholeInv'
<1> SUFFICES ASSUME WholeInv, [SchemaNext]_schemaVars PROVE WholeInv'
  OBVIOUS
<1> USE FilesAre DEF WholeInv
<1>1. CASE ReadVersion
  <2>1. UNCHANGED <<applied, version, deployed>>
    BY <1>1 DEF ReadVersion
  <2>2. CASE version > deployed
    BY <1>1, <2>1, <2>2 DEF ReadVersion, NotStarting, SchemaFilesOK, RunsTheNext, NoneTwice,
       VersionIsWhole
  <2>3. CASE ~(version > deployed)
    <3>1. starting' = Pending(version)
      BY <1>1, <2>3 DEF ReadVersion
    <3>2. CASE version = deployed
      <4>1. starting'.at = "up" /\ starting' = [at |-> "up", file |-> 0, done |-> 0]
        BY <3>1, <3>2 DEF Pending
      <4> QED
        BY <2>1, <3>2, <4>1 DEF SchemaFilesOK, RunsTheNext, NoneTwice, VersionIsWhole
    <3>3. CASE version < deployed
      <4>1. starting' = [at |-> "files", file |-> version + 1, done |-> 0]
        BY <3>1, <3>3 DEF Pending, SchemaFilesOK
      <4>2. version + 1 \in Files
        BY <3>3 DEF SchemaFilesOK
      <4>3. SchemaFilesOK'
        BY <2>1, <4>1, <4>2 DEF SchemaFilesOK
      <4>4. RunsTheNext' /\ NoneTwice' /\ VersionIsWhole'
        BY <2>1, <3>3, <4>1, <4>2 DEF SchemaFilesOK, RunsTheNext, NoneTwice, VersionIsWhole
      <4> QED BY <4>3, <4>4
    <3> QED BY <2>3, <3>2, <3>3 DEF SchemaFilesOK
  <2> QED BY <2>2, <2>3
<1>2. CASE Statement
  <2> DEFINE f == starting.file
             n == starting.done + 1
  <2>1. /\ starting.at = "files" /\ n <= Statements[f]
        /\ UNCHANGED <<version, deployed>>
        /\ f \in Files /\ f = version + 1 /\ n \in Nat
    BY <1>2 DEF Statement, RunsTheNext
  <2>2. CASE n <= applied[f] /\ f \notin Repeatable
    <3>1. UNCHANGED applied /\ starting' = [at |-> "refused", file |-> 0, done |-> 0]
      BY <1>2, <2>2 DEF Statement, NotStarting
    <3> QED
      BY <2>1, <3>1 DEF SchemaFilesOK, RunsTheNext, NoneTwice, VersionIsWhole
  <2>3. CASE ~(n <= applied[f] /\ f \notin Repeatable)
    <3>1. applied' = [applied EXCEPT ![f] = IF n > @ THEN n ELSE @]
      BY <1>2, <2>3 DEF Statement
    <3>2. /\ starting' = [starting EXCEPT !.done = n]
      BY <1>2, <2>3 DEF Statement
    <3>3. /\ starting'.at = "files" /\ starting'.file = f /\ starting'.done = n
          /\ SchemaFilesOK'
      BY <2>1, <3>1, <3>2 DEF SchemaFilesOK
    <3>4. /\ n <= applied'[f] /\ applied'[f] <= Statements[f]
          /\ \A g \in Files \ {f} : applied'[g] = applied[g]
      BY <2>1, <3>1 DEF SchemaFilesOK, NoneTwice
    <3>5. RunsTheNext' /\ NoneTwice'
      BY <2>1, <3>3, <3>4 DEF RunsTheNext, NoneTwice
    <3>6. VersionIsWhole'
      BY <2>1, <3>3, <3>4 DEF VersionIsWhole, SchemaFilesOK
    <3> QED BY <3>3, <3>5, <3>6
  <2> QED BY <2>2, <2>3
<1>3. CASE StatementFails \/ SchemaDown
  <2>1. UNCHANGED <<applied, version, deployed>> /\ starting' \in {NotStarting, [NotStarting EXCEPT !.at = "refused"]}
    BY <1>3 DEF StatementFails, SchemaDown
  <2> QED
    BY <2>1 DEF NotStarting, SchemaFilesOK, RunsTheNext, NoneTwice, VersionIsWhole
<1>4. CASE RecordVersion
  <2>1. /\ UNCHANGED <<applied, deployed>>
        /\ version' = version + 1 /\ version' \in Files /\ version' <= deployed
        /\ applied[version'] = Statements[version']
        /\ starting' = Pending(version')
    BY <1>4 DEF RecordVersion, RunsTheNext, NoneTwice, SchemaFilesOK
  <2>2. SchemaFilesOK' /\ RunsTheNext' /\ NoneTwice'
    BY <2>1, PendingIs DEF SchemaFilesOK, RunsTheNext, NoneTwice, Pending
  <2>3. VersionIsWhole'
    BY <2>1 DEF SchemaFilesOK, VersionIsWhole, Pending
  <2> QED BY <2>2, <2>3
<1>5. CASE Deploy
  BY <1>5 DEF Deploy, SchemaFilesOK, RunsTheNext, NoneTwice, VersionIsWhole
<1>6. CASE UNCHANGED schemaVars
  BY <1>6 DEF schemaVars, SchemaFilesOK, RunsTheNext, NoneTwice, VersionIsWhole
<1> QED BY <1>1, <1>2, <1>3, <1>4, <1>5, <1>6 DEF SchemaNext

(* The bot never runs on a schema of which a statement is missing, whatever *)
(* dies, fails or is deployed between two starts: the version is written    *)
(* only behind the last statement of its file, and a file that is run again *)
(* fails at once or repeats what it did (db/migrations.py, apply).          *)
THEOREM VersionsAreWhole == SchemaSpec => []VersionIsWhole
<1> QED BY WholeStarts, WholeStep, PTL DEF SchemaSpec, WholeInv

-----------------------------------------------------------------------------
(* The nightly backup *)

(* The latch of the alert is the incident itself. *)
ToldOnce == /\ failing \in Nat
            /\ failing = 0 => backupAlerted = FALSE /\ toldOf = 0
            /\ failing > 0 => backupAlerted = TRUE /\ toldOf = 1

BackupInv == /\ night \in Nights /\ files \subseteq [night : Nights, reads : BOOLEAN]
             /\ ToldOnce /\ OnlyProvenBackupsStay

LEMMA BackupStarts == BackupInit => BackupInv
<1> SUFFICES ASSUME BackupInit PROVE BackupInv
  OBVIOUS
<1>1. ToldOnce
  BY DEF BackupInit, ToldOnce
<1>2. night \in Nights /\ files = {}
  BY BackupBounds DEF BackupInit, Nights
<1> QED BY <1>1, <1>2 DEF BackupInv, OnlyProvenBackupsStay

LEMMA BackupFilesStep ==
  ASSUME BackupInv, [BackupNext]_backupVars
  PROVE  /\ night' \in Nights /\ (files \subseteq [night : Nights, reads : BOOLEAN])'
         /\ OnlyProvenBackupsStay'
<1> USE DEF BackupInv, OnlyProvenBackupsStay, BackupFile
<1>1. CASE BeginCopy
  <2>1. BackupFile(night, FALSE) \in [night : Nights, reads : BOOLEAN]
    OBVIOUS
  <2>2. ASSUME NEW f \in files', ~f.reads PROVE f.night = night \/ f.night \in onRecord \cup halfCopied
    BY <1>1, <2>2 DEF BeginCopy
  <2> QED BY <1>1, <2>1, <2>2 DEF BeginCopy
<1>2. CASE CopyProved
  <2>1. ASSUME NEW f \in files, ~f.reads, f.night = night PROVE f = BackupFile(night, FALSE)
    <3>1. f \in [night : Nights, reads : BOOLEAN]
      OBVIOUS
    <3>2. f.reads = FALSE
      BY <3>1, <2>1
    <3> QED BY <2>1, <3>1, <3>2
  <2>2. BackupFile(night, TRUE) \in [night : Nights, reads : BOOLEAN] /\ BackupFile(night, TRUE).reads
    OBVIOUS
  <2> QED BY <1>2, <2>1, <2>2 DEF CopyProved
<1>3. CASE CopyFailed
  BY <1>3 DEF CopyFailed, AlertsNow
<1>4. CASE Prune
  BY <1>4 DEF Prune
<1>5. CASE JobDies
  <2>1. files' = files /\ night' = night
    BY <1>5 DEF JobDies
  <2>2. ASSUME NEW f \in files, ~f.reads PROVE f.night \in onRecord' \cup halfCopied'
    BY <1>5, <2>2 DEF JobDies
  <2> QED BY <2>1, <2>2
<1>6. CASE NextNight
  BY <1>6 DEF NextNight
<1>7. CASE UNCHANGED backupVars
  BY <1>7 DEF backupVars
<1> QED BY <1>1, <1>2, <1>3, <1>4, <1>5, <1>6, <1>7 DEF BackupNext

LEMMA ToldOnceStep == ToldOnce /\ [BackupNext]_backupVars => ToldOnce'
<1> SUFFICES ASSUME ToldOnce, [BackupNext]_backupVars PROVE ToldOnce'
  OBVIOUS
<1>1. CASE CopyFailed
  BY <1>1 DEF ToldOnce, CopyFailed, AlertsNow
<1>2. CASE CopyProved \/ JobDies
  <2>1. backupAlerted' = FALSE /\ failing' = 0 /\ toldOf' = 0
    BY <1>2 DEF CopyProved, JobDies
  <2> QED BY <2>1 DEF ToldOnce
<1>3. CASE BeginCopy \/ Prune \/ NextNight \/ UNCHANGED backupVars
  BY <1>3 DEF ToldOnce, BeginCopy, Prune, NextNight, backupVars
<1> QED BY <1>1, <1>2, <1>3 DEF BackupNext

(* A file that cannot be restored from is the one being copied, on record   *)
(* or cut short by a death, and a run of failed nights is told once: for    *)
(* any retention, any failures and any nights without a process.            *)
THEOREM FailedBackupsAreKnown == BackupSpec => []FailedBackupIsKnown
<1>1. BackupInv => FailedBackupIsKnown
  BY DEF BackupInv, ToldOnce, FailedBackupIsKnown
<1>2. BackupInv /\ [BackupNext]_backupVars => BackupInv'
  BY BackupFilesStep, ToldOnceStep DEF BackupInv
<1> QED BY BackupStarts, <1>1, <1>2, PTL DEF BackupSpec

-----------------------------------------------------------------------------
(* The instance lock *)

(* While an instance holds the lock, the marker is the owner's last alert,  *)
(* unless a later one could not be written and the marker has aged out.     *)
RefusalInv ==
  /\ hour \in Nat /\ marker \in Int /\ ownerTold \in Int /\ markerFaults \in Nat
  /\ holder # Nobody =>
       /\ ownerTold <= hour
       /\ marker # NoMarker => marker = ownerTold \/ hour - marker > AgeOut
       /\ markerFaults = 0 => marker = ownerTold
  /\ RefusalToldDaily

LEMMA RefusalStarts == InstanceInit => RefusalInv
  BY DEF InstanceInit, RefusalInv, RefusalToldDaily, NoMarker

LEMMA RefusalStep == RefusalInv /\ [InstanceNext]_instanceVars => RefusalInv'
<1> SUFFICES ASSUME RefusalInv, [InstanceNext]_instanceVars PROVE RefusalInv'
  OBVIOUS
<1> USE InstanceBounds DEF RefusalInv, RefusalToldDaily, NoMarker
<1>1. ASSUME NEW i \in Instances, TakeLock(i) PROVE RefusalInv'
  BY <1>1 DEF TakeLock
<1>2. ASSUME NEW i \in Instances, Refused(i) PROVE RefusalInv'
  <2>1. CASE Suppressed
    <3>1. /\ marker' = marker /\ silent' = (silent \/ ownerTold = NoMarker \/ hour - ownerTold > AgeOut)
          /\ UNCHANGED <<hour, holder, ownerTold, repeated, markerFaults>> /\ holder # Nobody
      BY <1>2, <2>1 DEF Refused, MarkerAfterRepeat
    <3>2. ~(ownerTold = NoMarker \/ hour - ownerTold > AgeOut)
      BY <2>1, <3>1 DEF Suppressed
    <3>3. ~silent'
      BY <3>1, <3>2
    <3> QED BY <3>1, <3>3
  <2>2. CASE ~Suppressed
    <3>1. /\ ownerTold' = hour /\ UNCHANGED <<hour, holder, silent>> /\ holder # Nobody
          /\ \/ marker' = hour /\ UNCHANGED markerFaults
             \/ markerFaults' = markerFaults + 1 /\ UNCHANGED marker
          /\ repeated' = (repeated \/ (ownerTold # NoMarker /\ hour - ownerTold <= AgeOut
                                         /\ markerFaults = 0))
      BY <1>2, <2>2 DEF Refused
    <3>2. ~(ownerTold # NoMarker /\ hour - ownerTold <= AgeOut /\ markerFaults = 0)
      BY <2>2, <3>1 DEF Suppressed
    <3>3. ~repeated'
      BY <3>1, <3>2
    <3>4. marker # NoMarker => hour - marker > AgeOut \/ marker > hour
      BY <2>2 DEF Suppressed
    <3> QED BY <3>1, <3>3, <3>4
  <2> QED BY <2>1, <2>2
<1>3. ASSUME NEW i \in Instances, InstanceEnds(i) PROVE RefusalInv'
  BY <1>3 DEF InstanceEnds
<1>4. CASE HourPasses
  BY <1>4 DEF HourPasses
<1>5. CASE MarkerDamaged
  BY <1>5 DEF MarkerDamaged
<1>6. CASE UNCHANGED instanceVars
  BY <1>6 DEF instanceVars
<1> QED BY <1>1, <1>2, <1>3, <1>4, <1>5, <1>6 DEF InstanceNext

(* An instance that is refused again and again is told of once within the   *)
(* window, never silenced and never at each restart, whatever the window    *)
(* and however instances come and go.                                       *)
THEOREM RefusalsAreToldDaily == InstanceSpec => []RefusalToldDaily
<1>1. RefusalInv => RefusalToldDaily
  BY DEF RefusalInv
<1> QED BY RefusalStarts, RefusalStep, <1>1, PTL DEF InstanceSpec

-----------------------------------------------------------------------------
(* The commission backfill *)

TradesOK ==
  \A o \in Orders :
    /\ trade[o][1] \in Int /\ trade[o][2] \in Int /\ trade[o][1] <= trade[o][2]
    /\ fee[o].due => fee[o].lag \in 0..FeeLag

RunOK == /\ time \in Int /\ commission \in [Orders -> {Unasked, ZeroFee, Whole, Part}]
         /\ run \in [at : {"idle", "orders", "marking"}, until : Int, read : Int,
                     feed : BOOLEAN, todo : SUBSET Orders, updated : SUBSET Orders,
                     order : Orders \cup {Unasked}]
         /\ run.at = "marking" => run.order \in Orders

(* A run asks about its orders before a fee can have posted that its feed   *)
(* did not show, yet counts as settled.                                     *)
ReadInTime == run.at # "idle" => time - run.read <= FeeSettle - FeeLag

(* What a run has settled and not yet rewritten is on its list; a row is    *)
(* told about while it is being marked.                                     *)
RunsWhole ==
  /\ alerts \in [Orders -> Nat]
  /\ \A o \in Orders \ cut :
       /\ profit[o] = commission[o] \/ (run.at # "idle" /\ o \in run.updated)
       /\ alerts[o] = IF o \in told \/ (run.at = "marking" /\ o = run.order) THEN 1 ELSE 0

CommissionInv == TradesOK /\ RunOK /\ ReadInTime /\ ZeroIsMeasured /\ RunsWhole

LEMMA CommissionStarts == CommissionInit => CommissionInv
<1> SUFFICES ASSUME CommissionInit PROVE CommissionInv
  OBVIOUS
<1>1. TradesOK
  <2> SUFFICES ASSUME NEW o \in Orders
               PROVE  /\ trade[o][1] \in Int /\ trade[o][2] \in Int /\ trade[o][1] <= trade[o][2]
                      /\ fee[o].due => fee[o].lag \in 0..FeeLag
    BY DEF TradesOK
  <2>1. \E s \in 0..1, d \in 0..1 : trade[o] = <<s, s + d>>
    BY DEF CommissionInit, FirstTrades
  <2>2. fee[o] \in Fees
    BY DEF CommissionInit
  <2>3. fee[o].due => fee[o].lag \in 0..FeeLag
    <3>1. fee[o] \in [due : {TRUE}, lag : 0..FeeLag] \/ fee[o] = NoFee
      BY <2>2 DEF Fees
    <3>2. NoFee.due = FALSE
      BY DEF NoFee
    <3> QED BY <3>1, <3>2
  <2>4. trade[o][1] \in Int /\ trade[o][2] \in Int /\ trade[o][1] <= trade[o][2]
    BY <2>1
  <2> QED BY <2>3, <2>4
<1>2. RunOK
  BY DEF CommissionInit, RunOK, NoRun, Unasked
<1>3. ReadInTime /\ RunsWhole
  BY DEF CommissionInit, ReadInTime, RunsWhole, NoRun
<1>4. ZeroIsMeasured
  BY DEF CommissionInit, ZeroIsMeasured, Unasked, ZeroFee
<1> QED BY <1>1, <1>2, <1>3, <1>4 DEF CommissionInv

(* A zero is found only where no fee is due: one that is would be in the    *)
(* feed by the time its trade counts as settled.                            *)
LEMMA NoFeeFound ==
  ASSUME CommissionInv, NEW o \in Orders, run.at # "idle", FeeFound(o) = ZeroFee
  PROVE  ~fee[o].due
<1> SUFFICES ASSUME fee[o].due PROVE FALSE
  OBVIOUS
<1>1. /\ InFeed(o) # {} /\ FeesInFeed(o) = {} /\ FeesOverdue(o)
  BY DEF FeeFound, ZeroFee, Unasked, Whole, Part
<1>2. PICK i \in {1, 2} : i \in InFeed(o)
  BY <1>1 DEF InFeed
<1>3. trade[o][i] + fee[o].lag <= run.read
  <2>1. /\ trade[o][1] \in Int /\ trade[o][2] \in Int /\ trade[o][1] <= trade[o][2]
        /\ fee[o].lag \in 0..FeeLag
    BY DEF CommissionInv, TradesOK
  <2>2. /\ trade[o][i] \in Int /\ trade[o][i] <= trade[o][2]
    BY <2>1
  <2>3. time \in Int /\ run.read \in Int /\ time - run.read <= FeeSettle - FeeLag
    BY DEF CommissionInv, RunOK, ReadInTime
  <2>4. trade[o][2] <= time - FeeSettle
    BY <1>1 DEF FeesOverdue
  <2> QED BY <2>1, <2>2, <2>3, <2>4, CommissionBounds
<1>4. i \in FeesInFeed(o)
  BY <1>2, <1>3 DEF FeesInFeed, Posted
<1> QED BY <1>1, <1>4

LEMMA SettleStep ==
  ASSUME CommissionInv, NEW o \in Orders, Settle(o) PROVE CommissionInv'
<1> USE DEF CommissionInv
<1>0. /\ run.at = "orders" /\ o \in run.todo
      /\ UNCHANGED <<time, trade, fee, told, profit, cut>>
  BY DEF Settle
<1>1. TradesOK'
  BY <1>0 DEF TradesOK
<1>2. FeeFound(o) \in {Unasked, ZeroFee, Whole, Part}
  BY DEF FeeFound
<1>3. CASE FeeFound(o) # Unasked
  <2>1. /\ commission' = [commission EXCEPT ![o] = FeeFound(o)] /\ UNCHANGED alerts
        /\ run' = [run EXCEPT !.todo = @ \ {o}, !.updated = @ \cup {o}]
    BY <1>3 DEF Settle
  <2>2. /\ run'.at = "orders" /\ run'.updated = run.updated \cup {o} /\ run'.read = run.read
        /\ RunOK'
    BY <1>0, <1>2, <2>1 DEF RunOK
  <2>3. ZeroIsMeasured'
    BY <1>0, <2>1, NoFeeFound DEF ZeroIsMeasured, RunOK
  <2>4. RunsWhole'
    BY <1>0, <2>1, <2>2 DEF RunsWhole, RunOK
  <2> QED BY <1>0, <1>1, <2>2, <2>3, <2>4 DEF ReadInTime
<1>4. CASE FeeFound(o) = Unasked /\ time - Settled(o) > Stale /\ o \notin told
  <2>1. /\ UNCHANGED commission /\ alerts' = [alerts EXCEPT ![o] = @ + 1]
        /\ run' = [run EXCEPT !.at = "marking", !.order = o]
    BY <1>4 DEF Settle
  <2>2. /\ run'.at = "marking" /\ run'.order = o /\ run'.updated = run.updated
        /\ run'.read = run.read /\ RunOK'
    BY <1>0, <2>1 DEF RunOK
  <2>3. ZeroIsMeasured'
    BY <1>0, <2>1 DEF ZeroIsMeasured
  <2>4. RunsWhole'
    <3>0. alerts \in [Orders -> Nat] /\ alerts' \in [Orders -> Nat]
      BY <2>1 DEF RunsWhole
    <3> SUFFICES ASSUME NEW q \in Orders \ cut'
                 PROVE  /\ profit'[q] = commission'[q] \/ q \in run'.updated
                        /\ alerts'[q] = IF q \in told' \/ q = run'.order THEN 1 ELSE 0
      BY <2>2, <3>0 DEF RunsWhole
    <3>1. q # o => alerts'[q] = alerts[q]
      BY <2>1, <3>0
    <3>2. q = o => alerts[q] = 0
      BY <1>0, <1>4 DEF RunsWhole
    <3>3. q = o => alerts'[q] = 1
      BY <2>1, <3>0, <3>2
    <3> QED BY <1>0, <2>1, <2>2, <3>1, <3>2, <3>3 DEF RunsWhole
  <2> QED BY <1>0, <1>1, <2>2, <2>3, <2>4 DEF ReadInTime
<1>5. CASE FeeFound(o) = Unasked /\ ~(time - Settled(o) > Stale /\ o \notin told)
  <2>1. UNCHANGED <<commission, alerts>> /\ run' = [run EXCEPT !.todo = @ \ {o}]
    BY <1>5 DEF Settle
  <2>2. /\ run'.at = "orders" /\ run'.updated = run.updated /\ run'.read = run.read /\ RunOK'
    BY <1>0, <2>1 DEF RunOK
  <2> QED BY <1>0, <1>1, <2>1, <2>2 DEF ReadInTime, ZeroIsMeasured, RunsWhole
<1> QED BY <1>3, <1>4, <1>5

LEMMA CommissionStep == CommissionInv /\ [CommissionNext]_commissionVars => CommissionInv'
<1> SUFFICES ASSUME CommissionInv, [CommissionNext]_commissionVars PROVE CommissionInv'
  OBVIOUS
<1> USE DEF CommissionInv
<1>1. CASE BeginRun
  <2>1. /\ UNCHANGED <<time, trade, fee, commission, told, profit, alerts, cut>>
        /\ run.at = "idle" /\ run'.at = "orders" /\ run'.read = time /\ RunOK'
    <3>1. /\ UNCHANGED <<time, trade, fee, commission, told, profit, alerts, cut>>
          /\ run.at = "idle"
      BY <1>1 DEF BeginRun
    <3>2. PICK feed \in BOOLEAN :
            run' = [at |-> "orders", until |-> time, read |-> time, feed |-> feed,
                    todo |-> Missing, updated |-> {}, order |-> Unasked]
      BY <1>1 DEF BeginRun, NoRun
    <3>3. Missing \subseteq Orders
      BY DEF Missing
    <3> QED BY <3>1, <3>2, <3>3 DEF RunOK
  <2> QED BY <2>1, CommissionBounds DEF TradesOK, RunOK, ReadInTime, ZeroIsMeasured, RunsWhole
<1>2. CASE MarkTold
  <2>1. /\ UNCHANGED <<time, trade, fee, commission, profit, alerts, cut>>
        /\ run.at = "marking" /\ told' = told \cup {run.order} /\ run'.at = "orders"
        /\ run'.read = run.read /\ run'.updated = run.updated /\ RunOK'
    BY <1>2 DEF MarkTold, ToldAfter, RunOK
  <2> QED BY <2>1 DEF TradesOK, ReadInTime, ZeroIsMeasured, RunsWhole
<1>3. CASE EndRun
  <2>1. /\ UNCHANGED <<time, trade, fee, commission, told, alerts, cut>>
        /\ run.at = "orders" /\ run' = NoRun /\ run'.at = "idle" /\ RunOK'
    BY <1>3 DEF EndRun, NoRun, RunOK, Unasked
  <2>2. \A o \in Orders : profit'[o] = IF o \in run.updated THEN commission[o] ELSE profit[o]
    BY <1>3 DEF EndRun, Rewritten
  <2> QED BY <2>1, <2>2 DEF TradesOK, ReadInTime, ZeroIsMeasured, RunsWhole
<1>4. CASE CutRun
  <2>1. /\ UNCHANGED <<time, trade, fee, commission, told, profit, alerts>>
        /\ run.at # "idle" /\ run'.at = "idle" /\ RunOK'
        /\ cut' = cut \cup run.updated \cup (IF run.at = "marking" THEN {run.order} ELSE {})
    BY <1>4 DEF CutRun, NoRun, RunOK, Unasked
  <2> QED BY <2>1 DEF TradesOK, ReadInTime, ZeroIsMeasured, RunsWhole
<1>5. CASE TimePasses
  <2>1. /\ UNCHANGED <<trade, fee, commission, told, profit, run, alerts, cut>>
        /\ time' = time + 1
        /\ run.at # "idle" => time - run.read < FeeSettle - FeeLag
    BY <1>5 DEF TimePasses
  <2>2. ReadInTime'
    BY <2>1, CommissionBounds DEF ReadInTime, RunOK
  <2> QED BY <2>1, <2>2 DEF TradesOK, RunOK, ZeroIsMeasured, RunsWhole
<1>6. ASSUME NEW o \in Orders, QueryFails(o) PROVE CommissionInv'
  <2>1. /\ UNCHANGED <<time, trade, fee, commission, told, profit, alerts, cut>>
        /\ run.at = "orders" /\ run'.at = "orders" /\ run'.updated = run.updated
        /\ run'.read = run.read /\ RunOK'
    BY <1>6 DEF QueryFails, RunOK
  <2> QED BY <2>1 DEF TradesOK, ReadInTime, ZeroIsMeasured, RunsWhole
<1>7. CASE UNCHANGED commissionVars
  BY <1>7 DEF commissionVars, TradesOK, RunOK, ReadInTime, ZeroIsMeasured, RunsWhole
<1> QED BY <1>1, <1>2, <1>3, <1>4, <1>5, <1>6, <1>7, SettleStep DEF CommissionNext

(* No trade's fee is recorded as zero while one is still to post, and every *)
(* order no run was cut in the middle of has its result and was told of at  *)
(* most once: for any settle time that exceeds the fees' lag, any number of *)
(* orders, failing reads and writes.                                        *)
THEOREM CommissionsStayTrue == CommissionSpec => []CommissionsAreTrue
<1>1. CommissionInv => CommissionsAreTrue
  BY DEF CommissionInv, RunsWhole, CommissionsAreTrue, UncutRunsAreWhole
<1> QED BY CommissionStarts, CommissionStep, <1>1, PTL DEF CommissionSpec

-----------------------------------------------------------------------------
(* The periodic jobs and the calendar *)

JobsOK == /\ today \in SessionDays /\ slot \in {Before, During, After}
          /\ marked \in [Jobs -> SUBSET Int] /\ worked \in [Jobs -> SUBSET Int]
          /\ loop \in [Jobs -> [at : {"asleep", "work", "mark"}, day : SessionDays]]
          /\ looked \subseteq Jobs

(* A job about to be marked has done its work. *)
AboutToMark == \A j \in Jobs : loop[j].at = "mark" => Period(j, loop[j].day) \in worked[j]

JobsInv == JobsOK /\ AboutToMark /\ PeriodsAreWorked

LEMMA PeriodsAreDays == \A job, day : day \in Int => Period(job, day) \in Int
  BY JobBounds DEF Period

LEMMA JobsStart == JobsInit => JobsInv
<1> SUFFICES ASSUME JobsInit PROVE JobsInv
  OBVIOUS
<1>1. JobsOK
  BY SessionBounds DEF JobsInit, SessionInit, JobsOK, SessionDays, Before, Asleep
<1>2. AboutToMark /\ PeriodsAreWorked
  BY DEF JobsInit, AboutToMark, Asleep, PeriodsAreWorked, MarkedWasWorked, LateNotSkipped
<1> QED BY <1>1, <1>2 DEF JobsInv

(* A loop that finds its job not due, or marked, has nothing left to do.    *)
LEMMA MustHaveRunIsDue ==
  ASSUME slot \in {Before, During, After}, NEW job \in Jobs, MustHaveRun(job)
  PROVE  Due(job)
  BY DEF MustHaveRun, Due, IsOpen, Before, During, After, Jobs

LEMMA LateStays ==
  ASSUME LateNotSkipped, looked \subseteq Jobs, UNCHANGED <<today, slot, fetchedOn, looked>>,
         \A j \in Jobs : marked[j] \subseteq marked'[j]
  PROVE  LateNotSkipped'
<1> SUFFICES ASSUME NEW j \in looked, MustHaveRun(j)' PROVE Period(j, today') \in marked'[j]
  BY DEF LateNotSkipped
<1>1. MustHaveRun(j)
  BY DEF MustHaveRun
<1> QED BY <1>1 DEF LateNotSkipped

LEMMA JobsStep == JobsInv /\ [JobsNext]_jobVars => JobsInv'
<1> SUFFICES ASSUME JobsInv, [JobsNext]_jobVars PROVE JobsInv'
  OBVIOUS
<1> USE DEF JobsInv, PeriodsAreWorked
<1>b. \A outcome : Refresh(outcome) => UNCHANGED <<today, slot>>
  BY DEF Refresh, RefreshUnavailable, RefreshAnswered
<1>1. ASSUME NEW j \in Jobs, LookAt(j) PROVE JobsInv'
  <2>1. UNCHANGED <<today, slot, fetchedOn, marked, worked>>
    BY <1>1 DEF LookAt, sessionVars
  <2>2. CASE Due(j) /\ Period(j, today) \notin marked[j]
    <3>1. /\ loop' = [loop EXCEPT ![j] = [at |-> "work", day |-> today]] /\ UNCHANGED looked
      BY <1>1, <2>2 DEF LookAt
    <3>2. JobsOK' /\ AboutToMark' /\ MarkedWasWorked'
      BY <2>1, <3>1 DEF JobsOK, AboutToMark, MarkedWasWorked
    <3> QED BY <2>1, <3>1, <3>2, LateStays DEF JobsOK
  <2>3. CASE ~(Due(j) /\ Period(j, today) \notin marked[j])
    <3>1. looked' = looked \cup {j} /\ UNCHANGED loop
      BY <1>1, <2>3 DEF LookAt
    <3>2. MustHaveRun(j) => Period(j, today) \in marked[j]
      BY <2>3, MustHaveRunIsDue DEF JobsOK
    <3>3. LateNotSkipped'
      <4> SUFFICES ASSUME NEW k \in looked', MustHaveRun(k)'
                   PROVE  Period(k, today') \in marked'[k]
        BY DEF LateNotSkipped
      <4>1. MustHaveRun(k)
        BY <2>1 DEF MustHaveRun
      <4>2. Period(k, today) \in marked[k]
        BY <3>1, <3>2, <4>1 DEF LateNotSkipped
      <4> QED BY <2>1, <4>2
    <3> QED BY <2>1, <3>1, <3>3 DEF JobsOK, AboutToMark, MarkedWasWorked
  <2> QED BY <2>2, <2>3
<1>2. ASSUME NEW j \in Jobs, DoJob(j) PROVE JobsInv'
  <2>1. /\ loop[j].at = "work" /\ loop' = [loop EXCEPT ![j].at = "mark"]
        /\ worked' = [worked EXCEPT ![j] = @ \cup {Period(j, loop[j].day)}]
        /\ UNCHANGED <<marked, today, slot>>
    BY <1>2, <1>b DEF DoJob, JobFault, sessionVars
  <2>2. /\ looked' = {} \/ (UNCHANGED <<fetchedOn, looked>>)
    BY <1>2 DEF DoJob, sessionVars
  <2>3. JobsOK'
    BY <2>1, <2>2, PeriodsAreDays DEF JobsOK, SessionDays
  <2>4. AboutToMark' /\ MarkedWasWorked'
    BY <2>1 DEF JobsOK, AboutToMark, MarkedWasWorked
  <2>5. LateNotSkipped'
    BY <2>1, <2>2, LateStays DEF JobsOK, LateNotSkipped
  <2> QED BY <2>3, <2>4, <2>5
<1>3. ASSUME NEW j \in Jobs, JobCrashes(j) PROVE JobsInv'
  <2>1. /\ loop' = [loop EXCEPT ![j] = Asleep]
        /\ UNCHANGED <<marked, worked, looked, today, slot, fetchedOn>>
    BY <1>3 DEF JobCrashes, sessionVars
  <2>2. Asleep \in [at : {"asleep", "work", "mark"}, day : SessionDays] /\ Asleep.at = "asleep"
    BY SessionBounds DEF Asleep, SessionDays
  <2>3. JobsOK' /\ AboutToMark' /\ MarkedWasWorked'
    BY <2>1, <2>2 DEF JobsOK, AboutToMark, MarkedWasWorked
  <2> QED BY <2>1, <2>3, LateStays DEF JobsOK
<1>4. ASSUME NEW j \in Jobs, MarkRun(j) PROVE JobsInv'
  <2>1. /\ loop[j].at = "mark" /\ loop' = [loop EXCEPT ![j] = Asleep]
        /\ marked' = [marked EXCEPT ![j] = @ \cup {Period(j, loop[j].day)}]
        /\ UNCHANGED <<worked, looked, today, slot, fetchedOn>>
    BY <1>4 DEF MarkRun, sessionVars
  <2>2. Asleep \in [at : {"asleep", "work", "mark"}, day : SessionDays] /\ Asleep.at = "asleep"
    BY SessionBounds DEF Asleep, SessionDays
  <2>3. JobsOK'
    BY <2>1, <2>2, PeriodsAreDays DEF JobsOK, SessionDays
  <2>4. AboutToMark' /\ MarkedWasWorked'
    BY <2>1, <2>2 DEF JobsOK, AboutToMark, MarkedWasWorked
  <2>5. \A k \in Jobs : marked[k] \subseteq marked'[k]
    BY <2>1 DEF JobsOK
  <2> QED BY <2>1, <2>3, <2>4, <2>5, LateStays DEF JobsOK
<1>5. CASE StartUp
  <2>1. looked' = {} /\ UNCHANGED <<marked, worked, loop, today, slot>>
    BY <1>5, <1>b DEF StartUp, JobFault
  <2> QED BY <2>1 DEF JobsOK, AboutToMark, LateNotSkipped, MarkedWasWorked
<1>6. CASE ProcessDies
  <2>1. /\ looked' = {} /\ loop' = [j \in Jobs |-> Asleep]
        /\ UNCHANGED <<marked, worked, today, slot>>
    BY <1>6 DEF ProcessDies, ForgetSession
  <2>2. Asleep \in [at : {"asleep", "work", "mark"}, day : SessionDays] /\ Asleep.at = "asleep"
    BY SessionBounds DEF Asleep, SessionDays
  <2> QED BY <2>1, <2>2 DEF JobsOK, AboutToMark, LateNotSkipped, MarkedWasWorked
<1>7. CASE SlotEnds
  <2>1. looked' = {} /\ UNCHANGED <<marked, worked, loop>>
    BY <1>7 DEF SlotEnds
  <2>2. today' \in SessionDays /\ slot' \in {Before, During, After}
    BY <1>7, SessionBounds DEF SlotEnds, SessionTick, JobsOK, SessionDays, Before, During, After
  <2> QED BY <2>1, <2>2 DEF JobsOK, AboutToMark, LateNotSkipped, MarkedWasWorked
<1>8. CASE UNCHANGED jobVars
  <2>1. UNCHANGED <<today, slot, fetchedOn, marked, worked, loop, looked>>
    BY <1>8 DEF jobVars, sessionVars
  <2>2. JobsOK' /\ AboutToMark' /\ MarkedWasWorked'
    BY <2>1 DEF JobsOK, AboutToMark, MarkedWasWorked
  <2> QED BY <2>1, <2>2, LateStays DEF JobsOK
<1> QED BY <1>1, <1>2, <1>3, <1>4, <1>5, <1>6, <1>7, <1>8 DEF JobsNext

(* A period that is marked was worked through, and a loop that has had its  *)
(* look leaves no period undone: for any days, outages, failures and ends   *)
(* of the process.                                                          *)
THEOREM PeriodsStayWorked == JobsSpec => []PeriodsAreWorked
<1>1. JobsInv => PeriodsAreWorked
  BY DEF JobsInv
<1> QED BY JobsStart, JobsStep, <1>1, PTL DEF JobsSpec

(* The steps of the calendar: a refresh, the clock, the end of the process. *)
CalendarStep == \/ \E outcome : Refresh(outcome)
                \/ SessionTick \/ ForgetSession \/ UNCHANGED sessionVars

LEMMA JobsMoveTheCalendar == [JobsNext]_jobVars => CalendarStep
<1> SUFFICES ASSUME [JobsNext]_jobVars PROVE CalendarStep
  OBVIOUS
<1>1. ASSUME NEW j \in Jobs, LookAt(j) \/ DoJob(j) \/ JobCrashes(j) \/ MarkRun(j)
      PROVE  CalendarStep
  BY <1>1 DEF CalendarStep, LookAt, DoJob, JobCrashes, MarkRun
<1>2. CASE StartUp \/ ProcessDies \/ SlotEnds \/ UNCHANGED jobVars
  BY <1>2 DEF CalendarStep, StartUp, ProcessDies, SlotEnds, jobVars
<1> QED BY <1>1, <1>2 DEF JobsNext

(* As long as the windows written down join, the record is one stretch of   *)
(* days that ends with the last of them, and so was whatever was reloaded.  *)
Stretch(days) == days = {} \/ \E first, last \in SessionDays : first <= last /\ days = first..last

LastWindow == WindowFrom(lastRecordedOn)

CalendarInv ==
  /\ today \in SessionDays /\ fetchedOn \in SessionDays \cup {Unknown}
  /\ slot \in {Before, During, After}
  /\ lastRecordedOn \in SessionDays \cup {Unknown} /\ lastRecordedOn <= today
  /\ gapped \in BOOLEAN
  /\ ~gapped => /\ Stretch(recorded) /\ Stretch(known)
                /\ LastWindow \subseteq recorded
                /\ \A d \in recorded : lastRecordedOn # Unknown /\ d < lastRecordedOn + Window

LEMMA CalendarStarts == JobsInit => CalendarInv
<1> SUFFICES ASSUME JobsInit PROVE CalendarInv
  OBVIOUS
<1>1. /\ today = 0 /\ slot = Before /\ fetchedOn = Unknown /\ known = {} /\ recorded = {}
      /\ lastRecordedOn = Unknown /\ gapped = FALSE
  BY DEF JobsInit, SessionInit
<1>2. 0 \in SessionDays /\ Unknown <= 0
  BY SessionBounds DEF SessionDays, Unknown
<1>3. LastWindow = {}
  BY <1>1 DEF LastWindow, WindowFrom
<1>4. Stretch(known) /\ Stretch(recorded)
  BY <1>1 DEF Stretch
<1> QED BY <1>1, <1>2, <1>3, <1>4 DEF CalendarInv

LEMMA WindowIsAStretch ==
  ASSUME NEW day \in SessionDays
  PROVE  /\ day \in WindowFrom(day)
         /\ \E last \in SessionDays : day <= last /\ WindowFrom(day) = day..last
                                      /\ last = IF day + Window - 1 <= LastSessionDay
                                                THEN day + Window - 1 ELSE LastSessionDay
<1> DEFINE last == IF day + Window - 1 <= LastSessionDay THEN day + Window - 1 ELSE LastSessionDay
<1>1. last \in SessionDays /\ day <= last
  BY SessionBounds DEF SessionDays
<1>2. WindowFrom(day) = (day..(day + Window - 1)) \cap (0..LastSessionDay)
  BY SessionBounds DEF WindowFrom, SessionDays, Unknown
<1>3. WindowFrom(day) = day..last
  BY <1>2, SessionBounds DEF SessionDays
<1> HIDE DEF last
<1> QED BY <1>1, <1>3, SessionBounds DEF last, SessionDays

(* A window that joins the record makes it a longer stretch. *)
LEMMA WindowJoins ==
  ASSUME CalendarInv, ~gapped,
         ~(lastRecordedOn # Unknown /\ today > lastRecordedOn + Window)
  PROVE  /\ Stretch(recorded \cup WindowFrom(today))
         /\ \A d \in recorded \cup WindowFrom(today) : d < today + Window
<1> USE SessionBounds
<1>1. today \in SessionDays
  BY DEF CalendarInv
<1>2. PICK last \in SessionDays :
        /\ today <= last /\ WindowFrom(today) = today..last
        /\ last = IF today + Window - 1 <= LastSessionDay THEN today + Window - 1 ELSE LastSessionDay
  BY <1>1, WindowIsAStretch
<1>3. CASE recorded = {}
  BY <1>1, <1>2, <1>3 DEF Stretch, SessionDays
<1>4. CASE recorded # {}
  <2>1. /\ lastRecordedOn \in SessionDays /\ lastRecordedOn <= today
        /\ today <= lastRecordedOn + Window
    BY <1>1, <1>4 DEF CalendarInv, SessionDays, Unknown
  <2>2. PICK a, b \in SessionDays : a <= b /\ recorded = a..b
    BY <1>4 DEF CalendarInv, Stretch
  <2>3. PICK l \in SessionDays :
          /\ lastRecordedOn <= l /\ WindowFrom(lastRecordedOn) = lastRecordedOn..l
          /\ l = IF lastRecordedOn + Window - 1 <= LastSessionDay
                 THEN lastRecordedOn + Window - 1 ELSE LastSessionDay
    BY <2>1, WindowIsAStretch
  <2>4. b = l /\ a <= lastRecordedOn
    <3>0. lastRecordedOn..l \subseteq a..b
      BY <2>2, <2>3 DEF CalendarInv, LastWindow
    <3>a. lastRecordedOn \in Int /\ l \in Int /\ lastRecordedOn <= l
      BY <2>1, <2>3 DEF SessionDays
    <3>b. lastRecordedOn \in lastRecordedOn..l /\ l \in lastRecordedOn..l
      BY <3>a
    <3>1. lastRecordedOn \in a..b /\ l \in a..b
      BY <3>0, <3>b
    <3>2. b < lastRecordedOn + Window
      BY <2>2 DEF CalendarInv, SessionDays
    <3> QED BY <2>1, <2>2, <2>3, <3>1, <3>2 DEF SessionDays
  <2>5. recorded \cup WindowFrom(today) = a..last
    BY <1>1, <1>2, <2>1, <2>2, <2>3, <2>4 DEF SessionDays
  <2>6. a <= last
    BY <1>1, <1>2, <2>1, <2>4 DEF SessionDays
  <2>7. Stretch(a..last)
    BY <2>6 DEF Stretch
  <2>8. \A d \in a..last : d < today + Window
    BY <1>1, <1>2 DEF SessionDays
  <2> QED BY <2>5, <2>7, <2>8
<1> QED BY <1>3, <1>4

LEMMA CalendarStays == CalendarInv /\ CalendarStep => CalendarInv'
<1> SUFFICES ASSUME CalendarInv, CalendarStep PROVE CalendarInv'
  OBVIOUS
<1>1. CASE UNCHANGED sessionVars
  BY <1>1 DEF sessionVars, CalendarInv, LastWindow
<1>2. CASE ForgetSession
  BY <1>2 DEF ForgetSession, CalendarInv, LastWindow, Stretch
<1>3. CASE SessionTick
  BY <1>3, SessionBounds DEF SessionTick, CalendarInv, LastWindow, SessionDays, Unknown,
                             Before, During, After
<1>4. CASE RefreshUnavailable
  BY <1>4 DEF RefreshUnavailable, CalendarInv, LastWindow
<1>5. ASSUME NEW written \in BOOLEAN, NEW reloaded \in BOOLEAN, RefreshAnswered(written, reloaded)
      PROVE  CalendarInv'
  <2>1. /\ fetchedOn' = today /\ UNCHANGED <<today, slot>>
    BY <1>5 DEF RefreshAnswered
  <2>2. CASE ~written
    BY <1>5, <2>1, <2>2 DEF RefreshAnswered, CalendarInv, LastWindow
  <2>3. CASE written
    <3>1. /\ recorded' = recorded \cup WindowFrom(today) /\ lastRecordedOn' = today
          /\ gapped' = (gapped \/ (lastRecordedOn # Unknown /\ today > lastRecordedOn + Window))
          /\ known' = recorded' \/ known' = known
      BY <1>5, <2>3 DEF RefreshAnswered
    <3>2. gapped' \in BOOLEAN
      BY <3>1
    <3>3. ASSUME ~gapped'
          PROVE  /\ Stretch(recorded)' /\ Stretch(known)'
                 /\ (LastWindow \subseteq recorded)'
                 /\ \A d \in recorded' : lastRecordedOn' # Unknown /\ d < lastRecordedOn' + Window
      <4>1. ~gapped /\ ~(lastRecordedOn # Unknown /\ today > lastRecordedOn + Window)
        BY <3>1, <3>3
      <4>2. /\ Stretch(recorded \cup WindowFrom(today))
            /\ \A d \in recorded \cup WindowFrom(today) : d < today + Window
        BY <4>1, WindowJoins
      <4>3. Stretch(recorded') /\ Stretch(known')
        BY <3>1, <4>1, <4>2 DEF CalendarInv
      <4>4. lastRecordedOn' # Unknown
        BY <3>1 DEF CalendarInv, SessionDays, Unknown
      <4>5. LastWindow' = WindowFrom(today)
        BY <3>1 DEF LastWindow, WindowFrom
      <4>6. Stretch(recorded)' /\ Stretch(known)'
        BY <4>3 DEF Stretch
      <4> QED BY <3>1, <4>2, <4>4, <4>5, <4>6
    <3> QED BY <2>1, <3>1, <3>2, <3>3 DEF CalendarInv, SessionDays
  <2> QED BY <2>2, <2>3
<1>6. ASSUME NEW outcome, Refresh(outcome) PROVE CalendarInv'
  BY <1>4, <1>5, <1>6 DEF Refresh
<1> QED BY <1>1, <1>2, <1>3, <1>6 DEF CalendarStep

LEMMA EndsOfAStretch ==
  ASSUME NEW first \in Int, NEW last \in Int, first <= last
  PROVE  Min(first..last) = first /\ Max(first..last) = last
<1>1. \E m \in first..last : \A n \in first..last : m <= n
  BY first \in first..last
<1>2. \E m \in first..last : \A n \in first..last : m >= n
  BY last \in first..last
<1>3. /\ Min(first..last) \in first..last /\ \A n \in first..last : Min(first..last) <= n
  BY <1>1 DEF Min
<1>4. /\ Max(first..last) \in first..last /\ \A n \in first..last : Max(first..last) >= n
  BY <1>2 DEF Max
<1> QED BY <1>3, <1>4

(* Every day after an entry that covers() reaches is in the calendar. *)
LEMMA CalendarCounts == CalendarInv => AgeIsExact
<1> SUFFICES ASSUME CalendarInv, NEW entry \in 0..today, Covers(entry), ~gapped,
                    today \in Calendar, fetchedOn <= Max(known) + 1
             PROVE  Age(entry) = TrueAge(entry)
  BY DEF AgeIsExact
<1> USE SessionBounds
<1>1. PICK first, last \in SessionDays : first <= last /\ known = first..last
  BY DEF CalendarInv, Stretch, Covers
<1>2. Min(known) = first /\ Max(known) = last
  BY <1>1, EndsOfAStretch DEF SessionDays
<1>3. entry >= first /\ today \in SessionDays
  BY <1>2 DEF Covers, CalendarInv
<1>4. ASSUME NEW d \in (entry + 1)..today PROVE d \in Calendar
  <2>1. CASE d <= last
    BY <1>1, <1>3, <2>1 DEF Calendar, SessionDays
  <2>2. CASE d > last
    <3>1. today \in WindowFrom(fetchedOn)
      BY <1>1, <1>3, <2>2 DEF Calendar, SessionDays
    <3>2. fetchedOn \in SessionDays /\ today <= fetchedOn + Window - 1
      BY <3>1 DEF WindowFrom, CalendarInv, SessionDays
    <3>3. d \in WindowFrom(fetchedOn)
      BY <1>1, <1>2, <1>3, <2>2, <3>2 DEF WindowFrom, SessionDays, Unknown
    <3> QED BY <3>3 DEF Calendar
  <2> QED BY <1>1, <2>1, <2>2 DEF SessionDays
<1>5. {d \in (entry + 1)..today : d \in TradingDays \cap Calendar}
        = {d \in (entry + 1)..today : d \in TradingDays}
  BY <1>4
<1> QED BY <1>5 DEF Age, TrueAge

(* A position's age is the exchange's own count whenever covers() answers   *)
(* for its entry and the windows written down leave no gap, for any length  *)
(* of the window, any trading days, outages, lost writes and restarts.      *)
THEOREM AgesAreExact == JobsSpec => []AgeIsExact
<1>1. CalendarInv /\ [JobsNext]_jobVars => CalendarInv'
  BY CalendarStays, JobsMoveTheCalendar
<1> QED BY CalendarStarts, CalendarCounts, <1>1, PTL DEF JobsSpec

-----------------------------------------------------------------------------
(* The health of the cycles *)

LEMMA MinOfTwo ==
  ASSUME NEW a \in Int, NEW b \in Int
  PROVE  Min({a, b}) \in Int /\ Min({a, b}) = IF a <= b THEN a ELSE b
<1>1. \E m \in {a, b} : \A n \in {a, b} : m <= n
  OBVIOUS
<1>2. Min({a, b}) \in {a, b} /\ \A n \in {a, b} : Min({a, b}) <= n
  BY <1>1 DEF Min
<1> QED BY <1>2

LEMMA MaxOfTwo ==
  ASSUME NEW a \in Int, NEW b \in Int
  PROVE  Max({a, b}) \in Int /\ Max({a, b}) = IF a >= b THEN a ELSE b
<1>1. \E m \in {a, b} : \A n \in {a, b} : m >= n
  OBVIOUS
<1>2. Max({a, b}) \in {a, b} /\ \A n \in {a, b} : Max({a, b}) >= n
  BY <1>1 DEF Max
<1> QED BY <1>2

(* The escalation is no shorter than the poll. *)
LEMMA EscalationLasts ==
  ASSUME NEW n \in Nat \ {0}
  PROVE  Poll * 2 ^ Min({n, 5}) \in Nat /\ Poll * 2 ^ Min({n, 5}) >= Poll
<1>1. Min({n, 5}) \in 1..5
  BY MinOfTwo
<1>2. 2 ^ 1 = 2 /\ 2 ^ 2 = 4 /\ 2 ^ 3 = 8 /\ 2 ^ 4 = 16 /\ 2 ^ 5 = 32
  OBVIOUS
<1>3. ASSUME NEW k, k = 1 \/ k = 2 \/ k = 3 \/ k = 4 \/ k = 5 PROVE 2 ^ k \in {2, 4, 8, 16, 32}
  BY <1>2, <1>3, Zenon
<1>4. 2 ^ Min({n, 5}) \in {2, 4, 8, 16, 32}
  <2>1. \/ Min({n, 5}) = 1 \/ Min({n, 5}) = 2 \/ Min({n, 5}) = 3 \/ Min({n, 5}) = 4
        \/ Min({n, 5}) = 5
    BY <1>1
  <2> QED BY <1>3, <2>1, Zenon
<1> QED BY <1>4, HealthBounds

(* The count of failures is the outage, its hint the last failure's own,    *)
(* and its alert is latched from the third failure on.                      *)
OutageInv ==
  /\ outage.run \in Nat /\ market.failures = outage.run
  /\ outage.last \in Hints \cup {NoHint} /\ market.hint = outage.last
  /\ outage.run = 0 => outage.last = NoHint
  /\ market.alerted <=> outage.run >= FailuresBeforeAlert
  /\ OutageToldOnce

(* Every cycle fails with a word of the broker, succeeds or notes nothing.  *)
LEMMA CyclesOfTheMarket ==
  [HealthNext]_healthVars =>
    Succeeds \/ NothingNoted \/ \E hint \in Hints \cup {NoHint} : FailsWith(hint)
<1> SUFFICES ASSUME [HealthNext]_healthVars
             PROVE  Succeeds \/ NothingNoted \/ \E hint \in Hints \cup {NoHint} : FailsWith(hint)
  OBVIOUS
<1>1. \A hint \in Hints \cup {NoHint, NoHint - 1} : ~(hint < NoHint) => hint \in Hints \cup {NoHint}
  BY DEF NoHint
<1>2. ASSUME NEW met, NEW bad, NEW hint \in Hints \cup {NoHint, NoHint - 1}, CutShort(met, bad, hint)
      PROVE  NothingNoted \/ \E h \in Hints \cup {NoHint} : FailsWith(h)
  BY <1>1, <1>2 DEF CutShort
<1>3. ASSUME NEW bad, NEW unusable, NEW hint \in Hints \cup {NoHint, NoHint - 1},
             EntriesCutShort(bad, unusable, hint)
      PROVE  NothingNoted \/ \E h \in Hints \cup {NoHint} : FailsWith(h)
  BY <1>1, <1>3 DEF EntriesCutShort
<1>4. CASE UNCHANGED healthVars
  BY <1>4 DEF healthVars, NothingNoted
<1>5. ASSUME NEW bad, NEW asked, NEW unusable,
             \/ UnmeasuredCycle(bad) \/ CycleWithoutEntries(bad)
             \/ FetchCutShort(bad, asked, unusable) \/ EntryCycle(bad, unusable)
             \/ ScheduleMarked \/ \E exhausted \in BOOLEAN : ClosedCycle(exhausted)
      PROVE  Succeeds \/ NothingNoted
  BY <1>5 DEF UnmeasuredCycle, CycleWithoutEntries, FetchCutShort, EntryCycle, ScheduleMarked,
              ClosedCycle
<1> QED BY <1>2, <1>3, <1>4, <1>5 DEF HealthNext

LEMMA OutageStays == OutageInv /\ [HealthNext]_healthVars => OutageInv'
<1> SUFFICES ASSUME OutageInv, [HealthNext]_healthVars PROVE OutageInv'
  OBVIOUS
<1> USE HealthBounds DEF OutageInv, OutageToldOnce, FailuresBeforeAlert
<1>1. CASE Succeeds
  BY <1>1 DEF Succeeds, NoteDataSuccess, NoHint
<1>2. CASE NothingNoted
  BY <1>2 DEF NothingNoted
<1>3. ASSUME NEW hint \in Hints \cup {NoHint}, FailsWith(hint) PROVE OutageInv'
  <2>1. /\ market'.failures = outage.run + 1 /\ market'.hint = hint
        /\ market'.alerted <=> market.alerted \/ outage.run + 1 >= 3
        /\ outage'.run = outage.run + 1 /\ outage'.last = hint
        /\ outage'.told = outage.told + (IF ~market.alerted /\ market'.alerted THEN 1 ELSE 0)
    BY <1>3 DEF FailsWith, NoteDataFailure
  <2> QED BY <2>1
<1> QED BY <1>1, <1>2, <1>3, CyclesOfTheMarket

LEMMA OutageBoundsTheDelay == OutageInv => BackoffHonoursTheBroker
<1> SUFFICES ASSUME OutageInv PROVE BackoffHonoursTheBroker
  OBVIOUS
<1> DEFINE own == IF market.failures > 0 THEN Poll * 2 ^ Min({market.failures, 5}) ELSE Poll
<1>1. own \in Nat /\ own >= Poll
  BY EscalationLasts, HealthBounds DEF OutageInv
<1>2. market.hint \in Int /\ (market.hint = NoHint \/ market.hint >= 0)
  <2>1. market.hint \in Hints \/ market.hint = NoHint
    BY DEF OutageInv
  <2>2. \A h \in Hints : h \in Int /\ h >= 0
    BY HealthBounds
  <2>3. NoHint \in Int
    BY DEF NoHint
  <2> QED BY <2>1, <2>2, <2>3
<1>3. NextDelay(market) = Min({Max({own, market.hint}), MaxBackoff})
  BY DEF NextDelay
<1> HIDE DEF own
<1>4. /\ Max({own, market.hint}) \in Int /\ Max({own, market.hint}) >= own
      /\ Max({own, market.hint}) >= market.hint
      /\ market.hint = NoHint => Max({own, market.hint}) = own
  BY <1>1, <1>2, MaxOfTwo, HealthBounds DEF NoHint
<1>5. Poll <= NextDelay(market) /\ NextDelay(market) <= MaxBackoff
  BY <1>1, <1>3, <1>4, MinOfTwo, HealthBounds
<1>6. ASSUME outage.last # NoHint PROVE NextDelay(market) >= Min({outage.last, MaxBackoff})
  <2>1. market.hint = outage.last
    BY DEF OutageInv
  <2> QED BY <1>2, <1>3, <1>4, <2>1, MinOfTwo, HealthBounds
<1>7. ASSUME outage.run > 0, outage.last = NoHint
      PROVE  NextDelay(market) = Min({Poll * 2 ^ Min({outage.run, 5}), MaxBackoff})
  <2>1. market.failures = outage.run /\ market.hint = NoHint
    BY <1>7 DEF OutageInv
  <2>2. own = Poll * 2 ^ Min({outage.run, 5})
    BY <1>7, <2>1 DEF own
  <2> QED BY <1>3, <1>4, <2>1, <2>2
<1> QED BY <1>5, <1>6, <1>7 DEF BackoffHonoursTheBroker

(* The delay is never below the poll nor above its bound, never below what  *)
(* a broker that limits the rate asked for, and after a plain outage it is  *)
(* the escalation alone: for any poll, bound and hints.                     *)
THEOREM BackoffIsHonoured == HealthSpec => []BackoffHonoursTheBroker
<1>1. HealthInit => OutageInv
  BY DEF HealthInit, OutageInv, OutageToldOnce, FailuresBeforeAlert
<1> QED BY OutageStays, OutageBoundsTheDelay, <1>1, PTL DEF HealthSpec

(* A ticker's count is its run of unusable calls, and its report is latched *)
(* from the third on; the report was made unless the call died before it.   *)
CandlesInv ==
  /\ candles.count \in [Watchlist -> Nat]
  /\ degraded \in [Watchlist -> [run : Nat, told : Nat, lost : BOOLEAN]]
  /\ \A t \in Watchlist :
       /\ candles.count[t] = degraded[t].run
       /\ t \in candles.alerted <=> degraded[t].run >= FailuresBeforeAlert
  /\ DegradedTickerIsTold

LatchInv == /\ latched \subseteq Latches /\ incident \in [Latches -> Nat]
            /\ IncidentToldOnce

LEMMA NoteLatches ==
  ASSUME LatchInv, NEW met, NEW bad, bad \subseteq Latches, Note(met, bad) PROVE LatchInv'
<1>1. /\ latched' = (latched \ met) \cup bad
      /\ incident' = [l \in Latches |->
           IF l \in met \ bad THEN 0
           ELSE IF l \in bad \ latched THEN Min({incident[l] + 1, 2})
           ELSE incident[l]]
  BY DEF Note, LatchesAfter
<1>2. ASSUME NEW l \in Latches PROVE incident'[l] = IF l \in latched' THEN 1 ELSE 0
  <2>1. incident[l] = IF l \in latched THEN 1 ELSE 0
    BY DEF LatchInv, IncidentToldOnce
  <2>2. CASE l \in bad \ latched
    <3>1. Min({incident[l] + 1, 2}) = 1
      BY <2>1, <2>2, MinOfTwo
    <3> QED BY <1>1, <2>2, <3>1
  <2>3. CASE l \notin bad \ latched
    BY <1>1, <2>1, <2>3
  <2> QED BY <2>2, <2>3
<1>3. DOMAIN incident' = Latches /\ incident' = [l \in Latches |-> incident'[l]]
  BY <1>1
<1>4. latched' \subseteq Latches
  BY <1>1 DEF LatchInv
<1>5. incident' \in [Latches -> Nat]
  BY <1>2, <1>3
<1> QED BY <1>2, <1>4, <1>5 DEF LatchInv, IncidentToldOnce

LEMMA FetchTells ==
  ASSUME CandlesInv, NEW asked, asked \subseteq Watchlist, NEW unusable, unusable \subseteq asked,
         Fetch(asked, unusable)
  PROVE  CandlesInv'
<1> DEFINE count == CountAfter(asked, unusable)
           crossed == {t \in unusable : count[t] >= FailuresBeforeAlert /\ t \notin candles.alerted}
           reported == asked = Watchlist
<1>1. /\ candles'.count = count
      /\ candles'.alerted = (candles.alerted \ (asked \ unusable)) \cup crossed
      /\ degraded' = [t \in Watchlist |->
           CASE t \in asked \ unusable -> [run |-> 0, told |-> 0, lost |-> FALSE]
             [] t \in unusable ->
                  [run |-> degraded[t].run + 1,
                   told |-> IF t \in crossed /\ reported THEN Min({degraded[t].told + 1, 2})
                            ELSE degraded[t].told,
                   lost |-> degraded[t].lost \/ (t \in crossed /\ ~reported)]
             [] OTHER -> degraded[t]]
  BY DEF Fetch
<1>2. count = [t \in Watchlist |-> IF t \in unusable THEN candles.count[t] + 1
                                   ELSE IF t \in asked THEN 0 ELSE candles.count[t]]
  BY DEF CountAfter
<1>3. ASSUME NEW t \in Watchlist
      PROVE  /\ degraded'[t] \in [run : Nat, told : Nat, lost : BOOLEAN]
             /\ count[t] \in Nat /\ count[t] = degraded'[t].run
             /\ t \in candles'.alerted <=> degraded'[t].run >= FailuresBeforeAlert
             /\ ~degraded'[t].lost =>
                  degraded'[t].told = IF degraded'[t].run >= FailuresBeforeAlert THEN 1 ELSE 0
  <2>1. /\ degraded[t] \in [run : Nat, told : Nat, lost : BOOLEAN]
        /\ candles.count[t] = degraded[t].run
        /\ t \in candles.alerted <=> degraded[t].run >= 3
        /\ ~degraded[t].lost => degraded[t].told = IF degraded[t].run >= 3 THEN 1 ELSE 0
    BY DEF CandlesInv, DegradedTickerIsTold, FailuresBeforeAlert
  <2>2. CASE t \in asked \ unusable
    <3>1. degraded'[t] = [run |-> 0, told |-> 0, lost |-> FALSE] /\ count[t] = 0
      BY <1>1, <1>2, <2>2
    <3>2. t \notin candles'.alerted
      BY <1>1, <2>2
    <3> QED BY <3>1, <3>2 DEF FailuresBeforeAlert
  <2>3. CASE t \in unusable
    <3> DEFINE tellings == IF t \in crossed /\ reported THEN Min({degraded[t].told + 1, 2})
                           ELSE degraded[t].told
               lost == degraded[t].lost \/ (t \in crossed /\ ~reported)
    <3>1. degraded'[t] = [run |-> degraded[t].run + 1, told |-> tellings, lost |-> lost]
          /\ count[t] = degraded[t].run + 1
      BY <1>1, <1>2, <2>1, <2>3
    <3>2. t \in crossed <=> degraded[t].run + 1 >= 3 /\ t \notin candles.alerted
      BY <1>2, <2>1, <2>3 DEF FailuresBeforeAlert
    <3>3. t \in candles'.alerted <=> degraded[t].run + 1 >= 3
      BY <1>1, <2>1, <2>3, <3>2
    <3>4. tellings \in Nat
      BY <2>1, MinOfTwo
    <3>5. ~lost => tellings = IF degraded[t].run + 1 >= 3 THEN 1 ELSE 0
      BY <2>1, <3>2, MinOfTwo
    <3>6. lost \in BOOLEAN
      OBVIOUS
    <3> HIDE DEF tellings, lost, count
    <3>7. /\ degraded'[t].run = degraded[t].run + 1 /\ degraded'[t].told = tellings
          /\ degraded'[t].lost = lost
      BY <3>1
    <3> QED BY <2>1, <3>1, <3>3, <3>4, <3>5, <3>6, <3>7 DEF FailuresBeforeAlert
  <2>4. CASE t \notin asked
    <3>1. degraded'[t] = degraded[t] /\ count[t] = candles.count[t]
      BY <1>1, <1>2, <2>4
    <3>2. t \in candles'.alerted <=> t \in candles.alerted
      BY <1>1, <2>4
    <3> QED BY <2>1, <3>1, <3>2 DEF FailuresBeforeAlert
  <2> QED BY <2>2, <2>3, <2>4
<1>4. count \in [Watchlist -> Nat]
  BY <1>2, <1>3
<1>5. degraded' \in [Watchlist -> [run : Nat, told : Nat, lost : BOOLEAN]]
  <2>1. degraded' = [t \in Watchlist |-> degraded'[t]]
    BY <1>1
  <2> QED BY <1>3, <2>1
<1> HIDE DEF count, crossed, reported
<1> QED BY <1>1, <1>3, <1>4, <1>5 DEF CandlesInv, DegradedTickerIsTold

LEMMA AlertsStay ==
  LatchInv /\ CandlesInv /\ [HealthNext]_healthVars => LatchInv' /\ CandlesInv'
<1> SUFFICES ASSUME LatchInv, CandlesInv, [HealthNext]_healthVars PROVE LatchInv' /\ CandlesInv'
  OBVIOUS
<1>0. UNCHANGED <<candles, degraded>> => CandlesInv'
  BY DEF CandlesInv, DegradedTickerIsTold
<1>a. {"schedule", "price", "age", "loss"} \subseteq Latches
  BY DEF Latches
<1>1. CASE ScheduleMarked
  <2>1. /\ latched' = latched \ {"schedule"} /\ incident' = [incident EXCEPT !["schedule"] = 0]
        /\ UNCHANGED <<candles, degraded>>
    BY <1>1 DEF ScheduleMarked
  <2> QED BY <1>0, <2>1 DEF LatchInv, IncidentToldOnce
<1>2. ASSUME NEW exhausted \in BOOLEAN, ClosedCycle(exhausted) PROVE LatchInv' /\ CandlesInv'
  <2>1. Note({"schedule"}, IF exhausted THEN {"schedule"} ELSE {}) /\ UNCHANGED <<candles, degraded>>
    BY <1>2 DEF ClosedCycle
  <2> QED BY <1>0, <1>a, <2>1, NoteLatches
<1>3. ASSUME NEW met, NEW bad \in SUBSET {"price", "age"}, NEW hint, CutShort(met, bad, hint)
      PROVE  LatchInv' /\ CandlesInv'
  <2>1. Note(met, bad) /\ UNCHANGED <<candles, degraded>>
    BY <1>3 DEF CutShort
  <2> QED BY <1>0, <1>a, <2>1, NoteLatches
<1>4. ASSUME NEW bad \in SUBSET {"price", "age"}, UnmeasuredCycle(bad) \/ CycleWithoutEntries(bad)
      PROVE  LatchInv' /\ CandlesInv'
  <2>1. /\ UNCHANGED <<candles, degraded>>
        /\ \E met : Note(met, bad \cup {"loss"}) \/ Note(met, bad)
    BY <1>4 DEF UnmeasuredCycle, CycleWithoutEntries
  <2> QED BY <1>0, <1>a, <2>1, NoteLatches
<1>5. ASSUME NEW bad \in SUBSET {"price", "age"}, NEW asked \in SUBSET Watchlist,
             NEW unusable \in SUBSET asked,
             \/ FetchCutShort(bad, asked, unusable)
             \/ asked = Watchlist /\ EntryCycle(bad, unusable)
             \/ asked = Watchlist /\ \E hint \in Hints \cup {NoHint, NoHint - 1} :
                                       EntriesCutShort(bad, unusable, hint)
      PROVE  LatchInv' /\ CandlesInv'
  <2>1. Note({"price", "age", "loss"}, bad) /\ Fetch(asked, unusable)
    BY <1>5 DEF FetchCutShort, EntryCycle, EntriesCutShort
  <2> QED BY <1>a, <2>1, NoteLatches, FetchTells
<1>6. CASE UNCHANGED healthVars
  BY <1>0, <1>6 DEF healthVars, LatchInv, IncidentToldOnce
<1> QED BY <1>1, <1>2, <1>3, <1>4, <1>5, <1>6 DEF HealthNext

(* An outage, a condition of the cycles and a degraded ticker are each told *)
(* once an incident and again of the next, in whatever order cycles fail,   *)
(* are cut short or come clean, and for any watchlist.                      *)
THEOREM AlertsAreToldOnce == HealthSpec => []AlertsOnce
<1>1. HealthInit => OutageInv /\ LatchInv /\ CandlesInv
  <2> SUFFICES ASSUME HealthInit PROVE OutageInv /\ LatchInv /\ CandlesInv
    OBVIOUS
  <2>1. OutageInv
    BY DEF HealthInit, OutageInv, OutageToldOnce, FailuresBeforeAlert
  <2>2. LatchInv
    BY DEF HealthInit, LatchInv, IncidentToldOnce
  <2>3. CandlesInv
    BY DEF HealthInit, CandlesInv, DegradedTickerIsTold, FailuresBeforeAlert
  <2> QED BY <2>1, <2>2, <2>3
<1>2. OutageInv /\ LatchInv /\ CandlesInv => AlertsOnce
  BY DEF OutageInv, LatchInv, CandlesInv, AlertsOnce
<1> QED BY OutageStays, AlertsStay, <1>1, <1>2, PTL DEF HealthSpec

-----------------------------------------------------------------------------
(* The daily loss *)

Books == [open : BOOLEAN, mark : Int, earlier : Int, today : Int]

DayOK ==
  /\ when \in [day : Days, moment : 0..LastMoment]
  /\ book \in Books
  /\ process \in [up : BOOLEAN, firstCycle : Int, snapshotOn : Int, cycled : BOOLEAN]
  /\ missed \in BOOLEAN /\ dayHalted \in BOOLEAN /\ opening \in Int

Rows == [there : {TRUE}, opening : Int, marked : BOOLEAN, closing : Int, realised : Int,
         unrealised : Int, exited : BOOLEAN]

(* Until the session's first moment passes, its opening equity is the       *)
(* equity; a process that cycled by the start of the session has written    *)
(* the day's row, or could not, once that moment is over.                   *)
OpeningInv ==
  /\ curve = NoRow \/ curve \in Rows
  /\ when.moment = 1 => opening = Equity(book)
  /\ process.cycled => process.firstCycle # Never
  /\ process.firstCycle <= DayNow /\ process.snapshotOn <= when.day
  /\ process.up /\ process.firstCycle # Never /\ process.firstCycle <= SessionStart
       /\ (when.moment > 1 \/ (when.moment = 1 /\ process.cycled)) =>
       curve.there \/ missed \/ process.snapshotOn = when.day
  /\ curve.there => when.moment >= 1

DailyInv == DayOK /\ OpeningInv /\ CurveIsTrue

LEMMA EquityIsWhole ==
  ASSUME NEW b \in Books
  PROVE  Equity(b) \in Int /\ Unrealised(b) \in Int
<1>1. b.mark \in Int /\ b.earlier \in Int /\ b.today \in Int
  BY DEF Books
<1>2. Unrealised(b) \in Int
  BY <1>1 DEF Unrealised
<1> QED BY <1>1, <1>2 DEF Equity

(* A sale realises the mark: the equity is the same. *)
LEMMA SaleKeepsEquity ==
  ASSUME NEW b \in Books, b.open
  PROVE  /\ Sold(b) \in Books /\ Sold(b).earlier = b.earlier
         /\ Equity(Sold(b)) = Equity(b)
<1>1. /\ b.mark \in Int /\ b.earlier \in Int /\ b.today \in Int
  BY DEF Books
<1>2. /\ Sold(b) \in Books /\ Sold(b).open = FALSE /\ Sold(b).mark = 0
      /\ Sold(b).earlier = b.earlier /\ Sold(b).today = b.today + b.mark
  <2> DEFINE c == [b EXCEPT !.open = FALSE]
             d == [c EXCEPT !.mark = 0]
             e == [d EXCEPT !.today = b.today + b.mark]
  <2>a. c \in Books
    BY DEF Books
  <2> HIDE DEF c
  <2>b. d \in Books
    BY <2>a DEF Books
  <2> HIDE DEF d
  <2>c. e \in Books
    BY <1>1, <2>b DEF Books
  <2>d. Sold(b) = e
    BY DEF Sold, c, d, Books
  <2>1. Sold(b) \in Books
    BY <2>c, <2>d
  <2>2. Sold(b).open = FALSE
    BY DEF Sold, Books
  <2>3. Sold(b).mark = 0
    BY DEF Sold, Books
  <2>4. Sold(b).earlier = b.earlier
    BY DEF Sold, Books
  <2>5. Sold(b).today = b.today + b.mark
    BY DEF Sold, Books
  <2> QED BY <2>1, <2>2, <2>3, <2>4, <2>5
<1>3. Unrealised(Sold(b)) = 0 /\ Unrealised(b) = b.mark
  BY <1>2 DEF Unrealised
<1> QED BY <1>1, <1>2, <1>3 DEF Equity

LEMMA DailyStarts == DailyInit => DailyInv
<1> SUFFICES ASSUME DailyInit PROVE DailyInv
  OBVIOUS
<1>1. DayOK
  <2>1. when \in [day : Days, moment : 0..LastMoment]
    BY DailyLossBounds DEF DailyInit, Days
  <2>2. book \in Books
    BY DEF DailyInit, Books
  <2>3. process \in [up : BOOLEAN, firstCycle : Int, snapshotOn : Int, cycled : BOOLEAN]
    BY DEF DailyInit, JustStarted, Never
  <2>4. missed = FALSE /\ dayHalted = FALSE /\ opening = 0
    BY DEF DailyInit
  <2>5. missed \in BOOLEAN /\ dayHalted \in BOOLEAN
    BY <2>4, Zenon
  <2> QED BY <2>1, <2>2, <2>3, <2>4, <2>5 DEF DayOK
<1>2. OpeningInv
  BY DailyLossBounds DEF DailyInit, OpeningInv, JustStarted, NoRow, Never, DayNow, Instant
<1>3. CurveIsTrue
  BY DEF DailyInit, CurveIsTrue, BaselineIsTheOpen, CurveBalances, NoRow
<1> QED BY <1>1, <1>2, <1>3 DEF DailyInv

(* The instants of a day follow one another, and so do the days. *)
LEMMA InstantsFollow ==
  /\ \A d \in Nat, m \in Nat :
       /\ Instant(d, m) \in Int
       /\ Instant(d, m + 1) = Instant(d, m) + 1
       /\ Instant(d, m) = Instant(d, 1) + (m - 1)
       /\ Instant(d + 1, m) >= Instant(d, m)
  /\ \A d \in Nat : Instant(d + 1, 0) = Instant(d, LastMoment) + 1
<1>1. LastMoment \in Nat
  BY DailyLossBounds
<1>2. \A d \in Nat : d * (LastMoment + 1) \in Nat
                     /\ (d + 1) * (LastMoment + 1) = d * (LastMoment + 1) + (LastMoment + 1)
  BY <1>1
<1> QED BY <1>1, <1>2 DEF Instant

LEMMA OpeningRowIs ==
  ASSUME NEW e \in Int
  PROVE  /\ OpeningRow(e) \in Rows /\ OpeningRow(e).there /\ OpeningRow(e).opening = e
         /\ ~OpeningRow(e).marked
  BY DEF OpeningRow, Rows

LEMMA NoRowIs == ~NoRow.there
  BY DEF NoRow

(* A row that is marked keeps its opening; its closing is the equity. *)
LEMMA MarkedRowIs ==
  ASSUME NEW row \in Rows, NEW priced \in BOOLEAN, NEW before \in Books, NEW b \in Books,
         NEW exits \in BOOLEAN
  PROVE  /\ Marked(row, priced, before, b, exits) \in Rows
         /\ Marked(row, priced, before, b, exits).opening = row.opening
         /\ \/ Marked(row, priced, before, b, exits) = row
            \/ /\ Marked(row, priced, before, b, exits).closing = Equity(b)
               /\ Marked(row, priced, before, b, exits).realised = b.today
               /\ Marked(row, priced, before, b, exits).unrealised = Unrealised(before)
               /\ Marked(row, priced, before, b, exits).exited = exits
<1>1. row.there = TRUE /\ row.opening \in Int
  BY DEF Rows
<1>2. CASE ~priced
  BY <1>2 DEF Marked
<1>3. CASE priced
  <2> DEFINE closing == row.opening - Loss(row, b)
             m == [row EXCEPT !.marked = TRUE, !.closing = closing, !.realised = b.today,
                              !.unrealised = Unrealised(before), !.exited = exits]
             c == [row EXCEPT !.marked = TRUE]
             d == [c EXCEPT !.closing = closing]
             e == [d EXCEPT !.realised = b.today]
             f == [e EXCEPT !.unrealised = Unrealised(before)]
             g == [f EXCEPT !.exited = exits]
  <2>1. Marked(row, priced, before, b, exits) = m
    BY <1>1, <1>3 DEF Marked
  <2>2. Equity(b) \in Int /\ Unrealised(before) \in Int /\ b.today \in Int
    BY EquityIsWhole DEF Books
  <2>3. Loss(row, b) = row.opening - Equity(b)
    BY <1>1 DEF Loss, Baseline
  <2>4. closing = Equity(b)
    BY <1>1, <2>2, <2>3
  <2> HIDE DEF closing
  <2>5. c \in Rows
    BY DEF Rows
  <2> HIDE DEF c
  <2>6. d \in Rows
    BY <2>2, <2>4, <2>5 DEF Rows
  <2> HIDE DEF d
  <2>7. e \in Rows
    BY <2>2, <2>6 DEF Rows
  <2> HIDE DEF e
  <2>8. f \in Rows
    BY <2>2, <2>7 DEF Rows
  <2> HIDE DEF f
  <2>9. g \in Rows
    BY <2>8 DEF Rows
  <2>10. m = g
    BY DEF c, d, e, f, Rows
  <2>11. /\ m.opening = row.opening /\ m.closing = closing /\ m.realised = b.today
         /\ m.unrealised = Unrealised(before) /\ m.exited = exits
    BY DEF Rows
  <2> HIDE DEF m, g
  <2> QED BY <2>1, <2>4, <2>9, <2>10, <2>11
<1> QED BY <1>2, <1>3

LEMMA DailyFacts ==
  ASSUME DailyInv
  PROVE  /\ when.day \in Nat \ {0} /\ when.moment \in 0..LastMoment
         /\ process.firstCycle \in Int /\ process.snapshotOn \in Int
         /\ process.up \in BOOLEAN /\ process.cycled \in BOOLEAN
         /\ DayNow \in Int /\ SessionStart \in Int /\ DayNow = SessionStart + when.moment - 1
         /\ DayNow > Never
<1>1. when.day \in Nat \ {0} /\ when.moment \in 0..LastMoment
  BY DailyLossBounds DEF DailyInv, DayOK, Days
<1>2. /\ process.firstCycle \in Int /\ process.snapshotOn \in Int
      /\ process.up \in BOOLEAN /\ process.cycled \in BOOLEAN
  BY DEF DailyInv, DayOK
<1>3. /\ DayNow \in Int /\ SessionStart \in Int /\ DayNow = SessionStart + when.moment - 1
  BY <1>1, InstantsFollow DEF DayNow, SessionStart
<1>4. LastMoment + 1 \in Nat \ {0}
  BY DailyLossBounds
<1>5. when.day * (LastMoment + 1) > 0
  BY <1>1, <1>4
<1>6. DayNow > Never
  BY <1>1, <1>4, <1>5 DEF DayNow, Instant, Never
<1> QED BY <1>1, <1>2, <1>3, <1>6

(* What one cycle does to the day's row, the book and the process. *)
LEMMA LossCycleStep ==
  ASSUME DailyInv, NEW priced \in BOOLEAN, NEW exits \in BOOLEAN, NEW measured \in BOOLEAN,
         NEW opens \in {"written", "unread", "lost"}, LossCycle(priced, exits, opens, measured)
  PROVE  DailyInv'
<1> DEFINE first == IF process.firstCycle = Never THEN DayNow ELSE process.firstCycle
           after == IF exits THEN Sold(book) ELSE book
           due == MayWriteOpening(first)
           row == IF due /\ opens = "written" THEN OpeningRow(Equity(after)) ELSE curve
           done == measured /\ ~(due /\ opens = "unread")
           settled == IF due THEN opens # "unread" ELSE first <= SessionStart /\ curve.there
<1>1. /\ process.up /\ exits => book.open
      /\ process' = [process EXCEPT !.firstCycle = first, !.cycled = TRUE,
                       !.snapshotOn = IF InSession /\ settled THEN when.day ELSE @]
      /\ UNCHANGED <<when, opening>>
  BY DEF LossCycle
<1>2. InSession =>
        /\ book' = after
        /\ curve' = IF done THEN Marked(row, priced, book, after, exits) ELSE row
        /\ dayHalted' = (dayHalted \/ (done /\ Loss(row, after) >= Limit))
        /\ missed' = (missed \/ (due /\ opens # "written"))
  BY DEF LossCycle
<1>3. ~InSession => UNCHANGED <<book, curve, dayHalted, missed>>
  BY DEF LossCycle
<1>u. process.up /\ (exits => book.open)
  BY DEF LossCycle
<1>d. due <=> process.snapshotOn # when.day /\ first <= SessionStart /\ ~curve.there
  BY DEF MayWriteOpening
<1>4. /\ book \in Books /\ opening \in Int
      /\ process \in [up : BOOLEAN, firstCycle : Int, snapshotOn : Int, cycled : BOOLEAN]
      /\ missed \in BOOLEAN /\ dayHalted \in BOOLEAN
      /\ curve = NoRow \/ curve \in Rows
  BY DEF DailyInv, DayOK, OpeningInv
<1>5. first \in Int /\ first # Never /\ first <= DayNow
  BY <1>4, DailyFacts DEF DailyInv, OpeningInv, Never
<1>6. after \in Books /\ Equity(after) = Equity(book) /\ after.earlier = book.earlier
  BY <1>4, <1>u, SaleKeepsEquity
<1>7. Equity(book) \in Int
  BY <1>4, EquityIsWhole
<1>8. /\ process' \in [up : BOOLEAN, firstCycle : Int, snapshotOn : Int, cycled : BOOLEAN]
      /\ process'.up = process.up /\ process'.firstCycle = first /\ process'.cycled = TRUE
      /\ process'.snapshotOn = when.day \/ process'.snapshotOn = process.snapshotOn
      /\ ~InSession => process'.snapshotOn = process.snapshotOn
  <2> DEFINE on == IF InSession /\ settled THEN when.day ELSE process.snapshotOn
             p == [process EXCEPT !.firstCycle = first]
             q == [p EXCEPT !.cycled = TRUE]
             r == [q EXCEPT !.snapshotOn = on]
  <2>1. on \in Int /\ (on = when.day \/ on = process.snapshotOn)
        /\ (~InSession => on = process.snapshotOn)
    BY DailyFacts
  <2> HIDE DEF settled, on, first
  <2>2. process' = r
    BY <1>1, <1>4 DEF on
  <2>3. p \in [up : BOOLEAN, firstCycle : Int, snapshotOn : Int, cycled : BOOLEAN]
        /\ p.up = process.up /\ p.firstCycle = first /\ p.snapshotOn = process.snapshotOn
    BY <1>4, <1>5
  <2> HIDE DEF p
  <2>4. q \in [up : BOOLEAN, firstCycle : Int, snapshotOn : Int, cycled : BOOLEAN]
        /\ q.up = p.up /\ q.firstCycle = p.firstCycle /\ q.cycled = TRUE
    BY <2>3
  <2> HIDE DEF q
  <2>5. r \in [up : BOOLEAN, firstCycle : Int, snapshotOn : Int, cycled : BOOLEAN]
        /\ r.up = q.up /\ r.firstCycle = q.firstCycle /\ r.cycled = q.cycled /\ r.snapshotOn = on
    BY <2>1, <2>4
  <2> HIDE DEF r
  <2> QED BY <2>1, <2>2, <2>3, <2>4, <2>5
<1>9. CASE ~InSession
  <2>1. UNCHANGED <<when, opening, book, curve, dayHalted, missed>>
    BY <1>1, <1>3, <1>9
  <2>2. when.moment = 0 \/ when.moment = LastMoment
    BY <1>9, DailyFacts, DailyLossBounds DEF InSession
  <2>3. DayOK'
    BY <1>8, <2>1 DEF DailyInv, DayOK
  <2>4. CurveIsTrue'
    BY <2>1 DEF DailyInv, CurveIsTrue, BaselineIsTheOpen, CurveBalances
  <2>5. when.moment # 1 /\ (first <= SessionStart /\ when.moment > 1 => process.firstCycle = first)
    BY <2>2, DailyFacts, DailyLossBounds
  <2>6. /\ DayNow' = DayNow /\ SessionStart' = SessionStart
        /\ process'.snapshotOn = process.snapshotOn
    BY <1>8, <1>9, <2>1 DEF DayNow, SessionStart
  <2>7. OpeningInv'
    BY <1>5, <1>8, <2>1, <2>5, <2>6 DEF DailyInv, OpeningInv
  <2> QED BY <2>3, <2>4, <2>7 DEF DailyInv
<1>10. CASE InSession
  <2>1. /\ book' = after /\ UNCHANGED <<when, opening>>
        /\ curve' = IF done THEN Marked(row, priced, book, after, exits) ELSE row
        /\ missed' = (missed \/ (due /\ opens # "written"))
    BY <1>1, <1>2, <1>10
  <2>2. when.moment >= 1
    BY <1>10, DailyFacts DEF InSession
  <2>3. DayNow' = DayNow /\ SessionStart' = SessionStart
    BY <2>1 DEF DayNow, SessionStart
  <2>4. dayHalted' \in BOOLEAN /\ missed' \in BOOLEAN
    BY <1>2, <1>10
  <2>5. DayOK'
    BY <1>6, <1>8, <2>1, <2>4 DEF DailyInv, DayOK
  <2>6. \/ due /\ opens = "written" /\ row = OpeningRow(Equity(after)) /\ row \in Rows
           /\ row.opening = Equity(book) /\ ~row.marked
        \/ ~(due /\ opens = "written") /\ row = curve
    BY <1>6, <1>7, OpeningRowIs
  <2>7. row = NoRow \/ row \in Rows
    BY <1>4, <2>6
  <2>8. CASE row = NoRow
    <3>1. curve' = NoRow /\ row = curve /\ ~curve'.there /\ ~(due /\ opens = "written")
      <4>1. Marked(NoRow, priced, book, after, exits) = NoRow
        BY NoRowIs DEF Marked
      <4>2. ~OpeningRow(Equity(after)).there => FALSE
        BY <1>6, <1>7, OpeningRowIs
      <4>3. row = curve /\ ~(due /\ opens = "written")
        BY <2>6, <2>8, <4>2, NoRowIs
      <4> QED BY <2>1, <2>8, <4>1, <4>3, NoRowIs
    <3>2. CurveIsTrue'
      BY <3>1 DEF CurveIsTrue, BaselineIsTheOpen, CurveBalances
    <3>3. first <= SessionStart => missed' \/ process'.snapshotOn = when.day
      <4>1. CASE due
        BY <2>1, <3>1, <4>1
      <4>2. CASE ~due
        <5>1. ~curve.there
          BY <2>8, <3>1, NoRowIs
        <5>2. first <= SessionStart => process.snapshotOn = when.day
          BY <1>d, <4>2, <5>1
        <5> HIDE DEF first, due, row, done, settled, after
        <5> QED BY <1>8, <5>2
      <4> QED BY <4>1, <4>2
    <3> HIDE DEF first, due, row, done, settled, after
    <3>4. OpeningInv'
      BY <1>5, <1>6, <1>8, <2>1, <2>2, <2>3, <3>1, <3>3, DailyFacts DEF DailyInv, OpeningInv
    <3> QED BY <2>5, <3>2, <3>4 DEF DailyInv
  <2>9. CASE row \in Rows
    <3>1. /\ curve' \in Rows /\ curve'.opening = row.opening
          /\ \/ curve' = row
             \/ /\ curve'.closing = Equity(after) /\ curve'.realised = after.today
                /\ curve'.unrealised = Unrealised(book) /\ curve'.exited = exits
      <4> HIDE DEF row, after
      <4>1. CASE done
        <5>1. curve' = Marked(row, priced, book, after, exits)
          BY <2>1, <4>1
        <5> DEFINE m == Marked(row, priced, book, after, exits)
        <5>2. /\ m \in Rows /\ m.opening = row.opening
              /\ \/ m = row
                 \/ /\ m.closing = Equity(after) /\ m.realised = after.today
                    /\ m.unrealised = Unrealised(book) /\ m.exited = exits
          BY <1>4, <1>6, <2>9, MarkedRowIs
        <5> QED BY <5>1, <5>2, Zenon
      <4>2. CASE ~done
        BY <2>1, <2>9, <4>2
      <4> QED BY <4>1, <4>2
    <3>2. curve'.there
      BY <3>1 DEF Rows
    <3>3. OpeningInv'
      <4> HIDE DEF first, due, row, done, settled, after
      <4> QED BY <1>5, <1>6, <1>8, <2>1, <2>2, <2>3, <3>1, <3>2, DailyFacts DEF DailyInv, OpeningInv
    <3>4. BaselineIsTheOpen'
      <4>1. CASE due /\ opens = "written"
        <5>1. curve'.opening = Equity(book)
          BY <2>6, <3>1, <4>1
        <5>2. when.moment = 1 => opening = Equity(book)
          BY DEF DailyInv, OpeningInv
        <5>3. when.moment > 1 => missed
          <6>1. SUFFICES ASSUME when.moment > 1 PROVE missed
            OBVIOUS
          <6>2. process.firstCycle # Never /\ process.firstCycle <= SessionStart
            BY <1>d, <4>1, <6>1, DailyFacts
          <6>3. curve.there \/ missed \/ process.snapshotOn = when.day
            BY <1>u, <6>1, <6>2 DEF DailyInv, OpeningInv
          <6> QED BY <1>d, <4>1, <6>3
        <5>4. when.moment = 1 \/ when.moment > 1
          BY <2>2, DailyFacts
        <5>5. opening' = opening /\ (missed => missed')
          BY <2>1
        <5> QED BY <5>1, <5>2, <5>3, <5>4, <5>5 DEF BaselineIsTheOpen
      <4>2. CASE ~(due /\ opens = "written")
        <5>1. row = curve /\ curve'.opening = curve.opening /\ curve.there
          BY <2>6, <2>9, <3>1, <4>2 DEF Rows
        <5>2. opening' = opening /\ (missed => missed')
          BY <2>1
        <5> QED BY <5>1, <5>2 DEF DailyInv, CurveIsTrue, BaselineIsTheOpen
      <4> QED BY <4>1, <4>2
    <3>5. CurveBalances'
      <4> SUFFICES ASSUME curve'.marked, ~curve'.exited
                   PROVE  curve'.closing = book'.earlier + curve'.realised + curve'.unrealised
        BY DEF CurveBalances
      <4>1. CASE curve' = row
        <5>1. row = curve /\ curve.there
          BY <2>6, <2>9, <4>1 DEF Rows
        <5> QED BY <1>6, <2>1, <4>1, <5>1 DEF DailyInv, CurveIsTrue, CurveBalances
      <4>2. CASE /\ curve'.closing = Equity(after) /\ curve'.realised = after.today
                 /\ curve'.unrealised = Unrealised(book) /\ curve'.exited = exits
        <5>1. after = book
          BY <4>2
        <5> QED BY <2>1, <4>2, <5>1 DEF Equity
      <4> QED BY <3>1, <4>1, <4>2
    <3> QED BY <2>5, <3>3, <3>4, <3>5 DEF DailyInv, CurveIsTrue
  <2> QED BY <2>7, <2>8, <2>9
<1> QED BY <1>9, <1>10

LEMMA PriceMovesStep ==
  ASSUME DailyInv, NEW mark \in Int, PriceMoves(mark) PROVE DailyInv'
<1> DEFINE b == [book EXCEPT !.mark = IF book.open THEN mark ELSE 0]
<1>1. /\ process.up => process.cycled
      /\ when.moment < LastMoment
  BY DEF PriceMoves
<1>2. /\ when' = [when EXCEPT !.moment = @ + 1] /\ book' = b
      /\ opening' = IF when.moment = 0 THEN Equity(b) ELSE opening
      /\ process' = [process EXCEPT !.cycled = FALSE]
      /\ UNCHANGED <<curve, dayHalted, missed>>
  BY DEF PriceMoves
<1>3. b \in Books /\ b.earlier = book.earlier
  BY DEF DailyInv, DayOK, Books
<1> HIDE DEF b
<1>4. /\ when' \in [day : Days, moment : 0..LastMoment] /\ when'.day = when.day
      /\ when'.moment = when.moment + 1
  BY <1>1, <1>2, DailyLossBounds DEF DailyInv, DayOK
<1>5. /\ process' \in [up : BOOLEAN, firstCycle : Int, snapshotOn : Int, cycled : BOOLEAN]
      /\ process'.up = process.up /\ process'.firstCycle = process.firstCycle
      /\ process'.snapshotOn = process.snapshotOn /\ process'.cycled = FALSE
  BY <1>2 DEF DailyInv, DayOK
<1>6. Equity(b) \in Int
  BY <1>3, EquityIsWhole
<1>7. DayOK'
  BY <1>2, <1>3, <1>4, <1>5, <1>6 DEF DailyInv, DayOK
<1>8. DayNow' = DayNow + 1 /\ SessionStart' = SessionStart
  BY <1>4, DailyFacts, InstantsFollow DEF DayNow, SessionStart
<1>9. OpeningInv'
  <2>1. curve' = NoRow \/ curve' \in Rows
    BY <1>2 DEF DailyInv, OpeningInv
  <2>2. when'.moment = 1 => opening' = Equity(book')
    BY <1>2, <1>4, DailyFacts
  <2>3. process'.firstCycle <= DayNow' /\ process'.snapshotOn <= when'.day
    BY <1>4, <1>5, <1>8, DailyFacts DEF DailyInv, OpeningInv
  <2>4. ASSUME process'.up, process'.firstCycle # Never, process'.firstCycle <= SessionStart',
               when'.moment > 1
        PROVE  curve'.there \/ missed' \/ process'.snapshotOn = when'.day
    <3>1. process.cycled /\ (when.moment > 1 \/ when.moment = 1)
      BY <1>1, <1>4, <1>5, <2>4, DailyFacts
    <3>2. curve.there \/ missed \/ process.snapshotOn = when.day
      BY <1>5, <1>8, <2>4, <3>1 DEF DailyInv, OpeningInv
    <3> QED BY <1>2, <1>4, <1>5, <3>2
  <2>5. curve'.there => when'.moment >= 1
    BY <1>4, DailyFacts
  <2> QED BY <1>5, <2>1, <2>2, <2>3, <2>4, <2>5 DEF OpeningInv
<1>10. CurveIsTrue'
  <2>1. curve.there => when.moment # 0
    BY DailyFacts DEF DailyInv, OpeningInv
  <2>2. BaselineIsTheOpen'
    BY <1>2, <2>1 DEF DailyInv, CurveIsTrue, BaselineIsTheOpen
  <2>3. CurveBalances'
    BY <1>2, <1>3 DEF DailyInv, CurveIsTrue, CurveBalances
  <2> QED BY <2>2, <2>3 DEF CurveIsTrue
<1> QED BY <1>7, <1>9, <1>10 DEF DailyInv

LEMMA DayEndsStep == ASSUME DailyInv, DayEnds PROVE DailyInv'
<1>1. when.moment = LastMoment /\ when.day < LastDay
  BY DEF DayEnds
<1>2. /\ when' = [day |-> when.day + 1, moment |-> 0]
      /\ book' = [book EXCEPT !.earlier = @ + book.today, !.today = 0]
      /\ process' = [process EXCEPT !.cycled = FALSE]
      /\ curve' = NoRow /\ missed' = FALSE /\ UNCHANGED <<dayHalted, opening>>
  BY DEF DayEnds
<1>3. book' \in Books
  <2> DEFINE e == book.earlier + book.today
             c == [book EXCEPT !.earlier = e]
  <2>1. e \in Int /\ book \in Books
    BY DEF DailyInv, DayOK, Books
  <2> HIDE DEF e
  <2>2. c \in Books
    BY <2>1 DEF Books
  <2> HIDE DEF c
  <2>3. [c EXCEPT !.today = 0] \in Books
    BY <2>2 DEF Books
  <2>4. book' = [c EXCEPT !.today = 0]
    BY <1>2, <2>1 DEF c, e, Books
  <2> QED BY <2>3, <2>4
<1>4. when' \in [day : Days, moment : 0..LastMoment] /\ when'.day = when.day + 1 /\ when'.moment = 0
  BY <1>1, <1>2, DailyFacts, DailyLossBounds DEF Days
<1>5. /\ process' \in [up : BOOLEAN, firstCycle : Int, snapshotOn : Int, cycled : BOOLEAN]
      /\ process'.firstCycle = process.firstCycle /\ process'.snapshotOn = process.snapshotOn
      /\ process'.cycled = FALSE
  BY <1>2 DEF DailyInv, DayOK
<1>6. missed' \in BOOLEAN
  BY <1>2, Zenon
<1>7. DayOK'
  BY <1>2, <1>3, <1>4, <1>5, <1>6 DEF DailyInv, DayOK
<1>8. DayNow' = DayNow + 1
  BY <1>1, <1>4, DailyFacts, InstantsFollow DEF DayNow
<1>9. process.firstCycle <= DayNow /\ process.snapshotOn <= when.day
  BY DEF DailyInv, OpeningInv
<1>10. OpeningInv'
  BY <1>2, <1>4, <1>5, <1>8, <1>9, DailyFacts, NoRowIs DEF OpeningInv
<1>11. CurveIsTrue'
  BY <1>2, NoRowIs DEF CurveIsTrue, BaselineIsTheOpen, CurveBalances
<1> QED BY <1>7, <1>10, <1>11 DEF DailyInv

LEMMA BuyStep == ASSUME DailyInv, Buy PROVE DailyInv'
<1>1. ~book.open /\ UNCHANGED <<when, curve, dayHalted, process, opening, missed>>
  BY DEF Buy
<1>2. book' = [book EXCEPT !.open = TRUE, !.mark = 0] /\ book \in Books
  BY DEF Buy, DailyInv, DayOK
<1>3. book' \in Books
  <2> DEFINE c == [book EXCEPT !.open = TRUE]
  <2>1. c \in Books
    BY <1>2 DEF Books
  <2>2. book' = [c EXCEPT !.mark = 0]
    BY <1>2 DEF Books
  <2> HIDE DEF c
  <2> QED BY <2>1, <2>2 DEF Books
<1>4. book'.mark = 0 /\ book'.earlier = book.earlier /\ book'.today = book.today
  BY <1>2 DEF Books
<1>5. Equity(book') = Equity(book)
  <2>1. Unrealised(book') = 0 /\ Unrealised(book) = 0
    BY <1>1, <1>4 DEF Unrealised
  <2> QED BY <1>4, <2>1 DEF Equity
<1>6. DayOK'
  BY <1>1, <1>3 DEF DailyInv, DayOK
<1>7. OpeningInv'
  BY <1>1, <1>5 DEF DailyInv, OpeningInv, DayNow, SessionStart
<1>8. CurveIsTrue'
  BY <1>1, <1>4 DEF DailyInv, CurveIsTrue, BaselineIsTheOpen, CurveBalances
<1> QED BY <1>6, <1>7, <1>8 DEF DailyInv

LEMMA DailyStep == DailyInv /\ [DailyNext]_dailyVars => DailyInv'
<1> SUFFICES ASSUME DailyInv, [DailyNext]_dailyVars PROVE DailyInv'
  OBVIOUS
<1>1. ASSUME NEW mark \in -MaxMark..MaxMark, PriceMoves(mark) PROVE DailyInv'
  BY <1>1, PriceMovesStep
<1>2. CASE OwnerResumes
  <2>1. dayHalted' = FALSE /\ UNCHANGED <<when, book, curve, process, opening, missed>>
    BY <1>2 DEF OwnerResumes
  <2>2. dayHalted' \in BOOLEAN
    BY <2>1, Zenon
  <2> QED BY <2>1, <2>2 DEF DailyInv, DayOK, OpeningInv, CurveIsTrue, BaselineIsTheOpen,
                            CurveBalances, DayNow, SessionStart
<1>3. CASE ProcessEnds
  <2>1. /\ process' = [process EXCEPT !.up = FALSE]
        /\ UNCHANGED <<when, book, curve, dayHalted, opening, missed>>
    BY <1>3 DEF ProcessEnds
  <2>2. /\ process' \in [up : BOOLEAN, firstCycle : Int, snapshotOn : Int, cycled : BOOLEAN]
        /\ process'.up = FALSE /\ process'.firstCycle = process.firstCycle
        /\ process'.snapshotOn = process.snapshotOn /\ process'.cycled = process.cycled
    BY <2>1 DEF DailyInv, DayOK
  <2> QED BY <2>1, <2>2 DEF DailyInv, DayOK, OpeningInv, CurveIsTrue, BaselineIsTheOpen,
                            CurveBalances, DayNow, SessionStart
<1>4. CASE NewProcess
  <2>1. /\ process' = JustStarted /\ UNCHANGED <<when, book, curve, dayHalted, opening, missed>>
    BY <1>4 DEF NewProcess
  <2>2. /\ process' \in [up : BOOLEAN, firstCycle : Int, snapshotOn : Int, cycled : BOOLEAN]
        /\ process'.firstCycle = Never /\ process'.snapshotOn = Never /\ process'.cycled = FALSE
    BY <2>1 DEF JustStarted, Never
  <2>3. DayNow' = DayNow /\ SessionStart' = SessionStart /\ Never <= DayNow /\ Never <= when.day
    BY <2>1, DailyFacts DEF DayNow, SessionStart, Never
  <2> QED BY <2>1, <2>2, <2>3 DEF DailyInv, DayOK, OpeningInv, CurveIsTrue, BaselineIsTheOpen,
                                  CurveBalances
<1>5. CASE UNCHANGED dailyVars
  BY <1>5 DEF dailyVars, DailyInv, DayOK, OpeningInv, CurveIsTrue, BaselineIsTheOpen,
              CurveBalances, DayNow, SessionStart
<1> QED BY <1>1, <1>2, <1>3, <1>4, <1>5, LossCycleStep, DayEndsStep, BuyStep DEF DailyNext

(* What the day's row shows of the open and of the close is what was: the   *)
(* baseline is the equity at the session's start unless a process that was  *)
(* up for it could not record it, and the curve adds up, for any limit,     *)
(* prices, exits, outages, lost writes and restarts.                        *)
THEOREM CurveStaysTrue == DailySpec => []CurveIsTrue
<1>1. DailyInv => CurveIsTrue
  BY DEF DailyInv
<1> QED BY DailyStarts, DailyStep, <1>1, PTL DEF DailySpec

(* A cycle that measures a fall by the limit since a recorded open halts,   *)
(* whichever process it is and however much of the fall is realised.        *)
THEOREM LossesFromTheOpenHalt == DailySpec => LossFromTheOpenHalts
<1>1. ASSUME DailyInv, DailyInv', NEW priced \in BOOLEAN, NEW exits \in BOOLEAN,
             NEW opens \in {"written", "lost"}, InSession, curve'.there, ~missed',
             opening - Equity(book') >= Limit, LossCycle(priced, exits, opens, TRUE)
      PROVE  dayHalted'
  <2> DEFINE first == IF process.firstCycle = Never THEN DayNow ELSE process.firstCycle
             after == IF exits THEN Sold(book) ELSE book
             due == MayWriteOpening(first)
             row == IF due /\ opens = "written" THEN OpeningRow(Equity(after)) ELSE curve
  <2>1. /\ book' = after /\ UNCHANGED opening
        /\ curve' = Marked(row, priced, book, after, exits)
        /\ dayHalted' = (dayHalted \/ Loss(row, after) >= Limit)
    BY <1>1 DEF LossCycle
  <2>2. /\ book \in Books /\ after \in Books
    <3>1. book \in Books /\ (exits => book.open)
      BY <1>1 DEF DailyInv, DayOK, LossCycle
    <3> QED BY <3>1, SaleKeepsEquity
  <2>3. row = NoRow \/ row \in Rows
    <3>1. Equity(after) \in Int
      BY <2>2, EquityIsWhole
    <3>2. OpeningRow(Equity(after)) \in Rows
      BY <3>1, OpeningRowIs
    <3> QED BY <1>1, <3>2 DEF DailyInv, OpeningInv
  <2> HIDE DEF row, after, due, first
  <2>4. row \in Rows
    <3>1. Marked(NoRow, priced, book, after, exits) = NoRow
      BY NoRowIs DEF Marked
    <3> QED BY <1>1, <2>1, <2>3, <3>1, NoRowIs
  <2>5. curve'.opening = row.opening
    BY <2>1, <2>2, <2>4, MarkedRowIs
  <2>6. curve'.opening = opening
    BY <1>1, <2>1 DEF DailyInv, CurveIsTrue, BaselineIsTheOpen
  <2>7. Loss(row, after) = opening - Equity(after)
    BY <2>4, <2>5, <2>6 DEF Loss, Baseline, Rows
  <2>8. Loss(row, after) >= Limit
    BY <1>1, <2>1, <2>7
  <2> QED BY <2>1, <2>8
<1>2. DailyInv /\ DailyInv' =>
        [\A priced, exits \in BOOLEAN, opens \in {"written", "lost"} :
           InSession /\ curve'.there /\ ~missed' /\ opening - Equity(book') >= Limit
             /\ LossCycle(priced, exits, opens, TRUE)
           => dayHalted']_dailyVars
  BY <1>1
<1> QED BY DailyStarts, DailyStep, <1>2, PTL DEF DailySpec, LossFromTheOpenHalts
=============================================================================
