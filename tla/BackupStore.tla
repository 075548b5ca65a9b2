---------------------------- MODULE BackupStore ----------------------------
(***************************************************************************)
(* The local recovery points of trades.db: the storage manager with the     *)
(* guards the program installs around it (refinement, disk guard, sparse    *)
(* guard, availability guard), the life of the service that calls it, the   *)
(* restore drill and the operator's restore.                                *)
(*                                                                          *)
(* A backup is a database file and a manifest.  The manifest is written     *)
(* twice: the base one, already "verified", and the refined one, sealed by  *)
(* the hash of its own payload.  Removing a backup unlinks the file first,  *)
(* the manifest second.  The process may stop between any two of these      *)
(* steps.  Row contents are numbers of commits; disk space is counted in    *)
(* copies of the database.                                                  *)
(***************************************************************************)
EXTENDS Integers, FiniteSets

CONSTANTS
  MaxBackups,   \* bound: backups named in a history
  MaxCommits,   \* bound: commits to trades.db
  Slots,        \* copies of the database the disk holds beside it
  MaxSqueezes,  \* bound: changes of the space other files take
  MaxFaults,    \* bound: crashes and failed steps, together
  MaxDrills,    \* bound: restore drills
  MaxRestores   \* bound: operator restores

ASSUME BoundsAssumption ==
  /\ MaxBackups \in Nat \ {0} /\ Slots \in Nat \ {0}
  /\ {MaxCommits, MaxSqueezes, MaxFaults, MaxDrills, MaxRestores} \subseteq Nat

VARIABLES
  live,     \* commits in trades.db, or Gone
  commits,  \* the last commit ever made
  aside,    \* contents of the databases set aside by restores
  store,    \* the backups named so far
  sealed,   \* backups whose manifest was ever sealed
  others,   \* copies' worth of space taken by other files
  proc,     \* the service
  marker,   \* the shutdown marker on disk
  op,       \* the holder of the manager's lock
  drill,    \* the backup a drill is copying, or 0
  proved,   \* the backup of the last drill that reported PASS, or 0
  restore,  \* the operator's restore
  spent     \* uses of the bounds

vars == <<live, commits, aside, store, sealed, others, proc, marker, op,
          drill, proved, restore, spent>>

Ids == 1 .. MaxBackups
Gone == -1
Empty == 0
Backups == [db : BOOLEAN, rows : 0 .. MaxCommits, manifest : {"none", "base", "sealed"}]
Unnamed == [db |-> FALSE, rows |-> 0, manifest |-> "none"]
Reasons == {"prestart", "scheduled", "clean_shutdown", "drill"}
Unlocked == [pc |-> "free", reason |-> "scheduled", id |-> 0, compact |-> FALSE, doomed |-> {}]
NoRestore == [pc |-> "idle", id |-> 0]
Counters == [squeezes : 0 .. MaxSqueezes, failures : 0 .. MaxFaults, crashes : 0 .. MaxFaults,
             drills : 0 .. MaxDrills, restores : 0 .. MaxRestores, ids : 0 .. MaxBackups]

TypeOK ==
  /\ live \in Gone .. MaxCommits /\ commits \in 0 .. MaxCommits
  /\ aside \subseteq 0 .. MaxCommits
  /\ store \in [Ids -> Backups] /\ sealed \subseteq Ids
  /\ others \in 0 .. Slots
  /\ proc \in {"down", "prestart", "engine", "marking", "running", "stopping"}
  /\ marker \in {"none", "dirty", "clean"}
  /\ op \in [pc : {"free", "refused", "prune", "copy", "named", "retain", "seal", "budget", "clean"},
             reason : Reasons, id : 0 .. MaxBackups, compact : BOOLEAN, doomed : SUBSET Ids]
  /\ drill \in 0 .. MaxBackups /\ proved \in 0 .. MaxBackups
  /\ restore \in [pc : {"idle", "preserve", "replace"}, id : 0 .. MaxBackups]
  /\ spent \in Counters

-----------------------------------------------------------------------------
(* What the directory shows. *)

\* Every manifest that says verified, whether or not its file is still there.
VerifiedManifests == {b \in Ids : store[b].manifest # "none"}
Newest(S) == {b \in S : \A c \in S : c <= b}
Complete(b) == store[b].db /\ store[b].manifest # "none"

\* Room for further copies beside the protected headroom.
Room == LET used == Cardinality({b \in Ids : store[b].db}) + others
        IN IF used >= Slots THEN 0 ELSE Slots - used

\* Mutant: the budget keeps the oldest.
KeptOldest(floor) == {b \in VerifiedManifests :
                        Cardinality({c \in VerifiedManifests : c < b}) < floor}

\* The byte budget keeps the newest backups and drops the others.
Kept(floor) == {b \in VerifiedManifests :
                  Cardinality({c \in VerifiedManifests : c > b}) < floor}
Excess(floor) == VerifiedManifests \ Kept(floor)

\* Two recovery points, or one where a second would leave no room for a copy.
PreflightFloor == IF Room = 0 THEN 1 ELSE 2

-----------------------------------------------------------------------------
Init ==
  /\ live \in {Gone, Empty} /\ commits = 0 /\ aside = {}
  /\ store = [b \in Ids |-> Unnamed] /\ sealed = {}
  /\ others \in 0 .. Slots
  /\ proc = "down" /\ marker = "none"
  /\ op = Unlocked /\ drill = 0 /\ proved = 0 /\ restore = NoRestore
  /\ spent = [squeezes |-> 0, failures |-> 0, crashes |-> 0, drills |-> 0, restores |-> 0, ids |-> 0]

Database == <<live, commits, aside>>
Directory == <<store, sealed>>
Checks == <<drill, proved, restore>>

Fault(kind) ==
  /\ spent.failures + spent.crashes < MaxFaults
  /\ spent' = [spent EXCEPT ![kind] = @ + 1]

(* How a call of create_backup ends for its caller. *)

\* The next process step of a start, of the background loop, of a shutdown.
Succeeds ==
  /\ op' = Unlocked
  /\ proc' = CASE op.reason = "prestart" -> "engine"
               [] op.reason = "clean_shutdown" -> "down"
               [] OTHER -> proc
  /\ marker' = IF op.reason = "clean_shutdown" THEN "clean" ELSE marker

\* Mutant: a shutdown without its snapshot is recorded clean.
RaisesClean == Succeeds

\* prepare_storage refuses to start; a shutdown stays unclean; the loop goes on.
Raises ==
  /\ op' = Unlocked
  /\ proc' = IF op.reason \in {"prestart", "clean_shutdown"} THEN "down" ELSE proc
  /\ UNCHANGED marker

\* A start without room serves with the newest verified backup as it is, or
\* with none at all, but not with a manifest that lost its file.
MayDegrade ==
  /\ op.reason = "prestart"
  /\ (\A b \in Newest(VerifiedManifests) : store[b].db)'

EndsWithoutRoom == IF MayDegrade THEN Succeeds ELSE Raises

-----------------------------------------------------------------------------
(* The backup itself, under the manager's lock. *)

\* With no room and nothing to compact, the availability guard answers first.
Enter(reason) ==
  /\ op = Unlocked
  /\ spent.ids < MaxBackups
  /\ \/ op' = [Unlocked EXCEPT !.pc = "prune", !.reason = reason,
                               !.doomed = Excess(PreflightFloor)]
     \/ Room = 0 /\ op' = [Unlocked EXCEPT !.pc = "refused", !.reason = reason]
  /\ UNCHANGED <<Database, Directory, others, proc, marker, Checks, spent>>

\* Mutant: the loop compares with the last backup even if there is none.
ScheduledAfterLast == proc = "running" /\ VerifiedManifests # {} /\ Enter("scheduled")

Prestart == proc = "prestart" /\ Enter("prestart")
Scheduled == proc = "running" /\ Enter("scheduled")
CleanShutdown == proc = "stopping" /\ Enter("clean_shutdown")

\* One unlink: the file of the newest backup to drop, then its manifest.
Unlink ==
  /\ \E b \in Newest(op.doomed) :
       IF store[b].db
       THEN /\ store' = [store EXCEPT ![b].db = FALSE]
            /\ UNCHANGED op
       ELSE /\ store' = [store EXCEPT ![b].manifest = "none"]
            /\ op' = [op EXCEPT !.doomed = @ \ {b}]
  /\ UNCHANGED <<Database, sealed, others, proc, marker, Checks, spent>>

\* The pruning before a copy, or before the copy of a drill, is done.
Pruned(reasons) == op.pc = "prune" /\ op.doomed = {} /\ op.reason \in reasons

\* Take the raw copy, or without room a compact or sparse one.
Choose ==
  /\ Pruned(Reasons \ {"drill"})
  /\ op' = [op EXCEPT !.pc = "copy", !.compact = (Room = 0)]
  /\ UNCHANGED <<Database, Directory, others, proc, marker, Checks, spent>>

\* No copy of any kind fits.  A start goes on with the newest backup: the one a
\* restart of the same release just made, or a stale one it only checked.
NoRoom ==
  /\ op.pc = "refused" \/ (Pruned(Reasons \ {"drill"}) /\ Room = 0)
  /\ UNCHANGED <<Database, Directory, others, Checks, spent>>
  /\ EndsWithoutRoom

\* The verified copy takes its final name.
Copy ==
  /\ op.pc = "copy"
  /\ LET b == spent.ids + 1 IN
     /\ store' = [store EXCEPT ![b] = [db |-> TRUE, rows |-> live, manifest |-> "none"]]
     /\ op' = [op EXCEPT !.pc = "named", !.id = b]
     /\ spent' = [spent EXCEPT !.ids = b]
  /\ UNCHANGED <<Database, sealed, others, proc, marker, Checks>>

\* The base manifest; a raw copy applies the retention before it is sealed.
Publish ==
  /\ op.pc = "named"
  /\ store' = [store EXCEPT ![op.id].manifest = "base"]
  /\ op' = [op EXCEPT !.pc = IF op.compact THEN "seal" ELSE "retain",
                      !.doomed = IF op.compact THEN {} ELSE Excess(2)']
  /\ UNCHANGED <<Database, sealed, others, proc, marker, Checks, spent>>

Retained ==
  /\ op.pc = "retain" /\ op.doomed = {}
  /\ op' = [op EXCEPT !.pc = "seal"]
  /\ UNCHANGED <<Database, Directory, others, proc, marker, Checks, spent>>

Seal ==
  /\ op.pc = "seal"
  /\ store' = [store EXCEPT ![op.id].manifest = "sealed"]
  /\ sealed' = sealed \cup {op.id}
  /\ op' = [op EXCEPT !.pc = "budget", !.doomed = Excess(2)']
  /\ UNCHANGED <<Database, others, proc, marker, Checks, spent>>

Return ==
  /\ op.pc = "budget" /\ op.doomed = {}
  /\ Succeeds
  /\ UNCHANGED <<Database, Directory, others, Checks, spent>>

\* A step of the attempt fails: the files it made are removed, one by one in
\* any order, and the error goes to the caller.
Fail ==
  /\ op.pc \in {"copy", "named", "seal"}
  /\ Fault("failures")
  /\ op' = [op EXCEPT !.pc = "clean", !.doomed = {}]
  /\ UNCHANGED <<Database, Directory, others, proc, marker, Checks>>

CleanFile ==
  /\ op.pc = "clean" /\ op.id # 0
  /\ \/ store[op.id].db /\ store' = [store EXCEPT ![op.id].db = FALSE]
     \/ /\ store[op.id].manifest # "none"
        /\ store' = [store EXCEPT ![op.id].manifest = "none"]
  /\ UNCHANGED <<Database, sealed, others, proc, marker, op, Checks, spent>>

\* Mutant: the manifest of a failed attempt stays.
CleanedFile ==
  /\ op.pc = "clean"
  /\ op.id # 0 => ~store[op.id].db
  /\ UNCHANGED <<Database, Directory, others, Checks, spent>>
  /\ Raises \/ EndsWithoutRoom

\* Only errors of a full disk let a start go on.
Cleaned ==
  /\ op.pc = "clean"
  /\ op.id # 0 => ~store[op.id].db /\ store[op.id].manifest = "none"
  /\ UNCHANGED <<Database, Directory, others, Checks, spent>>
  /\ Raises \/ EndsWithoutRoom

BackupStep ==
  \/ Unlink \/ Choose \/ NoRoom \/ Copy \/ Publish \/ Retained \/ Seal \/ Return
  \/ Fail \/ CleanFile \/ Cleaned

-----------------------------------------------------------------------------
(* The service around it. *)

\* An existing database is snapshotted before the engine may migrate it.
Start ==
  /\ proc = "down" /\ restore = NoRestore
  /\ proc' = IF live = Gone THEN "engine" ELSE "prestart"
  /\ UNCHANGED <<Database, Directory, others, marker, op, Checks, spent>>

Commit ==
  /\ commits < MaxCommits
  /\ commits' = commits + 1 /\ live' = commits'

\* The engine opens the database, creating a missing one, and may repair rows.
OpenEngine ==
  /\ proc = "engine"
  /\ \/ Commit
     \/ live' = (IF live = Gone THEN Empty ELSE live) /\ UNCHANGED commits
  /\ proc' = "marking"
  /\ UNCHANGED <<aside, Directory, others, marker, op, Checks, spent>>

MarkStartup ==
  /\ proc = "marking"
  /\ proc' = "running" /\ marker' = "dirty"
  /\ UNCHANGED <<Database, Directory, others, op, Checks, spent>>

Write ==
  /\ proc = "running" /\ Commit
  /\ UNCHANGED <<aside, Directory, others, proc, marker, op, Checks, spent>>

\* Collectors stop and the engine closes; a backup in its thread goes on.
Stop ==
  /\ proc = "running" /\ drill = 0
  /\ proc' = "stopping"
  /\ UNCHANGED <<Database, Directory, others, marker, op, Checks, spent>>

Crash ==
  /\ proc # "down" /\ Fault("crashes")
  /\ proc' = "down" /\ op' = Unlocked /\ drill' = 0
  /\ UNCHANGED <<Database, Directory, others, marker, proved, restore>>

\* Logs, caches and other databases on the same disk grow and shrink.
Squeeze ==
  /\ spent.squeezes < MaxSqueezes
  /\ others' \in (0 .. Slots) \ {others}
  /\ spent' = [spent EXCEPT !.squeezes = @ + 1]
  /\ UNCHANGED <<Database, Directory, proc, marker, op, Checks>>

-----------------------------------------------------------------------------
(* The drill: the newest verified backup copied to a disposable file.  With *)
(* room for two copies it takes no lock; with less it takes it, if free, and *)
(* prunes down to the backup it protects.                                    *)

BeginDrill ==
  /\ proc = "running" /\ drill = 0
  /\ spent.drills < MaxDrills
  /\ spent' = [spent EXCEPT !.drills = @ + 1]
  /\ drill' \in Newest(VerifiedManifests)
  /\ IF Room >= 2
     THEN UNCHANGED op
     ELSE /\ op = Unlocked
          /\ op' = [Unlocked EXCEPT !.pc = "prune", !.reason = "drill", !.doomed = Excess(1)]
  /\ UNCHANGED <<Database, Directory, others, proc, marker, proved, restore>>

Locked == op.reason = "drill"

\* The base manifest is enough: a manifest without a payload hash is accepted.
EndDrill ==
  /\ drill # 0
  /\ Locked => Pruned({"drill"})
  /\ proved' = IF Complete(drill) /\ (Locked => Room > 0) THEN drill ELSE proved
  /\ drill' = 0
  /\ op' = IF Locked THEN Unlocked ELSE op
  /\ UNCHANGED <<Database, Directory, others, proc, marker, restore, spent>>

-----------------------------------------------------------------------------
(* The operator's restore, with the service stopped: the manifest's own hash *)
(* is required, the database there is moved aside, the copy takes its name.  *)

BeginRestore(b) ==
  /\ proc = "down" /\ restore = NoRestore
  /\ spent.restores < MaxRestores
  /\ store[b].db /\ store[b].manifest = "sealed"
  /\ restore' = [pc |-> "preserve", id |-> b]
  /\ spent' = [spent EXCEPT !.restores = @ + 1]
  /\ UNCHANGED <<Database, Directory, others, proc, marker, op, drill, proved>>

\* Mutant: the database there is replaced, as with --no-preserve.
PreserveNothing ==
  /\ restore.pc = "preserve"
  /\ live' = Gone
  /\ restore' = [restore EXCEPT !.pc = "replace"]
  /\ UNCHANGED <<aside, commits, Directory, others, proc, marker, op, drill, proved, spent>>

Preserve ==
  /\ restore.pc = "preserve"
  /\ aside' = IF live = Gone THEN aside ELSE aside \cup {live}
  /\ live' = Gone
  /\ restore' = [restore EXCEPT !.pc = "replace"]
  /\ UNCHANGED <<commits, Directory, others, proc, marker, op, drill, proved, spent>>

Replace ==
  /\ restore.pc = "replace"
  /\ live' = store[restore.id].rows
  /\ restore' = NoRestore
  /\ UNCHANGED <<commits, aside, Directory, others, proc, marker, op, drill, proved, spent>>

Interrupt ==
  /\ restore # NoRestore /\ Fault("crashes")
  /\ restore' = NoRestore
  /\ UNCHANGED <<Database, Directory, others, proc, marker, op, drill, proved>>

-----------------------------------------------------------------------------
Next ==
  \/ Prestart \/ Scheduled \/ CleanShutdown \/ BackupStep
  \/ Start \/ OpenEngine \/ MarkStartup \/ Write \/ Stop \/ Crash \/ Squeeze
  \/ BeginDrill \/ EndDrill
  \/ (\E b \in Ids : BeginRestore(b)) \/ Preserve \/ Replace \/ Interrupt

Spec == Init /\ [][Next]_vars

\* The backup thread runs and the background loop calls again every minute.
FairSpec == Spec /\ WF_vars(BackupStep) /\ WF_vars(Scheduled)

-----------------------------------------------------------------------------
(* Properties. *)

\* A recovery point that was once restorable is removed only when a newer
\* verified backup is whole on disk: neither the byte budget, nor the one-point
\* floor of a full disk, nor a failed attempt, nor a crash between the two
\* unlinks of a pair leaves an older state as the best one there is.
ReplacedBeforeRemoved ==
  \A b \in sealed : ~Complete(b) => \E c \in Ids : c > b /\ Complete(c)

\* The last commit stays readable in the live database or in one set aside by a
\* restore, whatever stops between the steps of a restore or of a start.
LastCommitIsKept == commits = 0 \/ commits \in {live} \cup aside

\* A shutdown is recorded clean only when a sealed backup holds every commit of
\* the database the stopped engine left: the marker waits for the last snapshot.
CleanMeansBackedUp ==
  [][marker' = "clean" /\ marker # "clean" =>
       \E b \in Ids : store'[b].db /\ store'[b].manifest = "sealed" /\ store'[b].rows = live]_vars

\* Only a crash leaves half a backup, never an attempt that failed: when the lock is free,
\* every file has its sealed manifest and every manifest its file.
NoHalfBackups ==
  op = Unlocked /\ spent.crashes = 0 =>
    \A b \in Ids : store[b].manifest = IF store[b].db THEN "sealed" ELSE "none"

\* A service running with no backup at all (a new database, or a start degraded
\* by a full disk) gets one once there is room.
RecoveryPointAppears ==
  (proc = "running" /\ VerifiedManifests = {} /\ Room > 0) ~>
    (VerifiedManifests # {} \/ proc # "running" \/ Room = 0)

\* "production acceptance proves an actual restore path instead of merely
\* checking that a backup file exists": with no backup in progress, a backup
\* the drill passed is one that the restore accepts.  Known not to hold: the drill
\* passes a manifest that was never sealed.
DrillProvesRestore ==
  op = Unlocked /\ proved # 0 /\ store[proved].db => store[proved].manifest = "sealed"
=============================================================================
