------------------------- MODULE BackupStoreProofs -------------------------
(***************************************************************************)
(* What BackupStore keeps whatever the number of backups, commits, copies'  *)
(* worth of disk, faults, drills and restores.                              *)
(***************************************************************************)
EXTENDS BackupStore, FiniteSetTheorems, WellFoundedInduction, TLAPS

Ops == [pc : {"free", "refused", "prune", "copy", "named", "retain", "seal", "budget", "clean"},
        reason : Reasons, id : 0 .. MaxBackups, compact : BOOLEAN, doomed : SUBSET Ids]
Restores == [pc : {"idle", "preserve", "replace"}, id : 0 .. MaxBackups]

Writing == {"named", "retain", "seal", "budget"}

\* An attempt was admitted with a name left for it, and takes it.
NameIsLeft ==
  /\ op.pc = "copy" \/ (op.pc = "prune" /\ op.reason # "drill") => spent.ids < MaxBackups
  /\ op.pc \in Writing => op.id \in Ids

\* There is a database to copy, and nothing to copy while one is restored.
Present ==
  /\ proc \notin {"down", "engine"} => live # Gone
  /\ op.pc # "free" => proc \in {"prestart", "running", "stopping"}
  /\ restore # NoRestore => proc = "down" /\ restore.id \in Ids

\* Who holds the lock, and who may touch the database beside it.
Holder ==
  /\ op.pc = "free" => op = Unlocked
  /\ op.reason = "drill" => op.pc = "prune"
  /\ op.pc # "free" /\ op.reason = "prestart" => proc = "prestart"
  /\ op.pc # "free" /\ op.reason = "clean_shutdown" => proc = "stopping"

\* A name no backup has taken, or one that is removed altogether.
Blank(b) == ~store[b].db /\ store[b].manifest = "none"

\* The name under which the holder writes is the newest, and it is never doomed.
Naming ==
  /\ \A b \in Ids : b > spent.ids => Blank(b)
  /\ op.pc \in {"free", "refused", "prune", "copy"} => op.id = 0
  /\ op.pc \in Writing => op.id = spent.ids
  /\ op.pc \notin {"prune", "retain", "budget"} => op.doomed = {}
  /\ op.id \notin op.doomed

\* What is on disk under that name.
Written ==
  /\ op.pc \in Writing => store[op.id].db
  /\ op.pc \in Writing => store[op.id].manifest =
       IF op.pc = "named" THEN "none" ELSE IF op.pc = "budget" THEN "sealed" ELSE "base"
  /\ op.pc \in Writing /\ op.reason = "clean_shutdown" => store[op.id].rows = live

\* Every other name stands for a whole backup or for none, until a crash.
Whole(b) == store[b].manifest = IF store[b].db THEN "sealed" ELSE "none"

Halves ==
  spent.crashes = 0 =>
    \A b \in Ids : Whole(b) \/ b \in op.doomed
                   \/ (b = op.id /\ op.pc \in {"named", "retain", "seal", "clean"})

\* The last commit, between the two moves of a restore too.
Recoverable ==
  /\ LastCommitIsKept
  /\ restore.pc = "replace" => live = Gone

Attempt == Holder /\ Naming /\ Written /\ Halves

-----------------------------------------------------------------------------
(* Types.                                                                  *)

LEMMA Bounds ==
  /\ MaxBackups \in Nat /\ MaxBackups > 0 /\ Slots \in Nat /\ MaxCommits \in Nat
  /\ MaxSqueezes \in Nat /\ MaxFaults \in Nat /\ MaxDrills \in Nat /\ MaxRestores \in Nat
BY BoundsAssumption

LEMMA UnlockedType == Unlocked \in Ops
BY Bounds DEF Unlocked, Ops, Reasons

LEMMA InitTypes == Init => TypeOK /\ NameIsLeft /\ Present
<1> SUFFICES ASSUME Init PROVE TypeOK /\ NameIsLeft /\ Present
  OBVIOUS
<1> USE Bounds
<1>1. /\ Unnamed \in Backups /\ NoRestore \in Restores
      /\ [squeezes |-> 0, failures |-> 0, crashes |-> 0, drills |-> 0, restores |-> 0,
          ids |-> 0] \in Counters
  BY DEF Unnamed, Backups, NoRestore, Restores, Counters
<1>2. /\ store \in [Ids -> Backups] /\ live \in Gone .. MaxCommits /\ commits \in 0 .. MaxCommits
      /\ spent \in Counters /\ op \in Ops /\ restore \in Restores
  BY <1>1, UnlockedType DEF Init, Gone, Empty
<1> QED BY <1>2 DEF Init, TypeOK, NameIsLeft, Writing, Present, Unlocked, Ops, Restores, Ids

\* The counters that bound the environment stay in their bounds.
LEMMA FaultType ==
  ASSUME TypeOK, NEW kind \in {"failures", "crashes"}, Fault(kind)
  PROVE  /\ spent' \in Counters /\ spent'.ids = spent.ids
         /\ kind = "crashes" => spent'.crashes > 0
         /\ kind = "failures" => spent'.crashes = spent.crashes
<1> USE Bounds
<1>1. spent \in Counters
  BY DEF TypeOK
<1>2. spent.failures + 1 \in 0 .. MaxFaults /\ spent.crashes + 1 \in 0 .. MaxFaults
  BY <1>1 DEF Fault, Counters
<1> QED BY <1>1, <1>2 DEF Fault, Counters

\* How an attempt ends for its caller.
LEMMA EndsTyped ==
  ASSUME TypeOK, Succeeds \/ Raises \/ EndsWithoutRoom
  PROVE  /\ op' = Unlocked
         /\ proc' \in {"down", "prestart", "engine", "marking", "running", "stopping"}
         /\ marker' \in {"none", "dirty", "clean"}
         /\ proc' = proc \/ op.reason \in {"prestart", "clean_shutdown"}
         /\ marker' # marker => Succeeds /\ op.reason = "clean_shutdown"
BY DEF TypeOK, Succeeds, Raises, EndsWithoutRoom, MayDegrade

\* One field of one backup changes.
LEMMA StoreType ==
  ASSUME store \in [Ids -> Backups], NEW b \in Ids, NEW m \in {"none", "base", "sealed"}
  PROVE  /\ [store EXCEPT ![b].db = FALSE] \in [Ids -> Backups]
         /\ [store EXCEPT ![b].manifest = m] \in [Ids -> Backups]
<1>1. /\ [store[b] EXCEPT !.db = FALSE] \in Backups
      /\ [store[b] EXCEPT !.manifest = m] \in Backups
  BY DEF Backups
<1> QED BY <1>1

LEMMA PresentStep == TypeOK /\ Present /\ [Next]_vars => Present'
<1> SUFFICES ASSUME TypeOK, Present, [Next]_vars PROVE Present'
  OBVIOUS
<1> USE Bounds DEF Present, Database, Directory, Checks
<1>0. commits + 1 # Gone
  BY DEF TypeOK, Gone
<1>1. ASSUME NEW reason \in Reasons, Enter(reason),
             proc \in {"prestart", "running", "stopping"}
      PROVE  Present'
  BY <1>1 DEF Enter
<1>2. CASE Unlink \/ Choose \/ Copy \/ Publish \/ Retained \/ Seal \/ Fail \/ CleanFile
  <2>1. UNCHANGED <<live, proc, restore>> /\ (op.pc # "free" \/ op'.pc = op.pc)
    <3>1. CASE Unlink
      BY <3>1 DEF Unlink, TypeOK
    <3>2. CASE ~Unlink
      BY <1>2, <3>2 DEF Choose, Pruned, Copy, Publish, Retained, Seal, Fail, CleanFile
    <3> QED BY <3>1, <3>2
  <2> QED BY <2>1
<1>3. CASE NoRoom \/ Return \/ Cleaned
  <2>1. op'.pc = "free" /\ UNCHANGED <<live, restore>> /\ op.pc # "free"
    BY <1>3, EndsTyped DEF NoRoom, Return, Cleaned, Unlocked, Pruned
  <2> QED BY <1>3, <2>1 DEF NoRoom, Return, Cleaned, Succeeds, Raises, EndsWithoutRoom
<1>4. CASE Start \/ OpenEngine \/ MarkStartup \/ Write \/ Stop
  BY <1>0, <1>4 DEF Start, OpenEngine, MarkStartup, Write, Stop, Commit, Gone, Empty
<1>5. CASE Crash \/ Squeeze \/ BeginDrill \/ EndDrill
  BY <1>5 DEF Crash, Squeeze, BeginDrill, EndDrill, Unlocked
<1>6. CASE (\E b \in Ids : BeginRestore(b)) \/ Preserve \/ Replace \/ Interrupt
  BY <1>6 DEF BeginRestore, Preserve, Replace, Interrupt, NoRestore, TypeOK
<1>7. CASE UNCHANGED vars
  BY <1>7 DEF vars
<1> QED BY <1>1, <1>2, <1>3, <1>4, <1>5, <1>6, <1>7
    DEF Next, BackupStep, Prestart, Scheduled, CleanShutdown, Reasons

LEMMA TypeStep == TypeOK /\ NameIsLeft /\ Present /\ [Next]_vars => TypeOK' /\ NameIsLeft'
<1> SUFFICES ASSUME TypeOK, NameIsLeft, Present, [Next]_vars PROVE TypeOK' /\ NameIsLeft'
  OBVIOUS
<1> USE Bounds DEF Database, Directory, Checks, Writing
<1>a. /\ op \in Ops /\ store \in [Ids -> Backups] /\ spent \in Counters /\ restore \in Restores
      /\ live \in Gone .. MaxCommits /\ commits \in 0 .. MaxCommits
  BY DEF TypeOK, Ops, Restores
\* Enough for the actions that leave the other variables alone.
<1>b. ASSUME op' \in Ops, store' \in [Ids -> Backups], spent' \in Counters,
             restore' \in Restores, sealed' \subseteq Ids,
             UNCHANGED <<live, commits, aside, others, proc, marker, drill, proved>>
      PROVE  TypeOK'
  BY <1>b DEF TypeOK, Ops, Restores
<1>1. ASSUME NEW reason \in Reasons \ {"drill"}, Enter(reason) PROVE TypeOK' /\ NameIsLeft'
  <2>1. op' \in Ops
    <3>1. /\ [Unlocked EXCEPT !.pc = "prune", !.reason = reason, !.doomed = Excess(PreflightFloor)] \in Ops
          /\ [Unlocked EXCEPT !.pc = "refused", !.reason = reason] \in Ops
      BY UnlockedType DEF Ops, Excess, VerifiedManifests
    <3> QED BY <1>1, <3>1 DEF Enter
  <2>2. spent.ids < MaxBackups /\ UNCHANGED spent /\ op'.pc \in {"prune", "refused"}
    BY <1>1 DEF Enter, Unlocked
  <2>3. TypeOK'
    BY <1>1, <1>a, <1>b, <2>1 DEF Enter, TypeOK
  <2> QED BY <2>2, <2>3 DEF NameIsLeft
<1>2. CASE Unlink
  <2>1. op' \in Ops /\ op'.pc = op.pc /\ op'.reason = op.reason /\ op'.id = op.id
    BY <1>2, <1>a DEF Unlink, Ops
  <2>2. store' \in [Ids -> Backups]
    <3> PICK b \in Newest(op.doomed) :
          \/ store' = [store EXCEPT ![b].db = FALSE]
          \/ store' = [store EXCEPT ![b].manifest = "none"]
          \/ store' = store
      BY <1>2 DEF Unlink
    <3>1. b \in Ids
      BY <1>a DEF Newest, Ops
    <3> QED BY <1>a, <3>1, StoreType
  <2>3. UNCHANGED spent
    BY <1>2 DEF Unlink
  <2>4. TypeOK'
    BY <1>2, <1>a, <1>b, <2>1, <2>2 DEF Unlink, TypeOK
  <2> QED BY <2>1, <2>3, <2>4 DEF NameIsLeft
<1>3. CASE Choose \/ Retained
  <2>1. /\ op' \in Ops /\ op'.reason = op.reason /\ op'.id = op.id
        /\ op'.pc \in {"copy", "seal"} /\ (op'.pc = "seal" => op.pc = "retain")
    BY <1>3, <1>a DEF Choose, Retained, Ops
  <2>2. op'.pc = "copy" => op.pc = "prune" /\ op.reason # "drill"
    BY <1>3, <1>a DEF Choose, Retained, Pruned, Ops
  <2>3. UNCHANGED spent
    BY <1>3 DEF Choose, Retained
  <2>4. TypeOK'
    BY <1>3, <1>a, <1>b, <2>1 DEF Choose, Retained, TypeOK
  <2> QED BY <2>1, <2>2, <2>3, <2>4 DEF NameIsLeft
<1>4. CASE NoRoom \/ Return \/ Cleaned
  <2>1. /\ op' = Unlocked
        /\ proc' \in {"down", "prestart", "engine", "marking", "running", "stopping"}
        /\ marker' \in {"none", "dirty", "clean"}
    BY <1>4, EndsTyped DEF NoRoom, Return, Cleaned
  <2>2. UNCHANGED <<live, commits, aside, store, sealed, others, drill, proved, restore, spent>>
    BY <1>4 DEF NoRoom, Return, Cleaned
  <2>3. op' \in Ops /\ op'.pc = "free"
    BY <2>1, UnlockedType DEF Unlocked
  <2> QED BY <2>1, <2>2, <2>3 DEF TypeOK, NameIsLeft, Ops
<1>5. CASE Copy
  <2> DEFINE b == spent.ids + 1
  <2>1. b \in Ids /\ b \in 0 .. MaxBackups
    <3>1. spent.ids \in 0 .. MaxBackups /\ spent.ids < MaxBackups
      BY <1>5, <1>a DEF Copy, NameIsLeft, Counters
    <3> QED BY <3>1 DEF Ids
  <2>2. op' \in Ops /\ op'.pc = "named" /\ op'.id = b
    BY <1>5, <1>a, <2>1 DEF Copy, Ops
  <2>3. store' \in [Ids -> Backups]
    <3>1. live \in 0 .. MaxCommits
      BY <1>5, <1>a DEF Copy, Present, Gone
    <3>2. [db |-> TRUE, rows |-> live, manifest |-> "none"] \in Backups
      BY <3>1 DEF Backups
    <3> QED BY <1>5, <1>a, <3>2 DEF Copy
  <2>4. spent' \in Counters
    BY <1>5, <1>a, <2>1 DEF Copy, Counters
  <2>5. TypeOK'
    BY <1>5, <1>a, <1>b, <2>2, <2>3, <2>4 DEF Copy, TypeOK
  <2> QED BY <2>1, <2>2, <2>5 DEF NameIsLeft
<1>6. CASE Publish \/ Seal
  <2>0. op.id \in Ids
    BY <1>6 DEF Publish, Seal, NameIsLeft
  <2>1. op' \in Ops /\ op'.pc \in {"seal", "retain", "budget"} /\ op'.id = op.id
    BY <1>6, <1>a DEF Publish, Seal, Ops, Excess, VerifiedManifests
  <2>2. store' \in [Ids -> Backups]
    <3>1. \/ store' = [store EXCEPT ![op.id].manifest = "base"]
          \/ store' = [store EXCEPT ![op.id].manifest = "sealed"]
      BY <1>6 DEF Publish, Seal
    <3>2. [store EXCEPT ![op.id].manifest = "base"] \in [Ids -> Backups]
      BY <1>a, <2>0, StoreType
    <3>3. [store EXCEPT ![op.id].manifest = "sealed"] \in [Ids -> Backups]
      BY <1>a, <2>0, StoreType
    <3> QED BY <3>1, <3>2, <3>3
  <2>3. sealed' \subseteq Ids
    BY <1>6 DEF Publish, Seal, TypeOK, NameIsLeft
  <2>4. TypeOK'
    BY <1>6, <1>a, <1>b, <2>1, <2>2, <2>3 DEF Publish, Seal
  <2> QED BY <2>0, <2>1, <2>4 DEF NameIsLeft
<1>7. CASE Fail
  <2>1. op' \in Ops /\ op'.pc = "clean"
    BY <1>7, <1>a DEF Fail, Ops
  <2>2. TypeOK'
    BY <1>7, <1>a, <1>b, <2>1, FaultType DEF Fail, TypeOK
  <2> QED BY <2>1, <2>2 DEF NameIsLeft
<1>8. CASE CleanFile
  <2>1. store' \in [Ids -> Backups]
    <3>1. op.id \in Ids
      BY <1>8, <1>a DEF CleanFile, Ops, Ids
    <3> QED BY <1>8, <1>a, <3>1, StoreType DEF CleanFile
  <2>2. TypeOK'
    BY <1>8, <1>a, <1>b, <2>1 DEF CleanFile, TypeOK
  <2> QED BY <1>8, <2>2 DEF NameIsLeft, CleanFile
<1>9. CASE Start \/ MarkStartup \/ Stop
  BY <1>9, <1>a DEF Start, MarkStartup, Stop, TypeOK, NameIsLeft
<1>10. CASE OpenEngine \/ Write
  <2>1. live' \in Gone .. MaxCommits /\ commits' \in 0 .. MaxCommits
    BY <1>10, <1>a DEF OpenEngine, Write, Commit, Gone, Empty
  <2> QED BY <1>10, <2>1 DEF OpenEngine, Write, TypeOK, NameIsLeft
<1>11. CASE Crash
  <2>1. spent' \in Counters /\ op' \in Ops /\ op'.pc = "free"
    BY <1>11, FaultType, UnlockedType DEF Crash, Unlocked
  <2> QED BY <1>11, <2>1 DEF Crash, TypeOK, NameIsLeft, Ops
<1>12. CASE Squeeze
  <2>1. spent' \in Counters /\ spent'.ids = spent.ids
    BY <1>12, <1>a DEF Squeeze, Counters
  <2> QED BY <1>12, <2>1 DEF Squeeze, TypeOK, NameIsLeft
<1>13. CASE BeginDrill
  <2>1. spent' \in Counters /\ spent'.ids = spent.ids
    BY <1>13, <1>a DEF BeginDrill, Counters
  <2>2. op' \in Ops /\ (op' = op \/ op'.reason = "drill")
    <3>1. [Unlocked EXCEPT !.pc = "prune", !.reason = "drill", !.doomed = Excess(1)] \in Ops
      BY UnlockedType DEF Ops, Excess, VerifiedManifests, Reasons
    <3>2. op' = op \/ op' = [Unlocked EXCEPT !.pc = "prune", !.reason = "drill", !.doomed = Excess(1)]
      BY <1>13 DEF BeginDrill
    <3> QED BY <1>a, <3>1, <3>2 DEF Unlocked
  <2>3. drill' \in 0 .. MaxBackups
    BY <1>13 DEF BeginDrill, Newest, VerifiedManifests, Ids
  <2> QED BY <1>13, <2>1, <2>2, <2>3 DEF BeginDrill, TypeOK, NameIsLeft, Ops
<1>14. CASE EndDrill
  <2>1. op' \in Ops /\ (op' = op \/ op'.pc = "free")
    BY <1>14, <1>a, UnlockedType DEF EndDrill, Unlocked
  <2> QED BY <1>14, <1>a, <2>1 DEF EndDrill, TypeOK, NameIsLeft, Ops
<1>15. ASSUME NEW b \in Ids, BeginRestore(b) PROVE TypeOK' /\ NameIsLeft'
  <2>1. spent' \in Counters /\ spent'.ids = spent.ids
    BY <1>15, <1>a DEF BeginRestore, Counters
  <2>2. restore' \in Restores
    BY <1>15 DEF BeginRestore, Restores, Ids
  <2> QED BY <1>15, <2>1, <2>2 DEF BeginRestore, TypeOK, NameIsLeft, Restores
<1>16. CASE Preserve \/ Replace
  <2>1. restore' \in Restores
    BY <1>16, <1>a DEF Preserve, Replace, Restores, NoRestore
  <2>2. live' \in Gone .. MaxCommits /\ aside' \subseteq 0 .. MaxCommits
    <3>1. CASE Preserve
      BY <3>1, <1>a DEF Preserve, TypeOK, Gone
    <3>2. CASE Replace
      <4>1. restore.id \in Ids
        BY <3>2 DEF Replace, Present, NoRestore
      <4>2. store[restore.id].rows \in 0 .. MaxCommits
        BY <1>a, <4>1 DEF Backups
      <4> QED BY <3>2, <4>2 DEF Replace, Gone, TypeOK
    <3> QED BY <1>16, <3>1, <3>2
  <2> QED BY <1>16, <2>1, <2>2 DEF Preserve, Replace, TypeOK, NameIsLeft, Restores
<1>17. CASE Interrupt
  <2>1. spent' \in Counters /\ spent'.ids = spent.ids
    BY <1>17, FaultType DEF Interrupt
  <2>2. restore' \in Restores
    BY <1>17 DEF Interrupt, NoRestore, Restores
  <2> QED BY <1>17, <2>1, <2>2 DEF Interrupt, TypeOK, NameIsLeft, Restores
<1>18. CASE UNCHANGED vars
  BY <1>18 DEF vars, TypeOK, NameIsLeft
<1> QED BY <1>1, <1>2, <1>3, <1>4, <1>5, <1>6, <1>7, <1>8, <1>9, <1>10, <1>11, <1>12, <1>13,
           <1>14, <1>15, <1>16, <1>17, <1>18
    DEF Next, BackupStep, Prestart, Scheduled, CleanShutdown, Reasons

-----------------------------------------------------------------------------
(* The attempt.                                                            *)

\* A restore moves the database aside before it moves the copy in, and nothing
\* else writes in between.
LEMMA RecoverableStep ==
  TypeOK /\ Present /\ Recoverable /\ [Next]_vars => Recoverable'
<1> SUFFICES ASSUME TypeOK, Present, Recoverable, [Next]_vars PROVE Recoverable'
  OBVIOUS
<1> USE Bounds DEF Recoverable, LastCommitIsKept
<1>0. commits \in Nat /\ commits # Gone
  BY DEF TypeOK, Gone
<1>1. CASE UNCHANGED <<live, commits, aside, restore>>
  BY <1>1
<1>2. CASE OpenEngine \/ Write
  <2>1. restore.pc # "replace" \/ restore = NoRestore
    BY <1>2 DEF OpenEngine, Write, Present
  <2>2. UNCHANGED <<aside, restore>>
    BY <1>2 DEF OpenEngine, Write, Checks
  <2> QED BY <1>0, <1>2, <2>1, <2>2 DEF OpenEngine, Write, Commit, NoRestore, Gone
<1>3. ASSUME NEW b \in Ids, BeginRestore(b) PROVE Recoverable'
  BY <1>3 DEF BeginRestore, Database
<1>4. CASE Preserve
  BY <1>0, <1>4 DEF Preserve, TypeOK
<1>5. CASE Replace
  BY <1>0, <1>5 DEF Replace, NoRestore
<1>6. CASE Interrupt
  BY <1>6 DEF Interrupt, Database, NoRestore
<1>7. CASE ~(OpenEngine \/ Write \/ (\E b \in Ids : BeginRestore(b)) \/ Preserve \/ Replace \/ Interrupt)
  <2>1. UNCHANGED <<live, commits, aside, restore>>
    BY <1>7 DEF Next, vars, Prestart, Scheduled, CleanShutdown, Enter, BackupStep, Unlink,
       Choose, NoRoom, Copy, Publish, Retained, Seal, Return, Fail, CleanFile, Cleaned, Start,
       MarkStartup, Stop, Crash, Squeeze, BeginDrill, EndDrill, Database, Checks
  <2> QED BY <1>1, <2>1
<1> QED BY <1>2, <1>3, <1>4, <1>5, <1>6, <1>7

\* The budget never drops the newest manifest.
LEMMA NewestIsKept ==
  \A b \in VerifiedManifests, floor \in Nat \ {0} :
    (\A c \in VerifiedManifests : c <= b) => b \notin Excess(floor)
<1> SUFFICES ASSUME NEW b \in VerifiedManifests, NEW floor \in Nat \ {0},
                    \A c \in VerifiedManifests : c <= b
             PROVE  b \notin Excess(floor)
  OBVIOUS
<1>1. {c \in VerifiedManifests : c > b} = {}
  BY DEF VerifiedManifests, Ids
<1>2. Cardinality({c \in VerifiedManifests : c > b}) = 0
  BY <1>1, FS_EmptySet
<1> QED BY <1>2 DEF Excess, Kept

LEMMA InitAttempt == Init => Attempt /\ Recoverable
<1> SUFFICES ASSUME Init PROVE Attempt /\ Recoverable
  OBVIOUS
<1> QED BY Bounds DEF Init, Attempt, Holder, Naming, Blank, Written, Halves, Whole, Writing, Unlocked,
       Unnamed, NoRestore, Recoverable, LastCommitIsKept, Ids

LEMMA HolderStep == TypeOK /\ Present /\ Holder /\ [Next]_vars => Holder'
<1> SUFFICES ASSUME TypeOK, Present, Holder, [Next]_vars PROVE Holder'
  OBVIOUS
<1> USE DEF Holder
<1>0. op \in Ops
  BY DEF TypeOK, Ops
<1>1. CASE Prestart \/ Scheduled \/ CleanShutdown
  BY <1>1 DEF Prestart, Scheduled, CleanShutdown, Enter, Unlocked
<1>2. CASE Unlink \/ Choose \/ Copy \/ Publish \/ Retained \/ Seal \/ Fail \/ CleanFile
  <2>1. UNCHANGED proc
    BY <1>2 DEF Unlink, Choose, Copy, Publish, Retained, Seal, Fail, CleanFile
  <2>2. CASE Unlink
    <3>1. op.pc # "free"
      BY <2>2 DEF Unlink, Unlocked, Newest
    <3>2. op'.pc = op.pc /\ op'.reason = op.reason
      BY <1>0, <2>2 DEF Unlink, Ops
    <3> QED BY <2>1, <3>1, <3>2
  <2>3. CASE Choose \/ Copy \/ Publish \/ Retained \/ Seal \/ Fail \/ CleanFile
    <3>1. op.pc # "free" /\ (op.reason # "drill" \/ op' = op)
      BY <2>3 DEF Choose, Pruned, Copy, Publish, Retained, Seal, Fail, CleanFile
    <3>2. op'.pc # "free" /\ op'.reason = op.reason
      BY <1>0, <2>3 DEF Choose, Copy, Publish, Retained, Seal, Fail, CleanFile, Ops
    <3> QED BY <2>1, <3>1, <3>2
  <2> QED BY <1>2, <2>2, <2>3
<1>3. CASE NoRoom \/ Return \/ Cleaned
  <2>1. op' = Unlocked
    BY <1>3, EndsTyped DEF NoRoom, Return, Cleaned
  <2> QED BY <2>1 DEF Unlocked
<1>4. CASE Start \/ OpenEngine \/ MarkStartup \/ Write \/ Stop \/ Squeeze
  BY <1>4 DEF Start, OpenEngine, MarkStartup, Write, Stop, Squeeze, Present
<1>5. CASE Crash \/ BeginDrill \/ EndDrill
  <2>1. op' = Unlocked \/ (op' = op /\ UNCHANGED proc) \/ (op'.pc = "prune" /\ op'.reason = "drill")
    BY <1>5 DEF Crash, BeginDrill, EndDrill, Unlocked
  <2> QED BY <2>1 DEF Unlocked
<1>6. CASE (\E b \in Ids : BeginRestore(b)) \/ Preserve \/ Replace \/ Interrupt \/ UNCHANGED vars
  BY <1>6 DEF BeginRestore, Preserve, Replace, Interrupt, vars
<1> QED BY <1>1, <1>2, <1>3, <1>4, <1>5, <1>6 DEF Next, BackupStep

\* The steps that leave the attempt, its directory and its database alone.
LEMMA AttemptKept ==
  ASSUME Naming, Written, Halves,
         op' = op \/ (op.doomed = {} /\ op.pc \notin Writing \cup {"clean"}),
         op' = op \/ (op'.pc \in {"free", "refused", "prune"} /\ op'.id = 0
                        /\ (op'.pc # "prune" => op'.doomed = {}) /\ op'.doomed \subseteq Ids),
         UNCHANGED store, spent'.ids = spent.ids,
         spent'.crashes = 0 => spent.crashes = 0,
         UNCHANGED live \/ ~(op'.pc \in Writing /\ op'.reason = "clean_shutdown")
  PROVE  Naming' /\ Written' /\ Halves'
BY DEF Naming, Blank, Written, Halves, Whole, Writing, Ids

LEMMA AttemptStep == TypeOK /\ NameIsLeft /\ Present /\ Attempt /\ [Next]_vars
                       => Naming' /\ Written' /\ Halves'
<1> SUFFICES ASSUME TypeOK, NameIsLeft, Present, Attempt, [Next]_vars
             PROVE  Naming' /\ Written' /\ Halves'
  OBVIOUS
<1> USE Bounds DEF Attempt
<1>a. /\ op \in Ops /\ store \in [Ids -> Backups] /\ spent \in Counters
      /\ live \in Gone .. MaxCommits
  BY DEF TypeOK, Ops
<1>b. \A floor \in Nat : Excess(floor) \subseteq Ids
  BY DEF Excess, VerifiedManifests
<1>1. ASSUME NEW reason \in Reasons, Enter(reason) PROVE Naming' /\ Written' /\ Halves'
  <2>1. /\ op = Unlocked /\ UNCHANGED <<store, spent, live>>
        /\ op'.pc \in {"refused", "prune"} /\ op'.id = 0
        /\ op'.pc # "prune" => op'.doomed = {}
    BY <1>1 DEF Enter, Unlocked, Directory, Database
  <2>2. op'.doomed \subseteq Ids
    <3>1. PreflightFloor \in Nat
      BY DEF PreflightFloor
    <3>2. Excess(PreflightFloor) \subseteq Ids
      BY <1>b, <3>1
    <3>3. op'.doomed = {} \/ op'.doomed = Excess(PreflightFloor)
      BY <1>1 DEF Enter, Unlocked
    <3> QED BY <3>2, <3>3
  <2> QED BY <2>1, <2>2, AttemptKept DEF Unlocked, Writing
<1>2. CASE Unlink
  <2> PICK b \in Newest(op.doomed) :
        \/ store' = [store EXCEPT ![b].db = FALSE] /\ op' = op
        \/ /\ store' = [store EXCEPT ![b].manifest = "none"] /\ ~store[b].db
           /\ op' = [op EXCEPT !.doomed = @ \ {b}]
    BY <1>2 DEF Unlink
  <2>1. b \in op.doomed /\ b \in Ids /\ b # op.id
    BY <1>a DEF Newest, Ops, Naming
  <2>2. /\ op'.pc = op.pc /\ op'.reason = op.reason /\ op'.id = op.id
        /\ op'.doomed \subseteq op.doomed /\ UNCHANGED <<spent, live>>
    BY <1>2, <1>a DEF Unlink, Ops, Database
  <2>3. /\ \A c \in Ids \ {b} : store'[c] = store[c] /\ (c \in op.doomed => c \in op'.doomed)
        /\ Blank(b) => Blank(b)'
        /\ Whole(b)' \/ b \in op'.doomed
    <3>1. CASE store' = [store EXCEPT ![b].db = FALSE] /\ op' = op
      BY <1>a, <2>1, <3>1 DEF Blank, Backups
    <3>2. CASE /\ store' = [store EXCEPT ![b].manifest = "none"] /\ ~store[b].db
               /\ op' = [op EXCEPT !.doomed = @ \ {b}]
      BY <1>a, <2>1, <3>2 DEF Blank, Backups, Ops, Whole
    <3> QED BY <3>1, <3>2
  <2>4. Naming'
    BY <2>1, <2>2, <2>3 DEF Naming, Blank, Writing
  <2>5. Written'
    BY <2>1, <2>2, <2>3 DEF Written, Writing, NameIsLeft
  <2>6. Halves'
    BY <2>2, <2>3 DEF Halves, Whole
  <2> QED BY <2>4, <2>5, <2>6
<1>3. CASE Choose \/ Retained
  <2>1. /\ op.doomed = {} /\ op'.doomed = {} /\ op'.id = op.id /\ op'.reason = op.reason
        /\ \/ op.pc = "prune" /\ op'.pc = "copy"
           \/ op.pc = "retain" /\ op'.pc = "seal"
        /\ UNCHANGED <<store, spent, live>>
    BY <1>3, <1>a DEF Choose, Retained, Pruned, Ops, Directory, Database
  <2> QED BY <2>1 DEF Naming, Blank, Written, Halves, Whole, Writing
<1>4. CASE NoRoom
  <2>1. op.doomed = {} /\ op.pc \notin Writing \cup {"clean"}
    BY <1>4 DEF NoRoom, Pruned, Naming, Writing
  <2>2. op' = Unlocked /\ UNCHANGED <<store, spent, live>>
    BY <1>4, EndsTyped DEF NoRoom, Directory, Database
  <2> QED BY <2>1, <2>2, AttemptKept DEF Unlocked, Writing
<1>5. CASE Copy
  <2> DEFINE b == spent.ids + 1
  <2>1. /\ b \in Ids /\ spent.ids \in 0 .. MaxBackups
        /\ op.pc = "copy" /\ op.id = 0 /\ op.doomed = {}
    <3>1. spent.ids \in 0 .. MaxBackups /\ spent.ids < MaxBackups
      BY <1>5, <1>a DEF Copy, NameIsLeft, Counters
    <3> QED BY <1>5, <3>1 DEF Copy, Naming, Ids
  <2>2. /\ op'.pc = "named" /\ op'.id = b /\ op'.doomed = {} /\ op'.reason = op.reason
        /\ spent'.ids = b /\ spent'.crashes = spent.crashes /\ UNCHANGED live
    BY <1>5, <1>a, <2>1 DEF Copy, Ops, Counters, Database
  <2>3. /\ store'[b] = [db |-> TRUE, rows |-> live, manifest |-> "none"]
        /\ \A c \in Ids \ {b} : store'[c] = store[c]
    BY <1>5, <1>a, <2>1 DEF Copy
  <2>4. Naming'
    <3>1. \A c \in Ids : c > b => Blank(c)'
      BY <2>1, <2>3 DEF Naming, Blank, Ids
    <3> QED BY <2>2, <3>1 DEF Naming, Writing
  <2>5. Written'
    BY <2>2, <2>3 DEF Written, Writing
  <2>6. Halves'
    BY <2>1, <2>2, <2>3 DEF Halves, Whole, Ids
  <2> QED BY <2>4, <2>5, <2>6
<1>6. CASE Publish \/ Seal
  <2>1. op.id \in Ids /\ op.id = spent.ids /\ store[op.id].db
    BY <1>6 DEF Publish, Seal, NameIsLeft, Naming, Written, Writing
  <2>2. /\ op'.id = op.id /\ op'.reason = op.reason /\ UNCHANGED <<spent, live>>
        /\ op'.pc \in {"retain", "seal", "budget"}
        /\ op'.doomed = {} \/ op'.doomed = Excess(2)'
        /\ op'.pc = "seal" => op'.doomed = {}
    BY <1>6, <1>a DEF Publish, Seal, Ops, Database
  <2>3. /\ \A c \in Ids \ {op.id} : store'[c] = store[c]
        /\ store'[op.id].db /\ store'[op.id].rows = store[op.id].rows
        /\ store'[op.id].manifest = IF op'.pc = "budget" THEN "sealed" ELSE "base"
    <3>1. CASE Publish
      BY <1>a, <2>1, <3>1 DEF Publish, Backups, Ops
    <3>2. CASE Seal
      BY <1>a, <2>1, <3>2 DEF Seal, Backups, Ops
    <3> QED BY <1>6, <3>1, <3>2
  <2>4. \A c \in Ids : c > spent.ids => Blank(c)'
    BY <2>1, <2>3 DEF Naming, Blank, Ids
  <2>5. op.id \notin Excess(2)'
    <3>1. op.id \in VerifiedManifests'
      BY <2>1, <2>3 DEF VerifiedManifests
    <3>2. \A c \in VerifiedManifests' : c <= op.id
      BY <2>1, <2>4 DEF VerifiedManifests, Blank, Ids
    <3>3. (\A b \in VerifiedManifests, floor \in Nat \ {0} :
            (\A c \in VerifiedManifests : c <= b) => b \notin Excess(floor))'
      BY NewestIsKept, PTL
    <3>4. \A b \in VerifiedManifests' :
            (\A c \in VerifiedManifests' : c <= b) => b \notin Excess(2)'
      BY <3>3
    <3> QED BY <3>1, <3>2, <3>4
  <2>6. Naming'
    BY <2>1, <2>2, <2>4, <2>5 DEF Naming, Writing
  <2>7. Written'
    BY <2>1, <2>2, <2>3, <1>6 DEF Written, Writing, Publish, Seal
  <2>8. Halves'
    <3>1. op.doomed = {}
      BY <1>6 DEF Publish, Seal, Naming
    <3>2. op'.pc = "budget" => Whole(op.id)'
      BY <2>2, <2>3 DEF Whole
    <3> QED BY <2>2, <2>3, <3>1, <3>2 DEF Halves, Whole
  <2> QED BY <2>6, <2>7, <2>8
<1>7. CASE Return \/ Cleaned
  <2>1. op' = Unlocked /\ UNCHANGED <<store, spent>>
    BY <1>7, EndsTyped DEF Return, Cleaned, Directory
  <2>2. op.doomed = {}
    BY <1>7 DEF Return, Cleaned, Naming
  <2>3. op.id \in Ids => Whole(op.id)
    BY <1>7 DEF Return, Cleaned, Written, Writing, Whole, Ids
  <2> QED BY <2>1, <2>2, <2>3 DEF Naming, Blank, Written, Halves, Whole, Writing, Unlocked, Ids
<1>8. CASE Fail
  <2>1. /\ spent'.ids = spent.ids /\ spent'.crashes = spent.crashes /\ UNCHANGED <<store, live>>
    BY <1>8, FaultType DEF Fail, Directory, Database
  <2>2. /\ op'.pc = "clean" /\ op'.id = op.id /\ op'.doomed = {} /\ op.doomed = {}
    BY <1>8, <1>a DEF Fail, Ops, Naming
  <2> QED BY <1>8, <2>1, <2>2 DEF Fail, Naming, Blank, Written, Halves, Whole, Writing
<1>9. CASE CleanFile
  <2>1. op.id \in Ids
    BY <1>8, <1>9, <1>a DEF CleanFile, Ops, Ids
  <2>2. /\ \A c \in Ids \ {op.id} : store'[c] = store[c]
        /\ Blank(op.id) => Blank(op.id)'
    BY <1>9, <1>a, <2>1 DEF CleanFile, Backups, Blank
  <2>3. UNCHANGED <<op, spent, live>> /\ op.pc = "clean"
    BY <1>9 DEF CleanFile, Database
  <2> QED BY <2>1, <2>2, <2>3 DEF Naming, Blank, Written, Halves, Whole, Writing
<1>10. CASE Crash
  <2>1. spent'.crashes > 0 /\ spent'.ids = spent.ids /\ op' = Unlocked /\ UNCHANGED store
    BY <1>10, FaultType DEF Crash, Directory
  <2>2. spent'.crashes # 0
    BY <2>1
  <2> QED BY <2>1, <2>2 DEF Naming, Blank, Written, Halves, Writing, Unlocked
<1>11. CASE \/ Start \/ OpenEngine \/ MarkStartup \/ Write \/ Stop \/ Squeeze
            \/ (\E b \in Ids : BeginRestore(b)) \/ Preserve \/ Replace \/ Interrupt
            \/ UNCHANGED vars
  <2>1. UNCHANGED <<op, store>>
    BY <1>11 DEF Start, OpenEngine, MarkStartup, Write, Stop, Squeeze, BeginRestore, Preserve,
       Replace, Interrupt, vars, Directory
  <2>2. spent'.ids = spent.ids /\ (spent'.crashes = 0 => spent.crashes = 0)
    <3>1. CASE Interrupt
      <4>1. spent'.ids = spent.ids /\ spent'.crashes > 0
        BY <3>1, FaultType DEF Interrupt
      <4> QED BY <4>1
    <3>2. CASE ~Interrupt
      BY <1>11, <1>a, <3>2 DEF Start, OpenEngine, MarkStartup, Write, Stop, Squeeze,
         BeginRestore, Preserve, Replace, vars, Counters
    <3> QED BY <3>1, <3>2
  <2>3. UNCHANGED live \/ proc \in {"engine", "running", "down"}
    BY <1>11 DEF Start, OpenEngine, MarkStartup, Write, Stop, Squeeze, BeginRestore, Preserve,
       Replace, Interrupt, vars, Database, Present, NoRestore
  <2>4. UNCHANGED live \/ ~(op'.pc \in Writing /\ op'.reason = "clean_shutdown")
    BY <2>1, <2>3 DEF Holder, Writing
  <2> QED BY <2>1, <2>2, <2>4, AttemptKept DEF Writing
<1>12. CASE BeginDrill \/ EndDrill
  <2>1. /\ UNCHANGED <<store, live>> /\ spent'.ids = spent.ids /\ spent'.crashes = spent.crashes
    BY <1>12, <1>a DEF BeginDrill, EndDrill, Counters, Directory, Database
  <2>2. CASE op' = op
    BY <2>1, <2>2, AttemptKept DEF Writing
  <2>3. CASE BeginDrill /\ op' # op
    <3>1. /\ op = Unlocked
          /\ op' = [Unlocked EXCEPT !.pc = "prune", !.reason = "drill", !.doomed = Excess(1)]
      BY <2>3 DEF BeginDrill
    <3>2. Excess(1) \subseteq Ids
      BY <1>b
    <3> QED BY <2>1, <3>1, <3>2, AttemptKept DEF Unlocked, Writing
  <2>4. CASE EndDrill /\ op' # op
    <3>1. op' = Unlocked /\ op.pc = "prune" /\ op.doomed = {}
      BY <2>4 DEF EndDrill, Locked, Pruned
    <3> QED BY <2>1, <3>1, AttemptKept DEF Unlocked, Writing
  <2> QED BY <1>12, <2>2, <2>3, <2>4
<1> QED BY <1>1, <1>2, <1>3, <1>4, <1>5, <1>6, <1>7, <1>8, <1>9, <1>10, <1>11, <1>12
    DEF Next, BackupStep, Prestart, Scheduled, CleanShutdown, Reasons

-----------------------------------------------------------------------------
(* Succession: whatever is removed has a newer backup that is whole.        *)

Unfinished == {"named", "retain", "seal", "clean"}

\* The backups whose attempt is over.
Settled == {b \in VerifiedManifests : op.pc \in Unfinished => b # op.id}

Covered(b, S) == \E c \in S : c > b /\ Complete(c)

\* A backup is sealed at the end of its attempt, and only a failed attempt is cleaned.
Fresh ==
  /\ \A b \in sealed : b <= spent.ids /\ (op.pc \in Unfinished => b # op.id)
  /\ op.pc = "clean" => spent.failures > 0

\* What was sealed and what the directory lists is whole or has a newer one that is,
\* without the help of the attempt under way; what is being removed has one that stays.
Succeeded == \A b \in sealed \cup Settled : Complete(b) \/ Covered(b, Settled)
Outlived == \A b \in op.doomed : Covered(b, Settled \ op.doomed)

\* No crash met a failed attempt that was being cleaned, as none happened or none failed.
OneKindOfFault == spent.failures = 0 \/ spent.crashes = 0

Succession == OneKindOfFault => Succeeded /\ Outlived

LEMMA GreatestId ==
  ASSUME NEW S \in SUBSET Ids, S # {}
  PROVE  \E m \in S : \A c \in S : c <= m
<1> USE Bounds
<1> DEFINE T == {MaxBackups - x : x \in S}
<1>1. T \subseteq Nat /\ T # {}
  <2>1. \A x \in S : MaxBackups - x \in Nat
    BY DEF Ids
  <2>2. PICK x \in S : TRUE
    OBVIOUS
  <2>3. MaxBackups - x \in T
    BY <2>2
  <2> QED BY <2>1, <2>3
<1>2. PICK t \in T : \A y \in T : ~(<<y, t>> \in OpToRel(<, Nat))
  <2> HIDE DEF T
  <2> QED BY <1>1, NatLessThanWellFounded, WFMin
<1>3. \A y \in T : ~(y < t)
  BY <1>1, <1>2 DEF OpToRel
<1>4. PICK m \in S : t = MaxBackups - m
  OBVIOUS
<1>5. ASSUME NEW c \in S PROVE c <= m
  <2>1. ~(MaxBackups - c < MaxBackups - m)
    BY <1>3, <1>4
  <2> QED BY <2>1 DEF Ids
<1> QED BY <1>5

\* The newest settled backup is whole.
LEMMA NewestIsWhole ==
  ASSUME Succeeded, Settled # {}
  PROVE  \E m \in Settled : Complete(m) /\ \A c \in Settled : c <= m
<1>1. Settled \subseteq Ids
  BY DEF Settled, VerifiedManifests
<1>2. PICK m \in Settled : \A c \in Settled : c <= m
  BY <1>1, GreatestId
<1>3. ~Covered(m, Settled)
  BY <1>1, <1>2 DEF Covered, Ids
<1> QED BY <1>2, <1>3 DEF Succeeded

\* What a budget drops, with no attempt under way, has a newer one that it keeps.
LEMMA DroppedIsOutlived ==
  Succeeded /\ Settled = VerifiedManifests =>
    \A floor \in Nat \ {0} : \A b \in Excess(floor) : Covered(b, Settled \ Excess(floor))
<1> SUFFICES ASSUME Succeeded, Settled = VerifiedManifests,
                    NEW floor \in Nat \ {0}, NEW b \in Excess(floor)
             PROVE  Covered(b, Settled \ Excess(floor))
  OBVIOUS
<1>1. b \in Settled /\ Settled \subseteq Ids
  BY DEF Excess, VerifiedManifests
<1>2. PICK m \in Settled : Complete(m) /\ \A c \in Settled : c <= m
  BY <1>1, NewestIsWhole
<1>3. m \notin Excess(floor)
  BY <1>2, NewestIsKept
<1>4. m > b
  BY <1>1, <1>2, <1>3 DEF Ids
<1> QED BY <1>2, <1>3, <1>4 DEF Covered

LEMMA FaultCounts ==
  ASSUME TypeOK, NEW kind \in {"failures", "crashes"}, Fault(kind)
  PROVE  /\ kind = "failures" => spent'.failures = spent.failures + 1 /\ spent'.crashes = spent.crashes
         /\ kind = "crashes" => spent'.crashes = spent.crashes + 1 /\ spent'.failures = spent.failures
         /\ spent'.ids = spent.ids
<1>1. spent \in Counters
  BY DEF TypeOK
<1> QED BY <1>1 DEF Fault, Counters

\* Faults are only added to, a failure by a step of an attempt, a crash by the end
\* of the process or of a restore.
LEMMA FaultsStep ==
  ASSUME TypeOK, [Next]_vars
  PROVE  /\ spent.failures \in Nat /\ spent.crashes \in Nat /\ spent.ids \in Nat
         /\ \/ spent'.failures = spent.failures /\ spent'.crashes = spent.crashes
            \/ Fail /\ spent'.failures = spent.failures + 1 /\ spent'.crashes = spent.crashes
            \/ (Crash \/ Interrupt) /\ spent'.crashes = spent.crashes + 1 /\ spent'.failures = spent.failures
         /\ spent'.ids = spent.ids \/ (Copy /\ spent'.ids = spent.ids + 1)
<1>0. spent \in Counters
  BY DEF TypeOK
<1>a. spent.failures \in Nat /\ spent.crashes \in Nat /\ spent.ids \in Nat
  BY <1>0 DEF Counters
<1>1. CASE Fail
  <2>1. Fault("failures")
    BY <1>1 DEF Fail
  <2> QED BY <1>a, <1>1, <2>1, FaultCounts
<1>2. CASE Crash \/ Interrupt
  <2>1. Fault("crashes")
    BY <1>2 DEF Crash, Interrupt
  <2> QED BY <1>a, <1>2, <2>1, FaultCounts
<1>3. CASE Copy
  <2>1. spent' = [spent EXCEPT !.ids = spent.ids + 1]
    BY <1>3 DEF Copy
  <2> QED BY <1>0, <1>a, <1>3, <2>1 DEF Counters
<1>4. CASE Squeeze \/ BeginDrill \/ \E b \in Ids : BeginRestore(b)
  <2>1. \/ spent' = [spent EXCEPT !.squeezes = @ + 1]
        \/ spent' = [spent EXCEPT !.drills = @ + 1]
        \/ spent' = [spent EXCEPT !.restores = @ + 1]
    BY <1>4 DEF Squeeze, BeginDrill, BeginRestore
  <2> QED BY <1>0, <1>a, <2>1 DEF Counters
<1>5. CASE ~(\/ Fail \/ Crash \/ Interrupt
             \/ Copy \/ Squeeze \/ BeginDrill \/ \E b \in Ids : BeginRestore(b))
  <2>1. UNCHANGED spent
    BY <1>5 DEF Next, vars, Prestart, Scheduled, CleanShutdown, Enter, BackupStep, Unlink,
       Choose, NoRoom, Publish, Retained, Seal, Return, CleanFile, Cleaned, Start, OpenEngine,
       MarkStartup, Write, Stop, EndDrill, Preserve, Replace, Checks
  <2> QED BY <1>a, <2>1
<1> QED BY <1>1, <1>2, <1>3, <1>4, <1>5

\* The steps that leave the attempt and its directory alone.
Elsewhere ==
  \/ Start \/ OpenEngine \/ MarkStartup \/ Write \/ Stop \/ Squeeze
  \/ (\E b \in Ids : BeginRestore(b)) \/ Preserve \/ Replace \/ Interrupt \/ UNCHANGED vars
  \/ ((BeginDrill \/ EndDrill) /\ op' = op)

LEMMA ElsewhereKeeps == Elsewhere => UNCHANGED <<op, store, sealed>>
BY DEF Elsewhere, Start, OpenEngine, MarkStartup, Write, Stop, Squeeze, BeginRestore, Preserve,
   Replace, Interrupt, vars, BeginDrill, EndDrill, Directory

\* How an attempt begins: with the lock free.
Begins ==
  /\ op = Unlocked /\ UNCHANGED <<store, sealed>>
  /\ op'.id = 0 /\ op'.pc \in {"prune", "refused"}
  /\ op'.doomed = {} \/ \E floor \in Nat \ {0} : op'.doomed = Excess(floor)

\* How it ends or is cut short.
Ends == op' = Unlocked /\ UNCHANGED <<store, sealed>>

\* An attempt under way is ended by itself only outside its writes, or when what it
\* left is cleaned; a crash ends it anywhere.
Finishes ==
  Ends /\ (Crash \/ (op.pc \notin {"named", "retain", "seal"}
                      /\ (op.pc = "clean" /\ op.id # 0 => Blank(op.id))))

LEMMA AttemptMoves ==
  ASSUME TypeOK, [Next]_vars
  PROVE  \/ Elsewhere \/ Begins \/ Finishes
         \/ Unlink \/ Choose \/ Copy \/ Publish \/ Retained \/ Seal \/ Fail \/ CleanFile
<1>1. ASSUME NEW reason \in Reasons, Enter(reason) PROVE Begins
  <2>1. PreflightFloor \in Nat \ {0}
    BY DEF PreflightFloor
  <2> QED BY <1>1, <2>1 DEF Enter, Begins, Unlocked, Directory
<1>2. CASE Prestart \/ Scheduled \/ CleanShutdown
  BY <1>1, <1>2 DEF Prestart, Scheduled, CleanShutdown, Reasons
<1>3. CASE BeginDrill
  <2>1. CASE op' = op
    BY <1>3, <2>1 DEF Elsewhere
  <2>2. CASE op' # op
    <3>1. /\ op = Unlocked /\ UNCHANGED <<store, sealed>>
          /\ op' = [Unlocked EXCEPT !.pc = "prune", !.reason = "drill", !.doomed = Excess(1)]
      BY <1>3, <2>2 DEF BeginDrill, Directory
    <3>2. op'.id = 0 /\ op'.pc = "prune" /\ op'.doomed = Excess(1)
      BY <3>1 DEF Unlocked
    <3> QED BY <3>1, <3>2 DEF Begins
  <2> QED BY <2>1, <2>2
<1>4. CASE EndDrill
  <2>1. op' = Unlocked => op' = op \/ (op.pc = "prune" /\ UNCHANGED <<store, sealed>>)
    BY <1>4 DEF EndDrill, Locked, Pruned, Directory
  <2>2. op' = Unlocked \/ op' = op
    BY <1>4 DEF EndDrill
  <2> QED BY <1>4, <2>1, <2>2 DEF Finishes, Ends, Elsewhere
<1>5. CASE NoRoom \/ Return
  <2>1. op.pc \in {"refused", "prune", "budget"} /\ Ends
    BY <1>5, EndsTyped DEF NoRoom, Return, Pruned, Ends, Directory
  <2> QED BY <2>1 DEF Finishes
<1>6. CASE Cleaned
  <2>1. Ends /\ op.pc = "clean" /\ (op.id # 0 => Blank(op.id))
    BY <1>6, EndsTyped DEF Cleaned, Ends, Blank, Directory
  <2> QED BY <2>1 DEF Finishes
<1>7. CASE Crash
  BY <1>7 DEF Crash, Ends, Directory, Finishes
<1>8. CASE \/ Start \/ OpenEngine \/ MarkStartup \/ Write \/ Stop \/ Squeeze
           \/ (\E b \in Ids : BeginRestore(b)) \/ Preserve \/ Replace \/ Interrupt \/ UNCHANGED vars
  BY <1>8 DEF Elsewhere
<1> QED BY <1>2, <1>3, <1>4, <1>5, <1>6, <1>7, <1>8 DEF Next, BackupStep
LEMMA FreshStep ==
  TypeOK /\ NameIsLeft /\ Attempt /\ Fresh /\ [Next]_vars => Fresh'
<1> SUFFICES ASSUME TypeOK, NameIsLeft, Attempt, Fresh, [Next]_vars PROVE Fresh'
  OBVIOUS
<1> USE DEF Fresh, Unfinished
<1>0. /\ op \in Ops /\ sealed \subseteq Ids /\ \A b \in Ids : b \in Nat /\ b # 0
      /\ spent.failures \in Nat /\ spent.ids \in Nat /\ spent'.failures \in Nat /\ spent'.ids \in Nat
      /\ spent'.failures >= spent.failures /\ spent'.ids >= spent.ids
  BY Bounds, FaultsStep DEF TypeOK, Ops, Ids
<1>1. \A b \in sealed : b <= spent'.ids
  BY <1>0
<1>2. CASE Elsewhere
  BY <1>0, <1>1, <1>2, ElsewhereKeeps
<1>3. CASE Begins \/ Finishes
  BY <1>1, <1>3 DEF Begins, Finishes, Ends, Unlocked
<1>4. CASE Unlink
  <2>1. op'.pc = op.pc /\ op'.id = op.id /\ UNCHANGED sealed
    BY <1>0, <1>4 DEF Unlink, Ops
  <2> QED BY <1>0, <1>1, <2>1
<1>5. CASE Choose \/ Retained \/ Publish
  <2>1. /\ op'.id = op.id /\ UNCHANGED sealed
        /\ op'.pc = "copy" \/ (op'.pc \in {"seal", "retain"} /\ op.pc \in {"retain", "named"})
    BY <1>0, <1>5 DEF Choose, Retained, Publish, Ops, Directory
  <2> QED BY <1>1, <2>1
<1>6. CASE Copy
  <2>1. op'.id = spent.ids + 1 /\ op'.pc = "named" /\ UNCHANGED sealed
    BY <1>0, <1>6 DEF Copy, Ops
  <2> QED BY <1>0, <1>1, <2>1
<1>7. CASE Seal
  <2>1. op'.pc = "budget" /\ sealed' = sealed \cup {op.id} /\ op.id = spent.ids
    BY <1>0, <1>7 DEF Seal, Ops, Attempt, Naming, Writing
  <2> QED BY <1>0, <1>1, <2>1
<1>8. CASE Fail
  <2>1. op'.id = op.id /\ op'.pc = "clean" /\ UNCHANGED sealed /\ op.pc \in {"copy", "named", "seal"}
    BY <1>0, <1>8 DEF Fail, Ops, Directory
  <2>2. op.pc = "copy" => op.id = 0
    BY DEF Attempt, Naming
  <2>3. spent'.failures > 0
    BY <1>0, <1>8, FaultCounts DEF Fail
  <2> QED BY <1>0, <1>1, <2>1, <2>2, <2>3
<1>9. CASE CleanFile
  BY <1>0, <1>1, <1>9 DEF CleanFile
<1> QED BY <1>2, <1>3, <1>4, <1>5, <1>6, <1>7, <1>8, <1>9, AttemptMoves

\* The directory stays and the settled backups are those there were, or more that
\* are whole.
LEMMA SettledGrows ==
  ASSUME Succeeded, Outlived, UNCHANGED <<store, sealed>>, Settled \subseteq Settled',
         \A b \in Settled' \ Settled : Complete(b), op'.doomed \in {op.doomed, {}}
  PROVE  Succeeded' /\ Outlived'
<1>1. \A b : Complete(b)' <=> Complete(b)
  BY DEF Complete
<1>2. Succeeded'
  BY <1>1 DEF Succeeded, Covered
<1>3. Outlived'
  BY <1>1 DEF Outlived, Covered
<1> QED BY <1>2, <1>3

\* A backup that is neither sealed nor settled changes.
LEMMA OthersKeep ==
  ASSUME TypeOK, Succeeded, NEW i, UNCHANGED sealed, Settled' = Settled,
         i \notin sealed, i \notin Settled, \A c \in Ids : c # i => store'[c] = store[c]
  PROVE  Succeeded'
<1>1. \A c \in sealed \cup Settled : c \in Ids /\ c # i
  BY DEF TypeOK, Settled, VerifiedManifests
<1>2. \A c \in sealed \cup Settled : Complete(c)' <=> Complete(c)
  BY <1>1 DEF Complete
<1> QED BY <1>2 DEF Succeeded, Covered

LEMMA UnlinkKeepsSuccession ==
  ASSUME TypeOK, Attempt, Succeeded, Outlived, Unlink
  PROVE  Succeeded' /\ Outlived'
<1>0. op \in Ops /\ store \in [Ids -> Backups] /\ sealed \subseteq Ids /\ Settled \subseteq Ids
  BY DEF TypeOK, Ops, Settled, VerifiedManifests
<1> PICK b \in Newest(op.doomed) :
      \/ store[b].db /\ store' = [store EXCEPT ![b].db = FALSE] /\ op' = op
      \/ /\ store' = [store EXCEPT ![b].manifest = "none"] /\ ~store[b].db
         /\ op' = [op EXCEPT !.doomed = @ \ {b}]
  BY DEF Unlink
<1>1. b \in op.doomed /\ b \in Ids /\ b # op.id
  BY <1>0 DEF Newest, Ops, Attempt, Naming
<1>2. /\ op'.pc = op.pc /\ op'.id = op.id /\ UNCHANGED sealed
      /\ op'.doomed \subseteq op.doomed /\ op.doomed \ op'.doomed \subseteq {b}
  BY <1>0, <1>1 DEF Unlink, Ops
<1>3. \A c \in Ids : c # b => store'[c] = store[c]
  BY <1>0, <1>1
<1>4. \A c \in Ids : c # b => (Complete(c)' <=> Complete(c))
  BY <1>3 DEF Complete
<1>5. \A c \in Ids : c # b => (c \in Settled' <=> c \in Settled)
  BY <1>2, <1>3 DEF Settled, VerifiedManifests
<1>6. b \in Settled' => b \in Settled /\ b \in op'.doomed
  <2>1. CASE store' = [store EXCEPT ![b].db = FALSE] /\ op' = op
    <3>1. store'[b].manifest = store[b].manifest
      BY <1>0, <1>1, <2>1 DEF Backups
    <3> QED BY <1>1, <2>1, <3>1 DEF Settled, VerifiedManifests
  <2>2. CASE store' = [store EXCEPT ![b].manifest = "none"]
    <3>1. store'[b].manifest = "none"
      BY <1>0, <1>1, <2>2 DEF Backups
    <3> QED BY <3>1 DEF Settled, VerifiedManifests
  <2> QED BY <2>1, <2>2
<1>7. ASSUME NEW d \in op.doomed
      PROVE  \E c \in Settled' \ op'.doomed : c > d /\ Complete(c)' /\ c \in Ids
  <2> PICK c \in Settled \ op.doomed : c > d /\ Complete(c)
    BY DEF Outlived, Covered
  <2>1. c \in Ids /\ c # b
    BY <1>0, <1>1
  <2> QED BY <1>2, <1>4, <1>5, <2>1
<1>8. Outlived'
  <2>1. \A d \in op'.doomed : \E c \in Settled' \ op'.doomed : c > d /\ Complete(c)'
    BY <1>2, <1>7
  <2> QED BY <2>1 DEF Outlived, Covered
<1>9. Succeeded'
  <2>1. ASSUME NEW x \in sealed \cup Settled
        PROVE  Complete(x)' \/ \E c \in Settled' : c > x /\ Complete(c)'
    <3>0. x \in Ids
      BY <1>0
    <3>1. CASE x = b
      BY <1>1, <1>7, <3>1
    <3>2. CASE x # b /\ Complete(x)
      BY <1>4, <3>0, <3>2
    <3>3. ASSUME NEW c \in Settled, c > x, Complete(c)
          PROVE  \E e \in Settled' : e > x /\ Complete(e)'
      <4>1. CASE c # b
        BY <1>0, <1>4, <1>5, <3>3, <4>1
      <4>2. CASE c = b
        <5> PICK e \in Settled' \ op'.doomed : e > b /\ Complete(e)' /\ e \in Ids
          BY <1>1, <1>7
        <5>1. e > x
          BY <1>1, <3>0, <3>3, <4>2 DEF Ids
        <5> QED BY <5>1
      <4> QED BY <4>1, <4>2
    <3> QED BY <3>1, <3>2, <3>3 DEF Succeeded, Covered
  <2>2. Settled' \subseteq Settled
    <3>1. Settled' \subseteq Ids
      BY DEF Settled, VerifiedManifests
    <3> QED BY <1>5, <1>6, <3>1
  <2> QED BY <1>2, <2>1, <2>2 DEF Succeeded, Covered
<1> QED BY <1>8, <1>9

LEMMA PublishKeepsSuccession ==
  ASSUME TypeOK, NameIsLeft, Attempt, Naming', Fresh, Succeeded, Outlived, Publish
  PROVE  Succeeded' /\ Outlived'
<1>0. op \in Ops /\ store \in [Ids -> Backups] /\ Settled \subseteq Ids
  BY DEF TypeOK, Ops, Settled, VerifiedManifests
<1>1. /\ op.pc = "named" /\ op.id \in Ids /\ op.id = spent.ids
      /\ UNCHANGED <<sealed, spent>>
  BY DEF Publish, NameIsLeft, Attempt, Naming, Writing
<1>2. /\ op'.id = op.id /\ op'.pc \in {"seal", "retain"}
      /\ op'.doomed = {} \/ op'.doomed = Excess(2)'
  BY <1>0 DEF Publish, Ops
<1>3. /\ \A c \in Ids : c # op.id => store'[c] = store[c]
      /\ store'[op.id].manifest = "base"
  BY <1>0, <1>1 DEF Publish, Backups
<1>4. Settled' = Settled
  BY <1>1, <1>2, <1>3 DEF Settled, VerifiedManifests, Unfinished
<1>5. op.id \notin sealed /\ op.id \notin Settled
  BY <1>1 DEF Fresh, Settled, Unfinished
<1>6. Succeeded'
  BY <1>1, <1>3, <1>4, <1>5, OthersKeep
<1>7. ASSUME op'.doomed = Excess(2)', NEW b \in Excess(2)'
      PROVE  \E c \in Settled' \ Excess(2)' : c > b /\ Complete(c)'
  <2>1. b \in VerifiedManifests' /\ b # op.id
    BY <1>2, <1>7 DEF Naming, Excess
  <2>2. VerifiedManifests' = Settled \cup {op.id}
    BY <1>1, <1>2, <1>3, <1>4 DEF Settled, VerifiedManifests, Unfinished
  <2>3. PICK m \in Settled : Complete(m) /\ \A c \in Settled : c <= m
    BY <2>1, <2>2, NewestIsWhole
  <2>4. m < op.id /\ m \in Ids /\ m # op.id
    <3>1. store[m].manifest # "none" /\ m \in Ids
      BY <1>0 DEF Settled, VerifiedManifests
    <3>2. ~(m > spent.ids)
      BY <3>1 DEF Attempt, Naming, Blank
    <3> QED BY <1>1, <1>5, <3>1, <3>2 DEF Ids
  <2>5. {c \in VerifiedManifests' : c > m} = {op.id}
    <3>1. op.id > m
      BY <1>1, <2>4 DEF Ids
    <3>2. \A c \in Settled : ~(c > m)
      BY <1>0, <2>3, <2>4 DEF Ids
    <3> QED BY <2>2, <3>1, <3>2
  <2>6. Cardinality({c \in VerifiedManifests' : c > m}) < 2
    <3>1. Cardinality({c \in VerifiedManifests' : c > m}) = 1
      BY <2>5, FS_Singleton
    <3> QED BY <3>1
  <2>7. m \notin Excess(2)'
    BY <2>2, <2>6 DEF Excess, Kept
  <2>8. m > b
    <3>1. b \in Settled /\ b # m
      BY <1>7, <2>1, <2>2, <2>7
    <3>2. b \in Ids /\ b <= m
      BY <1>0, <2>3, <3>1
    <3> QED BY <2>4, <3>1, <3>2 DEF Ids
  <2>9. Complete(m)'
    BY <1>3, <2>3, <2>4 DEF Complete
  <2> QED BY <1>4, <2>7, <2>8, <2>9
<1>8. Outlived'
  BY <1>2, <1>7 DEF Outlived, Covered
<1> QED BY <1>6, <1>8

LEMMA SealKeepsSuccession ==
  ASSUME TypeOK, NameIsLeft, Attempt, Fresh, Succeeded, Outlived, Seal
  PROVE  Succeeded' /\ Outlived'
<1>0. op \in Ops /\ store \in [Ids -> Backups] /\ Settled \subseteq Ids /\ sealed \subseteq Ids
  BY DEF TypeOK, Ops, Settled, VerifiedManifests
<1>1. op.pc = "seal" /\ op.id \in Ids /\ store[op.id].db
  BY DEF Seal, NameIsLeft, Attempt, Written, Writing
<1>2. op'.pc = "budget" /\ op'.doomed = Excess(2)' /\ sealed' = sealed \cup {op.id}
  BY <1>0 DEF Seal, Ops
<1>3. /\ \A c \in Ids : c # op.id => store'[c] = store[c]
      /\ store'[op.id].manifest = "sealed" /\ store'[op.id].db
  BY <1>0, <1>1 DEF Seal, Backups
<1>4. Settled' = VerifiedManifests'
  BY <1>2 DEF Settled, Unfinished
<1>5. Settled' = Settled \cup {op.id}
  BY <1>1, <1>3, <1>4 DEF Settled, VerifiedManifests, Unfinished
<1>6. op.id \notin sealed /\ op.id \notin Settled
  BY <1>1 DEF Fresh, Settled, Unfinished
<1>7. Succeeded'
  <2> PICK i \in Ids : i = op.id
    BY <1>1
  <2>1. Complete(i)'
    BY <1>3 DEF Complete
  <2>2. \A c \in sealed \cup Settled : Complete(c)' <=> Complete(c)
    BY <1>0, <1>3, <1>6 DEF Complete
  <2>3. sealed' = sealed \cup {i} /\ Settled' = Settled \cup {i}
    BY <1>2, <1>5
  <2> QED BY <2>1, <2>2, <2>3 DEF Succeeded, Covered
<1>8. Outlived'
  <2>1. (Succeeded /\ Settled = VerifiedManifests =>
           \A floor \in Nat \ {0} : \A b \in Excess(floor) : Covered(b, Settled \ Excess(floor)))'
    BY DroppedIsOutlived, PTL
  <2>2. \A b \in Excess(2)' : (\E c \in Settled \ Excess(2) : c > b /\ Complete(c))'
    BY <1>4, <1>7, <2>1 DEF Covered
  <2> QED BY <1>2, <2>2 DEF Outlived, Covered
<1> QED BY <1>7, <1>8

LEMMA SuccessionStep ==
  TypeOK /\ NameIsLeft /\ Present /\ Attempt /\ Fresh /\ Succession /\ [Next]_vars => Succession'
<1> SUFFICES ASSUME TypeOK, NameIsLeft, Present, Attempt, Fresh, Succession, [Next]_vars,
                    OneKindOfFault'
             PROVE  Succeeded' /\ Outlived'
  BY DEF Succession
<1>0. op \in Ops /\ store \in [Ids -> Backups] /\ sealed \subseteq Ids /\ \A b \in Ids : b # 0
  BY DEF TypeOK, Ops, Ids
<1>1. Succeeded /\ Outlived
  BY FaultsStep DEF OneKindOfFault, Succession
<1>2. CASE Elsewhere
  <2>1. UNCHANGED <<op, store, sealed>>
    BY <1>2, ElsewhereKeeps
  <2>2. Settled' = Settled
    BY <2>1 DEF Settled, VerifiedManifests
  <2> QED BY <1>1, <2>1, <2>2, SettledGrows
<1>3. CASE Begins
  <2>1. Settled = VerifiedManifests /\ Settled' = Settled
    BY <1>3 DEF Begins, Settled, VerifiedManifests, Unfinished, Unlocked
  <2>2. \A c : Complete(c)' <=> Complete(c)
    BY <1>3 DEF Begins, Complete
  <2>3. Succeeded'
    BY <1>1, <1>3, <2>1, <2>2 DEF Begins, Succeeded, Covered
  <2>4. \A b \in op'.doomed : Covered(b, Settled \ op'.doomed)
    BY <1>1, <1>3, <2>1, DroppedIsOutlived DEF Begins
  <2>5. Outlived'
    BY <2>1, <2>2, <2>4 DEF Outlived, Covered
  <2> QED BY <2>3, <2>5
<1>4. CASE Finishes
  <2>1. /\ op' = Unlocked /\ UNCHANGED <<store, sealed>> /\ op'.doomed = {}
        /\ Settled' = VerifiedManifests /\ Settled \subseteq Settled'
    BY <1>4 DEF Finishes, Ends, Settled, VerifiedManifests, Unfinished, Unlocked
  <2>2. ASSUME NEW b \in Settled' \ Settled PROVE Complete(b)
    <3>1. b = op.id /\ b \in Ids /\ op.pc \in Unfinished /\ store[b].manifest # "none"
      BY <2>1 DEF Settled, VerifiedManifests
    <3>2. CASE op.pc = "clean"
      <4>1. ~Crash
        <5>1. ASSUME Crash PROVE FALSE
          <6>1. spent'.crashes = spent.crashes + 1 /\ spent'.failures = spent.failures
            BY <5>1, FaultCounts DEF Crash
          <6>2. spent.failures > 0
            BY <3>2 DEF Fresh
          <6> QED BY <6>1, <6>2, FaultsStep DEF OneKindOfFault
        <5> QED BY <5>1
      <4> QED BY <1>0, <1>4, <3>1, <3>2, <4>1 DEF Finishes, Blank
    <3>3. CASE op.pc # "clean"
      BY <3>1, <3>3 DEF Attempt, Written, Writing, Unfinished, Complete
    <3> QED BY <3>2, <3>3
  <2> QED BY <1>1, <2>1, <2>2, SettledGrows
<1>5. CASE Unlink
  BY <1>1, <1>5, UnlinkKeepsSuccession
<1>6. CASE Choose \/ Retained \/ Fail
  <2>1. /\ op'.id = op.id /\ op.doomed = {} /\ op'.doomed = {} /\ UNCHANGED <<store, sealed>>
        /\ \/ op.pc = "prune" /\ op'.pc = "copy"
           \/ op.pc = "copy" /\ op'.pc = "clean" /\ op.id = 0
           \/ op.pc \in Unfinished /\ op'.pc \in Unfinished
    BY <1>0, <1>6 DEF Choose, Retained, Fail, Pruned, Ops, Directory, Attempt, Naming, Unfinished
  <2>2. Settled' = Settled
    BY <1>0, <2>1 DEF Settled, VerifiedManifests, Unfinished
  <2> QED BY <1>1, <2>1, <2>2, SettledGrows
<1>7. CASE Copy
  <2> DEFINE i == spent.ids + 1
  <2>1. /\ op.pc = "copy" /\ op'.pc = "named" /\ op'.id = i /\ op'.doomed = op.doomed
        /\ op.doomed = {} /\ UNCHANGED sealed
    BY <1>0, <1>7 DEF Copy, Ops, Attempt, Naming
  <2>2. i \in Ids /\ i > spent.ids
    BY <1>7, FaultsStep, Bounds DEF Copy, NameIsLeft, Ids
  <2>3. /\ \A c \in Ids : c # i => store'[c] = store[c]
        /\ store'[i].manifest = "none" /\ store[i].manifest = "none"
    BY <1>0, <1>7, <2>2 DEF Copy, Attempt, Naming, Blank
  <2>4. Settled' = Settled /\ i \notin Settled
    BY <2>1, <2>2, <2>3 DEF Settled, VerifiedManifests, Unfinished
  <2>5. i \notin sealed
    BY <1>0, <2>2, FaultsStep DEF Fresh, Ids
  <2>6. Succeeded'
    BY <1>1, <2>1, <2>3, <2>4, <2>5, OthersKeep
  <2> QED BY <2>1, <2>6 DEF Outlived
<1>8. CASE Publish
  BY <1>1, <1>8, AttemptStep, PublishKeepsSuccession
<1>9. CASE Seal
  BY <1>1, <1>9, SealKeepsSuccession
<1>10. CASE CleanFile
  <2>1. /\ op.pc = "clean" /\ op' = op /\ op.doomed = {} /\ UNCHANGED sealed /\ op.id \in Ids
    BY <1>0, <1>10 DEF CleanFile, Ops, Ids, Attempt, Naming
  <2>2. \A c \in Ids : c # op.id => store'[c] = store[c]
    BY <1>0, <1>10, <2>1 DEF CleanFile
  <2>3. op.id \notin sealed /\ op.id \notin Settled
    BY <2>1 DEF Fresh, Settled, Unfinished
  <2>4. Settled' = Settled
    BY <2>1, <2>2 DEF Settled, VerifiedManifests, Unfinished
  <2>5. Succeeded'
    BY <1>1, <2>1, <2>2, <2>3, <2>4, OthersKeep
  <2> QED BY <2>1, <2>5 DEF Outlived
<1> QED BY <1>2, <1>3, <1>4, <1>5, <1>6, <1>7, <1>8, <1>9, <1>10, AttemptMoves

LEMMA InitSuccession == Init => Fresh /\ Succession
BY DEF Init, Fresh, Succession, Succeeded, Outlived, Settled, VerifiedManifests, Unnamed, Unlocked,
   Unfinished

-----------------------------------------------------------------------------
(* The theorems.                                                           *)

LEMMA Invariants ==
  Spec => [](TypeOK /\ NameIsLeft /\ Present /\ Attempt /\ Recoverable)
<1>1. Attempt <=> Holder /\ Naming /\ Written /\ Halves
  BY DEF Attempt
<1> QED BY <1>1, InitTypes, InitAttempt, TypeStep, PresentStep, HolderStep, AttemptStep,
       RecoverableStep, PTL DEF Spec

\* Every variable of the store, the service and the operator keeps its type.
THEOREM TypeCorrect == Spec => []TypeOK
BY Invariants, PTL

\* The last commit is readable in the live database or in one set aside, between any two
\* steps of a start or of a restore.
THEOREM CommitsSurvive == Spec => []LastCommitIsKept
BY Invariants, PTL DEF Recoverable

\* Without a crash every file has its sealed manifest and every manifest its file,
\* whatever attempts, prunings and drills have failed.
THEOREM BackupsAreWhole == Spec => []NoHalfBackups
<1>1. Attempt => NoHalfBackups
  BY DEF Attempt, Halves, Whole, NoHalfBackups, Unlocked, Ids
<1> QED BY <1>1, Invariants, PTL

\* A shutdown is recorded clean only with a sealed backup of every commit.
THEOREM CleanIsBackedUp == Spec => CleanMeansBackedUp
<1>1. /\ TypeOK /\ NameIsLeft /\ Attempt /\ [Next]_vars
      => [marker' = "clean" /\ marker # "clean" =>
            \E b \in Ids : store'[b].db /\ store'[b].manifest = "sealed" /\ store'[b].rows = live]_vars
  <2> SUFFICES ASSUME TypeOK, NameIsLeft, Attempt, Next, marker' = "clean", marker # "clean"
               PROVE  \E b \in Ids : /\ store'[b].db /\ store'[b].manifest = "sealed"
                                     /\ store'[b].rows = live
    BY DEF vars
  <2>1. CASE Return
    <3>1. op.reason = "clean_shutdown" /\ op.pc = "budget" /\ UNCHANGED store
      BY <2>1 DEF Return, Succeeds, Directory
    <3> QED BY <3>1 DEF Attempt, Written, NameIsLeft, Writing
  <2>2. CASE NoRoom \/ Cleaned
    BY <2>2 DEF NoRoom, Cleaned, Raises, EndsWithoutRoom, Succeeds, MayDegrade
  <2>3. CASE ~(Return \/ NoRoom \/ Cleaned)
    BY <2>3 DEF Next, Prestart, Scheduled, CleanShutdown, Enter, BackupStep, Unlink,
       Choose, Copy, Publish, Retained, Seal, Fail, CleanFile, Start, OpenEngine, MarkStartup,
       Write, Stop, Crash, Squeeze, BeginDrill, EndDrill, BeginRestore, Preserve, Replace,
       Interrupt
  <2> QED BY <2>1, <2>2, <2>3
<1> QED BY <1>1, Invariants, PTL DEF Spec, CleanMeansBackedUp

\* As long as the faults were of one kind, any number of crashes or any number of
\* failed steps, every recovery point that is gone has a newer one that is whole.
\* A crash while a failed attempt is cleaned may leave the manifest of the newest
\* backup without its file, and the next pruning then keeps that one: the bound of
\* one fault in the run stands for this hypothesis.
THEOREM RemovedIsReplaced ==
  Spec => [](spent.failures = 0 \/ spent.crashes = 0 => ReplacedBeforeRemoved)
<1>1. Init => TypeOK /\ NameIsLeft /\ Present /\ Attempt /\ Fresh /\ Succession
  BY InitTypes, InitAttempt, InitSuccession
<1>2. TypeOK /\ NameIsLeft /\ Present /\ Attempt /\ Fresh /\ Succession /\ [Next]_vars
        => TypeOK' /\ NameIsLeft' /\ Present' /\ Attempt' /\ Fresh' /\ Succession'
  <2>1. Attempt' <=> Holder' /\ Naming' /\ Written' /\ Halves'
    BY DEF Attempt
  <2>2. Attempt => Holder
    BY DEF Attempt
  <2> QED BY <2>1, <2>2, TypeStep, PresentStep, HolderStep, AttemptStep, FreshStep, SuccessionStep
<1>3. Succession => (spent.failures = 0 \/ spent.crashes = 0 => ReplacedBeforeRemoved)
  BY DEF Succession, OneKindOfFault, Succeeded, Covered, ReplacedBeforeRemoved, Settled,
     VerifiedManifests
<1> QED BY <1>1, <1>2, <1>3, PTL DEF Spec
=============================================================================
