--------------------------- MODULE LiveStateProofs ---------------------------
(***************************************************************************)
(* The safety properties of LiveState for any set of requests and any       *)
(* number of writes and failures.                                           *)
(***************************************************************************)
EXTENDS LiveState, FiniteSetTheorems, TLAPS

\* The builds that hold the lock and have read the journal.
HasRead(c) == refresh[c].at \in {"read", "built"}

\* What the handlers have told is committed, and a call knows no later revision.
Committed ==
  /\ told <= journal /\ shown <= journal
  /\ \A w \in writing : w <= journal
  /\ \A c \in Callers : refresh[c].expected <= revision /\ refresh[c].read <= journal

\* One caller at a time is between taking the lock and giving it back.
OneHolder == \A c, d \in Callers : Holds(c) /\ Holds(d) => c = d

\* A build whose revision is still current has read every write told of; every
\* build has read what was ever shown, because it read under the lock.
ReadsInTime ==
  \A c \in Callers : HasRead(c) =>
    /\ refresh[c].read >= shown
    /\ refresh[c].expected = revision => refresh[c].read >= told

\* A loop that is over left no thread behind, a stopping server no request.
Quiet ==
  /\ poll.at = "over" => Drained
  /\ server # "up" => \A r \in Requests : refresh[r].at \in {"idle", "ended"}
  /\ server = "closed" => poll.at = "over"

-----------------------------------------------------------------------------
(* Types.                                                                  *)

Calls == [at : {"idle", "waiting", "building", "read", "built", "failed", "ended"},
          expected : Nat, read : 0..MaxWrites, tick : 0..MaxWrites, cancelled : BOOLEAN]

LEMMA Bounds == MaxWrites \in Nat /\ MaxFailures \in Nat /\ MaxTickFailures \in Nat
BY BoundsAssumption

LEMMA NoneType == None \in 0..MaxWrites
BY Bounds DEF None

LEMMA NoCallType == NoCall \in Calls /\ Ended \in Calls
<1>1. NoCall \in Calls
  BY Bounds DEF NoCall, Calls
<1>2. [NoCall EXCEPT !.at = "ended"] \in Calls
  BY <1>1 DEF Calls
<1> QED BY <1>1, <1>2 DEF Ended

LEMMA CallType ==
  ASSUME NEW e \in Nat, NEW t \in 0..MaxWrites PROVE Call(e, t) \in Calls
BY Bounds DEF Call, Calls

\* TypeOK holds initially and every action preserves it.
LEMMA TypeInit == Init => TypeOK
<1> SUFFICES ASSUME Init PROVE TypeOK
  OBVIOUS
<1>1. refresh \in [Callers -> Calls]
  BY NoCallType DEF Init
<1>2. /\ current \in [journal : 0..MaxWrites, tick : 0..MaxWrites, available : BOOLEAN]
      /\ error \in [revision : Nat, set : BOOLEAN]
      /\ poll \in [at : {"loop", "broadcasting", "draining", "over"}, raised : BOOLEAN]
  BY Bounds DEF Init, Missing, NoError
<1>3. /\ writing \subseteq 1..MaxWrites
      /\ {journal, told, shown, tickRead, newest} \subseteq 0..MaxWrites
      /\ failures \in 0..MaxFailures /\ tickFailures \in 0..MaxTickFailures
      /\ revision \in Nat
  BY Bounds DEF Init
<1> QED BY <1>1, <1>2, <1>3 DEF Init, TypeOK, Calls

LEMMA TypeStep == TypeOK /\ [Next]_vars => TypeOK'
<1> SUFFICES ASSUME TypeOK, [Next]_vars PROVE TypeOK'
  OBVIOUS
<1> USE Bounds
<1>0. PollLoop \in Callers
  BY DEF Callers
<1>1. CASE Commit
  BY <1>1 DEF Commit, TypeOK, writeVars, snapshotVars, loopVars, tickVars
<1>2. CASE Answer
  <2> PICK w \in writing : Invalidate(w) \/ LeaveStale(w)
    BY <1>2 DEF Answer
  <2>1. CASE Invalidate(w)
    BY <2>1 DEF Invalidate, Invalidated, Missing, NoError, TypeOK, writeVars, snapshotVars,
       loopVars, tickVars
  <2>2. CASE LeaveStale(w)
    BY <2>2 DEF LeaveStale, TypeOK, writeVars, snapshotVars, loopVars, tickVars
  <2> QED BY <2>1, <2>2
<1>3. ASSUME NEW r \in Requests, Ask(r) PROVE TypeOK'
  <2>1. refresh' \in [Callers -> Calls]
    BY <1>3, CallType, NoneType DEF Ask, TypeOK, Calls
  <2> QED BY <1>3, <2>1 DEF Ask, TypeOK, Calls, writeVars, snapshotVars, loopVars, tickVars
<1>4. ASSUME NEW r \in Requests, Cancel(r) PROVE TypeOK'
  <2>1. r \in Callers
    BY DEF Callers
  <2>4. refresh[r] \in Calls
    BY <2>1 DEF TypeOK, Calls
  <2>2. [refresh[r] EXCEPT !.cancelled = TRUE] \in Calls
    BY <2>4 DEF Calls
  <2>3. refresh' \in [Callers -> Calls]
    BY <1>4, <2>1, <2>2, NoCallType DEF Cancel, TypeOK, Calls
  <2> QED BY <1>4, <2>3 DEF Cancel, TypeOK, Calls, writeVars, snapshotVars, loopVars, tickVars
<1>5. ASSUME NEW c \in Callers, Refresh(c) PROVE TypeOK'
  <2>1. CASE Enter(c)
    <3>1. /\ [refresh[c] EXCEPT !.at = "building"] \in Calls
          /\ [refresh[c] EXCEPT !.at = "building", !.tick = newest] \in Calls
      BY DEF TypeOK, Calls
    <3>2. refresh' \in [Callers -> Calls]
      BY <2>1, <3>1, NoCallType DEF Enter, TypeOK, Calls
    <3> QED BY <2>1, <3>2 DEF Enter, TypeOK, Calls, writeVars, snapshotVars, loopVars, tickVars
  <2>2. CASE ReadJournal(c)
    <3>1. [refresh[c] EXCEPT !.at = "read", !.read = journal] \in Calls
      BY DEF TypeOK, Calls
    <3>2. refresh' \in [Callers -> Calls]
      BY <2>2, <3>1 DEF ReadJournal, TypeOK, Calls
    <3> QED BY <2>2, <3>2 DEF ReadJournal, TypeOK, Calls, writeVars, snapshotVars, loopVars, tickVars
  <2>3. CASE Encode(c)
    BY <2>3 DEF Encode, TypeOK, writeVars, snapshotVars, loopVars, tickVars
  <2>4. CASE BuildFails(c)
    BY <2>4 DEF BuildFails, TypeOK, writeVars, snapshotVars, loopVars, tickVars
  <2>5. CASE Settle(c)
    <3>1. refresh' \in [Callers -> Calls]
      BY <2>5, NoCallType DEF Settle, TypeOK, Calls
    <3>2. /\ current' \in [journal : 0..MaxWrites, tick : 0..MaxWrites, available : BOOLEAN]
          /\ error' \in [revision : Nat, set : BOOLEAN]
          /\ shown' \in 0..MaxWrites
      <4>1. /\ refresh[c].expected \in Nat /\ refresh[c].read \in 0..MaxWrites
            /\ refresh[c].tick \in 0..MaxWrites
        BY DEF TypeOK
      <4>2. CASE refresh[c].at = "failed"
        <5>1. ErrorRecorded(c) /\ UNCHANGED <<current, shown>>
          BY <2>5, <4>2 DEF Settle
        <5>2. [revision |-> refresh[c].expected, set |-> TRUE] \in [revision : Nat, set : BOOLEAN]
          BY <4>1
        <5> QED BY <4>1, <5>1, <5>2 DEF ErrorRecorded, TypeOK
      <4>3. CASE refresh[c].at # "failed"
        <5>1. Published(c) \/ UNCHANGED <<current, error, shown>>
          BY <2>5, <4>3 DEF Settle
        <5>2. /\ BuiltBy(c) \in [journal : 0..MaxWrites, tick : 0..MaxWrites,
                                 available : BOOLEAN]
              /\ NoError \in [revision : Nat, set : BOOLEAN]
          BY <4>1 DEF BuiltBy, NoError
        <5> QED BY <4>1, <5>1, <5>2 DEF Published, TypeOK
      <4> QED BY <4>2, <4>3
    <3> QED BY <2>5, <3>1, <3>2 DEF Settle, TypeOK, Calls, writeVars, loopVars, tickVars
  <2> QED BY <1>5, <2>1, <2>2, <2>3, <2>4, <2>5 DEF Refresh
<1>6. CASE Pass
  <2>1. refresh' \in [Callers -> Calls]
    BY <1>6, NoCallType DEF Pass, TypeOK, Calls
  <2>2. /\ poll' \in [at : {"loop", "broadcasting", "draining", "over"}, raised : BOOLEAN]
        /\ tick' \in {"none", "running", "read", "done", "failed"} /\ ticked' \in BOOLEAN
        /\ tickRead' \in 0..MaxWrites /\ newest' \in 0..MaxWrites
        /\ cooled' \in BOOLEAN
    <3>1. poll \in [at : {"loop", "broadcasting", "draining", "over"}, raised : BOOLEAN]
      BY DEF TypeOK
    <3>2. [poll EXCEPT !.at = "broadcasting"]
            \in [at : {"loop", "broadcasting", "draining", "over"}, raised : BOOLEAN]
      BY <3>1
    <3>3. [at |-> "draining", raised |-> TRUE]
            \in [at : {"loop", "broadcasting", "draining", "over"}, raised : BOOLEAN]
      OBVIOUS
    <3>4. cooled' \in BOOLEAN
      BY <1>6 DEF Pass, TypeOK
    <3>5. /\ tick' \in {"none", "running", "read", "done", "failed"} /\ ticked' \in BOOLEAN
          /\ tickRead' \in 0..MaxWrites /\ newest' \in 0..MaxWrites
      BY <1>6, NoneType DEF Pass, Ticking, TypeOK
    <3> QED BY <1>6, <3>1, <3>2, <3>3, <3>4, <3>5 DEF Pass, TypeOK
  <2> QED BY <1>6, <2>1, <2>2 DEF Pass, TypeOK, Calls, writeVars, snapshotVars
<1>7. CASE AfterBroadcast
  <2>1. refresh' \in [Callers -> Calls]
    BY <1>7, CallType DEF AfterBroadcast, TypeOK, Calls
  <2> QED BY <1>7, <2>1 DEF AfterBroadcast, TypeOK, Calls, writeVars, snapshotVars
<1>8. CASE Drain
  BY <1>8 DEF Drain, TypeOK, writeVars, snapshotVars, tickVars
<1>9. CASE FeedEnds \/ TickReads \/ TickEnds \/ Cool
  <2>1. CASE FeedEnds
    BY <2>1 DEF FeedEnds, TypeOK, writeVars, snapshotVars, tickVars
  <2>2. CASE TickReads
    BY <2>2 DEF TickReads, TypeOK, writeVars, snapshotVars
  <2>3. CASE TickEnds
    BY <2>3, NoneType DEF TickEnds, TypeOK, writeVars, snapshotVars
  <2>4. CASE Cool
    BY <2>4 DEF Cool, TypeOK, writeVars, snapshotVars, tickVars
  <2> QED BY <1>9, <2>1, <2>2, <2>3, <2>4
<1>10. CASE Shutdown \/ Close
  BY <1>10 DEF Shutdown, Close, TypeOK, writeVars, snapshotVars, loopVars, tickVars
<1>11. CASE Over \/ UNCHANGED vars
  BY <1>11 DEF Over, TypeOK, vars, writeVars, snapshotVars, loopVars, tickVars
<1> QED BY <1>1, <1>2, <1>3, <1>4, <1>5, <1>6, <1>7, <1>8, <1>9, <1>10, <1>11
     DEF Next, Loop

-----------------------------------------------------------------------------
(* What the actions do to the calls.                                       *)

\* The calls other than c are left alone, c goes on, or ends.
Moved(c, at) ==
  /\ \A d \in Callers \ {c} : refresh'[d] = refresh[d]
  /\ refresh'[c].at = at
  /\ at = "ended" => refresh'[c].expected = 0 /\ refresh'[c].read = 0
  /\ at # "ended" => refresh'[c].expected = refresh[c].expected
  /\ at \notin {"read", "ended"} => refresh'[c].read = refresh[c].read

LEMMA Moves ==
  ASSUME TypeOK, NEW c \in Callers
  PROVE  /\ Enter(c) => /\ refresh[c].at = "waiting" /\ LockFree
                        /\ \/ Moved(c, "building") \/ Moved(c, "ended")
         /\ ReadJournal(c) => /\ refresh[c].at = "building" /\ Moved(c, "read")
                              /\ refresh'[c].read = journal
         /\ Encode(c) => refresh[c].at = "read" /\ Moved(c, "built")
         /\ BuildFails(c) => Running(c) /\ Moved(c, "failed")
         /\ Settle(c) => refresh[c].at \in {"built", "failed"} /\ Moved(c, "ended")
         /\ Cancel(c) => \/ refresh[c].at = "waiting" /\ Moved(c, "ended")
                         \/ Running(c) /\ Moved(c, refresh[c].at)
                              /\ refresh'[c].read = refresh[c].read
<1> USE DEF TypeOK, Moved
<1>0. refresh[c] \in Calls
  BY DEF Calls
<1>e. Ended.at = "ended" /\ Ended.expected = 0 /\ Ended.read = 0
  BY DEF Ended, NoCall
<1>1. ASSUME Enter(c)
      PROVE  /\ refresh[c].at = "waiting" /\ LockFree
             /\ \/ Moved(c, "building") \/ Moved(c, "ended")
  BY <1>0, <1>1, <1>e DEF Enter, Calls
<1>2. ASSUME ReadJournal(c)
      PROVE  /\ refresh[c].at = "building" /\ Moved(c, "read")
             /\ refresh'[c].read = journal
  BY <1>2 DEF ReadJournal
<1>3. ASSUME Encode(c) PROVE refresh[c].at = "read" /\ Moved(c, "built")
  BY <1>3 DEF Encode
<1>4. ASSUME BuildFails(c) PROVE Running(c) /\ Moved(c, "failed")
  BY <1>4 DEF BuildFails
<1>5. ASSUME Settle(c) PROVE refresh[c].at \in {"built", "failed"} /\ Moved(c, "ended")
  BY <1>5, <1>e DEF Settle
<1>6. ASSUME Cancel(c)
      PROVE  \/ refresh[c].at = "waiting" /\ Moved(c, "ended")
             \/ Running(c) /\ Moved(c, refresh[c].at) /\ refresh'[c].read = refresh[c].read
  <2>1. CASE refresh[c].at = "waiting" /\ refresh' = [refresh EXCEPT ![c] = Ended]
    BY <1>e, <2>1
  <2>2. CASE Running(c) /\ refresh' = [refresh EXCEPT ![c].cancelled = TRUE]
    BY <2>2 DEF Running
  <2> QED BY <1>6, <2>1, <2>2 DEF Cancel
<1> QED BY <1>1, <1>2, <1>3, <1>4, <1>5, <1>6

\* A call for the revision of the moment takes the place of an idle or ended one.
Called(c) ==
  /\ \A d \in Callers \ {c} : refresh'[d] = refresh[d]
  /\ refresh'[c].at = "waiting" /\ refresh'[c].expected = revision
  /\ refresh'[c].read = 0

LEMMA Calling ==
  ASSUME TypeOK
  PROVE  /\ \A r \in Requests : Ask(r) => refresh[r].at = "idle" /\ Called(r)
         /\ AfterBroadcast => UNCHANGED refresh \/ (refresh[PollLoop].at = "idle" /\ Called(PollLoop))
         /\ Pass => \/ UNCHANGED refresh
                    \/ /\ refresh[PollLoop].at = "ended"
                       /\ \A d \in Callers \ {PollLoop} : refresh'[d] = refresh[d]
                       /\ refresh'[PollLoop] = NoCall
BY DEF TypeOK, Ask, AfterBroadcast, Pass, Called, Call, Callers

-----------------------------------------------------------------------------
(* The invariant.                                                          *)

\* What the safety of the state rests on; Quiet is about the shutdown only.
Core == Committed /\ OneHolder /\ ReadsInTime /\ RowsSeeWrites /\ ErrorIsOfThisRevision

\* The variables Core is about.
coreVars == <<journal, writing, told, revision, current, error, shown, refresh>>

LEMMA InitCore == Init => Core /\ Quiet
<1> SUFFICES ASSUME Init PROVE Core /\ Quiet
  OBVIOUS
<1>1. \A c \in Callers : refresh[c] = NoCall
  BY DEF Init
<1> QED BY <1>1 DEF Init, Core, Quiet, Committed, OneHolder, ReadsInTime, RowsSeeWrites,
       ErrorIsOfThisRevision, Holds, HasRead, NoCall, Missing, NoError, Callers

LEMMA CoreKept == Core /\ UNCHANGED coreVars => Core'
BY DEF coreVars, Core, Committed, OneHolder, ReadsInTime, RowsSeeWrites,
   ErrorIsOfThisRevision, Holds, HasRead

\* A write, and the invalidation that answers for it.
LEMMA CoreWrites ==
  ASSUME TypeOK, Core, Commit \/ Answer
  PROVE  Core'
<1> USE DEF TypeOK, Core, Committed, OneHolder, ReadsInTime, RowsSeeWrites,
            ErrorIsOfThisRevision, Holds, HasRead
<1>1. CASE Commit
  BY <1>1 DEF Commit, snapshotVars
<1>2. CASE Answer
  <2> PICK w \in writing : Invalidate(w) \/ LeaveStale(w)
    BY <1>2 DEF Answer
  <2>1. CASE Invalidate(w)
    BY <2>1 DEF Invalidate, Invalidated, Missing, NoError
  <2>2. CASE LeaveStale(w)
    BY <2>2 DEF LeaveStale, snapshotVars
  <2> QED BY <2>1, <2>2
<1> QED BY <1>1, <1>2

\* A call is made, taken back, or settles its result under the lock.
LEMMA CoreCalls ==
  ASSUME TypeOK, TypeOK', Core, NEW c \in Callers,
         \/ Refresh(c) \/ Cancel(c)
         \/ c \in Requests /\ Ask(c)
  PROVE  Core'
<1> USE DEF TypeOK, Core, Committed, OneHolder, ReadsInTime, RowsSeeWrites,
            ErrorIsOfThisRevision, Holds, HasRead
<1>1. CASE Enter(c)
  <2>1. /\ UNCHANGED <<journal, writing, told, revision, current, error, shown>>
        /\ refresh[c].at = "waiting" /\ LockFree
        /\ Moved(c, "building") \/ Moved(c, "ended")
    BY <1>1, Moves DEF Enter, writeVars, snapshotVars
  <2>2. Committed' /\ RowsSeeWrites' /\ ErrorIsOfThisRevision'
    BY <2>1 DEF Moved
  <2>3. OneHolder' /\ ReadsInTime'
    BY <2>1 DEF Moved, LockFree
  <2> QED BY <2>2, <2>3
<1>2. CASE ReadJournal(c)
  <2>1. /\ UNCHANGED <<journal, writing, told, revision, current, error, shown>>
        /\ refresh[c].at = "building" /\ Moved(c, "read") /\ refresh'[c].read = journal
    BY <1>2, Moves DEF ReadJournal, writeVars, snapshotVars
  <2>2. Committed' /\ RowsSeeWrites' /\ ErrorIsOfThisRevision'
    BY <2>1 DEF Moved
  <2>3. OneHolder'
    BY <2>1 DEF Moved
  <2>4. ReadsInTime'
    BY <2>1 DEF Moved
  <2> QED BY <2>2, <2>3, <2>4
<1>3. CASE Encode(c)
  BY <1>3, Moves DEF Encode, Moved, writeVars, snapshotVars
<1>4. CASE BuildFails(c)
  BY <1>4, Moves DEF BuildFails, Moved, Running, writeVars, snapshotVars
<1>5. CASE Cancel(c)
  BY <1>5, Moves DEF Cancel, Moved, Running, writeVars, snapshotVars
<1>6. CASE c \in Requests /\ Ask(c)
  <2>1. /\ UNCHANGED <<journal, writing, told, revision, current, error, shown>>
        /\ Called(c)
    BY <1>6, Calling DEF Ask, writeVars, snapshotVars
  <2>2. Committed' /\ RowsSeeWrites' /\ ErrorIsOfThisRevision'
    BY <2>1 DEF Called
  <2>3. OneHolder' /\ ReadsInTime'
    BY <2>1 DEF Called
  <2> QED BY <2>2, <2>3
<1>7. CASE Settle(c)
  <2>1. /\ refresh[c].at \in {"built", "failed"} /\ Moved(c, "ended")
        /\ UNCHANGED <<journal, writing, told, revision>>
    BY <1>7, Moves DEF Settle, writeVars
  <2>2. OneHolder'
    BY <2>1 DEF Moved
  <2>3. CASE UNCHANGED <<current, error, shown>>
    BY <2>1, <2>3 DEF Moved
  <2>4. CASE /\ error' = [revision |-> revision, set |-> TRUE]
             /\ UNCHANGED <<current, shown>>
    BY <2>1, <2>4 DEF Moved
  <2>5. CASE refresh[c].at = "built" /\ refresh[c].expected = revision /\ Published(c)
    <3>1. /\ current' = BuiltBy(c)
          /\ current'.journal = refresh[c].read /\ current'.available
          /\ error' = NoError /\ shown' = refresh[c].read
      BY <2>5 DEF Published, BuiltBy
    <3>2. Committed'
      BY <2>1, <3>1 DEF Moved
    <3>3. \A d \in Callers : d # c => ~Holds(d)
      BY <2>5
    <3>4. ReadsInTime'
      BY <2>1, <3>3 DEF Moved
    <3>5. RowsSeeWrites' /\ ErrorIsOfThisRevision'
      BY <2>1, <2>5, <3>1 DEF NoError
    <3> QED BY <2>2, <3>2, <3>4, <3>5
  <2>6. \/ UNCHANGED <<current, error, shown>>
        \/ error' = [revision |-> revision, set |-> TRUE] /\ UNCHANGED <<current, shown>>
        \/ refresh[c].at = "built" /\ refresh[c].expected = revision /\ Published(c)
    BY <1>7 DEF Settle, ErrorRecorded, Published
  <2> QED BY <2>3, <2>4, <2>5, <2>6
<1> QED BY <1>1, <1>2, <1>3, <1>4, <1>5, <1>6, <1>7 DEF Refresh

\* A pass of the loop reaps its call or makes the next one.
LEMMA CorePasses ==
  ASSUME TypeOK, TypeOK', Core, Pass \/ AfterBroadcast
  PROVE  Core'
<1>0. PollLoop \in Callers
  BY DEF Callers
<1> USE <1>0 DEF TypeOK, Core, Committed, OneHolder, ReadsInTime, RowsSeeWrites,
            ErrorIsOfThisRevision, Holds, HasRead
<1>1. CASE Pass
  BY <1>1, Calling DEF Pass, NoCall, writeVars, snapshotVars
<1>2. CASE AfterBroadcast
  BY <1>2, Calling DEF AfterBroadcast, Called, writeVars, snapshotVars
<1> QED BY <1>1, <1>2

LEMMA CoreStep == TypeOK /\ TypeOK' /\ Core /\ [Next]_vars => Core'
<1> SUFFICES ASSUME TypeOK, TypeOK', Core, [Next]_vars PROVE Core'
  OBVIOUS
<1>1. CASE Commit \/ Answer
  BY <1>1, CoreWrites
<1>2. CASE \E r \in Requests : Ask(r) \/ Cancel(r)
  BY <1>2, CoreCalls DEF Callers
<1>3. CASE \E c \in Callers : Refresh(c)
  BY <1>3, CoreCalls
<1>4. CASE Pass \/ AfterBroadcast
  BY <1>4, CorePasses
<1>5. CASE Drain \/ FeedEnds \/ TickReads \/ TickEnds \/ Cool \/ Shutdown \/ Close \/ Over \/ UNCHANGED vars
  <2>1. UNCHANGED coreVars
    BY <1>5 DEF Drain, FeedEnds, TickReads, TickEnds, Cool, Shutdown, Close, Over, vars, coreVars,
       writeVars, snapshotVars
  <2> QED BY <2>1, CoreKept
<1> QED BY <1>1, <1>2, <1>3, <1>4, <1>5 DEF Next, Loop

\* The end of the loop and of the service.
LEMMA QuietStep == TypeOK /\ Quiet /\ [Next]_vars => Quiet'
<1> SUFFICES ASSUME TypeOK, Quiet, [Next]_vars PROVE Quiet'
  OBVIOUS
<1>0. /\ PollLoop \in Callers /\ Requests \subseteq Callers
      /\ \A r \in Requests : r # PollLoop
  BY LoopIsNoRequest DEF Callers
<1> USE <1>0 DEF Quiet, Drained, Ticking, tickVars
<1>1. CASE Commit
  BY <1>1 DEF Commit, loopVars
<1>2. CASE Answer
  BY <1>2 DEF Answer, Invalidate, LeaveStale, loopVars
<1>3. ASSUME NEW r \in Requests, Ask(r) PROVE Quiet'
  BY <1>3, Calling DEF Ask, Called, loopVars
<1>4. ASSUME NEW c \in Callers, Refresh(c) \/ Cancel(c) PROVE Quiet'
  <2>1. /\ UNCHANGED <<loopVars, server>>
        /\ refresh[c].at \notin {"idle", "ended"}
        /\ \A d \in Callers \ {c} : refresh'[d] = refresh[d]
    BY <1>4, Moves DEF Refresh, Enter, ReadJournal, Encode, BuildFails, Settle, Cancel, Moved,
       Running
  <2> QED BY <2>1 DEF loopVars
<1>5. CASE Pass
  <2>1. poll'.at # "over" /\ server' = "up"
    BY <1>5 DEF Pass, TypeOK
  <2> QED BY <2>1
<1>6. CASE AfterBroadcast
  BY <1>6, Calling DEF AfterBroadcast
<1>7. CASE Drain
  BY <1>7 DEF Drain
<1>8. CASE FeedEnds \/ TickReads \/ TickEnds \/ Cool
  BY <1>8 DEF FeedEnds, TickReads, TickEnds, Cool
<1>9. CASE Shutdown
  BY <1>9 DEF Shutdown, TypeOK
<1>10. CASE Close \/ Over \/ UNCHANGED vars
  BY <1>10 DEF Close, Over, vars, loopVars
<1> QED BY <1>1, <1>2, <1>3, <1>4, <1>5, <1>6, <1>7, <1>8, <1>9, <1>10 DEF Next, Loop

-----------------------------------------------------------------------------
(* The theorems.                                                           *)

\* Every variable of the page's state keeps its type.
THEOREM TypeCorrect == Spec => []TypeOK
BY TypeInit, TypeStep, PTL DEF Spec

\* The invariant of the state holds in every run.
LEMMA CoreHolds == Spec => [](TypeOK /\ Core /\ Quiet)
BY TypeInit, TypeStep, InitCore, CoreStep, QuietStep, PTL DEF Spec

\* The rows of a state that is served were read after every write whose handler has answered:
\* publish_live_state compares the revision of the build with the current one.  Nothing is
\* claimed of the tick that is served with them.
THEOREM ServedRowsSeeWrites == Spec => []RowsSeeWrites
<1>1. Core => RowsSeeWrites
  BY DEF Core
<1> QED BY <1>1, CoreHolds, PTL

\* The error that makes the readers fail is one of the current revision.
THEOREM ErrorIsCurrent == Spec => []ErrorIsOfThisRevision
<1>1. Core => ErrorIsOfThisRevision
  BY DEF Core
<1> QED BY <1>1, CoreHolds, PTL

\* At most one worker builds, whatever has been cancelled: the lock is kept until
\* the thread has ended.
THEOREM OneBuild == Spec => []SingleFlight
<1>1. OneHolder => SingleFlight
  <2> SUFFICES ASSUME OneHolder PROVE SingleFlight
    OBVIOUS
  <2> DEFINE R == {c \in Callers : Running(c)}
  <2>1. CASE R = {}
    BY <2>1, FS_EmptySet DEF SingleFlight
  <2>2. CASE R # {}
    <3> PICK c \in R : TRUE
      BY <2>2
    <3>1. R = {c}
      BY DEF OneHolder, Running, Holds
    <3>2. Cardinality(R) = 1
      BY <3>1, FS_Singleton
    <3> QED BY <3>2 DEF SingleFlight
  <2> QED BY <2>1, <2>2
<1> QED BY <1>1, CoreHolds, PTL DEF Core

\* The engine is closed only when no thread of the loop reads the database: the
\* loop's finally block awaits its tasks before the shutdown goes on.
THEOREM ReadersEndFirst == Spec => []ClosesAfterItsReaders
<1>1. Quiet => ClosesAfterItsReaders
  BY DEF Quiet, Drained, Ticking, ClosesAfterItsReaders, Running, Callers
<1> QED BY <1>1, CoreHolds, PTL

\* What is published was read no earlier than anything published before it: the
\* read happens under the lock that the publication gives back.
THEOREM NoReaderGoesBack == Spec => GenerationsAdvance
<1>1. TypeOK /\ Core /\ [Next]_vars =>
        [current'.available /\ current' # current => current'.journal >= shown]_vars
  <2> SUFFICES ASSUME TypeOK, Core, Next, current'.available, current' # current
               PROVE  current'.journal >= shown
    BY DEF vars, snapshotVars
  <2>1. CASE \E c \in Callers : Settle(c)
    <3> PICK c \in Callers : Settle(c)
      BY <2>1
    <3>1. /\ refresh[c].at = "built"
          /\ current' = BuiltBy(c) /\ current'.journal = refresh[c].read
      BY DEF Settle, Published, BuiltBy
    <3> QED BY <3>1 DEF Core, ReadsInTime, HasRead
  <2>2. CASE Answer
    BY <2>2 DEF Answer, Invalidate, LeaveStale, Invalidated, Missing, snapshotVars
  <2>3. CASE ~Answer /\ ~\E c \in Callers : Settle(c)
    <3>1. UNCHANGED current
      BY <2>3 DEF Next, Loop, Refresh, Commit, Ask, Cancel, Enter, ReadJournal, Encode,
         BuildFails, Pass, AfterBroadcast, Drain, FeedEnds, TickReads, TickEnds, Cool, Shutdown, Close,
         Over, vars, snapshotVars
    <3> QED BY <3>1
  <2> QED BY <2>1, <2>2, <2>3
<1> QED BY <1>1, CoreHolds, PTL DEF Spec, GenerationsAdvance

=============================================================================
