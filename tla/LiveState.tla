------------------------------ MODULE LiveState ------------------------------
(* The page's bootstrap state: one generation, built in worker threads under *)
(* one lock, by the poll loop and by requests that ask for a fresh one, while *)
(* handlers in other threads write the journal and invalidate it.  The poll   *)
(* loop also owns the feeds and the tick, which reads the journal as well and *)
(* is one part of the state; a shutdown must outwait every thread that still  *)
(* reads the database.                                                        *)
EXTENDS Naturals, FiniteSets

CONSTANTS
  Requests,        \* requests for a fresh state; each asks once
  MaxWrites,       \* bound: journal writes
  MaxFailures,     \* bound: builds that fail
  MaxTickFailures  \* bound: tick calculations that fail

ASSUME BoundsAssumption ==
  /\ IsFiniteSet(Requests)
  /\ {MaxWrites, MaxFailures, MaxTickFailures} \subseteq Nat

VARIABLES
  journal,      \* number of committed writes
  writing,      \* writes committed by handlers that have not invalidated yet
  told,         \* history: the newest write whose handler has invalidated
  revision,     \* live_state_snapshot["revision"]
  current,      \* live_state_snapshot["current"]: the journal its builder read, and
                \* the one its tick was calculated from
  error,        \* live_state_snapshot["error"], with the revision of that build
  shown,        \* history: the newest journal ever published
  refresh,      \* refresh_live_state, one call per caller
  failures,
  tick,         \* the tick task
  tickRead,     \* the journal it has read
  ticked,       \* a tick has been published
  newest,       \* live_tick_snapshot["payload"]: the journal it was calculated from
  tickFailures,
  feed,         \* a feed's task
  cooled,       \* the pause after a build is over
  poll,         \* poll_loop
  server        \* the lifespan

snapshotVars == <<revision, current, error, shown>>
writeVars == <<journal, writing, told>>
tickVars == <<tick, tickRead, ticked, newest, tickFailures>>
loopVars == <<tickVars, feed, cooled, poll>>
vars == <<writeVars, snapshotVars, refresh, failures, loopVars, server>>

PollLoop == "poll"
Callers == Requests \union {PollLoop}

ASSUME LoopIsNoRequest == PollLoop \notin Requests

None == 0
Missing == [journal |-> 0, tick |-> 0, available |-> FALSE]

NoCall == [at |-> "idle", expected |-> 0, read |-> 0, tick |-> 0, cancelled |-> FALSE]

Call(expected, given) ==
  [at |-> "waiting", expected |-> expected, read |-> 0, tick |-> given, cancelled |-> FALSE]

Ended == [NoCall EXCEPT !.at = "ended"]

Ticking == tick \in {"running", "read"}

\* A worker thread runs on whatever becomes of the task that awaits it.
Running(c) == refresh[c].at \in {"building", "read"}

\* Mutant: a cancelled task gives the lock back at once.
HoldsUnlessCancelled(c) ==
  refresh[c].at \in {"building", "read", "built", "failed"} /\ ~refresh[c].cancelled

\* live_state_build_lock, kept until the worker has really ended.
Holds(c) == refresh[c].at \in {"building", "read", "built", "failed"}

\* Mutant: there is no lock.
NoLock == TRUE

LockFree == \A c \in Callers : ~Holds(c)

\* Mutant: only the feeds are awaited.
FeedsDrained == feed # "running"

\* What the loop's finally block awaits before it lets the shutdown go on.
Drained ==
  /\ feed # "running"
  /\ ~Ticking
  /\ refresh[PollLoop].at \in {"idle", "ended"}

TypeOK ==
  /\ journal \in 0..MaxWrites /\ writing \subseteq 1..MaxWrites /\ told \in 0..MaxWrites
  /\ revision \in Nat
  /\ current \in [journal : 0..MaxWrites, tick : 0..MaxWrites, available : BOOLEAN]
  /\ error \in [revision : Nat, set : BOOLEAN]
  /\ shown \in 0..MaxWrites
  /\ refresh \in [Callers -> [at : {"idle", "waiting", "building", "read", "built",
                                    "failed", "ended"},
                              expected : Nat, read : 0..MaxWrites, tick : 0..MaxWrites,
                              cancelled : BOOLEAN]]
  /\ failures \in 0..MaxFailures /\ tickFailures \in 0..MaxTickFailures
  /\ tick \in {"none", "running", "read", "done", "failed"} /\ ticked \in BOOLEAN
  /\ tickRead \in 0..MaxWrites /\ newest \in 0..MaxWrites
  /\ feed \in {"idle", "running"}
  /\ cooled \in BOOLEAN
  /\ poll \in [at : {"loop", "broadcasting", "draining", "over"}, raised : BOOLEAN]
  /\ server \in {"up", "stopping", "closed", "unclosed"}

NoError == [revision |-> 0, set |-> FALSE]

Init ==
  /\ journal = 0 /\ writing = {} /\ told = 0
  /\ revision = 0 /\ current = Missing /\ error = NoError /\ shown = 0
  /\ refresh = [c \in Callers |-> NoCall]
  /\ failures = 0 /\ tickFailures = 0
  /\ tick = "none" /\ tickRead = 0 /\ ticked = FALSE /\ newest = 0
  /\ feed = "idle" /\ cooled = TRUE
  /\ poll = [at |-> "loop", raised |-> FALSE]
  /\ server = "up"

-----------------------------------------------------------------------------
(* The handlers that write: they commit in their own thread, and invalidate  *)
(* the state afterwards.                                                     *)

Commit ==
  /\ server = "up" /\ journal < MaxWrites
  /\ journal' = journal + 1
  /\ writing' = writing \union {journal + 1}
  /\ UNCHANGED <<told, snapshotVars, refresh, failures, loopVars, server>>

\* invalidate_live_state.
Invalidated ==
  /\ revision' = revision + 1
  /\ current' = Missing /\ error' = NoError
  /\ UNCHANGED shown

Invalidate(w) ==
  /\ w \in writing
  /\ writing' = writing \ {w}
  /\ told' = IF w > told THEN w ELSE told
  /\ Invalidated
  /\ UNCHANGED <<journal, refresh, failures, loopVars, server>>

\* A handler that fails after its commit (the notes or the replays of a close)
\* leaves without invalidating.
LeaveStale(w) ==
  /\ w \in writing
  /\ writing' = writing \ {w}
  /\ UNCHANGED <<journal, told, snapshotVars, refresh, failures, loopVars, server>>

-----------------------------------------------------------------------------
(* refresh_live_state.                                                       *)

Ask(r) ==
  /\ server = "up" /\ refresh[r].at = "idle"
  /\ refresh' = [refresh EXCEPT ![r] = Call(revision, None)]
  /\ UNCHANGED <<writeVars, snapshotVars, failures, loopVars, server>>

\* A request takes the newest tick once it has the lock, and fails without one; the loop
\* has brought the tick it published last.
Enter(c) ==
  /\ refresh[c].at = "waiting" /\ LockFree
  /\ refresh' = [refresh EXCEPT ![c] =
       IF c = PollLoop THEN [@ EXCEPT !.at = "building"]
       ELSE IF ticked THEN [@ EXCEPT !.at = "building", !.tick = newest]
       ELSE Ended]
  /\ UNCHANGED <<writeVars, snapshotVars, failures, loopVars, server>>

ReadJournal(c) ==
  /\ refresh[c].at = "building"
  /\ refresh' = [refresh EXCEPT ![c].at = "read", ![c].read = journal]
  /\ UNCHANGED <<writeVars, snapshotVars, failures, loopVars, server>>

Encode(c) ==
  /\ refresh[c].at = "read"
  /\ refresh' = [refresh EXCEPT ![c].at = "built"]
  /\ UNCHANGED <<writeVars, snapshotVars, failures, loopVars, server>>

BuildFails(c) ==
  /\ Running(c) /\ failures < MaxFailures
  /\ failures' = failures + 1
  /\ refresh' = [refresh EXCEPT ![c].at = "failed"]
  /\ UNCHANGED <<writeVars, snapshotVars, loopVars, server>>

BuiltBy(c) == [journal |-> refresh[c].read, tick |-> refresh[c].tick, available |-> TRUE]

\* Mutant: a build publishes whatever has happened since it was asked for.
PublishedRegardless(c) ==
  /\ current' = BuiltBy(c)
  /\ error' = NoError
  /\ shown' = IF refresh[c].read > shown THEN refresh[c].read ELSE shown

\* Mutant: the error of an earlier build stays.
PublishedWithError(c) ==
  IF refresh[c].expected = revision
  THEN /\ current' = BuiltBy(c)
       /\ shown' = IF refresh[c].read > shown THEN refresh[c].read ELSE shown
       /\ UNCHANGED error
  ELSE UNCHANGED <<current, error, shown>>

\* publish_live_state: a superseded build publishes nothing.
Published(c) ==
  IF refresh[c].expected = revision
  THEN /\ current' = BuiltBy(c)
       /\ error' = NoError
       /\ shown' = IF refresh[c].read > shown THEN refresh[c].read ELSE shown
  ELSE UNCHANGED <<current, error, shown>>

\* record_live_state_error.
ErrorRecorded(c) ==
  IF refresh[c].expected = revision
  THEN error' = [revision |-> refresh[c].expected, set |-> TRUE]
  ELSE UNCHANGED error

\* A cancelled call waits for its worker, reports its failure, drops its result.
Settle(c) ==
  /\ refresh[c].at \in {"built", "failed"}
  /\ IF refresh[c].at = "failed" THEN ErrorRecorded(c) /\ UNCHANGED <<current, shown>>
     ELSE IF refresh[c].cancelled THEN UNCHANGED <<current, error, shown>>
     ELSE Published(c)
  /\ refresh' = [refresh EXCEPT ![c] = Ended]
  /\ UNCHANGED <<writeVars, revision, failures, loopVars, server>>

Cancel(r) ==
  /\ ~refresh[r].cancelled
  /\ \/ refresh[r].at = "waiting" /\ refresh' = [refresh EXCEPT ![r] = Ended]
     \/ Running(r) /\ refresh' = [refresh EXCEPT ![r].cancelled = TRUE]
  /\ UNCHANGED <<writeVars, snapshotVars, failures, loopVars, server>>

-----------------------------------------------------------------------------
(* poll_loop.                                                                *)

FeedEnds ==
  /\ feed = "running" /\ feed' = "idle"
  /\ UNCHANGED <<writeVars, snapshotVars, refresh, failures, tickVars, cooled, poll, server>>

\* tick_payload reads the trade, its remainder and its stop at its beginning.
TickReads ==
  /\ tick = "running"
  /\ tick' = "read" /\ tickRead' = journal
  /\ UNCHANGED <<writeVars, snapshotVars, refresh, failures, ticked, newest, tickFailures,
                 feed, cooled, poll, server>>

TickEnds ==
  /\ \/ tick = "read" /\ tick' = "done" /\ UNCHANGED <<tickRead, tickFailures>>
     \/ /\ Ticking /\ tickFailures < MaxTickFailures /\ tickFailures' = tickFailures + 1
        /\ tick' = "failed" /\ tickRead' = None
  /\ UNCHANGED <<writeVars, snapshotVars, refresh, failures, ticked, newest, feed,
                 cooled, poll, server>>

\* time.monotonic() - state_last_finished >= state_refresh_period.
Cool ==
  /\ ~cooled /\ cooled' = TRUE
  /\ UNCHANGED <<writeVars, snapshotVars, refresh, failures, tickVars, feed, poll, server>>

\* Finished tasks are reaped, an error of a feed or of a build with them; a feed
\* that is not running is started; a tick that is done is published, or raised.
Pass ==
  /\ poll.at = "loop" /\ server = "up"
  /\ feed' = "running"
  /\ IF refresh[PollLoop].at = "ended"
     THEN refresh' = [refresh EXCEPT ![PollLoop] = NoCall] /\ cooled' = FALSE
     ELSE UNCHANGED <<refresh, cooled>>
  /\ \/ /\ tick = "failed"
        /\ poll' = [at |-> "draining", raised |-> TRUE]
        /\ UNCHANGED <<tick, tickRead, ticked, newest>>
     \/ /\ tick = "done" /\ tick' = "none" /\ tickRead' = None
        /\ ticked' = TRUE /\ newest' = tickRead
        /\ poll' = [poll EXCEPT !.at = "broadcasting"]
     \/ /\ tick = "none" \/ Ticking
        /\ tick' = IF tick = "none" THEN "running" ELSE tick
        /\ UNCHANGED <<poll, tickRead, ticked, newest>>
  /\ UNCHANGED <<writeVars, snapshotVars, failures, tickFailures, server>>

\* The revision is read after the broadcast, when the build is asked for; the tick that
\* goes into the build is the one that was broadcast.
AfterBroadcast ==
  /\ poll.at = "broadcasting" /\ server = "up"
  /\ IF refresh[PollLoop].at = "idle" /\ cooled
     THEN refresh' = [refresh EXCEPT ![PollLoop] = Call(revision, newest)]
     ELSE UNCHANGED refresh
  /\ tick' = "running"
  /\ poll' = [poll EXCEPT !.at = "loop"]
  /\ UNCHANGED <<writeVars, snapshotVars, failures, tickRead, ticked, newest, tickFailures,
                 feed, cooled, server>>

\* The tasks are awaited and not cancelled, however often the loop is cancelled.
Drain ==
  /\ poll.at = "draining" /\ Drained
  /\ poll' = [poll EXCEPT !.at = "over"]
  /\ UNCHANGED <<writeVars, snapshotVars, refresh, failures, tickVars, feed, cooled, server>>

-----------------------------------------------------------------------------
(* The lifespan.  The server lets its requests end before it stops.          *)

Shutdown ==
  /\ server = "up" /\ writing = {}
  /\ \A r \in Requests : refresh[r].at \in {"idle", "ended"}
  /\ server' = "stopping"
  /\ poll' = IF poll.at = "over" THEN poll ELSE [poll EXCEPT !.at = "draining"]
  /\ UNCHANGED <<writeVars, snapshotVars, refresh, failures, tickVars, feed, cooled>>

\* An exception of the loop is raised again where the shutdown awaits it, and
\* engine.close() is not reached.
Close ==
  /\ server = "stopping" /\ poll.at = "over"
  /\ server' = IF poll.raised THEN "unclosed" ELSE "closed"
  /\ UNCHANGED <<writeVars, snapshotVars, refresh, failures, loopVars>>

Over == server \in {"closed", "unclosed"} /\ UNCHANGED vars

-----------------------------------------------------------------------------
Answer == \E w \in writing : Invalidate(w) \/ LeaveStale(w)

Refresh(c) == Enter(c) \/ ReadJournal(c) \/ Encode(c) \/ BuildFails(c) \/ Settle(c)

Loop == Pass \/ AfterBroadcast \/ Drain

Next == \/ Commit \/ Answer
        \/ \E r \in Requests : Ask(r) \/ Cancel(r)
        \/ \E c \in Callers : Refresh(c)
        \/ Loop \/ FeedEnds \/ TickReads \/ TickEnds \/ Cool
        \/ Shutdown \/ Close \/ Over

Spec == Init /\ [][Next]_vars

\* Threads end, handlers finish, time passes and the event loop runs what is
\* ready.  Nothing is assumed of the requests, of the writes or of a shutdown.
Fairness ==
  /\ WF_vars(Answer)
  /\ \A c \in Callers : WF_vars(Refresh(c))
  /\ WF_vars(Loop) /\ WF_vars(FeedEnds) /\ WF_vars(TickReads \/ TickEnds) /\ WF_vars(Cool)
  /\ WF_vars(Close)

FairSpec == Spec /\ Fairness

-----------------------------------------------------------------------------
(* Properties.                                                               *)

\* The rows that are served (the journal, its track, the reviews and the setups) have been
\* read after every write whose handler has answered: a build that was under way when the
\* write came publishes nothing.
RowsSeeWrites == current.available => current.journal >= told

\* app.js asks for a fresh state after a mutation because "mutations need a generation built
\* after the write".  Known not to hold of the whole generation: the tick in it, with the
\* trade, its remainder and its stop, may have been calculated before.
PageSeesWrites == current.available => current.journal >= told /\ current.tick >= told

\* Two workers never build at the same time, although a cancelled request
\* cannot stop the thread it started.
SingleFlight == Cardinality({c \in Callers : Running(c)}) <= 1

\* The error that makes readers fail is that of a build of this revision.
ErrorIsOfThisRevision == error.set => error.revision = revision

\* The engine is closed when no thread of the loop reads the database any more.
ClosesAfterItsReaders ==
  server = "closed" => /\ ~Ticking /\ feed # "running"
                       /\ \A c \in Callers : ~Running(c)

\* No reader of the page sees its rows go back: a build that read them earlier is not
\* published after one that read them later.  (Its tick may: the page compares their times.)
GenerationsAdvance ==
  [][current'.available /\ current' # current => current'.journal >= shown]_vars

\* While the loop lives, the state comes back and catches up: after every write, a failed
\* build and a cancelled request there is again a generation to serve, and once the writes
\* are done one whose rows and whose tick have both seen them.
StateReturns ==
  <>[](poll.at \in {"loop", "broadcasting"})
    => []<>(current.available /\ ~error.set /\ current.journal >= told /\ current.tick >= told)

\* Known not to hold: a tick calculation that fails ends the loop, and with it the feeds.
FeedsAreScheduled == []<>(feed = "running" \/ server # "up")
=============================================================================
