----------------------------- MODULE ReviewJobs -----------------------------
(***************************************************************************)
(* A review of the position runs as one background job; the client polls   *)
(* for its result, and a result is validated again before it is delivered. *)
(*                                                                         *)
(* Sources: seiltanzer/ai_review_jobs.py, seiltanzer/ai_review_worker.py   *)
(* and the verdict handler of seiltanzer/app.py.                           *)
(*                                                                         *)
(* The job and the polls are tasks of one event loop: an action is what    *)
(* such a task does between two awaits.  The stages of a review and the    *)
(* validations run on one worker thread behind an admission lock, while    *)
(* other threads change the position and the market.                       *)
(***************************************************************************)
EXTENDS Integers, FiniteSets

CONSTANTS
  Polls,        \* concurrent GET requests
  Review,       \* the task of the job, as the owner of a call on the worker
  Worlds,       \* situations of the position, its executions and the market
  MaxJobs       \* bound: jobs started

ASSUME ReviewIsNoPoll == Review \notin Polls
ASSUME SomeWorld == Worlds # {}
ASSUME JobsAreCounted == MaxJobs \in Nat

VARIABLES
  world,        \* what engine, journal and ledger say now
  issued,       \* jobs started so far, whose numbers stand for their opaque ids
  job,          \* the one job that is kept
  slot,         \* the admission lock of the worker is held
  calls,        \* functions submitted to the worker that have not completed
  polls,        \* poll -> where it is
  reply,        \* the answer a poll is given in this step
  told          \* job number -> what its polls were told, ever: a verdict, or an end

vars == <<world, issued, job, slot, calls, polls, reply, told>>

-----------------------------------------------------------------------------
Jobs == 1..MaxJobs

Outcomes == {"none", "ok", "refused", "passed", "stale", "failed"}

\* stale is either body of a 409, replaced 404, expired 410, unavailable 503, and refused
\* any answer of the review that is no success.
Answers == {"none", "pending", "replaced", "expired", "stale", "refused", "unavailable",
            "success"}

\* The answers after which a client must not act on the review.
Final == {"replaced", "expired", "stale"}

Job == [id : 0..MaxJobs, task : {"none", "scheduled", "provider", "publication", "done"},
        outcome : {"none", "ok", "refused"}, captured : Worlds,
        response : {"none", "success", "refused"}, invalid : BOOLEAN, expired : BOOLEAN]

Call == [owner : Polls \cup {Review}, awaited : BOOLEAN, captured : Worlds,
         outcome : Outcomes]

Poll == [pc : {"idle", "validating"}, job : 0..MaxJobs, outcome : Outcomes,
         seen : SUBSET Worlds]

Reply == [job : 0..MaxJobs, answer : Answers, seen : SUBSET Worlds]

AnyWorld == CHOOSE w \in Worlds : TRUE

NewJob(n, task) == [id |-> n, task |-> task, outcome |-> "none", captured |-> AnyWorld,
                    response |-> "none", invalid |-> FALSE, expired |-> FALSE]

Idle == [pc |-> "idle", job |-> 0, outcome |-> "none", seen |-> {}]

NoReply == [job |-> 0, answer |-> "none", seen |-> {}]

-----------------------------------------------------------------------------
(* The worker: ReviewExecutor.                                             *)

\* submit: one call is admitted; a second one is refused with AIReviewWorkerBusy.
Admit(owner, captured) ==
  /\ ~slot
  /\ slot' = TRUE
  /\ calls' = calls \cup {[owner |-> owner, awaited |-> TRUE, captured |-> captured,
                           outcome |-> "none"]}

\* _assert_unified_review_current, on behalf of a poll: the frozen position and market
\* against the live ones; the database may also fail.
GuardOutcomes(captured) ==
  {"failed", IF world = captured THEN "passed" ELSE "stale"}

\* A stage may always fail; the publication refuses a late or outdated review.
StageOutcomes ==
  IF job.task = "publication" /\ (job.expired \/ world # job.captured)
  THEN {"refused"} ELSE {"ok", "refused"}

\* The worker thread runs the function of a call.
WorkerRuns(c) ==
  /\ c.outcome = "none"
  /\ \E o \in IF c.owner = Review THEN StageOutcomes ELSE GuardOutcomes(c.captured) :
       calls' = (calls \ {c}) \cup {[c EXCEPT !.outcome = o]}
  /\ reply' = NoReply
  /\ UNCHANGED <<world, issued, job, slot, polls, told>>

\* The future completes: its callback releases the lock, whether or not anybody still
\* waits, and who waits will be woken with the outcome.
WorkerCompletes(c) ==
  /\ c.outcome # "none"
  /\ calls' = calls \ {c}
  /\ slot' = FALSE
  /\ job' = IF c.awaited /\ c.owner = Review THEN [job EXCEPT !.outcome = c.outcome] ELSE job
  /\ polls' = IF c.awaited /\ c.owner # Review
              THEN [polls EXCEPT ![c.owner].outcome = c.outcome] ELSE polls
  /\ reply' = NoReply
  /\ UNCHANGED <<world, issued, told>>

-----------------------------------------------------------------------------
(* The job: ReviewJobs.start and the review it runs.                       *)

\* A POST starts a job unless one is running; then it is answered with that one.
Start ==
  /\ job.task \in {"none", "done"}
  /\ issued < MaxJobs
  /\ issued' = issued + 1
  /\ job' = NewJob(issued + 1, "scheduled")
  /\ reply' = NoReply
  /\ UNCHANGED <<world, slot, calls, polls, told>>

Finish(response) == job' = [job EXCEPT !.task = "done", !.response = response]

\* The review up to its first stage on the worker.  It may be refused for what the
\* snapshot or the ledger says or for the rate limit, and is when the worker is busy;
\* otherwise it freezes the situation it reviews.
ReviewBegins ==
  /\ job.task = "scheduled"
  /\ \/ Finish("refused") /\ UNCHANGED <<slot, calls>>
     \/ /\ Admit(Review, world)
        /\ job' = [job EXCEPT !.task = "provider", !.captured = world]
  /\ reply' = NoReply
  /\ UNCHANGED <<world, issued, polls, told>>

\* The stages before the publication, which may find the worker busy...
ProviderStageReturns ==
  /\ job.task = "provider" /\ job.outcome # "none"
  /\ IF job.outcome = "refused" \/ slot
     THEN Finish("refused") /\ UNCHANGED <<slot, calls>>
     ELSE /\ Admit(Review, job.captured)
          /\ job' = [job EXCEPT !.task = "publication", !.outcome = "none"]
  /\ reply' = NoReply
  /\ UNCHANGED <<world, issued, polls, told>>

\* ...and the publication, after which the review binds its delivery guard.
PublicationReturns ==
  /\ job.task = "publication" /\ job.outcome # "none"
  /\ Finish(IF job.outcome = "ok" THEN "success" ELSE "refused")
  /\ reply' = NoReply
  /\ UNCHANGED <<world, issued, slot, calls, polls, told>>

-----------------------------------------------------------------------------
(* The polls: ReviewJobs.poll.                                             *)

\* Mutant: a success that was delivered once is delivered again.
CachedVerdict(n) ==
  CASE n # job.id -> "replaced"
    [] job.expired -> "expired"
    [] job.task # "done" -> "pending"
    [] job.invalid -> "stale"
    [] "verdict" \in told[n] -> "success"
    [] OTHER -> IF job.response = "success" THEN "none" ELSE "refused"

\* What the terminal checks answer a poll of job n; none when a success waits for its
\* validation.
Verdict(n) ==
  CASE n # job.id -> "replaced"
    [] job.expired -> "expired"
    [] job.task # "done" -> "pending"
    [] job.invalid -> "stale"
    [] OTHER -> IF job.response = "success" THEN "none" ELSE "refused"

\* A poll of job n that knows the situations seen is answered.
Answer(n, answer, seen) ==
  /\ reply' = [job |-> n, answer |-> answer, seen |-> seen]
  /\ told' = [told EXCEPT ![n] = @ \cup
                (CASE answer = "success" -> {"verdict"}
                   [] answer \in Final -> {"end"}
                   [] OTHER -> {})]

\* A GET is answered at once, or waits for the worker to validate the success.
PollAsks(p, n) ==
  /\ polls[p].pc = "idle"
  /\ n <= issued
  /\ IF Verdict(n) # "none" \/ slot
     THEN /\ Answer(n, IF Verdict(n) = "none" THEN "pending" ELSE Verdict(n), {world})
          /\ UNCHANGED <<slot, calls, polls>>
     ELSE /\ Admit(p, job.captured)
          /\ polls' = [polls EXCEPT ![p] = [pc |-> "validating", job |-> n, outcome |-> "none",
                                            seen |-> {world}]]
          /\ reply' = NoReply
          /\ UNCHANGED told
  /\ UNCHANGED <<world, issued, job>>

\* Mutant: who leaves gives up whatever the worker runs.
AbandonedAll(p) == {[c EXCEPT !.awaited = FALSE] : c \in calls}

\* Nobody waits for the call of poll p any more; the worker goes on.
Abandoned(p) == {IF c.owner = p THEN [c EXCEPT !.awaited = FALSE] ELSE c : c \in calls}

\* Poll p is over.
Leaves(p) == polls' = [polls EXCEPT ![p] = Idle]

\* Mutant: giving up the wait releases the lock.
TimesOutAndReleases(p) ==
  /\ polls[p].pc = "validating" /\ polls[p].outcome = "none"
  /\ Leaves(p) /\ Answer(polls[p].job, "pending", polls[p].seen)
  /\ calls' = Abandoned(p)
  /\ slot' = FALSE
  /\ UNCHANGED <<world, issued, job>>

\* Three seconds pass: the client is told to ask again.
PollTimesOut(p) ==
  /\ polls[p].pc = "validating" /\ polls[p].outcome = "none"
  /\ Leaves(p) /\ Answer(polls[p].job, "pending", polls[p].seen)
  /\ calls' = Abandoned(p)
  /\ UNCHANGED <<world, issued, job, slot>>

\* The client disconnects, which cancels the poll and not the call.
PollDisconnects(p) ==
  /\ polls[p].pc = "validating"
  /\ Leaves(p) /\ reply' = NoReply
  /\ calls' = Abandoned(p)
  /\ UNCHANGED <<world, issued, job, slot, told>>

\* Mutant: of the checks made before the wait only the first is repeated.
SameJob(n) == n = job.id

\* The terminal states a job may have reached while its success was validated.
StillDeliverable(n) == n = job.id /\ ~job.invalid /\ ~job.expired

\* The validation came back.
PollResumes(p) ==
  LET n == polls[p].job
      outcome == polls[p].outcome
      seen == polls[p].seen
  IN
  /\ polls[p].pc = "validating"
  /\ \/ /\ outcome = "passed"
        /\ Answer(n, IF StillDeliverable(n) THEN "success" ELSE Verdict(n), seen)
        /\ UNCHANGED job
     \/ /\ outcome = "stale" /\ n = job.id
        /\ Answer(n, "stale", seen)
        /\ job' = [job EXCEPT !.invalid = TRUE]
     \/ /\ outcome = "stale" /\ n # job.id
        /\ Answer(n, "replaced", seen)
        /\ UNCHANGED job
     \/ outcome = "failed" /\ Answer(n, "unavailable", seen) /\ UNCHANGED job
  /\ Leaves(p)
  /\ UNCHANGED <<world, issued, slot, calls>>

-----------------------------------------------------------------------------
(* The rest of the program.                                                *)

\* A handler or the market moves the position or the price, perhaps back again.
WorldChanges(w) ==
  /\ w # world
  /\ world' = w
  /\ polls' = [p \in Polls |-> IF polls[p].pc = "validating"
                               THEN [polls[p] EXCEPT !.seen = @ \cup {w}] ELSE polls[p]]
  /\ reply' = NoReply
  /\ UNCHANGED <<issued, job, slot, calls, told>>

\* MAX_JOB_AGE_SEC pass.
Expire ==
  /\ job.id # 0 /\ ~job.expired
  /\ job' = [job EXCEPT !.expired = TRUE]
  /\ reply' = NoReply
  /\ UNCHANGED <<world, issued, slot, calls, polls, told>>

\* The process restarts: jobs live in memory only.
Restart ==
  /\ job.id # 0
  /\ job' = NewJob(0, "none")
  /\ slot' = FALSE
  /\ calls' = {}
  /\ polls' = [p \in Polls |-> Idle]
  /\ reply' = NoReply
  /\ UNCHANGED <<world, issued, told>>

-----------------------------------------------------------------------------
Init ==
  /\ world \in Worlds
  /\ issued = 0
  /\ job = NewJob(0, "none")
  /\ slot = FALSE
  /\ calls = {}
  /\ polls = [p \in Polls |-> Idle]
  /\ reply = NoReply
  /\ told = [n \in Jobs |-> {}]

JobStep == Start \/ ReviewBegins \/ ProviderStageReturns \/ PublicationReturns

WorkerStep == \E c \in calls : WorkerRuns(c) \/ WorkerCompletes(c)

PollStep(p) ==
  \/ \E n \in Jobs : PollAsks(p, n)
  \/ PollTimesOut(p) \/ PollDisconnects(p) \/ PollResumes(p)

Next ==
  \/ JobStep \/ WorkerStep \/ Expire \/ Restart
  \/ \E p \in Polls : PollStep(p)
  \/ \E w \in Worlds : WorldChanges(w)

Spec == Init /\ [][Next]_vars

\* The event loop resumes what is ready, the worker thread ends what it was given (the
\* provider call and every lock it takes are bounded by timeouts), and clocks advance.
FairSpec ==
  /\ Spec
  /\ WF_vars(ReviewBegins \/ ProviderStageReturns \/ PublicationReturns)
  /\ WF_vars(WorkerStep)
  /\ WF_vars(Expire)
  /\ \A p \in Polls : WF_vars(PollTimesOut(p) \/ PollResumes(p))

-----------------------------------------------------------------------------
(* Properties.                                                             *)

\* The job, the calls, the polls and the answers are of their shape.
TypeOK ==
  /\ world \in Worlds
  /\ issued \in 0..MaxJobs
  /\ job \in Job
  /\ slot \in BOOLEAN
  /\ calls \subseteq Call
  /\ polls \in [Polls -> Poll]
  /\ reply \in Reply
  /\ told \in [Jobs -> SUBSET {"verdict", "end"}]

\* The admission lock is held exactly while one function is on the worker, whatever
\* becomes of the request that submitted it: a timeout or a disconnection neither lets a
\* second function in nor leaves the lock behind (ReviewExecutor).
SlotIsHeldByItsCall ==
  /\ slot <=> calls # {}
  /\ \A c, d \in calls : c = d

\* Once any poll was told that a review is outdated, expired or gone, no poll is given
\* its verdict: not one that was being validated at the time, and not when the market
\* has come back (poll re-enters its terminal checks after every await).
NeverResurrected ==
  reply.answer = "success" => "end" \notin told[reply.job]

\* A poll that is given a verdict asked at a time, or waited through one, at which the
\* verdict was current: an earlier validation is never used again.
DeliveredWasCurrent ==
  reply.answer = "success" => reply.job = job.id /\ job.captured \in reply.seen

\* Every job comes to an end.
JobEnds == job.task \in {"scheduled", "provider", "publication"} ~> job.task \in {"none", "done"}
=============================================================================
