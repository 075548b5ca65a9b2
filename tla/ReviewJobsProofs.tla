-------------------------- MODULE ReviewJobsProofs --------------------------
(***************************************************************************)
(* The safety properties of ReviewJobs for any number of polls, jobs and   *)
(* situations.                                                             *)
(***************************************************************************)
EXTENDS ReviewJobs, TLAPS

\* A step of a poll with the job it asks for, and one of the worker with its call.
PollMoves(p) ==
  \/ \E n \in Jobs : PollAsks(p, n)
  \/ PollTimesOut(p) \/ PollDisconnects(p) \/ PollResumes(p)

WorkerMoves(c) == WorkerRuns(c) \/ WorkerCompletes(c)

\* What comes back from a stage of the review is no outcome of a validation.
StagesReturn ==
  \A c \in calls : c.owner = Review => c.outcome \in {"none", "ok", "refused"}

-----------------------------------------------------------------------------
(* Types.                                                                  *)

\* An answer is recorded in the shape of replies and memories.
LEMMA AnswerType ==
  ASSUME TypeOK, NEW n \in 0..MaxJobs, NEW a \in Answers, NEW s \in SUBSET Worlds,
         Answer(n, a, s)
  PROVE  /\ reply' \in Reply
         /\ told' \in [Jobs -> SUBSET {"verdict", "end"}]
BY DEF TypeOK, Answer, Reply, Final

LEMMA NoReplyType == NoReply \in Reply
BY JobsAreCounted DEF NoReply, Reply, Answers

LEMMA AdmitType ==
  ASSUME TypeOK, NEW o \in Polls \cup {Review}, NEW w \in Worlds, Admit(o, w)
  PROVE  slot' \in BOOLEAN /\ calls' \subseteq Call
<1> DEFINE c == [owner |-> o, awaited |-> TRUE, captured |-> w, outcome |-> "none"]
<1>1. c \in Call
  BY DEF Call, Outcomes
<1> QED BY <1>1 DEF TypeOK, Admit

LEMMA FinishType ==
  ASSUME TypeOK, NEW r \in {"success", "refused"}, Finish(r)
  PROVE  job' \in Job
BY DEF TypeOK, Finish, Job

LEMMA NewJobType ==
  ASSUME NEW n \in 0..MaxJobs, NEW t \in {"none", "scheduled"}
  PROVE  NewJob(n, t) \in Job
BY SomeWorld DEF NewJob, Job, AnyWorld

LEMMA NoJobType == NewJob(0, "none") \in Job
BY NewJobType, JobsAreCounted

LEMMA IdleType == Idle \in Poll
BY JobsAreCounted DEF Idle, Poll, Outcomes

LEMMA VerdictType ==
  ASSUME NEW n \in Nat PROVE Verdict(n) \in Answers /\ Verdict(n) # "success"
BY DEF Verdict, Answers

LEMMA JobType ==
  ASSUME TypeOK, JobStep PROVE TypeOK'
<1> USE NoReplyType DEF TypeOK
<1>1. CASE Start
  <2>1. issued' \in 0..MaxJobs
    BY <1>1, JobsAreCounted DEF Start
  <2>2. job' \in Job
    BY <1>1, <2>1, NewJobType DEF Start
  <2> QED BY <1>1, <2>1, <2>2 DEF Start
<1>2. CASE ReviewBegins
  <2>1. job' \in Job
    BY <1>2, FinishType DEF ReviewBegins, Job
  <2>2. slot' \in BOOLEAN /\ calls' \subseteq Call
    BY <1>2, AdmitType DEF ReviewBegins
  <2> QED BY <1>2, <2>1, <2>2 DEF ReviewBegins
<1>3. CASE ProviderStageReturns
  <2>1. job' \in Job
    BY <1>3, FinishType DEF ProviderStageReturns, Job
  <2>2. job.captured \in Worlds
    BY DEF Job
  <2>3. slot' \in BOOLEAN /\ calls' \subseteq Call
    BY <1>3, <2>2, AdmitType DEF ProviderStageReturns
  <2> QED BY <1>3, <2>1, <2>3 DEF ProviderStageReturns
<1>4. CASE PublicationReturns
  BY <1>4, FinishType DEF PublicationReturns
<1> QED BY <1>1, <1>2, <1>3, <1>4 DEF JobStep

LEMMA WorkerType ==
  ASSUME TypeOK, StagesReturn, NEW c \in calls, WorkerMoves(c) PROVE TypeOK'
<1> USE NoReplyType DEF TypeOK
<1>0. c \in Call
  OBVIOUS
<1>1. CASE WorkerRuns(c)
  <2>1. PICK o \in {"failed", "passed", "stale", "ok", "refused"} :
          calls' = (calls \ {c}) \cup {[c EXCEPT !.outcome = o]}
    BY <1>1 DEF WorkerRuns, StageOutcomes, GuardOutcomes
  <2>2. [c EXCEPT !.outcome = o] \in Call
    BY <1>0 DEF Call, Outcomes
  <2>3. calls' \subseteq Call
    BY <2>1, <2>2
  <2> QED BY <1>1, <2>3 DEF WorkerRuns
<1>2. CASE WorkerCompletes(c)
  <2>1. c.outcome \in Outcomes /\ (c.owner = Review => c.outcome \in {"none", "ok", "refused"})
    BY <1>0 DEF Call, StagesReturn
  <2>2. job' \in Job
    BY <1>2, <2>1 DEF WorkerCompletes, Job
  <2>3. polls' \in [Polls -> Poll]
    <3>1. CASE c.awaited /\ c.owner # Review
      <4>1. c.owner \in Polls /\ polls[c.owner] \in Poll
        BY <1>0, <3>1 DEF Call
      <4>2. [polls[c.owner] EXCEPT !.outcome = c.outcome] \in Poll
        BY <2>1, <4>1 DEF Poll
      <4> QED BY <1>2, <3>1, <4>1, <4>2 DEF WorkerCompletes
    <3>2. CASE ~(c.awaited /\ c.owner # Review)
      BY <1>2, <3>2 DEF WorkerCompletes
    <3> QED BY <3>1, <3>2
  <2> QED BY <1>2, <2>2, <2>3 DEF WorkerCompletes
<1> QED BY <1>1, <1>2 DEF WorkerMoves

LEMMA AbandonedType ==
  ASSUME TypeOK, NEW p \in Polls PROVE Abandoned(p) \subseteq Call
<1>1. ASSUME NEW c \in calls PROVE c \in Call /\ [c EXCEPT !.awaited = FALSE] \in Call
  <2>1. c \in Call
    BY DEF TypeOK
  <2> QED BY <2>1 DEF Call
<1> QED BY <1>1 DEF Abandoned

LEMMA LeavesType ==
  ASSUME TypeOK, NEW p \in Polls, Leaves(p) PROVE polls' \in [Polls -> Poll]
BY IdleType DEF TypeOK, Leaves

LEMMA PollType ==
  ASSUME TypeOK, NEW p \in Polls, PollMoves(p) PROVE TypeOK'
<1> USE NoReplyType DEF TypeOK
<1>0. polls[p].job \in 0..MaxJobs /\ polls[p].seen \in SUBSET Worlds
  BY DEF Poll
<1>1. ASSUME NEW n \in Jobs, PollAsks(p, n) PROVE TypeOK'
  <2>0. n \in 0..MaxJobs /\ n \in Nat
    BY JobsAreCounted DEF Jobs
  <2>1. CASE Verdict(n) # "none" \/ slot
    <3> DEFINE a == IF Verdict(n) = "none" THEN "pending" ELSE Verdict(n)
    <3>1. a \in Answers
      BY <2>0, VerdictType DEF Answers
    <3>2. Answer(n, a, {world})
      BY <1>1, <2>1 DEF PollAsks
    <3> HIDE DEF a
    <3>3. /\ reply' \in Reply
          /\ told' \in [Jobs -> SUBSET {"verdict", "end"}]
      BY <2>0, <3>1, <3>2, AnswerType
    <3> QED BY <1>1, <2>1, <3>3 DEF PollAsks
  <2>2. CASE ~(Verdict(n) # "none" \/ slot)
    <3> DEFINE q == [pc |-> "validating", job |-> n, outcome |-> "none", seen |-> {world}]
    <3>1. q \in Poll
      BY <2>0 DEF Poll, Outcomes
    <3>2. job.captured \in Worlds
      BY DEF Job
    <3>3. slot' \in BOOLEAN /\ calls' \subseteq Call
      BY <1>1, <2>2, <3>2, AdmitType DEF PollAsks
    <3> QED BY <1>1, <2>2, <3>1, <3>3 DEF PollAsks
  <2> QED BY <2>1, <2>2
<1>2. CASE PollTimesOut(p)
  <2>1. "pending" \in Answers
    BY DEF Answers
  <2>2. /\ reply' \in Reply
        /\ told' \in [Jobs -> SUBSET {"verdict", "end"}]
    BY <1>0, <1>2, <2>1, AnswerType DEF PollTimesOut
  <2> QED BY <1>2, <2>2, AbandonedType, LeavesType DEF PollTimesOut
<1>3. CASE PollDisconnects(p)
  BY <1>3, AbandonedType, LeavesType DEF PollDisconnects
<1>4. CASE PollResumes(p)
  <2>1. PICK a \in Answers : Answer(polls[p].job, a, polls[p].seen)
    <3>1. /\ {"success", "stale", "replaced", "unavailable"} \subseteq Answers
          /\ Verdict(polls[p].job) \in Answers
      BY <1>0, VerdictType, JobsAreCounted DEF Answers
    <3> QED BY <1>4, <3>1 DEF PollResumes
  <2>2. /\ reply' \in Reply
        /\ told' \in [Jobs -> SUBSET {"verdict", "end"}]
    BY <1>0, <2>1, AnswerType
  <2>3. job' \in Job
    BY <1>4 DEF PollResumes, Job
  <2> QED BY <1>4, <2>2, <2>3, LeavesType DEF PollResumes
<1> QED BY <1>1, <1>2, <1>3, <1>4 DEF PollMoves

LEMMA RestType ==
  ASSUME TypeOK, Expire \/ Restart \/ \E w \in Worlds : WorldChanges(w) PROVE TypeOK'
<1> USE NoReplyType DEF TypeOK
<1>1. CASE Expire
  BY <1>1 DEF Expire, Job
<1>2. CASE Restart
  BY <1>2, NoJobType, IdleType DEF Restart
<1>3. ASSUME NEW w \in Worlds, WorldChanges(w) PROVE TypeOK'
  <2>1. ASSUME NEW p \in Polls
        PROVE  [polls[p] EXCEPT !.seen = @ \cup {w}] \in Poll /\ polls[p] \in Poll
    BY DEF Poll
  <2>2. polls' \in [Polls -> Poll]
    BY <1>3, <2>1 DEF WorldChanges
  <2> QED BY <1>3, <2>2 DEF WorldChanges
<1> QED BY <1>1, <1>2, <1>3

LEMMA StepKinds ==
  ASSUME Next
  PROVE  \/ JobStep
         \/ \E c \in calls : WorkerMoves(c)
         \/ \E p \in Polls : PollMoves(p)
         \/ Expire \/ Restart \/ \E w \in Worlds : WorldChanges(w)
BY DEF Next, WorkerStep, WorkerMoves, PollStep, PollMoves

-----------------------------------------------------------------------------
(* The worker.                                                             *)

\* A call is changed, ends, or is added: what a step does to the calls.
LEMMA CallSteps ==
  ASSUME TypeOK, [Next]_vars
  PROVE  \/ calls' = calls /\ slot' = slot
         \/ calls' = {} /\ slot' = FALSE
         \/ \E c \in calls : WorkerMoves(c)
         \/ \E p \in Polls : calls' = Abandoned(p) /\ slot' = slot
         \/ \E o \in Polls \cup {Review}, w \in Worlds : Admit(o, w)
<1>0. job.captured \in Worlds /\ world \in Worlds
  BY DEF TypeOK, Job
<1>1. CASE JobStep
  BY <1>0, <1>1 DEF JobStep, Start, ReviewBegins, ProviderStageReturns, PublicationReturns
<1>2. ASSUME NEW p \in Polls, PollMoves(p)
      PROVE  \/ calls' = calls /\ slot' = slot
             \/ calls' = Abandoned(p) /\ slot' = slot
             \/ Admit(p, job.captured)
  BY <1>2 DEF PollMoves, PollAsks, PollTimesOut, PollDisconnects, PollResumes
<1>3. CASE Expire \/ Restart \/ \E w \in Worlds : WorldChanges(w)
  BY <1>3 DEF Expire, Restart, WorldChanges
<1>4. CASE UNCHANGED vars
  BY <1>4 DEF vars
<1> QED BY <1>0, <1>1, <1>2, <1>3, <1>4, StepKinds

LEMMA StagesReturnStep ==
  ASSUME TypeOK, StagesReturn, [Next]_vars PROVE StagesReturn'
<1> USE DEF StagesReturn
<1>1. ASSUME NEW c \in calls, WorkerMoves(c) PROVE StagesReturn'
  <2>0. c \in Call
    BY DEF TypeOK
  <2>1. CASE WorkerCompletes(c)
    BY <2>1 DEF WorkerCompletes
  <2>2. CASE WorkerRuns(c)
    <3>1. PICK o : /\ calls' = (calls \ {c}) \cup {[c EXCEPT !.outcome = o]}
                   /\ c.owner = Review => o \in {"ok", "refused"}
      BY <2>2 DEF WorkerRuns, StageOutcomes
    <3> QED BY <2>0, <3>1 DEF Call
  <2> QED BY <1>1, <2>1, <2>2 DEF WorkerMoves
<1>2. ASSUME NEW p \in Polls, calls' = Abandoned(p) PROVE StagesReturn'
  BY <1>2 DEF Abandoned, TypeOK, Call
<1>3. ASSUME NEW o, NEW w, Admit(o, w) PROVE StagesReturn'
  BY <1>3 DEF Admit
<1> QED BY <1>1, <1>2, <1>3, CallSteps

\* However requests come, give up and are repeated, every variable keeps its shape.
THEOREM ReviewTypeCorrect == Spec => []TypeOK
<1>1. Init => TypeOK /\ StagesReturn
  <2> SUFFICES ASSUME Init PROVE TypeOK /\ StagesReturn
    OBVIOUS
  <2>1. world \in Worlds /\ issued \in 0..MaxJobs /\ job \in Job /\ reply \in Reply
    BY JobsAreCounted, NoJobType, NoReplyType DEF Init
  <2>2. polls \in [Polls -> Poll]
    BY IdleType DEF Init
  <2>3. told \in [Jobs -> SUBSET {"verdict", "end"}]
    BY DEF Init
  <2>4. slot \in BOOLEAN /\ calls \subseteq Call /\ StagesReturn
    BY DEF Init, StagesReturn
  <2> QED BY <2>1, <2>2, <2>3, <2>4 DEF TypeOK
<1>2. TypeOK /\ StagesReturn /\ [Next]_vars => (TypeOK /\ StagesReturn)'
  <2> SUFFICES ASSUME TypeOK, StagesReturn, [Next]_vars PROVE (TypeOK /\ StagesReturn)'
    OBVIOUS
  <2>1. TypeOK'
    <3>1. CASE Next
      BY <3>1, StepKinds, JobType, WorkerType, PollType, RestType
    <3>2. CASE UNCHANGED vars
      BY <3>2 DEF vars, TypeOK
    <3> QED BY <3>1, <3>2
  <2> QED BY <2>1, StagesReturnStep
<1> QED BY <1>1, <1>2, PTL DEF Spec

\* One function at a time is on the worker, for as long as the lock is held, although the
\* requests that submitted it come and go (ReviewExecutor.submit and its done callback).
THEOREM SlotFollowsCall == Spec => []SlotIsHeldByItsCall
<1>1. Init => SlotIsHeldByItsCall
  BY DEF Init, SlotIsHeldByItsCall
<1>2. TypeOK /\ SlotIsHeldByItsCall /\ [Next]_vars => SlotIsHeldByItsCall'
  <2> SUFFICES ASSUME TypeOK, SlotIsHeldByItsCall, [Next]_vars PROVE SlotIsHeldByItsCall'
    OBVIOUS
  <2> USE DEF SlotIsHeldByItsCall
  <2>1. ASSUME NEW c \in calls, WorkerMoves(c) PROVE SlotIsHeldByItsCall'
    <3>0. calls = {c} /\ slot
      BY <2>1
    <3>1. CASE WorkerRuns(c)
      <4>1. PICK o : calls' = (calls \ {c}) \cup {[c EXCEPT !.outcome = o]}
        BY <3>1 DEF WorkerRuns
      <4> QED BY <3>0, <3>1, <4>1 DEF WorkerRuns
    <3>2. CASE WorkerCompletes(c)
      BY <3>0, <3>2 DEF WorkerCompletes
    <3> QED BY <2>1, <3>1, <3>2 DEF WorkerMoves
  <2>2. ASSUME NEW p \in Polls, calls' = Abandoned(p), slot' = slot
        PROVE  SlotIsHeldByItsCall'
    <3>1. CASE calls = {}
      BY <2>2, <3>1 DEF Abandoned
    <3>2. ASSUME NEW c \in calls PROVE SlotIsHeldByItsCall'
      <4>1. calls = {c} /\ slot
        OBVIOUS
      <4>2. calls' = {IF c.owner = p THEN [c EXCEPT !.awaited = FALSE] ELSE c}
        BY <2>2, <4>1 DEF Abandoned
      <4> QED BY <2>2, <4>1, <4>2
    <3> QED BY <3>1, <3>2
  <2>3. ASSUME NEW o, NEW w, Admit(o, w) PROVE SlotIsHeldByItsCall'
    BY <2>3 DEF Admit
  <2>4. CASE calls' = calls /\ slot' = slot
    BY <2>4
  <2>5. CASE calls' = {} /\ slot' = FALSE
    BY <2>5
  <2> HIDE DEF SlotIsHeldByItsCall
  <2> QED BY <2>1, <2>2, <2>3, <2>4, <2>5, CallSteps
<1> QED BY <1>1, <1>2, ReviewTypeCorrect, PTL DEF Spec

-----------------------------------------------------------------------------
(* The verdict.                                                            *)

\* Who was told that its job is over asked for a job that was started, and that job is
\* gone, or it is over for good.
EndsAreFinal ==
  /\ job.id <= issued
  /\ \A n \in Jobs : "end" \in told[n] =>
       n <= issued /\ (n # job.id \/ job.expired \/ job.invalid)

\* A validation is of a job that was started and, unless that was replaced, is done; the
\* situation of this moment is among those it has seen.
Validations ==
  \A p \in Polls : polls[p].pc = "validating" =>
    /\ polls[p].job \in 1..issued
    /\ world \in polls[p].seen
    /\ polls[p].job = job.id => job.task = "done"

\* A call somebody waits for belongs to a validation without an outcome, compares with
\* what the job froze, and passes only in a situation the poll has seen.
CallsServePolls ==
  \A c \in calls : c.awaited /\ c.owner \in Polls =>
    /\ polls[c.owner].pc = "validating" /\ polls[c.owner].outcome = "none"
    /\ polls[c.owner].job = job.id => c.captured = job.captured
    /\ c.outcome = "passed" => c.captured \in polls[c.owner].seen

\* A validation that passed saw what its job froze.
PassedWasSeen ==
  \A p \in Polls :
    polls[p].pc = "validating" /\ polls[p].outcome = "passed" /\ polls[p].job = job.id =>
      job.captured \in polls[p].seen

\* The inductive invariant of the verdict, next to TypeOK.
VerdictInv ==
  /\ EndsAreFinal /\ Validations /\ CallsServePolls /\ PassedWasSeen
  /\ NeverResurrected /\ DeliveredWasCurrent

\* A step without an answer gives no verdict.
LEMMA SilentStep ==
  ASSUME reply' = NoReply PROVE NeverResurrected' /\ DeliveredWasCurrent'
BY DEF NoReply, NeverResurrected, DeliveredWasCurrent

\* A step of the review: it concerns a job of which nothing is being validated.
LEMMA VerdictOfJobStep ==
  ASSUME TypeOK, VerdictInv, JobStep PROVE VerdictInv'
<1> USE DEF VerdictInv
<1>0. reply' = NoReply /\ polls' = polls /\ told' = told /\ world' = world
  BY DEF JobStep, Start, ReviewBegins, ProviderStageReturns, PublicationReturns
<1>1. NeverResurrected' /\ DeliveredWasCurrent'
  BY <1>0, SilentStep
<1>2. job \in Job /\ issued \in 0..MaxJobs /\ MaxJobs \in Nat
  BY JobsAreCounted DEF TypeOK
<1>3. \/ /\ issued' = issued + 1 /\ job'.id = issued + 1
      \/ /\ issued' = issued /\ job'.id = job.id /\ job.task # "done"
         /\ job'.expired = job.expired /\ job'.invalid = job.invalid
  <2>1. CASE Start
    BY <2>1 DEF Start, NewJob
  <2>2. CASE ReviewBegins
    BY <1>2, <2>2 DEF ReviewBegins, Finish, Job
  <2>3. CASE ProviderStageReturns
    BY <1>2, <2>3 DEF ProviderStageReturns, Finish, Job
  <2>4. CASE PublicationReturns
    BY <1>2, <2>4 DEF PublicationReturns, Finish, Job
  <2> QED BY <2>1, <2>2, <2>3, <2>4 DEF JobStep
<1>4. EndsAreFinal'
  BY <1>0, <1>2, <1>3 DEF EndsAreFinal, Jobs, Job
<1>5. ASSUME NEW p \in Polls, polls[p].pc = "validating"
      PROVE  polls[p].job # job'.id /\ polls[p].job \in 1..issued'
  BY <1>2, <1>3, <1>5 DEF Validations
<1>6. Validations' /\ PassedWasSeen'
  BY <1>0, <1>5 DEF Validations, PassedWasSeen
<1>7. ASSUME NEW c \in calls', c.owner \in Polls PROVE c \in calls
  <2>1. calls' = calls \/ \E w : Admit(Review, w)
    BY DEF JobStep, Start, ReviewBegins, ProviderStageReturns, PublicationReturns
  <2> QED BY <1>7, <2>1, ReviewIsNoPoll DEF Admit
<1>8. CallsServePolls'
  BY <1>0, <1>5, <1>7 DEF CallsServePolls
<1> QED BY <1>1, <1>4, <1>6, <1>8

\* A step of the worker: it passes on what it found.
LEMMA VerdictOfWorkerStep ==
  ASSUME TypeOK, SlotIsHeldByItsCall, VerdictInv, NEW c \in calls, WorkerMoves(c)
  PROVE  VerdictInv'
<1> USE DEF VerdictInv
<1>0. /\ reply' = NoReply /\ told' = told /\ world' = world /\ issued' = issued
      /\ c \in Call
  BY DEF WorkerMoves, WorkerRuns, WorkerCompletes, TypeOK
<1>1. NeverResurrected' /\ DeliveredWasCurrent'
  BY <1>0, SilentStep
<1>2. CASE WorkerRuns(c)
  <2>1. job' = job /\ polls' = polls
    BY <1>2 DEF WorkerRuns
  <2>2. PICK o : /\ calls' = (calls \ {c}) \cup {[c EXCEPT !.outcome = o]}
                 /\ c.owner # Review /\ o = "passed" => c.captured = world
    BY <1>2 DEF WorkerRuns, GuardOutcomes
  <2>3. EndsAreFinal' /\ Validations' /\ PassedWasSeen'
    BY <1>0, <2>1 DEF EndsAreFinal, Validations, PassedWasSeen
  <2>4. ASSUME NEW d \in calls', d.awaited, d.owner \in Polls
        PROVE  /\ polls[d.owner].pc = "validating" /\ polls[d.owner].outcome = "none"
               /\ polls[d.owner].job = job.id => d.captured = job.captured
               /\ d.outcome = "passed" => d.captured \in polls[d.owner].seen
    <3>1. CASE d \in calls
      BY <2>4, <3>1 DEF CallsServePolls
    <3>2. CASE d = [c EXCEPT !.outcome = o]
      <4>1. d.owner = c.owner /\ d.awaited = c.awaited /\ d.captured = c.captured /\ d.outcome = o
        BY <1>0, <3>2 DEF Call
      <4>2. world \in polls[c.owner].seen
        BY <2>4, <4>1 DEF CallsServePolls, Validations
      <4> QED BY <2>2, <2>4, <4>1, <4>2, ReviewIsNoPoll DEF CallsServePolls
    <3> QED BY <2>2, <2>4, <3>1, <3>2
  <2>5. CallsServePolls'
    BY <2>1, <2>4 DEF CallsServePolls
  <2> QED BY <1>1, <2>3, <2>5
<1>3. CASE WorkerCompletes(c)
  <2>0. job \in Job /\ polls \in [Polls -> Poll]
    BY DEF TypeOK
  <2>1. /\ job'.id = job.id /\ job'.captured = job.captured /\ job'.task = job.task
        /\ job'.expired = job.expired /\ job'.invalid = job.invalid
    BY <1>3, <2>0 DEF WorkerCompletes, Job
  <2>2. ASSUME NEW p \in Polls
        PROVE  /\ polls'[p].pc = polls[p].pc /\ polls'[p].job = polls[p].job
               /\ polls'[p].seen = polls[p].seen
               /\ polls'[p].outcome = IF c.awaited /\ c.owner = p THEN c.outcome
                                      ELSE polls[p].outcome
    BY <1>3, <2>0, ReviewIsNoPoll DEF WorkerCompletes, Poll
  <2>3. EndsAreFinal' /\ Validations'
    BY <1>0, <2>1, <2>2 DEF EndsAreFinal, Validations
  <2>4. PassedWasSeen'
    <3> SUFFICES ASSUME NEW p \in Polls, polls[p].pc = "validating",
                        polls'[p].outcome = "passed", polls[p].job = job.id
                 PROVE  job.captured \in polls[p].seen
      BY <2>1, <2>2 DEF PassedWasSeen
    <3>1. CASE c.awaited /\ c.owner = p
      BY <2>2, <3>1 DEF CallsServePolls
    <3>2. CASE ~(c.awaited /\ c.owner = p)
      BY <2>2, <3>2 DEF PassedWasSeen
    <3> QED BY <3>1, <3>2
  <2>5. CallsServePolls'
    BY <1>3 DEF WorkerCompletes, SlotIsHeldByItsCall, CallsServePolls
  <2> QED BY <1>1, <2>3, <2>4, <2>5
<1> QED BY <1>2, <1>3 DEF WorkerMoves

\* Who is told that a job is over is told so for good.
LEMMA EndsAfterAnswer ==
  ASSUME TypeOK, VerdictInv, NEW n \in 1..issued, NEW a, NEW s, Answer(n, a, s),
         issued' = issued, job'.id = job.id, job'.expired = job.expired,
         job.invalid => job'.invalid,
         a \in Final => n # job'.id \/ job'.expired \/ job'.invalid
  PROVE  EndsAreFinal'
<1>1. ASSUME NEW m \in Jobs, "end" \in told'[m]
      PROVE  "end" \in told[m] \/ (m = n /\ a \in Final)
  BY <1>1 DEF Answer, TypeOK
<1>2. n <= issued
  BY DEF TypeOK
<1> QED BY <1>1, <1>2 DEF VerdictInv, EndsAreFinal

\* A poll that leaves takes nothing of the others with it.
LEMMA ValidationsAfterLeaving ==
  ASSUME TypeOK, VerdictInv, NEW p \in Polls, Leaves(p), issued' = issued, world' = world,
         job'.id = job.id, job'.task = job.task, job'.captured = job.captured
  PROVE  Validations' /\ PassedWasSeen'
<1>1. ASSUME NEW r \in Polls, polls'[r].pc = "validating" PROVE polls'[r] = polls[r]
  BY <1>1 DEF Leaves, TypeOK, Idle
<1> QED BY <1>1 DEF VerdictInv, Validations, PassedWasSeen

\* Nor does the call it leaves behind.
LEMMA CallsAfterLeaving ==
  ASSUME TypeOK, VerdictInv, NEW p \in Polls, Leaves(p), calls' = Abandoned(p), job' = job
  PROVE  CallsServePolls'
<1>1. ASSUME NEW c \in calls', c.awaited PROVE c \in calls /\ c.owner # p
  BY <1>1 DEF Abandoned, TypeOK, Call
<1>2. ASSUME NEW r \in Polls, r # p PROVE polls'[r] = polls[r]
  BY <1>2 DEF Leaves, TypeOK
<1> QED BY <1>1, <1>2 DEF VerdictInv, CallsServePolls

\* A request is answered by the terminal checks, or submits its validation.
LEMMA VerdictOfPollAsks ==
  ASSUME TypeOK, SlotIsHeldByItsCall, VerdictInv, NEW p \in Polls, NEW n \in Jobs,
         PollAsks(p, n)
  PROVE  VerdictInv'
<1> USE DEF VerdictInv
<1>0. /\ world' = world /\ issued' = issued /\ job' = job /\ issued \in Nat
      /\ n \in 1..issued
  BY JobsAreCounted DEF PollAsks, Jobs, TypeOK
<1>1. CASE Verdict(n) # "none" \/ slot
  <2> DEFINE a == IF Verdict(n) = "none" THEN "pending" ELSE Verdict(n)
  <2>1. /\ Answer(n, a, {world}) /\ slot' = slot /\ calls' = calls /\ polls' = polls
    BY <1>1 DEF PollAsks
  <2>2. a # "success" /\ (a \in Final => n # job.id \/ job.expired \/ job.invalid)
    BY DEF Verdict, Final
  <2> HIDE DEF a
  <2>3. EndsAreFinal'
    BY <1>0, <2>1, <2>2, EndsAfterAnswer
  <2>4. NeverResurrected' /\ DeliveredWasCurrent'
    BY <2>1, <2>2 DEF Answer, NeverResurrected, DeliveredWasCurrent
  <2> QED BY <1>0, <2>1, <2>3, <2>4 DEF Validations, CallsServePolls, PassedWasSeen
<1>2. CASE ~(Verdict(n) # "none" \/ slot)
  <2>1. /\ Admit(p, job.captured) /\ reply' = NoReply /\ told' = told /\ calls = {}
        /\ polls' = [polls EXCEPT ![p] = [pc |-> "validating", job |-> n,
                                          outcome |-> "none", seen |-> {world}]]
    BY <1>2 DEF PollAsks, SlotIsHeldByItsCall
  <2>2. job.task = "done"
    BY <1>2 DEF Verdict
  <2>3. /\ polls'[p].pc = "validating" /\ polls'[p].job = n /\ polls'[p].outcome = "none"
        /\ polls'[p].seen = {world}
        /\ \A r \in Polls \ {p} : polls'[r] = polls[r]
    BY <2>1 DEF TypeOK
  <2>4. Validations' /\ PassedWasSeen'
    BY <1>0, <2>2, <2>3 DEF Validations, PassedWasSeen
  <2>5. CallsServePolls'
    BY <1>0, <2>1, <2>3 DEF Admit, CallsServePolls
  <2>6. EndsAreFinal'
    BY <1>0, <2>1 DEF EndsAreFinal
  <2> QED BY <2>1, <2>4, <2>5, <2>6, SilentStep
<1> QED BY <1>1, <1>2

\* A validation that came back.
LEMMA VerdictOfPollResumes ==
  ASSUME TypeOK, VerdictInv, NEW p \in Polls, PollResumes(p)
  PROVE  VerdictInv'
<1> USE DEF VerdictInv
<1> DEFINE n == polls[p].job
           s == polls[p].seen
<1>0. /\ polls[p].pc = "validating" /\ polls[p].outcome # "none" /\ Leaves(p)
      /\ calls' = calls /\ world' = world /\ issued' = issued
      /\ n \in 1..issued /\ n \in Jobs
  BY JobsAreCounted DEF PollResumes, Validations, TypeOK, Jobs
<1>1. /\ job'.id = job.id /\ job'.task = job.task /\ job'.captured = job.captured
      /\ job'.expired = job.expired /\ (job.invalid => job'.invalid)
  BY DEF PollResumes, TypeOK, Job
<1>2. PICK a : /\ Answer(n, a, s)
               /\ a = "success" => polls[p].outcome = "passed" /\ StillDeliverable(n)
               /\ a \in Final => n # job'.id \/ job'.expired \/ job'.invalid
  <2>1. CASE polls[p].outcome = "passed"
    <3>1. Answer(n, IF StillDeliverable(n) THEN "success" ELSE Verdict(n), s) /\ job' = job
      BY <2>1 DEF PollResumes
    <3> QED BY <2>1, <3>1 DEF Verdict, Final
  <2>2. CASE polls[p].outcome = "stale" /\ n = job.id
    <3>1. Answer(n, "stale", s) /\ job'.invalid
      BY <2>2 DEF PollResumes, TypeOK, Job
    <3> QED BY <3>1
  <2>3. CASE polls[p].outcome = "stale" /\ n # job.id
    <3>1. Answer(n, "replaced", s)
      BY <2>3 DEF PollResumes
    <3> QED BY <1>1, <2>3, <3>1
  <2>4. CASE polls[p].outcome = "failed"
    <3>1. Answer(n, "unavailable", s)
      BY <2>4 DEF PollResumes
    <3> QED BY <3>1 DEF Final
  <2> QED BY <2>1, <2>2, <2>3, <2>4 DEF PollResumes
<1>3. EndsAreFinal'
  BY <1>0, <1>1, <1>2, EndsAfterAnswer
<1>4. Validations' /\ PassedWasSeen'
  BY <1>0, <1>1, ValidationsAfterLeaving
<1>5. CallsServePolls'
  <2>1. ASSUME NEW c \in calls, c.awaited, c.owner \in Polls
        PROVE  polls'[c.owner] = polls[c.owner]
    BY <1>0, <2>1 DEF CallsServePolls, Leaves, TypeOK
  <2> QED BY <1>0, <1>1, <2>1 DEF CallsServePolls
<1>6. ASSUME a = "success" PROVE "end" \notin told'[n] /\ n = job'.id /\ job'.captured \in s
  <2>1. n = job.id /\ ~job.invalid /\ ~job.expired /\ job.captured \in s
    BY <1>0, <1>2, <1>6 DEF StillDeliverable, PassedWasSeen
  <2>2. "end" \notin told[n]
    BY <1>0, <2>1 DEF EndsAreFinal
  <2>3. told'[n] = told[n] \cup {"verdict"}
    <3>1. told' = [told EXCEPT ![n] = @ \cup {"verdict"}]
      BY <1>2, <1>6 DEF Answer, Final
    <3>2. n \in DOMAIN told
      BY <1>0 DEF TypeOK
    <3> HIDE DEF n
    <3> QED BY <3>1, <3>2
  <2> QED BY <1>1, <2>1, <2>2, <2>3
<1>7. reply' = [job |-> n, answer |-> a, seen |-> s]
  BY <1>2 DEF Answer
<1>8. NeverResurrected' /\ DeliveredWasCurrent'
  BY <1>6, <1>7 DEF NeverResurrected, DeliveredWasCurrent
<1> QED BY <1>3, <1>4, <1>5, <1>8

\* Any step of a poll.
LEMMA VerdictOfPollStep ==
  ASSUME TypeOK, SlotIsHeldByItsCall, VerdictInv, NEW p \in Polls, PollMoves(p)
  PROVE  VerdictInv'
<1>1. CASE PollTimesOut(p)
  <2>1. /\ Leaves(p) /\ Answer(polls[p].job, "pending", polls[p].seen)
        /\ calls' = Abandoned(p) /\ world' = world /\ issued' = issued /\ job' = job
        /\ polls[p].job \in 1..issued
    BY <1>1 DEF PollTimesOut, VerdictInv, Validations
  <2>2. EndsAreFinal'
    BY <2>1, EndsAfterAnswer DEF Final
  <2>3. NeverResurrected' /\ DeliveredWasCurrent'
    BY <2>1 DEF Answer, NeverResurrected, DeliveredWasCurrent
  <2> QED BY <2>1, <2>2, <2>3, ValidationsAfterLeaving, CallsAfterLeaving DEF VerdictInv
<1>2. CASE PollDisconnects(p)
  <2>1. /\ Leaves(p) /\ reply' = NoReply /\ told' = told
        /\ calls' = Abandoned(p) /\ world' = world /\ issued' = issued /\ job' = job
    BY <1>2 DEF PollDisconnects
  <2>2. EndsAreFinal'
    BY <2>1 DEF VerdictInv, EndsAreFinal
  <2> QED BY <2>1, <2>2, SilentStep, ValidationsAfterLeaving, CallsAfterLeaving DEF VerdictInv
<1> QED BY <1>1, <1>2, VerdictOfPollAsks, VerdictOfPollResumes DEF PollMoves

\* Time, the market and the end of the process.
LEMMA VerdictOfTheRest ==
  ASSUME TypeOK, VerdictInv, Expire \/ Restart \/ \E w \in Worlds : WorldChanges(w)
  PROVE  VerdictInv'
<1> USE DEF VerdictInv
<1>0. NeverResurrected' /\ DeliveredWasCurrent'
  BY SilentStep DEF Expire, Restart, WorldChanges
<1>1. CASE Expire
  <2>1. /\ job'.id = job.id /\ job'.task = job.task /\ job'.captured = job.captured
        /\ job'.invalid = job.invalid /\ job'.expired
    BY <1>1 DEF Expire, TypeOK, Job
  <2>2. UNCHANGED <<world, issued, calls, polls, told>>
    BY <1>1 DEF Expire
  <2>3. EndsAreFinal'
    BY <2>1, <2>2 DEF EndsAreFinal
  <2> QED BY <1>0, <2>1, <2>2, <2>3 DEF Validations, CallsServePolls, PassedWasSeen
<1>2. CASE Restart
  <2>1. /\ job'.id = 0 /\ calls' = {} /\ issued' = issued /\ told' = told
        /\ \A p \in Polls : polls'[p].pc = "idle"
    BY <1>2 DEF Restart, NewJob, Idle
  <2>2. EndsAreFinal'
    BY <2>1, JobsAreCounted DEF EndsAreFinal, Jobs, TypeOK
  <2> QED BY <1>0, <2>1, <2>2 DEF Validations, CallsServePolls, PassedWasSeen
<1>3. ASSUME NEW w \in Worlds, WorldChanges(w) PROVE VerdictInv'
  <2>1. world' = w /\ UNCHANGED <<issued, job, calls, told>>
    BY <1>3 DEF WorldChanges
  <2>2. ASSUME NEW p \in Polls
        PROVE  /\ polls'[p].pc = polls[p].pc /\ polls'[p].job = polls[p].job
               /\ polls'[p].outcome = polls[p].outcome
               /\ polls[p].pc = "validating" => polls'[p].seen = polls[p].seen \cup {w}
    BY <1>3 DEF WorldChanges, TypeOK, Poll
  <2>3. Validations'
    BY <2>1, <2>2 DEF Validations
  <2>4. CallsServePolls' /\ PassedWasSeen'
    BY <2>1, <2>2 DEF CallsServePolls, PassedWasSeen
  <2>5. EndsAreFinal'
    BY <2>1 DEF EndsAreFinal
  <2> QED BY <1>0, <2>3, <2>4, <2>5
<1> QED BY <1>1, <1>2, <1>3

\* The invariant holds always.
THEOREM VerdictIsSafe == Spec => []VerdictInv
<1>1. Init => VerdictInv
  BY JobsAreCounted DEF Init, VerdictInv, NewJob, Idle, NoReply, EndsAreFinal, Validations,
     CallsServePolls, PassedWasSeen, NeverResurrected, DeliveredWasCurrent
<1>2. TypeOK /\ SlotIsHeldByItsCall /\ VerdictInv /\ [Next]_vars => VerdictInv'
  <2> SUFFICES ASSUME TypeOK, SlotIsHeldByItsCall, VerdictInv, [Next]_vars PROVE VerdictInv'
    OBVIOUS
  <2>1. CASE Next
    BY <2>1, StepKinds, VerdictOfJobStep, VerdictOfWorkerStep, VerdictOfPollStep,
       VerdictOfTheRest
  <2>2. CASE UNCHANGED vars
    BY <2>2 DEF vars, VerdictInv, EndsAreFinal, Validations, CallsServePolls, PassedWasSeen,
       NeverResurrected, DeliveredWasCurrent
  <2> QED BY <2>1, <2>2
<1> QED BY <1>1, <1>2, ReviewTypeCorrect, SlotFollowsCall, PTL DEF Spec

\* A review that any client was told is over is never delivered afterwards, whatever
\* polls, reviews, expiries and restarts fall between.
THEOREM NoVerdictAfterEnd == Spec => []NeverResurrected
<1>1. VerdictInv => NeverResurrected
  BY DEF VerdictInv
<1> QED BY <1>1, VerdictIsSafe, PTL

\* What is delivered was validated, for this poll, in a situation it saw.
THEOREM VerdictWasCurrent == Spec => []DeliveredWasCurrent
<1>1. VerdictInv => DeliveredWasCurrent
  BY DEF VerdictInv
<1> QED BY <1>1, VerdictIsSafe, PTL
=============================================================================
