------------------------------ MODULE Pipeline ------------------------------
(***************************************************************************)
(* The Go service around one SQLite database: the queue and its review     *)
(* decisions (video_service.go, gate_service.go), the step runner and its  *)
(* goroutines (pipeline/runner.go), and recovery at startup.               *)
(*                                                                         *)
(* Actors.  People act through the CLI or the dashboard at any time: the   *)
(* CLI is a process of its own on the same database, so their decisions do *)
(* not need the API server.  An API server boots, recovers, serves Start   *)
(* requests and runs one goroutine per started step; it can die anywhere.  *)
(*                                                                         *)
(* Atomicity.  A WithTx block is one action: SQLite lets one writer in, and *)
(* a transaction that loses to another process fails as a whole (a         *)
(* "fault").  Everything the code does outside a transaction is an action  *)
(* of its own: the two reads of Start, the load, run and record phases of  *)
(* execute, and the mark, list and update phases of RecoverInterrupted.    *)
(*                                                                         *)
(* Left out: progress and error texts, notes, priorities and timestamps    *)
(* other than started_at, which orders a video's jobs.                     *)
(***************************************************************************)
EXTENDS VideoState, FiniteSets

CONSTANTS
  Videos,      \* ids that may be queued
  Jobs,        \* job ids; each is used once
  Apis,        \* rewind-api processes that may run on this database
  Steps,       \* the registered steps, [from, running, to]
  MaxLog,      \* bound: decisions per video
  MaxStarts,   \* bound: Start requests that take a start time
  MaxCrashes,  \* bound: API server deaths
  MaxFaults    \* bound: failed reads and transactions

(* Registry.Register admits a step only if both its legs are automatic moves *)
(* and its resting status is free; no step declares error as its success.    *)
Registers(s) ==
  /\ s = [from |-> s.from, running |-> s.running, to |-> s.to]
  /\ CanTransition(s.from, s.running)
  /\ CanTransition(s.running, s.to)

ASSUME StepsAssumption ==
  /\ \A s \in Steps : Registers(s) /\ s.running # "error" /\ s.to # "error"
  /\ \A s, t \in Steps : s.from = t.from => s = t

ASSUME BoundsAssumption ==
  MaxLog \in Nat /\ MaxStarts \in Nat /\ MaxCrashes \in Nat /\ MaxFaults \in Nat

VARIABLES
  videos,    \* the videos table: a row per queued id
  jobs,      \* the jobs table
  log,       \* the review_log table, per video
  phase,     \* per API server: down, or how far its startup has come
  listed,    \* per API server: rows RecoverInterrupted listed, not yet failed
  requests,  \* Start calls between their first read and their claim
  work,      \* step goroutines, and those that could not record their failure
  clock,     \* ticks once per start time taken
  crashes, faults

db == <<videos, jobs, log>>
bounds == <<crashes, faults>>
vars == <<videos, jobs, log, phase, listed, requests, work, clock, crashes, faults>>

NoRow == [status |-> NoStatus]
NoJob == [state |-> "none"]

Exists(v) == videos[v] # NoRow
IsFinished(j) == jobs[j].state # "running"
FreeJobs == {j \in Jobs : jobs[j] = NoJob}
JobsOf(v) == {j \in Jobs : jobs[j] # NoJob /\ jobs[j].video = v}

(* JobRepo.Latest: the newest row by started_at (start times never tie here). *)
IsLatest(v, j) == j \in JobsOf(v) /\ \A k \in JobsOf(v) : jobs[k].startedAt <= jobs[j].startedAt

RunningStatuses == {s.running : s \in Steps}

Fault == faults < MaxFaults /\ faults' = faults + 1
NoFault == UNCHANGED faults

(* ReviewLog.Append, always inside the transaction of the decision it records. *)
LogEntry(v, row, action, gate) ==
  [action |-> action, gate |-> gate, from |-> videos[v].status, to |-> row.status]

(* Mutant: the entry is written after the commit, and may be lost. *)
DecideUnlogged(v, row, action, gate) ==
  /\ Len(log[v]) < MaxLog
  /\ videos' = [videos EXCEPT ![v] = row]
  /\ log' \in {log, [log EXCEPT ![v] = Append(@, LogEntry(v, row, action, gate))]}
  /\ UNCHANGED <<jobs, phase, listed, requests, work, clock, bounds>>

Decide(v, row, action, gate) ==
  /\ Len(log[v]) < MaxLog
  /\ videos' = [videos EXCEPT ![v] = row]
  /\ log' = [log EXCEPT ![v] = Append(@, LogEntry(v, row, action, gate))]
  /\ UNCHANGED <<jobs, phase, listed, requests, work, clock, bounds>>

-----------------------------------------------------------------------------
Init ==
  /\ videos = [v \in Videos |-> NoRow]
  /\ jobs = [j \in Jobs |-> NoJob]
  /\ log = [v \in Videos |-> <<>>]
  /\ phase = [a \in Apis |-> "down"]
  /\ listed = [a \in Apis |-> {}]
  /\ requests = {}
  /\ work = {}
  /\ clock = 0
  /\ crashes = 0
  /\ faults = 0

(* People: VideoService.AddVideo and RetryVideo, GateService.Approve and   *)
(* Reject.  What Gate A's precondition lets through is FactsGate's matter; *)
(* here an approval is one the precondition let through.                   *)

AddVideo(v) == ~Exists(v) /\ Decide(v, NewVideo, "create", NoGate)

Approve(v, g) ==
  /\ CanApproveGate(videos[v], g)
  /\ Decide(v, ApproveGate(videos[v], g), "approve", g)

Reject(v, g, backTo) ==
  /\ CanRejectGate(videos[v], g, backTo)
  /\ Decide(v, RejectGate(videos[v], g, backTo), "reject", g)

RetryVideo(v) ==
  /\ CanRetry(videos[v])
  /\ Decide(v, Retry(videos[v]), "retry", NoGate)

-----------------------------------------------------------------------------
(* Runner.Start: two reads, then the claim.  A refused Start changes nothing; *)
(* a status with a registered step is neither a gate's nor error.             *)

StartRead(a, v, s) ==
  /\ phase[a] = "serving"
  /\ videos[v].status = s.from
  /\ Cardinality(requests) < Cardinality(FreeJobs)
  /\ requests' = requests \cup
       {[pc |-> "read", api |-> a, video |-> v, step |-> s, startedAt |-> 0]}
  /\ UNCHANGED <<db, phase, listed, work, clock, bounds>>

(* "Refuse to start a second job for the same video." *)
StartRefused(r) ==
  /\ r.pc = "read"
  /\ \E j \in Jobs : IsLatest(r.video, j) /\ ~IsFinished(j)
  /\ requests' = requests \ {r}
  /\ UNCHANGED <<db, phase, listed, work, clock, bounds>>

(* The latest job is finished, there is none, or it cannot be read: Start goes *)
(* on all the same, and leaves the refusal to the claim.                       *)
StartChecked(r) ==
  /\ r.pc = "read"
  /\ \/ (\A j \in Jobs : IsLatest(r.video, j) => IsFinished(j)) /\ NoFault
     \/ Fault
  /\ clock < MaxStarts
  /\ clock' = clock + 1
  /\ requests' = (requests \ {r}) \cup {[r EXCEPT !.pc = "checked", !.startedAt = clock]}
  /\ UNCHANGED <<db, phase, listed, work, crashes>>

(* Claim the work and create the job together, then spawn the goroutine. *)
ClaimAs(r, j) ==
  /\ r.pc = "checked"
  /\ j \in FreeJobs
  /\ videos' = [videos EXCEPT ![r.video] = Transition(@, r.step.running)]
  /\ jobs' = [jobs EXCEPT ![j] = [state |-> "running", video |-> r.video,
                                  step |-> r.step, startedAt |-> r.startedAt]]
  /\ requests' = requests \ {r}
  /\ work' = work \cup {[job |-> j, api |-> r.api, video |-> r.video,
                         step |-> r.step, pc |-> "loading"]}
  /\ UNCHANGED <<log, phase, listed, clock, bounds>>

(* Mutant: the claim trusts the status read before the transaction. *)
ClaimUnchecked(r, j) == videos[r.video] # NoRow /\ ClaimAs(r, j)

StartClaim(r, j) == CanMove(videos[r.video], r.step.running) /\ ClaimAs(r, j)

(* The claim's transaction fails: the video has moved on, or a fault. *)
StartFailed(r) ==
  /\ r.pc = "checked"
  /\ \/ ~CanMove(videos[r.video], r.step.running) /\ NoFault
     \/ Fault
  /\ requests' = requests \ {r}
  /\ UNCHANGED <<db, phase, listed, work, clock, crashes>>

-----------------------------------------------------------------------------
(* Runner.execute, one goroutine w: load, run, record. *)

Goto(w, pc) ==
  /\ work' = (work \ {w}) \cup {[w EXCEPT !.pc = pc]}
  /\ UNCHANGED <<db, phase, listed, requests, clock, crashes>>

Load(w) == w.pc = "loading" /\ NoFault /\ Goto(w, "running")
LoadFailed(w) == w.pc = "loading" /\ Fault /\ Goto(w, "failing")

RunReturns(w) == w.pc = "running" /\ NoFault /\ Goto(w, "finishing")

(* step.Run returns an error, times out, or panics and is recovered. *)
RunFails(w) == w.pc = "running" /\ NoFault /\ Goto(w, "failing")

(* jobs.Finish: unlike UpdateProgress it overwrites whatever state it finds. *)
CloseJob(j, state) == jobs' = [jobs EXCEPT ![j].state = state]

Finish(w) ==
  /\ w.pc = "finishing"
  /\ CanMove(videos[w.video], w.step.to)
  /\ videos' = [videos EXCEPT ![w.video] = Transition(@, w.step.to)]
  /\ CloseJob(w.job, "succeeded")
  /\ work' = work \ {w}
  /\ UNCHANGED <<log, phase, listed, requests, clock, bounds>>

(* The success transaction rolls back: the video has moved, or a fault. *)
FinishFailed(w) ==
  /\ w.pc = "finishing"
  /\ \/ ~CanMove(videos[w.video], w.step.to) /\ NoFault
     \/ Fault
  /\ Goto(w, "failing")

(* Mutant: the video fails and its job is left open. *)
FailLeavingJob(w) ==
  /\ w.pc = "failing"
  /\ videos' = [videos EXCEPT ![w.video] = Fail(@)]
  /\ work' = work \ {w}
  /\ UNCHANGED <<jobs, log, phase, listed, requests, clock, bounds>>

RecordFailure(w) ==
  /\ w.pc = "failing"
  /\ videos' = [videos EXCEPT ![w.video] = Fail(@)]
  /\ CloseJob(w.job, "failed")
  /\ work' = work \ {w}
  /\ UNCHANGED <<log, phase, listed, requests, clock, bounds>>

(* "Nothing left to do but say so loudly": the goroutine ends, nothing recorded. *)
FailureLost(w) == w.pc = "failing" /\ Fault /\ Goto(w, "lost")

Execute(w) ==
  \/ Load(w) \/ LoadFailed(w)
  \/ RunReturns(w) \/ RunFails(w)
  \/ Finish(w) \/ FinishFailed(w)
  \/ RecordFailure(w) \/ FailureLost(w)

-----------------------------------------------------------------------------
(* An API server's life: boot, RecoverInterrupted, serve, die. *)

Boot(a) ==
  /\ phase[a] = "down"
  /\ phase' = [phase EXCEPT ![a] = "marking"]
  /\ UNCHANGED <<db, listed, requests, work, clock, bounds>>

MarkRunningAsInterrupted(a) ==
  /\ phase[a] = "marking"
  /\ jobs' = [j \in Jobs |-> IF jobs[j].state = "running"
                               THEN [jobs[j] EXCEPT !.state = "interrupted"]
                               ELSE jobs[j]]
  /\ phase' = [phase EXCEPT ![a] = "listing"]
  /\ UNCHANGED <<videos, log, listed, requests, work, clock, bounds>>

(* VideoRepo.List by status; its order plays no part in recovery. *)
List(statuses) ==
  {[video |-> v, row |-> videos[v]] : v \in {u \in Videos : videos[u].status \in statuses}}

ListInProgress(a) ==
  /\ phase[a] = "listing"
  /\ listed' = [listed EXCEPT ![a] = List(RunningStatuses)]
  /\ phase' = [phase EXCEPT ![a] = "recovering"]
  /\ UNCHANGED <<db, requests, work, clock, bounds>>

(* Mutant: recovery only counts the videos it lists. *)
CountVideo(a, e) ==
  /\ phase[a] = "recovering"
  /\ e \in listed[a]
  /\ listed' = [listed EXCEPT ![a] = @ \ {e}]
  /\ UNCHANGED <<db, phase, requests, work, clock, bounds>>

(* One video, outside any transaction: the whole row as it was listed is written. *)
RecoverVideo(a, e) ==
  /\ phase[a] = "recovering"
  /\ e \in listed[a]
  /\ videos' = [videos EXCEPT ![e.video] = Fail(e.row)]
  /\ listed' = [listed EXCEPT ![a] = @ \ {e}]
  /\ UNCHANGED <<jobs, log, phase, requests, work, clock, bounds>>

Serve(a) ==
  /\ phase[a] = "recovering"
  /\ listed[a] = {}
  /\ phase' = [phase EXCEPT ![a] = "serving"]
  /\ UNCHANGED <<db, listed, requests, work, clock, bounds>>

(* The process dies or is stopped (shutdown drains HTTP, not goroutines); *)
(* a failed recovery ends the process too.                                *)
Crash(a) ==
  /\ phase[a] # "down"
  /\ crashes < MaxCrashes
  /\ crashes' = crashes + 1
  /\ phase' = [phase EXCEPT ![a] = "down"]
  /\ listed' = [listed EXCEPT ![a] = {}]
  /\ requests' = {r \in requests : r.api # a}
  /\ work' = {w \in work : w.api # a}
  /\ UNCHANGED <<db, clock, faults>>

Recover(a) ==
  \/ Boot(a) \/ MarkRunningAsInterrupted(a) \/ ListInProgress(a)
  \/ \E e \in listed[a] : RecoverVideo(a, e)
  \/ Serve(a)

-----------------------------------------------------------------------------
Person(v) ==
  \/ AddVideo(v)
  \/ \E g \in Gate : Approve(v, g)
  \/ \E g \in Gate, backTo \in PipelineStatus : Reject(v, g, backTo)
  \/ RetryVideo(v)

Claim(r) == \E j \in Jobs : StartClaim(r, j)

Start ==
  \/ \E a \in Apis, v \in Videos, s \in Steps : StartRead(a, v, s)
  \/ \E r \in requests : StartRefused(r) \/ StartChecked(r) \/ Claim(r) \/ StartFailed(r)

Next ==
  \/ \E v \in Videos : Person(v)
  \/ Start
  \/ \E w \in work : Execute(w)
  \/ \E a \in Apis : Recover(a) \/ Crash(a)

Spec == Init /\ [][Next]_vars

(* Goroutines are scheduled, a step ends (its RPC has a deadline) and a dead *)
(* server is started again.  Nobody is obliged to decide or to press run.    *)
Fairness ==
  /\ \A j \in Jobs : WF_vars(\E w \in work : w.job = j /\ Execute(w))
  /\ \A a \in Apis : WF_vars(Recover(a))

FairSpec == Spec /\ Fairness

-----------------------------------------------------------------------------
JobState == {"running", "succeeded", "failed", "interrupted"}
Phase == {"down", "marking", "listing", "recovering", "serving"}

TypeOK ==
  /\ videos \in [Videos -> Video \cup {NoRow}]
  /\ jobs \in [Jobs -> [state : JobState, video : Videos, step : Steps, startedAt : Nat]
                         \cup {NoJob}]
  /\ log \in [Videos -> Seq([action : {"create", "approve", "reject", "retry"},
                             gate : Gate \cup {NoGate},
                             from : Status \cup {NoStatus},
                             to : Status])]
  /\ phase \in [Apis -> Phase]
  /\ listed \in [Apis -> SUBSET [video : Videos, row : Video]]
  /\ requests \subseteq [pc : {"read", "checked"}, api : Apis, video : Videos,
                         step : Steps, startedAt : Nat]
  /\ work \subseteq [job : Jobs, api : Apis, video : Videos, step : Steps,
                     pc : {"loading", "running", "finishing", "failing", "lost"}]
  /\ clock \in Nat /\ crashes \in Nat /\ faults \in Nat

-----------------------------------------------------------------------------
(* Properties.                                                             *)

(* Recovery is written for one server per database (job_repo.go: "nothing  *)
(* survives a restart"); some properties need that.                        *)
SingleApi == \A a, b \in Apis : a = b

Past(v) == GatesBehind(Position(videos[v]))

(* The human-gated review process this system implements. *)
Review == INSTANCE HumanGates WITH passed <- [v \in Videos |-> Past(v)],
                                   ledger <- log

(* Every step is a step of the review process or leaves it alone: no       *)
(* goroutine, recovery, retry or refused request moves a video over a gate. *)
ImplementsReview == Review!Spec

(* The review log alone tells which gates a video is past, also after      *)
(* failures, retries and rejections (gate_service.go: state change and     *)
(* entry "succeed together or neither happens").                           *)
LogTellsPosition ==
  \A v \in Videos : Past(v) = {g \in Gate : Review!StandsApproved(log[v], g)}

(* No gate is ever passed without a standing approval (state.go: "human    *)
(* review gates can never be skipped or auto-approved").  One server keeps *)
(* that for any registry.  Several keep it while the registered working    *)
(* statuses lie before every gate, as the one of today does: behind a gate *)
(* recovery may write back a row listed before a rejection took its        *)
(* approval away.                                                          *)
NoGateSkipped ==
  \A v \in Videos : \A g \in Past(v) : Review!StandsApproved(log[v], g)

Live == {w \in work : w.pc # "lost"}

(* "Two steps writing the same project folder would corrupt each other's   *)
(* output" (runner.go): at most one goroutine works on a video.            *)
OneWorkerPerVideo == \A w1, w2 \in Live : w1.video = w2.video => w1 = w2

(* A goroutine's video is where the goroutine put it, or failed from there: *)
(* no decision or second Start takes a video away from running work.       *)
WorkerHoldsVideo == \A w \in Live : Position(videos[w.video]) = w.step.running

(* "A video marked researching with no job tracking it" is what the claim  *)
(* transaction rules out, and a job that runs while its video rests is what *)
(* the success and failure transactions rule out (runner.go).              *)
RunningJobHoldsVideo ==
  \A j \in Jobs :
    jobs[j].state = "running" => videos[jobs[j].video].status = jobs[j].step.running

(* "A job that is still running when nothing is running is a lie the       *)
(* dashboard would otherwise display forever" (job.go): once a server has  *)
(* recovered, exactly the jobs of its goroutines are running, those whose  *)
(* failure could not be recorded included.                                 *)
RunningJobsAreReal ==
  \A a \in Apis : phase[a] \in {"listing", "recovering", "serving"} =>
    \A j \in Jobs : jobs[j].state = "running" <=> \E w \in work : w.job = j

(* "RejectedTo ... always describes the most recent rejection that is still *)
(* relevant" (video.go): the video is still at, or failed at, the status it *)
(* names, and no later gate decision is in the log.                        *)
RejectionIsCurrent ==
  \A v \in Videos :
    (Exists(v) /\ videos[v].rejectedTo # NoStatus) =>
      /\ Position(videos[v]) = videos[v].rejectedTo
      /\ \E i \in 1..Len(log[v]) :
           /\ log[v][i].action = "reject"
           /\ log[v][i].to = videos[v].rejectedTo
           /\ \A k \in (i+1)..Len(log[v]) : log[v][k].action = "retry"

(* Only a recorded rejection ever takes a video back in the pipeline: not a *)
(* crash, not recovery, not a retry, not a late goroutine.                 *)
OnlyRejectionSendsBack ==
  [][\A v \in Videos :
       IsEarlier(Position(videos'[v]), Position(videos[v])) =>
         /\ Len(log'[v]) = Len(log[v]) + 1
         /\ log'[v][Len(log'[v])].action = "reject"]_<<videos, log>>

(* Every started job is closed, by its goroutine or by the next startup,   *)
(* unless recording its failure itself failed.                             *)
JobSettles ==
  \A j \in Jobs :
    jobs[j].state = "running" ~>
      \/ jobs[j].state # "running"
      \/ \E w \in work : w.job = j /\ w.pc = "lost"

(* A video whose server died under it does not stay in its running status: *)
(* recovery makes it an error a person can retry (SPEC 13.3).              *)
InterruptedVideoSurfaces ==
  \A j \in Jobs, v \in Videos :
    (jobs[j].state = "running" /\ jobs[j].video = v /\ ~\E w \in work : w.job = j) ~>
      videos[v].status = "error"

-----------------------------------------------------------------------------
(* What some of the code's comments say, and the code does not do.         *)

LastDecision(v) == log[v][Len(log[v])]

(* Somebody keeps pressing run, and the server answers. *)
OperatorKeepsRunning ==
  \A v \in Videos :
    /\ WF_vars(\E a \in Apis, s \in Steps : StartRead(a, v, s))
    /\ WF_vars(\E r \in requests : r.video = v /\ (StartChecked(r) \/ Claim(r)))

FairRunSpec == FairSpec /\ OperatorKeepsRunning

WorkedOn(v) == \E w \in Live : w.video = v

(* "RetryFrom is the status to resume from, so a retry re-runs the failed  *)
(* step rather than guessing where to restart" (video.go): after a retry,  *)
(* pressing run eventually gets the step running again.                    *)
RetryReruns ==
  \A v \in Videos :
    (log[v] # <<>> /\ LastDecision(v).action = "retry") ~> WorkedOn(v)

-----------------------------------------------------------------------------
(* The inductive invariant, by parts.                                      *)

(* Every failed video knows where to resume: Retry's fallback to queued is *)
(* never taken.                                                            *)
FailedVideosResume ==
  \A v \in Videos : videos[v].status = "error" => videos[v].retryFrom \in PipelineStatus

(* A goroutine's video and job are in their tables. *)
ClaimsAreOnRecord == \A w \in work : Exists(w.video) /\ jobs[w.job] # NoJob

TypeInv == TypeOK /\ ClaimsAreOnRecord

(* Only a serving server has requests and goroutines; only a recovering one *)
(* holds listed rows.                                                      *)
ServersOwnTheirWork ==
  /\ \A r \in requests : phase[r.api] = "serving"
  /\ \A w \in work : phase[w.api] = "serving"
  /\ \A a \in Apis : listed[a] # {} => phase[a] = "recovering"

(* Whatever happens to a listed video, its row was listed in a working status. *)
ListedRowsRun == \A a \in Apis : \A e \in listed[a] : e.row.status \in RunningStatuses

(* With a single server no row changes between its listing and its update. *)
ListedRowsAreFresh ==
  \A a \in Apis : \A e \in listed[a] :
    videos[e.video] = e.row /\ e.row.status \in RunningStatuses

ReviewInv == TypeInv /\ FailedVideosResume /\ ServersOwnTheirWork /\ ListedRowsAreFresh

(* Today's registry: nothing works on a video that is past a gate. *)
WorkIsBeforeTheGates == \A s \in Steps : GatesBehind(s.running) = {}

ServersInv == TypeInv /\ FailedVideosResume /\ ListedRowsRun /\ NoGateSkipped

(* Goroutines and running jobs are matched one to one. *)
WorkMatchesJobs ==
  /\ \A w \in work : /\ jobs[w.job] # NoJob
                     /\ jobs[w.job].video = w.video
                     /\ jobs[w.job].step = w.step
                     /\ jobs[w.job].state = "running"
  /\ \A w1, w2 \in work : w1.job = w2.job => w1 = w2

OneRunningJobPerVideo ==
  \A j, k \in Jobs :
    (jobs[j].state = "running" /\ jobs[k].state = "running" /\ jobs[j].video = jobs[k].video)
      => j = k

WorkInv ==
  /\ ReviewInv
  /\ WorkMatchesJobs
  /\ RunningJobHoldsVideo
  /\ OneRunningJobPerVideo
  /\ RunningJobsAreReal
=============================================================================
