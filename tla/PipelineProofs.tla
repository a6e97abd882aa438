--------------------------- MODULE PipelineProofs ---------------------------
(***************************************************************************)
(* Theorems about Pipeline for any number of videos, jobs, servers,        *)
(* crashes and faults, and any registry of steps Register would accept.    *)
(***************************************************************************)
EXTENDS Pipeline, SharedLemmas

(* Only a row that exists has a status. *)
LEMMA RowsWithAStatus ==
  ASSUME TypeOK, NEW v \in Videos
  PROVE  /\ videos[v].status \in Status \cup {NoStatus}
         /\ Exists(v) <=> videos[v] \in Video
         /\ Exists(v) <=> videos[v].status # NoStatus
BY TablesNameStatuses DEF TypeOK, Exists, NoRow, Video

LEMMA StepStatuses ==
  ASSUME NEW s \in Steps
  PROVE  /\ s.from \in PipelineStatus
         /\ s.running \in PipelineStatus
         /\ s.to \in PipelineStatus
         /\ CanTransition(s.from, s.running)
         /\ CanTransition(s.running, s.to)
BY StepsAssumption, TablesNameStatuses DEF Registers, Status

LEMMA MovableExists ==
  ASSUME TypeOK, NEW v \in Videos, NEW to, CanMove(videos[v], to)
  PROVE  videos[v] \in Video
<1>1. videos[v].status \in PipelineStatus
  BY TablesNameStatuses DEF CanMove
<1>2. QED
  BY <1>1, RowsWithAStatus, TablesNameStatuses DEF Status

-----------------------------------------------------------------------------
(* Type correctness.                                                       *)

LEMMA InitIsTyped == Init => TypeInv
<1> SUFFICES ASSUME Init PROVE TypeInv
  OBVIOUS
<1>1. TypeOK
  BY DEF Init, TypeOK, Phase
<1>2. ClaimsAreOnRecord
  BY DEF Init, ClaimsAreOnRecord
<1>3. QED
  BY <1>1, <1>2 DEF TypeInv

(* A decision rewrites one row and appends one entry. *)
LEMMA DecisionsAreTyped ==
  ASSUME TypeInv, NEW v \in Videos, NEW row \in Video,
         NEW action \in {"create", "approve", "reject", "retry"},
         NEW gate \in Gate \cup {NoGate},
         Decide(v, row, action, gate)
  PROVE  TypeInv'
<1> DEFINE e == [action |-> action, gate |-> gate,
                 from |-> videos[v].status, to |-> row.status]
           E == [action : {"create", "approve", "reject", "retry"},
                 gate : Gate \cup {NoGate},
                 from : Status \cup {NoStatus},
                 to : Status]
<1>1. e \in E
  BY RowsWithAStatus DEF TypeInv, Video
<1>2. log' = [log EXCEPT ![v] = Append(@, e)] /\ log \in [Videos -> Seq(E)]
  BY DEF Decide, LogEntry, TypeInv, TypeOK
<1>3. log' \in [Videos -> Seq(E)]
  <2> HIDE DEF e, E
  <2>1. Append(log[v], e) \in Seq(E)
    BY <1>1, <1>2
  <2>2. QED
    BY <1>2, <2>1
<1>4. videos' \in [Videos -> Video \cup {NoRow}]
  BY DEF Decide, LogEntry, TypeInv, TypeOK
<1>5. TypeOK'
  BY <1>3, <1>4 DEF Decide, LogEntry, bounds, TypeInv, TypeOK
<1>6. ClaimsAreOnRecord'
  <2>1. row # NoRow
    BY TablesNameStatuses DEF Video, NoRow
  <2>2. \A u \in Videos : Exists(u) => Exists(u)'
    BY <2>1 DEF Decide, LogEntry, Exists, TypeInv, TypeOK
  <2>3. QED
    BY <2>2 DEF Decide, LogEntry, TypeInv, TypeOK, ClaimsAreOnRecord
<1>7. QED
  BY <1>5, <1>6 DEF TypeInv

LEMMA PersonIsTyped ==
  ASSUME TypeInv, NEW v \in Videos, Person(v)
  PROVE  TypeInv'
<1> USE DecisionsAreTyped, ChangesGiveVideos, RowsWithAStatus, TablesNameStatuses
<1>1. CASE AddVideo(v)
  BY <1>1 DEF AddVideo
<1>2. ASSUME NEW g \in Gate, Approve(v, g) PROVE TypeInv'
  <2>1. videos[v] \in Video
    BY <1>2 DEF Approve, CanApproveGate, AwaitsGate, TypeInv, Status
  <2>2. QED
    BY <1>2, <2>1 DEF Approve
<1>3. ASSUME NEW g \in Gate, NEW backTo \in PipelineStatus, Reject(v, g, backTo)
      PROVE  TypeInv'
  <2>1. videos[v] \in Video
    BY <1>3 DEF Reject, CanRejectGate, AwaitsGate, TypeInv, Status
  <2>2. QED
    BY <1>3, <2>1 DEF Reject
<1>4. CASE RetryVideo(v)
  <2>1. videos[v] \in Video
    BY <1>4 DEF RetryVideo, CanRetry, TypeInv, Status
  <2>2. QED
    BY <1>4, <2>1 DEF RetryVideo
<1>5. QED
  BY <1>1, <1>2, <1>3, <1>4 DEF Person

(* Requests come and go beside everything else. *)
LEMMA RequestsAreTyped ==
  ASSUME TypeInv,
         requests' \subseteq [pc : {"read", "checked"}, api : Apis, video : Videos,
                              step : Steps, startedAt : Nat],
         clock' \in Nat, faults' \in Nat,
         UNCHANGED <<db, phase, listed, work, crashes>>
  PROVE  TypeInv'
<1>1. TypeOK'
  BY DEF db, TypeInv, TypeOK
<1>2. ClaimsAreOnRecord'
  BY DEF db, TypeInv, ClaimsAreOnRecord, Exists
<1>3. QED
  BY <1>1, <1>2 DEF TypeInv

LEMMA StartIsTyped == TypeInv /\ Start => TypeInv'
<1> SUFFICES ASSUME TypeInv, Start PROVE TypeInv'
  OBVIOUS
<1> DEFINE Request == [pc : {"read", "checked"}, api : Apis, video : Videos,
                       step : Steps, startedAt : Nat]
<1>1. requests \subseteq Request /\ clock \in Nat /\ crashes \in Nat /\ faults \in Nat
  BY DEF TypeInv, TypeOK
<1>2. ASSUME NEW a \in Apis, NEW v \in Videos, NEW s \in Steps, StartRead(a, v, s)
      PROVE  TypeInv'
  <2>1. requests' \subseteq Request
    BY <1>1, <1>2 DEF StartRead
  <2>2. QED
    BY <1>1, <1>2, <2>1, RequestsAreTyped DEF StartRead, bounds
<1>3. ASSUME NEW r \in requests, StartRefused(r)
      PROVE  TypeInv'
  BY <1>1, <1>3, RequestsAreTyped DEF StartRefused, bounds
<1>4. ASSUME NEW r \in requests, StartChecked(r)
      PROVE  TypeInv'
  <2>1. [r EXCEPT !.pc = "checked", !.startedAt = clock] \in Request
    BY <1>1
  <2>2. requests' \subseteq Request
    BY <1>1, <1>4, <2>1 DEF StartChecked
  <2>3. QED
    BY <1>1, <1>4, <2>2, RequestsAreTyped DEF StartChecked, NoFault, Fault
<1>5. ASSUME NEW r \in requests, NEW j \in Jobs, StartClaim(r, j)
      PROVE  TypeInv'
  <2>1. r.video \in Videos /\ r.step \in Steps /\ r.api \in Apis /\ r.startedAt \in Nat
    BY <1>1
  <2> DEFINE row == Transition(videos[r.video], r.step.running)
             job == [state |-> "running", video |-> r.video,
                     step |-> r.step, startedAt |-> r.startedAt]
             w == [job |-> j, api |-> r.api, video |-> r.video,
                   step |-> r.step, pc |-> "loading"]
  <2>2. row \in Video
    BY <1>5, <2>1, MovableExists, ChangesGiveVideos, StepStatuses
       DEF StartClaim, ClaimAs, TypeInv, Status
  <2>3. row # NoRow
    BY <2>2, TablesNameStatuses DEF Video, NoRow
  <2>4. job \in [state : JobState, video : Videos, step : Steps, startedAt : Nat]
        /\ job # NoJob
    BY <2>1 DEF JobState, NoJob
  <2>5. /\ videos' = [videos EXCEPT ![r.video] = row]
        /\ jobs' = [jobs EXCEPT ![j] = job]
        /\ requests' = requests \ {r}
        /\ work' = work \cup {w}
        /\ UNCHANGED <<log, phase, listed, clock, crashes, faults>>
    BY <1>5 DEF StartClaim, ClaimAs, bounds
  <2>6. w \in [job : Jobs, api : Apis, video : Videos, step : Steps,
               pc : {"loading", "running", "finishing", "failing", "lost"}]
    BY <2>1
  <2>7. w.video = r.video /\ w.job = j
    OBVIOUS
  <2> HIDE DEF row, job, w
  <2>8. TypeOK'
    BY <2>1, <2>2, <2>4, <2>5, <2>6 DEF TypeInv, TypeOK
  <2>9. ClaimsAreOnRecord'
    BY <2>1, <2>3, <2>4, <2>5, <2>7 DEF TypeInv, TypeOK, ClaimsAreOnRecord, Exists
  <2>10. QED
    BY <2>8, <2>9 DEF TypeInv
<1>6. ASSUME NEW r \in requests, StartFailed(r)
      PROVE  TypeInv'
  BY <1>1, <1>6, RequestsAreTyped DEF StartFailed, NoFault, Fault
<1>7. QED
  BY <1>2, <1>3, <1>4, <1>5, <1>6 DEF Start, Claim

(* A goroutine that only moves to its next phase. *)
LEMMA GotoIsTyped ==
  ASSUME TypeInv, NEW w \in work,
         NEW pc \in {"loading", "running", "finishing", "failing", "lost"},
         Goto(w, pc), NoFault \/ Fault
  PROVE  TypeInv'
<1>1. work' \subseteq [job : Jobs, api : Apis, video : Videos, step : Steps,
                       pc : {"loading", "running", "finishing", "failing", "lost"}]
  BY DEF Goto, TypeInv, TypeOK
<1>2. faults' \in Nat
  BY DEF NoFault, Fault, TypeInv, TypeOK
<1>3. TypeOK'
  BY <1>1, <1>2 DEF Goto, db, TypeInv, TypeOK
<1>4. \A u \in work' : \E t \in work : u.video = t.video /\ u.job = t.job
  BY DEF Goto, TypeInv, TypeOK
<1>5. ClaimsAreOnRecord'
  BY <1>4 DEF Goto, db, TypeInv, ClaimsAreOnRecord, Exists
<1>6. QED
  BY <1>3, <1>5 DEF TypeInv

(* A goroutine that closes its job and leaves its video at row. *)
LEMMA ClosingIsTyped ==
  ASSUME TypeInv, NEW w \in work, NEW row \in Video, NEW state \in JobState,
         videos' = [videos EXCEPT ![w.video] = row],
         CloseJob(w.job, state),
         work' = work \ {w},
         UNCHANGED <<log, phase, listed, requests, clock, bounds>>
  PROVE  TypeInv'
<1>1. w.video \in Videos /\ w.job \in Jobs
  BY DEF TypeInv, TypeOK
<1>2. row # NoRow
  BY TablesNameStatuses DEF Video, NoRow
<1> DEFINE Job == [state : JobState, video : Videos, step : Steps, startedAt : Nat]
           closed == [jobs[w.job] EXCEPT !.state = state]
<1>3. jobs[w.job] \in Job
  BY <1>1 DEF TypeInv, TypeOK, ClaimsAreOnRecord
<1>4. closed \in Job /\ closed # NoJob
  BY <1>3 DEF NoJob, JobState
<1>5. jobs' = [jobs EXCEPT ![w.job] = closed]
  BY DEF CloseJob
<1> HIDE DEF closed
<1>6. TypeOK'
  BY <1>1, <1>4, <1>5 DEF bounds, TypeInv, TypeOK
<1>7. ClaimsAreOnRecord'
  BY <1>1, <1>2, <1>4, <1>5 DEF TypeInv, TypeOK, ClaimsAreOnRecord, Exists
<1>8. QED
  BY <1>6, <1>7 DEF TypeInv

LEMMA ExecuteIsTyped ==
  ASSUME TypeInv, NEW w \in work, Execute(w)
  PROVE  TypeInv'
<1>1. w.video \in Videos /\ w.step \in Steps /\ videos[w.video] \in Video
  BY RowsWithAStatus DEF TypeInv, TypeOK, ClaimsAreOnRecord
<1>2. CASE Load(w) \/ LoadFailed(w) \/ RunReturns(w) \/ RunFails(w)
           \/ FinishFailed(w) \/ FailureLost(w)
  BY <1>2, GotoIsTyped DEF Load, LoadFailed, RunReturns, RunFails, FinishFailed, FailureLost
<1>3. CASE Finish(w)
  <2>1. Transition(videos[w.video], w.step.to) \in Video
    BY <1>1, ChangesGiveVideos, StepStatuses DEF Status
  <2>2. QED
    BY <1>3, <2>1, ClosingIsTyped DEF Finish, JobState
<1>4. CASE RecordFailure(w)
  <2>1. Fail(videos[w.video]) \in Video
    BY <1>1, ChangesGiveVideos
  <2>2. QED
    BY <1>4, <2>1, ClosingIsTyped DEF RecordFailure, JobState
<1>5. QED
  BY <1>2, <1>3, <1>4 DEF Execute

LEMMA RecoverIsTyped ==
  ASSUME TypeInv, NEW a \in Apis, Recover(a)
  PROVE  TypeInv'
<1>1. CASE Boot(a) \/ Serve(a)
  BY <1>1 DEF Boot, Serve, db, bounds, Phase, TypeInv, TypeOK, ClaimsAreOnRecord, Exists
<1>2. CASE MarkRunningAsInterrupted(a)
  <2> DEFINE Job == [state : JobState, video : Videos, step : Steps, startedAt : Nat]
             mark(j) == IF jobs[j].state = "running"
                          THEN [jobs[j] EXCEPT !.state = "interrupted"]
                          ELSE jobs[j]
  <2>1. \A j \in Jobs : /\ mark(j) \in Job \cup {NoJob}
                        /\ jobs[j] # NoJob => mark(j) # NoJob
    <3> SUFFICES ASSUME NEW j \in Jobs
                 PROVE  /\ mark(j) \in Job \cup {NoJob}
                        /\ jobs[j] # NoJob => mark(j) # NoJob
      OBVIOUS
    <3>1. jobs[j] \in Job \cup {NoJob}
      BY DEF TypeInv, TypeOK
    <3>2. CASE jobs[j] \in Job /\ jobs[j].state = "running"
      <4>1. [jobs[j] EXCEPT !.state = "interrupted"] \in Job
        BY <3>2 DEF JobState
      <4>2. [jobs[j] EXCEPT !.state = "interrupted"] # NoJob
        BY <4>1 DEF JobState, NoJob
      <4>3. QED
        BY <3>2, <4>1, <4>2
    <3>3. CASE jobs[j] \in Job /\ jobs[j].state # "running"
      BY <3>3
    <3>4. CASE jobs[j] = NoJob
      BY <3>4 DEF NoJob
    <3>5. QED
      BY <3>1, <3>2, <3>3, <3>4
  <2>2. jobs' = [j \in Jobs |-> mark(j)]
    BY <1>2 DEF MarkRunningAsInterrupted
  <2> HIDE DEF mark
  <2>3. TypeOK'
    BY <1>2, <2>1, <2>2 DEF MarkRunningAsInterrupted, bounds, Phase, TypeInv, TypeOK
  <2>4. ClaimsAreOnRecord'
    BY <1>2, <2>1, <2>2
       DEF MarkRunningAsInterrupted, TypeInv, TypeOK, ClaimsAreOnRecord, Exists
  <2>5. QED
    BY <2>3, <2>4 DEF TypeInv
<1>3. CASE ListInProgress(a)
  <2> DEFINE rows == {[video |-> v, row |-> videos[v]] :
                        v \in {u \in Videos : videos[u].status \in RunningStatuses}}
  <2>1. ASSUME NEW v \in Videos, videos[v].status \in RunningStatuses
        PROVE  videos[v] \in Video
    <3>1. videos[v].status \in PipelineStatus
      BY <2>1, StepStatuses DEF RunningStatuses
    <3>2. QED
      BY <3>1, RowsWithAStatus, TablesNameStatuses DEF TypeInv, Status
  <2>2. rows \subseteq [video : Videos, row : Video]
    BY <2>1
  <2>3. listed' = [listed EXCEPT ![a] = rows]
    BY <1>3 DEF ListInProgress, List
  <2> HIDE DEF rows
  <2>4. TypeOK'
    BY <1>3, <2>2, <2>3 DEF ListInProgress, List, db, bounds, Phase, TypeInv, TypeOK
  <2>5. ClaimsAreOnRecord'
    BY <1>3 DEF ListInProgress, List, db, TypeInv, ClaimsAreOnRecord, Exists
  <2>6. QED
    BY <2>4, <2>5 DEF TypeInv
<1>4. ASSUME NEW e \in listed[a], RecoverVideo(a, e)
      PROVE  TypeInv'
  <2>1. e.video \in Videos /\ e.row \in Video
    BY DEF TypeInv, TypeOK
  <2>2. Fail(e.row) \in Video
    BY <2>1, ChangesGiveVideos
  <2>3. Fail(e.row) # NoRow
    BY <2>2, TablesNameStatuses DEF Video, NoRow
  <2>4. TypeOK'
    BY <1>4, <2>1, <2>2 DEF RecoverVideo, bounds, TypeInv, TypeOK
  <2>5. ClaimsAreOnRecord'
    BY <1>4, <2>1, <2>3 DEF RecoverVideo, TypeInv, TypeOK, ClaimsAreOnRecord, Exists
  <2>6. QED
    BY <2>4, <2>5 DEF TypeInv
<1>5. QED
  BY <1>1, <1>2, <1>3, <1>4 DEF Recover

LEMMA CrashIsTyped ==
  ASSUME TypeInv, NEW a \in Apis, Crash(a)
  PROVE  TypeInv'
<1>1. /\ phase' \in [Apis -> Phase]
      /\ listed' \in [Apis -> SUBSET [video : Videos, row : Video]]
      /\ crashes' \in Nat
  BY DEF Crash, Phase, TypeInv, TypeOK
<1>2. requests' \subseteq requests /\ work' \subseteq work
  BY DEF Crash
<1>3. TypeOK'
  BY <1>1, <1>2 DEF Crash, db, TypeInv, TypeOK
<1>4. ClaimsAreOnRecord'
  BY <1>2 DEF Crash, db, TypeInv, ClaimsAreOnRecord, Exists
<1>5. QED
  BY <1>3, <1>4 DEF TypeInv

LEMMA NextIsTyped == TypeInv /\ [Next]_vars => TypeInv'
<1> SUFFICES ASSUME TypeInv, [Next]_vars PROVE TypeInv'
  OBVIOUS
<1>1. CASE UNCHANGED vars
  BY <1>1 DEF vars, TypeInv, TypeOK, ClaimsAreOnRecord, Exists
<1>2. QED
  BY <1>1, PersonIsTyped, StartIsTyped, ExecuteIsTyped, RecoverIsTyped, CrashIsTyped DEF Next

(* Rows, jobs, log entries, requests and goroutines always have the shape  *)
(* the domain types give them: in particular no status outside the tables  *)
(* is ever stored, and no failure or recovery writes a row nobody queued.  *)
THEOREM TypeCorrect == Spec => []TypeOK
<1>1. TypeInv => TypeOK
  BY DEF TypeInv
<1>2. QED
  BY <1>1, InitIsTyped, NextIsTyped, PTL DEF Spec

-----------------------------------------------------------------------------
(* ReviewInv: what recovery and retry rely on.                             *)

LEMMA FailAlwaysResumes ==
  ASSUME NEW row \in Video, row.status = "error" => row.retryFrom \in PipelineStatus
  PROVE  Fail(row).retryFrom \in PipelineStatus
BY DEF Fail, Video, Status

(* A failed video records where it was, and nothing overwrites that. *)
LEMMA FailuresStayResumable ==
  ASSUME TypeInv, FailedVideosResume, ListedRowsRun, [Next]_vars
  PROVE  FailedVideosResume'
<1> USE StepStatuses, TablesNameStatuses DEF FailedVideosResume, TypeInv, TypeOK
<1>1. ASSUME NEW v \in Videos, NEW row, NEW action, NEW gate,
             Decide(v, row, action, gate), row.status # "error"
      PROVE  FailedVideosResume'
  BY <1>1 DEF Decide, LogEntry
<1>2. ASSUME NEW v \in Videos, Person(v)
      PROVE  FailedVideosResume'
  <2>1. CASE AddVideo(v)
    BY <1>1, <2>1 DEF AddVideo, NewVideo
  <2>2. ASSUME NEW g \in Gate, Approve(v, g) PROVE FailedVideosResume'
    <3>1. videos[v] \in Video
      <4>1. videos[v].status = gates[g].from /\ gates[g].from \in PipelineStatus
        BY <2>2 DEF Approve, CanApproveGate, AwaitsGate
      <4>2. QED
        BY <4>1, RowsWithAStatus DEF Status
    <3>2. ApproveGate(videos[v], g).status = gates[g].to
      BY <3>1 DEF ApproveGate, Video
    <3>3. QED
      BY <1>1, <2>2, <3>2 DEF Approve
  <2>3. ASSUME NEW g \in Gate, NEW backTo \in PipelineStatus, Reject(v, g, backTo)
        PROVE  FailedVideosResume'
    <3>1. videos[v] \in Video
      <4>1. videos[v].status = gates[g].from /\ gates[g].from \in PipelineStatus
        BY <2>3 DEF Reject, CanRejectGate, AwaitsGate
      <4>2. QED
        BY <4>1, RowsWithAStatus DEF Status
    <3>2. RejectGate(videos[v], g, backTo).status = backTo
      BY <3>1 DEF RejectGate, Video
    <3>3. QED
      BY <1>1, <2>3, <3>2 DEF Reject
  <2>4. CASE RetryVideo(v)
    <3>1. videos[v] \in Video
      BY <2>4, RowsWithAStatus DEF RetryVideo, CanRetry, Status
    <3>2. Retry(videos[v]).status # "error"
      BY <3>1 DEF Retry, Video
    <3>3. QED
      BY <1>1, <2>4, <3>2 DEF RetryVideo
  <2>5. QED
    BY <1>2, <2>1, <2>2, <2>3, <2>4 DEF Person
<1>3. CASE Start
  <2>1. ASSUME NEW r \in requests, NEW j \in Jobs, StartClaim(r, j)
        PROVE  FailedVideosResume'
    <3>1. videos[r.video] \in Video
      BY <2>1, MovableExists DEF StartClaim, ClaimAs
    <3>2. Transition(videos[r.video], r.step.running).status = r.step.running
      BY <3>1 DEF Transition, Video
    <3>3. QED
      BY <2>1, <3>2 DEF StartClaim, ClaimAs
  <2>2. CASE UNCHANGED videos
    BY <2>2
  <2>3. QED
    BY <1>3, <2>1, <2>2 DEF Start, Claim, StartRead, StartRefused, StartChecked, StartFailed, db
<1>4. ASSUME NEW w \in work, Execute(w)
      PROVE  FailedVideosResume'
  <2>1. videos[w.video] \in Video
    BY RowsWithAStatus DEF ClaimsAreOnRecord
  <2>2. CASE Finish(w)
    <3>1. Transition(videos[w.video], w.step.to).status = w.step.to
      BY <2>1 DEF Transition, Video
    <3>2. QED
      BY <2>2, <3>1 DEF Finish
  <2>3. CASE RecordFailure(w)
    <3>1. Fail(videos[w.video]).retryFrom \in PipelineStatus
      BY <2>1, FailAlwaysResumes
    <3>2. QED
      BY <2>3, <3>1 DEF RecordFailure
  <2>4. CASE UNCHANGED videos
    BY <2>4
  <2>5. QED
    BY <1>4, <2>2, <2>3, <2>4
       DEF Execute, Load, LoadFailed, RunReturns, RunFails, FinishFailed, FailureLost, Goto, db
<1>5. ASSUME NEW a \in Apis, Recover(a)
      PROVE  FailedVideosResume'
  <2>1. ASSUME NEW e \in listed[a], RecoverVideo(a, e)
        PROVE  FailedVideosResume'
    <3>1. e.video \in Videos /\ e.row \in Video /\ e.row.status # "error"
      BY DEF ListedRowsRun, RunningStatuses
    <3>2. Fail(e.row).retryFrom \in PipelineStatus
      BY <3>1, FailAlwaysResumes
    <3>3. QED
      BY <2>1, <3>1, <3>2 DEF RecoverVideo
  <2>2. CASE UNCHANGED videos
    BY <2>2
  <2>3. QED
    BY <1>5, <2>1, <2>2 DEF Recover, Boot, MarkRunningAsInterrupted, ListInProgress, Serve, db
<1>6. CASE UNCHANGED videos
  BY <1>6
<1>7. QED
  BY <1>2, <1>3, <1>4, <1>5, <1>6 DEF Next, Crash, db, vars

(* A listed row keeps the status it was listed in, whatever its video does. *)
LEMMA ListedRowsStayRunning ==
  ASSUME TypeInv, ListedRowsRun, [Next]_vars
  PROVE  ListedRowsRun'
<1> USE DEF ListedRowsRun, TypeInv, TypeOK
<1>1. ASSUME NEW a \in Apis, ListInProgress(a)
      PROVE  ListedRowsRun'
  BY <1>1 DEF ListInProgress, List, RunningStatuses
<1>2. ASSUME \A a \in Apis : listed'[a] \subseteq listed[a]
      PROVE  ListedRowsRun'
  BY <1>2 DEF RunningStatuses
<1>3. ASSUME NEW a \in Apis, NEW e \in listed[a], RecoverVideo(a, e)
      PROVE  ListedRowsRun'
  BY <1>2, <1>3 DEF RecoverVideo
<1>4. ASSUME NEW a \in Apis, Crash(a)
      PROVE  ListedRowsRun'
  BY <1>2, <1>4 DEF Crash
<1>5. CASE listed' = listed
  BY <1>2, <1>5
<1>6. QED
  BY <1>1, <1>3, <1>4, <1>5
     DEF Next, Person, AddVideo, Approve, Reject, RetryVideo, Decide,
         Start, StartRead, StartRefused, StartChecked, Claim, StartClaim, ClaimAs, StartFailed,
         Execute, Load, LoadFailed, RunReturns, RunFails, Finish, FinishFailed,
         RecordFailure, FailureLost, Goto, Recover, Boot, MarkRunningAsInterrupted, Serve, vars

(* Requests and goroutines live and die with their server. *)
LEMMA WorkStaysOwned ==
  ASSUME TypeInv, ServersOwnTheirWork, [Next]_vars
  PROVE  ServersOwnTheirWork'
<1> USE DEF ServersOwnTheirWork, TypeInv, TypeOK
<1>1. ASSUME NEW v \in Videos, Person(v)
      PROVE  ServersOwnTheirWork'
  BY <1>1 DEF Person, AddVideo, Approve, Reject, RetryVideo, Decide
<1>2. CASE Start
  <2>1. UNCHANGED <<phase, listed>>
    BY <1>2 DEF Start, Claim, StartRead, StartRefused, StartChecked, StartClaim, ClaimAs, StartFailed
  <2>2. \A q \in requests' : phase[q.api] = "serving"
    <3>1. ASSUME NEW a \in Apis, NEW v \in Videos, NEW s \in Steps, StartRead(a, v, s)
          PROVE  \A q \in requests' : phase[q.api] = "serving"
      BY <3>1 DEF StartRead
    <3>2. ASSUME NEW r \in requests, StartChecked(r)
          PROVE  \A q \in requests' : \E p \in requests : q.api = p.api
      BY <3>2 DEF StartChecked
    <3>3. ASSUME NEW r \in requests, StartRefused(r) \/ Claim(r) \/ StartFailed(r)
          PROVE  requests' \subseteq requests
      BY <3>3 DEF StartRefused, Claim, StartClaim, ClaimAs, StartFailed
    <3>4. QED
      BY <1>2, <3>1, <3>2, <3>3 DEF Start
  <2>3. \A w \in work' : phase[w.api] = "serving"
    <3>1. ASSUME NEW r \in requests, NEW j \in Jobs, StartClaim(r, j)
          PROVE  \A w \in work' : w \in work \/ w.api = r.api
      BY <3>1 DEF StartClaim, ClaimAs
    <3>2. CASE UNCHANGED work
      BY <3>2
    <3>3. QED
      BY <1>2, <3>1, <3>2
         DEF Start, Claim, StartRead, StartRefused, StartChecked, StartFailed
  <2>4. QED
    BY <2>1, <2>2, <2>3
<1>3. ASSUME NEW w \in work, Execute(w)
      PROVE  ServersOwnTheirWork'
  <2>1. UNCHANGED <<phase, listed, requests>>
    BY <1>3 DEF Execute, Load, LoadFailed, RunReturns, RunFails, Finish, FinishFailed,
                RecordFailure, FailureLost, Goto
  <2>2. \A u \in work' : \E t \in work : u.api = t.api
    BY <1>3 DEF Execute, Load, LoadFailed, RunReturns, RunFails, Finish, FinishFailed,
                RecordFailure, FailureLost, Goto
  <2>3. QED
    BY <2>1, <2>2
<1>4. ASSUME NEW a \in Apis, Recover(a)
      PROVE  ServersOwnTheirWork'
  BY <1>4 DEF Recover, Boot, MarkRunningAsInterrupted, ListInProgress, RecoverVideo, Serve
<1>5. ASSUME NEW a \in Apis, Crash(a)
      PROVE  ServersOwnTheirWork'
  BY <1>5 DEF Crash
<1>6. CASE UNCHANGED vars
  BY <1>6 DEF vars
<1>7. QED
  BY <1>1, <1>2, <1>3, <1>4, <1>5, <1>6 DEF Next

(* A working status waits for no person and is not error. *)
LEMMA RunningIsNobodysTurn ==
  ASSUME NEW status \in RunningStatuses
  PROVE  /\ \A g \in Gate : ~AwaitsGate(status, g)
         /\ status # "error" /\ status # NoStatus
<1>1. PICK s \in Steps : status = s.running
  BY DEF RunningStatuses
<1>2. CanTransition(status, s.to)
  BY <1>1, StepStatuses
<1>3. "A" \in Gate
  BY DEF Gate, gates
<1>4. QED
  BY <1>2, <1>3, MovableIsNotAtAGate

(* People leave the rows alone that recovery has listed. *)
LEMMA PeopleLeaveRunningRows ==
  ASSUME NEW v \in Videos, Person(v), TypeOK,
         NEW u \in Videos, videos[u].status \in RunningStatuses
  PROVE  videos'[u] = videos[u]
<1>1. \A g \in Gate : ~AwaitsGate(videos[u].status, g)
  BY RunningIsNobodysTurn
<1>2. videos[u].status # "error" /\ Exists(u)
  BY RunningIsNobodysTurn, RowsWithAStatus
<1>3. u # v
  BY <1>1, <1>2 DEF Person, AddVideo, Approve, CanApproveGate, Reject, CanRejectGate,
                    RetryVideo, CanRetry
<1>4. QED
  BY <1>3 DEF Person, AddVideo, Approve, Reject, RetryVideo, Decide, TypeOK

(* Nothing changes a row between its listing and its update when one       *)
(* server recovers the database: it has no goroutines yet.                 *)
LEMMA ListedRowsStayFresh ==
  ASSUME SingleApi, TypeInv, ServersOwnTheirWork, ListedRowsAreFresh, [Next]_vars
  PROVE  ListedRowsAreFresh'
<1> USE DEF ListedRowsAreFresh, TypeInv
<1>1. \A b \in Apis : listed[b] \subseteq [video : Videos, row : Video]
  BY DEF TypeOK
<1>2. CASE UNCHANGED <<videos, listed>>
  BY <1>2
<1>3. ASSUME NEW v \in Videos, Person(v)
      PROVE  ListedRowsAreFresh'
  <2>1. listed' = listed
    BY <1>3 DEF Person, AddVideo, Approve, Reject, RetryVideo, Decide
  <2>2. ASSUME NEW b \in Apis, NEW e \in listed[b]
        PROVE  videos'[e.video] = e.row /\ e.row.status \in RunningStatuses
    BY <1>1, <1>3, <2>2, PeopleLeaveRunningRows
  <2>3. QED
    BY <2>1, <2>2
<1>4. ASSUME NEW b \in Apis, listed[b] # {}
      PROVE  requests = {} /\ work = {}
  <2>1. \A c \in Apis : phase[c] = "recovering"
    BY <1>4 DEF SingleApi, ServersOwnTheirWork
  <2>2. (\A r \in requests : r.api \in Apis) /\ (\A w \in work : w.api \in Apis)
    BY DEF TypeOK
  <2>3. QED
    BY <2>1, <2>2 DEF ServersOwnTheirWork
<1>5. ASSUME listed' = listed, requests # {} \/ work # {}
      PROVE  ListedRowsAreFresh'
  BY <1>4, <1>5
<1>6. CASE Start
  <2>1. CASE \E a \in Apis, v \in Videos, s \in Steps : StartRead(a, v, s)
    BY <1>2, <2>1 DEF StartRead, db
  <2>2. CASE requests # {}
    BY <1>5, <1>6, <2>2 DEF Start, Claim, StartRead, StartRefused, StartChecked, StartClaim, ClaimAs, StartFailed
  <2>3. QED
    BY <1>6, <2>1, <2>2 DEF Start
<1>7. ASSUME NEW w \in work, Execute(w)
      PROVE  ListedRowsAreFresh'
  BY <1>5, <1>7 DEF Execute, Load, LoadFailed, RunReturns, RunFails, Finish, FinishFailed,
                    RecordFailure, FailureLost, Goto
<1>8. ASSUME NEW a \in Apis, Recover(a)
      PROVE  ListedRowsAreFresh'
  <2>1. CASE Boot(a) \/ MarkRunningAsInterrupted(a) \/ Serve(a)
    BY <1>2, <2>1 DEF Boot, MarkRunningAsInterrupted, Serve, db
  <2>2. CASE ListInProgress(a)
    BY <2>2 DEF ListInProgress, List, db, TypeOK
  <2>3. ASSUME NEW e \in listed[a], RecoverVideo(a, e)
        PROVE  ListedRowsAreFresh'
    <3>1. listed' = [listed EXCEPT ![a] = @ \ {e}]
      BY <2>3 DEF RecoverVideo
    <3>2. \A b \in Apis : b = a
      BY DEF SingleApi
    <3>3. ASSUME NEW f \in listed[a], f # e
          PROVE  videos'[f.video] = videos[f.video]
      <4>1. e = [video |-> e.video, row |-> e.row] /\ f = [video |-> f.video, row |-> f.row]
        BY <1>1
      <4>2. f.video # e.video
        BY <3>3, <4>1
      <4>3. QED
        BY <2>3, <4>2, <1>1 DEF RecoverVideo, TypeOK
    <3>4. QED
      BY <3>1, <3>2, <3>3 DEF TypeOK
  <2>4. QED
    BY <1>8, <2>1, <2>2, <2>3 DEF Recover
<1>9. ASSUME NEW a \in Apis, Crash(a)
      PROVE  ListedRowsAreFresh'
  BY <1>9 DEF Crash, db, TypeOK
<1> HIDE DEF ListedRowsAreFresh, TypeInv
<1>10. QED
  BY <1>2, <1>3, <1>6, <1>7, <1>8, <1>9 DEF Next, vars

LEMMA InitIsReviewable == Init => ReviewInv
<1> SUFFICES ASSUME Init PROVE ReviewInv
  OBVIOUS
<1>1. FailedVideosResume
  BY TablesNameStatuses DEF Init, FailedVideosResume, NoRow, NoStatus
<1>2. ServersOwnTheirWork /\ ListedRowsAreFresh
  BY DEF Init, ServersOwnTheirWork, ListedRowsAreFresh
<1>3. QED
  BY <1>1, <1>2, InitIsTyped DEF ReviewInv

LEMMA NextIsReviewable == SingleApi /\ ReviewInv /\ [Next]_vars => ReviewInv'
<1>1. ListedRowsAreFresh => ListedRowsRun
  BY DEF ListedRowsAreFresh, ListedRowsRun
<1>2. QED
  BY <1>1, NextIsTyped, FailuresStayResumable, WorkStaysOwned, ListedRowsStayFresh DEF ReviewInv

(* With one server per database, whoever crashes when: every failed video  *)
(* knows the status to resume from, and recovery never writes a stale row. *)
THEOREM RecoveryIsSafe ==
  ASSUME SingleApi
  PROVE  Spec => []ReviewInv
<1>1. ReviewInv /\ [Next]_vars => ReviewInv'
  BY NextIsReviewable
<1>2. QED
  BY <1>1, InitIsReviewable, PTL DEF Spec

-----------------------------------------------------------------------------
(***************************************************************************)
(* One server per database: a video is worked on by at most one goroutine, *)
(* which holds it in its working status, and a running job means running   *)
(* work.                                                                   *)
(*                                                                         *)
(* The argument.  A running job keeps its video in the working status of   *)
(* its step (RunningJobHoldsVideo).  No step starts from a working status  *)
(* (NoThreeLegs), so no second claim succeeds, and no person is asked      *)
(* anything there (RunningIsNobodysTurn).  Goroutines and running jobs are *)
(* matched (WorkMatchesJobs), so nothing else finishes or fails the video, *)
(* and recovery runs only while no job is running (RunningJobsAreReal).    *)
(***************************************************************************)

(* What WorkInv says, with the bound variables' types spelt out. *)
LEMMA WorkTypes ==
  ASSUME TypeOK
  PROVE  /\ \A w \in work : /\ w.job \in Jobs /\ w.api \in Apis
                            /\ w.video \in Videos /\ w.step \in Steps
         /\ \A r \in requests : r.api \in Apis /\ r.video \in Videos /\ r.step \in Steps
         /\ \A j \in Jobs : jobs[j].state = "running" =>
              jobs[j].video \in Videos /\ jobs[j].step \in Steps /\ jobs[j] # NoJob
BY DEF TypeOK, NoJob

(* A video with a running job is claimed by no second Start. *)
LEMMA ClaimNeedsAnIdleVideo ==
  ASSUME TypeOK, RunningJobHoldsVideo,
         NEW r \in requests, NEW j \in Jobs, StartClaim(r, j),
         NEW k \in Jobs, jobs[k].state = "running"
  PROVE  jobs[k].video # r.video
<1>1. r.step \in Steps /\ jobs[k].step \in Steps
  BY WorkTypes
<1>2. CanTransition(videos[r.video].status, r.step.running)
  BY DEF StartClaim, ClaimAs, CanMove
<1>3. jobs[k].video = r.video => CanTransition(jobs[k].step.running, r.step.running)
  BY <1>2 DEF RunningJobHoldsVideo
<1>4. QED
  BY <1>1, <1>3, StepStatuses, NoThreeLegs

(* A job in a single server's table is running only if its goroutine is    *)
(* there, once that server has marked what it found.                       *)
LEMMA NoWorkBeforeServing ==
  ASSUME SingleApi, TypeOK, ServersOwnTheirWork, NEW a \in Apis, phase[a] # "serving"
  PROVE  work = {} /\ requests = {}
BY WorkTypes DEF SingleApi, ServersOwnTheirWork

(* The two shapes of a goroutine's step. *)
LEMMA ExecuteShapes ==
  ASSUME NEW w \in work, Execute(w)
  PROVE  \/ \E pc : Goto(w, pc)
         \/ /\ \E row : videos' = [videos EXCEPT ![w.video] = row]
            /\ \E state \in {"succeeded", "failed"} : CloseJob(w.job, state)
            /\ work' = work \ {w}
            /\ UNCHANGED <<log, phase, listed, requests, clock>>
<1>1. CASE Finish(w)
  BY <1>1 DEF Finish
<1>2. CASE RecordFailure(w)
  BY <1>2 DEF RecordFailure
<1>3. CASE Load(w) \/ LoadFailed(w) \/ RunReturns(w) \/ RunFails(w)
           \/ FinishFailed(w) \/ FailureLost(w)
  BY <1>3 DEF Load, LoadFailed, RunReturns, RunFails, FinishFailed, FailureLost
<1>4. QED
  BY <1>1, <1>2, <1>3 DEF Execute

(* Closing a job stops that job and no other. *)
LEMMA ClosingStopsOneJob ==
  ASSUME TypeOK, NEW w \in work, jobs[w.job] # NoJob,
         NEW state \in {"succeeded", "failed"}, CloseJob(w.job, state)
  PROVE  /\ jobs'[w.job].state # "running"
         /\ jobs'[w.job] # NoJob
         /\ \A k \in Jobs : k # w.job => jobs'[k] = jobs[k]
<1>1. w.job \in Jobs
  BY WorkTypes
<1>2. jobs[w.job] \in [state : JobState, video : Videos, step : Steps, startedAt : Nat]
  BY <1>1 DEF TypeOK
<1>3. jobs'[w.job] = [jobs[w.job] EXCEPT !.state = state]
  BY <1>1 DEF CloseJob, TypeOK
<1>4. jobs'[w.job].state = state
  BY <1>2, <1>3
<1>5. jobs'[w.job] # NoJob
  BY <1>4 DEF NoJob
<1>6. QED
  BY <1>1, <1>4, <1>5 DEF CloseJob, TypeOK

(* Requests are only requests until they claim. *)
LEMMA StartShapes ==
  ASSUME Start
  PROVE  \/ UNCHANGED <<db, phase, listed, work>>
         \/ \E r \in requests, j \in Jobs : StartClaim(r, j)
BY DEF Start, Claim, StartRead, StartRefused, StartChecked, StartFailed

LEMMA PersonShape ==
  ASSUME NEW v \in Videos, Person(v)
  PROVE  UNCHANGED <<jobs, phase, listed, requests, work>>
BY DEF Person, AddVideo, Approve, Reject, RetryVideo, Decide

-----------------------------------------------------------------------------
LEMMA WorkStaysMatched ==
  ASSUME SingleApi, WorkInv, [Next]_vars
  PROVE  WorkMatchesJobs'
<1> USE DEF WorkInv, ReviewInv, TypeInv
<1>1. CASE UNCHANGED <<jobs, work>>
  BY <1>1 DEF WorkMatchesJobs
<1>2. ASSUME NEW r \in requests, NEW j \in Jobs, StartClaim(r, j)
      PROVE  WorkMatchesJobs'
  <2> DEFINE job == [state |-> "running", video |-> r.video,
                     step |-> r.step, startedAt |-> r.startedAt]
             n == [job |-> j, api |-> r.api, video |-> r.video,
                   step |-> r.step, pc |-> "loading"]
  <2>1. jobs' = [jobs EXCEPT ![j] = job] /\ work' = work \cup {n} /\ jobs[j] = NoJob
    BY <1>2 DEF StartClaim, ClaimAs, FreeJobs
  <2>2. \A w \in work : w.job \in Jobs /\ w.job # j
    BY <2>1, WorkTypes DEF WorkMatchesJobs
  <2>3. /\ n.job = j /\ n.video = job.video /\ n.step = job.step
        /\ job.state = "running" /\ job # NoJob
    BY DEF NoJob
  <2>4. jobs'[j] = job /\ \A k \in Jobs : k # j => jobs'[k] = jobs[k]
    BY <2>1 DEF TypeOK
  <2> HIDE DEF job, n
  <2>5. QED
    BY <2>1, <2>2, <2>3, <2>4 DEF WorkMatchesJobs
<1>3. ASSUME NEW w \in work, Execute(w)
      PROVE  WorkMatchesJobs'
  <2>1. ASSUME NEW pc, Goto(w, pc)
        PROVE  WorkMatchesJobs'
    <3> DEFINE n == [w EXCEPT !.pc = pc]
    <3>1. jobs' = jobs /\ work' = (work \ {w}) \cup {n}
      BY <2>1 DEF Goto, db
    <3>2. n.job = w.job /\ n.video = w.video /\ n.step = w.step
      BY DEF TypeOK
    <3> HIDE DEF n
    <3>3. QED
      BY <3>1, <3>2 DEF WorkMatchesJobs
  <2>2. ASSUME NEW state \in {"succeeded", "failed"}, CloseJob(w.job, state), work' = work \ {w}
        PROVE  WorkMatchesJobs'
    <3>1. jobs[w.job] # NoJob
      BY DEF WorkMatchesJobs
    <3>2. \A u \in work' : u \in work /\ u.job \in Jobs /\ u.job # w.job
      BY <2>2, WorkTypes DEF WorkMatchesJobs
    <3>3. \A u \in work' : jobs'[u.job] = jobs[u.job]
      BY <2>2, <3>1, <3>2, ClosingStopsOneJob
    <3>4. QED
      BY <3>2, <3>3 DEF WorkMatchesJobs
  <2>3. QED
    BY <1>3, <2>1, <2>2, ExecuteShapes
<1>4. ASSUME NEW a \in Apis, Recover(a)
      PROVE  WorkMatchesJobs'
  <2>1. CASE MarkRunningAsInterrupted(a)
    <3>1. work = {} /\ work' = work
      BY <2>1, NoWorkBeforeServing DEF MarkRunningAsInterrupted
    <3>2. QED
      BY <3>1 DEF WorkMatchesJobs
  <2>2. QED
    BY <1>1, <1>4, <2>1 DEF Recover, Boot, ListInProgress, RecoverVideo, Serve, db
<1>5. ASSUME NEW a \in Apis, Crash(a)
      PROVE  WorkMatchesJobs'
  BY <1>5 DEF Crash, db, WorkMatchesJobs
<1> HIDE DEF WorkInv, ReviewInv, TypeInv
<1>6. QED
  BY <1>1, <1>2, <1>3, <1>4, <1>5, StartShapes, PersonShape DEF Next, vars, db

-----------------------------------------------------------------------------
(* A step that starts no job and leaves the videos of running jobs alone.  *)
LEMMA QuietStepsKeepHold ==
  ASSUME RunningJobHoldsVideo, OneRunningJobPerVideo,
         \A k \in Jobs : jobs'[k].state = "running" =>
           jobs'[k] = jobs[k] /\ videos'[jobs[k].video] = videos[jobs[k].video]
  PROVE  RunningJobHoldsVideo' /\ OneRunningJobPerVideo'
BY DEF RunningJobHoldsVideo, OneRunningJobPerVideo

LEMMA HoldIsKept ==
  ASSUME SingleApi, WorkInv, [Next]_vars
  PROVE  RunningJobHoldsVideo' /\ OneRunningJobPerVideo'
<1> DEFINE Goal == RunningJobHoldsVideo' /\ OneRunningJobPerVideo'
<1> USE DEF WorkInv, ReviewInv, TypeInv
<1>1. CASE UNCHANGED <<videos, jobs>>
  BY <1>1, QuietStepsKeepHold
<1>2. ASSUME NEW v \in Videos, Person(v)
      PROVE  Goal
  <2>1. \A k \in Jobs : jobs[k].state = "running" =>
          jobs[k].video \in Videos /\ videos[jobs[k].video].status \in RunningStatuses
    BY WorkTypes DEF RunningJobHoldsVideo, RunningStatuses
  <2>2. \A k \in Jobs : jobs[k].state = "running" =>
          videos'[jobs[k].video] = videos[jobs[k].video]
    BY <1>2, <2>1, PeopleLeaveRunningRows
  <2>3. QED
    BY <1>2, <2>2, PersonShape, QuietStepsKeepHold
<1>3. ASSUME NEW r \in requests, NEW j \in Jobs, StartClaim(r, j)
      PROVE  Goal
  <2> DEFINE row == Transition(videos[r.video], r.step.running)
             job == [state |-> "running", video |-> r.video,
                     step |-> r.step, startedAt |-> r.startedAt]
  <2>1. r.video \in Videos
    BY WorkTypes
  <2>2. videos' = [videos EXCEPT ![r.video] = row] /\ jobs' = [jobs EXCEPT ![j] = job]
    BY <1>3 DEF StartClaim, ClaimAs
  <2>3. row.status = r.step.running
    BY <1>3, <2>1, MovableExists DEF StartClaim, ClaimAs, Transition, Video
  <2>4. job.video = r.video /\ job.step = r.step
    OBVIOUS
  <2>5. \A k \in Jobs : jobs[k].state = "running" =>
          jobs[k].video \in Videos /\ jobs[k].video # r.video
    BY <1>3, WorkTypes, ClaimNeedsAnIdleVideo
  <2>6. jobs'[j] = job /\ \A k \in Jobs : k # j => jobs'[k] = jobs[k]
    BY <2>2 DEF TypeOK
  <2>7. /\ videos'[r.video] = row
        /\ \A v \in Videos : v # r.video => videos'[v] = videos[v]
    BY <2>1, <2>2 DEF TypeOK
  <2> HIDE DEF row, job
  <2>8. RunningJobHoldsVideo'
    BY <2>3, <2>4, <2>5, <2>6, <2>7 DEF RunningJobHoldsVideo
  <2>9. OneRunningJobPerVideo'
    BY <2>4, <2>5, <2>6 DEF OneRunningJobPerVideo
  <2>10. QED
    BY <2>8, <2>9
<1>4. ASSUME NEW w \in work, Execute(w)
      PROVE  Goal
  <2>1. CASE \E pc : Goto(w, pc)
    BY <1>1, <2>1 DEF Goto, db
  <2>2. ASSUME NEW row, videos' = [videos EXCEPT ![w.video] = row],
               NEW state \in {"succeeded", "failed"}, CloseJob(w.job, state)
        PROVE  Goal
    <3>1. w.job \in Jobs /\ jobs[w.job].state = "running" /\ jobs[w.job].video = w.video
          /\ jobs[w.job] # NoJob
      BY WorkTypes DEF WorkMatchesJobs
    <3>2. jobs'[w.job].state # "running" /\ \A k \in Jobs : k # w.job => jobs'[k] = jobs[k]
      BY <2>2, <3>1, ClosingStopsOneJob
    <3>3. \A k \in Jobs : k # w.job /\ jobs[k].state = "running" =>
            jobs[k].video \in Videos /\ jobs[k].video # w.video
      BY <3>1, WorkTypes DEF OneRunningJobPerVideo
    <3>4. \A v \in Videos : v # w.video => videos'[v] = videos[v]
      BY <2>2 DEF TypeOK
    <3>5. QED
      BY <3>2, <3>3, <3>4, QuietStepsKeepHold
  <2>3. QED
    BY <1>4, <2>1, <2>2, ExecuteShapes
<1>5. ASSUME NEW a \in Apis, Recover(a)
      PROVE  Goal
  <2>1. CASE MarkRunningAsInterrupted(a)
    <3>1. \A k \in Jobs : jobs'[k].state # "running"
      <4>1. \A k \in Jobs : jobs[k].state = "running" =>
              [jobs[k] EXCEPT !.state = "interrupted"].state # "running"
        BY DEF TypeOK, NoJob
      <4>2. QED
        BY <2>1, <4>1 DEF MarkRunningAsInterrupted
    <3>2. QED
      BY <3>1, QuietStepsKeepHold
  <2>2. ASSUME NEW e \in listed[a], RecoverVideo(a, e)
        PROVE  Goal
    <3>1. work = {} /\ phase[a] = "recovering" /\ jobs' = jobs
      BY <2>2, NoWorkBeforeServing DEF RecoverVideo
    <3>2. \A k \in Jobs : jobs'[k].state # "running"
      BY <3>1 DEF RunningJobsAreReal
    <3>3. QED
      BY <3>2, QuietStepsKeepHold
  <2>3. QED
    BY <1>1, <1>5, <2>1, <2>2 DEF Recover, Boot, ListInProgress, Serve, db
<1> HIDE DEF WorkInv, ReviewInv, TypeInv
<1>6. QED
  BY <1>1, <1>2, <1>3, <1>4, <1>5, StartShapes DEF Next, Crash, vars, db

-----------------------------------------------------------------------------
LEMMA RunningStaysReal ==
  ASSUME SingleApi, WorkInv, [Next]_vars
  PROVE  RunningJobsAreReal'
<1> USE DEF WorkInv, ReviewInv, TypeInv
<1>1. CASE UNCHANGED <<jobs, phase, work>>
  BY <1>1 DEF RunningJobsAreReal
<1>2. ASSUME NEW r \in requests, NEW j \in Jobs, StartClaim(r, j)
      PROVE  RunningJobsAreReal'
  <2> DEFINE job == [state |-> "running", video |-> r.video,
                     step |-> r.step, startedAt |-> r.startedAt]
             n == [job |-> j, api |-> r.api, video |-> r.video,
                   step |-> r.step, pc |-> "loading"]
  <2>1. jobs' = [jobs EXCEPT ![j] = job] /\ work' = work \cup {n} /\ phase' = phase
    BY <1>2 DEF StartClaim, ClaimAs
  <2>2. jobs'[j] = job /\ \A k \in Jobs : k # j => jobs'[k] = jobs[k]
    BY <2>1 DEF TypeOK
  <2>3. job.state = "running" /\ n.job = j
    OBVIOUS
  <2> HIDE DEF job, n
  <2>4. QED
    BY <2>1, <2>2, <2>3 DEF RunningJobsAreReal
<1>3. ASSUME NEW w \in work, Execute(w)
      PROVE  RunningJobsAreReal'
  <2>1. ASSUME NEW pc, Goto(w, pc)
        PROVE  RunningJobsAreReal'
    <3> DEFINE n == [w EXCEPT !.pc = pc]
    <3>1. jobs' = jobs /\ phase' = phase /\ work' = (work \ {w}) \cup {n}
      BY <2>1 DEF Goto, db
    <3>2. n.job = w.job
      BY DEF TypeOK
    <3> HIDE DEF n
    <3>3. QED
      BY <3>1, <3>2 DEF RunningJobsAreReal
  <2>2. ASSUME NEW state \in {"succeeded", "failed"}, CloseJob(w.job, state),
               work' = work \ {w}, phase' = phase
        PROVE  RunningJobsAreReal'
    <3>1. jobs[w.job] # NoJob
      BY DEF WorkMatchesJobs
    <3>2. jobs'[w.job].state # "running" /\ \A k \in Jobs : k # w.job => jobs'[k] = jobs[k]
      BY <2>2, <3>1, ClosingStopsOneJob
    <3>3. \A u \in work' : u.job # w.job
      BY <2>2 DEF WorkMatchesJobs
    <3>4. \A k \in Jobs : k # w.job =>
            ((\E u \in work' : u.job = k) <=> (\E u \in work : u.job = k))
      BY <2>2
    <3>5. QED
      BY <2>2, <3>2, <3>3, <3>4 DEF RunningJobsAreReal
  <2>3. QED
    BY <1>3, <2>1, <2>2, ExecuteShapes
<1>4. ASSUME NEW a \in Apis, Recover(a)
      PROVE  RunningJobsAreReal'
  <2>1. \A b \in Apis : b = a
    BY DEF SingleApi
  <2>2. CASE Boot(a)
    BY <2>1, <2>2 DEF Boot, TypeOK, RunningJobsAreReal
  <2>3. CASE MarkRunningAsInterrupted(a)
    <3>1. work' = {}
      BY <2>3, NoWorkBeforeServing DEF MarkRunningAsInterrupted
    <3>2. \A k \in Jobs : jobs[k].state = "running" =>
            [jobs[k] EXCEPT !.state = "interrupted"].state # "running"
      BY DEF TypeOK, NoJob
    <3>3. \A k \in Jobs : jobs'[k].state # "running"
      BY <2>3, <3>2 DEF MarkRunningAsInterrupted
    <3>4. QED
      BY <3>1, <3>3 DEF RunningJobsAreReal
  <2>4. CASE ListInProgress(a) \/ Serve(a) \/ \E e \in listed[a] : RecoverVideo(a, e)
    <3>1. UNCHANGED <<jobs, work>> /\ phase[a] \in {"listing", "recovering"}
      BY <2>4 DEF ListInProgress, Serve, RecoverVideo, db
    <3>2. \A j \in Jobs : jobs[j].state = "running" <=> \E w \in work : w.job = j
      BY <3>1 DEF RunningJobsAreReal
    <3>3. QED
      BY <3>1, <3>2 DEF RunningJobsAreReal
  <2>5. QED
    BY <1>4, <2>2, <2>3, <2>4 DEF Recover
<1>5. ASSUME NEW a \in Apis, Crash(a)
      PROVE  RunningJobsAreReal'
  BY <1>5 DEF SingleApi, Crash, TypeOK, RunningJobsAreReal
<1> HIDE DEF WorkInv, ReviewInv, TypeInv
<1>6. QED
  BY <1>1, <1>2, <1>3, <1>4, <1>5, StartShapes, PersonShape DEF Next, vars, db

-----------------------------------------------------------------------------
LEMMA InitHoldsNoWork == Init => WorkInv
<1> SUFFICES ASSUME Init PROVE WorkInv
  OBVIOUS
<1>1. work = {} /\ \A j \in Jobs : jobs[j].state # "running"
  BY DEF Init, NoJob
<1>2. QED
  BY <1>1, InitIsReviewable
     DEF WorkInv, WorkMatchesJobs, RunningJobHoldsVideo, OneRunningJobPerVideo, RunningJobsAreReal

LEMMA NextKeepsWorkInv == SingleApi /\ WorkInv /\ [Next]_vars => WorkInv'
BY NextIsReviewable, WorkStaysMatched, HoldIsKept, RunningStaysReal DEF WorkInv

(* With one server, goroutines, running jobs and working videos stay in    *)
(* step through every crash, fault, decision and concurrent Start.         *)
THEOREM WorkIsTracked ==
  ASSUME SingleApi
  PROVE  Spec => []WorkInv
<1>1. WorkInv /\ [Next]_vars => WorkInv'
  BY NextKeepsWorkInv
<1>2. QED
  BY <1>1, InitHoldsNoWork, PTL DEF Spec

(* With one server, at most one goroutine ever works on a video, whatever  *)
(* the number of overlapping Start requests.                               *)
THEOREM NoTwoWorkers ==
  ASSUME SingleApi
  PROVE  Spec => []OneWorkerPerVideo
<1>1. WorkInv => OneWorkerPerVideo
  <2> SUFFICES ASSUME WorkInv, NEW w1 \in work, NEW w2 \in work, w1.video = w2.video
               PROVE  w1 = w2
    BY DEF OneWorkerPerVideo, Live
  <2>1. w1.job \in Jobs /\ w2.job \in Jobs
    BY WorkTypes DEF WorkInv, ReviewInv, TypeInv
  <2>2. w1.job = w2.job
    BY <2>1 DEF WorkInv, WorkMatchesJobs, OneRunningJobPerVideo
  <2>3. QED
    BY <2>2 DEF WorkInv, WorkMatchesJobs
<1>2. QED
  BY <1>1, WorkIsTracked, PTL

(* With one server, no decision, second Start or recovery takes a video    *)
(* out of its working status while a goroutine works on it.                *)
THEOREM WorkersKeepTheirVideo ==
  ASSUME SingleApi
  PROVE  Spec => []WorkerHoldsVideo
<1>1. WorkInv => WorkerHoldsVideo
  <2> SUFFICES ASSUME WorkInv, NEW w \in work
               PROVE  Position(videos[w.video]) = w.step.running
    BY DEF WorkerHoldsVideo, Live
  <2>1. w.job \in Jobs /\ w.step \in Steps
    BY WorkTypes DEF WorkInv, ReviewInv, TypeInv
  <2>2. videos[w.video].status = w.step.running
    BY <2>1 DEF WorkInv, WorkMatchesJobs, RunningJobHoldsVideo
  <2>3. QED
    BY <2>1, <2>2, StepsAssumption DEF Registers, Position
<1>2. QED
  BY <1>1, WorkIsTracked, PTL

(* With one server that has recovered, the running jobs are exactly the    *)
(* jobs of its goroutines: recovery leaves no lie behind.                  *)
THEOREM RunningMeansRunning ==
  ASSUME SingleApi
  PROVE  Spec => []RunningJobsAreReal
<1>1. WorkInv => RunningJobsAreReal
  BY DEF WorkInv
<1>2. QED
  BY <1>1, WorkIsTracked, PTL

-----------------------------------------------------------------------------
(* The review process.  With one server per database the pipeline          *)
(* implements HumanGates: every step of a server maps to a stutter, every  *)
(* decision of a person to the review step of the same name.               *)

(* The instance's tables are this module's tables. *)
LEMMA SameTables ==
  /\ Review!gates = gates /\ Review!Gate = Gate
  /\ Review!NoGate = NoGate /\ Review!NoStatus = NoStatus
  /\ Review!Status = Status /\ Review!PipelineStatus = PipelineStatus
  /\ \A a, b : Review!IsEarlier(a, b) <=> IsEarlier(a, b)
  /\ \A s : Review!GatesBehind(s) = GatesBehind(s)
BY DEF Review!gates, gates, Review!Gate, Gate, Review!NoGate, NoGate, Review!NoStatus, NoStatus,
       Review!Status, Status, Review!PipelineStatus, PipelineStatus, Review!orderIndex, orderIndex,
       Review!IsEarlier, IsEarlier, Review!GatesBehind, GatesBehind

LEMMA InitIsReviewInit == Init => Review!Init
<1> SUFFICES ASSUME Init PROVE Review!Init
  OBVIOUS
<1>1. \A v \in Videos : Past(v) = {}
  BY NothingBehindTheStart DEF Init, Past, Position, NoRow, NoStatus
<1>2. QED
  BY <1>1 DEF Init, Review!Init

(* A step that records nothing and moves no video over a gate. *)
LEMMA Stutters ==
  ASSUME log' = log, \A v \in Videos : Past(v)' = Past(v)
  PROVE  UNCHANGED Review!vars
BY DEF Review!vars

LEMMA UnchangedVideosStutter ==
  ASSUME UNCHANGED <<videos, log>>
  PROVE  UNCHANGED Review!vars
BY Stutters DEF Past

(* A decision's log entry is the entry the review process records. *)
LEMMA DecisionsAreRecorded ==
  ASSUME NEW v \in Videos, NEW row, NEW action, NEW gate, Decide(v, row, action, gate)
  PROVE  Review!Record(v, action, gate, videos[v].status, row.status)
BY DEF Decide, LogEntry, Review!Record

(* A decision moves one video. *)
LEMMA DecisionsMoveOneVideo ==
  ASSUME TypeOK, NEW v \in Videos, NEW row, NEW action, NEW gate, Decide(v, row, action, gate)
  PROVE  [u \in Videos |-> Past(u)]' =
           [[u \in Videos |-> Past(u)] EXCEPT ![v] = GatesBehind(Position(row))]
<1>1. videos'[v] = row /\ \A u \in Videos : u # v => videos'[u] = videos[u]
  BY DEF Decide, LogEntry, TypeOK
<1>2. QED
  BY <1>1 DEF Past

LEMMA PersonIsReviewed ==
  ASSUME ReviewInv, NEW v \in Videos, Person(v)
  PROVE  Review!Next
<1> USE DEF ReviewInv, TypeInv
<1>1. CASE AddVideo(v)
  <2>1. videos[v].status = NoStatus /\ Past(v) = {}
    <3>1. videos[v] = NoRow
      BY <1>1 DEF AddVideo, Exists
    <3>2. videos[v].status = NoStatus
      BY <3>1 DEF NoRow
    <3>3. NoStatus # "error"
      BY DEF NoStatus
    <3>4. QED
      BY <3>2, <3>3, NothingBehindTheStart DEF Past, Position
  <2>2. NewVideo.status = "queued" /\ GatesBehind(Position(NewVideo)) = {}
    BY NothingBehindTheStart DEF NewVideo, Position
  <2>3. Decide(v, NewVideo, "create", NoGate)
    BY <1>1 DEF AddVideo
  <2>4. Review!Record(v, "create", NoGate, NoStatus, "queued")
    BY <2>1, <2>2, <2>3, DecisionsAreRecorded
  <2>5. \A u \in Videos : Past(u)' = Past(u)
    BY <2>1, <2>2, <2>3, DecisionsMoveOneVideo
  <2>6. Review!Queue(v)
    BY <2>4, <2>5, SameTables DEF Review!Queue
  <2>7. QED
    BY <2>6 DEF Review!Next
<1>2. ASSUME NEW g \in Gate, Approve(v, g)
      PROVE  Review!Next
  <2> DEFINE row == ApproveGate(videos[v], g)
  <2>1. videos[v].status = gates[g].from /\ gates[g].from \in PipelineStatus
    BY <1>2, TablesNameStatuses DEF Approve, CanApproveGate, AwaitsGate
  <2>2. videos[v] \in Video
    BY <2>1, RowsWithAStatus, TablesNameStatuses DEF Status
  <2>3. row.status = gates[g].to
    BY <2>2 DEF ApproveGate, Video
  <2>4. Position(row) = gates[g].to /\ Position(videos[v]) = gates[g].from
    BY <2>1, <2>3, TablesNameStatuses DEF Position
  <2>5. Decide(v, row, "approve", g)
    BY <1>2 DEF Approve
  <2> HIDE DEF row
  <2>6. Review!Record(v, "approve", g, gates[g].from, gates[g].to)
    BY <2>1, <2>3, <2>5, DecisionsAreRecorded
  <2>7. Past(v) = GatesBehind(gates[g].from)
    BY <2>4 DEF Past
  <2>8. [u \in Videos |-> Past(u)]' =
          [[u \in Videos |-> Past(u)] EXCEPT ![v] = @ \cup {g}]
    BY <2>4, <2>5, <2>7, DecisionsMoveOneVideo, ApprovalAddsItsGate
  <2>9. Review!Approve(v, g)
    BY <2>6, <2>7, <2>8, SameTables DEF Review!Approve
  <2>10. QED
    BY <2>9, SameTables DEF Review!Next
<1>3. ASSUME NEW g \in Gate, NEW backTo \in PipelineStatus, Reject(v, g, backTo)
      PROVE  Review!Next
  <2> DEFINE row == RejectGate(videos[v], g, backTo)
  <2>1. videos[v].status = gates[g].from /\ gates[g].from \in PipelineStatus
        /\ IsEarlier(backTo, gates[g].from)
    BY <1>3, TablesNameStatuses DEF Reject, CanRejectGate, AwaitsGate
  <2>2. videos[v] \in Video
    BY <2>1, RowsWithAStatus, TablesNameStatuses DEF Status
  <2>3. row.status = backTo
    BY <2>2 DEF RejectGate, Video
  <2>4. Position(row) = backTo /\ Position(videos[v]) = gates[g].from
    BY <2>1, <2>3, TablesNameStatuses DEF Position
  <2>5. Decide(v, row, "reject", g)
    BY <1>3 DEF Reject
  <2> HIDE DEF row
  <2>6. Review!Record(v, "reject", g, gates[g].from, backTo)
    BY <2>1, <2>3, <2>5, DecisionsAreRecorded
  <2>7. Past(v) = GatesBehind(gates[g].from)
    BY <2>4 DEF Past
  <2>8. [u \in Videos |-> Past(u)]' =
          [[u \in Videos |-> Past(u)] EXCEPT ![v] = GatesBehind(backTo)]
    BY <2>4, <2>5, DecisionsMoveOneVideo
  <2>9. Review!SendBack(v, g, backTo)
    BY <2>1, <2>6, <2>7, <2>8, SameTables DEF Review!SendBack
  <2>10. QED
    BY <2>9, SameTables DEF Review!Next
<1>4. CASE RetryVideo(v)
  <2> DEFINE row == Retry(videos[v])
  <2>1. videos[v].status = "error"
    BY <1>4 DEF RetryVideo, CanRetry
  <2>2. videos[v] \in Video /\ videos[v].retryFrom \in PipelineStatus
    <3>1. videos[v].status # NoStatus
      BY <2>1 DEF NoStatus
    <3>2. QED
      BY <2>1, <3>1, RowsWithAStatus DEF FailedVideosResume
  <2>3. Position(row) = Position(videos[v]) /\ row.status \in PipelineStatus
    BY <2>1, <2>2, RetryKeepsPosition
  <2>4. Decide(v, row, "retry", NoGate)
    BY <1>4 DEF RetryVideo
  <2> HIDE DEF row
  <2>5. Review!Record(v, "retry", NoGate, "error", row.status)
    BY <2>1, <2>4, DecisionsAreRecorded
  <2>6. \A u \in Videos : Past(u)' = Past(u)
    <3>1. GatesBehind(Position(row)) = Past(v)
      BY <2>3 DEF Past
    <3>2. [u \in Videos |-> Past(u)]' = [u \in Videos |-> Past(u)]
      BY <2>4, <3>1, DecisionsMoveOneVideo
    <3>3. QED
      BY <3>2
  <2>7. Review!Resume(v, row.status)
    BY <2>5, <2>6, SameTables DEF Review!Resume
  <2>8. QED
    BY <2>3, <2>7, SameTables DEF Review!Next
<1>5. QED
  BY <1>1, <1>2, <1>3, <1>4 DEF Person

(* One row changes and stays beyond the same gates. *)
LEMMA MovesWithinALegStutter ==
  ASSUME TypeOK, log' = log, NEW v \in Videos, NEW row,
         videos' = [videos EXCEPT ![v] = row],
         GatesBehind(Position(row)) = GatesBehind(Position(videos[v]))
  PROVE  UNCHANGED Review!vars
<1>1. videos'[v] = row /\ \A u \in Videos : u # v => videos'[u] = videos[u]
  BY DEF TypeOK
<1>2. \A u \in Videos : Past(u)' = Past(u)
  BY <1>1 DEF Past
<1>3. QED
  BY <1>2, Stutters

(* A transition moves a video along one leg of a step, over no gate. *)
LEMMA TransitionsKeepGates ==
  ASSUME NEW v \in Video, NEW to \in PipelineStatus, CanMove(v, to)
  PROVE  GatesBehind(Position(Transition(v, to))) = GatesBehind(Position(v))
<1>1. to # "error" /\ v.status # "error" /\ CanTransition(v.status, to)
  BY TablesNameStatuses DEF CanMove
<1>2. Position(Transition(v, to)) = to /\ Position(v) = v.status
  BY <1>1 DEF Position, Transition, Video
<1>3. QED
  BY <1>1, <1>2, AutomaticKeepsGates

LEMMA NextIsReviewNext == ReviewInv /\ [Next]_vars => [Review!Next]_(Review!vars)
<1> SUFFICES ASSUME ReviewInv, [Next]_vars PROVE [Review!Next]_(Review!vars)
  OBVIOUS
<1>1. ASSUME NEW v \in Videos, Person(v)
      PROVE  Review!Next
  BY <1>1, PersonIsReviewed
<1>2. CASE Start
  <2>1. ASSUME NEW r \in requests, NEW j \in Jobs, StartClaim(r, j)
        PROVE  UNCHANGED Review!vars
    <3>1. r.video \in Videos /\ r.step \in Steps
      BY DEF ReviewInv, TypeInv, TypeOK
    <3>2. CanMove(videos[r.video], r.step.running) /\ videos[r.video] \in Video
      BY <2>1, <3>1, MovableExists DEF StartClaim, ClaimAs, ReviewInv, TypeInv
    <3>3. r.step.running \in PipelineStatus
      BY <3>1, StepStatuses
    <3>4. QED
      BY <2>1, <3>1, <3>2, <3>3, TransitionsKeepGates, MovesWithinALegStutter
         DEF StartClaim, ClaimAs, ReviewInv, TypeInv
  <2>2. CASE UNCHANGED <<videos, log>>
    BY <2>2, UnchangedVideosStutter
  <2>3. QED
    BY <1>2, <2>1, <2>2 DEF Start, Claim, StartRead, StartRefused, StartChecked, StartFailed, db
<1>3. ASSUME NEW w \in work, Execute(w)
      PROVE  UNCHANGED Review!vars
  <2>1. w.video \in Videos /\ w.step \in Steps /\ videos[w.video] \in Video
    BY RowsWithAStatus DEF ReviewInv, TypeInv, TypeOK, ClaimsAreOnRecord
  <2>2. CASE Finish(w)
    <3>1. w.step.to \in PipelineStatus
      BY <2>1, StepStatuses
    <3>2. QED
      BY <2>1, <2>2, <3>1, TransitionsKeepGates, MovesWithinALegStutter
         DEF Finish, ReviewInv, TypeInv
  <2>3. CASE RecordFailure(w)
    BY <2>1, <2>3, FailKeepsPosition, MovesWithinALegStutter
       DEF RecordFailure, ReviewInv, TypeInv
  <2>4. CASE UNCHANGED <<videos, log>>
    BY <2>4, UnchangedVideosStutter
  <2>5. QED
    BY <1>3, <2>2, <2>3, <2>4
       DEF Execute, Load, LoadFailed, RunReturns, RunFails, FinishFailed, FailureLost, Goto, db
<1>4. ASSUME NEW a \in Apis, Recover(a)
      PROVE  UNCHANGED Review!vars
  <2>1. ASSUME NEW e \in listed[a], RecoverVideo(a, e)
        PROVE  UNCHANGED Review!vars
    <3>1. e.video \in Videos /\ e.row \in Video /\ e.row = videos[e.video]
      BY DEF ReviewInv, TypeInv, TypeOK, ListedRowsAreFresh
    <3>2. QED
      BY <2>1, <3>1, FailKeepsPosition, MovesWithinALegStutter
         DEF RecoverVideo, ReviewInv, TypeInv
  <2>2. CASE UNCHANGED <<videos, log>>
    BY <2>2, UnchangedVideosStutter
  <2>3. QED
    BY <1>4, <2>1, <2>2 DEF Recover, Boot, MarkRunningAsInterrupted, ListInProgress, Serve, db
<1>5. CASE UNCHANGED <<videos, log>>
  BY <1>5, UnchangedVideosStutter
<1>6. QED
  BY <1>1, <1>2, <1>3, <1>4, <1>5 DEF Next, Crash, db, vars

(* With one server, no goroutine, recovery, crash, retry or refused request *)
(* ever moves a video over a gate: only approvals and rejections do, one    *)
(* gate at a time, each with its log entry.                                 *)
THEOREM PipelineIsReviewed ==
  ASSUME SingleApi
  PROVE  Spec => ImplementsReview
<1>1. ReviewInv /\ [Next]_vars => [Review!Next]_(Review!vars)
  BY NextIsReviewNext
<1>2. Spec => []ReviewInv
  BY RecoveryIsSafe
<1>3. QED
  BY <1>1, <1>2, InitIsReviewInit, PTL DEF Spec, ImplementsReview, Review!Spec

-----------------------------------------------------------------------------
(* The review process keeps its promise: its ledger and its gates agree.   *)

(* What one more entry does to the standing of an approval. *)
LEMMA StandingAfterAppend ==
  ASSUME NEW l \in Seq(Review!Entry), NEW e \in Review!Entry, NEW g \in Gate
  PROVE  Review!StandsApproved(Append(l, e), g) <=>
           \/ e.action = "approve" /\ e.gate = g
           \/ Review!StandsApproved(l, g) /\ ~Review!Withdraws(e, g)
<1> DEFINE m == Append(l, e)
<1>1. /\ Len(m) = Len(l) + 1
      /\ Len(l) \in Nat
      /\ m[Len(m)] = e
      /\ \A i \in 1..Len(l) : m[i] = l[i]
  OBVIOUS
<1>2. ASSUME Review!StandsApproved(m, g), ~(e.action = "approve" /\ e.gate = g)
      PROVE  Review!StandsApproved(l, g) /\ ~Review!Withdraws(e, g)
  <2>1. PICK i \in 1..Len(m) : /\ m[i].action = "approve"
                               /\ m[i].gate = g
                               /\ \A j \in (i+1)..Len(m) : ~Review!Withdraws(m[j], g)
    BY <1>2 DEF Review!StandsApproved
  <2>2. i \in 1..Len(l)
    BY <1>1, <1>2, <2>1
  <2>3. ~Review!Withdraws(e, g)
    BY <1>1, <2>1, <2>2
  <2>4. \A j \in (i+1)..Len(l) : ~Review!Withdraws(l[j], g)
    BY <1>1, <2>1, <2>2
  <2>5. QED
    BY <1>1, <2>1, <2>2, <2>3, <2>4 DEF Review!StandsApproved
<1>3. ASSUME e.action = "approve" /\ e.gate = g
      PROVE  Review!StandsApproved(m, g)
  BY <1>1, <1>3 DEF Review!StandsApproved
<1>4. ASSUME Review!StandsApproved(l, g), ~Review!Withdraws(e, g)
      PROVE  Review!StandsApproved(m, g)
  <2>1. PICK i \in 1..Len(l) : /\ l[i].action = "approve"
                               /\ l[i].gate = g
                               /\ \A j \in (i+1)..Len(l) : ~Review!Withdraws(l[j], g)
    BY <1>4 DEF Review!StandsApproved
  <2>2. \A j \in (i+1)..Len(m) : ~Review!Withdraws(m[j], g)
    <3> SUFFICES ASSUME NEW j \in (i+1)..Len(m) PROVE ~Review!Withdraws(m[j], g)
      OBVIOUS
    <3>1. CASE j = Len(m)
      BY <1>1, <1>4, <3>1
    <3>2. CASE j # Len(m)
      BY <1>1, <2>1, <3>2
    <3>3. QED
      BY <3>1, <3>2
  <2>3. QED
    BY <1>1, <2>1, <2>2 DEF Review!StandsApproved
<1>5. QED
  BY <1>2, <1>3, <1>4

(* A rejection back to a status leaves exactly the gates behind it standing. *)
LEMMA RejectionWithdraws ==
  ASSUME NEW e, NEW g \in Gate, e.action = "reject"
  PROVE  ~Review!Withdraws(e, g) <=> g \in GatesBehind(e.to)
BY SameTables DEF Review!Withdraws, GatesBehind

-----------------------------------------------------------------------------
(* What is proved of the review process holds of the pipeline.             *)

Passed == [v \in Videos |-> Past(v)]

LedgerInv == Review!TypeOK /\ Review!LedgerTellsPosition

LEMMA LedgerInvMeans ==
  LedgerInv <=>
    /\ Passed \in [Videos -> SUBSET Gate]
    /\ log \in [Videos -> Seq(Review!Entry)]
    /\ \A v \in Videos : Passed[v] = {g \in Gate : Review!StandsApproved(log[v], g)}
BY SameTables DEF LedgerInv, Review!TypeOK, Review!LedgerTellsPosition, Passed

LEMMA LedgerInvWillMean ==
  LedgerInv' <=>
    /\ Passed' \in [Videos -> SUBSET Gate]
    /\ log' \in [Videos -> Seq(Review!Entry)]
    /\ \A v \in Videos : Passed'[v] = {g \in Gate : Review!StandsApproved(log'[v], g)}
BY SameTables DEF LedgerInv, Review!TypeOK, Review!LedgerTellsPosition, Passed

LEMMA InitHasNoLedger == Review!Init => LedgerInv
<1> SUFFICES ASSUME Review!Init PROVE LedgerInv
  OBVIOUS
<1>1. Passed = [v \in Videos |-> {}] /\ log = [v \in Videos |-> <<>>]
  BY DEF Review!Init, Passed
<1>2. \A v \in Videos, g \in Gate : ~Review!StandsApproved(log[v], g)
  BY <1>1 DEF Review!StandsApproved
<1>3. QED
  BY <1>1, <1>2, LedgerInvMeans

(* One entry e appended for v, and the gates of v adjusted to it. *)
LEMMA RecordKeepsLedgerInv ==
  ASSUME LedgerInv, NEW v \in Videos, NEW e \in Review!Entry,
         log' = [log EXCEPT ![v] = Append(@, e)],
         Passed' \in [Videos -> SUBSET Gate],
         \A u \in Videos \ {v} : Passed'[u] = Passed[u],
         \A g \in Gate : g \in Passed'[v] <=>
           \/ e.action = "approve" /\ e.gate = g
           \/ g \in Passed[v] /\ ~Review!Withdraws(e, g)
  PROVE  LedgerInv'
<1> USE LedgerInvMeans
<1>1. log' \in [Videos -> Seq(Review!Entry)]
  <2>1. Append(log[v], e) \in Seq(Review!Entry)
    OBVIOUS
  <2>2. QED
    BY <2>1
<1>2. ASSUME NEW u \in Videos
      PROVE  Passed'[u] = {g \in Gate : Review!StandsApproved(log'[u], g)}
  <2>1. CASE u # v
    BY <2>1
  <2>2. CASE u = v
    <3>1. log'[v] = Append(log[v], e) /\ log[v] \in Seq(Review!Entry)
      OBVIOUS
    <3>2. \A g \in Gate : Review!StandsApproved(log'[v], g) <=>
            \/ e.action = "approve" /\ e.gate = g
            \/ Review!StandsApproved(log[v], g) /\ ~Review!Withdraws(e, g)
      BY <3>1, StandingAfterAppend
    <3>3. \A g \in Gate : Review!StandsApproved(log[v], g) <=> g \in Passed[v]
      OBVIOUS
    <3>4. \A g \in Gate : Review!StandsApproved(log'[v], g) <=> g \in Passed'[v]
      BY <3>2, <3>3
    <3>5. QED
      BY <2>2, <3>4
  <2>3. QED
    BY <2>1, <2>2
<1>3. QED
  BY <1>1, <1>2, LedgerInvWillMean

LEMMA NextKeepsLedgerInv == LedgerInv /\ [Review!Next]_(Review!vars) => LedgerInv'
<1> SUFFICES ASSUME LedgerInv, [Review!Next]_(Review!vars) PROVE LedgerInv'
  OBVIOUS
<1> USE TablesNameStatuses, SameTables
<1>0. /\ Passed \in [Videos -> SUBSET Gate]
      /\ log \in [Videos -> Seq(Review!Entry)]
  BY LedgerInvMeans
<1>1. ASSUME NEW v \in Videos, NEW g \in Gate, Review!Approve(v, g)
      PROVE  LedgerInv'
  <2> DEFINE e == [action |-> "approve", gate |-> g,
                   from |-> gates[g].from, to |-> gates[g].to]
  <2>1. e \in Review!Entry
    BY DEF Review!Entry, Status, PipelineStatus
  <2>2. log' = [log EXCEPT ![v] = Append(@, e)]
    BY <1>1 DEF Review!Approve, Review!Record
  <2>3. Passed' = [Passed EXCEPT ![v] = @ \cup {g}]
    BY <1>1 DEF Review!Approve, Passed
  <2>4. \A h \in Gate : ~Review!Withdraws(e, h)
    BY DEF Review!Withdraws
  <2>5. QED
    BY <1>0, <2>1, <2>2, <2>3, <2>4, RecordKeepsLedgerInv
<1>2. ASSUME NEW v \in Videos, NEW g \in Gate, NEW backTo \in PipelineStatus,
             Review!SendBack(v, g, backTo)
      PROVE  LedgerInv'
  <2> DEFINE e == [action |-> "reject", gate |-> g,
                   from |-> gates[g].from, to |-> backTo]
  <2>1. e \in Review!Entry
    BY DEF Review!Entry, Status, PipelineStatus
  <2>2. log' = [log EXCEPT ![v] = Append(@, e)]
    BY <1>2 DEF Review!SendBack, Review!Record
  <2>3. Passed' = [Passed EXCEPT ![v] = GatesBehind(backTo)]
    BY <1>2 DEF Review!SendBack, Passed
  <2>4. GatesBehind(backTo) \subseteq Passed[v]
    BY <1>2, EarlierIsBehindFewer DEF Review!SendBack, Passed
  <2>5. \A h \in Gate : ~Review!Withdraws(e, h) <=> h \in GatesBehind(backTo)
    BY RejectionWithdraws
  <2>6. QED
    BY <1>0, <2>1, <2>2, <2>3, <2>4, <2>5, RecordKeepsLedgerInv DEF GatesBehind
<1>3. ASSUME NEW v \in Videos, Review!Queue(v)
      PROVE  LedgerInv'
  <2> DEFINE e == [action |-> "create", gate |-> NoGate, from |-> NoStatus, to |-> "queued"]
  <2>1. e \in Review!Entry
    BY DEF Review!Entry, Status, PipelineStatus
  <2>2. log' = [log EXCEPT ![v] = Append(@, e)]
    BY <1>3 DEF Review!Queue, Review!Record
  <2>3. Passed' = Passed
    BY <1>3 DEF Review!Queue, Passed
  <2>4. \A h \in Gate : ~Review!Withdraws(e, h)
    BY DEF Review!Withdraws
  <2>5. QED
    BY <1>0, <2>1, <2>2, <2>3, <2>4, RecordKeepsLedgerInv, LedgerInvMeans
<1>4. ASSUME NEW v \in Videos, NEW to \in PipelineStatus, Review!Resume(v, to)
      PROVE  LedgerInv'
  <2> DEFINE e == [action |-> "retry", gate |-> NoGate, from |-> "error", to |-> to]
  <2>1. e \in Review!Entry
    BY DEF Review!Entry, Status, PipelineStatus
  <2>2. log' = [log EXCEPT ![v] = Append(@, e)]
    BY <1>4 DEF Review!Resume, Review!Record
  <2>3. Passed' = Passed
    BY <1>4 DEF Review!Resume, Passed
  <2>4. \A h \in Gate : ~Review!Withdraws(e, h)
    BY DEF Review!Withdraws
  <2>5. QED
    BY <1>0, <2>1, <2>2, <2>3, <2>4, RecordKeepsLedgerInv, LedgerInvMeans
<1>5. CASE UNCHANGED Review!vars
  <2>1. log' = log /\ Passed' = Passed
    BY <1>5 DEF Review!vars, Passed
  <2>2. QED
    BY <2>1, LedgerInvMeans, LedgerInvWillMean
<1>6. QED
  BY <1>1, <1>2, <1>3, <1>4, <1>5 DEF Review!Next

(* In the review process the ledger alone tells which gates a video is     *)
(* past, whatever videos there are and however long the ledger grows.      *)
THEOREM LedgerAlwaysTells == Review!Spec => []Review!LedgerTellsPosition
<1>1. LedgerInv => Review!LedgerTellsPosition
  BY DEF LedgerInv
<1>2. QED
  BY <1>1, InitHasNoLedger, NextKeepsLedgerInv, PTL DEF Review!Spec

(* With one server the review log alone tells which gates a video is past. *)
THEOREM TheLogTells ==
  ASSUME SingleApi
  PROVE  Spec => []LogTellsPosition
<1>1. Review!LedgerTellsPosition => LogTellsPosition
  BY SameTables DEF Review!LedgerTellsPosition, LogTellsPosition
<1>2. QED
  BY <1>1, PipelineIsReviewed, LedgerAlwaysTells, PTL DEF ImplementsReview

(* With one server no video is ever past a gate without an approval that    *)
(* stands: the rule the whole studio is built around.                       *)
THEOREM GatesAreNeverSkipped ==
  ASSUME SingleApi
  PROVE  Spec => []NoGateSkipped
<1>1. LogTellsPosition => NoGateSkipped
  BY DEF LogTellsPosition, NoGateSkipped
<1>2. QED
  BY <1>1, TheLogTells, PTL
-----------------------------------------------------------------------------
(* What can happen to one row and its log in a step: nothing, a failure, a *)
(* leg of a step, a person's decision, or the write of a listed row.       *)

Kept(v) == videos'[v] = videos[v] /\ log'[v] = log[v]

Failed(v) ==
  videos[v] \in Video /\ videos'[v] = Fail(videos[v]) /\ log'[v] = log[v]

Moved(v) ==
  \E to \in PipelineStatus :
    /\ videos[v] \in Video /\ CanMove(videos[v], to)
    /\ videos'[v] = Transition(videos[v], to) /\ log'[v] = log[v]

ThrownBack(v) ==
  \E a \in Apis : \E e \in listed[a] :
    e.video = v /\ videos'[v] = Fail(e.row) /\ log'[v] = log[v]

Decided(v, row, action) ==
  /\ videos'[v] = row
  /\ \E e : log'[v] = Append(log[v], e) /\ e.action = action /\ e.to = row.status

LEMMA DecisionsDecide ==
  ASSUME TypeOK, NEW v \in Videos, NEW row, NEW action, NEW gate, Decide(v, row, action, gate)
  PROVE  Decided(v, row, action) /\ \A u \in Videos : u # v => Kept(u)
<1> DEFINE e == LogEntry(v, row, action, gate)
<1>1. e.action = action /\ e.to = row.status
  BY DEF LogEntry
<1> HIDE DEF e
<1>2. videos'[v] = row /\ log'[v] = Append(log[v], e)
  BY DEF Decide, TypeOK, e
<1>3. Decided(v, row, action)
  BY <1>1, <1>2 DEF Decided
<1>4. \A u \in Videos : u # v => Kept(u)
  BY DEF Decide, Kept, TypeOK
<1>5. QED
  BY <1>3, <1>4

LEMMA PeopleDecideOneVideo ==
  ASSUME TypeOK, NEW v \in Videos, Person(v), NEW u \in Videos, u # v
  PROVE  Kept(u)
BY DecisionsDecide DEF Person, AddVideo, Approve, Reject, RetryVideo

(* One row is rewritten outside the log. *)
LEMMA OneRowIsRewritten ==
  ASSUME TypeOK, log' = log, NEW v \in Videos, NEW row,
         videos' = [videos EXCEPT ![v] = row], NEW u \in Videos
  PROVE  /\ u # v => Kept(u)
         /\ videos'[v] = row /\ log'[v] = log[v]
BY DEF TypeOK, Kept

LEMMA HowRowsMayChange ==
  ASSUME TypeInv, [Next]_vars, NEW v \in Videos
  PROVE  Kept(v) \/ Failed(v) \/ Moved(v) \/ Person(v) \/ ThrownBack(v)
<1> DEFINE Goal == Kept(v) \/ Failed(v) \/ Moved(v) \/ Person(v) \/ ThrownBack(v)
<1>1. ASSUME NEW u \in Videos, Person(u)
      PROVE  Goal
  BY <1>1, PeopleDecideOneVideo DEF TypeInv
<1>2. ASSUME UNCHANGED <<videos, log>>
      PROVE  Goal
  BY <1>2 DEF Kept
<1>3. CASE Start
  <2>1. ASSUME NEW r \in requests, NEW j \in Jobs, StartClaim(r, j)
        PROVE  Goal
    <3>1. r.video \in Videos /\ r.step \in Steps
      BY DEF TypeInv, TypeOK
    <3>2. CanMove(videos[r.video], r.step.running) /\ videos[r.video] \in Video
      BY <2>1, <3>1, MovableExists DEF StartClaim, ClaimAs, TypeInv
    <3>3. r.step.running \in PipelineStatus
      BY <3>1, StepStatuses
    <3>4. v # r.video => Kept(v)
      BY <2>1, <3>1, OneRowIsRewritten DEF StartClaim, ClaimAs, TypeInv
    <3>5. /\ videos'[r.video] = Transition(videos[r.video], r.step.running)
          /\ log'[r.video] = log[r.video]
      BY <2>1, <3>1, OneRowIsRewritten DEF StartClaim, ClaimAs, TypeInv
    <3>6. Moved(r.video)
      BY <3>2, <3>3, <3>5 DEF Moved
    <3>7. QED
      BY <3>4, <3>6
  <2>2. QED
    BY <1>2, <1>3, <2>1
       DEF Start, Claim, StartRead, StartRefused, StartChecked, StartFailed, db
<1>4. ASSUME NEW w \in work, Execute(w)
      PROVE  Goal
  <2>1. w.video \in Videos /\ w.step \in Steps /\ videos[w.video] \in Video
    BY RowsWithAStatus DEF TypeInv, TypeOK, ClaimsAreOnRecord
  <2>2. CASE Finish(w)
    <3>1. w.step.to \in PipelineStatus
      BY <2>1, StepStatuses
    <3>2. v # w.video => Kept(v)
      BY <2>1, <2>2, OneRowIsRewritten DEF Finish, TypeInv
    <3>3. /\ videos'[w.video] = Transition(videos[w.video], w.step.to)
          /\ log'[w.video] = log[w.video]
      BY <2>1, <2>2, OneRowIsRewritten DEF Finish, TypeInv
    <3>4. Moved(w.video)
      BY <2>1, <2>2, <3>1, <3>3 DEF Moved, Finish
    <3>5. QED
      BY <3>2, <3>4
  <2>3. CASE RecordFailure(w)
    BY <2>1, <2>3, OneRowIsRewritten DEF RecordFailure, TypeInv, Failed
  <2>4. QED
    BY <1>2, <1>4, <2>2, <2>3
       DEF Execute, Load, LoadFailed, RunReturns, RunFails, FinishFailed, FailureLost, Goto, db
<1>5. ASSUME NEW a \in Apis, Recover(a)
      PROVE  Goal
  <2>1. ASSUME NEW e \in listed[a], RecoverVideo(a, e)
        PROVE  Goal
    <3>1. e.video \in Videos
      BY DEF TypeInv, TypeOK
    <3>2. QED
      BY <2>1, <3>1, OneRowIsRewritten DEF RecoverVideo, TypeInv, ThrownBack
  <2>2. QED
    BY <1>2, <1>5, <2>1 DEF Recover, Boot, MarkRunningAsInterrupted, ListInProgress, Serve, db
<1>6. QED
  BY <1>1, <1>2, <1>3, <1>4, <1>5 DEF Next, Crash, db, vars

(* With fresh rows recovery fails the video as it is. *)
LEMMA HowRowsChange ==
  ASSUME ReviewInv, [Next]_vars, NEW v \in Videos
  PROVE  Kept(v) \/ Failed(v) \/ Moved(v) \/ Person(v)
<1>1. ASSUME ThrownBack(v)
      PROVE  Failed(v)
  <2> PICK a \in Apis : \E e \in listed[a] :
             e.video = v /\ videos'[v] = Fail(e.row) /\ log'[v] = log[v]
    BY <1>1 DEF ThrownBack
  <2>1. PICK e \in listed[a] : e.video = v /\ videos'[v] = Fail(e.row) /\ log'[v] = log[v]
    OBVIOUS
  <2>2. e.row \in Video /\ e.row = videos[v]
    BY <2>1 DEF ReviewInv, TypeInv, TypeOK, ListedRowsAreFresh
  <2>3. QED
    BY <2>1, <2>2 DEF Failed
<1>2. QED
  BY <1>1, HowRowsMayChange DEF ReviewInv

-----------------------------------------------------------------------------
(* A rejection note describes the last rejection, for as long as it shows. *)

LEMMA FailKeepsTheNote ==
  ASSUME NEW row \in Video
  PROVE  Fail(row).rejectedTo = row.rejectedTo
BY DEF Video, Fail

LEMMA RetryKeepsTheNote ==
  ASSUME NEW row \in Video
  PROVE  Retry(row).rejectedTo = row.rejectedTo
BY DEF Video, Retry

(* A leg of a step, an approval and a new row carry no note. *)
LEMMA MovingOnClearsTheNote ==
  /\ NewVideo.rejectedTo = NoStatus
  /\ \A row \in Video, to \in PipelineStatus : Transition(row, to).rejectedTo = NoStatus
  /\ \A row \in Video, g \in Gate : ApproveGate(row, g).rejectedTo = NoStatus
<1>1. NewVideo.rejectedTo = NoStatus
  BY DEF NewVideo
<1>2. \A row \in Video, to \in PipelineStatus : Transition(row, to).rejectedTo = NoStatus
  BY TablesNameStatuses DEF Transition, Video
<1>3. \A row \in Video, g \in Gate : ApproveGate(row, g).rejectedTo = NoStatus
  BY DEF ApproveGate, Video
<1>4. QED
  BY <1>1, <1>2, <1>3

(* The last rejection in a log went to s, and only retries followed it. *)
LastRejectionWentTo(s, entries) ==
  \E i \in 1..Len(entries) :
    /\ entries[i].action = "reject" /\ entries[i].to = s
    /\ \A k \in (i+1)..Len(entries) : entries[k].action = "retry"

LEMMA RetriesDoNotHideIt ==
  ASSUME NEW T, NEW entries \in Seq(T), NEW e, e.action = "retry",
         NEW s, LastRejectionWentTo(s, entries)
  PROVE  LastRejectionWentTo(s, Append(entries, e))
<1>1. PICK i \in 1..Len(entries) :
        /\ entries[i].action = "reject" /\ entries[i].to = s
        /\ \A k \in (i+1)..Len(entries) : entries[k].action = "retry"
  BY DEF LastRejectionWentTo
<1> DEFINE longer == Append(entries, e)
<1>2. Len(longer) = Len(entries) + 1 /\ longer[Len(entries) + 1] = e
      /\ \A k \in 1..Len(entries) : longer[k] = entries[k]
  OBVIOUS
<1> HIDE DEF longer
<1>3. i \in 1..Len(longer) /\ longer[i] = entries[i]
  BY <1>2
<1>4. ASSUME NEW k \in (i+1)..Len(longer)
      PROVE  longer[k].action = "retry"
  <2>1. k = Len(entries) + 1 \/ k \in (i+1)..Len(entries)
    BY <1>2
  <2>2. QED
    BY <1>1, <1>2, <2>1
<1>5. LastRejectionWentTo(s, longer)
  BY <1>1, <1>3, <1>4 DEF LastRejectionWentTo
<1>6. QED
  BY <1>5 DEF longer

LEMMA ANewRejectionIsLast ==
  ASSUME NEW T, NEW entries \in Seq(T), NEW e, e.action = "reject"
  PROVE  LastRejectionWentTo(e.to, Append(entries, e))
BY DEF LastRejectionWentTo

NoteIsCurrent(row, entries) ==
  (row # NoRow /\ row.rejectedTo # NoStatus) =>
    Position(row) = row.rejectedTo /\ LastRejectionWentTo(row.rejectedTo, entries)

LEMMA NotesAreCurrent ==
  RejectionIsCurrent <=> \A v \in Videos : NoteIsCurrent(videos[v], log[v])
BY DEF RejectionIsCurrent, NoteIsCurrent, LastRejectionWentTo, Exists

LEMMA NotesStayCurrent ==
  ASSUME ReviewInv, [Next]_vars, NEW v \in Videos, NoteIsCurrent(videos[v], log[v])
  PROVE  NoteIsCurrent(videos'[v], log'[v])
<1> DEFINE Goal == NoteIsCurrent(videos'[v], log'[v])
           Entry == [action : {"create", "approve", "reject", "retry"},
                     gate : Gate \cup {NoGate},
                     from : Status \cup {NoStatus},
                     to : Status]
<1>1. TypeOK /\ log[v] \in Seq(Entry)
  BY DEF ReviewInv, TypeInv, TypeOK
<1> HIDE DEF Entry
<1>2. NoRow \notin Video
  BY TablesNameStatuses DEF Video, NoRow
<1>3. CASE Kept(v)
  BY <1>3 DEF Kept
<1>4. CASE Failed(v)
  BY <1>2, <1>4, FailKeepsTheNote, FailKeepsPosition DEF Failed, NoteIsCurrent
<1>5. CASE Moved(v)
  BY <1>5, MovingOnClearsTheNote DEF Moved, NoteIsCurrent
<1>6. CASE AddVideo(v)
  BY <1>1, <1>6, DecisionsDecide, MovingOnClearsTheNote DEF AddVideo, Decided, NoteIsCurrent
<1>7. ASSUME NEW g \in Gate, Approve(v, g)
      PROVE  Goal
  <2>1. videos[v] \in Video
    BY <1>1, <1>7, RowsWithAStatus, TablesNameStatuses
       DEF Approve, CanApproveGate, AwaitsGate, Status
  <2>2. QED
    BY <1>1, <1>7, <2>1, DecisionsDecide, MovingOnClearsTheNote
       DEF Approve, Decided, NoteIsCurrent
<1>8. ASSUME NEW g \in Gate, NEW backTo \in PipelineStatus, Reject(v, g, backTo)
      PROVE  Goal
  <2> DEFINE row == RejectGate(videos[v], g, backTo)
  <2>1. videos[v] \in Video
    BY <1>1, <1>8, RowsWithAStatus, TablesNameStatuses
       DEF Reject, CanRejectGate, AwaitsGate, Status
  <2>2. row.status = backTo /\ row.rejectedTo = backTo
    BY <2>1 DEF RejectGate, Video
  <2>3. Position(row) = backTo
    BY <2>2, TablesNameStatuses DEF Position
  <2>4. Decided(v, row, "reject")
    BY <1>1, <1>8, DecisionsDecide DEF Reject
  <2> HIDE DEF row
  <2>5. PICK e : log'[v] = Append(log[v], e) /\ e.action = "reject" /\ e.to = backTo
    BY <2>2, <2>4 DEF Decided
  <2>6. LastRejectionWentTo(backTo, log'[v])
    BY <1>1, <2>5, ANewRejectionIsLast
  <2>7. QED
    BY <2>2, <2>3, <2>4, <2>6 DEF Decided, NoteIsCurrent
<1>9. CASE RetryVideo(v)
  <2> DEFINE row == Retry(videos[v])
  <2>1. videos[v].status = "error"
    BY <1>9 DEF RetryVideo, CanRetry
  <2>2. videos[v] \in Video /\ videos[v].retryFrom \in PipelineStatus
    BY <1>1, <2>1, RowsWithAStatus, TablesNameStatuses
       DEF ReviewInv, FailedVideosResume, Status, NoStatus
  <2>3. Position(row) = Position(videos[v]) /\ row.rejectedTo = videos[v].rejectedTo
    BY <2>1, <2>2, RetryKeepsPosition, RetryKeepsTheNote
  <2>4. Decided(v, row, "retry")
    BY <1>1, <1>9, DecisionsDecide DEF RetryVideo
  <2> HIDE DEF row
  <2>5. PICK e : log'[v] = Append(log[v], e) /\ e.action = "retry"
    BY <2>4 DEF Decided
  <2>6. \A s : LastRejectionWentTo(s, log[v]) => LastRejectionWentTo(s, log'[v])
    BY <1>1, <2>5, RetriesDoNotHideIt
  <2>7. QED
    BY <1>2, <2>2, <2>3, <2>4, <2>6 DEF Decided, NoteIsCurrent
<1>10. QED
  BY <1>3, <1>4, <1>5, <1>6, <1>7, <1>8, <1>9, HowRowsChange DEF Person

(* With one server a video's rejection note is always about the last        *)
(* decision on it that was no retry, and about where the video is: neither  *)
(* a failure nor a recovery that rewrites a listed row revives an old note  *)
(* (video.go: "always describes the most recent rejection").                *)
THEOREM RejectionNotesAreCurrent ==
  ASSUME SingleApi
  PROVE  Spec => []RejectionIsCurrent
<1>1. Init => RejectionIsCurrent
  BY NotesAreCurrent DEF Init, NoteIsCurrent
<1>2. ReviewInv /\ [Next]_vars /\ RejectionIsCurrent => RejectionIsCurrent'
  <2> SUFFICES ASSUME ReviewInv, [Next]_vars, RejectionIsCurrent
               PROVE  RejectionIsCurrent'
    OBVIOUS
  <2>1. \A v \in Videos : NoteIsCurrent(videos'[v], log'[v])
    BY NotesAreCurrent, NotesStayCurrent
  <2>2. QED
    BY <2>1 DEF RejectionIsCurrent, NoteIsCurrent, LastRejectionWentTo, Exists
<1>3. Spec => []ReviewInv
  BY RecoveryIsSafe
<1>4. QED
  BY <1>1, <1>2, <1>3, PTL DEF Spec

-----------------------------------------------------------------------------
(* Nothing but a rejection takes a video back. *)

LEMMA StepsAndApprovalsGoForward ==
  /\ \A from, to : CanTransition(from, to) => ~IsEarlier(to, from)
  /\ \A g \in Gate : ~IsEarlier(gates[g].to, gates[g].from)
  /\ \A s : ~IsEarlier(s, s) /\ ~IsEarlier(s, NoStatus)
<1>1. \A from, to : CanTransition(from, to) => ~IsEarlier(to, from)
  BY DEF CanTransition, automatic, IsEarlier, orderIndex
<1>2. \A g \in Gate : ~IsEarlier(gates[g].to, gates[g].from)
  BY DEF Gate, gates, IsEarlier, orderIndex
<1>3. \A s : ~IsEarlier(s, s) /\ ~IsEarlier(s, NoStatus)
  BY DEF IsEarlier, orderIndex, NoStatus
<1>4. QED
  BY <1>1, <1>2, <1>3

LEMMA OnlyARejectionGoesBack ==
  ASSUME ReviewInv, [Next]_vars, NEW v \in Videos,
         IsEarlier(Position(videos'[v]), Position(videos[v]))
  PROVE  \E e : log'[v] = Append(log[v], e) /\ e.action = "reject"
<1> USE StepsAndApprovalsGoForward
<1>1. TypeOK
  BY DEF ReviewInv, TypeInv
<1>2. ~Kept(v)
  BY DEF Kept
<1>3. ~Failed(v)
  BY FailKeepsPosition DEF Failed
<1>4. ~Moved(v)
  <2> SUFFICES ASSUME NEW to \in PipelineStatus, videos[v] \in Video, CanMove(videos[v], to),
                      videos'[v] = Transition(videos[v], to)
               PROVE  FALSE
    BY DEF Moved
  <2>1. to # "error" /\ videos[v].status # "error" /\ CanTransition(videos[v].status, to)
    BY TablesNameStatuses DEF CanMove
  <2>2. Position(Transition(videos[v], to)) = to /\ Position(videos[v]) = videos[v].status
    BY <2>1 DEF Position, Transition, Video
  <2>3. QED
    BY <2>1, <2>2
<1>5. ~AddVideo(v)
  <2>1. Position(NoRow) = NoStatus
    BY DEF Position, NoRow, NoStatus
  <2>2. QED
    BY <2>1 DEF AddVideo, Exists
<1>6. ASSUME NEW g \in Gate, Approve(v, g)
      PROVE  FALSE
  <2>1. videos[v].status = gates[g].from
    BY <1>6 DEF Approve, CanApproveGate, AwaitsGate
  <2>2. videos[v] \in Video
    BY <1>1, <2>1, RowsWithAStatus, TablesNameStatuses DEF Status
  <2>3. videos'[v] = ApproveGate(videos[v], g)
    BY <1>1, <1>6, DecisionsDecide DEF Approve, Decided
  <2>4. videos'[v].status = gates[g].to
    BY <2>2, <2>3 DEF ApproveGate, Video
  <2>5. Position(videos'[v]) = gates[g].to /\ Position(videos[v]) = gates[g].from
    BY <2>1, <2>4, TablesNameStatuses DEF Position
  <2>6. QED
    BY <2>5
<1>7. ~RetryVideo(v)
  <2> SUFFICES ASSUME RetryVideo(v) PROVE FALSE
    OBVIOUS
  <2>1. videos[v].status = "error"
    BY DEF RetryVideo, CanRetry
  <2>2. videos[v] \in Video /\ videos[v].retryFrom \in PipelineStatus
    BY <1>1, <2>1, RowsWithAStatus, TablesNameStatuses
       DEF ReviewInv, FailedVideosResume, Status, NoStatus
  <2>3. videos'[v] = Retry(videos[v])
    BY <1>1, DecisionsDecide DEF RetryVideo, Decided
  <2>4. QED
    BY <2>1, <2>2, <2>3, RetryKeepsPosition
<1>8. PICK g \in Gate, backTo \in PipelineStatus : Reject(v, g, backTo)
  BY <1>2, <1>3, <1>4, <1>5, <1>6, <1>7, HowRowsChange DEF Person
<1>9. Decided(v, RejectGate(videos[v], g, backTo), "reject")
  BY <1>1, <1>8, DecisionsDecide DEF Reject
<1>10. QED
  BY <1>9 DEF Decided

(* With one server a video goes back in the pipeline only by a rejection    *)
(* recorded in the same step: no crash, recovery, retry, second Start or    *)
(* late goroutine takes it back.                                            *)
THEOREM NothingElseSendsBack ==
  ASSUME SingleApi
  PROVE  Spec => OnlyRejectionSendsBack
<1> DEFINE SentBack(v) ==
             IsEarlier(Position(videos'[v]), Position(videos[v])) =>
               /\ Len(log'[v]) = Len(log[v]) + 1
               /\ log'[v][Len(log'[v])].action = "reject"
<1>1. ReviewInv /\ [Next]_vars => [\A v \in Videos : SentBack(v)]_<<videos, log>>
  <2> SUFFICES ASSUME ReviewInv, [Next]_vars, NEW v \in Videos,
                      IsEarlier(Position(videos'[v]), Position(videos[v]))
               PROVE  /\ Len(log'[v]) = Len(log[v]) + 1
                      /\ log'[v][Len(log'[v])].action = "reject"
    OBVIOUS
  <2>1. PICK e : log'[v] = Append(log[v], e) /\ e.action = "reject"
    BY OnlyARejectionGoesBack
  <2>2. PICK T : log[v] \in Seq(T)
    BY DEF ReviewInv, TypeInv, TypeOK
  <2>3. QED
    BY <2>1, <2>2
<1>2. Spec => []ReviewInv
  BY RecoveryIsSafe
<1>3. QED
  BY <1>1, <1>2, PTL DEF Spec, OnlyRejectionSendsBack

-----------------------------------------------------------------------------
(***************************************************************************)
(* Any number of servers, with no registered step behind a gate.           *)
(*                                                                         *)
(* The argument.  Recovery may write back any row it ever listed, but only *)
(* into a working status (ListedRowsRun), which lies behind no gate here,  *)
(* so a video thrown back is past no gate at all (HowRowsMayChange).  All  *)
(* else keeps a video between its gates or is a recorded decision.         *)
(***************************************************************************)

(* Every gate behind a row has an approval on the log that stands. *)
Backed(row, l) == \A g \in GatesBehind(Position(row)) : Review!StandsApproved(l, g)

(* A decision appends an entry of the review process. *)
LEMMA DecisionsAppend ==
  ASSUME TypeOK, NEW v \in Videos, NEW row \in Video,
         NEW action \in {"create", "approve", "reject", "retry"},
         NEW gate \in Gate \cup {NoGate}, Decide(v, row, action, gate)
  PROVE  \E e \in Review!Entry :
           /\ e.action = action /\ e.gate = gate /\ e.to = row.status
           /\ videos'[v] = row /\ log'[v] = Append(log[v], e)
           /\ log[v] \in Seq(Review!Entry)
<1> DEFINE e == LogEntry(v, row, action, gate)
<1>1. e \in Review!Entry
  BY RowsWithAStatus, SameTables DEF LogEntry, Review!Entry, Video
<1>2. e.action = action /\ e.gate = gate /\ e.to = row.status
  BY DEF LogEntry
<1> HIDE DEF e
<1>3. videos'[v] = row /\ log'[v] = Append(log[v], e)
  BY DEF Decide, TypeOK, e
<1>4. log[v] \in Seq(Review!Entry)
  BY SameTables DEF TypeOK, Review!Entry
<1>5. QED
  BY <1>1, <1>2, <1>3, <1>4

(* What a decision has to leave behind for its video to stay backed. *)
LEMMA DecisionsBack ==
  ASSUME TypeOK, NEW v \in Videos, NEW row \in Video,
         NEW action \in {"create", "approve", "reject", "retry"},
         NEW gate \in Gate \cup {NoGate}, Decide(v, row, action, gate),
         Backed(videos[v], log[v]),
         \A g \in GatesBehind(Position(row)) :
           \/ action = "approve" /\ gate = g
           \/ /\ g \in GatesBehind(Position(videos[v]))
              /\ action = "reject" => g \in GatesBehind(row.status)
  PROVE  Backed(videos'[v], log'[v])
<1>1. PICK e \in Review!Entry :
             /\ e.action = action /\ e.gate = gate /\ e.to = row.status
             /\ videos'[v] = row /\ log'[v] = Append(log[v], e)
             /\ log[v] \in Seq(Review!Entry)
  BY DecisionsAppend
<1>2. ASSUME NEW g \in GatesBehind(Position(row))
      PROVE  Review!StandsApproved(Append(log[v], e), g)
  <2>1. g \in Gate
    BY DEF GatesBehind
  <2>2. CASE action = "approve" /\ gate = g
    BY <1>1, <2>1, <2>2, StandingAfterAppend
  <2>3. CASE /\ g \in GatesBehind(Position(videos[v]))
             /\ action = "reject" => g \in GatesBehind(row.status)
    <3>1. Review!StandsApproved(log[v], g)
      BY <2>3 DEF Backed
    <3>2. ~Review!Withdraws(e, g)
      <4>1. CASE action = "reject"
        BY <1>1, <2>1, <2>3, <4>1, RejectionWithdraws
      <4>2. CASE action # "reject"
        BY <1>1, <4>2 DEF Review!Withdraws
      <4>3. QED
        BY <4>1, <4>2
    <3>3. QED
      BY <1>1, <2>1, <3>1, <3>2, StandingAfterAppend
  <2>4. QED
    BY <1>2, <2>2, <2>3
<1>3. QED
  BY <1>1, <1>2 DEF Backed

LEMMA PeopleBackTheirDecisions ==
  ASSUME TypeInv, FailedVideosResume, NEW v \in Videos, Person(v), Backed(videos[v], log[v])
  PROVE  Backed(videos'[v], log'[v])
<1> DEFINE Goal == Backed(videos'[v], log'[v])
<1>1. TypeOK
  BY DEF TypeInv
<1>2. CASE AddVideo(v)
  <2>1. GatesBehind(Position(NewVideo)) = {}
    BY NothingBehindTheStart DEF NewVideo, Position
  <2>2. QED
    BY <1>1, <1>2, <2>1, ChangesGiveVideos, DecisionsBack DEF AddVideo
<1>3. ASSUME NEW g \in Gate, Approve(v, g)
      PROVE  Goal
  <2> DEFINE row == ApproveGate(videos[v], g)
  <2>1. videos[v].status = gates[g].from
    BY <1>3 DEF Approve, CanApproveGate, AwaitsGate
  <2>2. videos[v] \in Video
    BY <1>1, <2>1, RowsWithAStatus, TablesNameStatuses DEF Status
  <2>3. row \in Video /\ row.status = gates[g].to
    BY <2>2, ChangesGiveVideos DEF ApproveGate, Video
  <2>4. Position(row) = gates[g].to /\ Position(videos[v]) = gates[g].from
    BY <2>1, <2>3, TablesNameStatuses DEF Position
  <2>5. Decide(v, row, "approve", g)
    BY <1>3 DEF Approve
  <2> HIDE DEF row
  <2>6. GatesBehind(Position(row)) = GatesBehind(Position(videos[v])) \cup {g}
    BY <2>4, ApprovalAddsItsGate
  <2>7. QED
    BY <1>1, <2>3, <2>5, <2>6, DecisionsBack
<1>4. ASSUME NEW g \in Gate, NEW backTo \in PipelineStatus, Reject(v, g, backTo)
      PROVE  Goal
  <2> DEFINE row == RejectGate(videos[v], g, backTo)
  <2>1. videos[v].status = gates[g].from /\ CanRejectGate(videos[v], g, backTo)
    BY <1>4 DEF Reject, CanRejectGate, AwaitsGate
  <2>2. videos[v] \in Video
    BY <1>1, <2>1, RowsWithAStatus, TablesNameStatuses DEF Status
  <2>3. row \in Video /\ row.status = backTo
    BY <2>1, <2>2, ChangesGiveVideos DEF RejectGate, Video
  <2>4. Position(row) = backTo /\ Position(videos[v]) = videos[v].status
    BY <2>1, <2>3, TablesNameStatuses DEF Position
  <2>5. Decide(v, row, "reject", g)
    BY <1>4 DEF Reject
  <2>6. IsEarlier(backTo, videos[v].status)
    BY <2>1 DEF CanRejectGate
  <2> HIDE DEF row
  <2>7. GatesBehind(Position(row)) \subseteq GatesBehind(Position(videos[v]))
    BY <2>4, <2>6, EarlierIsBehindFewer
  <2>8. QED
    BY <1>1, <2>3, <2>4, <2>5, <2>7, DecisionsBack
<1>5. CASE RetryVideo(v)
  <2> DEFINE row == Retry(videos[v])
  <2>1. videos[v].status = "error"
    BY <1>5 DEF RetryVideo, CanRetry
  <2>2. videos[v] \in Video /\ videos[v].retryFrom \in PipelineStatus
    BY <1>1, <2>1, RowsWithAStatus, TablesNameStatuses DEF FailedVideosResume, Status, NoStatus
  <2>3. row \in Video /\ Position(row) = Position(videos[v])
    BY <2>1, <2>2, ChangesGiveVideos, RetryKeepsPosition
  <2>4. Decide(v, row, "retry", NoGate)
    BY <1>5 DEF RetryVideo
  <2> HIDE DEF row
  <2>5. QED
    BY <1>1, <2>3, <2>4, DecisionsBack
<1>6. QED
  BY <1>2, <1>3, <1>4, <1>5 DEF Person

LEMMA BackingIsKept ==
  ASSUME WorkIsBeforeTheGates, TypeInv, FailedVideosResume, ListedRowsRun, [Next]_vars,
         NEW v \in Videos, Backed(videos[v], log[v])
  PROVE  Backed(videos'[v], log'[v])
<1>1. CASE Kept(v)
  BY <1>1 DEF Kept
<1>2. CASE Failed(v)
  BY <1>2, FailKeepsPosition DEF Failed, Backed
<1>3. CASE Moved(v)
  BY <1>3, TransitionsKeepGates DEF Moved, Backed
<1>4. CASE Person(v)
  BY <1>4, PeopleBackTheirDecisions
<1>5. CASE ThrownBack(v)
  <2> PICK a \in Apis : \E e \in listed[a] : videos'[v] = Fail(e.row)
    BY <1>5 DEF ThrownBack
  <2>1. PICK e \in listed[a] : videos'[v] = Fail(e.row)
    OBVIOUS
  <2>2. e.row \in Video
    BY DEF TypeInv, TypeOK
  <2>3. PICK s \in Steps : e.row.status = s.running
    BY DEF ListedRowsRun, RunningStatuses
  <2>4. s.running \in PipelineStatus
    BY StepStatuses
  <2>5. Position(Fail(e.row)) = s.running
    BY <2>2, <2>3, <2>4, FailKeepsPosition, TablesNameStatuses DEF Position
  <2>6. QED
    BY <2>1, <2>5 DEF Backed, WorkIsBeforeTheGates
<1>6. QED
  BY <1>1, <1>2, <1>3, <1>4, <1>5, HowRowsMayChange

(* With no registered step behind a gate, as the registry is wired, no      *)
(* video is past a gate without an approval that stands, however many       *)
(* servers recover under each other's work.                                 *)
THEOREM GatesAreNeverSkippedAsWired ==
  ASSUME WorkIsBeforeTheGates
  PROVE  Spec => []NoGateSkipped
<1>1. NoGateSkipped <=> \A v \in Videos : Backed(videos[v], log[v])
  BY DEF NoGateSkipped, Past, Backed
<1>2. NoGateSkipped' <=> \A v \in Videos : Backed(videos'[v], log'[v])
  BY DEF NoGateSkipped, Past, Backed
<1>3. Init => ServersInv
  <2> SUFFICES ASSUME Init PROVE ServersInv
    OBVIOUS
  <2>1. TypeInv /\ FailedVideosResume
    BY InitIsTyped, InitIsReviewable DEF ReviewInv
  <2>2. ListedRowsRun
    BY DEF Init, ListedRowsRun
  <2>3. \A v \in Videos : Backed(videos[v], log[v])
    BY NothingBehindTheStart DEF Init, Backed, Position, NoRow, NoStatus
  <2>4. QED
    BY <1>1, <2>1, <2>2, <2>3 DEF ServersInv
<1>4. ServersInv /\ [Next]_vars => ServersInv'
  <2> SUFFICES ASSUME ServersInv, [Next]_vars PROVE ServersInv'
    OBVIOUS
  <2>1. TypeInv' /\ FailedVideosResume' /\ ListedRowsRun'
    BY NextIsTyped, FailuresStayResumable, ListedRowsStayRunning DEF ServersInv
  <2>2. \A v \in Videos : Backed(videos'[v], log'[v])
    BY <1>1, BackingIsKept DEF ServersInv
  <2>3. QED
    BY <1>2, <2>1, <2>2 DEF ServersInv
<1>5. ServersInv => NoGateSkipped
  BY DEF ServersInv
<1>6. QED
  BY <1>3, <1>4, <1>5, PTL DEF Spec
=============================================================================
