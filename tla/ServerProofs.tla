---------------------------- MODULE ServerProofs ----------------------------
(***************************************************************************)
(* For any number of processes, pages, callers and starts: the "running"   *)
(* jobs of a server that booted alone are its own, at work or with an end  *)
(* it could not record; the database closes under no request the HTTP      *)
(* server waits for; and nobody is told of health nobody reported.         *)
(*                                                                         *)
(* The argument.  A process that has not served yet holds no request, no   *)
(* connection and no work (BootersAreEmpty), and one that boots alone      *)
(* keeps every other off until it listens (AloneIsAlone).  So recovery     *)
(* leaves no running job (RecoveredIsQuiet), nobody else can make one      *)
(* while it serves (AloneServes), and the port tells who may take a        *)
(* request (PortIsServing).                                                *)
(***************************************************************************)
EXTENDS Server, SequenceTheorems, TLAPS

Empty(q) ==
  /\ \A c \in Client : ~Inside(c, q) /\ held[c] # q
  /\ \A j \in work : jobs[j].by # q

PortIsServing == \A s \in Servers : port = s <=> phase[s] = "serving"

BootersAreEmpty ==
  \A s \in Servers : phase[s] \in {"off", "configured", "opened", "recovered"} => Empty(s)

PoolFollowsPhase ==
  \A s \in Servers :
    /\ phase[s] \in {"opened", "recovered", "serving", "draining", "closing"} => pool[s] = "open"
    /\ pool[s] = "closed" => phase[s] = "closed"

AloneIsAlone ==
  \A s \in Servers :
    alone[s] /\ Booting(s) => \A q \in Servers \ {s} : phase[q] = "off"

RecoveredIsQuiet ==
  \A s \in Servers : alone[s] /\ phase[s] = "recovered" => Running = {}

AloneServes ==
  \A s \in Servers :
    alone[s] /\ phase[s] = "serving" => \A q \in Servers \ {s} : Empty(q)

DrainedStays ==
  \A s \in Servers :
    phase[s] \in {"closing", "closed"} /\ ~undrained[s] =>
      \A c \in Client : Inside(c, s) => calls[c].http2

Structure ==
  /\ PortIsServing /\ BootersAreEmpty /\ PoolFollowsPhase /\ AloneIsAlone
  /\ RecoveredIsQuiet /\ AloneServes /\ RunningMeansWorkedOn /\ DrainedStays

ServerInv == TypeOK /\ Structure
-----------------------------------------------------------------------------
(* Types.                                                                    *)

Words == {OK, DEGRADED, DOWN, UNSPECIFIED}

(* Every health answer the server can build is an answer of the contract. *)
LEMMA HealthType == ASSUME NEW ai PROVE SystemHealth(ai) \in Answered
<1>1. \A s : toProtoStatus(s) \in Words
  BY DEF toProtoStatus, Words
<1>2. toProtoStatus("ok") = OK
  BY DEF toProtoStatus
<1>3. QED
  BY <1>1, <1>2 DEF SystemHealth, Answered, Words

LEMMA ArrivalType ==
  ASSUME NEW s \in Servers, NEW op \in {"health", "read", "run"}, NEW http2 \in BOOLEAN
  PROVE  Arrival(s, op, http2) \in Request
BY DEF Arrival, At, Request

LEMMA AnswerType ==
  ASSUME TypeOK, NEW c \in Client, calls[c].pc \in {"inside", "probing"},
         NEW heard \in Reports \cup {"silence", "the fake", "nothing"}, NEW told \in Answered
  PROVE  Answer(c, heard, told) \in Request
<1>1. calls[c] \in [pc : {"inside", "probing"}, server : Servers,
                    op : {"health", "read", "run"}, http2 : BOOLEAN]
  BY DEF TypeOK, Request
<1>2. QED
  BY <1>1 DEF Answer, Request

LEMMA ServerOfCall ==
  ASSUME TypeOK, NEW c \in Client, calls[c].pc \in {"inside", "probing", "replying"}
  PROVE  calls[c].server \in Servers /\ calls[c].http2 \in BOOLEAN
BY DEF TypeOK, Request

LEMMA CallsType ==
  ASSUME TypeOK, NEW c \in Client, NEW r \in Request
  PROVE  [calls EXCEPT ![c] = r] \in [Client -> Request]
BY DEF TypeOK

(* The table with some rows changed is a table. *)
LEMMA JobsType ==
  ASSUME TypeOK, NEW f \in [DOMAIN jobs -> JobRow]
  PROVE  f \in Seq(JobRow) /\ DOMAIN f = DOMAIN jobs
<1>1. jobs \in Seq(JobRow) /\ Len(jobs) \in Nat /\ DOMAIN jobs = 1 .. Len(jobs)
  BY DEF TypeOK
<1>2. QED
  BY <1>1, SeqDef

LEMMA JobFields ==
  ASSUME TypeOK, NEW j \in DOMAIN jobs
  PROVE  jobs[j] \in JobRow /\ jobs[j].by \in Servers
<1>1. jobs \in Seq(JobRow) /\ j \in 1 .. Len(jobs)
  BY DEF TypeOK
<1>2. jobs[j] \in JobRow
  BY <1>1, ElementOfSeq
<1>3. QED
  BY <1>2 DEF JobRow

LEMMA InitType == Init => TypeOK
<1> SUFFICES ASSUME Init PROVE TypeOK
  OBVIOUS
<1>1. Idle \in Request
  BY DEF Idle, Request
<1>2. calls \in [Client -> Request]
  BY <1>1 DEF Init
<1>3. jobs \in Seq(JobRow)
  BY DEF Init
<1>4. work \subseteq DOMAIN jobs /\ starts \in 0 .. MaxStarts
  BY BoundsAssumption DEF Init
<1>5. alone \in [Servers -> BOOLEAN] /\ undrained \in [Servers -> BOOLEAN]
  BY DEF Init
<1>6. QED
  BY <1>2, <1>3, <1>4, <1>5 DEF Init, TypeOK, Chips

(* A client's own step. *)
LEMMA ClientStepType ==
  ASSUME TypeOK, NEW c \in Client,
         \/ c \in Pages /\ Check(c)
         \/ c \in Callers /\ Ask(c)
         \/ Deliver(c) \/ Lost(c)
  PROVE  TypeOK'
<1>0. Idle \in Request /\ Done \in Answered /\ Failed \in Answered
  BY DEF Idle, Request, Answered
<1>1. CASE c \in Pages /\ Poll(c)
  <2>1. Arrival(port, "health", FALSE) \in Request
    BY <1>1, ArrivalType DEF Poll, TypeOK
  <2>2. QED
    BY <1>1, <2>1, CallsType DEF Poll, TypeOK, lifecycle
<1>2. CASE c \in Pages /\ PollFails(c)
  BY <1>2 DEF PollFails, TypeOK, lifecycle, Chips
<1>3. CASE c \in Pages /\ Probe(c)
  <2>1. CASE calls' = [calls EXCEPT ![c] = Answer(c, "the fake", SystemHealth("ok"))] /\ UNCHANGED channel
    BY <1>3, <2>1, HealthType, AnswerType, CallsType DEF Probe, Waiting, TypeOK, lifecycle
  <2>2. CASE /\ calls' = [calls EXCEPT ![c] = At("probing", calls[c].server, "health", calls[c].http2)]
             /\ channel' = [channel EXCEPT ![calls[c].server] = IF @ = "idle" THEN "connecting" ELSE @]
    <3>1. At("probing", calls[c].server, "health", calls[c].http2) \in Request
      BY <1>3, ServerOfCall DEF Probe, Waiting, At, Request
    <3>2. calls' \in [Client -> Request]
      BY <2>2, <3>1, CallsType DEF TypeOK
    <3>3. QED
      BY <1>3, <2>2, <3>2 DEF Probe, TypeOK, lifecycle
  <2>3. QED
    BY <1>3, <2>1, <2>2 DEF Probe
<1>4. CASE c \in Pages /\ WorkerAnswers(c)
  BY <1>4, HealthType, AnswerType, CallsType DEF WorkerAnswers, TypeOK, lifecycle
<1>5. CASE c \in Pages /\ ProbeFails(c)
  BY <1>5, HealthType, AnswerType, CallsType DEF ProbeFails, TypeOK, lifecycle
<1>6. CASE c \in Callers /\ Call(c)
  <2>1. PICK s \in Servers, op \in {"read", "run"}, http2 \in BOOLEAN :
          /\ calls' = [calls EXCEPT ![c] = Arrival(s, op, http2)]
          /\ held' = IF http2 THEN [held EXCEPT ![c] = s] ELSE held
    BY <1>6 DEF Call
  <2>2. Arrival(s, op, http2) \in Request
    BY ArrivalType
  <2>3. QED
    BY <1>6, <2>1, <2>2, CallsType DEF Call, TypeOK, lifecycle
<1>7. CASE c \in Callers /\ Panic(c)
  BY <1>0, <1>7, AnswerType, CallsType DEF Panic, TypeOK, lifecycle
<1>8. CASE c \in Callers /\ HandleRead(c)
  BY <1>0, <1>8, AnswerType, CallsType DEF HandleRead, Waiting, TypeOK, lifecycle
<1>9. CASE c \in Callers /\ HandleRun(c)
  <2>1. calls' \in [Client -> Request]
    <3>1. Answer(c, "nothing", Done) \in Request /\ Answer(c, "nothing", Failed) \in Request
      BY <1>0, <1>9, AnswerType DEF HandleRun, Waiting
    <3>2. \E r \in Request : calls' = [calls EXCEPT ![c] = r]
      BY <1>9, <3>1 DEF HandleRun
    <3>3. QED
      BY <3>2, CallsType
  <2>2. CASE UNCHANGED <<jobs, work>>
    BY <1>9, <2>1, <2>2 DEF HandleRun, TypeOK, lifecycle
  <2>3. CASE /\ jobs' = Append(jobs, Job("running", calls[c].server))
             /\ work' = work \cup {Len(jobs) + 1}
    <3>1. calls[c].server \in Servers
      BY <1>9, ServerOfCall DEF HandleRun, Waiting
    <3>2. Job("running", calls[c].server) \in JobRow
      BY <3>1 DEF Job, JobRow
    <3>3. jobs' \in Seq(JobRow) /\ work' \subseteq DOMAIN jobs' /\ unrecorded \subseteq DOMAIN jobs'
      BY <2>3, <3>2 DEF TypeOK
    <3>4. QED
      BY <1>9, <2>1, <3>3 DEF HandleRun, TypeOK, lifecycle
  <2>4. QED
    BY <1>9, <2>2, <2>3 DEF HandleRun
<1>10. CASE Deliver(c)
  <2>1. calls' \in [Client -> Request]
    BY <1>0, <1>10, CallsType DEF Deliver
  <2>2. shown' \in [Pages -> Chips]
    BY <1>10 DEF Deliver, TypeOK, Chips, healthLabel
  <2>3. QED
    BY <1>10, <2>1, <2>2 DEF Deliver, TypeOK, lifecycle
<1>11. CASE Lost(c)
  BY <1>0, <1>11, CallsType DEF Lost, TypeOK, lifecycle
<1>12. QED
  BY <1>1, <1>2, <1>3, <1>4, <1>5, <1>6, <1>7, <1>8, <1>9, <1>10, <1>11 DEF Check, Ask

(* Everything else: processes, steps, the worker. *)
LEMMA ServerStepType ==
  ASSUME TypeOK, NEW s \in Servers,
         Boot(s) \/ Shut(s) \/ ConnectEnds(s) \/ BackoffEnds(s)
  PROVE  TypeOK'
<1>1. CASE Configure(s)
  <2>1. alone' \in [Servers -> BOOLEAN]
    <3>1. CASE alone' = [q \in Servers |->
                 IF q = s THEN \A r \in Servers \ {s} : phase[r] = "off"
                          ELSE alone[q] /\ ~Booting(q)]
      BY <3>1
    <3>2. CASE UNCHANGED alone
      BY <3>2 DEF TypeOK
    <3>3. QED
      BY <1>1, <3>1, <3>2 DEF Configure
  <2>2. starts' \in 0 .. MaxStarts
    BY <1>1, BoundsAssumption DEF Configure, TypeOK
  <2>3. phase' \in [Servers -> {"off", "configured", "opened", "recovered", "serving",
                               "draining", "closing", "closed"}]
    BY <1>1 DEF Configure, TypeOK
  <2>4. channel' \in [Servers -> {"none", "fake", "idle", "connecting", "ready", "failed"}]
    BY <1>1, EnginesAssumption DEF Configure, TypeOK
  <2>5. QED
    BY <1>1, <2>1, <2>2, <2>3, <2>4 DEF Configure, TypeOK
<1>2. CASE OpenDatabase(s)
  BY <1>2 DEF OpenDatabase, Enter, TypeOK
<1>3. CASE Recover(s)
  <2>1. jobs' \in Seq(JobRow) /\ DOMAIN jobs' = DOMAIN jobs
    <3>1. CASE UNCHANGED jobs
      BY <3>1 DEF TypeOK
    <3>2. CASE jobs' = [j \in DOMAIN jobs |->
                  IF jobs[j].state = "running" THEN Job("interrupted", jobs[j].by)
                                               ELSE jobs[j]]
      <4>1. jobs' \in [DOMAIN jobs -> JobRow]
        BY <3>2, JobFields DEF Job, JobRow
      <4>2. QED
        BY <4>1, JobsType
    <3>3. QED
      BY <1>3, <3>1, <3>2 DEF Recover
  <2>2. QED
    BY <1>3, <2>1 DEF Recover, Enter, TypeOK
<1>4. CASE Listen(s)
  BY <1>4 DEF Listen, Enter, TypeOK
<1>5. CASE Interrupt(s) \/ Drained(s) \/ GraceRunsOut(s) \/ ListenerFails(s) \/ CloseDatabase(s)
  BY <1>5 DEF Interrupt, Drained, GraceRunsOut, ListenerFails, CloseDatabase, Enter, TypeOK
<1>6. CASE Vanish(s)
  <2>1. [pc |-> "lost"] \in Request
    BY DEF Request
  <2>2. calls' \in [Client -> Request]
    BY <1>6, <2>1 DEF Vanish, TypeOK
  <2>3. QED
    BY <1>6, <2>2 DEF Vanish, Enter, TypeOK
<1>7. CASE ConnectEnds(s) \/ BackoffEnds(s)
  BY <1>7 DEF ConnectEnds, BackoffEnds, TypeOK, lifecycle
<1>8. QED
  BY <1>1, <1>2, <1>3, <1>4, <1>5, <1>6, <1>7 DEF Boot, Shut, Exit, Crash

LEMMA OtherStepType ==
  ASSUME TypeOK,
         \/ \E j \in DOMAIN jobs : StepEnds(j) \/ StepEndsUnrecorded(j)
         \/ WorkerChanges \/ WorkerStops
  PROVE  TypeOK'
<1>0. ASSUME NEW j \in DOMAIN jobs, StepEndsUnrecorded(j) PROVE TypeOK'
  BY <1>0 DEF StepEndsUnrecorded, TypeOK, lifecycle
<1>1. ASSUME NEW j \in DOMAIN jobs, StepEnds(j) PROVE TypeOK'
  <2>1. jobs' \in Seq(JobRow) /\ DOMAIN jobs' = DOMAIN jobs
    <3>2. ASSUME NEW state \in {"succeeded", "failed"},
                 jobs' = [jobs EXCEPT ![j] = Job(state, @.by)]
          PROVE  jobs' \in Seq(JobRow) /\ DOMAIN jobs' = DOMAIN jobs
      <4>1. \A i \in DOMAIN jobs : jobs[i] \in JobRow
        BY JobFields
      <4>2. Job(state, jobs[j].by) \in JobRow
        BY <1>1, JobFields DEF Job, JobRow
      <4>3. jobs' \in [DOMAIN jobs -> JobRow]
        BY <3>2, <4>1, <4>2 DEF TypeOK
      <4>4. QED
        BY <4>3, JobsType
    <3>3. QED
      BY <1>1, <3>2 DEF StepEnds
  <2>2. QED
    BY <1>1, <2>1 DEF StepEnds, TypeOK, lifecycle
<1>2. CASE WorkerChanges
  BY <1>2 DEF WorkerChanges, TypeOK, lifecycle
<1>3. CASE WorkerStops
  BY <1>3 DEF WorkerStops, TypeOK, lifecycle
<1>4. QED
  BY <1>0, <1>1, <1>2, <1>3
-----------------------------------------------------------------------------
(* Requests.                                                                 *)

Same == UNCHANGED <<phase, alone, pool, undrained, port, held, jobs, work, unrecorded>>

(* A step that lets nobody in and creates nothing. *)
Quiet ==
  /\ Same
  /\ \A c \in Client, s \in Servers :
       Inside(c, s)' => Inside(c, s) /\ (calls'[c].http2 <=> calls[c].http2)

LEMMA QuietKeeps == ASSUME Structure, Quiet PROVE Structure'
<1>1. \A s \in Servers : Empty(s) => Empty(s)'
  BY DEF Quiet, Same, Empty
<1>2. PortIsServing' /\ PoolFollowsPhase' /\ AloneIsAlone' /\ RecoveredIsQuiet'
      /\ RunningMeansWorkedOn'
  BY DEF Structure, Quiet, Same, PortIsServing, PoolFollowsPhase, AloneIsAlone, Booting,
         RecoveredIsQuiet, RunningMeansWorkedOn, Running
<1>3. BootersAreEmpty' /\ AloneServes'
  BY <1>1 DEF Structure, Quiet, Same, BootersAreEmpty, AloneServes
<1>4. DrainedStays'
  BY DEF Structure, Quiet, Same, DrainedStays
<1>5. QED
  BY <1>2, <1>3, <1>4 DEF Structure

(* Only the request that moves can be elsewhere, and it stays where it is.   *)
LEMMA OneCallMoves ==
  ASSUME TypeOK, NEW c \in Client, NEW r, Same, calls' = [calls EXCEPT ![c] = r],
         \/ r.pc \notin {"inside", "probing", "replying"}
         \/ /\ calls[c].pc \in {"inside", "probing", "replying"}
            /\ r.server = calls[c].server /\ r.http2 = calls[c].http2
  PROVE  Quiet
<1>1. \A d \in Client : d # c => calls'[d] = calls[d]
  BY DEF TypeOK
<1>2. calls'[c] = r
  BY DEF TypeOK
<1>3. QED
  BY <1>1, <1>2 DEF Quiet, Inside

LEMMA AnswerStays ==
  ASSUME TypeOK, NEW c \in Client, NEW heard, NEW told, Same,
         calls[c].pc \in {"inside", "probing"}, calls' = [calls EXCEPT ![c] = Answer(c, heard, told)]
  PROVE  Quiet
<1> DEFINE r == Answer(c, heard, told)
<1>1. r.server = calls[c].server /\ r.http2 = calls[c].http2
  BY DEF Answer
<1>2. QED
  BY <1>1, OneCallMoves

(* A page asks, or is told. *)
LEMMA PageStep ==
  ASSUME TypeOK, Structure, NEW p \in Pages,
         PollFails(p) \/ Probe(p) \/ WorkerAnswers(p) \/ ProbeFails(p)
  PROVE  Structure'
<1>1. CASE PollFails(p)
  BY <1>1, QuietKeeps DEF PollFails, lifecycle, Quiet, Same, Inside
<1>2. CASE Probe(p)
  <2>1. Same /\ p \in Client /\ calls[p].pc = "inside"
    BY <1>2 DEF Probe, Waiting, lifecycle, Same, Client
  <2>2. CASE calls' = [calls EXCEPT ![p] = Answer(p, "the fake", SystemHealth("ok"))]
    BY <2>1, <2>2, AnswerStays, QuietKeeps
  <2>3. CASE calls' = [calls EXCEPT ![p] =
               At("probing", calls[p].server, "health", calls[p].http2)]
    BY <2>1, <2>3, OneCallMoves, QuietKeeps DEF At
  <2>4. QED
    BY <1>2, <2>2, <2>3 DEF Probe
<1>3. CASE WorkerAnswers(p)
  <2>1. Quiet
    BY <1>3, AnswerStays DEF WorkerAnswers, lifecycle, Same, Client
  <2>2. QED
    BY <2>1, QuietKeeps
<1>4. CASE ProbeFails(p)
  <2>1. Quiet
    BY <1>4, AnswerStays DEF ProbeFails, lifecycle, Same, Client
  <2>2. QED
    BY <2>1, QuietKeeps
<1>5. QED
  BY <1>1, <1>2, <1>3, <1>4

LEMMA ReplyStep ==
  ASSUME TypeOK, Structure, NEW c \in Client,
         Panic(c) \/ HandleRead(c) \/ Deliver(c) \/ Lost(c)
  PROVE  Structure'
<1>1. CASE Panic(c)
  BY <1>1, AnswerStays, QuietKeeps DEF Panic, lifecycle, Same
<1>2. CASE HandleRead(c)
  BY <1>2, AnswerStays, QuietKeeps DEF HandleRead, Waiting, lifecycle, Same
<1>3. CASE Deliver(c) \/ Lost(c)
  <2>1. Same /\ calls' = [calls EXCEPT ![c] = Idle]
    BY <1>3 DEF Deliver, Lost, lifecycle, Same
  <2>2. Idle.pc \notin {"inside", "probing", "replying"}
    BY DEF Idle
  <2>3. Quiet
    BY <2>1, <2>2, OneCallMoves
  <2>4. QED
    BY <2>3, QuietKeeps
<1>4. QED
  BY <1>1, <1>2, <1>3

(* A request comes in: through the port, or on a connection that is held.    *)
Enters(c, s, http2) ==
  /\ port = s \/ (http2 /\ held[c] = s)
  /\ \A d \in Client, q \in Servers :
       Inside(d, q)' => \/ d = c /\ q = s /\ calls'[c].http2 = http2
                        \/ Inside(d, q) /\ calls'[d].http2 = calls[d].http2
  /\ \A d \in Client, q \in Servers :
       held'[d] = q => held[d] = q \/ (d = c /\ q = s)
  /\ UNCHANGED <<phase, alone, pool, undrained, port, jobs, work, unrecorded>>

LEMMA EntersKeeps ==
  ASSUME TypeOK, Structure, NEW c \in Client, NEW s \in Servers, NEW http2 \in BOOLEAN,
         Enters(c, s, http2)
  PROVE  Structure'
<1>1. PortIsServing' /\ PoolFollowsPhase' /\ AloneIsAlone' /\ RecoveredIsQuiet'
      /\ RunningMeansWorkedOn'
  BY DEF Structure, Enters, PortIsServing, PoolFollowsPhase, AloneIsAlone, Booting,
         RecoveredIsQuiet, RunningMeansWorkedOn, Running
<1>2. \A q \in Servers : q # s /\ Empty(q) => Empty(q)'
  BY DEF Enters, Empty
<1>3. phase[s] \notin {"off", "configured", "opened", "recovered"}
  BY DEF Enters, Structure, PortIsServing, BootersAreEmpty, Empty
<1>4. BootersAreEmpty'
  BY <1>2, <1>3 DEF Structure, Enters, BootersAreEmpty
<1>5. AloneServes'
  <2> SUFFICES ASSUME NEW a \in Servers, alone[a], phase[a] = "serving",
                      NEW q \in Servers \ {a}
               PROVE  Empty(q)'
    BY DEF AloneServes, Enters
  <2>1. Empty(q) /\ port = a
    BY DEF Structure, AloneServes, PortIsServing
  <2>2. q # s
    BY <2>1 DEF Enters, Empty
  <2>3. QED
    BY <1>2, <2>1, <2>2
<1>6. DrainedStays'
  <2>1. http2 \/ phase[s] = "serving"
    BY DEF Enters, Structure, PortIsServing
  <2>2. QED
    BY <2>1 DEF Structure, DrainedStays, Enters
<1>7. QED
  BY <1>1, <1>4, <1>5, <1>6 DEF Structure

LEMMA ArrivalStep ==
  ASSUME TypeOK, Structure, NEW c \in Client, Poll(c) \/ Call(c)
  PROVE  Structure'
<1>1. ASSUME NEW s \in Servers, NEW op, NEW http2 \in BOOLEAN,
             port = s \/ (http2 /\ held[c] = s),
             calls' = [calls EXCEPT ![c] = Arrival(s, op, http2)],
             held' = (IF http2 THEN [held EXCEPT ![c] = s] ELSE held) \/ held' = held,
             UNCHANGED <<phase, alone, pool, undrained, port, jobs, work, unrecorded>>
      PROVE  Structure'
  <2>1. \A d \in Client : d # c => calls'[d] = calls[d]
    BY <1>1 DEF TypeOK
  <2>2. calls'[c] = Arrival(s, op, http2)
    BY <1>1 DEF TypeOK
  <2>3. \A d \in Client, q \in Servers : held'[d] = q => held[d] = q \/ (d = c /\ q = s)
    BY <1>1 DEF TypeOK
  <2>4. \A d \in Client, q \in Servers :
          Inside(d, q)' => \/ d = c /\ q = s /\ calls'[c].http2 = http2
                           \/ Inside(d, q) /\ calls'[d].http2 = calls[d].http2
    BY <2>1, <2>2 DEF Inside, Arrival, At
  <2>5. Enters(c, s, http2)
    BY <1>1, <2>3, <2>4 DEF Enters
  <2>6. QED
    BY <2>5, EntersKeeps
<1>2. CASE Poll(c)
  <2>1. port \in Servers
    BY <1>2 DEF Poll, TypeOK
  <2>2. QED
    BY <1>1, <1>2, <2>1 DEF Poll, lifecycle
<1>3. CASE Call(c)
  BY <1>1, <1>3 DEF Call, lifecycle
<1>4. QED
  BY <1>2, <1>3

(* A job is created by whoever may hold a request.                           *)
LEMMA HandleRunStep ==
  ASSUME TypeOK, Structure, NEW c \in Client, HandleRun(c)
  PROVE  Structure'
<1> DEFINE s == calls[c].server
<1>1. /\ s \in Servers /\ Inside(c, s)
      /\ UNCHANGED <<phase, alone, pool, undrained, port, held, unrecorded>>
  BY ServerOfCall DEF HandleRun, Waiting, Inside, lifecycle
<1>2. CASE UNCHANGED <<jobs, work>>
  <2>1. Same /\ calls[c].pc = "inside"
    BY <1>1, <1>2 DEF Same, HandleRun, Waiting
  <2>2. \E told : calls' = [calls EXCEPT ![c] = Answer(c, "nothing", told)]
    BY DEF HandleRun
  <2>3. Quiet
    BY <2>1, <2>2, AnswerStays
  <2>4. QED
    BY <2>3, QuietKeeps
<1>3. CASE /\ Running = {} /\ jobs' = Append(jobs, Job("running", s))
           /\ work' = work \cup {Len(jobs) + 1}
           /\ calls' = [calls EXCEPT ![c] = Answer(c, "nothing", Done)]
  <2>1. /\ \A j \in DOMAIN jobs : j \in DOMAIN jobs' /\ jobs'[j] = jobs[j]
        /\ DOMAIN jobs' = DOMAIN jobs \cup {Len(jobs) + 1}
        /\ jobs'[Len(jobs) + 1] = Job("running", s)
    BY <1>3 DEF TypeOK
  <2>2. Running' = {Len(jobs) + 1}
    BY <1>3, <2>1 DEF Running, Job
  <2>3. \A d \in Client, q \in Servers :
          Inside(d, q)' => Inside(d, q) /\ (calls'[d].http2 <=> calls[d].http2)
    <3>1. \A d \in Client : d # c => calls'[d] = calls[d]
      BY <1>3 DEF TypeOK
    <3>2. calls'[c] = Answer(c, "nothing", Done)
      BY <1>3 DEF TypeOK
    <3>3. QED
      BY <1>1, <3>1, <3>2 DEF Inside, Answer
  <2>4. phase[s] \notin {"off", "configured", "opened", "recovered"}
    BY <1>1 DEF Structure, BootersAreEmpty, Empty
  <2>5. \A q \in Servers : q # s /\ Empty(q) => Empty(q)'
    <3>1. \A j \in work' : (j \in work /\ jobs'[j].by = jobs[j].by) \/ jobs'[j].by = s
      BY <1>3, <2>1 DEF Job, TypeOK
    <3>2. QED
      BY <1>1, <2>3, <3>1 DEF Empty
  <2>6. PortIsServing' /\ PoolFollowsPhase' /\ AloneIsAlone'
    BY <1>1 DEF Structure, PortIsServing, PoolFollowsPhase, AloneIsAlone, Booting
  <2>7. BootersAreEmpty'
    BY <1>1, <2>4, <2>5 DEF Structure, BootersAreEmpty
  <2>8. RecoveredIsQuiet'
    BY <1>1, <2>4 DEF Structure, AloneIsAlone, Booting, BootersAreEmpty, RecoveredIsQuiet
  <2>9. \A a \in Servers : alone[a] /\ phase[a] = "serving" => a = s
    BY <1>1 DEF Structure, AloneServes, Empty
  <2>10. AloneServes'
    BY <1>1, <2>5, <2>9 DEF Structure, AloneServes
  <2>11. RunningMeansWorkedOn'
    BY <1>1, <1>3, <2>1, <2>2, <2>9 DEF RunningMeansWorkedOn, Job
  <2>12. DrainedStays'
    BY <1>1, <2>3 DEF Structure, DrainedStays
  <2>13. QED
    BY <2>6, <2>7, <2>8, <2>10, <2>11, <2>12 DEF Structure
<1>4. QED
  BY <1>2, <1>3 DEF HandleRun

-----------------------------------------------------------------------------
(* Processes.                                                                *)

(* What a process does to its own phase leaves requests and work alone. *)
Inner == UNCHANGED <<calls, held, work, unrecorded>> /\ DOMAIN jobs' = DOMAIN jobs
         /\ \A j \in DOMAIN jobs : jobs'[j].by = jobs[j].by

LEMMA InnerKeepsEmpty ==
  ASSUME TypeOK, Inner, NEW q \in Servers PROVE Empty(q)' <=> Empty(q)
<1>1. \A j \in work : jobs'[j].by = jobs[j].by
  BY DEF Inner, TypeOK
<1>2. QED
  BY <1>1 DEF Inner, Empty, Inside

LEMMA ConfigureStep ==
  ASSUME TypeOK, Structure, NEW s \in Servers, Configure(s)
  PROVE  Structure'
<1>1. CASE UNCHANGED <<phase, alone, channel>>
  BY <1>1, QuietKeeps DEF Configure, Quiet, Same, Inside
<1>2. CASE /\ phase' = [phase EXCEPT ![s] = "configured"]
           /\ alone' = [q \in Servers |->
                IF q = s THEN \A r \in Servers \ {s} : phase[r] = "off"
                         ELSE alone[q] /\ ~Booting(q)]
  <2>1. /\ phase[s] = "off" /\ phase'[s] = "configured"
        /\ \A q \in Servers : q # s => phase'[q] = phase[q]
    BY <1>2 DEF Configure, TypeOK
  <2>2. /\ alone'[s] => \A r \in Servers \ {s} : phase[r] = "off"
        /\ \A q \in Servers : q # s /\ alone'[q] => alone[q] /\ ~Booting(q)
    BY <1>2
  <2>3. Inner /\ UNCHANGED <<pool, undrained, port, jobs>>
    BY <1>2 DEF Configure, Inner
  <2>4. PortIsServing' /\ PoolFollowsPhase' /\ DrainedStays'
    BY <2>1, <2>3 DEF Structure, PortIsServing, PoolFollowsPhase, DrainedStays, Inner, Inside
  <2>5. BootersAreEmpty' /\ AloneServes'
    BY <2>1, <2>2, <2>3, InnerKeepsEmpty DEF Structure, BootersAreEmpty, AloneServes
  <2>6. AloneIsAlone' /\ RecoveredIsQuiet'
    BY <2>1, <2>2, <2>3 DEF Structure, AloneIsAlone, RecoveredIsQuiet, Booting
  <2>7. RunningMeansWorkedOn'
    BY <2>1, <2>2, <2>3 DEF Structure, RunningMeansWorkedOn, Running, Inner
  <2>8. QED
    BY <2>4, <2>5, <2>6, <2>7 DEF Structure
<1>3. QED
  BY <1>1, <1>2 DEF Configure

LEMMA OpenStep ==
  ASSUME TypeOK, Structure, NEW s \in Servers, OpenDatabase(s)
  PROVE  Structure'
<1>1. /\ phase[s] = "configured" /\ phase'[s] \in {"opened", "closed"}
      /\ \A q \in Servers : q # s => phase'[q] = phase[q]
      /\ \A q \in Servers : q # s => pool'[q] = pool[q]
      /\ phase'[s] = "opened" => pool'[s] = "open"
      /\ pool'[s] = "closed" => pool[s] = "closed"
  BY DEF OpenDatabase, Enter, TypeOK
<1>2. Inner /\ UNCHANGED <<alone, undrained, port, jobs>>
  BY DEF OpenDatabase, Inner
<1>3. PortIsServing' /\ PoolFollowsPhase'
  BY <1>1, <1>2 DEF Structure, PortIsServing, PoolFollowsPhase
<1>4. BootersAreEmpty' /\ AloneServes'
  BY <1>1, <1>2, InnerKeepsEmpty DEF Structure, BootersAreEmpty, AloneServes
<1>5. AloneIsAlone' /\ RecoveredIsQuiet' /\ RunningMeansWorkedOn'
  BY <1>1, <1>2 DEF Structure, AloneIsAlone, RecoveredIsQuiet, RunningMeansWorkedOn,
                    Running, Booting, Inner
<1>6. DrainedStays'
  BY <1>1, <1>2 DEF Structure, DrainedStays, BootersAreEmpty, Empty, Inner, Inside
<1>7. QED
  BY <1>3, <1>4, <1>5, <1>6 DEF Structure

LEMMA RecoverStep ==
  ASSUME TypeOK, Structure, NEW s \in Servers, Recover(s)
  PROVE  Structure'
<1>1. /\ phase[s] = "opened" /\ phase'[s] \in {"recovered", "closing"}
      /\ \A q \in Servers : q # s => phase'[q] = phase[q]
      /\ UNCHANGED <<alone, pool, undrained, port, calls, held, work, unrecorded>>
  BY DEF Recover, Enter, TypeOK
<1>2. /\ Inner
      /\ Running' \subseteq Running
      /\ phase'[s] = "recovered" => Running' = {}
  <2>1. CASE UNCHANGED jobs /\ phase'[s] = "closing"
    BY <1>1, <2>1 DEF Inner, Running
  <2>2. CASE jobs' = [j \in DOMAIN jobs |->
               IF jobs[j].state = "running" THEN Job("interrupted", jobs[j].by) ELSE jobs[j]]
    BY <1>1, <2>2 DEF Inner, Running, Job
  <2>3. QED
    BY <2>1, <2>2 DEF Recover, Enter, TypeOK
<1>3. PortIsServing' /\ PoolFollowsPhase'
  BY <1>1 DEF Structure, PortIsServing, PoolFollowsPhase
<1>4. BootersAreEmpty' /\ AloneServes'
  BY <1>1, <1>2, InnerKeepsEmpty DEF Structure, BootersAreEmpty, AloneServes
<1>5. AloneIsAlone' /\ RecoveredIsQuiet'
  BY <1>1, <1>2 DEF Structure, AloneIsAlone, RecoveredIsQuiet, Booting
<1>6. RunningMeansWorkedOn'
  BY <1>1, <1>2 DEF Structure, RunningMeansWorkedOn, Inner, Running
<1>7. DrainedStays'
  BY <1>1 DEF Structure, DrainedStays, BootersAreEmpty, Empty, Inside
<1>8. QED
  BY <1>3, <1>4, <1>5, <1>6, <1>7 DEF Structure

LEMMA ListenStep ==
  ASSUME TypeOK, Structure, NEW s \in Servers, Listen(s)
  PROVE  Structure'
<1>1. /\ phase[s] = "recovered"
      /\ \/ port = NoServer /\ port' = s /\ phase'[s] = "serving"
         \/ port' = port /\ port # NoServer /\ phase'[s] = "closing"
      /\ \A q \in Servers : q # s => phase'[q] = phase[q]
      /\ UNCHANGED <<alone, pool, undrained, calls, held, jobs, work, unrecorded>>
  BY DEF Listen, Enter, TypeOK
<1>2. Inner /\ Running' = Running
  BY <1>1 DEF Inner, Running
<1>3. PortIsServing' /\ PoolFollowsPhase'
  BY <1>1, NamesAssumption DEF Structure, PortIsServing, PoolFollowsPhase, NoServer
<1>4. BootersAreEmpty'
  BY <1>1, <1>2, InnerKeepsEmpty DEF Structure, BootersAreEmpty
<1>5. AloneServes'
  <2>1. alone[s] => \A q \in Servers \ {s} : Empty(q)
    BY <1>1 DEF Structure, AloneIsAlone, Booting, BootersAreEmpty
  <2>2. QED
    BY <1>1, <1>2, <2>1, InnerKeepsEmpty DEF Structure, AloneServes
<1>6. AloneIsAlone' /\ RecoveredIsQuiet'
  BY <1>1, <1>2 DEF Structure, AloneIsAlone, RecoveredIsQuiet, Booting
<1>7. RunningMeansWorkedOn'
  BY <1>1, <1>2 DEF Structure, RunningMeansWorkedOn, RecoveredIsQuiet
<1>8. DrainedStays'
  BY <1>1 DEF Structure, DrainedStays, BootersAreEmpty, Empty, Inside
<1>9. QED
  BY <1>3, <1>4, <1>5, <1>6, <1>7, <1>8 DEF Structure

LEMMA ShutStep ==
  ASSUME TypeOK, Structure, NEW s \in Servers,
         \/ Interrupt(s) \/ Drained(s) \/ GraceRunsOut(s)
         \/ ListenerFails(s) \/ CloseDatabase(s)
  PROVE  Structure'
<1>1. /\ \A q \in Servers : q # s =>
           phase'[q] = phase[q] /\ pool'[q] = pool[q] /\ undrained'[q] = undrained[q]
      /\ UNCHANGED <<alone, calls, held, jobs, work, unrecorded>>
      /\ \/ /\ phase[s] = "serving" /\ port' = NoServer /\ pool'[s] = pool[s]
            /\ phase'[s] = "draining" \/ (phase'[s] = "closing" /\ undrained'[s])
         \/ /\ phase[s] = "draining" /\ phase'[s] = "closing" /\ port' = port
            /\ pool'[s] = pool[s]
            /\ undrained'[s] \/ \A c \in Client : Inside(c, s) => calls[c].http2
         \/ /\ phase[s] = "closing" /\ phase'[s] = "closed" /\ port' = port
            /\ undrained'[s] = undrained[s]
  BY DEF Interrupt, Drained, GraceRunsOut, ListenerFails, CloseDatabase, Enter, TypeOK
<1>2. Inner /\ Running' = Running
  BY <1>1 DEF Inner, Running
<1>3. PortIsServing'
  <2>0. PortIsServing /\ NoServer \notin Servers
    BY NamesAssumption DEF Structure, NoServer
  <2>1. CASE phase[s] = "serving" /\ phase'[s] # "serving" /\ port' = NoServer
    BY <1>1, <2>0, <2>1 DEF PortIsServing
  <2>2. CASE phase[s] # "serving" /\ phase'[s] # "serving" /\ port' = port
    BY <1>1, <2>0, <2>2 DEF PortIsServing
  <2>3. QED
    BY <1>1, <2>1, <2>2
<1>4. PoolFollowsPhase'
  <2>0. PoolFollowsPhase
    BY DEF Structure
  <2>1. \/ phase'[s] = "closed"
        \/ phase'[s] \in {"draining", "closing"} /\ pool'[s] = "open"
    BY <1>1, <2>0 DEF PoolFollowsPhase
  <2>2. QED
    BY <1>1, <2>0, <2>1 DEF PoolFollowsPhase
<1>5. BootersAreEmpty' /\ AloneServes'
  BY <1>1, <1>2, InnerKeepsEmpty DEF Structure, BootersAreEmpty, AloneServes
<1>6. AloneIsAlone' /\ RecoveredIsQuiet' /\ RunningMeansWorkedOn'
  BY <1>1, <1>2 DEF Structure, AloneIsAlone, RecoveredIsQuiet, RunningMeansWorkedOn, Booting
<1>7. DrainedStays'
  BY <1>1 DEF Structure, DrainedStays, Inside
<1>8. QED
  BY <1>3, <1>4, <1>5, <1>6, <1>7 DEF Structure

LEMMA VanishStep ==
  ASSUME TypeOK, Structure, NEW s \in Servers, Vanish(s)
  PROVE  Structure'
<1>1. /\ phase'[s] = "off" /\ ~alone'[s] /\ pool'[s] = "none"
      /\ \A q \in Servers : q # s => /\ phase'[q] = phase[q] /\ alone'[q] = alone[q]
                                     /\ pool'[q] = pool[q] /\ undrained'[q] = undrained[q]
      /\ port' = IF port = s THEN NoServer ELSE port
      /\ UNCHANGED <<jobs, unrecorded>> /\ work' = {j \in work : jobs[j].by # s}
  BY DEF Vanish, Enter, TypeOK
<1>2. /\ \A c \in Client, q \in Servers : Inside(c, q)' => Inside(c, q) /\ q # s
      /\ \A c \in Client : calls'[c] # calls[c] => \A q \in Servers : ~Inside(c, q)'
      /\ \A c \in Client, q \in Servers : held'[c] = q => held[c] = q /\ q # s
  BY NamesAssumption DEF Vanish, TypeOK, Inside, NoServer
<1>3. Empty(s)' /\ \A q \in Servers : Empty(q) => Empty(q)'
  BY <1>1, <1>2 DEF Empty
<1>4. PortIsServing' /\ PoolFollowsPhase'
  <2>0. PortIsServing /\ PoolFollowsPhase /\ NoServer \notin Servers
    BY NamesAssumption DEF Structure, NoServer
  <2>1. PortIsServing'
    BY <1>1, <2>0 DEF PortIsServing
  <2>2. PoolFollowsPhase'
    BY <1>1, <2>0 DEF PoolFollowsPhase
  <2>3. QED
    BY <2>1, <2>2
<1>5. BootersAreEmpty' /\ AloneServes'
  BY <1>1, <1>3 DEF Structure, BootersAreEmpty, AloneServes
<1>6. AloneIsAlone' /\ RecoveredIsQuiet' /\ RunningMeansWorkedOn'
  BY <1>1 DEF Structure, AloneIsAlone, RecoveredIsQuiet, RunningMeansWorkedOn, Running, Booting
<1>7. DrainedStays'
  BY <1>1, <1>2 DEF Structure, DrainedStays
<1>8. QED
  BY <1>4, <1>5, <1>6, <1>7 DEF Structure

LEMMA StepEndsStep ==
  ASSUME TypeOK, Structure, NEW i \in DOMAIN jobs, StepEnds(i) \/ StepEndsUnrecorded(i)
  PROVE  Structure'
<1>1. /\ i \in work /\ work' = work \ {i} /\ unrecorded \subseteq unrecorded'
      /\ UNCHANGED <<phase, alone, pool, undrained, port, calls, held>>
  BY DEF StepEnds, StepEndsUnrecorded, lifecycle
<1>2. /\ DOMAIN jobs' = DOMAIN jobs
      /\ \A j \in DOMAIN jobs : jobs'[j].by = jobs[j].by
      /\ Running' \subseteq Running
      /\ i \in Running' => i \in unrecorded'
  <2>1. CASE StepEndsUnrecorded(i)
    BY <2>1 DEF StepEndsUnrecorded, Running
  <2>2. CASE StepEnds(i)
    <3>1. PICK state \in {"succeeded", "failed"} : jobs' = [jobs EXCEPT ![i] = Job(state, @.by)]
      BY <2>2 DEF StepEnds
    <3>2. DOMAIN jobs' = DOMAIN jobs /\ jobs'[i] = Job(state, jobs[i].by)
          /\ \A j \in DOMAIN jobs : j # i => jobs'[j] = jobs[j]
      BY <3>1 DEF TypeOK
    <3>3. QED
      BY <3>2 DEF Running, Job
  <2>3. QED
    BY <2>1, <2>2
<1>3. \A q \in Servers : Empty(q) => Empty(q)'
  BY <1>1, <1>2 DEF Empty, Inside, TypeOK
<1>4. PortIsServing' /\ PoolFollowsPhase' /\ AloneIsAlone' /\ RecoveredIsQuiet' /\ DrainedStays'
  BY <1>1, <1>2 DEF Structure, PortIsServing, PoolFollowsPhase, AloneIsAlone, Booting,
                    RecoveredIsQuiet, DrainedStays, Inside
<1>5. BootersAreEmpty' /\ AloneServes'
  BY <1>1, <1>3 DEF Structure, BootersAreEmpty, AloneServes
<1>6. RunningMeansWorkedOn'
  <2> SUFFICES ASSUME NEW s \in Servers, phase[s] = "serving", alone[s],
                      NEW j \in Running'
               PROVE  jobs'[j].by = s /\ (j \in work' \/ j \in unrecorded')
    BY <1>1 DEF RunningMeansWorkedOn
  <2>1. j \in Running /\ j \in DOMAIN jobs
    BY <1>2 DEF Running
  <2>2. jobs[j].by = s /\ (j \in work \/ j \in unrecorded)
    BY <2>1 DEF Structure, RunningMeansWorkedOn
  <2>3. QED
    BY <1>1, <1>2, <2>1, <2>2
<1>7. QED
  BY <1>4, <1>5, <1>6 DEF Structure

LEMMA OutsideStep ==
  ASSUME Structure,
         \/ \E s \in Servers : ConnectEnds(s) \/ BackoffEnds(s)
         \/ WorkerChanges \/ WorkerStops \/ UNCHANGED vars
  PROVE  Structure'
<1>1. Same /\ calls' = calls
  BY DEF ConnectEnds, BackoffEnds, WorkerChanges, WorkerStops, lifecycle, vars, Same
<1>2. QED
  BY <1>1, QuietKeeps DEF Quiet, Inside, Same
-----------------------------------------------------------------------------
(* The invariant.                                                            *)

LEMMA InitServerInv == Init => ServerInv
<1> SUFFICES ASSUME Init PROVE Structure
  BY InitType DEF ServerInv
<1>1. \A s \in Servers : Empty(s)
  BY NamesAssumption DEF Init, Empty, Inside, Idle, NoServer
<1>2. \A s \in Servers : phase[s] = "off" /\ ~alone[s] /\ pool[s] = "none" /\ port # s
  BY NamesAssumption DEF Init, NoServer
<1>3. QED
  BY <1>1, <1>2 DEF Structure, PortIsServing, BootersAreEmpty, PoolFollowsPhase, AloneIsAlone,
                    RecoveredIsQuiet, AloneServes, RunningMeansWorkedOn, DrainedStays

LEMMA NextServerInv == ServerInv /\ [Next]_vars => ServerInv'
<1> SUFFICES ASSUME TypeOK, Structure, [Next]_vars PROVE TypeOK' /\ Structure'
  BY DEF ServerInv
<1>1. ASSUME NEW s \in Servers, Boot(s) \/ Shut(s) \/ ConnectEnds(s) \/ BackoffEnds(s)
      PROVE  TypeOK' /\ Structure'
  BY <1>1, ServerStepType, ConfigureStep, OpenStep, RecoverStep, ListenStep, ShutStep,
     VanishStep, OutsideStep DEF Boot, Shut, Exit, Crash
<1>2. ASSUME NEW p \in Pages, Check(p) PROVE TypeOK' /\ Structure'
  BY <1>2, ClientStepType, PageStep, ArrivalStep DEF Check, Client
<1>3. ASSUME NEW c \in Callers, Ask(c) PROVE TypeOK' /\ Structure'
  BY <1>3, ClientStepType, ReplyStep, ArrivalStep, HandleRunStep DEF Ask, Client
<1>4. ASSUME NEW c \in Client, Deliver(c) \/ Lost(c) PROVE TypeOK' /\ Structure'
  BY <1>4, ClientStepType, ReplyStep
<1>5. ASSUME NEW j \in DOMAIN jobs, StepEnds(j) \/ StepEndsUnrecorded(j)
      PROVE  TypeOK' /\ Structure'
  BY <1>5, OtherStepType, StepEndsStep
<1>6. CASE WorkerChanges \/ WorkerStops
  BY <1>6, OtherStepType, OutsideStep
<1>7. CASE UNCHANGED vars
  BY <1>7, OutsideStep DEF vars, TypeOK
<1>8. QED
  BY <1>1, <1>2, <1>3, <1>4, <1>5, <1>6, <1>7 DEF Next

(* Every value keeps its type, in every run. *)
THEOREM ServerTypes == Spec => []TypeOK
<1>1. ServerInv => TypeOK
  BY DEF ServerInv
<1>2. QED
  BY InitServerInv, NextServerInv, <1>1, PTL DEF Spec

(* A job a lone server calls running is that server's own, worked on or with *)
(* an end it failed to record, however often processes crash, overlap, lose  *)
(* records and restart (RecoverInterrupted, main.go).                        *)
THEOREM RunningIsTrue == Spec => []RunningMeansWorkedOn
<1>1. ServerInv => RunningMeansWorkedOn
  BY DEF ServerInv, Structure
<1>2. QED
  BY InitServerInv, NextServerInv, <1>1, PTL DEF Spec

(* The pool closes under no HTTP/1.1 request unless the grace ran out or the *)
(* listener failed, for any number of requests that arrive meanwhile.        *)
THEOREM ClosingIsOrderly == Spec => []ClosesUnderNobody
<1>1. ServerInv => ClosesUnderNobody
  BY DEF ServerInv, Structure, PoolFollowsPhase, DrainedStays, ClosesUnderNobody
<1>2. QED
  BY InitServerInv, NextServerInv, <1>1, PTL DEF Spec
-----------------------------------------------------------------------------
(* Health.                                                                   *)

(* The API is up, so the system is as well as its worker. *)
LEMMA WorstIsTheWorkers ==
  ASSUME NEW ai \in HealthStatus
  PROVE  WorstOf({"ok", ai}) = ai
<1> DEFINE Worst(w) == \A s \in {"ok", ai} : severity[s] <= severity[w]
<1>1. severity["ok"] = 0 /\ severity[ai] \in Nat /\ (ai # "ok" => severity[ai] > 0)
  BY DEF severity, HealthStatus
<1>2. \A w \in {"ok", ai} : Worst(w) <=> w = ai
  BY <1>1
<1>3. (CHOOSE w \in {"ok", ai} : Worst(w)) = ai
  BY <1>2
<1>4. QED
  BY <1>3 DEF WorstOf

LEMMA WordsKeepTheirMeaning ==
  /\ \A ai \in HealthStatus : toProtoStatus(ai) = OK <=> ai = "ok"
  /\ toProtoStatus("down") = DOWN
  /\ \A n : fromProtoStatus(n) \in HealthStatus /\ (fromProtoStatus(n) = "ok" => n = OK)
BY DEF toProtoStatus, fromProtoStatus, HealthStatus, severity, OK, DEGRADED, DOWN, UNSPECIFIED

(* What an answer may say, given what was heard. *)
Earned(heard, told) ==
  /\ OK \in {told.status, told.ai} => heard \in {OK, "the fake"}
  /\ heard = "silence" => told.status = DOWN /\ told.ai = DOWN

LEMMA ToldIsHeard ==
  ASSUME NEW ai \in HealthStatus, NEW heard,
         ai = "ok" => heard \in {OK, "the fake"},
         heard = "silence" => ai = "down"
  PROVE  Earned(heard, SystemHealth(ai))
<1>1. SystemHealth(ai).status = toProtoStatus(ai) /\ SystemHealth(ai).ai = toProtoStatus(ai)
  BY WorstIsTheWorkers DEF SystemHealth
<1>2. QED
  BY <1>1, WordsKeepTheirMeaning DEF Earned

(* A step that leaves every page's call alone, or ends it, tells nothing. *)
LEMMA NothingTold ==
  ASSUME HealthIsEarned,
         \A p \in Pages : calls'[p].pc # "replying" \/ calls'[p] = calls[p]
  PROVE  HealthIsEarned'
BY DEF HealthIsEarned

LEMMA AnswerIsEarned ==
  ASSUME TypeOK, HealthIsEarned, NEW p \in Pages, NEW heard, NEW told, Earned(heard, told),
         calls' = [calls EXCEPT ![p] = Answer(p, heard, told)]
  PROVE  HealthIsEarned'
<1>1. calls'[p].heard = heard /\ calls'[p].told = told
  BY DEF TypeOK, Client, Answer
<1>2. \A q \in Pages : q # p => calls'[q] = calls[q]
  BY DEF TypeOK, Client
<1>3. QED
  BY <1>1, <1>2 DEF HealthIsEarned, Earned

(* A page's own step answers it with what was heard in that very call. *)
LEMMA CheckIsEarned ==
  ASSUME TypeOK, HealthIsEarned, NEW p \in Pages, Check(p)
  PROVE  HealthIsEarned'
<1>0. calls \in [Client -> Request] /\ p \in Client /\ Pages \subseteq Client
  BY DEF TypeOK, Client
<1>1. CASE Poll(p)
  BY <1>0, <1>1, NothingTold DEF Poll, Arrival, At
<1>2. CASE PollFails(p)
  BY <1>2, NothingTold DEF PollFails
<1>3. CASE Probe(p)
  <2>1. CASE calls' = [calls EXCEPT ![p] = Answer(p, "the fake", SystemHealth("ok"))]
    <3>1. Earned("the fake", SystemHealth("ok"))
      BY ToldIsHeard DEF HealthStatus, severity
    <3>2. QED
      BY <2>1, <3>1, AnswerIsEarned
  <2>2. CASE calls' = [calls EXCEPT ![p] =
               At("probing", calls[p].server, "health", calls[p].http2)]
    BY <1>0, <2>2, NothingTold DEF At
  <2>3. QED
    BY <1>3, <2>1, <2>2 DEF Probe
<1>4. CASE WorkerAnswers(p)
  <2>1. Earned(worker, SystemHealth(fromProtoStatus(worker)))
    BY <1>4, ToldIsHeard, WordsKeepTheirMeaning, NamesAssumption DEF WorkerAnswers
  <2>2. QED
    BY <1>4, <2>1, AnswerIsEarned DEF WorkerAnswers
<1>5. CASE ProbeFails(p)
  <2>1. Earned("silence", SystemHealth("down"))
    BY ToldIsHeard DEF HealthStatus, severity
  <2>2. QED
    BY <1>5, <2>1, AnswerIsEarned DEF ProbeFails
<1>6. QED
  BY <1>1, <1>2, <1>3, <1>4, <1>5 DEF Check

LEMMA NextIsEarned == TypeOK /\ HealthIsEarned /\ [Next]_vars => HealthIsEarned'
<1> SUFFICES ASSUME TypeOK, HealthIsEarned, [Next]_vars PROVE HealthIsEarned'
  OBVIOUS
<1>0. calls \in [Client -> Request] /\ Pages \subseteq Client /\ Idle.pc = "idle"
  BY DEF TypeOK, Client, Idle
<1>1. ASSUME NEW s \in Servers, Vanish(s) PROVE HealthIsEarned'
  <2>1. \A c \in Client : calls'[c].pc # "replying" \/ calls'[c] = calls[c]
    BY <1>1 DEF Vanish
  <2>2. QED
    BY <1>0, <2>1, NothingTold
<1>2. ASSUME calls' = calls PROVE HealthIsEarned'
  BY <1>2, NothingTold
<1>3. ASSUME NEW s \in Servers, Boot(s) \/ Shut(s) \/ ConnectEnds(s) \/ BackoffEnds(s)
      PROVE  HealthIsEarned'
  <2>1. CASE Exit(s) \/ Crash(s)
    BY <1>1, <2>1 DEF Exit, Crash
  <2>2. CASE ~(Exit(s) \/ Crash(s))
    BY <1>2, <1>3, <2>2 DEF Boot, Shut, Configure, OpenDatabase, Recover, Listen, Interrupt,
       Drained, GraceRunsOut, ListenerFails, CloseDatabase, ConnectEnds, BackoffEnds
  <2>3. QED
    BY <2>1, <2>2
<1>4. ASSUME NEW p \in Pages, Check(p) PROVE HealthIsEarned'
  BY <1>4, CheckIsEarned
<1>5. ASSUME NEW c \in Callers, Ask(c) PROVE HealthIsEarned'
  <2>1. \A p \in Pages : calls'[p] = calls[p]
    <3>1. c \notin Pages
      BY NamesAssumption
    <3>2. \E r : calls' = [calls EXCEPT ![c] = r]
      BY <1>5 DEF Ask, Call, Panic, HandleRead, HandleRun
    <3>3. QED
      BY <1>0, <3>1, <3>2
  <2>2. QED
    BY <2>1, NothingTold
<1>6. ASSUME NEW c \in Client, Deliver(c) \/ Lost(c) PROVE HealthIsEarned'
  <2>1. calls' = [calls EXCEPT ![c] = Idle]
    BY <1>6 DEF Deliver, Lost
  <2>2. QED
    BY <1>0, <2>1, NothingTold
<1>7. ASSUME NEW j \in DOMAIN jobs, StepEnds(j) \/ StepEndsUnrecorded(j)
      PROVE  HealthIsEarned'
  BY <1>2, <1>7 DEF StepEnds, StepEndsUnrecorded
<1>8. CASE WorkerChanges \/ WorkerStops \/ UNCHANGED vars
  BY <1>2, <1>8 DEF WorkerChanges, WorkerStops, vars
<1>9. QED
  BY <1>3, <1>4, <1>5, <1>6, <1>7, <1>8 DEF Next

(* Health is reported as good only if the worker said so during that very    *)
(* call, and a silent worker is down, for any set of reports a worker may    *)
(* make (WorstOf, fromProtoStatus, toProtoStatus).                           *)
THEOREM HealthIsHonest == Spec => []HealthIsEarned
<1>1. ASSUME Init PROVE HealthIsEarned
  <2>1. \A p \in Pages : calls[p].pc = "idle"
    BY <1>1 DEF Init, Idle, Client
  <2>2. QED
    BY <2>1 DEF HealthIsEarned
<1>2. QED
  BY <1>1, NextIsEarned, ServerTypes, PTL DEF Spec
=============================================================================
