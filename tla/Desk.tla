-------------------------------- MODULE Desk --------------------------------
(***************************************************************************)
(* The two doors of the system, and the people who come through them: the  *)
(* dashboard's tabs, which call the server with the messages of Wire, and  *)
(* terminals, whose `rewind` commands call the same services on the same   *)
(* database.  A call may cross others, be given up, or lose its answer,    *)
(* and people act on what they were last shown.                            *)
(*                                                                         *)
(* Every call but AddVideo is one transaction or one query of the single   *)
(* connection, so it is one step here.  AddVideo looks for a free id with  *)
(* one query per attempt and writes in a later transaction.  What happens  *)
(* inside a pipeline step is in Pipeline: here a step just ends.           *)
(***************************************************************************)
EXTENDS Wire, VideoIds, StoredTime

CONSTANTS Tabs, Terminals,  \* the people's ends of the system
          Steps,            \* what wiring registers: [from, running, to]
          Topics,           \* what people type as a topic
          Priorities,       \* and give as a priority, 0 for none
          Typed,            \* ids people type by hand, wrong ones among them
          TypedGates, TypedStatuses,  \* words people type for a gate and a status
          Filters,          \* what lists are asked for
          Ticks,            \* the instants the clock shows
          StartingTopics,   \* the videos that were queued before,
          StartingVideos,   \* and how far they may have come
          MaxCalls          \* bound on the calls made

(* A topic is text, a step names statuses of the pipeline, the clock counts, *)
(* and what was queued before went through the same guard.                   *)
ASSUME TopicsAssumption == Topics \cup StartingTopics \subseteq Seq(Character)
ASSUME StepsAssumption ==
  Steps \subseteq [from : PipelineStatus, running : PipelineStatus, to : PipelineStatus]
ASSUME ClockAssumption == Ticks \subseteq Nat /\ Ticks # {} /\ MaxCalls \in Nat
ASSUME StartAssumption ==
  /\ \A t \in StartingTopics : PathSafe(Slugify(t))
  /\ StartingVideos \subseteq Video

Client == Tabs \cup Terminals

VARIABLES rows,   \* the table videos: id -> row
          jobs,   \* the table jobs, in rowid order
          log,    \* the table review_log, in id order
          calls,  \* per client, its call in flight or just ended
          shown,  \* per client, the videos it was last shown
          clock, made

vars == <<rows, jobs, log, calls, shown, clock, made>>

Idle == [pc |-> "idle"]

-----------------------------------------------------------------------------
(* Requests, as the clients send them.  Tabs send wire numbers, terminals    *)
(* the words of the command line.                                            *)

(* gateLabel: the letter a person reads beside a gate's number. *)
gateLabel(n) == IF n \in DOMAIN Gate_name THEN <<"A","B","C","D","E","F">>[n] ELSE ""

(* parseGate: "A", "a" and "gate-a" all name Gate A. *)
gateWord == [A |-> "A", a |-> "A", gate_a |-> "A", B |-> "B", b |-> "B", gate_b |-> "B",
             C |-> "C", c |-> "C", D |-> "D", d |-> "D", E |-> "E", e |-> "E",
             F |-> "F", f |-> "F"]
ParseGate(word) == IF word \in DOMAIN gateWord THEN gateWord[word] ELSE NoGate

DecodeGate(c, g) == IF c \in Tabs THEN fromProtoGate(g) ELSE ParseGate(g)
DecodeStatus(c, s) == IF c \in Tabs THEN fromProtoStatus(s) ELSE s

(* The gate the person means: what the label beside the button says. *)
Meant(c, g) == IF c \in Tabs THEN gateLabel(g) ELSE ParseGate(g)

(* What the server tells of a row.  awaitingGate and isTerminal are derived   *)
(* here, once for every client.                                               *)
toProtoVideo(id, row) ==
  [ id |-> id, topic |-> row.topic, priority |-> row.priority,
    status |-> toProtoVideoStatus(row.video.status),
    rejectedTo |-> toProtoVideoStatus(row.video.rejectedTo),
    retryFrom |-> toProtoVideoStatus(row.video.retryFrom),
    createdAt |-> FormatSecond(row.createdAt),
    awaitingGate |-> toProtoGate(GateFor(row.video.status)),
    isTerminal |-> IsTerminal(row.video.status) ]

Now == FormatTime(clock)

-----------------------------------------------------------------------------
(* Tables.                                                                   *)

(* Mutant: "newest-relevant first", as the contract's comment has it. *)
NewestFirst(a, b) ==
  \/ rows[a].priority < rows[b].priority
  \/ rows[a].priority = rows[b].priority /\ TextBefore(rows[b].createdAt, rows[a].createdAt)

(* SELECT ... ORDER BY created_at and at: the order SQLite puts texts in,   *)
(* the rows of one text in the order they were written.                     *)
ListedBefore(a, b) ==
  \/ rows[a].priority < rows[b].priority
  \/ rows[a].priority = rows[b].priority /\ TextBefore(rows[a].createdAt, rows[b].createdAt)

(* awaitingReviewStatuses and the WHERE of List.  A wire status this build  *)
(* does not know asks for the empty status, which no row has.               *)
Matches(id, filter) ==
  /\ filter.statuses # {} =>
       rows[id].video.status \in {fromProtoStatus(n) : n \in filter.statuses}
  /\ filter.needsReviewOnly => rows[id].video.status \in {gates[g].from : g \in Gate}

(* All the ways SQLite may list what matches: rows that tie come anyhow. *)
Listings(filter) ==
  LET found == {id \in DOMAIN rows : Matches(id, filter)}
  IN  { s \in SetToSeqs(found) :
          \A i, j \in DOMAIN s : ListedBefore(s[i], s[j]) => i < j }

JobsOf(id) == {j \in DOMAIN jobs : jobs[j].video = id}

(* ORDER BY started_at DESC, rowid DESC LIMIT 1 *)
Latest(id) ==
  { j \in JobsOf(id) :
      \A k \in JobsOf(id) \ {j} :
        \/ TextBefore(jobs[k].startedAt, jobs[j].startedAt)
        \/ jobs[k].startedAt = jobs[j].startedAt /\ k < j }

-----------------------------------------------------------------------------
(* Calls.                                                                    *)

Arrived(c, op) == calls[c].pc = "arrived" /\ calls[c].op = op

NoMessage == [nothing |-> TRUE]

(* The server tells a kind of error as a code, a command as its exit status. *)
Outcome(c, error) ==
  IF c \in Tabs THEN toConnectError(error) ELSE IF error = "none" THEN "0" ELSE "1"

AnswerOf(c, error, message) ==
  [error |-> error, code |-> Outcome(c, error), message |-> message]

Answer(c, error, message) ==
  [calls EXCEPT ![c] = [@ EXCEPT !.pc = "replying", !.answer = AnswerOf(c, error, message)]]

(* The ids a person can name: those on the screen, and those they type, into *)
(* a command or a page's address.                                            *)
Known(c) == {v.id : v \in shown[c]} \cup Typed

(* A page offers the gate its message names; one built from a newer contract *)
(* may know gates and statuses this server does not.                         *)
Newer == 99
Buttons(c) ==
  IF c \in Tabs THEN {v.gate : v \in shown[c]} \cup {Newer}
                ELSE TypedGates
Statuses(c) ==
  IF c \in Tabs THEN {toProtoVideoStatus(s) : s \in TypedStatuses} \cup {Newer}
                ELSE TypedStatuses

(* Without a request there is no call: `run` without an id, an unknown path. *)
Requests(c, op) ==
  CASE op = "AddVideo"      -> AddVideoRequest(Topics, Priorities)
    [] op = "ListVideos"    -> {f \in Filters : c \in Tabs \/ f.statuses = {}}
    [] op = "GetVideo"      -> GetVideoRequest(Known(c))
    [] op = "ApproveGate"   -> ApproveGateRequest(Known(c), Buttons(c))
    [] op = "RejectGate"    -> RejectGateRequest(Known(c), Buttons(c), Statuses(c), {"", "why"})
    [] op = "RetryVideo"    -> RetryVideoRequest(Known(c))
    [] op = "ListReviewLog" -> ListReviewLogRequest(Known(c))
    [] op = "RunStep" /\ c \in Tabs       -> RunStepRequest(Known(c))
    [] op = "GetJob" /\ c \in Tabs        -> GetJobRequest(DOMAIN jobs \cup {0})
    [] op = "GetLatestJob" /\ c \in Tabs  -> GetLatestJobRequest(Known(c))
    [] op = "PlanNext" /\ c \in Terminals -> [videoId : Known(c)]
    [] OTHER -> {}

(* The procedures the router knows, and the command that is none of them. *)
Procedure ==
  {"AddVideo", "ListVideos", "GetVideo", "ApproveGate", "RejectGate", "RetryVideo",
   "ListReviewLog", "RunStep", "GetJob", "GetLatestJob"}
Command == {"PlanNext"}

Send(c) ==
  /\ calls[c].pc = "idle" /\ made < MaxCalls
  /\ \E op \in Procedure \cup Command : \E req \in Requests(c, op) :
       calls' = [calls EXCEPT ![c] =
         [ pc |-> "arrived", serial |-> made + 1, op |-> op, req |-> req,
           base |-> <<>>, attempt |-> 1, at |-> <<>>, answer |-> AnswerOf(c, "none", NoMessage) ]]
  /\ made' = made + 1
  /\ UNCHANGED <<rows, jobs, log, shown, clock>>

(* A browser closed, a navigation, Ctrl-C: the context of a call is cancelled *)
(* and its transaction rolled back, or its answer goes nowhere.               *)
GiveUp(c) ==
  /\ calls[c].pc # "idle"
  /\ calls' = [calls EXCEPT ![c] = Idle]
  /\ UNCHANGED <<rows, jobs, log, shown, clock, made>>

(* What a person reads of an answer and acts on. *)
OnScreen(videos) ==
  {[id |-> v.id, gate |-> v.awaitingGate] : v \in Range(videos)}

Deliver(c) ==
  /\ calls[c].pc = "replying"
  /\ calls' = [calls EXCEPT ![c] = Idle]
  /\ LET message == calls[c].answer.message IN
       shown' = IF {"video", "videos"} \cap DOMAIN message = {} THEN shown
                ELSE [shown EXCEPT ![c] = OnScreen(VideosIn(message))]
  /\ UNCHANGED <<rows, jobs, log, clock, made>>

-----------------------------------------------------------------------------
(* AddVideo.                                                                 *)

Row(req, at) ==
  [ video |-> NewVideo, topic |-> req.topic, createdAt |-> at, sheet |-> FALSE,
    priority |-> IF req.priority = 0 THEN PriorityDefault ELSE req.priority ]

slugOf == [topic \in Topics |-> Slugify(topic)]

AddRefused(req) ==
  \/ req.topic = <<>>
  \/ req.priority # 0 /\ ~ValidPriority(req.priority)
  \/ slugOf[req.topic] = <<>>

BeginAdd(c) ==
  /\ Arrived(c, "AddVideo")
  /\ calls' = IF AddRefused(calls[c].req) THEN Answer(c, "validation", NoMessage)
               ELSE [calls EXCEPT ![c] =
                       [@ EXCEPT !.pc = "checking", !.base = slugOf[calls[c].req.topic]]]
  /\ UNCHANGED <<rows, jobs, log, shown, clock, made>>

Proposed(c) == Candidate(calls[c].base, calls[c].attempt)

(* Mutant: the id goes to the table without its guard. *)
CheckUnguarded(c) ==
  /\ calls[c].pc = "checking"
  /\ calls' =
       IF Proposed(c) \notin DOMAIN rows
         THEN [calls EXCEPT ![c] = [@ EXCEPT !.pc = "creating", !.at = Now]]
       ELSE IF calls[c].attempt < MaxAttempts THEN [calls EXCEPT ![c].attempt = @ + 1]
       ELSE Answer(c, "validation", NoMessage)
  /\ UNCHANGED <<rows, jobs, log, shown, clock, made>>

(* One attempt of NewID: a query of its own.  A free id passes the guard and *)
(* is dated before the transaction that will take it.                        *)
Check(c) ==
  /\ calls[c].pc = "checking"
  /\ calls' =
       IF Proposed(c) \notin DOMAIN rows
         THEN IF PathSafe(Proposed(c))
                THEN [calls EXCEPT ![c] = [@ EXCEPT !.pc = "creating", !.at = Now]]
                ELSE Answer(c, "invalid id", NoMessage)
       ELSE IF calls[c].attempt < MaxAttempts THEN [calls EXCEPT ![c].attempt = @ + 1]
       ELSE Answer(c, "validation", NoMessage)
  /\ UNCHANGED <<rows, jobs, log, shown, clock, made>>

Entry(id, g, action, to, c, at) ==
  [ video |-> id, at |-> at, gate |-> g, action |-> action, to |-> to,
    call |-> calls[c].serial ]

(* Mutant: INSERT OR REPLACE. *)
CreateOver(c) ==
  /\ calls[c].pc = "creating"
  /\ LET id == Proposed(c)
         row == Row(calls[c].req, calls[c].at)
     IN  /\ rows' = [i \in DOMAIN rows \cup {id} |-> IF i = id THEN row ELSE rows[i]]
         /\ log' = Append(log, Entry(id, NoGate, "create", "queued", c, calls[c].at))
         /\ calls' = Answer(c, "none", AddVideoResponse(toProtoVideo(id, row)))
  /\ UNCHANGED <<jobs, shown, clock, made>>

(* The row and its log entry in one transaction; the primary key decides.    *)
Create(c) ==
  /\ calls[c].pc = "creating"
  /\ LET id == Proposed(c)
         row == Row(calls[c].req, calls[c].at)
     IN  \/ /\ id \in DOMAIN rows
            /\ calls' = Answer(c, "already exists", NoMessage)
            /\ UNCHANGED <<rows, log>>
         \/ /\ id \notin DOMAIN rows
            /\ rows' = [i \in DOMAIN rows \cup {id} |-> IF i = id THEN row ELSE rows[i]]
            /\ log' = Append(log, Entry(id, NoGate, "create", "queued", c, calls[c].at))
            /\ calls' = Answer(c, "none", AddVideoResponse(toProtoVideo(id, row)))
  /\ UNCHANGED <<jobs, shown, clock, made>>
-----------------------------------------------------------------------------
(* Decisions: load, apply the rule, write the row and the entry.             *)

RowError(id) ==
  CASE ~PathSafe(id)      -> "invalid id"
    [] id \notin DOMAIN rows -> "not found"
    [] OTHER              -> "none"

(* Gate A has a precondition, which is asked first: its sheet must exist and *)
(* be good enough (`ready`; FactsGate has the rules).                        *)
ApproveError(c, ready) ==
  LET id == calls[c].req.videoId
      gate == DecodeGate(c, calls[c].req.gate)
  IN  CASE c \in Terminals /\ gate = NoGate            -> "other"
        [] gate = "A" /\ ~PathSafe(id)                 -> "invalid id"
        [] gate = "A" /\ ~ready                        -> "validation"
        [] RowError(id) # "none"                       -> RowError(id)
        [] ~CanApproveGate(rows[id].video, gate)       -> "illegal transition"
        [] OTHER                                       -> "none"

RejectError(c) ==
  LET req == calls[c].req
      gate == DecodeGate(c, req.gate)
      backTo == DecodeStatus(c, req.backTo)
  IN  CASE c \in Terminals /\ (gate = NoGate \/ "" \in {req.note, req.backTo}) -> "other"
        [] RowError(req.videoId) # "none"               -> RowError(req.videoId)
        [] ~AwaitsGate(rows[req.videoId].video.status, gate) -> "illegal transition"
        [] req.note = "" \/ ~CanRejectGate(rows[req.videoId].video, gate, backTo) -> "validation"
        [] OTHER                                        -> "none"

RetryError(c) ==
  LET id == calls[c].req.videoId
  IN  CASE RowError(id) # "none"        -> RowError(id)
        [] ~CanRetry(rows[id].video)    -> "illegal transition"
        [] OTHER                        -> "none"

DecisionResponse(op, video) ==
  CASE op = "ApproveGate" -> ApproveGateResponse(video)
    [] op = "RejectGate"  -> RejectGateResponse(video)
    [] op = "RetryVideo"  -> RetryVideoResponse(video)

(* The answer carries the row as the transaction leaves it. *)
NowIs(c, video) ==
  LET id == calls[c].req.videoId
  IN  DecisionResponse(calls[c].op, toProtoVideo(id, [rows[id] EXCEPT !.video = video]))

(* Mutant: the row is written and its entry forgotten. *)
DecideUnlogged(c, error, gate, action, video) ==
  LET id == calls[c].req.videoId IN
  /\ error = "none"
  /\ rows' = [rows EXCEPT ![id].video = video]
  /\ calls' = Answer(c, "none", NowIs(c, video))
  /\ UNCHANGED <<jobs, log, shown, clock, made>>

(* One transaction: all of it, or an error and nothing. *)
Decide(c, error, gate, action, video) ==
  LET id == calls[c].req.videoId IN
  /\ \/ /\ error = "none"
        /\ rows' = [rows EXCEPT ![id].video = video]
        /\ log' = Append(log, Entry(id, gate, action, video.status, c, Now))
        /\ calls' = Answer(c, "none", NowIs(c, video))
     \/ /\ error # "none"
        /\ calls' = Answer(c, error, NoMessage)
        /\ UNCHANGED <<rows, log>>
  /\ UNCHANGED <<jobs, shown, clock, made>>

HasSheet(id) == id \in DOMAIN rows /\ rows[id].sheet

HandleApprove(c) ==
  /\ Arrived(c, "ApproveGate")
  /\ LET gate == DecodeGate(c, calls[c].req.gate) IN
       \E ready \in {FALSE} \cup {HasSheet(calls[c].req.videoId)} :
         Decide(c, ApproveError(c, ready), gate, "approve",
                ApproveGate(rows[calls[c].req.videoId].video, gate))

HandleReject(c) ==
  /\ Arrived(c, "RejectGate")
  /\ LET gate == DecodeGate(c, calls[c].req.gate) IN
       Decide(c, RejectError(c), gate, "reject",
              RejectGate(rows[calls[c].req.videoId].video, gate,
                         DecodeStatus(c, calls[c].req.backTo)))

HandleRetry(c) ==
  /\ Arrived(c, "RetryVideo")
  /\ Decide(c, RetryError(c), NoGate, "retry", Retry(rows[calls[c].req.videoId].video))

-----------------------------------------------------------------------------
(* Queries: they change nothing but what the client is told.                 *)

Tell(c, message) ==
  /\ calls' = Answer(c, "none", message)
  /\ UNCHANGED <<rows, jobs, log, shown, clock, made>>

Refuse(c, error) ==
  /\ error # "none"
  /\ calls' = Answer(c, error, NoMessage)
  /\ UNCHANGED <<rows, jobs, log, shown, clock, made>>

IdError(id) == IF PathSafe(id) THEN "none" ELSE "invalid id"

HandleList(c) ==
  /\ Arrived(c, "ListVideos")
  /\ \E s \in Listings(calls[c].req) :
       Tell(c, ListVideosResponse([i \in DOMAIN s |-> toProtoVideo(s[i], rows[s[i]])]))

HandleGet(c) ==
  /\ Arrived(c, "GetVideo")
  /\ LET id == calls[c].req.videoId IN
       \/ Refuse(c, RowError(id))
       \/ RowError(id) = "none" /\ Tell(c, GetVideoResponse(toProtoVideo(id, rows[id])))

LoggedBefore(i, j) ==
  TextBefore(log[i].at, log[j].at) \/ (log[i].at = log[j].at /\ i < j)

EntryMessage(i) ==
  [ id |-> i, at |-> FormatSecond(log[i].at), gate |-> toProtoGate(log[i].gate),
    action |-> log[i].action, toStatus |-> toProtoVideoStatus(log[i].to) ]

(* A video's entries in the order of the listing. *)
Histories(id) ==
  { s \in SetToSeqs({i \in DOMAIN log : log[i].video = id}) :
      \A m, n \in DOMAIN s : LoggedBefore(s[m], s[n]) => m < n }

HandleLog(c) ==
  /\ Arrived(c, "ListReviewLog")
  /\ LET id == calls[c].req.videoId IN
       \/ Refuse(c, IdError(id))
       \/ /\ PathSafe(id)
          /\ \E s \in Histories(id) :
               Tell(c, ListReviewLogResponse([n \in DOMAIN s |-> EntryMessage(s[n])]))

toProtoJob(j, job) ==
  [ id |-> j, videoId |-> job.video, state |-> toProtoJobState(job.state),
    startedAt |-> FormatSecond(job.startedAt) ]

(* No job is no error: the answer says exists = false. *)
NoJob == <<>>

HandleJob(c) ==
  /\ Arrived(c, "GetJob")
  /\ LET j == calls[c].req.jobId IN
       \/ j \notin DOMAIN jobs /\ Tell(c, GetJobResponse(FALSE, NoJob))
       \/ j \in DOMAIN jobs /\ Tell(c, GetJobResponse(TRUE, toProtoJob(j, jobs[j])))

HandleLatestJob(c) ==
  /\ Arrived(c, "GetLatestJob")
  /\ LET id == calls[c].req.videoId IN
       \/ Refuse(c, IdError(id))
       \/ PathSafe(id) /\ Latest(id) = {} /\ Tell(c, GetLatestJobResponse(FALSE, NoJob))
       \/ \E j \in Latest(id) : Tell(c, GetLatestJobResponse(TRUE, toProtoJob(j, jobs[j])))

(* `rewind run`: what would happen, a gate, the next status, or nothing. *)
PlanOf(id) ==
  LET s == rows[id].video.status IN
  [ id |-> id, awaitingGate |-> GateFor(s),
    next |-> IF AtSomeGate(s) \/ s = "error" THEN {} ELSE NextAutomatic(s) ]

HandlePlan(c) ==
  /\ Arrived(c, "PlanNext")
  /\ LET id == calls[c].req.videoId IN
       \/ Refuse(c, RowError(id))
       \/ RowError(id) = "none" /\ Tell(c, [plan |-> PlanOf(id)])

-----------------------------------------------------------------------------
(* Steps.                                                                    *)

(* Start: a step registered for the status, and no unfinished job.  The row  *)
(* is claimed and the job created together.                                  *)
HandleRun(c) ==
  /\ Arrived(c, "RunStep")
  /\ LET id == calls[c].req.videoId
         running == {j \in Latest(id) : jobs[j].state = "running"}
         ready == {s \in Steps : s.from = rows[id].video.status}
     IN  \/ Refuse(c, RowError(id))
         \/ /\ RowError(id) = "none" /\ (ready = {} \/ running # {})
            /\ \E job \in IF ready = {} THEN {NoJob} ELSE {toProtoJob(j, jobs[j]) : j \in running} :
                 Tell(c, RunStepResponse(FALSE, job))
         \/ /\ RowError(id) = "none" /\ running = {}
            /\ \E s \in ready :
                 LET job == [video |-> id, state |-> "running", startedAt |-> Now, step |-> s] IN
                 /\ rows' = [rows EXCEPT ![id].video = Transition(@, s.running)]
                 /\ jobs' = Append(jobs, job)
                 /\ calls' = Answer(c, "none",
                                   RunStepResponse(TRUE, toProtoJob(Len(jobs) + 1, job)))
                 /\ UNCHANGED <<log, shown, clock, made>>

(* What a step that went well leaves of its row. *)
Ended(row, to) == [row EXCEPT !.video = Transition(@, to), !.sheet = TRUE]

(* A step ends: its result is written and its video rests, or both fail.     *)
StepEnds(j) ==
  LET id == jobs[j].video IN
  /\ jobs[j].state = "running"
  /\ \/ /\ rows' = [rows EXCEPT ![id] = Ended(@, jobs[j].step.to)]
        /\ jobs' = [jobs EXCEPT ![j].state = "succeeded"]
     \/ /\ rows' = [rows EXCEPT ![id].video = Fail(@)]
        /\ jobs' = [jobs EXCEPT ![j].state = "failed"]
  /\ UNCHANGED <<log, calls, shown, clock, made>>

Tick ==
  /\ \E t \in Ticks : t > clock /\ clock' = t
  /\ UNCHANGED <<rows, jobs, log, calls, shown, made>>

-----------------------------------------------------------------------------
FirstTick == CHOOSE t \in Ticks : \A u \in Ticks : t <= u

StartingIds == {Slugify(t) : t \in StartingTopics}

(* The queue as an earlier day left it, its log and its jobs put away: a     *)
(* video that has left the queue has been researched once.                   *)
StartingRow(id, video) ==
  [ Row([topic |-> CHOOSE t \in StartingTopics : Slugify(t) = id, priority |-> 0],
        FormatTime(FirstTick))
    EXCEPT !.video = video, !.sheet = video # NewVideo ]

Init ==
  /\ \E videos \in [StartingIds -> StartingVideos] :
       rows = [id \in StartingIds |-> StartingRow(id, videos[id])]
  /\ jobs = <<>> /\ log = <<>>
  /\ calls = [c \in Client |-> Idle]
  /\ shown = [c \in Client |-> {}]
  /\ clock = FirstTick
  /\ made = 0

Handle(c) ==
  \/ BeginAdd(c) \/ Check(c) \/ Create(c)
  \/ HandleApprove(c) \/ HandleReject(c) \/ HandleRetry(c)
  \/ HandleList(c) \/ HandleGet(c) \/ HandleLog(c) \/ HandlePlan(c)
  \/ HandleRun(c) \/ HandleJob(c) \/ HandleLatestJob(c)

Next ==
  \/ \E c \in Client : Send(c) \/ Handle(c) \/ GiveUp(c) \/ Deliver(c)
  \/ \E j \in DOMAIN jobs : StepEnds(j)
  \/ Tick

Spec == Init /\ [][Next]_vars
-----------------------------------------------------------------------------
(* Properties.                                                               *)

Text == {FormatTime(t) : t \in Ticks}

VideoRow == [ video : Video, topic : Topics \cup StartingTopics, createdAt : Text,
              sheet : BOOLEAN, priority : PriorityHighest .. PriorityLowest ]

HasAnswer(c) == calls[c].pc = "replying"

(* Every row's id may be a folder's name, whatever was typed as its topic    *)
(* ("impossible by construction", validate.go), and the rest has its type.   *)
TypeOK ==
  /\ \A id \in DOMAIN rows :
       /\ PathSafe(id)
       /\ rows[id].video \in Video /\ ValidPriority(rows[id].priority)
       /\ rows[id].createdAt \in Text /\ rows[id].sheet \in BOOLEAN
  /\ \A j \in DOMAIN jobs :
       /\ jobs[j].video \in DOMAIN rows /\ jobs[j].step \in Steps
       /\ jobs[j].state \in {"running", "succeeded", "failed"} /\ jobs[j].startedAt \in Text
  /\ \A i \in DOMAIN log :
       /\ log[i].video \in DOMAIN rows /\ log[i].at \in Text
       /\ log[i].gate \in Gate \cup {NoGate} /\ log[i].call \in 1 .. made
  /\ \A c \in Client :
       calls[c].pc \in {"idle", "arrived", "checking", "creating", "replying"}
  /\ \A c \in Client : HasAnswer(c) =>
       calls[c].answer.error \in ErrorKind \cup {"none"}
  /\ \A c \in Client : HasAnswer(c) =>
       Range(VideosIn(calls[c].answer.message)) \subseteq
         VideoMessage(DOMAIN rows, Topics \cup StartingTopics, {FormatSecond(t) : t \in Text})
  /\ clock \in Ticks /\ made \in 0 .. MaxCalls

RecordsOf(c) == {i \in DOMAIN log : log[i].call = calls[c].serial}

(* AddVideo tells the truth however adds cross: "ok" comes with a row that   *)
(* is this caller's own, "already exists" only if somebody took the id after *)
(* it was found free, "no free id" only if every id that could have been     *)
(* tried is taken, and an id is refused only for a topic that has none       *)
(* (idgen.go, Create).                                                       *)
AddIsTrue(c) ==
  LET error == calls[c].answer.error
      id == Proposed(c)
  IN  CASE error = "none" ->
             \E i \in RecordsOf(c) :
               /\ log[i].video = id /\ log[i].action = "create"
               /\ rows[id].topic = calls[c].req.topic
               /\ rows[id].createdAt = log[i].at
        [] error = "already exists" ->
             \E i \in DOMAIN log : log[i].video = id /\ log[i].call # calls[c].serial
        [] error = "validation" ->
             \/ AddRefused(calls[c].req)
             \/ \A n \in 1 .. MaxAttempts : Candidate(calls[c].base, n) \in DOMAIN rows
        [] OTHER -> error = "invalid id" /\ ~PathSafe(calls[c].base)

AddsTellTheTruth ==
  \A c \in Client : HasAnswer(c) /\ calls[c].op = "AddVideo" => AddIsTrue(c)

(* What a client is told of its decision is what the record says: one entry  *)
(* if and only if the answer is ok, for the gate whose label the person      *)
(* read, through both doors' words for it.  A call whose answer was lost has *)
(* one entry at most ("they succeed together or neither happens").           *)
AnswersMatchTheRecord ==
  /\ \A i, j \in DOMAIN log : log[i].call = log[j].call => i = j
  /\ \A c \in Client : calls[c].pc # "idle" =>
      LET written == RecordsOf(c) IN
      /\ calls[c].pc \in {"arrived", "checking", "creating"} => written = {}
      /\ HasAnswer(c) /\ calls[c].op \in {"AddVideo", "ApproveGate", "RejectGate", "RetryVideo"}
           => (written # {} <=> calls[c].answer.code \in {"ok", "0"})
      /\ calls[c].op \in {"ApproveGate", "RejectGate"} =>
           \A i \in written : log[i].gate = Meant(c, calls[c].req.gate)

(* What a person reads is in order: a list by priority and then by the date  *)
(* it shows, a history by the time it shows.  The order comes from the texts *)
(* of the database (video_repo.go, ORDER BY) and the times from the messages *)
(* (mapping.go, formatTime), which drop what the texts disagree about.       *)
ReadsByAge(told) ==
  \A i, j \in DOMAIN told : i < j =>
    /\ told[i].priority <= told[j].priority
    /\ told[i].priority = told[j].priority => told[i].createdAt <= told[j].createdAt

ReadsByTime(told) == \A i, j \in DOMAIN told : i < j => told[i].at <= told[j].at

ListsReadInOrder ==
  \A c \in Client :
    HasAnswer(c) =>
      /\ calls[c].op = "ListVideos" => ReadsByAge(VideosIn(calls[c].answer.message))
      /\ calls[c].op = "ListReviewLog" /\ calls[c].answer.error = "none" =>
           ReadsByTime(calls[c].answer.message.entries)

-----------------------------------------------------------------------------
(* The inductive invariant, by parts.                                        *)

JobRow == [ video : DOMAIN rows, state : {"running", "succeeded", "failed"},
            startedAt : Text, step : Steps ]
LogRow == [ video : DOMAIN rows, at : Text, gate : Gate \cup {NoGate},
            action : {"create", "approve", "reject", "retry"}, to : Status, call : 1 .. made ]

TablesAreTyped ==
  /\ rows \in [DOMAIN rows -> VideoRow] /\ \A id \in DOMAIN rows : PathSafe(id)
  /\ jobs \in Seq(JobRow) /\ log \in Seq(LogRow)
  /\ clock \in Ticks /\ made \in 0 .. MaxCalls

(* A call is written once, and no two calls are one. *)
EntriesDiffer == \A i, j \in DOMAIN log : log[i].call = log[j].call => i = j
CallsDiffer ==
  \A c, d \in Client :
    calls[c].pc # "idle" /\ calls[d].pc # "idle" /\ calls[c].serial = calls[d].serial => c = d

IsCall(k) ==
  k = [ pc |-> k.pc, serial |-> k.serial, op |-> k.op, req |-> k.req,
        base |-> k.base, attempt |-> k.attempt, at |-> k.at, answer |-> k.answer ]

(* An add on its way: every id before the one it tries is taken, and if that *)
(* one is taken after it was found free, whoever took it is on record.       *)
AddIsOnItsWay(c) ==
  /\ calls[c].op = "AddVideo" /\ ~AddRefused(calls[c].req)
  /\ calls[c].base = slugOf[calls[c].req.topic] /\ calls[c].attempt \in 1 .. MaxAttempts
  /\ calls[c].pc = "checking" =>
       \A n \in 1 .. calls[c].attempt - 1 : Candidate(calls[c].base, n) \in DOMAIN rows
  /\ calls[c].pc = "creating" =>
       /\ PathSafe(Proposed(c)) /\ calls[c].at \in Text
       /\ Proposed(c) \in DOMAIN rows => \E i \in DOMAIN log : log[i].video = Proposed(c)

Deciding == {"AddVideo", "ApproveGate", "RejectGate", "RetryVideo"}

AnswerStands(c) ==
  LET error == calls[c].answer.error
      message == calls[c].answer.message
  IN  /\ calls[c].answer = AnswerOf(c, error, message)
      /\ error \in ErrorKind \cup {"none"}
      /\ Range(VideosIn(message)) \subseteq
           VideoMessage(DOMAIN rows, Topics \cup StartingTopics, {FormatSecond(t) : t \in Text})
      /\ calls[c].op \in Deciding => (RecordsOf(c) # {} <=> error = "none")
      /\ calls[c].op = "AddVideo" => AddIsTrue(c)
      /\ calls[c].op = "ListVideos" => ReadsByAge(VideosIn(message))
      /\ calls[c].op = "ListReviewLog" /\ error = "none" => ReadsByTime(message.entries)

CallStands(c) ==
  /\ IsCall(calls[c]) /\ calls[c].serial \in 1 .. made
  /\ calls[c].pc \in {"arrived", "checking", "creating", "replying"}
  /\ calls[c].pc # "replying" => RecordsOf(c) = {}
  /\ calls[c].op \in {"ApproveGate", "RejectGate"} =>
       \A i \in RecordsOf(c) : log[i].gate = Meant(c, calls[c].req.gate)
  /\ calls[c].op = "AddVideo" => calls[c].req.topic \in Topics
  /\ calls[c].pc = "arrived" => calls[c].attempt = 1
  /\ calls[c].pc \in {"checking", "creating"} => AddIsOnItsWay(c)
  /\ calls[c].pc = "replying" => AnswerStands(c)

DeskInv ==
  /\ TablesAreTyped /\ EntriesDiffer /\ CallsDiffer
  /\ calls = [c \in Client |-> calls[c]]
  /\ \A c \in Client : calls[c].pc # "idle" => CallStands(c)
=============================================================================
