------------------------------- MODULE Server -------------------------------
(***************************************************************************)
(* The life of the server process rewind-api, from its configuration to    *)
(* its exit, and what it tells of the worker's health on the way.          *)
(*                                                                         *)
(* Several processes may run over the one database, by mistake or because  *)
(* the next one starts while the last one still drains; one of them holds  *)
(* the port.  Each owns a connection pool, a gRPC channel to the worker,   *)
(* the requests inside it and the goroutines of its steps.  Any of them    *)
(* may be killed at any moment.  What a step does, and what recovery does  *)
(* to the videos, is in Pipeline: here a step is a job and who works on it. *)
(***************************************************************************)
EXTENDS Naturals, Sequences

CONSTANTS Servers,   \* processes
          Pages,     \* browser pages that poll health
          Callers,   \* clients whose calls reach the database
          Settings,  \* what the configuration directory may hold
          Engines,   \* "fake" under -fake-ai, "idle" for a channel to the worker
          Reports,   \* the statuses the worker may answer
          MaxStarts, \* bounds on the processes started and the jobs created
          MaxJobs

ASSUME BoundsAssumption == MaxStarts \in Nat /\ MaxJobs \in Nat
ASSUME EnginesAssumption == Engines \subseteq {"idle", "fake"}
ASSUME NamesAssumption ==
  /\ Reports \cap {"stopped", "hung", "silence", "the fake"} = {}
  /\ Pages \cap Callers = {} /\ "no server" \notin Servers

Client == Pages \cup Callers
NoServer == "no server"

VARIABLES phase,      \* how far each process is
          alone,      \* no other process has been there while it booted
          pool,       \* its database: none, open or closed
          undrained,  \* history: its drain was cut short, or there was none
          channel,    \* its gRPC channel, or the fake engine
          port,       \* who listens on http_addr
          calls,      \* per client, its request
          held,       \* per client, the server it has an h2c connection to
          jobs, work, \* one video's jobs, and those a goroutine works on
          unrecorded, \* history: jobs that ended without a word in the table
          worker,     \* the AI worker: stopped, hung, or what it reports
          shown,      \* per page, its health chip
          starts

lifecycle == <<phase, alone, pool, undrained, port, starts>>
vars == <<phase, alone, pool, undrained, channel, port, calls, held, jobs, work,
          unrecorded, worker, shown, starts>>

-----------------------------------------------------------------------------
(* Health: four words, their order, and their two translations.              *)

UNSPECIFIED == "HEALTH_STATUS_UNSPECIFIED"
OK == "HEALTH_STATUS_OK"
DEGRADED == "HEALTH_STATUS_DEGRADED"
DOWN == "HEALTH_STATUS_DOWN"

severity == [ok |-> 0, degraded |-> 1, unknown |-> 2, down |-> 3]
HealthStatus == DOMAIN severity

(* Mutant: a status nobody knows counts for nothing. *)
WorstOfKnown(statuses) ==
  IF statuses \ {"unknown"} = {} THEN "unknown"
  ELSE CHOOSE w \in statuses \ {"unknown"} :
         \A s \in statuses \ {"unknown"} : severity[s] <= severity[w]

WorstOf(statuses) ==
  IF statuses = {} THEN "unknown"
  ELSE CHOOSE w \in statuses : \A s \in statuses : severity[s] <= severity[w]

fromProtoStatus(n) ==
  CASE n = OK -> "ok" [] n = DEGRADED -> "degraded" [] n = DOWN -> "down"
    [] OTHER  -> "unknown"

toProtoStatus(s) ==
  CASE s = "ok" -> OK [] s = "degraded" -> DEGRADED [] s = "down" -> DOWN
    [] OTHER    -> UNSPECIFIED

(* The answer to GetSystemHealth, given the engine's: a component that is    *)
(* reached is up by definition, the AI's word is passed on.                  *)
SystemHealth(ai) ==
  [ status |-> toProtoStatus(WorstOf({"ok", ai})),
    api |-> toProtoStatus("ok"), ai |-> toProtoStatus(ai) ]

healthLabel(n) ==
  CASE n = OK -> "healthy" [] n = DEGRADED -> "degraded" [] n = DOWN -> "unreachable"
    [] OTHER  -> "unknown"

-----------------------------------------------------------------------------
(* Calls.  A page speaks HTTP/1.1; a client of another kind may speak HTTP/2 *)
(* in clear, which h2c serves on a connection taken from the HTTP server.    *)

Idle == [pc |-> "idle"]

Inside(c, s) == calls[c].pc \in {"inside", "probing", "replying"} /\ calls[c].server = s
Waiting(c, op) == calls[c].pc = "inside" /\ calls[c].op = op

At(pc, s, op, http2) == [pc |-> pc, server |-> s, op |-> op, http2 |-> http2]
Arrival(s, op, http2) == At("inside", s, op, http2)

Answer(c, heard, told) ==
  [ pc |-> "replying", server |-> calls[c].server, op |-> calls[c].op,
    http2 |-> calls[c].http2, heard |-> heard, told |-> told ]

(* Mutant: the query is not refetched. *)
PollOnce(p) ==
  /\ calls[p].pc = "idle" /\ port # NoServer /\ shown[p] = "loading"
  /\ calls' = [calls EXCEPT ![p] = Arrival(port, "health", FALSE)]
  /\ UNCHANGED <<lifecycle, channel, held, jobs, work, unrecorded, worker, shown>>

(* useSystemHealth: every five seconds, and whenever the window has focus.   *)
Poll(p) ==
  /\ calls[p].pc = "idle" /\ port # NoServer
  /\ calls' = [calls EXCEPT ![p] = Arrival(port, "health", FALSE)]
  /\ UNCHANGED <<lifecycle, channel, held, jobs, work, unrecorded, worker, shown>>

(* Nobody listens, not at the retry either. *)
PollFails(p) ==
  /\ calls[p].pc = "idle" /\ port = NoServer
  /\ shown' = [shown EXCEPT ![p] = "API unreachable"]
  /\ UNCHANGED <<lifecycle, channel, calls, held, jobs, work, unrecorded, worker>>

(* An h2c connection that exists takes further calls, whatever the listener. *)
Call(c) ==
  /\ calls[c].pc = "idle"
  /\ \E s \in Servers, op \in {"read", "run"}, http2 \in BOOLEAN :
       /\ port = s \/ (http2 /\ held[c] = s)
       /\ calls' = [calls EXCEPT ![c] = Arrival(s, op, http2)]
       /\ held' = IF http2 THEN [held EXCEPT ![c] = s] ELSE held
  /\ UNCHANGED <<lifecycle, channel, jobs, work, unrecorded, worker, shown>>

(* What a handler over the database tells. *)
Done == [error |-> "none"]
Failed == [error |-> "internal"]

(* A panic in a handler is a 500, not the end of the process.                *)
Panic(c) ==
  /\ calls[c].pc = "inside" /\ calls[c].op # "health"
  /\ calls' = [calls EXCEPT ![c] = Answer(c, "nothing", Failed)]
  /\ UNCHANGED <<lifecycle, channel, held, jobs, work, unrecorded, worker, shown>>

PoolOpen(s) == pool[s] = "open"

HandleRead(c) ==
  /\ Waiting(c, "read")
  /\ calls' = [calls EXCEPT ![c] =
       Answer(c, "nothing", IF PoolOpen(calls[c].server) THEN Done ELSE Failed)]
  /\ UNCHANGED <<lifecycle, channel, held, jobs, work, unrecorded, worker, shown>>

Job(state, by) == [state |-> state, by |-> by]
Running == {j \in DOMAIN jobs : jobs[j].state = "running"}

(* Start: nothing to start, or a job and its goroutine, which the request's  *)
(* end does not end.                                                         *)
HandleRun(c) ==
  /\ Waiting(c, "run")
  /\ LET s == calls[c].server IN
       \/ /\ calls' = [calls EXCEPT ![c] =
               Answer(c, "nothing", IF PoolOpen(s) THEN Done ELSE Failed)]
          /\ UNCHANGED <<jobs, work>>
       \/ /\ PoolOpen(s) /\ Running = {} /\ Len(jobs) < MaxJobs
          /\ jobs' = Append(jobs, Job("running", s))
          /\ work' = work \cup {Len(jobs) + 1}
          /\ calls' = [calls EXCEPT ![c] = Answer(c, "nothing", Done)]
  /\ UNCHANGED <<lifecycle, channel, held, unrecorded, worker, shown>>

Deliver(c) ==
  /\ calls[c].pc = "replying"
  /\ calls' = [calls EXCEPT ![c] = Idle]
  /\ shown' = IF c \in Pages THEN [shown EXCEPT ![c] = healthLabel(calls[c].told.ai)]
                             ELSE shown
  /\ UNCHANGED <<lifecycle, channel, held, jobs, work, unrecorded, worker>>

(* The connection is reset; a page retries at once.                          *)
Lost(c) ==
  /\ calls[c].pc = "lost"
  /\ calls' = [calls EXCEPT ![c] = Idle]
  /\ UNCHANGED <<lifecycle, channel, held, jobs, work, unrecorded, worker, shown>>

-----------------------------------------------------------------------------
(* A health check travels to the worker.                                     *)

(* CheckHealth: the fake engine answers for itself; the real one asks an idle *)
(* channel to connect and sends its request, under a deadline.                *)
Probe(p) ==
  /\ Waiting(p, "health")
  /\ LET s == calls[p].server IN
       \/ /\ channel[s] = "fake"
          /\ calls' = [calls EXCEPT ![p] = Answer(p, "the fake", SystemHealth("ok"))]
          /\ UNCHANGED channel
       \/ /\ channel[s] # "fake"
          /\ calls' = [calls EXCEPT ![p] = At("probing", s, "health", calls[p].http2)]
          /\ channel' = [channel EXCEPT ![s] = IF @ = "idle" THEN "connecting" ELSE @]
  /\ UNCHANGED <<lifecycle, held, jobs, work, unrecorded, worker, shown>>

ChannelOf(p) == channel[calls[p].server]

WorkerAnswers(p) ==
  /\ calls[p].pc = "probing" /\ ChannelOf(p) = "ready" /\ worker \in Reports
  /\ calls' = [calls EXCEPT ![p] =
       Answer(p, worker, SystemHealth(fromProtoStatus(worker)))]
  /\ UNCHANGED <<lifecycle, channel, held, jobs, work, unrecorded, worker, shown>>

(* The channel fails the request at once while it has no connection to try,  *)
(* and with the connection it was sent on; the deadline ends the others.     *)
ProbeFails(p) ==
  /\ calls[p].pc = "probing"
  /\ ChannelOf(p) = "ready" => worker = "hung"
  /\ calls' = [calls EXCEPT ![p] = Answer(p, "silence", SystemHealth("down"))]
  /\ UNCHANGED <<lifecycle, channel, held, jobs, work, unrecorded, worker, shown>>

(* A channel is lazy: it connects when asked, stays failed while it waits out *)
(* its backoff, which Connect does not shorten, and tries again by itself.    *)
ConnectEnds(s) ==
  /\ channel[s] = "connecting"
  /\ channel' = [channel EXCEPT ![s] = IF worker = "stopped" THEN "failed" ELSE "ready"]
  /\ UNCHANGED <<lifecycle, calls, held, jobs, work, unrecorded, worker, shown>>

BackoffEnds(s) ==
  /\ channel[s] = "failed" /\ worker # "stopped"
  /\ channel' = [channel EXCEPT ![s] = "ready"]
  /\ UNCHANGED <<lifecycle, calls, held, jobs, work, unrecorded, worker, shown>>

(* The worker is started, hangs, or finds its own dependencies changed. *)
WorkerChanges ==
  /\ \E w \in Reports \cup {"hung"} : w # worker /\ worker' = w
  /\ UNCHANGED <<lifecycle, channel, calls, held, jobs, work, unrecorded, shown>>

WorkerStops ==
  /\ worker # "stopped"
  /\ worker' = "stopped"
  /\ channel' = [s \in Servers |-> IF channel[s] = "ready" THEN "idle" ELSE channel[s]]
  /\ UNCHANGED <<lifecycle, calls, held, jobs, work, unrecorded, shown>>

-----------------------------------------------------------------------------
(* A process boots.                                                          *)

Booting(s) == phase[s] \in {"configured", "opened", "recovered"}

(* services.yaml must be there, readable and complete; channel.yaml may be   *)
(* absent, since every value of it has a default.                            *)
Loads(settings) ==
  /\ settings.services = "complete"
  /\ settings.channel \in {"absent", "given"}

(* The engine is chosen here; the real one does not connect.  A process that *)
(* cannot load its configuration ends before it touches anything.            *)
Configure(s) ==
  /\ phase[s] = "off" /\ starts < MaxStarts
  /\ \E settings \in Settings, engine \in Engines :
       \/ ~Loads(settings) /\ UNCHANGED <<phase, alone, channel>>
       \/ /\ Loads(settings)
          /\ phase' = [phase EXCEPT ![s] = "configured"]
          /\ channel' = [channel EXCEPT ![s] = engine]
          /\ alone' = [q \in Servers |->
               IF q = s THEN \A r \in Servers \ {s} : phase[r] = "off"
                        ELSE alone[q] /\ ~Booting(q)]
  /\ starts' = starts + 1
  /\ UNCHANGED <<pool, undrained, port, calls, held,
                 jobs, work, unrecorded, worker, shown>>

Enter(s, p) == phase' = [phase EXCEPT ![s] = p]

(* wiring.Build: the pool, its one connection and the migrations, or none.   *)
OpenDatabase(s) ==
  /\ phase[s] = "configured"
  /\ \/ Enter(s, "opened") /\ pool' = [pool EXCEPT ![s] = "open"]
     \/ Enter(s, "closed") /\ UNCHANGED pool
  /\ UNCHANGED <<alone, undrained, channel, port, calls, held,
                 jobs, work, unrecorded, worker, shown, starts>>

(* Mutant: recovery only of what this process has started itself. *)
RecoverOwn(s) ==
  /\ phase[s] = "opened"
  /\ Enter(s, "recovered")
  /\ jobs' = [j \in DOMAIN jobs |->
       IF jobs[j].state = "running" /\ jobs[j].by = s
         THEN Job("interrupted", jobs[j].by) ELSE jobs[j]]
  /\ UNCHANGED <<alone, pool, undrained, channel, port, calls, held,
                 work, unrecorded, worker, shown, starts>>

(* RecoverInterrupted: whoever runs them, all running jobs are taken for     *)
(* interrupted.  It may fail before that and, over the videos, after it.     *)
Recover(s) ==
  /\ phase[s] = "opened"
  /\ \/ /\ Enter(s, "recovered") \/ Enter(s, "closing")
        /\ jobs' = [j \in DOMAIN jobs |->
             IF jobs[j].state = "running" THEN Job("interrupted", jobs[j].by)
                                          ELSE jobs[j]]
     \/ Enter(s, "closing") /\ UNCHANGED jobs
  /\ UNCHANGED <<alone, pool, undrained, channel, port, calls, held, work,
                 unrecorded, worker, shown, starts>>

(* A process that finds the port taken has recovered all the same.           *)
Listen(s) ==
  /\ phase[s] = "recovered"
  /\ \/ port = NoServer /\ port' = s /\ Enter(s, "serving")
     \/ port # NoServer /\ Enter(s, "closing") /\ UNCHANGED port
  /\ UNCHANGED <<alone, pool, undrained, channel, calls, held,
                 jobs, work, unrecorded, worker, shown, starts>>

-----------------------------------------------------------------------------
(* A process ends.  Deferred calls run last first: the database closes, then *)
(* the engine.  Steps are neither cancelled nor waited for.                  *)

(* SIGINT or SIGTERM; a second one changes nothing.                          *)
Interrupt(s) ==
  /\ phase[s] = "serving"
  /\ Enter(s, "draining")
  /\ port' = NoServer
  /\ UNCHANGED <<alone, pool, undrained, channel, calls, held,
                 jobs, work, unrecorded, worker, shown, starts>>

(* Mutant: Close instead of Shutdown. *)
DrainedAtOnce(s) ==
  /\ phase[s] = "draining"
  /\ Enter(s, "closing")
  /\ UNCHANGED <<alone, pool, undrained, channel, port, calls, held,
                 jobs, work, unrecorded, worker, shown, starts>>

(* Shutdown returns when no request of the HTTP server's own is inside.      *)
Drained(s) ==
  /\ phase[s] = "draining"
  /\ \A c \in Client : Inside(c, s) => calls[c].http2
  /\ Enter(s, "closing")
  /\ UNCHANGED <<alone, pool, undrained, channel, port, calls, held,
                 jobs, work, unrecorded, worker, shown, starts>>

GraceRunsOut(s) ==
  /\ phase[s] = "draining"
  /\ Enter(s, "closing")
  /\ undrained' = [undrained EXCEPT ![s] = TRUE]
  /\ UNCHANGED <<alone, pool, channel, port, calls, held,
                 jobs, work, unrecorded, worker, shown, starts>>

(* ListenAndServe gives up later, on an error of Accept: run returns it, and *)
(* the deferred calls follow with no drain.                                  *)
ListenerFails(s) ==
  /\ phase[s] = "serving"
  /\ Enter(s, "closing")
  /\ port' = NoServer
  /\ undrained' = [undrained EXCEPT ![s] = TRUE]
  /\ UNCHANGED <<alone, pool, channel, calls, held,
                 jobs, work, unrecorded, worker, shown, starts>>

CloseDatabase(s) ==
  /\ phase[s] = "closing"
  /\ Enter(s, "closed")
  /\ pool' = [pool EXCEPT ![s] = "closed"]
  /\ UNCHANGED <<alone, undrained, channel, port, calls, held,
                 jobs, work, unrecorded, worker, shown, starts>>

(* What is left of a process: nothing but the rows it wrote.                 *)
Vanish(s) ==
  /\ Enter(s, "off")
  /\ alone' = [alone EXCEPT ![s] = FALSE]
  /\ pool' = [pool EXCEPT ![s] = "none"]
  /\ undrained' = [undrained EXCEPT ![s] = FALSE]
  /\ channel' = [channel EXCEPT ![s] = "none"]
  /\ port' = IF port = s THEN NoServer ELSE port
  /\ calls' = [c \in Client |-> IF Inside(c, s) THEN [pc |-> "lost"] ELSE calls[c]]
  /\ held' = [c \in Client |-> IF held[c] = s THEN NoServer ELSE held[c]]
  /\ work' = {j \in work : jobs[j].by # s}
  /\ UNCHANGED <<jobs, unrecorded, worker, shown, starts>>

Exit(s) == phase[s] = "closed" /\ Vanish(s)

(* A kill, a power cut, or the first signal before there is a handler.       *)
Crash(s) == phase[s] \notin {"off", "closed"} /\ Vanish(s)

(* A step ends and records it, in its process's own pool, while that is open. *)
(* A job taken for interrupted is recorded over: Finish has no condition.     *)
StepEnds(j) ==
  /\ j \in work /\ PoolOpen(jobs[j].by)
  /\ work' = work \ {j}
  /\ \E state \in {"succeeded", "failed"} : jobs' = [jobs EXCEPT ![j] = Job(state, @.by)]
  /\ UNCHANGED <<lifecycle, channel, calls, held, unrecorded, worker, shown>>

(* Neither the success nor, then, the failure can be recorded: the goroutine  *)
(* ends all the same ("may now be stuck in a running state", runner.go).      *)
StepEndsUnrecorded(j) ==
  /\ j \in work
  /\ work' = work \ {j}
  /\ unrecorded' = unrecorded \cup {j}
  /\ UNCHANGED <<lifecycle, channel, calls, held, jobs, worker, shown>>

-----------------------------------------------------------------------------
Init ==
  /\ phase = [s \in Servers |-> "off"]
  /\ alone = [s \in Servers |-> FALSE]
  /\ pool = [s \in Servers |-> "none"]
  /\ undrained = [s \in Servers |-> FALSE]
  /\ channel = [s \in Servers |-> "none"]
  /\ port = NoServer
  /\ calls = [c \in Client |-> Idle]
  /\ held = [c \in Client |-> NoServer]
  /\ jobs = <<>> /\ work = {} /\ unrecorded = {}
  /\ worker = "stopped"
  /\ shown = [p \in Pages |-> "loading"]
  /\ starts = 0

Boot(s) == Configure(s) \/ OpenDatabase(s) \/ Recover(s) \/ Listen(s)
Shut(s) ==
  \/ ListenerFails(s) \/ Interrupt(s) \/ Drained(s) \/ GraceRunsOut(s) \/ CloseDatabase(s)
  \/ Exit(s) \/ Crash(s)
Check(p) == Poll(p) \/ PollFails(p) \/ Probe(p) \/ WorkerAnswers(p) \/ ProbeFails(p)
Ask(c) == Call(c) \/ Panic(c) \/ HandleRead(c) \/ HandleRun(c)

Next ==
  \/ \E s \in Servers : Boot(s) \/ Shut(s) \/ ConnectEnds(s) \/ BackoffEnds(s)
  \/ \E p \in Pages : Check(p)
  \/ \E c \in Callers : Ask(c)
  \/ \E c \in Client : Deliver(c) \/ Lost(c)
  \/ \E j \in DOMAIN jobs : StepEnds(j) \/ StepEndsUnrecorded(j)
  \/ WorkerChanges \/ WorkerStops

Spec == Init /\ [][Next]_vars

(* Goroutines are scheduled, deadlines run out, a page polls on, and gRPC's  *)
(* backoff is at most five seconds.  Nobody starts or stops anything.        *)
Fairness ==
  /\ \A p \in Pages : WF_vars(Check(p) \/ Deliver(p) \/ Lost(p))
  /\ \A s \in Servers : WF_vars(ConnectEnds(s)) /\ WF_vars(BackoffEnds(s))

FairSpec == Spec /\ Fairness
-----------------------------------------------------------------------------
(* Properties.                                                               *)

Answered == [status : {OK, DEGRADED, DOWN, UNSPECIFIED}, api : {OK},
             ai : {OK, DEGRADED, DOWN, UNSPECIFIED}] \cup {Done, Failed}

Request ==
  [pc : {"idle", "lost"}]
  \cup [pc : {"inside", "probing"}, server : Servers, op : {"health", "read", "run"},
        http2 : BOOLEAN]
  \cup [pc : {"replying"}, server : Servers, op : {"health", "read", "run"}, http2 : BOOLEAN,
        heard : Reports \cup {"silence", "the fake", "nothing"}, told : Answered]

JobRow == [state : {"running", "succeeded", "failed", "interrupted"}, by : Servers]

Chips == {"loading", "API unreachable", "healthy", "degraded", "unreachable", "unknown"}

TypeOK ==
  /\ phase \in [Servers -> {"off", "configured", "opened", "recovered", "serving",
                             "draining", "closing", "closed"}]
  /\ alone \in [Servers -> BOOLEAN] /\ undrained \in [Servers -> BOOLEAN]
  /\ pool \in [Servers -> {"none", "open", "closed"}]
  /\ channel \in [Servers -> {"none", "fake", "idle", "connecting", "ready", "failed"}]
  /\ port \in Servers \cup {NoServer}
  /\ calls \in [Client -> Request]
  /\ held \in [Client -> Servers \cup {NoServer}]
  /\ jobs \in Seq(JobRow)
  /\ work \subseteq DOMAIN jobs /\ unrecorded \subseteq DOMAIN jobs
  /\ worker \in Reports \cup {"stopped", "hung"}
  /\ shown \in [Pages -> Chips]
  /\ starts \in 0 .. MaxStarts

(* "Running" is no lie about the past: once a server that booted with no     *)
(* other process about is serving, every job that says it is running is this *)
(* server's own, and is worked on unless this server could not record how it *)
(* ended.  A job stuck by a kill, a close or a lost record never outlives    *)
(* the process it was stuck by: that is what recovery before listening is    *)
(* for (main.go: "A video left mid-step by a crash would sit there forever").*)
RunningMeansWorkedOn ==
  \A s \in Servers :
    phase[s] = "serving" /\ alone[s] =>
      \A j \in Running : jobs[j].by = s /\ (j \in work \/ j \in unrecorded)

(* The database is closed under no request the HTTP server knows of, unless  *)
(* the grace ran out or the listener failed; requests on h2c connections are *)
(* the exception.                                                            *)
ClosesUnderNobody ==
  \A s \in Servers :
    pool[s] = "closed" /\ ~undrained[s] => \A c \in Client : Inside(c, s) => calls[c].http2

(* "Never report health you do not have": an answer says OK, of the system   *)
(* or of the AI service, only if the worker itself did so during that very   *)
(* call, and a silent worker is down.                                        *)
HealthIsEarned ==
  \A p \in Pages :
    calls[p].pc = "replying" =>
      LET heard == calls[p].heard
          told == calls[p].told
      IN  /\ OK \in {told.status, told.ai} => heard \in {OK, "the fake"}
          /\ heard = "silence" => told.status = DOWN /\ told.ai = DOWN

(* What the chip of a page should say. *)
Truth(chip) ==
  \/ port = NoServer /\ chip = "API unreachable"
  \/ \E s \in Servers :
       /\ port = s
       /\ chip = CASE channel[s] = "fake"  -> "healthy"
                   [] worker \in Reports   -> healthLabel(worker)
                   [] OTHER                -> "unreachable"

(* Once nobody touches the worker and the listener any more, every page      *)
(* comes to say how they are and keeps saying so: a worker that starts is    *)
(* noticed, and one that stops or hangs (engine.go on the backoff, page.tsx). *)
WorkerIsNoticed ==
  <>[][FALSE]_<<worker, port>> => <>[](\A p \in Pages : Truth(shown[p]))
=============================================================================
