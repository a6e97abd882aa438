# REWIND in TLA+

REWIND makes faceless history videos. A video travels through a fixed pipeline
of automatic steps and six human gates; today one step (research) and one gate
desk (Gate A, the fact sheet) are built. A Go API owns all state in SQLite, a
stateless Python worker does the research and writes one `facts.json` per
project, a Next.js dashboard shows the gate, and a command line, a second
operating-system process, works on the same database and files.

These modules model that system from its code. TLC checks them on small
instances and TLAPS proves theorems about them for every value of their
constants. Paths below are relative to `src/`.

## 1. Inventory

| Component | Code | State | Operations |
|---|---|---|---|
| State machine and gates | `api/internal/domain/{state,gate,video}.go` | a video's status, retryFrom, rejectedTo | CanTransition, Transition, Fail, Retry, Approve, Reject |
| Gate and video services | `api/internal/service/{gate,video}_service.go` | rows of videos and review_log | AddVideo, Approve, Reject, RetryVideo, each one transaction with its log entry |
| Step runner | `api/internal/service/pipeline/*.go`, `.../steps/research.go` | goroutines, jobs | Start, execute, fail, RecoverInterrupted, PlanNext |
| Repositories | `api/internal/adapter/sqlite/*.go` | three tables, one connection per process | Insert, Update, Get, List, Append, WithTx |
| Facts service and store | `api/internal/service/facts_service.go`, `adapter/factstore`, `domain/facts.go` | `facts.json` | tick, tick all, edit, delete, add; the Gate A precondition |
| Research call | `adapter/aigrpc/research.go`, `ai/rewind_ai/handlers` | a stream with a deadline; a thread behind it | open, result, failure, deadline |
| Research build | `ai/rewind_ai/research`, `formats`, `core`, `llm` | documents, candidates, verified facts | fetch, extract, verify, sort, de-duplicate, cap, write |
| Review mirror | `adapter/reviewmirror/mirror.go` | `review_log.json` | list and rename inside every Append |
| Gate A page | `web/lib/api`, `web/features/gates/facts`, `web/features/videos/GateProgress.tsx` | the query cache, fetches and mutations in flight | fetch, poll, tick, delete, run, approve, reject |
| RPC transport and contract | `api/internal/transport/connectrpc`, `gen/rewind/v1`, `proto` | none: messages, enums, error codes | one handler per procedure |
| CLI | `api/internal/transport/cli` | none of its own | add, queue, show, approve, reject, retry, log, run, fact edits; starts no step |
| Ids and times | `platform/idgen`, `platform/validate`, `domain/video.go`, `formatTime` | none | Slugify, NewID, the path guard, times as stored text |
| Server lifecycle | `cmd/rewind-api/main.go`, `platform/{config,wiring}`, `transport/middleware`, `sqlite/db.go` | the phase of each process, its pool, its channel, the port | configure, open, recover, listen, drain, close |
| Health | `service/health_service.go`, `domain/health.go`, `adapter/aigrpc/engine.go`, `web/app/page.tsx` | the gRPC channel, the page's chip | poll, probe, reconnect |

`PROJECT.json` lists every component, those left out too, with its status.

**How they interact.** The page and the CLI call the services. A decision is one
database transaction: the status change and the log entry, with the mirror file
renamed inside it. An edit takes no transaction at all: load the file, change
it, save it by an atomic rename, read the status, append to the log. Start claims a video in one
transaction (status and job) and leaves the work to a goroutine, which calls the
worker; the worker's thread writes the file and outlives the call's deadline.
The page learns of all this by fetching, by polling the latest job, and from
the responses to its own mutations. A server recovers before it listens, and
closes its database when its requests are drained; a second server over the
same database, by mistake or while the first still drains, is not prevented.

**Hard behaviours and what makes the components correct.**

- *Concurrency*: two Start requests, decisions under running work, overlapping
  edits, an approval based on a sheet read before its transaction. Correct if
  one goroutine works on a video, no decision takes it away, and the file stays
  one whole sheet whose human work is on record.
- *Crashes*: between claim and work, between work and its record, in the middle
  of recovery. Correct if every job closes, every orphaned video becomes a
  retryable error, and no crash moves a video over a gate (with two servers: as
  long as no step is registered behind one).
- *Deadlines*: a call that ended while its build goes on. Correct if no
  abandoned build writes under a sheet people are reviewing.
- *Partial failure*: a source, a chunk, the model, the mirror, the recording of
  a failure. Correct if what is stored remains true and each failure is
  reported as itself.
- *Crossing messages*: responses out of order, lost responses, polls that stop.
  Correct if a verdict shown without crossings is the stored one, a run once
  seen is followed, and looking again repairs everything.
- *Order and boundaries*: duplicates that are not transitive, caps against
  thresholds, numbers near the edge of a text, ids cut at a byte, times that
  sort as text.
- *Two doors*: a tab and a terminal add, list and decide at once, with ids,
  gates and statuses the server may not know, and calls that are given up. Correct if
  what each is told is what the record says.
- *Starting and stopping*: recovery under another's work, drains, kills, a
  worker that comes and goes. Correct if a lone server's "running" is its own
  work, or work whose end it could not record; if no request loses its database
  but to a drain cut short or a listener that failed; and if health is never
  reported that nobody has.

Each hazard is listed at its line in `PROJECT.json`, with the properties that
would catch it going wrong, or the reason why there is none.

## 2. The modules

```
VideoState ──┬── HumanGates ◄─(refined by)── Pipeline ── MCPipeline
             │                                   │
             │                                   └── PipelineProofs (HumanGates' too)
             ├── FactSheet ── FactsGate ── MCFactsGate, FactsGateProofs
             └── Dashboard ── MCDashboard, DashboardProofs
StableOrder, Evidence, ContentFormat ── ResearchBuild ── MCResearchBuild,
                                                ResearchBuildProofs
ReviewMirror ── MCReviewMirror, ReviewMirrorProofs
VideoState ── Wire ─┐
  VideoIds, StoredTime ── Desk ── MCDesk, DeskProofs
Server ── MCServer, ServerProofs
SharedLemmas: extended by the proofs of Pipeline, FactsGate, Dashboard, Desk and ResearchBuild
```

**VideoState** has the tables of `state.go` and `gate.go` and the functions that
change a video, as operators on rows. The order of statuses, the automatic
moves and the gates keep their names from the code.

**HumanGates** is the abstract specification: videos, the gates each has got
past, and a ledger of decisions. There is no pipeline in it. A gate is passed
only in the step in which its approval enters the ledger, in order, and lost only
to a recorded rejection.

**Pipeline** is the concrete system: the tables `videos`, `jobs` and `log`, the
startup `phase` of each API server with the rows its recovery `listed`, the
`requests` between Start's reads and its claim, and the goroutines (`work`).
An action is one transaction, or the code between two: `StartRead`,
`StartChecked` and `StartClaim` are the three parts of `Runner.Start`, of which
the second goes on when the latest job cannot be read; a
goroutine loads, runs, finishes or fails; recovery marks jobs, lists
videos and writes the listed rows back one at a time, outside a transaction, as
the code does. `Crash` may come anywhere, and `faults` make single database
writes fail. The registry `Steps` is a constant that satisfies what
`Registry.Register` demands.

**FactSheet** has the sheet of `domain/facts.go` as pure operators: ids, play
order, the thresholds of Gate A, and the five edits. **FactsGate** puts it to
work: the video, the file, the log, two people whose edits and approvals
overlap request by request, the research call and the builds behind it. An edit
is four actions (load, save, read the status, append), since nothing holds them together; an approval
is two (precondition, transaction). `holes` remembers edits that
were saved and whose request then failed before its log entry. It is a history
variable: the code has no such record. `MaxLate` bounds the
requests that may come while an approval is between its check and its commit,
on top of `MaxRequests`.

**StableOrder** states what Go's and Python's stable sorts do. **Evidence** is
`verifier.py` over texts of symbols. Digits, commas, full stops and blanks are
the code's characters, since a number is read character by character and a
region may end in the middle of one; a word, whose letters nothing tells apart,
and a citation marker are one symbol each. It has normalisation, anchors, windows and their
bounds, and the number check. **ContentFormat** has both formats.
**ResearchBuild** is the build as a state machine: each source finds documents
or fails, each chunk gets any answer, garbles, finds the model down, or
gets an answer whose items are no list, on which the build crashes
(`ItemsAreNoList`); the rest is computed as `service.py` computes it. Texts are
looked up by URL, so of two documents with one URL the last text is left
(`LastFrom`), while a fact's attribution is the first URL that fits (`FirstUrl`).

**Dashboard** is one open Gate A page on TanStack Query: what is stored,
what is `cache`d, the `fetch` in flight per query, the `mutations` in flight
and what the page offers in each state. Query semantics (a fetch
is joined, cancelled or superseded; an invalidation refetches what is mounted) are modelled
from how the code uses them.

**ReviewMirror** takes one append of the log apart: insert, listing, rename and
commit are actions of their own, by requests of several processes, each
with one database connection and with one writer lock for all. A decision whose
client goes away (`Cancel`) loses its transaction, its connection and the lock
at any moment, but its handler hears of that late: it still writes and
renames what it had listed, until its commit or its listing (`ListFails`) fails.

**VideoIds** has Slugify over classes of characters with the bytes they take
(letters, digits, digits of other scripts, separators), the suffix, the byte
bound and the path guard. **StoredTime** is the text an instant is stored as and
the order SQLite gives texts. **Wire** has the enums with their numbers, the
messages of the video service as sets of records, and both directions of every
translation, with what becomes of a number nobody knows.

**Desk** composes these: the tabs of the dashboard, which send messages, and
terminals, which type words, over the tables `rows`, `jobs` and `log`. Each
procedure is one handler with its guards in their order, its error and the code or exit
status made of it. All are one step, except AddVideo: it looks for a free id
with one query per attempt and inserts in a later transaction, and two adds may
cross in between. A client acts on what it was last `shown`; a call may be given
up at any point and its answer lost.

**Server** is the life of the processes: configure, open, recover, listen,
drain, close, exit, and a kill at any moment, with `alone` remembering whether
no other process was about while one booted (a history variable). Calls come over the
port or over an h2c connection, which Shutdown neither waits for nor closes. A
step is reduced to a job and who works on it; its end may go unrecorded, when
both the success and the failure could not be written (`StepEndsUnrecorded`),
which `unrecorded` remembers. Serving may end with a failed listener, which
closes the database with no drain (`ListenerFails`), as `undrained` remembers. `channel` is the lazy gRPC
connection: idle, connecting, ready or failed and waiting out its backoff.

Some things are shared between models without being composed: FactsGate uses the
video functions of VideoState with the one wired step; Dashboard keeps one
server-side action per handler; ReviewMirror sees entries as values;
ResearchBuild ends where FactsGate's `BuildWrites` begins; Desk lets a step
just end, and Server lets a request just be inside. Composing them would
multiply states without adding an interleaving, as the modules meet only at
single atomic writes (a commit or a file rename).

## 3. The runs

All bounds are constants and appear in guards only: each stops new actions of
its kind and leaves those in progress alone. `CHECK_DEADLOCK FALSE` is set
because every bounded system ends, and REWIND may also truly rest: nobody is
obliged to decide.

| Run | Instance | States | What it shows |
|---|---|---|---|
| `two_steps` | 1 server, 1 video, 2 steps, 3 jobs, 5 log entries, 4 starts, 2 crashes, 1 fault | 35 493 | Pipeline implements HumanGates; the log tells the position; work, jobs and videos stay matched; only a rejection sends a video back |
| `pair` | 2 servers, 1 video, today's registry, 2 jobs, 4 log entries, 3 starts, 2 crashes, 1 fault, fair | 209 767 | recovery under another server's work doubles no worker and takes no video from one, and skips no gate while no step works behind one; every job settles; an interrupted video surfaces as an error |
| `review` | 2 people, 2 requests and 1 more beside an approval on its way, 2 attempts, 1 crash | 456 768 | overlapping edits and late builds leave a well-formed sheet with its evidence, and the gate is passed on people's work however stale the check |
| `build` | both formats, 3 documents of 2 URLs from 2 sources, up to 3 items | 796 594 | what reaches the sheet is grounded under its URL; copies are believed; the best copies and the variety stay; the cap spares the bar |
| `page` | 1 fact, 2 clicks, 1 loss or outside act | 325 681 | verdicts in step, runs followed to their end, every staleness repaired by looking again |
| `mirror` | 3 appends, 2 processes, 2 troubles | 76 921 | one phantom at most, exact when alone, decisions that hold the lock complete, no self-deadlock |
| `desk` | a tab and a terminal, 3 calls, 2 topics, ids of 3 bytes, 3 instants | 2 037 538 | stored ids are safe, adds that cross tell the truth, an answer and the record agree, lists read in order |
| `servers` | 2 processes, 3 starts, 1 caller, 2 jobs | 1 808 128 | a lone server's running jobs are its own work or an end it could not record; the database closes under no HTTP/1.1 request unless the drain was cut short or the listener failed |
| `health` | 2 processes, 2 starts, 1 page, a worker that comes and goes, fair | 219 302 | good health is reported only if it was just heard; left alone, every page comes to show how things are |

Three more runs are expected to fail: they check what a comment or a document
says and the code does not do (section 6).

Why the bounds suffice for the cases the properties are about:

- `two_steps`: the second step (the next milestone's registry) is what lets a video pass Gate A,
  reach Gate B and be rejected behind Gate A; three jobs are a run, its
  rerun after a retry or rejection, and one beyond the gate. One video is
  enough because no action reads another video's row, except recovery, whose
  rows are written one at a time and independently.
- `pair`: two servers are one that works and one that recovers under it; two
  crashes include one in the middle of recovery, between the jobs and the video, and one of
  the server that was to repair that. Two jobs of one video are what a second
  worker takes; three starts let the last of them follow a refused one. The
  registry is today's: with a step behind a gate `NoGateSkipped` does not hold
  for two servers (section 6), and neither do the properties of `two_steps`
  that are left out here.
- `review`: two requests are any crossing pair; two attempts are an abandoned
  build and its successor. Of a build's two facts one is enough, so that one
  request ticks it, a second asks for the approval, and the third falls between its
  check and its commit: an edit that takes the sheet below its bar, or a
  rejection, after which research runs again.
- `build`: three claims are the least for which duplication is not
  transitive; the cap (1) and the bar (2) are below three so that both bite; the
  texts hold a copied, a respelt, a reworded and a falsified quote, and one
  too short to judge, with numbers at the edges of the text and one that the
  region around a passage cuts in two. The third document has the URL of another.
- `page`: a crossing has two ends: two clicks, or a click and an outside
  act or loss.
- `mirror`: an old listing renamed over a newer one takes two appends; the
  third is the undisturbed one that repairs, or a second troubled one.
- `desk`: two clients are any crossing pair, and three calls are two that
  cross over what a third was told. One topic's slug is
  taken from the start and needs cutting to take a suffix, the other has a digit
  of another script, which is in no id. Of the three instants two lie in one second
  ("1.6Z", "1.65Z"), where the later text sorts first, and one in the next ("2Z"). Typed gates, ids and statuses
  include wrong ones, and the page's a number from a newer contract.
- `servers`: a third start is a restart beside a process that still drains; two
  jobs are one that was interrupted and its successor; the one caller's
  connection is HTTP/1.1 or h2c. The worker has no part in it and is left stopped.
- `health`: two processes are one with the fake engine and one without, or one
  that takes the other's place under an open page; the worker reports good
  health or a status nobody here knows, hangs, or is stopped.

Symmetry is used over jobs, in `two_steps` only, which has no liveness
property; `ImplementsReview` does not mention jobs.

The type invariants of `Dashboard`, `ResearchBuild` and `Server` are stated in
their modules and are in no run; all three are proved
(Dashboard's inside `PageInv`).

### Fairness

- *Pipeline* (`FairSpec`): weak fairness of each goroutine's next step (the Go
  scheduler; a step ends because its call has a deadline) and of each server's
  recovery (a dead server is restarted). Nothing makes people decide, retry or
  press run. `retry_reruns` alone adds an operator who keeps pressing run.
- *FactsGate*: weak fairness of `StepFails` only, which is the deadline on the research call
  (`config/services.yaml`, 1200 s). The worker may stay silent for ever.
- *Dashboard*: the server answers, responses arrive, the poll interval fires and a
  step ends. The interval fires only in a visible tab (`refetchInterval` pauses in a
  hidden one): the liveness of the page is that of a page somebody has in view. Losing a response needs no fairness and nobody has to click. That
  the tab is looked at again is an assumption of `LookingCatchesUp` itself.
- *Server* (`FairSpec`, in `health`): a page in view goes on polling every five seconds and its
  call gets somewhere (the deadline on a probe is 5 s by default), and a
  channel's attempt and its backoff end (`engine.go` caps it at 5 s). Nobody has to
  start or stop a process or the worker: `WorkerIsNoticed` is about runs in which they
  are left alone at some point.
- *ReviewMirror*: a request that has inserted its row is scheduled; `database/sql`
  serves connection waiters in order.

## 4. What is proved

39 theorems, for every number of videos, jobs, servers, people, requests, facts,
sources, documents, answers, clients, calls, crashes and faults. They assume only what the modules name:

- Pipeline: `StepsAssumption` (the registry accepts the steps, one per starting
  status, and none of them names `error`) and `BoundsAssumption`.
- FactsGate: `FormatAssumption` (years are numbers, a format asks for at least
  one fact and one group, and a build finds no fewer facts than it is asked for)
  and `BoundsAssumption`.
- ResearchBuild: `BuildAssumption` (the request's minimum and the configured cap
  are numbers, any numbers), `SourcesAssumption` (sources find documents, documents are texts),
  `AnswersAssumption` (an answer fits its schema) and `SearchAssumption` (the
  threshold is a percentage above 0, the context a number, and a judged
  quote and an anchor are at least twice the least probe: 25 and 40 against 12
  in the code).
- Dashboard, ReviewMirror, Server: `BoundsAssumption`; `EntriesAssumption` and
  Server's `NamesAssumption` and `EnginesAssumption` (the model's own words are not
  names of processes, clients or reports).
- Desk: `TopicsAssumption` (a topic is text), `StepsAssumption` (a step names
  statuses of the pipeline), `ClockAssumption` (instants are numbers),
  `StartAssumption` (what was queued before went through the same guard) and
  `IdBounds` (the byte bound and the attempts are at most the code's 64 and 20).

Those marked (1) also assume `SingleApi`, one server per database, for which
recovery is written. The one marked (2) is for any number of servers and assumes
`WorkIsBeforeTheGates`: no registered step works behind a gate, as the one
registered today does not.

| Theorem | Module | States |
|---|---|---|
| TypeCorrect | PipelineProofs | `Spec => []TypeOK` |
| RecoveryIsSafe (1) | PipelineProofs | `ReviewInv`: failed videos know where to resume, recovery writes no stale row |
| WorkIsTracked (1) | PipelineProofs | `WorkInv` |
| NoTwoWorkers (1) | PipelineProofs | one goroutine per video |
| WorkersKeepTheirVideo (1) | PipelineProofs | nothing takes a video from its worker |
| RunningMeansRunning (1) | PipelineProofs | running jobs are goroutines' jobs |
| PipelineIsReviewed (1) | PipelineProofs | `Spec => Review!Spec`, the refinement |
| TheLogTells (1), GatesAreNeverSkipped (1) | PipelineProofs | the log determines the gates passed |
| GatesAreNeverSkippedAsWired (2) | PipelineProofs | no gate is skipped, however many servers recover under each other's work |
| RejectionNotesAreCurrent (1) | PipelineProofs | a rejection note is about the last decision that was no retry |
| NothingElseSendsBack (1) | PipelineProofs | the action property `OnlyRejectionSendsBack` |
| LedgerAlwaysTells | PipelineProofs | the same of the abstract ledger |
| NoBuildIsUnderReview, ReadyVideosHaveSheets | FactsGateProofs | no working build under review; a ready video has a sheet |
| GateTypes | FactsGateProofs | `Spec => []TypeOK` |
| SheetsStayWhole | FactsGateProofs | ids name one fact each, in play order |
| EvidenceIsNeverLost | FactsGateProofs | extracted facts keep the evidence their build found, all of one build |
| WorkIsSignedFor | FactsGateProofs | no human work on file without somebody on record |
| GateAIsPassedByPeople | FactsGateProofs | Gate A is passed only on enough of people's work |
| BuildTypeCorrect | ResearchBuildProofs | `Spec => []TypeOK`: facts are attributed to fetched documents, scores are percentages |
| EveryWrittenFactIsGrounded | ResearchBuildProofs | a document of the URL a written fact is attributed to has a passage like its quote, with its numbers near, up to a number the region cuts in two |
| CopiesAreAlwaysBelieved | ResearchBuildProofs | a plausible item with a quote copied from the last text of a URL, with its numbers in full, is verified |
| TheBestCopyAlwaysStays | ResearchBuildProofs | a fact that verified better than all its duplicates is never dropped |
| VarietyIsAlwaysKept | ResearchBuildProofs | the cap drops a group only when there are more groups than places |
| TheCapAlwaysSparesTheBar | ResearchBuildProofs | a build refused for too few facts had too few before the cap, its duplicates counted once |
| TheTicksAreStored | DashboardProofs | the page shows the sheet as stored unless something crossed an edit |
| TheLockIsReleased | ReviewMirrorProofs | `Spec => []TypeOK`: the writer lock is held by the decision at work that is not cancelled |
| OnePhantom, AloneIsExact, DecisionsAreComplete | ReviewMirrorProofs | the mirror's three safety properties, with cancelled decisions that rename late |
| DeskTypes | DeskProofs | `Spec => []TypeOK`: every stored id may be a folder's name |
| AddsAreTold | DeskProofs | crossing adds are told the truth |
| DecisionsAreOnRecord | DeskProofs | an answer is ok exactly if the log has its one entry, for the gate the person meant |
| ListsAlwaysReadInOrder | DeskProofs | lists and histories read in order, to the second that messages show, for any instants |
| ServerTypes | ServerProofs | `Spec => []TypeOK` |
| RunningIsTrue | ServerProofs | a lone server that serves works on every running job itself, or worked on it and could not record its end |
| ClosingIsOrderly | ServerProofs | the database closes under no HTTP/1.1 request unless the drain was cut short or never happened |
| HealthIsHonest | ServerProofs | good health is told only if it was heard in that call; silence is told as down |

The arguments:

- *Work.* `OneWorkerPerVideo` is not inductive: a second claim has to be refused
  because of where the video is. A running job keeps its video in the step's
  working status (`RunningJobHoldsVideo`); the transition table has no three
  automatic moves in a row (`NoThreeLegs`), so no step starts there; no gate is
  there, so no person is asked. Goroutines and running jobs are matched one
  to one (`WorkMatchesJobs`), hence nothing else finishes the video, and
  recovery starts with no work alive (`ServersOwnTheirWork`).
- *Two servers.* A row that recovery listed may be stale, but it is one of a
  step's working status, and the write fails it there, so it is to be resumed
  there (`ListedRowsRun`). While no step works behind a gate
  (`WorkIsBeforeTheGates`), a write of such a row leaves the video behind none, and
  every other action moves it forward with a decision or not at all
  (`ServersInv`).
- *Review.* The refinement maps a row to the gates behind its position, where a
  failed video's position is the status it resumes at. Every automatic move,
  failure and recovery leaves that set alone, as recovery's rows are
  fresh (`ListedRowsAreFresh`). Decisions map to decisions. That the ledger
  tells the position is proved once, of HumanGates, and carried down.
- *Rejections.* Every action changes a row in one of a few ways
  (`HowRowsChange`): a decision with its entry, an automatic move, a failure, or
  recovery of a fresh row. The note of a rejection is written by one of them,
  cleared by the moves forward, and kept by failures; and none but a rejection
  takes a position back.
- *Gate A: builds.* A build outlives its call. What keeps it from the gate is its video:
  while it works, the video is researching or due to resume there, and neither
  a person nor a new step moves it on. A ready video has a
  sheet because no edit ever writes an empty one (`SheetsAreKept`).
- *Gate A: the file.* What is true of the file is not inductive alone, as any
  sheet a person has in hand may be saved over it. `RecordInv` says of every
  sheet, on file or in hand, that it is whole, carries the evidence of one
  build and shows no work that is not on record or about to be; and the record
  only grows, so a sheet stays true however long it is held. That a sort
  permutes and orders, and that a new id is free, are lemmas about `StableSort`
  and `NextFactID`.
- *Build.* `BuildInv` says of each list what the step before it could make: a
  candidate is an item of the format from a fetched document, a verified or written
  fact is one of a candidate that stands, and what was verified holds the fact
  of every candidate that stands. The properties follow from what the four loops do to
  any list. A cut of the matcher splits a region and counts no more than its
  width on either side, so a score is a percentage (`MatchedIsBounded`). What is
  around a passage does not change how it reads (`PartsAreReadAlike`), so a
  copied quote occurs whole, and its numbers lie in full between the bounds of the
  region that is searched (`CopiedPassagesStand`); a quote that stands has a first
  window, in which or near which its numbers are read, each from a numeral of the text in
  full or from what the region's end leaves of one (`StandingIsGrounded`). A copy is replaced only
  by one that verified better, so the best of all, once in, stays
  (`TheBestIsKept`). The tour puts the first fact of each group before any
  second one (`TourIsAnOrder`), so a prefix of it has as many groups as it can
  (`WhatIsWritten`).
- *Page.* `PageInv`: as long as nothing has crossed, an edit and a fetch of the sheet are never in
  flight together, nor two edits; so the sheet changes only under
  the one edit in flight, whose answer is the sheet as it left it
  (`UncrossedIsCurrent`).
- *Mirror.* The lock belongs to one decision from insert to its end or its
  cancellation and nothing is committed meanwhile, so its listing stays complete
  (`ListingsAreFresh`); a cancelled one keeps only that its listing shows at
  most one row that is not committed, its own. The file is always one listing
  (`FileIsAListing`), and an append that is alone, with no handler of a cancelled
  decision about, finds nothing changed between its listing and its rename
  (`AloneIsOnCourse`).
- *Desk.* `DeskInv` says of each call in flight what is true in its phase: an add has
  found every earlier id taken, and if its own is taken after it was found
  free, whoever took it is on record; an answer agrees with the call's entries. A step
  of anyone else only makes the record grow (`RecordGrows`: no row goes or
  changes its topic or date, entries stay and are other calls'), and that
  disturbs no call (`OthersLeaveCalls`). So each handler is looked at for its own
  call. Under this lie facts about the operators: whatever is typed becomes bytes
  (`SlugsAreBytes`), a suffix leaves a safe id safe (`CandidatesAreSafe`), and
  texts that sort one way show their seconds in that order
  (`TextsShowTheirSeconds`).
- *Server.* `RunningMeansWorkedOn` looks at one server and depends on all of them.
  A process that has not served holds no request, no connection and no work
  (`BootersAreEmpty`), and one that booted alone keeps every other off until it
  listens (`AloneIsAlone`); so recovery leaves no running job
  (`RecoveredIsQuiet`), and while the port is its own (`PortIsServing`) nobody else can make
  one (`AloneServes`). Clean closing needs that a process whose drain is over
  stays without HTTP/1.1 requests (`DrainedStays`).
- *Health.* The worse of "ok" and the worker's word is the worker's word
  (`WorstIsTheWorkers`), and the two translations make "ok" of nothing else
  (`WordsKeepTheirMeaning`); no other process's step touches a page's answer.

The prover has no induction over data. Where a sort, a loop or a search for an id
calls for it, the proof takes the least counterexample instead: a set of numbers has
a least member, by the well-foundedness of < on the naturals. `SharedLemmas` draws from
that a principle for sets (`CountingUp`), and from it that a loop, written as
a recursive function, is defined (`LoopExists`) and never leaves a set its body
does not leave (`LoopStays`). No module of the project declares a RECURSIVE
operator, which the prover could not reason about.

`WorkInv` is an invariant of the run `two_steps`. The other inductive
invariants (`PageInv`, `GateInv`, `RecordInv`, `MirrorInv`, `DeskInv`, `BuildInv`) were found
to hold in the instances of `page`, `review`, `mirror`, `desk` and `build` before they
were proved; those runs check what they imply.

## 5. What is model-checked only

- All liveness properties, and the `RetryReruns` counterexample: temporal properties under fairness are outside the prover.
- Everything else with two servers over one database (no double worker, no video
  taken from its worker, liveness): the theorems marked (1) exclude it and the
  run `pair` has weaker properties for it.

## 6. Where code and text disagree

Each of these has a run that exhibits it and an entry under "findings".

1. `retry_reruns`: a failure stores the working status as the one to resume at,
   and no step starts from a working status. After a retry the step is
   unreachable, against `video.go:93-95` and `state.go:184-185`.
2. `research_redone`: a video rejected to the queue is researched
   anew, and the build overwrites the sheet people reviewed, against `step.go:58-59`.
3. `dots`: the failed status has the highest wire number, so a failed video
   shows six passed gates, against `GateProgress.tsx:22-24`.

Noted while modelling, without a run of their own:

- A rejection to *researching*, which is what the page always sends, never
  regathers (`GateDecisionBar.tsx:110`); same cause as `retry_reruns`.
- With two servers, recovery interrupts live jobs (`job.go:15` takes interrupted
  to mean dead) and may write back a stale row. With the two steps of `two_steps`
  and two servers that skips a gate: one server lists a video at work behind Gate A, the
  other finishes its step, a person rejects it back to the queue, and the
  write of the listed row resumes behind Gate A with no approval standing; against
  `state.go:12-20`, for which no step however buggy crosses a gate. With today's
  registry it cannot happen (`GatesAreNeverSkippedAsWired`).
- The precondition of Gate A is read before the transaction that approves, and an edit takes
  no lock: a fact unticked or deleted in between leaves the gate passed by a
  sheet below its bar, against the sense of `gate_service.go:58-60` and `wiring.go:75`. In the
  instance of `review` TLC reaches it; what holds is `ApprovalRestsOnPeople`.
- The region in which numbers are looked for is a slice of characters
  (`verifier.py:322`) and may cut 170 to 70; a quote that says 70 where
  the text says 170 then passes, against `verifier.py:261-262` ("every number in the
  evidence must really be in the source"). In the instance of `build` such a fact is written;
  `EveryFactIsGrounded` allows these numbers and no others.
- Of two documents with one URL the last text replaces the first
  (`service.py:215`), and a quote copied from the first may be dropped as an invention
  (`SPEC.md:587-588` drops what does not appear in the fetched text). `CopiesAreBelieved`
  is about the text that is left.
- An answer whose items are null or a number raises outside the `try` of
  `extractor.py:116-137` and ends the build, against `extractor.py:127-128` ("must not lose the
  items from every other chunk"): the action `ItemsAreNoList`.
- "Too few facts survived verification" (`service.py:127`) counts after
  de-duplication: two verified copies of one fact are one.
- An edit that rewords an extracted fact leaves no mark on the sheet, so
  `WorkIsOnRecord` is about ticks and typed facts only.
- Deleting the fact with the highest id and adding another gives the new one the
  old id, so that the log names two facts by one, against `facts.go:129-131`: two
  requests of one person in the model of FactsGate show it.
- A better copy replaces only the first kept duplicate, so two duplicates may
  stay (`service.py:335`); and a good window may lie outside the bounded anchor
  search, which refuses an honest paraphrase.
- `mirror.go:10-11` has the mirror regenerated after each successful commit; it
  is renamed before the commit, so a decision that is then cancelled shows in
  the file and not in the log. Cancelled before its rename, it renames after its
  lock is gone, and may take a newer row out of the file. `OnePhantomAtMost` and
  `AloneMeansExact` say how far that goes.
- Nothing refetches the sheet or the video when the polled job ends: the page
  goes on offering the research button until it is looked at again, against
  `SPEC.md:1008-1009`. `LookingCatchesUp` covers the repair.
- `runner.go:126-127` says that cancellation comes from shutdown, and `main.go:161-162`
  that one cancelled context unwinds every request. Shutdown stops the
  listener and waits; no request and no step is cancelled, h2c connections are not waited for and
  may bring new calls, and a step that ends after the database has closed
  records nothing.
- A server that finds its port taken has recovered already (`main.go:117`), so
  it interrupts the live one's jobs; started while another drains, it
  interrupts work that then ends and is recorded over.
- `engine.go:127-131` expects `Connect` to retry at once; in TransientFailure it
  does nothing, and the worker is noticed when the backoff ends.
- `domain/errors.go:31-33` calls adding a topic twice a mistake worth reporting; a second
  add gets a suffix, and only adds that cross report it.
- `video.go:106-107` and `:123` say other characters are dropped; digits of
  other scripts are kept by `unicode.IsDigit`, and the topic is then refused by the path guard.
- A base id of full length that ends in its own suffix is tried again in vain.
- `video.proto:16` has the queue "newest-relevant first"; it is listed by priority
  and then oldest first.
- Two instants whose stored digits begin alike sort the wrong way round ("1.65Z" before
  "1.6Z"), so of two videos queued or two decisions taken within one second the
  later may be told first, against `video_repo.go:65-66` and `review_log.go:44`
  ("oldest first"), and of two jobs the older taken for the latest
  (`job_repo.go:61`). In the instance of `desk` TLC reaches it; what holds is that lists read in order
  to the second (`ListsReadInOrder`).
- After serving, an error of the listener (`main.go:183`) closes the database with no
  drain, and a step whose end could not be recorded (`runner.go:188-190` and 212-219) shows as
  running until the next startup. `ClosesUnderNobody` and `RunningMeansWorkedOn` name both.
- An approval of Gate A for an id that does not exist is answered with an invalid
  argument, as its precondition is asked first.
- `min_eras` of `channel.yaml` is read and used by nothing, and `LoadChannel` makes 8 of
  the 0 that `wiring.go:99-100` takes for "whatever the format requires".
- `VideoTable` links to the Gate A page only for videos at Gate A, so the
  research button of a queued video is reached by its address alone.
- `AddVideo` looks for a free id outside the inserting transaction; two
  processes queueing one topic can collide, and the later one is refused.

## 7. What is not modelled

- *Text*: JSON fields, prompts, wording, confidence labels and reasons; characters
  and times are classes and hundredths of a second.
- *I/O*: HTTP's own framing, marshalling, retries inside a source, the thread pool and the
  graceful stop of the worker, logging and trace ids, CORS. Sources and the
  model are external: they may return anything of the right shape or fail.
- *Facts messages*: the facts and research services are modelled by what their
  handlers do (FactsGate, Dashboard), not message by message as the video
  service is in Wire.
- *Files*: renames are atomic, and a crash keeps what was renamed. Losing a
  rename with the power is not modelled.
- *The two dialogs of the Gate A page and the refresh of the queue page*: mutations and a
  list query of the shape the models have.
- *The worker's own health probes, its container and its registry*: read-only or
  built once at its start.
- *Shared schema*: a newer server's migrations under an older command line.

## 8. Plan

Done, in this order: VideoState, HumanGates and Pipeline with their proofs;
FactSheet and FactsGate with theirs; Evidence, ContentFormat and ResearchBuild;
Dashboard; ReviewMirror with its proofs; VideoIds, StoredTime, Wire and Desk;
Server with its proofs.

Then the proofs of FactsGate's and Pipeline's remaining invariants, of Dashboard,
of Desk and of ResearchBuild. With them every safety property of the passing runs that does not
concern two servers is a theorem.

Next, prove: what else `pair` checks of two servers (no double worker, no video
taken from its worker), which needs an invariant on the interleaving of recovery and claims
without `SingleApi`.

Next, model, should the code grow that way: the edit dialog's stale fields over
another's edit; chunking (a long paragraph's sentences leave before the pending
chunk) and conflict flags; the second step, whose registry `two_steps` already
assumes.

## 9. Running

`tlc -config Pipeline_two_steps.cfg MCPipeline` and likewise for the other
configurations, each named `<Module>_<run>.cfg` for `MC<Module>`. `tlapm
PipelineProofs.tla` and likewise for the other proof modules. TLAPS needs Z3, Zenon and, for the
temporal steps, LS4.
