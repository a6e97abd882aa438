------------------------------ MODULE FactsGate ------------------------------
(***************************************************************************)
(* One video's fact sheet around Gate A: the research call that writes     *)
(* facts.json, the people who edit the sheet, and the approval that passes *)
(* the gate.                                                               *)
(*                                                                         *)
(* Three writers share the file with no lock and no transaction: the       *)
(* Python worker (a build thread writes a whole new sheet), and every      *)
(* edit request, which loads the sheet, changes its copy, renames the copy *)
(* into place, and only then reads the video's status and appends to the   *)
(* review log.  Each of those steps is an action here.  The rename makes a *)
(* single write atomic, in Go and in Python.                               *)
(*                                                                         *)
(* The API calls the worker once per research step.  The call ends by a    *)
(* result, a failure or its deadline; the build thread behind it ends in   *)
(* its own time, whether or not anyone still listens.                      *)
(*                                                                         *)
(* The job rows, the claim and startup recovery are module Pipeline's; a   *)
(* dead server is back here in one step, with the video failed if the      *)
(* research step was running.  One API server: it and the CLI are both     *)
(* where people's requests run.                                            *)
(***************************************************************************)
EXTENDS VideoState, FactSheet

CONSTANTS
  People,       \* requests in hand at once, through the API or the CLI
  Keys,         \* sort_key values
  GroupOf,      \* the variety bucket the content format puts a key in
  BuildSize,    \* facts that survive verification in one build
  Items,        \* the format's min_items
  Spread,       \* the format's min_groups
  MaxAttempts,  \* bound: research steps started
  MaxRequests,  \* bound: requests people make
  MaxLate,      \* bound: and more of them while an approval has yet to commit
  MaxCrashes    \* bound: deaths of the server or the worker

ASSUME FormatAssumption ==
  /\ Keys \subseteq Nat /\ Keys = DOMAIN GroupOf
  /\ Items \in Nat \ {0} /\ Spread \in Nat \ {0}
  /\ BuildSize \in Nat /\ BuildSize >= Items

ASSUME BoundsAssumption ==
  /\ MaxAttempts \in Nat \ {0}
  /\ MaxRequests \in Nat /\ MaxLate \in Nat /\ MaxCrashes \in Nat

VARIABLES
  video,     \* the video's row
  file,      \* projects/<id>/facts.json
  log,       \* the video's review_log rows
  people,    \* what each request in hand is about to do
  call,      \* the API's research call: none, dialing, or open
  attempts,  \* research steps started; the open call belongs to the last
  builds,    \* the worker's build thread of each attempt
  holes,     \* notes of edits that were saved and then failed to be logged
  requests, crashes

vars == <<video, file, log, people, call, attempts, builds, holes, requests, crashes>>
research == <<call, attempts, builds>>

NoSheet == [facts |-> <<>>, minItems |-> 0, minGroups |-> 0]
HasSheet == file # NoSheet
Idle == [pc |-> "idle"]

(* What the worker may write: BuildSize verified facts in play order, f1..fN, *)
(* none of them approved, each with the evidence of its own extraction.       *)
Evidence(a, i) == <<"article", a, i>>

BuiltSheets(a) ==
  LET sheet(k) ==
        [ facts |-> [i \in 1..BuildSize |->
                      [ id |-> i, key |-> k[i], claim |-> "extracted",
                        source |-> Evidence(a, i), group |-> GroupOf[k[i]],
                        approved |-> FALSE, human |-> FALSE ]],
          minItems |-> Items, minGroups |-> Spread ]
  IN {s \in {sheet(k) : k \in [1..BuildSize -> Keys]} : InPlayOrder(s)}

-----------------------------------------------------------------------------
(* The research step: Runner.execute around Research.Run around the call.  *)

StartResearch ==
  /\ video.status = "queued" /\ call = "none"
  /\ attempts < MaxAttempts
  /\ video' = Transition(video, "researching")
  /\ call' = "dialing"
  /\ attempts' = attempts + 1
  /\ UNCHANGED <<file, log, people, builds, holes, requests, crashes>>

(* The handler starts its thread as the stream opens. *)
StreamOpens ==
  /\ call = "dialing"
  /\ call' = "open"
  /\ builds' = [builds EXCEPT ![attempts] = "working"]
  /\ UNCHANGED <<video, file, log, people, attempts, holes, requests, crashes>>

BuildWrites(a) ==
  /\ builds[a] = "working"
  /\ file' \in BuiltSheets(a)
  /\ builds' = [builds EXCEPT ![a] = "written"]
  /\ UNCHANGED <<video, log, people, call, attempts, holes, requests, crashes>>

BuildRaises(a) ==
  /\ builds[a] = "working"
  /\ builds' = [builds EXCEPT ![a] = "raised"]
  /\ UNCHANGED <<video, file, log, people, call, attempts, holes, requests, crashes>>

(* Mutant: a stream that just ends is taken for a success. *)
SucceedOnEnd ==
  /\ call = "open" /\ builds[attempts] # "working"
  /\ video' = Transition(video, "facts_ready")
  /\ call' = "none"
  /\ UNCHANGED <<file, log, people, attempts, builds, holes, requests, crashes>>

StepSucceeds ==
  /\ call = "open" /\ builds[attempts] = "written"
  /\ video' = Transition(video, "facts_ready")
  /\ call' = "none"
  /\ UNCHANGED <<file, log, people, attempts, builds, holes, requests, crashes>>

(* Mutant: no deadline on the call; only the worker's answer ends it. *)
FailOnAnswer ==
  /\ call = "open" /\ builds[attempts] \in {"written", "raised"}
  /\ video' = Fail(video)
  /\ call' = "none"
  /\ UNCHANGED <<file, log, people, attempts, builds, holes, requests, crashes>>

(* The worker is unreachable, sends a failure, breaks the stream, ends it    *)
(* with no result, or is overtaken by the deadline: all of it can happen at  *)
(* any moment of the call, and none of it stops the build.                   *)
StepFails ==
  /\ call # "none"
  /\ video' = Fail(video)
  /\ call' = "none"
  /\ UNCHANGED <<file, log, people, attempts, builds, holes, requests, crashes>>

WorkerDies ==
  /\ crashes < MaxCrashes
  /\ \E a \in 1..attempts : builds[a] = "working"
  /\ builds' = [a \in DOMAIN builds |-> IF builds[a] = "working" THEN "killed" ELSE builds[a]]
  /\ crashes' = crashes + 1
  /\ UNCHANGED <<video, file, log, people, call, attempts, holes, requests>>

(* The notes of edits that a request has saved but not yet logged. *)
Unlogged(r) == IF r.pc \in {"saved", "noted"} THEN {r.note} ELSE {}

(* The API's requests and its call die with it, requests of the CLI go on. *)
ServerDies ==
  /\ crashes < MaxCrashes
  /\ crashes' = crashes + 1
  /\ video' = IF video.status = "researching" THEN Fail(video) ELSE video
  /\ call' = "none"
  /\ \E dead \in SUBSET People :
       /\ people' = [p \in People |-> IF p \in dead THEN Idle ELSE people[p]]
       /\ holes' = holes \cup UNION {Unlogged(people[p]) : p \in dead}
  /\ UNCHANGED <<file, log, attempts, builds, requests>>

-----------------------------------------------------------------------------
(* FactsService.mutate.  A note names the fact it is about; 0 names all.   *)

NoNote == [verb |-> "", fact |-> 0]
Ticked(on) == IF on THEN "approved" ELSE "unapproved"

(* Every edit a loaded sheet admits: the closure's error returns leave out  *)
(* unknown facts, blank wordings and unsourced additions.                   *)
Edits(s) ==
  {[sheet |-> SetApproval(s, i, on), note |-> [verb |-> Ticked(on), fact |-> i]]
     : i \in Ids(s), on \in BOOLEAN}
  \cup {[sheet |-> ApproveAll(s, on), note |-> [verb |-> Ticked(on), fact |-> 0]]
     : on \in BOOLEAN}
  \cup {[sheet |-> UpdateFact(s, i, k, "reworded"), note |-> [verb |-> "edited", fact |-> i]]
     : i \in Ids(s), k \in Keys}
  \cup {[sheet |-> DeleteFact(s, i), note |-> [verb |-> "deleted", fact |-> i]]
     : i \in Ids(s)}
  \cup {[sheet |-> AddFact(s, k, "typed", NoGroup, src),
         note |-> [verb |-> "added", fact |-> NextFactID(s)]]
     : k \in Keys, src \in {x \in {<<"book">>, NoSource} : ValidateHumanFact("typed", x)}}

(* An approval whose precondition was asked and whose transaction has not run. *)
ApprovalInHand == \E p \in People : people[p].pc = "checked"

Request(p, r) ==
  /\ people[p].pc = "idle"
  /\ requests < MaxRequests + (IF ApprovalInHand THEN MaxLate ELSE 0)
  /\ requests' = requests + 1
  /\ people' = [people EXCEPT ![p] = r]

LoadSheet(p) ==
  /\ HasSheet
  /\ Request(p, [pc |-> "loaded", sheet |-> file])
  /\ UNCHANGED <<video, file, log, research, holes, crashes>>

SaveEdit(p) ==
  /\ people[p].pc = "loaded"
  /\ \E e \in Edits(people[p].sheet) :
       /\ file' = Sorted(e.sheet)
       /\ people' = [people EXCEPT ![p] = [pc |-> "saved", note |-> e.note]]
  /\ UNCHANGED <<video, log, research, holes, requests, crashes>>

(* A status that cannot be read is taken to be facts_ready. *)
ReadStatus(p) ==
  /\ people[p].pc = "saved"
  /\ \E st \in {video.status, "facts_ready"} :
       people' = [people EXCEPT ![p] = [pc |-> "noted", note |-> people[p].note, status |-> st]]
  /\ UNCHANGED <<video, file, log, research, holes, requests, crashes>>

LogEntry(action, note, from, to) ==
  [action |-> action, note |-> note, from |-> from, to |-> to]

(* Mutant: only edits made at the gate are worth a log entry. *)
AppendEditAtGate(p) ==
  /\ people[p].pc = "noted"
  /\ log' = IF people[p].status = "facts_ready"
              THEN Append(log, LogEntry("edit", people[p].note, "facts_ready", "facts_ready"))
              ELSE log
  /\ people' = [people EXCEPT ![p] = Idle]
  /\ UNCHANGED <<video, file, research, holes, requests, crashes>>

AppendEdit(p) ==
  /\ people[p].pc = "noted"
  /\ log' = Append(log, LogEntry("edit", people[p].note, people[p].status, people[p].status))
  /\ people' = [people EXCEPT ![p] = Idle]
  /\ UNCHANGED <<video, file, research, holes, requests, crashes>>

(* A request ends in an error: it is refused, a save or an append fails, or  *)
(* its client has gone and the cancelled context fails it.  What it saved    *)
(* stays saved.                                                              *)
EndInError(p) ==
  /\ people[p].pc # "idle"
  /\ holes' = holes \cup Unlogged(people[p])
  /\ people' = [people EXCEPT ![p] = Idle]
  /\ UNCHANGED <<video, file, log, research, requests, crashes>>

-----------------------------------------------------------------------------
(* Decisions on the video.  Gate A's precondition reads the file before the *)
(* transaction that approves begins.                                        *)

Decide(row, action) ==
  /\ video' = row
  /\ log' = Append(log, LogEntry(action, NoNote, video.status, row.status))
  /\ UNCHANGED <<file, research, holes, crashes>>

(* Mutant: the precondition is not wired in. *)
CheckNothing(p) ==
  /\ Request(p, [pc |-> "checked"])
  /\ UNCHANGED <<video, file, log, research, holes, crashes>>

CheckPrecondition(p) ==
  /\ HasSheet /\ CheckGateA(file)
  /\ Request(p, [pc |-> "checked"])
  /\ UNCHANGED <<video, file, log, research, holes, crashes>>

ApproveGateA(p) ==
  /\ people[p].pc = "checked"
  /\ CanApproveGate(video, "A")
  /\ people' = [people EXCEPT ![p] = Idle]
  /\ Decide(ApproveGate(video, "A"), "approve")
  /\ UNCHANGED requests

RejectGateA(p, backTo) ==
  /\ CanRejectGate(video, "A", backTo)
  /\ Request(p, Idle)
  /\ Decide(RejectGate(video, "A", backTo), "reject")

RetryVideo(p) ==
  /\ CanRetry(video)
  /\ Request(p, Idle)
  /\ Decide(Retry(video), "retry")

-----------------------------------------------------------------------------
Init ==
  /\ video = NewVideo
  /\ file = NoSheet
  /\ log = <<>>
  /\ people = [p \in People |-> Idle]
  /\ call = "none"
  /\ attempts = 0
  /\ builds = [a \in 1..MaxAttempts |-> "none"]
  /\ holes = {}
  /\ requests = 0 /\ crashes = 0

Step == StartResearch \/ StreamOpens \/ StepSucceeds \/ StepFails
Worker == \E a \in 1..MaxAttempts : BuildWrites(a) \/ BuildRaises(a)
Person(p) ==
  \/ LoadSheet(p) \/ SaveEdit(p) \/ ReadStatus(p) \/ AppendEdit(p) \/ EndInError(p)
  \/ CheckPrecondition(p) \/ ApproveGateA(p) \/ RetryVideo(p)
  \/ \E backTo \in PipelineStatus : RejectGateA(p, backTo)

Next == Step \/ Worker \/ WorkerDies \/ ServerDies \/ \E p \in People : Person(p)

(* The call has a deadline (services.yaml) and the goroutine records what it *)
(* ends with; nothing is assumed of the worker or of people.                 *)
Fairness == WF_vars(StepFails)

Spec == Init /\ [][Next]_vars /\ Fairness

-----------------------------------------------------------------------------
Fact == [ id : Nat, key : Keys, claim : {"extracted", "reworded", "typed"},
          source : {NoSource, <<"book">>}
                     \cup {Evidence(a, i) : a \in 1..MaxAttempts, i \in 1..BuildSize},
          group : {GroupOf[k] : k \in Keys} \cup {OwnGroup}, approved : BOOLEAN, human : BOOLEAN ]
Sheet == [ facts : Seq(Fact), minItems : Nat, minGroups : Nat ]
Note == [ verb : {"", "approved", "unapproved", "edited", "deleted", "added"}, fact : Nat ]
Entry == [ action : {"edit", "approve", "reject", "retry"}, note : Note,
           from : Status, to : Status ]
PersonState ==
  {Idle} \cup [pc : {"checked"}] \cup [pc : {"loaded"}, sheet : Sheet]
    \cup [pc : {"saved"}, note : Note] \cup [pc : {"noted"}, note : Note, status : Status]

(* Every variable keeps its type; in particular no edit, order or approval  *)
(* ever puts a field of the sheet outside its domain.                       *)
TypeOK ==
  /\ video \in Video
  /\ file \in Sheet
  /\ log \in Seq(Entry)
  /\ people \in [People -> PersonState]
  /\ call \in {"none", "dialing", "open"}
  /\ attempts \in 0..MaxAttempts
  /\ builds \in [1..MaxAttempts -> {"none", "working", "written", "raised", "killed"}]
  /\ holes \subseteq Note
  /\ requests \in 0..(MaxRequests + MaxLate) /\ crashes \in 0..MaxCrashes

(* However edits overlap with each other and with a build, the file is one   *)
(* whole sheet: ids name one fact each, and the facts are in play order      *)
(* (NextFactID, and the sort in factstore Save and in the worker's build).   *)
SheetIsWellFormed == IdsAreDistinct(file) /\ InPlayOrder(file)

(* "Evidence and SourceURL are never editable for an extracted fact": every   *)
(* extracted fact on file carries the evidence its own build found for it,   *)
(* all of them from one build, and every typed one has a source.             *)
EvidenceStands ==
  \E a \in 1..MaxAttempts : \A f \in Facts(file) :
    IF f.human THEN f.source = <<"book">> ELSE f.source = Evidence(a, f.id)

(* A video that reached Gate A or passed it has a sheet: a stream that ended *)
(* without a result never counts as research done (aigrpc BuildFactSheet).   *)
ReadyHasSheet == video.status \in {"facts_ready", "facts_approved"} => HasSheet

(* No build is left running under a sheet that people are reviewing: a build *)
(* outlives its call, but the video of an abandoned call never gets back to  *)
(* Gate A while it runs.                                                     *)
NoBuildUnderReview ==
  (\E a \in 1..MaxAttempts : builds[a] = "working") => Position(video) = "researching"

(* What people did: the notes on the log, about to be logged, or in a hole.  *)
Deeds == {log[i].note : i \in DOMAIN log}
           \cup holes \cup UNION {Unlogged(people[p]) : p \in People}

(* The file never shows human work that nobody is on record for: a typed     *)
(* fact has its "added" note, a ticked one its "approved" note, whichever    *)
(* edits were lost to overlapping saves ("none of them can forget to write a *)
(* review-log entry"; the exceptions are the requests that failed halfway).  *)
WorkIsOnRecord ==
  \A f \in Facts(file) :
    /\ f.human => [verb |-> "added", fact |-> f.id] \in Deeds
    /\ f.approved /\ ~f.human =>
         \E i \in {f.id, 0} : [verb |-> "approved", fact |-> i] \in Deeds

(* Gate A is passed on people's work only: whatever the precondition read,   *)
(* and whatever edit, rejection or second build came between the check and   *)
(* the commit, somebody had approved or added enough facts.                  *)
ApprovalRestsOnPeople ==
  video.status = "facts_approved" =>
    \/ [verb |-> "approved", fact |-> 0] \in Deeds
    \/ Cardinality({d.fact : d \in {x \in Deeds : x.verb \in {"approved", "added"}}}) >= Items

(* SPEC 13.3, "No unbounded hangs": a research call always ends, even if the *)
(* worker never answers.                                                     *)
CallsEnd == call # "none" ~> call = "none"

(* "A video whose output already exists should return quickly rather than    *)
(* redo it" (step.go; SPEC 13.3, Idempotency): research leaves an existing   *)
(* sheet alone.                                                              *)
ResearchKeepsTheSheet ==
  [][\A a \in 1..MaxAttempts :
       builds[a] = "working" /\ builds'[a] = "written" => ~HasSheet]_vars
=============================================================================
