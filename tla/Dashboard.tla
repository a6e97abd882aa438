------------------------------ MODULE Dashboard ------------------------------
(***************************************************************************)
(* One browser tab on a video's Gate A page, and the API behind it         *)
(* (web/lib/api/facts.ts, web/features/gates/facts).                       *)
(*                                                                         *)
(* The page shows what its query cache holds: the video, its fact sheet    *)
(* and its latest job.  A fetch and a mutation are each a request the      *)
(* server handles at some moment and a response that arrives at a later    *)
(* one, in any order.  The cache changes only when a response arrives.     *)
(*                                                                         *)
(* The query library (external) does four things here: it has one fetch    *)
(* per query in flight and lets a second one join it; an invalidation      *)
(* discards the fetch in flight instead, if the query has data; it fetches *)
(* on mount and on window focus (on either after two seconds, the          *)
(* staleTime); and a fetch that brings nothing is an error that keeps the  *)
(* old data.                                                               *)
(*                                                                         *)
(* The server handles a request in one step here: what overlapping edits   *)
(* do to each other there is module FactsGate's, how a step runs module    *)
(* Pipeline's.  Wording and layout are left out.                           *)
(***************************************************************************)
EXTENDS VideoState, FiniteSets

CONSTANTS
  FactIds,       \* facts a build puts on the sheet
  MinItems,      \* approved facts Gate A asks for
  MaxClicks,     \* bound: mutations this page sends
  MaxTrouble     \* bound: requests or responses lost, and acts of people elsewhere

ASSUME BoundsAssumption ==
  MinItems \in Nat /\ MaxClicks \in Nat /\ MaxTrouble \in Nat

VARIABLES
  video, sheet, job,   \* the server: the row, facts.json, the latest job's state
  cache,               \* the page: what each query last brought
  failed,              \* queries whose last fetch failed
  fetch,               \* the fetch in flight of each query
  mutations,           \* mutations in flight
  open,                \* the page is on the screen
  crossed,             \* history: something else of the sheet's met an edit in flight
  clicks, trouble

server == <<video, sheet, job>>
page == <<cache, failed, fetch, mutations, open>>
vars == <<server, page, crossed, clicks, trouble>>

Queries == {"video", "facts", "job"}
Nothing == [nothing |-> TRUE]
JobRow(st) == [state |-> st]
NoFact == "none"
NoSheet == [exists |-> FALSE]
NewSheet == [exists |-> TRUE, present |-> FactIds, ticked |-> {}]
CanApprove(s) == s.exists /\ Cardinality(s.ticked) >= MinItems

-----------------------------------------------------------------------------
(* The cache. *)

Idle == [pc |-> "idle"]
Asked == [pc |-> "asked"]

(* Start a fetch, or join the one in flight. *)
Fetching(ks) ==
  [k \in Queries |-> IF k \in ks /\ fetch[k] = Idle THEN Asked ELSE fetch[k]]

(* invalidateQueries, which fetches only what is on the screen. *)
Invalidating(ks) ==
  [k \in Queries |-> IF open /\ k \in ks /\ (fetch[k] = Idle \/ cache[k] # Nothing)
                       THEN Asked ELSE fetch[k]]

(* FactsGate, and the queries it mounts, are there once the video is. *)
Mounted == IF cache["video"] = Nothing THEN {"video"} ELSE Queries

Edit == {"tick", "all", "delete"}
EditsInFlight == {m \in mutations : m.do \in Edit}

(* Two requests that can overtake each other, one of them an edit; a second *)
(* tick, or a second "approve all", is held back while the first is pending. *)
Crossing ==
  \/ EditsInFlight # {} /\ fetch["facts"] # Idle
  \/ \E m, n \in EditsInFlight : m # n /\ (m.do # n.do \/ m.do = "delete")

Watch ==
  crossed' = (crossed \/ Crossing' \/ trouble' # trouble \/ (sheet' # sheet /\ mutations' = mutations))

-----------------------------------------------------------------------------
(* Fetches: the server answers with what it has; the answer arrives later. *)

Stored(k) ==
  CASE k = "video" -> video
    [] k = "facts" -> sheet
    [] k = "job"   -> IF job = "none" THEN Nothing ELSE JobRow(job)

Answer(k) ==
  /\ fetch[k] = Asked
  /\ fetch' = [fetch EXCEPT ![k] = [pc |-> "answered", data |-> Stored(k)]]
  /\ UNCHANGED <<server, cache, failed, mutations, open, clicks, trouble>>
  /\ Watch

(* A job query of a video that never ran brings undefined, which is an error. *)
Arrive(k) ==
  /\ fetch[k].pc = "answered"
  /\ LET brought == fetch[k].data # Nothing
         mounting == k = "video" /\ cache["video"] = Nothing
         done == [fetch EXCEPT ![k] = Idle]
     IN /\ cache' = IF brought THEN [cache EXCEPT ![k] = fetch[k].data] ELSE cache
        /\ failed' = IF brought THEN failed \ {k} ELSE failed \cup {k}
        /\ fetch' = IF mounting THEN [done EXCEPT !["facts"] = Asked, !["job"] = Asked] ELSE done
  /\ UNCHANGED <<server, mutations, open, clicks, trouble>>
  /\ Watch

LoseFetch(k) ==
  /\ fetch[k] # Idle /\ trouble < MaxTrouble
  /\ trouble' = trouble + 1
  /\ fetch' = [fetch EXCEPT ![k] = Idle]
  /\ failed' = failed \cup {k}
  /\ UNCHANGED <<server, cache, mutations, open, clicks>>
  /\ Watch

(* Mutant: the interval is on while nothing runs. *)
PollWhenIdle ==
  /\ open /\ cache["job"] \notin {JobRow("running"), Nothing} /\ fetch["job"] = Idle
  /\ fetch' = Fetching({"job"})
  /\ UNCHANGED <<server, cache, failed, mutations, open, clicks, trouble>>
  /\ Watch

(* useLatestJob's refetchInterval *)
Poll ==
  /\ open /\ cache["job"] = JobRow("running") /\ fetch["job"] = Idle
  /\ fetch' = Fetching({"job"})
  /\ UNCHANGED <<server, cache, failed, mutations, open, clicks, trouble>>
  /\ Watch

(* Mutant: window focus refreshes the sheet alone. *)
LookAtFacts ==
  /\ \E k \in Mounted : fetch[k] = Idle
  /\ open' = TRUE
  /\ fetch' = Fetching(IF Mounted = Queries THEN {"facts"} ELSE Mounted)
  /\ UNCHANGED <<server, cache, failed, mutations, clicks, trouble>>
  /\ Watch

(* The window gets the focus again, or the page is visited again. *)
LookAgain ==
  /\ \E k \in Mounted : fetch[k] = Idle
  /\ open' = TRUE
  /\ fetch' = Fetching(Mounted)
  /\ UNCHANGED <<server, cache, failed, mutations, clicks, trouble>>
  /\ Watch

-----------------------------------------------------------------------------
(* What the page shows (FactsGate.tsx, GateDecisionBar.tsx). *)

Running == cache["job"] = JobRow("running")
ShowsNoFacts == Mounted = Queries /\ ~Running /\ cache["facts"] = NoSheet /\ "facts" \notin failed
ShowsSheet ==
  /\ Mounted = Queries /\ ~Running
  /\ cache["facts"] \notin {Nothing, NoSheet} /\ "facts" \notin failed
AtGateA == AwaitsGate(cache["video"].status, "A")

Pending(do) == \E m \in mutations : m.do = do

Send(do, fact, on) ==
  /\ open /\ clicks < MaxClicks
  /\ clicks' = clicks + 1
  /\ mutations' = mutations \cup
       {[pc |-> "asked", do |-> do, fact |-> fact, on |-> on, view |-> NoSheet]}
  /\ UNCHANGED <<server, cache, failed, fetch, open, trouble>>
  /\ Watch

Tick(f) ==
  /\ ShowsSheet /\ f \in cache["facts"].present /\ ~Pending("tick")
  /\ Send("tick", f, f \notin cache["facts"].ticked)

(* Mutant: "approve all" and "clear all" are not disabled while one is pending. *)
TickAllFreely(on) == ShowsSheet /\ Send("all", NoFact, on)

TickAll(on) == ShowsSheet /\ ~Pending("all") /\ Send("all", NoFact, on)
Delete(f) ==
  /\ ShowsSheet /\ f \in cache["facts"].present /\ ~Pending("tick")
  /\ Send("delete", f, FALSE)
RunStep == ShowsNoFacts /\ ~Pending("run") /\ Send("run", NoFact, FALSE)
Approve ==
  ShowsSheet /\ CanApprove(cache["facts"]) /\ AtGateA /\ ~Pending("approve") /\ Send("approve", NoFact, FALSE)
SendBack == ShowsSheet /\ AtGateA /\ ~Pending("reject") /\ Send("reject", NoFact, FALSE)

-----------------------------------------------------------------------------
(* The server's side of a mutation. *)

EditedSheet(m) ==
  CASE m.do = "tick"   -> [sheet EXCEPT !.ticked = IF m.on THEN @ \cup {m.fact} ELSE @ \ {m.fact}]
    [] m.do = "all"    -> [sheet EXCEPT !.ticked = IF m.on THEN sheet.present ELSE {}]
    [] m.do = "delete" -> [sheet EXCEPT !.present = @ \ {m.fact}, !.ticked = @ \ {m.fact}]

Reply(m, answer) ==
  /\ mutations' = (mutations \ {m}) \cup {answer}
  /\ UNCHANGED <<cache, failed, fetch, open, clicks, trouble>>
  /\ Watch

Ok(m) == [m EXCEPT !.pc = "ok"]

HandleEdit(m) ==
  /\ m.pc = "asked" /\ m.do \in Edit
  /\ m.do # "all" => m.fact \in sheet.present
  /\ sheet' = EditedSheet(m)
  /\ UNCHANGED <<video, job>>
  /\ Reply(m, [m EXCEPT !.pc = "ok", !.view = sheet'])

(* Refused to start is an answer too, not an error. *)
HandleRun(m) ==
  /\ m.pc = "asked" /\ m.do = "run"
  /\ IF video.status = "queued" /\ job # "running"
       THEN video' = Transition(video, "researching") /\ job' = "running"
       ELSE UNCHANGED <<video, job>>
  /\ UNCHANGED sheet
  /\ Reply(m, Ok(m))

HandleDecision(m) ==
  /\ m.pc = "asked"
  /\ \/ /\ m.do = "approve" /\ CanApprove(sheet) /\ CanApproveGate(video, "A")
        /\ video' = ApproveGate(video, "A")
     \/ /\ m.do = "reject" /\ CanRejectGate(video, "A", "researching")
        /\ video' = RejectGate(video, "A", "researching")
  /\ UNCHANGED <<sheet, job>>
  /\ Reply(m, Ok(m))

Refuses(m) ==
  \/ m.do \in {"tick", "delete"} /\ m.fact \notin sheet.present
  \/ m.do = "approve" /\ ~(CanApprove(sheet) /\ CanApproveGate(video, "A"))
  \/ m.do = "reject" /\ ~CanRejectGate(video, "A", "researching")

Refuse(m) ==
  /\ m.pc = "asked" /\ Refuses(m)
  /\ UNCHANGED server
  /\ Reply(m, [m EXCEPT !.pc = "refused"])

-----------------------------------------------------------------------------
(* A mutation's response arrives: its onSuccess, or its error. *)

ShowEdit(m) ==
  /\ m.pc = "ok" /\ m.do \in Edit
  /\ mutations' = mutations \ {m}
  /\ cache' = [cache EXCEPT !["facts"] = m.view]
  /\ failed' = failed \ {"facts"}
  /\ fetch' = Invalidating({"video"})
  /\ UNCHANGED <<server, open, clicks, trouble>>
  /\ Watch

FollowRun(m) ==
  /\ m.pc = "ok" /\ m.do = "run"
  /\ mutations' = mutations \ {m}
  /\ fetch' = Invalidating({"job", "video"})
  /\ UNCHANGED <<server, cache, failed, open, clicks, trouble>>
  /\ Watch

(* A decision leads back to the queue. *)
LeaveAfter(m) ==
  /\ m.pc = "ok" /\ m.do \in {"approve", "reject"}
  /\ mutations' = mutations \ {m}
  /\ fetch' = Invalidating({"video", "facts"})
  /\ open' = FALSE
  /\ UNCHANGED <<server, cache, failed, clicks, trouble>>
  /\ Watch

ShowError(m) ==
  /\ m.pc = "refused"
  /\ mutations' = mutations \ {m}
  /\ UNCHANGED <<server, cache, failed, fetch, open, clicks, trouble>>
  /\ Watch

(* The connection breaks before the server or the page has heard. *)
LoseMutation(m) ==
  /\ trouble < MaxTrouble
  /\ trouble' = trouble + 1
  /\ mutations' = mutations \ {m}
  /\ UNCHANGED <<server, cache, failed, fetch, open, clicks>>
  /\ Watch

-----------------------------------------------------------------------------
(* Meanwhile: the step ends (to the page an interrupted job is a failed one), *)
(* and people act through the CLI.                                           *)

StepEnds ==
  /\ job = "running"
  /\ \/ video' = Transition(video, "facts_ready") /\ sheet' = NewSheet /\ job' = "succeeded"
     \/ video' = Fail(video) /\ job' = "failed" /\ UNCHANGED sheet
  /\ UNCHANGED <<page, clicks, trouble>>
  /\ Watch

Elsewhere ==
  /\ trouble < MaxTrouble
  /\ trouble' = trouble + 1
  /\ \/ /\ sheet.exists
        /\ \E f \in sheet.present \ sheet.ticked : sheet' = [sheet EXCEPT !.ticked = @ \cup {f}]
        /\ UNCHANGED video
     \/ /\ \/ CanApprove(sheet) /\ CanApproveGate(video, "A") /\ video' = ApproveGate(video, "A")
           \/ CanRejectGate(video, "A", "queued") /\ video' = RejectGate(video, "A", "queued")
           \/ CanRetry(video) /\ video' = Retry(video)
        /\ UNCHANGED sheet
  /\ UNCHANGED <<job, page, clicks>>
  /\ Watch

-----------------------------------------------------------------------------
(* The page is opened on a queued video, or on one that waits at Gate A. *)
Init ==
  /\ \/ video = NewVideo /\ sheet = NoSheet /\ job = "none"
     \/ /\ video = [NewVideo EXCEPT !.status = "facts_ready"]
        /\ sheet = NewSheet /\ job = "succeeded"
  /\ cache = [k \in Queries |-> Nothing]
  /\ failed = {}
  /\ fetch = [k \in Queries |-> IF k = "video" THEN Asked ELSE Idle]
  /\ mutations = {}
  /\ open = TRUE /\ crossed = FALSE
  /\ clicks = 0 /\ trouble = 0

Fetches == \E k \in Queries : Answer(k) \/ Arrive(k) \/ LoseFetch(k)
Clicks ==
  \/ \E f \in FactIds : Tick(f) \/ Delete(f)
  \/ \E on \in BOOLEAN : TickAll(on)
  \/ RunStep \/ Approve \/ SendBack
Handle(m) == HandleEdit(m) \/ HandleRun(m) \/ HandleDecision(m) \/ Refuse(m)
Return(m) == ShowEdit(m) \/ FollowRun(m) \/ LeaveAfter(m) \/ ShowError(m)

Next ==
  \/ Fetches \/ Poll \/ LookAgain \/ Clicks
  \/ \E m \in mutations : Handle(m) \/ Return(m) \/ LoseMutation(m)
  \/ StepEnds \/ Elsewhere

(* The server answers, responses arrive, the interval fires and a step ends *)
(* (its call has a deadline).  Nobody is obliged to click or to look again. *)
Fairness ==
  /\ \A k \in Queries : WF_vars(Answer(k)) /\ WF_vars(Arrive(k))
  /\ WF_vars(\E m \in mutations : Handle(m)) /\ WF_vars(\E m \in mutations : Return(m))
  /\ WF_vars(Poll) /\ WF_vars(StepEnds)

Spec == Init /\ [][Next]_vars /\ Fairness

-----------------------------------------------------------------------------
Sheet == {NoSheet} \cup
  {s \in [exists : {TRUE}, present : SUBSET FactIds, ticked : SUBSET FactIds] :
     s.ticked \subseteq s.present}
Job == {"none", "running", "succeeded", "failed"}
Mutation ==
  [ pc : {"asked", "ok", "refused"}, do : Edit \cup {"run", "approve", "reject"},
    fact : FactIds \cup {NoFact}, on : BOOLEAN, view : Sheet ]

TypeOK ==
  /\ video \in Video /\ sheet \in Sheet /\ job \in Job
  /\ cache["video"] \in Video \cup {Nothing}
  /\ cache["facts"] \in Sheet \cup {Nothing}
  /\ cache["job"] \in [state : Job \ {"none"}] \cup {Nothing}
  /\ DOMAIN cache = Queries /\ DOMAIN fetch = Queries
  /\ failed \subseteq Queries
  /\ mutations \subseteq Mutation
  /\ open \in BOOLEAN /\ crossed \in BOOLEAN
  /\ clicks \in 0..MaxClicks /\ trouble \in 0..MaxTrouble

(* "That keeps the approval verdict in step with the tick you just clicked"  *)
(* (facts.ts): as long as nothing else of the sheet's crossed an edit, the   *)
(* page that has heard of all its edits shows the sheet as it is stored.     *)
TicksStayInStep ==
  (~crossed /\ EditsInFlight = {} /\ fetch["facts"] = Idle /\ cache["facts"] # Nothing)
    => cache["facts"] = sheet

(* "Polls only while something is running" (facts.ts), but then to the end:  *)
(* a run the page has seen is followed until the page knows how it ended,    *)
(* through lost responses too, unless the operator leaves the page.          *)
SeenRunIsFollowed ==
  (open /\ cache["job"] = JobRow("running")) ~> (~open \/ cache["job"] # JobRow("running"))

(* Whatever crossed, was lost or was done elsewhere, a page that is looked   *)
(* at again and again ends up showing what the server holds.                 *)
InStep ==
  /\ cache["video"] = video /\ cache["facts"] = sheet
  /\ job # "none" => cache["job"] = JobRow(job)

LookingCatchesUp == []<><<LookAgain>>_vars => <>[]InStep

-----------------------------------------------------------------------------
(* What the documents say and the page does not do. *)

(* The dots of GateProgress.tsx: statuses by their number on the wire.       *)
WireStatus(s) == IF s = "error" THEN 24 ELSE orderIndex[s] + 1
passedThresholds == <<4, 7, 10, 13, 16, 19>>
gatesPassed(s) == Cardinality({i \in 1..6 : WireStatus(s) >= passedThresholds[i]})

(* "How far a video has travelled through the review gates": as many dots    *)
(* are filled as gates lie behind the video.                                 *)
DotsTellTheGates ==
  cache["video"] # Nothing =>
    gatesPassed(cache["video"].status) = Cardinality(GatesBehind(Position(cache["video"])))

-----------------------------------------------------------------------------
(* The inductive invariant, by parts.                                        *)

FetchOf(datas) == {Idle, Asked} \cup [pc : {"answered"}, data : datas]

AnswersAreTyped ==
  /\ fetch["video"] \in FetchOf(Video)
  /\ fetch["facts"] \in FetchOf(Sheet)
  /\ fetch["job"] \in FetchOf([state : Job \ {"none"}] \cup {Nothing})

(* A sheet the page has seen or edits is there: no sheet is ever taken away. *)
SeenSheetsExist ==
  /\ cache["facts"] \notin {Nothing, NoSheet} => sheet # NoSheet
  /\ fetch["facts"].pc = "answered" /\ fetch["facts"].data # NoSheet => sheet # NoSheet
  /\ EditsInFlight # {} => sheet # NoSheet

(* Ticks go one at a time, and so does "approve all".                        *)
OneOfAKind ==
  \A m, n \in mutations : m.do = n.do /\ m.do \in {"tick", "all"} => m = n

(* Until something crosses, whatever is on its way to the page is the sheet  *)
(* as stored, and so is what the page shows unless an edit's answer is.      *)
UncrossedIsCurrent ==
  ~crossed =>
    /\ ~Crossing
    /\ fetch["facts"].pc = "answered" => fetch["facts"].data = sheet
    /\ \A m \in EditsInFlight : m.pc = "ok" => m.view = sheet
    /\ (cache["facts"] # Nothing /\ \A m \in EditsInFlight : m.pc # "ok")
         => cache["facts"] = sheet

PageInv == TypeOK /\ AnswersAreTyped /\ SeenSheetsExist /\ OneOfAKind /\ UncrossedIsCurrent
=============================================================================
