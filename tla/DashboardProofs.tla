--------------------------- MODULE DashboardProofs ---------------------------
(***************************************************************************)
(* For any number of facts and clicks: as long as nothing crosses an edit, *)
(* the Gate A page shows the sheet as it is stored.                        *)
(*                                                                         *)
(* The argument (UncrossedIsCurrent).  While nothing has crossed, an edit  *)
(* and a fetch of the sheet are never in flight together, and no two       *)
(* edits are; so the sheet changes only under the one edit in flight,      *)
(* whose answer is the sheet as it left it, and a fetch brings what is     *)
(* still stored when it arrives.                                           *)
(***************************************************************************)
EXTENDS Dashboard, SharedLemmas

LEMMA SheetValues ==
  /\ NoSheet \in Sheet /\ NewSheet \in Sheet /\ NewSheet # NoSheet
  /\ Nothing \notin Sheet /\ Nothing \notin Video
  /\ \A st : JobRow(st) # Nothing
  /\ \A s \in Sheet : s # NoSheet =>
       s \in [exists : {TRUE}, present : SUBSET FactIds, ticked : SUBSET FactIds]
<1>1. NoSheet \in Sheet /\ NewSheet \in Sheet
  BY DEF NoSheet, NewSheet, Sheet
<1>2. NewSheet # NoSheet
  <2>1. NewSheet.exists # NoSheet.exists
    BY DEF NewSheet, NoSheet
  <2>2. QED
    BY <2>1
<1>3. Nothing \notin Sheet /\ Nothing \notin Video
  BY DEF Nothing, Sheet, NoSheet, Video
<1>4. \A st : JobRow(st) # Nothing
  BY DEF JobRow, Nothing
<1>5. QED
  BY <1>1, <1>2, <1>3, <1>4 DEF Sheet

LEMMA WholeSheets ==
  ASSUME NEW s \in [exists : {TRUE}, present : SUBSET FactIds, ticked : SUBSET FactIds],
         s.ticked \subseteq s.present
  PROVE  s \in Sheet /\ s # NoSheet
<1>1. s \in Sheet
  BY DEF Sheet
<1>2. s.exists = TRUE /\ NoSheet.exists = FALSE
  BY DEF NoSheet
<1>3. QED
  BY <1>1, <1>2

(* What the server stores is what its answers hold. *)
LEMMA StoredIsTyped ==
  ASSUME TypeOK
  PROVE  /\ Stored("video") \in Video
         /\ Stored("facts") = sheet /\ sheet \in Sheet
         /\ Stored("job") \in [state : Job \ {"none"}] \cup {Nothing}
BY DEF TypeOK, Stored, JobRow, Job

(* An uncrossed step: nothing had crossed, and nothing crosses now. *)
LEMMA UncrossedSteps ==
  ASSUME TypeOK, Watch
  PROVE  /\ crossed' \in BOOLEAN
         /\ ~crossed' => /\ ~crossed /\ ~Crossing' /\ trouble' = trouble
                         /\ sheet' = sheet \/ mutations' # mutations
BY DEF TypeOK, Watch

LEMMA EditTypes ==
  ASSUME PageInv, NEW m \in mutations
  PROVE  /\ m \in Mutation
         /\ m.pc \in {"asked", "ok", "refused"}
         /\ m.do \in Edit \cup {"run", "approve", "reject"}
         /\ m.do \in Edit => m \in EditsInFlight /\ sheet # NoSheet
BY DEF PageInv, TypeOK, Mutation, EditsInFlight, SeenSheetsExist

-----------------------------------------------------------------------------
LEMMA InitPageInv == Init => PageInv
<1> SUFFICES ASSUME Init PROVE PageInv
  OBVIOUS
<1>1. TypeOK
  <2>1. video \in Video
    <3>1. "facts_ready" \in Status
      BY DEF Status, PipelineStatus, orderIndex
    <3>2. [NewVideo EXCEPT !.status = "facts_ready"] \in Video
      BY <3>1, ChangesGiveVideos DEF Video
    <3>3. QED
      BY <3>2, ChangesGiveVideos DEF Init
  <2>2. sheet \in {NoSheet, NewSheet} /\ job \in {"none", "succeeded"}
    BY DEF Init
  <2>3. /\ \A k \in Queries : cache[k] = Nothing
        /\ DOMAIN cache = Queries /\ DOMAIN fetch = Queries
    BY DEF Init
  <2>4. open \in BOOLEAN /\ crossed \in BOOLEAN /\ failed = {} /\ mutations = {}
    BY DEF Init
  <2>5. clicks \in 0..MaxClicks /\ trouble \in 0..MaxTrouble
    BY BoundsAssumption DEF Init
  <2>6. QED
    BY <2>1, <2>2, <2>3, <2>4, <2>5, SheetValues DEF TypeOK, Queries, Job
<1>2. /\ fetch["facts"] = Idle /\ cache["facts"] = Nothing /\ EditsInFlight = {}
      /\ AnswersAreTyped
  BY DEF Init, AnswersAreTyped, FetchOf, Queries, EditsInFlight
<1>3. fetch["facts"].pc # "answered"
  BY <1>2 DEF Idle
<1>4. ~Crossing
  BY <1>2 DEF Crossing
<1>5. OneOfAKind
  BY DEF Init, OneOfAKind
<1>6. SeenSheetsExist /\ UncrossedIsCurrent
  BY <1>2, <1>3, <1>4 DEF SeenSheetsExist, UncrossedIsCurrent
<1>7. QED
  BY <1>1, <1>2, <1>5, <1>6 DEF PageInv

-----------------------------------------------------------------------------
(* Steps that change neither the sheet nor what the page shows.            *)

(* A fetch is started, answered or dropped; a mutation in flight ends, and *)
(* none that carries a new sheet, unless by trouble.                       *)
LEMMA QuietStepsKeepInv ==
  ASSUME PageInv, Watch, UNCHANGED <<server, cache>>,
         mutations' \subseteq mutations,
         clicks' \in 0..MaxClicks, trouble' \in 0..MaxTrouble,
         trouble' # trouble \/ \A m \in mutations \ mutations' : m.do \notin Edit \/ m.pc # "ok",
         DOMAIN fetch' = Queries,
         \A k \in Queries : fetch'[k] \in {fetch[k], Idle, Asked, [pc |-> "answered", data |-> Stored(k)]},
         failed' \subseteq Queries, open' \in BOOLEAN
  PROVE  PageInv'
<1> USE DEF PageInv
<1>1. crossed' \in BOOLEAN
  BY UncrossedSteps
<1>2. TypeOK'
  BY <1>1 DEF TypeOK, server
<1>3. AnswersAreTyped'
  BY StoredIsTyped DEF AnswersAreTyped, FetchOf, Queries
<1>4. fetch'["facts"].pc = "answered" =>
        fetch'["facts"] = fetch["facts"] \/ fetch'["facts"].data = sheet
  <2>1. fetch'["facts"] \in {fetch["facts"], Idle, Asked, [pc |-> "answered", data |-> sheet]}
    BY StoredIsTyped DEF Queries
  <2>2. QED
    BY <2>1 DEF Idle, Asked
<1>5. EditsInFlight' \subseteq EditsInFlight
  BY DEF EditsInFlight
<1>6. SeenSheetsExist'
  BY <1>4, <1>5 DEF SeenSheetsExist, server
<1>7. OneOfAKind'
  BY DEF OneOfAKind
<1>8. UncrossedIsCurrent'
  <2> SUFFICES ASSUME ~crossed' PROVE UncrossedIsCurrent'
    BY DEF UncrossedIsCurrent
  <2>1. ~crossed /\ ~Crossing' /\ trouble' = trouble
    BY UncrossedSteps
  <2>2. sheet' = sheet /\ cache' = cache
    BY DEF server
  <2>3. fetch'["facts"].pc = "answered" => fetch'["facts"].data = sheet
    BY <1>4, <2>1 DEF UncrossedIsCurrent
  <2>4. \A m \in EditsInFlight : m.pc = "ok" => m \in EditsInFlight'
    BY <2>1 DEF EditsInFlight
  <2>5. QED
    BY <1>5, <2>1, <2>2, <2>3, <2>4 DEF UncrossedIsCurrent
<1> HIDE DEF PageInv
<1>9. QED
  BY <1>2, <1>3, <1>6, <1>7, <1>8 DEF PageInv

(* What starts fetches leaves the others as they are. *)
LEMMA StartingFetches ==
  ASSUME NEW ks
  PROVE  /\ DOMAIN Fetching(ks) = Queries /\ DOMAIN Invalidating(ks) = Queries
         /\ \A k \in Queries : /\ Fetching(ks)[k] \in {fetch[k], Asked}
                               /\ Invalidating(ks)[k] \in {fetch[k], Asked}
BY DEF Fetching, Invalidating

LEMMA FetchesKeepInv ==
  ASSUME PageInv,
         \/ \E k \in Queries : Answer(k) \/ LoseFetch(k)
         \/ Poll \/ LookAgain
  PROVE  PageInv'
<1>1. ASSUME NEW k \in Queries, Answer(k) PROVE PageInv'
  BY <1>1, QuietStepsKeepInv, BoundsAssumption DEF Answer, PageInv, TypeOK
<1>2. ASSUME NEW k \in Queries, LoseFetch(k) PROVE PageInv'
  BY <1>2, QuietStepsKeepInv, BoundsAssumption DEF LoseFetch, PageInv, TypeOK
<1>3. CASE Poll
  BY <1>3, QuietStepsKeepInv, StartingFetches DEF Poll, PageInv, TypeOK
<1>4. CASE LookAgain
  BY <1>4, QuietStepsKeepInv, StartingFetches DEF LookAgain, PageInv, TypeOK
<1>5. QED
  BY <1>1, <1>2, <1>3, <1>4

LEMMA EndingsKeepInv ==
  ASSUME PageInv, NEW m \in mutations,
         FollowRun(m) \/ LeaveAfter(m) \/ ShowError(m) \/ LoseMutation(m)
  PROVE  PageInv'
<1>1. mutations' = mutations \ {m} /\ \A n \in mutations \ mutations' : n = m
  BY DEF FollowRun, LeaveAfter, ShowError, LoseMutation
<1>2. CASE FollowRun(m)
  BY <1>1, <1>2, QuietStepsKeepInv, StartingFetches DEF FollowRun, PageInv, TypeOK, Edit
<1>3. CASE LeaveAfter(m)
  BY <1>1, <1>3, QuietStepsKeepInv, StartingFetches DEF LeaveAfter, PageInv, TypeOK, Edit
<1>4. CASE ShowError(m)
  BY <1>1, <1>4, QuietStepsKeepInv DEF ShowError, PageInv, TypeOK
<1>5. CASE LoseMutation(m)
  <2>1. trouble' # trouble
    BY <1>5 DEF LoseMutation
  <2>2. QED
    BY <1>1, <1>5, <2>1, QuietStepsKeepInv, BoundsAssumption DEF LoseMutation, PageInv, TypeOK
<1>6. QED
  BY <1>2, <1>3, <1>4, <1>5

-----------------------------------------------------------------------------
(* An answer arrives.                                                      *)

LEMMA ArriveKeepsInv ==
  ASSUME PageInv, NEW k \in Queries, Arrive(k)
  PROVE  PageInv'
<1> USE DEF PageInv
<1> DEFINE data == fetch[k].data
<1>1. /\ fetch[k].pc = "answered"
      /\ cache' = IF data # Nothing THEN [cache EXCEPT ![k] = data] ELSE cache
      /\ failed' \subseteq failed \cup {k}
      /\ DOMAIN fetch' = Queries
      /\ \A q \in Queries : fetch'[q] \in {fetch[q], Idle, Asked}
      /\ fetch'[k] = Idle
      /\ UNCHANGED <<server, mutations, open, clicks, trouble>>
      /\ Watch
  BY DEF Arrive, TypeOK, Queries
<1>2. /\ k = "video" => data \in Video
      /\ k = "facts" => data \in Sheet
      /\ k = "job" => data \in [state : Job \ {"none"}] \cup {Nothing}
  BY <1>1 DEF AnswersAreTyped, FetchOf, Idle, Asked
<1>3. DOMAIN cache' = Queries /\ \A q \in Queries : q # k => cache'[q] = cache[q]
  BY <1>1 DEF TypeOK
<1>4. /\ cache'[k] = IF data # Nothing THEN data ELSE cache[k]
      /\ k = "facts" => cache'[k] = data
  BY <1>1, <1>2, SheetValues DEF TypeOK
<1> HIDE DEF data
<1>5. TypeOK'
  <2>1. cache'["video"] \in Video \cup {Nothing}
    BY <1>2, <1>3, <1>4 DEF TypeOK, Queries
  <2>2. cache'["facts"] \in Sheet \cup {Nothing}
    BY <1>2, <1>3, <1>4 DEF TypeOK, Queries
  <2>3. cache'["job"] \in [state : Job \ {"none"}] \cup {Nothing}
    BY <1>2, <1>3, <1>4 DEF TypeOK, Queries
  <2>4. QED
    BY <1>1, <1>3, <2>1, <2>2, <2>3, UncrossedSteps DEF TypeOK, server
<1>6. AnswersAreTyped'
  BY <1>1 DEF AnswersAreTyped, FetchOf, Queries
<1>7. EditsInFlight' = EditsInFlight /\ sheet' = sheet
  BY <1>1 DEF EditsInFlight, server
<1>8. fetch'["facts"].pc = "answered" => fetch'["facts"] = fetch["facts"]
  BY <1>1 DEF Idle, Asked, Queries
<1>9. k # "facts" => cache'["facts"] = cache["facts"]
  BY <1>3 DEF Queries
<1>10. SeenSheetsExist'
  BY <1>1, <1>4, <1>7, <1>8, <1>9 DEF SeenSheetsExist, data
<1>11. OneOfAKind'
  BY <1>1 DEF OneOfAKind
<1>12. UncrossedIsCurrent'
  <2> SUFFICES ASSUME ~crossed' PROVE UncrossedIsCurrent'
    BY DEF UncrossedIsCurrent
  <2>1. ~crossed /\ ~Crossing'
    BY <1>1, UncrossedSteps
  <2>2. k = "facts" => cache'["facts"] = sheet
    BY <1>1, <1>4, <2>1 DEF UncrossedIsCurrent, data
  <2>3. (cache'["facts"] # Nothing /\ \A m \in EditsInFlight' : m.pc # "ok")
          => cache'["facts"] = sheet'
    BY <1>7, <1>9, <2>1, <2>2 DEF UncrossedIsCurrent
  <2>4. QED
    BY <1>7, <1>8, <2>1, <2>3 DEF UncrossedIsCurrent
<1> HIDE DEF PageInv
<1>13. QED
  BY <1>5, <1>6, <1>10, <1>11, <1>12 DEF PageInv

-----------------------------------------------------------------------------
(* The operator clicks.                                                    *)

(* What is sent is a new request; an edit is sent from a sheet on show.    *)
LEMMA SendingKeepsInv ==
  ASSUME PageInv,
         NEW do \in Edit \cup {"run", "approve", "reject"},
         NEW fact \in FactIds \cup {NoFact}, NEW on \in BOOLEAN,
         Send(do, fact, on),
         do \in {"tick", "all"} => ~Pending(do),
         do \in Edit => ShowsSheet
  PROVE  PageInv'
<1> USE DEF PageInv
<1> DEFINE n == [pc |-> "asked", do |-> do, fact |-> fact, on |-> on, view |-> NoSheet]
<1>1. /\ mutations' = mutations \cup {n}
      /\ UNCHANGED <<server, cache, failed, fetch, open, trouble>>
      /\ clicks' \in 0..MaxClicks
      /\ Watch
  BY BoundsAssumption DEF Send, TypeOK
<1>2. n \in Mutation
  BY SheetValues DEF Mutation
<1>3. n.pc = "asked" /\ n.do = do
  OBVIOUS
<1> HIDE DEF n
<1>4. TypeOK'
  BY <1>1, <1>2, UncrossedSteps DEF TypeOK, server
<1>5. AnswersAreTyped'
  BY <1>1 DEF AnswersAreTyped
<1>6. EditsInFlight' = EditsInFlight \cup (IF do \in Edit THEN {n} ELSE {})
  BY <1>1, <1>3 DEF EditsInFlight
<1>7. SeenSheetsExist'
  <2>1. do \in Edit => sheet # NoSheet
    BY DEF ShowsSheet, SeenSheetsExist
  <2>2. QED
    BY <1>1, <1>6, <2>1 DEF SeenSheetsExist, server
<1>8. OneOfAKind'
  BY <1>1, <1>3 DEF OneOfAKind, Pending
<1>9. UncrossedIsCurrent'
  BY <1>1, <1>3, <1>6, UncrossedSteps DEF UncrossedIsCurrent, server
<1> HIDE DEF PageInv
<1>10. QED
  BY <1>4, <1>5, <1>7, <1>8, <1>9 DEF PageInv

LEMMA ClicksKeepInv == PageInv /\ Clicks => PageInv'
<1> SUFFICES ASSUME PageInv, Clicks PROVE PageInv'
  OBVIOUS
<1>1. ASSUME NEW f \in FactIds, Tick(f) PROVE PageInv'
  <2>1. (f \notin cache["facts"].ticked) \in BOOLEAN
    OBVIOUS
  <2>2. Send("tick", f, f \notin cache["facts"].ticked) /\ ShowsSheet /\ ~Pending("tick")
    BY <1>1 DEF Tick
  <2>3. QED
    BY <2>1, <2>2, SendingKeepsInv DEF Edit
<1>2. ASSUME NEW f \in FactIds, Delete(f) PROVE PageInv'
  BY <1>2, SendingKeepsInv DEF Delete, Edit
<1>3. ASSUME NEW on \in BOOLEAN, TickAll(on) PROVE PageInv'
  BY <1>3, SendingKeepsInv DEF TickAll, Edit
<1>4. CASE RunStep
  BY <1>4, SendingKeepsInv DEF RunStep, Edit
<1>5. CASE Approve
  BY <1>5, SendingKeepsInv DEF Approve, Edit
<1>6. CASE SendBack
  BY <1>6, SendingKeepsInv DEF SendBack, Edit
<1>7. QED
  BY <1>1, <1>2, <1>3, <1>4, <1>5, <1>6 DEF Clicks

-----------------------------------------------------------------------------
(* The server handles a request, and the page reads its answer.            *)

(* An edit of a sheet that is there leaves a sheet that is there. *)
LEMMA EditsGiveSheets ==
  ASSUME PageInv, NEW m \in mutations, HandleEdit(m)
  PROVE  sheet' \in Sheet /\ sheet' # NoSheet
<1> DEFINE Whole == [exists : {TRUE}, present : SUBSET FactIds, ticked : SUBSET FactIds]
<1>1. m.do \in Edit /\ (m.do # "all" => m.fact \in sheet.present) /\ sheet' = EditedSheet(m)
  BY DEF HandleEdit
<1>2. sheet \in Whole /\ sheet.ticked \subseteq sheet.present
  BY <1>1, EditTypes, SheetValues DEF PageInv, TypeOK, Sheet
<1>3. CASE m.do = "tick"
  <2>1. sheet' = [sheet EXCEPT !.ticked = IF m.on THEN @ \cup {m.fact} ELSE @ \ {m.fact}]
    BY <1>1, <1>3 DEF EditedSheet
  <2>2. /\ sheet' \in Whole /\ sheet'.present = sheet.present
        /\ sheet'.ticked \subseteq sheet.ticked \cup {m.fact}
    BY <1>1, <1>2, <1>3, <2>1
  <2>3. QED
    BY <1>1, <1>2, <1>3, <2>2, WholeSheets
<1>4. CASE m.do = "all"
  <2>1. sheet' = [sheet EXCEPT !.ticked = IF m.on THEN sheet.present ELSE {}]
    BY <1>1, <1>4 DEF EditedSheet
  <2>2. /\ sheet' \in Whole /\ sheet'.present = sheet.present
        /\ sheet'.ticked \subseteq sheet.present
    BY <1>2, <2>1
  <2>3. QED
    BY <2>2, WholeSheets
<1>5. CASE m.do = "delete"
  <2>1. sheet' = [sheet EXCEPT !.present = @ \ {m.fact}, !.ticked = @ \ {m.fact}]
    BY <1>1, <1>5 DEF EditedSheet
  <2>2. /\ sheet' \in Whole /\ sheet'.present = sheet.present \ {m.fact}
        /\ sheet'.ticked = sheet.ticked \ {m.fact}
    BY <1>2, <2>1
  <2>3. QED
    BY <1>2, <2>2, WholeSheets
<1>6. QED
  BY <1>1, <1>3, <1>4, <1>5 DEF Edit

LEMMA HandlingEditsKeepsInv ==
  ASSUME PageInv, NEW m \in mutations, HandleEdit(m)
  PROVE  PageInv'
<1> USE DEF PageInv
<1> DEFINE a == [m EXCEPT !.pc = "ok", !.view = sheet']
<1>1. /\ m.pc = "asked" /\ m.do \in Edit /\ UNCHANGED <<video, job>>
      /\ mutations' = (mutations \ {m}) \cup {a}
      /\ UNCHANGED <<cache, failed, fetch, open, clicks, trouble>>
      /\ Watch
  BY DEF HandleEdit, Reply
<1>2. sheet' \in Sheet /\ sheet' # NoSheet /\ sheet # NoSheet
  BY <1>1, EditsGiveSheets, EditTypes
<1>3. a \in Mutation /\ a.pc = "ok" /\ a.do = m.do /\ a.view = sheet'
  BY <1>2, EditTypes DEF Mutation
<1> HIDE DEF a
<1>4. TypeOK'
  BY <1>1, <1>2, <1>3, UncrossedSteps DEF TypeOK
<1>5. AnswersAreTyped'
  BY <1>1 DEF AnswersAreTyped
<1>6. m \in EditsInFlight /\ EditsInFlight' = (EditsInFlight \ {m}) \cup {a}
  BY <1>1, <1>3 DEF EditsInFlight
<1>7. SeenSheetsExist'
  BY <1>2 DEF SeenSheetsExist
<1>8. OneOfAKind'
  BY <1>1, <1>3 DEF OneOfAKind
<1>9. UncrossedIsCurrent'
  <2> SUFFICES ASSUME ~crossed' PROVE UncrossedIsCurrent'
    BY DEF UncrossedIsCurrent
  <2>1. ~crossed /\ ~Crossing' /\ ~Crossing
    BY <1>1, UncrossedSteps DEF UncrossedIsCurrent
  <2>2. fetch["facts"] = Idle
    BY <1>6, <2>1 DEF Crossing
  <2>3. fetch'["facts"].pc # "answered"
    BY <1>1, <2>2 DEF Idle
  <2>4. EditsInFlight = {m}
    <3>1. ASSUME NEW n \in EditsInFlight, n # m PROVE FALSE
      <4>1. n.do = m.do /\ n.do # "delete"
        BY <1>6, <2>1, <3>1 DEF Crossing
      <4>2. n.do \in {"tick", "all"} /\ n \in mutations
        BY <4>1 DEF EditsInFlight, Edit
      <4>3. QED
        BY <3>1, <4>1, <4>2 DEF OneOfAKind
    <3>2. QED
      BY <1>6, <3>1
  <2>5. EditsInFlight' = {a}
    BY <1>6, <2>4
  <2>6. QED
    BY <1>3, <2>1, <2>3, <2>5 DEF UncrossedIsCurrent
<1> HIDE DEF PageInv
<1>10. QED
  BY <1>4, <1>5, <1>7, <1>8, <1>9 DEF PageInv

(* An answer without a sheet: the request was a decision, a run, or refused. *)
LEMMA OtherAnswersKeepInv ==
  ASSUME PageInv, NEW m \in mutations, NEW pc \in {"ok", "refused"},
         pc = "ok" => m.do \notin Edit, m.pc = "asked",
         video' \in Video, job' \in Job, UNCHANGED sheet,
         Reply(m, [m EXCEPT !.pc = pc])
  PROVE  PageInv'
<1> USE DEF PageInv
<1> DEFINE a == [m EXCEPT !.pc = pc]
<1>1. /\ mutations' = (mutations \ {m}) \cup {a}
      /\ UNCHANGED <<cache, failed, fetch, open, clicks, trouble>>
      /\ Watch
  BY DEF Reply
<1>2. a \in Mutation /\ a.pc = pc /\ a.do = m.do
  BY EditTypes DEF Mutation
<1> HIDE DEF a
<1>3. TypeOK'
  BY <1>1, <1>2, UncrossedSteps DEF TypeOK
<1>4. AnswersAreTyped'
  BY <1>1 DEF AnswersAreTyped
<1>5. /\ EditsInFlight' # {} => EditsInFlight # {}
      /\ \A n \in EditsInFlight' : n.pc = "ok" => n \in EditsInFlight
      /\ \A n \in EditsInFlight : n.pc = "ok" => n \in EditsInFlight'
  BY <1>1, <1>2 DEF EditsInFlight
<1>6. SeenSheetsExist'
  BY <1>1, <1>5 DEF SeenSheetsExist
<1>7. OneOfAKind'
  BY <1>1, <1>2 DEF OneOfAKind
<1>8. UncrossedIsCurrent'
  <2> SUFFICES ASSUME ~crossed' PROVE UncrossedIsCurrent'
    BY DEF UncrossedIsCurrent
  <2>1. ~crossed /\ ~Crossing'
    BY <1>1, UncrossedSteps
  <2>2. QED
    BY <1>1, <1>5, <2>1 DEF UncrossedIsCurrent
<1> HIDE DEF PageInv
<1>9. QED
  BY <1>3, <1>4, <1>6, <1>7, <1>8 DEF PageInv

LEMMA HandlingKeepsInv ==
  ASSUME PageInv, NEW m \in mutations, Handle(m)
  PROVE  PageInv'
<1>1. video \in Video /\ job \in Job
  BY DEF PageInv, TypeOK
<1>2. CASE HandleEdit(m)
  BY <1>2, HandlingEditsKeepsInv
<1>3. CASE HandleRun(m)
  <2>1. video' \in Video /\ job' \in Job
    BY <1>1, <1>3, ChangesGiveVideos DEF HandleRun, Job, Status, PipelineStatus, orderIndex
  <2>2. QED
    BY <1>3, <2>1, OtherAnswersKeepInv DEF HandleRun, Ok, Edit
<1>4. CASE HandleDecision(m)
  <2>1. video' \in Video /\ job' \in Job
    BY <1>1, <1>4, ChangesGiveVideos DEF HandleDecision, Gate, gates
  <2>2. QED
    BY <1>4, <2>1, OtherAnswersKeepInv DEF HandleDecision, Ok, Edit
<1>5. CASE Refuse(m)
  BY <1>1, <1>5, OtherAnswersKeepInv DEF Refuse, server
<1>6. QED
  BY <1>2, <1>3, <1>4, <1>5 DEF Handle

LEMMA ShowingEditsKeepsInv ==
  ASSUME PageInv, NEW m \in mutations, ShowEdit(m)
  PROVE  PageInv'
<1> USE DEF PageInv
<1>1. /\ m.pc = "ok" /\ m.do \in Edit /\ mutations' = mutations \ {m}
      /\ cache' = [cache EXCEPT !["facts"] = m.view]
      /\ failed' \subseteq failed
      /\ DOMAIN fetch' = Queries
      /\ \A k \in Queries : fetch'[k] \in {fetch[k], Asked}
      /\ UNCHANGED <<server, open, clicks, trouble>>
      /\ Watch
  BY StartingFetches DEF ShowEdit
<1>2. /\ cache'["facts"] = m.view /\ m.view \in Sheet /\ DOMAIN cache' = Queries
      /\ cache'["video"] = cache["video"] /\ cache'["job"] = cache["job"]
  BY <1>1, EditTypes DEF TypeOK, Queries, Mutation
<1>3. TypeOK'
  BY <1>1, <1>2, UncrossedSteps DEF TypeOK, server
<1>4. AnswersAreTyped'
  BY <1>1 DEF AnswersAreTyped, FetchOf, Queries
<1>5. m \in EditsInFlight /\ EditsInFlight' = EditsInFlight \ {m} /\ sheet # NoSheet
  BY <1>1, EditTypes DEF EditsInFlight
<1>6. SeenSheetsExist'
  BY <1>1, <1>5 DEF SeenSheetsExist, server
<1>7. OneOfAKind'
  BY <1>1 DEF OneOfAKind
<1>8. fetch'["facts"].pc = "answered" => fetch'["facts"] = fetch["facts"]
  BY <1>1 DEF Asked, Queries
<1>9. UncrossedIsCurrent'
  <2> SUFFICES ASSUME ~crossed' PROVE UncrossedIsCurrent'
    BY DEF UncrossedIsCurrent
  <2>1. ~crossed /\ ~Crossing'
    BY <1>1, UncrossedSteps
  <2>2. m.view = sheet /\ sheet' = sheet
    BY <1>1, <1>5, <2>1 DEF UncrossedIsCurrent, server
  <2>3. QED
    BY <1>2, <1>5, <1>8, <2>1, <2>2 DEF UncrossedIsCurrent
<1> HIDE DEF PageInv
<1>10. QED
  BY <1>3, <1>4, <1>6, <1>7, <1>9 DEF PageInv

-----------------------------------------------------------------------------
(* The step ends, and people act elsewhere.                                *)

(* The page does not hear of it; if the sheet changes, something crossed.  *)
LEMMA ActsElsewhereKeepInv ==
  ASSUME PageInv, Watch, UNCHANGED page, clicks' \in 0..MaxClicks, trouble' \in 0..MaxTrouble,
         video' \in Video, job' \in Job, sheet' \in Sheet,
         sheet # NoSheet => sheet' # NoSheet
  PROVE  PageInv'
<1> USE DEF PageInv, page
<1>1. TypeOK'
  BY UncrossedSteps DEF TypeOK
<1>2. AnswersAreTyped'
  BY DEF AnswersAreTyped
<1>3. EditsInFlight' = EditsInFlight
  BY DEF EditsInFlight
<1>4. SeenSheetsExist'
  BY <1>3 DEF SeenSheetsExist
<1>5. OneOfAKind'
  BY DEF OneOfAKind
<1>6. UncrossedIsCurrent'
  BY <1>3, UncrossedSteps DEF UncrossedIsCurrent
<1> HIDE DEF PageInv, page
<1>7. QED
  BY <1>1, <1>2, <1>4, <1>5, <1>6 DEF PageInv

LEMMA StepEndsKeepsInv == PageInv /\ StepEnds => PageInv'
<1> SUFFICES ASSUME PageInv, StepEnds PROVE PageInv'
  OBVIOUS
<1>1. video' \in Video
  BY ChangesGiveVideos DEF PageInv, TypeOK, StepEnds, Status, PipelineStatus, orderIndex
<1>2. sheet' \in Sheet /\ (sheet # NoSheet => sheet' # NoSheet)
  BY SheetValues DEF PageInv, TypeOK, StepEnds
<1>3. QED
  BY <1>1, <1>2, ActsElsewhereKeepInv DEF PageInv, TypeOK, StepEnds, Job

LEMMA ElsewhereKeepsInv == PageInv /\ Elsewhere => PageInv'
<1> SUFFICES ASSUME PageInv, Elsewhere PROVE PageInv'
  OBVIOUS
<1>1. video' \in Video
  BY ChangesGiveVideos DEF PageInv, TypeOK, Elsewhere, Gate, gates
<1>2. sheet' \in Sheet /\ (sheet # NoSheet => sheet' # NoSheet)
  <2>1. CASE sheet' = sheet
    BY <2>1 DEF PageInv, TypeOK
  <2>2. ASSUME sheet.exists, NEW f \in sheet.present \ sheet.ticked,
               sheet' = [sheet EXCEPT !.ticked = @ \cup {f}]
        PROVE  sheet' \in Sheet /\ sheet' # NoSheet
    <3>1. sheet # NoSheet
      BY <2>2 DEF NoSheet
    <3>2. /\ sheet \in [exists : {TRUE}, present : SUBSET FactIds, ticked : SUBSET FactIds]
          /\ sheet.ticked \subseteq sheet.present
      BY <3>1, SheetValues DEF PageInv, TypeOK, Sheet
    <3>3. /\ sheet' \in [exists : {TRUE}, present : SUBSET FactIds, ticked : SUBSET FactIds]
          /\ sheet'.ticked \subseteq sheet'.present
      BY <2>2, <3>2
    <3>4. QED
      BY <3>3, WholeSheets
  <2>3. QED
    BY <2>1, <2>2 DEF Elsewhere
<1>3. clicks' \in 0..MaxClicks /\ trouble' \in 0..MaxTrouble
  BY BoundsAssumption DEF PageInv, TypeOK, Elsewhere
<1>4. QED
  BY <1>1, <1>2, <1>3, ActsElsewhereKeepInv DEF PageInv, TypeOK, Elsewhere

-----------------------------------------------------------------------------
LEMMA PageInvInductive == PageInv /\ [Next]_vars => PageInv'
<1> SUFFICES ASSUME PageInv, [Next]_vars PROVE PageInv'
  OBVIOUS
<1>1. CASE Fetches
  BY <1>1, FetchesKeepInv, ArriveKeepsInv DEF Fetches
<1>2. CASE Poll \/ LookAgain
  BY <1>2, FetchesKeepInv
<1>3. CASE \E m \in mutations : Handle(m) \/ Return(m) \/ LoseMutation(m)
  BY <1>3, HandlingKeepsInv, ShowingEditsKeepsInv, EndingsKeepInv DEF Return
<1>4. CASE UNCHANGED vars
  <2>1. EditsInFlight' = EditsInFlight /\ (Crossing <=> Crossing')
    BY <1>4 DEF vars, page, EditsInFlight, Crossing
  <2>2. TypeOK' /\ AnswersAreTyped' /\ SeenSheetsExist' /\ OneOfAKind'
    BY <1>4, <2>1 DEF PageInv, vars, server, page, TypeOK, AnswersAreTyped, SeenSheetsExist, OneOfAKind
  <2>3. UncrossedIsCurrent'
    BY <1>4, <2>1 DEF PageInv, vars, server, page, UncrossedIsCurrent
  <2>4. QED
    BY <2>2, <2>3 DEF PageInv
<1>5. QED
  BY <1>1, <1>2, <1>3, <1>4, ClicksKeepInv, StepEndsKeepsInv, ElsewhereKeepsInv DEF Next

LEMMA PageInvHolds == Spec => []PageInv
BY InitPageInv, PageInvInductive, PTL DEF Spec

(* However many facts and clicks: a page that has heard of all its edits    *)
(* shows the ticks as facts.json holds them, and so the right approval      *)
(* verdict, unless something else of the sheet's crossed an edit            *)
(* (facts.ts writes the returned sheet into the cache instead of asking     *)
(* again).                                                                  *)
THEOREM TheTicksAreStored == Spec => []TicksStayInStep
<1>1. PageInv => TicksStayInStep
  <2> SUFFICES ASSUME PageInv, ~crossed, EditsInFlight = {}, cache["facts"] # Nothing
               PROVE  cache["facts"] = sheet
    BY DEF TicksStayInStep
  <2>1. QED
    BY DEF PageInv, UncrossedIsCurrent
<1>2. QED
  BY <1>1, PageInvHolds, PTL
=============================================================================
