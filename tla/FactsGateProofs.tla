--------------------------- MODULE FactsGateProofs ---------------------------
(***************************************************************************)
(* Gate A for every number of people, requests, attempts and crashes.      *)
(*                                                                         *)
(* First what the operators of FactSheet do to every sheet: the sort keeps *)
(* its facts and orders them (SharedLemmas), an id NextFactID gives is     *)
(* free, an edit reaches the one fact it names.                            *)
(*                                                                         *)
(* GateInv: no build runs under a sheet that is being reviewed, and a video *)
(* at or past Gate A has a sheet.  A build outlives its call, so what keeps *)
(* it away from the gate is where its video can be: while a build works,   *)
(* the video is researching, or failed and due to resume there, and from   *)
(* neither can a person or a new step move it.  That a sheet exists rests  *)
(* on nobody ever writing an empty one: what an edit saves carries the     *)
(* thresholds the worker wrote.                                            *)
(*                                                                         *)
(* RecordInv: the sheets people hold in their hands count as much as the   *)
(* file, since any of them may be saved over it.  Each is whole, carries   *)
(* the evidence of one build and shows no work that is on no record, and   *)
(* the record only grows, so what was true of a sheet when it was read is  *)
(* true when it is saved, whoever saved in between.                        *)
(***************************************************************************)
EXTENDS FactsGate, SharedLemmas, SequenceTheorems

-----------------------------------------------------------------------------
(* Ids.  A sheet has finitely many facts, so their ids have a bound and    *)
(* NextFactID is beyond all of them.                                       *)

Bounds(b, s) == \A i \in DOMAIN s : s[i] <= b

LEMMA ListsAreBounded ==
  \A n \in Nat : \A s \in [1..n -> Nat] : \E b \in Nat : Bounds(b, s)
<1> DEFINE bad == {n \in Nat : \E s \in [1..n -> Nat] : \A b \in Nat : ~Bounds(b, s)}
<1> SUFFICES ASSUME bad # {} PROVE FALSE
  OBVIOUS
<1>1. PICK n \in bad : \A m \in bad : n <= m
  <2>1. bad \in SUBSET Nat
    OBVIOUS
  <2> HIDE DEF bad
  <2> QED BY <2>1, LeastNumber
<1>2. PICK s \in [1..n -> Nat] : \A b \in Nat : ~Bounds(b, s)
  BY <1>1
<1>3. n \in Nat /\ n # 0
  BY <1>1, <1>2 DEF Bounds
<1> DEFINE front == [i \in 1..(n-1) |-> s[i]]
<1>4. PICK b \in Nat : Bounds(b, front)
  <2>1. n - 1 \in Nat /\ ~(n <= n - 1)
    BY <1>3
  <2>2. n - 1 \notin bad
    BY <1>1, <2>1
  <2>3. front \in [1..(n-1) -> Nat]
    BY <1>2, <1>3
  <2> HIDE DEF front
  <2> QED BY <2>1, <2>2, <2>3
<1>5. s[n] \in Nat
  BY <1>2, <1>3
<1>6. Bounds(b + s[n], s)
  <2> SUFFICES ASSUME NEW i \in 1..n PROVE s[i] <= b + s[n]
    BY <1>2 DEF Bounds
  <2>1. CASE i = n
    BY <2>1, <1>5
  <2>2. CASE i # n
    <3>1. i \in 1..(n-1)
      BY <2>2, <1>3
    <3>2. s[i] <= b /\ s[i] \in Nat
      BY <3>1, <1>2, <1>4 DEF Bounds
    <3> QED BY <3>2, <1>5
  <2> QED BY <2>1, <2>2
<1> QED BY <1>2, <1>5, <1>6

(* An id that is new to the sheet, whatever ids deletions left on it. *)
LEMMA NextIDIsBeyond ==
  ASSUME NEW s, NEW n \in Nat, DOMAIN s.facts = 1..n,
         \A i \in 1..n : s.facts[i].id \in Nat
  PROVE  NextFactID(s) \in Nat /\ \A i \in 1..n : s.facts[i].id < NextFactID(s)
<1> DEFINE ids == [i \in 1..n |-> s.facts[i].id]
           all == Ids(s) \cup {0}
           above == {b \in Nat : Bounds(b, ids)}
<1>1. \A x : x \in all <=> x = 0 \/ \E i \in 1..n : x = ids[i]
  BY DEF Ids, Facts
<1>2. PICK b \in above : \A c \in above : b <= c
  <2>1. ids \in [1..n -> Nat]
    OBVIOUS
  <2>2. \E c \in Nat : Bounds(c, ids)
    BY <2>1, ListsAreBounded
  <2>3. above # {} /\ above \in SUBSET Nat
    BY <2>2
  <2> HIDE DEF above
  <2> QED BY <2>3, LeastNumber
<1>3. \A i \in 1..n : ids[i] \in Nat /\ ids[i] <= b
  BY <1>2 DEF Bounds
<1>4. b \in all
  <2>1. CASE b = 0
    BY <2>1, <1>1
  <2>2. CASE b # 0
    <3>1. b - 1 \in Nat /\ ~(b <= b - 1)
      BY <2>2, <1>2
    <3>2. ~Bounds(b - 1, ids)
      BY <3>1, <1>2
    <3>3. PICK i \in 1..n : ~(ids[i] <= b - 1)
      BY <3>2 DEF Bounds
    <3>4. ids[i] = b
      BY <3>1, <3>3, <1>3, <1>2
    <3> QED BY <3>4, <1>1
  <2> QED BY <2>1, <2>2
<1>5. \A x \in all : x \in Nat /\ x <= b
  BY <1>1, <1>2, <1>3
<1>6. Seqs!Max(all) \in all /\ \A y \in all : Seqs!Max(all) >= y
  <2> HIDE DEF all
  <2>1. b \in all /\ \A y \in all : b >= y
    BY <1>4, <1>5, <1>2
  <2> QED BY <2>1 DEF Seqs!Max
<1>7. Seqs!Max(all) \in Nat /\ \A i \in 1..n : Seqs!Max(all) >= ids[i]
  BY <1>1, <1>5, <1>6
<1>8. NextFactID(s) = 1 + Seqs!Max(all)
  BY DEF NextFactID
<1> HIDE DEF all
<1> QED BY <1>3, <1>7, <1>8

(* Where ids are distinct, Find points at the one fact with that id. *)
LEMMA FindsTheFact ==
  ASSUME NEW s, NEW n \in Nat, DOMAIN s.facts = 1..n, Len(s.facts) = n,
         IdsAreDistinct(s), NEW i \in 1..n
  PROVE  Find(s, s.facts[i].id) = i
<1> DEFINE hits == {j \in 1..n : s.facts[j].id = s.facts[i].id}
<1>1. hits = {i}
  BY DEF IdsAreDistinct
<1>2. Find(s, s.facts[i].id) = IF hits = {} THEN 0 ELSE Seqs!Min(hits)
  BY DEF Find, Seqs!SelectInSeq
<1>3. Seqs!Min({i}) = i
  BY DEF Seqs!Min
<1> QED BY <1>1, <1>2, <1>3

LEMMA RemovalShifts ==
  ASSUME NEW S, NEW fs \in Seq(S), NEW i \in 1..Len(fs)
  PROVE  /\ Seqs!RemoveAt(fs, i) \in Seq(S)
         /\ DOMAIN Seqs!RemoveAt(fs, i) = 1..(Len(fs) - 1)
         /\ \A j \in 1..(Len(fs) - 1) :
              Seqs!RemoveAt(fs, i)[j] = IF j < i THEN fs[j] ELSE fs[j + 1]
<1>1. Seqs!RemoveAt(fs, i) = SubSeq(fs, 1, i - 1) \o SubSeq(fs, i + 1, Len(fs))
  BY DEF Seqs!RemoveAt
<1>2. Len(fs) \in Nat /\ \A j \in 1..Len(fs) : fs[j] \in S
  OBVIOUS
<1> DEFINE left == SubSeq(fs, 1, i - 1)
           right == SubSeq(fs, i + 1, Len(fs))
<1>3. /\ left \in Seq(S) /\ Len(left) = i - 1
      /\ \A j \in 1..(i - 1) : left[j] = fs[j]
  <2>1. \A j \in 1..(i - 1) : fs[j] \in S
    BY <1>2
  <2> QED BY <1>2, <2>1, SubSeqProperties
<1>4. /\ right \in Seq(S) /\ Len(right) = Len(fs) - i
      /\ \A j \in 1..(Len(fs) - i) : right[j] = fs[j + i]
  <2>1. \A j \in (i + 1)..Len(fs) : fs[j] \in S
    BY <1>2
  <2>2. /\ right \in Seq(S)
        /\ Len(right) = IF i + 1 <= Len(fs) THEN Len(fs) - (i + 1) + 1 ELSE 0
        /\ \A j \in 1..(Len(fs) - (i + 1) + 1) : right[j] = fs[i + 1 + j - 1]
    BY <1>2, <2>1, SubSeqProperties
  <2> HIDE DEF right
  <2> QED BY <1>2, <2>2
<1> HIDE DEF left, right
<1>5. /\ left \o right \in Seq(S) /\ Len(left \o right) = Len(fs) - 1
      /\ \A j \in 1..(Len(fs) - 1) :
           (left \o right)[j] = IF j < i THEN fs[j] ELSE fs[j + 1]
  <2>1. /\ left \o right \in Seq(S)
        /\ Len(left \o right) = Len(left) + Len(right)
        /\ \A j \in 1..(Len(left) + Len(right)) :
             (left \o right)[j] = IF j <= Len(left) THEN left[j] ELSE right[j - Len(left)]
    BY <1>3, <1>4, ConcatProperties
  <2>2. ASSUME NEW j \in 1..(Len(fs) - 1)
        PROVE  (left \o right)[j] = IF j < i THEN fs[j] ELSE fs[j + 1]
    <3>1. CASE j < i
      BY <1>2, <1>3, <1>4, <2>1, <3>1
    <3>2. CASE ~(j < i)
      <4>1. j - (i - 1) \in 1..(Len(fs) - i) /\ j - (i - 1) + i = j + 1
        BY <1>2, <3>2
      <4> QED BY <1>2, <1>3, <1>4, <2>1, <3>2, <4>1
    <3> QED BY <3>1, <3>2
  <2> QED BY <1>2, <1>3, <1>4, <2>1, <2>2
<1> DEFINE both == left \o right
<1>6. Seqs!RemoveAt(fs, i) = both
  BY <1>1 DEF left, right
<1> HIDE DEF both
<1>7. /\ both \in Seq(S) /\ Len(both) = Len(fs) - 1
      /\ \A j \in 1..(Len(fs) - 1) : both[j] = IF j < i THEN fs[j] ELSE fs[j + 1]
  BY <1>5 DEF both
<1> QED BY <1>6, <1>7

-----------------------------------------------------------------------------
(* Builds and the gate.                                                    *)

(* A sheet that came from the worker, through any number of edits. *)
FromWorker(s) == s = [facts |-> s.facts, minItems |-> Items, minGroups |-> Spread]

VideoIsEarly ==
  /\ video.status \in {"queued", "researching", "facts_ready", "facts_approved", "error"}
  /\ video.retryFrom \in {NoStatus, "researching"}
  /\ video = [status |-> video.status, retryFrom |-> video.retryFrom, rejectedTo |-> video.rejectedTo]

CallsAreResearch ==
  /\ call \in {"none", "dialing", "open"}
  /\ attempts \in 0..MaxAttempts
  /\ call # "none" => video.status = "researching" /\ attempts \in 1..MaxAttempts

BuildsAreKept ==
  /\ builds = [a \in 1..MaxAttempts |-> builds[a]]
  /\ \A a \in 1..MaxAttempts :
       /\ a > attempts => builds[a] = "none"
       /\ builds[a] = "working" => Position(video) = "researching"
       /\ builds[a] = "working" /\ call # "none" => a = attempts /\ call = "open"
       /\ builds[a] = "written" => HasSheet

SheetsAreKept ==
  /\ HasSheet => FromWorker(file)
  /\ \A p \in People : people[p].pc = "loaded" => FromWorker(people[p].sheet)
  /\ people = [p \in People |-> people[p]]

GateInv == VideoIsEarly /\ CallsAreResearch /\ BuildsAreKept /\ SheetsAreKept /\ ReadyHasSheet

(* Worker sheets are no empty ones. *)
LEMMA WorkerSheetsExist ==
  ASSUME NEW s, FromWorker(s)
  PROVE  s # NoSheet
BY FormatAssumption DEF FromWorker, NoSheet

LEMMA GateInvInit == Init => GateInv
<1> SUFFICES ASSUME Init PROVE GateInv
  OBVIOUS
<1>1. VideoIsEarly
  BY DEF Init, VideoIsEarly, NewVideo, NoStatus
<1>4. CallsAreResearch
  BY BoundsAssumption DEF Init, CallsAreResearch
<1>2. BuildsAreKept
  BY BoundsAssumption DEF Init, BuildsAreKept
<1>3. SheetsAreKept /\ ReadyHasSheet
  BY DEF Init, SheetsAreKept, ReadyHasSheet, HasSheet, Idle, NewVideo
<1> QED
  BY <1>1, <1>2, <1>3, <1>4 DEF GateInv

(* The research step: where the call, its build and the video move together. *)
LEMMA StepKeepsGateInv ==
  ASSUME GateInv, Step
  PROVE  GateInv'
<1> USE BoundsAssumption DEF GateInv
<1>a. SheetsAreKept'
  BY DEF Step, StartResearch, StreamOpens, StepSucceeds, StepFails, SheetsAreKept, FromWorker, HasSheet
<1>1. CASE StartResearch
  <2>1. VideoIsEarly' /\ ReadyHasSheet' /\ video'.status = "researching"
    BY <1>1 DEF StartResearch, Transition, VideoIsEarly, ReadyHasSheet, HasSheet, NoStatus
  <2>4. CallsAreResearch'
    BY <1>1, <2>1 DEF StartResearch, CallsAreResearch
  <2>2. \A a \in 1..MaxAttempts : builds[a] # "working"
    BY <1>1 DEF StartResearch, BuildsAreKept, Position
  <2>3. BuildsAreKept'
    BY <1>1, <2>2 DEF StartResearch, BuildsAreKept, CallsAreResearch, HasSheet
  <2> QED BY <1>a, <2>1, <2>3, <2>4
<1>2. CASE StreamOpens
  <2>1. VideoIsEarly' /\ CallsAreResearch' /\ ReadyHasSheet'
    BY <1>2 DEF StreamOpens, VideoIsEarly, CallsAreResearch, ReadyHasSheet, HasSheet
  <2>2. \A a \in 1..MaxAttempts : builds[a] # "working"
    BY <1>2 DEF StreamOpens, BuildsAreKept
  <2>3. attempts \in 1..MaxAttempts /\ Position(video) = "researching"
    BY <1>2 DEF StreamOpens, CallsAreResearch, Position
  <2>4. \A a \in 1..MaxAttempts : builds'[a] = IF a = attempts THEN "working" ELSE builds[a]
    BY <1>2 DEF StreamOpens, BuildsAreKept
  <2>5. Position(video)' = "researching" /\ call' = "open" /\ UNCHANGED <<file, attempts>>
    BY <1>2, <2>3 DEF StreamOpens, Position
  <2>6. builds' = [a \in 1..MaxAttempts |-> builds'[a]]
    BY <1>2 DEF StreamOpens, BuildsAreKept
  <2>7. BuildsAreKept'
    <3> SUFFICES ASSUME NEW a \in 1..MaxAttempts
        PROVE  /\ a > attempts => builds'[a] = "none"
               /\ builds'[a] = "working" => a = attempts
               /\ builds'[a] = "written" => HasSheet
      BY <2>5, <2>6 DEF BuildsAreKept, HasSheet
    <3> QED BY <2>2, <2>3, <2>4 DEF BuildsAreKept, CallsAreResearch
  <2> QED BY <1>a, <2>1, <2>7
<1>3. CASE StepSucceeds
  <2>1. attempts \in 1..MaxAttempts
    BY <1>3 DEF StepSucceeds, CallsAreResearch
  <2>2. HasSheet /\ \A a \in 1..MaxAttempts : builds[a] # "working"
    BY <1>3, <2>1 DEF StepSucceeds, BuildsAreKept
  <2>3. VideoIsEarly' /\ CallsAreResearch' /\ ReadyHasSheet'
    BY <1>3, <2>2 DEF StepSucceeds, Transition, VideoIsEarly, CallsAreResearch, ReadyHasSheet, HasSheet, NoStatus
  <2>4. BuildsAreKept'
    BY <1>3, <2>2 DEF StepSucceeds, BuildsAreKept, HasSheet
  <2> QED BY <1>a, <2>3, <2>4
<1>4. CASE StepFails
  <2>1. video.status = "researching"
    BY <1>4 DEF StepFails, CallsAreResearch
  <2>2. VideoIsEarly' /\ CallsAreResearch' /\ ReadyHasSheet' /\ Position(video)' = "researching"
    BY <1>4, <2>1 DEF StepFails, Fail, Position, VideoIsEarly, CallsAreResearch, ReadyHasSheet, HasSheet, NoStatus
  <2>3. BuildsAreKept'
    BY <1>4, <2>2 DEF StepFails, BuildsAreKept, HasSheet
  <2> QED BY <1>a, <2>2, <2>3
<1> QED BY <1>1, <1>2, <1>3, <1>4 DEF Step

(* The worker's sheets carry the format's thresholds, and edits keep them. *)
LEMMA BuiltFromWorker ==
  ASSUME NEW a, NEW s \in BuiltSheets(a)
  PROVE  FromWorker(s)
BY DEF BuiltSheets, FromWorker

LEMMA EditsKeepFromWorker ==
  ASSUME NEW s, FromWorker(s), NEW e \in Edits(s)
  PROVE  FromWorker(Sorted(e.sheet))
<1>1. \A id, on : FromWorker(SetApproval(s, id, on))
  BY DEF FromWorker, SetApproval
<1>2. \A on : FromWorker(ApproveAll(s, on))
  BY DEF FromWorker, ApproveAll
<1>3. \A id, key, claim : FromWorker(UpdateFact(s, id, key, claim))
  BY DEF FromWorker, UpdateFact
<1>4. \A id : FromWorker(DeleteFact(s, id))
  BY DEF FromWorker, DeleteFact
<1>5. \A key, claim, group, source : FromWorker(AddFact(s, key, claim, group, source))
  BY DEF FromWorker, AddFact
<1>6. FromWorker(e.sheet)
  BY <1>1, <1>2, <1>3, <1>4, <1>5 DEF Edits
<1>7. \A x : FromWorker(x) => FromWorker(Sorted(x))
  BY DEF FromWorker, Sorted
<1> QED BY <1>6, <1>7

LEMMA WorkerKeepsGateInv ==
  ASSUME GateInv, Worker \/ WorkerDies
  PROVE  GateInv'
<1> USE BoundsAssumption DEF GateInv
<1>1. ASSUME NEW a \in 1..MaxAttempts, BuildWrites(a)
      PROVE  GateInv'
  <2>1. FromWorker(file') /\ HasSheet'
    BY <1>1, BuiltFromWorker, WorkerSheetsExist DEF BuildWrites, HasSheet
  <2>2. VideoIsEarly' /\ CallsAreResearch' /\ SheetsAreKept' /\ ReadyHasSheet'
    BY <1>1, <2>1 DEF BuildWrites, VideoIsEarly, CallsAreResearch, SheetsAreKept, ReadyHasSheet
  <2>3. BuildsAreKept'
    BY <1>1, <2>1 DEF BuildWrites, BuildsAreKept, CallsAreResearch, Position
  <2> QED BY <2>2, <2>3
<1>2. ASSUME NEW a \in 1..MaxAttempts, BuildRaises(a)
      PROVE  GateInv'
  <2>1. VideoIsEarly' /\ CallsAreResearch' /\ SheetsAreKept' /\ ReadyHasSheet'
    BY <1>2 DEF BuildRaises, VideoIsEarly, CallsAreResearch, SheetsAreKept, ReadyHasSheet, HasSheet
  <2>2. BuildsAreKept'
    BY <1>2 DEF BuildRaises, BuildsAreKept, CallsAreResearch, Position, HasSheet
  <2> QED BY <2>1, <2>2
<1>3. ASSUME WorkerDies
      PROVE  GateInv'
  <2>1. VideoIsEarly' /\ CallsAreResearch' /\ SheetsAreKept' /\ ReadyHasSheet'
    BY <1>3 DEF WorkerDies, VideoIsEarly, CallsAreResearch, SheetsAreKept, ReadyHasSheet, HasSheet
  <2>2. BuildsAreKept'
    BY <1>3 DEF WorkerDies, BuildsAreKept, Position, HasSheet
  <2> QED BY <2>1, <2>2
<1> QED BY <1>1, <1>2, <1>3 DEF Worker

LEMMA CrashKeepsGateInv ==
  ASSUME GateInv, ServerDies
  PROVE  GateInv'
<1> USE BoundsAssumption DEF GateInv
<1>1. VideoIsEarly' /\ Position(video)' = Position(video) /\ ReadyHasSheet'
  BY DEF ServerDies, VideoIsEarly, Position, ReadyHasSheet, HasSheet, Fail, NoStatus
<1>2. CallsAreResearch'
  BY DEF ServerDies, CallsAreResearch
<1>3. BuildsAreKept'
  BY <1>1 DEF ServerDies, BuildsAreKept, HasSheet
<1>4. SheetsAreKept'
  BY DEF ServerDies, SheetsAreKept, FromWorker, HasSheet, Idle
<1> QED BY <1>1, <1>2, <1>3, <1>4

(* A person's step moves the video only by a decision, and a decision is    *)
(* open to people only where no build is working.                          *)
LEMMA PersonKeepsGateInv ==
  ASSUME GateInv, NEW p \in People, Person(p)
  PROVE  GateInv'
<1> USE BoundsAssumption DEF GateInv
<1>1. CASE SaveEdit(p)
  <2>1. PICK e \in Edits(people[p].sheet) :
          /\ file' = Sorted(e.sheet)
          /\ people' = [people EXCEPT ![p] = [pc |-> "saved", note |-> e.note]]
    BY <1>1 DEF SaveEdit
  <2>2. FromWorker(file') /\ HasSheet'
    BY <1>1, <2>1, EditsKeepFromWorker, WorkerSheetsExist DEF SaveEdit, SheetsAreKept, HasSheet
  <2>3. VideoIsEarly' /\ CallsAreResearch' /\ ReadyHasSheet' /\ BuildsAreKept'
    BY <1>1, <2>2 DEF SaveEdit, research, VideoIsEarly, CallsAreResearch, ReadyHasSheet, BuildsAreKept, Position
  <2>4. SheetsAreKept'
    BY <2>1, <2>2 DEF SheetsAreKept
  <2> QED BY <2>3, <2>4
<1>2. CASE LoadSheet(p) \/ ReadStatus(p) \/ AppendEdit(p) \/ EndInError(p) \/ CheckPrecondition(p)
  <2>1. UNCHANGED <<video, file, research>>
    BY <1>2 DEF LoadSheet, ReadStatus, AppendEdit, EndInError, CheckPrecondition
  <2>2. VideoIsEarly' /\ CallsAreResearch' /\ ReadyHasSheet' /\ BuildsAreKept'
    BY <2>1 DEF research, VideoIsEarly, CallsAreResearch, ReadyHasSheet, BuildsAreKept, Position, HasSheet
  <2>3. ASSUME LoadSheet(p)
      PROVE  SheetsAreKept'
    BY <2>1, <2>3 DEF LoadSheet, Request, SheetsAreKept, FromWorker, HasSheet
  <2>4. ASSUME ReadStatus(p)
      PROVE  SheetsAreKept'
    BY <2>1, <2>4 DEF ReadStatus, SheetsAreKept, FromWorker, HasSheet
  <2>5. ASSUME AppendEdit(p) \/ EndInError(p)
      PROVE  SheetsAreKept'
    <3>1. people' = [people EXCEPT ![p] = Idle]
      BY <2>5 DEF AppendEdit, EndInError
    <3> QED BY <2>1, <3>1 DEF Idle, SheetsAreKept, FromWorker, HasSheet
  <2>6. ASSUME CheckPrecondition(p)
      PROVE  SheetsAreKept'
    BY <2>1, <2>6 DEF CheckPrecondition, Request, SheetsAreKept, FromWorker, HasSheet
  <2>7. SheetsAreKept'
    BY <1>2, <2>3, <2>4, <2>5, <2>6
  <2> QED BY <2>2, <2>7
<1>3. CASE ApproveGateA(p)
  <2>1. video.status = "facts_ready"
    BY <1>3 DEF ApproveGateA, CanApproveGate, AwaitsGate, gates
  <2>2. VideoIsEarly' /\ ReadyHasSheet'
    BY <1>3, <2>1 DEF ApproveGateA, Decide, ApproveGate, gates, VideoIsEarly, ReadyHasSheet, HasSheet, NoStatus
  <2>3. CallsAreResearch' /\ BuildsAreKept'
    BY <1>3, <2>1 DEF ApproveGateA, Decide, research, CallsAreResearch, BuildsAreKept, Position, HasSheet
  <2>4. SheetsAreKept'
    BY <1>3 DEF ApproveGateA, Decide, SheetsAreKept, FromWorker, HasSheet, Idle
  <2> QED BY <2>2, <2>3, <2>4
<1>4. ASSUME NEW backTo \in PipelineStatus, RejectGateA(p, backTo)
      PROVE  GateInv'
  <2>1. video.status = "facts_ready" /\ backTo \in {"queued", "researching"}
    BY <1>4 DEF RejectGateA, CanRejectGate, AwaitsGate, gates, IsEarlier, orderIndex
  <2>2. VideoIsEarly' /\ ReadyHasSheet'
    BY <1>4, <2>1 DEF RejectGateA, Decide, RejectGate, VideoIsEarly, ReadyHasSheet, HasSheet, NoStatus
  <2>3. CallsAreResearch' /\ BuildsAreKept'
    BY <1>4, <2>1 DEF RejectGateA, Decide, research, CallsAreResearch, BuildsAreKept, Position, HasSheet
  <2>4. SheetsAreKept'
    BY <1>4 DEF RejectGateA, Decide, Request, SheetsAreKept, FromWorker, HasSheet, Idle
  <2> QED BY <2>2, <2>3, <2>4
<1>5. CASE RetryVideo(p)
  <2>1. video.status = "error" /\ call = "none"
    BY <1>5 DEF RetryVideo, CanRetry, CallsAreResearch
  <2>2. VideoIsEarly' /\ ReadyHasSheet' /\ (Position(video) = "researching" => Position(video)' = "researching")
    BY <1>5, <2>1 DEF RetryVideo, Decide, Retry, KnownStatus, orderIndex, Position, VideoIsEarly, ReadyHasSheet, HasSheet, NoStatus
  <2>3. CallsAreResearch' /\ BuildsAreKept'
    BY <1>5, <2>1, <2>2 DEF RetryVideo, Decide, research, CallsAreResearch, BuildsAreKept, HasSheet
  <2>4. SheetsAreKept'
    BY <1>5 DEF RetryVideo, Decide, Request, SheetsAreKept, FromWorker, HasSheet, Idle
  <2> QED BY <2>2, <2>3, <2>4
<1> QED BY <1>1, <1>2, <1>3, <1>4, <1>5 DEF Person

LEMMA GateInvInductive == GateInv /\ [Next]_vars => GateInv'
<1> SUFFICES ASSUME GateInv, [Next]_vars PROVE GateInv'
  OBVIOUS
<1>1. CASE UNCHANGED vars
  BY <1>1 DEF vars, GateInv, VideoIsEarly, CallsAreResearch, BuildsAreKept, SheetsAreKept,
     ReadyHasSheet, HasSheet, FromWorker, Position
<1>2. CASE Next
  BY <1>2, StepKeepsGateInv, WorkerKeepsGateInv, CrashKeepsGateInv, PersonKeepsGateInv DEF Next
<1> QED BY <1>1, <1>2

(* However calls and builds end, in whatever order, and whoever crashes: a  *)
(* build that still works never works under a sheet at Gate A or past it.  *)
THEOREM NoBuildIsUnderReview == Spec => []NoBuildUnderReview
<1>1. GateInv => NoBuildUnderReview
  BY DEF GateInv, BuildsAreKept, NoBuildUnderReview
<1> QED BY <1>1, GateInvInit, GateInvInductive, PTL DEF Spec

(* A video at Gate A or past it has a sheet for people to review. *)
THEOREM ReadyVideosHaveSheets == Spec => []ReadyHasSheet
<1>1. GateInv => ReadyHasSheet
  BY DEF GateInv
<1> QED BY <1>1, GateInvInit, GateInvInductive, PTL DEF Spec

-----------------------------------------------------------------------------
(* What people are on record for only grows, by one note at a time.        *)

DeedOf(d) ==
  \/ \E i \in DOMAIN log : log[i].note = d
  \/ \E p \in People : people[p].pc \in {"saved", "noted"} /\ people[p].note = d
  \/ d \in holes

(* Deeds, told by their members. *)
LEMMA UnloggedIs == \A r, d : d \in Unlogged(r) <=> r.pc \in {"saved", "noted"} /\ d = r.note
BY DEF Unlogged

LEMMA DeedsAre == \A d : d \in Deeds <=> DeedOf(d)
<1> TAKE d
<1>1. d \in Deeds <=> \/ \E i \in DOMAIN log : log[i].note = d
                      \/ \E p \in People : d \in Unlogged(people[p])
                      \/ d \in holes
  BY Zenon DEF Deeds
<1> QED BY <1>1, UnloggedIs DEF DeedOf

LEMMA DeedsWillBe == \A d : d \in Deeds' <=> DeedOf(d)'
<1> TAKE d
<1>1. d \in Deeds' <=> \/ \E i \in DOMAIN log' : log'[i].note = d
                       \/ \E p \in People : d \in Unlogged(people[p])'
                       \/ d \in holes'
  BY Zenon DEF Deeds
<1> QED BY <1>1, UnloggedIs DEF DeedOf, Unlogged

(* A request that takes a hand in nothing: it was not about to be logged.  *)
LEMMA RequestsAddNoDeeds ==
  ASSUME people \in [People -> PersonState], NEW p \in People, NEW r,
         Request(p, r), r.pc \notin {"saved", "noted"}, UNCHANGED <<log, holes>>
  PROVE  Deeds' = Deeds
<1>1. \A d : DeedOf(d)' <=> DeedOf(d)
  BY DEF Request, DeedOf
<1> QED BY <1>1, DeedsAre, DeedsWillBe

LEMMA SavedEditsAreDeeds ==
  ASSUME TypeOK, NEW p \in People, people[p].pc = "loaded", NEW note, UNCHANGED <<log, holes>>,
         people' = [people EXCEPT ![p] = [pc |-> "saved", note |-> note]]
  PROVE  Deeds' = Deeds \cup {note}
<1>1. \A q \in People : people'[q] = IF q = p THEN [pc |-> "saved", note |-> note] ELSE people[q]
  BY DEF TypeOK
<1>2. \A d : DeedOf(d)' <=> DeedOf(d) \/ d = note
  BY <1>1 DEF DeedOf
<1> QED BY <1>2, DeedsAre, DeedsWillBe

(* A note that is read, logged or lost stays on record. *)
LEMMA NotesMoveOn ==
  ASSUME TypeOK, NEW p \in People,
         ReadStatus(p) \/ AppendEdit(p) \/ EndInError(p)
  PROVE  Deeds' = Deeds
<1>1. CASE ReadStatus(p)
  <2>1. PICK st : people' = [people EXCEPT ![p] =
                    [pc |-> "noted", note |-> people[p].note, status |-> st]]
    BY <1>1 DEF ReadStatus
  <2>2. \A q \in People : people'[q] = IF q = p
           THEN [pc |-> "noted", note |-> people[p].note, status |-> st] ELSE people[q]
    BY <2>1 DEF TypeOK
  <2>3. \A d : DeedOf(d)' <=> DeedOf(d)
    BY <1>1, <2>2 DEF ReadStatus, DeedOf
  <2> QED BY <2>3, DeedsAre, DeedsWillBe
<1>2. CASE AppendEdit(p)
  <2>1. \A q \in People : people'[q] = IF q = p THEN Idle ELSE people[q]
    BY <1>2 DEF TypeOK, AppendEdit
  <2> DEFINE e == LogEntry("edit", people[p].note, people[p].status, people[p].status)
  <2>2. log' = Append(log, e) /\ e.note = people[p].note /\ holes' = holes
    BY <1>2 DEF AppendEdit, LogEntry
  <2>3. \A d : (\E i \in DOMAIN log' : log'[i].note = d)
                 <=> (\E i \in DOMAIN log : log[i].note = d) \/ d = people[p].note
    <3> HIDE DEF e
    <3>1. /\ Len(log) \in Nat /\ DOMAIN log = 1..Len(log)
          /\ DOMAIN log' = 1..(Len(log) + 1)
          /\ log'[Len(log) + 1] = e /\ \A i \in 1..Len(log) : log'[i] = log[i]
      BY <2>2 DEF TypeOK
    <3> QED BY <3>1, <2>2
  <2>4. \A d : DeedOf(d)' <=> DeedOf(d)
    BY <1>2, <2>1, <2>2, <2>3 DEF AppendEdit, DeedOf, Idle
  <2> QED BY <2>4, DeedsAre, DeedsWillBe
<1>3. CASE EndInError(p)
  <2>1. \A q \in People : people'[q] = IF q = p THEN Idle ELSE people[q]
    BY <1>3 DEF TypeOK, EndInError
  <2>2. \A d : d \in holes' <=> d \in holes \/ (people[p].pc \in {"saved", "noted"} /\ d = people[p].note)
    BY <1>3 DEF EndInError, Unlogged
  <2>3. \A d : DeedOf(d)' <=> DeedOf(d)
    BY <1>3, <2>1, <2>2 DEF EndInError, DeedOf, Idle
  <2> QED BY <2>3, DeedsAre, DeedsWillBe
<1> QED BY <1>1, <1>2, <1>3

(* The notes of the requests that die with the server become holes. *)
LEMMA DeathForgetsNoDeed ==
  ASSUME TypeOK, ServerDies
  PROVE  Deeds' = Deeds
<1>1. PICK dead \in SUBSET People :
        /\ people' = [p \in People |-> IF p \in dead THEN Idle ELSE people[p]]
        /\ holes' = holes \cup UNION {Unlogged(people[p]) : p \in dead}
  BY DEF ServerDies
<1>2. \A d : d \in holes' <=>
        d \in holes \/ \E p \in dead : people[p].pc \in {"saved", "noted"} /\ d = people[p].note
  BY <1>1 DEF Unlogged
<1>3. \A d : DeedOf(d)' <=> DeedOf(d)
  BY <1>1, <1>2 DEF ServerDies, DeedOf, Idle
<1> QED BY <1>3, DeedsAre, DeedsWillBe

(* A decision is on record with no note of its own. *)
LEMMA DecisionsAddNoWork ==
  ASSUME TypeOK, NEW p \in People,
         \/ ApproveGateA(p) \/ RetryVideo(p)
         \/ \E backTo \in PipelineStatus : RejectGateA(p, backTo)
  PROVE  Deeds' = Deeds \cup {NoNote}
<1>1. PICK row, action : Decide(row, action)
  BY DEF ApproveGateA, RetryVideo, RejectGateA
<1>2. people' = [people EXCEPT ![p] = Idle] /\ people[p].pc \in {"idle", "checked"}
  BY DEF ApproveGateA, RetryVideo, RejectGateA, Request
<1>3. \A q \in People : people'[q] = IF q = p THEN Idle ELSE people[q]
  BY <1>2 DEF TypeOK
<1> DEFINE e == LogEntry(action, NoNote, video.status, row.status)
<1>4. log' = Append(log, e) /\ e.note = NoNote /\ holes' = holes
  BY <1>1 DEF Decide, LogEntry
<1>5. \A d : (\E i \in DOMAIN log' : log'[i].note = d)
               <=> (\E i \in DOMAIN log : log[i].note = d) \/ d = NoNote
  <2> HIDE DEF e
  <2>1. /\ Len(log) \in Nat /\ DOMAIN log = 1..Len(log)
        /\ DOMAIN log' = 1..(Len(log) + 1)
        /\ log'[Len(log) + 1] = e /\ \A i \in 1..Len(log) : log'[i] = log[i]
    BY <1>4 DEF TypeOK
  <2> QED BY <2>1, <1>4
<1>6. \A d : DeedOf(d)' <=> DeedOf(d) \/ d = NoNote
  BY <1>2, <1>3, <1>4, <1>5 DEF DeedOf, Idle
<1> QED BY <1>6, DeedsAre, DeedsWillBe

-----------------------------------------------------------------------------
(* Sheets that stand: whole, on the evidence of one attempt, and showing no *)
(* human work that `deeds` does not tell of.                                *)

FactStands(f, a) == IF f.human THEN f.source = <<"book">> ELSE f.source = Evidence(a, f.id)

FactOnRecord(f, deeds) ==
  /\ f.human => [verb |-> "added", fact |-> f.id] \in deeds
  /\ f.approved /\ ~f.human =>
       \E i \in {f.id, 0} : [verb |-> "approved", fact |-> i] \in deeds

FactsHold(fs, a, deeds) ==
  /\ fs \in Seq(Fact)
  /\ \A i, j \in DOMAIN fs : fs[i].id = fs[j].id => i = j
  /\ \A i \in DOMAIN fs : FactStands(fs[i], a) /\ FactOnRecord(fs[i], deeds)

SheetStands(s, deeds) ==
  /\ s \in Sheet
  /\ \E a \in 1..MaxAttempts : FactsHold(s.facts, a, deeds)

(* A sheet is its facts and its thresholds. *)
LEMMA NewFactsMakeASheet ==
  ASSUME NEW s \in Sheet, NEW a \in 1..MaxAttempts, NEW deeds, NEW fs, FactsHold(fs, a, deeds)
  PROVE  SheetStands([s EXCEPT !.facts = fs], deeds)
BY DEF Sheet, SheetStands, FactsHold

(* What one fact is replaced by has its id and its evidence. *)
LEMMA ReplacingOneFact ==
  ASSUME NEW a, NEW deeds, NEW more, NEW fs, FactsHold(fs, a, deeds),
         NEW i \in DOMAIN fs, NEW f \in Fact,
         f.id = fs[i].id, FactStands(f, a), FactOnRecord(f, more), deeds \subseteq more
  PROVE  FactsHold([fs EXCEPT ![i] = f], a, more)
<1> DEFINE gs == [fs EXCEPT ![i] = f]
<1>1. gs \in Seq(Fact) /\ DOMAIN gs = DOMAIN fs
  BY DEF FactsHold
<1>2. \A j \in DOMAIN fs : gs[j] = IF j = i THEN f ELSE fs[j]
  BY DEF FactsHold
<1> HIDE DEF gs
<1>3. \A j \in DOMAIN fs : gs[j].id = fs[j].id
  BY <1>2
<1>4. \A j \in DOMAIN fs : FactStands(gs[j], a) /\ FactOnRecord(gs[j], more)
  BY <1>2 DEF FactsHold, FactOnRecord
<1>5. FactsHold(gs, a, more)
  BY <1>1, <1>3, <1>4 DEF FactsHold
<1> QED BY <1>5 DEF gs

LEMMA FoundFacts ==
  ASSUME NEW s \in Sheet, NEW a, NEW deeds, FactsHold(s.facts, a, deeds), NEW id \in Ids(s)
  PROVE  /\ Find(s, id) \in DOMAIN s.facts
         /\ s.facts[Find(s, id)].id = id /\ s.facts[Find(s, id)] \in Fact
<1>1. PICK i \in DOMAIN s.facts : s.facts[i].id = id
  BY DEF Ids, Facts
<1>2. s.facts \in Seq(Fact)
  BY DEF FactsHold
<1>3. Len(s.facts) \in Nat /\ DOMAIN s.facts = 1..Len(s.facts)
  BY <1>2
<1>4. Find(s, id) = i
  BY <1>1, <1>3, FindsTheFact DEF FactsHold, IdsAreDistinct
<1> QED BY <1>1, <1>2, <1>4

(* The edits, one by one. *)
LEMMA TickingStands ==
  ASSUME NEW s \in Sheet, NEW a \in 1..MaxAttempts, NEW deeds, FactsHold(s.facts, a, deeds),
         NEW id \in Ids(s), NEW on \in BOOLEAN
  PROVE  SheetStands(SetApproval(s, id, on), deeds \cup {[verb |-> Ticked(on), fact |-> id]})
<1> DEFINE i == Find(s, id)
           f == [s.facts[i] EXCEPT !.approved = on]
           more == deeds \cup {[verb |-> Ticked(on), fact |-> id]}
<1>1. i \in DOMAIN s.facts /\ s.facts[i].id = id /\ s.facts[i] \in Fact
  BY FoundFacts
<1>2. FactStands(s.facts[i], a) /\ FactOnRecord(s.facts[i], deeds)
  BY <1>1 DEF FactsHold
<1> HIDE DEF i
<1>3. f \in Fact /\ f.id = s.facts[i].id /\ FactStands(f, a)
  BY <1>1, <1>2 DEF Fact, FactStands
<1>4. FactOnRecord(f, more)
  BY <1>1, <1>2 DEF Fact, FactOnRecord, Ticked
<1>5. SetApproval(s, id, on) = [s EXCEPT !.facts = [s.facts EXCEPT ![i] = f]]
  BY DEF SetApproval, i, Sheet
<1> HIDE DEF f
<1>6. FactsHold([s.facts EXCEPT ![i] = f], a, more)
  BY <1>1, <1>3, <1>4, ReplacingOneFact
<1> QED BY <1>5, <1>6, NewFactsMakeASheet

LEMMA TickingAllStands ==
  ASSUME NEW s \in Sheet, NEW a \in 1..MaxAttempts, NEW deeds, FactsHold(s.facts, a, deeds),
         NEW on \in BOOLEAN
  PROVE  SheetStands(ApproveAll(s, on), deeds \cup {[verb |-> Ticked(on), fact |-> 0]})
<1> DEFINE fs == [i \in DOMAIN s.facts |-> [s.facts[i] EXCEPT !.approved = on]]
           more == deeds \cup {[verb |-> Ticked(on), fact |-> 0]}
<1>1. s.facts \in Seq(Fact)
  BY DEF FactsHold
<1>2. \A i \in DOMAIN s.facts : s.facts[i] \in Fact
  BY <1>1
<1>3. ASSUME NEW i \in DOMAIN s.facts
      PROVE  /\ fs[i] \in Fact /\ fs[i].id = s.facts[i].id
             /\ FactStands(fs[i], a) /\ FactOnRecord(fs[i], more)
  <2> DEFINE g == [s.facts[i] EXCEPT !.approved = on]
  <2>1. s.facts[i] \in Fact /\ FactStands(s.facts[i], a) /\ FactOnRecord(s.facts[i], deeds)
    BY <1>2 DEF FactsHold
  <2>2. g \in Fact /\ g.id = s.facts[i].id /\ FactStands(g, a)
    BY <2>1 DEF Fact, FactStands
  <2>3. FactOnRecord(g, more)
    BY <2>1 DEF Fact, FactOnRecord, Ticked
  <2>4. fs[i] = g
    OBVIOUS
  <2> HIDE DEF g
  <2> QED BY <2>2, <2>3, <2>4
<1>4. fs \in Seq(Fact) /\ DOMAIN fs = DOMAIN s.facts
  <2>1. DOMAIN s.facts = 1..Len(s.facts) /\ Len(s.facts) \in Nat
    BY <1>1
  <2>2. DOMAIN fs = 1..Len(s.facts) /\ \A i \in 1..Len(s.facts) : fs[i] \in Fact
    BY <1>3, <2>1
  <2>3. fs = [i \in 1..Len(s.facts) |-> fs[i]]
    BY <2>1
  <2> HIDE DEF fs
  <2>4. fs \in [1..Len(s.facts) -> Fact]
    BY <2>2, <2>3
  <2> QED BY <2>1, <2>2, <2>4
<1>5. ApproveAll(s, on) = [s EXCEPT !.facts = fs]
  BY DEF ApproveAll
<1> HIDE DEF fs
<1>6. FactsHold(fs, a, more)
  BY <1>3, <1>4 DEF FactsHold
<1> QED BY <1>5, <1>6, NewFactsMakeASheet

LEMMA RewordingStands ==
  ASSUME NEW s \in Sheet, NEW a \in 1..MaxAttempts, NEW deeds, FactsHold(s.facts, a, deeds),
         NEW id \in Ids(s), NEW key \in Keys
  PROVE  SheetStands(UpdateFact(s, id, key, "reworded"),
                     deeds \cup {[verb |-> "edited", fact |-> id]})
<1> DEFINE i == Find(s, id)
           f == [s.facts[i] EXCEPT !.key = key, !.claim = "reworded"]
           more == deeds \cup {[verb |-> "edited", fact |-> id]}
<1>1. i \in DOMAIN s.facts /\ s.facts[i].id = id /\ s.facts[i] \in Fact
  BY FoundFacts
<1>2. FactStands(s.facts[i], a) /\ FactOnRecord(s.facts[i], deeds)
  BY <1>1 DEF FactsHold
<1> HIDE DEF i
<1> DEFINE g == [s.facts[i] EXCEPT !.key = key]
<1>3. g \in Fact /\ g.id = s.facts[i].id /\ FactStands(g, a) /\ FactOnRecord(g, deeds)
  BY <1>1, <1>2 DEF Fact, FactStands, FactOnRecord
<1>4. f \in Fact /\ f.id = s.facts[i].id /\ FactStands(f, a) /\ FactOnRecord(f, more)
  <2>1. f = [g EXCEPT !.claim = "reworded"]
    OBVIOUS
  <2> HIDE DEF f, g
  <2> QED BY <1>3, <2>1 DEF Fact, FactStands, FactOnRecord
<1>5. UpdateFact(s, id, key, "reworded") = [s EXCEPT !.facts = [s.facts EXCEPT ![i] = f]]
  BY DEF UpdateFact, i, Sheet
<1> HIDE DEF f
<1>6. FactsHold([s.facts EXCEPT ![i] = f], a, more)
  BY <1>1, <1>4, ReplacingOneFact
<1> QED BY <1>5, <1>6, NewFactsMakeASheet

LEMMA DeletingStands ==
  ASSUME NEW s \in Sheet, NEW a \in 1..MaxAttempts, NEW deeds, FactsHold(s.facts, a, deeds),
         NEW id \in Ids(s)
  PROVE  SheetStands(DeleteFact(s, id), deeds \cup {[verb |-> "deleted", fact |-> id]})
<1> DEFINE i == Find(s, id)
           n == Len(s.facts)
           fs == Seqs!RemoveAt(s.facts, i)
           more == deeds \cup {[verb |-> "deleted", fact |-> id]}
<1>1. s.facts \in Seq(Fact)
  BY DEF FactsHold
<1>2. n \in Nat /\ DOMAIN s.facts = 1..n
  BY <1>1
<1>3. i \in 1..n
  BY <1>2, FoundFacts
<1>4. DeleteFact(s, id) = [s EXCEPT !.facts = fs]
  BY DEF DeleteFact
<1>5. /\ fs \in Seq(Fact) /\ DOMAIN fs = 1..(n - 1)
      /\ \A j \in 1..(n - 1) : fs[j] = IF j < i THEN s.facts[j] ELSE s.facts[j + 1]
  BY <1>1, <1>3, RemovalShifts
<1> HIDE DEF fs, i, n
<1>6. \A j \in 1..(n - 1) : fs[j] = s.facts[j] \/ fs[j] = s.facts[j + 1]
  BY <1>5
<1>7. \A j, k \in 1..(n - 1) : fs[j].id = fs[k].id => j = k
  <2> SUFFICES ASSUME NEW j \in 1..(n - 1), NEW k \in 1..(n - 1), fs[j].id = fs[k].id
               PROVE  j = k
    OBVIOUS
  <2> DEFINE old(m) == IF m < i THEN m ELSE m + 1
  <2>1. \A m \in 1..(n - 1) : old(m) \in 1..n /\ fs[m] = s.facts[old(m)]
    BY <1>2, <1>3, <1>5
  <2>2. old(j) = old(k)
    <3> HIDE DEF old
    <3> QED BY <1>2, <2>1 DEF FactsHold
  <2> QED BY <1>2, <1>3, <2>2
<1>8. \A j \in 1..(n - 1) : FactStands(fs[j], a) /\ FactOnRecord(fs[j], more)
  <2> TAKE j \in 1..(n - 1)
  <2>1. j \in 1..n /\ j + 1 \in 1..n
    BY <1>2
  <2>2. \A m \in 1..n : FactStands(s.facts[m], a) /\ FactOnRecord(s.facts[m], more)
    BY <1>2 DEF FactsHold, FactOnRecord
  <2> QED BY <2>1, <2>2, <1>6
<1>9. FactsHold(fs, a, more)
  BY <1>5, <1>7, <1>8 DEF FactsHold
<1> QED BY <1>4, <1>9, NewFactsMakeASheet

LEMMA AddingStands ==
  ASSUME NEW s \in Sheet, NEW a \in 1..MaxAttempts, NEW deeds, FactsHold(s.facts, a, deeds),
         NEW key \in Keys
  PROVE  /\ NextFactID(s) \in Nat
         /\ SheetStands(AddFact(s, key, "typed", NoGroup, <<"book">>),
                        deeds \cup {[verb |-> "added", fact |-> NextFactID(s)]})
<1> DEFINE n == Len(s.facts)
           id == NextFactID(s)
           f == [ id |-> id, key |-> key, claim |-> "typed", source |-> <<"book">>,
                  group |-> OwnGroup, approved |-> TRUE, human |-> TRUE ]
           fs == Append(s.facts, f)
           more == deeds \cup {[verb |-> "added", fact |-> id]}
<1>1. s.facts \in Seq(Fact)
  BY DEF FactsHold
<1>2. n \in Nat /\ DOMAIN s.facts = 1..n
  BY <1>1
<1>3. \A i \in 1..n : s.facts[i].id \in Nat
  <2>1. \A i \in 1..n : s.facts[i] \in Fact
    BY <1>1, <1>2
  <2> QED BY <2>1 DEF Fact
<1>4. id \in Nat /\ \A i \in 1..n : s.facts[i].id < id
  BY <1>2, <1>3, NextIDIsBeyond
<1>5. AddFact(s, key, "typed", NoGroup, <<"book">>) = [s EXCEPT !.facts = fs]
  BY DEF AddFact
<1>2n. n \in Nat
  BY <1>2
<1> HIDE DEF id, n
<1>6. f \in Fact /\ FactStands(f, a) /\ FactOnRecord(f, more) /\ f.id = id
  BY <1>4 DEF Fact, FactStands, FactOnRecord
<1> HIDE DEF f
<1>7. /\ fs \in Seq(Fact) /\ DOMAIN fs = 1..(n + 1)
      /\ fs[n + 1] = f /\ \A i \in 1..n : fs[i] = s.facts[i]
  BY <1>1, <1>2, <1>6 DEF n
<1> HIDE DEF fs
<1>8. \A i, j \in 1..(n + 1) : fs[i].id = fs[j].id => i = j
  <2>1. \A i \in 1..n : fs[i].id \in Nat /\ fs[i].id < id
    BY <1>3, <1>4, <1>7
  <2>2. \A i, j \in 1..n : fs[i].id = fs[j].id => i = j
    BY <1>2, <1>7 DEF FactsHold
  <2>3. fs[n + 1].id = id
    BY <1>6, <1>7
  <2>4. \A i \in 1..(n + 1) : i \in 1..n \/ i = n + 1
    BY <1>2n
  <2>5. \A i \in 1..n : fs[i].id # id
    BY <1>4, <2>1
  <2> QED BY <2>2, <2>3, <2>4, <2>5
<1>9. \A i \in 1..(n + 1) : FactStands(fs[i], a) /\ FactOnRecord(fs[i], more)
  <2>1. \A i \in 1..n : FactStands(s.facts[i], a) /\ FactOnRecord(s.facts[i], more)
    BY <1>2 DEF FactsHold, FactOnRecord
  <2>2. \A i \in 1..(n + 1) : i \in 1..n \/ i = n + 1
    BY <1>2n
  <2> QED BY <1>6, <1>7, <2>1, <2>2
<1>10. FactsHold(fs, a, more)
  BY <1>7, <1>8, <1>9 DEF FactsHold
<1>11. SheetStands([s EXCEPT !.facts = fs], more)
  BY <1>10, NewFactsMakeASheet
<1> QED BY <1>4, <1>5, <1>11 DEF id

LEMMA EditsStand ==
  ASSUME NEW s, NEW deeds, SheetStands(s, deeds), NEW e \in Edits(s)
  PROVE  e.note \in Note /\ SheetStands(e.sheet, deeds \cup {e.note})
<1>1. s \in Sheet /\ \E a \in 1..MaxAttempts : FactsHold(s.facts, a, deeds)
  BY DEF SheetStands
<1>2. PICK a \in 1..MaxAttempts : FactsHold(s.facts, a, deeds)
  BY <1>1
<1>3. \A id \in Ids(s) : id \in Nat
  <2>1. \A id \in Ids(s) : \E f \in Fact : f.id = id
    BY <1>1, <1>2, FoundFacts
  <2> QED BY <2>1 DEF Fact
<1>4. ASSUME NEW id \in Ids(s), NEW on \in BOOLEAN,
             e = [sheet |-> SetApproval(s, id, on), note |-> [verb |-> Ticked(on), fact |-> id]]
      PROVE  e.note \in Note /\ SheetStands(e.sheet, deeds \cup {e.note})
  BY <1>1, <1>2, <1>3, <1>4, TickingStands DEF Note, Ticked
<1>5. ASSUME NEW on \in BOOLEAN,
             e = [sheet |-> ApproveAll(s, on), note |-> [verb |-> Ticked(on), fact |-> 0]]
      PROVE  e.note \in Note /\ SheetStands(e.sheet, deeds \cup {e.note})
  BY <1>1, <1>2, <1>5, TickingAllStands DEF Note, Ticked
<1>6. ASSUME NEW id \in Ids(s), NEW key \in Keys,
             e = [sheet |-> UpdateFact(s, id, key, "reworded"),
                  note |-> [verb |-> "edited", fact |-> id]]
      PROVE  e.note \in Note /\ SheetStands(e.sheet, deeds \cup {e.note})
  BY <1>1, <1>2, <1>3, <1>6, RewordingStands DEF Note
<1>7. ASSUME NEW id \in Ids(s),
             e = [sheet |-> DeleteFact(s, id), note |-> [verb |-> "deleted", fact |-> id]]
      PROVE  e.note \in Note /\ SheetStands(e.sheet, deeds \cup {e.note})
  BY <1>1, <1>2, <1>3, <1>7, DeletingStands DEF Note
<1>8. ASSUME NEW key \in Keys, NEW source \in {<<"book">>, NoSource},
             ValidateHumanFact("typed", source),
             e = [sheet |-> AddFact(s, key, "typed", NoGroup, source),
                  note |-> [verb |-> "added", fact |-> NextFactID(s)]]
      PROVE  e.note \in Note /\ SheetStands(e.sheet, deeds \cup {e.note})
  <2>1. source = <<"book">>
    BY <1>8 DEF ValidateHumanFact
  <2>2. /\ NextFactID(s) \in Nat
        /\ SheetStands(AddFact(s, key, "typed", NoGroup, <<"book">>),
                       deeds \cup {[verb |-> "added", fact |-> NextFactID(s)]})
    BY <1>1, <1>2, AddingStands
  <2>3. e.note \in Note
    BY <1>8, <2>2 DEF Note
  <2> QED BY <1>8, <2>1, <2>2, <2>3
<1> QED BY <1>4, <1>5, <1>6, <1>7, <1>8 DEF Edits

(* The order Save leaves the facts in: by their keys, ties as they were. *)
LEMMA KeysAreAnOrder ==
  ASSUME NEW fs, NEW n \in Nat, DOMAIN fs = 1..n, \A i \in 1..n : fs[i].key \in Nat
  PROVE  IsOrder(ByKey(fs), n)
BY DEF IsOrder, ByKey

LEMMA SortingStands ==
  ASSUME NEW s, NEW deeds, SheetStands(s, deeds)
  PROVE  SheetStands(Sorted(s), deeds) /\ InPlayOrder(Sorted(s))
<1>1. s \in Sheet /\ s.facts \in Seq(Fact)
  BY DEF SheetStands, FactsHold
<1>2. PICK a \in 1..MaxAttempts : FactsHold(s.facts, a, deeds)
  BY DEF SheetStands
<1> DEFINE n == Len(s.facts)
           fs == StableSort(s.facts, ByKey(s.facts))
<1>3. n \in Nat /\ DOMAIN s.facts = 1..n /\ \A i \in 1..n : s.facts[i] \in Fact
  BY <1>1
<1> HIDE DEF n
<1>4. \A i \in 1..n : s.facts[i].key \in Nat
  <2>1. \A f \in Fact : f.key \in Nat
    BY FormatAssumption DEF Fact
  <2> QED BY <1>3, <2>1
<1> HIDE DEF fs
<1>5. PICK f \in [1..n -> 1..n] :
        /\ fs = [p \in 1..n |-> s.facts[f[p]]]
        /\ \A p, q \in 1..n : f[p] = f[q] => p = q
        /\ \A p, q \in 1..n : p < q => f[p] \notin ByKey(s.facts)[f[q]]
  <2>1. IsOrder(ByKey(s.facts), n)
    BY <1>3, <1>4, KeysAreAnOrder
  <2>2. IsSortOf(fs, s.facts, ByKey(s.facts), n)
    BY <1>3, <2>1, SortOrders DEF fs
  <2> QED BY <2>2 DEF IsSortOf
<1>6. \A p \in 1..n : f[p] \in 1..n /\ fs[p] = s.facts[f[p]] /\ fs[p] \in Fact
  BY <1>3, <1>5
<1>7. fs \in Seq(Fact) /\ DOMAIN fs = 1..n
  <2>1. fs \in [1..n -> Fact]
    BY <1>5, <1>6
  <2> QED BY <1>3, <2>1
<1>8. FactsHold(fs, a, deeds)
  BY <1>2, <1>3, <1>5, <1>6, <1>7 DEF FactsHold
<1>9. Sorted(s) = [s EXCEPT !.facts = fs]
  BY DEF Sorted, fs
<1>10. Sorted(s).facts = fs
  BY <1>1, <1>9 DEF Sheet
<1>11. InPlayOrder(Sorted(s))
  <2> SUFFICES ASSUME NEW p \in 1..n, NEW q \in 1..n, p < q
               PROVE  fs[p].key <= fs[q].key
    BY <1>7, <1>10 DEF InPlayOrder
  <2>1. f[p] \notin ByKey(s.facts)[f[q]]
    BY <1>5
  <2>2. f[p] \in 1..n /\ f[q] \in 1..n
    BY <1>6
  <2>3. ~(s.facts[f[q]].key < s.facts[f[p]].key)
    BY <1>3, <2>1, <2>2 DEF ByKey
  <2>4. s.facts[f[p]].key \in Nat /\ s.facts[f[q]].key \in Nat
    BY <1>4, <2>2
  <2>5. fs[p] = s.facts[f[p]] /\ fs[q] = s.facts[f[q]]
    BY <1>6
  <2> QED BY <2>3, <2>4, <2>5
<1> QED BY <1>1, <1>8, <1>9, <1>11, NewFactsMakeASheet

(* The sheets a build writes stand on what people never did. *)
LEMMA BuiltSheetsStand ==
  ASSUME NEW a \in 1..MaxAttempts, NEW s \in BuiltSheets(a), NEW deeds
  PROVE  SheetStands(s, deeds) /\ InPlayOrder(s)
<1>1. PICK k \in [1..BuildSize -> Keys] :
        s = [ facts |-> [i \in 1..BuildSize |->
                          [ id |-> i, key |-> k[i], claim |-> "extracted",
                            source |-> Evidence(a, i), group |-> GroupOf[k[i]],
                            approved |-> FALSE, human |-> FALSE ]],
              minItems |-> Items, minGroups |-> Spread ]
  BY DEF BuiltSheets
<1>2. InPlayOrder(s)
  BY DEF BuiltSheets
<1>3. \A i \in 1..BuildSize :
        s.facts[i] = [ id |-> i, key |-> k[i], claim |-> "extracted",
                       source |-> Evidence(a, i), group |-> GroupOf[k[i]],
                       approved |-> FALSE, human |-> FALSE ]
  BY <1>1
<1>4. ASSUME NEW i \in 1..BuildSize
      PROVE  /\ s.facts[i] \in Fact /\ s.facts[i].id = i
             /\ FactStands(s.facts[i], a) /\ FactOnRecord(s.facts[i], deeds)
  <2> DEFINE src == Evidence(a, i)
             grp == GroupOf[k[i]]
             f == [ id |-> i, key |-> k[i], claim |-> "extracted", source |-> src,
                    group |-> grp, approved |-> FALSE, human |-> FALSE ]
  <2>1. i \in Nat /\ k[i] \in Keys /\ grp \in {GroupOf[x] : x \in Keys}
    BY <1>1, FormatAssumption
  <2>2. src \in {Evidence(b, j) : b \in 1..MaxAttempts, j \in 1..BuildSize}
    OBVIOUS
  <2>3. s.facts[i] = f
    BY <1>3
  <2>4. FactStands(f, a) /\ FactOnRecord(f, deeds) /\ f.id = i
    BY DEF FactStands, FactOnRecord
  <2>5. f \in Fact
    <3> HIDE DEF src, grp
    <3> QED BY <2>1, <2>2 DEF Fact
  <2> HIDE DEF f
  <2> QED BY <2>3, <2>4, <2>5
<1>5. s.facts \in Seq(Fact) /\ DOMAIN s.facts = 1..BuildSize
  <2>1. s.facts \in [1..BuildSize -> Fact]
    BY <1>1, <1>4
  <2> QED BY <2>1, FormatAssumption
<1>7. FactsHold(s.facts, a, deeds)
  BY <1>4, <1>5 DEF FactsHold
<1>8. s \in Sheet
  BY <1>1, <1>5, FormatAssumption DEF Sheet
<1> QED BY <1>2, <1>7, <1>8 DEF SheetStands

LEMMA StandingStays ==
  ASSUME NEW s, NEW deeds, NEW more, SheetStands(s, deeds), deeds \subseteq more
  PROVE  SheetStands(s, more)
BY DEF SheetStands, FactsHold, FactOnRecord

(* Deeds that pass Gate A. *)
DoneFacts(deeds) == {d.fact : d \in {x \in deeds : x.verb \in {"approved", "added"}}}
Enough(deeds) ==
  [verb |-> "approved", fact |-> 0] \in deeds \/ Cardinality(DoneFacts(deeds)) >= Items

LEMMA DoneFactsAreFinite ==
  ASSUME NEW deeds, IsFiniteSet(deeds)
  PROVE  IsFiniteSet(DoneFacts(deeds)) /\ Cardinality(DoneFacts(deeds)) \in Nat
<1> DEFINE done == {x \in deeds : x.verb \in {"approved", "added"}}
           f == [d \in done |-> d.fact]
<1>1. IsFiniteSet(done)
  BY FS_Subset
<1>2. f \in Surjection(done, DoneFacts(deeds))
  BY DEF Surjection, DoneFacts
<1> HIDE DEF done, f
<1> QED BY <1>1, <1>2, FS_Surjection, FS_CardinalityType

LEMMA EnoughStaysEnough ==
  ASSUME NEW deeds, NEW more, deeds \subseteq more, IsFiniteSet(more), Enough(deeds)
  PROVE  Enough(more)
<1>1. DoneFacts(deeds) \subseteq DoneFacts(more)
  BY DEF DoneFacts
<1>2. IsFiniteSet(DoneFacts(more)) /\ Cardinality(DoneFacts(more)) \in Nat
  BY DoneFactsAreFinite
<1>3. /\ Cardinality(DoneFacts(deeds)) \in Nat
      /\ Cardinality(DoneFacts(deeds)) <= Cardinality(DoneFacts(more))
  BY <1>1, <1>2, FS_Subset, FS_CardinalityType
<1> QED BY <1>2, <1>3, FormatAssumption DEF Enough

(* What the precondition counts, people did. *)
LEMMA CheckedMeansEnough ==
  ASSUME NEW s, NEW deeds, SheetStands(s, deeds), FromWorker(s), CheckGateA(s), IsFiniteSet(deeds)
  PROVE  Enough(deeds)
<1> SUFFICES ASSUME [verb |-> "approved", fact |-> 0] \notin deeds
             PROVE  Cardinality(DoneFacts(deeds)) >= Items
  BY DEF Enough
<1>1. PICK a : FactsHold(s.facts, a, deeds)
  BY DEF SheetStands
<1> DEFINE ids == [i \in ApprovedFacts(s) |-> s.facts[i].id]
<1>2. \A i \in ApprovedFacts(s) : s.facts[i].id \in DoneFacts(deeds)
  <2> TAKE i \in ApprovedFacts(s)
  <2>1. i \in DOMAIN s.facts /\ s.facts[i].approved /\ FactOnRecord(s.facts[i], deeds)
    BY <1>1 DEF ApprovedFacts, FactsHold
  <2>2. PICK d \in deeds : d.verb \in {"approved", "added"} /\ d.fact = s.facts[i].id
    <3>1. CASE s.facts[i].human
      BY <2>1, <3>1 DEF FactOnRecord
    <3>2. CASE ~s.facts[i].human
      BY <2>1, <3>2 DEF FactOnRecord
    <3> QED BY <3>1, <3>2
  <2> QED BY <2>2 DEF DoneFacts
<1>3. ids \in Injection(ApprovedFacts(s), DoneFacts(deeds))
  <2>1. \A i, j \in ApprovedFacts(s) : s.facts[i].id = s.facts[j].id => i = j
    BY <1>1 DEF ApprovedFacts, FactsHold
  <2> QED BY <1>2, <2>1 DEF Injection, IsInjective
<1>4. Cardinality(ApprovedFacts(s)) <= Cardinality(DoneFacts(deeds)) /\ IsFiniteSet(ApprovedFacts(s))
  <2> HIDE DEF ids
  <2> QED BY <1>3, DoneFactsAreFinite, FS_Injection
<1>5. Cardinality(ApprovedFacts(s)) \in Nat
  BY <1>4, FS_CardinalityType
<1>6. Cardinality(ApprovedFacts(s)) >= Items
  <2>1. MinItems(s) = Items
    BY FormatAssumption DEF FromWorker, MinItems
  <2> QED BY <2>1 DEF CheckGateA, ApprovedCount
<1> QED BY <1>4, <1>5, <1>6, DoneFactsAreFinite, FormatAssumption

(* The record invariant: the file, the sheets in people's hands, and the    *)
(* approvals under way all rest on deeds.                                  *)
RecordInv ==
  /\ TypeOK /\ GateInv
  /\ IsFiniteSet(Deeds)
  /\ SheetStands(file, Deeds) /\ InPlayOrder(file)
  /\ \A p \in People : people[p].pc = "loaded" => SheetStands(people[p].sheet, Deeds)
  /\ \A p \in People : people[p].pc = "checked" => Enough(Deeds)
  /\ video.status = "facts_approved" => Enough(Deeds)

LEMMA StatusesAreKnown ==
  {"queued", "researching", "facts_ready", "facts_approved", "error"} \subseteq Status
BY DEF Status, PipelineStatus, orderIndex

LEMMA InitIsOnRecord == Init => RecordInv
<1> SUFFICES ASSUME Init PROVE RecordInv
  OBVIOUS
<1> USE BoundsAssumption DEF Init
<1>1. GateInv
  BY GateInvInit
<1>2. file.facts = <<>> /\ file \in Sheet
  BY DEF NoSheet, Sheet
<1>3. TypeOK
  BY <1>2, ChangesGiveVideos DEF TypeOK, PersonState, Idle
<1>4. SheetStands(file, Deeds) /\ InPlayOrder(file)
  <2>1. 1 \in 1..MaxAttempts
    OBVIOUS
  <2> QED BY <1>2, <2>1 DEF SheetStands, FactsHold, InPlayOrder
<1>5. \A d : d \notin Deeds
  BY DeedsAre DEF DeedOf, Idle
<1>6. IsFiniteSet(Deeds)
  BY <1>5, FS_EmptySet
<1> QED BY <1>1, <1>3, <1>4, <1>6 DEF RecordInv, Idle, NewVideo

(* Where the record grows by at most one note, what stood still stands. *)
LEMMA RecordsGrow ==
  ASSUME RecordInv, NEW note, Deeds' = Deeds \/ Deeds' = Deeds \cup {note}
  PROVE  /\ Deeds \subseteq Deeds' /\ IsFiniteSet(Deeds')
         /\ SheetStands(file, Deeds')
         /\ \A p \in People : people[p].pc = "loaded" => SheetStands(people[p].sheet, Deeds')
         /\ Enough(Deeds) => Enough(Deeds')
<1>1. Deeds \subseteq Deeds'
  OBVIOUS
<1>2. IsFiniteSet(Deeds')
  BY FS_AddElement DEF RecordInv
<1>3. SheetStands(file, Deeds')
  BY <1>1, StandingStays DEF RecordInv
<1>4. \A p \in People : people[p].pc = "loaded" => SheetStands(people[p].sheet, Deeds')
  BY <1>1, StandingStays DEF RecordInv
<1>5. Enough(Deeds) => Enough(Deeds')
  BY <1>1, <1>2, EnoughStaysEnough
<1> QED BY <1>1, <1>2, <1>3, <1>4, <1>5

(* What nobody's hand is in: the research step, the worker, the crashes.   *)
LEMMA MachinesKeepWork ==
  ASSUME RecordInv, TypeOK', GateInv', Deeds' = Deeds,
         \A p \in People : people'[p] = people[p] \/ people'[p] = Idle,
         video'.status = "facts_approved" => video.status = "facts_approved",
         file' = file \/ \E a \in 1..MaxAttempts : file' \in BuiltSheets(a)
  PROVE  RecordInv'
<1>1. SheetStands(file', Deeds) /\ InPlayOrder(file')
  BY BuiltSheetsStand DEF RecordInv
<1>2. \A p \in People : people'[p].pc = "loaded" => SheetStands(people'[p].sheet, Deeds)
  BY DEF RecordInv, Idle
<1>3. \A p \in People : people'[p].pc = "checked" => Enough(Deeds)
  BY DEF RecordInv, Idle
<1>4. IsFiniteSet(Deeds) /\ (video'.status = "facts_approved" => Enough(Deeds))
  BY DEF RecordInv
<1> DEFINE now == Deeds'
<1>5. now = Deeds
  OBVIOUS
<1> HIDE DEF now
<1>6. SheetStands(file', now) /\ \A p \in People : people'[p].pc = "loaded" => SheetStands(people'[p].sheet, now)
  BY <1>1, <1>2, <1>5
<1>7. /\ \A p \in People : people'[p].pc = "checked" => Enough(now)
      /\ IsFiniteSet(now) /\ (video'.status = "facts_approved" => Enough(now))
  BY <1>3, <1>4, <1>5
<1> QED BY <1>1, <1>6, <1>7 DEF RecordInv, now

LEMMA StepKeepsWork ==
  ASSUME RecordInv, Step
  PROVE  RecordInv'
<1> USE BoundsAssumption
<1>1. TypeOK /\ GateInv /\ GateInv'
  BY StepKeepsGateInv DEF RecordInv
<1>2. UNCHANGED <<file, log, people, holes, requests, crashes>>
  BY DEF Step, StartResearch, StreamOpens, StepSucceeds, StepFails
<1>3. video' \in Video /\ video'.status \in {"queued", "researching", "facts_ready", "facts_approved", "error"}
  <2>1. video \in Video
    BY <1>1 DEF TypeOK
  <2>2. video' = video \/ (\E to \in {"researching", "facts_ready"} : video' = Transition(video, to)) \/ video' = Fail(video)
    BY DEF Step, StartResearch, StreamOpens, StepSucceeds, StepFails
  <2>3. video' \in Video
    BY <2>1, <2>2, ChangesGiveVideos, StatusesAreKnown
  <2> QED BY <2>3, <1>1 DEF GateInv, VideoIsEarly
<1>4. call' \in {"none", "dialing", "open"} /\ attempts' \in 0..MaxAttempts
  BY <1>1 DEF GateInv, CallsAreResearch
<1>5. builds' \in [1..MaxAttempts -> {"none", "working", "written", "raised", "killed"}]
  BY <1>1 DEF TypeOK, Step, StartResearch, StreamOpens, StepSucceeds, StepFails
<1>6. TypeOK'
  BY <1>1, <1>2, <1>3, <1>4, <1>5 DEF TypeOK
<1>7. Deeds' = Deeds
  BY <1>2 DEF Deeds
<1>8. video'.status = "facts_approved" => video.status = "facts_approved"
  BY <1>1 DEF Step, StartResearch, StreamOpens, StepSucceeds, StepFails, Transition, Fail, TypeOK, Video
<1> QED BY <1>1, <1>2, <1>6, <1>7, <1>8, MachinesKeepWork

LEMMA WorkerKeepsWork ==
  ASSUME RecordInv, Worker \/ WorkerDies
  PROVE  RecordInv'
<1> USE BoundsAssumption
<1>1. TypeOK /\ GateInv /\ GateInv'
  BY WorkerKeepsGateInv DEF RecordInv
<1>2. UNCHANGED <<video, log, people, call, attempts, holes, requests>>
  BY DEF Worker, WorkerDies, BuildWrites, BuildRaises
<1>3. file' = file \/ \E a \in 1..MaxAttempts : file' \in BuiltSheets(a)
  BY DEF Worker, WorkerDies, BuildWrites, BuildRaises
<1>4. file' \in Sheet
  BY <1>1, <1>3, BuiltSheetsStand DEF TypeOK, SheetStands
<1>5. builds' \in [1..MaxAttempts -> {"none", "working", "written", "raised", "killed"}]
  BY <1>1 DEF TypeOK, Worker, WorkerDies, BuildWrites, BuildRaises
<1>6. crashes' \in 0..MaxCrashes
  BY <1>1 DEF TypeOK, Worker, WorkerDies, BuildWrites, BuildRaises
<1>7. TypeOK'
  BY <1>1, <1>2, <1>4, <1>5, <1>6 DEF TypeOK
<1>8. Deeds' = Deeds
  BY <1>2 DEF Deeds
<1> QED BY <1>1, <1>2, <1>3, <1>7, <1>8, MachinesKeepWork

LEMMA CrashKeepsWork ==
  ASSUME RecordInv, ServerDies
  PROVE  RecordInv'
<1> USE BoundsAssumption
<1>1. TypeOK /\ GateInv /\ GateInv'
  BY CrashKeepsGateInv DEF RecordInv
<1>2. PICK dead \in SUBSET People :
        /\ people' = [p \in People |-> IF p \in dead THEN Idle ELSE people[p]]
        /\ holes' = holes \cup UNION {Unlogged(people[p]) : p \in dead}
  BY DEF ServerDies
<1>3. UNCHANGED <<file, log, attempts, builds, requests>> /\ call' = "none" /\ crashes' \in 0..MaxCrashes
  BY <1>1 DEF ServerDies, TypeOK
<1>4. video' \in Video
  BY <1>1, ChangesGiveVideos DEF ServerDies, TypeOK
<1>5. people' \in [People -> PersonState] /\ \A p \in People : people'[p] = people[p] \/ people'[p] = Idle
  BY <1>1, <1>2 DEF TypeOK, PersonState
<1>6. holes' \subseteq Note
  <2>1. \A p \in People : people[p].pc \in {"saved", "noted"} => people[p].note \in Note
    BY <1>1 DEF TypeOK, PersonState, Idle
  <2>2. \A d : d \in holes' => d \in holes \/ \E p \in dead : d \in Unlogged(people[p])
    BY <1>2
  <2> QED BY <1>1, <2>1, <2>2, UnloggedIs DEF TypeOK
<1>7. TypeOK'
  BY <1>1, <1>3, <1>4, <1>5, <1>6 DEF TypeOK
<1>8. video'.status = "facts_approved" => video.status = "facts_approved"
  BY <1>1 DEF ServerDies, Fail, TypeOK, Video
<1> QED BY <1>1, <1>3, <1>5, <1>7, <1>8, DeathForgetsNoDeed, MachinesKeepWork

(* A person's hand: what the request holds next, on a record that grew.     *)
LEMMA HandsKeepWork ==
  ASSUME RecordInv, TypeOK', GateInv', NEW p \in People, NEW note,
         Deeds' = Deeds \/ Deeds' = Deeds \cup {note},
         \A q \in People : q # p => people'[q] = people[q],
         people'[p].pc = "loaded" => people'[p].sheet = file,
         people'[p].pc = "checked" => Enough(Deeds),
         video'.status = "facts_approved" =>
           video.status = "facts_approved" \/ people[p].pc = "checked",
         file' = file \/ (SheetStands(file', Deeds') /\ InPlayOrder(file'))
  PROVE  RecordInv'
<1> DEFINE now == Deeds'
<1>1. /\ IsFiniteSet(now)
      /\ SheetStands(file, now)
      /\ \A q \in People : people[q].pc = "loaded" => SheetStands(people[q].sheet, now)
      /\ Enough(Deeds) => Enough(now)
  BY RecordsGrow
<1>2. file' = file \/ (SheetStands(file', now) /\ InPlayOrder(file'))
  OBVIOUS
<1> HIDE DEF now
<1>3. SheetStands(file', now) /\ InPlayOrder(file')
  BY <1>1, <1>2 DEF RecordInv
<1>4. \A q \in People : people'[q].pc = "loaded" => SheetStands(people'[q].sheet, now)
  BY <1>1
<1>5. \A q \in People : people'[q].pc = "checked" => Enough(now)
  BY <1>1 DEF RecordInv
<1>6. video'.status = "facts_approved" => Enough(now)
  BY <1>1 DEF RecordInv
<1> QED BY <1>1, <1>3, <1>4, <1>5, <1>6 DEF RecordInv, now

LEMMA EditsKeepWork ==
  ASSUME RecordInv, NEW p \in People,
         LoadSheet(p) \/ SaveEdit(p) \/ ReadStatus(p) \/ AppendEdit(p) \/ EndInError(p)
           \/ CheckPrecondition(p)
  PROVE  RecordInv'
<1> USE BoundsAssumption
<1>1. TypeOK /\ GateInv /\ GateInv'
  BY PersonKeepsGateInv DEF RecordInv, Person
<1>2. UNCHANGED <<video, research, crashes>>
  BY DEF LoadSheet, SaveEdit, ReadStatus, AppendEdit, EndInError, CheckPrecondition
<1>3. /\ video' \in Video /\ call' \in {"none", "dialing", "open"} /\ attempts' \in 0..MaxAttempts
      /\ builds' \in [1..MaxAttempts -> {"none", "working", "written", "raised", "killed"}]
      /\ crashes' \in 0..MaxCrashes
  BY <1>1, <1>2 DEF TypeOK, research
<1>4. requests' \in 0..(MaxRequests + MaxLate)
  BY <1>1 DEF LoadSheet, SaveEdit, ReadStatus, AppendEdit, EndInError, CheckPrecondition, Request, TypeOK
<1>5. people[p] \in PersonState /\ \A q \in People : people[q] \in PersonState
  BY <1>1 DEF TypeOK
<1>6. CASE LoadSheet(p)
  <2>1. people' = [people EXCEPT ![p] = [pc |-> "loaded", sheet |-> file]]
    BY <1>6 DEF LoadSheet, Request
  <2>2. [pc |-> "loaded", sheet |-> file] \in PersonState
    BY <1>1 DEF TypeOK, PersonState
  <2>3. TypeOK'
    BY <1>1, <1>3, <1>4, <1>6, <2>1, <2>2 DEF TypeOK, LoadSheet
  <2>4. Deeds' = Deeds
    BY <1>1, <1>6, RequestsAddNoDeeds DEF LoadSheet, TypeOK
  <2> QED BY <1>1, <1>2, <1>6, <2>1, <2>3, <2>4, HandsKeepWork DEF LoadSheet, TypeOK
<1>7. CASE CheckPrecondition(p)
  <2>1. people' = [people EXCEPT ![p] = [pc |-> "checked"]]
    BY <1>7 DEF CheckPrecondition, Request
  <2>2. TypeOK'
    BY <1>1, <1>3, <1>4, <1>7, <2>1 DEF TypeOK, CheckPrecondition, PersonState
  <2>3. Deeds' = Deeds
    BY <1>1, <1>7, RequestsAddNoDeeds DEF CheckPrecondition, TypeOK
  <2>4. Enough(Deeds)
    BY <1>1, <1>7, CheckedMeansEnough DEF CheckPrecondition, RecordInv, GateInv, SheetsAreKept
  <2> QED BY <1>1, <1>2, <1>7, <2>1, <2>2, <2>3, <2>4, HandsKeepWork DEF CheckPrecondition, TypeOK
<1>8. CASE SaveEdit(p)
  <2>1. PICK e \in Edits(people[p].sheet) :
          /\ file' = Sorted(e.sheet)
          /\ people' = [people EXCEPT ![p] = [pc |-> "saved", note |-> e.note]]
    BY <1>8 DEF SaveEdit
  <2>2. people[p].pc = "loaded" /\ UNCHANGED <<log, holes>>
    BY <1>8 DEF SaveEdit
  <2>3. Deeds' = Deeds \cup {e.note}
    BY <1>1, <2>1, <2>2, SavedEditsAreDeeds
  <2>4. e.note \in Note /\ SheetStands(e.sheet, Deeds \cup {e.note})
    BY <2>2, EditsStand DEF RecordInv
  <2>5. SheetStands(file', Deeds \cup {e.note}) /\ InPlayOrder(file')
    BY <2>1, <2>4, SortingStands
  <2>6. TypeOK'
    <3>1. [pc |-> "saved", note |-> e.note] \in PersonState
      BY <2>4 DEF PersonState
    <3>2. file' \in Sheet
      BY <2>5 DEF SheetStands
    <3> QED BY <1>1, <1>3, <1>4, <2>1, <2>2, <3>1, <3>2 DEF TypeOK
  <2>7. SheetStands(file', Deeds')
    BY <2>3, <2>5
  <2> QED BY <1>1, <1>2, <2>1, <2>3, <2>5, <2>6, <2>7, HandsKeepWork DEF TypeOK
<1>9. CASE ReadStatus(p) \/ AppendEdit(p) \/ EndInError(p)
  <2>1. file' = file /\ Deeds' = Deeds
    BY <1>1, <1>9, NotesMoveOn DEF ReadStatus, AppendEdit, EndInError
  <2>2. people[p].pc \in {"saved", "noted"} => people[p].note \in Note
    BY <1>5 DEF PersonState, Idle
  <2>3. people[p].pc = "noted" => people[p].status \in Status
    BY <1>5 DEF PersonState, Idle
  <2>4. people' \in [People -> PersonState]
    <3>1. CASE ReadStatus(p)
      <4>1. PICK st \in {video.status, "facts_ready"} : people' = [people EXCEPT ![p] =
               [pc |-> "noted", note |-> people[p].note, status |-> st]]
        BY <3>1 DEF ReadStatus
      <4>2. st \in Status
        BY <1>1, StatusesAreKnown DEF TypeOK, Video
      <4>3. [pc |-> "noted", note |-> people[p].note, status |-> st] \in PersonState
        BY <3>1, <2>2, <4>2 DEF ReadStatus, PersonState
      <4> QED BY <1>1, <4>1, <4>3 DEF TypeOK
    <3>2. CASE AppendEdit(p) \/ EndInError(p)
      BY <1>1, <3>2 DEF AppendEdit, EndInError, TypeOK, PersonState
    <3> QED BY <1>9, <3>1, <3>2
  <2>5. log' \in Seq(Entry)
    <3>1. CASE AppendEdit(p)
      <4>1. LogEntry("edit", people[p].note, people[p].status, people[p].status) \in Entry
        BY <3>1, <2>2, <2>3 DEF AppendEdit, LogEntry, Entry
      <4> QED BY <1>1, <3>1, <4>1 DEF AppendEdit, TypeOK
    <3>2. CASE ReadStatus(p) \/ EndInError(p)
      BY <1>1, <3>2 DEF ReadStatus, EndInError, TypeOK
    <3> QED BY <1>9, <3>1, <3>2
  <2>6. holes' \subseteq Note
    <3>1. CASE EndInError(p)
      BY <1>1, <3>1, <2>2, UnloggedIs DEF EndInError, TypeOK
    <3>2. CASE ReadStatus(p) \/ AppendEdit(p)
      BY <1>1, <3>2 DEF ReadStatus, AppendEdit, TypeOK
    <3> QED BY <1>9, <3>1, <3>2
  <2>7. TypeOK'
    BY <1>1, <1>3, <1>4, <2>1, <2>4, <2>5, <2>6 DEF TypeOK
  <2>8. /\ \A q \in People : q # p => people'[q] = people[q]
        /\ people'[p].pc \notin {"loaded", "checked"}
    BY <1>1, <1>9 DEF ReadStatus, AppendEdit, EndInError, TypeOK, Idle
  <2> QED BY <1>1, <1>2, <2>1, <2>7, <2>8, HandsKeepWork
<1> QED BY <1>6, <1>7, <1>8, <1>9

LEMMA DecisionsKeepWork ==
  ASSUME RecordInv, NEW p \in People,
         \/ ApproveGateA(p) \/ RetryVideo(p)
         \/ \E backTo \in PipelineStatus : RejectGateA(p, backTo)
  PROVE  RecordInv'
<1> USE BoundsAssumption
<1>1. TypeOK /\ GateInv /\ GateInv'
  BY PersonKeepsGateInv DEF RecordInv, Person
<1>2. Deeds' = Deeds \cup {NoNote}
  BY <1>1, DecisionsAddNoWork
<1>3. PICK row : \E action \in {"approve", "reject", "retry"} : Decide(row, action)
  <2>1. ApproveGateA(p) => Decide(ApproveGate(video, "A"), "approve")
    BY DEF ApproveGateA
  <2>2. RetryVideo(p) => Decide(Retry(video), "retry")
    BY DEF RetryVideo
  <2>3. \A backTo : RejectGateA(p, backTo) => Decide(RejectGate(video, "A", backTo), "reject")
    BY DEF RejectGateA
  <2> QED BY <2>1, <2>2, <2>3, Zenon
<1>10. PICK action \in {"approve", "reject", "retry"} : Decide(row, action)
  BY <1>3
<1>4. UNCHANGED <<file, research, holes, crashes>> /\ people' = [people EXCEPT ![p] = Idle]
  BY <1>10 DEF ApproveGateA, RetryVideo, RejectGateA, Request, Decide
<1>5. video' \in Video
  BY <1>1, ChangesGiveVideos DEF ApproveGateA, RetryVideo, RejectGateA, Decide, TypeOK, CanApproveGate, AwaitsGate
<1>6. log' \in Seq(Entry)
  <2>1. video' = row /\ log' = Append(log, LogEntry(action, NoNote, video.status, row.status))
    BY <1>10 DEF Decide
  <2>2. row.status \in Status /\ video.status \in Status
    BY <1>1, <1>5, <2>1 DEF TypeOK, Video
  <2>3. LogEntry(action, NoNote, video.status, row.status) \in Entry
    BY <2>2 DEF LogEntry, Entry, NoNote, Note
  <2> QED BY <1>1, <2>1, <2>3 DEF TypeOK
<1>7. requests' \in 0..(MaxRequests + MaxLate)
  BY <1>1 DEF ApproveGateA, RetryVideo, RejectGateA, Request, TypeOK
<1>8. TypeOK'
  BY <1>1, <1>4, <1>5, <1>6, <1>7 DEF TypeOK, PersonState, research
<1>9. video'.status = "facts_approved" => video.status = "facts_approved" \/ people[p].pc = "checked"
  <2>1. CASE ApproveGateA(p)
    BY <2>1 DEF ApproveGateA
  <2>2. CASE RetryVideo(p)
    <3>1. video.retryFrom \in {NoStatus, "researching"} /\ video \in Video
      BY <1>1 DEF GateInv, VideoIsEarly, TypeOK
    <3>2. video'.status \in {"queued", "researching"}
      BY <2>2, <3>1 DEF RetryVideo, Decide, Retry, Video
    <3> QED BY <3>2
  <2>3. ASSUME NEW backTo \in PipelineStatus, RejectGateA(p, backTo) PROVE video'.status # "facts_approved"
    <3>1. backTo \in {"queued", "researching"}
      BY <2>3 DEF RejectGateA, CanRejectGate, AwaitsGate, gates, IsEarlier, orderIndex
    <3> QED BY <1>1, <2>3, <3>1 DEF RejectGateA, Decide, RejectGate, TypeOK, Video
  <2> QED BY <2>1, <2>2, <2>3
<1> QED BY <1>1, <1>2, <1>4, <1>8, <1>9, HandsKeepWork DEF TypeOK, Idle

LEMMA RecordInvInductive == RecordInv /\ [Next]_vars => RecordInv'
<1> SUFFICES ASSUME RecordInv, [Next]_vars PROVE RecordInv'
  OBVIOUS
<1>1. CASE UNCHANGED vars
  <2>1. GateInv'
    BY <1>1, GateInvInductive DEF RecordInv
  <2>2. TypeOK'
    BY <1>1 DEF vars, TypeOK, RecordInv
  <2>3. Deeds' = Deeds
    BY <1>1 DEF vars, Deeds
  <2> QED BY <1>1, <2>1, <2>2, <2>3, MachinesKeepWork DEF vars
<1>2. ASSUME NEW p \in People, Person(p) PROVE RecordInv'
  BY <1>2, EditsKeepWork, DecisionsKeepWork DEF Person
<1> QED BY <1>1, <1>2, StepKeepsWork, WorkerKeepsWork, CrashKeepsWork DEF Next

LEMMA RecordInvHolds == Spec => []RecordInv
BY InitIsOnRecord, RecordInvInductive, PTL DEF Spec

(* Everything keeps its type: no edit, order or approval ever puts a field  *)
(* of the sheet outside its domain, whatever crosses it.                   *)
THEOREM GateTypes == Spec => []TypeOK
<1>1. RecordInv => TypeOK
  BY DEF RecordInv
<1> QED BY <1>1, RecordInvHolds, PTL

(* However edits overlap with each other and with a build, the file is one  *)
(* whole sheet: ids name one fact each, in play order (facts.go NextFactID, *)
(* factstore Save).                                                        *)
THEOREM SheetsStayWhole == Spec => []SheetIsWellFormed
<1>1. RecordInv => SheetIsWellFormed
  BY DEF RecordInv, SheetIsWellFormed, SheetStands, FactsHold, IdsAreDistinct
<1> QED BY <1>1, RecordInvHolds, PTL

(* Every extracted fact keeps the evidence its own build found for it, and  *)
(* a typed one its source (facts.go: "never editable").                    *)
THEOREM EvidenceIsNeverLost == Spec => []EvidenceStands
<1>1. RecordInv => EvidenceStands
  BY DEF RecordInv, SheetStands, FactsHold, FactStands, EvidenceStands, Facts
<1> QED BY <1>1, RecordInvHolds, PTL

(* Whatever edits are lost to overlapping saves, no fact on file shows human *)
(* work that nobody is on record for (facts_service.go edit).              *)
THEOREM WorkIsSignedFor == Spec => []WorkIsOnRecord
<1>1. RecordInv => WorkIsOnRecord
  BY DEF RecordInv, SheetStands, FactsHold, FactOnRecord, WorkIsOnRecord, Facts
<1> QED BY <1>1, RecordInvHolds, PTL

(* However stale the sheet the precondition read, a video passes Gate A only *)
(* after people approved or added enough facts (facts.go CheckGateA).      *)
THEOREM GateAIsPassedByPeople == Spec => []ApprovalRestsOnPeople
<1>1. RecordInv => ApprovalRestsOnPeople
  BY DEF RecordInv, Enough, DoneFacts, ApprovalRestsOnPeople
<1> QED BY <1>1, RecordInvHolds, PTL
=============================================================================
