----------------------------- MODULE SharedLemmas -----------------------------
(***************************************************************************)
(* Facts the proofs of several components rest on: about the transition    *)
(* tables, for every status and every gate (VideoState); about sorting, for *)
(* every list and comparison (StableOrder); and about loops: a set of      *)
(* numbers has a least one, which stands in for induction.                 *)
(***************************************************************************)
EXTENDS VideoState, StableOrder, FiniteSetTheorems, WellFoundedInduction, TLAPS

-----------------------------------------------------------------------------
(* The transition tables.                                                  *)

(* No automatic move crosses a gate: it leaves a video beyond the same     *)
(* gates as before (state.go: "a pipeline step cannot produce a            *)
(* gate-crossing state change").                                           *)
LEMMA AutomaticKeepsGates ==
  ASSUME NEW from, NEW to, CanTransition(from, to), to # "error"
  PROVE  GatesBehind(to) = GatesBehind(from)
BY DEF CanTransition, automatic, GatesBehind, Gate, gates, IsEarlier, orderIndex

(* Approving a gate adds that gate, and that gate alone. *)
LEMMA ApprovalAddsItsGate ==
  ASSUME NEW g \in Gate
  PROVE  /\ GatesBehind(gates[g].to) = GatesBehind(gates[g].from) \cup {g}
         /\ g \notin GatesBehind(gates[g].from)
BY DEF GatesBehind, Gate, gates, IsEarlier, orderIndex

(* An earlier status is beyond fewer gates: a rejection only takes gates away. *)
LEMMA EarlierIsBehindFewer ==
  ASSUME NEW a, NEW b, IsEarlier(a, b)
  PROVE  GatesBehind(a) \subseteq GatesBehind(b)
BY DEF GatesBehind, Gate, gates, IsEarlier, orderIndex

(* Nothing lies behind a video that is not queued yet. *)
LEMMA NothingBehindTheStart ==
  GatesBehind("queued") = {} /\ GatesBehind(NoStatus) = {}
BY DEF GatesBehind, Gate, gates, IsEarlier, orderIndex, NoStatus

(* A status with an automatic move is none that waits for a person. *)
LEMMA MovableIsNotAtAGate ==
  ASSUME NEW from, NEW to, CanTransition(from, to), NEW g \in Gate
  PROVE  ~AwaitsGate(from, g) /\ from # "error" /\ from # NoStatus
<1>1. from \in DOMAIN automatic
  BY DEF CanTransition
<1>2. gates[g].from \notin DOMAIN automatic
  BY DEF Gate, gates, automatic
<1>3. from # "error" /\ from # NoStatus
  BY <1>1 DEF automatic, NoStatus
<1>4. QED
  BY <1>1, <1>2, <1>3 DEF AwaitsGate

(* The statuses named by the tables are statuses of the pipeline. *)
LEMMA TablesNameStatuses ==
  /\ \A from, to : CanTransition(from, to) =>
       from \in PipelineStatus /\ to \in Status
  /\ \A g \in Gate : gates[g].from \in PipelineStatus /\ gates[g].to \in PipelineStatus
  /\ "queued" \in PipelineStatus /\ "error" \notin PipelineStatus
  /\ NoStatus \notin Status
<1>1. DOMAIN automatic \subseteq PipelineStatus
  BY DEF automatic, PipelineStatus, orderIndex
<1>2. \A from \in DOMAIN automatic : automatic[from] \subseteq Status
  BY DEF automatic, Status, PipelineStatus, orderIndex
<1>3. \A g \in Gate : gates[g].from \in PipelineStatus /\ gates[g].to \in PipelineStatus
  BY DEF Gate, gates, PipelineStatus, orderIndex
<1>4. "queued" \in PipelineStatus /\ "error" \notin PipelineStatus
  BY DEF PipelineStatus, orderIndex
<1>5. NoStatus \notin Status
  BY DEF Status, PipelineStatus, orderIndex, NoStatus
<1>6. QED
  BY <1>1, <1>2, <1>3, <1>4, <1>5 DEF CanTransition

(* No automatic move leads from one working status to another: after three *)
(* legs in a row there would be a step that waits for no one.              *)
LEMMA NoThreeLegs ==
  ASSUME NEW a, NEW b, NEW c, NEW d,
         CanTransition(a, b), CanTransition(b, c), CanTransition(c, d)
  PROVE  FALSE
BY DEF CanTransition, automatic

(* Failing and resuming leave a video's position where it was. *)
LEMMA FailKeepsPosition ==
  ASSUME NEW v \in Video
  PROVE  Position(Fail(v)) = Position(v)
BY DEF Video, Position, Fail

LEMMA RetryKeepsPosition ==
  ASSUME NEW v \in Video, v.status = "error", v.retryFrom \in PipelineStatus
  PROVE  Position(Retry(v)) = Position(v) /\ Retry(v).status = v.retryFrom
BY TablesNameStatuses DEF Video, Position, Retry, KnownStatus, PipelineStatus, Status, NoStatus

(* Whatever changes a video leaves a video. *)
LEMMA ChangesGiveVideos ==
  /\ NewVideo \in Video
  /\ \A v \in Video, to \in Status : Transition(v, to) \in Video
  /\ \A v \in Video, g \in Gate : ApproveGate(v, g) \in Video
  /\ \A v \in Video : \A g, backTo : CanRejectGate(v, g, backTo) => RejectGate(v, g, backTo) \in Video
  /\ \A v \in Video : Fail(v) \in Video /\ Retry(v) \in Video
<1> USE TablesNameStatuses DEF Video
<1>1. NewVideo \in Video
  BY DEF NewVideo, Status
<1>2. \A v \in Video, to \in Status : Transition(v, to) \in Video
  BY DEF Transition
<1>3. \A v \in Video, g \in Gate : ApproveGate(v, g) \in Video
  BY DEF ApproveGate, Status
<1>4. \A v \in Video : \A g, backTo : CanRejectGate(v, g, backTo) => RejectGate(v, g, backTo) \in Video
  BY DEF CanRejectGate, RejectGate, KnownStatus, PipelineStatus, Status
<1>5. \A v \in Video : Fail(v) \in Video
  BY DEF Fail, Status
<1>6. \A v \in Video : Retry(v) \in Video
  BY DEF Retry, KnownStatus, PipelineStatus, Status
<1>7. QED
  BY <1>1, <1>2, <1>3, <1>4, <1>5, <1>6

-----------------------------------------------------------------------------
(* Sorting.  A comparison a sort can work with: nothing goes before what   *)
(* has to go before it, and what neither goes before the other ties.       *)

IsOrder(before, n) ==
  /\ before \in [1..n -> SUBSET (1..n)]
  /\ \A i, j \in 1..n : j \in before[i] => i \notin before[j]
  /\ \A i, j, k \in 1..n : j \in before[i] => k \in before[i] \/ j \in before[k]

NoLater(before, n, i) == {j \in 1..n : i \in before[j] \/ (j \notin before[i] /\ j <= i)}

(* Of two elements, one goes before the other, with all that goes before it. *)
LEMMA NoLaterIsAChain ==
  ASSUME NEW n \in Nat, NEW before, IsOrder(before, n),
         NEW i \in 1..n, NEW j \in 1..n, j \notin NoLater(before, n, i)
  PROVE  NoLater(before, n, i) \subseteq NoLater(before, n, j)
<1>1. i \notin before[j] /\ (j \in before[i] \/ j > i)
  BY DEF NoLater
<1> SUFFICES ASSUME NEW k \in NoLater(before, n, i)
             PROVE  k \in NoLater(before, n, j)
  OBVIOUS
<1>2. k \in 1..n /\ (i \in before[k] \/ (k \notin before[i] /\ k <= i))
  BY DEF NoLater
<1>3. j \in before[k] \/ (k \notin before[j] /\ k <= j)
  BY <1>1, <1>2 DEF IsOrder
<1> QED BY <1>2, <1>3 DEF NoLater

LEMMA PlacesFollowTheChain ==
  ASSUME NEW n \in Nat, NEW before, IsOrder(before, n),
         NEW i \in 1..n, NEW j \in 1..n, j \notin NoLater(before, n, i)
  PROVE  Cardinality(NoLater(before, n, i)) < Cardinality(NoLater(before, n, j))
<1>1. NoLater(before, n, i) \subseteq NoLater(before, n, j)
  BY NoLaterIsAChain
<1>2. j \in NoLater(before, n, j)
  BY DEF NoLater, IsOrder
<1>3. IsFiniteSet(NoLater(before, n, j))
  <2>1. IsFiniteSet(1..n) /\ NoLater(before, n, j) \subseteq 1..n
    BY FS_Interval DEF NoLater
  <2> QED BY <2>1, FS_Subset
<1>4. /\ Cardinality(NoLater(before, n, i)) <= Cardinality(NoLater(before, n, j))
      /\ Cardinality(NoLater(before, n, i)) # Cardinality(NoLater(before, n, j))
  BY <1>1, <1>2, <1>3, FS_Subset
<1>5. /\ Cardinality(NoLater(before, n, i)) \in Nat
      /\ Cardinality(NoLater(before, n, j)) \in Nat
  BY <1>1, <1>3, FS_Subset, FS_CardinalityType
<1> QED BY <1>4, <1>5

(* Every place is somebody's. *)
LEMMA PlacesAreFilled ==
  ASSUME NEW s, NEW n \in Nat, DOMAIN s = 1..n, NEW before, IsOrder(before, n)
  PROVE  /\ \A p \in 1..n : \E i \in 1..n : Place(s, before, i) = p
         /\ \A i, j \in 1..n : j \in before[i] => Place(s, before, i) < Place(s, before, j)
         /\ \A i \in 1..n : Place(s, before, i) \in 1..n
         /\ \A i, j \in 1..n : Place(s, before, i) = Place(s, before, j) => i = j
<1>1. \A i \in 1..n : Place(s, before, i) = Cardinality(NoLater(before, n, i))
  BY DEF Place, NoLater
<1>2. \A i \in 1..n : Place(s, before, i) \in 1..n
  <2> TAKE i \in 1..n
  <2>1. NoLater(before, n, i) \subseteq 1..n /\ i \in NoLater(before, n, i)
    BY DEF NoLater, IsOrder
  <2>2. IsFiniteSet(1..n) /\ Cardinality(1..n) = n
    BY FS_Interval
  <2>3. IsFiniteSet(NoLater(before, n, i)) /\ Cardinality(NoLater(before, n, i)) <= n
    BY <2>1, <2>2, FS_Subset
  <2>4. Cardinality(NoLater(before, n, i)) \in Nat \ {0}
    BY <2>1, <2>3, FS_EmptySet, FS_CardinalityType
  <2> QED BY <1>1, <2>3, <2>4
<1>3. \A i, j \in 1..n : j \notin NoLater(before, n, i) => Place(s, before, i) < Place(s, before, j)
  BY <1>1, PlacesFollowTheChain
<1>4. \A i, j \in 1..n : i # j => j \notin NoLater(before, n, i) \/ i \notin NoLater(before, n, j)
  BY DEF NoLater, IsOrder
<1>5. \A i, j \in 1..n : Place(s, before, i) = Place(s, before, j) => i = j
  BY <1>2, <1>3, <1>4
<1> DEFINE place == [i \in 1..n |-> Place(s, before, i)]
<1>6. place \in Injection(1..n, 1..n)
  BY <1>2, <1>5 DEF Injection, IsInjective
<1>7. place \in Surjection(1..n, 1..n)
  <2>1. IsFiniteSet(1..n)
    BY FS_Interval
  <2> HIDE DEF place
  <2> QED BY <1>6, <2>1, FS_Injection
<1>8. \A p \in 1..n : \E i \in 1..n : Place(s, before, i) = p
  BY <1>7 DEF Surjection
<1>9. \A i, j \in 1..n : j \in before[i] => j \notin NoLater(before, n, i)
  BY DEF NoLater, IsOrder
<1> QED BY <1>2, <1>3, <1>5, <1>8, <1>9

(* t is s in another order, none before one that has to go before it. *)
IsSortOf(t, s, before, n) ==
  \E f \in [1..n -> 1..n] :
    /\ t = [p \in 1..n |-> s[f[p]]]
    /\ \A p, q \in 1..n : f[p] = f[q] => p = q
    /\ \A i \in 1..n : \E p \in 1..n : f[p] = i
    /\ \A p, q \in 1..n : p < q => f[p] \notin before[f[q]]

LEMMA SortOrders ==
  ASSUME NEW s, NEW n \in Nat, DOMAIN s = 1..n, NEW before, IsOrder(before, n)
  PROVE  IsSortOf(StableSort(s, before), s, before, n)
<1> DEFINE f == [p \in 1..n |-> CHOOSE i \in 1..n : Place(s, before, i) = p]
<1>1. \A p \in 1..n : f[p] \in 1..n /\ Place(s, before, f[p]) = p
  BY PlacesAreFilled
<1>2. StableSort(s, before) = [p \in 1..n |-> s[f[p]]]
  BY DEF StableSort
<1>3. f \in [1..n -> 1..n]
  BY <1>1
<1> HIDE DEF f
<1>4. \A p, q \in 1..n : f[p] = f[q] => p = q
  BY <1>1
<1>5. \A i \in 1..n : \E p \in 1..n : f[p] = i
  <2> TAKE i \in 1..n
  <2>1. Place(s, before, i) \in 1..n
    BY PlacesAreFilled
  <2>2. f[Place(s, before, i)] = i
    BY <1>1, <2>1, PlacesAreFilled
  <2> QED BY <2>1, <2>2
<1>6. \A p, q \in 1..n : p < q => f[p] \notin before[f[q]]
  <2> SUFFICES ASSUME NEW p \in 1..n, NEW q \in 1..n, f[p] \in before[f[q]]
               PROVE  q < p
    OBVIOUS
  <2>1. Place(s, before, f[q]) < Place(s, before, f[p])
    BY <1>1, PlacesAreFilled
  <2> QED BY <1>1, <2>1
<1> QED BY <1>2, <1>3, <1>4, <1>5, <1>6 DEF IsSortOf

-----------------------------------------------------------------------------
(* Numbers.                                                                *)

(* Every set of numbers has a least one, every bounded one a greatest. *)
LEMMA LeastNumber ==
  ASSUME NEW T \in SUBSET Nat, T # {}
  PROVE  \E x \in T : \A y \in T : x <= y
<1>1. \E x \in T : \A y \in T : ~(<<y, x>> \in OpToRel(<, Nat))
  BY NatLessThanWellFounded, WFMin
<1>2. \A x, y \in T : ~(<<y, x>> \in OpToRel(<, Nat)) => x <= y
  BY DEF OpToRel
<1> QED BY <1>1, <1>2

LEMMA GreatestNumber ==
  ASSUME NEW n \in Nat, NEW T \in SUBSET (0..n), T # {}
  PROVE  \E x \in T : \A y \in T : x >= y
<1> DEFINE gaps == {n - x : x \in T}
<1>1. gaps \in SUBSET Nat /\ gaps # {}
  <2>1. \A x \in T : n - x \in Nat
    OBVIOUS
  <2> QED BY <2>1
<1>2. PICK g \in gaps : \A h \in gaps : g <= h
  <2> HIDE DEF gaps
  <2> QED BY <1>1, LeastNumber
<1>3. PICK x \in T : g = n - x
  BY <1>2
<1>4. \A y \in T : n - x <= n - y
  BY <1>2, <1>3
<1> QED BY <1>3, <1>4

(* Hence induction, on a set. *)
LEMMA CountingUp ==
  ASSUME NEW n \in Nat, NEW T, 0 \in T, \A k \in 1..n : k - 1 \in T => k \in T
  PROVE  0..n \subseteq T
<1> DEFINE bad == {k \in 0..n : k \notin T}
<1> SUFFICES ASSUME bad # {} PROVE FALSE
  OBVIOUS
<1>1. PICK k \in bad : \A j \in bad : k <= j
  <2>1. bad \in SUBSET Nat
    OBVIOUS
  <2> HIDE DEF bad
  <2> QED BY <2>1, LeastNumber
<1>2. k \in 1..n /\ k - 1 \notin bad
  BY <1>1
<1> QED BY <1>1, <1>2

(* A loop over n things, whose body makes the next state of the last, runs. *)
LoopRuns(f, start, n, body) ==
  f[0] = start /\ \A k \in 1..n : f[k] = body[k][f[k - 1]]

LEMMA LoopExists ==
  ASSUME NEW S, NEW start \in S, NEW n \in Nat, NEW body \in [1..n -> [S -> S]]
  PROVE  \E f \in [0..n -> S] : LoopRuns(f, start, n, body)
<1> DEFINE T == {m \in 0..n : \E f \in [0..m -> S] : LoopRuns(f, start, m, body)}
<1>1. 0 \in T
  <2> DEFINE f == [k \in 0..0 |-> start]
  <2>1. f \in [0..0 -> S] /\ LoopRuns(f, start, 0, body)
    BY DEF LoopRuns
  <2> HIDE DEF f
  <2> QED BY <2>1
<1>2. ASSUME NEW m \in 1..n, m - 1 \in T PROVE m \in T
  <2>1. PICK f \in [0..(m - 1) -> S] : LoopRuns(f, start, m - 1, body)
    BY <1>2
  <2> DEFINE next == body[m][f[m - 1]]
             g == [k \in 0..m |-> IF k = m THEN next ELSE f[k]]
  <2>2. next \in S
    <3>1. m - 1 \in 0..(m - 1) /\ body[m] \in [S -> S]
      OBVIOUS
    <3> QED BY <3>1
  <2>3. g \in [0..m -> S]
    BY <2>2
  <2>4. ASSUME NEW k \in 1..m PROVE g[k] = body[k][g[k - 1]]
    <3>1. CASE k = m
      BY <3>1
    <3>2. CASE k # m
      <4>1. k \in 1..(m - 1) /\ k - 1 \in 0..m /\ k - 1 # m /\ k \in 0..m
        BY <3>2
      <4> QED BY <2>1, <3>2, <4>1 DEF LoopRuns
    <3> QED BY <3>1, <3>2
  <2>5. g[0] = start
    BY <2>1 DEF LoopRuns
  <2> HIDE DEF g
  <2>6. LoopRuns(g, start, m, body)
    BY <2>4, <2>5 DEF LoopRuns
  <2> QED BY <2>3, <2>6
<1>3. n \in T
  <2> HIDE DEF T
  <2>1. 0..n \subseteq T
    BY <1>1, <1>2, CountingUp
  <2> QED BY <2>1
<1> QED BY <1>3

(* A loop never leaves a set that its body does not leave. *)
LEMMA LoopStays ==
  ASSUME NEW S, NEW n \in Nat, NEW f, f[0] \in S, \A k \in 1..n : f[k - 1] \in S => f[k] \in S
  PROVE  \A k \in 0..n : f[k] \in S
<1> DEFINE T == {k \in 0..n : f[k] \in S}
<1>1. 0 \in T
  OBVIOUS
<1>2. ASSUME NEW k \in 1..n, k - 1 \in T PROVE k \in T
  BY <1>2
<1>3. 0..n \subseteq T
  <2> HIDE DEF T
  <2> QED BY <1>1, <1>2, CountingUp
<1> QED BY <1>3
==============================================================================
