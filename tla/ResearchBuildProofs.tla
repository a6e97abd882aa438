-------------------------- MODULE ResearchBuildProofs --------------------------
(***************************************************************************)
(* Research for any sources, any texts, any answers of the model, any bar  *)
(* and any cap: what is written is grounded, copies are believed, the best *)
(* copy stays, variety is kept, the cap spares the bar.                    *)
(*                                                                         *)
(* BuildInv says of each list what the step before it could make: a        *)
(* candidate is an item of the format, read from a document; a verified or *)
(* written fact is one of the candidates' that stand.  The properties      *)
(* follow from what the four loops of the build do to any list:            *)
(*                                                                         *)
(*  - the matcher's count never exceeds either text, so a score is a       *)
(*    percentage (MatchedIsBounded);                                       *)
(*  - what surrounds a passage does not change how it reads, so a copied   *)
(*    quote is found, whole, with its numbers (CopiedPassagesStand), and   *)
(*    a quote that is found is grounded (StandingIsGrounded);              *)
(*  - a copy gives way only to one that verified better                    *)
(*    (BestIsNotDropped);                                                  *)
(*  - the first round of the cap's tour visits every group once, before    *)
(*    any second visit (WhatIsWritten).                                    *)
(*                                                                         *)
(* Each loop is a recursive function.  That it is defined, and that what   *)
(* each turn keeps holds of its end, comes of the numbers of its turns     *)
(* having a least element (LoopExists and LoopStays of SharedLemmas).      *)
(***************************************************************************)
EXTENDS ResearchBuild, SharedLemmas, SequenceTheorems

-----------------------------------------------------------------------------
(* Lists of facts.                                                         *)

(* What the sorts and the loops need of a fact. *)
IsFact(f) ==
  /\ f.key \in Int /\ f.label \in Nat /\ f.score \in Int
  /\ IsFiniteSet(f.claim)

(* Min gives the least number of a set of positions. *)
LEMMA LeastOf ==
  ASSUME NEW n \in Nat, NEW T \in SUBSET (1..n), T # {}
  PROVE  Min(T) \in T /\ \A x \in T : Min(T) <= x
<1>1. T \in SUBSET Nat
  OBVIOUS
<1>2. \E x \in T : \A y \in T : x <= y
  BY <1>1, LeastNumber
<1> QED BY <1>2 DEF Min

(* By key, then by label. *)
Precedes(k, a, l, b) == k < l \/ (k = l /\ a < b)

(* What is not preceded by the first of two precedes the second. *)
LEMMA KeysCompare ==
  ASSUME NEW k \in Int, NEW a \in Int, NEW l \in Int, NEW b \in Int, NEW m \in Int, NEW c \in Int,
         Precedes(k, a, l, b), ~Precedes(k, a, m, c)
  PROVE  Precedes(m, c, l, b)
BY DEF Precedes

(* By key, then by label: an order a sort can follow. *)
LEMMA PlayOrderIsAnOrder ==
  ASSUME NEW S, \A f \in S : IsFact(f), NEW fs \in Seq(S)
  PROVE  IsOrder(PlayOrder(fs), Len(fs))
<1> DEFINE n == Len(fs)
           before == PlayOrder(fs)
<1>1. n \in Nat /\ DOMAIN fs = 1..n /\ \A i \in 1..n : IsFact(fs[i])
  BY ElementOfSeq
<1>2. \A i \in 1..n : fs[i].key \in Int /\ fs[i].label \in Int
  BY <1>1 DEF IsFact
<1>3. before \in [1..n -> SUBSET (1..n)]
  BY <1>1 DEF PlayOrder
<1>4. \A i, j \in 1..n : j \in before[i] <=>
        fs[i].key < fs[j].key \/ (fs[i].key = fs[j].key /\ fs[i].label < fs[j].label)
  BY <1>1 DEF PlayOrder
<1> HIDE DEF n, before
<1>5. \A i, j \in 1..n : j \in before[i] => i \notin before[j]
  BY <1>2, <1>4
<1>6. ASSUME NEW i \in 1..n, NEW j \in 1..n, NEW k \in 1..n, j \in before[i], k \notin before[i]
      PROVE  j \in before[k]
  <2>1. /\ fs[i].key \in Int /\ fs[j].key \in Int /\ fs[k].key \in Int
        /\ fs[i].label \in Int /\ fs[j].label \in Int /\ fs[k].label \in Int
    BY <1>2
  <2>2. Precedes(fs[i].key, fs[i].label, fs[j].key, fs[j].label)
    BY <1>4, <1>6 DEF Precedes
  <2>3. ~Precedes(fs[i].key, fs[i].label, fs[k].key, fs[k].label)
    BY <1>4, <1>6 DEF Precedes
  <2>4. Precedes(fs[k].key, fs[k].label, fs[j].key, fs[j].label)
    BY <2>1, <2>2, <2>3, KeysCompare
  <2> QED BY <1>4, <2>4 DEF Precedes
<1> QED BY <1>3, <1>5, <1>6 DEF IsOrder, n, before

(* A sort of a list of facts is a list of facts, as long as it was. *)
LEMMA SortKeepsTheFacts ==
  ASSUME NEW S, NEW fs \in Seq(S), NEW before, IsOrder(before, Len(fs))
  PROVE  /\ StableSort(fs, before) \in Seq(S)
         /\ Len(StableSort(fs, before)) = Len(fs)
         /\ IsSortOf(StableSort(fs, before), fs, before, Len(fs))
<1> DEFINE n == Len(fs)
           t == StableSort(fs, before)
<1>1. n \in Nat /\ DOMAIN fs = 1..n /\ \A i \in 1..n : fs[i] \in S
  BY ElementOfSeq
<1>2. IsSortOf(t, fs, before, n)
  BY <1>1, SortOrders
<1>3. PICK f \in [1..n -> 1..n] : t = [p \in 1..n |-> fs[f[p]]]
  BY <1>2 DEF IsSortOf
<1>4. t \in [1..n -> S]
  BY <1>1, <1>3
<1> HIDE DEF t, n
<1>5. t \in Seq(S) /\ Len(t) = n
  BY <1>1, <1>4, IsASeq
<1> QED BY <1>2, <1>5 DEF t, n

-----------------------------------------------------------------------------
(* De-duplication.                                                         *)

(* Who duplicates whom does not depend on the order they are met in. *)
LEMMA DuplicatesAreMutual ==
  ASSUME NEW a, NEW b
  PROVE  IsDuplicate(a, b) <=> IsDuplicate(b, a)
<1>1. a.claim \cap b.claim = b.claim \cap a.claim
  OBVIOUS
<1>2. {Cardinality(a.claim), Cardinality(b.claim)} = {Cardinality(b.claim), Cardinality(a.claim)}
  OBVIOUS
<1> QED BY <1>1, <1>2 DEF IsDuplicate

(* What one turn of the loop does. *)
LEMMA Keeping ==
  ASSUME NEW S, \A f \in S : IsFact(f), NEW kept \in Seq(S), NEW f \in S
  PROVE  /\ Keep(kept, f) \in Seq(S)
         /\ \/ /\ \A i \in DOMAIN kept : ~IsDuplicate(kept[i], f)
               /\ Keep(kept, f) = Append(kept, f)
            \/ \E i \in DOMAIN kept :
                 /\ IsDuplicate(kept[i], f) /\ f.score > kept[i].score
                 /\ Keep(kept, f) = [kept EXCEPT ![i] = f]
            \/ /\ Keep(kept, f) = kept
               /\ \E i \in DOMAIN kept : IsDuplicate(kept[i], f) /\ f.score <= kept[i].score
<1> DEFINE copies == {i \in DOMAIN kept : IsDuplicate(kept[i], f)}
           first == Min(copies)
<1>1. Len(kept) \in Nat /\ DOMAIN kept = 1..Len(kept)
  BY ElementOfSeq
<1>2. CASE copies = {}
  <2>1. Keep(kept, f) = Append(kept, f)
    BY <1>2 DEF Keep
  <2> QED BY <1>2, <2>1
<1>3. CASE copies # {}
  <2>1. first \in copies
    BY <1>1, <1>3, LeastOf
  <2>2. kept[first] \in S /\ kept[first].score \in Int /\ f.score \in Int
    BY <1>1, <2>1 DEF IsFact
  <2>3. CASE f.score > kept[first].score
    <3>1. Keep(kept, f) = [kept EXCEPT ![first] = f]
      BY <1>3, <2>3 DEF Keep
    <3>2. [kept EXCEPT ![first] = f] \in Seq(S)
      BY <2>1, <1>1, ExceptSeq
    <3> QED BY <2>1, <2>3, <3>1, <3>2
  <2>4. CASE ~(f.score > kept[first].score)
    <3>1. Keep(kept, f) = kept
      BY <1>3, <2>4 DEF Keep
    <3> QED BY <2>1, <2>2, <2>4, <3>1
  <2> QED BY <2>3, <2>4
<1> QED BY <1>2, <1>3

(* The loop runs, and keeps nothing it has not seen. *)
LEMMA KeptRuns ==
  ASSUME NEW S, \A f \in S : IsFact(f), NEW fs \in Seq(S)
  PROVE  /\ KeptOf(fs) \in [0..Len(fs) -> Seq(S)]
         /\ KeptOf(fs)[0] = <<>>
         /\ \A k \in 1..Len(fs) : KeptOf(fs)[k] = Keep(KeptOf(fs)[k - 1], fs[k])
<1> DEFINE n == Len(fs)
           body == [k \in 1..n |-> [kept \in Seq(S) |-> Keep(kept, fs[k])]]
<1>1. n \in Nat /\ \A k \in 1..n : fs[k] \in S
  BY ElementOfSeq
<1>2. body \in [1..n -> [Seq(S) -> Seq(S)]]
  <2>1. \A k \in 1..n : [kept \in Seq(S) |-> Keep(kept, fs[k])] \in [Seq(S) -> Seq(S)]
    BY <1>1, Keeping
  <2> QED BY <2>1
<1>3. <<>> \in Seq(S)
  OBVIOUS
<1>4. PICK f \in [0..n -> Seq(S)] : LoopRuns(f, <<>>, n, body)
  <2> HIDE DEF body, n
  <2> QED BY <1>1, <1>2, <1>3, LoopExists
<1>5. \A k \in 1..n : f[k] = Keep(f[k - 1], fs[k])
  <2>1. \A k \in 1..n : f[k - 1] \in Seq(S)
    BY <1>1, <1>4
  <2> QED BY <1>4, <2>1 DEF LoopRuns
<1>6. f = [k \in 0..n |-> IF k = 0 THEN <<>> ELSE Keep(f[k - 1], fs[k])]
  BY <1>4, <1>5 DEF LoopRuns
<1> DEFINE kept == KeptOf(fs)
<1>7. kept = [k \in 0..n |-> IF k = 0 THEN <<>> ELSE Keep(kept[k - 1], fs[k])]
  BY <1>6 DEF KeptOf
<1> HIDE DEF kept
<1>8. kept[0] = <<>> /\ \A k \in 1..n : kept[k] = Keep(kept[k - 1], fs[k])
  BY <1>1, <1>7
<1>9. \A k \in 0..n : kept[k] \in Seq(S)
  <2> DEFINE T == {k \in 0..n : kept[k] \in Seq(S)}
  <2>1. 0 \in T
    <3>1. 0 \in 0..n
      BY <1>1
    <3>2. kept[0] \in Seq(S)
      BY <1>3, <1>8
    <3> QED BY <3>1, <3>2
  <2>2. ASSUME NEW k \in 1..n, k - 1 \in T PROVE k \in T
    <3>1. k \in 0..n /\ kept[k - 1] \in Seq(S) /\ fs[k] \in S
      BY <1>1, <2>2
    <3>2. Keep(kept[k - 1], fs[k]) \in Seq(S)
      BY <3>1, Keeping
    <3> QED BY <1>8, <3>1, <3>2
  <2>3. 0..n \subseteq T
    <3> HIDE DEF T, n
    <3> QED BY <1>1, <2>1, <2>2, CountingUp
  <2> QED BY <2>3
<1>10. kept \in [0..n -> Seq(S)]
  BY <1>7, <1>9
<1> QED BY <1>8, <1>10 DEF kept

(* The best of its copies stays from its turn on: it takes the place of one *)
(* that came before it, and none that comes later takes its own.           *)
LEMMA TheBestIsKept ==
  ASSUME NEW S, \A f \in S : IsFact(f), NEW fs \in Seq(S), NEW p \in 1..Len(fs),
         \A q \in 1..Len(fs) : q # p /\ IsDuplicate(fs[p], fs[q]) => fs[q].score < fs[p].score
  PROVE  fs[p] \in Range(KeptOf(fs)[Len(fs)])
<1> DEFINE n == Len(fs)
           kept == KeptOf(fs)
           Holds(k) == /\ \A x \in DOMAIN kept[k] : \E i \in 1..k : kept[k][x] = fs[i]
                       /\ k >= p => \E x \in DOMAIN kept[k] : kept[k][x] = fs[p]
           T == {k \in 0..n : Holds(k)}
<1>1. /\ n \in Nat /\ p \in 1..n
      /\ \A k \in 1..n : fs[k] \in S /\ fs[k].score \in Int
      /\ \A k \in 0..n : kept[k] \in Seq(S)
      /\ kept[0] = <<>>
      /\ \A k \in 1..n : kept[k] = Keep(kept[k - 1], fs[k])
      /\ \A q \in 1..n : q # p /\ IsDuplicate(fs[p], fs[q]) => fs[q].score < fs[p].score
  <2>1. n \in Nat /\ p \in 1..n
    BY LenProperties
  <2>2. ASSUME NEW k \in 1..n PROVE fs[k] \in S /\ fs[k].score \in Int
    <3>1. fs[k] \in S
      BY <2>2, ElementOfSeq
    <3> QED BY <3>1 DEF IsFact
  <2>3. kept \in [0..n -> Seq(S)] /\ kept[0] = <<>>
        /\ \A k \in 1..n : kept[k] = Keep(kept[k - 1], fs[k])
    BY KeptRuns
  <2>4. \A q \in 1..n : q # p /\ IsDuplicate(fs[p], fs[q]) => fs[q].score < fs[p].score
    OBVIOUS
  <2> HIDE DEF kept, n
  <2>5. \A k \in 0..n : kept[k] \in Seq(S)
    BY <2>3
  <2> QED BY <2>1, <2>2, <2>3, <2>4, <2>5
<1> HIDE DEF n, kept
<1>2. 0 \in T
  BY <1>1
<1>3. ASSUME NEW k \in 1..n, k - 1 \in T PROVE k \in T
  <2> DEFINE old == kept[k - 1]
             new == kept[k]
  <2>1. /\ old \in Seq(S) /\ Len(old) \in Nat /\ DOMAIN old = 1..Len(old)
        /\ new = Keep(old, fs[k]) /\ fs[k] \in S /\ k - 1 \in 0..n /\ k \in 0..n
    BY <1>1, LenProperties
  <2>2. \A x \in DOMAIN old : \E i \in 1..(k - 1) : old[x] = fs[i]
    BY <1>3
  <2>3. k - 1 >= p => \E x \in DOMAIN old : old[x] = fs[p]
    BY <1>3
  <2>4. Holds(k) <=> /\ \A x \in DOMAIN new : \E i \in 1..k : new[x] = fs[i]
                     /\ k >= p => \E x \in DOMAIN new : new[x] = fs[p]
    OBVIOUS
  <2> HIDE DEF old, new, T, Holds
  <2>5. ASSUME \A i \in DOMAIN old : ~IsDuplicate(old[i], fs[k]),
               new = Append(old, fs[k])
        PROVE  Holds(k)
    <3>1. /\ Len(new) = Len(old) + 1 /\ DOMAIN new = 1..(Len(old) + 1)
          /\ new[Len(old) + 1] = fs[k]
          /\ \A x \in 1..Len(old) : new[x] = old[x]
      BY <2>1, <2>5, AppendProperties
    <3>2. ASSUME NEW x \in DOMAIN new PROVE \E i \in 1..k : new[x] = fs[i]
      <4>1. CASE x = Len(old) + 1
        BY <3>1, <4>1
      <4>2. CASE x # Len(old) + 1
        <5>1. x \in 1..Len(old)
          BY <2>1, <3>1, <4>2
        <5>2. PICK i \in 1..(k - 1) : old[x] = fs[i]
          BY <2>1, <2>2, <5>1
        <5>3. i \in 1..k /\ new[x] = fs[i]
          BY <3>1, <5>1, <5>2
        <5> QED BY <5>3
      <4> QED BY <4>1, <4>2
    <3>3. k >= p => \E x \in DOMAIN new : new[x] = fs[p]
      <4>1. CASE k = p
        BY <2>1, <3>1, <4>1
      <4>2. CASE k - 1 >= p
        BY <2>1, <2>3, <3>1, <4>2
      <4> QED BY <1>1, <4>1, <4>2
    <3> QED BY <2>4, <3>2, <3>3
  <2>6. ASSUME NEW i \in DOMAIN old, IsDuplicate(old[i], fs[k]), fs[k].score > old[i].score,
               new = [old EXCEPT ![i] = fs[k]]
        PROVE  Holds(k)
    <3>1. DOMAIN new = DOMAIN old /\ new[i] = fs[k] /\ \A x \in DOMAIN old \ {i} : new[x] = old[x]
      BY <2>6
    <3>2. \A x \in DOMAIN new : \E j \in 1..k : new[x] = fs[j]
      BY <2>1, <2>2, <3>1
    <3>3. ASSUME k - 1 >= p PROVE old[i] # fs[p]
      <4> SUFFICES ASSUME old[i] = fs[p] PROVE FALSE
        OBVIOUS
      <4>1. k # p
        BY <1>1, <3>3
      <4>2. fs[k].score < fs[p].score
        BY <1>1, <2>6, <4>1
      <4>3. fs[k].score \in Int /\ fs[p].score \in Int /\ fs[k].score > fs[p].score
        BY <1>1, <2>6
      <4> QED BY <4>2, <4>3
    <3>4. k >= p => \E x \in DOMAIN new : new[x] = fs[p]
      BY <1>1, <2>3, <2>6, <3>1, <3>3
    <3> QED BY <2>4, <3>2, <3>4
  <2>7. ASSUME new = old,
               NEW i \in DOMAIN old, IsDuplicate(old[i], fs[k]), fs[k].score <= old[i].score
        PROVE  Holds(k)
    <3>1. \A x \in DOMAIN new : \E j \in 1..k : new[x] = fs[j]
      BY <2>2, <2>7
    <3>2. k # p
      <4>1. PICK j \in 1..(k - 1) : old[i] = fs[j]
        BY <2>2
      <4>2. IsDuplicate(fs[k], fs[j]) /\ j # k /\ j \in 1..n
        BY <1>1, <2>7, <4>1, DuplicatesAreMutual
      <4>3. /\ fs[k].score \in Int /\ fs[j].score \in Int
            /\ fs[k].score <= fs[j].score
        BY <1>1, <2>7, <4>1, <4>2
      <4> SUFFICES ASSUME k = p PROVE FALSE
        OBVIOUS
      <4>4. fs[j].score < fs[k].score
        BY <1>1, <4>2
      <4> QED BY <4>3, <4>4
    <3> QED BY <1>1, <2>3, <2>4, <2>7, <3>1, <3>2
  <2>8. Holds(k)
    BY <2>1, <2>5, <2>6, <2>7, Keeping
  <2> QED BY <2>1, <2>8 DEF T
<1>4. n \in T
  <2>1. 0..n \subseteq T
    <3> HIDE DEF T
    <3> QED BY <1>1, <1>2, <1>3, CountingUp
  <2> QED BY <1>1, <2>1
<1>5. \E x \in DOMAIN kept[n] : kept[n][x] = fs[p]
  BY <1>1, <1>4
<1> QED BY <1>5 DEF n, kept, Range

(* The copy that verified best of all is among the kept, in any order. *)
LEMMA BestIsNotDropped ==
  ASSUME NEW S, \A f \in S : IsFact(f), NEW fs \in Seq(S), NEW i \in DOMAIN fs,
         \A j \in DOMAIN fs : IsDuplicate(fs[i], fs[j]) /\ j # i => fs[j].score < fs[i].score
  PROVE  fs[i] \in Range(Deduplicated(fs))
<1> DEFINE n == Len(fs)
           t == StableSort(fs, PlayOrder(fs))
<1>1. n \in Nat /\ DOMAIN fs = 1..n
  BY LenProperties
<1>2. t \in Seq(S) /\ Len(t) = n /\ IsSortOf(t, fs, PlayOrder(fs), n)
  BY PlayOrderIsAnOrder, SortKeepsTheFacts
<1> HIDE DEF t, n
<1>3. PICK f \in [1..n -> 1..n] :
        /\ t = [p \in 1..n |-> fs[f[p]]]
        /\ \A p, q \in 1..n : f[p] = f[q] => p = q
        /\ \A k \in 1..n : \E p \in 1..n : f[p] = k
  BY <1>2 DEF IsSortOf
<1>4. PICK p \in 1..n : f[p] = i
  BY <1>1, <1>3
<1>5. \A q \in 1..n : q # p /\ IsDuplicate(t[p], t[q]) => t[q].score < t[p].score
  BY <1>1, <1>3, <1>4
<1>6. t[p] \in Range(KeptOf(t)[n])
  BY <1>2, <1>5, TheBestIsKept
<1>7. t[p] = fs[i] /\ Deduplicated(fs) = KeptOf(t)[n]
  BY <1>3, <1>4 DEF Deduplicated, t, n
<1> QED BY <1>6, <1>7

(* The de-duplication makes no facts up. *)
LEMMA DeduplicatedFacts ==
  ASSUME NEW S, \A f \in S : IsFact(f), NEW fs \in Seq(S)
  PROVE  Deduplicated(fs) \in Seq(S)
<1> DEFINE t == StableSort(fs, PlayOrder(fs))
<1>1. t \in Seq(S) /\ Len(t) = Len(fs) /\ Len(fs) \in Nat
  BY PlayOrderIsAnOrder, SortKeepsTheFacts, LenProperties
<1> HIDE DEF t
<1>2. KeptOf(t) \in [0..Len(fs) -> Seq(S)]
  BY <1>1, KeptRuns
<1>3. KeptOf(t)[Len(fs)] \in Seq(S)
  BY <1>1, <1>2
<1> QED BY <1>3 DEF Deduplicated, t

-----------------------------------------------------------------------------
(* The cap.                                                                *)

(* What is listed in n places is at most n things, and n if all differ. *)
LEMMA ListedThings ==
  ASSUME NEW n \in Nat, NEW T, NEW h \in [1..n -> T], \A x \in T : \E p \in 1..n : h[p] = x
  PROVE  /\ IsFiniteSet(T) /\ Cardinality(T) \in Nat /\ Cardinality(T) <= n
         /\ (\A p, q \in 1..n : h[p] = h[q] => p = q) => Cardinality(T) = n
<1>1. h \in Surjection(1..n, T)
  BY DEF Surjection
<1>2. IsFiniteSet(1..n) /\ Cardinality(1..n) = n
  BY FS_Interval
<1>3. /\ IsFiniteSet(T) /\ Cardinality(T) <= Cardinality(1..n)
      /\ Cardinality(T) = Cardinality(1..n) <=> h \in Injection(1..n, T)
  BY <1>1, <1>2, FS_Surjection
<1>4. (\A p, q \in 1..n : h[p] = h[q] => p = q) => h \in Injection(1..n, T)
  BY DEF Injection, IsInjective
<1> QED BY <1>2, <1>3, <1>4, FS_CardinalityType

(* A list has at most as many groups as facts. *)
LEMMA GroupsAreFew ==
  ASSUME NEW fs, NEW n \in Nat, DOMAIN fs = 1..n
  PROVE  Cardinality(Groups(fs)) \in Nat /\ Cardinality(Groups(fs)) <= n
<1> DEFINE h == [i \in 1..n |-> fs[i].group]
<1>1. h \in [1..n -> Groups(fs)] /\ \A x \in Groups(fs) : \E p \in 1..n : h[p] = x
  BY DEF Groups
<1> HIDE DEF h
<1> QED BY <1>1, ListedThings

(* A sort loses no group. *)
LEMMA SortKeepsGroups ==
  ASSUME NEW n \in Nat, NEW s, DOMAIN s = 1..n, NEW t, NEW before, IsSortOf(t, s, before, n)
  PROVE  Groups(t) = Groups(s)
<1>1. PICK f \in [1..n -> 1..n] :
        /\ t = [p \in 1..n |-> s[f[p]]]
        /\ \A i \in 1..n : \E p \in 1..n : f[p] = i
  BY DEF IsSortOf
<1>2. DOMAIN t = 1..n /\ \A p \in 1..n : t[p] = s[f[p]] /\ f[p] \in 1..n
  BY <1>1
<1>3. ASSUME NEW g \in Groups(s) PROVE g \in Groups(t)
  <2>1. PICK i \in 1..n : g = s[i].group
    BY <1>3 DEF Groups
  <2>2. PICK p \in 1..n : f[p] = i
    BY <1>1
  <2> QED BY <1>2, <2>1, <2>2 DEF Groups
<1>4. ASSUME NEW g \in Groups(t) PROVE g \in Groups(s)
  BY <1>2, <1>4 DEF Groups
<1> QED BY <1>3, <1>4

(* The facts of its group that verified better than the fact at i. *)
Ahead(fs, i) ==
  {j \in DOMAIN fs :
     fs[j].group = fs[i].group /\ (fs[j].score > fs[i].score \/ (fs[j].score = fs[i].score /\ j < i))}

(* The depth of a fact counts those of its group that are better placed. *)
LEMMA DepthsAreNumbers ==
  ASSUME NEW n \in Nat, NEW fs, DOMAIN fs = 1..n, NEW i \in 1..n
  PROVE  Depth(fs, i) \in Nat /\ (Depth(fs, i) = 0 <=> Ahead(fs, i) = {})
<1>1. Depth(fs, i) = Cardinality(Ahead(fs, i)) /\ Ahead(fs, i) \subseteq 1..n
  BY DEF Depth, Ahead
<1>2. IsFiniteSet(1..n)
  BY FS_Interval
<1>3. IsFiniteSet(Ahead(fs, i))
  BY <1>1, <1>2, FS_Subset
<1> QED BY <1>1, <1>3, FS_CardinalityType, FS_EmptySet

(* Every group has one fact that goes first, and one only. *)
LEMMA EveryGroupHasATop ==
  ASSUME NEW n \in Nat, NEW fs, DOMAIN fs = 1..n, \A i \in 1..n : fs[i].score \in Int
  PROVE  /\ \A g \in Groups(fs) : \E i \in 1..n : fs[i].group = g /\ Depth(fs, i) = 0
         /\ \A i, j \in 1..n : /\ fs[i].group = fs[j].group
                               /\ Depth(fs, i) = 0 /\ Depth(fs, j) = 0
                               => i = j
<1>1. ASSUME NEW i \in 1..n, NEW j \in 1..n, fs[i].group = fs[j].group,
             Depth(fs, i) = 0, Depth(fs, j) = 0
      PROVE  i = j
  <2>1. i \notin Ahead(fs, j) /\ j \notin Ahead(fs, i)
    BY <1>1, DepthsAreNumbers
  <2>2. fs[i].score \in Int /\ fs[j].score \in Int
    OBVIOUS
  <2> QED BY <1>1, <2>1, <2>2 DEF Ahead
<1>2. ASSUME NEW g \in Groups(fs) PROVE \E i \in 1..n : fs[i].group = g /\ Depth(fs, i) = 0
  <2> DEFINE Of == {i \in 1..n : fs[i].group = g}
             (* how many of the first k are beaten by none of the first k *)
             T == {k \in 0..n : (\E i \in Of : i <= k) =>
                     \E i \in Of : i <= k /\ \A j \in Of : j <= k => j \notin Ahead(fs, i)}
  <2>1. 0 \in T
    OBVIOUS
  <2>2. ASSUME NEW k \in 1..n, k - 1 \in T PROVE k \in T
    <3>1. CASE k \notin Of
      <4>1. \A i \in Of : i <= k <=> i <= k - 1
        BY <3>1
      <4> QED BY <2>2, <4>1
    <3>2. CASE k \in Of /\ ~\E i \in Of : i <= k - 1
      <4>1. \A j \in Of : j <= k => j = k
        BY <3>2
      <4>2. k \notin Ahead(fs, k)
        BY DEF Ahead
      <4> QED BY <3>2, <4>1, <4>2
    <3>3. CASE k \in Of /\ \E i \in Of : i <= k - 1
      <4>1. PICK i \in Of : i <= k - 1 /\ \A j \in Of : j <= k - 1 => j \notin Ahead(fs, i)
        BY <2>2, <3>3
      <4>2. \A j \in Of : fs[j].group = g /\ j \in 1..n /\ fs[j].score \in Int
        OBVIOUS
      <4>3. \A a, b \in Of : a \in Ahead(fs, b) <=>
              fs[a].score > fs[b].score \/ (fs[a].score = fs[b].score /\ a < b)
        BY DEF Ahead
      <4> HIDE DEF Of
      <4>4. CASE k \in Ahead(fs, i)
        <5>1. \A j \in Of : j <= k => j \notin Ahead(fs, k)
          BY <3>3, <4>1, <4>2, <4>3, <4>4
        <5>2. k \in Of /\ k <= k /\ k \in 0..n
          BY <3>3
        <5>3. \E x \in Of : x <= k /\ \A j \in Of : j <= k => j \notin Ahead(fs, x)
          BY <5>1, <5>2
        <5> QED BY <5>2, <5>3
      <4>5. CASE k \notin Ahead(fs, i)
        <5>1. \A j \in Of : j <= k => j \notin Ahead(fs, i)
          BY <4>1, <4>2, <4>5
        <5>2. \E x \in Of : x <= k /\ \A j \in Of : j <= k => j \notin Ahead(fs, x)
          BY <4>1, <4>2, <5>1
        <5>3. k \in 0..n
          OBVIOUS
        <5> QED BY <5>2, <5>3
      <4> QED BY <4>4, <4>5
    <3> QED BY <3>1, <3>2, <3>3
  <2>3. n \in T
    <3> HIDE DEF T
    <3>1. 0..n \subseteq T
      BY <2>1, <2>2, CountingUp
    <3> QED BY <3>1
  <2>4. PICK i \in Of : \A j \in Of : j \notin Ahead(fs, i)
    <3>1. \E i \in Of : i <= n
      BY DEF Groups
    <3>2. PICK i \in Of : i <= n /\ \A j \in Of : j <= n => j \notin Ahead(fs, i)
      <4> HIDE DEF Of
      <4> QED BY <2>3, <3>1
    <3>3. \A j \in Of : j <= n
      OBVIOUS
    <3> HIDE DEF Of, T
    <3> QED BY <3>2, <3>3
  <2>5. Ahead(fs, i) = {}
    <3>1. \A j \in Ahead(fs, i) : j \in Of
      BY DEF Ahead
    <3> QED BY <2>4, <3>1
  <2> QED BY <2>5, DepthsAreNumbers
<1> QED BY <1>1, <1>2

(* In the tour: by depth, by size of group, by its first fact. *)
Outranks(d, z, a, e, y, b) == d < e \/ (d = e /\ (z > y \/ (z = y /\ a < b)))

(* Who is not outranked by the better of two outranks the worse. *)
LEMMA RanksCompare ==
  ASSUME NEW d \in Nat, NEW z \in Nat, NEW a \in Nat,
         NEW e \in Nat, NEW y \in Nat, NEW b \in Nat,
         NEW f \in Nat, NEW x \in Nat, NEW c \in Nat,
         Outranks(d, z, a, e, y, b), ~Outranks(d, z, a, f, x, c)
  PROVE  Outranks(f, x, c, e, y, b)
BY DEF Outranks

(* The round robin visits every fact once: its order is one a sort can follow. *)
LEMMA TourIsAnOrder ==
  ASSUME NEW n \in Nat, NEW fs, DOMAIN fs = 1..n
  PROVE  IsOrder(Tour(fs), n)
<1> DEFINE before == Tour(fs)
           d == [i \in 1..n |-> Depth(fs, i)]
           z == [i \in 1..n |-> SizeOf(fs, fs[i].group)]
           a == [i \in 1..n |-> FirstOf(fs, fs[i].group)]
<1>1. \A i \in 1..n : d[i] \in Nat
  BY DepthsAreNumbers
<1>2. \A i \in 1..n : z[i] \in Nat
  <2> SUFFICES ASSUME NEW i \in 1..n PROVE SizeOf(fs, fs[i].group) \in Nat
    OBVIOUS
  <2> DEFINE T == {j \in DOMAIN fs : fs[j].group = fs[i].group}
  <2>1. T \subseteq 1..n /\ IsFiniteSet(1..n)
    BY FS_Interval
  <2>2. IsFiniteSet(T)
    BY <2>1, FS_Subset
  <2> HIDE DEF T
  <2>3. Cardinality(T) \in Nat
    BY <2>2, FS_CardinalityType
  <2> QED BY <2>3 DEF SizeOf, T
<1>3. \A i \in 1..n : a[i] \in Nat
  <2> SUFFICES ASSUME NEW i \in 1..n PROVE FirstOf(fs, fs[i].group) \in Nat
    OBVIOUS
  <2> DEFINE T == {j \in DOMAIN fs : fs[j].group = fs[i].group}
  <2>1. T \in SUBSET (1..n) /\ i \in T
    OBVIOUS
  <2> HIDE DEF T
  <2>2. Min(T) \in 1..n
    BY <2>1, LeastOf
  <2> QED BY <2>2 DEF FirstOf, T
<1>4. before \in [1..n -> SUBSET (1..n)]
  BY DEF Tour
<1>5. \A i, j \in 1..n : j \in before[i] <=>
        \/ d[i] < d[j]
        \/ d[i] = d[j] /\ (z[i] > z[j] \/ (z[i] = z[j] /\ a[i] < a[j]))
  BY DEF Tour, VisitedBefore
<1> HIDE DEF before, d, z, a
<1>6. ASSUME NEW i \in 1..n, NEW j \in 1..n, j \in before[i] PROVE i \notin before[j]
  <2>1. /\ d[i] \in Nat /\ z[i] \in Nat /\ a[i] \in Nat
        /\ d[j] \in Nat /\ z[j] \in Nat /\ a[j] \in Nat
    BY <1>1, <1>2, <1>3
  <2>2. Outranks(d[i], z[i], a[i], d[j], z[j], a[j])
    BY <1>5, <1>6 DEF Outranks
  <2>3. ~Outranks(d[j], z[j], a[j], d[i], z[i], a[i])
    BY <2>1, <2>2 DEF Outranks
  <2> QED BY <1>5, <2>3 DEF Outranks
<1>7. ASSUME NEW i \in 1..n, NEW j \in 1..n, NEW k \in 1..n, j \in before[i], k \notin before[i]
      PROVE  j \in before[k]
  <2>1. /\ d[i] \in Nat /\ z[i] \in Nat /\ a[i] \in Nat
        /\ d[j] \in Nat /\ z[j] \in Nat /\ a[j] \in Nat
        /\ d[k] \in Nat /\ z[k] \in Nat /\ a[k] \in Nat
    BY <1>1, <1>2, <1>3
  <2>2. Outranks(d[i], z[i], a[i], d[j], z[j], a[j])
    BY <1>5, <1>7 DEF Outranks
  <2>3. ~Outranks(d[i], z[i], a[i], d[k], z[k], a[k])
    BY <1>5, <1>7 DEF Outranks
  <2>4. Outranks(d[k], z[k], a[k], d[j], z[j], a[j])
    BY <2>1, <2>2, <2>3, RanksCompare
  <2> QED BY <1>5, <2>4 DEF Outranks
<1> QED BY <1>4, <1>6, <1>7 DEF IsOrder, before

(* The tour shows one fact of every group before it shows a second of any. *)
LEMMA TheTourSpreads ==
  ASSUME NEW n \in Nat, NEW fs, DOMAIN fs = 1..n, \A i \in 1..n : fs[i].score \in Int,
         NEW t, IsSortOf(t, fs, Tour(fs), n)
  PROVE  \E c \in 0..n :
           /\ Cardinality(Groups(fs)) = c
           /\ \A p, q \in 1..c : t[p].group = t[q].group => p = q
           /\ \A g \in Groups(fs) : \E p \in 1..c : t[p].group = g
<1>1. PICK f \in [1..n -> 1..n] :
        /\ t = [p \in 1..n |-> fs[f[p]]]
        /\ \A p, q \in 1..n : f[p] = f[q] => p = q
        /\ \A i \in 1..n : \E p \in 1..n : f[p] = i
        /\ \A p, q \in 1..n : p < q => f[p] \notin Tour(fs)[f[q]]
  BY DEF IsSortOf
<1>2. \A p \in 1..n : f[p] \in 1..n /\ t[p] = fs[f[p]] /\ Depth(fs, f[p]) \in Nat
  BY <1>1, DepthsAreNumbers
<1>3. \A p, q \in 1..n : p < q => Depth(fs, f[p]) <= Depth(fs, f[q])
  <2> SUFFICES ASSUME NEW p \in 1..n, NEW q \in 1..n, p < q
               PROVE  Depth(fs, f[p]) <= Depth(fs, f[q])
    OBVIOUS
  <2>1. f[p] \notin Tour(fs)[f[q]] /\ f[p] \in 1..n /\ f[q] \in 1..n
    BY <1>1
  <2>2. ~(Depth(fs, f[q]) < Depth(fs, f[p]))
    BY <2>1 DEF Tour
  <2> QED BY <1>2, <2>2
<1> DEFINE Top == {p \in 1..n : Depth(fs, f[p]) = 0}
<1>4. PICK c \in 0..n : \A p \in 1..n : p \in Top <=> p <= c
  <2>1. CASE Top = {}
    <3> HIDE DEF Top
    <3>1. \A p \in 1..n : p \in Top <=> p <= 0
      BY <2>1
    <3>2. 0 \in 0..n
      OBVIOUS
    <3> QED BY <3>1, <3>2
  <2>2. CASE Top # {}
    <3>1. PICK c \in Top : \A p \in Top : c >= p
      <4>1. Top \in SUBSET (0..n)
        OBVIOUS
      <4> HIDE DEF Top
      <4> QED BY <2>2, <4>1, GreatestNumber
    <3>2. ASSUME NEW p \in 1..n, p <= c PROVE p \in Top
      <4>1. CASE p = c
        BY <3>1, <4>1
      <4>2. CASE p < c
        <5>1. c \in 1..n /\ Depth(fs, f[c]) = 0
          BY <3>1
        <5>2. Depth(fs, f[p]) <= Depth(fs, f[c])
          BY <1>3, <4>2, <5>1
        <5>3. Depth(fs, f[p]) \in Nat
          BY <1>2
        <5>4. Depth(fs, f[p]) = 0
          BY <5>1, <5>2, <5>3
        <5> QED BY <5>4
      <4> QED BY <3>1, <3>2, <4>1, <4>2
    <3>3. c \in 0..n
      BY <3>1
    <3> HIDE DEF Top
    <3>4. \A p \in 1..n : p \in Top <=> p <= c
      BY <3>1, <3>2
    <3> QED BY <3>3, <3>4
  <2> QED BY <2>1, <2>2
<1>5. \A p, q \in 1..c : t[p].group = t[q].group => p = q
  <2> SUFFICES ASSUME NEW p \in 1..c, NEW q \in 1..c, t[p].group = t[q].group
               PROVE  p = q
    OBVIOUS
  <2>1. p \in 1..n /\ q \in 1..n /\ p \in Top /\ q \in Top
    <3> HIDE DEF Top
    <3> QED BY <1>4
  <2>2. /\ Depth(fs, f[p]) = 0 /\ f[p] \in 1..n /\ t[p] = fs[f[p]]
        /\ Depth(fs, f[q]) = 0 /\ f[q] \in 1..n /\ t[q] = fs[f[q]]
    BY <1>2, <2>1
  <2>3. fs[f[p]].group = fs[f[q]].group
    BY <2>2
  <2>4. \A i, j \in 1..n : /\ fs[i].group = fs[j].group
                           /\ Depth(fs, i) = 0 /\ Depth(fs, j) = 0
                           => i = j
    BY EveryGroupHasATop
  <2>5. f[p] = f[q]
    BY <2>2, <2>3, <2>4
  <2> QED BY <1>1, <2>1, <2>5
<1>6. \A g \in Groups(fs) : \E p \in 1..c : t[p].group = g
  <2> SUFFICES ASSUME NEW g \in Groups(fs) PROVE \E p \in 1..c : t[p].group = g
    OBVIOUS
  <2>1. PICK i \in 1..n : fs[i].group = g /\ Depth(fs, i) = 0
    BY EveryGroupHasATop
  <2>2. PICK p \in 1..n : f[p] = i
    BY <1>1
  <2>3. p \in 1..c
    BY <1>4, <2>1, <2>2
  <2> QED BY <1>2, <2>1, <2>2, <2>3
<1>7. Cardinality(Groups(fs)) = c
  <2> DEFINE h == [p \in 1..c |-> t[p].group]
  <2>1. ASSUME NEW p \in 1..c PROVE t[p].group \in Groups(fs)
    <3>1. p \in 1..n
      OBVIOUS
    <3>2. f[p] \in DOMAIN fs /\ t[p] = fs[f[p]]
      BY <1>2, <3>1
    <3> QED BY <3>2 DEF Groups
  <2>2. /\ h \in [1..c -> Groups(fs)]
        /\ \A x \in Groups(fs) : \E p \in 1..c : h[p] = x
        /\ \A p, q \in 1..c : h[p] = h[q] => p = q
    BY <1>5, <1>6, <2>1
  <2>3. c \in Nat
    OBVIOUS
  <2> HIDE DEF h
  <2> QED BY <2>2, <2>3, ListedThings
<1> QED BY <1>5, <1>6, <1>7

(* What the cap leaves: as much as fits, and of every group that fits. *)
LEMMA CapKeepsVariety ==
  ASSUME NEW S, \A f \in S : IsFact(f), NEW fs \in Seq(S), NEW limit \in Nat \ {0}
  PROVE  /\ Cap(fs, limit) \in Seq(S)
         /\ Len(Cap(fs, limit)) = IF Len(fs) <= limit THEN Len(fs) ELSE limit
         /\ Cardinality(Groups(Cap(fs, limit))) = Min({limit, Cardinality(Groups(fs))})
<1> DEFINE n == Len(fs)
           m == Cardinality(Groups(fs))
<1>1. /\ n \in Nat /\ DOMAIN fs = 1..n
      /\ \A i \in 1..n : fs[i] \in S /\ fs[i].score \in Int
  BY ElementOfSeq DEF IsFact
<1>2. m \in Nat /\ m <= n
  <2> HIDE DEF n
  <2> QED BY <1>1, GroupsAreFew
<1>3. Min({limit, m}) = IF m <= limit THEN m ELSE limit
  <2> HIDE DEF m
  <2>1. {limit, m} \in SUBSET Nat
    BY <1>2
  <2>2. Min({limit, m}) \in {limit, m} /\ Min({limit, m}) <= limit /\ Min({limit, m}) <= m
    <3>1. \E x \in {limit, m} : \A y \in {limit, m} : x <= y
      BY <1>2
    <3> QED BY <3>1 DEF Min
  <2> QED BY <1>2, <2>2
<1>4. CASE n <= limit
  <2>1. Cap(fs, limit) = fs
    BY <1>4 DEF Cap
  <2> QED BY <1>1, <1>2, <1>3, <1>4, <2>1
<1>5. CASE n > limit
  <2> DEFINE t == StableSort(fs, Tour(fs))
             kept == SubSeq(t, 1, limit)
             u == StableSort(kept, PlayOrder(kept))
  <2>1. t \in Seq(S) /\ Len(t) = n /\ IsSortOf(t, fs, Tour(fs), n)
    BY <1>1, TourIsAnOrder, SortKeepsTheFacts
  <2>2. Cap(fs, limit) = u
    BY <1>1, <1>5 DEF Cap
  <2> HIDE DEF t
  <2>3. \A i \in 1..n : t[i] \in S
    BY <2>1, ElementOfSeq
  <2>4. kept \in Seq(S) /\ Len(kept) = limit /\ \A i \in 1..limit : kept[i] = t[i]
    BY <1>1, <1>5, <2>3, SubSeqProperties
  <2>5. DOMAIN kept = 1..limit
    BY <2>4
  <2> HIDE DEF kept
  <2>6. u \in Seq(S) /\ Len(u) = limit /\ IsSortOf(u, kept, PlayOrder(kept), limit)
    BY <2>4, PlayOrderIsAnOrder, SortKeepsTheFacts
  <2>7. Groups(u) = Groups(kept)
    BY <2>5, <2>6, SortKeepsGroups
  <2>8. PICK c \in 0..n :
          /\ m = c
          /\ \A p, q \in 1..c : t[p].group = t[q].group => p = q
          /\ \A g \in Groups(fs) : \E p \in 1..c : t[p].group = g
    <3> HIDE DEF n
    <3>1. /\ n \in Nat /\ DOMAIN fs = 1..n /\ \A i \in 1..n : fs[i].score \in Int
          /\ IsSortOf(t, fs, Tour(fs), n)
      BY <1>1, <2>1
    <3>2. \E c \in 0..n :
            /\ Cardinality(Groups(fs)) = c
            /\ \A p, q \in 1..c : t[p].group = t[q].group => p = q
            /\ \A g \in Groups(fs) : \E p \in 1..c : t[p].group = g
      BY <3>1, TheTourSpreads
    <3> QED BY <3>2
  <2>9. Groups(kept) \subseteq Groups(fs)
    <3>1. Groups(t) = Groups(fs)
      <4> HIDE DEF n
      <4> QED BY <1>1, <2>1, SortKeepsGroups
    <3>2. \A i \in 1..limit : i \in DOMAIN t /\ kept[i] = t[i]
      BY <1>1, <1>5, <2>1, <2>4
    <3> QED BY <2>5, <3>1, <3>2 DEF Groups
  <2>10. CASE m <= limit
    <3>1. ASSUME NEW g \in Groups(fs) PROVE g \in Groups(kept)
      <4>1. PICK p \in 1..c : t[p].group = g
        BY <2>8
      <4>2. p \in 1..limit /\ kept[p] = t[p]
        BY <2>4, <2>8, <2>10
      <4> QED BY <2>5, <4>1, <4>2 DEF Groups
    <3>2. Groups(kept) = Groups(fs)
      BY <2>9, <3>1
    <3> QED BY <1>3, <1>5, <2>2, <2>6, <2>7, <2>10, <3>2
  <2>11. CASE m > limit
    <3> DEFINE h == [p \in 1..limit |-> kept[p].group]
    <3>1. /\ h \in [1..limit -> Groups(kept)]
          /\ \A x \in Groups(kept) : \E p \in 1..limit : h[p] = x
      BY <2>5 DEF Groups
    <3>2. \A p, q \in 1..limit : h[p] = h[q] => p = q
      BY <2>4, <2>8, <2>11
    <3> HIDE DEF h
    <3>3. Cardinality(Groups(kept)) = limit
      <4>1. limit \in Nat
        OBVIOUS
      <4>2. PICK G : G = Groups(kept)
        OBVIOUS
      <4>3. h \in [1..limit -> G] /\ \A x \in G : \E p \in 1..limit : h[p] = x
        BY <3>1, <4>2
      <4>4. Cardinality(G) = limit
        BY <3>2, <4>1, <4>3, ListedThings, ZenonT(30)
      <4> QED BY <4>2, <4>4
    <3> QED BY <1>2, <1>3, <1>5, <2>2, <2>6, <2>7, <2>11, <3>3
  <2> QED BY <1>2, <2>10, <2>11
<1> QED BY <1>1, <1>4, <1>5

-----------------------------------------------------------------------------
(* Evidence: counting what two texts share.                                *)

(* The lesser of two numbers. *)
LEMMA MinOfTwo ==
  ASSUME NEW a \in Int, NEW b \in Int
  PROVE  Min({a, b}) = IF a <= b THEN a ELSE b
<1>1. \E x \in {a, b} : \A y \in {a, b} : x <= y
  OBVIOUS
<1>2. Min({a, b}) \in {a, b} /\ Min({a, b}) <= a /\ Min({a, b}) <= b
  BY <1>1 DEF Min
<1> QED BY <1>2

(* The greater of two numbers. *)
LEMMA MaxOfTwo ==
  ASSUME NEW a \in Int, NEW b \in Int
  PROVE  Max({a, b}) = IF a >= b THEN a ELSE b
<1>1. \E x \in {a, b} : \A y \in {a, b} : x >= y
  OBVIOUS
<1>2. Max({a, b}) \in {a, b} /\ Max({a, b}) >= a /\ Max({a, b}) >= b
  BY <1>1 DEF Max
<1> QED BY <1>2

(* Of some blocks one is the longest, and of those the first. *)
LEMMA LongestIsABlock ==
  ASSUME NEW n \in Nat, NEW B \in SUBSET (Nat \X Nat \X (1..n)), B # {}
  PROVE  /\ Longest(B) \in B
         /\ \A o \in B :
              \/ o[3] < Longest(B)[3]
              \/ /\ o[3] = Longest(B)[3]
                 /\ Longest(B)[1] < o[1] \/ (Longest(B)[1] = o[1] /\ Longest(B)[2] <= o[2])
<1>0. \A k \in B : k[1] \in Nat /\ k[2] \in Nat /\ k[3] \in 1..n
  OBVIOUS
<1>1. PICK m \in {k[3] : k \in B} : \A x \in {k[3] : k \in B} : m >= x
  <2> DEFINE T == {k[3] : k \in B}
  <2>1. T \in SUBSET (0..n) /\ T # {}
    BY <1>0
  <2> HIDE DEF T
  <2>2. \E m \in T : \A x \in T : m >= x
    BY <2>1, GreatestNumber
  <2> QED BY <2>2 DEF T
<1> DEFINE C == {k \in B : k[3] = m}
<1>2. PICK i \in {k[1] : k \in C} : \A x \in {k[1] : k \in C} : i <= x
  <2> DEFINE T == {k[1] : k \in C}
  <2>1. T \in SUBSET Nat /\ T # {}
    BY <1>0, <1>1
  <2> HIDE DEF T
  <2>2. \E m1 \in T : \A x \in T : m1 <= x
    BY <2>1, LeastNumber
  <2> QED BY <2>2 DEF T
<1> DEFINE D == {k \in C : k[1] = i}
<1>3. PICK j \in {k[2] : k \in D} : \A x \in {k[2] : k \in D} : j <= x
  <2> DEFINE T == {k[2] : k \in D}
  <2>1. T \in SUBSET Nat /\ T # {}
    BY <1>0, <1>2
  <2> HIDE DEF T
  <2>2. \E m1 \in T : \A x \in T : m1 <= x
    BY <2>1, LeastNumber
  <2> QED BY <2>2 DEF T
<1>4. PICK k \in D : k[2] = j
  BY <1>3
<1>5. ASSUME NEW o \in B
      PROVE  \/ o[3] < k[3]
             \/ o[3] = k[3] /\ (k[1] < o[1] \/ (k[1] = o[1] /\ k[2] <= o[2]))
  <2>1. k \in B /\ k[3] = m /\ k[1] = i /\ k[2] = j
    BY <1>4
  <2>2. o[3] <= m
    BY <1>1
  <2>3. o[3] = m => i <= o[1]
    BY <1>2
  <2>4. o[3] = m /\ o[1] = i => j <= o[2]
    BY <1>3
  <2>5. /\ o[1] \in Nat /\ o[2] \in Nat /\ o[3] \in Nat
        /\ k[1] \in Nat /\ k[2] \in Nat /\ k[3] \in Nat
    BY <1>0, <2>1
  <2> QED BY <2>1, <2>2, <2>3, <2>4, <2>5
<1>6. k \in B
  BY <1>4
<1>7. \E x \in B : \A o \in B :
        \/ o[3] < x[3]
        \/ o[3] = x[3] /\ (x[1] < o[1] \/ (x[1] = o[1] /\ x[2] <= o[2]))
  BY <1>5, <1>6
<1> HIDE DEF C, D
<1> QED BY <1>7 DEF Longest

(* The block a region is split at, and what is left and right of it. *)
Left(r, k) == <<r[1], k[1] - 1, r[3], k[2] - 1>>
Right(r, k) == <<k[1] + k[3], r[2], k[2] + k[3], r[4]>>

(* What is left and right of a block has bounds a region may have. *)
LEMMA CutAround ==
  ASSUME NEW len \in Nat, NEW lo \in 1..len+1, NEW hi \in 0..len,
         NEW k \in lo..hi, NEW n \in Nat, 1 <= n, k + n - 1 <= hi
  PROVE  k - 1 \in 0..len /\ k + n \in 1..len+1
OBVIOUS

(* The longest block of a region splits it in two regions of the same texts. *)
LEMMA Splitting ==
  ASSUME NEW a, NEW b, Len(a) \in Nat, Len(b) \in Nat,
         NEW r \in Regions(a, b), Blocks(a, b, r) # {}
  PROVE  LET k == Longest(Blocks(a, b, r))
         IN  /\ k \in Blocks(a, b, r)
             /\ k[1] \in r[1]..r[2] /\ k[2] \in r[3]..r[4] /\ k[3] \in 1..Len(a)
             /\ k[1] + k[3] - 1 <= r[2] /\ k[2] + k[3] - 1 <= r[4]
             /\ Left(r, k) \in Regions(a, b)
             /\ Right(r, k) \in Regions(a, b)
<1> DEFINE B == Blocks(a, b, r)
           k == Longest(B)
<1>1. /\ r[1] \in 1..Len(a)+1 /\ r[2] \in 0..Len(a)
      /\ r[3] \in 1..Len(b)+1 /\ r[4] \in 0..Len(b)
  BY DEF Regions
<1>2. B \in SUBSET (Nat \X Nat \X (1..Len(a)))
  <2>1. r[1]..r[2] \subseteq Nat /\ r[3]..r[4] \subseteq Nat
    <3>1. ASSUME NEW lo \in 1..Len(a)+1, NEW hi \in 0..Len(a) PROVE lo..hi \subseteq Nat
      OBVIOUS
    <3>2. ASSUME NEW lo \in 1..Len(b)+1, NEW hi \in 0..Len(b) PROVE lo..hi \subseteq Nat
      OBVIOUS
    <3> QED BY <1>1, <3>1, <3>2
  <2>2. B \subseteq (r[1]..r[2]) \X (r[3]..r[4]) \X (1..Len(a))
    BY DEF Blocks
  <2> HIDE DEF B
  <2> QED BY <2>1, <2>2
<1>3. k \in B
  <2>1. B # {}
    OBVIOUS
  <2> HIDE DEF B
  <2> QED BY <1>2, <2>1, LongestIsABlock
<1>4. /\ k[1] \in r[1]..r[2] /\ k[2] \in r[3]..r[4] /\ k[3] \in 1..Len(a)
      /\ k[1] + k[3] - 1 <= r[2] /\ k[2] + k[3] - 1 <= r[4]
  <2> HIDE DEF k
  <2> QED BY <1>3 DEF Blocks
<1> HIDE DEF k, B
<1>5. Left(r, k) \in Regions(a, b)
  <2>1. k[3] \in Nat /\ 1 <= k[3]
    BY <1>4
  <2>2. k[1] - 1 \in 0..Len(a) /\ k[2] - 1 \in 0..Len(b)
    BY <1>1, <1>4, <2>1, CutAround
  <2> QED BY <1>1, <2>2 DEF Left, Regions
<1>6. Right(r, k) \in Regions(a, b)
  <2>1. k[3] \in Nat /\ 1 <= k[3]
    BY <1>4
  <2>2. k[1] + k[3] \in 1..Len(a)+1 /\ k[2] + k[3] \in 1..Len(b)+1
    BY <1>1, <1>4, <2>1, CutAround
  <2> QED BY <1>1, <2>2 DEF Right, Regions
<1> QED BY <1>3, <1>4, <1>5, <1>6 DEF k, B

(* How many words lie from lo to hi. *)
Width(lo, hi) == IF lo <= hi THEN hi - lo + 1 ELSE 0

(* Counts of shared words: no more of them than the region has on a side. *)
Counts(a, b) ==
  {m \in [Regions(a, b) -> Nat] :
     \A r \in Regions(a, b) : m[r] <= Width(r[1], r[2]) /\ m[r] <= Width(r[3], r[4])}

(* One cut of every region. *)
Cut(a, b, m) ==
  [r \in Regions(a, b) |->
     LET k == Longest(Blocks(a, b, r))
     IN IF Blocks(a, b, r) = {} THEN 0 ELSE k[3] + m[Left(r, k)] + m[Right(r, k)]]

(* A block, what is left of it and what is right of it make up the region. *)
LEMMA TwoSides ==
  ASSUME NEW len \in Nat, NEW lo \in 1..len+1, NEW hi \in 0..len,
         NEW k \in lo..hi, NEW n \in Nat, 1 <= n, k + n - 1 <= hi
  PROVE  n + Width(lo, k - 1) + Width(k + n, hi) = Width(lo, hi)
<1>1. k \in Int /\ lo \in Int /\ hi \in Int
  OBVIOUS
<1>2. Width(lo, k - 1) = k - lo
  BY <1>1 DEF Width
<1>3. Width(k + n, hi) = hi - k - n + 1
  BY <1>1 DEF Width
<1>4. Width(lo, hi) = hi - lo + 1
  BY <1>1 DEF Width
<1> QED BY <1>1, <1>2, <1>3, <1>4

(* A region has no negative width. *)
LEMMA WidthsAreNumbers ==
  ASSUME NEW lo \in Int, NEW hi \in Int
  PROVE  Width(lo, hi) \in Nat
BY DEF Width

(* Parts that are no greater than their shares stay within the whole. *)
LEMMA SumsStay ==
  ASSUME NEW n \in Nat, NEW x \in Nat, NEW y \in Nat, NEW v \in Nat, NEW w \in Nat, NEW t \in Nat,
         x <= v, y <= w, n + v + w = t
  PROVE  n + x + y <= t
OBVIOUS

(* A cut counts no more words than either side of the region has. *)
LEMMA CuttingCounts ==
  ASSUME NEW a, NEW b, Len(a) \in Nat, Len(b) \in Nat, NEW m \in Counts(a, b)
  PROVE  Cut(a, b, m) \in Counts(a, b)
<1> DEFINE c == Cut(a, b, m)
<1>1. ASSUME NEW r \in Regions(a, b)
      PROVE  c[r] \in Nat /\ c[r] <= Width(r[1], r[2]) /\ c[r] <= Width(r[3], r[4])
  <2>1. /\ r[1] \in 1..Len(a)+1 /\ r[2] \in 0..Len(a)
        /\ r[3] \in 1..Len(b)+1 /\ r[4] \in 0..Len(b)
    BY DEF Regions
  <2>2. Width(r[1], r[2]) \in Nat /\ Width(r[3], r[4]) \in Nat
    <3>1. r[1] \in Int /\ r[2] \in Int /\ r[3] \in Int /\ r[4] \in Int
      BY <2>1
    <3> QED BY <3>1, WidthsAreNumbers
  <2>3. CASE Blocks(a, b, r) = {}
    <3>1. c[r] = 0
      BY <2>3 DEF Cut
    <3> QED BY <2>2, <3>1
  <2>4. CASE Blocks(a, b, r) # {}
    <3> DEFINE k == Longest(Blocks(a, b, r))
               left == Left(r, k)
               right == Right(r, k)
    <3>1. c[r] = k[3] + m[left] + m[right]
      BY <2>4 DEF Cut
    <3>2. /\ k[1] \in r[1]..r[2] /\ k[2] \in r[3]..r[4] /\ k[3] \in 1..Len(a)
          /\ k[1] + k[3] - 1 <= r[2] /\ k[2] + k[3] - 1 <= r[4]
          /\ left \in Regions(a, b) /\ right \in Regions(a, b)
      BY <2>4, Splitting
    <3>3. /\ m[left] \in Nat /\ m[right] \in Nat
          /\ m[left] <= Width(left[1], left[2]) /\ m[left] <= Width(left[3], left[4])
          /\ m[right] <= Width(right[1], right[2]) /\ m[right] <= Width(right[3], right[4])
      <4> HIDE DEF left, right
      <4> QED BY <3>2 DEF Counts
    <3>4. /\ left[1] = r[1] /\ left[2] = k[1] - 1 /\ left[3] = r[3] /\ left[4] = k[2] - 1
          /\ right[1] = k[1] + k[3] /\ right[2] = r[2]
          /\ right[3] = k[2] + k[3] /\ right[4] = r[4]
      <4> HIDE DEF k
      <4> QED BY DEF Left, Right
    <3> HIDE DEF left, right, k, c
    <3>5. k[3] \in Nat /\ 1 <= k[3]
      BY <3>2
    <3>6. k[1] \in Int /\ k[2] \in Int
      BY <2>1, <3>2
    <3>7. /\ k[3] + Width(left[1], left[2]) + Width(right[1], right[2]) = Width(r[1], r[2])
          /\ Width(left[1], left[2]) \in Nat /\ Width(right[1], right[2]) \in Nat
      <4>1. k[3] + Width(r[1], k[1] - 1) + Width(k[1] + k[3], r[2]) = Width(r[1], r[2])
        <5>1. r[1] \in 1..Len(a)+1 /\ r[2] \in 0..Len(a) /\ k[1] \in r[1]..r[2]
          BY <2>1, <3>2
        <5>2. k[3] \in Nat /\ 1 <= k[3] /\ k[1] + k[3] - 1 <= r[2]
          BY <3>2, <3>5
        <5> QED BY <5>1, <5>2, TwoSides, ZenonT(30)
      <4>2. k[1] - 1 \in Int /\ k[1] + k[3] \in Int /\ r[1] \in Int /\ r[2] \in Int
        <5>1. r[1] \in Int /\ r[2] \in Int
          BY <2>1
        <5> QED BY <3>5, <3>6, <5>1
      <4>3. Width(r[1], k[1] - 1) \in Nat /\ Width(k[1] + k[3], r[2]) \in Nat
        BY <4>2, WidthsAreNumbers
      <4> QED BY <3>4, <4>1, <4>3
    <3>8. /\ k[3] + Width(left[3], left[4]) + Width(right[3], right[4]) = Width(r[3], r[4])
          /\ Width(left[3], left[4]) \in Nat /\ Width(right[3], right[4]) \in Nat
      <4>1. k[3] + Width(r[3], k[2] - 1) + Width(k[2] + k[3], r[4]) = Width(r[3], r[4])
        <5>1. r[3] \in 1..Len(b)+1 /\ r[4] \in 0..Len(b) /\ k[2] \in r[3]..r[4]
          BY <2>1, <3>2
        <5>2. k[3] \in Nat /\ 1 <= k[3] /\ k[2] + k[3] - 1 <= r[4]
          BY <3>2, <3>5
        <5> QED BY <5>1, <5>2, TwoSides, ZenonT(30)
      <4>2. k[2] - 1 \in Int /\ k[2] + k[3] \in Int /\ r[3] \in Int /\ r[4] \in Int
        <5>1. r[3] \in Int /\ r[4] \in Int
          BY <2>1
        <5> QED BY <3>5, <3>6, <5>1
      <4>3. Width(r[3], k[2] - 1) \in Nat /\ Width(k[2] + k[3], r[4]) \in Nat
        BY <4>2, WidthsAreNumbers
      <4> QED BY <3>4, <4>1, <4>3
    <3>9. k[3] + m[left] + m[right] <= Width(r[1], r[2])
      <4>1. /\ k[3] \in Nat /\ m[left] \in Nat /\ m[right] \in Nat
            /\ m[left] <= Width(left[1], left[2]) /\ m[right] <= Width(right[1], right[2])
        BY <3>3, <3>5
      <4> QED BY <2>2, <3>7, <4>1, SumsStay, SMTT(30)
    <3>10. k[3] + m[left] + m[right] <= Width(r[3], r[4])
      <4>1. /\ k[3] \in Nat /\ m[left] \in Nat /\ m[right] \in Nat
            /\ m[left] <= Width(left[3], left[4]) /\ m[right] <= Width(right[3], right[4])
        BY <3>3, <3>5
      <4> QED BY <2>2, <3>8, <4>1, SumsStay, SMTT(30)
    <3>11. k[3] + m[left] + m[right] \in Nat
      BY <3>3, <3>5
    <3> QED BY <3>1, <3>9, <3>10, <3>11
  <2> QED BY <2>3, <2>4
<1>2. c \in [Regions(a, b) -> Nat]
  <2>1. c = [r \in Regions(a, b) |-> c[r]]
    BY DEF Cut
  <2> HIDE DEF c
  <2> QED BY <1>1, <2>1
<1> HIDE DEF c
<1>3. c \in Counts(a, b)
  BY <1>1, <1>2 DEF Counts
<1> QED BY <1>3 DEF c

(* The count at every depth, and that each cuts the one before once more. *)
LEMMA MatchesRuns ==
  ASSUME NEW a, NEW b, Len(a) \in Nat, Len(b) \in Nat
  PROVE  /\ \A n \in 0..Len(a) : Matches(a, b)[n] \in Counts(a, b)
         /\ \A r \in Regions(a, b) : Matches(a, b)[0][r] = 0
         /\ \A n \in 1..Len(a) : Matches(a, b)[n] = Cut(a, b, Matches(a, b)[n - 1])
<1> DEFINE S == Counts(a, b)
           R == Regions(a, b)
           none == [r \in R |-> 0]
           n == Len(a)
           body == [k \in 1..n |-> [m \in S |-> Cut(a, b, m)]]
           Turn(f, k) == [r \in R |->
             LET x == Longest(Blocks(a, b, r))
             IN IF k = 0 \/ Blocks(a, b, r) = {} THEN 0
                ELSE x[3] + f[k - 1][<<r[1], x[1] - 1, r[3], x[2] - 1>>]
                          + f[k - 1][<<x[1] + x[3], r[2], x[2] + x[3], r[4]>>]]
<1>1. none \in S
  <2>1. none \in [R -> Nat]
    OBVIOUS
  <2>2. ASSUME NEW r \in R PROVE none[r] <= Width(r[1], r[2]) /\ none[r] <= Width(r[3], r[4])
    <3>1. /\ r[1] \in Int /\ r[2] \in Int /\ r[3] \in Int /\ r[4] \in Int
      BY DEF Regions
    <3>2. Width(r[1], r[2]) \in Nat /\ Width(r[3], r[4]) \in Nat
      BY <3>1, WidthsAreNumbers
    <3>3. none[r] = 0
      OBVIOUS
    <3> QED BY <3>2, <3>3
  <2> HIDE DEF none
  <2> QED BY <2>1, <2>2 DEF Counts
<1>2. body \in [1..n -> [S -> S]]
  <2>1. [m \in S |-> Cut(a, b, m)] \in [S -> S]
    BY CuttingCounts
  <2> QED BY <2>1
<1>3. \A f : Turn(f, 0) = none
  OBVIOUS
<1>4. \A f : \A k \in 1..n : Turn(f, k) = Cut(a, b, f[k - 1])
  <2> SUFFICES ASSUME NEW f, NEW k \in 1..n PROVE Turn(f, k) = Cut(a, b, f[k - 1])
    OBVIOUS
  <2>1. k # 0
    OBVIOUS
  <2> QED BY <2>1 DEF Cut, Left, Right
<1>5. PICK f \in [0..n -> S] : LoopRuns(f, none, n, body)
  <2>1. n \in Nat
    OBVIOUS
  <2> HIDE DEF body, S, none, Turn, n
  <2> QED BY <1>1, <1>2, <2>1, LoopExists
<1>6. \A k \in 1..n : f[k] = Cut(a, b, f[k - 1])
  <2> SUFFICES ASSUME NEW k \in 1..n PROVE f[k] = Cut(a, b, f[k - 1])
    OBVIOUS
  <2>1. k - 1 \in 0..n
    OBVIOUS
  <2>2. f[k - 1] \in S
    BY <1>5, <2>1
  <2> QED BY <1>5, <2>2 DEF LoopRuns
<1> DEFINE matches == Matches(a, b)
<1> HIDE DEF S, none, body
<1>7. \A k \in 0..n : f[k] = Turn(f, k)
  <2> HIDE DEF Turn
  <2> SUFFICES ASSUME NEW k \in 0..n PROVE f[k] = Turn(f, k)
    OBVIOUS
  <2>1. k = 0 \/ k \in 1..n
    OBVIOUS
  <2> QED BY <1>3, <1>4, <1>5, <1>6, <2>1 DEF LoopRuns
<1>8. f = [k \in 0..n |-> Turn(f, k)]
  <2> HIDE DEF Turn
  <2> QED BY <1>5, <1>7
<1>9. matches = [k \in 0..n |-> Turn(matches, k)]
  BY <1>8 DEF Matches
<1> HIDE DEF matches, Turn
<1>10. \A k \in 0..n : matches[k] = Turn(matches, k)
  BY <1>9
<1>11. matches[0] = none /\ \A k \in 1..n : matches[k] = Cut(a, b, matches[k - 1])
  <2>1. 0 \in 0..n /\ \A k \in 1..n : k \in 0..n
    OBVIOUS
  <2> QED BY <1>3, <1>4, <1>10, <2>1
<1>12. \A k \in 1..n : matches[k - 1] \in S => matches[k] \in S
  BY <1>11, CuttingCounts DEF S
<1>13. \A k \in 0..n : matches[k] \in S
  <2>1. matches[0] \in S /\ n \in Nat
    BY <1>1, <1>11
  <2> HIDE DEF n
  <2> QED BY <1>12, <2>1, LoopStays
<1>14. \A r \in R : matches[0][r] = 0
  BY <1>11 DEF none
<1> QED BY <1>11, <1>13, <1>14 DEF matches, S

(* The whole of two texts is a region of theirs. *)
LEMMA MatchedIsBounded ==
  ASSUME NEW a, NEW b, Len(a) \in Nat, Len(b) \in Nat
  PROVE  Matched(a, b) \in Nat /\ Matched(a, b) <= Len(a) /\ Matched(a, b) <= Len(b)
<1> DEFINE whole == <<1, Len(a), 1, Len(b)>>
           m == Matches(a, b)[Len(a)]
<1>1. whole \in Regions(a, b)
  BY DEF Regions
<1>2. m \in Counts(a, b)
  BY MatchesRuns
<1>3. Width(1, Len(a)) = Len(a) /\ Width(1, Len(b)) = Len(b)
  BY DEF Width
<1>4. m[whole] \in Nat /\ m[whole] <= Width(whole[1], whole[2]) /\ m[whole] <= Width(whole[3], whole[4])
  <2> HIDE DEF m, whole
  <2> QED BY <1>1, <1>2 DEF Counts
<1> QED BY <1>3, <1>4 DEF Matched

(* A hundred times a part, divided by the whole, is a percentage. *)
LEMMA Percentages ==
  ASSUME NEW x \in Nat, NEW y \in Nat, 1 <= y, x <= 100 * y
  PROVE  x \div y \in 0..100
<1>1. PICK q : q = x \div y
  OBVIOUS
<1>2. q \in Int /\ q * y <= x /\ x < q * y + y
  BY <1>1
<1>3. q <= 100
  <2> SUFFICES ASSUME q >= 101 PROVE FALSE
    BY <1>2
  <2>1. q * y >= 101 * y
    BY <1>2
  <2> QED BY <1>2, <2>1
<1>4. 0 <= q
  <2> SUFFICES ASSUME q <= -1 PROVE FALSE
    BY <1>2
  <2>1. (q + 1) * y <= 0
    BY <1>2
  <2> QED BY <1>2, <2>1
<1> QED BY <1>1, <1>2, <1>3, <1>4

(* The ratio of two texts is a percentage. *)
LEMMA RatioIsAPercentage ==
  ASSUME NEW a, NEW b, Len(a) \in Nat, Len(b) \in Nat, 1 <= Len(a)
  PROVE  Ratio(a, b) \in 0..100
<1>1. Matched(a, b) \in Nat /\ Matched(a, b) <= Len(a) /\ Matched(a, b) <= Len(b)
  BY MatchedIsBounded
<1> DEFINE x == 200 * Matched(a, b)
           y == Len(a) + Len(b)
<1>2. x \in Nat /\ y \in Nat /\ 1 <= y /\ x <= 100 * y
  BY <1>1
<1>3. x \div y \in 0..100
  <2> HIDE DEF x, y
  <2> QED BY <1>2, Percentages
<1> QED BY <1>3 DEF Ratio

(* A text matches itself in full: its longest block is all of it. *)
LEMMA TextsMatchThemselves ==
  ASSUME NEW a, Len(a) \in Nat, 1 <= Len(a)
  PROVE  Ratio(a, a) = 100
<1> DEFINE n == Len(a)
           whole == <<1, n, 1, n>>
           all == <<1, 1, n>>
           k == Longest(Blocks(a, a, whole))
           m == Matches(a, a)
<1>1. whole \in Regions(a, a)
  BY DEF Regions
<1>2. all \in Blocks(a, a, whole)
  <2>1. 1 \in 1..n /\ n \in 1..n /\ 1 + n - 1 <= n
    OBVIOUS
  <2> QED BY <2>1 DEF Blocks
<1>3. /\ k \in Blocks(a, a, whole)
      /\ k[1] \in whole[1]..whole[2] /\ k[2] \in whole[3]..whole[4] /\ k[3] \in 1..n
      /\ k[1] + k[3] - 1 <= whole[2] /\ k[2] + k[3] - 1 <= whole[4]
      /\ Left(whole, k) \in Regions(a, a) /\ Right(whole, k) \in Regions(a, a)
  <2> HIDE DEF whole, all
  <2> QED BY <1>1, <1>2, Splitting
<1>4. k[1] \in 1..n /\ k[2] \in 1..n /\ k[1] + k[3] - 1 <= n /\ k[2] + k[3] - 1 <= n
  <2> HIDE DEF k
  <2> QED BY <1>3
<1>5. n <= k[3]
  <2>1. \E x \in Blocks(a, a, whole) : \A o \in Blocks(a, a, whole) :
          \/ o[3] < x[3]
          \/ o[3] = x[3] /\ (x[1] < o[1] \/ (x[1] = o[1] /\ x[2] <= o[2]))
    <3>1. \A o \in Blocks(a, a, whole) :
            /\ o[1] \in 1..n /\ o[2] \in 1..n /\ o[3] \in 1..n
            /\ o[1] + o[3] - 1 <= n /\ o[2] + o[3] - 1 <= n
      BY DEF Blocks
    <3>2. \A o \in Blocks(a, a, whole) :
             \/ o[3] < all[3]
             \/ o[3] = all[3] /\ (all[1] < o[1] \/ (all[1] = o[1] /\ all[2] <= o[2]))
      BY <3>1
    <3> QED BY <1>2, <3>2
  <2>2. \A o \in Blocks(a, a, whole) :
          \/ o[3] < k[3]
          \/ o[3] = k[3] /\ (k[1] < o[1] \/ (k[1] = o[1] /\ k[2] <= o[2]))
    <3> HIDE DEF whole
    <3> QED BY <2>1 DEF Longest
  <2>3. all[3] < k[3] \/ all[3] = k[3]
    <3> HIDE DEF all, k, whole
    <3> QED BY <1>2, <2>2
  <2>4. all[3] = n /\ k[3] \in Nat
    <3> HIDE DEF k
    <3> QED BY <1>3
  <2> HIDE DEF all, k
  <2> QED BY <2>3, <2>4
<1>6. k[3] = n /\ k[1] = 1 /\ k[2] = 1
  <2> HIDE DEF k
  <2>1. k[3] = n
    BY <1>3, <1>5
  <2> QED BY <1>4, <2>1
<1>7. Left(whole, k) = <<1, 0, 1, 0>> /\ Right(whole, k) = <<n + 1, n, n + 1, n>>
  <2> HIDE DEF k
  <2> QED BY <1>6 DEF Left, Right
<1>8. Blocks(a, a, <<1, 0, 1, 0>>) = {} /\ Blocks(a, a, <<n + 1, n, n + 1, n>>) = {}
  <2>1. 1..0 = {} /\ (n + 1)..n = {}
    OBVIOUS
  <2> QED BY <2>1 DEF Blocks
<1>9. \A r \in Regions(a, a) : Blocks(a, a, r) = {} => m[n - 1][r] = 0
  <2> SUFFICES ASSUME NEW r \in Regions(a, a), Blocks(a, a, r) = {}
               PROVE  m[n - 1][r] = 0
    OBVIOUS
  <2>1. n - 1 \in 0..n
    OBVIOUS
  <2>2. CASE n - 1 = 0
    <3>1. m[0] \in Counts(a, a)
      BY MatchesRuns
    <3>2. m[0][r] = 0
      BY MatchesRuns
    <3> QED BY <2>2, <3>2
  <2>3. CASE n - 1 # 0
    <3>1. n - 1 \in 1..n
      BY <2>3
    <3>2. m[n - 1] = Cut(a, a, m[(n - 1) - 1])
      <4>1. PICK l : l = n - 1
        OBVIOUS
      <4>2. m[l] = Cut(a, a, m[l - 1])
        BY <3>1, <4>1, MatchesRuns
      <4> QED BY <4>1, <4>2
    <3> HIDE DEF m
    <3> QED BY <3>2 DEF Cut
  <2> QED BY <2>2, <2>3
<1>10. m[n][whole] = k[3] + m[n - 1][Left(whole, k)] + m[n - 1][Right(whole, k)]
  <2>1. n \in 1..n
    OBVIOUS
  <2>2. m[n] = Cut(a, a, m[n - 1])
    BY <2>1, MatchesRuns
  <2> HIDE DEF m, whole, all
  <2> QED BY <1>1, <1>2, <2>2 DEF Cut
<1>11. m[n - 1][Left(whole, k)] = 0 /\ m[n - 1][Right(whole, k)] = 0
  <2> HIDE DEF m, whole, k
  <2> QED BY <1>3, <1>7, <1>8, <1>9
<1>12. Matched(a, a) = n
  <2>1. m[n][whole] = n
    <3> HIDE DEF m, whole, k
    <3> QED BY <1>6, <1>10, <1>11
  <2> QED BY <2>1 DEF Matched
<1>13. (200 * n) \div (n + n) = 100
  <2>1. 200 * n = 100 * (n + n)
    OBVIOUS
  <2>2. \A y \in Nat : 1 <= y => (100 * y) \div y = 100
    OBVIOUS
  <2>3. n + n \in Nat /\ 1 <= n + n
    OBVIOUS
  <2> QED BY <2>1, <2>2, <2>3
<1> QED BY <1>12, <1>13 DEF Ratio

-----------------------------------------------------------------------------
(* Evidence: reading a text in plain words.                                *)

(* A word appended to the end of two texts is appended to the second. *)
AppendsInside(s, t, e) == Append(s \o t, e) = s \o Append(t, e)

LEMMA AppendingToTheEnd ==
  ASSUME NEW S, NEW s \in Seq(S), NEW t \in Seq(S), NEW e \in S
  PROVE  AppendsInside(s, t, e)
<1>1. s \o t \in Seq(S) /\ <<e>> \in Seq(S)
  OBVIOUS
<1>2. Append(s \o t, e) = (s \o t) \o <<e>>
  BY <1>1, AppendIsConcat
<1>3. Append(t, e) = t \o <<e>>
  BY AppendIsConcat
<1>4. (s \o t) \o <<e>> = s \o (t \o <<e>>)
  BY <1>1, ConcatAssociative
<1> QED BY <1>2, <1>3, <1>4 DEF AppendsInside

(* What the symbols of a text are in plain writing. *)
Words(S) == {InPlain(w) : w \in S}

(* The symbol at n is a blank that leads, or that follows a blank. *)
Drops(text, n) == IsBlank(text, n) /\ (n = 1 \/ IsBlank(text, n - 1))

(* The loop of normalise drops such a blank and writes all else plainly. *)
LEMMA ReducedRuns ==
  ASSUME NEW S, NEW text \in Seq(S)
  PROVE  /\ \A n \in 0..Len(text) : Reduced(text)[n] \in Seq(Words(S))
         /\ Reduced(text)[0] = <<>>
         /\ \A n \in 1..Len(text) :
              Reduced(text)[n] = IF Drops(text, n) THEN Reduced(text)[n - 1]
                                 ELSE Append(Reduced(text)[n - 1], InPlain(text[n]))
<1> DEFINE n == Len(text)
           W == Seq(Words(S))
           Read(left, k) == IF Drops(text, k) THEN left ELSE Append(left, InPlain(text[k]))
           body == [k \in 1..n |-> [left \in W |-> Read(left, k)]]
<1>1. n \in Nat /\ \A k \in 1..n : text[k] \in S
  BY ElementOfSeq
<1>2. \A left \in W : \A k \in 1..n : Read(left, k) \in W
  <2> SUFFICES ASSUME NEW left \in W, NEW k \in 1..n PROVE Read(left, k) \in W
    OBVIOUS
  <2>1. InPlain(text[k]) \in Words(S)
    BY <1>1 DEF Words
  <2> QED BY <2>1
<1>3. body \in [1..n -> [W -> W]]
  <2> HIDE DEF Read, W
  <2> QED BY <1>2
<1>4. <<>> \in W
  OBVIOUS
<1>5. PICK f \in [0..n -> W] : LoopRuns(f, <<>>, n, body)
  <2> HIDE DEF body, n, W, Read
  <2> QED BY <1>1, <1>3, <1>4, LoopExists
<1> HIDE DEF Read, W
<1>6. \A k \in 1..n : f[k] = Read(f[k - 1], k)
  <2>1. \A k \in 1..n : f[k - 1] \in W
    BY <1>1, <1>5
  <2> QED BY <1>5, <2>1 DEF LoopRuns
<1>7. f = [k \in 0..n |-> IF k = 0 THEN <<>> ELSE Read(f[k - 1], k)]
  BY <1>5, <1>6 DEF LoopRuns
<1> DEFINE left == Reduced(text)
<1>8. left = [k \in 0..n |-> IF k = 0 THEN <<>> ELSE Read(left[k - 1], k)]
  BY <1>7 DEF Reduced, Read, Drops
<1> HIDE DEF left
<1>9. left[0] = <<>> /\ \A k \in 1..n : left[k] = Read(left[k - 1], k)
  <2>1. 0 \in 0..n /\ \A k \in 1..n : k \in 0..n /\ k # 0
    BY <1>1
  <2> HIDE DEF n
  <2> QED BY <1>8, <2>1
<1>10. \A k \in 0..n : left[k] \in W
  <2>1. left[0] \in W
    BY <1>4, <1>9
  <2>2. \A k \in 1..n : left[k - 1] \in W => left[k] \in W
    BY <1>2, <1>9
  <2> HIDE DEF n
  <2> QED BY <1>1, <2>1, <2>2, LoopStays
<1> QED BY <1>9, <1>10 DEF left, Read, W

(* The last symbol that is no blank, or none. *)
LastOf(text) == Max({0} \cup {n \in DOMAIN text : ~IsBlank(text, n)})

(* It is one of the text's, and nothing but blanks come after it. *)
LEMMA TheLastSymbol ==
  ASSUME NEW S, NEW text \in Seq(S)
  PROVE  /\ LastOf(text) \in 0..Len(text)
         /\ LastOf(text) # 0 => ~IsBlank(text, LastOf(text))
         /\ \A n \in 1..Len(text) : ~IsBlank(text, n) => n <= LastOf(text)
<1> DEFINE T == {0} \cup {n \in DOMAIN text : ~IsBlank(text, n)}
<1>1. Len(text) \in Nat /\ DOMAIN text = 1..Len(text)
  BY LenProperties
<1>2. T \in SUBSET (0..Len(text)) /\ 0 \in T
  BY <1>1
<1>3. PICK e \in T : \A y \in T : e >= y
  <2> HIDE DEF T
  <2> QED BY <1>1, <1>2, GreatestNumber
<1>4. Max(T) \in T /\ \A y \in T : Max(T) >= y
  <2> HIDE DEF T
  <2> QED BY <1>3 DEF Max
<1>5. LastOf(text) = Max(T)
  BY DEF LastOf
<1>6. \A n \in 1..Len(text) : ~IsBlank(text, n) => n \in T
  BY <1>1
<1>7. \A n \in T : n # 0 => ~IsBlank(text, n)
  OBVIOUS
<1> HIDE DEF T
<1>8. LastOf(text) \in T /\ \A y \in T : LastOf(text) >= y
  BY <1>4, <1>5
<1>9. \A n \in T : n \in Int
  BY <1>2
<1>10. LastOf(text) \in 0..Len(text)
  BY <1>2, <1>8
<1> QED BY <1>6, <1>7, <1>8, <1>9, <1>10

(* A normalised text is a text of plain symbols. *)
LEMMA NormalisedTexts ==
  ASSUME NEW S, NEW text \in Seq(S)
  PROVE  normalise(text) \in Seq(Words(S))
<1>1. normalise(text) = Reduced(text)[LastOf(text)]
  BY DEF normalise, LastOf
<1> QED BY <1>1, ReducedRuns, TheLastSymbol

(* A part is read the same way, whatever surrounds it: what is left of a   *)
(* copied passage stands as it is in what is left of the text.             *)
Holds(text, part, W) == \E head, tail \in Seq(W) : text = (head \o part) \o tail

(* So the normal form of a part stands in the normal form of the whole. *)
LEMMA PartsAreReadAlike ==
  ASSUME NEW S, NEW text \in Seq(S), NEW i \in 1..Len(text), NEW j \in i..Len(text),
         normalise(SubSeq(text, i, j)) # <<>>
  PROVE  Holds(normalise(text), normalise(SubSeq(text, i, j)), Words(S))
<1> DEFINE part == SubSeq(text, i, j)
           m == j - i + 1
           whole == Reduced(text)
           own == Reduced(part)
<1>0. PICK W : W = Words(S)
  OBVIOUS
<1>1. Len(text) \in Nat /\ \A k \in 1..Len(text) : text[k] \in S
  BY ElementOfSeq
<1>2. /\ part \in Seq(S) /\ Len(part) = m /\ m \in Nat
      /\ \A k \in 1..m : part[k] = text[(i - 1) + k]
  <2>1. \A k \in i..j : text[k] \in S
    BY <1>1
  <2>2. /\ part \in Seq(S)
        /\ Len(part) = IF i <= j THEN j - i + 1 ELSE 0
        /\ \A k \in 1..(j - i + 1) : part[k] = text[i + k - 1]
    BY <2>1, SubSeqProperties
  <2>3. \A k \in 1..m : i + k - 1 = (i - 1) + k
    OBVIOUS
  <2> QED BY <2>2, <2>3
<1>3. /\ \A n \in 0..m : own[n] \in Seq(W)
      /\ own[0] = <<>>
      /\ \A n \in 1..m : own[n] = IF Drops(part, n) THEN own[n - 1]
                                  ELSE Append(own[n - 1], InPlain(part[n]))
  <2> HIDE DEF part, m
  <2> QED BY <1>0, <1>2, ReducedRuns
<1>4. /\ \A n \in 0..Len(text) : whole[n] \in Seq(W)
      /\ \A n \in 1..Len(text) : whole[n] = IF Drops(text, n) THEN whole[n - 1]
                                  ELSE Append(whole[n - 1], InPlain(text[n]))
  BY <1>0, ReducedRuns
<1>5. \A n \in 1..Len(text) : InPlain(text[n]) \in W
  BY <1>0, <1>1 DEF Words
<1>6. \A k \in 1..m : IsBlank(part, k) <=> IsBlank(text, (i - 1) + k)
  BY <1>2 DEF IsBlank
<1> HIDE DEF part, whole, own
<1>7. \A n \in 0..m : own[n] # <<>> => \E head \in Seq(W) : whole[(i - 1) + n] = head \o own[n]
  <2> DEFINE T == {n \in 0..m :
                     own[n] # <<>> => \E head \in Seq(W) : whole[(i - 1) + n] = head \o own[n]}
  <2>1. 0 \in T
    BY <1>2, <1>3
  <2>2. ASSUME NEW n \in 1..m, n - 1 \in T PROVE n \in T
    <3> DEFINE w == text[(i - 1) + n]
               before == whole[(i - 1) + (n - 1)]
    <3>1. n \in 0..m /\ n - 1 \in 0..m /\ (i - 1) + n \in 1..Len(text)
          /\ ((i - 1) + n) - 1 = (i - 1) + (n - 1)
      BY <1>1
    <3>2. part[n] = w
      BY <1>2
    <3>3. own[n - 1] \in Seq(W) /\ InPlain(w) \in W /\ before \in Seq(W)
      <4>1. (i - 1) + (n - 1) \in 0..Len(text)
        BY <3>1
      <4> QED BY <1>3, <1>4, <1>5, <3>1, <4>1
    <3>4. whole[(i - 1) + n] = IF Drops(text, (i - 1) + n) THEN before
                               ELSE Append(before, InPlain(w))
      BY <1>4, <3>1
    <3>5. own[n] = IF Drops(part, n) THEN own[n - 1] ELSE Append(own[n - 1], InPlain(w))
      BY <1>3, <3>2
    <3> HIDE DEF w, before
    <3>6. CASE own[n - 1] # <<>>
      <4>1. n # 1 /\ n - 1 \in 1..m /\ (i - 1) + n # 1
        BY <1>3, <3>6
      <4>2. Drops(part, n) <=> Drops(text, (i - 1) + n)
        BY <1>6, <3>1, <4>1 DEF Drops
      <4>3. PICK head \in Seq(W) : before = head \o own[n - 1]
        BY <2>2, <3>6 DEF before
      <4>4. Append(head \o own[n - 1], InPlain(w)) = head \o Append(own[n - 1], InPlain(w))
        <5>1. AppendsInside(head, own[n - 1], InPlain(w))
          BY <3>3, AppendingToTheEnd
        <5> QED BY <5>1 DEF AppendsInside
      <4>5. whole[(i - 1) + n] = head \o own[n]
        BY <3>4, <3>5, <4>2, <4>3, <4>4
      <4> QED BY <3>1, <4>5
    <3>7. CASE own[n - 1] = <<>> /\ Drops(part, n)
      BY <3>1, <3>5, <3>7
    <3>8. CASE own[n - 1] = <<>> /\ ~Drops(part, n)
      <4>1. ~IsBlank(part, n)
        <5> SUFFICES ASSUME IsBlank(part, n) PROVE FALSE
          OBVIOUS
        <5>1. n # 1 /\ ~IsBlank(part, n - 1)
          BY <3>8 DEF Drops
        <5>2. n - 1 \in 1..m
          BY <5>1
        <5>3. PICK l : l = n - 1
          OBVIOUS
        <5>4. own[l] = Append(own[l - 1], InPlain(part[l]))
          BY <1>3, <5>1, <5>2, <5>3 DEF Drops
        <5>5. own[l - 1] \in Seq(W) /\ InPlain(part[l]) \in W
          <6>1. l - 1 \in 0..m /\ (i - 1) + l \in 1..Len(text) /\ l \in 1..m
            BY <1>1, <5>2, <5>3
          <6> QED BY <1>2, <1>3, <1>5, <6>1
        <5>6. own[l] # <<>>
          <6>1. Len(own[l]) = Len(own[l - 1]) + 1 /\ Len(own[l - 1]) \in Nat
            BY <5>4, <5>5, AppendProperties, LenProperties
          <6>2. own[l] = <<>> => Len(own[l]) = 0
            OBVIOUS
          <6> QED BY <6>1, <6>2
        <5> QED BY <3>8, <5>3, <5>6
      <4>2. ~Drops(text, (i - 1) + n)
        BY <1>6, <4>1 DEF Drops
      <4>3. before \o <<>> = before /\ <<>> \in Seq(W)
        BY <3>3, ConcatEmptySeq
      <4>4. Append(before \o <<>>, InPlain(w)) = before \o Append(<<>>, InPlain(w))
        <5>1. AppendsInside(before, <<>>, InPlain(w))
          BY <3>3, <4>3, AppendingToTheEnd
        <5> QED BY <5>1 DEF AppendsInside
      <4>5. whole[(i - 1) + n] = before \o own[n]
        BY <3>4, <3>5, <3>8, <4>2, <4>3, <4>4
      <4> QED BY <3>1, <3>3, <4>5
    <3> QED BY <3>6, <3>7, <3>8
  <2>3. 0..m \subseteq T
    <3> HIDE DEF T, m
    <3> QED BY <1>2, <2>1, <2>2, CountingUp
  <2> QED BY <2>3
<1> DEFINE e == LastOf(part)
           b == (i - 1) + e
           E == LastOf(text)
<1>8. /\ e \in 1..m /\ b \in 1..Len(text) /\ E \in b..Len(text)
      /\ normalise(part) = own[e] /\ normalise(text) = whole[E] /\ own[e] # <<>>
  <2>1. normalise(part) = own[e] /\ normalise(text) = whole[E]
    BY DEF normalise, LastOf, own, whole
  <2>2. own[e] # <<>>
    BY <2>1 DEF part
  <2>3. e \in 0..m /\ (e # 0 => ~IsBlank(part, e))
    BY <1>2, TheLastSymbol
  <2>4. E \in 0..Len(text) /\ \A n \in 1..Len(text) : ~IsBlank(text, n) => n <= E
    BY TheLastSymbol
  <2> HIDE DEF e, E
  <2>5. e # 0
    BY <1>3, <2>2
  <2>6. e \in 1..m /\ (i - 1) + e \in 1..Len(text) /\ ~IsBlank(part, e)
    BY <1>1, <1>2, <2>3, <2>5
  <2>7. ~IsBlank(text, (i - 1) + e)
    BY <1>6, <2>6
  <2> QED BY <1>1, <2>1, <2>2, <2>4, <2>6, <2>7
<1> HIDE DEF e, E, b
<1>9. PICK head \in Seq(W) : whole[b] = head \o own[e]
  <2>1. e \in 0..m /\ b = (i - 1) + e
    BY <1>8 DEF b
  <2> QED BY <1>7, <1>8, <2>1
<1>10. \A n \in 0..(Len(text) - b) : \E tail \in Seq(W) : whole[b + n] = whole[b] \o tail
  <2> DEFINE T == {n \in 0..(Len(text) - b) : \E tail \in Seq(W) : whole[b + n] = whole[b] \o tail}
  <2>0. b \in 0..Len(text) /\ whole[b] \in Seq(W)
    BY <1>1, <1>4, <1>8
  <2>1. 0 \in T
    <3>1. whole[b + 0] = whole[b] \o <<>> /\ 0 \in 0..(Len(text) - b)
      BY <1>1, <2>0
    <3>2. <<>> \in Seq(W)
      OBVIOUS
    <3> QED BY <3>1, <3>2
  <2>2. ASSUME NEW n \in 1..(Len(text) - b), n - 1 \in T PROVE n \in T
    <3>1. n \in 0..(Len(text) - b) /\ b + n \in 1..Len(text) /\ (b + n) - 1 = b + (n - 1)
      BY <1>1, <2>0
    <3>2. PICK tail \in Seq(W) : whole[b + (n - 1)] = whole[b] \o tail
      BY <2>2
    <3> DEFINE w == text[b + n]
    <3>3. whole[b + n] = IF Drops(text, b + n) THEN whole[b + (n - 1)]
                         ELSE Append(whole[b + (n - 1)], InPlain(w))
      BY <1>4, <3>1
    <3>4. InPlain(w) \in W
      BY <1>5, <3>1
    <3> HIDE DEF w
    <3>5. Append(whole[b] \o tail, InPlain(w)) = whole[b] \o Append(tail, InPlain(w))
      <4>1. AppendsInside(whole[b], tail, InPlain(w))
        BY <2>0, <3>4, AppendingToTheEnd
      <4> QED BY <4>1 DEF AppendsInside
    <3>6. Append(tail, InPlain(w)) \in Seq(W)
      BY <3>4
    <3>7. \E rest \in Seq(W) : whole[b + n] = whole[b] \o rest
      BY <3>2, <3>3, <3>5, <3>6
    <3> QED BY <3>1, <3>7
  <2>3. 0..(Len(text) - b) \subseteq T
    <3>1. PICK l \in Nat : l = Len(text) - b
      BY <1>1, <2>0
    <3> HIDE DEF T
    <3>2. 0..l \subseteq T
      BY <2>1, <2>2, <3>1, CountingUp
    <3> QED BY <3>1, <3>2
  <2> QED BY <2>3
<1>11. PICK tail \in Seq(W) : whole[E] = whole[b] \o tail
  <2>1. E - b \in 0..(Len(text) - b) /\ b + (E - b) = E
    BY <1>1, <1>8
  <2> QED BY <1>10, <2>1
<1>12. normalise(text) = (head \o normalise(part)) \o tail
  BY <1>8, <1>9, <1>11
<1> QED BY <1>0, <1>12 DEF part, Holds

-----------------------------------------------------------------------------
(* Evidence: the numbers of a text.                                        *)

(* What stands at s of a passage stands there of the text, p on. *)
Shifted(s, p) == <<p + s[1] - 1, p + s[2] - 1>>

(* A run of digits and separators, told by its two ends. *)
IsRun(text, a, b) ==
  /\ a <= b /\ text[a] \in Digits /\ text[b] \in Digits
  /\ \A k \in a..b : text[k] \in Numeric

(* A run is a pair of places between lo and hi. *)
LEMMA RunsAre ==
  ASSUME NEW text, NEW lo \in Int, NEW hi \in Int
  PROVE  /\ \A s \in Runs(text, lo, hi) :
              /\ s = <<s[1], s[2]>> /\ s[1] \in lo..hi /\ s[2] \in lo..hi
              /\ IsRun(text, s[1], s[2])
         /\ \A a, b \in lo..hi : IsRun(text, a, b) => <<a, b>> \in Runs(text, lo, hi)
BY DEF Runs, IsRun

(* A run reaches over another. *)
Covers(r, s) == r[1] <= s[1] /\ s[2] <= r[2]

(* A numeral is a run that no other reaches over. *)
LEMMA NumeralsAre ==
  ASSUME NEW text, NEW lo, NEW hi, NEW s
  PROVE  s \in Numerals(text, lo, hi) <=>
           s \in Runs(text, lo, hi) /\ \A r \in Runs(text, lo, hi) : Covers(r, s) => r = s
BY DEF Numerals, Covers

(* The runs of a part of the text are runs of the text. *)
LEMMA RunsOfParts ==
  ASSUME NEW text, NEW n \in Int, NEW lo \in Int, NEW hi \in Int, 1 <= lo, hi <= n
  PROVE  /\ Runs(text, lo, hi) \subseteq Runs(text, 1, n)
         /\ \A r \in Runs(text, 1, n) : lo <= r[1] /\ r[2] <= hi => r \in Runs(text, lo, hi)
<1>1. ASSUME NEW s \in Runs(text, lo, hi) PROVE s \in Runs(text, 1, n)
  <2>1. /\ s = <<s[1], s[2]>> /\ s[1] \in lo..hi /\ s[2] \in lo..hi
        /\ IsRun(text, s[1], s[2])
    BY RunsAre
  <2>2. s[1] \in 1..n /\ s[2] \in 1..n
    BY <2>1
  <2>3. <<s[1], s[2]>> \in Runs(text, 1, n)
    BY <2>1, <2>2, RunsAre
  <2> QED BY <2>1, <2>3
<1>2. ASSUME NEW r \in Runs(text, 1, n), lo <= r[1], r[2] <= hi PROVE r \in Runs(text, lo, hi)
  <2>1. /\ r = <<r[1], r[2]>> /\ r[1] \in 1..n /\ r[2] \in 1..n
        /\ IsRun(text, r[1], r[2])
    BY RunsAre
  <2>2. r[1] \in lo..hi /\ r[2] \in lo..hi
    BY <1>2, <2>1 DEF IsRun
  <2>3. <<r[1], r[2]>> \in Runs(text, lo, hi)
    BY <2>1, <2>2, RunsAre
  <2> QED BY <2>1, <2>3
<1> QED BY <1>1, <1>2

(* A numeral of a part is one of the text, or cut off by an end of the part. *)
LEMMA NumeralsOfParts ==
  ASSUME NEW text, Len(text) \in Int, NEW lo \in Int, NEW hi \in Int, 1 <= lo, hi <= Len(text),
         NEW s \in Numerals(text, lo, hi)
  PROVE  IsReadNear(Reading(text, s), text, lo, hi)
<1>1. s \in Runs(text, lo, hi) /\ \A r \in Runs(text, lo, hi) : Covers(r, s) => r = s
  BY NumeralsAre
<1>2. ASSUME NEW r \in Runs(text, 1, Len(text)), r[1] <= s[1], s[2] <= r[2]
      PROVE  r = s \/ r[1] < lo \/ hi < r[2]
  <2>1. r[1] \in Int /\ r[2] \in Int
    <3>1. PICK n \in Int : n = Len(text) /\ r \in Runs(text, 1, n)
      BY <1>2
    <3>2. 1 \in Int
      OBVIOUS
    <3>3. r[1] \in 1..n /\ r[2] \in 1..n
      BY <3>1, <3>2, RunsAre
    <3> QED BY <3>3
  <2>2. CASE lo <= r[1] /\ r[2] <= hi
    <3>1. r \in Runs(text, lo, hi)
      BY <2>2, RunsOfParts
    <3> QED BY <1>1, <1>2, <3>1 DEF Covers
  <2> QED BY <2>1, <2>2
<1> QED BY <1>1, <1>2 DEF IsReadNear

(* A passage of a passage is one of the text. *)
LEMMA PassagesOfPassages ==
  ASSUME NEW W, NEW text \in Seq(W), NEW lo \in 1..Len(text), NEW hi \in lo..Len(text),
         NEW a \in 1..(hi - lo + 1), NEW b \in a..(hi - lo + 1)
  PROVE  SubSeq(SubSeq(text, lo, hi), a, b) = SubSeq(text, lo + a - 1, lo + b - 1)
<1> DEFINE part == SubSeq(text, lo, hi)
           one == SubSeq(part, a, b)
           other == SubSeq(text, lo + a - 1, lo + b - 1)
           n == b - a + 1
<1>1. Len(text) \in Nat /\ \A k \in 1..Len(text) : text[k] \in W
  BY ElementOfSeq
<1>2. lo \in Int /\ hi \in Int /\ a \in Int /\ b \in Int /\ 1 <= lo /\ hi <= Len(text)
      /\ 1 <= a /\ a <= b /\ b <= hi - lo + 1 /\ lo <= hi
  BY <1>1
<1>3. /\ part \in Seq(W) /\ Len(part) = hi - lo + 1
      /\ \A k \in 1..(hi - lo + 1) : part[k] = text[lo + k - 1]
  <2>1. \A k \in lo..hi : text[k] \in W
    BY <1>1, <1>2
  <2>2. /\ part \in Seq(W)
        /\ Len(part) = IF lo <= hi THEN hi - lo + 1 ELSE 0
        /\ \A k \in 1..(hi - lo + 1) : part[k] = text[lo + k - 1]
    BY <1>2, <2>1, SubSeqProperties
  <2> QED BY <1>2, <2>2
<1> HIDE DEF part
<1>4. /\ one \in Seq(W) /\ Len(one) = n
      /\ \A k \in 1..n : one[k] = part[a + k - 1]
  <2>1. \A k \in a..b : part[k] \in W
    <3>1. \A k \in a..b : k \in 1..(hi - lo + 1) /\ lo + k - 1 \in 1..Len(text)
      BY <1>1, <1>2
    <3> QED BY <1>1, <1>3, <3>1
  <2>2. /\ one \in Seq(W)
        /\ Len(one) = IF a <= b THEN b - a + 1 ELSE 0
        /\ \A k \in 1..(b - a + 1) : one[k] = part[a + k - 1]
    BY <1>2, <2>1, SubSeqProperties
  <2> QED BY <1>2, <2>2
<1>5. /\ other \in Seq(W) /\ Len(other) = n
      /\ \A k \in 1..n : other[k] = text[lo + a - 1 + k - 1]
  <2> DEFINE c == lo + a - 1
             d == lo + b - 1
  <2>1. c \in Int /\ d \in Int /\ c <= d /\ d - c + 1 = n /\ 1 <= c /\ d <= Len(text)
    BY <1>1, <1>2
  <2> HIDE DEF c, d, n
  <2>2. \A k \in c..d : text[k] \in W
    BY <1>1, <2>1
  <2>3. /\ SubSeq(text, c, d) \in Seq(W)
        /\ Len(SubSeq(text, c, d)) = IF c <= d THEN d - c + 1 ELSE 0
        /\ \A k \in 1..(d - c + 1) : SubSeq(text, c, d)[k] = text[c + k - 1]
    BY <2>1, <2>2, SubSeqProperties
  <2> QED BY <2>1, <2>3 DEF c, d
<1>6. \A k \in 1..n : one[k] = other[k]
  <2>1. \A k \in 1..n : a + k - 1 \in 1..(hi - lo + 1) /\ lo + (a + k - 1) - 1 = lo + a - 1 + k - 1
    BY <1>2
  <2> HIDE DEF one, other, n
  <2> SUFFICES ASSUME NEW k \in 1..n PROVE one[k] = other[k]
    OBVIOUS
  <2>2. one[k] = part[a + k - 1]
    BY <1>4
  <2>3. part[a + k - 1] = text[lo + (a + k - 1) - 1]
    BY <1>3, <2>1
  <2>4. other[k] = text[lo + a - 1 + k - 1]
    BY <1>5
  <2> QED BY <2>1, <2>2, <2>3, <2>4
<1> HIDE DEF one, other, n
<1>7. one = other
  BY <1>4, <1>5, <1>6, SeqEqual
<1> QED BY <1>7 DEF one, other, part

(* The runs of a passage are the text's runs there. *)
LEMMA RunsOfPassages ==
  ASSUME NEW W, NEW text \in Seq(W), NEW lo \in 1..Len(text), NEW hi \in lo..Len(text),
         NEW a \in 1..(hi - lo + 1), NEW b \in 1..(hi - lo + 1)
  PROVE  IsRun(SubSeq(text, lo, hi), a, b) <=> IsRun(text, lo + a - 1, lo + b - 1)
<1> DEFINE part == SubSeq(text, lo, hi)
<1>1. Len(text) \in Nat /\ \A k \in 1..Len(text) : text[k] \in W
  BY ElementOfSeq
<1>2. lo \in Int /\ hi \in Int /\ a \in Int /\ b \in Int /\ 1 <= a /\ b <= hi - lo + 1
      /\ 1 <= b /\ a <= hi - lo + 1
  BY <1>1
<1>3. \A k \in 1..(hi - lo + 1) : part[k] = text[lo + k - 1]
  <2>1. \A k \in lo..hi : text[k] \in W
    BY <1>1, <1>2
  <2> QED BY <1>2, <2>1, SubSeqProperties
<1> HIDE DEF part
<1>4. part[a] = text[lo + a - 1] /\ part[b] = text[lo + b - 1]
  BY <1>3
<1>5. a <= b <=> lo + a - 1 <= lo + b - 1
  BY <1>2
<1>6. (\A k \in a..b : part[k] \in Numeric)
        <=> (\A l \in (lo + a - 1)..(lo + b - 1) : text[l] \in Numeric)
  <2>1. ASSUME \A k \in a..b : part[k] \in Numeric, NEW l \in (lo + a - 1)..(lo + b - 1)
        PROVE  text[l] \in Numeric
    <3>1. PICK k : k = l - lo + 1
      OBVIOUS
    <3>2. k \in a..b /\ k \in 1..(hi - lo + 1) /\ lo + k - 1 = l
      BY <1>2, <3>1
    <3> QED BY <1>3, <2>1, <3>2
  <2>2. ASSUME \A l \in (lo + a - 1)..(lo + b - 1) : text[l] \in Numeric, NEW k \in a..b
        PROVE  part[k] \in Numeric
    <3>1. PICK l : l = lo + k - 1
      OBVIOUS
    <3>2. l \in (lo + a - 1)..(lo + b - 1) /\ k \in 1..(hi - lo + 1)
      BY <1>2, <3>1
    <3> QED BY <1>3, <2>2, <3>1, <3>2
  <2> QED BY <2>1, <2>2
<1> QED BY <1>4, <1>5, <1>6 DEF IsRun, part

(* Where the numerals of a passage stand in the text, and how they read. *)
LEMMA NumeralsOfPassages ==
  ASSUME NEW W, NEW text \in Seq(W), NEW lo \in 1..Len(text), NEW hi \in lo..Len(text),
         NEW m, m = hi - lo + 1
  PROVE  /\ \A s \in Numerals(SubSeq(text, lo, hi), 1, m) :
              /\ Shifted(s, lo) \in Numerals(text, lo, hi)
              /\ Reading(SubSeq(text, lo, hi), s) = Reading(text, Shifted(s, lo))
         /\ \A t \in Numerals(text, lo, hi) : \E s \in Numerals(SubSeq(text, lo, hi), 1, m) :
              t = Shifted(s, lo)
<1> DEFINE part == SubSeq(text, lo, hi)
           Own == Runs(part, 1, m)
           Theirs == Runs(text, lo, hi)
<1>1. Len(text) \in Nat /\ lo \in Int /\ hi \in Int /\ m \in Int /\ m = hi - lo + 1
  BY LenProperties
<1>2. \A a, b \in 1..m : IsRun(part, a, b) <=> IsRun(text, lo + a - 1, lo + b - 1)
  BY RunsOfPassages
<1>3. /\ \A s \in Own : s = <<s[1], s[2]>> /\ s[1] \in 1..m /\ s[2] \in 1..m /\ IsRun(part, s[1], s[2])
      /\ \A a, b \in 1..m : IsRun(part, a, b) => <<a, b>> \in Own
  <2>1. 1 \in Int /\ m \in Int
    BY <1>1
  <2> HIDE DEF part
  <2> QED BY <2>1, RunsAre
<1>4. /\ \A s \in Theirs : /\ s = <<s[1], s[2]>> /\ s[1] \in lo..hi /\ s[2] \in lo..hi
                           /\ IsRun(text, s[1], s[2])
      /\ \A a, b \in lo..hi : IsRun(text, a, b) => <<a, b>> \in Theirs
  BY <1>1, RunsAre
<1>5. /\ \A s : s \in Numerals(part, 1, m) <=> s \in Own /\ \A r \in Own : Covers(r, s) => r = s
      /\ \A s : s \in Numerals(text, lo, hi) <=>
                  s \in Theirs /\ \A r \in Theirs : Covers(r, s) => r = s
  <2> HIDE DEF part
  <2> QED BY NumeralsAre
<1>6. \A a, b \in 1..m : a <= b => SubSeq(part, a, b) = SubSeq(text, lo + a - 1, lo + b - 1)
  <2> SUFFICES ASSUME NEW a \in 1..m, NEW b \in 1..m, a <= b
               PROVE  SubSeq(part, a, b) = SubSeq(text, lo + a - 1, lo + b - 1)
    OBVIOUS
  <2>1. a \in 1..(hi - lo + 1) /\ b \in a..(hi - lo + 1)
    BY <1>1
  <2> QED BY <2>1, PassagesOfPassages
<1> HIDE DEF part, Own, Theirs
<1>7. ASSUME NEW s \in Own PROVE Shifted(s, lo) \in Theirs
  <2>1. s[1] \in 1..m /\ s[2] \in 1..m /\ IsRun(text, lo + s[1] - 1, lo + s[2] - 1)
    BY <1>2, <1>3
  <2>2. lo + s[1] - 1 \in lo..hi /\ lo + s[2] - 1 \in lo..hi
    <3>1. \A a \in 1..m : lo + a - 1 \in lo..hi
      BY <1>1
    <3> QED BY <2>1, <3>1
  <2> QED BY <1>4, <2>1, <2>2 DEF Shifted
<1>8. ASSUME NEW t \in Theirs PROVE \E s \in Own : t = Shifted(s, lo)
  <2>1. t = <<t[1], t[2]>> /\ t[1] \in lo..hi /\ t[2] \in lo..hi /\ IsRun(text, t[1], t[2])
    BY <1>4
  <2>2. PICK a, b : a = t[1] - lo + 1 /\ b = t[2] - lo + 1
    OBVIOUS
  <2>3. a \in 1..m /\ b \in 1..m /\ lo + a - 1 = t[1] /\ lo + b - 1 = t[2]
    <3>1. \A e \in lo..hi : e - lo + 1 \in 1..m /\ lo + (e - lo + 1) - 1 = e
      BY <1>1
    <3> QED BY <2>1, <2>2, <3>1
  <2>4. <<a, b>> \in Own
    BY <1>2, <1>3, <2>1, <2>3
  <2>5. t = Shifted(<<a, b>>, lo)
    BY <2>1, <2>3 DEF Shifted
  <2> QED BY <2>4, <2>5
<1>9. \A r, s \in Own : /\ Covers(Shifted(r, lo), Shifted(s, lo)) <=> Covers(r, s)
                        /\ Shifted(r, lo) = Shifted(s, lo) => r = s
  <2> SUFFICES ASSUME NEW r \in Own, NEW s \in Own
               PROVE  /\ Covers(Shifted(r, lo), Shifted(s, lo)) <=> Covers(r, s)
                      /\ Shifted(r, lo) = Shifted(s, lo) => r = s
    OBVIOUS
  <2>1. /\ r = <<r[1], r[2]>> /\ r[1] \in Int /\ r[2] \in Int
        /\ s = <<s[1], s[2]>> /\ s[1] \in Int /\ s[2] \in Int
    BY <1>3
  <2>2. /\ Shifted(r, lo)[1] = lo + r[1] - 1 /\ Shifted(r, lo)[2] = lo + r[2] - 1
        /\ Shifted(s, lo)[1] = lo + s[1] - 1 /\ Shifted(s, lo)[2] = lo + s[2] - 1
    BY DEF Shifted
  <2>0. \A a, b \in Int : /\ lo + a - 1 <= lo + b - 1 <=> a <= b
                          /\ lo + a - 1 = lo + b - 1 => a = b
    BY <1>1
  <2>3. Covers(Shifted(r, lo), Shifted(s, lo)) <=> Covers(r, s)
    <3>1. /\ lo + r[1] - 1 <= lo + s[1] - 1 <=> r[1] <= s[1]
          /\ lo + s[2] - 1 <= lo + r[2] - 1 <=> s[2] <= r[2]
      BY <2>0, <2>1
    <3> QED BY <2>2, <3>1 DEF Covers
  <2>4. ASSUME Shifted(r, lo) = Shifted(s, lo) PROVE r = s
    <3>1. lo + r[1] - 1 = lo + s[1] - 1 /\ lo + r[2] - 1 = lo + s[2] - 1
      BY <2>2, <2>4
    <3>2. r[1] = s[1] /\ r[2] = s[2]
      BY <2>0, <2>1, <3>1
    <3> QED BY <2>1, <3>2
  <2> QED BY <2>3, <2>4
<1>10. ASSUME NEW s \in Own
       PROVE  s \in Numerals(part, 1, m) <=> Shifted(s, lo) \in Numerals(text, lo, hi)
  <2>1. ASSUME s \in Numerals(part, 1, m), NEW t \in Theirs, Covers(t, Shifted(s, lo))
        PROVE  t = Shifted(s, lo)
    <3>1. PICK r \in Own : t = Shifted(r, lo)
      BY <1>8
    <3>2. r = s
      BY <1>5, <1>9, <2>1, <3>1
    <3> QED BY <3>1, <3>2
  <2>2. ASSUME Shifted(s, lo) \in Numerals(text, lo, hi), NEW r \in Own, Covers(r, s)
        PROVE  r = s
    <3>1. Shifted(r, lo) \in Theirs /\ Covers(Shifted(r, lo), Shifted(s, lo))
      BY <1>7, <1>9, <2>2
    <3>2. Shifted(r, lo) = Shifted(s, lo)
      BY <1>5, <2>2, <3>1
    <3> QED BY <1>9, <3>2
  <2> QED BY <1>5, <1>7, <2>1, <2>2
<1>11. ASSUME NEW s \in Own PROVE Reading(part, s) = Reading(text, Shifted(s, lo))
  <2>1. s[1] \in 1..m /\ s[2] \in 1..m /\ s[1] <= s[2]
    BY <1>3 DEF IsRun
  <2>2. SubSeq(part, s[1], s[2]) = SubSeq(text, lo + s[1] - 1, lo + s[2] - 1)
    BY <1>6, <2>1
  <2>3. Shifted(s, lo)[1] = lo + s[1] - 1 /\ Shifted(s, lo)[2] = lo + s[2] - 1
    BY DEF Shifted
  <2> QED BY <2>2, <2>3 DEF Reading
<1>12. \A s \in Numerals(part, 1, m) :
         /\ Shifted(s, lo) \in Numerals(text, lo, hi)
         /\ Reading(part, s) = Reading(text, Shifted(s, lo))
  BY <1>5, <1>10, <1>11
<1>13. \A t \in Numerals(text, lo, hi) : \E s \in Numerals(part, 1, m) : t = Shifted(s, lo)
  BY <1>5, <1>8, <1>10
<1> QED BY <1>12, <1>13 DEF part

-----------------------------------------------------------------------------
(* Evidence: the search for the best window.                               *)

(* A window that starts in a text is a passage of it. *)
LEMMA WindowsArePassages ==
  ASSUME NEW W, NEW text \in Seq(W), NEW p \in 1..Len(text), NEW n \in Nat, 1 <= n
  PROVE  /\ Window(text, p, n) \in Seq(W)
         /\ \E e \in p..Len(text) :
              /\ Window(text, p, n) = SubSeq(text, p, e)
              /\ Len(Window(text, p, n)) = e - p + 1
              /\ e - p + 1 <= n
<1>1. Len(text) \in Nat /\ \A k \in 1..Len(text) : text[k] \in W
  BY ElementOfSeq
<1> DEFINE e == Min({p + n - 1, Len(text)})
<1>2. e = IF p + n - 1 <= Len(text) THEN p + n - 1 ELSE Len(text)
  <2>1. p + n - 1 \in Int /\ Len(text) \in Int
    BY <1>1
  <2> QED BY <2>1, MinOfTwo
<1>3. e \in p..Len(text) /\ e - p + 1 <= n /\ Window(text, p, n) = SubSeq(text, p, e)
  <2>1. Window(text, p, n) = SubSeq(text, p, e)
    BY DEF Window
  <2> HIDE DEF e
  <2> QED BY <1>1, <1>2, <2>1
<1> HIDE DEF e
<1>4. SubSeq(text, p, e) \in Seq(W) /\ Len(SubSeq(text, p, e)) = e - p + 1
  <2>1. \A k \in p..e : text[k] \in W
    BY <1>1, <1>3
  <2>2. p \in Int /\ e \in Int /\ p <= e
    BY <1>1, <1>3
  <2>3. /\ SubSeq(text, p, e) \in Seq(W)
        /\ Len(SubSeq(text, p, e)) = IF p <= e THEN e - p + 1 ELSE 0
    BY <2>1, <2>2, SubSeqProperties
  <2> QED BY <2>2, <2>3
<1> QED BY <1>3, <1>4

(* The search looks at one place of the text at least, and at no other. *)
LEMMA PlacesToLookAt ==
  ASSUME NEW W, NEW needle \in Seq(W), NEW text \in Seq(W), needle # <<>>, text # <<>>
  PROVE  /\ candidate_positions(needle, text) \subseteq 1..Len(text)
         /\ candidate_positions(needle, text) # {}
<1> DEFINE length == Min({Len(needle), AnchorLength})
           start == (Len(needle) - length) \div 2
           Found(n) == Occurrences(Window(needle, start + 1, n), text)
           probes == {n \in {length, length \div 2, MinProbe} : Found(n) # {}}
           anchors == Found(Max(probes))
           step == Max({1, Len(needle) \div 2})
           tour == {p \in anchors : Cardinality({o \in anchors : o < p}) < MaxCandidates}
           scan == {p \in 1..Max({1, Len(text) - Len(needle)}) :
                      (p - 1) % step = 0 /\ (p - 1) \div step < MaxScan}
<1>1. Len(needle) \in Nat /\ 1 <= Len(needle) /\ Len(text) \in Nat /\ 1 <= Len(text)
  <2>1. Len(needle) \in Nat \ {0} /\ Len(text) \in Nat \ {0}
    BY EmptySeq
  <2> QED BY <2>1
<1>2. /\ AnchorLength \in Nat /\ MinProbe \in Nat /\ MaxCandidates \in Nat /\ 1 <= MaxCandidates
      /\ MaxScan \in Nat /\ 1 <= MaxScan
  BY SearchAssumption
<1>3. length \in Nat /\ start \in Nat
  <2>1. length = IF Len(needle) <= AnchorLength THEN Len(needle) ELSE AnchorLength
    BY <1>1, <1>2, MinOfTwo
  <2> HIDE DEF length
  <2>2. length \in Nat /\ Len(needle) - length \in Nat
    BY <1>1, <1>2, <2>1
  <2>3. \A d \in Nat : d \div 2 \in Nat
    OBVIOUS
  <2> QED BY <2>2, <2>3
<1>4. anchors \subseteq 1..Len(text)
  <2>1. DOMAIN text = 1..Len(text)
    BY LenProperties
  <2> QED BY <2>1 DEF Occurrences
<1>5. candidate_positions(needle, text) =
        IF probes # {} THEN {Max({1, p - start}) : p \in tour} ELSE scan
  BY DEF candidate_positions
<1> HIDE DEF length, start
<1>6. CASE probes # {}
  <2>1. anchors # {}
    <3>1. probes \in SUBSET (0..(length + MinProbe))
      <4>1. \A d \in Nat : d \div 2 \in 0..d
        OBVIOUS
      <4>2. length \in 0..(length + MinProbe) /\ MinProbe \in 0..(length + MinProbe)
        BY <1>2, <1>3
      <4>3. length \div 2 \in 0..(length + MinProbe)
        BY <1>2, <1>3, <4>1
      <4> HIDE DEF Found
      <4> QED BY <4>2, <4>3
    <3>2. length + MinProbe \in Nat
      BY <1>2, <1>3
    <3>3. \E x \in probes : \A y \in probes : x >= y
      <4> HIDE DEF probes
      <4> QED BY <1>6, <3>1, <3>2, GreatestNumber
    <3>4. Max(probes) \in probes
      <4> HIDE DEF probes
      <4> QED BY <3>3 DEF Max
    <3> HIDE DEF Found
    <3> QED BY <3>4
  <2> HIDE DEF anchors
  <2>2. PICK a \in anchors : \A o \in anchors : a <= o
    <3>1. anchors \in SUBSET Nat
      BY <1>4
    <3> QED BY <2>1, <3>1, LeastNumber
  <2>3. a \in tour
    <3>0. \A o \in anchors : ~(o < a)
      <4>1. \A o \in anchors : o \in Int
        BY <1>4
      <4> QED BY <2>2, <4>1
    <3>1. {o \in anchors : o < a} = {}
      BY <3>0
    <3>2. Cardinality({}) = 0
      BY FS_EmptySet
    <3>3. 0 < MaxCandidates
      BY <1>2
    <3>4. Cardinality({o \in anchors : o < a}) < MaxCandidates
      BY <3>1, <3>2, <3>3, Zenon
    <3> QED BY <3>4
  <2>4. \A p \in tour : Max({1, p - start}) \in 1..Len(text)
    <3> SUFFICES ASSUME NEW p \in tour PROVE Max({1, p - start}) \in 1..Len(text)
      OBVIOUS
    <3>1. p \in 1..Len(text)
      BY <1>4
    <3>2. Max({1, p - start}) = IF 1 >= p - start THEN 1 ELSE p - start
      <4>1. p - start \in Int
        BY <1>3, <3>1
      <4> QED BY <4>1, MaxOfTwo
    <3> QED BY <1>1, <1>3, <3>1, <3>2
  <2> HIDE DEF tour, probes
  <2> QED BY <1>5, <1>6, <2>3, <2>4
<1>7. CASE probes = {}
  <2>1. candidate_positions(needle, text) = scan
    <3> HIDE DEF probes, scan, tour
    <3> QED BY <1>5, <1>7
  <2> DEFINE last == Max({1, Len(text) - Len(needle)})
  <2>2. last \in 1..Len(text)
    <3>1. last = IF 1 >= Len(text) - Len(needle) THEN 1 ELSE Len(text) - Len(needle)
      <4>1. Len(text) - Len(needle) \in Int
        BY <1>1
      <4> QED BY <4>1, MaxOfTwo
    <3> HIDE DEF last
    <3> QED BY <1>1, <3>1
  <2>3. step \in Nat /\ 1 <= step
    <3>1. Len(needle) \div 2 \in Int
      BY <1>1
    <3>2. step = IF 1 >= Len(needle) \div 2 THEN 1 ELSE Len(needle) \div 2
      BY <3>1, MaxOfTwo
    <3> HIDE DEF step
    <3> QED BY <3>1, <3>2
  <2> HIDE DEF last, step
  <2>4. 1 \in scan
    <3>1. 0 % step = 0 /\ 0 \div step = 0
      BY <2>3
    <3>2. 1 - 1 = 0 /\ 1 \in 1..last /\ 0 < MaxScan
      BY <1>2, <2>2
    <3> QED BY <3>1, <3>2 DEF last
  <2>5. scan \subseteq 1..Len(text)
    <3>1. scan \subseteq 1..last
      BY DEF last
    <3>2. 1..last \subseteq 1..Len(text)
      BY <1>1, <2>2
    <3> HIDE DEF scan
    <3> QED BY <3>1, <3>2
  <2> HIDE DEF scan
  <2> QED BY <2>1, <2>4, <2>5
<1> QED BY <1>6, <1>7

(* What the search finds: the needle itself where it occurs, else a passage *)
(* and how much like the needle it reads.                                   *)
LEMMA TheBestMatch ==
  ASSUME NEW W, NEW needle \in Seq(W), NEW text \in Seq(W), needle # <<>>, text # <<>>
  PROVE  LET match == best_match(needle, text)
         IN  /\ match.score \in 0..100
             /\ \E p \in 1..Len(text) :
                  /\ match.window = Window(text, p, Len(needle))
                  /\ match.score = Ratio(needle, match.window)
             /\ Occurrences(needle, text) # {} => match = [score |-> 100, window |-> needle]
<1> DEFINE n == Len(needle)
           At(p) == Window(text, p, n)
           places == candidate_positions(needle, text)
           scores == [p \in places |-> Ratio(needle, At(p))]
           best == Max(Range(scores))
           firsts == {p \in DOMAIN scores : scores[p] = best}
           first == Min(firsts)
           match == best_match(needle, text)
<1>1. n \in Nat /\ 1 <= n /\ Len(text) \in Nat /\ DOMAIN text = 1..Len(text)
  <2>1. Len(needle) \in Nat \ {0} /\ Len(text) \in Nat \ {0}
    BY EmptySeq
  <2> QED BY <2>1, LenProperties
<1>2. CASE Occurrences(needle, text) # {}
  <2>1. match = [score |-> 100, window |-> needle]
    BY <1>2 DEF best_match
  <2>2. PICK p \in 1..Len(text) : Window(text, p, n) = needle
    BY <1>1, <1>2 DEF Occurrences
  <2>3. Ratio(needle, needle) = 100
    BY <1>1, TextsMatchThemselves
  <2> HIDE DEF match
  <2>4. match.score = 100 /\ match.window = needle
    BY <2>1
  <2> QED BY <2>1, <2>2, <2>3, <2>4 DEF match
<1>3. CASE Occurrences(needle, text) = {}
  <2>1. match = [score |-> best, window |-> At(first)]
    BY <1>3 DEF best_match
  <2>2. places \subseteq 1..Len(text) /\ places # {}
    BY PlacesToLookAt
  <2> HIDE DEF places
  <2>3. \A p \in places : Ratio(needle, At(p)) \in 0..100
    <3> SUFFICES ASSUME NEW p \in places PROVE Ratio(needle, At(p)) \in 0..100
      OBVIOUS
    <3>1. p \in 1..Len(text)
      BY <2>2
    <3>2. At(p) \in Seq(W)
      BY <1>1, <3>1, WindowsArePassages
    <3>3. Len(At(p)) \in Nat
      BY <3>2, LenProperties
    <3> HIDE DEF At
    <3> QED BY <1>1, <3>3, RatioIsAPercentage
  <2>4. Range(scores) = {Ratio(needle, At(p)) : p \in places}
    BY DEF Range
  <2>5. best \in Range(scores)
    <3>1. Range(scores) \in SUBSET (0..100) /\ Range(scores) # {}
      <4> HIDE DEF At, scores
      <4> QED BY <2>2, <2>3, <2>4
    <3>2. PICK T : T = Range(scores)
      OBVIOUS
    <3>3. \E x \in T : \A y \in T : x >= y
      <4>1. T \in SUBSET (0..100) /\ T # {}
        BY <3>1, <3>2
      <4> QED BY <4>1, GreatestNumber
    <3>4. Max(T) \in T
      BY <3>3 DEF Max
    <3> HIDE DEF scores
    <3> QED BY <3>2, <3>4
  <2>6. firsts # {} /\ firsts \subseteq 1..Len(text)
    <3>1. \E p \in places : scores[p] = best
      <4> HIDE DEF best
      <4> QED BY <2>5 DEF Range
    <3>2. DOMAIN scores = places
      OBVIOUS
    <3> HIDE DEF best, scores
    <3> QED BY <2>2, <3>1, <3>2
  <2>7. first \in firsts
    <3> HIDE DEF firsts
    <3> QED BY <1>1, <2>6, LeastOf
  <2>8. first \in places /\ Ratio(needle, At(first)) = best /\ first \in 1..Len(text)
    <3>1. first \in DOMAIN scores /\ scores[first] = best
      <4> HIDE DEF first, best, scores
      <4> QED BY <2>7
    <3> HIDE DEF first, best, At
    <3> QED BY <2>2, <3>1
  <2>9. best \in 0..100
    <3> HIDE DEF best, first, At
    <3> QED BY <2>3, <2>8
  <2> HIDE DEF best, first, match
  <2>10. match.score = best /\ match.window = At(first)
    BY <2>1
  <2> QED BY <1>3, <2>8, <2>9, <2>10 DEF match
<1> QED BY <1>2, <1>3

-----------------------------------------------------------------------------
(* Evidence: what it means that a quote stands.                            *)

(* The ends of a passage and a little around it. *)
From(i) == Max({1, i - Context})
To(text, j) == Min({Len(text), j + Context})

(* They are places of the text, the passage between them. *)
LEMMA TheRegion ==
  ASSUME NEW text, Len(text) \in Nat, NEW i \in 1..Len(text), NEW j \in i..Len(text)
  PROVE  From(i) \in 1..i /\ To(text, j) \in j..Len(text)
<1>1. Context \in Nat
  BY SearchAssumption
<1>2. i - Context \in Int /\ j + Context \in Int
  BY <1>1
<1>3. From(i) = IF 1 >= i - Context THEN 1 ELSE i - Context
  BY <1>2, MaxOfTwo DEF From
<1>4. To(text, j) = IF Len(text) <= j + Context THEN Len(text) ELSE j + Context
  BY <1>2, MinOfTwo DEF To
<1> QED BY <1>1, <1>3, <1>4

(* The numbers of a region are read near it. *)
LEMMA NumbersOfRegions ==
  ASSUME NEW W, NEW text \in Seq(W), NEW lo \in 1..Len(text), NEW hi \in lo..Len(text),
         NEW n \in numbers_in(SubSeq(text, lo, hi))
  PROVE  IsReadNear(n, text, lo, hi)
<1> DEFINE part == SubSeq(text, lo, hi)
<1>1. Len(text) \in Nat
  BY LenProperties
<1>2. Len(part) = hi - lo + 1
  <2>1. \A k \in lo..hi : text[k] \in W
    BY <1>1, ElementOfSeq
  <2> QED BY <1>1, <2>1, SubSeqProperties
<1>3. PICK s \in Numerals(part, 1, Len(part)) : n = Reading(part, s)
  BY DEF numbers_in
<1>4. Shifted(s, lo) \in Numerals(text, lo, hi) /\ n = Reading(text, Shifted(s, lo))
  <2>1. PICK m : m = Len(part)
    OBVIOUS
  <2> QED BY <1>2, <1>3, <2>1, NumeralsOfPassages
<1> QED BY <1>1, <1>4, NumeralsOfParts

(* A copy that keeps its numerals has no numbers that a region around has not. *)
LEMMA NumbersOfCopies ==
  ASSUME NEW W, NEW text \in Seq(W), NEW x \in 1..Len(text), NEW y \in x..Len(text),
         NEW lo \in 1..x, NEW hi \in y..Len(text),
         \A s \in Numerals(SubSeq(text, x, y), 1, Len(SubSeq(text, x, y))) :
           Shifted(s, x) \in Numerals(text, 1, Len(text))
  PROVE  numbers_in(SubSeq(text, x, y)) \subseteq numbers_in(SubSeq(text, lo, hi))
<1> DEFINE q == SubSeq(text, x, y)
           part == SubSeq(text, lo, hi)
<1>1. Len(text) \in Nat /\ lo \in 1..Len(text) /\ hi \in lo..Len(text)
      /\ x \in Int /\ y \in Int /\ lo \in Int /\ hi \in Int
      /\ 1 <= lo /\ lo <= x /\ x <= y /\ y <= hi /\ hi <= Len(text)
  BY LenProperties
<1>2. Len(q) = y - x + 1 /\ Len(part) = hi - lo + 1
  <2>1. \A k \in x..y : text[k] \in W
    BY <1>1, ElementOfSeq
  <2>2. \A k \in lo..hi : text[k] \in W
    BY <1>1, ElementOfSeq
  <2>3. Len(q) = y - x + 1
    BY <1>1, <2>1, SubSeqProperties
  <2>4. Len(part) = hi - lo + 1
    BY <1>1, <2>2, SubSeqProperties
  <2> QED BY <2>3, <2>4
<1> SUFFICES ASSUME NEW n \in numbers_in(q) PROVE n \in numbers_in(part)
  OBVIOUS
<1>3. PICK s \in Numerals(q, 1, Len(q)) : n = Reading(q, s)
  BY DEF numbers_in
<1> DEFINE t == Shifted(s, x)
<1>4. t \in Numerals(text, x, y) /\ n = Reading(text, t) /\ t \in Numerals(text, 1, Len(text))
  <2>1. PICK m : m = Len(q)
    OBVIOUS
  <2> QED BY <1>2, <1>3, <2>1, NumeralsOfPassages
<1> HIDE DEF t, q, part
<1>5. t \in Runs(text, x, y) /\ t \in Runs(text, 1, Len(text))
      /\ \A r \in Runs(text, 1, Len(text)) : Covers(r, t) => r = t
  BY <1>4, NumeralsAre
<1>6. lo <= t[1] /\ t[2] <= hi
  <2>1. t[1] \in x..y /\ t[2] \in x..y
    BY <1>1, <1>5, RunsAre
  <2> QED BY <1>1, <2>1
<1>7. /\ Runs(text, lo, hi) \subseteq Runs(text, 1, Len(text))
      /\ \A r \in Runs(text, 1, Len(text)) : lo <= r[1] /\ r[2] <= hi => r \in Runs(text, lo, hi)
  <2>1. Len(text) \in Int
    BY <1>1
  <2> QED BY <1>1, <2>1, RunsOfParts
<1>8. t \in Numerals(text, lo, hi)
  BY <1>5, <1>6, <1>7, NumeralsAre
<1>9. \E r \in Numerals(part, 1, Len(part)) : n = Reading(part, r)
  <2>1. PICK m : m = Len(part)
    OBVIOUS
  <2>2. PICK r \in Numerals(part, 1, m) : t = Shifted(r, lo)
    BY <1>1, <1>2, <1>8, <2>1, NumeralsOfPassages DEF part
  <2>3. Reading(part, r) = Reading(text, Shifted(r, lo))
    BY <1>1, <1>2, <2>1, <2>2, NumeralsOfPassages DEF part
  <2> QED BY <1>4, <2>1, <2>2, <2>3
<1> QED BY <1>9 DEF numbers_in

(* The passage reads like the quote, and the quote's numbers are near it. *)
IsGrounds(quote, text, i, j) ==
  /\ i <= j
  /\ \A n \in numbers_in(quote) : IsReadNear(n, text, From(i), To(text, j))
  /\ Ratio(quote, SubSeq(text, i, j)) >= Threshold

(* A quote and a text, once normalised, are written in common words. *)
LEMMA CommonWords ==
  ASSUME NEW S, NEW T, NEW quote \in Seq(S), NEW text \in Seq(T)
  PROVE  \E W : normalise(quote) \in Seq(W) /\ normalise(text) \in Seq(W)
<1>1. PICK A, B : A = Words(S) /\ B = Words(T)
  OBVIOUS
<1>2. normalise(quote) \in Seq(A) /\ normalise(text) \in Seq(B)
  BY <1>1, NormalisedTexts
<1>3. A \subseteq A \cup B /\ B \subseteq A \cup B
  OBVIOUS
<1>4. normalise(quote) \in Seq(A \cup B) /\ normalise(text) \in Seq(A \cup B)
  BY <1>2, <1>3, SeqMonotonic
<1> QED BY <1>4

(* A verified score is a percentage. *)
LEMMA ScoresArePercentages ==
  ASSUME NEW S, NEW T, NEW quote \in Seq(S), NEW text \in Seq(T)
  PROVE  StandsIn(quote, text).score \in 0..100
<1> DEFINE q == normalise(quote)
           t == normalise(text)
           match == best_match(q, t)
<1>1. PICK W : q \in Seq(W) /\ t \in Seq(W)
  BY CommonWords
<1>2. StandsIn(quote, text).score = match.score
  BY DEF StandsIn
<1> HIDE DEF q, t
<1>3. match.score \in 0..100
  <2>1. CASE q = <<>> \/ t = <<>>
    BY <2>1 DEF best_match
  <2>2. CASE q # <<>> /\ t # <<>>
    BY <1>1, <2>2, TheBestMatch
  <2> QED BY <2>1, <2>2
<1> HIDE DEF match
<1> QED BY <1>2, <1>3

(* The first place where a window occurs, and the passage there. *)
IsFirstPassage(window, text, i, j) ==
  /\ i = Min(Occurrences(window, text)) /\ i <= j
  /\ window = SubSeq(text, i, j) /\ Len(window) = j - i + 1

(* A window that occurs has a first place where it does. *)
LEMMA TheFirstOccurrence ==
  ASSUME NEW W, NEW text \in Seq(W), NEW window \in Seq(W), window # <<>>,
         Occurrences(window, text) # {}
  PROVE  \E i, j \in 1..Len(text) : IsFirstPassage(window, text, i, j)
<1> DEFINE n == Len(window)
           found == Occurrences(window, text)
           i == Min(found)
<1>1. n \in Nat /\ 1 <= n /\ Len(text) \in Nat /\ DOMAIN text = 1..Len(text)
  <2>1. Len(window) \in Nat \ {0}
    BY EmptySeq
  <2> QED BY <2>1, LenProperties
<1>2. found \in SUBSET (1..Len(text)) /\ found # {}
  BY <1>1 DEF Occurrences
<1>3. i \in found
  <2> HIDE DEF found
  <2> QED BY <1>1, <1>2, LeastOf
<1>4. i \in 1..Len(text) /\ Window(text, i, n) = window
  <2> HIDE DEF i
  <2> QED BY <1>1, <1>3 DEF Occurrences
<1> HIDE DEF i, found
<1>5. PICK j \in i..Len(text) :
        Window(text, i, n) = SubSeq(text, i, j) /\ Len(Window(text, i, n)) = j - i + 1
  <2>1. 1 <= n /\ n \in Nat /\ i \in 1..Len(text)
    BY <1>1, <1>4
  <2> HIDE DEF n
  <2> QED BY <2>1, WindowsArePassages
<1>6. window = SubSeq(text, i, j) /\ Len(window) = j - i + 1 /\ i <= j /\ j \in 1..Len(text)
  BY <1>1, <1>4, <1>5
<1>7. i = Min(Occurrences(window, text))
  BY DEF i, found
<1>8. IsFirstPassage(window, text, i, j)
  BY <1>6, <1>7 DEF IsFirstPassage
<1> QED BY <1>4, <1>6, <1>8

(* Where a quote is found to stand, some passage grounds it. *)
LEMMA StandingIsGrounded ==
  ASSUME NEW S, NEW T, NEW quote \in Seq(S), NEW text \in Seq(T), StandsIn(quote, text).stands
  PROVE  \E i, j \in DOMAIN normalise(text) : IsGrounds(normalise(quote), normalise(text), i, j)
<1> DEFINE q == normalise(quote)
           t == normalise(text)
           match == best_match(q, t)
           window == match.window
           found == Occurrences(window, t)
<1>1. PICK W : q \in Seq(W) /\ t \in Seq(W)
  BY CommonWords
<1>2. q # <<>> /\ match.score >= Threshold /\ missing_numbers(q, t, window) = {}
  <2> HIDE DEF q, t
  <2> QED BY DEF StandsIn, q, t
<1> HIDE DEF q, t
<1>3. Threshold \in 1..100
  BY SearchAssumption
<1>4. t # <<>>
  <2> SUFFICES ASSUME t = <<>> PROVE FALSE
    OBVIOUS
  <2>1. match = [score |-> 0, window |-> <<>>]
    BY DEF best_match
  <2> HIDE DEF match
  <2>2. match.score = 0
    BY <2>1
  <2> QED BY <1>2, <1>3, <2>2
<1>5. PICK p \in 1..Len(t) : window = Window(t, p, Len(q)) /\ match.score = Ratio(q, window)
  BY <1>1, <1>2, <1>4, TheBestMatch
<1> HIDE DEF match
<1>6. Len(q) \in Nat /\ 1 <= Len(q) /\ Len(t) \in Nat /\ DOMAIN t = 1..Len(t)
  <2>1. Len(q) \in Nat \ {0}
    BY <1>1, <1>2, EmptySeq
  <2> QED BY <1>1, <2>1, LenProperties
<1>7. /\ window \in Seq(W)
      /\ \E e \in p..Len(t) : window = SubSeq(t, p, e) /\ Len(window) = e - p + 1
  <2>1. p \in 1..Len(t) /\ Len(q) \in Nat /\ 1 <= Len(q) /\ t \in Seq(W)
    BY <1>1, <1>6
  <2>2. window = Window(t, p, Len(q))
    BY <1>5
  <2> HIDE DEF window
  <2> QED BY <2>1, <2>2, WindowsArePassages, ZenonT(30)
<1> HIDE DEF window
<1>8. PICK e \in p..Len(t) : window = SubSeq(t, p, e) /\ Len(window) = e - p + 1
  BY <1>7
<1>9. window # <<>> /\ found # {}
  <2>1. Len(window) \in Nat /\ 1 <= Len(window)
    BY <1>6, <1>8
  <2>2. window # <<>>
    <3>1. window = <<>> => Len(window) = 0
      OBVIOUS
    <3> QED BY <2>1, <3>1
  <2>3. Window(t, p, Len(window)) = window
    <3>1. p + Len(window) - 1 = e
      BY <1>6, <1>8
    <3>2. Min({e, Len(t)}) = e
      <4>1. e \in Int /\ Len(t) \in Int /\ e <= Len(t)
        BY <1>6, <1>8
      <4> QED BY <4>1, MinOfTwo
    <3> QED BY <1>8, <3>1, <3>2 DEF Window
  <2>4. p \in found
    BY <1>6, <2>3 DEF Occurrences
  <2> QED BY <2>2, <2>4
<1>10. PICK i, j \in 1..Len(t) : IsFirstPassage(window, t, i, j)
  BY <1>1, <1>7, <1>9, TheFirstOccurrence
<1> HIDE DEF found
<1>11. i = Min(found) /\ window = SubSeq(t, i, j) /\ Len(window) = j - i + 1 /\ i <= j
  BY <1>10 DEF IsFirstPassage, found
<1>12. \A n \in numbers_in(q) : IsReadNear(n, t, From(i), To(t, j))
  <2>1. Min(found) + Len(window) + Context - 1 = j + Context
    <3>1. Context \in Nat /\ i \in Int /\ j \in Int
      BY SearchAssumption
    <3>2. i + (j - i + 1) + Context - 1 = j + Context
      BY <3>1
    <3> QED BY <1>11, <3>2
  <2>2. missing_numbers(q, t, window) = numbers_in(q) \ numbers_in(SubSeq(t, From(i), To(t, j)))
    BY <1>9, <1>11, <2>1 DEF missing_numbers, From, To, found
  <2>3. From(i) \in 1..Len(t) /\ To(t, j) \in From(i)..Len(t)
    <3>1. j \in i..Len(t)
      BY <1>6, <1>11
    <3>2. From(i) \in 1..i /\ To(t, j) \in j..Len(t)
      BY <1>6, <3>1, TheRegion
    <3> QED BY <1>6, <3>1, <3>2
  <2>4. \A n \in numbers_in(SubSeq(t, From(i), To(t, j))) : IsReadNear(n, t, From(i), To(t, j))
    <3>1. PICK lo, hi : lo = From(i) /\ hi = To(t, j)
      OBVIOUS
    <3> QED BY <1>1, <2>3, <3>1, NumbersOfRegions
  <2> QED BY <1>2, <2>2, <2>4
<1>13. IsGrounds(q, t, i, j)
  <2>1. Ratio(q, SubSeq(t, i, j)) >= Threshold
    BY <1>2, <1>5, <1>11
  <2> QED BY <1>11, <1>12, <2>1 DEF IsGrounds
<1>14. i \in DOMAIN t /\ j \in DOMAIN t
  BY <1>6, <1>11
<1> QED BY <1>13, <1>14 DEF q, t

(* Where a text holds a passage, the passage occurs. *)
LEMMA PartsOccur ==
  ASSUME NEW W, NEW head \in Seq(W), NEW needle \in Seq(W), NEW tail \in Seq(W), needle # <<>>
  PROVE  Occurrences(needle, (head \o needle) \o tail) # {}
<1> DEFINE front == head \o needle
           text == front \o tail
           p == Len(head) + 1
           e == Len(head) + Len(needle)
<1>1. /\ Len(head) \in Nat /\ Len(needle) \in Nat /\ 1 <= Len(needle) /\ Len(tail) \in Nat
  <2>1. Len(needle) \in Nat \ {0}
    BY EmptySeq
  <2> QED BY <2>1, LenProperties
<1>2. front \in Seq(W) /\ Len(front) = e
      /\ \A k \in 1..e : front[k] = IF k <= Len(head) THEN head[k] ELSE needle[k - Len(head)]
  BY ConcatProperties
<1> HIDE DEF front
<1>3. text \in Seq(W) /\ Len(text) = e + Len(tail)
      /\ \A k \in 1..(e + Len(tail)) : text[k] = IF k <= e THEN front[k] ELSE tail[k - e]
  <2>1. PICK f \in Seq(W) : f = front
    BY <1>2
  <2>2. /\ f \o tail \in Seq(W) /\ Len(f \o tail) = Len(f) + Len(tail)
        /\ \A k \in 1..(Len(f) + Len(tail)) :
             (f \o tail)[k] = IF k <= Len(f) THEN f[k] ELSE tail[k - Len(f)]
    BY ConcatProperties
  <2> HIDE DEF e
  <2> QED BY <1>2, <2>1, <2>2
<1> HIDE DEF text
<1>4. e \in Nat /\ p \in 1..Len(text) /\ p <= e /\ e <= Len(text)
  BY <1>1, <1>3
<1>5. Window(text, p, Len(needle)) = SubSeq(text, p, e)
  <2>1. p + Len(needle) - 1 = e
    BY <1>1
  <2>2. Min({e, Len(text)}) = e
    <3>1. e \in Int /\ Len(text) \in Int /\ e <= Len(text)
      BY <1>1, <1>3, <1>4
    <3> HIDE DEF e
    <3> QED BY <3>1, MinOfTwo
  <2> HIDE DEF e, p
  <2> QED BY <2>1, <2>2 DEF Window
<1>6. SubSeq(text, p, e) = needle
  <2>1. \A k \in p..e : text[k] \in W
    <3>1. \A k \in p..e : k \in 1..Len(text)
      BY <1>1, <1>4
    <3> QED BY <1>3, <3>1, ElementOfSeq
  <2>2. /\ SubSeq(text, p, e) \in Seq(W)
        /\ Len(SubSeq(text, p, e)) = IF p <= e THEN e - p + 1 ELSE 0
        /\ \A k \in 1..(e - p + 1) : SubSeq(text, p, e)[k] = text[p + k - 1]
    <3>1. p \in Int /\ e \in Int
      BY <1>1
    <3> HIDE DEF p, e
    <3> QED BY <2>1, <3>1, SubSeqProperties
  <2>3. e - p + 1 = Len(needle)
    BY <1>1
  <2>4. \A k \in 1..Len(needle) : text[p + k - 1] = needle[k]
    <3> SUFFICES ASSUME NEW k \in 1..Len(needle) PROVE text[p + k - 1] = needle[k]
      OBVIOUS
    <3>1. PICK l : l = p + k - 1
      OBVIOUS
    <3>2. l \in 1..(e + Len(tail)) /\ l \in 1..e /\ l <= e /\ ~(l <= Len(head)) /\ l - Len(head) = k
      BY <1>1, <3>1
    <3> HIDE DEF e, p
    <3> QED BY <1>2, <1>3, <3>1, <3>2
  <2>5. Len(SubSeq(text, p, e)) = Len(needle)
    BY <1>4, <2>2, <2>3
  <2> DEFINE part == SubSeq(text, p, e)
  <2>6. part \in Seq(W) /\ Len(part) = Len(needle) /\ \A k \in 1..Len(part) : part[k] = needle[k]
    <3> HIDE DEF e, p
    <3> QED BY <2>2, <2>3, <2>4, <2>5
  <2>7. part = needle
    <3> HIDE DEF part
    <3> QED BY <2>6, SeqEqual
  <2> QED BY <2>7
<1>7. p \in Occurrences(needle, text)
  <2>1. DOMAIN text = 1..Len(text)
    BY <1>3, LenProperties
  <2> HIDE DEF p, e
  <2> QED BY <1>4, <1>5, <1>6, <2>1 DEF Occurrences
<1> QED BY <1>7 DEF text, front

(* A passage that is copied with its numbers stands, if it is long enough to tell. *)
LEMMA CopiedPassagesStand ==
  ASSUME NEW S, NEW text \in Seq(S), NEW i \in 1..Len(text), NEW j \in 1..Len(text),
         Len(normalise(SubSeq(text, i, j))) >= MinLength,
         KeepsItsNumbers(normalise(SubSeq(text, i, j)), normalise(text))
  PROVE  StandsIn(SubSeq(text, i, j), text).stands
<1> DEFINE quote == SubSeq(text, i, j)
           q == normalise(quote)
           t == normalise(text)
           match == best_match(q, t)
           W == Words(S)
<1>1. Len(text) \in Nat /\ \A k \in 1..Len(text) : text[k] \in S
  BY ElementOfSeq
<1>2. MinLength \in Nat /\ 1 <= MinLength /\ Context \in Nat /\ Threshold \in 1..100
  BY SearchAssumption
<1>3. i <= j
  <2> SUFFICES ASSUME j < i PROVE FALSE
    BY <1>1
  <2>1. quote = <<>>
    BY <1>1, SubSeqEmpty
  <2>2. <<>> \in Seq(S) /\ Len(<<>>) = 0
    OBVIOUS
  <2>3. normalise(<<>>) = <<>>
    <3>1. LastOf(<<>>) = 0
      <4>1. PICK e \in Seq(S) : e = <<>> /\ Len(e) = 0
        BY <2>2
      <4>2. LastOf(e) \in 0..Len(e)
        BY TheLastSymbol
      <4>3. LastOf(e) = 0
        BY <4>1, <4>2
      <4> QED BY <4>1, <4>3
    <3>2. Reduced(<<>>)[0] = <<>>
      BY <2>2, ReducedRuns
    <3> QED BY <3>1, <3>2 DEF normalise, LastOf
  <2>4. Len(q) = 0
    BY <2>1, <2>2, <2>3
  <2> QED BY <1>2, <2>4
<1>4. j \in i..Len(text)
  BY <1>1, <1>3
<1>6. quote \in Seq(S)
  BY <1>1, <1>4, SubSeqProperties
<1>7. q \in Seq(W) /\ t \in Seq(W)
  BY <1>6, NormalisedTexts
<1>8. Len(q) >= MinLength /\ q # <<>>
  <2> HIDE DEF q
  <2>1. q = <<>> => Len(q) = 0
    OBVIOUS
  <2>2. Len(q) >= MinLength
    BY DEF q
  <2> QED BY <1>2, <2>1, <2>2
<1>5. PICK head, tail \in Seq(Words(S)) : normalise(text) = (head \o normalise(SubSeq(text, i, j))) \o tail
  <2>1. Holds(normalise(text), normalise(SubSeq(text, i, j)), Words(S))
    BY <1>4, <1>8, PartsAreReadAlike
  <2> QED BY <2>1 DEF Holds
<1>numbers. KeepsItsNumbers(q, t)
  OBVIOUS
<1> HIDE DEF q, t
<1>9. Occurrences(q, t) # {}
  <2>1. t = (head \o q) \o tail
    BY <1>5 DEF q, t
  <2>2. Occurrences(q, (head \o q) \o tail) # {}
    <3>1. head \in Seq(Words(S)) /\ tail \in Seq(Words(S)) /\ q \in Seq(Words(S))
      BY <1>5, <1>7
    <3> QED BY <1>8, <3>1, PartsOccur
  <2> QED BY <2>1, <2>2
<1>10. t # <<>>
  <2>1. t = <<>> => DOMAIN t = {}
    OBVIOUS
  <2> QED BY <1>9, <2>1 DEF Occurrences
<1>11. match = [score |-> 100, window |-> q]
  BY <1>8, <1>9, <1>10 DEF best_match
<1> HIDE DEF match
<1>12. match.score = 100 /\ match.window = q
  BY <1>11
<1>13. PICK x, y \in 1..Len(t) : IsFirstPassage(q, t, x, y)
  BY <1>7, <1>8, <1>9, TheFirstOccurrence
<1>14. x = Min(Occurrences(q, t)) /\ x <= y /\ q = SubSeq(t, x, y) /\ Len(q) = y - x + 1
  BY <1>13 DEF IsFirstPassage
<1>15. Len(t) \in Nat
  BY <1>7, LenProperties
<1>first. Min(Occurrences(q, t)) \in Occurrences(q, t)
  <2>1. Occurrences(q, t) \in SUBSET (1..Len(t))
    BY <1>7, LenProperties DEF Occurrences
  <2> QED BY <1>9, <1>15, <2>1, LeastOf
<1> DEFINE lo == Max({1, x - Context})
           hi == Min({Len(t), y + Context})
<1>16. lo \in 1..x /\ hi \in y..Len(t)
  <2>1. x \in Int /\ y \in Int /\ x - Context \in Int /\ y + Context \in Int /\ Len(t) \in Int
    BY <1>2, <1>15
  <2>2. lo = IF 1 >= x - Context THEN 1 ELSE x - Context
    BY <2>1, MaxOfTwo
  <2>3. hi = IF Len(t) <= y + Context THEN Len(t) ELSE y + Context
    BY <2>1, MinOfTwo
  <2> HIDE DEF lo, hi
  <2> QED BY <1>2, <1>15, <2>2, <2>3
<1>17. missing_numbers(q, t, q) = numbers_in(q) \ numbers_in(SubSeq(t, lo, hi))
  <2>1. x + Len(q) + Context - 1 = y + Context
    <3>1. x \in Int /\ y \in Int /\ Context \in Int
      BY <1>2
    <3>2. x + (y - x + 1) + Context - 1 = y + Context
      BY <3>1
    <3> QED BY <1>14, <3>2
  <2>2. x = Min(Occurrences(q, t))
    BY <1>14
  <2> QED BY <1>8, <1>9, <2>1, <2>2 DEF missing_numbers
<1>18. numbers_in(q) \subseteq numbers_in(SubSeq(t, lo, hi))
  <2> HIDE DEF lo, hi
  <2>1. y \in x..Len(t)
    BY <1>14, <1>15
  <2>2. x \in Occurrences(q, t)
    BY <1>14, <1>first
  <2>3. \A s \in Numerals(q, 1, Len(q)) : Shifted(s, x) \in Numerals(t, 1, Len(t))
    BY <1>numbers, <2>2 DEF KeepsItsNumbers, Shifted
  <2>4. numbers_in(SubSeq(t, x, y)) \subseteq numbers_in(SubSeq(t, lo, hi))
    BY <1>7, <1>14, <1>16, <2>1, <2>3, NumbersOfCopies
  <2> QED BY <1>14, <2>4
<1> HIDE DEF lo, hi
<1>19. missing_numbers(q, t, match.window) = {}
  BY <1>12, <1>17, <1>18
<1>20. match.score >= Threshold
  BY <1>2, <1>12
<1> QED BY <1>8, <1>19, <1>20 DEF StandsIn, q, t, match

-----------------------------------------------------------------------------
(* The build.                                                              *)

(* What of the model's answers fits the format's schema. *)
Items == {r \in RawItems[format] : IsItem(format, r)}

(* What the model may have proposed, and what of it may have been proved. *)
Proposals == {Candidate(r, d) : r \in Items, d \in Range(documents)}
Proven == {Fact(c) : c \in {c \in Proposals : Verified(c)}}

(* The facts of the candidates that stand. *)
Believed == {Fact(c) : c \in {c \in Range(candidates) : Verified(c)}}

(* What the variables that tell the progress of a build may hold. *)
BuildTypes ==
  /\ format \in DOMAIN RawItems
  /\ phase \in {"fetching", "extracting", "verified", "done"}
  /\ at \in Nat \ {0}
  /\ outcome \in {"none", "no_sources", "crashed", "unavailable", "no_items", "too_few", "written"}
  /\ documents \in Seq(Document)

(* Each list holds what the step before it could make. *)
BuildLists ==
  /\ candidates \in Seq(Proposals)
  /\ verified \in Seq(Proven)
  /\ sheet \in Seq(Proven)

(* What each phase has finished, and what each outcome says. *)
BuildSteps ==
  /\ phase = "fetching" => candidates = <<>>
  /\ phase \in {"fetching", "extracting"} => verified = <<>>
  /\ phase # "done" => sheet = <<>>
  /\ phase = "verified" => Believed \subseteq Range(verified)
  /\ (phase = "done") = (outcome # "none")
  /\ outcome = "too_few" => Len(Deduplicated(verified)) < Required
  /\ outcome = "written" => sheet = Cap(Deduplicated(verified), Limit)

(* The inductive invariant. *)
BuildInv == BuildTypes /\ BuildLists /\ BuildSteps

(* What a document says is a text. *)
LEMMA DocumentsAreTexts ==
  ASSUME NEW d \in Document
  PROVE  Text[d] \in Seq(Range(Text[d]))
BY SourcesAssumption DEF Document

(* A quote is a text. *)
LEMMA QuotesAreTexts ==
  ASSUME NEW q \in Quotes
  PROVE  q \in Seq(Range(q))
<1>1. PICK f \in DOMAIN RawItems : q \in {r.quote : r \in RawItems[f]}
  BY DEF Quotes
<1>2. PICK r \in RawItems[f] : q = r.quote
  BY <1>1
<1> QED BY <1>2, AnswersAssumption

(* How well a quote matches a document is a percentage. *)
LEMMA MatchesAreScored ==
  ASSUME NEW q \in Quotes, NEW d \in Document
  PROVE  Match[q][d].score \in 0..100
<1>1. q \in Seq(Range(q)) /\ Text[d] \in Seq(Range(Text[d]))
  BY QuotesAreTexts, DocumentsAreTexts
<1>2. Match[q][d] = StandsIn(q, Text[d])
  BY DEF Match
<1>3. StandsIn(q, Text[d]).score \in 0..100
  BY <1>1, ScoresArePercentages
<1> QED BY <1>2, <1>3

(* What stands in a document is grounded there. *)
LEMMA MatchesAreGrounded ==
  ASSUME NEW q \in Quotes, NEW d \in Document, Match[q][d].stands
  PROVE  Grounds[q][d]
<1>1. q \in Seq(Range(q)) /\ Text[d] \in Seq(Range(Text[d]))
  BY QuotesAreTexts, DocumentsAreTexts
<1>2. StandsIn(q, Text[d]).stands
  BY DEF Match
<1>3. PICK i, j \in DOMAIN normalise(Text[d]) : IsGrounds(normalise(q), normalise(Text[d]), i, j)
  BY <1>1, <1>2, StandingIsGrounded
<1> QED BY <1>3 DEF Grounds, IsGrounds, From, To

(* What is copied from a document, numbers and all, and long enough, stands in it. *)
LEMMA CopiesStand ==
  ASSUME NEW q \in Quotes, NEW d \in Document, Copies[q][d]
  PROVE  Match[q][d].stands
<1>1. Text[d] \in Seq(Range(Text[d]))
  BY DocumentsAreTexts
<1>2. /\ Len(normalise(q)) >= MinLength
      /\ \E i, j \in DOMAIN Text[d] : SubSeq(Text[d], i, j) = q
      /\ KeepsItsNumbers(normalise(q), normalise(Text[d]))
  BY DEF Copies
<1>3. PICK i, j \in DOMAIN Text[d] : SubSeq(Text[d], i, j) = q
  BY <1>2
<1>4. DOMAIN Text[d] = 1..Len(Text[d])
  BY <1>1, LenProperties
<1>5. StandsIn(SubSeq(Text[d], i, j), Text[d]).stands
  <2>1. /\ Len(normalise(SubSeq(Text[d], i, j))) >= MinLength
        /\ KeepsItsNumbers(normalise(SubSeq(Text[d], i, j)), normalise(Text[d]))
    BY <1>2, <1>3
  <2> QED BY <1>1, <1>3, <1>4, <2>1, CopiedPassagesStand
<1> QED BY <1>3, <1>5 DEF Match

(* The documents fetched are documents the sources can find. *)
LEMMA DocumentsRead ==
  ASSUME documents \in Seq(Document)
  PROVE  /\ Len(documents) \in Nat /\ DOMAIN documents = 1..Len(documents)
         /\ Range(documents) \subseteq Document
         /\ \A i \in 1..Len(documents) : documents[i] \in Range(documents)
<1>1. Len(documents) \in Nat /\ DOMAIN documents = 1..Len(documents)
      /\ \A i \in 1..Len(documents) : documents[i] \in Document
  BY ElementOfSeq
<1> QED BY <1>1 DEF Range

(* The last document of a URL is one that was fetched from it. *)
LEMMA TheLastOfAUrl ==
  ASSUME documents \in Seq(Document), NEW url \in Urls
  PROVE  /\ LastFrom(url) \in Range(documents) /\ LastFrom(url) \in Document
         /\ Url[LastFrom(url)] = url
<1> DEFINE T == {i \in DOMAIN documents : Url[documents[i]] = url}
<1>1. T \in SUBSET (0..Len(documents)) /\ Len(documents) \in Nat
  BY DocumentsRead
<1>2. T # {}
  BY DEF Urls, Range
<1>3. PICK e \in T : \A y \in T : e >= y
  <2> HIDE DEF T
  <2> QED BY <1>1, <1>2, GreatestNumber
<1>4. Max(T) \in T
  <2> HIDE DEF T
  <2> QED BY <1>3 DEF Max
<1>5. PICK i : i = Max(T)
  OBVIOUS
<1>6. i \in DOMAIN documents /\ Url[documents[i]] = url
  BY <1>4, <1>5
<1>7. LastFrom(url) = documents[i]
  BY <1>5 DEF LastFrom
<1>8. documents[i] \in Range(documents) /\ documents[i] \in Document
  BY <1>6, DocumentsRead
<1> QED BY <1>6, <1>7, <1>8

(* What is proposed is of the schema and was read from a document. *)
LEMMA WhatIsProposed ==
  ASSUME BuildTypes, NEW c \in Proposals
  PROVE  /\ c.key \in Int /\ c.label \in Nat /\ IsFiniteSet(c.claim)
         /\ c.quote \in Quotes /\ c.from \in Urls
<1>1. PICK r \in Items, d \in Range(documents) : c = Candidate(r, d)
  BY DEF Proposals
<1>2. r \in RawItems[format] /\ IsItem(format, r) /\ format \in DOMAIN RawItems
  BY DEF Items, BuildTypes
<1>3. /\ r = [ key |-> r.key, context |-> r.context, label |-> r.label,
               claim |-> r.claim, quote |-> r.quote ]
      /\ r.key \in Int \cup {NoNumber, Missing} /\ r.label \in Nat /\ IsFiniteSet(r.claim)
  BY <1>2, AnswersAssumption
<1>4. r.quote \in Quotes
  BY <1>2 DEF Quotes
<1> DEFINE item == parse_item(format, r)
<1>5. item.key \in Int /\ item.label = r.label /\ item.claim = r.claim /\ item.quote = r.quote
  <2>1. DOMAIN r = {"key", "context", "label", "claim", "quote"}
    BY <1>3
  <2>2. CASE format = "history_timeline"
    <3>1. item = Dated(r) /\ r.key # NoNumber
      BY <1>2, <2>2 DEF parse_item, IsItem, IsEvent
    <3>2. Dated(r) = [r EXCEPT !.key = IF r.key = Missing THEN 0 ELSE r.key]
      BY DEF Dated
    <3> QED BY <1>3, <2>1, <3>1, <3>2
  <2>3. CASE format # "history_timeline"
    <3>1. item = Rated(r)
      BY <2>3 DEF parse_item
    <3>2. Rated(r) = [r EXCEPT !.key = IF r.key \in {NoNumber, Missing} THEN 3 ELSE r.key]
      BY DEF Rated
    <3> QED BY <1>3, <2>1, <3>1, <3>2
  <2> QED BY <2>2, <2>3
<1>6. /\ c.key = item.key /\ c.label = item.label /\ c.claim = item.claim
      /\ c.quote = item.quote /\ c.from = Url[d]
  BY <1>1 DEF Candidate
<1>7. Url[d] \in Urls
  BY DEF Urls
<1> HIDE DEF item
<1> QED BY <1>3, <1>4, <1>5, <1>6, <1>7

(* What is proved is a fact of use, and stands where it is attributed to. *)
LEMMA WhatIsProved ==
  ASSUME BuildTypes, NEW c \in Proposals, Verified(c)
  PROVE  /\ IsFact(Fact(c)) /\ Fact(c).score \in 0..100
         /\ Fact(c).source \in Urls /\ Fact(c).quote \in Quotes
         /\ Match[Fact(c).quote][LastFrom(Fact(c).source)].stands
         /\ IsPlausible(format, Fact(c))
         /\ Fact(c).quote = c.quote /\ Fact(c).claim = c.claim /\ Fact(c).key = c.key
<1>1. /\ c.key \in Int /\ c.label \in Nat /\ IsFiniteSet(c.claim) /\ c.quote \in Quotes
  BY WhatIsProposed
<1> DEFINE first == Min(Standing(c.quote))
           url == FirstUrl(c)
           d == LastFrom(url)
<1>2. IsPlausible(format, c) /\ Standing(c.quote) # {}
  BY DEF Verified
<1>3. documents \in Seq(Document)
  BY DEF BuildTypes
<1>4. first \in Standing(c.quote)
  <2>1. Standing(c.quote) \in SUBSET (1..Len(documents)) /\ Len(documents) \in Nat
    BY <1>3, DocumentsRead DEF Standing
  <2> QED BY <1>2, <2>1, LeastOf
<1>5. first \in 1..Len(documents) /\ url = Url[documents[first]] /\ Match[c.quote][d].stands
  <2>1. url = Url[documents[first]]
    BY DEF FirstUrl
  <2> HIDE DEF first, url
  <2> QED BY <1>3, <1>4, <2>1, DocumentsRead DEF Standing
<1> HIDE DEF first, url
<1>6. url \in Urls
  BY <1>3, <1>5, DocumentsRead DEF Urls
<1>7. Match[c.quote][d].score \in 0..100
  BY <1>1, <1>3, <1>6, TheLastOfAUrl, MatchesAreScored
<1>8. Fact(c) = [ key |-> c.key, label |-> c.label, claim |-> c.claim, quote |-> c.quote,
                  group |-> c.group, source |-> url, score |-> Match[c.quote][d].score ]
  BY DEF Fact, FactOf, url
<1>9. /\ Fact(c).key = c.key /\ Fact(c).label = c.label /\ Fact(c).claim = c.claim
      /\ Fact(c).quote = c.quote /\ Fact(c).source = url /\ Fact(c).score = Match[c.quote][d].score
  BY <1>8
<1>10. IsPlausible(format, Fact(c))
  BY <1>2, <1>9 DEF IsPlausible, IsHistory, IsSurprise
<1>11. IsFact(Fact(c))
  BY <1>1, <1>7, <1>9 DEF IsFact
<1> QED BY <1>1, <1>5, <1>6, <1>7, <1>9, <1>10, <1>11

(* What is known of a fact that may have been proved. *)
LEMMA ProvenFacts ==
  ASSUME BuildTypes
  PROVE  \A f \in Proven :
           /\ IsFact(f) /\ f.score \in 0..100
           /\ f.source \in Urls /\ f.quote \in Quotes
           /\ Match[f.quote][LastFrom(f.source)].stands
           /\ IsPlausible(format, f)
BY WhatIsProved DEF Proven

(* The verifying loop leaves the facts of all the candidates that stand. *)
LEMMA StoodRuns ==
  ASSUME candidates \in Seq(Proposals)
  PROVE  LET stood == Stood(candidates)[Len(candidates)]
         IN  /\ stood \in Seq(Proven)
             /\ \A i \in DOMAIN candidates :
                  Verified(candidates[i]) => Fact(candidates[i]) \in Range(stood)
<1> DEFINE n == Len(candidates)
           Turn(left, c) == IF Verified(c) THEN Append(left, Fact(c)) ELSE left
           body == [k \in 1..n |-> [left \in Seq(Proven) |-> Turn(left, candidates[k])]]
<1>1. n \in Nat /\ DOMAIN candidates = 1..n /\ \A k \in 1..n : candidates[k] \in Proposals
  BY ElementOfSeq
<1>2. \A k \in 1..n : Verified(candidates[k]) => Fact(candidates[k]) \in Proven
  BY <1>1 DEF Proven
<1>3. \A left \in Seq(Proven) : \A k \in 1..n : Turn(left, candidates[k]) \in Seq(Proven)
  BY <1>2
<1>4. body \in [1..n -> [Seq(Proven) -> Seq(Proven)]]
  <2> HIDE DEF Turn
  <2> QED BY <1>3
<1>5. <<>> \in Seq(Proven)
  OBVIOUS
<1>6. PICK f \in [0..n -> Seq(Proven)] : LoopRuns(f, <<>>, n, body)
  <2>1. PICK S, g, m : S = Seq(Proven) /\ g = body /\ m = n
    OBVIOUS
  <2>2. m \in Nat /\ g \in [1..m -> [S -> S]] /\ <<>> \in S
    BY <1>1, <1>4, <1>5, <2>1
  <2>3. \E f \in [0..m -> S] : LoopRuns(f, <<>>, m, g)
    BY <2>2, LoopExists
  <2> HIDE DEF body, n
  <2> QED BY <2>1, <2>3
<1> HIDE DEF Turn
<1>7. \A k \in 1..n : f[k] = Turn(f[k - 1], candidates[k])
  <2>1. \A k \in 1..n : k - 1 \in 0..n
    BY <1>1
  <2> HIDE DEF n
  <2>2. \A k \in 1..n : f[k - 1] \in Seq(Proven)
    BY <1>6, <2>1
  <2> QED BY <1>6, <2>2 DEF LoopRuns
<1>8. f = [k \in 0..n |-> IF k = 0 THEN <<>> ELSE Turn(f[k - 1], candidates[k])]
  BY <1>6, <1>7 DEF LoopRuns
<1> DEFINE stood == Stood(candidates)
<1>9. stood = [k \in 0..n |-> IF k = 0 THEN <<>> ELSE Turn(stood[k - 1], candidates[k])]
  BY <1>8 DEF Stood, Turn
<1> HIDE DEF stood
<1>10. stood[0] = <<>> /\ \A k \in 1..n : stood[k] = Turn(stood[k - 1], candidates[k])
  BY <1>1, <1>9
<1> DEFINE HasAll(left, k) ==
             left \in Seq(Proven)
             /\ \A i \in 1..k : Verified(candidates[i]) => Fact(candidates[i]) \in Range(left)
           T == {k \in 0..n : HasAll(stood[k], k)}
<1>11. 0 \in T
  <2>1. 0 \in 0..n
    BY <1>1
  <2>2. \A i \in 1..0 : FALSE
    OBVIOUS
  <2>3. HasAll(stood[0], 0)
    BY <1>5, <1>10, <2>2
  <2> HIDE DEF HasAll, n
  <2> QED BY <2>1, <2>3
<1>12. ASSUME NEW k \in 1..n, k - 1 \in T PROVE k \in T
  <2> DEFINE left == stood[k - 1]
             fact == Fact(candidates[k])
  <2>1. HasAll(left, k - 1)
    BY <1>12
  <2>2. stood[k] = Turn(left, candidates[k])
    BY <1>10
  <2>3. ASSUME Verified(candidates[k]) PROVE HasAll(stood[k], k)
    <3>1. stood[k] = Append(left, fact) /\ fact \in Proven /\ left \in Seq(Proven)
      BY <1>2, <2>1, <2>2, <2>3 DEF Turn
    <3> HIDE DEF fact, left
    <3>2. Append(left, fact) \in Seq(Proven)
      BY <3>1
    <3>3. Range(Append(left, fact)) = Range(left) \cup {fact}
      <4>1. PICK S : S = Proven
        OBVIOUS
      <4>2. /\ Len(Append(left, fact)) = Len(left) + 1
            /\ \A i \in 1..Len(left) : Append(left, fact)[i] = left[i]
            /\ Append(left, fact)[Len(left) + 1] = fact
            /\ Len(left) \in Nat
        BY <3>1, <4>1, AppendProperties, LenProperties
      <4>3. DOMAIN left = 1..Len(left) /\ DOMAIN Append(left, fact) = 1..(Len(left) + 1)
        BY <3>1, <3>2, <4>2, LenProperties
      <4>4. \A i \in 1..(Len(left) + 1) : i \in 1..Len(left) \/ i = Len(left) + 1
        BY <4>2
      <4>5. Len(left) + 1 \in 1..(Len(left) + 1) /\ \A i \in 1..Len(left) : i \in 1..(Len(left) + 1)
        BY <4>2
      <4> QED BY <4>2, <4>3, <4>4, <4>5 DEF Range
    <3>4. \A i \in 1..k : i \in 1..(k - 1) \/ i = k
      OBVIOUS
    <3>5. \A i \in 1..k : Verified(candidates[i]) => Fact(candidates[i]) \in Range(stood[k])
      <4>1. fact \in Range(stood[k]) /\ Range(left) \subseteq Range(stood[k])
        BY <3>1, <3>3
      <4>2. \A i \in 1..(k - 1) : Verified(candidates[i]) => Fact(candidates[i]) \in Range(left)
        BY <2>1
      <4> QED BY <3>4, <4>1, <4>2 DEF fact
    <3> QED BY <3>1, <3>2, <3>5
  <2>4. ASSUME ~Verified(candidates[k]) PROVE HasAll(stood[k], k)
    <3>1. stood[k] = left
      BY <2>2, <2>4 DEF Turn
    <3>2. \A i \in 1..k : i \in 1..(k - 1) \/ i = k
      OBVIOUS
    <3> QED BY <2>1, <2>4, <3>1, <3>2
  <2>5. HasAll(stood[k], k)
    <3> HIDE DEF HasAll
    <3> QED BY <2>3, <2>4
  <2>6. k \in 0..n
    BY <1>1
  <2> HIDE DEF HasAll, n
  <2> QED BY <2>5, <2>6
<1>13. n \in T
  <2>1. 0..n \subseteq T
    <3> HIDE DEF T, n
    <3> QED BY <1>1, <1>11, <1>12, CountingUp
  <2>2. n \in 0..n
    BY <1>1
  <2> HIDE DEF T, n
  <2> QED BY <2>1, <2>2
<1>14. HasAll(stood[n], n)
  <2> HIDE DEF HasAll
  <2> QED BY <1>13
<1> QED BY <1>1, <1>14 DEF stood

(* The bar and the cap are positive, and the cap is never below the bar. *)
LEMMA RequiredIsANumber ==
  ASSUME BuildTypes
  PROVE  /\ Required \in Nat \ {0} /\ Limit \in Nat \ {0}
         /\ Required <= Limit
<1>1. MinFacts \in Nat /\ MaxItems \in Nat /\ format \in Formats
  BY BuildAssumption DEF BuildTypes
<1>2. Required \in Nat \ {0}
  BY <1>1 DEF Required, GateRules, Formats
<1>3. Limit = IF MaxItems >= Required THEN MaxItems ELSE Required
  <2>1. MaxItems \in Int /\ Required \in Int
    BY <1>1, <1>2
  <2> QED BY <2>1, MaxOfTwo DEF Limit
<1> QED BY <1>1, <1>2, <1>3

(* What the de-duplication and the cap make of proven facts. *)
LEMMA WhatIsWritten ==
  ASSUME BuildTypes, verified \in Seq(Proven)
  PROVE  LET facts == Deduplicated(verified)
             written == Cap(facts, Limit)
         IN  /\ facts \in Seq(Proven) /\ written \in Seq(Proven)
             /\ Len(written) < Required => Len(facts) < Required
             /\ Cardinality(Groups(written)) = Min({Limit, Cardinality(Groups(facts))})
<1> DEFINE facts == Deduplicated(verified)
           written == Cap(facts, Limit)
<1>1. PICK S, limit : S = Proven /\ limit = Limit
  OBVIOUS
<1>2. \A f \in S : IsFact(f)
  BY <1>1, ProvenFacts
<1>3. limit \in Nat \ {0} /\ Required \in Nat /\ Required <= limit
  BY <1>1, RequiredIsANumber
<1>4. facts \in Seq(S)
  BY <1>1, <1>2, DeduplicatedFacts
<1> HIDE DEF facts
<1>5. PICK fs \in Seq(S) : fs = facts
  BY <1>4
<1>6. /\ Cap(fs, limit) \in Seq(S)
      /\ Len(Cap(fs, limit)) = IF Len(fs) <= limit THEN Len(fs) ELSE limit
      /\ Cardinality(Groups(Cap(fs, limit))) = Min({limit, Cardinality(Groups(fs))})
  BY <1>2, <1>3, CapKeepsVariety
<1>7. Len(fs) \in Nat
  BY LenProperties
<1>8. Len(Cap(fs, limit)) < Required => Len(fs) < Required
  BY <1>3, <1>6, <1>7
<1>9. Cap(fs, limit) = written
  BY <1>1, <1>5
<1> HIDE DEF written
<1> QED BY <1>1, <1>4, <1>5, <1>6, <1>8, <1>9 DEF facts, written

(* The same proposals and the same facts, while the documents are the same. *)
LEMMA ProvenStays ==
  ASSUME format' = format, documents' = documents
  PROVE  Proposals' = Proposals /\ Proven' = Proven
<1>1. Items' = Items
  BY DEF Items
<1>2. Proposals' = Proposals
  BY <1>1 DEF Proposals, Candidate
<1>3. Proven' = Proven
  BY <1>2 DEF Proven, Fact, FirstUrl, Verified, Standing, LastFrom
<1> QED BY <1>2, <1>3

(* Nor does what is believed change while the candidates do not. *)
LEMMA BelievedStays ==
  ASSUME format' = format, documents' = documents, candidates' = candidates
  PROVE  Believed' = Believed
BY DEF Believed, Fact, FirstUrl, Verified, Standing, LastFrom

(* What a source finds are documents of its own. *)
LEMMA WhatIsFound ==
  ASSUME NEW i \in DOMAIN Fetchers, NEW found \in Finds(Fetchers[i])
  PROVE  found \in Seq(Document)
<1> DEFINE source == Fetchers[i]
<1>1. \A d \in Range(source) : d \in Document
  BY DEF Document
<1>2. PICK n \in 0..Len(source) :
        \E pick \in [1..n -> DOMAIN source] : found = [k \in 1..n |-> source[pick[k]]]
  BY DEF Finds
<1>3. PICK pick \in [1..n -> DOMAIN source] : found = [k \in 1..n |-> source[pick[k]]]
  BY <1>2
<1>4. n \in Nat
  BY <1>2
<1>5. \A k \in 1..n : source[pick[k]] \in Document
  BY <1>1 DEF Range
<1> HIDE DEF source
<1> QED BY <1>3, <1>4, <1>5

(* A build begins with nothing. *)
LEMMA BuildInvInitially ==
  ASSUME Init
  PROVE  BuildInv
<1>1. BuildTypes
  <2>1. <<>> \in Seq(Document) /\ 1 \in Nat \ {0}
    OBVIOUS
  <2> QED BY <2>1 DEF Init, BuildTypes
<1>2. BuildLists
  BY DEF Init, BuildLists
<1>3. BuildSteps
  BY DEF Init, BuildSteps
<1> QED BY <1>1, <1>2, <1>3 DEF BuildInv

(* Documents are only added, so what refers to one still does. *)
LEMMA FetchNextKeeps ==
  ASSUME BuildInv, FetchNext
  PROVE  BuildInv'
<1>1. PICK found \in Finds(Fetchers[at]) : documents' = documents \o found
  BY DEF FetchNext
<1>2. at \in DOMAIN Fetchers
  <2>1. at \in Nat \ {0} /\ at <= Len(Fetchers)
    BY DEF FetchNext, BuildInv, BuildTypes
  <2>2. Len(Fetchers) \in Nat /\ DOMAIN Fetchers = 1..Len(Fetchers)
    BY SourcesAssumption, LenProperties
  <2> QED BY <2>1, <2>2
<1>3. found \in Seq(Document)
  BY <1>1, <1>2, WhatIsFound
<1>4. BuildTypes'
  <2>1. documents' \in Seq(Document)
    <3>1. documents \in Seq(Document)
      BY DEF BuildInv, BuildTypes
    <3> QED BY <1>1, <1>3, <3>1
  <2>2. at' \in Nat \ {0}
    BY DEF FetchNext, BuildInv, BuildTypes
  <2>3. Document' = Document
    BY DEF Document
  <2> QED BY <2>1, <2>2, <2>3 DEF FetchNext, BuildInv, BuildTypes
<1>5. candidates = <<>> /\ verified = <<>> /\ sheet = <<>>
  BY DEF FetchNext, BuildInv, BuildSteps
<1>6. candidates' = <<>> /\ verified' = <<>> /\ sheet' = <<>>
  BY <1>5 DEF FetchNext
<1>7. BuildLists'
  BY <1>6 DEF BuildLists
<1>8. BuildSteps'
  BY <1>6 DEF FetchNext, BuildInv, BuildSteps
<1> QED BY <1>4, <1>7, <1>8 DEF BuildInv

(* Fetching ends with documents, or with the refusal for none. *)
LEMMA FetchEndsKeeps ==
  ASSUME BuildInv, FetchEnds
  PROVE  BuildInv'
<1>1. candidates = <<>> /\ verified = <<>> /\ sheet = <<>> /\ outcome = "none"
  BY DEF FetchEnds, BuildInv, BuildSteps
<1>2. candidates' = <<>> /\ verified' = <<>> /\ sheet' = <<>>
  BY <1>1 DEF FetchEnds
<1>3. BuildTypes'
  BY DEF FetchEnds, End, BuildInv, BuildTypes
<1>4. BuildLists'
  BY <1>2 DEF BuildLists
<1>5. BuildSteps'
  BY <1>1, <1>2 DEF FetchEnds, End, BuildInv, BuildSteps
<1> QED BY <1>3, <1>4, <1>5 DEF BuildInv

(* A chunk adds what it proposes, from the document it is of. *)
LEMMA ReadDocumentKeeps ==
  ASSUME BuildInv, ReadDocument
  PROVE  BuildInv'
<1>1. PICK a \in Answers :
        candidates' = candidates \o [i \in DOMAIN a |-> Candidate(a[i], documents[at])]
  BY DEF ReadDocument
<1>2. documents \in Seq(Document) /\ at \in 1..Len(documents)
  <2>1. documents \in Seq(Document) /\ at \in Nat \ {0} /\ at <= Len(documents)
    BY DEF ReadDocument, BuildInv, BuildTypes
  <2> QED BY <2>1, LenProperties
<1>3. documents[at] \in Range(documents)
  BY <1>2, DocumentsRead
<1>4. [i \in DOMAIN a |-> Candidate(a[i], documents[at])] \in Seq(Proposals)
  <2>1. a \in UNION {[1..m -> Items] : m \in 0..MaxPerChunk}
    BY DEF Answers, Completions, BoundedSeq, SeqOf, Items
  <2>2. PICK m \in 0..MaxPerChunk : a \in [1..m -> Items]
    BY <2>1
  <2>3. m \in Nat /\ DOMAIN a = 1..m
    BY <2>2, BuildAssumption
  <2>4. \A i \in 1..m : Candidate(a[i], documents[at]) \in Proposals
    BY <1>3, <2>2 DEF Proposals
  <2> QED BY <2>3, <2>4
<1>5. candidates \in Seq(Proposals) /\ verified = <<>> /\ sheet = <<>>
  BY DEF ReadDocument, BuildInv, BuildLists, BuildSteps
<1>6. candidates' \in Seq(Proposals)
  BY <1>1, <1>4, <1>5
<1>7. Proposals' = Proposals
  BY ProvenStays DEF ReadDocument
<1>8. verified' = <<>> /\ sheet' = <<>>
  BY <1>5 DEF ReadDocument
<1>9. BuildLists'
  BY <1>6, <1>7, <1>8 DEF BuildLists
<1>10. BuildTypes'
  BY DEF ReadDocument, BuildInv, BuildTypes
<1>11. BuildSteps'
  BY <1>8 DEF ReadDocument, BuildInv, BuildSteps
<1> QED BY <1>9, <1>10, <1>11 DEF BuildInv

(* An answer one cannot go through ends the build. *)
LEMMA ItemsAreNoListKeeps ==
  ASSUME BuildInv, ItemsAreNoList
  PROVE  BuildInv'
<1>1. Proposals' = Proposals /\ Proven' = Proven
  BY ProvenStays DEF ItemsAreNoList
<1>2. BuildTypes'
  BY DEF ItemsAreNoList, End, BuildInv, BuildTypes
<1>3. BuildLists'
  BY <1>1 DEF ItemsAreNoList, End, BuildInv, BuildLists
<1>4. BuildSteps'
  BY DEF ItemsAreNoList, End, BuildInv, BuildSteps
<1> QED BY <1>2, <1>3, <1>4 DEF BuildInv

(* A model that is down ends the build, with that reason. *)
LEMMA ModelIsDownKeeps ==
  ASSUME BuildInv, ModelIsDown
  PROVE  BuildInv'
<1>1. Proposals' = Proposals /\ Proven' = Proven
  BY ProvenStays DEF ModelIsDown
<1>2. BuildTypes'
  BY DEF ModelIsDown, End, BuildInv, BuildTypes
<1>3. BuildLists'
  BY <1>1 DEF ModelIsDown, End, BuildInv, BuildLists
<1>4. BuildSteps'
  BY DEF ModelIsDown, End, BuildInv, BuildSteps
<1> QED BY <1>2, <1>3, <1>4 DEF BuildInv

(* Verifying leaves the facts of all the candidates that stand. *)
LEMMA VerifyKeeps ==
  ASSUME BuildInv, Verify
  PROVE  BuildInv'
<1>1. Proposals' = Proposals /\ Proven' = Proven
  BY ProvenStays DEF Verify
<1>2. candidates \in Seq(Proposals) /\ sheet = <<>> /\ outcome = "none"
  BY DEF Verify, BuildInv, BuildLists, BuildSteps
<1>3. verified' \in Seq(Proven) /\ Believed \subseteq Range(verified')
  <2>1. PICK stood : stood = Stood(candidates)[Len(candidates)]
    OBVIOUS
  <2>2. /\ stood \in Seq(Proven)
        /\ \A i \in DOMAIN candidates :
             Verified(candidates[i]) => Fact(candidates[i]) \in Range(stood)
    BY <1>2, <2>1, StoodRuns
  <2>3. Believed \subseteq Range(stood)
    <3>1. \A c \in Range(candidates) : \E i \in DOMAIN candidates : c = candidates[i]
      BY DEF Range
    <3> QED BY <2>2, <3>1 DEF Believed
  <2>4. verified' = stood
    BY <2>1 DEF Verify
  <2> QED BY <2>2, <2>3, <2>4
<1>4. BuildTypes'
  BY DEF Verify, End, BuildInv, BuildTypes
<1>5. BuildLists'
  BY <1>1, <1>2, <1>3 DEF Verify, BuildLists
<1>6. Believed' \subseteq Range(verified)'
  <2>1. Believed' = Believed
    BY BelievedStays DEF Verify
  <2>2. Range(verified)' = Range(verified')
    OBVIOUS
  <2> QED BY <1>3, <2>1, <2>2
<1>7. BuildSteps'
  BY <1>2, <1>6 DEF Verify, End, BuildInv, BuildSteps
<1> QED BY <1>4, <1>5, <1>7 DEF BuildInv

(* What is written is what was verified, without copies and capped. *)
LEMMA WriteKeeps ==
  ASSUME BuildInv, Write
  PROVE  BuildInv'
<1> DEFINE facts == Deduplicated(verified)
           written == Cap(facts, Limit)
<1>1. Proposals' = Proposals /\ Proven' = Proven
  BY ProvenStays DEF Write
<1>2. /\ BuildTypes /\ verified \in Seq(Proven) /\ candidates \in Seq(Proposals)
      /\ sheet = <<>> /\ outcome = "none"
  BY DEF Write, BuildInv, BuildLists, BuildSteps
<1>3. written \in Seq(Proven) /\ (Len(written) < Required => Len(facts) < Required)
  BY <1>2, WhatIsWritten
<1>4. Limit' = Limit /\ Required' = Required /\ verified' = verified
  BY DEF Write, Limit, Required
<1>5. BuildTypes'
  BY DEF Write, End, BuildInv, BuildTypes
<1>6. \/ Len(written) < Required /\ outcome' = "too_few" /\ sheet' = sheet
      \/ outcome' = "written" /\ sheet' = written
  BY DEF Write, End
<1> HIDE DEF facts, written
<1>7. BuildLists'
  <2>1. sheet' \in Seq(Proven)
    <3>1. <<>> \in Seq(Proven)
      OBVIOUS
    <3> QED BY <1>2, <1>3, <1>6, <3>1
  <2>2. candidates' = candidates /\ verified' = verified
    BY DEF Write
  <2>3. candidates' \in Seq(Proposals') /\ verified' \in Seq(Proven') /\ sheet' \in Seq(Proven')
    BY <1>1, <1>2, <2>1, <2>2
  <2> QED BY <2>3 DEF BuildLists
<1>8. BuildSteps'
  <2>1. Deduplicated(verified)' = facts /\ Cap(Deduplicated(verified), Limit)' = written
    BY <1>4 DEF facts, written
  <2>2. outcome' = "too_few" => Len(Deduplicated(verified)') < Required'
    BY <1>3, <1>4, <1>6, <2>1
  <2>3. outcome' = "written" => sheet' = Cap(Deduplicated(verified), Limit)'
    BY <1>6, <2>1
  <2>4. phase' = "done" /\ outcome' \in {"too_few", "written"}
    BY <1>2, <1>6 DEF Write, End
  <2> QED BY <2>2, <2>3, <2>4 DEF BuildSteps
<1> QED BY <1>5, <1>7, <1>8 DEF BuildInv

(* Nothing changes while nothing happens. *)
LEMMA StutteringKeeps ==
  ASSUME BuildInv, UNCHANGED vars
  PROVE  BuildInv'
<1>1. Proposals' = Proposals /\ Proven' = Proven
  BY ProvenStays DEF vars
<1>2. BuildTypes'
  BY DEF vars, BuildInv, BuildTypes
<1>3. BuildLists'
  BY <1>1 DEF vars, BuildInv, BuildLists
<1>4. BuildSteps'
  <2>1. Believed' = Believed
    BY BelievedStays DEF vars
  <2>2. Required' = Required /\ Limit' = Limit
    BY DEF vars, Required, Limit
  <2> QED BY <2>1, <2>2 DEF vars, BuildInv, BuildSteps
<1> QED BY <1>2, <1>3, <1>4 DEF BuildInv

(* Every state of every build is well formed. *)
THEOREM BuildIsWellFormed == Spec => []BuildInv
<1>1. Init => BuildInv
  BY BuildInvInitially
<1>2. BuildInv /\ [Next]_vars => BuildInv'
  BY FetchNextKeeps, FetchEndsKeeps, ReadDocumentKeeps, ItemsAreNoListKeeps, ModelIsDownKeeps,
     VerifyKeeps, WriteKeeps, StutteringKeeps DEF Next
<1> QED BY <1>1, <1>2, PTL DEF Spec

(* A sheet holds proven facts, and what is proven is grounded. *)
LEMMA SheetIsGrounded == BuildInv => EveryFactIsGrounded
<1> SUFFICES ASSUME BuildInv, NEW i \in DOMAIN sheet
             PROVE  /\ \E d \in Range(documents) :
                         Url[d] = sheet[i].source /\ Grounds[sheet[i].quote][d]
                    /\ IsPlausible(format, sheet[i])
  BY DEF EveryFactIsGrounded
<1>1. BuildTypes /\ sheet \in Seq(Proven)
  BY DEF BuildInv, BuildLists
<1>2. sheet[i] \in Proven
  <2>1. DOMAIN sheet = 1..Len(sheet)
    BY <1>1, LenProperties
  <2> QED BY <1>1, <2>1, ElementOfSeq
<1> DEFINE f == sheet[i]
<1> HIDE DEF f
<1>3. /\ f.source \in Urls /\ f.quote \in Quotes
      /\ Match[f.quote][LastFrom(f.source)].stands /\ IsPlausible(format, f)
  BY <1>1, <1>2, ProvenFacts DEF f
<1> DEFINE d == LastFrom(f.source)
<1>4. d \in Range(documents) /\ d \in Document /\ Url[d] = f.source
  BY <1>1, <1>3, TheLastOfAUrl DEF BuildTypes
<1> HIDE DEF d
<1>5. Grounds[f.quote][d]
  BY <1>3, <1>4, MatchesAreGrounded DEF d
<1> QED BY <1>3, <1>4, <1>5 DEF f

(* A candidate whose quote is copied stands, so its fact was appended. *)
LEMMA CopiesStandHere == BuildInv => CopiesAreBelieved
<1> SUFFICES ASSUME BuildInv, phase = "verified", NEW c \in Range(candidates),
                    IsPlausible(format, c), NEW url \in Urls, Copies[c.quote][LastFrom(url)]
             PROVE  IsBelieved(c)
  BY DEF CopiesAreBelieved
<1>1. BuildTypes /\ candidates \in Seq(Proposals) /\ documents \in Seq(Document)
  BY DEF BuildInv, BuildLists, BuildTypes
<1>2. PICK i \in DOMAIN candidates : c = candidates[i]
  BY DEF Range
<1>3. c \in Proposals
  <2>1. DOMAIN candidates = 1..Len(candidates)
    BY <1>1, LenProperties
  <2> QED BY <1>1, <1>2, <2>1, ElementOfSeq
<1>4. c.quote \in Quotes /\ LastFrom(url) \in Document
  BY <1>1, <1>3, WhatIsProposed, TheLastOfAUrl
<1>5. Match[c.quote][LastFrom(url)].stands
  BY <1>4, CopiesStand
<1>6. Standing(c.quote) # {}
  <2>1. PICK k \in DOMAIN documents : url = Url[documents[k]]
    BY DEF Urls, Range
  <2> QED BY <1>5, <2>1 DEF Standing
<1>7. Verified(c)
  BY <1>6 DEF Verified
<1>8. Fact(c) \in Range(verified)
  <2>1. Fact(c) \in Believed
    BY <1>7 DEF Believed
  <2> QED BY <2>1 DEF BuildInv, BuildSteps
<1>9. Fact(c).quote = c.quote /\ Fact(c).claim = c.claim /\ Fact(c).key = c.key
  BY <1>1, <1>3, <1>7, WhatIsProved
<1> QED BY <1>8, <1>9 DEF IsBelieved

(* What was verified is a list of facts the de-duplication can be trusted with. *)
LEMMA TheBestStays == BuildInv => BestCopyStays
<1> SUFFICES ASSUME BuildInv, NEW i \in DOMAIN verified,
                    \A j \in DOMAIN verified :
                      IsDuplicate(verified[i], verified[j]) /\ j # i
                        => verified[j].score < verified[i].score
             PROVE  verified[i] \in Range(Deduplicated(verified))
  BY DEF BestCopyStays
<1>1. PICK S, fs : S = Proven /\ fs = verified
  OBVIOUS
<1>2. fs \in Seq(S) /\ \A f \in S : IsFact(f)
  BY <1>1, ProvenFacts DEF BuildInv, BuildLists
<1>3. fs[i] \in Range(Deduplicated(fs))
  <2>1. /\ i \in DOMAIN fs
        /\ \A j \in DOMAIN fs : IsDuplicate(fs[i], fs[j]) /\ j # i => fs[j].score < fs[i].score
    BY <1>1
  <2> QED BY <1>2, <2>1, BestIsNotDropped
<1> QED BY <1>1, <1>3

(* A written sheet is the cap of what was verified. *)
LEMMA VarietyIsKeptHere == BuildInv => VarietyIsKept
<1> SUFFICES ASSUME BuildInv, outcome = "written"
             PROVE  Cardinality(Groups(sheet)) = Min({Limit, Cardinality(Groups(Deduplicated(verified)))})
  BY DEF VarietyIsKept
<1>1. sheet = Cap(Deduplicated(verified), Limit)
  BY DEF BuildInv, BuildSteps
<1>2. BuildTypes /\ verified \in Seq(Proven)
  BY DEF BuildInv, BuildLists
<1>3. Cardinality(Groups(Cap(Deduplicated(verified), Limit)))
        = Min({Limit, Cardinality(Groups(Deduplicated(verified)))})
  BY <1>2, WhatIsWritten
<1> QED BY <1>1, <1>3

(* A list that is refused was short before it was capped. *)
LEMMA TheCapSparesTheBar == BuildInv => CapSparesTheBar
BY DEF BuildInv, BuildSteps, CapSparesTheBar

(* What is well formed is of its type. *)
LEMMA TypesHold == BuildInv => TypeOK
<1> SUFFICES ASSUME BuildInv PROVE TypeOK
  OBVIOUS
<1>1. BuildTypes /\ candidates \in Seq(Proposals) /\ verified \in Seq(Proven) /\ sheet \in Seq(Proven)
  BY DEF BuildInv, BuildLists
<1>2. format \in Formats /\ Range(documents) \subseteq Document
  BY <1>1, BuildAssumption, DocumentsRead DEF BuildTypes
<1>3. \A i \in DOMAIN candidates : candidates[i].from \in Urls
  <2>1. DOMAIN candidates = 1..Len(candidates)
    BY <1>1, LenProperties
  <2>2. \A i \in DOMAIN candidates : candidates[i] \in Proposals
    BY <1>1, <2>1, ElementOfSeq
  <2> QED BY <1>1, <2>2, WhatIsProposed
<1>4. \A f \in Range(verified \o sheet) : f.source \in Urls /\ f.score \in 0..100
  <2>1. Range(verified \o sheet) \subseteq Proven
    <3>1. PICK S, v, s : S = Proven /\ v = verified /\ s = sheet
      OBVIOUS
    <3>2. v \in Seq(S) /\ s \in Seq(S)
      BY <1>1, <3>1
    <3>3. v \o s \in Seq(S)
      BY <3>2
    <3>4. Range(v \o s) \subseteq S
      BY <3>3, RangeOfSeq
    <3> QED BY <3>1, <3>4
  <2> QED BY <1>1, <2>1, ProvenFacts
<1> QED BY <1>1, <1>2, <1>3, <1>4 DEF TypeOK, BuildTypes, BuildInv, BuildSteps

(* The build keeps what its variables may hold. *)
THEOREM BuildTypeCorrect == Spec => []TypeOK
BY BuildIsWellFormed, TypesHold, PTL

(* "The LLM is never the source of a fact": each fact written is grounded in *)
(* a document of the URL it is attributed to, its numbers read close to the  *)
(* passage, though an end of the region may cut one (verify_evidence, _verify). *)
THEOREM EveryWrittenFactIsGrounded == Spec => []EveryFactIsGrounded
BY BuildIsWellFormed, SheetIsGrounded, PTL

(* A quote that is copied as it stands from the last text of a URL, and cuts *)
(* no number in two, is always believed (best_match, missing_numbers).       *)
THEOREM CopiesAreAlwaysBelieved == Spec => []CopiesAreBelieved
BY BuildIsWellFormed, CopiesStandHere, PTL

(* The de-duplication never drops the best-verified copy. *)
THEOREM TheBestCopyAlwaysStays == Spec => []BestCopyStays
BY BuildIsWellFormed, TheBestStays, PTL

(* The cap drops a group only when there are more groups than places (_cap). *)
THEOREM VarietyIsAlwaysKept == Spec => []VarietyIsKept
BY BuildIsWellFormed, VarietyIsKeptHere, PTL

(* However low the cap is set, it never takes a sheet below the bar of Gate A: *)
(* a list refused as too short was too short before it (build, _cap).          *)
THEOREM TheCapAlwaysSparesTheBar == Spec => []CapSparesTheBar
BY BuildIsWellFormed, TheCapSparesTheBar, PTL
=============================================================================
