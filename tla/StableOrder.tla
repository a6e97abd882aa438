----------------------------- MODULE StableOrder -----------------------------
(***************************************************************************)
(* Stable sorting, as Go's sort.SliceStable and Python's sort do it: the   *)
(* order of a comparison, with ties left as they were.  `before` is the    *)
(* comparison: before[i] holds every j such that s[i] has to go before     *)
(* s[j].                                                                   *)
(***************************************************************************)
EXTENDS Naturals, Sequences, FiniteSets

(* The place of s[i]: how many elements go no later than it. *)
Place(s, before, i) ==
  Cardinality({j \in DOMAIN s : i \in before[j] \/ (j \notin before[i] /\ j <= i)})

StableSort(s, before) ==
  [p \in DOMAIN s |-> s[CHOOSE i \in DOMAIN s : Place(s, before, i) = p]]
=============================================================================
