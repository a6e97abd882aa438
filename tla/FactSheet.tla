------------------------------ MODULE FactSheet ------------------------------
(***************************************************************************)
(* The fact sheet a person reviews at Gate A: api/internal/domain/facts.go *)
(* (the sheet and its rules), the five edits of service/facts_service.go,  *)
(* and the order factstore.go writes the facts in.                         *)
(*                                                                         *)
(* A fact keeps what the rules and the properties tell apart.  `claim`     *)
(* stands for everything a narrator says (label, context and claim),       *)
(* `source` for the record of where it came from (evidence, URL, title).   *)
(* Ids are "f<n>" everywhere; here they are the number n.                  *)
(***************************************************************************)
EXTENDS StableOrder

Seqs == INSTANCE SequencesExt

NoText == ""       \* blank after strings.TrimSpace
NoSource == <<>>   \* no http(s) URL
NoGroup == ""
OwnGroup == "added-by-hand"

Facts(s) == {s.facts[i] : i \in DOMAIN s.facts}
Ids(s) == {f.id : f \in Facts(s)}

(* FactSheet.Find: the first fact with that id. *)
Find(s, id) == Seqs!SelectInSeq(s.facts, LAMBDA f : f.id = id)
Found(s, id) == id \in Ids(s)

ApprovedFacts(s) == {i \in DOMAIN s.facts : s.facts[i].approved}
ApprovedCount(s) == Cardinality(ApprovedFacts(s))
GroupCount(s) == Cardinality({s.facts[i].group : i \in ApprovedFacts(s)} \ {NoGroup})

(* Mutant: ids are counted, not continued past the highest. *)
NextFactIDByCount(s) == Len(s.facts) + 1

NextFactID(s) == 1 + Seqs!Max(Ids(s) \cup {0})

(* CheckGateA.  A sheet without thresholds of its own gets the defaults. *)
MinItems(s) == IF s.minItems <= 0 THEN 8 ELSE s.minItems
MinGroups(s) == IF s.minGroups <= 0 THEN 4 ELSE s.minGroups

CheckGateA(s) == ApprovedCount(s) >= MinItems(s) /\ GroupCount(s) >= MinGroups(s)

ValidateHumanFact(claim, source) == claim # NoText /\ source # NoSource

-----------------------------------------------------------------------------
(* The edits.  Each is what its closure does to the loaded sheet.          *)

SetApproval(s, id, on) == [s EXCEPT !.facts[Find(s, id)].approved = on]

ApproveAll(s, on) ==
  [s EXCEPT !.facts = [i \in DOMAIN s.facts |-> [s.facts[i] EXCEPT !.approved = on]]]

(* Mutant: an edit of the wording drops the evidence the wording rested on. *)
UpdateFactAndSource(s, id, key, claim) ==
  [s EXCEPT !.facts[Find(s, id)] = [@ EXCEPT !.key = key, !.claim = claim, !.source = NoSource]]

UpdateFact(s, id, key, claim) ==
  [s EXCEPT !.facts[Find(s, id)] = [@ EXCEPT !.key = key, !.claim = claim]]

DeleteFact(s, id) == [s EXCEPT !.facts = Seqs!RemoveAt(@, Find(s, id))]

AddFact(s, key, claim, group, source) ==
  [s EXCEPT !.facts = Append(@,
     [ id |-> NextFactID(s), key |-> key, claim |-> claim, source |-> source,
       group |-> IF group = NoGroup THEN OwnGroup ELSE group,
       approved |-> TRUE, human |-> TRUE ])]

(* Save keeps the file in sort_key order. *)
ByKey(fs) == [i \in DOMAIN fs |-> {j \in DOMAIN fs : fs[i].key < fs[j].key}]

Sorted(s) == [s EXCEPT !.facts = StableSort(s.facts, ByKey(s.facts))]

-----------------------------------------------------------------------------
(* What a well-formed sheet is, for stating properties.                    *)

IdsAreDistinct(s) ==
  \A i, j \in DOMAIN s.facts : s.facts[i].id = s.facts[j].id => i = j

InPlayOrder(s) ==
  \A i, j \in DOMAIN s.facts : i < j => s.facts[i].key <= s.facts[j].key
=============================================================================
