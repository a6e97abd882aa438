------------------------------- MODULE MCDesk -------------------------------
(* Instances of Desk for TLC. *)
EXTENDS Desk

ResearchStep == [from |-> "queued", running |-> "researching", to |-> "facts_ready"]
WiredSteps == {ResearchStep}

(* Ids of at most three bytes, three attempts. *)
Standing == <<"a", "-", "b">>
StandingTopic == {Standing}

(* "A B!" makes the id a-b, which is taken: its next attempts are cut, to    *)
(* a-2 and a-3.  The digit of another script is in no id, not even half.     *)
TypedTopics == { <<"A", " ", "B", "!">>, <<"b", "2", "wide digit">> }

EarlierDays == {NewVideo, Transition(Transition(NewVideo, "researching"), "facts_ready")}

SomePriorities == {1, 6}

TypedIds == {Standing, <<"/">>}

PageFilters == {f \in ListVideosRequest({{}, {Newer}}) : f.statuses = {} \/ ~f.needsReviewOnly}

GateWords == {"gate_a", "gate_g"}
BackTo == {"queued"}

(* 1.6 s, 1.65 s and 2 s, kept as "1.6Z", "1.65Z" and "2Z": the first two lie *)
(* in one second, and their texts sort the later one first.                  *)
ThreeTicks == {160, 165, 200}
=============================================================================
