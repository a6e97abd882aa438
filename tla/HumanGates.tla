----------------------------- MODULE HumanGates -----------------------------
(***************************************************************************)
(* What the whole system promises about review, with no pipeline, database *)
(* or process in sight: a video gets past a gate only in the same step in  *)
(* which a human approval of that gate enters its ledger, one gate at a    *)
(* time and in order, and it loses a gate only to a recorded rejection.    *)
(*                                                                         *)
(* state.go calls this "a structural property rather than a rule someone   *)
(* has to remember".  Module Pipeline implements this specification.       *)
(***************************************************************************)
EXTENDS VideoState

CONSTANT Videos

VARIABLES
  passed,   \* per video, the set of gates it has got past
  ledger    \* per video, the human decisions in the order they were taken

vars == <<passed, ledger>>

(* A ledger entry: what was decided, at which gate, and the move it made. *)
Entry == [ action : {"create", "approve", "reject", "retry"},
           gate : Gate \cup {NoGate},
           from : Status \cup {NoStatus},
           to : Status ]

TypeOK ==
  /\ passed \in [Videos -> SUBSET Gate]
  /\ ledger \in [Videos -> Seq(Entry)]

Init ==
  /\ passed = [v \in Videos |-> {}]
  /\ ledger = [v \in Videos |-> <<>>]

Record(v, action, gate, from, to) ==
  ledger' = [ledger EXCEPT ![v] = Append(@,
    [action |-> action, gate |-> gate, from |-> from, to |-> to])]

(* A person approves the one gate the video has reached. *)
Approve(v, g) ==
  /\ Record(v, "approve", g, gates[g].from, gates[g].to)
  /\ passed[v] = GatesBehind(gates[g].from)
  /\ passed' = [passed EXCEPT ![v] = @ \cup {g}]

(* A person sends it back from that gate; every gate from there on is lost. *)
SendBack(v, g, backTo) ==
  /\ IsEarlier(backTo, gates[g].from)
  /\ Record(v, "reject", g, gates[g].from, backTo)
  /\ passed[v] = GatesBehind(gates[g].from)
  /\ passed' = [passed EXCEPT ![v] = GatesBehind(backTo)]

(* Queueing and retrying are on the record and cross no gate. *)
Queue(v) ==
  /\ Record(v, "create", NoGate, NoStatus, "queued")
  /\ UNCHANGED passed

Resume(v, to) ==
  /\ Record(v, "retry", NoGate, "error", to)
  /\ UNCHANGED passed

Next ==
  \E v \in Videos :
    \/ \E g \in Gate : Approve(v, g)
    \/ \E g \in Gate, backTo \in PipelineStatus : SendBack(v, g, backTo)
    \/ Queue(v)
    \/ \E to \in PipelineStatus : Resume(v, to)

Spec == Init /\ [][Next]_vars

-----------------------------------------------------------------------------
(* A rejection withdraws the approval of every gate it sends a video to or before. *)
Withdraws(e, g) == e.action = "reject" /\ ~IsEarlier(gates[g].from, e.to)

(* The ledger holds an approval of g that no later rejection withdraws. *)
StandsApproved(l, g) ==
  \E i \in 1..Len(l) :
    /\ l[i].action = "approve"
    /\ l[i].gate = g
    /\ \A j \in (i+1)..Len(l) : ~Withdraws(l[j], g)

(* The ledger alone tells which gates a video is past: an auditor who      *)
(* reads it reaches the same verdict as the machine (review.go: the log is *)
(* "the project's proof that a person made the creative calls").           *)
LedgerTellsPosition ==
  \A v \in Videos : passed[v] = {g \in Gate : StandsApproved(ledger[v], g)}
=============================================================================
