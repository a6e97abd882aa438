----------------------------- MODULE VideoState -----------------------------
(***************************************************************************)
(* The state machine of one video: the two transition tables of            *)
(* api/internal/domain/state.go and gate.go, and the five functions that   *)
(* are allowed to change a video's status.                                 *)
(*                                                                         *)
(* `automatic` holds the moves a pipeline step may make, `gates` the moves *)
(* only a human approval may make.  The functions are total here: each has *)
(* a guard (its error returns) and a result (the record it leaves behind). *)
(* Messages, notes and timestamps are left out.                            *)
(***************************************************************************)
EXTENDS Naturals, Sequences

NoStatus == ""       \* Go's empty Status: nothing recorded
NoGate == "none"     \* GateNone, used in the log for actions that are no gate decision

(* orderIndex: every status in forward order.  A map literal in the code too. *)
orderIndex ==
  [ queued |-> 0,
    researching |-> 1,  facts_ready |-> 2,       facts_approved |-> 3,
    finding_refs |-> 4, refs_ready |-> 5,        refs_approved |-> 6,
    scripting |-> 7,    script_ready |-> 8,      script_approved |-> 9,
    voicing |-> 10,     voice_ready |-> 11,      voice_approved |-> 12,
    imaging |-> 13,     storyboard_ready |-> 14, storyboard_approved |-> 15,
    rendering |-> 16,   render_ready |-> 17,     final_approved |-> 18,
    uploading |-> 19,   uploaded_private |-> 20, published |-> 21,
    analytics_collected |-> 22 ]

PipelineStatus == DOMAIN orderIndex
Status == PipelineStatus \cup {"error"}

KnownStatus(s) == s = "error" \/ s \in DOMAIN orderIndex

IsEarlier(a, b) ==
  /\ a \in DOMAIN orderIndex
  /\ b \in DOMAIN orderIndex
  /\ orderIndex[a] < orderIndex[b]

(* automatic: where a pipeline step may move a video. *)
automatic ==
  [ queued |-> {"researching"},
    researching |-> {"facts_ready", "error"},
    facts_approved |-> {"finding_refs"},
    finding_refs |-> {"refs_ready", "error"},
    refs_approved |-> {"scripting"},
    scripting |-> {"script_ready", "error"},
    script_approved |-> {"voicing"},
    voicing |-> {"voice_ready", "error"},
    voice_approved |-> {"imaging"},
    imaging |-> {"storyboard_ready", "error"},
    storyboard_approved |-> {"rendering"},
    rendering |-> {"render_ready", "error"},
    final_approved |-> {"uploading"},
    uploading |-> {"uploaded_private", "error"},
    published |-> {"analytics_collected"} ]

CanTransition(from, to) == from \in DOMAIN automatic /\ to \in automatic[from]

(* NextAutomatic: the destinations a successful step aims for (one at most). *)
NextAutomatic(from) ==
  IF from \in DOMAIN automatic THEN automatic[from] \ {"error"} ELSE {}

(* The six human review points. *)
gates ==
  [ A |-> [from |-> "facts_ready",      to |-> "facts_approved"],
    B |-> [from |-> "refs_ready",       to |-> "refs_approved"],
    C |-> [from |-> "script_ready",     to |-> "script_approved"],
    D |-> [from |-> "voice_ready",      to |-> "voice_approved"],
    E |-> [from |-> "storyboard_ready", to |-> "storyboard_approved"],
    F |-> [from |-> "render_ready",     to |-> "final_approved"] ]

Gate == DOMAIN gates

(* GateFor(s) = g.  A status waits on one gate at most. *)
AwaitsGate(s, g) == g \in Gate /\ gates[g].from = s
AtSomeGate(s) == \E g \in Gate : AwaitsGate(s, g)

-----------------------------------------------------------------------------
(* Video records and the functions that change them.                       *)

Video == [ status : Status,
           retryFrom : PipelineStatus \cup {NoStatus},
           rejectedTo : PipelineStatus \cup {NoStatus} ]

NewVideo == [status |-> "queued", retryFrom |-> NoStatus, rejectedTo |-> NoStatus]

CanMove(v, to) == KnownStatus(to) /\ CanTransition(v.status, to)

Transition(v, to) ==
  [v EXCEPT !.status = to,
            !.rejectedTo = IF to = "error" THEN v.rejectedTo ELSE NoStatus]

CanApproveGate(v, g) == AwaitsGate(v.status, g)

(* Mutant: an approval leaves the note of an old rejection standing. *)
ApproveKeepingRejection(v, g) == [v EXCEPT !.status = gates[g].to]

ApproveGate(v, g) == [v EXCEPT !.status = gates[g].to, !.rejectedTo = NoStatus]

(* Mutant: a rejection may name a later status. *)
CanRejectForwards(v, g, backTo) ==
  AwaitsGate(v.status, g) /\ KnownStatus(backTo) /\ backTo # "error"

(* Mutant: a rejection may be made away from its gate. *)
CanRejectAnywhere(v, g, backTo) ==
  KnownStatus(backTo) /\ backTo # "error" /\ IsEarlier(backTo, v.status)

CanRejectGate(v, g, backTo) ==
  /\ AwaitsGate(v.status, g)
  /\ KnownStatus(backTo) /\ backTo # "error"
  /\ IsEarlier(backTo, v.status)

RejectGate(v, g, backTo) == [v EXCEPT !.status = backTo, !.rejectedTo = backTo]

Fail(v) ==
  [v EXCEPT !.status = "error",
            !.retryFrom = IF v.status = "error" THEN v.retryFrom ELSE v.status]

CanRetry(v) == v.status = "error"

(* Mutant: a retry starts the video over. *)
RetryFromScratch(v) == [v EXCEPT !.status = "queued", !.retryFrom = NoStatus]

(* Mutant: a retry clears the resume point before it reads it. *)
RetryCleared(v) == [v EXCEPT !.status = NoStatus, !.retryFrom = NoStatus]

Retry(v) ==
  [v EXCEPT !.status = IF v.retryFrom = NoStatus \/ ~KnownStatus(v.retryFrom)
                         THEN "queued" ELSE v.retryFrom,
            !.retryFrom = NoStatus]

-----------------------------------------------------------------------------
(* Position in the pipeline, for stating properties.  A failed video holds *)
(* the position it will resume from.                                       *)

Position(v) == IF v.status = "error" THEN v.retryFrom ELSE v.status

(* The gates a status lies beyond: those whose waiting status is earlier. *)
GatesBehind(s) == {g \in Gate : IsEarlier(gates[g].from, s)}
=============================================================================
