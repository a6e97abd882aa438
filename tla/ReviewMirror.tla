----------------------------- MODULE ReviewMirror -----------------------------
(***************************************************************************)
(* One video's review log and its mirror file, review_log.json             *)
(* (adapter/reviewmirror over adapter/sqlite/review_log.go and db.go).     *)
(*                                                                         *)
(* The log's rows are what people are on record for; the file is what an   *)
(* auditor finds beside the video.  Append inserts a row, lists the log    *)
(* and renames a new file into place.  For a decision all three happen     *)
(* inside the transaction that also moves the video; an edit of the fact   *)
(* sheet has no transaction, its row is committed as it is inserted.       *)
(*                                                                         *)
(* SQLite has one writer at a time over all processes, and readers see     *)
(* what is committed; a process has a single connection, which an open     *)
(* transaction keeps.  The file has no lock at all.  A failed read or      *)
(* write of the mirror is logged and swallowed.                            *)
(*                                                                         *)
(* When a decision's client goes away, database/sql rolls its transaction  *)
(* back and takes its connection at once, but the handler only hears of it *)
(* from its next statement: past its listing it has none before the        *)
(* commit, so it still writes and renames, with the lock long released.    *)
(***************************************************************************)
EXTENDS Naturals, FiniteSets

CONSTANTS
  Entries,     \* the rows people may append, one per request
  Processes,   \* the API server and CLI invocations, on one database
  MaxTrouble   \* bound: mirror failures, cancelled decisions, dead processes

None == "none"

ASSUME EntriesAssumption == None \notin Entries
ASSUME BoundsAssumption == MaxTrouble \in Nat

VARIABLES
  at,         \* per entry, how far its request is
  committed,  \* the review_log table
  writer,     \* the entry whose transaction holds the database
  file,       \* the entries review_log.json shows
  alone,      \* history: the last append ran by itself, and nothing failed
  trouble

vars == <<at, committed, writer, file, alone, trouble>>

Idle == [pc |-> "idle"]
Gone == [pc |-> "gone"]
Busy == {"inserted", "listed", "mirrored"}
Kinds == {"decision", "edit", "cancelled"}
Active == {e \in Entries : at[e].pc \in Busy}

Trouble == trouble < MaxTrouble /\ trouble' = trouble + 1 /\ alone' = FALSE

Goto(e, pc) == at' = [at EXCEPT ![e].pc = pc]

(* The process's one connection is kept by an open transaction. *)
ConnectionFree(p) == writer # None => at[writer].process # p

-----------------------------------------------------------------------------
(* GateService.decide, AddVideo, RetryVideo: the insert within WithTx. *)

Begin(e, p, kind) ==
  /\ at[e] = Idle
  /\ at' = [at EXCEPT ![e] =
       [pc |-> "inserted", kind |-> kind, process |-> p, entries |-> {}]]
  /\ alone' = (Active = {})
  /\ UNCHANGED <<file, trouble>>

InsertDecision(e, p) ==
  /\ writer = None
  /\ Begin(e, p, "decision")
  /\ writer' = e
  /\ UNCHANGED committed

(* Mutant: an edit does not wait for the transaction of another process. *)
InsertEditAnytime(e, p) ==
  /\ Begin(e, p, "edit")
  /\ committed' = committed \cup {e}
  /\ UNCHANGED writer

(* FactsService.mutate: the insert commits by itself. *)
InsertEdit(e, p) ==
  /\ writer = None
  /\ Begin(e, p, "edit")
  /\ committed' = committed \cup {e}
  /\ UNCHANGED writer

-----------------------------------------------------------------------------
(* Mirror.Append, after the insert: list, write, rename. *)

Listed(e, entries) ==
  at' = [at EXCEPT ![e] = [pc |-> "listed", kind |-> @.kind, process |-> @.process,
                           entries |-> entries]]

(* Mutant: the mirror lists through the pool, not through the transaction. *)
ListOnPool(e) ==
  /\ at[e].pc = "inserted" /\ ConnectionFree(at[e].process)
  /\ Listed(e, committed)
  /\ UNCHANGED <<committed, writer, file, alone, trouble>>

(* A transaction sees its own row; everyone else sees what is committed. *)
(* The transaction of a cancelled decision answers with an error, which  *)
(* Append swallows.                                                      *)
List(e) ==
  /\ at[e].pc = "inserted"
  /\ \/ at[e].kind = "decision"
        /\ Listed(e, committed \cup {e})
     \/ at[e].kind = "edit" /\ ConnectionFree(at[e].process)
        /\ Listed(e, committed)
  /\ UNCHANGED <<committed, writer, file, alone, trouble>>

ListFails(e) ==
  /\ at[e].pc = "inserted" /\ at[e].kind = "cancelled"
  /\ Goto(e, "mirrored")
  /\ UNCHANGED <<committed, writer, file, alone, trouble>>

(* Mutant: the file is added to rather than regenerated. *)
AddToFile(e) ==
  /\ at[e].pc = "listed"
  /\ file' = file \cup at[e].entries
  /\ Goto(e, "mirrored")
  /\ UNCHANGED <<committed, writer, alone, trouble>>

Rename(e) ==
  /\ at[e].pc = "listed"
  /\ file' = at[e].entries
  /\ Goto(e, "mirrored")
  /\ UNCHANGED <<committed, writer, alone, trouble>>

MirrorFails(e) ==
  /\ at[e].pc \in {"inserted", "listed"} /\ Trouble
  /\ Goto(e, "mirrored")
  /\ UNCHANGED <<committed, writer, file>>

-----------------------------------------------------------------------------
(* The end of WithTx, and of a request. *)

Commit(e) ==
  /\ at[e].pc = "mirrored" /\ at[e].kind = "decision"
  /\ committed' = committed \cup {e}
  /\ writer' = None
  /\ at' = [at EXCEPT ![e] = Gone]
  /\ UNCHANGED <<file, alone, trouble>>

(* Mutant: a cancelled decision leaves its transaction open. *)
CancelLeavesOpen(e) ==
  /\ at[e].pc \in Busy /\ at[e].kind = "decision" /\ Trouble
  /\ at' = [at EXCEPT ![e].kind = "cancelled"]
  /\ UNCHANGED <<committed, writer, file>>

(* The client has gone: its context undoes the transaction, wherever it is, *)
(* behind the back of the handler, which goes on.                           *)
Cancel(e) ==
  /\ at[e].pc \in Busy /\ at[e].kind = "decision" /\ Trouble
  /\ writer' = None
  /\ at' = [at EXCEPT ![e].kind = "cancelled"]
  /\ UNCHANGED <<committed, file>>

(* An edit returns its sheet; the commit of a cancelled decision fails. *)
Return(e) ==
  /\ at[e].pc = "mirrored" /\ at[e].kind \in {"edit", "cancelled"}
  /\ at' = [at EXCEPT ![e] = Gone]
  /\ UNCHANGED <<committed, writer, file, alone, trouble>>

(* A process dies with all its requests; SQLite undoes its transaction. *)
ProcessDies(p) ==
  LET dead == {e \in Active : at[e].process = p}
  IN /\ dead # {} /\ Trouble
     /\ at' = [e \in Entries |-> IF e \in dead THEN Gone ELSE at[e]]
     /\ writer' = IF writer \in dead THEN None ELSE writer
     /\ UNCHANGED <<committed, file>>

-----------------------------------------------------------------------------
Init ==
  /\ at = [e \in Entries |-> Idle]
  /\ committed = {} /\ writer = None /\ file = {}
  /\ alone = TRUE /\ trouble = 0

Continue(e) == List(e) \/ ListFails(e) \/ Rename(e) \/ Commit(e) \/ Return(e)

Next ==
  \/ \E e \in Entries, p \in Processes : InsertDecision(e, p) \/ InsertEdit(e, p)
  \/ \E e \in Entries : Continue(e) \/ MirrorFails(e) \/ Cancel(e)
  \/ \E p \in Processes : ProcessDies(p)

(* A request that has inserted its row is scheduled to its end. *)
Fairness == \A e \in Entries : WF_vars(Continue(e))

Spec == Init /\ [][Next]_vars /\ Fairness

-----------------------------------------------------------------------------
Request ==
  {Idle, Gone} \cup [ pc : Busy, kind : Kinds, process : Processes,
                      entries : SUBSET Entries ]

(* The lock is held exactly by a decision that is at work and not cancelled  *)
(* ("a panic must not leave the transaction open", db.go).                   *)
TypeOK ==
  /\ at \in [Entries -> Request]
  /\ committed \subseteq Entries /\ file \subseteq Entries
  /\ alone \in BOOLEAN /\ trouble \in 0..MaxTrouble
  /\ \A e \in Entries : writer = e <=> (at[e].pc \in Busy /\ at[e].kind = "decision")
  /\ writer \in Entries \cup {None}

(* "Regenerated", not added to: whatever crossed or failed, the file never   *)
(* shows more than one decision that is not in the log.                      *)
OnePhantomAtMost == Cardinality(file \ committed) <= 1

(* An append that runs by itself, with no handler of a cancelled decision    *)
(* still about, leaves the file exact, whatever state the file was in: drift *)
(* never outlives the next undisturbed decision or edit.                     *)
AloneMeansExact == (Active = {} /\ alone) => file = committed

(* A decision that renames while it holds its lock leaves a file that shows  *)
(* everything on record, also what other processes put there.  (The rename   *)
(* of a cancelled decision comes after its lock is gone and need not.)       *)
DecisionsShowAll ==
  [][\A e \in Entries :
       (writer = e /\ at[e].pc = "listed" /\ at'[e].pc = "mirrored" /\ file' # file)
         => committed \subseteq file']_vars

(* The mirror never waits for itself: a request that holds the process's     *)
(* connection gets to its end, and so do those that wait for it.             *)
AppendsEnd == \A e \in Entries : at[e].pc \in Busy ~> at[e].pc = "gone"

-----------------------------------------------------------------------------
(* The inductive invariant, by parts.                                        *)

(* A listing holds what was committed, and of the rest at most its own row;  *)
(* one made under the lock still holds everything committed.                 *)
ListingsAreFresh ==
  \A e \in Entries : at[e].pc = "listed" =>
    /\ at[e].entries \subseteq committed \cup {e}
    /\ at[e].kind = "decision" => committed \subseteq at[e].entries

FileIsAListing == \E e \in Entries \cup {None} : file \subseteq committed \cup {e}

(* What the file will show once the request that is alone is through. *)
Written(e) == IF at[e].kind = "decision" THEN committed \cup {e} ELSE committed

AloneIsOnCourse ==
  alone =>
    \/ Active = {} /\ file = committed
    \/ \E e \in Entries :
         /\ Active = {e} /\ at[e].kind # "cancelled"
         /\ at[e].pc = "listed" => at[e].entries = Written(e)
         /\ at[e].pc = "mirrored" => file = Written(e)

MirrorInv == TypeOK /\ ListingsAreFresh /\ FileIsAListing /\ AloneIsOnCourse
=============================================================================
