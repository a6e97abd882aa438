------------------------- MODULE ReviewMirrorProofs -------------------------
(***************************************************************************)
(* For any number of requests and processes: the mirror is off by one      *)
(* unlogged decision at most, exact after an undisturbed append, and a     *)
(* decision's mirror shows everything on record.                           *)
(*                                                                         *)
(* The argument.  The lock belongs to one decision from its insert to its  *)
(* end or its cancellation (TypeOK), and nothing is committed meanwhile,   *)
(* so its listing stays complete (ListingsAreFresh).  A cancelled one      *)
(* loses that, and keeps only that it shows one row of its own at most.    *)
(* The file is always one listing (FileIsAListing), and a request that is  *)
(* alone, so beside no cancelled one, finds nothing changed between its    *)
(* listing and its rename (AloneIsOnCourse).                               *)
(***************************************************************************)
EXTENDS ReviewMirror, FiniteSetTheorems, TLAPS

LEMMA InitMirrorInv == Init => MirrorInv
<1> SUFFICES ASSUME Init PROVE MirrorInv
  OBVIOUS
<1>1. Active = {}
  BY DEF Init, Active, Idle, Busy
<1>2. TypeOK
  BY EntriesAssumption, BoundsAssumption DEF Init, TypeOK, Request, Idle, Busy, None
<1>3. ListingsAreFresh /\ FileIsAListing /\ AloneIsOnCourse
  BY <1>1 DEF Init, ListingsAreFresh, FileIsAListing, AloneIsOnCourse, Idle
<1>4. QED
  BY <1>2, <1>3 DEF MirrorInv

(* What a request looks like, field by field. *)
LEMMA RequestFields ==
  ASSUME TypeOK, NEW e \in Entries, at[e].pc \in Busy
  PROVE  /\ at[e].kind \in Kinds
         /\ at[e].process \in Processes
         /\ at[e].entries \subseteq Entries
         /\ at[e] = [pc |-> at[e].pc, kind |-> at[e].kind, process |-> at[e].process,
                     entries |-> at[e].entries]
BY DEF TypeOK, Request, Kinds, Busy, Idle, Gone

-----------------------------------------------------------------------------
(* A request begins. *)

LEMMA BeginKeepsInv ==
  ASSUME MirrorInv, NEW e \in Entries, NEW p \in Processes,
         InsertDecision(e, p) \/ InsertEdit(e, p)
  PROVE  MirrorInv'
<1>1. PICK kind \in {"decision", "edit"} :
        /\ at[e] = Idle /\ writer = None
        /\ at' = [at EXCEPT ![e] =
             [pc |-> "inserted", kind |-> kind, process |-> p, entries |-> {}]]
        /\ alone' = (Active = {})
        /\ UNCHANGED <<file, trouble>>
        /\ kind = "decision" => writer' = e /\ committed' = committed
        /\ kind = "edit" => writer' = writer /\ committed' = committed \cup {e}
  BY DEF InsertDecision, InsertEdit, Begin
<1>2. /\ \A d \in Entries : d # e => at'[d] = at[d]
      /\ at'[e] = [pc |-> "inserted", kind |-> kind, process |-> p, entries |-> {}]
  BY <1>1 DEF MirrorInv, TypeOK
<1>3. TypeOK'
  <2>1. at' \in [Entries -> Request]'
    BY <1>1 DEF MirrorInv, TypeOK, Request, Kinds, Busy
  <2>2. \A d \in Entries : writer' = d <=> (at'[d].pc \in Busy /\ at'[d].kind = "decision")
    BY <1>1, <1>2, EntriesAssumption DEF MirrorInv, TypeOK, Busy, Idle
  <2>3. QED
    BY <1>1, <2>1, <2>2 DEF MirrorInv, TypeOK
<1>4. ListingsAreFresh'
  <2>1. \A d \in Entries : at[d].pc = "listed" => at[d].kind # "decision"
    BY <1>1, EntriesAssumption DEF MirrorInv, TypeOK, Busy
  <2>2. QED
    BY <1>1, <1>2, <2>1 DEF MirrorInv, ListingsAreFresh
<1>5. FileIsAListing'
  BY <1>1 DEF MirrorInv, FileIsAListing
<1>6. AloneIsOnCourse'
  <2>1. Active' = Active \cup {e}
    BY <1>2 DEF Active, Busy
  <2>2. alone' => Active' = {e}
    BY <1>1, <2>1
  <2>3. at'[e].pc # "listed" /\ at'[e].pc # "mirrored"
    BY <1>2
  <2>4. alone' => at'[e].kind # "cancelled"
    BY <1>2
  <2>5. QED
    BY <2>2, <2>3, <2>4 DEF AloneIsOnCourse
<1>7. QED
  BY <1>3, <1>4, <1>5, <1>6 DEF MirrorInv

-----------------------------------------------------------------------------
(* A request goes on. *)

(* A request that only changes its own place, and stays at work. *)
LEMMA StayingAtWork ==
  ASSUME TypeOK, NEW e \in Entries, at[e].pc \in Busy,
         NEW r \in Request, r.pc \in Busy, r.kind = at[e].kind,
         at' = [at EXCEPT ![e] = r],
         UNCHANGED <<committed, writer>>, file' \subseteq Entries,
         alone' \in BOOLEAN, trouble' \in 0..MaxTrouble
  PROVE  /\ TypeOK'
         /\ Active' = Active
         /\ \A d \in Entries : d # e => at'[d] = at[d]
         /\ at'[e] = r
BY DEF TypeOK, Active, Busy

LEMMA ListKeepsInv ==
  ASSUME MirrorInv, NEW e \in Entries, List(e)
  PROVE  MirrorInv'
<1> DEFINE r == [pc |-> "listed", kind |-> at[e].kind, process |-> at[e].process,
                 entries |-> Written(e)]
<1>1. /\ at[e].pc = "inserted" /\ at' = [at EXCEPT ![e] = r]
      /\ UNCHANGED <<committed, writer, file, alone, trouble>>
  BY RequestFields DEF MirrorInv, List, Listed, Written, Busy
<1>2. /\ r \in Request /\ r.pc = "listed" /\ r.kind = at[e].kind
      /\ r.entries = Written(e)
  <2>1. Written(e) \subseteq Entries
    BY DEF MirrorInv, TypeOK, Written
  <2>2. at[e].pc \in Busy
    BY <1>1 DEF Busy
  <2>3. at[e].kind \in Kinds /\ at[e].process \in Processes
    BY <2>2, RequestFields DEF MirrorInv
  <2>4. QED
    BY <2>1, <2>3 DEF Request, Busy
<1>3. /\ TypeOK' /\ Active' = Active
      /\ \A d \in Entries : d # e => at'[d] = at[d]
      /\ at'[e] = r
  BY <1>1, <1>2, StayingAtWork DEF MirrorInv, TypeOK, Busy
<1>4. ListingsAreFresh'
  BY <1>1, <1>2, <1>3 DEF MirrorInv, ListingsAreFresh, Written
<1>5. FileIsAListing'
  BY <1>1 DEF MirrorInv, FileIsAListing
<1>6. Written(e)' = Written(e)
  BY <1>1, <1>2, <1>3 DEF Written
<1>7. AloneIsOnCourse'
  <2>1. e \in Active
    BY <1>1 DEF Active, Busy
  <2>2. QED
    BY <1>1, <1>2, <1>3, <1>6, <2>1 DEF MirrorInv, AloneIsOnCourse
<1>8. QED
  BY <1>3, <1>4, <1>5, <1>7 DEF MirrorInv

LEMMA ListFailsKeepsInv ==
  ASSUME MirrorInv, NEW e \in Entries, ListFails(e)
  PROVE  MirrorInv'
<1> DEFINE r == [at[e] EXCEPT !.pc = "mirrored"]
<1>1. /\ at[e].pc = "inserted" /\ at[e].kind = "cancelled"
      /\ at' = [at EXCEPT ![e] = r]
      /\ UNCHANGED <<committed, writer, file, alone, trouble>>
  BY DEF ListFails, Goto
<1>2. r \in Request /\ r.pc = "mirrored" /\ r.kind = at[e].kind
  BY <1>1, RequestFields DEF MirrorInv, TypeOK, Request, Busy
<1>3. /\ TypeOK' /\ Active' = Active
      /\ \A d \in Entries : d # e => at'[d] = at[d]
      /\ at'[e] = r
  BY <1>1, <1>2, StayingAtWork DEF MirrorInv, TypeOK, Busy
<1>4. ListingsAreFresh' /\ FileIsAListing'
  BY <1>1, <1>2, <1>3 DEF MirrorInv, ListingsAreFresh, FileIsAListing
<1>5. AloneIsOnCourse'
  <2>1. e \in Active
    BY <1>1 DEF Active, Busy
  <2>2. ~ alone
    <3>1. SUFFICES ASSUME alone PROVE FALSE
      OBVIOUS
    <3>2. PICK d \in Entries : Active = {d} /\ at[d].kind # "cancelled"
      BY <2>1, <3>1 DEF MirrorInv, AloneIsOnCourse
    <3>3. QED
      BY <1>1, <2>1, <3>2
  <2>3. QED
    BY <1>1, <2>2 DEF AloneIsOnCourse
<1>6. QED
  BY <1>3, <1>4, <1>5 DEF MirrorInv

LEMMA RenameKeepsInv ==
  ASSUME MirrorInv, NEW e \in Entries, Rename(e)
  PROVE  MirrorInv'
<1> DEFINE r == [at[e] EXCEPT !.pc = "mirrored"]
<1>1. /\ at[e].pc = "listed" /\ at' = [at EXCEPT ![e] = r]
      /\ file' = at[e].entries
      /\ UNCHANGED <<committed, writer, alone, trouble>>
  BY DEF Rename, Goto
<1>2. /\ r \in Request /\ r.pc = "mirrored" /\ r.kind = at[e].kind
      /\ r.entries = at[e].entries /\ at[e].entries \subseteq Entries
  BY <1>1, RequestFields DEF MirrorInv, TypeOK, Request, Busy
<1>3. /\ TypeOK' /\ Active' = Active
      /\ \A d \in Entries : d # e => at'[d] = at[d]
      /\ at'[e] = r
  BY <1>1, <1>2, StayingAtWork DEF MirrorInv, TypeOK, Busy
<1>4. ListingsAreFresh'
  BY <1>1, <1>2, <1>3 DEF MirrorInv, ListingsAreFresh
<1>5. FileIsAListing'
  BY <1>1 DEF MirrorInv, FileIsAListing, ListingsAreFresh
<1>6. Written(e)' = Written(e)
  BY <1>1, <1>2, <1>3 DEF Written
<1>7. AloneIsOnCourse'
  <2>1. e \in Active
    BY <1>1 DEF Active, Busy
  <2>2. QED
    BY <1>1, <1>2, <1>3, <1>6, <2>1 DEF MirrorInv, AloneIsOnCourse
<1>8. QED
  BY <1>3, <1>4, <1>5, <1>7 DEF MirrorInv

LEMMA MirrorFailsKeepsInv ==
  ASSUME MirrorInv, NEW e \in Entries, MirrorFails(e)
  PROVE  MirrorInv'
<1> DEFINE r == [at[e] EXCEPT !.pc = "mirrored"]
<1>1. /\ at[e].pc \in Busy /\ at' = [at EXCEPT ![e] = r]
      /\ alone' = FALSE /\ trouble' \in 0..MaxTrouble
      /\ UNCHANGED <<committed, writer, file>>
  BY BoundsAssumption DEF MirrorInv, TypeOK, MirrorFails, Goto, Trouble, Busy
<1>2. r \in Request /\ r.pc = "mirrored" /\ r.kind = at[e].kind
  BY <1>1, RequestFields DEF MirrorInv, TypeOK, Request, Busy
<1>3. /\ TypeOK'
      /\ \A d \in Entries : d # e => at'[d] = at[d]
      /\ at'[e] = r
  BY <1>1, <1>2, StayingAtWork DEF MirrorInv, TypeOK, Busy
<1>4. ListingsAreFresh'
  BY <1>1, <1>2, <1>3 DEF MirrorInv, ListingsAreFresh
<1>5. FileIsAListing' /\ AloneIsOnCourse'
  BY <1>1 DEF MirrorInv, FileIsAListing, AloneIsOnCourse
<1>6. QED
  BY <1>3, <1>4, <1>5 DEF MirrorInv

-----------------------------------------------------------------------------
(* Requests end: `dead` leave, and the lock goes with its holder. *)

LEMMA LeavingIsTyped ==
  ASSUME TypeOK, NEW dead \in SUBSET Active,
         at' = [e \in Entries |-> IF e \in dead THEN Gone ELSE at[e]],
         writer' = IF writer \in dead THEN None ELSE writer,
         committed' \subseteq Entries, UNCHANGED file,
         alone' \in BOOLEAN, trouble' \in 0..MaxTrouble
  PROVE  TypeOK'
<1>1. at' \in [Entries -> Request]'
  BY DEF TypeOK, Request
<1>2. \A e \in Entries : writer' = e <=> (at'[e].pc \in Busy /\ at'[e].kind = "decision")
  BY EntriesAssumption DEF TypeOK, Busy, Gone, Active
<1>3. QED
  BY <1>1, <1>2 DEF TypeOK

LEMMA CommitKeepsInv ==
  ASSUME MirrorInv, NEW e \in Entries, Commit(e)
  PROVE  MirrorInv'
<1>1. /\ at[e].pc = "mirrored" /\ at[e].kind = "decision" /\ writer = e
      /\ e \in Active
      /\ committed' = committed \cup {e} /\ writer' = None
      /\ at' = [d \in Entries |-> IF d \in {e} THEN Gone ELSE at[d]]
      /\ UNCHANGED <<file, alone, trouble>>
  BY DEF MirrorInv, TypeOK, Commit, Active, Busy
<1>2. TypeOK'
  <2>1. {e} \in SUBSET Active /\ writer' = IF writer \in {e} THEN None ELSE writer
    BY <1>1
  <2>2. committed' \subseteq Entries /\ alone' \in BOOLEAN /\ trouble' \in 0..MaxTrouble
    BY <1>1 DEF MirrorInv, TypeOK
  <2>3. QED
    BY <1>1, <2>1, <2>2, LeavingIsTyped DEF MirrorInv
<1>3. ListingsAreFresh'
  <2>1. \A d \in Entries : d # e /\ at[d].pc = "listed" => at[d].kind # "decision"
    BY <1>1 DEF MirrorInv, TypeOK, Busy
  <2>2. QED
    BY <1>1, <2>1 DEF MirrorInv, ListingsAreFresh, Gone
<1>4. FileIsAListing'
  BY <1>1 DEF MirrorInv, FileIsAListing
<1>5. AloneIsOnCourse'
  <2>1. Active' = Active \ {e}
    BY <1>1 DEF Active, Busy, Gone
  <2>2. alone => Active = {e} /\ file = committed \cup {e}
    BY <1>1 DEF MirrorInv, AloneIsOnCourse, Written
  <2>3. QED
    BY <1>1, <2>1, <2>2 DEF AloneIsOnCourse
<1>6. QED
  BY <1>2, <1>3, <1>4, <1>5 DEF MirrorInv

LEMMA ReturnKeepsInv ==
  ASSUME MirrorInv, NEW e \in Entries, Return(e)
  PROVE  MirrorInv'
<1>1. /\ at[e].pc = "mirrored" /\ at[e].kind \in {"edit", "cancelled"} /\ writer # e
      /\ e \in Active
      /\ at' = [d \in Entries |-> IF d \in {e} THEN Gone ELSE at[d]]
      /\ UNCHANGED <<committed, writer, file, alone, trouble>>
  BY DEF MirrorInv, TypeOK, Return, Active, Busy
<1>2. TypeOK'
  <2>1. {e} \in SUBSET Active /\ writer' = IF writer \in {e} THEN None ELSE writer
    BY <1>1
  <2>2. committed' \subseteq Entries /\ alone' \in BOOLEAN /\ trouble' \in 0..MaxTrouble
    BY <1>1 DEF MirrorInv, TypeOK
  <2>3. QED
    BY <1>1, <2>1, <2>2, LeavingIsTyped DEF MirrorInv
<1>3. ListingsAreFresh' /\ FileIsAListing'
  BY <1>1 DEF MirrorInv, ListingsAreFresh, FileIsAListing, Gone
<1>4. AloneIsOnCourse'
  <2>1. Active' = Active \ {e}
    BY <1>1 DEF Active, Busy, Gone
  <2>2. alone => Active = {e} /\ file = committed
    BY <1>1 DEF MirrorInv, AloneIsOnCourse, Written
  <2>3. QED
    BY <1>1, <2>1, <2>2 DEF AloneIsOnCourse
<1>5. QED
  BY <1>2, <1>3, <1>4 DEF MirrorInv

(* A decision is cancelled: it stays at work, without its lock. *)
LEMMA CancelKeepsInv ==
  ASSUME MirrorInv, NEW e \in Entries, Cancel(e)
  PROVE  MirrorInv'
<1> DEFINE r == [at[e] EXCEPT !.kind = "cancelled"]
<1>1. /\ at[e].pc \in Busy /\ at[e].kind = "decision" /\ writer = e
      /\ at' = [at EXCEPT ![e] = r] /\ writer' = None
      /\ alone' = FALSE /\ trouble' \in 0..MaxTrouble
      /\ UNCHANGED <<committed, file>>
  BY BoundsAssumption DEF MirrorInv, TypeOK, Cancel, Trouble
<1>2. /\ r \in Request /\ r.pc = at[e].pc /\ r.kind = "cancelled"
      /\ r.entries = at[e].entries
  BY <1>1, RequestFields DEF MirrorInv, TypeOK, Request, Kinds, Busy
<1>3. at'[e] = r /\ \A d \in Entries : d # e => at'[d] = at[d]
  BY <1>1 DEF MirrorInv, TypeOK
<1>4. TypeOK'
  <2>1. at' \in [Entries -> Request]'
    BY <1>1, <1>2 DEF MirrorInv, TypeOK, Request
  <2>2. \A d \in Entries : writer' = d <=> (at'[d].pc \in Busy /\ at'[d].kind = "decision")
    BY <1>1, <1>2, <1>3, EntriesAssumption DEF MirrorInv, TypeOK
  <2>3. QED
    BY <1>1, <2>1, <2>2 DEF MirrorInv, TypeOK
<1>5. ListingsAreFresh' /\ FileIsAListing' /\ AloneIsOnCourse'
  BY <1>1, <1>2, <1>3 DEF MirrorInv, ListingsAreFresh, FileIsAListing, AloneIsOnCourse
<1>6. QED
  BY <1>4, <1>5 DEF MirrorInv

(* A process dies with its requests. *)
LEMMA TroubleKeepsInv ==
  ASSUME MirrorInv, NEW dead \in SUBSET Active, Trouble,
         at' = [e \in Entries |-> IF e \in dead THEN Gone ELSE at[e]],
         writer' = IF writer \in dead THEN None ELSE writer,
         UNCHANGED <<committed, file>>
  PROVE  MirrorInv'
<1>1. alone' = FALSE /\ trouble' \in 0..MaxTrouble
  BY BoundsAssumption DEF MirrorInv, TypeOK, Trouble
<1>2. TypeOK'
  BY <1>1, LeavingIsTyped DEF MirrorInv, TypeOK
<1>3. ListingsAreFresh' /\ FileIsAListing' /\ AloneIsOnCourse'
  BY <1>1 DEF MirrorInv, ListingsAreFresh, FileIsAListing, AloneIsOnCourse, Gone
<1>4. QED
  BY <1>2, <1>3 DEF MirrorInv

LEMMA MirrorInvInductive == MirrorInv /\ [Next]_vars => MirrorInv'
<1> SUFFICES ASSUME MirrorInv, [Next]_vars PROVE MirrorInv'
  OBVIOUS
<1>1. CASE \E e \in Entries, p \in Processes : InsertDecision(e, p) \/ InsertEdit(e, p)
  BY <1>1, BeginKeepsInv
<1>2. CASE \E e \in Entries : Continue(e)
  BY <1>2, ListKeepsInv, ListFailsKeepsInv, RenameKeepsInv, CommitKeepsInv, ReturnKeepsInv
     DEF Continue
<1>3. CASE \E e \in Entries : MirrorFails(e)
  BY <1>3, MirrorFailsKeepsInv
<1>4. CASE \E e \in Entries : Cancel(e)
  BY <1>4, CancelKeepsInv
<1>5. ASSUME NEW p \in Processes, ProcessDies(p) PROVE MirrorInv'
  BY <1>5, TroubleKeepsInv DEF ProcessDies
<1>6. CASE UNCHANGED vars
  <2>1. Active' = Active /\ \A e \in Entries : Written(e)' = Written(e)
    BY <1>6 DEF vars, Active, Written
  <2>2. TypeOK' /\ ListingsAreFresh' /\ FileIsAListing'
    BY <1>6 DEF MirrorInv, vars, TypeOK, ListingsAreFresh, FileIsAListing, Request
  <2>3. AloneIsOnCourse'
    BY <1>6, <2>1 DEF MirrorInv, vars, AloneIsOnCourse
  <2>4. QED
    BY <2>2, <2>3 DEF MirrorInv
<1>7. QED
  BY <1>1, <1>2, <1>3, <1>4, <1>5, <1>6 DEF Next

LEMMA MirrorInvHolds == Spec => []MirrorInv
BY InitMirrorInv, MirrorInvInductive, PTL DEF Spec

-----------------------------------------------------------------------------
(* Whatever fails, is cancelled or dies, the database's lock is held by a   *)
(* decision that is still at work or by nobody (db.go: "a panic must not    *)
(* leave the transaction open").                                            *)
THEOREM TheLockIsReleased == Spec => []TypeOK
<1>1. MirrorInv => TypeOK
  BY DEF MirrorInv
<1>2. QED
  BY <1>1, MirrorInvHolds, PTL

(* The file never shows two decisions that are not on record (mirror.go     *)
(* regenerates it whole).                                                   *)
THEOREM OnePhantom == Spec => []OnePhantomAtMost
<1>1. MirrorInv => OnePhantomAtMost
  <2> SUFFICES ASSUME MirrorInv PROVE OnePhantomAtMost
    OBVIOUS
  <2>1. PICK e : file \ committed \subseteq {e}
    BY DEF MirrorInv, FileIsAListing
  <2>2. IsFiniteSet({e}) /\ Cardinality({e}) = 1
    BY FS_Singleton
  <2>3. Cardinality(file \ committed) <= 1
    BY <2>1, <2>2, FS_Subset, FS_CardinalityType
  <2>4. QED
    BY <2>3 DEF OnePhantomAtMost
<1>2. QED
  BY <1>1, MirrorInvHolds, PTL

(* An append nothing disturbs, late renames of cancelled decisions          *)
(* included, leaves the mirror equal to the log.                            *)
THEOREM AloneIsExact == Spec => []AloneMeansExact
<1>1. MirrorInv => AloneMeansExact
  BY DEF MirrorInv, AloneIsOnCourse, AloneMeansExact
<1>2. QED
  BY <1>1, MirrorInvHolds, PTL

(* What a decision leaves in the file under its lock holds everything on    *)
(* record.                                                                  *)
THEOREM DecisionsAreComplete == Spec => DecisionsShowAll
<1> DEFINE Step ==
      \A e \in Entries :
        (writer = e /\ at[e].pc = "listed" /\ at'[e].pc = "mirrored" /\ file' # file)
          => committed \subseteq file'
<1>1. MirrorInv /\ [Next]_vars => [Step]_vars
  <2> SUFFICES ASSUME MirrorInv, Next, NEW e \in Entries,
                      writer = e, at[e].pc = "listed", at'[e].pc = "mirrored", file' # file
               PROVE  committed \subseteq file'
    BY DEF vars
  <2>1. PICK d \in Entries : Rename(d)
    BY DEF Next, Continue, InsertDecision, InsertEdit, Begin, List, ListFails, Commit,
           Return, MirrorFails, Cancel, ProcessDies
  <2>2. d = e
    BY <2>1 DEF MirrorInv, TypeOK, Rename, Goto
  <2>3. at[e].kind = "decision"
    BY DEF MirrorInv, TypeOK
  <2>4. QED
    BY <2>1, <2>2, <2>3 DEF MirrorInv, ListingsAreFresh, Rename
<1>2. Spec => [][Step]_vars
  BY <1>1, MirrorInvHolds, PTL DEF Spec
<1>3. QED
  BY <1>2 DEF DecisionsShowAll
=============================================================================
