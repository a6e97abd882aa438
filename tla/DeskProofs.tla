----------------------------- MODULE DeskProofs -----------------------------
(***************************************************************************)
(* For any number of tabs and terminals, any topics, any registry of steps *)
(* and any number of calls: stored ids are safe, adds are told the truth,  *)
(* answers and the log agree, and lists read in order.                      *)
(*                                                                         *)
(* The argument.  DeskInv says of every call in flight what is true of it, *)
(* by its own phase.  What others do only makes the record grow            *)
(* (RecordGrows): no row goes, none changes its topic or its date, every   *)
(* entry stays and none is another call's.  So each call stands through    *)
(* the steps of others (OthersLeaveCalls), and a step has to be looked at  *)
(* for its own call alone (ClientSteps, AnswersStand).                     *)
(*                                                                         *)
(* Three facts about the operators carry the rest: texts that sort one way *)
(* show their seconds in that order (TextsShowTheirSeconds), whatever is   *)
(* typed becomes bytes (SlugsAreBytes), and a suffix leaves a safe id safe *)
(* (CandidatesAreSafe).  The loop of Slugify is reasoned about with   *)
(* the lemmas on loops of SharedLemmas.                                    *)
(***************************************************************************)
EXTENDS Desk, SequenceTheorems, SharedLemmas

-----------------------------------------------------------------------------
(* Times.                                                                  *)

(* ORDER BY on stored texts never contradicts the seconds they show: a text *)
(* begins with its second, and one that shows more sorts after.             *)
LEMMA TextsShowTheirSeconds ==
  ASSUME NEW a \in Text, NEW b \in Text, ~TextBefore(b, a)
  PROVE  FormatSecond(a) <= FormatSecond(b)
<1>1. \A text \in Text : 1 \in DOMAIN text /\ text[1] \in Nat
  <2>1. ASSUME NEW t \in Ticks PROVE 1 \in DOMAIN FormatTime(t) /\ FormatTime(t)[1] \in Nat
    <3>1. t \in Nat /\ t \div 100 \in Nat
      BY ClockAssumption
    <3> QED BY <3>1 DEF FormatTime
  <2> QED BY <2>1 DEF Text
<1>2. ~(b[1] < a[1])
  BY <1>1 DEF TextBefore
<1> QED BY <1>1, <1>2 DEF FormatSecond

-----------------------------------------------------------------------------
(* Words.                                                                  *)

(* A table whose words all have a number puts none but numbers on the wire,  *)
(* and each number reads as the word it was made of.                         *)
LEMMA NamesHaveNumbers ==
  ASSUME NEW table, NEW names, \A d \in DOMAIN table : \E n \in DOMAIN names : names[n] = table[d]
  PROVE  /\ \A d : ToProto(table, names, d) \in Number(names)
         /\ \A d \in DOMAIN table : names[NumberOf(names, table[d])] = table[d]
<1>1. \A d \in DOMAIN table : /\ NumberOf(names, table[d]) \in DOMAIN names
                             /\ names[NumberOf(names, table[d])] = table[d]
  BY DEF NumberOf
<1> QED BY <1>1 DEF ToProto, Number

LEMMA NumbersAreKnown ==
  /\ \A s : toProtoVideoStatus(s) \in Number(VideoStatus_name)
  /\ \A g : toProtoGate(g) \in Number(Gate_name)
<1>1. \A s \in DOMAIN statusToProto : \E n \in DOMAIN VideoStatus_name : VideoStatus_name[n] = statusToProto[s]
  BY DEF statusToProto, VideoStatus_name
<1>2. \A g \in DOMAIN gateToProto : \E n \in DOMAIN Gate_name : Gate_name[n] = gateToProto[g]
  BY DEF gateToProto, Gate_name
<1> QED BY <1>1, <1>2, NamesHaveNumbers DEF toProtoVideoStatus, toProtoGate

(* The label beside a number is the gate the number is taken for. *)
LEMMA LabelsTellTheGate ==
  ASSUME NEW c, NEW g, DecodeGate(c, g) \in Gate
  PROVE  Meant(c, g) = DecodeGate(c, g)
<1>1. CASE c \notin Tabs
  BY <1>1 DEF DecodeGate, Meant
<1>2. CASE c \in Tabs
  <2> DEFINE values == {d \in DOMAIN gateToProto : NumberOf(Gate_name, gateToProto[d]) = g}
  <2>1. fromProtoGate(g) \in Gate
    BY <1>2 DEF DecodeGate
  <2>2. values # {}
    BY <2>1 DEF fromProtoGate, FromProto, NoGate, Gate, gates
  <2>3. fromProtoGate(g) \in values
    BY <2>2 DEF fromProtoGate, FromProto
  <2>4. \A d \in DOMAIN gateToProto : \E n \in DOMAIN Gate_name : Gate_name[n] = gateToProto[d]
    BY DEF gateToProto, Gate_name
  <2>5. g \in DOMAIN Gate_name /\ Gate_name[g] = gateToProto[fromProtoGate(g)]
    BY <2>3, <2>4 DEF NumberOf
  <2>6. gateLabel(g) = fromProtoGate(g)
    BY <2>1, <2>5 DEF Gate, gates, Gate_name, gateToProto, gateLabel
  <2> QED BY <1>2, <2>6 DEF DecodeGate, Meant
<1> QED BY <1>1, <1>2

(* Only what went well is told as well done, through either door. *)
LEMMA OnlyOkIsOk ==
  ASSUME NEW c, NEW error
  PROVE  Outcome(c, error) \in {"ok", "0"} <=> error = "none"
BY DEF Outcome, toConnectError

(* What is told of a row is a message of the contract. *)
LEMMA MessagesOfVideos ==
  ASSUME NEW ids, NEW id \in ids, NEW row \in VideoRow
  PROVE  toProtoVideo(id, row) \in
           VideoMessage(ids, Topics \cup StartingTopics, {FormatSecond(t) : t \in Text})
<1>1. IsTerminal(row.video.status) \in BOOLEAN
  BY DEF IsTerminal
<1>2. row.priority \in 1..5 /\ row.createdAt \in Text /\ row.topic \in Topics \cup StartingTopics
  BY DEF VideoRow, PriorityHighest, PriorityLowest
<1> QED BY <1>1, <1>2, NumbersAreKnown DEF toProtoVideo, VideoMessage

-----------------------------------------------------------------------------
(* Ids.                                                                    *)

(* Every set of numbers has a least one: in place of induction. *)
(* Trimming takes a part of what was there. *)
LEMMA TrimmingShortens ==
  ASSUME NEW s \in Seq(Byte)
  PROVE  TrimDashes(s) \in Seq(Byte)
<1> DEFINE kept == {i \in DOMAIN s : s[i] # "-"}
<1>1. CASE kept = {}
  BY <1>1 DEF TrimDashes
<1>2. CASE kept # {}
  <2>1. Len(s) \in Nat /\ kept \in SUBSET (1..Len(s)) /\ kept \in SUBSET Nat
    BY LenProperties
  <2> DEFINE first == CHOOSE i \in kept : \A j \in kept : i <= j
             last == CHOOSE i \in kept : \A j \in kept : i >= j
  <2>2. first \in kept /\ last \in kept
    <3>1. kept \in SUBSET (0..Len(s))
      BY <2>1
    <3> HIDE DEF kept
    <3> QED BY <1>2, <2>1, <3>1, LeastNumber, GreatestNumber
  <2>3. TrimDashes(s) = SubSeq(s, first, last)
    BY <1>2 DEF TrimDashes
  <2> HIDE DEF first, last, kept
  <2>4. \A i \in first..last : s[i] \in Byte
    BY <2>1, <2>2, ElementOfSeq
  <2> QED BY <2>1, <2>2, <2>3, <2>4, SubSeqProperties
<1> QED BY <1>1, <1>2

(* A run of the loop of Slugify over the first n characters. *)
Writes(f, topic, n) ==
  /\ f \in [0..n -> Seq(Byte)]
  /\ f[0] = <<>>
  /\ \A k \in 1..n : f[k] = WriteRune(f[k - 1], topic[k])

LEMMA RunesAreBytes ==
  ASSUME NEW s \in Seq(Byte), NEW r
  PROVE  WriteRune(s, r) \in Seq(Byte)
<1>1. <<"lead byte", "tail byte">> \in Seq(Byte)
  <2>1. "lead byte" \in Byte /\ "tail byte" \in Byte
    BY DEF Byte, WideByte
  <2>2. ASSUME NEW a \in Byte, NEW b \in Byte PROVE <<a, b>> \in Seq(Byte)
    OBVIOUS
  <2> QED BY <2>1, <2>2
<1>2. s \o <<"lead byte", "tail byte">> \in Seq(Byte)
  BY <1>1, ConcatProperties
<1>3. Append(s, "-") \in Seq(Byte)
  BY AppendProperties DEF Byte
<1>4. LowerCase(r) \in Letter \cup Digit => Append(s, LowerCase(r)) \in Seq(Byte)
  BY AppendProperties DEF Byte
<1> QED BY <1>2, <1>3, <1>4 DEF WriteRune

(* The loop comes to an end for every topic. *)
LEMMA LoopsRun ==
  ASSUME NEW topic, NEW n \in Nat
  PROVE  \E f : Writes(f, topic, n)
<1> DEFINE body == [k \in 1..n |-> [s \in Seq(Byte) |-> WriteRune(s, topic[k])]]
<1>1. body \in [1..n -> [Seq(Byte) -> Seq(Byte)]] /\ <<>> \in Seq(Byte)
  BY RunesAreBytes
<1>2. \A k \in 1..n : \A s \in Seq(Byte) : body[k][s] = WriteRune(s, topic[k])
  OBVIOUS
<1> HIDE DEF body
<1>3. PICK f \in [0..n -> Seq(Byte)] : LoopRuns(f, <<>>, n, body)
  BY <1>1, LoopExists
<1>4. \A k \in 1..n : f[k] = WriteRune(f[k - 1], topic[k])
  <2>1. ASSUME NEW k \in 1..n PROVE f[k - 1] \in Seq(Byte)
    <3>1. k - 1 \in 0..n
      OBVIOUS
    <3> QED BY <3>1
  <2> QED BY <1>2, <1>3, <2>1 DEF LoopRuns
<1> QED BY <1>3, <1>4 DEF Writes, LoopRuns

(* All it has written is bytes. *)
LEMMA TopicsAreWritten ==
  ASSUME NEW topic \in Seq(Character)
  PROVE  Written(topic)[Len(topic)] \in Seq(Byte)
<1> DEFINE n == Len(topic)
           w == Written(topic)
<1>1. n \in Nat
  BY LenProperties
<1>2. PICK f : Writes(f, topic, n)
  BY <1>1, LoopsRun
<1>3. f = [k \in 0..n |-> IF k = 0 THEN <<>> ELSE WriteRune(f[k - 1], topic[k])]
  BY <1>1, <1>2 DEF Writes
<1>4. w = [k \in 0..n |-> IF k = 0 THEN <<>> ELSE WriteRune(w[k - 1], topic[k])]
  BY <1>3 DEF Written
<1> HIDE DEF w, n
<1>5. w[0] \in Seq(Byte) /\ \A k \in 1..n : w[k] = WriteRune(w[k - 1], topic[k])
  BY <1>1, <1>4
<1>6. \A k \in 1..n : w[k - 1] \in Seq(Byte) => w[k] \in Seq(Byte)
  BY <1>5, RunesAreBytes
<1>7. \A k \in 0..n : w[k] \in Seq(Byte)
  BY <1>1, <1>5, <1>6, LoopStays
<1> QED BY <1>1, <1>7 DEF n, w

LEMMA SlugsAreBytes ==
  ASSUME NEW topic \in Seq(Character)
  PROVE  Slugify(topic) \in Seq(Byte)
<1> DEFINE slug == TrimDashes(Written(topic)[Len(topic)])
<1>1. slug \in Seq(Byte)
  BY TopicsAreWritten, TrimmingShortens
<1>2. Len(slug) > MaxIdBytes => SubSeq(slug, 1, MaxIdBytes) \in Seq(Byte)
  <2> HIDE DEF slug
  <2> SUFFICES ASSUME Len(slug) > MaxIdBytes PROVE SubSeq(slug, 1, MaxIdBytes) \in Seq(Byte)
    OBVIOUS
  <2>1. Len(slug) \in Nat /\ \A i \in 1..Len(slug) : slug[i] \in Byte
    BY <1>1, LenProperties, ElementOfSeq
  <2>2. MaxIdBytes \in Int /\ \A i \in 1..MaxIdBytes : slug[i] \in Byte
    BY <2>1, IdBounds
  <2> QED BY <2>2, SubSeqProperties
<1> QED BY <1>1, <1>2, TrimmingShortens DEF Slugify

(* A topic whose slug is safe has nothing but safe ids to try. *)
LEMMA SuffixesAreSafe ==
  ASSUME NEW n \in 1..20
  PROVE  Suffix(n) \in Seq(Letter \cup Digit \cup {"-"}) /\ Len(Suffix(n)) \in 2..3
<1>1. \A i \in 1..10 : digit[i] \in Digit
  BY DEF Digit, digit
<1>2. CASE n < 10
  <2>1. Suffix(n) = <<"-", digit[n + 1]>> /\ digit[n + 1] \in Digit
    BY <1>1, <1>2 DEF Suffix
  <2> QED BY <2>1
<1>3. CASE n >= 10
  <2>1. (n \div 10) + 1 \in 1..10 /\ (n % 10) + 1 \in 1..10
    BY <1>3
  <2>2. Suffix(n) = <<"-", digit[(n \div 10) + 1], digit[(n % 10) + 1]>>
    BY <1>3 DEF Suffix
  <2> QED BY <1>1, <2>1, <2>2
<1> QED BY <1>2, <1>3

LEMMA CandidatesAreSafe ==
  ASSUME NEW base \in Seq(Byte), PathSafe(base), NEW n \in 1..MaxAttempts
  PROVE  PathSafe(Candidate(base, n))
<1> DEFINE Safe == Letter \cup Digit \cup {"-"}
           suffix == Suffix(n)
<1>1. n \in 1..20 /\ MaxIdBytes \in 3..64
  BY IdBounds
<1>2. suffix \in Seq(Safe) /\ Len(suffix) \in 2..3
  BY <1>1, SuffixesAreSafe
<1>3. base \in Seq(Safe) /\ Len(base) \in 1..MaxIdBytes /\ \A i \in 1..Len(base) : base[i] \in Safe
  <2>1. Len(base) \in Nat /\ DOMAIN base = 1..Len(base) /\ base = [i \in 1..Len(base) |-> base[i]]
    BY LenProperties
  <2> QED BY <2>1 DEF PathSafe
<1> HIDE DEF suffix, Safe
<1>4. ASSUME NEW s \in Seq(Safe), Len(s) \in 1..MaxIdBytes PROVE PathSafe(s)
  BY <1>4, LenProperties, ElementOfSeq DEF PathSafe, Safe
<1>5. base \o suffix \in Seq(Safe) /\ Len(base \o suffix) = Len(base) + Len(suffix)
  BY <1>2, <1>3, ConcatProperties
<1> DEFINE cut == SubSeq(base, 1, MaxIdBytes - Len(suffix))
<1>6. CASE Len(base \o suffix) > MaxIdBytes
  <2>1. MaxIdBytes - Len(suffix) \in 0..Len(base)
    <3>1. Len(base) + Len(suffix) > MaxIdBytes
      BY <1>5, <1>6
    <3>2. \A m \in 3..64 : \A l \in 1..m, k \in 2..3 : l + k > m => m - k \in 0..l
      OBVIOUS
    <3> QED BY <1>1, <1>2, <1>3, <3>1, <3>2
  <2>2. cut \in Seq(Safe) /\ Len(cut) = MaxIdBytes - Len(suffix)
    BY <1>1, <1>2, <1>3, <2>1, SubSeqProperties
  <2> HIDE DEF cut
  <2>3. cut \o suffix \in Seq(Safe) /\ Len(cut \o suffix) = MaxIdBytes
    BY <1>1, <1>2, <2>2, ConcatProperties
  <2>4. Candidate(base, n) \in {base, cut \o suffix}
    BY <1>1, <1>6 DEF Candidate, cut, suffix
  <2>5. PathSafe(cut \o suffix)
    <3>1. MaxIdBytes \in 1..MaxIdBytes
      BY <1>1
    <3> QED BY <1>4, <2>3, <3>1
  <2> QED BY <2>4, <2>5
<1>7. CASE ~(Len(base \o suffix) > MaxIdBytes)
  <2>1. Candidate(base, n) \in {base, base \o suffix}
    BY <1>7 DEF Candidate, suffix
  <2>2. Len(base \o suffix) \in 1..MaxIdBytes
    BY <1>1, <1>2, <1>3, <1>5, <1>7
  <2> QED BY <1>3, <1>4, <1>5, <2>1, <2>2
<1> QED BY <1>6, <1>7

-----------------------------------------------------------------------------
(* What others do leaves a call as it stands.                              *)

(* Rows stay and keep what they were made with, entries stay, none is made  *)
(* for this call, and an id that is taken is taken on record.              *)
RecordGrows(serial) ==
  /\ \A id \in DOMAIN rows :
       /\ id \in DOMAIN rows' /\ rows'[id].topic = rows[id].topic
       /\ rows'[id].createdAt = rows[id].createdAt
  /\ \A id \in DOMAIN rows' : id \notin DOMAIN rows => \E i \in DOMAIN log' : log'[i].video = id
  /\ \A i \in DOMAIN log : i \in DOMAIN log' /\ log'[i] = log[i]
  /\ \A i \in DOMAIN log' : i \notin DOMAIN log => log'[i].call # serial
  /\ made' \in Nat /\ made' >= made

LEMMA EntriesAreRows ==
  ASSUME TablesAreTyped, NEW i \in DOMAIN log
  PROVE  log[i] \in LogRow /\ log[i].video \in DOMAIN rows /\ log[i].call \in 1..made
<1>1. log[i] \in LogRow
  BY LenProperties, ElementOfSeq DEF TablesAreTyped
<1> QED BY <1>1 DEF LogRow

(* A call's entries are its own. *)
LEMMA RecordsStay ==
  ASSUME NEW c, calls'[c] = calls[c], RecordGrows(calls[c].serial)
  PROVE  RecordsOf(c)' = RecordsOf(c)
BY DEF RecordGrows, RecordsOf

(* An id others take while an add is between its query and its insert is    *)
(* taken on record.                                                         *)
LEMMA AddsOnTheirWayStay ==
  ASSUME NEW c, calls'[c] = calls[c], RecordGrows(calls[c].serial), AddIsOnItsWay(c)
  PROVE  AddIsOnItsWay(c)'
<1>1. Proposed(c)' = Proposed(c)
  BY DEF Proposed
<1>2. calls[c].pc = "creating" => PathSafe(Proposed(c)) /\ calls[c].at \in Text
  BY DEF AddIsOnItsWay
<1>3. ASSUME calls[c].pc = "creating", Proposed(c) \in DOMAIN rows'
      PROVE  \E i \in DOMAIN log' : log'[i].video = Proposed(c)
  <2>1. CASE Proposed(c) \in DOMAIN rows
    <3>1. PICK i \in DOMAIN log : log[i].video = Proposed(c)
      BY <1>3, <2>1 DEF AddIsOnItsWay
    <3> QED BY <3>1 DEF RecordGrows
  <2>2. CASE Proposed(c) \notin DOMAIN rows
    BY <1>3, <2>2 DEF RecordGrows
  <2> QED BY <2>1, <2>2
<1>4. calls[c].pc = "checking" => \A n \in 1..calls[c].attempt - 1 : Candidate(calls[c].base, n) \in DOMAIN rows'
  BY DEF AddIsOnItsWay, RecordGrows
<1>5. /\ calls[c].op = "AddVideo" /\ ~AddRefused(calls[c].req)
      /\ calls[c].base = slugOf[calls[c].req.topic] /\ calls[c].attempt \in 1..MaxAttempts
  BY DEF AddIsOnItsWay
<1> QED BY <1>1, <1>2, <1>3, <1>4, <1>5 DEF AddIsOnItsWay

(* What an add was told stays true, as nothing of its row changes. *)
LEMMA AddsStayTrue ==
  ASSUME TablesAreTyped, NEW c, calls'[c] = calls[c], RecordGrows(calls[c].serial), AddIsTrue(c)
  PROVE  AddIsTrue(c)'
<1>1. Proposed(c)' = Proposed(c) /\ RecordsOf(c)' = RecordsOf(c)
  BY RecordsStay DEF Proposed
<1> DEFINE error == calls[c].answer.error
<1>2. CASE error = "none"
  <2>1. PICK i \in RecordsOf(c) : /\ log[i].video = Proposed(c) /\ log[i].action = "create"
                                  /\ rows[Proposed(c)].topic = calls[c].req.topic
                                  /\ rows[Proposed(c)].createdAt = log[i].at
    BY <1>2 DEF AddIsTrue
  <2>2. i \in DOMAIN log /\ log[i].video \in DOMAIN rows
    BY EntriesAreRows DEF RecordsOf
  <2>3. /\ i \in RecordsOf(c)' /\ log'[i].video = Proposed(c)' /\ log'[i].action = "create"
        /\ rows'[Proposed(c)'].topic = calls'[c].req.topic
        /\ rows'[Proposed(c)'].createdAt = log'[i].at
    BY <1>1, <2>1, <2>2 DEF RecordGrows
  <2> QED BY <1>2, <2>3 DEF AddIsTrue
<1>3. CASE error = "already exists"
  <2>1. PICK i \in DOMAIN log : log[i].video = Proposed(c) /\ log[i].call # calls[c].serial
    BY <1>3 DEF AddIsTrue
  <2>2. i \in DOMAIN log' /\ log'[i].video = Proposed(c)' /\ log'[i].call # calls'[c].serial
    BY <1>1, <2>1 DEF RecordGrows
  <2> QED BY <1>3, <2>2 DEF AddIsTrue
<1>4. CASE error = "validation"
  <2>1. \/ AddRefused(calls[c].req)
        \/ \A n \in 1..MaxAttempts : Candidate(calls[c].base, n) \in DOMAIN rows
    BY <1>4 DEF AddIsTrue
  <2>2. \/ AddRefused(calls'[c].req)
        \/ \A n \in 1..MaxAttempts : Candidate(calls'[c].base, n) \in DOMAIN rows'
    BY <2>1 DEF RecordGrows
  <2> QED BY <1>4, <2>2 DEF AddIsTrue
<1>5. CASE error \notin {"none", "already exists", "validation"}
  <2>1. error = "invalid id" /\ ~PathSafe(calls[c].base)
    BY <1>5 DEF AddIsTrue
  <2> QED BY <1>5, <2>1 DEF AddIsTrue
<1> QED BY <1>2, <1>3, <1>4, <1>5

(* So do the answers on their way: what they tell is told. *)
LEMMA OthersLeaveAnswers ==
  ASSUME TablesAreTyped, NEW c, calls'[c] = calls[c], RecordGrows(calls[c].serial), AnswerStands(c)
  PROVE  AnswerStands(c)'
<1> DEFINE k == calls[c]
           message == k.answer.message
           error == k.answer.error
<1>1. RecordsOf(c)' = RecordsOf(c)
  BY RecordsStay
<1>2. k.answer = AnswerOf(c, error, message) /\ error \in ErrorKind \cup {"none"}
  BY DEF AnswerStands
<1>3. DOMAIN rows \subseteq DOMAIN rows'
  BY DEF RecordGrows
<1>4. Range(VideosIn(message)) \subseteq
        VideoMessage(DOMAIN rows', Topics \cup StartingTopics, {FormatSecond(t) : t \in Text})
  <2>1. Range(VideosIn(message)) \subseteq
        VideoMessage(DOMAIN rows, Topics \cup StartingTopics, {FormatSecond(t) : t \in Text})
    BY DEF AnswerStands
  <2> QED BY <1>3, <2>1 DEF VideoMessage
<1>5. k.op \in Deciding => (RecordsOf(c)' # {} <=> error = "none")
  BY <1>1 DEF AnswerStands
<1>6. k.op = "AddVideo" => AddIsTrue(c)'
  BY AddsStayTrue DEF AnswerStands
<1>7. /\ k.op = "ListVideos" => ReadsByAge(VideosIn(message))
      /\ k.op = "ListReviewLog" /\ error = "none" => ReadsByTime(message.entries)
  BY DEF AnswerStands
<1> QED BY <1>2, <1>4, <1>5, <1>6, <1>7 DEF AnswerStands

(* Together: nobody disturbs a call in flight but its own client. *)
LEMMA OthersLeaveCalls ==
  ASSUME TablesAreTyped, NEW c, calls'[c] = calls[c], RecordGrows(calls[c].serial), CallStands(c)
  PROVE  CallStands(c)'
<1>1. RecordsOf(c)' = RecordsOf(c)
  BY RecordsStay
<1>2. IsCall(calls'[c]) /\ calls'[c].serial \in 1..made'
  BY DEF CallStands, RecordGrows, TablesAreTyped
<1>3. calls[c].op \in {"ApproveGate", "RejectGate"} =>
        \A i \in RecordsOf(c)' : log'[i].gate = Meant(c, calls[c].req.gate)
  <2>1. \A i \in RecordsOf(c) : log'[i] = log[i]
    BY DEF RecordsOf, RecordGrows
  <2> QED BY <1>1, <2>1 DEF CallStands
<1>4. calls[c].pc \in {"checking", "creating"} => AddIsOnItsWay(c)'
  BY AddsOnTheirWayStay DEF CallStands
<1>5. calls[c].pc = "replying" => AnswerStands(c)'
  BY OthersLeaveAnswers DEF CallStands
<1>6. /\ calls[c].pc \in {"arrived", "checking", "creating", "replying"}
      /\ calls[c].pc # "replying" => RecordsOf(c)' = {}
      /\ calls[c].op = "AddVideo" => calls[c].req.topic \in Topics
      /\ calls[c].pc = "arrived" => calls[c].attempt = 1
  BY <1>1 DEF CallStands
<1> QED BY <1>2, <1>3, <1>4, <1>5, <1>6 DEF CallStands

-----------------------------------------------------------------------------
(* What a client's own step has to leave behind.                           *)

(* So a client's step need only leave its own call as it should be. *)
LEMMA ClientSteps ==
  ASSUME DeskInv, NEW c \in Client, NEW k, calls' = [calls EXCEPT ![c] = k],
         TablesAreTyped', EntriesDiffer',
         k.pc # "idle" => /\ CallStands(c)'
                          /\ \/ calls[c].pc # "idle" /\ k.serial = calls[c].serial
                             \/ k.serial = made + 1,
         \A d \in Client : d # c /\ calls[d].pc # "idle" => RecordGrows(calls[d].serial)
  PROVE  DeskInv'
<1>1. calls = [d \in Client |-> calls[d]] /\ TablesAreTyped
  BY DEF DeskInv
<1>2. calls'[c] = k /\ \A d \in Client : d # c => calls'[d] = calls[d]
  BY <1>1
<1>3. calls' = [d \in Client |-> calls'[d]]
  BY <1>1
<1>4. ASSUME NEW d \in Client, calls'[d].pc # "idle" PROVE CallStands(d)'
  <2>1. CASE d = c
    BY <1>2, <1>4, <2>1
  <2>2. CASE d # c
    BY <1>1, <1>2, <1>4, <2>2, OthersLeaveCalls DEF DeskInv
  <2> QED BY <2>1, <2>2
<1>5. CallsDiffer'
  <2>1. \A d \in Client : calls[d].pc # "idle" => calls[d].serial \in 1..made
    BY DEF DeskInv, CallStands
  <2>2. made \in Nat
    BY <1>1 DEF TablesAreTyped
  <2>3. \A d \in Client : calls[d].pc # "idle" => calls[d].serial # made + 1
    BY <2>1, <2>2
  <2> SUFFICES ASSUME NEW d \in Client, NEW e \in Client, calls'[d].pc # "idle", calls'[e].pc # "idle",
                      calls'[d].serial = calls'[e].serial, d # e
               PROVE  FALSE
    BY DEF CallsDiffer
  <2>4. CASE d # c /\ e # c
    BY <1>2, <2>4 DEF DeskInv, CallsDiffer
  <2>5. ASSUME NEW f \in Client, f # c, calls[f].pc # "idle" PROVE k.pc # "idle" => calls[f].serial # k.serial
    BY <2>3, <2>5 DEF DeskInv, CallsDiffer
  <2> QED BY <1>2, <2>4, <2>5
<1> QED BY <1>3, <1>4, <1>5 DEF DeskInv

LEMMA NothingChanges ==
  ASSUME TablesAreTyped, NEW serial, UNCHANGED <<rows, log, made>>
  PROVE  RecordGrows(serial)
BY DEF RecordGrows, TablesAreTyped

Replied(r, answer) == [r EXCEPT !.pc = "replying", !.answer = answer]

LEMMA RepliesKeepTheCall ==
  ASSUME NEW r, IsCall(r), NEW answer, NEW k, k = Replied(r, answer)
  PROVE  /\ k.pc = "replying" /\ k.answer = answer
         /\ k.serial = r.serial /\ k.op = r.op /\ k.req = r.req
         /\ k.base = r.base /\ k.attempt = r.attempt /\ k.at = r.at
         /\ IsCall(k)
<1>1. r = [ pc |-> r.pc, serial |-> r.serial, op |-> r.op, req |-> r.req,
            base |-> r.base, attempt |-> r.attempt, at |-> r.at, answer |-> r.answer ]
  BY DEF IsCall
<1> QED BY <1>1 DEF IsCall, Replied

(* An answer changes its call's phase and nothing else of it. *)
LEMMA AnswersReply ==
  ASSUME DeskInv, NEW c \in Client, calls[c].pc # "idle", NEW error, NEW message,
         calls' = Answer(c, error, message)
  PROVE  /\ calls'[c].pc = "replying" /\ calls'[c].answer = AnswerOf(c, error, message)
         /\ calls'[c].serial = calls[c].serial /\ calls'[c].op = calls[c].op
         /\ calls'[c].req = calls[c].req /\ calls'[c].base = calls[c].base
         /\ calls'[c].attempt = calls[c].attempt /\ calls'[c].at = calls[c].at
         /\ IsCall(calls'[c])
<1>1. calls'[c] = Replied(calls[c], AnswerOf(c, error, message))
  BY DEF Answer, DeskInv, Replied
<1>2. IsCall(calls[c])
  BY DEF DeskInv, CallStands
<1> QED BY <1>1, <1>2, RepliesKeepTheCall

(* The answers that tell of no list and of no new video. *)
LEMMA AnswersStand ==
  ASSUME DeskInv, NEW c \in Client, calls[c].pc \in {"arrived", "checking", "creating"},
         NEW error \in ErrorKind \cup {"none"}, NEW message, calls' = Answer(c, error, message),
         TablesAreTyped', EntriesDiffer', UNCHANGED made,
         Range(VideosIn(message)) \subseteq
           VideoMessage(DOMAIN rows', Topics \cup StartingTopics, {FormatSecond(t) : t \in Text}),
         calls[c].op \in Deciding => (RecordsOf(c)' # {} <=> error = "none"),
         calls[c].op \in {"ApproveGate", "RejectGate"} =>
           \A i \in RecordsOf(c)' : log'[i].gate = Meant(c, calls[c].req.gate),
         calls[c].op = "AddVideo" => AddIsTrue(c)',
         calls[c].op = "ListVideos" => ReadsByAge(VideosIn(message)),
         calls[c].op = "ListReviewLog" /\ error = "none" => ReadsByTime(message.entries),
         \A d \in Client : d # c /\ calls[d].pc # "idle" => RecordGrows(calls[d].serial)
  PROVE  DeskInv'
<1> DEFINE k == calls'[c]
<1>1. /\ k.pc = "replying" /\ k.answer = AnswerOf(c, error, message)
      /\ k.serial = calls[c].serial /\ k.op = calls[c].op /\ k.req = calls[c].req
      /\ IsCall(k)
  <2>1. calls[c].pc # "idle"
    OBVIOUS
  <2> QED BY <2>1, AnswersReply
<1>2. k.answer.error = error /\ k.answer.message = message
  BY <1>1 DEF AnswerOf
<1>3. AnswerStands(c)'
  BY <1>1, <1>2 DEF AnswerStands
<1>4. CallStands(c)'
  <2>1. k.serial \in 1..made' /\ (k.op = "AddVideo" => k.req.topic \in Topics)
    BY <1>1 DEF DeskInv, CallStands
  <2> QED BY <1>1, <1>3, <2>1 DEF CallStands
<1>5. calls' = [calls EXCEPT ![c] = k]
  BY DEF Answer, DeskInv
<1> HIDE DEF k
<1> QED BY <1>1, <1>4, <1>5, ClientSteps DEF k

LEMMA TablesStay ==
  ASSUME TablesAreTyped, UNCHANGED <<rows, jobs, log, clock, made>>
  PROVE  TablesAreTyped' /\ JobRow' = JobRow /\ LogRow' = LogRow
BY DEF TablesAreTyped, JobRow, LogRow

(* Where the tables stay as they are. *)
LEMMA QuietAnswersStand ==
  ASSUME DeskInv, NEW c \in Client, calls[c].pc \in {"arrived", "checking", "creating"},
         NEW error \in ErrorKind \cup {"none"}, NEW message, calls' = Answer(c, error, message),
         UNCHANGED <<rows, jobs, log, clock, made>>,
         Range(VideosIn(message)) \subseteq
           VideoMessage(DOMAIN rows, Topics \cup StartingTopics, {FormatSecond(t) : t \in Text}),
         calls[c].op \in Deciding => error # "none",
         calls[c].op = "AddVideo" => AddIsTrue(c)',
         calls[c].op = "ListVideos" => ReadsByAge(VideosIn(message)),
         calls[c].op = "ListReviewLog" /\ error = "none" => ReadsByTime(message.entries)
  PROVE  DeskInv'
<1>1. TablesAreTyped' /\ EntriesDiffer'
  BY TablesStay DEF DeskInv, EntriesDiffer
<1>2. RecordsOf(c)' = {}
  <2>1. calls'[c].serial = calls[c].serial
    <3>1. calls[c].pc # "idle"
      OBVIOUS
    <3> QED BY <3>1, AnswersReply
  <2>2. RecordsOf(c) = {}
    BY DEF DeskInv, CallStands
  <2> QED BY <2>1, <2>2 DEF RecordsOf
<1>3. \A d \in Client : d # c /\ calls[d].pc # "idle" => RecordGrows(calls[d].serial)
  BY NothingChanges DEF DeskInv
<1>4. calls[c].op \in Deciding => (RecordsOf(c)' # {} <=> error = "none")
  BY <1>2
<1>5. calls[c].op \in {"ApproveGate", "RejectGate"} =>
        \A i \in RecordsOf(c)' : log'[i].gate = Meant(c, calls[c].req.gate)
  BY <1>2
<1> QED BY <1>1, <1>3, <1>4, <1>5, AnswersStand

LEMMA NoVideosIn ==
  ASSUME NEW message, "videos" \notin DOMAIN message, "video" \notin DOMAIN message
  PROVE  VideosIn(message) = <<>> /\ Range(VideosIn(message)) = {}
<1>1. VideosIn(message) = <<>>
  BY DEF VideosIn
<1> QED BY <1>1 DEF Range

(* A refusal tells of nothing and writes nothing. *)
LEMMA RefusalsStand ==
  ASSUME DeskInv, NEW c \in Client, calls[c].pc \in {"arrived", "checking", "creating"},
         NEW error \in ErrorKind, calls' = Answer(c, error, NoMessage),
         UNCHANGED <<rows, jobs, log, clock, made>>,
         calls[c].op = "AddVideo" => AddIsTrue(c)'
  PROVE  DeskInv'
<1>1. VideosIn(NoMessage) = <<>> /\ Range(VideosIn(NoMessage)) = {} /\ error # "none"
  BY NoVideosIn DEF NoMessage, ErrorKind
<1>2. ReadsByAge(VideosIn(NoMessage))
  BY <1>1 DEF ReadsByAge
<1> QED BY <1>1, <1>2, QuietAnswersStand

LEMMA RefuseStands ==
  ASSUME DeskInv, NEW c \in Client, calls[c].pc = "arrived", calls[c].op # "AddVideo",
         NEW error \in ErrorKind \cup {"none"}, Refuse(c, error)
  PROVE  DeskInv'
BY RefusalsStand DEF Refuse

LEMMA TellStands ==
  ASSUME DeskInv, NEW c \in Client, calls[c].pc = "arrived",
         calls[c].op \notin Deciding \cup {"ListVideos", "ListReviewLog"}, NEW message, Tell(c, message),
         Range(VideosIn(message)) \subseteq
           VideoMessage(DOMAIN rows, Topics \cup StartingTopics, {FormatSecond(t) : t \in Text})
  PROVE  DeskInv'
BY QuietAnswersStand DEF Tell, Deciding

LEMMA RowErrors ==
  ASSUME NEW id
  PROVE  /\ RowError(id) \in ErrorKind \cup {"none"} /\ IdError(id) \in ErrorKind \cup {"none"}
         /\ RowError(id) = "none" <=> PathSafe(id) /\ id \in DOMAIN rows
BY DEF RowError, IdError, ErrorKind

-----------------------------------------------------------------------------
(* Queries.                                                                *)

LEMMA ArrivedIs ==
  ASSUME NEW c, NEW op, Arrived(c, op)
  PROVE  calls[c].pc = "arrived" /\ calls[c].op = op
BY DEF Arrived

LEMMA AVideoIsTold ==
  ASSUME TablesAreTyped, NEW id \in DOMAIN rows, NEW message,
         message = [video |-> toProtoVideo(id, rows[id])]
  PROVE  Range(VideosIn(message)) \subseteq
           VideoMessage(DOMAIN rows, Topics \cup StartingTopics, {FormatSecond(t) : t \in Text})
<1>1. rows[id] \in VideoRow
  BY DEF TablesAreTyped
<1>2. VideosIn(message) = <<toProtoVideo(id, rows[id])>>
  BY DEF VideosIn
<1>3. Range(VideosIn(message)) = {toProtoVideo(id, rows[id])}
  BY <1>2 DEF Range
<1> QED BY <1>1, <1>3, MessagesOfVideos

LEMMA GetStands ==
  ASSUME DeskInv, NEW c \in Client, HandleGet(c)
  PROVE  DeskInv'
<1> DEFINE id == calls[c].req.videoId
<1>1. calls[c].pc = "arrived" /\ calls[c].op = "GetVideo"
  BY ArrivedIs DEF HandleGet
<1>2. CASE Refuse(c, RowError(id))
  BY <1>1, <1>2, RowErrors, RefuseStands
<1>3. CASE RowError(id) = "none" /\ Tell(c, GetVideoResponse(toProtoVideo(id, rows[id])))
  <2>1. id \in DOMAIN rows
    BY <1>3, RowErrors
  <2> HIDE DEF id
  <2>2. Range(VideosIn(GetVideoResponse(toProtoVideo(id, rows[id])))) \subseteq
           VideoMessage(DOMAIN rows, Topics \cup StartingTopics, {FormatSecond(t) : t \in Text})
    BY <2>1, AVideoIsTold DEF GetVideoResponse, DeskInv
  <2> QED BY <1>1, <1>3, <2>2, TellStands DEF Deciding
<1> QED BY <1>2, <1>3 DEF HandleGet

LEMMA PlanStands ==
  ASSUME DeskInv, NEW c \in Client, HandlePlan(c)
  PROVE  DeskInv'
<1> DEFINE id == calls[c].req.videoId
<1>1. calls[c].pc = "arrived" /\ calls[c].op = "PlanNext"
  BY ArrivedIs DEF HandlePlan
<1>2. CASE Refuse(c, RowError(id))
  BY <1>1, <1>2, RowErrors, RefuseStands
<1>3. CASE Tell(c, [plan |-> PlanOf(id)])
  <2>1. Range(VideosIn([plan |-> PlanOf(id)])) = {}
    BY NoVideosIn
  <2> QED BY <1>1, <1>3, <2>1, TellStands DEF Deciding
<1> QED BY <1>2, <1>3 DEF HandlePlan

LEMMA JobsAreTold ==
  ASSUME DeskInv, NEW c \in Client, calls[c].pc = "arrived", calls[c].op \in {"GetJob", "GetLatestJob"},
         NEW exists, NEW job,
         Tell(c, [exists |-> exists, job |-> job])
  PROVE  DeskInv'
<1>1. Range(VideosIn([exists |-> exists, job |-> job])) = {}
  BY NoVideosIn
<1> QED BY <1>1, TellStands DEF Deciding

LEMMA JobStands ==
  ASSUME DeskInv, NEW c \in Client, HandleJob(c)
  PROVE  DeskInv'
<1>1. calls[c].pc = "arrived" /\ calls[c].op = "GetJob"
  BY ArrivedIs DEF HandleJob
<1>2. PICK exists, job : Tell(c, [exists |-> exists, job |-> job])
  BY DEF HandleJob, GetJobResponse
<1> QED BY <1>1, <1>2, JobsAreTold

LEMMA LatestJobStands ==
  ASSUME DeskInv, NEW c \in Client, HandleLatestJob(c)
  PROVE  DeskInv'
<1>1. calls[c].pc = "arrived" /\ calls[c].op = "GetLatestJob"
  BY ArrivedIs DEF HandleLatestJob
<1>2. CASE Refuse(c, IdError(calls[c].req.videoId))
  BY <1>1, <1>2, RowErrors, RefuseStands
<1>3. CASE ~Refuse(c, IdError(calls[c].req.videoId))
  <2>1. PICK exists, job : Tell(c, [exists |-> exists, job |-> job])
    BY <1>3 DEF HandleLatestJob, GetLatestJobResponse
  <2> QED BY <1>1, <2>1, JobsAreTold
<1> QED BY <1>2, <1>3

LEMMA ListStands ==
  ASSUME DeskInv, NEW c \in Client, HandleList(c)
  PROVE  DeskInv'
<1>1. calls[c].pc = "arrived" /\ calls[c].op = "ListVideos" /\ calls[c].pc # "idle"
  BY ArrivedIs DEF HandleList
<1>2. PICK s \in Listings(calls[c].req) :
        Tell(c, ListVideosResponse([i \in DOMAIN s |-> toProtoVideo(s[i], rows[s[i]])]))
  BY DEF HandleList
<1> DEFINE told == [i \in DOMAIN s |-> toProtoVideo(s[i], rows[s[i]])]
           message == ListVideosResponse(told)
<1>3. /\ \A i \in DOMAIN s : i \in Int /\ s[i] \in DOMAIN rows
      /\ \A i, j \in DOMAIN s : ListedBefore(s[i], s[j]) => i < j
  BY DEF Listings, SetToSeqs
<1>4. VideosIn(message) = told
  BY DEF VideosIn, ListVideosResponse
<1>5. \A i \in DOMAIN s : rows[s[i]] \in VideoRow
  BY <1>3 DEF DeskInv, TablesAreTyped
<1>6. Range(VideosIn(message)) \subseteq
        VideoMessage(DOMAIN rows, Topics \cup StartingTopics, {FormatSecond(t) : t \in Text})
  <2>1. \A i \in DOMAIN s : told[i] \in
        VideoMessage(DOMAIN rows, Topics \cup StartingTopics, {FormatSecond(t) : t \in Text})
    BY <1>3, <1>5, MessagesOfVideos
  <2> QED BY <1>4, <2>1 DEF Range
<1>7. calls' = Answer(c, "none", message) /\ UNCHANGED <<rows, jobs, log, clock, made>>
  BY <1>2 DEF Tell
<1>8. ReadsByAge(told)
  <2> SUFFICES ASSUME NEW i \in DOMAIN told, NEW j \in DOMAIN told, i < j
               PROVE  /\ told[i].priority <= told[j].priority
                      /\ told[i].priority = told[j].priority => told[i].createdAt <= told[j].createdAt
    BY DEF ReadsByAge
  <2>1. ~ListedBefore(s[j], s[i])
    BY <1>3
  <2>2. /\ rows[s[i]].priority \in 1..5 /\ rows[s[j]].priority \in 1..5
        /\ rows[s[i]].createdAt \in Text /\ rows[s[j]].createdAt \in Text
    BY <1>5 DEF VideoRow, PriorityHighest, PriorityLowest
  <2>3. /\ told[i].priority = rows[s[i]].priority /\ told[j].priority = rows[s[j]].priority
        /\ told[i].createdAt = FormatSecond(rows[s[i]].createdAt)
        /\ told[j].createdAt = FormatSecond(rows[s[j]].createdAt)
    BY DEF toProtoVideo
  <2>4. told[i].priority <= told[j].priority
    BY <2>1, <2>2, <2>3 DEF ListedBefore
  <2>5. told[i].priority = told[j].priority =>
          ~TextBefore(rows[s[j]].createdAt, rows[s[i]].createdAt)
    BY <2>1, <2>3 DEF ListedBefore
  <2> QED BY <2>2, <2>3, <2>4, <2>5, TextsShowTheirSeconds
<1> HIDE DEF told, message
<1> QED BY <1>1, <1>4, <1>6, <1>7, <1>8, QuietAnswersStand DEF Deciding, ErrorKind

LEMMA LogStands ==
  ASSUME DeskInv, NEW c \in Client, HandleLog(c)
  PROVE  DeskInv'
<1>1. calls[c].pc = "arrived" /\ calls[c].op = "ListReviewLog" /\ calls[c].pc # "idle"
  BY ArrivedIs DEF HandleLog
<1> DEFINE id == calls[c].req.videoId
<1>2. CASE Refuse(c, IdError(id))
  BY <1>1, <1>2, RowErrors, RefuseStands
<1>3. ASSUME NEW s \in Histories(id),
             Tell(c, ListReviewLogResponse([n \in DOMAIN s |-> EntryMessage(s[n])]))
      PROVE  DeskInv'
  <2> DEFINE told == [n \in DOMAIN s |-> EntryMessage(s[n])]
             message == ListReviewLogResponse(told)
  <2>1. /\ \A n \in DOMAIN s : n \in Int /\ s[n] \in DOMAIN log
        /\ \A m, n \in DOMAIN s : LoggedBefore(s[m], s[n]) => m < n
    BY DEF Histories, SetToSeqs
  <2>2. Range(VideosIn(message)) = {} /\ message.entries = told
    BY NoVideosIn DEF ListReviewLogResponse
  <2>3. calls' = Answer(c, "none", message) /\ UNCHANGED <<rows, jobs, log, clock, made>>
    BY <1>3 DEF Tell
  <2>4. ReadsByTime(told)
    <3> SUFFICES ASSUME NEW i \in DOMAIN told, NEW j \in DOMAIN told, i < j
                 PROVE  told[i].at <= told[j].at
      BY DEF ReadsByTime
    <3>1. ~LoggedBefore(s[j], s[i])
      BY <2>1
    <3>2. ~TextBefore(log[s[j]].at, log[s[i]].at)
      BY <3>1 DEF LoggedBefore
    <3>3. log[s[i]].at \in Text /\ log[s[j]].at \in Text
      BY <2>1, EntriesAreRows DEF LogRow, DeskInv
    <3>4. told[i].at = FormatSecond(log[s[i]].at) /\ told[j].at = FormatSecond(log[s[j]].at)
      BY DEF EntryMessage
    <3> QED BY <3>2, <3>3, <3>4, TextsShowTheirSeconds
  <2> HIDE DEF told, message
  <2> QED BY <1>1, <2>2, <2>3, <2>4, QuietAnswersStand DEF Deciding, ErrorKind
<1> QED BY <1>2, <1>3 DEF HandleLog

-----------------------------------------------------------------------------
(* Decisions.                                                              *)

LEMMA RowsKeepTheirType ==
  ASSUME NEW row \in VideoRow, NEW v \in Video
  PROVE  [row EXCEPT !.video = v] \in VideoRow
BY DEF VideoRow

LEMMA LargerSetsLongerLists ==
  ASSUME NEW S, NEW T, S \subseteq T, NEW s \in Seq(S)
  PROVE  s \in Seq(T)
<1>1. /\ Len(s) \in Nat /\ s = [i \in 1..Len(s) |-> s[i]]
      /\ \A i \in 1..Len(s) : s[i] \in T
  BY LenProperties, ElementOfSeq
<1> QED BY <1>1

(* The one entry of a call. *)
LEMMA TheEntryOfACall ==
  ASSUME DeskInv, NEW c \in Client, calls[c].pc \in {"arrived", "checking", "creating"},
         NEW e, log' = Append(log, e), e \in LogRow', e.call = calls[c].serial,
         DOMAIN rows \subseteq DOMAIN rows', UNCHANGED made
  PROVE  /\ log' \in Seq(LogRow)' /\ EntriesDiffer'
         /\ DOMAIN log' = DOMAIN log \cup {Len(log) + 1} /\ log'[Len(log) + 1] = e
         /\ \A i \in DOMAIN log : log'[i] = log[i]
         /\ \A i \in DOMAIN log' : log'[i].call = calls[c].serial <=> i = Len(log) + 1
         /\ \A d \in Client : d # c /\ calls[d].pc # "idle" =>
              \A i \in DOMAIN log' : i \notin DOMAIN log => log'[i].call # calls[d].serial
<1>1. log \in Seq(LogRow) /\ LogRow \subseteq LogRow'
  BY DEF DeskInv, TablesAreTyped, LogRow
<1>2. log \in Seq(LogRow')
  <2> HIDE DEF LogRow
  <2> QED BY <1>1, LargerSetsLongerLists
<1>3. /\ log' \in Seq(LogRow') /\ Len(log') = Len(log) + 1 /\ Len(log) \in Nat
      /\ DOMAIN log = 1..Len(log) /\ DOMAIN log' = 1..Len(log')
      /\ \A i \in 1..Len(log) : log'[i] = log[i]
      /\ log'[Len(log) + 1] = e
  BY <1>2, AppendProperties, LenProperties
<1>4. DOMAIN log' = DOMAIN log \cup {Len(log) + 1} /\ Len(log) + 1 \notin DOMAIN log
  BY <1>3
<1>5. RecordsOf(c) = {}
  BY DEF DeskInv, CallStands
<1>6. \A i \in DOMAIN log : log[i].call # calls[c].serial
  BY <1>5 DEF RecordsOf
<1>7. \A i \in DOMAIN log' : log'[i].call = calls[c].serial <=> i = Len(log) + 1
  BY <1>3, <1>4, <1>6
<1>8. EntriesDiffer'
  <2> SUFFICES ASSUME NEW i \in DOMAIN log', NEW j \in DOMAIN log', log'[i].call = log'[j].call
               PROVE  i = j
    BY DEF EntriesDiffer
  <2>1. CASE i = Len(log) + 1 \/ j = Len(log) + 1
    BY <1>7, <2>1
  <2>2. CASE i # Len(log) + 1 /\ j # Len(log) + 1
    BY <1>3, <1>4, <2>2 DEF DeskInv, EntriesDiffer
  <2> QED BY <2>1, <2>2
<1>9. ASSUME NEW d \in Client, d # c, calls[d].pc # "idle", NEW i \in DOMAIN log', i \notin DOMAIN log
      PROVE  log'[i].call # calls[d].serial
  <2>1. calls[d].serial # calls[c].serial
    BY <1>9 DEF DeskInv, CallsDiffer
  <2> QED BY <1>3, <1>4, <1>9, <2>1
<1> QED BY <1>3, <1>4, <1>7, <1>8, <1>9

(* A decision: the row, its entry and the answer in one step, or a refusal. *)
LEMMA DecideStands ==
  ASSUME DeskInv, NEW c \in Client, calls[c].pc = "arrived",
         calls[c].op \in {"ApproveGate", "RejectGate", "RetryVideo"},
         NEW error \in ErrorKind \cup {"none"}, NEW gate, NEW action, NEW video,
         Decide(c, error, gate, action, video),
         error = "none" =>
           /\ calls[c].req.videoId \in DOMAIN rows /\ video \in Video
           /\ gate \in Gate \cup {NoGate} /\ action \in {"approve", "reject", "retry"}
           /\ calls[c].op # "RetryVideo" => gate = Meant(c, calls[c].req.gate)
  PROVE  DeskInv'
<1> DEFINE id == calls[c].req.videoId
<1>1. CASE error # "none"
  BY <1>1, RefusalsStand DEF Decide
<1>2. CASE error = "none"
  <2> DEFINE row == [rows[id] EXCEPT !.video = video]
             e == Entry(id, gate, action, video.status, c, Now)
             message == NowIs(c, video)
  <2>1. /\ rows' = [rows EXCEPT ![id].video = video] /\ log' = Append(log, e)
        /\ calls' = Answer(c, "none", message) /\ UNCHANGED <<jobs, clock, made>>
    BY <1>2 DEF Decide
  <2>2. /\ id \in DOMAIN rows /\ video \in Video /\ gate \in Gate \cup {NoGate}
        /\ action \in {"approve", "reject", "retry"}
    BY <1>2
  <2>3. TablesAreTyped /\ rows \in [DOMAIN rows -> VideoRow]
    BY DEF DeskInv, TablesAreTyped
  <2>4. row \in VideoRow
    BY <2>2, <2>3, RowsKeepTheirType
  <2>5. DOMAIN rows' = DOMAIN rows /\ rows'[id] = row /\ \A i \in DOMAIN rows : i # id => rows'[i] = rows[i]
    BY <2>1, <2>2, <2>3
  <2>6. \A i \in DOMAIN rows : rows'[i].topic = rows[i].topic /\ rows'[i].createdAt = rows[i].createdAt
    <3>1. row.topic = rows[id].topic /\ row.createdAt = rows[id].createdAt
      BY <2>2, <2>3 DEF VideoRow
    <3> HIDE DEF row
    <3> QED BY <2>5, <3>1
  <2>7. calls[c].serial \in 1..made
    BY DEF DeskInv, CallStands
  <2>8. e \in LogRow' /\ e.call = calls[c].serial /\ e.gate = gate
    <3>1. Now \in Text
      BY <2>3 DEF Now, Text, TablesAreTyped
    <3>2. video.status \in Status
      BY <2>2 DEF Video
    <3> QED BY <2>1, <2>2, <2>5, <2>7, <3>1, <3>2 DEF Entry, LogRow
  <2> HIDE DEF id, row, e
  <2>9. /\ log' \in Seq(LogRow)' /\ EntriesDiffer'
        /\ DOMAIN log' = DOMAIN log \cup {Len(log) + 1} /\ log'[Len(log) + 1] = e
        /\ \A i \in DOMAIN log : log'[i] = log[i]
        /\ \A i \in DOMAIN log' : log'[i].call = calls[c].serial <=> i = Len(log) + 1
        /\ \A d \in Client : d # c /\ calls[d].pc # "idle" =>
             \A i \in DOMAIN log' : i \notin DOMAIN log => log'[i].call # calls[d].serial
    BY <2>1, <2>5, <2>8, TheEntryOfACall
  <2>10. TablesAreTyped'
    <3>1. rows' \in [DOMAIN rows' -> VideoRow]
      BY <2>1, <2>3, <2>4, <2>5
    <3>2. jobs' \in Seq(JobRow)'
      BY <2>1, <2>3, <2>5 DEF TablesAreTyped, JobRow
    <3> QED BY <2>1, <2>3, <2>5, <2>9, <3>1, <3>2 DEF TablesAreTyped
  <2>11. \A d \in Client : d # c /\ calls[d].pc # "idle" => RecordGrows(calls[d].serial)
    BY <2>1, <2>3, <2>5, <2>6, <2>9 DEF RecordGrows, TablesAreTyped
  <2>12. RecordsOf(c)' = {Len(log) + 1}
    <3>1. calls'[c].serial = calls[c].serial
      <4>1. calls[c].pc # "idle"
        OBVIOUS
      <4> QED BY <2>1, <4>1, AnswersReply
    <3> QED BY <2>9, <3>1 DEF RecordsOf
  <2>13. Range(VideosIn(message)) \subseteq
           VideoMessage(DOMAIN rows', Topics \cup StartingTopics, {FormatSecond(t) : t \in Text})
    <3>1. message = [video |-> toProtoVideo(id, row)]
      BY DEF NowIs, DecisionResponse, ApproveGateResponse, RejectGateResponse, RetryVideoResponse, id, row
    <3>2. VideosIn(message) = <<toProtoVideo(id, row)>>
      BY <3>1 DEF VideosIn
    <3>3. Range(VideosIn(message)) = {toProtoVideo(id, row)}
      BY <3>2 DEF Range
    <3> QED BY <2>2, <2>4, <2>5, <3>3, MessagesOfVideos
  <2>14. calls[c].op \in {"ApproveGate", "RejectGate"} =>
           \A i \in RecordsOf(c)' : log'[i].gate = Meant(c, calls[c].req.gate)
    BY <1>2, <2>8, <2>9, <2>12
  <2> HIDE DEF message
  <2> QED BY <2>1, <2>9, <2>10, <2>11, <2>12, <2>13, <2>14, AnswersStand
<1> QED BY <1>1, <1>2

LEMMA ApproveStands ==
  ASSUME DeskInv, NEW c \in Client, HandleApprove(c)
  PROVE  DeskInv'
<1> DEFINE id == calls[c].req.videoId
           gate == DecodeGate(c, calls[c].req.gate)
<1>1. calls[c].pc = "arrived" /\ calls[c].op = "ApproveGate"
  BY ArrivedIs DEF HandleApprove
<1>2. PICK ready : Decide(c, ApproveError(c, ready), gate, "approve", ApproveGate(rows[id].video, gate))
  BY DEF HandleApprove
<1>3. ApproveError(c, ready) \in ErrorKind \cup {"none"}
  BY RowErrors DEF ApproveError, ErrorKind
<1>4. ASSUME ApproveError(c, ready) = "none"
      PROVE  /\ id \in DOMAIN rows /\ gate \in Gate /\ ApproveGate(rows[id].video, gate) \in Video
  <2>1. RowError(id) = "none" /\ CanApproveGate(rows[id].video, gate)
    BY <1>4 DEF ApproveError
  <2>2. id \in DOMAIN rows /\ gate \in Gate
    BY <2>1, RowErrors DEF CanApproveGate, AwaitsGate
  <2>3. rows[id].video \in Video
    BY <2>2 DEF DeskInv, TablesAreTyped, VideoRow
  <2> QED BY <2>2, <2>3, ChangesGiveVideos
<1>5. gate \in Gate => gate = Meant(c, calls[c].req.gate)
  BY LabelsTellTheGate
<1> HIDE DEF id, gate
<1> QED BY <1>1, <1>2, <1>3, <1>4, <1>5, DecideStands DEF id

LEMMA RejectStands ==
  ASSUME DeskInv, NEW c \in Client, HandleReject(c)
  PROVE  DeskInv'
<1> DEFINE id == calls[c].req.videoId
           gate == DecodeGate(c, calls[c].req.gate)
           backTo == DecodeStatus(c, calls[c].req.backTo)
<1>1. calls[c].pc = "arrived" /\ calls[c].op = "RejectGate"
  BY ArrivedIs DEF HandleReject
<1>2. Decide(c, RejectError(c), gate, "reject", RejectGate(rows[id].video, gate, backTo))
  BY DEF HandleReject
<1>3. RejectError(c) \in ErrorKind \cup {"none"}
  BY RowErrors DEF RejectError, ErrorKind
<1>4. ASSUME RejectError(c) = "none"
      PROVE  /\ id \in DOMAIN rows /\ gate \in Gate /\ RejectGate(rows[id].video, gate, backTo) \in Video
  <2>1. RowError(id) = "none" /\ CanRejectGate(rows[id].video, gate, backTo)
    BY <1>4 DEF RejectError
  <2>2. id \in DOMAIN rows /\ gate \in Gate
    BY <2>1, RowErrors DEF CanRejectGate, AwaitsGate
  <2>3. rows[id].video \in Video
    BY <2>2 DEF DeskInv, TablesAreTyped, VideoRow
  <2> QED BY <2>1, <2>2, <2>3, ChangesGiveVideos
<1>5. gate \in Gate => gate = Meant(c, calls[c].req.gate)
  BY LabelsTellTheGate
<1> HIDE DEF id, gate, backTo
<1> QED BY <1>1, <1>2, <1>3, <1>4, <1>5, DecideStands DEF id

LEMMA RetryStands ==
  ASSUME DeskInv, NEW c \in Client, HandleRetry(c)
  PROVE  DeskInv'
<1> DEFINE id == calls[c].req.videoId
<1>1. calls[c].pc = "arrived" /\ calls[c].op = "RetryVideo"
  BY ArrivedIs DEF HandleRetry
<1>2. Decide(c, RetryError(c), NoGate, "retry", Retry(rows[id].video))
  BY DEF HandleRetry
<1>3. RetryError(c) \in ErrorKind \cup {"none"}
  BY RowErrors DEF RetryError, ErrorKind
<1>4. ASSUME RetryError(c) = "none"
      PROVE  id \in DOMAIN rows /\ Retry(rows[id].video) \in Video
  <2>1. id \in DOMAIN rows
    BY <1>4, RowErrors DEF RetryError
  <2>2. rows[id].video \in Video
    BY <2>1 DEF DeskInv, TablesAreTyped, VideoRow
  <2> QED BY <2>1, <2>2, ChangesGiveVideos
<1> HIDE DEF id
<1> QED BY <1>1, <1>2, <1>3, <1>4, DecideStands DEF id

-----------------------------------------------------------------------------
(* Adds.                                                                   *)

WithBase(r, base) == [r EXCEPT !.pc = "checking", !.base = base]
WithDate(r, at) == [r EXCEPT !.pc = "creating", !.at = at]
WithOneMore(r) == [r EXCEPT !.attempt = @ + 1]

LEMMA BaseIsSet ==
  ASSUME NEW r, IsCall(r), NEW base, NEW k, k = WithBase(r, base)
  PROVE  /\ k.pc = "checking" /\ k.base = base
         /\ k.serial = r.serial /\ k.op = r.op /\ k.req = r.req /\ k.attempt = r.attempt
         /\ IsCall(k)
<1>1. r = [ pc |-> r.pc, serial |-> r.serial, op |-> r.op, req |-> r.req,
            base |-> r.base, attempt |-> r.attempt, at |-> r.at, answer |-> r.answer ]
  BY DEF IsCall
<1> QED BY <1>1 DEF IsCall, WithBase

LEMMA DateIsSet ==
  ASSUME NEW r, IsCall(r), NEW at, NEW k, k = WithDate(r, at)
  PROVE  /\ k.pc = "creating" /\ k.at = at
         /\ k.serial = r.serial /\ k.op = r.op /\ k.req = r.req
         /\ k.base = r.base /\ k.attempt = r.attempt
         /\ IsCall(k)
<1>1. r = [ pc |-> r.pc, serial |-> r.serial, op |-> r.op, req |-> r.req,
            base |-> r.base, attempt |-> r.attempt, at |-> r.at, answer |-> r.answer ]
  BY DEF IsCall
<1> QED BY <1>1 DEF IsCall, WithDate

LEMMA AttemptIsCounted ==
  ASSUME NEW r, IsCall(r), NEW k, k = WithOneMore(r)
  PROVE  /\ k.attempt = r.attempt + 1
         /\ k.pc = r.pc /\ k.serial = r.serial /\ k.op = r.op /\ k.req = r.req
         /\ k.base = r.base
         /\ IsCall(k)
<1>1. r = [ pc |-> r.pc, serial |-> r.serial, op |-> r.op, req |-> r.req,
            base |-> r.base, attempt |-> r.attempt, at |-> r.at, answer |-> r.answer ]
  BY DEF IsCall
<1> QED BY <1>1 DEF IsCall, WithOneMore

LEMMA AddsMove ==
  ASSUME DeskInv, NEW c \in Client, calls[c].pc \in {"arrived", "checking", "creating"},
         calls[c].op = "AddVideo", UNCHANGED <<rows, jobs, log, clock, made>>,
         NEW k, calls' = [calls EXCEPT ![c] = k],
         k.pc \in {"checking", "creating"},
         k.serial = calls[c].serial, k.op = calls[c].op, k.req = calls[c].req, IsCall(k),
         AddIsOnItsWay(c)'
  PROVE  DeskInv'
<1>1. calls'[c] = k
  BY DEF DeskInv
<1>2. TablesAreTyped' /\ EntriesDiffer'
  BY TablesStay DEF DeskInv, EntriesDiffer
<1>3. \A d \in Client : d # c /\ calls[d].pc # "idle" => RecordGrows(calls[d].serial)
  BY NothingChanges DEF DeskInv
<1>4. CallStands(c)
  BY DEF DeskInv
<1>5. RecordsOf(c)' = {}
  BY <1>1, <1>4 DEF CallStands, RecordsOf
<1>6. CallStands(c)'
  BY <1>1, <1>4, <1>5 DEF CallStands
<1> QED BY <1>2, <1>3, <1>6, ClientSteps

LEMMA BeginStands ==
  ASSUME DeskInv, NEW c \in Client, BeginAdd(c)
  PROVE  DeskInv'
<1>1. calls[c].pc = "arrived" /\ calls[c].op = "AddVideo"
  BY ArrivedIs DEF BeginAdd
<1>2. UNCHANGED <<rows, jobs, log, clock, made>>
  BY DEF BeginAdd
<1>3. CASE AddRefused(calls[c].req)
  <2>1. calls' = Answer(c, "validation", NoMessage)
    BY <1>3 DEF BeginAdd
  <2>2. calls'[c].answer = AnswerOf(c, "validation", NoMessage) /\ calls'[c].req = calls[c].req
    BY <1>1, <2>1, AnswersReply
  <2>3. AddIsTrue(c)'
    BY <1>3, <2>2 DEF AddIsTrue, AnswerOf
  <2> QED BY <1>1, <1>2, <2>1, <2>3, RefusalsStand DEF ErrorKind
<1>4. CASE ~AddRefused(calls[c].req)
  <2> DEFINE base == slugOf[calls[c].req.topic]
             k == WithBase(calls[c], base)
  <2>1. IsCall(calls[c]) /\ calls[c].attempt = 1
    BY <1>1 DEF DeskInv, CallStands
  <2>2. calls' = [calls EXCEPT ![c] = k]
    BY <1>4 DEF BeginAdd, WithBase
  <2>3. calls'[c] = k
    BY <2>2 DEF DeskInv
  <2>4. /\ k.pc = "checking" /\ k.serial = calls[c].serial /\ k.op = "AddVideo"
        /\ k.req = calls[c].req /\ k.base = base /\ k.attempt = 1 /\ IsCall(k)
    BY <1>1, <2>1, BaseIsSet
  <2>5. AddIsOnItsWay(c)'
    <3>1. 1 \in 1..MaxAttempts
      BY IdBounds
    <3> HIDE DEF k
    <3> QED BY <1>4, <2>3, <2>4, <3>1 DEF AddIsOnItsWay
  <2> HIDE DEF k
  <2> QED BY <1>1, <1>2, <2>2, <2>4, <2>5, AddsMove
<1> QED BY <1>3, <1>4

LEMMA CheckStands ==
  ASSUME DeskInv, NEW c \in Client, Check(c)
  PROVE  DeskInv'
<1> DEFINE r == calls[c]
<1>1. r.pc = "checking" /\ r.pc # "idle" /\ UNCHANGED <<rows, jobs, log, clock, made>>
  BY DEF Check
<1>2. CallStands(c) /\ IsCall(r) /\ AddIsOnItsWay(c)
  BY <1>1 DEF DeskInv, CallStands
<1>3. /\ r.op = "AddVideo" /\ ~AddRefused(r.req) /\ r.base = slugOf[r.req.topic]
      /\ r.attempt \in 1..MaxAttempts /\ r.req.topic \in Topics
      /\ \A n \in 1..r.attempt - 1 : Candidate(r.base, n) \in DOMAIN rows
  BY <1>1, <1>2 DEF CallStands, AddIsOnItsWay
<1>4. MaxAttempts \in 1..20 /\ calls[c].pc # "idle"
  BY <1>1, IdBounds
<1> HIDE DEF r
<1>5. CASE Proposed(c) \notin DOMAIN rows /\ PathSafe(Proposed(c))
  <2> DEFINE k == WithDate(r, Now)
  <2>1. calls' = [calls EXCEPT ![c] = k]
    BY <1>5 DEF Check, r, WithDate
  <2>2. calls'[c] = k
    BY <2>1 DEF DeskInv
  <2>3. /\ k.pc = "creating" /\ k.serial = r.serial /\ k.op = r.op /\ k.req = r.req
        /\ k.base = r.base /\ k.attempt = r.attempt /\ k.at = Now /\ IsCall(k)
    BY <1>2, DateIsSet
  <2> HIDE DEF k
  <2>4. Proposed(c)' = Proposed(c)
    BY <2>2, <2>3 DEF Proposed, r
  <2>5. Now \in Text
    BY DEF DeskInv, TablesAreTyped, Now, Text
  <2>6. AddIsOnItsWay(c)'
    BY <1>1, <1>3, <1>5, <2>2, <2>3, <2>4, <2>5 DEF AddIsOnItsWay
  <2> QED BY <1>1, <1>3, <2>1, <2>3, <2>6, AddsMove DEF r
<1>6. CASE Proposed(c) \notin DOMAIN rows /\ ~PathSafe(Proposed(c))
  <2> DEFINE error == "invalid id"
  <2>0. error \in ErrorKind
    BY DEF ErrorKind
  <2>1. calls' = Answer(c, error, NoMessage)
    BY <1>6 DEF Check
  <2> HIDE DEF error
  <2>2. calls'[c].answer = AnswerOf(c, error, NoMessage) /\ calls'[c].base = calls[c].base
    BY <1>4, <2>1, AnswersReply
  <2>3. ~PathSafe(r.base)
    <3>1. r.base \in Seq(Byte)
      BY <1>3, SlugsAreBytes, TopicsAssumption DEF slugOf
    <3> QED BY <1>3, <1>6, <3>1, CandidatesAreSafe DEF Proposed, r
  <2>4. AddIsTrue(c)'
    <3>1. calls'[c].answer.error = error /\ ~PathSafe(calls'[c].base)
      BY <2>2, <2>3 DEF AnswerOf, r
    <3> QED BY <3>1 DEF AddIsTrue, error
  <2> QED BY <1>1, <2>0, <2>1, <2>4, RefusalsStand DEF r
<1>7. CASE Proposed(c) \in DOMAIN rows /\ r.attempt < MaxAttempts
  <2> DEFINE k == WithOneMore(r)
  <2>1. calls' = [calls EXCEPT ![c] = k]
    <3>1. calls' = [calls EXCEPT ![c].attempt = @ + 1]
      BY <1>7 DEF Check, r
    <3>2. calls' = [calls EXCEPT ![c] = [r EXCEPT !.attempt = @ + 1]]
      BY <3>1 DEF r, DeskInv
    <3> QED BY <3>2 DEF WithOneMore
  <2>2. calls'[c] = k
    BY <2>1 DEF DeskInv
  <2>3. /\ k.pc = "checking" /\ k.serial = r.serial /\ k.op = r.op /\ k.req = r.req
        /\ k.base = r.base /\ k.attempt = r.attempt + 1 /\ IsCall(k)
    BY <1>1, <1>2, AttemptIsCounted
  <2> HIDE DEF k
  <2>4. r.attempt + 1 \in 1..MaxAttempts
    BY <1>3, <1>4, <1>7
  <2>5. \A n \in 1..(r.attempt + 1) - 1 : Candidate(r.base, n) \in DOMAIN rows
    <3> TAKE n \in 1..(r.attempt + 1) - 1
    <3>1. n = r.attempt \/ n \in 1..r.attempt - 1
      BY <1>3, <1>4
    <3> QED BY <1>3, <1>7, <3>1 DEF Proposed, r
  <2>6. AddIsOnItsWay(c)'
    BY <1>1, <1>3, <2>2, <2>3, <2>4, <2>5 DEF AddIsOnItsWay
  <2> QED BY <1>1, <1>3, <2>1, <2>3, <2>6, AddsMove DEF r
<1>8. CASE Proposed(c) \in DOMAIN rows /\ ~(r.attempt < MaxAttempts)
  <2>1. calls' = Answer(c, "validation", NoMessage)
    BY <1>8 DEF Check, r
  <2>2. /\ calls'[c].answer = AnswerOf(c, "validation", NoMessage)
        /\ calls'[c].base = calls[c].base /\ calls'[c].req = calls[c].req
    BY <1>4, <2>1, AnswersReply
  <2>3. \A n \in 1..MaxAttempts : Candidate(r.base, n) \in DOMAIN rows
    <3> TAKE n \in 1..MaxAttempts
    <3>1. n = r.attempt \/ n \in 1..r.attempt - 1
      BY <1>3, <1>4, <1>8
    <3> QED BY <1>3, <1>8, <3>1 DEF Proposed, r
  <2>4. AddIsTrue(c)'
    <3>1. /\ calls'[c].answer.error = "validation"
          /\ \A n \in 1..MaxAttempts : Candidate(calls'[c].base, n) \in DOMAIN rows'
      BY <1>1, <2>2, <2>3 DEF AnswerOf, r
    <3> QED BY <3>1 DEF AddIsTrue
  <2> QED BY <1>1, <2>1, <2>4, RefusalsStand DEF ErrorKind, r
<1> QED BY <1>5, <1>6, <1>7, <1>8

(* AddRefused has seen to the priority before. *)
LEMMA NewRowsAreTyped ==
  ASSUME DeskInv, NEW c \in Client, calls[c].pc = "creating"
  PROVE  Row(calls[c].req, calls[c].at) \in VideoRow
<1>1. CallStands(c) /\ calls[c].op = "AddVideo" /\ ~AddRefused(calls[c].req) /\ calls[c].at \in Text
  BY DEF DeskInv, CallStands, AddIsOnItsWay
<1>2. calls[c].req.topic \in Topics
  BY <1>1 DEF CallStands
<1>3. (IF calls[c].req.priority = 0 THEN PriorityDefault ELSE calls[c].req.priority)
        \in PriorityHighest .. PriorityLowest
  BY <1>1 DEF AddRefused, ValidPriority, PriorityDefault, PriorityHighest, PriorityLowest
<1>4. NewVideo \in Video
  BY ChangesGiveVideos
<1> QED BY <1>1, <1>2, <1>3, <1>4 DEF Row, VideoRow

LEMMA CreateStands ==
  ASSUME DeskInv, NEW c \in Client, Create(c)
  PROVE  DeskInv'
<1> DEFINE id == Proposed(c)
           row == Row(calls[c].req, calls[c].at)
<1>1. calls[c].pc = "creating" /\ calls[c].pc # "idle" /\ UNCHANGED <<jobs, clock, made>>
  BY DEF Create
<1>2. CallStands(c) /\ AddIsOnItsWay(c) /\ calls[c].op = "AddVideo" /\ PathSafe(id) /\ calls[c].at \in Text
  BY <1>1 DEF DeskInv, CallStands, AddIsOnItsWay
<1>3. CASE id \in DOMAIN rows
  <2> DEFINE error == "already exists"
  <2>0. error \in ErrorKind
    BY DEF ErrorKind
  <2>1. calls' = Answer(c, error, NoMessage) /\ UNCHANGED <<rows, log>>
    BY <1>3 DEF Create
  <2> HIDE DEF error
  <2>2. /\ calls'[c].answer = AnswerOf(c, error, NoMessage)
        /\ calls'[c].serial = calls[c].serial
        /\ calls'[c].base = calls[c].base /\ calls'[c].attempt = calls[c].attempt
    BY <1>1, <2>1, AnswersReply
  <2>3. PICK i \in DOMAIN log : log[i].video = id
    BY <1>1, <1>2, <1>3 DEF AddIsOnItsWay
  <2>4. log[i].call # calls[c].serial
    BY <1>1, <1>2 DEF CallStands, RecordsOf
  <2>5. AddIsTrue(c)'
    <3>1. Proposed(c)' = id
      BY <2>2 DEF Proposed
    <3>2. calls'[c].answer.error = error
      BY <2>2 DEF AnswerOf
    <3>3. i \in DOMAIN log' /\ log'[i].video = Proposed(c)' /\ log'[i].call # calls'[c].serial
      BY <2>1, <2>2, <2>3, <2>4, <3>1
    <3> QED BY <3>2, <3>3 DEF AddIsTrue, error
  <2> QED BY <1>1, <1>2, <2>0, <2>1, <2>5, RefusalsStand
<1>4. CASE id \notin DOMAIN rows
  <2> DEFINE e == Entry(id, NoGate, "create", "queued", c, calls[c].at)
             message == AddVideoResponse(toProtoVideo(id, row))
  <2>1. /\ rows' = [i \in DOMAIN rows \cup {id} |-> IF i = id THEN row ELSE rows[i]]
        /\ log' = Append(log, e) /\ calls' = Answer(c, "none", message)
    BY <1>4 DEF Create
  <2>2. row \in VideoRow /\ row.topic = calls[c].req.topic /\ row.createdAt = calls[c].at
    BY <1>1, NewRowsAreTyped DEF Row
  <2>3. TablesAreTyped
    BY DEF DeskInv
  <2> HIDE DEF id, row
  <2>4. /\ DOMAIN rows' = DOMAIN rows \cup {id} /\ rows'[id] = row
        /\ \A i \in DOMAIN rows : rows'[i] = rows[i]
    BY <1>4, <2>1
  <2>5. e \in LogRow' /\ e.call = calls[c].serial /\ e.video = id /\ e.action = "create" /\ e.at = calls[c].at
    <3>1. calls[c].serial \in 1..made /\ "queued" \in Status
      BY <1>2, TablesNameStatuses DEF CallStands, Status
    <3> QED BY <1>1, <1>2, <2>4, <3>1 DEF Entry, LogRow
  <2> HIDE DEF e
  <2>6. /\ log' \in Seq(LogRow)' /\ EntriesDiffer'
        /\ DOMAIN log' = DOMAIN log \cup {Len(log) + 1} /\ log'[Len(log) + 1] = e
        /\ \A i \in DOMAIN log : log'[i] = log[i]
        /\ \A i \in DOMAIN log' : log'[i].call = calls[c].serial <=> i = Len(log) + 1
        /\ \A d \in Client : d # c /\ calls[d].pc # "idle" =>
             \A i \in DOMAIN log' : i \notin DOMAIN log => log'[i].call # calls[d].serial
    BY <1>1, <2>1, <2>4, <2>5, TheEntryOfACall
  <2>7. TablesAreTyped'
    <3>1. rows' \in [DOMAIN rows' -> VideoRow]
      BY <2>1, <2>2, <2>3 DEF TablesAreTyped
    <3>2. jobs' \in Seq(JobRow')
      <4>1. jobs \in Seq(JobRow) /\ JobRow \subseteq JobRow'
        BY <2>3, <2>4 DEF TablesAreTyped, JobRow
      <4> HIDE DEF JobRow
      <4> QED BY <1>1, <4>1, LargerSetsLongerLists
    <3>3. \A i \in DOMAIN rows' : PathSafe(i)
      BY <1>2, <2>3, <2>4 DEF TablesAreTyped, id
    <3> QED BY <1>1, <2>3, <2>6, <3>1, <3>2, <3>3 DEF TablesAreTyped
  <2>8. \A d \in Client : d # c /\ calls[d].pc # "idle" => RecordGrows(calls[d].serial)
    BY <1>1, <2>3, <2>4, <2>5, <2>6 DEF RecordGrows, TablesAreTyped
  <2>9. /\ calls'[c].answer = AnswerOf(c, "none", message) /\ calls'[c].serial = calls[c].serial
        /\ calls'[c].req = calls[c].req
        /\ calls'[c].base = calls[c].base /\ calls'[c].attempt = calls[c].attempt
    BY <1>1, <2>1, AnswersReply
  <2>10. RecordsOf(c)' = {Len(log) + 1}
    BY <2>6, <2>9 DEF RecordsOf
  <2>11. AddIsTrue(c)'
    <3>1. /\ log'[Len(log) + 1].video = id /\ log'[Len(log) + 1].action = "create"
          /\ rows'[id].topic = calls'[c].req.topic /\ rows'[id].createdAt = log'[Len(log) + 1].at
      BY <2>2, <2>4, <2>5, <2>6, <2>9
    <3>2. Proposed(c)' = id
      BY <2>9 DEF Proposed, id
    <3>3. calls'[c].answer.error = "none"
      BY <2>9 DEF AnswerOf
    <3>4. Len(log) + 1 \in RecordsOf(c)'
      BY <2>10
    <3> QED BY <3>1, <3>2, <3>3, <3>4 DEF AddIsTrue
  <2>12. Range(VideosIn(message)) \subseteq
           VideoMessage(DOMAIN rows', Topics \cup StartingTopics, {FormatSecond(t) : t \in Text})
    <3>1. VideosIn(message) = <<toProtoVideo(id, row)>>
      BY DEF VideosIn, AddVideoResponse
    <3>2. Range(VideosIn(message)) = {toProtoVideo(id, row)}
      BY <3>1 DEF Range
    <3> QED BY <2>2, <2>4, <3>2, MessagesOfVideos
  <2> HIDE DEF message
  <2> QED BY <1>1, <1>2, <2>1, <2>6, <2>7, <2>8, <2>10, <2>11, <2>12, AnswersStand
<1> QED BY <1>3, <1>4

-----------------------------------------------------------------------------
(* Steps.                                                                  *)

LEMMA TransitionsGiveVideos ==
  ASSUME NEW v \in Video, NEW to \in PipelineStatus
  PROVE  Transition(v, to) \in Video /\ Fail(v) \in Video
BY ChangesGiveVideos DEF Status

(* A step moves a row: whom it belongs to and when it was made stay. *)
LEMMA RowsMove ==
  ASSUME TablesAreTyped, NEW id \in DOMAIN rows, NEW row \in VideoRow,
         row.topic = rows[id].topic, row.createdAt = rows[id].createdAt,
         rows' = [rows EXCEPT ![id] = row], UNCHANGED <<log, made>>, NEW serial
  PROVE  /\ DOMAIN rows' = DOMAIN rows /\ rows' \in [DOMAIN rows' -> VideoRow]
         /\ JobRow' = JobRow /\ LogRow' = LogRow
         /\ RecordGrows(serial)
<1>1. /\ DOMAIN rows' = DOMAIN rows /\ rows'[id] = row
      /\ \A i \in DOMAIN rows : i # id => rows'[i] = rows[i]
  OBVIOUS
<1>2. rows' \in [DOMAIN rows' -> VideoRow]
  BY <1>1 DEF TablesAreTyped
<1>3. JobRow' = JobRow /\ LogRow' = LogRow
  BY <1>1 DEF JobRow, LogRow
<1>4. RecordGrows(serial)
  BY <1>1 DEF RecordGrows, TablesAreTyped
<1> QED BY <1>1, <1>2, <1>3, <1>4

LEMMA RunStands ==
  ASSUME DeskInv, NEW c \in Client, HandleRun(c)
  PROVE  DeskInv'
<1> DEFINE id == calls[c].req.videoId
<1>1. calls[c].pc = "arrived" /\ calls[c].op = "RunStep"
  BY ArrivedIs DEF HandleRun
<1>2. CASE Refuse(c, RowError(id))
  BY <1>1, <1>2, RowErrors, RefuseStands
<1>3. ASSUME NEW job, Tell(c, RunStepResponse(FALSE, job))
      PROVE  DeskInv'
  <2>1. Range(VideosIn(RunStepResponse(FALSE, job))) = {}
    BY NoVideosIn DEF RunStepResponse
  <2> QED BY <1>1, <1>3, <2>1, TellStands DEF Deciding
<1>4. ASSUME RowError(id) = "none", NEW s \in Steps,
             NEW job, job = [video |-> id, state |-> "running", startedAt |-> Now, step |-> s],
             rows' = [rows EXCEPT ![id].video = Transition(@, s.running)],
             jobs' = Append(jobs, job),
             calls' = Answer(c, "none", RunStepResponse(TRUE, toProtoJob(Len(jobs) + 1, job))),
             UNCHANGED <<log, shown, clock, made>>
      PROVE  DeskInv'
  <2> DEFINE message == RunStepResponse(TRUE, toProtoJob(Len(jobs) + 1, job))
             row == [rows[id] EXCEPT !.video = Transition(rows[id].video, s.running)]
  <2>1. id \in DOMAIN rows
    BY <1>4, RowErrors
  <2>2. TablesAreTyped /\ rows[id] \in VideoRow
    BY <2>1 DEF DeskInv, TablesAreTyped
  <2>3. Transition(rows[id].video, s.running) \in Video
    <3>1. rows[id].video \in Video /\ s.running \in PipelineStatus
      BY <2>2, StepsAssumption DEF VideoRow
    <3> QED BY <3>1, TransitionsGiveVideos
  <2>4. row \in VideoRow /\ row.topic = rows[id].topic /\ row.createdAt = rows[id].createdAt
    <3>1. row.topic = rows[id].topic /\ row.createdAt = rows[id].createdAt
      BY <2>2 DEF VideoRow
    <3> QED BY <2>2, <2>3, <3>1, RowsKeepTheirType
  <2>5. rows' = [rows EXCEPT ![id] = row]
    BY <1>4, <2>1
  <2> HIDE DEF row
  <2>6. \A serial : /\ DOMAIN rows' = DOMAIN rows /\ rows' \in [DOMAIN rows' -> VideoRow]
                    /\ JobRow' = JobRow /\ LogRow' = LogRow
                    /\ RecordGrows(serial)
    BY <1>4, <2>1, <2>2, <2>4, <2>5, RowsMove
  <2>7. jobs' \in Seq(JobRow')
    <3>1. job \in JobRow
      BY <1>4, <2>1, <2>2 DEF JobRow, Now, Text, TablesAreTyped
    <3>2. jobs \in Seq(JobRow)
      BY <2>2 DEF TablesAreTyped
    <3>3. Append(jobs, job) \in Seq(JobRow)
      BY <3>1, <3>2, AppendProperties
    <3> HIDE DEF JobRow
    <3> QED BY <1>4, <2>6, <3>3
  <2>8. TablesAreTyped' /\ EntriesDiffer'
    <3>1. log' \in Seq(LogRow')
      BY <1>4, <2>2, <2>6 DEF TablesAreTyped
    <3>2. EntriesDiffer'
      BY <1>4 DEF DeskInv, EntriesDiffer
    <3> QED BY <1>4, <2>2, <2>6, <2>7, <3>1, <3>2 DEF TablesAreTyped
  <2>9. Range(VideosIn(message)) = {}
    BY NoVideosIn DEF RunStepResponse
  <2>10. calls' = Answer(c, "none", message)
    BY <1>4
  <2> HIDE DEF message
  <2> QED BY <1>1, <1>4, <2>6, <2>8, <2>9, <2>10, AnswersStand DEF Deciding
<1> HIDE DEF id
<1>5. \/ Refuse(c, RowError(id))
      \/ \E job : Tell(c, RunStepResponse(FALSE, job))
      \/ RowError(id) = "none" /\ \E s \in Steps : \E job :
           /\ job = [video |-> id, state |-> "running", startedAt |-> Now, step |-> s]
           /\ rows' = [rows EXCEPT ![id].video = Transition(@, s.running)]
           /\ jobs' = Append(jobs, job)
           /\ calls' = Answer(c, "none", RunStepResponse(TRUE, toProtoJob(Len(jobs) + 1, job)))
           /\ UNCHANGED <<log, shown, clock, made>>
  BY DEF HandleRun, id
<1> QED BY <1>2, <1>3, <1>4, <1>5

LEMMA HandlersStand ==
  ASSUME DeskInv, NEW c \in Client, Handle(c)
  PROVE  DeskInv'
BY BeginStands, CheckStands, CreateStands, ApproveStands, RejectStands, RetryStands,
   ListStands, GetStands, LogStands, PlanStands, RunStands, JobStands, LatestJobStands DEF Handle

(* What is no client's step leaves every call as it stands. *)
LEMMA NobodysStep ==
  ASSUME DeskInv, UNCHANGED calls, TablesAreTyped', EntriesDiffer',
         \A d \in Client : calls[d].pc # "idle" => RecordGrows(calls[d].serial)
  PROVE  DeskInv'
<1>1. TablesAreTyped
  BY DEF DeskInv
<1>2. ASSUME NEW d \in Client, calls'[d].pc # "idle" PROVE CallStands(d)'
  <2>1. calls'[d] = calls[d] /\ CallStands(d) /\ RecordGrows(calls[d].serial)
    BY <1>2 DEF DeskInv
  <2> QED BY <1>1, <2>1, OthersLeaveCalls
<1>3. CallsDiffer' /\ calls' = [d \in Client |-> calls'[d]]
  BY DEF DeskInv, CallsDiffer
<1> QED BY <1>2, <1>3 DEF DeskInv

LEMMA EndedRowsAreTyped ==
  ASSUME NEW row \in VideoRow, NEW to \in PipelineStatus, NEW new, new = Ended(row, to)
  PROVE  new \in VideoRow /\ new.topic = row.topic /\ new.createdAt = row.createdAt
<1>1. Transition(row.video, to) \in Video
  BY TransitionsGiveVideos DEF VideoRow
<1> QED BY <1>1 DEF VideoRow, Ended

LEMMA EndsStand ==
  ASSUME DeskInv, NEW j \in DOMAIN jobs, StepEnds(j)
  PROVE  DeskInv'
<1> DEFINE id == jobs[j].video
<1>1. TablesAreTyped /\ jobs \in Seq(JobRow) /\ UNCHANGED <<log, calls, clock, made>>
  BY DEF DeskInv, TablesAreTyped, StepEnds
<1>2. jobs[j] \in JobRow
  BY <1>1, LenProperties, ElementOfSeq
<1>3. id \in DOMAIN rows /\ jobs[j].step \in Steps
  BY <1>2 DEF JobRow
<1>4. rows[id] \in VideoRow /\ rows[id].video \in Video /\ jobs[j].step.to \in PipelineStatus
  BY <1>1, <1>3, StepsAssumption DEF TablesAreTyped, VideoRow
<1>5. ASSUME NEW row, rows' = [rows EXCEPT ![id] = row], row \in VideoRow,
             row.topic = rows[id].topic, row.createdAt = rows[id].createdAt,
             NEW state \in {"succeeded", "failed"}, jobs' = [jobs EXCEPT ![j].state = state]
      PROVE  DeskInv'
  <2>1. \A serial : /\ DOMAIN rows' = DOMAIN rows /\ rows' \in [DOMAIN rows' -> VideoRow]
                    /\ JobRow' = JobRow /\ LogRow' = LogRow
                    /\ RecordGrows(serial)
    BY <1>1, <1>3, <1>5, RowsMove
  <2>2. jobs' \in Seq(JobRow')
    <3>1. [jobs[j] EXCEPT !.state = state] \in JobRow
      BY <1>2, <1>5 DEF JobRow
    <3>2. jobs' = [jobs EXCEPT ![j] = [jobs[j] EXCEPT !.state = state]]
      BY <1>5
    <3> HIDE DEF JobRow
    <3>3. j \in 1..Len(jobs)
      BY <1>1, LenProperties
    <3>4. jobs' \in Seq(JobRow)
      BY <1>1, <3>1, <3>2, <3>3, ExceptSeq
    <3> QED BY <2>1, <3>4
  <2>3. TablesAreTyped' /\ EntriesDiffer'
    <3>1. log' \in Seq(LogRow')
      BY <1>1, <2>1 DEF TablesAreTyped
    <3>2. EntriesDiffer'
      BY <1>1 DEF DeskInv, EntriesDiffer
    <3> QED BY <1>1, <2>1, <2>2, <3>1, <3>2 DEF TablesAreTyped
  <2> QED BY <1>1, <2>1, <2>3, NobodysStep
<1>6. CASE /\ rows' = [rows EXCEPT ![id] = Ended(@, jobs[j].step.to)]
           /\ jobs' = [jobs EXCEPT ![j].state = "succeeded"]
  <2> DEFINE row == Ended(rows[id], jobs[j].step.to)
  <2>1. rows' = [rows EXCEPT ![id] = row]
    BY <1>3, <1>6
  <2>2. row \in VideoRow /\ row.topic = rows[id].topic /\ row.createdAt = rows[id].createdAt
    BY <1>4, EndedRowsAreTyped
  <2> HIDE DEF row, id
  <2> QED BY <1>5, <1>6, <2>1, <2>2
<1>7. CASE rows' = [rows EXCEPT ![id].video = Fail(@)] /\ jobs' = [jobs EXCEPT ![j].state = "failed"]
  <2> DEFINE row == [rows[id] EXCEPT !.video = Fail(rows[id].video)]
  <2>1. rows' = [rows EXCEPT ![id] = row]
    BY <1>3, <1>7
  <2>2. row \in VideoRow /\ row.topic = rows[id].topic /\ row.createdAt = rows[id].createdAt
    <3>1. row.topic = rows[id].topic /\ row.createdAt = rows[id].createdAt
      BY <1>4 DEF VideoRow
    <3>2. Fail(rows[id].video) \in Video
      BY <1>4, TransitionsGiveVideos
    <3> QED BY <1>4, <3>1, <3>2, RowsKeepTheirType
  <2> HIDE DEF row, id
  <2> QED BY <1>5, <1>7, <2>1, <2>2
<1> QED BY <1>6, <1>7 DEF StepEnds

-----------------------------------------------------------------------------
(* What clients do of themselves, and time.                                *)

LEMMA SendStands ==
  ASSUME DeskInv, NEW c \in Client, Send(c)
  PROVE  DeskInv'
<1>1. PICK op \in Procedure \cup Command : \E req \in Requests(c, op) :
        calls' = [calls EXCEPT ![c] =
          [ pc |-> "arrived", serial |-> made + 1, op |-> op, req |-> req,
            base |-> <<>>, attempt |-> 1, at |-> <<>>, answer |-> AnswerOf(c, "none", NoMessage) ]]
  BY DEF Send
<1>2. PICK req \in Requests(c, op) :
        calls' = [calls EXCEPT ![c] =
          [ pc |-> "arrived", serial |-> made + 1, op |-> op, req |-> req,
            base |-> <<>>, attempt |-> 1, at |-> <<>>, answer |-> AnswerOf(c, "none", NoMessage) ]]
  BY <1>1
<1> DEFINE k == [ pc |-> "arrived", serial |-> made + 1, op |-> op, req |-> req,
                  base |-> <<>>, attempt |-> 1, at |-> <<>>, answer |-> AnswerOf(c, "none", NoMessage) ]
<1>3. /\ k.pc = "arrived" /\ k.serial = made + 1 /\ k.op = op /\ k.req = req /\ k.attempt = 1
      /\ IsCall(k)
  BY DEF IsCall
<1>4. calls' = [calls EXCEPT ![c] = k]
  BY <1>2
<1> HIDE DEF k
<1>5. calls'[c] = k
  BY <1>4 DEF DeskInv
<1>6. TablesAreTyped /\ made \in Nat /\ made' = made + 1 /\ made' \in 0..MaxCalls
      /\ UNCHANGED <<rows, jobs, log, clock>>
  BY ClockAssumption DEF DeskInv, TablesAreTyped, Send
<1>7. \A i \in DOMAIN log : log[i] \in LogRow /\ log[i].call \in 1..made
  BY <1>6, EntriesAreRows
<1>8. TablesAreTyped' /\ EntriesDiffer'
  <2>1. LogRow \subseteq LogRow' /\ JobRow' = JobRow
    BY <1>6 DEF LogRow, JobRow
  <2>2. log \in Seq(LogRow')
    <3>1. log \in Seq(LogRow)
      BY <1>6 DEF TablesAreTyped
    <3> HIDE DEF LogRow
    <3> QED BY <2>1, <3>1, LargerSetsLongerLists
  <2>3. EntriesDiffer'
    BY <1>6 DEF DeskInv, EntriesDiffer
  <2> QED BY <1>6, <2>1, <2>2, <2>3 DEF TablesAreTyped
<1>9. RecordsOf(c)' = {}
  BY <1>3, <1>5, <1>6, <1>7 DEF RecordsOf
<1>10. op = "AddVideo" => req.topic \in Topics
  BY <1>2 DEF Requests, AddVideoRequest
<1>11. CallStands(c)'
  BY <1>3, <1>5, <1>6, <1>9, <1>10 DEF CallStands
<1>12. \A d \in Client : d # c /\ calls[d].pc # "idle" => RecordGrows(calls[d].serial)
  BY <1>6 DEF RecordGrows, TablesAreTyped
<1> QED BY <1>3, <1>4, <1>8, <1>11, <1>12, ClientSteps

(* A call that is given up or answered is nobody's. *)
LEMMA EndedCallsStand ==
  ASSUME DeskInv, NEW c \in Client, calls' = [calls EXCEPT ![c] = Idle],
         UNCHANGED <<rows, jobs, log, clock, made>>
  PROVE  DeskInv'
<1>1. TablesAreTyped' /\ EntriesDiffer'
  BY TablesStay DEF DeskInv, EntriesDiffer
<1>2. \A d \in Client : d # c /\ calls[d].pc # "idle" => RecordGrows(calls[d].serial)
  BY NothingChanges DEF DeskInv
<1>3. Idle.pc = "idle"
  BY DEF Idle
<1> QED BY <1>1, <1>2, <1>3, ClientSteps

LEMMA TickStands ==
  ASSUME DeskInv, Tick
  PROVE  DeskInv'
<1>1. clock' \in Ticks /\ UNCHANGED <<rows, jobs, log, calls, made>>
  BY DEF Tick
<1>2. TablesAreTyped' /\ EntriesDiffer'
  <2>1. JobRow' = JobRow /\ LogRow' = LogRow
    BY <1>1 DEF JobRow, LogRow
  <2> QED BY <1>1, <2>1 DEF DeskInv, TablesAreTyped, EntriesDiffer
<1>3. \A d \in Client : calls[d].pc # "idle" => RecordGrows(calls[d].serial)
  BY <1>1, NothingChanges DEF DeskInv
<1> QED BY <1>1, <1>2, <1>3, NobodysStep

LEMMA StillnessStands ==
  ASSUME DeskInv, UNCHANGED vars
  PROVE  DeskInv'
<1>1. UNCHANGED <<rows, jobs, log, calls, clock, made>>
  BY DEF vars
<1>2. TablesAreTyped' /\ EntriesDiffer'
  BY <1>1, TablesStay DEF DeskInv, EntriesDiffer
<1>3. \A d \in Client : calls[d].pc # "idle" => RecordGrows(calls[d].serial)
  BY <1>1, NothingChanges DEF DeskInv
<1> QED BY <1>1, <1>2, <1>3, NobodysStep

-----------------------------------------------------------------------------
(* From the start.                                                         *)

LEMMA FirstTickIsATick ==
  FirstTick \in Ticks
<1>1. \E t \in Ticks : \A u \in Ticks : t <= u
  BY ClockAssumption, LeastNumber
<1> QED BY <1>1 DEF FirstTick

Started(row, video, sheet) == [row EXCEPT !.video = video, !.sheet = sheet]

LEMMA StartedRowsAreTyped ==
  ASSUME NEW row \in VideoRow, NEW video \in Video, NEW sheet \in BOOLEAN
  PROVE  Started(row, video, sheet) \in VideoRow
BY DEF Started, VideoRow

LEMMA DefaultRowsAreTyped ==
  ASSUME NEW topic \in Topics \cup StartingTopics, NEW at \in Text
  PROVE  Row([topic |-> topic, priority |-> 0], at) \in VideoRow
<1> DEFINE req == [topic |-> topic, priority |-> 0]
<1>1. NewVideo \in Video
  BY ChangesGiveVideos
<1>2. (IF req.priority = 0 THEN PriorityDefault ELSE req.priority) \in PriorityHighest .. PriorityLowest
  BY DEF PriorityDefault, PriorityHighest, PriorityLowest
<1>3. req.topic \in Topics \cup StartingTopics
  OBVIOUS
<1> HIDE DEF req
<1> SUFFICES Row(req, at) \in VideoRow
  BY DEF req
<1> QED BY <1>1, <1>2, <1>3 DEF Row, VideoRow

(* The rows of an earlier day. *)
LEMMA StartingRowsAreTyped ==
  ASSUME NEW id \in StartingIds, NEW video \in StartingVideos
  PROVE  StartingRow(id, video) \in VideoRow
<1> DEFINE topic == CHOOSE t \in StartingTopics : Slugify(t) = id
<1>1. \E t \in StartingTopics : Slugify(t) = id
  BY DEF StartingIds
<1>2. topic \in Topics \cup StartingTopics
  BY <1>1
<1>3. FormatTime(FirstTick) \in Text /\ video \in Video
  BY FirstTickIsATick, StartAssumption DEF Text
<1> DEFINE row == Row([topic |-> topic, priority |-> 0], FormatTime(FirstTick))
           sheet == video # NewVideo
<1>4. StartingRow(id, video) = Started(row, video, sheet)
  BY DEF StartingRow, Started
<1>5. row \in VideoRow
  <2> HIDE DEF topic
  <2> QED BY <1>2, <1>3, DefaultRowsAreTyped
<1>6. sheet \in BOOLEAN
  OBVIOUS
<1> HIDE DEF topic, row, sheet
<1> QED BY <1>3, <1>4, <1>5, <1>6, StartedRowsAreTyped

LEMMA DeskInvStarts ==
  ASSUME Init
  PROVE  DeskInv
<1>1. PICK videos \in [StartingIds -> StartingVideos] :
        rows = [id \in StartingIds |-> StartingRow(id, videos[id])]
  BY DEF Init
<1>2. rows \in [DOMAIN rows -> VideoRow] /\ DOMAIN rows = StartingIds
  BY <1>1, StartingRowsAreTyped
<1>3. \A id \in DOMAIN rows : PathSafe(id)
  BY <1>2, StartAssumption DEF StartingIds
<1>4. jobs = <<>> /\ log = <<>> /\ clock \in Ticks /\ made \in 0..MaxCalls
  BY FirstTickIsATick, ClockAssumption DEF Init
<1>5. jobs \in Seq(JobRow) /\ log \in Seq(LogRow)
  <2> HIDE DEF JobRow, LogRow
  <2> QED BY <1>4, EmptySeq
<1>6. TablesAreTyped
  BY <1>2, <1>3, <1>4, <1>5 DEF TablesAreTyped
<1>7. EntriesDiffer
  BY <1>4 DEF EntriesDiffer
<1>8. calls = [c \in Client |-> calls[c]] /\ \A c \in Client : calls[c].pc = "idle"
  BY DEF Init, Idle
<1> QED BY <1>6, <1>7, <1>8 DEF DeskInv, CallsDiffer

LEMMA DeskInvIsKept ==
  ASSUME DeskInv, [Next]_vars
  PROVE  DeskInv'
<1>1. ASSUME NEW c \in Client, Send(c) PROVE DeskInv'
  BY <1>1, SendStands
<1>2. ASSUME NEW c \in Client, Handle(c) PROVE DeskInv'
  BY <1>2, HandlersStand
<1>3. ASSUME NEW c \in Client, GiveUp(c) PROVE DeskInv'
  BY <1>3, EndedCallsStand DEF GiveUp
<1>4. ASSUME NEW c \in Client, Deliver(c) PROVE DeskInv'
  BY <1>4, EndedCallsStand DEF Deliver
<1>5. ASSUME NEW j \in DOMAIN jobs, StepEnds(j) PROVE DeskInv'
  BY <1>5, EndsStand
<1>6. CASE Tick
  BY <1>6, TickStands
<1>7. CASE UNCHANGED vars
  BY <1>7, StillnessStands
<1> QED BY <1>1, <1>2, <1>3, <1>4, <1>5, <1>6, <1>7 DEF Next

LEMMA DeskInvInductive ==
  Spec => []DeskInv
BY DeskInvStarts, DeskInvIsKept, PTL DEF Spec

-----------------------------------------------------------------------------
(* What follows.                                                           *)

(* The tables, row by row, as TypeOK states them. *)
LEMMA RowsAreTyped ==
  ASSUME DeskInv
  PROVE  /\ \A id \in DOMAIN rows :
              /\ PathSafe(id)
              /\ rows[id].video \in Video /\ ValidPriority(rows[id].priority)
              /\ rows[id].createdAt \in Text /\ rows[id].sheet \in BOOLEAN
         /\ \A j \in DOMAIN jobs :
              /\ jobs[j].video \in DOMAIN rows /\ jobs[j].step \in Steps
              /\ jobs[j].state \in {"running", "succeeded", "failed"} /\ jobs[j].startedAt \in Text
         /\ \A i \in DOMAIN log :
              /\ log[i].video \in DOMAIN rows /\ log[i].at \in Text
              /\ log[i].gate \in Gate \cup {NoGate} /\ log[i].call \in 1 .. made
<1>1. TablesAreTyped
  BY DEF DeskInv
<1>2. \A id \in DOMAIN rows : PathSafe(id) /\ rows[id] \in VideoRow
  BY <1>1 DEF TablesAreTyped
<1>3. \A j \in DOMAIN jobs : jobs[j] \in JobRow
  BY <1>1, LenProperties, ElementOfSeq DEF TablesAreTyped
<1>4. \A i \in DOMAIN log : log[i] \in LogRow
  BY <1>1, EntriesAreRows
<1>5. \A id \in DOMAIN rows :
        /\ PathSafe(id)
        /\ rows[id].video \in Video /\ ValidPriority(rows[id].priority)
        /\ rows[id].createdAt \in Text /\ rows[id].sheet \in BOOLEAN
  BY <1>2 DEF VideoRow, ValidPriority
<1>6. \A j \in DOMAIN jobs :
        /\ jobs[j].video \in DOMAIN rows /\ jobs[j].step \in Steps
        /\ jobs[j].state \in {"running", "succeeded", "failed"} /\ jobs[j].startedAt \in Text
  BY <1>3 DEF JobRow
<1>7. \A i \in DOMAIN log :
        /\ log[i].video \in DOMAIN rows /\ log[i].at \in Text
        /\ log[i].gate \in Gate \cup {NoGate} /\ log[i].call \in 1 .. made
  BY <1>4 DEF LogRow
<1> QED BY <1>5, <1>6, <1>7

(* The tables hold what they should: every id may name a folder, whatever   *)
(* was typed as a topic (validate.go), every job and every entry is of a    *)
(* video that exists, and every answer tells of such videos.                *)
THEOREM DeskTypes ==
  Spec => []TypeOK
<1>1. DeskInv => TypeOK
  <2> SUFFICES ASSUME DeskInv PROVE TypeOK
    OBVIOUS
  <2>1. \A c \in Client :
          calls[c].pc \in {"idle", "arrived", "checking", "creating", "replying"}
    BY DEF DeskInv, CallStands
  <2>2. ASSUME NEW c \in Client, HasAnswer(c)
        PROVE  /\ calls[c].answer.error \in ErrorKind \cup {"none"}
               /\ Range(VideosIn(calls[c].answer.message)) \subseteq
                    VideoMessage(DOMAIN rows, Topics \cup StartingTopics, {FormatSecond(t) : t \in Text})
    BY <2>2 DEF HasAnswer, DeskInv, CallStands, AnswerStands
  <2>3. clock \in Ticks /\ made \in 0 .. MaxCalls
    BY DEF DeskInv, TablesAreTyped
  <2> QED BY <2>1, <2>2, <2>3, RowsAreTyped DEF TypeOK
<1> QED BY <1>1, DeskInvInductive, PTL

(* However the adds of many clients cross, each is told the truth: "ok" for *)
(* a row of its own, "already exists" for an id somebody else took, and no  *)
(* free id only when every one it could have tried is taken (idgen.go).     *)
THEOREM AddsAreTold ==
  Spec => []AddsTellTheTruth
<1>1. DeskInv => AddsTellTheTruth
  BY DEF DeskInv, CallStands, AnswerStands, HasAnswer, AddsTellTheTruth
<1> QED BY <1>1, DeskInvInductive, PTL

(* The answer to a decision and the log agree, through either door: one     *)
(* entry if it went well, none if not, and for the gate whose label the     *)
(* person read (the transaction of the video service).                      *)
THEOREM DecisionsAreOnRecord ==
  Spec => []AnswersMatchTheRecord
<1>1. DeskInv => AnswersMatchTheRecord
  <2> SUFFICES ASSUME DeskInv PROVE AnswersMatchTheRecord
    OBVIOUS
  <2>1. \A i, j \in DOMAIN log : log[i].call = log[j].call => i = j
    BY DEF DeskInv, EntriesDiffer
  <2>2. ASSUME NEW c \in Client, calls[c].pc # "idle"
        PROVE  /\ calls[c].pc \in {"arrived", "checking", "creating"} => RecordsOf(c) = {}
               /\ calls[c].op \in {"ApproveGate", "RejectGate"} =>
                    \A i \in RecordsOf(c) : log[i].gate = Meant(c, calls[c].req.gate)
    BY <2>2 DEF DeskInv, CallStands
  <2>3. ASSUME NEW c \in Client, HasAnswer(c), calls[c].op \in Deciding
        PROVE  RecordsOf(c) # {} <=> calls[c].answer.code \in {"ok", "0"}
    <3>1. AnswerStands(c)
      BY <2>3 DEF DeskInv, CallStands, HasAnswer
    <3>2. calls[c].answer.code = Outcome(c, calls[c].answer.error)
      <4>1. calls[c].answer = AnswerOf(c, calls[c].answer.error, calls[c].answer.message)
        BY <3>1 DEF AnswerStands
      <4> QED BY <4>1 DEF AnswerOf
    <3> QED BY <2>3, <3>1, <3>2, OnlyOkIsOk DEF AnswerStands
  <2> QED BY <2>1, <2>2, <2>3 DEF AnswersMatchTheRecord, Deciding
<1> QED BY <1>1, DeskInvInductive, PTL

(* Whatever instants the clock shows, a list reads by priority and then by  *)
(* the date it shows, and a history by the time it shows, although their    *)
(* order comes from texts that may sort against time (List, formatTime).    *)
THEOREM ListsAlwaysReadInOrder ==
  Spec => []ListsReadInOrder
<1>1. DeskInv => ListsReadInOrder
  BY DEF DeskInv, CallStands, AnswerStands, HasAnswer, ListsReadInOrder
<1> QED BY <1>1, DeskInvInductive, PTL
=============================================================================
