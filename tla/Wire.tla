-------------------------------- MODULE Wire --------------------------------
(***************************************************************************)
(* The contract between the dashboard and the server: the enums and the    *)
(* messages of proto/rewind/v1/video.proto as the generated Go code holds  *)
(* them, and the translation of transport/connectrpc between them and the  *)
(* domain's own values.                                                    *)
(*                                                                         *)
(* A wire enum is a number, and any number can arrive: a client may be     *)
(* newer than this build.  Texts a property never reads (notes, errors,    *)
(* progress) are left out of the messages, the others keep their fields.   *)
(***************************************************************************)
EXTENDS VideoState

UNSPECIFIED == 0

(* The values of the enums, each at its number. *)
VideoStatus_name ==
  << "QUEUED", "RESEARCHING", "FACTS_READY", "FACTS_APPROVED",
     "FINDING_REFS", "REFS_READY", "REFS_APPROVED",
     "SCRIPTING", "SCRIPT_READY", "SCRIPT_APPROVED",
     "VOICING", "VOICE_READY", "VOICE_APPROVED",
     "IMAGING", "STORYBOARD_READY", "STORYBOARD_APPROVED",
     "RENDERING", "RENDER_READY", "FINAL_APPROVED",
     "UPLOADING", "UPLOADED_PRIVATE", "PUBLISHED", "ANALYTICS_COLLECTED", "ERROR" >>

Gate_name ==
  << "A_FACTS", "B_REFERENCES", "C_SCRIPT", "D_VOICE", "E_STORYBOARD", "F_FINAL" >>

JobState_name == << "RUNNING", "SUCCEEDED", "FAILED", "INTERRUPTED" >>

NumberOf(names, name) == CHOOSE n \in DOMAIN names : names[n] = name

-----------------------------------------------------------------------------
(* The tables between domain and wire, and their derived inverses.          *)

statusToProto ==
  [ queued |-> "QUEUED",
    researching |-> "RESEARCHING", facts_ready |-> "FACTS_READY",
    facts_approved |-> "FACTS_APPROVED",
    finding_refs |-> "FINDING_REFS", refs_ready |-> "REFS_READY",
    refs_approved |-> "REFS_APPROVED",
    scripting |-> "SCRIPTING", script_ready |-> "SCRIPT_READY",
    script_approved |-> "SCRIPT_APPROVED",
    voicing |-> "VOICING", voice_ready |-> "VOICE_READY",
    voice_approved |-> "VOICE_APPROVED",
    imaging |-> "IMAGING", storyboard_ready |-> "STORYBOARD_READY",
    storyboard_approved |-> "STORYBOARD_APPROVED",
    rendering |-> "RENDERING", render_ready |-> "RENDER_READY",
    final_approved |-> "FINAL_APPROVED",
    uploading |-> "UPLOADING", uploaded_private |-> "UPLOADED_PRIVATE",
    published |-> "PUBLISHED", analytics_collected |-> "ANALYTICS_COLLECTED",
    error |-> "ERROR" ]

gateToProto ==
  [ A |-> "A_FACTS", B |-> "B_REFERENCES", C |-> "C_SCRIPT",
    D |-> "D_VOICE", E |-> "E_STORYBOARD", F |-> "F_FINAL" ]

jobStateToProto ==
  [ running |-> "RUNNING", succeeded |-> "SUCCEEDED",
    failed |-> "FAILED", interrupted |-> "INTERRUPTED" ]

ToProto(table, names, value) ==
  IF value \in DOMAIN table THEN NumberOf(names, table[value]) ELSE UNSPECIFIED

(* A number no entry of the table has comes back as the zero value, which   *)
(* every domain rule rejects.                                               *)
FromProto(table, names, number, zero) ==
  LET values == {d \in DOMAIN table : NumberOf(names, table[d]) = number}
  IN  IF values = {} THEN zero ELSE CHOOSE d \in values : TRUE

toProtoVideoStatus(s) == ToProto(statusToProto, VideoStatus_name, s)
fromProtoStatus(n) == FromProto(statusToProto, VideoStatus_name, n, NoStatus)
toProtoGate(g) == ToProto(gateToProto, Gate_name, g)
fromProtoGate(n) == FromProto(gateToProto, Gate_name, n, NoGate)
toProtoJobState(s) == ToProto(jobStateToProto, JobState_name, s)

-----------------------------------------------------------------------------
(* The messages.  A request or a part of an answer is the set of the messages *)
(* of its type over what its fields may hold, an answer is built from its     *)
(* parts.  Of the texts, those no property reads are left out.                *)

Number(names) == DOMAIN names \cup {UNSPECIFIED}

AddVideoRequest(topics, priorities) == [topic : topics, priority : priorities]
ListVideosRequest(lists) == [needsReviewOnly : BOOLEAN, statuses : lists]
GetVideoRequest(ids) == [videoId : ids]
ApproveGateRequest(ids, numbers) == [videoId : ids, gate : numbers]
RejectGateRequest(ids, numbers, backTo, notes) ==
  [videoId : ids, gate : numbers, backTo : backTo, note : notes]
RetryVideoRequest(ids) == [videoId : ids]
ListReviewLogRequest(ids) == [videoId : ids]
RunStepRequest(ids) == [videoId : ids]
GetJobRequest(jobIds) == [jobId : jobIds]
GetLatestJobRequest(ids) == [videoId : ids]

VideoMessage(ids, topics, seconds) ==
  [ id : ids, topic : topics, priority : 1 .. 5, createdAt : seconds,
    status : Number(VideoStatus_name), rejectedTo : Number(VideoStatus_name),
    retryFrom : Number(VideoStatus_name),
    awaitingGate : Number(Gate_name), isTerminal : BOOLEAN ]

JobMessage(jobIds, ids, seconds) ==
  [id : jobIds, videoId : ids, state : Number(JobState_name), startedAt : seconds]

ReviewLogEntry(entries, seconds, actions) ==
  [ id : entries, at : seconds, gate : Number(Gate_name), action : actions,
    toStatus : Number(VideoStatus_name) ]

AddVideoResponse(video) == [video |-> video]
ListVideosResponse(videos) == [videos |-> videos]
GetVideoResponse(video) == [video |-> video]
ApproveGateResponse(video) == [video |-> video]
RejectGateResponse(video) == [video |-> video]
RetryVideoResponse(video) == [video |-> video]
ListReviewLogResponse(entries) == [entries |-> entries]
RunStepResponse(started, job) == [started |-> started, job |-> job]
GetJobResponse(exists, job) == [exists |-> exists, job |-> job]
GetLatestJobResponse(exists, job) == [exists |-> exists, job |-> job]

(* The videos a page or a command prints from an answer. *)
VideosIn(message) ==
  CASE "videos" \in DOMAIN message -> message.videos
    [] "video" \in DOMAIN message  -> <<message.video>>
    [] OTHER                       -> <<>>

-----------------------------------------------------------------------------
(* What the server derives so that no client has to.                        *)

GateFor(s) == IF AtSomeGate(s) THEN CHOOSE g \in Gate : AwaitsGate(s, g) ELSE NoGate

(* Nothing further happens on its own: finished, failed or with a person. *)
IsTerminal(s) ==
  \/ s = "error" \/ AtSomeGate(s)
  \/ s \in {"uploaded_private", "analytics_collected"}
  \/ NextAutomatic(s) = {}

-----------------------------------------------------------------------------
(* Error kinds of the core, and the one place where they become codes.      *)

ErrorKind == {"invalid id", "not found", "illegal transition", "validation",
              "already exists", "canceled", "deadline", "other"}

toConnectError(kind) ==
  CASE kind = "none"                            -> "ok"
    [] kind \in {"invalid id", "validation"}    -> "invalid_argument"
    [] kind = "not found"                       -> "not_found"
    [] kind = "already exists"                  -> "already_exists"
    [] kind = "illegal transition"              -> "failed_precondition"
    [] kind = "canceled"                        -> "canceled"
    [] kind = "deadline"                        -> "deadline_exceeded"
    [] OTHER                                    -> "internal"
=============================================================================
