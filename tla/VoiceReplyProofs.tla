-------------------------- MODULE VoiceReplyProofs --------------------------
(***************************************************************************)
(* A badge over ReplyPromise sends a reply once, keeps its key until it is  *)
(* answered for, and consumes its own answers only, for any keys and posts. *)
(***************************************************************************)
EXTENDS VoiceReply, TLAPS

(* A key that is let go of: nothing is to come of it, and what was said of  *)
(* it is true.                                                              *)
Quiet(k) ==
  /\ ~MayPost(k)
  /\ told[k] = "sent" => asked[k] = "made"
  /\ told[k] # "sent" => asked[k] \in {"no", "refused"}

Jobs == [kind : Kinds \cup {"NONE"}, st : {"idle", "queued", "waiting", "done"},
         discard : BOOLEAN, key : Keys \cup {NoKey}, fresh : BOOLEAN,
         ans : G!States \cup {"error", "absent", "none", "text"}]
Reqs == [kind : Kinds \cup {"NONE"}, started : BOOLEAN]
Asks == {"SEND", "STATUS"}

Types ==
  /\ said \in [Keys -> G!States] /\ asked \in [Keys -> G!Asked]
  /\ told \in [Keys -> {"nothing", "sent", "failed"}]
  /\ key \in Keys \cup {NoKey} /\ saved \in Keys \cup {NoKey, Corrupt}
  /\ mail \subseteq Keys /\ arrived \subseteq Keys /\ used \subseteq Keys
  /\ req \in Reqs /\ job \in Jobs

(* The request and the worker's job.                                        *)
JobInv ==
  /\ OwnAnswer
  /\ stage = "review" => req = NoReq
  /\ req.kind \in Asks => key \in Keys /\ ~blocked
  /\ job.kind \in Asks => job.key \in Keys
  /\ client => job.st = "waiting" /\ job.kind \in Asks

(* The key in memory is the one in flash, and what was given to the worker  *)
(* to send is that one, and was generated for it.                           *)
KeyInv ==
  /\ ~blocked => saved = key
  /\ mail \cup arrived \subseteq used
  /\ req.kind = "SEND" => key \in used
  /\ req.kind = "SEND" /\ ~req.started => key \notin mail \cup arrived /\ job.kind # "SEND"
  /\ job.kind = "SEND" => saved = job.key /\ job.key \in used

(* The gateway knows what it was sent, and says what is so.                 *)
GatewayInv ==
  /\ G!ReceiptTruth
  /\ \A k \in Keys \ arrived : said[k] = "none" /\ asked[k] = "no"
  /\ job.ans \in {"sent", "failed"} => job.key \in Keys /\ said[job.key] = job.ans

(* Whatever is not named in flash is quiet, and told of if it was sent.     *)
FlashInv ==
  \A k \in Keys : saved # k =>
    Quiet(k) /\ (k \in mail \cup arrived => told[k] # "nothing")

IInv == Types /\ JobInv /\ KeyInv /\ GatewayInv /\ FlashInv

-----------------------------------------------------------------------------
(* What steps of the main task have in common: nothing outside it moves,    *)
(* the record of the send is kept, and the worker's job is at most dropped. *)
Outside    == UNCHANGED <<mail, client, said, about, asked, arrived>>
RecordKept == UNCHANGED <<key, saved, blocked, told, used>>
JobMoves ==
  /\ job' \in Jobs
  /\ client => job'.st = "waiting" /\ job'.kind = job.kind
  /\ job'.kind # "NONE" => job'.kind = job.kind /\ job'.key = job.key
  /\ job'.ans \in {"sent", "failed"} => job'.ans = job.ans /\ job'.key = job.key

(* What follows for a key that a final receipt names.                       *)
LEMMA FinalIsQuiet ==
  ASSUME Types, GatewayInv, NEW k \in Keys, said[k] \in {"sent", "failed"}
  PROVE  /\ ~MayPost(k)
         /\ IF said[k] = "sent" THEN asked[k] = "made" ELSE asked[k] \in {"no", "refused"}
  BY DEF Types, GatewayInv, G!ReceiptTruth, MayPost, G!Asked

(* No request,                                                              *)
LEMMA NoReqType == NoReq \in Reqs /\ NoReq.kind = "NONE" /\ ~NoReq.started
  BY DEF NoReq, Reqs

(* and no job.                                                              *)
LEMMA NoJobType ==
  /\ NoJob \in Jobs /\ NoJob.kind = "NONE" /\ NoJob.ans = "none"
  BY DEF NoJob, Jobs

(* A job that is kept, goes stale or is discarded.                          *)
LEMMA JobStays ==
  ASSUME Types, JobInv,
         job' \in {job, [job EXCEPT !.fresh = FALSE], Discarded(job)}
  PROVE  JobMoves
<1>1. CASE job' = job
  BY <1>1 DEF JobMoves, Types, JobInv
<1>2. CASE job' = [job EXCEPT !.fresh = FALSE]
  BY <1>2 DEF JobMoves, Types, JobInv, Jobs
<1>3. CASE job' = Discarded(job) /\ job.st = "done"
  BY <1>3, NoJobType DEF JobMoves, Types, JobInv, Discarded
<1>4. CASE job' = Discarded(job) /\ job.st # "done"
  BY <1>4 DEF JobMoves, Types, JobInv, Discarded, Jobs
<1> QED
  BY <1>1, <1>2, <1>3, <1>4

(* The record is kept, and a new request is none, or one that asks for      *)
(* nothing, or for the status of the key.                                   *)
LEMMA KeptStep ==
  ASSUME IInv, JobMoves, Outside, RecordKept, req' \in Reqs, OwnAnswer',
         stage' = "review" => req' = NoReq,
         req'.kind \in Asks => key \in Keys /\ ~blocked,
         req'.kind = "SEND" => req' = req
  PROVE  IInv'
<1> USE DEF IInv, Outside, RecordKept
<1>1. Types'
  BY DEF JobMoves, Types
<1>2. JobInv'
  BY NoReqType DEF JobMoves, JobInv, Types, Asks
<1>3. KeyInv'
  BY DEF JobMoves, KeyInv, Types
<1>4. GatewayInv'
  BY DEF JobMoves, GatewayInv, Types, G!ReceiptTruth
<1>5. FlashInv'
  BY DEF FlashInv, Quiet, MayPost
<1> QED
  BY <1>1, <1>2, <1>3, <1>4, <1>5

(* The record goes, or cannot be removed, once the key is answered for.     *)
LEMMA ForgotStep ==
  ASSUME IInv, JobMoves, Outside, UNCHANGED used, key \in Keys, ~blocked,
         ForgetPending, NEW what \in {"sent", "failed"}, Report(key, what),
         ~MayPost(key), IF what = "sent" THEN asked[key] = "made"
                                         ELSE asked[key] \in {"no", "refused"},
         req' = NoReq, job'.kind # "SEND", stage' # "review"
  PROVE  IInv'
<1> USE DEF IInv, Outside
<1>0. /\ saved = key /\ told' = [told EXCEPT ![key] = what]
      /\ \/ key' = NoKey /\ saved' = NoKey /\ blocked' = blocked
         \/ blocked' = TRUE /\ key' = key /\ saved' = saved
  BY DEF KeyInv, ForgetPending, Report
<1>1. Types'
  BY <1>0, NoReqType DEF JobMoves, Types
<1>2. JobInv'
  BY NoReqType DEF JobMoves, JobInv, Types, Asks, OwnAnswer
<1>3. KeyInv'
  BY <1>0, NoReqType DEF JobMoves, KeyInv, Types
<1>4. GatewayInv'
  BY DEF JobMoves, GatewayInv, Types, G!ReceiptTruth
<1>5. FlashInv'
  <2> SUFFICES ASSUME NEW k \in Keys, saved' # k
               PROVE  Quiet(k)' /\ (k \in mail \cup arrived => told'[k] # "nothing")
    BY DEF FlashInv
  <2>1. CASE k = key
    <3>1. told'[k] = what
      BY <1>0, <2>1 DEF Types
    <3> QED
      BY <2>1, <3>1 DEF Quiet, MayPost
  <2>2. CASE k # key
    <3>1. told'[k] = told[k] /\ saved # k
      BY <1>0, <2>2 DEF Types
    <3> QED
      BY <3>1 DEF FlashInv, Quiet, MayPost
  <2> QED
    BY <2>1, <2>2
<1> QED
  BY <1>1, <1>2, <1>3, <1>4, <1>5

(* voiceCancelRequest.                                                      *)
LEMMA CancelStep ==
  ASSUME IInv, CancelRequest, Outside, UNCHANGED used, stage' # "review"
  PROVE  IInv'
<1>1. JobMoves
  BY JobStays DEF CancelRequest, IInv
<1>2. req' = NoReq /\ OwnAnswer'
  BY NoReqType DEF CancelRequest, OwnAnswer
<1>3. CASE req.kind # "SEND" \/ req.started
  <2>1. RecordKept
    BY <1>3 DEF CancelRequest, KeepReceipt, RecordKept
  <2> QED
    BY <1>1, <1>2, <2>1, KeptStep, NoReqType DEF Asks
<1>4. CASE req.kind = "SEND" /\ ~req.started
  <2>1. /\ key \in Keys /\ ~blocked /\ key \notin mail \cup arrived /\ job.kind # "SEND"
        /\ asked[key] = "no"
    BY <1>4 DEF IInv, JobInv, KeyInv, GatewayInv, Asks
  <2>2. ~MayPost(key)
    BY <2>1 DEF MayPost
  <2>3. ForgetPending /\ Report(key, "failed")
    BY <1>4 DEF CancelRequest
  <2>4. job'.kind # "SEND"
    BY <1>1, <2>1 DEF JobMoves
  <2> QED
    BY <1>1, <1>2, <2>1, <2>2, <2>3, <2>4, ForgotStep
<1> QED
  BY <1>3, <1>4

(* A request takes the place of another: the job it had goes stale.         *)
LEMMA QueueStep ==
  ASSUME IInv, Outside, RecordKept, NEW k \in {"INBOX", "TRANSCRIPTION", "STATUS"},
         k = "STATUS" => key \in Keys /\ ~blocked,
         Queue(k), Lose, stage' # "review"
  PROVE  IInv'
<1>1. JobMoves
  BY JobStays DEF Lose, IInv
<1>2. req' \in Reqs /\ req'.kind = k /\ ~req'.started
  BY DEF Queue, Reqs, Kinds
<1> QED
  BY <1>1, <1>2, KeptStep DEF OwnAnswer, Asks

(* Nothing but the screen changes.                                          *)
LEMMA ScreenStep ==
  ASSUME IInv, Outside, RecordKept, UNCHANGED <<req, job>>,
         stage' = "review" => stage = "review" \/ req = NoReq
  PROVE  IInv'
<1>1. JobMoves
  BY JobStays DEF IInv
<1> QED
  BY <1>1, KeptStep DEF IInv, Types, JobInv, OwnAnswer

(* The inbox is asked for, or the screen says why not.                      *)
LEMMA RefreshStep ==
  ASSUME IInv, Outside, RecordKept, RefreshInbox
  PROVE  IInv'
<1>1. CASE Unresolved \/ ~Live
  <2>1. stage' # "review" /\ UNCHANGED <<req, job>>
    BY <1>1 DEF RefreshInbox
  <2> QED
    BY <2>1, ScreenStep
<1>2. CASE ~(Unresolved \/ ~Live)
  <2>1. stage' # "review" /\ Queue("INBOX") /\ Lose
    BY <1>2 DEF RefreshInbox
  <2> QED
    BY <2>1, QueueStep
<1> QED
  BY <1>1, <1>2

(* A send: the key is fresh, and in flash before anything is queued.        *)
LEMMA BeginStep ==
  ASSUME BadgeAssumption, IInv, Outside, BeginSend
  PROVE  IInv'
<1> USE DEF IInv, Outside
<1>1. PICK k \in Keys \ used :
       /\ key' = k /\ used' = used \cup {k}
       /\ \/ /\ saved' = k /\ Queue("SEND") /\ stage' = "waiting"
             /\ UNCHANGED blocked
          \/ /\ saved' = k /\ stage' = "unsure"
             /\ UNCHANGED <<blocked, req>>
          \/ /\ saved' \in {saved, k, Corrupt} /\ blocked' = TRUE
             /\ stage' = "unsure" /\ UNCHANGED req
  BY DEF BeginSend, Persisted
<1>2. /\ stage = "review" /\ ~blocked /\ key = NoKey /\ saved = NoKey
      /\ req = NoReq /\ UNCHANGED <<told, job>>
  BY DEF BeginSend, Unresolved, JobInv, KeyInv
<1>3. job.kind # "SEND" /\ k \notin mail \cup arrived /\ NoKey \notin Keys /\ k # Corrupt
  BY <1>2 DEF BadgeAssumption, KeyInv, JobInv, Asks
<1>4. req' \in Reqs /\ ~req'.started /\ (req' = NoReq \/ (req'.kind = "SEND" /\ ~blocked'))
  <2>1. CASE Queue("SEND") /\ UNCHANGED blocked
    <3>1. ~blocked'
      BY <1>2, <2>1
    <3> QED
      BY <2>1, <3>1 DEF Queue, Reqs, Kinds
  <2>2. CASE UNCHANGED req
    BY <1>2, <2>2, NoReqType
  <2> QED
    BY <1>1, <2>1, <2>2
<1>5. Types'
  BY <1>1, <1>2, <1>4 DEF Types
<1>6. JobInv'
  BY <1>1, <1>2, <1>4, NoReqType DEF JobInv, OwnAnswer, Asks
<1>7. KeyInv'
  BY <1>1, <1>2, <1>3, <1>4, NoReqType DEF KeyInv
<1>8. GatewayInv'
  BY <1>2 DEF GatewayInv, G!ReceiptTruth
<1>9. FlashInv'
  BY <1>2, <1>3 DEF FlashInv, Quiet, MayPost
<1> QED
  BY <1>5, <1>6, <1>7, <1>8, <1>9

(* The user.                                                                *)
LEMMA UserStepInv ==
  ASSUME BadgeAssumption, IInv, Outside, UserStep
  PROVE  IInv'
<1> USE DEF RecordKept
<1>1. CASE EnterVoiceReplies
  BY <1>1, RefreshStep DEF EnterVoiceReplies
<1>2. CASE LeaveVoiceReplies
  BY <1>2, CancelStep DEF LeaveVoiceReplies
<1>3. CASE CancelTap
  BY <1>3, CancelStep DEF CancelTap
<1>4. CASE Browse
  <2>1. CASE RefreshInbox
    BY <1>4, <2>1, RefreshStep DEF Browse
  <2>2. CASE stage' = "inbox" /\ UNCHANGED <<req, job>>
    BY <1>4, <2>2, ScreenStep DEF Browse
  <2> QED
    BY <1>4, <2>1, <2>2 DEF Browse
<1>5. CASE StartRecording
  BY <1>5, ScreenStep DEF StartRecording
<1>6. CASE ReviewedAllPages
  BY <1>6, ScreenStep DEF ReviewedAllPages, screen
<1>7. CASE BeginSend
  BY <1>7, BeginStep
<1>8. CASE CheckStatus
  <2>1. key \in Keys /\ ~blocked
    BY <1>8 DEF CheckStatus, IInv, Types
  <2> QED
    BY <1>8, <2>1, QueueStep DEF CheckStatus
<1> QED
  BY <1>1, <1>2, <1>3, <1>4, <1>5, <1>6, <1>7, <1>8 DEF UserStep

(* A request is handed to an idle worker.                                   *)
LEMMA StartStep ==
  ASSUME IInv, Outside, StartRequest
  PROVE  IInv'
<1> USE DEF IInv, Outside
<1>1. /\ req # NoReq /\ ~req.started /\ job.kind = "NONE" /\ stage' = stage
      /\ req' = [req EXCEPT !.started = TRUE] /\ job' = Handed
      /\ UNCHANGED <<key, saved, blocked, told, used>>
  BY DEF StartRequest, Busy, screen
<1>2. req' \in Reqs /\ req'.kind = req.kind /\ req'.started
  BY <1>1 DEF Types, Reqs
<1>3. /\ job' \in Jobs /\ job'.kind = req.kind /\ job'.key = key /\ job'.fresh
      /\ ~job'.discard /\ job'.ans = "none"
  BY <1>1 DEF Types, Reqs, Handed, NoJob, Jobs
<1>4. Types'
  BY <1>1, <1>2, <1>3 DEF Types
<1>5. JobInv'
  BY <1>1, <1>2, <1>3 DEF JobInv, OwnAnswer, Asks
<1>6. KeyInv'
  BY <1>1, <1>2, <1>3 DEF KeyInv, JobInv, Asks
<1>7. GatewayInv'
  BY <1>3 DEF GatewayInv, G!ReceiptTruth
<1>8. FlashInv'
  BY <1>1 DEF FlashInv, Quiet, MayPost
<1> QED
  BY <1>4, <1>5, <1>6, <1>7, <1>8

(* The answer that is consumed is the request's own.                        *)
LEMMA ConsumeStep ==
  ASSUME IInv, Outside, Consume
  PROVE  IInv'
<1>1. /\ req.started /\ job.kind = req.kind /\ job.st = "done" /\ req' = NoReq /\ job' = NoJob
      /\ UNCHANGED used
  BY DEF Consume, Ready
<1>2. JobMoves
  BY <1>1, NoJobType DEF JobMoves, IInv, JobInv
<1>3. OwnAnswer'
  BY <1>1, NoReqType DEF OwnAnswer
<1>4. CASE RecordKept
  BY <1>1, <1>2, <1>3, <1>4, NoReqType, KeptStep DEF Asks
<1>5. CASE job.kind \in Asks /\ ~RecordKept
  <2> DEFINE what == IF job.ans = "sent" THEN "sent" ELSE "failed"
  <2>1. /\ job.key = key /\ job.ans \in {"sent", "failed"} /\ ForgetPending /\ Report(key, what)
        /\ stage' # "review"
    BY <1>1, <1>5 DEF Consume, ConsumeReceipt, Final, KeepReceipt, RecordKept, Asks
  <2>2. key \in Keys /\ ~blocked
    BY <1>1, <1>5 DEF IInv, JobInv
  <2>3. said[key] = job.ans
    BY <2>1 DEF IInv, GatewayInv
  <2>4. ~MayPost(key) /\ IF what = "sent" THEN asked[key] = "made"
                                          ELSE asked[key] \in {"no", "refused"}
    BY <2>1, <2>2, <2>3, FinalIsQuiet DEF IInv
  <2>5. job'.kind # "SEND"
    BY <1>1, NoJobType
  <2> QED
    BY <1>1, <1>2, <2>1, <2>2, <2>4, <2>5, ForgotStep
<1>6. CASE job.kind \notin Asks
  <2>1. RecordKept
    BY <1>1, <1>6 DEF Consume, ConsumeOther, KeepReceipt, RecordKept, Asks
  <2> QED
    BY <1>4, <2>1
<1> QED
  BY <1>4, <1>5, <1>6

(* The main task.                                                           *)
LEMMA BadgeStep ==
  ASSUME BadgeAssumption, IInv, Badge
  PROVE  IInv'
<1>1. CASE Outside
  <2> USE <1>1 DEF RecordKept
  <2>1. CASE UserStep
    BY <2>1, UserStepInv
  <2>2. CASE ContextChanged
    <3>1. stage' # "review"
      BY <2>2 DEF ContextChanged, ErrorScreen
    <3> QED
      BY <2>2, <3>1, CancelStep DEF ContextChanged
  <2>3. CASE FinishRecording
    <3>1. CASE Queue("TRANSCRIPTION") /\ Lose /\ stage' = "transcribing"
      BY <2>3, <3>1, QueueStep DEF FinishRecording
    <3>2. CASE stage' = "error" /\ UNCHANGED <<req, job>>
      BY <2>3, <3>2, ScreenStep DEF FinishRecording
    <3> QED
      BY <2>3, <3>1, <3>2 DEF FinishRecording
  <2>4. CASE StartFails
    <3>1. stage' # "review"
      BY <2>4 DEF StartFails, ErrorScreen
    <3> QED
      BY <2>4, <3>1, CancelStep DEF StartFails
  <2>5. CASE StartRequest
    BY <2>5, StartStep
  <2>6. CASE Consume
    BY <2>6, ConsumeStep
  <2>7. CASE Drain
    <3>1. JobMoves
      BY <2>7, NoJobType DEF Drain, JobMoves, IInv, JobInv
    <3>2. RecordKept /\ UNCHANGED <<req, stage>> /\ ~req.started
      BY <2>7 DEF Drain, badge, IInv, JobInv, OwnAnswer
    <3> QED
      BY <3>1, <3>2, KeptStep DEF IInv, Types, JobInv, OwnAnswer
  <2>8. CASE LinkChanges
    BY <2>8, ScreenStep DEF LinkChanges, screen
  <2> QED
    BY <2>1, <2>2, <2>3, <2>4, <2>5, <2>6, <2>7, <2>8 DEF Badge, HandleVoiceReply
<1> QED
  BY <1>1 DEF Badge, Outside, net, gateway

-----------------------------------------------------------------------------
(* The worker hands its job to the network.                                 *)
LEMMA TransmitStep ==
  ASSUME IInv, Transmit
  PROVE  IInv'
<1> USE DEF IInv
<1>1. /\ job.kind \in Asks /\ job.st = "queued" /\ job' \in Jobs
      /\ job'.kind = job.kind /\ job'.key = job.key /\ job'.st = "waiting"
      /\ job'.ans = job.ans /\ job'.fresh = job.fresh /\ job'.discard = job.discard
      /\ UNCHANGED <<badge, gateway>>
  BY DEF Transmit, Types, Jobs, Asks
<1>2. CASE job.kind = "SEND" /\ mail' = mail \cup {job.key} /\ client' = client
  <2>1. Types'
    BY <1>1, <1>2 DEF Types, JobInv, badge, gateway
  <2>2. JobInv'
    BY <1>1, <1>2 DEF JobInv, OwnAnswer, badge
  <2>3. KeyInv'
    BY <1>1, <1>2 DEF KeyInv, JobInv, badge, gateway
  <2>4. GatewayInv'
    BY <1>1 DEF GatewayInv, G!ReceiptTruth, badge, gateway
  <2>5. FlashInv'
    BY <1>1, <1>2 DEF FlashInv, Quiet, MayPost, KeyInv, badge, gateway
  <2> QED
    BY <2>1, <2>2, <2>3, <2>4, <2>5
<1>3. CASE client' = TRUE /\ mail' = mail
  <2>1. Types'
    BY <1>1, <1>3 DEF Types, badge, gateway
  <2>2. JobInv'
    BY <1>1, <1>3 DEF JobInv, OwnAnswer, badge
  <2>3. KeyInv'
    BY <1>1, <1>3 DEF KeyInv, badge, gateway
  <2>4. GatewayInv'
    BY <1>1 DEF GatewayInv, G!ReceiptTruth, badge, gateway
  <2>5. FlashInv'
    BY <1>1, <1>3 DEF FlashInv, Quiet, MayPost, badge, gateway
  <2> QED
    BY <2>1, <2>2, <2>3, <2>4, <2>5
<1> QED
  BY <1>2, <1>3 DEF Transmit

(* A job comes to an end, with an answer the gateway gave or none.          *)
LEMMA DoneStep ==
  ASSUME IInv, UNCHANGED <<badge, mail, gateway>>, client' = FALSE,
         NEW a \in {"error", "text", "absent"} \cup G!States,
         a \in {"sent", "failed"} => job.key \in Keys /\ said[job.key] = a,
         job' = [job EXCEPT !.st = "done", !.ans = a]
  PROVE  IInv'
<1> USE DEF IInv
<1>1. /\ job' \in Jobs /\ job'.kind = job.kind /\ job'.key = job.key
      /\ job'.ans = a /\ job'.fresh = job.fresh /\ job'.discard = job.discard
  BY DEF Types, Jobs
<1>2. Types'
  BY <1>1 DEF Types, badge, gateway
<1>3. JobInv'
  BY <1>1 DEF JobInv, OwnAnswer, badge
<1>4. KeyInv'
  BY <1>1 DEF KeyInv, badge, gateway
<1>5. GatewayInv'
  BY <1>1 DEF GatewayInv, G!ReceiptTruth, badge, gateway
<1>6. FlashInv'
  BY DEF FlashInv, Quiet, MayPost, badge, gateway
<1> QED
  BY <1>2, <1>3, <1>4, <1>5, <1>6

(* The answer is an error, a text, or a statement of the gateway.           *)
LEMMA WorkerStep ==
  ASSUME IInv, WorkerDone \/ Deliver
  PROVE  IInv'
<1>1. CASE WorkerDone
  <2>1. PICK a \in {"error", "text"} : job' = [job EXCEPT !.st = "done", !.ans = a]
    BY <1>1 DEF WorkerDone
  <2> QED
    BY <1>1, <2>1, DoneStep DEF WorkerDone
<1>2. CASE Deliver
  <2>1. PICK a \in G!Answers(job.key) : job' = [job EXCEPT !.st = "done", !.ans = a]
    BY <1>2 DEF Deliver
  <2>2. job.key \in Keys /\ said[job.key] \in G!States
    BY <1>2 DEF Deliver, IInv, JobInv, Types
  <2>3. a \in {"error", "text", "absent"} \cup G!States
    BY DEF G!Answers
  <2>4. a \in {"sent", "failed"} => said[job.key] = a
    BY <2>2 DEF G!Answers, G!Follows, G!States
  <2> QED
    BY <1>2, <2>1, <2>2, <2>3, <2>4, DoneStep DEF Deliver
<1> QED
  BY <1>1, <1>2

(* A send arrives, or is lost.                                              *)
LEMMA MailStep ==
  ASSUME IInv, Arrive \/ Vanish
  PROVE  IInv'
<1> USE DEF IInv
<1>1. /\ mail' \cup arrived' \subseteq mail \cup arrived /\ arrived \subseteq arrived'
      /\ mail' \subseteq Keys /\ arrived' \subseteq Keys
      /\ UNCHANGED <<badge, job, said, about, asked>>
  BY DEF Arrive, Vanish, Types, gateway
<1>0. client' => client \/ (job.st = "waiting" /\ job.kind = "SEND")
  <2>1. CASE Arrive
    BY <2>1, Zenon DEF Arrive
  <2>2. CASE Vanish
    BY <2>2 DEF Vanish
  <2> QED
    BY <2>1, <2>2
<1>2. Types'
  BY <1>1 DEF Types, badge
<1>3. JobInv'
  BY <1>0, <1>1 DEF JobInv, OwnAnswer, Asks, badge
<1>4. KeyInv'
  BY <1>1 DEF KeyInv, badge
<1>5. GatewayInv'
  BY <1>1 DEF GatewayInv, G!ReceiptTruth
<1>6. FlashInv'
  BY <1>1 DEF FlashInv, Quiet, MayPost, badge
<1> QED
  BY <1>2, <1>3, <1>4, <1>5, <1>6

(* What the gateway does for one key.                                       *)
LEMMA GatewayKey ==
  ASSUME Types, GatewayInv, GatewayStep, NEW k \in Keys
  PROVE  /\ said'[k] \in G!States /\ asked'[k] \in G!Asked
         /\ said'[k] \in G!Follows[said[k]]
         /\ \/ asked'[k] = asked[k]
            \/ asked[k] = "no" /\ asked'[k] = "wire" /\ said[k] = "pending"
            \/ asked[k] = "wire" /\ asked'[k] \in {"made", "refused"}
         /\ said'[k] = "sent" => asked'[k] = "made"
         /\ said'[k] = "failed" => asked'[k] \in {"no", "refused"}
         /\ k \notin arrived => said'[k] = "none" /\ asked'[k] = "no"
<1> USE DEF Types, GatewayInv, G!ReceiptTruth
<1>1. k \notin arrived => said'[k] = "none" /\ said[k] = "none" /\ asked[k] = "no"
  BY DEF GatewayStep
<1>2. said[k] \in G!Follows[said[k]] /\ said[k] \in G!States /\ asked[k] \in G!Asked
  BY DEF G!Follows, G!States
<1>3. CASE G!Record
  BY <1>1, <1>2, <1>3 DEF G!Record, G!States
<1>4. CASE \E j \in Keys : G!Ask(j)
  BY <1>1, <1>2, <1>4 DEF G!Ask, G!Asked
<1>5. CASE \E j \in Keys : G!Decide(j)
  BY <1>1, <1>2, <1>5 DEF G!Decide, G!Asked
<1> QED
  BY <1>3, <1>4, <1>5 DEF GatewayStep, G!Next

(* So what it does leaves what was let go of quiet.                         *)
LEMMA GatewayStepInv ==
  ASSUME IInv, GatewayStep
  PROVE  IInv'
<1> USE DEF IInv
<1>1. UNCHANGED <<badge, job, net, arrived>>
  BY DEF GatewayStep
<1>2. said' \in [Keys -> G!States] /\ asked' \in [Keys -> G!Asked]
  <2>1. CASE G!Record
    BY <2>1 DEF G!Record, Types
  <2>2. CASE \E j \in Keys : G!Ask(j) \/ G!Decide(j)
    BY <2>2 DEF G!Ask, G!Decide, G!Asked, Types
  <2> QED
    BY <2>1, <2>2 DEF GatewayStep, G!Next
<1>3. Types'
  BY <1>1, <1>2 DEF Types, badge, net
<1>4. JobInv'
  BY <1>1 DEF JobInv, OwnAnswer, badge, net
<1>5. KeyInv'
  BY <1>1 DEF KeyInv, badge, net
<1>6. GatewayInv'
  <2>1. G!ReceiptTruth'
    BY GatewayKey DEF G!ReceiptTruth
  <2>2. \A k \in Keys \ arrived' : said'[k] = "none" /\ asked'[k] = "no"
    BY <1>1, GatewayKey
  <2>3. job'.ans \in {"sent", "failed"} => job'.key \in Keys /\ said'[job'.key] = job'.ans
    BY <1>1, GatewayKey DEF GatewayInv, G!Follows
  <2> QED
    BY <2>1, <2>2, <2>3 DEF GatewayInv
<1>7. FlashInv'
  <2> SUFFICES ASSUME NEW k \in Keys, saved # k
               PROVE  Quiet(k)' /\ (k \in mail \cup arrived => told[k] # "nothing")
    BY <1>1 DEF FlashInv, badge, net
  <2>1. Quiet(k) /\ (k \in mail \cup arrived => told[k] # "nothing")
    BY DEF FlashInv
  <2>2. told' = told /\ mail' = mail /\ arrived' = arrived
    BY <1>1 DEF badge, net
  <2>3. asked'[k] = asked[k]
    <3>1. asked[k] # "wire"
      BY <2>1 DEF Quiet, MayPost
    <3>2. asked[k] = "no" /\ said[k] = "pending" => k \in arrived
      BY DEF GatewayInv
    <3> QED
      BY <2>1, <3>1, <3>2, GatewayKey DEF Quiet, MayPost
  <2>4. said'[k] \in {"none", "pending"} => said[k] \in {"none", "pending"}
    BY GatewayKey DEF Types, G!Follows, G!States
  <2> QED
    BY <2>1, <2>2, <2>3, <2>4 DEF Quiet, MayPost
<1> QED
  BY <1>3, <1>4, <1>5, <1>6, <1>7

(* After a restart the key is what flash names.                             *)
LEMMA RebootStep ==
  ASSUME IInv, Reboot
  PROVE  IInv'
<1> USE DEF IInv
<1>1. /\ key' = Restore(saved) /\ blocked' = (saved = Corrupt) /\ req' = NoReq
      /\ job' = NoJob /\ client' = FALSE /\ stage' = "away"
      /\ UNCHANGED <<saved, used, told, mail, gateway>>
  BY DEF Reboot
<1>2. key' \in Keys \cup {NoKey} /\ (saved # Corrupt => saved' = key')
  BY <1>1 DEF Restore, Types
<1>3. Types'
  BY <1>1, <1>2, NoReqType, NoJobType DEF Types, gateway
<1>4. JobInv'
  BY <1>1, NoReqType, NoJobType DEF JobInv, OwnAnswer, Asks
<1>5. KeyInv'
  BY <1>1, <1>2, NoReqType, NoJobType DEF KeyInv, gateway
<1>6. GatewayInv'
  BY <1>1, NoJobType DEF GatewayInv, G!ReceiptTruth, gateway
<1>7. FlashInv'
  BY <1>1 DEF FlashInv, Quiet, MayPost, gateway
<1> QED
  BY <1>3, <1>4, <1>5, <1>6, <1>7

-----------------------------------------------------------------------------
(* A job that is waited for stays about its key, whatever the main task     *)
(* does meanwhile.                                                          *)
LEMMA WaitingJob ==
  ASSUME IInv, job.st = "waiting", job.kind \in Asks,
         UserStep \/ HandleVoiceReply \/ Drain \/ LinkChanges
  PROVE  job'.key = job.key
<1>1. job' \in {job, [job EXCEPT !.fresh = FALSE], Discarded(job)}
  <2>1. CASE UserStep
    BY <2>1 DEF UserStep, EnterVoiceReplies, LeaveVoiceReplies, CancelTap, Browse,
       StartRecording, ReviewedAllPages, BeginSend, CheckStatus, RefreshInbox,
       CancelRequest, Lose
  <2>2. CASE HandleVoiceReply
    BY <2>2 DEF HandleVoiceReply, ContextChanged, FinishRecording, StartFails,
       StartRequest, Consume, Ready, CancelRequest, Lose, Busy, Asks
  <2>3. CASE Drain \/ LinkChanges
    BY <2>3 DEF Drain, LinkChanges
  <2> QED
    BY <2>1, <2>2, <2>3
<1> QED
  BY <1>1 DEF IInv, Types, Jobs, Discarded

(* The invariant holds at first.                                            *)
LEMMA InvInit == Init => IInv
<1> SUFFICES ASSUME Init PROVE IInv
  OBVIOUS
<1>1. Types
  BY NoReqType, NoJobType DEF Init, G!Init, G!States, G!Asked, Types
<1>2. JobInv
  BY NoReqType, NoJobType DEF Init, JobInv, OwnAnswer, Asks
<1>3. KeyInv
  BY NoReqType, NoJobType DEF Init, KeyInv
<1>4. GatewayInv
  BY NoJobType DEF Init, G!Init, GatewayInv, G!ReceiptTruth
<1>5. FlashInv
  BY DEF Init, G!Init, FlashInv, Quiet, MayPost
<1> QED
  BY <1>1, <1>2, <1>3, <1>4, <1>5 DEF IInv

(* Every step keeps it.                                                     *)
LEMMA InvStep ==
  ASSUME BadgeAssumption
  PROVE  IInv /\ [Next]_vars => IInv'
<1> SUFFICES ASSUME IInv, [Next]_vars PROVE IInv'
  OBVIOUS
<1>1. CASE UNCHANGED vars
  BY <1>1 DEF vars, badge, net, gateway, IInv, Types, JobInv, OwnAnswer, KeyInv,
     GatewayInv, G!ReceiptTruth, FlashInv, Quiet, MayPost
<1> QED
  BY <1>1, BadgeStep, TransmitStep, WorkerStep, MailStep, GatewayStepInv, RebootStep
     DEF Next

(* The invariant holds, whatever the user, the network, flash and the       *)
(* gateway do.                                                              *)
THEOREM Invariant == ASSUME BadgeAssumption PROVE Spec => []IInv
  BY InvInit, InvStep, PTL DEF Spec

(* A key the badge has let go of posts nothing any more, and what the user  *)
(* was told of it is true.                                                  *)
THEOREM NothingLate == ASSUME BadgeAssumption PROVE Spec => []LetGo
<1>1. IInv => LetGo
  BY DEF IInv, Types, FlashInv, Quiet, LetGo
<1> QED
  BY <1>1, Invariant, PTL

(* A reply that was or may be posted is named in flash until the user has   *)
(* been told of it.                                                         *)
THEOREM FlashRemembers == ASSUME BadgeAssumption PROVE Spec => []ReceiptKept
<1>1. IInv => ReceiptKept
  BY DEF IInv, GatewayInv, FlashInv, Quiet, ReceiptKept
<1> QED
  BY <1>1, Invariant, PTL

(* A request consumes its own answer only.                                  *)
THEOREM AnswersAreOwn == ASSUME BadgeAssumption PROVE Spec => []OwnAnswer
<1>1. IInv => OwnAnswer
  BY DEF IInv, JobInv
<1> QED
  BY <1>1, Invariant, PTL
=============================================================================
