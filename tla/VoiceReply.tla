----------------------------- MODULE VoiceReply -----------------------------
(***************************************************************************)
(* devices_badge/voice_reply.h with its send gate and background_http.h,   *)
(* over what the gateway promises: a badge records a reply, shows its      *)
(* transcript, sends it once the user taps Send, and from then on asks for *)
(* the receipt of the one key it saved.  The main task owns everything but *)
(* the request its HTTPS worker is executing.  Networks lose and delay,    *)
(* sign-ins come and go, flash writes fail, and the badge restarts.        *)
(*                                                                         *)
(* The firmware's other users of the worker (sign-in, profile refresh)     *)
(* take it only while it is idle, as voice does, and are left out.         *)
(***************************************************************************)
CONSTANTS
  Keys,             \* the send keys this badge generates
  Targets, NoTarget,
  NoKey,
  Corrupt           \* a saved receipt that cannot be read back

\* The special keys are no keys.
BadgeAssumption ==
  NoKey \notin Keys /\ Corrupt \notin Keys /\ Corrupt # NoKey

VARIABLES
  gate,      \* VoiceSendGate: state_ and reviewed_
  key,       \* voiceKey
  saved,     \* NVS "voice_pending"
  blocked,   \* voiceStorageBlocked
  link,      \* "up": signed in as the owner and online; "down"; "other" sign-in
  stage,     \* voiceView.stage, or "away" from the replies screen
  bound,     \* voiceOwner is set
  capture,   \* voiceCaptureExpected
  req,       \* voiceRequest and voiceRequestStarted
  job,       \* the HTTPS worker's one job
  mail,      \* sends on their way to the gateway
  client,    \* the gateway has the request the job is waiting for
  said, about, asked,   \* the gateway's receipts and X, see ReplyPromise
  arrived,   \* keys the gateway was sent
  used, told \* history: keys generated, and what the user was told of them

badge  == <<gate, key, saved, blocked, link, stage, bound, capture, req, used, told>>
screen == <<stage, bound, capture>>
net    == <<mail, client>>
gateway == <<said, about, asked, arrived>>
vars   == <<badge, job, net, gateway>>

G == INSTANCE ReplyPromise

Kinds == {"INBOX", "TRANSCRIPTION", "SEND", "STATUS"}
NoReq == [kind |-> "NONE", started |-> FALSE]
NoJob == [kind |-> "NONE", st |-> "idle", discard |-> FALSE, ans |-> "none",
          key |-> NoKey, fresh |-> TRUE]

Init ==
  /\ G!Init /\ arrived = {}
  /\ gate = [state |-> "EMPTY", reviewed |-> FALSE]
  /\ key = NoKey /\ saved = NoKey /\ blocked = FALSE
  /\ link = "down" /\ stage = "away" /\ bound = FALSE /\ capture = FALSE
  /\ req = NoReq /\ job = NoJob
  /\ mail = {} /\ client = FALSE
  /\ used = {} /\ told = [k \in Keys |-> "nothing"]

-----------------------------------------------------------------------------
(* Helpers of the main task *)

Busy        == job.kind # "NONE"
Live        == link = "up"
SameContext == bound /\ link # "other"
Open(g)     == g.state \in {"IN_FLIGHT", "UNCERTAIN"}

Unresolved == blocked \/ key # NoKey \/ Open(gate)
CanRecord  == /\ Live /\ SameContext /\ ~Unresolved /\ ~Busy /\ req = NoReq

\* VoiceSendGate::receipt and transportUncertain.
Receipt(g, s) == IF Open(g) THEN [g EXCEPT !.state = s] ELSE g
Uncertain     == [state |-> "UNCERTAIN", reviewed |-> FALSE]

\* voiceForgetPending: a record that cannot be removed blocks the flow.
ForgetPending ==
  \/ key' = NoKey /\ saved' = NoKey /\ UNCHANGED blocked
  \/ saved # NoKey /\ blocked' = TRUE /\ UNCHANGED <<key, saved>>

Report(k, what) == told' = [told EXCEPT ![k] = what]

KeepReceipt == UNCHANGED <<key, saved, blocked, told>>

\* voiceError(..., voiceUnresolved()), after the cancellation.
ErrorScreen ==
  stage' = IF blocked' \/ key' # NoKey \/ Open(gate') THEN "unsure" ELSE "error"

\* voiceQueue: the request of before, started or not, is no longer waited for.
Queue(k) == req' = [kind |-> k, started |-> FALSE]
Lose     == job' = IF req.started THEN [job EXCEPT !.fresh = FALSE] ELSE job

\* BadgeBackgroundHttp::cancel on the request's own job.
Discarded(j) == IF j.st = "done" THEN NoJob
                ELSE [j EXCEPT !.discard = TRUE, !.fresh = FALSE]

\* voiceCancelRequest: a send that was started stays uncertain, and one that
\* was not has failed for sure.
CancelRequest ==
  /\ req' = NoReq
  /\ job' = IF req.started /\ job.kind = req.kind THEN Discarded(job) ELSE job
  /\ IF req.kind # "SEND" THEN KeepReceipt /\ UNCHANGED gate
     ELSE IF req.started
          THEN /\ gate' = IF gate.state = "IN_FLIGHT"
                          THEN [gate EXCEPT !.state = "UNCERTAIN"] ELSE gate
               /\ KeepReceipt
          ELSE /\ gate' = Receipt(gate, "FAILED")
               /\ ForgetPending /\ Report(key, "failed")

-----------------------------------------------------------------------------
(* What the user does *)

\* voiceRefreshInbox
RefreshInbox ==
  IF Unresolved \/ ~Live
  THEN /\ stage' = IF Unresolved THEN "unsure" ELSE "error"
       /\ UNCHANGED <<bound, req, job>>
  ELSE stage' = "waiting" /\ bound' = TRUE /\ Queue("INBOX") /\ Lose

\* The menu, or the USB command "open" on any screen.
EnterVoiceReplies ==
  /\ RefreshInbox
  /\ UNCHANGED <<gate, key, saved, blocked, link, capture, used, told>>

\* Back, both buttons, or any command for another screen.
LeaveVoiceReplies ==
  /\ stage # "away"
  /\ CancelRequest
  /\ stage' = "away" /\ bound' = FALSE /\ capture' = FALSE
  /\ UNCHANGED <<link, used>>

CancelTap ==
  /\ stage \in {"recording", "transcribing"}
  /\ CancelRequest
  /\ stage' = "inbox" /\ capture' = FALSE
  /\ UNCHANGED <<link, bound, used>>

\* Refresh, Try again, Record again, and paging through the mentions.
Browse ==
  /\ stage \in {"inbox", "review", "error", "sent"}
  /\ req = NoReq /\ ~capture /\ ~Unresolved
  /\ \/ stage \in {"error", "inbox", "sent"} /\ RefreshInbox
     \/ stage # "sent" /\ stage' = "inbox" /\ UNCHANGED <<bound, req, job>>
  /\ UNCHANGED <<gate, key, saved, blocked, link, capture, used, told>>

StartRecording ==
  /\ stage \in {"inbox", "review"} /\ CanRecord /\ ~capture
  /\ stage' = "recording" /\ capture' = TRUE
  /\ UNCHANGED <<gate, key, saved, blocked, link, bound, req, used, told, job>>

ReviewedAllPages ==
  /\ stage = "review" /\ gate.state = "DRAFT"
  /\ gate' = [gate EXCEPT !.reviewed = TRUE]
  /\ UNCHANGED <<key, saved, blocked, link, screen, req, used, told, job>>

\* Mutant: the write is not read back.
Unverified(k) == {k, saved}

\* What flash holds once voicePersistPending has returned true.
Persisted(k) == {k}

\* voiceBeginSend: the key is in flash before anything is queued.  The sign-in
\* may expire while it is being written.
BeginSend ==
  /\ stage = "review" /\ gate.state = "DRAFT" /\ gate.reviewed
  /\ Live /\ SameContext /\ ~Unresolved
  /\ \E k \in Keys \ used :
       /\ key' = k /\ used' = used \cup {k}
       /\ \/ /\ saved' \in Persisted(k) /\ Queue("SEND") /\ stage' = "waiting"
             /\ gate' = [gate EXCEPT !.state = "IN_FLIGHT"]
             /\ UNCHANGED <<blocked, link>>
          \/ /\ saved' \in Persisted(k) /\ stage' = "unsure" /\ link' = "down"
             /\ UNCHANGED <<gate, blocked, req>>
          \/ /\ saved' \in {saved, k, Corrupt} /\ blocked' = TRUE
             /\ gate' = Uncertain /\ stage' = "unsure"
             /\ UNCHANGED <<link, req>>
  /\ UNCHANGED <<bound, capture, told, job>>

CheckStatus ==
  /\ stage = "unsure"
  /\ ~blocked /\ key # NoKey /\ Live
  /\ bound' = TRUE /\ stage' = "waiting" /\ Queue("STATUS") /\ Lose
  /\ UNCHANGED <<gate, key, saved, blocked, link, capture, used, told>>

-----------------------------------------------------------------------------
(* handleVoiceReply, a branch at a time *)

ContextChanged ==
  /\ stage # "away" /\ ~SameContext
  /\ bound \/ capture \/ req # NoReq
  /\ CancelRequest /\ ErrorScreen
  /\ bound' = FALSE /\ capture' = FALSE
  /\ UNCHANGED <<link, used>>

\* The clip is taken, or is too short, or the sign-in went meanwhile.
FinishRecording ==
  /\ stage # "away" /\ capture /\ SameContext
  /\ capture' = FALSE
  /\ \/ Live /\ stage' = "transcribing" /\ Queue("TRANSCRIPTION") /\ Lose
     \/ stage' = "error" /\ UNCHANGED <<req, job>>
  /\ UNCHANGED <<gate, key, saved, blocked, link, bound, used, told>>

\* A request that waits for the worker gives up with the sign-in, or could not
\* be handed over; nothing was sent.
StartFails ==
  /\ stage # "away" /\ SameContext /\ req # NoReq /\ ~req.started
  /\ ~Live \/ (~Busy /\ req.kind = "SEND")
  /\ CancelRequest /\ ErrorScreen
  /\ UNCHANGED <<link, bound, capture, used>>

Handed == [NoJob EXCEPT !.kind = req.kind, !.st = "queued", !.key = key]

\* Mutant: without the test of busy(), the request joins a job of its kind.
StartOrJoin ==
  /\ stage # "away" /\ SameContext /\ req # NoReq /\ ~req.started /\ Live
  /\ Busy => job.kind = req.kind
  /\ req' = [req EXCEPT !.started = TRUE]
  /\ job' = IF Busy THEN job ELSE Handed
  /\ UNCHANGED <<gate, key, saved, blocked, link, screen, used, told>>

\* pollOrStart with no job active.
StartRequest ==
  /\ stage # "away" /\ SameContext /\ req # NoReq /\ ~req.started /\ Live /\ ~Busy
  /\ req' = [req EXCEPT !.started = TRUE]
  /\ job' = Handed
  /\ UNCHANGED <<gate, key, saved, blocked, link, screen, used, told>>

\* Mutant: a receipt nobody knows of is taken for a failed one.
FinalOrAbsent(a) == a \in {"sent", "failed", "absent"}

Final(a) == a \in {"sent", "failed"}

\* voiceReceiptResult
ConsumeReceipt ==
  LET sent == job.ans = "sent"
  IN  IF link # "other" /\ job.key = key /\ Final(job.ans)
      THEN /\ gate' = Receipt(gate, IF sent THEN "SENT" ELSE "FAILED")
           /\ ForgetPending /\ Report(key, IF sent THEN "sent" ELSE "failed")
           /\ stage' = IF sent THEN "sent" ELSE "error"
      ELSE /\ gate' = Receipt(gate, "UNCERTAIN")
           /\ stage' = "unsure" /\ KeepReceipt

ConsumeOther ==
  /\ \/ job.kind = "INBOX" /\ stage' \in {"inbox", "error"} /\ UNCHANGED gate
     \/ job.kind = "TRANSCRIPTION" /\ stage' = "error" /\ UNCHANGED gate
     \/ job.kind = "TRANSCRIPTION" /\ job.ans = "text"
        /\ IF Open(gate) THEN stage' = "unsure" /\ UNCHANGED gate
           ELSE stage' = "review" /\ gate' = [state |-> "DRAFT", reviewed |-> FALSE]
  /\ KeepReceipt

\* What pollOrStart hands over: a completed job of the kind asked for.
Ready(j) == req.started /\ j.kind = req.kind /\ j.st = "done" /\ ~j.discard

Consume ==
  /\ stage # "away" /\ SameContext /\ Ready(job)
  /\ req' = NoReq /\ job' = NoJob
  /\ IF job.kind \in {"SEND", "STATUS"} THEN ConsumeReceipt ELSE ConsumeOther
  /\ UNCHANGED <<link, bound, capture, used>>

\* collect() drops the result of a cancelled job.
Drain ==
  /\ job.st = "done" /\ job.discard
  /\ job' = NoJob
  /\ UNCHANGED badge

HandleVoiceReply ==
  ContextChanged \/ FinishRecording \/ StartFails \/ StartRequest \/ Consume

UserStep ==
  \/ EnterVoiceReplies \/ LeaveVoiceReplies \/ CancelTap \/ Browse
  \/ StartRecording \/ ReviewedAllPages \/ BeginSend \/ CheckStatus

\* Wi-Fi, expiry and renewal of the session, another sign-in.
LinkChanges ==
  /\ link' \in {"up", "down", "other"} \ {link}
  /\ UNCHANGED <<gate, key, saved, blocked, screen, req, used, told, job>>

-----------------------------------------------------------------------------
(* The worker, the network and the gateway *)

\* execute() sends, and waits for at most a minute.  A status request changes
\* nothing on its way, so only sends are letters.
Transmit ==
  /\ job.st = "queued" /\ job.kind \in {"SEND", "STATUS"}
  /\ job' = [job EXCEPT !.st = "waiting"]
  /\ IF job.kind = "SEND" THEN mail' = mail \cup {job.key} /\ UNCHANGED client
                          ELSE client' = TRUE /\ UNCHANGED mail
  /\ UNCHANGED <<badge, gateway>>

\* No connection, the deadline, a broken answer; or the inbox and the
\* transcription service, which say something.
WorkerDone ==
  /\ \/ /\ job.st \in {"queued", "waiting"}
        /\ job' = [job EXCEPT !.st = "done", !.ans = "error"]
     \/ /\ job.st = "queued" /\ job.kind = "TRANSCRIPTION"
        /\ job' = [job EXCEPT !.st = "done", !.ans = "text"]
  /\ client' = FALSE /\ UNCHANGED <<badge, mail, gateway>>

\* A send reaches the gateway, perhaps when nobody waits for it any more.
Arrive ==
  \E k \in mail :
    /\ mail' = mail \ {k} /\ arrived' = arrived \cup {k}
    /\ client' = (client \/ (job.st = "waiting" /\ job.kind = "SEND" /\ job.key = k))
    /\ UNCHANGED <<badge, job, said, about, asked>>

Vanish ==
  /\ mail # {} /\ mail' = {}
  /\ UNCHANGED <<badge, job, client, gateway>>

Deliver ==
  /\ client /\ client' = FALSE
  /\ \E a \in G!Answers(job.key) : job' = [job EXCEPT !.st = "done", !.ans = a]
  /\ UNCHANGED <<badge, mail, gateway>>

\* The gateway keeps its promise, for the keys it was sent.
GatewayStep ==
  /\ G!Next
  /\ \A k \in Keys \ arrived : said'[k] = "none"
  /\ UNCHANGED <<badge, job, net, arrived>>

Restore(s) == IF s = Corrupt THEN NoKey ELSE s

\* setupVoiceReply: the saved receipt comes back as one to be checked.
Reboot ==
  /\ key' = Restore(saved)
  /\ blocked' = (saved = Corrupt)
  /\ gate' = IF saved = NoKey THEN [state |-> "EMPTY", reviewed |-> FALSE] ELSE Uncertain
  /\ link' = "down" /\ stage' = "away" /\ bound' = FALSE /\ capture' = FALSE
  /\ req' = NoReq /\ job' = NoJob /\ client' = FALSE
  /\ UNCHANGED <<saved, used, told, mail, gateway>>

Badge == (UserStep \/ HandleVoiceReply \/ Drain \/ LinkChanges) /\ UNCHANGED <<net, gateway>>

Next == \/ Badge \/ Transmit \/ WorkerDone
        \/ Arrive \/ Vanish \/ Deliver \/ GatewayStep \/ Reboot

Spec == Init /\ [][Next]_vars

\* The main loop comes round, and a request ends within a minute.
Rest == UNCHANGED <<net, gateway>>
FairSpec ==
  /\ Spec
  /\ WF_vars(HandleVoiceReply /\ Rest) /\ WF_vars(Drain /\ Rest)
  /\ WF_vars(WorkerDone)

-----------------------------------------------------------------------------
(* Properties *)

\* X may still be asked, or is being asked, to post the reply of k.
MayPost(k) ==
  \/ asked[k] = "wire"
  \/ /\ asked[k] = "no" /\ said[k] \in {"none", "pending"}
     /\ k \in arrived \cup mail

\* A key the badge has let go of posts nothing any more: no reply turns up
\* later, and no second send starts while the first may still be posted.  And
\* what the user was told of it is true: "sent" was posted, "failed" was not,
\* nor was a send called off with "nothing was submitted" (voice_reply.h:137).
LetGo ==
  \A k \in used \ {key} : saved # k =>
    /\ ~MayPost(k)
    /\ told[k] = "sent" => asked[k] = "made"
    /\ told[k] # "sent" => asked[k] \in {"no", "refused"}

\* A reply that was or may be posted, and of which the user has not been told
\* so, is still named in flash, whatever writes failed and however often the
\* badge restarted.
ReceiptKept ==
  \A k \in Keys :
    told[k] = "nothing" /\ (asked[k] # "no" \/ MayPost(k)) => saved = k

\* A request that was started keeps the worker to itself, so the result handed
\* over is its own, never that of one that was cancelled or replaced; that the
\* job is another's (voice_reply.h:328) cannot happen (background_http.h:297).
OwnAnswer == req.started => job.kind = req.kind /\ job.fresh /\ ~job.discard

\* The worker serves one request at a time for the whole firmware, and a job
\* comes to an end: "The bounded request finishes, then its obsolete result is
\* scrubbed. A new job may start only after that completion has been drained."
\* (background_http.h:63).
WorkerFreed == Busy ~> ~Busy

TypeOK ==
  /\ G!TypeOK /\ arrived \subseteq Keys
  /\ gate \in [state : {"EMPTY", "DRAFT", "IN_FLIGHT", "UNCERTAIN", "SENT", "FAILED"},
               reviewed : BOOLEAN]
  /\ key \in Keys \cup {NoKey} /\ saved \in Keys \cup {NoKey, Corrupt}
  /\ blocked \in BOOLEAN /\ link \in {"up", "down", "other"}
  /\ stage \in {"away", "waiting", "inbox", "recording", "transcribing", "review",
               "unsure", "error", "sent"}
  /\ bound \in BOOLEAN /\ capture \in BOOLEAN
  /\ req \in [kind : Kinds \cup {"NONE"}, started : BOOLEAN]
  /\ job \in [kind : Kinds \cup {"NONE"}, st : {"idle", "queued", "waiting", "done"},
              discard : BOOLEAN, key : Keys \cup {NoKey}, fresh : BOOLEAN,
              ans : G!States \cup {"error", "absent", "text"}]
  /\ mail \subseteq Keys
  /\ client \in BOOLEAN
  /\ used \subseteq Keys
  /\ told \in [Keys -> {"nothing", "sent", "failed"}]
=============================================================================
