----------------------------- MODULE VoiceSystem -----------------------------
(***************************************************************************)
(* A voice reply from the badge's button to X: the badge of VoiceReply and  *)
(* the ledger of ReplyLedger, with the gateway's routes (gateway/src/       *)
(* index.ts) between them in place of what VoiceReply assumes of them.  A   *)
(* request of the worker becomes a call of the ledger, whose answer is the  *)
(* badge's if its worker still waits; other badges of the same owner send   *)
(* and ask at the same time, and the ledger may die under any call.         *)
(***************************************************************************)
EXTENDS ReplyLedger

CONSTANTS
  Mine,     \* the send keys this badge generates
  Corrupt   \* see VoiceReply

VARIABLES
  gate, key, saved, blocked, link, stage, bound, capture, req, used, told,
  job, mail, arrived,   \* see VoiceReply
  request,  \* of the worker's job: "none" at the gateway, on its "road" there,
            \* in a "call" of the ledger, or "lost" with one
  server    \* the call that serves it, if any

V == INSTANCE VoiceReply WITH
       Keys   <- Mine,
       client <- request # "none",
       said   <- [k \in Mine |-> disk.rows[k].state],
       about  <- [k \in Mine |-> disk.rows[k].target],
       asked  <- [k \in Mine |-> asked[k]]

device == <<gate, key, saved, blocked, link, stage, bound, capture, req, used, told>>
routes == <<mail, arrived, request, server>>
system == <<vars, device, job, routes>>

\* The badge's keys are keys, and not the special ones of VoiceReply.
ASSUME OwnKeys ==
  /\ Mine \subseteq Keys
  /\ NoKey \notin Mine /\ Corrupt \notin Mine /\ Corrupt # NoKey

SystemInit == /\ Init /\ request = "none" /\ server = {}
              /\ V!Init

-----------------------------------------------------------------------------
(* The badge and its worker *)

\* The main task has no part in what is under way.
MainTask ==
  /\ UNCHANGED <<vars, routes>>
  /\ V!UserStep \/ V!HandleVoiceReply \/ V!Drain \/ V!LinkChanges

Transmit ==
  /\ request' = IF job.kind = "STATUS" THEN "road" ELSE request
  /\ UNCHANGED <<vars, server>>
  /\ V!Transmit

\* The worker stops waiting, and nobody will hear the answer.
WorkerDone ==
  /\ request' = "none" /\ server' = {}
  /\ UNCHANGED vars
  /\ V!WorkerDone

Vanish ==
  /\ UNCHANGED <<vars, request, server>>
  /\ V!Vanish

Reboot ==
  /\ request' = "none" /\ server' = {}
  /\ UNCHANGED vars
  /\ V!Reboot

-----------------------------------------------------------------------------
(* The routes *)

\* POST /v1/x/replies, perhaps when the worker has stopped waiting for it.
TakeSend(c) ==
  \E k \in mail, t \in Targets, x \in Texts :
    /\ Receive(c, "send", k, t, x)
    /\ mail' = mail \ {k} /\ arrived' = arrived \cup {k}
    /\ IF job.st = "waiting" /\ job.kind = "SEND" /\ job.key = k
       THEN request' = "call" /\ server' = {c} ELSE UNCHANGED <<request, server>>
    /\ UNCHANGED <<device, job>>

\* GET /v1/x/replies/status
TakeStatus(c) ==
  /\ request = "road"
  /\ \E t \in Targets, x \in Texts : Receive(c, "status", job.key, t, x)
  /\ request' = "call" /\ server' = {c}
  /\ UNCHANGED <<device, job, mail, arrived>>

\* The same routes, for other badges of this owner; no two generate one key.
TakeOther(c) ==
  /\ \E op \in {"send", "status"}, k \in Keys \ Mine, t \in Targets, x \in Texts :
       Receive(c, op, k, t, x)
  /\ UNCHANGED <<device, job, routes>>

\* The answer reaches the worker, if it is the one it waits for.
Return(c) ==
  /\ Reply(c)
  /\ IF c \in server
     THEN /\ job' = [job EXCEPT !.st = "done", !.ans = call[c].ans]
          /\ request' = "none" /\ server' = {}
     ELSE UNCHANGED <<job, request, server>>
  /\ UNCHANGED <<device, mail, arrived>>

Ledger ==
  /\ (\E c \in Calls : CallStep(c)) \/ Platform
  /\ UNCHANGED <<device, job, routes>>

Die ==
  /\ Crash
  /\ request' = IF request = "call" THEN "lost" ELSE request
  /\ server' = {}
  /\ UNCHANGED <<device, job, mail, arrived>>

AloneNext ==
  \/ MainTask \/ Transmit \/ WorkerDone \/ Vanish \/ Reboot
  \/ \E c \in Calls : TakeSend(c) \/ TakeStatus(c) \/ Return(c)
  \/ Ledger \/ Die

SystemNext == AloneNext \/ \E c \in Calls : TakeOther(c)

SystemSpec == SystemInit /\ [][SystemNext]_system

-----------------------------------------------------------------------------
(* Properties *)

\* The ledger is all the badge was promised: with it and its routes in place
\* of the promise, whatever crashes, loses or repeats, the badge behaves as
\* VoiceReply says.
ServesBadge == V!Spec

\* So, end to end: a reply the badge has let go of posts nothing any more,
\* and what the user was told of it is what X did;
LetGo == V!LetGo

\* one that was or may be posted is named in flash until the user is told;
ReceiptKept == V!ReceiptKept

\* and what is told comes from the answer to the request it is about.
OwnAnswer == V!OwnAnswer
=============================================================================
