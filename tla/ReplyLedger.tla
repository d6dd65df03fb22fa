----------------------------- MODULE ReplyLedger -----------------------------
(***************************************************************************)
(* gateway/src/ledger.ts: the Durable Object that keeps one owner's receipts *)
(* and posts replies to X.  Calls run concurrently between their awaits;     *)
(* the SQL store is in memory (db) and becomes durable (disk) as a whole     *)
(* some time later, in order.  The object may die at any moment: db falls    *)
(* back to disk, calls vanish, and what X was sent stays sent.  The sender   *)
(* is one, so the guard is per target.  limits, a table of counters, is      *)
(* abstracted to the choice of what it lets through.                         *)
(***************************************************************************)
EXTENDS Naturals

CONSTANTS
  Keys, Targets, NoTarget,
  Texts,   \* what a reply says
  NoText,
  NoKey,
  Calls    \* bound: calls of status or send in progress at once

ASSUME LedgerAssumption ==
  /\ NoKey \notin Keys /\ NoTarget \notin Targets /\ NoText \notin Texts

VARIABLES
  db,     \* rows: the receipts table; guard: the targets table
  disk,   \* the durable copy of db
  late,   \* keys whose row was last updated over 90 s ago
  asked,  \* what X was asked for a key, and did
  call

vars == <<db, disk, late, asked, call>>

States == {"none", "pending", "unknown", "sent", "failed"}
NoRow  == [state |-> "none", target |-> NoTarget, text |-> NoText]
Rows   == [state : States, target : Targets \cup {NoTarget}, text : Texts \cup {NoText}]
Stores == [rows : [Keys -> Rows], guard : [Targets -> Keys \cup {NoKey}]]

Idle == [pc |-> "idle", op |-> "status", key |-> NoKey, target |-> NoTarget,
         text |-> NoText, ans |-> "none"]

Init ==
  /\ db = [rows |-> [k \in Keys |-> NoRow], guard |-> [t \in Targets |-> NoKey]]
  /\ disk = db
  /\ late = {}
  /\ asked = [k \in Keys |-> "no"]
  /\ call = [c \in Calls |-> Idle]

-----------------------------------------------------------------------------
(* Helpers *)

Row(c) == db.rows[call[c].key]

Step(c, pc) == call' = [call EXCEPT ![c].pc = pc]
Answer(c, a) == call' = [call EXCEPT ![c].pc = "reply", ![c].ans = a]

\* A failure takes its own guard away.
Save(k, s) ==
  db' = [rows  |-> [db.rows EXCEPT ![k].state = s],
         guard |-> [t \in Targets |->
                      IF s = "failed" /\ t = db.rows[k].target /\ db.guard[t] = k
                      THEN NoKey ELSE db.guard[t]]]

Rank == [none |-> 0, pending |-> 1, unknown |-> 2, sent |-> 3, failed |-> 3]

\* Mutant: the write is not awaited.
NotAwaited(k, a) == TRUE

\* What call answers a with has been made durable: sync() has returned, and
\* the platform holds an answer back until the writes before it are.
Durable(k, a) == Rank[disk.rows[k].state] >= Rank[a]

-----------------------------------------------------------------------------
(* A call *)

\* Anyone holding the owner's session; op is "send" or "status".
Receive(c, op, k, t, x) ==
  /\ call[c].pc = "idle"
  /\ call' = [call EXCEPT ![c] = [pc |-> "look", op |-> op, key |-> k,
                                  target |-> t, text |-> x, ans |-> "none"]]
  /\ UNCHANGED <<db, disk, late, asked>>

\* Authentication, a limit or the digest's await ends the call unanswered.
Refuse(c) ==
  /\ call[c].pc = "look"
  /\ Answer(c, "error")
  /\ UNCHANGED <<db, disk, late, asked>>

\* status, and send when its row is already there.  Time can only make a
\* pending row unknown.
Tell(c) ==
  /\ call[c].pc = "look" /\ Row(c).state # "none"
  /\ call[c].op = "send" => /\ Row(c).target = call[c].target
                            /\ Row(c).text = call[c].text
  /\ LET k == call[c].key
         lapsed == Row(c).state = "pending" /\ k \in late
     IN  /\ Answer(c, IF lapsed THEN "unknown" ELSE Row(c).state)
         /\ IF lapsed THEN Save(k, "unknown") ELSE UNCHANGED db
  /\ UNCHANGED <<disk, late, asked>>

\* No row is no evidence that X was not asked: the answer says only that.
TellAbsent(c) ==
  /\ call[c].pc = "look" /\ call[c].op = "status" /\ Row(c).state = "none"
  /\ Answer(c, "absent")
  /\ UNCHANGED <<db, disk, late, asked>>

\* The same key for another reply.
Conflict(c) ==
  /\ call[c].pc = "look" /\ call[c].op = "send" /\ Row(c).state # "none"
  /\ Row(c).target # call[c].target \/ Row(c).text # call[c].text
  /\ Answer(c, "error")
  /\ UNCHANGED <<db, disk, late, asked>>

Guarded(t) == db.guard[t] # NoKey

\* A new row, and with it the guard of its target, in one transaction.
Insert(c) ==
  /\ call[c].pc = "look" /\ call[c].op = "send" /\ Row(c).state = "none"
  /\ LET k == call[c].key
         t == call[c].target
     IN  \E s \in IF Guarded(t) THEN {"failed"} ELSE {"pending", "failed"} :
           /\ db' = [rows  |-> [db.rows EXCEPT ![k] =
                                  [state |-> s, target |-> t, text |-> call[c].text]],
                     guard |-> IF s = "pending" THEN [db.guard EXCEPT ![t] = k]
                                                ELSE db.guard]
           /\ late' = late \ {k}
           /\ IF s = "pending" THEN Step(c, "sync") ELSE Answer(c, "failed")
  /\ UNCHANGED <<disk, asked>>

Synced(c) ==
  /\ call[c].pc = "sync" /\ Durable(call[c].key, "pending")
  /\ Step(c, "verify")
  /\ UNCHANGED <<db, disk, late, asked>>

Finish(c, s) ==
  /\ Save(call[c].key, s) /\ Answer(c, s)
  /\ UNCHANGED <<disk, late, asked>>

\* The text, the access, the connection, the sender, the target or the deadline.
PrepareFails(c) == call[c].pc = "verify" /\ Finish(c, "failed")

\* The deadline of the route is far below 90 s.
Dispatch(c) ==
  /\ call[c].pc = "verify" /\ call[c].key \notin late
  /\ asked' = [asked EXCEPT ![call[c].key] = "wire"]
  /\ Step(c, "posting")
  /\ UNCHANGED <<db, disk, late>>

\* Mutant: an answer that does not confirm the reply counts as a failure.
Pessimist(a) == IF a = "made" THEN {"sent", "unknown"} ELSE {"failed"}

\* What may be learnt of X: the reply, a definitive refusal, or neither (a
\* lost answer, 408, 409, 425, 5xx, an answer without a post id).
Outcomes(a) == CASE a = "made"    -> {"sent", "unknown"}
                 [] a = "refused" -> {"failed", "unknown"}
                 [] OTHER         -> {"unknown"}

HearX(c) ==
  /\ call[c].pc = "posting"
  /\ \E s \in Outcomes(asked[call[c].key]) : Finish(c, s)

Reply(c) ==
  /\ call[c].pc = "reply"
  /\ call[c].ans \in States => Durable(call[c].key, call[c].ans)
  /\ call' = [call EXCEPT ![c] = Idle]
  /\ UNCHANGED <<db, disk, late, asked>>

CallStep(c) ==
  \/ Refuse(c) \/ Tell(c) \/ TellAbsent(c) \/ Conflict(c) \/ Insert(c)
  \/ Synced(c) \/ PrepareFails(c) \/ Dispatch(c) \/ HearX(c)

-----------------------------------------------------------------------------
(* The platform, X and time *)

Flush ==
  /\ disk # db /\ disk' = db
  /\ UNCHANGED <<db, late, asked, call>>

Crash ==
  /\ db' = disk
  /\ call' = [c \in Calls |-> Idle]
  /\ UNCHANGED <<disk, late, asked>>

\* X acts on what it was sent, perhaps long after the gateway stopped waiting.
DecideX(k) ==
  /\ asked[k] = "wire"
  /\ asked' \in {[asked EXCEPT ![k] = a] : a \in {"made", "refused"}}
  /\ UNCHANGED <<db, disk, late, call>>

\* A post is over within the route's 50 s.
Age(k) ==
  /\ db.rows[k].state = "pending" /\ k \notin late
  /\ \A c \in Calls : call[c].key = k => call[c].pc # "posting"
  /\ late' = late \cup {k}
  /\ UNCHANGED <<db, disk, asked, call>>

Platform == Flush \/ (\E k \in Keys : DecideX(k) \/ Age(k))

Next ==
  \/ \E c \in Calls :
       \/ \E op \in {"send", "status"}, k \in Keys, t \in Targets, x \in Texts :
            Receive(c, op, k, t, x)
       \/ CallStep(c) \/ Reply(c)
  \/ Platform \/ Crash

Spec == Init /\ [][Next]_vars

-----------------------------------------------------------------------------
(* Properties *)

P == INSTANCE ReplyPromise WITH
       said  <- [k \in Keys |-> disk.rows[k].state],
       about <- [k \in Keys |-> disk.rows[k].target]

\* Calls that race, crashes between any two steps and an X that answers late,
\* twice unclearly or never keep the promise: one post per key and per
\* target, after its receipt is durable; final receipts are true.
Promise == P!Spec

\* An answer that can be given tells what the durable receipt says, or said
\* before: no call hands out a receipt that a crash or a later call undoes.
AnswerHolds ==
  \A c \in Calls :
    call[c].pc = "reply" /\ (call[c].ans \in States => Durable(call[c].key, call[c].ans))
      => call[c].ans \in P!Answers(call[c].key)

TypeOK ==
  /\ db \in Stores /\ disk \in Stores /\ late \subseteq Keys
  /\ asked \in [Keys -> {"no", "wire", "made", "refused"}]
  /\ call \in [Calls -> [pc : {"idle", "look", "sync", "verify", "posting", "reply"},
                         op : {"send", "status"}, key : Keys \cup {NoKey},
                         target : Targets \cup {NoTarget}, text : Texts \cup {NoText},
                         ans : States \cup {"error", "absent"}]]
=============================================================================
