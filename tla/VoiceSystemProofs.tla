-------------------------- MODULE VoiceSystemProofs --------------------------
(***************************************************************************)
(* ReplyLedger keeps ReplyPromise; the badge over the ledger behaves as the *)
(* badge over the promise, and the ledger under it as the ledger alone; for *)
(* any keys, posts, texts and calls and any number of other badges.         *)
(***************************************************************************)
EXTENDS VoiceSystem, TLAPS

-----------------------------------------------------------------------------
(* The ledger alone *)


InSend == {"sync", "verify", "posting"}

(* The inductive invariant.  A live row holds the guard of its target, in   *)
(* memory and on disk.                                                      *)
Guards(s) ==
  \A k \in Keys : s.rows[k].state \in P!Live =>
    s.rows[k].target \in Targets /\ s.guard[s.rows[k].target] = k

(* Memory is ahead of disk: a receipt that may follow, about the same post. *)
Ahead ==
  \A k \in Keys :
    /\ db.rows[k].state \in P!Follows[disk.rows[k].state]
    /\ disk.rows[k].state # "none" => db.rows[k].target = disk.rows[k].target

(* X is asked only for a durable row, and a final row is what X did.        *)
AskedInv ==
  \A k \in Keys :
    /\ asked[k] # "no" => disk.rows[k].state # "none"
    /\ asked[k] = "wire" => db.rows[k].state \in {"pending", "unknown"}
    /\ db.rows[k].state = "sent" => asked[k] = "made"
    /\ db.rows[k].state = "failed" => asked[k] \in {"no", "refused"}

(* A row belongs to the one call that sends it, until it is answered.       *)
SendInv ==
  \A c \in Calls :
    /\ call[c].pc # "idle" =>
         call[c].key \in Keys /\ call[c].target \in Targets /\ call[c].text \in Texts
    /\ call[c].pc \in {"sync", "verify"} =>
         /\ asked[call[c].key] = "no"
         /\ db.rows[call[c].key].state \in {"pending", "unknown"}
         /\ call[c].key \notin late => db.rows[call[c].key].state = "pending"
    /\ call[c].pc \in {"verify", "posting"} => disk.rows[call[c].key].state # "none"
    /\ call[c].pc = "posting" =>
         /\ asked[call[c].key] # "no" /\ call[c].key \notin late
         /\ db.rows[call[c].key].state = "pending"

OneSender ==
  \A c, d \in Calls :
    call[c].pc \in InSend /\ call[d].pc \in InSend /\ call[c].key = call[d].key => c = d

(* What a call will answer is what its row says, or said before.            *)
AnswerInv ==
  \A c \in Calls :
    call[c].pc = "reply" /\ call[c].ans \in States =>
      call[c].ans # "none" /\ db.rows[call[c].key].state \in P!Follows[call[c].ans]

IInv == /\ TypeOK /\ Guards(db) /\ Guards(disk) /\ Ahead /\ AskedInv
        /\ SendInv /\ OneSender /\ AnswerInv

(* A call, typed.                                                           *)

Records == [pc : {"idle", "look", "sync", "verify", "posting", "reply"},
            op : {"send", "status"}, key : Keys \cup {NoKey},
            target : Targets \cup {NoTarget}, text : Texts \cup {NoText},
            ans : States \cup {"error", "absent"}]

(* A step of a call keeps its type.                                         *)
LEMMA StepType ==
  ASSUME call \in [Calls -> Records], NEW c \in Calls,
         NEW p \in {"idle", "look", "sync", "verify", "posting", "reply"}, Step(c, p)
  PROVE  call' \in [Calls -> Records]
<1> DEFINE r == [pc |-> p, op |-> call[c].op, key |-> call[c].key,
                 target |-> call[c].target, text |-> call[c].text, ans |-> call[c].ans]
<1>1. r \in Records
  BY DEF Records
<1>2. [call[c] EXCEPT !.pc = p] = r
  BY DEF Records
<1>3. call' = [call EXCEPT ![c] = r]
  BY <1>2 DEF Step
<1> QED
  BY <1>1, <1>3

(* So does its answer.                                                      *)
LEMMA AnswerType ==
  ASSUME call \in [Calls -> Records], NEW c \in Calls,
         NEW a \in States \cup {"error", "absent"}, Answer(c, a)
  PROVE  call' \in [Calls -> Records]
<1>1. [call[c] EXCEPT !.pc = "reply", !.ans = a] \in Records
  <2>1. [call[c] EXCEPT !.pc = "reply"] \in Records
    BY DEF Records
  <2> QED
    BY <2>1 DEF Records
<1>2. call' = [call EXCEPT ![c] = [call[c] EXCEPT !.pc = "reply", !.ans = a]]
  BY Zenon DEF Answer
<1> QED
  BY <1>1, <1>2

(* What a save changes: one state, and the guard of a failure.              *)
LEMMA SaveType ==
  ASSUME db \in Stores, NEW k \in Keys, NEW s \in States, Save(k, s)
  PROVE  /\ db' \in Stores
         /\ \A j \in Keys : /\ db'.rows[j].target = db.rows[j].target
                            /\ db'.rows[j].state = IF j = k THEN s ELSE db.rows[j].state
         /\ \A t \in Targets :
              db'.guard[t] = IF s = "failed" /\ t = db.rows[k].target /\ db.guard[t] = k
                             THEN NoKey ELSE db.guard[t]
  BY DEF Save, Stores, Rows, States

(* What a new row changes.                                                  *)
LEMMA RowAdded ==
  ASSUME db \in Stores, NEW k \in Keys, NEW r \in Rows,
         NEW g \in [Targets -> Keys \cup {NoKey}],
         db' = [rows |-> [db.rows EXCEPT ![k] = r], guard |-> g]
  PROVE  /\ db' \in Stores /\ db'.guard = g
         /\ \A j \in Keys : db'.rows[j] = IF j = k THEN r ELSE db.rows[j]
  BY DEF Stores

(* A call that is answered without a change of the store.                   *)
LEMMA ToldInv ==
  ASSUME IInv, NEW c \in Calls, call[c].pc = "look",
         NEW a \in States \cup {"error", "absent"},
         a \in States => a # "none" /\ Row(c).state = a,
         Answer(c, a), UNCHANGED <<db, disk, late, asked>>
  PROVE  IInv'
<1> USE LedgerAssumption DEF IInv
<1>1. TypeOK'
  <2>1. call' \in [Calls -> Records]
    BY AnswerType DEF TypeOK, Records
  <2> QED
    BY <2>1 DEF TypeOK, Records
<1>2. Guards(db)'
  BY DEF Answer, Row, TypeOK, Stores, Rows, States, NoRow, Records,
     InSend, Guards, Ahead, AskedInv, SendInv, OneSender, AnswerInv,
     P!Live, P!Follows
<1>3. Guards(disk)'
  BY DEF Answer, Row, TypeOK, Stores, Rows, States, NoRow, Records,
     InSend, Guards, Ahead, AskedInv, SendInv, OneSender, AnswerInv,
     P!Live, P!Follows
<1>4. Ahead'
  BY DEF Answer, Row, TypeOK, Stores, Rows, States, NoRow, Records,
     InSend, Guards, Ahead, AskedInv, SendInv, OneSender, AnswerInv,
     P!Live, P!Follows
<1>5. AskedInv'
  BY DEF Answer, Row, TypeOK, Stores, Rows, States, NoRow, Records,
     InSend, Guards, Ahead, AskedInv, SendInv, OneSender, AnswerInv,
     P!Live, P!Follows
<1>6. SendInv'
  BY DEF Answer, Row, TypeOK, Stores, Rows, States, NoRow, Records,
     InSend, Guards, Ahead, AskedInv, SendInv, OneSender, AnswerInv,
     P!Live, P!Follows
<1>7. OneSender'
  BY DEF Answer, Row, TypeOK, Stores, Rows, States, NoRow, Records,
     InSend, Guards, Ahead, AskedInv, SendInv, OneSender, AnswerInv,
     P!Live, P!Follows
<1>8. AnswerInv'
  BY DEF Answer, Row, TypeOK, Stores, Rows, States, NoRow, Records,
     InSend, Guards, Ahead, AskedInv, SendInv, OneSender, AnswerInv,
     P!Live, P!Follows
<1> QED
  BY <1>1, <1>2, <1>3, <1>4, <1>5, <1>6, <1>7, <1>8

(* A call that saves what became of its row, and answers with it.           *)
LEMMA SavedInv ==
  ASSUME IInv, NEW c \in Calls, NEW s \in {"unknown", "sent", "failed"},
         Save(call[c].key, s), Answer(c, s), UNCHANGED <<disk, late, asked>>,
         call[c].key \in Keys,
         s \in P!Follows[Row(c).state], Row(c).state # "none",
         asked[call[c].key] = "wire" => s = "unknown",
         s = "sent" => asked[call[c].key] = "made",
         s = "failed" => asked[call[c].key] \in {"no", "refused"},
         \/ call[c].pc \in InSend
         \/ call[c].pc = "look" /\ s = "unknown" /\ call[c].key \in late
  PROVE  IInv'
<1> USE LedgerAssumption DEF IInv
<1> DEFINE k == call[c].key
<1>0. /\ db' \in Stores
      /\ \A j \in Keys : /\ db'.rows[j].target = db.rows[j].target
                         /\ db'.rows[j].state = IF j = k THEN s ELSE db.rows[j].state
      /\ \A t \in Targets :
           db'.guard[t] = IF s = "failed" /\ t = db.rows[k].target /\ db.guard[t] = k
                          THEN NoKey ELSE db.guard[t]
  BY SaveType DEF TypeOK, States
<1>1. TypeOK'
  <2>1. call' \in [Calls -> Records]
    BY AnswerType DEF TypeOK, Records, States
  <2> QED
    BY <1>0, <2>1 DEF TypeOK, Records
<1>2. Guards(db)'
  <2> SUFFICES ASSUME NEW j \in Keys, db'.rows[j].state \in P!Live
               PROVE  /\ db'.rows[j].target \in Targets
                      /\ db'.guard[db'.rows[j].target] = j
    BY DEF Guards, P!Live
  <2>1. db.rows[j].state \in P!Live
    BY <1>0 DEF P!Live, P!Follows, Row, TypeOK, Stores, Rows, States
  <2>2. db.rows[j].target \in Targets /\ db.guard[db.rows[j].target] = j
    BY <2>1 DEF Guards
  <2>3. ~(s = "failed" /\ j = k)
    BY <1>0 DEF P!Live
  <2> QED
    BY <1>0, <2>2, <2>3
<1>3. Guards(disk)'
  BY <1>0 DEF Answer, Row, TypeOK, Stores, Rows, States, NoRow, Records,
     InSend, Guards, Ahead, AskedInv, SendInv, OneSender, AnswerInv,
     P!Live, P!Follows
<1>4. Ahead'
  BY <1>0 DEF Answer, Row, TypeOK, Stores, Rows, States, NoRow, Records,
     InSend, Guards, Ahead, AskedInv, SendInv, OneSender, AnswerInv,
     P!Live, P!Follows
<1>5. AskedInv'
  BY <1>0 DEF Answer, Row, TypeOK, Stores, Rows, States, NoRow, Records,
     InSend, Guards, Ahead, AskedInv, SendInv, OneSender, AnswerInv,
     P!Live, P!Follows
<1>6. SendInv'
  <2>1. /\ call'[c].pc = "reply" /\ call'[c].key = k
        /\ call'[c].target = call[c].target /\ call'[c].text = call[c].text
        /\ \A d \in Calls \ {c} : call'[d] = call[d]
    BY DEF Answer, TypeOK
  <2>2. k \in Keys /\ call[c].target \in Targets /\ call[c].text \in Texts
    BY DEF SendInv, InSend
  <2>3. ASSUME NEW d \in Calls \ {c}, call[d].pc \in InSend, call[d].key = k
        PROVE  s = "unknown" /\ k \in late
    BY <2>3 DEF OneSender, InSend
  <2>4. ASSUME NEW d \in Calls \ {c}, call[d].pc \in InSend
        PROVE  /\ call[d].key \in Keys
               /\ db'.rows[call[d].key].state \in
                    IF call[d].key = k THEN {"unknown"} ELSE {db.rows[call[d].key].state}
    BY <1>0, <2>3, <2>4 DEF SendInv, InSend
  <2>5. ASSUME NEW d \in Calls \ {c}
        PROVE  /\ call[d].pc # "idle" =>
                    call[d].key \in Keys /\ call[d].target \in Targets /\ call[d].text \in Texts
               /\ call[d].pc \in {"sync", "verify"} =>
                    /\ asked[call[d].key] = "no"
                    /\ db'.rows[call[d].key].state \in {"pending", "unknown"}
                    /\ call[d].key \notin late => db'.rows[call[d].key].state = "pending"
               /\ call[d].pc \in {"verify", "posting"} => disk.rows[call[d].key].state # "none"
               /\ call[d].pc = "posting" =>
                    /\ asked[call[d].key] # "no" /\ call[d].key \notin late
                    /\ db'.rows[call[d].key].state = "pending"
    BY <2>3, <2>4 DEF SendInv, InSend
  <2> HIDE DEF k
  <2> QED
    BY <2>1, <2>2, <2>5 DEF SendInv
<1>7. OneSender'
  BY <1>0 DEF Answer, Row, TypeOK, Stores, Rows, States, NoRow, Records,
     InSend, Guards, Ahead, AskedInv, SendInv, OneSender, AnswerInv,
     P!Live, P!Follows
<1>8. AnswerInv'
  BY <1>0 DEF Answer, Row, TypeOK, Stores, Rows, States, NoRow, Records,
     InSend, Guards, Ahead, AskedInv, SendInv, OneSender, AnswerInv,
     P!Live, P!Follows
<1> QED
  BY <1>1, <1>2, <1>3, <1>4, <1>5, <1>6, <1>7, <1>8

(* A call that answers with what is there.                                  *)
LEMMA TellInv ==
  ASSUME IInv, NEW c \in Calls,
         Refuse(c) \/ Tell(c) \/ TellAbsent(c) \/ Conflict(c)
  PROVE  IInv'
<1>1. CASE Refuse(c)
  BY <1>1, ToldInv DEF Refuse, States
<1>2. CASE Tell(c)
  <2>1. CASE Row(c).state = "pending" /\ call[c].key \in late
    <3>1. /\ Answer(c, "unknown") /\ Save(call[c].key, "unknown")
          /\ UNCHANGED <<disk, late, asked>> /\ call[c].pc = "look"
      BY <1>2, <2>1 DEF Tell
    <3>2. call[c].key \in Keys
      BY <3>1 DEF IInv, SendInv
    <3> QED
      BY <2>1, <3>1, <3>2, SavedInv DEF P!Follows
  <2>2. CASE ~(Row(c).state = "pending" /\ call[c].key \in late)
    <3>1. /\ Answer(c, Row(c).state) /\ UNCHANGED <<db, disk, late, asked>>
          /\ call[c].pc = "look" /\ Row(c).state # "none"
      BY <1>2, <2>2 DEF Tell
    <3>2. Row(c).state \in States
      BY <3>1 DEF IInv, TypeOK, SendInv, Row, Stores, Rows
    <3> QED
      BY <3>1, <3>2, ToldInv
  <2> QED
    BY <2>1, <2>2
<1>3. CASE TellAbsent(c)
  BY <1>3, ToldInv DEF TellAbsent, States
<1>4. CASE Conflict(c)
  BY <1>4, ToldInv DEF Conflict, States
<1> QED
  BY <1>1, <1>2, <1>3, <1>4

(* A call that ends the sending of its row.                                 *)
LEMMA FinishInv ==
  ASSUME IInv, NEW c \in Calls, PrepareFails(c) \/ HearX(c)
  PROVE  IInv'
<1> USE DEF IInv
<1>1. CASE PrepareFails(c)
  <2>1. /\ Save(call[c].key, "failed") /\ Answer(c, "failed")
        /\ UNCHANGED <<disk, late, asked>> /\ call[c].pc = "verify"
    BY <1>1 DEF PrepareFails, Finish
  <2>2. /\ call[c].key \in Keys /\ asked[call[c].key] = "no"
        /\ Row(c).state \in {"pending", "unknown"}
    BY <2>1 DEF SendInv, Row
  <2> QED
    BY <2>1, <2>2, SavedInv DEF P!Follows, InSend
<1>2. CASE HearX(c)
  <2>1. PICK s \in Outcomes(asked[call[c].key]) :
          /\ Save(call[c].key, s) /\ Answer(c, s)
          /\ UNCHANGED <<disk, late, asked>> /\ call[c].pc = "posting"
    BY <1>2 DEF HearX, Finish
  <2>2. /\ call[c].key \in Keys /\ asked[call[c].key] \in {"wire", "made", "refused"}
        /\ Row(c).state = "pending"
    BY <2>1 DEF SendInv, Row, TypeOK
  <2>3. /\ s \in {"unknown", "sent", "failed"}
        /\ asked[call[c].key] = "wire" => s = "unknown"
        /\ s = "sent" => asked[call[c].key] = "made"
        /\ s = "failed" => asked[call[c].key] = "refused"
    BY <2>1, <2>2 DEF Outcomes
  <2> QED
    BY <2>1, <2>2, <2>3, SavedInv DEF P!Follows, InSend
<1> QED
  BY <1>1, <1>2

(* A new row takes the guard of its post only when it is free.              *)
LEMMA InsertInv ==
  ASSUME IInv, NEW c \in Calls, Insert(c)
  PROVE  IInv'
<1> USE LedgerAssumption DEF IInv
<1> DEFINE k == call[c].key
           t == call[c].target
<1>1. /\ k \in Keys /\ t \in Targets /\ call[c].text \in Texts /\ Row(c).state = "none"
      /\ call[c].pc = "look"
  BY DEF Insert, SendInv
<1>2. PICK s \in IF Guarded(t) THEN {"failed"} ELSE {"pending", "failed"} :
        /\ db' = [rows |-> [db.rows EXCEPT ![k] =
                              [state |-> s, target |-> t, text |-> call[c].text]],
                  guard |-> IF s = "pending" THEN [db.guard EXCEPT ![t] = k] ELSE db.guard]
        /\ late' = late \ {k}
        /\ IF s = "pending" THEN Step(c, "sync") ELSE Answer(c, "failed")
        /\ UNCHANGED <<disk, asked>>
  BY DEF Insert
<1> DEFINE r == [state |-> s, target |-> t, text |-> call[c].text]
           g == IF s = "pending" THEN [db.guard EXCEPT ![t] = k] ELSE db.guard
<1>3. r \in Rows /\ r.state = s /\ r.target = t /\ s \in {"pending", "failed"}
  BY <1>1, <1>2 DEF Rows, States
<1>4. g \in [Targets -> Keys \cup {NoKey}]
  BY <1>1 DEF TypeOK, Stores
<1>5. /\ db' \in Stores /\ db'.guard = g
      /\ \A j \in Keys : db'.rows[j] = IF j = k THEN r ELSE db.rows[j]
  <2>1. db' = [rows |-> [db.rows EXCEPT ![k] = r], guard |-> g] /\ db \in Stores
    BY <1>2 DEF TypeOK
  <2> HIDE DEF k, r, g
  <2> QED
    BY <2>1, <1>1, <1>3, <1>4, RowAdded
<1>6. s = "pending" => db.guard[t] = NoKey
  BY <1>2 DEF Guarded
<1>7. asked[k] = "no" /\ \A d \in Calls : call[d].pc \in InSend => call[d].key # k
  <2>1. disk.rows[k].state \in States /\ asked[k] \in {"no", "wire", "made", "refused"}
    BY <1>1 DEF TypeOK, Stores, Rows
  <2>2. disk.rows[k].state = "none"
    BY <1>1, <2>1 DEF Ahead, P!Follows, States, Row
  <2> QED
    BY <1>1, <2>1, <2>2 DEF Row, SendInv, AskedInv, InSend
<1>8. CASE s = "pending"
  <2>1. Step(c, "sync")
    BY <1>2, <1>8
  <2> HIDE DEF r
  <2>A. TypeOK'
    <3>1. call' \in [Calls -> Records]
      BY <2>1, StepType DEF TypeOK, Records
    <3> QED
      BY <1>2, <1>5, <3>1 DEF TypeOK, Records
  <2>B. Guards(db)'
    BY <1>1, <1>2, <1>3, <1>5, <1>6, <1>7, <1>8, <2>1 DEF Step, Row, TypeOK,
       Stores, Rows, States, NoRow, Records, InSend, Guards, Ahead,
       AskedInv, SendInv, OneSender, AnswerInv, P!Live, P!Follows
  <2>C. Guards(disk)'
    BY <1>1, <1>2, <1>3, <1>5, <1>6, <1>7, <1>8, <2>1 DEF Step, Row, TypeOK,
       Stores, Rows, States, NoRow, Records, InSend, Guards, Ahead,
       AskedInv, SendInv, OneSender, AnswerInv, P!Live, P!Follows
  <2>D. Ahead'
    BY <1>1, <1>2, <1>3, <1>5, <1>6, <1>7, <1>8, <2>1 DEF Step, Row, TypeOK,
       Stores, Rows, States, NoRow, Records, InSend, Guards, Ahead,
       AskedInv, SendInv, OneSender, AnswerInv, P!Live, P!Follows
  <2>E. AskedInv'
    BY <1>1, <1>2, <1>3, <1>5, <1>6, <1>7, <1>8, <2>1 DEF Step, Row, TypeOK,
       Stores, Rows, States, NoRow, Records, InSend, Guards, Ahead,
       AskedInv, SendInv, OneSender, AnswerInv, P!Live, P!Follows
  <2>F. SendInv'
    BY <1>1, <1>2, <1>3, <1>5, <1>6, <1>7, <1>8, <2>1 DEF Step, Row, TypeOK,
       Stores, Rows, States, NoRow, Records, InSend, Guards, Ahead,
       AskedInv, SendInv, OneSender, AnswerInv, P!Live, P!Follows
  <2>G. OneSender'
    BY <1>1, <1>2, <1>3, <1>5, <1>6, <1>7, <1>8, <2>1 DEF Step, Row, TypeOK,
       Stores, Rows, States, NoRow, Records, InSend, Guards, Ahead,
       AskedInv, SendInv, OneSender, AnswerInv, P!Live, P!Follows
  <2>H. AnswerInv'
    BY <1>1, <1>2, <1>3, <1>5, <1>6, <1>7, <1>8, <2>1 DEF Step, Row, TypeOK,
       Stores, Rows, States, NoRow, Records, InSend, Guards, Ahead,
       AskedInv, SendInv, OneSender, AnswerInv, P!Live, P!Follows
  <2> QED
    BY <2>A, <2>B, <2>C, <2>D, <2>E, <2>F, <2>G, <2>H
<1>9. CASE s = "failed"
  <2>1. Answer(c, "failed")
    BY <1>2, <1>9
  <2> HIDE DEF r
  <2>A. TypeOK'
    <3>1. call' \in [Calls -> Records]
      BY <2>1, AnswerType DEF TypeOK, Records, States
    <3> QED
      BY <1>2, <1>5, <3>1 DEF TypeOK, Records
  <2>B. Guards(db)'
    BY <1>1, <1>2, <1>3, <1>5, <1>6, <1>7, <1>9, <2>1 DEF Answer, Row,
       TypeOK, Stores, Rows, States, NoRow, Records, InSend, Guards, Ahead,
       AskedInv, SendInv, OneSender, AnswerInv, P!Live, P!Follows
  <2>C. Guards(disk)'
    BY <1>1, <1>2, <1>3, <1>5, <1>6, <1>7, <1>9, <2>1 DEF Answer, Row,
       TypeOK, Stores, Rows, States, NoRow, Records, InSend, Guards, Ahead,
       AskedInv, SendInv, OneSender, AnswerInv, P!Live, P!Follows
  <2>D. Ahead'
    BY <1>1, <1>2, <1>3, <1>5, <1>6, <1>7, <1>9, <2>1 DEF Answer, Row,
       TypeOK, Stores, Rows, States, NoRow, Records, InSend, Guards, Ahead,
       AskedInv, SendInv, OneSender, AnswerInv, P!Live, P!Follows
  <2>E. AskedInv'
    BY <1>1, <1>2, <1>3, <1>5, <1>6, <1>7, <1>9, <2>1 DEF Answer, Row,
       TypeOK, Stores, Rows, States, NoRow, Records, InSend, Guards, Ahead,
       AskedInv, SendInv, OneSender, AnswerInv, P!Live, P!Follows
  <2>F. SendInv'
    BY <1>1, <1>2, <1>3, <1>5, <1>6, <1>7, <1>9, <2>1 DEF Answer, Row,
       TypeOK, Stores, Rows, States, NoRow, Records, InSend, Guards, Ahead,
       AskedInv, SendInv, OneSender, AnswerInv, P!Live, P!Follows
  <2>G. OneSender'
    BY <1>1, <1>2, <1>3, <1>5, <1>6, <1>7, <1>9, <2>1 DEF Answer, Row,
       TypeOK, Stores, Rows, States, NoRow, Records, InSend, Guards, Ahead,
       AskedInv, SendInv, OneSender, AnswerInv, P!Live, P!Follows
  <2>H. AnswerInv'
    BY <1>1, <1>2, <1>3, <1>5, <1>6, <1>7, <1>9, <2>1 DEF Answer, Row,
       TypeOK, Stores, Rows, States, NoRow, Records, InSend, Guards, Ahead,
       AskedInv, SendInv, OneSender, AnswerInv, P!Live, P!Follows
  <2> QED
    BY <2>A, <2>B, <2>C, <2>D, <2>E, <2>F, <2>G, <2>H
<1> QED
  BY <1>3, <1>8, <1>9

(* A new call has promised nothing yet.                                     *)
LEMMA ReceiveInv ==
  ASSUME IInv, NEW c \in Calls, NEW op \in {"send", "status"}, NEW k \in Keys,
         NEW t \in Targets, NEW x \in Texts, Receive(c, op, k, t, x)
  PROVE  IInv'
<1> USE LedgerAssumption DEF IInv
<1>1. TypeOK'
  BY DEF Receive, TypeOK, Stores, Rows, States, NoRow, Records
<1>2. Guards(db)'
  BY DEF Receive, TypeOK, Stores, Rows, States, NoRow, Records, InSend,
     Guards, Ahead, AskedInv, SendInv, OneSender, AnswerInv, P!Live,
     P!Follows
<1>3. Guards(disk)'
  BY DEF Receive, TypeOK, Stores, Rows, States, NoRow, Records, InSend,
     Guards, Ahead, AskedInv, SendInv, OneSender, AnswerInv, P!Live,
     P!Follows
<1>4. Ahead'
  BY DEF Receive, TypeOK, Stores, Rows, States, NoRow, Records, InSend,
     Guards, Ahead, AskedInv, SendInv, OneSender, AnswerInv, P!Live,
     P!Follows
<1>5. AskedInv'
  BY DEF Receive, TypeOK, Stores, Rows, States, NoRow, Records, InSend,
     Guards, Ahead, AskedInv, SendInv, OneSender, AnswerInv, P!Live,
     P!Follows
<1>6. SendInv'
  BY DEF Receive, TypeOK, Stores, Rows, States, NoRow, Records, InSend,
     Guards, Ahead, AskedInv, SendInv, OneSender, AnswerInv, P!Live,
     P!Follows
<1>7. OneSender'
  BY DEF Receive, TypeOK, Stores, Rows, States, NoRow, Records, InSend,
     Guards, Ahead, AskedInv, SendInv, OneSender, AnswerInv, P!Live,
     P!Follows
<1>8. AnswerInv'
  BY DEF Receive, TypeOK, Stores, Rows, States, NoRow, Records, InSend,
     Guards, Ahead, AskedInv, SendInv, OneSender, AnswerInv, P!Live,
     P!Follows
<1> QED
  BY <1>1, <1>2, <1>3, <1>4, <1>5, <1>6, <1>7, <1>8

(* A synced row is on disk.                                                 *)
LEMMA SyncedInv ==
  ASSUME IInv, NEW c \in Calls, Synced(c)
  PROVE  IInv'
<1> USE LedgerAssumption DEF IInv
<1>1. TypeOK'
  <2>1. call' \in [Calls -> Records]
    BY StepType DEF Synced, TypeOK, Records
  <2> QED
    BY <2>1 DEF Synced, TypeOK, Records, SendInv
<1>2. Guards(db)'
  BY DEF Synced, Step, Durable, Rank, TypeOK, Stores, Rows, States,
     NoRow, Records, InSend, Guards, Ahead, AskedInv, SendInv,
     OneSender, AnswerInv, P!Live, P!Follows
<1>3. Guards(disk)'
  BY DEF Synced, Step, Durable, Rank, TypeOK, Stores, Rows, States,
     NoRow, Records, InSend, Guards, Ahead, AskedInv, SendInv,
     OneSender, AnswerInv, P!Live, P!Follows
<1>4. Ahead'
  BY DEF Synced, Step, Durable, Rank, TypeOK, Stores, Rows, States,
     NoRow, Records, InSend, Guards, Ahead, AskedInv, SendInv,
     OneSender, AnswerInv, P!Live, P!Follows
<1>5. AskedInv'
  BY DEF Synced, Step, Durable, Rank, TypeOK, Stores, Rows, States,
     NoRow, Records, InSend, Guards, Ahead, AskedInv, SendInv,
     OneSender, AnswerInv, P!Live, P!Follows
<1>6. SendInv'
  BY DEF Synced, Step, Durable, Rank, TypeOK, Stores, Rows, States,
     NoRow, Records, InSend, Guards, Ahead, AskedInv, SendInv,
     OneSender, AnswerInv, P!Live, P!Follows
<1>7. OneSender'
  BY DEF Synced, Step, Durable, Rank, TypeOK, Stores, Rows, States,
     NoRow, Records, InSend, Guards, Ahead, AskedInv, SendInv,
     OneSender, AnswerInv, P!Live, P!Follows
<1>8. AnswerInv'
  BY DEF Synced, Step, Durable, Rank, TypeOK, Stores, Rows, States,
     NoRow, Records, InSend, Guards, Ahead, AskedInv, SendInv,
     OneSender, AnswerInv, P!Live, P!Follows
<1> QED
  BY <1>1, <1>2, <1>3, <1>4, <1>5, <1>6, <1>7, <1>8

(* X is asked for a row that is on disk, pending and nobody else's.         *)
LEMMA DispatchInv ==
  ASSUME IInv, NEW c \in Calls, Dispatch(c)
  PROVE  IInv'
<1> USE LedgerAssumption DEF IInv
<1>1. TypeOK'
  <2>1. call' \in [Calls -> Records]
    BY StepType DEF Dispatch, TypeOK, Records
  <2> QED
    BY <2>1 DEF Dispatch, TypeOK, Records, SendInv
<1>2. Guards(db)'
  BY DEF Dispatch, Step, TypeOK, Stores, Rows, States, NoRow, Records,
     InSend, Guards, Ahead, AskedInv, SendInv, OneSender, AnswerInv,
     P!Live, P!Follows
<1>3. Guards(disk)'
  BY DEF Dispatch, Step, TypeOK, Stores, Rows, States, NoRow, Records,
     InSend, Guards, Ahead, AskedInv, SendInv, OneSender, AnswerInv,
     P!Live, P!Follows
<1>4. Ahead'
  BY DEF Dispatch, Step, TypeOK, Stores, Rows, States, NoRow, Records,
     InSend, Guards, Ahead, AskedInv, SendInv, OneSender, AnswerInv,
     P!Live, P!Follows
<1>5. AskedInv'
  BY DEF Dispatch, Step, TypeOK, Stores, Rows, States, NoRow, Records,
     InSend, Guards, Ahead, AskedInv, SendInv, OneSender, AnswerInv,
     P!Live, P!Follows
<1>6. SendInv'
  BY DEF Dispatch, Step, TypeOK, Stores, Rows, States, NoRow, Records,
     InSend, Guards, Ahead, AskedInv, SendInv, OneSender, AnswerInv,
     P!Live, P!Follows
<1>7. OneSender'
  BY DEF Dispatch, Step, TypeOK, Stores, Rows, States, NoRow, Records,
     InSend, Guards, Ahead, AskedInv, SendInv, OneSender, AnswerInv,
     P!Live, P!Follows
<1>8. AnswerInv'
  BY DEF Dispatch, Step, TypeOK, Stores, Rows, States, NoRow, Records,
     InSend, Guards, Ahead, AskedInv, SendInv, OneSender, AnswerInv,
     P!Live, P!Follows
<1> QED
  BY <1>1, <1>2, <1>3, <1>4, <1>5, <1>6, <1>7, <1>8

(* A call that is over leaves the store alone.                              *)
LEMMA ReplyInv ==
  ASSUME IInv, NEW c \in Calls, Reply(c)
  PROVE  IInv'
<1> USE LedgerAssumption DEF IInv
<1>1. TypeOK'
  BY DEF Reply, Idle, TypeOK, Stores, Rows, States, NoRow, Records
<1>2. Guards(db)'
  BY DEF Reply, Idle, TypeOK, Stores, Rows, States, NoRow, Records,
     InSend, Guards, Ahead, AskedInv, SendInv, OneSender, AnswerInv,
     P!Live, P!Follows
<1>3. Guards(disk)'
  BY DEF Reply, Idle, TypeOK, Stores, Rows, States, NoRow, Records,
     InSend, Guards, Ahead, AskedInv, SendInv, OneSender, AnswerInv,
     P!Live, P!Follows
<1>4. Ahead'
  BY DEF Reply, Idle, TypeOK, Stores, Rows, States, NoRow, Records,
     InSend, Guards, Ahead, AskedInv, SendInv, OneSender, AnswerInv,
     P!Live, P!Follows
<1>5. AskedInv'
  BY DEF Reply, Idle, TypeOK, Stores, Rows, States, NoRow, Records,
     InSend, Guards, Ahead, AskedInv, SendInv, OneSender, AnswerInv,
     P!Live, P!Follows
<1>6. SendInv'
  BY DEF Reply, Idle, TypeOK, Stores, Rows, States, NoRow, Records,
     InSend, Guards, Ahead, AskedInv, SendInv, OneSender, AnswerInv,
     P!Live, P!Follows
<1>7. OneSender'
  BY DEF Reply, Idle, TypeOK, Stores, Rows, States, NoRow, Records,
     InSend, Guards, Ahead, AskedInv, SendInv, OneSender, AnswerInv,
     P!Live, P!Follows
<1>8. AnswerInv'
  BY DEF Reply, Idle, TypeOK, Stores, Rows, States, NoRow, Records,
     InSend, Guards, Ahead, AskedInv, SendInv, OneSender, AnswerInv,
     P!Live, P!Follows
<1> QED
  BY <1>1, <1>2, <1>3, <1>4, <1>5, <1>6, <1>7, <1>8

(* What was in memory is on disk.                                           *)
LEMMA FlushInv ==
  ASSUME IInv, Flush
  PROVE  IInv'
<1> USE LedgerAssumption DEF IInv
<1>1. TypeOK'
  BY DEF Flush, TypeOK, Stores, Rows, States, NoRow, Records
<1>2. Guards(db)'
  BY DEF Flush, TypeOK, Stores, Rows, States, NoRow, Records, InSend,
     Guards, Ahead, AskedInv, SendInv, OneSender, AnswerInv, P!Live,
     P!Follows
<1>3. Guards(disk)'
  BY DEF Flush, TypeOK, Stores, Rows, States, NoRow, Records, InSend,
     Guards, Ahead, AskedInv, SendInv, OneSender, AnswerInv, P!Live,
     P!Follows
<1>4. Ahead'
  BY DEF Flush, TypeOK, Stores, Rows, States, NoRow, Records, InSend,
     Guards, Ahead, AskedInv, SendInv, OneSender, AnswerInv, P!Live,
     P!Follows
<1>5. AskedInv'
  BY DEF Flush, TypeOK, Stores, Rows, States, NoRow, Records, InSend,
     Guards, Ahead, AskedInv, SendInv, OneSender, AnswerInv, P!Live,
     P!Follows
<1>6. SendInv'
  BY DEF Flush, TypeOK, Stores, Rows, States, NoRow, Records, InSend,
     Guards, Ahead, AskedInv, SendInv, OneSender, AnswerInv, P!Live,
     P!Follows
<1>7. OneSender'
  BY DEF Flush, TypeOK, Stores, Rows, States, NoRow, Records, InSend,
     Guards, Ahead, AskedInv, SendInv, OneSender, AnswerInv, P!Live,
     P!Follows
<1>8. AnswerInv'
  BY DEF Flush, TypeOK, Stores, Rows, States, NoRow, Records, InSend,
     Guards, Ahead, AskedInv, SendInv, OneSender, AnswerInv, P!Live,
     P!Follows
<1> QED
  BY <1>1, <1>2, <1>3, <1>4, <1>5, <1>6, <1>7, <1>8

(* Memory falls back to disk, which satisfied the invariant too.            *)
LEMMA CrashInv ==
  ASSUME IInv, Crash
  PROVE  IInv'
<1> USE LedgerAssumption DEF IInv
<1>1. TypeOK'
  BY DEF Crash, Idle, TypeOK, Stores, Rows, States, NoRow, Records
<1>2. Guards(db)'
  BY DEF Crash, Idle, TypeOK, Stores, Rows, States, NoRow, Records,
     InSend, Guards, Ahead, AskedInv, SendInv, OneSender, AnswerInv,
     P!Live, P!Follows
<1>3. Guards(disk)'
  BY DEF Crash, Idle, TypeOK, Stores, Rows, States, NoRow, Records,
     InSend, Guards, Ahead, AskedInv, SendInv, OneSender, AnswerInv,
     P!Live, P!Follows
<1>4. Ahead'
  BY DEF Crash, Idle, TypeOK, Stores, Rows, States, NoRow, Records,
     InSend, Guards, Ahead, AskedInv, SendInv, OneSender, AnswerInv,
     P!Live, P!Follows
<1>5. AskedInv'
  BY DEF Crash, Idle, TypeOK, Stores, Rows, States, NoRow, Records,
     InSend, Guards, Ahead, AskedInv, SendInv, OneSender, AnswerInv,
     P!Live, P!Follows
<1>6. SendInv'
  BY DEF Crash, Idle, TypeOK, Stores, Rows, States, NoRow, Records,
     InSend, Guards, Ahead, AskedInv, SendInv, OneSender, AnswerInv,
     P!Live, P!Follows
<1>7. OneSender'
  BY DEF Crash, Idle, TypeOK, Stores, Rows, States, NoRow, Records,
     InSend, Guards, Ahead, AskedInv, SendInv, OneSender, AnswerInv,
     P!Live, P!Follows
<1>8. AnswerInv'
  BY DEF Crash, Idle, TypeOK, Stores, Rows, States, NoRow, Records,
     InSend, Guards, Ahead, AskedInv, SendInv, OneSender, AnswerInv,
     P!Live, P!Follows
<1> QED
  BY <1>1, <1>2, <1>3, <1>4, <1>5, <1>6, <1>7, <1>8

(* X decides once, about a row that is not final.                           *)
LEMMA DecideXInv ==
  ASSUME IInv, NEW k \in Keys, DecideX(k)
  PROVE  IInv'
<1> USE LedgerAssumption DEF IInv
<1>1. TypeOK'
  BY DEF DecideX, TypeOK, Stores, Rows, States, NoRow, Records
<1>2. Guards(db)'
  BY DEF DecideX, TypeOK, Stores, Rows, States, NoRow, Records, InSend,
     Guards, Ahead, AskedInv, SendInv, OneSender, AnswerInv, P!Live,
     P!Follows
<1>3. Guards(disk)'
  BY DEF DecideX, TypeOK, Stores, Rows, States, NoRow, Records, InSend,
     Guards, Ahead, AskedInv, SendInv, OneSender, AnswerInv, P!Live,
     P!Follows
<1>4. Ahead'
  BY DEF DecideX, TypeOK, Stores, Rows, States, NoRow, Records, InSend,
     Guards, Ahead, AskedInv, SendInv, OneSender, AnswerInv, P!Live,
     P!Follows
<1>5. AskedInv'
  BY DEF DecideX, TypeOK, Stores, Rows, States, NoRow, Records, InSend,
     Guards, Ahead, AskedInv, SendInv, OneSender, AnswerInv, P!Live,
     P!Follows
<1>6. SendInv'
  BY DEF DecideX, TypeOK, Stores, Rows, States, NoRow, Records, InSend,
     Guards, Ahead, AskedInv, SendInv, OneSender, AnswerInv, P!Live,
     P!Follows
<1>7. OneSender'
  BY DEF DecideX, TypeOK, Stores, Rows, States, NoRow, Records, InSend,
     Guards, Ahead, AskedInv, SendInv, OneSender, AnswerInv, P!Live,
     P!Follows
<1>8. AnswerInv'
  BY DEF DecideX, TypeOK, Stores, Rows, States, NoRow, Records, InSend,
     Guards, Ahead, AskedInv, SendInv, OneSender, AnswerInv, P!Live,
     P!Follows
<1> QED
  BY <1>1, <1>2, <1>3, <1>4, <1>5, <1>6, <1>7, <1>8

(* A row grows old only while no post is under way for it.                  *)
LEMMA AgeInv ==
  ASSUME IInv, NEW k \in Keys, Age(k)
  PROVE  IInv'
<1> USE LedgerAssumption DEF IInv
<1>1. TypeOK'
  BY DEF Age, TypeOK, Stores, Rows, States, NoRow, Records
<1>2. Guards(db)'
  BY DEF Age, TypeOK, Stores, Rows, States, NoRow, Records, InSend,
     Guards, Ahead, AskedInv, SendInv, OneSender, AnswerInv, P!Live,
     P!Follows
<1>3. Guards(disk)'
  BY DEF Age, TypeOK, Stores, Rows, States, NoRow, Records, InSend,
     Guards, Ahead, AskedInv, SendInv, OneSender, AnswerInv, P!Live,
     P!Follows
<1>4. Ahead'
  BY DEF Age, TypeOK, Stores, Rows, States, NoRow, Records, InSend,
     Guards, Ahead, AskedInv, SendInv, OneSender, AnswerInv, P!Live,
     P!Follows
<1>5. AskedInv'
  BY DEF Age, TypeOK, Stores, Rows, States, NoRow, Records, InSend,
     Guards, Ahead, AskedInv, SendInv, OneSender, AnswerInv, P!Live,
     P!Follows
<1>6. SendInv'
  BY DEF Age, TypeOK, Stores, Rows, States, NoRow, Records, InSend,
     Guards, Ahead, AskedInv, SendInv, OneSender, AnswerInv, P!Live,
     P!Follows
<1>7. OneSender'
  BY DEF Age, TypeOK, Stores, Rows, States, NoRow, Records, InSend,
     Guards, Ahead, AskedInv, SendInv, OneSender, AnswerInv, P!Live,
     P!Follows
<1>8. AnswerInv'
  BY DEF Age, TypeOK, Stores, Rows, States, NoRow, Records, InSend,
     Guards, Ahead, AskedInv, SendInv, OneSender, AnswerInv, P!Live,
     P!Follows
<1> QED
  BY <1>1, <1>2, <1>3, <1>4, <1>5, <1>6, <1>7, <1>8

(* The inductive invariant: initially, and in every step.                   *)
LEMMA InitInv == Init => IInv
<1> SUFFICES ASSUME Init PROVE IInv
  OBVIOUS
<1>1. TypeOK
  BY LedgerAssumption DEF Init, Idle, NoRow, TypeOK, Stores, Rows, States
<1>2. Guards(db) /\ Guards(disk) /\ Ahead /\ AskedInv
  BY LedgerAssumption DEF Init, NoRow, Guards, Ahead, AskedInv, P!Live, P!Follows
<1>3. SendInv /\ OneSender /\ AnswerInv
  BY DEF Init, Idle, SendInv, OneSender, AnswerInv, InSend
<1> QED
  BY <1>1, <1>2, <1>3 DEF IInv

LEMMA StepInv == IInv /\ [Next]_vars => IInv'
<1> SUFFICES ASSUME IInv, [Next]_vars PROVE IInv'
  OBVIOUS
<1>1. ASSUME NEW c \in Calls, NEW op \in {"send", "status"}, NEW k \in Keys,
             NEW t \in Targets, NEW x \in Texts, Receive(c, op, k, t, x)
      PROVE  IInv'
  BY <1>1, ReceiveInv
<1>2. ASSUME NEW c \in Calls, CallStep(c) \/ Reply(c)
      PROVE  IInv'
  BY <1>2, TellInv, InsertInv, SyncedInv, FinishInv, DispatchInv, ReplyInv DEF CallStep
<1>3. ASSUME Platform \/ Crash
      PROVE  IInv'
  BY <1>3, FlushInv, CrashInv, DecideXInv, AgeInv DEF Platform
<1>4. CASE UNCHANGED vars
  BY <1>4 DEF vars, IInv, TypeOK, Guards, Ahead, AskedInv, SendInv, OneSender, AnswerInv
<1> QED
  BY <1>1, <1>2, <1>3, <1>4 DEF Next

(* Rows, guards, calls and the durable copy keep their types.               *)
THEOREM LedgerTypes == Spec => []TypeOK
<1>1. IInv => TypeOK
  BY DEF IInv
<1> QED
  BY <1>1, InitInv, StepInv, PTL DEF Spec

-----------------------------------------------------------------------------
(* What a call answers is what the durable receipt says, or said before,    *)
(* however calls race and whatever a crash undoes.                          *)
LEMMA InvAnswers == IInv => AnswerHolds
<1> SUFFICES ASSUME IInv, NEW c \in Calls, call[c].pc = "reply",
                    call[c].ans \in States => Durable(call[c].key, call[c].ans)
             PROVE  call[c].ans \in P!Answers(call[c].key)
  BY DEF AnswerHolds
<1> DEFINE k == call[c].key
           a == call[c].ans
<1>1. k \in Keys /\ a \in States \cup {"error", "absent"}
  BY DEF IInv, SendInv, TypeOK
<1>2. CASE a \in States
  <2>1. a # "none" /\ db.rows[k].state \in P!Follows[a]
    BY <1>2 DEF IInv, AnswerInv
  <2>2. disk.rows[k].state \in States /\ db.rows[k].state \in P!Follows[disk.rows[k].state]
    BY <1>1 DEF IInv, Ahead, TypeOK, Stores, Rows
  <2>3. Rank[disk.rows[k].state] >= Rank[a]
    BY <1>2 DEF Durable
  <2> HIDE DEF k, a
  <2>4. disk.rows[k].state \in P!Follows[a]
    BY <1>2, <2>1, <2>2, <2>3 DEF Rank, P!Follows, States
  <2> QED
    BY <1>1, <1>2, <2>4 DEF P!Answers, P!States, States, k, a
<1>3. CASE a \notin States
  BY <1>1, <1>3 DEF P!Answers
<1> QED
  BY <1>2, <1>3

THEOREM AnswersHold == Spec => []AnswerHolds
<1> QED
  BY InvAnswers, InitInv, StepInv, PTL DEF Spec

(* Across all keys no post gets two replies.                                *)
THEOREM LedgerOneReply == Spec => []P!OneReply
<1>1. IInv => P!OneReply
  <2> SUFFICES ASSUME IInv, NEW j \in Keys, NEW k \in Keys, j # k,
                      {asked[j], asked[k]} \subseteq {"wire", "made"}
               PROVE  disk.rows[j].target # disk.rows[k].target
    BY DEF P!OneReply
  <2>1. ASSUME NEW i \in {j, k}
        PROVE  disk.rows[i].state \in P!Live
    <3>1. disk.rows[i].state # "none" /\ disk.rows[i].state \in States
      BY DEF IInv, AskedInv, TypeOK, Stores, Rows
    <3>2. db.rows[i].state \in P!Follows[disk.rows[i].state] /\ db.rows[i].state # "failed"
      BY DEF IInv, Ahead, AskedInv
    <3> QED
      BY <3>1, <3>2 DEF P!Follows, P!Live, States
  <2> QED
    BY <2>1 DEF IInv, Guards
<1> QED
  BY <1>1, InitInv, StepInv, PTL DEF Spec

(* A final receipt is true of X.                                            *)
THEOREM LedgerReceiptTruth == Spec => []P!ReceiptTruth
<1>1. IInv => P!ReceiptTruth
  <2> SUFFICES ASSUME IInv, NEW k \in Keys
               PROVE  /\ disk.rows[k].state = "sent" => asked[k] = "made"
                      /\ disk.rows[k].state = "failed" => asked[k] \in {"no", "refused"}
    BY DEF P!ReceiptTruth
  <2>1. db.rows[k].state \in P!Follows[disk.rows[k].state]
    BY DEF IInv, Ahead
  <2> QED
    BY <2>1 DEF IInv, AskedInv, P!Follows
<1> QED
  BY <1>1, InitInv, StepInv, PTL DEF Spec

-----------------------------------------------------------------------------
(* A flush records receipts the promise allows.                             *)
LEMMA FlushPromise ==
  ASSUME IInv, Flush
  PROVE  P!Record
<1>1. /\ [k \in Keys |-> disk'.rows[k].state] \in [Keys -> P!States]
      /\ [k \in Keys |-> disk'.rows[k].target] \in [Keys -> Targets \cup {NoTarget}]
  BY DEF Flush, IInv, TypeOK, Stores, Rows, States, P!States
<1>2. \A k \in Keys :
        /\ disk'.rows[k].state \in P!Follows[disk.rows[k].state]
        /\ disk.rows[k].state # "none" => disk'.rows[k].target = disk.rows[k].target
        /\ disk'.rows[k].state = "sent" => asked[k] = "made"
        /\ disk'.rows[k].state = "failed" => asked[k] \in {"no", "refused"}
  BY DEF Flush, IInv, Ahead, AskedInv
<1>3. \A j, k \in Keys :
        j # k /\ disk'.rows[j].state \in P!Live /\ disk'.rows[k].state \in P!Live
          => disk'.rows[j].target # disk'.rows[k].target
  BY DEF Flush, IInv, Guards
<1> QED
  BY <1>1, <1>2, <1>3 DEF P!Record, P!OnePerTarget, Flush

(* A dispatch asks X for a durable pending receipt, once.                   *)
LEMMA DispatchPromise ==
  ASSUME IInv, NEW c \in Calls, Dispatch(c)
  PROVE  P!Next
<1> DEFINE k == call[c].key
<1>1. /\ k \in Keys /\ asked[k] = "no" /\ db.rows[k].state = "pending"
      /\ disk.rows[k].state # "none" /\ disk.rows[k].state \in States
  BY DEF Dispatch, IInv, SendInv, TypeOK, Stores, Rows
<1>2. disk.rows[k].state = "pending"
  BY <1>1 DEF IInv, Ahead, P!Follows, States
<1>3. P!Ask(k)
  BY <1>1, <1>2 DEF Dispatch, P!Ask
<1> QED
  BY <1>1, <1>3 DEF P!Next

(* Every other step is one X decides, or one nobody sees.                   *)
LEMMA StepPromise == IInv /\ [Next]_vars => [P!Next]_(P!vars)
<1> SUFFICES ASSUME IInv, [Next]_vars PROVE [P!Next]_(P!vars)
  OBVIOUS
<1>1. CASE Flush
  BY <1>1, FlushPromise DEF P!Next
<1>2. ASSUME NEW c \in Calls, Dispatch(c) PROVE P!Next
  BY <1>2, DispatchPromise
<1>3. ASSUME NEW k \in Keys, DecideX(k) PROVE P!Next
  <2>1. P!Decide(k)
    BY <1>3 DEF DecideX, P!Decide
  <2> QED
    BY <2>1 DEF P!Next
<1>4. CASE UNCHANGED <<disk, asked>>
  BY <1>4 DEF P!vars
<1>5. ASSUME NEW c \in Calls, NEW op \in {"send", "status"}, NEW k \in Keys,
             NEW t \in Targets, NEW x \in Texts, Receive(c, op, k, t, x)
      PROVE  UNCHANGED <<disk, asked>>
  BY <1>5 DEF Receive
<1>6. ASSUME NEW c \in Calls, CallStep(c) \/ Reply(c), ~Dispatch(c)
      PROVE  UNCHANGED <<disk, asked>>
  BY <1>6 DEF CallStep, Refuse, Tell, TellAbsent, Conflict, Insert, Synced,
     PrepareFails, HearX, Finish, Reply
<1>7. CASE Crash
  BY <1>4, <1>7 DEF Crash
<1>8. ASSUME NEW k \in Keys, Age(k) PROVE UNCHANGED <<disk, asked>>
  BY <1>8 DEF Age
<1>9. CASE UNCHANGED vars
  BY <1>4, <1>9 DEF vars
<1> QED
  BY <1>1, <1>2, <1>3, <1>4, <1>5, <1>6, <1>7, <1>8, <1>9 DEF Next, Platform

(* The ledger implements the promise, whatever the keys, posts and calls.   *)
THEOREM LedgerKeepsPromise == Spec => Promise
<1>1. Init => P!Init
  BY DEF Init, NoRow, P!Init
<1> QED
  BY <1>1, InitInv, StepInv, StepPromise, PTL DEF Spec, Promise, P!Spec

-----------------------------------------------------------------------------
(* The badge over it *)


\* VoiceReply with what is proved about it.
W == INSTANCE VoiceReplyProofs WITH
       Keys   <- Mine,
       client <- request # "none",
       said   <- [k \in Mine |-> disk.rows[k].state],
       about  <- [k \in Mine |-> disk.rows[k].target],
       asked  <- [k \in Mine |-> asked[k]]

(* What the routes keep true between the two: the call that serves the      *)
(* worker is about its key, and the ledger has rows of this badge only for  *)
(* what arrived.                                                            *)
RouteInv ==
  /\ server \subseteq Calls
  /\ \A c \in server : request = "call" /\ call[c].pc # "idle" /\ call[c].key = job.key
  /\ \A c \in Calls : /\ call[c].pc # "idle" /\ call[c].op = "send" /\ call[c].key \in Mine
                           => call[c].key \in arrived
                      /\ call[c].pc \in InSend => call[c].op = "send"
  /\ \A k \in Mine \ arrived : db.rows[k].state = "none"

SystemInv == IInv /\ W!IInv /\ RouteInv

-----------------------------------------------------------------------------
(* Both instances of VoiceReply say the same.                               *)
LEMMA SameInit == V!Init <=> W!Init
  BY DEF V!Init, W!Init, V!G!Init, W!G!Init, V!NoReq, W!NoReq, V!NoJob, W!NoJob

LEMMA SameUser == V!UserStep <=> W!UserStep
  BY Zenon DEF V!UserStep, W!UserStep, V!EnterVoiceReplies, W!EnterVoiceReplies,
     V!LeaveVoiceReplies, W!LeaveVoiceReplies, V!CancelTap, W!CancelTap,
     V!Browse, W!Browse, V!StartRecording, W!StartRecording,
     V!ReviewedAllPages, W!ReviewedAllPages, V!BeginSend, W!BeginSend,
     V!CheckStatus, W!CheckStatus, V!RefreshInbox, W!RefreshInbox,
     V!CancelRequest, W!CancelRequest, V!Unresolved, W!Unresolved, V!Open, W!Open,
     V!Live, W!Live, V!SameContext, W!SameContext, V!Busy, W!Busy,
     V!CanRecord, W!CanRecord, V!NoReq, W!NoReq, V!Receipt, W!Receipt,
     V!Uncertain, W!Uncertain, V!ForgetPending, W!ForgetPending, V!Report, W!Report,
     V!KeepReceipt, W!KeepReceipt, V!Queue, W!Queue, V!Lose, W!Lose,
     V!Discarded, W!Discarded, V!NoJob, W!NoJob, V!Persisted, W!Persisted,
     V!screen, W!screen

LEMMA SameHandler ==
  (V!HandleVoiceReply \/ V!Drain \/ V!LinkChanges) <=>
  (W!HandleVoiceReply \/ W!Drain \/ W!LinkChanges)
  BY Zenon DEF V!HandleVoiceReply, W!HandleVoiceReply, V!ContextChanged, W!ContextChanged,
     V!FinishRecording, W!FinishRecording, V!StartFails, W!StartFails,
     V!StartRequest, W!StartRequest, V!Consume, W!Consume, V!Drain, W!Drain,
     V!LinkChanges, W!LinkChanges, V!ErrorScreen, W!ErrorScreen, V!Handed, W!Handed,
     V!Final, W!Final, V!ConsumeReceipt, W!ConsumeReceipt, V!ConsumeOther, W!ConsumeOther,
     V!Ready, W!Ready, V!CancelRequest, W!CancelRequest, V!Open, W!Open,
     V!Live, W!Live, V!SameContext, W!SameContext, V!Busy, W!Busy, V!NoReq, W!NoReq,
     V!Receipt, W!Receipt, V!ForgetPending, W!ForgetPending, V!Report, W!Report,
     V!KeepReceipt, W!KeepReceipt, V!Queue, W!Queue, V!Lose, W!Lose,
     V!Discarded, W!Discarded, V!NoJob, W!NoJob, V!screen, W!screen, V!badge, W!badge

LEMMA SameRest ==
  (V!Transmit \/ V!WorkerDone \/ V!Arrive \/ V!Vanish \/ V!Deliver \/ V!GatewayStep \/ V!Reboot) <=>
  (W!Transmit \/ W!WorkerDone \/ W!Arrive \/ W!Vanish \/ W!Deliver \/ W!GatewayStep \/ W!Reboot)
  BY Zenon DEF V!Transmit, W!Transmit, V!WorkerDone, W!WorkerDone, V!Arrive, W!Arrive,
     V!Vanish, W!Vanish, V!Deliver, W!Deliver, V!GatewayStep, W!GatewayStep,
     V!Reboot, W!Reboot, V!Restore, W!Restore, V!Uncertain, W!Uncertain, V!NoReq, W!NoReq,
     V!NoJob, W!NoJob, V!badge, W!badge, V!gateway, W!gateway, V!net, W!net,
     V!G!Answers, W!G!Answers, V!G!States, W!G!States, V!G!Follows, W!G!Follows,
     V!G!Next, W!G!Next, V!G!Record, W!G!Record, V!G!Ask, W!G!Ask, V!G!Decide, W!G!Decide,
     V!G!OnePerTarget, W!G!OnePerTarget, V!G!Live, W!G!Live

LEMMA SameNext == [V!Next]_(V!vars) <=> [W!Next]_(W!vars)
<1>1. V!vars = W!vars /\ V!vars' = W!vars'
  BY DEF V!vars, W!vars, V!badge, W!badge, V!net, W!net, V!gateway, W!gateway
<1>2. V!Badge <=> W!Badge
  BY SameUser, SameHandler DEF V!Badge, W!Badge, V!net, W!net, V!gateway, W!gateway
<1> QED
  BY <1>1, <1>2, SameRest DEF V!Next, W!Next

-----------------------------------------------------------------------------
(* What the badge may rely on.                                              *)
LEMMA BadgeFacts ==
  ASSUME SystemInv
  PROVE  /\ mail \subseteq Mine /\ arrived \subseteq Mine
         /\ request # "none" => /\ job.st = "waiting" /\ job.kind \in {"SEND", "STATUS"}
                                /\ job.key \in Mine /\ job.key \in Keys
         /\ db \in Stores /\ disk \in Stores
         /\ asked \in [Keys -> {"no", "wire", "made", "refused"}]
  BY OwnKeys DEF SystemInv, W!IInv, W!Types, W!JobInv, W!Asks, IInv, TypeOK

(* Every step is one of the ledger or leaves it alone.                      *)
LEMMA LedgerSteps ==
  ASSUME SystemInv, [SystemNext]_system
  PROVE  [Next]_vars
<1>1. mail \subseteq Keys /\ (request = "road" => job.key \in Keys)
  BY BadgeFacts, OwnKeys
<1>2. ASSUME NEW c \in Calls, TakeSend(c) PROVE Next
  BY <1>1, <1>2 DEF TakeSend, Next
<1>3. ASSUME NEW c \in Calls, TakeStatus(c) PROVE Next
  BY <1>1, <1>3 DEF TakeStatus, Next
<1>4. ASSUME NEW c \in Calls, TakeOther(c) PROVE Next
  BY <1>4 DEF TakeOther, Next
<1>5. ASSUME NEW c \in Calls, Return(c) PROVE Next
  BY <1>5 DEF Return, Next
<1>6. CASE Ledger
  BY <1>6 DEF Ledger, Next
<1>7. CASE Die
  BY <1>7 DEF Die, Next
<1>8. CASE MainTask \/ Transmit \/ WorkerDone \/ Vanish \/ Reboot
  BY <1>8 DEF MainTask, Transmit, WorkerDone, Vanish, Reboot
<1>9. CASE UNCHANGED system
  BY <1>9 DEF system
<1> QED
  BY <1>2, <1>3, <1>4, <1>5, <1>6, <1>7, <1>8, <1>9 DEF SystemNext, AloneNext

-----------------------------------------------------------------------------
(* The rows of this badge appear only for sends that arrived.               *)
LEMMA RowsArrived ==
  ASSUME SystemInv
  PROVE  \A k \in Mine \ arrived : db.rows[k].state = "none" /\ disk.rows[k].state = "none"
<1> SUFFICES ASSUME NEW k \in Mine \ arrived
             PROVE  db.rows[k].state = "none" /\ disk.rows[k].state = "none"
  OBVIOUS
<1>1. db.rows[k].state = "none"
  BY DEF SystemInv, RouteInv
<1>2. disk.rows[k].state \in States /\ db.rows[k].state \in P!Follows[disk.rows[k].state]
  BY OwnKeys DEF SystemInv, IInv, TypeOK, Ahead, Stores, Rows
<1> QED
  BY <1>1, <1>2 DEF States, P!Follows

(* A step of a call: it stays about its key, and writes rows only for it.   *)

(* A call stays what it is, and moves on.                                   *)
Moves(c) ==
  /\ \A d \in Calls : /\ call'[d].key = call[d].key /\ call'[d].op = call[d].op
                      /\ call[d].pc # "idle" => call'[d].pc # "idle"
                      /\ d # c => call'[d].pc = call[d].pc
  /\ call[c].pc # "idle"

LEMMA StepMoves ==
  ASSUME TypeOK, NEW c \in Calls, call[c].pc # "idle"
  PROVE  /\ \A p \in {"sync", "verify", "posting"} :
              Step(c, p) => Moves(c) /\ call'[c].pc = p
         /\ \A a : Answer(c, a) => Moves(c) /\ call'[c].pc = "reply"
  BY DEF TypeOK, Step, Answer, Moves

(* Whichever step a call makes, it adds a row only for a send.              *)
LEMMA CallSteps ==
  ASSUME SystemInv, NEW c \in Calls, CallStep(c)
  PROVE  /\ Moves(c)
         /\ call'[c].pc \in InSend => call[c].op = "send"
         /\ \A k \in Mine \ arrived : db'.rows[k].state = "none"
<1>0. /\ TypeOK /\ db \in Stores /\ Mine \subseteq Keys
      /\ \A k \in Mine \ arrived : db.rows[k].state = "none"
      /\ call[c].pc \in InSend => call[c].op = "send"
      /\ call[c].op = "send" /\ call[c].key \in Mine => call[c].pc = "idle" \/ call[c].key \in arrived
      /\ call[c].pc # "idle" => call[c].key \in Keys
  BY OwnKeys DEF SystemInv, IInv, TypeOK, RouteInv, SendInv
<1>1. ASSUME NEW s \in States, Save(call[c].key, s), call[c].pc # "idle",
             call[c].key \in Mine => call[c].key \in arrived
      PROVE  \A k \in Mine \ arrived : db'.rows[k].state = "none"
  BY <1>0, <1>1, SaveType
<1>2. CASE Refuse(c)
  BY <1>0, <1>2, StepMoves DEF Refuse, InSend
<1>3. CASE Tell(c)
  <2>1. call[c].pc = "look" /\ call[c].key \in Mine => call[c].key \in arrived
    BY <1>0, <1>3 DEF Tell, Row
  <2>2. \/ UNCHANGED db
        \/ Save(call[c].key, "unknown")
    BY <1>3 DEF Tell
  <2>3. \A k \in Mine \ arrived : db'.rows[k].state = "none"
    BY <1>0, <1>1, <1>3, <2>1, <2>2 DEF Tell, States
  <2> QED
    BY <1>0, <1>3, <2>3, StepMoves DEF Tell, InSend
<1>4. CASE TellAbsent(c) \/ Conflict(c)
  BY <1>0, <1>4, StepMoves DEF TellAbsent, Conflict, InSend
<1>5. CASE Insert(c)
  <2>1. call[c].pc = "look" /\ call[c].op = "send"
    BY <1>5 DEF Insert
  <2>2. Step(c, "sync") \/ Answer(c, "failed")
    BY <1>5 DEF Insert
  <2>3. \A k \in Keys : k # call[c].key => db'.rows[k] = db.rows[k]
    BY <1>0, <1>5 DEF Insert, Stores
  <2> QED
    BY <1>0, <2>1, <2>2, <2>3, StepMoves DEF InSend
<1>6. CASE Synced(c)
  BY <1>0, <1>6, StepMoves DEF Synced, InSend
<1>7. CASE Dispatch(c)
  BY <1>0, <1>7, StepMoves DEF Dispatch, InSend
<1>8. CASE PrepareFails(c)
  BY <1>0, <1>1, <1>8, StepMoves DEF PrepareFails, Finish, InSend, States
<1>9. CASE HearX(c)
  <2>1. PICK s \in Outcomes(asked[call[c].key]) : Finish(c, s)
    BY <1>9 DEF HearX
  <2>2. s \in States
    BY <2>1 DEF Outcomes, States
  <2> QED
    BY <1>0, <1>1, <1>9, <2>1, <2>2, StepMoves DEF HearX, Finish, InSend
<1> QED
  BY <1>2, <1>3, <1>4, <1>5, <1>6, <1>7, <1>8, <1>9 DEF CallStep

(* The routes keep their invariant.                                         *)
LEMMA MainRoutes ==
  ASSUME SystemInv, MainTask
  PROVE  RouteInv'
<1>1. UNCHANGED <<db, call, server, request, arrived>>
  BY DEF MainTask, vars, routes
<1>2. W!UserStep \/ W!HandleVoiceReply \/ W!Drain \/ W!LinkChanges
  BY SameUser, SameHandler DEF MainTask
<1>3. server # {} => request # "none"
  BY DEF SystemInv, RouteInv
<1>4. request # "none" => job'.key = job.key
  <2>1. W!BadgeAssumption
    BY OwnKeys DEF W!BadgeAssumption
  <2>2. request # "none" => job.st = "waiting" /\ job.kind \in W!Asks
    BY DEF SystemInv, W!IInv, W!JobInv
  <2> QED
    BY <1>2, <2>1, <2>2, W!WaitingJob DEF SystemInv
<1> QED
  BY <1>1, <1>3, <1>4 DEF SystemInv, RouteInv

LEMMA WorkerRoutes ==
  ASSUME SystemInv, Transmit \/ WorkerDone \/ Vanish \/ Reboot
  PROVE  RouteInv'
<1>1. UNCHANGED <<db, call, arrived>>
  BY DEF Transmit, WorkerDone, Vanish, Reboot, V!Transmit, V!WorkerDone, V!Vanish,
     V!Reboot, V!gateway, vars
<1>2. CASE WorkerDone \/ Reboot
  BY <1>1, <1>2 DEF WorkerDone, Reboot, SystemInv, RouteInv
<1>3. CASE Transmit
  <2>1. request = "none"
    BY <1>3, BadgeFacts DEF Transmit, V!Transmit
  <2>2. server = {} /\ server' = server
    BY <1>3, <2>1 DEF Transmit, SystemInv, RouteInv
  <2> QED
    BY <1>1, <2>2 DEF SystemInv, RouteInv
<1>4. CASE Vanish
  BY <1>1, <1>4 DEF Vanish, V!Vanish, SystemInv, RouteInv
<1> QED
  BY <1>2, <1>3, <1>4

(* What taking a request makes of the call.                                 *)
LEMMA Received ==
  ASSUME TypeOK, NEW c \in Calls, NEW o \in {"send", "status"}, NEW k \in Keys,
         NEW t \in Targets, NEW x \in Texts, Receive(c, o, k, t, x)
  PROVE  /\ call[c].pc = "idle" /\ UNCHANGED <<db, disk, late, asked>>
         /\ call'[c].pc = "look" /\ call'[c].op = o /\ call'[c].key = k
         /\ \A d \in Calls : d # c => call'[d] = call[d]
  BY DEF Receive, TypeOK

LEMMA TakeRoutes ==
  ASSUME SystemInv, NEW c \in Calls,
         TakeSend(c) \/ TakeStatus(c) \/ TakeOther(c)
  PROVE  RouteInv'
<1>0. /\ TypeOK
      /\ c \in server => call[c].pc # "idle"
      /\ mail \subseteq Mine /\ Mine \subseteq Keys
      /\ request # "none" => job.key \in Keys
  BY BadgeFacts, OwnKeys DEF SystemInv, IInv, RouteInv
<1> USE DEF SystemInv, RouteInv
<1>1. CASE TakeSend(c)
  <2>1. PICK k \in mail, t \in Targets, x \in Texts :
          /\ Receive(c, "send", k, t, x)
          /\ mail' = mail \ {k} /\ arrived' = arrived \cup {k}
          /\ IF job.st = "waiting" /\ job.kind = "SEND" /\ job.key = k
             THEN request' = "call" /\ server' = {c} ELSE UNCHANGED <<request, server>>
          /\ UNCHANGED <<device, job>>
    BY <1>1 DEF TakeSend
  <2>2. /\ call[c].pc = "idle" /\ UNCHANGED <<db, disk, late, asked>>
        /\ call'[c].pc = "look" /\ call'[c].op = "send" /\ call'[c].key = k
        /\ \A d \in Calls : d # c => call'[d] = call[d]
    BY <1>0, <2>1, Received
  <2>3. /\ server' \subseteq Calls
        /\ \A d \in server' : request' = "call" /\ call'[d].pc # "idle" /\ call'[d].key = job'.key
    BY <1>0, <2>1, <2>2
  <2>4. \A d \in Calls : /\ call'[d].pc # "idle" /\ call'[d].op = "send" /\ call'[d].key \in Mine
                              => call'[d].key \in arrived'
                         /\ call'[d].pc \in InSend => call'[d].op = "send"
    BY <2>1, <2>2 DEF InSend
  <2> QED
    BY <2>1, <2>2, <2>3, <2>4
<1>2. CASE TakeStatus(c)
  <2>1. PICK t \in Targets, x \in Texts : Receive(c, "status", job.key, t, x)
    BY <1>2 DEF TakeStatus
  <2>2. /\ call[c].pc = "idle" /\ UNCHANGED <<db, disk, late, asked>>
        /\ call'[c].pc = "look" /\ call'[c].op = "status" /\ call'[c].key = job.key
        /\ \A d \in Calls : d # c => call'[d] = call[d]
    BY <1>0, <1>2, <2>1, Received DEF TakeStatus
  <2>3. server' = {c} /\ request' = "call" /\ UNCHANGED <<job, arrived>>
    BY <1>2 DEF TakeStatus
  <2>4. \A d \in Calls : /\ call'[d].pc # "idle" /\ call'[d].op = "send" /\ call'[d].key \in Mine
                              => call'[d].key \in arrived'
                         /\ call'[d].pc \in InSend => call'[d].op = "send"
    BY <2>2, <2>3 DEF InSend
  <2> QED
    BY <2>2, <2>3, <2>4
<1>3. CASE TakeOther(c)
  <2>1. PICK o \in {"send", "status"}, k \in Keys \ Mine, t \in Targets, x \in Texts :
          Receive(c, o, k, t, x)
    BY <1>3 DEF TakeOther
  <2>2. /\ call[c].pc = "idle" /\ UNCHANGED <<db, disk, late, asked>>
        /\ call'[c].pc = "look" /\ call'[c].key = k
        /\ \A d \in Calls : d # c => call'[d] = call[d]
    BY <1>0, <2>1, Received
  <2>3. UNCHANGED <<job, arrived, request, server>>
    BY <1>3 DEF TakeOther, routes
  <2>4. \A d \in Calls : /\ call'[d].pc # "idle" /\ call'[d].op = "send" /\ call'[d].key \in Mine
                              => call'[d].key \in arrived'
                         /\ call'[d].pc \in InSend => call'[d].op = "send"
    BY <2>2, <2>3 DEF InSend
  <2>5. \A d \in server' : call'[d].pc # "idle" /\ call'[d].key = job'.key /\ request' = "call"
    BY <1>0, <2>2, <2>3
  <2> QED
    BY <2>2, <2>3, <2>4, <2>5
<1> QED
  BY <1>1, <1>2, <1>3

LEMMA ReturnRoutes ==
  ASSUME SystemInv, NEW c \in Calls, Return(c)
  PROVE  RouteInv'
<1>1. /\ call[c].pc = "reply" /\ UNCHANGED <<db, arrived>>
      /\ call' = [call EXCEPT ![c] = Idle]
      /\ server' \subseteq server \ {c}
      /\ server' # {} => UNCHANGED <<job, request>>
  BY DEF Return, Reply
<1>2. /\ call'[c].pc = "idle"
      /\ \A d \in Calls : d # c => call'[d] = call[d]
  BY <1>1 DEF Idle, SystemInv, IInv, TypeOK
<1>3. \A d \in server' : request' = "call" /\ call'[d].pc # "idle" /\ call'[d].key = job'.key
  BY <1>1, <1>2 DEF SystemInv, RouteInv
<1> QED
  BY <1>1, <1>2, <1>3 DEF SystemInv, RouteInv, InSend

LEMMA LedgerRoutes ==
  ASSUME SystemInv, Ledger
  PROVE  RouteInv'
<1>0. UNCHANGED <<job, arrived, request, server>>
  BY DEF Ledger, routes
<1>1. ASSUME NEW c \in Calls, CallStep(c) PROVE RouteInv'
  BY <1>0, <1>1, CallSteps DEF Moves, SystemInv, RouteInv, InSend
<1>2. CASE Platform
  BY <1>0, <1>2 DEF Platform, Flush, DecideX, Age, SystemInv, RouteInv
<1> QED
  BY <1>1, <1>2 DEF Ledger

LEMMA DieRoutes ==
  ASSUME SystemInv, Die
  PROVE  RouteInv'
<1>1. /\ db' = disk /\ call' = [c \in Calls |-> Idle] /\ server' = {} /\ UNCHANGED arrived
  BY DEF Die, Crash
<1> QED
  BY <1>1, RowsArrived DEF RouteInv, Idle, InSend

LEMMA RouteStep ==
  ASSUME SystemInv, [SystemNext]_system
  PROVE  RouteInv'
<1>1. CASE UNCHANGED system
  BY <1>1 DEF system, vars, routes, SystemInv, RouteInv
<1> QED
  BY <1>1, MainRoutes, WorkerRoutes, TakeRoutes, ReturnRoutes, LedgerRoutes, DieRoutes
     DEF SystemNext, AloneNext

-----------------------------------------------------------------------------
(* What the promise means for the keys of this badge alone.                 *)
LEMMA PromiseOfMine ==
  ASSUME SystemInv, RouteInv', IInv', [P!Next]_(P!vars),
         UNCHANGED <<device, job, routes>>
  PROVE  [V!Next]_(V!vars)
<1> DEFINE said  == [k \in Mine |-> disk.rows[k].state]
           about == [k \in Mine |-> disk.rows[k].target]
           did   == [k \in Mine |-> asked[k]]
<1>0. /\ disk \in Stores /\ disk' \in Stores /\ Mine \subseteq Keys
      /\ asked \in [Keys -> {"no", "wire", "made", "refused"}]
      /\ asked' \in [Keys -> {"no", "wire", "made", "refused"}]
  BY OwnKeys DEF SystemInv, IInv, TypeOK
<1>1. UNCHANGED <<V!badge, job, V!net, arrived>>
  BY DEF device, routes, V!badge, V!net
<1>2. \A k \in Mine \ arrived : said'[k] = "none"
  <2> SUFFICES ASSUME NEW k \in Mine \ arrived PROVE disk'.rows[k].state = "none"
    OBVIOUS
  <2>1. db'.rows[k].state = "none"
    BY <1>1 DEF RouteInv
  <2>2. disk'.rows[k].state \in States /\ db'.rows[k].state \in P!Follows[disk'.rows[k].state]
    BY <1>0 DEF IInv, Ahead, Stores, Rows
  <2> QED
    BY <2>1, <2>2 DEF States, P!Follows
<1>3. CASE P!Record
  <2>1. V!G!Record
    BY <1>0, <1>3 DEF P!Record, V!G!Record, P!OnePerTarget, V!G!OnePerTarget,
       P!States, V!G!States, P!Follows, V!G!Follows, P!Live, V!G!Live
  <2> QED
    BY <1>1, <1>2, <2>1 DEF V!GatewayStep, V!G!Next, V!Next
<1>4. ASSUME NEW k \in Keys, P!Ask(k) PROVE [V!Next]_(V!vars)
  <2>1. said' = said /\ about' = about
    BY <1>0, <1>4 DEF P!Ask
  <2>2. CASE k \in Mine
    <3>1. V!G!Ask(k)
      BY <1>0, <1>4, <2>1, <2>2 DEF P!Ask, V!G!Ask
    <3> QED
      BY <1>1, <1>2, <2>2, <3>1 DEF V!GatewayStep, V!G!Next, V!Next
  <2>3. CASE k \notin Mine
    <3>1. did' = did
      BY <1>0, <1>4, <2>3 DEF P!Ask
    <3> QED
      BY <1>1, <2>1, <3>1 DEF V!vars, V!gateway
  <2> QED
    BY <2>2, <2>3
<1>5. ASSUME NEW k \in Keys, P!Decide(k) PROVE [V!Next]_(V!vars)
  <2>1. said' = said /\ about' = about
    BY <1>0, <1>5 DEF P!Decide
  <2>2. CASE k \in Mine
    <3>1. PICK a \in {"made", "refused"} : asked' = [asked EXCEPT ![k] = a]
      BY <1>5 DEF P!Decide
    <3>2. did' = [did EXCEPT ![k] = a] /\ did[k] = "wire"
      BY <1>0, <1>5, <2>2, <3>1 DEF P!Decide
    <3>3. V!G!Decide(k)
      BY <2>1, <3>2 DEF V!G!Decide
    <3> QED
      BY <1>1, <1>2, <2>2, <3>3 DEF V!GatewayStep, V!G!Next, V!Next
  <2>3. CASE k \notin Mine
    <3>1. did' = did
      BY <1>0, <1>5, <2>3 DEF P!Decide
    <3> QED
      BY <1>1, <2>1, <3>1 DEF V!vars, V!gateway
  <2> QED
    BY <2>2, <2>3
<1>6. CASE UNCHANGED P!vars
  <2>1. said' = said /\ about' = about /\ did' = did
    BY <1>0, <1>6 DEF P!vars
  <2> QED
    BY <1>1, <2>1 DEF V!vars, V!gateway
<1> QED
  BY <1>3, <1>4, <1>5, <1>6 DEF P!Next

(* Every step of the system is one of VoiceReply, or none.                  *)
LEMMA BadgeSteps ==
  ASSUME SystemInv, [SystemNext]_system, IInv', RouteInv'
  PROVE  [V!Next]_(V!vars)
<1>1. CASE MainTask
  BY <1>1 DEF MainTask, V!Badge, V!net, V!gateway, V!Next, vars, routes
<1>2. CASE Transmit \/ WorkerDone \/ Vanish \/ Reboot
  BY <1>2 DEF Transmit, WorkerDone, Vanish, Reboot, V!Next
<1>3. ASSUME NEW c \in Calls, TakeSend(c) PROVE V!Arrive
  <2>1. PICK k \in mail, t \in Targets, x \in Texts :
          /\ Receive(c, "send", k, t, x)
          /\ mail' = mail \ {k} /\ arrived' = arrived \cup {k}
          /\ IF job.st = "waiting" /\ job.kind = "SEND" /\ job.key = k
             THEN request' = "call" /\ server' = {c} ELSE UNCHANGED <<request, server>>
          /\ UNCHANGED <<device, job>>
    BY <1>3 DEF TakeSend
  <2>2. UNCHANGED <<disk, asked>>
    BY <2>1 DEF Receive
  <2>3. (request' # "none") =
          (request # "none" \/ (job.st = "waiting" /\ job.kind = "SEND" /\ job.key = k))
    BY <2>1
  <2> QED
    BY <2>1, <2>2, <2>3 DEF V!Arrive, V!badge, device
<1>4. ASSUME NEW c \in Calls, TakeStatus(c) PROVE UNCHANGED V!vars
  BY <1>4 DEF TakeStatus, Receive, device, V!vars, V!badge, V!net, V!gateway
<1>5. ASSUME NEW c \in Calls, TakeOther(c) PROVE UNCHANGED V!vars
  BY <1>5 DEF TakeOther, Receive, device, routes, V!vars, V!badge, V!net, V!gateway
<1>6. ASSUME NEW c \in Calls, Return(c) PROVE [V!Next]_(V!vars)
  <2>1. UNCHANGED <<disk, asked, device, mail, arrived>>
    BY <1>6 DEF Return, Reply
  <2>2. CASE c \notin server
    BY <1>6, <2>1, <2>2 DEF Return, device, V!vars, V!badge, V!net, V!gateway
  <2>3. CASE c \in server
    <3>1. /\ request # "none" /\ request' = "none" /\ call[c].key = job.key
          /\ job' = [job EXCEPT !.st = "done", !.ans = call[c].ans]
      BY <1>6, <2>3 DEF Return, SystemInv, RouteInv
    <3>2. job.key \in Mine /\ job.key \in Keys
      BY <3>1, BadgeFacts
    <3>3. call[c].ans \in P!Answers(job.key)
      <4>1. AnswerHolds
        BY InvAnswers DEF SystemInv
      <4> QED
        BY <1>6, <3>1, <4>1 DEF AnswerHolds, Return, Reply
    <3>4. call[c].ans \in V!G!Answers(job.key)
      BY <3>2, <3>3 DEF P!Answers, V!G!Answers, P!States, V!G!States, P!Follows, V!G!Follows
    <3> QED
      BY <2>1, <3>1, <3>4 DEF V!Deliver, V!Next, device, V!badge, V!gateway
  <2> QED
    BY <2>2, <2>3
<1>7. CASE Ledger
  <2>1. [Next]_vars
    BY LedgerSteps
  <2>2. [P!Next]_(P!vars)
    BY <2>1, StepPromise DEF SystemInv
  <2> QED
    BY <1>7, <2>2, PromiseOfMine DEF Ledger
<1>8. CASE Die
  BY <1>8 DEF Die, Crash, device, V!vars, V!badge, V!net, V!gateway
<1>9. CASE UNCHANGED system
  BY <1>9 DEF system, vars, device, routes, V!vars, V!badge, V!net, V!gateway
<1> QED
  BY <1>1, <1>2, <1>3, <1>4, <1>5, <1>6, <1>7, <1>8, <1>9 DEF SystemNext, AloneNext, V!Next

-----------------------------------------------------------------------------
(* The invariants of both sides hold together.                              *)
LEMMA SystemInvInit == SystemInit => SystemInv
<1> SUFFICES ASSUME SystemInit PROVE SystemInv
  OBVIOUS
<1>1. IInv
  BY InitInv DEF SystemInit
<1>2. W!IInv
  <2>1. W!BadgeAssumption
    BY OwnKeys DEF W!BadgeAssumption
  <2> QED
    BY <2>1, SameInit, W!InvInit DEF SystemInit
<1>3. RouteInv
  BY OwnKeys DEF SystemInit, Init, RouteInv, Idle, NoRow, InSend
<1> QED
  BY <1>1, <1>2, <1>3 DEF SystemInv

LEMMA SystemInvStep ==
  SystemInv /\ [SystemNext]_system => SystemInv' /\ [Next]_vars /\ [V!Next]_(V!vars)
<1> SUFFICES ASSUME SystemInv, [SystemNext]_system
             PROVE  SystemInv' /\ [Next]_vars /\ [V!Next]_(V!vars)
  OBVIOUS
<1>1. [Next]_vars
  BY LedgerSteps
<1>2. IInv'
  BY <1>1, StepInv DEF SystemInv
<1>3. RouteInv'
  BY RouteStep
<1>4. [V!Next]_(V!vars)
  BY <1>2, <1>3, BadgeSteps
<1>5. W!IInv'
  <2>1. W!BadgeAssumption
    BY OwnKeys DEF W!BadgeAssumption
  <2>2. W!IInv /\ [W!Next]_(W!vars)
    BY <1>4, SameNext DEF SystemInv
  <2> QED
    BY <2>1, <2>2, W!InvStep
<1> QED
  BY <1>1, <1>2, <1>3, <1>4, <1>5 DEF SystemInv

LEMMA SystemInvariance == SystemSpec => []SystemInv
<1>1. SystemInit => SystemInv
  BY SystemInvInit
<1>2. SystemInv /\ [SystemNext]_system => SystemInv'
  BY SystemInvStep
<1> QED
  BY <1>1, <1>2, PTL DEF SystemSpec

(* The badge over the ledger is the badge over the promise.                 *)
THEOREM LedgerServesBadge == SystemSpec => ServesBadge
<1>1. SystemInit => V!Init
  BY DEF SystemInit
<1>2. SystemInv /\ [SystemNext]_system => [V!Next]_(V!vars)
  BY SystemInvStep
<1> QED
  BY <1>1, <1>2, SystemInvariance, PTL DEF SystemSpec, ServesBadge, V!Spec

(* A badge and its routes ask no more of the ledger than the ledger is      *)
(* specified for, so that what is proved of it holds here.                  *)
THEOREM BadgeUsesLedger == SystemSpec => Spec
<1>1. SystemInit => Init
  BY DEF SystemInit
<1>2. SystemInv /\ [SystemNext]_system => [Next]_vars
  BY SystemInvStep
<1> QED
  BY <1>1, <1>2, SystemInvariance, PTL DEF SystemSpec, Spec

(* From the button to X: what the badge has let go of posts nothing any     *)
(* more, and what the user was told is what X did.                          *)
THEOREM ToldTheTruth == SystemSpec => []LetGo
<1>1. SystemInv => LetGo
  BY Zenon DEF SystemInv, W!IInv, W!Types, W!FlashInv, W!Quiet, W!MayPost,
     LetGo, V!LetGo, V!MayPost
<1> QED
  BY <1>1, SystemInvariance, PTL

(* What was or may be posted is named in flash until the user was told.     *)
THEOREM NoReplyForgotten == SystemSpec => []ReceiptKept
<1>1. SystemInv => ReceiptKept
  BY Zenon DEF SystemInv, W!IInv, W!GatewayInv, W!FlashInv, W!Quiet, W!MayPost,
     ReceiptKept, V!ReceiptKept, V!MayPost
<1> QED
  BY <1>1, SystemInvariance, PTL

(* A request consumes its own answer only.                                  *)
THEOREM AnswersAreOwn == SystemSpec => []OwnAnswer
<1>1. SystemInv => OwnAnswer
  BY Zenon DEF SystemInv, W!IInv, W!JobInv, W!OwnAnswer, OwnAnswer, V!OwnAnswer
<1> QED
  BY <1>1, SystemInvariance, PTL

(* Whatever this badge and others of its owner send, and whatever crashes,  *)
(* no post gets two replies.                                                *)
THEOREM OneReplyFromAll == SystemSpec => []P!OneReply
  BY BadgeUsesLedger, LedgerOneReply, PTL
=============================================================================
