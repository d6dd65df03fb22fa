---------------------------- MODULE ReplyPromise ----------------------------
(***************************************************************************)
(* What the voice gateway promises about replies.  Every reply is named by  *)
(* a key the client chose, and is about one post.  said[k] is the receipt   *)
(* the gateway holds durably for k, asked[k] what X was asked and did.      *)
(* However often a key is presented, and whatever crashes, X is asked once  *)
(* for it, only after the receipt is durable, and never while another reply *)
(* about the same post may have been made; "sent" and "failed" are final    *)
(* and true.                                                                *)
(***************************************************************************)
CONSTANTS
  Keys,     \* send keys
  Targets,  \* posts that can be replied to
  NoTarget

VARIABLES said, about, asked

vars == <<said, about, asked>>

States  == {"none", "pending", "unknown", "sent", "failed"}
Asked   == {"no", "wire", "made", "refused"}
Live    == {"pending", "unknown", "sent"}   \* the post may be, or get, answered

\* Which receipt may take the place of which.
Follows == [none    |-> {"none", "pending", "unknown", "failed"},
            pending |-> {"pending", "unknown", "sent", "failed"},
            unknown |-> {"unknown", "sent", "failed"},
            sent    |-> {"sent"},
            failed  |-> {"failed"}]

Init ==
  /\ said = [k \in Keys |-> "none"]
  /\ about = [k \in Keys |-> NoTarget]
  /\ asked = [k \in Keys |-> "no"]

\* A receipt the gateway gave for k earlier or gives now, or no statement.
Answers(k) ==
  {"error", "absent"} \cup
  {s \in States : said[k] \in Follows[s] \cup UNION {Follows[r] : r \in Follows[s]}}

OnePerTarget(s, a) ==
  \A j, k \in Keys : j # k /\ s[j] \in Live /\ s[k] \in Live => a[j] # a[k]

\* One write of the store makes any number of new receipts durable.
Record ==
  /\ said' \in [Keys -> States] /\ about' \in [Keys -> Targets \cup {NoTarget}]
  /\ \A k \in Keys :
       /\ said'[k] \in Follows[said[k]]
       /\ said[k] # "none" => about'[k] = about[k]
       /\ said'[k] = "sent" => asked[k] = "made"
       /\ said'[k] = "failed" => asked[k] \in {"no", "refused"}
  /\ OnePerTarget(said', about')
  /\ UNCHANGED asked

Ask(k) ==
  /\ said[k] = "pending" /\ asked[k] = "no"
  /\ asked' = [asked EXCEPT ![k] = "wire"]
  /\ UNCHANGED <<said, about>>

Decide(k) ==
  /\ asked[k] = "wire"
  /\ asked' \in {[asked EXCEPT ![k] = a] : a \in {"made", "refused"}}
  /\ UNCHANGED <<said, about>>

Next == Record \/ \E k \in Keys : Ask(k) \/ Decide(k)

Spec == Init /\ [][Next]_vars

-----------------------------------------------------------------------------
(* What follows *)

TypeOK ==
  /\ said \in [Keys -> States] /\ about \in [Keys -> Targets \cup {NoTarget}]
  /\ asked \in [Keys -> Asked]

\* No post gets two replies, whatever keys they were sent under.
OneReply ==
  \A j, k \in Keys :
    j # k /\ {asked[j], asked[k]} \subseteq {"wire", "made"} => about[j] # about[k]

\* A final receipt is true, and stays true.
ReceiptTruth ==
  \A k \in Keys : /\ said[k] = "sent" => asked[k] = "made"
                  /\ said[k] = "failed" => asked[k] \in {"no", "refused"}
=============================================================================
