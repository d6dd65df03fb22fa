-------------------------- MODULE ProfileRegister --------------------------
(***************************************************************************)
(* What the badge's manual-profile storage promises its callers: one        *)
(* durable register.  A save replaces the whole record or leaves the        *)
(* previous one, readers follow the committed value, a restart shows what   *)
(* was last committed, and only the explicit initialization of a store that *)
(* could not be mounted may erase it.                                       *)
(*                                                                          *)
(* ProfileStore.tla is the detailed version, with files, the write lock,    *)
(* power loss and every failure the code handles; it implements this one.   *)
(***************************************************************************)
EXTENDS Naturals

CONSTANTS Contents,   \* the whole records a save can commit
          NoFile,     \* nothing has been saved
          Damaged,    \* a record the loader refuses
          Blank       \* what readers see when there is no usable record

VARIABLES value,     \* the record on flash
          view,      \* what readers see in RAM
          revision,  \* counts the changes readers have seen since power-up
          ready      \* the store is mounted and inspected

vars == <<value, view, revision, ready>>

\* What a reader sees of a record: a missing or refused one shows as blank.
Shown(v) == IF v \in Contents THEN v ELSE Blank

Init ==
  /\ value \in Contents \cup {NoFile, Damaged}
  /\ view = Blank
  /\ revision = 0
  /\ ready = FALSE

\* The store becomes readable, at power-up or by explicit initialization.
Open ==
  /\ ~ready
  /\ ready' = TRUE
  /\ view' = Shown(value)
  /\ revision' = IF value \in Contents THEN 1 ELSE 0
  /\ UNCHANGED value

\* A save takes effect: it starts from the value readers see.
Commit(c) ==
  /\ ready
  /\ view = Shown(value)
  /\ value' = c
  /\ UNCHANGED <<view, revision, ready>>

\* Readers see the committed value, under a new revision.
Publish ==
  /\ ready
  /\ value \in Contents
  /\ view' = value
  /\ revision' = revision + 1
  /\ UNCHANGED <<value, ready>>

PowerLoss ==
  /\ view' = Blank
  /\ revision' = 0
  /\ ready' = FALSE
  /\ UNCHANGED value

\* Explicit initialization of a store that is not readable.
Erase ==
  /\ ~ready
  /\ value' = NoFile
  /\ UNCHANGED <<view, revision, ready>>

Next ==
  \/ Open
  \/ \E c \in Contents : Commit(c)
  \/ Publish
  \/ PowerLoss
  \/ Erase

Spec == Init /\ [][Next]_vars
=============================================================================
