--------------------------- MODULE ProfileService ---------------------------
(***************************************************************************)
(* What firmware/factory_badge/main/services.cpp promises the rest of the   *)
(* badge about the saved profile: who may write it when, and what a reset   *)
(* request comes to.  Portal, downloads and tasks are hidden; SetupServices *)
(* implements this (its property ServiceContract), and BadgeReset is built  *)
(* on it.                                                                   *)
(***************************************************************************)
CONSTANTS
  Accounts,   \* social accounts
  Nobody,     \* the account of an empty profile
  NoPhoto     \* no downloaded photo waits to be saved

VARIABLES
  ready,      \* the store can be read
  who,        \* the account of the record on flash
  busy,       \* phone setup is wanted, up or closing
  up,         \* ... and portal_snapshot shows it starting or active
  reset,      \* the reset slot
  wiped,      \* a running reset has emptied the record
  snap        \* the account a downloaded photo will be saved with

vars == <<ready, who, busy, up, reset, wiped, snap>>

Owners == Accounts \cup {Nobody}

TypeOK ==
  /\ ready \in BOOLEAN /\ busy \in BOOLEAN /\ up \in BOOLEAN /\ wiped \in BOOLEAN
  /\ who \in Owners /\ snap \in Owners \cup {NoPhoto}
  /\ reset \in {"Idle", "Pending", "Running", "Succeeded", "Failed"}

Init ==
  /\ ready \in BOOLEAN /\ who \in Owners
  /\ busy = FALSE /\ up = FALSE
  /\ reset = "Idle" /\ wiped = FALSE /\ snap = NoPhoto

\* Power loss or esp_restart, then services_init: the record stays.
Reboot ==
  /\ ready' \in BOOLEAN
  /\ busy' = FALSE /\ up' = FALSE
  /\ reset' = "Idle" /\ wiped' = FALSE /\ snap' = NoPhoto
  /\ UNCHANGED who

ResetPending == reset \in {"Pending", "Running"}

-----------------------------------------------------------------------------
(* Phone setup *)

StartSetup ==
  /\ ~ResetPending /\ (ready \/ busy)
  /\ busy' = TRUE /\ up' = TRUE
  /\ UNCHANGED <<ready, who, reset, wiped, snap>>

\* The session goes from the snapshot first, or with the last of setup.
EndSetup ==
  /\ busy
  /\ up' = FALSE /\ busy' \in BOOLEAN
  /\ UNCHANGED <<ready, who, reset, wiped, snap>>

SaveForm ==
  /\ up /\ ready
  /\ who' \in Owners
  /\ UNCHANGED <<ready, busy, up, reset, wiped, snap>>

-----------------------------------------------------------------------------
(* Reset *)

ResetAllowed == ~ResetPending /\ ~busy /\ ready

RequestReset ==
  /\ ResetAllowed
  /\ reset' = "Pending"
  /\ UNCHANGED <<ready, who, busy, up, wiped, snap>>

\* The task that saves photos is the one that resets.
BeginReset ==
  /\ reset = "Pending" /\ snap = NoPhoto
  /\ reset' = IF busy THEN "Failed" ELSE "Running"
  /\ UNCHANGED <<ready, who, busy, up, wiped, snap>>

Wipe ==
  /\ reset = "Running" /\ ready /\ ~wiped
  /\ who' = Nobody /\ wiped' = TRUE
  /\ UNCHANGED <<ready, busy, up, reset, snap>>

EndReset ==
  /\ reset = "Running"
  /\ reset' = IF wiped THEN "Succeeded" ELSE "Failed"
  /\ wiped' = FALSE
  /\ UNCHANGED <<ready, who, busy, up, snap>>

-----------------------------------------------------------------------------
(* Photos and USB *)

\* A finished download reads the account it will save its photo with ...
ReadOwner ==
  /\ reset # "Running" /\ snap = NoPhoto
  /\ snap' = IF ready THEN who ELSE Nobody
  /\ UNCHANGED <<ready, who, busy, up, reset, wiped>>

\* ... and saves it, or fails.
SavePhoto ==
  /\ snap # NoPhoto /\ snap' = NoPhoto
  /\ \/ ready /\ who' = snap
     \/ UNCHANGED who
  /\ UNCHANGED <<ready, busy, up, reset, wiped>>

ClearProfile ==
  /\ ResetAllowed
  /\ who' = Nobody
  /\ UNCHANGED <<ready, busy, up, reset, wiped, snap>>

\* A second mount of an unreadable store finds the record, or formats it away.
Initialize ==
  /\ ~ready /\ ~ResetPending /\ ~busy
  /\ \/ ready' = TRUE /\ UNCHANGED who
     \/ ready' \in BOOLEAN /\ who' = Nobody
  /\ UNCHANGED <<busy, up, reset, wiped, snap>>

Next ==
  \/ StartSetup \/ EndSetup \/ SaveForm
  \/ RequestReset \/ BeginReset \/ Wipe \/ EndReset
  \/ ReadOwner \/ SavePhoto \/ ClearProfile \/ Initialize
  \/ Reboot

Spec == Init /\ [][Next]_vars
=============================================================================
