--------------------------- MODULE InputVibration ---------------------------
(***************************************************************************)
(* board_vibration.h: the motor buzzes while a contact is held, for at     *)
(* most MaxHold.  Every write to it can fail and may have taken effect     *)
(* all the same.  The main task polls it once per pass of its loop.        *)
(***************************************************************************)
EXTENDS Naturals

CONSTANTS MaxHold, OffRetry    \* MaxHoldMs and OffRetryMs, in ticks

VARIABLES
  available, requested, active, stopping,
  held,        \* ticks since startedAt_
  tried,       \* ticks since lastOffAttempt_
  motor,       \* what the motor really does: "on" or "off"
  contact,     \* the touch sample is valid and pressed
  polled       \* the loop has come round since the last tick

driver == <<available, requested, active, stopping, held, tried, motor>>
vars   == <<driver, contact, polled>>

\* init: the motor may be running from before the restart.  While the checked
\* zero has not succeeded the driver reports it active and keeps trying.
Started ==
  /\ requested' = FALSE /\ held' = MaxHold /\ tried' = 0
  /\ \/ active' = FALSE /\ stopping' = FALSE /\ motor' = "off" /\ available' \in BOOLEAN
     \/ active' = TRUE /\ stopping' = TRUE /\ motor' \in {"on", "off"} /\ available' = FALSE
  /\ contact' = FALSE /\ polled' = FALSE

Init ==
  /\ requested = FALSE /\ held = MaxHold /\ tried = 0
  /\ \/ active = FALSE /\ stopping = FALSE /\ motor = "off" /\ available \in BOOLEAN
     \/ active = TRUE /\ stopping = TRUE /\ motor \in {"on", "off"} /\ available = FALSE
  /\ contact = FALSE /\ polled = FALSE

\* Mutant: a failed write counts as done.
OffUnchecked ==
  /\ motor' \in {"off", motor} /\ tried' = 0
  /\ active' = FALSE /\ stopping' = FALSE

\* attemptOff
AttemptOff ==
  /\ tried' = 0
  /\ \/ motor' = "off" /\ active' = FALSE /\ stopping' = FALSE
     \/ motor' \in {"off", motor} /\ active' = TRUE /\ stopping' = TRUE

Rest == UNCHANGED <<active, stopping, tried, motor>>

\* stop: from then on only poll tries again.
Stop == IF active /\ ~stopping THEN AttemptOff ELSE Rest

ReleaseInput ==
  /\ requested' = FALSE /\ Stop
  /\ UNCHANGED <<available, held, contact, polled>>

\* A new press starts the motor, unless an earlier one is still being stopped.
PressInput ==
  /\ ~requested /\ requested' = TRUE
  /\ IF contact /\ available /\ ~active
     THEN /\ held' = 0
          /\ \/ active' = TRUE /\ motor' = "on" /\ UNCHANGED <<stopping, tried>>
             \/ \* the write failed, or only its readback: off at once
                /\ tried' = 0
                /\ \/ active' = FALSE /\ stopping' = FALSE /\ motor' = "off"
                   \/ active' = TRUE /\ stopping' = TRUE /\ motor' \in {"on", "off"}
     ELSE Rest /\ UNCHANGED held
  /\ UNCHANGED <<available, contact, polled>>

Expired == held >= MaxHold

Poll ==
  /\ polled' = TRUE
  /\ requested' = (requested /\ contact)
  /\ \/ active /\ ~stopping /\ (~contact \/ Expired) /\ AttemptOff
     \/ active /\ stopping /\ tried >= OffRetry /\ AttemptOff
     \/ ~active /\ Rest
     \/ active /\ ~stopping /\ contact /\ ~Expired /\ Rest
     \/ active /\ stopping /\ tried < OffRetry /\ Rest
  /\ UNCHANGED <<available, held, contact>>

TouchChanges ==
  /\ contact' = ~contact /\ UNCHANGED <<driver, polled>>

\* Time passes, the loop keeping up with it.
Tick ==
  /\ polled /\ polled' = FALSE
  /\ held' = IF held < MaxHold THEN held + 1 ELSE held
  /\ tried' = IF tried < OffRetry THEN tried + 1 ELSE tried
  /\ UNCHANGED <<available, requested, active, stopping, motor, contact>>

Restart == Started

Next == \/ ReleaseInput \/ PressInput \/ Poll \/ TouchChanges \/ Tick \/ Restart

Spec == Init /\ [][Next]_vars

-----------------------------------------------------------------------------
(* Properties *)

\* A motor that may be running is never forgotten, whatever writes failed and
\* across restarts; and one that is not being stopped belongs to a press still
\* asked for and younger than MaxHold, but for the pass of the loop in which
\* that ends: a press that comes while an off is being retried neither starts
\* it again nor calls the retries off (board_vibration.h:52).
MotorBounded ==
  /\ motor = "on" => active
  /\ active /\ ~stopping => requested /\ (held < MaxHold \/ ~polled)

TypeOK ==
  /\ available \in BOOLEAN /\ requested \in BOOLEAN
  /\ active \in BOOLEAN /\ stopping \in BOOLEAN
  /\ held \in 0 .. MaxHold /\ tried \in 0 .. OffRetry
  /\ motor \in {"on", "off"} /\ contact \in BOOLEAN /\ polled \in BOOLEAN
=============================================================================
