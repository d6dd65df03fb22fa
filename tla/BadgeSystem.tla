----------------------------- MODULE BadgeSystem -----------------------------
(***************************************************************************)
(* The main task whole: the coordinator of BadgeReset over the portal, the  *)
(* downloads and the profile reset of SetupServices, in place of what       *)
(* BadgeReset takes them to promise.  A handler of main.cpp that has a part *)
(* in both is one step of both; a command waits until pollReset is done.    *)
(***************************************************************************)
EXTENDS SetupServices

CONSTANTS Values, Default, Revealed, Changeable   \* see BadgeReset

VARIABLES
  prefs,   \* NVS (flash in BadgeReset)
  wifi, ram, pending, nvs, resetRequested, resetNeedsPreferences, sameRevision,
  resetState, view, built, confirmed, pc, fresh, torn, late   \* see BadgeReset

R == INSTANCE BadgeReset WITH
       NoPhoto <- "none",
       flash   <- prefs,
       who     <- flash.who,
       busy    <- SetupBusy,
       up      <- active \/ starting,
       wiped   <- svc = "wiped" /\ ok,
       snap    <- IF svc = "savePhoto" THEN cur ELSE "none"

memory  == <<prefs, ram, pending, nvs, torn>>
asking  == <<resetRequested, resetNeedsPreferences, resetState, confirmed, pc>>
changed == <<wifi, sameRevision, fresh>>
shown   == <<view, built, late>>
system  == <<vars, memory, asking, changed, shown>>

SystemInit == Init /\ R!Init

-----------------------------------------------------------------------------
(* The main task *)

\* What it does without the services.
Coordinate ==
  /\ MainFree
  /\ UNCHANGED vars
  /\ \/ R!Tick \/ R!Persist \/ R!Relock
     \/ \E k \in Changeable : R!Change(k)
     \/ R!ConfigureWifi \/ R!OpenReset \/ R!CloseReset \/ R!PollReset

\* What it asks of them, without a part of its own in it.
Command ==
  /\ pc = "loop"
  /\ CloseSetup \/ RequestProbe \/ ReadPhotoTarget \/ RequestPhoto
  /\ UNCHANGED <<memory, asking, changed, shown>>

ShowSetup ==
  /\ pc = "loop" /\ view = "none"
  /\ StartSetup
  /\ IF setupRequested'
     THEN view' = "setup" /\ late' = IF resetRequested THEN "setup" ELSE late
     ELSE UNCHANGED <<view, late>>
  /\ UNCHANGED <<memory, asking, changed, built>>

HideSetup ==
  /\ R!Polled
  /\ LeaveSetup
  /\ view' = "none" /\ built' = "page"
  /\ R!Refresh(ram, pending, fresh)
  /\ UNCHANGED <<prefs, nvs, torn, asking, wifi, sameRevision, late>>

EraseProfile ==
  /\ pc = "loop"
  /\ ClearProfile \/ InitializeStorage
  /\ sameRevision' = FALSE
  /\ UNCHANGED <<memory, asking, wifi, fresh, shown>>

\* The confirmation, or Retry, of the screen that is built: requestReset.
TakeUp ==
  /\ ~resetRequested /\ ~setupRequested
  /\ \/ /\ R!RetrySettings
        /\ resetRequested' = TRUE /\ resetState' = "Working"
        /\ UNCHANGED <<vars, resetNeedsPreferences>>
     \/ /\ ~R!RetrySettings
        /\ resetNeedsPreferences' = FALSE
        /\ \/ /\ RequestReset
              /\ resetRequested' = TRUE /\ resetState' = "Working"
           \/ /\ ResetPending \/ SetupBusy \/ ~ready
              /\ resetRequested' = FALSE /\ resetState' = "Failed"
              /\ UNCHANGED vars
  /\ built' = IF resetState' = "Failed" THEN "confirmation" ELSE "neither"
  /\ late' = IF R!RetrySettings /\ late = "setup" THEN late
             ELSE IF view = "reset" THEN "no" ELSE "tap"
  /\ R!Refresh(ram, pending, fresh)
  /\ UNCHANGED <<nvs, pc>>

Ignore ==
  /\ resetRequested \/ setupRequested
  /\ built' = "neither"
  /\ UNCHANGED <<vars, ram, pending, nvs, resetRequested, resetNeedsPreferences,
                 resetState, pc, fresh, late>>

Confirm ==
  /\ MainFree /\ pc = "loop" /\ built = "confirmation"
  /\ ~(confirmed /\ resetState = "Working")
  /\ confirmed' = TRUE
  /\ TakeUp \/ Ignore
  /\ UNCHANGED <<prefs, torn, wifi, sameRevision, view>>

-----------------------------------------------------------------------------
(* The other tasks: each save that succeeds counts the revision up *)

Wipe ==
  /\ WipeProfile
  /\ sameRevision' = (sameRevision /\ ~ok')
  /\ UNCHANGED <<memory, asking, wifi, fresh, shown>>

KeepPhoto ==
  /\ SavePhoto
  /\ sameRevision' = (sameRevision /\ ~ok')
  /\ UNCHANGED <<memory, asking, wifi, fresh, shown>>

KeepForm ==
  /\ SaveProfile
  /\ IF saved' THEN sameRevision' = FALSE /\ fresh' = FALSE
               ELSE UNCHANGED <<sameRevision, fresh>>
  /\ UNCHANGED <<memory, asking, wifi, shown>>

\* Credentials that were changed may be stored also when their save fails.
KeepWifi ==
  /\ SaveWifi
  /\ \/ wifiKept' = wifiKept /\ UNCHANGED <<wifi, fresh>>
     \/ wifi' \in {"none", "some"} /\ fresh' = FALSE
  /\ UNCHANGED <<memory, asking, sameRevision, shown>>

Serve ==
  /\ \/ ServiceStep /\ svc \notin {"wipe", "savePhoto"}
     \/ HandlerStep /\ http \notin {"wifi", "record"}
     \/ ServePage \/ AdmitPost \/ Expire \/ EndGrace
  /\ UNCHANGED <<memory, asking, changed, shown>>

Restart ==
  /\ Reboot
  /\ nvs' \in BOOLEAN
  /\ ram' = R!Loaded(prefs)
  /\ R!Idle
  /\ UNCHANGED <<prefs, wifi, fresh>>

SystemNext ==
  \/ Coordinate \/ Command \/ ShowSetup \/ HideSetup \/ EraseProfile \/ Confirm
  \/ Wipe \/ KeepPhoto \/ KeepForm \/ KeepWifi \/ Serve
  \/ Restart

SystemSpec == SystemInit /\ [][SystemNext]_system

-----------------------------------------------------------------------------
(* Properties *)

\* The coordinator over the three tasks behaves as it does over what BadgeReset
\* takes them to promise: no interleaving of theirs takes it anywhere else.
ServesCoordinator == R!Init /\ [][R!Next]_(R!vars)

\* After a completed reset, and until somebody changes something, the record
\* has neither an account nor the photo of one, and the rest of flash and memory
\* is as new, whatever the tasks were doing before and have done since.
NothingLeft == R!ResetHolds /\ (fresh => flash.photo \notin Accounts)

\* The main task has setup requested exactly while its screen is up, so that
\* neither the screen nor the request outlives the other.
ScreenOfSetup == setupRequested <=> view = "setup"

\* While pollReset writes the defaults and forgets Wi-Fi, no task holds what
\* would come back after them: no handler of the setup page is at work, and a
\* download that is about to save has read an empty profile.  Only a setup that
\* is begun after a late tap, in the same pass, is not waited for.
NothingReturns ==
  pc # "loop" /\ late # "setup" =>
    http = "idle" /\ (svc = "savePhoto" => cur = Nobody)
=============================================================================
