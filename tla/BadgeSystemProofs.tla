-------------------------- MODULE BadgeSystemProofs --------------------------
(***************************************************************************)
(* The coordinator over the three tasks behaves as the coordinator over     *)
(* their contract, and the tasks under it as they do alone, for any         *)
(* accounts and values of the preferences.                                  *)
(***************************************************************************)
EXTENDS BadgeSystem, SetupServicesProofs

\* BadgeReset with what is proved about it.
Q == INSTANCE BadgeResetProofs WITH
       NoPhoto <- "none",
       flash   <- prefs,
       who     <- flash.who,
       busy    <- SetupBusy,
       up      <- active \/ starting,
       wiped   <- svc = "wiped" /\ ok,
       snap    <- IF svc = "savePhoto" THEN cur ELSE "none"

SystemInv == IInv /\ Q!IInv /\ ScreenOfSetup

-----------------------------------------------------------------------------
(* Both instances of BadgeReset say the same.                               *)
LEMMA SameParts ==
  /\ R!ResetAssumption <=> Q!ResetAssumption
  /\ R!Init <=> Q!Init
  /\ R!vars = Q!vars
  /\ R!ResetHolds <=> Q!ResetHolds
  /\ R!MemoryMatchesFlash <=> Q!MemoryMatchesFlash
  /\ R!ResetKeepsScreen <=> Q!ResetKeepsScreen
<1>1. R!ResetAssumption <=> Q!ResetAssumption
  BY Zenon DEF R!ResetAssumption, Q!ResetAssumption, R!Keys, Q!Keys
<1>2. R!Init <=> Q!Init
  BY Zenon DEF R!Init, Q!Init, R!S!Init, Q!S!Init, R!Keys, Q!Keys, R!Defaults, Q!Defaults,
     R!S!Owners, Q!S!Owners
<1>3. R!vars = Q!vars
  BY Zenon DEF R!vars, Q!vars, R!service, Q!service, R!stored, Q!stored, R!memory, Q!memory,
     R!coord, Q!coord, R!screen, Q!screen
<1>4. R!ResetHolds <=> Q!ResetHolds
  BY Zenon DEF R!ResetHolds, Q!ResetHolds, R!Defaults, Q!Defaults, R!Keys, Q!Keys
<1>5. R!MemoryMatchesFlash <=> Q!MemoryMatchesFlash
  BY Zenon DEF R!MemoryMatchesFlash, Q!MemoryMatchesFlash, R!Keys, Q!Keys
<1>6. R!ResetKeepsScreen <=> Q!ResetKeepsScreen
  BY Zenon DEF R!ResetKeepsScreen, Q!ResetKeepsScreen, R!S!ResetPending, Q!S!ResetPending
<1> QED
  BY <1>1, <1>2, <1>3, <1>4, <1>5, <1>6

LEMMA SameCoordinate ==
  /\ R!Tick <=> Q!Tick
  /\ R!Persist <=> Q!Persist
  /\ R!Relock <=> Q!Relock
  /\ \A k \in Changeable : R!Change(k) <=> Q!Change(k)
  /\ R!ConfigureWifi <=> Q!ConfigureWifi
  /\ R!OpenReset <=> Q!OpenReset
  /\ R!CloseReset <=> Q!CloseReset
<1> USE DEF R!service, Q!service, R!stored, Q!stored, R!memory, Q!memory,
     R!coord, Q!coord, R!screen, Q!screen, R!Keys, Q!Keys, R!Refresh, Q!Refresh,
     R!PlanUnlock, Q!PlanUnlock
<1>1. R!Tick <=> Q!Tick
  BY Zenon DEF R!Tick, Q!Tick, R!Polled, Q!Polled, R!Screen, Q!Screen,
     R!S!ResetPending, Q!S!ResetPending
<1>2. R!Persist <=> Q!Persist
  BY Zenon DEF R!Persist, Q!Persist
<1>3. R!Relock <=> Q!Relock
  BY Zenon DEF R!Relock, Q!Relock
<1>4. \A k \in Changeable : R!Change(k) <=> Q!Change(k)
  BY Zenon DEF R!Change, Q!Change
<1>5. R!ConfigureWifi <=> Q!ConfigureWifi
  BY Zenon DEF R!ConfigureWifi, Q!ConfigureWifi
<1>6. R!OpenReset <=> Q!OpenReset
  BY Zenon DEF R!OpenReset, Q!OpenReset
<1>7. R!CloseReset <=> Q!CloseReset
  BY Zenon DEF R!CloseReset, Q!CloseReset, R!Closable, Q!Closable
<1> QED
  BY <1>1, <1>2, <1>3, <1>4, <1>5, <1>6, <1>7

LEMMA SamePoll == R!PollReset <=> Q!PollReset
<1> USE DEF R!service, Q!service, R!stored, Q!stored, R!memory, Q!memory,
     R!coord, Q!coord, R!screen, Q!screen, R!Keys, Q!Keys, R!Refresh, Q!Refresh,
     R!PlanUnlock, Q!PlanUnlock, R!SettingsFail, Q!SettingsFail
<1>1. R!ReportFailure <=> Q!ReportFailure
  BY Zenon DEF R!ReportFailure, Q!ReportFailure, R!ProfileKept, Q!ProfileKept,
     R!ProfileCleared, Q!ProfileCleared, R!S!ResetPending, Q!S!ResetPending
<1>2. R!BeginWrites <=> Q!BeginWrites
  BY Zenon DEF R!BeginWrites, Q!BeginWrites, R!ProfileCleared, Q!ProfileCleared
<1>3. R!WriteDefault <=> Q!WriteDefault
  BY Zenon DEF R!WriteDefault, Q!WriteDefault, R!After, Q!After
<1>4. R!Commit <=> Q!Commit
  BY Zenon DEF R!Commit, Q!Commit
<1>5. R!Finish <=> Q!Finish
  BY Zenon DEF R!Finish, Q!Finish, R!NothingPlanned, Q!NothingPlanned, R!Defaults, Q!Defaults
<1> QED
  BY <1>1, <1>2, <1>3, <1>4, <1>5, Zenon DEF R!PollReset, Q!PollReset

LEMMA SameSetup ==
  /\ R!StartSetup <=> Q!StartSetup
  /\ R!LeaveSetup <=> Q!LeaveSetup
  /\ R!SaveWifi <=> Q!SaveWifi
  /\ R!SaveForm <=> Q!SaveForm
  /\ R!ClearProfile <=> Q!ClearProfile
  /\ R!Initialize <=> Q!Initialize
  /\ R!Confirm <=> Q!Confirm
  /\ R!Restart <=> Q!Restart
<1> USE DEF R!service, Q!service, R!stored, Q!stored, R!memory, Q!memory,
     R!coord, Q!coord, R!screen, Q!screen, R!Keys, Q!Keys, R!Refresh, Q!Refresh,
     R!PlanUnlock, Q!PlanUnlock, R!S!ResetPending, Q!S!ResetPending,
     R!S!ResetAllowed, Q!S!ResetAllowed
<1>1. R!StartSetup <=> Q!StartSetup
  BY Zenon DEF R!StartSetup, Q!StartSetup, R!S!StartSetup, Q!S!StartSetup
<1>2. R!LeaveSetup <=> Q!LeaveSetup
  BY Zenon DEF R!LeaveSetup, Q!LeaveSetup, R!Polled, Q!Polled
<1>3. R!SaveWifi <=> Q!SaveWifi
  BY Zenon DEF R!SaveWifi, Q!SaveWifi
<1>4. R!SaveForm <=> Q!SaveForm
  BY Zenon DEF R!SaveForm, Q!SaveForm, R!S!SaveForm, Q!S!SaveForm, R!S!Owners, Q!S!Owners
<1>5. R!ClearProfile <=> Q!ClearProfile
  BY Zenon DEF R!ClearProfile, Q!ClearProfile, R!S!ClearProfile, Q!S!ClearProfile
<1>6. R!Initialize <=> Q!Initialize
  BY Zenon DEF R!Initialize, Q!Initialize, R!S!Initialize, Q!S!Initialize
<1>7. R!Confirm <=> Q!Confirm
  BY Zenon DEF R!Confirm, Q!Confirm, R!TakeUp, Q!TakeUp, R!Ignore, Q!Ignore,
     R!RetrySettings, Q!RetrySettings, R!S!RequestReset, Q!S!RequestReset
<1>8. R!Restart <=> Q!Restart
  BY Zenon DEF R!Restart, Q!Restart, R!S!Reboot, Q!S!Reboot, R!Loaded, Q!Loaded, R!Idle, Q!Idle,
     R!Defaults, Q!Defaults
<1> QED
  BY <1>1, <1>2, <1>3, <1>4, <1>5, <1>6, <1>7, <1>8

LEMMA SameServiceStep == R!ServiceStep <=> Q!ServiceStep
  BY Zenon DEF R!ServiceStep, Q!ServiceStep, R!EndSetup, Q!EndSetup, R!BeginReset, Q!BeginReset,
     R!Wipe, Q!Wipe, R!EndReset, Q!EndReset, R!ReadOwner, Q!ReadOwner, R!SavePhoto, Q!SavePhoto,
     R!S!EndSetup, Q!S!EndSetup, R!S!BeginReset, Q!S!BeginReset, R!S!Wipe, Q!S!Wipe,
     R!S!EndReset, Q!S!EndReset, R!S!ReadOwner, Q!S!ReadOwner, R!S!SavePhoto, Q!S!SavePhoto,
     R!stored, Q!stored, R!memory, Q!memory, R!coord, Q!coord, R!screen, Q!screen

LEMMA SameNext == [R!Next]_(R!vars) <=> [Q!Next]_(Q!vars)
<1>1. R!vars = Q!vars /\ R!vars' = Q!vars'
  BY SameParts, Zenon DEF R!vars, Q!vars, R!service, Q!service, R!stored, Q!stored,
     R!memory, Q!memory, R!coord, Q!coord, R!screen, Q!screen
<1>2. R!Next <=> Q!Next
  BY SameCoordinate, SamePoll, SameSetup, SameServiceStep, Zenon DEF R!Next, Q!Next
<1> QED
  BY <1>1, <1>2, Zenon
-----------------------------------------------------------------------------
(* What BadgeReset builds on is what SetupServices keeps.                   *)
LEMMA SameService ==
  /\ R!service = Contract!vars /\ R!service' = Contract!vars'
  /\ R!S!Init <=> Contract!Init
  /\ R!S!StartSetup <=> Contract!StartSetup
  /\ R!S!EndSetup <=> Contract!EndSetup
  /\ R!S!SaveForm <=> Contract!SaveForm
  /\ R!S!RequestReset <=> Contract!RequestReset
  /\ R!S!BeginReset <=> Contract!BeginReset
  /\ R!S!Wipe <=> Contract!Wipe
  /\ R!S!EndReset <=> Contract!EndReset
  /\ R!S!ReadOwner <=> Contract!ReadOwner
  /\ R!S!SavePhoto <=> Contract!SavePhoto
  /\ R!S!ClearProfile <=> Contract!ClearProfile
  /\ R!S!Initialize <=> Contract!Initialize
  /\ R!S!Reboot <=> Contract!Reboot
<1> USE DEF R!S!Owners, Contract!Owners, R!S!ResetPending, Contract!ResetPending,
            R!S!ResetAllowed, Contract!ResetAllowed
<1>1. R!service = Contract!vars /\ R!service' = Contract!vars'
  BY Zenon DEF R!service, Contract!vars
<1>2. R!S!Init <=> Contract!Init
  BY Zenon DEF R!S!Init, Contract!Init
<1>3. /\ R!S!StartSetup <=> Contract!StartSetup
      /\ R!S!EndSetup <=> Contract!EndSetup
      /\ R!S!SaveForm <=> Contract!SaveForm
  BY Zenon DEF R!S!StartSetup, Contract!StartSetup, R!S!EndSetup, Contract!EndSetup,
     R!S!SaveForm, Contract!SaveForm
<1>4. /\ R!S!RequestReset <=> Contract!RequestReset
      /\ R!S!BeginReset <=> Contract!BeginReset
      /\ R!S!Wipe <=> Contract!Wipe
      /\ R!S!EndReset <=> Contract!EndReset
  BY Zenon DEF R!S!RequestReset, Contract!RequestReset, R!S!BeginReset, Contract!BeginReset,
     R!S!Wipe, Contract!Wipe, R!S!EndReset, Contract!EndReset
<1>5. /\ R!S!ReadOwner <=> Contract!ReadOwner
      /\ R!S!SavePhoto <=> Contract!SavePhoto
      /\ R!S!ClearProfile <=> Contract!ClearProfile
      /\ R!S!Initialize <=> Contract!Initialize
      /\ R!S!Reboot <=> Contract!Reboot
  BY Zenon DEF R!S!ReadOwner, Contract!ReadOwner, R!S!SavePhoto, Contract!SavePhoto,
     R!S!ClearProfile, Contract!ClearProfile, R!S!Initialize, Contract!Initialize,
     R!S!Reboot, Contract!Reboot
<1> QED
  BY <1>1, <1>2, <1>3, <1>4, <1>5

(* The variables of the coordinator over the tasks.                         *)
LEMMA SystemVars ==
  /\ UNCHANGED <<memory, asking, changed, shown>> =>
       UNCHANGED <<R!stored, R!memory, R!coord, R!screen, fresh, torn, late>>
         /\ UNCHANGED sameRevision
  /\ UNCHANGED Contract!vars /\ UNCHANGED <<memory, asking, changed, shown>> => UNCHANGED R!vars
  /\ UNCHANGED vars => UNCHANGED Contract!vars
<1>1. UNCHANGED <<memory, asking, changed, shown>> =>
       UNCHANGED <<R!stored, R!memory, R!coord, R!screen, fresh, torn, late>>
         /\ UNCHANGED sameRevision
  BY Zenon DEF memory, asking, changed, shown, R!stored, R!memory, R!coord, R!screen
<1>2. UNCHANGED Contract!vars /\ UNCHANGED <<memory, asking, changed, shown>> => UNCHANGED R!vars
  <2> SUFFICES ASSUME UNCHANGED Contract!vars, UNCHANGED <<memory, asking, changed, shown>>
               PROVE  UNCHANGED R!vars
    BY Zenon
  <2>1. UNCHANGED R!service
    BY SameService, Zenon
  <2> QED
    BY <1>1, <2>1, Zenon DEF R!vars
<1>3. UNCHANGED vars => UNCHANGED Contract!vars
  BY DEF vars, store, clock, portal, slots, radios, service, phone,
     main, session, Contract!vars, SetupBusy
<1> QED
  BY <1>1, <1>2, <1>3, Zenon

(* Every step is one of the tasks, or leaves them alone.                    *)
LEMMA TaskSteps ==
  ASSUME [SystemNext]_system
  PROVE  [Next]_vars
<1>1. CASE Coordinate \/ UNCHANGED system
  BY <1>1, Zenon DEF Coordinate, system
<1>2. CASE Command \/ ShowSetup \/ HideSetup \/ EraseProfile
  BY <1>2, Zenon DEF Command, ShowSetup, HideSetup, EraseProfile, Next, Run, MainStep
<1>3. CASE Confirm
  BY <1>3, Zenon DEF Confirm, TakeUp, Ignore, Next, Run, MainStep
<1>4. CASE Wipe \/ KeepPhoto
  BY <1>4, Zenon DEF Wipe, KeepPhoto, Next, Run, ServiceStep
<1>5. CASE KeepForm \/ KeepWifi
  BY <1>5, Zenon DEF KeepForm, KeepWifi, Next, Run, HandlerStep
<1>6. CASE Serve
  <2>1. ServiceStep \/ HandlerStep \/ ServePage \/ AdmitPost \/ Expire \/ EndGrace
    BY <1>6, Zenon DEF Serve
  <2> QED
    BY <2>1, Zenon DEF Next, Run
<1>7. CASE Restart
  BY <1>7, Zenon DEF Restart, Next
<1> QED
  BY <1>1, <1>2, <1>3, <1>4, <1>5, <1>6, <1>7, Zenon DEF SystemNext

-----------------------------------------------------------------------------
(* The setup screen and the request for it come and go together: in the     *)
(* coordinator's own steps,                                                 *)
LEMMA CoordinateScreen ==
  ASSUME SystemInv, Coordinate
  PROVE  ScreenOfSetup'
<1>1. setupRequested' = setupRequested
  BY Zenon DEF Coordinate, vars, main
<1>2. (view' = "setup") <=> (view = "setup")
  <2> USE DEF R!screen
  <2>1. CASE R!Tick \/ R!Persist \/ R!Relock \/ R!ConfigureWifi
    BY <2>1, Zenon DEF R!Tick, R!Persist, R!Relock, R!ConfigureWifi
  <2>2. CASE \E k \in Changeable : R!Change(k)
    BY <2>2, Zenon DEF R!Change
  <2>3. CASE R!OpenReset \/ R!CloseReset
    BY <2>3 DEF R!OpenReset, R!CloseReset
  <2>4. CASE R!PollReset
    BY <2>4, Zenon DEF R!PollReset, R!ReportFailure, R!BeginWrites, R!WriteDefault, R!Commit, R!Finish
  <2> QED
    BY <2>1, <2>2, <2>3, <2>4, Zenon DEF Coordinate
<1> QED
  BY <1>1, <1>2 DEF SystemInv, ScreenOfSetup

(* in its commands,                                                         *)
LEMMA CommandScreen ==
  ASSUME SystemInv, Command \/ ShowSetup \/ HideSetup \/ EraseProfile \/ Confirm
  PROVE  ScreenOfSetup'
<1> USE DEF SystemInv, ScreenOfSetup, main
<1>1. CASE Command
  BY <1>1 DEF Command, shown, CloseSetup, RequestProbe, ReadPhotoTarget, RequestPhoto
<1>2. CASE ShowSetup
  BY <1>2 DEF ShowSetup, StartSetup
<1>3. CASE HideSetup
  BY <1>3 DEF HideSetup, LeaveSetup
<1>4. CASE EraseProfile
  BY <1>4 DEF EraseProfile, shown, ClearProfile, InitializeStorage
<1>5. CASE Confirm
  BY <1>5 DEF Confirm, TakeUp, Ignore, RequestReset, vars
<1> QED
  BY <1>1, <1>2, <1>3, <1>4, <1>5

(* and not in the other tasks.                                              *)
LEMMA OtherScreen ==
  ASSUME SystemInv, Wipe \/ KeepPhoto \/ KeepForm \/ KeepWifi \/ Serve
  PROVE  ScreenOfSetup'
<1>1. view' = view
  BY Zenon DEF Wipe, KeepPhoto, KeepForm, KeepWifi, Serve, shown
<1>2. main' = main
  <2>1. CASE ServiceStep
    BY <2>1, Zenon DEF ServiceStep, BeginReset, WipeProfile, EndReset, TakeFetch, JoinStation,
       FinishFetch, SnapProfile, SavePhoto, ReportFetch, CheckStart, CopyPortal, StartNetwork,
       AbortStart, PublishStart, MarkRunning, CheckIdle, CancelStart, CheckDeadlines, CheckClose,
       CloseNetwork, ClearRunning, PublishClose
  <2>2. CASE HandlerStep
    BY <2>2, Zenon DEF HandlerStep, CheckSession, ReceiveBody, PostCancel, PostClock, PostForm,
       SaveWifi, SaveProfile, ReadFormTarget, QueuePhoto, FinishSave
  <2>3. CASE ServePage \/ AdmitPost \/ Expire \/ EndGrace
    BY <2>3, Zenon DEF ServePage, AdmitPost, Expire, EndGrace, phone
  <2> QED
    BY <2>1, <2>2, <2>3, Zenon DEF Wipe, KeepPhoto, KeepForm, KeepWifi, Serve, ServiceStep,
       HandlerStep
<1> QED
  <2>1. setupRequested' = setupRequested
    BY <1>2 DEF main
  <2> QED
    BY <1>1, <2>1 DEF SystemInv, ScreenOfSetup

LEMMA ScreenStep ==
  ASSUME SystemInv, [SystemNext]_system
  PROVE  ScreenOfSetup'
<1>1. CASE UNCHANGED system
  BY <1>1, Zenon DEF system, shown, vars, main, SystemInv, ScreenOfSetup
<1>2. CASE Restart
  BY <1>2 DEF Restart, Reboot, R!Idle, ScreenOfSetup
<1> QED
  BY <1>1, <1>2, CoordinateScreen, CommandScreen, OtherScreen, Zenon DEF SystemNext
-----------------------------------------------------------------------------
(* What the coordinator may rely on.                                        *)
LEMMA CoordinatorFacts ==
  ASSUME SystemInv
  PROVE  /\ IInv /\ sameRevision \in BOOLEAN
         /\ active \/ starting => view = "setup"
         /\ setupRequested <=> view = "setup"
         /\ http # "idle" => active /\ ap
<1>1. IInv /\ (setupRequested <=> view = "setup")
  BY Zenon DEF SystemInv, ScreenOfSetup
<1>2. sameRevision \in BOOLEAN
  BY Q!Types, Zenon DEF SystemInv, Q!IInv, Q!FlagsOK
<1>3. active \/ starting => view = "setup"
  BY Zenon DEF SystemInv, Q!IInv, Q!ServiceInv
<1>4. http # "idle" => active /\ ap
  BY <1>1 DEF IInv, NetInv
<1> QED
  BY <1>1, <1>2, <1>3, <1>4

(* Its own steps leave the tasks alone.                                     *)
LEMMA CoordinateStep ==
  ASSUME SystemInv, Coordinate
  PROVE  R!Next
  BY Zenon DEF Coordinate, R!Next

(* Its commands are what the contract has for them, or nothing.             *)
LEMMA CommandStep ==
  ASSUME SystemInv, Command
  PROVE  [R!Next]_(R!vars)
<1>1. Contract!EndSetup \/ UNCHANGED Contract!vars
  BY MainContract, CoordinatorFacts, Zenon DEF Command
<1>2. UNCHANGED <<memory, asking, changed, shown>>
  BY Zenon DEF Command
<1>3. CASE Contract!EndSetup
  BY <1>2, <1>3, SystemVars, SameService, Zenon DEF R!Next, R!ServiceStep, R!EndSetup
<1> QED
  BY <1>1, <1>2, <1>3, SystemVars, Zenon

LEMMA ShowStep ==
  ASSUME SystemInv, ShowSetup
  PROVE  [R!Next]_(R!vars)
<1>1. \/ Contract!StartSetup /\ setupRequested'
      \/ UNCHANGED Contract!vars /\ ~setupRequested'
  BY StartContract, CoordinatorFacts, Zenon DEF ShowSetup
<1>2. /\ UNCHANGED <<memory, asking, changed, built>> /\ pc = "loop" /\ view = "none"
      /\ IF setupRequested'
         THEN view' = "setup" /\ late' = IF resetRequested THEN "setup" ELSE late
         ELSE UNCHANGED <<view, late>>
  BY Zenon DEF ShowSetup
<1>3. CASE Contract!StartSetup /\ setupRequested'
  <2>1. R!S!StartSetup /\ view' = "setup" /\ late' = IF resetRequested THEN "setup" ELSE late
    BY <1>2, <1>3, SameService, Zenon
  <2>2. UNCHANGED <<R!stored, R!memory, R!coord, sameRevision, confirmed, fresh, torn>>
    BY <1>2, Zenon DEF memory, asking, changed, R!stored, R!memory, R!coord
  <2> QED
    BY <1>2, <2>1, <2>2, Zenon DEF R!Next, R!StartSetup
<1>4. CASE UNCHANGED Contract!vars /\ ~setupRequested'
  <2>1. UNCHANGED <<memory, asking, changed, shown>>
    BY <1>2, <1>4, Zenon DEF shown
  <2> QED
    BY <1>4, <2>1, SystemVars, Zenon
<1> QED
  BY <1>1, <1>3, <1>4

LEMMA HideStep ==
  ASSUME SystemInv, HideSetup
  PROVE  R!LeaveSetup
<1>1. /\ view = "setup" /\ ~(active \/ starting) /\ R!Polled
      /\ view' = "none" /\ built' = "page"
      /\ R!Refresh(ram, pending, fresh)
  BY CoordinatorFacts, Zenon DEF HideSetup, LeaveSetup
<1>2. UNCHANGED Contract!vars
  BY DEF HideSetup, LeaveSetup, Contract!vars, SetupBusy, store, portal, slots, service
<1>3. UNCHANGED <<R!service, R!stored, nvs, R!coord, sameRevision, confirmed, torn, late>>
  <2>1. UNCHANGED R!service
    BY <1>2, SameService, Zenon
  <2> QED
    BY <2>1, Zenon DEF HideSetup, asking, R!stored, R!coord
<1> QED
  BY <1>1, <1>3, Zenon DEF R!LeaveSetup

LEMMA EraseStep ==
  ASSUME SystemInv, EraseProfile
  PROVE  R!ClearProfile \/ R!Initialize
<1>1. R!S!ClearProfile \/ R!S!Initialize
  BY RequestContract, CoordinatorFacts, SameService, Zenon DEF EraseProfile
<1>2. pc = "loop" /\ view # "setup" /\ sameRevision' = FALSE
  BY CoordinatorFacts, Zenon DEF EraseProfile, ClearProfile, InitializeStorage
<1>3. UNCHANGED <<R!stored, R!memory, R!coord, R!screen, fresh, torn, late>>
  BY Zenon DEF EraseProfile, memory, asking, shown, R!stored, R!memory, R!coord, R!screen
<1> QED
  BY <1>1, <1>2, <1>3, Zenon DEF R!ClearProfile, R!Initialize

LEMMA TakeUpStep ==
  ASSUME SystemInv, TakeUp
  PROVE  R!TakeUp
<1>1. /\ ~resetRequested /\ view # "setup"
      /\ built' = IF resetState' = "Failed" THEN "confirmation" ELSE "neither"
      /\ late' = IF R!RetrySettings /\ late = "setup" THEN late
                 ELSE IF view = "reset" THEN "no" ELSE "tap"
      /\ R!Refresh(ram, pending, fresh) /\ UNCHANGED <<nvs, pc>>
  BY CoordinatorFacts, Zenon DEF TakeUp
<1>2. CASE /\ R!RetrySettings
           /\ resetRequested' = TRUE /\ resetState' = "Working"
           /\ UNCHANGED <<vars, resetNeedsPreferences>>
  <2>1. UNCHANGED R!service
    BY <1>2, SystemVars, SameService, Zenon
  <2> QED
    BY <1>1, <1>2, <2>1, Zenon DEF R!TakeUp
<1>3. CASE /\ ~R!RetrySettings /\ resetNeedsPreferences' = FALSE
           /\ RequestReset /\ resetRequested' = TRUE /\ resetState' = "Working"
  <2>1. R!S!RequestReset
    BY <1>3, RequestContract, CoordinatorFacts, SameService, Zenon
  <2> QED
    BY <1>1, <1>3, <2>1, Zenon DEF R!TakeUp
<1>4. CASE /\ ~R!RetrySettings /\ resetNeedsPreferences' = FALSE
           /\ ResetPending \/ SetupBusy \/ ~ready
           /\ resetRequested' = FALSE /\ resetState' = "Failed"
           /\ UNCHANGED vars
  <2>1. UNCHANGED R!service
    BY <1>4, SystemVars, SameService, Zenon
  <2>2. ~R!S!ResetAllowed
    BY <1>4, Zenon DEF R!S!ResetAllowed, R!S!ResetPending, ResetPending
  <2> QED
    BY <1>1, <1>4, <2>1, <2>2, Zenon DEF R!TakeUp
<1> QED
  BY <1>2, <1>3, <1>4, Zenon DEF TakeUp

LEMMA ConfirmStep ==
  ASSUME SystemInv, Confirm
  PROVE  R!Confirm
<1>1. /\ pc = "loop" /\ built = "confirmation" /\ ~(confirmed /\ resetState = "Working")
      /\ confirmed' = TRUE /\ UNCHANGED <<R!stored, sameRevision, view, torn>>
  BY Zenon DEF Confirm, R!stored
<1>2. CASE TakeUp
  BY <1>1, <1>2, TakeUpStep, Zenon DEF R!Confirm
<1>3. CASE Ignore
  <2>1. UNCHANGED <<R!service, R!memory, R!coord>>
    BY <1>3, SystemVars, SameService, Zenon DEF Ignore, R!memory, R!coord
  <2>2. (resetRequested \/ view = "setup") /\ built' = "neither" /\ UNCHANGED <<fresh, late>>
    BY <1>3, CoordinatorFacts, Zenon DEF Ignore
  <2>3. R!Ignore
    BY <2>1, <2>2, Zenon DEF R!Ignore
  <2> QED
    BY <1>1, <2>3, Zenon DEF R!Confirm
<1> QED
  BY <1>2, <1>3, Zenon DEF Confirm
-----------------------------------------------------------------------------
(* A step of the service task that the coordinator only sees in the slot,   *)
(* the store and the snapshot.                                              *)
LEMMA TaskStep ==
  ASSUME \/ Contract!EndSetup \/ Contract!BeginReset \/ Contract!EndReset
         \/ Contract!ReadOwner \/ UNCHANGED Contract!vars,
         UNCHANGED <<memory, asking, changed, shown>>
  PROVE  [R!Next]_(R!vars)
<1>1. CASE Contract!EndSetup \/ Contract!BeginReset \/ Contract!EndReset \/ Contract!ReadOwner
  <2>1. R!EndSetup \/ R!BeginReset \/ R!EndReset \/ R!ReadOwner
    BY <1>1, SystemVars, SameService, Zenon
       DEF R!EndSetup, R!BeginReset, R!EndReset, R!ReadOwner
  <2> QED
    BY <2>1, SystemVars, Zenon DEF R!ServiceStep, R!Next
<1> QED
  BY <1>1, SystemVars, Zenon

LEMMA ServeStep ==
  ASSUME SystemInv, Serve
  PROVE  [R!Next]_(R!vars)
<1>1. UNCHANGED <<memory, asking, changed, shown>>
  BY Zenon DEF Serve
<1>2. CASE ServiceStep /\ svc \notin {"wipe", "savePhoto"}
  <2>1. ~WipeProfile /\ ~SavePhoto
    BY <1>2 DEF WipeProfile, SavePhoto
  <2>2. CASE BeginReset \/ EndReset
    BY <1>1, <2>2, TaskStep, ResetContract, CoordinatorFacts, Zenon
  <2>3. CASE TakeFetch \/ JoinStation \/ FinishFetch \/ SnapProfile \/ ReportFetch
    BY <1>1, <2>3, TaskStep, FetchContract, CoordinatorFacts, Zenon
  <2>4. CASE \/ CheckStart \/ CopyPortal \/ StartNetwork \/ AbortStart \/ PublishStart
             \/ MarkRunning \/ CheckIdle \/ CancelStart \/ CheckDeadlines \/ CheckClose
             \/ CloseNetwork \/ ClearRunning \/ PublishClose
    BY <1>1, <2>4, TaskStep, NetworkContract, CoordinatorFacts, Zenon
  <2> QED
    BY <1>2, <2>1, <2>2, <2>3, <2>4, Zenon DEF ServiceStep
<1>3. CASE HandlerStep /\ http \notin {"wifi", "record"}
  <2>1. ~SaveProfile
    BY <1>3 DEF SaveProfile
  <2>2. UNCHANGED Contract!vars
    BY <1>3, <2>1, HttpContract, CoordinatorFacts, Zenon DEF HandlerStep
  <2> QED
    BY <1>1, <2>2, TaskStep, Zenon
<1>4. CASE ServePage \/ AdmitPost \/ Expire \/ EndGrace
  <2>1. UNCHANGED Contract!vars
    BY <1>4, HttpContract, TimeContract, CoordinatorFacts, Zenon
  <2> QED
    BY <1>1, <2>1, TaskStep, Zenon
<1> QED
  BY <1>2, <1>3, <1>4, Zenon DEF Serve

(* A save that succeeds counts the revision up, one that fails does not.    *)
LEMMA WipeStep ==
  ASSUME SystemInv, Wipe
  PROVE  [R!Next]_(R!vars)
<1>1. (Contract!Wipe /\ ok') \/ (UNCHANGED Contract!vars /\ ~ok')
  BY ResetContract, CoordinatorFacts, Zenon DEF Wipe
<1>2. UNCHANGED <<memory, asking, wifi, fresh, shown>>
      /\ sameRevision' = (sameRevision /\ ~ok') /\ sameRevision \in BOOLEAN
  BY CoordinatorFacts, Zenon DEF Wipe
<1>3. UNCHANGED <<R!stored, R!memory, R!coord, R!screen, fresh, torn, late>>
  BY <1>2, Zenon DEF memory, asking, shown, R!stored, R!memory, R!coord, R!screen
<1>4. CASE Contract!Wipe /\ ok'
  <2>1. sameRevision' = FALSE
    BY <1>2, <1>4
  <2> QED
    BY <1>3, <1>4, <2>1, SameService, Zenon DEF R!Next, R!ServiceStep, R!Wipe
<1>5. CASE UNCHANGED Contract!vars /\ ~ok'
  <2>1. sameRevision' = sameRevision
    BY <1>2, <1>5
  <2> QED
    BY <1>3, <1>5, <2>1, SameService, Zenon DEF R!vars
<1> QED
  BY <1>1, <1>4, <1>5

LEMMA PhotoStep ==
  ASSUME SystemInv, KeepPhoto
  PROVE  [R!Next]_(R!vars)
<1>1. Contract!SavePhoto /\ (ok' \/ flash' = flash)
  BY PhotoContract, CoordinatorFacts, Zenon DEF KeepPhoto
<1>2. UNCHANGED <<memory, asking, wifi, fresh, shown>>
      /\ sameRevision' = (sameRevision /\ ~ok') /\ sameRevision \in BOOLEAN
  BY CoordinatorFacts, Zenon DEF KeepPhoto
<1>3. UNCHANGED <<R!stored, R!memory, R!coord, R!screen, fresh, torn, late>>
  BY <1>2, Zenon DEF memory, asking, shown, R!stored, R!memory, R!coord, R!screen
<1>4. sameRevision' \in {FALSE, sameRevision /\ flash.who' = flash.who}
  BY <1>1, <1>2
<1>5. R!SavePhoto
  BY <1>1, <1>4, SameService, Zenon DEF R!SavePhoto
<1> QED
  BY <1>3, <1>5, Zenon DEF R!Next, R!ServiceStep

LEMMA FormStep ==
  ASSUME SystemInv, KeepForm
  PROVE  [R!Next]_(R!vars)
<1>1. (Contract!SaveForm /\ saved') \/ (UNCHANGED Contract!vars /\ ~saved')
  BY FormContract, CoordinatorFacts, Zenon DEF KeepForm
<1>2. UNCHANGED <<R!stored, R!memory, R!coord, R!screen, torn, late>>
  BY Zenon DEF KeepForm, memory, asking, shown, R!stored, R!memory, R!coord, R!screen
<1>3. CASE Contract!SaveForm /\ saved'
  <2>1. sameRevision' = FALSE /\ fresh' = FALSE
    BY <1>3, Zenon DEF KeepForm
  <2> QED
    BY <1>2, <1>3, <2>1, SameService, Zenon DEF R!Next, R!SaveForm
<1>4. CASE UNCHANGED Contract!vars /\ ~saved'
  <2>1. UNCHANGED <<sameRevision, fresh>>
    BY <1>4, Zenon DEF KeepForm
  <2> QED
    BY <1>2, <1>4, <2>1, SameService, Zenon DEF R!vars
<1> QED
  BY <1>1, <1>3, <1>4

LEMMA WifiStep ==
  ASSUME SystemInv, KeepWifi
  PROVE  [R!Next]_(R!vars)
<1>1. UNCHANGED Contract!vars
  BY HttpContract, CoordinatorFacts, Zenon DEF KeepWifi
<1>2. active \/ starting
  BY CoordinatorFacts DEF KeepWifi, SaveWifi
<1>3. UNCHANGED <<prefs, R!memory, R!coord, R!screen, sameRevision, torn, late>>
  BY Zenon DEF KeepWifi, memory, asking, shown, R!memory, R!coord, R!screen
<1>4. CASE UNCHANGED <<wifi, fresh>>
  BY <1>1, <1>3, <1>4, SameService, Zenon DEF R!vars, R!stored
<1>5. CASE wifi' \in {"none", "some"} /\ fresh' = FALSE
  BY <1>1, <1>2, <1>3, <1>5, SameService, Zenon DEF R!Next, R!SaveWifi
<1> QED
  BY <1>4, <1>5, Zenon DEF KeepWifi

(* A restart is one of both.                                                *)
LEMMA RestartStep ==
  ASSUME SystemInv, Restart
  PROVE  R!Restart
<1>1. R!S!Reboot
  BY RestartContract, CoordinatorFacts, SameService, Zenon DEF Restart
<1>2. UNCHANGED <<R!stored, fresh>>
  BY Zenon DEF Restart, R!stored
<1> QED
  BY <1>1, <1>2, Zenon DEF Restart, R!Restart

(* So every step is one the coordinator may see.                            *)
LEMMA CoordinatorSteps ==
  ASSUME SystemInv, [SystemNext]_system
  PROVE  [R!Next]_(R!vars)
<1>1. CASE Coordinate \/ HideSetup \/ EraseProfile \/ Confirm \/ Restart
  BY <1>1, CoordinateStep, HideStep, EraseStep, ConfirmStep, RestartStep, Zenon DEF R!Next
<1>2. CASE Command \/ ShowSetup
  BY <1>2, CommandStep, ShowStep, Zenon
<1>3. CASE Wipe \/ KeepPhoto \/ KeepForm \/ KeepWifi \/ Serve
  BY <1>3, WipeStep, PhotoStep, FormStep, WifiStep, ServeStep, Zenon
<1>4. CASE UNCHANGED system
  BY <1>4, SystemVars, Zenon DEF system
<1> QED
  BY <1>1, <1>2, <1>3, <1>4, Zenon DEF SystemNext

-----------------------------------------------------------------------------
(* The inductive invariant.                                                 *)
LEMMA SystemInvInit == R!ResetAssumption /\ SystemInit => SystemInv
<1> SUFFICES ASSUME R!ResetAssumption, SystemInit PROVE SystemInv
  OBVIOUS
<1>1. Init /\ Q!Init /\ Q!ResetAssumption
  BY SameParts, Zenon DEF SystemInit
<1>2. IInv
  BY <1>1, InitInv
<1>3. Q!IInv
  BY <1>1, Q!InitInv
<1>4. ScreenOfSetup
  BY <1>1 DEF Init, Q!Init, ScreenOfSetup
<1> QED
  BY <1>2, <1>3, <1>4, Zenon DEF SystemInv

LEMMA SystemInvStep ==
  R!ResetAssumption /\ SystemInv /\ [SystemNext]_system => SystemInv'
<1> SUFFICES ASSUME R!ResetAssumption, SystemInv, [SystemNext]_system PROVE SystemInv'
  OBVIOUS
<1>1. IInv'
  BY TaskSteps, NextInv, Zenon DEF SystemInv
<1>2. Q!IInv'
  BY SameParts, SameNext, CoordinatorSteps, Q!InvStep, Zenon DEF SystemInv
<1>3. ScreenOfSetup'
  BY ScreenStep
<1> QED
  BY <1>1, <1>2, <1>3, Zenon DEF SystemInv

LEMMA SystemInvariance == ASSUME R!ResetAssumption PROVE SystemSpec => []SystemInv
<1>1. SystemInit => SystemInv
  BY SystemInvInit
<1>2. SystemInv /\ [SystemNext]_system => SystemInv'
  BY SystemInvStep
<1> QED
  BY <1>1, <1>2, PTL DEF SystemSpec

-----------------------------------------------------------------------------
(* The coordinator over the three tasks is the coordinator over their       *)
(* contract, in every interleaving.                                         *)
THEOREM TasksServeCoordinator == ASSUME R!ResetAssumption PROVE SystemSpec => ServesCoordinator
<1>1. SystemInit => R!Init
  BY DEF SystemInit
<1>2. SystemInv /\ [SystemNext]_system => [R!Next]_(R!vars)
  BY CoordinatorSteps
<1> QED
  BY <1>1, <1>2, SystemInvariance, PTL DEF SystemSpec, ServesCoordinator

(* Under it the tasks do no more than they do for any user: all that is     *)
(* proved of SetupServices holds here.                                      *)
THEOREM CoordinatorUsesTasks == SystemSpec => Spec
<1>1. SystemInit => Init
  BY DEF SystemInit
<1>2. [SystemNext]_system => [Next]_vars
  BY TaskSteps
<1> QED
  BY <1>1, <1>2, PTL DEF SystemSpec, Spec

(* Neither the setup screen nor the request for setup outlives the other.   *)
THEOREM ScreenGoesWithSetup == ASSUME R!ResetAssumption PROVE SystemSpec => []ScreenOfSetup
<1>1. SystemInv => ScreenOfSetup
  BY Zenon DEF SystemInv
<1> QED
  BY <1>1, SystemInvariance, PTL

(* A completed reset leaves nothing, and nothing the tasks do brings it     *)
(* back.                                                                    *)
THEOREM ResetLeavesNothing == ASSUME R!ResetAssumption PROVE SystemSpec => []NothingLeft
<1>1. SystemInv => NothingLeft
  <2> SUFFICES ASSUME SystemInv PROVE NothingLeft
    OBVIOUS
  <2>1. R!ResetHolds
    <3>1. Q!NobodyInFlight \/ ~fresh
      BY Zenon DEF SystemInv, Q!IInv, Q!ClearedInv
    <3>2. Q!ResetHolds
      BY <3>1, Zenon DEF SystemInv, Q!IInv, Q!FreshInv, Q!NobodyInFlight, Q!ResetHolds
    <3> QED
      BY <3>2, SameParts, Zenon
  <2>2. fresh => flash.who = Nobody
    BY <2>1, Zenon DEF R!ResetHolds
  <2>3. flash.photo \in Accounts => flash.photo = flash.who
    BY Zenon DEF SystemInv, IInv, PhotoInv, PhotoBelongs
  <2> QED
    BY <2>1, <2>2, <2>3, ServicesAssumption, Zenon DEF ServicesAssumption, NothingLeft
<1> QED
  BY <1>1, SystemInvariance, PTL

(* While the settings are reset no task holds what would come back, where   *)
(* no setup was begun after a late tap.                                     *)
THEOREM NothingComesBack == ASSUME R!ResetAssumption PROVE SystemSpec => []NothingReturns
<1>1. SystemInv => NothingReturns
  <2> SUFFICES ASSUME SystemInv, pc # "loop", late # "setup"
               PROVE  http = "idle" /\ (svc = "savePhoto" => cur = Nobody)
    BY Zenon DEF NothingReturns
  <2>1. resetRequested /\ view # "setup" /\ resetNeedsPreferences
    BY Zenon DEF SystemInv, Q!IInv, Q!ResetKeepsScreen, Q!WriteInv
  <2>2. http = "idle"
    BY <2>1, CoordinatorFacts
  <2>3. Q!NobodyInFlight
    BY <2>1, Zenon DEF SystemInv, Q!IInv, Q!ClearedInv
  <2>4. cur # "none"
    BY ServicesAssumption, ConstantTypes, CoordinatorFacts DEF IInv, TypeOK, Owners
  <2> QED
    BY <2>2, <2>3, <2>4 DEF Q!NobodyInFlight
<1> QED
  BY <1>1, SystemInvariance, PTL

(* What the reset screen says is so of the real record.                     *)
THEOREM BadgeTellsTheTruth == ASSUME R!ResetAssumption PROVE SystemSpec => R!ResetTruth
<1>1. SystemInv /\ [SystemNext]_system => R!Truthful
  <2> SUFFICES ASSUME SystemInv, [SystemNext]_system PROVE R!Truthful
    OBVIOUS
  <2>1. Q!Truthful
    BY SameParts, SameNext, CoordinatorSteps, Q!TruthStep, Zenon DEF SystemInv
  <2> QED
    BY <2>1, Zenon DEF R!Truthful, Q!Truthful, R!Defaults, Q!Defaults, R!Keys, Q!Keys
<1>2. R!Truthful => [R!Truthful]_(R!vars)
  OBVIOUS
<1>3. SystemSpec => [][R!Truthful]_(R!vars)
  BY <1>1, <1>2, SystemInvariance, PTL DEF SystemSpec
<1> QED
  BY <1>3 DEF R!ResetTruth

(* Nothing is at work, in the service or the coordinator, without a reset   *)
(* that says so, and its screen stays up unless a late tap confirmed it.    *)
THEOREM BadgeKeepsScreen == ASSUME R!ResetAssumption PROVE SystemSpec => []R!ResetKeepsScreen
<1>1. SystemInv => R!ResetKeepsScreen
  BY SameParts, Zenon DEF SystemInv, Q!IInv
<1> QED
  BY <1>1, SystemInvariance, PTL

(* A restart changes no preference that is in use.                          *)
THEOREM BadgeKeepsPreferences == ASSUME R!ResetAssumption PROVE SystemSpec => []R!MemoryMatchesFlash
<1>1. SystemInv => R!MemoryMatchesFlash
  BY SameParts, Zenon DEF SystemInv, Q!IInv
<1> QED
  BY <1>1, SystemInvariance, PTL
=============================================================================
