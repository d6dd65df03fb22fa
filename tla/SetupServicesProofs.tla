------------------------ MODULE SetupServicesProofs ------------------------
(***************************************************************************)
(* Proofs about SetupServices for any accounts, and that it implements the  *)
(* contract ProfileService that BadgeReset is built on.                     *)
(***************************************************************************)
EXTENDS SetupServices, TLAPS

Fetching == {"join", "fetch", "snap", "savePhoto", "report"}
Early    == {"body", "recv", "cancel", "clock", "form", "wifi", "record"}
Late     == {"target", "queue", "finish"}

(* The access point as the service task sees it at each of its steps.       *)
NetInv ==
  /\ svc \in {"copy", "network", "abort", "publish", "mark", "closed", "cancel"}
       => ~running
  /\ svc \in {"close", "stop", "stopped"} => running
  /\ active <=> running \/ (svc = "mark" /\ ok) \/ svc = "closed"
  /\ svc \in {"stop", "stopped", "closed"} => ~requested
  /\ svc # "abort" => (ap <=> \/ running /\ svc # "stopped"
                              \/ svc \in {"publish", "mark"} /\ ok)
  /\ svc = "abort" => ~ok
  /\ http # "idle" => active /\ ap

(* What a start leaves for the service task to find.                        *)
StartInv ==
  /\ password <=> starting \/ active
  /\ active => ~starting
  /\ starting => setupRequested
  /\ usb # NoJob => ~setupRequested
  /\ svc = "network" /\ key => starting
  /\ svc = "publish" /\ ok => starting
  /\ starting \/ active => ready
  /\ starting /\ (svc = "publish" => ok) => nonce
  /\ ap /\ active => nonce

(* Download, reset and setup keep out of each other's way.                  *)
SlotInv ==
  /\ fetch = "Running" <=> svc \in Fetching
  /\ svc \in Fetching => ~SetupBusy
  /\ starting => ~FetchBusy
  /\ station <=> svc = "fetch"
  /\ svc \in {"snap", "savePhoto"} => ok /\ task.kind \in {"own", "named"}
  /\ (fetch = "Pending" => job # NoJob) /\ (svc \in Fetching => task # NoJob)
  /\ http = "queue" => form.who \in PhotoAccounts
  /\ reset = "Running" <=> svc \in {"wipe", "wiped"}
  /\ ResetPending => ~SetupBusy

(* The outcome and the record of the session.                               *)
OutcomeInv ==
  /\ outcome = "Saved" => saved
  /\ saved => outcome = "Saved" \/ http \in Late
  /\ http \in Late => saved
  /\ http \in Early => ~saved
  /\ requested \/ starting => active \/ ~saved
  /\ svc \in {"copy", "network", "abort", "publish"} => ~saved
  /\ svc = "mark" /\ ~ok => ~saved
  /\ http # "idle" => page = "current"

(* The account and its photo.                                               *)
PhotoInv ==
  /\ flash.photo \in Accounts => flash.photo = flash.who
  /\ svc = "savePhoto" /\ task.kind = "own" => cur = task.of
  /\ http \in {"wifi", "record"} /\ ~form.replace /\ flash.photo \in Accounts
       => flash.photo = form.who
  /\ erased => flash.who = Nobody
  /\ svc = "savePhoto" /\ erased => cur = Nobody

IInv == TypeOK /\ NetInv /\ StartInv /\ SlotInv /\ OutcomeInv /\ PhotoInv
-----------------------------------------------------------------------------
(* The constants of the data are well typed.                                *)
LEMMA ConstantTypes ==
  /\ NoForm \in Forms /\ NoJob \in Jobs /\ Probe \in Jobs
  /\ Empty \in Profiles /\ Nobody \in Owners
<1>1. \A r, p \in BOOLEAN : [who |-> Nobody, replace |-> r, photo |-> p] \in Forms
  BY DEF Forms, Owners
<1>2. NoForm \in Forms
  BY <1>1, Zenon DEF NoForm
<1> QED
  BY <1>2 DEF Jobs, Empty, Profiles, Owners

(* What a reader of the profile sees is a profile.                          *)
LEMMA SnapshotType ==
  ASSUME TypeOK
  PROVE  Snapshot \in Profiles /\ Snapshot.who \in Owners
  BY ConstantTypes DEF TypeOK, Snapshot, Profiles

(* The main task keeps the types.                                           *)
LEMMA MainType ==
  ASSUME TypeOK,
         \/ StartSetup
         \/ CloseSetup
         \/ LeaveSetup
         \/ RequestProbe
         \/ ReadPhotoTarget
         \/ RequestPhoto
         \/ RequestReset
         \/ ClearProfile
         \/ InitializeStorage
  PROVE  TypeOK'
<1> USE ServicesAssumption, ConstantTypes, SnapshotType
    DEF TypeOK, Outcomes, SlotStates, ServiceSteps, HttpSteps,
        store, clock, portal, slots, radios, service, phone, main, session
<1>1. CASE StartSetup
  <2>1. active' \in BOOLEAN /\ starting' \in BOOLEAN /\
       password' \in BOOLEAN /\ requested' \in BOOLEAN /\
       nonce' \in BOOLEAN /\ setupRequested' \in BOOLEAN /\
       saved' \in BOOLEAN /\ wifiKept' \in BOOLEAN
    BY <1>1 DEF StartSetup, MainFree, AgePage
  <2> QED
    BY <1>1, <2>1 DEF StartSetup, MainFree, AgePage
<1>2. CASE CloseSetup
  <2>1. requested' \in BOOLEAN
    BY <1>2 DEF CloseSetup, MainFree
  <2> QED
    BY <1>2, <2>1 DEF CloseSetup, MainFree
<1>3. CASE LeaveSetup
  <2>1. setupRequested' \in BOOLEAN
    BY <1>3 DEF LeaveSetup, MainFree
  <2> QED
    BY <1>3, <2>1 DEF LeaveSetup, MainFree
<1>4. CASE RequestProbe
  BY <1>4 DEF RequestProbe, MainFree, Enqueue
<1>5. CASE ReadPhotoTarget
  <2>1. usb' \in Jobs
    BY <1>5 DEF ReadPhotoTarget, Jobs
  <2> QED
    BY <1>5, <2>1 DEF ReadPhotoTarget
<1>6. CASE RequestPhoto
  BY <1>6 DEF RequestPhoto, MainFree, Enqueue
<1>7. CASE RequestReset
  BY <1>7 DEF RequestReset, MainFree
<1>8. CASE ClearProfile
  <2>1. ready' \in BOOLEAN /\ erased' \in BOOLEAN
    BY <1>8 DEF ClearProfile, MainFree, Save
  <2> QED
    BY <1>8, <2>1 DEF ClearProfile, MainFree, Save
<1>9. CASE InitializeStorage
  <2>1. ready' \in BOOLEAN
    BY <1>9 DEF InitializeStorage, MainFree
  <2> QED
    BY <1>9, <2>1 DEF InitializeStorage, MainFree
<1> QED
  BY <1>1, <1>2, <1>3, <1>4, <1>5, <1>6, <1>7, <1>8, <1>9

(* So does a reset,                                                         *)
LEMMA ResetType ==
  ASSUME TypeOK,
         \/ BeginReset
         \/ WipeProfile
         \/ EndReset
  PROVE  TypeOK'
<1> USE ServicesAssumption, ConstantTypes, SnapshotType
    DEF TypeOK, Outcomes, SlotStates, ServiceSteps, HttpSteps,
        store, clock, portal, slots, radios, service, phone, main, session
<1>1. CASE BeginReset
  BY <1>1 DEF BeginReset
<1>2. CASE WipeProfile
  <2>1. ready' \in BOOLEAN /\ erased' \in BOOLEAN /\ ok' \in BOOLEAN
    BY <1>2 DEF WipeProfile, Save
  <2> QED
    BY <1>2, <2>1 DEF WipeProfile, Save
<1>3. CASE EndReset
  <2>1. ok' \in BOOLEAN
    BY <1>3 DEF EndReset, ResetResult
  <2> QED
    BY <1>3, <2>1 DEF EndReset, ResetResult
<1> QED
  BY <1>1, <1>2, <1>3

(* a download,                                                              *)
LEMMA FetchType ==
  ASSUME TypeOK, SlotInv,
         \/ TakeFetch
         \/ JoinStation
         \/ FinishFetch
         \/ SnapProfile
         \/ SavePhoto
         \/ ReportFetch
  PROVE  TypeOK'
<1> USE ServicesAssumption, ConstantTypes, SnapshotType
    DEF TypeOK, Outcomes, SlotStates, ServiceSteps, HttpSteps,
        store, clock, portal, slots, radios, service, phone, main, session
<1>1. CASE TakeFetch
  BY <1>1 DEF TakeFetch, SetupGone
<1>2. CASE JoinStation
  <2>1. station' \in BOOLEAN /\ ok' \in BOOLEAN
    BY <1>2 DEF JoinStation
  <2> QED
    BY <1>2, <2>1 DEF JoinStation
<1>3. CASE FinishFetch
  <2>1. station' \in BOOLEAN /\ ok' \in BOOLEAN
    BY <1>3 DEF FinishFetch, PhotoDownload
  <2> QED
    BY <1>3, <2>1 DEF FinishFetch, PhotoDownload
<1>4. CASE SnapProfile
  <2>1. ok' \in BOOLEAN
    BY <1>4 DEF SnapProfile, TargetChanged
  <2> QED
    BY <1>4, <2>1 DEF SnapProfile, TargetChanged
<1>5. CASE SavePhoto
  <2>1. /\ task.kind \in {"own", "named"} /\ task \in Jobs /\ cur \in Owners
    BY <1>5 DEF SlotInv, SavePhoto
  <2>2. task.kind = "named" \/ task.of \in Accounts
    BY <2>1 DEF Jobs, NoJob, Probe
  <2>3. [who |-> cur, photo |-> IF task.kind = "named" THEN "named" ELSE task.of]
          \in Profiles
    BY <2>1, <2>2 DEF Profiles
  <2>4. flash' \in Profiles
    BY <1>5, <2>3 DEF SavePhoto, Save
  <2>5. ready' \in BOOLEAN /\ ok' \in BOOLEAN
    BY <1>5 DEF SavePhoto, Save
  <2> QED
    BY <1>5, <2>4, <2>5 DEF SavePhoto
<1>6. CASE ReportFetch
  <2>1. ok' \in BOOLEAN
    BY <1>6 DEF ReportFetch
  <2> QED
    BY <1>6, <2>1 DEF ReportFetch
<1> QED
  BY <1>1, <1>2, <1>3, <1>4, <1>5, <1>6

(* the access point,                                                        *)
LEMMA NetworkType ==
  ASSUME TypeOK,
         \/ CheckStart
         \/ CopyPortal
         \/ StartNetwork
         \/ AbortStart
         \/ PublishStart
         \/ MarkRunning
         \/ CheckIdle
         \/ CancelStart
         \/ CheckDeadlines
         \/ CheckClose
         \/ CloseNetwork
         \/ ClearRunning
         \/ PublishClose
  PROVE  TypeOK'
<1> USE ServicesAssumption, ConstantTypes, SnapshotType
    DEF TypeOK, Outcomes, SlotStates, ServiceSteps, HttpSteps,
        store, clock, portal, slots, radios, service, phone, main, session
<1>1. CASE CheckStart
  BY <1>1 DEF CheckStart
<1>2. CASE CopyPortal
  <2>1. key' \in BOOLEAN
    BY <1>2 DEF CopyPortal
  <2> QED
    BY <1>2, <2>1 DEF CopyPortal
<1>3. CASE StartNetwork
  <2>1. ap' \in BOOLEAN /\ ok' \in BOOLEAN /\ requested' \in BOOLEAN
    BY <1>3 DEF StartNetwork
  <2>2. svc' \in ServiceSteps
    BY <1>3 DEF StartNetwork
  <2>3. UNCHANGED <<store, portal, clock, running, nonce, slots, station, key,
                   cur, task, phone, main, session>>
    BY <1>3 DEF StartNetwork
  <2> QED
    BY <2>1, <2>2, <2>3
<1>4. CASE AbortStart
  <2>1. nonce' \in BOOLEAN /\ ap' \in BOOLEAN
    BY <1>4 DEF AbortStart, StopNetwork
  <2> QED
    BY <1>4, <2>1 DEF AbortStart, StopNetwork
<1>5. CASE PublishStart
  <2>1. active' \in BOOLEAN /\ starting' \in BOOLEAN /\
       password' \in BOOLEAN /\ expired' \in BOOLEAN
    BY <1>5 DEF PublishStart
  <2> QED
    BY <1>5, <2>1 DEF PublishStart
<1>6. CASE MarkRunning
  <2>1. running' \in BOOLEAN /\ ok' \in BOOLEAN /\ key' \in BOOLEAN
    BY <1>6 DEF MarkRunning
  <2> QED
    BY <1>6, <2>1 DEF MarkRunning
<1>7. CASE CheckIdle
  BY <1>7 DEF CheckIdle
<1>8. CASE CancelStart
  <2>1. starting' \in BOOLEAN /\ password' \in BOOLEAN
    BY <1>8 DEF CancelStart
  <2> QED
    BY <1>8, <2>1 DEF CancelStart
<1>9. CASE CheckDeadlines
  <2>1. requested' \in BOOLEAN
    BY <1>9 DEF CheckDeadlines, TimeUp, GraceOver
  <2> QED
    BY <1>9, <2>1 DEF CheckDeadlines, TimeUp, GraceOver
<1>10. CASE CheckClose
  BY <1>10 DEF CheckClose
<1>11. CASE CloseNetwork
  <2>1. nonce' \in BOOLEAN /\ ap' \in BOOLEAN
    BY <1>11 DEF CloseNetwork, StopNetwork
  <2> QED
    BY <1>11, <2>1 DEF CloseNetwork, StopNetwork
<1>12. CASE ClearRunning
  <2>1. running' \in BOOLEAN
    BY <1>12 DEF ClearRunning
  <2> QED
    BY <1>12, <2>1 DEF ClearRunning
<1>13. CASE PublishClose
  <2>1. active' \in BOOLEAN /\ starting' \in BOOLEAN /\
       password' \in BOOLEAN /\ expired' \in BOOLEAN
    BY <1>13 DEF PublishClose
  <2> QED
    BY <1>13, <2>1 DEF PublishClose
<1> QED
  BY <1>1, <1>2, <1>3, <1>4, <1>5, <1>6, <1>7, <1>8, <1>9, <1>10, <1>11, <1>12, <1>13

(* the HTTP task,                                                           *)
LEMMA HttpType ==
  ASSUME TypeOK, SlotInv,
         \/ ServePage
         \/ AdmitPost
         \/ CheckSession
         \/ ReceiveBody
         \/ PostCancel
         \/ PostClock
         \/ PostForm
         \/ SaveWifi
         \/ SaveProfile
         \/ ReadFormTarget
         \/ QueuePhoto
         \/ FinishSave
  PROVE  TypeOK'
<1> USE ServicesAssumption, ConstantTypes, SnapshotType
    DEF TypeOK, Outcomes, SlotStates, ServiceSteps, HttpSteps,
        store, clock, portal, slots, radios, service, phone, main, session
<1>1. CASE ServePage
  BY <1>1 DEF ServePage, SessionOpen
<1>2. CASE AdmitPost
  BY <1>2 DEF AdmitPost, SessionOpen, NonceMatches
<1>3. CASE CheckSession
  BY <1>3 DEF CheckSession, SessionOpen, Respond
<1>4. CASE ReceiveBody
  BY <1>4 DEF ReceiveBody, Respond
<1>5. CASE PostCancel
  BY <1>5 DEF PostCancel, Respond, FinishSession
<1>6. CASE PostClock
  BY <1>6 DEF PostClock, Respond
<1>7. CASE PostForm
  <2>1. ASSUME NEW a \in Owners, NEW r \in BOOLEAN, NEW p \in BOOLEAN
       PROVE  [who |-> a, replace |-> r, photo |-> p] \in Forms
    BY DEF Forms
  <2>2. form' \in Forms
    BY <1>7, <2>1 DEF PostForm, Respond
  <2> QED
    BY <1>7, <2>2 DEF PostForm, Respond
<1>8. CASE SaveWifi
  <2>1. wifiKept' \in BOOLEAN
    BY <1>8 DEF SaveWifi
  <2>2. http' \in HttpSteps /\ form' \in Forms
    BY <1>8 DEF SaveWifi, Respond
  <2>3. UNCHANGED <<store, portal, clock, requested, running, nonce, slots,
                   radios, service, page, main, saved>>
    BY <1>8 DEF SaveWifi
  <2> QED
    BY <2>1, <2>2, <2>3
<1>9. CASE SaveProfile
  <2>1. \A p : Save(p) => flash' = p
    BY DEF Save
  <2>2. form.who \in Owners /\ flash.photo \in Accounts \cup {"none", "named"}
    BY DEF Forms, Profiles
  <2>3. flash' \in Profiles
    BY <1>9, <2>1, <2>2 DEF SaveProfile, Profiles, store
  <2>4. ready' \in BOOLEAN /\ erased' \in BOOLEAN /\ saved' \in BOOLEAN
    BY <1>9 DEF SaveProfile, Save
  <2>5. form' \in Forms
    BY <1>9 DEF SaveProfile, Respond
  <2> QED
    BY <1>9, <2>3, <2>4, <2>5 DEF SaveProfile, Respond
<1>10. CASE ReadFormTarget
  <2>1. form' \in Forms
    BY <1>10, SnapshotType DEF ReadFormTarget, Forms
  <2> QED
    BY <1>10, <2>1 DEF ReadFormTarget
<1>11. CASE QueuePhoto
  <2>1. job' \in Jobs
    BY <1>11 DEF QueuePhoto, Enqueue, SlotInv, Jobs
  <2> QED
    BY <1>11, <2>1 DEF QueuePhoto, Enqueue
<1>12. CASE FinishSave
  BY <1>12 DEF FinishSave, Respond, FinishSession
<1> QED
  BY <1>1, <1>2, <1>3, <1>4, <1>5, <1>6, <1>7, <1>8, <1>9, <1>10, <1>11, <1>12

(* and time and restarts.                                                   *)
LEMMA RestType ==
  ASSUME TypeOK,
         \/ Expire
         \/ EndGrace
         \/ Reboot
  PROVE  TypeOK'
<1> USE ServicesAssumption, ConstantTypes, SnapshotType
    DEF TypeOK, Outcomes, SlotStates, ServiceSteps, HttpSteps,
        store, clock, portal, slots, radios, service, phone, main, session
<1>1. CASE Expire
  <2>1. expired' \in BOOLEAN
    BY <1>1 DEF Expire
  <2> QED
    BY <1>1, <2>1 DEF Expire
<1>2. CASE EndGrace
  BY <1>2 DEF EndGrace
<1>3. CASE Reboot
  <2>1. ready' \in BOOLEAN /\ active' \in BOOLEAN /\
       starting' \in BOOLEAN /\ password' \in BOOLEAN /\
       expired' \in BOOLEAN /\ requested' \in BOOLEAN /\
       running' \in BOOLEAN /\ nonce' \in BOOLEAN /\ ap' \in BOOLEAN
       /\ station' \in BOOLEAN /\ ok' \in BOOLEAN /\ key' \in BOOLEAN
       /\ setupRequested' \in BOOLEAN /\ saved' \in BOOLEAN /\
       wifiKept' \in BOOLEAN
    BY <1>3 DEF Reboot, AgePage
  <2> QED
    BY <1>3, <2>1 DEF Reboot, AgePage
<1> QED
  BY <1>1, <1>2, <1>3

-----------------------------------------------------------------------------
(* The main task keeps the inductive invariant.                             *)
LEMMA MainInv ==
  ASSUME IInv, TypeOK',
         \/ StartSetup
         \/ CloseSetup
         \/ LeaveSetup
         \/ RequestProbe
         \/ ReadPhotoTarget
         \/ RequestPhoto
         \/ RequestReset
         \/ ClearProfile
         \/ InitializeStorage
  PROVE  NetInv' /\ StartInv' /\ SlotInv' /\ OutcomeInv' /\ PhotoInv'
<1> USE ServicesAssumption
    DEF IInv, TypeOK, NetInv, StartInv, SlotInv, OutcomeInv, PhotoInv,
        Fetching, Early, Late, SetupBusy, FetchBusy, ResetPending,
        store, clock, portal, slots, radios, service, phone, main, session
<1>1. CASE StartSetup
  BY <1>1 DEF StartSetup, MainFree, AgePage
<1>2. CASE CloseSetup
  BY <1>2 DEF CloseSetup, MainFree
<1>3. CASE LeaveSetup
  BY <1>3 DEF LeaveSetup, MainFree
<1>4. CASE RequestProbe
  <2>1. SlotInv'
    BY <1>4 DEF RequestProbe, Enqueue, NoJob, Probe
  <2> QED
    BY <1>4, <2>1 DEF RequestProbe, MainFree, Enqueue
<1>5. CASE ReadPhotoTarget
  BY <1>5 DEF ReadPhotoTarget, MainFree, Snapshot
<1>6. CASE RequestPhoto
  <2>1. SlotInv'
    BY <1>6 DEF RequestPhoto, MainFree, Enqueue
  <2> QED
    BY <1>6, <2>1 DEF RequestPhoto, MainFree, Enqueue
<1>7. CASE RequestReset
  BY <1>7 DEF RequestReset, MainFree
<1>8. CASE ClearProfile
  <2>1. PhotoInv'
    BY <1>8 DEF ClearProfile, Save, Empty
  <2> QED
    BY <1>8, <2>1 DEF ClearProfile, MainFree, Save
<1>9. CASE InitializeStorage
  <2>1. PhotoInv'
    BY <1>9 DEF InitializeStorage, Empty
  <2> QED
    BY <1>9, <2>1 DEF InitializeStorage, MainFree
<1> QED
  BY <1>1, <1>2, <1>3, <1>4, <1>5, <1>6, <1>7, <1>8, <1>9

(* So does a reset,                                                         *)
LEMMA ResetInv ==
  ASSUME IInv, TypeOK',
         \/ BeginReset
         \/ WipeProfile
         \/ EndReset
  PROVE  NetInv' /\ StartInv' /\ SlotInv' /\ OutcomeInv' /\ PhotoInv'
<1> USE ServicesAssumption
    DEF IInv, TypeOK, NetInv, StartInv, SlotInv, OutcomeInv, PhotoInv,
        Fetching, Early, Late, SetupBusy, FetchBusy, ResetPending,
        store, clock, portal, slots, radios, service, phone, main, session
<1>1. CASE BeginReset
  BY <1>1 DEF BeginReset
<1>2. CASE WipeProfile
  <2>1. PhotoInv'
    BY <1>2 DEF WipeProfile, Save, Empty
  <2> QED
    BY <1>2, <2>1 DEF WipeProfile, Save
<1>3. CASE EndReset
  BY <1>3 DEF EndReset, ResetResult
<1> QED
  BY <1>1, <1>2, <1>3

(* a download,                                                              *)
LEMMA FetchInv ==
  ASSUME IInv, TypeOK',
         \/ TakeFetch
         \/ JoinStation
         \/ FinishFetch
         \/ SnapProfile
         \/ SavePhoto
         \/ ReportFetch
  PROVE  NetInv' /\ StartInv' /\ SlotInv' /\ OutcomeInv' /\ PhotoInv'
<1> USE ServicesAssumption
    DEF IInv, TypeOK, NetInv, StartInv, SlotInv, OutcomeInv, PhotoInv,
        Fetching, Early, Late, SetupBusy, FetchBusy, ResetPending,
        store, clock, portal, slots, radios, service, phone, main, session
<1>1. CASE TakeFetch
  BY <1>1 DEF TakeFetch, SetupGone
<1>2. CASE JoinStation
  BY <1>2 DEF JoinStation
<1>3. CASE FinishFetch
  <2>1. SlotInv'
    BY <1>3 DEF FinishFetch, PhotoDownload, Jobs, NoJob, Probe
  <2> QED
    BY <1>3, <2>1 DEF FinishFetch, PhotoDownload
<1>4. CASE SnapProfile
  <2>1. PhotoInv'
    BY <1>4 DEF SnapProfile, Snapshot, TargetChanged, Empty
  <2> QED
    BY <1>4, <2>1 DEF SnapProfile, Snapshot, TargetChanged
<1>5. CASE SavePhoto
  <2>1. NetInv' /\ StartInv' /\ OutcomeInv'
    BY <1>5 DEF SavePhoto, Save
  <2>2. SlotInv'
    BY <1>5 DEF SavePhoto
  <2>3. PhotoInv'
    <3>1. /\ task.kind \in {"own", "named"} /\ (task.kind = "own" => cur = task.of)
          /\ svc' = "report" /\ UNCHANGED <<erased, http, form>>
          /\ http \notin {"wifi", "record"} /\ (erased => cur = Nobody)
      BY <1>5, Zenon DEF SavePhoto
    <3>2. \/ flash' = [who |-> cur, photo |-> IF task.kind = "named" THEN "named" ELSE task.of]
          \/ flash' = flash
      BY <1>5, Zenon DEF SavePhoto, Save
    <3> QED
      BY <3>1, <3>2
  <2> QED
    BY <2>1, <2>2, <2>3, Zenon
<1>6. CASE ReportFetch
  BY <1>6 DEF ReportFetch
<1> QED
  BY <1>1, <1>2, <1>3, <1>4, <1>5, <1>6

(* the access point,                                                        *)
LEMMA NetworkInv ==
  ASSUME IInv, TypeOK',
         \/ CheckStart
         \/ CopyPortal
         \/ StartNetwork
         \/ AbortStart
         \/ PublishStart
         \/ MarkRunning
         \/ CheckIdle
         \/ CancelStart
         \/ CheckDeadlines
         \/ CheckClose
         \/ CloseNetwork
         \/ ClearRunning
         \/ PublishClose
  PROVE  NetInv' /\ StartInv' /\ SlotInv' /\ OutcomeInv' /\ PhotoInv'
<1> USE ServicesAssumption
    DEF IInv, TypeOK, NetInv, StartInv, SlotInv, OutcomeInv, PhotoInv,
        Fetching, Early, Late, SetupBusy, FetchBusy, ResetPending,
        store, clock, portal, slots, radios, service, phone, main, session
<1>1. CASE CheckStart
  BY <1>1 DEF CheckStart
<1>2. CASE CopyPortal
  BY <1>2 DEF CopyPortal
<1>3. CASE StartNetwork
  BY <1>3 DEF StartNetwork
<1>4. CASE AbortStart
  BY <1>4 DEF AbortStart, StopNetwork
<1>5. CASE PublishStart
  BY <1>5 DEF PublishStart
<1>6. CASE MarkRunning
  BY <1>6 DEF MarkRunning
<1>7. CASE CheckIdle
  BY <1>7 DEF CheckIdle
<1>8. CASE CancelStart
  BY <1>8 DEF CancelStart
<1>9. CASE CheckDeadlines
  BY <1>9 DEF CheckDeadlines, TimeUp, GraceOver
<1>10. CASE CheckClose
  BY <1>10 DEF CheckClose
<1>11. CASE CloseNetwork
  BY <1>11 DEF CloseNetwork, StopNetwork
<1>12. CASE ClearRunning
  BY <1>12 DEF ClearRunning
<1>13. CASE PublishClose
  BY <1>13 DEF PublishClose
<1> QED
  BY <1>1, <1>2, <1>3, <1>4, <1>5, <1>6, <1>7, <1>8, <1>9, <1>10, <1>11, <1>12, <1>13

(* the HTTP task,                                                           *)
LEMMA HttpInv ==
  ASSUME IInv, TypeOK',
         \/ ServePage
         \/ AdmitPost
         \/ CheckSession
         \/ ReceiveBody
         \/ PostCancel
         \/ PostClock
         \/ PostForm
         \/ SaveWifi
         \/ SaveProfile
         \/ ReadFormTarget
         \/ QueuePhoto
         \/ FinishSave
  PROVE  NetInv' /\ StartInv' /\ SlotInv' /\ OutcomeInv' /\ PhotoInv'
<1> USE ServicesAssumption
    DEF IInv, TypeOK, NetInv, StartInv, SlotInv, OutcomeInv, PhotoInv,
        Fetching, Early, Late, SetupBusy, FetchBusy, ResetPending,
        store, clock, portal, slots, radios, service, phone, main, session
<1>1. CASE ServePage
  BY <1>1 DEF ServePage, SessionOpen
<1>2. CASE AdmitPost
  BY <1>2 DEF AdmitPost, SessionOpen, NonceMatches
<1>3. CASE CheckSession
  BY <1>3 DEF CheckSession, SessionOpen, Respond
<1>4. CASE ReceiveBody
  BY <1>4 DEF ReceiveBody, Respond
<1>5. CASE PostCancel
  BY <1>5 DEF PostCancel, Respond, FinishSession
<1>6. CASE PostClock
  BY <1>6 DEF PostClock, Respond
<1>7. CASE PostForm
  BY <1>7 DEF PostForm, Respond, Snapshot
<1>8. CASE SaveWifi
  <2>1. \/ http' = "record" /\ form' = form
        \/ http' = "idle" /\ form' = NoForm
    BY <1>8, Zenon DEF SaveWifi, Respond
  <2>2. UNCHANGED <<store, portal, clock, requested, running, nonce, slots, radios,
                    service, page, main, saved>> /\ http = "wifi"
    BY <1>8, Zenon DEF SaveWifi
  <2> QED
    BY <2>1, <2>2
<1>9. CASE SaveProfile
  <2>1. PhotoInv'
    <3>1. CASE UNCHANGED store
      BY <1>9, <3>1 DEF SaveProfile, Respond
    <3>2. CASE ~erased' /\ http' \notin {"wifi", "record"}
               /\ flash' = [who |-> form.who,
                            photo |-> IF form.replace THEN "none" ELSE flash.photo]
      <4>1. flash'.photo \in Accounts => flash'.photo = flash'.who
        BY <1>9, <3>2 DEF SaveProfile
      <4> QED
        BY <1>9, <3>2, <4>1 DEF SaveProfile
    <3> QED
      BY <1>9, <3>1, <3>2 DEF SaveProfile, Save, Respond
  <2> QED
    BY <1>9, <2>1 DEF SaveProfile, Respond, Save
<1>10. CASE ReadFormTarget
  <2>1. SlotInv'
    <3>1. http' = "queue" => form'.who \in PhotoAccounts
      BY <1>10 DEF ReadFormTarget, Forms
    <3> QED
      BY <1>10, <3>1 DEF ReadFormTarget, Respond
  <2> QED
    BY <1>10, <2>1 DEF ReadFormTarget, Snapshot, Respond
<1>11. CASE QueuePhoto
  <2>1. SlotInv'
    BY <1>11 DEF QueuePhoto, Enqueue, NoJob
  <2> QED
    BY <1>11, <2>1 DEF QueuePhoto, Enqueue
<1>12. CASE FinishSave
  BY <1>12 DEF FinishSave, Respond, FinishSession
<1> QED
  BY <1>1, <1>2, <1>3, <1>4, <1>5, <1>6, <1>7, <1>8, <1>9, <1>10, <1>11, <1>12

(* and time and restarts.                                                   *)
LEMMA RestInv ==
  ASSUME IInv, TypeOK',
         \/ Expire
         \/ EndGrace
         \/ Reboot
  PROVE  NetInv' /\ StartInv' /\ SlotInv' /\ OutcomeInv' /\ PhotoInv'
<1> USE ServicesAssumption
    DEF IInv, TypeOK, NetInv, StartInv, SlotInv, OutcomeInv, PhotoInv,
        Fetching, Early, Late, SetupBusy, FetchBusy, ResetPending,
        store, clock, portal, slots, radios, service, phone, main, session
<1>1. CASE Expire
  BY <1>1 DEF Expire
<1>2. CASE EndGrace
  BY <1>2 DEF EndGrace
<1>3. CASE Reboot
  BY <1>3 DEF Reboot, AgePage
<1> QED
  BY <1>1, <1>2, <1>3

(* The inductive invariant holds at power-up.                               *)
LEMMA InitInv == Init => IInv
<1> SUFFICES ASSUME Init PROVE IInv
  OBVIOUS
<1>1. flash \in Profiles /\ flash.photo = "none"
  BY DEF Init, Profiles, Owners, Empty
<1>2. TypeOK
  <2>1. /\ erased \in BOOLEAN /\ active \in BOOLEAN /\ starting \in BOOLEAN
        /\ password \in BOOLEAN /\ expired \in BOOLEAN /\ requested \in BOOLEAN
        /\ running \in BOOLEAN /\ nonce \in BOOLEAN /\ ap \in BOOLEAN
        /\ station \in BOOLEAN /\ ok \in BOOLEAN /\ key \in BOOLEAN
        /\ setupRequested \in BOOLEAN /\ saved \in BOOLEAN /\ wifiKept \in BOOLEAN
    BY DEF Init
  <2> QED
    BY <1>1, <2>1, ConstantTypes
    DEF Init, TypeOK, Outcomes, SlotStates, ServiceSteps, HttpSteps
<1>3. NetInv /\ StartInv /\ SlotInv /\ OutcomeInv
  BY DEF Init, NetInv, StartInv, SlotInv, OutcomeInv, Fetching, Early, Late,
         SetupBusy, FetchBusy, ResetPending
<1>4. PhotoInv
  BY <1>1, ServicesAssumption DEF Init, PhotoInv
<1> QED
  BY <1>2, <1>3, <1>4 DEF IInv

(* Every step keeps the inductive invariant.                                *)
LEMMA NextInv == IInv /\ [Next]_vars => IInv'
<1> SUFFICES ASSUME IInv, [Next]_vars PROVE IInv'
  OBVIOUS
<1>1. CASE MainStep
  BY <1>1, MainType, MainInv DEF MainStep, IInv
<1>2. CASE ServiceStep
  BY <1>2, ResetType, ResetInv, FetchType, FetchInv, NetworkType, NetworkInv
  DEF ServiceStep, IInv
<1>3. CASE ServePage \/ AdmitPost \/ HandlerStep
  BY <1>3, HttpType, HttpInv DEF HandlerStep, IInv
<1>4. CASE Expire \/ EndGrace \/ Reboot
  BY <1>4, RestType, RestInv DEF IInv
<1>5. CASE UNCHANGED vars
  BY <1>5 DEF vars, IInv, TypeOK, NetInv, StartInv, SlotInv, OutcomeInv,
              PhotoInv, SetupBusy, FetchBusy, ResetPending, store, clock,
              portal, slots, radios, service, phone, main, session
<1> QED
  BY <1>1, <1>2, <1>3, <1>4, <1>5 DEF Next, Run

(* The inductive invariant holds in every reachable state.                  *)
LEMMA Invariance == Spec => []IInv
  BY InitInv, NextInv, PTL DEF Spec

-----------------------------------------------------------------------------
(* Every variable keeps its type, for any accounts.                         *)
THEOREM TypeCorrect == Spec => []TypeOK
<1>1. IInv => TypeOK
  BY DEF IInv, TypeOK
<1> QED
  BY Invariance, <1>1, PTL

(* The station radio runs only after phone setup is entirely gone.          *)
THEOREM RadiosExclude == Spec => []FetchAfterSetup
<1>1. IInv => FetchAfterSetup
  BY DEF IInv, SlotInv, NetInv, Fetching, SetupBusy, FetchAfterSetup
<1> QED
  BY Invariance, <1>1, PTL

(* A reset and phone setup are never under way together.                    *)
THEOREM ResetAlone == Spec => []ResetExcludesSetup
<1>1. IInv => ResetExcludesSetup
  BY DEF IInv, SlotInv, SetupBusy, ResetPending, ResetExcludesSetup
<1> QED
  BY Invariance, <1>1, PTL

(* The badge reports Saved of an ended session exactly if it has saved.     *)
THEOREM TruthfulOutcome == Spec => []OutcomeTruth
<1>1. IInv => OutcomeTruth
  BY DEF IInv, NetInv, OutcomeInv, Late, OutcomeTruth
<1> QED
  BY Invariance, <1>1, PTL

(* A handler always works for the session that served the page.             *)
THEOREM PageOfSession == Spec => []CurrentPage
<1>1. IInv => CurrentPage
  BY DEF IInv, OutcomeInv, CurrentPage
<1> QED
  BY Invariance, <1>1, PTL

(* An open session has its access point, password and nonce.                *)
THEOREM SessionIsReady == Spec => []SessionReady
<1>1. IInv => SessionReady
  BY DEF IInv, NetInv, StartInv, SessionOpen, SessionReady
<1> QED
  BY Invariance, <1>1, PTL

(* No account is shown with another account's photo.                        *)
THEOREM PhotoOfAccount == Spec => []PhotoBelongs
<1>1. IInv => PhotoBelongs
  BY DEF IInv, PhotoInv, PhotoBelongs
<1> QED
  BY Invariance, <1>1, PTL

(* After a reset only a new form brings an account back.                    *)
THEOREM ResetIsFinal == Spec => []ResetSticks
<1>1. IInv => ResetSticks
  BY DEF IInv, PhotoInv, ResetSticks
<1> QED
  BY Invariance, <1>1, PTL

-----------------------------------------------------------------------------
(* SetupServices implements ProfileService *)

(* Steps the rest of the badge does not see.                                *)
Hidden == UNCHANGED <<ready, flash, reset, SetupBusy, active \/ starting>>

LEMMA HiddenStep ==
  ASSUME Hidden,
         UNCHANGED <<svc, ok, cur>> \/ {svc, svc'} \cap {"wiped", "savePhoto"} = {}
  PROVE  UNCHANGED Contract!vars
<1>1. CASE UNCHANGED <<svc, ok, cur>>
  BY <1>1, Zenon DEF Hidden, Contract!vars
<1>2. CASE {svc, svc'} \cap {"wiped", "savePhoto"} = {}
  <2>1. svc \notin {"wiped", "savePhoto"} /\ svc' \notin {"wiped", "savePhoto"}
    BY <1>2
  <2> QED
    BY <2>1 DEF Hidden, Contract!vars
<1> QED
  BY <1>1, <1>2

(* The main task.  Setup is shown exactly when the portal takes it up;      *)
LEMMA StartContract ==
  ASSUME IInv, StartSetup
  PROVE  \/ Contract!StartSetup /\ setupRequested'
         \/ UNCHANGED Contract!vars /\ ~setupRequested'
<1> USE DEF IInv, TypeOK, NetInv, StartInv, SlotInv, SetupBusy, ResetPending,
        store, clock, portal, slots, radios, service, phone, main, session
<1>1. CASE active \/ starting \/ running
  BY <1>1 DEF StartSetup, MainFree, Contract!StartSetup, Contract!ResetPending
<1>2. CASE ~(active \/ starting \/ running)
  BY <1>2 DEF StartSetup, MainFree, AgePage, Contract!StartSetup, Contract!vars,
     Contract!ResetPending
<1> QED
  BY <1>1, <1>2

(* its other steps are hidden, close setup,                                 *)
LEMMA MainContract ==
  ASSUME IInv,
         \/ CloseSetup
         \/ LeaveSetup
         \/ RequestProbe
         \/ ReadPhotoTarget
         \/ RequestPhoto
  PROVE  Contract!EndSetup \/ UNCHANGED Contract!vars
<1> USE ServicesAssumption, ConstantTypes
    DEF IInv, TypeOK, NetInv, StartInv, SlotInv, SetupBusy, ResetPending,
        FetchBusy, SessionOpen,
        store, clock, portal, slots, radios, service, phone, main, session
<1>1. CASE CloseSetup
  BY <1>1 DEF CloseSetup, MainFree, Contract!EndSetup, Contract!vars
<1>2. CASE LeaveSetup
  <2>1. Hidden
    BY <1>2 DEF LeaveSetup, MainFree, Hidden
  <2> QED
    BY <1>2, <2>1, HiddenStep DEF LeaveSetup, MainFree
<1>3. CASE RequestProbe
  <2>1. Hidden
    BY <1>3 DEF RequestProbe, MainFree, Enqueue, Hidden
  <2> QED
    BY <1>3, <2>1, HiddenStep DEF RequestProbe, MainFree, Enqueue
<1>4. CASE ReadPhotoTarget
  <2>1. Hidden
    BY <1>4 DEF ReadPhotoTarget, Hidden
  <2> QED
    BY <1>4, <2>1, HiddenStep DEF ReadPhotoTarget
<1>5. CASE RequestPhoto
  <2>1. Hidden
    BY <1>5 DEF RequestPhoto, MainFree, Enqueue, Hidden
  <2> QED
    BY <1>5, <2>1, HiddenStep DEF RequestPhoto, MainFree, Enqueue
<1> QED
  BY <1>1, <1>2, <1>3, <1>4, <1>5

(* or ask for what the contract has a step for.                             *)
LEMMA RequestContract ==
  ASSUME IInv
  PROVE  /\ RequestReset => Contract!RequestReset
         /\ ClearProfile => Contract!ClearProfile
         /\ InitializeStorage => Contract!Initialize
<1> USE ServicesAssumption, ConstantTypes
    DEF IInv, TypeOK, NetInv, StartInv, SlotInv, SetupBusy, ResetPending,
        FetchBusy, SessionOpen,
        store, clock, portal, slots, radios, service, phone, main, session
<1>1. RequestReset => Contract!RequestReset
  BY DEF RequestReset, MainFree, Contract!RequestReset, Contract!vars,
     Contract!ResetPending, Contract!ResetAllowed
<1>2. ClearProfile => Contract!ClearProfile
  BY DEF ClearProfile, MainFree, Save, Empty, Contract!ClearProfile,
     Contract!vars, Contract!ResetPending, Contract!ResetAllowed
<1>3. InitializeStorage => Contract!Initialize
  BY DEF InitializeStorage, MainFree, Empty, Contract!Initialize,
     Contract!vars, Contract!ResetPending
<1> QED
  BY <1>1, <1>2, <1>3

(* A reset, whose save counts when it succeeds.                             *)
LEMMA ResetContract ==
  ASSUME IInv
  PROVE  /\ BeginReset => Contract!BeginReset \/ UNCHANGED Contract!vars
         /\ WipeProfile => \/ (Contract!Wipe /\ ok')
                           \/ (UNCHANGED Contract!vars /\ ~ok')
         /\ EndReset => Contract!EndReset
<1> USE ServicesAssumption, ConstantTypes
    DEF IInv, TypeOK, NetInv, StartInv, SlotInv, SetupBusy, ResetPending,
        FetchBusy, SessionOpen,
        store, clock, portal, slots, radios, service, phone, main, session
<1>1. BeginReset => Contract!BeginReset \/ UNCHANGED Contract!vars
  BY DEF BeginReset, Contract!BeginReset, Contract!vars
<1>2. ASSUME WipeProfile
      PROVE  (Contract!Wipe /\ ok') \/ (UNCHANGED Contract!vars /\ ~ok')
  <2>1. \/ Save(Empty) /\ ok' = TRUE
        \/ UNCHANGED store /\ ok' = FALSE
    BY <1>2, Zenon DEF WipeProfile
  <2>2. CASE Save(Empty) /\ ok' = TRUE
    <3>1. Contract!Wipe
      BY <1>2, <2>2 DEF WipeProfile, Save, Empty, Contract!Wipe
    <3> QED
      BY <2>2, <3>1, Zenon
  <2>3. CASE UNCHANGED store /\ ok' = FALSE
    <3>1. UNCHANGED Contract!vars
      BY <1>2, <2>3 DEF WipeProfile, Contract!vars
    <3> QED
      BY <2>3, <3>1, Zenon
  <2> QED
    BY <2>1, <2>2, <2>3
<1>3. EndReset => Contract!EndReset
  BY DEF EndReset, ResetResult, Contract!EndReset, Contract!vars
<1> QED
  BY <1>1, <1>2, <1>3

(* A download reads the account,                                            *)
LEMMA FetchContract ==
  ASSUME IInv,
         \/ TakeFetch
         \/ JoinStation
         \/ FinishFetch
         \/ SnapProfile
         \/ ReportFetch
  PROVE  Contract!ReadOwner \/ UNCHANGED Contract!vars
<1> USE ServicesAssumption, ConstantTypes
    DEF IInv, TypeOK, NetInv, StartInv, SlotInv, SetupBusy, ResetPending,
        FetchBusy, SessionOpen,
        store, clock, portal, slots, radios, service, phone, main, session
<1>1. CASE TakeFetch
  <2>1. Hidden
    BY <1>1 DEF TakeFetch, Hidden
  <2> QED
    BY <1>1, <2>1, HiddenStep DEF TakeFetch
<1>2. CASE JoinStation
  <2>1. Hidden
    BY <1>2 DEF JoinStation, Hidden
  <2> QED
    BY <1>2, <2>1, HiddenStep DEF JoinStation
<1>3. CASE FinishFetch
  <2>1. Hidden
    BY <1>3 DEF FinishFetch, Hidden
  <2> QED
    BY <1>3, <2>1, HiddenStep DEF FinishFetch
<1>4. CASE SnapProfile
  BY <1>4 DEF SnapProfile, Snapshot, Empty, Contract!ReadOwner, Contract!vars
<1>5. CASE ReportFetch
  <2>1. Hidden
    BY <1>5 DEF ReportFetch, Hidden
  <2> QED
    BY <1>5, <2>1, HiddenStep DEF ReportFetch
<1> QED
  BY <1>1, <1>2, <1>3, <1>4, <1>5, Zenon

(* and saves its photo with it, or fails.                                   *)
LEMMA PhotoContract ==
  ASSUME IInv, SavePhoto
  PROVE  Contract!SavePhoto /\ (ok' \/ flash' = flash)
<1> USE ServicesAssumption, ConstantTypes
    DEF IInv, TypeOK, NetInv, StartInv, SlotInv, SetupBusy, ResetPending,
        FetchBusy, SessionOpen,
        store, clock, portal, slots, radios, service, phone, main, session
<1>0. cur # "none" /\ ok
  BY Zenon DEF Owners, SavePhoto
<1>1. UNCHANGED <<ready, reset, SetupBusy, active \/ starting>>
  BY DEF SavePhoto, Save
<1>2. svc = "savePhoto" /\ svc' = "report"
  BY DEF SavePhoto
<1>3. \/ /\ flash' = [who |-> cur, photo |-> IF task.kind = "named" THEN "named" ELSE task.of]
         /\ ready /\ ok'
      \/ flash' = flash
  BY <1>0, Zenon DEF SavePhoto, Save
<1>4. (ready /\ flash'.who = cur) \/ flash' = flash
  BY <1>3
<1>5. Contract!SavePhoto
  BY <1>0, <1>1, <1>2, <1>4 DEF Contract!SavePhoto
<1> QED
  BY <1>3, <1>5, Zenon

(* The access point comes up unseen, and its end is the end of setup.       *)
LEMMA NetworkContract ==
  ASSUME IInv,
         \/ CheckStart
         \/ CopyPortal
         \/ StartNetwork
         \/ AbortStart
         \/ PublishStart
         \/ MarkRunning
         \/ CheckIdle
         \/ CancelStart
         \/ CheckDeadlines
         \/ CheckClose
         \/ CloseNetwork
         \/ ClearRunning
         \/ PublishClose
  PROVE  Contract!EndSetup \/ UNCHANGED Contract!vars
<1> USE ServicesAssumption, ConstantTypes
    DEF IInv, TypeOK, NetInv, StartInv, SlotInv, SetupBusy, ResetPending,
        FetchBusy, SessionOpen,
        store, clock, portal, slots, radios, service, phone, main, session
<1>1. CASE CheckStart
  <2>1. Hidden
    BY <1>1 DEF CheckStart, Hidden
  <2> QED
    BY <1>1, <2>1, HiddenStep DEF CheckStart
<1>2. CASE CopyPortal
  <2>1. Hidden
    BY <1>2 DEF CopyPortal, Hidden
  <2> QED
    BY <1>2, <2>1, HiddenStep DEF CopyPortal
<1>3. CASE StartNetwork
  BY <1>3 DEF StartNetwork, Contract!EndSetup, Contract!vars
<1>4. CASE AbortStart
  <2>1. Hidden
    BY <1>4 DEF AbortStart, StopNetwork, Hidden
  <2> QED
    BY <1>4, <2>1, HiddenStep DEF AbortStart, StopNetwork
<1>5. CASE PublishStart
  BY <1>5 DEF PublishStart, Contract!EndSetup, Contract!vars
<1>6. CASE MarkRunning
  <2>1. Hidden
    BY <1>6 DEF MarkRunning, Hidden
  <2> QED
    BY <1>6, <2>1, HiddenStep DEF MarkRunning
<1>7. CASE CheckIdle
  <2>1. Hidden
    BY <1>7 DEF CheckIdle, Hidden
  <2> QED
    BY <1>7, <2>1, HiddenStep DEF CheckIdle
<1>8. CASE CancelStart
  BY <1>8 DEF CancelStart, Contract!EndSetup, Contract!vars
<1>9. CASE CheckDeadlines
  <2>1. Hidden
    BY <1>9 DEF CheckDeadlines, Hidden
  <2> QED
    BY <1>9, <2>1, HiddenStep DEF CheckDeadlines
<1>10. CASE CheckClose
  <2>1. Hidden
    BY <1>10 DEF CheckClose, Hidden
  <2> QED
    BY <1>10, <2>1, HiddenStep DEF CheckClose
<1>11. CASE CloseNetwork
  <2>1. Hidden
    BY <1>11 DEF CloseNetwork, StopNetwork, Hidden
  <2> QED
    BY <1>11, <2>1, HiddenStep DEF CloseNetwork, StopNetwork
<1>12. CASE ClearRunning
  <2>1. Hidden
    BY <1>12 DEF ClearRunning, Hidden
  <2> QED
    BY <1>12, <2>1, HiddenStep DEF ClearRunning
<1>13. CASE PublishClose
  BY <1>13 DEF PublishClose, Contract!EndSetup, Contract!vars
<1> QED
  BY <1>1, <1>2, <1>3, <1>4, <1>5, <1>6, <1>7, <1>8, <1>9, <1>10, <1>11, <1>12,
     <1>13, Zenon

(* The HTTP task and time are hidden,                                       *)
LEMMA HttpContract ==
  ASSUME IInv,
         \/ ServePage
         \/ AdmitPost
         \/ CheckSession
         \/ ReceiveBody
         \/ PostCancel
         \/ PostClock
         \/ PostForm
         \/ SaveWifi
         \/ ReadFormTarget
         \/ QueuePhoto
         \/ FinishSave
  PROVE  UNCHANGED Contract!vars
<1> USE ServicesAssumption, ConstantTypes
    DEF IInv, TypeOK, NetInv, StartInv, SlotInv, SetupBusy, ResetPending,
        FetchBusy, SessionOpen,
        store, clock, portal, slots, radios, service, phone, main, session
<1>1. CASE ServePage
  <2>1. Hidden
    BY <1>1 DEF ServePage, Hidden
  <2> QED
    BY <1>1, <2>1, HiddenStep DEF ServePage
<1>2. CASE AdmitPost
  <2>1. Hidden
    BY <1>2 DEF AdmitPost, Hidden
  <2> QED
    BY <1>2, <2>1, HiddenStep DEF AdmitPost
<1>3. CASE CheckSession
  <2>1. Hidden
    BY <1>3 DEF CheckSession, Respond, Hidden
  <2> QED
    BY <1>3, <2>1, HiddenStep DEF CheckSession, Respond
<1>4. CASE ReceiveBody
  <2>1. Hidden
    BY <1>4 DEF ReceiveBody, Respond, Hidden
  <2> QED
    BY <1>4, <2>1, HiddenStep DEF ReceiveBody, Respond
<1>5. CASE PostCancel
  <2>1. Hidden
    BY <1>5 DEF PostCancel, Respond, FinishSession, Hidden
  <2> QED
    BY <1>5, <2>1, HiddenStep DEF PostCancel, Respond, FinishSession
<1>6. CASE PostClock
  <2>1. Hidden
    BY <1>6 DEF PostClock, Respond, Hidden
  <2> QED
    BY <1>6, <2>1, HiddenStep DEF PostClock, Respond
<1>7. CASE PostForm
  <2>1. Hidden
    BY <1>7 DEF PostForm, Respond, Hidden
  <2> QED
    BY <1>7, <2>1, HiddenStep DEF PostForm, Respond
<1>8. CASE SaveWifi
  <2>1. Hidden
    BY <1>8 DEF SaveWifi, Respond, Hidden
  <2> QED
    BY <1>8, <2>1, HiddenStep DEF SaveWifi, Respond
<1>9. CASE ReadFormTarget
  <2>1. Hidden
    BY <1>9 DEF ReadFormTarget, Hidden
  <2> QED
    BY <1>9, <2>1, HiddenStep DEF ReadFormTarget
<1>10. CASE QueuePhoto
  <2>1. Hidden
    BY <1>10 DEF QueuePhoto, Enqueue, Hidden
  <2> QED
    BY <1>10, <2>1, HiddenStep DEF QueuePhoto, Enqueue
<1>11. CASE FinishSave
  <2>1. Hidden
    BY <1>11 DEF FinishSave, Respond, FinishSession, Hidden
  <2> QED
    BY <1>11, <2>1, HiddenStep DEF FinishSave, Respond, FinishSession
<1> QED
  BY <1>1, <1>2, <1>3, <1>4, <1>5, <1>6, <1>7, <1>8, <1>9, <1>9, <1>10, <1>11,
     Zenon

(* but for the form, which is saved or not.                                 *)
LEMMA FormContract ==
  ASSUME IInv, SaveProfile
  PROVE  \/ Contract!SaveForm /\ saved'
         \/ UNCHANGED Contract!vars /\ ~saved'
<1> USE ServicesAssumption, ConstantTypes
    DEF IInv, TypeOK, NetInv, StartInv, SlotInv, SetupBusy, ResetPending,
        FetchBusy, SessionOpen,
        store, clock, portal, slots, radios, service, phone, main, session
<1>1. /\ active /\ form.who \in Contract!Owners
      /\ UNCHANGED <<reset, svc, ok, cur, SetupBusy, active \/ starting>>
  BY DEF SaveProfile, Forms, Owners, Contract!Owners
<1>2. ~saved
  BY DEF SaveProfile, OutcomeInv, Early
<1>3. \/ ready /\ ready' = ready /\ flash'.who = form.who /\ saved'
      \/ UNCHANGED <<ready, flash>> /\ ~saved'
  <2>1. \/ Save([who |-> form.who, photo |-> IF form.replace THEN "none" ELSE flash.photo])
             /\ saved'
        \/ UNCHANGED store /\ saved' = saved
    BY Zenon DEF SaveProfile
  <2> QED
    BY <1>2, <2>1 DEF Save
<1>4. CASE ready /\ ready' = ready /\ flash'.who = form.who /\ saved'
  BY <1>1, <1>4 DEF Contract!SaveForm
<1>5. CASE UNCHANGED <<ready, flash>> /\ ~saved'
  BY <1>1, <1>5, Zenon DEF Contract!vars
<1> QED
  BY <1>3, <1>4, <1>5

LEMMA TimeContract ==
  ASSUME IInv, Expire \/ EndGrace
  PROVE  UNCHANGED Contract!vars
<1> USE ServicesAssumption, ConstantTypes
    DEF IInv, TypeOK, NetInv, StartInv, SlotInv, SetupBusy, ResetPending,
        FetchBusy, SessionOpen,
        store, clock, portal, slots, radios, service, phone, main, session
<1>1. CASE Expire
  <2>1. Hidden
    BY <1>1 DEF Expire, Hidden
  <2> QED
    BY <1>1, <2>1, HiddenStep DEF Expire
<1>2. CASE EndGrace
  <2>1. Hidden
    BY <1>2 DEF EndGrace, Hidden
  <2> QED
    BY <1>2, <2>1, HiddenStep DEF EndGrace
<1> QED
  BY <1>1, <1>2

(* A restart is one for the rest of the badge, too.                         *)
LEMMA RestartContract ==
  ASSUME IInv, Reboot
  PROVE  Contract!Reboot
<1> USE ServicesAssumption, ConstantTypes
    DEF IInv, TypeOK, NetInv, StartInv, SlotInv, SetupBusy, ResetPending,
        FetchBusy, SessionOpen,
        store, clock, portal, slots, radios, service, phone, main, session
<1> QED
  BY DEF Reboot, Contract!Reboot

(* So every step is one of the contract, or hidden.                         *)
LEMMA ContractStep ==
  ASSUME IInv, [Next]_vars
  PROVE  [Contract!Next]_(Contract!vars)
<1>1. CASE UNCHANGED vars
  BY <1>1 DEF vars, store, clock, portal, slots, radios, service, phone,
     main, session, Contract!vars, SetupBusy
<1>2. CASE MainStep
  <2>1. \/ Contract!StartSetup \/ Contract!EndSetup \/ Contract!RequestReset
        \/ Contract!ClearProfile \/ Contract!Initialize \/ UNCHANGED Contract!vars
    BY <1>2, StartContract, MainContract, RequestContract, Zenon DEF MainStep
  <2> QED
    BY <2>1, Zenon DEF Contract!Next
<1>3. CASE ServiceStep
  <2>1. \/ Contract!BeginReset \/ Contract!Wipe \/ Contract!EndReset
        \/ Contract!ReadOwner \/ Contract!SavePhoto \/ Contract!EndSetup
        \/ UNCHANGED Contract!vars
    BY <1>3, ResetContract, FetchContract, PhotoContract, NetworkContract, Zenon
       DEF ServiceStep
  <2> QED
    BY <2>1, Zenon DEF Contract!Next
<1>4. CASE ServePage \/ AdmitPost \/ HandlerStep \/ Expire \/ EndGrace
  <2>1. Contract!SaveForm \/ UNCHANGED Contract!vars
    BY <1>4, HttpContract, FormContract, TimeContract, Zenon DEF HandlerStep
  <2> QED
    BY <2>1, Zenon DEF Contract!Next
<1>5. CASE Reboot
  BY <1>5, RestartContract, Zenon DEF Contract!Next
<1> QED
  BY <1>1, <1>2, <1>3, <1>4, <1>5 DEF Next, Run

-----------------------------------------------------------------------------
(* The portal, the downloads and the three tasks keep the contract BadgeReset *)
(* is built on, for any accounts.                                           *)
THEOREM KeepsContract == Spec => ServiceContract
<1>1. Init => Contract!Init
  BY ServicesAssumption, ConstantTypes
     DEF Init, Contract!Init, Contract!Owners, Owners, SetupBusy, Empty
<1>2. IInv /\ [Next]_vars => [Contract!Next]_(Contract!vars)
  BY ContractStep
<1> QED
  BY <1>1, <1>2, Invariance, PTL DEF Spec, ServiceContract, Contract!Spec
=============================================================================
