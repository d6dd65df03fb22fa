---------------------------- MODULE SetupServices ----------------------------
(***************************************************************************)
(* The concurrent core of firmware/factory_badge/main/services.cpp: phone   *)
(* setup over a temporary access point, photo downloads over the station    *)
(* radio, and profile reset, as three tasks share them:                     *)
(*                                                                          *)
(*   - the main task (main.cpp): buttons, USB commands, the setup screen;   *)
(*   - the service task (service_loop), which owns both radios;             *)
(*   - the HTTP task of the setup page (handle_get, handle_post).           *)
(*                                                                          *)
(* A section under portal_mutex is one step; `requested` and `running` are  *)
(* atomics read and written outside it.  save_record is one step: it is     *)
(* serialized by write_mutex and ProfileStore proves it atomic and durable. *)
(***************************************************************************)
EXTENDS Naturals

CONSTANTS
  Accounts,       \* social accounts (network and handle together)
  PhotoAccounts,  \* those the photo relay can serve
  Nobody          \* the account of a profile without one

ASSUME ServicesAssumption ==
  /\ PhotoAccounts \subseteq Accounts
  /\ Nobody \notin Accounts
  /\ Accounts \cap {"none", "named"} = {} /\ Nobody # "none"

VARIABLES
  \* the profile store
  ready,          \* stored.ready
  flash,          \* the committed record: its account and its photo
  \* the portal, under portal_mutex
  active, starting, outcome,
  password,       \* an access-point password is set
  expired,        \* the session is past expires_at
  grace,          \* closes_at: unset, counting, or due
  requested, running,
  nonce,          \* session_nonce is set; every start draws a new one
  \* the fetch slot and the reset slot, under portal_mutex
  fetch, job, reset,
  \* the radios
  ap,             \* access point and HTTP server up
  station,
  \* the service task: where it is and its locals
  svc, ok, key, cur, task,
  \* the HTTP task, and the phone: the page it has loaded carries the nonce of
  \* the last start ("current"), or of an earlier one
  http, form, page,
  \* the main task
  setupRequested,
  usb,            \* the photo request whose target it has read
  \* history
  saved,          \* this session's form has been committed
  wifiKept,       \* this session has changed the Wi-Fi credentials in NVS
  erased          \* a reset has emptied the profile; no form or USB clear since

store   == <<ready, flash, erased>>
clock   == <<expired, grace>>
portal  == <<active, starting, outcome, password>>
slots   == <<fetch, job, reset>>
radios  == <<ap, station>>
service == <<svc, ok, key, cur, task>>
phone   == <<http, form, page>>
main    == <<setupRequested, usb>>
session == <<saved, wifiKept>>
vars == <<store, portal, clock, requested, running, nonce, slots, radios,
          service, phone, main, session>>

Owners   == Accounts \cup {Nobody}
Profiles == [who : Owners, photo : Accounts \cup {"none", "named"}]
Empty    == [who |-> Nobody, photo |-> "none"]

\* A download request: nothing, the connectivity probe, the saved account's
\* photo, or (a USB diagnostic) the photo of a handle named in the request.
NoJob == [kind |-> "none", of |-> Nobody]
Probe == [kind |-> "probe", of |-> Nobody]
Jobs  == {NoJob, Probe} \cup [kind : {"own", "named"}, of : PhotoAccounts]

\* What the save form decided from the profile it read.
Forms  == [who : Owners, replace : BOOLEAN, photo : BOOLEAN]
NoForm == [who |-> Nobody, replace |-> FALSE, photo |-> FALSE]

Outcomes == {"None", "Saved", "Cancelled", "TimedOut", "Error"}
SlotStates == {"Idle", "Pending", "Running", "Succeeded", "Failed"}
ServiceSteps == {"reset", "wipe", "wiped", "take", "join", "fetch", "snap",
  "savePhoto", "report", "start", "copy", "network", "abort", "publish",
  "mark", "idle", "cancel", "run", "close", "stop", "stopped", "closed"}
HttpSteps == {"idle", "body", "recv", "cancel", "clock", "form", "wifi",
  "record", "target", "queue", "finish"}

TypeOK ==
  /\ ready \in BOOLEAN /\ flash \in Profiles /\ erased \in BOOLEAN
  /\ active \in BOOLEAN /\ starting \in BOOLEAN /\ password \in BOOLEAN
  /\ outcome \in Outcomes
  /\ expired \in BOOLEAN /\ grace \in {"unset", "counting", "due"}
  /\ requested \in BOOLEAN /\ running \in BOOLEAN
  /\ nonce \in BOOLEAN /\ page \in {"none", "current", "old"}
  /\ fetch \in SlotStates /\ reset \in SlotStates /\ job \in Jobs
  /\ ap \in BOOLEAN /\ station \in BOOLEAN
  /\ svc \in ServiceSteps /\ ok \in BOOLEAN /\ key \in BOOLEAN
  /\ cur \in Owners /\ task \in Jobs
  /\ http \in HttpSteps /\ form \in Forms
  /\ setupRequested \in BOOLEAN /\ usb \in Jobs
  /\ saved \in BOOLEAN /\ wifiKept \in BOOLEAN

Init ==
  /\ ready \in BOOLEAN
  /\ flash \in {Empty} \cup [who : Accounts, photo : {"none"}]
  /\ erased = FALSE
  /\ page = "none"
  /\ active = FALSE /\ starting = FALSE /\ outcome = "None" /\ password = FALSE
  /\ expired = FALSE /\ grace = "unset"
  /\ requested = FALSE /\ running = FALSE /\ nonce = FALSE
  /\ fetch = "Idle" /\ job = NoJob /\ reset = "Idle"
  /\ ap = FALSE /\ station = FALSE
  /\ svc = "reset" /\ ok = FALSE /\ key = FALSE /\ cur = Nobody /\ task = NoJob
  /\ http = "idle" /\ form = NoForm
  /\ setupRequested = FALSE /\ usb = NoJob
  /\ saved = FALSE /\ wifiKept = FALSE

\* The phone keeps the page it has.
AgePage == page' = IF page = "none" THEN "none" ELSE "old"

\* Power loss or esp_restart, then services_init: the record stays on flash
\* and the mount may fail.
Reboot ==
  /\ ready' \in BOOLEAN
  /\ active' = FALSE /\ starting' = FALSE /\ outcome' = "None" /\ password' = FALSE
  /\ expired' = FALSE /\ grace' = "unset"
  /\ requested' = FALSE /\ running' = FALSE /\ nonce' = FALSE
  /\ fetch' = "Idle" /\ job' = NoJob /\ reset' = "Idle"
  /\ ap' = FALSE /\ station' = FALSE
  /\ svc' = "reset" /\ ok' = FALSE /\ key' = FALSE /\ cur' = Nobody /\ task' = NoJob
  /\ http' = "idle" /\ form' = NoForm
  /\ setupRequested' = FALSE /\ usb' = NoJob
  /\ saved' = FALSE /\ wifiKept' = FALSE
  /\ AgePage
  /\ UNCHANGED <<flash, erased>>

-----------------------------------------------------------------------------
(* Shared predicates and operations *)

\* A store that is not ready shows an empty profile (profile_snapshot).
Snapshot == IF ready THEN flash ELSE Empty

SessionOpen  == requested /\ active /\ outcome = "None" /\ ~expired

\* Mutant: a running reset does not count.
ResetQueued  == reset = "Pending"
ResetPending == reset \in {"Pending", "Running"}
FetchBusy    == fetch \in {"Pending", "Running"}
SetupBusy    == active \/ starting \/ requested \/ running

\* save_record succeeds, on a ready store.
Save(p) == ready /\ flash' = p /\ UNCHANGED ready

\* The fetch slot takes a request (wifi_fetch_request, photo_fetch_request).
Enqueue(j) == fetch' = "Pending" /\ job' = j /\ UNCHANGED reset

-----------------------------------------------------------------------------
(* The main task *)

MainFree == usb = NoJob

\* startSetup and portal_start: refused during a reset or a download;
\* a portal that is already up or starting is simply shown again.
StartSetup ==
  /\ MainFree /\ ~setupRequested /\ ~ResetPending /\ ~FetchBusy
  /\ IF active \/ starting \/ running
     THEN /\ setupRequested' = TRUE
          /\ UNCHANGED <<portal, requested, nonce, session, page>>
     ELSE /\ active' = FALSE
          /\ password' = ready /\ starting' = ready
          /\ outcome' = IF ready THEN "None" ELSE "Error"
          /\ IF ready
             THEN /\ requested' = TRUE /\ setupRequested' = TRUE
                  /\ nonce' = TRUE /\ AgePage
             ELSE UNCHANGED <<requested, setupRequested, nonce, page>>
          /\ saved' = FALSE /\ wifiKept' = FALSE
  /\ UNCHANGED <<store, clock, running, slots, radios, service, http, form,
                 usb>>

\* closeSetup and portal_stop: a pusher or the Back control on the setup
\* screen.  No lock is taken.
CloseSetup ==
  /\ MainFree /\ setupRequested
  /\ requested' = FALSE
  /\ UNCHANGED <<store, portal, clock, running, nonce, slots, radios, service,
                 phone, main, session>>

\* The end of the main loop: the setup screen goes when the snapshot shows
\* neither an active nor a starting portal.
LeaveSetup ==
  /\ MainFree /\ setupRequested /\ ~active /\ ~starting
  /\ setupRequested' = FALSE
  /\ UNCHANGED <<store, portal, clock, requested, running, nonce, slots,
                 radios, service, phone, usb, session>>

\* USB wifi_fetch.
RequestProbe ==
  /\ MainFree /\ ~setupRequested /\ ~SetupBusy /\ ~ResetPending /\ ~FetchBusy
  /\ Enqueue(Probe)
  /\ UNCHANGED <<store, portal, clock, requested, running, nonce, radios,
                 service, phone, main, session>>

\* USB photo_fetch reads its target (the saved account, unless the request
\* names a handle) before it takes the lock ...
ReadPhotoTarget ==
  /\ MainFree /\ ~setupRequested
  /\ \/ /\ Snapshot.who \in PhotoAccounts
        /\ usb' = [kind |-> "own", of |-> Snapshot.who]
     \/ \E a \in PhotoAccounts : usb' = [kind |-> "named", of |-> a]
  /\ UNCHANGED <<store, portal, clock, requested, running, nonce, slots,
                 radios, service, phone, setupRequested, session>>

\* ... and then queues it, or is refused.
RequestPhoto ==
  /\ ~MainFree
  /\ usb' = NoJob
  /\ IF ResetPending \/ FetchBusy THEN UNCHANGED slots ELSE Enqueue(usb)
  /\ UNCHANGED <<store, portal, clock, requested, running, nonce, radios,
                 service, phone, setupRequested, session>>

\* requestReset and queue_profile_reset.
RequestReset ==
  /\ MainFree /\ ~setupRequested
  /\ ~ResetPending /\ ~SetupBusy /\ ready
  /\ reset' = "Pending"
  /\ UNCHANGED <<store, portal, clock, requested, running, nonce, fetch, job,
                 radios, service, phone, main, session>>

\* USB clear_manual_profile: excluded from setup and reset, not from a
\* download.
ClearProfile ==
  /\ MainFree /\ ~setupRequested
  /\ ~ResetPending /\ ~SetupBusy
  /\ Save(Empty)
  /\ erased' = FALSE
  /\ UNCHANGED <<portal, clock, requested, running, nonce, slots, radios,
                 service, phone, main, session>>

\* USB initialize_conference_storage on an unreadable store: a second mount
\* finds the record, or the partition is formatted (and may then fail).
InitializeStorage ==
  /\ MainFree /\ ~setupRequested
  /\ ~ResetPending /\ ~SetupBusy /\ ~ready
  /\ \/ ready' = TRUE /\ UNCHANGED flash
     \/ ready' \in BOOLEAN /\ flash' = Empty
  /\ UNCHANGED <<erased, portal, clock, requested, running, nonce, slots,
                 radios, service, phone, main, session>>

-----------------------------------------------------------------------------
(* The service task, one disjunct per step of service_loop *)

\* process_profile_reset, first lock.
BeginReset ==
  /\ svc = "reset"
  /\ IF reset # "Pending"
     THEN svc' = "take" /\ UNCHANGED reset
     ELSE IF SetupBusy
          THEN svc' = "take" /\ reset' = "Failed"
          ELSE svc' = "wipe" /\ reset' = "Running"
  /\ UNCHANGED <<store, portal, clock, requested, running, nonce, fetch, job,
                 radios, ok, key, cur, task, phone, main, session>>

\* Mutant: the result of the save is not looked at.
WipeBlindly ==
  /\ svc = "wipe" /\ svc' = "wiped"
  /\ ok' = TRUE
  /\ \/ Save(Empty) /\ erased' = TRUE
     \/ UNCHANGED store
  /\ UNCHANGED <<portal, clock, requested, running, nonce, slots, radios, key,
                 cur, task, phone, main, session>>

\* save_record({}, ...) outside the lock.
WipeProfile ==
  /\ svc = "wipe" /\ svc' = "wiped"
  /\ \/ Save(Empty) /\ ok' = TRUE /\ erased' = TRUE
     \/ UNCHANGED store /\ ok' = FALSE
  /\ UNCHANGED <<portal, clock, requested, running, nonce, slots, radios, key,
                 cur, task, phone, main, session>>

\* Mutant: a failed write is not reported.
ReportSuccess == IF ok THEN "Succeeded" ELSE reset

ResetResult == IF ok THEN "Succeeded" ELSE "Failed"

EndReset ==
  /\ svc = "wiped" /\ svc' = "take"
  /\ reset' = ResetResult /\ ok' = FALSE
  /\ UNCHANGED <<store, portal, clock, requested, running, nonce, fetch, job,
                 radios, key, cur, task, phone, main, session>>

\* Mutant: an access point that is closing does not count.
SetupUnwanted == ~requested

SetupGone == ~requested /\ ~running

\* A queued download is taken only while no access point is wanted or up.
TakeFetch ==
  /\ svc = "take"
  /\ IF fetch = "Pending" /\ SetupGone
     THEN fetch' = "Running" /\ task' = job /\ job' = NoJob /\ svc' = "join"
     ELSE svc' = "start" /\ UNCHANGED <<fetch, task, job>>
  /\ UNCHANGED <<store, portal, clock, requested, running, nonce, reset,
                 radios, ok, key, cur, phone, main, session>>

\* fetch_once up to the station radio, and to its end with the radio off.
JoinStation ==
  /\ svc = "join"
  /\ \/ svc' = "fetch" /\ station' = TRUE /\ UNCHANGED ok
     \/ svc' = "report" /\ ok' = FALSE /\ UNCHANGED station
  /\ UNCHANGED <<store, portal, clock, requested, running, nonce, slots, ap,
                 key, cur, task, phone, main, session>>

PhotoDownload == task.kind # "probe"

FinishFetch ==
  /\ svc = "fetch"
  /\ station' = FALSE
  /\ ok' \in BOOLEAN
  /\ svc' = IF ok' /\ PhotoDownload THEN "snap" ELSE "report"
  /\ UNCHANGED <<store, portal, clock, requested, running, nonce, slots, ap,
                 key, cur, task, phone, main, session>>

\* Mutant: the account is not compared.
KeepTarget == FALSE

TargetChanged == task.kind = "own" /\ Snapshot.who # task.of

\* Mutant: the photo goes to the account it was requested for.
SnapTarget ==
  /\ svc = "snap" /\ svc' = "savePhoto"
  /\ cur' = task.of
  /\ UNCHANGED <<store, portal, clock, requested, running, nonce, slots,
                 radios, ok, key, task, phone, main, session>>

\* The profile is read; a photo of the saved account is dropped when the
\* account is no longer that one.
SnapProfile ==
  /\ svc = "snap"
  /\ cur' = Snapshot.who
  /\ IF TargetChanged
     THEN svc' = "report" /\ ok' = FALSE
     ELSE svc' = "savePhoto" /\ UNCHANGED ok
  /\ UNCHANGED <<store, portal, clock, requested, running, nonce, slots,
                 radios, key, task, phone, main, session>>

\* save_record(current.profile, body, replace): the profile just read is
\* written with the new photo.
SavePhoto ==
  /\ svc = "savePhoto" /\ svc' = "report"
  /\ \/ /\ Save([who |-> cur,
                 photo |-> IF task.kind = "named" THEN "named" ELSE task.of])
        /\ UNCHANGED ok
     \/ UNCHANGED <<ready, flash>> /\ ok' = FALSE
  /\ UNCHANGED <<erased, portal, clock, requested, running, nonce, slots,
                 radios, key, cur, task, phone, main, session>>

ReportFetch ==
  /\ svc = "report" /\ svc' = "start"
  /\ fetch' = IF ok THEN "Succeeded" ELSE "Failed"
  /\ task' = NoJob /\ cur' = Nobody /\ ok' = FALSE
  /\ UNCHANGED <<store, portal, clock, requested, running, nonce, job, reset,
                 radios, key, phone, main, session>>

CheckStart ==
  /\ svc = "start"
  /\ svc' = IF requested /\ ~running THEN "copy" ELSE "idle"
  /\ UNCHANGED <<store, portal, clock, requested, running, nonce, slots,
                 radios, ok, key, cur, task, phone, main, session>>

\* start_network copies the portal first ...
CopyPortal ==
  /\ svc = "copy" /\ svc' = "network"
  /\ key' = password
  /\ UNCHANGED <<store, portal, clock, requested, running, nonce, slots,
                 radios, ok, cur, task, phone, main, session>>

\* ... and brings up the access point, DNS and HTTP, or fails on the way.
\* The driver refuses a WPA2 access point without a password.
StartNetwork ==
  /\ svc = "network"
  /\ \/ /\ key /\ ap' = TRUE /\ ok' = TRUE /\ svc' = "publish"
        /\ UNCHANGED requested
     \/ /\ ap' \in {FALSE, key} /\ ok' = FALSE /\ svc' = "abort"
        /\ requested' = FALSE
  /\ UNCHANGED <<store, portal, clock, running, nonce, slots, station, key,
                 cur, task, phone, main, session>>

\* Mutant: a running handler is not waited for.
StopWithoutJoin == ap' = FALSE /\ nonce' = FALSE

\* stop_network: the server is joined, both radios go off, the nonce goes.
StopNetwork == http = "idle" /\ ap' = FALSE /\ nonce' = FALSE

AbortStart ==
  /\ svc = "abort" /\ svc' = "publish"
  /\ StopNetwork
  /\ UNCHANGED <<store, portal, clock, requested, running, slots, station, ok,
                 key, cur, task, phone, main, session>>

PublishStart ==
  /\ svc = "publish" /\ svc' = "mark"
  /\ starting' = FALSE /\ active' = ok
  /\ IF ok
     THEN expired' = FALSE /\ grace' = "unset" /\ UNCHANGED <<outcome, password>>
     ELSE outcome' = "Error" /\ password' = FALSE /\ UNCHANGED clock
  /\ UNCHANGED <<store, requested, running, nonce, slots, radios, ok, key, cur,
                 task, phone, main, session>>

MarkRunning ==
  /\ svc = "mark" /\ svc' = "idle"
  /\ running' = ok /\ ok' = FALSE /\ key' = FALSE
  /\ UNCHANGED <<store, portal, clock, requested, nonce, slots, radios, cur,
                 task, phone, main, session>>

\* A start closed before it began: tested on the atomics, without the lock ...
CheckIdle ==
  /\ svc = "idle"
  /\ svc' = IF ~requested /\ ~running THEN "cancel" ELSE "run"
  /\ UNCHANGED <<store, portal, clock, requested, running, nonce, slots,
                 radios, ok, key, cur, task, phone, main, session>>

\* Mutant: the cancelled start is forgotten.
ForgetStart ==
  /\ svc = "cancel" /\ svc' = "run"
  /\ UNCHANGED <<store, portal, clock, requested, running, nonce, slots,
                 radios, ok, key, cur, task, phone, main, session>>

\* ... and cancelled under it.
CancelStart ==
  /\ svc = "cancel" /\ svc' = "run"
  /\ IF starting
     THEN starting' = FALSE /\ password' = FALSE /\ outcome' = "Cancelled"
     ELSE UNCHANGED <<starting, password, outcome>>
  /\ UNCHANGED <<store, active, clock, requested, running, nonce, slots,
                 radios, ok, key, cur, task, phone, main, session>>

\* Mutants: a deadline that is not enforced.
NoTimeLimit == FALSE
NoGraceLimit == FALSE

TimeUp    == outcome = "None" /\ expired
GraceOver == grace = "due"

\* The session's two deadlines.
CheckDeadlines ==
  /\ svc = "run"
  /\ IF running
     THEN /\ svc' = "close"
          /\ outcome' = IF TimeUp THEN "TimedOut" ELSE outcome
          /\ requested' = (requested /\ ~TimeUp /\ ~GraceOver)
     ELSE svc' = "reset" /\ UNCHANGED <<outcome, requested>>
  /\ UNCHANGED <<store, active, starting, password, clock, running, nonce,
                 slots, radios, ok, key, cur, task, phone, main, session>>

CheckClose ==
  /\ svc = "close"
  /\ svc' = IF requested THEN "reset" ELSE "stop"
  /\ UNCHANGED <<store, portal, clock, requested, running, nonce, slots,
                 radios, ok, key, cur, task, phone, main, session>>

CloseNetwork ==
  /\ svc = "stop" /\ svc' = "stopped"
  /\ StopNetwork
  /\ UNCHANGED <<store, portal, clock, requested, running, slots, station, ok,
                 key, cur, task, phone, main, session>>

ClearRunning ==
  /\ svc = "stopped" /\ svc' = "closed"
  /\ running' = FALSE
  /\ UNCHANGED <<store, portal, clock, requested, nonce, slots, radios, ok,
                 key, cur, task, phone, main, session>>

\* The two deadlines are dead now: they are set again before `running` is.
PublishClose ==
  /\ svc = "closed" /\ svc' = "reset"
  /\ active' = FALSE /\ starting' = FALSE /\ password' = FALSE
  /\ outcome' = IF outcome = "None" THEN "Cancelled" ELSE outcome
  /\ expired' = FALSE /\ grace' = "unset"
  /\ UNCHANGED <<store, requested, running, nonce, slots, radios, ok,
                 key, cur, task, phone, main, session>>

ServiceStep ==
  \/ BeginReset \/ WipeProfile \/ EndReset
  \/ TakeFetch \/ JoinStation \/ FinishFetch \/ SnapProfile \/ SavePhoto
  \/ ReportFetch
  \/ CheckStart \/ CopyPortal \/ StartNetwork \/ AbortStart \/ PublishStart
  \/ MarkRunning \/ CheckIdle \/ CancelStart
  \/ CheckDeadlines \/ CheckClose \/ CloseNetwork \/ ClearRunning
  \/ PublishClose

-----------------------------------------------------------------------------
(* The HTTP task: one handler at a time *)

\* GET / serves the page with the session's nonce.
ServePage ==
  /\ ap /\ http = "idle" /\ SessionOpen
  /\ page' = "current"
  /\ UNCHANGED <<store, portal, clock, requested, running, nonce, slots,
                 radios, service, http, form, main, session>>

\* Mutant: any page of the badge will do.
AnyNonce == page # "none"

NonceMatches == nonce /\ page = "current"

\* A POST is admitted with the nonce of the open session.
AdmitPost ==
  /\ ap /\ http = "idle" /\ SessionOpen
  /\ NonceMatches
  /\ http' = "body"
  /\ UNCHANGED <<store, portal, clock, requested, running, nonce, slots,
                 radios, service, form, page, main, session>>

\* The handler returns: its locals are gone.
Respond == http' = "idle" /\ form' = NoForm

\* Before every read of the body the session must still be open.
CheckSession ==
  /\ http = "body"
  /\ \/ SessionOpen /\ http' = "recv" /\ UNCHANGED form
     \/ Respond
  /\ UNCHANGED <<store, portal, clock, requested, running, nonce, slots,
                 radios, service, page, main, session>>

\* A read brings part of the body, fails, or completes a request the handler
\* refuses or dispatches.
ReceiveBody ==
  /\ http = "recv"
  /\ \/ http' \in {"body", "cancel", "clock", "form"} /\ UNCHANGED form
     \/ Respond
  /\ UNCHANGED <<store, portal, clock, requested, running, nonce, slots,
                 radios, service, page, main, session>>

\* finish_session
FinishSession(o) == outcome' = o /\ grace' = "counting"

PostCancel ==
  /\ http = "cancel"
  /\ Respond
  /\ FinishSession("Cancelled")
  /\ UNCHANGED <<store, active, starting, password, expired, requested,
                 running, nonce, slots, radios, service, page, main, session>>

\* The clock request ends after at most eight seconds and leaves the portal
\* alone; ClockService has what it does.
PostClock ==
  /\ http = "clock"
  /\ Respond
  /\ UNCHANGED <<store, portal, clock, requested, running, nonce, slots,
                 radios, service, page, main, session>>

\* The form is refused, or its decisions are taken from the profile as it is:
\* a changed account drops the old photo, and a photo is fetched when the
\* account changed or there is none.
PostForm ==
  /\ http = "form"
  /\ \/ Respond
     \/ /\ http' = "wifi"
        /\ \E a \in Owners :
             LET changed == a # Snapshot.who
                 bare    == Snapshot.photo = "none"
             IN  form' = [who     |-> a,
                          replace |-> changed /\ ~bare,
                          photo   |-> a \in PhotoAccounts /\ (changed \/ bare)]
  /\ UNCHANGED <<store, portal, clock, requested, running, nonce, slots,
                 radios, service, page, main, session>>

\* Changed credentials are saved first, and a failure ends the request.
SaveWifi ==
  /\ http = "wifi"
  /\ \/ http' = "record" /\ wifiKept' \in {wifiKept, TRUE} /\ UNCHANGED form
     \/ Respond /\ UNCHANGED wifiKept
  /\ UNCHANGED <<store, portal, clock, requested, running, nonce, slots,
                 radios, service, page, main, saved>>

SaveProfile ==
  /\ http = "record"
  /\ \/ /\ Save([who |-> form.who,
                 photo |-> IF form.replace THEN "none" ELSE flash.photo])
        /\ erased' = FALSE /\ saved' = TRUE
        /\ http' = IF form.photo THEN "target" ELSE "finish"
        /\ UNCHANGED form
     \/ Respond /\ UNCHANGED <<store, saved>>
  /\ UNCHANGED <<portal, clock, requested, running, nonce, slots, radios,
                 service, page, main, wifiKept>>

\* photo_fetch_request(source) from the handler: the target is read, then
\* queued under the lock; either part may refuse.
ReadFormTarget ==
  /\ http = "target"
  /\ \/ /\ Snapshot.who \in PhotoAccounts
        /\ form' = [form EXCEPT !.who = Snapshot.who]
        /\ http' = "queue"
     \/ http' = "finish" /\ UNCHANGED form
  /\ UNCHANGED <<store, portal, clock, requested, running, nonce, slots,
                 radios, service, page, main, session>>

QueuePhoto ==
  /\ http = "queue" /\ http' = "finish"
  /\ IF ResetPending \/ FetchBusy
     THEN UNCHANGED slots
     ELSE Enqueue([kind |-> "own", of |-> form.who])
  /\ UNCHANGED <<store, portal, clock, requested, running, nonce, radios,
                 service, form, page, main, session>>

FinishSave ==
  /\ http = "finish"
  /\ Respond
  /\ FinishSession("Saved")
  /\ UNCHANGED <<store, active, starting, password, expired, requested,
                 running, nonce, slots, radios, service, page, main, session>>

HandlerStep ==
  \/ CheckSession \/ ReceiveBody \/ PostCancel \/ PostClock \/ PostForm
  \/ SaveWifi \/ SaveProfile \/ ReadFormTarget \/ QueuePhoto \/ FinishSave

-----------------------------------------------------------------------------
(* Time *)

\* Ten minutes after the start.
Expire ==
  /\ active /\ ~expired
  /\ expired' = TRUE
  /\ UNCHANGED <<store, portal, grace, requested, running, nonce, slots,
                 radios, service, phone, main, session>>

\* Three seconds after the phone was answered.
EndGrace ==
  /\ grace = "counting"
  /\ grace' = "due"
  /\ UNCHANGED <<store, portal, expired, requested, running, nonce, slots,
                 radios, service, phone, main, session>>

MainStep ==
  \/ StartSetup \/ CloseSetup \/ LeaveSetup
  \/ RequestProbe \/ ReadPhotoTarget \/ RequestPhoto
  \/ RequestReset \/ ClearProfile \/ InitializeStorage

\* A step of the running badge.
Run ==
  \/ MainStep
  \/ ServiceStep
  \/ ServePage \/ AdmitPost \/ HandlerStep
  \/ Expire \/ EndGrace

Next == Run \/ Reboot

Spec == Init /\ [][Next]_vars

\* The service task and a running handler keep running (fetch_once, the body
\* loop and the clock wait are all bounded in the code), time passes, and the
\* main loop comes round.  Users and phones owe nothing.
Fairness ==
  /\ WF_vars(ServiceStep)
  /\ WF_vars(HandlerStep)
  /\ WF_vars(Expire) /\ WF_vars(EndGrace)
  /\ WF_vars(LeaveSetup) /\ WF_vars(RequestPhoto)

\* Restarts need no fairness: one ends every wait by itself.
FairSpec == Spec /\ Fairness

-----------------------------------------------------------------------------
(* Safety *)

\* The station radio is on only when phone setup is entirely gone, and no
\* start is accepted until it is off (services.h:45, "only after setup Wi-Fi
\* has stopped").
FetchAfterSetup == station => ~ap /\ ~SetupBusy

\* Reset and phone setup exclude each other from the request to the result:
\* the second busy check of process_profile_reset never finds anything.
ResetExcludesSetup ==
  reset \in {"Pending", "Running"} => ~active /\ ~starting /\ ~requested /\ ~running

\* What the badge says of an ended session is what happened to the record,
\* also when a deadline or the Back control met a save that was under way.
OutcomeTruth ==
  ~active /\ ~starting /\ outcome # "None" => (outcome = "Saved" <=> saved)

\* A handler works for the session that served the page: neither an old page
\* nor a slow request reaches into a later session.
CurrentPage == http # "idle" => page = "current"

\* A session that answers the phone has its access point, its password and
\* its nonce, whatever start, stop and restart came before.
SessionReady == SessionOpen => ap /\ password /\ nonce

\* An account is never shown with the photo of another account.
PhotoBelongs == flash.photo \in Accounts => flash.photo = flash.who

\* After a reset only a new form gives the badge an account again: no
\* download that was queued or running brings the old one back.
ResetSticks == erased => flash.who = Nobody

-----------------------------------------------------------------------------
(* Refinement *)

Contract == INSTANCE ProfileService WITH
  NoPhoto <- "none",
  who     <- flash.who,
  busy    <- SetupBusy,
  up      <- active \/ starting,
  wiped   <- svc = "wiped" /\ ok,
  snap    <- IF svc = "savePhoto" THEN cur ELSE "none"

\* The portal, the downloads and the three tasks keep the promise BadgeReset
\* relies on: the account on flash changes only by a form of an open session,
\* a reset, a USB clear or a photo saved with the account it was read with,
\* and a reset that reports success has emptied the record.
ServiceContract == Contract!Spec

-----------------------------------------------------------------------------
(* Liveness, under FairSpec *)

\* An access point does not stay up: ten minutes, a decision or Back end it,
\* whatever the phone is sending.
SetupEnds == active ~> ~active

\* The badge does not get stuck on the setup screen.
ScreenLeaves == setupRequested ~> ~setupRequested

\* A queued download is done or failed at some time; every other request is
\* refused until then.
FetchEnds == FetchBusy ~> ~FetchBusy

\* A queued reset is done or failed at some time.
ResetEnds == ResetPending ~> ~ResetPending

-----------------------------------------------------------------------------
(* Documented, and not so in the code *)

\* "replaces only the photo, and only if the profile still has that handle"
\* (docs/conference-badge.md:800): saving a downloaded photo keeps the account
\* that is on flash.
ReplacesOnlyPhoto ==
  [][svc = "savePhoto" /\ svc' = "report" => flash'.who = flash.who]_vars

\* "inspect starting/active/error in portal_snapshot()" (services.h:56): a
\* wanted access point shows as starting or active, or as an error.
LifecycleVisible == requested => active \/ starting \/ outcome = "Error"

\* "Cancel and timeout discard staged changes" (docs/conference-badge.md:367):
\* a session that is over, with no handler at work, and was not saved has left
\* the Wi-Fi settings alone.
CancelDiscards ==
  ~active /\ ~starting /\ outcome \in {"Cancelled", "TimedOut"} => ~wifiKept
=============================================================================
