----------------------------- MODULE BadgeReset -----------------------------
(***************************************************************************)
(* "Reset badge" and the saved preferences: the coordinator of              *)
(* firmware/factory_badge/main/main.cpp (requestReset, pollReset, persist,  *)
(* after_dark_reset), the reset screen of badge_ui.cpp and modal_reset.cpp, *)
(* three keys in NVS and the Wi-Fi override, on top of the profile service  *)
(* of ProfileService.                                                       *)
(*                                                                          *)
(* All of it but the service runs in the main task, so a step is a whole    *)
(* handler, except that power can fail between the writes of pollReset: pc  *)
(* is the write it is at.  The screen is built anew at the end of a pass of *)
(* the main loop: until then a touch injected over USB taps the old one.    *)
(* A pass takes taps and commands, then pollReset has its turn, then the    *)
(* screens.  Delays are left out: a save that waits may fall due any time.  *)
(***************************************************************************)
EXTENDS Naturals

CONSTANTS
  Accounts, Nobody, NoPhoto,   \* see ProfileService
  Values,    \* values of a preference
  Default,   \* what a reset restores
  Revealed,  \* the unlocked invitation
  Changeable \* the preferences users change: all, or fewer in a small instance

VARIABLES
  ready, who, busy, up, reset, wiped, snap,   \* the service
  flash,       \* NVS: "prefs", "agenda_saved" and "after_dark_v1"
  wifi,        \* the Wi-Fi override in NVS: none or some
  ram,         \* settings, bookmarks and afterDark
  pending,     \* those with a save to come
  nvs,         \* preferencesReady
  resetRequested, resetNeedsPreferences,
  sameRevision,  \* profile_snapshot().revision = resetProfileRevision
  resetState,    \* model.reset_state
  view,          \* context.setup, context.reset: the modal that is up
  built,         \* what taps find on the screen: the controls of a "page", the
                 \* "confirmation" of a reset, or neither
  confirmed,     \* context.reset_confirmed
  pc,            \* where pollReset is
  \* history
  fresh,       \* a completed reset, and no change by anyone since
  torn,        \* keys whose write failed half way since the last start
  late         \* the reset at work was confirmed by a "tap" on a screen that had
               \* been closed; since then "setup" was begun before it ended

S == INSTANCE ProfileService

service == <<ready, who, busy, up, reset, wiped, snap>>
stored  == <<flash, wifi>>
memory  == <<ram, pending, nvs>>
coord   == <<resetRequested, resetNeedsPreferences, resetState, pc>>
screen  == <<view, built, confirmed>>
vars    == <<service, stored, memory, coord, sameRevision, screen, fresh, torn, late>>

Keys     == {"prefs", "marks", "unlock"}
Defaults == [k \in Keys |-> Default]

\* What the constants must satisfy.
ResetAssumption ==
  /\ Nobody \notin Accounts /\ NoPhoto \notin Accounts /\ NoPhoto # Nobody
  /\ Default \in Values /\ Revealed \in Values /\ Default # Revealed
  /\ Changeable \subseteq Keys

States   == {"Ready", "Working", "Complete", "Failed", "SettingsFailed"}

TypeOK ==
  /\ S!TypeOK
  /\ flash \in [Keys -> Values] /\ wifi \in {"none", "some"}
  /\ ram \in [Keys -> Values] /\ pending \in SUBSET Keys /\ nvs \in BOOLEAN
  /\ resetRequested \in BOOLEAN /\ resetNeedsPreferences \in BOOLEAN
  /\ sameRevision \in BOOLEAN
  /\ resetState \in States
  /\ view \in {"none", "setup", "reset"} /\ confirmed \in BOOLEAN
  /\ built \in {"page", "confirmation", "neither"}
  /\ pc \in {"loop", "commit", "forget"} \cup Keys
  /\ fresh \in BOOLEAN /\ torn \in SUBSET Keys /\ late \in {"no", "tap", "setup"}

\* Boot reads the keys; without NVS every preference is its default.
Loaded(f) == IF nvs' THEN f ELSE Defaults

Idle ==
  /\ pending' = {}
  /\ resetRequested' = FALSE /\ resetNeedsPreferences' = FALSE
  /\ sameRevision' = FALSE /\ resetState' = "Ready"
  /\ view' = "none" /\ built' = "page" /\ confirmed' = FALSE
  /\ pc' = "loop" /\ torn' = {} /\ late' = "no"

Init ==
  /\ S!Init
  /\ flash \in [Keys -> Values] /\ wifi \in {"none", "some"}
  /\ flash["unlock"] \in {Default, Revealed}
  /\ nvs \in BOOLEAN
  /\ ram = IF nvs THEN flash ELSE Defaults
  /\ pending = {}
  /\ resetRequested = FALSE /\ resetNeedsPreferences = FALSE
  /\ sameRevision = FALSE /\ resetState = "Ready"
  /\ view = "none" /\ built = "page" /\ confirmed = FALSE
  /\ pc = "loop" /\ fresh = FALSE /\ torn = {} /\ late = "no"

Restart ==
  /\ S!Reboot
  /\ nvs' \in BOOLEAN
  /\ ram' = Loaded(flash)
  /\ Idle
  /\ UNCHANGED <<stored, fresh>>

-----------------------------------------------------------------------------
(* refreshModel *)

\* Mutant: an unlock by the clock is not saved.
PlanNothing(p) == p

PlanUnlock(p) == p \cup {"unlock"}

\* A refresh gives the screen the model (context.model is the same as model
\* between two steps) and the invitation the clock: it may have come to the
\* reveal by now, which opens a locked invitation and plans its save.
Refresh(r, p, f) ==
  \/ ram' = r /\ pending' = p /\ fresh' = f
  \/ /\ r["unlock"] = Default
     /\ ram' = [r EXCEPT !["unlock"] = Revealed]
     /\ pending' = PlanUnlock(p)
     /\ fresh' = FALSE

\* What is built for the context: the confirmation is hidden while a reset works
\* and when it is complete.
Screen(v, c, s) ==
  IF v = "none" THEN "page"
  ELSE IF v = "reset" /\ ~(c /\ s \in {"Working", "Complete"}) THEN "confirmation"
  ELSE "neither"

\* pollReset has had its turn in this pass: it has nothing more to do, for a
\* profile that is cleared only after it looked might as well be so after the
\* pass.
Polled == pc = "loop" /\ (resetRequested => ~resetNeedsPreferences /\ S!ResetPending)

\* ui_tick ends every pass, with a refresh every 100 ms.
Tick ==
  /\ Polled
  /\ built' = Screen(view, confirmed, resetState)
  /\ Refresh(ram, pending, fresh)
  /\ UNCHANGED <<service, stored, nvs, coord, sameRevision, view, confirmed, torn, late>>

-----------------------------------------------------------------------------
(* Preferences *)

\* The brightness, orientation and bookmark controls of the pages, and the
\* code that opens the invitation.
Change(k) ==
  /\ pc = "loop" /\ built = "page"
  /\ UNCHANGED <<service, stored, nvs, coord, sameRevision, screen, torn, late>>
  /\ \E v \in Values \ {ram[k]} :
       /\ k = "unlock" => v = Revealed
       /\ Refresh([ram EXCEPT ![k] = v], pending \cup {k}, FALSE)

\* persist: each key that falls due is written and committed; one that fails,
\* before or after it reached flash, is tried again later.
Persist ==
  /\ pc = "loop" /\ ~resetRequested /\ nvs
  /\ \E written \in SUBSET pending : \E done \in SUBSET written :
       /\ flash' = [k \in Keys |-> IF k \in written THEN ram[k] ELSE flash[k]]
       /\ pending' = pending \ done
       /\ torn' = torn \ done
  /\ UNCHANGED <<service, wifi, ram, nvs, coord, sameRevision, screen, fresh, late>>

\* USB after_dark_reset, while no modal is up and no reveal is due.
Relock ==
  /\ pc = "loop" /\ view = "none" /\ ~resetRequested /\ nvs
  /\ \/ /\ flash' = [flash EXCEPT !["unlock"] = Default]
        /\ ram' = [ram EXCEPT !["unlock"] = Default]
        /\ pending' = pending \ {"unlock"} /\ torn' = torn \ {"unlock"}
     \/ /\ flash' \in {flash, [flash EXCEPT !["unlock"] = Default]}
        /\ torn' = torn \cup {"unlock"}
        /\ UNCHANGED <<ram, pending>>
  /\ UNCHANGED <<service, wifi, nvs, coord, sameRevision, screen, fresh, late>>

-----------------------------------------------------------------------------
(* Setup, and what else writes the profile and the Wi-Fi override *)

\* startSetup: from a page or USB, when no other modal is up.
StartSetup ==
  /\ pc = "loop" /\ view = "none"
  /\ S!StartSetup
  /\ view' = "setup"
  /\ late' = IF resetRequested THEN "setup" ELSE late
  /\ UNCHANGED <<stored, memory, coord, sameRevision, built, confirmed, fresh, torn>>

\* The end of a pass closes the setup screen once the portal is gone.
LeaveSetup ==
  /\ Polled /\ view = "setup" /\ ~up
  /\ view' = "none" /\ built' = "page"
  /\ Refresh(ram, pending, fresh)
  /\ UNCHANGED <<service, stored, nvs, coord, sameRevision, confirmed, torn, late>>

\* The HTTP task saves the form: first the credentials, then the profile.
SaveWifi ==
  /\ up
  /\ wifi' \in {"none", "some"} /\ fresh' = FALSE
  /\ UNCHANGED <<service, flash, memory, coord, sameRevision, screen, torn, late>>

SaveForm ==
  /\ S!SaveForm
  /\ sameRevision' = FALSE /\ fresh' = FALSE
  /\ UNCHANGED <<stored, memory, coord, screen, torn, late>>

\* USB wifi_config.
ConfigureWifi ==
  /\ pc = "loop" /\ view = "none"
  /\ wifi' \in {"none", "some"} /\ fresh' = FALSE
  /\ UNCHANGED <<service, flash, memory, coord, sameRevision, screen, torn, late>>

\* USB clear_manual_profile and initialize_conference_storage.
ClearProfile ==
  /\ pc = "loop" /\ view # "setup"
  /\ S!ClearProfile
  /\ sameRevision' = FALSE
  /\ UNCHANGED <<stored, memory, coord, screen, fresh, torn, late>>

Initialize ==
  /\ pc = "loop" /\ view # "setup"
  /\ S!Initialize
  /\ sameRevision' = FALSE
  /\ UNCHANGED <<stored, memory, coord, screen, fresh, torn, late>>

\* The service task; every save that changes the account counts the revision
\* up (ProfileStore).
EndSetup   == S!EndSetup /\ UNCHANGED sameRevision
BeginReset == S!BeginReset /\ UNCHANGED sameRevision
Wipe       == S!Wipe /\ sameRevision' = FALSE
EndReset   == S!EndReset /\ UNCHANGED sameRevision
ReadOwner  == S!ReadOwner /\ UNCHANGED sameRevision
SavePhoto  == S!SavePhoto /\ sameRevision' \in {FALSE, sameRevision /\ who' = who}

ServiceStep ==
  /\ EndSetup \/ BeginReset \/ Wipe \/ EndReset \/ ReadOwner \/ SavePhoto
  /\ UNCHANGED <<stored, memory, coord, screen, fresh, torn, late>>

-----------------------------------------------------------------------------
(* The reset screen *)

\* ui_show_reset, from the row in Settings.
OpenReset ==
  /\ pc = "loop" /\ built = "page" /\ view = "none"
  /\ view' = "reset" /\ confirmed' = FALSE
  /\ UNCHANGED <<service, stored, memory, coord, sameRevision, built, fresh, torn, late>>

\* Mutant: the reset screen closes at any time.
AlwaysClosable == TRUE

Closable == ~(confirmed /\ resetState = "Working")

\* ui_close_reset: its button, or a pusher.
CloseReset ==
  /\ pc = "loop" /\ view = "reset" /\ Closable
  /\ view' = "none" /\ confirmed' = FALSE
  /\ UNCHANGED <<service, stored, memory, coord, sameRevision, built, fresh, torn, late>>

\* Mutant: an unfinished reset is always taken up where it stopped.
RetryAlways == resetNeedsPreferences

\* The settings step alone is retried while the cleared profile is unchanged.
RetrySettings == resetNeedsPreferences /\ sameRevision

\* The confirmation, or Retry, of the screen that is built, with requestReset:
\* nothing more while a reset or setup is on; else a reset is taken up.
Ignore ==
  /\ resetRequested \/ view = "setup"
  /\ built' = "neither"
  /\ UNCHANGED <<service, memory, coord, fresh, late>>

TakeUp ==
  /\ ~resetRequested /\ view # "setup"
  /\ \/ /\ RetrySettings
        /\ resetRequested' = TRUE /\ resetState' = "Working"
        /\ UNCHANGED <<service, resetNeedsPreferences>>
     \/ /\ ~RetrySettings
        /\ resetNeedsPreferences' = FALSE
        /\ \/ /\ S!RequestReset
              /\ resetRequested' = TRUE /\ resetState' = "Working"
           \/ /\ ~S!ResetAllowed
              /\ resetRequested' = FALSE /\ resetState' = "Failed"
              /\ UNCHANGED service
  /\ built' = IF resetState' = "Failed" THEN "confirmation" ELSE "neither"
  /\ late' = IF RetrySettings /\ late = "setup" THEN late
             ELSE IF view = "reset" THEN "no" ELSE "tap"
  /\ Refresh(ram, pending, fresh)
  /\ UNCHANGED <<nvs, pc>>

Confirm ==
  /\ pc = "loop" /\ built = "confirmation"
  /\ ~(confirmed /\ resetState = "Working")
  /\ confirmed' = TRUE
  /\ Ignore \/ TakeUp
  /\ UNCHANGED <<stored, sameRevision, view, torn>>

-----------------------------------------------------------------------------
(* pollReset *)

\* Mutant: only a cleared profile is looked for.
NeverKept == FALSE

ProfileCleared == reset = "Succeeded"

ProfileKept == ~S!ResetPending /\ ~ProfileCleared

\* The profile worker is done and failed ...
ReportFailure ==
  /\ pc = "loop" /\ resetRequested /\ ~resetNeedsPreferences /\ ProfileKept
  /\ resetRequested' = FALSE /\ resetState' = "Failed" /\ late' = "no"
  /\ Refresh(ram, pending, fresh)
  /\ UNCHANGED <<service, stored, nvs, resetNeedsPreferences, pc, sameRevision, screen, torn>>

\* ... or has cleared the profile, now or before: the writes begin.
BeginWrites ==
  /\ pc = "loop" /\ resetRequested
  /\ \/ resetNeedsPreferences /\ UNCHANGED <<resetNeedsPreferences, sameRevision>>
     \/ /\ ~resetNeedsPreferences /\ ProfileCleared
        /\ resetNeedsPreferences' = TRUE /\ sameRevision' = TRUE
  /\ pc' = "prefs"
  /\ UNCHANGED <<service, stored, memory, resetRequested, resetState, screen,
                 fresh, torn, late>>

\* Whatever fails, what was written stays and the screen offers Retry.
SettingsFail ==
  /\ pc' = "loop" /\ resetRequested' = FALSE /\ resetState' = "SettingsFailed"
  /\ torn' = Keys /\ late' = IF late = "setup" THEN late ELSE "no"
  /\ Refresh(ram, pending, fresh)

After == [prefs |-> "marks", marks |-> "unlock", unlock |-> "commit"]

WriteDefault ==
  /\ pc \in Keys
  /\ \/ /\ nvs
        /\ flash' = [flash EXCEPT ![pc] = Default]
        /\ pc' = After[pc]
        /\ UNCHANGED <<memory, resetRequested, resetState, fresh, torn, late>>
     \/ /\ flash' \in {flash, [flash EXCEPT ![pc] = IF nvs THEN Default ELSE @]}
        /\ SettingsFail /\ UNCHANGED nvs
  /\ UNCHANGED <<service, wifi, resetNeedsPreferences, sameRevision, screen>>

Commit ==
  /\ pc = "commit"
  /\ \/ /\ pc' = "forget"
        /\ UNCHANGED <<memory, resetRequested, resetState, fresh, torn, late>>
     \/ SettingsFail /\ UNCHANGED nvs
  /\ UNCHANGED <<service, stored, resetNeedsPreferences, sameRevision, screen>>

\* Mutant: the saves of older values stay planned.
KeepPlanned == pending

NothingPlanned == {}

\* wifi_credentials_forget, and the end: memory gets the defaults too.
Finish ==
  /\ pc = "forget"
  /\ \/ /\ wifi' = "none"
        /\ pc' = "loop" /\ resetRequested' = FALSE /\ resetState' = "Complete"
        /\ resetNeedsPreferences' = FALSE /\ torn' = {} /\ late' = "no"
        /\ Refresh(Defaults, NothingPlanned, late # "setup")
     \/ /\ wifi' \in {wifi, "none"}
        /\ SettingsFail /\ UNCHANGED resetNeedsPreferences
  /\ UNCHANGED <<service, flash, nvs, sameRevision, screen>>

PollReset == ReportFailure \/ BeginWrites \/ WriteDefault \/ Commit \/ Finish

Next ==
  \/ Tick \/ Persist \/ Relock \/ (\E k \in Changeable : Change(k))
  \/ StartSetup \/ LeaveSetup \/ SaveWifi \/ SaveForm \/ ConfigureWifi
  \/ ClearProfile \/ Initialize \/ ServiceStep
  \/ OpenReset \/ CloseReset \/ Confirm \/ PollReset
  \/ Restart

\* The main loop polls the reset in every pass.  The service task is never stuck
\* in a wait, and looks at the reset slot every round, so that downloads
\* between two looks cannot keep it from the slot for ever.
Fairness ==
  /\ WF_vars(PollReset)
  /\ WF_vars((SavePhoto \/ EndReset) /\ ServiceStep)
  /\ SF_vars(BeginReset /\ ServiceStep)

Spec == Init /\ [][Next]_vars /\ Fairness

-----------------------------------------------------------------------------
(* Properties *)

\* A step that ends the work does what it then says.
Truthful ==
  resetState = "Working" /\ late # "setup" =>
    /\ resetState' = "Complete" =>
         who' = Nobody /\ flash' = Defaults /\ wifi' = "none" /\ pending' \subseteq {"unlock"}
    /\ resetState' = "SettingsFailed" => who' = Nobody

\* What the screen says after a reset is so: "Complete" means an account gone,
\* default preferences on flash and no Wi-Fi override, whatever was saved,
\* retried or set up since an earlier attempt stopped half way;
\* "SettingsFailed" means an account gone.  Only the invitation may be planned
\* for a save again, by the clock.  It holds also for a reset confirmed by a
\* late tap, unless setup is then begun before that reset has ended.
ResetTruth == [][Truthful]_vars

\* A completed reset holds, through restarts, downloads, failing commands and
\* screens opened and closed, until somebody changes something or the clock
\* opens the invitation: no save that was planned before brings a value back.
ResetHolds ==
  fresh => /\ who = Nobody /\ wifi = "none" /\ flash = Defaults
           /\ ram = Defaults /\ pending = {}

\* A preference with no save to come is on flash as it is in use, except where
\* a reset or relock has said that it failed: a restart changes nothing.
MemoryMatchesFlash ==
  nvs /\ pc = "loop" => \A k \in Keys \ (pending \cup torn) : ram[k] = flash[k]

\* Nothing is at work without a reset that says so.  Its screen stays up, and
\* setup, other pages and a second reset wait for the answer, unless it was
\* confirmed by a late tap; and even then setup waits for the profile worker.
ResetKeepsScreen ==
  /\ resetRequested <=> resetState = "Working"
  /\ S!ResetPending \/ pc # "loop" => resetRequested
  /\ resetRequested /\ late = "no" => view = "reset" /\ confirmed
  /\ resetRequested /\ view = "setup" => late = "setup" /\ ~S!ResetPending

\* A reset that was taken up comes to an answer, whatever fails below it.
ResetAnswered == resetRequested ~> ~resetRequested
=============================================================================
