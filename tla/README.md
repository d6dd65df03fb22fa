# Verification of the StopWatch conference badge

TLA+ models of the badge firmware (`src/firmware/factory_badge/`), of the earlier
firmware's voice replies with their gateway, and of the installer page, checked with
TLC, with proofs checked by TLAPS. Paths below are relative to `src/`; `main/`
stands for `firmware/factory_badge/main/`. `PROJECT.json` maps each definition to
the lines it models and lists components, runs, hazards and theorems.

## 1. The system

The badge is an ESP32 watch. Three tasks of the firmware share its state:

| Task | Code | What it does |
| --- | --- | --- |
| main | `main/main.cpp` `app_main` | one loop, every 5 ms: board, clock requests, USB commands, buttons, touch, orientation, reset, debounced saves, setup screen, LVGL |
| service | `main/services.cpp` `service_loop` | one loop: profile reset, one download, start/stop of the setup access point, deadlines |
| HTTP | `handle_get`, `handle_post` | the ESP-IDF server of the setup page; one handler at a time |

A timer interrupts them to sample the pushers. Around the badge stand the page that
installs it over USB (`web-flasher/`), and, for the earlier Arduino firmware
(`firmware/devices_badge/`), a gateway (`gateway/`) that posts voice replies to X.

### Components, their state and operations

| Component | State | Operations | What makes it correct | Model |
| --- | --- | --- | --- | --- |
| Profile record, `services.cpp:166-220, 696-785` | record and temporary file on FFat; `stored`, `revision`, `ready` in RAM | load, save, initialize, power loss | a save is atomic and durable; no update is lost; RAM shows flash; revision marks every change | `ProfileStore`, `ProfileRegister` |
| Setup portal, downloads, profile reset, `services.cpp:221-735` | portal snapshot, `requested`/`running`, nonce, fetch slot, reset slot, two radios | start, stop, serve, post, download a photo, reset | the radios and the requests exclude each other; the outcome shown is true; stale pages and stale downloads change nothing; everything ends | `SetupServices` |
| Checked clock, `clock_service.cpp` | RTC, system clock, offset in NVS, a slot for one request | init, set, setFromPhone, poll | a clock that was set survives; each caller gets the answer to its own request | `ClockService` |
| Reset and preferences, `main.cpp:80-134, 363-480`, `ui/modal_reset.cpp` | settings, bookmarks, unlock in RAM and NVS; the reset in progress; reset screen | change, debounced save, relock, confirm/retry a reset, poll it | what is said after a reset is so and stays so, also after a tap on a screen just closed | `ProfileService`, `BadgeReset`, `BadgeSystem` |
| Wi-Fi credentials, `wifi_config.cpp` | an NVS override of a built-in network | load, save, forget | | as a step of `SetupServices`, `BadgeReset`, `BadgeSystem` |
| Badge interface, `badge_ui.cpp`, `ui/` | page, special screens, gesture in flight, rotation | pages, buttons, swipes, taps, show and close a screen | special screens exclude each other, each has a way out; the orientation is restored | `BadgeUi` |
| Buttons and gestures, `board_buttons.h`, `button_gesture.h`, `morse_unlock.h` | debouncers and latch, gesture phase, attempt at the word | sample, take, recognize | no press is lost, one gesture acts once, only the whole word unlocks | `ButtonInput`, `MorseUnlock` |
| Touch, `board_touch.h`, `touch_observation.h`, `touchcal/` | cached sample, contact ring, calibration session | sample, observe, read, calibrate | a recorded contact is what the sensor saw | `TouchObservation` |
| Board drivers, `board.cpp`, `board_vibration.h` | motor, rotation, injected touches | buzz while touched, with a limit and retries | the motor is never on unaccounted for | `InputVibration`, part of `BadgeUi` |
| Legacy connected firmware, `firmware/devices_badge/` | send gate, pending key in NVS, one HTTPS job | record, review, send, ask for the receipt | a voice reply is sent at most once, and nothing that may have been sent is forgotten | `VoiceReply`, `VoiceSystem` |
| Voice gateway, `gateway/` | durable receipts, and a guard for each post | send, status | one post per key and target; a receipt is final and true | `ReplyPromise`, `ReplyLedger`, `VoiceSystem` |
| Web flasher, `web-flasher/` | the operation under way, its session and recovery copy | update, first install, finish, set clock, cancel | nothing is lost without a copy, no destructive command is repeated, reports are true | `Installer` |
| Orientation filter, schedule, portal page, avatar proxy, site, scripts, generated and vendored code | | | | not modelled, see section 7 |

### How they interact

* main calls `portal_start/stop`, `wifi_fetch_request`, `photo_fetch_request`,
  `profile_reset_request`, `profile_clear`,
  `profile_initialize_for_conference`; the service task takes these from slots
  under `portal_mutex`, or from the atomics `requested` and `running`, which are
  read outside the mutex.
* HTTP, service and main task all call `save_record` (serialized by
  `write_mutex`), and readers take `profile_snapshot` (under `profile_mutex`).
* The HTTP task hands the phone's time to the main task through the clock
  service and waits up to eight seconds for the answer.
* main polls `profile_reset_snapshot` and `portal_snapshot` every round.
* The pushers' timer leaves presses in two atomics the main task takes; touches
  come from the sensor or, injected, from USB commands, and reach the screen that
  was built at the end of the round before.
* The page sends commands over USB and reads answers named by a nonce; the main
  task serves them between two rounds.
* The legacy badge hands one request at a time to an HTTPS task; the gateway's
  object serves several calls, which interleave at their awaits.

### Where it is hard

Check-then-act across two locks and two atomics (start, close, reset, fetch);
handlers that outlive their session; results that arrive after the profile they
were made for has gone; saves made of several file or NVS operations, each of
which can fail or be the last one before power is lost; retries of a reset that
stopped half way; one-slot mailboxes with time-outs; presses that fall between two
rounds; requests whose answer is lost after they took effect; a browser page whose cable comes
out between any two awaits. `PROJECT.json` lists each as a
hazard at its line, with the property that covers it.

## 2. Modules

```
ProfileRegister <--implements-- ProfileStore           (profile record)
                                   | a save is one step in
                                   v
ProfileService  <--implements-- SetupServices          (portal, downloads, reset)
      |  INSTANCE                |  EXTENDS
      v                          v
  BadgeReset  <--implements-- BadgeSystem              (main.cpp coordinator; with the tasks)

ClockService  and  Installer                           (checked clock; installer page)
      both in MCProvisioning

BadgeUi, ButtonInput, MorseUnlock, InputVibration, TouchObservation
      all in MCBadgeInput                              (hands and screen)

ReplyPromise <--implements-- ReplyLedger               (gateway)
      |  INSTANCE                |  EXTENDS
      v                          v
  VoiceReply <--implements-- VoiceSystem               (legacy badge; badge and gateway)
```

Each `MC*` module instantiates a model for TLC and each `*Proofs` module holds
the theorems about it. `MCBadgeInput` and `MCProvisioning` put together several that share
no state, side by side: each of their behaviours is one of one machine, and the
others rest. That loses nothing, as no property mentions two of them.

**ProfileRegister** is the specification of the stored profile: one durable value,
a volatile view of it and a revision. A commit changes the value in one
step; power loss keeps it.

**ProfileStore** is the code under it. `record` and `temp` are the two files,
`Damaged` a file `read_record` rejects. A save is the sequence `lock`,
`check`, `open`, `write`, `verify`, `rename`, `publish` of `save_record`, and
each step may fail; `PowerLoss` may come after any of them. `Initialize`, `Mount`,
`Format`, `Remount` are `profile_initialize_for_conference`.

**SetupServices** is the concurrent core. `svc` is the program counter of
`service_loop` and `http` that of `handle_post`; a section under
`portal_mutex` is one step, and the tests of `requested` and `running` outside it are
steps of their own, which is where the interleavings are. `save_record` is one
step there, which `ProfileStore` justifies. Times are events: the ten minute limit
(`Expire`), the three second grace period (`EndGrace`) and radio time-outs
(a failing `JoinStation`/`FinishFetch`) may happen whenever they could.
The phone is the page it has loaded. The variables `saved`, `wifiKept` and
`erased` are history: no guard reads them.

**ClockService** has the mailbox (`pending`, `req`, `phase` of every caller) and the
set call of the main task in its three writes (`WriteRtc`, `StoreOffset`,
`SetSystem`) and its read-back (`Check`). A time is a value somebody set; that
clocks run on is left out.

**ProfileService** is what `services.cpp` promises `main.cpp`: the account on flash,
who may write it, and the reset slot, with portal and tasks hidden. `SetupServices`
implements it (`ServiceContract`).

**BadgeReset** composes that contract with the coordinator in `main.cpp`. The
main task is sequential, so every handler is one action, except `pollReset`, whose
writes can each fail or be interrupted by a restart: `pc` says which is
next. Every handler that ends in `refreshModel` ends in `Refresh`, in which the clock
may open the invitation. Delays of saves are left out: a planned save may fall due at
any time. The screen is built anew at the end of a pass of the loop (`Tick`), so `built`, what taps find on it, is
kept apart from `view`, the modal that the code has up: a touch injected over USB may come between the two, and `Confirm` asks
only for the button of the screen that is built, as `ui/modal_reset.cpp:11-17` does (`TakeUp` and `Ignore` are
`requestReset` after and at its early return). `Polled` says that `pollReset`, which comes before the
screens in a pass, has nothing more to do. `fresh`, `torn` and `late` are history: no guard reads them.
`late` says that the reset at work was confirmed by such a late tap, and whether setup was begun since.

**BadgeSystem** puts the tasks of `SetupServices` themselves under that coordinator, in place of
the contract. `main.cpp` has one task for both, so a handler with a part in each is one step of
each: `ShowSetup` (`startSetup`), `HideSetup` (the end of the loop), `EraseProfile`, `Confirm`
(`requestReset`, by late taps too). Where only one side is concerned the other rests (`Coordinate`, `Command`, `Serve`), and a
save by a task is seen by the coordinator as a change of the revision (`Wipe`, `KeepPhoto`, `KeepForm`)
or of the Wi-Fi override (`KeepWifi`). Its states are the product of the two, too many for a run
of its own: it is there for the theorems.

**BadgeUi** has the context of `badge_ui.cpp` as a record and each of its functions as an
operator from context to context. What was built last (`view`) is kept apart from it,
because a tap acts on what is on the screen, and the screen follows only at the end of a
round. The portal and the reset appear by their outcomes.

**ButtonInput** splits the timer's sample and the loop's take at their atomics
(`Sample`/`Store`, `Load`/`Exchange`), and feeds the gesture recognizer. **MorseUnlock**
is `update` as one action; how long a hold or a pause was is a choice among the lengths
it distinguishes. **InputVibration** is the motor with its limit; every write may fail with
or without effect, and time is ticks between which the loop comes round at least once.
**TouchObservation** is the diagnostic recorder, one tick of time at a time, with a sample
that may be old when it is observed.

**ReplyPromise** says what the gateway promises: a receipt for each key that only moves
forward, X asked once for each key and after the receipt is durable, one live reply for each post.
**ReplyLedger** is the Durable Object: rows and target guards in memory (`db`) and on
disk, calls that stop at every await (`sync`, `verify`, `posting`), crashes that fall back to
disk, an X that answers late, wrongly or never. **VoiceReply** is the badge over that promise: the main
task (user, screen, NVS record), the HTTPS worker, and the network that loses and
delays. **VoiceSystem** puts the ledger itself behind the badge, with the routes of
`gateway/src/index.ts` between them: `TakeSend` and `TakeStatus` start a call of the ledger for a
request that arrives, `Return` brings its answer to the worker if that still waits for it
(`request` says where the worker's request is, `server` which call serves it), `Die` is the
object's crash, and `TakeOther` the requests of the owner's other badges, whose keys are their own.
The target and text of a send are chosen when it arrives: a badge sends a key once.

**Installer** gives each operation of the page as a sequence of steps (`Begins`, `Then`), one for
each await that matters. A badge is what its flash holds: which partition table, which application,
which data. `Fail` stops an operation at any step, as every await may reject; `Reload` is
the browser tab closed or reloaded. Writing goes by address as esptool does, so an
interruption leaves each state between two parts. `Progress` is one sector's worth of that,
`Serve` the badge's side (`clockCommand`, `status`, `initialize_conference_storage`).

## 3. Runs

| Run | What it asks | Instance | States |
| --- | --- | --- | --- |
| `profile_store` | saves atomic, durable and not lost, RAM what flash holds; the files implement the register | 2 tasks, 2 profiles, 1 photo, revision at most 3 | 803,588 |
| `setup` | portal, downloads and resets exclude each other, tell the truth and end; the contract | 2 accounts, one with a photo | 205,920 |
| `provisioning` | the clock: durability, mailbox, answers, every request served. The page: nothing lost, true reports, one format for each consent | 2 callers, 2 times, 2 offsets; 1 badge | 127,171 |
| `badge_reset` | reset truth, what a reset at work keeps out, RAM against flash; a reset comes to an answer | 1 account, 2 values, 3 keys, 1 changeable | 466,346 |
| `reply_ledger` | the gateway implements its promise and answers no more than it keeps | 3 keys, 1 post, 2 texts, 2 calls at once | 490,483 |
| `voice_system` | the ledger is all the badge was promised, and over it nothing posts late, nothing sent is forgotten, each answer is to its request | 1 key of one badge, 1 post, 1 text, 2 calls at once | 262,836 |
| `input` | screens, pushers, the word, the motor, the recorder | 3 pages, ring of 2, sessions of 3 ticks | 596,858 |
| `photo_race` | finding 1 | as `setup`, 1 account | violated |
| `lost_start` | finding 2 | as `setup`, 1 account | violated |
| `cancelled_wifi` | finding 3 | as `setup`, 1 account | violated |
| `rotation_left` | finding 4 | `BadgeUi` alone, 3 pages | violated |
| `voice_worker` | finding 5 | `VoiceReply` alone, 1 key, with fairness | violated |

### Why the bounds are enough

* *Tasks and callers*: two savers are enough for one to wait behind the other
  at every step; two callers for one to queue after another has given up. The
  proofs cover any number.
* *Profiles and accounts*: the code only compares them for equality. One real
  account and `Nobody` is what a reset tells apart; two accounts let a form change
  the account under a download.
* *Preference values*: the default and one other; the invitation has just these
  two. In the run users change the invitation, which the clock and the relock change too; brightness and
  bookmarks start from another value than their default, so that a reset has them to write. The proofs cover
  changes of all three.
* *Revision*: `MaxRevision` (in `profile_store`) only bounds how often
  the profile changes in one power-up: the counter is 32 bits wide in the code.
* *Keys, posts and calls of the gateway*: replies meet only over one key or one post.
  Three keys for one post let a second wait for the first and a third come after its
  failure; two calls interleave at every await.
* *Badge with the gateway*: the badge has one reply at a time, and two calls let a request for its
  receipt meet the send still under way, or a crash. What another reply of the same post does to this one
  is what `reply_ledger` explores; that it is no more than the badge was promised, for any
  number of keys and of badges, is proved (`LedgerServesBadge`).
* *Pages and rings*: the last two pages are special, so three have an ordinary one; a
  ring of two wraps and overflows within a session of three contacts. The word has its real
  display of 32 symbols.
* *Badges of the installer*: every step names the port it was given, and another badge
  on the cable is the same to it as none. The proofs cover any number.
* *Time* in `input`: ticks of the motor's limit (`MaxHold`, `OffRetry`) and of the recorder
  (`MaxDuration`, `MaxTime`, `MaxContacts`); a limit of a few ticks has every order of
  the events before, at and after it.
* Sessions, downloads, resets, retries, restarts, operations of the page and requests of
  the badge are not bounded: they repeat until the state repeats.

### Findings

1. `photo_race`: the service task copies the profile, adds the photo and saves
   the copy (`services.cpp:608-612`) without holding a lock across the two, so a USB
   clear in between is undone, and a store initialized in between loses the record it has just found to a blank
   one. TLC's trace shows the second, which is shorter.
2. `lost_start`: a start accepted between the idle test (`services.cpp:627`) and the
   cancellation under the lock shows as cancelled while the request remains.
3. `cancelled_wifi`: the form saves Wi-Fi first; if the profile save then fails, the session ends as cancelled or
   timed out with the new credentials kept. The property looks only at a session that is over, when no handler can
   make it saved any more. In TLC's trace Back closes the session while the form is still being read.
4. `rotation_left`: calibration turns the screen to rotation 0 (`main.cpp:555`), and in the
   modes Default and 180 degrees nothing turns it back.
5. `voice_worker`: opening the replies screen over USB replaces a request in flight
   (`voice_reply.h:115`); its finished job is never collected, and the worker stays busy.

The models have these behaviours in them, and every other property is checked
with them. Other behaviours met on the way that contradict no promise:

* A `not_found` answer never frees a key the badge has stored
  (`gateway/README.md:195-200`), so a badge restarted between storing it and posting
  keeps asking for its receipt until the user discards it.
* `TouchObservation` tests twice what its samples already guarantee, and the
  Morse buffer fills up only in attempts that are already rejected.
* A recovery copy can be saved again after it was saved well; if that second save is
  cut short, the page still goes by the first (`installer.js:191`). The model puts each
  save in a file of its own.
* A touch released over USB in the pass in which a screen closes still taps the old screen
  (`main.cpp:337`). `button` and then `touch` with `end`, in one batch of commands, close the reset screen and confirm it:
  the reset is taken up and works without its screen, with navigation free, which
  `docs/conference-badge.md:165-168` does not have. `BadgeUi`, `BadgeReset` and `BadgeSystem` have these taps, so
  `ResetKeepsScreen` claims the screen only for a reset that was confirmed on it. What it claims of any reset is that
  neither the worker nor the writes are at work without `Working` being said, and that setup waits for the
  worker. Setup does not wait for the writes then: `startSetup` (`main.cpp:65-71`) tests the screen and
  `portal_start` the worker, neither tests `resetRequested`. No lock or flag, only the little time there is, keeps a form from being saved between the
  worker's end and the end of the writes, which would be kept while `Complete` is said. `ResetTruth` and `NothingReturns` except just that case
  (`late = "setup"`).

## 4. Fairness

* `SetupServices` (`FairSpec`, no restarts: a restart ends everything anyway):
  weak fairness of the service task's loop, which never blocks for
  ever (its waits have time-outs); of the HTTP handler (the server's receive time-out
  ends a slow body); of the two timers; and of the main loop's steps that
  close the setup screen and finish a USB request. No fairness of users, phones
  or the network.
* `ClockService`: weak fairness of the main loop only. Callers and their
  eight seconds are free.
* `BadgeReset`: weak fairness of `PollReset` (every round of the loop), and of the
  service task finishing a photo or a reset it has begun. Strong fairness of
  beginning a queued reset: a download in progress disables it again and
  again, but `service_loop` looks at the reset slot in every round, before it takes a
  download.
* `MCProvisioning` keeps that fairness for the side of the clock and has none for the page:
  users, cables and browsers owe it nothing.
* `VoiceReply` (`FairSpec`, used by `voice_worker` only): weak fairness of the main
  loop's handler and of its collecting a result, and of the worker finishing a request (HTTPS
  requests have time-outs).

The safety theorems and refinements do not use any of it.

## 5. Proofs

All theorems hold for every value of the constants under the assumption named in the
module (`StoreAssumption`, `FileAssumption`, `ServicesAssumption`,
`ClockAssumption`, `ResetAssumption`, `LedgerAssumption`, `OwnKeys`), which only says that the special values (`Nobody`, `Damaged`, ...) are not
ordinary ones, or (`InputAssumption`) that there are at least two pages, that the ring and the
motor's limit are not zero, and that the display has room for the word and its pauses.
`ResetAssumption` and `BadgeAssumption` are hypotheses of the theorems and not ASSUMEs of the
modules, since a module above uses the theorems for other constants (`MCBadgeReset` has TLC
evaluate the former).

**ProfileStoreProofs.** `RamFollowsFlash` is not inductive: whether it survives
`PublishSave` depends on what the renamed file contains, hence on the write lock. The
invariant adds that at most one task is inside the lock and which it is (`writer`),
that `previous` is what flash shows from `check` to `rename`, that the verified
temporary file is `next`, and that from `rename` to `publish` flash is
`next`. From it: `TypeCorrect`, `RamCorrect`, `NoLostUpdate`, `AllOrNothing`,
`RevisionCorrect`, and `Refinement`, by cases on the step: `Rename` is the commit of
the register, `PublishSave` its publication, initialization its format, every
other step a stutter.

**SetupServicesProofs.** The invariant has five parts, one for each thing a step of
one task relies on others not to have changed: `NetInv` (which program counters
of the service task imply access point and session), `StartInv` (what a start leaves
to be found), `SlotInv` (setup, download and reset exclude each other, at every
step between the check and the act), `OutcomeInv` (a handler past the save has a saved
session), `PhotoInv` (the account of a photo in flight). One lemma per part and
actor, one case per action. Theorems: `TypeCorrect`, `RadiosExclude`, `ResetAlone`,
`TruthfulOutcome`, `PageOfSession`, `SessionIsReady`, `PhotoOfAccount`,
`ResetIsFinal`.

**ProvisioningProofs, the clock** (`ClockInv`). `StageInv` says what each write of a set call has
established, `CallInv` that the call under way is for a caller only while that caller
waits, and then carries its request. Theorems: `TypeCorrect`, `Durable`,
`NoLostRequest`, `TrueAnswer`.

**The contract** (`KeepsContract`, in `SetupServicesProofs`): every step of the three tasks is a step of
`ProfileService` or changes nothing in it (`HiddenStep`), by cases on the action and from
the invariant above. The mapping shows the account of the record on flash
(`who`), whether setup is wanted, up or closing (`busy`), whether the snapshot
shows it (`up`), and the account of a downloaded photo between its read and its save
(`snap`); the end of a session is the last step that makes `busy` or `up` false, which
may be any of five. The lemmas say more than the theorem needs, which step of the contract an
action is and what it reports (`StartContract`, `FormContract`, `ResetContract`, `PhotoContract`),
because `BadgeSystemProofs` builds on it.

**BadgeResetProofs.** None of the properties is inductive. `ServiceInv` says that reset,
setup and photos exclude each other in the service. `ClearedInv` is the heart: from the
moment the profile is cleared to the end of the reset, and as long as the screen may
offer to finish only the settings step, the account is `Nobody` and so is that of a photo
in flight (otherwise saving it would bring the account back). `WriteInv` says which keys
are written at each step of `pollReset`, `FreshInv` that a completed reset holds in
memory and on flash. `ResetKeepsScreen` is a part of the invariant: that setup waits for the worker
even after a late tap is why a cleared profile stays so until then, and `ClearedInv` stops where setup was begun
under the reset. Theorems: `TypeCorrect`, `ScreenStays`, `CompletedResetHolds`,
`RestartKeeps`, `TruthfulReset`.

**BadgeInputProofs.** One invariant for each machine, and one lemma that a step of the sum is a step
of the machine under way. `MotorInv` needs only ranges. `ButtonInv` says what a press
owes at each of the four points the timer and the loop can be at. `UiInv` follows the context
through every operator (`Good`), so that an action is a few of them composed. `RingInv` counts the
ring modulo its size; `HeldInv` orders the instants of a contact against session and sample, from which
`ContactsAreTrue` follows. `MorseInv` bounds the display's length by the symbols typed, which is
why no correct prefix overflows. Theorems: `MotorIsBounded`, `PressesAreAnswered`,
`ModalsAreExclusive`, `WordUnlocks`, `RingHoldsTail`, `ContactsAreTrue`.

**VoiceSystemProofs, the ledger alone** (`IInv`). The invariant says that a live row holds the guard of its post, in memory and
on disk (`Guards`), that disk is behind memory along `Follows` (`Ahead`), that X was asked only for
durable rows and final rows are what X did (`AskedInv`), that a row being sent belongs to one call
(`SendInv`, `OneSender`), and what a call is about to answer (`AnswerInv`). Theorems: `AnswersHold`;
`LedgerKeepsPromise`, the refinement, where the dispatch is the promise's `Ask` and a flush
its receipt; and with it `LedgerOneReply` and `LedgerReceiptTruth`.

**VoiceReplyProofs.** `JobInv` ties the request to the worker's job, `KeyInv` the key in memory to the
one in flash, `GatewayInv` the answers to the promise, and `FlashInv` is the heart: every key that
flash does not name is `Quiet`, nothing more can be posted for it and what the user was told of it is
so. Theorems: `Invariant`, `NothingLate`, `FlashRemembers`, `AnswersAreOwn`, under the hypothesis `BadgeAssumption` (no key generated is `NoKey` or
`Corrupt`).

**VoiceSystemProofs, badge and ledger.** End to end: `SystemInv` is the ledger's invariant, the badge's, and `RouteInv`,
that the call which serves the worker is about the worker's key and that the ledger has rows of this
badge's keys only for what arrived. `LedgerServesBadge`: each step of the system is a step of
`VoiceReply` or changes nothing in it, by cases on the action; a step of the ledger is a step of the
promise (the lemmas behind `LedgerKeepsPromise`), restricted to the badge's keys. Of the badge only
what it does is used, so that `BadgeUsesLedger`, the ledger alone in this system is `ReplyLedger`, comes with it.
`OwnKeys` gives the badge's theorems their hypothesis, and they become theorems about the badge with the
ledger: `ToldTheTruth`, `NoReplyForgotten`, `AnswersAreOwn`; and `OneReplyFromAll`: whatever badges,
crashes and losses there are, X holds one live reply for a post.

**ProvisioningProofs, the page** (`PageInv`). One lemma for each action, one step in it for each part of the invariant.
`PlanInv` says which operation a step belongs to and that it has a port and, where it needs one, a copy;
`CopyInv` that a copy that counts as saved is on the computer; `FlashInv` what a write may find: as long
as the loader runs nobody else changes the badge, so a first install that has written nothing still finds
what its copy says. `NoteInv` is that the page has taken note of whatever it did, `AnswerInv` that an answer
is still true when it is read, although the badge may restart or another one be plugged in, and
`GrantInv` that a confirmation lasts until its command. Theorems, for any number of badges and without an
assumption: `NothingIsLost`, `PageTellsTruth`, `FormatsOncePerConsent`.

**BadgeSystemProofs.** The theorems about `BadgeReset` are about the coordinator over the contract, and
here they become theorems about the coordinator over the three tasks. `SystemInv` is the invariant of
the tasks, that of the coordinator under the refinement mapping of `KeepsContract`, and
`ScreenOfSetup`: the main task's `setupRequested`, which the tasks' commands test, is `view = "setup"`,
which the coordinator tests. Each action is one of `BadgeReset` or changes nothing in it, by the lemmas on
what it is to the contract (`TasksServeCoordinator`); with the services alone it is a step of theirs
(`CoordinatorUsesTasks`), so that all theorems about `SetupServices` hold as they are. The `Same*` lemmas say that the
model and its proofs, instantiated apart, are about the same actions. Then, on the whole badge:
`BadgeTellsTheTruth`, `BadgeKeepsScreen`, `BadgeKeepsPreferences`, `ScreenGoesWithSetup`; and two that need both
halves: `ResetLeavesNothing`, which adds to `ResetHolds` that no photo of an account is left
(`PhotoBelongs` of the tasks), and `NothingComesBack`: during the writes no handler of the setup page is at work,
since setup is not begun under a reset unless after a late tap, a session has the setup screen, and a handler its session.

## 6. Only model-checked

* Liveness (`SetupEnds`, `ScreenLeaves`, `FetchEnds`, `ResetEnds`,
  `RequestServed`, `ResetAnswered`): fairness and ENABLED are out of the prover's
  reach.
* Nothing of what the runs check besides. In turn `BadgeSystem` is only proved about: no run has it.
* Type invariants (`TypeOK`) are proved where a theorem `TypeCorrect` or `LedgerTypes` says so.
* Nothing here needs recursion, so there is no induction over data and no RECURSIVE
  operator.

## 7. Not modelled

Inside modelled components:

* *Services*: captive DNS, the socket table and client count, bytes of the HTTPS exchange, parsing of
  forms and of the record (a file is accepted or not), text of messages.
* *Time*: debounce delays and the wrapping of the millisecond clock (elapsed times are choices), the ticking
  of the checked clocks.
* *Badge interface*: what a page shows, its scrolling and submenus, animations; the rebuild of the
  invitation when it is relocked over USB (`badge_ui.cpp:113-118`); `ui_open_after_dark`, which the
  factory firmware never calls.
* *Touch*: coordinates, and the calibration session, whose fit is floating point.
* *Legacy firmware*: sign-in, profile refresh, and its profile store, portal and clock, which
  the factory firmware replaced by those modelled here.
* *Gateway*: identities, the inbox and transcription routes, which keep no state but counters.
* *Installer*: the bytes esptool-js exchanges, downloads, manifests and layouts beyond suitable
  or not, diagnostics and reports.

Components: *Orientation filter* is floating point, *Schedule content*, *Social networks* and
*Portal page* are tables and text, *Wi-Fi credentials* appear as atomic steps of other models, the
*Avatar service* answers one request at a time from a provider, *site* and *scripts* are not part of the
running system.

Most of the repository's lines are generated fonts, art and animation frames under `main/ui/` (about
77,000 of 86,500 lines of implementation) and vendored drivers. They hold data, no behaviour, so the share of
all lines that the models cover stays small however much of the program they cover.

## 8. Plan

Modelled first is what can lose or resurrect an attendee's profile.

1. `ProfileRegister`, `ProfileStore` and proofs: done.
2. `SetupServices` and proofs: done.
3. `ClockService` and proofs: done.
4. `ProfileService`, `BadgeReset`, `BadgeSystem` and proofs, with the contract and the coordinator over the
   tasks as refinements: done.
5. `BadgeUi`, `ButtonInput`, `MorseUnlock`, `InputVibration`, `TouchObservation` and proofs: done.
6. `ReplyPromise`, `ReplyLedger`, `VoiceReply`, `VoiceSystem` and proofs: done.
7. `Installer` and proofs: done.

What is left, in order of worth: a `CalibrationSession` over `TouchObservation`'s samples, with the fit as a
choice; the relock of the invitation in `BadgeUi`; touch tests and calibration in `BadgeReset`'s `built`.
