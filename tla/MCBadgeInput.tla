---------------------------- MODULE MCBadgeInput ----------------------------
(***************************************************************************)
(* The five machines between the user's hands and the screen.  They share   *)
(* no state: main.cpp's loop runs each once per pass.  So they are checked  *)
(* one beside the other, every behaviour being one machine's.               *)
(***************************************************************************)
EXTENDS Integers, Sequences

CONSTANTS
  PageCount,                                       \* BadgeUi
  Yellow, Blue,                                    \* ButtonInput
  InputCapacity,                                   \* MorseUnlock
  MaxHold, OffRetry,                               \* InputVibration
  Capacity, MaxDuration, MaxTime, MaxContacts      \* TouchObservation

ASSUME InputAssumption ==
  /\ PageCount \in Nat \ {0, 1}
  /\ InputCapacity \in Nat /\ InputCapacity >= 20   \* the whole word, spaced
  /\ MaxHold \in Nat \ {0} /\ OffRetry \in Nat
  /\ Capacity \in Nat \ {0}

VARIABLES
  machine,
  ctx, view, press, uiContact, setupRequested, portal, calibrationRequested,
  resetRequested, resetState, mode, rotation, rotationPending,
  raw, candidate, stable, level, latched, timer, main, loaded, gesture, first,
  owed, outcome, lost,
  owner, index, length, pressed, uWaiting, rejected, letterOpen, wordOpen,
  typed, inputs, unlocked,
  available, requested, active, stopping, held, tried, motor, motorContact, polled,
  now, sample, enabled, started, duration, holding, eligible, previous, waiting,
  current, previousRelease, records, head, count, dropped, total, last, popped

Ui      == INSTANCE BadgeUi WITH contact <- uiContact
Buttons == INSTANCE ButtonInput
Morse   == INSTANCE MorseUnlock WITH waiting <- uWaiting
Motor   == INSTANCE InputVibration WITH contact <- motorContact
Touch   == INSTANCE TouchObservation

ui      == <<ctx, view, press, uiContact, setupRequested, portal, calibrationRequested,
             resetRequested, resetState, mode, rotation, rotationPending>>
buttons == <<raw, candidate, stable, level, latched, timer, main, loaded, gesture,
             first, owed, outcome, lost>>
morse   == <<owner, index, length, pressed, uWaiting, rejected, letterOpen, wordOpen,
             typed, inputs, unlocked>>
motion  == <<available, requested, active, stopping, held, tried, motor, motorContact,
             polled>>
touch   == <<now, sample, enabled, started, duration, holding, eligible, previous,
             waiting, current, previousRelease, records, head, count, dropped,
             total, last, popped>>
vars    == <<machine, ui, buttons, morse, motion, touch>>

Init ==
  /\ machine \in {"ui", "buttons", "morse", "motor", "touch"}
  /\ Ui!Init /\ Buttons!Init /\ Morse!Init /\ Motor!Init /\ Touch!Init
  \* one initial state is enough of a machine that does not run
  /\ machine # "ui" => mode = "Free" /\ uiContact = "up"
  /\ machine # "motor" => available

RunUi      == /\ machine = "ui" /\ Ui!Next
              /\ UNCHANGED <<machine, buttons, morse, motion, touch>>
RunButtons == /\ machine = "buttons" /\ Buttons!Next
              /\ UNCHANGED <<machine, ui, morse, motion, touch>>
RunMorse   == /\ machine = "morse" /\ Morse!Next
              /\ UNCHANGED <<machine, ui, buttons, motion, touch>>
RunMotor   == /\ machine = "motor" /\ Motor!Next
              /\ UNCHANGED <<machine, ui, buttons, morse, touch>>
RunTouch   == /\ machine = "touch" /\ Touch!Next
              /\ UNCHANGED <<machine, ui, buttons, morse, motion>>

Next == RunUi \/ RunButtons \/ RunMorse \/ RunMotor \/ RunTouch

Spec == Init /\ [][Next]_vars

-----------------------------------------------------------------------------
(* What each machine promises; its module says more *)

\* Special screens exclude each other, and none is left without a way out.
ModalsExclude == Ui!ModalsExclude

\* Every press is seen, and a gesture acts at most once.
PressesAnswered == Buttons!PressesAnswered

\* Only the whole word by one input unlocks, and pauses never spoil it.
WholeWordUnlocks == Morse!WholeWordUnlocks

\* The motor never runs unaccounted for, or past its limit.
MotorBounded == Motor!MotorBounded

\* A recorded contact and its gap are what the sensor really saw.
ContactTruth == Touch!ContactTruth

\* The ring holds the contacts recorded last and not yet read.
RingIsTail == Touch!RingIsTail
=============================================================================
