------------------------- MODULE BadgeInputProofs -------------------------
(***************************************************************************)
(* Proofs about the machines between the user's hands and the screen, for   *)
(* any number of pages, limits, and sizes of the ring.                      *)
(***************************************************************************)
EXTENDS MCBadgeInput, TLAPS

(* Every step is one machine's, and leaves the others alone.                *)
LEMMA Steps ==
  ASSUME [Next]_vars
  PROVE  /\ [Ui!Next]_ui /\ [Buttons!Next]_buttons /\ [Morse!Next]_morse
         /\ [Motor!Next]_motion /\ [Touch!Next]_touch
  BY Zenon DEF Next, RunUi, RunButtons, RunMorse, RunMotor, RunTouch, vars

-----------------------------------------------------------------------------
(* The motor: the property is inductive.                                    *)
MotorInv == held \in 0 .. MaxHold /\ MotorBounded

(* Every step of the motor keeps it.                                        *)
LEMMA MotorStep ==
  ASSUME MotorInv, [Motor!Next]_motion
  PROVE  MotorInv'
<1> USE InputAssumption DEF MotorInv, MotorBounded, Motor!MotorBounded
<1>1. CASE Motor!ReleaseInput
  BY <1>1 DEF Motor!ReleaseInput, Motor!Stop, Motor!AttemptOff, Motor!Rest
<1>2. CASE Motor!PressInput
  BY <1>2 DEF Motor!PressInput, Motor!Rest
<1>3. CASE Motor!Poll
  <2>1. held' = held /\ (motor' = "on" => active')
    BY <1>3 DEF Motor!Poll, Motor!AttemptOff, Motor!Rest
  <2>2. ASSUME active', ~stopping' PROVE requested' /\ ~Motor!Expired
    <3>1. active /\ ~stopping /\ motorContact /\ ~Motor!Expired
      <4>1. ~Motor!AttemptOff
        BY <2>2 DEF Motor!AttemptOff
      <4>2. Motor!Rest => active' = active /\ stopping' = stopping
        BY DEF Motor!Rest
      <4> QED
        BY <1>3, <2>2, <4>1, <4>2, Zenon DEF Motor!Poll
    <3>2. requested
      BY <3>1
    <3>3. requested' = (requested /\ motorContact)
      BY <1>3, Zenon DEF Motor!Poll
    <3> QED
      BY <3>1, <3>2, <3>3, Zenon
  <2>3. ~Motor!Expired => held < MaxHold
    BY DEF Motor!Expired
  <2> QED
    BY <2>1, <2>2, <2>3
<1>4. CASE Motor!TouchChanges
  BY <1>4 DEF Motor!TouchChanges, Motor!driver
<1>5. CASE Motor!Tick
  BY <1>5 DEF Motor!Tick
<1>6. CASE Motor!Restart
  BY <1>6 DEF Motor!Restart, Motor!Started
<1>7. CASE UNCHANGED motion
  BY <1>7 DEF motion
<1> QED
  BY <1>1, <1>2, <1>3, <1>4, <1>5, <1>6, <1>7 DEF Motor!Next

(* The motor never runs unaccounted for, nor past its limit, whatever the   *)
(* limits are and whichever writes fail.                                    *)
THEOREM MotorIsBounded == Spec => []MotorBounded
<1>1. Init => MotorInv
  BY InputAssumption DEF Init, Motor!Init, MotorInv, MotorBounded,
     Motor!MotorBounded
<1>2. MotorInv /\ [Next]_vars => MotorInv'
  BY Steps, MotorStep
<1>3. MotorInv => MotorBounded
  BY DEF MotorInv
<1> QED
  BY <1>1, <1>2, <1>3, PTL DEF Spec

-----------------------------------------------------------------------------
(* The pushers: what is owed is latched, and only a suppressed gesture has  *)
(* acted.                                                                   *)
ButtonInv ==
  /\ Buttons!TypeOK
  /\ owed \subseteq latched
  /\ outcome = "acted" => gesture = "suppressed"
  /\ ~lost

(* A pass of the loop answers what the timer latched.                       *)
LEMMA UpdateStep ==
  ASSUME ButtonInv, NEW h \in SUBSET Buttons!Both, owed \subseteq h,
         Buttons!Update(h)
  PROVE  /\ gesture' \in {"idle", "single", "chord", "suppressed"}
         /\ first' \subseteq Buttons!Both
         /\ outcome' \in {"none", "acted"} /\ lost' = FALSE
         /\ outcome' = "acted" => gesture' = "suppressed"
<1> USE DEF ButtonInv, Buttons!TypeOK, Buttons!Act, Buttons!Quiet, Buttons!Ends
<1>1. CASE gesture = "suppressed"
  BY <1>1 DEF Buttons!Update
<1>2. CASE gesture = "idle" /\ h = {}
  BY <1>2 DEF Buttons!Update
<1>3. CASE gesture = "idle" /\ h # {}
  <2>1. Buttons!Begun(h, h)
    BY <1>3 DEF Buttons!Update
  <2> QED
    BY <1>3, <2>1 DEF Buttons!Begun
<1>4. CASE gesture \in {"single", "chord"}
  <2>1. Buttons!Begun(first, h)
    BY <1>4 DEF Buttons!Update
  <2> QED
    BY <1>4, <2>1 DEF Buttons!Begun
<1> QED
  BY <1>1, <1>2, <1>3, <1>4

(* So does every other step of the timer and the loop.                      *)
LEMMA ButtonStep ==
  ASSUME ButtonInv, [Buttons!Next]_buttons
  PROVE  ButtonInv'
<1> USE DEF ButtonInv, Buttons!TypeOK
<1>1. CASE Buttons!ContactChanges
  BY <1>1 DEF Buttons!ContactChanges, Buttons!gestures
<1>2. CASE Buttons!Sample
  <2>1. PICK due \in SUBSET {k \in Buttons!Both : (k \in raw) = (k \in candidate)} :
          stable' = (stable \ due) \cup (raw \cap due)
    BY <1>2 DEF Buttons!Sample
  <2>2. stable' \subseteq Buttons!Both
    BY <2>1
  <2> QED
    BY <1>2, <2>2 DEF Buttons!Sample, Buttons!Latched, Buttons!gestures
<1>3. CASE Buttons!Store
  BY <1>3 DEF Buttons!Store, Buttons!gestures
<1>4. CASE Buttons!Load
  BY <1>4 DEF Buttons!Load, Buttons!keys, Buttons!gestures
<1>5. CASE Buttons!Exchange
  <2>1. /\ loaded \cup latched \in SUBSET Buttons!Both
        /\ owed \subseteq loaded \cup latched
        /\ Buttons!Update(loaded \cup latched)
    BY <1>5 DEF Buttons!Exchange
  <2>2. /\ gesture' \in {"idle", "single", "chord", "suppressed"}
        /\ first' \subseteq Buttons!Both
        /\ outcome' \in {"none", "acted"} /\ lost' = FALSE
        /\ outcome' = "acted" => gesture' = "suppressed"
    BY <2>1, UpdateStep, Zenon
  <2> QED
    BY <1>5, <2>2 DEF Buttons!Exchange, Buttons!keys
<1>6. CASE UNCHANGED buttons
  BY <1>6 DEF buttons
<1> QED
  BY <1>1, <1>2, <1>3, <1>4, <1>5, <1>6 DEF Buttons!Next

(* No debounced press goes unseen, and no gesture acts twice.               *)
THEOREM PressesAreAnswered == Spec => []PressesAnswered
<1>1. Init => ButtonInv
  BY DEF Init, Buttons!Init, ButtonInv, Buttons!TypeOK
<1>2. ButtonInv /\ [Next]_vars => ButtonInv'
  BY Steps, ButtonStep
<1>3. ButtonInv => PressesAnswered
  BY DEF ButtonInv, Buttons!TypeOK, PressesAnswered, Buttons!PressesAnswered
<1> QED
  BY <1>1, <1>2, <1>3, PTL DEF Spec

-----------------------------------------------------------------------------
(* The screens.  What the property needs of the types, and a reset that     *)
(* works having been requested.                                             *)
Contexts == [page : Ui!Pages, origin : Ui!Pages, setup : BOOLEAN, touch : BOOLEAN,
             calibration : BOOLEAN, reset : BOOLEAN, confirmed : BOOLEAN,
             pending : {-1, 0, 1}, rebuild : BOOLEAN]

UiInv ==
  /\ ctx \in Contexts /\ ModalsExclude
  /\ resetState = "Working" => resetRequested

(* A screen that is shown, closed or turned excludes the others.            *)
Good(c) ==
  /\ c \in Contexts
  /\ ~(c.setup /\ c.touch) /\ ~(c.setup /\ c.reset) /\ ~(c.touch /\ c.reset)
  /\ c.calibration => c.touch
  /\ c.setup \/ c.touch \/ c.reset => c.pending = 0

(* What the promise says of the context.                                    *)
LEMMA GoodContext == UiInv => Good(ctx) /\ ctx.setup = setupRequested
  BY DEF UiInv, Good, ModalsExclude, Ui!ModalsExclude, Ui!OneModal, Ui!GestureFree, Ui!Modal

(* And back: a good context and a reset that was asked for are enough.      *)
LEMMA GoodInv ==
  ASSUME Good(ctx'), ctx'.setup = setupRequested',
         resetState' = "Working" => resetRequested'
  PROVE  UiInv'
  BY DEF UiInv, Good, ModalsExclude, Ui!ModalsExclude, Ui!OneModal, Ui!GestureFree,
     Ui!Modal, Ui!NoTrap

(* Turning the page keeps the context good.                                 *)
LEMMA GoodTurned ==
  ASSUME NEW c, Good(c), NEW step \in {-1, 1}
  PROVE  Good(Ui!Turned(c, step)) /\ Ui!Turned(c, step).setup = c.setup
<1>1. (c.page + step) % PageCount \in Ui!Pages
  BY InputAssumption DEF Good, Contexts, Ui!Pages
<1> QED
  BY <1>1 DEF Good, Contexts, Ui!Turned, Ui!Modal

(* So does opening a screen, setup only beside no other,                    *)
LEMMA GoodShown ==
  ASSUME NEW c, Good(c)
  PROVE  /\ Good(Ui!ShowTouchTest(c)) /\ Ui!ShowTouchTest(c).setup = c.setup
         /\ Good(Ui!ShowCalibration(c)) /\ Ui!ShowCalibration(c).setup = c.setup
         /\ Good(Ui!ShowReset(c)) /\ Ui!ShowReset(c).setup = c.setup
         /\ ~c.touch /\ ~c.reset => Good(Ui!ShowSetup(c)) /\ Ui!ShowSetup(c).setup = TRUE
         /\ c.setup => Good(Ui!ShowSetup(c)) /\ Ui!ShowSetup(c).setup = TRUE
<1>1. Ui!Settings \in Ui!Pages
  BY InputAssumption DEF Ui!Settings, Ui!Pages
<1>2. Good(Ui!ShowTouchTest(c)) /\ Ui!ShowTouchTest(c).setup = c.setup
  BY <1>1 DEF Good, Contexts, Ui!ShowTouchTest
<1>3. Good(Ui!ShowCalibration(c)) /\ Ui!ShowCalibration(c).setup = c.setup
  <2> DEFINE d == Ui!ShowTouchTest(c)
  <2> HIDE DEF d
  <2>1. Good(d) /\ d.setup = c.setup
    BY <1>2 DEF d
  <2>2. Ui!ShowCalibration(c) =
          IF d.touch THEN [d EXCEPT !.calibration = TRUE, !.rebuild = TRUE] ELSE d
    BY DEF Ui!ShowCalibration, d
  <2> QED
    BY <2>1, <2>2 DEF Good, Contexts
<1>4. Good(Ui!ShowReset(c)) /\ Ui!ShowReset(c).setup = c.setup
  BY <1>1 DEF Good, Contexts, Ui!ShowReset, Ui!Modal
<1>5. ~c.reset /\ (c.setup \/ ~c.touch) => Good(Ui!ShowSetup(c)) /\ Ui!ShowSetup(c).setup = TRUE
  BY DEF Good, Contexts, Ui!ShowSetup
<1> QED
  BY <1>2, <1>3, <1>4, <1>5 DEF Good

(* and closing one.                                                         *)
LEMMA GoodClosed ==
  ASSUME NEW c, Good(c)
  PROVE  /\ Good(Ui!CloseTouchTest(c)) /\ Ui!CloseTouchTest(c).setup = c.setup
         /\ Good(Ui!CloseReset(c)) /\ Ui!CloseReset(c).setup = c.setup
         /\ \A saved : c.setup => /\ Good(Ui!CloseSetup(c, saved))
                                  /\ Ui!CloseSetup(c, saved).setup = FALSE
<1>1. Ui!Settings \in Ui!Pages /\ Ui!Badge \in Ui!Pages
  BY InputAssumption DEF Ui!Settings, Ui!Badge, Ui!Pages
<1>2. Good(Ui!CloseTouchTest(c)) /\ Ui!CloseTouchTest(c).setup = c.setup
  BY <1>1 DEF Good, Contexts, Ui!CloseTouchTest
<1>3. Good(Ui!CloseReset(c)) /\ Ui!CloseReset(c).setup = c.setup
  BY <1>1, InputAssumption DEF Good, Contexts, Ui!CloseReset
<1>4. ASSUME NEW saved, c.setup
      PROVE  Good(Ui!CloseSetup(c, saved)) /\ Ui!CloseSetup(c, saved).setup = FALSE
  <2> DEFINE p == IF saved /\ c.origin # Ui!Settings THEN Ui!Badge ELSE c.origin
  <2>1. p \in Ui!Pages
    BY <1>1 DEF Good, Contexts
  <2>2. Ui!CloseSetup(c, saved) = [c EXCEPT !.setup = FALSE, !.origin = 0,
                                            !.rebuild = TRUE, !.page = p]
    BY <1>4, Zenon DEF Ui!CloseSetup
  <2>3. 0 \in Ui!Pages
    BY InputAssumption DEF Ui!Pages
  <2> HIDE DEF p
  <2> QED
    BY <1>4, <2>1, <2>2, <2>3 DEF Good, Contexts
<1> QED
  BY <1>2, <1>3, <1>4

(* Setup starts only when no other special screen is up.                    *)
LEMMA StartStep ==
  ASSUME UiInv, Ui!StartSetup
  PROVE  UiInv'
<1>0. Good(ctx) /\ ctx.setup = setupRequested /\ (resetState = "Working" => resetRequested)
  BY GoodContext DEF UiInv
<1>1. CASE UNCHANGED <<ctx, Ui!setup, calibrationRequested, Ui!reset, Ui!turning>>
  BY <1>0, <1>1, GoodInv DEF Ui!setup, Ui!reset
<1>2. CASE ~ctx.touch /\ ~ctx.reset /\ setupRequested' = TRUE /\ ctx' = Ui!ShowSetup(ctx)
           /\ UNCHANGED Ui!reset
  <2>1. Good(ctx') /\ ctx'.setup = TRUE
    BY <1>0, <1>2, GoodShown
  <2> QED
    BY <1>0, <1>2, <2>1, GoodInv DEF Ui!reset
<1> QED
  BY <1>1, <1>2 DEF Ui!StartSetup

(* What a tap leaves of the context.                                        *)
LEMMA TapStep ==
  ASSUME UiInv, NEW w, Ui!Tap(w)
  PROVE  UiInv'
<1> DEFINE Same == setupRequested' = setupRequested /\ (resetState' = "Working" => resetRequested')
<1>0. Good(ctx) /\ ctx.setup = setupRequested /\ (resetState = "Working" => resetRequested)
  BY GoodContext DEF UiInv
<1>1. ASSUME NEW c, Good(c), c.setup = ctx.setup, Ui!Close(c) PROVE UiInv'
  BY <1>0, <1>1, GoodInv DEF Ui!Close, Ui!setup, Ui!reset
<1>2. CASE w \in {"left", "right", "test", "reset", "back"}
  <2>1. CASE w = "left"
    BY <1>0, <1>1, <2>1, GoodTurned DEF Ui!Tap
  <2>2. CASE w = "right"
    BY <1>0, <1>1, <2>2, GoodTurned DEF Ui!Tap
  <2>3. CASE w = "test"
    BY <1>0, <1>1, <2>3, GoodShown DEF Ui!Tap
  <2>4. CASE w = "reset"
    BY <1>0, <1>1, <2>4, GoodShown DEF Ui!Tap
  <2>5. CASE w = "back"
    BY <1>0, <1>1, <2>5, GoodClosed DEF Ui!Tap
  <2> QED
    BY <1>2, <2>1, <2>2, <2>3, <2>4, <2>5
<1>3. CASE w = "connect"
  BY <1>3, StartStep DEF Ui!Tap
<1>4. CASE w = "mode"
  BY <1>0, <1>4, GoodInv DEF Ui!Tap, Ui!ChooseMode, Ui!setup, Ui!reset
<1>5. CASE w = "confirm"
  <2>1. Ui!Confirm
    BY <1>5 DEF Ui!Tap
  <2>2. Good(ctx') /\ ctx'.setup = ctx.setup /\ setupRequested' = setupRequested
    BY <1>0, <2>1 DEF Ui!Confirm, Ui!setup, Good, Contexts
  <2>3. resetState' = "Working" => resetRequested'
    BY <1>0, <2>1 DEF Ui!Confirm, Ui!RequestReset, Ui!reset
  <2> QED
    BY <1>0, <2>2, <2>3, GoodInv
<1>6. CASE w = "calibrate"
  BY <1>0, <1>6, GoodInv DEF Ui!Tap, Ui!setup, Ui!reset
<1>7. CASE w = "frame"
  <2> DEFINE d == IF ctx.pending # 0 THEN Ui!Turned(ctx, ctx.pending) ELSE ctx
  <2>1. Good(d) /\ d.setup = ctx.setup
    BY <1>0, GoodTurned DEF Good, Contexts
  <2>2. Ui!Close([d EXCEPT !.pending = 0])
    BY <1>7 DEF Ui!Tap
  <2> HIDE DEF d
  <2>3. Good([d EXCEPT !.pending = 0]) /\ [d EXCEPT !.pending = 0].setup = d.setup
    BY <2>1 DEF Good, Contexts
  <2> QED
    BY <1>1, <2>1, <2>2, <2>3
<1> QED
  BY <1>2, <1>3, <1>4, <1>5, <1>6, <1>7 DEF Ui!Tap

(* The pointer, read by the screen or by the USB command.                   *)
LEMMA PointerStep ==
  ASSUME UiInv, Ui!ReadPointer \/ Ui!InjectTouch
  PROVE  UiInv'
<1>0. Good(ctx) /\ ctx.setup = setupRequested /\ (resetState = "Working" => resetRequested)
  BY GoodContext DEF UiInv
<1>1. ASSUME Ui!Press \/ Ui!Swipe, Ui!Calm PROVE UiInv'
  <2>1. Good(ctx') /\ ctx'.setup = ctx.setup
    BY <1>0, <1>1 DEF Ui!Press, Ui!Swipe, Ui!Modal, Good, Contexts
  <2> QED
    BY <1>0, <1>1, <2>1, GoodInv DEF Ui!Calm, Ui!setup, Ui!reset
<1>2. ASSUME Ui!Release PROVE UiInv'
  <2>1. CASE Ui!Tap(press)
    BY <2>1, TapStep
  <2>2. CASE UNCHANGED <<ctx, Ui!setup, calibrationRequested, Ui!reset, Ui!turning>>
    BY <1>0, <2>2, GoodInv DEF Ui!setup, Ui!reset
  <2> QED
    BY <1>2, <2>1, <2>2 DEF Ui!Release
<1> QED
  BY <1>1, <1>2 DEF Ui!ReadPointer, Ui!InjectTouch

(* Every step of the interface.                                             *)
LEMMA UiStep ==
  ASSUME UiInv, [Ui!Next]_ui
  PROVE  UiInv'
<1>0. Good(ctx) /\ ctx.setup = setupRequested /\ (resetState = "Working" => resetRequested)
  BY GoodContext DEF UiInv
<1>1. CASE Ui!Finger
  BY <1>0, <1>1, GoodInv DEF Ui!Finger, Ui!setup, Ui!reset
<1>2. CASE Ui!ReadPointer \/ Ui!InjectTouch
  BY <1>2, PointerStep
<1>3. CASE Ui!Refresh
  <2>1. Good(ctx') /\ ctx'.setup = ctx.setup
    BY <1>0, <1>3 DEF Ui!Refresh, Good, Contexts
  <2> QED
    BY <1>0, <1>3, <2>1, GoodInv DEF Ui!Refresh, Ui!setup, Ui!reset
<1>4. CASE Ui!PushButton
  <2>1. PICK both \in BOOLEAN, step \in {-1, 1} : Ui!Close(Ui!Button(ctx, both, step))
    BY <1>4 DEF Ui!PushButton
  <2> DEFINE c == Ui!Button(ctx, both, step)
  <2>2. Good(c) /\ c.setup = ctx.setup
    <3>1. Ui!Settings \in Ui!Pages
      BY InputAssumption DEF Ui!Settings, Ui!Pages
    <3> DEFINE d == [ctx EXCEPT !.page = Ui!Settings, !.rebuild = TRUE, !.pending = 0]
    <3>2. Good(d) /\ d.setup = ctx.setup
      BY <1>0, <3>1 DEF Good, Contexts
    <3> HIDE DEF d
    <3>3. c \in {Ui!CloseReset(ctx), Ui!CloseTouchTest(ctx), ctx, d, Ui!Turned(ctx, step)}
      BY Zenon DEF Ui!Button, d
    <3> HIDE DEF c
    <3> QED
      BY <1>0, <3>2, <3>3, GoodClosed, GoodTurned
  <2> HIDE DEF c
  <2> QED
    BY <1>0, <2>1, <2>2, GoodInv DEF Ui!Close, Ui!setup, Ui!reset, c
<1>5. CASE Ui!Command
  <2>1. ASSUME NEW step \in {-1, 1}, Ui!Close(Ui!Turned(ctx, step)) PROVE UiInv'
    BY <1>0, <2>1, GoodTurned, GoodInv DEF Ui!Close, Ui!setup, Ui!reset
  <2>2. CASE Ui!StartSetup
    BY <2>2, StartStep
  <2>3. CASE UNCHANGED <<ctx, Ui!setup, Ui!reset, Ui!turning>>
    BY <1>0, <2>3, GoodInv DEF Ui!setup, Ui!reset
  <2> QED
    BY <1>5, <2>1, <2>2, <2>3 DEF Ui!Command
<1>6. CASE Ui!BeginCalibration
  BY <1>0, <1>6, GoodShown, GoodInv DEF Ui!BeginCalibration, Ui!setup, Ui!reset
<1>7. CASE Ui!PollOrientation
  BY <1>0, <1>7, GoodInv DEF Ui!PollOrientation, Ui!setup, Ui!reset
<1>8. CASE Ui!PollReset
  BY <1>0, <1>8, GoodInv DEF Ui!PollReset, Ui!setup
<1>9. CASE Ui!PortalEnds
  BY <1>0, <1>9, GoodInv DEF Ui!PortalEnds, Ui!reset
<1>10. CASE Ui!PollSetup
  <2>1. ctx.setup = TRUE /\ UNCHANGED Ui!reset
    BY <1>0, <1>10 DEF Ui!PollSetup, Good, Contexts
  <2>2. CASE portal = "on"
    <3>1. Good(ctx') /\ ctx'.setup = TRUE /\ setupRequested' = setupRequested
      BY <1>0, <1>10, <2>1, <2>2, GoodShown DEF Ui!PollSetup, Ui!setup
    <3> QED
      BY <1>0, <2>1, <3>1, GoodInv DEF Ui!reset
  <2>3. CASE portal # "on"
    <3>1. ctx' = Ui!CloseSetup(ctx, portal = "saved") /\ setupRequested' = FALSE
      BY <1>10, <2>3 DEF Ui!PollSetup
    <3>2. Good(ctx') /\ ctx'.setup = FALSE
      <4>1. ctx.setup
        BY <2>1
      <4>2. \A kept : /\ Good(Ui!CloseSetup(ctx, kept))
                        /\ Ui!CloseSetup(ctx, kept).setup = FALSE
        BY <1>0, <4>1, GoodClosed, Zenon
      <4> QED
        BY <3>1, <4>2, Zenon
    <3> QED
      BY <1>0, <2>1, <3>1, <3>2, GoodInv DEF Ui!reset
  <2> QED
    BY <2>2, <2>3
<1>11. CASE UNCHANGED ui
  BY <1>0, <1>11, GoodInv DEF ui
<1> QED
  BY <1>1, <1>2, <1>3, <1>4, <1>5, <1>6, <1>7, <1>8, <1>9, <1>10, <1>11, Zenon DEF Ui!Next

(* At most one special screen, and none without a way out, whatever order   *)
(* taps, pushers, USB commands, the portal and a reset come in.             *)
THEOREM ModalsAreExclusive == Spec => []ModalsExclude
<1>1. Init => UiInv
  <2> SUFFICES ASSUME Init PROVE UiInv
    OBVIOUS
  <2>0. 0 \in Ui!Pages
    BY InputAssumption DEF Ui!Pages
  <2>1. Good(ctx) /\ ctx.setup = setupRequested /\ resetState # "Working"
    BY <2>0 DEF Init, Ui!Init, Good, Contexts
  <2> QED
    BY <2>1 DEF UiInv, Good, ModalsExclude, Ui!ModalsExclude, Ui!OneModal, Ui!GestureFree,
       Ui!Modal, Ui!NoTrap
<1>2. UiInv /\ [Next]_vars => UiInv'
  BY Steps, UiStep
<1>3. UiInv => ModalsExclude
  BY DEF UiInv
<1> QED
  BY <1>1, <1>2, <1>3, PTL DEF Spec

-----------------------------------------------------------------------------
(* The touch observation.  The contact that is held began within the       *)
(* session, after the one recorded last; a sample not yet observed is       *)
(* younger than that; and what is known of the previous release is true.    *)
Samples == [at : Nat, finger : {"seen", "up", "down", "bad"}]
Contacts == [press : Nat, gap : Int]

TouchTypes ==
  /\ now \in Nat /\ sample \in Samples
  /\ started \in Nat /\ duration \in Nat /\ current \in Contacts
  /\ previousRelease \in Nat
  /\ last \in [release : Nat, end : {"none", "Released", "Expired", "Stopped",
                                     "Ineligible", "Lost"}]

RingTypes ==
  /\ records \in [Touch!Slots -> Nat] /\ head \in Touch!Slots
  /\ count \in 0 .. Capacity /\ total \in Nat /\ popped \in Nat /\ dropped \in Nat

RingInv == RingTypes /\ RingIsTail

HeldInv ==
  /\ enabled => started <= now /\ duration > 0
  /\ sample # Touch!NoSample => sample.at <= now
  /\ enabled /\ total > 0 =>
       /\ last.release <= now
       /\ sample # Touch!NoSample => last.release <= sample.at
  /\ holding =>
       /\ enabled /\ eligible /\ ~waiting
       /\ started <= current.press /\ current.press <= now
       /\ current.press < started + duration
       /\ sample # Touch!NoSample => current.press <= sample.at
       /\ total > 0 => last.release <= current.press
       /\ current.gap # Touch!NoGap =>
            total > 0 /\ last.end = "Released" /\ current.gap = current.press - last.release
  /\ enabled /\ previous /\ ~holding =>
       total > 0 /\ last.end = "Released" /\ last.release = previousRelease

TouchInv == TouchTypes /\ HeldInv

(* Where a slot of the ring is.                                             *)
LEMMA Wrap ==
  ASSUME NEW h \in 0 .. Capacity - 1, NEW n \in 0 .. Capacity
  PROVE  (h + n) % Capacity = IF h + n < Capacity THEN h + n ELSE h + n - Capacity
<1>1. Capacity \in Nat \ {0}
  BY InputAssumption
<1> QED
  BY <1>1

(* And it is one.                                                           *)
LEMMA SlotType ==
  ASSUME NEW h \in 0 .. Capacity - 1, NEW n \in 0 .. Capacity
  PROVE  (h + n) % Capacity \in 0 .. Capacity - 1
<1>1. Capacity \in Nat \ {0}
  BY InputAssumption
<1> QED
  BY <1>1

(* Moving on by one slot moves every contact up by one.                     *)
LEMMA Shift ==
  ASSUME NEW h \in 0 .. Capacity - 1, NEW i \in 0 .. Capacity - 1
  PROVE  (((h + 1) % Capacity) + i) % Capacity = (h + (i + 1)) % Capacity
<1>1. Capacity \in Nat \ {0} /\ 1 \in 0 .. Capacity /\ i + 1 \in 0 .. Capacity
      /\ i \in 0 .. Capacity
  BY InputAssumption
<1> DEFINE g == (h + 1) % Capacity
<1>2. g \in 0 .. Capacity - 1
  BY <1>1, SlotType
<1>3. g = IF h + 1 < Capacity THEN h + 1 ELSE h + 1 - Capacity
  BY <1>1, Wrap
<1> HIDE DEF g
<1>4. (g + i) % Capacity = IF g + i < Capacity THEN g + i ELSE g + i - Capacity
  BY <1>1, <1>2, Wrap
<1>5. (h + (i + 1)) % Capacity =
        IF h + (i + 1) < Capacity THEN h + (i + 1) ELSE h + (i + 1) - Capacity
  BY <1>1, Wrap
<1>6. (g + i) % Capacity = (h + (i + 1)) % Capacity
  BY <1>1, <1>2, <1>3, <1>4, <1>5
<1> QED
  BY <1>6 DEF g

(* Different contacts are in different slots.                               *)
LEMMA Apart ==
  ASSUME NEW h \in 0 .. Capacity - 1, NEW i \in 0 .. Capacity - 1,
         NEW n \in 0 .. Capacity - 1, i # n
  PROVE  (h + i) % Capacity # (h + n) % Capacity
<1>1. Capacity \in Nat \ {0} /\ i \in 0 .. Capacity /\ n \in 0 .. Capacity
  BY InputAssumption
<1>2. (h + i) % Capacity = IF h + i < Capacity THEN h + i ELSE h + i - Capacity
  BY <1>1, Wrap
<1>3. (h + n) % Capacity = IF h + n < Capacity THEN h + n ELSE h + n - Capacity
  BY <1>1, Wrap
<1> QED
  BY <1>1, <1>2, <1>3

(* A contact that ends is the newest in the ring.                           *)
LEMMA RecordRing ==
  ASSUME RingInv, NEW end, NEW t, Touch!Record(end, t)
  PROVE  RingInv'
<1> DEFINE full == count = Capacity
           h == IF full THEN (head + 1) % Capacity ELSE head
           n == IF full THEN count - 1 ELSE count
<1>0. /\ Capacity \in Nat \ {0} /\ head \in 0 .. Capacity - 1 /\ count \in 0 .. Capacity
      /\ total \in Nat /\ popped \in Nat /\ dropped \in Nat
      /\ records \in [0 .. Capacity - 1 -> Nat]
  BY InputAssumption DEF RingInv, RingTypes, Touch!Slots
<1>1. n \in 0 .. Capacity - 1 /\ h \in 0 .. Capacity - 1
  <2>1. 1 \in 0 .. Capacity
    BY <1>0
  <2>2. (head + 1) % Capacity \in 0 .. Capacity - 1
    BY <1>0, <2>1, SlotType
  <2> QED
    BY <1>0, <2>2
<1>2. /\ records' = [records EXCEPT ![(h + n) % Capacity] = total + 1]
      /\ head' = h /\ count' = n + 1
      /\ dropped' = IF full THEN dropped + 1 ELSE dropped
      /\ total' = total + 1 /\ popped' = popped
  BY Zenon DEF Touch!Record, Touch!Oldest
<1>3. popped + dropped + count = total
      /\ \A i \in 0 .. count - 1 : records[(head + i) % Capacity] = total - count + 1 + i
  BY DEF RingInv, RingIsTail, Touch!RingIsTail
<1>4. (h + n) % Capacity \in 0 .. Capacity - 1
  <2> HIDE DEF h, n
  <2>1. n \in 0 .. Capacity
    BY <1>0, <1>1
  <2> QED
    BY <1>1, <2>1, SlotType
<1>5. RingTypes'
  <2> HIDE DEF h, n
  <2> QED
    BY <1>0, <1>1, <1>2, <1>4 DEF RingTypes, Touch!Slots
<1>6. popped' + dropped' + count' = total'
  BY <1>0, <1>2, <1>3
<1>7. ASSUME NEW i \in 0 .. n
      PROVE  records'[(h + i) % Capacity] = total' - count' + 1 + i
  <2>1. CASE i = n
    <3> HIDE DEF h, n
    <3> QED
      BY <1>0, <1>1, <1>2, <1>4, <2>1
  <2>2. CASE i < n
    <3>1. i \in 0 .. Capacity - 1 /\ i \in 0 .. Capacity /\ i # n
      BY <1>0, <1>1, <2>2
    <3>2. (h + i) % Capacity # (h + n) % Capacity /\ (h + i) % Capacity \in 0 .. Capacity - 1
      BY <1>1, <3>1, Apart, SlotType
    <3>3. records'[(h + i) % Capacity] = records[(h + i) % Capacity]
      <4> HIDE DEF h, n
      <4> QED
        BY <1>0, <1>2, <3>2
    <3>4. CASE full
      <4>1. i + 1 \in 0 .. count - 1 /\ n = count - 1 /\ h = (head + 1) % Capacity
        BY <1>0, <2>2, <3>4
      <4>2. records[(head + (i + 1)) % Capacity] = total - count + 1 + (i + 1)
        BY <1>3, <4>1
      <4>3. (head + (i + 1)) % Capacity = (h + i) % Capacity
        BY <1>0, <3>1, <4>1, Shift
      <4> HIDE DEF h, n
      <4> QED
        BY <1>0, <1>2, <3>3, <4>1, <4>2, <4>3
    <3>5. CASE ~full
      <4>1. h = head /\ n = count
        BY <3>5
      <4>2. records[(head + i) % Capacity] = total - count + 1 + i
        <5>1. i \in 0 .. count - 1
          BY <1>0, <2>2, <4>1
        <5> HIDE DEF h, n
        <5> QED
          BY <1>3, <5>1, Zenon
      <4> HIDE DEF h, n
      <4> QED
        BY <1>0, <1>2, <3>3, <4>1, <4>2
    <3> QED
      BY <3>4, <3>5
  <2> HIDE DEF h, n
  <2> QED
    BY <1>0, <1>1, <2>1, <2>2
<1>8. RingIsTail'
  <2> HIDE DEF h, n
  <2>1. count' - 1 = n /\ head' = h
    BY <1>0, <1>1, <1>2
  <2> QED
    BY <1>6, <1>7, <2>1 DEF RingIsTail, Touch!RingIsTail
<1> QED
  BY <1>5, <1>8 DEF RingInv

(* The other ends of a contact change the ring no further.                  *)
LEMMA BrokenRing ==
  ASSUME RingInv, NEW end, NEW t, NEW e, Touch!Broken(end, t, e)
  PROVE  RingInv'
<1>1. Touch!Record(end, t) \/ Touch!NoRecord
  BY DEF Touch!Broken
<1>2. CASE Touch!NoRecord
  BY <1>2 DEF Touch!NoRecord, Touch!ring, Touch!history, RingInv, RingTypes, RingIsTail,
     Touch!RingIsTail
<1> QED
  BY <1>1, <1>2, RecordRing

(* What leaves the ring alone.                                              *)
LEMMA RingSame ==
  ASSUME RingInv, UNCHANGED <<records, head, count, dropped, total, popped>>
  PROVE  RingInv'
  BY DEF RingInv, RingTypes, RingIsTail, Touch!RingIsTail

(* Every step keeps the ring: a contact ends, the reader pops, a session    *)
(* starts over.                                                             *)
LEMMA RingStep ==
  ASSUME RingInv, [Touch!Next]_touch
  PROVE  RingInv'
<1>1. CASE Touch!Tick \/ Touch!Touch \/ UNCHANGED touch
  BY <1>1, RingSame DEF Touch!Tick, Touch!Touch, Touch!ring, Touch!history, touch
<1>2. CASE Touch!Start
  BY <1>2, InputAssumption DEF Touch!Start, RingInv, RingTypes, RingIsTail, Touch!RingIsTail,
     Touch!Slots
<1>3. CASE Touch!Stop \/ Touch!Expire
  BY <1>3, BrokenRing DEF Touch!Stop, Touch!Expire, Touch!Close
<1>4. CASE Touch!Pop
  <2>0. /\ Capacity \in Nat \ {0} /\ head \in 0 .. Capacity - 1 /\ count \in 1 .. Capacity
        /\ 1 \in 0 .. Capacity /\ total \in Nat /\ popped \in Nat
    BY <1>4, InputAssumption DEF Touch!Pop, RingInv, RingTypes, Touch!Slots
  <2>1. /\ head' = (head + 1) % Capacity /\ count' = count - 1 /\ popped' = popped + 1
        /\ UNCHANGED <<records, dropped, total>>
    BY <1>4 DEF Touch!Pop
  <2>2. (head + 1) % Capacity \in 0 .. Capacity - 1
    BY <2>0, SlotType
  <2>3. RingTypes'
    BY <2>0, <2>1, <2>2 DEF RingInv, RingTypes, Touch!Slots
  <2>4. popped' + dropped' + count' = total'
    BY <2>0, <2>1 DEF RingInv, RingTypes, RingIsTail, Touch!RingIsTail
  <2>5. ASSUME NEW i \in 0 .. count' - 1
        PROVE  records'[(head' + i) % Capacity] = total' - count' + 1 + i
    <3>1. i + 1 \in 0 .. count - 1 /\ i \in 0 .. Capacity - 1
      BY <2>0, <2>1
    <3>2. (head' + i) % Capacity = (head + (i + 1)) % Capacity
      BY <2>0, <2>1, <3>1, Shift
    <3>3. records[(head + (i + 1)) % Capacity] = total - count + 1 + (i + 1)
      BY <3>1 DEF RingInv, RingIsTail, Touch!RingIsTail
    <3> QED
      BY <2>0, <2>1, <3>1, <3>2, <3>3
  <2> QED
    BY <2>3, <2>4, <2>5 DEF RingInv, RingIsTail, Touch!RingIsTail
<1>5. ASSUME NEW scope \in BOOLEAN, Touch!Observe(scope) PROVE RingInv'
  <2> DEFINE t == sample.at
  <2>1. CASE Touch!Ignore \/ Touch!AwaitRelease \/ Touch!Begin(t)
    BY <2>1, RingSame DEF Touch!Ignore, Touch!AwaitRelease, Touch!Begin, Touch!NoRecord,
       Touch!ring, Touch!history
  <2>2. CASE Touch!Follow(t)
    BY <2>2, RingSame, RecordRing DEF Touch!Follow, Touch!NoRecord, Touch!ring, Touch!history
  <2>3. ASSUME NEW end, NEW u, NEW e, Touch!Broken(end, u, e) PROVE RingInv'
    BY <2>3, BrokenRing
  <2> QED
    BY <1>5, <2>1, <2>2, <2>3, Zenon DEF Touch!Observe, Touch!Close
<1> QED
  BY <1>1, <1>2, <1>3, <1>4, <1>5 DEF Touch!Next

(* The ring holds the contacts recorded last, in order, and nothing is lost *)
(* uncounted, whatever its size.                                            *)
THEOREM RingHoldsTail == Spec => []RingIsTail
<1>1. Init => RingInv
  BY InputAssumption DEF Init, Touch!Init, RingInv, RingTypes, RingIsTail, Touch!RingIsTail,
     Touch!Slots
<1>2. RingInv /\ [Next]_vars => RingInv'
  BY Steps, RingStep
<1>3. RingInv => RingIsTail
  BY DEF RingInv
<1> QED
  BY <1>1, <1>2, <1>3, PTL DEF Spec

-----------------------------------------------------------------------------
(* A contact that ends is recorded as it was.                               *)
LEMMA BrokenContact ==
  ASSUME TouchInv, NEW end \in {"Expired", "Stopped", "Ineligible", "Lost"},
         NEW t \in Nat, NEW e, Touch!Broken(end, t, e)
  PROVE  /\ holding' = FALSE /\ previous' = FALSE /\ current' \in Contacts
         /\ previousRelease' \in Nat /\ last' \in [release : Nat, end : {"none", "Released",
                                    "Expired", "Stopped", "Ineligible", "Lost"}]
         /\ IF holding
            THEN total' = total + 1 /\ last'.release = t
            ELSE UNCHANGED <<total, last>>
  BY DEF TouchInv, TouchTypes, Touch!Broken, Touch!Record, Touch!NoRecord, Touch!Blank,
     Touch!NoGap, Touch!ring, Touch!history, Contacts

(* Every step keeps the contact in progress truthful, and what it records is *)
(* true.                                                                    *)
LEMMA TouchStep ==
  ASSUME TouchInv, RingInv, [Touch!Next]_touch
  PROVE  TouchInv' /\ (UNCHANGED touch \/
           (total' = total + 1 =>
             /\ started <= current.press /\ current.press <= last'.release
             /\ last'.release <= started + duration
             /\ total > 0 => last.release <= current.press
             /\ current.gap # Touch!NoGap =>
                  last.end = "Released" /\ current.gap = current.press - last.release))
<1> DEFINE Truth == total' = total + 1 =>
             /\ started <= current.press /\ current.press <= last'.release
             /\ last'.release <= started + duration
             /\ total > 0 => last.release <= current.press
             /\ current.gap # Touch!NoGap =>
                  last.end = "Released" /\ current.gap = current.press - last.release
<1>0. total \in Nat
  BY DEF RingInv, RingTypes
<1>1. CASE Touch!Tick
  <2>1. /\ now' = now + 1 /\ now \in Nat
        /\ UNCHANGED <<sample, enabled, started, duration, holding, eligible, previous, waiting,
                       current, previousRelease, total, last>>
    BY <1>1 DEF Touch!Tick, Touch!session, Touch!contact, Touch!history, TouchInv, TouchTypes
  <2>2. TouchTypes'
    BY <2>1 DEF TouchInv, TouchTypes
  <2>3. HeldInv'
    BY <2>1 DEF TouchInv, TouchTypes, HeldInv, Samples, Contacts
  <2> QED
    BY <1>0, <2>1, <2>2, <2>3 DEF TouchInv
<1>2. CASE Touch!Touch
  BY <1>0, <1>2 DEF Touch!Touch, TouchInv, TouchTypes, HeldInv, Touch!session, Touch!contact,
     Touch!ring, Touch!history, Samples
<1>3. CASE Touch!Start
  BY <1>0, <1>3 DEF Touch!Start, TouchInv, TouchTypes, HeldInv, Samples, Contacts,
     Touch!NoSample, Touch!Blank, Touch!NoGap, Touch!Nobody
<1>4. ASSUME NEW t \in Nat, NEW end \in {"Expired", "Stopped"}, enabled,
             Touch!Close(end, t), now' = now, sample' \in {sample, Touch!NoSample},
             holding => current.press <= t /\ t <= started + duration
      PROVE  TouchInv' /\ Truth
  <2>1. Touch!Broken(end, t, FALSE) /\ enabled' = FALSE /\ UNCHANGED <<started, duration>>
    BY <1>4 DEF Touch!Close
  <2>2. /\ holding' = FALSE /\ previous' = FALSE /\ current' \in Contacts
        /\ previousRelease' \in Nat /\ last' \in [release : Nat, end : {"none", "Released",
                                   "Expired", "Stopped", "Ineligible", "Lost"}]
        /\ IF holding
           THEN total' = total + 1 /\ last'.release = t
           ELSE UNCHANGED <<total, last>>
    BY <2>1, BrokenContact
  <2>3. TouchInv'
    BY <1>4, <2>1, <2>2 DEF TouchInv, TouchTypes, HeldInv, Samples, Touch!NoSample
  <2>4. Truth
    BY <1>0, <1>4, <2>2 DEF TouchInv, TouchTypes, HeldInv
  <2> QED
    BY <2>3, <2>4
<1>5. CASE Touch!Stop
  <2>1. /\ enabled /\ UNCHANGED <<now, sample>> /\ now \in Nat /\ started + duration \in Nat
        /\ holding => current.press <= now /\ current.press <= started + duration
    BY <1>5 DEF Touch!Stop, TouchInv, TouchTypes, HeldInv, Contacts
  <2>2. CASE Touch!Close("Expired", started + duration)
    BY <1>4, <2>1, <2>2
  <2>3. CASE Touch!Close("Stopped", now) /\ ~Touch!Late(now)
    <3>1. now <= started + duration
      BY <2>1, <2>3 DEF Touch!Late, TouchInv, TouchTypes
    <3> QED
      BY <1>4, <2>1, <2>3, <3>1
  <2> QED
    BY <1>5, <2>2, <2>3, Zenon DEF Touch!Stop, Touch!Deadline
<1>6. CASE Touch!Expire
  <2>1. /\ enabled /\ UNCHANGED <<now, sample>> /\ started + duration \in Nat
        /\ Touch!Close("Expired", started + duration)
        /\ holding => current.press <= started + duration
    BY <1>6 DEF Touch!Expire, Touch!Deadline, TouchInv, TouchTypes, HeldInv, Contacts
  <2> QED
    BY <1>4, <2>1
<1>7. CASE Touch!Pop
  BY <1>0, <1>7 DEF Touch!Pop, TouchInv, TouchTypes, HeldInv, Touch!session, Touch!contact
<1>8. ASSUME NEW scope \in BOOLEAN, Touch!Observe(scope) PROVE TouchInv' /\ Truth
  <2> DEFINE t == sample.at
  <2>1. /\ t \in Nat /\ t <= now /\ sample # Touch!NoSample /\ sample' = Touch!NoSample
        /\ now' = now
    BY <1>8 DEF Touch!Observe, TouchInv, TouchTypes, HeldInv, Samples
  <2>2. CASE Touch!Ignore
    BY <1>0, <2>1, <2>2 DEF Touch!Ignore, TouchInv, TouchTypes, HeldInv, Touch!session,
       Touch!contact, Touch!ring, Touch!history, Samples, Touch!NoSample
  <2>3. CASE enabled /\ Touch!Close("Expired", Touch!Deadline)
    <3>1. Touch!Deadline \in Nat /\ (holding => current.press <= Touch!Deadline)
          /\ Touch!Deadline = started + duration
      BY DEF Touch!Deadline, TouchInv, TouchTypes, HeldInv, Contacts
    <3> QED
      BY <1>4, <2>1, <2>3, <3>1
  <2>4. ASSUME enabled, t >= started, ~Touch!Late(t), UNCHANGED <<enabled, started, duration>>,
               NEW end \in {"Ineligible", "Lost"}, NEW e, Touch!Broken(end, t, e)
        PROVE  TouchInv' /\ Truth
    <3>1. /\ holding' = FALSE /\ previous' = FALSE /\ current' \in Contacts
          /\ previousRelease' \in Nat /\ last' \in [release : Nat, end : {"none", "Released",
                                     "Expired", "Stopped", "Ineligible", "Lost"}]
          /\ IF holding
             THEN total' = total + 1 /\ last'.release = t
             ELSE UNCHANGED <<total, last>>
      BY <2>1, <2>4, BrokenContact
    <3>2. TouchInv'
      BY <1>0, <2>1, <2>4, <3>1 DEF TouchInv, TouchTypes, HeldInv, Samples, Touch!NoSample
    <3>3. Truth
      BY <1>0, <2>1, <2>4, <3>1 DEF TouchInv, TouchTypes, HeldInv, Touch!Late
    <3> QED
      BY <3>2, <3>3
  <2>5. CASE enabled /\ ~holding /\ Touch!AwaitRelease
    BY <1>0, <2>1, <2>5 DEF Touch!AwaitRelease, TouchInv, TouchTypes, HeldInv, Samples,
       Touch!NoSample, Touch!NoRecord, Touch!session, Touch!ring, Touch!history
  <2>6. CASE /\ enabled /\ t >= started /\ ~Touch!Late(t) /\ ~holding
             /\ eligible /\ ~waiting /\ Touch!Begin(t)
    BY <1>0, <2>1, <2>6 DEF Touch!Begin, Touch!Late, TouchInv, TouchTypes, HeldInv, Samples,
       Contacts, Touch!NoSample, Touch!NoGap, Touch!NoRecord, Touch!session, Touch!ring,
       Touch!history
  <2>7. CASE enabled /\ t >= started /\ ~Touch!Late(t) /\ holding /\ Touch!Follow(t)
    <3>1. CASE sample.finger = "down"
      BY <1>0, <2>1, <2>7, <3>1 DEF Touch!Follow, TouchInv, TouchTypes, HeldInv, Samples,
         Touch!NoSample, Touch!NoRecord, Touch!session, Touch!ring, Touch!history
    <3>2. CASE sample.finger # "down"
      <4>1. /\ total' = total + 1 /\ last' = [release |-> t, end |-> "Released"]
            /\ holding' = FALSE /\ current' = Touch!Blank
            /\ previousRelease' = t
            /\ UNCHANGED <<enabled, started, duration>>
        BY <2>7, <3>2 DEF Touch!Follow, Touch!Record, Touch!session
      <4>2. TouchTypes'
        BY <2>1, <4>1 DEF TouchInv, TouchTypes, Samples, Contacts, Touch!NoSample,
           Touch!Blank, Touch!NoGap
      <4>3. HeldInv'
        BY <1>0, <2>1, <2>7, <4>1 DEF TouchInv, TouchTypes, HeldInv, Samples, Touch!NoSample
      <4>4. Truth
        BY <1>0, <2>1, <2>7, <4>1 DEF TouchInv, TouchTypes, HeldInv, Touch!Late, Contacts
      <4> QED
        BY <4>2, <4>3, <4>4 DEF TouchInv
    <3> QED
      BY <3>1, <3>2
  <2> QED
    <3>1. holding => ~(waiting \/ ~eligible)
      BY DEF TouchInv, HeldInv
    <3> HIDE DEF Truth
    <3> QED
      BY <1>8, <2>2, <2>3, <2>4, <2>5, <2>6, <2>7, <3>1 DEF Touch!Observe, Touch!session
<1>9. CASE UNCHANGED touch
  BY <1>9 DEF touch, TouchInv, TouchTypes, HeldInv
<1> QED
  BY <1>1, <1>2, <1>3, <1>5, <1>6, <1>7, <1>8, <1>9 DEF Touch!Next

(* A recorded contact lies in its session and after the one before, and its *)
(* gap is the time since a lift that was seen, whatever interrupts, expires *)
(* or restarts the session.                                                 *)
THEOREM ContactsAreTrue == Spec => ContactTruth
<1>1. Init => TouchInv /\ RingInv
  BY InputAssumption DEF Init, Touch!Init, TouchInv, TouchTypes, HeldInv, Samples, Contacts,
     RingInv, RingTypes, RingIsTail, Touch!RingIsTail, Touch!Slots, Touch!NoSample,
     Touch!Blank, Touch!NoGap, Touch!Nobody
<1>2. TouchInv /\ RingInv /\ [Next]_vars => (TouchInv /\ RingInv)'
  BY Steps, TouchStep, RingStep
<1>3. TouchInv /\ RingInv /\ [Next]_vars =>
        [total' = total + 1 =>
           /\ started <= current.press /\ current.press <= last'.release
           /\ last'.release <= Touch!Deadline
           /\ total > 0 => last.release <= current.press
           /\ current.gap # Touch!NoGap =>
                last.end = "Released" /\ current.gap = current.press - last.release]_(Touch!vars)
  <2>1. UNCHANGED touch => UNCHANGED Touch!vars
    BY DEF touch, Touch!vars, Touch!session, Touch!contact, Touch!ring, Touch!history
  <2> QED
    BY <2>1, Steps, TouchStep DEF Touch!Deadline
<1> QED
  BY <1>1, <1>2, <1>3, PTL DEF Spec, ContactTruth, Touch!ContactTruth

-----------------------------------------------------------------------------
(* The word.  An attempt that is not rejected spells a prefix of it, by one *)
(* input, with at most three characters a symbol; one that is rejected went *)
(* wrong somewhere.                                                         *)
Symbols == {".", "-"}

MorseInv ==
  /\ owner \in SUBSET Morse!Inputs /\ inputs \in SUBSET Morse!Inputs
  /\ owner \subseteq inputs
  /\ index \in 0 .. 6 /\ length \in 0 .. InputCapacity /\ typed \in Seq(Symbols)
  /\ owner = {} => index = 0 /\ length = 0 /\ ~pressed
  /\ owner # {} /\ ~rejected =>
       /\ inputs = owner /\ owner # Morse!Inputs
       /\ index = Len(typed) /\ Morse!Correct(typed)
       /\ length + (IF letterOpen THEN 1 ELSE 0) + (IF wordOpen THEN 1 ELSE 0) <= 3 * index
  /\ owner # {} /\ rejected =>
       inputs # owner \/ owner = Morse!Inputs \/ ~Morse!Correct(typed)
  /\ unlocked # "wrong"

(* The word has seven symbols.                                              *)
LEMMA SequenceType == Morse!Sequence \in Seq(Symbols) /\ Len(Morse!Sequence) = 7
  BY DEF Morse!Sequence, Symbols

(* A prefix of the word agrees with it symbol by symbol.                    *)
LEMMA CorrectMeans ==
  ASSUME NEW s \in Seq(Symbols)
  PROVE  Morse!Correct(s) <=> Len(s) <= 7 /\ \A i \in 1 .. Len(s) : s[i] = Morse!Sequence[i]
<1> DEFINE w == Morse!Sequence
           p == SubSeq(w, 1, Len(s))
<1>0. w \in Seq(Symbols) /\ Len(w) = 7 /\ Len(s) \in Nat
  BY SequenceType
<1>1. Morse!Correct(s) <=> Len(s) <= 7 /\ s = p
  BY <1>0, Zenon DEF Morse!Correct
<1> HIDE DEF w
<1>2. ASSUME Len(s) <= 7
      PROVE  p \in Seq(Symbols) /\ Len(p) = Len(s) /\ \A i \in 1 .. Len(s) : p[i] = w[i]
  BY <1>0, <1>2
<1> HIDE DEF p
<1>3. ASSUME Len(s) <= 7, \A i \in 1 .. Len(s) : s[i] = w[i]
      PROVE  s = p
  BY <1>2, <1>3
<1> QED
  BY <1>1, <1>2, <1>3 DEF w

(* A right symbol keeps a prefix right, and a wrong one does not.           *)
LEMMA CorrectAppend ==
  ASSUME NEW s \in Seq(Symbols), NEW x \in Symbols, Morse!Correct(s), Len(s) <= 6
  PROVE  Morse!Correct(Append(s, x)) <=> x = Morse!Sequence[Len(s) + 1]
<1> DEFINE a == Append(s, x)
<1>1. /\ a \in Seq(Symbols) /\ Len(a) = Len(s) + 1 /\ a[Len(s) + 1] = x
      /\ \A i \in 1 .. Len(s) : a[i] = s[i]
  OBVIOUS
<1>2. \A i \in 1 .. Len(s) : s[i] = Morse!Sequence[i]
  BY CorrectMeans
<1> HIDE DEF a
<1>3. Morse!Correct(a) <=> Len(a) <= 7 /\ \A i \in 1 .. Len(a) : a[i] = Morse!Sequence[i]
  BY <1>1, CorrectMeans
<1>4. Morse!Correct(a) <=> x = Morse!Sequence[Len(s) + 1]
  BY <1>1, <1>2, <1>3
<1> QED
  BY <1>4 DEF a

(* A prefix as long as the word is the word.                                *)
LEMMA CorrectWhole ==
  ASSUME NEW s \in Seq(Symbols), Morse!Correct(s), Len(s) = 7
  PROVE  s = Morse!Sequence
<1>1. \A i \in 1 .. 7 : s[i] = Morse!Sequence[i]
  BY CorrectMeans
<1> QED
  BY <1>1, SequenceType

(* Nothing typed is a prefix.                                               *)
LEMMA CorrectEmpty == Morse!Correct(<<>>) /\ <<>> \in Seq(Symbols) /\ Len(<<>>) = 0
<1>1. ASSUME NEW s \in Seq(Symbols), Len(s) = 0 PROVE Morse!Correct(s)
  <2>1. Morse!Correct(s) <=> Len(s) <= 7 /\ \A i \in 1 .. Len(s) : s[i] = Morse!Sequence[i]
    BY CorrectMeans, Zenon
  <2>2. Len(s) <= 7 /\ \A i \in 1 .. Len(s) : s[i] = Morse!Sequence[i]
    BY <1>1
  <2> QED
    BY <2>1, <2>2
<1>2. <<>> \in Seq(Symbols) /\ Len(<<>>) = 0
  OBVIOUS
<1> QED
  BY <1>1, <1>2, Zenon

(* An attempt begins,                                                       *)
LEMMA BeginStep ==
  ASSUME MorseInv, NEW h \in SUBSET Morse!Inputs, h # {}, Morse!Begin(h),
         UNCHANGED unlocked
  PROVE  MorseInv'
<1>1. /\ owner' = h /\ inputs' = h /\ rejected' = (h = Morse!Inputs)
      /\ index' = 0 /\ length' = 0 /\ letterOpen' = FALSE /\ wordOpen' = FALSE
      /\ typed' = <<>> /\ unlocked' # "wrong"
  BY DEF Morse!Begin, MorseInv
<1>2. typed' \in Seq(Symbols) /\ Len(typed') = 0 /\ Morse!Correct(typed')
  BY <1>1, CorrectEmpty, Zenon
<1>3. InputCapacity \in Nat
  BY InputAssumption
<1>4. CASE h = Morse!Inputs
  <2>1. rejected' = TRUE
    BY <1>1, <1>4
  <2> QED
    BY <1>1, <1>2, <1>3, <1>4, <2>1 DEF MorseInv
<1>5. CASE h # Morse!Inputs
  <2>1. rejected' = FALSE
    BY <1>1, <1>5
  <2> QED
    BY <1>1, <1>2, <1>3, <1>5, <2>1 DEF MorseInv
<1> QED
  BY <1>4, <1>5

(* is cleared,                                                              *)
LEMMA ClearStep ==
  ASSUME MorseInv, Morse!Cleared, UNCHANGED unlocked
  PROVE  MorseInv'
<1>1. /\ owner' = {} /\ inputs' = {} /\ index' = 0 /\ length' = 0
      /\ letterOpen' = FALSE /\ wordOpen' = FALSE /\ typed' = <<>> /\ unlocked' # "wrong"
      /\ ~pressed'
  BY DEF Morse!Cleared, MorseInv
<1>2. typed' \in Seq(Symbols)
  BY <1>1, CorrectEmpty, Zenon
<1>3. InputCapacity \in Nat
  BY InputAssumption
<1> QED
  BY <1>1, <1>2, <1>3 DEF MorseInv

(* or is left as it was.                                                    *)
LEMMA SameStep ==
  ASSUME MorseInv,
         UNCHANGED <<owner, index, length, pressed, rejected, letterOpen, wordOpen, typed,
                     inputs, unlocked>>
  PROVE  MorseInv'
  BY DEF MorseInv

(* A symbol: while the attempt is right there is room for it, and only the  *)
(* last one of the word unlocks.                                            *)
LEMMA SymbolStep ==
  ASSUME MorseInv, NEW symbol \in Symbols, Morse!Symbol(symbol)
  PROVE  MorseInv'
<1>a. owner # {}
  BY DEF MorseInv, Morse!Symbol
<1> DEFINE bad == rejected \/ Morse!Overflow(1)
           right == ~bad /\ Morse!Sequence[index + 1] = symbol
           longer == Append(typed, symbol)
<1>0. /\ index \in 0 .. 6 /\ length \in 0 .. InputCapacity /\ typed \in Seq(Symbols)
      /\ longer \in Seq(Symbols) /\ Len(longer) = Len(typed) + 1 /\ <<>> \in Seq(Symbols)
      /\ InputCapacity \in Nat /\ InputCapacity >= 20
  BY InputAssumption DEF MorseInv
<1>1. ASSUME ~rejected
      PROVE  /\ inputs = owner /\ owner # Morse!Inputs /\ index = Len(typed)
             /\ Morse!Correct(typed) /\ length <= 3 * index /\ ~Morse!Overflow(1)
             /\ Morse!Correct(longer) <=> Morse!Sequence[index + 1] = symbol
  <2>1. /\ inputs = owner /\ owner # Morse!Inputs /\ index = Len(typed)
        /\ Morse!Correct(typed) /\ length <= 3 * index
    BY <1>a, <1>0, <1>1 DEF MorseInv
  <2>2. length + 1 <= InputCapacity
    <3>1. index \in 0 .. 6 /\ length \in Nat /\ InputCapacity \in Nat /\ InputCapacity >= 20
      BY <1>0
    <3>2. length <= 3 * index
      BY <2>1
    <3> HIDE DEF longer
    <3> QED
      BY <3>1, <3>2
  <2>3. ~Morse!Overflow(1)
    BY <1>0, <2>2 DEF Morse!Overflow
  <2>4. Morse!Correct(longer) <=> Morse!Sequence[index + 1] = symbol
    <3>0. Len(typed) <= 6
      <4>1. index \in 0 .. 6 /\ index = Len(typed)
        BY <1>0, <2>1, Zenon
      <4> QED
        BY <4>1
    <3>1. Len(typed) <= 6 /\ typed \in Seq(Symbols) /\ Morse!Correct(typed)
      BY <1>0, <2>1, <3>0, Zenon
    <3>2. Morse!Correct(longer) <=> symbol = Morse!Sequence[Len(typed) + 1]
      BY <3>1, CorrectAppend, Zenon
    <3> HIDE DEF longer
    <3> QED
      BY <2>1, <3>2
  <2> QED
    BY <2>1, <2>3, <2>4
<1>2. CASE right /\ index + 1 = 7
  <2>1. ~rejected
    BY <1>2
  <2>2. longer = Morse!Sequence /\ inputs = owner
    BY <1>0, <1>1, <1>2, <2>1, CorrectWhole
  <2>3. /\ owner' = {} /\ index' = 0 /\ length' = 0 /\ typed' = <<>>
        /\ rejected' = FALSE /\ letterOpen' = FALSE /\ wordOpen' = FALSE
        /\ inputs' = inputs /\ unlocked' = "right" /\ pressed' = FALSE
    BY <1>2, <2>2, SequenceType DEF Morse!Symbol
  <2>4. typed' \in Seq(Symbols)
    BY <2>3, CorrectEmpty, Zenon
  <2> QED
    BY <1>0, <2>2, <2>3, <2>4 DEF MorseInv
<1>3. CASE ~(right /\ index + 1 = 7)
  <2>1. /\ letterOpen' = TRUE /\ wordOpen' = TRUE /\ length' = Morse!Length(1)
        /\ typed' = IF Morse!Correct(typed) THEN longer ELSE typed
        /\ rejected' = (bad \/ ~right)
        /\ index' = IF right THEN index + 1 ELSE index
        /\ UNCHANGED <<owner, inputs, unlocked>> /\ pressed' = FALSE
    BY <1>3, SequenceType DEF Morse!Symbol, Morse!Remember
  <2>2. length' \in 0 .. InputCapacity /\ (~Morse!Overflow(1) => length' = length + 1)
    BY <1>0, <2>1 DEF Morse!Length, Morse!Overflow
  <2>3. CASE right
    <3>1. ~rejected /\ ~bad /\ index # 6
      BY <1>0, <1>3, <2>3
    <3>2. Morse!Correct(longer)
      BY <1>1, <2>3, <3>1
    <3>3. rejected' = FALSE /\ index' = index + 1 /\ typed' = longer
      BY <1>1, <2>1, <2>3, <3>1
    <3> QED
      BY <1>a, <1>0, <1>1, <2>1, <2>2, <3>1, <3>2, <3>3 DEF MorseInv
  <2>4. CASE ~right
    <3>1. rejected' = TRUE /\ index' = index
      BY <2>1, <2>4
    <3>2. inputs # owner \/ owner = Morse!Inputs \/ ~Morse!Correct(typed')
      <4>1. CASE rejected
        BY <1>a, <2>1, <4>1 DEF MorseInv
      <4>2. CASE ~rejected
        BY <1>1, <2>1, <2>4, <4>2
      <4> QED
        BY <4>1, <4>2
    <3>3. typed' \in Seq(Symbols)
      BY <1>0, <2>1
    <3> QED
      BY <1>a, <2>1, <2>2, <3>1, <3>2, <3>3 DEF MorseInv
  <2> QED
    BY <2>3, <2>4
<1> QED
  BY <1>2, <1>3

(* A press goes on: another input that joins it spoils the attempt.         *)
LEMMA HoldStep ==
  ASSUME MorseInv, NEW h \in SUBSET Morse!Inputs, Morse!Hold(h)
  PROVE  MorseInv'
<1>a. owner # {}
  BY DEF MorseInv, Morse!Hold
<1>1. h # {} /\ h # owner /\ owner # Morse!Inputs => owner # inputs \cup h
  BY DEF MorseInv, Morse!Inputs
<1>2. /\ rejected' = (rejected \/ Morse!Conflict(h)) /\ inputs' = inputs \cup h
      /\ h # {}
      /\ UNCHANGED <<owner, index, length, letterOpen, wordOpen, typed, unlocked>>
      /\ pressed' = pressed
  BY DEF Morse!Hold
<1>3. CASE Morse!Conflict(h) /\ ~rejected
  BY <1>a, <1>1, <1>2, <1>3 DEF MorseInv, Morse!Conflict
<1>4. CASE ~Morse!Conflict(h) /\ ~rejected
  <2>1. h = owner
    BY <1>2, <1>4 DEF Morse!Conflict
  <2>2. inputs' = inputs
    BY <1>2, <2>1 DEF MorseInv
  <2>3. ~rejected'
    BY <1>2, <1>4, Zenon
  <2> QED
    BY <1>a, <1>2, <1>4, <2>2, <2>3 DEF MorseInv
<1>5. CASE rejected
  <2>1. inputs # owner => inputs \cup h # owner
    BY DEF MorseInv
  <2> QED
    BY <1>a, <1>2, <1>5, <2>1, <1>1 DEF MorseInv
<1> QED
  BY <1>3, <1>4, <1>5

(* A space that is shown is no longer owed.                                 *)
LEMMA Spent ==
  ASSUME NEW open, NEW shown, NEW after, after = (open /\ ~shown), shown => open
  PROVE  (IF shown THEN 1 ELSE 0) + (IF after THEN 1 ELSE 0) = IF open THEN 1 ELSE 0
<1>1. CASE shown
  <2>1. ~after /\ open
    BY <1>1, Zenon
  <2> QED
    BY <1>1, <2>1
<1>2. CASE ~shown /\ open
  <2>1. after
    BY <1>2, Zenon
  <2> QED
    BY <1>2, <2>1
<1>3. CASE ~shown /\ ~open
  <2>1. ~after
    BY <1>3, Zenon
  <2> QED
    BY <1>3, <2>1
<1> QED
  BY <1>1, <1>2, <1>3, Zenon

(* A pause shows the spaces that are owed, for which there is room.         *)
LEMMA PauseStep ==
  ASSUME MorseInv, NEW h \in SUBSET Morse!Inputs, NEW pause \in Morse!Pauses,
         Morse!Pause(h, pause)
  PROVE  MorseInv'
<1> DEFINE letter == letterOpen /\ pause # "short"
           word   == wordOpen /\ pause \in {"word", "reset"}
           spaces == (IF letter THEN 1 ELSE 0) + (IF word THEN 1 ELSE 0)
<1>0. /\ index \in 0 .. 6 /\ length \in 0 .. InputCapacity
      /\ InputCapacity \in Nat /\ InputCapacity >= 20 /\ spaces \in 0 .. 2
      BY InputAssumption DEF MorseInv
<1>1. /\ letterOpen' = (letterOpen /\ ~letter) /\ wordOpen' = (wordOpen /\ ~word)
      /\ length' = Morse!Length(spaces)
      /\ rejected' = (rejected \/ Morse!Conflict(h) \/ Morse!Overflow(spaces))
      /\ inputs' = inputs \cup h /\ owner # {}
      /\ UNCHANGED <<owner, index, typed, unlocked>>
  BY Zenon DEF Morse!Pause
<1>2. length' \in 0 .. InputCapacity /\ (~Morse!Overflow(spaces) => length' = length + spaces)
  <2> HIDE DEF spaces
  <2> QED
    BY <1>0, <1>1 DEF Morse!Length, Morse!Overflow
<1>4. h # {} /\ h # owner /\ owner # Morse!Inputs => owner # inputs \cup h
  BY DEF MorseInv, Morse!Inputs
<1>5. spaces + (IF letterOpen' THEN 1 ELSE 0) + (IF wordOpen' THEN 1 ELSE 0)
        = (IF letterOpen THEN 1 ELSE 0) + (IF wordOpen THEN 1 ELSE 0)
  <2>1. (letter => letterOpen) /\ (word => wordOpen)
    OBVIOUS
  <2> HIDE DEF letter, word
  <2>2. (IF letter THEN 1 ELSE 0) + (IF letterOpen' THEN 1 ELSE 0)
          = IF letterOpen THEN 1 ELSE 0
    BY <1>1, <2>1, Spent, Zenon
  <2>3. (IF word THEN 1 ELSE 0) + (IF wordOpen' THEN 1 ELSE 0)
          = IF wordOpen THEN 1 ELSE 0
    BY <1>1, <2>1, Spent, Zenon
  <2> QED
    BY <2>2, <2>3
<1>6. ASSUME ~rejected
      PROVE  ~Morse!Overflow(spaces)
             /\ length + spaces + (IF letterOpen' THEN 1 ELSE 0)
                + (IF wordOpen' THEN 1 ELSE 0) <= 3 * index
  <2>1. length + (IF letterOpen THEN 1 ELSE 0) + (IF wordOpen THEN 1 ELSE 0) <= 3 * index
    BY <1>1, <1>6 DEF MorseInv
  <2> HIDE DEF spaces
  <2>2. length + spaces + (IF letterOpen' THEN 1 ELSE 0)
                + (IF wordOpen' THEN 1 ELSE 0) <= 3 * index
    BY <1>0, <1>5, <2>1
  <2>3. length + spaces <= InputCapacity
    BY <1>0, <2>2
  <2> QED
    BY <1>0, <2>2, <2>3 DEF Morse!Overflow
<1>7. inputs' \in SUBSET Morse!Inputs /\ owner' \subseteq inputs'
  BY <1>1 DEF MorseInv
<1> HIDE DEF letter, word, spaces
<1>8. CASE ~rejected /\ Morse!Conflict(h)
  BY <1>1, <1>2, <1>4, <1>7, <1>8 DEF MorseInv, Morse!Conflict
<1>9. CASE ~rejected /\ ~Morse!Conflict(h)
  <2>1. inputs' = inputs /\ rejected' = FALSE
    BY <1>1, <1>6, <1>9 DEF Morse!Conflict, MorseInv
  <2>2. length' + (IF letterOpen' THEN 1 ELSE 0) + (IF wordOpen' THEN 1 ELSE 0) <= 3 * index
    BY <1>0, <1>2, <1>6, <1>9
  <2> QED
    BY <1>1, <1>2, <1>7, <1>9, <2>1, <2>2 DEF MorseInv
<1>10. CASE rejected
  <2>1. inputs # owner => inputs \cup h # owner
    BY DEF MorseInv
  <2> QED
    BY <1>1, <1>2, <1>7, <1>10, <2>1 DEF MorseInv
<1> QED
  BY <1>8, <1>9, <1>10


(* Every step of the attempt.                                               *)
LEMMA MorseStep ==
  ASSUME MorseInv, Morse!Next
  PROVE  MorseInv'
<1> PICK h \in SUBSET Morse!Inputs : Morse!Update(h) \/ Morse!Disable(h)
  BY Zenon DEF Morse!Next
<1>1. CASE Morse!Disable(h)
  BY <1>1, ClearStep, Zenon DEF Morse!Disable
<1>2. CASE Morse!Release(h)
  <2>1. UNCHANGED <<owner, index, length, pressed, rejected, letterOpen, wordOpen, typed,
                    inputs, unlocked>>
    BY <1>2 DEF Morse!Release, Morse!attempt
  <2> QED
    BY <2>1, SameStep, Zenon
<1>3. CASE Morse!Start(h)
  <2>1. CASE h = {}
    <3>1. UNCHANGED <<owner, index, length, pressed, rejected, letterOpen, wordOpen, typed,
                      inputs, unlocked>>
      BY <1>3, <2>1 DEF Morse!Start, Morse!attempt
    <3> QED
      BY <3>1, SameStep, Zenon
  <2>2. CASE h # {}
    BY <1>3, <2>2, BeginStep, Zenon DEF Morse!Start
  <2> QED
    BY <2>1, <2>2
<1>4. CASE Morse!Restart(h)
  <2>1. CASE h = {}
    BY <1>4, <2>1, ClearStep, Zenon DEF Morse!Restart
  <2>2. CASE h # {}
    BY <1>4, <2>2, BeginStep, Zenon DEF Morse!Restart
  <2> QED
    BY <2>1, <2>2
<1>5. CASE Morse!Hold(h)
  BY <1>5, HoldStep, Zenon
<1>6. CASE \E pause \in Morse!Pauses : Morse!Pause(h, pause)
  BY <1>6, PauseStep, Zenon
<1>7. CASE \E symbol \in {".", "-"} : Morse!Symbol(symbol)
  BY <1>7, SymbolStep, Zenon DEF Symbols
<1> QED
  BY <1>1, <1>2, <1>3, <1>4, <1>5, <1>6, <1>7, Zenon DEF Morse!Update

(* Only the whole word unlocks, spelled by one input from the beginning of  *)
(* an attempt, and no pause spoils a correct prefix (morse_unlock.h:6-7),   *)
(* for any display that has room for the word.                              *)
THEOREM WordUnlocks == Spec => []WholeWordUnlocks
<1>1. Init => MorseInv
  <2>1. Init => Morse!Init
    BY Zenon DEF Init
  <2>2. InputCapacity \in Nat
    BY InputAssumption
  <2> QED
    BY <2>1, <2>2, CorrectEmpty DEF Morse!Init, MorseInv
<1>2. MorseInv /\ [Next]_vars => MorseInv'
  <2> SUFFICES ASSUME MorseInv, [Next]_vars PROVE MorseInv'
    OBVIOUS
  <2>1. CASE Morse!Next
    BY <2>1, MorseStep, Zenon
  <2>2. CASE UNCHANGED morse
    BY <2>2, SameStep DEF morse
  <2> QED
    BY <2>1, <2>2, Steps, Zenon
<1>3. MorseInv => WholeWordUnlocks
  BY DEF MorseInv, WholeWordUnlocks, Morse!WholeWordUnlocks
<1> QED
  BY <1>1, <1>2, <1>3, PTL DEF Spec
=============================================================================
