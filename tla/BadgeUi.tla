------------------------------ MODULE BadgeUi ------------------------------
(***************************************************************************)
(* badge_ui.cpp with the modals of ui/ and what main.cpp's loop does to    *)
(* them: pages, the setup, reset, touch-test and calibration screens, the  *)
(* display rotation, and the touches that reach the screen.                *)
(*                                                                         *)
(* Everything runs in the main task, but not at once.  A screen is rebuilt *)
(* at the end of a pass of the loop, so a touch injected over USB can tap  *)
(* the one that is about to go; calibration waits until the finger lifts;  *)
(* the portal ends when the service task ends it.                          *)
(***************************************************************************)
EXTENDS Integers

CONSTANT PageCount     \* the last two pages are Badge and Settings

VARIABLES
  ctx,            \* ui::Context, with pending_gesture; origin is 0 but in setup
  view,           \* the screen that was last built
  press,          \* what LVGL holds pressed, "spent" once it cannot click
  contact,        \* the touch sample: "up", "finger", "injected"
  setupRequested,
  portal,         \* what portal_snapshot says: "off", "on", "saved", "closed"
  calibrationRequested,
  resetRequested, resetState,
  mode, rotation, rotationPending

touching == <<press, contact>>
setup    == <<setupRequested, portal>>
reset    == <<resetRequested, resetState>>
turning  == <<mode, rotation, rotationPending>>
vars     == <<ctx, view, touching, setup, calibrationRequested, reset, turning>>

Pages    == 0 .. PageCount - 1
Badge    == PageCount - 2
Settings == PageCount - 1
Modes    == {"Free", "Default", "Opposite"}
FixedRotation(m) == IF m = "Default" THEN 0 ELSE 2
Rotations == {0, 2}

-----------------------------------------------------------------------------
(* The context, as each function of badge_ui.cpp leaves it *)

Modal(c) == c.setup \/ c.touch \/ c.reset

View(c) == IF c.setup THEN <<"setup", 0>>
           ELSE IF c.calibration THEN <<"calibration", 0>>
           ELSE IF c.touch THEN <<"touch", 0>>
           ELSE IF c.reset THEN <<"reset", 0>> ELSE <<"page", c.page>>

\* ui_page
Turned(c, step) ==
  IF Modal(c) THEN c
  ELSE [c EXCEPT !.page = (@ + step) % PageCount, !.pending = 0, !.rebuild = TRUE]

ShowSetup(c) ==
  IF c.reset \/ c.setup THEN c
  ELSE [c EXCEPT !.pending = 0, !.origin = c.page, !.setup = TRUE, !.touch = FALSE,
                 !.rebuild = TRUE]

CloseSetup(c, saved) ==
  IF ~c.setup THEN c
  ELSE [c EXCEPT !.setup = FALSE, !.origin = 0, !.rebuild = TRUE,
                 !.page = IF saved /\ c.origin # Settings THEN Badge ELSE c.origin]

\* Mutant: diagnostics open whatever else is open.
ShowTouchOver(c) ==
  [c EXCEPT !.page = Settings, !.pending = 0, !.touch = TRUE, !.rebuild = TRUE]

ShowTouchTest(c) ==
  IF c.setup \/ c.reset THEN c
  ELSE [c EXCEPT !.page = Settings, !.pending = 0, !.touch = TRUE, !.rebuild = TRUE]

ShowCalibration(c) ==
  LET d == ShowTouchTest(c)
  IN  IF d.touch THEN [d EXCEPT !.calibration = TRUE, !.rebuild = TRUE] ELSE d

CloseTouchTest(c) ==
  IF ~c.touch THEN c
  ELSE [c EXCEPT !.touch = FALSE, !.calibration = FALSE, !.page = Settings,
                 !.rebuild = TRUE]

ShowReset(c) ==
  IF Modal(c) THEN c
  ELSE [c EXCEPT !.page = Settings, !.pending = 0, !.reset = TRUE, !.confirmed = FALSE,
                 !.rebuild = TRUE]

CloseReset(c) ==
  IF ~c.reset \/ (c.confirmed /\ resetState = "Working") THEN c
  ELSE [c EXCEPT !.reset = FALSE, !.confirmed = FALSE, !.pending = 0, !.rebuild = TRUE,
                 !.page = IF c.confirmed /\ resetState = "Complete" THEN Badge
                          ELSE Settings]

\* ui_button; in setup it asks the portal to stop, which then ends as it will.
Button(c, both, step) ==
  IF c.reset THEN CloseReset(c)
  ELSE IF c.touch THEN CloseTouchTest(c)
  ELSE IF c.setup THEN c
  ELSE IF both THEN [c EXCEPT !.page = Settings, !.rebuild = TRUE, !.pending = 0]
  ELSE Turned(c, step)

\* cancel_calibration, called when the calibration screen is closed.
CancelCalibration ==
  calibrationRequested' = (calibrationRequested /\ ~(ctx.calibration /\ ~ctx'.calibration))

Init ==
  /\ ctx = [page |-> 0, origin |-> 0, setup |-> FALSE, touch |-> FALSE,
            calibration |-> FALSE, reset |-> FALSE, confirmed |-> FALSE,
            pending |-> 0, rebuild |-> FALSE]
  /\ view = <<"page", 0>> /\ press = "none"
  /\ setupRequested = FALSE /\ portal = "off" /\ calibrationRequested = FALSE
  /\ resetRequested = FALSE /\ resetState = "Ready"
  /\ mode \in Modes
  /\ \/ contact = "finger" /\ rotation = 0 /\ rotationPending = TRUE
     \/ /\ contact = "up" /\ rotationPending = FALSE
        /\ rotation = IF mode = "Free" THEN 2 ELSE FixedRotation(mode)

-----------------------------------------------------------------------------
(* Taps *)

\* startSetup, and request_setup before it; portal_start may refuse.
StartSetup ==
  \/ /\ ~setupRequested /\ ~ctx.touch /\ ~ctx.reset
     /\ setupRequested' = TRUE /\ portal' = "on" /\ ctx' = ShowSetup(ctx)
     /\ UNCHANGED <<calibrationRequested, reset, turning>>
  \/ UNCHANGED <<ctx, setup, calibrationRequested, reset, turning>>

ChooseMode ==
  /\ mode' \in Modes
  /\ rotationPending' = (rotationPending \/ mode' # mode)
  /\ UNCHANGED <<ctx, setup, calibrationRequested, reset, rotation>>

RequestReset ==
  IF resetRequested \/ setupRequested THEN UNCHANGED reset
  ELSE \/ resetRequested' = TRUE /\ resetState' = "Working"
       \/ resetState' = "Failed" /\ UNCHANGED resetRequested

Confirm ==
  /\ ~(ctx.confirmed /\ resetState = "Working")
  /\ ctx' = [ctx EXCEPT !.confirmed = TRUE]
  /\ RequestReset
  /\ UNCHANGED <<setup, calibrationRequested, turning>>

Close(c) ==
  /\ ctx' = c /\ CancelCalibration
  /\ UNCHANGED <<setup, reset, turning>>

\* The widgets of a screen; the containers under them are the frame's.
Targets(v) ==
  {"frame"} \cup
  CASE v[1] = "page" -> {"left", "right"} \cup
         (IF v[2] = Settings THEN {"mode", "calibrate", "test", "reset", "connect"}
          ELSE IF v[2] = Badge THEN {"connect"} ELSE {})
    [] v[1] = "reset" -> {"confirm", "back"}
    [] v[1] \in {"setup", "touch"} -> {"back"}
    [] OTHER -> {}

Tap(w) ==
  \/ w = "left"  /\ Close(Turned(ctx, -1))
  \/ w = "right" /\ Close(Turned(ctx, 1))
  \/ w = "test"  /\ Close(ShowTouchTest(ctx))
  \/ w = "reset" /\ Close(ShowReset(ctx))
  \/ w = "back" /\ Close(CASE view[1] = "touch" -> CloseTouchTest(ctx)
                           [] view[1] = "reset" -> CloseReset(ctx)
                           [] OTHER -> ctx)
  \/ w = "connect" /\ StartSetup
  \/ w = "mode" /\ ChooseMode
  \/ w = "confirm" /\ Confirm
  \/ w = "calibrate" /\ calibrationRequested' = TRUE
     /\ UNCHANGED <<ctx, setup, reset, turning>>
  \/ w = "frame" /\ Close([(IF ctx.pending # 0 THEN Turned(ctx, ctx.pending) ELSE ctx)
                           EXCEPT !.pending = 0])

\* The pointer is read: a press, a swipe, a release that clicks or does not.
Press ==
  /\ press = "none"
  /\ press' \in Targets(view)
  /\ ctx' = IF press' = "frame" THEN [ctx EXCEPT !.pending = 0] ELSE ctx

Swipe ==
  /\ press # "none"
  /\ press' = IF press = "frame" THEN "frame" ELSE "spent"
  /\ \E d \in {-1, 1} : ctx' = IF Modal(ctx) THEN ctx ELSE [ctx EXCEPT !.pending = d]

Release ==
  /\ press # "none" /\ press' = "none"
  /\ \/ Tap(press)
     \/ press # "frame" /\ UNCHANGED <<ctx, setup, calibrationRequested, reset, turning>>

Calm == UNCHANGED <<setup, calibrationRequested, reset, turning>>

\* lv_timer_handler comes right after the screen was brought up to date.
FingerMoves ==
  \/ /\ contact # "finger" /\ contact' = "finger"
     /\ press' = IF contact = "injected" THEN "none" ELSE press
  \/ contact = "finger" /\ contact' = "up" /\ UNCHANGED press
ReadPointer ==
  /\ ~ctx.rebuild
  /\ \/ contact # "up" /\ (Press \/ Swipe) /\ Calm
     \/ contact = "up" /\ Release
  /\ UNCHANGED <<view, contact>>

\* The USB command "touch" reads the pointer at once.
InjectTouch ==
  /\ \/ contact \in {"up", "injected"} /\ contact' = "injected" /\ (Press \/ Swipe) /\ Calm
     \/ contact = "injected" /\ contact' = "up" /\ Release
  /\ UNCHANGED view

-----------------------------------------------------------------------------
(* The rest of the loop *)

\* ui_tick: what is pressed goes with the screen it was on.
Refresh ==
  /\ ctx.rebuild
  /\ ctx' = [ctx EXCEPT !.rebuild = FALSE]
  /\ view' = View(ctx)
  /\ press' = "none"
  /\ UNCHANGED <<contact, setup, calibrationRequested, reset, turning>>

\* A pusher or the USB command "button"; upside down they swap.
PushButton ==
  /\ \E both \in BOOLEAN, step \in {-1, 1} : Close(Button(ctx, both, step))
  /\ UNCHANGED <<view, touching>>

Command ==
  /\ \/ \E step \in {-1, 1} : Close(Turned(ctx, step))
     \/ StartSetup
     \/ /\ ~setupRequested /\ ~Modal(ctx)
        /\ calibrationRequested' = TRUE /\ UNCHANGED <<ctx, setup, reset, turning>>
  /\ UNCHANGED <<view, touching>>

\* board::setRotation, refused while anything touches.
SetRotation(r) ==
  /\ contact = "up" /\ rotation' = r
  /\ press' = IF r = rotation THEN press ELSE "none"
  /\ UNCHANGED contact

BeginCalibration ==
  /\ calibrationRequested /\ SetRotation(0)
  /\ calibrationRequested' = FALSE
  /\ ctx' = ShowCalibration(ctx)
  /\ UNCHANGED <<view, setup, reset, mode, rotationPending>>

PollOrientation ==
  /\ ~ctx.touch /\ ~ctx.reset
  /\ \/ /\ rotationPending /\ rotationPending' = FALSE
        /\ SetRotation(IF mode = "Free" THEN rotation ELSE FixedRotation(mode))
     \/ /\ ~rotationPending /\ mode = "Free" /\ UNCHANGED rotationPending
        /\ \E r \in Rotations : SetRotation(r)
  /\ UNCHANGED <<ctx, view, setup, calibrationRequested, reset, mode>>

PollReset ==
  /\ resetRequested /\ resetRequested' = FALSE
  /\ \/ resetState' \in {"Failed", "SettingsFailed"} /\ UNCHANGED <<mode, rotationPending>>
     \/ resetState' = "Complete" /\ mode' = "Default" /\ rotationPending' = TRUE
  /\ UNCHANGED <<ctx, view, touching, setup, calibrationRequested, rotation>>

PortalEnds ==
  /\ portal = "on" /\ portal' \in {"saved", "closed"}
  /\ UNCHANGED <<ctx, view, touching, setupRequested, calibrationRequested, reset, turning>>

PollSetup ==
  /\ setupRequested
  /\ IF portal = "on" THEN ctx' = ShowSetup(ctx) /\ UNCHANGED setup
     ELSE /\ setupRequested' = FALSE /\ portal' = "off"
          /\ ctx' = CloseSetup(ctx, portal = "saved")
  /\ UNCHANGED <<view, touching, calibrationRequested, reset, turning>>

Finger == FingerMoves /\ UNCHANGED <<ctx, view, setup, calibrationRequested, reset, turning>>

Next ==
  \/ Finger \/ ReadPointer \/ InjectTouch \/ Refresh \/ PushButton \/ Command
  \/ BeginCalibration \/ PollOrientation \/ PollReset \/ PortalEnds \/ PollSetup

Spec == Init /\ [][Next]_vars

-----------------------------------------------------------------------------
(* Properties *)

\* One special screen at a time, calibration only over the touch test, and the
\* setup screen exactly as long as the main task waits for the portal: so that
\* closing one never uncovers another (badge_ui.cpp:161, :194).
OneModal ==
  /\ ~(ctx.setup /\ ctx.touch) /\ ~(ctx.setup /\ ctx.reset) /\ ~(ctx.touch /\ ctx.reset)
  /\ ctx.calibration => ctx.touch
  /\ ctx.setup = setupRequested

\* A swipe begun on a page turns nothing once a special screen has come up.
GestureFree == Modal(ctx) => ctx.pending = 0

\* The one screen that cannot be closed, a reset at work, has a reset at work
\* that will change it.
NoTrap == ctx.reset /\ ctx.confirmed /\ resetState = "Working" => resetRequested

ModalsExclude == OneModal /\ GestureFree /\ NoTrap

\* "The flow ... fixes the screen at Default without changing the saved
\* preference ... Either side button cancels or exits; it restores the
\* configured orientation." (docs/conference-badge.md:694)
OrientationRestored ==
  ~Modal(ctx) /\ ~rotationPending /\ mode # "Free" => rotation = FixedRotation(mode)

TypeOK ==
  /\ ctx \in [page : Pages, origin : Pages, setup : BOOLEAN, touch : BOOLEAN,
              calibration : BOOLEAN, reset : BOOLEAN, confirmed : BOOLEAN,
              pending : {-1, 0, 1}, rebuild : BOOLEAN]
  /\ view \in ({"page"} \X Pages) \cup ({"setup", "calibration", "touch", "reset"} \X {0})
  /\ press \in {"none", "spent"} \cup UNION {Targets(v) : v \in
                 ({"page"} \X Pages) \cup ({"setup", "touch", "reset"} \X {0})}
  /\ contact \in {"up", "finger", "injected"}
  /\ setupRequested \in BOOLEAN /\ portal \in {"off", "on", "saved", "closed"}
  /\ calibrationRequested \in BOOLEAN /\ resetRequested \in BOOLEAN
  /\ resetState \in {"Ready", "Working", "Failed", "SettingsFailed", "Complete"}
  /\ mode \in Modes /\ rotation \in Rotations /\ rotationPending \in BOOLEAN
=============================================================================
