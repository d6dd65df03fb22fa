---------------------------- MODULE ButtonInput ----------------------------
(***************************************************************************)
(* The two pushers, from contact to action: board_buttons.h, sampled by a  *)
(* timer every few milliseconds, and devices_badge/button_gesture.h, fed   *)
(* by the main task once per pass of its loop, however slow that is.       *)
(* Bit masks are sets of pushers.  How much time has passed is a choice.   *)
(***************************************************************************)
CONSTANTS Yellow, Blue

VARIABLES
  raw,                  \* pushers whose contact is closed
  candidate, stable,    \* Debouncer, both keys
  level, latched,       \* the atomics stable_ and pressed_
  timer,                \* "idle", or "store" within sample()
  main, loaded,         \* "load" or "exchange" within take(), what it loaded
  gesture, first,       \* "idle", "single", "chord" or "suppressed"; first_
  owed,                 \* history: presses no take has reported yet
  outcome,              \* history: what came of the gesture under way
  lost                  \* history: a press was missed, or a gesture acted amiss

keys    == <<raw, candidate, stable, level, timer>>
gestures == <<gesture, first, outcome>>
vars    == <<keys, latched, main, loaded, gestures, owed, lost>>

Both == {Yellow, Blue}

Init ==
  /\ raw = {} /\ candidate = {} /\ stable = {} /\ level = {} /\ latched = {}
  /\ timer = "idle" /\ main = "load" /\ loaded = {}
  /\ gesture = "idle" /\ first = {} /\ outcome = "none"
  /\ owed = {} /\ lost = FALSE

-----------------------------------------------------------------------------
(* The timer *)

ContactChanges ==
  /\ raw' \in SUBSET Both
  /\ UNCHANGED <<candidate, stable, level, timer, latched, main, loaded, gestures, owed, lost>>

\* Mutant: presses are not latched.
NotLatched(rising) == latched

\* pressed_.fetch_or
Latched(rising) == latched \cup rising

\* Debouncer::update for both keys: a level counts once it has held for
\* DebounceMs; then the rising ones are latched.
Sample ==
  /\ timer = "idle" /\ timer' = "store"
  /\ candidate' = raw
  /\ \E due \in SUBSET {k \in Both : (k \in raw) = (k \in candidate)} :
       stable' = (stable \ due) \cup (raw \cap due)
  /\ latched' = Latched(stable' \ stable)
  /\ owed' = owed \cup (stable' \ stable)
  /\ UNCHANGED <<raw, level, main, loaded, gestures, lost>>

Store ==
  /\ timer = "store" /\ timer' = "idle"
  /\ level' = stable
  /\ UNCHANGED <<raw, candidate, stable, latched, main, loaded, gestures, owed, lost>>

-----------------------------------------------------------------------------
(* The main task *)

\* The timer task preempts the main task: a sample once begun is over before
\* the next take begins.
Load ==
  /\ main = "load" /\ main' = "exchange" /\ timer = "idle"
  /\ loaded' = level
  /\ UNCHANGED <<keys, latched, gestures, owed, lost>>

Act(held) ==
  /\ outcome' = IF held = {} THEN "none" ELSE "acted"
  /\ lost' = (lost \/ outcome = "acted" \/ ~(owed \subseteq held))

Quiet(held) ==
  /\ outcome' = IF held = {} THEN "none" ELSE outcome
  /\ lost' = (lost \/ ~(owed \subseteq held))

\* suppressed_ = held != 0
Ends(held) == IF held = {} THEN "idle" ELSE "suppressed"

\* BadgeButtonGesture::update; f is first_ once the gesture has begun.
Begun(f, held) ==
  \/ /\ held = Both /\ gesture' = "chord" /\ first' = f /\ Quiet(held)
  \/ /\ held = Both /\ gesture = "chord"                       \* SETTINGS
     /\ gesture' = "suppressed" /\ first' = f /\ Act(held)
  \/ /\ held # Both /\ gesture = "chord"                       \* let go too early
     /\ gesture' = Ends(held) /\ first' = f
     /\ outcome' = (IF held = {} THEN "none" ELSE "acted")
     /\ lost' = (lost \/ ~(owed \subseteq held))
  \/ /\ held # Both /\ gesture # "chord"                       \* YELLOW or BLUE
     /\ gesture' = Ends(held) /\ first' = f /\ Act(held)
  \/ /\ held # Both /\ gesture # "chord" /\ held \cap f # {}   \* may become a chord
     /\ gesture' = "single" /\ first' = f /\ Quiet(held)

Update(held) ==
  CASE gesture = "suppressed" ->
         /\ gesture' = IF held = {} THEN "idle" ELSE gesture
         /\ UNCHANGED first /\ Quiet(held)
    [] gesture = "idle" /\ held = {} -> UNCHANGED <<gesture, first>> /\ Quiet(held)
    [] gesture = "idle" /\ held # {} -> Begun(held, held)
    [] OTHER -> Begun(first, held)

\* pressed_.exchange, and what the loop does with the result.
Exchange ==
  /\ main = "exchange" /\ main' = "load"
  /\ latched' = {} /\ owed' = {}
  /\ Update(loaded \cup latched)
  /\ UNCHANGED <<keys, loaded>>

Next == ContactChanges \/ Sample \/ Store \/ Load \/ Exchange

Spec == Init /\ [][Next]_vars

-----------------------------------------------------------------------------
(* Properties *)

\* Every debounced press, however short and however slow the loop, is seen by
\* the next take (board_buttons.h:7), and from the first press to the read with
\* both pushers up there is at most one action, also after a cancelled chord
\* (button_gesture.h:6).  A gesture that is over leaves no press unanswered.
PressesAnswered == ~lost /\ (gesture = "idle" => outcome = "none")

TypeOK ==
  /\ raw \subseteq Both /\ candidate \subseteq Both /\ stable \subseteq Both
  /\ level \subseteq Both /\ latched \subseteq Both /\ loaded \subseteq Both
  /\ timer \in {"idle", "store"} /\ main \in {"load", "exchange"}
  /\ gesture \in {"idle", "single", "chord", "suppressed"} /\ first \subseteq Both
  /\ owed \subseteq Both /\ outcome \in {"none", "acted"} /\ lost \in BOOLEAN
=============================================================================
