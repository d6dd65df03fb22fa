-------------------------- MODULE TouchObservation --------------------------
(***************************************************************************)
(* touch_observation.h as main.cpp feeds and reads it: a diagnostic         *)
(* session that records the contacts of the touch sensor in a bounded ring. *)
(* A sample is observed once, some time after it was taken; the session may *)
(* be started, stopped, read or expire in between.  Coordinates are left    *)
(* out, and a contact in the ring is its number in the session.             *)
(***************************************************************************)
EXTENDS Integers

CONSTANTS
  Capacity,      \* contacts the ring holds
  MaxDuration,   \* longest session, in ticks
  MaxTime,       \* bound: ticks explored
  MaxContacts    \* bound: contacts recorded in a session

VARIABLES
  now,
  sample,        \* board::touch(), once observed NoSample: its sequence is known
  enabled, started, duration,
  holding, eligible, previous, waiting,
  current,           \* current_, Blank unless holding_
  previousRelease,   \* previous_release_, 0 unless previous_
  records, head, count, dropped,
  total, last, popped    \* history: contacts recorded, the last one, and handed out

session == <<enabled, started, duration>>
contact == <<holding, eligible, previous, waiting, current, previousRelease>>
ring    == <<records, head, count, dropped>>
history == <<total, last, popped>>
vars    == <<now, sample, session, contact, ring, history>>

Times == 0 .. MaxTime
Slots == 0 .. Capacity - 1
NoGap == -1
Blank == [press |-> 0, gap |-> NoGap]
NoSample == [at |-> 0, finger |-> "seen"]
Nobody   == [release |-> 0, end |-> "none"]

Init ==
  /\ now = 0 /\ sample = NoSample
  /\ enabled = FALSE /\ started = 0 /\ duration = 0
  /\ holding = FALSE /\ eligible = FALSE /\ previous = FALSE /\ waiting = TRUE
  /\ current = Blank /\ previousRelease = 0
  /\ records = [s \in Slots |-> 0] /\ head = 0 /\ count = 0 /\ dropped = 0
  /\ total = 0 /\ last = Nobody /\ popped = 0

-----------------------------------------------------------------------------
(* The ring, and the end of a contact *)

\* Mutant: a full ring forgets to move on to the contact that is now oldest.
KeepHead(h) == h

Oldest(h) == (h + 1) % Capacity

\* The part of finish that keeps the most recent contacts.
Record(end, t) ==
  LET full == count = Capacity
      h == IF full THEN Oldest(head) ELSE head
      n == IF full THEN count - 1 ELSE count
  IN  /\ records' = [records EXCEPT ![(h + n) % Capacity] = total + 1]
      /\ head' = h /\ count' = n + 1
      /\ dropped' = IF full THEN dropped + 1 ELSE dropped
      /\ total' = total + 1 /\ last' = [release |-> t, end |-> end]
      /\ UNCHANGED popped

NoRecord == UNCHANGED <<ring, history>>

\* Mutant: an interruption ends the contact like a lift.
LiftedAnyway(end, t, e) ==
  /\ IF holding THEN Record(end, t) ELSE NoRecord
  /\ holding' = FALSE /\ current' = Blank
  /\ eligible' = e /\ previous' = holding /\ waiting' = TRUE
  /\ previousRelease' = IF holding THEN t ELSE 0

\* What is left of the session's contact once it may not go on: e is whether
\* the scope is still right.
Broken(end, t, e) ==
  /\ IF holding THEN Record(end, t) ELSE NoRecord
  /\ holding' = FALSE /\ current' = Blank
  /\ eligible' = e /\ previous' = FALSE /\ previousRelease' = 0 /\ waiting' = TRUE

Close(end, t) ==
  /\ Broken(end, t, FALSE)
  /\ enabled' = FALSE /\ UNCHANGED <<started, duration>>

Late(t) == t - started >= duration

Deadline == started + duration

-----------------------------------------------------------------------------
(* The board and the USB commands *)

Tick == /\ now < MaxTime /\ now' = now + 1
        /\ UNCHANGED <<sample, session, contact, ring, history>>

\* A read of the controller.  "bad" is one that failed, or was injected, or
\* the lift of an injected one.
Touch ==
  /\ sample' \in [at : {now}, finger : {"up", "down", "bad"}]
  /\ UNCHANGED <<now, session, contact, ring, history>>

\* The sample that is there already does not belong to the new session.
Start ==
  /\ \E d \in 1 .. MaxDuration : duration' = d
  /\ enabled' = TRUE /\ started' = now /\ sample' = NoSample
  /\ holding' = FALSE /\ eligible' = FALSE /\ previous' = FALSE /\ waiting' = TRUE
  /\ current' = Blank /\ previousRelease' = 0
  /\ head' = 0 /\ count' = 0 /\ dropped' = 0
  /\ total' = 0 /\ last' = Nobody /\ popped' = 0
  /\ UNCHANGED <<now, records>>

Stop ==
  /\ enabled
  /\ IF Late(now) THEN Close("Expired", Deadline) ELSE Close("Stopped", now)
  /\ UNCHANGED <<now, sample>>

\* active, which every pass of the loop calls, and every command
Expire ==
  /\ enabled /\ Late(now) /\ Close("Expired", Deadline)
  /\ UNCHANGED <<now, sample>>

Pop ==
  /\ count > 0
  /\ head' = (head + 1) % Capacity /\ count' = count - 1 /\ popped' = popped + 1
  /\ UNCHANGED <<now, sample, session, contact, records, dropped, total, last>>

-----------------------------------------------------------------------------
(* observe *)

Ignore == UNCHANGED <<session, contact, ring, history>>

\* The first sample in scope, like the first after an interruption, only tells
\* whether the finger is up.
AwaitRelease ==
  /\ eligible' = TRUE /\ waiting' = (sample.finger = "down")
  /\ IF eligible THEN UNCHANGED <<previous, previousRelease>>
                 ELSE previous' = FALSE /\ previousRelease' = 0
  /\ NoRecord /\ UNCHANGED <<session, holding, current>>

Begin(t) ==
  /\ IF sample.finger = "down"
     THEN /\ holding' = TRUE
          /\ current' = [press |-> t,
                         gap |-> IF previous THEN t - previousRelease ELSE NoGap]
     ELSE UNCHANGED <<holding, current>>
  /\ NoRecord /\ UNCHANGED <<session, eligible, previous, waiting, previousRelease>>

Follow(t) ==
  /\ IF sample.finger = "down"
     THEN NoRecord /\ UNCHANGED <<holding, current, previous, previousRelease>>
     ELSE /\ Record("Released", t)
          /\ holding' = FALSE /\ current' = Blank
          /\ previous' = TRUE /\ previousRelease' = t
  /\ UNCHANGED <<session, eligible, waiting>>

\* scope: the invitation page, with no other screen over it
Observe(scope) ==
  LET t == sample.at
      good == scope /\ sample.finger # "bad"
      await == waiting \/ ~eligible
  IN  /\ sample # NoSample /\ sample' = NoSample /\ UNCHANGED now
      /\ \/ (~enabled \/ t < started) /\ Ignore
         \/ enabled /\ t >= started /\ Late(t) /\ Close("Expired", Deadline)
         \/ /\ enabled /\ t >= started /\ ~Late(t)
            /\ \/ ~scope /\ Broken("Ineligible", t, FALSE) /\ UNCHANGED session
               \/ scope /\ ~good /\ Broken("Lost", t, TRUE) /\ UNCHANGED session
               \/ good /\ await /\ AwaitRelease
               \/ good /\ ~await /\ ~holding /\ Begin(t)
               \/ good /\ ~await /\ holding /\ Follow(t)

\* Bound: MaxContacts.
Next == \/ Tick \/ Touch \/ Start \/ Stop \/ Expire \/ Pop
        \/ total < MaxContacts /\ \E scope \in BOOLEAN : Observe(scope)

Spec == Init /\ [][Next]_vars

-----------------------------------------------------------------------------
(* Properties *)

\* A recorded contact lies within its session and after the one before; a gap
\* is reported only if that one ended with a lift that was seen, and is the
\* time since then (touch_observation.h:36, :76).
ContactTruth ==
  [][total' = total + 1 =>
       /\ started <= current.press /\ current.press <= last'.release
       /\ last'.release <= Deadline
       /\ total > 0 => last.release <= current.press
       /\ current.gap # NoGap =>
            last.end = "Released" /\ current.gap = current.press - last.release]_vars

\* What reading will hand out is what was recorded last, in order; everything
\* older was handed out before or is counted as dropped.
RingIsTail ==
  /\ popped + dropped + count = total
  /\ \A i \in 0 .. count - 1 : records[(head + i) % Capacity] = total - count + 1 + i

TypeOK ==
  /\ now \in Times /\ sample \in [at : Times, finger : {"seen", "up", "down", "bad"}]
  /\ enabled \in BOOLEAN /\ started \in Times /\ duration \in 0 .. MaxDuration
  /\ holding \in BOOLEAN /\ eligible \in BOOLEAN /\ previous \in BOOLEAN
  /\ waiting \in BOOLEAN /\ previousRelease \in Times
  /\ records \in [Slots -> 0 .. MaxContacts] /\ head \in Slots /\ count \in 0 .. Capacity
  /\ total \in 0 .. MaxContacts /\ popped \in 0 .. total /\ dropped \in 0 .. total
=============================================================================
