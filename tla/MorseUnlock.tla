---------------------------- MODULE MorseUnlock ----------------------------
(***************************************************************************)
(* morse_unlock.h: taps on the invitation page, or two pushers, spell a    *)
(* word whose pauses do not matter.  One Update per call; whether a hold   *)
(* was a dash, and which of its limits a pause has passed, are choices.    *)
(* The invitation page feeds the first input only (page_invite.cpp:240);   *)
(* the class is checked for the two it offers, as its own tests do.         *)
(***************************************************************************)
EXTENDS Naturals, Sequences

CONSTANT InputCapacity   \* symbols and spaces the display holds

VARIABLES
  owner,         \* owner_, the input that began the attempt: {} for none
  index,         \* symbolIndex_
  length,        \* inputLength_
  pressed, waiting, rejected, letterOpen, wordOpen,
  typed,         \* history: the symbols of the attempt, as far as they matter
  inputs,        \* history: every input that took part in it
  unlocked       \* history: what the last unlock was for

attempt == <<owner, index, length, pressed, rejected, letterOpen, wordOpen, typed, inputs>>
vars    == <<attempt, waiting, unlocked>>

Sequence == <<".", ".", "-", ".", ".", ".", "-">>
Inputs   == {1, 2}
Pauses   == {"short", "letter", "word", "reset"}

\* clearAttempt
Cleared ==
  /\ owner' = {} /\ index' = 0 /\ length' = 0 /\ typed' = <<>> /\ inputs' = {}
  /\ pressed' = FALSE /\ rejected' = FALSE /\ letterOpen' = FALSE /\ wordOpen' = FALSE

Init ==
  /\ owner = {} /\ index = 0 /\ length = 0 /\ typed = <<>> /\ inputs = {}
  /\ pressed = FALSE /\ rejected = FALSE /\ letterOpen = FALSE /\ wordOpen = FALSE
  /\ waiting = FALSE /\ unlocked = "never"

\* append, of n characters in a row
Length(n) == IF length + n <= InputCapacity THEN length + n ELSE InputCapacity
Overflow(n) == length + n > InputCapacity

Begin(held) ==
  /\ owner' = held /\ pressed' = TRUE /\ rejected' = (held = Inputs)
  /\ index' = 0 /\ length' = 0 /\ typed' = <<>> /\ inputs' = held
  /\ letterOpen' = FALSE /\ wordOpen' = FALSE

Disable(held) == Cleared /\ waiting' = (held # {}) /\ UNCHANGED unlocked

Release(held) ==
  /\ waiting /\ waiting' = (held # {})
  /\ UNCHANGED <<attempt, unlocked>>

Start(held) ==
  /\ ~waiting /\ owner = {}
  /\ IF held = {} THEN UNCHANGED attempt ELSE Begin(held)
  /\ UNCHANGED <<waiting, unlocked>>

\* A rejected attempt is over once nothing was pressed for ResetGapMs.
Restart(held) ==
  /\ ~waiting /\ owner # {} /\ ~pressed /\ rejected
  /\ IF held = {} THEN Cleared ELSE Begin(held)
  /\ UNCHANGED <<waiting, unlocked>>

\* Mutant: a second input is ignored.
IgnoresOthers(held) == FALSE

Conflict(held) == held # {} /\ held # owner

Correct(s) == Len(s) <= Len(Sequence) /\ s = SubSeq(Sequence, 1, Len(s))

Remember(symbol) == typed' = IF Correct(typed) THEN Append(typed, symbol) ELSE typed

\* A press ends: its symbol is right, wrong, or completes the word.
Symbol(symbol) ==
  LET bad   == rejected \/ Overflow(1)
      right == ~bad /\ Sequence[index + 1] = symbol
  IN  /\ ~waiting /\ pressed /\ UNCHANGED <<waiting, inputs>>
      /\ \/ /\ right /\ index + 1 = Len(Sequence)
            /\ owner' = {} /\ index' = 0 /\ length' = 0 /\ typed' = <<>>
            /\ pressed' = FALSE /\ rejected' = FALSE
            /\ letterOpen' = FALSE /\ wordOpen' = FALSE
            /\ unlocked' = IF Append(typed, symbol) = Sequence /\ inputs = owner
                           THEN "right" ELSE "wrong"
         \/ /\ ~(right /\ index + 1 = Len(Sequence))
            /\ pressed' = FALSE /\ letterOpen' = TRUE /\ wordOpen' = TRUE
            /\ length' = Length(1) /\ Remember(symbol)
            /\ rejected' = (bad \/ ~right)
            /\ index' = IF right THEN index + 1 ELSE index
            /\ UNCHANGED <<owner, unlocked>>

Hold(held) ==
  /\ ~waiting /\ pressed /\ held # {}
  /\ rejected' = (rejected \/ Conflict(held)) /\ inputs' = inputs \cup held
  /\ UNCHANGED <<owner, index, length, pressed, letterOpen, wordOpen, typed, waiting, unlocked>>

\* Between presses: spaces appear, and the next press may begin.
Pause(held, pause) ==
  LET letter == letterOpen /\ pause # "short"
      word   == wordOpen /\ pause \in {"word", "reset"}
      spaces == (IF letter THEN 1 ELSE 0) + (IF word THEN 1 ELSE 0)
  IN  /\ ~waiting /\ owner # {} /\ ~pressed /\ ~(rejected /\ pause = "reset")
      /\ letterOpen' = (letterOpen /\ ~letter) /\ wordOpen' = (wordOpen /\ ~word)
      /\ length' = Length(spaces)
      /\ rejected' = (rejected \/ Conflict(held) \/ Overflow(spaces))
      /\ pressed' = (held # {}) /\ inputs' = inputs \cup held
      /\ UNCHANGED <<owner, index, typed, waiting, unlocked>>

Update(held) ==
  \/ Release(held) \/ Start(held) \/ Restart(held) \/ Hold(held)
  \/ \E pause \in Pauses : Pause(held, pause)
  \/ held = {} /\ \E symbol \in {".", "-"} : Symbol(symbol)

Next == \E held \in SUBSET Inputs : Update(held) \/ Disable(held)

Spec == Init /\ [][Next]_vars

-----------------------------------------------------------------------------
(* Properties *)

\* Only the whole word unlocks, spelled by one input and from the beginning of
\* an attempt, never a suffix, or a word two inputs took turns on
\* (morse_unlock.h:7); and no pause, however long, spoils a correct prefix: the
\* display has room for every space of it (morse_unlock.h:6).
WholeWordUnlocks ==
  /\ unlocked # "wrong"
  /\ owner # {} /\ owner # Inputs /\ inputs = owner /\ Correct(typed)
       => ~rejected /\ index = Len(typed)

TypeOK ==
  /\ owner \in SUBSET Inputs /\ inputs \in SUBSET Inputs
  /\ index \in 0 .. Len(Sequence) - 1 /\ length \in 0 .. InputCapacity
  /\ pressed \in BOOLEAN /\ waiting \in BOOLEAN /\ rejected \in BOOLEAN
  /\ letterOpen \in BOOLEAN /\ wordOpen \in BOOLEAN
  /\ typed \in Seq({".", "-"}) /\ Len(typed) <= Len(Sequence) + 1
  /\ unlocked \in {"never", "right", "wrong"}
=============================================================================
