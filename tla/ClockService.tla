---------------------------- MODULE ClockService ----------------------------
(***************************************************************************)
(* The checked clock of firmware/factory_badge/main/clock_service.cpp: the  *)
(* hardware RTC, the UTC offset in NVS and the system clock, all owned by   *)
(* the main task, and the eight-second request by which another task has    *)
(* the main task set them (setFromPhone, poll).                             *)
(*                                                                          *)
(* A time is the value somebody set; that clocks tick on is left out, so a  *)
(* readback "at most a second later" is the same time.                      *)
(***************************************************************************)
EXTENDS Naturals

CONSTANTS Callers,   \* tasks that call setFromPhone
          Times,     \* valid epochs
          Offsets,   \* valid UTC offsets
          Zero,      \* the offset of a badge that has none
          Bad,       \* an RTC that cannot be read, a system clock never set
          NoOffset,  \* no valid offset in NVS
          Nobody,    \* no caller
          Usb,       \* the computer at the other end of the cable
          Orphan     \* a caller that has given up

ASSUME ClockAssumption ==
  /\ Zero \in Offsets /\ NoOffset \notin Offsets
  /\ Bad \notin Times
  /\ Nobody \notin Callers /\ Usb \notin Callers /\ Orphan \notin Callers
  /\ Nobody # Usb /\ Orphan # Usb

VARIABLES
  rtc, nvs,        \* what survives a restart: the RTC and the stored offset
  sys, offset,     \* the system clock and utcOffset
  ready, source,   \* `ready` and adoptedSource
  main,            \* where the main task is in its loop
  job,             \* the set call it is in, and who asked for it
  good,            \* that call's success so far
  pending,         \* the caller of the pending request
  phase,           \* each caller: idle, waiting, or answered ok or failed
  req              \* each caller's request

kept   == <<rtc, nvs>>
clock  == <<sys, offset, ready, source>>
worker == <<main, job, good>>
calls  == <<pending, phase, req>>
vars   == <<kept, clock, worker, calls>>

Requests  == [time : Times, offset : Offsets]
NoRequest == [time |-> Bad, offset |-> Zero]
NoJob     == [from |-> Orphan, time |-> Bad, offset |-> Zero]
Jobs      == [from : Callers \cup {Usb, Orphan}, time : Times \cup {Bad},
              offset : Offsets]

TypeOK ==
  /\ rtc \in Times \cup {Bad} /\ nvs \in Offsets \cup {NoOffset}
  /\ sys \in Times \cup {Bad} /\ offset \in Offsets
  /\ ready \in BOOLEAN /\ source \in {"unset", "rtc", "phone", "computer"}
  /\ main \in {"poll", "command", "rtc", "store", "system", "check", "publish"}
  /\ job \in Jobs /\ good \in BOOLEAN
  /\ pending \in Callers \cup {Nobody}
  /\ phase \in [Callers -> {"idle", "waiting", "ok", "failed"}]
  /\ req \in [Callers -> Requests \cup {NoRequest}]

Checked(o) == IF o \in Offsets THEN o ELSE Zero

\* init: NVS may be unreadable, and an RTC that reads well sets the system
\* clock.
Init ==
  /\ rtc \in Times \cup {Bad} /\ nvs \in Offsets \cup {NoOffset}
  /\ offset \in {Checked(nvs), Zero}
  /\ ready \in {rtc # Bad, FALSE}
  /\ sys = IF ready THEN rtc ELSE Bad
  /\ source = IF ready THEN "rtc" ELSE "unset"
  /\ main = "poll" /\ good = FALSE /\ job = NoJob
  /\ pending = Nobody
  /\ phase = [c \in Callers |-> "idle"]
  /\ req = [c \in Callers |-> NoRequest]

\* Power loss or esp_restart, then init.
Restart ==
  /\ offset' \in {Checked(nvs), Zero}
  /\ ready' \in {rtc # Bad, FALSE}
  /\ sys' = IF ready' THEN rtc ELSE Bad
  /\ source' = IF ready' THEN "rtc" ELSE "unset"
  /\ main' = "poll" /\ good' = FALSE /\ job' = NoJob
  /\ pending' = Nobody
  /\ phase' = [c \in Callers |-> "idle"]
  /\ req' = [c \in Callers |-> NoRequest]
  /\ UNCHANGED kept

-----------------------------------------------------------------------------
(* setFromPhone *)

\* While another request is pending a caller is told "clock_busy", and nothing
\* changes.
Request(c) ==
  /\ phase[c] = "idle" /\ pending = Nobody
  /\ pending' = c
  /\ phase' = [phase EXCEPT ![c] = "waiting"]
  /\ \E r \in Requests : req' = [req EXCEPT ![c] = r]
  /\ UNCHANGED <<kept, clock, worker>>

\* Mutant: the request stays pending.
Forget(c) == pending' = pending

\* The request is withdrawn.
Withdraw(c) == pending' = IF pending = c THEN Nobody ELSE pending

\* The call is over, and its request with it.
Done(c) ==
  /\ phase' = [phase EXCEPT ![c] = "idle"]
  /\ req' = [req EXCEPT ![c] = NoRequest]

\* Eight seconds without an answer.  A set under way goes on, for nobody.
Timeout(c) ==
  /\ phase[c] = "waiting"
  /\ Withdraw(c)
  /\ job' = IF job.from = c THEN [job EXCEPT !.from = Orphan] ELSE job
  /\ Done(c)
  /\ UNCHANGED <<kept, clock, main, good>>

\* The caller wakes up.
Return(c) ==
  /\ phase[c] \in {"ok", "failed"}
  /\ Done(c)
  /\ UNCHANGED <<kept, clock, worker, pending>>

-----------------------------------------------------------------------------
(* The main loop: poll, then the USB commands *)

Poll ==
  /\ main = "poll"
  /\ IF pending = Nobody
     THEN main' = "command" /\ UNCHANGED job
     ELSE /\ main' = "rtc"
          /\ job' = [from   |-> pending, time |-> req[pending].time,
                     offset |-> req[pending].offset]
  /\ UNCHANGED <<kept, clock, good, calls>>

\* clock_set, or no command for the clock; invalid values change nothing.
Command ==
  /\ main = "command"
  /\ \/ main' = "poll" /\ UNCHANGED job
     \/ /\ main' = "rtc"
        /\ \E r \in Requests :
             job' = [from |-> Usb, time |-> r.time, offset |-> r.offset]
  /\ UNCHANGED <<kept, clock, good, calls>>

\* set returns: poll goes on to its own check, a command is answered at once.
Leave(success) ==
  IF job.from = Usb
  THEN main' = "poll" /\ job' = NoJob /\ UNCHANGED good
  ELSE main' = "check" /\ good' = success /\ UNCHANGED job

\* Mutant: the old time stays up while the new one is set.
KeepValid == UNCHANGED <<ready, source>>

Invalidate == ready' = FALSE /\ source' = "unset"

\* The clock is invalid until everything is verified.  A write to the RTC that
\* fails may have changed, stopped or not touched it.
WriteRtc ==
  /\ main = "rtc"
  /\ Invalidate
  /\ \/ rtc' = job.time /\ main' = "store" /\ UNCHANGED <<good, job>>
     \/ rtc' \in {rtc, job.time, Bad} /\ Leave(FALSE)
  /\ UNCHANGED <<nvs, sys, offset, calls>>

\* Mutant: the stored offset is not read back.
StoredBlindly == TRUE

Stored == nvs' = job.offset

\* An offset that is already stored is not written again.
StoreOffset ==
  /\ main = "store"
  /\ nvs' \in {nvs, job.offset}
  /\ \/ Stored /\ main' = "system" /\ UNCHANGED <<good, job>>
     \/ Leave(FALSE)
  /\ UNCHANGED <<rtc, clock, calls>>

SetSystem ==
  /\ main = "system"
  /\ \/ /\ sys' = job.time /\ offset' = job.offset
        /\ ready' = TRUE
        /\ source' = IF job.from = Usb THEN "computer" ELSE "phone"
        /\ Leave(TRUE)
     \/ sys' \in {sys, job.time} /\ Leave(FALSE) /\ UNCHANGED <<offset, ready, source>>
  /\ UNCHANGED <<kept, calls>>

\* poll compares both clocks once more, and a difference or an RTC that cannot
\* be read takes the success back.
Check ==
  /\ main = "check"
  /\ main' = "publish"
  /\ \/ UNCHANGED <<good, ready, source>>
     \/ good /\ good' = FALSE /\ Invalidate
  /\ UNCHANGED <<kept, sys, offset, job, calls>>

\* Mutant: whatever is pending is taken to be the request just served.
ReleaseAny == pending' = Nobody

\* The slot is released unless it already holds a later request.
Release == pending' = IF pending = job.from THEN Nobody ELSE pending

Publish ==
  /\ main = "publish"
  /\ main' = "command" /\ good' = FALSE /\ job' = NoJob
  /\ Release
  /\ phase' = IF job.from \in Callers
              THEN [phase EXCEPT ![job.from] = IF good THEN "ok" ELSE "failed"]
              ELSE phase
  /\ UNCHANGED <<kept, clock, req>>

MainStep ==
  \/ Poll \/ Command \/ WriteRtc \/ StoreOffset \/ SetSystem \/ Check \/ Publish

Next ==
  \/ MainStep \/ Restart
  \/ \E c \in Callers : Request(c) \/ Timeout(c) \/ Return(c)

\* The main loop goes round; nothing is assumed of callers or of the time they
\* wait.
Spec == Init /\ [][Next]_vars /\ WF_vars(MainStep)

-----------------------------------------------------------------------------
(* Properties *)

\* A clock that was set shows what a restart will find: both clocks have the
\* same time and the offset in use is the one in NVS ("takes effect immediately
\* and survives closing setup", docs/conference-clock.md:34), also while a
\* later attempt is failing half way.
SetIsDurable ==
  /\ ready <=> source # "unset"
  /\ source \in {"phone", "computer"} => rtc = sys /\ nvs = offset

\* A caller waits exactly as long as its request is pending: no request is
\* lost when an earlier one, already given up, ends; and none is served after
\* its caller withdrew it.
WaiterIsPending == \A c \in Callers : phase[c] = "waiting" <=> pending = c

\* "return success only after RTC, system clock and NVS readback"
\* (services.h:44): a caller told "ok" finds its own time and offset set,
\* whatever was queued, given up or sent over USB before.
AnswerTruth ==
  [][\A c \in Callers : phase[c] = "waiting" /\ phase'[c] = "ok" =>
       /\ source' = "phone"
       /\ rtc' = req[c].time /\ sys' = req[c].time
       /\ nvs' = req[c].offset /\ offset' = req[c].offset]_vars

\* The main loop serves every request, whatever the computer sends: the eight
\* seconds are never needed to get a caller out.
RequestServed == \A c \in Callers : phase[c] = "waiting" ~> phase[c] # "waiting"
=============================================================================
