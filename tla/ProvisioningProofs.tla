------------------------- MODULE ProvisioningProofs -------------------------
(***************************************************************************)
(* Proofs about both sides of setting up a badge: ClockService for any      *)
(* number of callers, times and offsets, and Installer for any number of    *)
(* badges.                                                                  *)
(***************************************************************************)
EXTENDS ClockService, Installer, TLAPS

(* What each stage of a set call has established so far, and that the       *)
(* success it carries is about its own values.                              *)
StageInv ==
  /\ main \in {"poll", "command"} => job.from = Orphan
  /\ main \in {"store", "system"} => source = "unset" /\ rtc = job.time
  /\ main = "system" => nvs = job.offset
  /\ main \in {"check", "publish"} => job.from # Usb
  /\ good => /\ main \in {"check", "publish"}
             /\ source = "phone"
             /\ job.time = rtc /\ job.offset = nvs

(* The set call under way is for a caller only while that caller waits, and *)
(* then it carries that caller's request.                                   *)
CallInv ==
  /\ WaiterIsPending
  /\ \A c \in Callers : job.from = c =>
       pending = c /\ job.time = req[c].time /\ job.offset = req[c].offset

ClockInv == TypeOK /\ SetIsDurable /\ StageInv /\ CallInv

-----------------------------------------------------------------------------
(* What init takes from NVS is a valid offset.                              *)
LEMMA CheckedType == \A o : Checked(o) \in Offsets
  BY ClockAssumption DEF Checked

(* The empty job and the empty request have their types.                    *)
LEMMA NoneType == NoJob \in Jobs /\ NoRequest \in Requests \cup {NoRequest}
  BY ClockAssumption DEF NoJob, Jobs, NoRequest

(* The inductive invariant holds after init.                                *)
LEMMA InitInv == Init => ClockInv
<1> SUFFICES ASSUME Init PROVE ClockInv
  OBVIOUS
<1>1. TypeOK
  BY CheckedType, NoneType, ClockAssumption DEF Init, TypeOK, NoJob, Jobs
<1>2. SetIsDurable /\ StageInv /\ CallInv
  BY ClockAssumption DEF Init, SetIsDurable, StageInv, CallInv, WaiterIsPending, NoJob
<1> QED
  BY <1>1, <1>2 DEF ClockInv

(* Every step keeps the types.                                              *)
LEMMA TypeStep == ClockInv /\ [Next]_vars => TypeOK'
<1> SUFFICES ASSUME ClockInv, [Next]_vars PROVE TypeOK'
  OBVIOUS
<1> USE ClockAssumption DEF ClockInv
<1>1. CASE Restart
  BY CheckedType, <1>1 DEF Restart, Checked, TypeOK, Jobs, Requests, NoJob, NoRequest, vars, kept, clock, worker, calls
<1>2. ASSUME NEW c \in Callers, Request(c) PROVE TypeOK'
  BY <1>2 DEF Request, TypeOK, Jobs, Requests, NoJob, NoRequest, vars, kept, clock, worker, calls
<1>3. ASSUME NEW c \in Callers, Timeout(c) PROVE TypeOK'
  BY <1>3 DEF Timeout, Withdraw, Done, TypeOK, Jobs, Requests, NoJob, NoRequest, vars, kept, clock, worker, calls
<1>4. ASSUME NEW c \in Callers, Return(c) PROVE TypeOK'
  BY <1>4 DEF Return, Done, TypeOK, Jobs, Requests, NoJob, NoRequest, vars, kept, clock, worker, calls
<1>5. CASE Poll
  BY <1>5 DEF Poll, TypeOK, Jobs, Requests, NoJob, NoRequest, vars, kept, clock, worker, calls
<1>6. CASE Command
  BY <1>6 DEF Command, TypeOK, Jobs, Requests, NoJob, NoRequest, vars, kept, clock, worker, calls
<1>7. CASE WriteRtc
  <2>1. good' \in BOOLEAN /\ ready' \in BOOLEAN
    BY <1>7, Zenon DEF WriteRtc, Invalidate, Leave, TypeOK, clock
  <2>2. job' \in Jobs
    BY <1>7, NoneType DEF WriteRtc, Leave, TypeOK
  <2> QED
    BY <1>7, <2>1, <2>2 DEF WriteRtc, Invalidate, Leave, TypeOK, Jobs, kept, clock, calls
<1>8. CASE StoreOffset
  <2>1. good' \in BOOLEAN /\ ready' \in BOOLEAN
    BY <1>8, Zenon DEF StoreOffset, Stored, Leave, TypeOK, clock
  <2>2. job' \in Jobs
    BY <1>8, NoneType DEF StoreOffset, Leave, TypeOK
  <2> QED
    BY <1>8, <2>1, <2>2 DEF StoreOffset, Stored, Leave, TypeOK, Jobs, kept, clock, calls
<1>9. CASE SetSystem
  <2>1. good' \in BOOLEAN /\ ready' \in BOOLEAN
    BY <1>9, Zenon DEF SetSystem, Leave, TypeOK, clock
  <2>2. job' \in Jobs
    BY <1>9, NoneType DEF SetSystem, Leave, TypeOK
  <2> QED
    BY <1>9, <2>1, <2>2 DEF SetSystem, Leave, TypeOK, Jobs, kept, clock, calls
<1>10. CASE Check
  <2>1. good' \in BOOLEAN /\ ready' \in BOOLEAN
    BY <1>10, Zenon DEF Check, Invalidate, TypeOK
  <2> QED
    BY <1>10, <2>1 DEF Check, Invalidate, TypeOK, Jobs, kept, clock, calls
<1>11. CASE Publish
  BY <1>11 DEF Publish, Release, TypeOK, Jobs, Requests, NoJob, NoRequest, vars, kept, clock, worker, calls
<1>12. CASE UNCHANGED vars
  BY <1>12 DEF TypeOK, Jobs, Requests, NoJob, NoRequest, vars, kept, clock, worker, calls
<1> QED
  BY <1>1, <1>2, <1>3, <1>4, <1>5, <1>6, <1>7, <1>8, <1>9, <1>10, <1>11, <1>12 DEF Next, MainStep

(* Every step keeps a clock that was set equal to what a restart finds.     *)
LEMMA DurableStep == ClockInv /\ [Next]_vars => SetIsDurable'
<1> SUFFICES ASSUME ClockInv, [Next]_vars PROVE SetIsDurable'
  OBVIOUS
<1> USE ClockAssumption DEF ClockInv
<1>1. CASE Restart
  BY CheckedType, <1>1 DEF Restart, Checked, SetIsDurable, StageInv, TypeOK, Jobs, vars, kept, clock, worker, calls
<1>2. ASSUME NEW c \in Callers, Request(c) PROVE SetIsDurable'
  BY <1>2 DEF Request, SetIsDurable, StageInv, TypeOK, Jobs, vars, kept, clock, worker, calls
<1>3. ASSUME NEW c \in Callers, Timeout(c) PROVE SetIsDurable'
  BY <1>3 DEF Timeout, Withdraw, Done, SetIsDurable, StageInv, TypeOK, Jobs, vars, kept, clock, worker, calls
<1>4. ASSUME NEW c \in Callers, Return(c) PROVE SetIsDurable'
  BY <1>4 DEF Return, Done, SetIsDurable, StageInv, TypeOK, Jobs, vars, kept, clock, worker, calls
<1>5. CASE Poll
  BY <1>5 DEF Poll, SetIsDurable, StageInv, TypeOK, Jobs, vars, kept, clock, worker, calls
<1>6. CASE Command
  BY <1>6 DEF Command, SetIsDurable, StageInv, TypeOK, Jobs, vars, kept, clock, worker, calls
<1>7. CASE WriteRtc
  BY <1>7 DEF WriteRtc, Invalidate, Leave, SetIsDurable, StageInv, TypeOK, Jobs, vars, kept, clock, worker, calls
<1>8. CASE StoreOffset
  BY <1>8 DEF StoreOffset, Stored, Leave, SetIsDurable, StageInv, TypeOK, Jobs, vars, kept, clock, worker, calls
<1>9. CASE SetSystem
  BY <1>9 DEF SetSystem, Leave, SetIsDurable, StageInv, TypeOK, Jobs, vars, kept, clock, worker, calls
<1>10. CASE Check
  BY <1>10 DEF Check, Invalidate, SetIsDurable, StageInv, TypeOK, Jobs, vars, kept, clock, worker, calls
<1>11. CASE Publish
  BY <1>11 DEF Publish, Release, SetIsDurable, StageInv, TypeOK, Jobs, vars, kept, clock, worker, calls
<1>12. CASE UNCHANGED vars
  BY <1>12 DEF SetIsDurable, StageInv, TypeOK, Jobs, vars, kept, clock, worker, calls
<1> QED
  BY <1>1, <1>2, <1>3, <1>4, <1>5, <1>6, <1>7, <1>8, <1>9, <1>10, <1>11, <1>12 DEF Next, MainStep

(* Every step of a set call adds what the next one relies on.               *)
LEMMA StageStep == ClockInv /\ [Next]_vars => StageInv'
<1> SUFFICES ASSUME ClockInv, [Next]_vars PROVE StageInv'
  OBVIOUS
<1> USE ClockAssumption DEF ClockInv
<1>1. CASE Restart
  BY CheckedType, <1>1 DEF Restart, Checked, StageInv, TypeOK, Jobs, Requests, NoJob, vars, kept, clock, worker, calls
<1>2. ASSUME NEW c \in Callers, Request(c) PROVE StageInv'
  BY <1>2 DEF Request, StageInv, TypeOK, Jobs, Requests, NoJob, vars, kept, clock, worker, calls
<1>3. ASSUME NEW c \in Callers, Timeout(c) PROVE StageInv'
  BY <1>3 DEF Timeout, Withdraw, Done, StageInv, TypeOK, Jobs, Requests, NoJob, vars, kept, clock, worker, calls
<1>4. ASSUME NEW c \in Callers, Return(c) PROVE StageInv'
  BY <1>4 DEF Return, Done, StageInv, TypeOK, Jobs, Requests, NoJob, vars, kept, clock, worker, calls
<1>5. CASE Poll
  BY <1>5 DEF Poll, StageInv, TypeOK, Jobs, Requests, NoJob, vars, kept, clock, worker, calls
<1>6. CASE Command
  BY <1>6 DEF Command, StageInv, TypeOK, Jobs, Requests, NoJob, vars, kept, clock, worker, calls
<1>7. CASE WriteRtc
  BY <1>7 DEF WriteRtc, Invalidate, Leave, StageInv, TypeOK, Jobs, Requests, NoJob, vars, kept, clock, worker, calls
<1>8. CASE StoreOffset
  BY <1>8 DEF StoreOffset, Stored, Leave, StageInv, TypeOK, Jobs, Requests, NoJob, vars, kept, clock, worker, calls
<1>9. CASE SetSystem
  BY <1>9 DEF SetSystem, Leave, StageInv, TypeOK, Jobs, Requests, NoJob, vars, kept, clock, worker, calls
<1>10. CASE Check
  BY <1>10 DEF Check, Invalidate, StageInv, TypeOK, Jobs, Requests, NoJob, vars, kept, clock, worker, calls
<1>11. CASE Publish
  BY <1>11 DEF Publish, Release, StageInv, TypeOK, Jobs, Requests, NoJob, vars, kept, clock, worker, calls
<1>12. CASE UNCHANGED vars
  BY <1>12 DEF StageInv, TypeOK, Jobs, Requests, NoJob, vars, kept, clock, worker, calls
<1> QED
  BY <1>1, <1>2, <1>3, <1>4, <1>5, <1>6, <1>7, <1>8, <1>9, <1>10, <1>11, <1>12 DEF Next, MainStep

(* Every step keeps a waiting caller pending, and its request its own.      *)
LEMMA CallStep == ClockInv /\ [Next]_vars => CallInv'
<1> SUFFICES ASSUME ClockInv, [Next]_vars PROVE CallInv'
  OBVIOUS
<1> USE ClockAssumption DEF ClockInv
<1>1. CASE Restart
  BY CheckedType, <1>1 DEF Restart, Checked, CallInv, WaiterIsPending, StageInv, TypeOK, Jobs, Requests, NoJob, NoRequest, vars, kept, clock, worker, calls
<1>2. ASSUME NEW c \in Callers, Request(c) PROVE CallInv'
  BY <1>2 DEF Request, CallInv, WaiterIsPending, StageInv, TypeOK, Jobs, Requests, NoJob, NoRequest, vars, kept, clock, worker, calls
<1>3. ASSUME NEW c \in Callers, Timeout(c) PROVE CallInv'
  BY <1>3 DEF Timeout, Withdraw, Done, CallInv, WaiterIsPending, StageInv, TypeOK, Jobs, Requests, NoJob, NoRequest, vars, kept, clock, worker, calls
<1>4. ASSUME NEW c \in Callers, Return(c) PROVE CallInv'
  BY <1>4 DEF Return, Done, CallInv, WaiterIsPending, StageInv, TypeOK, Jobs, Requests, NoJob, NoRequest, vars, kept, clock, worker, calls
<1>5. CASE Poll
  BY <1>5 DEF Poll, CallInv, WaiterIsPending, StageInv, TypeOK, Jobs, Requests, NoJob, NoRequest, vars, kept, clock, worker, calls
<1>6. CASE Command
  BY <1>6 DEF Command, CallInv, WaiterIsPending, StageInv, TypeOK, Jobs, Requests, NoJob, NoRequest, vars, kept, clock, worker, calls
<1>7. CASE WriteRtc
  BY <1>7 DEF WriteRtc, Invalidate, Leave, CallInv, WaiterIsPending, StageInv, TypeOK, Jobs, Requests, NoJob, NoRequest, vars, kept, clock, worker, calls
<1>8. CASE StoreOffset
  BY <1>8 DEF StoreOffset, Stored, Leave, CallInv, WaiterIsPending, StageInv, TypeOK, Jobs, Requests, NoJob, NoRequest, vars, kept, clock, worker, calls
<1>9. CASE SetSystem
  BY <1>9 DEF SetSystem, Leave, CallInv, WaiterIsPending, StageInv, TypeOK, Jobs, Requests, NoJob, NoRequest, vars, kept, clock, worker, calls
<1>10. CASE Check
  BY <1>10 DEF Check, Invalidate, CallInv, WaiterIsPending, StageInv, TypeOK, Jobs, Requests, NoJob, NoRequest, vars, kept, clock, worker, calls
<1>11. CASE Publish
  BY <1>11 DEF Publish, Release, CallInv, WaiterIsPending, StageInv, TypeOK, Jobs, Requests, NoJob, NoRequest, vars, kept, clock, worker, calls
<1>12. CASE UNCHANGED vars
  BY <1>12 DEF CallInv, WaiterIsPending, StageInv, TypeOK, Jobs, Requests, NoJob, NoRequest, vars, kept, clock, worker, calls
<1> QED
  BY <1>1, <1>2, <1>3, <1>4, <1>5, <1>6, <1>7, <1>8, <1>9, <1>10, <1>11, <1>12 DEF Next, MainStep

(* The invariant is inductive.                                              *)
LEMMA Invariance == Spec => []ClockInv
<1>1. ClockInv /\ [Next]_vars => ClockInv'
  BY TypeStep, DurableStep, StageStep, CallStep DEF ClockInv
<1> QED
  BY <1>1, InitInv, PTL DEF Spec

-----------------------------------------------------------------------------
(* Every reachable state has its types.                                     *)
THEOREM TypeCorrect == Spec => []TypeOK
<1>1. ClockInv => TypeOK
  BY DEF ClockInv
<1> QED
  BY <1>1, Invariance, PTL

(* A clock that was set is what a restart will find, for any callers.       *)
THEOREM Durable == Spec => []SetIsDurable
<1>1. ClockInv => SetIsDurable
  BY DEF ClockInv
<1> QED
  BY <1>1, Invariance, PTL

(* A caller waits exactly while its request is pending: none is lost, and   *)
(* none is served after it was withdrawn.                                   *)
THEOREM NoLostRequest == Spec => []WaiterIsPending
<1>1. ClockInv => WaiterIsPending
  BY DEF ClockInv, CallInv
<1> QED
  BY <1>1, Invariance, PTL

(* A caller told "ok" finds its own time and offset set.                    *)
THEOREM TrueAnswer == Spec => AnswerTruth
<1> DEFINE Truth ==
      \A c \in Callers : phase[c] = "waiting" /\ phase'[c] = "ok" =>
        /\ source' = "phone"
        /\ rtc' = req[c].time /\ sys' = req[c].time
        /\ nvs' = req[c].offset /\ offset' = req[c].offset
<1>1. ClockInv /\ [Next]_vars => [Truth]_vars
  <2> SUFFICES ASSUME ClockInv, [Next]_vars,
                      NEW c \in Callers, phase[c] = "waiting", phase'[c] = "ok"
               PROVE  /\ source' = "phone"
                      /\ rtc' = req[c].time /\ sys' = req[c].time
                      /\ nvs' = req[c].offset /\ offset' = req[c].offset
    OBVIOUS
  <2>1. phase' # phase
    OBVIOUS
  <2>2. Publish /\ job.from = c /\ good
    BY <2>1 DEF ClockInv, TypeOK, Next, MainStep, Restart, Request, Timeout, Return,
       Done, Poll, Command, WriteRtc, StoreOffset, SetSystem, Check, Publish,
       vars, calls
  <2> QED
    BY <2>2 DEF ClockInv, StageInv, SetIsDurable, CallInv, Publish, kept, clock
<1>2. Spec => [][Truth]_vars
  BY <1>1, Invariance, PTL DEF Spec
<1> QED
  BY <1>2 DEF AnswerTruth

-----------------------------------------------------------------------------
(* The installer page.                                                      *)

(* Which steps an operation takes, and the badge and the copy it has.       *)
PlanInv ==
  /\ op = "none" <=> step = "rest"
  /\ op = "save" <=> step = "save"
  /\ step \in {"connect", "inspect"} => op \in {"update", "prepare", "first", "finish"}
  /\ step = "backup" => op = "prepare"
  /\ step = "write" => op \in {"update", "first"}
  /\ op = "prepare" => step \in {"connect", "inspect", "backup"}
  /\ step \in {"init", "confirm"} => op \in {"first", "finish"}
  /\ op # "none" \/ backup # NoImage => port \in Badges
  /\ op \in {"save", "first"} => backup # NoImage
  /\ backup # NoImage => op \in {"none", "save", "first"}

(* A copy that counts as saved is on the computer, and the first install    *)
(* has one.                                                                 *)
CopyInv ==
  /\ saved => backup # NoImage /\ <<port, backup.data>> \in files
  /\ op = "first" => saved

(* What a write may find.  As long as the loader runs, nobody else changes  *)
(* the badge, so one not touched yet is what the copy says.                 *)
FlashInv ==
  /\ \A b \in Badges : flash[b].table = "factory" => flash[b].data \in {"v0", "v1"}
  /\ step = "write" /\ op = "update" => flash[port].table # "factory"
  /\ step = "write" /\ op = "first" =>
       /\ flash[port].data # "profile"
       /\ flash[port].app = "torn" \/ flash[port].table = "factory"
       /\ port \in stub /\ Original(flash[port]) => flash[port] = backup

(* The page has taken note of whatever it did to the badge.                 *)
NoteInv ==
  /\ touched /\ op # "none" => wrote
  /\ op \in {"prepare", "save"} => ~touched
  /\ step \in {"connect", "inspect"} => ~touched
  /\ step = "write" => wrote
  /\ step \in Commands \cup {"open"} /\ op # "clock" => wrote

(* An answer is to the request under way, and still true when it is read.   *)
AnswerInv ==
  /\ reply.op = "none" => ~reply.ready
  /\ reply.op # "none" => reply.op = step
  /\ step = "set" /\ reply.op = "set" =>
       <<port, "set">> \notin cmds /\ (reply.ok => port \in timed)
  /\ step \in {"check", "status", "init", "confirm"} =>
       <<port, "set">> \notin cmds /\ port \in timed
  /\ reply.ok /\ reply.op \in {"status", "confirm"} => flash[port].app = "release"
  /\ reply.ready => Mountable(flash[port])

(* A confirmation is there until the command it was for has gone out.       *)
GrantInv ==
  /\ op \in {"first", "finish"} /\ step \notin {"init", "confirm"} => granted
  /\ step = "init" /\ ~asked => granted

PageInv == /\ PageTypeOK /\ PlanInv /\ CopyInv /\ FlashInv /\ NoteInv /\ AnswerInv
        /\ GrantInv


(* The operations and where they begin, and the answer before any answer.   *)
LEMMA Operations ==
  /\ DOMAIN Begins = {"update", "prepare", "save", "first", "finish", "clock"}
  /\ Begins["update"] = "connect" /\ Begins["prepare"] = "connect"
  /\ Begins["save"] = "save" /\ Begins["first"] = "inspect"
  /\ Begins["finish"] = "connect" /\ Begins["clock"] = "open"
BY DEF Begins

LEMMA Silence ==
  /\ NoReply \in [op : Commands \cup {"none"}, ok : BOOLEAN, ready : BOOLEAN]
  /\ NoReply.op = "none" /\ ~NoReply.ok /\ ~NoReply.ready
BY DEF NoReply

(* A write is torn until it is done, and loses data only in a first install *)
(* of a badge that is no longer the vendor's.                               *)
LEMMA Progresses ==
  ASSUME NEW image \in Images
  PROVE  /\ Progress(image) \in Images
         /\ Progress(image).app \in {"torn", "release"}
         /\ Progress(image).table = "factory" =>
              image.table = "factory" /\ Progress(image).data = image.data
         /\ Progress(image).data # image.data =>
              op = "first" /\ image.table = "torn" /\ Progress(image).data = "lost"
         /\ image.app # "torn" => Progress(image).app = "torn"
<1>1. CASE image.app # "torn"
  <2>1. Progress(image) = [image EXCEPT !.app = "torn"]
    BY <1>1 DEF Progress
  <2> QED  BY <2>1 DEF Images
<1>2. CASE image.app = "torn" /\ image.table = "factory"
  BY <1>2 DEF Progress, Images
<1>3. CASE image.app = "torn" /\ image.table = "torn" /\ op = "first"
  BY <1>3 DEF Progress, Images
<1>4. CASE image.app = "torn" /\ image.table # "factory"
           /\ ~(image.table = "torn" /\ op = "first")
  BY <1>4 DEF Progress, Images
<1> QED  BY <1>1, <1>2, <1>3, <1>4 DEF Images

(* Preparing storage keeps what can be mounted.                             *)
LEMMA Preparing ==
  ASSUME NEW image \in Images
  PROVE  /\ Prepared(image) \in Images /\ Mountable(Prepared(image))
         /\ Prepared(image).app = image.app /\ Prepared(image).table = image.table
         /\ Prepared(image).data \in {image.data, "empty"}
         /\ Mountable(image) => Prepared(image) = image
BY DEF Prepared, Mountable, Images

-----------------------------------------------------------------------------
(* Each action keeps the invariant *)

LEMMA BeginKeeps == ASSUME NEW o \in DOMAIN Begins, PageInv, Begin(o) PROVE PageInv'
<1>1. PageTypeOK'
  <2>1. (/\ flash \in [Badges -> Images] /\ timed \subseteq Badges /\ stub \subseteq Badges
         /\ plugged \in Badges \cup {NoBadge})'
    BY Operations DEF PageInv, PageTypeOK, PlanInv, Begin, device, line, Commands,
       Steps
  <2>2. (/\ cmds \subseteq Badges \X Commands
         /\ reply \in [op : Commands \cup {"none"}, ok : BOOLEAN, ready : BOOLEAN])'
    BY Operations DEF PageInv, PageTypeOK, PlanInv, Begin, device, line, Commands,
       Steps
  <2>3. (/\ op \in DOMAIN Begins \cup {"none"} /\ step \in Steps
         /\ said \in {"idle", "working", "nothing", "stopped", "attention", "ready"})'
    BY Operations DEF PageInv, PageTypeOK, PlanInv, Begin, device, line, Commands,
       Steps
  <2>4. (/\ port \in Badges \cup {NoBadge} /\ backup \in Images \cup {NoImage}
         /\ files \subseteq Badges \X {"v0", "v1", "lost", "empty", "profile"})'
    BY Operations DEF PageInv, PageTypeOK, PlanInv, Begin, device, line, Commands,
       Steps
  <2>5. (/\ linked \in BOOLEAN /\ saved \in BOOLEAN /\ wrote \in BOOLEAN
         /\ asked \in BOOLEAN
         /\ touched \in BOOLEAN)'
    BY Operations DEF PageInv, PageTypeOK, PlanInv, Begin, device, line, Commands,
       Steps
  <2>6. (granted \in BOOLEAN)'
    BY Operations DEF PageInv, PageTypeOK, PlanInv, Begin, device, line, Commands,
       Steps
  <2> QED  BY <2>1, <2>2, <2>3, <2>4, <2>5, <2>6 DEF PageTypeOK
<1>2. PlanInv'
  BY Operations DEF PageInv, PageTypeOK, PlanInv, Begin, device, line, Commands
<1>3. CopyInv'
  BY Operations DEF PageInv, PageTypeOK, CopyInv, PlanInv, Begin, device, line
<1>4. FlashInv'
  BY Operations DEF PageInv, PageTypeOK, FlashInv, PlanInv, Begin, device, line,
     Commands, Original, Images
<1>5. NoteInv'
  BY Operations DEF PageInv, PageTypeOK, NoteInv, PlanInv, Begin, device, line,
     Commands
<1>6. AnswerInv'
  BY Operations DEF PageInv, PageTypeOK, AnswerInv, PlanInv, Begin, device, line,
     Commands, Mountable, Images
<1>7. GrantInv'
  BY Operations DEF PageInv, PageTypeOK, GrantInv, PlanInv, Begin, device, line,
     Commands
<1> QED  BY <1>1, <1>2, <1>3, <1>4, <1>5, <1>6, <1>7 DEF PageInv

LEMMA FailKeeps == ASSUME PageInv, Fail PROVE PageInv'
<1>1. PageTypeOK'
  BY Silence DEF PageInv, PageTypeOK, PlanInv, Fail, End, Boot, Loading, Commands,
     Steps
<1>2. PlanInv'
  BY Silence DEF PageInv, PageTypeOK, PlanInv, Fail, End, Boot, Loading, Commands
<1>3. CopyInv'
  BY Silence DEF PageInv, PageTypeOK, CopyInv, PlanInv, Fail, End, Boot, Loading,
     Commands
<1>4. FlashInv'
  BY Silence DEF PageInv, PageTypeOK, FlashInv, PlanInv, Fail, End, Boot, Loading,
     Commands, Original, Images
<1>5. NoteInv'
  BY Silence DEF PageInv, PageTypeOK, NoteInv, PlanInv, Fail, End, Boot, Loading,
     Commands
<1>6. AnswerInv'
  BY Silence DEF PageInv, PageTypeOK, AnswerInv, PlanInv, Fail, End, Boot, Loading,
     Commands, Mountable, Images
<1>7. GrantInv'
  BY Silence DEF PageInv, PageTypeOK, GrantInv, PlanInv, Fail, End, Boot, Loading,
     Commands
<1> QED  BY <1>1, <1>2, <1>3, <1>4, <1>5, <1>6, <1>7 DEF PageInv

LEMMA CancelKeeps == ASSUME PageInv, Cancel PROVE PageInv'
<1>1. PageTypeOK'
  BY Silence DEF PageInv, PageTypeOK, PlanInv, Cancel, End, Boot, Loading, Commands,
     Steps
<1>2. PlanInv'
  BY Silence DEF PageInv, PageTypeOK, PlanInv, Cancel, End, Boot, Loading, Commands
<1>3. CopyInv'
  BY Silence DEF PageInv, PageTypeOK, CopyInv, PlanInv, Cancel, End, Boot, Loading,
     Commands
<1>4. FlashInv'
  BY Silence DEF PageInv, PageTypeOK, FlashInv, PlanInv, Cancel, End, Boot, Loading,
     Commands, Original, Images
<1>5. NoteInv'
  BY Silence DEF PageInv, PageTypeOK, NoteInv, PlanInv, Cancel, End, Boot, Loading,
     Commands
<1>6. AnswerInv'
  BY Silence DEF PageInv, PageTypeOK, AnswerInv, PlanInv, Cancel, End, Boot, Loading,
     Commands, Mountable, Images
<1>7. GrantInv'
  BY Silence DEF PageInv, PageTypeOK, GrantInv, PlanInv, Cancel, End, Boot, Loading,
     Commands
<1> QED  BY <1>1, <1>2, <1>3, <1>4, <1>5, <1>6, <1>7 DEF PageInv

LEMMA ReloadKeeps == ASSUME PageInv, Reload PROVE PageInv'
<1>1. PageTypeOK'
  BY Silence DEF PageInv, PageTypeOK, PlanInv, Reload, device, Commands, Steps
<1>2. PlanInv'
  BY Silence DEF PageInv, PageTypeOK, PlanInv, Reload, device, Commands
<1>3. CopyInv'
  BY Silence DEF PageInv, PageTypeOK, CopyInv, PlanInv, Reload, device
<1>4. FlashInv'
  BY Silence DEF PageInv, PageTypeOK, FlashInv, PlanInv, Reload, device, Commands,
     Original, Images
<1>5. NoteInv'
  BY Silence DEF PageInv, PageTypeOK, NoteInv, PlanInv, Reload, device, Commands
<1>6. AnswerInv'
  BY Silence DEF PageInv, PageTypeOK, AnswerInv, PlanInv, Reload, device, Commands,
     Mountable, Images
<1>7. GrantInv'
  BY Silence DEF PageInv, PageTypeOK, GrantInv, PlanInv, Reload, device, Commands
<1> QED  BY <1>1, <1>2, <1>3, <1>4, <1>5, <1>6, <1>7 DEF PageInv

LEMMA ConnectKeeps == ASSUME PageInv, Connect PROVE PageInv'
<1>1. PageTypeOK'
  BY DEF PageInv, PageTypeOK, PlanInv, Connect, Go, Then, history, Commands, Steps
<1>2. PlanInv'
  BY DEF PageInv, PageTypeOK, PlanInv, Connect, Go, Then, history, Commands
<1>3. CopyInv'
  BY DEF PageInv, PageTypeOK, CopyInv, PlanInv, Connect, Go, Then, history
<1>4. FlashInv'
  BY DEF PageInv, PageTypeOK, FlashInv, PlanInv, Connect, Go, Then, history, Commands,
     Original, Images
<1>5. NoteInv'
  BY DEF PageInv, PageTypeOK, NoteInv, PlanInv, Connect, Go, Then, history, Commands
<1>6. AnswerInv'
  BY DEF PageInv, PageTypeOK, AnswerInv, PlanInv, Connect, Go, Then, history, Commands,
     Mountable, Images
<1>7. GrantInv'
  BY DEF PageInv, PageTypeOK, GrantInv, PlanInv, Connect, Go, Then, history, Commands
<1> QED  BY <1>1, <1>2, <1>3, <1>4, <1>5, <1>6, <1>7 DEF PageInv

LEMMA InspectKeeps == ASSUME PageInv, Inspect PROVE PageInv'
<1>1. PageTypeOK'
  BY DEF PageInv, PageTypeOK, PlanInv, Inspect, Go, Then, Loading, Noted, Suits,
     Commands, device, line, history, Steps
<1>2. PlanInv'
  BY DEF PageInv, PageTypeOK, PlanInv, Inspect, Go, Then, Loading, Noted, Suits,
     Commands, device, line, history
<1>3. CopyInv'
  BY DEF PageInv, PageTypeOK, CopyInv, PlanInv, Inspect, Go, Then, Loading, Noted,
     Suits, Commands, device, line, history
<1>4. FlashInv'
  BY DEF PageInv, PageTypeOK, FlashInv, PlanInv, Inspect, Go, Then, Loading, Noted,
     Suits, Commands, device, line, history, Original, Images
<1>5. NoteInv'
  BY DEF PageInv, PageTypeOK, NoteInv, PlanInv, Inspect, Go, Then, Loading, Noted,
     Suits, Commands, device, line, history
<1>6. AnswerInv'
  BY DEF PageInv, PageTypeOK, AnswerInv, PlanInv, Inspect, Go, Then, Loading, Noted,
     Suits, Commands, device, line, history, Mountable, Images
<1>7. GrantInv'
  BY DEF PageInv, PageTypeOK, GrantInv, PlanInv, Inspect, Go, Then, Loading, Noted,
     Suits, Commands, device, line, history
<1> QED  BY <1>1, <1>2, <1>3, <1>4, <1>5, <1>6, <1>7 DEF PageInv

LEMMA BackupKeeps == ASSUME PageInv, Backup PROVE PageInv'
<1>1. PageTypeOK'
  BY DEF PageInv, PageTypeOK, PlanInv, Backup, Loading, Commands, device, line,
     history, Steps
<1>2. PlanInv'
  BY DEF PageInv, PageTypeOK, PlanInv, Backup, Loading, Commands, device, line, history
<1>3. CopyInv'
  BY DEF PageInv, PageTypeOK, CopyInv, PlanInv, Backup, Loading, Commands, device,
     line, history
<1>4. FlashInv'
  BY DEF PageInv, PageTypeOK, FlashInv, PlanInv, Backup, Loading, Commands, device,
     line, history, Original, Images
<1>5. NoteInv'
  BY DEF PageInv, PageTypeOK, NoteInv, PlanInv, Backup, Loading, Commands, device,
     line, history
<1>6. AnswerInv'
  BY DEF PageInv, PageTypeOK, AnswerInv, PlanInv, Backup, Loading, Commands, device,
     line, history, Mountable, Images
<1>7. GrantInv'
  BY DEF PageInv, PageTypeOK, GrantInv, PlanInv, Backup, Loading, Commands, device,
     line, history
<1> QED  BY <1>1, <1>2, <1>3, <1>4, <1>5, <1>6, <1>7 DEF PageInv

LEMMA SaveKeeps == ASSUME PageInv, Save PROVE PageInv'
<1>1. PageTypeOK'
  <2>1. (/\ flash \in [Badges -> Images] /\ timed \subseteq Badges /\ stub \subseteq Badges
         /\ plugged \in Badges \cup {NoBadge})'
    BY DEF PageInv, PageTypeOK, PlanInv, Save, device, line, history, Commands, Steps,
       Images
  <2>2. (/\ cmds \subseteq Badges \X Commands
         /\ reply \in [op : Commands \cup {"none"}, ok : BOOLEAN, ready : BOOLEAN])'
    BY DEF PageInv, PageTypeOK, PlanInv, Save, device, line, history, Commands, Steps,
       Images
  <2>3. (/\ op \in DOMAIN Begins \cup {"none"} /\ step \in Steps
         /\ said \in {"idle", "working", "nothing", "stopped", "attention", "ready"})'
    BY DEF PageInv, PageTypeOK, PlanInv, Save, device, line, history, Commands, Steps,
       Images
  <2>4. (/\ port \in Badges \cup {NoBadge} /\ backup \in Images \cup {NoImage}
         /\ files \subseteq Badges \X {"v0", "v1", "lost", "empty", "profile"})'
    BY DEF PageInv, PageTypeOK, PlanInv, Save, device, line, history, Commands, Steps,
       Images
  <2>5. (/\ linked \in BOOLEAN /\ saved \in BOOLEAN /\ wrote \in BOOLEAN
         /\ asked \in BOOLEAN
         /\ touched \in BOOLEAN)'
    BY DEF PageInv, PageTypeOK, PlanInv, Save, device, line, history, Commands, Steps,
       Images
  <2>6. (granted \in BOOLEAN)'
    BY DEF PageInv, PageTypeOK, PlanInv, Save, device, line, history, Commands, Steps,
       Images
  <2> QED  BY <2>1, <2>2, <2>3, <2>4, <2>5, <2>6 DEF PageTypeOK
<1>2. PlanInv'
  BY DEF PageInv, PageTypeOK, PlanInv, Save, device, line, history, Commands
<1>3. CopyInv'
  BY DEF PageInv, PageTypeOK, CopyInv, PlanInv, Save, device, line, history
<1>4. FlashInv'
  BY DEF PageInv, PageTypeOK, FlashInv, PlanInv, Save, device, line, history, Commands,
     Original, Images
<1>5. NoteInv'
  BY DEF PageInv, PageTypeOK, NoteInv, PlanInv, Save, device, line, history, Commands
<1>6. AnswerInv'
  BY DEF PageInv, PageTypeOK, AnswerInv, PlanInv, Save, device, line, history,
     Commands, Mountable, Images
<1>7. GrantInv'
  BY DEF PageInv, PageTypeOK, GrantInv, PlanInv, Save, device, line, history, Commands
<1> QED  BY <1>1, <1>2, <1>3, <1>4, <1>5, <1>6, <1>7 DEF PageInv

LEMMA WriteKeeps == ASSUME PageInv, Write PROVE PageInv'
<1>1. PageTypeOK'
  BY Progresses DEF PageInv, PageTypeOK, PlanInv, Write, Go, Then, Loading, Commands,
     line, page, session, Steps
<1>2. PlanInv'
  BY Progresses DEF PageInv, PageTypeOK, PlanInv, Write, Go, Then, Loading, Commands,
     line, page, session
<1>3. CopyInv'
  BY Progresses DEF PageInv, PageTypeOK, CopyInv, PlanInv, Write, Go, Then, Loading,
     Commands, line, page, session
<1>4. FlashInv'
  BY Progresses DEF PageInv, PageTypeOK, FlashInv, PlanInv, Write, Go, Then, Loading,
     Commands, line, page, session, Original, Images
<1>5. NoteInv'
  BY Progresses DEF PageInv, PageTypeOK, NoteInv, PlanInv, Write, Go, Then, Loading,
     Commands, line, page, session
<1>6. AnswerInv'
  BY Progresses DEF PageInv, PageTypeOK, AnswerInv, PlanInv, Write, Go, Then, Loading,
     Commands, line, page, session, Mountable, Images
<1>7. GrantInv'
  BY Progresses DEF PageInv, PageTypeOK, GrantInv, PlanInv, Write, Go, Then, Loading,
     Commands, line, page, session
<1> QED  BY <1>1, <1>2, <1>3, <1>4, <1>5, <1>6, <1>7 DEF PageInv

LEMMA RestartBadgeKeeps == ASSUME PageInv, RestartBadge PROVE PageInv'
<1>1. PageTypeOK'
  <2>1. (/\ flash \in [Badges -> Images] /\ timed \subseteq Badges /\ stub \subseteq Badges
         /\ plugged \in Badges \cup {NoBadge})'
    BY DEF PageInv, PageTypeOK, PlanInv, RestartBadge, Boot, Go, Then, Loading, Commands,
       history, Steps
  <2>2. (/\ cmds \subseteq Badges \X Commands
         /\ reply \in [op : Commands \cup {"none"}, ok : BOOLEAN, ready : BOOLEAN])'
    BY DEF PageInv, PageTypeOK, PlanInv, RestartBadge, Boot, Go, Then, Loading, Commands,
       history, Steps
  <2>3. (/\ op \in DOMAIN Begins \cup {"none"} /\ step \in Steps
         /\ said \in {"idle", "working", "nothing", "stopped", "attention", "ready"})'
    BY DEF PageInv, PageTypeOK, PlanInv, RestartBadge, Boot, Go, Then, Loading, Commands,
       history, Steps
  <2>4. (/\ port \in Badges \cup {NoBadge} /\ backup \in Images \cup {NoImage}
         /\ files \subseteq Badges \X {"v0", "v1", "lost", "empty", "profile"})'
    BY DEF PageInv, PageTypeOK, PlanInv, RestartBadge, Boot, Go, Then, Loading, Commands,
       history, Steps
  <2>5. (/\ linked \in BOOLEAN /\ saved \in BOOLEAN /\ wrote \in BOOLEAN
         /\ asked \in BOOLEAN
         /\ touched \in BOOLEAN)'
    BY DEF PageInv, PageTypeOK, PlanInv, RestartBadge, Boot, Go, Then, Loading, Commands,
       history, Steps
  <2>6. (granted \in BOOLEAN)'
    BY DEF PageInv, PageTypeOK, PlanInv, RestartBadge, Boot, Go, Then, Loading, Commands,
       history, Steps
  <2> QED  BY <2>1, <2>2, <2>3, <2>4, <2>5, <2>6 DEF PageTypeOK
<1>2. PlanInv'
  BY DEF PageInv, PageTypeOK, PlanInv, RestartBadge, Boot, Go, Then, Loading, Commands,
     history
<1>3. CopyInv'
  BY DEF PageInv, PageTypeOK, CopyInv, PlanInv, RestartBadge, Boot, Go, Then, Loading,
     Commands, history
<1>4. FlashInv'
  BY DEF PageInv, PageTypeOK, FlashInv, PlanInv, RestartBadge, Boot, Go, Then, Loading,
     Commands, history, Original, Images
<1>5. NoteInv'
  BY DEF PageInv, PageTypeOK, NoteInv, PlanInv, RestartBadge, Boot, Go, Then, Loading,
     Commands, history
<1>6. AnswerInv'
  BY DEF PageInv, PageTypeOK, AnswerInv, PlanInv, RestartBadge, Boot, Go, Then, Loading,
     Commands, history, Mountable, Images
<1>7. GrantInv'
  BY DEF PageInv, PageTypeOK, GrantInv, PlanInv, RestartBadge, Boot, Go, Then, Loading,
     Commands, history
<1> QED  BY <1>1, <1>2, <1>3, <1>4, <1>5, <1>6, <1>7 DEF PageInv

LEMMA OpenKeeps == ASSUME PageInv, Open PROVE PageInv'
<1>1. PageTypeOK'
  <2>1. (/\ flash \in [Badges -> Images] /\ timed \subseteq Badges /\ stub \subseteq Badges
         /\ plugged \in Badges \cup {NoBadge})'
    BY Silence DEF PageInv, PageTypeOK, PlanInv, Open, Go, Then, device, history,
       Commands, Steps
  <2>2. (/\ cmds \subseteq Badges \X Commands
         /\ reply \in [op : Commands \cup {"none"}, ok : BOOLEAN, ready : BOOLEAN])'
    BY Silence DEF PageInv, PageTypeOK, PlanInv, Open, Go, Then, device, history,
       Commands, Steps
  <2>3. (/\ op \in DOMAIN Begins \cup {"none"} /\ step \in Steps
         /\ said \in {"idle", "working", "nothing", "stopped", "attention", "ready"})'
    BY Silence DEF PageInv, PageTypeOK, PlanInv, Open, Go, Then, device, history,
       Commands, Steps
  <2>4. (/\ port \in Badges \cup {NoBadge} /\ backup \in Images \cup {NoImage}
         /\ files \subseteq Badges \X {"v0", "v1", "lost", "empty", "profile"})'
    BY Silence DEF PageInv, PageTypeOK, PlanInv, Open, Go, Then, device, history,
       Commands, Steps
  <2>5. (/\ linked \in BOOLEAN /\ saved \in BOOLEAN /\ wrote \in BOOLEAN
         /\ asked \in BOOLEAN
         /\ touched \in BOOLEAN)'
    BY Silence DEF PageInv, PageTypeOK, PlanInv, Open, Go, Then, device, history,
       Commands, Steps
  <2>6. (granted \in BOOLEAN)'
    BY Silence DEF PageInv, PageTypeOK, PlanInv, Open, Go, Then, device, history,
       Commands, Steps
  <2> QED  BY <2>1, <2>2, <2>3, <2>4, <2>5, <2>6 DEF PageTypeOK
<1>2. PlanInv'
  BY Silence DEF PageInv, PageTypeOK, PlanInv, Open, Go, Then, device, history,
     Commands
<1>3. CopyInv'
  BY Silence DEF PageInv, PageTypeOK, CopyInv, PlanInv, Open, Go, Then, device, history
<1>4. FlashInv'
  BY Silence DEF PageInv, PageTypeOK, FlashInv, PlanInv, Open, Go, Then, device,
     history, Commands, Original, Images
<1>5. NoteInv'
  BY Silence DEF PageInv, PageTypeOK, NoteInv, PlanInv, Open, Go, Then, device,
     history, Commands
<1>6. AnswerInv'
  BY Silence DEF PageInv, PageTypeOK, AnswerInv, PlanInv, Open, Go, Then, device,
     history, Commands, Mountable, Images
<1>7. GrantInv'
  BY Silence DEF PageInv, PageTypeOK, GrantInv, PlanInv, Open, Go, Then, device,
     history, Commands
<1> QED  BY <1>1, <1>2, <1>3, <1>4, <1>5, <1>6, <1>7 DEF PageInv

LEMMA AskKeeps == ASSUME PageInv, Ask PROVE PageInv'
<1>1. PageTypeOK'
  BY Silence DEF PageInv, PageTypeOK, PlanInv, Ask, Commands, device, page, Steps
<1>2. PlanInv'
  BY Silence DEF PageInv, PageTypeOK, PlanInv, Ask, Commands, device, page
<1>3. CopyInv'
  BY Silence DEF PageInv, PageTypeOK, CopyInv, PlanInv, Ask, Commands, device, page
<1>4. FlashInv'
  BY Silence DEF PageInv, PageTypeOK, FlashInv, PlanInv, Ask, Commands, device, page,
     Original, Images
<1>5. NoteInv'
  BY Silence DEF PageInv, PageTypeOK, NoteInv, PlanInv, Ask, Commands, device, page
<1>6. AnswerInv'
  BY Silence DEF PageInv, PageTypeOK, AnswerInv, PlanInv, Ask, Commands, device, page,
     Mountable, Images
<1>7. GrantInv'
  BY Silence DEF PageInv, PageTypeOK, GrantInv, PlanInv, Ask, Commands, device, page
<1> QED  BY <1>1, <1>2, <1>3, <1>4, <1>5, <1>6, <1>7 DEF PageInv

LEMMA AgainKeeps == ASSUME PageInv, Again PROVE PageInv'
<1>1. PageTypeOK'
  <2>1. (/\ flash \in [Badges -> Images] /\ timed \subseteq Badges /\ stub \subseteq Badges
         /\ plugged \in Badges \cup {NoBadge})'
    BY DEF PageInv, PageTypeOK, PlanInv, Again, Retry, Commands, device, line, page,
       history, Steps
  <2>2. (/\ cmds \subseteq Badges \X Commands
         /\ reply \in [op : Commands \cup {"none"}, ok : BOOLEAN, ready : BOOLEAN])'
    BY DEF PageInv, PageTypeOK, PlanInv, Again, Retry, Commands, device, line, page,
       history, Steps
  <2>3. (/\ op \in DOMAIN Begins \cup {"none"} /\ step \in Steps
         /\ said \in {"idle", "working", "nothing", "stopped", "attention", "ready"})'
    BY DEF PageInv, PageTypeOK, PlanInv, Again, Retry, Commands, device, line, page,
       history, Steps
  <2>4. (/\ port \in Badges \cup {NoBadge} /\ backup \in Images \cup {NoImage}
         /\ files \subseteq Badges \X {"v0", "v1", "lost", "empty", "profile"})'
    BY DEF PageInv, PageTypeOK, PlanInv, Again, Retry, Commands, device, line, page,
       history, Steps
  <2>5. (/\ linked \in BOOLEAN /\ saved \in BOOLEAN /\ wrote \in BOOLEAN
         /\ asked \in BOOLEAN
         /\ touched \in BOOLEAN)'
    BY DEF PageInv, PageTypeOK, PlanInv, Again, Retry, Commands, device, line, page,
       history, Steps
  <2>6. (granted \in BOOLEAN)'
    BY DEF PageInv, PageTypeOK, PlanInv, Again, Retry, Commands, device, line, page,
       history, Steps
  <2> QED  BY <2>1, <2>2, <2>3, <2>4, <2>5, <2>6 DEF PageTypeOK
<1>2. PlanInv'
  BY DEF PageInv, PageTypeOK, PlanInv, Again, Retry, Commands, device, line, page,
     history
<1>3. CopyInv'
  BY DEF PageInv, PageTypeOK, CopyInv, PlanInv, Again, Retry, Commands, device, line,
     page, history
<1>4. FlashInv'
  BY DEF PageInv, PageTypeOK, FlashInv, PlanInv, Again, Retry, Commands, device, line,
     page, history, Original, Images
<1>5. NoteInv'
  BY DEF PageInv, PageTypeOK, NoteInv, PlanInv, Again, Retry, Commands, device, line,
     page, history
<1>6. AnswerInv'
  BY DEF PageInv, PageTypeOK, AnswerInv, PlanInv, Again, Retry, Commands, device, line,
     page, history, Mountable, Images
<1>7. GrantInv'
  BY DEF PageInv, PageTypeOK, GrantInv, PlanInv, Again, Retry, Commands, device, line,
     page, history
<1> QED  BY <1>1, <1>2, <1>3, <1>4, <1>5, <1>6, <1>7 DEF PageInv

LEMMA AnswerKeeps == ASSUME PageInv, Answer PROVE PageInv'
<1>1. PageTypeOK'
  <2>1. (/\ flash \in [Badges -> Images] /\ timed \subseteq Badges /\ stub \subseteq Badges
         /\ plugged \in Badges \cup {NoBadge})'
    BY Silence DEF PageInv, PageTypeOK, PlanInv, Answer, End, Boot, Go, Then, Loading,
       Initializes, Commands, device, history, Steps
  <2>2. (/\ cmds \subseteq Badges \X Commands
         /\ reply \in [op : Commands \cup {"none"}, ok : BOOLEAN, ready : BOOLEAN])'
    BY Silence DEF PageInv, PageTypeOK, PlanInv, Answer, End, Boot, Go, Then, Loading,
       Initializes, Commands, device, history, Steps
  <2>3. (/\ op \in DOMAIN Begins \cup {"none"} /\ step \in Steps
         /\ said \in {"idle", "working", "nothing", "stopped", "attention", "ready"})'
    BY Silence DEF PageInv, PageTypeOK, PlanInv, Answer, End, Boot, Go, Then, Loading,
       Initializes, Commands, device, history, Steps
  <2>4. (/\ port \in Badges \cup {NoBadge} /\ backup \in Images \cup {NoImage}
         /\ files \subseteq Badges \X {"v0", "v1", "lost", "empty", "profile"})'
    BY Silence DEF PageInv, PageTypeOK, PlanInv, Answer, End, Boot, Go, Then, Loading,
       Initializes, Commands, device, history, Steps
  <2>5. (/\ linked \in BOOLEAN /\ saved \in BOOLEAN /\ wrote \in BOOLEAN
         /\ asked \in BOOLEAN
         /\ touched \in BOOLEAN)'
    BY Silence DEF PageInv, PageTypeOK, PlanInv, Answer, End, Boot, Go, Then, Loading,
       Initializes, Commands, device, history, Steps
  <2>6. (granted \in BOOLEAN)'
    BY Silence DEF PageInv, PageTypeOK, PlanInv, Answer, End, Boot, Go, Then, Loading,
       Initializes, Commands, device, history, Steps
  <2> QED  BY <2>1, <2>2, <2>3, <2>4, <2>5, <2>6 DEF PageTypeOK
<1>2. PlanInv'
  BY Silence DEF PageInv, PageTypeOK, PlanInv, Answer, End, Boot, Go, Then, Loading,
     Initializes, Commands, device, history
<1>3. CopyInv'
  <2>1. CASE End("ready")
    BY <2>1, Silence DEF PageInv, PageTypeOK, CopyInv, PlanInv, Answer, End, Boot, Go,
       Then, Loading, Initializes, Commands, device, history
  <2>2. CASE UNCHANGED <<op, port, backup, saved, files>>
    BY <2>2 DEF PageInv, CopyInv
  <2> QED  BY <2>1, <2>2 DEF Answer, Go
<1>4. FlashInv'
  BY Silence DEF PageInv, PageTypeOK, FlashInv, PlanInv, Answer, End, Boot, Go, Then,
     Loading, Initializes, Commands, device, history, Original, Images
<1>5. NoteInv'
  BY Silence DEF PageInv, PageTypeOK, NoteInv, PlanInv, Answer, End, Boot, Go, Then,
     Loading, Initializes, Commands, device, history
<1>6. AnswerInv'
  <2>1. CASE reply' = NoReply /\ step' = "rest"
    BY <2>1, Silence DEF PageInv, PageTypeOK, AnswerInv, PlanInv, Answer, End, Boot,
       Go, Then, Loading, Initializes, Commands, device, history, Mountable,
       Images
  <2>2. CASE reply' = NoReply /\ step' = Then(step) /\ step # "confirm"
            /\ UNCHANGED <<device, cmds, port, op>>
    <3>1. CASE step = "set"
      BY <2>2, <3>1, Silence DEF PageInv, PageTypeOK, AnswerInv, PlanInv, Answer, End,
         Boot, Go, Then, Loading, Initializes, Commands, device, history,
         Mountable, Images
    <3>2. CASE step \in {"check", "status", "init"}
      <4>1. step' \in {"status", "init", "confirm"}
        BY <2>2, <3>2 DEF Then
      <4> QED  BY <2>2, <3>2, <4>1, Silence DEF PageInv, AnswerInv, device
    <3> QED  BY <2>2, <3>1, <3>2 DEF Answer, Commands, PageInv, PlanInv
  <2> QED  BY <2>1, <2>2 DEF Answer, End, Go
<1>7. GrantInv'
  BY Silence DEF PageInv, PageTypeOK, GrantInv, PlanInv, Answer, End, Boot, Go, Then,
     Loading, Initializes, Commands, device, history
<1> QED  BY <1>1, <1>2, <1>3, <1>4, <1>5, <1>6, <1>7 DEF PageInv

LEMMA ServeKeeps == ASSUME NEW b \in Badges, NEW c \in Commands, PageInv, Serve(b,
   c) PROVE PageInv'
<1>1. PageTypeOK'
  BY Preparing DEF PageInv, PageTypeOK, PlanInv, Serve, page, session, Commands, Steps
<1>2. PlanInv'
  BY Preparing DEF PageInv, PageTypeOK, PlanInv, Serve, page, session, Commands
<1>3. CopyInv'
  BY Preparing DEF PageInv, PageTypeOK, CopyInv, PlanInv, Serve, page, session
<1>4. FlashInv'
  <2>1. PICK image \in Images : image = flash[b] BY DEF PageInv, PageTypeOK
  <2>2. CASE flash' = flash
    BY <2>2, Preparing DEF PageInv, PageTypeOK, FlashInv, PlanInv, Serve, page,
       session, Commands, Original, Images
  <2>3. CASE flash' = [flash EXCEPT ![b] = Prepared(image)]
    <3>1. Boots(flash[b]) /\ b \notin stub
      BY DEF Serve
    <3>2. image.table = "target"
      BY <2>1, <3>1 DEF Boots
    <3> QED  BY <2>1, <2>3, <3>1, <3>2, Preparing DEF PageInv, PageTypeOK,
       FlashInv, PlanInv, Serve, page, session, Commands, Original, Images
  <2> QED  BY <2>1, <2>2, <2>3 DEF Serve
<1>5. NoteInv'
  BY Preparing DEF PageInv, PageTypeOK, NoteInv, PlanInv, Serve, page, session,
     Commands
<1>6. AnswerInv'
  <2> DEFINE answers == b = port /\ linked /\ asked /\ c = step
  <2>1. PICK ok \in BOOLEAN, fit \in BOOLEAN :
          /\ timed' \in IF c = "set" THEN {timed, timed \cup {b}, timed \ {b}} ELSE {timed}
          /\ ok => CASE c \in {"set", "check"} -> b \in timed'
                    [] c = "init"             -> fit
                    [] OTHER                  -> InOrder(b)
          /\ fit => Mountable(flash'[b])
          /\ reply' = IF answers THEN [op |-> c, ok |-> ok, ready |-> fit] ELSE reply
    BY DEF Serve
  <2>2. UNCHANGED <<op, step, port, linked, asked>> /\ cmds' = cmds \ {<<b, c>>}
    BY DEF Serve, page, session
  <2>3. flash' = flash \/ flash' = [flash EXCEPT ![b] = Prepared(flash[b])]
    BY DEF Serve
  <2>4. \A p \in Badges : /\ flash'[p].app = flash[p].app
                          /\ Mountable(flash[p]) => Mountable(flash'[p])
    BY <2>3, Preparing DEF PageInv, PageTypeOK
  <2>5. /\ reply.op # "none" => port \in Badges
        /\ step \in Commands => port \in Badges
    BY DEF PageInv, PageTypeOK, AnswerInv, PlanInv, Commands
  <2>6. CASE answers
    <3>1. reply' = [op |-> c, ok |-> ok, ready |-> fit] /\ c # "none"
      BY <2>1, <2>6 DEF Commands
    <3>2. step = "set" => <<port, "set">> \notin cmds' /\ (ok => port \in timed')
      BY <2>1, <2>2, <2>6
    <3>3. step # "set" => timed' = timed
      BY <2>1, <2>6
    <3>4. ok /\ step \in {"status", "confirm"} => flash'[port].app = "release"
      BY <2>1, <2>4, <2>6 DEF InOrder
    <3> QED  BY <2>1, <2>2, <2>6, <3>1, <3>2, <3>3, <3>4 DEF PageInv, AnswerInv
  <2>7. CASE ~answers
    <3>1. reply' = reply
      BY <2>1, <2>7
    <3>2. <<port, "set">> \notin cmds =>
            <<port, "set">> \notin cmds' /\ (port \in timed => port \in timed')
      <4>1. CASE c = "set"
        BY <2>1, <2>2, <4>1 DEF Serve
      <4>2. CASE c # "set"
        BY <2>1, <2>2, <4>2
      <4> QED  BY <4>1, <4>2
    <3> QED  BY <2>2, <2>4, <2>5, <3>1, <3>2 DEF PageInv, AnswerInv
  <2> QED  BY <2>6, <2>7
<1>7. GrantInv'
  BY Preparing DEF PageInv, PageTypeOK, GrantInv, PlanInv, Serve, page, session,
     Commands
<1> QED  BY <1>1, <1>2, <1>3, <1>4, <1>5, <1>6, <1>7 DEF PageInv

LEMMA PlugKeeps == ASSUME PageInv, Plug PROVE PageInv'
<1>1. PageTypeOK'
  BY DEF PageInv, PageTypeOK, PlanInv, Plug, line, page, session, history, Commands,
     Steps
<1>2. PlanInv'
  BY DEF PageInv, PageTypeOK, PlanInv, Plug, line, page, session, history, Commands
<1>3. CopyInv'
  BY DEF PageInv, PageTypeOK, CopyInv, PlanInv, Plug, line, page, session, history
<1>4. FlashInv'
  BY DEF PageInv, PageTypeOK, FlashInv, PlanInv, Plug, line, page, session, history,
     Commands, Original, Images
<1>5. NoteInv'
  BY DEF PageInv, PageTypeOK, NoteInv, PlanInv, Plug, line, page, session, history,
     Commands
<1>6. AnswerInv'
  BY DEF PageInv, PageTypeOK, AnswerInv, PlanInv, Plug, line, page, session, history,
     Commands, Mountable, Images
<1>7. GrantInv'
  BY DEF PageInv, PageTypeOK, GrantInv, PlanInv, Plug, line, page, session, history,
     Commands
<1> QED  BY <1>1, <1>2, <1>3, <1>4, <1>5, <1>6, <1>7 DEF PageInv

LEMMA UnplugKeeps == ASSUME PageInv, Unplug PROVE PageInv'
<1>1. PageTypeOK'
  <2>1. (/\ flash \in [Badges -> Images] /\ timed \subseteq Badges /\ stub \subseteq Badges
         /\ plugged \in Badges \cup {NoBadge})'
    BY Silence DEF PageInv, PageTypeOK, PlanInv, Unplug, page, history, Commands, Steps
  <2>2. (/\ cmds \subseteq Badges \X Commands
         /\ reply \in [op : Commands \cup {"none"}, ok : BOOLEAN, ready : BOOLEAN])'
    BY Silence DEF PageInv, PageTypeOK, PlanInv, Unplug, page, history, Commands, Steps
  <2>3. (/\ op \in DOMAIN Begins \cup {"none"} /\ step \in Steps
         /\ said \in {"idle", "working", "nothing", "stopped", "attention", "ready"})'
    BY Silence DEF PageInv, PageTypeOK, PlanInv, Unplug, page, history, Commands, Steps
  <2>4. (/\ port \in Badges \cup {NoBadge} /\ backup \in Images \cup {NoImage}
         /\ files \subseteq Badges \X {"v0", "v1", "lost", "empty", "profile"})'
    BY Silence DEF PageInv, PageTypeOK, PlanInv, Unplug, page, history, Commands, Steps
  <2>5. (/\ linked \in BOOLEAN /\ saved \in BOOLEAN /\ wrote \in BOOLEAN
         /\ asked \in BOOLEAN
         /\ touched \in BOOLEAN)'
    BY Silence DEF PageInv, PageTypeOK, PlanInv, Unplug, page, history, Commands, Steps
  <2>6. (granted \in BOOLEAN)'
    BY Silence DEF PageInv, PageTypeOK, PlanInv, Unplug, page, history, Commands, Steps
  <2> QED  BY <2>1, <2>2, <2>3, <2>4, <2>5, <2>6 DEF PageTypeOK
<1>2. PlanInv'
  BY Silence DEF PageInv, PageTypeOK, PlanInv, Unplug, page, history, Commands
<1>3. CopyInv'
  BY Silence DEF PageInv, PageTypeOK, CopyInv, PlanInv, Unplug, page, history
<1>4. FlashInv'
  BY Silence DEF PageInv, PageTypeOK, FlashInv, PlanInv, Unplug, page, history,
     Commands, Original, Images
<1>5. NoteInv'
  BY Silence DEF PageInv, PageTypeOK, NoteInv, PlanInv, Unplug, page, history, Commands
<1>6. AnswerInv'
  BY Silence DEF PageInv, PageTypeOK, AnswerInv, PlanInv, Unplug, page, history,
     Commands, Mountable, Images
<1>7. GrantInv'
  BY Silence DEF PageInv, PageTypeOK, GrantInv, PlanInv, Unplug, page, history,
     Commands
<1> QED  BY <1>1, <1>2, <1>3, <1>4, <1>5, <1>6, <1>7 DEF PageInv

LEMMA PressKeeps == ASSUME NEW b \in Badges, PageInv, Press(b) PROVE PageInv'
<1>1. PageTypeOK'
  BY DEF PageInv, PageTypeOK, PlanInv, Press, Boot, page, session, history, Commands,
     Steps
<1>2. PlanInv'
  BY DEF PageInv, PageTypeOK, PlanInv, Press, Boot, page, session, history, Commands
<1>3. CopyInv'
  BY DEF PageInv, PageTypeOK, CopyInv, PlanInv, Press, Boot, page, session, history
<1>4. FlashInv'
  BY DEF PageInv, PageTypeOK, FlashInv, PlanInv, Press, Boot, page, session, history,
     Commands, Original, Images
<1>5. NoteInv'
  BY DEF PageInv, PageTypeOK, NoteInv, PlanInv, Press, Boot, page, session, history,
     Commands
<1>6. AnswerInv'
  BY DEF PageInv, PageTypeOK, AnswerInv, PlanInv, Press, Boot, page, session, history,
     Commands, Mountable, Images
<1>7. GrantInv'
  BY DEF PageInv, PageTypeOK, GrantInv, PlanInv, Press, Boot, page, session, history,
     Commands
<1> QED  BY <1>1, <1>2, <1>3, <1>4, <1>5, <1>6, <1>7 DEF PageInv

LEMMA UseKeeps == ASSUME NEW b \in Badges, PageInv, Use(b) PROVE PageInv'
<1>1. PageTypeOK'
  BY DEF PageInv, PageTypeOK, PlanInv, Use, line, page, session, history, Commands,
     Steps, Images
<1>2. PlanInv'
  BY DEF PageInv, PageTypeOK, PlanInv, Use, line, page, session, history, Commands
<1>3. CopyInv'
  BY DEF PageInv, PageTypeOK, CopyInv, PlanInv, Use, line, page, session, history
<1>4. FlashInv'
  BY DEF PageInv, PageTypeOK, FlashInv, PlanInv, Use, line, page, session, history,
     Commands, Original, Images, Boots, Mountable
<1>5. NoteInv'
  BY DEF PageInv, PageTypeOK, NoteInv, PlanInv, Use, line, page, session, history,
     Commands
<1>6. AnswerInv'
  <2>1. UNCHANGED <<timed, cmds, reply, step, port>>
    BY DEF Use, line, page, session
  <2>2. \A p \in Badges : Mountable(flash[p]) => Mountable(flash'[p])
    BY DEF PageInv, PageTypeOK, FlashInv, Use, Images, Mountable, Boots
  <2>3. \A p \in Badges : flash[p].app = "release" => flash'[p].app = "release"
    BY DEF PageInv, PageTypeOK, Use, Images
  <2>4. reply.op # "none" => port \in Badges
    BY DEF PageInv, PageTypeOK, AnswerInv, PlanInv, Commands
  <2> QED  BY <2>1, <2>2, <2>3, <2>4 DEF PageInv, AnswerInv
<1>7. GrantInv'
  BY DEF PageInv, PageTypeOK, GrantInv, PlanInv, Use, line, page, session, history,
     Commands
<1> QED  BY <1>1, <1>2, <1>3, <1>4, <1>5, <1>6, <1>7 DEF PageInv

-----------------------------------------------------------------------------
(* The invariant *)

LEMMA Starts == PageInit => PageInv
<1> SUFFICES ASSUME PageInit PROVE PageInv
  OBVIOUS
<1>1. PageTypeOK
  <2>1. {Factory, Used, Broken} \subseteq Images
    BY DEF Factory, Used, Broken, Images
  <2>2. flash \in [Badges -> Images]
    BY <2>1 DEF PageInit
  <2> QED  BY <2>2, Silence DEF PageInit, PageTypeOK, Steps
<1>2. PlanInv /\ CopyInv /\ NoteInv /\ GrantInv
  BY DEF PageInit, PlanInv, CopyInv, NoteInv, GrantInv, Commands
<1>3. FlashInv
  BY DEF PageInit, FlashInv, Factory, Used, Broken
<1>4. AnswerInv
  BY Silence DEF PageInit, AnswerInv
<1> QED  BY <1>1, <1>2, <1>3, <1>4 DEF PageInv

LEMMA Keeps == PageInv /\ [PageNext]_pageVars => PageInv'
<1> SUFFICES ASSUME PageInv, [PageNext]_pageVars PROVE PageInv'
  OBVIOUS
<1>1. CASE PageNext
  BY <1>1, BeginKeeps, FailKeeps, CancelKeeps, ReloadKeeps, ConnectKeeps,
     InspectKeeps, BackupKeeps, SaveKeeps, WriteKeeps, RestartBadgeKeeps, OpenKeeps,
     AskKeeps, AgainKeeps, AnswerKeeps, ServeKeeps, PlugKeeps, UnplugKeeps,
     PressKeeps, UseKeeps DEF PageNext
<1>2. CASE UNCHANGED pageVars
  BY <1>2 DEF pageVars, device, line, page, session, history, PageInv, PageTypeOK, PlanInv,
     CopyInv, FlashInv, NoteInv, AnswerInv, GrantInv
<1> QED  BY <1>1, <1>2

LEMMA Invariant == PageSpec => []PageInv
BY Starts, Keeps, PTL DEF PageSpec

-----------------------------------------------------------------------------
(* What a step does to a badge, to the report and to the commands *)

(* Only a write, a command and a use change what is on a badge.             *)
LEMMA Untouched ==
  ASSUME [PageNext]_pageVars, flash' # flash
  PROVE  Write \/ \E b \in Badges : Use(b) \/ \E c \in Commands : Serve(b, c)
BY DEF PageNext, pageVars, Begin, Fail, Cancel, End, Boot, Reload, Connect, Inspect,
   Backup, Save, RestartBadge, Open, Ask, Again, Answer, Plug, Unplug, Press,
   device, line, page, session, history

(* Only a request adds a command, and only the one that is due.             *)
LEMMA CommandsAsked ==
  ASSUME [PageNext]_pageVars
  PROVE  cmds' \subseteq cmds \/ Ask
BY DEF PageNext, pageVars, Begin, Fail, Cancel, End, Boot, Reload, Connect, Inspect,
   Backup, Save, Write, RestartBadge, Open, Again, Answer, Serve, Use, Plug, Unplug,
   Press, device, line, page, session, history

(* An operation ends when it fails, when the page goes, when its work is    *)
(* done or when the last answer is in.                                      *)
LEMMA Ends ==
  ASSUME [PageNext]_pageVars, op # "none", op' = "none"
  PROVE  Fail \/ Reload \/ Backup \/ Save \/ Answer
BY Operations DEF PageNext, pageVars, Begin, Cancel, Connect, Inspect, Write, RestartBadge,
   Open, Ask, Again, Serve, Use, Plug, Unplug, Press, Go, device, line, page,
   session, history

(* NothingLost: the loader and the commands of the page do no harm to a     *)
(* badge that is not backed up, or to a profile.                            *)
THEOREM NothingIsLost == PageSpec => NothingLost
<1> DEFINE Kept(b) ==
      /\ Original(flash[b]) /\ ~Original(flash'[b]) => <<b, flash[b].data>> \in files
      /\ flash[b].data = "profile" => flash'[b].data = "profile"
<1>1. ASSUME PageInv, [PageNext]_pageVars, NEW b \in Badges PROVE Kept(b)
  <2>1. CASE flash' = flash
    BY <2>1
  <2>2. CASE Write
    <3>1. /\ flash[port] \in Images /\ port \in Badges /\ op \in {"update", "first"}
          /\ flash' = [flash EXCEPT ![port] = Progress(flash[port])]
      BY <1>1, <2>2 DEF Write, PageInv, PageTypeOK, PlanInv
    <3>2. CASE b # port
      BY <1>1, <3>1, <3>2 DEF PageInv, PageTypeOK
    <3>3. CASE b = port /\ op = "update"
      BY <1>1, <2>2, <3>1, <3>3, Progresses DEF PageInv, PageTypeOK, FlashInv, Write,
         Original
    <3>4. CASE b = port /\ op = "first"
      <4>1. flash[b].data # "profile"
        BY <1>1, <2>2, <3>4 DEF PageInv, FlashInv, Write
      <4>2. Original(flash[b]) => <<b, flash[b].data>> \in files
        BY <1>1, <2>2, <3>4 DEF PageInv, FlashInv, CopyInv, Write, Loading
      <4> QED  BY <4>1, <4>2
    <3> QED  BY <3>1, <3>2, <3>3, <3>4
  <2>3. ASSUME NEW p \in Badges, Use(p) PROVE Kept(b)
    <3>1. flash[p] \in Images
      BY <1>1 DEF PageInv, PageTypeOK
    <3>2. \/ flash' = [flash EXCEPT ![p].data = "v1"] /\ flash[p].table = "factory"
             /\ flash[p].app = "vendor"
          \/ flash' = [flash EXCEPT ![p].data = "profile"] /\ Boots(flash[p])
      BY <2>3 DEF Use
    <3>3. flash[p].table = "factory" => flash[p].data # "profile"
      BY <1>1 DEF PageInv, FlashInv
    <3> QED  BY <1>1, <3>1, <3>2, <3>3 DEF PageInv, PageTypeOK, Images, Original, Boots
  <2>4. ASSUME NEW p \in Badges, NEW c \in Commands, Serve(p, c) PROVE Kept(b)
    <3>1. flash' = flash \/ flash' = [flash EXCEPT ![p] = Prepared(flash[p])]
      BY <2>4 DEF Serve
    <3>2. \A i \in Images : Boots(i) => ~Original(i)
      BY DEF Boots, Original
    <3>3. \A i \in Images : i.data = "profile" => Prepared(i) = i
      BY Preparing DEF Mountable
    <3>4. Boots(flash[p])
      BY <2>4 DEF Serve
    <3> QED  BY <1>1, <3>1, <3>2, <3>3, <3>4 DEF PageInv, PageTypeOK
  <2> QED  BY <1>1, <2>1, <2>2, <2>3, <2>4, Untouched
<1>2. PageInv /\ [PageNext]_pageVars => [\A b \in Badges : Kept(b)]_pageVars
  BY <1>1
<1> QED  BY <1>2, Invariant, PTL DEF PageSpec, NothingLost

(* PageTruth: "Ready" and "nothing was written" are both true.              *)
THEOREM PageTellsTruth == PageSpec => PageTruth
<1> DEFINE Honest ==
      op # "none" /\ op' = "none" =>
        /\ said' = "ready" => /\ flash'[port].app = "release" /\ Mountable(flash'[port])
                              /\ port \in timed'
        /\ said' = "nothing" => ~touched'
<1>1. ASSUME PageInv, [PageNext]_pageVars, op # "none", op' = "none" PROVE Honest
  <2>1. CASE Fail
    BY <1>1, <2>1 DEF Fail, End, PageInv, NoteInv
  <2>2. CASE Reload
    BY <2>2 DEF Reload
  <2>3. CASE Backup \/ Save
    BY <1>1, <2>3 DEF Backup, Save, history, PageInv, PlanInv, NoteInv
  <2>4. CASE Answer
    <3>1. End("ready") /\ reply.op = step /\ step \in {"status", "confirm"}
          /\ reply.ok /\ reply.ready
      BY <1>1, <2>4 DEF Answer, Go
    <3>2. flash[port].app = "release" /\ Mountable(flash[port]) /\ port \in timed
      BY <1>1, <3>1 DEF PageInv, AnswerInv
    <3> QED  BY <3>1, <3>2 DEF End
  <2> QED  BY <1>1, <2>1, <2>2, <2>3, <2>4, Ends
<1>2. PageInv /\ [PageNext]_pageVars => [Honest]_pageVars
  BY <1>1
<1> QED  BY <1>2, Invariant, PTL DEF PageSpec, PageTruth

(* OneFormatPerConsent: the command that formats spends a confirmation.     *)
THEOREM FormatsOncePerConsent == PageSpec => OneFormatPerConsent
<1> DEFINE Granted == \A b \in Badges : <<b, "init">> \in cmds' \ cmds => granted
<1>1. ASSUME PageInv, [PageNext]_pageVars PROVE Granted
  <2>1. CASE cmds' \subseteq cmds
    BY <2>1
  <2>2. CASE Ask
    BY <1>1, <2>2 DEF Ask, PageInv, GrantInv
  <2> QED  BY <1>1, <2>1, <2>2, CommandsAsked
<1>2. PageInv /\ [PageNext]_pageVars => [Granted]_pageVars
  BY <1>1
<1> QED  BY <1>2, Invariant, PTL DEF PageSpec, OneFormatPerConsent
=============================================================================
