----------------------------- MODULE Installer -----------------------------
(***************************************************************************)
(* web-flasher/src: the page that installs the firmware over USB, sets the  *)
(* clock and checks the badge.  One operation runs at a time, a step for    *)
(* each await that matters, and between two of them cables, resets and      *)
(* answers do what they like.  A badge is its flash, its clock and the      *)
(* commands its main loop has not read yet.  What esptool-js does on the    *)
(* wire is left out, and so are downloads, which are verified before        *)
(* anything begins.                                                         *)
(***************************************************************************)
CONSTANTS Badges, NoBadge, NoImage

VARIABLES
  flash,            \* what is on each badge
  timed,            \* badges whose RTC has a valid time
  stub,             \* badges that run the loader, not their application
  plugged,          \* the badge on the cable
  cmds, reply,      \* commands the badges have not read; the last answer
  op, step,         \* the operation under way (busy), and its next step
  port, linked,     \* session.port; the connection through it is open
  backup, saved,    \* factorySession: its recovery copy, and `saved`
  wrote, asked,     \* wrote or prepared; a request was sent
  said,             \* what the page reports
  files,            \* whole recovery copies on the computer
  granted, touched  \* history, see the properties

device   == <<flash, timed, stub, plugged>>
line     == <<cmds, reply>>
page     == <<op, step, said>>
session  == <<port, linked, backup, saved, wrote, asked>>
history  == <<granted, touched>>
pageVars == <<device, line, page, session, files, history>>

\* A vendor's badge, one in use and one whose storage is damaged.
Factory == [table |-> "factory", app |-> "vendor", data |-> "v0"]
Used    == [table |-> "target", app |-> "older", data |-> "profile"]
Broken  == [table |-> "target", app |-> "release", data |-> "lost"]

Mountable(image) == image.data \in {"empty", "profile"}
Boots(image)     == image.app \in {"older", "release"} /\ image.table = "target"
NoReply          == [op |-> "none", ok |-> FALSE, ready |-> FALSE]

\* The first step of each operation, and the one after each step.
Begins == [update |-> "connect", prepare |-> "connect", save |-> "save",
           first |-> "inspect", finish |-> "connect", clock |-> "open"]

Then(s) ==
  CASE s = "connect" -> "inspect"
    [] s = "inspect" -> (CASE op = "prepare" -> "backup"
                           [] op = "finish"  -> "restart"
                           [] OTHER          -> "write")
    [] s = "write"   -> "restart"
    [] s = "restart" -> "open"
    [] s = "open"    -> "set"       \* here the dialogue of provision begins
    [] s = "set"     -> "check"
    [] s = "check"   -> "status"
    [] s = "status"  -> "init"
    [] OTHER         -> "confirm"

Commands == {"set", "check", "status", "init", "confirm"}

Go      == step' = Then(step) /\ UNCHANGED <<op, said>>
Loading == linked /\ port \in stub /\ step \notin Commands

PageInit ==
  /\ flash \in [Badges -> {Factory, Used, Broken}]
  /\ timed = {} /\ stub = {} /\ plugged = NoBadge
  /\ cmds = {} /\ reply = NoReply
  /\ op = "none" /\ step = "rest" /\ said = "idle"
  /\ port = NoBadge /\ linked = FALSE /\ backup = NoImage /\ saved = FALSE
  /\ wrote = FALSE /\ asked = FALSE /\ files = {}
  /\ granted = FALSE /\ touched = FALSE

\* A badge starts again, from its application.
Boot(b) == stub' = stub \ {b} /\ cmds' = {c \in cmds : c[1] # b}

-----------------------------------------------------------------------------
(* The buttons *)

\* The first install goes on in the session that prepared it, and every other
\* operation has the user choose a badge.
Begin(o) ==
  /\ op = "none"
  /\ IF o \in {"save", "first"}
     THEN /\ backup # NoImage /\ (o = "first" => saved)
          /\ UNCHANGED <<port, linked>>
     ELSE /\ backup = NoImage /\ plugged # NoBadge
          /\ port' = plugged /\ linked' = FALSE
  /\ op' = o /\ step' = Begins[o] /\ said' = "working"
  /\ wrote' = FALSE /\ asked' = FALSE
  /\ granted' = (o \in {"first", "finish"}) /\ touched' = FALSE
  /\ UNCHANGED <<device, line, backup, saved, files>>

\* controls(false), after close, which resets a badge that still runs the
\* loader if it can.
End(report) ==
  /\ op' = "none" /\ step' = "rest" /\ said' = report
  /\ linked' = FALSE /\ backup' = NoImage /\ saved' = FALSE
  /\ asked' = FALSE /\ granted' = FALSE /\ reply' = NoReply
  /\ \/ Loading /\ Boot(port)
     \/ UNCHANGED <<stub, cmds>>
  /\ UNCHANGED <<flash, timed, plugged, port, wrote, files, touched>>

\* failure: the user, the cable, a check or a time-out stops the operation.
Fail ==
  /\ op \notin {"none", "save"}
  /\ End(IF wrote THEN "attention" ELSE IF op = "clock" THEN "stopped" ELSE "nothing")

\* Cancel first install
Cancel == op = "none" /\ backup # NoImage /\ End("nothing")

\* The page is closed or reloaded: nothing is reset, and the next page knows
\* nothing of the session.
Reload ==
  /\ op' = "none" /\ step' = "rest" /\ said' = "idle"
  /\ port' = NoBadge /\ linked' = FALSE /\ backup' = NoImage /\ saved' = FALSE
  /\ wrote' = FALSE /\ asked' = FALSE /\ reply' = NoReply
  /\ granted' = FALSE /\ touched' = FALSE
  /\ UNCHANGED <<device, cmds, files>>

-----------------------------------------------------------------------------
(* The steps that talk to the loader *)

Connect ==
  /\ step = "connect" /\ plugged = port
  /\ linked' = TRUE /\ Go
  /\ stub' = stub \cup {port} /\ cmds' = {c \in cmds : c[1] # port}
  /\ UNCHANGED <<flash, timed, plugged, reply, port, backup, saved, wrote, asked,
                 files, history>>

\* checkPrepared, inspectFactorySource, revalidateFactoryBeforeWrite
Suits(image) ==
  CASE op = "prepare" -> image.table = "factory"
    [] op = "first"   -> image.table = "factory" /\ image = backup
    [] OTHER          -> image.table = "target"

\* Mutant: the page takes note of a write when it is over.
Afterwards == FALSE

\* wrote = true, before the first byte goes out.
Noted == op \in {"update", "first"}

Inspect ==
  /\ step = "inspect" /\ Loading /\ Suits(flash[port])
  /\ wrote' = Noted /\ Go
  /\ UNCHANGED <<device, line, port, linked, backup, saved, asked, files, history>>

\* prepareFactory ends, and its session stays.
Backup ==
  /\ step = "backup" /\ Loading
  /\ backup' = flash[port] /\ op' = "none" /\ step' = "rest" /\ said' = "nothing"
  /\ UNCHANGED <<device, line, port, linked, saved, wrote, asked, files, history>>

\* The copy reaches the disk whole, cut short or not at all, in a file of its
\* own; it is read back and compared.
Save ==
  /\ step = "save"
  /\ \E whole \in BOOLEAN :
       /\ files' = IF whole THEN files \cup {<<port, backup.data>>} ELSE files
       /\ saved' \in {saved, saved \/ whole}
  /\ op' = "none" /\ step' = "rest" /\ said' = "nothing"
  /\ UNCHANGED <<device, line, port, linked, backup, wrote, asked, history>>

\* writeFlash goes by address: the bootloader, the partition table, in a first
\* install all of the old data, and the application.
Progress(image) ==
  IF image.app # "torn" THEN [image EXCEPT !.app = "torn"]
  ELSE IF image.table = "factory" THEN [image EXCEPT !.table = "torn"]
  ELSE IF op = "first" /\ image.table = "torn"
       THEN [image EXCEPT !.table = "target", !.data = "lost"]
       ELSE [image EXCEPT !.table = "target", !.app = "release"]

Write ==
  /\ step = "write" /\ Loading
  /\ flash' = [flash EXCEPT ![port] = Progress(@)]
  /\ IF flash'[port].app = "release" THEN Go ELSE UNCHANGED page
  /\ touched' = TRUE
  /\ UNCHANGED <<timed, stub, plugged, line, session, files, granted>>

\* What was written is verified, and the badge restarted: from here on the
\* loader is gone, and finishFactory has "prepared".
RestartBadge ==
  /\ step = "restart" /\ Loading
  /\ Boot(port) /\ linked' = FALSE /\ wrote' = TRUE /\ Go
  /\ UNCHANGED <<flash, timed, plugged, reply, port, backup, saved, asked, files,
                 history>>

-----------------------------------------------------------------------------
(* ClockConnection: the dialogue with the application *)

Open ==
  /\ step = "open" /\ plugged = port
  /\ linked' = TRUE /\ reply' = NoReply /\ Go
  /\ UNCHANGED <<device, cmds, port, backup, saved, wrote, asked, files, history>>

\* request: an answer counts only for the last request, by its nonce.
Ask ==
  /\ step \in Commands /\ linked /\ ~asked
  /\ cmds' = cmds \cup {<<port, step>>} /\ asked' = TRUE /\ reply' = NoReply
  /\ granted' = (granted /\ step # "init")
  /\ UNCHANGED <<device, page, port, linked, backup, saved, wrote, files, touched>>

\* Mutant: what got no answer is sent again.
RetryAny(request) == TRUE

\* Only the clock is set again, for thirty seconds.
Retry(request) == request = "set"

Again ==
  /\ step \in Commands /\ asked /\ Retry(step)
  /\ asked' = FALSE
  /\ UNCHANGED <<device, line, page, port, linked, backup, saved, wrote, files, history>>

\* initializeStorage
Initializes == op \in {"first", "finish"}

\* validateClock, validateReadiness: the storage may only be unavailable when
\* the operation may prepare it, and not after it did.
Answer ==
  /\ step \in Commands /\ linked /\ asked /\ reply.op = step /\ reply.ok
  /\ IF step \in {"status", "confirm"} /\ reply.ready
     THEN End("ready")
     ELSE /\ step # "confirm"
          /\ step = "status" => Initializes
          /\ step = "init" => reply.ready
          /\ Go /\ asked' = FALSE /\ reply' = NoReply
          /\ UNCHANGED <<device, cmds, port, linked, backup, saved, wrote, files, history>>

-----------------------------------------------------------------------------
(* The badge: main.cpp's commands *)

\* The build, the clock and, not modelled, radios and setup are in order.
InOrder(b) == flash[b].app = "release" /\ b \in timed

\* Mutant: storage that is not mounted is formatted.
FormatAtOnce(image) == [image EXCEPT !.data = "empty"]

\* profile_initialize_for_conference mounts what can be mounted and formats
\* the rest.
Prepared(image) == IF Mountable(image) THEN image ELSE [image EXCEPT !.data = "empty"]

\* What is read is answered; the answer is dropped unless the page waits for
\* it.  A command may fail with or without its effect, and what could be
\* mounted may not be.
Serve(b, c) ==
  /\ <<b, c>> \in cmds /\ b \notin stub /\ Boots(flash[b])
  /\ cmds' = cmds \ {<<b, c>>}
  /\ \E ok \in BOOLEAN, ready \in BOOLEAN :
       /\ timed' \in IF c = "set" THEN {timed, timed \cup {b}, timed \ {b}} ELSE {timed}
       /\ flash' \in {flash} \cup
            (IF c = "init" THEN {[flash EXCEPT ![b] = Prepared(@)]} ELSE {})
       /\ ok => CASE c \in {"set", "check"} -> b \in timed'
                  [] c = "init"             -> ready
                  [] OTHER                  -> InOrder(b)
       /\ ready => Mountable(flash'[b])
       /\ reply' = IF b = port /\ linked /\ asked /\ c = step
                   THEN [op |-> c, ok |-> ok, ready |-> ready] ELSE reply
  /\ touched' = (touched \/ (flash' # flash /\ step = "init"))
  /\ UNCHANGED <<stub, plugged, page, session, files, granted>>

-----------------------------------------------------------------------------
(* The user's hands *)

Plug ==
  /\ plugged = NoBadge /\ \E b \in Badges : plugged' = b
  /\ UNCHANGED <<flash, timed, stub, line, page, session, files, history>>

Unplug ==
  /\ plugged # NoBadge /\ plugged' = NoBadge
  /\ linked' = FALSE /\ reply' = NoReply
  /\ UNCHANGED <<flash, timed, stub, cmds, page, port, backup, saved, wrote, asked,
                 files, history>>

\* A badge is restarted by hand.
Press(b) ==
  /\ Boot(b)
  /\ UNCHANGED <<flash, timed, plugged, reply, page, session, files, history>>

\* The vendor's application changes its data; an owner fills in the profile.
Use(b) ==
  /\ b \notin stub
  /\ \/ /\ flash[b].table = "factory" /\ flash[b].app = "vendor"
        /\ flash' = [flash EXCEPT ![b].data = "v1"]
     \/ /\ Boots(flash[b]) /\ Mountable(flash[b])
        /\ flash' = [flash EXCEPT ![b].data = "profile"]
  /\ UNCHANGED <<timed, stub, plugged, line, page, session, files, history>>

PageNext ==
  \/ \E o \in DOMAIN Begins : Begin(o)
  \/ Fail \/ Cancel \/ Reload
  \/ Connect \/ Inspect \/ Backup \/ Save \/ Write \/ RestartBadge
  \/ Open \/ Ask \/ Again \/ Answer
  \/ \E b \in Badges, c \in Commands : Serve(b, c)
  \/ Plug \/ Unplug
  \/ \E b \in Badges : Press(b) \/ Use(b)

PageSpec == PageInit /\ [][PageNext]_pageVars

-----------------------------------------------------------------------------
(* Properties *)

Original(image) == image.table = "factory" /\ image.app = "vendor"

\* Whatever is interrupted, restarted or plugged in instead, a vendor's badge
\* is touched only when a whole copy of what is on it is on the computer, and
\* a profile is never lost ("It preserves saved settings and profiles",
\* web-flasher/README.md:11).
NothingLost ==
  [][\A b \in Badges :
       /\ Original(flash[b]) /\ ~Original(flash'[b]) => <<b, flash[b].data>> \in files
       /\ flash[b].data = "profile" => flash'[b].data = "profile"]_pageVars

\* The page reports the truth: after "Ready" the chosen badge has this release,
\* a file system and a clock that is set; and where it says that nothing was
\* written, nothing was.
PageTruth ==
  [][op # "none" /\ op' = "none" =>
       /\ said' = "ready" => /\ flash'[port].app = "release" /\ Mountable(flash'[port])
                             /\ port \in timed'
       /\ said' = "nothing" => ~touched']_pageVars

\* The command that formats goes out once for each confirmation, and only for
\* one ("Never retry the destructive command automatically", protocol.js:132).
OneFormatPerConsent ==
  [][\A b \in Badges : <<b, "init">> \in cmds' \ cmds => granted]_pageVars


\* What flash can hold, and the steps there are.
-----------------------------------------------------------------------------
(* Types *)

Images == [table : {"factory", "target", "torn"},
           app   : {"vendor", "older", "release", "torn"},
           data  : {"v0", "v1", "lost", "empty", "profile"}]
Steps  == Commands \cup {"rest", "connect", "inspect", "backup", "save", "write",
                        "restart", "open"}

\* Every variable has its type.
PageTypeOK ==
  /\ flash \in [Badges -> Images] /\ timed \subseteq Badges /\ stub \subseteq Badges
  /\ plugged \in Badges \cup {NoBadge} /\ cmds \subseteq Badges \X Commands
  /\ reply \in [op : Commands \cup {"none"}, ok : BOOLEAN, ready : BOOLEAN]
  /\ op \in DOMAIN Begins \cup {"none"} /\ step \in Steps
  /\ said \in {"idle", "working", "nothing", "stopped", "attention", "ready"}
  /\ port \in Badges \cup {NoBadge} /\ linked \in BOOLEAN
  /\ backup \in Images \cup {NoImage} /\ saved \in BOOLEAN
  /\ wrote \in BOOLEAN /\ asked \in BOOLEAN
  /\ files \subseteq Badges \X {"v0", "v1", "lost", "empty", "profile"}
  /\ granted \in BOOLEAN /\ touched \in BOOLEAN
=============================================================================
