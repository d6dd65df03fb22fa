--------------------------- MODULE MCProvisioning ---------------------------
(***************************************************************************)
(* Both sides of setting up a badge for TLC: the clock in the badge, and    *)
(* the page at the other end of the cable with a badge that only answers.   *)
(* They share no state, so every behaviour is one of the two.               *)
(***************************************************************************)
EXTENDS ClockService, Installer

VARIABLE side

RunMain  == side = "badge" /\ MainStep /\ UNCHANGED <<side, pageVars>>
RunClock == side = "badge" /\ Next /\ UNCHANGED <<side, pageVars>>
RunPage  == side = "page" /\ PageNext /\ UNCHANGED <<side, vars>>

BothInit == /\ side \in {"badge", "page"} /\ Init /\ PageInit
            \* one initial state is enough of a side that does not run
            /\ side = "badge" => \A b \in Badges : flash[b] = Used
            /\ side = "page" => rtc = Bad /\ nvs = NoOffset

BothNext == RunClock \/ RunPage

\* Only the badge's main loop is fair.
BothSpec == BothInit /\ [][BothNext]_<<side, vars, pageVars>>
                     /\ WF_<<side, vars, pageVars>>(RunMain)
=============================================================================
