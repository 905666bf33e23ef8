----------------------------- MODULE PresentFlow -----------------------------
(***************************************************************************)
(* What the presenter of pc/library.py promises to the person using it: a  *)
(* file is presented by removing the old one, waiting, and loading the new *)
(* one; a name is shown only once the load of that file was confirmed; and *)
(* a request ends.  Requests, replies and timers do not appear here.       *)
(***************************************************************************)
CONSTANTS Files, NoFile

VARIABLES
    stage,   \* "idle", or what the request waits for
    wanted,  \* the file of the request, NoFile when it only removes
    shown    \* the file shown as presented

flowVars == <<stage, wanted, shown>>

FlowInit == stage = "idle" /\ wanted = NoFile /\ shown = NoFile

\* A request is accepted when none is under way, and changes nothing yet.
Ask(f) ==
    /\ stage = "idle"
    /\ stage' = "removing"
    /\ wanted' = f
    /\ UNCHANGED shown

\* The removal is confirmed: the old name goes, the gap begins.
GapBegins ==
    /\ stage = "removing"
    /\ wanted # NoFile
    /\ stage' = "gap"
    /\ shown' = NoFile
    /\ UNCHANGED wanted

GapEnds ==
    /\ stage = "gap"
    /\ stage' = "loading"
    /\ UNCHANGED <<wanted, shown>>

\* The load is confirmed, and only now the name is shown.
Confirmed ==
    /\ stage = "loading"
    /\ stage' = "idle"
    /\ shown' = wanted
    /\ wanted' = NoFile

\* A removal alone, confirmed; or a request that failed or was abandoned.
Ends ==
    /\ stage # "idle"
    /\ stage' = "idle"
    /\ wanted' = NoFile
    /\ shown' \in {shown, NoFile}

\* A reply denies that the file is there.
Denied == shown' = NoFile /\ UNCHANGED <<stage, wanted>>

FlowNext ==
    \/ \E f \in Files \cup {NoFile} : Ask(f)
    \/ GapBegins
    \/ GapEnds
    \/ Confirmed
    \/ Ends
    \/ Denied

FlowSafe == FlowInit /\ [][FlowNext]_flowVars

FlowSpec ==
    /\ FlowSafe
    /\ WF_flowVars(GapBegins \/ GapEnds \/ Confirmed \/ Ends)
=============================================================================
