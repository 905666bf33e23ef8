------------------------------ MODULE MCReplies ------------------------------
(***************************************************************************)
(* The two ends of the firmware in one run, which never meet in it: in     *)
(* "pc" the PC's commands alone, every one of them, with no console but    *)
(* the word that one is there; in "replies" the console alone, with        *)
(* commands that are answered, rejected ones and the report modes, and a   *)
(* PC that is silent.                                                      *)
(***************************************************************************)
EXTENDS MCBtstackHid

CONSTANT b

Settings == {a, b, neutral}
EveryLine == {StateLine(c) : c \in Settings} \cup {LoadLine(t1)}
               \cup {ReleaseLine, UnloadLine, OtherLine}

VARIABLE scenario

ScenarioInit == Init /\ scenario \in {"pc", "replies"}

ScenarioNext ==
    /\ UNCHANGED scenario
    /\ \/ /\ scenario = "pc" /\ PcNext
          /\ UNCHANGED <<protoVars, hidVars, appVars, appHistory>>
       \/ scenario = "replies" /\ (HostNext \/ SendNext \/ InputTimer \/ PcPoll)

\* The fairness of FairSpec, but for the clock, which stands still here.
ScenarioSpec ==
    /\ ScenarioInit /\ [][ScenarioNext]_<<scenario, vars>>
    /\ WF_vars(PcPoll)
    /\ SF_vars(InputTimer)
    /\ SF_vars(\E ch \in Channels : Handshake(ch))
    /\ SF_vars(\E ch \in Channels : CanSend(ch, TRUE) /\ sendPending)
=============================================================================
