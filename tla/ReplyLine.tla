------------------------------ MODULE ReplyLine ------------------------------
(***************************************************************************)
(* What the reply path of the firmware promises the console: replies that  *)
(* were accepted are answered in the order of their requests, each once,   *)
(* none is lost but by a new connection or the end of one, and while the   *)
(* console keeps both channels open each is eventually sent.               *)
(***************************************************************************)
EXTENDS Naturals, Sequences

CONSTANTS
    Answers,    \* what a reply may say
    Room        \* replies that may wait

VARIABLES
    line,       \* replies accepted and not yet sent
    last,       \* the last reply sent
    up          \* the console can be reached

lineVars == <<line, last, up>>

LineInit == line = <<>> /\ last \in Answers /\ up = FALSE

Accept(r) == Len(line) < Room /\ line' = Append(line, r) /\ UNCHANGED <<last, up>>

Answer ==
    /\ line # <<>>
    /\ line' = Tail(line)
    /\ last' = Head(line)
    /\ UNCHANGED up

\* A connection, new or ended, starts from nothing; a channel may come and go
\* and leave the replies where they are.
Relink == line' \in {line, <<>>} /\ up' \in BOOLEAN \ {up} /\ UNCHANGED last

Forget == ~up /\ line' = <<>> /\ UNCHANGED <<last, up>>

LineNext ==
    \/ \E r \in Answers : Accept(r)
    \/ Answer
    \/ Relink
    \/ Forget

LineSafe == LineInit /\ [][LineNext]_lineVars

LineSpec == LineSafe /\ WF_lineVars(up /\ Answer)
=============================================================================
