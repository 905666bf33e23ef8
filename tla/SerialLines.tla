------------------------------ MODULE SerialLines ------------------------------
(***************************************************************************)
(* How lines are found again in a stream of bytes, at both ends of the     *)
(* serial port: reader() of main/pc_control.c byte by byte into a buffer   *)
(* of fixed size, LineDecoder of pc/serial_link.py (and, in the same way,  *)
(* reader() of pc/session.py) in chunks of any size into a buffer that is  *)
(* cleared when it grows too long.  Both are given the same stream; its    *)
(* other bytes than the ends of lines are one or a few letters.  A line    *)
(* that reader() hands on meets the queue of PcControl.                    *)
(***************************************************************************)
EXTENDS Naturals, Sequences, FiniteSets

CONSTANTS
    Letters,    \* bytes of text
    NL, CR,     \* "\n" and "\r"
    LineSize,   \* LINE_SIZE, 1400
    BufferLimit, \* of the decoder's buffer, 16384
    MaxStream   \* bound: bytes

ASSUME LinesAssumption ==
    /\ NL # CR /\ NL \notin Letters /\ CR \notin Letters
    /\ LineSize \in Nat \ {0} /\ BufferLimit \in Nat /\ MaxStream \in Nat

VARIABLES
    stream,     \* history: the bytes sent
    line, overflow, queued,  \* the device: its buffer, and the lines handed on
    read, buffer, got        \* the PC: bytes read, its buffer, and the lines found

linesVars == <<stream, line, overflow, queued, read, buffer, got>>

LinesInit ==
    /\ stream = <<>> /\ line = <<>> /\ overflow = FALSE /\ queued = <<>>
    /\ read = 0 /\ buffer = <<>> /\ got = <<>>

-----------------------------------------------------------------------------

\* A fault of reader(): what does not fit is left out, and nothing remembers it.
ReadsByteCut(c) ==
    /\ line' = CASE c = CR -> line [] c = NL -> <<>>
                 [] OTHER -> IF Len(line) < LineSize - 1 THEN Append(line, c) ELSE line
    /\ queued' = IF c = NL /\ line # <<>> THEN Append(queued, line) ELSE queued
    /\ UNCHANGED overflow

\* reader(): a byte.
ReadsByte(c) ==
    \/ c = CR /\ UNCHANGED <<line, overflow, queued>>
    \/ /\ c = NL
       /\ queued' = IF ~overflow /\ line # <<>> THEN Append(queued, line) ELSE queued
       /\ line' = <<>>
       /\ overflow' = FALSE
    \/ /\ c \in Letters
       /\ IF Len(line) < LineSize - 1 /\ ~overflow
          THEN line' = Append(line, c) /\ UNCHANGED overflow
          ELSE overflow' = TRUE /\ UNCHANGED line
       /\ UNCHANGED queued

Byte(c) ==
    /\ Len(stream) < MaxStream
    /\ stream' = Append(stream, c)
    /\ ReadsByte(c)
    /\ UNCHANGED <<read, buffer, got>>

\* The k-th of a set of positions, the last of them, and the elements there; by
\* counting, not by recursion.
Kth(K, k) ==
    IF k = 0 THEN 0 ELSE CHOOSE i \in K : Cardinality({j \in K : j <= i}) = k
LastOf(K) == Kth(K, Cardinality(K))
AtEach(s, K) == [k \in 1..Cardinality(K) |-> s[Kth(K, k)]]

\* rstrip("\r").
Stripped(s) == SubSeq(s, 1, LastOf({i \in DOMAIN s : s[i] # CR}))

\* The complete lines of a sequence of bytes, and what follows the last.
Ends(s) == {i \in DOMAIN s : s[i] = NL}
Split(s) ==
    [k \in 1..Cardinality(Ends(s)) |->
        SubSeq(s, Kth(Ends(s), k - 1) + 1, Kth(Ends(s), k) - 1)]
Rest(s) == SubSeq(s, LastOf(Ends(s)) + 1, Len(s))

\* A fault of feed(): the buffer is cleared before its lines are taken.
FeedClearsFirst(chunk) ==
    LET all == IF Len(buffer \o chunk) > BufferLimit THEN <<>> ELSE buffer \o chunk
        lines == Split(all)
    IN /\ got' = got \o [k \in DOMAIN lines |-> Stripped(lines[k])]
       /\ buffer' = Rest(all)

\* feed(chunk).
Feed(chunk) ==
    LET all == buffer \o chunk
        lines == Split(all)
    IN /\ got' = got \o [k \in DOMAIN lines |-> Stripped(lines[k])]
       /\ buffer' = IF Len(Rest(all)) > BufferLimit THEN <<>> ELSE Rest(all)

\* A read from the port gives some of the bytes.
Chunk(n) ==
    /\ read + n <= Len(stream)
    /\ read' = read + n
    /\ Feed(SubSeq(stream, read + 1, read + n))
    /\ UNCHANGED <<stream, line, overflow, queued>>

\* Nothing more is sent.
AllRead ==
    /\ Len(stream) = MaxStream
    /\ read = MaxStream
    /\ UNCHANGED linesVars

LinesNext ==
    \/ \E c \in Letters \cup {NL, CR} : Byte(c)
    \/ \E n \in 1..MaxStream : Chunk(n)
    \/ AllRead

LinesSpec == LinesInit /\ [][LinesNext]_linesVars

-----------------------------------------------------------------------------

\* A line without carriage returns, and whether the device's buffer holds it.
Text(s) == AtEach(s, {i \in DOMAIN s : s[i] # CR})
Fits(s) == Text(s) # <<>> /\ Len(Text(s)) < LineSize

\* The device hands on just the lines that fit, whole and in order: a line that
\* does not fit is lost with nothing before or after it, and no part of it is
\* taken for a command ("fail closed", pc_control.c:141).
WholeLines ==
    LET all == Split(stream)
        texts == [k \in DOMAIN all |-> Text(all[k])]
    IN queued = AtEach(texts, {k \in DOMAIN all : Fits(all[k])})

\* The PC finds every line, however the bytes were cut into chunks ("preserving
\* partial lines across reads", serial_link.py:1): only a line longer than the
\* limit may lose its beginning, and it never takes part of another with it.
LinesPreserved ==
    LET all == Split(SubSeq(stream, 1, read))
    IN /\ Len(got) = Len(all)
       /\ \A k \in DOMAIN all :
             LET whole == Stripped(all[k])
             IN \E n \in 0..Len(whole) :
                   /\ got[k] = SubSeq(whole, n + 1, Len(whole))
                   /\ Len(all[k]) <= BufferLimit => n = 0
=============================================================================
