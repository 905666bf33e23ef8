----------------------------- MODULE MCPcSession -----------------------------
(* PcSession; sequence numbers and what they are compared with count from    *)
(* the last one.                                                             *)
EXTENDS PcSession

MCLines == {}

Own(seq) == [i \in DOMAIN seq |-> [seq[i] EXCEPT !.id = IF @ = session.seq THEN 1 ELSE 0]]
MCView == << [session EXCEPT !.seq = 0], reader.at, Own(replies), Own(answers),
             Own(lines), up, held, reader.reply.id = session.seq >>
=============================================================================
