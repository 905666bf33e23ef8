------------------------------- MODULE MCPcApp -------------------------------
(* PcApp; a file is its own image.                                           *)
EXTENDS PcApp, TLC

CONSTANTS first, second

MCImage == [f \in Files |-> f]
MCLines == {}
MCNeutral == {}
MCSymmetry == Permutations({first, second})

(* Generations, links and sequence numbers are only compared for equality, a *)
(* late callback does nothing whatever its file, and lastPath and said decide *)
(* nothing: states that differ in no more are one.                           *)
Late(c) == IF P!InTime(app.presenter, c) THEN [c EXCEPT !.gen = 0]
           ELSE P!Step("late", 0, NoFile)
Ours(event) == IF event.link = app.link THEN 1 ELSE 0
Moving == [i \in DOMAIN events |-> events[i].reply.id] \o
          [i \in DOMAIN lines |-> lines[i].id] \o
          [i \in DOMAIN app.out |-> app.out[i].id]
Place(id) == IF \E i \in DOMAIN Moving : Moving[i] = id
             THEN CHOOSE i \in DOMAIN Moving : Moving[i] = id ELSE 0
Waited(id) == IF \E e \in app.pending : e.id = id THEN 1 ELSE 0
Unnumbered(seq) == [i \in DOMAIN seq |-> [seq[i] EXCEPT !.id = Waited(@)]]
MCView ==
    << [app EXCEPT
          !.link = IF @ = None THEN 0 ELSE 1, !.made = 0, !.said = NoTag,
          !.presenter.generation = 0, !.presenter.lastPath = NoFile,
          !.gaps = {Late(g) : g \in @}, !.out = Unnumbered(@),
          !.pending = {[id |-> Place(e.id), cmd |-> e.cmd,
                        callback |-> {Late(c) : c \in e.callback}] : e \in @}],
       [i \in DOMAIN events |->
          [events[i] EXCEPT !.link = Ours(events[i]), !.reply.id = Waited(@)]],
       Unnumbered(lines), tag, up, held >>
=============================================================================
