--------------------------- MODULE MCTreasureHunt ---------------------------
(* Every level on a perfect network, and level 3 with faults of the network *)
(* or with one other thing wrong.                                           *)
EXTENDS TreasureHunt

Good(l) == [level |-> l, faults |-> {}, upper |-> FALSE, overwritten |-> FALSE,
            resolves |-> TRUE, taken |-> 0]
MCWorlds ==
    {Good(l) : l \in 0 .. 4}
    \cup {[Good(3) EXCEPT !.faults = f] : f \in {{"lose"}, {"lose", "delay"}, {"duplicate"}}}
    \cup {[Good(3) EXCEPT !.upper = TRUE], [Good(3) EXCEPT !.overwritten = TRUE],
          [Good(3) EXCEPT !.resolves = FALSE], [Good(3) EXCEPT !.taken = 11]}
MCRemotes == 1 .. 2
MCLocals == 11 .. 12
MCNonces == {2, 7}
=============================================================================
