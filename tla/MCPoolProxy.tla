---------------------------- MODULE MCPoolProxy ----------------------------
(* Instances of PoolProxy for TLC.                                           *)
EXTENDS PoolProxy, TLC

CONSTANTS c1, c2, c3, w1, w2

TwoClients == {c1, c2}
ThreeClients == {c1, c2, c3}
TwoWorkers == {w1, w2}

Symmetry == Permutations(Clients) \cup Permutations(Workers)

(* Every pair of kinds of client, and a client that is served beside two     *)
(* that give up.                                                             *)
Pairs == {m \in [ThreeClients -> Kinds] : \E x \in ThreeClients : m[x] = "absent"}
OneOkTwoQuit == {m \in [ThreeClients -> {"ok", "quits"}] :
                   Cardinality({x \in ThreeClients : m[x] = "ok"}) = 1}
SafetyMixes == Pairs \cup OneOkTwoQuit
(* Beside an ordinary client, one of each other kind that leaves a worker to *)
(* serve it (the pool has two); "slow" may send everything at once, like "ok".*)
OneOther == {m \in [TwoClients -> {"ok", "slow", "quits", "malformed", "hangs"}] :
               m[c1] = "ok" /\ m[c2] # "ok"}
OkRefused == {(c1 :> "ok") @@ (c2 :> "refused")}
=============================================================================
