---------------------------- MODULE MCEpollProxy ---------------------------
(* Instances of EpollProxy for TLC.                                          *)
EXTENDS EpollProxy, TLC

CONSTANTS c1, c2, b1, b2

TwoClients == {c1, c2}
TwoBlocks == {b1, b2}

Symmetry == Permutations(Clients) \cup Permutations(Blocks)

(* Every behaviour of free, descriptors enough for each request (EnoughFds) *)
(* or not, and a C library that never merges a freed request_info.          *)
AnyFree == {"unmapped", "merged", "linked"}
EnoughFds == {[frees |-> AnyFree, limit |-> 5]}
AllSystems ==
    EnoughFds \cup {[frees |-> AnyFree, limit |-> 3], [frees |-> {"unmapped", "linked"}, limit |-> 5]}

AllPairs == [Clients -> Kinds]
ServedPairs == [Clients -> {"ok", "slow", "hangs"}]
=============================================================================
