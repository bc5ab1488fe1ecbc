------------------------------- MODULE MCSbuf -------------------------------
(* Instances of Sbuf for TLC: descriptors as the items that are passed.      *)
EXTENDS Sbuf, TLC

CONSTANTS p1, p2, c1, c2, d1, d2

MCProducers == {p1, p2}
MCConsumers == {c1, c2}
MCItems == {d1, d2}
=============================================================================
