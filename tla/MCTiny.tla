------------------------------- MODULE MCTiny -------------------------------
(* One client of any kind with any request; two that meet; and processes     *)
(* that suffice or do not.                                                   *)
EXTENDS Tiny

CONSTANTS c1, c2

MCSystems == {[window |-> 1, procs |-> 3, tty |-> TRUE], [window |-> 1, procs |-> 5, tty |-> FALSE]}

Scene(k1, k2, a1, a2) == [kind |-> c1 :> k1 @@ c2 :> k2, ask |-> c1 :> a1 @@ c2 :> a2]
Plain(req) == [req |-> req, headers |-> <<>>]

(* No headers, one line, and one that fills the buffer.                      *)
Headers == {<<>>, <<"h", NL>>, <<"h", "h", NL>>}

MCScenes ==
    {Scene(k, "absent", Plain(q), Plain("file")) : k \in Kinds, q \in Requests}
    \cup {Scene(k, "absent", [req |-> "file", headers |-> h], Plain("file")) : k \in Kinds, h \in Headers}
    \cup {Scene("ok", k, Plain("empty"), Plain("noamp")) : k \in Kinds}
    \cup {Scene("waits", "ok", Plain("adder"), Plain("size1"))}
=============================================================================
