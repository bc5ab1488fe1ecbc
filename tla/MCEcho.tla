------------------------------- MODULE MCEcho -------------------------------
(* Two clients and every design, each with limits that suffice and with      *)
(* limits that do not.                                                       *)
EXTENDS Echo

CONSTANTS c1, c2

Limits(d, window, tasks, fds) == [design |-> d, window |-> window, tasks |-> tasks, fds |-> fds]

MCSystems ==
    {Limits("iterative", 1, 1, 3), Limits("recv", 1, 1, 1), Limits("recv", 2, 1, 3),
     Limits("forking", 1, 1, 3), Limits("forking", 1, 2, 3),
     Limits("threaded", 1, 1, 3), Limits("threaded", 1, 2, 1), Limits("threaded", 1, 2, 3),
     Limits("pool", 1, 1, 3), Limits("pool", 1, 2, 1), Limits("pool", 1, 2, 3),
     Limits("epoll", 1, 1, 1), Limits("epoll", 1, 1, 3), Limits("epoll", 3, 1, 3)}

(* A blank line and one that fills the buffer; and one that does not end.     *)
MCMessages == c1 :> <<NL, c1, c1>> @@ c2 :> <<c2>>

(* One is an ordinary client, the other one of any kind.                     *)
MCMixes == {m \in [{c1, c2} -> Kinds] : m[c1] = "ok"}
=============================================================================
