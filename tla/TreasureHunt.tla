---------------------------- MODULE TreasureHunt ----------------------------
(***************************************************************************)
(* treasure_hunter.c and the server of its README, over a network that may *)
(* lose, duplicate or delay datagrams.  The client sends each request once *)
(* and takes the next datagram that comes for its answer.                  *)
(*                                                                         *)
(* world is what the client cannot know: the level, what the network does, *)
(* whether names resolve, a local port another program has bound, and two  *)
(* values that are never set: the upper bytes of opt_code, and what is     *)
(* left of the address list when it has been freed.                        *)
(***************************************************************************)
EXTENDS Integers, SequencesExt

CONSTANTS
    Worlds,         \* the worlds considered
    Chunks,         \* chunks of the treasure
    Remotes,        \* the server's ports
    Locals,         \* ports the client may be told to bind
    Nonces,         \* nonces the server may send
    Width,          \* a nonce is an integer modulo Width, 2^32 in the code
    MaxCopies       \* datagrams the network may duplicate in all

ASSUME HuntAssumption ==
    /\ Chunks \in Nat \ {0} /\ Width \in Nat \ {0} /\ MaxCopies \in Nat
    /\ Nonces \subseteq 0 .. Width - 1 /\ Nonces # {}
    /\ Remotes \subseteq 1 .. 9 /\ Remotes # {}
    /\ Locals \subseteq 11 .. 18 /\ Locals # {}
    /\ \A w \in Worlds : w.level \in 0 .. 4

VARIABLES
    world,          \* [level, faults, upper, overwritten, resolves, taken]
    net,            \* datagrams under way, in the order they were sent
    inbox,          \* those in the client's socket
    cl,             \* the client
    sv,             \* the server
    copies          \* datagrams duplicated so far

vars == <<world, net, inbox, cl, sv, copies>>

Ephemeral == 19     \* a port the kernel chooses
Anyone == 10        \* before the first request the server knows no client
OtherFamily == 0    \* the client's IPv6 address, which it never uses

Datagram(to, from, what) == [to |-> to, from |-> from, what |-> what]
Hello == [kind |-> "hello"]
Nonce(n) == [kind |-> "nonce", nonce |-> n]
Over == [kind |-> "over"]
Error(e) == [kind |-> "error", code |-> e]
Empty == [kind |-> "empty"]
Directions(c, o, p, n) == [kind |-> "directions", chunk |-> c, op |-> o, param |-> p, nonce |-> n]

Init ==
    /\ world \in Worlds
    /\ net = <<>> /\ inbox = <<>> /\ copies = 0
    /\ \E p \in Remotes :
         /\ cl = [at |-> "first", local |-> Ephemeral, remote |-> p, list |-> "freed",
                  chunk |-> 0, got |-> <<>>, nonce |-> 0, left |-> 0]
         /\ sv = [port |-> p, client |-> Anyone, sent |-> 0, nonce |-> 0]

-----------------------------------------------------------------------------
(* The network and the server.                                              *)
Move(i) ==
    LET d == net[i] IN
    /\ net' = RemoveAt(net, i)
    /\ inbox' = (IF d.to = cl.local THEN Append(inbox, d) ELSE inbox)

Deliver ==
    /\ \E i \in DOMAIN net :
         /\ net[i].to > 9
         /\ "delay" \in world.faults \/ i = 1
         /\ Move(i)
    /\ UNCHANGED <<world, cl, sv, copies>>

Lose ==
    /\ "lose" \in world.faults
    /\ \E i \in DOMAIN net : net' = RemoveAt(net, i)
    /\ UNCHANGED <<world, inbox, cl, sv, copies>>

Duplicate ==
    /\ "duplicate" \in world.faults /\ copies < MaxCopies
    /\ \E i \in DOMAIN net : net' = Append(net, net[i])
    /\ copies' = copies + 1
    /\ UNCHANGED <<world, inbox, cl, sv>>

OpsOf(level) == IF level < 2 THEN {level} ELSE 1 .. level

(* The nonce of the next request: from the ports that sent the empty        *)
(* datagrams, or from the directions.                                       *)
Expected(op, ports, n) == ((IF op = 3 THEN FoldFunction(+, 0, ports) ELSE n) + 1) % Width

(* The answer to a good request: the next directions, and the empty         *)
(* datagrams they announce.                                                 *)
Directs(rest, client) ==
    \E op \in OpsOf(world.level), p \in Remotes \cup Locals, n \in Nonces :
        /\ op \in {0, 4} => p = Min(Remotes)
        /\ op \in {1, 3} => p \in Remotes
        /\ op = 2 => p \in Locals
        /\ \E f \in [1 .. (IF op = 3 THEN p ELSE 0) -> Remotes] :
             /\ net' = rest \o <<Datagram(client, sv.port, Directions(sv.sent + 1, op, p, n))>>
                            \o [i \in DOMAIN f |-> Datagram(client, f[i], Empty)]
             /\ sv' = [port |-> IF op = 1 THEN p ELSE sv.port,
                       client |-> CASE op = 2 -> p [] op = 4 -> OtherFamily [] OTHER -> client,
                       sent |-> sv.sent + 1,
                       nonce |-> Expected(op, f, n)]

Answer(rest, d, what) ==
    /\ net' = Append(rest, Datagram(d.from, sv.port, what))
    /\ UNCHANGED sv

ServerGets ==
    /\ \E i \in DOMAIN net :
         LET d == net[i]
             rest == RemoveAt(net, i)
             hello == d.what = Hello
             known == d.from = sv.client
             right == d.what = Nonce(sv.nonce) IN
         /\ d.to \in 1 .. 9
         /\ "delay" \in world.faults \/ i = 1
         /\ \/ d.to # sv.port /\ net' = rest /\ UNCHANGED sv
            \/ /\ d.to = sv.port
               /\ \/ hello /\ sv.client = Anyone /\ Directs(rest, d.from)
                  \/ sv.client # Anyone /\ ~known /\ Answer(rest, d, Error(129))
                  \/ known /\ hello /\ Answer(rest, d, Error(130))
                  \/ known /\ ~hello /\ ~right /\ Answer(rest, d, Error(131))
                  \/ known /\ right /\ sv.sent < Chunks /\ Directs(rest, d.from)
                  \/ known /\ right /\ sv.sent = Chunks /\ Answer(rest, d, Over)
    /\ UNCHANGED <<world, inbox, cl, copies>>

-----------------------------------------------------------------------------
(* The client.                                                              *)
(* Until an op code 1 has been followed the address is one of the list that *)
(* has been freed: what is there by now may be it, another or none.         *)
Garbled == cl.list = "freed" /\ world.overwritten
Send(what, at) ==
    /\ \/ /\ net' = Append(net, Datagram(cl.remote, cl.local, what))
          /\ cl' = [cl EXCEPT !.at = at]
       \/ /\ Garbled
          /\ \E result \in {at, "failed"} : cl' = [cl EXCEPT !.at = result]
          /\ UNCHANGED net
    /\ UNCHANGED <<world, inbox, sv, copies>>
SendFirst == cl.at = "first" /\ Send(Hello, "read")
SendNonce == cl.at = "send" /\ Send(Nonce(cl.nonce), "read")

Plus1(n) == (n + 1) % Width

(* opt_code: only its lowest byte is ever set.                              *)
Opcode(d) == IF world.upper THEN 256 + d.op ELSE d.op

(* Read, as far as the datagram says that the hunt is over, one way or      *)
(* another.                                                                 *)
Stop ==
    /\ cl.at = "read" /\ inbox # <<>>
    /\ Head(inbox).what.kind # "directions"
    /\ inbox' = Tail(inbox)
    /\ cl' = [cl EXCEPT !.at = IF Head(inbox).what = Empty THEN "failed" ELSE "printed"]
    /\ UNCHANGED <<world, net, sv, copies>>

(* The chunk goes into the treasure and the next nonce out, whatever became *)
(* of the directions.                                                       *)
Followed(chunk, n) ==
    [cl EXCEPT !.at = "send", !.nonce = Plus1(n), !.got = Append(@, chunk), !.left = 0]

(* Op codes 0 and 4, and all of them when the upper bytes are not zero.     *)
Stay(d) ==
    /\ Opcode(d) \notin {1, 2, 3}
    /\ cl' = Followed(d.chunk, d.nonce)
    /\ inbox' = Tail(inbox)

(* Mutant: the first address found is kept.                                 *)
NewRemote_Ignored(d) ==
    /\ Opcode(d) = 1
    /\ cl' = [Followed(d.chunk, d.nonce) EXCEPT !.list = "valid"]
    /\ inbox' = Tail(inbox)

(* When the lookup fails the address stays the old one.                     *)
NewRemote(d) ==
    /\ Opcode(d) = 1
    /\ inbox' = Tail(inbox)
    /\ \/ cl' = [Followed(d.chunk, d.nonce) EXCEPT !.remote = d.param, !.list = "valid"]
       \/ ~world.resolves /\ cl' = Followed(d.chunk, d.nonce)

(* A new socket, from the family and type in the list; what was in the old  *)
(* one is lost.  If bind fails the socket gets a port with the next send.   *)
NewLocal(d) ==
    /\ Opcode(d) = 2
    /\ inbox' = <<>>
    /\ cl' = IF Garbled
                THEN [cl EXCEPT !.at = "failed"]
                ELSE [Followed(d.chunk, d.nonce) EXCEPT
                        !.local = IF d.param = world.taken THEN Ephemeral ELSE d.param]

Collect(d) ==
    /\ Opcode(d) = 3
    /\ inbox' = Tail(inbox)
    /\ cl' = [cl EXCEPT !.at = "collect", !.left = d.param, !.chunk = d.chunk, !.nonce = 0]

Read ==
    /\ cl.at = "read" /\ inbox # <<>> /\ Head(inbox).what.kind = "directions"
    /\ LET d == Head(inbox).what IN Stay(d) \/ NewRemote(d) \/ NewLocal(d) \/ Collect(d)
    /\ UNCHANGED <<world, net, sv, copies>>

(* Mutant: the sum of the ports is sent as it is.                           *)
RecvFrom_NoIncrement ==
    /\ cl.at = "collect" /\ inbox # <<>>
    /\ inbox' = Tail(inbox)
    /\ LET sum == cl.nonce + Head(inbox).from IN
         cl' = IF cl.left > 1 THEN [cl EXCEPT !.nonce = sum, !.left = @ - 1]
               ELSE [Followed(cl.chunk, sum) EXCEPT !.nonce = sum]
    /\ UNCHANGED <<world, net, sv, copies>>

(* Mutant: the chunk is appended with each datagram.                        *)
RecvFrom_AppendsEach ==
    /\ cl.at = "collect" /\ inbox # <<>>
    /\ inbox' = Tail(inbox)
    /\ LET sum == cl.nonce + Head(inbox).from IN
         cl' = IF cl.left > 1
               THEN [cl EXCEPT !.nonce = sum, !.left = @ - 1, !.got = Append(@, cl.chunk)]
               ELSE Followed(cl.chunk, sum)
    /\ UNCHANGED <<world, net, sv, copies>>

(* Whatever comes counts as one of the m empty datagrams.                   *)
RecvFrom ==
    /\ cl.at = "collect" /\ inbox # <<>>
    /\ inbox' = Tail(inbox)
    /\ LET sum == cl.nonce + Head(inbox).from IN
         cl' = IF cl.left > 1 THEN [cl EXCEPT !.nonce = sum, !.left = @ - 1]
               ELSE Followed(cl.chunk, sum)
    /\ UNCHANGED <<world, net, sv, copies>>

ClientStep == SendFirst \/ SendNonce \/ Stop \/ Read \/ RecvFrom

Next == Deliver \/ Lose \/ Duplicate \/ ServerGets \/ ClientStep

(* The client runs, the server answers and datagrams that are not lost      *)
(* arrive.                                                                  *)
Spec == Init /\ [][Next]_vars /\ WF_vars(Deliver) /\ WF_vars(ServerGets) /\ WF_vars(ClientStep)

-----------------------------------------------------------------------------
Whole == [i \in 1 .. Chunks |-> i]

(* Unless an answer is duplicated, the treasure is at all times a beginning *)
(* of the server's: no chunk twice, none out of order, however late         *)
(* datagrams come (the loop of main).                                       *)
InOrder == "duplicate" \notin world.faults => IsPrefix(cl.got, Whole)

(* A network that loses or delays datagrams can make the client wait for    *)
(* ever or fail, but not print a part of the treasure as if it were all.    *)
(* It does that when it is sent a copy, told to change the address family,  *)
(* misreads the op code, or could not bind the port it was told.            *)
PrintsWhole ==
    cl.at = "printed" =>
        \/ cl.got = Whole
        \/ "duplicate" \in world.faults \/ world.level = 4 \/ world.upper
        \/ world.taken # 0

(* On a network that delivers each datagram once and in order, at any level *)
(* but the last, the client finds the treasure if memory and ports allow it *)
(* to follow the directions.                                                *)
Benign ==
    /\ world.faults = {} /\ world.level < 4 /\ ~world.upper
    /\ ~world.overwritten /\ world.resolves /\ world.taken = 0
Finds == Benign => <>(cl.at = "printed" /\ cl.got = Whole)
=============================================================================
