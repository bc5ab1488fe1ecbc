------------------------------- MODULE Conns -------------------------------
(***************************************************************************)
(* TCP connections between a server and its clients, as both see them:     *)
(* what is sent arrives in any pieces, a read returns what there is, and a *)
(* write takes what there is room for.                                     *)
(*                                                                         *)
(* A client of kind                                                        *)
(*   ok      sends its bytes, shuts down its side and reads up to the end; *)
(*   waits   is hw-sockets/client.c: it sends everything, then reads up to *)
(*           the end, but never shuts its side down;                       *)
(*   early   shuts its side down before it has sent all;                   *)
(*   deaf    sends and never reads;                                        *)
(*   resets  may reset the connection at any time;                         *)
(*   idle    only connects;                                                *)
(*   absent  does not even do that.                                        *)
(***************************************************************************)
EXTENDS Rio

CONSTANTS Clients

VARIABLES
    kind, msg,      \* each client's kind, and what it sends
    conn,           \* each connection
    backlog         \* connections not yet accepted, oldest first

connVars == <<kind, msg, conn, backlog>>

Kinds == {"ok", "waits", "early", "deaf", "resets", "idle", "absent"}

(* open is who holds a descriptor of the server's end; in and out are the   *)
(* bytes that wait to be read there and at the client; err is a reset the   *)
(* server has not been told of.                                             *)
ConnInit(kinds, m) ==
    /\ kind \in kinds /\ msg = m
    /\ conn = [c \in Clients |->
                 [up |-> FALSE, open |-> {}, unsent |-> m[c], fin |-> FALSE, err |-> FALSE,
                  gone |-> FALSE, in |-> <<>>, out |-> <<>>, got |-> <<>>]]
    /\ backlog = <<>>

Drop(s, n) == SubSeq(s, n + 1, Len(s))
Taking(s) == 1 .. Len(s)

Connect(c) ==
    /\ kind[c] # "absent" /\ ~conn[c].up
    /\ conn' = [conn EXCEPT ![c].up = TRUE]
    /\ backlog' = Append(backlog, c)
    /\ UNCHANGED <<kind, msg>>

Talks(c) == conn[c].up /\ ~conn[c].gone
Changes(c, r) == conn' = [conn EXCEPT ![c] = r] /\ UNCHANGED <<kind, msg, backlog>>

ClientSend(c) ==
    /\ Talks(c) /\ kind[c] # "idle" /\ ~conn[c].fin
    /\ \E n \in Taking(conn[c].unsent) :
         Changes(c, [conn[c] EXCEPT !.unsent = Drop(@, n),
                                    !.in = @ \o SubSeq(conn[c].unsent, 1, n)])

ClientShut(c) ==
    /\ Talks(c) /\ ~conn[c].fin
    /\ \/ kind[c] = "ok" /\ conn[c].unsent = <<>>
       \/ kind[c] = "early"
    /\ Changes(c, [conn[c] EXCEPT !.fin = TRUE])

ClientRead(c) ==
    /\ Talks(c) /\ conn[c].out # <<>>
    /\ kind[c] # "deaf" /\ (kind[c] = "waits" => conn[c].unsent = <<>>)
    /\ Changes(c, [conn[c] EXCEPT !.out = <<>>, !.got = @ \o conn[c].out])

(* What has arrived can still be read; what has not is as good as unsent.   *)
ClientReset(c) ==
    /\ Talks(c) /\ kind[c] = "resets"
    /\ \E n \in 0 .. Len(conn[c].in) :
         Changes(c, [conn[c] EXCEPT !.gone = TRUE, !.err = TRUE, !.fin = TRUE, !.out = <<>>,
                                    !.in = SubSeq(@, 1, n),
                                    !.unsent = Drop(conn[c].in, n) \o @])

ClientStep(c) == ClientSend(c) \/ ClientShut(c) \/ ClientRead(c)

(* What a read of the server finds at its end: bytes, the end of the file,  *)
(* or an error, of which it is told once.                                   *)
Ready(c) == conn[c].in # <<>>
AtEnd(c) == conn[c].fin /\ conn[c].in = <<>> /\ ~conn[c].err
Broken(c) == conn[c].in = <<>> /\ conn[c].err
Arrived(c) == Ready(c) \/ AtEnd(c) \/ Broken(c)

Told(c) == [conn EXCEPT ![c].err = FALSE]
Without(c, who) == [conn EXCEPT ![c].open = @ \ {who}]
AllClosed == [c \in Clients |-> [conn[c] EXCEPT !.open = {}]]
Accepted == [conn EXCEPT ![Head(backlog)].open = {"main"}]

(* The client has everything it will ever get, and knows it.                *)
Finished(c) == conn[c].up /\ conn[c].open = {} /\ conn[c].out = <<>> /\ c \notin ToSet(backlog)
=============================================================================
