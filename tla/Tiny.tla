-------------------------------- MODULE Tiny --------------------------------
(***************************************************************************)
(* tiny.c, the web server of the proxy lab, with its CGI programs: main    *)
(* forks a child for each connection and never waits for it; a child that  *)
(* serves dynamic content forks a program onto the connection and waits.   *)
(*                                                                         *)
(* A byte is a part of a request or of an answer; NL is "\r\n".            *)
(***************************************************************************)
EXTENDS Conns

CONSTANTS
    Systems,        \* limits considered
    Scenes,         \* [kind, ask]: the clients and their requests [req, headers]
    None

VARIABLES
    sys,            \* [window, procs, tty]: of the connections, the processes, stdout
    ask,            \* what each client asks for
    main,           \* [at, fd]
    child,          \* the child for each connection
    cgi             \* the program of that child

vars == <<connVars, sys, ask, main, child, cgi>>

Errors == [post |-> "501", absent |-> "404", private |-> "403"]
Programs == {"adder", "noamp", "slow", "size1", "hello", "noexec"}
Requests == DOMAIN Errors \cup {"file", "empty", "locked"} \cup Programs

(* "h" is any byte of a header line but its end.                            *)
HeaderBytes == {"h", NL}

(* The request line fits in the buffer, and no header line is blank.        *)
ASSUME TinyAssumption ==
    /\ IsFiniteSet(Clients) /\ None \notin Clients
    /\ NL \notin Requests \cup {"h"} /\ MaxLine > 2
    /\ \A s \in Systems : s.window \in Nat \ {0} /\ s.procs \in Nat \ {0} /\ s.tty \in BOOLEAN
    /\ \A scene \in Scenes :
         /\ scene.kind \in [Clients -> Kinds]
         /\ scene.ask \in [Clients -> [req : Requests, headers : Seq(HeaderBytes)]]
         /\ \A c \in Clients : \A i \in DOMAIN scene.ask[c].headers :
              scene.ask[c].headers[i] = NL => i > 1 /\ scene.ask[c].headers[i - 1] # NL

Request(a) == <<a.req, NL>> \o a.headers \o <<NL>>

(* clienterror                                                              *)
ErrorPage(req) == <<Errors[req], "type", "length", "page">>

(* What the programs write, flush by flush.  adder.c fails on a query       *)
(* without '&'.  slow.c sends size bytes, half of them at a time if not     *)
(* told otherwise.                                                          *)
adder(amp) == IF amp THEN <<"fields", "sum">> ELSE <<>>

ChunkSize(size, chunksize) == IF chunksize <= 1 THEN size \div 2 ELSE chunksize
slow(size, chunksize) ==
    LET chunk == ChunkSize(size, chunksize)
        chunks == IF chunk = 0 THEN 0 ELSE (size + chunk - 1) \div chunk IN
    <<"fields">> \o [i \in 1 .. chunks |-> "chunk"]

hello == <<"hello">>

(* One that cannot be executed leaves the child's copy of stdout to be      *)
(* flushed into the connection, if stdout is not a terminal.                *)
Output(req, tty) ==
    CASE req = "adder" -> adder(TRUE)
      [] req = "noamp" -> adder(FALSE)
      [] req = "slow" -> slow(3, 2)
      [] req = "size1" -> slow(1, 0)
      [] req = "hello" -> hello
      [] req = "noexec" -> IF tty THEN <<>> ELSE <<"log">>

(* With chunks of no bytes slow.c never ends.                               *)
Endless(req) == req = "size1" /\ ChunkSize(1, 0) = 0

Answer(req, tty) ==
    IF req \in DOMAIN Errors THEN ErrorPage(req)
    ELSE IF req \in Programs THEN <<"200", "server">> \o Output(req, tty)
    ELSE IF req = "file" THEN <<"head", "content">> ELSE <<"head">>

NoChild == [at |-> "none", rio |-> rio_readinitb, todo |-> <<>>, next |-> "none"]

Init ==
    /\ sys \in Systems
    /\ \E scene \in Scenes :
         /\ ask = scene.ask
         /\ ConnInit({scene.kind}, [c \in Clients |-> Request(scene.ask[c])])
    /\ main = [at |-> "setup", fd |-> None]
    /\ child = [c \in Clients |-> NoChild]
    /\ cgi = [c \in Clients |-> [at |-> "none", todo |-> <<>>]]

(* Zombies count, until their parent has exited.                            *)
Processes ==
    IF main.at = "exited" THEN {c \in Clients : child[c].at \notin {"none", "zombie"}}
    ELSE {None} \cup {c \in Clients : child[c].at # "none"}
Forked == {c \in Clients : cgi[c].at \notin {"none", "reaped"}}
Room == Cardinality(Processes) + Cardinality(Forked) < sys.procs

-----------------------------------------------------------------------------
(* main.                                                                    *)
Open_listenfd ==
    /\ main.at = "setup"
    /\ \E at \in {"accept", "exited"} : main' = [main EXCEPT !.at = at]
    /\ UNCHANGED <<connVars, sys, ask, child, cgi>>

Accept ==
    /\ main.at = "accept" /\ backlog # <<>>
    /\ main' = [at |-> "fork", fd |-> Head(backlog)]
    /\ conn' = Accepted /\ backlog' = Tail(backlog)
    /\ UNCHANGED <<kind, msg, sys, ask, child, cgi>>

(* Children stay zombies, so that in the end there is no process left: Fork *)
(* then ends the server.                                                    *)
Fork ==
    /\ main.at = "fork"
    /\ \/ /\ Room
          /\ conn' = [conn EXCEPT ![main.fd].open = {"main", "child"}]
          /\ child' = [child EXCEPT ![main.fd].at = "request"]
          /\ main' = [main EXCEPT !.at = "close"]
       \/ /\ ~Room
          /\ conn' = Without(main.fd, "main")
          /\ main' = [at |-> "exited", fd |-> None]
          /\ UNCHANGED child
    /\ UNCHANGED <<kind, msg, backlog, sys, ask, cgi>>

(* Mutant: main waits for the child first.                                  *)
Close_Waits ==
    /\ main.at = "close" /\ child[main.fd].at = "zombie"
    /\ conn' = Without(main.fd, "main")
    /\ main' = [at |-> "accept", fd |-> None]
    /\ UNCHANGED <<kind, msg, backlog, sys, ask, child, cgi>>

Close ==
    /\ main.at = "close"
    /\ conn' = Without(main.fd, "main")
    /\ main' = [at |-> "accept", fd |-> None]
    /\ UNCHANGED <<kind, msg, backlog, sys, ask, child, cgi>>

-----------------------------------------------------------------------------
(* A child.  It writes parts, one for each Rio_writen, and goes on.         *)
Rest == UNCHANGED <<sys, ask, main, cgi>>
Becomes(c, r) == child' = [child EXCEPT ![c] = r]
Writes(c, s, next) == Becomes(c, [child[c] EXCEPT !.at = "write", !.todo = s, !.next = next])

(* Rio_readlineb has returned a line: sscanf takes the method and the URI.  *)
RequestLine(c, r) ==
    IF Head(r.user) = "post"
    THEN [child[c] EXCEPT !.rio = Returned(r), !.at = "write", !.todo = ErrorPage("post"), !.next = "close"]
    ELSE [child[c] EXCEPT !.rio = Returned(r), !.at = "headers"]

(* Mutant: the first header line is taken for the last.                     *)
HeaderLine_First(c, r) == [child[c] EXCEPT !.rio = Returned(r), !.at = "serve"]

(* strcmp(buf, "\r\n")                                                      *)
HeaderLine(c, r) ==
    [child[c] EXCEPT !.rio = Returned(r), !.at = IF r.user = <<NL>> THEN "serve" ELSE "headers"]

Line(c, r) ==
    CASE ~LineRead(r) -> [child[c] EXCEPT !.rio = r]
      [] LineRead(r) /\ child[c].at = "request" -> RequestLine(c, r)
      [] LineRead(r) /\ child[c].at = "headers" -> HeaderLine(c, r)

Rio_readlineb(c) ==
    /\ child[c].at \in {"request", "headers"}
    /\ \/ /\ NeedsRead(child[c].rio) /\ Ready(c)
          /\ LET n == Min({RioBuf, Len(conn[c].in)}) IN
             /\ Changes(c, [conn[c] EXCEPT !.in = Drop(@, n)])
             /\ Becomes(c, Line(c, Copied(Refilled(child[c].rio, SubSeq(conn[c].in, 1, n)))))
       \/ /\ child[c].rio.buf # <<>>
          /\ Becomes(c, Line(c, Copied(child[c].rio)))
          /\ UNCHANGED connVars
    /\ Rest

(* At the end of the file: without a request line there is nothing to do;   *)
(* without its end the request line does; but read_requesthdrs never finds  *)
(* its blank line and reads for ever.                                       *)
EndOfFile(c) ==
    /\ child[c].at \in {"request", "headers"} /\ NeedsRead(child[c].rio) /\ AtEnd(c)
    /\ LET r == child[c].rio IN
         Becomes(c, CASE child[c].at = "headers" -> [child[c] EXCEPT !.at = "spins"]
                      [] child[c].at = "request" /\ r.user = <<>> -> [child[c] EXCEPT !.at = "close"]
                      [] child[c].at = "request" /\ r.user # <<>> -> RequestLine(c, r))
    /\ UNCHANGED connVars /\ Rest

(* parse_uri, stat and what follows from them.                              *)
Serve(c) ==
    /\ child[c].at = "serve"
    /\ LET req == ask[c].req IN
       \/ req \in DOMAIN Errors /\ Writes(c, ErrorPage(req), "close")
       \/ req \in Programs /\ Writes(c, <<"200", "server">>, "fork")
       \/ req \notin DOMAIN Errors \cup Programs /\ Writes(c, <<"head">>, "map")
    /\ UNCHANGED connVars /\ Rest

(* Mutant: one write for each part, whatever it wrote.                      *)
Rio_writen_Once(c) ==
    /\ child[c].at = "write" /\ ~conn[c].gone
    /\ LET n == Min({Len(child[c].todo), sys.window - Len(conn[c].out)}) IN
         /\ n > 0
         /\ Changes(c, [conn[c] EXCEPT !.out = @ \o SubSeq(child[c].todo, 1, n)])
         /\ Becomes(c, [child[c] EXCEPT !.todo = <<>>, !.at = child[c].next])
    /\ Rest

Rio_writen(c) ==
    /\ child[c].at = "write" /\ ~conn[c].gone
    /\ LET n == Min({Len(child[c].todo), sys.window - Len(conn[c].out)}) IN
         /\ n > 0
         /\ Changes(c, [conn[c] EXCEPT !.out = @ \o SubSeq(child[c].todo, 1, n)])
         /\ Becomes(c, [child[c] EXCEPT !.todo = Drop(@, n),
                            !.at = IF n = Len(child[c].todo) THEN child[c].next ELSE "write"])
    /\ Rest

(* Open and Mmap: the file may be another's, and no bytes cannot be mapped. *)
Map(c) ==
    /\ child[c].at = "map" /\ ask[c].req = "file"
    /\ Writes(c, <<"content">>, "close")
    /\ UNCHANGED connVars /\ Rest

(* Returns to main, or a call failed; a reset is noticed by reading or by   *)
(* writing, as an error or as SIGPIPE.                                      *)
ChildExits(c) ==
    /\ \/ child[c].at = "close"
       \/ child[c].at = "map" /\ ask[c].req \in {"empty", "locked"}
       \/ child[c].at \in {"request", "headers"} /\ NeedsRead(child[c].rio) /\ Broken(c)
       \/ child[c].at = "write" /\ conn[c].gone
       \/ child[c].at = "fork" /\ ~Room
    /\ conn' = Without(c, "child")
    /\ Becomes(c, [child[c] EXCEPT !.at = "zombie"])
    /\ UNCHANGED <<kind, msg, backlog>> /\ Rest

ForkCgi(c) ==
    /\ child[c].at = "fork" /\ Room
    /\ conn' = [conn EXCEPT ![c].open = @ \cup {"cgi"}]
    /\ Becomes(c, [child[c] EXCEPT !.at = "wait"])
    /\ cgi' = [cgi EXCEPT ![c] = [at |-> "exec", todo |-> <<>>]]
    /\ UNCHANGED <<kind, msg, backlog, sys, ask, main>>

Wait(c) ==
    /\ child[c].at = "wait" /\ cgi[c].at = "zombie"
    /\ Becomes(c, [child[c] EXCEPT !.at = "close"])
    /\ cgi' = [cgi EXCEPT ![c].at = "reaped"]
    /\ UNCHANGED <<connVars, sys, ask, main>>

-----------------------------------------------------------------------------
(* A program.                                                               *)
Exec(c) ==
    /\ cgi[c].at = "exec"
    /\ cgi' = [cgi EXCEPT ![c] = [at |-> "runs", todo |-> Output(ask[c].req, sys.tty)]]
    /\ UNCHANGED <<connVars, sys, ask, main, child>>

(* A flush of stdout; when the client has reset, nobody looks at the error. *)
CgiWrites(c) ==
    /\ cgi[c].at = "runs" /\ cgi[c].todo # <<>>
    /\ \/ /\ ~conn[c].gone /\ Len(conn[c].out) < sys.window
          /\ Changes(c, [conn[c] EXCEPT !.out = Append(@, Head(cgi[c].todo))])
       \/ conn[c].gone /\ UNCHANGED connVars
    /\ cgi' = [cgi EXCEPT ![c].todo = Tail(@)]
    /\ UNCHANGED <<sys, ask, main, child>>

CgiExits(c) ==
    /\ cgi[c].at = "runs" /\ cgi[c].todo = <<>> /\ ~Endless(ask[c].req)
    /\ conn' = Without(c, "cgi")
    /\ cgi' = [cgi EXCEPT ![c].at = "zombie"]
    /\ UNCHANGED <<kind, msg, backlog, sys, ask, main, child>>

-----------------------------------------------------------------------------
Client(c) ==
    /\ (main.at \notin {"setup", "exited"} /\ Connect(c)) \/ ClientStep(c) \/ ClientReset(c)
    /\ UNCHANGED <<sys, ask, main, child, cgi>>

(* A connection that is closed before all that came has been read is reset, *)
(* and what is on its way to the client may be lost.                        *)
LoseRest(c) ==
    /\ child[c].at = "zombie" /\ conn[c].open = {} /\ conn[c].in # <<>> /\ conn[c].out # <<>>
    /\ Changes(c, [conn[c] EXCEPT !.out = <<>>])
    /\ UNCHANGED <<sys, ask, main, child, cgi>>

MainStep == Open_listenfd \/ Accept \/ Fork \/ Close
ChildStep(c) ==
    \/ Rio_readlineb(c) \/ EndOfFile(c) \/ Serve(c) \/ Rio_writen(c) \/ Map(c)
    \/ ChildExits(c) \/ ForkCgi(c) \/ Wait(c)
CgiStep(c) == Exec(c) \/ CgiWrites(c) \/ CgiExits(c)

Next == MainStep \/ \E c \in Clients : Client(c) \/ LoseRest(c) \/ ChildStep(c) \/ CgiStep(c)

Spec == Init /\ [][Next]_vars

(* Processes run; clients that have connected go on, none has to reset.     *)
FairSpec ==
    /\ Spec /\ WF_vars(MainStep)
    /\ \A c \in Clients :
         WF_vars(ChildStep(c)) /\ WF_vars(CgiStep(c)) /\ WF_vars(ClientStep(c) /\ Client(c))

-----------------------------------------------------------------------------
(* Enough processes for every child, as a zombie too, and every program.    *)
Enough == sys.procs > 2 * Cardinality(Clients)

(* A client receives the answer to its own request, in order, and no part   *)
(* of another's; when its child has ended, it is the whole answer, unless   *)
(* the client has reset, or asked nothing, or processes were short, or part *)
(* of the request was left unread: clienterror answers a POST at once.      *)
AnswersExact ==
    \A c \in Clients :
        LET answer == conn[c].got \o conn[c].out IN
        /\ IsPrefix(answer, Answer(ask[c].req, sys.tty))
        /\ child[c].at = "zombie" =>
              \/ conn[c].gone \/ ~Enough \/ conn[c].in # <<>>
              \/ answer = IF conn[c].unsent = msg[c] THEN <<>> ELSE Answer(ask[c].req, sys.tty)

(* When a child begins to serve it has read all of the request up to the    *)
(* blank line and nothing behind it; the exception is a header line that    *)
(* just fills the buffer, whose "\r\n" is then read as a line of its own.   *)
HeadersRead ==
    \A c \in Clients :
        child[c].at = "serve" =>
            \/ Len(conn[c].unsent \o conn[c].in \o child[c].rio.buf) = 0
            \/ \E i \in 1 .. Len(ask[c].headers) - (MaxLine - 2) :
                  \A j \in i .. i + MaxLine - 2 : ask[c].headers[j] # NL

(* A client that sends its request and reads gets the answer and its end,   *)
(* whatever the others do, as long as there are enough processes and its    *)
(* child did not end with part of the request unread: no child that spins,  *)
(* waits or is killed holds up another.                                     *)
Served ==
    <>[](\A c \in Clients :
            kind[c] \in {"ok", "waits"} /\ ~Endless(ask[c].req) /\ Enough
            /\ conn[c].up /\ ~(child[c].at = "zombie" /\ conn[c].in # <<>>) =>
                conn[c].got = Answer(ask[c].req, sys.tty) /\ Finished(c))
=============================================================================
