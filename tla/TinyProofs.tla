----------------------------- MODULE TinyProofs ------------------------------
(****************************************************************************)
(* tiny.c with any number of clients, any requests and any limits: every    *)
(* client gets the answer to its own request, whole when its child ends in  *)
(* good order, and a child serves only what it has read to its blank line.  *)
(*                                                                          *)
(* Clients share nothing but the processes, so the invariant speaks of one  *)
(* connection at a time: where the bytes read, held and still to come lie   *)
(* in the request, and what the child and its program still owe the client. *)
(****************************************************************************)
EXTENDS Tiny, Induction, SequenceTheorems, FiniteSetTheorems

(* The values of the variables.                                             *)
Bytes == Requests \cup HeaderBytes
Parts == {"501", "404", "403", "type", "length", "page", "fields", "sum", "chunk", "hello",
          "log", "200", "server", "head", "content"}
ConnType ==
    [up : BOOLEAN, open : SUBSET {"main", "child", "cgi"}, unsent : Seq(Bytes), fin : BOOLEAN,
     err : BOOLEAN, gone : BOOLEAN, in : Seq(Bytes), out : Seq(Parts), got : Seq(Parts)]
RioType == [buf : Seq(Bytes), user : Seq(Bytes)]
ChildType ==
    [at : {"none", "request", "headers", "serve", "spins", "write", "map", "fork", "wait",
           "close", "zombie"},
     rio : RioType, todo : Seq(Parts), next : {"none", "close", "fork", "map"}]
CgiType == [at : {"none", "exec", "runs", "zombie", "reaped"}, todo : Seq(Parts)]
MainType == [at : {"setup", "exited", "accept", "fork", "close"}, fd : Clients \cup {None}]
AskType == {a \in [req : Requests, headers : Seq(HeaderBytes)] :
              \A i \in DOMAIN a.headers : a.headers[i] = NL => i > 1 /\ a.headers[i - 1] # NL}
SysType == [window : Nat \ {0}, procs : Nat \ {0}, tty : BOOLEAN]

Typed ==
    /\ kind \in [Clients -> Kinds] /\ ask \in [Clients -> AskType]
    /\ msg = [c \in Clients |-> Request(ask[c])]
    /\ conn \in [Clients -> ConnType] /\ backlog \in Seq(Clients)
    /\ sys.window \in Nat \ {0} /\ sys.procs \in Nat \ {0} /\ sys.tty \in BOOLEAN
    /\ main \in MainType
    /\ main.at \in {"fork", "close"} => main.fd \in Clients
    /\ child \in [Clients -> ChildType] /\ cgi \in [Clients -> CgiType]

(* Where a connection is before a child has it.                             *)
InBacklog(c) == c \in ToSet(backlog)
InHand(c) == main.at = "fork" /\ main.fd = c
Placed(c) ==
    /\ InBacklog(c) => conn[c].up /\ ~InHand(c)
    /\ InHand(c) => conn[c].up
    /\ ~conn[c].up \/ InBacklog(c) \/ InHand(c) => child[c].at = "none"
Distinct(s) == \A i, j \in DOMAIN s : s[i] = s[j] => i = j

(* The n bytes of s are those of m from behind p on.                        *)
Lies(s, n, m, p) == \A i \in 1 .. n : s[i] = m[p + i]

(* The line under way begins behind p, and what has not come is the end of  *)
(* the request.  u, b, i, v and l are the lengths.                          *)
Lie(q, r, m, p, u, b, i, v, l) ==
    /\ Lies(r.user, u, m, p) /\ Lies(r.buf, b, m, p + u)
    /\ Lies(q.in, i, m, l - v - i) /\ Lies(q.unsent, v, m, l - v)
    /\ p + u + b = l - v - i
At(q, r, m, p) ==
    Lie(q, r, m, p, Len(r.user), Len(r.buf), Len(q.in), Len(q.unsent), Len(m))

(* A line that is not finished.                                             *)
Unfinished(s) == Len(s) < MaxLine - 1 /\ \A i \in 1 .. Len(s) : s[i] # NL

(* The lines before p have been read: the last one ended with its NL or     *)
(* filled the buffer.                                                       *)
LineEnd(m, p) ==
    /\ p \in Nat /\ p >= 2
    /\ m[p] = NL \/ (p >= MaxLine - 1 /\ \A j \in p - MaxLine + 2 .. p : m[j] # NL)

Over(q, r) == q.fin /\ q.in = <<>> /\ r.buf = <<>> /\ r.user = <<>>
Filled(h) ==
    \E i \in 1 .. Len(h) - (MaxLine - 2) :
        \A j \in i .. i + MaxLine - 2 : h[j] # NL

Reading(q, k, a) ==
    /\ k.at \in {"none", "request"} => Unfinished(k.rio.user) /\ At(q, k.rio, Request(a), 0)
    /\ k.at = "none" => k.rio = rio_readinitb
    /\ k.at = "headers" =>
         \/ Over(q, k.rio)
         \/ /\ Unfinished(k.rio.user)
            /\ \E p \in Nat : LineEnd(Request(a), p) /\ At(q, k.rio, Request(a), p)
    /\ k.at = "serve" =>
         (Len(q.unsent) = 0 /\ Len(q.in) = 0 /\ Len(k.rio.buf) = 0) \/ Filled(a.headers)

(* What a client has been sent, and what child and program still have to    *)
(* send.                                                                    *)
Cat(s, t) == s \o t
Sent(q) == Cat(q.got, q.out)
After(next, req, tty) ==
    IF next = "fork" THEN Output(req, tty)
    ELSE IF next = "map" /\ req = "file" THEN <<"content">> ELSE <<>>
Owes(k, g, req, tty) ==
    CASE k.at \in {"none", "request", "headers", "serve", "spins"} -> Answer(req, tty)
      [] k.at = "write" -> Cat(k.todo, After(k.next, req, tty))
      [] k.at \in {"map", "fork"} -> After(k.at, req, tty)
      [] k.at = "wait" /\ g.at = "exec" -> Output(req, tty)
      [] k.at = "wait" /\ g.at # "exec" -> g.todo
      [] k.at \in {"close", "zombie"} -> <<>>

InTurn(k, g, req) ==
    /\ k.at = "write" => k.next # "none"
    /\ k.at = "write" /\ k.next = "fork" => req \in Programs
    /\ k.at = "write" /\ k.next = "map" => req \notin DOMAIN Errors \cup Programs
    /\ k.at \in {"fork", "wait"} => req \in Programs
    /\ k.at = "map" => req \notin DOMAIN Errors \cup Programs
    /\ IF k.at = "wait" THEN g.at \in {"exec", "runs", "zombie"} ELSE g.at \in {"none", "reaped"}
    /\ k.at \notin {"wait", "close", "zombie"} => g.at = "none"
    /\ g.at = "zombie" => g.todo = <<>>

Plenty(s) == s.procs > 2 * Cardinality(Clients)
Heard(q, a) == Len(q.unsent) < Len(Request(a))
Silent(q, a) == Sent(q) = <<>> /\ q.unsent = Request(a)
Paid(q, k, g, a, tty) ==
    /\ Cat(Sent(q), Owes(k, g, a.req, tty)) = Answer(a.req, tty)
    /\ k.at \in {"none", "request"} \/ Heard(q, a)
Answering(q, k, g, a, tty) ==
    /\ IsPrefix(Sent(q), Answer(a.req, tty))
    /\ \/ q.gone \/ k.at = "zombie"
       \/ k.at = "close" /\ q.fin /\ Silent(q, a)
       \/ Paid(q, k, g, a, tty)
Ended(q, k, a, s) ==
    k.at = "zombie" =>
        \/ q.gone \/ ~Plenty(s) \/ q.in # <<>>
        \/ Silent(q, a)
        \/ Sent(q) = Answer(a.req, s.tty) /\ Heard(q, a)

Reset(q) == (q.gone => q.out = <<>> /\ q.fin) /\ (q.err <=> q.gone)
Good(q, k, g, a, s) ==
    /\ Reset(q) /\ InTurn(k, g, a.req) /\ Reading(q, k, a)
    /\ Answering(q, k, g, a, s.tty) /\ Ended(q, k, a, s)

Safe ==
    /\ \A c \in Clients : Placed(c) /\ Good(conn[c], child[c], cgi[c], ask[c], sys)
    /\ Distinct(backlog)
IInv == Typed /\ Safe

-----------------------------------------------------------------------------
(* Sequences: a part at the front and what is left.                         *)
LEMMA Split ==
    ASSUME NEW S, NEW s \in Seq(S), NEW n \in 0 .. Len(s)
    PROVE  /\ SubSeq(s, 1, n) \in Seq(S) /\ Len(SubSeq(s, 1, n)) = n
           /\ \A i \in 1 .. n : SubSeq(s, 1, n)[i] = s[i]
           /\ Drop(s, n) \in Seq(S) /\ Len(Drop(s, n)) = Len(s) - n
           /\ \A i \in 1 .. Len(s) - n : Drop(s, n)[i] = s[n + i]
<1>1. Len(s) \in Nat /\ \A i \in 1 .. Len(s) : s[i] \in S
  BY ElementOfSeq
<1>2. \A i \in 1 .. n : SubSeq(s, 1, n)[i] = s[i]
  BY <1>1
<1>3. SubSeq(s, 1, n) \in Seq(S) /\ Len(SubSeq(s, 1, n)) = n
  BY <1>1, SubSeqProperties
<1>4. Drop(s, n) \in Seq(S) /\ Len(Drop(s, n)) = Len(s) - n
  BY <1>1, SubSeqProperties DEF Drop
<1>5. \A i \in 1 .. Len(s) - n : Drop(s, n)[i] = s[n + i]
  BY <1>1 DEF Drop
<1> QED BY <1>2, <1>3, <1>4, <1>5

(* A concatenation, element by element.                                     *)
LEMMA Joined ==
    ASSUME NEW S, NEW s \in Seq(S), NEW t \in Seq(S)
    PROVE  /\ s \o t \in Seq(S) /\ Len(s \o t) = Len(s) + Len(t)
           /\ \A i \in 1 .. Len(s) : (s \o t)[i] = s[i]
           /\ \A i \in 1 .. Len(t) : (s \o t)[Len(s) + i] = t[i]
OBVIOUS

(* The same two of bytes, each under a name.                                *)
Halves(x, y, s, n) ==
    /\ x \in Seq(Bytes) /\ Len(x) = n /\ \A j \in 1 .. n : x[j] = s[j]
    /\ y \in Seq(Bytes) /\ Len(y) = Len(s) - n
    /\ \A j \in 1 .. Len(s) - n : y[j] = s[n + j]
LEMMA Halving ==
    ASSUME NEW s \in Seq(Bytes), NEW n \in 0 .. Len(s)
    PROVE  Halves(SubSeq(s, 1, n), Drop(s, n), s, n)
<1> DEFINE x == SubSeq(s, 1, n)
           y == Drop(s, n)
<1>1. /\ x \in Seq(Bytes) /\ Len(x) = n /\ \A j \in 1 .. n : x[j] = s[j]
      /\ y \in Seq(Bytes) /\ Len(y) = Len(s) - n
      /\ \A j \in 1 .. Len(s) - n : y[j] = s[n + j]
  BY Split
<1> HIDE DEF x, y
<1>2. Halves(x, y, s, n)
  BY <1>1 DEF Halves
<1> QED BY <1>2 DEF x, y

(* x is s and then t.                                                       *)
Joins(x, s, t) ==
    /\ x \in Seq(Bytes) /\ Len(x) = Len(s) + Len(t)
    /\ \A j \in 1 .. Len(s) : x[j] = s[j]
    /\ \A j \in 1 .. Len(t) : x[Len(s) + j] = t[j]
LEMMA Joining ==
    ASSUME NEW s \in Seq(Bytes), NEW t \in Seq(Bytes)
    PROVE  Joins(s \o t, s, t)
<1> DEFINE x == s \o t
<1>1. /\ x \in Seq(Bytes) /\ Len(x) = Len(s) + Len(t)
      /\ \A j \in 1 .. Len(s) : x[j] = s[j]
      /\ \A j \in 1 .. Len(t) : x[Len(s) + j] = t[j]
  BY Joined
<1> HIDE DEF x
<1>2. Joins(x, s, t)
  BY <1>1 DEF Joins
<1> QED BY <1>2 DEF x

(* Concatenation: SMT rewrites nested occurrences of \o, so it has a name.  *)
LEMMA CatTyped ==
    ASSUME NEW x \in Seq(Parts), NEW y \in Seq(Parts)
    PROVE  Cat(x, y) \in Seq(Parts) /\ Len(Cat(x, y)) = Len(x) + Len(y)
BY DEF Cat

(* Concatenations can be regrouped.                                         *)
LEMMA CatAssoc ==
    ASSUME NEW x \in Seq(Parts), NEW y \in Seq(Parts), NEW z \in Seq(Parts)
    PROVE  Cat(Cat(x, y), z) = Cat(x, Cat(y, z))
BY DEF Cat

(* The empty sequence adds nothing, and nothing else does.                  *)
LEMMA CatEmpty ==
    ASSUME NEW x \in Seq(Parts)
    PROVE  Cat(<<>>, x) = x /\ Cat(x, <<>>) = x
BY DEF Cat

(* What adds nothing is empty.                                              *)
LEMMA CatNothing ==
    ASSUME NEW x \in Seq(Parts), NEW y \in Seq(Parts), Cat(x, y) = y
    PROVE  x = <<>>
<1>1. Len(Cat(x, y)) = Len(x) + Len(y) /\ Len(x) \in Nat /\ Len(y) \in Nat
  BY CatTyped, LenProperties
<1>2. Len(x) = 0
  BY <1>1
<1> QED BY <1>2, EmptySeq

(* The parts of a whole are beginnings of it.                               *)
LEMMA Beginning ==
    ASSUME NEW x \in Seq(Parts), NEW y \in Seq(Parts)
    PROVE  /\ IsPrefix(x, Cat(x, y))
           /\ \A z \in Seq(Parts) : IsPrefix(Cat(x, y), z) => IsPrefix(x, z)
<1>1. /\ Cat(x, y) \in Seq(Parts) /\ Len(Cat(x, y)) = Len(x) + Len(y)
      /\ \A i \in 1 .. Len(x) : Cat(x, y)[i] = x[i]
      /\ Len(x) \in Nat /\ Len(y) \in Nat
  BY Joined, LenProperties DEF Cat
<1> DEFINE w == Cat(x, y)
<1> HIDE DEF w
<1>2. /\ w \in Seq(Parts) /\ Len(w) = Len(x) + Len(y)
      /\ \A i \in 1 .. Len(x) : w[i] = x[i]
  BY <1>1 DEF w
<1>3. SubSeq(x, 1, Len(x)) = SubSeq(w, 1, Len(x))
  BY <1>1, <1>2
<1>4. IsPrefix(x, w)
  BY <1>1, <1>2, <1>3 DEF IsPrefix
<1>5. ASSUME NEW z \in Seq(Parts), IsPrefix(w, z) PROVE IsPrefix(x, z)
  <2>1. Len(w) <= Len(z) /\ SubSeq(w, 1, Len(w)) = SubSeq(z, 1, Len(w)) /\ Len(z) \in Nat
    BY <1>5, LenProperties DEF IsPrefix
  <2>2. \A i \in 1 .. Len(w) : w[i] = z[i]
    <3> SUFFICES ASSUME NEW i \in 1 .. Len(w) PROVE w[i] = z[i]
      OBVIOUS
    <3>1. SubSeq(w, 1, Len(w))[i] = w[i] /\ SubSeq(z, 1, Len(w))[i] = z[i]
      BY <1>1, <1>2, <2>1
    <3> QED BY <2>1, <3>1
  <2>3. SubSeq(x, 1, Len(x)) = SubSeq(z, 1, Len(x))
    BY <1>1, <1>2, <2>1, <2>2
  <2> QED BY <1>1, <1>2, <2>1, <2>3 DEF IsPrefix
<1> QED BY <1>4, <1>5 DEF w

-----------------------------------------------------------------------------
(* Reading a line.                                                          *)
(* r has moved n bytes from the buffer to the line.                         *)
Moved(t, r, n) ==
    /\ t \in RioType /\ Len(t.user) = Len(r.user) + n /\ Len(t.buf) = Len(r.buf) - n
    /\ \A i \in 1 .. Len(r.user) : t.user[i] = r.user[i]
    /\ \A i \in 1 .. n : t.user[Len(r.user) + i] = r.buf[i]
    /\ \A i \in 1 .. Len(r.buf) - n : t.buf[i] = r.buf[n + i]

(* No byte but the last ends the line.                                      *)
OneLine(s) == Len(s) <= MaxLine - 1 /\ \A i \in 1 .. Len(s) - 1 : s[i] # NL

(* rio_readlineb copies at least one byte, and what it copies goes on no    *)
(* further than the end of the line.                                        *)
LEMMA Copying ==
    ASSUME NEW r \in RioType, Unfinished(r.user), r.buf # <<>>
    PROVE  \E n \in 1 .. Len(r.buf) : Moved(Copied(r), r, n) /\ OneLine(Copied(r).user)
<1> DEFINE ends == {i \in DOMAIN r.buf : r.buf[i] = NL}
           S == ends \cup {Len(r.buf), MaxLine - 1 - Len(r.user)}
           n == Min(S)
           x == SubSeq(r.buf, 1, n)
           y == Drop(r.buf, n)
           z == r.user \o x
<1>1. r.buf \in Seq(Bytes) /\ r.user \in Seq(Bytes)
  BY DEF RioType
<1>2. /\ Len(r.buf) \in Nat \ {0} /\ Len(r.user) \in Nat /\ DOMAIN r.buf = 1 .. Len(r.buf)
      /\ Len(r.user) < MaxLine - 1 /\ MaxLine \in Nat
  BY <1>1, LenProperties, EmptySeq, RioAssumption DEF Unfinished
<1>3. S \subseteq Nat \ {0}
  <2>1. MaxLine - 1 - Len(r.user) \in Nat \ {0}
    BY <1>2
  <2>2. ends \subseteq Nat \ {0}
    BY <1>2
  <2> HIDE DEF ends
  <2> QED BY <1>2, <2>1, <2>2
<1>4. n \in S /\ \A i \in S : n <= i
  <2> HIDE DEF S
  <2>1. S # {} /\ S \subseteq Nat
    BY <1>3 DEF S
  <2> QED BY <2>1, LeastIn
<1>5. n \in 1 .. Len(r.buf) /\ n <= MaxLine - 1 - Len(r.user)
  <2>1. Len(r.buf) \in S /\ MaxLine - 1 - Len(r.user) \in S
    OBVIOUS
  <2>2. n \in Nat \ {0} /\ n <= Len(r.buf) /\ n <= MaxLine - 1 - Len(r.user)
    <3> HIDE DEF S, n
    <3> QED BY <1>3, <1>4, <2>1
  <2> HIDE DEF S, n
  <2> QED BY <1>2, <2>2
<1>6. \A i \in 1 .. n - 1 : r.buf[i] # NL
  <2> SUFFICES ASSUME NEW i \in 1 .. n - 1, r.buf[i] = NL PROVE FALSE
    OBVIOUS
  <2>1. n \in Nat /\ i \in 1 .. Len(r.buf) /\ i < n
    <3> HIDE DEF S, n
    <3> QED BY <1>2, <1>5
  <2>2. i \in S
    BY <1>2, <2>1
  <2>3. n <= i
    <3> HIDE DEF S, n
    <3> QED BY <1>4, <2>2
  <2> HIDE DEF S, n
  <2> QED BY <2>1, <2>3
<1>7. Copied(r) = [buf |-> y, user |-> z]
  BY DEF Copied, Drop
<1> HIDE DEF S, n
<1>8. /\ x \in Seq(Bytes) /\ Len(x) = n /\ \A i \in 1 .. n : x[i] = r.buf[i]
      /\ y \in Seq(Bytes) /\ Len(y) = Len(r.buf) - n
      /\ \A i \in 1 .. Len(r.buf) - n : y[i] = r.buf[n + i]
  <2>1. n \in 0 .. Len(r.buf)
    BY <1>5
  <2> QED BY <1>1, <2>1, Split
<1> HIDE DEF x, y
<1>9. /\ z \in Seq(Bytes) /\ Len(z) = Len(r.user) + n
      /\ \A i \in 1 .. Len(r.user) : z[i] = r.user[i]
      /\ \A i \in 1 .. n : z[Len(r.user) + i] = r.buf[i]
  <2>1. /\ z \in Seq(Bytes) /\ Len(z) = Len(r.user) + Len(x)
        /\ \A i \in 1 .. Len(r.user) : z[i] = r.user[i]
        /\ \A i \in 1 .. Len(x) : z[Len(r.user) + i] = x[i]
    <3> DEFINE u == r.user
    <3>1. u \in Seq(Bytes) /\ x \in Seq(Bytes)
      BY <1>1, <1>8
    <3> HIDE DEF u
    <3>2. /\ u \o x \in Seq(Bytes) /\ Len(u \o x) = Len(u) + Len(x)
          /\ \A i \in 1 .. Len(u) : (u \o x)[i] = u[i]
          /\ \A i \in 1 .. Len(x) : (u \o x)[Len(u) + i] = x[i]
      BY <3>1, Joined
    <3> QED BY <3>2 DEF u
  <2> HIDE DEF z
  <2> QED BY <1>8, <2>1
<1> HIDE DEF z
<1>10. Copied(r) \in RioType /\ Copied(r).buf = y /\ Copied(r).user = z
  BY <1>7, <1>8, <1>9 DEF RioType
<1>11. Moved(Copied(r), r, n)
  BY <1>8, <1>9, <1>10 DEF Moved
<1>12. OneLine(z)
  <2> SUFFICES ASSUME NEW i \in 1 .. Len(z) - 1 PROVE z[i] # NL
    BY <1>2, <1>5, <1>9 DEF OneLine
  <2>1. CASE i <= Len(r.user)
    BY <1>2, <1>9, <2>1 DEF Unfinished
  <2>2. CASE i > Len(r.user)
    <3> DEFINE j == i - Len(r.user)
    <3>1. j \in 1 .. n - 1 /\ i = Len(r.user) + j
      BY <1>2, <1>5, <1>9, <2>2
    <3> HIDE DEF j
    <3>2. z[i] = r.buf[j]
      BY <1>5, <1>9, <3>1
    <3> QED BY <1>6, <3>1, <3>2
  <2> QED BY <1>2, <1>9, <2>1, <2>2
<1> QED BY <1>5, <1>10, <1>11, <1>12

-----------------------------------------------------------------------------
(* Where the bytes of a request lie.                                        *)
(* The sequences of a connection and of a reader.                           *)
LEMMA Fields ==
    ASSUME NEW q \in ConnType, NEW r \in RioType
    PROVE  /\ q.unsent \in Seq(Bytes) /\ q.in \in Seq(Bytes)
           /\ q.out \in Seq(Parts) /\ q.got \in Seq(Parts)
           /\ r.user \in Seq(Bytes) /\ r.buf \in Seq(Bytes)
           /\ Len(q.unsent) \in Nat /\ Len(q.in) \in Nat /\ Len(q.out) \in Nat
           /\ Len(q.got) \in Nat /\ Len(r.user) \in Nat /\ Len(r.buf) \in Nat
BY DEF ConnType, RioType

(* Copying from the buffer to the line moves nothing.                       *)
LEMMA CopyAt ==
    ASSUME NEW q \in ConnType, NEW r \in RioType, NEW t, NEW n \in 1 .. Len(r.buf),
           Moved(t, r, n), NEW m \in Seq(Bytes), NEW p \in Nat, At(q, r, m, p)
    PROVE  At(q, t, m, p)
<1> DEFINE u == Len(r.user)
           b == Len(r.buf)
           i == Len(q.in)
           v == Len(q.unsent)
           l == Len(m)
<1>1. /\ u \in Nat /\ b \in Nat /\ i \in Nat /\ v \in Nat /\ l \in Nat /\ n \in 1 .. b
      /\ Len(t.user) = u + n /\ Len(t.buf) = b - n
  BY Fields, LenProperties DEF Moved
<1>2. /\ \A j \in 1 .. u : t.user[j] = r.user[j]
      /\ \A j \in 1 .. n : t.user[u + j] = r.buf[j]
      /\ \A j \in 1 .. b - n : t.buf[j] = r.buf[n + j]
  BY DEF Moved
<1>3. Lie(q, r, m, p, u, b, i, v, l)
  BY DEF At
<1> HIDE DEF u, b, i, v, l
<1>4. \A j \in 1 .. u : r.user[j] = m[p + j]
  BY <1>3 DEF Lie, Lies
<1>5. \A j \in 1 .. b : r.buf[j] = m[p + u + j]
  BY <1>3 DEF Lie, Lies
<1>6. ASSUME NEW k \in 1 .. u + n PROVE t.user[k] = m[p + k]
  <2>1. CASE k <= u
    BY <1>1, <1>2, <1>4, <2>1
  <2>2. CASE k > u
    <3> DEFINE j == k - u
    <3>1. j \in 1 .. n /\ j \in 1 .. b /\ k = u + j /\ p + u + j = p + k
      BY <1>1, <2>2
    <3> HIDE DEF j
    <3> QED BY <1>2, <1>5, <3>1
  <2> QED BY <1>1, <2>1, <2>2
<1>7. ASSUME NEW k \in 1 .. b - n PROVE t.buf[k] = m[p + (u + n) + k]
  <2>1. n + k \in 1 .. b /\ p + u + (n + k) = p + (u + n) + k
    BY <1>1
  <2>2. r.buf[n + k] = m[p + u + (n + k)]
    BY <1>5, <2>1
  <2> QED BY <1>2, <2>1, <2>2
<1>8. p + (u + n) + (b - n) = p + u + b
  BY <1>1
<1>9. Lie(q, t, m, p, u + n, b - n, i, v, l)
  BY <1>3, <1>6, <1>7, <1>8 DEF Lie, Lies
<1> QED BY <1>1, <1>9 DEF At, i, v, l

(* read(2) moves what has come from the connection to the buffer.           *)
LEMMA RefillAt ==
    ASSUME NEW q \in ConnType, NEW z \in ConnType, NEW r \in RioType, NEW t \in RioType,
           NEW n \in 1 .. Len(q.in), r.buf = <<>>,
           z.unsent = q.unsent, z.in = Drop(q.in, n),
           t.user = r.user, t.buf = SubSeq(q.in, 1, n),
           NEW m \in Seq(Bytes), NEW p \in Nat, At(q, r, m, p)
    PROVE  At(z, t, m, p)
<1> DEFINE u == Len(r.user)
           i == Len(q.in)
           v == Len(q.unsent)
           l == Len(m)
<1>1. u \in Nat /\ i \in Nat /\ v \in Nat /\ l \in Nat /\ n \in 1 .. i
  BY Fields, LenProperties
<1>2. Lie(q, r, m, p, u, 0, i, v, l)
  BY EmptySeq DEF At
<1>3. /\ Len(t.buf) = n /\ \A j \in 1 .. n : t.buf[j] = q.in[j]
      /\ Len(z.in) = i - n /\ \A j \in 1 .. i - n : z.in[j] = q.in[n + j]
  <2>1. q.in \in Seq(Bytes) /\ n \in 0 .. Len(q.in)
    BY <1>1, Fields
  <2>2. Halves(t.buf, z.in, q.in, n)
    BY <2>1, Halving
  <2> QED BY <2>2 DEF Halves
<1> HIDE DEF u, i, v, l
<1>4. \A j \in 1 .. i : q.in[j] = m[l - v - i + j]
  BY <1>2 DEF Lie, Lies
<1>5. p + u + 0 = l - v - i
  BY <1>2 DEF Lie
<1>6. ASSUME NEW k \in 1 .. n PROVE t.buf[k] = m[p + u + k]
  <2>1. k \in 1 .. i /\ l - v - i + k = p + u + k
    BY <1>1, <1>5
  <2> QED BY <1>3, <1>4, <2>1
<1>7. ASSUME NEW k \in 1 .. i - n PROVE z.in[k] = m[l - v - (i - n) + k]
  <2>1. n + k \in 1 .. i /\ l - v - i + (n + k) = l - v - (i - n) + k
    BY <1>1
  <2>2. q.in[n + k] = m[l - v - i + (n + k)]
    BY <1>4, <2>1
  <2> QED BY <1>3, <2>1, <2>2
<1>8. p + u + n = l - v - (i - n)
  BY <1>1, <1>5
<1>9. Lie(z, t, m, p, u, n, i - n, v, l)
  BY <1>2, <1>6, <1>7, <1>8 DEF Lie, Lies
<1> QED BY <1>3, <1>9 DEF At, u, v, l

(* n bytes of s have been put behind i: now these are y and x.              *)
Sends(x, y, i, s, n) ==
    /\ x \in Seq(Bytes) /\ Len(x) = Len(i) + n
    /\ \A j \in 1 .. Len(i) : x[j] = i[j]
    /\ \A j \in 1 .. n : x[Len(i) + j] = s[j]
    /\ y \in Seq(Bytes) /\ Len(y) = Len(s) - n
    /\ \A j \in 1 .. Len(s) - n : y[j] = s[n + j]

(* What ClientSend moves.                                                   *)
LEMMA Sending ==
    ASSUME NEW i \in Seq(Bytes), NEW s \in Seq(Bytes), NEW n \in 1 .. Len(s)
    PROVE  Sends(i \o SubSeq(s, 1, n), Drop(s, n), i, s, n)
<1> DEFINE a == SubSeq(s, 1, n)
           y == Drop(s, n)
           x == i \o a
<1>1. n \in 0 .. Len(s)
  BY LenProperties
<1>2. /\ a \in Seq(Bytes) /\ Len(a) = n /\ \A j \in 1 .. n : a[j] = s[j]
      /\ y \in Seq(Bytes) /\ Len(y) = Len(s) - n
      /\ \A j \in 1 .. Len(s) - n : y[j] = s[n + j]
  BY <1>1, Split
<1> HIDE DEF a, y
<1>3. /\ x \in Seq(Bytes) /\ Len(x) = Len(i) + Len(a)
      /\ \A j \in 1 .. Len(i) : x[j] = i[j]
      /\ \A j \in 1 .. Len(a) : x[Len(i) + j] = a[j]
  <2>1. i \in Seq(Bytes) /\ a \in Seq(Bytes)
    BY <1>2
  <2> QED BY <2>1, Joined
<1> HIDE DEF x
<1>4. /\ x \in Seq(Bytes) /\ Len(x) = Len(i) + n
      /\ \A j \in 1 .. Len(i) : x[j] = i[j]
  BY <1>2, <1>3
<1>5. \A j \in 1 .. n : x[Len(i) + j] = s[j]
  BY <1>2, <1>3
<1>6. Sends(x, y, i, s, n)
  BY <1>2, <1>4, <1>5 DEF Sends
<1> QED BY <1>6 DEF x, y, a

(* What the client sends comes.                                             *)
LEMMA SendAt ==
    ASSUME NEW q \in ConnType, NEW z \in ConnType, NEW r \in RioType,
           NEW n \in 1 .. Len(q.unsent), Sends(z.in, z.unsent, q.in, q.unsent, n),
           NEW m \in Seq(Bytes), NEW p \in Nat, At(q, r, m, p)
    PROVE  At(z, r, m, p)
<1> DEFINE u == Len(r.user)
           b == Len(r.buf)
           i == Len(q.in)
           v == Len(q.unsent)
           l == Len(m)
<1>1. u \in Nat /\ b \in Nat /\ i \in Nat /\ v \in Nat /\ l \in Nat /\ n \in 1 .. v
  BY Fields, LenProperties
<1>2. Lie(q, r, m, p, u, b, i, v, l)
  BY DEF At
<1>3. /\ Len(z.unsent) = v - n /\ \A j \in 1 .. v - n : z.unsent[j] = q.unsent[n + j]
      /\ Len(z.in) = i + n /\ \A j \in 1 .. i : z.in[j] = q.in[j]
  BY DEF Sends
<1>4. \A j \in 1 .. n : z.in[i + j] = q.unsent[j]
  BY DEF Sends
<1> HIDE DEF u, b, i, v, l
<1>5. \A j \in 1 .. i : q.in[j] = m[l - v - i + j]
  BY <1>2 DEF Lie, Lies
<1>6. \A j \in 1 .. v : q.unsent[j] = m[l - v + j]
  BY <1>2 DEF Lie, Lies
<1>7. ASSUME NEW k \in 1 .. i + n PROVE z.in[k] = m[l - (v - n) - (i + n) + k]
  <2>1. l - (v - n) - (i + n) + k = l - v - i + k
    BY <1>1
  <2>2. CASE k <= i
    <3>1. k \in 1 .. i
      BY <1>1, <2>2
    <3> QED BY <1>3, <1>5, <2>1, <3>1
  <2>3. CASE k > i
    <3> DEFINE j == k - i
    <3>1. j \in 1 .. n /\ j \in 1 .. v /\ k = i + j /\ l - v + j = l - v - i + k
      BY <1>1, <2>3
    <3> HIDE DEF j
    <3>2. z.in[k] = q.unsent[j] /\ q.unsent[j] = m[l - v + j]
      BY <1>4, <1>6, <3>1
    <3> QED BY <2>1, <3>1, <3>2
  <2> QED BY <1>1, <2>2, <2>3
<1>8. ASSUME NEW k \in 1 .. v - n PROVE z.unsent[k] = m[l - (v - n) + k]
  <2>1. n + k \in 1 .. v /\ l - v + (n + k) = l - (v - n) + k
    BY <1>1
  <2>2. q.unsent[n + k] = m[l - v + (n + k)]
    BY <1>6, <2>1
  <2> QED BY <1>3, <2>1, <2>2
<1>9. l - (v - n) - (i + n) = l - v - i
  BY <1>1
<1>10. Lie(z, r, m, p, u, b, i + n, v - n, l)
  BY <1>2, <1>7, <1>8, <1>9 DEF Lie, Lies
<1> QED BY <1>3, <1>10 DEF At, u, b, l

(* A reset takes back all that has come but for n bytes.                    *)
LEMMA ResetAt ==
    ASSUME NEW q \in ConnType, NEW z \in ConnType, NEW r \in RioType,
           NEW n \in 0 .. Len(q.in),
           z.in = SubSeq(q.in, 1, n), z.unsent = Drop(q.in, n) \o q.unsent,
           NEW m \in Seq(Bytes), NEW p \in Nat, At(q, r, m, p)
    PROVE  At(z, r, m, p)
<1> DEFINE u == Len(r.user)
           b == Len(r.buf)
           i == Len(q.in)
           v == Len(q.unsent)
           l == Len(m)
           d == Drop(q.in, n)
<1>1. u \in Nat /\ b \in Nat /\ i \in Nat /\ v \in Nat /\ l \in Nat /\ n \in 0 .. i
  BY Fields, LenProperties
<1>2. Lie(q, r, m, p, u, b, i, v, l)
  BY DEF At
<1>3. Halves(z.in, d, q.in, n) /\ q.in \in Seq(Bytes) /\ q.unsent \in Seq(Bytes)
  BY Fields, Halving
<1>4. /\ Len(z.in) = n /\ \A j \in 1 .. n : z.in[j] = q.in[j]
      /\ d \in Seq(Bytes) /\ Len(d) = i - n /\ \A j \in 1 .. i - n : d[j] = q.in[n + j]
  <2> HIDE DEF d
  <2> QED BY <1>3 DEF Halves
<1>5. /\ Len(z.unsent) = Len(d) + v
      /\ \A j \in 1 .. Len(d) : z.unsent[j] = d[j]
      /\ \A j \in 1 .. v : z.unsent[Len(d) + j] = q.unsent[j]
  <2>1. z.unsent = d \o q.unsent
    OBVIOUS
  <2> HIDE DEF d
  <2>2. Joins(z.unsent, d, q.unsent)
    BY <1>3, <1>4, <2>1, Joining
  <2> QED BY <2>2 DEF Joins
<1> HIDE DEF d
<1> HIDE DEF u, b, i, v, l
<1>6. \A j \in 1 .. i : q.in[j] = m[l - v - i + j]
  BY <1>2 DEF Lie, Lies
<1>7. \A j \in 1 .. v : q.unsent[j] = m[l - v + j]
  BY <1>2 DEF Lie, Lies
<1>8. Len(z.unsent) = i - n + v
  BY <1>4, <1>5
<1>9. ASSUME NEW k \in 1 .. n PROVE z.in[k] = m[l - (i - n + v) - n + k]
  <2>1. k \in 1 .. i /\ l - (i - n + v) - n + k = l - v - i + k
    BY <1>1
  <2> QED BY <1>4, <1>6, <2>1
<1>10. ASSUME NEW k \in 1 .. i - n + v PROVE z.unsent[k] = m[l - (i - n + v) + k]
  <2>1. CASE k <= i - n
    <3>1. k \in 1 .. i - n /\ n + k \in 1 .. i /\ l - v - i + (n + k) = l - (i - n + v) + k
      BY <1>1, <2>1
    <3>2. z.unsent[k] = d[k] /\ d[k] = q.in[n + k]
      BY <1>4, <1>5, <3>1
    <3> QED BY <1>6, <3>1, <3>2
  <2>2. CASE k > i - n
    <3> DEFINE j == k - (i - n)
    <3>1. j \in 1 .. v /\ k = i - n + j /\ l - v + j = l - (i - n + v) + k
      BY <1>1, <2>2
    <3> HIDE DEF j
    <3>2. z.unsent[Len(d) + j] = q.unsent[j] /\ Len(d) + j = k
      BY <1>4, <1>5, <3>1
    <3>3. z.unsent[k] = q.unsent[j]
      BY <3>2
    <3>4. q.unsent[j] = m[l - v + j]
      BY <1>7, <3>1
    <3> QED BY <3>1, <3>3, <3>4
  <2>3. k <= i - n \/ k > i - n
    BY <1>1
  <2> QED BY <2>1, <2>2, <2>3
<1>11. p + u + b = l - (i - n + v) - n
  BY <1>1, <1>2 DEF Lie
<1>12. Lie(z, r, m, p, u, b, n, i - n + v, l)
  BY <1>2, <1>9, <1>10, <1>11 DEF Lie, Lies
<1> QED BY <1>4, <1>8, <1>12 DEF At, u, b, l

-----------------------------------------------------------------------------
(* Requests and their lines.                                                *)
(* A request, byte by byte.                                                 *)
LEMMA RequestIs ==
    ASSUME NEW a \in AskType
    PROVE  /\ Request(a) \in Seq(Bytes) /\ Len(Request(a)) = Len(a.headers) + 3
           /\ Request(a)[1] = a.req /\ Request(a)[2] = NL /\ a.req # NL
           /\ \A i \in 1 .. Len(a.headers) : Request(a)[2 + i] = a.headers[i]
           /\ Len(a.headers) \in Nat /\ a.req \in Requests
           /\ \A i \in 1 .. Len(a.headers) :
                a.headers[i] = NL => i > 1 /\ a.headers[i - 1] # NL
<1> DEFINE f == <<a.req, NL>>
           h == a.headers
           e == <<NL>>
           fh == f \o h
           m == fh \o e
<1>1. /\ a.req \in Requests /\ NL \notin Requests /\ h \in Seq(HeaderBytes) /\ NL \in Bytes
      /\ HeaderBytes \subseteq Bytes /\ Requests \subseteq Bytes
  BY TinyAssumption DEF AskType, Bytes, HeaderBytes
<1>2. h \in Seq(Bytes) /\ Len(h) \in Nat /\ DOMAIN h = 1 .. Len(h)
  BY <1>1, LenProperties
<1>3. /\ f \in Seq(Bytes) /\ Len(f) = 2 /\ f[1] = a.req /\ f[2] = NL
      /\ e \in Seq(Bytes) /\ Len(e) = 1 /\ e[1] = NL
  BY <1>1
<1>4. \A i \in 1 .. Len(h) : h[i] = NL => i > 1 /\ h[i - 1] # NL
  BY <1>2 DEF AskType
<1>5. Request(a) = m
  BY DEF Request
<1> HIDE DEF f, h, e
<1>6. /\ fh \in Seq(Bytes) /\ Len(fh) = Len(f) + Len(h)
      /\ \A i \in 1 .. Len(f) : fh[i] = f[i]
      /\ \A i \in 1 .. Len(h) : fh[Len(f) + i] = h[i]
  <2>1. f \in Seq(Bytes) /\ h \in Seq(Bytes)
    BY <1>2, <1>3
  <2> QED BY <2>1, Joined
<1> HIDE DEF fh
<1>7. /\ m \in Seq(Bytes) /\ Len(m) = Len(fh) + Len(e)
      /\ \A i \in 1 .. Len(fh) : m[i] = fh[i]
  <2>1. fh \in Seq(Bytes) /\ e \in Seq(Bytes)
    BY <1>3, <1>6
  <2> QED BY <2>1, Joined
<1> HIDE DEF m
<1>8. Len(m) = Len(h) + 3 /\ m[1] = a.req /\ m[2] = NL
  <2>1. Len(f) = 2 /\ f[1] = a.req /\ f[2] = NL /\ Len(h) \in Nat
    BY <1>2, <1>3
  <2>2. Len(fh) = Len(h) + 2 /\ 1 \in 1 .. Len(fh) /\ 2 \in 1 .. Len(fh)
    BY <2>1, <1>6
  <2>3. fh[1] = f[1] /\ fh[2] = f[2]
    BY <2>1, <1>6
  <2>4. Len(m) = Len(h) + 3
    BY <2>1, <2>2, <1>3, <1>7
  <2>5. m[1] = fh[1] /\ m[2] = fh[2]
    BY <2>2, <1>7
  <2> QED BY <2>1, <2>3, <2>4, <2>5
<1>9. \A i \in 1 .. Len(h) : m[2 + i] = h[i]
  BY <1>2, <1>3, <1>6, <1>7
<1>10. a.req # NL
  BY <1>1
<1> QED BY <1>1, <1>2, <1>4, <1>5, <1>7, <1>8, <1>9, <1>10 DEF h

(* A line that has been read has a last byte.                               *)
LEMMA LineIs ==
    ASSUME NEW t \in RioType, OneLine(t.user), LineRead(t)
    PROVE  /\ t.user \in Seq(Bytes) /\ Len(t.user) \in Nat \ {0} /\ Head(t.user) = t.user[1]
           /\ Len(t.user) = MaxLine - 1 \/ t.user[Len(t.user)] = NL
           /\ \A i \in 1 .. Len(t.user) - 1 : t.user[i] # NL
           /\ Len(t.user) <= MaxLine - 1 /\ MaxLine \in Nat /\ MaxLine > 2
<1>1. MaxLine \in Nat /\ MaxLine > 2
  BY RioAssumption, TinyAssumption
<1>2. t.user \in Seq(Bytes) /\ Len(t.user) \in Nat
  BY LenProperties DEF RioType
<1>3. Len(t.user) = MaxLine - 1 \/ (t.user # <<>> /\ t.user[Len(t.user)] = NL)
  BY DEF LineRead, Last
<1>4. Len(t.user) # 0
  BY <1>1, <1>2, <1>3, EmptySeq
<1>5. Head(t.user) = t.user[1]
  BY <1>2, <1>4, EmptySeq
<1> QED BY <1>1, <1>2, <1>3, <1>4, <1>5 DEF OneLine

(* The line goes, what is behind it stays where it is.                      *)
LEMMA ReturnAt ==
    ASSUME NEW q \in ConnType, NEW t \in RioType, NEW m \in Seq(Bytes), NEW p \in Nat, At(q, t, m, p)
    PROVE  /\ Returned(t) \in RioType /\ Returned(t).user = <<>> /\ Returned(t).buf = t.buf
           /\ At(q, Returned(t), m, p + Len(t.user))
<1> DEFINE u == Len(t.user)
           b == Len(t.buf)
           i == Len(q.in)
           v == Len(q.unsent)
           l == Len(m)
           e == <<>>
           s == [t EXCEPT !.user = e]
<1>1. u \in Nat /\ b \in Nat /\ i \in Nat /\ v \in Nat /\ l \in Nat
  BY Fields, LenProperties
<1>2. Lie(q, t, m, p, u, b, i, v, l)
  BY DEF At
<1>3. e \in Seq(Bytes) /\ e = <<>> /\ Len(e) = 0 /\ Returned(t) = s
  BY DEF Returned
<1> HIDE DEF e
<1>4. s \in RioType /\ s.user = e /\ s.buf = t.buf
  BY <1>3 DEF RioType
<1> HIDE DEF s, u, b, i, v, l
<1>5. p + u + 0 = p + u /\ p + u + 0 + b = p + u + b
  BY <1>1
<1>6. Lie(q, s, m, p + u, 0, b, i, v, l)
  BY <1>2, <1>4, <1>5 DEF Lie, Lies
<1>7. At(q, s, m, p + u)
  BY <1>3, <1>4, <1>6 DEF At, b, i, v, l
<1> QED BY <1>3, <1>4, <1>7 DEF u

(* The request line is the method and its NL.                               *)
LEMMA FirstLine ==
    ASSUME NEW q \in ConnType, NEW t \in RioType, NEW a \in AskType,
           At(q, t, Request(a), 0), OneLine(t.user), LineRead(t)
    PROVE  Len(t.user) = 2 /\ Head(t.user) = a.req /\ LineEnd(Request(a), 2)
<1> DEFINE m == Request(a)
           u == Len(t.user)
<1>1. /\ u \in Nat \ {0} /\ Head(t.user) = t.user[1]
      /\ u = MaxLine - 1 \/ t.user[u] = NL
      /\ \A i \in 1 .. u - 1 : t.user[i] # NL
      /\ MaxLine \in Nat /\ MaxLine > 2
  BY LineIs
<1>2. m[1] = a.req /\ m[2] = NL /\ a.req # NL
  BY RequestIs
<1>3. \A i \in 1 .. u : t.user[i] = m[0 + i]
  BY DEF At, Lie, Lies
<1> HIDE DEF m, u
<1>4. \A i \in 1 .. u : t.user[i] = m[i]
  BY <1>3
<1>5. t.user[1] = a.req /\ u # 1
  BY <1>1, <1>2, <1>4
<1>6. u = 2
  <2> SUFFICES ASSUME u > 2 PROVE FALSE
    BY <1>1, <1>5
  <2> QED BY <1>1, <1>2, <1>4
<1>7. LineEnd(m, 2)
  BY <1>2 DEF LineEnd
<1> QED BY <1>1, <1>5, <1>6, <1>7 DEF m, u

(* The next line ends as lines do.                                          *)
LEMMA NextLine ==
    ASSUME NEW q \in ConnType, NEW t \in RioType, NEW m \in Seq(Bytes), NEW p \in Nat,
           LineEnd(m, p), At(q, t, m, p), OneLine(t.user), LineRead(t)
    PROVE  LineEnd(m, p + Len(t.user))
<1> DEFINE u == Len(t.user)
<1>1. /\ u \in Nat \ {0}
      /\ u = MaxLine - 1 \/ t.user[u] = NL
      /\ \A i \in 1 .. u - 1 : t.user[i] # NL
      /\ MaxLine \in Nat /\ MaxLine > 2 /\ p >= 2
  BY LineIs DEF LineEnd
<1>2. \A i \in 1 .. u : t.user[i] = m[p + i]
  BY DEF At, Lie, Lies
<1> HIDE DEF u
<1>3. CASE t.user[u] = NL
  <2>1. m[p + u] = NL /\ p + u \in Nat /\ p + u >= 2
    BY <1>1, <1>2, <1>3
  <2> QED BY <2>1 DEF LineEnd, u
<1>4. CASE t.user[u] # NL
  <2> DEFINE w == p + u
  <2>1. u = MaxLine - 1 /\ w \in Nat /\ w >= 2 /\ w >= MaxLine - 1
    BY <1>1, <1>4
  <2>2. ASSUME NEW j \in w - MaxLine + 2 .. w PROVE m[j] # NL
    <3> DEFINE i == j - p
    <3>1. i \in 1 .. u /\ j = p + i
      BY <1>1, <2>1
    <3> HIDE DEF i
    <3>2. i = u \/ i \in 1 .. u - 1
      BY <1>1, <3>1
    <3>3. t.user[i] # NL
      BY <1>1, <1>4, <3>2
    <3> QED BY <1>2, <3>1, <3>3
  <2> HIDE DEF w
  <2>3. LineEnd(m, w)
    BY <2>1, <2>2 DEF LineEnd
  <2> QED BY <2>3 DEF u, w
<1> QED BY <1>3, <1>4

(* A blank line is the last of the request, or a header line has just       *)
(* filled the buffer.                                                       *)
LEMMA BlankLine ==
    ASSUME NEW q \in ConnType, NEW t \in RioType, NEW a \in AskType, NEW p \in Nat,
           LineEnd(Request(a), p), At(q, t, Request(a), p), t.user = <<NL>>
    PROVE  \/ Len(q.unsent) = 0 /\ Len(q.in) = 0 /\ Len(t.buf) = 0
           \/ Filled(a.headers)
<1> DEFINE m == Request(a)
           b == Len(t.buf)
           i == Len(q.in)
           v == Len(q.unsent)
           l == Len(m)
           h == a.headers
           k == Len(h)
<1>1. /\ b \in Nat /\ i \in Nat /\ v \in Nat /\ l = k + 3 /\ k \in Nat /\ m[2] = NL
      /\ Len(t.user) = 1 /\ t.user[1] = NL
      /\ MaxLine \in Nat /\ MaxLine > 2
  BY Fields, RequestIs, RioAssumption, TinyAssumption
<1>2. /\ \A j \in 1 .. k : m[2 + j] = h[j]
      /\ \A j \in 1 .. k : h[j] = NL => j > 1 /\ h[j - 1] # NL
  BY RequestIs
<1>3. Lie(q, t, m, p, 1, b, i, v, l)
  BY <1>1 DEF At
<1>4. p >= 2 /\ (m[p] = NL \/ (p >= MaxLine - 1 /\ \A j \in p - MaxLine + 2 .. p : m[j] # NL))
  BY DEF LineEnd
<1>5. Filled(h) <=> \E j \in 1 .. k - (MaxLine - 2) : \A e \in j .. j + MaxLine - 2 : h[e] # NL
  BY DEF Filled
<1> HIDE DEF m, b, i, v, l, h, k
<1>6. m[p + 1] = NL /\ p + 1 + b <= l - v - i
  BY <1>1, <1>3 DEF Lie, Lies
<1>7. CASE p + 1 >= l
  <2>1. v = 0 /\ i = 0 /\ b = 0
    BY <1>1, <1>6, <1>7
  <2> QED BY <2>1 DEF v, i, b
<1>8. CASE p + 1 < l
  <2>1. p - 1 \in 1 .. k /\ 2 + (p - 1) = p + 1
    BY <1>1, <1>4, <1>8
  <2>2. h[p - 1] = NL
    BY <1>2, <1>6, <2>1
  <2>3. p - 1 > 1 /\ h[p - 1 - 1] # NL
    BY <1>2, <2>1, <2>2
  <2>4. p - 2 \in 1 .. k /\ 2 + (p - 2) = p /\ p - 1 - 1 = p - 2
    BY <1>1, <2>1, <2>3
  <2>5. m[p] # NL
    BY <1>2, <2>3, <2>4
  <2>6. \A j \in p - MaxLine + 2 .. p : m[j] # NL
    BY <1>4, <2>5
  <2>7. p - MaxLine + 2 > 2
    <3> SUFFICES ASSUME p - MaxLine + 2 <= 2 PROVE FALSE
      BY <1>1
    <3>1. 2 \in p - MaxLine + 2 .. p
      BY <1>1, <1>4
    <3> QED BY <1>1, <2>6, <3>1
  <2> DEFINE j == p - MaxLine
  <2>8. j \in 1 .. k - (MaxLine - 2)
    BY <1>1, <1>8, <2>7
  <2>9. ASSUME NEW e \in j .. j + MaxLine - 2 PROVE h[e] # NL
    <3>1. e \in 1 .. k /\ 2 + e \in p - MaxLine + 2 .. p
      BY <1>1, <2>8
    <3> QED BY <1>2, <2>6, <3>1
  <2> HIDE DEF j
  <2>10. Filled(h)
    BY <1>5, <2>8, <2>9
  <2> QED BY <2>10 DEF h
<1>9. p + 1 \in Int /\ l \in Int
  BY <1>1
<1> QED BY <1>7, <1>8, <1>9

-----------------------------------------------------------------------------
(* One connection.                                                          *)
(* What z carries, and whether it is shut down; else it is q.               *)
Carries(z, q, u, i, o, g, fin) ==
    /\ z \in ConnType /\ z.open = q.open
    /\ z.up <=> q.up
    /\ z.fin <=> fin
    /\ z.gone <=> q.gone
    /\ z.err <=> q.err
    /\ z.unsent = u /\ z.in = i /\ z.out = o /\ z.got = g

(* Moving bytes to the server.                                              *)
LEMMA Moving ==
    ASSUME NEW q \in ConnType, NEW u \in Seq(Bytes), NEW i \in Seq(Bytes)
    PROVE  /\ Carries([q EXCEPT !.unsent = u, !.in = i], q, u, i, q.out, q.got, q.fin)
           /\ Carries([q EXCEPT !.in = i], q, q.unsent, i, q.out, q.got, q.fin)
BY DEF Carries, ConnType

(* Moving parts to the client.                                              *)
LEMMA Writing ==
    ASSUME NEW q \in ConnType, NEW o \in Seq(Parts), NEW g \in Seq(Parts)
    PROVE  /\ Carries([q EXCEPT !.out = o, !.got = g], q, q.unsent, q.in, o, g, q.fin)
           /\ Carries([q EXCEPT !.out = o], q, q.unsent, q.in, o, q.got, q.fin)
BY DEF Carries, ConnType

(* Shutting down.                                                           *)
LEMMA Shutting ==
    ASSUME NEW q \in ConnType, NEW b \in BOOLEAN
    PROVE  Carries([q EXCEPT !.fin = b], q, q.unsent, q.in, q.out, q.got, b)
BY DEF Carries, ConnType

(* A connection that is reset.                                              *)
IsReset(z, q, b, i, u, e) ==
    /\ z \in ConnType /\ z.open = q.open
    /\ z.up <=> q.up
    /\ z.fin <=> b
    /\ z.gone <=> b
    /\ z.err <=> b
    /\ z.unsent = u /\ z.in = i /\ z.out = e /\ z.got = q.got
LEMMA Resetting ==
    ASSUME NEW q \in ConnType, NEW b \in BOOLEAN, NEW i \in Seq(Bytes), NEW u \in Seq(Bytes),
           NEW e \in Seq(Parts)
    PROVE  IsReset([q EXCEPT !.gone = b, !.err = b, !.fin = b, !.out = e, !.in = i, !.unsent = u],
                   q, b, i, u, e)
BY DEF IsReset, ConnType

(* The same connection, but for who holds it and whether it is up.          *)
Alike(z, q) ==
    /\ z \in ConnType
    /\ z.fin <=> q.fin
    /\ z.gone <=> q.gone
    /\ z.err <=> q.err
    /\ z.unsent = q.unsent /\ z.in = q.in /\ z.out = q.out /\ z.got = q.got

(* Opening, closing and connecting.                                         *)
LEMMA Likeness ==
    ASSUME NEW q \in ConnType, NEW w \in SUBSET {"main", "child", "cgi"}, NEW b \in BOOLEAN
    PROVE  /\ Alike([q EXCEPT !.open = w], q) /\ [q EXCEPT !.open = w].open = w
           /\ [q EXCEPT !.open = w].up <=> q.up
           /\ Alike([q EXCEPT !.up = b], q) /\ [q EXCEPT !.up = b].open = q.open
           /\ [q EXCEPT !.up = b].up <=> b
BY DEF Alike, ConnType

(* What a client does to its connection keeps it in order.                  *)
LEMMA ClientGood ==
    ASSUME NEW q \in ConnType, NEW z \in ConnType, NEW k \in ChildType, NEW g \in CgiType,
           NEW a \in AskType, NEW s, Good(q, k, g, a, s), Reset(z),
           q.gone => z.gone,
           q.fin => z.fin,
           z.gone \/ Len(z.unsent) <= Len(q.unsent),
           z.gone \/ z.in # <<>> \/ z.unsent = q.unsent,
           z.gone \/ (q.fin => z.unsent = q.unsent),
           q.in # <<>> => z.in # <<>> \/ z.gone,
           q.in = <<>> /\ q.fin => z.in = <<>>,
           q.in = <<>> /\ q.unsent = <<>> => z.in = <<>> /\ z.unsent = <<>>,
           \/ Sent(z) = Sent(q)
           \/ z.gone /\ IsPrefix(Sent(z), Answer(a.req, s.tty)),
           \A p \in Nat : At(q, k.rio, Request(a), p) => At(z, k.rio, Request(a), p)
    PROVE  Good(z, k, g, a, s)
<1>1. Reading(z, k, a)
  <2>1. /\ Len(q.unsent) = 0 => q.unsent = <<>>
        /\ Len(q.in) = 0 => q.in = <<>>
        /\ Len(<<>>) = 0
    BY EmptySeq DEF ConnType
  <2>2. Len(q.unsent) = 0 /\ Len(q.in) = 0 => Len(z.unsent) = 0 /\ Len(z.in) = 0
    BY <2>1
  <2>3. Reading(q, k, a)
    BY DEF Good
  <2>4. k.at \in {"none", "request"} => At(z, k.rio, Request(a), 0)
    BY <2>3 DEF Reading
  <2>5. k.at = "headers" =>
         \/ Over(z, k.rio)
         \/ /\ Unfinished(k.rio.user)
            /\ \E p \in Nat : LineEnd(Request(a), p) /\ At(z, k.rio, Request(a), p)
    BY <2>3 DEF Reading, Over
  <2> QED BY <2>2, <2>3, <2>4, <2>5 DEF Reading
<1>2. Answering(z, k, g, a, s.tty)
  <2>1. Answering(q, k, g, a, s.tty)
    BY DEF Good
  <2>2. ~z.gone /\ Heard(q, a) => Heard(z, a)
    <3> SUFFICES ASSUME ~z.gone PROVE Heard(q, a) => Heard(z, a)
      OBVIOUS
    <3> DEFINE v == Len(q.unsent)
               w == Len(z.unsent)
               l == Len(Request(a))
    <3>1. v \in Nat /\ w \in Nat /\ l \in Nat /\ w <= v
      BY RequestIs, LenProperties DEF ConnType
    <3> HIDE DEF v, w, l
    <3>2. v < l => w < l
      BY <3>1
    <3> QED BY <3>2 DEF Heard, v, w, l
  <2>3. CASE z.gone
    <3> QED BY <2>1, <2>3 DEF Answering
  <2>4. CASE ~z.gone
    <3>1. ~q.gone /\ Sent(z) = Sent(q)
      BY <2>4
    <3> QED BY <2>1, <2>2, <3>1 DEF Answering, Silent, Paid
  <2> QED BY <2>3, <2>4
<1>3. Ended(z, k, a, s)
  <2>1. Ended(q, k, a, s)
    BY DEF Good
  <2>2. CASE z.gone \/ z.in # <<>>
    BY <2>2 DEF Ended
  <2>3. CASE ~z.gone /\ z.in = <<>>
    <3>1. ~q.gone /\ Sent(z) = Sent(q) /\ z.unsent = q.unsent /\ q.in = <<>>
      BY <2>3
    <3> QED BY <2>1, <3>1 DEF Ended, Silent, Heard
  <2> QED BY <2>2, <2>3
<1> QED BY <1>1, <1>2, <1>3 DEF Good

(* Neither does it matter who holds the connection.                         *)
LEMMA AlikeGood ==
    ASSUME NEW q \in ConnType, NEW z, NEW k, NEW g, NEW a, NEW s,
           Good(q, k, g, a, s), Alike(z, q)
    PROVE  Good(z, k, g, a, s)
<1>1. /\ Sent(z) = Sent(q)
      /\ Heard(z, a) <=> Heard(q, a)
      /\ Silent(z, a) <=> Silent(q, a)
      /\ Reset(z) <=> Reset(q)
  BY DEF Alike, Sent, Heard, Silent, Reset
<1>2. ASSUME NEW r, NEW m, NEW p PROVE At(z, r, m, p) <=> At(q, r, m, p)
  <2>1. ASSUME NEW u, NEW b, NEW i, NEW v, NEW l
        PROVE  Lie(z, r, m, p, u, b, i, v, l) <=> Lie(q, r, m, p, u, b, i, v, l)
    BY DEF Lie, Alike
  <2> QED BY <2>1 DEF At, Alike
<1>3. \A r : Over(z, r) <=> Over(q, r)
  BY DEF Over, Alike
<1>4. Reading(z, k, a)
  BY <1>2, <1>3 DEF Good, Reading, Alike
<1>5. Answering(z, k, g, a, s.tty)
  BY <1>1 DEF Good, Answering, Paid, Alike
<1>6. Ended(z, k, a, s)
  BY <1>1 DEF Good, Ended, Alike
<1> QED BY <1>1, <1>4, <1>5, <1>6 DEF Good

-----------------------------------------------------------------------------
(* Answers.                                                                 *)
(* What a program writes.                                                   *)
LEMMA OutputTyped ==
    ASSUME NEW req \in Programs, NEW tty \in BOOLEAN
    PROVE  Output(req, tty) \in Seq(Parts)
<1>1. slow(3, 2) \in Seq(Parts) /\ slow(1, 0) \in Seq(Parts)
  <2>1. ASSUME NEW n \in Nat PROVE <<"fields">> \o [i \in 1 .. n |-> "chunk"] \in Seq(Parts)
    <3>1. [i \in 1 .. n |-> "chunk"] \in Seq(Parts) /\ <<"fields">> \in Seq(Parts)
      BY DEF Parts
    <3> QED BY <3>1
  <2>2. slow(3, 2) = <<"fields">> \o [i \in 1 .. 2 |-> "chunk"]
    BY DEF slow, ChunkSize
  <2>3. slow(1, 0) = <<"fields">> \o [i \in 1 .. 0 |-> "chunk"]
    BY DEF slow, ChunkSize
  <2> QED BY <2>1, <2>2, <2>3
<1>2. /\ <<"fields", "sum">> \in Seq(Parts) /\ <<>> \in Seq(Parts)
      /\ <<"hello">> \in Seq(Parts) /\ <<"log">> \in Seq(Parts)
  BY DEF Parts
<1>3. adder(TRUE) \in Seq(Parts) /\ adder(FALSE) \in Seq(Parts) /\ hello \in Seq(Parts)
  BY <1>2 DEF adder, hello
<1> HIDE DEF slow, adder, hello
<1> QED BY <1>1, <1>2, <1>3 DEF Output, Programs

(* The answers, by the kind of request.                                     *)
LEMMA AnswerIs ==
    ASSUME NEW req \in Requests, NEW tty \in BOOLEAN
    PROVE  /\ req \in DOMAIN Errors =>
                Answer(req, tty) = ErrorPage(req) /\ ErrorPage(req) \in Seq(Parts)
           /\ req \in Programs =>
                /\ req \notin DOMAIN Errors /\ Output(req, tty) \in Seq(Parts)
                /\ Answer(req, tty) = Cat(<<"200", "server">>, Output(req, tty))
           /\ req = "file" => Answer(req, tty) = Cat(<<"head">>, <<"content">>)
           /\ req \in {"empty", "locked"} => Answer(req, tty) = Cat(<<"head">>, <<>>)
           /\ req \in DOMAIN Errors \cup Programs \cup {"file", "empty", "locked"}
<1>1. req \in DOMAIN Errors \cup Programs \cup {"file", "empty", "locked"}
  BY DEF Requests
<1>2. ASSUME req \in DOMAIN Errors
      PROVE  Answer(req, tty) = ErrorPage(req) /\ ErrorPage(req) \in Seq(Parts)
  <2>1. Answer(req, tty) = ErrorPage(req)
    BY <1>2 DEF Answer
  <2>2. Errors[req] \in Parts
    BY <1>2 DEF Errors, Parts
  <2>3. {"type", "length", "page"} \subseteq Parts
    BY DEF Parts
  <2> QED BY <2>1, <2>2, <2>3 DEF ErrorPage
<1>3. ASSUME req \in Programs
      PROVE  /\ req \notin DOMAIN Errors /\ Output(req, tty) \in Seq(Parts)
             /\ Answer(req, tty) = Cat(<<"200", "server">>, Output(req, tty))
  <2>1. req \notin DOMAIN Errors
    BY <1>3 DEF Programs, Errors
  <2> QED BY <1>3, <2>1, OutputTyped DEF Answer, Cat
<1>4. ASSUME req \in {"file", "empty", "locked"}
      PROVE  Answer(req, tty) = IF req = "file" THEN <<"head", "content">> ELSE <<"head">>
  BY <1>4 DEF Answer, Errors, Programs
<1>5. Cat(<<"head">>, <<"content">>) = <<"head", "content">> /\ Cat(<<"head">>, <<>>) = <<"head">>
  <2> DEFINE x == <<"head">>
             y == <<"content">>
             z == Cat(x, y)
  <2>1. /\ x \in Seq(Parts) /\ Len(x) = 1 /\ x[1] = "head"
        /\ y \in Seq(Parts) /\ Len(y) = 1 /\ y[1] = "content"
    BY DEF Parts
  <2>2. Cat(x, <<>>) = x
    BY <2>1, CatEmpty
  <2> HIDE DEF x, y
  <2>3. z \in Seq(Parts) /\ Len(z) = 2 /\ z[1] = "head" /\ z[2] = "content"
    <3>1. /\ x \o y \in Seq(Parts) /\ Len(x \o y) = Len(x) + Len(y)
          /\ \A i \in 1 .. Len(x) : (x \o y)[i] = x[i]
          /\ \A i \in 1 .. Len(y) : (x \o y)[Len(x) + i] = y[i]
      BY <2>1, Joined
    <3> QED BY <2>1, <3>1 DEF Cat
  <2> HIDE DEF z
  <2>4. z = <<"head", "content">>
    BY <2>3
  <2> QED BY <2>2, <2>4 DEF x, y, z
<1> QED BY <1>1, <1>2, <1>3, <1>4, <1>5

(* Answers are sequences of parts.                                          *)
LEMMA AnswerTyped ==
    ASSUME NEW a \in AskType, NEW tty \in BOOLEAN
    PROVE  /\ Answer(a.req, tty) \in Seq(Parts) /\ a.req \in Requests
           /\ \A next \in {"close", "fork", "map"} :
                (next = "fork" => a.req \in Programs) => After(next, a.req, tty) \in Seq(Parts)
<1>1. a.req \in Requests
  BY DEF AskType
<1>2. /\ <<"200", "server">> \in Seq(Parts) /\ <<"head">> \in Seq(Parts)
      /\ <<"content">> \in Seq(Parts) /\ <<>> \in Seq(Parts)
  BY DEF Parts
<1>3. Answer(a.req, tty) \in Seq(Parts)
  <2>1. CASE a.req \in DOMAIN Errors
    BY <1>1, <2>1, AnswerIs
  <2>2. CASE a.req \in Programs
    <3> DEFINE w == Output(a.req, tty)
               x == <<"200", "server">>
    <3>1. Answer(a.req, tty) = Cat(x, w) /\ w \in Seq(Parts) /\ x \in Seq(Parts)
      BY <1>1, <1>2, <2>2, AnswerIs
    <3> HIDE DEF w, x
    <3> QED BY <3>1, CatTyped
  <2>3. CASE a.req \in {"file", "empty", "locked"}
    <3>1. \E x, y \in Seq(Parts) : Answer(a.req, tty) = Cat(x, y)
      BY <1>1, <1>2, <2>3, AnswerIs
    <3> QED BY <3>1, CatTyped
  <2> QED BY <1>1, <2>1, <2>2, <2>3, AnswerIs
<1> QED BY <1>1, <1>2, <1>3, OutputTyped DEF After

(* Whether stdout is a terminal.                                            *)
LEMMA SysTyped == ASSUME Typed PROVE sys.tty \in BOOLEAN /\ sys.window \in Nat /\ sys.procs \in Nat
BY DEF Typed

-----------------------------------------------------------------------------
(* The fields of a connection and of its child and program.                 *)
LEMMA OfClient ==
    ASSUME Typed, NEW c \in Clients
    PROVE  /\ conn[c] \in ConnType /\ child[c] \in ChildType /\ cgi[c] \in CgiType
           /\ ask[c] \in AskType /\ msg[c] = Request(ask[c])
BY DEF Typed

(* A step that concerns one connection, its child and its program.          *)
LEMMA Local ==
    ASSUME Typed, Safe, NEW c \in Clients,
           NEW q \in ConnType, NEW k \in ChildType, NEW g \in CgiType,
           conn' = [conn EXCEPT ![c] = q], child' = [child EXCEPT ![c] = k],
           cgi' = [cgi EXCEPT ![c] = g], UNCHANGED <<kind, msg, backlog, sys, ask, main>>,
           q.up <=> conn[c].up, k.at = "none" <=> child[c].at = "none",
           Good(q, k, g, ask[c], sys)
    PROVE  IInv'
<1>1. /\ conn \in [Clients -> ConnType] /\ child \in [Clients -> ChildType]
      /\ cgi \in [Clients -> CgiType]
  BY DEF Typed
<1>2. /\ conn'[c] = q /\ child'[c] = k /\ cgi'[c] = g
      /\ \A d \in Clients \ {c} :
           conn'[d] = conn[d] /\ child'[d] = child[d] /\ cgi'[d] = cgi[d]
  BY <1>1
<1>3. Typed'
  BY <1>1 DEF Typed
<1>4. ASSUME NEW d \in Clients PROVE Placed(d)'
  <2>1. /\ Placed(d)
        /\ conn'[d].up <=> conn[d].up
        /\ child'[d].at = "none" <=> child[d].at = "none"
    BY <1>2 DEF Safe
  <2> QED BY <2>1 DEF Placed, InBacklog, InHand
<1>5. ASSUME NEW d \in Clients PROVE Good(conn'[d], child'[d], cgi'[d], ask'[d], sys')
  <2>1. CASE d = c
    BY <1>2, <2>1
  <2>2. CASE d # c
    <3>1. Good(conn[d], child[d], cgi[d], ask[d], sys)
      BY DEF Safe
    <3> QED BY <1>2, <2>2, <3>1
  <2> QED BY <2>1, <2>2
<1>6. Distinct(backlog)'
  BY DEF Safe, Distinct
<1> QED BY <1>3, <1>4, <1>5, <1>6 DEF Safe, IInv

(* The same for a step that changes only the connection.                    *)
LEMMA LocalConn ==
    ASSUME Typed, Safe, NEW c \in Clients, NEW q \in ConnType,
           conn' = [conn EXCEPT ![c] = q],
           UNCHANGED <<kind, msg, backlog, sys, ask, main, child, cgi>>,
           q.up <=> conn[c].up, Good(q, child[c], cgi[c], ask[c], sys)
    PROVE  IInv'
<1> DEFINE k == child[c]
           g == cgi[c]
<1>1. /\ child' = [child EXCEPT ![c] = k] /\ cgi' = [cgi EXCEPT ![c] = g]
      /\ k \in ChildType /\ g \in CgiType
      /\ k.at = "none" <=> child[c].at = "none"
  BY DEF Typed
<1>2. UNCHANGED <<kind, msg, backlog, sys, ask, main>> /\ Good(q, k, g, ask[c], sys)
  OBVIOUS
<1> HIDE DEF k, g
<1> QED BY <1>1, <1>2, Local

(* And for one that changes only the child.                                 *)
LEMMA LocalChild ==
    ASSUME Typed, Safe, NEW c \in Clients, NEW k \in ChildType,
           Becomes(c, k), UNCHANGED <<connVars, sys, ask, main, cgi>>,
           k.at # "none", child[c].at # "none", Good(conn[c], k, cgi[c], ask[c], sys)
    PROVE  IInv'
<1>1. /\ conn' = [conn EXCEPT ![c] = conn[c]] /\ cgi' = [cgi EXCEPT ![c] = cgi[c]]
      /\ child' = [child EXCEPT ![c] = k]
      /\ conn[c] \in ConnType /\ cgi[c] \in CgiType
      /\ UNCHANGED <<kind, msg, backlog, sys, ask, main>>
  BY DEF Typed, connVars, Becomes
<1> QED BY <1>1, Local

-----------------------------------------------------------------------------
(* The clients.                                                             *)
(* Sending keeps the invariant.                                             *)
LEMMA SendSafe ==
    ASSUME Typed, Safe, NEW c \in Clients, ClientSend(c),
           UNCHANGED <<sys, ask, main, child, cgi>>
    PROVE  IInv'
<1>0. \E n \in Taking(conn[c].unsent) :
        Changes(c, [conn[c] EXCEPT !.unsent = Drop(conn[c].unsent, n),
                                   !.in = conn[c].in \o SubSeq(conn[c].unsent, 1, n)])
  BY DEF ClientSend
<1>1. PICK n \in Taking(conn[c].unsent) :
        Changes(c, [conn[c] EXCEPT !.unsent = Drop(conn[c].unsent, n),
                                   !.in = conn[c].in \o SubSeq(conn[c].unsent, 1, n)])
  BY <1>0, Zenon
<1> DEFINE q == conn[c]
           y == Drop(q.unsent, n)
           x == q.in \o SubSeq(q.unsent, 1, n)
           z == [q EXCEPT !.unsent = y, !.in = x]
<1>2. /\ q \in ConnType /\ q.in \in Seq(Bytes) /\ q.unsent \in Seq(Bytes)
      /\ q.out \in Seq(Parts) /\ q.got \in Seq(Parts) /\ child[c].rio \in RioType
      /\ child[c] \in ChildType /\ cgi[c] \in CgiType /\ ask[c] \in AskType
      /\ Good(q, child[c], cgi[c], ask[c], sys) /\ ~q.gone /\ ~q.fin
      /\ n \in 1 .. Len(q.unsent)
  BY <1>1, OfClient DEF ConnType, ChildType, Safe, ClientSend, Talks, Taking
<1>3. Sends(x, y, q.in, q.unsent, n)
  BY <1>2, Sending
<1>4. conn' = [conn EXCEPT ![c] = z] /\ UNCHANGED <<kind, msg, backlog, sys, ask, main, child, cgi>>
  BY <1>1 DEF Changes
<1>5. x \in Seq(Bytes) /\ y \in Seq(Bytes)
  BY <1>3 DEF Sends
<1> HIDE DEF x, y, q
<1>6. Carries(z, q, y, x, q.out, q.got, q.fin)
  BY <1>2, <1>5, Moving
<1> HIDE DEF z
<1>7. /\ z \in ConnType /\ z.in = x /\ z.unsent = y /\ z.out = q.out /\ z.got = q.got
      /\ z.gone <=> q.gone
      /\ z.fin <=> q.fin
      /\ z.err <=> q.err
      /\ z.up <=> q.up
  BY <1>6 DEF Carries
<1>8. \A p \in Nat : At(q, child[c].rio, Request(ask[c]), p) => At(z, child[c].rio, Request(ask[c]), p)
  BY <1>2, <1>3, <1>7, RequestIs, SendAt
<1>9. Len(z.unsent) <= Len(q.unsent) /\ z.in # <<>> /\ q.unsent # <<>>
  <2>1. Len(x) = Len(q.in) + n /\ Len(y) = Len(q.unsent) - n
    BY <1>3 DEF Sends
  <2>2. Len(q.in) \in Nat /\ Len(q.unsent) \in Nat /\ n \in 1 .. Len(q.unsent) /\ Len(<<>>) = 0
    BY <1>2, LenProperties
  <2>3. Len(y) <= Len(q.unsent) /\ Len(x) # 0 /\ Len(q.unsent) # 0
    BY <2>1, <2>2
  <2> QED BY <1>7, <2>2, <2>3
<1>10. Sent(z) = Sent(q) /\ Reset(z)
  BY <1>2, <1>7 DEF Sent, Reset, Good
<1>11. Good(z, child[c], cgi[c], ask[c], sys)
  BY <1>2, <1>7, <1>8, <1>9, <1>10, ClientGood
<1> QED BY <1>4, <1>7, <1>11, LocalConn DEF q

(* Bytes lie where they lay when none has moved.                            *)
LEMMA AtSame ==
    ASSUME NEW q, NEW z, z.unsent = q.unsent, z.in = q.in,
           NEW r, NEW m, NEW p, At(q, r, m, p)
    PROVE  At(z, r, m, p)
BY DEF At, Lie

(* What is the same for every client.                                       *)
LEMMA Facts ==
    ASSUME Typed, Safe, NEW c \in Clients
    PROVE  /\ conn[c] \in ConnType /\ child[c] \in ChildType /\ cgi[c] \in CgiType
           /\ ask[c] \in AskType /\ child[c].rio \in RioType
           /\ Request(ask[c]) \in Seq(Bytes) /\ msg[c] = Request(ask[c])
           /\ Good(conn[c], child[c], cgi[c], ask[c], sys) /\ Reset(conn[c])
           /\ Placed(c)
<1>1. child[c] \in ChildType /\ ask[c] \in AskType
  BY OfClient
<1>2. child[c].rio \in RioType
  BY <1>1 DEF ChildType
<1> QED BY <1>1, <1>2, OfClient, RequestIs DEF Safe, Good

(* Shutting down keeps the invariant.                                       *)
LEMMA ShutSafe ==
    ASSUME Typed, Safe, NEW c \in Clients, ClientShut(c),
           UNCHANGED <<sys, ask, main, child, cgi>>
    PROVE  IInv'
<1> DEFINE q == conn[c]
           b == TRUE
           z == [q EXCEPT !.fin = b]
           k == child[c]
<1>1. /\ q \in ConnType /\ k \in ChildType /\ cgi[c] \in CgiType /\ ask[c] \in AskType
      /\ Good(q, k, cgi[c], ask[c], sys) /\ Reset(q)
  BY Facts
<1>2. conn' = [conn EXCEPT ![c] = z] /\ ~q.gone /\ ~q.fin
      /\ UNCHANGED <<kind, msg, backlog, sys, ask, main, child, cgi>>
  BY DEF ClientShut, Changes, Talks
<1>3. b \in BOOLEAN /\ b
  OBVIOUS
<1> HIDE DEF q, b, k
<1>4. Carries(z, q, q.unsent, q.in, q.out, q.got, b)
  BY <1>1, <1>3, Shutting
<1> HIDE DEF z
<1>5. /\ z \in ConnType /\ z.in = q.in /\ z.unsent = q.unsent /\ z.out = q.out /\ z.got = q.got
      /\ z.gone <=> q.gone
      /\ z.err <=> q.err
      /\ z.up <=> q.up
  BY <1>4 DEF Carries
<1>6. z.fin
  BY <1>3, <1>4 DEF Carries
<1>7. Sent(z) = Sent(q) /\ Reset(z) /\ Len(z.unsent) <= Len(q.unsent)
  <2>1. Len(q.unsent) \in Nat
    BY <1>1, LenProperties DEF ConnType
  <2> QED BY <1>1, <1>2, <1>5, <1>6, <2>1 DEF Sent, Reset
<1>8. \A p \in Nat : At(q, k.rio, Request(ask[c]), p) => At(z, k.rio, Request(ask[c]), p)
  BY <1>5, AtSame
<1>9. Good(z, k, cgi[c], ask[c], sys)
  BY <1>1, <1>2, <1>5, <1>6, <1>7, <1>8, ClientGood
<1> QED BY <1>2, <1>5, <1>9, LocalConn DEF q, k

(* Reading keeps the invariant.                                             *)
LEMMA ReadSafe ==
    ASSUME Typed, Safe, NEW c \in Clients, ClientRead(c),
           UNCHANGED <<sys, ask, main, child, cgi>>
    PROVE  IInv'
<1> DEFINE q == conn[c]
           e == <<>>
           g == Cat(q.got, q.out)
           z == [q EXCEPT !.out = e, !.got = g]
           k == child[c]
<1>1. /\ q \in ConnType /\ k \in ChildType /\ cgi[c] \in CgiType /\ ask[c] \in AskType
      /\ Good(q, k, cgi[c], ask[c], sys) /\ Reset(q)
  BY Facts
<1>2. conn' = [conn EXCEPT ![c] = z] /\ ~q.gone
      /\ UNCHANGED <<kind, msg, backlog, sys, ask, main, child, cgi>>
  BY DEF ClientRead, Changes, Talks, Cat
<1>3. e \in Seq(Parts) /\ g \in Seq(Parts) /\ q.out \in Seq(Parts) /\ q.got \in Seq(Parts) /\ e = <<>>
  <2>1. q.out \in Seq(Parts) /\ q.got \in Seq(Parts)
    BY <1>1 DEF ConnType
  <2>2. g \in Seq(Parts)
    BY <2>1, CatTyped
  <2>3. e \in Seq(Parts) /\ e = <<>>
    OBVIOUS
  <2> QED BY <2>1, <2>2, <2>3
<1> HIDE DEF q, g, e, k
<1>4. Carries(z, q, q.unsent, q.in, e, g, q.fin)
  BY <1>1, <1>3, Writing
<1> HIDE DEF z
<1>5. /\ z \in ConnType /\ z.in = q.in /\ z.unsent = q.unsent /\ z.out = e /\ z.got = g
      /\ z.gone <=> q.gone
      /\ z.err <=> q.err
      /\ z.fin <=> q.fin
      /\ z.up <=> q.up
  BY <1>4 DEF Carries
<1>6. Sent(z) = Sent(q)
  <2>1. Cat(g, e) = g
    BY <1>3, CatEmpty
  <2> QED BY <1>5, <2>1 DEF Sent, g
<1>7. Reset(z) /\ Len(z.unsent) <= Len(q.unsent)
  <2>1. Len(q.unsent) \in Nat
    BY <1>1, LenProperties DEF ConnType
  <2> QED BY <1>1, <1>2, <1>5, <2>1 DEF Reset
<1>8. \A p \in Nat : At(q, k.rio, Request(ask[c]), p) => At(z, k.rio, Request(ask[c]), p)
  BY <1>5, AtSame
<1>9. Good(z, k, cgi[c], ask[c], sys)
  BY <1>1, <1>5, <1>6, <1>7, <1>8, ClientGood
<1> QED BY <1>2, <1>5, <1>9, LocalConn DEF q, k

(* A reset keeps the invariant: what had not arrived is as good as unsent,  *)
(* what has been received remains the beginning of the answer.              *)
LEMMA ResetSafe ==
    ASSUME Typed, Safe, NEW c \in Clients, ClientReset(c),
           UNCHANGED <<sys, ask, main, child, cgi>>
    PROVE  IInv'
<1>0. \E n \in 0 .. Len(conn[c].in) :
        Changes(c, [conn[c] EXCEPT !.gone = TRUE, !.err = TRUE, !.fin = TRUE, !.out = <<>>,
                                   !.in = SubSeq(conn[c].in, 1, n),
                                   !.unsent = Drop(conn[c].in, n) \o conn[c].unsent])
  BY DEF ClientReset
<1>1. PICK n \in 0 .. Len(conn[c].in) :
        Changes(c, [conn[c] EXCEPT !.gone = TRUE, !.err = TRUE, !.fin = TRUE, !.out = <<>>,
                                   !.in = SubSeq(conn[c].in, 1, n),
                                   !.unsent = Drop(conn[c].in, n) \o conn[c].unsent])
  BY <1>0, Zenon
<1> DEFINE q == conn[c]
           e == <<>>
           b == TRUE
           x == SubSeq(q.in, 1, n)
           d == Drop(q.in, n)
           y == d \o q.unsent
           z == [q EXCEPT !.gone = b, !.err = b, !.fin = b, !.out = e, !.in = x, !.unsent = y]
           k == child[c]
           w == Answer(ask[c].req, sys.tty)
<1>2. /\ q \in ConnType /\ k \in ChildType /\ cgi[c] \in CgiType /\ ask[c] \in AskType
      /\ Good(q, k, cgi[c], ask[c], sys) /\ k.rio \in RioType
      /\ Request(ask[c]) \in Seq(Bytes)
  BY Facts
<1>3. conn' = [conn EXCEPT ![c] = z] /\ ~q.gone
      /\ UNCHANGED <<kind, msg, backlog, sys, ask, main, child, cgi>>
  BY <1>1 DEF ClientReset, Changes, Talks
<1>4. /\ e \in Seq(Parts) /\ e = <<>> /\ b \in BOOLEAN /\ b
      /\ q.out \in Seq(Parts) /\ q.got \in Seq(Parts) /\ IsPrefix(Cat(q.got, q.out), w)
      /\ q.in \in Seq(Bytes) /\ q.unsent \in Seq(Bytes) /\ n \in 0 .. Len(q.in)
  BY <1>1, <1>2 DEF ConnType, Good, Answering, Sent
<1>5. /\ x \in Seq(Bytes) /\ Len(x) = n
      /\ d \in Seq(Bytes) /\ Len(d) = Len(q.in) - n
  <2>1. Halves(x, d, q.in, n)
    BY <1>4, Halving
  <2> HIDE DEF x, d
  <2> QED BY <2>1 DEF Halves
<1> HIDE DEF d
<1>6. y \in Seq(Bytes) /\ Len(y) = Len(d) + Len(q.unsent)
  <2>1. Joins(y, d, q.unsent)
    BY <1>4, <1>5, Joining
  <2> HIDE DEF y
  <2> QED BY <2>1 DEF Joins
<1>7. Len(<<>>) = 0 /\ (q.in = <<>> => x = <<>>) /\ (q.in = <<>> /\ q.unsent = <<>> => y = <<>>)
  <2>1. \A t \in Seq(Bytes) : Len(t) = 0 <=> t = <<>>
    BY EmptySeq
  <2> HIDE DEF x, y
  <2>2. Len(q.in) \in Nat /\ Len(q.unsent) \in Nat /\ Len(<<>>) = 0
    BY <1>4, LenProperties
  <2>3. q.in = <<>> => Len(x) = 0
    BY <1>4, <1>5, <2>2
  <2>4. q.in = <<>> /\ q.unsent = <<>> => Len(y) = 0
    BY <1>4, <1>5, <1>6, <2>2
  <2> QED BY <1>5, <1>6, <2>1, <2>2, <2>3, <2>4
<1> HIDE DEF q, e, b, k, x, y
<1>8. IsReset(z, q, b, x, y, e)
  BY <1>2, <1>4, <1>5, <1>6, Resetting
<1> HIDE DEF z
<1>9. /\ z \in ConnType /\ z.in = x /\ z.unsent = y /\ z.out = e /\ z.got = q.got
      /\ z.up <=> q.up
  BY <1>8 DEF IsReset
<1>10. z.gone /\ z.fin /\ z.err
  BY <1>4, <1>8 DEF IsReset
<1>11. IsPrefix(Sent(z), w)
  <2>1. Cat(q.got, e) = q.got
    BY <1>4, CatEmpty
  <2>2. w \in Seq(Parts)
    BY <1>2, AnswerTyped, SysTyped
  <2>3. IsPrefix(q.got, w)
    BY <1>4, <2>2, Beginning
  <2> QED BY <1>9, <2>1, <2>3 DEF Sent
<1>12. Reset(z)
  BY <1>4, <1>9, <1>10 DEF Reset
<1>13. \A p \in Nat : At(q, k.rio, Request(ask[c]), p) => At(z, k.rio, Request(ask[c]), p)
  BY <1>2, <1>4, <1>9, ResetAt DEF x, y, d
<1>14. Good(z, k, cgi[c], ask[c], sys)
  BY <1>2, <1>3, <1>7, <1>9, <1>10, <1>11, <1>12, <1>13, ClientGood DEF w
<1> QED BY <1>3, <1>9, <1>14, LocalConn DEF q, k

(* Two clients do not wait twice.                                           *)
LEMMA FirstOf ==
    ASSUME NEW s \in Seq(Clients), s # <<>>, Distinct(s)
    PROVE  /\ Head(s) \in Clients /\ Tail(s) \in Seq(Clients)
           /\ Head(s) \in ToSet(s) /\ Distinct(Tail(s))
           /\ \A c \in Clients : c \in ToSet(Tail(s)) <=> c \in ToSet(s) /\ c # Head(s)
<1>1. Len(s) \in Nat \ {0} /\ DOMAIN s = 1 .. Len(s) /\ Head(s) = s[1]
  BY EmptySeq, LenProperties
<1>2. /\ Tail(s) \in Seq(Clients) /\ Len(Tail(s)) = Len(s) - 1
      /\ \A i \in 1 .. Len(s) - 1 : Tail(s)[i] = s[i + 1]
  BY <1>1
<1>3. DOMAIN Tail(s) = 1 .. Len(s) - 1
  BY <1>2
<1>4. Head(s) \in Clients
  BY <1>1, ElementOfSeq
<1>5. Distinct(Tail(s))
  <2>1. ASSUME NEW i \in 1 .. Len(s) - 1, NEW j \in 1 .. Len(s) - 1, Tail(s)[i] = Tail(s)[j]
        PROVE  i = j
    <3>1. i + 1 \in 1 .. Len(s) /\ j + 1 \in 1 .. Len(s)
      BY <1>1
    <3>2. i + 1 = j + 1
      BY <1>1, <1>2, <2>1, <3>1 DEF Distinct
    <3> QED BY <3>2
  <2> QED BY <1>3, <2>1 DEF Distinct
<1>6. ASSUME NEW c \in Clients PROVE c \in ToSet(Tail(s)) <=> c \in ToSet(s) /\ c # Head(s)
  <2>1. ASSUME NEW i \in 1 .. Len(s) - 1, Tail(s)[i] = c
        PROVE  c \in ToSet(s) /\ c # s[1]
    <3>1. s[i + 1] = c /\ i + 1 \in 1 .. Len(s) /\ i + 1 # 1 /\ 1 \in 1 .. Len(s)
      BY <1>1, <1>2, <2>1
    <3> QED BY <1>1, <3>1 DEF Distinct, ToSet
  <2>2. ASSUME NEW i \in 1 .. Len(s), s[i] = c, c # s[1]
        PROVE  c \in ToSet(Tail(s))
    <3>1. i - 1 \in 1 .. Len(s) - 1
      BY <1>1, <2>2
    <3>2. Tail(s)[i - 1] = c
      BY <1>2, <2>2, <3>1
    <3> QED BY <1>3, <3>1, <3>2 DEF ToSet
  <2> QED BY <1>1, <1>3, <2>1, <2>2 DEF ToSet
<1>7. Head(s) \in ToSet(s)
  BY <1>1 DEF ToSet
<1> QED BY <1>2, <1>4, <1>5, <1>6, <1>7

(* One more waits.                                                          *)
LEMMA LastOf ==
    ASSUME NEW s \in Seq(Clients), NEW e \in Clients, Distinct(s), e \notin ToSet(s)
    PROVE  /\ Append(s, e) \in Seq(Clients) /\ Distinct(Append(s, e))
           /\ ToSet(Append(s, e)) = ToSet(s) \cup {e}
<1> DEFINE t == Append(s, e)
<1>1. Len(s) \in Nat /\ DOMAIN s = 1 .. Len(s)
  BY LenProperties
<1>2. /\ t \in Seq(Clients) /\ Len(t) = Len(s) + 1 /\ DOMAIN t = 1 .. Len(s) + 1
      /\ t[Len(s) + 1] = e /\ \A i \in 1 .. Len(s) : t[i] = s[i]
  BY <1>1
<1> HIDE DEF t
<1>3. ToSet(t) = ToSet(s) \cup {e}
  <2>1. ASSUME NEW x \in ToSet(t) PROVE x \in ToSet(s) \cup {e}
    BY <1>1, <1>2, <2>1 DEF ToSet
  <2>2. ASSUME NEW x \in ToSet(s) \cup {e} PROVE x \in ToSet(t)
    BY <1>1, <1>2, <2>2 DEF ToSet
  <2> QED BY <2>1, <2>2
<1>4. Distinct(t)
  <2>1. ASSUME NEW i \in 1 .. Len(s) PROVE s[i] # e
    BY <1>1 DEF ToSet
  <2> QED BY <1>1, <1>2, <2>1 DEF Distinct
<1> QED BY <1>2, <1>3, <1>4 DEF t

(* Connecting keeps the invariant.                                          *)
LEMMA ConnectSafe ==
    ASSUME Typed, Safe, NEW c \in Clients, Connect(c), UNCHANGED <<sys, ask, main, child, cgi>>
    PROVE  IInv'
<1> DEFINE q == conn[c]
           b == TRUE
           z == [q EXCEPT !.up = b]
<1>1. /\ conn' = [conn EXCEPT ![c] = z] /\ ~q.up /\ backlog' = Append(backlog, c)
      /\ UNCHANGED <<kind, msg, sys, ask, main, child, cgi>>
  BY DEF Connect
<1>2. /\ q \in ConnType /\ Good(q, child[c], cgi[c], ask[c], sys) /\ Placed(c)
      /\ b \in BOOLEAN /\ b /\ backlog \in Seq(Clients) /\ Distinct(backlog)
      /\ conn \in [Clients -> ConnType]
  BY Facts DEF Safe, Typed
<1>3. c \notin ToSet(backlog) /\ ~InHand(c) /\ child[c].at = "none"
  BY <1>1, <1>2 DEF Placed, InBacklog
<1> HIDE DEF q, b
<1>4. Alike(z, q) /\ (z.up <=> b) /\ z.open = q.open
  BY <1>2, Likeness
<1> HIDE DEF z
<1>5. z \in ConnType /\ z.up /\ Good(z, child[c], cgi[c], ask[c], sys)
  BY <1>2, <1>4, AlikeGood DEF Alike
<1>6. conn'[c] = z /\ \A d \in Clients \ {c} : conn'[d] = conn[d]
  BY <1>1, <1>2
<1>7. /\ backlog' \in Seq(Clients) /\ Distinct(backlog') /\ ToSet(backlog') = ToSet(backlog) \cup {c}
  BY <1>1, <1>2, <1>3, LastOf
<1>8. Typed'
  BY <1>1, <1>2, <1>5, <1>7 DEF Typed
<1>9. ASSUME NEW d \in Clients PROVE Placed(d)'
  <2>1. Placed(d)
    BY DEF Safe
  <2> QED BY <1>1, <1>3, <1>5, <1>6, <1>7, <2>1 DEF Placed, InBacklog, InHand
<1>10. ASSUME NEW d \in Clients PROVE Good(conn'[d], child'[d], cgi'[d], ask'[d], sys')
  <2>1. Good(conn[d], child[d], cgi[d], ask[d], sys)
    BY DEF Safe
  <2> QED BY <1>1, <1>5, <1>6, <2>1
<1> QED BY <1>7, <1>8, <1>9, <1>10 DEF IInv, Safe

(* Whatever a client does keeps the invariant.                              *)
LEMMA ClientSafe ==
    ASSUME Typed, Safe, NEW c \in Clients, Client(c)
    PROVE  IInv'
BY ConnectSafe, SendSafe, ShutSafe, ReadSafe, ResetSafe DEF Client, ClientStep

(* What is lost with a connection that is closed too early comes after what *)
(* has been received.                                                       *)
LEMMA LoseSafe ==
    ASSUME Typed, Safe, NEW c \in Clients, LoseRest(c)
    PROVE  IInv'
<1> DEFINE q == conn[c]
           e == <<>>
           z == [q EXCEPT !.out = e]
           k == child[c]
           w == Answer(ask[c].req, sys.tty)
<1>1. /\ q \in ConnType /\ k \in ChildType /\ cgi[c] \in CgiType /\ ask[c] \in AskType
      /\ Good(q, k, cgi[c], ask[c], sys)
  BY Facts
<1>2. /\ conn' = [conn EXCEPT ![c] = z] /\ q.in # <<>> /\ q.out # <<>> /\ k.at = "zombie"
      /\ UNCHANGED <<kind, msg, backlog, sys, ask, main, child, cgi>>
  BY DEF LoseRest, Changes
<1>3. /\ e \in Seq(Parts) /\ e = <<>> /\ q.out \in Seq(Parts) /\ q.got \in Seq(Parts)
      /\ IsPrefix(Cat(q.got, q.out), w) /\ ~q.gone
  BY <1>1, <1>2 DEF ConnType, Good, Answering, Sent, Reset
<1> HIDE DEF q, e, k
<1>4. Carries(z, q, q.unsent, q.in, e, q.got, q.fin)
  BY <1>1, <1>3, Writing
<1> HIDE DEF z
<1>5. /\ z \in ConnType /\ z.in = q.in /\ z.unsent = q.unsent /\ z.out = e /\ z.got = q.got
      /\ z.gone <=> q.gone
      /\ z.err <=> q.err
      /\ z.up <=> q.up
  BY <1>4 DEF Carries
<1>6. IsPrefix(Sent(z), w)
  <2>1. Cat(q.got, e) = q.got
    BY <1>3, CatEmpty
  <2>2. w \in Seq(Parts)
    BY <1>1, AnswerTyped, SysTyped
  <2>3. IsPrefix(q.got, w)
    BY <1>3, <2>2, Beginning
  <2> QED BY <1>5, <2>1, <2>3 DEF Sent
<1>7. Good(z, k, cgi[c], ask[c], sys)
  <2>1. Reset(z)
    BY <1>1, <1>3, <1>5 DEF Good, Reset
  <2>2. Reading(z, k, ask[c])
    BY <1>2 DEF Reading
  <2>3. Answering(z, k, cgi[c], ask[c], sys.tty)
    BY <1>2, <1>6 DEF Answering, w
  <2>4. Ended(z, k, ask[c], sys)
    BY <1>2, <1>5 DEF Ended
  <2> QED BY <1>1, <2>1, <2>2, <2>3, <2>4 DEF Good
<1> QED BY <1>2, <1>5, <1>7, LocalConn DEF q, k

-----------------------------------------------------------------------------
(* main.                                                                    *)
(* A step of main on one connection and its child.                          *)
LEMMA OfMain ==
    ASSUME Typed, Safe, NEW c \in Clients, NEW q \in ConnType, NEW k \in ChildType,
           conn' = [conn EXCEPT ![c] = q], child' = [child EXCEPT ![c] = k],
           UNCHANGED <<kind, msg, sys, ask, cgi>>,
           main' \in MainType, main'.at \in {"fork", "close"} => main'.fd \in Clients,
           backlog' \in Seq(Clients), Distinct(backlog'), \A d \in Clients : Placed(d)',
           Good(q, k, cgi[c], ask[c], sys)
    PROVE  IInv'
<1>1. conn \in [Clients -> ConnType] /\ child \in [Clients -> ChildType]
  BY DEF Typed
<1>2. /\ conn'[c] = q /\ child'[c] = k
      /\ \A d \in Clients \ {c} : conn'[d] = conn[d] /\ child'[d] = child[d]
  BY <1>1
<1>3. Typed'
  BY <1>1 DEF Typed
<1>4. ASSUME NEW d \in Clients PROVE Good(conn'[d], child'[d], cgi'[d], ask'[d], sys')
  <2>1. CASE d = c
    BY <1>2, <2>1
  <2>2. CASE d # c
    <3>1. Good(conn[d], child[d], cgi[d], ask[d], sys)
      BY DEF Safe
    <3> QED BY <1>2, <2>2, <3>1
  <2> QED BY <2>1, <2>2
<1> QED BY <1>3, <1>4 DEF Safe, IInv

(* A connection with other descriptors.                                     *)
LEMMA Reopened ==
    ASSUME NEW q \in ConnType, NEW w \in SUBSET {"main", "child", "cgi"},
           NEW k, NEW g, NEW a, NEW s, Good(q, k, g, a, s), NEW z, z = [q EXCEPT !.open = w]
    PROVE  z \in ConnType /\ (z.up <=> q.up) /\ Good(z, k, g, a, s)
<1>1. Alike([q EXCEPT !.open = w], q) /\ ([q EXCEPT !.open = w].up <=> q.up)
  BY Likeness
<1>2. Alike(z, q) /\ (z.up <=> q.up)
  BY <1>1
<1>3. z \in ConnType
  BY <1>2 DEF Alike
<1> QED BY <1>2, <1>3, AlikeGood

(* open_listenfd keeps the invariant.                                       *)
LEMMA ListensSafe ==
    ASSUME Typed, Safe, Open_listenfd
    PROVE  IInv'
<1>1. PICK at \in {"accept", "exited"} : main' = [main EXCEPT !.at = at]
  BY DEF Open_listenfd
<1>2. /\ main \in MainType /\ UNCHANGED <<kind, msg, conn, backlog, sys, ask, child, cgi>>
      /\ main.at = "setup"
  <2>1. main \in MainType
    BY DEF Typed
  <2>2. main.at = "setup" /\ UNCHANGED <<connVars, sys, ask, child, cgi>>
    BY DEF Open_listenfd
  <2> QED BY <2>1, <2>2 DEF connVars
<1>3. main' \in MainType /\ main'.at \notin {"fork", "close"}
  BY <1>1, <1>2 DEF MainType
<1>4. Typed'
  BY <1>2, <1>3 DEF Typed
<1>5. ASSUME NEW d \in Clients PROVE Placed(d)' /\ Good(conn'[d], child'[d], cgi'[d], ask'[d], sys')
  <2>1. Placed(d) /\ Good(conn[d], child[d], cgi[d], ask[d], sys)
    BY DEF Safe
  <2> QED BY <1>2, <1>3, <2>1 DEF Placed, InBacklog, InHand
<1>6. Distinct(backlog')
  BY <1>2 DEF Safe
<1> QED BY <1>4, <1>5, <1>6 DEF IInv, Safe

(* Accept keeps the invariant.                                              *)
LEMMA AcceptSafe ==
    ASSUME Typed, Safe, Accept
    PROVE  IInv'
<1> DEFINE h == Head(backlog)
           w == {"main"}
           z == [conn[h] EXCEPT !.open = w]
           k == child[h]
<1>1. /\ main.at = "accept" /\ backlog # <<>> /\ main' = [at |-> "fork", fd |-> h]
      /\ conn' = [conn EXCEPT ![h].open = w] /\ backlog' = Tail(backlog)
      /\ UNCHANGED <<kind, msg, sys, ask, child, cgi>>
  BY DEF Accept, Accepted
<1>2. /\ backlog \in Seq(Clients) /\ Distinct(backlog) /\ conn \in [Clients -> ConnType]
      /\ child \in [Clients -> ChildType]
  BY DEF Typed, Safe
<1>3. /\ h \in Clients /\ Tail(backlog) \in Seq(Clients) /\ h \in ToSet(backlog)
      /\ Distinct(Tail(backlog))
      /\ \A d \in Clients : d \in ToSet(Tail(backlog)) <=> d \in ToSet(backlog) /\ d # h
  BY <1>1, <1>2, FirstOf
<1>4. conn' = [conn EXCEPT ![h] = z] /\ child' = [child EXCEPT ![h] = k] /\ k \in ChildType
  BY <1>1, <1>2, <1>3
<1>5. main' \in MainType /\ main'.at = "fork" /\ main'.fd = h
  BY <1>1, <1>3 DEF MainType
<1>6. Good(conn[h], k, cgi[h], ask[h], sys) /\ w \in SUBSET {"main", "child", "cgi"}
  BY <1>3 DEF Safe
<1> HIDE DEF h, w, k
<1>7. z \in ConnType /\ (z.up <=> conn[h].up) /\ Good(z, k, cgi[h], ask[h], sys)
  <2>1. conn[h] \in ConnType
    BY <1>2, <1>3
  <2> QED BY <1>6, <2>1, Reopened
<1> HIDE DEF z
<1>8. ASSUME NEW d \in Clients PROVE Placed(d)'
  <2>1. /\ Placed(d) /\ child'[d].at = child[d].at
        /\ conn'[d].up <=> conn[d].up
    BY <1>1, <1>2, <1>4, <1>7 DEF Safe
  <2>2. CASE d = h
    BY <1>1, <1>3, <1>5, <2>1, <2>2 DEF Placed, InBacklog, InHand
  <2>3. CASE d # h
    BY <1>1, <1>3, <1>5, <2>1, <2>3 DEF Placed, InBacklog, InHand
  <2> QED BY <2>2, <2>3
<1>9. Distinct(backlog') /\ backlog' \in Seq(Clients)
  BY <1>1, <1>3
<1> QED BY <1>1, <1>3, <1>4, <1>5, <1>7, <1>8, <1>9, OfMain

(* close keeps the invariant.                                               *)
LEMMA CloseSafe ==
    ASSUME Typed, Safe, Close
    PROVE  IInv'
<1> DEFINE h == main.fd
           w == conn[h].open \ {"main"}
           z == [conn[h] EXCEPT !.open = w]
           k == child[h]
<1>1. /\ main.at = "close" /\ main' = [at |-> "accept", fd |-> None] /\ backlog' = backlog
      /\ conn' = [conn EXCEPT ![h].open = w]
      /\ UNCHANGED <<kind, msg, sys, ask, child, cgi>>
  BY DEF Close, Without
<1>2. /\ h \in Clients /\ conn \in [Clients -> ConnType] /\ child \in [Clients -> ChildType]
      /\ backlog \in Seq(Clients)
  BY <1>1 DEF Typed
<1>3. conn' = [conn EXCEPT ![h] = z] /\ child' = [child EXCEPT ![h] = k] /\ k \in ChildType
  BY <1>1, <1>2
<1>4. main' \in MainType /\ main'.at = "accept" /\ Distinct(backlog)
  BY <1>1 DEF MainType, Safe
<1>5. Good(conn[h], k, cgi[h], ask[h], sys) /\ w \in SUBSET {"main", "child", "cgi"}
  <2>1. conn[h] \in ConnType
    BY <1>2
  <2> QED BY <1>2, <2>1 DEF Safe, ConnType
<1> HIDE DEF h, w, k
<1>6. z \in ConnType /\ (z.up <=> conn[h].up) /\ Good(z, k, cgi[h], ask[h], sys)
  BY <1>2, <1>5, Reopened
<1> HIDE DEF z
<1>7. ASSUME NEW d \in Clients PROVE Placed(d)'
  <2>1. /\ Placed(d) /\ child'[d].at = child[d].at
        /\ conn'[d].up <=> conn[d].up
    BY <1>1, <1>2, <1>3, <1>6 DEF Safe
  <2> QED BY <1>1, <1>4, <2>1 DEF Placed, InBacklog, InHand
<1> QED BY <1>1, <1>2, <1>3, <1>4, <1>6, <1>7, OfMain

(* A child that has just begun.                                             *)
Begun(t, k) == t \in ChildType /\ t.at = "request" /\ t.rio = k.rio
LEMMA Beginnings ==
    ASSUME NEW k \in ChildType, NEW at, at = "request"
    PROVE  Begun([k EXCEPT !.at = at], k)
BY DEF Begun, ChildType

(* It has read nothing and owes the whole answer.                           *)
LEMMA BegunGood ==
    ASSUME NEW q, NEW k, NEW t, NEW g, NEW a, NEW s,
           Good(q, k, g, a, s), k.at = "none", Begun(t, k)
    PROVE  Good(q, t, g, a, s)
<1>1. InTurn(t, g, a.req)
  BY DEF Good, InTurn, Begun
<1>2. Reading(q, t, a)
  BY DEF Good, Reading, Begun
<1>3. Owes(t, g, a.req, s.tty) = Owes(k, g, a.req, s.tty)
  BY DEF Owes, Begun
<1>4. Answering(q, t, g, a, s.tty)
  BY <1>3 DEF Good, Answering, Paid, Begun
<1> QED BY <1>1, <1>2, <1>4 DEF Good, Ended, Begun

(* Fork keeps the invariant.                                                *)
LEMMA ForkSafe ==
    ASSUME Typed, Safe, Fork
    PROVE  IInv'
<1> DEFINE h == main.fd
           k == child[h]
<1>1. /\ main.at = "fork" /\ backlog' = backlog /\ UNCHANGED <<kind, msg, sys, ask, cgi>>
  BY DEF Fork
<1>2. /\ h \in Clients /\ conn \in [Clients -> ConnType] /\ child \in [Clients -> ChildType]
      /\ k \in ChildType /\ main \in MainType
      /\ backlog \in Seq(Clients) /\ Distinct(backlog) /\ InHand(h) /\ conn[h] \in ConnType
      /\ Good(conn[h], k, cgi[h], ask[h], sys) /\ Placed(h)
  <2>1. h \in Clients /\ main \in MainType /\ InHand(h)
    BY <1>1 DEF Typed, InHand
  <2>2. /\ conn \in [Clients -> ConnType] /\ child \in [Clients -> ChildType]
        /\ backlog \in Seq(Clients)
    BY DEF Typed
  <2>3. Distinct(backlog) /\ Good(conn[h], k, cgi[h], ask[h], sys) /\ Placed(h)
    BY <2>1 DEF Safe
  <2> QED BY <2>1, <2>2, <2>3
<1>3. ~InBacklog(h) /\ k.at = "none" /\ conn[h].up
  BY <1>2 DEF Placed
<1>4. CASE Room
  <2> DEFINE w == {"main", "child"}
             z == [conn[h] EXCEPT !.open = w]
             at == "request"
             t == [k EXCEPT !.at = at]
  <2>1. /\ conn' = [conn EXCEPT ![h] = z] /\ child' = [child EXCEPT ![h] = t]
        /\ main' = [main EXCEPT !.at = "close"]
    BY <1>2, <1>4 DEF Fork
  <2>2. main' \in MainType /\ main'.at = "close" /\ main'.fd = h
    BY <1>2, <2>1 DEF MainType
  <2>3. w \in SUBSET {"main", "child", "cgi"} /\ at = "request"
    OBVIOUS
  <2> HIDE DEF h, w, k, at
  <2>4. z \in ConnType /\ (z.up <=> conn[h].up) /\ Good(z, k, cgi[h], ask[h], sys)
    BY <1>2, <2>3, Reopened
  <2>5. Begun(t, k)
    BY <1>2, <2>3, Beginnings
  <2> HIDE DEF z, t
  <2>6. Good(z, t, cgi[h], ask[h], sys) /\ t \in ChildType
    BY <1>3, <2>4, <2>5, BegunGood DEF Begun
  <2>7. ASSUME NEW d \in Clients PROVE Placed(d)'
    <3>1. Placed(d)
      BY DEF Safe
    <3>2. CASE d = h
      <4>1. conn'[d].up /\ ~InBacklog(d)' /\ ~InHand(d)'
        BY <1>1, <1>2, <1>3, <2>1, <2>2, <2>4, <3>2 DEF InBacklog, InHand
      <4> QED BY <4>1 DEF Placed
    <3>3. CASE d # h
      <4>1. conn'[d] = conn[d] /\ child'[d] = child[d] /\ ~InHand(d)'
        BY <1>2, <2>1, <2>2, <3>3 DEF InHand
      <4> QED BY <1>1, <3>1, <4>1 DEF Placed, InBacklog
    <3> QED BY <3>2, <3>3
  <2> QED BY <1>1, <1>2, <2>1, <2>2, <2>4, <2>6, <2>7, OfMain
<1>5. CASE ~Room
  <2> DEFINE w == conn[h].open \ {"main"}
             z == [conn[h] EXCEPT !.open = w]
  <2>1. /\ conn' = [conn EXCEPT ![h] = z] /\ child' = [child EXCEPT ![h] = k]
        /\ main' = [at |-> "exited", fd |-> None] /\ child' = child
    BY <1>2, <1>5 DEF Fork, Without
  <2>2. main' \in MainType /\ main'.at = "exited"
    BY <2>1 DEF MainType
  <2>3. w \in SUBSET {"main", "child", "cgi"}
    BY <1>2 DEF ConnType
  <2> HIDE DEF h, w, k
  <2>4. z \in ConnType /\ (z.up <=> conn[h].up) /\ Good(z, k, cgi[h], ask[h], sys)
    BY <1>2, <2>3, Reopened
  <2> HIDE DEF z
  <2>5. ASSUME NEW d \in Clients PROVE Placed(d)'
    <3>1. /\ Placed(d) /\ child'[d].at = child[d].at
          /\ conn'[d].up <=> conn[d].up
      BY <1>2, <2>1, <2>4 DEF Safe
    <3> QED BY <1>1, <2>2, <3>1 DEF Placed, InBacklog, InHand
  <2> QED BY <1>1, <1>2, <2>1, <2>2, <2>4, <2>5, OfMain
<1> QED BY <1>4, <1>5

(* What main does keeps the invariant.                                      *)
LEMMA MainSafe ==
    ASSUME Typed, Safe, MainStep
    PROVE  IInv'
BY ListensSafe, AcceptSafe, ForkSafe, CloseSafe DEF MainStep

-----------------------------------------------------------------------------
(* The children.                                                            *)
(* What a child is.                                                         *)
Turned(t, at, rio, todo, next) ==
    t \in ChildType /\ t.at = at /\ t.rio = rio /\ t.todo = todo /\ t.next = next
Ats == {"none", "request", "headers", "serve", "spins", "write", "map", "fork", "wait",
        "close", "zombie"}

(* Going on, and reading on.                                                *)
LEMMA Turning ==
    ASSUME NEW k \in ChildType, NEW at \in Ats, NEW r \in RioType
    PROVE  /\ Turned([k EXCEPT !.at = at], at, k.rio, k.todo, k.next)
           /\ Turned([k EXCEPT !.rio = r], k.at, r, k.todo, k.next)
           /\ Turned([k EXCEPT !.rio = r, !.at = at], at, r, k.todo, k.next)
BY DEF Turned, ChildType, Ats

(* Writing.                                                                 *)
LEMMA TurningTo ==
    ASSUME NEW k \in ChildType, NEW at \in Ats, NEW r \in RioType, NEW s \in Seq(Parts),
           NEW next \in {"none", "close", "fork", "map"}
    PROVE  /\ Turned([k EXCEPT !.todo = s, !.at = at], at, k.rio, s, k.next)
           /\ Turned([k EXCEPT !.at = at, !.todo = s, !.next = next], at, k.rio, s, next)
           /\ Turned([k EXCEPT !.rio = r, !.at = at, !.todo = s, !.next = next], at, r, s, next)
BY DEF Turned, ChildType, Ats

(* Whoever has sent a byte that a child has read has been heard.            *)
LEMMA HeardIs ==
    ASSUME NEW q \in ConnType, NEW r \in RioType, NEW a \in AskType, NEW p \in Nat,
           At(q, r, Request(a), p), p > 0 \/ Len(r.user) > 0
    PROVE  Heard(q, a)
<1> DEFINE u == Len(r.user)
           b == Len(r.buf)
           i == Len(q.in)
           v == Len(q.unsent)
           l == Len(Request(a))
<1>1. u \in Nat /\ b \in Nat /\ i \in Nat /\ v \in Nat /\ l \in Nat
  BY Fields, RequestIs, LenProperties
<1>2. p + u + b = l - v - i /\ (p > 0 \/ u > 0)
  BY DEF At, Lie
<1> HIDE DEF u, b, i, v, l
<1>3. v < l
  BY <1>1, <1>2
<1> QED BY <1>3 DEF Heard, v, l

(* What a step does that leaves the answer the same: what has been sent and *)
(* what is owed, taken together.                                            *)
Keeps(z, t, h, q, k, g, req, tty) ==
    Cat(Sent(z), Owes(t, h, req, tty)) = Cat(Sent(q), Owes(k, g, req, tty))
LEMMA Onward ==
    ASSUME NEW q, NEW k, NEW g, NEW a \in AskType, NEW s, s.tty \in BOOLEAN, Good(q, k, g, a, s),
           NEW z, NEW t, NEW h, Reset(z), Reading(z, t, a), InTurn(t, h, a.req),
           k.at \notin {"close", "zombie"}, t.at # "zombie",
           z.gone <=> q.gone,
           z.gone \/ Keeps(z, t, h, q, k, g, a.req, s.tty),
           \/ Sent(z) = Sent(q)
           \/ ~z.gone /\ Sent(z) \in Seq(Parts) /\ Owes(t, h, a.req, s.tty) \in Seq(Parts),
           z.gone \/ t.at \in {"none", "request"} \/ Heard(z, a)
    PROVE  Good(z, t, h, a, s)
<1>1. Answering(q, k, g, a, s.tty)
  BY DEF Good
<1>2. z.gone \/ Paid(z, t, h, a, s.tty)
  <2> SUFFICES ASSUME ~z.gone PROVE Paid(z, t, h, a, s.tty)
    OBVIOUS
  <2>1. Cat(Sent(q), Owes(k, g, a.req, s.tty)) = Answer(a.req, s.tty)
    BY <1>1 DEF Answering, Paid
  <2> QED BY <2>1 DEF Paid, Keeps
<1>3. IsPrefix(Sent(z), Answer(a.req, s.tty))
  <2>1. CASE Sent(z) = Sent(q)
    BY <1>1, <2>1 DEF Answering
  <2>2. CASE Sent(z) # Sent(q)
    <3>1. Cat(Sent(z), Owes(t, h, a.req, s.tty)) = Answer(a.req, s.tty)
      BY <1>2, <2>2 DEF Paid
    <3> QED BY <2>2, <3>1, Beginning
  <2> QED BY <2>1, <2>2
<1>4. Answering(z, t, h, a, s.tty)
  BY <1>2, <1>3 DEF Answering
<1> QED BY <1>4 DEF Good, Ended

(* A child that reads on owes the whole answer.                             *)
LEMMA ReadsOn ==
    ASSUME NEW q, NEW k, NEW g, NEW a \in AskType, NEW s, s.tty \in BOOLEAN, Good(q, k, g, a, s),
           NEW z, NEW t, Reset(z), Reading(z, t, a),
           k.at \in {"request", "headers"}, t.at \in {"request", "headers", "serve", "spins"},
           z.gone <=> q.gone,
           Sent(z) = Sent(q), t.at = "request" \/ Heard(z, a)
    PROVE  Good(z, t, g, a, s)
<1>1. InTurn(t, g, a.req)
  BY DEF Good, InTurn
<1>2. Owes(t, g, a.req, s.tty) = Owes(k, g, a.req, s.tty)
  BY DEF Owes
<1>3. Keeps(z, t, g, q, k, g, a.req, s.tty)
  BY <1>2 DEF Keeps
<1> QED BY <1>1, <1>3, Onward

(* A child that has answered a POST has it to write.                        *)
LEMMA WritesError ==
    ASSUME NEW q, NEW k, NEW g, NEW a \in AskType, NEW s, s.tty \in BOOLEAN, Good(q, k, g, a, s),
           NEW z, NEW t, Reset(z), k.at \in {"request", "serve"},
           z.gone <=> q.gone,
           Sent(z) = Sent(q), Heard(z, a), a.req \in DOMAIN Errors,
           t.at = "write", t.todo = ErrorPage(a.req), t.next = "close"
    PROVE  Good(z, t, g, a, s)
<1>1. InTurn(t, g, a.req)
  BY DEF Good, InTurn
<1>2. Owes(t, g, a.req, s.tty) = Cat(ErrorPage(a.req), After("close", a.req, s.tty))
  BY DEF Owes
<1>3. After("close", a.req, s.tty) = <<>>
  BY DEF After
<1>4. ErrorPage(a.req) \in Seq(Parts) /\ Answer(a.req, s.tty) = ErrorPage(a.req)
  BY AnswerIs DEF AskType
<1>5. Cat(ErrorPage(a.req), <<>>) = ErrorPage(a.req)
  BY <1>4, CatEmpty
<1>6. Owes(k, g, a.req, s.tty) = Answer(a.req, s.tty)
  BY DEF Owes
<1>7. Keeps(z, t, g, q, k, g, a.req, s.tty)
  BY <1>2, <1>3, <1>4, <1>5, <1>6 DEF Keeps
<1>8. Reading(z, t, a)
  BY DEF Reading
<1> QED BY <1>1, <1>7, <1>8, Onward

(* Amid a line that began where lines begin.                                *)
Amid(at, q, r, a) ==
    \/ at = "request" /\ At(q, r, Request(a), 0)
    \/ at = "headers" /\ \E p \in Nat : LineEnd(Request(a), p) /\ At(q, r, Request(a), p)

(* Nothing but what a child has read has changed.                           *)
Reads(z, q) ==
    /\ z \in ConnType /\ Reset(z) /\ Sent(z) = Sent(q)
    /\ z.gone <=> q.gone

(* The line is not finished yet.                                            *)
LEMMA NoLine ==
    ASSUME NEW q, NEW k, NEW g, NEW a \in AskType, NEW s, s.tty \in BOOLEAN, Good(q, k, g, a, s),
           NEW z, Reads(z, q), NEW t \in RioType, OneLine(t.user), Amid(k.at, z, t, a),
           ~LineRead(t), NEW x, x.at = k.at, x.rio = t
    PROVE  Good(z, x, g, a, s)
<1>1. Unfinished(t.user)
  <2>1. MaxLine \in Nat \ {0, 1} /\ t.user \in Seq(Bytes) /\ Len(t.user) \in Nat
    BY RioAssumption, LenProperties DEF RioType
  <2>2. Len(t.user) # MaxLine - 1 /\ (t.user = <<>> \/ t.user[Len(t.user)] # NL)
    BY DEF LineRead, Last
  <2>3. t.user = <<>> => Len(t.user) = 0
    OBVIOUS
  <2> QED BY <2>1, <2>2, <2>3 DEF OneLine, Unfinished
<1>2. k.at \in {"request", "headers"}
  BY DEF Amid
<1>3. Reading(z, x, a)
  BY <1>1 DEF Reading, Amid
<1>4. x.at = "request" \/ Heard(z, a)
  <2> SUFFICES ASSUME x.at # "request" PROVE Heard(z, a)
    OBVIOUS
  <2>1. PICK p \in Nat : LineEnd(Request(a), p) /\ At(z, t, Request(a), p)
    BY DEF Amid
  <2>2. p > 0
    BY <2>1 DEF LineEnd
  <2> QED BY <2>1, <2>2, HeardIs DEF Reads
<1> QED BY <1>2, <1>3, <1>4, ReadsOn DEF Reads

(* What sscanf takes for the method is the method.                          *)
LEMMA MethodIs ==
    ASSUME NEW q \in ConnType, NEW t \in RioType, NEW a \in AskType, At(q, t, Request(a), 0),
           t.user # <<>>
    PROVE  Head(t.user) = a.req /\ Heard(q, a)
<1>1. t.user \in Seq(Bytes) /\ Len(t.user) \in Nat \ {0}
  BY EmptySeq, LenProperties DEF RioType
<1>2. Head(t.user) = t.user[1] /\ 1 \in 1 .. Len(t.user)
  BY <1>1, EmptySeq
<1>3. t.user[1] = Request(a)[0 + 1]
  BY <1>2 DEF At, Lie, Lies
<1>4. t.user[1] = a.req
  BY <1>3, RequestIs
<1>5. Heard(q, a)
  BY <1>1, HeardIs
<1> QED BY <1>2, <1>4, <1>5

(* A request line has been read: a POST is answered at once, else the       *)
(* headers come next.                                                       *)
LEMMA RequestRead ==
    ASSUME NEW q, NEW k, NEW g, NEW a \in AskType, NEW s, s.tty \in BOOLEAN, Good(q, k, g, a, s),
           NEW z, Reads(z, q), NEW t \in RioType, OneLine(t.user), Amid(k.at, z, t, a),
           LineRead(t), k.at = "request", NEW x,
           IF Head(t.user) = "post"
           THEN x.at = "write" /\ x.todo = ErrorPage("post") /\ x.next = "close"
           ELSE x.at = "headers" /\ x.rio = Returned(t)
    PROVE  Good(z, x, g, a, s)
<1>1. z \in ConnType /\ At(z, t, Request(a), 0) /\ Request(a) \in Seq(Bytes)
  BY RequestIs DEF Reads, Amid
<1>2. Len(t.user) = 2 /\ Head(t.user) = a.req /\ LineEnd(Request(a), 2)
  BY <1>1, FirstLine
<1>3. Heard(z, a)
  BY <1>1, <1>2, HeardIs
<1>4. CASE a.req = "post"
  <2>1. a.req \in DOMAIN Errors
    BY <1>4 DEF Errors
  <2> QED BY <1>2, <1>3, <1>4, <2>1, WritesError DEF Reads
<1>5. CASE a.req # "post"
  <2>1. x.at = "headers" /\ x.rio = Returned(t)
    BY <1>2, <1>5
  <2>2. Returned(t).user = <<>> /\ At(z, Returned(t), Request(a), 0 + Len(t.user))
    BY <1>1, ReturnAt
  <2>3. Unfinished(Returned(t).user)
    <3>1. MaxLine \in Nat /\ MaxLine > 2 /\ Len(<<>>) = 0
      BY RioAssumption, TinyAssumption
    <3> QED BY <2>2, <3>1 DEF Unfinished
  <2>4. At(z, Returned(t), Request(a), 2)
    BY <1>2, <2>2
  <2>5. Reading(z, x, a)
    BY <1>2, <2>1, <2>3, <2>4 DEF Reading
  <2> QED BY <1>3, <2>1, <2>5, ReadsOn DEF Reads
<1> QED BY <1>4, <1>5

(* A header line has been read, or the blank line.                          *)
Blank(t) == t.user = <<NL>>
LEMMA HeaderRead ==
    ASSUME NEW q, NEW k, NEW g, NEW a \in AskType, NEW s, s.tty \in BOOLEAN, Good(q, k, g, a, s),
           NEW z, Reads(z, q), NEW t \in RioType, OneLine(t.user), Amid(k.at, z, t, a),
           LineRead(t), k.at = "headers", NEW x, x.rio = Returned(t),
           IF Blank(t) THEN x.at = "serve" ELSE x.at = "headers"
    PROVE  Good(z, x, g, a, s)
<1>1. z \in ConnType /\ Request(a) \in Seq(Bytes)
  BY RequestIs DEF Reads
<1>2. PICK p \in Nat : LineEnd(Request(a), p) /\ At(z, t, Request(a), p)
  BY DEF Amid
<1>3. Heard(z, a)
  <2>1. p > 0
    BY <1>2 DEF LineEnd
  <2> QED BY <1>1, <1>2, <2>1, HeardIs
<1>4. /\ Returned(t).user = <<>> /\ Returned(t).buf = t.buf
      /\ At(z, Returned(t), Request(a), p + Len(t.user))
  BY <1>1, <1>2, ReturnAt
<1>5. CASE Blank(t)
  <2>1. \/ Len(z.unsent) = 0 /\ Len(z.in) = 0 /\ Len(t.buf) = 0
        \/ Filled(a.headers)
    BY <1>1, <1>2, <1>5, BlankLine DEF Blank
  <2>2. x.at = "serve"
    BY <1>5
  <2>3. Reading(z, x, a)
    BY <1>4, <2>1, <2>2 DEF Reading
  <2> QED BY <1>3, <2>2, <2>3, ReadsOn DEF Reads
<1>6. CASE ~Blank(t)
  <2>1. LineEnd(Request(a), p + Len(t.user)) /\ p + Len(t.user) \in Nat
    <3>1. LineEnd(Request(a), p + Len(t.user))
      BY <1>1, <1>2, NextLine
    <3> QED BY <3>1 DEF LineEnd
  <2>2. Unfinished(Returned(t).user)
    <3>1. MaxLine \in Nat /\ MaxLine > 2 /\ Len(<<>>) = 0
      BY RioAssumption, TinyAssumption
    <3> QED BY <1>4, <3>1 DEF Unfinished
  <2>3. x.at = "headers"
    BY <1>6
  <2>4. Reading(z, x, a)
    BY <1>4, <2>1, <2>2, <2>3 DEF Reading
  <2> QED BY <1>3, <2>3, <2>4, ReadsOn DEF Reads
<1> QED BY <1>5, <1>6

(* What rio_readlineb makes of its buffer keeps the invariant.              *)
LEMMA LineSafe ==
    ASSUME Typed, Safe, NEW c \in Clients, NEW z, Reads(z, conn[c]),
           z.up <=> conn[c].up,
           conn' = [conn EXCEPT ![c] = z], NEW r \in RioType, Unfinished(r.user), r.buf # <<>>,
           Amid(child[c].at, z, r, ask[c]), Becomes(c, Line(c, Copied(r))),
           UNCHANGED <<kind, msg, backlog, sys, ask, main, cgi>>
    PROVE  IInv'
<1> DEFINE t == Copied(r)
           x == Line(c, t)
           k == child[c]
           m == Request(ask[c])
           q == conn[c]
<1>1. /\ k \in ChildType /\ ask[c] \in AskType /\ Good(q, k, cgi[c], ask[c], sys) /\ m \in Seq(Bytes)
      /\ z \in ConnType /\ sys.tty \in BOOLEAN
  BY Facts, SysTyped DEF Reads
<1>2. PICK n \in 1 .. Len(r.buf) : Moved(t, r, n) /\ OneLine(t.user)
  BY Copying
<1>3. t \in RioType
  BY <1>2 DEF Moved
<1> HIDE DEF t
<1>4. \A p \in Nat : At(z, r, m, p) => At(z, t, m, p)
  BY <1>1, <1>2, CopyAt
<1>5. Amid(k.at, z, t, ask[c]) /\ k.at \in {"request", "headers"}
  BY <1>4 DEF Amid
<1>6. x \in ChildType /\ x.at # "none" /\ Good(z, x, cgi[c], ask[c], sys)
  <2>1. CASE ~LineRead(t)
    <3> DEFINE y == [k EXCEPT !.rio = t]
    <3>1. x = y
      BY <2>1 DEF Line
    <3>2. Turned(y, k.at, t, k.todo, k.next)
      BY <1>1, <1>3, Turning DEF Ats, ChildType
    <3> HIDE DEF x, y, k, q
    <3>3. x \in ChildType /\ x.at = k.at /\ x.rio = t
      BY <3>1, <3>2 DEF Turned
    <3> QED BY <1>1, <1>2, <1>3, <1>5, <2>1, <3>3, NoLine DEF q
  <2>2. CASE LineRead(t) /\ k.at = "request"
    <3>1. x = RequestLine(c, t)
      BY <2>2 DEF Line
    <3> DEFINE w == Returned(t)
               e == ErrorPage("post")
               head == "headers"
               write == "write"
               close == "close"
    <3>2. w \in RioType
      <4>1. At(z, t, m, 0)
        BY <1>5, <2>2 DEF Amid
      <4> QED BY <1>1, <1>3, <4>1, ReturnAt
    <3>3. e \in Seq(Parts) /\ head = "headers" /\ write = "write" /\ close = "close"
      <4>1. "post" \in DOMAIN Errors /\ "post" \in Requests
        BY DEF Errors, Requests
      <4> QED BY <1>1, <4>1, AnswerIs
    <3> DEFINE y == [k EXCEPT !.rio = w, !.at = head]
               v == [k EXCEPT !.rio = w, !.at = write, !.todo = e, !.next = close]
    <3>4. x = IF Head(t.user) = "post" THEN v ELSE y
      BY <3>1 DEF RequestLine
    <3> HIDE DEF x, w, e, k, q, head, write, close
    <3>5. Turned(y, head, w, k.todo, k.next) /\ Turned(v, write, w, e, close)
      BY <1>1, <3>2, <3>3, Turning, TurningTo DEF Ats
    <3> HIDE DEF y, v
    <3>6. /\ x \in ChildType /\ x.at # "none"
          /\ IF Head(t.user) = "post"
             THEN x.at = "write" /\ x.todo = ErrorPage("post") /\ x.next = "close"
             ELSE x.at = "headers" /\ x.rio = Returned(t)
      BY <3>3, <3>4, <3>5 DEF Turned, w, e
    <3> QED BY <1>1, <1>2, <1>3, <1>5, <2>2, <3>6, RequestRead DEF q
  <2>3. CASE LineRead(t) /\ k.at = "headers"
    <3>1. x = HeaderLine(c, t)
      BY <2>3 DEF Line
    <3> DEFINE w == Returned(t)
               at == IF Blank(t) THEN "serve" ELSE "headers"
               y == [k EXCEPT !.rio = w, !.at = at]
    <3>2. w \in RioType
      <4>1. \E p \in Nat : At(z, t, m, p)
        BY <1>5, <2>3 DEF Amid
      <4> QED BY <1>1, <1>3, <4>1, ReturnAt
    <3>3. x = y
      BY <3>1 DEF HeaderLine, Blank
    <3>4. at \in Ats /\ at # "none" /\ (IF Blank(t) THEN at = "serve" ELSE at = "headers")
      BY DEF Ats
    <3> HIDE DEF x, w, k, q, at
    <3>5. Turned(y, at, w, k.todo, k.next)
      BY <1>1, <3>2, <3>4, Turning
    <3> HIDE DEF y
    <3>6. /\ x \in ChildType /\ x.at # "none" /\ x.rio = Returned(t)
          /\ IF Blank(t) THEN x.at = "serve" ELSE x.at = "headers"
      BY <3>3, <3>4, <3>5 DEF Turned, w
    <3>7. /\ ask[c] \in AskType /\ sys.tty \in BOOLEAN /\ Good(q, k, cgi[c], ask[c], sys)
          /\ Reads(z, q) /\ t \in RioType /\ OneLine(t.user) /\ Amid(k.at, z, t, ask[c])
          /\ LineRead(t) /\ k.at = "headers"
      BY <1>1, <1>2, <1>3, <1>5, <2>3 DEF q
    <3> QED BY <3>6, <3>7, HeaderRead
  <2> QED BY <1>5, <2>1, <2>2, <2>3
<1> DEFINE g == cgi[c]
<1>7. /\ conn' = [conn EXCEPT ![c] = z] /\ child' = [child EXCEPT ![c] = x]
      /\ cgi' = [cgi EXCEPT ![c] = g] /\ g \in CgiType /\ k.at # "none"
  BY <1>5 DEF Becomes, t, Typed
<1> HIDE DEF x, g
<1> QED BY <1>1, <1>6, <1>7, Local DEF g

(* A child that reads a line keeps the invariant.                           *)
LEMMA ReadlineSafe ==
    ASSUME Typed, Safe, NEW c \in Clients, Rio_readlineb(c)
    PROVE  IInv'
<1> DEFINE q == conn[c]
           k == child[c]
           m == Request(ask[c])
<1>1. /\ k \in ChildType /\ k.rio \in RioType /\ ask[c] \in AskType
      /\ Good(q, k, cgi[c], ask[c], sys) /\ m \in Seq(Bytes) /\ q \in ConnType
      /\ q.in \in Seq(Bytes) /\ Len(q.in) \in Nat /\ Reset(q)
  <2>1. q \in ConnType /\ k.rio \in RioType
    BY Facts
  <2> QED BY <2>1, Facts, Fields
<1>2. k.at \in {"request", "headers"} /\ UNCHANGED <<sys, ask, main, cgi>>
  BY DEF Rio_readlineb, Rest
<1>3. Over(q, k.rio) \/ (Unfinished(k.rio.user) /\ Amid(k.at, q, k.rio, ask[c]))
  <2>1. Reading(q, k, ask[c])
    BY <1>1 DEF Good
  <2> QED BY <1>2, <2>1 DEF Reading, Amid
<1>4. CASE NeedsRead(k.rio) /\ Ready(c) /\
           LET n == Min({RioBuf, Len(q.in)}) IN
             /\ Changes(c, [q EXCEPT !.in = Drop(@, n)])
             /\ Becomes(c, Line(c, Copied(Refilled(k.rio, SubSeq(q.in, 1, n)))))
  <2> DEFINE n == Min({RioBuf, Len(q.in)})
             y == Drop(q.in, n)
             w == SubSeq(q.in, 1, n)
             z == [q EXCEPT !.in = y]
             r == Refilled(k.rio, w)
  <2>1. k.rio.buf = <<>> /\ q.in # <<>> /\ ~Over(q, k.rio)
    BY <1>4 DEF NeedsRead, Ready, Over
  <2>2. n \in 1 .. Len(q.in)
    <3> DEFINE l == Len(q.in)
    <3>1. l \in Nat \ {0} /\ RioBuf \in Nat \ {0}
      BY <1>1, <2>1, EmptySeq, RioAssumption
    <3> HIDE DEF l
    <3>2. Min({RioBuf, l}) \in {RioBuf, l} /\ Min({RioBuf, l}) <= l
      BY <3>1, LeastOfTwo
    <3> QED BY <3>1, <3>2 DEF l
  <2>3. /\ Changes(c, z) /\ Becomes(c, Line(c, Copied(r)))
    BY <1>4
  <2> HIDE DEF n
  <2>4. y \in Seq(Bytes) /\ w \in Seq(Bytes) /\ Len(w) = n
    <3>1. n \in 0 .. Len(q.in)
      BY <1>1, <2>2
    <3> QED BY <1>1, <3>1, Split
  <2>5. w # <<>>
    <3>1. n \in Nat \ {0} /\ Len(<<>>) = 0
      BY <1>1, <2>2
    <3> HIDE DEF w
    <3> QED BY <2>4, <3>1
  <2> HIDE DEF q, k, m
  <2>6. r \in RioType /\ r.user = k.rio.user /\ r.buf = w
    <3> HIDE DEF w
    <3> QED BY <1>1, <2>4 DEF Refilled, RioType
  <2>7. Carries(z, q, q.unsent, y, q.out, q.got, q.fin)
    <3> HIDE DEF y
    <3> QED BY <1>1, <2>4, Moving
  <2> HIDE DEF z, r
  <2>8. /\ z \in ConnType /\ z.unsent = q.unsent /\ z.in = y /\ z.out = q.out /\ z.got = q.got
        /\ z.up <=> q.up
        /\ z.gone <=> q.gone
        /\ z.fin <=> q.fin
        /\ z.err <=> q.err
    BY <2>7 DEF Carries
  <2>9. ASSUME NEW p \in Nat, At(q, k.rio, m, p) PROVE At(z, r, m, p)
    <3>1. /\ z.unsent = q.unsent /\ z.in = Drop(q.in, n)
          /\ r.user = k.rio.user /\ r.buf = SubSeq(q.in, 1, n)
      BY <2>1, <2>6, <2>8
    <3> HIDE DEF y, w
    <3> QED BY <1>1, <2>1, <2>2, <2>6, <2>8, <2>9, <3>1, RefillAt
  <2>10. Reads(z, q)
    BY <1>1, <2>8 DEF Reads, Reset, Sent
  <2>11. Amid(k.at, z, r, ask[c]) /\ Unfinished(r.user) /\ r.buf # <<>>
    BY <1>3, <2>1, <2>5, <2>6, <2>9 DEF Amid, m
  <2>12. conn' = [conn EXCEPT ![c] = z] /\ UNCHANGED <<kind, msg, backlog>>
    BY <2>3 DEF Changes
  <2> HIDE DEF y, w
  <2> QED BY <1>2, <2>3, <2>6, <2>8, <2>10, <2>11, <2>12, LineSafe DEF q, k
<1>5. CASE k.rio.buf # <<>> /\ Becomes(c, Line(c, Copied(k.rio))) /\ UNCHANGED connVars
  <2>1. ~Over(q, k.rio)
    BY <1>5 DEF Over
  <2>2. conn' = [conn EXCEPT ![c] = q] /\ UNCHANGED <<kind, msg, backlog>>
    BY <1>5 DEF connVars, Typed
  <2>3. Reads(q, q) /\ (q.up <=> conn[c].up)
    BY <1>1 DEF Reads
  <2> HIDE DEF q
  <2> QED BY <1>1, <1>2, <1>3, <1>5, <2>1, <2>2, <2>3, LineSafe DEF q
<1> QED BY <1>4, <1>5 DEF Rio_readlineb

-----------------------------------------------------------------------------
(* The end of the file.                                                     *)
(* A client that has ended without a request line has sent nothing, and is  *)
(* sent nothing.                                                            *)
LEMMA SilentIs ==
    ASSUME NEW q \in ConnType, NEW k \in ChildType, NEW g, NEW a \in AskType, NEW s,
           s.tty \in BOOLEAN, Good(q, k, g, a, s), q.in = <<>>, ~q.gone,
           k.at = "request", k.rio.buf = <<>>, k.rio.user = <<>>
    PROVE  Silent(q, a)
<1> DEFINE m == Request(a)
           w == Answer(a.req, s.tty)
           y == q.unsent
<1>1. m \in Seq(Bytes) /\ y \in Seq(Bytes) /\ Sent(q) \in Seq(Parts) /\ w \in Seq(Parts)
  <2>1. q.got \in Seq(Parts) /\ q.out \in Seq(Parts) /\ y \in Seq(Bytes)
    BY DEF ConnType
  <2> QED BY <2>1, CatTyped, RequestIs, AnswerTyped DEF Sent
<1>2. Cat(Sent(q), w) = w
  BY DEF Good, Answering, Paid, Owes
<1>3. Sent(q) = <<>>
  <2> HIDE DEF w
  <2> QED BY <1>1, <1>2, CatNothing
<1>4. At(q, k.rio, m, 0)
  BY DEF Good, Reading
<1>5. Lie(q, k.rio, m, 0, 0, 0, 0, Len(y), Len(m))
  <2>1. Len(k.rio.user) = 0 /\ Len(k.rio.buf) = 0 /\ Len(q.in) = 0
    BY EmptySeq
  <2> QED BY <1>4, <2>1 DEF At
<1>6. 0 + 0 + 0 = Len(m) - Len(y) - 0 /\ Lies(y, Len(y), m, Len(m) - Len(y))
  BY <1>5 DEF Lie
<1> HIDE DEF m, y
<1>7. Len(y) = Len(m) /\ \A i \in 1 .. Len(y) : y[i] = m[i]
  BY <1>1, <1>6 DEF Lies
<1>8. y = m
  BY <1>1, <1>7, SeqEqual
<1> QED BY <1>3, <1>8 DEF Silent, m, y

(* Then its child is done.                                                  *)
LEMMA EndSilent ==
    ASSUME NEW q \in ConnType, NEW k \in ChildType, NEW g, NEW a \in AskType, NEW s,
           s.tty \in BOOLEAN, Good(q, k, g, a, s), q.in = <<>>, q.fin, ~q.gone,
           k.at = "request", k.rio.buf = <<>>, k.rio.user = <<>>, NEW x, x.at = "close"
    PROVE  Good(q, x, g, a, s)
<1>1. Silent(q, a)
  BY SilentIs
<1>2. InTurn(x, g, a.req)
  BY DEF Good, InTurn
<1>3. Reading(q, x, a) /\ Ended(q, x, a, s)
  BY DEF Reading, Ended
<1>4. Answering(q, x, g, a, s.tty)
  BY <1>1 DEF Good, Answering
<1> QED BY <1>2, <1>3, <1>4 DEF Good

(* A request line without its end is taken for one.                         *)
LEMMA EndRequest ==
    ASSUME NEW q \in ConnType, NEW k \in ChildType, NEW g, NEW a \in AskType, NEW s,
           s.tty \in BOOLEAN, Good(q, k, g, a, s), q.in = <<>>, q.fin,
           k.at = "request", k.rio \in RioType, k.rio.buf = <<>>, k.rio.user # <<>>, NEW x,
           IF Head(k.rio.user) = "post"
           THEN x.at = "write" /\ x.todo = ErrorPage("post") /\ x.next = "close"
           ELSE x.at = "headers" /\ x.rio = Returned(k.rio)
    PROVE  Good(q, x, g, a, s)
<1>1. At(q, k.rio, Request(a), 0) /\ Reset(q)
  BY DEF Good, Reading
<1>2. Head(k.rio.user) = a.req /\ Heard(q, a)
  BY <1>1, MethodIs
<1>3. CASE a.req = "post"
  <2>1. a.req \in DOMAIN Errors
    BY <1>3 DEF Errors
  <2> QED BY <1>1, <1>2, <1>3, <2>1, WritesError
<1>4. CASE a.req # "post"
  <2>1. x.at = "headers" /\ x.rio = Returned(k.rio)
    BY <1>2, <1>4
  <2>2. Returned(k.rio).user = <<>> /\ Returned(k.rio).buf = <<>>
    <3>1. Request(a) \in Seq(Bytes)
      BY RequestIs
    <3> QED BY <1>1, <3>1, ReturnAt
  <2>3. Reading(q, x, a)
    BY <2>1, <2>2 DEF Reading, Over
  <2> QED BY <1>1, <1>2, <2>1, <2>3, ReadsOn
<1> QED BY <1>3, <1>4

(* Without the blank line read_requesthdrs reads for ever.                  *)
LEMMA EndHeaders ==
    ASSUME NEW q \in ConnType, NEW k \in ChildType, NEW g, NEW a \in AskType, NEW s,
           s.tty \in BOOLEAN, Good(q, k, g, a, s), ~q.gone, k.at = "headers", NEW x, x.at = "spins"
    PROVE  Good(q, x, g, a, s)
<1>1. Reset(q) /\ Heard(q, a)
  BY DEF Good, Answering, Paid
<1>2. Reading(q, x, a)
  BY DEF Reading
<1> QED BY <1>1, <1>2, ReadsOn

(* The end of the file keeps the invariant.                                 *)
LEMMA EndSafe ==
    ASSUME Typed, Safe, NEW c \in Clients, EndOfFile(c)
    PROVE  IInv'
<1> DEFINE q == conn[c]
           k == child[c]
           r == k.rio
           x == CASE k.at = "headers" -> [k EXCEPT !.at = "spins"]
                  [] k.at = "request" /\ r.user = <<>> -> [k EXCEPT !.at = "close"]
                  [] k.at = "request" /\ r.user # <<>> -> RequestLine(c, r)
<1>1. /\ k \in ChildType /\ r \in RioType /\ ask[c] \in AskType /\ q \in ConnType
      /\ Good(q, k, cgi[c], ask[c], sys) /\ Reset(q) /\ sys.tty \in BOOLEAN
      /\ Request(ask[c]) \in Seq(Bytes)
  BY Facts, SysTyped
<1>2. /\ k.at \in {"request", "headers"} /\ Becomes(c, x)
      /\ UNCHANGED <<connVars, sys, ask, main, cgi>>
      /\ r.buf = <<>> /\ q.fin /\ q.in = <<>> /\ ~q.gone
  BY <1>1 DEF EndOfFile, Rest, NeedsRead, AtEnd, Reset
<1>3. x \in ChildType /\ x.at # "none" /\ Good(q, x, cgi[c], ask[c], sys)
  <2>1. CASE k.at = "headers"
    <3> DEFINE at == "spins"
               y == [k EXCEPT !.at = at]
    <3>1. x = y /\ at \in Ats /\ at = "spins"
      BY <2>1 DEF Ats
    <3> HIDE DEF x, at, q, k, r
    <3>2. Turned(y, at, k.rio, k.todo, k.next)
      BY <1>1, <3>1, Turning DEF r
    <3> HIDE DEF y
    <3>3. x \in ChildType /\ x.at = "spins"
      BY <3>1, <3>2 DEF Turned
    <3> QED BY <1>1, <1>2, <2>1, <3>3, EndHeaders
  <2>2. CASE k.at = "request" /\ r.user = <<>>
    <3> DEFINE at == "close"
               y == [k EXCEPT !.at = at]
    <3>1. x = y /\ at \in Ats /\ at = "close"
      BY <2>2 DEF Ats
    <3> HIDE DEF x, at, q, k, r
    <3>2. Turned(y, at, k.rio, k.todo, k.next)
      BY <1>1, <3>1, Turning DEF r
    <3> HIDE DEF y
    <3>3. x \in ChildType /\ x.at = "close"
      BY <3>1, <3>2 DEF Turned
    <3> QED BY <1>1, <1>2, <2>2, <3>3, EndSilent DEF r
  <2>3. CASE k.at = "request" /\ r.user # <<>>
    <3> DEFINE w == Returned(r)
               e == ErrorPage("post")
               head == "headers"
               write == "write"
               close == "close"
    <3>1. x = RequestLine(c, r)
      BY <2>3
    <3>2. w \in RioType
      <4>1. At(q, r, Request(ask[c]), 0)
        BY <1>1, <2>3 DEF Good, Reading
      <4> QED BY <1>1, <4>1, ReturnAt
    <3>3. e \in Seq(Parts) /\ head = "headers" /\ write = "write" /\ close = "close"
      <4>1. "post" \in DOMAIN Errors /\ "post" \in Requests
        BY DEF Errors, Requests
      <4> QED BY <1>1, <4>1, AnswerIs
    <3> DEFINE y == [k EXCEPT !.rio = w, !.at = head]
               v == [k EXCEPT !.rio = w, !.at = write, !.todo = e, !.next = close]
    <3>4. x = IF Head(r.user) = "post" THEN v ELSE y
      BY <3>1 DEF RequestLine
    <3> HIDE DEF x, w, e, k, q, r, head, write, close
    <3>5. Turned(y, head, w, k.todo, k.next) /\ Turned(v, write, w, e, close)
      BY <1>1, <3>2, <3>3, Turning, TurningTo DEF Ats
    <3> HIDE DEF y, v
    <3>6. /\ x \in ChildType /\ x.at # "none"
          /\ IF Head(r.user) = "post"
             THEN x.at = "write" /\ x.todo = ErrorPage("post") /\ x.next = "close"
             ELSE x.at = "headers" /\ x.rio = Returned(r)
      BY <3>3, <3>4, <3>5 DEF Turned, w, e
    <3> QED BY <1>1, <1>2, <2>3, <3>6, EndRequest DEF r
  <2> QED BY <1>2, <2>1, <2>2, <2>3
<1>4. k.at # "none"
  BY <1>2
<1> HIDE DEF x
<1> QED BY <1>2, <1>3, <1>4, LocalChild

-----------------------------------------------------------------------------
(* Writing.                                                                 *)
(* What a child has begun to answer is what the request calls for.          *)
LEMMA Serves ==
    ASSUME NEW q, NEW k, NEW g, NEW a \in AskType, NEW s, s.tty \in BOOLEAN, Good(q, k, g, a, s),
           k.at = "serve", NEW x, x.at = "write",
           \/ a.req \in DOMAIN Errors /\ x.todo = ErrorPage(a.req) /\ x.next = "close"
           \/ a.req \in Programs /\ x.todo = <<"200", "server">> /\ x.next = "fork"
           \/ a.req \notin DOMAIN Errors \cup Programs /\ x.todo = <<"head">> /\ x.next = "map"
    PROVE  Good(q, x, g, a, s)
<1>1. a.req \in Requests
  BY DEF AskType
<1>2. Reset(q) /\ (q.gone \/ Heard(q, a))
  BY DEF Good, Answering, Paid
<1>3. Reading(q, x, a)
  BY DEF Reading
<1>4. Owes(k, g, a.req, s.tty) = Answer(a.req, s.tty)
  BY DEF Owes
<1>5. Owes(x, g, a.req, s.tty) = Cat(x.todo, After(x.next, a.req, s.tty))
  BY DEF Owes
<1>6. InTurn(x, g, a.req)
  <2>1. g.at = "none"
    BY DEF Good, InTurn
  <2> QED BY <2>1 DEF InTurn
<1>7. Cat(x.todo, After(x.next, a.req, s.tty)) = Answer(a.req, s.tty)
  <2>1. CASE a.req \in DOMAIN Errors
    <3>1. x.todo = ErrorPage(a.req) /\ x.next = "close"
      BY <1>1, <2>1, AnswerIs
    <3>2. After(x.next, a.req, s.tty) = <<>>
      BY <3>1 DEF After
    <3>3. ErrorPage(a.req) \in Seq(Parts) /\ Answer(a.req, s.tty) = ErrorPage(a.req)
      BY <1>1, <2>1, AnswerIs
    <3> QED BY <3>1, <3>2, <3>3, CatEmpty
  <2>2. CASE a.req \in Programs
    <3> DEFINE w == <<"200", "server">>
               o == Output(a.req, s.tty)
    <3>1. a.req \notin DOMAIN Errors /\ Answer(a.req, s.tty) = Cat(w, o)
      BY <1>1, <2>2, AnswerIs
    <3>2. x.todo = w /\ x.next = "fork"
      BY <2>2, <3>1
    <3> HIDE DEF w
    <3>3. After(x.next, a.req, s.tty) = o
      BY <3>2 DEF After
    <3> QED BY <3>1, <3>2, <3>3
  <2>3. CASE a.req \notin DOMAIN Errors \cup Programs
    <3> DEFINE w == <<"head">>
               o == <<"content">>
               e == <<>>
    <3>1. x.todo = w /\ x.next = "map"
      BY <2>3
    <3>2. After(x.next, a.req, s.tty) = IF a.req = "file" THEN o ELSE e
      BY <3>1 DEF After
    <3>3. /\ a.req \in {"file", "empty", "locked"}
          /\ a.req = "file" => Answer(a.req, s.tty) = Cat(w, o)
          /\ a.req \in {"empty", "locked"} => Answer(a.req, s.tty) = Cat(w, e)
      BY <1>1, <2>3, AnswerIs
    <3> HIDE DEF w, o, e
    <3> QED BY <3>1, <3>2, <3>3
  <2> QED BY <2>1, <2>2, <2>3
<1>8. Keeps(q, x, g, q, k, g, a.req, s.tty)
  BY <1>4, <1>5, <1>7 DEF Keeps
<1> QED BY <1>2, <1>3, <1>6, <1>8, Onward

(* Serving keeps the invariant.                                             *)
LEMMA ServeSafe ==
    ASSUME Typed, Safe, NEW c \in Clients, Serve(c)
    PROVE  IInv'
<1> DEFINE k == child[c]
           req == ask[c].req
<1>1. /\ k \in ChildType /\ ask[c] \in AskType /\ conn[c] \in ConnType /\ sys.tty \in BOOLEAN
      /\ Good(conn[c], k, cgi[c], ask[c], sys) /\ req \in Requests /\ k.rio \in RioType
  BY Facts, SysTyped DEF AskType
<1>2. /\ k.at = "serve" /\ UNCHANGED <<connVars, sys, ask, main, cgi>>
      /\ \/ req \in DOMAIN Errors /\ Writes(c, ErrorPage(req), "close")
         \/ req \in Programs /\ Writes(c, <<"200", "server">>, "fork")
         \/ req \notin DOMAIN Errors \cup Programs /\ Writes(c, <<"head">>, "map")
  BY DEF Serve, Rest
<1>3. \E s \in Seq(Parts), next \in {"none", "close", "fork", "map"} :
        /\ Writes(c, s, next)
        /\ \/ req \in DOMAIN Errors /\ s = ErrorPage(req) /\ next = "close"
           \/ req \in Programs /\ s = <<"200", "server">> /\ next = "fork"
           \/ req \notin DOMAIN Errors \cup Programs /\ s = <<"head">> /\ next = "map"
  <2>1. <<"200", "server">> \in Seq(Parts) /\ <<"head">> \in Seq(Parts)
    BY DEF Parts
  <2>2. req \in DOMAIN Errors => ErrorPage(req) \in Seq(Parts)
    BY <1>1, AnswerIs
  <2> HIDE DEF req
  <2> QED BY <1>2, <2>1, <2>2
<1>4. PICK s \in Seq(Parts), next \in {"none", "close", "fork", "map"} :
        /\ Writes(c, s, next)
        /\ \/ req \in DOMAIN Errors /\ s = ErrorPage(req) /\ next = "close"
           \/ req \in Programs /\ s = <<"200", "server">> /\ next = "fork"
           \/ req \notin DOMAIN Errors \cup Programs /\ s = <<"head">> /\ next = "map"
  BY <1>3
<1> DEFINE at == "write"
           x == [k EXCEPT !.at = at, !.todo = s, !.next = next]
<1>5. Becomes(c, x) /\ at \in Ats /\ at = "write"
  BY <1>4 DEF Writes, Ats
<1> HIDE DEF k, at
<1>6. Turned(x, at, k.rio, s, next)
  BY <1>1, <1>5, TurningTo
<1> HIDE DEF x
<1>7. x \in ChildType /\ x.at = "write" /\ x.todo = s /\ x.next = next
  BY <1>5, <1>6 DEF Turned
<1>8. Good(conn[c], x, cgi[c], ask[c], sys)
  BY <1>1, <1>2, <1>4, <1>7, Serves
<1>9. x.at # "none" /\ k.at # "none"
  BY <1>2, <1>7
<1> QED BY <1>2, <1>5, <1>7, <1>8, <1>9, LocalChild DEF k

(* The contents of a file are owed until they are written.                  *)
LEMMA Mapped ==
    ASSUME NEW q, NEW k, NEW g, NEW a \in AskType, NEW s, s.tty \in BOOLEAN, Good(q, k, g, a, s),
           k.at = "map", a.req = "file",
           NEW x, x.at = "write", x.todo = <<"content">>, x.next = "close"
    PROVE  Good(q, x, g, a, s)
<1> DEFINE w == <<"content">>
           e == <<>>
<1>1. Reset(q) /\ (q.gone \/ Heard(q, a)) /\ Reading(q, x, a)
  BY DEF Good, Answering, Paid, Reading
<1>2. InTurn(x, g, a.req)
  BY DEF Good, InTurn
<1>3. w \in Seq(Parts) /\ Cat(w, e) = w /\ x.todo = w
  <2>1. w \in Seq(Parts)
    BY DEF Parts
  <2> HIDE DEF w
  <2>2. Cat(w, e) = w
    BY <2>1, CatEmpty
  <2> QED BY <2>1, <2>2 DEF w
<1>4. Owes(k, g, a.req, s.tty) = w /\ After(x.next, a.req, s.tty) = e
  BY DEF Owes, After
<1> HIDE DEF w, e
<1>5. Owes(x, g, a.req, s.tty) = w
  BY <1>3, <1>4 DEF Owes
<1>6. Keeps(q, x, g, q, k, g, a.req, s.tty)
  BY <1>4, <1>5 DEF Keeps
<1> QED BY <1>1, <1>2, <1>6, Onward

(* Mapping keeps the invariant.                                             *)
LEMMA MapSafe ==
    ASSUME Typed, Safe, NEW c \in Clients, Map(c)
    PROVE  IInv'
<1> DEFINE k == child[c]
           at == "write"
           s == <<"content">>
           next == "close"
           x == [k EXCEPT !.at = at, !.todo = s, !.next = next]
<1>1. /\ k \in ChildType /\ ask[c] \in AskType /\ conn[c] \in ConnType /\ sys.tty \in BOOLEAN
      /\ Good(conn[c], k, cgi[c], ask[c], sys) /\ k.rio \in RioType
  BY Facts, SysTyped
<1>2. /\ k.at = "map" /\ ask[c].req = "file" /\ Becomes(c, x)
      /\ UNCHANGED <<connVars, sys, ask, main, cgi>>
  BY DEF Map, Rest, Writes
<1>3. s \in Seq(Parts) /\ at \in Ats /\ at = "write" /\ next = "close" /\ s = <<"content">>
  BY DEF Parts, Ats
<1> HIDE DEF k, at, s, next
<1>4. Turned(x, at, k.rio, s, next)
  BY <1>1, <1>3, TurningTo
<1> HIDE DEF x
<1>5. x \in ChildType /\ x.at = "write" /\ x.todo = s /\ x.next = "close"
  BY <1>3, <1>4 DEF Turned
<1>6. Good(conn[c], x, cgi[c], ask[c], sys)
  BY <1>1, <1>2, <1>3, <1>5, Mapped
<1>7. x.at # "none" /\ k.at # "none"
  BY <1>2, <1>5
<1> QED BY <1>2, <1>5, <1>6, <1>7, LocalChild DEF k

(* A sequence is its front and what is left.                                *)
LEMMA Parted ==
    ASSUME NEW s \in Seq(Parts), NEW n \in 0 .. Len(s)
    PROVE  /\ SubSeq(s, 1, n) \in Seq(Parts) /\ Drop(s, n) \in Seq(Parts)
           /\ Cat(SubSeq(s, 1, n), Drop(s, n)) = s
           /\ n = Len(s) => Drop(s, n) = <<>>
<1> DEFINE x == SubSeq(s, 1, n)
           y == Drop(s, n)
           z == x \o y
<1>1. /\ x \in Seq(Parts) /\ Len(x) = n /\ \A i \in 1 .. n : x[i] = s[i]
      /\ y \in Seq(Parts) /\ Len(y) = Len(s) - n
      /\ \A i \in 1 .. Len(s) - n : y[i] = s[n + i]
  BY Split
<1>2. Len(s) \in Nat /\ n \in 0 .. Len(s)
  BY LenProperties
<1> HIDE DEF x, y
<1>3. /\ z \in Seq(Parts) /\ Len(z) = Len(x) + Len(y)
      /\ \A i \in 1 .. Len(x) : z[i] = x[i]
      /\ \A i \in 1 .. Len(y) : z[Len(x) + i] = y[i]
  <2>1. x \in Seq(Parts) /\ y \in Seq(Parts)
    BY <1>1
  <2> QED BY <2>1, Joined
<1> HIDE DEF z
<1>4. Len(z) = Len(s)
  BY <1>1, <1>2, <1>3
<1>5. ASSUME NEW i \in 1 .. Len(s) PROVE z[i] = s[i]
  <2>1. CASE i <= n
    BY <1>1, <1>2, <1>3, <2>1
  <2>2. CASE i > n
    <3> DEFINE j == i - n
    <3>1. j \in 1 .. Len(s) - n /\ i = n + j
      BY <1>2, <2>2
    <3> HIDE DEF j
    <3> QED BY <1>1, <1>3, <3>1
  <2> QED BY <1>2, <2>1, <2>2
<1>6. z = s
  BY <1>3, <1>4, <1>5, SeqEqual
<1>7. n = Len(s) => y = <<>>
  BY <1>1, <1>2, EmptySeq
<1> QED BY <1>1, <1>6, <1>7 DEF x, y, z, Cat

(* Parts may be sent first or owed first.                                   *)
Regroups(x, y, f, r, w) ==
    Cat(Cat(x, Cat(y, f)), Cat(r, w)) = Cat(Cat(x, y), Cat(Cat(f, r), w))
LEMMA Regroup ==
    ASSUME NEW x \in Seq(Parts), NEW y \in Seq(Parts), NEW f \in Seq(Parts),
           NEW r \in Seq(Parts), NEW w \in Seq(Parts)
    PROVE  Regroups(x, y, f, r, w)
<1> DEFINE yf == Cat(y, f)
           rw == Cat(r, w)
           fr == Cat(f, r)
           frw == Cat(fr, w)
<1>1. yf \in Seq(Parts) /\ rw \in Seq(Parts) /\ fr \in Seq(Parts)
  BY CatTyped
<1>2. frw \in Seq(Parts)
  <2> HIDE DEF fr
  <2> QED BY <1>1, CatTyped
<1>3. frw = Cat(f, rw)
  BY CatAssoc
<1>4. Cat(yf, rw) = Cat(y, Cat(f, rw))
  <2> HIDE DEF rw
  <2> QED BY <1>1, CatAssoc
<1>5. Cat(Cat(x, yf), rw) = Cat(x, Cat(yf, rw))
  <2> HIDE DEF yf, rw
  <2> QED BY <1>1, CatAssoc
<1>6. Cat(Cat(x, y), frw) = Cat(x, Cat(y, frw))
  <2> HIDE DEF frw
  <2> QED BY <1>2, CatAssoc
<1> HIDE DEF yf, rw, frw
<1>7. Cat(Cat(x, yf), rw) = Cat(Cat(x, y), frw)
  BY <1>3, <1>4, <1>5, <1>6
<1> QED BY <1>7 DEF yf, rw, frw, fr, Regroups

(* A write has taken f from what is to be written and left r.               *)
LEMMA Written ==
    ASSUME NEW q \in ConnType, NEW k, NEW g, NEW a \in AskType, NEW s, s.tty \in BOOLEAN,
           Good(q, k, g, a, s), k.at = "write", ~q.gone,
           NEW f \in Seq(Parts), NEW r \in Seq(Parts), Cat(f, r) = k.todo,
           k.next \in {"none", "close", "fork", "map"},
           NEW z, Carries(z, q, q.unsent, q.in, Cat(q.out, f), q.got, q.fin),
           NEW x, x.todo = r, x.next = k.next,
           x.at = "write" \/ (r = <<>> /\ x.at = k.next)
    PROVE  Good(z, x, g, a, s)
<1> DEFINE w == After(k.next, a.req, s.tty)
<1>1. InTurn(k, g, a.req)
  BY DEF Good
<1>2. /\ k.next \in {"close", "fork", "map"} /\ g.at = "none"
      /\ k.next = "fork" => a.req \in Programs
      /\ k.next = "map" => a.req \notin DOMAIN Errors \cup Programs
  BY <1>1 DEF InTurn
<1>3. InTurn(x, g, a.req)
  BY <1>2 DEF InTurn
<1>4. w \in Seq(Parts)
  BY <1>2, AnswerTyped
<1>5. Owes(x, g, a.req, s.tty) = Cat(r, w)
  <2>1. CASE x.at = "write"
    BY <2>1 DEF Owes
  <2>2. CASE r = <<>> /\ x.at = k.next
    <3>1. Owes(x, g, a.req, s.tty) = w
      BY <1>2, <2>2 DEF Owes, After
    <3> HIDE DEF w
    <3>2. Cat(<<>>, w) = w
      BY <1>4, CatEmpty
    <3> QED BY <2>2, <3>1, <3>2
  <2> QED BY <2>1, <2>2
<1>6. Owes(k, g, a.req, s.tty) = Cat(Cat(f, r), w)
  BY DEF Owes
<1>7. /\ z.unsent = q.unsent /\ z.in = q.in /\ z.out = Cat(q.out, f) /\ z.got = q.got
      /\ z.gone <=> q.gone
      /\ z.err <=> q.err
      /\ z.fin <=> q.fin
  BY DEF Carries
<1> HIDE DEF w
<1>8. q.got \in Seq(Parts) /\ q.out \in Seq(Parts)
  BY DEF ConnType
<1>9. Keeps(z, x, g, q, k, g, a.req, s.tty)
  <2>1. Cat(Cat(q.got, Cat(q.out, f)), Cat(r, w)) = Cat(Cat(q.got, q.out), Cat(Cat(f, r), w))
    <3> DEFINE u == q.got
               v == q.out
    <3>1. u \in Seq(Parts) /\ v \in Seq(Parts)
      BY <1>8
    <3> HIDE DEF u, v
    <3>2. Regroups(u, v, f, r, w)
      BY <1>4, <3>1, Regroup
    <3> QED BY <3>2 DEF u, v, Regroups
  <2> QED BY <1>5, <1>6, <1>7, <2>1 DEF Keeps, Sent
<1>10. Sent(z) \in Seq(Parts) /\ Owes(x, g, a.req, s.tty) \in Seq(Parts)
  <2> DEFINE of == Cat(q.out, f)
  <2>1. of \in Seq(Parts) /\ Cat(r, w) \in Seq(Parts)
    BY <1>4, <1>8, CatTyped
  <2> HIDE DEF of
  <2>2. Cat(q.got, of) \in Seq(Parts)
    BY <1>8, <2>1, CatTyped
  <2> QED BY <1>5, <1>7, <2>1, <2>2 DEF Sent, of
<1>11. Reset(z)
  BY <1>7 DEF Good, Reset
<1>12. Heard(z, a)
  BY <1>7 DEF Good, Answering, Paid, Heard
<1>13. Reading(z, x, a) /\ x.at # "zombie"
  BY <1>2 DEF Reading
<1> QED BY <1>3, <1>7, <1>9, <1>10, <1>11, <1>12, <1>13, Onward

(* What there is room for.                                                  *)
LEMMA Room_Is ==
    ASSUME NEW m \in Int, NEW n \in Int
    PROVE  Min({m, n}) \in Int /\ Min({m, n}) <= m
BY DEF Min

(* Writing keeps the invariant.                                             *)
LEMMA WritenSafe ==
    ASSUME Typed, Safe, NEW c \in Clients, Rio_writen(c)
    PROVE  IInv'
<1> DEFINE q == conn[c]
           k == child[c]
           s == k.todo
           n == Min({Len(s), sys.window - Len(q.out)})
           f == SubSeq(s, 1, n)
           r == Drop(s, n)
           o == Cat(q.out, f)
           at == IF n = Len(s) THEN k.next ELSE "write"
           z == [q EXCEPT !.out = o]
           x == [k EXCEPT !.todo = r, !.at = at]
           g == cgi[c]
<1>1. /\ k \in ChildType /\ ask[c] \in AskType /\ q \in ConnType /\ sys.tty \in BOOLEAN
      /\ Good(q, k, g, ask[c], sys) /\ k.rio \in RioType /\ sys.window \in Nat
      /\ g \in CgiType
  BY Facts, SysTyped
<1>2. /\ k.at = "write" /\ ~q.gone /\ n > 0 /\ Changes(c, z) /\ Becomes(c, x)
      /\ UNCHANGED <<sys, ask, main, cgi>>
  BY DEF Rio_writen, Rest, Cat
<1>3. s \in Seq(Parts) /\ Len(s) \in Nat /\ q.out \in Seq(Parts) /\ Len(q.out) \in Nat
      /\ q.got \in Seq(Parts) /\ k.next \in {"none", "close", "fork", "map"}
  BY <1>1, LenProperties DEF ChildType, ConnType
<1>4. n \in 0 .. Len(s)
  <2> DEFINE u == Len(s)
             v == sys.window - Len(q.out)
  <2>1. u \in Nat /\ v \in Int /\ n = Min({u, v})
    BY <1>1, <1>3
  <2> HIDE DEF u, v
  <2>2. Min({u, v}) \in Int /\ Min({u, v}) <= u
    BY <2>1, Room_Is
  <2> HIDE DEF n
  <2>3. n \in 0 .. u
    BY <1>2, <2>1, <2>2
  <2> QED BY <2>3 DEF u
<1>5. conn' = [conn EXCEPT ![c] = z] /\ UNCHANGED <<kind, msg, backlog>>
  BY <1>2 DEF Changes
<1> HIDE DEF n
<1>6. f \in Seq(Parts) /\ r \in Seq(Parts) /\ Cat(f, r) = s /\ (n = Len(s) => r = <<>>)
  BY <1>3, <1>4, Parted
<1>7. k.next \in {"close", "fork", "map"}
  BY <1>1, <1>2, <1>3 DEF Good, InTurn
<1>8. at \in Ats /\ at # "none" /\ (at = "write" \/ (r = <<>> /\ at = k.next))
  BY <1>6, <1>7 DEF Ats
<1> HIDE DEF q, k, f, r, at, g
<1>9. o \in Seq(Parts)
  BY <1>3, <1>6, CatTyped
<1> HIDE DEF o
<1>10. Carries(z, q, q.unsent, q.in, o, q.got, q.fin)
  BY <1>1, <1>3, <1>9, Writing
<1>11. Turned(x, at, k.rio, r, k.next)
  BY <1>1, <1>6, <1>8, <1>3, TurningTo
<1> HIDE DEF x, z
<1>12. x \in ChildType /\ x.at = at /\ x.todo = r /\ x.next = k.next
  BY <1>11 DEF Turned
<1>13. Good(z, x, g, ask[c], sys)
  BY <1>1, <1>2, <1>3, <1>6, <1>8, <1>10, <1>12, Written DEF o, s
<1>14. z \in ConnType /\ (z.up <=> q.up)
  BY <1>10 DEF Carries
<1>15. x.at = "none" <=> k.at = "none"
  BY <1>2, <1>8, <1>12
<1>16. cgi' = [cgi EXCEPT ![c] = g] /\ child' = [child EXCEPT ![c] = x]
  BY <1>2 DEF g, Becomes, Typed
<1>17. UNCHANGED <<kind, msg, backlog, sys, ask, main>>
  BY <1>2, <1>5
<1>18. z.up <=> conn[c].up
  BY <1>14 DEF q
<1>19. x.at = "none" <=> child[c].at = "none"
  BY <1>15 DEF k
<1> QED BY <1>1, <1>5, <1>12, <1>13, <1>14, <1>16, <1>17, <1>18, <1>19, Local

-----------------------------------------------------------------------------
(* Ends, forks and programs.                                                *)
(* With processes enough there is one for the program: its child is one of  *)
(* the others, and has none yet.                                            *)
LEMMA NoRoom ==
    ASSUME Typed, Safe, NEW c \in Clients, child[c].at = "fork", ~Room
    PROVE  ~Plenty(sys)
<1> DEFINE n == Cardinality(Clients)
           P == {None} \cup Clients
           F == Clients \ {c}
<1>1. IsFiniteSet(Clients) /\ None \notin Clients
  BY TinyAssumption
<1>2. n \in Nat /\ IsFiniteSet(P) /\ Cardinality(P) = n + 1
  BY <1>1, FS_CardinalityType, FS_AddElement
<1>3. IsFiniteSet(F) /\ Cardinality(F) = n - 1
  BY <1>1, FS_RemoveElement
<1>4. Processes \subseteq P
  BY DEF Processes
<1>5. Forked \subseteq F
  <2>1. cgi[c].at = "none"
    BY Facts DEF Good, InTurn
  <2> QED BY <2>1 DEF Forked
<1>6. /\ Cardinality(Processes) \in Nat /\ Cardinality(Processes) <= n + 1
      /\ Cardinality(Forked) \in Nat /\ Cardinality(Forked) <= n - 1
  <2>1. IsFiniteSet(Processes) /\ Cardinality(Processes) <= Cardinality(P)
    BY <1>2, <1>4, FS_Subset
  <2>2. IsFiniteSet(Forked) /\ Cardinality(Forked) <= Cardinality(F)
    BY <1>3, <1>5, FS_Subset
  <2> QED BY <1>2, <1>3, <2>1, <2>2, FS_CardinalityType
<1>7. sys.procs \in Nat /\ sys.procs <= Cardinality(Processes) + Cardinality(Forked)
  BY <1>6, SysTyped DEF Room
<1> DEFINE p == Cardinality(Processes)
           f == Cardinality(Forked)
           w == sys.procs
<1> HIDE DEF n, p, f, w
<1>8. ~ (w > 2 * n)
  BY <1>2, <1>6, <1>7 DEF p, f, w
<1> QED BY <1>8 DEF Plenty, n, w

(* A child that ends has sent the whole answer, unless the client has       *)
(* reset, had nothing to ask, or processes were short.                      *)
LEMMA Exits ==
    ASSUME NEW q \in ConnType, NEW k, NEW g, NEW a \in AskType, NEW s, s.tty \in BOOLEAN,
           Good(q, k, g, a, s), k.at # "wait",
           \/ k.at = "close"
           \/ k.at = "map" /\ a.req \in {"empty", "locked"}
           \/ q.gone
           \/ ~Plenty(s),
           NEW x, x.at = "zombie"
    PROVE  Good(q, x, g, a, s)
<1>1. Answering(q, k, g, a, s.tty)
  BY DEF Good
<1>2. InTurn(x, g, a.req)
  BY DEF Good, InTurn
<1>3. Reading(q, x, a)
  BY DEF Reading
<1>4. Answering(q, x, g, a, s.tty)
  BY <1>1 DEF Answering
<1>5. Sent(q) \in Seq(Parts)
  <2>1. q.got \in Seq(Parts) /\ q.out \in Seq(Parts)
    BY DEF ConnType
  <2> QED BY <2>1, CatTyped DEF Sent
<1>6. Ended(q, x, a, s)
  <2>1. CASE q.gone \/ ~Plenty(s)
    BY <2>1 DEF Ended
  <2>2. CASE ~q.gone /\ k.at \in {"close", "map"} /\ (k.at = "map" => a.req \in {"empty", "locked"})
    <3>1. Silent(q, a) \/ Paid(q, k, g, a, s.tty)
      BY <1>1, <2>2 DEF Answering
    <3>2. ASSUME Paid(q, k, g, a, s.tty) PROVE Sent(q) = Answer(a.req, s.tty) /\ Heard(q, a)
      <4> DEFINE e == <<>>
      <4>1. Owes(k, g, a.req, s.tty) = e
        BY <2>2 DEF Owes, After
      <4>2. Cat(Sent(q), e) = Sent(q)
        BY <1>5, CatEmpty
      <4> HIDE DEF e
      <4> QED BY <2>2, <3>2, <4>1, <4>2 DEF Paid
    <3> QED BY <3>1, <3>2 DEF Ended
  <2> QED BY <2>1, <2>2
<1> QED BY <1>2, <1>3, <1>4, <1>6 DEF Good

(* A step on a connection's descriptors, its child and its program.         *)
LEMMA Held ==
    ASSUME Typed, Safe, NEW c \in Clients, NEW w \in SUBSET {"main", "child", "cgi"},
           NEW k \in ChildType, NEW g \in CgiType,
           conn' = [conn EXCEPT ![c].open = w], child' = [child EXCEPT ![c] = k],
           cgi' = [cgi EXCEPT ![c] = g], UNCHANGED <<kind, msg, backlog, sys, ask, main>>,
           k.at # "none", child[c].at # "none", Good(conn[c], k, g, ask[c], sys)
    PROVE  IInv'
<1> DEFINE q == conn[c]
           z == [q EXCEPT !.open = w]
<1>1. conn' = [conn EXCEPT ![c] = z] /\ q \in ConnType
  BY Facts DEF Typed
<1> HIDE DEF q
<1>2. Good(q, k, g, ask[c], sys)
  BY DEF q
<1>3. z \in ConnType /\ (z.up <=> q.up) /\ Good(z, k, g, ask[c], sys)
  BY <1>1, <1>2, Reopened
<1> HIDE DEF z
<1>4. z.up <=> conn[c].up
  BY <1>3 DEF q
<1>5. k.at = "none" <=> child[c].at = "none"
  OBVIOUS
<1> QED BY <1>1, <1>3, <1>4, <1>5, Local

(* The end of a child keeps the invariant.                                  *)
LEMMA ExitSafe ==
    ASSUME Typed, Safe, NEW c \in Clients, ChildExits(c)
    PROVE  IInv'
<1> DEFINE q == conn[c]
           k == child[c]
           g == cgi[c]
           at == "zombie"
           x == [k EXCEPT !.at = at]
           w == q.open \ {"child"}
<1>1. /\ k \in ChildType /\ ask[c] \in AskType /\ q \in ConnType /\ sys.tty \in BOOLEAN
      /\ Good(q, k, g, ask[c], sys) /\ Reset(q) /\ k.rio \in RioType /\ g \in CgiType
  BY Facts, SysTyped
<1>2. /\ conn' = [conn EXCEPT ![c].open = w] /\ Becomes(c, x)
      /\ UNCHANGED <<kind, msg, backlog, sys, ask, main, cgi>>
  BY DEF ChildExits, Rest, Without
<1>3. /\ k.at \in {"close", "map", "request", "headers", "write", "fork"}
      /\ \/ k.at = "close"
         \/ k.at = "map" /\ ask[c].req \in {"empty", "locked"}
         \/ q.gone
         \/ ~Plenty(sys)
  BY <1>1, NoRoom DEF ChildExits, Broken, Reset
<1>4. at \in Ats /\ at = "zombie" /\ w \in SUBSET {"main", "child", "cgi"}
  BY <1>1 DEF Ats, ConnType
<1>5. child' = [child EXCEPT ![c] = x] /\ cgi' = [cgi EXCEPT ![c] = g]
  BY <1>2 DEF Becomes, Typed
<1> HIDE DEF q, k, g, at, w
<1>6. Turned(x, at, k.rio, k.todo, k.next)
  BY <1>1, <1>4, Turning
<1> HIDE DEF x
<1>7. x \in ChildType /\ x.at = "zombie"
  BY <1>4, <1>6 DEF Turned
<1>8. Good(q, x, g, ask[c], sys)
  <2>1. k.at # "wait"
    BY <1>3
  <2> QED BY <1>1, <1>3, <1>7, <2>1, Exits
<1>9. x.at # "none" /\ child[c].at # "none" /\ Good(conn[c], x, g, ask[c], sys)
  BY <1>3, <1>7, <1>8 DEF q, k
<1> QED BY <1>1, <1>2, <1>4, <1>5, <1>7, <1>9, Held

(* What a program is.                                                       *)
Runs(h, at, todo) == h \in CgiType /\ h.at = at /\ h.todo = todo
LEMMA Running ==
    ASSUME NEW g \in CgiType, NEW at \in {"none", "exec", "runs", "zombie", "reaped"},
           NEW s \in Seq(Parts)
    PROVE  /\ Runs([at |-> at, todo |-> s], at, s)
           /\ Runs([g EXCEPT !.at = at], at, g.todo)
           /\ Runs([g EXCEPT !.todo = s], g.at, s)
BY DEF Runs, CgiType

(* A step of a program or about it, which owes what was owed.               *)
LEMMA Hands ==
    ASSUME NEW q, NEW k, NEW g, NEW a \in AskType, NEW s, s.tty \in BOOLEAN, Good(q, k, g, a, s),
           NEW x, NEW h,
           \/ k.at = "fork" /\ x.at = "wait" /\ h.at = "exec"
           \/ k.at = "wait" /\ g.at = "zombie" /\ x.at = "close" /\ h.at = "reaped"
           \/ x = k /\ g.at = "exec" /\ h.at = "runs" /\ h.todo = Output(a.req, s.tty)
           \/ x = k /\ g.at = "runs" /\ g.todo = <<>> /\ h.at = "zombie" /\ h.todo = g.todo
    PROVE  Good(q, x, h, a, s)
<1>1. InTurn(k, g, a.req) /\ Reset(q)
  BY DEF Good
<1>2. k.at \in {"fork", "wait"} /\ x.at \in {"wait", "close"} /\ a.req \in Programs
  BY <1>1 DEF InTurn
<1>3. InTurn(x, h, a.req)
  BY <1>1, <1>2 DEF InTurn
<1>4. Owes(x, h, a.req, s.tty) = Owes(k, g, a.req, s.tty)
  <2>1. CASE k.at = "fork" /\ x.at = "wait" /\ h.at = "exec"
    BY <2>1 DEF Owes, After
  <2>2. CASE k.at = "wait" /\ g.at = "zombie" /\ x.at = "close" /\ h.at = "reaped"
    <3>1. g.todo = <<>>
      BY <1>1, <2>2 DEF InTurn
    <3> QED BY <2>2, <3>1 DEF Owes
  <2>3. CASE x = k /\ g.at = "exec" /\ h.at = "runs" /\ h.todo = Output(a.req, s.tty)
    <3>1. k.at = "wait"
      BY <1>1, <2>3 DEF InTurn
    <3> QED BY <2>3, <3>1 DEF Owes
  <2>4. CASE x = k /\ g.at = "runs" /\ g.todo = <<>> /\ h.at = "zombie" /\ h.todo = g.todo
    <3>1. k.at = "wait"
      BY <1>1, <2>4 DEF InTurn
    <3> QED BY <2>4, <3>1 DEF Owes
  <2> QED BY <2>1, <2>2, <2>3, <2>4
<1>5. Keeps(q, x, h, q, k, g, a.req, s.tty)
  BY <1>4 DEF Keeps
<1>6. Reading(q, x, a)
  BY <1>2 DEF Reading
<1>7. q.gone \/ Heard(q, a)
  BY <1>2 DEF Good, Answering, Paid
<1> QED BY <1>1, <1>2, <1>3, <1>5, <1>6, <1>7, Onward

(* A child that forks its program keeps the invariant.                      *)
LEMMA ForkCgiSafe ==
    ASSUME Typed, Safe, NEW c \in Clients, ForkCgi(c)
    PROVE  IInv'
<1> DEFINE q == conn[c]
           k == child[c]
           at == "wait"
           exec == "exec"
           e == <<>>
           x == [k EXCEPT !.at = at]
           h == [at |-> exec, todo |-> e]
           w == q.open \cup {"cgi"}
<1>1. /\ k \in ChildType /\ ask[c] \in AskType /\ q \in ConnType /\ sys.tty \in BOOLEAN
      /\ Good(q, k, cgi[c], ask[c], sys) /\ k.rio \in RioType /\ cgi[c] \in CgiType
  BY Facts, SysTyped
<1>2. /\ conn' = [conn EXCEPT ![c].open = w] /\ k.at = "fork"
      /\ child' = [child EXCEPT ![c] = x] /\ cgi' = [cgi EXCEPT ![c] = h]
      /\ UNCHANGED <<kind, msg, backlog, sys, ask, main>>
  BY DEF ForkCgi, Becomes
<1>3. /\ at \in Ats /\ at = "wait" /\ e \in Seq(Parts) /\ w \in SUBSET {"main", "child", "cgi"}
      /\ exec \in {"none", "exec", "runs", "zombie", "reaped"} /\ exec = "exec"
  BY <1>1 DEF Ats, ConnType
<1> HIDE DEF q, k, at, w, e, exec
<1>4. Turned(x, at, k.rio, k.todo, k.next) /\ Runs(h, exec, e)
  BY <1>1, <1>3, Turning, Running
<1> HIDE DEF x, h
<1>5. x \in ChildType /\ x.at = "wait" /\ h \in CgiType /\ h.at = "exec"
  BY <1>3, <1>4 DEF Turned, Runs
<1>6. Good(q, x, h, ask[c], sys)
  BY <1>1, <1>2, <1>5, Hands
<1>7. x.at # "none" /\ child[c].at # "none" /\ Good(conn[c], x, h, ask[c], sys)
  BY <1>2, <1>5, <1>6 DEF q, k
<1> QED BY <1>2, <1>3, <1>5, <1>7, Held

(* A child that has waited for it keeps the invariant.                      *)
LEMMA WaitSafe ==
    ASSUME Typed, Safe, NEW c \in Clients, Wait(c)
    PROVE  IInv'
<1> DEFINE q == conn[c]
           k == child[c]
           g == cgi[c]
           at == "close"
           reaped == "reaped"
           x == [k EXCEPT !.at = at]
           h == [g EXCEPT !.at = reaped]
<1>1. /\ k \in ChildType /\ ask[c] \in AskType /\ q \in ConnType /\ sys.tty \in BOOLEAN
      /\ Good(q, k, g, ask[c], sys) /\ k.rio \in RioType /\ g \in CgiType
  BY Facts, SysTyped
<1>2. /\ conn' = [conn EXCEPT ![c] = q] /\ k.at = "wait" /\ g.at = "zombie"
      /\ child' = [child EXCEPT ![c] = x] /\ cgi' = [cgi EXCEPT ![c] = h]
      /\ UNCHANGED <<kind, msg, backlog, sys, ask, main>>
  BY DEF Wait, Becomes, connVars, Typed
<1>3. /\ at \in Ats /\ at = "close" /\ <<>> \in Seq(Parts)
      /\ reaped \in {"none", "exec", "runs", "zombie", "reaped"} /\ reaped = "reaped"
  BY DEF Ats
<1> HIDE DEF q, k, g, at, reaped
<1>4. Turned(x, at, k.rio, k.todo, k.next) /\ Runs(h, reaped, g.todo)
  BY <1>1, <1>3, Turning, Running
<1> HIDE DEF x, h
<1>5. x \in ChildType /\ x.at = "close" /\ h \in CgiType /\ h.at = "reaped"
  BY <1>3, <1>4 DEF Turned, Runs
<1>6. Good(q, x, h, ask[c], sys)
  BY <1>1, <1>2, <1>5, Hands
<1>7. x.at = "none" <=> child[c].at = "none"
  BY <1>2, <1>5 DEF k
<1>8. q.up <=> conn[c].up
  BY DEF q
<1> QED BY <1>1, <1>2, <1>5, <1>6, <1>7, <1>8, Local

(* execve keeps the invariant.                                              *)
LEMMA ExecSafe ==
    ASSUME Typed, Safe, NEW c \in Clients, Exec(c)
    PROVE  IInv'
<1> DEFINE q == conn[c]
           k == child[c]
           g == cgi[c]
           runs == "runs"
           s == Output(ask[c].req, sys.tty)
           h == [at |-> runs, todo |-> s]
<1>1. /\ k \in ChildType /\ ask[c] \in AskType /\ q \in ConnType /\ sys.tty \in BOOLEAN
      /\ Good(q, k, g, ask[c], sys) /\ g \in CgiType
  BY Facts, SysTyped
<1>2. /\ conn' = [conn EXCEPT ![c] = q] /\ g.at = "exec"
      /\ child' = [child EXCEPT ![c] = k] /\ cgi' = [cgi EXCEPT ![c] = h]
      /\ UNCHANGED <<kind, msg, backlog, sys, ask, main>>
  BY DEF Exec, connVars, Typed
<1>3. runs \in {"none", "exec", "runs", "zombie", "reaped"} /\ runs = "runs"
  OBVIOUS
<1>4. s \in Seq(Parts)
  <2>1. ask[c].req \in Programs
    BY <1>1, <1>2 DEF Good, InTurn
  <2> QED BY <1>1, <2>1, OutputTyped
<1> HIDE DEF q, k, g, runs, s
<1>5. Runs(h, runs, s)
  BY <1>1, <1>3, <1>4, Running
<1> HIDE DEF h
<1>6. h \in CgiType /\ h.at = "runs" /\ h.todo = Output(ask[c].req, sys.tty)
  BY <1>3, <1>5 DEF Runs, s
<1>7. Good(q, k, h, ask[c], sys)
  BY <1>1, <1>2, <1>6, Hands
<1>8. (q.up <=> conn[c].up) /\ (k.at = "none" <=> child[c].at = "none")
  BY DEF q, k
<1> QED BY <1>1, <1>2, <1>6, <1>7, <1>8, Local

(* The end of a program keeps the invariant.                                *)
LEMMA CgiExitSafe ==
    ASSUME Typed, Safe, NEW c \in Clients, CgiExits(c)
    PROVE  IInv'
<1> DEFINE q == conn[c]
           k == child[c]
           g == cgi[c]
           at == "zombie"
           h == [g EXCEPT !.at = at]
           w == q.open \ {"cgi"}
<1>1. /\ k \in ChildType /\ ask[c] \in AskType /\ q \in ConnType /\ sys.tty \in BOOLEAN
      /\ Good(q, k, g, ask[c], sys) /\ g \in CgiType
  BY Facts, SysTyped
<1>2. /\ conn' = [conn EXCEPT ![c].open = w] /\ g.at = "runs" /\ g.todo = <<>>
      /\ child' = [child EXCEPT ![c] = k] /\ cgi' = [cgi EXCEPT ![c] = h]
      /\ UNCHANGED <<kind, msg, backlog, sys, ask, main>>
  BY DEF CgiExits, Without, Typed
<1>3. /\ at \in {"none", "exec", "runs", "zombie", "reaped"} /\ at = "zombie"
      /\ w \in SUBSET {"main", "child", "cgi"} /\ <<>> \in Seq(Parts)
  BY <1>1 DEF ConnType
<1>4. k.at = "wait"
  BY <1>1, <1>2 DEF Good, InTurn
<1> HIDE DEF q, k, g, at, w
<1>5. Runs(h, at, g.todo)
  BY <1>1, <1>3, Running
<1> HIDE DEF h
<1>6. h \in CgiType /\ h.at = "zombie" /\ h.todo = g.todo
  BY <1>3, <1>5 DEF Runs
<1>7. Good(q, k, h, ask[c], sys)
  BY <1>1, <1>2, <1>6, Hands
<1>8. k.at # "none" /\ child[c].at # "none" /\ Good(conn[c], k, h, ask[c], sys)
  BY <1>4, <1>7 DEF q, k
<1> QED BY <1>1, <1>2, <1>3, <1>6, <1>8, Held

(* The first of a sequence and the others.                                  *)
LEMMA FirstPart ==
    ASSUME NEW s \in Seq(Parts), s # <<>>, NEW o \in Seq(Parts)
    PROVE  \E f \in Seq(Parts) :
              /\ Cat(f, Tail(s)) = s /\ Tail(s) \in Seq(Parts) /\ Append(o, Head(s)) = Cat(o, f)
<1> DEFINE f == <<Head(s)>>
<1>1. Head(s) \in Parts /\ Tail(s) \in Seq(Parts) /\ Len(s) \in Nat \ {0}
  BY EmptySeq
<1>2. f \in Seq(Parts)
  BY <1>1
<1>3. Cat(f, Tail(s)) = s
  <2> DEFINE t == Tail(s)
             z == f \o t
  <2>1. /\ Len(t) = Len(s) - 1 /\ \A i \in 1 .. Len(s) - 1 : t[i] = s[i + 1]
        /\ Len(f) = 1 /\ f[1] = s[1] /\ t \in Seq(Parts)
    BY <1>1
  <2> HIDE DEF f, t
  <2>2. /\ z \in Seq(Parts) /\ Len(z) = Len(f) + Len(t)
        /\ \A i \in 1 .. Len(f) : z[i] = f[i]
        /\ \A i \in 1 .. Len(t) : z[Len(f) + i] = t[i]
    <3>1. f \in Seq(Parts) /\ t \in Seq(Parts)
      BY <1>2, <2>1
    <3> QED BY <3>1, Joined
  <2> HIDE DEF z
  <2>3. Len(z) = Len(s)
    BY <1>1, <2>1, <2>2
  <2>4. ASSUME NEW i \in 1 .. Len(s) PROVE z[i] = s[i]
    <3>1. CASE i = 1
      BY <2>1, <2>2, <3>1
    <3>2. CASE i # 1
      <4> DEFINE j == i - 1
      <4>1. j \in 1 .. Len(s) - 1 /\ i = 1 + j /\ j + 1 = i
        BY <1>1, <3>2
      <4> HIDE DEF j
      <4>2. z[1 + j] = t[j] /\ t[j] = s[j + 1]
        BY <2>1, <2>2, <4>1
      <4> QED BY <4>1, <4>2
    <3> QED BY <3>1, <3>2
  <2>5. z = s
    BY <2>2, <2>3, <2>4, SeqEqual
  <2> QED BY <2>5 DEF z, t, Cat
<1>4. Append(o, Head(s)) = Cat(o, f)
  BY <1>1 DEF Cat
<1> QED BY <1>1, <1>2, <1>3, <1>4

(* What a program has sent it owes no more.                                 *)
LEMMA Flushed ==
    ASSUME NEW q \in ConnType, NEW k, NEW g, NEW a \in AskType, NEW s, s.tty \in BOOLEAN,
           Good(q, k, g, a, s), g.at = "runs", ~q.gone,
           NEW f \in Seq(Parts), NEW r \in Seq(Parts), Cat(f, r) = g.todo,
           NEW z, Carries(z, q, q.unsent, q.in, Cat(q.out, f), q.got, q.fin),
           NEW h, h.at = "runs", h.todo = r
    PROVE  Good(z, k, h, a, s)
<1>1. InTurn(k, g, a.req)
  BY DEF Good
<1>2. k.at = "wait" /\ InTurn(k, h, a.req)
  BY <1>1 DEF InTurn
<1>3. Owes(k, h, a.req, s.tty) = r /\ Owes(k, g, a.req, s.tty) = Cat(f, r)
  BY <1>2 DEF Owes
<1>4. /\ z.unsent = q.unsent /\ z.in = q.in /\ z.out = Cat(q.out, f) /\ z.got = q.got
      /\ z.gone <=> q.gone
      /\ z.err <=> q.err
      /\ z.fin <=> q.fin
  BY DEF Carries
<1>5. q.got \in Seq(Parts) /\ q.out \in Seq(Parts)
  BY DEF ConnType
<1> DEFINE x == q.got
           y == q.out
           yf == Cat(y, f)
<1>6. x \in Seq(Parts) /\ y \in Seq(Parts) /\ yf \in Seq(Parts)
  BY <1>5, CatTyped
<1>7. Sent(z) = Cat(x, yf) /\ Sent(q) = Cat(x, y)
  BY <1>4 DEF Sent
<1> HIDE DEF x, y
<1>8. Cat(Cat(x, yf), r) = Cat(Cat(x, y), Cat(f, r))
  <2> DEFINE fr == Cat(f, r)
  <2>1. fr \in Seq(Parts)
    BY CatTyped
  <2>2. Cat(yf, r) = Cat(y, fr)
    BY <1>6, CatAssoc
  <2>3. Cat(Cat(x, yf), r) = Cat(x, Cat(yf, r))
    <3> HIDE DEF yf
    <3> QED BY <1>6, CatAssoc
  <2> HIDE DEF fr
  <2>4. Cat(Cat(x, y), fr) = Cat(x, Cat(y, fr))
    BY <1>6, <2>1, CatAssoc
  <2> HIDE DEF yf
  <2>5. Cat(Cat(x, yf), r) = Cat(Cat(x, y), fr)
    BY <2>2, <2>3, <2>4
  <2> QED BY <2>5 DEF fr
<1>9. Keeps(z, k, h, q, k, g, a.req, s.tty)
  BY <1>3, <1>7, <1>8 DEF Keeps
<1>10. Sent(z) \in Seq(Parts) /\ Owes(k, h, a.req, s.tty) \in Seq(Parts)
  <2> HIDE DEF yf
  <2> QED BY <1>3, <1>6, <1>7, CatTyped
<1>11. Reset(z)
  BY <1>4 DEF Good, Reset
<1>12. Heard(z, a)
  BY <1>2, <1>4 DEF Good, Answering, Paid, Heard
<1>13. Reading(z, k, a)
  BY <1>2 DEF Reading
<1> QED BY <1>2, <1>4, <1>9, <1>10, <1>11, <1>12, <1>13, Onward

(* To a client that has reset it owes nothing.                              *)
LEMMA FlushedGone ==
    ASSUME NEW q, NEW k, NEW g, NEW a, NEW s, Good(q, k, g, a, s), g.at = "runs", q.gone,
           NEW h, h.at = "runs"
    PROVE  Good(q, k, h, a, s)
<1>1. InTurn(k, g, a.req) /\ IsPrefix(Sent(q), Answer(a.req, s.tty))
  BY DEF Good, Answering
<1>2. InTurn(k, h, a.req) /\ k.at = "wait"
  BY <1>1 DEF InTurn
<1>3. Answering(q, k, h, a, s.tty)
  BY <1>1 DEF Answering
<1> QED BY <1>2, <1>3 DEF Good

(* A flush of a program keeps the invariant.                                *)
LEMMA CgiWriteSafe ==
    ASSUME Typed, Safe, NEW c \in Clients, CgiWrites(c)
    PROVE  IInv'
<1> DEFINE q == conn[c]
           k == child[c]
           g == cgi[c]
           s == g.todo
           r == Tail(s)
           h == [g EXCEPT !.todo = r]
<1>1. /\ k \in ChildType /\ ask[c] \in AskType /\ q \in ConnType /\ sys.tty \in BOOLEAN
      /\ Good(q, k, g, ask[c], sys) /\ g \in CgiType
  BY Facts, SysTyped
<1>2. /\ g.at = "runs" /\ s # <<>> /\ cgi' = [cgi EXCEPT ![c] = h]
      /\ child' = [child EXCEPT ![c] = k] /\ UNCHANGED <<sys, ask, main>>
  BY DEF CgiWrites, Typed
<1>3. s \in Seq(Parts) /\ q.out \in Seq(Parts) /\ q.got \in Seq(Parts)
      /\ g.at \in {"none", "exec", "runs", "zombie", "reaped"}
  BY <1>1 DEF CgiType, ConnType
<1>4. PICK f \in Seq(Parts) :
        Cat(f, r) = s /\ r \in Seq(Parts) /\ Append(q.out, Head(s)) = Cat(q.out, f)
  BY <1>2, <1>3, FirstPart
<1>5. h \in CgiType /\ h.at = "runs" /\ h.todo = r
  <2> HIDE DEF r, g
  <2>1. Runs(h, g.at, r)
    BY <1>1, <1>3, <1>4, Running
  <2> HIDE DEF h
  <2> QED BY <1>2, <2>1 DEF Runs
<1>6. CASE ~q.gone /\ Changes(c, [q EXCEPT !.out = Append(q.out, Head(s))])
  <2> DEFINE o == Cat(q.out, f)
             z == [q EXCEPT !.out = o]
  <2>1. conn' = [conn EXCEPT ![c] = z] /\ UNCHANGED <<kind, msg, backlog>>
    BY <1>4, <1>6 DEF Changes
  <2>2. o \in Seq(Parts)
    BY <1>3, CatTyped
  <2> HIDE DEF o, q, k, g, s, r, h
  <2>3. Carries(z, q, q.unsent, q.in, o, q.got, q.fin)
    BY <1>1, <1>3, <2>2, Writing
  <2> HIDE DEF z
  <2>4. Good(z, k, h, ask[c], sys)
    BY <1>1, <1>2, <1>4, <1>5, <1>6, <2>3, Flushed DEF o, s
  <2>5. z \in ConnType /\ (z.up <=> q.up)
    BY <2>3 DEF Carries
  <2>6. z.up <=> conn[c].up
    BY <2>5 DEF q
  <2>7. k.at = "none" <=> child[c].at = "none"
    BY DEF k
  <2> QED BY <1>1, <1>2, <1>5, <2>1, <2>4, <2>5, <2>6, <2>7, Local
<1>7. CASE q.gone /\ UNCHANGED connVars
  <2>1. conn' = [conn EXCEPT ![c] = q] /\ UNCHANGED <<kind, msg, backlog>>
    BY <1>7 DEF connVars, Typed
  <2>2. (q.up <=> conn[c].up) /\ (k.at = "none" <=> child[c].at = "none")
    OBVIOUS
  <2> HIDE DEF q, k, g, s, r, h
  <2>3. Good(q, k, h, ask[c], sys)
    BY <1>1, <1>2, <1>5, <1>7, FlushedGone
  <2> QED BY <1>1, <1>2, <1>5, <2>1, <2>2, <2>3, Local
<1> QED BY <1>6, <1>7 DEF CgiWrites

-----------------------------------------------------------------------------
(* The server.                                                              *)
(* Every step keeps the invariant.                                          *)
LEMMA StepSafe ==
    ASSUME Typed, Safe, [Next]_vars
    PROVE  IInv'
<1>1. CASE MainStep
  BY <1>1, MainSafe
<1>2. ASSUME NEW c \in Clients, Client(c) \/ LoseRest(c) \/ ChildStep(c) \/ CgiStep(c)
      PROVE  IInv'
  <2>1. CASE Client(c) \/ LoseRest(c)
    BY <2>1, ClientSafe, LoseSafe
  <2>2. CASE ChildStep(c)
    BY <2>2, ReadlineSafe, EndSafe, ServeSafe, WritenSafe, MapSafe, ExitSafe, ForkCgiSafe, WaitSafe
       DEF ChildStep
  <2>3. CASE CgiStep(c)
    BY <2>3, ExecSafe, CgiWriteSafe, CgiExitSafe DEF CgiStep
  <2> QED BY <1>2, <2>1, <2>2, <2>3
<1>3. CASE UNCHANGED vars
  <2>1. UNCHANGED <<kind, msg, conn, backlog, sys, ask, main, child, cgi>>
    BY <1>3 DEF vars, connVars
  <2>2. Typed'
    BY <2>1 DEF Typed
  <2>3. Safe'
    BY <2>1 DEF Safe, Placed, InBacklog, InHand
  <2> QED BY <2>2, <2>3 DEF IInv
<1> QED BY <1>1, <1>2, <1>3 DEF Next

(* A connection nobody has made yet.                                        *)
Fresh(q, a) ==
    /\ ~q.up /\ ~q.fin /\ ~q.gone /\ ~q.err
    /\ q.unsent = Request(a) /\ q.in = <<>> /\ q.out = <<>> /\ q.got = <<>>
LEMMA FreshGood ==
    ASSUME NEW q, NEW k, NEW g, NEW a \in AskType, NEW s, s.tty \in BOOLEAN, Fresh(q, a),
           k.at = "none", k.rio = rio_readinitb, g.at = "none"
    PROVE  Good(q, k, g, a, s)
<1> DEFINE m == Request(a)
           w == Answer(a.req, s.tty)
           e == <<>>
<1>1. m \in Seq(Bytes) /\ Len(m) \in Nat /\ w \in Seq(Parts) /\ e \in Seq(Parts)
  BY RequestIs, AnswerTyped, LenProperties
<1>2. Reset(q) /\ InTurn(k, g, a.req) /\ Ended(q, k, a, s)
  BY DEF Fresh, Reset, InTurn, Ended
<1>3. Reading(q, k, a)
  <2>1. k.rio.user = <<>> /\ k.rio.buf = <<>> /\ Len(<<>>) = 0
    BY DEF rio_readinitb
  <2>2. Unfinished(k.rio.user)
    BY <2>1, RioAssumption DEF Unfinished
  <2> DEFINE l == Len(m)
  <2>3. q.in = <<>> /\ q.unsent = m /\ l \in Nat
    BY <1>1 DEF Fresh
  <2> HIDE DEF m
  <2>4. Lie(q, k.rio, m, 0, 0, 0, 0, l, l)
    <3> HIDE DEF l
    <3>1. 0 + 0 + 0 = l - l - 0 /\ \A i \in 1 .. l : l - l + i = i
      BY <2>3
    <3>2. \A i \in 1 .. l : q.unsent[i] = m[l - l + i]
      BY <2>3, <3>1
    <3> QED BY <3>1, <3>2 DEF Lie, Lies
  <2>5. At(q, k.rio, m, 0)
    BY <2>1, <2>3, <2>4 DEF At
  <2> QED BY <2>2, <2>5 DEF Reading, m
<1>4. Answering(q, k, g, a, s.tty)
  <2> HIDE DEF w, e
  <2>1. Sent(q) = e
    <3>1. Cat(e, e) = e
      BY <1>1, CatEmpty DEF e
    <3> QED BY <3>1 DEF Fresh, Sent, e
  <2>2. Cat(e, w) = w
    BY <1>1, CatEmpty DEF e
  <2>3. Owes(k, g, a.req, s.tty) = w
    BY DEF Owes, w
  <2>4. IsPrefix(e, w)
    BY <1>1, <2>2, Beginning
  <2> QED BY <2>1, <2>2, <2>3, <2>4 DEF Answering, Paid, w
<1> QED BY <1>2, <1>3, <1>4 DEF Good

(* So it is at the beginning.                                               *)
LEMMA InitSafe ==
    ASSUME Init
    PROVE  IInv
<1>1. PICK scene \in Scenes :
        /\ ask = scene.ask
        /\ ConnInit({scene.kind}, [c \in Clients |-> Request(scene.ask[c])])
  BY DEF Init
<1>2. /\ sys \in Systems /\ main = [at |-> "setup", fd |-> None]
      /\ child = [c \in Clients |-> NoChild]
      /\ cgi = [c \in Clients |-> [at |-> "none", todo |-> <<>>]]
  BY DEF Init
<1>3. /\ kind = scene.kind /\ msg = [c \in Clients |-> Request(ask[c])] /\ backlog = <<>>
      /\ conn = [c \in Clients |->
                   [up |-> FALSE, open |-> {}, unsent |-> msg[c], fin |-> FALSE, err |-> FALSE,
                    gone |-> FALSE, in |-> <<>>, out |-> <<>>, got |-> <<>>]]
  BY <1>1 DEF ConnInit
<1>4. kind \in [Clients -> Kinds] /\ ask \in [Clients -> AskType]
  <2>1. /\ scene.ask \in [Clients -> [req : Requests, headers : Seq(HeaderBytes)]]
        /\ scene.kind \in [Clients -> Kinds]
        /\ \A c \in Clients : \A i \in DOMAIN scene.ask[c].headers :
              scene.ask[c].headers[i] = NL => i > 1 /\ scene.ask[c].headers[i - 1] # NL
    BY TinyAssumption
  <2>2. \A c \in Clients : scene.ask[c] \in AskType
    BY <2>1 DEF AskType
  <2> QED BY <1>1, <1>3, <2>1, <2>2
<1>5. sys.window \in Nat \ {0} /\ sys.procs \in Nat \ {0} /\ sys.tty \in BOOLEAN
  BY <1>2, TinyAssumption
<1>6. ASSUME NEW c \in Clients
      PROVE  /\ conn[c] \in ConnType /\ child[c] \in ChildType /\ cgi[c] \in CgiType
             /\ Fresh(conn[c], ask[c]) /\ child[c].at = "none" /\ child[c].rio = rio_readinitb
             /\ cgi[c].at = "none"
  <2>1. Request(ask[c]) \in Seq(Bytes) /\ msg[c] = Request(ask[c])
    BY <1>3, <1>4, RequestIs
  <2>2. conn[c] = [up |-> FALSE, open |-> {}, unsent |-> msg[c], fin |-> FALSE, err |-> FALSE,
                    gone |-> FALSE, in |-> <<>>, out |-> <<>>, got |-> <<>>]
    BY <1>3
  <2>3. /\ <<>> \in Seq(Bytes) /\ <<>> \in Seq(Parts) /\ FALSE \in BOOLEAN
        /\ {} \in SUBSET {"main", "child", "cgi"}
    OBVIOUS
  <2>4. conn[c] \in ConnType
    BY <2>1, <2>2, <2>3 DEF ConnType
  <2>5. Fresh(conn[c], ask[c])
    BY <2>1, <2>2 DEF Fresh
  <2>6. child[c] \in ChildType /\ child[c].at = "none" /\ child[c].rio = rio_readinitb
    BY <1>2 DEF NoChild, ChildType, RioType, rio_readinitb
  <2>7. cgi[c] \in CgiType /\ cgi[c].at = "none"
    BY <1>2 DEF CgiType
  <2> QED BY <2>4, <2>5, <2>6, <2>7
<1>7. backlog \in Seq(Clients) /\ main \in MainType /\ main.at = "setup"
  BY <1>2, <1>3 DEF MainType
<1>8. Typed
  <2>1. conn \in [Clients -> ConnType] /\ child \in [Clients -> ChildType] /\ cgi \in [Clients -> CgiType]
    <3>1. /\ conn = [c \in Clients |-> conn[c]] /\ child = [c \in Clients |-> child[c]]
          /\ cgi = [c \in Clients |-> cgi[c]]
      BY <1>2, <1>3
    <3> QED BY <1>6, <3>1
  <2> QED BY <1>3, <1>4, <1>5, <1>7, <2>1 DEF Typed
<1>9. Safe
  <2>1. Distinct(backlog) /\ \A c \in Clients : ~InBacklog(c)
    BY <1>3 DEF Distinct, InBacklog, ToSet
  <2>2. ASSUME NEW c \in Clients PROVE Placed(c) /\ Good(conn[c], child[c], cgi[c], ask[c], sys)
    <3>1. Placed(c)
      BY <1>6, <1>7, <2>1 DEF Placed, InHand
    <3> QED BY <1>4, <1>5, <1>6, <3>1, FreshGood
  <2> QED BY <2>1, <2>2 DEF Safe
<1> QED BY <1>8, <1>9 DEF IInv

(* The invariant holds throughout.                                          *)
THEOREM Inductive == Spec => []IInv
<1>1. Init => IInv
  BY InitSafe
<1>2. IInv /\ [Next]_vars => IInv'
  BY StepSafe DEF IInv
<1> QED BY <1>1, <1>2, PTL DEF Spec

(* What a client receives is the answer to its own request, in order, and   *)
(* when its child has ended in good order, all of it: doit and what it      *)
(* calls, Rio_writen's loop and the programs under cgi-bin.                 *)
THEOREM AnswersAreExact == Spec => []AnswersExact
<1>1. IInv => AnswersExact
  <2> SUFFICES ASSUME IInv, NEW c \in Clients
               PROVE  LET answer == conn[c].got \o conn[c].out IN
                      /\ IsPrefix(answer, Answer(ask[c].req, sys.tty))
                      /\ child[c].at = "zombie" =>
                            \/ conn[c].gone \/ ~Enough \/ conn[c].in # <<>>
                            \/ answer = IF conn[c].unsent = msg[c] THEN <<>>
                                        ELSE Answer(ask[c].req, sys.tty)
    BY DEF AnswersExact
  <2> DEFINE q == conn[c]
             w == Answer(ask[c].req, sys.tty)
             answer == q.got \o q.out
  <2>1. /\ Good(q, child[c], cgi[c], ask[c], sys) /\ msg[c] = Request(ask[c])
    BY Facts DEF IInv
  <2>2. Sent(q) = answer /\ (Plenty(sys) <=> Enough)
    BY DEF Sent, Cat, Plenty, Enough
  <2>3. IsPrefix(Sent(q), w)
    BY <2>1 DEF Good, Answering
  <2>4. child[c].at = "zombie" =>
            \/ q.gone \/ ~Plenty(sys) \/ q.in # <<>>
            \/ Sent(q) = IF q.unsent = msg[c] THEN <<>> ELSE w
    <3>1. Heard(q, ask[c]) => q.unsent # Request(ask[c])
      <4>1. Len(Request(ask[c])) \in Nat
        BY Facts, LenProperties DEF IInv
      <4> QED BY <4>1 DEF Heard
    <3> QED BY <2>1, <3>1 DEF Good, Ended, Silent
  <2> QED BY <2>2, <2>3, <2>4
<1> QED BY <1>1, Inductive, PTL

(* A child serves only what it has read to the blank line, and nothing is   *)
(* left behind it: read_requesthdrs, but for a header line that just fills  *)
(* its buffer.                                                              *)
THEOREM HeadersAreRead == Spec => []HeadersRead
<1>1. IInv => HeadersRead
  <2> SUFFICES ASSUME IInv, NEW c \in Clients, child[c].at = "serve"
               PROVE  \/ Len(conn[c].unsent \o conn[c].in \o child[c].rio.buf) = 0
                      \/ Filled(ask[c].headers)
    BY DEF HeadersRead, Filled
  <2> DEFINE x == conn[c].unsent
             y == conn[c].in
             z == child[c].rio.buf
  <2>1. Good(conn[c], child[c], cgi[c], ask[c], sys)
    BY Facts DEF IInv
  <2>2. (Len(x) = 0 /\ Len(y) = 0 /\ Len(z) = 0) \/ Filled(ask[c].headers)
    BY <2>1 DEF Good, Reading
  <2>3. x \in Seq(Bytes) /\ y \in Seq(Bytes) /\ z \in Seq(Bytes)
    BY Facts, Fields DEF IInv
  <2> HIDE DEF x, y, z
  <2>4. Len(x) = 0 /\ Len(y) = 0 /\ Len(z) = 0 => Len(x \o y \o z) = 0
    BY <2>3
  <2> QED BY <2>2, <2>4 DEF x, y, z
<1> QED BY <1>1, Inductive, PTL
=============================================================================
