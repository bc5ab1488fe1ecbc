------------------------- MODULE TreasureHuntProofs -------------------------
(***************************************************************************)
(* Proofs about TreasureHunt, for any number of chunks, any ports and any  *)
(* nonces: as long as the network copies no datagram, the chunks collected *)
(* are the first of the server's, each once and in order.                  *)
(*                                                                         *)
(* InOrder is not inductive: that the next chunk is the right one rests on *)
(* there being a single exchange under way.  A token is a request, or the  *)
(* directions that answer it: there is at most one, in the network or in   *)
(* the client's socket, none while the client works on directions          *)
(* (TokenOK), and the server is ahead of the client by exactly the chunk   *)
(* of the token (Current).                                                 *)
(*                                                                         *)
(* And a client that can follow the directions prints the whole treasure   *)
(* or nothing.  PrintsWhole rests on the server never having a reason to   *)
(* answer with an error (AllIsWell): it knows the client that asks, and    *)
(* the nonce is the one it expects, also when it is a sum over datagrams   *)
(* that come in any order, and may be lost (Due).                          *)
(***************************************************************************)
EXTENDS TreasureHunt, Induction, SequenceTheorems

Contents ==
    [kind : {"hello", "over", "empty"}]
      \cup [kind : {"nonce"}, nonce : Int]
      \cup [kind : {"error"}, code : Int]
      \cup [kind : {"directions"}, chunk : Nat, op : 0 .. 4, param : Int, nonce : Int]
Datagrams == [to : Int, from : Int, what : Contents]

Working == {"first", "send", "collect"}
Reading == {"read", "printed", "failed"}
Places == Working \cup Reading

Treasures == Seq(Nat)
Clients ==
    [at : Places, local : Int, remote : Int, list : {"freed", "valid"},
     chunk : Nat, got : Treasures, nonce : Int, left : Int]

TypeOK ==
    /\ world \in Worlds
    /\ net \in Seq(Datagrams) /\ inbox \in Seq(Datagrams)
    /\ cl \in Clients
    /\ sv.port \in Int /\ sv.client \in Int /\ sv.sent \in Nat

IsRequest(d) == d.what.kind \in {"hello", "nonce"}
IsDirections(d) == d.what.kind = "directions"
Token(d) == IsRequest(d) \/ IsDirections(d)

(* What a token says of the client c and of the number of chunks sent.      *)
Current(d, c, sent) ==
    /\ c.at \in Reading
    /\ d.what = Hello => c.got = <<>>
    /\ IsRequest(d) => Len(c.got) = sent
    /\ IsDirections(d) => d.what.chunk = sent /\ Len(c.got) + 1 = sent

Single(s) == \A i, j \in DOMAIN s : Token(s[i]) /\ Token(s[j]) => i = j
Quiet(s) == \A i \in DOMAIN s : ~Token(s[i])
AllCurrent(s, c, sent) == \A i \in DOMAIN s : Token(s[i]) => Current(s[i], c, sent)

TokenOK(n, b, c, sent) ==
    /\ Single(n) /\ Single(b)
    /\ Quiet(n) \/ Quiet(b)
    /\ AllCurrent(n, c, sent) /\ AllCurrent(b, c, sent)

(* What the client has collected while no exchange is under way.            *)
ClientOK(c, sent) ==
    /\ \A i \in DOMAIN c.got : c.got[i] = i
    /\ Len(c.got) <= sent /\ sent <= Chunks
    /\ c.at = "first" => c.got = <<>>
    /\ c.at \in {"first", "send"} => Len(c.got) = sent
    /\ c.at = "collect" => c.chunk = sent /\ Len(c.got) + 1 = sent

Uncopied == "duplicate" \notin world.faults

IInv == TypeOK /\ (Uncopied => TokenOK(net, inbox, cl, sv.sent) /\ ClientOK(cl, sv.sent))

-----------------------------------------------------------------------------
(* Sequences of datagrams, and the tokens in them.                          *)

LEMMA Without ==
    ASSUME NEW S, NEW s \in Seq(S), NEW i \in DOMAIN s
    PROVE  /\ RemoveAt(s, i) \in Seq(S)
           /\ Len(RemoveAt(s, i)) = Len(s) - 1
           /\ \A k \in 1 .. Len(s) - 1 : RemoveAt(s, i)[k] = s[IF k < i THEN k ELSE k + 1]
<1> DEFINE a == SubSeq(s, 1, i - 1)
           b == SubSeq(s, i + 1, Len(s))
<1>1. i \in 1 .. Len(s) /\ Len(s) \in Nat
  BY LenProperties
<1>2. a \in Seq(S) /\ Len(a) = i - 1 /\ \A k \in 1 .. i - 1 : a[k] = s[k]
  BY <1>1, SubSeqProperties
<1>3. b \in Seq(S) /\ Len(b) = Len(s) - i /\ \A k \in 1 .. Len(s) - i : b[k] = s[i + k]
  BY <1>1, SubSeqProperties
<1> HIDE DEF a, b
<1>4. a \o b \in Seq(S) /\ Len(a \o b) = Len(s) - 1
  BY <1>1, <1>2, <1>3, ConcatProperties
<1>5. ASSUME NEW k \in 1 .. Len(s) - 1
      PROVE  (a \o b)[k] = s[IF k < i THEN k ELSE k + 1]
  BY <1>1, <1>2, <1>3, ConcatProperties
<1>6. RemoveAt(s, i) = a \o b
  BY DEF RemoveAt, a, b
<1> QED BY <1>4, <1>5, <1>6

(* Taking a datagram away brings in no token, and takes the only one away   *)
(* if it is that.                                                           *)
Fewer(s, t, d) ==
    /\ \A k \in DOMAIN t : \E j \in DOMAIN s : t[k] = s[j]
    /\ Single(s) => Single(t)
    /\ Single(s) /\ Token(d) => Quiet(t)

LEMMA FewerWithout ==
    ASSUME NEW s \in Seq(Datagrams), NEW i \in DOMAIN s
    PROVE  RemoveAt(s, i) \in Seq(Datagrams) /\ Fewer(s, RemoveAt(s, i), s[i])
<1> DEFINE t == RemoveAt(s, i)
           old(k) == IF k < i THEN k ELSE k + 1
<1>1. i \in 1 .. Len(s) /\ Len(s) \in Nat /\ DOMAIN s = 1 .. Len(s)
  BY LenProperties
<1>2. t \in Seq(Datagrams) /\ DOMAIN t = 1 .. Len(s) - 1
  BY Without, LenProperties
<1>3. \A k \in DOMAIN t : old(k) \in DOMAIN s /\ old(k) # i /\ t[k] = s[old(k)]
  <2>1. \A k \in 1 .. Len(s) - 1 : t[k] = s[old(k)]
    BY Without
  <2>2. \A k \in 1 .. Len(s) - 1 : old(k) \in 1 .. Len(s) /\ old(k) # i
    BY <1>1
  <2> QED BY <1>1, <1>2, <2>1, <2>2
<1>4. \A k, l \in DOMAIN t : old(k) = old(l) => k = l
  BY <1>1, <1>2
<1> HIDE DEF t, old
<1>5. Single(s) => Single(t)
  BY <1>3, <1>4 DEF Single
<1>6. Single(s) /\ Token(s[i]) => Quiet(t)
  BY <1>3 DEF Single, Quiet
<1>7. Fewer(s, t, s[i])
  BY <1>3, <1>5, <1>6 DEF Fewer
<1> QED BY <1>2, <1>7 DEF t

LEMMA FewerTail ==
    ASSUME NEW s \in Seq(Datagrams), s # <<>>
    PROVE  /\ Tail(s) \in Seq(Datagrams) /\ Fewer(s, Tail(s), Head(s))
           /\ Head(s) \in Datagrams /\ Head(s) = s[1] /\ 1 \in DOMAIN s
<1>1. Len(s) \in Nat /\ Len(s) > 0 /\ DOMAIN s = 1 .. Len(s)
  BY EmptySeq, LenProperties
<1>2. /\ Tail(s) \in Seq(Datagrams) /\ DOMAIN Tail(s) = 1 .. Len(s) - 1
      /\ \A k \in DOMAIN Tail(s) : Tail(s)[k] = s[k + 1]
  BY <1>1, HeadTailProperties, LenProperties
<1>3. Head(s) = s[1] /\ 1 \in DOMAIN s /\ s[1] \in Datagrams
  BY <1>1, ElementOfSeq
<1>4. \A k \in DOMAIN Tail(s) : k + 1 \in DOMAIN s /\ k + 1 # 1
  BY <1>1, <1>2
<1>5. Single(s) => Single(Tail(s))
  BY <1>2, <1>4 DEF Single
<1>6. Single(s) /\ Token(s[1]) => Quiet(Tail(s))
  BY <1>2, <1>3, <1>4 DEF Single, Quiet
<1> QED BY <1>2, <1>3, <1>4, <1>5, <1>6 DEF Fewer

(* One more datagram: the only token if it is one and there was none.       *)
More(s, t, d) ==
    /\ \A k \in DOMAIN t : t[k] = d \/ \E j \in DOMAIN s : t[k] = s[j]
    /\ Single(s) /\ ~Token(d) => Single(t)
    /\ Quiet(s) => Single(t)
    /\ Quiet(s) /\ ~Token(d) => Quiet(t)

LEMMA MoreAppended ==
    ASSUME NEW s \in Seq(Datagrams), NEW d \in Datagrams
    PROVE  Append(s, d) \in Seq(Datagrams) /\ More(s, Append(s, d), d)
<1> DEFINE t == Append(s, d)
<1>1. /\ t \in Seq(Datagrams) /\ Len(s) \in Nat
      /\ DOMAIN s = 1 .. Len(s) /\ DOMAIN t = 1 .. Len(s) + 1
      /\ t[Len(s) + 1] = d /\ \A k \in 1 .. Len(s) : t[k] = s[k]
  BY AppendProperties, LenProperties
<1> HIDE DEF t
<1>2. \A k \in DOMAIN t : t[k] = d \/ (k \in DOMAIN s /\ t[k] = s[k])
  BY <1>1
<1>3. \A k, l \in DOMAIN t : k \in DOMAIN s \/ l \in DOMAIN s \/ k = l
  BY <1>1
<1>4. \A k \in DOMAIN s : t[k] = s[k]
  BY <1>1
<1>5. Quiet(s) => Single(t)
  BY <1>3, <1>4 DEF Single, Quiet
<1>6. (Single(s) /\ ~Token(d) => Single(t)) /\ (Quiet(s) /\ ~Token(d) => Quiet(t))
  BY <1>2 DEF Single, Quiet
<1> QED BY <1>1, <1>2, <1>5, <1>6 DEF More, t

LEMMA MoreConcat ==
    ASSUME NEW s \in Seq(Datagrams), NEW e \in Seq(Datagrams), Quiet(e)
    PROVE  /\ s \o e \in Seq(Datagrams)
           /\ \A k \in DOMAIN (s \o e) :
                 ~Token((s \o e)[k]) \/ (k \in DOMAIN s /\ (s \o e)[k] = s[k])
<1>1. /\ s \o e \in Seq(Datagrams)
      /\ DOMAIN s = 1 .. Len(s) /\ DOMAIN e = 1 .. Len(e)
      /\ Len(s) \in Nat /\ Len(e) \in Nat
      /\ DOMAIN (s \o e) = 1 .. Len(s) + Len(e)
  BY ConcatProperties, LenProperties
<1>2. \A k \in 1 .. Len(s) + Len(e) : (s \o e)[k] = IF k <= Len(s) THEN s[k] ELSE e[k - Len(s)]
  BY ConcatProperties
<1>3. ASSUME NEW k \in DOMAIN (s \o e)
      PROVE  ~Token((s \o e)[k]) \/ (k \in DOMAIN s /\ (s \o e)[k] = s[k])
  <2>1. CASE k <= Len(s)
    BY <1>1, <1>2, <2>1
  <2>2. CASE ~(k <= Len(s))
    <3>1. k - Len(s) \in DOMAIN e /\ (s \o e)[k] = e[k - Len(s)]
      BY <1>1, <1>2, <2>2
    <3> QED BY <3>1 DEF Quiet
  <2> QED BY <2>1, <2>2
<1> QED BY <1>1, <1>3

-----------------------------------------------------------------------------
(* What keeps TokenOK.                                                      *)

(* Nothing is under way.                                                    *)
LEMMA TokenNone ==
    ASSUME NEW n, NEW b, NEW c, NEW sent, Quiet(n), Quiet(b)
    PROVE  TokenOK(n, b, c, sent)
BY DEF TokenOK, Quiet, Single, AllCurrent

(* A datagram is lost, or read and found to say nothing.                    *)
LEMMA TokenFewer ==
    ASSUME NEW n, NEW m, NEW b, NEW a, NEW c, NEW sent, NEW d,
           TokenOK(n, b, c, sent),
           (Fewer(n, m, d) /\ a = b) \/ (m = n /\ Fewer(b, a, d))
    PROVE  TokenOK(m, a, c, sent)
BY DEF TokenOK, Fewer, Quiet, Single, AllCurrent

(* A datagram arrives.                                                      *)
LEMMA TokenMoved ==
    ASSUME NEW n, NEW m, NEW b, NEW a, NEW c, NEW sent, NEW i \in DOMAIN n,
           TokenOK(n, b, c, sent), Fewer(n, m, n[i]), More(b, a, n[i])
    PROVE  TokenOK(m, a, c, sent)
<1>1. CASE Token(n[i])
  <2>1. Quiet(m) /\ Quiet(b)
    BY <1>1 DEF TokenOK, Fewer, Quiet
  <2>2. Current(n[i], c, sent)
    BY <1>1 DEF TokenOK, AllCurrent
  <2>3. AllCurrent(a, c, sent) /\ AllCurrent(m, c, sent)
    BY <2>1, <2>2 DEF More, Quiet, AllCurrent
  <2> QED BY <2>1, <2>3 DEF TokenOK, More, Fewer
<1>2. CASE ~Token(n[i])
  <2>1. Quiet(n) => Quiet(m)
    BY DEF Fewer, Quiet
  <2>2. AllCurrent(m, c, sent)
    BY DEF TokenOK, Fewer, AllCurrent
  <2>3. AllCurrent(a, c, sent)
    BY <1>2 DEF TokenOK, More, AllCurrent
  <2> QED BY <1>2, <2>1, <2>2, <2>3 DEF TokenOK, More, Fewer
<1> QED BY <1>1, <1>2

(* One datagram is sent while nothing is under way.                         *)
LEMMA TokenSent ==
    ASSUME NEW n, NEW m, NEW b, NEW c, NEW sent, NEW d,
           Quiet(n), Quiet(b), More(n, m, d), Token(d) => Current(d, c, sent)
    PROVE  TokenOK(m, b, c, sent)
BY DEF TokenOK, More, Quiet, Single, AllCurrent

-----------------------------------------------------------------------------
(* The initial states, and the network.                                     *)

LEMMA PlacesAre ==
    {"first", "send", "collect", "read", "printed", "failed"} = Places
BY DEF Places, Working, Reading

LEMMA DatagramType ==
    ASSUME NEW t \in Int, NEW f \in Int, NEW w \in Contents
    PROVE  Datagram(t, f, w) \in Datagrams /\ Datagram(t, f, w).what = w
BY DEF Datagram, Datagrams

LEMMA Established == Init => IInv
<1> SUFFICES ASSUME Init PROVE IInv
  OBVIOUS
<1>1. PICK p \in Remotes :
         /\ cl = [at |-> "first", local |-> Ephemeral, remote |-> p, list |-> "freed",
                  chunk |-> 0, got |-> <<>>, nonce |-> 0, left |-> 0]
         /\ sv = [port |-> p, client |-> Anyone, sent |-> 0, nonce |-> 0]
  BY DEF Init
<1>2. p \in Int /\ Chunks \in Nat /\ <<>> \in Seq(Nat) /\ <<>> \in Seq(Datagrams)
  BY HuntAssumption, EmptySeq
<1>3. TypeOK
  BY <1>1, <1>2 DEF Init, TypeOK, Clients, Treasures, Working, Places, Ephemeral, Anyone
<1>4. Quiet(net) /\ Quiet(inbox)
  BY DEF Init, Quiet
<1>5. ClientOK(cl, sv.sent)
  BY <1>1, <1>2 DEF ClientOK
<1> QED BY <1>3, <1>4, <1>5, TokenNone DEF IInv

LEMMA ElementTyped ==
    ASSUME NEW s \in Seq(Datagrams), NEW i \in DOMAIN s
    PROVE  /\ s[i] \in Datagrams /\ s[i].to \in Int /\ s[i].from \in Int
           /\ s[i].what \in Contents
<1>1. s[i] \in Datagrams
  BY LenProperties, ElementOfSeq
<1> QED BY <1>1 DEF Datagrams

LEMMA Delivered ==
    ASSUME IInv, Deliver
    PROVE  IInv'
<1>1. PICK i \in DOMAIN net : Move(i)
  BY DEF Deliver
<1>2. /\ net \in Seq(Datagrams) /\ inbox \in Seq(Datagrams) /\ net[i] \in Datagrams
  BY ElementTyped DEF IInv, TypeOK, Clients
<1>3. /\ net' \in Seq(Datagrams) /\ Fewer(net, net', net[i])
  BY <1>1, <1>2, FewerWithout DEF Move
<1>4. UNCHANGED <<world, cl, sv>>
  BY DEF Deliver
<1>5. CASE inbox' = inbox
  <2>1. TypeOK'
    BY <1>3, <1>4, <1>5 DEF IInv, TypeOK, Clients
  <2>2. Uncopied => TokenOK(net', inbox', cl, sv.sent)
    BY <1>3, <1>5, TokenFewer DEF IInv
  <2> QED BY <1>4, <2>1, <2>2 DEF IInv, Uncopied
<1>6. CASE inbox' = Append(inbox, net[i])
  <2>1. inbox' \in Seq(Datagrams) /\ More(inbox, inbox', net[i])
    BY <1>2, <1>6, MoreAppended
  <2>2. TypeOK'
    BY <1>3, <1>4, <2>1 DEF IInv, TypeOK, Clients
  <2>3. Uncopied => TokenOK(net', inbox', cl, sv.sent)
    BY <1>3, <2>1, TokenMoved DEF IInv
  <2> QED BY <1>4, <2>2, <2>3 DEF IInv, Uncopied
<1> QED BY <1>1, <1>5, <1>6 DEF Move

LEMMA Lost ==
    ASSUME IInv, Lose
    PROVE  IInv'
<1>1. PICK i \in DOMAIN net : net' = RemoveAt(net, i)
  BY DEF Lose
<1>2. UNCHANGED <<world, inbox, cl, sv>>
  BY DEF Lose
<1>3. net' \in Seq(Datagrams) /\ Fewer(net, net', net[i])
  BY <1>1, FewerWithout DEF IInv, TypeOK, Clients
<1>4. TypeOK'
  BY <1>2, <1>3 DEF IInv, TypeOK, Clients
<1>5. Uncopied => TokenOK(net', inbox', cl, sv.sent)
  BY <1>2, <1>3, TokenFewer DEF IInv
<1> QED BY <1>2, <1>4, <1>5 DEF IInv, Uncopied

(* The one action that is not allowed for InOrder: it keeps only the types. *)
LEMMA Duplicated ==
    ASSUME IInv, Duplicate
    PROVE  IInv'
<1>1. PICK i \in DOMAIN net : net' = Append(net, net[i])
  BY DEF Duplicate
<1>2. UNCHANGED <<world, inbox, cl, sv>> /\ ~Uncopied
  BY DEF Duplicate, Uncopied
<1>3. net' \in Seq(Datagrams)
  BY <1>1, ElementTyped, MoreAppended DEF IInv, TypeOK, Clients
<1> QED BY <1>2, <1>3 DEF IInv, TypeOK, Clients, Uncopied

-----------------------------------------------------------------------------
(* The client.                                                              *)

LEMMA ContentsTyped ==
    /\ Hello \in Contents /\ Over \in Contents /\ Empty \in Contents
    /\ \A n \in Int : Nonce(n) \in Contents
    /\ \A e \in Int : Error(e) \in Contents
    /\ \A c \in Nat, o \in 0 .. 4, p \in Int, n \in Int : Directions(c, o, p, n) \in Contents
BY DEF Contents, Hello, Over, Empty, Nonce, Error, Directions

(* Nothing is under way while the client is not reading.                    *)
LEMMA QuietWhileWorking ==
    ASSUME IInv, Uncopied, cl.at \in Working
    PROVE  Quiet(net) /\ Quiet(inbox)
<1>1. cl.at \notin Reading
  BY DEF Working, Reading
<1> QED BY <1>1 DEF IInv, TokenOK, AllCurrent, Current, Quiet

(* A request goes out, and the client reads.                                *)
LEMMA Sent ==
    ASSUME IInv, NEW what \in Contents, cl.at \in {"first", "send"},
           net' = Append(net, Datagram(cl.remote, cl.local, what)),
           cl' = [cl EXCEPT !.at = "read"], UNCHANGED <<world, inbox, sv>>,
           what.kind \in {"hello", "nonce"},
           what = Hello => cl.at = "first"
    PROVE  IInv'
<1> DEFINE d == Datagram(cl.remote, cl.local, what)
           c == [cl EXCEPT !.at = "read"]
<1>1. net' = Append(net, d) /\ cl' = c /\ UNCHANGED <<world, inbox, sv>>
  OBVIOUS
<1>2. d \in Datagrams /\ d.what = what
  BY DatagramType DEF IInv, TypeOK, Clients
<1>3. net' \in Seq(Datagrams) /\ More(net, net', d)
  BY <1>1, <1>2, MoreAppended DEF IInv, TypeOK, Clients
<1>4. c.at = "read" /\ c.got = cl.got /\ "read" \in Reading
  BY DEF IInv, TypeOK, Clients, Reading, Places
<1>5. TypeOK'
  BY <1>1, <1>3 DEF IInv, TypeOK, Clients, Reading, Places
<1>6. ASSUME Uncopied PROVE TokenOK(net', inbox, c, sv.sent) /\ ClientOK(c, sv.sent)
  <2>1. Quiet(net) /\ Quiet(inbox)
    BY <1>6, QuietWhileWorking DEF Working
  <2>2. ClientOK(cl, sv.sent)
    BY <1>6 DEF IInv
  <2>3. Current(d, c, sv.sent)
    BY <1>2, <1>4, <2>2 DEF Current, ClientOK, IsDirections, IsRequest
  <2>4. ClientOK(c, sv.sent)
    BY <1>4, <2>2 DEF ClientOK
  <2> QED BY <1>3, <2>1, <2>3, <2>4, TokenSent
<1> QED BY <1>1, <1>5, <1>6 DEF IInv, Uncopied

(* A request goes nowhere, and the client reads or fails.                   *)
LEMMA Misdirected ==
    ASSUME IInv, cl.at \in {"first", "send"}, NEW at \in {"read", "failed"},
           cl' = [cl EXCEPT !.at = at], UNCHANGED <<world, net, inbox, sv>>
    PROVE  IInv'
<1> DEFINE c == [cl EXCEPT !.at = at]
<1>1. c.at \in Reading /\ c.got = cl.got /\ c.at \notin Working
  BY DEF IInv, TypeOK, Clients, Reading, Working, Places
<1>2. TypeOK'
  BY <1>1 DEF IInv, TypeOK, Clients, Reading, Places
<1>3. ASSUME Uncopied PROVE TokenOK(net, inbox, c, sv.sent) /\ ClientOK(c, sv.sent)
  <2>1. Quiet(net) /\ Quiet(inbox)
    BY <1>3, QuietWhileWorking DEF Working
  <2>2. ClientOK(c, sv.sent)
    BY <1>1, <1>3 DEF IInv, ClientOK, Working
  <2> QED BY <2>1, <2>2, TokenNone
<1> QED BY <1>2, <1>3 DEF IInv, Uncopied

(* Sending a request, with either outcome.                                  *)
LEMMA SentOr ==
    ASSUME IInv, NEW what \in Contents, Send(what, "read"), cl.at \in {"first", "send"},
           what.kind \in {"hello", "nonce"},
           what = Hello => cl.at = "first"
    PROVE  IInv'
<1>1. CASE net' = Append(net, Datagram(cl.remote, cl.local, what))
           /\ cl' = [cl EXCEPT !.at = "read"]
  BY <1>1, Sent DEF Send
<1>2. CASE (\E at \in {"read", "failed"} : cl' = [cl EXCEPT !.at = at]) /\ UNCHANGED net
  BY <1>2, Misdirected DEF Send
<1> QED BY <1>1, <1>2 DEF Send

LEMMA SentFirst ==
    ASSUME IInv, SendFirst
    PROVE  IInv'
BY SentOr, ContentsTyped DEF SendFirst, Hello

LEMMA SentNonce ==
    ASSUME IInv, SendNonce
    PROVE  IInv'
<1>1. cl.nonce \in Int
  BY DEF IInv, TypeOK, Clients
<1>2. Nonce(cl.nonce) # Hello
  BY DEF Nonce, Hello
<1> QED BY <1>1, <1>2, SentOr, ContentsTyped DEF SendNonce, Nonce

(* The end, one way or another: no chunk is added.                          *)
LEMMA Stopped ==
    ASSUME IInv, Stop
    PROVE  IInv'
<1> DEFINE at == IF Head(inbox).what = Empty THEN "failed" ELSE "printed"
           c == [cl EXCEPT !.at = at]
<1>1. /\ inbox # <<>> /\ inbox' = Tail(inbox) /\ cl' = c
      /\ UNCHANGED <<world, net, sv>>
  BY DEF Stop
<1>2. inbox' \in Seq(Datagrams) /\ Fewer(inbox, inbox', Head(inbox))
  BY <1>1, FewerTail DEF IInv, TypeOK, Clients
<1>3. c.at \in Reading /\ c.got = cl.got /\ c.at \notin Working
  BY DEF IInv, TypeOK, Clients, Reading, Working, Places
<1>4. TypeOK'
  BY <1>1, <1>2 DEF IInv, TypeOK, Clients, Reading, Places
<1>5. ASSUME Uncopied PROVE TokenOK(net, inbox', c, sv.sent) /\ ClientOK(c, sv.sent)
  <2>1. TokenOK(net, inbox', cl, sv.sent)
    BY <1>2, <1>5, TokenFewer DEF IInv
  <2>2. \A d : Current(d, cl, sv.sent) => Current(d, c, sv.sent)
    BY <1>3 DEF Current
  <2>3. TokenOK(net, inbox', c, sv.sent)
    BY <2>1, <2>2 DEF TokenOK, AllCurrent
  <2>4. ClientOK(c, sv.sent)
    BY <1>3, <1>5 DEF IInv, ClientOK, Working
  <2> QED BY <2>3, <2>4
<1> QED BY <1>1, <1>4, <1>5 DEF IInv, Uncopied

LEMMA FollowedOK ==
    ASSUME NEW chunk \in Nat, NEW n \in Int, cl \in Clients
    PROVE  /\ Followed(chunk, n) \in Clients
           /\ Followed(chunk, n).at = "send"
           /\ \A sent \in Nat :
                 /\ \A i \in DOMAIN cl.got : cl.got[i] = i
                 /\ chunk = sent /\ Len(cl.got) + 1 = sent /\ sent <= Chunks
                 => ClientOK(Followed(chunk, n), sent)
<1> DEFINE c == Followed(chunk, n)
<1>1. Plus1(n) \in Int
  BY HuntAssumption DEF Plus1
<1>2. cl.got \in Seq(Nat) /\ Append(cl.got, chunk) \in Seq(Nat)
  BY AppendProperties DEF Clients, Treasures
<1>3. c \in Clients /\ c.at = "send" /\ c.got = Append(cl.got, chunk)
  <2>1. "send" \in Places
    BY PlacesAre
  <2>2. c \in Clients
    <3> DEFINE at == "send"
               got == Append(cl.got, chunk)
               nonce == Plus1(n)
               left == 0
    <3>1. at \in Places /\ got \in Treasures /\ nonce \in Int /\ left \in Int
      BY <1>1, <1>2, <2>1 DEF Treasures
    <3>2. c = [cl EXCEPT !.at = at, !.nonce = nonce, !.got = got, !.left = left]
      BY DEF Followed
    <3> HIDE DEF at, got, nonce, left, c
    <3> QED BY <3>1, <3>2 DEF Clients
  <2>3. c.at = "send" /\ c.got = Append(cl.got, chunk)
    BY DEF Followed, Clients
  <2> QED BY <2>2, <2>3
<1>4. /\ DOMAIN cl.got = 1 .. Len(cl.got) /\ Len(cl.got) \in Nat
      /\ DOMAIN c.got = 1 .. Len(cl.got) + 1 /\ Len(c.got) = Len(cl.got) + 1
      /\ \A i \in 1 .. Len(cl.got) : c.got[i] = cl.got[i]
      /\ c.got[Len(cl.got) + 1] = chunk
  BY <1>2, <1>3, AppendProperties, LenProperties
<1> HIDE DEF c
<1>5. ASSUME NEW sent \in Nat,
             \A i \in DOMAIN cl.got : cl.got[i] = i,
             chunk = sent, Len(cl.got) + 1 = sent, sent <= Chunks
      PROVE  ClientOK(c, sent)
  <2>1. \A i \in DOMAIN c.got : c.got[i] = i
    BY <1>4, <1>5
  <2> QED BY <1>3, <1>4, <1>5, <2>1 DEF ClientOK
<1> QED BY <1>3, <1>5 DEF c

(* The directions are the only token, and when they have been read, or the  *)
(* socket been replaced, nothing is under way.                              *)
LEMMA TokenRead ==
    ASSUME IInv, Uncopied, inbox # <<>>, IsDirections(Head(inbox))
    PROVE  /\ Quiet(net) /\ Quiet(Tail(inbox))
           /\ Head(inbox).what.chunk = sv.sent /\ Len(cl.got) + 1 = sv.sent
<1>1. /\ Fewer(inbox, Tail(inbox), Head(inbox)) /\ Head(inbox) = inbox[1] /\ 1 \in DOMAIN inbox
      /\ Token(Head(inbox))
  BY FewerTail DEF IInv, TypeOK, Token
<1>2. TokenOK(net, inbox, cl, sv.sent)
  BY DEF IInv
<1>3. Current(Head(inbox), cl, sv.sent)
  BY <1>1, <1>2 DEF TokenOK, AllCurrent
<1>4. ~Quiet(inbox)
  BY <1>1 DEF Quiet
<1> QED BY <1>1, <1>2, <1>3, <1>4 DEF TokenOK, Fewer, Current

LEMMA Directed ==
    ASSUME IInv, inbox # <<>>, Head(inbox).what.kind = "directions"
    PROVE  /\ Head(inbox).what.chunk \in Nat /\ Head(inbox).what.op \in 0 .. 4
           /\ Head(inbox).what.param \in Int /\ Head(inbox).what.nonce \in Int
           /\ Tail(inbox) \in Seq(Datagrams)
<1>1. Head(inbox).what \in Contents /\ Tail(inbox) \in Seq(Datagrams)
  BY FewerTail DEF IInv, TypeOK, Datagrams
<1> QED BY <1>1 DEF Contents

LEMMA DirectionsRead ==
    ASSUME IInv, Read
    PROVE  IInv'
<1> DEFINE d == Head(inbox).what
           f == Followed(d.chunk, d.nonce)
<1>1. /\ cl.at = "read" /\ inbox # <<>> /\ d.kind = "directions"
      /\ UNCHANGED <<world, net, sv>>
      /\ Stay(d) \/ NewRemote(d) \/ NewLocal(d) \/ Collect(d)
  BY DEF Read
<1>2. /\ d.chunk \in Nat /\ d.op \in 0 .. 4 /\ d.param \in Int /\ d.nonce \in Int
      /\ Tail(inbox) \in Seq(Datagrams) /\ <<>> \in Seq(Datagrams)
  BY <1>1, Directed, EmptySeq
<1>3. cl \in Clients /\ sv.sent \in Nat
  BY DEF IInv, TypeOK
<1>4. /\ f \in Clients /\ f.at = "send"
      /\ \A sent \in Nat :
            /\ \A i \in DOMAIN cl.got : cl.got[i] = i
            /\ d.chunk = sent /\ Len(cl.got) + 1 = sent /\ sent <= Chunks
            => ClientOK(f, sent)
  BY <1>2, <1>3, FollowedOK
<1>5. ASSUME Uncopied
      PROVE  /\ Quiet(net) /\ Quiet(Tail(inbox)) /\ Quiet(<<>>)
             /\ d.chunk = sv.sent /\ Len(cl.got) + 1 = sv.sent
             /\ ClientOK(cl, sv.sent) /\ ClientOK(f, sv.sent)
  <2>1. /\ Quiet(net) /\ Quiet(Tail(inbox)) /\ d.chunk = sv.sent /\ Len(cl.got) + 1 = sv.sent
        /\ ClientOK(cl, sv.sent)
    BY <1>1, <1>5, TokenRead DEF IsDirections, IInv
  <2>2. Quiet(<<>>)
    BY DEF Quiet
  <2>3. ClientOK(f, sv.sent)
    BY <1>3, <1>4, <2>1 DEF ClientOK
  <2> QED BY <2>1, <2>2, <2>3
<1> HIDE DEF d, f
<1>6. ASSUME NEW c \in Clients, NEW b \in Seq(Datagrams),
             cl' = c, inbox' = b, Uncopied => Quiet(b) /\ ClientOK(c, sv.sent)
      PROVE  IInv'
  <2>1. TypeOK'
    BY <1>1, <1>6 DEF IInv, TypeOK
  <2>2. Uncopied => TokenOK(net, b, c, sv.sent)
    BY <1>5, <1>6, TokenNone
  <2> QED BY <1>1, <1>6, <2>1, <2>2 DEF IInv, Uncopied
<1>7. CASE Stay(d)
  BY <1>2, <1>4, <1>5, <1>6, <1>7 DEF Stay, f
<1>8. CASE NewRemote(d)
  <2>1. inbox' = Tail(inbox)
    BY <1>8 DEF NewRemote
  <2>2. CASE cl' = f
    BY <1>2, <1>4, <1>5, <1>6, <2>1, <2>2
  <2>3. CASE cl' = [f EXCEPT !.remote = d.param, !.list = "valid"]
    <3>1. /\ cl' \in Clients /\ cl'.at = f.at /\ cl'.got = f.got
      BY <1>2, <1>4, <2>3 DEF Clients
    <3>2. ClientOK(f, sv.sent) => ClientOK(cl', sv.sent)
      BY <1>4, <3>1 DEF ClientOK
    <3> QED BY <1>2, <1>5, <1>6, <2>1, <3>1, <3>2
  <2> QED BY <1>8, <2>2, <2>3 DEF NewRemote, f
<1>9. CASE NewLocal(d)
  <2>1. inbox' = <<>>
    BY <1>9 DEF NewLocal
  <2>2. CASE cl' = [cl EXCEPT !.at = "failed"]
    <3>1. /\ cl' \in Clients /\ cl'.at = "failed" /\ cl'.got = cl.got
      BY <1>3, <2>2, PlacesAre DEF Clients
    <3>2. ClientOK(cl, sv.sent) => ClientOK(cl', sv.sent)
      BY <3>1 DEF ClientOK
    <3> QED BY <1>2, <1>5, <1>6, <2>1, <3>1, <3>2
  <2>3. CASE cl' = [f EXCEPT !.local = IF d.param = world.taken THEN Ephemeral ELSE d.param]
    <3> DEFINE port == IF d.param = world.taken THEN Ephemeral ELSE d.param
    <3>0. port \in Int
      BY <1>2 DEF Ephemeral
    <3> HIDE DEF port
    <3>1. cl' \in Clients /\ cl'.at = f.at /\ cl'.got = f.got
      BY <1>4, <2>3, <3>0 DEF Clients, port
    <3>2. ClientOK(f, sv.sent) => ClientOK(cl', sv.sent)
      BY <1>4, <3>1 DEF ClientOK
    <3> QED BY <1>2, <1>5, <1>6, <2>1, <3>1, <3>2
  <2> QED BY <1>9, <2>2, <2>3 DEF NewLocal, f
<1>10. CASE Collect(d)
  <2>1. /\ inbox' = Tail(inbox)
        /\ cl' = [cl EXCEPT !.at = "collect", !.left = d.param, !.chunk = d.chunk, !.nonce = 0]
    BY <1>10 DEF Collect
  <2>2. /\ cl' \in Clients /\ cl'.at = "collect" /\ cl'.got = cl.got /\ cl'.chunk = d.chunk
    <3>1. cl' \in Clients
      <4> DEFINE at == "collect"
                 nonce == 0
      <4>1. at \in Places /\ nonce \in Int
        BY PlacesAre
      <4>2. cl' = [cl EXCEPT !.at = at, !.left = d.param, !.chunk = d.chunk, !.nonce = nonce]
        BY <2>1
      <4> HIDE DEF at, nonce
      <4> QED BY <1>2, <1>3, <4>1, <4>2 DEF Clients
    <3>2. cl'.at = "collect" /\ cl'.got = cl.got /\ cl'.chunk = d.chunk
      BY <1>3, <2>1 DEF Clients
    <3> QED BY <3>1, <3>2
  <2>3. Uncopied => ClientOK(cl', sv.sent)
    BY <1>5, <2>2 DEF ClientOK
  <2> QED BY <1>2, <1>5, <1>6, <2>1, <2>2, <2>3
<1> QED BY <1>1, <1>7, <1>8, <1>9, <1>10

(* Whatever datagram comes is counted; none of them is a token.             *)
LEMMA Received ==
    ASSUME IInv, RecvFrom
    PROVE  IInv'
<1> DEFINE sum == cl.nonce + Head(inbox).from
           f == Followed(cl.chunk, sum)
           g == [cl EXCEPT !.nonce = sum, !.left = @ - 1]
<1>1. /\ cl.at = "collect" /\ inbox # <<>> /\ inbox' = Tail(inbox)
      /\ UNCHANGED <<world, net, sv>>
      /\ cl' = IF cl.left > 1 THEN g ELSE f
  BY DEF RecvFrom
<1>2. /\ Tail(inbox) \in Seq(Datagrams) /\ Fewer(inbox, Tail(inbox), Head(inbox))
      /\ Head(inbox).from \in Int
  BY <1>1, FewerTail DEF IInv, TypeOK, Datagrams
<1>3. cl \in Clients /\ sv.sent \in Nat /\ cl.chunk \in Nat /\ sum \in Int
  BY <1>2 DEF IInv, TypeOK, Clients
<1>4. /\ f \in Clients
      /\ \A sent \in Nat :
            /\ \A i \in DOMAIN cl.got : cl.got[i] = i
            /\ cl.chunk = sent /\ Len(cl.got) + 1 = sent /\ sent <= Chunks
            => ClientOK(f, sent)
  BY <1>3, FollowedOK
<1>5. g \in Clients /\ g.at = cl.at /\ g.got = cl.got /\ g.chunk = cl.chunk
  <2>1. cl.left \in Int /\ cl.left - 1 \in Int
    BY <1>3 DEF Clients
  <2>2. g \in Clients
    BY <1>3, <2>1 DEF Clients
  <2>3. g.at = cl.at /\ g.got = cl.got /\ g.chunk = cl.chunk
    BY <1>3 DEF Clients
  <2> QED BY <2>2, <2>3
<1> HIDE DEF f, g
<1>6. TypeOK'
  BY <1>1, <1>2, <1>4, <1>5 DEF IInv, TypeOK
<1>7. ASSUME Uncopied PROVE TokenOK(net, inbox', cl', sv.sent) /\ ClientOK(cl', sv.sent)
  <2>1. Quiet(net) /\ Quiet(inbox) /\ ClientOK(cl, sv.sent)
    BY <1>1, <1>7, QuietWhileWorking DEF IInv, Working
  <2>2. Quiet(Tail(inbox))
    BY <1>2, <2>1 DEF Fewer, Quiet
  <2>3. ClientOK(f, sv.sent)
    BY <1>1, <1>3, <1>4, <2>1 DEF ClientOK
  <2>4. ClientOK(g, sv.sent)
    BY <1>1, <1>5, <2>1 DEF ClientOK
  <2> QED BY <1>1, <2>1, <2>2, <2>3, <2>4, TokenNone
<1> QED BY <1>1, <1>6, <1>7 DEF IInv, Uncopied

-----------------------------------------------------------------------------
(* The server.                                                              *)

(* A datagram and others that are no tokens.                                *)
LEMMA MoreSeveral ==
    ASSUME NEW s \in Seq(Datagrams), NEW d \in Datagrams, NEW e \in Seq(Datagrams), Quiet(e)
    PROVE  /\ s \o <<d>> \o e \in Seq(Datagrams)
           /\ \A k \in DOMAIN (s \o <<d>> \o e) :
                 \/ ~Token((s \o <<d>> \o e)[k])
                 \/ k \in DOMAIN Append(s, d) /\ (s \o <<d>> \o e)[k] = Append(s, d)[k]
<1> DEFINE a == Append(s, d)
<1>1. a \in Seq(Datagrams)
  BY AppendProperties
<1>2. s \o <<d>> \o e = a \o e
  BY AppendIsConcat
<1> HIDE DEF a
<1>3. /\ a \o e \in Seq(Datagrams)
      /\ \A k \in DOMAIN (a \o e) :
            ~Token((a \o e)[k]) \/ (k \in DOMAIN a /\ (a \o e)[k] = a[k])
  BY <1>1, MoreConcat
<1> QED BY <1>2, <1>3 DEF a

(* The ports and nonces a function ranges over are integers.                *)
LEMMA Widened ==
    ASSUME NEW D, NEW R, R \subseteq Nat, NEW f \in [D -> R]
    PROVE  f \in [D -> Int]
<1>1. f = [k \in D |-> f[k]]
  OBVIOUS
<1>2. \A k \in D : f[k] \in Int
  <2>1. \A r \in R : r \in Int
    OBVIOUS
  <2>2. \A k \in D : f[k] \in R
    OBVIOUS
  <2> QED BY <2>1, <2>2, Zenon
<1> QED BY <1>1, <1>2

(* A request is taken from the network and answered with directions.        *)
LEMMA ServerDirects ==
    ASSUME IInv, NEW i \in DOMAIN net, Directs(RemoveAt(net, i), net[i].from),
           IsRequest(net[i]), net[i].what = Hello \/ sv.sent < Chunks,
           UNCHANGED <<world, inbox, cl>>
    PROVE  IInv'
<1> DEFINE rest == RemoveAt(net, i)
           client == net[i].from
<1>0. /\ rest \in Seq(Datagrams) /\ Fewer(net, rest, net[i]) /\ client \in Int
      /\ sv.port \in Int /\ sv.sent \in Nat
  BY FewerWithout, ElementTyped DEF IInv, TypeOK
<1>1. PICK op \in OpsOf(world.level), p \in Remotes \cup Locals, n \in Nonces :
        /\ op = 3 => p \in Remotes
        /\ \E f \in [1 .. (IF op = 3 THEN p ELSE 0) -> Remotes] :
             /\ net' = rest \o <<Datagram(client, sv.port, Directions(sv.sent + 1, op, p, n))>>
                            \o [k \in DOMAIN f |-> Datagram(client, f[k], Empty)]
             /\ sv' = [port |-> IF op = 1 THEN p ELSE sv.port,
                       client |-> CASE op = 2 -> p [] op = 4 -> OtherFamily [] OTHER -> client,
                       sent |-> sv.sent + 1, nonce |-> Expected(op, f, n)]
  BY DEF Directs
<1> HIDE DEF rest, client
<1>2. op \in 0 .. 4 /\ p \in Int /\ n \in Int
  <2>1. world.level \in 0 .. 4
    BY HuntAssumption DEF IInv, TypeOK
  <2> QED BY <2>1, HuntAssumption DEF OpsOf
<1> DEFINE m == IF op = 3 THEN p ELSE 0
           d == Datagram(client, sv.port, Directions(sv.sent + 1, op, p, n))
           s == Append(rest, d)
<1>3. PICK f \in [1 .. m -> Remotes] :
        /\ net' = rest \o <<d>> \o [k \in DOMAIN f |-> Datagram(client, f[k], Empty)]
        /\ sv' = [port |-> IF op = 1 THEN p ELSE sv.port,
                  client |-> CASE op = 2 -> p [] op = 4 -> OtherFamily [] OTHER -> client,
                  sent |-> sv.sent + 1, nonce |-> Expected(op, f, n)]
  BY <1>1
<1>4. m \in Nat /\ f \in [1 .. m -> Int]
  <2>1. Remotes \subseteq Nat
    BY HuntAssumption
  <2>2. op = 3 => p \in Remotes
    BY <1>1
  <2>3. m \in Nat
    BY <2>1, <2>2
  <2>4. f \in [1 .. m -> Remotes]
    OBVIOUS
  <2> HIDE DEF m
  <2> QED BY <2>1, <2>3, <2>4, Widened
<1>5. /\ net' \in Seq(Datagrams) /\ d.what.kind = "directions" /\ d.what.chunk = sv.sent + 1
      /\ \A k \in DOMAIN net' : ~Token(net'[k]) \/ (k \in DOMAIN s /\ net'[k] = s[k])
      /\ More(rest, s, d)
  <2> DEFINE e == [k \in DOMAIN f |-> Datagram(client, f[k], Empty)]
  <2>1. net' = rest \o <<d>> \o e
    BY <1>3
  <2>2. d \in Datagrams /\ d.what.kind = "directions" /\ d.what.chunk = sv.sent + 1
    <3> DEFINE w == Directions(sv.sent + 1, op, p, n)
    <3>1. sv.sent + 1 \in Nat
      BY <1>0
    <3>2. w \in Contents
      BY <1>2, <3>1, ContentsTyped
    <3>3. w.kind = "directions" /\ w.chunk = sv.sent + 1
      BY DEF Directions
    <3> HIDE DEF w
    <3>4. d \in Datagrams /\ d.what = w
      BY <1>0, <3>2, DatagramType DEF w
    <3> QED BY <3>3, <3>4
  <2>3. e \in Seq(Datagrams) /\ Quiet(e)
    <3> HIDE DEF m
    <3>1. \A k \in 1 .. m : /\ Datagram(client, f[k], Empty) \in Datagrams
                            /\ Datagram(client, f[k], Empty).what = Empty
      BY <1>0, <1>4, ContentsTyped, DatagramType
    <3>2. e \in [1 .. m -> Datagrams] /\ \A k \in 1 .. m : e[k].what = Empty
      BY <1>4, <3>1
    <3>3. e \in Seq(Datagrams)
      BY <1>4, <3>2, SeqDef
    <3> QED BY <3>2, <3>3 DEF Quiet, Token, IsRequest, IsDirections, Empty
  <2> HIDE DEF d, e
  <2>4. More(rest, s, d)
    BY <1>0, <2>2, MoreAppended
  <2>5. /\ net' \in Seq(Datagrams)
        /\ \A k \in DOMAIN net' : ~Token(net'[k]) \/ (k \in DOMAIN s /\ net'[k] = s[k])
    BY <1>0, <2>1, <2>2, <2>3, MoreSeveral
  <2> QED BY <2>2, <2>4, <2>5
<1> HIDE DEF m, d, s
<1>6. sv'.sent = sv.sent + 1 /\ sv'.port \in Int /\ sv'.client \in Int
  BY <1>0, <1>2, <1>3 DEF OtherFamily
<1>7. TypeOK'
  BY <1>0, <1>5, <1>6 DEF IInv, TypeOK
<1>8. ASSUME Uncopied
      PROVE  TokenOK(net', inbox, cl, sv.sent + 1) /\ ClientOK(cl, sv.sent + 1)
  <2>1. TokenOK(net, inbox, cl, sv.sent) /\ ClientOK(cl, sv.sent)
    BY <1>8 DEF IInv
  <2>2. Quiet(rest) /\ Quiet(inbox)
    BY <1>0, <2>1 DEF TokenOK, Fewer, Quiet, Token
  <2>3. Current(net[i], cl, sv.sent)
    BY <2>1 DEF TokenOK, AllCurrent, Token
  <2>4. cl.at \in Reading /\ Len(cl.got) = sv.sent /\ sv.sent < Chunks
    <3>1. cl.got = <<>> => Len(cl.got) = 0
      BY EmptySeq
    <3> QED BY <2>3, <3>1, HuntAssumption DEF Current
  <2>5. Current(d, cl, sv.sent + 1)
    BY <1>5, <2>4 DEF Current, IsRequest, Hello
  <2>6. TokenOK(s, inbox, cl, sv.sent + 1)
    BY <1>5, <2>2, <2>5, TokenSent
  <2>7. TokenOK(net', inbox, cl, sv.sent + 1)
    BY <1>5, <2>2, <2>6 DEF TokenOK, Single, AllCurrent
  <2>8. ClientOK(cl, sv.sent + 1)
    BY <1>0, <2>1, <2>4, HuntAssumption DEF ClientOK, Reading
  <2> QED BY <2>7, <2>8
<1> QED BY <1>6, <1>7, <1>8 DEF IInv, Uncopied

(* A request is taken from the network and dropped, or refused, or answered *)
(* with the news that the hunt is over.                                     *)
LEMMA ServerEnds ==
    ASSUME IInv, NEW i \in DOMAIN net, NEW what \in Contents,
           what.kind \in {"error", "over"},
           \/ net' = RemoveAt(net, i) /\ UNCHANGED sv
           \/ Answer(RemoveAt(net, i), net[i], what),
           UNCHANGED <<world, inbox, cl>>
    PROVE  IInv'
<1> DEFINE rest == RemoveAt(net, i)
           d == Datagram(net[i].from, sv.port, what)
<1>1. rest \in Seq(Datagrams) /\ Fewer(net, rest, net[i])
  BY FewerWithout DEF IInv, TypeOK
<1>2. d \in Datagrams /\ ~Token(d)
  <2>1. net[i].from \in Int /\ sv.port \in Int
    BY ElementTyped DEF IInv, TypeOK
  <2> QED BY <2>1, DatagramType DEF Token, IsRequest, IsDirections
<1>3. Append(rest, d) \in Seq(Datagrams) /\ More(rest, Append(rest, d), d)
  BY <1>1, <1>2, MoreAppended
<1>4. UNCHANGED sv /\ (net' = rest \/ net' = Append(rest, d))
  BY DEF Answer
<1> HIDE DEF rest, d
<1>5. TypeOK'
  BY <1>1, <1>3, <1>4 DEF IInv, TypeOK
<1>6. ASSUME Uncopied PROVE TokenOK(net', inbox, cl, sv.sent)
  <2>1. TokenOK(rest, inbox, cl, sv.sent)
    BY <1>1, <1>6, TokenFewer DEF IInv
  <2>2. TokenOK(Append(rest, d), inbox, cl, sv.sent)
    BY <1>2, <1>3, <2>1 DEF TokenOK, More, Quiet, AllCurrent
  <2> QED BY <1>4, <2>1, <2>2
<1> QED BY <1>4, <1>5, <1>6 DEF IInv, Uncopied

LEMMA ServerGot ==
    ASSUME IInv, ServerGets
    PROVE  IInv'
<1>1. UNCHANGED <<world, inbox, cl>>
  BY DEF ServerGets
<1>2. PICK i \in DOMAIN net :
        LET d == net[i]
            rest == RemoveAt(net, i)
            hello == d.what = Hello
            known == d.from = sv.client
            right == d.what = Nonce(sv.nonce) IN
        \/ net' = rest /\ UNCHANGED sv
        \/ hello /\ Directs(rest, d.from)
        \/ Answer(rest, d, Error(129))
        \/ Answer(rest, d, Error(130))
        \/ Answer(rest, d, Error(131))
        \/ right /\ sv.sent < Chunks /\ Directs(rest, d.from)
        \/ Answer(rest, d, Over)
  BY DEF ServerGets
<1>3. CASE net' = RemoveAt(net, i) /\ UNCHANGED sv
  BY <1>1, <1>3, ServerEnds, ContentsTyped DEF Over
<1>4. ASSUME NEW e \in Int, Answer(RemoveAt(net, i), net[i], Error(e))
      PROVE  IInv'
  BY <1>1, <1>4, ServerEnds, ContentsTyped DEF Error
<1>5. CASE Answer(RemoveAt(net, i), net[i], Over)
  BY <1>1, <1>5, ServerEnds, ContentsTyped DEF Over
<1>6. CASE net[i].what = Hello /\ Directs(RemoveAt(net, i), net[i].from)
  <2>1. IsRequest(net[i])
    BY <1>6 DEF IsRequest, Hello
  <2> QED BY <1>1, <1>6, <2>1, ServerDirects
<1>7. CASE net[i].what = Nonce(sv.nonce) /\ sv.sent < Chunks /\ Directs(RemoveAt(net, i), net[i].from)
  <2>1. IsRequest(net[i])
    BY <1>7 DEF IsRequest, Nonce
  <2> QED BY <1>1, <1>7, <2>1, ServerDirects
<1>8. 129 \in Int /\ 130 \in Int /\ 131 \in Int
  OBVIOUS
<1> QED BY <1>2, <1>3, <1>4, <1>5, <1>6, <1>7, <1>8

-----------------------------------------------------------------------------
(* The theorems.                                                            *)

LEMMA Invariance == Spec => []IInv
<1>1. IInv /\ [Next]_vars => IInv'
  <2> SUFFICES ASSUME IInv, [Next]_vars PROVE IInv'
    OBVIOUS
  <2>1. CASE Deliver \/ Lose \/ Duplicate
    BY <2>1, Delivered, Lost, Duplicated
  <2>2. CASE ServerGets
    BY <2>2, ServerGot
  <2>3. CASE ClientStep
    BY <2>3, SentFirst, SentNonce, Stopped, DirectionsRead, Received DEF ClientStep
  <2>4. CASE UNCHANGED vars
    BY <2>4 DEF vars, IInv, TypeOK, Uncopied
  <2> QED BY <2>1, <2>2, <2>3, <2>4 DEF Next
<1> QED BY <1>1, Established, PTL DEF Spec

(* Whatever the network loses, delays or copies, the client's variables and *)
(* the datagrams keep their types (the buffers of main and their lengths).  *)
THEOREM TypeCorrect == Spec => []TypeOK
<1>1. IInv => TypeOK
  BY DEF IInv
<1> QED BY <1>1, Invariance, PTL

(* Unless an answer is copied, the treasure is at all times a beginning of  *)
(* the server's: the loop of main appends no chunk twice and none out of    *)
(* order, however late datagrams come and however many are lost.            *)
THEOREM CollectedInOrder == Spec => []InOrder
<1>1. IInv => InOrder
  <2> SUFFICES ASSUME IInv, Uncopied PROVE IsPrefix(cl.got, Whole)
    BY DEF InOrder, Uncopied
  <2>1. /\ cl.got \in Seq(Nat) /\ Len(cl.got) \in Nat /\ DOMAIN cl.got = 1 .. Len(cl.got)
        /\ \A i \in DOMAIN cl.got : cl.got[i] = i
        /\ Len(cl.got) <= Chunks
    <3>1. cl.got \in Seq(Nat) /\ sv.sent \in Nat /\ ClientOK(cl, sv.sent)
      BY DEF IInv, TypeOK, Clients, Treasures
    <3>2. Len(cl.got) \in Nat /\ DOMAIN cl.got = 1 .. Len(cl.got)
      BY <3>1, LenProperties
    <3> QED BY <3>1, <3>2, HuntAssumption DEF ClientOK
  <2>2. Whole \in Seq(Nat) /\ Len(Whole) = Chunks /\ \A i \in 1 .. Chunks : Whole[i] = i
    <3>1. Whole \in [1 .. Chunks -> Nat] /\ Chunks \in Nat
      BY HuntAssumption DEF Whole
    <3> QED BY <3>1, SeqDef, LenProperties DEF Whole
  <2> DEFINE k == Len(cl.got)
  <2>3. /\ SubSeq(cl.got, 1, k) \in Seq(Nat) /\ Len(SubSeq(cl.got, 1, k)) = k
        /\ \A i \in 1 .. k : SubSeq(cl.got, 1, k)[i] = i
    BY <2>1, SubSeqProperties
  <2>4. /\ SubSeq(Whole, 1, k) \in Seq(Nat) /\ Len(SubSeq(Whole, 1, k)) = k
        /\ \A i \in 1 .. k : SubSeq(Whole, 1, k)[i] = i
    BY <2>1, <2>2, SubSeqProperties
  <2>5. SubSeq(cl.got, 1, k) = SubSeq(Whole, 1, k)
    BY <2>3, <2>4, SeqEqual
  <2> QED BY <2>1, <2>2, <2>5, HuntAssumption DEF IsPrefix
<1> QED BY <1>1, Invariance, PTL

-----------------------------------------------------------------------------
(* What PrintsWhole rests on besides: an invariant of the states in which   *)
(* the client has not given up, on a network without copies, for a client   *)
(* that can follow the directions.                                          *)
Following == Uncopied /\ world.level # 4 /\ ~world.upper /\ world.taken = 0
Hunting(c) == c.at \in Working \cup {"read"}

(* The number of empty datagrams in s, and the sum of their ports.          *)
Measures == {"number", "ports"}
Value(d, m) == IF d.what # Empty THEN 0 ELSE IF m = "number" THEN 1 ELSE d.from
Weigh(s, m) == SumFunctionOnSet([i \in DOMAIN s |-> Value(s[i], m)], DOMAIN s)
Number(n, b) == Weigh(n, "number") + Weigh(b, "number")
Ports(n, b) == Weigh(n, "ports") + Weigh(b, "ports")

(* There are no more of them than the client waits for, and if it will get  *)
(* them all, their ports make up the nonce.                                 *)
Due(n, b, left, sum, nonce) ==
    /\ Number(n, b) <= left
    /\ Number(n, b) = left => (sum + Ports(n, b) + 1) % Width = nonce

Directing(w, n, b, c, s) ==
    /\ w.op # 4
    /\ w.op = 1 => w.param \in Remotes
    /\ w.op = 2 => w.param \in Locals /\ s.client = w.param
    /\ w.op # 2 => s.client = c.local
    /\ w.op = 3 => Due(n, b, w.param, 0, s.nonce)
    /\ w.op # 3 => Number(n, b) = 0 /\ s.nonce = Plus1(w.nonce)

Asked(d, n, b, c, s) ==
    /\ Number(n, b) = 0 /\ d.from = c.local
    /\ d.what.kind = "hello" => s.client = Anyone
    /\ d.what.kind = "nonce" => s.client = c.local /\ d.what.nonce = s.nonce

(* No error is ever answered, and the news that the hunt is over are true.  *)
Welcome(d, c) ==
    /\ d.what.kind # "error"
    /\ d.what.kind = "over" => Len(c.got) = Chunks

Apart(n, b) ==
    /\ \A i \in DOMAIN n : n[i].to \in 1 .. 9 <=> IsRequest(n[i])
    /\ \A i \in DOMAIN b : ~IsRequest(b[i])

UnderWay(n, b, c, s) ==
    /\ \A i \in DOMAIN n : IsRequest(n[i]) => Asked(n[i], n, b, c, s)
    /\ \A i \in DOMAIN n : IsDirections(n[i]) => Directing(n[i].what, n, b, c, s)
    /\ \A i \in DOMAIN b : IsDirections(b[i]) => Directing(b[i].what, n, b, c, s)

AtWork(n, b, c, s) ==
    /\ c.at = "first" => s.client = Anyone /\ Number(n, b) = 0
    /\ c.at = "send" => s.client = c.local /\ s.nonce = c.nonce /\ Number(n, b) = 0
    /\ c.at = "collect" => s.client = c.local /\ Due(n, b, c.left, c.nonce, s.nonce)

AllIsWell(n, b, c, s) ==
    /\ c.local \in 11 .. 19 /\ c.remote \in 1 .. 9
    /\ \A i \in DOMAIN n : Welcome(n[i], c)
    /\ \A i \in DOMAIN b : Welcome(b[i], c)
    /\ Apart(n, b)
    /\ UnderWay(n, b, c, s)
    /\ AtWork(n, b, c, s)

Found(c) == c.at = "printed" => Len(c.got) = Chunks

WInv == Following => Found(cl) /\ (Hunting(cl) => AllIsWell(net, inbox, cl, sv))

-----------------------------------------------------------------------------
(* The weight of a sequence of datagrams, in empty ones or in their ports.  *)

LEMMA ValueIs ==
    ASSUME NEW d \in Datagrams
    PROVE  /\ Value(d, "number") \in Nat /\ Value(d, "number") <= 1 /\ Value(d, "ports") \in Int
           /\ d.what # Empty => Value(d, "number") = 0 /\ Value(d, "ports") = 0
           /\ d.what = Empty => Value(d, "number") = 1 /\ Value(d, "ports") = d.from
<1>1. d.from \in Int
  BY DEF Datagrams
<1> QED BY <1>1 DEF Value

LEMMA ValueInt ==
    ASSUME NEW s \in Seq(Datagrams), NEW u \in Measures
    PROVE  \A i \in DOMAIN s : Value(s[i], u) \in Int
<1>1. \A i \in DOMAIN s : s[i] \in Datagrams
  BY ElementTyped
<1>2. u = "number" \/ u = "ports"
  BY DEF Measures
<1> QED BY <1>1, <1>2, ValueIs

LEMMA IndicesFinite ==
    ASSUME NEW S, NEW s \in Seq(S)
    PROVE  IsFiniteSet(DOMAIN s) /\ DOMAIN s = 1 .. Len(s) /\ Len(s) \in Nat
BY LenProperties, FS_Interval

LEMMA WeighInt ==
    ASSUME NEW s \in Seq(Datagrams)
    PROVE  Weigh(s, "number") \in Nat /\ Weigh(s, "ports") \in Int
<1> DEFINE f == [i \in DOMAIN s |-> Value(s[i], "number")]
           g == [i \in DOMAIN s |-> Value(s[i], "ports")]
<1>1. \A i \in DOMAIN s : s[i] \in Datagrams
  BY ElementTyped
<1>2. \A i \in DOMAIN s : f[i] \in Nat /\ g[i] \in Int
  BY <1>1, ValueIs
<1> HIDE DEF f, g
<1>3. SumFunctionOnSet(f, DOMAIN s) \in Nat
  BY <1>2, IndicesFinite, SumNatural
<1>4. SumFunctionOnSet(g, DOMAIN s) \in Int
  BY <1>2, IndicesFinite, SumOneMore
<1> QED BY <1>3, <1>4 DEF Weigh, f, g

(* Without the datagram at i.                                               *)
LEMMA WeighTaken ==
    ASSUME NEW s \in Seq(Datagrams), NEW t \in Seq(Datagrams), NEW i \in DOMAIN s,
           Len(t) = Len(s) - 1,
           \A k \in 1 .. Len(s) - 1 : t[k] = s[IF k < i THEN k ELSE k + 1],
           NEW u \in Measures
    PROVE  Weigh(s, u) = Weigh(t, u) + Value(s[i], u)
<1> DEFINE f == [k \in DOMAIN s |-> Value(s[k], u)]
           g == [k \in DOMAIN t |-> Value(t[k], u)]
           h == [k \in DOMAIN t |-> IF k < i THEN k ELSE k + 1]
<1>1. /\ DOMAIN s = 1 .. Len(s) /\ Len(s) \in Nat /\ IsFiniteSet(DOMAIN s)
      /\ DOMAIN t = 1 .. Len(s) - 1 /\ IsFiniteSet(DOMAIN t) /\ i \in 1 .. Len(s)
  BY IndicesFinite
<1>2. \A k \in DOMAIN s : f[k] \in Int
  BY ValueInt
<1>3. (\A k \in DOMAIN t : h[k] \in DOMAIN s) /\ \A k \in DOMAIN t : g[k] = f[h[k]]
  <2>1. \A k \in DOMAIN t : h[k] \in DOMAIN s /\ g[k] = f[h[k]]
    BY <1>1
  <2> HIDE DEF f, g, h
  <2> QED BY <2>1
<1>4. \A k, l \in DOMAIN t : h[k] = h[l] => k = l
  BY <1>1
<1>5. /\ \A k \in DOMAIN t : h[k] \in DOMAIN s \ {i}
      /\ \A j \in DOMAIN s \ {i} : \E k \in DOMAIN t : h[k] = j
  <2>1. ASSUME NEW j \in DOMAIN s \ {i} PROVE \E k \in DOMAIN t : h[k] = j
    <3> DEFINE k == IF j < i THEN j ELSE j - 1
    <3>1. k \in DOMAIN t /\ h[k] = j
      BY <1>1
    <3> QED BY <3>1
  <2>2. \A k \in DOMAIN t : h[k] \in DOMAIN s \ {i}
    BY <1>1
  <2> HIDE DEF h
  <2> QED BY <2>1, <2>2
<1>6. f[i] = Value(s[i], u)
  BY <1>1
<1>7. Weigh(s, u) = SumFunctionOnSet(f, DOMAIN s) /\ Weigh(t, u) = SumFunctionOnSet(g, DOMAIN t)
  BY DEF Weigh
<1> HIDE DEF f, g, h
<1>8. SumFunctionOnSet(g, DOMAIN t) = SumFunctionOnSet(f, DOMAIN s \ {i})
  <2>1. PICK S : S = DOMAIN t
    OBVIOUS
  <2>2. PICK T : T = DOMAIN s
    OBVIOUS
  <2>3. IsFiniteSet(S) /\ IsFiniteSet(T)
    BY <1>1, <2>1, <2>2
  <2>4. (\A k \in S : h[k] \in T) /\ (\A k \in T : f[k] \in Int) /\ \A k \in S : g[k] = f[h[k]]
    BY <1>2, <1>3, <2>1, <2>2
  <2>5. \A k, l \in S : h[k] = h[l] => k = l
    BY <1>4, <2>1
  <2>6. PICK R : R = T \ {i}
    OBVIOUS
  <2>7. IsFiniteSet(R)
    BY <2>3, <2>6, FS_Subset
  <2>8. \A k \in R : f[k] \in Int
    BY <2>4, <2>6
  <2>9. \A k \in S : h[k] \in R
    BY <1>5, <2>1, <2>2, <2>6
  <2>10. \A j \in R : \E k \in S : h[k] = j
    BY <1>5, <2>1, <2>2, <2>6
  <2>11. \A k \in S : g[k] = f[h[k]]
    BY <2>4
  <2>12. IsFiniteSet(S)
    BY <2>3
  <2>13. SumFunctionOnSet(g, S) = SumFunctionOnSet(f, R)
    BY <2>5, <2>7, <2>8, <2>9, <2>10, <2>11, <2>12, SumRenamed, SMTT(60)
  <2> QED BY <2>1, <2>2, <2>6, <2>13
<1>9. SumFunctionOnSet(f, DOMAIN s) = SumFunctionOnSet(f, DOMAIN s \ {i}) + f[i]
  BY <1>1, <1>2, SumWithout
<1> QED BY <1>5, <1>6, <1>7, <1>8, <1>9

LEMMA WeighConcat ==
    ASSUME NEW s \in Seq(Datagrams), NEW e \in Seq(Datagrams), NEW u \in Measures
    PROVE  Weigh(s \o e, u) = Weigh(s, u) + Weigh(e, u)
<1> DEFINE t == s \o e
           f == [k \in DOMAIN s |-> Value(s[k], u)]
           g == [k \in DOMAIN e |-> Value(e[k], u)]
           w == [k \in DOMAIN t |-> Value(t[k], u)]
           h == [k \in DOMAIN e |-> k + Len(s)]
           A == 1 .. Len(s)
           B == Len(s) + 1 .. Len(s) + Len(e)
<1>1. /\ DOMAIN s = 1 .. Len(s) /\ Len(s) \in Nat /\ IsFiniteSet(DOMAIN s)
      /\ DOMAIN e = 1 .. Len(e) /\ Len(e) \in Nat /\ IsFiniteSet(DOMAIN e)
  BY IndicesFinite
<1>2. /\ t \in Seq(Datagrams) /\ DOMAIN t = 1 .. Len(s) + Len(e) /\ IsFiniteSet(DOMAIN t)
      /\ \A k \in 1 .. Len(s) + Len(e) : t[k] = IF k <= Len(s) THEN s[k] ELSE e[k - Len(s)]
  <2>1. t \in Seq(Datagrams) /\ Len(t) = Len(s) + Len(e)
    BY ConcatProperties
  <2>2. \A k \in 1 .. Len(s) + Len(e) : t[k] = IF k <= Len(s) THEN s[k] ELSE e[k - Len(s)]
    BY ConcatProperties
  <2> HIDE DEF t
  <2> QED BY <2>1, <2>2, IndicesFinite
<1> HIDE DEF t
<1>3. A \cup B = DOMAIN t /\ A \cap B = {} /\ IsFiniteSet(A) /\ IsFiniteSet(B)
  <2>1. A \cup B = DOMAIN t /\ A \cap B = {}
    BY <1>1, <1>2
  <2>2. Len(s) + 1 \in Int /\ Len(s) + Len(e) \in Int /\ Len(s) \in Int /\ 1 \in Int
    BY <1>1
  <2>3. IsFiniteSet(A) /\ IsFiniteSet(B)
    BY <2>2, FS_Interval
  <2> QED BY <2>1, <2>3
<1>4. \A k \in DOMAIN t : w[k] \in Int
  BY <1>2, ValueInt
<1>5. \A k \in A : f[k] = w[k] /\ f[k] \in Int
  BY <1>1, <1>2, ValueInt
<1>6. \A k \in DOMAIN e : h[k] \in B /\ g[k] = w[h[k]]
  BY <1>1, <1>2
<1>7. /\ \A k, l \in DOMAIN e : h[k] = h[l] => k = l
      /\ \A j \in B : \E k \in DOMAIN e : h[k] = j
  <2>1. \A k, l \in DOMAIN e : h[k] = h[l] => k = l
    BY <1>1
  <2>2. ASSUME NEW j \in B PROVE \E k \in DOMAIN e : h[k] = j
    <3>1. j - Len(s) \in DOMAIN e /\ h[j - Len(s)] = j
      BY <1>1
    <3> QED BY <3>1
  <2> QED BY <2>1, <2>2
<1>8. /\ Weigh(s, u) = SumFunctionOnSet(f, A) /\ Weigh(e, u) = SumFunctionOnSet(g, DOMAIN e)
      /\ Weigh(t, u) = SumFunctionOnSet(w, DOMAIN t)
  BY <1>1 DEF Weigh
<1> HIDE DEF A, B, f, g, h, w
<1>9. SumFunctionOnSet(w, A \cup B) = SumFunctionOnSet(w, A) + SumFunctionOnSet(w, B)
  BY <1>3, <1>4, SumUnion
<1>10. SumFunctionOnSet(f, A) = SumFunctionOnSet(w, A)
  BY <1>3, <1>5, SumSame
<1>11. SumFunctionOnSet(g, DOMAIN e) = SumFunctionOnSet(w, B)
  <2>1. \A k \in B : w[k] \in Int
    BY <1>3, <1>4
  <2>2. PICK S : S = DOMAIN e
    OBVIOUS
  <2>3. IsFiniteSet(S) /\ IsFiniteSet(B)
    BY <1>1, <1>3, <2>2
  <2>4. (\A k \in S : h[k] \in B) /\ \A k \in S : g[k] = w[h[k]]
    BY <1>6, <2>2
  <2>5. \A k, l \in S : h[k] = h[l] => k = l
    BY <1>7, <2>2
  <2>6. \A j \in B : \E k \in S : h[k] = j
    BY <1>7, <2>2
  <2>7. SumFunctionOnSet(g, S) = SumFunctionOnSet(w, B)
    BY <2>1, <2>3, <2>4, <2>5, <2>6, SumRenamed
  <2> QED BY <2>2, <2>7
<1> QED BY <1>3, <1>7, <1>8, <1>9, <1>10, <1>11 DEF t

LEMMA WeighOne ==
    ASSUME NEW d \in Datagrams, NEW u \in Measures
    PROVE  <<d>> \in Seq(Datagrams) /\ Weigh(<<d>>, u) = Value(d, u)
<1> DEFINE s == <<d>>
           f == [k \in DOMAIN s |-> Value(s[k], u)]
<1>1. s \in Seq(Datagrams) /\ DOMAIN s = {1} /\ s[1] = d
  OBVIOUS
<1>2. f[1] = Value(d, u) /\ \A k \in {1} : f[k] \in Int
  BY <1>1, ValueInt
<1>3. Weigh(s, u) = SumFunctionOnSet(f, {1})
  BY <1>1 DEF Weigh
<1> HIDE DEF f, s
<1>4. SumFunctionOnSet(f, {1}) = SumFunctionOnSet(f, {}) + f[1]
  <2>1. PICK S : S = {1}
    OBVIOUS
  <2>2. PICK T : T = {}
    OBVIOUS
  <2>3. IsFiniteSet(S) /\ (\A k \in S : f[k] \in Int) /\ T \in SUBSET S /\ 1 \in S \ T /\ T \cup {1} = S
    BY <1>2, <2>1, <2>2, FS_Singleton
  <2>4. SumFunctionOnSet(f, T \cup {1}) = SumFunctionOnSet(f, T) + f[1]
    BY <2>3, SumOneMore
  <2> QED BY <2>1, <2>2, <2>3, <2>4
<1>5. Value(d, u) \in Int
  BY <1>2
<1> QED BY <1>1, <1>2, <1>3, <1>4, <1>5, SumEmpty DEF s

LEMMA WeighAppended ==
    ASSUME NEW s \in Seq(Datagrams), NEW d \in Datagrams, NEW u \in Measures
    PROVE  Weigh(Append(s, d), u) = Weigh(s, u) + Value(d, u)
<1>1. <<d>> \in Seq(Datagrams) /\ Weigh(<<d>>, u) = Value(d, u)
  BY WeighOne
<1>2. Append(s, d) = s \o <<d>>
  BY AppendIsConcat
<1>3. Weigh(s \o <<d>>, u) = Weigh(s, u) + Weigh(<<d>>, u)
  BY <1>1, WeighConcat
<1> QED BY <1>1, <1>2, <1>3

LEMMA WeighWithout ==
    ASSUME NEW s \in Seq(Datagrams), NEW i \in DOMAIN s, NEW u \in Measures
    PROVE  Weigh(s, u) = Weigh(RemoveAt(s, i), u) + Value(s[i], u)
<1> DEFINE t == RemoveAt(s, i)
<1>1. /\ t \in Seq(Datagrams) /\ Len(t) = Len(s) - 1
      /\ \A k \in 1 .. Len(s) - 1 : t[k] = s[IF k < i THEN k ELSE k + 1]
  BY Without
<1> HIDE DEF t
<1>2. Weigh(s, u) = Weigh(t, u) + Value(s[i], u)
  BY <1>1, WeighTaken
<1> QED BY <1>2 DEF t

LEMMA WeighTail ==
    ASSUME NEW s \in Seq(Datagrams), s # <<>>, NEW u \in Measures
    PROVE  Weigh(s, u) = Weigh(Tail(s), u) + Value(Head(s), u)
<1> DEFINE t == Tail(s)
<1>1. Len(s) \in Nat /\ Len(s) > 0 /\ DOMAIN s = 1 .. Len(s)
  BY EmptySeq, LenProperties
<1>2. /\ t \in Seq(Datagrams) /\ Len(t) = Len(s) - 1
      /\ \A k \in 1 .. Len(s) - 1 : t[k] = s[k + 1]
  BY <1>1, HeadTailProperties
<1>3. Head(s) = s[1]
  BY FewerTail
<1> HIDE DEF t
<1>4. PICK i \in DOMAIN s : i = 1
  BY <1>1
<1>5. \A k \in 1 .. Len(s) - 1 : t[k] = s[IF k < i THEN k ELSE k + 1]
  BY <1>1, <1>2, <1>4
<1>6. Weigh(s, u) = Weigh(t, u) + Value(s[i], u)
  BY <1>2, <1>5, WeighTaken
<1> QED BY <1>3, <1>4, <1>6 DEF t

(* The empty datagrams that the directions of op code 3 announce.           *)
LEMMA WeighEmpties ==
    ASSUME NEW m \in Nat, NEW f, NEW e \in [1 .. m -> Datagrams],
           \A k \in 1 .. m : e[k].what = Empty /\ e[k].from = f[k]
    PROVE  /\ e \in Seq(Datagrams) /\ Quiet(e)
           /\ Weigh(e, "number") = m /\ Weigh(e, "ports") = SumFunctionOnSet(f, 1 .. m)
<1>1. DOMAIN e = 1 .. m /\ \A k \in 1 .. m : e[k] \in Datagrams
  OBVIOUS
<1>2. \A k \in 1 .. m : e[k].what = Empty /\ e[k].from = f[k] /\ f[k] \in Int
  BY <1>1 DEF Datagrams
<1>3. e \in Seq(Datagrams)
  BY SeqDef
<1>4. Quiet(e)
  BY <1>1, <1>2 DEF Quiet, Token, IsRequest, IsDirections, Empty
<1> DEFINE g == [k \in DOMAIN e |-> Value(e[k], "number")]
           h == [k \in DOMAIN e |-> Value(e[k], "ports")]
<1>5. \A k \in 1 .. m : g[k] = 1 /\ h[k] = f[k] /\ h[k] \in Int
  BY <1>1, <1>2 DEF Value
<1>6. Weigh(e, "number") = SumFunctionOnSet(g, 1 .. m) /\ Weigh(e, "ports") = SumFunctionOnSet(h, 1 .. m)
  BY <1>1 DEF Weigh
<1>7. IsFiniteSet(1 .. m) /\ Cardinality(1 .. m) = m
  BY FS_Interval
<1> HIDE DEF g, h
<1>8. SumFunctionOnSet(g, 1 .. m) = m
  BY <1>5, <1>7, SumOnes
<1>9. SumFunctionOnSet(h, 1 .. m) = SumFunctionOnSet(f, 1 .. m)
  BY <1>5, <1>7, SumSame
<1> QED BY <1>3, <1>4, <1>6, <1>8, <1>9

LEMMA ExpectedIs ==
    ASSUME NEW f, NEW n
    PROVE  Expected(3, f, n) = (SumFunctionOnSet(f, DOMAIN f) + 1) % Width
BY DEF Expected, SumFunctionOnSet, FoldFunction

(* Where there is no empty datagram there are no ports.                     *)
LEMMA NoneWeighs ==
    ASSUME NEW s \in Seq(Datagrams), Weigh(s, "number") <= 0
    PROVE  Weigh(s, "number") = 0 /\ Weigh(s, "ports") = 0
<1>1. Weigh(s, "number") \in Nat
  BY WeighInt
<1>2. ASSUME NEW i \in DOMAIN s, s[i].what = Empty PROVE FALSE
  <2>1. RemoveAt(s, i) \in Seq(Datagrams) /\ s[i] \in Datagrams
    BY FewerWithout, ElementTyped
  <2>2. Weigh(RemoveAt(s, i), "number") \in Nat /\ Value(s[i], "number") = 1
    BY <1>2, <2>1, WeighInt, ValueIs
  <2>3. Weigh(s, "number") = Weigh(RemoveAt(s, i), "number") + Value(s[i], "number")
    BY WeighWithout DEF Measures
  <2> QED BY <1>1, <2>2, <2>3
<1>3. \A i \in DOMAIN s : Value(s[i], "ports") = 0
  BY <1>2 DEF Value
<1>4. Weigh(s, "ports") = 0
  <2> DEFINE f == [i \in DOMAIN s |-> Value(s[i], "ports")]
  <2>1. \A i \in DOMAIN s : f[i] = 0
    BY <1>3
  <2>2. Weigh(s, "ports") = SumFunctionOnSet(f, DOMAIN s)
    BY DEF Weigh
  <2> HIDE DEF f
  <2> QED BY <2>1, <2>2, IndicesFinite, SumZeros
<1> QED BY <1>1, <1>4

-----------------------------------------------------------------------------
(* What keeps AllIsWell.                                                    *)

(* Datagrams under way have been taken away, or none.                       *)
NoMore(n, b, m, a) ==
    /\ Number(m, a) <= Number(n, b)
    /\ Number(m, a) = Number(n, b) => Ports(m, a) = Ports(n, b)

LEMMA NumberIs ==
    ASSUME NEW n \in Seq(Datagrams), NEW b \in Seq(Datagrams)
    PROVE  /\ Number(n, b) \in Nat /\ Ports(n, b) \in Int
           /\ Number(n, b) <= 0 => Number(n, b) = 0 /\ Ports(n, b) = 0
           /\ Number(n, b) <= 0 => Weigh(n, "number") <= 0
<1>1. /\ Weigh(n, "number") \in Nat /\ Weigh(n, "ports") \in Int
      /\ Weigh(b, "number") \in Nat /\ Weigh(b, "ports") \in Int
  BY WeighInt
<1>2. Weigh(n, "number") <= 0 => Weigh(n, "ports") = 0
  BY NoneWeighs
<1>3. Weigh(b, "number") <= 0 => Weigh(b, "ports") = 0
  BY NoneWeighs
<1> QED BY <1>1, <1>2, <1>3 DEF Number, Ports

(* One datagram d has been taken from n and b.                              *)
LEMMA OneTaken ==
    ASSUME NEW n \in Seq(Datagrams), NEW b \in Seq(Datagrams),
           NEW m \in Seq(Datagrams), NEW a \in Seq(Datagrams), NEW d \in Datagrams,
           Number(n, b) = Number(m, a) + Value(d, "number"),
           Ports(n, b) = Ports(m, a) + Value(d, "ports")
    PROVE  NoMore(n, b, m, a)
<1>1. /\ Number(n, b) \in Nat /\ Number(m, a) \in Nat
      /\ Ports(n, b) \in Int /\ Ports(m, a) \in Int
  BY NumberIs
<1>2. /\ Value(d, "number") \in Nat
      /\ d.what # Empty => Value(d, "number") = 0 /\ Value(d, "ports") = 0
      /\ d.what = Empty => Value(d, "number") = 1
  BY ValueIs
<1> QED BY <1>1, <1>2 DEF NoMore

LEMMA DueKept ==
    ASSUME NEW n \in Seq(Datagrams), NEW b \in Seq(Datagrams),
           NEW m \in Seq(Datagrams), NEW a \in Seq(Datagrams),
           NEW left \in Int, NEW sum, NEW nonce,
           Due(n, b, left, sum, nonce), NoMore(n, b, m, a)
    PROVE  Due(m, a, left, sum, nonce)
<1>1. Number(n, b) \in Nat /\ Number(m, a) \in Nat
  BY NumberIs
<1>2. Number(m, a) <= left
  BY <1>1 DEF Due, NoMore
<1>3. Number(m, a) = left => Number(m, a) = Number(n, b)
  BY <1>1 DEF Due, NoMore
<1> QED BY <1>2, <1>3 DEF Due, NoMore

LEMMA DirectingKept ==
    ASSUME NEW n \in Seq(Datagrams), NEW b \in Seq(Datagrams),
           NEW m \in Seq(Datagrams), NEW a \in Seq(Datagrams), NoMore(n, b, m, a),
           NEW d \in Datagrams, IsDirections(d), NEW c, NEW s,
           Directing(d.what, n, b, c, s)
    PROVE  Directing(d.what, m, a, c, s)
<1>1. d.what.param \in Int
  BY DEF Datagrams, Contents, IsDirections
<1>2. Due(n, b, d.what.param, 0, s.nonce) => Due(m, a, d.what.param, 0, s.nonce)
  BY <1>1, DueKept
<1>3. Number(n, b) = 0 => Number(m, a) = 0
  BY NumberIs DEF NoMore
<1> QED BY <1>2, <1>3 DEF Directing

(* Datagrams arrive or are lost.                                            *)
LEMMA AllKept ==
    ASSUME NEW n \in Seq(Datagrams), NEW b \in Seq(Datagrams),
           NEW m \in Seq(Datagrams), NEW a \in Seq(Datagrams), NoMore(n, b, m, a),
           NEW c \in Clients, NEW s, AllIsWell(n, b, c, s),
           \A k \in DOMAIN m : \E j \in DOMAIN n : m[k] = n[j],
           \A k \in DOMAIN a : \/ \E j \in DOMAIN b : a[k] = b[j]
                               \/ ~IsRequest(a[k]) /\ \E j \in DOMAIN n : a[k] = n[j]
    PROVE  AllIsWell(m, a, c, s)
<1>1. /\ \A i \in DOMAIN n : Welcome(n[i], c)
      /\ \A i \in DOMAIN b : Welcome(b[i], c)
      /\ Apart(n, b) /\ UnderWay(n, b, c, s) /\ AtWork(n, b, c, s)
  BY DEF AllIsWell
<1>2. (\A i \in DOMAIN m : Welcome(m[i], c)) /\ \A i \in DOMAIN a : Welcome(a[i], c)
  BY <1>1
<1>3. Apart(m, a)
  BY <1>1 DEF Apart
<1>4. Number(n, b) = 0 => Number(m, a) = 0
  BY NumberIs DEF NoMore
<1>5. UnderWay(m, a, c, s)
  <2>1. ASSUME NEW i \in DOMAIN m, IsRequest(m[i]) PROVE Asked(m[i], m, a, c, s)
    BY <1>1, <1>4, <2>1 DEF UnderWay, Asked
  <2>2. ASSUME NEW i \in DOMAIN m, IsDirections(m[i]) PROVE Directing(m[i].what, m, a, c, s)
    <3>1. m[i] \in Datagrams /\ Directing(m[i].what, n, b, c, s)
      BY <1>1, <2>2, ElementTyped DEF UnderWay
    <3> QED BY <2>2, <3>1, DirectingKept
  <2>3. ASSUME NEW i \in DOMAIN a, IsDirections(a[i]) PROVE Directing(a[i].what, m, a, c, s)
    <3>1. a[i] \in Datagrams /\ Directing(a[i].what, n, b, c, s)
      BY <1>1, <2>3, ElementTyped DEF UnderWay
    <3> QED BY <2>3, <3>1, DirectingKept
  <2> QED BY <2>1, <2>2, <2>3 DEF UnderWay
<1>6. AtWork(m, a, c, s)
  <2>1. c.left \in Int
    BY DEF Clients
  <2>2. Due(n, b, c.left, c.nonce, s.nonce) => Due(m, a, c.left, c.nonce, s.nonce)
    BY <2>1, DueKept
  <2> QED BY <1>1, <1>4, <2>2 DEF AtWork
<1> QED BY <1>2, <1>3, <1>5, <1>6 DEF AllIsWell

-----------------------------------------------------------------------------
(* The network, and PrintsWhole.                                            *)

LEMMA MeasuresAre == "number" \in Measures /\ "ports" \in Measures
BY DEF Measures

(* The datagram at i leaves the network.                                    *)
LEMMA RestIs ==
    ASSUME NEW n \in Seq(Datagrams), NEW b \in Seq(Datagrams), NEW i \in DOMAIN n
    PROVE  /\ RemoveAt(n, i) \in Seq(Datagrams) /\ n[i] \in Datagrams
           /\ NoMore(n, b, RemoveAt(n, i), b)
           /\ \A k \in DOMAIN RemoveAt(n, i) : \E j \in DOMAIN n : RemoveAt(n, i)[k] = n[j]
           /\ Number(n, b) = Number(RemoveAt(n, i), b) + Value(n[i], "number")
           /\ Ports(n, b) = Ports(RemoveAt(n, i), b) + Value(n[i], "ports")
<1> DEFINE m == RemoveAt(n, i)
<1>1. m \in Seq(Datagrams) /\ Fewer(n, m, n[i]) /\ n[i] \in Datagrams
  BY FewerWithout, ElementTyped
<1>2. /\ Weigh(n, "number") = Weigh(m, "number") + Value(n[i], "number")
      /\ Weigh(n, "ports") = Weigh(m, "ports") + Value(n[i], "ports")
  BY WeighWithout, MeasuresAre
<1> HIDE DEF m
<1>3. /\ Weigh(b, "number") \in Nat /\ Weigh(b, "ports") \in Int
      /\ Weigh(m, "number") \in Nat /\ Weigh(m, "ports") \in Int
      /\ Value(n[i], "number") \in Nat /\ Value(n[i], "ports") \in Int
  BY <1>1, WeighInt, ValueIs
<1>4. /\ Number(n, b) = Number(m, b) + Value(n[i], "number")
      /\ Ports(n, b) = Ports(m, b) + Value(n[i], "ports")
  BY <1>2, <1>3 DEF Number, Ports
<1>5. NoMore(n, b, m, b)
  BY <1>1, <1>4, OneTaken
<1> QED BY <1>1, <1>4, <1>5 DEF Fewer, m

(* It reaches the client's socket.                                          *)
LEMMA ArrivedIs ==
    ASSUME NEW n \in Seq(Datagrams), NEW b \in Seq(Datagrams), NEW i \in DOMAIN n
    PROVE  /\ Append(b, n[i]) \in Seq(Datagrams) /\ More(b, Append(b, n[i]), n[i])
           /\ NoMore(n, b, RemoveAt(n, i), Append(b, n[i]))
<1> DEFINE m == RemoveAt(n, i)
           a == Append(b, n[i])
<1>1. /\ m \in Seq(Datagrams) /\ n[i] \in Datagrams
      /\ Number(n, b) = Number(m, b) + Value(n[i], "number")
      /\ Ports(n, b) = Ports(m, b) + Value(n[i], "ports")
  BY RestIs
<1>2. a \in Seq(Datagrams) /\ More(b, a, n[i])
  BY <1>1, MoreAppended
<1>3. /\ Weigh(a, "number") = Weigh(b, "number") + Value(n[i], "number")
      /\ Weigh(a, "ports") = Weigh(b, "ports") + Value(n[i], "ports")
  BY <1>1, WeighAppended, MeasuresAre
<1> HIDE DEF m, a
<1>4. /\ Weigh(b, "number") \in Nat /\ Weigh(b, "ports") \in Int
      /\ Weigh(m, "number") \in Nat /\ Weigh(m, "ports") \in Int
      /\ Value(n[i], "number") \in Nat /\ Value(n[i], "ports") \in Int
  BY <1>1, WeighInt, ValueIs
<1>5. Number(m, a) = Number(n, b) /\ Ports(m, a) = Ports(n, b)
  BY <1>1, <1>3, <1>4 DEF Number, Ports
<1>6. NoMore(n, b, m, a)
  <2>1. Number(n, b) \in Nat
    BY NumberIs
  <2> QED BY <1>5, <2>1 DEF NoMore
<1> QED BY <1>2, <1>6 DEF m, a

Wary == IInv /\ WInv

LEMMA WaryTyped ==
    ASSUME Wary
    PROVE  /\ net \in Seq(Datagrams) /\ inbox \in Seq(Datagrams) /\ cl \in Clients
           /\ Following /\ Hunting(cl) => AllIsWell(net, inbox, cl, sv)
           /\ Following => Found(cl) /\ TokenOK(net, inbox, cl, sv.sent) /\ ClientOK(cl, sv.sent)
BY DEF Wary, IInv, TypeOK, WInv, Following

LEMMA WaryDelivered ==
    ASSUME Wary, Deliver
    PROVE  WInv'
<1>1. PICK i \in DOMAIN net : net[i].to > 9 /\ Move(i)
  BY DEF Deliver
<1>2. UNCHANGED <<world, cl, sv>>
  BY DEF Deliver
<1> SUFFICES ASSUME Following, Hunting(cl) PROVE AllIsWell(net', inbox', cl, sv)
  BY <1>2, WaryTyped DEF WInv, Following, Uncopied
<1>3. /\ net \in Seq(Datagrams) /\ inbox \in Seq(Datagrams) /\ cl \in Clients
      /\ AllIsWell(net, inbox, cl, sv) /\ net[i].to \in Int
  BY WaryTyped, ElementTyped
<1>4. net' = RemoveAt(net, i)
  BY <1>1 DEF Move
<1>5. /\ net' \in Seq(Datagrams) /\ \A k \in DOMAIN net' : \E j \in DOMAIN net : net'[k] = net[j]
  BY <1>3, <1>4, RestIs
<1>6. ~IsRequest(net[i])
  <2>1. ~(net[i].to \in 1 .. 9)
    BY <1>1, <1>3
  <2> QED BY <1>3, <2>1 DEF AllIsWell, Apart
<1>7. /\ inbox' \in Seq(Datagrams) /\ NoMore(net, inbox, net', inbox')
      /\ \A k \in DOMAIN inbox' : inbox'[k] = net[i] \/ \E j \in DOMAIN inbox : inbox'[k] = inbox[j]
  <2>1. CASE inbox' = inbox
    BY <1>3, <1>4, <2>1, RestIs
  <2>2. CASE inbox' = Append(inbox, net[i])
    BY <1>3, <1>4, <2>2, ArrivedIs DEF More
  <2> QED BY <1>1, <2>1, <2>2 DEF Move
<1>8. \A k \in DOMAIN inbox' : \/ \E j \in DOMAIN inbox : inbox'[k] = inbox[j]
                               \/ ~IsRequest(inbox'[k]) /\ \E j \in DOMAIN net : inbox'[k] = net[j]
  BY <1>6, <1>7
<1> QED BY <1>3, <1>5, <1>7, <1>8, AllKept

LEMMA WaryLost ==
    ASSUME Wary, Lose
    PROVE  WInv'
<1>1. PICK i \in DOMAIN net : net' = RemoveAt(net, i)
  BY DEF Lose
<1>2. UNCHANGED <<world, inbox, cl, sv>>
  BY DEF Lose
<1> SUFFICES ASSUME Following, Hunting(cl) PROVE AllIsWell(net', inbox, cl, sv)
  BY <1>2, WaryTyped DEF WInv, Following, Uncopied
<1>3. /\ net \in Seq(Datagrams) /\ inbox \in Seq(Datagrams) /\ cl \in Clients
      /\ AllIsWell(net, inbox, cl, sv)
  BY WaryTyped
<1>4. /\ net' \in Seq(Datagrams) /\ \A k \in DOMAIN net' : \E j \in DOMAIN net : net'[k] = net[j]
      /\ NoMore(net, inbox, net', inbox)
  BY <1>1, <1>3, RestIs
<1> QED BY <1>3, <1>4, AllKept

-----------------------------------------------------------------------------
(* The client, and PrintsWhole.                                             *)

(* A request is sent: it is the only token, and no empty datagram is due.   *)
LEMMA WarySent ==
    ASSUME Wary, NEW what \in Contents, cl.at \in {"first", "send"},
           net' = Append(net, Datagram(cl.remote, cl.local, what)),
           cl' = [cl EXCEPT !.at = "read"], UNCHANGED <<world, inbox, sv>>,
           what.kind \in {"hello", "nonce"},
           what.kind = "hello" => cl.at = "first",
           what.kind = "nonce" => cl.at = "send" /\ what.nonce = cl.nonce
    PROVE  WInv'
<1> DEFINE d == Datagram(cl.remote, cl.local, what)
           c == [cl EXCEPT !.at = "read"]
<1>1. net' = Append(net, d) /\ cl' = c /\ UNCHANGED <<world, inbox, sv>>
  OBVIOUS
<1>2. /\ net \in Seq(Datagrams) /\ inbox \in Seq(Datagrams) /\ cl \in Clients
  BY WaryTyped
<1>3. /\ c.at = "read" /\ c.got = cl.got /\ c.local = cl.local /\ c.remote = cl.remote
      /\ c \in Clients
  BY <1>2, PlacesAre DEF Clients
<1> HIDE DEF c
<1> SUFFICES ASSUME Following PROVE AllIsWell(net', inbox, c, sv)
  BY <1>1, <1>3, WaryTyped DEF WInv, Following, Uncopied, Found
<1>4. AllIsWell(net, inbox, cl, sv) /\ Quiet(net) /\ Quiet(inbox)
  <2>1. Hunting(cl) /\ cl.at \in Working
    BY DEF Hunting, Working
  <2> QED BY <2>1, WaryTyped, QuietWhileWorking DEF Wary, Following
<1>5. /\ d \in Datagrams /\ d.what = what /\ d.to = cl.remote /\ d.from = cl.local
      /\ d.what # Empty /\ IsRequest(d) /\ ~IsDirections(d)
  <2>1. d \in Datagrams /\ d.what = what /\ d.to = cl.remote /\ d.from = cl.local
    BY <1>2, DatagramType DEF Datagram, Clients
  <2> QED BY <2>1 DEF Empty, IsRequest, IsDirections
<1>6. net' \in Seq(Datagrams) /\ \A k \in DOMAIN net' : net'[k] = d \/ \E j \in DOMAIN net : net'[k] = net[j]
  BY <1>1, <1>2, <1>5, MoreAppended DEF More
<1>7. Number(net, inbox) = 0 /\ Number(net', inbox) = 0
  <2>1. Number(net, inbox) = 0
    BY <1>4 DEF AllIsWell, AtWork
  <2>2. Weigh(net', "number") = Weigh(net, "number") + Value(d, "number")
    BY <1>1, <1>2, <1>5, WeighAppended, MeasuresAre
  <2>3. Value(d, "number") = 0 /\ Weigh(net, "number") \in Nat
    BY <1>2, <1>5, WeighInt DEF Value
  <2> QED BY <2>1, <2>2, <2>3 DEF Number
<1> HIDE DEF d
<1>8. /\ cl.local \in 11 .. 19 /\ cl.remote \in 1 .. 9 /\ Apart(net, inbox)
      /\ \A i \in DOMAIN net : Welcome(net[i], cl)
      /\ \A i \in DOMAIN inbox : Welcome(inbox[i], cl)
      /\ AtWork(net, inbox, cl, sv)
  BY <1>4 DEF AllIsWell
<1>9. (\A i \in DOMAIN net' : Welcome(net'[i], c)) /\ \A i \in DOMAIN inbox : Welcome(inbox[i], c)
  <2>1. Welcome(d, c)
    BY <1>5 DEF Welcome
  <2>2. \A e : Welcome(e, cl) => Welcome(e, c)
    BY <1>3 DEF Welcome
  <2> QED BY <1>6, <1>8, <2>1, <2>2
<1>10. Apart(net', inbox)
  BY <1>5, <1>6, <1>8 DEF Apart
<1>11. UnderWay(net', inbox, c, sv)
  <2>1. Asked(d, net', inbox, c, sv)
    BY <1>3, <1>5, <1>7, <1>8 DEF Asked, AtWork
  <2>2. \A i \in DOMAIN net' : Token(net'[i]) => net'[i] = d
    BY <1>4, <1>6 DEF Quiet
  <2> QED BY <1>4, <1>5, <2>1, <2>2 DEF UnderWay, Quiet, Token
<1>12. AtWork(net', inbox, c, sv)
  BY <1>3 DEF AtWork
<1> QED BY <1>3, <1>8, <1>9, <1>10, <1>11, <1>12 DEF AllIsWell

(* Nothing is sent: nothing is under way.                                   *)
LEMMA WaryMisdirected ==
    ASSUME Wary, cl.at \in {"first", "send"}, NEW at \in {"read", "failed"},
           cl' = [cl EXCEPT !.at = at], UNCHANGED <<world, net, inbox, sv>>
    PROVE  WInv'
<1> DEFINE c == [cl EXCEPT !.at = at]
<1>1. cl \in Clients
  BY WaryTyped
<1>2. c.at = at /\ c.got = cl.got /\ c.local = cl.local /\ c.remote = cl.remote
  BY <1>1 DEF Clients
<1> HIDE DEF c
<1> SUFFICES ASSUME Following PROVE AllIsWell(net, inbox, c, sv)
  BY <1>2, WaryTyped DEF WInv, Following, Uncopied, Found, c
<1>3. AllIsWell(net, inbox, cl, sv) /\ Quiet(net) /\ Quiet(inbox)
  <2>1. Hunting(cl) /\ cl.at \in Working
    BY DEF Hunting, Working
  <2> QED BY <2>1, WaryTyped, QuietWhileWorking DEF Wary, Following
<1>4. \A e : Welcome(e, cl) => Welcome(e, c)
  BY <1>2 DEF Welcome
<1>5. UnderWay(net, inbox, c, sv)
  BY <1>3 DEF UnderWay, Quiet, Token
<1>6. AtWork(net, inbox, c, sv)
  BY <1>2 DEF AtWork
<1> QED BY <1>2, <1>3, <1>4, <1>5, <1>6 DEF AllIsWell

LEMMA WarySentOr ==
    ASSUME Wary, NEW what \in Contents, Send(what, "read"), cl.at \in {"first", "send"},
           what.kind \in {"hello", "nonce"},
           what.kind = "hello" => cl.at = "first",
           what.kind = "nonce" => cl.at = "send" /\ what.nonce = cl.nonce
    PROVE  WInv'
<1>1. CASE net' = Append(net, Datagram(cl.remote, cl.local, what))
           /\ cl' = [cl EXCEPT !.at = "read"]
  BY <1>1, WarySent DEF Send
<1>2. CASE (\E at \in {"read", "failed"} : cl' = [cl EXCEPT !.at = at]) /\ UNCHANGED net
  BY <1>2, WaryMisdirected DEF Send
<1> QED BY <1>1, <1>2 DEF Send

LEMMA WarySends ==
    ASSUME Wary, SendFirst \/ SendNonce
    PROVE  WInv'
<1>1. cl.nonce \in Int
  BY WaryTyped DEF Clients
<1>2. CASE SendFirst
  BY <1>2, WarySentOr, ContentsTyped DEF SendFirst, Hello
<1>3. CASE SendNonce
  BY <1>1, <1>3, WarySentOr, ContentsTyped DEF SendNonce, Nonce
<1> QED BY <1>2, <1>3

LEMMA KindIs ==
    ASSUME NEW w \in Contents
    PROVE  /\ w.kind \in {"hello", "over", "empty", "nonce", "error", "directions"}
           /\ w.kind = "hello" => w = Hello
           /\ w.kind = "empty" => w = Empty
           /\ w.kind = "nonce" => w = Nonce(w.nonce) /\ w.nonce \in Int
BY DEF Contents, Hello, Empty, Nonce

(* The first datagram in the client's socket.                               *)
LEMMA HeadIs ==
    ASSUME Wary, inbox # <<>>
    PROVE  /\ Tail(inbox) \in Seq(Datagrams) /\ Head(inbox) \in Datagrams
           /\ Head(inbox) = inbox[1] /\ 1 \in DOMAIN inbox
           /\ \A k \in DOMAIN Tail(inbox) : \E j \in DOMAIN inbox : Tail(inbox)[k] = inbox[j]
           /\ Number(net, inbox) = Number(net, Tail(inbox)) + Value(Head(inbox), "number")
           /\ Ports(net, inbox) = Ports(net, Tail(inbox)) + Value(Head(inbox), "ports")
           /\ NoMore(net, inbox, net, Tail(inbox))
<1>1. net \in Seq(Datagrams) /\ inbox \in Seq(Datagrams)
  BY WaryTyped
<1> DEFINE d == Head(inbox)
           a == Tail(inbox)
<1>2. /\ a \in Seq(Datagrams) /\ Fewer(inbox, a, d) /\ d \in Datagrams
      /\ d = inbox[1] /\ 1 \in DOMAIN inbox
  BY <1>1, FewerTail
<1>3. /\ Weigh(inbox, "number") = Weigh(a, "number") + Value(d, "number")
      /\ Weigh(inbox, "ports") = Weigh(a, "ports") + Value(d, "ports")
  BY <1>1, WeighTail, MeasuresAre
<1> HIDE DEF a, d
<1>4. /\ Weigh(net, "number") \in Nat /\ Weigh(net, "ports") \in Int
      /\ Weigh(a, "number") \in Nat /\ Weigh(a, "ports") \in Int
      /\ Value(d, "number") \in Nat /\ Value(d, "ports") \in Int
  BY <1>1, <1>2, WeighInt, ValueIs
<1>5. /\ Number(net, inbox) = Number(net, a) + Value(d, "number")
      /\ Ports(net, inbox) = Ports(net, a) + Value(d, "ports")
  BY <1>3, <1>4 DEF Number, Ports
<1>6. NoMore(net, inbox, net, a)
  BY <1>1, <1>2, <1>5, OneTaken
<1> QED BY <1>2, <1>5, <1>6 DEF Fewer, a, d

(* What ends the hunt is the news that it is over: no error is in the       *)
(* client's socket, and no request.                                         *)
LEMMA WaryStopped ==
    ASSUME Wary, Stop
    PROVE  WInv'
<1> DEFINE d == Head(inbox)
           c == [cl EXCEPT !.at = IF d.what = Empty THEN "failed" ELSE "printed"]
<1>1. /\ cl.at = "read" /\ inbox # <<>> /\ d.what.kind # "directions" /\ cl' = c
      /\ UNCHANGED <<world, net, sv>>
  BY DEF Stop
<1>2. cl \in Clients /\ inbox \in Seq(Datagrams)
  BY WaryTyped
<1>3. c.at = (IF d.what = Empty THEN "failed" ELSE "printed") /\ c.got = cl.got
  BY <1>2 DEF Clients
<1>4. ~Hunting(c)
  BY <1>3 DEF Hunting, Working
<1>5. ASSUME Following, d.what # Empty PROVE Len(cl.got) = Chunks
  <2>1. AllIsWell(net, inbox, cl, sv)
    BY <1>1, <1>5, WaryTyped DEF Hunting
  <2>2. d \in Datagrams /\ d = inbox[1] /\ 1 \in DOMAIN inbox
    BY <1>1, HeadIs
  <2> HIDE DEF d
  <2>3. Welcome(d, cl) /\ ~IsRequest(d)
    BY <2>1, <2>2 DEF AllIsWell, Apart
  <2>4. d.what \in Contents
    BY <2>2 DEF Datagrams
  <2>5. d.what.kind = "over"
    BY <1>1, <1>5, <2>3, <2>4, KindIs DEF Welcome, IsRequest
  <2> QED BY <2>3, <2>5 DEF Welcome
<1> HIDE DEF c, d
<1>6. Following => Found(c)
  BY <1>3, <1>5 DEF Found
<1> QED BY <1>1, <1>4, <1>6 DEF WInv, Following, Uncopied

(* The client, having read the only token, goes on to its next request.     *)
LEMMA ClientGoesOn ==
    ASSUME Wary, Following, Hunting(cl), Len(cl.got) # Chunks,
           NEW a \in Seq(Datagrams), Quiet(net), Quiet(a),
           \A k \in DOMAIN a : \E j \in DOMAIN inbox : a[k] = inbox[j],
           NEW c, c.local \in 11 .. 19, c.remote \in 1 .. 9, AtWork(net, a, c, sv)
    PROVE  AllIsWell(net, a, c, sv)
<1>1. AllIsWell(net, inbox, cl, sv)
  BY WaryTyped
<1>2. \A e : Welcome(e, cl) => Welcome(e, c)
  BY DEF Welcome
<1>3. (\A i \in DOMAIN net : Welcome(net[i], c)) /\ \A i \in DOMAIN a : Welcome(a[i], c)
  BY <1>1, <1>2 DEF AllIsWell
<1>4. Apart(net, a)
  BY <1>1 DEF AllIsWell, Apart
<1>5. UnderWay(net, a, c, sv)
  BY DEF UnderWay, Quiet, Token
<1> QED BY <1>3, <1>4, <1>5 DEF AllIsWell

LEMMA FollowedIs ==
    ASSUME NEW chunk \in Nat, NEW n \in Int, cl \in Clients
    PROVE  /\ Followed(chunk, n).at = "send" /\ Followed(chunk, n).nonce = Plus1(n)
           /\ Followed(chunk, n).local = cl.local /\ Followed(chunk, n).remote = cl.remote
BY DEF Followed, Clients

LEMMA NothingWeighs == <<>> \in Seq(Datagrams) /\ Weigh(<<>>, "number") = 0
<1> DEFINE f == [i \in {} |-> Value(<<>>[i], "number")]
<1>1. Weigh(<<>>, "number") = SumFunctionOnSet(f, {})
  BY DEF Weigh
<1> QED BY <1>1, SumEmpty

LEMMA WaryDirected ==
    ASSUME Wary, Read
    PROVE  WInv'
<1> DEFINE d == Head(inbox).what
           f == Followed(d.chunk, d.nonce)
           t == Tail(inbox)
<1>1. /\ cl.at = "read" /\ inbox # <<>> /\ d.kind = "directions"
      /\ UNCHANGED <<world, net, sv>>
      /\ Stay(d) \/ NewRemote(d) \/ NewLocal(d) \/ Collect(d)
  BY DEF Read
<1>2. /\ d.chunk \in Nat /\ d.op \in 0 .. 4 /\ d.param \in Int /\ d.nonce \in Int
  BY <1>1, Directed DEF Wary
<1>3. cl \in Clients /\ net \in Seq(Datagrams) /\ inbox \in Seq(Datagrams)
  BY WaryTyped
<1>4. /\ f.at = "send" /\ f.nonce = Plus1(d.nonce)
      /\ f.local = cl.local /\ f.remote = cl.remote
  BY <1>2, <1>3, FollowedIs
<1>5. cl'.at # "printed"
  <2>1. f.at # "printed" /\ [f EXCEPT !.remote = d.param, !.list = "valid"].at = f.at
        /\ \A p : [f EXCEPT !.local = p].at = f.at
    BY <1>4 DEF Followed, Clients
  <2> HIDE DEF f, d
  <2>2. CASE Stay(d) \/ NewRemote(d)
    BY <2>1, <2>2 DEF Stay, NewRemote, f
  <2>3. CASE NewLocal(d)
    <3>1. [cl EXCEPT !.at = "failed"].at # "printed"
      BY <1>3 DEF Clients
    <3> QED BY <2>1, <2>3, <3>1 DEF NewLocal, f
  <2>4. CASE Collect(d)
    BY <1>3, <2>4 DEF Collect, Clients
  <2> QED BY <1>1, <2>2, <2>3, <2>4
<1> SUFFICES ASSUME Following, Hunting(cl') PROVE AllIsWell(net, inbox', cl', sv)
  BY <1>1, <1>5 DEF WInv, Following, Uncopied, Found
<1>6. /\ AllIsWell(net, inbox, cl, sv) /\ Hunting(cl)
      /\ cl.local \in 11 .. 19 /\ cl.remote \in 1 .. 9
  <2>1. Hunting(cl)
    BY <1>1 DEF Hunting
  <2> QED BY <2>1, WaryTyped DEF AllIsWell
<1>7. Directing(d, net, inbox, cl, sv)
  <2>1. Head(inbox) = inbox[1] /\ 1 \in DOMAIN inbox
    BY <1>1, HeadIs
  <2> QED BY <1>1, <1>6, <2>1 DEF AllIsWell, UnderWay, IsDirections
<1>8. Quiet(net) /\ Quiet(t) /\ Quiet(<<>>) /\ Len(cl.got) # Chunks
  <2>1. Quiet(net) /\ Quiet(t) /\ Len(cl.got) + 1 = sv.sent
    BY <1>1, TokenRead DEF Wary, Following, IsDirections
  <2>2. sv.sent <= Chunks /\ Len(cl.got) \in Nat
    BY WaryTyped, LenProperties DEF ClientOK, Clients, Treasures
  <2> QED BY <2>1, <2>2, HuntAssumption DEF Quiet
<1>9. /\ t \in Seq(Datagrams) /\ \A k \in DOMAIN t : \E j \in DOMAIN inbox : t[k] = inbox[j]
      /\ NoMore(net, inbox, net, t)
  BY <1>1, HeadIs
<1>10. Number(net, inbox) = 0 => Number(net, t) = 0 /\ Number(net, <<>>) = 0
  <2>1. Number(net, inbox) = 0 => Number(net, t) = 0
    BY <1>3, <1>9, NumberIs DEF NoMore
  <2>2. Number(net, inbox) = 0 => Weigh(net, "number") = 0
    BY <1>3, NumberIs, NoneWeighs
  <2> QED BY <2>1, <2>2, NothingWeighs DEF Number
<1>11. Opcode(d) = d.op /\ d.op # 4 /\ world.taken = 0
  BY <1>7 DEF Opcode, Following, Directing
<1> HIDE DEF d, f, t
<1>12. CASE Stay(d)
  <2>1. cl' = f /\ inbox' = t /\ d.op \notin {2, 3}
    BY <1>11, <1>12 DEF Stay, f, t, d
  <2>2. AtWork(net, t, f, sv)
    BY <1>4, <1>7, <1>10, <2>1 DEF AtWork, Directing
  <2> QED BY <1>4, <1>6, <1>8, <1>9, <2>1, <2>2, ClientGoesOn
<1>13. CASE NewRemote(d)
  <2>1. inbox' = t /\ d.op = 1 /\ (cl' = f \/ cl' = [f EXCEPT !.remote = d.param, !.list = "valid"])
    BY <1>11, <1>13 DEF NewRemote, f, t, d
  <2>2. AtWork(net, t, f, sv)
    BY <1>4, <1>7, <1>10, <2>1 DEF AtWork, Directing
  <2>3. d.param \in 1 .. 9
    BY <1>7, <2>1, HuntAssumption DEF Directing
  <2>4. CASE cl' = f
    BY <1>4, <1>6, <1>8, <1>9, <2>1, <2>2, <2>4, ClientGoesOn
  <2>5. CASE cl' = [f EXCEPT !.remote = d.param, !.list = "valid"]
    <3>1. /\ cl'.at = f.at /\ cl'.local = f.local /\ cl'.remote = d.param /\ cl'.nonce = f.nonce
      BY <1>3, <2>5 DEF Clients, f, Followed
    <3>2. AtWork(net, t, cl', sv)
      BY <1>4, <2>2, <3>1 DEF AtWork
    <3> QED BY <1>4, <1>6, <1>8, <1>9, <2>1, <2>3, <3>1, <3>2, ClientGoesOn
  <2> QED BY <2>1, <2>4, <2>5
<1>14. CASE NewLocal(d)
  <2>1. d.op = 2 /\ inbox' = <<>>
    BY <1>11, <1>14 DEF NewLocal, d
  <2>2. d.param \in Locals /\ sv.client = d.param /\ d.param \in 11 .. 19 /\ d.param # world.taken
    <3>1. d.param \in Locals /\ sv.client = d.param
      BY <1>7, <2>1 DEF Directing
    <3>2. d.param \in 11 .. 18
      BY <3>1, HuntAssumption
    <3> QED BY <1>11, <3>1, <3>2
  <2>3. cl' = [f EXCEPT !.local = d.param]
    <3>1. [cl EXCEPT !.at = "failed"].at = "failed"
      BY <1>3 DEF Clients
    <3>2. cl' # [cl EXCEPT !.at = "failed"]
      BY <3>1 DEF Hunting, Working
    <3> QED BY <1>14, <2>2, <3>2 DEF NewLocal, f, d
  <2>4. /\ cl'.at = f.at /\ cl'.local = d.param /\ cl'.remote = f.remote /\ cl'.nonce = f.nonce
    BY <1>3, <2>3 DEF Clients, f, Followed
  <2>5. AtWork(net, <<>>, cl', sv)
    BY <1>4, <1>7, <1>10, <2>1, <2>2, <2>4 DEF AtWork, Directing
  <2>6. <<>> \in Seq(Datagrams) /\ \A k \in DOMAIN <<>> : \E j \in DOMAIN inbox : <<>>[k] = inbox[j]
    OBVIOUS
  <2> QED BY <1>4, <1>6, <1>8, <2>1, <2>2, <2>4, <2>5, <2>6, ClientGoesOn
<1>15. CASE Collect(d)
  <2>1. /\ d.op = 3 /\ inbox' = t
        /\ cl' = [cl EXCEPT !.at = "collect", !.left = d.param, !.chunk = d.chunk, !.nonce = 0]
    BY <1>11, <1>15 DEF Collect, d, t
  <2>2. /\ cl'.at = "collect" /\ cl'.left = d.param /\ cl'.nonce = 0
        /\ cl'.local = cl.local /\ cl'.remote = cl.remote
    BY <1>3, <2>1 DEF Clients
  <2>3. Due(net, t, d.param, 0, sv.nonce)
    BY <1>2, <1>3, <1>7, <1>9, <2>1, DueKept DEF Directing, d
  <2>4. AtWork(net, t, cl', sv)
    BY <1>7, <2>1, <2>2, <2>3 DEF AtWork, Directing
  <2> QED BY <1>6, <1>8, <1>9, <2>1, <2>2, <2>4, ClientGoesOn
<1> QED BY <1>1, <1>12, <1>13, <1>14, <1>15 DEF d

(* Only empty datagrams come while the client collects them.  The last of   *)
(* them makes up the nonce of the server.                                   *)
LEMMA WaryReceived ==
    ASSUME Wary, RecvFrom
    PROVE  WInv'
<1> DEFINE d == Head(inbox)
           t == Tail(inbox)
           sum == cl.nonce + d.from
           f == Followed(cl.chunk, sum)
           g == [cl EXCEPT !.nonce = sum, !.left = @ - 1]
<1>1. /\ cl.at = "collect" /\ inbox # <<>> /\ inbox' = t
      /\ UNCHANGED <<world, net, sv>>
      /\ cl' = IF cl.left > 1 THEN g ELSE f
  BY DEF RecvFrom
<1>2. cl \in Clients /\ net \in Seq(Datagrams) /\ inbox \in Seq(Datagrams)
  BY WaryTyped
<1>3. /\ t \in Seq(Datagrams) /\ d \in Datagrams /\ d = inbox[1] /\ 1 \in DOMAIN inbox
      /\ \A k \in DOMAIN t : \E j \in DOMAIN inbox : t[k] = inbox[j]
      /\ Number(net, inbox) = Number(net, t) + Value(d, "number")
      /\ Ports(net, inbox) = Ports(net, t) + Value(d, "ports")
  BY <1>1, HeadIs
<1>4. sum \in Int /\ cl.chunk \in Nat /\ cl.left \in Int /\ cl.nonce \in Int /\ d.from \in Int
  BY <1>2, <1>3 DEF Clients, Datagrams
<1>5. /\ f.at = "send" /\ f.nonce = Plus1(sum) /\ f.local = cl.local /\ f.remote = cl.remote
  BY <1>2, <1>4, FollowedIs
<1>6. /\ g.at = "collect" /\ g.nonce = sum /\ g.left = cl.left - 1
      /\ g.local = cl.local /\ g.remote = cl.remote
  BY <1>1, <1>2 DEF Clients
<1> HIDE DEF f, g
<1> SUFFICES ASSUME Following PROVE AllIsWell(net, t, cl', sv)
  BY <1>1, <1>5, <1>6 DEF WInv, Following, Uncopied, Found
<1>7. /\ AllIsWell(net, inbox, cl, sv) /\ Hunting(cl)
      /\ cl.local \in 11 .. 19 /\ cl.remote \in 1 .. 9
      /\ sv.client = cl.local /\ Due(net, inbox, cl.left, cl.nonce, sv.nonce)
  <2>1. Hunting(cl)
    BY <1>1 DEF Hunting, Working
  <2> QED BY <1>1, <2>1, WaryTyped DEF AllIsWell, AtWork
<1>8. Quiet(net) /\ Quiet(inbox) /\ Quiet(t) /\ Len(cl.got) # Chunks
  <2>1. Quiet(net) /\ Quiet(inbox)
    BY <1>1, QuietWhileWorking DEF Wary, Working, Following
  <2>2. Quiet(t)
    BY <1>3, <2>1 DEF Quiet
  <2>3. Len(cl.got) + 1 = sv.sent /\ sv.sent <= Chunks
    BY <1>1, WaryTyped DEF ClientOK
  <2>4. Len(cl.got) \in Nat
    BY <1>2, LenProperties DEF Clients, Treasures
  <2> QED BY <2>1, <2>2, <2>3, <2>4, HuntAssumption
<1>9. d.what = Empty
  <2> HIDE DEF d
  <2>1. Welcome(d, cl) /\ ~Token(d)
    BY <1>3, <1>7, <1>8 DEF AllIsWell, Quiet
  <2>2. d.what \in Contents
    BY <1>3 DEF Datagrams
  <2> QED BY <1>8, <2>1, <2>2, KindIs DEF Welcome, Token, IsRequest, IsDirections
<1>10. Value(d, "number") = 1 /\ Value(d, "ports") = d.from
  BY <1>9 DEF Value
<1>11. /\ Number(net, t) \in Nat /\ Ports(net, t) \in Int
       /\ Number(net, t) <= 0 => Ports(net, t) = 0
  BY <1>2, <1>3, NumberIs
<1> HIDE DEF d, t, sum
<1>12. CASE cl.left > 1
  <2>1. Due(net, t, cl.left - 1, sum, sv.nonce)
    <3>1. Number(net, t) <= cl.left - 1
      BY <1>3, <1>4, <1>7, <1>10, <1>11 DEF Due
    <3>2. ASSUME Number(net, t) = cl.left - 1
          PROVE  (sum + Ports(net, t) + 1) % Width = sv.nonce
      <4>1. (cl.nonce + Ports(net, inbox) + 1) % Width = sv.nonce
        BY <1>3, <1>4, <1>7, <1>10, <3>2 DEF Due
      <4>2. cl.nonce + Ports(net, inbox) + 1 = sum + Ports(net, t) + 1
        BY <1>3, <1>4, <1>10, <1>11 DEF sum
      <4> QED BY <4>1, <4>2
    <3> QED BY <3>1, <3>2 DEF Due
  <2>2. AtWork(net, t, g, sv)
    BY <1>6, <1>7, <2>1 DEF AtWork
  <2>3. cl' = g
    BY <1>1, <1>12
  <2> QED BY <1>3, <1>6, <1>7, <1>8, <2>2, <2>3, ClientGoesOn
<1>13. CASE ~(cl.left > 1)
  <2>1. Number(net, inbox) = cl.left /\ Number(net, t) = 0 /\ Ports(net, t) = 0
    BY <1>3, <1>4, <1>7, <1>10, <1>11, <1>13 DEF Due
  <2>2. Plus1(sum) = sv.nonce
    <3>1. (cl.nonce + Ports(net, inbox) + 1) % Width = sv.nonce
      BY <1>7, <2>1 DEF Due
    <3>2. cl.nonce + Ports(net, inbox) + 1 = sum + 1
      BY <1>3, <1>4, <1>10, <2>1 DEF sum
    <3> QED BY <3>1, <3>2 DEF Plus1
  <2>3. AtWork(net, t, f, sv)
    BY <1>5, <1>7, <2>1, <2>2 DEF AtWork
  <2>4. cl' = f
    BY <1>1, <1>13
  <2> QED BY <1>3, <1>5, <1>7, <1>8, <2>3, <2>4, ClientGoesOn
<1> QED BY <1>12, <1>13

-----------------------------------------------------------------------------
(* The server, and PrintsWhole.                                             *)

(* A request was the only token: when it has been taken away nothing is     *)
(* under way but the datagrams that say nothing.                            *)
LEMMA RequestTaken ==
    ASSUME Wary, Following, Hunting(cl), NEW i \in DOMAIN net, IsRequest(net[i])
    PROVE  /\ Quiet(RemoveAt(net, i)) /\ Quiet(inbox)
           /\ RemoveAt(net, i) \in Seq(Datagrams)
           /\ \A k \in DOMAIN RemoveAt(net, i) : \E j \in DOMAIN net : RemoveAt(net, i)[k] = net[j]
           /\ Number(RemoveAt(net, i), inbox) = 0 /\ Ports(RemoveAt(net, i), inbox) = 0
           /\ Asked(net[i], net, inbox, cl, sv)
           /\ cl.at = "read" /\ Current(net[i], cl, sv.sent)
<1> DEFINE m == RemoveAt(net, i)
<1>1. /\ net \in Seq(Datagrams) /\ inbox \in Seq(Datagrams)
      /\ AllIsWell(net, inbox, cl, sv) /\ TokenOK(net, inbox, cl, sv.sent)
  BY WaryTyped
<1>2. Token(net[i]) /\ Fewer(net, m, net[i])
  BY <1>1, FewerWithout DEF Token
<1>3. Quiet(m) /\ Quiet(inbox) /\ Current(net[i], cl, sv.sent)
  BY <1>1, <1>2 DEF TokenOK, Fewer, Quiet, AllCurrent
<1>4. m \in Seq(Datagrams) /\ NoMore(net, inbox, m, inbox)
      /\ \A k \in DOMAIN m : \E j \in DOMAIN net : m[k] = net[j]
  BY <1>1, RestIs
<1>5. Asked(net[i], net, inbox, cl, sv)
  BY <1>1 DEF AllIsWell, UnderWay
<1> HIDE DEF m
<1>6. Number(m, inbox) = 0 /\ Ports(m, inbox) = 0
  BY <1>1, <1>4, <1>5, NumberIs DEF Asked, NoMore
<1>7. cl.at = "read"
  BY <1>3 DEF Current, Reading, Hunting, Working
<1> QED BY <1>3, <1>4, <1>5, <1>6, <1>7 DEF m

(* The datagram at i is dropped.                                            *)
LEMMA WaryDropped ==
    ASSUME Wary, NEW i \in DOMAIN net, net' = RemoveAt(net, i),
           UNCHANGED <<world, inbox, cl, sv>>
    PROVE  WInv'
<1> SUFFICES ASSUME Following, Hunting(cl) PROVE AllIsWell(net', inbox, cl, sv)
  BY WaryTyped DEF WInv, Following, Uncopied
<1>1. /\ net \in Seq(Datagrams) /\ inbox \in Seq(Datagrams) /\ cl \in Clients
      /\ AllIsWell(net, inbox, cl, sv)
  BY WaryTyped
<1>2. /\ net' \in Seq(Datagrams) /\ \A k \in DOMAIN net' : \E j \in DOMAIN net : net'[k] = net[j]
      /\ NoMore(net, inbox, net', inbox)
  BY <1>1, RestIs
<1> QED BY <1>1, <1>2, AllKept

(* The server has sent all the chunks, and the client has them.             *)
LEMMA WaryOver ==
    ASSUME Wary, Following, Hunting(cl), NEW i \in DOMAIN net, IsRequest(net[i]),
           Len(cl.got) = Chunks, Answer(RemoveAt(net, i), net[i], Over)
    PROVE  AllIsWell(net', inbox, cl, sv)
<1> DEFINE m == RemoveAt(net, i)
           d == Datagram(net[i].from, sv.port, Over)
<1>1. /\ net \in Seq(Datagrams) /\ inbox \in Seq(Datagrams) /\ net[i] \in Datagrams
      /\ net[i].from \in Int /\ sv.port \in Int
  BY WaryTyped, ElementTyped DEF Wary, IInv, TypeOK
<1>2. /\ Quiet(m) /\ Quiet(inbox) /\ m \in Seq(Datagrams)
      /\ \A k \in DOMAIN m : \E j \in DOMAIN net : m[k] = net[j]
      /\ net[i].from = cl.local /\ cl.at = "read"
  BY RequestTaken DEF Asked
<1>3. /\ cl.local \in 11 .. 19 /\ cl.remote \in 1 .. 9 /\ Apart(net, inbox)
      /\ \A k \in DOMAIN net : Welcome(net[k], cl)
      /\ \A k \in DOMAIN inbox : Welcome(inbox[k], cl)
  BY WaryTyped DEF AllIsWell
<1>4. d \in Datagrams /\ d.what = Over /\ d.to \in 11 .. 19 /\ ~Token(d)
  <2>1. d \in Datagrams /\ d.what = Over
    BY <1>1, DatagramType, ContentsTyped
  <2>2. d.to \in 11 .. 19
    BY <1>2, <1>3 DEF Datagram
  <2> HIDE DEF d
  <2> QED BY <2>1, <2>2 DEF Token, IsRequest, IsDirections, Over
<1>5. net' = Append(m, d)
  BY DEF Answer
<1> HIDE DEF m, d
<1>6. \A k \in DOMAIN net' : net'[k] = d \/ \E j \in DOMAIN m : net'[k] = m[j]
  BY <1>2, <1>4, <1>5, MoreAppended DEF More
<1>7. \A k \in DOMAIN net' : net'[k] = d \/ (~Token(net'[k]) /\ \E j \in DOMAIN net : net'[k] = net[j])
  BY <1>2, <1>6 DEF Quiet
<1>8. Welcome(d, cl)
  BY <1>4 DEF Welcome, Over
<1>9. \A k \in DOMAIN net' : Welcome(net'[k], cl)
  BY <1>3, <1>7, <1>8
<1>10. Apart(net', inbox)
  BY <1>3, <1>4, <1>7 DEF Apart, Token
<1>11. UnderWay(net', inbox, cl, sv)
  BY <1>2, <1>4, <1>7 DEF UnderWay, Quiet, Token
<1>12. AtWork(net', inbox, cl, sv)
  BY <1>2 DEF AtWork
<1> QED BY <1>3, <1>9, <1>10, <1>11, <1>12 DEF AllIsWell

(* A good request is answered with directions, and with the empty datagrams *)
(* they announce, whose ports make up the next nonce.                       *)
LEMMA WaryDirects ==
    ASSUME Wary, Following, Hunting(cl), NEW i \in DOMAIN net, IsRequest(net[i]),
           Directs(RemoveAt(net, i), net[i].from), Len(cl.got) # Chunks
    PROVE  AllIsWell(net', inbox, cl, sv')
<1> DEFINE rest == RemoveAt(net, i)
           client == net[i].from
<1>1. /\ net \in Seq(Datagrams) /\ inbox \in Seq(Datagrams) /\ net[i] \in Datagrams
      /\ sv.port \in Int /\ sv.sent \in Nat
  BY WaryTyped, ElementTyped DEF Wary, IInv, TypeOK
<1>2. /\ Quiet(rest) /\ Quiet(inbox) /\ rest \in Seq(Datagrams)
      /\ \A k \in DOMAIN rest : \E j \in DOMAIN net : rest[k] = net[j]
      /\ Number(rest, inbox) = 0 /\ Ports(rest, inbox) = 0
      /\ client = cl.local /\ cl.at = "read"
  BY RequestTaken DEF Asked
<1>3. /\ cl.local \in 11 .. 19 /\ cl.remote \in 1 .. 9 /\ Apart(net, inbox)
      /\ \A k \in DOMAIN net : Welcome(net[k], cl)
      /\ \A k \in DOMAIN inbox : Welcome(inbox[k], cl)
  BY WaryTyped DEF AllIsWell
<1>4. PICK op \in OpsOf(world.level), p \in Remotes \cup Locals, n \in Nonces :
        /\ op \in {1, 3} => p \in Remotes
        /\ op = 2 => p \in Locals
        /\ \E f \in [1 .. (IF op = 3 THEN p ELSE 0) -> Remotes] :
             /\ net' = rest \o <<Datagram(client, sv.port, Directions(sv.sent + 1, op, p, n))>>
                            \o [k \in DOMAIN f |-> Datagram(client, f[k], Empty)]
             /\ sv' = [port |-> IF op = 1 THEN p ELSE sv.port,
                       client |-> CASE op = 2 -> p [] op = 4 -> OtherFamily [] OTHER -> client,
                       sent |-> sv.sent + 1, nonce |-> Expected(op, f, n)]
  BY DEF Directs
<1> HIDE DEF rest, client
<1>5. op \in 0 .. 3 /\ p \in Int /\ n \in Int
  <2>1. world.level \in 0 .. 3
    <3>1. world.level \in 0 .. 4 /\ world.level # 4
      BY HuntAssumption DEF Following, Wary, IInv, TypeOK
    <3> QED BY <3>1
  <2> QED BY <2>1, HuntAssumption DEF OpsOf
<1> DEFINE m == IF op = 3 THEN p ELSE 0
           w == Directions(sv.sent + 1, op, p, n)
           d == Datagram(client, sv.port, w)
<1>6. PICK f \in [1 .. m -> Remotes] :
        /\ net' = rest \o <<d>> \o [k \in DOMAIN f |-> Datagram(client, f[k], Empty)]
        /\ sv' = [port |-> IF op = 1 THEN p ELSE sv.port,
                  client |-> CASE op = 2 -> p [] op = 4 -> OtherFamily [] OTHER -> client,
                  sent |-> sv.sent + 1, nonce |-> Expected(op, f, n)]
  BY <1>4
<1> DEFINE e == [k \in DOMAIN f |-> Datagram(client, f[k], Empty)]
<1>7. m \in Nat /\ f \in [1 .. m -> Int]
  <2>1. Remotes \subseteq Nat
    BY HuntAssumption
  <2>2. m \in Nat
    BY <1>4, <2>1
  <2>3. f \in [1 .. m -> Remotes]
    OBVIOUS
  <2> HIDE DEF m
  <2> QED BY <2>1, <2>2, <2>3, Widened
<1>8. client \in Int /\ client \in 11 .. 19
  BY <1>2, <1>3
<1>9. /\ e \in Seq(Datagrams) /\ Quiet(e)
      /\ Weigh(e, "number") = m /\ Weigh(e, "ports") = SumFunctionOnSet(f, DOMAIN f)
  <2> HIDE DEF m
  <2>1. DOMAIN f = 1 .. m /\ \A k \in 1 .. m : f[k] \in Int
    BY <1>7
  <2>2. ASSUME NEW q \in Int
        PROVE  /\ Datagram(client, q, Empty) \in Datagrams
               /\ Datagram(client, q, Empty).what = Empty
               /\ Datagram(client, q, Empty).from = q
    BY <1>8, <2>2, ContentsTyped, DatagramType DEF Datagram
  <2>3. e \in [1 .. m -> Datagrams] /\ \A k \in 1 .. m : e[k].what = Empty /\ e[k].from = f[k]
    BY <2>1, <2>2
  <2> HIDE DEF e
  <2> QED BY <1>7, <2>1, <2>3, WeighEmpties
<1>10. \A k \in DOMAIN e : e[k].what = Empty /\ e[k].to = client
  BY DEF Datagram
<1>11. w \in Contents /\ w.kind = "directions" /\ w.op = op /\ w.param = p /\ w.nonce = n
  <2>1. sv.sent + 1 \in Nat /\ op \in 0 .. 4
    BY <1>1, <1>5
  <2> QED BY <1>5, <2>1, ContentsTyped DEF Directions
<1>12. /\ sv'.client = (IF op = 2 THEN p ELSE client) /\ sv'.nonce = Expected(op, f, n)
  BY <1>5, <1>6
<1>13. net' = rest \o <<d>> \o e
  BY <1>6
<1> HIDE DEF w
<1>14. /\ d \in Datagrams /\ d.what = w /\ d.to = client /\ d.what # Empty
       /\ IsDirections(d) /\ ~IsRequest(d) /\ Welcome(d, cl)
  <2>1. d \in Datagrams /\ d.what = w
    BY <1>1, <1>8, <1>11, DatagramType
  <2>2. d.to = client
    BY DEF Datagram
  <2> HIDE DEF d
  <2> QED BY <1>11, <2>1, <2>2 DEF Empty, IsDirections, IsRequest, Welcome
<1> HIDE DEF d, e
<1>15. /\ net' \in Seq(Datagrams)
       /\ Weigh(net', "number") = Weigh(rest, "number") + Value(d, "number") + Weigh(e, "number")
       /\ Weigh(net', "ports") = Weigh(rest, "ports") + Value(d, "ports") + Weigh(e, "ports")
       /\ \A k \in DOMAIN net' : \/ net'[k] = d
                                 \/ \E j \in DOMAIN rest : net'[k] = rest[j]
                                 \/ \E j \in DOMAIN e : net'[k] = e[j]
  <2> DEFINE s == Append(rest, d)
  <2>1. s \in Seq(Datagrams) /\ \A k \in DOMAIN s : s[k] = d \/ \E j \in DOMAIN rest : s[k] = rest[j]
    BY <1>2, <1>14, MoreAppended DEF More
  <2>2. /\ Weigh(s, "number") = Weigh(rest, "number") + Value(d, "number")
        /\ Weigh(s, "ports") = Weigh(rest, "ports") + Value(d, "ports")
    BY <1>2, <1>14, WeighAppended, MeasuresAre
  <2>3. net' = s \o e
    BY <1>2, <1>13, <1>14, AppendIsConcat
  <2> HIDE DEF s
  <2>4. net' \in Seq(Datagrams) /\ \A k \in DOMAIN net' : \/ \E j \in DOMAIN s : net'[k] = s[j]
                                                         \/ \E j \in DOMAIN e : net'[k] = e[j]
    <3>1. /\ DOMAIN s = 1 .. Len(s) /\ DOMAIN e = 1 .. Len(e) /\ Len(s) \in Nat /\ Len(e) \in Nat
      BY <1>9, <2>1, LenProperties
    <3>2. /\ net' \in Seq(Datagrams) /\ Len(net') = Len(s) + Len(e)
          /\ \A k \in 1 .. Len(s) + Len(e) : net'[k] = IF k <= Len(s) THEN s[k] ELSE e[k - Len(s)]
      BY <1>9, <2>1, <2>3, ConcatProperties
    <3>3. DOMAIN net' = 1 .. Len(s) + Len(e)
      BY <3>2, LenProperties
    <3>4. ASSUME NEW k \in DOMAIN net'
          PROVE  (\E j \in DOMAIN s : net'[k] = s[j]) \/ \E j \in DOMAIN e : net'[k] = e[j]
      <4>1. CASE k <= Len(s)
        BY <3>1, <3>2, <3>3, <4>1
      <4>2. CASE ~(k <= Len(s))
        <5>1. k - Len(s) \in DOMAIN e /\ net'[k] = e[k - Len(s)]
          BY <3>1, <3>2, <3>3, <4>2
        <5> QED BY <5>1
      <4> QED BY <4>1, <4>2
    <3> QED BY <3>2, <3>4
  <2>5. /\ Weigh(net', "number") = Weigh(s, "number") + Weigh(e, "number")
        /\ Weigh(net', "ports") = Weigh(s, "ports") + Weigh(e, "ports")
    BY <1>9, <2>1, <2>3, WeighConcat, MeasuresAre
  <2> QED BY <2>1, <2>2, <2>4, <2>5
<1>16. Number(net', inbox) = m /\ Ports(net', inbox) = SumFunctionOnSet(f, DOMAIN f)
  <2>1. Value(d, "number") = 0 /\ Value(d, "ports") = 0
    BY <1>14 DEF Value
  <2>2. /\ Weigh(rest, "number") \in Nat /\ Weigh(inbox, "number") \in Nat
        /\ Weigh(rest, "ports") \in Int /\ Weigh(inbox, "ports") \in Int
        /\ Weigh(e, "ports") \in Int
    BY <1>1, <1>2, <1>9, WeighInt
  <2>3. /\ Weigh(rest, "number") + Weigh(inbox, "number") = 0
        /\ Weigh(rest, "ports") + Weigh(inbox, "ports") = 0
    BY <1>2 DEF Number, Ports
  <2>4. m \in Nat /\ Weigh(e, "number") = m
    BY <1>7, <1>9
  <2> HIDE DEF m
  <2>5. \A x, y, z \in Int : x + y = 0 => (x + 0 + z) + y = z
    OBVIOUS
  <2>6. Weigh(net', "number") + Weigh(inbox, "number") = m
    <3>1. Weigh(net', "number") = Weigh(rest, "number") + 0 + m
      BY <1>15, <2>1, <2>4
    <3>2. Weigh(rest, "number") \in Int /\ Weigh(inbox, "number") \in Int /\ m \in Int
      BY <2>2, <2>4
    <3>3. (Weigh(rest, "number") + 0 + m) + Weigh(inbox, "number") = m
      BY <2>3, <2>5, <3>2
    <3> QED BY <3>1, <3>3
  <2>7. Weigh(net', "ports") + Weigh(inbox, "ports") = Weigh(e, "ports")
    <3>1. Weigh(net', "ports") = Weigh(rest, "ports") + 0 + Weigh(e, "ports")
      BY <1>15, <2>1
    <3>2. (Weigh(rest, "ports") + 0 + Weigh(e, "ports")) + Weigh(inbox, "ports") = Weigh(e, "ports")
      BY <2>2, <2>3, <2>5
    <3> QED BY <3>1, <3>2
  <2> QED BY <1>9, <2>6, <2>7 DEF Number, Ports
<1>17. Directing(w, net', inbox, cl, sv')
  <2>1. w.op = 1 => w.param \in Remotes
    BY <1>4, <1>11
  <2>2. w.op = 2 => w.param \in Locals /\ sv'.client = w.param
    BY <1>4, <1>11, <1>12
  <2>3. w.op # 2 => sv'.client = cl.local
    BY <1>2, <1>11, <1>12
  <2>4. w.op = 3 => Due(net', inbox, w.param, 0, sv'.nonce)
    <3>1. ASSUME op = 3 PROVE Due(net', inbox, p, 0, sv'.nonce)
      <4>1. Number(net', inbox) = p
        BY <1>16, <3>1
      <4>2. sv'.nonce = (0 + Ports(net', inbox) + 1) % Width
        <5>1. Ports(net', inbox) \in Int
          BY <1>1, <1>15, NumberIs
        <5>2. 0 + Ports(net', inbox) + 1 = SumFunctionOnSet(f, DOMAIN f) + 1
          BY <1>16, <5>1
        <5> QED BY <1>12, <3>1, <5>2, ExpectedIs
      <4> QED BY <1>5, <4>1, <4>2 DEF Due
    <3> QED BY <1>11, <3>1
  <2>5. w.op # 3 => Number(net', inbox) = 0 /\ sv'.nonce = Plus1(w.nonce)
    BY <1>11, <1>12, <1>16 DEF Expected, Plus1
  <2>6. w.op # 4
    BY <1>5, <1>11
  <2> QED BY <2>1, <2>2, <2>3, <2>4, <2>5, <2>6 DEF Directing
<1> HIDE DEF m
<1>18. \A k \in DOMAIN net' :
          \/ net'[k] = d
          \/ ~Token(net'[k]) /\ \E j \in DOMAIN net : net'[k] = net[j]
          \/ ~Token(net'[k]) /\ net'[k].what = Empty /\ net'[k].to = client
  BY <1>2, <1>9, <1>10, <1>15 DEF Quiet
<1>19. \A k \in DOMAIN net' : Welcome(net'[k], cl)
  BY <1>3, <1>14, <1>18 DEF Welcome, Empty
<1>20. Apart(net', inbox)
  <2>1. ~(client \in 1 .. 9)
    BY <1>8
  <2> QED BY <1>3, <1>14, <1>18, <2>1 DEF Apart, Token
<1>21. UnderWay(net', inbox, cl, sv')
  BY <1>2, <1>14, <1>17, <1>18 DEF UnderWay, Quiet, Token
<1>22. AtWork(net', inbox, cl, sv')
  BY <1>2 DEF AtWork
<1> QED BY <1>3, <1>19, <1>20, <1>21, <1>22 DEF AllIsWell

(* The server never answers with an error: it knows who asks, and the nonce *)
(* is the one it expects.                                                   *)
LEMMA WaryServed ==
    ASSUME Wary, ServerGets
    PROVE  WInv'
<1>1. UNCHANGED <<world, inbox, cl>>
  BY DEF ServerGets
<1>2. PICK i \in DOMAIN net :
        LET d == net[i]
            rest == RemoveAt(net, i)
            hello == d.what = Hello
            known == d.from = sv.client
            right == d.what = Nonce(sv.nonce) IN
        /\ d.to \in 1 .. 9
        /\ \/ d.to # sv.port /\ net' = rest /\ UNCHANGED sv
           \/ /\ d.to = sv.port
              /\ \/ hello /\ sv.client = Anyone /\ Directs(rest, d.from)
                 \/ sv.client # Anyone /\ ~known /\ Answer(rest, d, Error(129))
                 \/ known /\ hello /\ Answer(rest, d, Error(130))
                 \/ known /\ ~hello /\ ~right /\ Answer(rest, d, Error(131))
                 \/ known /\ right /\ sv.sent < Chunks /\ Directs(rest, d.from)
                 \/ known /\ right /\ sv.sent = Chunks /\ Answer(rest, d, Over)
  BY DEF ServerGets
<1> DEFINE d == net[i]
           rest == RemoveAt(net, i)
<1>3. CASE net' = rest /\ UNCHANGED sv
  BY <1>1, <1>3, WaryDropped
<1>4. CASE ~(net' = rest /\ UNCHANGED sv)
  <2> SUFFICES ASSUME Following, Hunting(cl) PROVE AllIsWell(net', inbox, cl, sv')
    BY <1>1, WaryTyped DEF WInv, Following, Uncopied
  <2>1. AllIsWell(net, inbox, cl, sv) /\ cl.local \in 11 .. 19 /\ d.what \in Contents
    BY WaryTyped, ElementTyped DEF AllIsWell
  <2>2. IsRequest(d)
    BY <1>2, <2>1 DEF AllIsWell, Apart
  <2>3. Asked(d, net, inbox, cl, sv) /\ Current(d, cl, sv.sent)
    BY <2>2, RequestTaken
  <2>4. \/ d.what = Hello /\ sv.client = Anyone
        \/ d.what = Nonce(sv.nonce) /\ sv.client = d.from /\ sv.client # Anyone
    <3>1. d.what.kind = "hello" \/ d.what.kind = "nonce"
      BY <2>2 DEF IsRequest
    <3>2. sv.client = cl.local => sv.client # Anyone
      BY <2>1 DEF Anyone
    <3> QED BY <2>1, <2>3, <3>1, <3>2, KindIs DEF Asked
  <2>5. d.from # Anyone
    BY <2>1, <2>3 DEF Asked, Anyone
  <2>6. Hello # Nonce(sv.nonce)
    BY DEF Hello, Nonce
  <2>7. Len(cl.got) = sv.sent
    BY <2>2, <2>3 DEF Current
  <2>8. CASE d.what = Hello /\ sv.client = Anyone
    <3>1. Directs(rest, d.from)
      BY <1>2, <1>4, <2>5, <2>6, <2>8
    <3>2. Len(cl.got) # Chunks
      <4>1. cl.got = <<>>
        BY <2>3, <2>8 DEF Current
      <4> QED BY <4>1, HuntAssumption
    <3> QED BY <2>2, <3>1, <3>2, WaryDirects
  <2>9. CASE d.what = Nonce(sv.nonce) /\ sv.client = d.from /\ sv.client # Anyone
    <3>1. \/ sv.sent < Chunks /\ Directs(rest, d.from)
          \/ sv.sent = Chunks /\ Answer(rest, d, Over)
      BY <1>2, <1>4, <2>6, <2>9
    <3>2. CASE sv.sent < Chunks /\ Directs(rest, d.from)
      <4>1. Len(cl.got) # Chunks
        BY <2>7, <3>2, HuntAssumption DEF Wary, IInv, TypeOK
      <4> QED BY <2>2, <3>2, <4>1, WaryDirects
    <3>3. CASE sv.sent = Chunks /\ Answer(rest, d, Over)
      <4>1. AllIsWell(net', inbox, cl, sv) /\ sv' = sv
        BY <2>2, <2>7, <3>3, WaryOver DEF Answer
      <4> QED BY <4>1
    <3> QED BY <3>1, <3>2, <3>3
  <2> QED BY <2>4, <2>8, <2>9
<1> QED BY <1>3, <1>4

(* A network that copies is not considered.                                 *)
LEMMA WaryCopied ==
    ASSUME Duplicate
    PROVE  WInv'
BY DEF Duplicate, WInv, Following, Uncopied

LEMMA WaryAtFirst == Init => WInv
<1> SUFFICES ASSUME Init PROVE WInv
  OBVIOUS
<1>1. PICK p \in Remotes :
         /\ cl = [at |-> "first", local |-> Ephemeral, remote |-> p, list |-> "freed",
                  chunk |-> 0, got |-> <<>>, nonce |-> 0, left |-> 0]
         /\ sv = [port |-> p, client |-> Anyone, sent |-> 0, nonce |-> 0]
  BY DEF Init
<1>2. cl.local \in 11 .. 19 /\ cl.remote \in 1 .. 9 /\ cl.at = "first" /\ sv.client = Anyone
  BY <1>1, HuntAssumption DEF Ephemeral
<1>3. net = <<>> /\ inbox = <<>>
  BY DEF Init
<1>4. Number(net, inbox) = 0
  BY <1>3, NothingWeighs DEF Number
<1>5. AllIsWell(net, inbox, cl, sv)
  BY <1>2, <1>3, <1>4 DEF AllIsWell, Apart, UnderWay, AtWork
<1>6. Found(cl)
  BY <1>2 DEF Found
<1> QED BY <1>5, <1>6 DEF WInv

(* Where the client can follow the directions and no datagram is copied, it *)
(* prints the whole treasure or nothing: what main takes for the end is the *)
(* server's word for it, at every level and whatever is lost or late.       *)
THEOREM PrintedWhole == Spec => []PrintsWhole
<1>1. Init => Wary
  BY Established, WaryAtFirst DEF Wary
<1>2. Wary /\ [Next]_vars => WInv'
  <2> SUFFICES ASSUME Wary, [Next]_vars PROVE WInv'
    OBVIOUS
  <2>1. CASE Deliver \/ Lose \/ Duplicate
    BY <2>1, WaryDelivered, WaryLost, WaryCopied
  <2>2. CASE ServerGets
    BY <2>2, WaryServed
  <2>3. CASE ClientStep
    BY <2>3, WarySends, WaryStopped, WaryDirected, WaryReceived DEF ClientStep
  <2>4. CASE UNCHANGED vars
    BY <2>4 DEF vars, Wary, WInv, Following, Uncopied
  <2> QED BY <2>1, <2>2, <2>3, <2>4 DEF Next
<1>3. Wary => PrintsWhole
  <2> SUFFICES ASSUME Wary, Following, cl.at = "printed" PROVE cl.got = Whole
    BY DEF PrintsWhole, Following, Uncopied
  <2>1. Len(cl.got) = Chunks /\ cl.got \in Seq(Nat) /\ \A i \in DOMAIN cl.got : cl.got[i] = i
    BY WaryTyped DEF Found, ClientOK, Clients, Treasures
  <2>2. DOMAIN cl.got = 1 .. Chunks
    BY <2>1, LenProperties
  <2>3. cl.got = [i \in 1 .. Chunks |-> cl.got[i]]
    BY <2>1, <2>2, LenProperties
  <2> QED BY <2>1, <2>2, <2>3 DEF Whole
<1> QED BY <1>1, <1>2, <1>3, Invariance, PTL DEF Spec, Wary
=============================================================================
