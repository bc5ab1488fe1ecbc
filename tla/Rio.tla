-------------------------------- MODULE Rio --------------------------------
(***************************************************************************)
(* Reading lines with the Rio package of csapp.c.  A reader is what rio_t  *)
(* holds back, buf, and the bytes of the line under way, user.  Between    *)
(* two calls of read(2) everything is local, so one step is a refill and   *)
(* all that is copied from it.  Nothing here interrupts a read.            *)
(***************************************************************************)
EXTENDS Integers, SequencesExt

CONSTANTS
    NL,             \* the byte, or bytes, that end a line
    RioBuf,         \* size of rio_buf
    MaxLine         \* size of the caller's buffer: a line has one byte less

ASSUME RioAssumption == RioBuf \in Nat \ {0} /\ MaxLine \in Nat \ {0, 1}

rio_readinitb == [buf |-> <<>>, user |-> <<>>]

LineRead(r) == Len(r.user) = MaxLine - 1 \/ (r.user # <<>> /\ Last(r.user) = NL)
NeedsRead(r) == r.buf = <<>> /\ ~LineRead(r)

(* read(2) returned the bytes s.                                            *)
Refilled(r, s) == [r EXCEPT !.buf = s]

(* Mutant: rio_buf starts afresh with every line.                           *)
Copied_DropsRest(r) ==
    LET ends == {i \in DOMAIN r.buf : r.buf[i] = NL}
        n == Min(ends \cup {Len(r.buf), MaxLine - 1 - Len(r.user)}) IN
    [buf |-> <<>>,
     user |-> r.user \o SubSeq(r.buf, 1, n)]

(* rio_readlineb's loop: bytes up to the end of the line, of the caller's   *)
(* buffer or of rio_buf, whichever is first.                                *)
Copied(r) ==
    LET ends == {i \in DOMAIN r.buf : r.buf[i] = NL}
        n == Min(ends \cup {Len(r.buf), MaxLine - 1 - Len(r.user)}) IN
    [buf |-> SubSeq(r.buf, n + 1, Len(r.buf)),
     user |-> r.user \o SubSeq(r.buf, 1, n)]

(* The line has been returned, and the next call begins.                    *)
Returned(r) == [r EXCEPT !.user = <<>>]
=============================================================================
