------------------------------- MODULE MCTsh -------------------------------
(* Instances of Tsh for TLC: what the user types.                            *)
EXTENDS Tsh

Tokens == {"cat", "file", "<", ">", "|", "&"}
Programs == {"echo", "cat", "yes", "intgroup"}
LinesOf(S, n) == UNION {[1 .. k -> S] : k \in 0 .. n}

(* Every line of up to four tokens, ...                                      *)
ShortLines == {<<l>> : l \in LinesOf(Tokens, 4)}
(* ... every pipeline of two or three programs, ...                          *)
Pipe2 == {<<a, "|", b>> : a, b \in Programs}
Pipe3 == {<<a, "|", b, "|", c>> : a, b, c \in Programs}
(* ... and a background job before a foreground one.                         *)
TwoLines == {<<<<a, "&">>, l>> : a \in Programs, l \in Pipe2}
            \cup {<<<<a, "|", b, "&">>, <<c>>, <<"quit">>>> : a, b \in Programs, c \in {"echo"}}
Pipelines == {<<l>> : l \in Pipe2 \cup Pipe3}

AllScripts == ShortLines \cup Pipelines \cup TwoLines
EchoInt == {<<<<"echo", "|", "intgroup">>>>}
Files == {"file"}
=============================================================================
