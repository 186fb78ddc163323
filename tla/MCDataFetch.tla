---------------------------- MODULE MCDataFetch ----------------------------
(***************************************************************************)
(* DataFetch with the shapes of config[] and the answers that matter: whole*)
(* and cut bodies, with and without a last newline, a line longer than the *)
(* buffer, no Content-Length, errors.                                      *)
(***************************************************************************)
EXTENDS DataFetch

MCProviders ==
    {[named |-> FALSE, paths |-> Requests],         \* aws
     [named |-> FALSE, paths |-> {"sshkey"}],       \* oci, tencent, aliyun
     [named |-> TRUE, paths |-> Requests]}          \* equinix

Answer(s, l, b, a, e) == [status |-> s, length |-> l, body |-> b, arrives |-> a, end |-> e]

TwoLines == <<"x", NL, "y">>
LongLine == <<"x", "x", "y", "y", NL>>

MCResponses ==
    {Answer("ok", "exact", TwoLines, 3, "open"),
     Answer("ok", "exact", <<"x", NL>>, 2, "closed"),
     Answer("ok", "exact", <<>>, 0, "open"),
     Answer("ok", "exact", TwoLines, 2, "closed"),
     Answer("ok", "exact", TwoLines, 2, "reset"),
     Answer("ok", "exact", LongLine, 5, "closed"),
     Answer("ok", "missing", TwoLines, 3, "open"),
     Answer("error", "exact", <<"x">>, 1, "open"),
     Answer("lost", "missing", <<>>, 0, "closed")}
=============================================================================
