------------------------------ MODULE MCNamespace ------------------------------
(* Model-checking instance of Namespace: the root and three inodes, names *)
(* of at most two characters over {a, .}, and paths that go through the  *)
(* working directory, the root, a subdirectory, "." and "..", a trailing  *)
(* slash, a doubled slash and a name that is too long.                    *)
EXTENDS Namespace

MCNoVnode == -1

MCPaths ==
    { <<>>,
      <<"a">>, <<"a", "a">>, <<"/", "a", "/">>, <<"a", "/", "a">>,
      <<"a", "/", "/", ".">>, <<".", ".">>, <<"/">>, <<"a", "a", "a">> }
\* every path of up to four characters over {/, a, .}
MCCheckPaths == UNION {[1..n -> {"/", "a", "."}] : n \in 0..4}
=============================================================================
