---------------------------- MODULE MCSharedIndex ----------------------------
(* Small instances of SharedIndex. *)
EXTENDS SharedIndex

\* Two names of one hash, one a prefix of the other; one of another hash; and one
\* that is too long.
MCKey == {<<1>>, <<1, 1>>, <<2>>, <<1, 1, 1, 1>>}
MCHash == [k \in MCKey |-> IF k = <<2>> THEN 0 ELSE 1]
=============================================================================
