------------------------------ MODULE MCShdict ------------------------------
(***************************************************************************)
(* Small instances of Shdict.                                              *)
(*                                                                         *)
(* The pool has two or three pages.  A "small" block is half a page, a     *)
(* "big" one a page, or two with LoopSpan; a long string needs a big       *)
(* entry.  The root takes half of page 0, so two pages hold at most three  *)
(* small entries, or one small and one big (no big one with LoopSpan):     *)
(* every larger demand evicts.  With PageRoot it takes all of page 0, and  *)
(* three pages hold four small entries and list nodes, or two big ones.    *)
(***************************************************************************)
EXTENDS Shdict

CONSTANTS k1, k2, k3, k4

MCClass == {"small", "big"}
MCSpan == [c \in MCClass |-> 1]
LoopSpan == [c \in MCClass |-> IF c = "small" THEN 1 ELSE 2]
MCPerPage == [c \in MCClass |-> IF c = "small" THEN 2 ELSE 1]
MCRoot == [lo |-> 0, class |-> "small", idx |-> 0]
PageRoot == [lo |-> 0, class |-> "big", idx |-> 0]

Bool == [type |-> "boolean", len |-> 1, data |-> 1]
Num == [type |-> "number", len |-> 8, data |-> 1]
Word == [type |-> "string", len |-> 8, data |-> 0]
Long == [type |-> "string", len |-> 20, data |-> 0]

SmallUpTo8(L) == [n \in L |-> IF n <= 8 THEN "small" ELSE "big"]

ScalarValues == {Word, Long}
OneWord == {Word}
ListValues == {Num, Long}
BoolLong == {Bool, Long}
MCTime == 2 .. 4
LaterTime == 2 .. 8

MCNodeClass == SmallUpTo8({1, 8, 20})

StoreApi == StoreOps \cup {"flush_all"}
ListApi == PushOps \cup PopOps \cup {"set", "set_expire", "llen"}
FlushApi == {"set", "flush_all", "set_expire"}
TtlApi == {"set", "get_ttl"}
NumberApi ==
    {"incr", "set", "set_expire", "get", "get_ttl", "flush_all", "rpush"}

Keys2 == {k1, k2}
Keys3 == {k1, k2, k3}
Keys4 == {k1, k2, k3, k4}
Symmetry == Permutations(Key)
=============================================================================
