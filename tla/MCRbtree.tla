------------------------------ MODULE MCRbtree ------------------------------
(***************************************************************************)
(* A tree of each insert type, whose users link and unlink nodes in any    *)
(* order: from an empty tree, from the tree of nine nodes that             *)
(* src/test/main.c builds, or from one that ten nodes in order have made   *)
(* deep enough for the loop of mps_rbtree_delete to climb more than once.  *)
(***************************************************************************)
EXTENDS RbtreeUse

\* Two nodes of STANDARD share a key.  Timers go past the largest key.  The
\* names of nodes with one hash are prefixes of one another, or differ.
UseOf(type, x) ==
    [insert |-> type, node |-> x,
     key |-> CASE type = "STANDARD" -> x \div 2
               [] type = "TIMER"    -> (x + 2 * HalfRange - 3) % (2 * HalfRange)
               [] type = "LUADICT"  -> x \div 4,
     name |-> <<<<1>>, <<1, 1>>, <<1, 2>>, <<2>>>>[(x % 4) + 1]]

\* Bounds: the nodes that are linked from the empty tree.
MCUses ==
    {UseOf("STANDARD", x) : x \in 0 .. 6}
        \cup {UseOf(type, x) : type \in {"TIMER", "LUADICT"}, x \in 0 .. 4}

\* Bounds: larger trees, whose nodes beyond those are unlinked, not linked again.
TestOrder == <<1, 3, 9, 7, 8, 4, 5, 2, 6>>
Ascending == <<0, 1, 2, 3, 4, 5, 6, 7, 8, 9>>

Planted(t, x) == Grown(t, UseOf("STANDARD", x))

MCInit ==
    \/ Init
    \/ \E order \in {TestOrder, Ascending} :
          tree = FoldLeft(Planted, RbInit("STANDARD"), order)

\* Only the trees that grew from the empty one grow further.
MCNext ==
    \/ /\ Linked(tree) \subseteq {u.node : u \in Uses}
       /\ \E u \in Uses : Link(u)
    \/ \E x \in Linked(tree) : Unlink(x)

MCSpec == MCInit /\ [][MCNext]_tree
=============================================================================
