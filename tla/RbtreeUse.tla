----------------------------- MODULE RbtreeUse -----------------------------
(***************************************************************************)
(* A tree of mps_rbtree.c and those that use it: they link and unlink      *)
(* nodes in any order.                                                     *)
(***************************************************************************)
EXTENDS MpsRbtree

CONSTANT Uses   \* what may be linked, and how: [insert, node, key, name]

ASSUME UsesAssumption ==
    \A u \in Uses :
        /\ u.insert \in InsertType
        /\ u.node \notin {Sentinel, Null}
        /\ u.key \in 0 .. 2 * HalfRange - 1
        /\ u.name \in Seq(Nat)

VARIABLE tree

Init == \E type \in InsertType : tree = RbInit(type)

Link(u) ==
    /\ u.insert = tree.insert /\ u.node \notin Linked(tree)
    /\ u.insert = "TIMER" => Near({u.key} \cup {tree.key[x] : x \in Linked(tree)})
    /\ tree' = Grown(tree, u)

Unlink(x) == tree' = WithoutNode(RbDelete(tree, x), x)

Next ==
    \/ \E u \in Uses : Link(u)
    \/ \E x \in Linked(tree) : Unlink(x)

Spec == Init /\ [][Next]_tree

-----------------------------------------------------------------------------

\* After any sequence of mps_rbtree_insert and mps_rbtree_delete the links make
\* a tree of the linked nodes, sorted by the comparison of its insert type.
SearchTree == IsTree(tree) /\ IsOrdered(tree)

\* The loops restore the red-black rules after every insert and delete, so that
\* no lookup takes more than about twice the logarithm of the number of nodes.
Balanced == IsBalanced(tree)

\* mps_rbtree_next enumerates the nodes, whatever is left in the root's parent.
NextEnumerates == NextInOrder(tree)

\* The nodes that stay keep their order, and a new one comes after its equals:
\* timers of one time fire in the order in which they were set.
EqualsStayInOrder ==
    [][\A old \in {InOrder(tree)}, new \in {InOrder(tree')} :
       \A j \in DOMAIN new : \A i \in 1 .. j - 1 :
            IF new[i] \in Linked(tree)
            THEN new[j] \in Linked(tree) => Seat(old, new[i]) < Seat(old, new[j])
            ELSE Before(tree', new[i], new[j])]_tree
=============================================================================
