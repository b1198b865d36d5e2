---------------------------- MODULE RbtreeProofs ----------------------------
(***************************************************************************)
(* Trees of mps_rbtree.c, for any number of nodes, any keys and names and  *)
(* any order of insertions and removals: they stay red-black search trees, *)
(* which mps_rbtree_next enumerates, and equals stay in order.             *)
(***************************************************************************)
EXTENDS RbtreeUse, RbtreeLemmas

\* The inductive invariant: whatever is linked and unlinked, in any order.
TreeInvariant == TreeInv(tree)

LEMMA TreeInit == Init => TreeInvariant
BY EmptyTree DEF Init, TreeInvariant

LEMMA TreeStep ==
  ASSUME TreeInvariant, Next
  PROVE  TreeInvariant' /\ OrderKept(tree, tree')
<1>1. ASSUME NEW u \in Uses, Link(u)
      PROVE  TreeInvariant' /\ OrderKept(tree, tree')
  <2>1. Usable(tree, u)
    BY <1>1, UsesAssumption DEF Link, Usable
  <2>2. tree' = Grown(tree, u)
    BY <1>1 DEF Link
  <2>3. TreeInv(tree') /\ OrderKept(tree, tree')
    BY <2>1, <2>2, GrownTree DEF TreeInvariant
  <2> QED  BY <2>3 DEF TreeInvariant
<1>2. ASSUME NEW x \in Linked(tree), Unlink(x)
      PROVE  TreeInvariant' /\ OrderKept(tree, tree')
  <2>1. tree' = WithoutNode(RbDelete(tree, x), x)
    BY <1>2 DEF Unlink
  <2>2. TreeInv(tree') /\ OrderKept(tree, tree')
    BY <2>1, ShrunkTree DEF TreeInvariant
  <2> QED  BY <2>2 DEF TreeInvariant
<1> QED  BY <1>1, <1>2 DEF Next

\* mps_rbtree_insert and mps_rbtree_delete, in any order, keep the links a
\* red-black search tree of the nodes that are linked.
THEOREM TreeAlways == Spec => []TreeInvariant
<1>1. TreeInvariant /\ UNCHANGED tree => TreeInvariant'
  BY DEF TreeInvariant
<1>2. TreeInvariant /\ [Next]_tree => TreeInvariant'
  BY <1>1, TreeStep
<1> QED  BY <1>2, TreeInit, PTL DEF Spec

\* The links form a tree of exactly the linked nodes, in the order of the
\* comparison that the insert type names, after any calls.
THEOREM SearchTreeAlways == Spec => []SearchTree
<1>1. TreeInvariant => SearchTree
  BY TreeMeans DEF TreeInvariant, SearchTree
<1> QED  BY <1>1, TreeAlways, PTL

\* The loops of mps_rbtree_insert and mps_rbtree_delete leave no red node with a
\* red child and as many black nodes on every way down.
THEOREM BalancedAlways == Spec => []Balanced
<1>1. TreeInvariant => Balanced
  BY TreeMeans DEF TreeInvariant, Balanced
<1> QED  BY <1>1, TreeAlways, PTL

\* mps_rbtree_next meets every node once and in order, and ends at the last one,
\* whatever mps_rbtree_delete left in the root's parent.
THEOREM NextEnumeratesAlways == Spec => []NextEnumerates
<1>1. TreeInvariant => NextEnumerates
  BY TreeMeans DEF TreeInvariant, NextEnumerates
<1> QED  BY <1>1, TreeAlways, PTL

\* No insert and no delete changes the order of the nodes that stay, and a node
\* that mps_rbtree_insert links comes after those it is equal to.
THEOREM EqualsKeepOrder == Spec => EqualsStayInOrder
<1> DEFINE Kept == OrderKept(tree, tree')
<1>1. TreeInvariant /\ [Next]_tree => [Kept]_tree
  BY TreeStep
<1>2. Kept => \A old \in {InOrder(tree)}, new \in {InOrder(tree')} :
       \A j \in DOMAIN new : \A i \in 1 .. j - 1 :
            IF new[i] \in Linked(tree)
            THEN new[j] \in Linked(tree) => Seat(old, new[i]) < Seat(old, new[j])
            ELSE Before(tree', new[i], new[j])
  BY DEF OrderKept
<1> QED  BY <1>1, <1>2, TreeAlways, PTL DEF Spec, EqualsStayInOrder
=============================================================================
