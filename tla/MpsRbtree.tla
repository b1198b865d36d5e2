----------------------------- MODULE MpsRbtree -----------------------------
(***************************************************************************)
(* The red-black tree of mps_rbtree.c, at the level of its links.          *)
(*                                                                         *)
(* A tree is a record: the root, the insert type and, as functions of the  *)
(* node, the fields of the sentinel and of the nodes that are allocated.   *)
(* Any other node has no fields, so a model that reads a freed node stops  *)
(* with an error.  An operation of the code and its mirror image are one   *)
(* operator of the side, "left" or "right", the name of the field.         *)
(* A loop makes as many rounds as there are nodes, of which the last ones  *)
(* change nothing.                                                         *)
(***************************************************************************)
EXTENDS Integers, SequencesExt

CONSTANTS
    Sentinel,   \* the node mps_rbtree_init is given
    Null,       \* mps_nulloff
    HalfRange   \* half the number of keys, 2^63 in the code

ASSUME RbtreeAssumption == HalfRange \in Nat \ {0} /\ Sentinel # Null

InsertType == {"STANDARD", "TIMER", "LUADICT"}

Other(side) == IF side = "left" THEN "right" ELSE "left"

\* mps_rbtree_init.  The other fields of the sentinel are not written.
RbInit(type) ==
    [root |-> Sentinel, insert |-> type,
     left |-> [n \in {Sentinel} |-> Null], right |-> [n \in {Sentinel} |-> Null],
     parent |-> [n \in {Sentinel} |-> Null], red |-> [n \in {Sentinel} |-> FALSE],
     key |-> [n \in {Sentinel} |-> 0], name |-> [n \in {Sentinel} |-> <<>>]]

\* The nodes linked, for a caller that links every node it allocates.
Linked(t) == DOMAIN t.key \ {Sentinel}

\* A field f with the value v for a node x that has just been allocated.
Allocated(f, x, v) == [n \in DOMAIN f \cup {x} |-> IF n = x THEN v ELSE f[n]]

\* A caller allocates a node and sets its key; or it frees one.
WithNode(t, x, key, name) ==
    [t EXCEPT !.left = Allocated(@, x, Null), !.right = Allocated(@, x, Null),
              !.parent = Allocated(@, x, Null), !.red = Allocated(@, x, FALSE),
              !.key = Allocated(@, x, key), !.name = Allocated(@, x, name)]

WithoutNode(t, x) ==
    LET rest == DOMAIN t.key \ {x}
    IN [t EXCEPT !.left = Restrict(@, rest), !.right = Restrict(@, rest),
                 !.parent = Restrict(@, rest), !.red = Restrict(@, rest),
                 !.key = Restrict(@, rest), !.name = Restrict(@, rest)]

-----------------------------------------------------------------------------
(* How nodes compare *)

\* ngx_memn2cmp(a, b) < 0: at the first byte of b where they differ, a ends or
\* has the smaller byte.
NameLess(a, b) ==
    \E i \in DOMAIN b :
        /\ \A j \in 1 .. i - 1 : j \in DOMAIN a /\ a[j] = b[j]
        /\ i \notin DOMAIN a \/ a[i] < b[i]

\* (mps_rbtree_key_int_t)(a - b) < 0: timers count on beyond the largest key.
TimerLess(a, b) == (a - b) % (2 * HalfRange) >= HalfRange

\* Timers are less than half the keys apart, from the first to the last one.
Near(keys) ==
    \E first \in 0 .. 2 * HalfRange - 1 :
        \A key \in keys : (key - first) % (2 * HalfRange) < HalfRange

\* Node x goes to the left of y.
Before(t, x, y) ==
    CASE t.insert = "STANDARD" -> t.key[x] < t.key[y]
      [] t.insert = "TIMER"    -> TimerLess(t.key[x], t.key[y])
      [] t.insert = "LUADICT"  ->
            \/ t.key[x] < t.key[y]
            \/ t.key[x] = t.key[y] /\ NameLess(t.name[x], t.name[y])

-----------------------------------------------------------------------------
(* Links *)

\* The field of p that points to x: left if it does, else right.
SideOf(t, p, x) == IF t.left[p] = x THEN "left" ELSE "right"

\* The place of x, in its parent p or in the root, goes to y.
ReplaceChild(t, p, x, y) ==
    IF x = t.root THEN [t EXCEPT !.root = y]
    ELSE [t EXCEPT ![SideOf(t, p, x)][p] = y]

\* Mistake: the parent of the subtree that changes sides is not set.
RotateLosesParent(t, side, x) ==
    LET y == t[Other(side)][x]
        p == t.parent[x]
        turned == [t EXCEPT ![Other(side)][x] = t[side][y], ![side][y] = x,
                            !.parent[y] = p, !.parent[x] = y]
    IN ReplaceChild(turned, p, x, y)

\* mps_rbtree_left_rotate and mps_rbtree_right_rotate: the fields of x and of
\* its child y, then the place of x.
Lifted(t, side, x) ==
    LET y == t[Other(side)][x]
        inner == t[side][y]
    IN [t EXCEPT ![Other(side)][x] = inner, ![side][y] = x,
                 !.parent[inner] = IF inner = Sentinel THEN @ ELSE x,
                 !.parent[y] = t.parent[x], !.parent[x] = y]

Rotate(t, side, x) ==
    ReplaceChild(Lifted(t, side, x), t.parent[x], x, t[Other(side)][x])

\* What n rounds of a loop make of s.
Loop(Round(_), s, n) ==
    LET after[i \in 0 .. n] == IF i = 0 THEN s ELSE Round(after[i - 1]) IN after[n]

Rounds(t) == Cardinality(DOMAIN t.key)

\* mps_rbtree_min
RbMin(t, x) ==
    LET Down(y) == IF t.left[y] = Sentinel THEN y ELSE t.left[y]
    IN Loop(Down, x, Rounds(t))

\* mps_rbtree_next: the way up ends at the root, whose parent may be stale.
Climb(t, x) ==
    LET Up(y) == IF y = t.root \/ y = t.left[t.parent[y]] THEN y ELSE t.parent[y]
        top == Loop(Up, x, Rounds(t))
    IN IF top = t.root THEN Null ELSE t.parent[top]

\* Mistake: the child itself, not the first node below it.
RbNextChild(t, x) ==
    IF t.right[x] # Sentinel THEN t.right[x] ELSE Climb(t, x)

RbNext(t, x) ==
    IF t.right[x] # Sentinel THEN RbMin(t, t.right[x]) ELSE Climb(t, x)

-----------------------------------------------------------------------------
(* mps_rbtree_insert *)

\* Mistake: the comparison the other way round, which sends x before its equals.
TurnSwapped(t, x, y) == IF Before(t, y, x) THEN "right" ELSE "left"

\* Where x goes from y, and the node where its way down ends.
Turn(t, x, y) == IF Before(t, x, y) THEN "left" ELSE "right"

Place(t, x) ==
    LET Down(y) == IF t[Turn(t, x, y)][y] = Sentinel THEN y ELSE t[Turn(t, x, y)][y]
    IN Loop(Down, t.root, Rounds(t))

\* The three insert_value functions.
InsertValue(t, x) ==
    LET p == Place(t, x)
    IN [t EXCEPT ![Turn(t, x, p)][p] = x, !.parent[x] = p,
                 !.left[x] = Sentinel, !.right[x] = Sentinel, !.red[x] = TRUE]

\* A tree and the node a loop has reached in it.
Reached(t, x) == [tree |-> t, node |-> x]

\* The loop that re-balances the tree from the node inserted upwards.
RebalanceRound(u) ==
    LET t == u.tree
        x == u.node
        p == t.parent[x]
        g == t.parent[p]
        side == SideOf(t, g, p)
        uncle == t[Other(side)][g]
        bent == x = t[Other(side)][p]
        s == IF bent THEN Rotate(t, side, p) ELSE t
        y == IF bent THEN p ELSE x
        q == s.parent[y]
    IN IF x = t.root \/ ~t.red[p] THEN u
       ELSE IF t.red[uncle]
       THEN Reached([t EXCEPT !.red[p] = FALSE, !.red[uncle] = FALSE, !.red[g] = TRUE], g)
       ELSE Reached(Rotate([s EXCEPT !.red[q] = FALSE, !.red[s.parent[q]] = TRUE],
                           Other(side), s.parent[q]), y)

Rebalance(t, x) == Loop(RebalanceRound, Reached(t, x), Rounds(t)).tree

Blackened(t, x) == [t EXCEPT !.red[x] = FALSE]

RbInsert(t, x) ==
    IF t.root = Sentinel
    THEN [t EXCEPT !.root = x, !.parent[x] = Null, !.left[x] = Sentinel,
                   !.right[x] = Sentinel, !.red[x] = FALSE]
    ELSE LET u == Rebalance(InsertValue(t, x), x) IN Blackened(u, u.root)

\* A caller links a new node, u.node, with its key and name.
Grown(t, u) == RbInsert(WithNode(t, u.node, u.key, u.name), u.node)

-----------------------------------------------------------------------------
(* mps_rbtree_delete *)

\* The fields that the code resets in a node it has unlinked.
Cleared(t, x) ==
    [t EXCEPT !.left[x] = Null, !.right[x] = Null, !.parent[x] = Null, !.key[x] = 0]

\* Mistake: the node that takes over keeps its own colour.
SubstituteOwnColor(t, x, subst, temp) ==
    LET up == t.parent[subst]
        cut == [t EXCEPT ![SideOf(t, up, subst)][up] = temp,
                         !.parent[temp] = IF up = x /\ subst # x THEN subst ELSE up]
        moved == [cut EXCEPT !.left[subst] = cut.left[x], !.right[subst] = cut.right[x],
                             !.parent[subst] = t.parent[x]]
        placed == ReplaceChild(moved, t.parent[x], x, subst)
        children == {placed.left[subst], placed.right[subst]} \ {Sentinel}
    IN IF subst = x THEN cut
       ELSE [placed EXCEPT !.parent =
                [n \in DOMAIN @ |-> IF n \in children THEN subst ELSE @[n]]]

\* temp takes the place of subst, and subst, if it is another node, that of x.
\* The sentinel gets a parent here, for the loop that follows.
Substitute(t, x, subst, temp) ==
    LET up == t.parent[subst]
        cut == [t EXCEPT ![SideOf(t, up, subst)][up] = temp,
                         !.parent[temp] = IF up = x /\ subst # x THEN subst ELSE up]
        moved == [cut EXCEPT !.left[subst] = cut.left[x], !.right[subst] = cut.right[x],
                             !.parent[subst] = t.parent[x], !.red[subst] = t.red[x]]
        placed == ReplaceChild(moved, t.parent[x], x, subst)
        children == {placed.left[subst], placed.right[subst]} \ {Sentinel}
    IN IF subst = x THEN cut
       ELSE [placed EXCEPT !.parent =
                [n \in DOMAIN @ |-> IF n \in children THEN subst ELSE @[n]]]

\* A red sibling of temp, the child of p on the side, is rotated away.
SiblingBlack(t, side, p) ==
    LET w == t[Other(side)][p]
    IN IF t.red[w]
       THEN Rotate([t EXCEPT !.red[w] = FALSE, !.red[p] = TRUE], side, p)
       ELSE t

\* The last rotations, for a black sibling w of temp with a red child.
FixupEnd(t, side, temp, w) ==
    LET far == Other(side)
        near == t[side][w]
        s == IF t.red[t[far][w]] THEN t
             ELSE Rotate([t EXCEPT !.red[near] = FALSE, !.red[w] = TRUE], far, w)
        p == s.parent[temp]
        v == s[far][p]
    IN Rotate([s EXCEPT !.red[v] = s.red[p], !.red[p] = FALSE, !.red[s[far][v]] = FALSE],
              side, p)

\* The delete fixup, from temp upwards; the last rotation sends it to the root.
FixupRound(u) ==
    LET t == u.tree
        temp == u.node
        side == SideOf(t, t.parent[temp], temp)
        s == SiblingBlack(t, side, t.parent[temp])
        p == s.parent[temp]
        w == s[Other(side)][p]
        end == FixupEnd(s, side, temp, w)
    IN IF temp = t.root \/ t.red[temp] THEN u
       ELSE IF ~s.red[s.left[w]] /\ ~s.red[s.right[w]]
       THEN Reached([s EXCEPT !.red[w] = TRUE], p)
       ELSE Reached(end, end.root)

Fixup(t, temp) ==
    LET last == Loop(FixupRound, Reached(t, temp), Rounds(t))
    IN Blackened(last.tree, last.node)

RbDelete(t, x) ==
    LET subst == IF Sentinel \in {t.left[x], t.right[x]} THEN x
                 ELSE RbMin(t, t.right[x])
        temp == IF t.left[subst] = Sentinel THEN t.right[subst] ELSE t.left[subst]
        s == Cleared(Substitute(t, x, subst, temp), x)
    IN IF subst = t.root THEN Cleared(Blackened([t EXCEPT !.root = temp], temp), x)
       ELSE IF t.red[subst] THEN s
       ELSE Fixup(s, temp)

-----------------------------------------------------------------------------
(* What makes a tree a red-black tree *)

\* The nodes from left to right, which as many rounds find as the tree has levels.
Deeper(t, walk) ==
    [x \in DOMAIN t.key |->
        IF x = Sentinel THEN <<>> ELSE walk[t.left[x]] \o <<x>> \o walk[t.right[x]]]

InOrder(t) ==
    LET Round(walk) == Deeper(t, walk)
    IN Loop(Round, [x \in DOMAIN t.key |-> <<>>], Rounds(t))[t.root]

\* The place of x in an order.
Seat(order, x) == CHOOSE i \in DOMAIN order : order[i] = x

\* Every linked node is reached once, and is the parent of its children.
IsTree(t) ==
    LET order == InOrder(t)
    IN /\ IsInjective(order) /\ ToSet(order) = Linked(t)
       /\ \A x \in Linked(t) : \A c \in {t.left[x], t.right[x]} \ {Sentinel} :
            t.parent[c] = x

\* No node stands after one that it goes before.
IsOrdered(t) ==
    LET order == InOrder(t)
    IN \A j \in DOMAIN order : \A i \in 1 .. j - 1 : ~Before(t, order[j], order[i])

\* The numbers of black nodes on the ways down from the root.
Heavier(t, heights) ==
    [x \in DOMAIN t.key |->
        IF x = Sentinel THEN {0}
        ELSE {h + IF t.red[x] THEN 0 ELSE 1 : h \in heights[t.left[x]] \cup heights[t.right[x]]}]

BlackHeights(t) ==
    LET Round(heights) == Heavier(t, heights)
    IN Loop(Round, [x \in DOMAIN t.key |-> {0}], Rounds(t))[t.root]

\* No way down is more than twice as long as another.
IsBalanced(t) ==
    /\ ~t.red[t.root] /\ ~t.red[Sentinel]
    /\ \A x \in Linked(t) : t.red[x] => ~t.red[t.left[x]] /\ ~t.red[t.right[x]]
    /\ Cardinality(BlackHeights(t)) = 1

\* mps_rbtree_next goes through the tree in order and ends.
NextInOrder(t) ==
    LET order == InOrder(t)
    IN \A i \in DOMAIN order :
         RbNext(t, order[i]) = IF i = Len(order) THEN Null ELSE order[i + 1]
=============================================================================
