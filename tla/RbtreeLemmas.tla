---------------------------- MODULE RbtreeLemmas ----------------------------
(***************************************************************************)
(* What the operators of MpsRbtree do to trees of any size.                *)
(*                                                                         *)
(* A tree is described by functions that no field holds: sub[x], the nodes *)
(* from x downwards; pos[x], a number by which the nodes are ordered; and  *)
(* h[x], the number of black nodes on every way down from x.  The lemmas   *)
(* say how each change of the links changes the three.  They come first    *)
(* for links alone, A and B for left and right or for right and left, then *)
(* for trees.                                                              *)
(*                                                                         *)
(* A loop is followed through the sequence of its states up to the last    *)
(* round, which exists whatever the loop does.  What holds before a round  *)
(* holds after it, and a measure that falls with each round shows that as  *)
(* many rounds as there are nodes are enough.                              *)
(***************************************************************************)
EXTENDS MpsRbtree, FiniteSetTheorems, WellFoundedInduction, TLAPS

\* Used for inductions over the rounds of a loop, by a least counterexample.
LEMMA HasLeast ==
  ASSUME NEW T \in SUBSET Nat, T # {}
  PROVE  \E k \in T : \A j \in T : k <= j
<1>1. PICK r : r = OpToRel(<, Nat)
  BY Zenon
<1>2. \E k \in T : \A j \in T : ~(<<j, k>> \in r)
  BY <1>1, NatLessThanWellFounded, WFMin, Zenon
<1>3. \A j, k \in Nat : <<j, k>> \in OpToRel(<, Nat) <=> j < k
  BY DEF OpToRel
<1>4. \A j, k \in Nat : <<j, k>> \in r <=> j < k
  BY <1>1, <1>3, Zenon
<1>5. PICK k \in T : \A j \in T : ~(<<j, k>> \in r)
  BY <1>2
<1>6. k \in Nat /\ \A j \in T : j \in Nat
  OBVIOUS
<1>7. \A j \in T : ~(j < k)
  BY <1>4, <1>5, <1>6, Zenon
<1> QED  BY <1>6, <1>7

-----------------------------------------------------------------------------
(* Trees of nodes S whose children on the two sides are A and B, whose     *)
(* parents are P and in which sub[x] are the nodes below x, with x.        *)

Fork(S, A, B, P, sub, x) ==
    /\ A[x] \in S \cup {Sentinel} /\ B[x] \in S \cup {Sentinel}
    /\ x \notin sub[A[x]] /\ x \notin sub[B[x]]
    /\ sub[A[x]] \cap sub[B[x]] = {}
    /\ sub[x] = {x} \cup sub[A[x]] \cup sub[B[x]]
    /\ A[x] # Sentinel => P[A[x]] = x
    /\ B[x] # Sentinel => P[B[x]] = x

Rooted(S, A, B, P, root, sub) ==
    /\ IsFiniteSet(S) /\ Sentinel \notin S
    /\ root \in S \cup {Sentinel}
    /\ sub \in [S \cup {Sentinel} -> SUBSET S]
    /\ sub[Sentinel] = {} /\ sub[root] = S
    /\ \A x \in S : Fork(S, A, B, P, sub, x)

LEMMA RootedSwap ==
  ASSUME NEW S, NEW A, NEW B, NEW P, NEW root, NEW sub,
         Rooted(S, A, B, P, root, sub)
  PROVE  Rooted(S, B, A, P, root, sub)
BY DEF Rooted, Fork

LEMMA SubSelf ==
  ASSUME NEW S, NEW A, NEW B, NEW P, NEW root, NEW sub,
         Rooted(S, A, B, P, root, sub), NEW x \in S
  PROVE  x \in sub[x] /\ sub[x] \in SUBSET S /\ sub[x] \subseteq S
BY DEF Rooted, Fork

\* The nodes below a child are fewer.
LEMMA SubSmaller ==
  ASSUME NEW S, NEW A, NEW B, NEW P, NEW root, NEW sub,
         Rooted(S, A, B, P, root, sub), NEW x \in S,
         NEW c \in {A[x], B[x]}
  PROVE  /\ IsFiniteSet(sub[x]) /\ Cardinality(sub[x]) \in Nat
         /\ IsFiniteSet(sub[c]) /\ Cardinality(sub[c]) \in Nat
         /\ Cardinality(sub[c]) < Cardinality(sub[x])
<1>1. IsFiniteSet(S) /\ sub[x] \subseteq S /\ sub[c] \subseteq sub[x] /\ x \notin sub[c] /\ x \in sub[x]
  BY DEF Rooted, Fork
<1>2. IsFiniteSet(sub[x]) /\ IsFiniteSet(sub[c])
  BY <1>1, FS_Subset
<1>3. Cardinality(sub[c]) <= Cardinality(sub[x]) /\ Cardinality(sub[c]) # Cardinality(sub[x])
  BY <1>1, <1>2, FS_Subset, SMTT(20)
<1> QED  BY <1>2, <1>3, FS_CardinalityType, SMTT(20)

LEMMA CardSub ==
  ASSUME NEW S, NEW A, NEW B, NEW P, NEW root, NEW sub,
         Rooted(S, A, B, P, root, sub)
  PROVE  /\ \A x \in S : Cardinality(sub[x]) \in Nat
         /\ \A x \in S : Cardinality(sub[A[x]]) < Cardinality(sub[x])
         /\ \A x \in S : Cardinality(sub[B[x]]) < Cardinality(sub[x])
<1> SUFFICES ASSUME NEW x \in S
             PROVE  /\ Cardinality(sub[x]) \in Nat
                    /\ Cardinality(sub[A[x]]) < Cardinality(sub[x])
                    /\ Cardinality(sub[B[x]]) < Cardinality(sub[x])
  OBVIOUS
<1> QED  BY SubSmaller

\* Of the nodes that have y and z below them, one has the least below it.
LEMMA Lowest ==
  ASSUME NEW S, NEW A, NEW B, NEW P, NEW root, NEW sub,
         Rooted(S, A, B, P, root, sub), NEW T \in SUBSET S, T # {}
  PROVE  \E a \in T : A[a] \notin T /\ B[a] \notin T
<1>1. PICK N : N = {Cardinality(sub[a]) : a \in T}
  OBVIOUS
<1>2. N \in SUBSET Nat /\ N # {}
  BY <1>1, CardSub
<1>3. PICK k \in N : \A j \in N : k <= j
  BY <1>2, HasLeast
<1>4. PICK a \in T : k = Cardinality(sub[a])
  BY <1>1
<1>5. a \in S
  OBVIOUS
<1>6. \A c \in T : Cardinality(sub[a]) <= Cardinality(sub[c])
  BY <1>1, <1>3, <1>4
<1>7. /\ Cardinality(sub[a]) \in Nat
      /\ Cardinality(sub[A[a]]) < Cardinality(sub[a])
      /\ Cardinality(sub[B[a]]) < Cardinality(sub[a])
  BY <1>5, CardSub
<1>8. \A c \in T : Cardinality(sub[c]) \in Nat
  BY CardSub
<1> QED  BY <1>6, <1>7, <1>8

LEMMA SubTrans ==
  ASSUME NEW S, NEW A, NEW B, NEW P, NEW root, NEW sub,
         Rooted(S, A, B, P, root, sub)
  PROVE  \A b \in S : \A a \in sub[b] : a \in S /\ sub[a] \subseteq sub[b]
<1>1. PICK T : T = {b \in S : ~ \A a \in sub[b] : sub[a] \subseteq sub[b]}
  OBVIOUS
<1>2. SUFFICES ASSUME T # {} PROVE FALSE
  BY <1>1, SubSelf
<1>3. PICK b \in T : A[b] \notin T /\ B[b] \notin T
  BY <1>1, <1>2, Lowest
<1>4. b \in S
  BY <1>1
<1>5. PICK a \in sub[b] : ~(sub[a] \subseteq sub[b])
  BY <1>1
<1>6. a # b
  BY <1>5
<1>7. Fork(S, A, B, P, sub, b) /\ sub[Sentinel] = {}
  BY <1>4 DEF Rooted
<1>8. CASE a \in sub[A[b]]
  <2>1. A[b] \in S
    BY <1>7, <1>8 DEF Fork
  <2>2. sub[a] \subseteq sub[A[b]]
    BY <1>1, <1>3, <1>8, <2>1
  <2> QED  BY <1>5, <1>7, <2>2 DEF Fork
<1>9. CASE a \in sub[B[b]]
  <2>1. B[b] \in S
    BY <1>7, <1>9 DEF Fork
  <2>2. sub[a] \subseteq sub[B[b]]
    BY <1>1, <1>3, <1>9, <2>1
  <2> QED  BY <1>5, <1>7, <2>2 DEF Fork
<1> QED  BY <1>5, <1>6, <1>7, <1>8, <1>9 DEF Fork

\* Every node but the root is a child of its parent, and of no other node.
LEMMA HasParent ==
  ASSUME NEW S, NEW A, NEW B, NEW P, NEW root, NEW sub,
         Rooted(S, A, B, P, root, sub), NEW y \in S, y # root
  PROVE  P[y] \in S /\ P[y] # y /\ (A[P[y]] = y \/ B[P[y]] = y)
<1>1. PICK T : T = {a \in S : y \in sub[a] /\ a # y}
  OBVIOUS
<1>2. root \in T
  <2>1. sub[root] = S /\ root \in S \cup {Sentinel} /\ sub[Sentinel] = {}
    BY DEF Rooted
  <2> QED  BY <1>1, <2>1
<1>3. PICK a \in T : A[a] \notin T /\ B[a] \notin T
  BY <1>1, <1>2, Lowest
<1>4. a \in S /\ y \in sub[a] /\ a # y
  BY <1>1
<1>5. Fork(S, A, B, P, sub, a) /\ sub[Sentinel] = {} /\ Sentinel \notin S
  BY <1>4 DEF Rooted
<1>6. A[a] = y \/ B[a] = y
  BY <1>1, <1>3, <1>4, <1>5 DEF Fork
<1> QED  BY <1>4, <1>5, <1>6 DEF Fork

\* The root is nobody's child, and no node is a child on both sides or its own.
LEMMA Children ==
  ASSUME NEW S, NEW A, NEW B, NEW P, NEW root, NEW sub,
         Rooted(S, A, B, P, root, sub), NEW x \in S
  PROVE  /\ A[x] = root => A[x] = Sentinel
         /\ B[x] = root => B[x] = Sentinel
         /\ A[x] = B[x] => A[x] = Sentinel
         /\ A[x] # x /\ B[x] # x
         /\ \A y \in S : A[y] = A[x] /\ A[x] # Sentinel => y = x
         /\ \A y \in S : B[y] = B[x] /\ B[x] # Sentinel => y = x
         /\ \A y \in S : A[y] = B[x] => A[y] = Sentinel
<1>1. Fork(S, A, B, P, sub, x) /\ sub[root] = S
  BY DEF Rooted
<1>2. A[x] # x /\ B[x] # x
  BY <1>1, SubSelf DEF Fork
<1>3. A[x] = B[x] => A[x] = Sentinel
  <2>1. SUFFICES ASSUME A[x] = B[x], A[x] \in S PROVE FALSE
    BY <1>1 DEF Fork
  <2>2. A[x] \in sub[A[x]]
    BY <2>1, SubSelf
  <2> QED  BY <1>1, <2>1, <2>2 DEF Fork
<1>4. \A y \in S : Fork(S, A, B, P, sub, y)
  BY DEF Rooted
<1>5. \A y \in S : A[y] = B[x] => A[y] = Sentinel
  BY <1>1, <1>3, <1>4 DEF Fork
<1> QED  BY <1>1, <1>2, <1>3, <1>4, <1>5 DEF Fork

LEMMA ChildOf ==
  ASSUME NEW S, NEW A, NEW B, NEW P, NEW root, NEW sub,
         Rooted(S, A, B, P, root, sub), NEW p \in S, NEW x \in S, B[p] = x
  PROVE  /\ x # p /\ x # root /\ P[x] = p /\ A[p] # x
         /\ \A n \in S : n # p => A[n] # x /\ B[n] # x
<1>1. Sentinel \notin S /\ Fork(S, A, B, P, sub, p)
  BY DEF Rooted
<1>2. /\ B[p] # p /\ B[p] # root /\ A[p] # B[p]
      /\ \A n \in S : B[n] = B[p] /\ B[p] # Sentinel => n = p
      /\ \A n \in S : A[n] = B[p] => A[n] = Sentinel
  BY <1>1, Children
<1> QED  BY <1>1, <1>2 DEF Fork

-----------------------------------------------------------------------------
(* Rotations *)

Ord(S, A, B, sub, pos) ==
    /\ \A x \in S : pos[x] \in Int
    /\ \A x, y \in S : pos[x] = pos[y] => x = y
    /\ \A x \in S : \A y \in sub[A[x]] : pos[y] < pos[x]
    /\ \A x \in S : \A y \in sub[B[x]] : pos[x] < pos[y]

Renamed(x, y, n) == IF n = x THEN y ELSE n

\* Node x goes down to the side of A, and its child y = B[x] takes its place.
Turned(S, A, B, P, root, A2, B2, P2, root2, x) ==
    LET y == B[x]
    IN /\ root2 = Renamed(x, y, root)
       /\ A2[x] = A[x] /\ B2[x] = A[y] /\ A2[y] = x /\ B2[y] = B[y]
       /\ \A n \in S \ {x, y} : A2[n] = Renamed(x, y, A[n]) /\ B2[n] = Renamed(x, y, B[n])
       /\ P2[x] = y /\ P2[y] = P[x] /\ P2[Sentinel] = P[Sentinel]
       /\ A[y] # Sentinel => P2[A[y]] = x
       /\ \A n \in S \ {x, y, A[y]} : P2[n] = P[n]

TurnedSub(A, B, sub, x) ==
    [sub EXCEPT ![B[x]] = sub[x], ![x] = {x} \cup sub[A[x]] \cup sub[A[B[x]]]]

LEMMA TurnedRooted ==
  ASSUME NEW S, NEW A, NEW B, NEW P, NEW root, NEW sub,
         NEW A2, NEW B2, NEW P2, NEW root2, NEW x \in S,
         Rooted(S, A, B, P, root, sub), B[x] # Sentinel,
         Turned(S, A, B, P, root, A2, B2, P2, root2, x)
  PROVE  Rooted(S, A2, B2, P2, root2, TurnedSub(A, B, sub, x))
<1> DEFINE y == B[x]
           sub2 == TurnedSub(A, B, sub, x)
<1>1. y \in S /\ y # x /\ Sentinel \notin S
  BY Children DEF Rooted, Fork
<1>2. /\ Fork(S, A, B, P, sub, x) /\ Fork(S, A, B, P, sub, y)
      /\ sub \in [S \cup {Sentinel} -> SUBSET S]
      /\ sub[Sentinel] = {} /\ sub[root] = S /\ root \in S \cup {Sentinel}
  BY <1>1 DEF Rooted
<1>3. /\ sub2[y] = sub[x] /\ sub2[x] = {x} \cup sub[A[x]] \cup sub[A[y]]
      /\ \A n \in S \cup {Sentinel} : n \notin {x, y} => sub2[n] = sub[n]
  BY <1>1, <1>2 DEF TurnedSub
<1>4. sub2 \in [S \cup {Sentinel} -> SUBSET S]
  BY <1>1, <1>2 DEF TurnedSub, Fork
<1>5. /\ root2 = Renamed(x, y, root)
      /\ A2[x] = A[x] /\ B2[x] = A[y] /\ A2[y] = x /\ B2[y] = B[y]
      /\ \A n \in S \ {x, y} : A2[n] = Renamed(x, y, A[n]) /\ B2[n] = Renamed(x, y, B[n])
      /\ P2[x] = y /\ P2[y] = P[x] /\ P2[Sentinel] = P[Sentinel]
      /\ A[y] # Sentinel => P2[A[y]] = x
      /\ \A n \in S \ {x, y, A[y]} : P2[n] = P[n]
  BY DEF Turned
<1>6. y # root
  BY <1>1, Children
<1>7. root2 \in S \cup {Sentinel} /\ sub2[root2] = S
  BY <1>1, <1>2, <1>3, <1>5, <1>6 DEF Renamed
<1>8. Fork(S, A2, B2, P2, sub2, y)
  <2>1. x \notin sub[B[y]] /\ y \notin sub[A[x]]
    BY <1>1, <1>2 DEF Fork
  <2>2. B[y] \notin {x, y} /\ A[y] \notin {x, y} /\ (A[y] = B[y] => A[y] = Sentinel)
    BY <1>1, <1>2, Children DEF Fork
  <2>3. B2[y] = B[y] /\ A2[y] = x /\ sub2[B[y]] = sub[B[y]] /\ sub2[x] = {x} \cup sub[A[x]] \cup sub[A[y]]
    BY <1>1, <1>2, <1>3, <1>5, <2>2 DEF Fork
  <2>4. sub[x] = {x} \cup sub[A[x]] \cup sub[y] /\ sub[y] = {y} \cup sub[A[y]] \cup sub[B[y]]
    BY <1>2 DEF Fork
  <2>5. y \notin sub2[x] /\ y \notin sub[B[y]] /\ sub2[x] \cap sub[B[y]] = {}
    BY <1>1, <1>2, <2>1, <2>3, <2>4 DEF Fork
  <2>6. sub2[y] = {y} \cup sub2[x] \cup sub[B[y]]
    BY <1>3, <2>3, <2>4
  <2>7. B[y] # Sentinel => P2[B[y]] = y
    BY <1>2, <1>5, <2>2 DEF Fork
  <2> QED  BY <1>1, <1>2, <1>5, <2>3, <2>5, <2>6, <2>7 DEF Fork
<1>9. Fork(S, A2, B2, P2, sub2, x)
  <2>1. A[x] \notin {x, y} /\ A[y] \notin {x, y} /\ (A[x] = A[y] => A[x] = Sentinel)
    BY <1>1, <1>2, Children DEF Fork
  <2>2. sub2[A[x]] = sub[A[x]] /\ sub2[A[y]] = sub[A[y]]
    BY <1>2, <1>3, <2>1 DEF Fork
  <2>3. sub[A[y]] \subseteq sub[y] /\ x \notin sub[y] /\ sub[A[x]] \cap sub[y] = {}
    BY <1>2 DEF Fork
  <2>4. A[x] # Sentinel => P2[A[x]] = x
    BY <1>1, <1>2, <1>5, <2>1, Children DEF Fork
  <2> QED  BY <1>2, <1>3, <1>5, <2>2, <2>3, <2>4 DEF Fork
<1>10. ASSUME NEW n \in S, n \notin {x, y} PROVE Fork(S, A2, B2, P2, sub2, n)
  <2>1. Fork(S, A, B, P, sub, n)
    BY DEF Rooted
  <2>2. A[n] # y /\ B[n] # y
    BY <1>1, <1>10, Children
  <2>3. A2[n] = Renamed(x, y, A[n]) /\ B2[n] = Renamed(x, y, B[n])
    BY <1>5, <1>10
  <2>4. sub2[A2[n]] = sub[A[n]] /\ sub2[B2[n]] = sub[B[n]] /\ sub2[n] = sub[n]
    BY <1>3, <1>10, <2>1, <2>2, <2>3 DEF Renamed, Fork
  <2>5. A2[n] # Sentinel => P2[A2[n]] = n
    <3>1. CASE A[n] = x
      BY <1>1, <1>5, <2>1, <2>3, <3>1 DEF Renamed, Fork
    <3>2. CASE A[n] # x
      <4>1. A[n] = A[y] => A[n] = Sentinel
        BY <1>1, <1>10, Children
      <4> QED  BY <1>5, <2>1, <2>2, <2>3, <3>2, <4>1 DEF Renamed, Fork
    <3> QED  BY <3>1, <3>2
  <2>6. B2[n] # Sentinel => P2[B2[n]] = n
    <3>1. CASE B[n] = x
      BY <1>1, <1>5, <2>1, <2>3, <3>1 DEF Renamed, Fork
    <3>2. CASE B[n] # x
      <4>1. A[y] = B[n] => A[y] = Sentinel
        BY <1>1, <1>10, Children
      <4> QED  BY <1>5, <2>1, <2>2, <2>3, <3>2, <4>1 DEF Renamed, Fork
    <3> QED  BY <3>1, <3>2
  <2> QED  BY <1>1, <2>1, <2>3, <2>4, <2>5, <2>6 DEF Fork, Renamed
<1> QED  BY <1>1, <1>2, <1>3, <1>4, <1>7, <1>8, <1>9, <1>10 DEF Rooted

LEMMA TurnedOrd ==
  ASSUME NEW S, NEW A, NEW B, NEW P, NEW root, NEW sub, NEW pos,
         NEW A2, NEW B2, NEW P2, NEW root2, NEW x \in S,
         Rooted(S, A, B, P, root, sub), B[x] # Sentinel,
         Turned(S, A, B, P, root, A2, B2, P2, root2, x),
         Ord(S, A, B, sub, pos)
  PROVE  Ord(S, A2, B2, TurnedSub(A, B, sub, x), pos)
<1> DEFINE y == B[x]
           sub2 == TurnedSub(A, B, sub, x)
<1>1. y \in S /\ y # x /\ Sentinel \notin S
  BY Children DEF Rooted, Fork
<1>2. /\ Fork(S, A, B, P, sub, x) /\ Fork(S, A, B, P, sub, y)
      /\ sub \in [S \cup {Sentinel} -> SUBSET S]
  BY <1>1 DEF Rooted
<1>3. /\ sub2[y] = sub[x] /\ sub2[x] = {x} \cup sub[A[x]] \cup sub[A[y]]
      /\ \A n \in S \cup {Sentinel} : n \notin {x, y} => sub2[n] = sub[n]
  BY <1>1, <1>2 DEF TurnedSub
<1>4. /\ A2[x] = A[x] /\ B2[x] = A[y] /\ A2[y] = x /\ B2[y] = B[y]
      /\ \A n \in S \ {x, y} : A2[n] = Renamed(x, y, A[n]) /\ B2[n] = Renamed(x, y, B[n])
  BY DEF Turned
<1>5. /\ A[x] \notin {x, y} /\ A[y] \notin {x, y} /\ B[y] \notin {x, y}
  BY <1>1, <1>2, Children DEF Fork
<1>6. (\A n \in S : pos[n] \in Int) /\ pos[x] < pos[y] /\ sub[y] = {y} \cup sub[A[y]] \cup sub[B[y]]
  BY <1>1, <1>2, SubSelf DEF Ord, Fork
<1>7. /\ \A n \in sub2[A2[y]] : pos[n] < pos[y]
      /\ \A n \in sub2[B2[y]] : pos[y] < pos[n]
      /\ \A n \in sub2[A2[x]] : pos[n] < pos[x]
      /\ \A n \in sub2[B2[x]] : pos[x] < pos[n]
  <2>1. \A n \in sub[A[x]] : n \in S /\ pos[n] < pos[x]
    BY <1>2 DEF Ord, Fork
  <2>2. \A n \in sub[A[y]] : n \in S /\ pos[n] < pos[y] /\ pos[x] < pos[n]
    BY <1>1, <1>2, <1>6 DEF Ord, Fork
  <2>3. \A n \in sub[B[y]] : n \in S /\ pos[y] < pos[n]
    BY <1>1, <1>2, <1>6 DEF Ord, Fork
  <2>4. sub2[A2[y]] = {x} \cup sub[A[x]] \cup sub[A[y]] /\ sub2[B2[y]] = sub[B[y]]
        /\ sub2[A2[x]] = sub[A[x]] /\ sub2[B2[x]] = sub[A[y]]
    BY <1>2, <1>3, <1>4, <1>5 DEF Fork
  <2>5. \A n \in sub[A[x]] : pos[n] < pos[y]
    BY <1>6, <2>1, <1>1
  <2> QED  BY <1>6, <2>1, <2>2, <2>3, <2>4, <2>5
<1>8. ASSUME NEW n \in S, n \notin {x, y}
      PROVE  sub2[A2[n]] = sub[A[n]] /\ sub2[B2[n]] = sub[B[n]]
  <2>1. Fork(S, A, B, P, sub, n)
    BY DEF Rooted
  <2>2. A[n] # y /\ B[n] # y
    BY <1>1, <1>8, Children
  <2> QED  BY <1>3, <1>4, <1>8, <2>1, <2>2 DEF Renamed, Fork
<1> HIDE DEF sub2, y
<1>9. \A n \in S : (\A k \in sub2[A2[n]] : pos[k] < pos[n]) /\ \A k \in sub2[B2[n]] : pos[n] < pos[k]
  BY <1>7, <1>8 DEF Ord
<1> QED  BY <1>9 DEF Ord, sub2

\* Seen in a mirror.
Mirrored(S, pos) == [n \in S |-> -pos[n]]

LEMMA OrdMirror ==
  ASSUME NEW S, NEW A, NEW B, NEW sub, NEW pos, Ord(S, A, B, sub, pos),
         \A x \in S : sub[A[x]] \subseteq S /\ sub[B[x]] \subseteq S
  PROVE  Ord(S, B, A, sub, Mirrored(S, pos))
<1>1. \A n \in S : pos[n] \in Int /\ Mirrored(S, pos)[n] = -pos[n]
  BY DEF Ord, Mirrored
<1> QED  BY <1>1 DEF Ord

LEMMA MirrorTwice ==
  ASSUME NEW S, NEW A, NEW B, NEW sub, NEW pos, \A n \in S : pos[n] \in Int,
         Ord(S, A, B, sub, Mirrored(S, Mirrored(S, pos))),
         \A x \in S : sub[A[x]] \subseteq S /\ sub[B[x]] \subseteq S
  PROVE  Ord(S, A, B, sub, pos)
<1>1. \A n \in S : Mirrored(S, Mirrored(S, pos))[n] = pos[n]
  BY DEF Mirrored
<1> QED  BY <1>1 DEF Ord

LEMMA TurnedOrdMirror ==
  ASSUME NEW S, NEW A, NEW B, NEW P, NEW root, NEW sub, NEW pos,
         NEW A2, NEW B2, NEW P2, NEW root2, NEW x \in S,
         Rooted(S, A, B, P, root, sub), B[x] # Sentinel,
         Turned(S, A, B, P, root, A2, B2, P2, root2, x),
         Ord(S, B, A, sub, pos)
  PROVE  Ord(S, B2, A2, TurnedSub(A, B, sub, x), pos)
<1>1. \A n \in S : sub[A[n]] \subseteq S /\ sub[B[n]] \subseteq S
  BY DEF Rooted, Fork
<1>2. Ord(S, A, B, sub, Mirrored(S, pos))
  BY <1>1, OrdMirror
<1>3. Ord(S, A2, B2, TurnedSub(A, B, sub, x), Mirrored(S, pos))
  BY <1>2, TurnedOrd
<1>4. Rooted(S, A2, B2, P2, root2, TurnedSub(A, B, sub, x))
  BY TurnedRooted
<1>5. \A n \in S : /\ TurnedSub(A, B, sub, x)[A2[n]] \subseteq S
                   /\ TurnedSub(A, B, sub, x)[B2[n]] \subseteq S
  BY <1>4 DEF Rooted, Fork
<1>6. Ord(S, B2, A2, TurnedSub(A, B, sub, x), Mirrored(S, Mirrored(S, pos)))
  BY <1>3, <1>5, OrdMirror
<1>7. \A n \in S : pos[n] \in Int
  BY DEF Ord
<1> QED  BY <1>5, <1>6, <1>7, MirrorTwice

-----------------------------------------------------------------------------
(* Colours and black heights: w[n] is 1 for a black node and 0 for a red   *)
(* one, and h[n] the number of black nodes on the ways down from n.  The   *)
(* edges where the subtree is one too low have 1 in da (the side of A) or  *)
(* in db.                                                                  *)

Weights(S, w, h) ==
    /\ \A n \in S \cup {Sentinel} : w[n] \in {0, 1}
    /\ h \in [S \cup {Sentinel} -> Nat]
    /\ w[Sentinel] = 1 /\ h[Sentinel] = 0

LevelAt(A, B, w, h, da, db, n) ==
    /\ h[A[n]] + da[n] = h[B[n]] + db[n]
    /\ h[n] = h[A[n]] + da[n] + w[n]

Leveled(S, A, B, w, h, da, db) ==
    /\ da \in [S -> {0, 1}] /\ db \in [S -> {0, 1}]
    /\ Weights(S, w, h)
    /\ \A n \in S : LevelAt(A, B, w, h, da, db, n)

\* No red node outside Y has a red child outside X.
Calm(S, A, B, w, Y, X) ==
    \A n \in S \ Y : w[n] = 0 => /\ A[n] \in X \/ w[A[n]] = 1
                                 /\ B[n] \in X \/ w[B[n]] = 1

LEMMA LeveledSwap ==
  ASSUME NEW S, NEW A, NEW B, NEW w, NEW h, NEW da, NEW db,
         Leveled(S, A, B, w, h, da, db),
         \A n \in S : A[n] \in S \cup {Sentinel} /\ B[n] \in S \cup {Sentinel}
  PROVE  Leveled(S, B, A, w, h, db, da)
<1>1. \A n \in S : /\ h[n] \in Nat /\ h[A[n]] \in Nat /\ h[B[n]] \in Nat
                   /\ da[n] \in {0, 1} /\ db[n] \in {0, 1} /\ w[n] \in {0, 1}
                   /\ h[A[n]] + da[n] = h[B[n]] + db[n]
                   /\ h[n] = h[A[n]] + da[n] + w[n]
  BY DEF Leveled, LevelAt, Weights
<1>2. \A n \in S : h[n] = h[B[n]] + db[n] + w[n]
  BY <1>1
<1> QED  BY <1>1, <1>2 DEF Leveled, LevelAt

\* A rotation of a red node y above x, whose colours change places.
TurnedHeights(A, B, h, da, x) == [h EXCEPT ![x] = h[A[x]] + da[x], ![B[x]] = h[x]]

LEMMA TurnedLevel ==
  ASSUME NEW S, NEW A, NEW B, NEW P, NEW root, NEW sub,
         NEW A2, NEW B2, NEW P2, NEW root2, NEW x \in S,
         Rooted(S, A, B, P, root, sub), B[x] # Sentinel,
         Turned(S, A, B, P, root, A2, B2, P2, root2, x),
         NEW w, NEW h, NEW da, NEW db, NEW w2,
         Leveled(S, A, B, w, h, da, db),
         w[B[x]] = 0, db[x] = 0, da[B[x]] = 0, db[B[x]] = 0,
         w2[x] = 0, w2[B[x]] = w[x],
         \A n \in S \cup {Sentinel} : n \notin {x, B[x]} => w2[n] = w[n]
  PROVE  Leveled(S, A2, B2, w2, TurnedHeights(A, B, h, da, x), da, db)
<1> DEFINE y == B[x]
           h2 == TurnedHeights(A, B, h, da, x)
<1>1. y \in S /\ y # x /\ Sentinel \notin S
  BY Children DEF Rooted, Fork
<1>2. \A n \in S : A[n] \in S \cup {Sentinel} /\ B[n] \in S \cup {Sentinel}
  BY DEF Rooted, Fork
<1>3. \A n \in S : /\ h[n] \in Nat /\ h[A[n]] \in Nat /\ h[B[n]] \in Nat
                   /\ da[n] \in {0, 1} /\ db[n] \in {0, 1} /\ w[n] \in {0, 1}
                   /\ h[A[n]] + da[n] = h[B[n]] + db[n]
                   /\ h[n] = h[A[n]] + da[n] + w[n]
  BY <1>2 DEF Leveled, LevelAt, Weights
<1>4. h \in [S \cup {Sentinel} -> Nat] /\ w[Sentinel] = 1 /\ h[Sentinel] = 0
  BY DEF Leveled, Weights
<1>5. /\ h2[x] = h[A[x]] + da[x] /\ h2[y] = h[x]
      /\ \A n \in S \cup {Sentinel} : n \notin {x, y} => h2[n] = h[n]
      /\ h2 \in [S \cup {Sentinel} -> Nat]
  BY <1>1, <1>3, <1>4 DEF TurnedHeights
<1> HIDE DEF h2
<1>6. /\ A2[x] = A[x] /\ B2[x] = A[y] /\ A2[y] = x /\ B2[y] = B[y]
      /\ \A n \in S \ {x, y} : A2[n] = Renamed(x, y, A[n]) /\ B2[n] = Renamed(x, y, B[n])
  BY DEF Turned
<1>7. A[x] \notin {x, y} /\ A[y] \notin {x, y} /\ B[y] \notin {x, y}
  <2>1. Fork(S, A, B, P, sub, x) /\ Fork(S, A, B, P, sub, y)
    BY <1>1 DEF Rooted
  <2> QED  BY <1>1, <2>1, Children DEF Fork
<1>8. /\ h[A[x]] + da[x] = h[y] /\ h[x] = h[A[x]] + da[x] + w[x]
      /\ h[A[y]] = h[B[y]] /\ h[y] = h[A[y]]
  BY <1>1, <1>3
<1>9. h2[A[x]] = h[A[x]] /\ h2[A[y]] = h[A[y]] /\ h2[B[y]] = h[B[y]]
  BY <1>1, <1>2, <1>5, <1>7
<1>10. LevelAt(A2, B2, w2, h2, da, db, x)
  BY <1>1, <1>3, <1>5, <1>6, <1>8, <1>9 DEF LevelAt
<1>11. LevelAt(A2, B2, w2, h2, da, db, y)
  BY <1>1, <1>3, <1>5, <1>6, <1>8, <1>9 DEF LevelAt
<1>12. ASSUME NEW n \in S, n \notin {x, y} PROVE LevelAt(A2, B2, w2, h2, da, db, n)
  <2>1. A[n] # y /\ B[n] # y
    BY <1>1, <1>12, Children
  <2>2. h2[A2[n]] = h[A[n]] /\ h2[B2[n]] = h[B[n]] /\ h2[n] = h[n] /\ w2[n] = w[n]
    BY <1>2, <1>5, <1>6, <1>12, <2>1 DEF Renamed
  <2> QED  BY <1>3, <2>2 DEF LevelAt
<1>13. Weights(S, w2, h2)
  BY <1>1, <1>3, <1>4, <1>5 DEF Weights, Leveled
<1> QED  BY <1>10, <1>11, <1>12, <1>13 DEF Leveled, h2

Flat(S) == [n \in S |-> 0]

Hole(S, p) == [n \in S |-> IF n = p THEN 1 ELSE 0]

\* What one round of the loop of mps_rbtree_insert starts from: x is red, and
\* so may its parent be.
Hot(S, A, B, root, w, h, x) ==
    /\ Leveled(S, A, B, w, h, Flat(S), Flat(S))
    /\ Calm(S, A, B, w, {}, {x})
    /\ x \in S /\ w[x] = 0 /\ (x # root => w[root] = 1)

LEMMA HotSwap ==
  ASSUME NEW S, NEW A, NEW B, NEW root, NEW w, NEW h, NEW x, Hot(S, A, B, root, w, h, x),
         \A n \in S : A[n] \in S \cup {Sentinel} /\ B[n] \in S \cup {Sentinel}
  PROVE  Hot(S, B, A, root, w, h, x)
<1>1. Leveled(S, B, A, w, h, Flat(S), Flat(S))
  BY LeveledSwap DEF Hot
<1> QED  BY <1>1 DEF Hot, Calm

\* A red uncle: the grandparent becomes red instead.
LEMMA UncleRed ==
  ASSUME NEW S, NEW A, NEW B, NEW P, NEW root, NEW sub, NEW w, NEW h,
         NEW x \in S, NEW p \in S, NEW g \in S, NEW w2,
         Rooted(S, A, B, P, root, sub), Hot(S, A, B, root, w, h, x), x # root,
         A[p] = x \/ B[p] = x, A[g] = p, w[p] = 0, w[B[g]] = 0,
         w2[p] = 1, w2[B[g]] = 1, w2[g] = 0,
         \A n \in S \cup {Sentinel} : n \notin {p, g, B[g]} => w2[n] = w[n]
  PROVE  \E h2 : Hot(S, A, B, root, w2, h2, g)
<1> DEFINE u == B[g]
           h2 == [h EXCEPT ![p] = @ + 1, ![u] = @ + 1]
<1>1. \A n \in S : A[n] \in S \cup {Sentinel} /\ B[n] \in S \cup {Sentinel}
  BY DEF Rooted, Fork
<1>2. \A n \in S : /\ h[n] \in Nat /\ h[A[n]] \in Nat /\ h[B[n]] \in Nat
                   /\ w[n] \in {0, 1} /\ h[A[n]] = h[B[n]] /\ h[n] = h[A[n]] + w[n]
  BY <1>1 DEF Hot, Leveled, LevelAt, Weights, Flat
<1>3. h \in [S \cup {Sentinel} -> Nat] /\ w[Sentinel] = 1 /\ h[Sentinel] = 0
  BY DEF Hot, Leveled, Weights
<1>4. Sentinel \notin S /\ root \in S \cup {Sentinel}
  BY DEF Rooted
<1>5. u \in S /\ p # g /\ u # p /\ u # g
  BY <1>1, <1>3, <1>4, Children
<1>6. /\ x # p
      /\ \A n \in S : n # g => A[n] # p /\ B[n] # p /\ A[n] # u /\ B[n] # u
      /\ \A n \in S : n # p => A[n] # x /\ B[n] # x
  BY <1>4, <1>5, Children
<1>7. /\ h2[p] = h[p] + 1 /\ h2[u] = h[u] + 1
      /\ \A n \in S \cup {Sentinel} : n \notin {p, u} => h2[n] = h[n]
      /\ h2 \in [S \cup {Sentinel} -> Nat]
  BY <1>2, <1>3, <1>5
<1> HIDE DEF h2
<1>8. \A n \in S : w[n] = 0 => (A[n] = x \/ w[A[n]] = 1) /\ (B[n] = x \/ w[B[n]] = 1)
  BY DEF Hot, Calm
<1>9. w[g] = 1
  BY <1>2, <1>6, <1>8
<1>10. ASSUME NEW n \in S PROVE LevelAt(A, B, w2, h2, Flat(S), Flat(S), n)
  <2>1. Flat(S)[n] = 0
    BY DEF Flat
  <2>2. CASE n = g
    <3>1. h2[A[g]] = h[p] + 1 /\ h2[B[g]] = h[u] + 1 /\ h2[g] = h[g] /\ w2[g] = 0
      BY <1>5, <1>7
    <3> QED  BY <1>2, <1>9, <2>1, <2>2, <3>1 DEF LevelAt
  <2>3. CASE n # g
    <3>1. h2[A[n]] = h[A[n]] /\ h2[B[n]] = h[B[n]]
      BY <1>1, <1>6, <1>7, <2>3
    <3>2. h2[n] = h[A[n]] + w2[n]
      <4>1. CASE n \in {p, u}
        BY <1>2, <1>5, <1>7, <4>1
      <4>2. CASE n \notin {p, u}
        BY <1>2, <1>7, <2>3, <4>2
      <4> QED  BY <4>1, <4>2
    <3> QED  BY <1>2, <2>1, <3>1, <3>2 DEF LevelAt
  <2> QED  BY <2>2, <2>3
<1>11. Leveled(S, A, B, w2, h2, Flat(S), Flat(S))
  <2>1. Weights(S, w2, h2)
    BY <1>2, <1>3, <1>4, <1>5, <1>7 DEF Weights
  <2>2. Flat(S) \in [S -> {0, 1}]
    BY DEF Flat
  <2> QED  BY <1>10, <2>1, <2>2 DEF Leveled
<1>12. Calm(S, A, B, w2, {}, {g})
  <2> SUFFICES ASSUME NEW n \in S, w2[n] = 0
               PROVE  (A[n] = g \/ w2[A[n]] = 1) /\ (B[n] = g \/ w2[B[n]] = 1)
    BY DEF Calm
  <2>1. CASE n = g
    BY <2>1
  <2>2. CASE n # g
    <3>1. n \notin {p, u} /\ w[n] = 0
      BY <2>2
    <3>2. w[A[n]] = 1 /\ w[B[n]] = 1
      BY <1>6, <1>8, <3>1
    <3> QED  BY <1>1, <1>6, <2>2, <3>2
  <2> QED  BY <2>1, <2>2
<1>13. g # root => w2[root] = 1
  BY <1>4 DEF Hot
<1>14. Hot(S, A, B, root, w2, h2, g)
  BY <1>11, <1>12, <1>13 DEF Hot
<1> QED  BY <1>14

\* x between p and g: p goes below x.
LEMMA BentTurn ==
  ASSUME NEW S, NEW A, NEW B, NEW P, NEW root, NEW sub, NEW w, NEW h,
         NEW x \in S, NEW p \in S, NEW A2, NEW B2, NEW P2, NEW root2,
         Rooted(S, A, B, P, root, sub), Hot(S, A, B, root, w, h, x), x # root,
         B[p] = x, w[p] = 0,
         Turned(S, A, B, P, root, A2, B2, P2, root2, p)
  PROVE  Hot(S, A2, B2, root2, w, TurnedHeights(A, B, h, Flat(S), p), p)
<1>1. \A n \in S : A[n] \in S \cup {Sentinel} /\ B[n] \in S \cup {Sentinel}
  BY DEF Rooted, Fork
<1>2. Sentinel \notin S /\ root \in S \cup {Sentinel} /\ w[root] = 1 /\ w[x] = 0
  BY DEF Rooted, Hot
<1>3. Leveled(S, A2, B2, w, TurnedHeights(A, B, h, Flat(S), p), Flat(S), Flat(S))
  <2>1. \A n \in S : Flat(S)[n] = 0
    BY DEF Flat
  <2>2. Leveled(S, A, B, w, h, Flat(S), Flat(S))
    BY DEF Hot
  <2> QED  BY <1>2, <2>1, <2>2, TurnedLevel
<1>4. \A n \in S : w[n] = 0 => (A[n] = x \/ w[A[n]] = 1) /\ (B[n] = x \/ w[B[n]] = 1)
  BY DEF Hot, Calm
<1>5. x # p /\ \A n \in S : n # p => A[n] # x /\ B[n] # x
  BY ChildOf
<1>6. Calm(S, A2, B2, w, {}, {p})
  <2> SUFFICES ASSUME NEW n \in S, w[n] = 0
               PROVE  (A2[n] = p \/ w[A2[n]] = 1) /\ (B2[n] = p \/ w[B2[n]] = 1)
    BY DEF Calm
  <2>1. CASE n = p
    <3>1. A[p] # x
      BY <1>2, Children
    <3>2. A2[p] = A[p] /\ B2[p] = A[x] /\ A[x] # x
      BY Children DEF Turned
    <3> QED  BY <1>2, <1>4, <2>1, <3>1, <3>2
  <2>2. CASE n = x
    <3>1. A2[x] = p /\ B2[x] = B[x] /\ B[x] # x
      BY Children DEF Turned
    <3> QED  BY <1>2, <1>4, <2>2, <3>1
  <2>3. CASE n \notin {p, x}
    <3>1. w[A[n]] = 1 /\ w[B[n]] = 1
      BY <1>4, <1>5, <2>3
    <3>2. A2[n] = Renamed(p, x, A[n]) /\ B2[n] = Renamed(p, x, B[n])
      BY <2>3 DEF Turned
    <3> QED  BY <3>1, <3>2 DEF Renamed
  <2> QED  BY <2>1, <2>2, <2>3
<1>7. w[root2] = 1
  BY <1>2 DEF Turned, Renamed
<1> QED  BY <1>3, <1>6, <1>7 DEF Hot

\* x, p and g in a row: p takes the place and the colour of g.
LEMMA StraightTurn ==
  ASSUME NEW S, NEW A, NEW B, NEW P, NEW root, NEW sub, NEW w, NEW h,
         NEW x \in S, NEW p \in S, NEW g \in S, NEW A2, NEW B2, NEW P2, NEW root2, NEW w2,
         Rooted(S, A, B, P, root, sub), Hot(S, A, B, root, w, h, x), x # root,
         B[p] = x, B[g] = p, w[p] = 0, w[A[g]] = 1,
         w2[p] = 1, w2[g] = 0, \A n \in S \cup {Sentinel} : n \notin {p, g} => w2[n] = w[n],
         Turned(S, A, B, P, root, A2, B2, P2, root2, g)
  PROVE  /\ Hot(S, A2, B2, root2, w2, TurnedHeights(A, B, h, Flat(S), g), x)
         /\ x # root2 /\ w2[P2[x]] = 1
<1>1. \A n \in S : A[n] \in S \cup {Sentinel} /\ B[n] \in S \cup {Sentinel}
  BY DEF Rooted, Fork
<1>2. Sentinel \notin S /\ root \in S \cup {Sentinel} /\ w[root] = 1 /\ w[x] = 0
  BY DEF Rooted, Hot
<1>3. \A n \in S : w[n] = 0 => (A[n] = x \/ w[A[n]] = 1) /\ (B[n] = x \/ w[B[n]] = 1)
  BY DEF Hot, Calm
<1>4. x # p /\ \A n \in S : n # p => A[n] # x /\ B[n] # x
  BY ChildOf
<1>5. /\ w[g] = 1 /\ x # g /\ p # g
      /\ \A n \in S : n # g => A[n] # p /\ B[n] # p
  <2>1. w[g] \in {0, 1}
    BY DEF Hot, Leveled, Weights
  <2>2. w[g] = 1
    BY <1>3, <1>4, <2>1
  <2> QED  BY <1>2, <2>2, ChildOf
<1>6. Leveled(S, A2, B2, w2, TurnedHeights(A, B, h, Flat(S), g), Flat(S), Flat(S))
  <2>1. \A n \in S : Flat(S)[n] = 0
    BY DEF Flat
  <2>2. Leveled(S, A, B, w, h, Flat(S), Flat(S))
    BY DEF Hot
  <2> QED  BY <1>2, <1>5, <2>1, <2>2, TurnedLevel
<1>7. Calm(S, A2, B2, w2, {}, {x})
  <2> SUFFICES ASSUME NEW n \in S, w2[n] = 0
               PROVE  (A2[n] = x \/ w2[A2[n]] = 1) /\ (B2[n] = x \/ w2[B2[n]] = 1)
    BY DEF Calm
  <2>1. CASE n = g
    <3>1. A2[g] = A[g] /\ B2[g] = A[p] /\ A[g] # g /\ A[p] # p /\ A[p] # x /\ A[p] # g
      BY <1>2, <1>4, <1>5, Children DEF Turned
    <3>2. w[A[p]] = 1
      BY <1>3, <3>1
    <3> QED  BY <1>1, <2>1, <3>1, <3>2
  <2>2. CASE n # g
    <3>1. n \notin {p, g} /\ w[n] = 0
      BY <2>2
    <3>2. A2[n] = Renamed(g, p, A[n]) /\ B2[n] = Renamed(g, p, B[n])
      BY <3>1 DEF Turned
    <3>3. w[A[n]] = 1 /\ w[B[n]] = 1
      BY <1>3, <1>4, <1>5, <3>1
    <3> QED  BY <1>1, <3>2, <3>3 DEF Renamed
  <2> QED  BY <2>1, <2>2
<1>8. root2 = Renamed(g, p, root) /\ x # root2 /\ w2[root2] = 1
  BY <1>2, <1>4, <1>5 DEF Turned, Renamed
<1>9. P2[x] = P[x] /\ P[x] = p
  <2>1. x # A[p]
    BY <1>2, Children
  <2>2. P[x] = p
    BY <1>2 DEF Rooted, Fork
  <2> QED  BY <1>4, <1>5, <2>1, <2>2 DEF Turned
<1> QED  BY <1>2, <1>4, <1>5, <1>6, <1>7, <1>8, <1>9 DEF Hot

-----------------------------------------------------------------------------
(* The loop of mps_rbtree_delete: the subtree of c is one black node too   *)
(* low, on the side of A of its parent p, and c is black.                  *)

Slack(S, A, B, P, root, w, h, p, c) ==
    /\ p \in S /\ A[p] = c /\ P[c] = p /\ c # root
    /\ w[c] = 1 /\ w[root] = 1
    /\ Leveled(S, A, B, w, h, Hole(S, p), Flat(S))
    /\ Calm(S, A, B, w, {}, {})

SiblingFacts(S, A, B, root, w, h, p, c) ==
    /\ Sentinel \notin S /\ root \in S /\ p \in S /\ A[p] = c
    /\ B[p] \in S /\ B[p] # p /\ B[p] # c /\ B[p] # root /\ c # p
    /\ \A n \in S : n # p => A[n] # B[p] /\ B[n] # B[p]
    /\ c \in S => \A n \in S : n # p => A[n] # c /\ B[n] # c
    /\ \A n \in S : A[n] \in S \cup {Sentinel} /\ B[n] \in S \cup {Sentinel}
    /\ \A n \in S : w[n] = 0 => w[A[n]] = 1 /\ w[B[n]] = 1
    /\ \A n \in S : /\ h[n] \in Nat /\ h[A[n]] \in Nat /\ h[B[n]] \in Nat
                    /\ w[n] \in {0, 1}
                    /\ n # p => h[A[n]] = h[B[n]] /\ h[n] = h[A[n]] + w[n]
    /\ h[A[p]] + 1 = h[B[p]] /\ h[p] = h[A[p]] + 1 + w[p]
    /\ h \in [S \cup {Sentinel} -> Nat] /\ w[Sentinel] = 1 /\ h[Sentinel] = 0
    /\ \A n \in S : Flat(S)[n] = 0 /\ Hole(S, p)[n] = IF n = p THEN 1 ELSE 0

LEMMA Sibling ==
  ASSUME NEW S, NEW A, NEW B, NEW P, NEW root, NEW sub, NEW w, NEW h, NEW p, NEW c,
         Rooted(S, A, B, P, root, sub), Slack(S, A, B, P, root, w, h, p, c)
  PROVE  SiblingFacts(S, A, B, root, w, h, p, c)
<1>1. \A n \in S : A[n] \in S \cup {Sentinel} /\ B[n] \in S \cup {Sentinel}
  BY DEF Rooted, Fork
<1>2. \A n \in S : Flat(S)[n] = 0 /\ Hole(S, p)[n] = IF n = p THEN 1 ELSE 0
  BY DEF Flat, Hole
<1>3. h \in [S \cup {Sentinel} -> Nat] /\ w[Sentinel] = 1 /\ h[Sentinel] = 0
      /\ \A n \in S : w[n] \in {0, 1}
  BY DEF Slack, Leveled, Weights
<1>4. \A n \in S : /\ h[A[n]] + Hole(S, p)[n] = h[B[n]] + Flat(S)[n]
                   /\ h[n] = h[A[n]] + Hole(S, p)[n] + w[n]
  BY DEF Slack, Leveled, LevelAt
<1>5. \A n \in S : /\ h[n] \in Nat /\ h[A[n]] \in Nat /\ h[B[n]] \in Nat
                   /\ w[n] \in {0, 1}
                   /\ n # p => h[A[n]] = h[B[n]] /\ h[n] = h[A[n]] + w[n]
  BY <1>1, <1>2, <1>3, <1>4
<1>6. p \in S /\ A[p] = c
  BY DEF Slack
<1>7. h[A[p]] + 1 = h[B[p]] /\ h[p] = h[A[p]] + 1 + w[p]
  BY <1>1, <1>2, <1>3, <1>4, <1>5, <1>6
<1>8. B[p] \in S /\ Sentinel \notin S
  BY <1>1, <1>3, <1>5, <1>6, <1>7 DEF Rooted
<1>9. root \in S
  BY <1>6 DEF Rooted
<1>10. /\ B[p] # p /\ B[p] # c /\ B[p] # root
       /\ \A n \in S : n # p => A[n] # B[p] /\ B[n] # B[p]
  BY <1>6, <1>8, ChildOf
<1>11. c \in S => c # p /\ \A n \in S : n # p => A[n] # c /\ B[n] # c
  <2>1. Rooted(S, B, A, P, root, sub)
    BY RootedSwap
  <2> QED  BY <1>6, <2>1, ChildOf
<1>12. c # p
  BY <1>1, <1>6, <1>8, <1>11
<1>13. \A n \in S : w[n] = 0 => w[A[n]] = 1 /\ w[B[n]] = 1
  BY DEF Slack, Calm
<1> QED  BY <1>1, <1>2, <1>3, <1>5, <1>6, <1>7, <1>8, <1>9, <1>10, <1>11, <1>12, <1>13
   DEF SiblingFacts

\* A red sibling goes above p, and leaves c a black one.
LEMMA SiblingRed ==
  ASSUME NEW S, NEW A, NEW B, NEW P, NEW root, NEW sub, NEW w, NEW h, NEW p, NEW c,
         NEW A2, NEW B2, NEW P2, NEW root2, NEW w2,
         Rooted(S, A, B, P, root, sub), Slack(S, A, B, P, root, w, h, p, c),
         w[B[p]] = 0, w2[B[p]] = 1, w2[p] = 0,
         \A n \in S \cup {Sentinel} : n \notin {p, B[p]} => w2[n] = w[n],
         Turned(S, A, B, P, root, A2, B2, P2, root2, p)
  PROVE  /\ Slack(S, A2, B2, P2, root2, w2, TurnedHeights(A, B, h, Hole(S, p), p), p, c)
         /\ w2[B2[p]] = 1
<1> DEFINE v == B[p]
<1>1. /\ Sentinel \notin S /\ root \in S /\ p \in S /\ A[p] = c
      /\ v \in S /\ v # p /\ v # c /\ v # root /\ c # p
      /\ \A n \in S : n # p => A[n] # v /\ B[n] # v
      /\ c \in S => \A n \in S : n # p => A[n] # c /\ B[n] # c
      /\ \A n \in S : A[n] \in S \cup {Sentinel} /\ B[n] \in S \cup {Sentinel}
      /\ \A n \in S : w[n] = 0 => w[A[n]] = 1 /\ w[B[n]] = 1
      /\ w[Sentinel] = 1
      /\ \A n \in S : Flat(S)[n] = 0 /\ Hole(S, p)[n] = IF n = p THEN 1 ELSE 0
  <2>1. SiblingFacts(S, A, B, root, w, h, p, c)
    BY Sibling
  <2> QED  BY <2>1 DEF SiblingFacts
<1>9. \A n \in S : w[n] \in {0, 1}
  BY DEF Slack, Leveled, Weights
<1>2. w[p] = 1 /\ w[A[v]] = 1 /\ w[B[v]] = 1 /\ w[c] = 1 /\ w[root] = 1 /\ P[c] = p /\ c # root
  BY <1>1, <1>9 DEF Slack
<1>3. Leveled(S, A2, B2, w2, TurnedHeights(A, B, h, Hole(S, p), p), Hole(S, p), Flat(S))
  <2>1. Leveled(S, A, B, w, h, Hole(S, p), Flat(S))
    BY DEF Slack
  <2> QED  BY <1>1, <1>2, <2>1, TurnedLevel
<1>4. /\ A2[p] = c /\ B2[p] = A[v] /\ A2[v] = p /\ B2[v] = B[v]
      /\ \A n \in S \ {p, v} : A2[n] = Renamed(p, v, A[n]) /\ B2[n] = Renamed(p, v, B[n])
      /\ root2 = Renamed(p, v, root)
  BY <1>1 DEF Turned
<1>5. A[v] \notin {p, v} /\ B[v] # v
  <2>1. A[v] # v /\ B[v] # v
    BY <1>1, Children
  <2>2. Fork(S, A, B, P, sub, p) /\ Fork(S, A, B, P, sub, v)
    BY <1>1 DEF Rooted
  <2>3. A[v] = p => p \in sub[v]
    BY <1>1, <2>2, SubSelf DEF Fork
  <2> QED  BY <2>1, <2>2, <2>3 DEF Fork
<1>6. P2[c] = p
  <2>1. CASE c = Sentinel
    BY <1>2, <2>1 DEF Turned
  <2>2. CASE c # Sentinel
    <3>1. c \in S /\ c # A[v]
      BY <1>1, <2>2
    <3> QED  BY <1>1, <1>2, <3>1 DEF Turned
  <2> QED  BY <2>1, <2>2
<1>7. c # root2 /\ w2[root2] = 1 /\ w2[c] = 1 /\ w2[B2[p]] = 1
  BY <1>1, <1>2, <1>4, <1>5 DEF Renamed
<1>8. Calm(S, A2, B2, w2, {}, {})
  <2> SUFFICES ASSUME NEW n \in S, w2[n] = 0 PROVE w2[A2[n]] = 1 /\ w2[B2[n]] = 1
    BY DEF Calm
  <2>1. CASE n = p
    BY <1>4, <1>7, <2>1
  <2>2. CASE n # p
    <3>1. n # v /\ w[n] = 0
      BY <2>2
    <3>2. w[A[n]] = 1 /\ w[B[n]] = 1 /\ A[n] # v /\ B[n] # v
      BY <1>1, <2>2, <3>1
    <3> QED  BY <1>1, <1>4, <2>2, <3>1, <3>2 DEF Renamed
  <2> QED  BY <2>1, <2>2
<1> QED  BY <1>1, <1>3, <1>4, <1>6, <1>7, <1>8 DEF Slack

\* What a round of that loop starts from and ends with: c may be red, and if
\* it is the root the whole tree is balanced.
LowAt(S, A, B, P, w, h, p, c) ==
    p \in S /\ A[p] = c /\ P[c] = p /\ Leveled(S, A, B, w, h, Hole(S, p), Flat(S))

Low(S, A, B, P, root, w, h, c) ==
    /\ c \in S \cup {Sentinel} /\ Calm(S, A, B, w, {c}, {c})
    /\ \/ c = root /\ Leveled(S, A, B, w, h, Flat(S), Flat(S))
       \/ /\ c # root /\ w[root] = 1
          /\ \E p : LowAt(S, A, B, P, w, h, p, c) \/ LowAt(S, B, A, P, w, h, p, c)

\* The sibling becomes red, and the subtree of p is too low.
LEMMA SiblingRecoloured ==
  ASSUME NEW S, NEW A, NEW B, NEW P, NEW root, NEW sub, NEW w, NEW h, NEW p, NEW c,
         NEW w2,
         Rooted(S, A, B, P, root, sub), Slack(S, A, B, P, root, w, h, p, c),
         w[B[p]] = 1, w[A[B[p]]] = 1, w[B[B[p]]] = 1, w2[B[p]] = 0,
         \A n \in S \cup {Sentinel} : n # B[p] => w2[n] = w[n]
  PROVE  \E h2 : Low(S, A, B, P, root, w2, h2, p)
<1> DEFINE v == B[p]
           h2 == [h EXCEPT ![v] = @ - 1, ![p] = @ - 1]
<1>1. SiblingFacts(S, A, B, root, w, h, p, c)
  BY Sibling
<1>2. /\ Sentinel \notin S /\ root \in S /\ p \in S /\ A[p] = c
      /\ v \in S /\ v # p /\ v # c /\ v # root /\ c # p
      /\ \A n \in S : n # p => A[n] # v /\ B[n] # v
      /\ \A n \in S : A[n] \in S \cup {Sentinel} /\ B[n] \in S \cup {Sentinel}
      /\ \A n \in S : w[n] = 0 => w[A[n]] = 1 /\ w[B[n]] = 1
  BY <1>1 DEF SiblingFacts
<1>3. /\ \A n \in S : /\ h[n] \in Nat /\ h[A[n]] \in Nat /\ h[B[n]] \in Nat
                      /\ w[n] \in {0, 1}
                      /\ n # p => h[A[n]] = h[B[n]] /\ h[n] = h[A[n]] + w[n]
      /\ h[A[p]] + 1 = h[v] /\ h[p] = h[A[p]] + 1 + w[p]
      /\ h \in [S \cup {Sentinel} -> Nat] /\ w[Sentinel] = 1 /\ h[Sentinel] = 0
  BY <1>1 DEF SiblingFacts
<1>4. h2 \in [S \cup {Sentinel} -> Nat]
      /\ h2[v] = h[v] - 1 /\ h2[p] = h[p] - 1
      /\ \A n \in S \cup {Sentinel} : n \notin {p, v} => h2[n] = h[n]
  <2>1. h[v] - 1 \in Nat /\ h[p] - 1 \in Nat
    BY <1>2, <1>3
  <2> QED  BY <1>2, <1>3, <2>1
<1> HIDE DEF h2
<1>5. A[v] \notin {p, v} /\ B[v] \notin {p, v}
  <2>1. A[v] # v /\ B[v] # v
    BY <1>2, Children
  <2>2. Fork(S, A, B, P, sub, p) /\ Fork(S, A, B, P, sub, v)
    BY <1>2 DEF Rooted
  <2>3. (A[v] = p => p \in sub[v]) /\ (B[v] = p => p \in sub[v])
    BY <1>2, <2>2, SubSelf DEF Fork
  <2> QED  BY <2>1, <2>2, <2>3 DEF Fork
<1>6. Weights(S, w2, h2)
  BY <1>2, <1>3, <1>4 DEF Weights
<1>7. h2[A[p]] = h2[B[p]] /\ h2[p] = h2[A[p]] + w2[p]
  <2>1. h2[A[p]] = h[A[p]] /\ w2[p] = w[p]
    BY <1>2, <1>4
  <2> QED  BY <1>2, <1>3, <1>4, <2>1
<1>8. h2[A[v]] = h2[B[v]] /\ h2[v] = h2[A[v]] + w2[v]
  <2>1. h2[A[v]] = h[A[v]] /\ h2[B[v]] = h[B[v]]
    BY <1>2, <1>4, <1>5
  <2> QED  BY <1>2, <1>3, <1>4, <2>1
<1>9. \A n \in S : n \notin {p, v} => h2[n] = h[n] /\ w2[n] = w[n] /\ A[n] # v /\ B[n] # v
  BY <1>2, <1>4
<1>10. Calm(S, A, B, w2, {p}, {p})
  <2> SUFFICES ASSUME NEW n \in S, n # p, w2[n] = 0
               PROVE  (A[n] = p \/ w2[A[n]] = 1) /\ (B[n] = p \/ w2[B[n]] = 1)
    BY DEF Calm
  <2>1. CASE n = v
    BY <1>2, <1>5, <2>1
  <2>2. CASE n # v
    <3>1. w[A[n]] = 1 /\ w[B[n]] = 1 /\ A[n] # v /\ B[n] # v
      BY <1>2, <1>9, <2>2
    <3> QED  BY <1>2, <3>1
  <2> QED  BY <2>1, <2>2
<1>11. CASE p = root
  <2>1. ASSUME NEW n \in S PROVE LevelAt(A, B, w2, h2, Flat(S), Flat(S), n)
    <3>1. CASE n = p
      BY <1>2, <1>4, <1>7, <3>1 DEF LevelAt, Flat
    <3>2. CASE n = v
      BY <1>2, <1>4, <1>8, <3>2 DEF LevelAt, Flat
    <3>3. CASE n \notin {p, v}
      <4>1. A[n] # p /\ B[n] # p
        BY <1>2, <1>11, Children
      <4>2. h2[A[n]] = h[A[n]] /\ h2[B[n]] = h[B[n]]
        BY <1>2, <1>4, <1>9, <3>3, <4>1
      <4> QED  BY <1>3, <1>9, <3>3, <4>2 DEF LevelAt, Flat
    <3> QED  BY <3>1, <3>2, <3>3
  <2>2. Leveled(S, A, B, w2, h2, Flat(S), Flat(S))
    BY <1>6, <2>1 DEF Leveled, Flat
  <2> QED  BY <1>2, <1>10, <1>11, <2>2 DEF Low
<1>12. CASE p # root
  <2>1. PICK q : q = P[p]
    OBVIOUS
  <2>2. q \in S /\ q # p /\ (A[q] = p \/ B[q] = p)
    BY <1>2, <1>12, <2>1, HasParent
  <2>3. q # v
    BY <1>5, <2>2
  <2>4. \A n \in S : n # q => A[n] # p /\ B[n] # p
    <3>1. Rooted(S, B, A, P, root, sub)
      BY RootedSwap
    <3>2. CASE A[q] = p
      BY <1>2, <2>2, <3>1, <3>2, ChildOf
    <3>3. CASE B[q] = p
      BY <1>2, <2>2, <3>3, ChildOf
    <3> QED  BY <2>2, <3>2, <3>3
  <2>5. ASSUME NEW n \in S, n # q
        PROVE  h2[A[n]] = h2[B[n]] /\ h2[n] = h2[A[n]] + w2[n]
    <3>1. CASE n \in {p, v}
      BY <1>7, <1>8, <3>1
    <3>2. CASE n \notin {p, v}
      <4>1. A[n] # p /\ B[n] # p
        BY <2>4, <2>5
      <4>2. h2[A[n]] = h[A[n]] /\ h2[B[n]] = h[B[n]]
        BY <1>2, <1>4, <1>9, <3>2, <4>1
      <4> QED  BY <1>3, <1>9, <3>2, <4>2
    <3> QED  BY <3>1, <3>2
  <2>6. h2[q] = h[q] /\ w2[q] = w[q] /\ h[A[q]] = h[B[q]] /\ h[q] = h[A[q]] + w[q]
    BY <1>3, <1>9, <2>2, <2>3
  <2>7. \A n \in S : Flat(S)[n] = 0 /\ Hole(S, q)[n] = IF n = q THEN 1 ELSE 0
    BY DEF Flat, Hole
  <2>8. Flat(S) \in [S -> {0, 1}] /\ Hole(S, q) \in [S -> {0, 1}]
    BY DEF Flat, Hole
  <2>9. \A n \in S : h2[n] \in Nat /\ h2[A[n]] \in Nat /\ h2[B[n]] \in Nat /\ w2[n] \in {0, 1}
    BY <1>2, <1>4, <1>6 DEF Weights
  <2>10. CASE A[q] = p
    <3>1. B[q] # p
      BY <1>2, <2>2, <2>10, Children
    <3>2. h2[A[q]] + 1 = h2[B[q]] /\ h2[q] = h2[A[q]] + 1 + w2[q]
      <4>1. h2[B[q]] = h[B[q]] /\ h2[A[q]] = h[A[q]] - 1
        BY <1>2, <1>4, <2>2, <2>3, <2>10, <3>1
      <4> QED  BY <1>3, <2>2, <2>6, <4>1
    <3>3. \A n \in S : LevelAt(A, B, w2, h2, Hole(S, q), Flat(S), n)
      BY <2>5, <2>7, <2>9, <3>2 DEF LevelAt
    <3>4. LowAt(S, A, B, P, w2, h2, q, p)
      BY <1>6, <2>1, <2>2, <2>8, <2>10, <3>3 DEF LowAt, Leveled
    <3> QED  BY <1>2, <1>10, <1>12, <3>4 DEF Low, Slack
  <2>11. CASE B[q] = p
    <3>1. A[q] # p
      BY <1>2, <2>2, <2>11, Children
    <3>2. h2[B[q]] + 1 = h2[A[q]] /\ h2[q] = h2[B[q]] + 1 + w2[q]
      <4>1. h2[A[q]] = h[A[q]] /\ h2[B[q]] = h[B[q]] - 1
        BY <1>2, <1>4, <2>2, <2>3, <2>11, <3>1
      <4> QED  BY <1>3, <2>2, <2>6, <4>1
    <3>3. \A n \in S : LevelAt(B, A, w2, h2, Hole(S, q), Flat(S), n)
      BY <2>5, <2>7, <2>9, <3>2 DEF LevelAt
    <3>4. LowAt(S, B, A, P, w2, h2, q, p)
      BY <1>6, <2>1, <2>2, <2>8, <2>11, <3>3 DEF LowAt, Leveled
    <3> QED  BY <1>2, <1>10, <1>12, <3>4 DEF Low, Slack
  <2> QED  BY <2>2, <2>10, <2>11
<1> QED  BY <1>11, <1>12

\* The red child of the sibling on the side of c goes above the sibling.
LEMMA NearRed ==
  ASSUME NEW S, NEW A, NEW B, NEW P, NEW root, NEW sub, NEW w, NEW h, NEW p, NEW c,
         NEW A2, NEW B2, NEW P2, NEW root2, NEW w2,
         Rooted(S, A, B, P, root, sub), Slack(S, A, B, P, root, w, h, p, c),
         w[B[p]] = 1, w[A[B[p]]] = 0, w[B[B[p]]] = 1,
         w2[B[p]] = 0, w2[A[B[p]]] = 1,
         \A n \in S \cup {Sentinel} : n \notin {B[p], A[B[p]]} => w2[n] = w[n],
         Turned(S, B, A, P, root, B2, A2, P2, root2, B[p])
  PROVE  /\ Slack(S, A2, B2, P2, root2, w2, TurnedHeights(B, A, h, Flat(S), B[p]), p, c)
         /\ w2[B2[p]] = 1 /\ w2[B2[B2[p]]] = 0
<1> DEFINE v == B[p]
           y == A[B[p]]
<1>1. SiblingFacts(S, A, B, root, w, h, p, c)
  BY Sibling
<1>2. /\ Sentinel \notin S /\ root \in S /\ p \in S /\ A[p] = c
      /\ v \in S /\ v # p /\ v # c /\ v # root /\ c # p
      /\ \A n \in S : n # p => A[n] # v /\ B[n] # v
      /\ c \in S => \A n \in S : n # p => A[n] # c /\ B[n] # c
      /\ \A n \in S : A[n] \in S \cup {Sentinel} /\ B[n] \in S \cup {Sentinel}
      /\ \A n \in S : w[n] = 0 => w[A[n]] = 1 /\ w[B[n]] = 1
      /\ w[Sentinel] = 1
      /\ \A n \in S : Flat(S)[n] = 0 /\ Hole(S, p)[n] = IF n = p THEN 1 ELSE 0
  BY <1>1 DEF SiblingFacts
<1>3. w[c] = 1 /\ w[root] = 1 /\ P[c] = p /\ c # root
  BY DEF Slack
<1>4. y \in S /\ y # v /\ y # c /\ y # root
  BY <1>2, <1>3, Children
<1>5. y # p /\ B[v] # p /\ B[v] # v
  <2>1. Fork(S, A, B, P, sub, p) /\ Fork(S, A, B, P, sub, v)
    BY <1>2 DEF Rooted
  <2>2. (y = p => p \in sub[v]) /\ (B[v] = p => p \in sub[v])
    BY <1>2, <1>4, <2>1, SubSelf DEF Fork
  <2>3. B[v] # v
    BY <1>2, Children
  <2> QED  BY <2>1, <2>2, <2>3 DEF Fork
<1>6. Rooted(S, B, A, P, root, sub)
  BY RootedSwap
<1>7. Leveled(S, A2, B2, w2, TurnedHeights(B, A, h, Flat(S), v), Hole(S, p), Flat(S))
  <2>1. Leveled(S, B, A, w, h, Flat(S), Hole(S, p))
    BY <1>2, LeveledSwap DEF Slack
  <2>2. Leveled(S, B2, A2, w2, TurnedHeights(B, A, h, Flat(S), v), Flat(S), Hole(S, p))
    BY <1>2, <1>4, <1>5, <1>6, <2>1, TurnedLevel
  <2>3. Rooted(S, B2, A2, P2, root2, TurnedSub(B, A, sub, v))
    BY <1>2, <1>4, <1>6, TurnedRooted
  <2>4. \A n \in S : A2[n] \in S \cup {Sentinel} /\ B2[n] \in S \cup {Sentinel}
    BY <2>3 DEF Rooted, Fork
  <2> QED  BY <2>2, <2>4, LeveledSwap
<1>8. /\ B2[v] = B[v] /\ A2[v] = B[y] /\ B2[y] = v /\ A2[y] = A[y]
      /\ \A n \in S \ {v, y} : A2[n] = Renamed(v, y, A[n]) /\ B2[n] = Renamed(v, y, B[n])
      /\ root2 = Renamed(v, y, root)
  BY DEF Turned
<1>9. A2[p] = c /\ B2[p] = y
  BY <1>2, <1>5, <1>8 DEF Renamed
<1>10. P2[c] = p
  <2>1. CASE c = Sentinel
    BY <1>3, <2>1 DEF Turned
  <2>2. CASE c # Sentinel
    <3>1. c \in S /\ c # B[y]
      BY <1>2, <1>4, <1>5, <2>2
    <3> QED  BY <1>2, <1>3, <1>4, <3>1 DEF Turned
  <2> QED  BY <2>1, <2>2
<1>11. root2 = root /\ w2[root2] = 1 /\ w2[c] = 1 /\ w2[B2[p]] = 1 /\ w2[B2[B2[p]]] = 0
  BY <1>2, <1>3, <1>4, <1>8, <1>9 DEF Renamed
<1>12. \A n \in S : n # v => A[n] # y
  BY <1>2, <1>4, <1>6, ChildOf
<1>13. \A n \in S : n # v => B[n] # y
  BY <1>2, <1>4, <1>6, ChildOf
<1>14. Calm(S, A2, B2, w2, {}, {})
  <2> SUFFICES ASSUME NEW n \in S, w2[n] = 0 PROVE w2[A2[n]] = 1 /\ w2[B2[n]] = 1
    BY DEF Calm
  <2>1. CASE n = v
    <3>1. w[B[y]] = 1 /\ w[B[v]] = 1
      BY <1>2, <1>4
    <3>2. B[y] # v /\ B[y] # y
      BY <1>2, <1>4, <1>5, Children
    <3>3. B[v] # y
      BY <1>2, <1>4, Children
    <3> QED  BY <1>2, <1>4, <1>5, <1>8, <2>1, <3>1, <3>2, <3>3
  <2>2. CASE n # v
    <3>1. n # y /\ w[n] = 0
      BY <2>2
    <3>2. w[A[n]] = 1 /\ w[B[n]] = 1
      BY <1>2, <3>1
    <3> QED  BY <1>2, <1>4, <1>8, <2>2, <3>1, <3>2 DEF Renamed
  <2> QED  BY <2>1, <2>2
<1> QED  BY <1>2, <1>3, <1>7, <1>9, <1>10, <1>11, <1>14 DEF Slack

\* A red child on the other side: the sibling takes the place and the colour of
\* p, and the whole tree is balanced.
LEMMA FarRed ==
  ASSUME NEW S, NEW A, NEW B, NEW P, NEW root, NEW sub, NEW w, NEW h, NEW p, NEW c,
         NEW A2, NEW B2, NEW P2, NEW root2, NEW w2,
         Rooted(S, A, B, P, root, sub), Slack(S, A, B, P, root, w, h, p, c),
         w[B[p]] = 1, w[B[B[p]]] = 0,
         w2[B[p]] = w[p], w2[p] = 1, w2[B[B[p]]] = 1,
         \A n \in S \cup {Sentinel} : n \notin {p, B[p], B[B[p]]} => w2[n] = w[n],
         Turned(S, A, B, P, root, A2, B2, P2, root2, p)
  PROVE  \E h2 : Low(S, A2, B2, P2, root2, w2, h2, root2)
<1> DEFINE v == B[p]
           f == B[B[p]]
           h2 == [h EXCEPT ![p] = h[A[p]] + 1, ![v] = h[p], ![f] = @ + 1]
<1>1. SiblingFacts(S, A, B, root, w, h, p, c)
  BY Sibling
<1>2. /\ Sentinel \notin S /\ root \in S /\ p \in S /\ A[p] = c
      /\ v \in S /\ v # p /\ v # c /\ v # root /\ c # p
      /\ \A n \in S : n # p => A[n] # v /\ B[n] # v
      /\ c \in S => \A n \in S : n # p => A[n] # c /\ B[n] # c
      /\ \A n \in S : A[n] \in S \cup {Sentinel} /\ B[n] \in S \cup {Sentinel}
      /\ \A n \in S : w[n] = 0 => w[A[n]] = 1 /\ w[B[n]] = 1
      /\ w[Sentinel] = 1
  BY <1>1 DEF SiblingFacts
<1>3. /\ \A n \in S : /\ h[n] \in Nat /\ h[A[n]] \in Nat /\ h[B[n]] \in Nat
                      /\ w[n] \in {0, 1}
                      /\ n # p => h[A[n]] = h[B[n]] /\ h[n] = h[A[n]] + w[n]
      /\ h[A[p]] + 1 = h[v] /\ h[p] = h[A[p]] + 1 + w[p]
      /\ h \in [S \cup {Sentinel} -> Nat] /\ w[Sentinel] = 1 /\ h[Sentinel] = 0
  BY <1>1 DEF SiblingFacts
<1>4. w[c] = 1 /\ w[root] = 1
  BY DEF Slack
<1>5. f \in S /\ f # root /\ f # v /\ f # c /\ A[v] # f
      /\ \A n \in S : n # v => A[n] # f /\ B[n] # f
  <2>1. f \in S
    BY <1>2, <1>3
  <2> QED  BY <1>2, <1>4, <2>1, ChildOf
<1>6. f # p /\ A[v] # p /\ A[v] # v
  <2>1. Fork(S, A, B, P, sub, p) /\ Fork(S, A, B, P, sub, v)
    BY <1>2 DEF Rooted
  <2>2. (f = p => p \in sub[v]) /\ (A[v] = p => p \in sub[v])
    BY <1>2, <1>5, <2>1, SubSelf DEF Fork
  <2>3. A[v] # v
    BY <1>2, Children
  <2> QED  BY <2>1, <2>2, <2>3 DEF Fork
<1>7. /\ h2 \in [S \cup {Sentinel} -> Nat]
      /\ h2[p] = h[A[p]] + 1 /\ h2[v] = h[p] /\ h2[f] = h[f] + 1
      /\ \A n \in S \cup {Sentinel} : n \notin {p, v, f} => h2[n] = h[n]
  BY <1>2, <1>3, <1>5, <1>6
<1> HIDE DEF h2
<1>8. /\ A2[p] = A[p] /\ B2[p] = A[v] /\ A2[v] = p /\ B2[v] = f
      /\ \A n \in S \ {p, v} : A2[n] = Renamed(p, v, A[n]) /\ B2[n] = Renamed(p, v, B[n])
      /\ root2 = Renamed(p, v, root)
  BY DEF Turned
<1>9. Weights(S, w2, h2)
  BY <1>2, <1>3, <1>5, <1>7 DEF Weights
<1>10. /\ h[A[v]] = h[f] /\ h[v] = h[f] + 1
       /\ h2[A[v]] = h[A[v]] /\ h2[A[p]] = h[A[p]]
  <2>1. h[A[v]] = h[f] /\ h[v] = h[f] + 1
    BY <1>2, <1>3
  <2>2. A[v] \notin {p, v, f} /\ A[p] \notin {p, v, f}
    BY <1>2, <1>5, <1>6
  <2> QED  BY <1>2, <1>7, <2>1, <2>2
<1>11. LevelAt(A2, B2, w2, h2, Flat(S), Flat(S), p)
  BY <1>2, <1>3, <1>7, <1>8, <1>10 DEF LevelAt, Flat
<1>12. LevelAt(A2, B2, w2, h2, Flat(S), Flat(S), v)
  BY <1>2, <1>3, <1>5, <1>7, <1>8, <1>10 DEF LevelAt, Flat
<1>13. ASSUME NEW n \in S, n \notin {p, v} PROVE LevelAt(A2, B2, w2, h2, Flat(S), Flat(S), n)
  <2>1. A[n] # v /\ B[n] # v /\ A[n] # f /\ B[n] # f
    BY <1>2, <1>5, <1>13
  <2>2. h2[A2[n]] = h[A[n]] /\ h2[B2[n]] = h[B[n]]
    BY <1>2, <1>7, <1>8, <1>13, <2>1 DEF Renamed
  <2>3. h2[n] = h[A[n]] + w2[n]
    <3>1. CASE n = f
      <4>1. w[f] = 0 /\ w2[f] = 1
        OBVIOUS
      <4> QED  BY <1>3, <1>7, <1>13, <3>1, <4>1
    <3>2. CASE n # f
      BY <1>3, <1>7, <1>13, <3>2
    <3> QED  BY <3>1, <3>2
  <2> QED  BY <1>3, <1>13, <2>2, <2>3 DEF LevelAt, Flat
<1>14. Leveled(S, A2, B2, w2, h2, Flat(S), Flat(S))
  <2>1. Flat(S) \in [S -> {0, 1}]
    BY DEF Flat
  <2> QED  BY <1>9, <1>11, <1>12, <1>13, <2>1 DEF Leveled
<1>15. Calm(S, A2, B2, w2, {root2}, {root2})
  <2> SUFFICES ASSUME NEW n \in S, w2[n] = 0 PROVE w2[A2[n]] = 1 /\ w2[B2[n]] = 1
    BY DEF Calm
  <2>1. CASE n = v
    BY <1>8, <2>1
  <2>2. CASE n # v
    <3>1. n # p /\ n # f /\ w[n] = 0
      BY <2>2
    <3>2. w[A[n]] = 1 /\ w[B[n]] = 1 /\ A[n] # v /\ B[n] # v /\ A[n] # f /\ B[n] # f
      BY <1>2, <1>5, <2>2, <3>1
    <3>3. A[n] = p \/ B[n] = p => w[p] = 1
      BY <3>2
    <3> QED  BY <1>2, <1>8, <2>2, <3>1, <3>2, <3>3 DEF Renamed
  <2> QED  BY <2>1, <2>2
<1>16. root2 \in S
  BY <1>2, <1>8 DEF Renamed
<1> QED  BY <1>14, <1>15, <1>16 DEF Low

-----------------------------------------------------------------------------
(* Taking a node out *)

\* Node z, a child of up on the side of A, gives its place to its child c.
CutAt(S, A, B, P, A1, B1, P1, z, up, c) ==
    /\ A1[up] = c /\ \A n \in S \ {z, up} : A1[n] = A[n]
    /\ \A n \in S \ {z} : B1[n] = B[n]
    /\ P1[c] = up /\ \A n \in S \ {z, c} : P1[n] = P[n]

\* z has no other child than c.
Lone(A, B, z, c) == (A[z] = Sentinel /\ B[z] = c) \/ (B[z] = Sentinel /\ A[z] = c)

Without(S, f, z) == [n \in (S \ {z}) \cup {Sentinel} |-> f[n]]

CutSub(S, sub, z) == [n \in (S \ {z}) \cup {Sentinel} |-> sub[n] \ {z}]

CutFacts(S, A, B, root, sub, A1, B1, z, up, c) ==
    /\ Sentinel \notin S /\ up \in S \ {z} /\ c \in (S \ {z}) \cup {Sentinel}
    /\ c # up /\ z # root /\ c # root
    /\ sub[z] = {z} \cup sub[c] /\ z \notin sub[c]
    /\ \A n \in S \ {z} : /\ A[n] = z <=> n = up
                          /\ B[n] # z
                          /\ A[n] = c => c = Sentinel
                          /\ B[n] = c => c = Sentinel
                          /\ A1[n] = IF n = up THEN c ELSE A[n]
                          /\ B1[n] = B[n]

LEMMA CutShape ==
  ASSUME NEW S, NEW A, NEW B, NEW P, NEW root, NEW sub,
         NEW A1, NEW B1, NEW P1, NEW z \in S, NEW up \in S, NEW c,
         Rooted(S, A, B, P, root, sub), A[up] = z, Lone(A, B, z, c),
         CutAt(S, A, B, P, A1, B1, P1, z, up, c)
  PROVE  CutFacts(S, A, B, root, sub, A1, B1, z, up, c)
<1>1. Sentinel \notin S /\ Fork(S, A, B, P, sub, z) /\ Fork(S, A, B, P, sub, up)
      /\ sub[Sentinel] = {} /\ sub[root] = S
  BY DEF Rooted
<1>2. Rooted(S, B, A, P, root, sub)
  BY RootedSwap
<1>3. z # up /\ z # root /\ \A n \in S : n # up => A[n] # z /\ B[n] # z
  BY <1>2, ChildOf
<1>4. B[up] # z
  BY <1>1, Children
<1>5. c \in S \cup {Sentinel} /\ c # z
  <2>1. A[z] # z /\ B[z] # z
    BY Children
  <2> QED  BY <1>1, <2>1 DEF Lone, Fork
<1>6. sub[z] = {z} \cup sub[c] /\ z \notin sub[c]
  BY <1>1 DEF Lone, Fork
<1>7. c # up
  <2>1. up \notin sub[z]
    BY <1>1 DEF Fork
  <2> QED  BY <1>1, <1>5, <1>6, <2>1, SubSelf
<1>8. c \in S => \A n \in S : n # z => A[n] # c /\ B[n] # c
  <2>1. SUFFICES ASSUME c \in S PROVE \A n \in S : n # z => A[n] # c /\ B[n] # c
    OBVIOUS
  <2>2. CASE A[z] = c
    BY <1>2, <2>1, <2>2, ChildOf
  <2>3. CASE B[z] = c
    BY <2>1, <2>3, ChildOf
  <2> QED  BY <2>2, <2>3 DEF Lone
<1>9. c # root
  <2>1. CASE c = Sentinel
    BY <1>1, <2>1
  <2>2. CASE c \in S
    BY <1>1, <1>6
  <2> QED  BY <1>5, <2>1, <2>2
<1> QED  BY <1>1, <1>3, <1>4, <1>5, <1>6, <1>7, <1>8, <1>9 DEF CutAt, CutFacts

LEMMA CutRooted ==
  ASSUME NEW S, NEW A, NEW B, NEW P, NEW root, NEW sub,
         NEW A1, NEW B1, NEW P1, NEW z \in S, NEW up \in S, NEW c,
         Rooted(S, A, B, P, root, sub), A[up] = z, Lone(A, B, z, c),
         CutAt(S, A, B, P, A1, B1, P1, z, up, c)
  PROVE  /\ Rooted(S \ {z}, A1, B1, P1, root, CutSub(S, sub, z))
         /\ \A n \in S \ {z} : /\ CutSub(S, sub, z)[A1[n]] \subseteq sub[A[n]]
                               /\ CutSub(S, sub, z)[B1[n]] \subseteq sub[B[n]]
<1> DEFINE S1 == S \ {z}
           sub1 == CutSub(S, sub, z)
<1>1. /\ Sentinel \notin S /\ up \in S1 /\ c \in S1 \cup {Sentinel}
      /\ c # up /\ z # root /\ c # root
      /\ sub[z] = {z} \cup sub[c] /\ z \notin sub[c]
      /\ \A n \in S1 : /\ A[n] = z <=> n = up
                       /\ B[n] # z
                       /\ A[n] = c => c = Sentinel
                       /\ B[n] = c => c = Sentinel
                       /\ A1[n] = IF n = up THEN c ELSE A[n]
                       /\ B1[n] = B[n]
  <2>1. CutFacts(S, A, B, root, sub, A1, B1, z, up, c)
    BY CutShape
  <2> QED  BY <2>1 DEF CutFacts
<1>2. /\ IsFiniteSet(S1) /\ root \in S1 \cup {Sentinel} /\ sub[Sentinel] = {} /\ sub[root] = S
      /\ sub \in [S \cup {Sentinel} -> SUBSET S]
  BY <1>1, FS_Subset DEF Rooted
<1>3. /\ sub1 \in [S1 \cup {Sentinel} -> SUBSET S1]
      /\ \A n \in S1 \cup {Sentinel} : sub1[n] = sub[n] \ {z}
  BY <1>2 DEF CutSub
<1> HIDE DEF sub1
<1>4. ASSUME NEW n \in S1
      PROVE  /\ Fork(S1, A1, B1, P1, sub1, n)
             /\ sub1[A1[n]] = sub[A[n]] \ {z} /\ sub1[B1[n]] = sub[B[n]] \ {z}
  <2>1. Fork(S, A, B, P, sub, n)
    BY DEF Rooted
  <2>2. A1[n] \in S1 \cup {Sentinel} /\ B1[n] \in S1 \cup {Sentinel}
    BY <1>1, <2>1 DEF Fork
  <2>3. sub1[A1[n]] = sub[A[n]] \ {z} /\ sub1[B1[n]] = sub[B[n]] \ {z} /\ sub1[n] = sub[n] \ {z}
    BY <1>1, <1>3, <2>2
  <2>4. A1[n] # Sentinel => P1[A1[n]] = n
    BY <1>1, <2>1, <2>2 DEF Fork, CutAt
  <2>5. B1[n] # Sentinel => P1[B1[n]] = n
    BY <1>1, <2>1, <2>2 DEF Fork, CutAt
  <2> QED  BY <2>1, <2>2, <2>3, <2>4, <2>5 DEF Fork
<1>5. sub1[Sentinel] = {} /\ sub1[root] = S1
  BY <1>2, <1>3
<1>6. Rooted(S1, A1, B1, P1, root, sub1)
  BY <1>1, <1>2, <1>3, <1>4, <1>5 DEF Rooted
<1> QED  BY <1>4, <1>6 DEF sub1

LEMMA OrdShrink ==
  ASSUME NEW S, NEW A, NEW B, NEW sub, NEW pos, NEW A1, NEW B1, NEW sub1,
         NEW S1 \in SUBSET S, Ord(S, A, B, sub, pos),
         \A n \in S1 : sub1[A1[n]] \subseteq sub[A[n]] /\ sub1[B1[n]] \subseteq sub[B[n]]
  PROVE  Ord(S1, A1, B1, sub1, pos)
<1>1. \A x \in S1 : \A y \in sub1[A1[x]] : pos[y] < pos[x]
  BY DEF Ord
<1>2. \A x \in S1 : \A y \in sub1[B1[x]] : pos[x] < pos[y]
  BY DEF Ord
<1> QED  BY <1>1, <1>2 DEF Ord

LEMMA CutHeights ==
  ASSUME NEW S, NEW A, NEW B, NEW P, NEW root, NEW sub, NEW w, NEW h,
         NEW A1, NEW B1, NEW P1, NEW z \in S, NEW up \in S, NEW c,
         Rooted(S, A, B, P, root, sub), A[up] = z, Lone(A, B, z, c),
         CutAt(S, A, B, P, A1, B1, P1, z, up, c),
         Leveled(S, A, B, w, h, Flat(S), Flat(S)), Calm(S, A, B, w, {}, {}), w[root] = 1
  PROVE  /\ w[z] = 1 => Low(S \ {z}, A1, B1, P1, root, w, Without(S, h, z), c)
         /\ w[z] = 0 => /\ Leveled(S \ {z}, A1, B1, w, Without(S, h, z), Flat(S \ {z}), Flat(S \ {z}))
                        /\ Calm(S \ {z}, A1, B1, w, {}, {})
<1> DEFINE S1 == S \ {z}
           h1 == Without(S, h, z)
<1>1. /\ Sentinel \notin S /\ up \in S1 /\ c \in S1 \cup {Sentinel}
      /\ c # up /\ z # root /\ c # root
      /\ \A n \in S1 : /\ A[n] = z <=> n = up
                       /\ B[n] # z
                       /\ A1[n] = IF n = up THEN c ELSE A[n]
                       /\ B1[n] = B[n]
  <2>1. CutFacts(S, A, B, root, sub, A1, B1, z, up, c)
    BY CutShape
  <2> QED  BY <2>1 DEF CutFacts
<1>2. \A n \in S : A[n] \in S \cup {Sentinel} /\ B[n] \in S \cup {Sentinel}
  BY DEF Rooted, Fork
<1>3. \A n \in S : /\ h[n] \in Nat /\ h[A[n]] \in Nat /\ h[B[n]] \in Nat
                   /\ w[n] \in {0, 1} /\ h[A[n]] = h[B[n]] /\ h[n] = h[A[n]] + w[n]
  BY <1>2 DEF Leveled, LevelAt, Weights, Flat
<1>4. h \in [S \cup {Sentinel} -> Nat] /\ w[Sentinel] = 1 /\ h[Sentinel] = 0
  BY DEF Leveled, Weights
<1>5. h1 \in [S1 \cup {Sentinel} -> Nat] /\ \A n \in S1 \cup {Sentinel} : h1[n] = h[n]
  BY <1>4 DEF Without
<1> HIDE DEF h1
<1>6. Weights(S1, w, h1)
  BY <1>3, <1>4, <1>5 DEF Weights
<1>7. \A n \in S : w[n] = 0 => w[A[n]] = 1 /\ w[B[n]] = 1
  BY DEF Calm
<1>8. h[z] = h[c] + w[z]
  BY <1>3 DEF Lone
<1>9. \A n \in S1 : n # up => /\ h1[A1[n]] = h1[B1[n]] /\ h1[n] = h1[A1[n]] + w[n]
                              /\ A1[n] = A[n] /\ B1[n] = B[n]
  <2> SUFFICES ASSUME NEW n \in S1, n # up
               PROVE  /\ h1[A1[n]] = h1[B1[n]] /\ h1[n] = h1[A1[n]] + w[n]
                      /\ A1[n] = A[n] /\ B1[n] = B[n]
    OBVIOUS
  <2>1. A1[n] = A[n] /\ B1[n] = B[n] /\ A[n] \in S1 \cup {Sentinel} /\ B[n] \in S1 \cup {Sentinel}
    BY <1>1, <1>2
  <2> QED  BY <1>3, <1>5, <2>1
<1>10. /\ h1[A1[up]] = h[c] /\ h1[B1[up]] = h[B[up]] /\ h1[up] = h[up]
       /\ h[z] = h[B[up]] /\ h[up] = h[z] + w[up]
  <2>1. A1[up] = c /\ B1[up] = B[up] /\ B[up] \in S1 \cup {Sentinel} /\ A[up] = z /\ up \in S
    BY <1>1, <1>2
  <2>2. h1[A1[up]] = h[c] /\ h1[B1[up]] = h[B[up]] /\ h1[up] = h[up]
    BY <1>1, <1>5, <2>1
  <2> QED  BY <1>3, <2>1, <2>2
<1>11. \A n \in S1 : h1[n] \in Nat /\ h1[A1[n]] \in Nat /\ h1[B1[n]] \in Nat /\ w[n] \in {0, 1}
  <2>1. \A n \in S1 : A1[n] \in S1 \cup {Sentinel} /\ B1[n] \in S1 \cup {Sentinel}
    BY <1>1, <1>2
  <2> QED  BY <1>3, <1>5, <2>1
<1>12. ASSUME w[z] = 1 PROVE Low(S1, A1, B1, P1, root, w, h1, c)
  <2>1. \A n \in S1 : Flat(S1)[n] = 0 /\ Hole(S1, up)[n] = IF n = up THEN 1 ELSE 0
    BY DEF Flat, Hole
  <2>2. \A n \in S1 : LevelAt(A1, B1, w, h1, Hole(S1, up), Flat(S1), n)
    <3>1. h1[A1[up]] + 1 = h1[B1[up]] /\ h1[up] = h1[A1[up]] + 1 + w[up]
      BY <1>1, <1>8, <1>10, <1>11, <1>12
    <3>2. \A n \in S1 : n # up => LevelAt(A1, B1, w, h1, Hole(S1, up), Flat(S1), n)
      BY <1>9, <1>11, <2>1 DEF LevelAt
    <3>3. LevelAt(A1, B1, w, h1, Hole(S1, up), Flat(S1), up)
      <4>1. Hole(S1, up)[up] = 1 /\ Flat(S1)[up] = 0 /\ h1[B1[up]] \in Nat
        BY <1>1, <1>11, <2>1
      <4> QED  BY <3>1, <4>1 DEF LevelAt
    <3> QED  BY <3>2, <3>3
  <2>3. Flat(S1) \in [S1 -> {0, 1}] /\ Hole(S1, up) \in [S1 -> {0, 1}]
    BY DEF Flat, Hole
  <2>4. LowAt(S1, A1, B1, P1, w, h1, up, c)
    BY <1>1, <1>6, <2>2, <2>3 DEF LowAt, Leveled, CutAt
  <2>5. Calm(S1, A1, B1, w, {c}, {c})
    <3> SUFFICES ASSUME NEW n \in S1, w[n] = 0
                 PROVE  (A1[n] = c \/ w[A1[n]] = 1) /\ (B1[n] = c \/ w[B1[n]] = 1)
      BY DEF Calm
    <3> QED  BY <1>1, <1>7
  <2> QED  BY <1>1, <2>4, <2>5 DEF Low
<1>13. ASSUME w[z] = 0
       PROVE  Leveled(S1, A1, B1, w, h1, Flat(S1), Flat(S1)) /\ Calm(S1, A1, B1, w, {}, {})
  <2>1. \A n \in S1 : Flat(S1)[n] = 0
    BY DEF Flat
  <2>2. \A n \in S1 : LevelAt(A1, B1, w, h1, Flat(S1), Flat(S1), n)
    <3>1. h1[A1[up]] = h1[B1[up]] /\ h1[up] = h1[A1[up]] + w[up]
      BY <1>1, <1>8, <1>10, <1>11, <1>13
    <3>2. ASSUME NEW n \in S1, n # up PROVE LevelAt(A1, B1, w, h1, Flat(S1), Flat(S1), n)
      <4>1. /\ h1[A1[n]] = h1[B1[n]] /\ h1[n] = h1[A1[n]] + w[n]
            /\ h1[A1[n]] \in Nat /\ h1[B1[n]] \in Nat /\ Flat(S1)[n] = 0
        BY <1>9, <1>11, <2>1, <3>2
      <4> QED  BY <4>1 DEF LevelAt
    <3>3. LevelAt(A1, B1, w, h1, Flat(S1), Flat(S1), up)
      <4>1. Flat(S1)[up] = 0 /\ h1[A1[up]] \in Nat /\ h1[B1[up]] \in Nat
        BY <1>1, <1>11, <2>1
      <4> QED  BY <3>1, <4>1 DEF LevelAt
    <3> QED  BY <3>2, <3>3
  <2>3. Flat(S1) \in [S1 -> {0, 1}]
    BY DEF Flat
  <2>4. Calm(S1, A1, B1, w, {}, {})
    <3> SUFFICES ASSUME NEW n \in S1, w[n] = 0 PROVE w[A1[n]] = 1 /\ w[B1[n]] = 1
      BY DEF Calm
    <3>1. w[c] = 1
      BY <1>7, <1>13 DEF Lone
    <3> QED  BY <1>1, <1>7, <3>1
  <2> QED  BY <1>6, <2>2, <2>3, <2>4 DEF Leveled
<1> QED  BY <1>12, <1>13 DEF h1

\* A node z from outside takes the place of x.
RelabelAt(S, A, B, P, root, A2, B2, P2, root2, x, z) ==
    /\ A2[z] = A[x] /\ B2[z] = B[x]
    /\ \A n \in S \ {x} : A2[n] = Renamed(x, z, A[n]) /\ B2[n] = Renamed(x, z, B[n])
    /\ root2 = Renamed(x, z, root) /\ P2[z] = P[x]
    /\ A[x] # Sentinel => P2[A[x]] = z
    /\ B[x] # Sentinel => P2[B[x]] = z
    /\ \A n \in S \ {x, A[x], B[x]} : P2[n] = P[n]

Instead(S, x, z) == (S \ {x}) \cup {z}

Swapped(T, x, z) == IF x \in T THEN Instead(T, x, z) ELSE T

RelabelSub(S, sub, x, z) ==
    [n \in Instead(S, x, z) \cup {Sentinel} |-> Swapped(sub[Renamed(z, x, n)], x, z)]

Relabelled(S, f, x, z) ==
    [n \in Instead(S, x, z) \cup {Sentinel} |-> f[Renamed(z, x, n)]]

\* The children of n after the change, and of the node that it stands for.
LEMMA RelabelLinks ==
  ASSUME NEW S, NEW A, NEW B, NEW P, NEW root, NEW sub,
         NEW A2, NEW B2, NEW P2, NEW root2, NEW x \in S, NEW z,
         Rooted(S, A, B, P, root, sub), z \notin S, z # Sentinel,
         RelabelAt(S, A, B, P, root, A2, B2, P2, root2, x, z),
         NEW n \in Instead(S, x, z)
  PROVE  /\ Renamed(z, x, n) \in S
         /\ A2[n] = Renamed(x, z, A[Renamed(z, x, n)])
         /\ B2[n] = Renamed(x, z, B[Renamed(z, x, n)])
<1>1. A[x] # x /\ B[x] # x
  BY Children
<1> QED  BY <1>1 DEF RelabelAt, Instead, Renamed

LEMMA RelabelRooted ==
  ASSUME NEW S, NEW A, NEW B, NEW P, NEW root, NEW sub,
         NEW A2, NEW B2, NEW P2, NEW root2, NEW x \in S, NEW z,
         Rooted(S, A, B, P, root, sub), z \notin S, z # Sentinel,
         RelabelAt(S, A, B, P, root, A2, B2, P2, root2, x, z)
  PROVE  Rooted(Instead(S, x, z), A2, B2, P2, root2, RelabelSub(S, sub, x, z))
<1> DEFINE S2 == Instead(S, x, z)
           sub2 == RelabelSub(S, sub, x, z)
<1>1. /\ IsFiniteSet(S) /\ Sentinel \notin S /\ root \in S \cup {Sentinel}
      /\ sub \in [S \cup {Sentinel} -> SUBSET S]
      /\ sub[Sentinel] = {} /\ sub[root] = S
  BY DEF Rooted
<1>2. IsFiniteSet(S2)
  <2>1. IsFiniteSet(S \ {x})
    BY <1>1, FS_Subset
  <2> QED  BY <2>1, FS_AddElement DEF Instead
<1>3. \A n \in S2 \cup {Sentinel} : /\ Renamed(z, x, n) \in S \cup {Sentinel}
                                    /\ sub2[n] = Swapped(sub[Renamed(z, x, n)], x, z)
  BY <1>1 DEF RelabelSub, Renamed, Instead
<1>4. \A n \in S \cup {Sentinel} : /\ Renamed(x, z, n) \in S2 \cup {Sentinel}
                                   /\ Renamed(z, x, Renamed(x, z, n)) = n
                                   /\ sub2[Renamed(x, z, n)] = Swapped(sub[n], x, z)
  <2> SUFFICES ASSUME NEW n \in S \cup {Sentinel}
               PROVE  /\ Renamed(x, z, n) \in S2 \cup {Sentinel}
                      /\ Renamed(z, x, Renamed(x, z, n)) = n
                      /\ sub2[Renamed(x, z, n)] = Swapped(sub[n], x, z)
    OBVIOUS
  <2>1. Renamed(x, z, n) \in S2 \cup {Sentinel} /\ Renamed(z, x, Renamed(x, z, n)) = n
    BY <1>1 DEF Renamed, Instead
  <2> QED  BY <1>3, <2>1
<1>5. sub2 \in [S2 \cup {Sentinel} -> SUBSET S2]
  <2>1. \A n \in S \cup {Sentinel} : Swapped(sub[n], x, z) \in SUBSET S2
    BY <1>1 DEF Swapped, Instead
  <2> QED  BY <1>3, <2>1 DEF RelabelSub
<1> HIDE DEF sub2, S2
<1>6. root2 \in S2 \cup {Sentinel} /\ sub2[root2] = S2
  BY <1>1, <1>4 DEF RelabelAt, Swapped, S2
<1>7. sub2[Sentinel] = {} /\ Sentinel \notin S2
  BY <1>1, <1>3 DEF S2, Instead, Swapped, Renamed
<1>8. ASSUME NEW n \in S2 PROVE Fork(S2, A2, B2, P2, sub2, n)
  <2> DEFINE m == Renamed(z, x, n)
  <2>1. m \in S /\ A2[n] = Renamed(x, z, A[m]) /\ B2[n] = Renamed(x, z, B[m]) /\ n = Renamed(x, z, m)
    <3>1. m \in S /\ A2[n] = Renamed(x, z, A[m]) /\ B2[n] = Renamed(x, z, B[m])
      BY RelabelLinks DEF S2
    <3> QED  BY <3>1 DEF S2, Instead, Renamed
  <2> HIDE DEF m
  <2>2. Fork(S, A, B, P, sub, m)
    BY <2>1 DEF Rooted
  <2>3. sub2[A2[n]] = Swapped(sub[A[m]], x, z) /\ sub2[B2[n]] = Swapped(sub[B[m]], x, z)
        /\ sub2[n] = Swapped(sub[m], x, z)
    BY <1>4, <2>1, <2>2 DEF Fork
  <2>4. A2[n] \in S2 \cup {Sentinel} /\ B2[n] \in S2 \cup {Sentinel}
    BY <1>4, <2>1, <2>2 DEF Fork
  <2>5. n \notin Swapped(sub[A[m]], x, z) /\ n \notin Swapped(sub[B[m]], x, z)
    <3>1. sub[A[m]] \subseteq S /\ sub[B[m]] \subseteq S
      BY <1>1, <2>2 DEF Fork
    <3> QED  BY <2>1, <2>2, <3>1 DEF Fork, Swapped, Instead, Renamed
  <2>6. Swapped(sub[A[m]], x, z) \cap Swapped(sub[B[m]], x, z) = {}
    <3>1. sub[A[m]] \subseteq S /\ sub[B[m]] \subseteq S /\ sub[A[m]] \cap sub[B[m]] = {}
      BY <1>1, <2>2 DEF Fork
    <3> QED  BY <3>1 DEF Swapped, Instead
  <2>7. Swapped(sub[m], x, z) = {n} \cup Swapped(sub[A[m]], x, z) \cup Swapped(sub[B[m]], x, z)
    <3>1. sub[m] = {m} \cup sub[A[m]] \cup sub[B[m]] /\ m \notin sub[A[m]] /\ m \notin sub[B[m]]
          /\ sub[A[m]] \cap sub[B[m]] = {}
      BY <2>2 DEF Fork
    <3>2. CASE m = x
      <4>1. n = z
        BY <2>1, <3>2 DEF Renamed
      <4> QED  BY <3>1, <3>2, <4>1 DEF Swapped, Instead
    <3>3. CASE m # x
      <4>1. n = m
        BY <2>1, <3>3 DEF Renamed
      <4> QED  BY <3>1, <3>3, <4>1 DEF Swapped, Instead
    <3> QED  BY <3>2, <3>3
  <2>8. ASSUME NEW c \in {A[m], B[m]}, c # Sentinel PROVE P2[Renamed(x, z, c)] = n
    <3>1. c \in S /\ P[c] = m
      BY <2>2, <2>8 DEF Fork
    <3>2. CASE c = x
      <4>1. m # x
        BY <2>1, <3>2, Children
      <4> QED  BY <2>1, <3>1, <3>2, <4>1 DEF Renamed, RelabelAt
    <3>3. CASE c # x
      <4>1. CASE m = x
        BY <2>1, <2>8, <3>3, <4>1 DEF Renamed, RelabelAt
      <4>2. CASE m # x
        <5>1. Fork(S, A, B, P, sub, x)
          BY DEF Rooted
        <5>2. c # A[x] /\ c # B[x]
          BY <2>8, <3>1, <4>2, <5>1 DEF Fork
        <5> QED  BY <2>1, <3>1, <3>3, <4>2, <5>2 DEF Renamed, RelabelAt
      <4> QED  BY <4>1, <4>2
    <3> QED  BY <3>2, <3>3
  <2>9. (A2[n] # Sentinel => A[m] # Sentinel) /\ (B2[n] # Sentinel => B[m] # Sentinel)
    BY <1>1, <2>1 DEF Renamed
  <2> QED  BY <2>1, <2>3, <2>4, <2>5, <2>6, <2>7, <2>8, <2>9 DEF Fork
<1> QED  BY <1>2, <1>5, <1>6, <1>7, <1>8 DEF Rooted, S2, sub2

\* z stands in the order where x stood.
LEMMA RelabelOrd ==
  ASSUME NEW S, NEW A, NEW B, NEW P, NEW root, NEW sub, NEW pos,
         NEW A2, NEW B2, NEW P2, NEW root2, NEW x \in S, NEW z,
         Rooted(S, A, B, P, root, sub), z \notin S, z # Sentinel,
         RelabelAt(S, A, B, P, root, A2, B2, P2, root2, x, z),
         Ord(S, A, B, sub, pos),
         pos[z] \in Int, \A n \in S \ {x} : pos[n] # pos[z],
         \A n \in S : x \in sub[A[n]] => pos[z] < pos[n],
         \A n \in S : x \in sub[B[n]] => pos[n] < pos[z],
         \A n \in sub[A[x]] : pos[n] < pos[z],
         \A n \in sub[B[x]] : pos[z] < pos[n]
  PROVE  Ord(Instead(S, x, z), A2, B2, RelabelSub(S, sub, x, z), pos)
<1> DEFINE S2 == Instead(S, x, z)
           sub2 == RelabelSub(S, sub, x, z)
<1>1. Sentinel \notin S /\ \A n \in S : Fork(S, A, B, P, sub, n)
  BY DEF Rooted
<1>2. \A n \in S \cup {Sentinel} : sub2[Renamed(x, z, n)] = Swapped(sub[n], x, z)
  BY <1>1 DEF RelabelSub, Renamed, Instead
<1>3. \A n \in S2 : pos[n] \in Int /\ \A m \in S2 : pos[n] = pos[m] => n = m
  BY DEF Ord, Instead
<1>4. ASSUME NEW n \in S2
      PROVE  /\ \A y \in sub2[A2[n]] : pos[y] < pos[n]
             /\ \A y \in sub2[B2[n]] : pos[n] < pos[y]
  <2> DEFINE m == Renamed(z, x, n)
  <2>1. m \in S /\ A2[n] = Renamed(x, z, A[m]) /\ B2[n] = Renamed(x, z, B[m])
    BY RelabelLinks
  <2>2. m \in S /\ (n = z => m = x) /\ (n # z => m = n /\ n \in S)
    BY <2>1 DEF Renamed, Instead
  <2> HIDE DEF m
  <2>3. Fork(S, A, B, P, sub, m)
    BY <1>1, <2>2
  <2>4. sub2[A2[n]] = Swapped(sub[A[m]], x, z) /\ sub2[B2[n]] = Swapped(sub[B[m]], x, z)
    BY <1>2, <2>1, <2>3 DEF Fork
  <2>5. /\ \A y \in sub[A[m]] : pos[y] < pos[m]
        /\ \A y \in sub[B[m]] : pos[m] < pos[y]
        /\ x \in sub[A[m]] => pos[z] < pos[m]
        /\ x \in sub[B[m]] => pos[m] < pos[z]
    BY <2>2 DEF Ord
  <2>6. CASE n = z
    <3>1. m = x /\ x \notin sub[A[m]] /\ x \notin sub[B[m]]
      BY <2>2, <2>3, <2>6 DEF Fork
    <3> QED  BY <2>4, <2>6, <3>1 DEF Swapped
  <2>7. CASE n # z
    <3>1. m = n
      BY <2>2, <2>7
    <3> QED  BY <2>4, <2>5, <3>1 DEF Swapped, Instead
  <2> QED  BY <2>6, <2>7
<1> HIDE DEF sub2, S2
<1>5. Ord(S2, A2, B2, sub2, pos)
  BY <1>3, <1>4 DEF Ord
<1> QED  BY <1>5 DEF sub2, S2

LEMMA RelabelLevel ==
  ASSUME NEW S, NEW A, NEW B, NEW P, NEW root, NEW sub, NEW w, NEW h, NEW da, NEW db,
         NEW A2, NEW B2, NEW P2, NEW root2, NEW x \in S, NEW z, NEW w2,
         Rooted(S, A, B, P, root, sub), z \notin S, z # Sentinel,
         RelabelAt(S, A, B, P, root, A2, B2, P2, root2, x, z),
         w2[z] = w[x], \A n \in S \cup {Sentinel} : n # x => w2[n] = w[n],
         Leveled(S, A, B, w, h, da, db),
         NEW da2 \in [Instead(S, x, z) -> {0, 1}], NEW db2 \in [Instead(S, x, z) -> {0, 1}],
         \A n \in Instead(S, x, z) : /\ da2[n] = da[Renamed(z, x, n)]
                                     /\ db2[n] = db[Renamed(z, x, n)]
  PROVE  Leveled(Instead(S, x, z), A2, B2, w2, Relabelled(S, h, x, z), da2, db2)
<1> DEFINE S2 == Instead(S, x, z)
           h2 == Relabelled(S, h, x, z)
<1>1. Sentinel \notin S /\ \A n \in S : A[n] \in S \cup {Sentinel} /\ B[n] \in S \cup {Sentinel}
  BY DEF Rooted, Fork
<1>2. /\ h \in [S \cup {Sentinel} -> Nat] /\ w[Sentinel] = 1 /\ h[Sentinel] = 0
      /\ \A n \in S \cup {Sentinel} : w[n] \in {0, 1}
  BY DEF Leveled, Weights
<1>3. \A n \in S \cup {Sentinel} : h2[Renamed(x, z, n)] = h[n] /\ w2[Renamed(x, z, n)] = w[n]
  BY <1>1 DEF Relabelled, Renamed, Instead
<1>4. \A n \in S2 : Renamed(z, x, n) \in S /\ n = Renamed(x, z, Renamed(z, x, n))
  BY <1>1 DEF Renamed, Instead
<1>5. h2[Sentinel] = 0 /\ w2[Sentinel] = 1
  <2>1. Renamed(x, z, Sentinel) = Sentinel
    BY <1>1 DEF Renamed
  <2> QED  BY <1>2, <1>3, <2>1
<1>6. \A n \in S2 \cup {Sentinel} : Renamed(z, x, n) \in S \cup {Sentinel}
  BY <1>1, <1>4 DEF Renamed
<1>7. h2 \in [S2 \cup {Sentinel} -> Nat]
  BY <1>2, <1>6 DEF Relabelled
<1>8. \A n \in S2 : w2[n] \in {0, 1}
  BY <1>2, <1>3, <1>4
<1> HIDE DEF h2
<1>9. ASSUME NEW n \in S2 PROVE LevelAt(A2, B2, w2, h2, da2, db2, n)
  <2> DEFINE m == Renamed(z, x, n)
  <2>1. /\ m \in S /\ A2[n] = Renamed(x, z, A[m]) /\ B2[n] = Renamed(x, z, B[m])
    BY RelabelLinks
  <2>2. n = Renamed(x, z, m) /\ da2[n] = da[m] /\ db2[n] = db[m]
    BY <1>4
  <2> HIDE DEF m
  <2>3. h2[A2[n]] = h[A[m]] /\ h2[B2[n]] = h[B[m]] /\ h2[n] = h[m] /\ w2[n] = w[m]
    BY <1>1, <1>3, <2>1, <2>2
  <2>4. LevelAt(A, B, w, h, da, db, m)
    BY <2>1 DEF Leveled
  <2> QED  BY <2>2, <2>3, <2>4 DEF LevelAt
<1>10. Weights(S2, w2, h2)
  BY <1>5, <1>7, <1>8, <1>2 DEF Weights
<1> QED  BY <1>9, <1>10 DEF Leveled, h2

LEMMA RelabelFlat ==
  ASSUME NEW S, NEW A, NEW B, NEW P, NEW root, NEW sub, NEW w, NEW h,
         NEW A2, NEW B2, NEW P2, NEW root2, NEW x \in S, NEW z, NEW w2,
         Rooted(S, A, B, P, root, sub), z \notin S, z # Sentinel,
         RelabelAt(S, A, B, P, root, A2, B2, P2, root2, x, z),
         w2[z] = w[x], \A n \in S \cup {Sentinel} : n # x => w2[n] = w[n],
         Leveled(S, A, B, w, h, Flat(S), Flat(S))
  PROVE  Leveled(Instead(S, x, z), A2, B2, w2, Relabelled(S, h, x, z),
                 Flat(Instead(S, x, z)), Flat(Instead(S, x, z)))
<1>1. Flat(Instead(S, x, z)) \in [Instead(S, x, z) -> {0, 1}]
  BY DEF Flat
<1>2. \A n \in Instead(S, x, z) : Flat(Instead(S, x, z))[n] = Flat(S)[Renamed(z, x, n)]
  BY DEF Flat, Instead, Renamed
<1> QED  BY <1>1, <1>2, RelabelLevel

LEMMA RelabelCalm ==
  ASSUME NEW S, NEW A, NEW B, NEW P, NEW root, NEW sub, NEW w,
         NEW A2, NEW B2, NEW P2, NEW root2, NEW x \in S, NEW z, NEW w2, NEW X,
         Rooted(S, A, B, P, root, sub), z \notin S, z # Sentinel,
         RelabelAt(S, A, B, P, root, A2, B2, P2, root2, x, z),
         w2[z] = w[x], \A n \in S \cup {Sentinel} : n # x => w2[n] = w[n],
         Calm(S, A, B, w, X, X), x \notin X, z \notin X
  PROVE  Calm(Instead(S, x, z), A2, B2, w2, X, X)
<1> SUFFICES ASSUME NEW n \in Instead(S, x, z), n \notin X, w2[n] = 0
             PROVE  (A2[n] \in X \/ w2[A2[n]] = 1) /\ (B2[n] \in X \/ w2[B2[n]] = 1)
  BY DEF Calm
<1> DEFINE m == Renamed(z, x, n)
<1>1. /\ m \in S /\ A2[n] = Renamed(x, z, A[m]) /\ B2[n] = Renamed(x, z, B[m])
  BY RelabelLinks
<1>2. m \notin X /\ w[m] = 0
  BY <1>1 DEF Renamed, Instead
<1> HIDE DEF m
<1>3. A[m] \in S \cup {Sentinel} /\ B[m] \in S \cup {Sentinel}
  BY <1>1 DEF Rooted, Fork
<1>4. (A[m] \in X \/ w[A[m]] = 1) /\ (B[m] \in X \/ w[B[m]] = 1)
  BY <1>1, <1>2 DEF Calm
<1> QED  BY <1>1, <1>3, <1>4 DEF Renamed

LEMMA RelabelLowAt ==
  ASSUME NEW S, NEW A, NEW B, NEW P, NEW root, NEW sub, NEW w, NEW h, NEW p, NEW c,
         NEW A2, NEW B2, NEW P2, NEW root2, NEW x \in S, NEW z, NEW w2,
         Rooted(S, A, B, P, root, sub), z \notin S, z # Sentinel,
         RelabelAt(S, A, B, P, root, A2, B2, P2, root2, x, z),
         w2[z] = w[x], \A n \in S \cup {Sentinel} : n # x => w2[n] = w[n],
         c \in S \cup {Sentinel}, c # x,
         c = Sentinel => P2[c] = Renamed(x, z, P[c]),
         LowAt(S, A, B, P, w, h, p, c)
  PROVE  LowAt(Instead(S, x, z), A2, B2, P2, w2, Relabelled(S, h, x, z), Renamed(x, z, p), c)
<1> DEFINE S2 == Instead(S, x, z)
           q == Renamed(x, z, p)
<1>1. p \in S /\ A[p] = c /\ P[c] = p /\ Leveled(S, A, B, w, h, Hole(S, p), Flat(S))
  BY DEF LowAt
<1>2. q \in S2 /\ Renamed(z, x, q) = p
  BY <1>1 DEF Instead, Renamed
<1>3. A2[q] = c
  <2>1. A2[q] = Renamed(x, z, A[Renamed(z, x, q)])
    BY <1>2, RelabelLinks
  <2> QED  BY <1>1, <1>2, <2>1 DEF Renamed
<1>4. P2[c] = q
  <2>1. CASE c = Sentinel
    BY <1>1, <2>1
  <2>2. CASE c # Sentinel /\ p = x
    BY <1>1, <2>2 DEF RelabelAt, Renamed
  <2>3. CASE c # Sentinel /\ p # x
    <3>1. Fork(S, A, B, P, sub, x)
      BY DEF Rooted
    <3>2. c \notin {x, A[x], B[x]}
      BY <1>1, <2>3, <3>1 DEF Fork
    <3> QED  BY <1>1, <2>3, <3>2 DEF RelabelAt, Renamed
  <2> QED  BY <2>1, <2>2, <2>3
<1>5. Hole(S2, q) \in [S2 -> {0, 1}] /\ Flat(S2) \in [S2 -> {0, 1}]
  BY DEF Hole, Flat
<1>6. \A n \in S2 : /\ Hole(S2, q)[n] = Hole(S, p)[Renamed(z, x, n)]
                    /\ Flat(S2)[n] = Flat(S)[Renamed(z, x, n)]
  BY <1>1 DEF Hole, Flat, Instead, Renamed
<1>7. Leveled(S2, A2, B2, w2, Relabelled(S, h, x, z), Hole(S2, q), Flat(S2))
  BY <1>1, <1>5, <1>6, RelabelLevel
<1> QED  BY <1>2, <1>3, <1>4, <1>7 DEF LowAt

LEMMA RelabelSwap ==
  ASSUME NEW S, NEW A, NEW B, NEW P, NEW root,
         NEW A2, NEW B2, NEW P2, NEW root2, NEW x \in S, NEW z,
         RelabelAt(S, A, B, P, root, A2, B2, P2, root2, x, z)
  PROVE  RelabelAt(S, B, A, P, root, B2, A2, P2, root2, x, z)
BY DEF RelabelAt

LEMMA RelabelLow ==
  ASSUME NEW S, NEW A, NEW B, NEW P, NEW root, NEW sub, NEW w, NEW h, NEW c,
         NEW A2, NEW B2, NEW P2, NEW root2, NEW x \in S, NEW z, NEW w2,
         Rooted(S, A, B, P, root, sub), z \notin S, z # Sentinel,
         RelabelAt(S, A, B, P, root, A2, B2, P2, root2, x, z),
         w2[z] = w[x], \A n \in S \cup {Sentinel} : n # x => w2[n] = w[n],
         c # x, c # root, c = Sentinel => P2[c] = Renamed(x, z, P[c]),
         Low(S, A, B, P, root, w, h, c)
  PROVE  Low(Instead(S, x, z), A2, B2, P2, root2, w2, Relabelled(S, h, x, z), c)
<1>1. c \in S \cup {Sentinel} /\ Calm(S, A, B, w, {c}, {c}) /\ w[root] = 1
  BY DEF Low
<1>2. PICK p : LowAt(S, A, B, P, w, h, p, c) \/ LowAt(S, B, A, P, w, h, p, c)
  BY DEF Low
<1>3. \/ LowAt(Instead(S, x, z), A2, B2, P2, w2, Relabelled(S, h, x, z), Renamed(x, z, p), c)
      \/ LowAt(Instead(S, x, z), B2, A2, P2, w2, Relabelled(S, h, x, z), Renamed(x, z, p), c)
  <2>1. CASE LowAt(S, A, B, P, w, h, p, c)
    BY <1>1, <2>1, RelabelLowAt
  <2>2. CASE LowAt(S, B, A, P, w, h, p, c)
    <3>1. Rooted(S, B, A, P, root, sub) /\ RelabelAt(S, B, A, P, root, B2, A2, P2, root2, x, z)
      BY RootedSwap, RelabelSwap
    <3> QED  BY <1>1, <2>2, <3>1, RelabelLowAt
  <2> QED  BY <1>2, <2>1, <2>2
<1>4. c # z
  BY <1>1
<1>5. Calm(Instead(S, x, z), A2, B2, w2, {c}, {c})
  BY <1>1, <1>4, RelabelCalm
<1>6. root2 = Renamed(x, z, root) /\ root \in S \cup {Sentinel} /\ Sentinel \notin S
  BY DEF RelabelAt, Rooted
<1>7. c # root2 /\ w2[root2] = 1 /\ c \in Instead(S, x, z) \cup {Sentinel}
  BY <1>1, <1>4, <1>6 DEF Renamed, Instead
<1> QED  BY <1>3, <1>5, <1>7 DEF Low

-----------------------------------------------------------------------------
(* Trees as records                                                        *)

FunctionOn(f, D) == f = [n \in D |-> f[n]]

Fields == {"root", "insert", "left", "right", "parent", "red", "key", "name"}

\* A tree whose nodes and sentinel, D, are allocated.
IsRb(t, D) ==
    /\ FunctionOn(t, Fields)
    /\ FunctionOn(t.left, D) /\ FunctionOn(t.right, D) /\ FunctionOn(t.parent, D)
    /\ t.red \in [D -> BOOLEAN] /\ FunctionOn(t.key, D) /\ FunctionOn(t.name, D)

Sides == {"left", "right"}

Shape(t, S, side, sub) == Rooted(S, t[side], t[Other(side)], t.parent, t.root, sub)

LEMMA SideFacts ==
  ASSUME NEW side \in Sides
  PROVE  Other(side) \in Sides /\ Other(Other(side)) = side /\ Other(side) # side
BY DEF Sides, Other

\* What ReplaceChild makes of the fields.
Replaced(t, r, D, p, x, y) ==
    /\ IsRb(r, D)
    /\ r.parent = t.parent /\ r.red = t.red /\ r.key = t.key
    /\ r.name = t.name /\ r.insert = t.insert
    /\ r.root = IF x = t.root THEN y ELSE t.root
    /\ r.left = IF x # t.root /\ t.left[p] = x THEN [t.left EXCEPT ![p] = y] ELSE t.left
    /\ r.right = IF x # t.root /\ t.left[p] # x THEN [t.right EXCEPT ![p] = y] ELSE t.right

LEMMA ReplaceFields ==
  ASSUME NEW t, NEW D, IsRb(t, D), NEW x, NEW y, NEW p,
         x # t.root => p \in D
  PROVE  Replaced(t, ReplaceChild(t, p, x, y), D, p, x, y)
<1> DEFINE r == ReplaceChild(t, p, x, y)
<1>1. CASE x = t.root
  BY <1>1 DEF ReplaceChild, IsRb, FunctionOn, Fields, Replaced
<1>2. CASE x # t.root /\ t.left[p] = x
  BY <1>2 DEF ReplaceChild, IsRb, SideOf, FunctionOn, Fields, Replaced
<1>3. CASE x # t.root /\ t.left[p] # x
  BY <1>3 DEF ReplaceChild, IsRb, SideOf, FunctionOn, Fields, Replaced
<1> QED  BY <1>1, <1>2, <1>3

LEMMA LiftedFields ==
  ASSUME NEW t, NEW D, IsRb(t, D), NEW side \in Sides, NEW x \in D,
         NEW y \in D, y = t[Other(side)][x], t[side][y] \in D
  PROVE  LET r == Lifted(t, side, x)
             inner == t[side][y]
         IN /\ IsRb(r, D)
            /\ r.root = t.root /\ r.red = t.red /\ r.key = t.key
            /\ r.name = t.name /\ r.insert = t.insert
            /\ r[side] = [t[side] EXCEPT ![y] = x]
            /\ r[Other(side)] = [t[Other(side)] EXCEPT ![x] = inner]
            /\ r.parent = [t.parent EXCEPT ![inner] = IF inner = Sentinel THEN @ ELSE x,
                                           ![y] = t.parent[x], ![x] = y]
<1>1. CASE side = "left"
  <2>1. Other(side) = "right"
    BY <1>1 DEF Other
  <2> QED  BY <1>1, <2>1, ZenonT(60) DEF Lifted, IsRb, FunctionOn, Fields
<1>2. CASE side = "right"
  <2>1. Other(side) = "left"
    BY <1>2 DEF Other
  <2> QED  BY <1>2, <2>1, ZenonT(60) DEF Lifted, IsRb, FunctionOn, Fields
<1> QED  BY <1>1, <1>2, SMTT(30) DEF Sides

\* A rotation of the code is one of the abstract ones, and changes links only.
LEMMA RotateTurned ==
  ASSUME NEW t, NEW D, IsRb(t, D), NEW side \in Sides, NEW S, NEW sub, NEW x \in S,
         S \cup {Sentinel} \subseteq D, Shape(t, S, side, sub),
         t[Other(side)][x] # Sentinel
  PROVE  LET r == Rotate(t, side, x)
         IN /\ IsRb(r, D)
            /\ r.red = t.red /\ r.key = t.key /\ r.name = t.name /\ r.insert = t.insert
            /\ Turned(S, t[side], t[Other(side)], t.parent, t.root,
                      r[side], r[Other(side)], r.parent, r.root, x)
<1> DEFINE A == t[side]
           B == t[Other(side)]
           P == t.parent
           y == B[x]
           l == Lifted(t, side, x)
           p == P[x]
           r == Rotate(t, side, x)
<1>1. Rooted(S, A, B, P, t.root, sub) /\ Rooted(S, B, A, P, t.root, sub)
  BY RootedSwap DEF Shape
<1>2. Sentinel \notin S /\ Fork(S, A, B, P, sub, x) /\ y \in S /\ y # x /\ y # t.root
  <2>1. y # x /\ y # t.root
    BY <1>1, Children
  <2> QED  BY <1>1, <2>1 DEF Rooted, Fork
<1>3. Fork(S, A, B, P, sub, y)
  BY <1>1, <1>2 DEF Rooted
<1>4. A[y] \in S \cup {Sentinel} /\ A[y] # y /\ A[y] # x /\ A[y] # t.root
  <2>1. A[y] # y /\ A[y] \in S \cup {Sentinel} /\ (A[y] = t.root => A[y] = Sentinel)
    BY <1>1, <1>2, <1>3, Children DEF Fork
  <2>2. x \notin sub[y]
    BY <1>2 DEF Fork
  <2>3. A[y] = x => x \in sub[y]
    BY <1>1, <1>3, SubSelf DEF Fork
  <2>4. t.root # Sentinel
    BY <1>1, <1>2 DEF Rooted
  <2> QED  BY <2>1, <2>2, <2>3, <2>4
<1>5. ASSUME x # t.root
      PROVE  /\ p \in S /\ p # x /\ p # y
             /\ A[p] = x => B[p] # x /\ \A n \in S : n # p => A[n] # x /\ B[n] # x
             /\ B[p] = x => A[p] # x /\ \A n \in S : n # p => A[n] # x /\ B[n] # x
             /\ A[p] = x \/ B[p] = x
  <2>1. p \in S /\ p # x /\ (A[p] = x \/ B[p] = x)
    BY <1>1, <1>5, HasParent
  <2>2. p # y
    <3>1. x \notin sub[y] /\ sub[x] \subseteq S /\ x \in sub[x]
      BY <1>1, <1>2, SubSelf DEF Fork
    <3> QED  BY <1>3, <2>1, <3>1 DEF Fork
  <2>3. A[p] = x => B[p] # x /\ \A n \in S : n # p => A[n] # x /\ B[n] # x
    BY <1>1, <2>1, ChildOf
  <2>4. B[p] = x => A[p] # x /\ \A n \in S : n # p => A[n] # x /\ B[n] # x
    BY <1>1, <2>1, ChildOf
  <2> QED  BY <2>1, <2>2, <2>3, <2>4
<1>6. /\ IsRb(l, D)
      /\ l.root = t.root /\ l.red = t.red /\ l.key = t.key
      /\ l.name = t.name /\ l.insert = t.insert
      /\ l[side] = [A EXCEPT ![y] = x]
      /\ l[Other(side)] = [B EXCEPT ![x] = A[y]]
      /\ l.parent = [P EXCEPT ![A[y]] = IF A[y] = Sentinel THEN @ ELSE x,
                              ![y] = P[x], ![x] = y]
  BY <1>2, <1>4, LiftedFields
<1>7. r = ReplaceChild(l, p, x, y)
  BY DEF Rotate
<1>8. /\ IsRb(r, D)
      /\ r.parent = l.parent /\ r.red = l.red /\ r.key = l.key
      /\ r.name = l.name /\ r.insert = l.insert
      /\ r.root = IF x = l.root THEN y ELSE l.root
      /\ r.left = IF x # l.root /\ l.left[p] = x THEN [l.left EXCEPT ![p] = y] ELSE l.left
      /\ r.right = IF x # l.root /\ l.left[p] # x THEN [l.right EXCEPT ![p] = y] ELSE l.right
  <2>1. x # l.root => p \in D
    BY <1>5, <1>6
  <2>2. Replaced(l, r, D, p, x, y)
    BY <1>6, <1>7, <2>1, ReplaceFields
  <2> QED  BY <2>2 DEF Replaced
<1>9. \A f \in {A, B, P} : FunctionOn(f, D)
  BY DEF IsRb, Sides, Other
<1> HIDE DEF A, B, P, y, l, p, r
<1>10. /\ r.parent[x] = y /\ r.parent[y] = P[x] /\ r.parent[Sentinel] = P[Sentinel]
       /\ A[y] # Sentinel => r.parent[A[y]] = x
       /\ \A n \in S \ {x, y, A[y]} : r.parent[n] = P[n]
  <2>1. P = [n \in D |-> P[n]]
    BY <1>9 DEF FunctionOn
  <2> QED  BY <1>2, <1>4, <1>6, <1>8, <2>1
<1>11. /\ r[side] = IF x # t.root /\ A[p] = x THEN [l[side] EXCEPT ![p] = y] ELSE l[side]
       /\ r[Other(side)] = IF x # t.root /\ A[p] # x THEN [l[Other(side)] EXCEPT ![p] = y] ELSE l[Other(side)]
  <2>1. x # t.root => l[side][p] = A[p] /\ l[Other(side)][p] = B[p]
    BY <1>5, <1>6, <1>9 DEF FunctionOn
  <2>2. CASE side = "left"
    <3>1. Other(side) = "right"
      BY <2>2 DEF Other
    <3> QED  BY <1>6, <1>8, <2>1, <2>2, <3>1
  <2>3. CASE side = "right"
    <3>1. Other(side) = "left"
      BY <2>3 DEF Other
    <3>2. x # t.root => (l.left[p] = x <=> A[p] # x)
      BY <1>5, <2>1, <2>3, <3>1
    <3> QED  BY <1>6, <1>8, <2>3, <3>1, <3>2
  <2> QED  BY <2>2, <2>3 DEF Sides
<1>12. /\ r[side][x] = A[x] /\ r[Other(side)][x] = A[y]
       /\ r[side][y] = x /\ r[Other(side)][y] = B[y]
  <2>1. A = [n \in D |-> A[n]] /\ B = [n \in D |-> B[n]]
    BY <1>9 DEF FunctionOn
  <2> QED  BY <1>2, <1>5, <1>6, <1>11, <2>1
<1>13. ASSUME NEW n \in S \ {x, y}
       PROVE  r[side][n] = Renamed(x, y, A[n]) /\ r[Other(side)][n] = Renamed(x, y, B[n])
  <2>1. A = [m \in D |-> A[m]] /\ B = [m \in D |-> B[m]]
    BY <1>9 DEF FunctionOn
  <2>2. l[side][n] = A[n] /\ l[Other(side)][n] = B[n]
    BY <1>6, <2>1
  <2>3. CASE x = t.root
    <3>1. A[n] # x /\ B[n] # x
      BY <1>1, <1>2, <2>3, Children
    <3> QED  BY <1>11, <2>2, <2>3, <3>1 DEF Renamed
  <2>4. CASE x # t.root
    <3>1. l[side] = [m \in D |-> l[side][m]] /\ l[Other(side)] = [m \in D |-> l[Other(side)][m]]
      BY <1>6, <2>1
    <3> QED  BY <1>5, <1>11, <2>2, <2>4, <3>1 DEF Renamed
  <2> QED  BY <2>3, <2>4
<1>14. r.root = Renamed(x, y, t.root)
  BY <1>6, <1>8 DEF Renamed
<1>15. Turned(S, A, B, P, t.root, r[side], r[Other(side)], r.parent, r.root, x)
  BY <1>10, <1>12, <1>13, <1>14 DEF Turned, y
<1> QED  BY <1>6, <1>8, <1>15 DEF r, A, B, P

WT(t) == [n \in DOMAIN t.red |-> IF t.red[n] THEN 0 ELSE 1]

\* A search tree of the nodes S.
Base(t, D, S, sub, pos) ==
    /\ IsRb(t, D) /\ S \cup {Sentinel} \subseteq D
    /\ Rooted(S, t.left, t.right, t.parent, t.root, sub)
    /\ Ord(S, t.left, t.right, sub, pos)

SameData(t, r) == r.key = t.key /\ r.name = t.name /\ r.insert = t.insert

LEMMA BaseSides ==
  ASSUME NEW t, NEW D, NEW S, NEW sub, NEW pos, Base(t, D, S, sub, pos), NEW side \in Sides
  PROVE  Rooted(S, t[side], t[Other(side)], t.parent, t.root, sub)
<1>1. Rooted(S, t.right, t.left, t.parent, t.root, sub)
  BY RootedSwap DEF Base
<1>2. CASE side = "left"
  BY <1>2 DEF Base, Other
<1>3. CASE side = "right"
  BY <1>1, <1>3 DEF Other
<1> QED  BY <1>2, <1>3 DEF Sides

LEMMA RotateBase ==
  ASSUME NEW t, NEW D, NEW S, NEW sub, NEW pos, Base(t, D, S, sub, pos),
         NEW side \in Sides, NEW x \in S, t[Other(side)][x] # Sentinel,
         NEW r, r = Rotate(t, side, x)
  PROVE  /\ Base(r, D, S, TurnedSub(t[side], t[Other(side)], sub, x), pos)
         /\ r.red = t.red /\ WT(r) = WT(t) /\ SameData(t, r)
         /\ Turned(S, t[side], t[Other(side)], t.parent, t.root,
                   r[side], r[Other(side)], r.parent, r.root, x)
<1> DEFINE sub2 == TurnedSub(t[side], t[Other(side)], sub, x)
<1>1. Rooted(S, t[side], t[Other(side)], t.parent, t.root, sub)
  BY BaseSides
<1>2. /\ IsRb(r, D)
      /\ r.red = t.red /\ r.key = t.key /\ r.name = t.name /\ r.insert = t.insert
      /\ Turned(S, t[side], t[Other(side)], t.parent, t.root,
                r[side], r[Other(side)], r.parent, r.root, x)
  BY <1>1, RotateTurned DEF Base, Shape
<1>3. Rooted(S, r[side], r[Other(side)], r.parent, r.root, sub2)
  BY <1>1, <1>2, TurnedRooted
<1>4. Rooted(S, r.left, r.right, r.parent, r.root, sub2)
  <2>1. Rooted(S, r[Other(side)], r[side], r.parent, r.root, sub2)
    BY <1>3, RootedSwap
  <2>2. CASE side = "left"
    <3>1. Other(side) = "right"
      BY <2>2 DEF Other
    <3> HIDE DEF sub2
    <3> QED  BY <1>3, <2>2, <3>1
  <2>3. CASE side = "right"
    <3>1. Other(side) = "left"
      BY <2>3 DEF Other
    <3> HIDE DEF sub2
    <3> QED  BY <2>1, <2>3, <3>1
  <2> QED  BY <2>2, <2>3 DEF Sides
<1>5. Ord(S, r.left, r.right, sub2, pos)
  <2>1. CASE side = "left"
    <3>1. Other(side) = "right"
      BY <2>1 DEF Other
    <3>2. Ord(S, t[side], t[Other(side)], sub, pos)
      BY <2>1, <3>1 DEF Base
    <3>3. Ord(S, r[side], r[Other(side)], sub2, pos)
      BY <1>1, <1>2, <3>2, TurnedOrd
    <3> HIDE DEF sub2
    <3> QED  BY <2>1, <3>1, <3>3
  <2>2. CASE side = "right"
    <3>1. Other(side) = "left"
      BY <2>2 DEF Other
    <3>2. Ord(S, t[Other(side)], t[side], sub, pos)
      BY <2>2, <3>1 DEF Base
    <3>3. Ord(S, r[Other(side)], r[side], sub2, pos)
      BY <1>1, <1>2, <3>2, TurnedOrdMirror
    <3> HIDE DEF sub2
    <3> QED  BY <2>2, <3>1, <3>3
  <2> QED  BY <2>1, <2>2 DEF Sides
<1>6. WT(r) = WT(t) /\ SameData(t, r)
  BY <1>2 DEF WT, SameData
<1> QED  BY <1>2, <1>4, <1>5, <1>6 DEF Base

\* A change of colours.
Painted(t, red) == [t EXCEPT !.red = red]

LEMMA PaintedBase ==
  ASSUME NEW t, NEW D, NEW S, NEW sub, NEW pos, Base(t, D, S, sub, pos),
         NEW red \in [D -> BOOLEAN], NEW r, r = Painted(t, red)
  PROVE  /\ Base(r, D, S, sub, pos) /\ SameData(t, r) /\ r.red = red
         /\ r.left = t.left /\ r.right = t.right /\ r.parent = t.parent /\ r.root = t.root
         /\ \A side \in Sides : r[side] = t[side]
         /\ \A n \in D : WT(r)[n] = IF red[n] THEN 0 ELSE 1
<1>1. /\ IsRb(r, D) /\ r.red = red /\ r.root = t.root
      /\ r.left = t.left /\ r.right = t.right /\ r.parent = t.parent
      /\ r.key = t.key /\ r.name = t.name /\ r.insert = t.insert
  BY DEF Painted, Base, IsRb, FunctionOn, Fields
<1>2. \A side \in Sides : r[side] = t[side]
  BY <1>1 DEF Sides
<1>3. \A n \in D : WT(r)[n] = IF red[n] THEN 0 ELSE 1
  BY <1>1 DEF WT
<1>4. Base(r, D, S, sub, pos) /\ SameData(t, r)
  BY <1>1 DEF Base, SameData
<1> QED  BY <1>1, <1>2, <1>3, <1>4

LEMMA WTValue ==
  ASSUME NEW t, NEW D, NEW S, NEW sub, NEW pos, Base(t, D, S, sub, pos), NEW n \in D
  PROVE  /\ t.red[n] \in BOOLEAN /\ WT(t)[n] = IF t.red[n] THEN 0 ELSE 1
         /\ t.red[n] <=> WT(t)[n] = 0
         /\ ~t.red[n] <=> WT(t)[n] = 1
<1>1. t.red \in [D -> BOOLEAN]
  BY DEF Base, IsRb
<1>2. t.red[n] \in BOOLEAN /\ WT(t)[n] = IF t.red[n] THEN 0 ELSE 1
  BY <1>1 DEF WT
<1> QED  BY <1>2

-----------------------------------------------------------------------------
(* mps_rbtree_insert: the loop *)

HotT(t, D, S, sub, pos, h, x) ==
    Base(t, D, S, sub, pos) /\ Hot(S, t.left, t.right, t.root, WT(t), h, x)

LEMMA HotSides ==
  ASSUME NEW t, NEW D, NEW S, NEW sub, NEW pos, NEW h, NEW x,
         Base(t, D, S, sub, pos), NEW side \in Sides
  PROVE  Hot(S, t.left, t.right, t.root, WT(t), h, x)
            <=> Hot(S, t[side], t[Other(side)], t.root, WT(t), h, x)
<1>1. \A n \in S : t.left[n] \in S \cup {Sentinel} /\ t.right[n] \in S \cup {Sentinel}
  BY DEF Base, Rooted, Fork
<1>2. Hot(S, t.left, t.right, t.root, WT(t), h, x)
            <=> Hot(S, t.right, t.left, t.root, WT(t), h, x)
  BY <1>1, HotSwap
<1>3. CASE side = "left"
  <2>1. Other(side) = "right"
    BY <1>3 DEF Other
  <2> QED  BY <1>3, <2>1
<1>4. CASE side = "right"
  <2>1. Other(side) = "left"
    BY <1>4 DEF Other
  <2> QED  BY <1>2, <1>4, <2>1
<1> QED  BY <1>3, <1>4 DEF Sides

LEMMA HotBack ==
  ASSUME NEW t, NEW D, NEW S, NEW sub, NEW pos, NEW h, NEW x, Base(t, D, S, sub, pos),
         NEW side \in Sides, Hot(S, t[side], t[Other(side)], t.root, WT(t), h, x)
  PROVE  HotT(t, D, S, sub, pos, h, x)
BY HotSides, Zenon DEF HotT

Settled(u) == u.node = u.tree.root \/ ~u.tree.red[u.tree.parent[u.node]]

Recoloured(t, p, g) == [t EXCEPT !.red[p] = FALSE, !.red[g] = TRUE]

LEMMA StraightCase ==
  ASSUME NEW t, NEW D, NEW S, NEW sub, NEW pos, NEW h, NEW x, HotT(t, D, S, sub, pos, h, x),
         NEW side \in Sides, NEW p \in S, NEW g \in S, x # t.root,
         t[side][p] = x, t[side][g] = p, t.red[p], ~t.red[t[Other(side)][g]],
         NEW r, r = Rotate(Recoloured(t, p, g), Other(side), g)
  PROVE  /\ \E sub2, h2 : HotT(r, D, S, sub2, pos, h2, x)
         /\ SameData(t, r) /\ Settled(Reached(r, x))
<1> DEFINE red == [t.red EXCEPT ![p] = FALSE, ![g] = TRUE]
           s == Painted(t, red)
           A == t[Other(side)]
           B == t[side]
<1>1. Base(t, D, S, sub, pos)
  BY DEF HotT
<1>2. Recoloured(t, p, g) = s
  BY <1>1 DEF Recoloured, Base, IsRb, FunctionOn, Fields, Painted
<1>3. t.red \in [D -> BOOLEAN] /\ red \in [D -> BOOLEAN] /\ p \in D /\ g \in D
  BY <1>1 DEF Base, IsRb
<1>4. Other(side) \in Sides /\ Other(Other(side)) = side
  BY SideFacts
<1>5. Rooted(S, A, B, t.parent, t.root, sub)
  BY <1>1, <1>4, BaseSides
<1>6. Hot(S, A, B, t.root, WT(t), h, x)
  BY <1>1, <1>4, HotSides DEF HotT
<1>7. /\ Base(s, D, S, sub, pos) /\ SameData(t, s) /\ s.red = red
      /\ s[side] = B /\ s[Other(side)] = A /\ s.parent = t.parent /\ s.root = t.root
      /\ \A n \in D : WT(s)[n] = IF red[n] THEN 0 ELSE 1
  <2> HIDE DEF s
  <2>1. s = Painted(t, red)
    BY DEF s
  <2> HIDE DEF red
  <2> QED  BY <1>1, <1>3, <1>4, <2>1, PaintedBase
<1>8. r = Rotate(s, Other(side), g)
  BY <1>2
<1>9. p # Sentinel /\ x # p /\ p # g
  <2>1. Sentinel \notin S
    BY <1>5 DEF Rooted
  <2>2. x \in S
    BY <1>6 DEF Hot
  <2> QED  BY <1>5, <2>1, <2>2, ChildOf
<1> HIDE DEF s, A, B
<1>10. /\ Base(r, D, S, TurnedSub(A, B, sub, g), pos)
       /\ r.red = red /\ WT(r) = WT(s) /\ SameData(s, r)
       /\ Turned(S, A, B, t.parent, t.root,
                 r[Other(side)], r[side], r.parent, r.root, g)
  <2>1. s[Other(Other(side))][g] # Sentinel
    BY <1>4, <1>7, <1>9 DEF B
  <2> QED  BY <1>4, <1>7, <1>8, <2>1, RotateBase
<1>11. /\ WT(r)[p] = 1 /\ WT(r)[g] = 0
       /\ \A n \in S \cup {Sentinel} : n \notin {p, g} => WT(r)[n] = WT(t)[n]
  <2>1. \A n \in D : WT(t)[n] = IF t.red[n] THEN 0 ELSE 1
    BY <1>1, WTValue
  <2>2. S \cup {Sentinel} \subseteq D
    BY <1>1 DEF Base
  <2> QED  BY <1>3, <1>7, <1>9, <1>10, <2>1, <2>2
<1>12. WT(t)[p] = 0 /\ WT(t)[A[g]] = 1
  <2>1. A[g] \in D
    BY <1>1, <1>5 DEF Rooted, Fork, Base
  <2> QED  BY <1>1, <1>3, <2>1, WTValue DEF A
<1>13. B[p] = x /\ B[g] = p /\ x \in S
  BY <1>6 DEF B, Hot
<1>14. /\ \E h2 : Hot(S, r[Other(side)], r[side], r.root, WT(r), h2, x)
       /\ x # r.root /\ WT(r)[r.parent[x]] = 1
  <2> DEFINE w2 == WT(r)
             A2 == r[Other(side)]
             B2 == r[side]
             P2 == r.parent
             root2 == r.root
             w == WT(t)
             P == t.parent
             root == t.root
  <2> HIDE DEF w2, A2, B2, P2, root2, w, P, root
  <2>1. /\ Rooted(S, A, B, P, root, sub) /\ Hot(S, A, B, root, w, h, x) /\ x # root
        /\ Turned(S, A, B, P, root, A2, B2, P2, root2, g)
        /\ w[p] = 0 /\ w[A[g]] = 1 /\ w2[p] = 1 /\ w2[g] = 0
        /\ \A n \in S \cup {Sentinel} : n \notin {p, g} => w2[n] = w[n]
    BY <1>5, <1>6, <1>10, <1>11, <1>12 DEF w2, A2, B2, P2, root2, w, P, root
  <2>2. /\ Hot(S, A2, B2, root2, w2, TurnedHeights(A, B, h, Flat(S), g), x)
        /\ x # root2 /\ w2[P2[x]] = 1
    BY <1>13, <2>1, StraightTurn
  <2> QED  BY <2>2 DEF w2, A2, B2, P2, root2
<1>15. \E sub2, h2 : HotT(r, D, S, sub2, pos, h2, x)
  <2>1. PICK h2 : Hot(S, r[Other(side)], r[side], r.root, WT(r), h2, x)
    BY <1>14
  <2>2. Hot(S, r[Other(side)], r[Other(Other(side))], r.root, WT(r), h2, x)
    BY <1>4, <2>1
  <2>3. HotT(r, D, S, TurnedSub(A, B, sub, g), pos, h2, x)
    BY <1>4, <1>10, <2>2, HotBack
  <2> QED  BY <2>3
<1>16. SameData(t, r)
  BY <1>7, <1>10 DEF SameData
<1>17. Settled(Reached(r, x))
  <2>1. r.parent[x] = p
    <3>1. t.parent[x] = p /\ x # g /\ x # A[p]
      <4>1. Fork(S, A, B, t.parent, sub, p) /\ Fork(S, A, B, t.parent, sub, g) /\ Sentinel \notin S
        BY <1>5 DEF Rooted
      <4>2. x = g => g \in sub[p]
        BY <1>5, <1>13, <4>1, SubSelf DEF Fork
      <4> QED  BY <1>5, <1>9, <1>13, <4>1, <4>2, ChildOf DEF Fork
    <3> QED  BY <1>9, <1>10, <1>13, <3>1 DEF Turned
  <2> QED  BY <1>3, <1>9, <1>10, <2>1 DEF Settled, Reached
<1> QED  BY <1>15, <1>16, <1>17

LEMMA UncleApart ==
  ASSUME NEW S, NEW A, NEW B, NEW P, NEW root, NEW sub, Rooted(S, A, B, P, root, sub),
         NEW g \in S, NEW p \in S, A[g] = p, B[g] # Sentinel
  PROVE  B[g] \in S /\ B[g] # p /\ B[g] # g /\ p # g
<1>1. Fork(S, A, B, P, sub, g)
  BY DEF Rooted
<1>2. B[g] \in S
  BY <1>1 DEF Fork
<1>3. p \in sub[p] /\ B[g] \in sub[B[g]]
  BY <1>2, SubSelf
<1> QED  BY <1>1, <1>2, <1>3 DEF Fork

\* A red uncle u of x, in the code's tree.
LEMMA UncleCase ==
  ASSUME NEW t, NEW D, NEW S, NEW sub, NEW pos, NEW h, NEW x, HotT(t, D, S, sub, pos, h, x),
         NEW side \in Sides, NEW p \in S, NEW g \in S, x # t.root,
         t[side][p] = x \/ t[Other(side)][p] = x, t[side][g] = p,
         t.red[p], NEW u \in S, u = t[Other(side)][g], t.red[u],
         NEW red \in [D -> BOOLEAN], ~red[p], ~red[u], red[g],
         \A n \in D : n \notin {p, g, u} => red[n] = t.red[n],
         NEW r, r = Painted(t, red)
  PROVE  (\E h2 : HotT(r, D, S, sub, pos, h2, g)) /\ SameData(t, r)
<1> DEFINE A == t[side]
           B == t[Other(side)]
<1>1. Base(t, D, S, sub, pos)
  BY DEF HotT
<1>2. Rooted(S, A, B, t.parent, t.root, sub) /\ Hot(S, A, B, t.root, WT(t), h, x)
  BY <1>1, BaseSides, HotSides DEF HotT
<1>3. x \in S /\ S \cup {Sentinel} \subseteq D /\ Other(side) \in Sides
  BY <1>1, <1>2, SideFacts DEF Base, Hot
<1>4. A[g] = p /\ B[g] = u /\ (A[p] = x \/ B[p] = x)
  OBVIOUS
<1> DEFINE w == WT(t)
           w2 == WT(r)
           P == t.parent
           root == t.root
<1>5. /\ Base(r, D, S, sub, pos) /\ SameData(t, r)
      /\ r.parent = P /\ r.root = root
      /\ \A d \in Sides : r[d] = t[d]
      /\ \A n \in D : w2[n] = IF red[n] THEN 0 ELSE 1
  BY <1>1, PaintedBase
<1>6. r[side] = A /\ r[Other(side)] = B
  BY <1>3, <1>5
<1>7. \A n \in D : w[n] = IF t.red[n] THEN 0 ELSE 1
  BY <1>1, WTValue
<1> HIDE DEF A, B, w, w2, P, root
<1>8. w[p] = 0 /\ w[u] = 0 /\ w2[p] = 1 /\ w2[u] = 1 /\ w2[g] = 0
  BY <1>3, <1>5, <1>7
<1>9. \A n \in S \cup {Sentinel} : n \notin {p, g, u} => w2[n] = w[n]
  BY <1>3, <1>5, <1>7
<1>10. \E h2 : Hot(S, A, B, root, w2, h2, g)
  <2>1. Rooted(S, A, B, P, root, sub) /\ Hot(S, A, B, root, w, h, x) /\ x # root
    BY <1>2 DEF A, B, w, P, root
  <2> QED  BY <1>3, <1>4, <1>8, <1>9, <2>1, UncleRed
<1>11. PICK h2 : Hot(S, r[side], r[Other(side)], r.root, WT(r), h2, g)
  BY <1>5, <1>6, <1>10 DEF w2
<1>12. HotT(r, D, S, sub, pos, h2, g)
  BY <1>5, <1>11, HotBack
<1> QED  BY <1>5, <1>12

\* Where a round of the loop leaves the tree: settled or higher up.
Risen(t, D, S, sub, pos, x, r) ==
    \E sub2, h2 :
        /\ HotT(r.tree, D, S, sub2, pos, h2, r.node) /\ SameData(t, r.tree)
        /\ Settled(r) \/ Cardinality(sub[x]) < Cardinality(sub2[r.node])
        /\ r = Reached(r.tree, r.node)

LEMMA BentCase ==
  ASSUME NEW t, NEW D, NEW S, NEW sub, NEW pos, NEW h, NEW x, HotT(t, D, S, sub, pos, h, x),
         NEW side \in Sides, NEW p \in S, NEW g \in S, x # t.root,
         t[Other(side)][p] = x, t[side][g] = p, t.red[p], ~t.red[t[Other(side)][g]],
         NEW s, s = Rotate(t, side, p)
  PROVE  /\ \E sub2, h2 : HotT(s, D, S, sub2, pos, h2, p)
         /\ SameData(t, s) /\ p # s.root /\ x \in S /\ s.red = t.red
         /\ s.parent[p] = x /\ s.parent[x] = g
         /\ s[side][x] = p /\ s[side][g] = x /\ s.red[x] /\ ~s.red[s[Other(side)][g]]
<1> DEFINE A == t[side]
           B == t[Other(side)]
<1>1. Base(t, D, S, sub, pos)
  BY DEF HotT
<1>2. Rooted(S, A, B, t.parent, t.root, sub) /\ Hot(S, A, B, t.root, WT(t), h, x)
  BY <1>1, BaseSides, HotSides DEF HotT
<1>3. x \in S /\ Sentinel \notin S /\ S \subseteq D
  BY <1>1, <1>2 DEF Hot, Rooted, Base
<1> DEFINE sub2 == TurnedSub(A, B, sub, p)
<1>4. /\ Base(s, D, S, sub2, pos)
      /\ s.red = t.red /\ WT(s) = WT(t) /\ SameData(t, s)
      /\ Turned(S, A, B, t.parent, t.root, s[side], s[Other(side)], s.parent, s.root, p)
  BY <1>1, <1>3, RotateBase
<1> HIDE DEF sub2, A, B
<1>5. /\ B[p] = x /\ A[g] = p /\ x # p /\ x # t.root /\ p # t.root /\ t.parent[p] = g /\ p # g
  <2>1. Rooted(S, B, A, t.parent, t.root, sub)
    BY <1>2, RootedSwap
  <2>2. B[p] = x /\ A[g] = p
    BY DEF A, B
  <2> QED  BY <1>2, <1>3, <2>1, <2>2, ChildOf
<1>6. x # g /\ B[g] # x /\ B[g] # p
  <2>1. Fork(S, A, B, t.parent, sub, p) /\ Fork(S, A, B, t.parent, sub, g)
    BY <1>2 DEF Rooted
  <2>2. g \notin sub[p] /\ x \in sub[x] /\ p \in sub[p]
    BY <1>2, <1>3, <1>5, <2>1, SubSelf DEF Fork
  <2>3. x \in sub[p]
    BY <1>5, <2>1, <2>2 DEF Fork
  <2> QED  BY <1>5, <2>1, <2>2, <2>3 DEF Fork
<1>7. WT(t)[p] = 0 /\ t.red[x]
  BY <1>1, <1>2, <1>3, WTValue DEF Hot
<1>8. Hot(S, s[side], s[Other(side)], s.root, WT(s), TurnedHeights(A, B, h, Flat(S), p), p)
  BY <1>2, <1>3, <1>4, <1>5, <1>7, BentTurn
<1>9. HotT(s, D, S, sub2, pos, TurnedHeights(A, B, h, Flat(S), p), p)
  BY <1>4, <1>8, HotBack
<1>10. /\ s[side][x] = p /\ s[side][g] = x /\ s[Other(side)][g] = B[g]
       /\ s.parent[p] = x /\ s.parent[x] = g /\ s.root = t.root
  BY <1>3, <1>4, <1>5, <1>6 DEF Turned, Renamed
<1> QED  BY <1>3, <1>4, <1>5, <1>7, <1>9, <1>10 DEF B

\* What a round that the loop makes finds: p and g, and on which side p is.
LEMMA RoundParents ==
  ASSUME NEW t, NEW D, NEW S, NEW sub, NEW pos, NEW h, NEW x, HotT(t, D, S, sub, pos, h, x),
         NEW p, p = t.parent[x], NEW g, g = t.parent[p], NEW side, side = SideOf(t, g, p),
         ~Settled(Reached(t, x))
  PROVE  /\ x \in S /\ p \in S /\ g \in S /\ side \in Sides /\ x # t.root
         /\ t[side][p] = x \/ t[Other(side)][p] = x
         /\ t[side][g] = p /\ t.red[p]
         /\ ~t.red[Sentinel]
<1>1. /\ Base(t, D, S, sub, pos)
      /\ Rooted(S, t.left, t.right, t.parent, t.root, sub)
      /\ Hot(S, t.left, t.right, t.root, WT(t), h, x)
  BY DEF HotT, Base
<1>2. x \in S /\ x # t.root /\ t.red[p]
  BY <1>1 DEF Hot, Settled, Reached
<1>3. p \in S /\ (t.left[p] = x \/ t.right[p] = x)
  BY <1>1, <1>2, HasParent
<1>4. S \cup {Sentinel} \subseteq D
  BY <1>1 DEF Base
<1>5. p # t.root
  <2>1. WT(t)[t.root] = 1
    BY <1>1, <1>2 DEF Hot
  <2>2. WT(t)[p] = 0
    BY <1>1, <1>2, <1>3, <1>4, WTValue
  <2> QED  BY <2>1, <2>2
<1>6. g \in S /\ (t.left[g] = p \/ t.right[g] = p)
  BY <1>1, <1>3, <1>5, HasParent
<1>7. WT(t)[Sentinel] = 1
  BY <1>1 DEF Hot, Leveled, Weights
<1>8. ~t.red[Sentinel]
  BY <1>1, <1>4, <1>7, WTValue
<1>9. side \in Sides /\ t[side][g] = p
  BY <1>6 DEF SideOf, Sides
<1>10. t[side][p] = x \/ t[Other(side)][p] = x
  BY <1>3, <1>9 DEF Sides, Other
<1> QED  BY <1>2, <1>3, <1>6, <1>8, <1>9, <1>10

\* Each round rises in the tree, and the one with a rotation is the last.
LEMMA RoundHot ==
  ASSUME NEW t, NEW D, NEW S, NEW sub, NEW pos, NEW h, NEW x, HotT(t, D, S, sub, pos, h, x),
         ~Settled(Reached(t, x))
  PROVE  Risen(t, D, S, sub, pos, x, RebalanceRound(Reached(t, x)))
<1> DEFINE p == t.parent[x]
           g == t.parent[p]
           side == SideOf(t, g, p)
           u == t[Other(side)][g]
<1>1. /\ x \in S /\ p \in S /\ g \in S /\ side \in Sides /\ x # t.root
      /\ t[side][p] = x \/ t[Other(side)][p] = x
      /\ t[side][g] = p /\ t.red[p]
      /\ ~t.red[Sentinel]
  BY RoundParents
<1>2. Base(t, D, S, sub, pos) /\ S \cup {Sentinel} \subseteq D
  BY DEF HotT, Base
<1>3. Rooted(S, t[side], t[Other(side)], t.parent, t.root, sub)
  BY <1>1, <1>2, BaseSides
<1>4. CASE t.red[u]
  <2> DEFINE red == [t.red EXCEPT ![p] = FALSE, ![u] = FALSE, ![g] = TRUE]
             r == Painted(t, red)
  <2>1. RebalanceRound(Reached(t, x)) = Reached([t EXCEPT !.red[p] = FALSE, !.red[u] = FALSE, !.red[g] = TRUE], g)
    BY <1>1, <1>4, Zenon DEF RebalanceRound, Reached
  <2>2. [t EXCEPT !.red[p] = FALSE, !.red[u] = FALSE, !.red[g] = TRUE] = r
    BY <1>2, Zenon DEF Base, IsRb, FunctionOn, Fields, Painted
  <2> HIDE DEF p, g, side, u
  <2>3. u \in S /\ u # p /\ u # g /\ p # g
    <3>1. u = t[Other(side)][g] /\ u # Sentinel
      BY <1>1, <1>4 DEF u
    <3> QED  BY <1>1, <1>3, <3>1, UncleApart
  <2>4. t.red \in [D -> BOOLEAN] /\ p \in D /\ u \in D /\ g \in D
    BY <1>1, <1>2, <2>3 DEF Base, IsRb
  <2>5. /\ red \in [D -> BOOLEAN] /\ ~red[p] /\ ~red[u] /\ red[g]
        /\ \A n \in D : n \notin {p, g, u} => red[n] = t.red[n]
    BY <2>3, <2>4
  <2>6. u = t[Other(side)][g]
    BY DEF u
  <2>9. r = Painted(t, red)
    OBVIOUS
  <2> HIDE DEF red, r
  <2>7. (\E h2 : HotT(r, D, S, sub, pos, h2, g)) /\ SameData(t, r)
    BY <1>1, <1>4, <2>3, <2>5, <2>6, <2>9, UncleCase
  <2>8. Cardinality(sub[x]) < Cardinality(sub[g])
    <3>1. Cardinality(sub[x]) \in Nat /\ Cardinality(sub[p]) \in Nat /\ Cardinality(sub[g]) \in Nat
      BY <1>1, <1>3, CardSub
    <3>2. Cardinality(sub[x]) < Cardinality(sub[p]) /\ Cardinality(sub[p]) < Cardinality(sub[g])
      BY <1>1, <1>3, CardSub
    <3> QED  BY <3>1, <3>2
  <2>10. Reached(r, g).tree = r /\ Reached(r, g).node = g
    BY DEF Reached
  <2>11. RebalanceRound(Reached(t, x)) = Reached(r, g)
    BY <2>1, <2>2
  <2> QED  BY <2>7, <2>8, <2>10, <2>11, Zenon DEF Risen
<1>5. CASE ~t.red[u] /\ x = t[Other(side)][p]
  <2> DEFINE s == Rotate(t, side, p)
  <2>1. RebalanceRound(Reached(t, x))
          = Reached(Rotate([s EXCEPT !.red[s.parent[p]] = FALSE, !.red[s.parent[s.parent[p]]] = TRUE],
                      Other(side), s.parent[s.parent[p]]), p)
    BY <1>1, <1>5, Zenon DEF RebalanceRound, Reached
  <2>2. s = Rotate(t, side, p)
    OBVIOUS
  <2>3. ~t.red[t[Other(side)][g]]
    BY <1>5 DEF u
  <2> HIDE DEF p, g, side, u, s
  <2>4. /\ \E sub2, h2 : HotT(s, D, S, sub2, pos, h2, p)
        /\ SameData(t, s) /\ p # s.root /\ x \in S /\ s.red = t.red
        /\ s.parent[p] = x /\ s.parent[x] = g
        /\ s[side][x] = p /\ s[side][g] = x /\ s.red[x] /\ ~s.red[s[Other(side)][g]]
    BY <1>1, <1>5, <2>2, <2>3, BentCase
  <2>5. PICK sub2, h2 : HotT(s, D, S, sub2, pos, h2, p)
    BY <2>4
  <2> DEFINE r == Rotate(Recoloured(s, x, g), Other(side), g)
  <2>6. RebalanceRound(Reached(t, x)) = Reached(r, p)
    BY <2>1, <2>4 DEF Recoloured
  <2>7. r = Rotate(Recoloured(s, x, g), Other(side), g)
    OBVIOUS
  <2> HIDE DEF r
  <2>8. /\ \E sub3, h3 : HotT(r, D, S, sub3, pos, h3, p)
        /\ SameData(s, r) /\ Settled(Reached(r, p))
    BY <1>1, <2>4, <2>5, <2>7, StraightCase
  <2>9. Reached(r, p).tree = r /\ Reached(r, p).node = p /\ SameData(t, r)
    BY <2>4, <2>8 DEF Reached, SameData
  <2> QED  BY <2>6, <2>8, <2>9, Zenon DEF Risen
<1>6. CASE ~t.red[u] /\ x # t[Other(side)][p]
  <2> DEFINE r == Rotate(Recoloured(t, p, g), Other(side), g)
  <2>1. RebalanceRound(Reached(t, x)) = Reached(r, x)
    BY <1>1, <1>6 DEF RebalanceRound, Reached, Recoloured
  <2>2. ~t.red[t[Other(side)][g]] /\ t[side][p] = x
    BY <1>1, <1>6 DEF u
  <2>3. r = Rotate(Recoloured(t, p, g), Other(side), g)
    OBVIOUS
  <2> HIDE DEF p, g, side, u, r
  <2>4. /\ \E sub3, h3 : HotT(r, D, S, sub3, pos, h3, x)
        /\ SameData(t, r) /\ Settled(Reached(r, x))
    BY <1>1, <2>2, <2>3, StraightCase
  <2>5. Reached(r, x).tree = r /\ Reached(r, x).node = x
    BY DEF Reached
  <2> QED  BY <2>1, <2>4, <2>5 DEF Risen
<1> QED  BY <1>4, <1>5, <1>6

-----------------------------------------------------------------------------
(* Loops *)

\* What a loop reaches is found round by round.
LEMMA ByRounds ==
  ASSUME NEW n \in Nat, NEW T, 0 \in T, \A i \in 0 .. n - 1 : i \in T => i + 1 \in T
  PROVE  \A i \in 0 .. n : i \in T
<1> DEFINE U == {i \in 0 .. n : i \notin T}
<1> SUFFICES ASSUME U # {} PROVE FALSE
  OBVIOUS
<1>1. U \in SUBSET Nat
  OBVIOUS
<1>2. PICK k \in U : \A j \in U : k <= j
  BY <1>1, HasLeast
<1>3. k # 0 /\ k \in 0 .. n /\ k \notin T
  BY <1>2
<1>4. k - 1 \in 0 .. n - 1 /\ k - 1 \notin U
  BY <1>2, <1>3
<1>5. k - 1 \in T
  BY <1>3, <1>4
<1>6. (k - 1) + 1 = k
  BY <1>3
<1> QED  BY <1>3, <1>4, <1>5, <1>6

\* The loops have as many rounds as they need.
LEMMA RoundsEnough ==
  ASSUME NEW t, NEW D, NEW S, NEW sub, NEW pos, Base(t, D, S, sub, pos), IsFiniteSet(D)
  PROVE  /\ Rounds(t) \in Nat
         /\ \A x \in S : /\ Cardinality(sub[x]) \in Nat
                         /\ 1 <= Cardinality(sub[x]) /\ Cardinality(sub[x]) < Rounds(t)
<1>1. IsRb(t, D) /\ Rooted(S, t.left, t.right, t.parent, t.root, sub) /\ S \cup {Sentinel} \subseteq D
  BY DEF Base
<1>2. DOMAIN t.key = D
  BY <1>1 DEF IsRb, FunctionOn
<1>3. Rounds(t) = Cardinality(D) /\ Cardinality(D) \in Nat
  BY <1>2, FS_CardinalityType DEF Rounds
<1>4. ASSUME NEW x \in S
      PROVE  /\ Cardinality(sub[x]) \in Nat
             /\ 1 <= Cardinality(sub[x]) /\ Cardinality(sub[x]) < Rounds(t)
  <2>1. sub[x] \subseteq D /\ Sentinel \in D /\ Sentinel \notin sub[x]
    BY <1>1, SubSelf DEF Rooted
  <2>2. Cardinality(sub[x]) <= Cardinality(D) /\ IsFiniteSet(sub[x])
        /\ (Cardinality(sub[x]) = Cardinality(D) => sub[x] = D)
    BY <2>1, FS_Subset
  <2>3. Cardinality(sub[x]) \in Nat
    BY <2>2, FS_CardinalityType
  <2>4. x \in sub[x]
    BY <1>1, SubSelf
  <2>5. Cardinality(sub[x]) # 0
    BY <2>2, <2>4, FS_EmptySet
  <2> QED  BY <1>3, <2>1, <2>2, <2>3, <2>5
<1> QED  BY <1>3, <1>4

MinDown(t, y) == IF t.left[y] = Sentinel THEN y ELSE t.left[y]

MinRun(t, x, n, f) == f = [i \in 0 .. n |-> IF i = 0 THEN x ELSE MinDown(t, f[i - 1])]

LEMMA MinRuns ==
  ASSUME NEW t, NEW x, NEW n \in Nat, n = Rounds(t)
  PROVE  \E f : MinRun(t, x, n, f) /\ RbMin(t, x) = f[n]
<1> DEFINE T == {k \in 0 .. n : \E f : MinRun(t, x, k, f)}
<1>1. 0 \in T
  <2>1. MinRun(t, x, 0, [i \in 0 .. 0 |-> x])
    BY DEF MinRun
  <2> QED  BY <2>1
<1>2. ASSUME NEW k \in 0 .. n - 1, k \in T
      PROVE  k + 1 \in T
  <2>1. PICK f : MinRun(t, x, k, f)
    BY <1>2
  <2> DEFINE g == [i \in 0 .. k + 1 |-> IF i = 0 THEN x ELSE MinDown(t, f[i - 1])]
  <2>2. \A i \in 0 .. k : g[i] = f[i]
    BY <2>1 DEF MinRun
  <2>3. /\ g = [i \in 0 .. k + 1 |-> g[i]]
        /\ \A i \in 0 .. k + 1 : g[i] = IF i = 0 THEN x ELSE MinDown(t, f[i - 1])
    OBVIOUS
  <2> HIDE DEF g
  <2>4. ASSUME NEW i \in 0 .. k + 1
        PROVE  g[i] = IF i = 0 THEN x ELSE MinDown(t, g[i - 1])
    <3>1. CASE i = 0
      BY <2>3, <3>1
    <3>2. CASE i # 0
      <4>1. i - 1 \in 0 .. k
        BY <3>2
      <4>2. g[i - 1] = f[i - 1]
        BY <2>2, <4>1
      <4> QED  BY <2>3, <3>2, <4>2
    <3> QED  BY <3>1, <3>2
  <2>6. MinRun(t, x, k + 1, g)
    BY <2>3, <2>4 DEF MinRun
  <2> QED  BY <2>6
<1>3. n \in T
  <2> HIDE DEF T
  <2> QED  BY <1>1, <1>2, ByRounds
<1> DEFINE c == CHOOSE f : f = [i \in 0 .. n |-> IF i = 0 THEN x ELSE MinDown(t, f[i - 1])]
<1>4. MinRun(t, x, n, c)
  BY <1>3 DEF MinRun
<1>5. RbMin(t, x) = c[n]
  BY DEF RbMin, Loop, MinDown
<1> QED  BY <1>4, <1>5

\* The node that mps_rbtree_min returns is the leftmost one below x.
LEMMA MinLeast ==
  ASSUME NEW t, NEW D, NEW S, NEW sub, NEW pos, Base(t, D, S, sub, pos), IsFiniteSet(D),
         NEW x \in S, NEW y, y = RbMin(t, x)
  PROVE  /\ y \in sub[x] /\ y \in S /\ t.left[y] = Sentinel
         /\ \A m \in sub[x] : m = y \/ pos[y] < pos[m]
<1>1. /\ Rooted(S, t.left, t.right, t.parent, t.root, sub)
      /\ Ord(S, t.left, t.right, sub, pos)
  BY DEF Base
<1> DEFINE n == Rounds(t)
<1>2. /\ n \in Nat
      /\ \A z \in S : /\ Cardinality(sub[z]) \in Nat
                      /\ 1 <= Cardinality(sub[z]) /\ Cardinality(sub[z]) < n
  BY RoundsEnough
<1>3. n = Rounds(t)
  OBVIOUS
<1> HIDE DEF n
<1>4. PICK f : MinRun(t, x, n, f) /\ y = f[n]
  BY <1>2, <1>3, MinRuns
<1> DEFINE J(z) == /\ z \in sub[x] /\ z \in S
                   /\ \A m \in sub[x] : m \in sub[z] \/ pos[z] < pos[m]
           T == {i \in 0 .. n : /\ J(f[i])
                                /\ t.left[f[i]] = Sentinel \/ Cardinality(sub[f[i]]) + i < n}
<1>5. 0 \in T
  <2>1. f[0] = x
    BY <1>2, <1>4 DEF MinRun
  <2>2. x \in sub[x]
    BY <1>1, SubSelf
  <2> QED  BY <1>2, <2>1, <2>2
<1>6. ASSUME NEW i \in 0 .. n - 1, i \in T
      PROVE  i + 1 \in T
  <2>1. f[i + 1] = MinDown(t, f[i])
    BY <1>2, <1>4 DEF MinRun
  <2> DEFINE z == f[i]
  <2>2. J(z) /\ (t.left[z] = Sentinel \/ Cardinality(sub[z]) + i < n)
    BY <1>6
  <2> HIDE DEF z
  <2>3. f[i + 1] = MinDown(t, z)
    BY <2>1 DEF z
  <2>4. CASE t.left[z] = Sentinel
    <3>1. f[i + 1] = z
      BY <2>3, <2>4 DEF MinDown
    <3> QED  BY <1>2, <2>2, <2>4, <3>1
  <2>5. CASE t.left[z] # Sentinel
    <3> DEFINE l == t.left[z]
    <3>1. f[i + 1] = l
      BY <2>3, <2>5 DEF MinDown
    <3>2. Fork(S, t.left, t.right, t.parent, sub, z)
      BY <1>1, <2>2 DEF Rooted
    <3>3. l \in S
      BY <2>5, <3>2 DEF Fork
    <3>4. l \in sub[l] /\ sub[l] \subseteq sub[z] /\ sub[z] = {z} \cup sub[l] \cup sub[t.right[z]]
      BY <1>1, <3>2, <3>3, SubSelf DEF Fork
    <3>5. sub[z] \subseteq sub[x]
      BY <1>1, <2>2, SubTrans
    <3>6. Cardinality(sub[l]) < Cardinality(sub[z])
      BY <1>1, <2>2, CardSub
    <3>7. /\ \A m \in S : pos[m] \in Int
          /\ \A m \in sub[l] : pos[m] < pos[z]
          /\ \A m \in sub[t.right[z]] : pos[z] < pos[m]
      BY <1>1, <2>2 DEF Ord
    <3>8. sub[x] \subseteq S
      BY <1>1, SubSelf
    <3> HIDE DEF l
    <3>9. \A m \in sub[x] : m \in sub[l] \/ pos[l] < pos[m]
      BY <2>2, <3>3, <3>4, <3>7, <3>8
    <3>10. J(l)
      BY <3>3, <3>4, <3>5, <3>9
    <3>11. Cardinality(sub[l]) + (i + 1) < n
      BY <1>2, <2>2, <2>5, <3>3, <3>6
    <3> QED  BY <1>2, <3>1, <3>10, <3>11
  <2> QED  BY <2>4, <2>5
<1>7. n \in T
  <2> HIDE DEF T
  <2> QED  BY <1>2, <1>5, <1>6, ByRounds
<1>8. J(y) /\ t.left[y] = Sentinel
  BY <1>2, <1>4, <1>7
<1>9. Fork(S, t.left, t.right, t.parent, sub, y)
  BY <1>1, <1>8 DEF Rooted
<1>10. sub[y] = {y} \cup sub[t.right[y]]
  BY <1>1, <1>8, <1>9 DEF Fork, Rooted
<1>11. \A m \in sub[t.right[y]] : pos[y] < pos[m]
  BY <1>1, <1>8 DEF Ord
<1> QED  BY <1>8, <1>10, <1>11

-----------------------------------------------------------------------------
(* The end of the loops *)

Good(S, A, B, root, w, h) ==
    /\ Leveled(S, A, B, w, h, Flat(S), Flat(S))
    /\ Calm(S, A, B, w, {}, {}) /\ w[root] = 1

LEMMA GoodSwap ==
  ASSUME NEW S, NEW A, NEW B, NEW root, NEW w, NEW h, Good(S, A, B, root, w, h),
         \A n \in S : A[n] \in S \cup {Sentinel} /\ B[n] \in S \cup {Sentinel}
  PROVE  Good(S, B, A, root, w, h)
<1>1. Leveled(S, B, A, w, h, Flat(S), Flat(S))
  <2>1. Leveled(S, A, B, w, h, Flat(S), Flat(S))
    BY DEF Good
  <2> QED  BY <2>1, LeveledSwap
<1> QED  BY <1>1 DEF Good, Calm

LEMMA BlackRoot ==
  ASSUME NEW S, NEW A, NEW B, NEW P, NEW root, NEW sub, NEW w, NEW h, NEW w2,
         Rooted(S, A, B, P, root, sub), Leveled(S, A, B, w, h, Flat(S), Flat(S)),
         Calm(S, A, B, w, {root}, {root}), w2[root] = 1,
         \A n \in S \cup {Sentinel} : n # root => w2[n] = w[n]
  PROVE  \E h2 : Good(S, A, B, root, w2, h2)
<1> DEFINE h2 == [h EXCEPT ![root] = @ + 1 - w[root]]
<1>1. /\ Sentinel \notin S /\ root \in S \cup {Sentinel}
      /\ \A n \in S : A[n] \in S \cup {Sentinel} /\ B[n] \in S \cup {Sentinel}
  BY DEF Rooted, Fork
<1>2. /\ \A n \in S : LevelAt(A, B, w, h, Flat(S), Flat(S), n)
      /\ \A n \in S \cup {Sentinel} : w[n] \in {0, 1} /\ h[n] \in Nat
      /\ h \in [S \cup {Sentinel} -> Nat] /\ w[Sentinel] = 1 /\ h[Sentinel] = 0
  BY DEF Leveled, Weights
<1>3. /\ h2[root] = h[root] + 1 - w[root] /\ h2[root] \in Nat
      /\ \A n \in S \cup {Sentinel} : n # root => h2[n] = h[n]
      /\ h2 \in [S \cup {Sentinel} -> Nat]
  BY <1>1, <1>2
<1> HIDE DEF h2
<1>4. h2[Sentinel] = 0 /\ w2[Sentinel] = 1
  BY <1>2, <1>3
<1>5. \A n \in S : (A[n] = root => A[n] = Sentinel) /\ (B[n] = root => B[n] = Sentinel)
  BY Children
<1>6. ASSUME NEW n \in S PROVE LevelAt(A, B, w2, h2, Flat(S), Flat(S), n)
  <2>1. Flat(S)[n] = 0
    BY DEF Flat
  <2>2. h2[A[n]] = h[A[n]] /\ h2[B[n]] = h[B[n]]
    BY <1>1, <1>2, <1>3, <1>4, <1>5
  <2>3. h[A[n]] \in Nat /\ h[B[n]] \in Nat /\ h[n] \in Nat /\ w[n] \in {0, 1}
    BY <1>1, <1>2
  <2>4. h[A[n]] = h[B[n]] /\ h[n] = h[A[n]] + w[n]
    BY <1>2, <2>1, <2>3 DEF LevelAt
  <2>5. h2[n] = h[A[n]] + w2[n]
    BY <1>3, <2>3, <2>4
  <2> QED  BY <2>1, <2>2, <2>3, <2>4, <2>5 DEF LevelAt
<1>7. Weights(S, w2, h2)
  BY <1>2, <1>3, <1>4 DEF Weights
<1>8. Flat(S) \in [S -> {0, 1}]
  BY DEF Flat
<1>9. Leveled(S, A, B, w2, h2, Flat(S), Flat(S))
  BY <1>6, <1>7, <1>8 DEF Leveled
<1>10. Calm(S, A, B, w2, {}, {})
  BY <1>1, <1>4, <1>5 DEF Calm
<1> QED  BY <1>9, <1>10 DEF Good

LEMMA BlackChild ==
  ASSUME NEW S, NEW A, NEW B, NEW P, NEW root, NEW sub, NEW w, NEW h, NEW w2, NEW p, NEW c,
         Rooted(S, A, B, P, root, sub), LowAt(S, A, B, P, w, h, p, c),
         c \in S \cup {Sentinel},
         Calm(S, A, B, w, {c}, {c}), w[root] = 1, w[c] = 0, w2[c] = 1,
         \A n \in S \cup {Sentinel} : n # c => w2[n] = w[n]
  PROVE  \E h2 : Good(S, A, B, root, w2, h2)
<1> DEFINE h2 == [h EXCEPT ![c] = @ + 1]
<1>1. /\ Sentinel \notin S /\ root \in S \cup {Sentinel}
      /\ \A n \in S : A[n] \in S \cup {Sentinel} /\ B[n] \in S \cup {Sentinel}
  BY DEF Rooted, Fork
<1>2. /\ \A n \in S : LevelAt(A, B, w, h, Hole(S, p), Flat(S), n)
      /\ \A n \in S \cup {Sentinel} : w[n] \in {0, 1} /\ h[n] \in Nat
      /\ h \in [S \cup {Sentinel} -> Nat] /\ w[Sentinel] = 1 /\ h[Sentinel] = 0
      /\ p \in S /\ A[p] = c
  BY DEF LowAt, Leveled, Weights
<1>3. c \in S
  BY <1>2
<1>4. /\ c # p /\ c # root /\ B[p] # c
      /\ \A n \in S : n # p => A[n] # c /\ B[n] # c
  <2>1. Rooted(S, B, A, P, root, sub)
    BY RootedSwap
  <2> QED  BY <1>2, <1>3, <2>1, ChildOf
<1>5. /\ h2[c] = h[c] + 1
      /\ \A n \in S \cup {Sentinel} : n # c => h2[n] = h[n]
      /\ h2 \in [S \cup {Sentinel} -> Nat]
  BY <1>2, <1>3
<1> HIDE DEF h2
<1>6. h2[Sentinel] = 0 /\ w2[Sentinel] = 1 /\ w2[root] = 1
  BY <1>1, <1>2, <1>3, <1>4, <1>5
<1>7. ASSUME NEW n \in S PROVE LevelAt(A, B, w2, h2, Flat(S), Flat(S), n)
  <2>1. Flat(S)[n] = 0 /\ Hole(S, p)[n] = IF n = p THEN 1 ELSE 0
    BY DEF Flat, Hole
  <2>2. h[A[n]] \in Nat /\ h[B[n]] \in Nat /\ h[n] \in Nat /\ w[n] \in {0, 1}
    BY <1>1, <1>2
  <2>3. /\ h[A[n]] + Hole(S, p)[n] = h[B[n]] + 0
        /\ h[n] = h[A[n]] + Hole(S, p)[n] + w[n]
    BY <1>2, <2>1 DEF LevelAt
  <2>4. h2[B[n]] = h[B[n]]
    BY <1>1, <1>4, <1>5
  <2>5. h2[A[n]] = h[A[n]] + Hole(S, p)[n]
    <3>1. CASE n = p
      BY <1>2, <1>5, <2>1, <3>1
    <3>2. CASE n # p
      BY <1>1, <1>4, <1>5, <2>1, <2>2, <3>2
    <3> QED  BY <3>1, <3>2
  <2>6. h2[n] = h2[A[n]] + w2[n]
    <3>1. CASE n = c
      BY <1>4, <1>5, <2>1, <2>2, <2>3, <2>5, <3>1
    <3>2. CASE n # c
      BY <1>5, <2>2, <2>3, <2>5, <3>2
    <3> QED  BY <3>1, <3>2
  <2> QED  BY <2>1, <2>2, <2>3, <2>4, <2>5, <2>6 DEF LevelAt
<1>8. Weights(S, w2, h2)
  BY <1>2, <1>5, <1>6 DEF Weights
<1>9. Flat(S) \in [S -> {0, 1}]
  BY DEF Flat
<1>10. Leveled(S, A, B, w2, h2, Flat(S), Flat(S))
  BY <1>7, <1>8, <1>9 DEF Leveled
<1>11. Calm(S, A, B, w2, {}, {})
  BY <1>1, <1>3 DEF Calm
<1> QED  BY <1>6, <1>10, <1>11 DEF Good

Blackens(S, w, w2, c) ==
    w2[c] = 1 /\ \A n \in S \cup {Sentinel} : n # c => w2[n] = w[n]

\* Both loops leave a node to blacken.
LEMMA LowBlack ==
  ASSUME NEW S, NEW A, NEW B, NEW P, NEW root, NEW sub, NEW w, NEW h, NEW w2, NEW c,
         Rooted(S, A, B, P, root, sub), Low(S, A, B, P, root, w, h, c),
         c = root \/ w[c] = 0, Blackens(S, w, w2, c)
  PROVE  \E h2 : Good(S, A, B, root, w2, h2)
<1>0. w2[c] = 1 /\ \A n \in S \cup {Sentinel} : n # c => w2[n] = w[n]
  BY DEF Blackens
<1>1. c \in S \cup {Sentinel} /\ Calm(S, A, B, w, {c}, {c})
  BY DEF Low
<1>2. Rooted(S, B, A, P, root, sub)
  BY RootedSwap
<1>3. CASE c = root
  <2>1. CASE Leveled(S, A, B, w, h, Flat(S), Flat(S))
    BY <1>0, <1>1, <1>3, <2>1, BlackRoot
  <2> QED  BY <1>3, <2>1 DEF Low
<1>4. CASE c # root
  <2>1. w[root] = 1 /\ w[c] = 0
    BY <1>4 DEF Low
  <2>2. PICK p : LowAt(S, A, B, P, w, h, p, c) \/ LowAt(S, B, A, P, w, h, p, c)
    BY <1>4 DEF Low
  <2>3. CASE LowAt(S, A, B, P, w, h, p, c)
    BY <1>0, <1>1, <2>1, <2>3, BlackChild
  <2>4. CASE LowAt(S, B, A, P, w, h, p, c)
    <3>1. Calm(S, B, A, w, {c}, {c})
      BY <1>1 DEF Calm
    <3>2. PICK h2 : Good(S, B, A, root, w2, h2)
      BY <1>0, <1>1, <1>2, <2>1, <2>4, <3>1, BlackChild
    <3>3. \A n \in S : B[n] \in S \cup {Sentinel} /\ A[n] \in S \cup {Sentinel}
      BY DEF Rooted, Fork
    <3> QED  BY <3>2, <3>3, GoodSwap
  <2> QED  BY <2>2, <2>3, <2>4
<1> QED  BY <1>3, <1>4

HotRun(t, x, n, f) == f = [i \in 0 .. n |-> IF i = 0 THEN Reached(t, x) ELSE RebalanceRound(f[i - 1])]

LEMMA HotRuns ==
  ASSUME NEW t, NEW x, NEW n \in Nat, n = Rounds(t)
  PROVE  \E f : HotRun(t, x, n, f) /\ Rebalance(t, x) = f[n].tree
<1> DEFINE T == {k \in 0 .. n : \E f : HotRun(t, x, k, f)}
<1>1. 0 \in T
  <2>1. HotRun(t, x, 0, [i \in 0 .. 0 |-> Reached(t, x)])
    BY DEF HotRun
  <2> QED  BY <2>1
<1>2. ASSUME NEW k \in 0 .. n - 1, k \in T
      PROVE  k + 1 \in T
  <2>1. PICK f : HotRun(t, x, k, f)
    BY <1>2
  <2> DEFINE g == [i \in 0 .. k + 1 |-> IF i = 0 THEN Reached(t, x) ELSE RebalanceRound(f[i - 1])]
  <2>2. \A i \in 0 .. k : g[i] = f[i]
    BY <2>1 DEF HotRun
  <2>3. /\ g = [i \in 0 .. k + 1 |-> g[i]]
        /\ \A i \in 0 .. k + 1 : g[i] = IF i = 0 THEN Reached(t, x) ELSE RebalanceRound(f[i - 1])
    OBVIOUS
  <2> HIDE DEF g
  <2>4. ASSUME NEW i \in 0 .. k + 1
        PROVE  g[i] = IF i = 0 THEN Reached(t, x) ELSE RebalanceRound(g[i - 1])
    <3>1. CASE i = 0
      BY <2>3, <3>1
    <3>2. CASE i # 0
      <4>1. i - 1 \in 0 .. k
        BY <3>2
      <4>2. g[i - 1] = f[i - 1]
        BY <2>2, <4>1
      <4> QED  BY <2>3, <3>2, <4>2
    <3> QED  BY <3>1, <3>2
  <2>5. HotRun(t, x, k + 1, g)
    BY <2>3, <2>4 DEF HotRun
  <2> QED  BY <2>5
<1>3. n \in T
  <2> HIDE DEF T
  <2> QED  BY <1>1, <1>2, ByRounds
<1> DEFINE c == CHOOSE f : f = [i \in 0 .. n |-> IF i = 0 THEN Reached(t, x) ELSE RebalanceRound(f[i - 1])]
<1>4. HotRun(t, x, n, c)
  BY <1>3, Zenon DEF HotRun
<1>5. Rebalance(t, x) = c[n].tree
  BY DEF Rebalance, Loop
<1> QED  BY <1>4, <1>5

LEMMA SettledRound ==
  ASSUME NEW u, Settled(u)
  PROVE  RebalanceRound(u) = u
BY Zenon DEF RebalanceRound, Settled

\* The loop of mps_rbtree_insert ends within its rounds.
LEMMA HotLoop ==
  ASSUME NEW t, NEW D, NEW S, NEW sub, NEW pos, NEW h, NEW x, HotT(t, D, S, sub, pos, h, x),
         IsFiniteSet(D), NEW r, r = Rebalance(t, x)
  PROVE  \E sub2, h2, y : /\ HotT(r, D, S, sub2, pos, h2, y)
                          /\ SameData(t, r) /\ Settled(Reached(r, y))
<1> DEFINE n == Rounds(t)
<1>1. Base(t, D, S, sub, pos) /\ x \in S
  BY DEF HotT, Hot
<1>2. /\ n \in Nat
      /\ \A z \in S : Cardinality(sub[z]) \in Nat /\ 1 <= Cardinality(sub[z])
  BY <1>1, RoundsEnough
<1>3. n = Rounds(t)
  OBVIOUS
<1> HIDE DEF n
<1>4. PICK f : HotRun(t, x, n, f) /\ r = f[n].tree
  BY <1>2, <1>3, HotRuns
<1> DEFINE J(u, i) == /\ u = Reached(u.tree, u.node) /\ SameData(t, u.tree)
                      /\ \E sub2, h2 : /\ HotT(u.tree, D, S, sub2, pos, h2, u.node)
                                       /\ Settled(u) \/ i < Cardinality(sub2[u.node])
           T == {i \in 0 .. n : J(f[i], i)}
<1>5. 0 \in T
  <2>1. f[0] = Reached(t, x)
    BY <1>2, <1>4 DEF HotRun
  <2>2. Reached(t, x).tree = t /\ Reached(t, x).node = x
    BY DEF Reached
  <2>3. SameData(t, t)
    BY DEF SameData
  <2>4. 0 < Cardinality(sub[x])
    BY <1>1, <1>2
  <2>5. J(Reached(t, x), 0)
    BY <2>2, <2>3, <2>4
  <2> QED  BY <1>2, <2>1, <2>5
<1>6. ASSUME NEW i \in 0 .. n - 1, i \in T
      PROVE  i + 1 \in T
  <2>1. f[i + 1] = RebalanceRound(f[i])
    BY <1>2, <1>4 DEF HotRun
  <2> DEFINE u == f[i]
             v == f[i + 1]
  <2>2. J(u, i)
    BY <1>6
  <2>3. i \in Nat /\ i + 1 \in 0 .. n
    BY <1>2
  <2> SUFFICES J(v, i + 1)
    BY <2>3
  <2>4. v = RebalanceRound(u)
    BY <2>1
  <2> HIDE DEF u, v
  <2>5. CASE Settled(u)
    <3>1. v = u
      BY <2>4, <2>5, SettledRound
    <3> QED  BY <2>2, <2>5, <3>1
  <2>6. CASE ~Settled(u)
    <3>1. PICK sub2, h2 : /\ HotT(u.tree, D, S, sub2, pos, h2, u.node)
                          /\ i < Cardinality(sub2[u.node])
      BY <2>2, <2>6
    <3>2. u = Reached(u.tree, u.node) /\ ~Settled(Reached(u.tree, u.node)) /\ SameData(t, u.tree)
      BY <2>2, <2>6
    <3>3. Risen(u.tree, D, S, sub2, pos, u.node, RebalanceRound(Reached(u.tree, u.node)))
      BY <3>1, <3>2, RoundHot
    <3>4. Risen(u.tree, D, S, sub2, pos, u.node, v)
      BY <2>4, <3>2, <3>3
    <3>5. PICK sub3, h3 :
            /\ HotT(v.tree, D, S, sub3, pos, h3, v.node) /\ SameData(u.tree, v.tree)
            /\ Settled(v) \/ Cardinality(sub2[u.node]) < Cardinality(sub3[v.node])
            /\ v = Reached(v.tree, v.node)
      BY <3>4 DEF Risen
    <3>6. SameData(t, v.tree)
      BY <3>2, <3>5 DEF SameData
    <3>7. Cardinality(sub2[u.node]) \in Nat /\ Cardinality(sub3[v.node]) \in Nat
      <4>1. /\ Base(u.tree, D, S, sub2, pos) /\ u.node \in S
            /\ Base(v.tree, D, S, sub3, pos) /\ v.node \in S
        BY <3>1, <3>5 DEF HotT, Hot
      <4> QED  BY <4>1, RoundsEnough
    <3>8. Settled(v) \/ i + 1 < Cardinality(sub3[v.node])
      BY <2>3, <3>1, <3>5, <3>7
    <3> QED  BY <3>5, <3>6, <3>8
  <2> QED  BY <2>5, <2>6
<1>7. n \in T
  <2> HIDE DEF T
  <2> QED  BY <1>2, <1>5, <1>6, ByRounds
<1> DEFINE u == f[n]
<1>8. J(u, n) /\ u.tree = r
  BY <1>4, <1>7
<1> HIDE DEF u
<1>9. PICK sub2, h2 : /\ HotT(r, D, S, sub2, pos, h2, u.node)
                      /\ Settled(u) \/ n < Cardinality(sub2[u.node])
  BY <1>8
<1>10. Base(r, D, S, sub2, pos) /\ u.node \in S
  BY <1>9 DEF HotT, Hot
<1>11. Rounds(r) = n
  <2>1. r.key = t.key
    BY <1>8 DEF SameData
  <2> QED  BY <1>3, <2>1 DEF Rounds
<1>12. Cardinality(sub2[u.node]) \in Nat /\ Cardinality(sub2[u.node]) < n
  BY <1>10, <1>11, RoundsEnough
<1>13. Settled(u)
  BY <1>2, <1>9, <1>12
<1> QED  BY <1>8, <1>9, <1>13

GoodT(t, D, S, sub, pos, h) ==
    Base(t, D, S, sub, pos) /\ Good(S, t.left, t.right, t.root, WT(t), h)

LEMMA BlackenedBase ==
  ASSUME NEW t, NEW D, NEW S, NEW sub, NEW pos, Base(t, D, S, sub, pos),
         NEW c \in S \cup {Sentinel}, NEW r, r = Blackened(t, c)
  PROVE  /\ Base(r, D, S, sub, pos) /\ SameData(t, r)
         /\ r.left = t.left /\ r.right = t.right /\ r.parent = t.parent /\ r.root = t.root
         /\ WT(r)[c] = 1 /\ \A n \in S \cup {Sentinel} : n # c => WT(r)[n] = WT(t)[n]
<1> DEFINE red == [t.red EXCEPT ![c] = FALSE]
<1>1. r = Painted(t, red)
  BY DEF Base, IsRb, FunctionOn, Fields, Painted, Blackened
<1>2. t.red \in [D -> BOOLEAN] /\ c \in D /\ S \cup {Sentinel} \subseteq D
  BY DEF Base, IsRb
<1>3. red \in [D -> BOOLEAN] /\ ~red[c] /\ \A n \in D : n # c => red[n] = t.red[n]
  BY <1>2
<1> HIDE DEF red
<1>4. /\ Base(r, D, S, sub, pos) /\ SameData(t, r) /\ r.red = red
      /\ r.left = t.left /\ r.right = t.right /\ r.parent = t.parent /\ r.root = t.root
      /\ \A n \in D : WT(r)[n] = IF red[n] THEN 0 ELSE 1
  BY <1>1, <1>3, PaintedBase
<1>5. \A n \in D : WT(t)[n] = IF t.red[n] THEN 0 ELSE 1
  BY WTValue
<1> QED  BY <1>2, <1>3, <1>4, <1>5

\* The root that the code blackens after the loop.
LEMMA HotEnd ==
  ASSUME NEW t, NEW D, NEW S, NEW sub, NEW pos, NEW h, NEW x, HotT(t, D, S, sub, pos, h, x),
         Settled(Reached(t, x)), NEW r, r = Blackened(t, t.root)
  PROVE  (\E h2 : GoodT(r, D, S, sub, pos, h2)) /\ SameData(t, r)
<1> DEFINE A == t.left
           B == t.right
           P == t.parent
           root == t.root
           w == WT(t)
           w2 == WT(r)
<1>1. /\ Base(t, D, S, sub, pos) /\ Rooted(S, A, B, P, root, sub)
      /\ S \cup {Sentinel} \subseteq D
      /\ Hot(S, A, B, root, w, h, x) /\ x \in S
  BY DEF HotT, Base, Hot
<1>2. root \in S \cup {Sentinel} /\ Sentinel \notin S
  BY <1>1 DEF Rooted
<1>3. /\ Base(r, D, S, sub, pos) /\ SameData(t, r)
      /\ r.left = A /\ r.right = B /\ r.root = root
      /\ w2[root] = 1 /\ \A n \in S \cup {Sentinel} : n # root => w2[n] = w[n]
  <2>1. t.root \in S \cup {Sentinel} /\ Base(t, D, S, sub, pos)
    BY <1>1, <1>2
  <2>2. /\ Base(r, D, S, sub, pos) /\ SameData(t, r)
        /\ r.left = t.left /\ r.right = t.right /\ r.root = t.root
        /\ WT(r)[t.root] = 1
        /\ \A n \in S \cup {Sentinel} : n # t.root => WT(r)[n] = WT(t)[n]
    <3> HIDE DEF A, B, P, root, w, w2
    <3> QED  BY <2>1, BlackenedBase
  <2> QED  BY <2>2
<1>4. x = root \/ (P[x] \in S /\ w[P[x]] # 0)
  <2>1. CASE x # root
    <3>1. P[x] \in S
      BY <1>1, <2>1, HasParent
    <3>2. ~t.red[P[x]]
      BY <2>1 DEF Settled, Reached
    <3> QED  BY <1>1, <3>1, <3>2, WTValue
  <2> QED  BY <2>1
<1> HIDE DEF A, B, P, root, w, w2
<1>5. Leveled(S, A, B, w, h, Flat(S), Flat(S)) /\ Calm(S, A, B, w, {}, {x})
  BY <1>1 DEF Hot
<1>6. \A n \in S : A[n] = x \/ B[n] = x => P[x] = n
  BY <1>1, <1>2 DEF Rooted, Fork
<1>7. Calm(S, A, B, w, {root}, {root})
  BY <1>4, <1>5, <1>6 DEF Calm
<1>8. PICK h2 : Good(S, A, B, root, w2, h2)
  BY <1>1, <1>3, <1>5, <1>7, BlackRoot
<1>9. GoodT(r, D, S, sub, pos, h2)
  BY <1>3, <1>8 DEF GoodT, w2, A, B, root
<1> QED  BY <1>3, <1>9

-----------------------------------------------------------------------------
(* A new leaf *)

\* x, from outside, becomes the child of p on the side of A.
AttachAt(S, A, B, P, A2, B2, P2, p, x) ==
    /\ A2[p] = x /\ \A n \in S \ {p} : A2[n] = A[n]
    /\ \A n \in S : B2[n] = B[n] /\ P2[n] = P[n]
    /\ A2[x] = Sentinel /\ B2[x] = Sentinel /\ P2[x] = p

AttachSub(S, sub, p, x) ==
    [n \in S \cup {x, Sentinel} |->
        IF n = x THEN {x} ELSE IF p \in sub[n] THEN sub[n] \cup {x} ELSE sub[n]]

LEMMA AttachRooted ==
  ASSUME NEW S, NEW A, NEW B, NEW P, NEW root, NEW sub,
         NEW A2, NEW B2, NEW P2, NEW p \in S, NEW x,
         Rooted(S, A, B, P, root, sub), A[p] = Sentinel, x \notin S, x # Sentinel,
         AttachAt(S, A, B, P, A2, B2, P2, p, x)
  PROVE  Rooted(S \cup {x}, A2, B2, P2, root, AttachSub(S, sub, p, x))
<1> DEFINE S2 == S \cup {x}
           sub2 == AttachSub(S, sub, p, x)
<1>1. /\ IsFiniteSet(S) /\ Sentinel \notin S /\ root \in S \cup {Sentinel}
      /\ sub \in [S \cup {Sentinel} -> SUBSET S] /\ sub[Sentinel] = {} /\ sub[root] = S
  BY DEF Rooted
<1>2. /\ sub2[x] = {x}
      /\ \A n \in S \cup {Sentinel} : sub2[n] = IF p \in sub[n] THEN sub[n] \cup {x} ELSE sub[n]
      /\ sub2[Sentinel] = {} /\ sub2[root] = S2
      /\ sub2 \in [S2 \cup {Sentinel} -> SUBSET S2]
  BY <1>1 DEF AttachSub
<1>3. /\ A2[p] = x /\ \A n \in S : n # p => A2[n] = A[n]
      /\ \A n \in S : B2[n] = B[n] /\ P2[n] = P[n]
      /\ A2[x] = Sentinel /\ B2[x] = Sentinel /\ P2[x] = p
  BY DEF AttachAt
<1> HIDE DEF sub2
<1>4. ASSUME NEW n \in S2 PROVE Fork(S2, A2, B2, P2, sub2, n)
  <2>1. CASE n = x
    BY <1>1, <1>2, <1>3, <2>1 DEF Fork
  <2>2. CASE n = p
    <3>1. Fork(S, A, B, P, sub, p) /\ p \in sub[p]
      BY SubSelf DEF Rooted
    <3>2. p \notin sub[B[p]]
      BY <3>1 DEF Fork
    <3>3. sub2[B2[p]] = sub[B[p]] /\ sub2[A2[p]] = {x} /\ sub2[p] = sub[p] \cup {x}
      <4>1. B2[p] = B[p] /\ A2[p] = x /\ B[p] \in S \cup {Sentinel}
        BY <1>3, <3>1 DEF Fork
      <4> QED  BY <1>2, <3>1, <3>2, <4>1
    <3>4. x \notin sub[B[p]]
      BY <1>1, <3>1 DEF Fork
    <3> QED  BY <1>1, <1>3, <2>2, <3>1, <3>3, <3>4 DEF Fork
  <2>3. CASE n # x /\ n # p
    <3>1. Fork(S, A, B, P, sub, n) /\ n \in S
      BY <2>3 DEF Rooted
    <3>2. A2[n] = A[n] /\ B2[n] = B[n]
      BY <1>3, <2>3, <3>1
    <3>3. /\ sub2[A[n]] = IF p \in sub[A[n]] THEN sub[A[n]] \cup {x} ELSE sub[A[n]]
          /\ sub2[B[n]] = IF p \in sub[B[n]] THEN sub[B[n]] \cup {x} ELSE sub[B[n]]
          /\ sub2[n] = IF p \in sub[n] THEN sub[n] \cup {x} ELSE sub[n]
      BY <1>2, <3>1 DEF Fork
    <3>4. x \notin sub[A[n]] /\ x \notin sub[B[n]]
      BY <1>1, <3>1 DEF Fork
    <3>5. p \in sub[n] <=> p \in sub[A[n]] \/ p \in sub[B[n]]
      BY <2>3, <3>1 DEF Fork
    <3>6. ~(p \in sub[A[n]] /\ p \in sub[B[n]])
      BY <3>1 DEF Fork
    <3>7. sub2[n] = {n} \cup sub2[A2[n]] \cup sub2[B2[n]]
      BY <3>1, <3>2, <3>3, <3>5, <3>6 DEF Fork
    <3>8. sub2[A2[n]] \cap sub2[B2[n]] = {} /\ n \notin sub2[A2[n]] /\ n \notin sub2[B2[n]]
      BY <2>3, <3>1, <3>2, <3>3, <3>4, <3>6 DEF Fork
    <3>9. /\ A2[n] \in S2 \cup {Sentinel} /\ B2[n] \in S2 \cup {Sentinel}
          /\ A2[n] # Sentinel => P2[A2[n]] = n
          /\ B2[n] # Sentinel => P2[B2[n]] = n
      BY <1>3, <3>1, <3>2 DEF Fork
    <3> QED  BY <3>7, <3>8, <3>9 DEF Fork
  <2> QED  BY <2>1, <2>2, <2>3
<1>5. IsFiniteSet(S2)
  BY <1>1, FS_AddElement
<1>6. Sentinel \notin S2 /\ root \in S2 \cup {Sentinel}
  BY <1>1
<1>7. Rooted(S2, A2, B2, P2, root, sub2)
  BY <1>2, <1>4, <1>5, <1>6 DEF Rooted
<1> QED  BY <1>7 DEF sub2

\* A place in the order for x, next to p.
AttachPos(S, pos, p, x, d) == [n \in S \cup {x} |-> IF n = x THEN 2 * pos[p] + d ELSE 2 * pos[n]]

LEMMA AttachOrd ==
  ASSUME NEW S, NEW A, NEW B, NEW P, NEW root, NEW sub, NEW pos,
         NEW A2, NEW B2, NEW P2, NEW p \in S, NEW x,
         Rooted(S, A, B, P, root, sub), A[p] = Sentinel, x \notin S, x # Sentinel,
         AttachAt(S, A, B, P, A2, B2, P2, p, x), Ord(S, A, B, sub, pos)
  PROVE  Ord(S \cup {x}, A2, B2, AttachSub(S, sub, p, x), AttachPos(S, pos, p, x, -1))
<1> DEFINE S2 == S \cup {x}
           sub2 == AttachSub(S, sub, p, x)
           pos2 == AttachPos(S, pos, p, x, -1)
<1>1. /\ Sentinel \notin S
      /\ sub \in [S \cup {Sentinel} -> SUBSET S] /\ sub[Sentinel] = {}
      /\ \A n \in S : A[n] \in S \cup {Sentinel} /\ B[n] \in S \cup {Sentinel}
  BY DEF Rooted, Fork
<1>2. /\ sub2[x] = {x} /\ sub2[Sentinel] = {}
      /\ \A n \in S \cup {Sentinel} : sub2[n] = IF p \in sub[n] THEN sub[n] \cup {x} ELSE sub[n]
  BY <1>1 DEF AttachSub
<1>3. /\ A2[p] = x /\ \A n \in S : n # p => A2[n] = A[n]
      /\ \A n \in S : B2[n] = B[n]
      /\ A2[x] = Sentinel /\ B2[x] = Sentinel
  BY DEF AttachAt
<1>4. /\ \A n \in S : pos[n] \in Int
      /\ \A m, n \in S : pos[m] = pos[n] => m = n
      /\ \A n \in S : \A m \in sub[A[n]] : pos[m] < pos[n]
      /\ \A n \in S : \A m \in sub[B[n]] : pos[n] < pos[m]
  BY DEF Ord
<1>5. pos2[x] = 2 * pos[p] - 1 /\ \A n \in S : pos2[n] = 2 * pos[n]
  BY <1>4 DEF AttachPos
<1> HIDE DEF sub2, pos2
<1>6. \A n \in S2 : pos2[n] \in Int
  BY <1>4, <1>5
<1>7. ASSUME NEW m \in S2, NEW n \in S2, pos2[m] = pos2[n] PROVE m = n
  BY <1>4, <1>5, <1>7
<1>8. p \in sub[p] /\ p \notin sub[B[p]]
  <2>1. Fork(S, A, B, P, sub, p)
    BY DEF Rooted
  <2> QED  BY <2>1 DEF Fork
<1>9. ASSUME NEW n \in S2, NEW m \in sub2[A2[n]] PROVE pos2[m] < pos2[n]
  <2>1. n # x
    BY <1>2, <1>3
  <2>2. CASE n = p
    <3>1. m = x
      BY <1>2, <1>3, <2>2
    <3> QED  BY <1>4, <1>5, <2>2, <3>1
  <2>3. CASE n # p
    <3>1. n \in S /\ A2[n] = A[n] /\ A[n] \in S \cup {Sentinel}
      BY <1>1, <1>3, <2>1, <2>3
    <3>2. CASE m \in sub[A[n]]
      BY <1>1, <1>4, <1>5, <3>1, <3>2
    <3>3. CASE m = x /\ p \in sub[A[n]]
      <4>1. pos[p] < pos[n]
        BY <1>4, <3>1, <3>3
      <4> QED  BY <1>4, <1>5, <3>1, <3>3, <4>1
    <3>4. sub2[A[n]] = IF p \in sub[A[n]] THEN sub[A[n]] \cup {x} ELSE sub[A[n]]
      BY <1>2, <3>1
    <3>5. m \in sub2[A[n]]
      BY <3>1
    <3> QED  BY <3>2, <3>3, <3>4, <3>5
  <2> QED  BY <2>2, <2>3
<1>10. ASSUME NEW n \in S2, NEW m \in sub2[B2[n]] PROVE pos2[n] < pos2[m]
  <2>1. n # x /\ n \in S
    BY <1>2, <1>3
  <2>2. B2[n] = B[n] /\ B[n] \in S \cup {Sentinel}
    BY <1>1, <1>3, <2>1
  <2>3. CASE m \in sub[B[n]]
    BY <1>1, <1>4, <1>5, <2>1, <2>2, <2>3
  <2>4. CASE m = x /\ p \in sub[B[n]]
    <3>1. pos[n] < pos[p]
      BY <1>4, <2>1, <2>4
    <3> QED  BY <1>4, <1>5, <2>1, <2>4, <3>1
  <2>5. sub2[B[n]] = IF p \in sub[B[n]] THEN sub[B[n]] \cup {x} ELSE sub[B[n]]
    BY <1>2, <2>2
  <2>6. m \in sub2[B[n]]
    BY <2>2
  <2> QED  BY <2>3, <2>4, <2>5, <2>6
<1>11. Ord(S2, A2, B2, sub2, pos2)
  BY <1>6, <1>7, <1>9, <1>10 DEF Ord
<1> QED  BY <1>11 DEF sub2, pos2

LEMMA AttachHot ==
  ASSUME NEW S, NEW A, NEW B, NEW P, NEW root, NEW sub, NEW w, NEW h, NEW w2,
         NEW A2, NEW B2, NEW P2, NEW p \in S, NEW x,
         Rooted(S, A, B, P, root, sub), A[p] = Sentinel, x \notin S, x # Sentinel,
         AttachAt(S, A, B, P, A2, B2, P2, p, x), Good(S, A, B, root, w, h),
         w2[x] = 0, \A n \in S \cup {Sentinel} : w2[n] = w[n]
  PROVE  \E h2 : Hot(S \cup {x}, A2, B2, root, w2, h2, x)
<1> DEFINE S2 == S \cup {x}
           h2 == [n \in S2 \cup {Sentinel} |-> IF n = x THEN 0 ELSE h[n]]
<1>1. /\ Sentinel \notin S /\ root \in S \cup {Sentinel}
      /\ \A n \in S : A[n] \in S \cup {Sentinel} /\ B[n] \in S \cup {Sentinel}
  BY DEF Rooted, Fork
<1>2. /\ \A n \in S : LevelAt(A, B, w, h, Flat(S), Flat(S), n)
      /\ \A n \in S \cup {Sentinel} : w[n] \in {0, 1} /\ h[n] \in Nat
      /\ w[Sentinel] = 1 /\ h[Sentinel] = 0 /\ w[root] = 1
      /\ \A n \in S : w[n] = 0 => w[A[n]] = 1 /\ w[B[n]] = 1
  BY DEF Good, Calm, Leveled, Weights
<1>3. /\ h2[x] = 0 /\ \A n \in S \cup {Sentinel} : h2[n] = h[n]
      /\ h2 \in [S2 \cup {Sentinel} -> Nat]
  BY <1>2
<1>4. /\ A2[p] = x /\ \A n \in S : n # p => A2[n] = A[n]
      /\ \A n \in S : B2[n] = B[n]
      /\ A2[x] = Sentinel /\ B2[x] = Sentinel
  BY DEF AttachAt
<1> HIDE DEF h2
<1>5. ASSUME NEW n \in S2 PROVE LevelAt(A2, B2, w2, h2, Flat(S2), Flat(S2), n)
  <2>1. Flat(S2)[n] = 0
    BY DEF Flat
  <2>2. CASE n = x
    BY <1>2, <1>3, <1>4, <2>1, <2>2 DEF LevelAt
  <2>3. CASE n # x
    <3>1. n \in S /\ Flat(S)[n] = 0
      BY <2>3 DEF Flat
    <3>2. h2[A2[n]] = h[A[n]] /\ h2[B2[n]] = h[B[n]] /\ h2[n] = h[n] /\ w2[n] = w[n]
      <4>1. CASE n = p
        BY <1>1, <1>2, <1>3, <1>4, <3>1, <4>1
      <4>2. CASE n # p
        BY <1>1, <1>3, <1>4, <3>1, <4>2
      <4> QED  BY <4>1, <4>2
    <3>3. LevelAt(A, B, w, h, Flat(S), Flat(S), n)
      BY <1>2, <3>1
    <3> QED  BY <2>1, <3>1, <3>2, <3>3 DEF LevelAt
  <2> QED  BY <2>2, <2>3
<1>6. Weights(S2, w2, h2)
  BY <1>2, <1>3 DEF Weights
<1>7. Flat(S2) \in [S2 -> {0, 1}]
  BY DEF Flat
<1>8. Leveled(S2, A2, B2, w2, h2, Flat(S2), Flat(S2))
  BY <1>5, <1>6, <1>7 DEF Leveled
<1>9. Calm(S2, A2, B2, w2, {}, {x})
  <2> SUFFICES ASSUME NEW n \in S2, w2[n] = 0
               PROVE  /\ A2[n] \in {x} \/ w2[A2[n]] = 1
                      /\ B2[n] \in {x} \/ w2[B2[n]] = 1
    BY DEF Calm
  <2>1. CASE n = x
    BY <1>2, <1>4, <2>1
  <2>2. CASE n # x
    <3>1. n \in S /\ w[n] = 0 /\ w[A[n]] = 1 /\ w[B[n]] = 1
      BY <1>2, <2>2
    <3> QED  BY <1>1, <1>4, <3>1
  <2> QED  BY <2>1, <2>2
<1>10. w2[root] = 1
  BY <1>1, <1>2
<1> QED  BY <1>8, <1>9, <1>10 DEF Hot

LEMMA OrdNegated ==
  ASSUME NEW S, NEW A, NEW B, NEW sub, NEW q, NEW pos2, Ord(S, A, B, sub, q),
         \A n \in S : pos2[n] = -q[n],
         \A n \in S : sub[A[n]] \subseteq S /\ sub[B[n]] \subseteq S
  PROVE  Ord(S, B, A, sub, pos2)
<1>1. /\ \A n \in S : q[n] \in Int
      /\ \A m, n \in S : q[m] = q[n] => m = n
      /\ \A n \in S : \A m \in sub[A[n]] : q[m] < q[n]
      /\ \A n \in S : \A m \in sub[B[n]] : q[n] < q[m]
  BY DEF Ord
<1>2. \A n \in S : pos2[n] \in Int /\ q[n] = -pos2[n]
  BY <1>1
<1>3. \A m, n \in S : pos2[m] = pos2[n] => m = n
  BY <1>1, <1>2
<1>4. ASSUME NEW n \in S, NEW m \in sub[B[n]] PROVE pos2[m] < pos2[n]
  <2>1. m \in S /\ q[n] < q[m]
    BY <1>1
  <2> QED  BY <1>1, <2>1
<1>5. ASSUME NEW n \in S, NEW m \in sub[A[n]] PROVE pos2[n] < pos2[m]
  <2>1. m \in S /\ q[m] < q[n]
    BY <1>1
  <2> QED  BY <1>1, <2>1
<1> QED  BY <1>2, <1>3, <1>4, <1>5 DEF Ord

LEMMA SubsWithin ==
  ASSUME NEW S, NEW A, NEW B, NEW P, NEW root, NEW sub, Rooted(S, A, B, P, root, sub)
  PROVE  \A n \in S : sub[A[n]] \subseteq S /\ sub[B[n]] \subseteq S
BY DEF Rooted, Fork

LEMMA AttachOrdMirror ==
  ASSUME NEW S, NEW A, NEW B, NEW P, NEW root, NEW sub, NEW pos,
         NEW A2, NEW B2, NEW P2, NEW p \in S, NEW x,
         Rooted(S, A, B, P, root, sub), A[p] = Sentinel, x \notin S, x # Sentinel,
         AttachAt(S, A, B, P, A2, B2, P2, p, x), Ord(S, B, A, sub, pos)
  PROVE  Ord(S \cup {x}, B2, A2, AttachSub(S, sub, p, x), AttachPos(S, pos, p, x, 1))
<1> DEFINE q == Mirrored(S, pos)
           q2 == AttachPos(S, q, p, x, -1)
           pos2 == AttachPos(S, pos, p, x, 1)
           S2 == S \cup {x}
           sub2 == AttachSub(S, sub, p, x)
<1>1. \A n \in S : sub[A[n]] \subseteq S /\ sub[B[n]] \subseteq S
  BY SubsWithin
<1>2. Ord(S, A, B, sub, q)
  BY <1>1, OrdMirror
<1>3. Ord(S2, A2, B2, sub2, q2)
  <2> HIDE DEF q
  <2> QED  BY <1>2, AttachOrd
<1>4. Rooted(S2, A2, B2, P2, root, sub2)
  BY AttachRooted
<1>5. \A n \in S2 : sub2[A2[n]] \subseteq S2 /\ sub2[B2[n]] \subseteq S2
  <2> HIDE DEF sub2, S2
  <2> QED  BY <1>4, SubsWithin
<1>6. \A n \in S : pos[n] \in Int
  BY DEF Ord
<1>7. \A n \in S2 : pos2[n] = -q2[n]
  BY <1>6 DEF AttachPos, Mirrored
<1> HIDE DEF q2, pos2, S2, sub2
<1>8. Ord(S2, B2, A2, sub2, pos2)
  BY <1>3, <1>5, <1>7, OrdNegated
<1> QED  BY <1>8 DEF pos2, S2, sub2

-----------------------------------------------------------------------------
(* The way down to the place of a new node *)

\* How the nodes compare: no node goes before one that goes before it, and not
\* to go before is transitive.
Compares(t, S) ==
    /\ \A a, b \in S : Before(t, a, b) => ~Before(t, b, a)
    /\ \A a, b, c \in S : Before(t, a, c) => Before(t, a, b) \/ Before(t, b, c)

Sorted(t, S, pos) == \A a, b \in S : pos[a] < pos[b] => ~Before(t, b, a)

PlaceDown(t, x, y) == IF t[Turn(t, x, y)][y] = Sentinel THEN y ELSE t[Turn(t, x, y)][y]

PlaceRun(t, x, n, f) == f = [i \in 0 .. n |-> IF i = 0 THEN t.root ELSE PlaceDown(t, x, f[i - 1])]

LEMMA PlaceRuns ==
  ASSUME NEW t, NEW x, NEW n \in Nat, n = Rounds(t)
  PROVE  \E f : PlaceRun(t, x, n, f) /\ Place(t, x) = f[n]
<1> DEFINE T == {k \in 0 .. n : \E f : PlaceRun(t, x, k, f)}
<1>1. 0 \in T
  <2>1. PlaceRun(t, x, 0, [i \in 0 .. 0 |-> t.root])
    BY DEF PlaceRun
  <2> QED  BY <2>1
<1>2. ASSUME NEW k \in 0 .. n - 1, k \in T
      PROVE  k + 1 \in T
  <2>1. PICK f : PlaceRun(t, x, k, f)
    BY <1>2
  <2> DEFINE g == [i \in 0 .. k + 1 |-> IF i = 0 THEN t.root ELSE PlaceDown(t, x, f[i - 1])]
  <2>2. \A i \in 0 .. k : g[i] = f[i]
    BY <2>1 DEF PlaceRun
  <2>3. /\ g = [i \in 0 .. k + 1 |-> g[i]]
        /\ \A i \in 0 .. k + 1 : g[i] = IF i = 0 THEN t.root ELSE PlaceDown(t, x, f[i - 1])
    OBVIOUS
  <2> HIDE DEF g
  <2>4. ASSUME NEW i \in 0 .. k + 1
        PROVE  g[i] = IF i = 0 THEN t.root ELSE PlaceDown(t, x, g[i - 1])
    <3>1. CASE i = 0
      BY <2>3, <3>1
    <3>2. CASE i # 0
      <4>1. i - 1 \in 0 .. k
        BY <3>2
      <4>2. g[i - 1] = f[i - 1]
        BY <2>2, <4>1
      <4> QED  BY <2>3, <3>2, <4>2
    <3> QED  BY <3>1, <3>2
  <2>5. PlaceRun(t, x, k + 1, g)
    BY <2>3, <2>4 DEF PlaceRun
  <2> QED  BY <2>5
<1>3. n \in T
  <2> HIDE DEF T
  <2> QED  BY <1>1, <1>2, ByRounds
<1> DEFINE c == CHOOSE f : f = [i \in 0 .. n |-> IF i = 0 THEN t.root ELSE PlaceDown(t, x, f[i - 1])]
<1>4. PlaceRun(t, x, n, c)
  BY <1>3 DEF PlaceRun
<1>5. Place(t, x) = c[n]
  BY DEF Place, Loop, PlaceDown
<1> QED  BY <1>4, <1>5

\* All nodes that are not below y are on the right side of x.
Parted(t, S, sub, pos, x, y) ==
    /\ y \in S
    /\ \A n \in S : \A m \in sub[y] : n \notin sub[y] =>
            /\ pos[m] < pos[n] => Before(t, x, n)
            /\ pos[n] < pos[m] => ~Before(t, x, n)

LEMMA PartedDown ==
  ASSUME NEW t, NEW D, NEW S, NEW sub, NEW pos, Base(t, D, S, sub, pos),
         NEW x, Compares(t, S \cup {x}), Sorted(t, S, pos),
         NEW y, Parted(t, S, sub, pos, x, y), NEW z, z = t[Turn(t, x, y)][y], z # Sentinel
  PROVE  Parted(t, S, sub, pos, x, z) /\ Cardinality(sub[z]) < Cardinality(sub[y])
<1>1. /\ Rooted(S, t.left, t.right, t.parent, t.root, sub)
      /\ Ord(S, t.left, t.right, sub, pos) /\ y \in S
  BY DEF Base, Parted
<1>2. Fork(S, t.left, t.right, t.parent, sub, y)
  BY <1>1 DEF Rooted
<1>3. z \in {t.left[y], t.right[y]} /\ z \in S
  BY <1>2 DEF Turn, Fork
<1>4. Cardinality(sub[z]) < Cardinality(sub[y])
  BY <1>1, <1>3, CardSub
<1>5. /\ sub[y] \subseteq S /\ sub[z] \subseteq S
      /\ sub[y] = {y} \cup sub[t.left[y]] \cup sub[t.right[y]]
      /\ sub[t.left[y]] \subseteq S /\ sub[t.right[y]] \subseteq S
  BY <1>1, <1>2, <1>3, SubSelf, SubsWithin DEF Fork
<1>6. /\ \A n \in S : pos[n] \in Int
      /\ \A n \in sub[t.left[y]] : pos[n] < pos[y]
      /\ \A n \in sub[t.right[y]] : pos[y] < pos[n]
  BY <1>1 DEF Ord
<1>7. /\ \A a, b, c \in S \cup {x} : Before(t, a, c) => Before(t, a, b) \/ Before(t, b, c)
      /\ \A a, b \in S : pos[a] < pos[b] => ~Before(t, b, a)
  BY DEF Compares, Sorted
<1>8. /\ \A n \in S : \A m \in sub[y] : n \notin sub[y] =>
            /\ pos[m] < pos[n] => Before(t, x, n)
            /\ pos[n] < pos[m] => ~Before(t, x, n)
  BY DEF Parted
<1>9. ASSUME NEW n \in S, NEW m \in sub[z], n \notin sub[z]
      PROVE  /\ pos[m] < pos[n] => Before(t, x, n)
             /\ pos[n] < pos[m] => ~Before(t, x, n)
  <2>1. CASE n \notin sub[y]
    BY <1>3, <1>5, <1>8, <1>9, <2>1
  <2>2. CASE n \in sub[y] /\ Before(t, x, y)
    <3>1. z = t.left[y]
      BY <2>2 DEF Turn
    <3>2. pos[m] < pos[y] /\ m \in S
      BY <1>5, <1>6, <3>1
    <3>3. n = y \/ n \in sub[t.right[y]]
      BY <1>5, <1>9, <2>2, <3>1
    <3>4. pos[m] < pos[n]
      BY <1>1, <1>6, <3>2, <3>3
    <3>5. CASE n = y
      BY <1>6, <2>2, <3>2, <3>4, <3>5
    <3>6. CASE n \in sub[t.right[y]]
      <4>1. ~Before(t, n, y)
        BY <1>1, <1>6, <1>7, <3>6
      <4>2. Before(t, x, n)
        BY <1>1, <1>7, <2>2, <4>1
      <4> QED  BY <1>6, <3>2, <3>4, <4>2
    <3> QED  BY <3>3, <3>5, <3>6
  <2>3. CASE n \in sub[y] /\ ~Before(t, x, y)
    <3>1. z = t.right[y]
      BY <2>3 DEF Turn
    <3>2. pos[y] < pos[m] /\ m \in S
      BY <1>5, <1>6, <3>1
    <3>3. n = y \/ n \in sub[t.left[y]]
      BY <1>5, <1>9, <2>3, <3>1
    <3>4. pos[n] < pos[m]
      BY <1>1, <1>6, <3>2, <3>3
    <3>5. CASE n = y
      BY <1>6, <2>3, <3>2, <3>4, <3>5
    <3>6. CASE n \in sub[t.left[y]]
      <4>1. ~Before(t, y, n)
        BY <1>1, <1>6, <1>7, <3>6
      <4>2. ~Before(t, x, n)
        BY <1>1, <1>7, <2>3, <4>1
      <4> QED  BY <1>6, <3>2, <3>4, <4>2
    <3> QED  BY <3>3, <3>5, <3>6
  <2> QED  BY <2>1, <2>2, <2>3
<1>10. Parted(t, S, sub, pos, x, z)
  BY <1>3, <1>9 DEF Parted
<1> QED  BY <1>4, <1>10

\* The leaf of x goes to the side of p where its place in the order is.
LEMMA PlaceFound ==
  ASSUME NEW t, NEW D, NEW S, NEW sub, NEW pos, Base(t, D, S, sub, pos), IsFiniteSet(D),
         NEW x, Compares(t, S \cup {x}), Sorted(t, S, pos), t.root # Sentinel,
         NEW p, p = Place(t, x)
  PROVE  /\ p \in S /\ t[Turn(t, x, p)][p] = Sentinel
         /\ \A n \in S : /\ pos[p] < pos[n] => Before(t, x, n)
                         /\ pos[n] < pos[p] => ~Before(t, x, n)
<1> DEFINE n == Rounds(t)
<1>1. /\ Rooted(S, t.left, t.right, t.parent, t.root, sub)
      /\ Ord(S, t.left, t.right, sub, pos)
      /\ t.root \in S /\ sub[t.root] = S
  BY DEF Base, Rooted
<1>2. /\ n \in Nat
      /\ \A z \in S : /\ Cardinality(sub[z]) \in Nat
                      /\ 1 <= Cardinality(sub[z]) /\ Cardinality(sub[z]) < n
  BY RoundsEnough
<1>3. n = Rounds(t)
  OBVIOUS
<1> HIDE DEF n
<1>4. PICK f : PlaceRun(t, x, n, f) /\ p = f[n]
  BY <1>2, <1>3, PlaceRuns
<1> DEFINE Done(y) == t[Turn(t, x, y)][y] = Sentinel
           T == {i \in 0 .. n : /\ Parted(t, S, sub, pos, x, f[i])
                                /\ Done(f[i]) \/ Cardinality(sub[f[i]]) + i < n}
<1>5. 0 \in T
  <2>1. f[0] = t.root
    BY <1>2, <1>4 DEF PlaceRun
  <2>2. Parted(t, S, sub, pos, x, t.root)
    BY <1>1 DEF Parted
  <2> QED  BY <1>1, <1>2, <2>1, <2>2
<1>6. ASSUME NEW i \in 0 .. n - 1, i \in T
      PROVE  i + 1 \in T
  <2> DEFINE y == f[i]
             z == f[i + 1]
  <2>1. z = PlaceDown(t, x, y)
    BY <1>2, <1>4 DEF PlaceRun
  <2>2. Parted(t, S, sub, pos, x, y) /\ (Done(y) \/ Cardinality(sub[y]) + i < n)
    BY <1>6
  <2>3. i \in Nat /\ i + 1 \in 0 .. n
    BY <1>2
  <2> SUFFICES Parted(t, S, sub, pos, x, z) /\ (Done(z) \/ Cardinality(sub[z]) + (i + 1) < n)
    BY <2>3
  <2> HIDE DEF y, z
  <2>4. CASE Done(y)
    <3>1. z = y
      BY <2>1, <2>4 DEF PlaceDown
    <3> QED  BY <2>2, <2>4, <3>1
  <2>5. CASE ~Done(y)
    <3>1. z = t[Turn(t, x, y)][y] /\ z # Sentinel
      BY <2>1, <2>5 DEF PlaceDown
    <3>2. Parted(t, S, sub, pos, x, z) /\ Cardinality(sub[z]) < Cardinality(sub[y])
      BY <2>2, <3>1, PartedDown
    <3>3. y \in S /\ z \in S
      BY <2>2, <3>2 DEF Parted
    <3>4. Cardinality(sub[z]) + (i + 1) < n
      BY <1>2, <2>2, <2>3, <2>5, <3>2, <3>3
    <3> QED  BY <3>2, <3>4
  <2> QED  BY <2>4, <2>5
<1>7. n \in T
  <2> HIDE DEF T
  <2> QED  BY <1>2, <1>5, <1>6, ByRounds
<1>8. Parted(t, S, sub, pos, x, p) /\ (Done(p) \/ Cardinality(sub[p]) + n < n)
  BY <1>4, <1>7
<1>9. p \in S
  BY <1>8 DEF Parted
<1>10. Done(p)
  BY <1>2, <1>8, <1>9
<1>11. p \in sub[p] /\ Fork(S, t.left, t.right, t.parent, sub, p) /\ sub[Sentinel] = {}
  <2>1. p \in sub[p]
    BY <1>1, <1>9, SubSelf
  <2> QED  BY <1>1, <1>9, <2>1 DEF Rooted
<1>12. /\ \A m \in S : pos[m] \in Int
       /\ \A m \in sub[t.left[p]] : pos[m] < pos[p]
       /\ \A m \in sub[t.right[p]] : pos[p] < pos[m]
  BY <1>1, <1>9 DEF Ord
<1>13. /\ \A a, b, c \in S \cup {x} : Before(t, a, c) => Before(t, a, b) \/ Before(t, b, c)
       /\ \A a, b \in S : pos[a] < pos[b] => ~Before(t, b, a)
  BY DEF Compares, Sorted
<1>14. ASSUME NEW m \in S
       PROVE  /\ pos[p] < pos[m] => Before(t, x, m)
              /\ pos[m] < pos[p] => ~Before(t, x, m)
  <2>1. CASE m \notin sub[p]
    BY <1>8, <1>11, <2>1 DEF Parted
  <2>2. CASE m \in sub[p] /\ Before(t, x, p)
    <3>1. t.left[p] = Sentinel
      BY <1>10, <2>2 DEF Turn
    <3>2. m = p \/ m \in sub[t.right[p]]
      BY <1>11, <2>2, <3>1 DEF Fork
    <3>3. ~(pos[m] < pos[p])
      BY <1>9, <1>12, <3>2
    <3>4. pos[p] < pos[m] => Before(t, x, m)
      <4>1. pos[p] < pos[m] => ~Before(t, m, p)
        BY <1>9, <1>13
      <4> QED  BY <1>9, <1>13, <2>2, <4>1
    <3> QED  BY <3>3, <3>4
  <2>3. CASE m \in sub[p] /\ ~Before(t, x, p)
    <3>1. t.right[p] = Sentinel
      BY <1>10, <2>3 DEF Turn
    <3>2. m = p \/ m \in sub[t.left[p]]
      BY <1>11, <2>3, <3>1 DEF Fork
    <3>3. ~(pos[p] < pos[m])
      BY <1>9, <1>12, <3>2
    <3>4. pos[m] < pos[p] => ~Before(t, x, m)
      <4>1. pos[m] < pos[p] => ~Before(t, p, m)
        BY <1>9, <1>13
      <4> QED  BY <1>9, <1>13, <2>3, <4>1
    <3> QED  BY <3>3, <3>4
  <2> QED  BY <2>1, <2>2, <2>3
<1> QED  BY <1>9, <1>10, <1>14

\* What the insert_value functions write.
Leaf(t, side, p, x) ==
    [t EXCEPT ![side][p] = x, !.parent[x] = p,
              !.left[x] = Sentinel, !.right[x] = Sentinel, !.red[x] = TRUE]

LeafFacts(t, r, D, side, p, x) ==
    /\ IsRb(r, D) /\ SameData(t, r) /\ r.root = t.root
    /\ r[side] = [t[side] EXCEPT ![p] = x, ![x] = Sentinel]
    /\ r[Other(side)] = [t[Other(side)] EXCEPT ![x] = Sentinel]
    /\ r.parent = [t.parent EXCEPT ![x] = p] /\ r.red = [t.red EXCEPT ![x] = TRUE]

LEMMA LeafFields ==
  ASSUME NEW t, NEW D, IsRb(t, D), NEW side \in Sides, NEW p \in D, NEW x \in D, x # p,
         NEW r, r = Leaf(t, side, p, x)
  PROVE  LeafFacts(t, r, D, side, p, x)
<1>1. CASE side = "left"
  <2>1. Other(side) = "right"
    BY <1>1 DEF Other
  <2> QED  BY <1>1, <2>1 DEF LeafFacts, Leaf, IsRb, FunctionOn, Fields, SameData
<1>2. CASE side = "right"
  <2>1. Other(side) = "left"
    BY <1>2 DEF Other
  <2> QED  BY <1>2, <2>1 DEF LeafFacts, Leaf, IsRb, FunctionOn, Fields, SameData
<1> QED  BY <1>1, <1>2 DEF Sides

\* A place for x among the nodes, after its equals; the others keep theirs.
Slotted(t, S, pos, x, pos2) ==
    /\ \A n \in S : /\ pos2[x] < pos2[n] => Before(t, x, n)
                    /\ pos2[n] < pos2[x] => ~Before(t, x, n)
    /\ \A m, n \in S : pos2[m] < pos2[n] <=> pos[m] < pos[n]

LEMMA InsertValueHot ==
  ASSUME NEW t, NEW D, NEW S, NEW sub, NEW pos, NEW h, GoodT(t, D, S, sub, pos, h),
         IsFiniteSet(D), t.root # Sentinel,
         NEW x \in D, x \notin S, x # Sentinel, Compares(t, S \cup {x}), Sorted(t, S, pos),
         NEW r, r = InsertValue(t, x)
  PROVE  /\ \E sub2, pos2, h2 : /\ HotT(r, D, S \cup {x}, sub2, pos2, h2, x)
                                /\ Slotted(t, S, pos, x, pos2)
         /\ SameData(t, r)
<1> DEFINE p == Place(t, x)
           side == Turn(t, x, p)
           A == t[side]
           B == t[Other(side)]
           S2 == S \cup {x}
           d == IF side = "left" THEN -1 ELSE 1
           sub2 == AttachSub(S, sub, p, x)
           pos2 == AttachPos(S, pos, p, x, d)
<1>1. Base(t, D, S, sub, pos) /\ Good(S, t.left, t.right, t.root, WT(t), h)
  BY DEF GoodT
<1>2. /\ p \in S /\ A[p] = Sentinel
      /\ \A n \in S : /\ pos[p] < pos[n] => Before(t, x, n)
                      /\ pos[n] < pos[p] => ~Before(t, x, n)
  BY <1>1, PlaceFound
<1>3. side \in Sides /\ (side = "left" <=> Before(t, x, p)) /\ Other(side) \in Sides
  BY DEF Turn, Sides, Other
<1>4. r = Leaf(t, side, p, x)
  BY DEF InsertValue, Leaf
<1>5. /\ IsRb(t, D) /\ S \cup {Sentinel} \subseteq D
      /\ Rooted(S, t.left, t.right, t.parent, t.root, sub)
      /\ Ord(S, t.left, t.right, sub, pos) /\ Sentinel \notin S
  BY <1>1 DEF Base, Rooted
<1>6. /\ IsRb(r, D) /\ SameData(t, r) /\ r.root = t.root
      /\ r[side] = [t[side] EXCEPT ![p] = x, ![x] = Sentinel]
      /\ r[Other(side)] = [t[Other(side)] EXCEPT ![x] = Sentinel]
      /\ r.parent = [t.parent EXCEPT ![x] = p] /\ r.red = [t.red EXCEPT ![x] = TRUE]
  <2>1. p \in D /\ x # p
    BY <1>2, <1>5
  <2> HIDE DEF p, side
  <2>2. LeafFacts(t, r, D, side, p, x)
    BY <1>3, <1>4, <1>5, <2>1, LeafFields
  <2> QED  BY <2>2 DEF LeafFacts
<1>7. /\ FunctionOn(t[side], D) /\ FunctionOn(t[Other(side)], D) /\ FunctionOn(t.parent, D)
      /\ t.red \in [D -> BOOLEAN]
  BY <1>3, <1>5 DEF IsRb, Sides
<1> HIDE DEF p, side
<1>8. AttachAt(S, A, B, t.parent, r[side], r[Other(side)], r.parent, p, x)
  BY <1>2, <1>5, <1>6, <1>7 DEF AttachAt, FunctionOn
<1>9. Rooted(S, A, B, t.parent, t.root, sub)
  BY <1>1, <1>3, BaseSides
<1>10. Rooted(S2, r[side], r[Other(side)], r.parent, r.root, sub2)
  <2> HIDE DEF A, B
  <2> QED  BY <1>2, <1>6, <1>8, <1>9, AttachRooted
<1>11. Base(r, D, S2, sub2, pos2)
  <2>1. S2 \cup {Sentinel} \subseteq D
    BY <1>5
  <2>2. CASE side = "left"
    <3>1. A = t.left /\ B = t.right /\ r[side] = r.left /\ r[Other(side)] = r.right /\ d = -1
      BY <2>2 DEF Other
    <3> HIDE DEF A, B, d
    <3>2. Ord(S, A, B, sub, pos)
      BY <1>5, <3>1
    <3>3. Ord(S2, r[side], r[Other(side)], sub2, AttachPos(S, pos, p, x, -1))
      BY <1>2, <1>5, <1>8, <1>9, <3>2, AttachOrd
    <3>4. Ord(S2, r.left, r.right, sub2, pos2)
      BY <3>1, <3>3
    <3> QED  BY <1>6, <1>10, <2>1, <3>1, <3>4 DEF Base
  <2>3. CASE side = "right"
    <3>1. A = t.right /\ B = t.left /\ r[side] = r.right /\ r[Other(side)] = r.left /\ d = 1
      BY <2>3 DEF Other
    <3> HIDE DEF A, B, d
    <3>2. Ord(S, B, A, sub, pos)
      BY <1>5, <3>1
    <3>3. Ord(S2, r[Other(side)], r[side], sub2, AttachPos(S, pos, p, x, 1))
      BY <1>2, <1>5, <1>8, <1>9, <3>2, AttachOrdMirror
    <3>4. Ord(S2, r.left, r.right, sub2, pos2)
      BY <3>1, <3>3
    <3>5. Rooted(S2, r.left, r.right, r.parent, r.root, sub2)
      <4> HIDE DEF sub2, S2
      <4> QED  BY <1>10, <3>1, RootedSwap
    <3> QED  BY <1>6, <2>1, <3>4, <3>5 DEF Base
  <2> QED  BY <1>3, <2>2, <2>3 DEF Sides
<1>12. /\ WT(r)[x] = 0 /\ \A n \in S \cup {Sentinel} : WT(r)[n] = WT(t)[n]
  BY <1>5, <1>6, <1>7 DEF WT
<1>13. Good(S, A, B, t.root, WT(t), h)
  <2>1. CASE side = "left"
    BY <1>1, <2>1 DEF Other
  <2>2. CASE side = "right"
    <3>1. \A n \in S : t.left[n] \in S \cup {Sentinel} /\ t.right[n] \in S \cup {Sentinel}
      BY <1>5 DEF Rooted, Fork
    <3>2. Good(S, t.right, t.left, t.root, WT(t), h)
      BY <1>1, <3>1, GoodSwap
    <3> QED  BY <2>2, <3>2 DEF Other
  <2> QED  BY <1>3, <2>1, <2>2 DEF Sides
<1>14. PICK h2 : Hot(S2, r[side], r[Other(side)], t.root, WT(r), h2, x)
  <2> DEFINE w == WT(t)
             w2 == WT(r)
  <2> HIDE DEF A, B, w, w2
  <2>1. Good(S, A, B, t.root, w, h) /\ w2[x] = 0 /\ \A n \in S \cup {Sentinel} : w2[n] = w[n]
    BY <1>12, <1>13 DEF w, w2
  <2>2. \E h2 : Hot(S2, r[side], r[Other(side)], t.root, w2, h2, x)
    BY <1>2, <1>8, <1>9, <2>1, AttachHot
  <2> QED  BY <2>2 DEF w2
<1>15. HotT(r, D, S2, sub2, pos2, h2, x)
  <2> HIDE DEF sub2, pos2, S2
  <2> QED  BY <1>3, <1>6, <1>11, <1>14, HotBack
<1>16. Slotted(t, S, pos, x, pos2)
  <2>1. \A n \in S : pos[n] \in Int
    BY <1>5 DEF Ord
  <2>2. /\ \A n \in S : pos2[n] = 2 * pos[n]
        /\ pos2[x] = 2 * pos[p] + d /\ d = IF side = "left" THEN -1 ELSE 1
    BY DEF AttachPos
  <2> HIDE DEF pos2, d
  <2>3. \A m, n \in S : pos2[m] < pos2[n] <=> pos[m] < pos[n]
    BY <2>1, <2>2
  <2>4. ASSUME NEW n \in S
        PROVE  /\ pos2[x] < pos2[n] => Before(t, x, n)
               /\ pos2[n] < pos2[x] => ~Before(t, x, n)
    <3>1. \A m \in S : pos[m] = pos[p] => m = p
      BY <1>2, <1>5 DEF Ord
    <3>2. CASE side = "left"
      <4>1. pos2[x] = 2 * pos[p] - 1 /\ pos2[n] = 2 * pos[n] /\ Before(t, x, p)
        BY <1>2, <1>3, <2>1, <2>2, <3>2
      <4>2. pos2[x] < pos2[n] => pos[p] <= pos[n]
        BY <1>2, <2>1, <4>1
      <4>3. pos2[n] < pos2[x] => pos[n] < pos[p]
        BY <1>2, <2>1, <4>1
      <4>4. pos[p] <= pos[n] => n = p \/ pos[p] < pos[n]
        BY <1>2, <2>1, <3>1
      <4> QED  BY <1>2, <4>1, <4>2, <4>3, <4>4
    <3>3. CASE side = "right"
      <4>1. pos2[x] = 2 * pos[p] + 1 /\ pos2[n] = 2 * pos[n] /\ ~Before(t, x, p)
        BY <1>2, <1>3, <2>1, <2>2, <3>3
      <4>2. pos2[x] < pos2[n] => pos[p] < pos[n]
        BY <1>2, <2>1, <4>1
      <4>3. pos2[n] < pos2[x] => pos[n] <= pos[p]
        BY <1>2, <2>1, <4>1
      <4>4. pos[n] <= pos[p] => n = p \/ pos[n] < pos[p]
        BY <1>2, <2>1, <3>1
      <4> QED  BY <1>2, <4>1, <4>2, <4>3, <4>4
    <3> QED  BY <1>3, <3>2, <3>3 DEF Sides
  <2> QED  BY <2>3, <2>4 DEF Slotted
<1> QED  BY <1>6, <1>15, <1>16

LEMMA SameBefore ==
  ASSUME NEW t, NEW r, SameData(t, r)
  PROVE  \A a, b : Before(t, a, b) <=> Before(r, a, b)
BY DEF SameData, Before

\* A red-black search tree of the nodes S.
SortedTree(t, D, S, sub, pos, h) == GoodT(t, D, S, sub, pos, h) /\ Sorted(t, S, pos)

LEMMA SlottedSorted ==
  ASSUME NEW t, NEW S, NEW pos, NEW x, NEW pos2, Slotted(t, S, pos, x, pos2),
         Sorted(t, S, pos), Compares(t, S \cup {x}), pos2[x] \in Int
  PROVE  Sorted(t, S \cup {x}, pos2)
<1> SUFFICES ASSUME NEW a \in S \cup {x}, NEW b \in S \cup {x}, pos2[a] < pos2[b]
             PROVE  ~Before(t, b, a)
  BY DEF Sorted
<1>1. CASE a \in S /\ b \in S
  BY <1>1 DEF Slotted, Sorted
<1>2. CASE a = x /\ b \in S
  BY <1>2 DEF Slotted, Compares
<1>3. CASE a \in S /\ b = x
  BY <1>3 DEF Slotted
<1>4. CASE a = x /\ b = x
  BY <1>4
<1> QED  BY <1>1, <1>2, <1>3, <1>4

Single(t, x) ==
    [t EXCEPT !.root = x, !.parent[x] = Null, !.left[x] = Sentinel,
              !.right[x] = Sentinel, !.red[x] = FALSE]

\* The first node of a tree.
LEMMA InsertFirst ==
  ASSUME NEW t, NEW D, NEW S, NEW sub, NEW pos, NEW h, SortedTree(t, D, S, sub, pos, h),
         t.root = Sentinel, NEW x \in D, x # Sentinel, NEW r, r = Single(t, x)
  PROVE  /\ \E sub2, pos2, h2 : /\ SortedTree(r, D, S \cup {x}, sub2, pos2, h2)
                                /\ Slotted(t, S, pos, x, pos2)
         /\ SameData(t, r)
<1> DEFINE sub2 == [n \in {x, Sentinel} |-> IF n = x THEN {x} ELSE {}]
           pos2 == [n \in {x} |-> 0]
           h2 == [n \in {x, Sentinel} |-> IF n = x THEN 1 ELSE 0]
<1>1. IsRb(t, D) /\ S = {} /\ Sentinel \in D /\ WT(t)[Sentinel] = 1
  BY DEF SortedTree, GoodT, Base, Rooted, Good, Leveled, Weights
<1>2. ~t.red[Sentinel]
  BY <1>1 DEF WT, IsRb
<1>3. /\ IsRb(r, D) /\ SameData(t, r)
      /\ r.root = x /\ r.left[x] = Sentinel /\ r.right[x] = Sentinel
      /\ r.red[x] = FALSE /\ r.red[Sentinel] = t.red[Sentinel]
  BY <1>1 DEF Single, IsRb, FunctionOn, Fields, SameData
<1>4. WT(r)[x] = 1 /\ WT(r)[Sentinel] = 1
  BY <1>1, <1>2, <1>3 DEF WT, IsRb
<1>5. Rooted({x}, r.left, r.right, r.parent, r.root, sub2)
  BY <1>3, FS_Singleton DEF Rooted, Fork
<1>6. Ord({x}, r.left, r.right, sub2, pos2)
  BY <1>3 DEF Ord
<1>7. Base(r, D, {x}, sub2, pos2)
  BY <1>1, <1>3, <1>5, <1>6 DEF Base
<1>8. Leveled({x}, r.left, r.right, WT(r), h2, Flat({x}), Flat({x}))
  BY <1>3, <1>4 DEF Leveled, Weights, LevelAt, Flat
<1>9. Good({x}, r.left, r.right, r.root, WT(r), h2)
  BY <1>3, <1>4, <1>8 DEF Good, Calm
<1>10. Sorted(r, {x}, pos2)
  BY DEF Sorted
<1>11. SortedTree(r, D, {x}, sub2, pos2, h2)
  BY <1>7, <1>9, <1>10 DEF SortedTree, GoodT
<1>12. Slotted(t, S, pos, x, pos2)
  BY <1>1 DEF Slotted
<1>13. S \cup {x} = {x}
  BY <1>1
<1> QED  BY <1>3, <1>11, <1>12, <1>13

\* mps_rbtree_insert makes a red-black search tree with x of one without it.
LEMMA InsertTree ==
  ASSUME NEW t, NEW D, NEW S, NEW sub, NEW pos, NEW h, SortedTree(t, D, S, sub, pos, h),
         IsFiniteSet(D), NEW x \in D, x \notin S, x # Sentinel, Compares(t, S \cup {x}),
         NEW r, r = RbInsert(t, x)
  PROVE  /\ \E sub2, pos2, h2 : /\ SortedTree(r, D, S \cup {x}, sub2, pos2, h2)
                                /\ Slotted(t, S, pos, x, pos2)
         /\ SameData(t, r)
<1>1. CASE t.root = Sentinel
  <2>1. r = Single(t, x)
    BY <1>1 DEF RbInsert, Single
  <2> QED  BY <1>1, <2>1, InsertFirst
<1>2. CASE t.root # Sentinel
  <2> DEFINE s == InsertValue(t, x)
             v == Rebalance(s, x)
             S2 == S \cup {x}
  <2>1. r = Blackened(v, v.root)
    BY <1>2 DEF RbInsert
  <2>2. s = InsertValue(t, x) /\ v = Rebalance(s, x)
    OBVIOUS
  <2> HIDE DEF s, v
  <2>3. GoodT(t, D, S, sub, pos, h) /\ Sorted(t, S, pos)
    BY DEF SortedTree
  <2>4. PICK sub2, pos2, h2 : HotT(s, D, S2, sub2, pos2, h2, x) /\ Slotted(t, S, pos, x, pos2)
    BY <1>2, <2>2, <2>3, InsertValueHot
  <2>5. SameData(t, s)
    BY <1>2, <2>2, <2>3, InsertValueHot
  <2> HIDE DEF S2
  <2>6. PICK sub3, h3, y : /\ HotT(v, D, S2, sub3, pos2, h3, y)
                           /\ SameData(s, v) /\ Settled(Reached(v, y))
    BY <2>2, <2>4, HotLoop
  <2>7. (\E h4 : GoodT(r, D, S2, sub3, pos2, h4)) /\ SameData(v, r)
    BY <2>1, <2>6, HotEnd
  <2>8. SameData(t, r)
    BY <2>5, <2>6, <2>7 DEF SameData
  <2>9. pos2[x] \in Int
    BY <2>4 DEF HotT, Base, Ord, S2
  <2>10. Sorted(t, S2, pos2)
    BY <2>3, <2>4, <2>9, SlottedSorted DEF S2
  <2>11. Sorted(r, S2, pos2)
    BY <2>8, <2>10, SameBefore DEF Sorted
  <2> QED  BY <2>4, <2>7, <2>8, <2>11 DEF SortedTree, S2
<1> QED  BY <1>1, <1>2

-----------------------------------------------------------------------------
(* The loop of mps_rbtree_delete *)

\* The colours of r.
Colours(S, r, red) == \A n \in S \cup {Sentinel} : WT(r)[n] = IF red[n] THEN 0 ELSE 1

TurnedT(t, r, D, S, sub, pos, side, x) ==
    /\ Base(r, D, S, TurnedSub(t[side], t[Other(side)], sub, x), pos) /\ SameData(t, r)
    /\ Turned(S, t[side], t[Other(side)], t.parent, t.root,
              r[side], r[Other(side)], r.parent, r.root, x)

\* A rotation after a change of colours.
LEMMA PaintRotate ==
  ASSUME NEW t, NEW D, NEW S, NEW sub, NEW pos, Base(t, D, S, sub, pos),
         NEW side \in Sides, NEW x \in S, t[Other(side)][x] # Sentinel,
         NEW red \in [D -> BOOLEAN], NEW r, r = Rotate(Painted(t, red), side, x)
  PROVE  /\ TurnedT(t, r, D, S, sub, pos, side, x)
         /\ r.red = red /\ Colours(S, r, red)
<1> DEFINE s == Painted(t, red)
<1>1. s = Painted(t, red) /\ r = Rotate(s, side, x)
  OBVIOUS
<1> HIDE DEF s
<1>2. /\ Base(s, D, S, sub, pos) /\ SameData(t, s) /\ s.red = red
      /\ s.parent = t.parent /\ s.root = t.root
      /\ \A d \in Sides : s[d] = t[d]
      /\ \A n \in D : WT(s)[n] = IF red[n] THEN 0 ELSE 1
  BY <1>1, PaintedBase
<1>3. s[side] = t[side] /\ s[Other(side)] = t[Other(side)]
  BY <1>2, SideFacts
<1>4. /\ Base(r, D, S, TurnedSub(s[side], s[Other(side)], sub, x), pos)
      /\ r.red = s.red /\ WT(r) = WT(s) /\ SameData(s, r)
      /\ Turned(S, s[side], s[Other(side)], s.parent, s.root,
                r[side], r[Other(side)], r.parent, r.root, x)
  <2>1. s[Other(side)][x] # Sentinel
    BY <1>3
  <2> QED  BY <1>1, <1>2, <2>1, RotateBase
<1>5. SameData(t, r)
  BY <1>2, <1>4 DEF SameData
<1>6. TurnedT(t, r, D, S, sub, pos, side, x)
  BY <1>2, <1>3, <1>4, <1>5 DEF TurnedT
<1>7. S \cup {Sentinel} \subseteq D
  BY DEF Base
<1>8. Colours(S, r, red)
  BY <1>2, <1>4, <1>7 DEF Colours
<1> QED  BY <1>2, <1>4, <1>6, <1>8

SlackT(t, D, S, sub, pos, h, side, p, c) ==
    /\ Base(t, D, S, sub, pos)
    /\ Slack(S, t[side], t[Other(side)], t.parent, t.root, WT(t), h, p, c)

\* The sibling of c.
LEMMA SlackSibling ==
  ASSUME NEW t, NEW D, NEW S, NEW sub, NEW pos, NEW h, NEW side \in Sides, NEW p, NEW c,
         SlackT(t, D, S, sub, pos, h, side, p, c),
         NEW v, v = t[Other(side)][p]
  PROVE  /\ Base(t, D, S, sub, pos)
         /\ Rooted(S, t[side], t[Other(side)], t.parent, t.root, sub)
         /\ Slack(S, t[side], t[Other(side)], t.parent, t.root, WT(t), h, p, c)
         /\ p \in S /\ v \in S /\ v # p /\ v # c /\ c # p /\ t.parent[c] = p /\ Sentinel \notin S
         /\ t[side][v] \in S \cup {Sentinel} /\ t[Other(side)][v] \in S \cup {Sentinel}
         /\ t.red \in [D -> BOOLEAN] /\ S \cup {Sentinel} \subseteq D
         /\ \A n \in S \cup {Sentinel} : WT(t)[n] = IF t.red[n] THEN 0 ELSE 1
         /\ WT(t)[Sentinel] = 1
<1> DEFINE A == t[side]
           B == t[Other(side)]
           w == WT(t)
<1>1. /\ Base(t, D, S, sub, pos) /\ S \cup {Sentinel} \subseteq D
      /\ Slack(S, A, B, t.parent, t.root, w, h, p, c) /\ t.red \in [D -> BOOLEAN]
  BY DEF SlackT, Base, IsRb
<1>2. Rooted(S, A, B, t.parent, t.root, sub)
  BY <1>1, BaseSides
<1>3. \A n \in S \cup {Sentinel} : w[n] = IF t.red[n] THEN 0 ELSE 1
  BY <1>1, WTValue
<1>4. B[p] = v /\ p \in S /\ t.parent[c] = p /\ w[Sentinel] = 1
  BY <1>1 DEF Slack, Leveled, Weights
<1>5. SiblingFacts(S, A, B, t.root, w, h, p, c)
  <2> HIDE DEF A, B, w
  <2> QED  BY <1>1, <1>2, Sibling
<1>6. /\ Sentinel \notin S /\ v \in S /\ v # p /\ v # c /\ c # p
      /\ \A n \in S : A[n] \in S \cup {Sentinel} /\ B[n] \in S \cup {Sentinel}
  <2> HIDE DEF A, B, w
  <2> QED  BY <1>4, <1>5 DEF SiblingFacts
<1> QED  BY <1>1, <1>2, <1>3, <1>4, <1>6

\* A rotation that gives p the colour black and g red, as the code writes it.
LEMMA RecolouredTurn ==
  ASSUME NEW t, NEW D, NEW S, NEW sub, NEW pos, Base(t, D, S, sub, pos),
         NEW side \in Sides, NEW x \in S, t[Other(side)][x] # Sentinel,
         NEW p \in S, NEW g \in S, p # g,
         NEW r, r = Rotate(Recoloured(t, p, g), side, x)
  PROVE  /\ TurnedT(t, r, D, S, sub, pos, side, x)
         /\ WT(r)[p] = 1 /\ WT(r)[g] = 0
         /\ \A n \in S \cup {Sentinel} : n \notin {p, g} => WT(r)[n] = WT(t)[n]
<1> DEFINE red == [t.red EXCEPT ![p] = FALSE, ![g] = TRUE]
<1>1. /\ t.red \in [D -> BOOLEAN] /\ S \cup {Sentinel} \subseteq D
  BY DEF Base, IsRb
<1>2. red \in [D -> BOOLEAN]
  BY <1>1
<1>3. Recoloured(t, p, g) = Painted(t, red)
  BY DEF Base, IsRb, FunctionOn, Fields, Painted, Recoloured
<1>4. ~red[p] /\ red[g] /\ \A n \in D : n \notin {p, g} => red[n] = t.red[n]
  BY <1>1
<1> HIDE DEF red
<1>5. TurnedT(t, r, D, S, sub, pos, side, x) /\ Colours(S, r, red)
  BY <1>2, <1>3, PaintRotate
<1>6. \A n \in S \cup {Sentinel} : WT(t)[n] = IF t.red[n] THEN 0 ELSE 1
  BY <1>1, WTValue
<1>7. \A n \in S \cup {Sentinel} : WT(r)[n] = IF red[n] THEN 0 ELSE 1
  BY <1>5 DEF Colours
<1>8. WT(r)[p] = 1 /\ WT(r)[g] = 0
  BY <1>1, <1>4, <1>7
<1>9. ASSUME NEW n \in S \cup {Sentinel}, n \notin {p, g}
      PROVE  WT(r)[n] = WT(t)[n]
  <2>1. red[n] = t.red[n]
    BY <1>1, <1>4, <1>9
  <2> QED  BY <1>6, <1>7, <2>1
<1> QED  BY <1>5, <1>8, <1>9

LEMMA SiblingRedT ==
  ASSUME NEW t, NEW D, NEW S, NEW sub, NEW pos, NEW h, NEW side \in Sides, NEW p, NEW c,
         SlackT(t, D, S, sub, pos, h, side, p, c),
         NEW v, v = t[Other(side)][p], t.red[v],
         NEW r, r = Rotate(Recoloured(t, v, p), side, p)
  PROVE  /\ \E sub2, h2 : /\ SlackT(r, D, S, sub2, pos, h2, side, p, c)
                          /\ c \in S \cup {Sentinel} => sub2[c] = sub[c]
         /\ SameData(t, r) /\ WT(r)[r[Other(side)][p]] = 1
<1> DEFINE A == t[side]
           B == t[Other(side)]
           w == WT(t)
           w2 == WT(r)
           A2 == r[side]
           B2 == r[Other(side)]
           h2 == TurnedHeights(A, B, h, Hole(S, p), p)
           sub2 == TurnedSub(A, B, sub, p)
<1>1. /\ Base(t, D, S, sub, pos)
      /\ Rooted(S, A, B, t.parent, t.root, sub)
      /\ Slack(S, A, B, t.parent, t.root, w, h, p, c)
      /\ p \in S /\ v \in S /\ v # p /\ v # c /\ c # p /\ Sentinel \notin S
      /\ \A n \in S \cup {Sentinel} : w[n] = IF t.red[n] THEN 0 ELSE 1
  BY SlackSibling
<1>2. v # Sentinel /\ B[p] = v /\ w[v] = 0
  BY <1>1
<1>3. /\ TurnedT(t, r, D, S, sub, pos, side, p)
      /\ w2[v] = 1 /\ w2[p] = 0
      /\ \A n \in S \cup {Sentinel} : n \notin {v, p} => w2[n] = w[n]
  <2>1. t[Other(side)][p] # Sentinel
    BY <1>2
  <2> HIDE DEF A, B, A2, B2, h2, sub2
  <2> QED  BY <1>1, <2>1, RecolouredTurn
<1>4. /\ Base(r, D, S, sub2, pos) /\ SameData(t, r)
      /\ Turned(S, A, B, t.parent, t.root, A2, B2, r.parent, r.root, p)
  BY <1>3 DEF TurnedT
<1>5. Slack(S, A2, B2, r.parent, r.root, w2, h2, p, c) /\ w2[B2[p]] = 1
  <2> HIDE DEF A, B, A2, B2, w, w2
  <2>1. w[B[p]] = 0 /\ w2[B[p]] = 1 /\ w2[p] = 0
        /\ \A n \in S \cup {Sentinel} : n \notin {p, B[p]} => w2[n] = w[n]
    BY <1>2, <1>3
  <2> QED  BY <1>1, <1>4, <2>1, SiblingRed
<1>6. c \in S \cup {Sentinel} => sub2[c] = sub[c]
  BY <1>1, <1>2 DEF TurnedSub, Rooted
<1>7. SlackT(r, D, S, sub2, pos, h2, side, p, c)
  BY <1>4, <1>5, Zenon DEF SlackT
<1> QED  BY <1>4, <1>5, <1>6, <1>7

LEMMA NearRedT ==
  ASSUME NEW t, NEW D, NEW S, NEW sub, NEW pos, NEW h, NEW side \in Sides, NEW p, NEW c,
         SlackT(t, D, S, sub, pos, h, side, p, c),
         NEW v, v = t[Other(side)][p], ~t.red[v],
         NEW near, near = t[side][v], t.red[near], ~t.red[t[Other(side)][v]],
         NEW r, r = Rotate(Recoloured(t, near, v), Other(side), v)
  PROVE  /\ \E sub2, h2 : SlackT(r, D, S, sub2, pos, h2, side, p, c)
         /\ SameData(t, r)
         /\ WT(r)[r[Other(side)][p]] = 1
         /\ WT(r)[r[Other(side)][r[Other(side)][p]]] = 0
<1> DEFINE A == t[side]
           B == t[Other(side)]
           w == WT(t)
           w2 == WT(r)
           A2 == r[side]
           B2 == r[Other(side)]
           h2 == TurnedHeights(B, A, h, Flat(S), v)
           sub2 == TurnedSub(B, A, sub, v)
<1>1. /\ Base(t, D, S, sub, pos)
      /\ Rooted(S, A, B, t.parent, t.root, sub)
      /\ Slack(S, A, B, t.parent, t.root, w, h, p, c)
      /\ p \in S /\ v \in S /\ v # p /\ Sentinel \notin S
      /\ A[v] \in S \cup {Sentinel} /\ B[v] \in S \cup {Sentinel}
      /\ \A n \in S \cup {Sentinel} : w[n] = IF t.red[n] THEN 0 ELSE 1
      /\ w[Sentinel] = 1
  BY SlackSibling
<1>2. B[p] = v /\ w[v] = 1 /\ w[near] = 0 /\ w[B[v]] = 1 /\ near \in S /\ near # Sentinel
  BY <1>1
<1>3. near # v
  BY <1>2
<1>4. Other(side) \in Sides /\ Other(Other(side)) = side
  BY SideFacts
<1>5. /\ TurnedT(t, r, D, S, sub, pos, Other(side), v)
      /\ w2[near] = 1 /\ w2[v] = 0
      /\ \A n \in S \cup {Sentinel} : n \notin {near, v} => w2[n] = w[n]
  <2>1. t[Other(Other(side))][v] # Sentinel
    BY <1>2, <1>4, SMTT(30)
  <2> HIDE DEF A, B, A2, B2, h2, sub2
  <2> QED  BY <1>1, <1>2, <1>3, <1>4, <2>1, RecolouredTurn
<1>6. /\ Base(r, D, S, sub2, pos) /\ SameData(t, r)
      /\ Turned(S, B, A, t.parent, t.root, B2, A2, r.parent, r.root, v)
  BY <1>4, <1>5 DEF TurnedT
<1>7. Slack(S, A2, B2, r.parent, r.root, w2, h2, p, c) /\ w2[B2[p]] = 1 /\ w2[B2[B2[p]]] = 0
  <2>1. near = A[v]
    OBVIOUS
  <2> DEFINE P == t.parent
             P2 == r.parent
             root == t.root
             root2 == r.root
  <2> HIDE DEF A, B, A2, B2, w, w2, h2, P, P2, root, root2
  <2>2. /\ Rooted(S, A, B, P, root, sub) /\ Slack(S, A, B, P, root, w, h, p, c)
        /\ Turned(S, B, A, P, root, B2, A2, P2, root2, B[p])
    BY <1>1, <1>2, <1>6 DEF P, root, P2, root2
  <2>3. /\ w[B[p]] = 1 /\ w[A[B[p]]] = 0 /\ w[B[B[p]]] = 1
        /\ w2[B[p]] = 0 /\ w2[A[B[p]]] = 1
        /\ \A n \in S \cup {Sentinel} : n \notin {B[p], A[B[p]]} => w2[n] = w[n]
    BY <1>2, <1>5, <2>1
  <2>4. /\ Slack(S, A2, B2, P2, root2, w2, TurnedHeights(B, A, h, Flat(S), B[p]), p, c)
        /\ w2[B2[p]] = 1 /\ w2[B2[B2[p]]] = 0
    BY <2>2, <2>3, NearRed, SMTT(90)
  <2> QED  BY <1>2, <2>4 DEF P2, root2, h2
<1>8. SlackT(r, D, S, sub2, pos, h2, side, p, c)
  BY <1>6, <1>7, Zenon DEF SlackT
<1> QED  BY <1>6, <1>7, <1>8, Zenon

LowT(t, D, S, sub, pos, h, c) ==
    /\ Base(t, D, S, sub, pos)
    /\ Low(S, t.left, t.right, t.parent, t.root, WT(t), h, c)

LEMMA LowSwap ==
  ASSUME NEW S, NEW A, NEW B, NEW P, NEW root, NEW w, NEW h, NEW c,
         Low(S, A, B, P, root, w, h, c),
         \A n \in S : A[n] \in S \cup {Sentinel} /\ B[n] \in S \cup {Sentinel}
  PROVE  Low(S, B, A, P, root, w, h, c)
<1>1. c \in S \cup {Sentinel} /\ Calm(S, B, A, w, {c}, {c})
  BY DEF Low, Calm
<1>2. CASE c = root /\ Leveled(S, A, B, w, h, Flat(S), Flat(S))
  <2>1. Leveled(S, B, A, w, h, Flat(S), Flat(S))
    BY <1>2, LeveledSwap
  <2> QED  BY <1>1, <1>2, <2>1 DEF Low
<1> QED  BY <1>1, <1>2 DEF Low

LEMMA LowBack ==
  ASSUME NEW t, NEW D, NEW S, NEW sub, NEW pos, NEW h, NEW c, Base(t, D, S, sub, pos),
         NEW side \in Sides,
         Low(S, t[side], t[Other(side)], t.parent, t.root, WT(t), h, c)
  PROVE  LowT(t, D, S, sub, pos, h, c)
<1>1. CASE side = "left"
  BY <1>1 DEF LowT, Other
<1>2. CASE side = "right"
  <2>1. t[side] = t.right /\ t[Other(side)] = t.left
    BY <1>2 DEF Other
  <2>2. \A n \in S : t.right[n] \in S \cup {Sentinel} /\ t.left[n] \in S \cup {Sentinel}
    BY DEF Base, Rooted, Fork
  <2>3. Low(S, t.left, t.right, t.parent, t.root, WT(t), h, c)
    BY <2>1, <2>2, LowSwap
  <2> QED  BY <2>3 DEF LowT
<1> QED  BY <1>1, <1>2 DEF Sides

\* The last colours of FixupEnd.
FarPaint(t, v, p, f) == [t EXCEPT !.red[v] = t.red[p], !.red[p] = FALSE, !.red[f] = FALSE]

LEMMA FarRedT ==
  ASSUME NEW t, NEW D, NEW S, NEW sub, NEW pos, NEW h, NEW side \in Sides, NEW p, NEW c,
         SlackT(t, D, S, sub, pos, h, side, p, c),
         NEW v, v = t[Other(side)][p], WT(t)[v] = 1,
         NEW f, f = t[Other(side)][v], WT(t)[f] = 0,
         NEW r, r = Rotate(FarPaint(t, v, p, f), side, p)
  PROVE  /\ \E sub2, h2 : LowT(r, D, S, sub2, pos, h2, r.root)
         /\ SameData(t, r)
<1> DEFINE A == t[side]
           B == t[Other(side)]
           w == WT(t)
           w2 == WT(r)
           A2 == r[side]
           B2 == r[Other(side)]
           sub2 == TurnedSub(A, B, sub, p)
           red == [t.red EXCEPT ![v] = t.red[p], ![p] = FALSE, ![f] = FALSE]
<1>1. /\ Base(t, D, S, sub, pos)
      /\ Rooted(S, A, B, t.parent, t.root, sub)
      /\ Slack(S, A, B, t.parent, t.root, w, h, p, c)
      /\ p \in S /\ v \in S /\ v # p /\ Sentinel \notin S
      /\ B[v] \in S \cup {Sentinel}
      /\ t.red \in [D -> BOOLEAN] /\ S \cup {Sentinel} \subseteq D
      /\ \A n \in S \cup {Sentinel} : w[n] = IF t.red[n] THEN 0 ELSE 1
      /\ w[Sentinel] = 1
  BY SlackSibling
<1>2. B[p] = v /\ f = B[v] /\ f \in S /\ f # v
  <2>1. f # Sentinel
    BY <1>1
  <2> QED  BY <1>1, <2>1
<1>3. f # p
  <2>1. Rooted(S, B, A, t.parent, t.root, sub)
    BY <1>1, RootedSwap
  <2>2. B[p] = v
    BY <1>2
  <2>3. t.parent[v] = p /\ v # p
    <3> HIDE DEF A, B
    <3> QED  BY <1>1, <2>2, ChildOf
  <2>4. Fork(S, A, B, t.parent, sub, p) /\ Fork(S, A, B, t.parent, sub, v)
    BY <1>1 DEF Rooted
  <2> HIDE DEF A, B
  <2>5. p \notin sub[v] /\ f \in sub[f]
    BY <1>1, <1>2, <2>4, SubSelf DEF Fork
  <2> QED  BY <1>2, <2>4, <2>5 DEF Fork
<1>4. FarPaint(t, v, p, f) = Painted(t, red)
  BY <1>1 DEF Base, IsRb, FunctionOn, Fields, Painted, FarPaint
<1>5. /\ red \in [D -> BOOLEAN] /\ red[v] = t.red[p] /\ ~red[p] /\ ~red[f]
      /\ \A n \in D : n \notin {p, v, f} => red[n] = t.red[n]
  BY <1>1, <1>2, <1>3
<1> HIDE DEF red
<1>6. TurnedT(t, r, D, S, sub, pos, side, p) /\ Colours(S, r, red)
  <2>1. t[Other(side)][p] # Sentinel
    BY <1>1, <1>2
  <2> HIDE DEF A, B, A2, B2, sub2
  <2> QED  BY <1>1, <1>4, <1>5, <2>1, PaintRotate
<1>7. /\ Base(r, D, S, sub2, pos) /\ SameData(t, r)
      /\ Turned(S, A, B, t.parent, t.root, A2, B2, r.parent, r.root, p)
  BY <1>6 DEF TurnedT
<1>8. \A n \in S \cup {Sentinel} : w2[n] = IF red[n] THEN 0 ELSE 1
  BY <1>6 DEF Colours
<1>9. w2[v] = w[p] /\ w2[p] = 1 /\ w2[f] = 1
  BY <1>1, <1>2, <1>5, <1>8
<1>10. ASSUME NEW n \in S \cup {Sentinel}, n \notin {p, v, f}
       PROVE  w2[n] = w[n]
  <2>1. red[n] = t.red[n]
    BY <1>1, <1>5, <1>10
  <2> QED  BY <1>1, <1>8, <2>1
<1>11. \E h2 : Low(S, A2, B2, r.parent, r.root, w2, h2, r.root)
  <2> DEFINE P == t.parent
             P2 == r.parent
             root == t.root
             root2 == r.root
  <2>1. w[v] = 1 /\ w[f] = 0
    OBVIOUS
  <2> HIDE DEF A, B, A2, B2, w, w2, P, P2, root, root2
  <2>2. /\ Rooted(S, A, B, P, root, sub) /\ Slack(S, A, B, P, root, w, h, p, c)
        /\ Turned(S, A, B, P, root, A2, B2, P2, root2, p)
    BY <1>1, <1>7 DEF P, root, P2, root2
  <2>3. /\ w[B[p]] = 1 /\ w[B[B[p]]] = 0
        /\ w2[B[p]] = w[p] /\ w2[p] = 1 /\ w2[B[B[p]]] = 1
        /\ \A n \in S \cup {Sentinel} : n \notin {p, B[p], B[B[p]]} => w2[n] = w[n]
    BY <1>2, <1>9, <1>10, <2>1
  <2>4. \E h2 : Low(S, A2, B2, P2, root2, w2, h2, root2)
    BY <2>2, <2>3, FarRed, SMTT(90)
  <2> QED  BY <2>4 DEF P2, root2
<1>12. PICK h2 : Low(S, A2, B2, r.parent, r.root, w2, h2, r.root)
  BY <1>11
<1>13. LowT(r, D, S, sub2, pos, h2, r.root)
  BY <1>7, <1>12, LowBack
<1> QED  BY <1>7, <1>13

Reddened(t, v) == [t EXCEPT !.red[v] = TRUE]

\* A black sibling with black children becomes red, and p is too low.
LEMMA SiblingRecolouredT ==
  ASSUME NEW t, NEW D, NEW S, NEW sub, NEW pos, NEW h, NEW side \in Sides, NEW p, NEW c,
         SlackT(t, D, S, sub, pos, h, side, p, c),
         NEW v, v = t[Other(side)][p], WT(t)[v] = 1,
         ~t.red[t[side][v]], ~t.red[t[Other(side)][v]],
         NEW r, r = Reddened(t, v)
  PROVE  (\E h2 : LowT(r, D, S, sub, pos, h2, p)) /\ SameData(t, r)
<1> DEFINE A == t[side]
           B == t[Other(side)]
           w == WT(t)
           w2 == WT(r)
           red == [t.red EXCEPT ![v] = TRUE]
<1>1. /\ Base(t, D, S, sub, pos)
      /\ Rooted(S, A, B, t.parent, t.root, sub)
      /\ Slack(S, A, B, t.parent, t.root, w, h, p, c)
      /\ p \in S /\ v \in S
      /\ A[v] \in S \cup {Sentinel} /\ B[v] \in S \cup {Sentinel}
      /\ t.red \in [D -> BOOLEAN] /\ S \cup {Sentinel} \subseteq D
      /\ \A n \in S \cup {Sentinel} : w[n] = IF t.red[n] THEN 0 ELSE 1
  BY SlackSibling
<1>2. B[p] = v /\ w[A[v]] = 1 /\ w[B[v]] = 1
  BY <1>1
<1>3. r = Painted(t, red)
  BY <1>1 DEF Base, IsRb, FunctionOn, Fields, Painted, Reddened
<1>4. red \in [D -> BOOLEAN] /\ red[v] /\ \A n \in D : n # v => red[n] = t.red[n]
  BY <1>1
<1> HIDE DEF red
<1>5. /\ Base(r, D, S, sub, pos) /\ SameData(t, r)
      /\ r.parent = t.parent /\ r.root = t.root
      /\ \A d \in Sides : r[d] = t[d]
      /\ \A n \in D : WT(r)[n] = IF red[n] THEN 0 ELSE 1
  <2> HIDE DEF A, B, w, w2
  <2> QED  BY <1>1, <1>3, <1>4, PaintedBase
<1>6. r[side] = A /\ r[Other(side)] = B
  BY <1>5, SideFacts
<1>7. w2[v] = 0
  BY <1>1, <1>4, <1>5
<1>8. ASSUME NEW n \in S \cup {Sentinel}, n # v
      PROVE  w2[n] = w[n]
  <2>1. red[n] = t.red[n] /\ n \in D
    BY <1>1, <1>4, <1>8
  <2> QED  BY <1>1, <1>5, <2>1
<1>9. \E h2 : Low(S, A, B, t.parent, t.root, w2, h2, p)
  <2> DEFINE P == t.parent
             root == t.root
  <2>1. w[v] = 1
    OBVIOUS
  <2> HIDE DEF A, B, w, w2, P, root
  <2>2. Rooted(S, A, B, P, root, sub) /\ Slack(S, A, B, P, root, w, h, p, c)
    BY <1>1 DEF P, root
  <2>3. /\ w[B[p]] = 1 /\ w[A[B[p]]] = 1 /\ w[B[B[p]]] = 1 /\ w2[B[p]] = 0
        /\ \A n \in S \cup {Sentinel} : n # B[p] => w2[n] = w[n]
    BY <1>2, <1>7, <1>8, <2>1
  <2>4. \E h2 : Low(S, A, B, P, root, w2, h2, p)
    BY <2>2, <2>3, SiblingRecoloured
  <2> QED  BY <2>4 DEF P, root
<1>10. PICK h2 : Low(S, r[side], r[Other(side)], r.parent, r.root, WT(r), h2, p)
  BY <1>5, <1>6, <1>9
<1>11. LowT(r, D, S, sub, pos, h2, p)
  BY <1>5, <1>10, LowBack
<1> QED  BY <1>5, <1>11

LEMMA FixupEndT ==
  ASSUME NEW t, NEW D, NEW S, NEW sub, NEW pos, NEW h, NEW side \in Sides, NEW p, NEW c,
         SlackT(t, D, S, sub, pos, h, side, p, c),
         NEW v, v = t[Other(side)][p], WT(t)[v] = 1,
         t.red[t[side][v]] \/ t.red[t[Other(side)][v]],
         NEW r, r = FixupEnd(t, side, c, v)
  PROVE  (\E sub2, h2 : LowT(r, D, S, sub2, pos, h2, r.root)) /\ SameData(t, r)
<1> DEFINE far == Other(side)
           near == t[side][v]
           s == IF t.red[t[far][v]] THEN t ELSE Rotate(Recoloured(t, near, v), far, v)
           q == s.parent[c]
           y == s[far][q]
<1>1. r = Rotate(FarPaint(s, y, q, s[far][y]), side, q)
  BY Zenon DEF FixupEnd, FarPaint, Recoloured
<1>2. /\ v \in S /\ S \cup {Sentinel} \subseteq D /\ t[side][v] \in S \cup {Sentinel}
      /\ t[Other(side)][v] \in S \cup {Sentinel}
      /\ \A n \in S \cup {Sentinel} : WT(t)[n] = IF t.red[n] THEN 0 ELSE 1
      /\ t.red \in [D -> BOOLEAN]
  BY SlackSibling
<1>3. ~t.red[v]
  BY <1>2
<1>4. /\ \E sub2, h2 : SlackT(s, D, S, sub2, pos, h2, side, p, c)
      /\ SameData(t, s)
      /\ WT(s)[s[far][p]] = 1 /\ WT(s)[s[far][s[far][p]]] = 0
  <2>1. CASE t.red[t[far][v]]
    BY <1>2, <2>1, SMTT(30) DEF SameData
  <2>2. CASE ~t.red[t[far][v]]
    <3>1. s = Rotate(Recoloured(t, near, v), Other(side), v) /\ near = t[side][v] /\ t.red[near]
          /\ ~t.red[t[Other(side)][v]] /\ far = Other(side)
      BY <2>2
    <3> HIDE DEF s, near, far
    <3> QED  BY <1>3, <3>1, NearRedT
  <2> QED  BY <2>1, <2>2, Zenon
<1>5. far = Other(side)
  OBVIOUS
<1> HIDE DEF s, far
<1>6. PICK sub2, h2 : SlackT(s, D, S, sub2, pos, h2, side, p, c)
  BY <1>4
<1>7. q = p
  BY <1>6 DEF SlackT, Slack
<1>8. y = s[Other(side)][p] /\ WT(s)[y] = 1 /\ WT(s)[s[Other(side)][y]] = 0
  BY <1>4, <1>5, <1>7
<1>9. r = Rotate(FarPaint(s, y, p, s[Other(side)][y]), side, p)
  BY <1>1, <1>5, <1>7
<1> HIDE DEF y, q
<1>10. (\E sub3, h3 : LowT(r, D, S, sub3, pos, h3, r.root)) /\ SameData(s, r)
  BY <1>6, <1>8, <1>9, FarRedT
<1> QED  BY <1>4, <1>10, Zenon DEF SameData

FixDone(u) == u.node = u.tree.root \/ u.tree.red[u.node]

\* Where a round of the delete loop leaves the tree: done or higher up.
Lowered(t, D, S, sub, pos, c, r) ==
    \E sub2, h2 :
        /\ LowT(r.tree, D, S, sub2, pos, h2, r.node) /\ SameData(t, r.tree)
        /\ FixDone(r) \/ Cardinality(sub[c]) < Cardinality(sub2[r.node])
        /\ r = Reached(r.tree, r.node)

\* The side on which c is too low is the one that the code finds.
LEMMA LowSide ==
  ASSUME NEW t, NEW D, NEW S, NEW sub, NEW pos, NEW h, NEW c, LowT(t, D, S, sub, pos, h, c),
         ~FixDone(Reached(t, c)),
         NEW p, p = t.parent[c], NEW side, side = SideOf(t, p, c)
  PROVE  side \in Sides /\ SlackT(t, D, S, sub, pos, h, side, p, c)
<1> DEFINE A == t.left
           B == t.right
           w == WT(t)
<1>1. /\ Base(t, D, S, sub, pos) /\ Rooted(S, A, B, t.parent, t.root, sub)
      /\ S \cup {Sentinel} \subseteq D
      /\ Low(S, A, B, t.parent, t.root, w, h, c)
  BY DEF LowT, Base
<1>2. /\ c # t.root /\ ~t.red[c] /\ c \in S \cup {Sentinel}
      /\ w[t.root] = 1 /\ Calm(S, A, B, w, {c}, {c})
      /\ \E q : LowAt(S, A, B, t.parent, w, h, q, c) \/ LowAt(S, B, A, t.parent, w, h, q, c)
  BY <1>1 DEF FixDone, Reached, Low
<1>3. w[c] = 1
  BY <1>1, <1>2, WTValue
<1>4. Calm(S, A, B, w, {}, {}) /\ Calm(S, B, A, w, {}, {})
  BY <1>2, <1>3 DEF Calm
<1>5. p \in S /\ (LowAt(S, A, B, t.parent, w, h, p, c) \/ LowAt(S, B, A, t.parent, w, h, p, c))
  BY <1>2 DEF LowAt
<1> HIDE DEF A, B, w
<1>6. CASE LowAt(S, A, B, t.parent, w, h, p, c)
  <2>1. A[p] = c
    BY <1>6 DEF LowAt
  <2>2. side = "left"
    BY <2>1 DEF SideOf, A
  <2>3. Slack(S, A, B, t.parent, t.root, w, h, p, c)
    BY <1>2, <1>3, <1>4, <1>6 DEF Slack, LowAt
  <2> QED  BY <1>1, <2>2, <2>3 DEF SlackT, Sides, Other, A, B, w
<1>7. CASE LowAt(S, B, A, t.parent, w, h, p, c)
  <2>1. B[p] = c
    BY <1>7 DEF LowAt
  <2>2. A[p] # c
    <3>1. SUFFICES ASSUME A[p] = c PROVE FALSE
      OBVIOUS
    <3>2. LevelAt(B, A, w, h, Hole(S, p), Flat(S), p) /\ Weights(S, w, h)
      BY <1>5, <1>7 DEF LowAt, Leveled
    <3>3. h[c] \in Nat
      BY <1>2, <3>2 DEF Weights
    <3>4. h[c] + 1 = h[c] + 0
      BY <1>5, <2>1, <3>1, <3>2 DEF LevelAt, Hole, Flat
    <3> QED  BY <3>3, <3>4
  <2>3. side = "right"
    BY <2>2 DEF SideOf, A
  <2>4. Slack(S, B, A, t.parent, t.root, w, h, p, c)
    BY <1>2, <1>3, <1>4, <1>7 DEF Slack, LowAt
  <2> QED  BY <1>1, <2>3, <2>4 DEF SlackT, Sides, Other, A, B, w
<1> QED  BY <1>5, <1>6, <1>7

\* After SiblingBlack the sibling of c is black.
LEMMA SiblingBlackT ==
  ASSUME NEW t, NEW D, NEW S, NEW sub, NEW pos, NEW h, NEW side \in Sides, NEW p, NEW c,
         SlackT(t, D, S, sub, pos, h, side, p, c), c \in S \cup {Sentinel},
         NEW s, s = SiblingBlack(t, side, p)
  PROVE  /\ \E sub2, h2 : SlackT(s, D, S, sub2, pos, h2, side, p, c) /\ sub2[c] = sub[c]
         /\ SameData(t, s) /\ WT(s)[s[Other(side)][p]] = 1
<1> DEFINE v == t[Other(side)][p]
<1>1. v \in S /\ \A n \in S \cup {Sentinel} : WT(t)[n] = IF t.red[n] THEN 0 ELSE 1
  BY SlackSibling
<1>2. CASE t.red[v]
  <2>1. s = Rotate(Recoloured(t, v, p), side, p)
    BY <1>2 DEF SiblingBlack, Recoloured
  <2>2. v = t[Other(side)][p]
    OBVIOUS
  <2> HIDE DEF v
  <2> QED  BY <1>2, <2>1, <2>2, SiblingRedT
<1>3. CASE ~t.red[v]
  <2>1. s = t
    BY <1>3 DEF SiblingBlack
  <2> QED  BY <1>1, <1>3, <2>1 DEF SameData
<1> QED  BY <1>2, <1>3

LEMMA RoundLow ==
  ASSUME NEW t, NEW D, NEW S, NEW sub, NEW pos, NEW h, NEW c, LowT(t, D, S, sub, pos, h, c),
         ~FixDone(Reached(t, c))
  PROVE  Lowered(t, D, S, sub, pos, c, FixupRound(Reached(t, c)))
<1> DEFINE side == SideOf(t, t.parent[c], c)
           s == SiblingBlack(t, side, t.parent[c])
           p == t.parent[c]
           v == s[Other(side)][p]
           r == FixupRound(Reached(t, c))
           end == FixupEnd(s, side, c, v)
<1>1. side \in Sides /\ SlackT(t, D, S, sub, pos, h, side, p, c)
  BY LowSide
<1>2. c \in S \cup {Sentinel}
  BY DEF LowT, Low
<1>3. s = SiblingBlack(t, side, p)
  OBVIOUS
<1>4. /\ \E sub2, h2 : SlackT(s, D, S, sub2, pos, h2, side, p, c) /\ sub2[c] = sub[c]
      /\ SameData(t, s) /\ WT(s)[v] = 1
  <2> HIDE DEF s, side, p
  <2> QED  BY <1>1, <1>2, <1>3, SiblingBlackT
<1>5. PICK sub2, h2 : SlackT(s, D, S, sub2, pos, h2, side, p, c) /\ sub2[c] = sub[c]
  BY <1>4
<1>6. s.parent[c] = p /\ p \in S
  BY <1>5 DEF SlackT, Slack
<1>7. Reached(t, c).tree = t /\ Reached(t, c).node = c /\ ~(c = t.root \/ t.red[c])
  BY Zenon DEF Reached, FixDone
<1>8. r = IF ~s.red[s.left[v]] /\ ~s.red[s.right[v]]
          THEN Reached(Reddened(s, v), p) ELSE Reached(end, end.root)
  BY <1>6, <1>7, Zenon DEF FixupRound, Reddened
<1>9. v = s[Other(side)][p]
  OBVIOUS
<1>10. end = FixupEnd(s, side, c, v)
  OBVIOUS
<1> HIDE DEF side, s, p, v, r, end
<1>11. {s.left[v], s.right[v]} = {s[side][v], s[Other(side)][v]}
  BY <1>1 DEF Sides, Other
<1>12. CASE ~s.red[s.left[v]] /\ ~s.red[s.right[v]]
  <2> DEFINE q == Reddened(s, v)
  <2>1. r = Reached(q, p)
    BY <1>8, <1>12
  <2>2. ~s.red[s[side][v]] /\ ~s.red[s[Other(side)][v]] /\ q = Reddened(s, v)
    BY <1>11, <1>12
  <2> HIDE DEF q
  <2>3. (\E h3 : LowT(q, D, S, sub2, pos, h3, p)) /\ SameData(s, q)
    BY <1>1, <1>4, <1>5, <1>9, <2>2, SiblingRecolouredT
  <2>4. SameData(t, q)
    BY <1>4, <2>3 DEF SameData
  <2>5. Cardinality(sub[c]) < Cardinality(sub2[p])
    <3>1. Rooted(S, s[side], s[Other(side)], s.parent, s.root, sub2)
      BY <1>1, <1>5, BaseSides DEF SlackT
    <3>2. s[side][p] = c
      BY <1>5 DEF SlackT, Slack
    <3>3. Cardinality(sub2[s[side][p]]) < Cardinality(sub2[p])
      BY <1>6, <3>1, CardSub
    <3> QED  BY <1>5, <3>2, <3>3
  <2>6. Reached(q, p).tree = q /\ Reached(q, p).node = p
    BY DEF Reached
  <2> QED  BY <2>1, <2>3, <2>4, <2>5, <2>6 DEF Lowered, r
<1>13. CASE ~(~s.red[s.left[v]] /\ ~s.red[s.right[v]])
  <2>1. r = Reached(end, end.root)
    BY <1>8, <1>13
  <2>2. s.red[s[side][v]] \/ s.red[s[Other(side)][v]]
    BY <1>11, <1>13
  <2>3. (\E sub3, h3 : LowT(end, D, S, sub3, pos, h3, end.root)) /\ SameData(s, end)
    BY <1>1, <1>4, <1>5, <1>9, <1>10, <2>2, FixupEndT
  <2>4. SameData(t, end)
    BY <1>4, <2>3 DEF SameData
  <2>5. Reached(end, end.root).tree = end /\ Reached(end, end.root).node = end.root
    BY DEF Reached
  <2>6. FixDone(Reached(end, end.root))
    BY <2>5 DEF FixDone
  <2> QED  BY <2>1, <2>3, <2>4, <2>5, <2>6 DEF Lowered, r
<1> QED  BY <1>12, <1>13

LEMMA CardBelow ==
  ASSUME NEW t, NEW D, NEW S, NEW sub, NEW pos, Base(t, D, S, sub, pos), IsFiniteSet(D)
  PROVE  \A z \in S \cup {Sentinel} :
            Cardinality(sub[z]) \in Nat /\ Cardinality(sub[z]) < Rounds(t)
<1>1. IsRb(t, D) /\ Rooted(S, t.left, t.right, t.parent, t.root, sub) /\ Sentinel \in D
  BY DEF Base
<1>2. DOMAIN t.key = D
  BY <1>1 DEF IsRb, FunctionOn
<1>3. Rounds(t) = Cardinality(D) /\ Cardinality(D) \in Nat /\ Cardinality(D) # 0
  BY <1>1, <1>2, FS_CardinalityType, FS_EmptySet DEF Rounds
<1>4. sub[Sentinel] = {}
  BY <1>1 DEF Rooted
<1>5. Cardinality(sub[Sentinel]) = 0
  BY <1>4, FS_EmptySet
<1>6. \A z \in S : Cardinality(sub[z]) \in Nat /\ Cardinality(sub[z]) < Rounds(t)
  BY RoundsEnough
<1> QED  BY <1>3, <1>5, <1>6

LowRun(t, c, n, f) == f = [i \in 0 .. n |-> IF i = 0 THEN Reached(t, c) ELSE FixupRound(f[i - 1])]

LEMMA LowRuns ==
  ASSUME NEW t, NEW c, NEW n \in Nat, n = Rounds(t)
  PROVE  \E f : LowRun(t, c, n, f) /\ Fixup(t, c) = Blackened(f[n].tree, f[n].node)
<1> DEFINE T == {k \in 0 .. n : \E f : LowRun(t, c, k, f)}
<1>1. 0 \in T
  <2>1. LowRun(t, c, 0, [i \in 0 .. 0 |-> Reached(t, c)])
    BY DEF LowRun
  <2> QED  BY <2>1
<1>2. ASSUME NEW k \in 0 .. n - 1, k \in T
      PROVE  k + 1 \in T
  <2>1. PICK f : LowRun(t, c, k, f)
    BY <1>2
  <2> DEFINE g == [i \in 0 .. k + 1 |-> IF i = 0 THEN Reached(t, c) ELSE FixupRound(f[i - 1])]
  <2>2. \A i \in 0 .. k : g[i] = f[i]
    BY <2>1 DEF LowRun
  <2>3. /\ g = [i \in 0 .. k + 1 |-> g[i]]
        /\ \A i \in 0 .. k + 1 : g[i] = IF i = 0 THEN Reached(t, c) ELSE FixupRound(f[i - 1])
    OBVIOUS
  <2> HIDE DEF g
  <2>4. ASSUME NEW i \in 0 .. k + 1
        PROVE  g[i] = IF i = 0 THEN Reached(t, c) ELSE FixupRound(g[i - 1])
    <3>1. CASE i = 0
      BY <2>3, <3>1
    <3>2. CASE i # 0
      <4>1. i - 1 \in 0 .. k
        BY <3>2
      <4>2. g[i - 1] = f[i - 1]
        BY <2>2, <4>1
      <4> QED  BY <2>3, <3>2, <4>2
    <3> QED  BY <3>1, <3>2
  <2>5. LowRun(t, c, k + 1, g)
    BY <2>3, <2>4 DEF LowRun
  <2> QED  BY <2>5
<1>3. n \in T
  <2> HIDE DEF T
  <2> QED  BY <1>1, <1>2, ByRounds
<1> DEFINE e == CHOOSE f : f = [i \in 0 .. n |-> IF i = 0 THEN Reached(t, c) ELSE FixupRound(f[i - 1])]
<1>4. LowRun(t, c, n, e)
  BY <1>3 DEF LowRun
<1>5. Fixup(t, c) = Blackened(e[n].tree, e[n].node)
  BY Zenon DEF Fixup, Loop
<1> QED  BY <1>4, <1>5

LEMMA FixDoneRound ==
  ASSUME NEW u, FixDone(u)
  PROVE  FixupRound(u) = u
BY Zenon DEF FixupRound, FixDone

\* The loop of mps_rbtree_delete ends within its rounds.
LEMMA LowLoop ==
  ASSUME NEW t, NEW D, NEW S, NEW sub, NEW pos, NEW h, NEW c, LowT(t, D, S, sub, pos, h, c),
         IsFiniteSet(D), NEW r, r = Fixup(t, c)
  PROVE  \E v, sub2, h2, y : /\ LowT(v, D, S, sub2, pos, h2, y)
                             /\ SameData(t, v) /\ FixDone(Reached(v, y)) /\ r = Blackened(v, y)
<1> DEFINE n == Rounds(t)
<1>1. Base(t, D, S, sub, pos) /\ c \in S \cup {Sentinel}
  BY DEF LowT, Low
<1>2. /\ n \in Nat /\ Cardinality(sub[c]) \in Nat
  BY <1>1, RoundsEnough, CardBelow
<1>3. n = Rounds(t)
  OBVIOUS
<1> HIDE DEF n
<1>4. PICK f : LowRun(t, c, n, f) /\ r = Blackened(f[n].tree, f[n].node)
  BY <1>2, <1>3, LowRuns
<1> DEFINE J(u, i) == /\ u = Reached(u.tree, u.node) /\ SameData(t, u.tree)
                      /\ \E sub2, h2 : /\ LowT(u.tree, D, S, sub2, pos, h2, u.node)
                                       /\ FixDone(u) \/ i <= Cardinality(sub2[u.node])
           T == {i \in 0 .. n : J(f[i], i)}
<1>5. 0 \in T
  <2>1. f[0] = Reached(t, c)
    BY <1>2, <1>4 DEF LowRun
  <2>2. Reached(t, c).tree = t /\ Reached(t, c).node = c
    BY DEF Reached
  <2>3. SameData(t, t)
    BY DEF SameData
  <2>4. 0 <= Cardinality(sub[c])
    BY <1>2
  <2>5. J(Reached(t, c), 0)
    BY <2>2, <2>3, <2>4
  <2> QED  BY <1>2, <2>1, <2>5
<1>6. ASSUME NEW i \in 0 .. n - 1, i \in T
      PROVE  i + 1 \in T
  <2>1. f[i + 1] = FixupRound(f[i])
    BY <1>2, <1>4 DEF LowRun
  <2> DEFINE u == f[i]
             v == f[i + 1]
  <2>2. J(u, i)
    BY <1>6
  <2>3. i \in Nat /\ i + 1 \in 0 .. n
    BY <1>2
  <2> SUFFICES J(v, i + 1)
    BY <2>3
  <2>4. v = FixupRound(u)
    BY <2>1
  <2> HIDE DEF u, v
  <2>5. CASE FixDone(u)
    <3>1. v = u
      BY <2>4, <2>5, FixDoneRound
    <3> QED  BY <2>2, <2>5, <3>1
  <2>6. CASE ~FixDone(u)
    <3>1. PICK sub2, h2 : /\ LowT(u.tree, D, S, sub2, pos, h2, u.node)
                          /\ i <= Cardinality(sub2[u.node])
      BY <2>2, <2>6
    <3>2. u = Reached(u.tree, u.node) /\ ~FixDone(Reached(u.tree, u.node)) /\ SameData(t, u.tree)
      BY <2>2, <2>6
    <3>3. Lowered(u.tree, D, S, sub2, pos, u.node, FixupRound(Reached(u.tree, u.node)))
      BY <3>1, <3>2, RoundLow
    <3>4. Lowered(u.tree, D, S, sub2, pos, u.node, v)
      BY <2>4, <3>2, <3>3
    <3>5. PICK sub3, h3 :
            /\ LowT(v.tree, D, S, sub3, pos, h3, v.node) /\ SameData(u.tree, v.tree)
            /\ FixDone(v) \/ Cardinality(sub2[u.node]) < Cardinality(sub3[v.node])
            /\ v = Reached(v.tree, v.node)
      BY <3>4 DEF Lowered
    <3>6. SameData(t, v.tree)
      BY <3>2, <3>5 DEF SameData
    <3>7. Cardinality(sub2[u.node]) \in Nat /\ Cardinality(sub3[v.node]) \in Nat
      <4>1. /\ Base(u.tree, D, S, sub2, pos) /\ u.node \in S \cup {Sentinel}
            /\ Base(v.tree, D, S, sub3, pos) /\ v.node \in S \cup {Sentinel}
        BY <3>1, <3>5 DEF LowT, Low
      <4> QED  BY <4>1, CardBelow
    <3>8. FixDone(v) \/ i + 1 <= Cardinality(sub3[v.node])
      BY <2>3, <3>1, <3>5, <3>7
    <3> QED  BY <3>5, <3>6, <3>8
  <2> QED  BY <2>5, <2>6
<1>7. n \in T
  <2> HIDE DEF T
  <2> QED  BY <1>2, <1>5, <1>6, ByRounds
<1> DEFINE u == f[n]
<1>8. J(u, n) /\ r = Blackened(u.tree, u.node)
  BY <1>4, <1>7
<1> HIDE DEF u
<1>9. PICK sub2, h2 : /\ LowT(u.tree, D, S, sub2, pos, h2, u.node)
                      /\ FixDone(u) \/ n <= Cardinality(sub2[u.node])
  BY <1>8
<1>10. Base(u.tree, D, S, sub2, pos) /\ u.node \in S \cup {Sentinel}
  BY <1>9 DEF LowT, Low
<1>11. Rounds(u.tree) = n
  <2>1. u.tree.key = t.key
    BY <1>8 DEF SameData
  <2> QED  BY <1>3, <2>1 DEF Rounds
<1>12. Cardinality(sub2[u.node]) \in Nat /\ Cardinality(sub2[u.node]) < n
  BY <1>10, <1>11, CardBelow
<1>13. FixDone(u) /\ u = Reached(u.tree, u.node) /\ SameData(t, u.tree)
  BY <1>2, <1>8, <1>9, <1>12
<1> QED  BY <1>8, <1>9, <1>13

\* mps_rbtree_delete restores the rules where a black node has left.
LEMMA FixupGood ==
  ASSUME NEW t, NEW D, NEW S, NEW sub, NEW pos, NEW h, NEW c, LowT(t, D, S, sub, pos, h, c),
         IsFiniteSet(D), NEW r, r = Fixup(t, c)
  PROVE  (\E sub2, h2 : GoodT(r, D, S, sub2, pos, h2)) /\ SameData(t, r)
<1>1. PICK v, sub2, h2, y :
         /\ LowT(v, D, S, sub2, pos, h2, y)
         /\ SameData(t, v) /\ FixDone(Reached(v, y)) /\ r = Blackened(v, y)
  BY LowLoop
<1> DEFINE A == v.left
           B == v.right
           root == v.root
           w == WT(v)
           w2 == WT(r)
<1>2. /\ Base(v, D, S, sub2, pos) /\ Rooted(S, A, B, v.parent, root, sub2)
      /\ S \cup {Sentinel} \subseteq D
      /\ Low(S, A, B, v.parent, root, w, h2, y) /\ y \in S \cup {Sentinel}
  BY <1>1 DEF LowT, Base, Low
<1>3. y = root \/ w[y] = 0
  <2>1. y = root \/ v.red[y]
    BY <1>1 DEF FixDone, Reached
  <2> QED  BY <1>2, <2>1, WTValue
<1>4. /\ Base(r, D, S, sub2, pos) /\ SameData(v, r)
      /\ r.left = v.left /\ r.right = v.right /\ r.root = v.root
      /\ WT(r)[y] = 1 /\ \A n \in S \cup {Sentinel} : n # y => WT(r)[n] = WT(v)[n]
  <2>1. Base(v, D, S, sub2, pos) /\ y \in S \cup {Sentinel} /\ r = Blackened(v, y)
    BY <1>1, <1>2
  <2> HIDE DEF A, B, root, w, w2
  <2> QED  BY <2>1, BlackenedBase
<1>5. w2[y] = 1 /\ \A n \in S \cup {Sentinel} : n # y => w2[n] = w[n]
  BY <1>4
<1>6. PICK h3 : Good(S, A, B, root, w2, h3)
  <2> DEFINE P == v.parent
  <2> HIDE DEF A, B, root, w, w2, P
  <2>1. Rooted(S, A, B, P, root, sub2) /\ Low(S, A, B, P, root, w, h2, y)
    BY <1>2 DEF P
  <2>2. y = root \/ w[y] = 0
    BY <1>3
  <2>3. Blackens(S, w, w2, y)
    BY <1>5 DEF Blackens
  <2> QED  BY <2>1, <2>2, <2>3, LowBlack
<1>7. GoodT(r, D, S, sub2, pos, h3)
  BY <1>4, <1>6 DEF GoodT
<1> QED  BY <1>1, <1>4, <1>7 DEF SameData

-----------------------------------------------------------------------------
(* The node that mps_rbtree_delete unlinks *)

\* temp takes the place of subst.
CutTo(t, side, up, c, q) == [t EXCEPT ![side][up] = c, !.parent[c] = q]

LEMMA CutToFields ==
  ASSUME NEW t, NEW D, IsRb(t, D), NEW side \in Sides, NEW up \in D, NEW c \in D, NEW q,
         NEW r, r = CutTo(t, side, up, c, q)
  PROVE  /\ IsRb(r, D) /\ SameData(t, r) /\ r.root = t.root /\ r.red = t.red
         /\ r[side] = [t[side] EXCEPT ![up] = c]
         /\ r[Other(side)] = t[Other(side)]
         /\ r.parent = [t.parent EXCEPT ![c] = q]
<1>1. CASE side = "left"
  <2>1. Other(side) = "right"
    BY <1>1 DEF Other
  <2> QED  BY <1>1, <2>1 DEF CutTo, IsRb, FunctionOn, Fields, SameData
<1>2. CASE side = "right"
  <2>1. Other(side) = "left"
    BY <1>2 DEF Other
  <2> QED  BY <1>2, <2>1 DEF CutTo, IsRb, FunctionOn, Fields, SameData
<1> QED  BY <1>1, <1>2 DEF Sides

\* subst gets the fields of x.
MovedTo(t, u, x, z) ==
    [t EXCEPT !.left[z] = t.left[x], !.right[z] = t.right[x],
              !.parent[z] = u.parent[x], !.red[z] = u.red[x]]

MovedFacts(t, u, r, D, x, z) ==
    /\ IsRb(r, D) /\ SameData(t, r) /\ r.root = t.root
    /\ r.red = [t.red EXCEPT ![z] = u.red[x]]
    /\ r.left = [t.left EXCEPT ![z] = t.left[x]]
    /\ r.right = [t.right EXCEPT ![z] = t.right[x]]
    /\ r.parent = [t.parent EXCEPT ![z] = u.parent[x]]

LEMMA MovedToFields ==
  ASSUME NEW t, NEW u, NEW D, IsRb(t, D), NEW x \in D, NEW z \in D, u.red[x] \in BOOLEAN,
         NEW r, r = MovedTo(t, u, x, z)
  PROVE  MovedFacts(t, u, r, D, x, z)
BY DEF MovedFacts, MovedTo, IsRb, FunctionOn, Fields, SameData

\* The children of subst get their new parent.
Adopted(t, z) ==
    [t EXCEPT !.parent =
        [n \in DOMAIN @ |-> IF n \in {t.left[z], t.right[z]} \ {Sentinel} THEN z ELSE @[n]]]

LEMMA AdoptedFields ==
  ASSUME NEW t, NEW D, IsRb(t, D), NEW z \in D, NEW r, r = Adopted(t, z)
  PROVE  /\ IsRb(r, D) /\ SameData(t, r) /\ r.root = t.root /\ r.red = t.red
         /\ r.left = t.left /\ r.right = t.right
         /\ \A n \in D : r.parent[n] = IF n \in {t.left[z], t.right[z]} \ {Sentinel}
                                       THEN z ELSE t.parent[n]
<1>1. DOMAIN t.parent = D
  BY DEF IsRb, FunctionOn
<1>2. r.parent = [n \in D |-> IF n \in {t.left[z], t.right[z]} \ {Sentinel}
                              THEN z ELSE t.parent[n]]
  BY <1>1 DEF Adopted, IsRb, FunctionOn, Fields
<1>3. FunctionOn(r.parent, D)
  BY <1>2 DEF FunctionOn
<1>4. /\ FunctionOn(r, Fields) /\ SameData(t, r) /\ r.root = t.root /\ r.red = t.red
      /\ r.left = t.left /\ r.right = t.right
  BY DEF Adopted, IsRb, FunctionOn, Fields, SameData
<1>5. IsRb(r, D)
  BY <1>3, <1>4 DEF IsRb, SameData
<1> QED  BY <1>2, <1>4, <1>5

LEMMA SubstituteSteps ==
  ASSUME NEW t, NEW x, NEW z, NEW c, NEW up, up = t.parent[z], NEW side, side = SideOf(t, up, z)
  PROVE  /\ z = x => Substitute(t, x, z, c) = CutTo(t, side, up, c, up)
         /\ z # x => Substitute(t, x, z, c)
                       = Adopted(ReplaceChild(MovedTo(CutTo(t, side, up, c, IF up = x THEN z ELSE up),
                                                      t, x, z), t.parent[x], x, z), z)
<1>1. CASE z = x
  <2>1. (up = x /\ z # x) = FALSE
    BY <1>1
  <2>2. Substitute(t, x, z, c) = [t EXCEPT ![SideOf(t, t.parent[z], z)][t.parent[z]] = c,
            !.parent[c] = IF t.parent[z] = x /\ z # x THEN z ELSE t.parent[z]]
    BY <1>1 DEF Substitute
  <2>3. (IF up = x /\ z # x THEN z ELSE up) = up
    BY <1>1
  <2> QED  BY <1>1, <2>2, <2>3 DEF CutTo
<1>2. CASE z # x
  <2> DEFINE q == IF t.parent[z] = x /\ z # x THEN z ELSE t.parent[z]
             cut == [t EXCEPT ![SideOf(t, t.parent[z], z)][t.parent[z]] = c, !.parent[c] = q]
             moved == [cut EXCEPT !.left[z] = cut.left[x], !.right[z] = cut.right[x],
                                  !.parent[z] = t.parent[x], !.red[z] = t.red[x]]
             placed == ReplaceChild(moved, t.parent[x], x, z)
  <2>1. Substitute(t, x, z, c)
          = [placed EXCEPT !.parent = [n \in DOMAIN @ |->
                IF n \in {placed.left[z], placed.right[z]} \ {Sentinel} THEN z ELSE @[n]]]
    BY <1>2 DEF Substitute
  <2>2. q = IF up = x THEN z ELSE up
    BY <1>2
  <2> HIDE DEF q
  <2>3. cut = CutTo(t, side, up, c, IF up = x THEN z ELSE up)
    BY <2>2 DEF CutTo
  <2> HIDE DEF cut
  <2>4. moved = MovedTo(cut, t, x, z)
    BY DEF MovedTo
  <2> HIDE DEF moved
  <2> HIDE DEF placed
  <2>5. Substitute(t, x, z, c) = Adopted(placed, z)
    BY <2>1 DEF Adopted
  <2> QED  BY <1>2, <2>3, <2>4, <2>5, SMTT(30) DEF placed
<1> QED  BY <1>1, <1>2

\* What is left without z, whose place went to c.
CutTree(t, r, D, S, sub, pos, z, up, c, sub1, h1) ==
    /\ Base(r, D, S \ {z}, sub1, pos) /\ SameData(t, r) /\ r.root = t.root /\ r.red = t.red
    /\ t.red[z] => GoodT(r, D, S \ {z}, sub1, pos, h1)
    /\ ~t.red[z] => LowT(r, D, S \ {z}, sub1, pos, h1, c)
    /\ \A n \in S \ {z} : /\ sub1[r.left[n]] \subseteq sub[t.left[n]]
                          /\ sub1[r.right[n]] \subseteq sub[t.right[n]]
    /\ up \in S \ {z} /\ r.parent = [t.parent EXCEPT ![c] = up]
    /\ c \in (S \ {z}) \cup {Sentinel} /\ c # r.root /\ c \in {r.left[up], r.right[up]}

LEMMA CutSide ==
  ASSUME NEW t, NEW D, NEW S, NEW sub, NEW pos, Base(t, D, S, sub, pos),
         NEW z \in S, z # t.root, NEW up, up = t.parent[z],
         NEW side, side = SideOf(t, up, z), NEW c, Lone(t.left, t.right, z, c),
         NEW r, r = CutTo(t, side, up, c, up)
  PROVE  /\ side \in Sides /\ up \in S /\ up # z /\ t[side][up] = z
         /\ Lone(t[side], t[Other(side)], z, c) /\ c \in S \cup {Sentinel}
         /\ IsRb(r, D) /\ SameData(t, r) /\ r.root = t.root /\ r.red = t.red
         /\ r.parent = [t.parent EXCEPT ![c] = up]
         /\ c = r[side][up]
         /\ CutAt(S, t[side], t[Other(side)], t.parent, r[side], r[Other(side)], r.parent, z, up, c)
<1>1. /\ IsRb(t, D) /\ S \cup {Sentinel} \subseteq D
      /\ Rooted(S, t.left, t.right, t.parent, t.root, sub)
  BY DEF Base
<1>2. up \in S /\ up # z /\ (t.left[up] = z \/ t.right[up] = z)
  BY <1>1, HasParent
<1>3. side \in Sides /\ t[side][up] = z
  BY <1>2 DEF SideOf, Sides
<1>4. Fork(S, t.left, t.right, t.parent, sub, z)
  BY <1>1 DEF Rooted
<1>5. c \in S \cup {Sentinel}
  BY <1>4 DEF Fork, Lone
<1>6. Lone(t[side], t[Other(side)], z, c)
  BY <1>3 DEF Lone, Sides, Other
<1>7. up \in D /\ c \in D
  BY <1>1, <1>2, <1>5
<1>8. /\ IsRb(r, D) /\ SameData(t, r) /\ r.root = t.root /\ r.red = t.red
      /\ r[side] = [t[side] EXCEPT ![up] = c]
      /\ r[Other(side)] = t[Other(side)]
      /\ r.parent = [t.parent EXCEPT ![c] = up]
  BY <1>1, <1>3, <1>7, CutToFields
<1>9. FunctionOn(t[side], D) /\ FunctionOn(t.parent, D)
  BY <1>1, <1>3 DEF IsRb, Sides
<1>10. DOMAIN t[side] = D /\ DOMAIN t.parent = D
  BY <1>9 DEF FunctionOn
<1>11. CutAt(S, t[side], t[Other(side)], t.parent, r[side], r[Other(side)], r.parent, z, up, c)
  BY <1>1, <1>7, <1>8, <1>10 DEF CutAt
<1>12. r[side][up] = c
  BY <1>7, <1>8, <1>10
<1> QED  BY <1>2, <1>3, <1>5, <1>6, <1>8, <1>11, <1>12

LEMMA CutGood ==
  ASSUME NEW t, NEW D, NEW S, NEW sub, NEW pos, NEW h, GoodT(t, D, S, sub, pos, h),
         NEW z \in S, z # t.root, NEW up, up = t.parent[z],
         NEW side, side = SideOf(t, up, z), NEW c, Lone(t.left, t.right, z, c),
         NEW r, r = CutTo(t, side, up, c, up)
  PROVE  \E sub1, h1 : CutTree(t, r, D, S, sub, pos, z, up, c, sub1, h1)
<1> DEFINE A == t[side]
           B == t[Other(side)]
           A1 == r[side]
           B1 == r[Other(side)]
           w == WT(t)
           sub1 == CutSub(S, sub, z)
           h1 == Without(S, h, z)
           S1 == S \ {z}
<1>1. Base(t, D, S, sub, pos) /\ Good(S, t.left, t.right, t.root, w, h)
  BY DEF GoodT
<1>2. /\ side \in Sides /\ up \in S /\ up # z /\ A[up] = z
      /\ Lone(A, B, z, c) /\ c \in S \cup {Sentinel}
      /\ IsRb(r, D) /\ SameData(t, r) /\ r.root = t.root /\ r.red = t.red
      /\ r.parent = [t.parent EXCEPT ![c] = up]
      /\ c = A1[up]
      /\ CutAt(S, A, B, t.parent, A1, B1, r.parent, z, up, c)
  BY <1>1, CutSide
<1>3. Rooted(S, A, B, t.parent, t.root, sub)
  BY <1>1, <1>2, BaseSides, Zenon
<1>4. \A n \in S : A[n] \in S \cup {Sentinel} /\ B[n] \in S \cup {Sentinel}
  BY <1>3, Zenon DEF Rooted, Fork
<1>5. side = "left" \/ side = "right"
  BY <1>2, Zenon DEF Sides
<1>6. Good(S, A, B, t.root, w, h)
  <2>1. CASE side = "left"
    BY <1>1, <2>1 DEF Other
  <2>2. CASE side = "right"
    <3>1. A = t.right /\ B = t.left
      BY <2>2 DEF Other
    <3>2. \A n \in S : t.left[n] \in S \cup {Sentinel} /\ t.right[n] \in S \cup {Sentinel}
      BY <1>4, <3>1
    <3>3. Good(S, t.right, t.left, t.root, w, h)
      BY <1>1, <3>2, GoodSwap
    <3> QED  BY <3>1, <3>3
  <2> QED  BY <1>5, <2>1, <2>2
<1>7. Leveled(S, A, B, w, h, Flat(S), Flat(S)) /\ Calm(S, A, B, w, {}, {}) /\ w[t.root] = 1
  BY <1>6 DEF Good
<1>8. /\ Rooted(S1, A1, B1, r.parent, t.root, sub1)
      /\ \A n \in S1 : sub1[A1[n]] \subseteq sub[A[n]] /\ sub1[B1[n]] \subseteq sub[B[n]]
  <2> HIDE DEF A, B, A1, B1
  <2> QED  BY <1>2, <1>3, CutRooted
<1>9. /\ w[z] = 1 => Low(S1, A1, B1, r.parent, t.root, w, h1, c)
      /\ w[z] = 0 => Leveled(S1, A1, B1, w, h1, Flat(S1), Flat(S1)) /\ Calm(S1, A1, B1, w, {}, {})
  <2> HIDE DEF A, B, A1, B1, w
  <2> QED  BY <1>2, <1>3, <1>7, CutHeights
<1>10. CutFacts(S, A, B, t.root, sub, A1, B1, z, up, c)
  <2> HIDE DEF A, B, A1, B1
  <2> QED  BY <1>2, <1>3, CutShape, Zenon
<1>11. c \in S1 \cup {Sentinel} /\ c # r.root
  BY <1>2, <1>10, Zenon DEF CutFacts
<1>12. Ord(S, t.left, t.right, sub, pos) /\ S \cup {Sentinel} \subseteq D
  BY <1>1, SMTT(30) DEF Base
<1>13. \A n \in S1 : sub1[r.left[n]] \subseteq sub[t.left[n]] /\ sub1[r.right[n]] \subseteq sub[t.right[n]]
  <2> HIDE DEF sub1, S1
  <2> QED  BY <1>5, <1>8 DEF Other
<1>14. Ord(S1, r.left, r.right, sub1, pos)
  <2> HIDE DEF sub1
  <2> QED  BY <1>12, <1>13, OrdShrink
<1>15. Rooted(S1, r.left, r.right, r.parent, r.root, sub1)
  <2> HIDE DEF sub1, S1
  <2>1. CASE side = "left"
    BY <1>2, <1>8, <2>1, Zenon DEF Other
  <2>2. CASE side = "right"
    <3>1. Rooted(S1, r.right, r.left, r.parent, r.root, sub1)
      BY <1>2, <1>8, <2>2, Zenon DEF Other
    <3> QED  BY <3>1, RootedSwap, Zenon
  <2> QED  BY <1>5, <2>1, <2>2, Zenon
<1>16. Base(r, D, S1, sub1, pos)
  BY <1>2, <1>12, <1>14, <1>15, Zenon DEF Base
<1>17. WT(r) = w
  BY <1>2, ZenonT(30) DEF WT
<1>18. \A n \in S1 : r.left[n] \in S1 \cup {Sentinel} /\ r.right[n] \in S1 \cup {Sentinel}
  BY <1>15 DEF Rooted, Fork
<1>19. t.red[z] <=> w[z] = 0
  <2> HIDE DEF w
  <2>1. z \in D
    BY <1>12
  <2> QED  BY <1>1, <2>1, WTValue DEF w
<1>20. ~t.red[z] <=> w[z] = 1
  <2>1. z \in D
    BY <1>12
  <2> QED  BY <1>1, <2>1, WTValue, Zenon
<1>21. ~t.red[z] => LowT(r, D, S1, sub1, pos, h1, c)
  <2> SUFFICES ASSUME ~t.red[z]  PROVE LowT(r, D, S1, sub1, pos, h1, c)
    BY Zenon
  <2>1. Low(S1, A1, B1, r.parent, r.root, WT(r), h1, c)
    BY <1>2, <1>9, <1>17, <1>20, Zenon
  <2> HIDE DEF S1, sub1, h1
  <2> QED  BY <1>2, <1>16, <2>1, LowBack, Zenon
<1>22. t.red[z] => GoodT(r, D, S1, sub1, pos, h1)
  <2> SUFFICES ASSUME t.red[z]  PROVE GoodT(r, D, S1, sub1, pos, h1)
    BY Zenon
  <2>1. Good(S1, A1, B1, r.root, WT(r), h1)
    BY <1>2, <1>7, <1>9, <1>17, <1>19, Zenon DEF Good
  <2>2. Good(S1, r.left, r.right, r.root, WT(r), h1)
    <3> HIDE DEF S1, h1
    <3>1. CASE side = "left"
      BY <2>1, <3>1 DEF Other
    <3>2. CASE side = "right"
      <4>1. Good(S1, r.right, r.left, r.root, WT(r), h1)
        BY <2>1, <3>2, Zenon DEF Other
      <4> QED  BY <1>18, <4>1, GoodSwap
    <3> QED  BY <1>5, <3>1, <3>2
  <2> QED  BY <1>16, <2>2 DEF GoodT
<1>23. c \in {r.left[up], r.right[up]}
  BY <1>2, <1>5, Zenon
<1>24. CutTree(t, r, D, S, sub, pos, z, up, c, sub1, h1)
  <2> HIDE DEF sub1, h1
  <2> QED  BY <1>2, <1>11, <1>13, <1>16, <1>21, <1>22, <1>23, Zenon DEF CutTree
<1> QED  BY <1>24

\* t1 is what is left without z; cut is the same but for the parent of c when
\* z was a child of x.
ReparentedTo(t1, cut, c, q) ==
    /\ SameData(t1, cut) /\ cut.root = t1.root /\ cut.red = t1.red
    /\ cut.left = t1.left /\ cut.right = t1.right
    /\ cut.parent = [t1.parent EXCEPT ![c] = q]

\* The steps of the code put z in the place of x.
MovedIn(t1, r, D, S1, x, z, c, up) ==
    /\ IsRb(r, D) /\ SameData(t1, r) /\ r.red = [t1.red EXCEPT ![z] = t1.red[x]]
    /\ RelabelAt(S1, t1.left, t1.right, t1.parent, t1.root,
                 r.left, r.right, r.parent, r.root, x, z)
    /\ c = Sentinel => r.parent[c] = Renamed(x, z, up)

LEMMA MoveIn ==
  ASSUME NEW t1, NEW D, NEW S1, NEW sub1, NEW pos, Base(t1, D, S1, sub1, pos),
         NEW x \in S1, NEW z \in D, z \notin S1, z # Sentinel,
         NEW up \in S1, NEW c \in S1 \cup {Sentinel}, c # x, t1.parent[c] = up,
         c \in {t1.left[up], t1.right[up]},
         NEW cut, IsRb(cut, D), ReparentedTo(t1, cut, c, IF up = x THEN z ELSE up),
         NEW u, u.parent[x] = t1.parent[x], u.red[x] = t1.red[x],
         NEW r, r = Adopted(ReplaceChild(MovedTo(cut, u, x, z), t1.parent[x], x, z), z)
  PROVE  MovedIn(t1, r, D, S1, x, z, c, up)
<1> DEFINE m == MovedTo(cut, u, x, z)
           p == t1.parent[x]
           placed == ReplaceChild(m, p, x, z)
           L == t1.left
           R == t1.right
           P == t1.parent
<1>1. /\ IsRb(t1, D) /\ S1 \cup {Sentinel} \subseteq D
      /\ Rooted(S1, L, R, P, t1.root, sub1)
  BY DEF Base
<1>2. /\ Sentinel \notin S1 /\ \A n \in S1 : Fork(S1, L, R, P, sub1, n)
  BY <1>1 DEF Rooted
<1>3. /\ x \in D /\ up \in D /\ c \in D /\ x # z /\ x # Sentinel
  BY <1>1, <1>2
<1>4. /\ SameData(t1, cut) /\ cut.root = t1.root /\ cut.red = t1.red
      /\ cut.left = L /\ cut.right = R
      /\ cut.parent = [P EXCEPT ![c] = IF up = x THEN z ELSE up]
  BY DEF ReparentedTo
<1>5. /\ DOMAIN L = D /\ DOMAIN R = D /\ DOMAIN P = D
      /\ t1.red \in [D -> BOOLEAN]
  BY <1>1 DEF IsRb, FunctionOn
<1>6. /\ IsRb(m, D) /\ SameData(cut, m) /\ m.root = cut.root
      /\ m.red = [cut.red EXCEPT ![z] = u.red[x]]
      /\ m.left = [cut.left EXCEPT ![z] = cut.left[x]]
      /\ m.right = [cut.right EXCEPT ![z] = cut.right[x]]
      /\ m.parent = [cut.parent EXCEPT ![z] = u.parent[x]]
  <2>1. u.red[x] \in BOOLEAN
    BY <1>3, <1>5
  <2>2. m = MovedTo(cut, u, x, z)
    OBVIOUS
  <2> HIDE DEF m
  <2>3. MovedFacts(cut, u, m, D, x, z)
    BY <1>3, <2>1, <2>2, MovedToFields
  <2> QED  BY <2>3 DEF MovedFacts
<1> HIDE DEF m
<1>7. x # t1.root => p \in S1 /\ p # x /\ (L[p] = x \/ R[p] = x)
  <2> HIDE DEF L, R, P
  <2> QED  BY <1>1, HasParent DEF P
<1>8. \A n \in S1 : \/ L[n] = x /\ R[n] # x /\ n = p /\ x # t1.root
                    \/ R[n] = x /\ L[n] # x /\ n = p /\ x # t1.root
                    \/ L[n] # x /\ R[n] # x
  <2> HIDE DEF L, R, P
  <2> TAKE n \in S1
  <2>1. Fork(S1, L, R, P, sub1, n)
    BY <1>2
  <2>2. /\ L[n] = t1.root => L[n] = Sentinel
        /\ R[n] = t1.root => R[n] = Sentinel
        /\ L[n] = R[n] => L[n] = Sentinel
    BY <1>1, Children
  <2>3. p = P[x]
    BY DEF P
  <2>4. (L[n] # Sentinel => P[L[n]] = n) /\ (R[n] # Sentinel => P[R[n]] = n)
    BY <2>1 DEF Fork
  <2> HIDE DEF p
  <2>5. CASE L[n] = x
    <3>1. n = p /\ x # t1.root
      BY <1>3, <2>2, <2>3, <2>4, <2>5
    <3>2. R[n] # x
      BY <1>3, <2>2, <2>5
    <3> QED  BY <2>5, <3>1, <3>2
  <2>6. CASE R[n] = x
    <3>1. n = p /\ x # t1.root
      BY <1>3, <2>2, <2>3, <2>4, <2>6
    <3>2. L[n] # x
      BY <1>3, <2>2, <2>6
    <3> QED  BY <2>6, <3>1, <3>2
  <2> QED  BY <2>5, <2>6
<1>9. /\ \A n \in S1 : m.left[n] = L[n] /\ m.right[n] = R[n]
      /\ m.left[z] = L[x] /\ m.right[z] = R[x]
      /\ m.parent[z] = P[x]
      /\ \A n \in S1 : n # c => m.parent[n] = P[n]
      /\ c = Sentinel => m.parent[c] = IF up = x THEN z ELSE up
  <2> HIDE DEF L, R, P
  <2>1. \A n \in S1 : n \in D /\ n # z
    BY <1>1
  <2> QED  BY <1>3, <1>4, <1>5, <1>6, <2>1 DEF P
<1>10. Replaced(m, placed, D, p, x, z)
  <2>1. x # m.root => p \in D
    BY <1>1, <1>4, <1>6, <1>7
  <2> HIDE DEF p
  <2> QED  BY <1>6, <2>1, ReplaceFields
<1>11. /\ IsRb(placed, D) /\ SameData(m, placed) /\ placed.parent = m.parent /\ placed.red = m.red
       /\ placed.root = Renamed(x, z, t1.root)
  BY <1>4, <1>6, <1>10, SMTT(30) DEF Replaced, SameData, Renamed
<1>12. /\ placed.left = IF x # t1.root /\ m.left[p] = x THEN [m.left EXCEPT ![p] = z] ELSE m.left
       /\ placed.right = IF x # t1.root /\ m.left[p] # x THEN [m.right EXCEPT ![p] = z] ELSE m.right
       /\ DOMAIN m.left = D /\ DOMAIN m.right = D
  BY <1>4, <1>6, <1>10 DEF Replaced, IsRb, FunctionOn
<1>13. /\ placed.left[z] = L[x] /\ placed.right[z] = R[x]
       /\ \A n \in S1 \ {x} : placed.left[n] = Renamed(x, z, L[n]) /\ placed.right[n] = Renamed(x, z, R[n])
  <2> HIDE DEF L, R, P, p, placed
  <2>1. z \in D /\ \A n \in S1 : n \in D /\ n # z
    BY <1>1
  <2>2. CASE x = t1.root
    <3>1. placed.left = m.left /\ placed.right = m.right
      BY <1>12, <2>2
    <3>2. \A n \in S1 : L[n] # x /\ R[n] # x
      BY <1>8, <2>2
    <3> QED  BY <1>9, <3>1, <3>2 DEF Renamed
  <2>3. CASE x # t1.root /\ L[p] = x
    <3>1. p \in S1 /\ R[p] # x /\ m.left[p] = x /\ p # z /\ p # x
      BY <1>7, <1>8, <1>9, <2>1, <2>3
    <3>2. placed.left = [m.left EXCEPT ![p] = z] /\ placed.right = m.right
      BY <1>12, <2>3, <3>1
    <3>3. \A n \in S1 : R[n] # x /\ (L[n] = x <=> n = p)
      BY <1>8, <2>3, <3>1
    <3> QED  BY <1>9, <1>12, <2>1, <3>1, <3>2, <3>3 DEF Renamed
  <2>4. CASE x # t1.root /\ L[p] # x
    <3>1. p \in S1 /\ R[p] = x /\ m.left[p] # x /\ p # z /\ p # x
      BY <1>7, <1>8, <1>9, <2>1, <2>4
    <3>2. placed.right = [m.right EXCEPT ![p] = z] /\ placed.left = m.left
      BY <1>12, <2>4, <3>1
    <3>3. \A n \in S1 : L[n] # x /\ (R[n] = x <=> n = p)
      BY <1>8, <2>4, <3>1
    <3> QED  BY <1>9, <1>12, <2>1, <3>1, <3>2, <3>3 DEF Renamed
  <2> QED  BY <2>2, <2>3, <2>4
<1>14. /\ IsRb(r, D) /\ SameData(placed, r) /\ r.root = placed.root /\ r.red = placed.red
       /\ r.left = placed.left /\ r.right = placed.right
       /\ \A n \in D : r.parent[n] = IF n \in {placed.left[z], placed.right[z]} \ {Sentinel}
                                     THEN z ELSE placed.parent[n]
  <2>1. r = Adopted(placed, z)
    BY DEF m
  <2> HIDE DEF placed
  <2> QED  BY <1>11, <2>1, AdoptedFields
<1>15. /\ \A n \in S1 \cup {Sentinel, z} :
             r.parent[n] = IF n \in {L[x], R[x]} \ {Sentinel} THEN z ELSE m.parent[n]
  <2> HIDE DEF L, R, P, placed
  <2>1. \A n \in S1 \cup {Sentinel, z} : n \in D
    BY <1>1
  <2> QED  BY <1>11, <1>13, <1>14, <2>1
<1>16. L[x] \in S1 \cup {Sentinel} /\ R[x] \in S1 \cup {Sentinel}
  BY <1>2 DEF Fork
<1>17. r.parent[z] = P[x]
  BY <1>3, <1>9, <1>15, <1>16
<1>18. /\ L[x] # Sentinel => r.parent[L[x]] = z
       /\ R[x] # Sentinel => r.parent[R[x]] = z
  <2> HIDE DEF L, R, P
  <2> QED  BY <1>15, <1>16
<1>19. \A n \in S1 \ {x, L[x], R[x]} : r.parent[n] = P[n]
  <2> HIDE DEF P
  <2> TAKE n \in S1 \ {x, L[x], R[x]}
  <2>1. r.parent[n] = m.parent[n]
    BY <1>15
  <2>2. CASE n # c
    BY <1>9, <2>1, <2>2
  <2>3. CASE n = c
    <3>1. up # x
      BY <2>3
    <3>2. n \in D /\ n # z
      BY <1>1
    <3>3. m.parent[n] = up
      BY <1>3, <1>4, <1>5, <1>6, <2>3, <3>1, <3>2
    <3>4. P[c] = up
      BY DEF P
    <3> QED  BY <2>1, <2>3, <3>3, <3>4
  <2> QED  BY <2>2, <2>3
<1>20. c = Sentinel => r.parent[c] = Renamed(x, z, up)
  <2> HIDE DEF P
  <2> QED  BY <1>9, <1>15 DEF Renamed
<1>21. RelabelAt(S1, L, R, P, t1.root, r.left, r.right, r.parent, r.root, x, z)
  <2> HIDE DEF L, R, P, placed
  <2> QED  BY <1>11, <1>13, <1>14, <1>17, <1>18, <1>19 DEF RelabelAt
<1>22. r.red = [t1.red EXCEPT ![z] = t1.red[x]]
  BY <1>4, <1>6, <1>11, <1>14
<1>23. SameData(t1, r)
  BY <1>4, <1>6, <1>11, <1>14 DEF SameData
<1> QED  BY <1>14, <1>20, <1>21, <1>22, <1>23 DEF MovedIn

\* z, the next node after x in the order.
NextBelow(t, S, sub, pos, x, z) ==
    /\ x \in S /\ z \in S /\ z \in sub[t.right[x]]
    /\ \A m \in sub[t.right[x]] : m = z \/ pos[z] < pos[m]

LEMMA NextBelowFacts ==
  ASSUME NEW t, NEW D, NEW S, NEW sub, NEW pos, Base(t, D, S, sub, pos),
         NEW x, NEW z, NextBelow(t, S, sub, pos, x, z), NEW c, Lone(t.left, t.right, z, c)
  PROVE  /\ z # x /\ z # t.root /\ c # x /\ z # Sentinel /\ x # Sentinel /\ z \in sub[x]
         /\ c \in S \cup {Sentinel}
<1>1. Rooted(S, t.left, t.right, t.parent, t.root, sub)
  BY DEF Base
<1>2. x \in S /\ z \in S /\ z \in sub[t.right[x]]
  BY DEF NextBelow
<1>3. Fork(S, t.left, t.right, t.parent, sub, x) /\ Fork(S, t.left, t.right, t.parent, sub, z)
  BY <1>1, <1>2 DEF Rooted
<1>4. x \notin sub[t.right[x]] /\ z \in sub[x]
  BY <1>2, <1>3 DEF Fork
<1>5. Sentinel \notin S /\ sub[Sentinel] = {} /\ sub[t.root] = S
  BY <1>1 DEF Rooted
<1>6. t.right[x] \in S
  BY <1>2, <1>3, <1>5 DEF Fork
<1>7. sub[z] \subseteq sub[t.right[x]]
  BY <1>1, <1>2, <1>6, SubTrans
<1>8. z # t.root
  BY <1>2, <1>4, <1>5, <1>7
<1>9. c \in S \cup {Sentinel}
  BY <1>3 DEF Fork, Lone
<1>10. c # x
  <2>1. CASE c = Sentinel
    BY <1>2, <1>5, <2>1
  <2>2. CASE c \in S
    <3>1. c \in sub[c]
      BY <1>1, <2>2, SubSelf
    <3>2. c \in {t.left[z], t.right[z]}
      BY DEF Lone
    <3>3. c \in sub[z]
      BY <1>3, <3>1, <3>2 DEF Fork
    <3> QED  BY <1>4, <1>7, <3>3
  <2> QED  BY <1>9, <2>1, <2>2
<1> QED  BY <1>2, <1>4, <1>5, <1>8, <1>9, <1>10

\* What the code makes of the links before it puts z in the place of x.
LEMMA CutReparented ==
  ASSUME NEW t, NEW D, IsRb(t, D), NEW side \in Sides, NEW up \in D, NEW c \in D, NEW q,
         NEW t1, t1 = CutTo(t, side, up, c, up), NEW cut, cut = CutTo(t, side, up, c, q)
  PROVE  IsRb(cut, D) /\ ReparentedTo(t1, cut, c, q)
<1>1. /\ SameData(t, t1) /\ t1.root = t.root /\ t1.red = t.red
      /\ t1[side] = [t[side] EXCEPT ![up] = c]
      /\ t1[Other(side)] = t[Other(side)]
      /\ t1.parent = [t.parent EXCEPT ![c] = up]
  BY CutToFields
<1>2. /\ IsRb(cut, D) /\ SameData(t, cut) /\ cut.root = t.root /\ cut.red = t.red
      /\ cut[side] = [t[side] EXCEPT ![up] = c]
      /\ cut[Other(side)] = t[Other(side)]
      /\ cut.parent = [t.parent EXCEPT ![c] = q]
  BY CutToFields
<1>3. cut.left = t1.left /\ cut.right = t1.right
  BY <1>1, <1>2 DEF Sides, Other
<1>4. cut.parent = [t1.parent EXCEPT ![c] = q]
  BY <1>1, <1>2
<1> QED  BY <1>1, <1>2, <1>3, <1>4 DEF ReparentedTo, SameData

\* What unlinking leaves, for the fixup if the colour lost is black.
Left(t, r, D, S1, pos, z, c) ==
    /\ SameData(t, r)
    /\ t.red[z] => \E sub2, h2 : GoodT(r, D, S1, sub2, pos, h2)
    /\ ~t.red[z] => \E sub2, h2 : LowT(r, D, S1, sub2, pos, h2, c)

LEMMA CutThenMoved ==
  ASSUME NEW t, NEW D, NEW S, NEW sub, NEW pos, NEW h, GoodT(t, D, S, sub, pos, h),
         NEW x, NEW z, NextBelow(t, S, sub, pos, x, z), NEW c, Lone(t.left, t.right, z, c),
         NEW r, r = Substitute(t, x, z, c)
  PROVE  \E t1, up, sub1, h1 : /\ CutTree(t, t1, D, S, sub, pos, z, up, c, sub1, h1)
                               /\ MovedIn(t1, r, D, S \ {z}, x, z, c, up)
<1> DEFINE up == t.parent[z]
           side == SideOf(t, up, z)
           t1 == CutTo(t, side, up, c, up)
           q == IF up = x THEN z ELSE up
           cut == CutTo(t, side, up, c, q)
<1>1. Base(t, D, S, sub, pos) /\ IsRb(t, D) /\ S \cup {Sentinel} \subseteq D
  BY DEF GoodT, Base
<1>2. /\ z # x /\ z # t.root /\ c # x /\ z # Sentinel /\ x # Sentinel
      /\ c \in S \cup {Sentinel}
  BY <1>1, NextBelowFacts
<1>3. x \in S /\ z \in S
  BY DEF NextBelow
<1>4. PICK sub1, h1 : CutTree(t, t1, D, S, sub, pos, z, up, c, sub1, h1)
  <2> HIDE DEF t1, up, side
  <2> QED  BY <1>2, <1>3, CutGood DEF t1, up, side
<1>5. side \in Sides
  BY DEF SideOf, Sides
<1>6. /\ Base(t1, D, S \ {z}, sub1, pos) /\ up \in S \ {z} /\ t1.red = t.red
      /\ t1.parent = [t.parent EXCEPT ![c] = up] /\ c \in (S \ {z}) \cup {Sentinel}
      /\ c \in {t1.left[up], t1.right[up]}
  <2> HIDE DEF t1, up, side
  <2> QED  BY <1>4 DEF CutTree
<1>7. IsRb(cut, D) /\ ReparentedTo(t1, cut, c, q)
  <2>1. up \in D /\ c \in D
    <3> HIDE DEF up
    <3> QED  BY <1>1, <1>2, <1>6
  <2> HIDE DEF up, side, q
  <2> QED  BY <1>1, <1>5, <2>1, CutReparented
<1>8. r = Adopted(ReplaceChild(MovedTo(cut, t, x, z), t.parent[x], x, z), z)
  BY <1>2, SubstituteSteps
<1> HIDE DEF t1, up, side, q, cut
<1>9. t1.parent[x] = t.parent[x] /\ t1.parent[c] = up
  <2>1. FunctionOn(t.parent, D) /\ x \in D /\ c \in D
    BY <1>1, <1>2, <1>3 DEF IsRb
  <2>2. DOMAIN t.parent = D
    BY <2>1 DEF FunctionOn
  <2> QED  BY <1>2, <1>6, <2>1, <2>2
<1>10. ReparentedTo(t1, cut, c, IF up = x THEN z ELSE up)
  BY <1>7 DEF q
<1>11. r = Adopted(ReplaceChild(MovedTo(cut, t, x, z), t1.parent[x], x, z), z)
  BY <1>8, <1>9
<1>12. x \in S \ {z} /\ z \in D /\ z \notin S \ {z}
  BY <1>1, <1>2, <1>3
<1>13. t.parent[x] = t1.parent[x] /\ t.red[x] = t1.red[x]
  BY <1>6, <1>9
<1>14. MovedIn(t1, r, D, S \ {z}, x, z, c, up)
  BY <1>2, <1>6, <1>7, <1>9, <1>10, <1>11, <1>12, <1>13, MoveIn
<1> QED  BY <1>4, <1>14

\* The order with z in the place of x.
LEMMA MovedOrd ==
  ASSUME NEW t, NEW t1, NEW D, NEW S, NEW sub, NEW pos, Base(t, D, S, sub, pos),
         NEW x, NEW z, NextBelow(t, S, sub, pos, x, z), x # z,
         NEW sub1, Base(t1, D, S \ {z}, sub1, pos),
         \A n \in S \ {z} : /\ sub1[t1.left[n]] \subseteq sub[t.left[n]]
                            /\ sub1[t1.right[n]] \subseteq sub[t.right[n]],
         NEW L2, NEW R2, NEW P2, NEW root2,
         RelabelAt(S \ {z}, t1.left, t1.right, t1.parent, t1.root, L2, R2, P2, root2, x, z)
  PROVE  Ord(Instead(S \ {z}, x, z), L2, R2, RelabelSub(S \ {z}, sub1, x, z), pos)
<1>1. /\ Rooted(S, t.left, t.right, t.parent, t.root, sub) /\ Ord(S, t.left, t.right, sub, pos)
      /\ S \cup {Sentinel} \subseteq D
  BY DEF Base
<1>2. /\ Rooted(S \ {z}, t1.left, t1.right, t1.parent, t1.root, sub1)
      /\ Ord(S \ {z}, t1.left, t1.right, sub1, pos)
  BY DEF Base
<1>3. /\ x \in S /\ z \in S /\ z \in sub[t.right[x]]
      /\ \A m \in sub[t.right[x]] : m = z \/ pos[z] < pos[m]
  BY DEF NextBelow
<1>4. /\ \A n \in S : pos[n] \in Int
      /\ \A m, n \in S : pos[m] = pos[n] => m = n
      /\ \A n \in S : \A y \in sub[t.left[n]] : pos[y] < pos[n]
      /\ \A n \in S : \A y \in sub[t.right[n]] : pos[n] < pos[y]
  BY <1>1 DEF Ord
<1>5. /\ Sentinel \notin S /\ sub \in [S \cup {Sentinel} -> SUBSET S] /\ sub[Sentinel] = {}
      /\ sub1 \in [(S \ {z}) \cup {Sentinel} -> SUBSET (S \ {z})]
  BY <1>1, <1>2 DEF Rooted
<1>6. \A n \in S : \A y \in sub[t.left[n]] \cup sub[t.right[n]] : y \in S
  BY <1>1, SubsWithin
<1>7. \A n \in S \ {z} : \A y \in sub1[t1.left[n]] \cup sub1[t1.right[n]] : y \in S \ {z}
  BY <1>2, SubsWithin
<1>8. pos[x] < pos[z]
  BY <1>3, <1>4
<1>9. \A n \in S \ {z} : x \in sub1[t1.left[n]] => pos[z] < pos[n]
  <2> SUFFICES ASSUME NEW n \in S \ {z}, x \in sub1[t1.left[n]]  PROVE pos[z] < pos[n]
    OBVIOUS
  <2>1. x \in sub[t.left[n]]
    OBVIOUS
  <2>2. t.left[n] \in S
    <3>1. Fork(S, t.left, t.right, t.parent, sub, n)
      BY <1>1 DEF Rooted
    <3> QED  BY <1>5, <2>1, <3>1 DEF Fork
  <2>3. sub[x] \subseteq sub[t.left[n]]
    BY <1>1, <2>1, <2>2, SubTrans
  <2>4. Fork(S, t.left, t.right, t.parent, sub, x)
    BY <1>1, <1>3 DEF Rooted
  <2>5. z \in sub[x]
    BY <1>3, <2>4 DEF Fork
  <2> QED  BY <1>4, <2>3, <2>5
<1>10. \A n \in S \ {z} : x \in sub1[t1.right[n]] => pos[n] < pos[z]
  BY <1>3, <1>4, <1>8
<1>11. \A n \in sub1[t1.left[x]] : pos[n] < pos[z]
  <2> TAKE n \in sub1[t1.left[x]]
  <2>1. n \in sub[t.left[x]] /\ n \in S
    BY <1>3, <1>6
  <2>2. pos[n] < pos[x]
    BY <1>3, <1>4, <2>1
  <2> QED  BY <1>3, <1>4, <1>8, <2>1, <2>2
<1>12. \A n \in sub1[t1.right[x]] : pos[z] < pos[n]
  <2> TAKE n \in sub1[t1.right[x]]
  <2>1. n \in sub[t.right[x]] /\ n # z
    BY <1>3, <1>7
  <2> QED  BY <1>3, <2>1
<1>13. pos[z] \in Int /\ \A n \in (S \ {z}) \ {x} : pos[n] # pos[z]
  BY <1>3, <1>4
<1>14. x \in S \ {z} /\ z \notin S \ {z} /\ z # Sentinel
  BY <1>3, <1>5
<1> DEFINE S1 == S \ {z}
<1> HIDE DEF S1
<1>15. /\ Rooted(S1, t1.left, t1.right, t1.parent, t1.root, sub1) /\ x \in S1 /\ z \notin S1
       /\ Ord(S1, t1.left, t1.right, sub1, pos)
       /\ RelabelAt(S1, t1.left, t1.right, t1.parent, t1.root, L2, R2, P2, root2, x, z)
       /\ \A n \in S1 \ {x} : pos[n] # pos[z]
       /\ \A n \in S1 : x \in sub1[t1.left[n]] => pos[z] < pos[n]
       /\ \A n \in S1 : x \in sub1[t1.right[n]] => pos[n] < pos[z]
  BY <1>2, <1>9, <1>10, <1>13, <1>14 DEF S1
<1>16. Ord(Instead(S1, x, z), L2, R2, RelabelSub(S1, sub1, x, z), pos)
  BY <1>11, <1>12, <1>13, <1>14, <1>15, RelabelOrd
<1> QED  BY <1>16 DEF S1

\* mps_rbtree_delete moves the next node to the place of x and keeps its colour.
LEMMA MovedLeft ==
  ASSUME NEW t, NEW D, NEW S, NEW sub, NEW pos, NEW h, GoodT(t, D, S, sub, pos, h),
         NEW x, NEW z, NextBelow(t, S, sub, pos, x, z), NEW c, Lone(t.left, t.right, z, c),
         NEW r, r = Substitute(t, x, z, c)
  PROVE  Left(t, r, D, S \ {x}, pos, z, c)
<1>1. Base(t, D, S, sub, pos)
  BY DEF GoodT
<1>2. z # x /\ c # x /\ z # Sentinel /\ x # Sentinel
  BY <1>1, NextBelowFacts
<1>3. PICK t1, up, sub1, h1 : /\ CutTree(t, t1, D, S, sub, pos, z, up, c, sub1, h1)
                              /\ MovedIn(t1, r, D, S \ {z}, x, z, c, up)
  BY CutThenMoved
<1>4. /\ Base(t1, D, S \ {z}, sub1, pos) /\ SameData(t, t1) /\ t1.root = t.root /\ t1.red = t.red
      /\ t.red[z] => GoodT(t1, D, S \ {z}, sub1, pos, h1)
      /\ ~t.red[z] => LowT(t1, D, S \ {z}, sub1, pos, h1, c)
      /\ \A n \in S \ {z} : /\ sub1[t1.left[n]] \subseteq sub[t.left[n]]
                            /\ sub1[t1.right[n]] \subseteq sub[t.right[n]]
      /\ t1.parent = [t.parent EXCEPT ![c] = up] /\ c \in (S \ {z}) \cup {Sentinel} /\ c # t1.root
  BY <1>3 DEF CutTree
<1>5. x \in S /\ z \in S
  BY DEF NextBelow
<1> DEFINE S1 == S \ {z}
           S2 == Instead(S1, x, z)
           sub2 == RelabelSub(S1, sub1, x, z)
           h2 == Relabelled(S1, h1, x, z)
<1>6. S2 = S \ {x} /\ x \in S1 /\ z \notin S1
  BY <1>2, <1>5 DEF Instead
<1>7. /\ IsRb(r, D) /\ SameData(t1, r) /\ r.red = [t1.red EXCEPT ![z] = t1.red[x]]
      /\ RelabelAt(S1, t1.left, t1.right, t1.parent, t1.root,
                   r.left, r.right, r.parent, r.root, x, z)
      /\ c = Sentinel => r.parent[c] = Renamed(x, z, up)
  BY <1>3 DEF MovedIn
<1>8. Rooted(S1, t1.left, t1.right, t1.parent, t1.root, sub1) /\ IsRb(t1, D) /\ S1 \cup {Sentinel} \subseteq D
  BY <1>4 DEF Base
<1>9. z \in D /\ c \in D /\ S \cup {Sentinel} \subseteq D
  BY <1>1, <1>4, <1>5 DEF Base
<1>10. Ord(S2, r.left, r.right, sub2, pos)
  BY <1>1, <1>2, <1>4, <1>7, MovedOrd
<1>11. Rooted(S2, r.left, r.right, r.parent, r.root, sub2)
  <2> HIDE DEF S1
  <2> QED  BY <1>2, <1>6, <1>7, <1>8, RelabelRooted
<1>12. S2 \cup {Sentinel} \subseteq D
  BY <1>6, <1>9
<1>13. Base(r, D, S2, sub2, pos)
  <2> HIDE DEF S2, sub2
  <2> QED  BY <1>7, <1>10, <1>11, <1>12 DEF Base
<1>14. t1.red \in [D -> BOOLEAN] /\ r.red \in [D -> BOOLEAN]
  BY <1>7, <1>8 DEF IsRb
<1>15. WT(r)[z] = WT(t1)[x] /\ \A n \in S1 \cup {Sentinel} : n # x => WT(r)[n] = WT(t1)[n]
  <2>1. \A n \in D : /\ WT(r)[n] = IF r.red[n] THEN 0 ELSE 1
                     /\ WT(t1)[n] = IF t1.red[n] THEN 0 ELSE 1
    BY <1>14 DEF WT
  <2>2. r.red[z] = t1.red[x] /\ \A n \in D : n # z => r.red[n] = t1.red[n]
    BY <1>7, <1>9, <1>14
  <2>3. \A n \in S1 \cup {Sentinel} : n \in D /\ n # z
    BY <1>2, <1>9
  <2>4. x \in D
    BY <1>5, <1>9
  <2> HIDE DEF S1
  <2> QED  BY <1>9, <2>1, <2>2, <2>3, <2>4
<1>16. c # Sentinel \/ r.parent[c] = Renamed(x, z, t1.parent[c])
  <2>1. FunctionOn(t.parent, D)
    BY <1>1 DEF Base, IsRb
  <2>2. t1.parent[c] = up
    BY <1>4, <1>9, <2>1 DEF FunctionOn
  <2> QED  BY <1>7, <2>2
<1>17. ASSUME t.red[z]  PROVE GoodT(r, D, S2, sub2, pos, h2)
  <2>1. Good(S1, t1.left, t1.right, t1.root, WT(t1), h1)
    BY <1>4, <1>17 DEF GoodT
  <2>2. /\ Leveled(S1, t1.left, t1.right, WT(t1), h1, Flat(S1), Flat(S1))
        /\ Calm(S1, t1.left, t1.right, WT(t1), {}, {}) /\ WT(t1)[t1.root] = 1
    BY <2>1 DEF Good
  <2> HIDE DEF S1
  <2>3. Leveled(S2, r.left, r.right, WT(r), h2, Flat(S2), Flat(S2))
    BY <1>2, <1>6, <1>7, <1>8, <1>15, <2>2, RelabelFlat
  <2>4. Calm(S2, r.left, r.right, WT(r), {}, {})
    <3>1. x \notin {} /\ z \notin {}
      OBVIOUS
    <3> QED  BY <1>2, <1>6, <1>7, <1>8, <1>15, <2>2, <3>1, RelabelCalm
  <2>5. WT(r)[r.root] = 1
    <3>1. r.root = Renamed(x, z, t1.root)
      BY <1>7 DEF RelabelAt
    <3>2. t1.root \in S1 \cup {Sentinel}
      BY <1>8 DEF Rooted
    <3> QED  BY <1>15, <2>2, <3>1, <3>2 DEF Renamed
  <2> HIDE DEF S2, sub2, h2
  <2> QED  BY <1>13, <2>3, <2>4, <2>5 DEF GoodT, Good
<1>18. ASSUME ~t.red[z]  PROVE LowT(r, D, S2, sub2, pos, h2, c)
  <2>1. Low(S1, t1.left, t1.right, t1.parent, t1.root, WT(t1), h1, c)
    BY <1>4, <1>18 DEF LowT
  <2> HIDE DEF S1
  <2>2. c = Sentinel => r.parent[c] = Renamed(x, z, t1.parent[c])
    BY <1>16
  <2>3. Low(S2, r.left, r.right, r.parent, r.root, WT(r), h2, c)
    <3>1. Rooted(S1, t1.left, t1.right, t1.parent, t1.root, sub1)
      BY <1>8
    <3>2. RelabelAt(S1, t1.left, t1.right, t1.parent, t1.root,
                    r.left, r.right, r.parent, r.root, x, z)
      BY <1>7
    <3>3. c # x /\ c # t1.root /\ z # Sentinel /\ z \notin S1 /\ x \in S1
      BY <1>2, <1>4, <1>6
    <3>4. Low(Instead(S1, x, z), r.left, r.right, r.parent, r.root, WT(r),
              Relabelled(S1, h1, x, z), c)
      BY <1>15, <2>1, <2>2, <3>1, <3>2, <3>3, RelabelLow
    <3> QED  BY <3>4
  <2> HIDE DEF S2, sub2, h2
  <2> QED  BY <1>13, <2>3 DEF LowT
<1>19. SameData(t, r)
  BY <1>4, <1>7 DEF SameData
<1> QED
  <2> HIDE DEF S2, sub2, h2
  <2> QED  BY <1>6, <1>17, <1>18, <1>19 DEF Left

-----------------------------------------------------------------------------
(* Nodes that are not in the tree *)

\* r and t have the same tree of the nodes S, whatever their other nodes are.
Agree(t, r, S) ==
    /\ r.root = t.root /\ r.insert = t.insert
    /\ \A n \in S \cup {Sentinel} :
         /\ r.left[n] = t.left[n] /\ r.right[n] = t.right[n]
         /\ r.parent[n] = t.parent[n] /\ WT(r)[n] = WT(t)[n]
         /\ r.key[n] = t.key[n] /\ r.name[n] = t.name[n]

LEMMA AgreeRooted ==
  ASSUME NEW S, NEW A, NEW B, NEW P, NEW root, NEW sub, NEW A2, NEW B2, NEW P2,
         Rooted(S, A, B, P, root, sub),
         \A n \in S \cup {Sentinel} : A2[n] = A[n] /\ B2[n] = B[n] /\ P2[n] = P[n]
  PROVE  Rooted(S, A2, B2, P2, root, sub)
<1>1. \A n \in S : Fork(S, A, B, P, sub, n)
  BY DEF Rooted
<1>2. \A n \in S : Fork(S, A2, B2, P2, sub, n)
  <2> TAKE n \in S
  <2>1. A2[n] = A[n] /\ B2[n] = B[n] /\ A[n] \in S \cup {Sentinel} /\ B[n] \in S \cup {Sentinel}
    BY <1>1 DEF Fork
  <2>2. P2[A[n]] = P[A[n]] /\ P2[B[n]] = P[B[n]]
    BY <2>1
  <2> QED  BY <1>1, <2>1, <2>2 DEF Fork
<1> QED  BY <1>2 DEF Rooted

LEMMA AgreeOrd ==
  ASSUME NEW S, NEW A, NEW B, NEW sub, NEW pos, NEW A2, NEW B2, Ord(S, A, B, sub, pos),
         \A n \in S : A2[n] = A[n] /\ B2[n] = B[n]
  PROVE  Ord(S, A2, B2, sub, pos)
BY DEF Ord

LEMMA AgreeLeveled ==
  ASSUME NEW S, NEW A, NEW B, NEW w, NEW h, NEW da, NEW db, NEW A2, NEW B2, NEW w2,
         Leveled(S, A, B, w, h, da, db),
         \A n \in S \cup {Sentinel} : A2[n] = A[n] /\ B2[n] = B[n] /\ w2[n] = w[n]
  PROVE  Leveled(S, A2, B2, w2, h, da, db)
BY DEF Leveled, Weights, LevelAt

LEMMA AgreeCalm ==
  ASSUME NEW S, NEW A, NEW B, NEW w, NEW X, NEW A2, NEW B2, NEW w2, Calm(S, A, B, w, X, X),
         \A n \in S : A[n] \in S \cup {Sentinel} /\ B[n] \in S \cup {Sentinel},
         \A n \in S \cup {Sentinel} : A2[n] = A[n] /\ B2[n] = B[n] /\ w2[n] = w[n]
  PROVE  Calm(S, A2, B2, w2, X, X)
BY DEF Calm

LEMMA AgreeLowAt ==
  ASSUME NEW S, NEW A, NEW B, NEW P, NEW w, NEW h, NEW p, NEW c, NEW A2, NEW B2, NEW P2, NEW w2,
         LowAt(S, A, B, P, w, h, p, c), c \in S \cup {Sentinel},
         \A n \in S \cup {Sentinel} :
            A2[n] = A[n] /\ B2[n] = B[n] /\ P2[n] = P[n] /\ w2[n] = w[n]
  PROVE  LowAt(S, A2, B2, P2, w2, h, p, c)
<1>1. p \in S /\ A[p] = c /\ P[c] = p /\ Leveled(S, A, B, w, h, Hole(S, p), Flat(S))
  BY DEF LowAt
<1>2. Leveled(S, A2, B2, w2, h, Hole(S, p), Flat(S))
  BY <1>1, AgreeLeveled
<1> QED  BY <1>1, <1>2 DEF LowAt

LEMMA AgreeLow ==
  ASSUME NEW S, NEW A, NEW B, NEW P, NEW root, NEW w, NEW h, NEW c, NEW A2, NEW B2, NEW P2, NEW w2,
         Low(S, A, B, P, root, w, h, c), root \in S \cup {Sentinel},
         \A n \in S : A[n] \in S \cup {Sentinel} /\ B[n] \in S \cup {Sentinel},
         \A n \in S \cup {Sentinel} :
            A2[n] = A[n] /\ B2[n] = B[n] /\ P2[n] = P[n] /\ w2[n] = w[n]
  PROVE  Low(S, A2, B2, P2, root, w2, h, c)
<1>1. c \in S \cup {Sentinel} /\ Calm(S, A, B, w, {c}, {c})
  BY DEF Low
<1>2. Calm(S, A2, B2, w2, {c}, {c})
  BY <1>1, AgreeCalm
<1>3. CASE c = root /\ Leveled(S, A, B, w, h, Flat(S), Flat(S))
  <2>1. Leveled(S, A2, B2, w2, h, Flat(S), Flat(S))
    BY <1>3, AgreeLeveled
  <2> QED  BY <1>1, <1>2, <1>3, <2>1 DEF Low
<1>4. CASE /\ c # root /\ w[root] = 1
           /\ \E p : LowAt(S, A, B, P, w, h, p, c) \/ LowAt(S, B, A, P, w, h, p, c)
  <2>1. PICK p : LowAt(S, A, B, P, w, h, p, c) \/ LowAt(S, B, A, P, w, h, p, c)
    BY <1>4
  <2>2. LowAt(S, A, B, P, w, h, p, c) => LowAt(S, A2, B2, P2, w2, h, p, c)
    BY <1>1, AgreeLowAt
  <2>3. LowAt(S, B, A, P, w, h, p, c) => LowAt(S, B2, A2, P2, w2, h, p, c)
    BY <1>1, AgreeLowAt
  <2>4. w2[root] = 1
    BY <1>4
  <2> QED  BY <1>1, <1>2, <1>4, <2>1, <2>2, <2>3, <2>4 DEF Low
<1> QED  BY <1>3, <1>4 DEF Low

LEMMA AgreeBase ==
  ASSUME NEW t, NEW r, NEW D, NEW D2, NEW S, NEW sub, NEW pos, Base(t, D, S, sub, pos),
         Agree(t, r, S), IsRb(r, D2), S \cup {Sentinel} \subseteq D2
  PROVE  Base(r, D2, S, sub, pos)
<1>1. /\ Rooted(S, t.left, t.right, t.parent, t.root, sub) /\ Ord(S, t.left, t.right, sub, pos)
  BY DEF Base
<1>2. /\ r.root = t.root
      /\ \A n \in S \cup {Sentinel} :
            r.left[n] = t.left[n] /\ r.right[n] = t.right[n] /\ r.parent[n] = t.parent[n]
  BY DEF Agree
<1>3. Rooted(S, r.left, r.right, r.parent, r.root, sub)
  BY <1>1, <1>2, AgreeRooted
<1>4. Ord(S, r.left, r.right, sub, pos)
  BY <1>1, <1>2, AgreeOrd
<1> QED  BY <1>3, <1>4 DEF Base

LEMMA AgreeGoodT ==
  ASSUME NEW t, NEW r, NEW D, NEW D2, NEW S, NEW sub, NEW pos, NEW h, GoodT(t, D, S, sub, pos, h),
         Agree(t, r, S), IsRb(r, D2), S \cup {Sentinel} \subseteq D2
  PROVE  GoodT(r, D2, S, sub, pos, h)
<1>1. /\ Base(t, D, S, sub, pos)
      /\ Leveled(S, t.left, t.right, WT(t), h, Flat(S), Flat(S))
      /\ Calm(S, t.left, t.right, WT(t), {}, {}) /\ WT(t)[t.root] = 1
  BY DEF GoodT, Good
<1>2. Base(r, D2, S, sub, pos)
  BY <1>1, AgreeBase
<1>3. /\ r.root = t.root
      /\ \A n \in S \cup {Sentinel} :
            r.left[n] = t.left[n] /\ r.right[n] = t.right[n] /\ WT(r)[n] = WT(t)[n]
  BY DEF Agree
<1>4. Rooted(S, t.left, t.right, t.parent, t.root, sub)
  BY <1>1 DEF Base
<1>5. /\ t.root \in S \cup {Sentinel}
      /\ \A n \in S : t.left[n] \in S \cup {Sentinel} /\ t.right[n] \in S \cup {Sentinel}
  BY <1>4 DEF Rooted, Fork
<1>6. Leveled(S, r.left, r.right, WT(r), h, Flat(S), Flat(S))
  BY <1>1, <1>3, AgreeLeveled
<1>7. Calm(S, r.left, r.right, WT(r), {}, {})
  BY <1>1, <1>3, <1>5, AgreeCalm
<1>8. WT(r)[r.root] = 1
  BY <1>1, <1>3, <1>5
<1> QED  BY <1>2, <1>6, <1>7, <1>8 DEF GoodT, Good

LEMMA AgreeLowT ==
  ASSUME NEW t, NEW r, NEW D, NEW D2, NEW S, NEW sub, NEW pos, NEW h, NEW c,
         LowT(t, D, S, sub, pos, h, c),
         Agree(t, r, S), IsRb(r, D2), S \cup {Sentinel} \subseteq D2
  PROVE  LowT(r, D2, S, sub, pos, h, c)
<1>1. /\ Base(t, D, S, sub, pos)
      /\ Low(S, t.left, t.right, t.parent, t.root, WT(t), h, c)
  BY DEF LowT
<1>2. Base(r, D2, S, sub, pos)
  BY <1>1, AgreeBase
<1>3. /\ r.root = t.root
      /\ \A n \in S \cup {Sentinel} :
            /\ r.left[n] = t.left[n] /\ r.right[n] = t.right[n] /\ r.parent[n] = t.parent[n]
            /\ WT(r)[n] = WT(t)[n]
  BY DEF Agree
<1>4. Rooted(S, t.left, t.right, t.parent, t.root, sub)
  BY <1>1 DEF Base
<1>5. /\ t.root \in S \cup {Sentinel}
      /\ \A n \in S : t.left[n] \in S \cup {Sentinel} /\ t.right[n] \in S \cup {Sentinel}
  BY <1>4 DEF Rooted, Fork
<1>6. Low(S, r.left, r.right, r.parent, t.root, WT(r), h, c)
  BY <1>1, <1>3, <1>5, AgreeLow
<1> QED  BY <1>2, <1>3, <1>6 DEF LowT

LEMMA AgreeSorted ==
  ASSUME NEW t, NEW r, NEW S, NEW pos, Sorted(t, S, pos), Agree(t, r, S)
  PROVE  Sorted(r, S, pos)
<1>1. \A a, b \in S : Before(r, a, b) <=> Before(t, a, b)
  BY DEF Agree, Before
<1> QED  BY <1>1 DEF Sorted

\* r has the keys and names of t but for those of x.
SameBut(t, r, D, x) ==
    /\ r.insert = t.insert
    /\ \A n \in D : n # x => r.key[n] = t.key[n] /\ r.name[n] = t.name[n]

LEMMA ClearedAgree ==
  ASSUME NEW t, NEW D, IsRb(t, D), NEW x \in D, NEW r, r = Cleared(t, x),
         NEW S, S \cup {Sentinel} \subseteq D, x \notin S \cup {Sentinel}
  PROVE  IsRb(r, D) /\ Agree(t, r, S) /\ SameBut(t, r, D, x)
<1>1. /\ IsRb(r, D) /\ r.red = t.red /\ r.name = t.name /\ r.root = t.root /\ r.insert = t.insert
      /\ r.left = [t.left EXCEPT ![x] = Null] /\ r.right = [t.right EXCEPT ![x] = Null]
      /\ r.parent = [t.parent EXCEPT ![x] = Null] /\ r.key = [t.key EXCEPT ![x] = 0]
  BY DEF Cleared, IsRb, FunctionOn, Fields
<1>2. DOMAIN t.left = D /\ DOMAIN t.right = D /\ DOMAIN t.parent = D /\ DOMAIN t.key = D
  BY DEF IsRb, FunctionOn
<1>3. WT(r) = WT(t)
  BY <1>1 DEF WT
<1>4. \A n \in D : n # x => /\ r.left[n] = t.left[n] /\ r.right[n] = t.right[n]
                            /\ r.parent[n] = t.parent[n] /\ r.key[n] = t.key[n]
  BY <1>1, <1>2
<1>5. \A n \in S \cup {Sentinel} : n \in D /\ n # x
  OBVIOUS
<1>6. Agree(t, r, S)
  BY <1>1, <1>3, <1>4, <1>5 DEF Agree
<1>7. SameBut(t, r, D, x)
  BY <1>1, <1>4 DEF SameBut
<1> QED  BY <1>1, <1>6, <1>7

LEMMA FreedAgree ==
  ASSUME NEW t, NEW D, IsRb(t, D), NEW x \in D, NEW r, r = WithoutNode(t, x),
         NEW S, S \cup {Sentinel} \subseteq D, x \notin S \cup {Sentinel}
  PROVE  IsRb(r, D \ {x}) /\ Agree(t, r, S) /\ SameBut(t, r, D, x)
<1> DEFINE D2 == D \ {x}
<1>1. /\ DOMAIN t.key = D /\ DOMAIN t.red = D /\ t.red \in [D -> BOOLEAN]
  BY DEF IsRb, FunctionOn
<1>2. r = [t EXCEPT !.left = Restrict(@, D2), !.right = Restrict(@, D2),
                    !.parent = Restrict(@, D2), !.red = Restrict(@, D2),
                    !.key = Restrict(@, D2), !.name = Restrict(@, D2)]
  BY <1>1 DEF WithoutNode
<1>3. /\ FunctionOn(r, Fields) /\ r.root = t.root /\ r.insert = t.insert
      /\ r.left = Restrict(t.left, D2) /\ r.right = Restrict(t.right, D2)
      /\ r.parent = Restrict(t.parent, D2) /\ r.red = Restrict(t.red, D2)
      /\ r.key = Restrict(t.key, D2) /\ r.name = Restrict(t.name, D2)
  <2> HIDE DEF D2
  <2> QED  BY <1>2 DEF IsRb, FunctionOn, Fields
<1>4. \A f : FunctionOn(Restrict(f, D2), D2) /\ \A n \in D2 : Restrict(f, D2)[n] = f[n]
  BY DEF Restrict, FunctionOn
<1>5. r.red \in [D2 -> BOOLEAN]
  BY <1>1, <1>3 DEF Restrict
<1>6. IsRb(r, D2)
  <2> HIDE DEF D2
  <2> QED  BY <1>3, <1>4, <1>5 DEF IsRb
<1>7. \A n \in D2 : /\ r.left[n] = t.left[n] /\ r.right[n] = t.right[n]
                    /\ r.parent[n] = t.parent[n] /\ r.key[n] = t.key[n]
                    /\ r.name[n] = t.name[n] /\ WT(r)[n] = WT(t)[n]
  <2>1. \A n \in D2 : r.red[n] = t.red[n]
    <3> HIDE DEF D2
    <3> QED  BY <1>3, <1>4
  <2>2. \A n \in D2 : WT(r)[n] = WT(t)[n]
    BY <1>1, <1>5, <2>1 DEF WT
  <2> HIDE DEF D2
  <2> QED  BY <1>3, <1>4, <2>2
<1>8. \A n \in S \cup {Sentinel} : n \in D2
  OBVIOUS
<1>9. Agree(t, r, S)
  <2> HIDE DEF D2
  <2> QED  BY <1>3, <1>7, <1>8 DEF Agree
<1>10. SameBut(t, r, D, x)
  BY <1>3, <1>7 DEF SameBut
<1> QED  BY <1>6, <1>9, <1>10

NewOn(f, D, x, v, g) ==
    FunctionOn(g, D \cup {x}) /\ g[x] = v /\ \A n \in D : n # x => g[n] = f[n]

LEMMA AllocatedOn ==
  ASSUME NEW f, NEW D, FunctionOn(f, D), NEW x, NEW v
  PROVE  NewOn(f, D, x, v, Allocated(f, x, v))
<1>1. DOMAIN f = D
  BY DEF FunctionOn
<1> QED  BY <1>1 DEF Allocated, FunctionOn, NewOn

\* The allocation of x makes r of t.
IsNew(t, D, x, key, name, r, S) ==
    IsRb(t, D) /\ x \notin D /\ r = WithNode(t, x, key, name) /\ S \cup {Sentinel} \subseteq D

NewData(t, D, x, key, name, r) ==
    /\ r.key[x] = key /\ r.name[x] = name /\ r.insert = t.insert
    /\ \A n \in D : r.key[n] = t.key[n] /\ r.name[n] = t.name[n]

LEMMA NewAgree ==
  ASSUME NEW t, NEW D, NEW x, NEW key, NEW name, NEW r, NEW S, IsNew(t, D, x, key, name, r, S)
  PROVE  IsRb(r, D \cup {x}) /\ Agree(t, r, S) /\ NewData(t, D, x, key, name, r)
<1> DEFINE D2 == D \cup {x}
<1>1. IsRb(t, D) /\ x \notin D /\ r = WithNode(t, x, key, name) /\ S \cup {Sentinel} \subseteq D
  BY DEF IsNew
<1>2. /\ FunctionOn(t.left, D) /\ FunctionOn(t.right, D) /\ FunctionOn(t.parent, D)
      /\ FunctionOn(t.key, D) /\ FunctionOn(t.name, D)
      /\ t.red \in [D -> BOOLEAN]
  BY <1>1 DEF IsRb
<1>3. /\ FunctionOn(r, Fields) /\ r.root = t.root /\ r.insert = t.insert
      /\ r.left = Allocated(t.left, x, Null) /\ r.right = Allocated(t.right, x, Null)
      /\ r.parent = Allocated(t.parent, x, Null) /\ r.red = Allocated(t.red, x, FALSE)
      /\ r.key = Allocated(t.key, x, key) /\ r.name = Allocated(t.name, x, name)
  BY <1>1 DEF WithNode, IsRb, FunctionOn, Fields
<1>4. \A n \in D : n # x
  BY <1>1
<1>15. /\ NewOn(t.left, D, x, Null, r.left) /\ NewOn(t.right, D, x, Null, r.right)
       /\ NewOn(t.parent, D, x, Null, r.parent)
       /\ NewOn(t.key, D, x, key, r.key) /\ NewOn(t.name, D, x, name, r.name)
  BY <1>2, <1>3, AllocatedOn
<1> HIDE DEF D2
<1>5. FunctionOn(r.left, D2) /\ \A n \in D : r.left[n] = t.left[n]
  BY <1>4, <1>15 DEF NewOn, D2
<1>6. FunctionOn(r.right, D2) /\ \A n \in D : r.right[n] = t.right[n]
  BY <1>4, <1>15 DEF NewOn, D2
<1>7. FunctionOn(r.parent, D2) /\ \A n \in D : r.parent[n] = t.parent[n]
  BY <1>4, <1>15 DEF NewOn, D2
<1>8. FunctionOn(r.key, D2) /\ r.key[x] = key /\ \A n \in D : r.key[n] = t.key[n]
  BY <1>4, <1>15 DEF NewOn, D2
<1>9. FunctionOn(r.name, D2) /\ r.name[x] = name /\ \A n \in D : r.name[n] = t.name[n]
  BY <1>4, <1>15 DEF NewOn, D2
<1>10. r.red \in [D2 -> BOOLEAN] /\ \A n \in D : r.red[n] = t.red[n]
  <2>1. DOMAIN t.red = D
    BY <1>2
  <2>2. r.red = [n \in D2 |-> IF n = x THEN FALSE ELSE t.red[n]]
    BY <1>3, <2>1 DEF Allocated, D2
  <2>3. \A n \in D : n \in D2 /\ n # x
    BY <1>4 DEF D2
  <2>4. \A n \in D2 : n # x => n \in D
    BY DEF D2
  <2> QED  BY <1>2, <2>2, <2>3, <2>4
<1>11. IsRb(r, D2)
  <2> QED  BY <1>3, <1>5, <1>6, <1>7, <1>8, <1>9, <1>10 DEF IsRb
<1>12. \A n \in D : WT(r)[n] = WT(t)[n]
  BY <1>2, <1>10 DEF WT, D2
<1>13. \A n \in S \cup {Sentinel} : n \in D
  BY <1>1
<1>14. Agree(t, r, S)
  <2> QED  BY <1>3, <1>5, <1>6, <1>7, <1>8, <1>9, <1>12, <1>13 DEF Agree
<1> QED  BY <1>3, <1>8, <1>9, <1>11, <1>14 DEF D2, NewData

-----------------------------------------------------------------------------
(* mps_rbtree_delete *)

Rerooted(t, c) == [t EXCEPT !.root = c]

Below(S1, sub) == [n \in S1 \cup {Sentinel} |-> sub[n]]

\* The only child of the root becomes the root.
LEMMA RerootedRooted ==
  ASSUME NEW S, NEW A, NEW B, NEW P, NEW root, NEW sub, Rooted(S, A, B, P, root, sub),
         root \in S, NEW c, Lone(A, B, root, c)
  PROVE  /\ Rooted(S \ {root}, A, B, P, c, Below(S \ {root}, sub))
         /\ c \in (S \ {root}) \cup {Sentinel}
         /\ \A n \in S \ {root} : A[n] # root /\ B[n] # root
<1> DEFINE S1 == S \ {root}
           sub1 == Below(S1, sub)
<1>1. /\ IsFiniteSet(S) /\ Sentinel \notin S /\ sub[Sentinel] = {} /\ sub[root] = S
      /\ sub \in [S \cup {Sentinel} -> SUBSET S]
      /\ \A n \in S : Fork(S, A, B, P, sub, n)
  BY DEF Rooted
<1>2. Fork(S, A, B, P, sub, root)
  BY <1>1
<1>3. c \in S \cup {Sentinel} /\ sub[c] = S1
  BY <1>1, <1>2 DEF Fork, Lone
<1>4. c # root
  BY <1>1, <1>2 DEF Fork, Lone
<1>5. \A n \in S : A[n] # root /\ B[n] # root
  <2> TAKE n \in S
  <2>1. (A[n] = root => A[n] = Sentinel) /\ (B[n] = root => B[n] = Sentinel)
    BY Children
  <2> QED  BY <1>1, <2>1
<1>6. \A n \in S1 : sub[n] \subseteq S1
  <2>1. CASE c = Sentinel
    BY <1>1, <1>3, <2>1
  <2>2. CASE c # Sentinel
    <3>1. c \in S
      BY <1>3, <2>2
    <3>2. \A n \in sub[c] : n \in S /\ sub[n] \subseteq sub[c]
      BY <3>1, SubTrans
    <3> QED  BY <1>3, <3>2
  <2> QED  BY <2>1, <2>2
<1>7. sub1 \in [S1 \cup {Sentinel} -> SUBSET S1] /\ \A n \in S1 \cup {Sentinel} : sub1[n] = sub[n]
  BY <1>1, <1>6 DEF Below
<1>8. IsFiniteSet(S1)
  BY <1>1, FS_Subset
<1>9. \A n \in S1 : Fork(S1, A, B, P, sub1, n)
  <2> TAKE n \in S1
  <2>1. Fork(S, A, B, P, sub, n)
    BY <1>1
  <2>2. A[n] \in S1 \cup {Sentinel} /\ B[n] \in S1 \cup {Sentinel}
    BY <1>5, <2>1 DEF Fork
  <2>3. sub1[A[n]] = sub[A[n]] /\ sub1[B[n]] = sub[B[n]] /\ sub1[n] = sub[n]
    BY <1>7, <2>2
  <2> HIDE DEF S1, sub1
  <2> QED  BY <2>1, <2>2, <2>3 DEF Fork
<1>10. Rooted(S1, A, B, P, c, sub1)
  <2>1. c \in S1 \cup {Sentinel} /\ Sentinel \notin S1
    BY <1>1, <1>3, <1>4
  <2>2. sub1[Sentinel] = {} /\ sub1[c] = S1
    BY <1>1, <1>3, <1>7, <2>1
  <2> HIDE DEF S1, sub1
  <2> QED  BY <1>7, <1>8, <1>9, <2>1, <2>2 DEF Rooted
<1> QED  BY <1>3, <1>4, <1>5, <1>10

LEMMA RerootedGood ==
  ASSUME NEW S, NEW A, NEW B, NEW P, NEW root, NEW sub, Rooted(S, A, B, P, root, sub),
         root \in S, NEW c, Lone(A, B, root, c), NEW w, NEW h, Good(S, A, B, root, w, h),
         NEW w2, Blackens(S \ {root}, w, w2, c)
  PROVE  \E h2 : Good(S \ {root}, A, B, c, w2, h2)
<1> DEFINE S1 == S \ {root}
           h1 == [n \in S1 \cup {Sentinel} |-> h[n]]
<1>1. /\ Rooted(S1, A, B, P, c, Below(S1, sub)) /\ c \in S1 \cup {Sentinel}
      /\ \A n \in S1 : A[n] # root /\ B[n] # root
  BY RerootedRooted
<1>2. /\ Leveled(S, A, B, w, h, Flat(S), Flat(S)) /\ Calm(S, A, B, w, {}, {})
  BY DEF Good
<1>3. \A n \in S1 : A[n] \in S1 \cup {Sentinel} /\ B[n] \in S1 \cup {Sentinel}
  BY <1>1 DEF Rooted, Fork
<1>4. Leveled(S1, A, B, w, h1, Flat(S1), Flat(S1))
  <2>1. Weights(S1, w, h1)
    BY <1>2 DEF Leveled, Weights
  <2>2. \A n \in S1 : LevelAt(A, B, w, h1, Flat(S1), Flat(S1), n)
    <3> TAKE n \in S1
    <3>1. LevelAt(A, B, w, h, Flat(S), Flat(S), n)
      BY <1>2 DEF Leveled
    <3>2. h1[A[n]] = h[A[n]] /\ h1[B[n]] = h[B[n]] /\ h1[n] = h[n]
      BY <1>3
    <3>3. Flat(S)[n] = Flat(S1)[n]
      BY DEF Flat
    <3> HIDE DEF S1, h1
    <3> QED  BY <3>1, <3>2, <3>3 DEF LevelAt
  <2>3. Flat(S1) \in [S1 -> {0, 1}]
    BY DEF Flat
  <2> HIDE DEF S1, h1
  <2> QED  BY <2>1, <2>2, <2>3 DEF Leveled
<1>5. Calm(S1, A, B, w, {c}, {c})
  BY <1>2 DEF Calm
<1>6. w2[c] = 1 /\ \A n \in S1 \cup {Sentinel} : n # c => w2[n] = w[n]
  BY DEF Blackens
<1> HIDE DEF S1, h1
<1>7. \E h2 : Good(S1, A, B, c, w2, h2)
  BY <1>1, <1>4, <1>5, <1>6, BlackRoot
<1> QED  BY <1>7 DEF S1

LEMMA RootLeft ==
  ASSUME NEW t, NEW D, NEW S, NEW sub, NEW pos, NEW h, GoodT(t, D, S, sub, pos, h),
         NEW x \in S, x = t.root, NEW c, Lone(t.left, t.right, x, c),
         NEW r, r = Blackened(Rerooted(t, c), c)
  PROVE  (\E sub2, h2 : GoodT(r, D, S \ {x}, sub2, pos, h2)) /\ SameData(t, r)
<1> DEFINE S1 == S \ {x}
           u == Rerooted(t, c)
           sub1 == Below(S1, sub)
<1>1. /\ Base(t, D, S, sub, pos) /\ IsRb(t, D) /\ S \cup {Sentinel} \subseteq D
      /\ Rooted(S, t.left, t.right, t.parent, t.root, sub) /\ Ord(S, t.left, t.right, sub, pos)
      /\ Good(S, t.left, t.right, t.root, WT(t), h)
  BY DEF GoodT, Base
<1>2. /\ Rooted(S1, t.left, t.right, t.parent, c, sub1) /\ c \in S1 \cup {Sentinel}
  BY <1>1, RerootedRooted
<1>3. /\ IsRb(u, D) /\ SameData(t, u) /\ u.left = t.left /\ u.right = t.right
      /\ u.parent = t.parent /\ u.red = t.red /\ u.root = c
  BY <1>1 DEF Rerooted, IsRb, FunctionOn, Fields, SameData
<1>4. WT(u) = WT(t)
  BY <1>3 DEF WT
<1>5. Ord(S1, t.left, t.right, sub1, pos)
  <2>1. \A n \in S1 : t.left[n] \in S1 \cup {Sentinel} /\ t.right[n] \in S1 \cup {Sentinel}
    BY <1>2 DEF Rooted, Fork
  <2>2. \A n \in S1 : sub1[t.left[n]] = sub[t.left[n]] /\ sub1[t.right[n]] = sub[t.right[n]]
    BY <2>1 DEF Below
  <2>3. S1 \in SUBSET S
    OBVIOUS
  <2> HIDE DEF S1, sub1
  <2> QED  BY <1>1, <2>2, <2>3, OrdShrink
<1>6. S1 \cup {Sentinel} \subseteq D
  BY <1>1
<1>7. Base(u, D, S1, sub1, pos)
  <2> HIDE DEF S1, sub1, u
  <2> QED  BY <1>2, <1>3, <1>5, <1>6 DEF Base
<1>8. /\ Base(r, D, S1, sub1, pos) /\ SameData(u, r)
      /\ r.left = u.left /\ r.right = u.right /\ r.root = u.root
      /\ WT(r)[c] = 1 /\ \A n \in S1 \cup {Sentinel} : n # c => WT(r)[n] = WT(u)[n]
  <2> HIDE DEF S1, sub1
  <2> QED  BY <1>2, <1>7, BlackenedBase
<1>9. Blackens(S1, WT(t), WT(r), c)
  <2> HIDE DEF S1, sub1, u
  <2> QED  BY <1>4, <1>8 DEF Blackens
<1>10. \E h2 : Good(S1, t.left, t.right, c, WT(r), h2)
  BY <1>1, <1>9, RerootedGood
<1>11. r.left = t.left /\ r.right = t.right /\ r.root = c
  BY <1>3, <1>8
<1>12. \E h2 : GoodT(r, D, S1, sub1, pos, h2)
  <2> HIDE DEF S1, sub1
  <2> QED  BY <1>8, <1>10, <1>11 DEF GoodT
<1>13. SameData(t, r)
  BY <1>3, <1>8 DEF SameData
<1> QED  BY <1>12, <1>13

\* The node that the code unlinks in place of x, and its only child.
LEMMA SubstFound ==
  ASSUME NEW t, NEW D, NEW S, NEW sub, NEW pos, Base(t, D, S, sub, pos), IsFiniteSet(D),
         NEW x \in S,
         NEW z, z = IF Sentinel \in {t.left[x], t.right[x]} THEN x ELSE RbMin(t, t.right[x]),
         NEW c, c = IF t.left[z] = Sentinel THEN t.right[z] ELSE t.left[z]
  PROVE  /\ z \in S /\ Lone(t.left, t.right, z, c)
         /\ z = x \/ NextBelow(t, S, sub, pos, x, z)
<1>1. CASE Sentinel \in {t.left[x], t.right[x]}
  <2>1. z = x
    BY <1>1
  <2>2. Lone(t.left, t.right, z, c)
    BY <1>1, <2>1 DEF Lone
  <2> QED  BY <2>1, <2>2
<1>2. CASE Sentinel \notin {t.left[x], t.right[x]}
  <2>1. z = RbMin(t, t.right[x])
    BY <1>2
  <2>2. Rooted(S, t.left, t.right, t.parent, t.root, sub)
    BY DEF Base
  <2>3. Fork(S, t.left, t.right, t.parent, sub, x)
    BY <2>2 DEF Rooted
  <2>4. t.right[x] \in S
    BY <1>2, <2>3 DEF Fork
  <2>5. /\ z \in sub[t.right[x]] /\ z \in S /\ t.left[z] = Sentinel
        /\ \A m \in sub[t.right[x]] : m = z \/ pos[z] < pos[m]
    BY <2>1, <2>4, MinLeast
  <2> QED  BY <2>5 DEF NextBelow, Lone
<1> QED  BY <1>1, <1>2

LEMMA SubstituteLeft ==
  ASSUME NEW t, NEW D, NEW S, NEW sub, NEW pos, NEW h, GoodT(t, D, S, sub, pos, h),
         NEW x \in S, NEW z \in S, z # t.root, z = x \/ NextBelow(t, S, sub, pos, x, z),
         NEW c, Lone(t.left, t.right, z, c), NEW r, r = Substitute(t, x, z, c)
  PROVE  Left(t, r, D, S \ {x}, pos, z, c)
<1>1. CASE z = x
  <2> DEFINE up == t.parent[z]
             side == SideOf(t, up, z)
  <2>1. r = CutTo(t, side, up, c, up)
    BY <1>1, SubstituteSteps
  <2> HIDE DEF side, up
  <2>2. PICK sub1, h1 : CutTree(t, r, D, S, sub, pos, z, up, c, sub1, h1)
    BY <2>1, CutGood DEF side, up
  <2> QED  BY <1>1, <2>2 DEF CutTree, Left
<1>2. CASE NextBelow(t, S, sub, pos, x, z)
  BY <1>2, MovedLeft
<1> QED  BY <1>1, <1>2

\* mps_rbtree_delete makes a red-black search tree without x of one with it.
LEMMA DeleteGood ==
  ASSUME NEW t, NEW D, NEW S, NEW sub, NEW pos, NEW h, GoodT(t, D, S, sub, pos, h),
         IsFiniteSet(D), NEW x \in S, NEW r, r = RbDelete(t, x)
  PROVE  (\E sub2, h2 : GoodT(r, D, S \ {x}, sub2, pos, h2)) /\ SameBut(t, r, D, x)
<1> DEFINE z == IF Sentinel \in {t.left[x], t.right[x]} THEN x ELSE RbMin(t, t.right[x])
           c == IF t.left[z] = Sentinel THEN t.right[z] ELSE t.left[z]
           v == Substitute(t, x, z, c)
           s == Cleared(v, x)
           S1 == S \ {x}
<1>1. Base(t, D, S, sub, pos) /\ S \cup {Sentinel} \subseteq D /\ Sentinel \notin S
  BY DEF GoodT, Base, Rooted
<1>2. /\ z \in S /\ Lone(t.left, t.right, z, c)
      /\ z = x \/ NextBelow(t, S, sub, pos, x, z)
  <2> HIDE DEF z, c
  <2> QED  BY <1>1, SubstFound DEF z, c
<1>3. r = IF z = t.root THEN Cleared(Blackened(Rerooted(t, c), c), x)
          ELSE IF t.red[z] THEN s ELSE Fixup(s, c)
  BY DEF RbDelete, Rerooted
<1>4. x \in D /\ S1 \cup {Sentinel} \subseteq D /\ x \notin S1 \cup {Sentinel}
  BY <1>1
<1> HIDE DEF z, c, S1
<1>5. CASE z = t.root
  <2> DEFINE u == Blackened(Rerooted(t, c), c)
  <2>1. z = x
    BY <1>1, <1>2, <1>5, NextBelowFacts
  <2>2. (\E sub2, h2 : GoodT(u, D, S1, sub2, pos, h2)) /\ SameData(t, u)
    <3> HIDE DEF u
    <3>1. x = t.root /\ Lone(t.left, t.right, x, c)
      BY <1>2, <1>5, <2>1
    <3>2. (\E sub2, h2 : GoodT(u, D, S \ {x}, sub2, pos, h2)) /\ SameData(t, u)
      BY <3>1, RootLeft DEF u
    <3> QED  BY <3>2 DEF S1
  <2>3. PICK sub2, h2 : GoodT(u, D, S1, sub2, pos, h2)
    BY <2>2
  <2>4. r = Cleared(u, x)
    BY <1>3, <1>5
  <2> HIDE DEF u
  <2>5. IsRb(u, D)
    BY <2>3 DEF GoodT, Base
  <2>6. IsRb(r, D) /\ Agree(u, r, S1) /\ SameBut(u, r, D, x)
    BY <1>4, <2>4, <2>5, ClearedAgree
  <2>7. GoodT(r, D, S1, sub2, pos, h2)
    BY <1>4, <2>3, <2>6, AgreeGoodT
  <2>8. SameBut(t, r, D, x)
    BY <2>2, <2>6 DEF SameBut, SameData
  <2> QED  BY <2>7, <2>8 DEF S1
<1>6. CASE z # t.root
  <2> HIDE DEF v
  <2>1. Left(t, v, D, S1, pos, z, c)
    BY <1>2, <1>6, SubstituteLeft DEF v, S1
  <2>2. SameData(t, v)
    BY <2>1 DEF Left
  <2> HIDE DEF s
  <2>3. CASE t.red[z]
    <3>1. PICK sub2, h2 : GoodT(v, D, S1, sub2, pos, h2)
      BY <2>1, <2>3 DEF Left
    <3>2. r = Cleared(v, x)
      BY <1>3, <1>6, <2>3 DEF s
    <3>3. IsRb(v, D)
      BY <3>1 DEF GoodT, Base
    <3>4. IsRb(r, D) /\ Agree(v, r, S1) /\ SameBut(v, r, D, x)
      BY <1>4, <3>2, <3>3, ClearedAgree
    <3>5. GoodT(r, D, S1, sub2, pos, h2)
      BY <1>4, <3>1, <3>4, AgreeGoodT
    <3>6. SameBut(t, r, D, x)
      BY <2>2, <3>4 DEF SameBut, SameData
    <3> QED  BY <3>5, <3>6 DEF S1
  <2>4. CASE ~t.red[z]
    <3>1. PICK sub2, h2 : LowT(v, D, S1, sub2, pos, h2, c)
      BY <2>1, <2>4 DEF Left
    <3>2. r = Fixup(s, c) /\ s = Cleared(v, x)
      BY <1>3, <1>6, <2>4 DEF s
    <3>3. IsRb(v, D)
      BY <3>1 DEF LowT, Base
    <3>4. IsRb(s, D) /\ Agree(v, s, S1) /\ SameBut(v, s, D, x)
      BY <1>4, <3>2, <3>3, ClearedAgree
    <3>5. LowT(s, D, S1, sub2, pos, h2, c)
      BY <1>4, <3>1, <3>4, AgreeLowT
    <3>6. (\E sub3, h3 : GoodT(r, D, S1, sub3, pos, h3)) /\ SameData(s, r)
      BY <3>2, <3>5, FixupGood
    <3>7. SameBut(t, r, D, x)
      BY <2>2, <3>4, <3>6 DEF SameBut, SameData
    <3> QED  BY <3>6, <3>7 DEF S1
  <2> QED  BY <2>3, <2>4
<1> QED  BY <1>5, <1>6

\* After that the caller frees x.
LEMMA DeleteTree ==
  ASSUME NEW t, NEW D, NEW S, NEW sub, NEW pos, NEW h, SortedTree(t, D, S, sub, pos, h),
         IsFiniteSet(D), NEW x \in S, NEW r, r = WithoutNode(RbDelete(t, x), x)
  PROVE  /\ \E sub2, h2 : SortedTree(r, D \ {x}, S \ {x}, sub2, pos, h2)
         /\ SameBut(t, r, D, x)
<1> DEFINE u == RbDelete(t, x)
           S1 == S \ {x}
           D1 == D \ {x}
<1>1. GoodT(t, D, S, sub, pos, h) /\ Sorted(t, S, pos)
  BY DEF SortedTree
<1>2. (\E sub2, h2 : GoodT(u, D, S1, sub2, pos, h2)) /\ SameBut(t, u, D, x)
  <2> HIDE DEF u
  <2> QED  BY <1>1, DeleteGood DEF u
<1>3. S \cup {Sentinel} \subseteq D /\ Sentinel \notin S
  BY <1>1 DEF GoodT, Base, Rooted
<1>4. x \in D /\ S1 \cup {Sentinel} \subseteq D1 /\ S1 \cup {Sentinel} \subseteq D
      /\ x \notin S1 \cup {Sentinel}
  BY <1>3
<1>5. PICK sub2, h2 : GoodT(u, D, S1, sub2, pos, h2)
  BY <1>2
<1>6. IsRb(u, D)
  BY <1>5 DEF GoodT, Base
<1> HIDE DEF u, S1
<1>7. IsRb(r, D1) /\ Agree(u, r, S1) /\ SameBut(u, r, D, x)
  BY <1>4, <1>6, FreedAgree DEF u
<1> HIDE DEF D1
<1>8. GoodT(r, D1, S1, sub2, pos, h2)
  BY <1>4, <1>5, <1>7, AgreeGoodT
<1>9. SameBut(t, r, D, x)
  BY <1>2, <1>7 DEF SameBut
<1>10. Sorted(r, S1, pos)
  <2>1. \A n \in S1 : n \in D /\ n \in S /\ n # x
    BY <1>3 DEF S1
  <2>2. \A a, b \in S1 : Before(r, a, b) <=> Before(t, a, b)
    BY <1>9, <2>1 DEF SameBut, Before
  <2> QED  BY <1>1, <2>1, <2>2 DEF Sorted
<1> QED  BY <1>8, <1>9, <1>10 DEF SortedTree, S1, D1


-----------------------------------------------------------------------------
(* The way from node to node *)

\* The nodes below a are on one side of every other node.
LEMMA OneSide ==
  ASSUME NEW t, NEW D, NEW S, NEW sub, NEW pos, Base(t, D, S, sub, pos),
         NEW a \in S, NEW m \in S, m \notin sub[a],
         NEW y \in sub[a], NEW z \in sub[a], pos[y] < pos[m]
  PROVE  pos[z] < pos[m]
<1> DEFINE L == t.left
           R == t.right
<1>1. /\ Rooted(S, L, R, t.parent, t.root, sub) /\ Ord(S, L, R, sub, pos)
  BY DEF Base
<1>2. /\ Sentinel \notin S /\ sub[t.root] = S /\ sub[Sentinel] = {} /\ t.root \in S \cup {Sentinel}
      /\ \A n \in S : Fork(S, L, R, t.parent, sub, n)
  BY <1>1 DEF Rooted
<1> DEFINE T == {b \in S : a \in sub[b] /\ m \in sub[b]}
<1>3. t.root \in T
  BY <1>2
<1>4. PICK b \in T : L[b] \notin T /\ R[b] \notin T
  <2> HIDE DEF L, R
  <2>1. T \in SUBSET S /\ T # {}
    BY <1>3
  <2> HIDE DEF T
  <2> QED  BY <1>1, <2>1, Lowest
<1>5. b \in S /\ a \in sub[b] /\ m \in sub[b]
  BY <1>4
<1>6. Fork(S, L, R, t.parent, sub, b)
  BY <1>2, <1>5
<1>7. /\ sub[b] = {b} \cup sub[L[b]] \cup sub[R[b]]
      /\ L[b] \in S \cup {Sentinel} /\ R[b] \in S \cup {Sentinel}
  BY <1>6 DEF Fork
<1>8. y \in S /\ z \in S
  BY <1>1, SubTrans
<1>9. /\ \A n \in S : pos[n] \in Int
      /\ \A n \in sub[L[b]] : pos[n] < pos[b]
      /\ \A n \in sub[R[b]] : pos[b] < pos[n]
  BY <1>1, <1>5 DEF Ord
<1>10. a # b
  BY <1>5
<1>11. CASE a \in sub[L[b]]
  <2>1. L[b] \in S
    BY <1>2, <1>7, <1>11
  <2>2. m \notin sub[L[b]]
    BY <1>4, <1>11, <2>1
  <2>3. sub[a] \subseteq sub[L[b]]
    BY <1>1, <1>11, <2>1, SubTrans
  <2>4. m = b \/ m \in sub[R[b]]
    BY <1>5, <1>7, <2>2
  <2>5. pos[z] < pos[b] /\ (m = b \/ pos[b] < pos[m])
    BY <1>9, <2>3, <2>4
  <2> HIDE DEF L, R, T
  <2> QED  BY <1>5, <1>8, <1>9, <2>5
<1>12. CASE a \in sub[R[b]]
  <2>1. R[b] \in S
    BY <1>2, <1>7, <1>12
  <2>2. m \notin sub[R[b]]
    BY <1>4, <1>12, <2>1
  <2>3. sub[a] \subseteq sub[R[b]]
    BY <1>1, <1>12, <2>1, SubTrans
  <2>4. m = b \/ m \in sub[L[b]]
    BY <1>5, <1>7, <2>2
  <2>5. pos[b] < pos[y] /\ (m = b \/ pos[m] < pos[b])
    BY <1>9, <2>3, <2>4
  <2> HIDE DEF L, R, T
  <2> QED  BY <1>5, <1>8, <1>9, <2>5
<1> QED  BY <1>5, <1>7, <1>10, <1>11, <1>12

\* y is the node after x, if there is one.
Follows(S, pos, x, y) ==
    \/ y = Null /\ \A m \in S : pos[m] <= pos[x]
    \/ y \in S /\ pos[x] < pos[y] /\ \A m \in S : pos[m] <= pos[x] \/ pos[y] <= pos[m]

Up(t, y) == IF y = t.root \/ y = t.left[t.parent[y]] THEN y ELSE t.parent[y]

AtTop(t, y) == y = t.root \/ y = t.left[t.parent[y]]

UpRun(t, x, n, f) == f = [i \in 0 .. n |-> IF i = 0 THEN x ELSE Up(t, f[i - 1])]

LEMMA UpRuns ==
  ASSUME NEW t, NEW x, NEW n \in Nat, n = Rounds(t)
  PROVE  \E f : UpRun(t, x, n, f) /\ Climb(t, x) = IF f[n] = t.root THEN Null ELSE t.parent[f[n]]
<1> DEFINE T == {k \in 0 .. n : \E f : UpRun(t, x, k, f)}
<1>1. 0 \in T
  <2>1. UpRun(t, x, 0, [i \in 0 .. 0 |-> x])
    BY DEF UpRun
  <2> QED  BY <2>1
<1>2. ASSUME NEW k \in 0 .. n - 1, k \in T
      PROVE  k + 1 \in T
  <2>1. PICK f : UpRun(t, x, k, f)
    BY <1>2
  <2> DEFINE g == [i \in 0 .. k + 1 |-> IF i = 0 THEN x ELSE Up(t, f[i - 1])]
  <2>2. \A i \in 0 .. k : g[i] = f[i]
    BY <2>1 DEF UpRun
  <2>3. /\ g = [i \in 0 .. k + 1 |-> g[i]]
        /\ \A i \in 0 .. k + 1 : g[i] = IF i = 0 THEN x ELSE Up(t, f[i - 1])
    OBVIOUS
  <2> HIDE DEF g
  <2>4. ASSUME NEW i \in 0 .. k + 1
        PROVE  g[i] = IF i = 0 THEN x ELSE Up(t, g[i - 1])
    <3>1. CASE i = 0
      BY <2>3, <3>1
    <3>2. CASE i # 0
      <4>1. i - 1 \in 0 .. k
        BY <3>2
      <4>2. g[i - 1] = f[i - 1]
        BY <2>2, <4>1
      <4> QED  BY <2>3, <3>2, <4>2
    <3> QED  BY <3>1, <3>2
  <2>5. UpRun(t, x, k + 1, g)
    BY <2>3, <2>4 DEF UpRun
  <2> QED  BY <2>5
<1>3. n \in T
  <2> HIDE DEF T
  <2> QED  BY <1>1, <1>2, ByRounds
<1> DEFINE c == CHOOSE f : f = [i \in 0 .. n |-> IF i = 0 THEN x ELSE Up(t, f[i - 1])]
<1>4. UpRun(t, x, n, c)
  BY <1>3 DEF UpRun
<1>5. Climb(t, x) = IF c[n] = t.root THEN Null ELSE t.parent[c[n]]
  BY DEF Climb, Loop, Up
<1> QED  BY <1>4, <1>5

\* x is the last of the nodes below y.
LastBelow(t, S, sub, pos, x, y) ==
    y \in S /\ x \in sub[y] /\ \A m \in sub[y] : pos[m] <= pos[x]

LEMMA UpStep ==
  ASSUME NEW t, NEW D, NEW S, NEW sub, NEW pos, Base(t, D, S, sub, pos), NEW x \in S,
         NEW y, LastBelow(t, S, sub, pos, x, y), ~AtTop(t, y), NEW z, z = Up(t, y)
  PROVE  LastBelow(t, S, sub, pos, x, z) /\ Cardinality(sub[y]) < Cardinality(sub[z])
<1>1. /\ Rooted(S, t.left, t.right, t.parent, t.root, sub) /\ Ord(S, t.left, t.right, sub, pos)
  BY DEF Base
<1>2. y \in S /\ x \in sub[y] /\ (\A m \in sub[y] : pos[m] <= pos[x])
  BY DEF LastBelow
<1>3. y # t.root /\ y # t.left[t.parent[y]] /\ z = t.parent[y]
  BY DEF AtTop, Up
<1>4. z \in S /\ t.right[z] = y
  BY <1>1, <1>2, <1>3, HasParent
<1>5. Fork(S, t.left, t.right, t.parent, sub, z)
  BY <1>1, <1>4 DEF Rooted
<1>6. sub[z] = {z} \cup sub[t.left[z]] \cup sub[y]
  BY <1>4, <1>5 DEF Fork
<1>7. /\ \A n \in S : pos[n] \in Int
      /\ \A n \in sub[t.left[z]] : pos[n] < pos[z]
      /\ \A n \in sub[y] : pos[z] < pos[n]
  BY <1>1, <1>4 DEF Ord
<1>8. \A m \in sub[z] : m \in S
  BY <1>1, <1>4, SubTrans
<1>9. \A m \in sub[z] : pos[m] <= pos[x]
  BY <1>2, <1>4, <1>6, <1>7, <1>8
<1>10. Cardinality(sub[y]) < Cardinality(sub[z])
  BY <1>1, <1>4, CardSub
<1> QED  BY <1>2, <1>4, <1>6, <1>9, <1>10 DEF LastBelow

LEMMA ClimbTop ==
  ASSUME NEW t, NEW D, NEW S, NEW sub, NEW pos, Base(t, D, S, sub, pos), IsFiniteSet(D),
         NEW x \in S, t.right[x] = Sentinel
  PROVE  \E y : /\ LastBelow(t, S, sub, pos, x, y) /\ AtTop(t, y)
                /\ Climb(t, x) = IF y = t.root THEN Null ELSE t.parent[y]
<1> DEFINE n == Rounds(t)
<1>1. /\ n \in Nat
      /\ \A z \in S : /\ Cardinality(sub[z]) \in Nat /\ 1 <= Cardinality(sub[z])
                      /\ Cardinality(sub[z]) < n
  BY RoundsEnough
<1>2. n = Rounds(t)
  OBVIOUS
<1> HIDE DEF n
<1>3. PICK f : UpRun(t, x, n, f)
               /\ Climb(t, x) = IF f[n] = t.root THEN Null ELSE t.parent[f[n]]
  BY <1>1, <1>2, UpRuns
<1> DEFINE J(y, i) == /\ LastBelow(t, S, sub, pos, x, y)
                      /\ AtTop(t, y) \/ i < Cardinality(sub[y])
           T == {i \in 0 .. n : J(f[i], i)}
<1>4. 0 \in T
  <2>1. f[0] = x
    BY <1>1, <1>3 DEF UpRun
  <2>2. Rooted(S, t.left, t.right, t.parent, t.root, sub) /\ Ord(S, t.left, t.right, sub, pos)
    BY DEF Base
  <2>3. Fork(S, t.left, t.right, t.parent, sub, x) /\ sub[Sentinel] = {}
    BY <2>2 DEF Rooted
  <2>4. sub[x] = {x} \cup sub[t.left[x]]
    BY <2>3 DEF Fork
  <2>5. pos[x] \in Int /\ \A m \in sub[t.left[x]] : pos[m] < pos[x]
    BY <2>2 DEF Ord
  <2>6. \A m \in sub[x] : m \in S /\ pos[m] \in Int
    BY <2>2, SubTrans DEF Ord
  <2>7. LastBelow(t, S, sub, pos, x, x)
    BY <2>4, <2>5, <2>6 DEF LastBelow
  <2>8. 0 < Cardinality(sub[x])
    BY <1>1
  <2> QED  BY <1>1, <2>1, <2>7, <2>8
<1>5. ASSUME NEW i \in 0 .. n - 1, i \in T
      PROVE  i + 1 \in T
  <2> DEFINE y == f[i]
             z == f[i + 1]
  <2>1. z = Up(t, y)
    BY <1>1, <1>3 DEF UpRun
  <2>2. J(y, i)
    BY <1>5
  <2>3. i \in Nat /\ i + 1 \in 0 .. n
    BY <1>1
  <2> SUFFICES J(z, i + 1)
    BY <2>3
  <2> HIDE DEF y, z
  <2>4. CASE AtTop(t, y)
    <3>1. z = y
      BY <2>1, <2>4 DEF AtTop, Up
    <3> QED  BY <2>2, <2>4, <3>1
  <2>5. CASE ~AtTop(t, y)
    <3>1. LastBelow(t, S, sub, pos, x, z) /\ Cardinality(sub[y]) < Cardinality(sub[z])
      BY <2>1, <2>2, <2>5, UpStep
    <3>2. y \in S /\ z \in S
      BY <2>2, <3>1 DEF LastBelow
    <3>3. Cardinality(sub[y]) \in Nat /\ Cardinality(sub[z]) \in Nat
      BY <1>1, <3>2
    <3>4. i + 1 < Cardinality(sub[z])
      BY <2>2, <2>3, <2>5, <3>1, <3>3
    <3> QED  BY <3>1, <3>4
  <2> QED  BY <2>4, <2>5
<1>6. n \in T
  <2> HIDE DEF T
  <2> QED  BY <1>1, <1>4, <1>5, ByRounds
<1> DEFINE y == f[n]
<1>7. J(y, n)
  BY <1>6
<1> HIDE DEF y
<1>8. AtTop(t, y)
  <2>1. y \in S
    BY <1>7 DEF LastBelow
  <2> QED  BY <1>1, <1>7, <2>1
<1> QED  BY <1>3, <1>7, <1>8 DEF y

\* mps_rbtree_next returns the next node in the order.
LEMMA NextFollows ==
  ASSUME NEW t, NEW D, NEW S, NEW sub, NEW pos, Base(t, D, S, sub, pos), IsFiniteSet(D),
         NEW x \in S, NEW y, y = RbNext(t, x)
  PROVE  Follows(S, pos, x, y)
<1>1. /\ Rooted(S, t.left, t.right, t.parent, t.root, sub) /\ Ord(S, t.left, t.right, sub, pos)
  BY DEF Base
<1>2. Fork(S, t.left, t.right, t.parent, sub, x)
  BY <1>1 DEF Rooted
<1>3. \A n \in S : pos[n] \in Int
  BY <1>1 DEF Ord
<1>4. CASE t.right[x] # Sentinel
  <2> DEFINE q == t.right[x]
  <2>1. y = RbMin(t, q) /\ q \in S
    BY <1>2, <1>4 DEF RbNext, Fork
  <2>2. y \in sub[q] /\ y \in S /\ \A m \in sub[q] : m = y \/ pos[y] < pos[m]
    <3> HIDE DEF q
    <3> QED  BY <2>1, MinLeast
  <2>3. x \in sub[x] /\ y \in sub[x]
    BY <1>2, <2>2 DEF Fork
  <2>4. pos[x] < pos[y]
    BY <1>1, <2>2 DEF Ord
  <2>5. ASSUME NEW m \in S  PROVE pos[m] <= pos[x] \/ pos[y] <= pos[m]
    <3>1. CASE m \notin sub[x]
      <4>1. pos[x] < pos[m] => pos[y] < pos[m]
        BY <2>3, <3>1, OneSide
      <4> QED  BY <1>3, <2>2, <4>1
    <3>2. CASE m \in sub[x]
      <4>1. m = x \/ m \in sub[t.left[x]] \/ m \in sub[q]
        BY <1>2, <3>2 DEF Fork
      <4>2. m \in sub[t.left[x]] => pos[m] < pos[x]
        BY <1>1 DEF Ord
      <4> HIDE DEF q
      <4> QED  BY <1>3, <2>2, <4>1, <4>2
    <3> QED  BY <3>1, <3>2
  <2> QED  BY <2>2, <2>4, <2>5 DEF Follows
<1>5. CASE t.right[x] = Sentinel
  <2>1. PICK top : /\ LastBelow(t, S, sub, pos, x, top) /\ AtTop(t, top)
                   /\ Climb(t, x) = IF top = t.root THEN Null ELSE t.parent[top]
    BY <1>5, ClimbTop
  <2>2. y = IF top = t.root THEN Null ELSE t.parent[top]
    BY <1>5, <2>1 DEF RbNext
  <2>3. top \in S /\ x \in sub[top] /\ (\A m \in sub[top] : pos[m] <= pos[x])
    BY <2>1 DEF LastBelow
  <2>4. CASE top = t.root
    <3>1. sub[top] = S
      BY <1>1, <2>4 DEF Rooted
    <3> QED  BY <2>2, <2>3, <2>4, <3>1 DEF Follows
  <2>5. CASE top # t.root
    <3>1. y = t.parent[top] /\ y \in S /\ t.left[y] = top
      BY <1>1, <2>1, <2>2, <2>3, <2>5, HasParent DEF AtTop
    <3>2. Fork(S, t.left, t.right, t.parent, sub, y)
      BY <1>1, <3>1 DEF Rooted
    <3>3. sub[y] = {y} \cup sub[top] \cup sub[t.right[y]]
      BY <3>1, <3>2 DEF Fork
    <3>4. pos[x] < pos[y] /\ \A m \in sub[t.right[y]] : pos[y] < pos[m]
      BY <1>1, <2>3, <3>1 DEF Ord
    <3>5. ASSUME NEW m \in S  PROVE pos[m] <= pos[x] \/ pos[y] <= pos[m]
      <4>1. CASE m \notin sub[y]
        <5>1. x \in sub[y] /\ y \in sub[y]
          BY <2>3, <3>3
        <5>2. pos[x] < pos[m] => pos[y] < pos[m]
          BY <3>1, <4>1, <5>1, OneSide
        <5> QED  BY <1>3, <3>1, <5>2
      <4>2. CASE m \in sub[y]
        BY <1>3, <2>3, <3>1, <3>3, <3>4, <4>2
      <4> QED  BY <4>1, <4>2
    <3> QED  BY <3>1, <3>4, <3>5 DEF Follows
  <2> QED  BY <2>4, <2>5
<1> QED  BY <1>4, <1>5


-----------------------------------------------------------------------------
(* The nodes in order *)

\* s lists the nodes T, the ones with the least places first.
Lists(s, T, pos) ==
    /\ s \in Seq(T)
    /\ \A x \in T : \E i \in 1 .. Len(s) : s[i] = x
    /\ \A i, j \in 1 .. Len(s) : i < j => pos[s[i]] < pos[s[j]]

LEMMA ListsEmpty ==
  ASSUME NEW pos
  PROVE  Lists(<<>>, {}, pos)
BY DEF Lists

LEMMA ListsJoin ==
  ASSUME NEW T1, NEW T2, NEW x, NEW pos, NEW s1, NEW s2,
         Lists(s1, T1, pos), Lists(s2, T2, pos), pos[x] \in Int,
         \A y \in T1 : pos[y] \in Int /\ pos[y] < pos[x],
         \A y \in T2 : pos[y] \in Int /\ pos[x] < pos[y],
         NEW T, T = {x} \cup T1 \cup T2
  PROVE  Lists(s1 \o <<x>> \o s2, T, pos)
<1> DEFINE s == s1 \o <<x>> \o s2
           n == Len(s1)
           m == Len(s2)
<1>1. s1 \in Seq(T) /\ s2 \in Seq(T) /\ <<x>> \in Seq(T)
  BY DEF Lists
<1>2. s1 \o <<x>> \in Seq(T) /\ s \in Seq(T)
  BY <1>1
<1>3. n \in Nat /\ m \in Nat /\ Len(s) = n + 1 + m
  BY <1>1, <1>2
<1>4. \A i \in 1 .. Len(s) : s[i] = IF i <= n THEN s1[i] ELSE IF i = n + 1 THEN x ELSE s2[i - n - 1]
  <2> TAKE i \in 1 .. Len(s)
  <2>1. Len(s1 \o <<x>>) = n + 1
    BY <1>1
  <2>2. CASE i <= n
    <3>1. s[i] = (s1 \o <<x>>)[i]
      BY <1>1, <1>2, <1>3, <2>1, <2>2
    <3> QED  BY <1>1, <1>3, <2>2, <3>1
  <2>3. CASE i = n + 1
    <3>1. s[i] = (s1 \o <<x>>)[i]
      BY <1>1, <1>2, <1>3, <2>1, <2>3
    <3> QED  BY <1>1, <1>3, <2>3, <3>1
  <2>4. CASE i > n + 1
    BY <1>1, <1>2, <1>3, <2>1, <2>4
  <2> QED  BY <1>3, <2>2, <2>3, <2>4
<1>5. /\ \A i \in 1 .. n : s1[i] \in T1 /\ pos[s1[i]] \in Int /\ pos[s1[i]] < pos[x]
      /\ \A i \in 1 .. m : s2[i] \in T2 /\ pos[s2[i]] \in Int /\ pos[x] < pos[s2[i]]
  <2>1. (\A i \in 1 .. n : s1[i] \in T1) /\ (\A i \in 1 .. m : s2[i] \in T2)
    BY <1>3 DEF Lists
  <2> QED  BY <2>1
<1>6. /\ \A i, j \in 1 .. n : i < j => pos[s1[i]] < pos[s1[j]]
      /\ \A i, j \in 1 .. m : i < j => pos[s2[i]] < pos[s2[j]]
      /\ \A y \in T1 : \E i \in 1 .. n : s1[i] = y
      /\ \A y \in T2 : \E i \in 1 .. m : s2[i] = y
  BY DEF Lists
<1> HIDE DEF s, n, m
<1>7. \A i, j \in 1 .. Len(s) : i < j => pos[s[i]] < pos[s[j]]
  <2> SUFFICES ASSUME NEW i \in 1 .. Len(s), NEW j \in 1 .. Len(s), i < j
               PROVE  pos[s[i]] < pos[s[j]]
    OBVIOUS
  <2>1. CASE j <= n
    BY <1>3, <1>4, <1>6, <2>1
  <2>2. CASE i > n + 1
    <3>1. i - n - 1 \in 1 .. m /\ j - n - 1 \in 1 .. m /\ i - n - 1 < j - n - 1
      BY <1>3, <2>2
    <3>2. s[i] = s2[i - n - 1] /\ s[j] = s2[j - n - 1]
      BY <1>3, <1>4, <2>2
    <3> QED  BY <1>6, <3>1, <3>2
  <2>3. CASE i <= n + 1 /\ j > n
    <3>1. CASE i <= n
      <4>1. s[i] = s1[i] /\ i \in 1 .. n
        BY <1>3, <1>4, <3>1
      <4>2. pos[s[i]] \in Int /\ pos[s[i]] < pos[x]
        BY <1>5, <4>1
      <4>3. CASE j = n + 1
        BY <1>3, <1>4, <4>2, <4>3
      <4>4. CASE j # n + 1
        <5>1. j - n - 1 \in 1 .. m /\ s[j] = s2[j - n - 1]
          BY <1>3, <1>4, <2>3, <4>4
        <5> QED  BY <1>5, <4>2, <5>1
      <4> QED  BY <4>3, <4>4
    <3>2. CASE i = n + 1
      <4>1. j - n - 1 \in 1 .. m /\ s[j] = s2[j - n - 1] /\ s[i] = x
        BY <1>3, <1>4, <3>2
      <4> QED  BY <1>5, <4>1
    <3> QED  BY <1>3, <2>3, <3>1, <3>2
  <2> QED  BY <1>3, <2>1, <2>2, <2>3
<1>8. \A y \in T : \E i \in 1 .. Len(s) : s[i] = y
  <2> TAKE y \in T
  <2>1. CASE y = x
    <3>1. n + 1 \in 1 .. Len(s) /\ s[n + 1] = x
      BY <1>3, <1>4
    <3> QED  BY <2>1, <3>1
  <2>2. CASE y \in T1
    <3>1. PICK i \in 1 .. n : s1[i] = y
      BY <1>6, <2>2
    <3>2. i \in 1 .. Len(s) /\ s[i] = y
      BY <1>3, <1>4, <3>1
    <3> QED  BY <3>2
  <2>3. CASE y \in T2
    <3>1. PICK i \in 1 .. m : s2[i] = y
      BY <1>6, <2>3
    <3>2. i + n + 1 \in 1 .. Len(s) /\ (i + n + 1) - n - 1 = i /\ i + n + 1 > n + 1
      BY <1>3, <3>1
    <3>3. s[i + n + 1] = y
      BY <1>3, <1>4, <3>1, <3>2
    <3> QED  BY <3>2, <3>3
  <2> QED  BY <2>1, <2>2, <2>3
<1>9. Lists(s, T, pos)
  BY <1>2, <1>7, <1>8 DEF Lists, s
<1> QED  BY <1>9 DEF s

Unwalked(t) == [x \in DOMAIN t.key |-> <<>>]

WalkRun(t, n, f) == f = [i \in 0 .. n |-> IF i = 0 THEN Unwalked(t) ELSE Deeper(t, f[i - 1])]

LEMMA WalkRuns ==
  ASSUME NEW t, NEW n \in Nat, n = Rounds(t)
  PROVE  \E f : WalkRun(t, n, f) /\ InOrder(t) = f[n][t.root]
<1> DEFINE T == {k \in 0 .. n : \E f : WalkRun(t, k, f)}
<1>1. 0 \in T
  <2>1. WalkRun(t, 0, [i \in 0 .. 0 |-> Unwalked(t)])
    BY DEF WalkRun
  <2> QED  BY <2>1
<1>2. ASSUME NEW k \in 0 .. n - 1, k \in T
      PROVE  k + 1 \in T
  <2>1. PICK f : WalkRun(t, k, f)
    BY <1>2
  <2> DEFINE g == [i \in 0 .. k + 1 |-> IF i = 0 THEN Unwalked(t) ELSE Deeper(t, f[i - 1])]
  <2>2. \A i \in 0 .. k : g[i] = f[i]
    BY <2>1 DEF WalkRun
  <2>3. /\ g = [i \in 0 .. k + 1 |-> g[i]]
        /\ \A i \in 0 .. k + 1 : g[i] = IF i = 0 THEN Unwalked(t) ELSE Deeper(t, f[i - 1])
    OBVIOUS
  <2> HIDE DEF g
  <2>4. ASSUME NEW i \in 0 .. k + 1
        PROVE  g[i] = IF i = 0 THEN Unwalked(t) ELSE Deeper(t, g[i - 1])
    <3>1. CASE i = 0
      BY <2>3, <3>1
    <3>2. CASE i # 0
      <4>1. i - 1 \in 0 .. k
        BY <3>2
      <4>2. g[i - 1] = f[i - 1]
        BY <2>2, <4>1
      <4> QED  BY <2>3, <3>2, <4>2
    <3> QED  BY <3>1, <3>2
  <2>5. WalkRun(t, k + 1, g)
    BY <2>3, <2>4 DEF WalkRun
  <2> QED  BY <2>5
<1>3. n \in T
  <2> HIDE DEF T
  <2> QED  BY <1>1, <1>2, ByRounds
<1> DEFINE c == CHOOSE f : f = [i \in 0 .. n |-> IF i = 0 THEN Unwalked(t) ELSE Deeper(t, f[i - 1])]
<1>4. WalkRun(t, n, c)
  BY <1>3 DEF WalkRun
<1>5. InOrder(t) = c[n][t.root]
  BY DEF InOrder, Loop, Unwalked
<1> QED  BY <1>4, <1>5

LEMMA DeeperLists ==
  ASSUME NEW t, NEW D, NEW S, NEW sub, NEW pos, Base(t, D, S, sub, pos), NEW x \in S, NEW walk,
         Lists(walk[t.left[x]], sub[t.left[x]], pos),
         Lists(walk[t.right[x]], sub[t.right[x]], pos)
  PROVE  Lists(Deeper(t, walk)[x], sub[x], pos)
<1>1. /\ Rooted(S, t.left, t.right, t.parent, t.root, sub) /\ Ord(S, t.left, t.right, sub, pos)
      /\ IsRb(t, D) /\ S \cup {Sentinel} \subseteq D
  BY DEF Base
<1>2. Fork(S, t.left, t.right, t.parent, sub, x) /\ Sentinel \notin S
  BY <1>1 DEF Rooted
<1>3. sub[x] = {x} \cup sub[t.left[x]] \cup sub[t.right[x]]
  BY <1>2 DEF Fork
<1>4. \A y \in sub[x] : y \in S
  BY <1>1, SubTrans
<1>5. /\ pos[x] \in Int
      /\ \A y \in sub[t.left[x]] : pos[y] \in Int /\ pos[y] < pos[x]
      /\ \A y \in sub[t.right[x]] : pos[y] \in Int /\ pos[x] < pos[y]
  BY <1>1, <1>3, <1>4 DEF Ord
<1>6. DOMAIN t.key = D /\ x \in D /\ x # Sentinel
  BY <1>1, <1>2 DEF IsRb, FunctionOn
<1>7. Deeper(t, walk)[x] = walk[t.left[x]] \o <<x>> \o walk[t.right[x]]
  BY <1>6 DEF Deeper
<1>8. Lists(walk[t.left[x]] \o <<x>> \o walk[t.right[x]], sub[x], pos)
  BY <1>3, <1>5, ListsJoin
<1> QED  BY <1>7, <1>8

\* The walk through the tree lists its nodes in their order.
LEMMA InOrderLists ==
  ASSUME NEW t, NEW D, NEW S, NEW sub, NEW pos, Base(t, D, S, sub, pos), IsFiniteSet(D)
  PROVE  Lists(InOrder(t), S, pos)
<1> DEFINE n == Rounds(t)
<1>1. /\ n \in Nat
      /\ \A z \in S \cup {Sentinel} : Cardinality(sub[z]) \in Nat /\ Cardinality(sub[z]) < n
  BY RoundsEnough, CardBelow
<1>2. n = Rounds(t)
  OBVIOUS
<1> HIDE DEF n
<1>3. PICK f : WalkRun(t, n, f) /\ InOrder(t) = f[n][t.root]
  BY <1>1, <1>2, WalkRuns
<1>4. /\ Rooted(S, t.left, t.right, t.parent, t.root, sub)
      /\ IsRb(t, D) /\ S \cup {Sentinel} \subseteq D
  BY DEF Base
<1>5. /\ sub[Sentinel] = {} /\ sub[t.root] = S /\ t.root \in S \cup {Sentinel} /\ Sentinel \notin S
      /\ \A x \in S : Fork(S, t.left, t.right, t.parent, sub, x)
  BY <1>4 DEF Rooted
<1>6. DOMAIN t.key = D
  BY <1>4 DEF IsRb, FunctionOn
<1> DEFINE J(walk, i) == \A x \in S \cup {Sentinel} :
                            Cardinality(sub[x]) <= i => Lists(walk[x], sub[x], pos)
           T == {i \in 0 .. n : J(f[i], i)}
<1>7. 0 \in T
  <2>1. f[0] = [x \in DOMAIN t.key |-> <<>>]
    BY <1>1, <1>3 DEF WalkRun, Unwalked
  <2>2. \A x \in S : 1 <= Cardinality(sub[x]) /\ Cardinality(sub[x]) \in Nat
    BY RoundsEnough
  <2>3. f[0][Sentinel] = <<>>
    BY <1>4, <1>6, <2>1
  <2>4. J(f[0], 0)
    <3> SUFFICES ASSUME NEW x \in S \cup {Sentinel}, Cardinality(sub[x]) <= 0
                 PROVE  Lists(f[0][x], sub[x], pos)
      OBVIOUS
    <3>1. x = Sentinel
      BY <2>2
    <3> QED  BY <1>5, <2>3, <3>1, ListsEmpty
  <2> QED  BY <1>1, <2>4
<1>8. ASSUME NEW i \in 0 .. n - 1, i \in T
      PROVE  i + 1 \in T
  <2> DEFINE u == f[i]
             v == f[i + 1]
  <2>1. v = Deeper(t, u)
    BY <1>1, <1>3 DEF WalkRun
  <2>2. J(u, i)
    BY <1>8
  <2>3. i \in Nat /\ i + 1 \in 0 .. n
    BY <1>1
  <2> SUFFICES J(v, i + 1)
    BY <2>3
  <2> HIDE DEF u, v
  <2> SUFFICES ASSUME NEW x \in S \cup {Sentinel}, Cardinality(sub[x]) <= i + 1
               PROVE  Lists(v[x], sub[x], pos)
    OBVIOUS
  <2>4. CASE x = Sentinel
    <3>1. v[x] = <<>>
      BY <1>4, <1>6, <2>1, <2>4 DEF Deeper
    <3> QED  BY <1>5, <2>4, <3>1, ListsEmpty
  <2>5. CASE x \in S
    <3>1. t.left[x] \in S \cup {Sentinel} /\ t.right[x] \in S \cup {Sentinel}
      BY <1>5, <2>5 DEF Fork
    <3>2. /\ Cardinality(sub[t.left[x]]) < Cardinality(sub[x])
          /\ Cardinality(sub[t.right[x]]) < Cardinality(sub[x])
      BY <1>4, <2>5, CardSub
    <3>3. Cardinality(sub[t.left[x]]) <= i /\ Cardinality(sub[t.right[x]]) <= i
      BY <1>1, <2>3, <3>1, <3>2
    <3>4. Lists(u[t.left[x]], sub[t.left[x]], pos) /\ Lists(u[t.right[x]], sub[t.right[x]], pos)
      BY <2>2, <3>1, <3>3
    <3> QED  BY <2>1, <2>5, <3>4, DeeperLists
  <2> QED  BY <2>4, <2>5
<1>9. n \in T
  <2> HIDE DEF T
  <2> QED  BY <1>1, <1>7, <1>8, ByRounds
<1>10. J(f[n], n)
  BY <1>9
<1>11. Cardinality(sub[t.root]) <= n
  BY <1>1, <1>5
<1> QED  BY <1>3, <1>5, <1>10, <1>11


Unweighed(t) == [x \in DOMAIN t.key |-> {0}]

HeavyRun(t, n, f) == f = [i \in 0 .. n |-> IF i = 0 THEN Unweighed(t) ELSE Heavier(t, f[i - 1])]

LEMMA HeavyRuns ==
  ASSUME NEW t, NEW n \in Nat, n = Rounds(t)
  PROVE  \E f : HeavyRun(t, n, f) /\ BlackHeights(t) = f[n][t.root]
<1> DEFINE T == {k \in 0 .. n : \E f : HeavyRun(t, k, f)}
<1>1. 0 \in T
  <2>1. HeavyRun(t, 0, [i \in 0 .. 0 |-> Unweighed(t)])
    BY DEF HeavyRun
  <2> QED  BY <2>1
<1>2. ASSUME NEW k \in 0 .. n - 1, k \in T
      PROVE  k + 1 \in T
  <2>1. PICK f : HeavyRun(t, k, f)
    BY <1>2
  <2> DEFINE g == [i \in 0 .. k + 1 |-> IF i = 0 THEN Unweighed(t) ELSE Heavier(t, f[i - 1])]
  <2>2. \A i \in 0 .. k : g[i] = f[i]
    BY <2>1 DEF HeavyRun
  <2>3. /\ g = [i \in 0 .. k + 1 |-> g[i]]
        /\ \A i \in 0 .. k + 1 : g[i] = IF i = 0 THEN Unweighed(t) ELSE Heavier(t, f[i - 1])
    OBVIOUS
  <2> HIDE DEF g
  <2>4. ASSUME NEW i \in 0 .. k + 1
        PROVE  g[i] = IF i = 0 THEN Unweighed(t) ELSE Heavier(t, g[i - 1])
    <3>1. CASE i = 0
      BY <2>3, <3>1
    <3>2. CASE i # 0
      <4>1. i - 1 \in 0 .. k
        BY <3>2
      <4>2. g[i - 1] = f[i - 1]
        BY <2>2, <4>1
      <4> QED  BY <2>3, <3>2, <4>2
    <3> QED  BY <3>1, <3>2
  <2>5. HeavyRun(t, k + 1, g)
    BY <2>3, <2>4 DEF HeavyRun
  <2> QED  BY <2>5
<1>3. n \in T
  <2> HIDE DEF T
  <2> QED  BY <1>1, <1>2, ByRounds
<1> DEFINE c == CHOOSE f : f = [i \in 0 .. n |-> IF i = 0 THEN Unweighed(t) ELSE Heavier(t, f[i - 1])]
<1>4. HeavyRun(t, n, c)
  BY <1>3 DEF HeavyRun
<1>5. BlackHeights(t) = c[n][t.root]
  BY DEF BlackHeights, Loop, Unweighed
<1> QED  BY <1>4, <1>5

LEMMA HeavierHeight ==
  ASSUME NEW t, NEW D, NEW S, NEW sub, NEW pos, NEW h, GoodT(t, D, S, sub, pos, h),
         NEW x \in S, NEW heights,
         heights[t.left[x]] = {h[t.left[x]]}, heights[t.right[x]] = {h[t.right[x]]}
  PROVE  Heavier(t, heights)[x] = {h[x]}
<1>1. /\ Base(t, D, S, sub, pos) /\ IsRb(t, D) /\ S \cup {Sentinel} \subseteq D
      /\ Leveled(S, t.left, t.right, WT(t), h, Flat(S), Flat(S)) /\ Sentinel \notin S
  BY DEF GoodT, Base, Good, Rooted
<1>2. DOMAIN t.key = D /\ x \in D /\ x # Sentinel
  BY <1>1 DEF IsRb, FunctionOn
<1>3. /\ h[t.left[x]] + 0 = h[t.right[x]] + 0
      /\ h[x] = h[t.left[x]] + 0 + WT(t)[x]
  BY <1>1 DEF Leveled, LevelAt, Flat
<1>4. WT(t)[x] = IF t.red[x] THEN 0 ELSE 1
  BY <1>1, <1>2, WTValue
<1>5. h \in [S \cup {Sentinel} -> Nat]
  BY <1>1 DEF Leveled, Weights
<1>6. t.left[x] \in S \cup {Sentinel} /\ t.right[x] \in S \cup {Sentinel}
  BY <1>1 DEF Base, Rooted, Fork
<1>7. h[t.left[x]] \in Nat /\ h[t.right[x]] \in Nat /\ h[t.left[x]] = h[t.right[x]]
  BY <1>3, <1>5, <1>6
<1>8. h[x] = h[t.left[x]] + IF t.red[x] THEN 0 ELSE 1
  BY <1>3, <1>4, <1>7
<1>9. Heavier(t, heights)[x]
        = {k + IF t.red[x] THEN 0 ELSE 1 : k \in heights[t.left[x]] \cup heights[t.right[x]]}
  BY <1>2 DEF Heavier
<1> QED  BY <1>7, <1>8, <1>9

LEMMA BlackHeightsOne ==
  ASSUME NEW t, NEW D, NEW S, NEW sub, NEW pos, NEW h, GoodT(t, D, S, sub, pos, h),
         IsFiniteSet(D)
  PROVE  BlackHeights(t) = {h[t.root]}
<1> DEFINE n == Rounds(t)
<1>1. Base(t, D, S, sub, pos) /\ h[Sentinel] = 0
  BY DEF GoodT, Good, Leveled, Weights
<1>2. /\ n \in Nat
      /\ \A z \in S \cup {Sentinel} : Cardinality(sub[z]) \in Nat /\ Cardinality(sub[z]) < n
  BY <1>1, RoundsEnough, CardBelow
<1>3. n = Rounds(t)
  OBVIOUS
<1> HIDE DEF n
<1>4. PICK f : HeavyRun(t, n, f) /\ BlackHeights(t) = f[n][t.root]
  BY <1>2, <1>3, HeavyRuns
<1>5. /\ Rooted(S, t.left, t.right, t.parent, t.root, sub)
      /\ IsRb(t, D) /\ S \cup {Sentinel} \subseteq D
  BY <1>1 DEF Base
<1>6. /\ sub[t.root] = S /\ t.root \in S \cup {Sentinel} /\ Sentinel \notin S
      /\ \A x \in S : Fork(S, t.left, t.right, t.parent, sub, x)
  BY <1>5 DEF Rooted
<1>7. DOMAIN t.key = D
  BY <1>5 DEF IsRb, FunctionOn
<1> DEFINE J(heights, i) == \A x \in S \cup {Sentinel} :
                               Cardinality(sub[x]) <= i => heights[x] = {h[x]}
           T == {i \in 0 .. n : J(f[i], i)}
<1>8. 0 \in T
  <2>1. f[0] = [x \in DOMAIN t.key |-> {0}]
    BY <1>2, <1>4 DEF HeavyRun, Unweighed
  <2>2. \A x \in S : 1 <= Cardinality(sub[x]) /\ Cardinality(sub[x]) \in Nat
    BY <1>1, RoundsEnough
  <2>3. f[0][Sentinel] = {0}
    BY <1>5, <1>7, <2>1
  <2>4. J(f[0], 0)
    <3> SUFFICES ASSUME NEW x \in S \cup {Sentinel}, Cardinality(sub[x]) <= 0
                 PROVE  f[0][x] = {h[x]}
      OBVIOUS
    <3>1. x = Sentinel
      BY <2>2
    <3> QED  BY <1>1, <2>3, <3>1
  <2> QED  BY <1>2, <2>4
<1>9. ASSUME NEW i \in 0 .. n - 1, i \in T
      PROVE  i + 1 \in T
  <2> DEFINE u == f[i]
             v == f[i + 1]
  <2>1. v = Heavier(t, u)
    BY <1>2, <1>4 DEF HeavyRun
  <2>2. J(u, i)
    BY <1>9
  <2>3. i \in Nat /\ i + 1 \in 0 .. n
    BY <1>2
  <2> SUFFICES J(v, i + 1)
    BY <2>3
  <2> HIDE DEF u, v
  <2> SUFFICES ASSUME NEW x \in S \cup {Sentinel}, Cardinality(sub[x]) <= i + 1
               PROVE  v[x] = {h[x]}
    OBVIOUS
  <2>4. CASE x = Sentinel
    <3>1. v[x] = {0}
      BY <1>5, <1>7, <2>1, <2>4 DEF Heavier
    <3> QED  BY <1>1, <2>4, <3>1
  <2>5. CASE x \in S
    <3>1. t.left[x] \in S \cup {Sentinel} /\ t.right[x] \in S \cup {Sentinel}
      BY <1>6, <2>5 DEF Fork
    <3>2. /\ Cardinality(sub[t.left[x]]) < Cardinality(sub[x])
          /\ Cardinality(sub[t.right[x]]) < Cardinality(sub[x])
      BY <1>5, <2>5, CardSub
    <3>3. Cardinality(sub[t.left[x]]) <= i /\ Cardinality(sub[t.right[x]]) <= i
      BY <1>2, <2>3, <3>1, <3>2
    <3>4. u[t.left[x]] = {h[t.left[x]]} /\ u[t.right[x]] = {h[t.right[x]]}
      BY <2>2, <3>1, <3>3
    <3> QED  BY <2>1, <2>5, <3>4, HeavierHeight
  <2> QED  BY <2>4, <2>5
<1>10. n \in T
  <2> HIDE DEF T
  <2> QED  BY <1>2, <1>8, <1>9, ByRounds
<1>11. J(f[n], n)
  BY <1>10
<1>12. Cardinality(sub[t.root]) <= n
  BY <1>2, <1>6
<1> QED  BY <1>4, <1>6, <1>11, <1>12

-----------------------------------------------------------------------------
(* What the walk shows of a red-black search tree *)

LEMMA TreeOrdered ==
  ASSUME NEW t, NEW D, NEW S, NEW sub, NEW pos, NEW h, SortedTree(t, D, S, sub, pos, h),
         IsFiniteSet(D), S = Linked(t), Null \notin S
  PROVE  IsTree(t) /\ IsOrdered(t) /\ NextInOrder(t)
<1> DEFINE order == InOrder(t)
<1>1. Base(t, D, S, sub, pos) /\ Sorted(t, S, pos)
  BY DEF SortedTree, GoodT
<1>2. /\ Rooted(S, t.left, t.right, t.parent, t.root, sub) /\ Ord(S, t.left, t.right, sub, pos)
  BY <1>1 DEF Base
<1>3. Lists(order, S, pos)
  BY <1>1, InOrderLists
<1> HIDE DEF order
<1>4. /\ order \in Seq(S) /\ DOMAIN order = 1 .. Len(order) /\ Len(order) \in Nat
      /\ \A x \in S : \E i \in 1 .. Len(order) : order[i] = x
      /\ \A i, j \in 1 .. Len(order) : i < j => pos[order[i]] < pos[order[j]]
  BY <1>3 DEF Lists
<1>5. \A i \in 1 .. Len(order) : order[i] \in S /\ pos[order[i]] \in Int
  BY <1>2, <1>4 DEF Ord
<1>6. IsInjective(order)
  <2> SUFFICES ASSUME NEW i \in 1 .. Len(order), NEW j \in 1 .. Len(order), order[i] = order[j]
               PROVE  i = j
    BY <1>4 DEF IsInjective
  <2> QED  BY <1>4, <1>5
<1>7. ToSet(order) = S
  BY <1>4, <1>5 DEF ToSet
<1>8. ASSUME NEW x \in S, NEW c \in {t.left[x], t.right[x]} \ {Sentinel}
      PROVE  t.parent[c] = x
  <2>1. Fork(S, t.left, t.right, t.parent, sub, x)
    BY <1>2 DEF Rooted
  <2> QED  BY <2>1 DEF Fork
<1>9. IsTree(t)
  BY <1>6, <1>7, <1>8 DEF IsTree, order
<1>10. IsOrdered(t)
  <2> SUFFICES ASSUME NEW j \in 1 .. Len(order), NEW i \in 1 .. j - 1
               PROVE  ~Before(t, order[j], order[i])
    BY <1>4 DEF IsOrdered, order
  <2>1. i \in 1 .. Len(order) /\ i < j
    BY <1>4
  <2> QED  BY <1>1, <1>4, <1>5, <2>1 DEF Sorted
<1>11. NextInOrder(t)
  <2> SUFFICES ASSUME NEW i \in 1 .. Len(order)
               PROVE  RbNext(t, order[i]) = IF i = Len(order) THEN Null ELSE order[i + 1]
    BY <1>4 DEF NextInOrder, order
  <2> DEFINE x == order[i]
             y == RbNext(t, x)
  <2>1. x \in S
    BY <1>5
  <2>5. Len(order) \in Nat /\ i \in 1 .. Len(order)
    BY <1>4
  <2>2. Follows(S, pos, x, y)
    <3> HIDE DEF x
    <3> QED  BY <1>1, <2>1, NextFollows
  <2>3. CASE y = Null
    <3>1. \A m \in S : pos[m] <= pos[x]
      BY <2>2, <2>3 DEF Follows
    <3>2. i = Len(order)
      <4> SUFFICES ASSUME i # Len(order)  PROVE FALSE
        OBVIOUS
      <4>1. i + 1 \in 1 .. Len(order) /\ i < i + 1
        BY <2>5, SMTT(30)
      <4>2. order[i + 1] \in S /\ pos[x] < pos[order[i + 1]] /\ pos[x] \in Int /\ pos[order[i + 1]] \in Int
        BY <1>4, <1>5, <4>1
      <4> QED  BY <3>1, <4>2
    <3> QED  BY <2>3, <3>2
  <2>4. CASE y # Null
    <3> HIDE DEF y
    <3>1. y \in S /\ pos[x] < pos[y] /\ \A m \in S : pos[m] <= pos[x] \/ pos[y] <= pos[m]
      BY <2>2, <2>4 DEF Follows
    <3>2. PICK j \in 1 .. Len(order) : order[j] = y
      BY <1>4, <3>1
    <3>3. i < j
      <4>1. j < i => pos[y] < pos[x]
        BY <1>4, <3>2
      <4>2. pos[x] \in Int /\ pos[y] \in Int
        BY <1>5, <3>2
      <4> QED  BY <1>4, <3>1, <3>2, <4>1, <4>2
    <3>4. i + 1 \in 1 .. Len(order) /\ i < i + 1 /\ i # Len(order)
      BY <2>5, <3>3
    <3>5. pos[x] < pos[order[i + 1]] /\ order[i + 1] \in S
      BY <1>4, <1>5, <3>4
    <3>6. pos[y] <= pos[order[i + 1]]
      <4>1. pos[x] \in Int /\ pos[order[i + 1]] \in Int
        BY <1>5, <3>4
      <4> HIDE DEF x
      <4> QED  BY <3>1, <3>5, <4>1
    <3>7. j = i + 1
      <4>1. i + 1 < j => pos[order[i + 1]] < pos[y]
        BY <1>4, <3>2, <3>4
      <4>2. pos[y] \in Int /\ pos[order[i + 1]] \in Int
        BY <1>5, <3>2, <3>4
      <4> QED  BY <3>3, <3>6, <4>1, <4>2, SMTT(30)
    <3> QED  BY <3>2, <3>4, <3>7 DEF y
  <2> QED  BY <2>3, <2>4
<1> QED  BY <1>9, <1>10, <1>11

LEMMA TreeBalanced ==
  ASSUME NEW t, NEW D, NEW S, NEW sub, NEW pos, NEW h, SortedTree(t, D, S, sub, pos, h),
         IsFiniteSet(D), S = Linked(t)
  PROVE  IsBalanced(t)
<1>1. /\ GoodT(t, D, S, sub, pos, h) /\ Base(t, D, S, sub, pos) /\ S \cup {Sentinel} \subseteq D
      /\ Calm(S, t.left, t.right, WT(t), {}, {}) /\ WT(t)[t.root] = 1
      /\ Leveled(S, t.left, t.right, WT(t), h, Flat(S), Flat(S))
      /\ Rooted(S, t.left, t.right, t.parent, t.root, sub)
  BY DEF SortedTree, GoodT, Good, Base
<1>2. \A n \in D : (t.red[n] <=> WT(t)[n] = 0) /\ (~t.red[n] <=> WT(t)[n] = 1)
  BY <1>1, WTValue
<1>3. WT(t)[Sentinel] = 1
  BY <1>1 DEF Leveled, Weights
<1>4. /\ t.root \in S \cup {Sentinel}
      /\ \A n \in S : t.left[n] \in S \cup {Sentinel} /\ t.right[n] \in S \cup {Sentinel}
  BY <1>1 DEF Rooted, Fork
<1>5. ~t.red[t.root] /\ ~t.red[Sentinel]
  BY <1>1, <1>2, <1>3, <1>4
<1>6. ASSUME NEW x \in S, t.red[x]  PROVE ~t.red[t.left[x]] /\ ~t.red[t.right[x]]
  <2>1. x \in D /\ t.left[x] \in D /\ t.right[x] \in D
    BY <1>1, <1>4
  <2>2. WT(t)[x] = 0
    BY <1>2, <1>6, <2>1
  <2>3. WT(t)[t.left[x]] = 1 /\ WT(t)[t.right[x]] = 1
    BY <1>1, <2>2 DEF Calm
  <2> QED  BY <1>2, <2>1, <2>3
<1>7. BlackHeights(t) = {h[t.root]}
  BY <1>1, BlackHeightsOne
<1>8. Cardinality(BlackHeights(t)) = 1
  BY <1>7, FS_Singleton
<1> QED  BY <1>5, <1>6, <1>8 DEF IsBalanced

-----------------------------------------------------------------------------
(* How the nodes compare, for each insert type *)

LEMMA ModWithin ==
  ASSUME NEW M \in Nat, NEW a \in 0 .. M - 1, NEW b \in 0 .. M - 1
  PROVE  (a - b) % M = IF b <= a THEN a - b ELSE a - b + M
<1>1. M > 0 /\ a - b \in Int
  OBVIOUS
<1>2. CASE b <= a
  <2>1. a - b \in 0 .. M - 1
    BY <1>2
  <2> QED  BY <1>1, <1>2, <2>1
<1>3. CASE ~(b <= a)
  <2>1. a - b + M \in 0 .. M - 1
    BY <1>3
  <2> QED  BY <1>1, <1>3, <2>1
<1> QED  BY <1>2, <1>3

\* Timers that are near one another compare by their distance from the first.
LEMMA NearTimers ==
  ASSUME NEW keys, keys \subseteq 0 .. 2 * HalfRange - 1, Near(keys)
  PROVE  \E d : /\ \A k \in keys : d[k] \in Int
                /\ \A a, b \in keys : TimerLess(a, b) <=> d[a] < d[b]
<1> DEFINE M == 2 * HalfRange
<1>1. HalfRange \in Nat /\ HalfRange > 0 /\ M \in Nat
  BY RbtreeAssumption
<1>2. PICK first \in 0 .. M - 1 : \A key \in keys : (key - first) % M < HalfRange
  BY DEF Near
<1> DEFINE d == [k \in keys |-> IF first <= k THEN k - first ELSE k - first + M]
<1>3. \A k \in keys : /\ k \in 0 .. M - 1 /\ d[k] = IF first <= k THEN k - first ELSE k - first + M
                      /\ d[k] \in Int
  BY <1>1
<1>4. \A k \in keys : d[k] < HalfRange /\ d[k] >= 0
  <2> TAKE k \in keys
  <2>1. k \in 0 .. M - 1 /\ (k - first) % M < HalfRange
    BY <1>2
  <2> HIDE DEF M
  <2>2. (k - first) % M = IF first <= k THEN k - first ELSE k - first + M
    BY <1>1, <2>1, ModWithin
  <2>3. (k - first) % M = d[k]
    BY <1>3, <2>2
  <2>4. d[k] >= 0
    BY <1>1, <1>3, <2>1
  <2> QED  BY <2>1, <2>3, <2>4
<1>5. ASSUME NEW a \in keys, NEW b \in keys
      PROVE  TimerLess(a, b) <=> d[a] < d[b]
  <2>1. a \in 0 .. M - 1 /\ b \in 0 .. M - 1
    OBVIOUS
  <2>2. (a - b) % M = IF b <= a THEN a - b ELSE a - b + M
    <3> HIDE DEF M
    <3> QED  BY <1>1, <2>1, ModWithin
  <2>3. TimerLess(a, b) <=> (IF b <= a THEN a - b ELSE a - b + M) >= HalfRange
    BY <2>2 DEF TimerLess
  <2>4. /\ d[a] = IF first <= a THEN a - first ELSE a - first + M
        /\ d[b] = IF first <= b THEN b - first ELSE b - first + M
        /\ d[a] < HalfRange /\ d[a] >= 0 /\ d[b] < HalfRange /\ d[b] >= 0
    BY <1>3, <1>4
  <2> HIDE DEF d
  <2> QED  BY <1>1, <2>1, <2>3, <2>4
<1>6. \A k \in keys : d[k] \in Int
  BY <1>3
<1> QED  BY <1>5, <1>6

LEMMA NamesApart ==
  ASSUME NEW a \in Seq(Nat), NEW b \in Seq(Nat), NameLess(a, b)
  PROVE  ~NameLess(b, a)
<1> SUFFICES ASSUME NameLess(b, a)  PROVE FALSE
  OBVIOUS
<1>1. PICK i \in DOMAIN b : /\ \A j \in 1 .. i - 1 : j \in DOMAIN a /\ a[j] = b[j]
                            /\ i \notin DOMAIN a \/ a[i] < b[i]
  BY DEF NameLess
<1>2. PICK k \in DOMAIN a : /\ \A j \in 1 .. k - 1 : j \in DOMAIN b /\ b[j] = a[j]
                            /\ k \notin DOMAIN b \/ b[k] < a[k]
  BY DEF NameLess
<1>3. /\ DOMAIN a = 1 .. Len(a) /\ DOMAIN b = 1 .. Len(b) /\ Len(a) \in Nat /\ Len(b) \in Nat
      /\ \A j \in DOMAIN a : a[j] \in Nat
      /\ \A j \in DOMAIN b : b[j] \in Nat
  OBVIOUS
<1>4. i \in Nat /\ k \in Nat /\ i >= 1 /\ k >= 1 /\ k <= Len(a) /\ i <= Len(b)
  BY <1>3
<1>5. CASE i < k
  <2>1. i \in 1 .. k - 1 /\ i \in DOMAIN a
    BY <1>3, <1>4, <1>5
  <2>2. b[i] = a[i] /\ a[i] \in Nat
    BY <1>2, <1>3, <2>1
  <2> QED  BY <1>1, <2>1, <2>2
<1>6. CASE k < i
  <2>1. k \in 1 .. i - 1 /\ k \in DOMAIN b
    BY <1>3, <1>4, <1>6
  <2>2. b[k] = a[k] /\ a[k] \in Nat
    BY <1>1, <1>2, <1>3, <2>1
  <2> QED  BY <1>2, <2>1, <2>2
<1>7. CASE i = k
  <2>1. a[i] < b[i] /\ b[i] < a[i] /\ a[i] \in Nat /\ b[i] \in Nat
    BY <1>1, <1>2, <1>3, <1>7
  <2> QED  BY <2>1
<1> QED  BY <1>4, <1>5, <1>6, <1>7

LEMMA NamesBetween ==
  ASSUME NEW a \in Seq(Nat), NEW b \in Seq(Nat), NEW c \in Seq(Nat), NameLess(a, c)
  PROVE  NameLess(a, b) \/ NameLess(b, c)
<1>1. PICK i \in DOMAIN c : /\ \A j \in 1 .. i - 1 : j \in DOMAIN a /\ a[j] = c[j]
                            /\ i \notin DOMAIN a \/ a[i] < c[i]
  BY DEF NameLess
<1>2. /\ DOMAIN a = 1 .. Len(a) /\ DOMAIN b = 1 .. Len(b) /\ DOMAIN c = 1 .. Len(c)
      /\ Len(a) \in Nat /\ Len(b) \in Nat /\ Len(c) \in Nat
      /\ \A j \in DOMAIN a : a[j] \in Nat
      /\ \A j \in DOMAIN b : b[j] \in Nat
      /\ \A j \in DOMAIN c : c[j] \in Nat
  OBVIOUS
<1> DEFINE U == {j \in 1 .. i : j \notin DOMAIN b \/ b[j] # c[j]}
<1>3. CASE U = {}
  <2>1. \A j \in 1 .. i : j \in DOMAIN b /\ b[j] = c[j]
    BY <1>3
  <2>2. i \in 1 .. i /\ \A j \in 1 .. i - 1 : j \in 1 .. i
    BY <1>2
  <2>3. i \in DOMAIN b /\ \A j \in 1 .. i - 1 : j \in DOMAIN a /\ a[j] = b[j]
    BY <1>1, <2>1, <2>2
  <2>4. i \notin DOMAIN a \/ a[i] < b[i]
    BY <1>1, <2>1, <2>2
  <2> QED  BY <2>3, <2>4 DEF NameLess
<1>4. CASE U # {}
  <2>1. U \in SUBSET Nat
    BY <1>2
  <2>2. PICK k \in U : \A j \in U : k <= j
    BY <1>4, <2>1, HasLeast
  <2>3. k \in 1 .. i /\ (k \notin DOMAIN b \/ b[k] # c[k])
    BY <2>2
  <2>4. k \in DOMAIN c
    BY <1>2, <2>3
  <2>5. \A j \in 1 .. k - 1 : j \in DOMAIN b /\ b[j] = c[j]
    <3> TAKE j \in 1 .. k - 1
    <3>1. j \in 1 .. i /\ ~(k <= j)
      BY <1>2, <2>3
    <3> QED  BY <2>2, <3>1
  <2>6. CASE k \notin DOMAIN b \/ b[k] < c[k]
    BY <2>4, <2>5, <2>6 DEF NameLess
  <2>7. CASE k \in DOMAIN b /\ ~(b[k] < c[k])
    <3>1. c[k] < b[k]
      BY <1>2, <2>3, <2>4, <2>7
    <3>2. k \notin DOMAIN a \/ a[k] < b[k]
      <4>1. CASE k = i
        BY <1>1, <1>2, <2>4, <2>7, <3>1, <4>1
      <4>2. CASE k # i
        <5>1. k \in 1 .. i - 1
          BY <1>2, <2>3, <4>2
        <5> QED  BY <1>1, <3>1, <5>1
      <4> QED  BY <4>1, <4>2
    <3>3. \A j \in 1 .. k - 1 : j \in DOMAIN a /\ a[j] = b[j]
      <4> TAKE j \in 1 .. k - 1
      <4>1. j \in 1 .. i - 1
        BY <1>2, <2>3
      <4> QED  BY <1>1, <2>5, <4>1
    <3> QED  BY <2>7, <3>2, <3>3 DEF NameLess
  <2> QED  BY <2>6, <2>7
<1> QED  BY <1>3, <1>4

\* The keys and names that users give to the nodes S.
DataOK(t, S) ==
    /\ t.insert \in InsertType
    /\ \A x \in S : t.key[x] \in 0 .. 2 * HalfRange - 1 /\ t.name[x] \in Seq(Nat)
    /\ t.insert = "TIMER" => Near({t.key[x] : x \in S})

LEMMA DataCompares ==
  ASSUME NEW t, NEW S, DataOK(t, S)
  PROVE  Compares(t, S)
<1>1. /\ t.insert \in {"STANDARD", "TIMER", "LUADICT"}
      /\ \A x \in S : t.key[x] \in 0 .. 2 * HalfRange - 1 /\ t.name[x] \in Seq(Nat)
  BY DEF DataOK, InsertType
<1>2. \A x \in S : t.key[x] \in Int
  BY <1>1, RbtreeAssumption
<1>3. CASE t.insert = "STANDARD"
  <2>1. \A a, b \in S : Before(t, a, b) <=> t.key[a] < t.key[b]
    BY <1>3 DEF Before
  <2> QED  BY <1>2, <2>1 DEF Compares
<1>4. CASE t.insert = "TIMER"
  <2> DEFINE keys == {t.key[x] : x \in S}
  <2>1. \A a, b \in S : Before(t, a, b) <=> TimerLess(t.key[a], t.key[b])
    BY <1>4 DEF Before
  <2>2. keys \subseteq 0 .. 2 * HalfRange - 1 /\ Near(keys)
    BY <1>1, <1>4 DEF DataOK
  <2>3. \A x \in S : t.key[x] \in keys
    OBVIOUS
  <2> HIDE DEF keys
  <2>4. PICK d : /\ \A k \in keys : d[k] \in Int
                 /\ \A a, b \in keys : TimerLess(a, b) <=> d[a] < d[b]
    BY <2>2, NearTimers
  <2>5. \A a, b \in S : Before(t, a, b) <=> d[t.key[a]] < d[t.key[b]]
    BY <2>1, <2>3, <2>4
  <2>6. \A a \in S : d[t.key[a]] \in Int
    BY <2>3, <2>4
  <2> QED  BY <2>5, <2>6 DEF Compares
<1>5. CASE t.insert = "LUADICT"
  <2>1. \A a, b \in S : Before(t, a, b) <=> \/ t.key[a] < t.key[b]
                                            \/ t.key[a] = t.key[b] /\ NameLess(t.name[a], t.name[b])
    BY <1>5 DEF Before
  <2>2. ASSUME NEW a \in S, NEW b \in S, Before(t, a, b)  PROVE ~Before(t, b, a)
    <3>1. NameLess(t.name[a], t.name[b]) => ~NameLess(t.name[b], t.name[a])
      BY <1>1, NamesApart
    <3> QED  BY <1>2, <2>1, <2>2, <3>1
  <2>3. ASSUME NEW a \in S, NEW b \in S, NEW c \in S, Before(t, a, c)
        PROVE  Before(t, a, b) \/ Before(t, b, c)
    <3>1. NameLess(t.name[a], t.name[c]) =>
             NameLess(t.name[a], t.name[b]) \/ NameLess(t.name[b], t.name[c])
      BY <1>1, NamesBetween
    <3>2. t.key[a] \in Int /\ t.key[b] \in Int /\ t.key[c] \in Int
      BY <1>2
    <3>3. CASE t.key[a] < t.key[c]
      <4>1. t.key[a] < t.key[b] \/ t.key[b] < t.key[c]
        BY <3>2, <3>3
      <4> QED  BY <2>1, <4>1
    <3>4. CASE t.key[a] = t.key[c] /\ NameLess(t.name[a], t.name[c])
      <4>1. CASE t.key[b] = t.key[a]
        BY <2>1, <3>1, <3>4, <4>1
      <4>2. CASE t.key[b] # t.key[a]
        <5>1. t.key[a] < t.key[b] \/ t.key[b] < t.key[c]
          BY <3>2, <3>4, <4>2
        <5> QED  BY <2>1, <5>1
      <4> QED  BY <4>1, <4>2
    <3> QED  BY <2>1, <2>3, <3>3, <3>4
  <2> QED  BY <2>2, <2>3 DEF Compares
<1> QED  BY <1>1, <1>3, <1>4, <1>5

LEMMA NearFewer ==
  ASSUME NEW keys, Near(keys), NEW fewer, fewer \subseteq keys
  PROVE  Near(fewer)
BY DEF Near

-----------------------------------------------------------------------------
(* The order of the nodes from step to step *)

\* What EqualsStayInOrder says of a step from t to r.
OrderKept(t, r) ==
    \A old \in {InOrder(t)}, new \in {InOrder(r)} :
       \A j \in DOMAIN new : \A i \in 1 .. j - 1 :
            IF new[i] \in Linked(t)
            THEN new[j] \in Linked(t) => Seat(old, new[i]) < Seat(old, new[j])
            ELSE Before(r, new[i], new[j])

LEMMA SeatOrder ==
  ASSUME NEW old, NEW S, NEW pos, Lists(old, S, pos), \A x \in S : pos[x] \in Int,
         NEW x \in S, NEW y \in S, pos[x] < pos[y]
  PROVE  Seat(old, x) < Seat(old, y)
<1>1. /\ DOMAIN old = 1 .. Len(old) /\ Len(old) \in Nat
      /\ \A z \in S : \E i \in 1 .. Len(old) : old[i] = z
      /\ \A i, j \in 1 .. Len(old) : i < j => pos[old[i]] < pos[old[j]]
  <2>1. /\ old \in Seq(S)
        /\ \A z \in S : \E i \in 1 .. Len(old) : old[i] = z
        /\ \A i, j \in 1 .. Len(old) : i < j => pos[old[i]] < pos[old[j]]
    BY Zenon DEF Lists
  <2>2. DOMAIN old = 1 .. Len(old) /\ Len(old) \in Nat
    BY <2>1
  <2> QED  BY <2>1, <2>2, Zenon
<1>2. \A z \in S : Seat(old, z) \in 1 .. Len(old) /\ old[Seat(old, z)] = z
  BY <1>1 DEF Seat
<1> DEFINE i == Seat(old, x)
           j == Seat(old, y)
<1>3. i \in 1 .. Len(old) /\ j \in 1 .. Len(old) /\ old[i] = x /\ old[j] = y
  BY <1>2
<1> HIDE DEF i, j
<1>4. i \in Int /\ j \in Int /\ i # j /\ ~(j < i)
  BY <1>1, <1>3
<1>5. i < j
  BY <1>4
<1> QED  BY <1>5 DEF i, j

LEMMA KeepsOrder ==
  ASSUME NEW t, NEW r, NEW pos, NEW pos2, NEW S2,
         Lists(InOrder(t), Linked(t), pos), Lists(InOrder(r), S2, pos2),
         \A x \in Linked(t) : pos[x] \in Int,
         \A m, n \in Linked(t) \cap S2 : pos2[m] < pos2[n] => pos[m] < pos[n],
         \A m, n \in S2 : m \notin Linked(t) /\ pos2[m] < pos2[n] => Before(r, m, n)
  PROVE  OrderKept(t, r)
<1> DEFINE old == InOrder(t)
           new == InOrder(r)
<1>1. /\ new \in Seq(S2) /\ DOMAIN new = 1 .. Len(new) /\ Len(new) \in Nat
      /\ \A i, j \in 1 .. Len(new) : i < j => pos2[new[i]] < pos2[new[j]]
  BY DEF Lists
<1> HIDE DEF old, new
<1> SUFFICES ASSUME NEW j \in DOMAIN new, NEW i \in 1 .. j - 1
             PROVE  IF new[i] \in Linked(t)
                    THEN new[j] \in Linked(t) => Seat(old, new[i]) < Seat(old, new[j])
                    ELSE Before(r, new[i], new[j])
  BY DEF OrderKept, old, new
<1>2. i \in 1 .. Len(new) /\ j \in 1 .. Len(new) /\ i < j
  BY <1>1
<1>3. new[i] \in S2 /\ new[j] \in S2 /\ pos2[new[i]] < pos2[new[j]]
  BY <1>1, <1>2
<1>4. CASE new[i] \in Linked(t)
  <2> SUFFICES ASSUME new[j] \in Linked(t)  PROVE Seat(old, new[i]) < Seat(old, new[j])
    BY <1>4
  <2>1. pos[new[i]] < pos[new[j]]
    BY <1>3, <1>4
  <2>2. Lists(old, Linked(t), pos)
    BY DEF old
  <2> QED  BY <1>4, <2>1, <2>2, SeatOrder
<1>5. CASE new[i] \notin Linked(t)
  BY <1>3, <1>5
<1> QED  BY <1>4, <1>5

-----------------------------------------------------------------------------
(* The invariant of those that use the tree *)

\* The linked nodes make a red-black search tree of the values a caller may give.
TreeOf(t, sub, pos, h) == SortedTree(t, DOMAIN t.key, Linked(t), sub, pos, h)

TreeInv(t) ==
    /\ DataOK(t, Linked(t))
    /\ IsFiniteSet(DOMAIN t.key) /\ Sentinel \in DOMAIN t.key /\ Null \notin Linked(t)
    /\ \E sub, pos, h : TreeOf(t, sub, pos, h)

LEMMA DomainIs ==
  ASSUME NEW t, NEW D, NEW S, NEW sub, NEW pos, NEW h, SortedTree(t, D, S, sub, pos, h)
  PROVE  DOMAIN t.key = D /\ Base(t, D, S, sub, pos) /\ \A x \in S : pos[x] \in Int
BY DEF SortedTree, GoodT, Base, Ord, IsRb, FunctionOn

LEMMA EmptyTree ==
  ASSUME NEW type \in InsertType
  PROVE  TreeInv(RbInit(type))
<1> DEFINE t == RbInit(type)
           D == {Sentinel}
           sub == [n \in D |-> {}]
           h == [n \in D |-> 0]
<1>1. /\ t.root = Sentinel /\ t.insert = type
      /\ DOMAIN t.key = D /\ t.red = [n \in D |-> FALSE]
  BY DEF RbInit
<1>2. Linked(t) = {}
  BY <1>1 DEF Linked
<1>3. IsRb(t, D)
  BY DEF IsRb, RbInit, FunctionOn, Fields
<1>4. WT(t)[Sentinel] = 1
  BY <1>1 DEF WT
<1> HIDE DEF t
<1>5. IsFiniteSet({}) /\ IsFiniteSet(D)
  BY FS_EmptySet, FS_Singleton
<1>6. Base(t, D, {}, sub, sub)
  <2>1. Rooted({}, t.left, t.right, t.parent, t.root, sub)
    BY <1>1, <1>5 DEF Rooted
  <2>2. Ord({}, t.left, t.right, sub, sub)
    BY DEF Ord
  <2> QED  BY <1>3, <2>1, <2>2 DEF Base
<1>7. Good({}, t.left, t.right, t.root, WT(t), h)
  BY <1>1, <1>4 DEF Good, Leveled, Calm, Flat, Weights
<1>8. Sorted(t, {}, sub)
  BY DEF Sorted
<1>9. TreeOf(t, sub, sub, h)
  BY <1>1, <1>2, <1>6, <1>7, <1>8 DEF TreeOf, SortedTree, GoodT
<1>10. DataOK(t, {})
  <2>1. 0 \in 0 .. 2 * HalfRange - 1
    BY RbtreeAssumption
  <2>2. Near({})
    BY <2>1 DEF Near
  <2>3. {t.key[x] : x \in {}} = {}
    OBVIOUS
  <2> QED  BY <1>1, <2>2, <2>3 DEF DataOK
<1> HIDE DEF sub, h
<1>11. \E sub1, pos1, h1 : TreeOf(t, sub1, pos1, h1)
  BY <1>9
<1>12. DataOK(t, Linked(t))
  BY <1>2, <1>10
<1>13. TreeInv(t)
  BY <1>1, <1>2, <1>5, <1>11, <1>12 DEF TreeInv
<1> QED  BY <1>13 DEF t

\* A use of the tree that Link allows.
Usable(t, u) ==
    /\ u.insert \in InsertType /\ u.node \notin {Sentinel, Null}
    /\ u.key \in 0 .. 2 * HalfRange - 1 /\ u.name \in Seq(Nat)
    /\ u.insert = t.insert /\ u.node \notin Linked(t)
    /\ u.insert = "TIMER" => Near({u.key} \cup {t.key[x] : x \in Linked(t)})

LEMMA WithNodeTree ==
  ASSUME NEW t, TreeInv(t), NEW u, Usable(t, u), NEW sub, NEW pos, NEW h,
         TreeOf(t, sub, pos, h), NEW r, r = WithNode(t, u.node, u.key, u.name)
  PROVE  /\ SortedTree(r, DOMAIN t.key \cup {u.node}, Linked(t), sub, pos, h)
         /\ DataOK(r, Linked(t) \cup {u.node})
         /\ NewData(t, DOMAIN t.key, u.node, u.key, u.name, r)
<1> DEFINE D == DOMAIN t.key
           S == Linked(t)
           x == u.node
           key == u.key
           name == u.name
<1>1. SortedTree(t, D, S, sub, pos, h) /\ x \notin S /\ x # Sentinel
  BY DEF TreeOf, Usable
<1>a. r = WithNode(t, x, key, name)
  OBVIOUS
<1>2. S \cup {Sentinel} = D /\ x \notin D /\ S \subseteq D
  BY <1>1 DEF TreeInv, Linked
<1> HIDE DEF D, S, x, key, name
<1>3. GoodT(t, D, S, sub, pos, h) /\ Sorted(t, S, pos) /\ IsRb(t, D)
  BY <1>1 DEF SortedTree, GoodT, Base
<1>4. /\ IsRb(r, D \cup {x}) /\ Agree(t, r, S)
      /\ r.key[x] = key /\ r.name[x] = name /\ r.insert = t.insert
      /\ \A n \in D : r.key[n] = t.key[n] /\ r.name[n] = t.name[n]
  <2>1. IsNew(t, D, x, key, name, r, S)
    BY <1>a, <1>2, <1>3 DEF IsNew
  <2>2. IsRb(r, D \cup {x}) /\ Agree(t, r, S) /\ NewData(t, D, x, key, name, r)
    BY <2>1, NewAgree
  <2> QED  BY <2>2 DEF NewData
<1>5. GoodT(r, D \cup {x}, S, sub, pos, h)
  <2>1. S \cup {Sentinel} \subseteq D \cup {x}
    BY <1>2
  <2> QED  BY <1>3, <1>4, <2>1, AgreeGoodT
<1>6. Sorted(r, S, pos)
  BY <1>3, <1>4, AgreeSorted
<1>7. DataOK(r, S \cup {x})
  <2>1. DataOK(t, S)
    BY DEF TreeInv, S
  <2>2. {r.key[n] : n \in S \cup {x}} = {key} \cup {t.key[n] : n \in S}
    BY <1>2, <1>4
  <2>3. r.insert = "TIMER" => Near({r.key[n] : n \in S \cup {x}})
    BY <1>4, <2>2 DEF Usable, S, key
  <2>4. \A n \in S \cup {x} : r.key[n] \in 0 .. 2 * HalfRange - 1 /\ r.name[n] \in Seq(Nat)
    BY <1>2, <1>4, <2>1 DEF Usable, DataOK, key, name
  <2> QED  BY <1>4, <2>1, <2>3, <2>4 DEF DataOK
<1>8. NewData(t, D, x, key, name, r)
  BY <1>4 DEF NewData
<1> QED  BY <1>5, <1>6, <1>7, <1>8 DEF SortedTree, D, S, x, key, name

\* Link: the tree stays a search tree, and no node changes its order.
LEMMA GrownTree ==
  ASSUME NEW t, TreeInv(t), NEW u, Usable(t, u), NEW r, r = Grown(t, u)
  PROVE  /\ TreeInv(r) /\ OrderKept(t, r)
         /\ Linked(r) = Linked(t) \cup {u.node}
         /\ NewData(t, DOMAIN t.key, u.node, u.key, u.name, r)
<1> DEFINE D == DOMAIN t.key
           S == Linked(t)
           x == u.node
           D2 == D \cup {x}
           S2 == S \cup {x}
           a == WithNode(t, x, u.key, u.name)
<1>1. PICK sub, pos, h : TreeOf(t, sub, pos, h)
  BY DEF TreeInv
<1>2. SortedTree(a, D2, S, sub, pos, h) /\ DataOK(a, S2)
  BY <1>1, WithNodeTree
<1>3. r = RbInsert(a, x)
  BY DEF Grown
<1>a. NewData(t, D, x, u.key, u.name, a)
  BY <1>1, WithNodeTree
<1>4. /\ x \notin S /\ x # Sentinel /\ x # Null /\ Null \notin S
      /\ IsFiniteSet(D) /\ Sentinel \in D /\ S = D \ {Sentinel}
  BY DEF Usable, TreeInv, Linked
<1> HIDE DEF a, x
<1>5. IsFiniteSet(D2) /\ x \in D2 /\ Sentinel \in D2 /\ S2 = D2 \ {Sentinel} /\ Null \notin S2
  BY <1>4, FS_AddElement
<1>6. SortedTree(t, D, S, sub, pos, h)
  BY <1>1 DEF TreeOf
<1> HIDE DEF D, S
<1>7. Compares(a, S \cup {x})
  BY <1>2, DataCompares
<1> HIDE DEF D2, S2
<1>8. /\ \E sub2, pos2, h2 : /\ SortedTree(r, D2, S \cup {x}, sub2, pos2, h2)
                             /\ Slotted(a, S, pos, x, pos2)
      /\ SameData(a, r)
  BY <1>2, <1>3, <1>4, <1>5, <1>7, InsertTree
<1>9. PICK sub2, pos2, h2 : /\ SortedTree(r, D2, S2, sub2, pos2, h2)
                            /\ Slotted(a, S, pos, x, pos2)
  BY <1>8 DEF S2
<1>10. DOMAIN r.key = D2 /\ Base(r, D2, S2, sub2, pos2) /\ \A n \in S2 : pos2[n] \in Int
  BY <1>9, DomainIs
<1>11. Linked(r) = S2
  BY <1>5, <1>10 DEF Linked
<1>12. DataOK(r, S2)
  BY <1>2, <1>8 DEF DataOK, SameData
<1>13. TreeOf(r, sub2, pos2, h2)
  BY <1>9, <1>10, <1>11 DEF TreeOf
<1>14. TreeInv(r)
  BY <1>5, <1>10, <1>11, <1>12, <1>13 DEF TreeInv
<1>15. OrderKept(t, r)
  <2>1. Base(t, D, S, sub, pos) /\ \A n \in S : pos[n] \in Int
    BY <1>6, DomainIs
  <2>2. Lists(InOrder(t), S, pos) /\ Lists(InOrder(r), S2, pos2)
    BY <1>4, <1>5, <1>10, <2>1, InOrderLists
  <2>3. \A m, n \in S \cap S2 : pos2[m] < pos2[n] => pos[m] < pos[n]
    BY <1>9 DEF Slotted
  <2>4. ASSUME NEW m \in S2, NEW n \in S2, m \notin S, pos2[m] < pos2[n]
        PROVE  Before(r, m, n)
    <3>1. m = x
      BY <2>4 DEF S2
    <3>2. n # m
      BY <1>10, <2>4
    <3>3. n \in S
      BY <3>1, <3>2 DEF S2
    <3>4. Before(a, m, n)
      BY <1>9, <2>4, <3>1, <3>3 DEF Slotted
    <3> QED  BY <1>8, <3>4, SameBefore
  <2>5. S = Linked(t)
    BY DEF S
  <2> QED  BY <2>1, <2>2, <2>3, <2>4, <2>5, KeepsOrder
<1>16. NewData(t, D, x, u.key, u.name, r)
  BY <1>a, <1>8 DEF NewData, SameData
<1>17. Linked(r) = S \cup {x}
  BY <1>11 DEF S2
<1> QED  BY <1>14, <1>15, <1>16, <1>17 DEF D, S, x

\* Unlink: the tree of the nodes that stay is a search tree, in the same order.
LEMMA ShrunkTree ==
  ASSUME NEW t, TreeInv(t), NEW x \in Linked(t), NEW r, r = WithoutNode(RbDelete(t, x), x)
  PROVE  /\ TreeInv(r) /\ OrderKept(t, r)
         /\ Linked(r) = Linked(t) \ {x} /\ SameBut(t, r, DOMAIN t.key, x)
<1> DEFINE D == DOMAIN t.key
           S == Linked(t)
           D2 == D \ {x}
           S2 == S \ {x}
<1>1. PICK sub, pos, h : TreeOf(t, sub, pos, h)
  BY DEF TreeInv
<1>2. SortedTree(t, D, S, sub, pos, h)
  BY <1>1 DEF TreeOf
<1>3. /\ Null \notin S /\ IsFiniteSet(D) /\ Sentinel \in D /\ S = D \ {Sentinel}
      /\ DataOK(t, S) /\ x \in S
  BY DEF TreeInv, Linked
<1> HIDE DEF D, S
<1>4. IsFiniteSet(D2) /\ Sentinel \in D2 /\ S2 = D2 \ {Sentinel} /\ Null \notin S2
  BY <1>3, FS_Subset
<1>5. /\ \E sub2, h2 : SortedTree(r, D \ {x}, S \ {x}, sub2, pos, h2)
      /\ SameBut(t, r, D, x)
  BY <1>2, <1>3, DeleteTree
<1>6. PICK sub2, h2 : SortedTree(r, D2, S2, sub2, pos, h2)
  BY <1>5
<1>7. /\ r.insert = t.insert /\ \A n \in S2 : r.key[n] = t.key[n] /\ r.name[n] = t.name[n]
  BY <1>3, <1>5 DEF SameBut
<1>8. DataOK(r, S2)
  <2> DEFINE keys == {t.key[n] : n \in S}
             fewer == {r.key[n] : n \in S2}
  <2>1. fewer \subseteq keys
    BY <1>7
  <2>2. r.insert = "TIMER" => Near(keys)
    BY <1>3, <1>7 DEF DataOK
  <2> HIDE DEF keys, fewer
  <2>3. r.insert = "TIMER" => Near(fewer)
    BY <2>1, <2>2, NearFewer
  <2>4. r.insert = "TIMER" => Near({r.key[n] : n \in S2})
    BY <2>3 DEF fewer
  <2> QED  BY <1>3, <1>7, <2>4 DEF DataOK
<1> HIDE DEF D2, S2
<1>9. DOMAIN r.key = D2 /\ Base(r, D2, S2, sub2, pos)
  BY <1>6, DomainIs
<1>10. Linked(r) = S2
  BY <1>4, <1>9 DEF Linked
<1>11. TreeOf(r, sub2, pos, h2)
  BY <1>6, <1>9, <1>10 DEF TreeOf
<1>12. TreeInv(r)
  BY <1>4, <1>8, <1>9, <1>10, <1>11 DEF TreeInv
<1>13. OrderKept(t, r)
  <2>1. Base(t, D, S, sub, pos) /\ \A n \in S : pos[n] \in Int
    BY <1>2, DomainIs
  <2>2. Lists(InOrder(t), S, pos) /\ Lists(InOrder(r), S2, pos)
    BY <1>3, <1>4, <1>9, <2>1, InOrderLists
  <2>3. S = Linked(t) /\ \A m \in S2 : m \in S
    BY DEF S, S2
  <2> QED  BY <2>1, <2>2, <2>3, KeepsOrder
<1> QED  BY <1>5, <1>10, <1>12, <1>13 DEF D, S, S2

\* What the invariant says of mps_rbtree_next and of the length of the ways down.
LEMMA TreeMeans ==
  ASSUME NEW t, TreeInv(t)
  PROVE  IsTree(t) /\ IsOrdered(t) /\ NextInOrder(t) /\ IsBalanced(t)
<1>1. PICK sub, pos, h : SortedTree(t, DOMAIN t.key, Linked(t), sub, pos, h)
  BY DEF TreeInv, TreeOf
<1>2. IsFiniteSet(DOMAIN t.key) /\ Null \notin Linked(t)
  BY DEF TreeInv
<1> QED  BY <1>1, <1>2, TreeOrdered, TreeBalanced
=============================================================================
