------------------------- MODULE DictRegistryProofs -------------------------
(***************************************************************************)
(* DictRegistry, for any names, clients and addresses: where realloc does  *)
(* not fail to shrink the array, every element of it is the only one of    *)
(* its name and has its file mapped.  Where it does fail, the element that *)
(* close moved is left at its old place too, and this is lost: shrinking   *)
(* is assumed to succeed, growing and mapping are not.                     *)
(*                                                                         *)
(* RegistryExact is inductive with the type: since the names differ, so do *)
(* the addresses, and close unmaps the pool of one element only.           *)
(***************************************************************************)
EXTENDS DictRegistry, WellFoundedInduction, TLAPS

\* A set of positions has a first one, which find_dict_by_pathname returns.
LEMMA HasLeast ==
    ASSUME NEW T \in SUBSET Nat, T # {}
    PROVE  \E k \in T : \A j \in T : k <= j
<1>1. PICK r : r = OpToRel(<, Nat)
  BY Zenon
<1>2. \E k \in T : \A j \in T : ~(<<j, k>> \in r)
  BY <1>1, NatLessThanWellFounded, WFMin, Zenon
<1>3. \A j, k \in Nat : <<j, k>> \in OpToRel(<, Nat) <=> j < k
  BY DEF OpToRel
<1>4. \A j, k \in Nat : <<j, k>> \in r <=> j < k
  BY <1>1, <1>3, Zenon
<1>5. PICK k \in T : \A j \in T : ~(<<j, k>> \in r)
  BY <1>2
<1>6. k \in Nat /\ \A j \in T : j \in Nat
  OBVIOUS
<1>7. \A j \in T : ~(j < k)
  BY <1>4, <1>5, <1>6, Zenon
<1> QED  BY <1>6, <1>7

\* Without the last element.
LEMMA FrontOf ==
    ASSUME NEW S, NEW f \in Seq(S), Len(f) # 0
    PROVE  /\ Front(f) \in Seq(S) /\ Len(Front(f)) = Len(f) - 1
           /\ \A j \in 1 .. Len(f) - 1 : Front(f)[j] = f[j]
<1>0. Len(f) - 1 \in Nat /\ Len(f) - 1 <= Len(f)
  <2>1. Len(f) \in Nat
    OBVIOUS
  <2>2. \A m \in Nat : m # 0 => m - 1 \in Nat /\ m - 1 <= m
    OBVIOUS
  <2> QED  BY <2>1, <2>2, Zenon
<1>1. PICK n \in Nat : n = Len(f) - 1 /\ n <= Len(f)
  BY <1>0, Zenon
<1>2. Front(f) = SubSeq(f, 1, n)
  <2>1. Front(f) = SubSeq(f, 1, Len(f) - 1)
    BY Zenon DEF Front
  <2> QED  BY <1>1, <2>1
<1>3. SubSeq(f, 1, n) \in Seq(S) /\ Len(SubSeq(f, 1, n)) = n
  BY <1>1
<1>4. \A j \in 1 .. n : SubSeq(f, 1, n)[j] = f[j]
  BY <1>1
<1> QED  BY <1>1, <1>2, <1>3, <1>4

GapFilled(d, i) == Front([d EXCEPT ![i] = Last(d)])

\* The array without its element i, when the last one has taken its place.
LEMMA FillGap ==
    ASSUME NEW S, NEW d \in Seq(S), NEW i \in 1 .. Len(d)
    PROVE  /\ GapFilled(d, i) \in Seq(S) /\ Len(GapFilled(d, i)) = Len(d) - 1
           /\ \A j \in 1 .. Len(d) - 1 :
                GapFilled(d, i)[j] = IF j = i THEN d[Len(d)] ELSE d[j]
<1>0. PICK e : e = GapFilled(d, i)
  OBVIOUS
<1>1. Len(d) - 1 \in Nat /\ Len(d) \in 1 .. Len(d) /\ d[Len(d)] \in S
  OBVIOUS
<1>2. PICK f : f = [d EXCEPT ![i] = d[Len(d)]]
  OBVIOUS
<1>3. f \in Seq(S) /\ Len(f) = Len(d)
  BY <1>1, <1>2
<1>4. \A j \in 1 .. Len(d) : f[j] = IF j = i THEN d[Len(d)] ELSE d[j]
  BY <1>1, <1>2
<1>5. e = Front(f)
  BY <1>0, <1>2, Zenon DEF Last, GapFilled
<1>6. e \in Seq(S) /\ Len(e) = Len(d) - 1 /\ \A j \in 1 .. Len(d) - 1 : e[j] = f[j]
  <2>1. Len(f) # 0
    BY <1>1, <1>3
  <2>2. /\ Front(f) \in Seq(S) /\ Len(Front(f)) = Len(f) - 1
        /\ \A j \in 1 .. Len(f) - 1 : Front(f)[j] = f[j]
    BY <1>3, <2>1, FrontOf, Zenon
  <2> QED  BY <1>3, <1>5, <2>2
<1>7. \A j \in 1 .. Len(d) - 1 : j \in 1 .. Len(d)
  BY <1>1
<1> QED  BY <1>0, <1>4, <1>6, <1>7

\* A process starts without dictionaries.
LEMMA RegistryInit == Init => TypeOK /\ RegistryExact
BY RegistryAssumption DEF Init, TypeOK, RegistryExact, Handle, Dict

\* What close does, case by case.
LEMMA CloseCases ==
    ASSUME TypeOK, NEW c \in Client, Close(c)
    PROVE  /\ handle[c] # None /\ handle' = [handle EXCEPT ![c] = Released(handle[c])]
           /\ \/ UNCHANGED <<dicts, base, mapped>>
              \/ \E i \in 1 .. Len(dicts) :
                   /\ mapped' = [mapped EXCEPT ![dicts[i].pool] = None]
                   /\ \/ Len(dicts) = 1 /\ dicts' = <<>> /\ base' = None
                      \/ /\ dicts' = GapFilled(dicts, i)
                         /\ Len(dicts) > 1 /\ base' \in Address
                      \/ /\ ShrinkFails /\ Len(dicts) > 1 /\ UNCHANGED base
                         /\ dicts' = [dicts EXCEPT ![i] = Last(dicts)]
<1>1. dicts \in Seq(Dict)
  BY DEF TypeOK
<1>2. PICK i : i = IndexOf(handle[c])
  OBVIOUS
<1>3. i = 0 \/ i \in 1 .. Len(dicts)
  BY <1>1, <1>2 DEF IndexOf
<1> QED  BY <1>2, <1>3 DEF Close, Unmapped, Reallocated, GapFilled

-----------------------------------------------------------------------------

\* Every call keeps the types.
LEMMA TypeStep == TypeOK /\ [Next]_vars => TypeOK'
<1> SUFFICES ASSUME TypeOK, [Next]_vars PROVE TypeOK'
  OBVIOUS
<1>1. /\ dicts \in Seq(Dict) /\ Len(dicts) \in Nat
      /\ base \in Address \cup {None} /\ (base = None <=> dicts = <<>>)
      /\ mapped \in [Address -> Name \cup {None}]
      /\ handle \in [Client -> Handle \cup {None}]
  BY DEF TypeOK
<1>2. \A i \in 1 .. Len(dicts) : dicts[i].pool \in Address
  <2>1. \A i \in 1 .. Len(dicts) : dicts[i] \in Dict
    BY <1>1
  <2> QED  BY <2>1 DEF Dict
<1>3. ASSUME NEW c \in Client, Close(c) PROVE TypeOK'
  <2>1. handle[c] \in Handle
    BY <1>1, <1>3 DEF Close
  <2>2. handle' \in [Client -> Handle \cup {None}]
    <3>1. Released(handle[c]) \in Handle
      BY <2>1 DEF Handle, Released
    <3> QED  BY <1>1, <1>3, <3>1, CloseCases
  <2>3. CASE UNCHANGED <<dicts, base, mapped>>
    BY <1>1, <2>2, <2>3 DEF TypeOK
  <2>4. ASSUME NEW i \in 1 .. Len(dicts), mapped' = [mapped EXCEPT ![dicts[i].pool] = None]
        PROVE  mapped' \in [Address -> Name \cup {None}]
    BY <1>1, <2>4
  <2>5. CASE dicts' = <<>> /\ base' = None /\ mapped' \in [Address -> Name \cup {None}]
    BY <2>2, <2>5 DEF TypeOK
  <2>6. ASSUME NEW i \in 1 .. Len(dicts), Len(dicts) > 1,
               dicts' = GapFilled(dicts, i), base' \in Address,
               mapped' \in [Address -> Name \cup {None}]
        PROVE  TypeOK'
    <3>1. dicts' \in Seq(Dict) /\ Len(dicts') = Len(dicts) - 1
      BY <1>1, <2>6, FillGap
    <3>2. dicts' # <<>> /\ base' # None
      BY <1>1, <2>6, <3>1, RegistryAssumption
    <3> QED  BY <2>2, <2>6, <3>1, <3>2 DEF TypeOK
  <2>7. ASSUME NEW i \in 1 .. Len(dicts), dicts' = [dicts EXCEPT ![i] = Last(dicts)],
               UNCHANGED base, mapped' \in [Address -> Name \cup {None}]
        PROVE  TypeOK'
    <3>1. Last(dicts) \in Dict
      BY <1>1, <2>7 DEF Last
    <3>2. dicts' \in Seq(Dict) /\ Len(dicts') = Len(dicts) /\ Len(dicts) # 0
      BY <1>1, <2>7, <3>1
    <3>3. dicts' # <<>> /\ dicts # <<>>
      BY <3>2
    <3> QED  BY <1>1, <2>2, <2>7, <3>2, <3>3 DEF TypeOK
  <2> QED  BY <1>3, <2>3, <2>4, <2>5, <2>6, <2>7, CloseCases
<1>4. ASSUME NEW c \in Client, NEW name \in Name, Open(c, name) PROVE TypeOK'
  <2>1. ASSUME NEW i \in Nat \ {0}, NEW b \in Address, Hold(c, i, name, b)
        PROVE  handle' \in [Client -> Handle \cup {None}]
    BY <1>1, <2>1 DEF Hold, Handle
  <2>2. CASE OpenAgain(c, name)
    <3>1. Found(name) # {} /\ Found(name) \subseteq 1 .. Len(dicts)
      <4>1. Found(name) # {}
        BY <2>2, Zenon DEF OpenAgain
      <4>2. Found(name) \subseteq DOMAIN dicts
        BY Zenon DEF Found
      <4>3. dicts \in Seq(Dict)
        BY <1>1
      <4> QED  BY <4>1, <4>2, <4>3
    <3>2. PICK i : i = CHOOSE x \in Found(name) : \A j \in Found(name) : x <= j
      OBVIOUS
    <3>3. i \in Found(name)
      <4>1. \E k \in Found(name) : \A j \in Found(name) : k <= j
        <5>1. Found(name) \in SUBSET Nat
          BY <1>1, <3>1
        <5> QED  BY <3>1, <5>1, HasLeast, Zenon
      <4> QED  BY <3>2, <4>1
    <3>4. i \in Nat \ {0} /\ dicts # <<>>
      BY <1>1, <3>1, <3>3
    <3>5. base \in Address
      BY <1>1, <3>4
    <3> QED  BY <1>1, <2>1, <2>2, <3>2, <3>4, <3>5 DEF OpenAgain, TypeOK
  <2>3. CASE OpenNew(c, name)
    <3>1. PICK a \in Address : /\ mapped' = [mapped EXCEPT ![a] = name]
                               /\ dicts' = Append(dicts, [name |-> name, pool |-> a])
      BY <2>3 DEF OpenNew, Grown
    <3>2. dicts' \in Seq(Dict) /\ dicts' # <<>>
      BY <1>1, <3>1 DEF Dict
    <3>3. base' \in Address /\ base' # None
      BY <2>3, RegistryAssumption DEF OpenNew, Reallocated
    <3>4. Hold(c, Len(dicts) + 1, name, base') /\ Len(dicts) + 1 \in Nat \ {0}
      BY <1>1, <2>3 DEF OpenNew
    <3> QED  BY <1>1, <2>1, <3>1, <3>2, <3>3, <3>4 DEF TypeOK
  <2>4. CASE OpenFails(name)
    BY <2>4 DEF OpenFails, vars, TypeOK
  <2>5. CASE OpenLeaks(name)
    BY <1>1, <2>5 DEF OpenLeaks, TypeOK
  <2> QED  BY <1>4, <2>2, <2>3, <2>4, <2>5 DEF Open
<1>5. CASE UNCHANGED vars
  BY <1>5 DEF vars, TypeOK
<1> QED  BY <1>3, <1>4, <1>5 DEF Next

-----------------------------------------------------------------------------

\* Each call keeps the names apart and the pools mapped, if the array shrinks.
LEMMA RegistryStep == ~ShrinkFails /\ TypeOK /\ RegistryExact /\ [Next]_vars => RegistryExact'
<1> SUFFICES ASSUME ~ShrinkFails, TypeOK, RegistryExact, [Next]_vars PROVE RegistryExact'
  OBVIOUS
<1>1. /\ dicts \in Seq(Dict) /\ Len(dicts) \in Nat /\ DOMAIN dicts = 1 .. Len(dicts)
      /\ mapped \in [Address -> Name \cup {None}]
  BY DEF TypeOK
<1>2. \A i \in 1 .. Len(dicts) : dicts[i] \in Dict
  BY <1>1
<1>3. /\ \A i, j \in 1 .. Len(dicts) : dicts[i].name = dicts[j].name => i = j
      /\ \A i \in 1 .. Len(dicts) : mapped[dicts[i].pool] = dicts[i].name
  BY <1>1 DEF RegistryExact
<1>4. \A i \in 1 .. Len(dicts) : dicts[i].pool \in Address /\ dicts[i].name \in Name
  BY <1>2 DEF Dict
<1>n. None \notin Name
  BY RegistryAssumption
<1>5. ASSUME NEW c \in Client, Close(c) PROVE RegistryExact'
  <2>1. CASE UNCHANGED <<dicts, base, mapped>>
    BY <2>1 DEF RegistryExact
  <2>2. CASE dicts' = <<>>
    BY <2>2 DEF RegistryExact
  <2>3. ASSUME NEW i \in 1 .. Len(dicts), mapped' = [mapped EXCEPT ![dicts[i].pool] = None],
               dicts' = GapFilled(dicts, i)
        PROVE  RegistryExact'
    <3>g. /\ dicts' \in Seq(Dict) /\ Len(dicts') = Len(dicts) - 1
          /\ \A j \in 1 .. Len(dicts) - 1 :
               dicts'[j] = IF j = i THEN dicts[Len(dicts)] ELSE dicts[j]
      BY <1>1, <2>3, FillGap
    <3> DEFINE from(j) == IF j = i THEN Len(dicts) ELSE j
    <3>1. /\ dicts' \in Seq(Dict) /\ Len(dicts') = Len(dicts) - 1
          /\ \A j \in 1 .. Len(dicts') : dicts'[j] = dicts[from(j)]
      BY <3>g
    <3>2. /\ \A j \in 1 .. Len(dicts') : from(j) \in 1 .. Len(dicts) /\ from(j) # i
          /\ \A j, k \in 1 .. Len(dicts') : from(j) = from(k) => j = k
      <4>1. Len(dicts') = Len(dicts) - 1 /\ Len(dicts) \in Nat /\ i \in 1 .. Len(dicts)
        BY <1>1, <3>1
      <4> QED  BY <4>1
    <3> HIDE DEF from
    <3>3. ASSUME NEW j \in 1 .. Len(dicts'), NEW k \in 1 .. Len(dicts'),
                 dicts'[j].name = dicts'[k].name
          PROVE  j = k
      BY <1>3, <3>1, <3>2, <3>3
    <3>4. ASSUME NEW j \in 1 .. Len(dicts') PROVE mapped'[dicts'[j].pool] = dicts'[j].name
      <4>1. dicts[from(j)].pool # dicts[i].pool
        BY <1>3, <3>2
      <4>2. dicts[from(j)].pool \in Address
        BY <1>4, <3>2
      <4>3. mapped'[dicts[from(j)].pool] = mapped[dicts[from(j)].pool]
        BY <1>1, <2>3, <4>1, <4>2
      <4> QED  BY <1>3, <3>1, <3>2, <4>3
    <3>5. DOMAIN dicts' = 1 .. Len(dicts')
      BY <3>1
    <3> QED  BY <3>3, <3>4, <3>5 DEF RegistryExact
  <2> QED  BY <1>5, <2>1, <2>2, <2>3, CloseCases
<1>6. ASSUME NEW c \in Client, NEW name \in Name, Open(c, name) PROVE RegistryExact'
  <2>1. CASE UNCHANGED <<dicts, mapped>>
    BY <2>1 DEF RegistryExact
  <2>2. CASE OpenNew(c, name)
    <3>1. PICK a \in Address : /\ mapped[a] = None /\ mapped' = [mapped EXCEPT ![a] = name]
                               /\ dicts' = Append(dicts, [name |-> name, pool |-> a])
      BY <2>2 DEF OpenNew, Grown
    <3>2. \A i \in 1 .. Len(dicts) : dicts[i].name # name
      BY <1>1, <2>2 DEF OpenNew, Found
    <3>3. [name |-> name, pool |-> a] \in Dict
      BY DEF Dict
    <3>4. /\ DOMAIN dicts' = 1 .. Len(dicts) + 1
          /\ dicts'[Len(dicts) + 1] = [name |-> name, pool |-> a]
          /\ \A i \in 1 .. Len(dicts) : dicts'[i] = dicts[i]
      BY <1>1, <3>1, <3>3
    <3>5. mapped'[a] = name /\ \A b \in Address \ {a} : mapped'[b] = mapped[b]
      BY <1>1, <3>1
    <3>6. \A i \in 1 .. Len(dicts) : dicts[i].pool # a
      BY <1>3, <1>4, <3>1, <1>n
    <3>7. \A i \in 1 .. Len(dicts) + 1 : i = Len(dicts) + 1 \/ i \in 1 .. Len(dicts)
      BY <1>1
    <3>8. \A i, j \in 1 .. Len(dicts) + 1 : dicts'[i].name = dicts'[j].name => i = j
      BY <1>3, <3>2, <3>4, <3>7
    <3>9. \A i \in 1 .. Len(dicts) + 1 : mapped'[dicts'[i].pool] = dicts'[i].name
      BY <1>3, <1>4, <3>4, <3>5, <3>6, <3>7
    <3> QED  BY <3>4, <3>8, <3>9 DEF RegistryExact
  <2>3. CASE OpenLeaks(name)
    <3>1. PICK a \in Address : mapped[a] = None /\ mapped' = [mapped EXCEPT ![a] = name]
      BY <2>3 DEF OpenLeaks
    <3>2. \A i \in 1 .. Len(dicts) : dicts[i].pool # a
      BY <1>3, <1>4, <3>1, <1>n
    <3>3. \A i \in 1 .. Len(dicts) : mapped'[dicts[i].pool] = mapped[dicts[i].pool]
      BY <1>1, <1>4, <3>1, <3>2
    <3>4. dicts' = dicts
      BY <2>3 DEF OpenLeaks
    <3> QED  BY <1>1, <1>3, <3>3, <3>4 DEF RegistryExact
  <2>4. OpenAgain(c, name) \/ OpenFails(name) => UNCHANGED <<dicts, mapped>>
    BY DEF OpenAgain, OpenFails, vars
  <2> QED  BY <1>6, <2>1, <2>2, <2>3, <2>4 DEF Open
<1>7. CASE UNCHANGED vars
  BY <1>7 DEF vars, RegistryExact
<1> QED  BY <1>5, <1>6, <1>7 DEF Next

-----------------------------------------------------------------------------

\* Types, whatever fails.
THEOREM TypeCorrect == Spec => []TypeOK
<1>1. Init => TypeOK
  BY RegistryInit
<1> QED  BY <1>1, TypeStep, PTL DEF Spec

\* open_or_create and close keep one mapped pool per open name: no dictionary is
\* registered twice, and none is handed out after its pool was unmapped.
THEOREM RegistryIsExact == ~ShrinkFails => (Spec => []RegistryExact)
<1> SUFFICES ASSUME ~ShrinkFails PROVE Spec => []RegistryExact
  OBVIOUS
<1>1. Init => TypeOK /\ RegistryExact
  BY RegistryInit
<1>2. TypeOK /\ RegistryExact /\ [Next]_vars => (TypeOK /\ RegistryExact)'
  BY TypeStep, RegistryStep
<1> QED  BY <1>1, <1>2, PTL DEF Spec

-----------------------------------------------------------------------------

\* A close unmaps the one element that it removes.
LEMMA LeakStep == TypeOK /\ [Next]_vars => Unreachable' \subseteq Unreachable \/ handle' = handle
<1> SUFFICES ASSUME TypeOK, [Next]_vars, handle' # handle
             PROVE  \A a \in Address : a \in Unreachable' => a \in Unreachable
  BY DEF Unreachable
<1> TAKE a \in Address
<1> SUFFICES ASSUME mapped'[a] # None, \A i \in DOMAIN dicts' : dicts'[i].pool # a
             PROVE  mapped[a] # None /\ \A i \in DOMAIN dicts : dicts[i].pool # a
  BY DEF Unreachable
<1>1. /\ dicts \in Seq(Dict) /\ Len(dicts) \in Nat /\ DOMAIN dicts = 1 .. Len(dicts)
      /\ mapped \in [Address -> Name \cup {None}]
  BY DEF TypeOK
<1>2. \A i \in 1 .. Len(dicts) : dicts[i].pool \in Address
  <2>1. \A i \in 1 .. Len(dicts) : dicts[i] \in Dict
    BY <1>1
  <2> QED  BY <2>1 DEF Dict
<1>3. CASE UNCHANGED <<dicts, mapped>>
  BY <1>3
<1>4. ASSUME NEW i \in 1 .. Len(dicts), mapped' = [mapped EXCEPT ![dicts[i].pool] = None],
             \A j \in 1 .. Len(dicts) :
                 j # i => \E k \in DOMAIN dicts' : dicts'[k].pool = dicts[j].pool
      PROVE  mapped[a] # None /\ \A j \in DOMAIN dicts : dicts[j].pool # a
  <2>1. dicts[i].pool # a
    BY <1>1, <1>2, <1>4
  <2>2. mapped'[a] = mapped[a]
    BY <1>1, <1>2, <1>4, <2>1
  <2> QED  BY <1>1, <1>4, <2>1, <2>2
<1>5. ASSUME NEW c \in Client, Close(c)
      PROVE  mapped[a] # None /\ \A j \in DOMAIN dicts : dicts[j].pool # a
  <2>1. CASE Len(dicts) = 1
    <3>1. \A i, j \in 1 .. Len(dicts) : i = j
      BY <2>1
    <3>2. \/ UNCHANGED <<dicts, mapped>>
          \/ \E i \in 1 .. Len(dicts) : mapped' = [mapped EXCEPT ![dicts[i].pool] = None]
      BY <1>5, CloseCases
    <3> QED  BY <1>3, <1>4, <3>1, <3>2
  <2>2. ASSUME NEW i \in 1 .. Len(dicts), dicts' = GapFilled(dicts, i), Len(dicts) > 1
        PROVE  \A j \in 1 .. Len(dicts) :
                   j # i => \E k \in DOMAIN dicts' : dicts'[k].pool = dicts[j].pool
    <3>1. /\ dicts' \in Seq(Dict) /\ Len(dicts') = Len(dicts) - 1
          /\ \A j \in 1 .. Len(dicts) - 1 :
               dicts'[j] = IF j = i THEN dicts[Len(dicts)] ELSE dicts[j]
      BY <1>1, <2>2, FillGap
    <3>2. DOMAIN dicts' = 1 .. Len(dicts) - 1
      BY <3>1
    <3>n. Len(dicts) \in Nat
      BY <1>1
    <3>o. \A j, k \in 1 .. Len(dicts) : j # k => j \in 1 .. Len(dicts) - 1 \/ j = Len(dicts)
      BY <3>n
    <3> TAKE j \in 1 .. Len(dicts)
    <3> HAVE j # i
    <3>3. CASE j = Len(dicts)
      <4>1. i \in 1 .. Len(dicts) - 1
        BY <3>o, <3>3
      <4>2. dicts'[i] = dicts[j]
        BY <3>1, <3>3, <4>1
      <4> QED  BY <3>2, <4>1, <4>2
    <3>4. CASE j # Len(dicts)
      <4>1. j \in 1 .. Len(dicts) - 1
        BY <3>o, <3>4
      <4>2. dicts'[j] = dicts[j]
        BY <3>1, <4>1
      <4> QED  BY <3>2, <4>1, <4>2
    <3> QED  BY <3>3, <3>4
  <2>3. ASSUME NEW i \in 1 .. Len(dicts), dicts' = [dicts EXCEPT ![i] = Last(dicts)]
        PROVE  \A j \in 1 .. Len(dicts) :
                   j # i => \E k \in DOMAIN dicts' : dicts'[k].pool = dicts[j].pool
    BY <1>1, <2>3
  <2> QED  BY <1>3, <1>4, <1>5, <2>1, <2>2, <2>3, CloseCases
<1>6. ASSUME NEW c \in Client, NEW name \in Name, Open(c, name)
      PROVE  mapped[a] # None /\ \A j \in DOMAIN dicts : dicts[j].pool # a
  <2>1. CASE OpenNew(c, name)
    <3>1. PICK b \in Address : /\ mapped[b] = None /\ mapped' = [mapped EXCEPT ![b] = name]
                               /\ dicts' = Append(dicts, [name |-> name, pool |-> b])
      BY <2>1 DEF OpenNew, Grown
    <3>2. [name |-> name, pool |-> b] \in Dict
      BY DEF Dict
    <3>3. /\ DOMAIN dicts' = 1 .. Len(dicts) + 1
          /\ dicts'[Len(dicts) + 1] = [name |-> name, pool |-> b]
          /\ \A i \in 1 .. Len(dicts) : dicts'[i] = dicts[i] /\ i \in 1 .. Len(dicts) + 1
      BY <1>1, <3>1, <3>2
    <3>4. Len(dicts) + 1 \in DOMAIN dicts'
      BY <1>1, <3>3
    <3>5. b # a
      BY <3>3, <3>4
    <3>6. mapped[a] = mapped'[a]
      BY <1>1, <3>1, <3>5
    <3> QED  BY <1>1, <3>3, <3>6
  <2> QED  BY <1>3, <1>6, <2>1 DEF Open, OpenAgain, OpenFails, OpenLeaks, vars
<1>7. CASE UNCHANGED vars
  BY <1>7 DEF vars
<1> QED  BY <1>5, <1>6, <1>7 DEF Next

\* A mapping without an element is left only by an open that reports a failure,
\* whatever else fails.
THEOREM LeaksAreReported == Spec => LeaksReported
<1>1. Init => TypeOK
  BY RegistryInit
<1>2. TypeOK /\ [Next]_vars => [Unreachable' \subseteq Unreachable \/ handle' = handle]_vars
  BY LeakStep
<1> QED  BY <1>1, <1>2, TypeStep, PTL DEF Spec, LeaksReported

-----------------------------------------------------------------------------

\* What one step can do to the handle of a client.
HandleKept(c) ==
    (/\ handle[c] # None /\ handle'[c] = handle[c]
     /\ Right(handle[c]) /\ ~Right(handle[c])')
    => base' # base \/ Len(dicts') < Len(dicts)

\* Only close shortens the array; an array that grows in place keeps its elements.
LEMMA HandleStep ==
    ASSUME ~ShrinkFails, TypeOK, [Next]_vars, NEW c \in Client
    PROVE  HandleKept(c)
<1> SUFFICES ASSUME handle'[c] = handle[c], Right(handle[c]), base' = base,
                    ~(Len(dicts') < Len(dicts))
             PROVE  Right(handle[c])'
  BY DEF HandleKept
<1>1. /\ dicts \in Seq(Dict) /\ Len(dicts) \in Nat /\ DOMAIN dicts = 1 .. Len(dicts)
  BY DEF TypeOK
<1>2. CASE dicts' = dicts
  BY <1>2 DEF Right, IndexOf
<1>3. ASSUME NEW d \in Client, Close(d) PROVE dicts' = dicts
  <2>1. CASE dicts' = <<>> /\ Len(dicts) = 1
    BY <2>1
  <2>2. ASSUME NEW i \in 1 .. Len(dicts), dicts' = GapFilled(dicts, i) PROVE FALSE
    <3>1. Len(dicts') = Len(dicts) - 1
      BY <1>1, <2>2, FillGap
    <3> QED  BY <1>1, <3>1
  <2> QED  BY <1>3, <2>1, <2>2, CloseCases
<1>4. ASSUME NEW d \in Client, NEW name \in Name, Open(d, name) PROVE Right(handle[c])'
  <2>1. CASE OpenNew(d, name)
    <3>1. PICK a \in Address : dicts' = Append(dicts, [name |-> name, pool |-> a])
      BY <2>1 DEF OpenNew, Grown
    <3>2. [name |-> name, pool |-> a] \in Dict
      BY DEF Dict
    <3>3. /\ DOMAIN dicts' = 1 .. Len(dicts) + 1
          /\ \A i \in 1 .. Len(dicts) : dicts'[i] = dicts[i] /\ i \in 1 .. Len(dicts) + 1
      BY <1>1, <3>1, <3>2
    <3>4. PICK i : i = IndexOf(handle[c])
      OBVIOUS
    <3>5. i # 0 /\ dicts[i].name = handle[c].name
      BY <3>4 DEF Right
    <3>6. handle[c].base = base /\ i = handle[c].index /\ i \in 1 .. Len(dicts)
      BY <1>1, <3>4, <3>5 DEF IndexOf
    <3>7. IndexOf(handle[c])' = i
      BY <3>3, <3>6 DEF IndexOf
    <3>8. dicts'[i].name = handle[c].name
      BY <3>3, <3>5, <3>6
    <3> QED  BY <3>5, <3>7, <3>8 DEF Right
  <2> QED  BY <1>2, <1>4, <2>1 DEF Open, OpenAgain, OpenFails, OpenLeaks, vars
<1>5. CASE UNCHANGED vars
  BY <1>2, <1>5 DEF vars
<1> QED  BY <1>2, <1>3, <1>4, <1>5 DEF Next

\* A client that does nothing loses its dictionary only when the array is moved or
\* an element of it is closed.
THEOREM HandlesLostOnlyByMove == ~ShrinkFails => (Spec => HandleLostOnlyByMove)
<1> SUFFICES ASSUME ~ShrinkFails PROVE Spec => HandleLostOnlyByMove
  OBVIOUS
<1>1. Init => TypeOK
  BY RegistryInit
<1>2. TypeOK /\ [Next]_vars => [\A c \in Client : HandleKept(c)]_vars
  BY HandleStep
<1>3. (\A c \in Client : HandleKept(c)) <=>
        \A c \in Client :
            (/\ handle[c] # None /\ handle'[c] = handle[c]
             /\ Right(handle[c]) /\ ~Right(handle[c])')
            => base' # base \/ Len(dicts') < Len(dicts)
  BY DEF HandleKept
<1> QED  BY <1>1, <1>2, <1>3, TypeStep, PTL DEF Spec, HandleLostOnlyByMove
=============================================================================
