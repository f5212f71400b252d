--------------------------- MODULE TabStore_proofs ---------------------------
(***************************************************************************)
(* Proofs about TabStore, for every set of workspaces, pages and tabs: the *)
(* types, and that the groups stay well formed (TabInv).                   *)
(***************************************************************************)
EXTENDS TabStore, FiniteSetTheorems, TLAPS

(* What a group must be, and what the groups must be together.  G stands   *)
(* for groups and for groups'.                                             *)
Distinct(q) == \A i, j \in DOMAIN q : q[i] = q[j] => i = j

GroupOK(g) == g \in Group /\ InSeq(g.activeTabId, g.tabs) /\ Distinct(g.tabs)

Apart(G) ==
    \A s, t \in DOMAIN G : s # t =>
        \A id : ~(InSeq(id, G[s].tabs) /\ InSeq(id, G[t].tabs))

GroupsOK(G) ==
    /\ DOMAIN G \subseteq Slugs
    /\ G = [s \in DOMAIN G |-> G[s]]
    /\ \A s \in DOMAIN G : GroupOK(G[s])
    /\ Apart(G)

OpenIn(G) == {id \in TabIds : \E s \in DOMAIN G : InSeq(id, G[s].tabs)}

(* The inductive invariant: TypeOK and TabInv, with the groups told by      *)
(* GroupsOK.                                                                *)
ActiveOK == active \in Slugs \cup {NoSlug} /\ ActiveHasGroup
PathsOK == /\ path \in [Open -> Paths] /\ loc \in [Open -> Paths]
           /\ synced \in Open => path[synced] = loc[synced]
RestOK ==
    /\ synced \in TabIds \cup {NoTab}
    /\ list \subseteq Slugs
    /\ {overlay, user, fetched, unchecked, due} \subseteq BOOLEAN

TabsOK == GroupsOK(groups) /\ ActiveOK /\ PathsOK /\ RestOK

LEMMA TabsOKMeans == TabsOK => TypeOK /\ TabInv
<1> SUFFICES ASSUME TabsOK PROVE TypeOK /\ TabInv
  OBVIOUS
<1>1. TypeOK
  BY DEF TabsOK, GroupsOK, GroupOK, ActiveOK, PathsOK, RestOK, TypeOK
<1>2. ActiveInGroup /\ ActiveHasGroup
  BY DEF TabsOK, GroupsOK, GroupOK, ActiveOK, ActiveInGroup
<1>3. OnePlace
  <2>1. SUFFICES ASSUME NEW s \in DOMAIN groups, NEW t \in DOMAIN groups,
                        NEW i \in DOMAIN groups[s].tabs,
                        NEW j \in DOMAIN groups[t].tabs,
                        groups[s].tabs[i] = groups[t].tabs[j]
                 PROVE  s = t /\ i = j
    BY DEF OnePlace
  <2>2. s = t
    BY <2>1 DEF TabsOK, GroupsOK, Apart, InSeq
  <2> QED
    BY <2>1, <2>2 DEF TabsOK, GroupsOK, GroupOK, Distinct
<1> QED
  BY <1>1, <1>2, <1>3 DEF TabInv

(* The set of open tabs, now and after the step.                            *)
LEMMA OpenIs == Open = OpenIn(groups) /\ Open' = OpenIn(groups')
  BY DEF Open, TabsOf, OpenIn

-----------------------------------------------------------------------------
(* Putting a group in place: its tabs are new or were its own.              *)
LEMMA PutGroup ==
    ASSUME NEW G, GroupsOK(G), NEW s \in Slugs, NEW g, GroupOK(g),
           \A id : InSeq(id, g.tabs) =>
              \A t \in DOMAIN G : t # s => ~InSeq(id, G[t].tabs),
           NEW H, H = [x \in DOMAIN G \cup {s} |-> IF x = s THEN g ELSE G[x]]
    PROVE  GroupsOK(H)
<1>1. DOMAIN H = DOMAIN G \cup {s} /\ H[s] = g
  OBVIOUS
<1>2. \A x \in DOMAIN H : x # s => x \in DOMAIN G /\ H[x] = G[x]
  OBVIOUS
<1>3. \A x \in DOMAIN H : GroupOK(H[x])
  BY <1>1, <1>2 DEF GroupsOK
<1>4. Apart(H)
  BY <1>1, <1>2 DEF GroupsOK, Apart
<1>5. H = [x \in DOMAIN H |-> H[x]]
  OBVIOUS
<1> QED
  BY <1>1, <1>3, <1>4, <1>5 DEF GroupsOK

(* The tabs then open are those before and those of the new group.          *)
LEMMA PutOpen ==
    ASSUME NEW G, NEW s, NEW g, NEW H,
           H = [x \in DOMAIN G \cup {s} |-> IF x = s THEN g ELSE G[x]]
    PROVE  /\ \A id \in OpenIn(H) : id \in OpenIn(G) \/ InSeq(id, g.tabs)
           /\ s \in DOMAIN H
           /\ DOMAIN G \subseteq DOMAIN H
  BY DEF OpenIn

(* Dropping groups.                                                         *)
LEMMA DropGroups ==
    ASSUME NEW G, GroupsOK(G), NEW S,
           NEW H, H = [s \in DOMAIN G \cap S |-> G[s]]
    PROVE  GroupsOK(H) /\ OpenIn(H) \subseteq OpenIn(G)
<1>1. DOMAIN H = DOMAIN G \cap S /\ \A s \in DOMAIN H : H[s] = G[s]
  OBVIOUS
<1>2. \A s \in DOMAIN H : GroupOK(H[s])
  BY <1>1 DEF GroupsOK
<1>3. Apart(H)
  BY <1>1 DEF GroupsOK, Apart
<1>4. H = [s \in DOMAIN H |-> H[s]]
  OBVIOUS
<1> QED
  BY <1>1, <1>2, <1>3, <1>4 DEF GroupsOK, OpenIn

(* A group of one tab.                                                      *)
LEMMA OneTab ==
    ASSUME NEW id \in TabIds
    PROVE  /\ GroupOK([tabs |-> <<id>>, activeTabId |-> id])
           /\ \A x : InSeq(x, <<id>>) <=> x = id
  BY DEF GroupOK, Group, InSeq, Distinct

(* A group with one more tab.                                               *)
LEMMA OneMore ==
    ASSUME NEW g, GroupOK(g), NEW id \in TabIds, ~InSeq(id, g.tabs)
    PROVE  /\ GroupOK([tabs |-> Append(g.tabs, id), activeTabId |-> id])
           /\ \A x : InSeq(x, Append(g.tabs, id)) <=> x = id \/ InSeq(x, g.tabs)
<1> DEFINE q == g.tabs
           r == Append(q, id)
<1>1. q \in Seq(TabIds) /\ Distinct(q)
  BY DEF GroupOK, Group
<1>2. /\ r \in Seq(TabIds)
      /\ DOMAIN r = 1..(Len(q) + 1) /\ DOMAIN q = 1..Len(q) /\ Len(q) \in Nat
      /\ r[Len(q) + 1] = id
      /\ \A i \in 1..Len(q) : r[i] = q[i]
  BY <1>1
<1>3. \A x : InSeq(x, r) <=> x = id \/ InSeq(x, q)
  BY <1>2 DEF InSeq
<1>4. Distinct(r)
  <2>1. SUFFICES ASSUME NEW i \in DOMAIN r, NEW j \in DOMAIN r, r[i] = r[j]
                 PROVE  i = j
    BY DEF Distinct
  <2>2. CASE i \in 1..Len(q) /\ j \in 1..Len(q)
    BY <1>1, <1>2, <2>1, <2>2 DEF Distinct
  <2>3. CASE i = Len(q) + 1 /\ j = Len(q) + 1
    BY <2>3
  <2>4. CASE i = Len(q) + 1 /\ j \in 1..Len(q)
    BY <1>2, <2>1, <2>4 DEF InSeq
  <2>5. CASE j = Len(q) + 1 /\ i \in 1..Len(q)
    BY <1>2, <2>1, <2>5 DEF InSeq
  <2> QED
    BY <1>2, <2>2, <2>3, <2>4, <2>5
<1> QED
  BY <1>2, <1>3, <1>4 DEF GroupOK, Group

(* A group with one tab less; n is where the next active tab is.            *)
LEMMA OneLess ==
    ASSUME NEW g, GroupOK(g), NEW i \in DOMAIN g.tabs, Len(g.tabs) # 1,
           NEW a,
           a = IF g.activeTabId = g.tabs[i]
                 THEN RemoveAt(g.tabs, i)[IF i < Len(RemoveAt(g.tabs, i)) THEN i
                                          ELSE Len(RemoveAt(g.tabs, i))]
                 ELSE g.activeTabId
    PROVE  /\ GroupOK([tabs |-> RemoveAt(g.tabs, i), activeTabId |-> a])
           /\ \A x : InSeq(x, RemoveAt(g.tabs, i)) => InSeq(x, g.tabs)
<1> DEFINE q == g.tabs
           r == RemoveAt(q, i)
<1>1. /\ q \in Seq(TabIds) /\ Distinct(q) /\ InSeq(g.activeTabId, q)
      /\ DOMAIN q = 1..Len(q) /\ Len(q) \in Nat /\ i \in 1..Len(q)
      /\ Len(q) - 1 \in Nat /\ Len(q) - 1 >= 1
  <2>1. /\ q \in Seq(TabIds) /\ Distinct(q) /\ InSeq(g.activeTabId, q)
        /\ i \in DOMAIN q /\ Len(q) # 1
    BY DEF GroupOK, Group
  <2> HIDE DEF q
  <2>2. DOMAIN q = 1..Len(q) /\ Len(q) \in Nat /\ i \in 1..Len(q)
    BY <2>1
  <2> QED
    BY <2>1, <2>2
<1>2. /\ r \in Seq(TabIds) /\ Len(r) = Len(q) - 1 /\ DOMAIN r = 1..(Len(q) - 1)
      /\ \A j \in 1..(Len(q) - 1) : r[j] = IF j < i THEN q[j] ELSE q[j + 1]
  <2>1. r = [j \in 1..(Len(q) - 1) |-> IF j < i THEN q[j] ELSE q[j + 1]]
    BY DEF RemoveAt
  <2>2. \A j \in 1..(Len(q) - 1) :
           (IF j < i THEN q[j] ELSE q[j + 1]) \in TabIds
    BY <1>1
  <2>3. r \in [1..(Len(q) - 1) -> TabIds]
    BY <2>1, <2>2
  <2> HIDE DEF r, q
  <2>4. PICK n \in Nat : n = Len(q) - 1
    BY <1>1
  <2>5. r \in [1..n -> TabIds]
    BY <2>3, <2>4
  <2>6. r \in Seq(TabIds) /\ Len(r) = Len(q) - 1
    BY <2>4, <2>5
  <2> QED
    BY <2>1, <2>6
<1>3. \A x : InSeq(x, r) => InSeq(x, q)
  <2>1. \A j \in 1..(Len(q) - 1) : j \in DOMAIN q /\ j + 1 \in DOMAIN q
    BY <1>1
  <2> QED
    BY <1>2, <2>1 DEF InSeq
<1>4. Distinct(r)
  <2>1. SUFFICES ASSUME NEW j \in 1..(Len(q) - 1), NEW k \in 1..(Len(q) - 1),
                        r[j] = r[k]
                 PROVE  j = k
    BY <1>2 DEF Distinct
  <2>2. PICK j1 \in {j, j + 1} : j1 = (IF j < i THEN j ELSE j + 1) /\ r[j] = q[j1]
    BY <1>2
  <2>3. PICK k1 \in {k, k + 1} : k1 = (IF k < i THEN k ELSE k + 1) /\ r[k] = q[k1]
    BY <1>2
  <2>4. j1 \in DOMAIN q /\ k1 \in DOMAIN q
    BY <1>1
  <2>5. j1 = k1
    BY <1>1, <2>1, <2>2, <2>3, <2>4 DEF Distinct
  <2> QED
    BY <1>1, <2>2, <2>3, <2>5
<1>5. a \in TabIds /\ InSeq(a, r)
  <2>1. CASE g.activeTabId = q[i]
    <3>1. (IF i < Len(r) THEN i ELSE Len(r)) \in DOMAIN r
      BY <1>1, <1>2
    <3>2. a = r[IF i < Len(r) THEN i ELSE Len(r)]
      BY <2>1
    <3> HIDE DEF r
    <3> QED
      BY <3>1, <3>2, <1>2 DEF InSeq
  <2>2. CASE g.activeTabId # q[i]
    <3>1. PICK k \in DOMAIN q : q[k] = g.activeTabId
      BY <1>1 DEF InSeq
    <3>2. k # i /\ a = q[k]
      BY <2>2, <3>1
    <3>3. CASE k < i
      <4>1. k \in 1..(Len(q) - 1) /\ r[k] = q[k]
        BY <1>1, <1>2, <3>3
      <4> QED
        BY <1>1, <1>2, <3>2, <4>1 DEF InSeq
    <3>4. CASE k > i
      <4>1. k - 1 \in 1..(Len(q) - 1) /\ ~(k - 1 < i) /\ (k - 1) + 1 = k
        BY <1>1, <3>4
      <4>2. r[k - 1] = q[k]
        BY <1>2, <4>1
      <4> QED
        BY <1>1, <1>2, <3>2, <4>1, <4>2 DEF InSeq
    <3> QED
      BY <1>1, <3>2, <3>3, <3>4
  <2> QED
    BY <2>1, <2>2
<1> HIDE DEF r, q
<1>6. GroupOK([tabs |-> r, activeTabId |-> a])
  BY <1>2, <1>4, <1>5 DEF GroupOK, Group
<1> QED
  BY <1>3, <1>6 DEF r, q

(* A group whose tabs were put in another order.                            *)
LEMMA Moved ==
    ASSUME NEW g, GroupOK(g), NEW from \in DOMAIN g.tabs, NEW to \in DOMAIN g.tabs
    PROVE  /\ GroupOK([g EXCEPT !.tabs = ArrayMove(@, from, to)])
           /\ \A x : InSeq(x, ArrayMove(g.tabs, from, to)) <=> InSeq(x, g.tabs)
<1> DEFINE q == g.tabs
           r == ArrayMove(q, from, to)
           At(k) == IF k = to THEN from
                    ELSE IF from <= k /\ k < to THEN k + 1
                    ELSE IF to < k /\ k <= from THEN k - 1 ELSE k
           Back(k) == IF k = from THEN to
                      ELSE IF from < k /\ k <= to THEN k - 1
                      ELSE IF to <= k /\ k < from THEN k + 1 ELSE k
<1>1. /\ q \in Seq(TabIds) /\ Distinct(q) /\ InSeq(g.activeTabId, q)
      /\ DOMAIN q = 1..Len(q) /\ Len(q) \in Nat
      /\ from \in 1..Len(q) /\ to \in 1..Len(q)
  BY DEF GroupOK, Group
<1>2. \A k \in 1..Len(q) : At(k) \in 1..Len(q) /\ Back(k) \in 1..Len(q)
  BY <1>1
<1>3. \A k \in 1..Len(q) : At(Back(k)) = k /\ Back(At(k)) = k
  BY <1>1
<1>4. r = [k \in 1..Len(q) |-> q[At(k)]]
  <2>1. r = [k \in 1..Len(q) |->
        CASE k = to -> q[from]
          [] k # to /\ from <= k /\ k < to -> q[k + 1]
          [] k # to /\ to < k /\ k <= from -> q[k - 1]
          [] OTHER -> q[k]]
    BY DEF ArrayMove
  <2>2. \A k \in 1..Len(q) :
        (CASE k = to -> q[from]
          [] k # to /\ from <= k /\ k < to -> q[k + 1]
          [] k # to /\ to < k /\ k <= from -> q[k - 1]
          [] OTHER -> q[k]) = q[At(k)]
    BY <1>1
  <2> HIDE DEF q, At
  <2> QED
    BY <2>1, <2>2
<1> HIDE DEF At, Back, r
<1>5. r \in Seq(TabIds) /\ DOMAIN r = 1..Len(q)
  <2>0. \A k \in 1..Len(q) : q[k] \in TabIds
    BY <1>1
  <2>1. \A k \in 1..Len(q) : q[At(k)] \in TabIds
    BY <1>2, <2>0
  <2>2. r \in [1..Len(q) -> TabIds]
    BY <1>4, <2>1
  <2> QED
    BY <1>1, <2>2
<1>6. \A x : InSeq(x, r) <=> InSeq(x, q)
  BY <1>1, <1>2, <1>3, <1>4 DEF InSeq
<1>7. Distinct(r)
  <2>1. SUFFICES ASSUME NEW j \in 1..Len(q), NEW k \in 1..Len(q), r[j] = r[k]
                 PROVE  j = k
    BY <1>5 DEF Distinct
  <2>2. q[At(j)] = q[At(k)]
    BY <1>4, <2>1
  <2>3. At(j) = At(k)
    BY <1>1, <1>2, <2>2 DEF Distinct
  <2> QED
    BY <1>3, <2>3
<1>8. g = [tabs |-> q, activeTabId |-> g.activeTabId] /\ g.activeTabId \in TabIds
  BY DEF GroupOK, Group
<1> HIDE DEF q
<1>9. [g EXCEPT !.tabs = r] = [tabs |-> r, activeTabId |-> g.activeTabId]
  BY <1>8
<1>10. GroupOK([tabs |-> r, activeTabId |-> g.activeTabId])
  BY <1>1, <1>5, <1>6, <1>7, <1>8 DEF GroupOK, Group
<1> QED
  BY <1>6, <1>9, <1>10 DEF r, q

-----------------------------------------------------------------------------
(* A reload: the tabs of a group that are kept.                             *)

(* The elements of a finite set of numbers have the ranks 1, 2, ...         *)
Rank(K, i) == Cardinality({j \in K : j <= i})

LEMMA Ranks ==
    ASSUME NEW m \in Nat, NEW K \in SUBSET (1..m)
    PROVE  /\ Cardinality(K) \in Nat
           /\ K # {} => Cardinality(K) >= 1
           /\ \A k \in 1..Cardinality(K) : \E i \in K : Rank(K, i) = k
<1>1. IsFiniteSet(K)
  <2>1. IsFiniteSet(1..m)
    BY FS_Interval
  <2> QED
    BY <2>1, FS_Subset
<1>2. Cardinality(K) \in Nat /\ (K # {} => Cardinality(K) >= 1)
  BY <1>1, FS_CardinalityType, FS_EmptySet
<1>3. \A i \in K : IsFiniteSet({j \in K : j <= i}) /\ Rank(K, i) \in Nat
  <2>1. TAKE i \in K
  <2>2. {j \in K : j <= i} \in SUBSET K
    OBVIOUS
  <2> QED
    BY <1>1, <2>2, FS_Subset, FS_CardinalityType DEF Rank
<1>4. \A i \in K : Rank(K, i) \in 1..Cardinality(K)
  <2>1. TAKE i \in K
  <2>2. {j \in K : j <= i} \in SUBSET K /\ {j \in K : j <= i} # {}
    OBVIOUS
  <2>3. Rank(K, i) <= Cardinality(K)
    <3> DEFINE T == {j \in K : j <= i}
    <3>1. T \in SUBSET K
      OBVIOUS
    <3> HIDE DEF T
    <3>2. Cardinality(T) <= Cardinality(K)
      BY <1>1, <3>1, FS_Subset
    <3> QED
      BY <3>2 DEF Rank, T
  <2>4. Rank(K, i) # 0
    BY <1>3, <2>2, FS_EmptySet DEF Rank
  <2>5. Rank(K, i) \in Nat
    BY <1>3
  <2>6. PICK r, n \in Nat : r = Rank(K, i) /\ n = Cardinality(K)
    BY <1>2, <2>5
  <2>7. r \in 1..n
    BY <2>3, <2>4, <2>6
  <2> QED
    BY <2>6, <2>7
<1>5. \A i, j \in K : i < j => Rank(K, i) # Rank(K, j)
  <2>1. SUFFICES ASSUME NEW i \in K, NEW j \in K, i < j, Rank(K, i) = Rank(K, j)
                 PROVE  FALSE
    OBVIOUS
  <2>0. \A x \in K : x \in Int
    OBVIOUS
  <2>2. {x \in K : x <= i} \in SUBSET {x \in K : x <= j}
    <3>1. \A x \in K : x <= i => x <= j
      BY <2>0, <2>1
    <3> QED
      BY <3>1
  <2>3. {x \in K : x <= i} = {x \in K : x <= j}
    <3> DEFINE A == {x \in K : x <= i}
               B == {x \in K : x <= j}
    <3>1. IsFiniteSet(B) /\ A \in SUBSET B /\ Cardinality(B) = Cardinality(A)
      BY <1>3, <2>1, <2>2 DEF Rank
    <3> HIDE DEF A, B
    <3>2. B = A
      BY <3>1, FS_Subset
    <3> QED
      BY <3>2 DEF A, B
  <2>4. j \in {x \in K : x <= j} /\ j \notin {x \in K : x <= i}
    BY <2>0, <2>1
  <2> QED
    BY <2>3, <2>4
<1>6. \A k \in 1..Cardinality(K) : \E i \in K : Rank(K, i) = k
  <2>1. SUFFICES ASSUME NEW k \in 1..Cardinality(K),
                        \A i \in K : Rank(K, i) # k
                 PROVE  FALSE
    OBVIOUS
  <2> DEFINE T == (1..Cardinality(K)) \ {k}
             f == [i \in K |-> Rank(K, i)]
  <2>2. f \in [K -> T]
    BY <1>4, <2>1
  <2>3. IsFiniteSet(1..Cardinality(K)) /\ Cardinality(1..Cardinality(K)) = Cardinality(K)
    BY <1>2, FS_Interval
  <2>4. IsFiniteSet(T) /\ Cardinality(T) = Cardinality(K) - 1
    BY <2>3, FS_RemoveElement
  <2>5. Cardinality(T) < Cardinality(K)
    BY <1>2, <2>4
  <2> HIDE DEF T, f
  <2>6. \E x, y \in K : x # y /\ f[x] = f[y]
    BY <1>1, <2>2, <2>4, <2>5, FS_PigeonHole
  <2>7. PICK x \in K, y \in K : x # y /\ f[x] = f[y]
    BY <2>6
  <2>8. Rank(K, x) = Rank(K, y) /\ (x < y \/ y < x)
    BY <2>7 DEF f
  <2> QED
    BY <1>5, <2>8
<1> QED
  BY <1>2, <1>6

LEMMA Filtered ==
    ASSUME NEW q \in Seq(TabIds), Distinct(q), NEW K \in SUBSET DOMAIN q
    PROVE  /\ Filter(q, K) \in Seq(TabIds)
           /\ K # {} => 1 \in DOMAIN Filter(q, K)
           /\ Distinct(Filter(q, K))
           /\ \A x : InSeq(x, Filter(q, K)) => InSeq(x, q)
           /\ \A x : InSeq(x, Filter(q, K)) => \E i \in K : q[i] = x
<1> DEFINE n == Cardinality(K)
           at(k) == CHOOSE i \in K : Rank(K, i) = k
           r == Filter(q, K)
<1>1. /\ n \in Nat /\ (K # {} => n >= 1)
      /\ \A k \in 1..n : at(k) \in K /\ Rank(K, at(k)) = k
  <2>1. Len(q) \in Nat /\ K \in SUBSET (1..Len(q))
    OBVIOUS
  <2> QED
    BY <2>1, Ranks
<1>2. r = [k \in 1..n |-> q[at(k)]]
  BY DEF Filter, Rank
<1>3. \A i \in DOMAIN q : q[i] \in TabIds
  OBVIOUS
<1> HIDE DEF n, at, r
<1>4. r \in [1..n -> TabIds]
  BY <1>1, <1>2, <1>3
<1>5. r \in Seq(TabIds) /\ DOMAIN r = 1..n
  BY <1>1, <1>4
<1>6. K # {} => 1 \in DOMAIN r
  BY <1>1, <1>5
<1>7. Distinct(r)
  <2>1. SUFFICES ASSUME NEW j \in 1..n, NEW k \in 1..n, r[j] = r[k]
                 PROVE  j = k
    BY <1>5 DEF Distinct
  <2>2. at(j) = at(k)
    BY <1>1, <1>2, <2>1 DEF Distinct
  <2> QED
    BY <1>1, <2>2
<1>8. \A x : InSeq(x, r) => \E i \in K : q[i] = x
  BY <1>1, <1>2, <1>5 DEF InSeq
<1>9. \A x : InSeq(x, r) => InSeq(x, q)
  BY <1>8 DEF InSeq
<1> QED
  BY <1>5, <1>6, <1>7, <1>8, <1>9 DEF r

LEMMA MergedGroup ==
    ASSUME NEW s \in DOMAIN groups, GroupOK(groups[s]), Kept(s) # {}
    PROVE  /\ GroupOK(Merged(s))
           /\ \A x : InSeq(x, Merged(s).tabs) => InSeq(x, groups[s].tabs)
<1> DEFINE q == groups[s].tabs
           r == Filter(q, Kept(s))
           a == IF InSeq(groups[s].activeTabId, r)
                  THEN groups[s].activeTabId ELSE r[1]
<1>1. q \in Seq(TabIds) /\ Distinct(q) /\ Kept(s) \in SUBSET DOMAIN q
  BY DEF GroupOK, Group, Kept
<1>2. /\ r \in Seq(TabIds) /\ 1 \in DOMAIN r /\ Distinct(r)
      /\ \A x : InSeq(x, r) => InSeq(x, q)
  BY <1>1, Filtered
<1>3. Merged(s) = [tabs |-> r, activeTabId |-> a]
  BY DEF Merged
<1> HIDE DEF q, r
<1>4. InSeq(a, r) /\ a \in TabIds
  BY <1>2 DEF InSeq
<1> HIDE DEF a
<1>5. GroupOK([tabs |-> r, activeTabId |-> a])
  BY <1>2, <1>4 DEF GroupOK, Group
<1> QED
  BY <1>2, <1>3, <1>5 DEF q

-----------------------------------------------------------------------------
(* The paths kept beside the groups.                                        *)
LEMMA PathsKept ==
    ASSUME PathsOK, Open' \subseteq Open, KeepPaths, synced' = synced
    PROVE  PathsOK'
  BY DEF PathsOK, KeepPaths

LEMMA PathsSet ==
    ASSUME PathsOK, NEW id, NEW p \in Paths, Open' \subseteq Open \cup {id},
           SetPath(id, p), synced' = synced, id # synced
    PROVE  PathsOK'
  BY DEF PathsOK, SetPath

LEMMA PathsSame ==
    ASSUME PathsOK, Open' = Open, UNCHANGED <<path, loc, synced>>
    PROVE  PathsOK'
  BY DEF PathsOK

(* What the operators of the store leave behind: groups that are well       *)
(* formed, one of them that of s, and none gone.                            *)
Grown(s) ==
    /\ GroupsOK(groups') /\ PathsOK'
    /\ s \in DOMAIN groups' /\ DOMAIN groups \subseteq DOMAIN groups'

LEMMA FreeIsNew ==
    ASSUME NEW id \in Free
    PROVE  /\ id \in TabIds /\ id # synced
           /\ \A t \in DOMAIN groups : ~InSeq(id, groups[t].tabs)
  BY DEF Free, Open, TabsOf

(* A patch of one group that opens at most the tab id.                      *)
LEMMA PatchGroup ==
    ASSUME GroupsOK(groups), NEW s \in Slugs, NEW g, GroupOK(g), NEW id,
           \A t \in DOMAIN groups : ~InSeq(id, groups[t].tabs),
           \A x : InSeq(x, g.tabs) =>
              x = id \/ (s \in DOMAIN groups /\ InSeq(x, groups[s].tabs)),
           groups' = WithGroup(s, g)
    PROVE  /\ GroupsOK(groups')
           /\ s \in DOMAIN groups' /\ DOMAIN groups \subseteq DOMAIN groups'
           /\ Open' \subseteq Open \cup {id}
<1>1. groups' = [x \in DOMAIN groups \cup {s} |-> IF x = s THEN g ELSE groups[x]]
  BY DEF WithGroup
<1>2. \A x : InSeq(x, g.tabs) =>
         \A t \in DOMAIN groups : t # s => ~InSeq(x, groups[t].tabs)
  BY DEF GroupsOK, Apart
<1>3. GroupsOK(groups')
  BY <1>1, <1>2, PutGroup
<1>4. /\ \A x \in OpenIn(groups') : x \in OpenIn(groups) \/ InSeq(x, g.tabs)
      /\ s \in DOMAIN groups' /\ DOMAIN groups \subseteq DOMAIN groups'
  BY <1>1, PutOpen
<1>5. Open' \subseteq Open \cup {id}
  BY <1>4, OpenIs DEF OpenIn
<1> QED
  BY <1>3, <1>4, <1>5

(* A patch of one group that keeps its tabs.                                *)
LEMMA PatchSame ==
    ASSUME GroupsOK(groups), PathsOK, NEW s \in DOMAIN groups, NEW g, GroupOK(g),
           \A x : InSeq(x, g.tabs) <=> InSeq(x, groups[s].tabs),
           groups' = WithGroup(s, g), UNCHANGED <<path, loc, synced>>
    PROVE  Grown(s)
<1>1. groups' = [x \in DOMAIN groups \cup {s} |-> IF x = s THEN g ELSE groups[x]]
  BY DEF WithGroup
<1>2. s \in Slugs
  BY DEF GroupsOK
<1>3. \A x : InSeq(x, g.tabs) =>
         \A t \in DOMAIN groups : t # s => ~InSeq(x, groups[t].tabs)
  BY DEF GroupsOK, Apart
<1>4. GroupsOK(groups')
  BY <1>1, <1>2, <1>3, PutGroup
<1>5. /\ DOMAIN groups' = DOMAIN groups
      /\ \A t \in DOMAIN groups : \A x :
            InSeq(x, groups'[t].tabs) <=> InSeq(x, groups[t].tabs)
  BY <1>1
<1>6. Open' = Open
  BY <1>5, OpenIs DEF OpenIn
<1> QED
  BY <1>4, <1>5, <1>6, PathsSame DEF Grown

LEMMA Appended ==
    ASSUME GroupsOK(groups), PathsOK, NEW s \in DOMAIN groups,
           NEW p \in Paths, Append1(s, p), synced' = synced
    PROVE  Grown(s)
<1>1. PICK id \in Free :
        /\ groups' = WithGroup(s, [tabs |-> Append(groups[s].tabs, id),
                                   activeTabId |-> id])
        /\ SetPath(id, p)
  BY DEF Append1
<1> DEFINE g == [tabs |-> Append(groups[s].tabs, id), activeTabId |-> id]
<1>2. s \in Slugs /\ GroupOK(groups[s])
  BY DEF GroupsOK
<1>3. /\ id \in TabIds /\ id # synced
      /\ \A t \in DOMAIN groups : ~InSeq(id, groups[t].tabs)
  BY FreeIsNew
<1>4. /\ GroupOK(g)
      /\ \A x : InSeq(x, g.tabs) <=> x = id \/ InSeq(x, groups[s].tabs)
  BY <1>2, <1>3, OneMore
<1> HIDE DEF g
<1>5. /\ GroupsOK(groups') /\ Open' \subseteq Open \cup {id}
      /\ s \in DOMAIN groups' /\ DOMAIN groups \subseteq DOMAIN groups'
  BY <1>1, <1>2, <1>3, <1>4, PatchGroup DEF g
<1> QED
  BY <1>1, <1>3, <1>5, PathsSet DEF Grown

LEMMA Seeded ==
    ASSUME GroupsOK(groups), PathsOK, NEW s \in Slugs, NEW p \in Paths,
           Seed(s, p), synced' = synced
    PROVE  Grown(s)
<1>1. PICK id \in Free :
        /\ groups' = WithGroup(s, [tabs |-> <<id>>, activeTabId |-> id])
        /\ SetPath(id, p)
  BY DEF Seed
<1> DEFINE g == [tabs |-> <<id>>, activeTabId |-> id]
<1>2. /\ id \in TabIds /\ id # synced
      /\ \A t \in DOMAIN groups : ~InSeq(id, groups[t].tabs)
  BY FreeIsNew
<1>3. GroupOK(g) /\ \A x : InSeq(x, g.tabs) <=> x = id
  BY <1>2, OneTab
<1> HIDE DEF g
<1>4. /\ GroupsOK(groups') /\ Open' \subseteq Open \cup {id}
      /\ s \in DOMAIN groups' /\ DOMAIN groups \subseteq DOMAIN groups'
  BY <1>1, <1>2, <1>3, PatchGroup DEF g
<1> QED
  BY <1>1, <1>2, <1>4, PathsSet DEF Grown

(* A group in which another of its tabs is made active.                     *)
LEMMA Activated ==
    ASSUME GroupsOK(groups), PathsOK, NEW s \in DOMAIN groups,
           NEW id, InSeq(id, groups[s].tabs),
           groups' = WithGroup(s, [groups[s] EXCEPT !.activeTabId = id]),
           UNCHANGED <<path, loc, synced>>
    PROVE  Grown(s)
<1> DEFINE g == [groups[s] EXCEPT !.activeTabId = id]
<1>1. GroupOK(groups[s])
  BY DEF GroupsOK
<1>2. id \in TabIds
  BY <1>1 DEF GroupOK, Group, InSeq
<1>3. g = [tabs |-> groups[s].tabs, activeTabId |-> id]
  BY <1>1 DEF GroupOK, Group
<1>4. GroupOK(g) /\ g.tabs = groups[s].tabs
  BY <1>1, <1>2, <1>3 DEF GroupOK, Group
<1> HIDE DEF g
<1> QED
  BY <1>4, PatchSame DEF g

LEMMA OpenedOrActivated ==
    ASSUME GroupsOK(groups), PathsOK, NEW s \in DOMAIN groups,
           NEW p \in Paths, OpenOrActivate(s, p), synced' = synced
    PROVE  Grown(s)
<1>1. CASE Append1(s, p)
  BY <1>1, Appended
<1>2. CASE \E i \in DOMAIN groups[s].tabs : FirstAt(s, p, i) /\ Activate(s, i)
  <2>1. PICK i \in DOMAIN groups[s].tabs : Activate(s, i)
    BY <1>2
  <2>2. InSeq(groups[s].tabs[i], groups[s].tabs)
    BY DEF InSeq
  <2> QED
    BY <2>1, <2>2, Activated DEF Activate
<1> QED
  BY <1>1, <1>2 DEF OpenOrActivate

LEMMA PathKinds ==
    /\ \A s \in Slugs : DefaultPath(s) \in Paths
    /\ \A p \in ScopedPaths : p \in Paths /\ SlugOf(p) \in Slugs
    /\ Root \in Paths
  BY TabAssumption DEF DefaultPath, Paths, ScopedPaths, SlugOf, Root

LEMMA Switched ==
    ASSUME GroupsOK(groups), PathsOK, NEW s \in Slugs, NEW p \in Paths,
           SwitchTo(s, p), synced' = synced
    PROVE  Grown(s) /\ ActiveOK'
<1>1. Grown(s)
  <2>1. CASE /\ s \notin DOMAIN groups
             /\ Seed(s, IF Clean(p) THEN p ELSE DefaultPath(s))
    BY <2>1, Seeded, PathKinds
  <2>2. CASE s \in DOMAIN groups /\ OpenOrActivate(s, p)
    BY <2>2, OpenedOrActivated
  <2>3. CASE s \in DOMAIN groups /\ UNCHANGED <<groups, path, loc>>
    <3>1. Open' = Open
      BY <2>3, OpenIs
    <3> QED
      BY <2>3, <3>1, PathsSame DEF Grown
  <2> QED
    BY <2>1, <2>2, <2>3 DEF SwitchTo
<1>2. active' = s
  BY DEF SwitchTo
<1> QED
  BY <1>1, <1>2 DEF Grown, ActiveOK, ActiveHasGroup

(* Validation keeps some of the groups, and the active one among them.      *)
LEMMA ValidatedOK ==
    ASSUME TabsOK, NEW valid \in SUBSET Slugs, NEW next \in Slugs \cup {NoSlug},
           Validated(valid, next), active' = next, KeepPaths,
           synced' = synced
    PROVE  GroupsOK(groups') /\ PathsOK' /\ ActiveOK'
<1>1. groups' = [s \in DOMAIN groups \cap valid |-> groups[s]]
  BY DEF Validated, GroupsIn
<1>2. GroupsOK(groups') /\ OpenIn(groups') \subseteq OpenIn(groups)
  BY <1>1, DropGroups DEF TabsOK
<1>3. PathsOK'
  BY <1>2, OpenIs, PathsKept DEF TabsOK
<1>4. \/ next \in DOMAIN groups \cap valid
      \/ next = NoSlug /\ DOMAIN groups \cap valid = {}
  BY TabAssumption DEF Validated, TabsOK, ActiveOK, ActiveHasGroup, GroupsOK
<1>5. ActiveOK'
  BY <1>1, <1>4 DEF ActiveOK, ActiveHasGroup
<1> QED
  BY <1>2, <1>3, <1>5

(* A step that grows the groups under the same active workspace.            *)
LEMMA GrownOK ==
    ASSUME ActiveOK, NEW s \in DOMAIN groups, Grown(s), active' = active
    PROVE  GroupsOK(groups') /\ PathsOK' /\ ActiveOK'
  BY DEF Grown, ActiveOK, ActiveHasGroup

(* What the user does in the tab bar.                                       *)
LEMMA UserStepOK ==
    ASSUME TabsOK, UserStep
    PROVE  TabsOK'
<1> USE DEF TabsOK
<1>0. RestOK'
  BY DEF UserStep, NewTab, OpenNotification, CloseTab, SetActiveTab, MoveTab,
         session, RestOK
<1> SUFFICES GroupsOK(groups') /\ PathsOK' /\ ActiveOK'
  BY <1>0
<1>1. CASE NewTab
  <2>1. Grown(active)
    BY <1>1, Appended, PathKinds DEF NewTab, GroupsOK
  <2> QED
    BY <1>1, <2>1, GrownOK DEF NewTab
<1>2. ASSUME NEW s \in Slugs, OpenNotification(s)
      PROVE  GroupsOK(groups') /\ PathsOK' /\ ActiveOK'
  <2>1. PICK page \in Pages : OpenOrActivate(active, <<s, page>>)
    BY <1>2 DEF OpenNotification
  <2>2. <<s, page>> \in Paths
    BY DEF Paths, ScopedPaths
  <2>3. Grown(active)
    BY <1>2, <2>1, <2>2, OpenedOrActivated DEF OpenNotification
  <2> QED
    BY <1>2, <2>3, GrownOK DEF OpenNotification
<1>3. ASSUME NEW id \in TabIds, CloseTab(id)
      PROVE  GroupsOK(groups') /\ PathsOK' /\ ActiveOK'
  <2>1. PICK s \in DOMAIN groups, i \in 1..Cardinality(TabIds) :
          LET q == groups[s].tabs
              rest == RemoveAt(q, i)
          IN /\ i \in DOMAIN q
             /\ q[i] = id
             /\ IF Len(q) = 1
                  THEN Seed(s, DefaultPath(s))
                  ELSE /\ groups' = WithGroup(s,
                            [tabs |-> rest,
                             activeTabId |->
                               IF groups[s].activeTabId = id
                                 THEN rest[IF i < Len(rest) THEN i ELSE Len(rest)]
                                 ELSE groups[s].activeTabId])
                       /\ KeepPaths
             /\ UNCHANGED <<active, synced, overlay, session>>
    BY <1>3 DEF CloseTab
  <2>2. s \in Slugs /\ GroupOK(groups[s])
    BY DEF GroupsOK
  <2>3. CASE Len(groups[s].tabs) = 1
    <3>1. Grown(s)
      BY <2>1, <2>2, <2>3, Seeded, PathKinds
    <3> QED
      BY <2>1, <3>1, GrownOK
  <2>4. CASE Len(groups[s].tabs) # 1
    <3> DEFINE rest == RemoveAt(groups[s].tabs, i)
               a == IF groups[s].activeTabId = groups[s].tabs[i]
                      THEN rest[IF i < Len(rest) THEN i ELSE Len(rest)]
                      ELSE groups[s].activeTabId
               g == [tabs |-> rest, activeTabId |-> a]
    <3>1. GroupOK(g) /\ \A x : InSeq(x, rest) => InSeq(x, groups[s].tabs)
      BY <2>1, <2>2, <2>4, OneLess
    <3>2. groups' = WithGroup(s, g) /\ KeepPaths /\ UNCHANGED <<active, synced>>
      BY <2>1, <2>4
    <3>3. \A x : InSeq(x, g.tabs) => InSeq(x, groups[s].tabs)
      BY <3>1
    <3> HIDE DEF g
    <3>4. groups' = [x \in DOMAIN groups \cup {s} |->
                       IF x = s THEN g ELSE groups[x]]
      BY <3>2 DEF WithGroup
    <3>5. GroupsOK(groups')
      <4>1. \A x : InSeq(x, g.tabs) =>
               \A t \in DOMAIN groups : t # s => ~InSeq(x, groups[t].tabs)
        BY <3>3 DEF GroupsOK, Apart
      <4> QED
        BY <2>2, <3>1, <3>4, <4>1, PutGroup
    <3>6. Open' \subseteq Open
      BY <3>3, <3>4, PutOpen, OpenIs DEF OpenIn
    <3>7. PathsOK'
      BY <3>2, <3>6, PathsKept
    <3> QED
      BY <3>2, <3>4, <3>5, <3>7 DEF ActiveOK, ActiveHasGroup
  <2> QED
    BY <2>3, <2>4
<1>4. ASSUME NEW id \in TabIds, SetActiveTab(id)
      PROVE  GroupsOK(groups') /\ PathsOK' /\ ActiveOK'
  <2>1. PICK s \in DOMAIN groups :
          /\ id \in TabsOf(s)
          /\ active' = s
          /\ groups' = WithGroup(s, [groups[s] EXCEPT !.activeTabId = id])
          /\ UNCHANGED <<path, loc, synced>>
    BY <1>4 DEF SetActiveTab
  <2>2. Grown(s)
    BY <2>1, Activated DEF TabsOf
  <2> QED
    BY <2>1, <2>2 DEF Grown, ActiveOK, ActiveHasGroup, GroupsOK
<1>5. ASSUME NEW from, NEW to, MoveTab(from, to)
      PROVE  GroupsOK(groups') /\ PathsOK' /\ ActiveOK'
  <2> DEFINE g == [groups[active] EXCEPT !.tabs = ArrayMove(@, from, to)]
  <2>1. GroupOK(groups[active]) /\ active \in DOMAIN groups
    BY <1>5 DEF MoveTab, GroupsOK
  <2>2. /\ GroupOK(g)
        /\ \A x : InSeq(x, ArrayMove(groups[active].tabs, from, to))
                    <=> InSeq(x, groups[active].tabs)
    BY <1>5, <2>1, Moved DEF MoveTab
  <2>3. g.tabs = ArrayMove(groups[active].tabs, from, to)
    BY <2>1 DEF GroupOK, Group
  <2> HIDE DEF g
  <2>4. Grown(active)
    BY <1>5, <2>1, <2>2, <2>3, PatchSame DEF MoveTab, g
  <2> QED
    BY <1>5, <2>4, GrownOK DEF MoveTab
<1> QED
  BY <1>1, <1>2, <1>3, <1>4, <1>5 DEF UserStep

(* What the pages of the tabs do.                                           *)
LEMMA PageStepOK ==
    ASSUME TabsOK, PageStep
    PROVE  TabsOK'
<1> USE DEF TabsOK
<1>0. RestOK'
  BY DEF PageStep, PushOverlay, PushHere, PushElsewhere, OpenInNewTab, session,
         RestOK
<1> SUFFICES GroupsOK(groups') /\ PathsOK' /\ ActiveOK'
  BY <1>0
<1>1. ASSUME NEW id \in Open, NEW p \in Paths, Navigate(id, p),
             UNCHANGED <<active, groups, synced>>
      PROVE  GroupsOK(groups') /\ PathsOK' /\ ActiveOK'
  <2>1. Open' = Open
    BY <1>1, OpenIs
  <2>2. PathsOK'
    BY <1>1, <2>1 DEF Navigate, PathsOK
  <2> QED
    BY <1>1, <2>2 DEF ActiveOK, ActiveHasGroup
<1>2. ASSUME NEW id \in Open, PushOverlay(id)
      PROVE  GroupsOK(groups') /\ PathsOK' /\ ActiveOK'
  BY <1>1, <1>2, PathKinds DEF PushOverlay
<1>3. ASSUME NEW id \in Open, NEW p \in Paths, PushHere(id, p)
      PROVE  GroupsOK(groups') /\ PathsOK' /\ ActiveOK'
  BY <1>1, <1>3 DEF PushHere
<1>4. ASSUME NEW p \in ScopedPaths, PushElsewhere(p)
      PROVE  GroupsOK(groups') /\ PathsOK' /\ ActiveOK'
  <2>1. p \in Paths /\ SlugOf(p) \in Slugs
    BY PathKinds
  <2>2. Grown(SlugOf(p)) /\ ActiveOK'
    BY <1>4, <2>1, Switched DEF PushElsewhere
  <2> QED
    BY <2>2 DEF Grown
<1>5. ASSUME NEW p \in ScopedPaths, OpenInNewTab(p)
      PROVE  GroupsOK(groups') /\ PathsOK' /\ ActiveOK'
  <2>1. p \in Paths /\ SlugOf(p) \in Slugs
    BY PathKinds
  <2>2. CASE SlugOf(p) # active
    <3>1. Grown(SlugOf(p)) /\ ActiveOK'
      BY <1>5, <2>1, <2>2, Switched DEF OpenInNewTab
    <3> QED
      BY <3>1 DEF Grown
  <2>3. CASE SlugOf(p) = active
    <3>1. Grown(active) /\ active' = active /\ active \in DOMAIN groups
      BY <1>5, <2>1, <2>3, OpenedOrActivated DEF OpenInNewTab
    <3> QED
      BY <3>1, GrownOK
  <2> QED
    BY <2>2, <2>3
<1> QED
  BY <1>2, <1>3, <1>4, <1>5 DEF PageStep

(* A step that leaves the store alone.                                      *)
LEMMA StoreSame ==
    ASSUME TabsOK, UNCHANGED <<storeVars, synced>>
    PROVE  GroupsOK(groups') /\ PathsOK' /\ ActiveOK'
<1>1. Open' = Open
  BY OpenIs DEF storeVars
<1> QED
  BY <1>1, PathsSame DEF storeVars, TabsOK, ActiveOK, ActiveHasGroup

(* A reload drops tabs and groups, and moves to a group that is left.       *)
LEMMA ReloadOK ==
    ASSUME TabsOK, Reload
    PROVE  TabsOK'
<1> DEFINE D == {s \in DOMAIN groups : Kept(s) # {}}
<1>1. groups' = [s \in D |-> Merged(s)]
  BY DEF Reload
<1>2. \A s \in D : /\ GroupOK(Merged(s))
                   /\ \A x : InSeq(x, Merged(s).tabs) => InSeq(x, groups[s].tabs)
  BY MergedGroup DEF TabsOK, GroupsOK
<1>3. DOMAIN groups' = D /\ \A s \in D : groups'[s] = Merged(s)
  BY <1>1
<1>4. D \subseteq DOMAIN groups
  OBVIOUS
<1> HIDE DEF D
<1>5. GroupsOK(groups')
  <2>1. Apart(groups')
    BY <1>2, <1>3, <1>4 DEF TabsOK, GroupsOK, Apart
  <2>2. groups' = [s \in DOMAIN groups' |-> groups'[s]]
    BY <1>1, <1>3
  <2> QED
    BY <1>2, <1>3, <1>4, <2>1, <2>2 DEF TabsOK, GroupsOK
<1>6. Open' \subseteq Open
  BY <1>2, <1>3, <1>4, OpenIs DEF OpenIn
<1>7. PathsOK'
  <2>1. synced' \notin Open'
    BY TabAssumption DEF Reload, Open, TabsOf
  <2> QED
    BY <1>6, <2>1 DEF Reload, TabsOK, PathsOK
<1>8. ActiveOK'
  <2>1. \A s \in DOMAIN groups' : s \in Slugs
    BY <1>5 DEF GroupsOK
  <2>2. \/ active' \in DOMAIN groups'
        \/ active' = NoSlug /\ DOMAIN groups' = {}
    BY DEF Reload
  <2> QED
    BY <2>1, <2>2 DEF ActiveOK, ActiveHasGroup
<1>9. RestOK'
  BY DEF Reload, TabsOK, RestOK
<1> QED
  BY <1>5, <1>7, <1>8, <1>9 DEF TabsOK

LEMMA LogoutOK ==
    ASSUME TabsOK, Logout
    PROVE  TabsOK'
<1>1. groups' = [s \in {} |-> groups[s]]
  BY DEF Logout
<1>2. GroupsOK(groups')
  BY <1>1 DEF GroupsOK, Apart
<1>3. Open' \subseteq Open
  BY <1>1, OpenIs DEF OpenIn
<1>4. PathsOK'
  BY <1>3, PathsKept DEF Logout, TabsOK
<1>5. ActiveOK' /\ RestOK'
  BY DEF Logout, ActiveOK, ActiveHasGroup, TabsOK, RestOK
<1> QED
  BY <1>2, <1>4, <1>5 DEF TabsOK

LEMMA SessionStepOK ==
    ASSUME TabsOK, SessionStep
    PROVE  TabsOK'
<1>1. CASE Reload
  BY <1>1, ReloadOK
<1>2. CASE Logout
  BY <1>2, LogoutOK
<1>3. CASE Login \/ OpenInvite \/ \E new \in SUBSET Slugs : ListArrives(new)
  <2>1. UNCHANGED <<storeVars, synced>>
    BY <1>3 DEF Login, OpenInvite, ListArrives
  <2>2. RestOK'
    BY <1>3 DEF Login, OpenInvite, ListArrives, session, TabsOK, RestOK
  <2> QED
    BY <2>1, <2>2, StoreSame DEF TabsOK
<1> QED
  BY <1>1, <1>2, <1>3 DEF SessionStep

(* The effects.                                                             *)
LEMMA CommitOK ==
    ASSUME TabsOK, Commit
    PROVE  TabsOK'
<1>1. Open' = Open
  BY OpenIs DEF Commit
<1>2. ActiveTab # NoTab => ActiveTab \in Open /\ ActiveTab \in TabIds
  BY DEF ActiveTab, TabsOK, GroupsOK, GroupOK, Group, Open, TabsOf
<1>3. PathsOK'
  <2>1. CASE ActiveTab = NoTab
    <3>1. synced' \notin Open' /\ UNCHANGED <<path, loc>>
      BY <2>1, TabAssumption DEF Commit, Open, TabsOf
    <3> QED
      BY <1>1, <3>1 DEF TabsOK, PathsOK
  <2>2. CASE ActiveTab # NoTab
    <3>1. /\ ActiveTab \in Open /\ synced' = ActiveTab /\ loc' = loc
          /\ path' = [path EXCEPT ![ActiveTab] = loc[ActiveTab]]
      BY <1>2, <2>2 DEF Commit
    <3> QED
      BY <1>1, <3>1 DEF TabsOK, PathsOK
  <2> QED
    BY <2>1, <2>2
<1>4. RestOK'
  BY <1>2 DEF Commit, session, TabsOK, RestOK
<1> QED
  BY <1>3, <1>4 DEF Commit, TabsOK, ActiveOK, ActiveHasGroup

LEMMA ValidateAndEnterOK ==
    ASSUME TabsOK, ValidateAndEnter
    PROVE  TabsOK'
<1>0. RestOK'
  BY DEF ValidateAndEnter, TabsOK, RestOK
<1>1. PICK s \in list :
         /\ active' = s
         /\ IF s \in DOMAIN groups
              THEN groups' = GroupsIn(list) /\ KeepPaths
              ELSE \E id \in TabIds \ ({synced} \cup UNION {TabsOf(x) :
                                   x \in DOMAIN groups \cap list}) :
                     /\ groups' = [x \in (DOMAIN groups \cap list) \cup {s} |->
                                     IF x = s THEN [tabs |-> <<id>>,
                                                    activeTabId |-> id]
                                              ELSE groups[x]]
                     /\ SetPath(id, DefaultPath(s))
  BY DEF ValidateAndEnter
<1>2. s \in Slugs
  BY DEF TabsOK, RestOK
<1> DEFINE G == [x \in DOMAIN groups \cap list |-> groups[x]]
<1>3. GroupsOK(G) /\ OpenIn(G) \subseteq OpenIn(groups)
  BY DropGroups DEF TabsOK
<1>4. CASE s \in DOMAIN groups
  <2>1. groups' = G /\ KeepPaths
    BY <1>1, <1>4 DEF GroupsIn
  <2>2. PathsOK'
    BY <1>3, <2>1, OpenIs, PathsKept DEF TabsOK, ValidateAndEnter
  <2>3. s \in DOMAIN groups'
    BY <1>4, <2>1
  <2> QED
    BY <1>0, <1>1, <1>2, <1>3, <2>1, <2>2, <2>3
    DEF TabsOK, ActiveOK, ActiveHasGroup
<1>5. CASE s \notin DOMAIN groups
  <2>0. synced' = synced
    BY DEF ValidateAndEnter
  <2>1. PICK id \in TabIds \ ({synced} \cup UNION {TabsOf(x) :
                                   x \in DOMAIN groups \cap list}) :
          /\ groups' = [x \in (DOMAIN groups \cap list) \cup {s} |->
                          IF x = s THEN [tabs |-> <<id>>, activeTabId |-> id]
                                   ELSE groups[x]]
          /\ SetPath(id, DefaultPath(s))
    BY <1>1, <1>5
  <2> DEFINE g == [tabs |-> <<id>>, activeTabId |-> id]
  <2>2. GroupOK(g) /\ \A x : InSeq(x, g.tabs) <=> x = id
    BY OneTab
  <2> HIDE DEF g
  <2>3. \A t \in DOMAIN G : ~InSeq(id, G[t].tabs)
    BY <2>1 DEF TabsOf
  <2>4. groups' = [x \in DOMAIN G \cup {s} |-> IF x = s THEN g ELSE G[x]]
    BY <2>1 DEF g
  <2> HIDE DEF G
  <2>5. GroupsOK(groups')
    BY <1>2, <1>3, <2>2, <2>3, <2>4, PutGroup
  <2>6. Open' \subseteq Open \cup {id} /\ s \in DOMAIN groups'
    <3>1. /\ \A x \in OpenIn(groups') : x \in OpenIn(G) \/ InSeq(x, g.tabs)
          /\ s \in DOMAIN groups'
      <4>1. /\ DOMAIN groups' = DOMAIN G \cup {s} /\ groups'[s] = g
            /\ \A x \in DOMAIN G : x # s => groups'[x] = G[x]
        BY <2>4
      <4> QED
        BY <4>1 DEF OpenIn
    <3>2. \A x \in OpenIn(groups') : x \in OpenIn(groups) \/ x = id
      BY <1>3, <2>2, <3>1
    <3> QED
      BY <3>1, <3>2, OpenIs
  <2>7. PathsOK'
    BY <1>2, <2>0, <2>1, <2>6, PathsSet, PathKinds DEF TabsOK
  <2> QED
    BY <1>0, <1>1, <1>2, <2>5, <2>6, <2>7 DEF TabsOK, ActiveOK, ActiveHasGroup
<1> QED
  BY <1>4, <1>5

LEMMA EffectStepOK ==
    ASSUME TabsOK, EffectStep
    PROVE  TabsOK'
<1>1. CASE Commit
  BY <1>1, CommitOK
<1>2. CASE ValidateAndEnter
  BY <1>2, ValidateAndEnterOK
<1>3. CASE ValidateEffect \/ AutoHeal
  <2>1. RestOK'
    BY <1>3 DEF ValidateEffect, AutoHeal, session, TabsOK, RestOK
  <2>2. PICK next \in Slugs \cup {NoSlug} :
          Validated(list, next) /\ active' = next
    BY <1>3 DEF ValidateEffect, AutoHeal
  <2>3. list \in SUBSET Slugs /\ KeepPaths /\ synced' = synced
    BY <1>3 DEF ValidateEffect, AutoHeal, TabsOK, RestOK
  <2>4. GroupsOK(groups') /\ PathsOK' /\ ActiveOK'
    BY <2>2, <2>3, ValidatedOK
  <2> QED
    BY <2>1, <2>4 DEF TabsOK
<1>4. CASE OverlayEffect
  <2>1. UNCHANGED <<storeVars, synced>>
    BY <1>4 DEF OverlayEffect
  <2>2. RestOK'
    BY <1>4 DEF OverlayEffect, TabsOK, RestOK
  <2> QED
    BY <2>1, <2>2, StoreSame DEF TabsOK
<1> QED
  BY <1>1, <1>2, <1>3, <1>4 DEF EffectStep

LEMMA TabsInit == Init => TabsOK
<1> SUFFICES ASSUME Init PROVE TabsOK
  OBVIOUS
<1>1. GroupsOK(groups) /\ Open = {}
  BY DEF Init, GroupsOK, Apart, Open
<1>2. PathsOK
  BY <1>1 DEF Init, PathsOK
<1>3. ActiveOK /\ RestOK
  BY DEF Init, ActiveOK, ActiveHasGroup, RestOK
<1> QED
  BY <1>1, <1>2, <1>3 DEF TabsOK

LEMMA TabsStep == TabsOK /\ [Next]_vars => TabsOK'
<1> SUFFICES ASSUME TabsOK, [Next]_vars PROVE TabsOK'
  OBVIOUS
<1>1. CASE UserStep
  BY <1>1, UserStepOK
<1>2. CASE PageStep
  BY <1>2, PageStepOK
<1>3. CASE SessionStep
  BY <1>3, SessionStepOK
<1>4. CASE EffectStep
  BY <1>4, EffectStepOK
<1>5. CASE UNCHANGED vars
  <2>1. UNCHANGED <<storeVars, synced>>
    BY <1>5 DEF vars, storeVars
  <2>2. RestOK'
    BY <1>5 DEF vars, TabsOK, RestOK
  <2> QED
    BY <2>1, <2>2, StoreSame DEF TabsOK
<1> QED
  BY <1>1, <1>2, <1>3, <1>4, <1>5 DEF Next

(* Types, and the groups of tabs: the active tab of every group is one of   *)
(* its tabs, no tab is in two places, and the active workspace has a group, *)
(* for any number of workspaces and tabs (tab-store.ts).                    *)
THEOREM TabsWellFormed == Spec => [](TypeOK /\ TabInv)
  BY TabsInit, TabsStep, TabsOKMeans, PTL DEF Spec

(* Every variable of the tabs has its type, through reloads of what another *)
(* version of the application has written (tab-store.ts).                   *)
THEOREM TabTypes == Spec => []TypeOK
  BY TabsWellFormed, PTL

-----------------------------------------------------------------------------
(* What the steps may not do to the groups.                                 *)

(* The groups after a step that does not reload, log out or validate.       *)
PatchedOnly(s) ==
    /\ DOMAIN groups' = DOMAIN groups \cup {s}
    /\ \A t \in DOMAIN groups : t # s => groups'[t] = groups[t]

LEMMA WithGroupPatches ==
    ASSUME NEW s, NEW g, groups' = WithGroup(s, g)
    PROVE  PatchedOnly(s)
  BY DEF WithGroup, PatchedOnly

LEMMA OpenPatches ==
    ASSUME NEW s, NEW p,
           Append1(s, p) \/ Seed(s, p) \/ OpenOrActivate(s, p)
    PROVE  PatchedOnly(s)
  BY WithGroupPatches DEF Append1, Seed, OpenOrActivate, Activate

LEMMA SwitchPatches ==
    ASSUME NEW s, NEW p, SwitchTo(s, p)
    PROVE  PatchedOnly(s) \/ groups' = groups
  BY OpenPatches DEF SwitchTo

(* A step of the user or of a page patches one group.                       *)
LEMMA UserPatches ==
    ASSUME UserStep \/ PageStep
    PROVE  groups' = groups \/ \E s : PatchedOnly(s)
<1>1. CASE NewTab \/ \E s \in Slugs : OpenNotification(s)
  BY <1>1, OpenPatches DEF NewTab, OpenNotification
<1>2. CASE \E id \in TabIds : CloseTab(id)
  <2>1. PICK id \in TabIds : CloseTab(id)
    BY <1>2
  <2>2. \E s \in DOMAIN groups :
           (\E g : groups' = WithGroup(s, g)) \/ Seed(s, DefaultPath(s))
    BY <2>1 DEF CloseTab
  <2> QED
    BY <2>2, WithGroupPatches, OpenPatches
<1>3. CASE \E id \in TabIds : SetActiveTab(id)
  BY <1>3, WithGroupPatches DEF SetActiveTab
<1>4. CASE \E from, to \in 1..Cardinality(TabIds) : MoveTab(from, to)
  BY <1>4, WithGroupPatches DEF MoveTab
<1>5. CASE \E id \in Open : PushOverlay(id) \/ \E p \in Paths : PushHere(id, p)
  BY <1>5 DEF PushOverlay, PushHere
<1>6. CASE \E p \in ScopedPaths : PushElsewhere(p) \/ OpenInNewTab(p)
  BY <1>6, OpenPatches, SwitchPatches DEF PushElsewhere, OpenInNewTab
<1> QED
  BY <1>1, <1>2, <1>3, <1>4, <1>5, <1>6 DEF UserStep, PageStep

(* A validation keeps the groups of the list as they are.                   *)
Dropped ==
    /\ fetched
    /\ \A s \in DOMAIN groups \cap list : s \in DOMAIN groups'
    /\ \A s \in DOMAIN groups \cap DOMAIN groups' : groups'[s] = groups[s]

LEMMA EffectsDrop ==
    ASSUME EffectStep
    PROVE  groups' = groups \/ Dropped
<1>1. CASE Commit \/ OverlayEffect
  BY <1>1 DEF Commit, OverlayEffect, storeVars
<1>2. CASE ValidateEffect \/ AutoHeal
  <2>1. fetched /\ groups' = [s \in DOMAIN groups \cap list |-> groups[s]]
    BY <1>2 DEF ValidateEffect, AutoHeal, Validated, GroupsIn
  <2> QED
    BY <2>1 DEF Dropped
<1>3. CASE ValidateAndEnter
  <2>1. PICK s \in list :
           IF s \in DOMAIN groups
             THEN groups' = GroupsIn(list)
             ELSE \E g : groups' = [x \in (DOMAIN groups \cap list) \cup {s} |->
                                     IF x = s THEN g ELSE groups[x]]
    BY <1>3 DEF ValidateAndEnter
  <2>2. fetched
    BY <1>3 DEF ValidateAndEnter
  <2>3. CASE s \in DOMAIN groups
    BY <2>1, <2>2, <2>3 DEF GroupsIn, Dropped
  <2>4. CASE s \notin DOMAIN groups
    BY <2>1, <2>2, <2>4 DEF Dropped
  <2> QED
    BY <2>3, <2>4
<1> QED
  BY <1>1, <1>2, <1>3 DEF EffectStep

(* Every step, by what it does to the groups.                               *)
LEMMA StepKinds ==
    ASSUME [Next]_vars
    PROVE  \/ groups' = groups
           \/ \E s : PatchedOnly(s)
           \/ Dropped
           \/ ~user' /\ DOMAIN groups' = {}
           \/ Reload
<1>1. CASE UserStep \/ PageStep
  BY <1>1, UserPatches
<1>2. CASE EffectStep
  BY <1>2, EffectsDrop
<1>3. CASE SessionStep
  BY <1>3 DEF SessionStep, Login, OpenInvite, ListArrives, storeVars, Logout
<1>4. CASE UNCHANGED vars
  BY <1>4 DEF vars
<1> QED
  BY <1>1, <1>2, <1>3, <1>4 DEF Next

(* A group goes away with the user, with its workspace, or, in a reload,    *)
(* when none of its tabs is in place.                                       *)
THEOREM GroupsAreKept == Spec => GroupsKept
<1> DEFINE Keeps ==
      \A s \in DOMAIN groups :
         \/ s \in DOMAIN groups'
         \/ ~user'
         \/ fetched /\ s \notin list
         \/ Reload /\ Kept(s) = {}
<1>1. ASSUME [Next]_vars
      PROVE  Keeps
  <2>1. Reload => Keeps
    BY DEF Reload
  <2>2. Dropped => Keeps
    BY DEF Dropped
  <2>3. (\E s : PatchedOnly(s)) => Keeps
    BY DEF PatchedOnly
  <2> QED
    BY <1>1, <2>1, <2>2, <2>3, StepKinds
<1>2. GroupsKept <=> [][Keeps]_vars
  BY DEF GroupsKept
<1> HIDE DEF Keeps
<1>3. [Next]_vars => [Keeps]_vars
  BY <1>1
<1> QED
  BY <1>2, <1>3, PTL DEF Spec

(* A path that changes becomes the location of its tab's router.            *)
OwnPaths == \A id \in Open \cap Open' : path'[id] \in {path[id], loc'[id]}

(* The ways the operators of the store leave the paths.                     *)
StorePaths == KeepPaths \/ UNCHANGED <<path, loc>> \/ \E id, p : SetPath(id, p)

LEMMA StorePathsOwn == StorePaths => OwnPaths
<1>1. ASSUME NEW id, NEW p, SetPath(id, p)
      PROVE  OwnPaths
  BY <1>1 DEF SetPath, OwnPaths
<1>2. KeepPaths \/ UNCHANGED <<path, loc>> => OwnPaths
  BY DEF KeepPaths, OwnPaths
<1> QED
  BY <1>1, <1>2 DEF StorePaths

LEMMA OpensOwnPaths ==
    ASSUME NEW s, NEW p,
           Append1(s, p) \/ Seed(s, p) \/ OpenOrActivate(s, p) \/ SwitchTo(s, p)
    PROVE  OwnPaths
<1>1. \A q : Append1(s, q) \/ Seed(s, q) => StorePaths
  BY DEF Append1, Seed, StorePaths
<1>2. OpenOrActivate(s, p) => StorePaths
  BY <1>1 DEF OpenOrActivate, Activate, StorePaths
<1>3. SwitchTo(s, p) => StorePaths
  BY <1>1, <1>2 DEF SwitchTo, StorePaths
<1> QED
  BY <1>1, <1>2, <1>3, StorePathsOwn

LEMMA PathsAreOwn ==
    ASSUME TabsOK, [Next]_vars
    PROVE  OwnPaths
<1>1. CASE NewTab \/ \E s \in Slugs : OpenNotification(s)
  BY <1>1, OpensOwnPaths DEF NewTab, OpenNotification
<1>2. CASE \E id \in TabIds : CloseTab(id)
  <2>1. KeepPaths \/ \E s, p : Seed(s, p)
    BY <1>2 DEF CloseTab
  <2> QED
    BY <2>1, OpensOwnPaths, StorePathsOwn DEF StorePaths
<1>3. CASE \/ \E id \in TabIds : SetActiveTab(id)
           \/ \E from, to \in 1..Cardinality(TabIds) : MoveTab(from, to)
  BY <1>3, StorePathsOwn DEF SetActiveTab, MoveTab, StorePaths
<1>4. CASE \E id \in Open : PushOverlay(id) \/ \E p \in Paths : PushHere(id, p)
  <2>1. \E id \in Open : \E p : Navigate(id, p)
    BY <1>4 DEF PushOverlay, PushHere
  <2> QED
    BY <2>1 DEF Navigate, OwnPaths, TabsOK, PathsOK
<1>5. CASE \E p \in ScopedPaths : PushElsewhere(p) \/ OpenInNewTab(p)
  BY <1>5, OpensOwnPaths DEF PushElsewhere, OpenInNewTab
<1>6. CASE Login \/ OpenInvite \/ \E new \in SUBSET Slugs : ListArrives(new)
  BY <1>6, StorePathsOwn
  DEF Login, OpenInvite, ListArrives, storeVars, StorePaths
<1>7. CASE Logout \/ ValidateEffect \/ AutoHeal
  BY <1>7, StorePathsOwn DEF Logout, ValidateEffect, AutoHeal, StorePaths
<1>8. CASE Reload
  BY <1>8 DEF Reload, OwnPaths
<1>9. CASE Commit
  BY <1>9 DEF Commit, OwnPaths, TabsOK, PathsOK
<1>10. CASE ValidateAndEnter
  BY <1>10, StorePathsOwn DEF ValidateAndEnter, StorePaths
<1>11. CASE OverlayEffect \/ UNCHANGED vars
  BY <1>11, StorePathsOwn DEF OverlayEffect, storeVars, vars, StorePaths
<1> QED
  BY <1>1, <1>2, <1>3, <1>4, <1>5, <1>6, <1>7, <1>8, <1>9, <1>10, <1>11
  DEF Next, UserStep, PageStep, SessionStep, EffectStep

(* The store's path of a tab follows that tab's own router, and lags behind *)
(* it only while the tab is hidden.                                         *)
THEOREM StoredPathsFollow == Spec => PathsFollow
<1> DEFINE Follows ==
      /\ \A id \in Open \cap Open' : path'[id] \in {path[id], loc'[id]}
      /\ synced' \in Open' => path'[synced'] = loc'[synced']
<1>1. ASSUME TabsOK, [Next]_vars
      PROVE  Follows
  <2>1. TabsOK'
    BY <1>1, TabsStep
  <2> QED
    BY <1>1, <2>1, PathsAreOwn DEF OwnPaths, TabsOK, PathsOK
<1>2. PathsFollow <=> [][Follows]_vars
  BY DEF PathsFollow
<1> HIDE DEF Follows
<1>3. TabsOK /\ [Next]_vars => [Follows]_vars
  BY <1>1
<1>4. Spec => []TabsOK
  BY TabsInit, TabsStep, PTL DEF Spec
<1> QED
  BY <1>2, <1>3, <1>4, PTL DEF Spec

(* With every index kept, the sequence stays as it is.                      *)
LEMMA FilterAll ==
    ASSUME NEW q \in Seq(TabIds)
    PROVE  Filter(q, DOMAIN q) = q
<1>1. PICK n \in Nat : DOMAIN q = 1..n /\ q = [k \in 1..n |-> q[k]]
  OBVIOUS
<1>2. Cardinality(1..n) = n
  <2>1. Cardinality(1..n) = IF 1 > n THEN 0 ELSE n - 1 + 1
    BY FS_Interval
  <2> QED
    BY <2>1
<1>3. \A i \in 1..n : Rank(1..n, i) = i
  <2>1. TAKE i \in 1..n
  <2>2. {j \in 1..n : j <= i} = 1..i
    BY <1>1
  <2>3. Cardinality(1..i) = i
    <3>1. Cardinality(1..i) = IF 1 > i THEN 0 ELSE i - 1 + 1
      BY FS_Interval
    <3> QED
      BY <3>1
  <2> QED
    BY <2>2, <2>3 DEF Rank
<1> DEFINE at(k) == CHOOSE i \in 1..n : Rank(1..n, i) = k
<1>4. \A k \in 1..n : at(k) = k
  BY <1>3
<1>5. Filter(q, 1..n) = [k \in 1..n |-> q[at(k)]]
  BY <1>2 DEF Filter, Rank
<1> HIDE DEF at
<1>6. [k \in 1..n |-> q[at(k)]] = [k \in 1..n |-> q[k]]
  BY <1>4
<1> QED
  BY <1>1, <1>5, <1>6

(* What a reload leaves is in place.                                        *)
LEMMA ReloadScopes ==
    ASSUME TabsOK, Reload
    PROVE  Scoped'
<1>1. SUFFICES ASSUME NEW s \in DOMAIN groups', NEW id \in TabIds,
                      InSeq(id, groups'[s].tabs)
               PROVE  SlugOf(path'[id]) = s
  BY DEF Scoped, TabsOf
<1>2. s \in DOMAIN groups /\ groups'[s] = Merged(s)
  BY DEF Reload
<1> DEFINE q == groups[s].tabs
<1>3. q \in Seq(TabIds) /\ Distinct(q) /\ Kept(s) \in SUBSET DOMAIN q
  BY <1>2 DEF TabsOK, GroupsOK, GroupOK, Group, Kept
<1>4. InSeq(id, Filter(q, Kept(s)))
  BY <1>1, <1>2 DEF Merged
<1>5. PICK i \in Kept(s) : q[i] = id
  BY <1>3, <1>4, Filtered
<1>6. SlugOf(path[id]) = s
  BY <1>5 DEF Kept
<1>7. path'[id] = path[id]
  BY <1>1 DEF Reload, Open, TabsOf
<1> QED
  BY <1>6, <1>7

(* A reload with every tab in place changes nothing.                        *)
LEMMA ReloadKeeps ==
    ASSUME TabsOK, Reload, Scoped
    PROVE  UNCHANGED <<active, groups>>
<1>1. ASSUME NEW s \in DOMAIN groups
      PROVE  Kept(s) # {} /\ Merged(s) = groups[s]
  <2> DEFINE q == groups[s].tabs
  <2>1. /\ q \in Seq(TabIds) /\ InSeq(groups[s].activeTabId, q)
        /\ groups[s] = [tabs |-> q, activeTabId |-> groups[s].activeTabId]
    BY DEF TabsOK, GroupsOK, GroupOK, Group
  <2>2. \A i \in DOMAIN q : q[i] \in TabsOf(s)
    BY <2>1 DEF TabsOf, InSeq
  <2>3. Kept(s) = DOMAIN q
    BY <2>2 DEF Kept, Scoped
  <2>4. Kept(s) # {}
    BY <2>1, <2>3 DEF InSeq
  <2>5. Filter(q, Kept(s)) = q
    BY <2>1, <2>3, FilterAll
  <2>6. Merged(s) = [tabs |-> q, activeTabId |-> groups[s].activeTabId]
    BY <2>1, <2>5 DEF Merged
  <2> QED
    BY <2>1, <2>4, <2>6
<1>2. groups' = groups
  <2>1. {s \in DOMAIN groups : Kept(s) # {}} = DOMAIN groups
    BY <1>1
  <2>2. groups' = [s \in DOMAIN groups |-> Merged(s)]
    BY <2>1 DEF Reload
  <2>3. groups = [s \in DOMAIN groups |-> groups[s]]
    BY DEF TabsOK, GroupsOK
  <2> QED
    BY <1>1, <2>2, <2>3
<1>3. active' = active
  BY <1>2 DEF Reload, TabsOK, ActiveOK, ActiveHasGroup
<1> QED
  BY <1>2, <1>3

(* A reload restores only what is in place, and everything when all is.     *)
THEOREM ReloadIsSafe == Spec => ReloadRestores
<1> DEFINE Restores ==
      Reload => Scoped' /\ (Scoped => UNCHANGED <<active, groups>>)
<1>1. TabsOK => Restores
  BY ReloadScopes, ReloadKeeps
<1>2. ReloadRestores <=> [][Restores]_vars
  BY DEF ReloadRestores
<1> HIDE DEF Restores
<1>3. TabsOK /\ [Next]_vars => [Restores]_vars
  BY <1>1
<1>4. Spec => []TabsOK
  BY TabsInit, TabsStep, PTL DEF Spec
<1> QED
  BY <1>2, <1>3, <1>4, PTL DEF Spec
=============================================================================
