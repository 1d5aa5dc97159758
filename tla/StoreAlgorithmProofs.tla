------------------------ MODULE StoreAlgorithmProofs ------------------------
(***************************************************************************)
(* What the store computes under its lock, for every input: the search of  *)
(* entries.reaches is exact and pops its stack no more than once per link, *)
(* whether or not the graph is acyclic; and a client that walks the pages  *)
(* of a query gets every match, in the order asked for when nobody writes, *)
(* and misses none when others only create.                                *)
(***************************************************************************)
EXTENDS ReachesSearch, Listing, SelectionProofs, FiniteSetTheorems

-----------------------------------------------------------------------------
(* The search: entries.go reaches. *)

(***************************************************************************)
(* What the stack holds after a pop, and after a pop and a push.           *)
(***************************************************************************)
LEMMA PopElements ==
    ASSUME NEW s \in Seq(Nodes), s # <<>>
    PROVE  LET rest == SubSeq(s, 1, Len(s) - 1)
               top == s[Len(s)]
           IN  /\ rest \in Seq(Nodes)
               /\ top \in Nodes
               /\ top \in Elements(s)
               /\ Elements(s) = Elements(rest) \cup {top}
  BY DEF Elements

LEMMA PushElements ==
    ASSUME NEW s \in Seq(Nodes), NEW t \in Seq(Nodes)
    PROVE  /\ s \o t \in Seq(Nodes)
           /\ Elements(s \o t) = Elements(s) \cup Elements(t)
<1>1. s \o t \in Seq(Nodes) /\ Len(s \o t) = Len(s) + Len(t)
  OBVIOUS
<1>2. \A k \in 1..Len(s) : (s \o t)[k] = s[k] /\ k \in 1..Len(s \o t)
  OBVIOUS
<1>3. \A k \in 1..Len(t) : (s \o t)[Len(s) + k] = t[k] /\ Len(s) + k \in 1..Len(s \o t)
  OBVIOUS
<1>4. \A k \in 1..Len(s \o t) : k \in 1..Len(s) \/ k - Len(s) \in 1..Len(t)
  BY <1>1
<1>5. Elements(s \o t) \subseteq Elements(s) \cup Elements(t)
  <2> SUFFICES ASSUME NEW k \in 1..Len(s \o t)
               PROVE  (s \o t)[k] \in Elements(s) \cup Elements(t)
    BY DEF Elements
  <2>1. CASE k \in 1..Len(s)
    BY <2>1, <1>2 DEF Elements
  <2>2. CASE k - Len(s) \in 1..Len(t)
    <3>1. Len(s) + (k - Len(s)) = k
      BY <1>1
    <3> QED BY <2>2, <3>1, <1>3 DEF Elements
  <2> QED BY <2>1, <2>2, <1>4
<1>6. Elements(s) \cup Elements(t) \subseteq Elements(s \o t)
  BY <1>2, <1>3 DEF Elements
<1> QED BY <1>1, <1>5, <1>6

(***************************************************************************)
(* A link out of a reachable resource leads to a reachable resource.       *)
(***************************************************************************)
LEMMA ReachesStep ==
    ASSUME links \in [Nodes -> Seq(Nodes)], NEW a \in Nodes, NEW b \in Nodes, Reaches(a, b),
           NEW c \in Elements(links[b])
    PROVE  Reaches(a, c)
  BY DEF Reaches

(***************************************************************************)
(* The invariant holds when the search starts.                             *)
(***************************************************************************)
LEMMA SearchInitInv == SearchInit => SearchInv
<1> SUFFICES ASSUME SearchInit PROVE SearchInv
  OBVIOUS
<1>1. pending = <<from>> /\ from \in Nodes /\ Elements(pending) = {from}
  BY DEF SearchInit, Elements
<1>2. Reaches(from, from)
  BY DEF Reaches
<1>3. links \in [Nodes -> Seq(Nodes)]
  BY GraphAssumption DEF SearchInit
<1>4. pending \in Seq(Nodes)
  BY <1>1
<1>5. seen = {} /\ popped = 0 /\ result = "none" /\ goal \in Nodes
  BY DEF SearchInit
<1> QED BY <1>1, <1>2, <1>3, <1>4, <1>5 DEF SearchInv

(***************************************************************************)
(* A pop keeps the invariant, whether it finds the goal, meets a resource  *)
(* that was seen, or pushes the links of a new one.                        *)
(***************************************************************************)
LEMMA PopKeepsInv == SearchInv /\ Pop => SearchInv'
<1> SUFFICES ASSUME SearchInv, Pop PROVE SearchInv'
  OBVIOUS
<1>0. pending \in Seq(Nodes) /\ pending # <<>>
  BY DEF SearchInv, Pop
<1>1. /\ Rest \in Seq(Nodes) /\ Top \in Nodes /\ Top \in Elements(pending)
      /\ Elements(pending) = Elements(Rest) \cup {Top}
  BY <1>0, PopElements DEF Rest, Top
<1>2. links' = links /\ from' = from /\ goal' = goal
  BY DEF Pop
<1>3. \A a, b : Reaches(a, b)' <=> Reaches(a, b)
  BY <1>2 DEF Reaches
<1>4. CASE Found
  <2>1. pending' = pending /\ seen' = seen /\ result' = "found" /\ popped' = popped + 1
    BY <1>4 DEF Pop
  <2>2. goal \in Elements(pending)
    BY <1>1, <1>4 DEF Found
  <2> QED BY <1>2, <1>3, <2>1, <2>2 DEF SearchInv
<1>5. CASE ~Found /\ ~Fresh
  <2>1. /\ pending' = Rest /\ seen' = seen /\ result' = "none" /\ popped' = popped + 1
    BY <1>5 DEF Pop
  <2>2. Top \in seen
    BY <1>5 DEF Fresh
  <2>3. seen' \cup Elements(pending') = seen \cup Elements(pending)
    BY <1>1, <2>1, <2>2
  <2> QED BY <1>1, <1>2, <1>3, <2>1, <2>3 DEF SearchInv
<1>6. CASE ~Found /\ Fresh
  <2>1. /\ pending' = Rest \o links[Top] /\ seen' = seen \cup {Top}
        /\ result' = "none" /\ popped' = popped + 1
    BY <1>6 DEF Pop, Pushed
  <2>2. links[Top] \in Seq(Nodes)
    BY <1>1 DEF SearchInv
  <2>3. /\ pending' \in Seq(Nodes)
        /\ Elements(pending') = Elements(Rest) \cup Elements(links[Top])
    BY <1>1, <2>1, <2>2, PushElements
  <2>4. seen' \cup Elements(pending') = (seen \cup Elements(pending)) \cup Elements(links[Top])
    BY <1>1, <2>1, <2>3
  <2>5. Reaches(from, Top)
    BY <1>1 DEF SearchInv
  <2>6. \A c \in Elements(links[Top]) : Reaches(from, c)
    BY <1>1, <2>5, ReachesStep DEF SearchInv
  <2>7. \A i \in seen' \cup Elements(pending') : Reaches(from, i)
    BY <2>4, <2>6 DEF SearchInv
  <2>8. \A i \in seen' : Elements(links[i]) \subseteq seen' \cup Elements(pending')
    BY <2>1, <2>4 DEF SearchInv
  <2>9. goal \notin seen'
    BY <1>6, <2>1 DEF SearchInv, Found
  <2> QED BY <1>1, <1>2, <1>3, <2>1, <2>3, <2>4, <2>7, <2>8, <2>9 DEF SearchInv
<1> QED BY <1>4, <1>5, <1>6

(***************************************************************************)
(* Every step keeps the invariant.                                         *)
(***************************************************************************)
LEMMA SearchNextInv == SearchInv /\ [SearchNext]_searchVars => SearchInv'
<1> SUFFICES ASSUME SearchInv, [SearchNext]_searchVars PROVE SearchInv'
  OBVIOUS
<1>1. CASE Pop
  BY <1>1, PopKeepsInv
<1>2. CASE Exhausted
  <2>1. /\ UNCHANGED <<links, from, goal, pending, seen, popped>>
        /\ result' = "unreachable" /\ pending = <<>>
    BY <1>2 DEF Exhausted
  <2>2. \A a, b : Reaches(a, b)' <=> Reaches(a, b)
    BY <2>1 DEF Reaches
  <2> QED BY <2>1, <2>2 DEF SearchInv
<1>3. CASE UNCHANGED searchVars
  <2>1. UNCHANGED <<links, from, goal, pending, seen, popped, result>>
    BY <1>3 DEF searchVars
  <2>2. \A a, b : Reaches(a, b)' <=> Reaches(a, b)
    BY <2>1 DEF Reaches
  <2> QED BY <2>1, <2>2 DEF SearchInv
<1> QED BY <1>1, <1>2, <1>3 DEF SearchNext

(***************************************************************************)
(* When the stack is empty, what was seen is a closed set with the start   *)
(* and without the goal; when the goal was found, it was reachable.        *)
(***************************************************************************)
LEMMA SearchInvExact == SearchInv => SearchExact
<1> SUFFICES ASSUME SearchInv PROVE SearchExact
  OBVIOUS
<1>1. result = "found" => Reaches(from, goal)
  BY DEF SearchInv
<1>2. ASSUME result = "unreachable" PROVE ~Reaches(from, goal)
  <2>1. Elements(pending) = {}
    BY <1>2 DEF SearchInv, Elements
  <2>2. /\ seen \in SUBSET Nodes /\ from \in seen /\ goal \notin seen
        /\ \A i \in seen : Elements(links[i]) \subseteq seen
    BY <2>1 DEF SearchInv
  <2> QED BY <2>2 DEF Reaches
<1> QED BY <1>1, <1>2 DEF SearchExact

(***************************************************************************)
(* The search of entries.reaches is exact for every graph of links: what   *)
(* it returns is what MemoryStore takes it to return.                      *)
(***************************************************************************)
THEOREM SearchIsExact == SearchSpec => []SearchExact
<1>1. SearchSpec => []SearchInv
  BY SearchInitInv, SearchNextInv, PTL DEF SearchSpec
<1> QED BY <1>1, SearchInvExact, PTL

-----------------------------------------------------------------------------
(* The work.  The links out of some resources, as pairs of a resource and  *)
(* a place in its list: their number is the sum of the lengths.            *)

Row(g, i) == {i} \X (1..Len(g[i]))
Ports(g, S) == UNION {Row(g, i) : i \in S}

LEMMA RowCard ==
    ASSUME NEW g \in [Nodes -> Seq(Nodes)], NEW i \in Nodes
    PROVE  IsFiniteSet(Row(g, i)) /\ Cardinality(Row(g, i)) = Len(g[i])
<1>1. PICK n : n = Len(g[i])
  OBVIOUS
<1>2. n \in Nat /\ 1 \in Int /\ n \in Int
  BY <1>1
<1>3. IsFiniteSet(1..n) /\ Cardinality(1..n) = IF 1 > n THEN 0 ELSE n - 1 + 1
  BY <1>2, FS_Interval
<1>4. Cardinality(1..n) = n
  BY <1>2, <1>3
<1>5. IsFiniteSet({i}) /\ Cardinality({i}) = 1
  BY FS_Singleton
<1>6. PICK A, B : A = {i} /\ B = 1..n
  OBVIOUS
<1>7. IsFiniteSet(A \X B) /\ Cardinality(A \X B) = Cardinality(A) * Cardinality(B)
  BY <1>3, <1>5, <1>6, FS_Product
<1>8. Cardinality(A) * Cardinality(B) = n
  BY <1>2, <1>4, <1>5, <1>6
<1> QED BY <1>1, <1>6, <1>7, <1>8 DEF Row

LEMMA PortsFinite ==
    ASSUME NEW g \in [Nodes -> Seq(Nodes)], NEW S \in SUBSET Nodes
    PROVE  IsFiniteSet(Ports(g, S))
<1>1. IsFiniteSet(S)
  BY GraphAssumption, FS_Subset
<1>2. PICK T, f : T = {Row(g, i) : i \in S} /\ f = [i \in S |-> Row(g, i)]
  OBVIOUS
<1>3. f \in Surjection(S, T)
  BY <1>2 DEF Surjection
<1>4. IsFiniteSet(T)
  BY <1>1, <1>3, FS_Surjection
<1>5. \A R \in T : IsFiniteSet(R)
  BY <1>2, RowCard
<1>6. IsFiniteSet(UNION T)
  BY <1>4, <1>5, FS_UNION
<1> QED BY <1>2, <1>6 DEF Ports

LEMMA PortsSplit ==
    ASSUME NEW g \in [Nodes -> Seq(Nodes)], NEW S \in SUBSET Nodes, NEW x \in S
    PROVE  Cardinality(Ports(g, S)) = Len(g[x]) + Cardinality(Ports(g, S \ {x}))
<1>1. PICK A, B : A = Row(g, x) /\ B = Ports(g, S \ {x})
  OBVIOUS
<1>2. IsFiniteSet(A) /\ Cardinality(A) = Len(g[x])
  BY <1>1, RowCard
<1>3. IsFiniteSet(B)
  BY <1>1, PortsFinite
<1>4. Ports(g, S) = A \cup B
  BY <1>1 DEF Ports
<1>5. A \cap B = {}
  BY <1>1 DEF Ports, Row
<1>6. Cardinality(A \cup B) = Cardinality(A) + Cardinality(B) - Cardinality(A \cap B)
  BY <1>2, <1>3, FS_Union
<1>7. Cardinality(A \cap B) = 0
  BY <1>5, FS_EmptySet
<1>8. Cardinality(A) \in Nat /\ Cardinality(B) \in Nat
  BY <1>2, <1>3, FS_CardinalityType
<1> QED BY <1>1, <1>2, <1>4, <1>6, <1>7, <1>8

LEMMA PortsGrow ==
    ASSUME NEW g \in [Nodes -> Seq(Nodes)], NEW S \in SUBSET Nodes
    PROVE  /\ Cardinality(Ports(g, S)) \in Nat
           /\ Cardinality(Ports(g, S)) <= Cardinality(Ports(g, Nodes))
<1>1. Ports(g, S) \subseteq Ports(g, Nodes)
  BY DEF Ports
<1>2. IsFiniteSet(Ports(g, Nodes)) /\ IsFiniteSet(Ports(g, S))
  BY PortsFinite
<1> QED BY <1>1, <1>2, FS_Subset, FS_CardinalityType

(***************************************************************************)
(* The sum that WorkBounded names is their number.                         *)
(***************************************************************************)
Sums(f, g) ==
    f = [S \in SUBSET Nodes |->
           IF S = {} THEN 0
           ELSE Len(g[CHOOSE x \in S : TRUE]) + f[S \ {CHOOSE x \in S : TRUE}]]

LEMMA SumsExist ==
    ASSUME NEW g \in [Nodes -> Seq(Nodes)]
    PROVE  \E f : Sums(f, g)
<1> DEFINE f == [S \in SUBSET Nodes |-> Cardinality(Ports(g, S))]
<1>1. ASSUME NEW S \in SUBSET Nodes
      PROVE  f[S] = IF S = {} THEN 0 ELSE Len(g[CHOOSE x \in S : TRUE]) + f[S \ {CHOOSE x \in S : TRUE}]
  <2>1. CASE S = {}
    <3>1. Ports(g, S) = {}
      BY <2>1 DEF Ports
    <3> QED BY <2>1, <3>1, FS_EmptySet
  <2>2. CASE S # {}
    <3>1. PICK x : x = CHOOSE y \in S : TRUE
      OBVIOUS
    <3>2. x \in S
      BY <2>2, <3>1
    <3>3. Cardinality(Ports(g, S)) = Len(g[x]) + Cardinality(Ports(g, S \ {x}))
      BY <3>2, PortsSplit
    <3>4. f[S] = Cardinality(Ports(g, S)) /\ f[S \ {x}] = Cardinality(Ports(g, S \ {x}))
      OBVIOUS
    <3> QED BY <2>2, <3>1, <3>3, <3>4
  <2> QED BY <2>1, <2>2
<1>2. f = [S \in SUBSET Nodes |-> f[S]]
  OBVIOUS
<1> HIDE DEF f
<1>3. Sums(f, g)
  BY <1>1, <1>2 DEF Sums
<1> QED BY <1>3

LEMMA SumsAre ==
    ASSUME NEW g \in [Nodes -> Seq(Nodes)], NEW f, Sums(f, g), NEW S \in SUBSET Nodes
    PROVE  f[S] = Cardinality(Ports(g, S))
<1> DEFINE M == {n \in Nat : \A T \in SUBSET Nodes : Cardinality(T) = n => f[T] = Cardinality(Ports(g, T))}
<1>1. \A T \in SUBSET Nodes : IsFiniteSet(T) /\ Cardinality(T) \in Nat
  BY GraphAssumption, FS_Subset, FS_CardinalityType
<1>2. \A T \in SUBSET Nodes :
        f[T] = IF T = {} THEN 0 ELSE Len(g[CHOOSE x \in T : TRUE]) + f[T \ {CHOOSE x \in T : TRUE}]
  BY DEF Sums
<1>3. 0 \in M
  <2>1. ASSUME NEW T \in SUBSET Nodes, Cardinality(T) = 0 PROVE f[T] = Cardinality(Ports(g, T))
    <3>1. T = {}
      BY <1>1, <2>1, FS_EmptySet
    <3>2. Ports(g, T) = {}
      BY <3>1 DEF Ports
    <3> QED BY <1>2, <3>1, <3>2, FS_EmptySet
  <2> QED BY <2>1
<1>4. ASSUME NEW n \in Nat, n \in M PROVE n + 1 \in M
  <2>1. ASSUME NEW T \in SUBSET Nodes, Cardinality(T) = n + 1 PROVE f[T] = Cardinality(Ports(g, T))
    <3>1. T # {}
      BY <2>1, FS_EmptySet
    <3>2. PICK x : x = CHOOSE y \in T : TRUE
      OBVIOUS
    <3>3. x \in T /\ T \ {x} \in SUBSET Nodes
      BY <3>1, <3>2
    <3>4. Cardinality(T \ {x}) = n
      <4>1. Cardinality(T \ {x}) = Cardinality(T) - 1
        BY <1>1, <3>3, FS_RemoveElement
      <4> QED BY <2>1, <4>1
    <3>5. f[T \ {x}] = Cardinality(Ports(g, T \ {x}))
      BY <1>4, <3>3, <3>4
    <3>6. Cardinality(Ports(g, T)) = Len(g[x]) + Cardinality(Ports(g, T \ {x}))
      BY <3>3, PortsSplit
    <3>7. f[T] = Len(g[x]) + f[T \ {x}]
      BY <1>2, <3>1, <3>2
    <3> QED BY <3>5, <3>6, <3>7
  <2> QED BY <2>1
<1> HIDE DEF M
<1>5. Nat \subseteq M
  BY <1>3, <1>4, SetInduction
<1>6. Cardinality(S) \in M
  BY <1>1, <1>5
<1> QED BY <1>6 DEF M

LEMMA SumIsPorts ==
    ASSUME links \in [Nodes -> Seq(Nodes)]
    PROVE  WorkBounded <=> popped <= 1 + Cardinality(Ports(links, Nodes))
<1>1. WorkBounded <=> popped <= 1 + (CHOOSE f : Sums(f, links))[Nodes]
  BY DEF WorkBounded, MapThenSumSet, MapThenFoldSet, Sums
<1>2. PICK g, f : g = links /\ f = CHOOSE h : Sums(h, links)
  OBVIOUS
<1>3. Sums(f, g)
  <2>1. f = CHOOSE h : Sums(h, g)
    BY <1>2
  <2> QED BY <1>2, <2>1, SumsExist
<1>4. f[Nodes] = Cardinality(Ports(g, Nodes))
  BY <1>2, <1>3, SumsAre
<1> QED BY <1>1, <1>2, <1>4

(***************************************************************************)
(* Whatever was pushed was pushed once: the pops so far and those to come  *)
(* are no more than the links of what was seen, and one for the start.     *)
(***************************************************************************)
WorkInv ==
    /\ popped <= 1 + Cardinality(Ports(links, seen))
    /\ result = "none" => popped + Len(pending) <= 1 + Cardinality(Ports(links, seen))

LEMMA WorkInit == SearchInit => WorkInv
<1> SUFFICES ASSUME SearchInit PROVE WorkInv
  OBVIOUS
<1>1. popped = 0 /\ Len(pending) = 1 /\ seen = {}
  BY DEF SearchInit
<1>2. Ports(links, seen) = {}
  BY <1>1 DEF Ports
<1>3. Cardinality(Ports(links, seen)) = 0
  BY <1>2, FS_EmptySet
<1> QED BY <1>1, <1>3 DEF WorkInv

LEMMA PopKeepsWork == SearchInv /\ WorkInv /\ Pop => WorkInv'
<1> SUFFICES ASSUME SearchInv, WorkInv, Pop PROVE WorkInv'
  OBVIOUS
<1>1. /\ links \in [Nodes -> Seq(Nodes)] /\ seen \in SUBSET Nodes /\ popped \in Nat
      /\ pending \in Seq(Nodes) /\ pending # <<>> /\ result = "none" /\ links' = links /\ popped' = popped + 1
  BY DEF SearchInv, Pop
<1>2. PICK c : c = Cardinality(Ports(links, seen))
  OBVIOUS
<1>3. c \in Nat
  BY <1>1, <1>2, PortsGrow
<1>4. Len(pending) \in Nat /\ Len(pending) >= 1 /\ popped + Len(pending) <= 1 + c
  BY <1>1, <1>2 DEF WorkInv
<1>5. Rest \in Seq(Nodes) /\ Len(Rest) = Len(pending) - 1 /\ Top \in Nodes
  <2>1. Rest \in Seq(Nodes) /\ Top \in Nodes
    BY <1>1, PopElements DEF Rest, Top
  <2>2. Len(Rest) = Len(pending) - 1
    <3>1. PICK s, n : s = pending /\ n = Len(s) - 1
      OBVIOUS
    <3>2. s \in Seq(Nodes) /\ n \in Nat /\ n <= Len(s)
      BY <1>1, <1>4, <3>1
    <3>3. Len(SubSeq(s, 1, n)) = n
      BY <3>2
    <3> QED BY <3>1, <3>3 DEF Rest
  <2> QED BY <2>1, <2>2
<1>6. CASE Found
  <2>1. seen' = seen /\ result' = "found"
    BY <1>6 DEF Pop
  <2> QED BY <1>1, <1>2, <1>3, <1>4, <2>1 DEF WorkInv
<1>7. CASE ~Found /\ ~Fresh
  <2>1. seen' = seen /\ pending' = Rest
    BY <1>7 DEF Pop
  <2> QED BY <1>1, <1>2, <1>3, <1>4, <1>5, <2>1 DEF WorkInv
<1>8. CASE ~Found /\ Fresh
  <2>1. seen' = seen \cup {Top} /\ pending' = Rest \o links[Top] /\ Top \notin seen
    BY <1>8 DEF Pop, Pushed, Fresh
  <2>2. PICK g, S, x : g = links /\ S = seen' /\ x = Top
    OBVIOUS
  <2>3. g \in [Nodes -> Seq(Nodes)] /\ S \in SUBSET Nodes /\ x \in S /\ S \ {x} = seen
    BY <1>1, <1>5, <2>1, <2>2
  <2>4. Cardinality(Ports(g, S)) = Len(g[x]) + Cardinality(Ports(g, S \ {x}))
    BY <2>3, PortsSplit
  <2>5. Cardinality(Ports(links', seen')) = Len(links[Top]) + c
    BY <1>1, <1>2, <2>2, <2>3, <2>4
  <2>6. links[Top] \in Seq(Nodes) /\ Len(links[Top]) \in Nat
    BY <1>1, <1>5
  <2>7. Len(pending') = Len(pending) - 1 + Len(links[Top])
    BY <1>5, <2>1, <2>6
  <2>8. PICK d, m, k, l : /\ d = Cardinality(Ports(links', seen')) /\ m = popped
                          /\ k = Len(pending) /\ l = Len(links[Top])
    OBVIOUS
  <2>9. m + 1 <= 1 + d /\ m + 1 + (k - 1 + l) <= 1 + d
    <3>1. m \in Nat /\ k \in Nat /\ l \in Nat /\ k >= 1 /\ m + k <= 1 + c /\ d = l + c
      BY <1>1, <1>4, <2>5, <2>6, <2>8
    <3> QED BY <1>3, <3>1
  <2>10. popped' <= 1 + d /\ popped' + Len(pending') <= 1 + d
    BY <1>1, <2>7, <2>8, <2>9
  <2> QED BY <2>8, <2>10 DEF WorkInv
<1> QED BY <1>6, <1>7, <1>8

(***************************************************************************)
(* The search pops at most once per link and once for the start, however   *)
(* many resources there are and however they are linked (entries.go        *)
(* reaches and seen).                                                      *)
(***************************************************************************)
THEOREM SearchIsLinear == SearchSpec => []WorkBounded
<1>1. SearchInit => SearchInv /\ WorkInv
  BY SearchInitInv, WorkInit
<1>2. SearchInv /\ WorkInv /\ [SearchNext]_searchVars => SearchInv' /\ WorkInv'
  <2> SUFFICES ASSUME SearchInv, WorkInv, [SearchNext]_searchVars PROVE SearchInv' /\ WorkInv'
    OBVIOUS
  <2>1. SearchInv'
    BY SearchNextInv
  <2>2. CASE Pop
    BY <2>1, <2>2, PopKeepsWork
  <2>3. CASE Exhausted
    <3>1. UNCHANGED <<links, pending, seen, popped>> /\ result' = "unreachable"
      BY <2>3 DEF Exhausted
    <3> QED BY <2>1, <3>1 DEF WorkInv
  <2>4. CASE UNCHANGED searchVars
    BY <2>1, <2>4 DEF WorkInv, searchVars
  <2> QED BY <2>2, <2>3, <2>4 DEF SearchNext
<1>3. SearchInv /\ WorkInv => WorkBounded
  <2> SUFFICES ASSUME SearchInv, WorkInv PROVE WorkBounded
    OBVIOUS
  <2>1. links \in [Nodes -> Seq(Nodes)] /\ seen \in SUBSET Nodes /\ popped \in Nat
    BY DEF SearchInv
  <2>2. PICK g, S, c, d : g = links /\ S = seen /\ c = Cardinality(Ports(g, S)) /\ d = Cardinality(Ports(g, Nodes))
    OBVIOUS
  <2>3. c \in Nat /\ c <= d
    BY <2>1, <2>2, PortsGrow
  <2>4. d \in Nat
    BY <2>1, <2>2, PortsGrow
  <2>5. WorkBounded <=> popped <= 1 + d
    BY <2>1, <2>2, SumIsPorts
  <2>6. popped <= 1 + c
    BY <2>2 DEF WorkInv
  <2> QED BY <2>1, <2>3, <2>4, <2>5, <2>6
<1> QED BY <1>1, <1>2, <1>3, PTL DEF SearchSpec

-----------------------------------------------------------------------------
(* The pages: query.go and sort.go. *)

-----------------------------------------------------------------------------
(* A finite set in a strict total order: every place is taken by exactly   *)
(* one element.                                                            *)

StrictOrder(R, M) ==
    /\ \A i \in M : <<i, i>> \notin R
    /\ \A i, j \in M : i # j => <<i, j>> \in R \/ <<j, i>> \in R
    /\ \A i, j, k \in M : <<i, j>> \in R /\ <<j, k>> \in R => <<i, k>> \in R

LEMMA Ranking ==
    ASSUME NEW M, IsFiniteSet(M), NEW R, StrictOrder(R, M),
           NEW rank, rank = [i \in M |-> Cardinality({j \in M : <<j, i>> \in R})]
    PROVE  /\ \A i \in M : rank[i] \in 0 .. Cardinality(M) - 1
           /\ \A i, j \in M : <<i, j>> \in R => rank[i] < rank[j]
           /\ \A i, j \in M : rank[i] = rank[j] => i = j
           /\ \A k \in 0 .. Cardinality(M) - 1 : \E i \in M : rank[i] = k
<1> DEFINE B(i) == {j \in M : <<j, i>> \in R}
<1>1. PICK N \in Nat : N = Cardinality(M)
  BY FS_CardinalityType
<1>2. \A i \in M : IsFiniteSet(B(i)) /\ Cardinality(B(i)) \in Nat /\ rank[i] = Cardinality(B(i))
  <2> TAKE i \in M
  <2>1. B(i) \in SUBSET M
    OBVIOUS
  <2>2. IsFiniteSet(B(i))
    BY <2>1, FS_Subset
  <2>3. rank[i] = Cardinality(B(i))
    OBVIOUS
  <2> HIDE DEF B
  <2> QED
    BY <2>2, <2>3, FS_CardinalityType
<1>3. ASSUME NEW i \in M PROVE rank[i] \in 0 .. N - 1
  <2>1. B(i) \in SUBSET M /\ i \notin B(i)
    BY DEF StrictOrder
  <2>2. Cardinality(B(i)) <= N /\ (N = Cardinality(B(i)) => M = B(i))
    BY <1>1, <2>1, FS_Subset
  <2>3. Cardinality(B(i)) # N
    BY <2>1, <2>2
  <2> HIDE DEF B
  <2> QED
    BY <1>1, <1>2, <2>2, <2>3
<1>4. ASSUME NEW i \in M, NEW j \in M, <<i, j>> \in R PROVE rank[i] < rank[j]
  <2>1. B(i) \in SUBSET B(j) /\ i \in B(j) /\ i \notin B(i)
    BY <1>4 DEF StrictOrder
  <2>2. Cardinality(B(i)) <= Cardinality(B(j)) /\ (Cardinality(B(j)) = Cardinality(B(i)) => B(j) = B(i))
    BY <1>2, <2>1, FS_Subset
  <2>3. Cardinality(B(i)) # Cardinality(B(j))
    BY <2>1, <2>2
  <2> HIDE DEF B
  <2> QED
    BY <1>2, <2>2, <2>3
<1>5. ASSUME NEW i \in M, NEW j \in M, rank[i] = rank[j] PROVE i = j
  <2>1. rank[i] \in Nat /\ rank[j] \in Nat
    BY <1>2
  <2>2. <<i, j>> \notin R /\ <<j, i>> \notin R
    BY <1>4, <1>5, <2>1
  <2> QED
    BY <2>2 DEF StrictOrder
<1>6. PICK P : P = 0 .. N - 1
  OBVIOUS
<1>7. IsFiniteSet(P) /\ Cardinality(P) = N
  <2>1. IsFiniteSet(0 .. N - 1) /\ Cardinality(0 .. N - 1) = IF 0 > N - 1 THEN 0 ELSE N - 1 - 0 + 1
    BY FS_Interval
  <2> QED
    BY <1>6, <2>1
<1>8. rank \in Injection(M, P)
  BY <1>3, <1>5, <1>6 DEF Injection, IsInjective
<1>9. rank \in Surjection(M, P)
  BY <1>1, <1>7, <1>8, FS_Injection
<1>10. \A k \in P : \E i \in M : rank[i] = k
  BY <1>9 DEF Surjection
<1> QED
  BY <1>1, <1>3, <1>4, <1>5, <1>6, <1>10

-----------------------------------------------------------------------------
(* The order of the rows. *)

\* The definitions of Listing, for a given table.
MatchIn(T, q) == {i \in RowIds : T[i] # Absent /\ T[i] \in q.filter}

\* What the rows are compared by.
KeyIn(q, row) == Defaulted(q.sortBy, sortKey(q.sortBy, row))

Directed(a, b, descending) == IF descending THEN -compareKeys(a, b) ELSE compareKeys(a, b)

SortsIn(T, q, i, j) ==
    LET c == IF q.sortBy = "none" THEN 0 ELSE Directed(KeyIn(q, T[i]), KeyIn(q, T[j]), q.descending)
    IN  c < 0 \/ (c = 0 /\ i < j)

RankIn(T, q, i) == Cardinality({j \in MatchIn(T, q) : SortsIn(T, q, j, i)})

RowsIn(T, q) == [k \in 1..Cardinality(MatchIn(T, q)) |-> CHOOSE i \in MatchIn(T, q) : RankIn(T, q, i) = k - 1]

LEMMA InTable ==
    ASSUME NEW q
    PROVE  /\ matching(q) = MatchIn(table, q) /\ sorted(q) = RowsIn(table, q)
           /\ matching(q)' = MatchIn(table', q') /\ sorted(q)' = RowsIn(table', q')
<1>1. matching(q) = MatchIn(table, q)
  BY DEF matching, idsOf, MatchIn
<1>2. matching(q)' = MatchIn(table', q')
  BY DEF matching, idsOf, MatchIn
<1>3. \A i : Cardinality(Before(q, i)) = RankIn(table, q, i)
  BY <1>1 DEF Before, RankIn, sortsBefore, SortsIn, KeyIn, Directed, compareSortKeys, compareAscending
<1>4. \A i : Cardinality(Before(q, i)') = RankIn(table', q', i)
  BY <1>2 DEF Before, RankIn, sortsBefore, SortsIn, KeyIn, Directed, compareSortKeys, compareAscending
<1>5. sorted(q) = RowsIn(table, q)
  BY <1>1, <1>3 DEF sorted, RowsIn
<1>6. sorted(q)' = RowsIn(table', q')
  BY <1>2, <1>4 DEF sorted, RowsIn
<1> QED
  BY <1>1, <1>2, <1>5, <1>6

Tables == [RowIds -> Rows \cup {Absent}]

\* sort.go primaryOrFirst, without its loop.
LEMMA ElementIs ==
    ASSUME NEW list \in Seq(Element), list # <<>>,
           \A k, l \in 1..Len(list) : list[k].primary = Yes /\ list[l].primary = Yes => k = l
    PROVE  \E k \in 1 .. Len(list) :
              /\ primaryOrFirst(list) = list[k] /\ list[k] \in Element
              /\ (\A l \in 1 .. Len(list) : list[l].object) =>
                   \/ list[k].primary = Yes
                   \/ k = 1 /\ \A l \in 1 .. Len(list) : list[l].primary # Yes
<1>1. PICK P : P = {k \in 1 .. Len(list) : list[k].object /\ list[k].primary = Yes}
  OBVIOUS
<1>2. Len(list) \in Nat /\ 1 \in 1 .. Len(list) /\ \A k \in 1 .. Len(list) : list[k] \in Element
  <2>1. PICK E : E = Element
    OBVIOUS
  <2>2. list \in Seq(E)
    BY <2>1
  <2>3. Len(list) \in Nat /\ Len(list) # 0 /\ \A k \in 1 .. Len(list) : list[k] \in E
    BY <2>2
  <2> QED
    BY <2>1, <2>3
<1>3. CASE P = {}
  <2>1. primaryOrFirst(list) = list[1]
    BY <1>1, <1>3 DEF primaryOrFirst
  <2> QED
    BY <1>1, <1>2, <1>3, <2>1
<1>4. CASE P # {}
  <2>1. PICK k \in P : TRUE
    BY <1>4
  <2>2. \A l \in P : l = k
    BY <1>1, <2>1
  <2>3. k \in Nat
    BY <1>1, <1>2
  <2>4. \E h \in P : \A l \in P : h <= l
    BY <2>2, <2>3
  <2>5. PICK c : c = CHOOSE h \in P : \A l \in P : h <= l
    OBVIOUS
  <2>6. c \in P
    BY <2>4, <2>5
  <2>7. primaryOrFirst(list) = list[c]
    BY <1>1, <1>4, <2>5 DEF primaryOrFirst
  <2> QED
    BY <1>1, <1>2, <2>6, <2>7
<1> QED
  BY <1>3, <1>4

\* The key of a row is what KeysOf says, and Missing when it says nothing.
LEMMA KeyIs ==
    ASSUME NEW row \in Rows, NEW q \in Queries
    PROVE  /\ KeyIn(q, row) \in Nat
           /\ q.sortBy # "none" => KeysOf(q.sortBy, row) = {KeyIn(q, row)} \ {Missing}
<1>1. PICK by \in SortBy : by = q.sortBy
  BY ListingAssumption
<1>2. PICK emails \in Seq(Element) : emails = row.emails
  BY ListingAssumption
<1>3. PICK tags \in Seq(Element) : tags = row.tags
  BY ListingAssumption
<1>4. /\ row.title \in Nat
      /\ \A k \in 1..Len(emails) : emails[k].object
      /\ \A k, l \in 1..Len(emails) : emails[k].primary = Yes /\ emails[l].primary = Yes => k = l
      /\ \A k \in 1..Len(tags) : ~tags[k].object
  BY <1>2, <1>3, ListingAssumption
<1>5. KeyIn(q, row) = IF by = "primary" /\ sortKey(by, row) = Missing THEN No ELSE sortKey(by, row)
  BY <1>1 DEF KeyIn, Defaulted
<1>6. CASE by = "title"
  <2>1. sortKey(by, row) = row.title /\ KeysOf(by, row) = {row.title} \ {Missing}
    BY <1>6 DEF sortKey, KeysOf
  <2> QED
    BY <1>1, <1>4, <1>5, <1>6, <2>1
<1>7. CASE by = "tags"
  <2>1. KeysOf(by, row) = {}
    BY <1>7 DEF KeysOf
  <2>2. sortKey(by, row) = Missing
    <3>1. CASE tags = <<>>
      BY <1>3, <1>7, <3>1 DEF sortKey
    <3>2. CASE tags # <<>>
      <4>1. sortKey(by, row) = Lookup(primaryOrFirst(tags), by)
        BY <1>3, <1>7, <3>2 DEF sortKey
      <4>2. PICK P : P = {k \in 1 .. Len(tags) : tags[k].object /\ tags[k].primary = Yes}
        OBVIOUS
      <4>3. P = {}
        BY <1>4, <4>2
      <4>4. primaryOrFirst(tags) = tags[1]
        BY <4>2, <4>3 DEF primaryOrFirst
      <4>5. 1 \in 1 .. Len(tags)
        BY <3>2
      <4> QED
        BY <1>4, <4>1, <4>4, <4>5 DEF Lookup
    <3> QED
      BY <3>1, <3>2
  <2> QED
    BY <1>1, <1>5, <1>7, <2>1, <2>2 DEF Missing
<1>8. CASE by \notin {"title", "tags"}
  <2>1. CASE emails = <<>>
    <3>1. sortKey(by, row) = Missing
      BY <1>2, <1>8, <2>1 DEF sortKey
    <3>2. Len(emails) = 0
      BY <2>1
    <3>3. ~(\E k \in 1..Len(emails) : emails[k].primary = Yes) /\ {1} \cap 1..Len(emails) = {}
      BY <3>2
    <3>4. by = "value" => KeysOf(by, row) = {}
      BY <1>2, <3>3 DEF KeysOf
    <3>5. by = "primary" => KeysOf(by, row) = {No}
      BY <1>2, <3>3 DEF KeysOf
    <3> QED
      BY <1>1, <1>5, <1>8, <3>1, <3>4, <3>5 DEF Missing, No, SortBy
  <2>2. CASE emails # <<>>
    <3>1. PICK k \in 1 .. Len(emails) :
            /\ primaryOrFirst(emails) = emails[k] /\ emails[k] \in Element
            /\ \/ emails[k].primary = Yes
               \/ k = 1 /\ \A l \in 1 .. Len(emails) : emails[l].primary # Yes
      BY <1>4, <2>2, ElementIs
    <3>2. sortKey(by, row) = IF by = "primary" THEN emails[k].primary ELSE emails[k].value
      BY <1>2, <1>4, <1>8, <2>2, <3>1 DEF sortKey, Lookup
    <3>3. emails[k].value \in Nat /\ emails[k].primary \in {Missing, No, Yes}
      BY <3>1 DEF Element
    <3>4. CASE by = "primary"
      <4>1. KeyIn(q, row) = IF emails[k].primary = Missing THEN No ELSE emails[k].primary
        BY <1>5, <3>2, <3>4
      <4>2. CASE emails[k].primary = Yes
        <5>1. KeysOf(by, row) = {Yes}
          BY <1>2, <3>1, <3>4, <4>2 DEF KeysOf
        <5> QED
          BY <1>1, <4>1, <4>2, <5>1 DEF Missing, Yes
      <4>3. CASE emails[k].primary # Yes
        <5>1. KeysOf(by, row) = {No}
          BY <1>2, <3>1, <3>4, <4>3 DEF KeysOf
        <5>2. KeyIn(q, row) = No
          BY <3>3, <4>1, <4>3
        <5> QED
          BY <1>1, <5>1, <5>2 DEF Missing, No
      <4> QED
        BY <4>2, <4>3
    <3>5. CASE by # "primary"
      <4>1. KeyIn(q, row) = emails[k].value
        BY <1>5, <3>2, <3>5
      <4>2. ASSUME by = "value" PROVE KeysOf(by, row) = {emails[k].value} \ {Missing}
        <5>1. CASE emails[k].primary = Yes
          <6>1. {l \in 1 .. Len(emails) : emails[l].primary = Yes} = {k}
            BY <1>4, <3>1, <5>1
          <6> QED
            BY <1>2, <3>1, <4>2, <5>1, <6>1 DEF KeysOf
        <5>2. CASE k = 1 /\ \A l \in 1 .. Len(emails) : emails[l].primary # Yes
          <6>1. {1} \cap 1 .. Len(emails) = {k}
            BY <3>1, <5>2
          <6> QED
            BY <1>2, <4>2, <5>2, <6>1 DEF KeysOf
        <5> QED
          BY <3>1, <5>1, <5>2
      <4> QED
        BY <1>1, <1>8, <3>3, <3>5, <4>1, <4>2 DEF SortBy
    <3> QED
      BY <3>4, <3>5
  <2> QED
    BY <2>1, <2>2
<1> QED
  BY <1>6, <1>7, <1>8

LEMMA Comparing ==
    ASSUME NEW a \in Nat, NEW b \in Nat, NEW d \in BOOLEAN
    PROVE  /\ Directed(a, b, d) \in Int
           /\ Directed(b, a, d) = -Directed(a, b, d)
           /\ Directed(a, b, d) = 0 <=> a = b
           /\ \A c \in Nat : Directed(a, b, d) < 0 /\ Directed(b, c, d) < 0 => Directed(a, c, d) < 0
<1>1. /\ compareKeys(a, b) \in Int
      /\ compareKeys(b, a) = -compareKeys(a, b)
      /\ compareKeys(a, b) = 0 <=> a = b
  BY DEF compareKeys, Missing
<1>2. ASSUME NEW c \in Nat
      PROVE  /\ compareKeys(a, b) < 0 /\ compareKeys(b, c) < 0 => compareKeys(a, c) < 0
             /\ compareKeys(a, b) > 0 /\ compareKeys(b, c) > 0 => compareKeys(a, c) > 0
             /\ compareKeys(b, c) \in Int /\ compareKeys(a, c) \in Int
  BY DEF compareKeys, Missing
<1> QED
  BY <1>1, <1>2 DEF Directed

LEMMA SortsStrictly ==
    ASSUME NEW T \in Tables, NEW q \in Queries
    PROVE  /\ IsFiniteSet(MatchIn(T, q))
           /\ StrictOrder({p \in MatchIn(T, q) \X MatchIn(T, q) : SortsIn(T, q, p[1], p[2])}, MatchIn(T, q))
<1>1. PICK M : M = MatchIn(T, q)
  OBVIOUS
<1>2. M \in SUBSET RowIds /\ M \subseteq Nat /\ \A i \in M : T[i] \in Rows
  BY <1>1, ListingAssumption DEF MatchIn, Tables
<1>3. IsFiniteSet(M)
  BY <1>2, FS_Subset, ListingAssumption
<1>4. PICK key : key = [i \in M |-> KeyIn(q, T[i])]
  OBVIOUS
<1>5. \A i \in M : key[i] \in Nat
  BY <1>2, <1>4, KeyIs
<1>6. q.descending \in BOOLEAN /\ q.sortBy \in SortBy
  BY ListingAssumption
<1>7. ASSUME NEW i \in M, NEW j \in M
      PROVE  /\ q.sortBy = "none" => (SortsIn(T, q, i, j) <=> i < j)
             /\ q.sortBy # "none" => (SortsIn(T, q, i, j) <=>
                  (Directed(key[i], key[j], q.descending) < 0 \/ (key[i] = key[j] /\ i < j)))
  <2>1. PICK c : c = Directed(key[i], key[j], q.descending)
    OBVIOUS
  <2>2. c \in Int /\ (c = 0 <=> key[i] = key[j])
    BY <1>5, <1>6, <2>1, Comparing
  <2>3. c = Directed(KeyIn(q, T[i]), KeyIn(q, T[j]), q.descending)
    BY <1>4, <2>1
  <2>4. CASE q.sortBy = "none"
    BY <2>4 DEF SortsIn
  <2>5. CASE q.sortBy # "none"
    <3>1. SortsIn(T, q, i, j) <=> c < 0 \/ (c = 0 /\ i < j)
      BY <2>3, <2>5 DEF SortsIn
    <3> QED
      BY <2>1, <2>2, <2>5, <3>1
  <2> QED
    BY <2>4, <2>5
<1>8. \A i \in M : ~SortsIn(T, q, i, i)
  <2> TAKE i \in M
  <2>1. PICK c : c = Directed(key[i], key[i], q.descending)
    OBVIOUS
  <2>2. c = 0
    BY <1>5, <1>6, <2>1, Comparing
  <2> QED
    <3>1. ~(i < i) /\ ~(c < 0)
      BY <1>2, <2>2
    <3>2. /\ q.sortBy = "none" => (SortsIn(T, q, i, i) <=> i < i)
          /\ q.sortBy # "none" => (SortsIn(T, q, i, i) <=> c < 0 \/ (key[i] = key[i] /\ i < i))
      BY <1>7, <2>1
    <3> QED
      BY <3>1, <3>2
<1>9. \A i, j \in M : i # j => SortsIn(T, q, i, j) \/ SortsIn(T, q, j, i)
  <2> TAKE i, j \in M
  <2>1. PICK c : c = Directed(key[i], key[j], q.descending)
    OBVIOUS
  <2>2. c \in Int /\ (c = 0 <=> key[i] = key[j]) /\ Directed(key[j], key[i], q.descending) = -c
    BY <1>5, <1>6, <2>1, Comparing
  <2>3. i \in Nat /\ j \in Nat
    BY <1>2
  <2> QED
    BY <1>7, <2>1, <2>2, <2>3
<1>10. \A i, j, k \in M : SortsIn(T, q, i, j) /\ SortsIn(T, q, j, k) => SortsIn(T, q, i, k)
  <2> TAKE i, j, k \in M
  <2>1. i \in Nat /\ j \in Nat /\ k \in Nat
    BY <1>2
  <2>2. /\ Directed(key[i], key[j], q.descending) < 0 /\ Directed(key[j], key[k], q.descending) < 0
             => Directed(key[i], key[k], q.descending) < 0
    BY <1>5, <1>6, Comparing
  <2> QED
    BY <1>7, <2>1, <2>2
<1>11. PICK R : R = {p \in M \X M : SortsIn(T, q, p[1], p[2])}
  OBVIOUS
<1>12. \A i, j \in M : <<i, j>> \in R <=> SortsIn(T, q, i, j)
  BY <1>11
<1>13. StrictOrder(R, M)
  BY <1>8, <1>9, <1>10, <1>12 DEF StrictOrder
<1> QED
  BY <1>1, <1>3, <1>11, <1>13

\* sorted: every match once, each in its place.
LEMMA RowsAre ==
    ASSUME NEW T \in Tables, NEW q \in Queries
    PROVE  LET M == MatchIn(T, q)
               N == Cardinality(M)
               rows == RowsIn(T, q)
           IN  /\ N \in Nat /\ rows \in Seq(RowIds) /\ Len(rows) = N
               /\ \A k \in 1 .. N : rows[k] \in M
               /\ \A i \in M : RankIn(T, q, i) \in 0 .. N - 1 /\ rows[RankIn(T, q, i) + 1] = i
               /\ \A k, l \in 1 .. N : k < l => SortsIn(T, q, rows[k], rows[l])
               /\ \A k, l \in 1 .. N : rows[k] = rows[l] => k = l
<1>1. PICK M : M = MatchIn(T, q)
  OBVIOUS
<1>2. PICK R : R = {p \in M \X M : SortsIn(T, q, p[1], p[2])}
  OBVIOUS
<1>3. IsFiniteSet(M) /\ StrictOrder(R, M)
  BY <1>1, <1>2, SortsStrictly
<1>4. PICK N \in Nat : N = Cardinality(M)
  BY <1>3, FS_CardinalityType
<1>5. PICK rank : rank = [i \in M |-> Cardinality({j \in M : <<j, i>> \in R})]
  OBVIOUS
<1>6. \A i \in M : rank[i] = RankIn(T, q, i)
  <2> TAKE i \in M
  <2>1. {j \in M : <<j, i>> \in R} = {j \in MatchIn(T, q) : SortsIn(T, q, j, i)}
    BY <1>1, <1>2
  <2> QED
    BY <1>5, <2>1 DEF RankIn
<1>7. /\ \A i \in M : rank[i] \in 0 .. N - 1
      /\ \A i, j \in M : <<i, j>> \in R => rank[i] < rank[j]
      /\ \A i, j \in M : rank[i] = rank[j] => i = j
      /\ \A k \in 0 .. N - 1 : \E i \in M : rank[i] = k
  BY <1>3, <1>4, <1>5, Ranking
<1>8. PICK rows : rows = RowsIn(T, q)
  OBVIOUS
<1>9. rows = [k \in 1 .. N |-> CHOOSE i \in M : RankIn(T, q, i) = k - 1]
  BY <1>1, <1>4, <1>8 DEF RowsIn
<1>10. \A k \in 1 .. N : rows[k] \in M /\ rank[rows[k]] = k - 1
  <2> TAKE k \in 1 .. N
  <2>1. k - 1 \in 0 .. N - 1
    OBVIOUS
  <2>2. \E i \in M : RankIn(T, q, i) = k - 1
    BY <1>6, <1>7, <2>1
  <2>3. PICK c : c = CHOOSE i \in M : RankIn(T, q, i) = k - 1
    OBVIOUS
  <2>4. c \in M /\ RankIn(T, q, c) = k - 1
    BY <2>2, <2>3
  <2>5. rows[k] = c
    BY <1>9, <2>3
  <2> QED
    BY <1>6, <2>4, <2>5
<1>11. M \subseteq RowIds
  BY <1>1 DEF MatchIn
<1>12. rows \in Seq(RowIds) /\ Len(rows) = N
  <2>1. rows \in [1 .. N -> RowIds]
    BY <1>9, <1>10, <1>11
  <2> QED
    BY <2>1
<1>13. ASSUME NEW i \in M PROVE rank[i] \in 0 .. N - 1 /\ rows[rank[i] + 1] = i
  <2>1. PICK k \in 0 .. N - 1 : k = rank[i]
    BY <1>7
  <2>2. k + 1 \in 1 .. N /\ k + 1 - 1 = k
    OBVIOUS
  <2>3. rows[k + 1] \in M /\ rank[rows[k + 1]] = k
    BY <1>10, <2>2
  <2> QED
    BY <1>7, <2>1, <2>3
<1>14. ASSUME NEW k \in 1 .. N, NEW l \in 1 .. N, k < l PROVE SortsIn(T, q, rows[k], rows[l])
  <2>1. PICK i \in M : i = rows[k] /\ rank[i] = k - 1
    BY <1>10
  <2>2. PICK j \in M : j = rows[l] /\ rank[j] = l - 1
    BY <1>10
  <2>3. rank[i] < rank[j]
    BY <1>14, <2>1, <2>2
  <2>4. i # j /\ ~(rank[j] < rank[i])
    BY <1>7, <2>3
  <2>5. <<i, j>> \in R
    BY <1>3, <1>7, <2>4 DEF StrictOrder
  <2> QED
    BY <1>2, <2>1, <2>2, <2>5
<1>15. ASSUME NEW k \in 1 .. N, NEW l \in 1 .. N, rows[k] = rows[l] PROVE k = l
  <2>1. k - 1 = l - 1
    BY <1>10, <1>15
  <2> QED
    BY <2>1
<1> QED
  BY <1>1, <1>4, <1>6, <1>8, <1>10, <1>12, <1>13, <1>14, <1>15

\* A resource that is created sends no other one towards the front.
LEMMA RankGrows ==
    ASSUME NEW T \in Tables, NEW q \in Queries, NEW i \in RowIds, T[i] = Absent, NEW row \in Rows,
           NEW U, U = [T EXCEPT ![i] = row]
    PROVE  /\ U \in Tables
           /\ MatchIn(T, q) \subseteq MatchIn(U, q)
           /\ \A j \in MatchIn(T, q) : RankIn(T, q, j) <= RankIn(U, q, j)
<1>1. U \in Tables /\ \A j \in RowIds : j # i => U[j] = T[j]
  BY DEF Tables
<1>2. ASSUME NEW j \in MatchIn(T, q) PROVE j \in RowIds /\ j # i /\ U[j] = T[j] /\ j \in MatchIn(U, q)
  BY <1>1 DEF MatchIn
<1>3. MatchIn(T, q) \subseteq MatchIn(U, q)
  BY <1>2
<1>4. ASSUME NEW j \in MatchIn(T, q) PROVE RankIn(T, q, j) <= RankIn(U, q, j)
  <2>1. PICK A : A = {k \in MatchIn(T, q) : SortsIn(T, q, k, j)}
    OBVIOUS
  <2>2. PICK B : B = {k \in MatchIn(U, q) : SortsIn(U, q, k, j)}
    OBVIOUS
  <2>3. \A k \in MatchIn(T, q) : SortsIn(T, q, k, j) => SortsIn(U, q, k, j)
    BY <1>2 DEF SortsIn
  <2>4. A \in SUBSET B
    BY <1>3, <2>1, <2>2, <2>3
  <2>5. IsFiniteSet(MatchIn(U, q))
    BY <1>1, SortsStrictly
  <2>6. B \in SUBSET MatchIn(U, q)
    BY <2>2
  <2>7. IsFiniteSet(B)
    BY <2>5, <2>6, FS_Subset
  <2>8. Cardinality(A) <= Cardinality(B)
    BY <2>4, <2>7, FS_Subset
  <2> QED
    BY <2>1, <2>2, <2>8 DEF RankIn
<1> QED
  BY <1>1, <1>3, <1>4

\* page: the rows from startIndex on, as many as count allows.
LEMMA PageIs ==
    ASSUME table \in Tables, NEW q \in Queries, NEW next \in Int, next >= 1
    PROVE  LET N == Cardinality(MatchIn(table, q))
               items == page(q, next)
               left == IF next - 1 < N THEN N - (next - 1) ELSE 0
           IN  /\ items \in Seq(RowIds)
               /\ Count(q) \in Nat
               /\ Len(items) = IF Count(q) < left THEN Count(q) ELSE left
               /\ next - 1 < N => \A k \in 1 .. Len(items) : items[k] = RowsIn(table, q)[next - 1 + k]
<1>1. PICK rows : rows = RowsIn(table, q)
  OBVIOUS
<1>2. PICK N \in Nat : N = Cardinality(MatchIn(table, q)) /\ rows \in Seq(RowIds) /\ Len(rows) = N
  BY <1>1, RowsAre
<1>3. PICK c : c = Count(q)
  OBVIOUS
<1>4. c \in Nat
  BY <1>3, ListingAssumption DEF Count
<1>5. Offset(next) = next - 1
  BY DEF Offset
<1>6. PICK start : start = IF next - 1 < N THEN next - 1 ELSE N
  OBVIOUS
<1>7. PICK size : size = IF c < N - start THEN c ELSE N - start
  OBVIOUS
<1>8. PICK items : items = page(q, next)
  OBVIOUS
<1>9. sorted(q) = rows
  BY <1>1, InTable
<1>10. items = SubSeq(rows, start + 1, start + size)
  BY <1>2, <1>3, <1>5, <1>6, <1>7, <1>8, <1>9 DEF page
<1>11. start \in Nat /\ start <= N /\ size \in Nat /\ start + size <= N
  BY <1>4, <1>6, <1>7
<1>12. items \in Seq(RowIds) /\ Len(items) = size /\ \A k \in 1 .. size : items[k] = rows[start + k]
  <2>1. PICK m \in Nat : m = start + 1
    BY <1>11
  <2>2. PICK n \in Nat : n = start + size
    BY <1>11
  <2>3. items = SubSeq(rows, m, n) /\ rows \in Seq(RowIds) /\ m >= 1 /\ n <= Len(rows) /\ m <= n + 1
    BY <1>2, <1>10, <1>11, <2>1, <2>2
  <2>4. Len(items) = n - m + 1 /\ items \in Seq(RowIds)
    BY <2>3
  <2>5. \A k \in 1 .. n - m + 1 : items[k] = rows[m + k - 1]
    BY <2>3
  <2>6. n - m + 1 = size
    BY <1>11, <2>1, <2>2
  <2>7. \A k \in 1 .. size : m + k - 1 = start + k
    BY <1>11, <2>1
  <2> QED
    BY <2>4, <2>5, <2>6, <2>7
<1> QED
  BY <1>1, <1>2, <1>3, <1>4, <1>6, <1>7, <1>8, <1>12

-----------------------------------------------------------------------------
(* The order that was asked for. *)

LEMMA SortedAsAsked ==
    ASSUME table \in Tables, NEW q \in Queries, NEW i \in MatchIn(table, q), NEW j \in MatchIn(table, q),
           SortsIn(table, q, i, j)
    PROVE  ~Precedes(q, j, i) /\ (Precedes(q, i, j) \/ i < j)
<1>1. table[i] \in Rows /\ table[j] \in Rows
  BY DEF MatchIn, Tables
<1>2. PICK a \in Nat : a = KeyIn(q, table[i])
  BY <1>1, KeyIs
<1>3. PICK b \in Nat : b = KeyIn(q, table[j])
  BY <1>1, KeyIs
<1>4. PICK A : A = KeysOf(q.sortBy, table[i])
  OBVIOUS
<1>5. PICK B : B = KeysOf(q.sortBy, table[j])
  OBVIOUS
<1>6. /\ Precedes(q, j, i) <=> IF q.descending THEN (B = {} /\ A # {}) \/ (\E x \in B, y \in A : x > y)
                               ELSE (B # {} /\ A = {}) \/ (\E x \in B, y \in A : x < y)
      /\ Precedes(q, i, j) <=> IF q.descending THEN (A = {} /\ B # {}) \/ (\E x \in A, y \in B : x > y)
                               ELSE (A # {} /\ B = {}) \/ (\E x \in A, y \in B : x < y)
  BY <1>4, <1>5 DEF Precedes
<1>7. CASE q.sortBy = "none"
  <2>1. A = {} /\ B = {}
    BY <1>4, <1>5, <1>7 DEF KeysOf
  <2>2. i < j
    BY <1>7 DEF SortsIn
  <2> QED
    BY <1>6, <2>1, <2>2
<1>8. CASE q.sortBy # "none"
  <2>1. A = {a} \ {Missing} /\ B = {b} \ {Missing}
    BY <1>1, <1>2, <1>3, <1>4, <1>5, <1>8, KeyIs
  <2>2. q.descending \in BOOLEAN
    BY ListingAssumption
  <2>3. PICK c \in Int : c = Directed(a, b, q.descending)
    BY <2>2, Comparing
  <2>4. c < 0 \/ (c = 0 /\ i < j)
    BY <1>2, <1>3, <1>8, <2>3 DEF SortsIn
  <2>5. CASE q.descending
    <3>1. c = -compareKeys(a, b)
      BY <2>3, <2>5 DEF Directed
    <3>2. /\ ~(b = Missing /\ a # Missing) /\ ~(a # Missing /\ b # Missing /\ b > a)
          /\ c < 0 => (a = Missing /\ b # Missing) \/ (a # Missing /\ b # Missing /\ a > b)
      BY <2>4, <3>1 DEF compareKeys, Missing
    <3> QED
      BY <1>6, <2>1, <2>4, <2>5, <3>2
  <2>6. CASE ~q.descending
    <3>1. c = compareKeys(a, b)
      BY <2>3, <2>6 DEF Directed
    <3>2. /\ ~(b # Missing /\ a = Missing) /\ ~(a # Missing /\ b # Missing /\ b < a)
          /\ c < 0 => (a # Missing /\ b = Missing) \/ (a # Missing /\ b # Missing /\ a < b)
      BY <2>4, <3>1 DEF compareKeys, Missing
    <3> QED
      BY <1>6, <2>1, <2>4, <2>6, <3>2
  <2> QED
    BY <2>5, <2>6
<1> QED
  BY <1>7, <1>8

-----------------------------------------------------------------------------
(* The walk. *)

LEMMA RankNat ==
    ASSUME NEW T \in Tables, NEW q \in Queries, NEW i \in MatchIn(T, q)
    PROVE  RankIn(T, q, i) \in Nat
<1>1. PICK N \in Nat : N = Cardinality(MatchIn(T, q))
  BY RowsAre
<1>2. RankIn(T, q, i) \in 0 .. N - 1
  BY <1>1, RowsAre
<1> QED
  BY <1>2

LEMMA Members ==
    ASSUME NEW X, NEW s \in Seq(X), NEW x
    PROVE  x \in ToSet(s) <=> \E k \in 1 .. Len(s) : s[k] = x
<1>1. DOMAIN s = 1 .. Len(s)
  OBVIOUS
<1> QED
  BY <1>1 DEF ToSet

LEMMA Joining ==
    ASSUME NEW X, NEW s \in Seq(X), NEW t \in Seq(X), NEW u, u = s \o t
    PROVE  /\ u \in Seq(X) /\ Len(u) = Len(s) + Len(t)
           /\ \A k \in 1 .. Len(s) : u[k] = s[k]
           /\ \A k \in 1 .. Len(t) : u[Len(s) + k] = t[k]
<1>1. u \in Seq(X) /\ Len(u) = Len(s) + Len(t)
  OBVIOUS
<1>2. \A k \in 1 .. Len(s) : u[k] = s[k]
  OBVIOUS
<1>3. \A k \in 1 .. Len(t) : u[Len(s) + k] = t[k]
  OBVIOUS
<1> QED
  BY <1>1, <1>2, <1>3

LEMMA Gathering ==
    ASSUME NEW X, NEW s \in Seq(X), NEW t \in Seq(X), NEW u, u = s \o t, NEW x
    PROVE  x \in ToSet(u) <=> x \in ToSet(s) \/ x \in ToSet(t)
<1>1. PICK m \in Nat : m = Len(s)
  OBVIOUS
<1>2. PICK n \in Nat : n = Len(t)
  OBVIOUS
<1>3. /\ u \in Seq(X) /\ Len(u) = m + n
      /\ \A k \in 1 .. m : u[k] = s[k]
      /\ \A k \in 1 .. n : u[m + k] = t[k]
  BY <1>1, <1>2, Joining
<1>4. /\ x \in ToSet(s) <=> \E k \in 1 .. m : s[k] = x
      /\ x \in ToSet(t) <=> \E k \in 1 .. n : t[k] = x
  <2>1. x \in ToSet(s) <=> \E k \in 1 .. Len(s) : s[k] = x
    BY Members
  <2>2. x \in ToSet(t) <=> \E k \in 1 .. Len(t) : t[k] = x
    BY Members
  <2> QED
    BY <1>1, <1>2, <2>1, <2>2
<1>5. x \in ToSet(u) <=> \E k \in 1 .. m + n : u[k] = x
  <2>1. u \in Seq(X)
    BY <1>3
  <2>2. x \in ToSet(u) <=> \E k \in 1 .. Len(u) : u[k] = x
    BY <2>1, Members
  <2> QED
    BY <1>3, <2>2
<1>6. ASSUME NEW k \in 1 .. m + n, u[k] = x PROVE x \in ToSet(s) \/ x \in ToSet(t)
  <2>1. CASE k \in 1 .. m
    BY <1>3, <1>4, <1>6, <2>1
  <2>2. CASE k \notin 1 .. m
    <3>1. k - m \in 1 .. n /\ m + (k - m) = k
      BY <2>2
    <3> QED
      BY <1>3, <1>4, <1>6, <3>1
  <2> QED
    BY <2>1, <2>2
<1>7. ASSUME NEW k \in 1 .. m, s[k] = x PROVE x \in ToSet(u)
  <2>1. k \in 1 .. m + n
    OBVIOUS
  <2> QED
    BY <1>3, <1>5, <1>7, <2>1
<1>8. ASSUME NEW k \in 1 .. n, t[k] = x PROVE x \in ToSet(u)
  <2>1. m + k \in 1 .. m + n
    OBVIOUS
  <2> QED
    BY <1>3, <1>5, <1>8, <2>1
<1> QED
  BY <1>4, <1>5, <1>6, <1>7, <1>8

LEMMA OnThePage ==
    ASSUME NEW r \in Int, NEW n \in Int, NEW L \in Int, NEW N \in Int, r < N, ~(r < n - 1), r < n + L - 1
    PROVE  r + 1 - (n - 1) \in 1 .. L /\ n - 1 + (r + 1 - (n - 1)) = r + 1 /\ n - 1 < N
  OBVIOUS

Walks ==
    [query : Queries \cup {Absent}, next : Int, page : Seq(RowIds), total : Nat, got : Seq(RowIds), due : SUBSET RowIds,
     shrunk : BOOLEAN, wrote : BOOLEAN, phase : {"idle", "walking", "done"}]

FromStart(w) == w.phase # "idle" /\ w.query.startIndex <= 1 /\ Count(w.query) > 0

\* What was due and has its place before the next page was handed out.
NoneMissed(T, w) ==
    FromStart(w) /\ ~w.shrunk =>
        /\ w.due \subseteq MatchIn(T, w.query)
        /\ \A i \in w.due : RankIn(T, w.query, i) < w.next - 1 => i \in ToSet(w.got)
        /\ w.phase = "done" => Cardinality(MatchIn(T, w.query)) <= w.next - 1

\* What was handed out are the first rows.
InPlace(T, w) ==
    FromStart(w) /\ ~w.wrote =>
        /\ Len(w.got) = w.next - 1 /\ w.next - 1 <= Cardinality(MatchIn(T, w.query))
        /\ \A k \in 1 .. Len(w.got) : w.got[k] = RowsIn(T, w.query)[k]
        /\ w.phase = "done" => Cardinality(MatchIn(T, w.query)) <= w.next - 1

WalkInv ==
    /\ table \in Tables
    /\ \A i \in RowIds : table[i] # Absent => i \in allotted
    /\ walk \in Walks
    /\ walk.phase # "idle" => walk.query \in Queries /\ walk.next >= 1
    /\ NoneMissed(table, walk)
    /\ InPlace(table, walk)

LEMMA InitWalk == ListingInit => WalkInv
<1> SUFFICES ASSUME ListingInit PROVE WalkInv
  OBVIOUS
<1>1. table \in Tables /\ \A i \in RowIds : table[i] # Absent => i \in allotted
  BY DEF ListingInit, Tables, idsOf
<1>2. walk = NoWalk /\ walk.phase = "idle"
  BY DEF ListingInit, NoWalk
<1>3. walk \in Walks
  BY <1>2 DEF NoWalk, Walks
<1>4. ~FromStart(walk)
  BY <1>2 DEF FromStart
<1> QED
  BY <1>1, <1>2, <1>3, <1>4 DEF WalkInv, NoneMissed, InPlace

LEMMA AddWalk ==
    ASSUME WalkInv, NEW i \in RowIds, NEW row \in Rows, Add(i, row)
    PROVE  WalkInv'
<1>1. /\ walk.phase = "walking" /\ i \notin allotted /\ table' = [table EXCEPT ![i] = row]
      /\ allotted' = allotted \cup {i} /\ walk' = [walk EXCEPT !.wrote = TRUE]
  BY DEF Add
<1>2. PICK w : w = walk'
  OBVIOUS
<1>3. /\ w \in Walks /\ w.phase = walk.phase /\ w.query = walk.query /\ w.next = walk.next /\ w.got = walk.got
      /\ w.due = walk.due /\ w.shrunk = walk.shrunk /\ w.wrote
  BY <1>1, <1>2 DEF WalkInv, Walks
<1>4. table \in Tables /\ walk.query \in Queries /\ walk.next >= 1 /\ table[i] = Absent
  BY <1>1 DEF WalkInv
<1>5. PICK q : q = walk.query
  OBVIOUS
<1>6. PICK T : T = table
  OBVIOUS
<1>7. PICK U : U = table'
  OBVIOUS
<1>8. U = [T EXCEPT ![i] = row] /\ T \in Tables /\ q \in Queries /\ T[i] = Absent
  BY <1>1, <1>4, <1>5, <1>6, <1>7
<1>9. /\ U \in Tables /\ MatchIn(T, q) \subseteq MatchIn(U, q)
      /\ \A j \in MatchIn(T, q) : RankIn(T, q, j) <= RankIn(U, q, j)
  BY <1>8, RankGrows
<1>10. \A j \in RowIds : U[j] # Absent => j \in allotted'
  BY <1>1, <1>6, <1>8 DEF WalkInv, Tables
<1>11. NoneMissed(U, w)
  <2> SUFFICES ASSUME FromStart(w), ~w.shrunk
               PROVE  /\ w.due \subseteq MatchIn(U, q)
                      /\ \A j \in w.due : RankIn(U, q, j) < w.next - 1 => j \in ToSet(w.got)
    BY <1>1, <1>3, <1>5 DEF NoneMissed
  <2>1. FromStart(walk) /\ ~walk.shrunk
    BY <1>1, <1>3 DEF FromStart
  <2>2. /\ walk.due \subseteq MatchIn(T, q)
        /\ \A j \in walk.due : RankIn(T, q, j) < walk.next - 1 => j \in ToSet(walk.got)
    BY <1>5, <1>6, <2>1 DEF WalkInv, NoneMissed
  <2>3. ASSUME NEW j \in MatchIn(T, q) PROVE RankIn(T, q, j) \in Int /\ RankIn(U, q, j) \in Int
    <3>1. j \in MatchIn(U, q)
      BY <1>9
    <3>2. RankIn(T, q, j) \in Nat
      BY <1>8, RankNat
    <3>3. RankIn(U, q, j) \in Nat
      BY <1>8, <1>9, <3>1, RankNat
    <3> QED
      BY <3>2, <3>3
  <2>4. walk.next - 1 \in Int
    BY DEF WalkInv, Walks
  <2>5. ASSUME NEW j \in w.due, RankIn(U, q, j) < w.next - 1 PROVE j \in ToSet(w.got)
    <3>1. j \in walk.due /\ j \in MatchIn(T, q)
      BY <1>3, <2>2, <2>5
    <3>2. RankIn(T, q, j) < walk.next - 1
      BY <1>3, <1>9, <2>3, <2>4, <2>5, <3>1
    <3> QED
      BY <1>3, <2>2, <3>1, <3>2
  <2> QED
    BY <1>3, <1>9, <2>2, <2>5
<1>12. InPlace(U, w)
  BY <1>3 DEF InPlace
<1> QED
  BY <1>2, <1>3, <1>4, <1>7, <1>9, <1>10, <1>11, <1>12 DEF WalkInv

LEMMA ChangeWalk ==
    ASSUME WalkInv, NEW i \in RowIds, NEW row \in Rows \cup {Absent}, Change(i, row)
    PROVE  WalkInv'
<1>1. /\ walk.phase = "walking" /\ table[i] # Absent /\ table' = [table EXCEPT ![i] = row]
      /\ allotted' = allotted /\ walk' = [walk EXCEPT !.wrote = TRUE, !.shrunk = TRUE]
  BY DEF Change
<1>2. PICK w : w = walk'
  OBVIOUS
<1>3. w \in Walks /\ w.phase = walk.phase /\ w.query = walk.query /\ w.next = walk.next /\ w.shrunk /\ w.wrote
  BY <1>1, <1>2 DEF WalkInv, Walks
<1>4. table' \in Tables /\ \A j \in RowIds : table'[j] # Absent => j \in allotted'
  BY <1>1 DEF WalkInv, Tables
<1>5. NoneMissed(table', w) /\ InPlace(table', w)
  BY <1>3 DEF NoneMissed, InPlace
<1> QED
  BY <1>2, <1>3, <1>4, <1>5 DEF WalkInv

LEMMA StartWalk ==
    ASSUME WalkInv, NEW q \in Queries, Start(q)
    PROVE  WalkInv'
<1>1. table' = table /\ allotted' = allotted /\ table \in Tables
  BY DEF Start, WalkInv
<1>2. PICK w : w = walk'
  OBVIOUS
<1>3. PICK M : M = MatchIn(table, q)
  OBVIOUS
<1>4. w = [query |-> q, next |-> StartIndex(q), page |-> <<>>, total |-> 0, got |-> <<>>, due |-> M,
           shrunk |-> FALSE, wrote |-> FALSE, phase |-> "walking"]
  <2>1. matching(q) = M
    BY <1>3, InTable
  <2> QED
    BY <1>2, <2>1 DEF Start, NoWalk
<1>5. StartIndex(q) \in Int /\ StartIndex(q) >= 1 /\ (q.startIndex <= 1 => StartIndex(q) = 1)
  BY ListingAssumption DEF StartIndex
<1>6. M \subseteq RowIds
  BY <1>3 DEF MatchIn
<1>7. w \in Walks /\ w.query = q /\ w.next = StartIndex(q) /\ w.got = <<>> /\ w.due = M /\ w.phase = "walking"
  BY <1>4, <1>5, <1>6 DEF Walks
<1>8. \A i \in M : RankIn(table, q, i) \in Nat
  BY <1>1, <1>3, RowsAre
<1>9. Cardinality(M) \in Nat
  BY <1>1, <1>3, RowsAre
<1>10. NoneMissed(table, w)
  <2> SUFFICES ASSUME FromStart(w) PROVE \A i \in w.due : ~(RankIn(table, q, i) < w.next - 1)
    BY <1>3, <1>7 DEF NoneMissed
  <2>1. w.next = 1
    BY <1>5, <1>7 DEF FromStart
  <2> QED
    BY <1>7, <1>8, <2>1
<1>11. InPlace(table, w)
  <2> SUFFICES ASSUME FromStart(w)
               PROVE  Len(w.got) = 0 /\ w.next = 1
    BY <1>3, <1>7, <1>9 DEF InPlace
  <2> QED
    BY <1>5, <1>7 DEF FromStart
<1> QED
  BY <1>1, <1>2, <1>5, <1>7, <1>10, <1>11 DEF WalkInv

LEMMA PageWalk ==
    ASSUME WalkInv, NextPage
    PROVE  WalkInv'
<1>1. table' = table /\ allotted' = allotted /\ walk.phase = "walking"
  BY DEF NextPage
<1>2. PICK T : T = table
  OBVIOUS
<1>3. PICK q \in Queries : q = walk.query /\ T \in Tables /\ walk \in Walks
  BY <1>1, <1>2 DEF WalkInv
<1>4. PICK next \in Int : next = walk.next /\ next >= 1
  BY <1>1 DEF WalkInv, Walks
<1>5. PICK items : items = page(q, next)
  OBVIOUS
<1>6. PICK rows : rows = RowsIn(T, q)
  OBVIOUS
<1>7. PICK M : M = MatchIn(T, q)
  OBVIOUS
<1>8. PICK N \in Nat : N = Cardinality(M)
  BY <1>3, <1>7, RowsAre
<1>9. PICK left : left = IF next - 1 < N THEN N - (next - 1) ELSE 0
  OBVIOUS
<1>10. /\ items \in Seq(RowIds) /\ Count(q) \in Nat /\ Len(items) = IF Count(q) < left THEN Count(q) ELSE left
       /\ next - 1 < N => \A k \in 1 .. Len(items) : items[k] = rows[next - 1 + k]
  BY <1>2, <1>3, <1>4, <1>5, <1>6, <1>7, <1>8, <1>9, PageIs
<1>11. PICK L \in Nat : L = Len(items)
  BY <1>10
<1>12. left \in Nat /\ L <= left
  BY <1>4, <1>8, <1>9, <1>10, <1>11
<1>13. PICK w : w = walk'
  OBVIOUS
<1>14. PICK got : got = walk.got
  OBVIOUS
<1>15. got \in Seq(RowIds)
  BY <1>3, <1>14 DEF Walks
<1>16. PICK all : all = got \o items
  OBVIOUS
<1>17. items \in Seq(RowIds) /\ all \in Seq(RowIds)
  BY <1>10, <1>15, <1>16
<1>18. matching(q) = M
  BY <1>2, <1>7, InTable
<1>19. PICK phase : phase = IF items = <<>> \/ next + L > N THEN "done" ELSE "walking"
  OBVIOUS
<1>20. w = [walk EXCEPT !.page = items, !.total = N, !.got = all, !.next = next + L, !.phase = phase]
  BY <1>1, <1>3, <1>4, <1>5, <1>8, <1>11, <1>13, <1>14, <1>16, <1>18, <1>19 DEF NextPage
<1>21. /\ w \in Walks /\ w.query = q /\ w.next = next + L /\ w.got = all /\ w.due = walk.due /\ w.phase = phase
       /\ w.shrunk = walk.shrunk /\ w.wrote = walk.wrote
  <2>1. phase \in {"idle", "walking", "done"} /\ next + L \in Int
    BY <1>4, <1>11, <1>19
  <2> QED
    BY <1>3, <1>8, <1>10, <1>17, <1>20, <2>1 DEF Walks
<1>22. phase # "idle" /\ w.next >= 1
  BY <1>4, <1>11, <1>19, <1>21
<1>23. ASSUME FromStart(w) PROVE FromStart(walk) /\ Count(q) > 0
  BY <1>1, <1>3, <1>21, <1>23 DEF FromStart
<1>24. ASSUME FromStart(w), phase = "done" PROVE N <= w.next - 1
  <2>1. Count(q) > 0
    BY <1>23, <1>24
  <2>2. CASE next + L > N
    BY <1>4, <1>8, <1>11, <1>21, <2>2
  <2>3. CASE items = <<>>
    <3>1. L = 0
      BY <1>11, <2>3
    <3>2. left = 0
      BY <1>10, <1>11, <1>12, <2>1, <3>1
    <3> QED
      BY <1>4, <1>8, <1>9, <1>21, <3>1, <3>2
  <2> QED
    BY <1>19, <1>24, <2>2, <2>3
<1>25. \A x : x \in ToSet(all) <=> x \in ToSet(got) \/ x \in ToSet(items)
  BY <1>15, <1>16, <1>17, Gathering
<1>26. NoneMissed(T, w)
  <2> SUFFICES ASSUME FromStart(w), ~w.shrunk
               PROVE  /\ w.due \subseteq M
                      /\ \A i \in w.due : RankIn(T, q, i) < w.next - 1 => i \in ToSet(all)
    BY <1>7, <1>8, <1>21, <1>24 DEF NoneMissed
  <2>1. /\ walk.due \subseteq M
        /\ \A i \in walk.due : RankIn(T, q, i) < next - 1 => i \in ToSet(got)
    BY <1>2, <1>3, <1>4, <1>7, <1>14, <1>21, <1>23 DEF WalkInv, NoneMissed
  <2>2. ASSUME NEW i \in w.due, RankIn(T, q, i) < w.next - 1 PROVE i \in ToSet(all)
    <3>1. i \in walk.due /\ i \in M
      BY <1>21, <2>1, <2>2
    <3>2. RankIn(T, q, i) \in 0 .. N - 1 /\ rows[RankIn(T, q, i) + 1] = i
      BY <1>3, <1>6, <1>7, <1>8, <3>1, RowsAre
    <3>3. PICK r \in 0 .. N - 1 : r = RankIn(T, q, i) /\ rows[r + 1] = i
      BY <3>2
    <3>4. CASE r < next - 1
      BY <1>25, <2>1, <3>1, <3>3, <3>4
    <3>5. CASE ~(r < next - 1)
      <4>1. PICK k : k = r + 1 - (next - 1)
        OBVIOUS
      <4>2. r < next + L - 1
        BY <1>21, <2>2, <3>3
      <4>3. k \in 1 .. L /\ next - 1 + k = r + 1 /\ next - 1 < N
        BY <3>3, <3>5, <4>1, <4>2, OnThePage
      <4>4. items[k] = i
        BY <1>10, <1>11, <3>3, <4>3
      <4>5. i \in ToSet(items)
        BY <1>10, <1>11, <4>3, <4>4 DEF ToSet
      <4> QED
        BY <1>25, <4>5
    <3> QED
      BY <3>4, <3>5
  <2> QED
    BY <1>21, <2>1, <2>2
<1>27. InPlace(T, w)
  <2> SUFFICES ASSUME FromStart(w), ~w.wrote
               PROVE  /\ Len(all) = next + L - 1 /\ next + L - 1 <= N
                      /\ \A k \in 1 .. Len(all) : all[k] = rows[k]
    BY <1>6, <1>7, <1>8, <1>21, <1>24 DEF InPlace
  <2>1. Len(got) = next - 1 /\ next - 1 <= N /\ \A k \in 1 .. Len(got) : got[k] = rows[k]
    BY <1>2, <1>3, <1>4, <1>6, <1>7, <1>8, <1>14, <1>21, <1>23 DEF WalkInv, InPlace
  <2>2. Len(all) = Len(got) + L
    BY <1>11, <1>15, <1>16, <1>17, Joining
  <2>3. next + L - 1 <= N
    BY <1>4, <1>8, <1>9, <1>11, <1>12, <2>1
  <2>4. ASSUME NEW k \in 1 .. Len(all) PROVE all[k] = rows[k]
    <3>1. CASE k \in 1 .. Len(got)
      BY <1>15, <1>16, <1>17, <2>1, <3>1, Joining
    <3>2. CASE k \notin 1 .. Len(got)
      <4>1. PICK g \in Int : g = Len(got) /\ g = next - 1
        BY <2>1
      <4>2. k \in 1 .. g + L /\ ~(k \in 1 .. g) /\ g + L <= N
        BY <2>2, <2>3, <3>2, <4>1
      <4>3. PICK m : m = k - g
        OBVIOUS
      <4>4. m \in 1 .. L /\ g + m = k /\ g < N
        BY <4>2, <4>3
      <4>5. all[g + m] = items[m]
        <5>1. \A j \in 1 .. Len(items) : all[Len(got) + j] = items[j]
          BY <1>15, <1>16, <1>17, Joining
        <5> QED
          BY <1>11, <4>1, <4>4, <5>1
      <4>6. items[m] = rows[next - 1 + m]
        BY <1>10, <1>11, <4>1, <4>4
      <4> QED
        BY <4>1, <4>4, <4>5, <4>6
    <3> QED
      BY <3>1, <3>2
  <2> QED
    BY <1>4, <1>11, <2>1, <2>2, <2>3, <2>4
<1> QED
  BY <1>1, <1>2, <1>3, <1>13, <1>21, <1>22, <1>26, <1>27 DEF WalkInv

LEMMA NextWalk == WalkInv /\ [ListingNext]_listingVars => WalkInv'
<1> SUFFICES ASSUME WalkInv, [ListingNext]_listingVars PROVE WalkInv'
  OBVIOUS
<1>1. CASE UNCHANGED listingVars
  BY <1>1 DEF listingVars, WalkInv
<1> QED
  BY <1>1, AddWalk, ChangeWalk, StartWalk, PageWalk DEF ListingNext

-----------------------------------------------------------------------------
(***************************************************************************)
(* Whatever the table, the filter and the page size, a walk that nobody    *)
(* writes during gives every match once and in the order asked for         *)
(* (query.go sorted and page, sort.go).                                    *)
(***************************************************************************)
THEOREM WalkExact == ListingSpec => []QuietWalkExact
<1>1. WalkInv => QuietWalkExact
  <2> SUFFICES ASSUME WalkInv, walk.phase = "done", ~walk.wrote, walk.query.startIndex <= 1,
                      Count(walk.query) > 0
               PROVE  /\ ToSet(walk.got) = matching(walk.query)
                      /\ Len(walk.got) = Cardinality(matching(walk.query))
                      /\ \A k, l \in 1..Len(walk.got) :
                            k < l => /\ ~Precedes(walk.query, walk.got[l], walk.got[k])
                                     /\ Precedes(walk.query, walk.got[k], walk.got[l]) \/ walk.got[k] < walk.got[l]
    BY DEF QuietWalkExact
  <2>1. PICK q \in Queries : q = walk.query
    BY DEF WalkInv
  <2>2. table \in Tables /\ walk.got \in Seq(RowIds) /\ walk.next \in Int
    BY DEF WalkInv, Walks
  <2>3. PICK got \in Seq(RowIds) : got = walk.got
    BY <2>2
  <2>4. PICK M : M = MatchIn(table, q)
    OBVIOUS
  <2>5. PICK rows : rows = RowsIn(table, q)
    OBVIOUS
  <2>6. PICK N \in Nat : N = Cardinality(M)
    BY <2>2, <2>4, RowsAre
  <2>7. matching(q) = M
    BY <2>4, InTable
  <2>8. FromStart(walk)
    BY DEF FromStart
  <2>9. Len(got) = walk.next - 1 /\ walk.next - 1 <= N /\ N <= walk.next - 1
        /\ \A k \in 1 .. Len(got) : got[k] = rows[k]
    BY <2>1, <2>3, <2>4, <2>5, <2>6, <2>8 DEF WalkInv, InPlace
  <2>10. Len(got) = N
    BY <2>2, <2>6, <2>9
  <2>11. /\ \A k \in 1 .. N : rows[k] \in M
         /\ \A i \in M : RankIn(table, q, i) \in 0 .. N - 1 /\ rows[RankIn(table, q, i) + 1] = i
         /\ \A k, l \in 1 .. N : k < l => SortsIn(table, q, rows[k], rows[l])
    BY <2>2, <2>4, <2>5, <2>6, RowsAre
  <2>12. ASSUME NEW i PROVE i \in ToSet(got) <=> i \in M
    <3>1. i \in ToSet(got) <=> \E k \in 1 .. N : rows[k] = i
      BY <2>9, <2>10, Members
    <3>2. ASSUME i \in M PROVE \E k \in 1 .. N : rows[k] = i
      <4>1. PICK r \in 0 .. N - 1 : rows[r + 1] = i
        BY <2>11, <3>2
      <4>2. r + 1 \in 1 .. N
        OBVIOUS
      <4> QED
        BY <4>1, <4>2
    <3> QED
      BY <2>11, <3>1, <3>2
  <2>13. ASSUME NEW k \in 1 .. N, NEW l \in 1 .. N, k < l
         PROVE  ~Precedes(q, got[l], got[k]) /\ (Precedes(q, got[k], got[l]) \/ got[k] < got[l])
    <3>1. PICK i \in M : i = rows[k] /\ i = got[k]
      BY <2>9, <2>10, <2>11
    <3>2. PICK j \in M : j = rows[l] /\ j = got[l]
      BY <2>9, <2>10, <2>11
    <3>3. SortsIn(table, q, i, j)
      BY <2>11, <2>13, <3>1, <3>2
    <3>4. ~Precedes(q, j, i) /\ (Precedes(q, i, j) \/ i < j)
      BY <2>2, <2>4, <3>3, SortedAsAsked
    <3> QED
      BY <3>1, <3>2, <3>4
  <2> QED
    BY <2>1, <2>3, <2>6, <2>7, <2>10, <2>12, <2>13
<1> QED
  BY <1>1, InitWalk, NextWalk, PTL DEF ListingSpec

(***************************************************************************)
(* However many resources are created while a client pages, and wherever   *)
(* they sort, it misses none of the matches that were there when it began: *)
(* a create only moves the others back (entries.go idsOf, query.go page).  *)
(***************************************************************************)
THEOREM CreatesKeepAll == ListingSpec => []CreatesHideNothing
<1>1. WalkInv => CreatesHideNothing
  <2> SUFFICES ASSUME WalkInv, walk.phase = "done", ~walk.shrunk, walk.query.startIndex <= 1,
                      Count(walk.query) > 0, NEW i \in walk.due
               PROVE  i \in ToSet(walk.got)
    BY DEF CreatesHideNothing
  <2>1. PICK q \in Queries : q = walk.query
    BY DEF WalkInv
  <2>2. PICK T \in Tables : T = table
    BY DEF WalkInv
  <2>3. PICK N \in Nat : N = Cardinality(MatchIn(T, q))
    BY RowsAre
  <2>4. walk.next \in Int /\ FromStart(walk)
    BY DEF WalkInv, Walks, FromStart
  <2>5. /\ i \in MatchIn(T, q) /\ N <= walk.next - 1
        /\ RankIn(T, q, i) < walk.next - 1 => i \in ToSet(walk.got)
    BY <2>1, <2>2, <2>3, <2>4 DEF WalkInv, NoneMissed
  <2>6. RankIn(T, q, i) \in 0 .. N - 1
    BY <2>3, <2>5, RowsAre
  <2> QED
    BY <2>3, <2>4, <2>5, <2>6
<1> QED
  BY <1>1, InitWalk, NextWalk, PTL DEF ListingSpec
=============================================================================
