------------------------- MODULE ScimServiceProofs -------------------------
(***************************************************************************)
(* The store, the service above it, and what the two implement.            *)
(*                                                                         *)
(*   - The store's safety, for every schema, every set of ids and every    *)
(*     bound (MemoryStore).                                                *)
(*   - What concurrent requests can rely on, for any number of callers,    *)
(*     resources and requests: the store's invariant holds between any two *)
(*     steps of any request, and what a caller has read stays meaningful   *)
(*     until it is used (ScimService).                                     *)
(*   - With that, the service implements AtomicScim.                       *)
(***************************************************************************)
EXTENDS ScimService, FiniteSetTheorems, TLAPS

-----------------------------------------------------------------------------
(* The store. *)

(***************************************************************************)
(* What the proofs ask of a document that is saved: that it is typed and   *)
(* mentions known ids.  Whether it fits the schemas matters to the service *)
(* and not to the maps.                                                    *)
(***************************************************************************)
Storable ==
    {doc \in Document : /\ \A a \in Soft : doc.refs[a] \in Pointers
                       /\ Mentions(doc) \subseteq Known}

LEMMA DocumentsStorable == Documents \subseteq Storable
  BY DEF Documents, WellFormed, Storable

(***************************************************************************)
(* What save does, apart from versions: the resource written is as saved   *)
(* says, and every other resource keeps its kind, body and links.          *)
(***************************************************************************)
SaveStep(id, doc, updated, at) ==
    /\ id \in Ids
    /\ doc \in Storable
    /\ save(id, doc, updated, at)
    /\ used' = used \cup {id}
    /\ InTime
    /\ held(id) => entries[id].kind = doc.kind
    /\ ~held(id) => id \notin Known
    /\ id \notin Foreign

LEMMA NoEntryIsNot ==
    /\ NoEntry.kind = None
    /\ \A e \in Entry : e.kind # None
  BY NoneAssumption DEF NoEntry, Entry

LEMMA DocumentType ==
    ASSUME NEW doc \in Storable
    PROVE  /\ doc.kind \in Kinds
           /\ doc.keys \in SUBSET Names
           /\ doc.data \in Data \cup {None}
           /\ doc.refs \in [References -> SUBSET Ids]
           /\ \A a \in Soft : doc.refs[a] \in Pointers
           /\ \A a \in References : doc.refs[a] \subseteq Known
  <1>1. doc \in Document /\ Mentions(doc) \subseteq Known
    BY DEF Storable
  <1>2. \A a \in Soft : doc.refs[a] \in Pointers
    BY DEF Storable
  <1>3. \A a \in References : doc.refs[a] \subseteq Known
    BY <1>1 DEF Mentions
  <1> QED
    BY <1>1, <1>2, <1>3 DEF Document

LEMMA SavedType ==
    ASSUME NEW id \in Ids, NEW doc \in Storable, NEW updated
    PROVE  LET e == saved(id, doc, updated)
           IN  /\ e.kind = doc.kind
               /\ e.keys = doc.keys
               /\ e.data = doc.data
               /\ e.updated = updated
               /\ e.soft \in [Soft -> Pointers]
               /\ \A a \in Soft : e.soft[a] = doc.refs[a]
               /\ e.links \in [References -> SUBSET Ids]
               /\ \A a \in Soft : e.links[a] = {t \in doc.refs[a] \ {id} : held(t)}
               /\ \A a \in Hard : e.links[a] = doc.refs[a]
               /\ e.kind \in Kinds
  BY DocumentType, SchemaAssumption
  DEF saved, keep, resolved, extractLinks, softTargets, Hard, Pointers

LEMMA SaveEffect ==
    ASSUME TypeOK, NEW id, NEW doc, NEW updated, NEW at, SaveStep(id, doc, updated, at)
    PROVE  /\ entries' \in [Ids -> Entry \cup {NoEntry}]
           /\ \A i \in Ids \ {id} : /\ entries'[i].kind = entries[i].kind
                                    /\ entries'[i].keys = entries[i].keys
                                    /\ entries'[i].soft = entries[i].soft
                                    /\ entries'[i].data = entries[i].data
                                    /\ entries'[i].links = entries[i].links
           /\ entries'[id].kind = doc.kind
           /\ entries'[id].keys = doc.keys
           /\ entries'[id].soft = saved(id, doc, updated).soft
           /\ entries'[id].data = doc.data
           /\ entries'[id].links = saved(id, doc, updated).links
  <1> DEFINE next == saved(id, doc, updated)
             stored == [entries EXCEPT ![id] = next]
             n(i) == changedTargets(i, entries[id].links, extractLinks(id, doc))
  <1>1. id \in Ids /\ doc \in Storable
    BY DEF SaveStep
  <1>2. entries' = [i \in Ids |-> IF stored[i].kind = None THEN stored[i]
                                  ELSE [stored[i] EXCEPT !.updated = touched(@, n(i), at)]]
    BY DEF SaveStep, save, commit
  <1>3. \A i \in Ids : entries'[i].updated \in Times
    BY DEF SaveStep, InTime
  <1>4. entries \in [Ids -> Entry \cup {NoEntry}]
    BY DEF TypeOK
  <1>5. /\ next.kind \in Kinds /\ next.kind = doc.kind
        /\ next.keys = doc.keys /\ next.keys \in SUBSET Names
        /\ next.data = doc.data /\ next.data \in Data \cup {None}
        /\ next.soft \in [Soft -> Pointers]
        /\ next.links \in [References -> SUBSET Ids]
    BY <1>1, SavedType, DocumentType
  <1>6. next = [kind |-> next.kind, keys |-> next.keys, soft |-> next.soft, data |-> next.data,
                links |-> next.links, updated |-> next.updated]
    BY DEF saved
  <1>7. stored[id] = next /\ \A i \in Ids \ {id} : stored[i] = entries[i]
    BY <1>1, <1>4
  <1> HIDE DEF next, stored, n
  <1>8. ASSUME NEW i \in Ids
        PROVE  /\ entries'[i] \in Entry \cup {NoEntry}
               /\ entries'[i].kind = stored[i].kind
               /\ entries'[i].keys = stored[i].keys
               /\ entries'[i].soft = stored[i].soft
               /\ entries'[i].data = stored[i].data
               /\ entries'[i].links = stored[i].links
    <2>1. CASE stored[i].kind = None
      <3>1. i # id
        BY <2>1, <1>5, <1>7, NoneAssumption
      <3>2. stored[i] \in Entry \cup {NoEntry}
        BY <3>1, <1>7, <1>4
      <3> QED
        BY <2>1, <1>2, <3>2
    <2>2. CASE stored[i].kind # None
      <3>1. entries'[i] = [stored[i] EXCEPT !.updated = touched(@, n(i), at)]
        BY <2>2, <1>2
      <3>2. /\ stored[i] = [kind |-> stored[i].kind, keys |-> stored[i].keys, soft |-> stored[i].soft,
                            data |-> stored[i].data, links |-> stored[i].links,
                            updated |-> stored[i].updated]
            /\ stored[i].kind \in Kinds
            /\ stored[i].keys \in SUBSET Names
            /\ stored[i].soft \in [Soft -> Pointers]
            /\ stored[i].data \in Data \cup {None}
            /\ stored[i].links \in [References -> SUBSET Ids]
        <4>1. CASE i = id
          BY <4>1, <1>5, <1>6, <1>7
        <4>2. CASE i # id
          <5>1. stored[i] \in Entry
            BY <4>2, <2>2, <1>4, <1>7, NoEntryIsNot
          <5> QED
            BY <5>1 DEF Entry
        <4> QED
          BY <4>1, <4>2
      <3>3. entries'[i].updated \in Times
        BY <1>3
      <3> QED
        BY <3>1, <3>2, <3>3 DEF Entry
    <2> QED
      BY <2>1, <2>2
  <1>9. entries' \in [Ids -> Entry \cup {NoEntry}]
    BY <1>2, <1>8
  <1> QED
    BY <1>1, <1>5, <1>7, <1>8, <1>9 DEF next

-----------------------------------------------------------------------------
(***************************************************************************)
(* Graphs.  Reach(G, x) is what can be reached from x in G.  Changing the  *)
(* edges out of one node keeps a graph acyclic when no edge that is new    *)
(* leads back to that node in the OLD graph: this is why checking added    *)
(* targets against the stored links is enough.                             *)
(***************************************************************************)
ClosedIn(G, S) == \A i \in S : G[i] \subseteq S

Reach(G, x) == {y \in Ids : \A S \in SUBSET Ids : x \in S /\ ClosedIn(G, S) => y \in S}

NoCycle(G) == \A s \in Ids : \A t \in G[s] : s \notin Reach(G, t)

LEMMA ReachFacts ==
    ASSUME NEW G \in [Ids -> SUBSET Ids], NEW x \in Ids
    PROVE  /\ x \in Reach(G, x)
           /\ Reach(G, x) \in SUBSET Ids
           /\ ClosedIn(G, Reach(G, x))
           /\ \A S \in SUBSET Ids : x \in S /\ ClosedIn(G, S) => Reach(G, x) \subseteq S
  <1>1. x \in Reach(G, x) /\ Reach(G, x) \in SUBSET Ids
    BY DEF Reach
  <1>2. ASSUME NEW i \in Reach(G, x), NEW j \in G[i]
        PROVE  j \in Reach(G, x)
    <2>1. j \in Ids
      BY <1>1
    <2>2. ASSUME NEW S \in SUBSET Ids, x \in S, ClosedIn(G, S)
          PROVE  j \in S
      BY <2>2 DEF Reach, ClosedIn
    <2> QED
      BY <2>1, <2>2 DEF Reach
  <1>3. \A S \in SUBSET Ids : x \in S /\ ClosedIn(G, S) => Reach(G, x) \subseteq S
    BY DEF Reach
  <1> QED
    BY <1>1, <1>2, <1>3 DEF ClosedIn

LEMMA NotReached ==
    ASSUME NEW G \in [Ids -> SUBSET Ids], NEW x \in Ids, NEW y \in Ids,
           NEW S \in SUBSET Ids, x \in S, ClosedIn(G, S), y \notin S
    PROVE  y \notin Reach(G, x)
  BY DEF Reach

LEMMA SubgraphNoCycle ==
    ASSUME NEW G \in [Ids -> SUBSET Ids], NEW H \in [Ids -> SUBSET Ids],
           NoCycle(G), \A i \in Ids : H[i] \subseteq G[i]
    PROVE  NoCycle(H)
  <1> SUFFICES ASSUME NEW s \in Ids, NEW t \in H[s]
               PROVE  s \notin Reach(H, t)
    BY DEF NoCycle
  <1>1. t \in Ids /\ t \in G[s] /\ s \notin Reach(G, t)
    BY DEF NoCycle
  <1>2. t \in Reach(G, t) /\ Reach(G, t) \in SUBSET Ids /\ ClosedIn(G, Reach(G, t))
    BY <1>1, ReachFacts
  <1>3. ClosedIn(H, Reach(G, t))
    BY <1>2 DEF ClosedIn
  <1> QED
    BY <1>1, <1>2, <1>3, NotReached

LEMMA RewireNoCycle ==
    ASSUME NEW G \in [Ids -> SUBSET Ids], NEW H \in [Ids -> SUBSET Ids], NEW id \in Ids,
           NoCycle(G),
           \A i \in Ids \ {id} : H[i] = G[i],
           \A t \in H[id] \ G[id] : id \notin Reach(G, t)
    PROVE  NoCycle(H)
  <1> SUFFICES ASSUME NEW s \in Ids, NEW t \in H[s]
               PROVE  s \notin Reach(H, t)
    BY DEF NoCycle
  <1>1. t \in Ids
    OBVIOUS
  <1>2. t \in Reach(G, t) /\ Reach(G, t) \in SUBSET Ids /\ ClosedIn(G, Reach(G, t))
    BY <1>1, ReachFacts
  <1>3. ASSUME id \notin Reach(G, t), s \notin Reach(G, t)
        PROVE  s \notin Reach(H, t)
    <2>1. ClosedIn(H, Reach(G, t))
      BY <1>2, <1>3 DEF ClosedIn
    <2> QED
      BY <1>1, <1>2, <1>3, <2>1, NotReached
  <1>4. CASE s = id
    <2>1. id \notin Reach(G, t)
      BY <1>4 DEF NoCycle
    <2> QED
      BY <1>3, <1>4, <2>1
  <1>5. CASE s # id
    <2>1. t \in G[s] /\ s \notin Reach(G, t)
      BY <1>5 DEF NoCycle
    <2>2. CASE id \notin Reach(G, t)
      BY <1>3, <2>1, <2>2
    <2>3. CASE id \in Reach(G, t)
      <3> DEFINE N == H[id] \ G[id]
                 U == Reach(G, t) \cup UNION {Reach(G, m) : m \in N}
      <3>1. \A m \in N : /\ m \in Reach(G, m) /\ Reach(G, m) \in SUBSET Ids
                         /\ ClosedIn(G, Reach(G, m))
        BY ReachFacts
      <3>2. U \in SUBSET Ids /\ t \in U
        BY <1>2, <3>1
      <3>3. ClosedIn(H, U)
        <4> SUFFICES ASSUME NEW i \in U, NEW j \in H[i]
                     PROVE  j \in U
          BY DEF ClosedIn
        <4>1. CASE i = id /\ j \in G[id]
          BY <4>1, <1>2, <2>3 DEF ClosedIn
        <4>2. CASE i = id /\ j \notin G[id]
          BY <4>2, <3>1
        <4>3. CASE i # id
          <5>1. j \in G[i]
            BY <4>3, <3>2
          <5>2. CASE i \in Reach(G, t)
            BY <5>1, <5>2, <1>2 DEF ClosedIn
          <5>3. CASE i \notin Reach(G, t)
            <6>1. PICK m \in N : i \in Reach(G, m)
              BY <5>3
            <6>2. j \in Reach(G, m)
              BY <6>1, <5>1, <3>1 DEF ClosedIn
            <6> QED
              BY <6>2
          <5> QED
            BY <5>2, <5>3
        <4> QED
          BY <4>1, <4>2, <4>3
      <3>4. s \notin U
        <4>1. ASSUME NEW m \in N, s \in Reach(G, m)
              PROVE  FALSE
          <5>1. t \in Reach(G, m)
            BY <4>1, <2>1, <3>1 DEF ClosedIn
          <5>2. Reach(G, t) \subseteq Reach(G, m)
            BY <5>1, <1>1, <3>1, ReachFacts
          <5> QED
            BY <5>2, <2>3
        <4> QED
          BY <4>1, <2>1
      <3> HIDE DEF U
      <3> QED
        BY <1>1, <3>2, <3>3, <3>4, NotReached
    <2> QED
      BY <2>2, <2>3
  <1> QED
    BY <1>4, <1>5

-----------------------------------------------------------------------------
(***************************************************************************)
(* The links of one attribute as a graph.                                  *)
(***************************************************************************)
Graph(a) == [i \in Ids |-> entries[i].links[a]]

LEMMA EntryLinks ==
    ASSUME NEW e \in Entry \cup {NoEntry}
    PROVE  e.links \in [References -> SUBSET Ids]
  BY DEF Entry, NoEntry

LEMMA GraphType ==
    ASSUME NEW a \in References, entries \in [Ids -> Entry \cup {NoEntry}]
    PROVE  Graph(a) \in [Ids -> SUBSET Ids]
  BY EntryLinks DEF Graph

LEMMA ReachesIsReach ==
    ASSUME NEW a \in References, NEW from \in Ids, NEW goal \in Ids
    PROVE  reaches(from, goal, a) <=> goal \in Reach(Graph(a), from)
  <1>1. ASSUME NEW S \in SUBSET Ids
        PROVE  Closed(a, S) <=> ClosedIn(Graph(a), S)
    BY DEF Closed, ClosedIn, Graph
  <1> QED
    BY <1>1 DEF reaches, Reach

LEMMA AcyclicIsNoCycle ==
    ASSUME entries \in [Ids -> Entry \cup {NoEntry}]
    PROVE  Acyclic <=> \A a \in Hard : NoCycle(Graph(a))
  <1>1. ASSUME NEW a \in Hard, NEW s \in Ids, NEW t \in entries[s].links[a]
        PROVE  t \in Ids /\ (reaches(t, s, a) <=> s \in Reach(Graph(a), t))
    <2>1. t \in Ids
      BY <1>1, EntryLinks DEF Hard
    <2> QED
      BY <2>1, ReachesIsReach DEF Hard
  <1>2. \A s \in Ids, a \in Hard : Graph(a)[s] = entries[s].links[a]
    BY DEF Graph
  <1> QED
    BY <1>1, <1>2 DEF Acyclic, NoCycle

LEMMA ReachesIsReachNext ==
    ASSUME NEW a \in References, NEW from \in Ids, NEW goal \in Ids
    PROVE  reaches(from, goal, a)' <=> goal \in Reach(Graph(a)', from)
  <1>1. ASSUME NEW S \in SUBSET Ids
        PROVE  Closed(a, S)' <=> ClosedIn(Graph(a)', S)
    BY DEF Closed, ClosedIn, Graph
  <1> QED
    BY <1>1 DEF reaches, Reach

LEMMA AcyclicIsNoCycleNext ==
    ASSUME entries' \in [Ids -> Entry \cup {NoEntry}]
    PROVE  /\ \A a \in Hard : Graph(a)' \in [Ids -> SUBSET Ids]
           /\ (\A a \in Hard : NoCycle(Graph(a)')) => Acyclic'
  <1>1. \A a \in Hard : Graph(a)' \in [Ids -> SUBSET Ids]
    BY EntryLinks DEF Graph, Hard
  <1>2. ASSUME NEW a \in Hard, NEW s \in Ids, NEW t \in entries'[s].links[a]
        PROVE  t \in Ids /\ (reaches(t, s, a)' <=> s \in Reach(Graph(a)', t))
    <2>1. t \in Ids
      BY <1>2, EntryLinks DEF Hard
    <2> QED
      BY <2>1, ReachesIsReachNext DEF Hard
  <1>3. \A s \in Ids, a \in Hard : Graph(a)'[s] = entries'[s].links[a]
    BY DEF Graph
  <1> QED
    BY <1>1, <1>2, <1>3 DEF Acyclic, NoCycle

-----------------------------------------------------------------------------
(***************************************************************************)
(* Create and Update keep the invariant.                                   *)
(***************************************************************************)
LEMMA Verified ==
    ASSUME NEW id, NEW doc, verify(id, doc) = "ok"
    PROVE  /\ checkLinks(id, entries[id].links, extractLinks(id, doc))
           /\ ~conflict(id, doc.kind, doc.keys)
  BY DEF verify

LEMMA SaveKeepsInv ==
    ASSUME StoreInv, NEW id, NEW doc, NEW updated, NEW at, SaveStep(id, doc, updated, at)
    PROVE  StoreInv'
  <1> DEFINE links == saved(id, doc, updated).links
             wanted == extractLinks(id, doc)
             before == entries[id]
  <1>1. id \in Ids /\ doc \in Storable /\ TypeOK
    BY DEF SaveStep, StoreInv
  <1>2. /\ entries' \in [Ids -> Entry \cup {NoEntry}]
        /\ \A i \in Ids \ {id} : /\ entries'[i].kind = entries[i].kind
                                 /\ entries'[i].keys = entries[i].keys
                                 /\ entries'[i].soft = entries[i].soft
                                 /\ entries'[i].links = entries[i].links
        /\ entries'[id].kind = doc.kind
        /\ entries'[id].keys = doc.keys
        /\ entries'[id].soft = saved(id, doc, updated).soft
        /\ entries'[id].links = links
    BY <1>1, SaveEffect
  <1>3. /\ doc.kind \in Kinds /\ doc.keys \in SUBSET Names
        /\ doc.refs \in [References -> SUBSET Ids]
        /\ \A a \in Soft : doc.refs[a] \in Pointers
        /\ \A a \in References : doc.refs[a] \subseteq Known
    BY <1>1, DocumentType
  <1>4. /\ links \in [References -> SUBSET Ids]
        /\ \A a \in Soft : links[a] = {t \in doc.refs[a] \ {id} : held(t)}
        /\ \A a \in Hard : links[a] = doc.refs[a]
        /\ \A a \in Soft : saved(id, doc, updated).soft[a] = doc.refs[a]
    BY <1>1, SavedType
  <1>5. /\ wanted \in [References -> SUBSET Ids]
        /\ \A a \in Soft : wanted[a] = doc.refs[a] \ {id}
        /\ \A a \in Hard : wanted[a] = doc.refs[a]
    BY <1>3, SchemaAssumption DEF extractLinks, softTargets, Hard
  <1>6. before.links \in [References -> SUBSET Ids]
    BY <1>1, EntryLinks DEF TypeOK
  <1>7. /\ checkLinks(id, before.links, wanted)
        /\ ~conflict(id, doc.kind, doc.keys)
    BY Verified DEF SaveStep, save
  <1>8. /\ inbound' = relink(id, before.links, links)
        /\ unique' = reindexed(id, doc.kind, before.keys, doc.keys)
        /\ used' = used \cup {id}
    BY DEF SaveStep, save, commit
  <1>9. /\ held(id) => entries[id].kind = doc.kind
        /\ ~held(id) => id \notin Known
        /\ id \notin Foreign
    BY DEF SaveStep
  <1>10. \A i \in Ids : held(i)' <=> (i = id \/ held(i))
    BY <1>2, <1>3, NoneAssumption DEF held
  <1>11. ~held(id) => before = NoEntry
    BY <1>1, NoEntryIsNot DEF TypeOK, held
  <1> HIDE DEF links, wanted, before
  <1>12. TypeOK'
    <2>1. unique' \in [Kinds \X Names -> Ids \cup {None}]
      BY <1>1, <1>8 DEF reindexed, TypeOK
    <2>2. inbound' \in [Ids -> SUBSET (Ids \X References)]
      BY <1>1, <1>8 DEF relink, TypeOK
    <2>3. used' \in SUBSET (Ids \ Foreign)
      BY <1>1, <1>8, <1>9 DEF TypeOK
    <2>4. \A i \in Ids : held(i)' => i \in used'
      BY <1>1, <1>8, <1>10 DEF TypeOK
    <2>5. \A i \in Ids, a \in Soft : entries'[i].soft[a] \subseteq Known'
      <3>1. Known \subseteq Known'
        BY <1>8 DEF Known
      <3> QED
        BY <3>1, <1>1, <1>2, <1>3, <1>4, SchemaAssumption DEF TypeOK
    <2> QED
      BY <1>2, <2>1, <2>2, <2>3, <2>4, <2>5 DEF TypeOK
  <1>13. UniqueIndexExact'
    <2> SUFFICES ASSUME NEW kind \in Kinds, NEW m \in Names, NEW i \in Ids
                 PROVE  unique'[<<kind, m>>] = i <=> entries'[i].kind = kind /\ m \in entries'[i].keys
      BY DEF UniqueIndexExact
    <2>1. unique[<<kind, m>>] = i <=> entries[i].kind = kind /\ m \in entries[i].keys
      BY DEF StoreInv, UniqueIndexExact
    <2>2. unique[<<kind, m>>] = id <=> before.kind = kind /\ m \in before.keys
      BY <1>1 DEF StoreInv, UniqueIndexExact, before
    <2>3. unique'[<<kind, m>>] = IF kind = doc.kind /\ m \in doc.keys THEN id
                             ELSE IF kind = doc.kind /\ m \in before.keys THEN None
                             ELSE unique[<<kind, m>>]
      BY <1>8 DEF reindexed
    <2>4. kind = doc.kind /\ m \in doc.keys => unique[<<kind, m>>] \in {None, id}
      BY <1>7 DEF conflict
    <2>5. before.kind = doc.kind \/ before.keys = {}
      BY <1>9, <1>11 DEF NoEntry, before
    <2>6. None # i /\ None # id
      BY <1>1, NoneAssumption
    <2>7. CASE i = id
      BY <2>1, <2>2, <2>3, <2>4, <2>5, <2>6, <2>7, <1>2, <1>9, <1>11 DEF before, NoEntry
    <2>8. CASE i # id
      BY <2>1, <2>2, <2>3, <2>4, <2>5, <2>6, <2>8, <1>2
    <2> QED
      BY <2>7, <2>8
  <1>14. InboundExact'
    <2> SUFFICES ASSUME NEW s \in Ids, NEW t \in Ids, NEW a \in References
                 PROVE  <<s, a>> \in inbound'[t] <=> t \in entries'[s].links[a]
      BY DEF InboundExact
    <2>1. <<s, a>> \in inbound[t] <=> t \in entries[s].links[a]
      BY DEF StoreInv, InboundExact
    <2>2. inbound'[t] = (inbound[t] \ {<<id, b>> : b \in {b \in References : t \in before.links[b]}})
                          \cup {<<id, b>> : b \in {b \in References : t \in links[b]}}
      BY <1>8 DEF relink
    <2>3. CASE s = id
      BY <2>1, <2>2, <2>3, <1>2 DEF before
    <2>4. CASE s # id
      BY <2>1, <2>2, <2>4, <1>2
    <2> QED
      BY <2>3, <2>4
  <1>15. LinksHeld'
    <2> SUFFICES ASSUME NEW s \in Ids, NEW a \in References, NEW t \in entries'[s].links[a]
                 PROVE  held(t)' /\ entries'[t].kind \in Types[a]
      BY DEF LinksHeld
    <2>1. t \in Ids
      BY <1>2, EntryLinks
    <2>2. held(t) /\ entries[t].kind \in Types[a]
      <3>1. CASE s # id
        BY <3>1, <1>2 DEF StoreInv, LinksHeld
      <3>2. CASE s = id /\ t \in before.links[a]
        BY <3>2, <1>1 DEF StoreInv, LinksHeld, before
      <3>3. CASE s = id /\ t \notin before.links[a]
        <4>1. t \in links[a]
          BY <3>3, <1>2
        <4>2. t \in wanted[a] \ before.links[a] /\ (a \in Soft => held(t))
          BY <3>3, <4>1, <1>4, <1>5 DEF Hard
        <4> QED
          BY <4>2, <1>7 DEF checkLinks, checkTargets
      <3> QED
        BY <3>1, <3>2, <3>3
    <2>3. entries'[t].kind = entries[t].kind
      BY <2>1, <2>2, <1>2, <1>9
    <2> QED
      BY <2>1, <2>2, <2>3, <1>10
  <1>16. PointersResolved'
    <2> SUFFICES ASSUME NEW s \in Ids, NEW a \in Soft
                 PROVE  entries'[s].links[a] = {t \in entries'[s].soft[a] : held(t)'} \ {s}
      BY DEF PointersResolved
    <2>1. CASE s = id
      <3>1. doc.refs[a] \subseteq Ids
        BY <1>3, SchemaAssumption
      <3> QED
        BY <3>1, <2>1, <1>2, <1>4, <1>10
    <2>2. CASE s # id
      <3>1. entries[s].links[a] = {t \in entries[s].soft[a] : held(t)} \ {s}
        BY DEF StoreInv, PointersResolved
      <3>2. entries[s].soft[a] \subseteq Known /\ entries[s].soft[a] \subseteq Ids
        BY <1>1, SchemaAssumption DEF TypeOK, Known
      <3>3. \A t \in entries[s].soft[a] : held(t)' <=> held(t)
        BY <3>2, <1>9, <1>10
      <3> QED
        BY <2>2, <1>2, <3>1, <3>3
    <2> QED
      BY <2>1, <2>2
  <1>17. Acyclic'
    <2> SUFFICES ASSUME NEW a \in Hard
                 PROVE  NoCycle(Graph(a)')
      BY <1>2, AcyclicIsNoCycleNext
    <2>1. a \in References /\ a \notin Soft
      BY DEF Hard
    <2>2. Graph(a) \in [Ids -> SUBSET Ids] /\ Graph(a)' \in [Ids -> SUBSET Ids]
      BY <1>1, <1>2, <2>1, GraphType, AcyclicIsNoCycleNext DEF TypeOK
    <2>3. NoCycle(Graph(a))
      BY <1>1, AcyclicIsNoCycle DEF StoreInv, TypeOK
    <2>4. \A i \in Ids \ {id} : Graph(a)'[i] = Graph(a)[i]
      BY <1>2 DEF Graph
    <2>5. \A t \in Graph(a)'[id] \ Graph(a)[id] : id \notin Reach(Graph(a), t)
      <3> SUFFICES ASSUME NEW t \in Graph(a)'[id] \ Graph(a)[id]
                   PROVE  id \notin Reach(Graph(a), t)
        OBVIOUS
      <3>1. t \in Ids
        BY <1>1, <2>2
      <3>2. t \in wanted[a] \ before.links[a]
        BY <1>1, <1>2, <1>4, <1>5 DEF Graph, before
      <3>3. ~reaches(t, id, a)
        BY <3>2, <2>1, <1>7 DEF checkLinks, checkAcyclic
      <3> QED
        BY <3>1, <3>3, <1>1, <2>1, ReachesIsReach
    <2> HIDE DEF Graph
    <2> QED
      BY <1>1, <2>2, <2>3, <2>4, <2>5, RewireNoCycle
  <1> QED
    BY <1>12, <1>13, <1>14, <1>15, <1>16, <1>17 DEF StoreInv

-----------------------------------------------------------------------------
(***************************************************************************)
(* What Delete does, apart from versions: the resource goes, and every     *)
(* reference to it goes from links and bodies alike.                       *)
(***************************************************************************)
LEMMA DeleteEffect ==
    ASSUME StoreInv, NEW id \in Ids, NEW kind \in Kinds, NEW version, NEW at,
           Delete(id, kind, version, at)
    PROVE  /\ entries' \in [Ids -> Entry \cup {NoEntry}]
           /\ entries'[id] = NoEntry
           /\ held(id)
           /\ entries[id].kind = kind
           /\ \A i \in Ids \ {id} :
                /\ entries'[i].kind = entries[i].kind
                /\ entries'[i].keys = entries[i].keys
                /\ entries'[i].data = entries[i].data
                /\ \A a \in References : entries'[i].links[a] = entries[i].links[a] \ {id}
                /\ \A a \in Soft : entries'[i].soft[a] = entries[i].soft[a] \ {id}
  <1> DEFINE n(i) == detached(i, id) + allTargets(i, entries[id].links)
             edges(i) == {a \in References : <<i, a>> \in inbound[id]}
  <1>1. entries[id].kind = kind /\ held(id)
    BY NoneAssumption DEF Delete, locate, held
  <1>2. entries' = [i \in Ids |-> IF i = id THEN NoEntry
                                  ELSE IF ~held(i) THEN entries[i]
                                  ELSE [unlink(i, id) EXCEPT !.updated = touched(@, n(i), at)]]
    BY DEF Delete
  <1>3. \A i \in Ids : entries'[i].updated \in Times
    BY DEF Delete, InTime
  <1>4. entries \in [Ids -> Entry \cup {NoEntry}]
    BY DEF StoreInv, TypeOK
  <1>5. entries'[id] = NoEntry
    BY <1>2
  <1>6. ASSUME NEW i \in Ids \ {id}
        PROVE  /\ entries'[i] \in Entry \cup {NoEntry}
               /\ entries'[i].kind = entries[i].kind
               /\ entries'[i].keys = entries[i].keys
               /\ entries'[i].data = entries[i].data
               /\ \A a \in References : entries'[i].links[a] = entries[i].links[a] \ {id}
               /\ \A a \in Soft : entries'[i].soft[a] = entries[i].soft[a] \ {id}
    <2>1. CASE ~held(i)
      <3>1. entries[i] = NoEntry /\ entries'[i] = NoEntry
        BY <2>1, <1>2, <1>4, NoEntryIsNot DEF held
      <3> QED
        BY <3>1, SchemaAssumption DEF NoEntry
    <2>2. CASE held(i)
      <3> DEFINE e == entries[i]
                 links == [a \in References |-> IF a \in edges(i) THEN e.links[a] \ {id} ELSE e.links[a]]
                 soft == [a \in Soft |-> IF a \in edges(i) THEN {} ELSE e.soft[a]]
      <3>1. e \in Entry
        BY <2>2, <1>4, NoEntryIsNot DEF held, NoEntry
      <3>2. unlink(i, id) = [e EXCEPT !.links = links, !.soft = soft]
        BY DEF unlink
      <3>3. entries'[i] = [unlink(i, id) EXCEPT !.updated = touched(@, n(i), at)]
        BY <2>2, <1>2
      <3>4. \A a \in References : a \in edges(i) <=> id \in e.links[a]
        BY DEF StoreInv, InboundExact
      <3>5. \A a \in References : links[a] = e.links[a] \ {id}
        BY <3>4
      <3>6. ASSUME NEW a \in Soft
            PROVE  soft[a] = e.soft[a] \ {id}
        <4>1. e.links[a] = {t \in e.soft[a] : held(t)} \ {i}
          BY DEF StoreInv, PointersResolved
        <4>2. a \in edges(i) <=> id \in e.soft[a]
          BY <4>1, <3>4, <1>1, SchemaAssumption
        <4>3. e.soft[a] \in Pointers
          BY <3>1 DEF Entry
        <4> QED
          BY <4>2, <4>3 DEF Pointers
      <3>7. links \in [References -> SUBSET Ids] /\ soft \in [Soft -> Pointers]
        BY <3>1 DEF Entry, Pointers
      <3>8. /\ e = [kind |-> e.kind, keys |-> e.keys, soft |-> e.soft, data |-> e.data,
                    links |-> e.links, updated |-> e.updated]
            /\ e.kind \in Kinds /\ e.keys \in SUBSET Names /\ e.data \in Data \cup {None}
        BY <3>1 DEF Entry
      <3> HIDE DEF e, links, soft, n
      <3>9. /\ entries'[i].kind = e.kind /\ entries'[i].keys = e.keys /\ entries'[i].data = e.data
            /\ entries'[i].links = links /\ entries'[i].soft = soft
            /\ entries'[i] = [kind |-> e.kind, keys |-> e.keys, soft |-> soft, data |-> e.data,
                              links |-> links, updated |-> entries'[i].updated]
        BY <3>2, <3>3, <3>8
      <3>10. entries'[i] \in Entry
        BY <3>7, <3>8, <3>9, <1>3 DEF Entry
      <3> QED
        BY <3>5, <3>6, <3>9, <3>10 DEF e
    <2> QED
      BY <2>1, <2>2
  <1>7. entries' \in [Ids -> Entry \cup {NoEntry}]
    BY <1>2, <1>5, <1>6
  <1> QED
    BY <1>1, <1>5, <1>6, <1>7

LEMMA DeleteKeepsInv ==
    ASSUME StoreInv, NEW id \in Ids, NEW kind \in Kinds, NEW version, NEW at,
           Delete(id, kind, version, at)
    PROVE  StoreInv'
  <1>1. TypeOK /\ entries \in [Ids -> Entry \cup {NoEntry}]
    BY DEF StoreInv, TypeOK
  <1>2. /\ entries' \in [Ids -> Entry \cup {NoEntry}]
        /\ entries'[id] = NoEntry
        /\ held(id) /\ entries[id].kind = kind
        /\ \A i \in Ids \ {id} :
             /\ entries'[i].kind = entries[i].kind
             /\ entries'[i].keys = entries[i].keys
             /\ \A a \in References : entries'[i].links[a] = entries[i].links[a] \ {id}
             /\ \A a \in Soft : entries'[i].soft[a] = entries[i].soft[a] \ {id}
    BY DeleteEffect
  <1>3. /\ inbound' = [relink(id, entries[id].links, NoEntry.links) EXCEPT ![id] = {}]
        /\ unique' = reindexed(id, kind, entries[id].keys, {})
        /\ used' = used
    BY DEF Delete
  <1>4. /\ NoEntry.kind = None /\ NoEntry.keys = {}
        /\ \A a \in References : NoEntry.links[a] = {}
        /\ \A a \in Soft : NoEntry.soft[a] = {}
    BY DEF NoEntry
  <1>5. \A i \in Ids : held(i)' <=> (i # id /\ held(i))
    BY <1>2, <1>4 DEF held
  <1>6. entries[id].links \in [References -> SUBSET Ids]
    BY <1>1, EntryLinks
  <1>7. TypeOK'
    <2>1. unique' \in [Kinds \X Names -> Ids \cup {None}]
      BY <1>1, <1>3 DEF reindexed, TypeOK
    <2>2. inbound' \in [Ids -> SUBSET (Ids \X References)]
      BY <1>1, <1>3 DEF relink, TypeOK
    <2>3. \A i \in Ids : held(i)' => i \in used'
      BY <1>1, <1>3, <1>5 DEF TypeOK
    <2>4. \A i \in Ids, a \in Soft : entries'[i].soft[a] \subseteq Known'
      BY <1>1, <1>2, <1>3, <1>4 DEF TypeOK, Known
    <2> QED
      BY <1>1, <1>2, <1>3, <2>1, <2>2, <2>3, <2>4 DEF TypeOK
  <1>8. UniqueIndexExact'
    <2> SUFFICES ASSUME NEW k \in Kinds, NEW m \in Names, NEW i \in Ids
                 PROVE  unique'[<<k, m>>] = i <=> entries'[i].kind = k /\ m \in entries'[i].keys
      BY DEF UniqueIndexExact
    <2>1. unique[<<k, m>>] = i <=> entries[i].kind = k /\ m \in entries[i].keys
      BY DEF StoreInv, UniqueIndexExact
    <2>2. unique[<<k, m>>] = id <=> entries[id].kind = k /\ m \in entries[id].keys
      BY DEF StoreInv, UniqueIndexExact
    <2>3. unique'[<<k, m>>] = IF k = kind /\ m \in entries[id].keys THEN None
                              ELSE unique[<<k, m>>]
      BY <1>3 DEF reindexed
    <2>4. None # i
      BY NoneAssumption
    <2> QED
      BY <2>1, <2>2, <2>3, <2>4, <1>2, <1>4
  <1>9. InboundExact'
    <2> SUFFICES ASSUME NEW s \in Ids, NEW t \in Ids, NEW a \in References
                 PROVE  <<s, a>> \in inbound'[t] <=> t \in entries'[s].links[a]
      BY DEF InboundExact
    <2>1. <<s, a>> \in inbound[t] <=> t \in entries[s].links[a]
      BY DEF StoreInv, InboundExact
    <2>2. relink(id, entries[id].links, NoEntry.links)[t] =
            inbound[t] \ {<<id, b>> : b \in {b \in References : t \in entries[id].links[b]}}
      BY <1>4 DEF relink
    <2>3. inbound'[t] = IF t = id THEN {}
            ELSE inbound[t] \ {<<id, b>> : b \in {b \in References : t \in entries[id].links[b]}}
      BY <2>2, <1>3 DEF relink
    <2>4. CASE s = id
      BY <2>1, <2>3, <2>4, <1>2, <1>4
    <2>5. CASE s # id
      BY <2>1, <2>3, <2>5, <1>2
    <2> QED
      BY <2>4, <2>5
  <1>10. LinksHeld'
    <2> SUFFICES ASSUME NEW s \in Ids, NEW a \in References, NEW t \in entries'[s].links[a]
                 PROVE  held(t)' /\ entries'[t].kind \in Types[a]
      BY DEF LinksHeld
    <2>1. s # id /\ t \in entries[s].links[a] /\ t # id
      BY <1>2, <1>4
    <2>2. t \in Ids
      BY <1>2, EntryLinks
    <2>3. held(t) /\ entries[t].kind \in Types[a]
      BY <2>1 DEF StoreInv, LinksHeld
    <2> QED
      BY <2>1, <2>2, <2>3, <1>2, <1>5
  <1>11. PointersResolved'
    <2> SUFFICES ASSUME NEW s \in Ids, NEW a \in Soft
                 PROVE  entries'[s].links[a] = {t \in entries'[s].soft[a] : held(t)'} \ {s}
      BY DEF PointersResolved
    <2>1. a \in References
      BY SchemaAssumption
    <2>2. CASE s = id
      BY <2>1, <2>2, <1>2, <1>4
    <2>3. CASE s # id
      <3>1. entries[s].links[a] = {t \in entries[s].soft[a] : held(t)} \ {s}
        BY DEF StoreInv, PointersResolved
      <3>2. entries[s].soft[a] \subseteq Ids
        BY <1>1, SchemaAssumption DEF TypeOK, Known
      <3> QED
        BY <2>1, <2>3, <3>1, <3>2, <1>2, <1>5
    <2> QED
      BY <2>2, <2>3
  <1>12. Acyclic'
    <2> SUFFICES ASSUME NEW a \in Hard
                 PROVE  NoCycle(Graph(a)')
      BY <1>2, AcyclicIsNoCycleNext
    <2>1. Graph(a) \in [Ids -> SUBSET Ids] /\ Graph(a)' \in [Ids -> SUBSET Ids]
      BY <1>1, <1>2, GraphType, AcyclicIsNoCycleNext DEF Hard
    <2>2. NoCycle(Graph(a))
      BY <1>1, AcyclicIsNoCycle DEF StoreInv
    <2>3. \A i \in Ids : Graph(a)'[i] \subseteq Graph(a)[i]
      BY <1>2, <1>4 DEF Graph, Hard
    <2> HIDE DEF Graph
    <2> QED
      BY <2>1, <2>2, <2>3, SubgraphNoCycle
  <1> QED
    BY <1>7, <1>8, <1>9, <1>10, <1>11, <1>12 DEF StoreInv

-----------------------------------------------------------------------------
LEMMA InitInv == Init => StoreInv
  <1> SUFFICES ASSUME Init PROVE StoreInv
    OBVIOUS
  <1>1. \A i \in Ids : entries[i] = NoEntry /\ ~held(i) /\ inbound[i] = {}
    BY DEF Init, held, NoEntry
  <1>2. /\ NoEntry.kind = None /\ NoEntry.keys = {}
        /\ \A a \in References : NoEntry.links[a] = {}
        /\ \A a \in Soft : NoEntry.soft[a] = {}
    BY DEF NoEntry
  <1>3. TypeOK
    BY <1>1, <1>2 DEF Init, TypeOK
  <1>4. UniqueIndexExact
    BY <1>1, <1>2, NoneAssumption DEF Init, UniqueIndexExact
  <1>5. InboundExact /\ LinksHeld /\ PointersResolved
    BY <1>1, <1>2, SchemaAssumption DEF InboundExact, LinksHeld, PointersResolved
  <1>6. Acyclic
    BY <1>1, <1>2 DEF Acyclic, Hard
  <1> QED
    BY <1>3, <1>4, <1>5, <1>6 DEF StoreInv

LEMMA CreateIsSave ==
    ASSUME TypeOK, NEW id \in Ids, NEW doc \in Storable, NEW at, Create(id, doc, at)
    PROVE  SaveStep(id, doc, at, at)
  BY DEF Create, SaveStep, TypeOK, Known

LEMMA UpdateIsSave ==
    ASSUME TypeOK, NEW id \in Ids, NEW doc \in Storable, NEW version, NEW at,
           Update(id, doc, version, at)
    PROVE  SaveStep(id, doc, bumped(entries[id].updated, at), at)
  <1>1. entries[id].kind = doc.kind /\ doc.kind # None
    BY DocumentType, NoneAssumption DEF Update, locate
  <1>2. held(id) /\ id \in used /\ id \notin Foreign
    BY <1>1 DEF held, TypeOK
  <1> QED
    BY <1>1, <1>2 DEF Update, SaveStep

(***************************************************************************)
(* Every step of the store keeps the invariant (the maps agree with each   *)
(* other under Create, Update and Delete).                                 *)
(***************************************************************************)
LEMMA NextKeepsInv == StoreInv /\ [Next]_vars => StoreInv'
  <1> SUFFICES ASSUME StoreInv, [Next]_vars
               PROVE  StoreInv'
    OBVIOUS
  <1>0. TypeOK
    BY DEF StoreInv
  <1>1. ASSUME NEW doc \in Storable, NEW id \in Ids, NEW at \in Times, Create(id, doc, at)
        PROVE  StoreInv'
    BY <1>0, <1>1, CreateIsSave, SaveKeepsInv
  <1>2. ASSUME NEW doc \in Storable, NEW id \in Ids, NEW at \in Times,
               NEW version \in Times \cup {None}, Update(id, doc, version, at)
        PROVE  StoreInv'
    BY <1>0, <1>2, UpdateIsSave, SaveKeepsInv
  <1>3. ASSUME NEW id \in Ids, NEW kind \in Kinds, NEW version \in Times \cup {None},
               NEW at \in Times, Delete(id, kind, version, at)
        PROVE  StoreInv'
    BY <1>3, DeleteKeepsInv
  <1>4. CASE UNCHANGED vars
    <2>1. entries' = entries /\ unique' = unique /\ inbound' = inbound /\ used' = used
      BY <1>4 DEF vars
    <2> QED
      BY <2>1 DEF StoreInv, TypeOK, UniqueIndexExact, InboundExact, LinksHeld, PointersResolved,
                  Acyclic, reaches, Closed, held, Known
  <1> QED
    BY <1>1, <1>2, <1>3, <1>4, DocumentsStorable DEF Next

(***************************************************************************)
(* In every behaviour of the store the maps are well typed and the         *)
(* indexes, links, pointers and hierarchy are exactly what the resources   *)
(* say.                                                                    *)
(***************************************************************************)
THEOREM StoreSafety == Spec => []StoreInv
  BY InitInv, NextKeepsInv, PTL DEF Spec

(***************************************************************************)
(* Type correctness of the store.                                          *)
(***************************************************************************)
THEOREM StoreTyped == Spec => []TypeOK
  <1>1. StoreInv => TypeOK
    BY DEF StoreInv
  <1> QED
    BY <1>1, StoreSafety, PTL

(***************************************************************************)
(* The unique index is exact: commit and Delete never leave a stale or a   *)
(* missing key.                                                            *)
(***************************************************************************)
THEOREM StoreUnique == Spec => []UniqueIndexExact
  <1>1. StoreInv => UniqueIndexExact
    BY DEF StoreInv
  <1> QED
    BY <1>1, StoreSafety, PTL

(***************************************************************************)
(* Referential integrity: every link leads to a held resource of a kind    *)
(* that its attribute allows, whatever was deleted since (memory.go        *)
(* detach).                                                                *)
(***************************************************************************)
THEOREM StoreReferences == Spec => []LinksHeld
  <1>1. StoreInv => LinksHeld
    BY DEF StoreInv
  <1> QED
    BY <1>1, StoreSafety, PTL

(***************************************************************************)
(* The inbound index is the exact inverse of the links (inbound.go).       *)
(***************************************************************************)
THEOREM StoreInbound == Spec => []InboundExact
  <1>1. StoreInv => InboundExact
    BY DEF StoreInv
  <1> QED
    BY <1>1, StoreSafety, PTL

(***************************************************************************)
(* A soft pointer is linked exactly when it names another held resource    *)
(* (encode.go softTargets, entries.go resolved).                           *)
(***************************************************************************)
THEOREM StorePointers == Spec => []PointersResolved
  <1>1. StoreInv => PointersResolved
    BY DEF StoreInv
  <1> QED
    BY <1>1, StoreSafety, PTL

(***************************************************************************)
(* Hard references never form a cycle, although checkAcyclic looks only at *)
(* the targets a write adds.                                               *)
(***************************************************************************)
THEOREM StoreAcyclic == Spec => []Acyclic
  <1>1. StoreInv => Acyclic
    BY DEF StoreInv
  <1> QED
    BY <1>1, StoreSafety, PTL

-----------------------------------------------------------------------------
(***************************************************************************)
(* Versions.                                                               *)
(***************************************************************************)
LEMMA Counting ==
    ASSUME NEW S \in SUBSET References
    PROVE  /\ Cardinality(S) \in Nat
           /\ Cardinality(S) = 0 <=> S = {}
  <1>1. IsFiniteSet(S)
    BY SchemaAssumption, FS_Subset
  <1> QED
    BY <1>1, FS_CardinalityType, FS_EmptySet

LEMMA BumpedForward ==
    ASSUME NEW previous \in Int, NEW at \in Int
    PROVE  bumped(previous, at) > previous /\ bumped(previous, at) \in Int
  BY DEF bumped

\* What a step may do to a resource that is there before and after it.
Forward(i) ==
    Survives(i) => \/ entries'[i].updated > entries[i].updated
                   \/ entries'[i].updated = entries[i].updated /\ View(i)' = View(i)

LEMMA EntryVersion ==
    ASSUME NEW e \in Entry \cup {NoEntry}
    PROVE  e.updated \in Int
  BY TimeAssumption DEF Entry, NoEntry, Times

LEMMA SaveForward ==
    ASSUME StoreInv, NEW id, NEW doc, NEW updated, NEW at \in Times,
           SaveStep(id, doc, updated, at), updated \in Int,
           held(id) => updated > entries[id].updated,
           NEW i \in Ids
    PROVE  Forward(i)
  <1> DEFINE next == saved(id, doc, updated)
             stored == [entries EXCEPT ![id] = next]
             wanted == extractLinks(id, doc)
             before == entries[id].links
             changes(j) == {a \in References : (j \in before[a]) # (j \in wanted[a])}
             n(j) == changedTargets(j, before, wanted)
  <1>1. id \in Ids /\ doc \in Storable /\ TypeOK /\ at \in Int
    BY TimeAssumption DEF SaveStep, StoreInv, Times
  <1>2. entries' = [j \in Ids |-> IF stored[j].kind = None THEN stored[j]
                                  ELSE [stored[j] EXCEPT !.updated = touched(@, n(j), at)]]
    BY DEF SaveStep, save, commit
  <1>3. entries \in [Ids -> Entry \cup {NoEntry}]
    BY <1>1 DEF TypeOK
  <1>4. n(i) = Cardinality(changes(i)) /\ n(i) \in Nat /\ (n(i) = 0 <=> changes(i) = {})
    BY Counting DEF changedTargets
  <1>5. stored[id] = next /\ \A j \in Ids \ {id} : stored[j] = entries[j]
    BY <1>1, <1>3
  <1>6. next.updated = updated /\ next.kind \in Kinds
    BY <1>1, SavedType
  <1>7. next = [kind |-> next.kind, keys |-> next.keys, soft |-> next.soft, data |-> next.data,
                links |-> next.links, updated |-> next.updated]
    BY DEF saved
  <1> SUFFICES ASSUME Survives(i)
               PROVE  \/ entries'[i].updated > entries[i].updated
                      \/ entries'[i].updated = entries[i].updated /\ View(i)' = View(i)
    BY DEF Forward
  <1>8. CASE i = id
    <2> HIDE DEF next, stored, n
    <2>1. entries'[i] = [next EXCEPT !.updated = touched(@, n(i), at)]
      BY <1>8, <1>2, <1>5, <1>6, NoneAssumption
    <2>2. entries'[i].updated = touched(updated, n(i), at)
      BY <2>1, <1>6, <1>7
    <2>3. touched(updated, n(i), at) >= updated /\ touched(updated, n(i), at) \in Int
      BY <1>1, <1>4 DEF touched, bumped
    <2>4. updated > entries[i].updated /\ entries[i].updated \in Int
      BY <1>8, <1>3, EntryVersion DEF Survives
    <2> QED
      BY <2>2, <2>3, <2>4
  <1>9. CASE i # id
    <2>1. /\ entries'[i].keys = entries[i].keys /\ entries'[i].soft = entries[i].soft
          /\ entries'[i].data = entries[i].data /\ entries'[i].links = entries[i].links
      BY <1>1, <1>9, SaveEffect
    <2>2. entries[i] \in Entry
      BY <1>3, NoEntryIsNot DEF Survives, held
    <2>3. entries'[i].updated = touched(entries[i].updated, n(i), at)
      <3> HIDE DEF next, stored, n
      <3>1. entries'[i] = [entries[i] EXCEPT !.updated = touched(@, n(i), at)]
        BY <1>2, <1>5, <1>9, <2>2, NoEntryIsNot
      <3> QED
        BY <3>1, <2>2 DEF Entry
    <2>4. entries[i].updated \in Int
      BY <1>3, EntryVersion
    <2>5. CASE n(i) # 0
      <3> HIDE DEF n
      <3> QED
        BY <2>3, <2>4, <2>5, <1>1, <1>4 DEF touched, bumped
    <2>6. CASE n(i) = 0
      <3>1. entries'[i].updated = entries[i].updated
        <4> HIDE DEF n
        <4> QED
          BY <2>3, <2>6 DEF touched
      <3>2. \A a \in References : i \in before[a] <=> i \in wanted[a]
        BY <2>6, <1>4
      <3>3. \A a \in References : i \in next.links[a] <=> i \in wanted[a]
        BY SchemaAssumption DEF saved, resolved, Survives, held
      <3>4. inbound'[i] = inbound[i]
        <4>1. inbound'[i] = (inbound[i] \ {<<id, b>> : b \in {b \in References : i \in before[b]}})
                              \cup {<<id, b>> : b \in {b \in References : i \in next.links[b]}}
          BY DEF SaveStep, save, commit, relink
        <4>2. \A a \in References : <<id, a>> \in inbound[i] <=> i \in before[a]
          BY <1>1 DEF StoreInv, InboundExact
        <4>3. {b \in References : i \in before[b]} = {b \in References : i \in next.links[b]}
          BY <3>2, <3>3
        <4> HIDE DEF next, before
        <4>4. \A b \in {b \in References : i \in before[b]} : <<id, b>> \in inbound[i]
          BY <4>2
        <4> QED
          BY <4>1, <4>3, <4>4
      <3> QED
        BY <3>1, <3>4, <2>1 DEF View
    <2> QED
      BY <2>5, <2>6
  <1> QED
    BY <1>8, <1>9

LEMMA DeleteForward ==
    ASSUME StoreInv, NEW id \in Ids, NEW kind \in Kinds, NEW version, NEW at \in Times,
           Delete(id, kind, version, at), NEW i \in Ids
    PROVE  Forward(i)
  <1> SUFFICES ASSUME Survives(i)
               PROVE  \/ entries'[i].updated > entries[i].updated
                      \/ entries'[i].updated = entries[i].updated /\ View(i)' = View(i)
    BY DEF Forward
  <1> DEFINE out == {a \in References : <<i, a>> \in inbound[id]}
             in == {a \in References : i \in entries[id].links[a]}
             n == detached(i, id) + allTargets(i, entries[id].links)
             e == entries[i]
             links == [a \in References |-> IF a \in out THEN e.links[a] \ {id} ELSE e.links[a]]
             soft == [a \in Soft |-> IF a \in out THEN {} ELSE e.soft[a]]
  <1>1. at \in Int /\ entries \in [Ids -> Entry \cup {NoEntry}]
    BY TimeAssumption DEF StoreInv, TypeOK, Times
  <1>2. i # id
    BY DeleteEffect, NoEntryIsNot DEF Survives, held
  <1>3. e \in Entry /\ e.updated \in Int
    BY <1>1, NoEntryIsNot, EntryVersion DEF Survives, held
  <1>4. entries'[i] = [unlink(i, id) EXCEPT !.updated = touched(@, n, at)]
    BY <1>2 DEF Delete, Survives
  <1>5. unlink(i, id) = [e EXCEPT !.links = links, !.soft = soft]
    BY DEF unlink
  <1>6. /\ n \in Nat
        /\ n = 0 <=> (out = {} /\ in = {})
    <2>1. Cardinality(out) \in Nat /\ (Cardinality(out) = 0 <=> out = {})
      BY Counting
    <2>2. Cardinality(in) \in Nat /\ (Cardinality(in) = 0 <=> in = {})
      BY Counting
    <2> QED
      BY <2>1, <2>2 DEF detached, allTargets
  <1>7. entries'[i] = [kind |-> e.kind, keys |-> e.keys, soft |-> soft, data |-> e.data,
                       links |-> links, updated |-> touched(e.updated, n, at)]
    <2>1. e = [kind |-> e.kind, keys |-> e.keys, soft |-> e.soft, data |-> e.data,
               links |-> e.links, updated |-> e.updated]
      BY <1>3 DEF Entry
    <2> HIDE DEF e, links, soft, n
    <2> QED
      BY <1>4, <1>5, <2>1
  <1>8. CASE n # 0
    <2>1. touched(e.updated, n, at) > e.updated
      <3> HIDE DEF n, e
      <3> QED
        BY <1>1, <1>3, <1>6, <1>8 DEF touched, bumped
    <2>2. entries'[i].updated = touched(e.updated, n, at)
      <3> HIDE DEF n, e, links, soft
      <3> QED
        BY <1>7
    <2> QED
      BY <2>1, <2>2
  <1>9. CASE n = 0
    <2>1. out = {} /\ in = {}
      BY <1>6, <1>9
    <2>2. links = e.links /\ soft = e.soft
      BY <2>1, <1>3 DEF Entry
    <2>3. touched(e.updated, n, at) = e.updated
      <3> HIDE DEF n, e
      <3> QED
        BY <1>9 DEF touched
    <2>4. inbound'[i] = inbound[i]
      <3>1. /\ inbound' = [relink(id, entries[id].links, NoEntry.links) EXCEPT ![id] = {}]
            /\ relink(id, entries[id].links, NoEntry.links)[i] =
                 (inbound[i] \ {<<id, b>> : b \in in})
                   \cup {<<id, b>> : b \in {b \in References : i \in NoEntry.links[b]}}
        BY DEF Delete, relink
      <3>2. {b \in References : i \in NoEntry.links[b]} = {}
        BY DEF NoEntry
      <3>3. inbound'[i] = relink(id, entries[id].links, NoEntry.links)[i]
        BY <3>1, <1>2 DEF relink
      <3> QED
        BY <2>1, <3>1, <3>2, <3>3
    <2>5. /\ entries'[i].keys = e.keys /\ entries'[i].soft = e.soft /\ entries'[i].data = e.data
          /\ entries'[i].links = e.links /\ entries'[i].updated = e.updated
      <3> HIDE DEF n, e, links, soft
      <3> QED
        BY <1>7, <2>2, <2>3
    <2> QED
      BY <2>4, <2>5 DEF View
  <1> QED
    BY <1>8, <1>9

(***************************************************************************)
(* A version never stands for two representations: every step that changes *)
(* what a surviving resource shows moves its version forward, whatever the *)
(* wall clock says.                                                        *)
(***************************************************************************)
THEOREM StoreVersions == Spec => VersionFollowsView
  <1>1. StoreInv /\ [Next]_vars => [\A i \in Ids : Forward(i)]_vars
    <2> SUFFICES ASSUME StoreInv, Next
                 PROVE  \A i \in Ids : Forward(i)
      OBVIOUS
    <2>0. TypeOK
      BY DEF StoreInv
    <2>1. ASSUME NEW doc \in Storable, NEW id \in Ids, NEW at \in Times, Create(id, doc, at),
                 NEW i \in Ids
          PROVE  Forward(i)
      <3>1. SaveStep(id, doc, at, at) /\ at \in Int
        BY <2>0, <2>1, CreateIsSave, TimeAssumption DEF Times
      <3>2. ~held(id)
        BY <2>0, <2>1 DEF Create, TypeOK, Known
      <3> QED
        BY <3>1, <3>2, SaveForward
    <2>2. ASSUME NEW doc \in Storable, NEW id \in Ids, NEW at \in Times,
                 NEW version \in Times \cup {None}, Update(id, doc, version, at), NEW i \in Ids
          PROVE  Forward(i)
      <3>1. SaveStep(id, doc, bumped(entries[id].updated, at), at)
        BY <2>0, <2>2, UpdateIsSave
      <3>2. entries[id].updated \in Int /\ at \in Int
        BY <2>0, EntryVersion, TimeAssumption DEF TypeOK, Times
      <3>3. /\ bumped(entries[id].updated, at) > entries[id].updated
            /\ bumped(entries[id].updated, at) \in Int
        BY <3>2, BumpedForward
      <3> QED
        BY <3>1, <3>3, SaveForward
    <2>3. ASSUME NEW id \in Ids, NEW kind \in Kinds, NEW version \in Times \cup {None},
                 NEW at \in Times, Delete(id, kind, version, at), NEW i \in Ids
          PROVE  Forward(i)
      BY <2>3, DeleteForward
    <2> QED
      BY <2>1, <2>2, <2>3, DocumentsStorable DEF Next
  <1>2. [\A i \in Ids : Forward(i)]_vars <=>
          [\A i \in Ids : Survives(i) =>
              \/ entries'[i].updated > entries[i].updated
              \/ entries'[i].updated = entries[i].updated /\ View(i)' = View(i)]_vars
    BY DEF Forward
  <1> QED
    BY <1>1, <1>2, StoreSafety, PTL DEF Spec, VersionFollowsView

(***************************************************************************)
(* Deleting a resource takes every mention of it out of what stays.        *)
(***************************************************************************)
THEOREM StoreForgets == Spec => DeletedIsForgotten
  <1> DEFINE Forgets == \A i, s \in Ids :
               held(i) /\ ~held(i)' /\ held(s)' =>
                 /\ \A a \in Soft : i \notin entries'[s].soft[a]
                 /\ \A a \in References : i \notin entries'[s].links[a]
  <1>1. StoreInv /\ [Next]_vars => [Forgets]_vars
    <2> SUFFICES ASSUME StoreInv, Next
                 PROVE  Forgets
      OBVIOUS
    <2>0. TypeOK
      BY DEF StoreInv
    <2>1. ASSUME NEW id, NEW doc, NEW updated, NEW at, SaveStep(id, doc, updated, at)
          PROVE  \A i \in Ids : held(i) => held(i)'
      <3>1. doc \in Storable /\ id \in Ids
        BY <2>1 DEF SaveStep
      <3>2. doc.kind # None
        BY <3>1, DocumentType, NoneAssumption
      <3> QED
        BY <2>0, <2>1, <3>2, SaveEffect DEF held
    <2>2. ASSUME NEW doc \in Storable, NEW id \in Ids, NEW at \in Times, Create(id, doc, at)
          PROVE  Forgets
      BY <2>0, <2>1, <2>2, CreateIsSave
    <2>3. ASSUME NEW doc \in Storable, NEW id \in Ids, NEW at \in Times,
                 NEW version \in Times \cup {None}, Update(id, doc, version, at)
          PROVE  Forgets
      BY <2>0, <2>1, <2>3, UpdateIsSave
    <2>4. ASSUME NEW id \in Ids, NEW kind \in Kinds, NEW version \in Times \cup {None},
                 NEW at \in Times, Delete(id, kind, version, at)
          PROVE  Forgets
      <3>1. /\ entries'[id].kind = None
            /\ \A i \in Ids \ {id} :
                 /\ entries'[i].kind = entries[i].kind
                 /\ \A a \in References : entries'[i].links[a] = entries[i].links[a] \ {id}
                 /\ \A a \in Soft : entries'[i].soft[a] = entries[i].soft[a] \ {id}
        BY <2>4, DeleteEffect, NoEntryIsNot
      <3> QED
        BY <3>1 DEF held
    <2> QED
      BY <2>2, <2>3, <2>4, DocumentsStorable DEF Next
  <1> QED
    BY <1>1, StoreSafety, PTL DEF Spec, DeletedIsForgotten

-----------------------------------------------------------------------------
(* The service. *)

Call == [step : Steps, req : Requests \cup {None}, id : Ids \cup {None},
         seen : Record \cup {None}, status : Statuses \cup {None}]

(***************************************************************************)
(* A record that a caller was given, against entries es, inbound links in  *)
(* and allotted ids us: its resource is gone for good, or has moved on, or *)
(* still is what the record says.                                          *)
(***************************************************************************)
SeenOK(c, es, in, us) ==
    /\ c.id \in us
    /\ c.seen \in Record
    /\ \A a \in Soft : c.seen.doc.refs[a] \in Pointers
    /\ Mentions(c.seen.doc) \subseteq us \cup Foreign
    /\ es[c.id].kind # None =>
         /\ es[c.id].kind = c.seen.doc.kind
         /\ es[c.id].updated >= c.seen.version
         /\ es[c.id].updated = c.seen.version => c.seen = record(c.id, es[c.id], in)

Overtaken(c, es) == es[c.id].kind = None \/ es[c.id].updated > c.seen.version

(***************************************************************************)
(* What is known of a request at each of its steps.                        *)
(***************************************************************************)
CallOK(c, es, in, us) ==
    /\ c.step = "idle" => c = Idle
    /\ c.step # "idle" =>
         /\ c.req \in Requests
         /\ Mentioned(c.req) \subseteq us \cup Foreign
         /\ c.req.op # "create" => c.id = c.req.id
         /\ c.step = "before" => c.req.op # "get"
    /\ c.step \in {"before", "read"} => c.seen = None
    /\ c.step \in {"before", "read", "persist", "mismatch"} => c.status = None
    /\ c.step = "after" => c.status = "ok"
    /\ c.seen # None => SeenOK(c, es, in, us)
    /\ c.step \in {"persist", "mismatch"} /\ c.req.op # "create" =>
         /\ c.req.op \in {"replace", "patch", "delete"}
         /\ c.seen # None
         /\ c.seen.doc.kind = c.req.kind
         /\ c.req.versions = {} \/ c.seen.version \in c.req.versions
         /\ c.req.op # "delete" => Immutable(c.seen.doc, Wanted(c.req, c.seen.doc))
    /\ c.step = "mismatch" =>
         /\ c.req.op # "create"
         /\ Overtaken(c, es)
         /\ c.req.op = "delete" /\ c.req.versions = {} => es[c.id].kind = None
    /\ c.step = "done" /\ c.status \in {"preconditionFailed", "changed"} =>
         /\ (c.status = "preconditionFailed") <=> (c.req.versions # {})
         /\ c.seen # None => Overtaken(c, es)

(***************************************************************************)
(* The inductive invariant of the service.                                 *)
(***************************************************************************)
ServiceInv ==
    /\ StoreInv
    /\ calls \in [Callers -> Call]
    /\ \A p \in Callers : CallOK(calls[p], entries, inbound, used)

-----------------------------------------------------------------------------
(***************************************************************************)
(* What any write to the store means for the records handed out before it: *)
(* a resource keeps its kind while it lives, a deleted one never comes     *)
(* back, and nothing changes under a version.                              *)
(***************************************************************************)
Moves ==
    /\ used \subseteq used'
    /\ \A i \in Ids :
         /\ Survives(i) => entries'[i].kind = entries[i].kind /\ Forward(i)
         /\ i \in used /\ ~held(i) => ~held(i)'

LEMMA RecordKept ==
    ASSUME NEW i \in Ids, Survives(i), entries'[i].kind = entries[i].kind,
           entries'[i].updated = entries[i].updated, View(i)' = View(i)
    PROVE  record(i, entries'[i], inbound') = record(i, entries[i], inbound)
  <1>1. /\ entries'[i].keys = entries[i].keys /\ entries'[i].soft = entries[i].soft
        /\ entries'[i].data = entries[i].data /\ entries'[i].links = entries[i].links
        /\ inbound'[i] = inbound[i]
    BY DEF View
  <1> QED
    BY <1>1 DEF record, Into

LEMMA SeenStable ==
    ASSUME StoreInv, StoreInv', Moves, NEW c, SeenOK(c, entries, inbound, used)
    PROVE  /\ SeenOK(c, entries', inbound', used')
           /\ Overtaken(c, entries) => Overtaken(c, entries')
           /\ entries[c.id].kind = None => entries'[c.id].kind = None
  <1>1. /\ c.id \in used /\ c.id \in used' /\ c.id \in Ids
    BY DEF SeenOK, Moves, StoreInv, TypeOK
  <1>2. /\ entries[c.id].updated \in Int /\ entries'[c.id].updated \in Int
        /\ c.seen.version \in Int
    <2>1. entries \in [Ids -> Entry \cup {NoEntry}] /\ entries' \in [Ids -> Entry \cup {NoEntry}]
      BY DEF StoreInv, TypeOK
    <2>2. c.seen.version \in Int
      BY TimeAssumption DEF SeenOK, Record, Times
    <2> QED
      BY <1>1, <2>1, <2>2, EntryVersion
  <1>3. entries[c.id].kind = None => entries'[c.id].kind = None
    BY <1>1 DEF Moves, held
  <1>4. Mentions(c.seen.doc) \subseteq used' \cup Foreign
    BY DEF SeenOK, Moves
  <1>5. CASE entries'[c.id].kind = None
    BY <1>1, <1>3, <1>4, <1>5 DEF SeenOK, Overtaken
  <1>6. CASE entries'[c.id].kind # None
    <2>1. Survives(c.id)
      BY <1>1, <1>3, <1>6 DEF Survives, held
    <2>2. entries'[c.id].kind = entries[c.id].kind /\ Forward(c.id)
      BY <1>1, <2>1 DEF Moves
    <2>3. /\ entries[c.id].kind = c.seen.doc.kind
          /\ entries[c.id].updated >= c.seen.version
          /\ entries[c.id].updated = c.seen.version => c.seen = record(c.id, entries[c.id], inbound)
      BY <1>3, <1>6 DEF SeenOK
    <2>4. CASE entries'[c.id].updated > entries[c.id].updated
      BY <1>1, <1>2, <1>3, <1>4, <2>2, <2>3, <2>4 DEF SeenOK, Overtaken
    <2>5. CASE entries'[c.id].updated = entries[c.id].updated /\ View(c.id)' = View(c.id)
      <3>1. record(c.id, entries'[c.id], inbound') = record(c.id, entries[c.id], inbound)
        BY <1>1, <2>1, <2>2, <2>5, RecordKept
      <3> QED
        BY <1>1, <1>2, <1>3, <1>4, <2>2, <2>3, <2>5, <3>1 DEF SeenOK, Overtaken
    <2> QED
      BY <2>1, <2>2, <2>4, <2>5 DEF Forward
  <1> QED
    BY <1>5, <1>6

LEMMA CallStable ==
    ASSUME StoreInv, StoreInv', Moves, NEW c, CallOK(c, entries, inbound, used),
           c.seen \in Record \cup {None}
    PROVE  CallOK(c, entries', inbound', used')
  <1>1. used \cup Foreign \subseteq used' \cup Foreign
    BY DEF Moves
  <1>2. CASE c.seen = None
    BY <1>1, <1>2 DEF CallOK
  <1>3. CASE c.seen # None
    <2>1. SeenOK(c, entries, inbound, used)
      BY <1>3 DEF CallOK
    <2>2. /\ SeenOK(c, entries', inbound', used')
          /\ Overtaken(c, entries) => Overtaken(c, entries')
          /\ entries[c.id].kind = None => entries'[c.id].kind = None
      BY <2>1, SeenStable
    <2> QED
      BY <1>1, <1>3, <2>2 DEF CallOK
  <1> QED
    BY <1>2, <1>3

-----------------------------------------------------------------------------
(***************************************************************************)
(* The steps of the store are moves, and a resource that is saved is not   *)
(* touched a second time: it never links to itself, before or after.       *)
(***************************************************************************)
LEMMA SaveMoves ==
    ASSUME StoreInv, NEW id, NEW doc, NEW updated, NEW at \in Times,
           SaveStep(id, doc, updated, at), updated \in Int,
           held(id) => updated > entries[id].updated
    PROVE  StoreInv' /\ Moves
  <1>1. StoreInv' /\ TypeOK
    BY SaveKeepsInv DEF StoreInv
  <1>2. /\ id \in Ids /\ doc \in Storable /\ used' = used \cup {id}
        /\ held(id) => entries[id].kind = doc.kind
        /\ ~held(id) => id \notin Known
    BY DEF SaveStep
  <1>3. /\ \A i \in Ids \ {id} : entries'[i].kind = entries[i].kind
        /\ entries'[id].kind = doc.kind
    BY <1>1, SaveEffect
  <1>4. \A i \in Ids : Forward(i)
    BY SaveForward
  <1>5. ASSUME NEW i \in Ids, Survives(i)
        PROVE  entries'[i].kind = entries[i].kind
    BY <1>2, <1>3, <1>5 DEF Survives
  <1>6. ASSUME NEW i \in Ids, i \in used, ~held(i)
        PROVE  ~held(i)'
    BY <1>2, <1>3, <1>6 DEF held, Known
  <1> QED
    BY <1>1, <1>2, <1>4, <1>5, <1>6 DEF Moves

LEMMA DeleteMoves ==
    ASSUME StoreInv, NEW id \in Ids, NEW kind \in Kinds, NEW version, NEW at \in Times,
           Delete(id, kind, version, at)
    PROVE  StoreInv' /\ Moves
  <1>1. StoreInv'
    BY DeleteKeepsInv
  <1>2. /\ entries'[id].kind = None
        /\ \A i \in Ids \ {id} : entries'[i].kind = entries[i].kind
    BY DeleteEffect, NoEntryIsNot
  <1>3. \A i \in Ids : Forward(i)
    BY DeleteForward
  <1>4. used' = used
    BY DEF Delete
  <1> QED
    BY <1>1, <1>2, <1>3, <1>4 DEF Moves, Survives, held

LEMMA NotTouched ==
    ASSUME StoreInv, NEW id, NEW doc, NEW updated, NEW at, SaveStep(id, doc, updated, at)
    PROVE  /\ changedTargets(id, entries[id].links, extractLinks(id, doc)) = 0
           /\ entries'[id] = saved(id, doc, updated)
  <1> DEFINE before == entries[id].links
             wanted == extractLinks(id, doc)
             next == saved(id, doc, updated)
             n == changedTargets(id, before, wanted)
  <1>1. id \in Ids /\ doc \in Storable
    BY DEF SaveStep
  <1>2. checkLinks(id, before, wanted)
    BY Verified DEF SaveStep, save
  <1>3. ASSUME NEW a \in References
        PROVE  id \notin before[a] /\ id \notin wanted[a]
    <2>1. CASE a \in Soft
      <3>1. before[a] = {t \in entries[id].soft[a] : held(t)} \ {id}
        BY <1>1, <2>1 DEF StoreInv, PointersResolved
      <3>2. wanted[a] = doc.refs[a] \ {id}
        BY <2>1 DEF extractLinks, softTargets
      <3> QED
        BY <3>1, <3>2
    <2>2. CASE a \notin Soft
      <3>1. reaches(id, id, a)
        BY DEF reaches
      <3>2. id \notin before[a]
        BY <1>1, <2>2, <3>1 DEF StoreInv, Acyclic, Hard
      <3>3. id \notin wanted[a] \ before[a]
        BY <1>2, <2>2, <3>1 DEF checkLinks, checkAcyclic
      <3> QED
        BY <3>2, <3>3
    <2> QED
      BY <2>1, <2>2
  <1>4. n = 0
    <2>1. {a \in References : (id \in before[a]) # (id \in wanted[a])} = {}
      BY <1>3
    <2> QED
      BY <2>1, Counting DEF changedTargets
  <1>5. entries'[id] = [next EXCEPT !.updated = touched(@, n, at)]
    <2>1. entries \in [Ids -> Entry \cup {NoEntry}]
      BY DEF StoreInv, TypeOK
    <2>2. next.kind # None
      BY <1>1, SavedType, NoneAssumption
    <2> HIDE DEF next, n
    <2> QED
      BY <1>1, <2>1, <2>2 DEF SaveStep, save, commit, next, n, before, wanted
  <1>6. next = [kind |-> next.kind, keys |-> next.keys, soft |-> next.soft, data |-> next.data,
                links |-> next.links, updated |-> next.updated]
    BY DEF saved
  <1>7. touched(next.updated, n, at) = next.updated
    BY <1>4 DEF touched
  <1> HIDE DEF next, n
  <1>8. entries'[id] = next
    BY <1>5, <1>6, <1>7
  <1> QED
    BY <1>4, <1>8 DEF next, n

-----------------------------------------------------------------------------
(***************************************************************************)
(* Requests and the documents they ask for.                                *)
(***************************************************************************)
LEMMA RequestType ==
    ASSUME NEW r \in Requests
    PROVE  /\ r.op \in {"get", "delete", "create", "replace", "patch"}
           /\ r.kind \in Kinds
           /\ r.op = "create" => r.id = None /\ r.versions = {}
           /\ r.op # "create" => r.id \in Ids /\ r.versions \in SUBSET Times
           /\ r.op \in {"create", "replace"} => r.body \in WellFormed /\ r.body.kind = r.kind
           /\ r.op = "patch" => r.body \in Change /\ \A a \in Soft : r.body.add[a] \in Pointers
  <1>1. r \in Request
    BY RequestAssumption
  <1>2. /\ r.op \in {"create", "replace"} => r.body.kind = r.kind
        /\ r.op = "patch" => \A a \in Soft : r.body.add[a] \in Pointers
    BY RequestAssumption
  <1> QED
    BY <1>1, <1>2 DEF Request

LEMMA ReplacedStorable ==
    ASSUME NEW doc \in Storable, NEW body \in WellFormed, Mentions(body) \subseteq Known
    PROVE  /\ Replaced(doc, body) \in Storable
           /\ Replaced(doc, body).kind = body.kind
  <1> DEFINE data == IF body.data = None THEN doc.data ELSE body.data
             w == Replaced(doc, body)
  <1>1. body \in Document /\ \A a \in Soft : body.refs[a] \in Pointers
    BY DEF WellFormed
  <1>2. w = [kind |-> body.kind, keys |-> body.keys, data |-> data, refs |-> body.refs]
    <2>1. w = [body EXCEPT !.data = data]
      BY DEF Replaced
    <2> HIDE DEF w, data
    <2> QED
      BY <1>1, <2>1 DEF Document
  <1>3. data \in Data \cup {None}
    BY <1>1, DocumentType DEF Document
  <1>4. w \in Document /\ w.kind = body.kind /\ w.refs = body.refs
    BY <1>1, <1>2, <1>3 DEF Document
  <1> HIDE DEF w
  <1>5. Mentions(w) = Mentions(body)
    BY <1>4 DEF Mentions
  <1>6. w \in Storable
    BY <1>1, <1>4, <1>5 DEF Storable
  <1> QED
    BY <1>4, <1>6 DEF w

LEMMA PatchedStorable ==
    ASSUME NEW doc \in Storable, NEW change \in Change,
           \A a \in Soft : change.add[a] \in Pointers,
           \A a \in References : change.add[a] \subseteq Known
    PROVE  /\ Patched(doc, change) \in Storable
           /\ Patched(doc, change).kind = doc.kind
  <1> DEFINE w == Patched(doc, change)
             keys == IF change.keys = {} THEN doc.keys ELSE change.keys
             data == IF change.data = None THEN doc.data ELSE change.data
             refs == [a \in References |->
                        IF a \in Soft /\ change.add[a] # {} THEN change.add[a]
                        ELSE (doc.refs[a] \ change.remove[a]) \cup change.add[a]]
  <1>1. /\ change.keys \in SUBSET Names /\ change.data \in Data \cup {None}
        /\ change.add \in [References -> SUBSET Ids]
        /\ change.remove \in [References -> SUBSET Ids]
    BY DEF Change
  <1>2. doc \in Document
    BY DEF Storable
  <1>3. w = [kind |-> doc.kind, keys |-> keys, data |-> data, refs |-> refs]
    <2>1. w = [doc EXCEPT !.keys = keys, !.data = data, !.refs = refs]
      BY DEF Patched
    <2> HIDE DEF w, keys, data, refs
    <2> QED
      BY <1>2, <2>1 DEF Document
  <1>4. keys \in SUBSET Names /\ data \in Data \cup {None} /\ refs \in [References -> SUBSET Ids]
    BY <1>1, DocumentType
  <1>5. ASSUME NEW a \in Soft
        PROVE  refs[a] \in Pointers
    <2>1. a \in References /\ doc.refs[a] \in Pointers
      BY DocumentType, SchemaAssumption
    <2>2. CASE change.add[a] # {}
      BY <2>1, <2>2
    <2>3. CASE change.add[a] = {}
      <3>1. refs[a] = doc.refs[a] \ change.remove[a]
        BY <2>1, <2>3
      <3> QED
        BY <2>1, <3>1 DEF Pointers
    <2> QED
      BY <2>2, <2>3
  <1>6. \A a \in References : refs[a] \subseteq Known
    BY DocumentType
  <1> HIDE DEF refs, keys, data
  <1>7. w.kind = doc.kind /\ w.refs = refs /\ w \in Document
    BY <1>2, <1>3, <1>4 DEF Document
  <1> HIDE DEF w
  <1>8. Mentions(w) \subseteq Known
    BY <1>6, <1>7 DEF Mentions
  <1>9. w \in Storable
    BY <1>5, <1>7, <1>8 DEF Storable
  <1> QED
    BY <1>7, <1>9 DEF w

LEMMA WantedStorable ==
    ASSUME NEW r \in Requests, r.op \in {"replace", "patch"}, Mentioned(r) \subseteq Known,
           NEW doc \in Storable, doc.kind = r.kind
    PROVE  Wanted(r, doc) \in Storable /\ Wanted(r, doc).kind = r.kind
  <1>1. CASE r.op = "replace"
    <2>1. r.body \in WellFormed /\ r.body.kind = r.kind
      BY <1>1, RequestType
    <2>2. Mentions(r.body) \subseteq Known
      BY <1>1 DEF Mentioned
    <2>3. Wanted(r, doc) = Replaced(doc, r.body)
      BY <1>1 DEF Wanted
    <2> QED
      BY <2>1, <2>2, <2>3, ReplacedStorable
  <1>2. CASE r.op = "patch"
    <2>1. r.body \in Change /\ \A a \in Soft : r.body.add[a] \in Pointers
      BY <1>2, RequestType
    <2>2. UNION {r.body.add[a] \cup r.body.remove[a] : a \in References} \subseteq Known
      BY <1>2 DEF Mentioned
    <2>3. \A a \in References : r.body.add[a] \subseteq Known
      BY <2>2
    <2>4. Wanted(r, doc) = Patched(doc, r.body)
      BY <1>2 DEF Wanted
    <2> QED
      BY <2>1, <2>3, <2>4, PatchedStorable
  <1> QED
    BY <1>1, <1>2

-----------------------------------------------------------------------------
(***************************************************************************)
(* The shape of a step: one caller moves on, the store moves or stays.     *)
(***************************************************************************)
With(c, step, id, seen, status) ==
    [step |-> step, req |-> c.req, id |-> id, seen |-> seen, status |-> status]

LEMMA CallFields ==
    ASSUME NEW c \in Call
    PROVE  /\ c.step \in Steps /\ c.req \in Requests \cup {None} /\ c.id \in Ids \cup {None}
           /\ c.seen \in Record \cup {None} /\ c.status \in Statuses \cup {None}
           /\ c = [step |-> c.step, req |-> c.req, id |-> c.id, seen |-> c.seen,
                   status |-> c.status]
  BY DEF Call

LEMMA WithFields ==
    ASSUME NEW c, NEW step, NEW id, NEW seen, NEW status
    PROVE  LET w == With(c, step, id, seen, status)
           IN  /\ w.step = step /\ w.req = c.req /\ w.id = id /\ w.seen = seen
               /\ w.status = status
               /\ c \in Call /\ step \in Steps /\ id \in Ids \cup {None}
                    /\ seen \in Record \cup {None} /\ status \in Statuses \cup {None}
                  => w \in Call
  BY DEF With, Call

LEMMA EditStatus ==
    ASSUME NEW c \in Call, NEW step, NEW status
    PROVE  [c EXCEPT !.step = step, !.status = status] = With(c, step, c.id, c.seen, status)
  <1> DEFINE x == [c EXCEPT !.step = step]
  <1>1. x = With(c, step, c.id, c.seen, c.status)
    BY DEF With, Call
  <1> HIDE DEF x
  <1>2. [x EXCEPT !.status = status] = With(c, step, c.id, c.seen, status)
    BY <1>1 DEF With
  <1> QED
    BY <1>2, Zenon DEF x

LEMMA EditFound ==
    ASSUME NEW c \in Call, NEW seen, NEW step
    PROVE  [c EXCEPT !.seen = seen, !.step = step] = With(c, step, c.id, seen, c.status)
  <1> DEFINE x == [c EXCEPT !.seen = seen]
  <1>1. x = With(c, c.step, c.id, seen, c.status)
    BY DEF With, Call
  <1> HIDE DEF x
  <1>2. [x EXCEPT !.step = step] = With(c, step, c.id, seen, c.status)
    BY <1>1 DEF With
  <1> QED
    BY <1>2, Zenon DEF x

LEMMA GotoIs ==
    ASSUME calls \in [Callers -> Call], NEW p \in Callers, NEW step, Goto(p, step)
    PROVE  calls' = [calls EXCEPT ![p] =
                       With(calls[p], step, calls[p].id, calls[p].seen, calls[p].status)]
  <1>1. calls' = [calls EXCEPT ![p] = [calls[p] EXCEPT !.step = step]]
    BY DEF Goto
  <1>2. calls[p] \in Call
    OBVIOUS
  <1>3. [calls[p] EXCEPT !.step = step] =
           With(calls[p], step, calls[p].id, calls[p].seen, calls[p].status)
    BY <1>2 DEF With, Call
  <1> QED
    BY <1>1, <1>3

LEMMA AnswerIs ==
    ASSUME calls \in [Callers -> Call], NEW p \in Callers, NEW status, Answer(p, status)
    PROVE  calls' = [calls EXCEPT ![p] =
                       With(calls[p], "done", calls[p].id, calls[p].seen, status)]
  <1>1. calls' = [calls EXCEPT ![p] = [calls[p] EXCEPT !.step = "done", !.status = status]]
    BY DEF Answer
  <1>2. calls[p] \in Call
    OBVIOUS
  <1>3. [calls[p] EXCEPT !.step = "done", !.status = status] =
           With(calls[p], "done", calls[p].id, calls[p].seen, status)
    BY <1>2, EditStatus
  <1> QED
    BY <1>1, <1>3

LEMMA StoreStays ==
    ASSUME StoreInv, UNCHANGED vars
    PROVE  StoreInv' /\ Moves /\ entries' = entries /\ inbound' = inbound /\ used' = used
  <1>1. entries' = entries /\ inbound' = inbound /\ used' = used
    BY DEF vars
  <1>2. StoreInv'
    BY NextKeepsInv
  <1>3. \A i \in Ids : View(i)' = View(i)
    BY <1>1 DEF View
  <1>4. Moves
    BY <1>1, <1>3 DEF Moves, Survives, held, Forward
  <1> QED
    BY <1>1, <1>2, <1>4

LEMMA OneCallMoves ==
    ASSUME ServiceInv, StoreInv', Moves, NEW p \in Callers, NEW c \in Call,
           calls' = [calls EXCEPT ![p] = c],
           CallOK(c, entries', inbound', used')
    PROVE  ServiceInv'
  <1>1. calls' \in [Callers -> Call]
    BY DEF ServiceInv
  <1>2. ASSUME NEW q \in Callers
        PROVE  CallOK(calls'[q], entries', inbound', used')
    <2>1. CASE q = p
      BY <2>1 DEF ServiceInv
    <2>2. CASE q # p
      <3>1. calls'[q] = calls[q] /\ calls[q] \in Call
        BY <2>2 DEF ServiceInv
      <3>2. calls[q].seen \in Record \cup {None}
        BY <3>1, CallFields
      <3>3. CallOK(calls[q], entries, inbound, used) /\ StoreInv
        BY DEF ServiceInv
      <3> QED
        BY <3>1, <3>2, <3>3, CallStable
    <2> QED
      BY <2>1, <2>2
  <1> QED
    BY <1>1, <1>2 DEF ServiceInv

LEMMA OneCallWaits ==
    ASSUME ServiceInv, UNCHANGED vars, NEW p \in Callers, NEW c \in Call,
           calls' = [calls EXCEPT ![p] = c],
           CallOK(c, entries, inbound, used)
    PROVE  ServiceInv'
  BY StoreStays, OneCallMoves DEF ServiceInv

(***************************************************************************)
(* A plain refusal needs no more than what was known before it.            *)
(***************************************************************************)
LEMMA AnswerOK ==
    ASSUME ServiceInv, UNCHANGED vars, NEW p \in Callers, NEW status \in Statuses,
           calls[p].step # "idle", Answer(p, status),
           status \in {"preconditionFailed", "changed"} =>
             /\ (status = "preconditionFailed") <=> (calls[p].req.versions # {})
             /\ calls[p].seen # None => Overtaken(calls[p], entries)
    PROVE  ServiceInv'
  <1> DEFINE c == calls[p]
             w == With(c, "done", c.id, c.seen, status)
  <1>1. c \in Call /\ calls \in [Callers -> Call] /\ CallOK(c, entries, inbound, used)
    BY DEF ServiceInv
  <1>2. /\ w.step = "done" /\ w.req = c.req /\ w.id = c.id /\ w.seen = c.seen
        /\ w.status = status /\ w \in Call
    BY <1>1, CallFields, WithFields DEF Steps
  <1>3. calls' = [calls EXCEPT ![p] = w]
    BY <1>1, AnswerIs
  <1> HIDE DEF c, w
  <1>4. Overtaken(c, entries) <=> Overtaken(w, entries)
    BY <1>2 DEF Overtaken
  <1>5. c.seen # None => SeenOK(w, entries, inbound, used)
    BY <1>1, <1>2 DEF CallOK, SeenOK
  <1>6. CallOK(w, entries, inbound, used)
    BY <1>1, <1>2, <1>4, <1>5 DEF CallOK, c
  <1> QED
    BY <1>2, <1>3, <1>6, OneCallWaits

-----------------------------------------------------------------------------
(***************************************************************************)
(* A record just read (or just written) is what the store holds.           *)
(***************************************************************************)
LEMMA Fresh ==
    ASSUME NEW c, NEW es, NEW in, NEW us, c.id \in us, c.id \in Ids,
           es[c.id] \in Entry, in[c.id] \in SUBSET (Ids \X References),
           \A a \in Soft : es[c.id].soft[a] \subseteq us \cup Foreign,
           \A a \in References : es[c.id].links[a] \subseteq us \cup Foreign,
           c.seen = record(c.id, es[c.id], in)
    PROVE  /\ SeenOK(c, es, in, us) /\ c.seen \in Record
           /\ c.seen.doc.kind = es[c.id].kind /\ c.seen.doc.kind \in Kinds
           /\ c.seen.version = es[c.id].updated
           /\ c.seen.doc.data = es[c.id].data
  <1> DEFINE e == es[c.id]
             d == Into(e)
             refs == [a \in References |-> IF a \in Soft THEN e.soft[a] ELSE e.links[a]]
  <1>1. /\ e.kind \in Kinds /\ e.keys \in SUBSET Names /\ e.data \in Data \cup {None}
        /\ e.soft \in [Soft -> Pointers] /\ e.links \in [References -> SUBSET Ids]
        /\ e.updated \in Times
    BY DEF Entry
  <1>2. d = [kind |-> e.kind, keys |-> e.keys, data |-> e.data, refs |-> refs]
    BY DEF Into
  <1>3. refs \in [References -> SUBSET Ids]
    BY <1>1 DEF Pointers
  <1>4. \A a \in Soft : refs[a] \in Pointers
    BY <1>1, SchemaAssumption
  <1>5. \A a \in References : refs[a] \subseteq us \cup Foreign
    OBVIOUS
  <1>6. c.seen = [doc |-> d, derived |-> in[c.id], version |-> e.updated]
    BY DEF record
  <1> HIDE DEF refs, d, e
  <1>7. d \in Document /\ d.kind = e.kind /\ d.refs = refs /\ d.data = e.data
    BY <1>1, <1>2, <1>3 DEF Document
  <1>8. c.seen \in Record /\ c.seen.doc = d /\ c.seen.version = e.updated
    BY <1>1, <1>6, <1>7 DEF Record
  <1>9. Mentions(d) \subseteq us \cup Foreign
    BY <1>5, <1>7 DEF Mentions
  <1>10. e.updated \in Int
    BY <1>1, TimeAssumption DEF Times
  <1> QED
    BY <1>1, <1>4, <1>7, <1>8, <1>9, <1>10 DEF SeenOK, e

LEMMA HeldFacts ==
    ASSUME StoreInv, NEW i \in Ids, held(i)
    PROVE  /\ i \in used /\ entries[i] \in Entry /\ inbound[i] \in SUBSET (Ids \X References)
           /\ \A a \in Soft : entries[i].soft[a] \subseteq used \cup Foreign
           /\ \A a \in References : entries[i].links[a] \subseteq used \cup Foreign
  <1>1. i \in used /\ entries[i] \in Entry /\ inbound[i] \in SUBSET (Ids \X References)
    BY NoEntryIsNot DEF StoreInv, TypeOK, held
  <1>2. \A a \in Soft : entries[i].soft[a] \subseteq used \cup Foreign
    BY DEF StoreInv, TypeOK, Known
  <1>3. ASSUME NEW a \in References, NEW t \in entries[i].links[a]
        PROVE  t \in used
    <2>1. t \in Ids
      BY <1>1 DEF Entry
    <2> QED
      BY <2>1 DEF StoreInv, LinksHeld, TypeOK
  <1> QED
    BY <1>1, <1>2, <1>3

LEMMA HeldFactsNext ==
    ASSUME StoreInv', NEW i \in Ids, held(i)'
    PROVE  /\ i \in used' /\ entries'[i] \in Entry /\ inbound'[i] \in SUBSET (Ids \X References)
           /\ \A a \in Soft : entries'[i].soft[a] \subseteq used' \cup Foreign
           /\ \A a \in References : entries'[i].links[a] \subseteq used' \cup Foreign
  <1>1. i \in used' /\ entries'[i] \in Entry /\ inbound'[i] \in SUBSET (Ids \X References)
    BY NoEntryIsNot DEF StoreInv, TypeOK, held
  <1>2. \A a \in Soft : entries'[i].soft[a] \subseteq used' \cup Foreign
    BY DEF StoreInv, TypeOK, Known
  <1>3. ASSUME NEW a \in References, NEW t \in entries'[i].links[a]
        PROVE  t \in used'
    <2>1. t \in Ids
      BY <1>1 DEF Entry
    <2> QED
      BY <2>1 DEF StoreInv, LinksHeld, TypeOK
  <1> QED
    BY <1>1, <1>2, <1>3

-----------------------------------------------------------------------------
(***************************************************************************)
(* The steps that leave the store alone.                                   *)
(***************************************************************************)
LEMMA BeginKeeps ==
    ASSUME ServiceInv, NEW p \in Callers, NEW r \in Requests, Begin(p, r)
    PROVE  ServiceInv'
  <1> DEFINE step == IF r.op = "get" THEN "read" ELSE "before"
             w == [step |-> step, req |-> r, id |-> r.id, seen |-> None, status |-> None]
  <1>1. calls' = [calls EXCEPT ![p] = w]
    <2> DEFINE x == [Idle EXCEPT !.step = step]
               y == [x EXCEPT !.req = r]
    <2>1. calls' = [calls EXCEPT ![p] = [Idle EXCEPT !.step = step, !.req = r, !.id = r.id]]
      BY DEF Begin
    <2>2. x = [step |-> step, req |-> None, id |-> None, seen |-> None, status |-> None]
      BY DEF Idle
    <2> HIDE DEF x
    <2>3. y = [step |-> step, req |-> r, id |-> None, seen |-> None, status |-> None]
      BY <2>2
    <2> HIDE DEF y
    <2>4. [y EXCEPT !.id = r.id] = w
      BY <2>3
    <2>5. [Idle EXCEPT !.step = step, !.req = r, !.id = r.id] = w
      BY <2>4, Zenon DEF x, y
    <2> HIDE DEF w
    <2> QED
      BY <2>1, <2>5
  <1>2. Mentioned(r) \subseteq used \cup Foreign /\ UNCHANGED vars
    BY DEF Begin, Known
  <1>3. r.id \in Ids \cup {None}
    BY RequestType
  <1>4. /\ w.step = step /\ w.req = r /\ w.id = r.id /\ w.seen = None /\ w.status = None
        /\ w \in Call
    BY <1>3 DEF Call, Steps
  <1> HIDE DEF w
  <1>5. step \in {"read", "before"} /\ (step = "before" => r.op # "get")
    OBVIOUS
  <1> HIDE DEF step
  <1>6. CallOK(w, entries, inbound, used)
    BY <1>2, <1>4, <1>5 DEF CallOK
  <1> QED
    BY <1>1, <1>2, <1>4, <1>6, OneCallWaits

LEMMA GotoKeeps ==
    ASSUME ServiceInv, UNCHANGED vars, NEW p \in Callers, NEW step \in Steps, Goto(p, step),
           \/ calls[p].step = "before" /\ step = "read"
           \/ calls[p].step = "read" /\ calls[p].req.op = "create" /\ step = "persist"
           \/ /\ calls[p].step = "persist" /\ calls[p].req.op # "create" /\ step = "mismatch"
              /\ Overtaken(calls[p], entries)
              /\ calls[p].req.op = "delete" /\ calls[p].req.versions = {}
                   => entries[calls[p].id].kind = None
    PROVE  ServiceInv'
  <1> DEFINE c == calls[p]
             w == With(c, step, c.id, c.seen, c.status)
  <1>1. c \in Call /\ calls \in [Callers -> Call] /\ CallOK(c, entries, inbound, used)
    BY DEF ServiceInv
  <1>2. /\ w.step = step /\ w.req = c.req /\ w.id = c.id /\ w.seen = c.seen
        /\ w.status = c.status /\ w \in Call
    BY <1>1, CallFields, WithFields
  <1>3. calls' = [calls EXCEPT ![p] = w]
    BY <1>1, GotoIs
  <1> HIDE DEF c, w
  <1>4. Overtaken(c, entries) <=> Overtaken(w, entries)
    BY <1>2 DEF Overtaken
  <1>5. c.seen # None => SeenOK(w, entries, inbound, used)
    BY <1>1, <1>2 DEF CallOK, SeenOK
  <1>6. CASE c.step = "before" /\ step = "read"
    <2>1. CallOK(w, entries, inbound, used)
      BY <1>1, <1>2, <1>5, <1>6 DEF CallOK
    <2> QED
      BY <1>2, <1>3, <2>1, OneCallWaits
  <1>7. CASE c.step = "read" /\ c.req.op = "create" /\ step = "persist"
    <2>1. CallOK(w, entries, inbound, used)
      BY <1>1, <1>2, <1>5, <1>7 DEF CallOK
    <2> QED
      BY <1>2, <1>3, <2>1, OneCallWaits
  <1>8. CASE /\ c.step = "persist" /\ c.req.op # "create" /\ step = "mismatch"
             /\ Overtaken(c, entries)
             /\ c.req.op = "delete" /\ c.req.versions = {} => entries[c.id].kind = None
    <2>1. CallOK(w, entries, inbound, used)
      BY <1>1, <1>2, <1>4, <1>5, <1>8 DEF CallOK
    <2> QED
      BY <1>2, <1>3, <2>1, OneCallWaits
  <1> QED
    BY <1>6, <1>7, <1>8 DEF c

LEMMA BeforeHookKeeps ==
    ASSUME ServiceInv, NEW p \in Callers, BeforeHook(p)
    PROVE  ServiceInv'
  <1>1. calls[p].step = "before" /\ UNCHANGED vars
    BY DEF BeforeHook
  <1>2. CASE Goto(p, "read")
    BY <1>1, <1>2, GotoKeeps DEF Steps
  <1>3. CASE Answer(p, "hookFailed")
    BY <1>1, <1>3, AnswerOK DEF Statuses
  <1> QED
    BY <1>2, <1>3 DEF BeforeHook

LEMMA AdmitCreateKeeps ==
    ASSUME ServiceInv, NEW p \in Callers, AdmitCreate(p)
    PROVE  ServiceInv'
  <1>1. calls[p].step = "read" /\ calls[p].req.op = "create" /\ UNCHANGED vars
    BY DEF AdmitCreate
  <1>2. CASE Goto(p, "persist")
    BY <1>1, <1>2, GotoKeeps DEF Steps
  <1>3. CASE Answer(p, "rejected")
    BY <1>1, <1>3, AnswerOK DEF Statuses
  <1> QED
    BY <1>2, <1>3 DEF AdmitCreate

(***************************************************************************)
(* What a caller at "read" finds: nothing seen yet, and if the resource is *)
(* there, a record of it that will stay meaningful.                        *)
(***************************************************************************)
LEMMA Found ==
    ASSUME ServiceInv, NEW p \in Callers, calls[p].step = "read", calls[p].req.op # "create"
    PROVE  LET r == calls[p].req
           IN  /\ r \in Requests /\ r.id \in Ids /\ calls[p].id = r.id /\ calls[p].seen = None
               /\ entries[r.id].kind = r.kind =>
                    \A w : w.id = r.id /\ w.seen = record(r.id, entries[r.id], inbound) =>
                      /\ SeenOK(w, entries, inbound, used) /\ w.seen \in Record
                      /\ w.seen.doc.kind = r.kind /\ w.seen.version = entries[r.id].updated
  <1> DEFINE c == calls[p]
             r == c.req
  <1>1. CallOK(c, entries, inbound, used) /\ StoreInv
    BY DEF ServiceInv
  <1>2. r \in Requests /\ c.id = r.id /\ c.seen = None
    BY <1>1 DEF CallOK
  <1>3. r.id \in Ids /\ r.kind \in Kinds
    BY <1>2, RequestType
  <1>4. ASSUME entries[r.id].kind = r.kind, NEW w, w.id = r.id,
               w.seen = record(r.id, entries[r.id], inbound)
        PROVE  /\ SeenOK(w, entries, inbound, used) /\ w.seen \in Record
               /\ w.seen.doc.kind = r.kind /\ w.seen.version = entries[r.id].updated
    <2>1. held(r.id)
      BY <1>3, <1>4, NoneAssumption DEF held
    <2> HIDE DEF r
    <2>2. /\ r.id \in used /\ entries[r.id] \in Entry
          /\ inbound[r.id] \in SUBSET (Ids \X References)
          /\ \A a \in Soft : entries[r.id].soft[a] \subseteq used \cup Foreign
          /\ \A a \in References : entries[r.id].links[a] \subseteq used \cup Foreign
      BY <1>1, <1>3, <2>1, HeldFacts
    <2> QED
      BY <1>3, <1>4, <2>2, Fresh, ZenonT(60)
  <1> QED
    BY <1>2, <1>3, <1>4

LEMMA FoundKeeps ==
    ASSUME ServiceInv, UNCHANGED vars, NEW p \in Callers,
           calls[p].step = "read", calls[p].req.op # "create",
           entries[calls[p].req.id].kind = calls[p].req.kind,
           NEW w, calls' = [calls EXCEPT ![p] = w],
           w = With(calls[p], w.step, calls[p].id, w.seen, w.status),
           w.seen = record(calls[p].req.id, entries[calls[p].req.id], inbound),
           \/ w.step \in {"done", "after"} /\ w.status = "ok"
           \/ /\ w.step = "persist" /\ w.status = None
              /\ w.req.op \in {"replace", "patch", "delete"}
              /\ w.req.versions = {} \/ w.seen.version \in w.req.versions
              /\ w.req.op # "delete" => Immutable(w.seen.doc, Wanted(w.req, w.seen.doc))
    PROVE  ServiceInv'
  <1> DEFINE c == calls[p]
  <1>1. c \in Call /\ CallOK(c, entries, inbound, used)
    BY DEF ServiceInv
  <1>2. w.req = c.req /\ w.id = c.id
    BY WithFields
  <1>3. /\ c.req \in Requests /\ c.id = c.req.id
        /\ SeenOK(w, entries, inbound, used) /\ w.seen \in Record /\ w.seen.doc.kind = c.req.kind
    BY <1>2, Found
  <1>4. w \in Call
    <2>1. w.step \in Steps /\ w.status \in Statuses \cup {None} /\ c.id \in Ids \cup {None}
      BY <1>1, CallFields DEF Steps, Statuses
    <2> QED
      BY <1>1, <1>3, <2>1, WithFields
  <1>5. w.seen # None
    BY <1>3, ServiceAssumption
  <1> HIDE DEF c
  <1>6. CallOK(w, entries, inbound, used)
    BY <1>1, <1>2, <1>3, <1>5 DEF CallOK, c
  <1> QED
    BY <1>4, <1>6, OneCallWaits

LEMMA GetKeeps ==
    ASSUME ServiceInv, NEW p \in Callers, Get(p)
    PROVE  ServiceInv'
  <1> DEFINE c == calls[p]
             r == c.req
             current == record(r.id, entries[r.id], inbound)
  <1>1. c.step = "read" /\ r.op = "get" /\ UNCHANGED vars /\ c \in Call
    BY DEF Get, ServiceInv
  <1>2. CASE entries[r.id].kind = r.kind
    <2> DEFINE x == [c EXCEPT !.step = "done", !.status = "ok"]
               w == [x EXCEPT !.seen = current]
    <2>1. calls' = [calls EXCEPT ![p] = w]
      BY <1>2 DEF Get
    <2>2. x = With(c, "done", c.id, c.seen, "ok")
      BY <1>1, EditStatus
    <2> HIDE DEF x
    <2>3. w = With(c, "done", c.id, current, "ok")
      BY <2>2 DEF With
    <2> HIDE DEF w
    <2>4. w.step = "done" /\ w.seen = current /\ w.status = "ok"
      BY <2>3, WithFields
    <2>5. w.seen = record(r.id, entries[r.id], inbound)
      BY <2>4
    <2> HIDE DEF current
    <2>6. w = With(c, w.step, c.id, w.seen, w.status)
      BY <2>3, <2>4
    <2> QED
      BY <1>1, <1>2, <2>1, <2>4, <2>5, <2>6, FoundKeeps
  <1>3. CASE entries[r.id].kind # r.kind
    <2>1. Answer(p, "notFound")
      BY <1>3 DEF Get
    <2> QED
      BY <1>1, <2>1, AnswerOK DEF Statuses
  <1> QED
    BY <1>2, <1>3

LEMMA ReadCurrentKeeps ==
    ASSUME ServiceInv, NEW p \in Callers, ReadCurrent(p)
    PROVE  ServiceInv'
  <1> DEFINE c == calls[p]
             r == c.req
             current == record(r.id, entries[r.id], inbound)
             next == Wanted(r, current.doc)
             matches == r.versions = {} \/ current.version \in r.versions
  <1>1. /\ c.step = "read" /\ r.op \in {"replace", "patch", "delete"} /\ UNCHANGED vars
        /\ c \in Call /\ c.status = None /\ c.seen = None
    BY DEF ReadCurrent, ServiceInv, CallOK
  <1>2. ASSUME NEW status \in Statuses \ {"preconditionFailed", "changed"}, Answer(p, status)
        PROVE  ServiceInv'
    BY <1>1, <1>2, AnswerOK
  <1>3. ASSUME entries[r.id].kind = r.kind, matches,
               r.op # "delete" => Immutable(current.doc, next),
               calls' = [calls EXCEPT ![p].seen = current, ![p].step = "persist"]
        PROVE  ServiceInv'
    <2> DEFINE w == [c EXCEPT !.seen = current, !.step = "persist"]
    <2>1. calls' = [calls EXCEPT ![p] = w]
      <3> HIDE DEF current
      <3> QED
        BY <1>3
    <2>2. w = With(c, "persist", c.id, current, c.status)
      <3> HIDE DEF current
      <3> QED
        BY <1>1, EditFound
    <2> HIDE DEF w
    <2>3. w.step = "persist" /\ w.seen = current /\ w.status = None /\ w.req = r
      BY <1>1, <2>2, WithFields
    <2>4. w.seen = record(r.id, entries[r.id], inbound)
      BY <2>3
    <2> HIDE DEF current
    <2>5. w = With(c, w.step, c.id, w.seen, w.status)
      BY <1>1, <2>2, <2>3
    <2> QED
      BY <1>1, <1>3, <2>1, <2>3, <2>4, <2>5, FoundKeeps, ZenonT(60)
  <1>4. ASSUME entries[r.id].kind = r.kind,
               calls' = [calls EXCEPT ![p].seen = current, ![p].step = "after", ![p].status = "ok"]
        PROVE  ServiceInv'
    <2> DEFINE x == [c EXCEPT !.seen = current, !.step = "after"]
               w == [x EXCEPT !.status = "ok"]
    <2>1. calls' = [calls EXCEPT ![p] = w]
      <3> HIDE DEF current
      <3> QED
        BY <1>4
    <2>2. x = With(c, "after", c.id, current, c.status)
      <3> HIDE DEF current
      <3> QED
        BY <1>1, EditFound
    <2> HIDE DEF x
    <2>3. w = With(c, "after", c.id, current, "ok")
      <3> HIDE DEF current
      <3> QED
        BY <2>2 DEF With
    <2> HIDE DEF w
    <2>4. w.step = "after" /\ w.seen = current /\ w.status = "ok"
      BY <2>3, WithFields
    <2>5. w.seen = record(r.id, entries[r.id], inbound)
      BY <2>4
    <2> HIDE DEF current
    <2>6. w = With(c, w.step, c.id, w.seen, w.status)
      BY <2>3, <2>4
    <2> QED
      BY <1>1, <1>4, <2>1, <2>4, <2>5, <2>6, FoundKeeps
  <1>5. CASE entries[r.id].kind # r.kind
    <2>1. Answer(p, "notFound")
      BY <1>5 DEF ReadCurrent
    <2> QED
      BY <1>2, <2>1 DEF Statuses
  <1>6. CASE entries[r.id].kind = r.kind /\ ~matches
    <2>1. Answer(p, "preconditionFailed") /\ r.versions # {}
      BY <1>6 DEF ReadCurrent
    <2> QED
      BY <1>1, <2>1, AnswerOK DEF Statuses
  <1>7. CASE entries[r.id].kind = r.kind /\ matches /\ r.op = "delete"
    <2>1. calls' = [calls EXCEPT ![p].seen = current, ![p].step = "persist"]
      BY <1>7 DEF ReadCurrent
    <2> QED
      BY <1>3, <1>7, <2>1
  <1>8. CASE entries[r.id].kind = r.kind /\ matches /\ r.op # "delete"
    <2>1. \/ Answer(p, "rejected")
          \/ Answer(p, "mutability")
          \/ calls' = [calls EXCEPT ![p].seen = current, ![p].step = "after", ![p].status = "ok"]
          \/ /\ Immutable(current.doc, next)
             /\ calls' = [calls EXCEPT ![p].seen = current, ![p].step = "persist"]
      BY <1>8 DEF ReadCurrent
    <2> QED
      BY <1>2, <1>3, <1>4, <1>8, <2>1 DEF Statuses
  <1> QED
    BY <1>5, <1>6, <1>7, <1>8

LEMMA MismatchKeeps ==
    ASSUME ServiceInv, NEW p \in Callers, Mismatch(p)
    PROVE  ServiceInv'
  <1> DEFINE c == calls[p]
             r == c.req
             status == IF entries[r.id].kind # r.kind THEN "notFound"
                       ELSE IF r.versions = {} /\ r.op # "delete" THEN "changed"
                       ELSE "preconditionFailed"
  <1>1. c.step = "mismatch" /\ Answer(p, status) /\ UNCHANGED vars
    BY DEF Mismatch
  <1>2. CallOK(c, entries, inbound, used)
    BY DEF ServiceInv
  <1>3. /\ r \in Requests /\ c.id = r.id /\ r.op # "create" /\ Overtaken(c, entries)
        /\ r.op = "delete" /\ r.versions = {} => entries[r.id].kind = None
    BY <1>1, <1>2 DEF CallOK
  <1>4. r.kind # None
    BY <1>3, RequestType, NoneAssumption
  <1>5. status = "preconditionFailed" => r.versions # {}
    BY <1>3, <1>4
  <1>6. status = "changed" => r.versions = {}
    OBVIOUS
  <1>7. status \in Statuses
    BY DEF Statuses
  <1> HIDE DEF status
  <1> QED
    BY <1>1, <1>3, <1>5, <1>6, <1>7, AnswerOK

LEMMA AfterHookKeeps ==
    ASSUME ServiceInv, NEW p \in Callers, AfterHook(p)
    PROVE  ServiceInv'
  <1>1. PICK status \in {"ok", "hookFailed"} : Answer(p, status)
    BY DEF AfterHook
  <1>2. calls[p].step = "after" /\ UNCHANGED vars
    BY DEF AfterHook
  <1> QED
    BY <1>1, <1>2, AnswerOK DEF Statuses

-----------------------------------------------------------------------------
(***************************************************************************)
(* The steps that write.  The record a writer returns is the one it wrote; *)
(* everyone else's records are behind, or about resources it left alone.   *)
(***************************************************************************)
LEMMA WrittenKeeps ==
    ASSUME ServiceInv, StoreInv', Moves, NEW p \in Callers, NEW id \in Ids, held(id)',
           calls[p].req \in Requests, calls[p].req.op # "create" => id = calls[p].req.id,
           Mentioned(calls[p].req) \subseteq Known,
           NEW w, calls' = [calls EXCEPT ![p] = w],
           w = With(calls[p], "after", id, record(id, entries'[id], inbound'), "ok")
    PROVE  ServiceInv'
  <1> DEFINE c == calls[p]
  <1>1. c \in Call
    BY DEF ServiceInv
  <1>2. /\ w.step = "after" /\ w.req = c.req /\ w.id = id
        /\ w.seen = record(id, entries'[id], inbound') /\ w.status = "ok"
    BY WithFields
  <1>3. SeenOK(w, entries', inbound', used') /\ w.seen \in Record
    <2> DEFINE es == entries'
               in == inbound'
               us == used'
    <2>1. /\ id \in us /\ es[id] \in Entry /\ in[id] \in SUBSET (Ids \X References)
          /\ \A a \in Soft : es[id].soft[a] \subseteq us \cup Foreign
          /\ \A a \in References : es[id].links[a] \subseteq us \cup Foreign
      BY HeldFactsNext
    <2>2. w.seen = record(id, es[id], in)
      BY <1>2
    <2> HIDE DEF es, in, us
    <2>3. SeenOK(w, es, in, us) /\ w.seen \in Record
      BY <1>2, <2>1, <2>2, Fresh
    <2> QED
      BY <2>3 DEF es, in, us
  <1>4. w \in Call
    BY <1>1, <1>2, <1>3, WithFields DEF Steps, Statuses
  <1>5. Known \subseteq used' \cup Foreign
    BY DEF Moves, Known
  <1> HIDE DEF c
  <1>6. CallOK(w, entries', inbound', used')
    BY <1>2, <1>3, <1>5 DEF CallOK, c
  <1> QED
    BY <1>4, <1>6, OneCallMoves

LEMMA PersistCreateKeeps ==
    ASSUME ServiceInv, NEW p \in Callers, NEW at \in Readings, PersistCreate(p, at)
    PROVE  ServiceInv'
  <1> DEFINE c == calls[p]
             r == c.req
  <1>1. /\ c.step = "persist" /\ r.op = "create" /\ c \in Call
        /\ CallOK(c, entries, inbound, used) /\ StoreInv /\ TypeOK
    BY DEF PersistCreate, ServiceInv, StoreInv
  <1>2. r \in Requests /\ Mentioned(r) \subseteq Known
    BY <1>1 DEF CallOK, Known
  <1>3. r.body \in Storable
    <2>1. r.body \in WellFormed /\ Mentions(r.body) \subseteq Known
      BY <1>1, <1>2, RequestType DEF Mentioned
    <2> QED
      BY <2>1, DocumentsStorable DEF Documents
  <1>4. PICK id \in Ids \ Known :
             \/ /\ verify(id, r.body) # "ok"
                /\ Answer(p, verify(id, r.body))
                /\ UNCHANGED vars
             \/ /\ Create(id, r.body, at)
                /\ calls' = [calls EXCEPT
                     ![p].step = "after", ![p].status = "ok", ![p].id = id,
                     ![p].seen = record(id, saved(id, r.body, at), inbound')]
    BY DEF PersistCreate
  <1>5. CASE Answer(p, verify(id, r.body)) /\ UNCHANGED vars
    <2>1. verify(id, r.body) \in Statuses \ {"preconditionFailed", "changed"}
      BY DEF verify, Statuses
    <2> QED
      BY <1>1, <1>5, <2>1, AnswerOK
  <1>6. CASE /\ Create(id, r.body, at)
             /\ calls' = [calls EXCEPT
                     ![p].step = "after", ![p].status = "ok", ![p].id = id,
                     ![p].seen = record(id, saved(id, r.body, at), inbound')]
    <2> DEFINE e == saved(id, r.body, at)
               x == [c EXCEPT !.step = "after", !.status = "ok"]
               y == [x EXCEPT !.id = id]
               w == [y EXCEPT !.seen = record(id, entries'[id], inbound')]
    <2>1. SaveStep(id, r.body, at, at) /\ at \in Times /\ at \in Int
      BY <1>1, <1>3, <1>6, CreateIsSave, ServiceAssumption, TimeAssumption DEF Times
    <2>2. ~held(id)
      BY <1>1 DEF TypeOK, Known
    <2>3. StoreInv' /\ Moves
      BY <1>1, <2>1, <2>2, SaveMoves
    <2>4. entries'[id] = e /\ held(id)'
      <3>1. entries'[id] = e
        BY <1>1, <2>1, NotTouched
      <3>2. e.kind \in Kinds
        BY <1>3, SavedType
      <3> HIDE DEF e
      <3> QED
        BY <3>1, <3>2, NoneAssumption DEF held
    <2>5. calls' = [calls EXCEPT ![p] = w]
      <3> HIDE DEF e
      <3>1. calls' = [calls EXCEPT
                     ![p].step = "after", ![p].status = "ok", ![p].id = id,
                     ![p].seen = record(id, entries'[id], inbound')]
        BY <1>6, <2>4 DEF e
      <3> QED
        BY <3>1
    <2>6. w = With(c, "after", id, record(id, entries'[id], inbound'), "ok")
      <3> DEFINE seen == record(id, entries'[id], inbound')
      <3> HIDE DEF seen
      <3>1. x = With(c, "after", c.id, c.seen, "ok")
        <4> HIDE DEF c
        <4> QED
          BY <1>1, EditStatus, ZenonT(60)
      <3> HIDE DEF x
      <3>2. y = With(c, "after", id, c.seen, "ok")
        BY <3>1 DEF With
      <3> HIDE DEF y
      <3>3. [y EXCEPT !.seen = seen] = With(c, "after", id, seen, "ok")
        BY <3>2 DEF With
      <3> QED
        BY <3>3 DEF seen
    <2> HIDE DEF w
    <2> QED
      BY <1>1, <1>2, <2>3, <2>4, <2>5, <2>6, WrittenKeeps
  <1> QED
    BY <1>4, <1>5, <1>6

(***************************************************************************)
(* What a PUT, PATCH or DELETE knows when it gets to the store.            *)
(***************************************************************************)
LEMMA Persisting ==
    ASSUME ServiceInv, NEW p \in Callers, calls[p].step \in {"persist", "mismatch"},
           calls[p].req.op # "create"
    PROVE  LET c == calls[p]
               r == c.req
           IN  /\ c \in Call /\ StoreInv /\ TypeOK
               /\ r \in Requests /\ r.id \in Ids /\ r.kind \in Kinds /\ c.id = r.id
               /\ Mentioned(r) \subseteq Known
               /\ c.seen \in Record /\ c.seen.doc \in Storable /\ c.seen.doc.kind = r.kind
               /\ r.op \in {"replace", "patch", "delete"}
               /\ r.versions = {} \/ c.seen.version \in r.versions
               /\ r.op # "delete" =>
                    /\ Wanted(r, c.seen.doc) \in Storable /\ Wanted(r, c.seen.doc).kind = r.kind
                    /\ Immutable(c.seen.doc, Wanted(r, c.seen.doc))
               /\ entries[r.id].kind # None =>
                    /\ entries[r.id].kind = r.kind
                    /\ entries[r.id].updated >= c.seen.version
                    /\ entries[r.id].updated = c.seen.version
                         => c.seen = record(c.id, entries[c.id], inbound)
               /\ c.seen.version \in Int /\ entries[r.id].updated \in Int
  <1> DEFINE c == calls[p]
             r == c.req
  <1>1. c \in Call /\ StoreInv /\ TypeOK /\ CallOK(c, entries, inbound, used)
    BY DEF ServiceInv, StoreInv
  <1>2. r \in Requests /\ c.id = r.id /\ Mentioned(r) \subseteq Known
    BY <1>1 DEF CallOK, Known
  <1>3. r.id \in Ids /\ r.kind \in Kinds
    BY <1>2, RequestType
  <1>4. /\ SeenOK(c, entries, inbound, used) /\ c.seen.doc.kind = r.kind
        /\ r.op \in {"replace", "patch", "delete"}
        /\ r.versions = {} \/ c.seen.version \in r.versions
        /\ r.op # "delete" => Immutable(c.seen.doc, Wanted(r, c.seen.doc))
    BY <1>1 DEF CallOK
  <1> HIDE DEF c
  <1>5. c.seen \in Record /\ c.seen.doc \in Storable
    <2>1. c.seen \in Record /\ c.seen.doc \in Document
      BY <1>4 DEF SeenOK, Record
    <2> QED
      BY <1>4, <2>1 DEF SeenOK, Storable, Known
  <1>6. r.op # "delete" =>
          Wanted(r, c.seen.doc) \in Storable /\ Wanted(r, c.seen.doc).kind = r.kind
    BY <1>2, <1>4, <1>5, WantedStorable
  <1>7. /\ entries[r.id].kind # None =>
             /\ entries[r.id].kind = r.kind
             /\ entries[r.id].updated >= c.seen.version
             /\ entries[r.id].updated = c.seen.version
                  => c.seen = record(c.id, entries[c.id], inbound)
        /\ c.seen.version \in Int
    BY <1>2, <1>4, TimeAssumption DEF SeenOK, Record, Times
  <1>8. entries[r.id].updated \in Int
    BY <1>1, <1>3, EntryVersion DEF TypeOK
  <1> QED
    BY <1>1, <1>2, <1>3, <1>4, <1>5, <1>6, <1>7, <1>8 DEF c

LEMMA PersistUpdateKeeps ==
    ASSUME ServiceInv, NEW p \in Callers, NEW at \in Readings, PersistUpdate(p, at)
    PROVE  ServiceInv'
  <1> DEFINE c == calls[p]
             r == c.req
             doc == Wanted(r, c.seen.doc)
             updated == bumped(entries[r.id].updated, at)
  <1>1. c.step = "persist" /\ r.op \in {"replace", "patch"}
    BY DEF PersistUpdate
  <1>2. /\ c \in Call /\ StoreInv /\ TypeOK
        /\ r \in Requests /\ r.id \in Ids /\ r.kind \in Kinds /\ c.id = r.id
        /\ Mentioned(r) \subseteq Known
        /\ doc \in Storable /\ doc.kind = r.kind
        /\ entries[r.id].kind # None =>
             entries[r.id].kind = r.kind /\ entries[r.id].updated >= c.seen.version
        /\ c.seen.version \in Int /\ entries[r.id].updated \in Int
    BY <1>1, Persisting
  <1> HIDE DEF doc
  <1>3. CASE ~locate(r.id, r.kind, c.seen.version) /\ Goto(p, "mismatch") /\ UNCHANGED vars
    <2>1. Overtaken(c, entries)
      BY <1>2, <1>3 DEF locate, Overtaken
    <2> QED
      BY <1>1, <1>3, <2>1, GotoKeeps DEF Steps
  <1>4. CASE Answer(p, verify(r.id, doc)) /\ verify(r.id, doc) # "ok" /\ UNCHANGED vars
    <2>1. verify(r.id, doc) \in Statuses \ {"preconditionFailed", "changed"}
      BY DEF verify, Statuses
    <2> QED
      BY <1>1, <1>4, <2>1, AnswerOK
  <1>5. CASE /\ Update(r.id, doc, c.seen.version, at)
             /\ calls' = [calls EXCEPT
                   ![p].step = "after", ![p].status = "ok",
                   ![p].seen = record(r.id, saved(r.id, doc, updated), inbound')]
    <2> DEFINE x == [c EXCEPT !.step = "after", !.status = "ok"]
               seen == record(r.id, entries'[r.id], inbound')
               w == [x EXCEPT !.seen = seen]
    <2>1. SaveStep(r.id, doc, updated, at) /\ at \in Times /\ at \in Int
      BY <1>2, <1>5, UpdateIsSave, ServiceAssumption, TimeAssumption DEF Times
    <2>2. updated \in Int /\ updated > entries[r.id].updated
      BY <1>2, <2>1, BumpedForward
    <2> HIDE DEF updated
    <2>3. StoreInv' /\ Moves
      BY <1>2, <2>1, <2>2, SaveMoves
    <2>4. entries'[r.id] = saved(r.id, doc, updated)
      BY <1>2, <2>1, NotTouched
    <2>5. entries'[r.id].kind # None
      <3>1. saved(r.id, doc, updated).kind \in Kinds
        BY <1>2, SavedType
      <3> QED
        BY <2>4, <3>1, NoneAssumption
    <2>6. seen = record(r.id, saved(r.id, doc, updated), inbound')
      BY <2>4
    <2>7. seen = record(r.id, entries'[r.id], inbound')
      OBVIOUS
    <2> HIDE DEF seen
    <2>8. calls' = [calls EXCEPT ![p] = w]
      <3>1. calls' = [calls EXCEPT ![p].step = "after", ![p].status = "ok", ![p].seen = seen]
        BY <1>5, <2>6
      <3> QED
        BY <3>1
    <2>9. w = With(c, "after", r.id, record(r.id, entries'[r.id], inbound'), "ok")
      <3>1. x = With(c, "after", c.id, c.seen, "ok")
        <4> HIDE DEF c
        <4> QED
          BY <1>2, EditStatus
      <3> HIDE DEF x
      <3>2. w = With(c, "after", c.id, seen, "ok")
        BY <3>1 DEF With
      <3> HIDE DEF w
      <3> QED
        BY <1>2, <2>7, <3>2
    <2> HIDE DEF w
    <2> QED
      <3>0. PICK id \in Ids : id = r.id
        BY <1>2
      <3>1. held(id)'
        BY <2>5, <3>0 DEF held
      <3>2. w = With(c, "after", id, record(id, entries'[id], inbound'), "ok")
        BY <2>9, <3>0
      <3> QED
        BY <1>2, <2>3, <2>8, <3>0, <3>1, <3>2, WrittenKeeps
  <1> QED
    BY <1>3, <1>4, <1>5 DEF PersistUpdate, doc

LEMMA PersistDeleteKeeps ==
    ASSUME ServiceInv, NEW p \in Callers, NEW at \in Readings, PersistDelete(p, at)
    PROVE  ServiceInv'
  <1> DEFINE c == calls[p]
             r == c.req
             v == DeleteVersion(p)
  <1>1. c.step = "persist" /\ r.op = "delete"
    BY DEF PersistDelete
  <1>2. /\ c \in Call /\ StoreInv
        /\ r \in Requests /\ r.id \in Ids /\ r.kind \in Kinds /\ c.id = r.id
        /\ entries[r.id].kind # None =>
             entries[r.id].kind = r.kind /\ entries[r.id].updated >= c.seen.version
        /\ c.seen.version \in Int /\ entries[r.id].updated \in Int
    BY <1>1, Persisting
  <1>3. v = IF r.versions = {} THEN None ELSE c.seen.version
    BY DEF DeleteVersion
  <1> HIDE DEF v
  <1>4. CASE ~locate(r.id, r.kind, v) /\ Goto(p, "mismatch") /\ UNCHANGED vars
    <2>1. Overtaken(c, entries) /\ (r.versions = {} => entries[c.id].kind = None)
      BY <1>2, <1>3, <1>4 DEF locate, Overtaken
    <2> QED
      BY <1>1, <1>4, <2>1, GotoKeeps DEF Steps
  <1>5. CASE /\ Delete(r.id, r.kind, v, at)
             /\ calls' = [calls EXCEPT ![p].step = "after", ![p].status = "ok"]
    <2> DEFINE w == [c EXCEPT !.step = "after", !.status = "ok"]
    <2>1. StoreInv' /\ Moves
      BY <1>2, <1>5, DeleteMoves, ServiceAssumption
    <2>2. calls' = [calls EXCEPT ![p] = w]
      BY <1>5
    <2>3. w = With(c, "after", c.id, c.seen, "ok")
      <3> HIDE DEF c
      <3> QED
        BY <1>2, EditStatus
    <2> HIDE DEF w
    <2>4. /\ w.step = "after" /\ w.req = c.req /\ w.id = c.id /\ w.seen = c.seen
          /\ w.status = "ok" /\ w \in Call
      BY <1>2, <2>3, CallFields, WithFields DEF Steps, Statuses
    <2>5. CallOK(c, entries', inbound', used')
      <3>1. CallOK(c, entries, inbound, used) /\ c.seen \in Record \cup {None}
        BY <1>2, CallFields DEF ServiceInv
      <3> QED
        BY <1>2, <2>1, <3>1, CallStable
    <2>6. CallOK(w, entries', inbound', used')
      <3> HIDE DEF c
      <3>1. c.seen # None => SeenOK(w, entries', inbound', used')
        BY <2>4, <2>5 DEF CallOK, SeenOK
      <3> QED
        BY <1>1, <2>4, <2>5, <3>1 DEF CallOK
    <2> QED
      BY <2>1, <2>2, <2>4, <2>6, OneCallMoves
  <1> QED
    BY <1>4, <1>5 DEF PersistDelete, v

-----------------------------------------------------------------------------
(***************************************************************************)
(* Every step of every request keeps the invariant.                        *)
(***************************************************************************)
LEMMA ServiceInitInv == ServiceInit => ServiceInv
  <1> SUFFICES ASSUME ServiceInit
               PROVE  ServiceInv
    OBVIOUS
  <1>1. StoreInv
    BY InitInv DEF ServiceInit
  <1>2. Idle \in Call
    BY DEF Idle, Call, Steps
  <1>3. CallOK(Idle, entries, inbound, used)
    BY DEF CallOK, Idle
  <1> QED
    BY <1>1, <1>2, <1>3 DEF ServiceInit, ServiceInv

LEMMA ServiceNextInv == ServiceInv /\ [ServiceNext]_serviceVars => ServiceInv'
  <1> SUFFICES ASSUME ServiceInv, [ServiceNext]_serviceVars
               PROVE  ServiceInv'
    OBVIOUS
  <1>1. ASSUME NEW p \in Callers, Serve(p)
        PROVE  ServiceInv'
    <2>1. ASSUME NEW at \in Readings,
                 PersistCreate(p, at) \/ PersistUpdate(p, at) \/ PersistDelete(p, at)
          PROVE  ServiceInv'
      BY <2>1, PersistCreateKeeps, PersistUpdateKeeps, PersistDeleteKeeps
    <2> QED
      BY <1>1, <2>1, BeforeHookKeeps, AdmitCreateKeeps, GetKeeps, ReadCurrentKeeps,
         MismatchKeeps, AfterHookKeeps DEF Serve
  <1>2. ASSUME NEW p \in Callers, NEW r \in Requests, Begin(p, r)
        PROVE  ServiceInv'
    BY <1>2, BeginKeeps
  <1>3. CASE UNCHANGED serviceVars
    <2>1. UNCHANGED vars /\ calls' = calls
      BY <1>3 DEF serviceVars
    <2>2. StoreInv' /\ entries' = entries /\ inbound' = inbound /\ used' = used
      BY <2>1, StoreStays DEF ServiceInv
    <2> QED
      BY <2>1, <2>2 DEF ServiceInv
  <1> QED
    BY <1>1, <1>2, <1>3 DEF ServiceNext

(***************************************************************************)
(* Between any two steps of any requests the store's maps agree with each  *)
(* other, and every caller's record is of a resource that is gone, has     *)
(* moved on, or still shows exactly that record.                           *)
(***************************************************************************)
THEOREM ServiceSafety == ServiceSpec => []ServiceInv
  BY ServiceInitInv, ServiceNextInv, PTL DEF ServiceSpec

(***************************************************************************)
(* An entity tag stands for one representation for ever: while a resource  *)
(* has the version that some caller was given, it shows what that caller   *)
(* was given (memory.go record, entries.go touch).                         *)
(***************************************************************************)
THEOREM ServiceTags == ServiceSpec => []TagIdentifiesRepresentation
  <1>1. ServiceInv => TagIdentifiesRepresentation
    BY DEF ServiceInv, CallOK, SeenOK, TagIdentifiesRepresentation, held
  <1> QED
    BY <1>1, ServiceSafety, PTL

(***************************************************************************)
(* Conflict answers are true and fit the request (repository.go mismatch,  *)
(* service.go conflict).                                                   *)
(***************************************************************************)
THEOREM ServiceConflicts == ServiceSpec => []ConflictsAreReal
  <1>1. ServiceInv => ConflictsAreReal
    BY DEF ServiceInv, CallOK, Overtaken, ConflictsAreReal, held
  <1> QED
    BY <1>1, ServiceSafety, PTL

-----------------------------------------------------------------------------
(***************************************************************************)
(* Who can take a request from "persist" to "after": its own caller, by    *)
(* the store operation that succeeds.                                      *)
(***************************************************************************)
LEMMA OthersWait ==
    ASSUME ServiceInv, NEW q \in Callers, NEW p \in Callers, p # q,
           Serve(q) \/ \E r \in Requests : Begin(q, r)
    PROVE  calls'[p] = calls[p]
  <1>1. calls \in [Callers -> Call]
    BY DEF ServiceInv
  <1>2. ASSUME NEW step, Goto(q, step) PROVE calls'[p] = calls[p]
    BY <1>1, <1>2 DEF Goto
  <1>3. ASSUME NEW status, Answer(q, status) PROVE calls'[p] = calls[p]
    BY <1>1, <1>3 DEF Answer
  <1>4. ASSUME NEW r \in Requests, Begin(q, r) PROVE calls'[p] = calls[p]
    BY <1>1, <1>4 DEF Begin
  <1>5. CASE BeforeHook(q) \/ AdmitCreate(q) \/ Mismatch(q) \/ AfterHook(q)
    BY <1>2, <1>3, <1>5 DEF BeforeHook, AdmitCreate, Mismatch, AfterHook
  <1>6. CASE Get(q)
    BY <1>1, <1>3, <1>6 DEF Get
  <1>7. CASE ReadCurrent(q)
    BY <1>1, <1>3, <1>7 DEF ReadCurrent
  <1>8. ASSUME NEW at \in Readings, PersistCreate(q, at) PROVE calls'[p] = calls[p]
    BY <1>1, <1>3, <1>8 DEF PersistCreate
  <1>9. ASSUME NEW at \in Readings, PersistUpdate(q, at) PROVE calls'[p] = calls[p]
    BY <1>1, <1>2, <1>3, <1>9 DEF PersistUpdate
  <1>10. ASSUME NEW at \in Readings, PersistDelete(q, at) PROVE calls'[p] = calls[p]
    BY <1>1, <1>2, <1>10 DEF PersistDelete
  <1> QED
    BY <1>4, <1>5, <1>6, <1>7, <1>8, <1>9, <1>10 DEF Serve

LEMMA Moved ==
    ASSUME ServiceInv, NEW p \in Callers
    PROVE  /\ \A step : Goto(p, step) => calls'[p].step = step
           /\ \A status : Answer(p, status) => calls'[p].step = "done"
  <1>1. calls \in [Callers -> Call]
    BY DEF ServiceInv
  <1>2. ASSUME NEW step, Goto(p, step) PROVE calls'[p].step = step
    BY <1>1, <1>2, GotoIs, WithFields
  <1>3. ASSUME NEW status, Answer(p, status) PROVE calls'[p].step = "done"
    BY <1>1, <1>3, AnswerIs, WithFields
  <1> QED
    BY <1>2, <1>3

LEMMA PersistedBy ==
    ASSUME ServiceInv, [ServiceNext]_serviceVars, NEW p \in Callers,
           calls[p].step = "persist", calls'[p].step = "after"
    PROVE  LET c == calls[p]
               r == c.req
           IN  \E at \in Readings :
                 \/ r.op = "create" /\ PersistCreate(p, at)
                 \/ /\ r.op \in {"replace", "patch"}
                    /\ Update(r.id, Wanted(r, c.seen.doc), c.seen.version, at)
                 \/ r.op = "delete" /\ Delete(r.id, r.kind, DeleteVersion(p), at)
  <1> DEFINE c == calls[p]
             r == c.req
  <1>1. Serve(p) \/ \E s \in Requests : Begin(p, s)
    <2>1. ASSUME NEW q \in Callers, q # p, Serve(q) \/ \E s \in Requests : Begin(q, s)
          PROVE  FALSE
      BY <2>1, OthersWait
    <2>2. CASE UNCHANGED serviceVars
      BY <2>2 DEF serviceVars
    <2> QED
      BY <2>1, <2>2 DEF ServiceNext
  <1>2. PICK at \in Readings : PersistCreate(p, at) \/ PersistUpdate(p, at) \/ PersistDelete(p, at)
    BY <1>1 DEF Serve, Begin, BeforeHook, AdmitCreate, Get, ReadCurrent, Mismatch, AfterHook
  <1>3. /\ \A step : Goto(p, step) => step = "after"
        /\ \A status : ~Answer(p, status)
    BY Moved
  <1>4. CASE PersistCreate(p, at)
    BY <1>4 DEF PersistCreate
  <1>5. CASE PersistUpdate(p, at)
    BY <1>3, <1>5 DEF PersistUpdate
  <1>6. CASE PersistDelete(p, at)
    BY <1>3, <1>6 DEF PersistDelete
  <1> QED
    BY <1>2, <1>4, <1>5, <1>6

(***************************************************************************)
(* What a writer finds in the store when it succeeds.                      *)
(***************************************************************************)
LEMMA UpdateFinds ==
    ASSUME ServiceInv, NEW p \in Callers, calls[p].step = "persist",
           calls[p].req.op \in {"replace", "patch"}, NEW at,
           Update(calls[p].req.id, Wanted(calls[p].req, calls[p].seen.doc),
                  calls[p].seen.version, at)
    PROVE  calls[p].seen = record(calls[p].id, entries[calls[p].id], inbound)
  <1> DEFINE c == calls[p]
             r == c.req
  <1>1. /\ r.kind \in Kinds /\ Wanted(r, c.seen.doc).kind = r.kind
        /\ c.seen.version \in Int
        /\ entries[r.id].kind # None /\ entries[r.id].updated = c.seen.version
             => c.seen = record(c.id, entries[c.id], inbound)
    BY Persisting
  <1>2. locate(r.id, Wanted(r, c.seen.doc).kind, c.seen.version)
    BY DEF Update
  <1> QED
    BY <1>1, <1>2, NoneAssumption DEF locate

(***************************************************************************)
(* No lost update: what a PUT or PATCH replaces is exactly what it was     *)
(* computed from, although the lock was released in between (service.go    *)
(* write, repository.go Update).                                           *)
(***************************************************************************)
THEOREM ServiceNoLostUpdate == ServiceSpec => NoLostUpdate
  <1> DEFINE Kept == \A p \in Callers :
               calls[p].step = "persist" /\ calls[p].req.op \in {"replace", "patch"}
                 /\ calls'[p].step = "after"
               => calls[p].seen = record(calls[p].id, entries[calls[p].id], inbound)
  <1>1. ServiceInv /\ [ServiceNext]_serviceVars => [Kept]_serviceVars
    <2> SUFFICES ASSUME ServiceInv, [ServiceNext]_serviceVars, NEW p \in Callers,
                        calls[p].step = "persist", calls[p].req.op \in {"replace", "patch"},
                        calls'[p].step = "after"
                 PROVE  calls[p].seen = record(calls[p].id, entries[calls[p].id], inbound)
      OBVIOUS
    <2>1. PICK at \in Readings :
            Update(calls[p].req.id, Wanted(calls[p].req, calls[p].seen.doc),
                   calls[p].seen.version, at)
      BY PersistedBy
    <2> QED
      BY <2>1, UpdateFinds
  <1> QED
    BY <1>1, ServiceSafety, PTL DEF ServiceSpec, NoLostUpdate

(***************************************************************************)
(* If-Match is honoured at the write: what a conditional request           *)
(* overwrites or deletes has a version it named (repository.go Update and  *)
(* Delete, store.go locate).                                               *)
(***************************************************************************)
THEOREM ServiceIfMatch == ServiceSpec => IfMatchHonoured
  <1> DEFINE Kept == \A p \in Callers :
               calls[p].step = "persist" /\ calls'[p].step = "after" /\ calls[p].req.versions # {}
               => entries[calls[p].id].updated \in calls[p].req.versions
  <1>1. ServiceInv /\ [ServiceNext]_serviceVars => [Kept]_serviceVars
    <2> SUFFICES ASSUME ServiceInv, [ServiceNext]_serviceVars, NEW p \in Callers,
                        calls[p].step = "persist", calls'[p].step = "after",
                        calls[p].req.versions # {}
                 PROVE  entries[calls[p].id].updated \in calls[p].req.versions
      OBVIOUS
    <2> DEFINE c == calls[p]
               r == c.req
    <2>1. r.op # "create"
      <3>1. r \in Requests
        BY DEF ServiceInv, CallOK
      <3> QED
        BY <3>1, RequestType
    <2>2. /\ c.id = r.id /\ c.seen.version \in r.versions /\ c.seen.version \in Int
      BY <2>1, Persisting
    <2>3. PICK at \in Readings :
            \/ /\ r.op \in {"replace", "patch"}
               /\ Update(r.id, Wanted(r, c.seen.doc), c.seen.version, at)
            \/ r.op = "delete" /\ Delete(r.id, r.kind, DeleteVersion(p), at)
      BY <2>1, PersistedBy
    <2>4. entries[r.id].updated = c.seen.version
      BY <2>2, <2>3, NoneAssumption DEF Update, Delete, DeleteVersion, locate
    <2> QED
      BY <2>2, <2>4
  <1> QED
    BY <1>1, ServiceSafety, PTL DEF ServiceSpec, IfMatchHonoured

(***************************************************************************)
(* What a step of the service does to the store: nothing, or one of the    *)
(* three writes, by a caller at "persist".                                 *)
(***************************************************************************)
LEMMA ServiceWrites ==
    ASSUME ServiceInv, ServiceNext
    PROVE  \/ UNCHANGED vars
           \/ \E p \in Callers, at \in Readings :
                LET c == calls[p]
                    r == c.req
                IN  /\ c.step = "persist"
                    /\ \/ r.op = "create" /\ \E id \in Ids \ Known : Create(id, r.body, at)
                       \/ /\ r.op \in {"replace", "patch"}
                          /\ Update(r.id, Wanted(r, c.seen.doc), c.seen.version, at)
                       \/ r.op = "delete" /\ Delete(r.id, r.kind, DeleteVersion(p), at)
  <1>1. PICK p \in Callers : Serve(p) \/ \E r \in Requests : Begin(p, r)
    BY DEF ServiceNext
  <1>2. CASE \/ BeforeHook(p) \/ AdmitCreate(p) \/ Get(p) \/ ReadCurrent(p)
             \/ Mismatch(p) \/ AfterHook(p) \/ \E r \in Requests : Begin(p, r)
    BY <1>2 DEF BeforeHook, AdmitCreate, Get, ReadCurrent, Mismatch, AfterHook, Begin
  <1>3. ASSUME NEW at \in Readings, PersistCreate(p, at)
        PROVE  \/ UNCHANGED vars
               \/ /\ calls[p].step = "persist" /\ calls[p].req.op = "create"
                  /\ \E id \in Ids \ Known : Create(id, calls[p].req.body, at)
    BY <1>3 DEF PersistCreate
  <1>4. ASSUME NEW at \in Readings, PersistUpdate(p, at)
        PROVE  \/ UNCHANGED vars
               \/ /\ calls[p].step = "persist" /\ calls[p].req.op \in {"replace", "patch"}
                  /\ Update(calls[p].req.id, Wanted(calls[p].req, calls[p].seen.doc),
                            calls[p].seen.version, at)
    BY <1>4 DEF PersistUpdate
  <1>5. ASSUME NEW at \in Readings, PersistDelete(p, at)
        PROVE  \/ UNCHANGED vars
               \/ /\ calls[p].step = "persist" /\ calls[p].req.op = "delete"
                  /\ Delete(calls[p].req.id, calls[p].req.kind, DeleteVersion(p), at)
    BY <1>5 DEF PersistDelete
  <1> QED
    BY <1>1, <1>2, <1>3, <1>4, <1>5 DEF Serve

LEMMA CreateBody ==
    ASSUME ServiceInv, NEW p \in Callers, calls[p].step = "persist", calls[p].req.op = "create"
    PROVE  calls[p].req \in Requests /\ calls[p].req.body \in Storable
  <1> DEFINE r == calls[p].req
  <1>1. r \in Requests /\ Mentioned(r) \subseteq Known
    BY DEF ServiceInv, CallOK, Known
  <1>2. r.body \in WellFormed /\ Mentions(r.body) \subseteq Known
    BY <1>1, RequestType DEF Mentioned
  <1> QED
    BY <1>1, <1>2, DocumentsStorable DEF Documents

(***************************************************************************)
(* An immutable value, once assigned, never changes while its resource     *)
(* lives, although it was checked against an earlier read                  *)
(* (characteristics.go immutable).                                         *)
(***************************************************************************)
THEOREM ServiceImmutable == ServiceSpec => ImmutableKept
  <1> DEFINE Kept == \A i \in Ids : Survives(i) /\ entries[i].data # None
                                      => entries'[i].data = entries[i].data
  <1>1. ServiceInv /\ [ServiceNext]_serviceVars => [Kept]_vars
    <2> SUFFICES ASSUME ServiceInv, ServiceNext, NEW i \in Ids, Survives(i),
                        entries[i].data # None, ~UNCHANGED vars
                 PROVE  entries'[i].data = entries[i].data
      BY DEF serviceVars
    <2>1. PICK p \in Callers, at \in Readings :
            /\ calls[p].step = "persist"
            /\ \/ calls[p].req.op = "create"
                    /\ \E id \in Ids \ Known : Create(id, calls[p].req.body, at)
               \/ /\ calls[p].req.op \in {"replace", "patch"}
                  /\ Update(calls[p].req.id, Wanted(calls[p].req, calls[p].seen.doc),
                            calls[p].seen.version, at)
               \/ /\ calls[p].req.op = "delete"
                  /\ Delete(calls[p].req.id, calls[p].req.kind, DeleteVersion(p), at)
      BY ServiceWrites
    <2> DEFINE c == calls[p]
               r == c.req
               doc == Wanted(r, c.seen.doc)
    <2>2. StoreInv /\ TypeOK
      BY DEF ServiceInv, StoreInv
    <2>3. ASSUME NEW id \in Ids \ Known, r.op = "create", Create(id, r.body, at)
          PROVE  entries'[i].data = entries[i].data
      <3>1. r.body \in Storable
        BY <2>1, <2>3, CreateBody
      <3>2. SaveStep(id, r.body, at, at)
        BY <2>2, <2>3, <3>1, CreateIsSave
      <3>3. i # id
        BY <2>2 DEF Survives, TypeOK, Known
      <3> QED
        BY <2>2, <3>2, <3>3, SaveEffect
    <2>4. CASE r.op \in {"replace", "patch"} /\ Update(r.id, doc, c.seen.version, at)
      <3>1. r.id \in Ids /\ c.id = r.id /\ doc \in Storable /\ Immutable(c.seen.doc, doc)
        BY <2>1, <2>4, Persisting
      <3>2. SaveStep(r.id, doc, bumped(entries[r.id].updated, at), at)
        BY <2>2, <2>4, <3>1, UpdateIsSave
      <3>3. c.seen = record(c.id, entries[c.id], inbound)
        BY <2>1, <2>4, UpdateFinds
      <3>4. c.seen.doc.data = entries[r.id].data
        <4>1. record(c.id, entries[c.id], inbound).doc.data = entries[c.id].data
          BY DEF record, Into
        <4> QED
          BY <3>1, <3>3, <4>1
      <3>5. CASE i = r.id
        <4>1. entries'[i].data = doc.data
          BY <2>2, <3>2, <3>5, SaveEffect
        <4> QED
          BY <3>1, <3>4, <3>5, <4>1 DEF Immutable
      <3>6. CASE i # r.id
        BY <2>2, <3>2, <3>6, SaveEffect
      <3> QED
        BY <3>5, <3>6
    <2>5. CASE r.op = "delete" /\ Delete(r.id, r.kind, DeleteVersion(p), at)
      <3>1. r.id \in Ids /\ r.kind \in Kinds
        BY <2>1, <2>5, Persisting
      <3>2. entries'[r.id] = NoEntry /\ \A j \in Ids \ {r.id} : entries'[j].data = entries[j].data
        BY <2>2, <2>5, <3>1, DeleteEffect
      <3> QED
        BY <3>2, NoEntryIsNot DEF Survives, held
    <2> QED
      BY <2>1, <2>3, <2>4, <2>5
  <1> QED
    BY <1>1, ServiceSafety, PTL DEF ServiceSpec, ImmutableKept

-----------------------------------------------------------------------------
(***************************************************************************)
(* The refinement.  The service implements the atomic specification, for   *)
(* any number of callers, resources and requests.  The store decides with  *)
(* indexes, counts and the links a write adds; the atomic specification    *)
(* decides with nothing but the resources that would result.  The lemmas   *)
(* show that the two agree in every state the service can be in.           *)
(***************************************************************************)

(***************************************************************************)
(* Both specifications read documents and requests in the same way.        *)
(***************************************************************************)
LEMMA SameReading ==
    /\ Atomic!NoEntry = NoEntry
    /\ Atomic!Hard = Hard
    /\ \A e : Atomic!Into(e) = Into(e)
    /\ \A doc : Atomic!keep(doc) = keep(doc)
    /\ \A r, doc : Atomic!Wanted(r, doc) = Wanted(r, doc)
    /\ \A doc, next : Atomic!Immutable(doc, next) <=> Immutable(doc, next)
  <1>1. Atomic!NoEntry = NoEntry /\ Atomic!Hard = Hard
    BY DEF Atomic!NoEntry, NoEntry, Atomic!Hard, Hard
  <1>2. \A e : Atomic!Into(e) = Into(e)
    BY DEF Atomic!Into, Into
  <1>3. \A doc : Atomic!keep(doc) = keep(doc)
    BY DEF Atomic!keep, keep
  <1>4. \A r, doc : Atomic!Wanted(r, doc) = Wanted(r, doc)
    <2>1. \A doc, body : Atomic!Replaced(doc, body) = Replaced(doc, body)
      BY Zenon DEF Atomic!Replaced, Replaced
    <2>2. \A doc, change : Atomic!Patched(doc, change) = Patched(doc, change)
      BY Zenon DEF Atomic!Patched, Patched
    <2> QED
      BY <2>1, <2>2 DEF Atomic!Wanted, Wanted
  <1>5. \A doc, next : Atomic!Immutable(doc, next) <=> Immutable(doc, next)
    BY DEF Atomic!Immutable, Immutable
  <1> QED
    BY <1>1, <1>2, <1>3, <1>4, <1>5

-----------------------------------------------------------------------------
(***************************************************************************)
(* What is derived from inbound links is what the links say.               *)
(***************************************************************************)
LEMMA DerivedIsInbound ==
    ASSUME StoreInv, NEW i \in Ids
    PROVE  Atomic!Derived(entries, i) = inbound[i]
  <1>1. inbound[i] \subseteq Ids \X References
    BY DEF StoreInv, TypeOK
  <1>2. \A s \in Ids, a \in References : <<s, a>> \in inbound[i] <=> i \in entries[s].links[a]
    BY DEF StoreInv, InboundExact
  <1>3. ASSUME NEW edge \in Ids \X References
        PROVE  edge \in inbound[i] <=> i \in entries[edge[1]].links[edge[2]]
    BY <1>2
  <1> QED
    BY <1>1, <1>3 DEF Atomic!Derived

LEMMA DerivedIsInboundNext ==
    ASSUME StoreInv', NEW i \in Ids
    PROVE  Atomic!Derived(entries', i) = inbound'[i]
  <1>1. inbound'[i] \subseteq Ids \X References
    BY DEF StoreInv, TypeOK
  <1>2. \A s \in Ids, a \in References : <<s, a>> \in inbound'[i] <=> i \in entries'[s].links[a]
    BY DEF StoreInv, InboundExact
  <1>3. ASSUME NEW edge \in Ids \X References
        PROVE  edge \in inbound'[i] <=> i \in entries'[edge[1]].links[edge[2]]
    BY <1>2
  <1> QED
    BY <1>1, <1>3 DEF Atomic!Derived

LEMMA ShownIsRecord ==
    ASSUME StoreInv, NEW i \in Ids
    PROVE  Atomic!Shown(entries, i) = record(i, entries[i], inbound)
  BY DerivedIsInbound, SameReading DEF Atomic!Shown, record

LEMMA ShownIsRecordNext ==
    ASSUME StoreInv', NEW i \in Ids
    PROVE  Atomic!Shown(entries', i) = record(i, entries'[i], inbound')
  BY DerivedIsInboundNext, SameReading DEF Atomic!Shown, record

-----------------------------------------------------------------------------
(***************************************************************************)
(* The checks of the store against the resources that would result.        *)
(***************************************************************************)
LEMMA ConflictIsClash ==
    ASSUME StoreInv, NEW id \in Ids, NEW doc \in Storable
    PROVE  conflict(id, doc.kind, doc.keys) <=> Atomic!Clashes(id, doc)
  <1>1. doc.kind \in Kinds /\ doc.keys \in SUBSET Names
    BY DocumentType
  <1>2. \A n \in Names : unique[<<doc.kind, n>>] \in Ids \cup {None}
    BY <1>1 DEF StoreInv, TypeOK
  <1>3. \A n \in Names, j \in Ids :
          unique[<<doc.kind, n>>] = j <=> entries[j].kind = doc.kind /\ n \in entries[j].keys
    BY <1>1 DEF StoreInv, UniqueIndexExact
  <1>4. ASSUME conflict(id, doc.kind, doc.keys)
        PROVE  Atomic!Clashes(id, doc)
    <2>1. PICK n \in doc.keys : unique[<<doc.kind, n>>] \notin {None, id}
      BY <1>4 DEF conflict
    <2>2. PICK j \in Ids \ {id} : unique[<<doc.kind, n>>] = j
      BY <1>1, <1>2, <2>1
    <2>3. entries[j].kind = doc.kind /\ n \in entries[j].keys
      BY <1>1, <1>3, <2>2
    <2> QED
      BY <2>3 DEF Atomic!Clashes
  <1>5. ASSUME Atomic!Clashes(id, doc)
        PROVE  conflict(id, doc.kind, doc.keys)
    <2>1. PICK j \in Ids \ {id} : entries[j].kind = doc.kind /\ entries[j].keys \cap doc.keys # {}
      BY <1>5 DEF Atomic!Clashes
    <2>2. PICK n \in doc.keys : n \in entries[j].keys
      BY <2>1
    <2>3. unique[<<doc.kind, n>>] = j
      BY <1>1, <1>3, <2>1, <2>2
    <2>4. j # None
      BY NoneAssumption
    <2> QED
      BY <2>3, <2>4 DEF conflict
  <1> QED
    BY <1>4, <1>5
LEMMA TargetsAre ==
    ASSUME NEW id \in Ids, NEW doc \in Storable
    PROVE  /\ Atomic!Targets(id, doc) = resolved(extractLinks(id, doc))
           /\ Atomic!Targets(id, doc) \in [References -> SUBSET Ids]
           /\ \A a \in Soft : Atomic!Targets(id, doc)[a] = {t \in doc.refs[a] \ {id} : held(t)}
           /\ \A a \in Hard : Atomic!Targets(id, doc)[a] = doc.refs[a]
  <1>1. doc.refs \in [References -> SUBSET Ids] /\ Soft \subseteq References
    BY DocumentType, SchemaAssumption
  <1>2. Atomic!Targets(id, doc) = resolved(extractLinks(id, doc))
    BY <1>1 DEF Atomic!Targets, Atomic!present, resolved, extractLinks, softTargets, held
  <1>3. /\ Atomic!Targets(id, doc) \in [References -> SUBSET Ids]
        /\ \A a \in Soft : Atomic!Targets(id, doc)[a] = {t \in doc.refs[a] \ {id} : held(t)}
        /\ \A a \in Hard : Atomic!Targets(id, doc)[a] = doc.refs[a]
    BY <1>1 DEF Atomic!Targets, Atomic!present, held, Hard
  <1> QED
    BY <1>2, <1>3

\* The graph of one attribute's links once the document is stored.
GraphWith(id, doc, a) ==
    [i \in Ids |-> IF i = id THEN Atomic!Targets(id, doc)[a] ELSE entries[i].links[a]]

LEMMA CircularIsCycle ==
    ASSUME StoreInv, NEW id \in Ids, NEW doc \in Storable
    PROVE  /\ \A a \in References : GraphWith(id, doc, a) \in [Ids -> SUBSET Ids]
           /\ Atomic!Circular(id, doc) <=> \E a \in Hard : ~NoCycle(GraphWith(id, doc, a))
  <1> DEFINE links == [[i \in Ids |-> entries[i].links] EXCEPT ![id] = Atomic!Targets(id, doc)]
             G(a) == GraphWith(id, doc, a)
  <1>1. \A i \in Ids : entries[i].links \in [References -> SUBSET Ids]
    BY EntryLinks DEF StoreInv, TypeOK
  <1>2. \A a \in References : G(a) \in [Ids -> SUBSET Ids]
    BY <1>1, TargetsAre DEF GraphWith
  <1>3. \A i \in Ids, a \in References : links[i][a] = G(a)[i]
    BY DEF GraphWith
  <1>4. Atomic!Circular(id, doc) <=>
          \E a \in Hard, i \in Ids : \E t \in links[i][a] : Atomic!Leads(links, a, t, i)
    BY SameReading DEF Atomic!Circular
  <1> HIDE DEF links, G
  <1>5. ASSUME NEW a \in Hard, NEW i \in Ids, NEW t \in Ids
        PROVE  Atomic!Leads(links, a, t, i) <=> i \in Reach(G(a), t)
    <2>1. \A S \in SUBSET Ids : (\A j \in S : links[j][a] \subseteq S) <=> ClosedIn(G(a), S)
      BY <1>3 DEF ClosedIn, Hard
    <2> QED
      BY <2>1 DEF Atomic!Leads, Reach
  <1>6. \A a \in Hard, i \in Ids : links[i][a] = G(a)[i] /\ G(a)[i] \subseteq Ids
    BY <1>2, <1>3 DEF Hard
  <1>7. Atomic!Circular(id, doc) <=> \E a \in Hard : ~NoCycle(G(a))
    BY <1>4, <1>5, <1>6 DEF NoCycle
  <1> QED
    BY <1>2, <1>7 DEF G

(***************************************************************************)
(* checkTargets and checkAcyclic look at the links a write adds, against   *)
(* the stored links; that is the same as looking at the whole graph that   *)
(* would result.                                                           *)
(***************************************************************************)
LEMMA LinksCheckedIsValid ==
    ASSUME StoreInv, NEW id \in Ids, NEW doc \in Storable
    PROVE  checkLinks(id, entries[id].links, extractLinks(id, doc)) <=> ~Atomic!Invalid(id, doc)
  <1> DEFINE before == entries[id].links
             wanted == extractLinks(id, doc)
             targets == Atomic!Targets(id, doc)
  <1>1. /\ doc.refs \in [References -> SUBSET Ids] /\ Soft \subseteq References
        /\ before \in [References -> SUBSET Ids]
    BY DocumentType, SchemaAssumption, EntryLinks DEF StoreInv, TypeOK
  <1>2. /\ wanted \in [References -> SUBSET Ids]
        /\ \A a \in References : targets[a] = {t \in wanted[a] : a \in Soft => held(t)}
        /\ \A a \in Hard : targets[a] = wanted[a]
    <2>1. /\ wanted \in [References -> SUBSET Ids]
          /\ \A a \in Soft : wanted[a] = doc.refs[a] \ {id}
          /\ \A a \in Hard : wanted[a] = doc.refs[a]
      BY <1>1 DEF extractLinks, softTargets, Hard
    <2>2. /\ \A a \in Soft : targets[a] = {t \in doc.refs[a] \ {id} : held(t)}
          /\ \A a \in Hard : targets[a] = doc.refs[a]
      BY TargetsAre
    <2> HIDE DEF wanted, targets
    <2>3. ASSUME NEW a \in References
          PROVE  targets[a] = {t \in wanted[a] : a \in Soft => held(t)}
      BY <2>1, <2>2 DEF Hard
    <2> QED
      BY <2>1, <2>2, <2>3
  <1>3. \A a \in References : \A t \in before[a] : held(t) /\ entries[t].kind \in Types[a]
    BY DEF StoreInv, LinksHeld
  <1>4. \A a \in Hard : /\ Graph(a) \in [Ids -> SUBSET Ids] /\ NoCycle(Graph(a))
                        /\ GraphWith(id, doc, a) \in [Ids -> SUBSET Ids]
    <2>1. entries \in [Ids -> Entry \cup {NoEntry}]
      BY DEF StoreInv, TypeOK
    <2> QED
      BY <2>1, GraphType, AcyclicIsNoCycle, CircularIsCycle DEF StoreInv, Hard
  <1>5. \A a \in Hard : /\ Graph(a)[id] = before[a] /\ GraphWith(id, doc, a)[id] = wanted[a]
                        /\ \A i \in Ids \ {id} : GraphWith(id, doc, a)[i] = Graph(a)[i]
    BY <1>2 DEF Graph, GraphWith
  <1>6. \A a \in Hard, t \in Ids : reaches(t, id, a) <=> id \in Reach(Graph(a), t)
    BY ReachesIsReach DEF Hard
  <1>7. Atomic!Dangling(id, doc) <=>
          \E a \in References : \E t \in targets[a] : ~(held(t) /\ entries[t].kind \in Types[a])
    BY DEF Atomic!Dangling, Atomic!present, held
  <1>8. Atomic!Invalid(id, doc) <=>
          Atomic!Dangling(id, doc) \/ \E a \in Hard : ~NoCycle(GraphWith(id, doc, a))
    BY CircularIsCycle DEF Atomic!Invalid
  <1> HIDE DEF before, wanted, targets
  <1>9. checkLinks(id, before, wanted) <=>
          \A a \in References : /\ checkTargets(a, wanted[a] \ before[a])
                                /\ a \in Hard => checkAcyclic(id, a, wanted[a] \ before[a])
    BY DEF checkLinks, Hard
  <1>10. ASSUME checkLinks(id, before, wanted)
         PROVE  ~Atomic!Invalid(id, doc)
    <2>1. ASSUME NEW a \in References, NEW t \in targets[a]
          PROVE  held(t) /\ entries[t].kind \in Types[a]
      <3>1. t \in wanted[a] /\ (a \in Soft => held(t))
        BY <1>2, <2>1
      <3>2. CASE t \in before[a]
        BY <1>3, <3>2
      <3>3. CASE t \notin before[a]
        BY <1>9, <1>10, <3>1, <3>3 DEF checkTargets
      <3> QED
        BY <3>2, <3>3
    <2>2. ASSUME NEW a \in Hard
          PROVE  NoCycle(GraphWith(id, doc, a))
      <3>1. \A t \in wanted[a] \ before[a] : t \in Ids /\ ~reaches(t, id, a)
        BY <1>2, <1>9, <1>10 DEF checkAcyclic, Hard
      <3>2. \A t \in GraphWith(id, doc, a)[id] \ Graph(a)[id] : id \notin Reach(Graph(a), t)
        BY <1>5, <1>6, <3>1
      <3> QED
        BY <1>4, <1>5, <3>2, RewireNoCycle
    <2> QED
      BY <1>7, <1>8, <2>1, <2>2
  <1>11. ASSUME ~checkLinks(id, before, wanted)
         PROVE  Atomic!Invalid(id, doc)
    <2>1. PICK a \in References :
            \/ ~checkTargets(a, wanted[a] \ before[a])
            \/ a \in Hard /\ ~checkAcyclic(id, a, wanted[a] \ before[a])
      BY <1>9, <1>11
    <2>2. CASE ~checkTargets(a, wanted[a] \ before[a])
      <3>1. PICK t \in wanted[a] : ~(IF held(t) THEN entries[t].kind \in Types[a] ELSE a \in Soft)
        BY <2>2 DEF checkTargets
      <3>2. t \in targets[a] /\ ~(held(t) /\ entries[t].kind \in Types[a])
        BY <1>2, <3>1
      <3> QED
        BY <1>7, <1>8, <3>2
    <2>3. CASE a \in Hard /\ ~checkAcyclic(id, a, wanted[a] \ before[a])
      <3> DEFINE H == GraphWith(id, doc, a)
      <3>1. PICK t \in wanted[a] : reaches(t, id, a)
        BY <2>3 DEF checkAcyclic
      <3>2. t \in Ids /\ id \in Reach(Graph(a), t) /\ t \in H[id]
        BY <1>2, <1>5, <1>6, <2>3, <3>1
      <3>3. \A i \in Ids \ {id} : H[i] = Graph(a)[i]
        BY <1>5, <2>3
      <3> HIDE DEF H
      <3>4. ASSUME NEW S \in SUBSET Ids, t \in S, ClosedIn(H, S), id \notin S
            PROVE  FALSE
        <4>1. ClosedIn(Graph(a), S)
          BY <3>3, <3>4 DEF ClosedIn
        <4> QED
          BY <3>2, <3>4, <4>1 DEF Reach
      <3>5. id \in Reach(H, t)
        BY <3>4 DEF Reach
      <3>6. ~NoCycle(H)
        BY <3>2, <3>5 DEF NoCycle
      <3> QED
        BY <1>8, <2>3, <3>6 DEF H
    <2> QED
      BY <2>1, <2>2, <2>3
  <1> QED
    BY <1>10, <1>11 DEF before, wanted

LEMMA VerifyDecides ==
    ASSUME StoreInv, NEW id \in Ids, NEW doc \in Storable
    PROVE  /\ verify(id, doc) = "ok" => ~Atomic!Clashes(id, doc) /\ ~Atomic!Invalid(id, doc)
           /\ verify(id, doc) = "invalidValue" => Atomic!Invalid(id, doc)
           /\ verify(id, doc) = "uniqueness" => Atomic!Clashes(id, doc)
           /\ verify(id, doc) \in {"ok", "invalidValue", "uniqueness"}
  BY ConflictIsClash, LinksCheckedIsValid DEF verify

-----------------------------------------------------------------------------
(***************************************************************************)
(* The effects of the store against the effects the specification asks     *)
(* for: the maps change as they should, and a version moves exactly when   *)
(* something its resource shows has changed.                               *)
(***************************************************************************)
Whole(e) ==
    e = [kind |-> e.kind, keys |-> e.keys, soft |-> e.soft, data |-> e.data,
         links |-> e.links, updated |-> e.updated]

LEMMA EntryWhole ==
    ASSUME NEW e \in Entry \cup {NoEntry}
    PROVE  Whole(e)
  BY DEF Entry, NoEntry, Whole

LEMMA SameButVersion ==
    ASSUME NEW e, NEW f, Whole(e), Whole(f), e.kind = f.kind, e.keys = f.keys, e.soft = f.soft,
           e.data = f.data, e.links = f.links
    PROVE  [e EXCEPT !.updated = 0] = [f EXCEPT !.updated = 0]
  <1>1. [e EXCEPT !.updated = 0] =
          [kind |-> e.kind, keys |-> e.keys, soft |-> e.soft, data |-> e.data,
           links |-> e.links, updated |-> 0]
    BY DEF Whole
  <1>2. [f EXCEPT !.updated = 0] =
          [kind |-> f.kind, keys |-> f.keys, soft |-> f.soft, data |-> f.data,
           links |-> f.links, updated |-> 0]
    BY DEF Whole
  <1> QED
    BY <1>1, <1>2

LEMMA SaveIsWritten ==
    ASSUME StoreInv, NEW id, NEW doc, NEW updated, NEW at \in Times,
           SaveStep(id, doc, updated, at), updated \in Int,
           held(id) => updated > entries[id].updated
    PROVE  Atomic!Written(id, doc)
  <1> DEFINE before == entries[id].links
             wanted == extractLinks(id, doc)
             next == saved(id, doc, updated)
             n(i) == changedTargets(i, before, wanted)
  <1>1. /\ id \in Ids /\ doc \in Storable /\ TypeOK /\ StoreInv' /\ at \in Int
        /\ entries \in [Ids -> Entry \cup {NoEntry}]
    BY SaveKeepsInv, TimeAssumption DEF SaveStep, StoreInv, TypeOK, Times
  <1>2. /\ entries' \in [Ids -> Entry \cup {NoEntry}]
        /\ \A i \in Ids \ {id} : /\ entries'[i].kind = entries[i].kind
                                 /\ entries'[i].keys = entries[i].keys
                                 /\ entries'[i].soft = entries[i].soft
                                 /\ entries'[i].data = entries[i].data
                                 /\ entries'[i].links = entries[i].links
        /\ entries'[id].links = next.links
    BY <1>1, SaveEffect
  <1>3. entries'[id] = next /\ next.updated = updated
    BY <1>1, NotTouched, SavedType
  <1>4. Atomic!SameButVersion(id, [kind |-> doc.kind, keys |-> doc.keys, soft |-> Atomic!keep(doc),
                       data |-> doc.data, links |-> Atomic!Targets(id, doc), updated |-> 0])
    <2> DEFINE e == [kind |-> doc.kind, keys |-> doc.keys, soft |-> Atomic!keep(doc),
                     data |-> doc.data, links |-> Atomic!Targets(id, doc), updated |-> 0]
    <2>1. next = [kind |-> doc.kind, keys |-> doc.keys, soft |-> keep(doc), data |-> doc.data,
                  links |-> resolved(extractLinks(id, doc)), updated |-> updated]
      BY DEF saved
    <2>2. Atomic!keep(doc) = keep(doc) /\ Atomic!Targets(id, doc) = resolved(extractLinks(id, doc))
      BY <1>1, SameReading, TargetsAre
    <2> HIDE DEF next
    <2>3. /\ Whole(next) /\ Whole(e) /\ next.kind = e.kind /\ next.keys = e.keys
          /\ next.soft = e.soft /\ next.data = e.data /\ next.links = e.links
      BY <2>1, <2>2 DEF Whole
    <2> HIDE DEF e
    <2>4. [next EXCEPT !.updated = 0] = [e EXCEPT !.updated = 0]
      BY <2>3, SameButVersion
    <2>5. [entries'[id] EXCEPT !.updated = 0] = [e EXCEPT !.updated = 0]
      BY <1>3, <2>4
    <2> QED
      BY <2>5, Zenon DEF Atomic!SameButVersion, e
  <1>5. Atomic!present(id) => entries'[id].updated > entries[id].updated
    BY <1>3 DEF Atomic!present, held
  <1>6. ASSUME NEW i \in Ids \ {id}
        PROVE  Atomic!SameButVersion(i, entries[i])
    <2>1. Whole(entries'[i]) /\ Whole(entries[i])
      BY <1>1, <1>2, EntryWhole
    <2>2. [entries'[i] EXCEPT !.updated = 0] = [entries[i] EXCEPT !.updated = 0]
      BY <1>2, <2>1, SameButVersion
    <2> QED
      BY <2>2, Zenon DEF Atomic!SameButVersion
  <1>7. ASSUME NEW i \in Ids \ {id}, held(i)
        PROVE  /\ Into(entries'[i]) = Into(entries[i])
               /\ Atomic!Derived(entries', i) = Atomic!Derived(entries, i) => n(i) = 0
               /\ n(i) # 0 => entries'[i].updated > entries[i].updated
               /\ n(i) = 0 => /\ entries'[i].updated = entries[i].updated
                              /\ Atomic!Derived(entries', i) = Atomic!Derived(entries, i)
    <2> DEFINE stored == [entries EXCEPT ![id] = next]
               changes == {a \in References : (i \in before[a]) # (i \in wanted[a])}
    <2>1. Into(entries'[i]) = Into(entries[i])
      BY <1>2 DEF Into
    <2>2. n(i) \in Nat /\ (n(i) = 0 <=> changes = {})
      BY Counting DEF changedTargets
    <2>3. entries[i] \in Entry /\ entries[i].updated \in Int /\ Whole(entries[i])
      BY <1>1, <1>7, NoEntryIsNot, EntryVersion, EntryWhole DEF held
    <2>4. entries'[i].updated = touched(entries[i].updated, n(i), at)
      <3>1. entries' = [j \in Ids |-> IF stored[j].kind = None THEN stored[j]
                                      ELSE [stored[j] EXCEPT !.updated = touched(@, n(j), at)]]
        BY DEF SaveStep, save, commit
      <3>2. stored[i] = entries[i] /\ stored[i].kind # None
        BY <1>1, <1>7 DEF held
      <3> HIDE DEF stored, n
      <3>3. entries'[i] = [entries[i] EXCEPT !.updated = touched(@, n(i), at)]
        BY <3>1, <3>2
      <3> QED
        BY <2>3, <3>3 DEF Whole
    <2>5. \A a \in References : i \in next.links[a] <=> i \in wanted[a]
      BY <1>7, SchemaAssumption DEF saved, resolved
    <2> HIDE DEF next, n, wanted
    <2>6. /\ \A a \in References : <<id, a>> \in Atomic!Derived(entries', i) <=> i \in wanted[a]
          /\ \A a \in References : <<id, a>> \in Atomic!Derived(entries, i) <=> i \in before[a]
      BY <1>1, <1>2, <2>5 DEF Atomic!Derived
    <2>7. ASSUME changes = {}
          PROVE  Atomic!Derived(entries', i) = Atomic!Derived(entries, i)
      <3>1. \A a \in References : i \in before[a] <=> i \in wanted[a]
        BY <2>7
      <3>2. ASSUME NEW edge \in Ids \X References
            PROVE  i \in entries'[edge[1]].links[edge[2]] <=> i \in entries[edge[1]].links[edge[2]]
        <4>1. CASE edge[1] = id
          BY <1>2, <2>5, <3>1, <4>1
        <4>2. CASE edge[1] # id
          BY <1>2, <4>2
        <4> QED
          BY <4>1, <4>2
      <3> QED
        BY <3>2 DEF Atomic!Derived
    <2>8. ASSUME changes # {}
          PROVE  Atomic!Derived(entries', i) # Atomic!Derived(entries, i)
      <3>1. PICK a \in References : ~(i \in before[a] <=> i \in wanted[a])
        BY <2>8
      <3> QED
        BY <2>6, <3>1
    <2>9. n(i) # 0 => entries'[i].updated > entries[i].updated
      BY <1>1, <2>2, <2>3, <2>4 DEF touched, bumped
    <2>10. n(i) = 0 => entries'[i].updated = entries[i].updated
      BY <2>4 DEF touched
    <2> QED
      BY <2>1, <2>2, <2>7, <2>8, <2>9, <2>10
  <1>8. Atomic!VersionsFollow({id})
    <2> HIDE DEF n
    <2> QED
      BY <1>7, SameReading DEF Atomic!VersionsFollow, Atomic!present, held
  <1> QED
    BY <1>4, <1>5, <1>6, <1>8 DEF Atomic!Written

LEMMA DeleteIsErased ==
    ASSUME StoreInv, NEW id \in Ids, NEW kind \in Kinds, NEW version, NEW at \in Times,
           Delete(id, kind, version, at)
    PROVE  Atomic!Erased(id)
  <1>1. /\ entries \in [Ids -> Entry \cup {NoEntry}] /\ at \in Int /\ StoreInv'
        /\ entries' \in [Ids -> Entry \cup {NoEntry}]
        /\ entries'[id] = NoEntry
        /\ \A i \in Ids \ {id} :
             /\ entries'[i].kind = entries[i].kind
             /\ entries'[i].keys = entries[i].keys
             /\ entries'[i].data = entries[i].data
             /\ \A a \in References : entries'[i].links[a] = entries[i].links[a] \ {id}
             /\ \A a \in Soft : entries'[i].soft[a] = entries[i].soft[a] \ {id}
    BY DeleteEffect, DeleteKeepsInv, TimeAssumption DEF StoreInv, TypeOK, Times
  <1>2. ASSUME NEW i \in Ids \ {id}
        PROVE  /\ Whole(entries[i]) /\ Whole(entries'[i])
               /\ entries'[i].links = [a \in References |-> entries[i].links[a] \ {id}]
               /\ entries'[i].soft = [a \in Soft |-> entries[i].soft[a] \ {id}]
    <2>1. Whole(entries[i]) /\ Whole(entries'[i])
      BY <1>1, EntryWhole
    <2>2. entries'[i] \in Entry \cup {NoEntry}
      BY <1>1
    <2>3. /\ entries'[i].links = [a \in References |-> entries'[i].links[a]]
          /\ entries'[i].soft = [a \in Soft |-> entries'[i].soft[a]]
      BY <2>2 DEF Entry, NoEntry
    <2> QED
      BY <1>1, <2>1, <2>3
  <1>3. ASSUME NEW i \in Ids \ {id}
        PROVE  Atomic!SameButVersion(i, [entries[i] EXCEPT
                 !.links = [a \in References |-> @[a] \ {id}],
                 !.soft = [a \in Soft |-> @[a] \ {id}]])
    <2> DEFINE links == [a \in References |-> entries[i].links[a] \ {id}]
               soft == [a \in Soft |-> entries[i].soft[a] \ {id}]
               e == [entries[i] EXCEPT !.links = links, !.soft = soft]
    <2>1. /\ entries'[i].links = links /\ entries'[i].soft = soft
          /\ Whole(entries[i]) /\ Whole(entries'[i])
      BY <1>2
    <2>2. /\ entries'[i].kind = entries[i].kind /\ entries'[i].keys = entries[i].keys
          /\ entries'[i].data = entries[i].data
      BY <1>1
    <2>3. e = [entries[i] EXCEPT !.links = [a \in References |-> @[a] \ {id}],
                                 !.soft = [a \in Soft |-> @[a] \ {id}]]
      <3> DEFINE x == [entries[i] EXCEPT !.links = links]
      <3>1. x.soft = entries[i].soft
        <4> HIDE DEF links
        <4> QED
          BY <2>1 DEF Whole
      <3>2. [x EXCEPT !.soft = soft] = [x EXCEPT !.soft = [a \in Soft |-> @[a] \ {id}]]
        <4> HIDE DEF x
        <4> QED
          BY <3>1
      <3> QED
        BY <3>2, Zenon
    <2>4. /\ Whole(e) /\ e.kind = entries[i].kind /\ e.keys = entries[i].keys /\ e.soft = soft
          /\ e.data = entries[i].data /\ e.links = links
      <3> DEFINE d == entries[i]
      <3>1. e = [d EXCEPT !.links = links, !.soft = soft]
        OBVIOUS
      <3>2. d = [kind |-> d.kind, keys |-> d.keys, soft |-> d.soft, data |-> d.data,
                 links |-> d.links, updated |-> d.updated]
        BY <2>1 DEF Whole
      <3> HIDE DEF links, soft, e, d
      <3>3. e = [kind |-> d.kind, keys |-> d.keys, soft |-> soft, data |-> d.data,
                 links |-> links, updated |-> d.updated]
        BY <3>1, <3>2
      <3> QED
        BY <3>3 DEF Whole, d
    <2> HIDE DEF links, soft, e
    <2>5. [entries'[i] EXCEPT !.updated = 0] = [e EXCEPT !.updated = 0]
      BY <2>1, <2>2, <2>4, SameButVersion
    <2> QED
      BY <2>3, <2>5, Zenon DEF Atomic!SameButVersion
  <1>4. ASSUME NEW i \in Ids \ {id}, held(i)
        PROVE  IF /\ Into(entries'[i]) = Into(entries[i])
                  /\ Atomic!Derived(entries', i) = Atomic!Derived(entries, i)
               THEN entries'[i].updated = entries[i].updated
               ELSE entries'[i].updated > entries[i].updated
    <2> DEFINE out == {a \in References : <<i, a>> \in inbound[id]}
               in == {a \in References : i \in entries[id].links[a]}
               n == detached(i, id) + allTargets(i, entries[id].links)
    <2>1. n \in Nat /\ (n = 0 <=> (out = {} /\ in = {}))
      <3>1. Cardinality(out) \in Nat /\ (Cardinality(out) = 0 <=> out = {})
        BY Counting
      <3>2. Cardinality(in) \in Nat /\ (Cardinality(in) = 0 <=> in = {})
        BY Counting
      <3> QED
        BY <3>1, <3>2 DEF detached, allTargets
    <2>2. entries[i].updated \in Int /\ entries'[i].updated \in Int
      BY <1>1, EntryVersion
    <2>3. entries'[i].updated = touched(entries[i].updated, n, at)
      <3> DEFINE u == unlink(i, id)
      <3>1. entries'[i] = [u EXCEPT !.updated = touched(@, n, at)]
        BY <1>4 DEF Delete
      <3>2. u.updated = entries[i].updated /\ Whole(u)
        <4> DEFINE links == [a \in References |-> IF a \in out THEN entries[i].links[a] \ {id}
                                                  ELSE entries[i].links[a]]
                   soft == [a \in Soft |-> IF a \in out THEN {} ELSE entries[i].soft[a]]
        <4>1. u = [entries[i] EXCEPT !.links = links, !.soft = soft]
          BY DEF unlink
        <4>2. Whole(entries[i])
          BY <1>2
        <4> DEFINE d == entries[i]
        <4>3. d = [kind |-> d.kind, keys |-> d.keys, soft |-> d.soft, data |-> d.data,
                   links |-> d.links, updated |-> d.updated]
          BY <4>2 DEF Whole
        <4>4. u = [d EXCEPT !.links = links, !.soft = soft]
          BY <4>1
        <4> HIDE DEF links, soft, u, d
        <4>5. u = [kind |-> d.kind, keys |-> d.keys, soft |-> soft, data |-> d.data,
                   links |-> links, updated |-> d.updated]
          BY <4>3, <4>4
        <4> QED
          BY <4>5 DEF Whole, d
      <3> HIDE DEF u, n
      <3> QED
        BY <3>1, <3>2 DEF Whole
    <2>4. CASE n = 0
      <3>1. out = {} /\ in = {}
        BY <2>1, <2>4
      <3>2. \A a \in References : id \notin entries[i].links[a]
        BY <3>1 DEF StoreInv, InboundExact
      <3>3. \A a \in Soft : entries[i].links[a] = {t \in entries[i].soft[a] : held(t)} \ {i}
        BY DEF StoreInv, PointersResolved
      <3>4. held(id)
        BY DeleteEffect
      <3>5. entries'[i].updated = entries[i].updated
        <4> HIDE DEF n
        <4> QED
          BY <2>3, <2>4 DEF touched
      <3>6. /\ \A a \in References : entries'[i].links[a] = entries[i].links[a]
            /\ \A a \in Soft : entries'[i].soft[a] = entries[i].soft[a]
        <4>1. \A a \in References : entries'[i].links[a] = entries[i].links[a] \ {id}
          BY <1>1
        <4>2. \A a \in Soft : entries'[i].soft[a] = entries[i].soft[a] \ {id}
          BY <1>1
        <4>3. ASSUME NEW a \in Soft
              PROVE  id \notin entries[i].soft[a]
          BY <3>2, <3>3, <3>4, SchemaAssumption
        <4>4. \A a \in References : entries[i].links[a] \ {id} = entries[i].links[a]
          BY <3>2
        <4>5. \A a \in Soft : entries[i].soft[a] \ {id} = entries[i].soft[a]
          BY <4>3
        <4> QED
          BY <4>1, <4>2, <4>4, <4>5
      <3>7. Into(entries'[i]) = Into(entries[i])
        BY <1>1, <3>6 DEF Into
      <3>8. ASSUME NEW edge \in Ids \X References
            PROVE  i \in entries'[edge[1]].links[edge[2]] <=> i \in entries[edge[1]].links[edge[2]]
        <4>1. CASE edge[1] = id
          BY <1>1, <3>1, <4>1 DEF NoEntry
        <4>2. CASE edge[1] # id
          BY <1>1, <4>2
        <4> QED
          BY <4>1, <4>2
      <3>9. Atomic!Derived(entries', i) = Atomic!Derived(entries, i)
        BY <3>8 DEF Atomic!Derived
      <3> QED
        BY <3>5, <3>7, <3>9
    <2>5. CASE n # 0
      <3>1. entries'[i].updated > entries[i].updated
        <4> HIDE DEF n
        <4> QED
          BY <1>1, <2>1, <2>2, <2>3, <2>5 DEF touched, bumped
      <3>2. ~(/\ Into(entries'[i]) = Into(entries[i])
              /\ Atomic!Derived(entries', i) = Atomic!Derived(entries, i))
        <4>1. ASSUME NEW a \in in
              PROVE  Atomic!Derived(entries', i) # Atomic!Derived(entries, i)
          <5>1. <<id, a>> \in Atomic!Derived(entries, i)
            BY DEF Atomic!Derived
          <5>2. <<id, a>> \notin Atomic!Derived(entries', i)
            BY <1>1 DEF Atomic!Derived, NoEntry
          <5> QED
            BY <5>1, <5>2
        <4>2. ASSUME NEW a \in out
              PROVE  Into(entries'[i]) # Into(entries[i])
          <5>1. id \in entries[i].links[a]
            BY DEF StoreInv, InboundExact
          <5>2. a \in Soft => id \in entries[i].soft[a]
            BY <5>1 DEF StoreInv, PointersResolved
          <5>3. id \in Into(entries[i]).refs[a]
            BY <5>1, <5>2 DEF Into
          <5>4. id \notin Into(entries'[i]).refs[a]
            BY <1>1 DEF Into
          <5> QED
            BY <5>3, <5>4
        <4> QED
          BY <2>1, <2>5, <4>1, <4>2
      <3> QED
        BY <3>1, <3>2
    <2> QED
      BY <2>4, <2>5
  <1>5. Atomic!VersionsFollow({id})
    BY <1>4, SameReading DEF Atomic!VersionsFollow, Atomic!present, held
  <1> QED
    BY <1>1, <1>3, <1>5, SameReading DEF Atomic!Erased

-----------------------------------------------------------------------------
(***************************************************************************)
(* The refinement mapping, one caller at a time.                           *)
(***************************************************************************)
Mapped(c) ==
    [phase |-> Phase(c.step), req |-> c.req, status |-> c.status, result |-> Result(c)]

Pending == [p \in Callers |-> Mapped(calls[p])]

LEMMA Phases ==
    /\ Phase("idle") = "idle" /\ Phase("before") = "pending" /\ Phase("read") = "pending"
    /\ Phase("persist") = "pending" /\ Phase("mismatch") = "pending"
    /\ Phase("after") = "performed" /\ Phase("done") = "answered"
  BY DEF Phase

LEMMA ResolveIs ==
    ASSUME calls \in [Callers -> Call], NEW p \in Callers, NEW w, calls' = [calls EXCEPT ![p] = w],
           NEW phase, NEW status, NEW result,
           Mapped(w) = [phase |-> phase, req |-> calls[p].req, status |-> status, result |-> result]
    PROVE  Atomic!Resolve(p, phase, status, result)
  <1> DEFINE c == Mapped(calls[p])
             x == [c EXCEPT !.phase = phase]
             y == [x EXCEPT !.status = status]
             z == [y EXCEPT !.result = result]
  <1>1. c = [phase |-> c.phase, req |-> calls[p].req, status |-> c.status, result |-> c.result]
    BY DEF Mapped
  <1> HIDE DEF c
  <1>2. x = [phase |-> phase, req |-> calls[p].req, status |-> c.status, result |-> c.result]
    BY <1>1
  <1> HIDE DEF x
  <1>3. y = [phase |-> phase, req |-> calls[p].req, status |-> status, result |-> c.result]
    BY <1>2
  <1> HIDE DEF y
  <1>4. z = Mapped(w)
    BY <1>3
  <1>5. Pending' = [Pending EXCEPT ![p] = Mapped(w)]
    BY DEF Pending
  <1>6. [Pending EXCEPT ![p].phase = phase, ![p].status = status, ![p].result = result]
          = [Pending EXCEPT ![p] = z]
    <2>1. Pending = [q \in Callers |-> Mapped(calls[q])] /\ Pending[p] = c
      BY DEF Pending, c
    <2>2. [Pending EXCEPT ![p].phase = phase, ![p].status = status, ![p].result = result]
            = [Pending EXCEPT ![p] = [c EXCEPT !.phase = phase, !.status = status,
                                               !.result = result]]
      BY <2>1
    <2>3. z = [c EXCEPT !.phase = phase, !.status = status, !.result = result]
      BY Zenon DEF x, y
    <2> QED
      BY <2>2, <2>3, Zenon
  <1>7. Pending' = [Pending EXCEPT ![p].phase = phase, ![p].status = status, ![p].result = result]
    BY <1>4, <1>5, <1>6, Zenon
  <1> QED
    BY <1>7, Zenon DEF Atomic!Resolve, Pending, Mapped

(***************************************************************************)
(* A caller that moves on within a request, seen through the mapping.      *)
(***************************************************************************)
LEMMA ResolveWith ==
    ASSUME calls \in [Callers -> Call], NEW p \in Callers, NEW step, NEW id, NEW seen, NEW status,
           calls' = [calls EXCEPT ![p] = With(calls[p], step, id, seen, status)],
           NEW phase, phase = Phase(step), NEW result,
           result = IF status = "ok" /\ calls[p].req.op # "delete" THEN seen ELSE None
    PROVE  Atomic!Resolve(p, phase, status, result)
  <1>0. PICK w : w = With(calls[p], step, id, seen, status)
    OBVIOUS
  <1>1. w.step = step /\ w.req = calls[p].req /\ w.seen = seen /\ w.status = status
    BY <1>0, WithFields
  <1>2. Result(w) = result
    BY <1>1 DEF Result
  <1>3. Mapped(w) = [phase |-> phase, req |-> calls[p].req, status |-> status, result |-> result]
    BY <1>1, <1>2 DEF Mapped
  <1>4. calls' = [calls EXCEPT ![p] = w]
    BY <1>0
  <1> QED
    BY <1>3, <1>4, ResolveIs

LEMMA Stutters ==
    ASSUME calls \in [Callers -> Call], NEW p \in Callers, NEW w, calls' = [calls EXCEPT ![p] = w],
           Mapped(w) = Mapped(calls[p]), UNCHANGED vars
    PROVE  UNCHANGED Atomic!atomicVars
  <1>1. entries' = entries /\ used' = used
    BY DEF vars
  <1>2. \A q \in Callers : Mapped(calls'[q]) = Mapped(calls[q])
    OBVIOUS
  <1>3. Pending' = Pending
    BY <1>2 DEF Pending
  <1> QED
    BY <1>1, <1>3, Zenon DEF Atomic!atomicVars, Pending, Mapped

LEMMA GotoStutters ==
    ASSUME calls \in [Callers -> Call], NEW p \in Callers, NEW step, Goto(p, step),
           UNCHANGED vars, Phase(step) = Phase(calls[p].step)
    PROVE  UNCHANGED Atomic!atomicVars
  <1> DEFINE c == calls[p]
             w == With(c, step, c.id, c.seen, c.status)
  <1>1. calls' = [calls EXCEPT ![p] = w]
    BY GotoIs
  <1>2. w.step = step /\ w.req = c.req /\ w.seen = c.seen /\ w.status = c.status
    BY WithFields
  <1> HIDE DEF w
  <1>3. Mapped(w) = Mapped(c)
    BY <1>2 DEF Mapped, Result
  <1> QED
    BY <1>1, <1>3, Stutters

(***************************************************************************)
(* When a refusal is true of the resources.                                *)
(***************************************************************************)
Matching(r) ==
    entries[r.id].kind = r.kind /\ (r.versions = {} \/ entries[r.id].updated \in r.versions)

Asked(r) == Wanted(r, Into(entries[r.id]))

Holds(r, status) ==
    \/ status = "notFound" /\ r.op # "create" /\ entries[r.id].kind # r.kind
    \/ status = "preconditionFailed" /\ r.op \notin {"create", "get"} /\ r.versions # {}
    \/ status = "changed" /\ r.op \in {"replace", "patch"} /\ r.versions = {}
    \/ /\ status = "mutability" /\ r.op \in {"replace", "patch"} /\ Matching(r)
       /\ ~Immutable(Into(entries[r.id]), Asked(r))
    \/ /\ status \in {"uniqueness", "invalidValue"}
       /\ \/ /\ r.op = "create"
             /\ \E id \in Ids \ Known :
                  IF status = "uniqueness" THEN Atomic!Clashes(id, r.body)
                  ELSE Atomic!Invalid(id, r.body)
          \/ /\ r.op \in {"replace", "patch"} /\ Matching(r)
             /\ IF status = "uniqueness" THEN Atomic!Clashes(r.id, Asked(r))
                ELSE Atomic!Invalid(r.id, Asked(r))
    \/ status = "rejected" /\ r.op \in {"create", "replace", "patch"}
    \/ status = "hookFailed" /\ r.op # "get"

LEMMA RefuseIs ==
    ASSUME calls \in [Callers -> Call], NEW p \in Callers, NEW status, Answer(p, status),
           UNCHANGED vars, Phase(calls[p].step) = "pending", Holds(calls[p].req, status)
    PROVE  \E s \in Atomic!Refusals : Atomic!Refuse(p, s)
  <1> DEFINE r == calls[p].req
  <1>1. status \in Atomic!Refusals /\ status # "ok"
    BY DEF Holds, Atomic!Refusals
  <1>2. Atomic!Resolve(p, "answered", status, None)
    <2>1. PICK id, seen : id = calls[p].id /\ seen = calls[p].seen
      OBVIOUS
    <2>2. calls' = [calls EXCEPT ![p] = With(calls[p], "done", id, seen, status)]
      BY <2>1, AnswerIs
    <2> QED
      BY <1>1, <2>2, Phases, ResolveWith
  <1>3. entries' = entries /\ used' = used
    BY DEF vars
  <1>4. Atomic!Matches(r) <=> Matching(r)
    BY DEF Atomic!Matches, Atomic!Addressed, Matching
  <1>5. Atomic!Attempts(r) = IF r.op = "create" THEN {<<i, r.body>> : i \in Ids \ Known}
                             ELSE {<<r.id, Asked(r)>>}
    BY SameReading DEF Atomic!Attempts, Known, Asked
  <1>6. Pending[p].phase = "pending" /\ Pending[p].req = r
    BY DEF Pending, Mapped
  <1> HIDE DEF r
  <1>7. CASE status \in {"notFound", "preconditionFailed", "changed", "rejected", "hookFailed"}
    BY <1>1, <1>2, <1>3, <1>6, <1>7 DEF Atomic!Refuse, Atomic!Addressed, Holds, Pending, Mapped, r
  <1>8. CASE status = "mutability"
    <2>1. \E w \in Atomic!Attempts(r) : ~Atomic!Immutable(Atomic!Into(entries[r.id]), w[2])
      <3>1. PICK w : w = <<r.id, Asked(r)>>
        OBVIOUS
      <3>2. w \in Atomic!Attempts(r) /\ w[2] = Asked(r)
        BY <1>5, <1>8, <3>1 DEF Holds, r
      <3>3. ~Immutable(Into(entries[r.id]), w[2])
        BY <1>8, <3>2 DEF Holds, r
      <3>4. ~Atomic!Immutable(Atomic!Into(entries[r.id]), w[2])
        BY <3>3, SameReading
      <3> QED
        BY <3>2, <3>4
    <2>2. r.op \in {"replace", "patch"} /\ Atomic!Matches(r)
      BY <1>4, <1>8 DEF Holds, r
    <2> QED
      BY <1>1, <1>2, <1>3, <1>6, <1>8, <2>1, <2>2 DEF Atomic!Refuse, Pending, Mapped, r
  <1>9. CASE status \in {"uniqueness", "invalidValue"}
    <2>1. PICK w \in Atomic!Attempts(r) :
            IF status = "uniqueness" THEN Atomic!Clashes(w[1], w[2]) ELSE Atomic!Invalid(w[1], w[2])
      <3>1. CASE r.op = "create"
        <4>1. PICK id \in Ids \ Known :
                IF status = "uniqueness" THEN Atomic!Clashes(id, r.body)
                ELSE Atomic!Invalid(id, r.body)
          BY <1>9, <3>1 DEF Holds, r
        <4>2. PICK w : w = <<id, r.body>>
          OBVIOUS
        <4>3. w \in Atomic!Attempts(r) /\ w[1] = id /\ w[2] = r.body
          BY <1>5, <3>1, <4>2
        <4>4. IF status = "uniqueness" THEN Atomic!Clashes(w[1], w[2])
              ELSE Atomic!Invalid(w[1], w[2])
          BY <4>1, <4>3
        <4> QED
          BY <4>3, <4>4
      <3>2. CASE r.op # "create"
        <4>1. IF status = "uniqueness" THEN Atomic!Clashes(r.id, Asked(r))
              ELSE Atomic!Invalid(r.id, Asked(r))
          BY <1>9, <3>2 DEF Holds, r
        <4>2. PICK w : w = <<r.id, Asked(r)>>
          OBVIOUS
        <4>3. w \in Atomic!Attempts(r) /\ w[1] = r.id /\ w[2] = Asked(r)
          BY <1>5, <3>2, <4>2
        <4>4. IF status = "uniqueness" THEN Atomic!Clashes(w[1], w[2])
              ELSE Atomic!Invalid(w[1], w[2])
          BY <4>1, <4>3
        <4> QED
          BY <4>3, <4>4
      <3> QED
        BY <3>1, <3>2
    <2>2. r.op \in {"create", "replace", "patch"} /\ (r.op = "create" \/ Atomic!Matches(r))
      BY <1>4, <1>9 DEF Holds, r
    <2> QED
      BY <1>1, <1>2, <1>3, <1>6, <1>9, <2>1, <2>2 DEF Atomic!Refuse, Pending, Mapped, r
  <1> QED
    BY <1>7, <1>8, <1>9 DEF Holds

-----------------------------------------------------------------------------
(***************************************************************************)
(* Each step of the service is a step of the atomic specification, or is   *)
(* invisible there.                                                        *)
(***************************************************************************)
AtomicStep == Atomic!AtomicNext \/ UNCHANGED Atomic!atomicVars

LEMMA AtomicStepIs ==
    ASSUME NEW p \in Callers,
           \/ \E r \in Requests : Atomic!Invoke(p, r)
           \/ Atomic!Observe(p) \/ Atomic!Install(p) \/ Atomic!Rewrite(p)
           \/ Atomic!Leave(p) \/ Atomic!Erase(p)
           \/ \E status \in Atomic!Refusals : Atomic!Refuse(p, status)
           \/ Atomic!Reply(p)
           \/ UNCHANGED Atomic!atomicVars
    PROVE  AtomicStep
  BY DEF AtomicStep, Atomic!AtomicNext

LEMMA BeginRefines ==
    ASSUME ServiceInv, NEW p \in Callers, NEW r \in Requests, Begin(p, r)
    PROVE  AtomicStep
  <1> DEFINE step == IF r.op = "get" THEN "read" ELSE "before"
             idle == Atomic!NoCall
             v == [phase |-> "pending", req |-> r, status |-> None, result |-> None]
  <1>1. calls \in [Callers -> Call] /\ calls[p].step \in {"idle", "done"}
        /\ entries' = entries /\ used' = used
    BY DEF ServiceInv, Begin, vars
  <1>2. PICK w : /\ calls' = [calls EXCEPT ![p] = w]
                 /\ w = [Idle EXCEPT !.step = step, !.req = r, !.id = r.id]
    BY DEF Begin
  <1>3. w.step = step /\ w.req = r /\ w.status = None
    BY <1>2 DEF Idle
  <1>4. Phase(step) = "pending" /\ Phase(calls[p].step) \in {"idle", "answered"}
    BY <1>1, Phases
  <1>5. None # "ok"
    BY ServiceAssumption DEF Statuses
  <1>6. Mapped(w) = v
    BY <1>3, <1>4, <1>5 DEF Mapped, Result
  <1>7. [idle EXCEPT !.phase = "pending", !.req = r] = v
    <2> DEFINE x == [idle EXCEPT !.phase = "pending"]
    <2>1. x = [phase |-> "pending", req |-> None, status |-> None, result |-> None]
      BY DEF Atomic!NoCall
    <2> HIDE DEF x
    <2>2. [x EXCEPT !.req = r] = v
      BY <2>1
    <2> QED
      BY <2>2, Zenon DEF x
  <1> HIDE DEF v, idle
  <1>8. Pending' = [Pending EXCEPT ![p] = v]
    BY <1>1, <1>2, <1>6 DEF Pending
  <1>9. Pending[p].phase \in {"idle", "answered"}
    BY <1>4 DEF Pending, Mapped
  <1>10. Atomic!Invoke(p, r)
    BY <1>1, <1>7, <1>8, <1>9, Zenon DEF Atomic!Invoke, Pending, Mapped, idle
  <1> QED
    BY <1>10, AtomicStepIs

LEMMA BeforeHookRefines ==
    ASSUME ServiceInv, NEW p \in Callers, BeforeHook(p)
    PROVE  AtomicStep
  <1>1. /\ calls \in [Callers -> Call] /\ calls[p].step = "before" /\ UNCHANGED vars
        /\ calls[p].req.op # "get"
    BY DEF ServiceInv, BeforeHook, CallOK
  <1>2. CASE Goto(p, "read")
    BY <1>1, <1>2, Phases, GotoStutters, AtomicStepIs
  <1>3. CASE Answer(p, "hookFailed")
    <2>1. Holds(calls[p].req, "hookFailed")
      BY <1>1 DEF Holds
    <2> QED
      BY <1>1, <1>3, <2>1, Phases, RefuseIs, AtomicStepIs
  <1> QED
    BY <1>2, <1>3 DEF BeforeHook

LEMMA AdmitCreateRefines ==
    ASSUME ServiceInv, NEW p \in Callers, AdmitCreate(p)
    PROVE  AtomicStep
  <1>1. /\ calls \in [Callers -> Call] /\ calls[p].step = "read" /\ UNCHANGED vars
        /\ calls[p].req.op = "create"
    BY DEF ServiceInv, AdmitCreate
  <1>2. CASE Goto(p, "persist")
    BY <1>1, <1>2, Phases, GotoStutters, AtomicStepIs
  <1>3. CASE Answer(p, "rejected")
    <2>1. Holds(calls[p].req, "rejected")
      BY <1>1 DEF Holds
    <2> QED
      BY <1>1, <1>3, <2>1, Phases, RefuseIs, AtomicStepIs
  <1> QED
    BY <1>2, <1>3 DEF AdmitCreate

LEMMA MismatchRefines ==
    ASSUME ServiceInv, NEW p \in Callers, Mismatch(p)
    PROVE  AtomicStep
  <1> DEFINE r == calls[p].req
  <1>1. PICK status :
          /\ status = IF entries[r.id].kind # r.kind THEN "notFound"
                      ELSE IF r.versions = {} /\ r.op # "delete" THEN "changed"
                      ELSE "preconditionFailed"
          /\ Answer(p, status)
    BY DEF Mismatch
  <1>2. calls \in [Callers -> Call] /\ calls[p].step = "mismatch" /\ UNCHANGED vars
    BY DEF ServiceInv, Mismatch
  <1>3. CallOK(calls[p], entries, inbound, used)
    BY DEF ServiceInv
  <1>4. /\ r \in Requests /\ calls[p].id = r.id /\ r.op \in {"replace", "patch", "delete"}
        /\ r.op = "delete" /\ r.versions = {} => entries[r.id].kind = None
    BY <1>2, <1>3 DEF CallOK
  <1>5. r.kind # None
    BY <1>4, RequestType, NoneAssumption
  <1>6. Holds(r, status)
    BY <1>1, <1>4, <1>5 DEF Holds
  <1> QED
    BY <1>1, <1>2, <1>6, Phases, RefuseIs, AtomicStepIs

LEMMA AfterHookRefines ==
    ASSUME ServiceInv, NEW p \in Callers, AfterHook(p)
    PROVE  AtomicStep
  <1> DEFINE c == calls[p]
  <1>1. /\ calls \in [Callers -> Call] /\ c.step = "after" /\ c.status = "ok"
        /\ entries' = entries /\ used' = used
    BY DEF ServiceInv, AfterHook, CallOK, vars
  <1>2. PICK id, seen, result : id = c.id /\ seen = c.seen /\ result = Result(c)
    OBVIOUS
  <1>3. Pending[p].phase = "performed" /\ Pending[p].result = result
    BY <1>1, <1>2, Phases DEF Pending, Mapped
  <1>4. CASE Answer(p, "ok")
    <2>1. calls' = [calls EXCEPT ![p] = With(calls[p], "done", id, seen, "ok")]
      BY <1>1, <1>2, <1>4, AnswerIs
    <2>2. result = IF "ok" = "ok" /\ calls[p].req.op # "delete" THEN seen ELSE None
      BY <1>1, <1>2 DEF Result
    <2>3. Atomic!Resolve(p, "answered", "ok", result)
      BY <1>1, <2>1, <2>2, Phases, ResolveWith
    <2>4. Atomic!Reply(p)
      BY <1>1, <1>3, <2>3 DEF Atomic!Reply, Atomic!Resolve, Pending, Mapped
    <2> QED
      BY <2>4, AtomicStepIs
  <1>5. CASE Answer(p, "hookFailed")
    <2>1. calls' = [calls EXCEPT ![p] = With(calls[p], "done", id, seen, "hookFailed")]
      BY <1>1, <1>2, <1>5, AnswerIs
    <2>2. None = IF "hookFailed" = "ok" /\ calls[p].req.op # "delete" THEN seen ELSE None
      OBVIOUS
    <2>3. Atomic!Resolve(p, "answered", "hookFailed", None)
      BY <1>1, <2>1, <2>2, Phases, ResolveWith
    <2>4. Atomic!Reply(p)
      BY <1>1, <1>3, <2>3 DEF Atomic!Reply, Pending, Mapped
    <2> QED
      BY <2>4, AtomicStepIs
  <1> QED
    BY <1>4, <1>5 DEF AfterHook

LEMMA GetRefines ==
    ASSUME ServiceInv, NEW p \in Callers, Get(p)
    PROVE  AtomicStep
  <1>1. /\ calls \in [Callers -> Call] /\ calls[p].step = "read" /\ UNCHANGED vars
        /\ entries' = entries /\ used' = used /\ StoreInv
    BY DEF ServiceInv, Get, vars
  <1>2. PICK r, id : r = calls[p].req /\ id = calls[p].id
    OBVIOUS
  <1>3. r.op = "get" /\ r.id \in Ids
    BY <1>1, <1>2, Found DEF Get
  <1>4. Pending[p].phase = "pending" /\ Pending[p].req = r
    BY <1>1, <1>2, Phases DEF Pending, Mapped
  <1>5. CASE entries[r.id].kind = r.kind
    <2>1. PICK seen : seen = record(r.id, entries[r.id], inbound)
      OBVIOUS
    <2>2. calls' = [calls EXCEPT ![p].step = "done", ![p].status = "ok", ![p].seen = seen]
      BY <1>2, <1>5, <2>1 DEF Get
    <2>3. calls' = [calls EXCEPT ![p] = With(calls[p], "done", id, seen, "ok")]
      <3> DEFINE c == calls[p]
                 x == [c EXCEPT !.step = "done", !.status = "ok"]
                 w == [x EXCEPT !.seen = seen]
      <3>1. calls' = [calls EXCEPT ![p] = w]
        BY <2>2
      <3>2. c \in Call
        BY <1>1
      <3>3. x = With(c, "done", c.id, c.seen, "ok")
        <4> HIDE DEF c
        <4> QED
          BY <3>2, EditStatus
      <3> HIDE DEF x
      <3>4. w = With(c, "done", id, seen, "ok")
        BY <1>2, <3>3 DEF With
      <3> QED
        BY <3>1, <3>4
    <2>4. Atomic!Resolve(p, "answered", "ok", seen)
      BY <1>1, <1>2, <1>3, <2>3, Phases, ResolveWith
    <2>5. seen = Atomic!Shown(entries, r.id)
      BY <1>1, <1>3, <2>1, ShownIsRecord
    <2>6. Atomic!Observe(p)
      BY <1>1, <1>3, <1>4, <1>5, <2>4, <2>5
         DEF Atomic!Observe, Atomic!Addressed, Atomic!Resolve, Pending, Mapped
    <2> QED
      BY <2>6, AtomicStepIs
  <1>6. CASE entries[r.id].kind # r.kind
    <2>1. Answer(p, "notFound")
      BY <1>2, <1>6 DEF Get
    <2>2. Holds(calls[p].req, "notFound")
      BY <1>2, <1>3, <1>6 DEF Holds
    <2> QED
      BY <1>1, <2>1, <2>2, Phases, RefuseIs, AtomicStepIs
  <1> QED
    BY <1>5, <1>6

(***************************************************************************)
(* A PATCH that asks for nothing new takes effect when it reads.           *)
(***************************************************************************)
LEMMA ReadCurrentRefines ==
    ASSUME ServiceInv, NEW p \in Callers, ReadCurrent(p)
    PROVE  AtomicStep
  <1>1. /\ calls \in [Callers -> Call] /\ calls[p].step = "read" /\ UNCHANGED vars
        /\ entries' = entries /\ used' = used /\ StoreInv /\ calls[p].status = None
    BY DEF ServiceInv, ReadCurrent, vars, CallOK
  <1>2. PICK r, id, seen, doc :
          /\ r = calls[p].req /\ id = calls[p].id
          /\ seen = record(r.id, entries[r.id], inbound) /\ doc = Into(entries[r.id])
    OBVIOUS
  <1>3. r.op \in {"replace", "patch", "delete"} /\ r.id \in Ids
    BY <1>1, <1>2, Found DEF ReadCurrent
  <1>4. seen.doc = doc /\ seen.version = entries[r.id].updated
    BY <1>2 DEF record
  <1>5. Pending[p].phase = "pending" /\ Pending[p].req = r
    BY <1>1, <1>2, Phases DEF Pending, Mapped
  <1> DEFINE matches == r.versions = {} \/ seen.version \in r.versions
             next == Wanted(r, seen.doc)
  <1>6. ASSUME NEW status, Answer(p, status), Holds(r, status)
        PROVE  AtomicStep
    BY <1>1, <1>2, <1>6, Phases, RefuseIs, AtomicStepIs
  <1>7. ASSUME calls' = [calls EXCEPT ![p].seen = seen, ![p].step = "persist"]
        PROVE  AtomicStep
    <2> DEFINE c == calls[p]
    <2>1. c \in Call
      BY <1>1
    <2>2. PICK w : w = [c EXCEPT !.seen = seen, !.step = "persist"]
      OBVIOUS
    <2>3. calls' = [calls EXCEPT ![p] = w]
      BY <1>7, <2>2
    <2>4. w = With(c, "persist", c.id, seen, c.status)
      <3> HIDE DEF c
      <3> QED
        BY <2>1, <2>2, EditFound
    <2>5. w.step = "persist" /\ w.req = c.req /\ w.status = c.status
      BY <2>4, WithFields
    <2>6. None # "ok"
      BY ServiceAssumption DEF Statuses
    <2>7. Mapped(w) = Mapped(c)
      BY <1>1, <2>5, <2>6, Phases DEF Mapped, Result
    <2> QED
      BY <1>1, <2>3, <2>7, Stutters, AtomicStepIs
  <1>8. CASE entries[r.id].kind # r.kind
    <2>1. Answer(p, "notFound")
      BY <1>2, <1>8 DEF ReadCurrent
    <2> QED
      BY <1>3, <1>6, <1>8, <2>1 DEF Holds
  <1>9. CASE entries[r.id].kind = r.kind /\ ~matches
    <2>1. Answer(p, "preconditionFailed")
      BY <1>2, <1>9 DEF ReadCurrent
    <2> QED
      BY <1>3, <1>6, <1>9, <2>1 DEF Holds
  <1>10. CASE entries[r.id].kind = r.kind /\ matches /\ r.op = "delete"
    <2>1. calls' = [calls EXCEPT ![p].seen = seen, ![p].step = "persist"]
      BY <1>2, <1>10 DEF ReadCurrent
    <2> QED
      BY <1>7, <2>1
  <1>11. CASE entries[r.id].kind = r.kind /\ matches /\ r.op # "delete"
    <2>1. \/ Answer(p, "rejected")
          \/ ~Immutable(seen.doc, next) /\ Answer(p, "mutability")
          \/ /\ r.op = "patch" /\ next = seen.doc
             /\ calls' = [calls EXCEPT ![p].seen = seen, ![p].step = "after", ![p].status = "ok"]
          \/ calls' = [calls EXCEPT ![p].seen = seen, ![p].step = "persist"]
      BY <1>2, <1>11 DEF ReadCurrent
    <2>2. Matching(r)
      BY <1>4, <1>11 DEF Matching
    <2>3. CASE Answer(p, "rejected")
      BY <1>3, <1>6, <1>11, <2>3 DEF Holds
    <2>4. CASE ~Immutable(seen.doc, next) /\ Answer(p, "mutability")
      BY <1>2, <1>3, <1>4, <1>6, <1>11, <2>2, <2>4 DEF Holds, Asked
    <2>5. CASE /\ r.op = "patch" /\ next = seen.doc
               /\ calls' = [calls EXCEPT ![p].seen = seen, ![p].step = "after", ![p].status = "ok"]
      <3>1. calls' = [calls EXCEPT ![p] = With(calls[p], "after", id, seen, "ok")]
        <4> DEFINE c == calls[p]
                   x == [c EXCEPT !.seen = seen, !.step = "after"]
                   w == [x EXCEPT !.status = "ok"]
        <4>1. calls' = [calls EXCEPT ![p] = w]
          BY <2>5
        <4>2. c \in Call
          BY <1>1
        <4>3. x = With(c, "after", c.id, seen, c.status)
          <5> HIDE DEF c
          <5> QED
            BY <4>2, EditFound
        <4> HIDE DEF x
        <4>4. w = With(c, "after", id, seen, "ok")
          BY <1>2, <4>3 DEF With
        <4> QED
          BY <4>1, <4>4
      <3>2. Atomic!Resolve(p, "performed", "ok", seen)
        <4>1. calls[p].req.op # "delete"
          BY <1>2, <2>5
        <4> QED
          BY <1>1, <3>1, <4>1, Phases, ResolveWith
      <3>3. seen = Atomic!Shown(entries, r.id)
        BY <1>1, <1>2, <1>3, ShownIsRecord
      <3>4. Atomic!Matches(r)
        BY <2>2 DEF Matching, Atomic!Matches, Atomic!Addressed
      <3>5. Atomic!Wanted(r, Atomic!Into(entries[r.id])) = Atomic!Into(entries[r.id])
        BY <1>2, <1>4, <2>5, SameReading
      <3>6. Atomic!Leave(p)
        BY <1>1, <1>5, <2>5, <3>2, <3>3, <3>4, <3>5 DEF Atomic!Leave, Atomic!Resolve, Pending, Mapped
      <3> QED
        BY <3>6, AtomicStepIs
    <2> QED
      BY <1>7, <2>1, <2>3, <2>4, <2>5
  <1> QED
    BY <1>8, <1>9, <1>10, <1>11

(***************************************************************************)
(* A write takes effect when the store commits it.                         *)
(***************************************************************************)
LEMMA PersistCreateRefines ==
    ASSUME ServiceInv, NEW p \in Callers, NEW at \in Readings, PersistCreate(p, at)
    PROVE  AtomicStep
  <1>1. /\ calls \in [Callers -> Call] /\ calls[p].step = "persist" /\ StoreInv /\ TypeOK
    BY DEF ServiceInv, PersistCreate, StoreInv
  <1>2. PICK r : r = calls[p].req
    OBVIOUS
  <1>3. r.op = "create" /\ r.body \in Storable
    BY <1>1, <1>2, CreateBody DEF PersistCreate
  <1>4. Pending[p].phase = "pending" /\ Pending[p].req = r
    BY <1>1, <1>2, Phases DEF Pending, Mapped
  <1>5. PICK id \in Ids \ Known :
             \/ /\ verify(id, r.body) # "ok"
                /\ Answer(p, verify(id, r.body))
                /\ UNCHANGED vars
             \/ /\ Create(id, r.body, at)
                /\ calls' = [calls EXCEPT
                     ![p].step = "after", ![p].status = "ok", ![p].id = id,
                     ![p].seen = record(id, saved(id, r.body, at), inbound')]
    BY <1>2 DEF PersistCreate
  <1>6. CASE verify(id, r.body) # "ok" /\ Answer(p, verify(id, r.body)) /\ UNCHANGED vars
    <2>1. PICK status : status = verify(id, r.body)
      OBVIOUS
    <2>2. Holds(r, status)
      BY <1>1, <1>3, <1>6, <2>1, VerifyDecides DEF Holds
    <2>3. Answer(p, status) /\ Holds(calls[p].req, status)
      BY <1>2, <1>6, <2>1, <2>2
    <2> QED
      BY <1>1, <1>6, <2>3, Phases, RefuseIs, AtomicStepIs
  <1>7. CASE /\ Create(id, r.body, at)
             /\ calls' = [calls EXCEPT
                     ![p].step = "after", ![p].status = "ok", ![p].id = id,
                     ![p].seen = record(id, saved(id, r.body, at), inbound')]
    <2>1. SaveStep(id, r.body, at, at) /\ at \in Times /\ at \in Int
      BY <1>1, <1>3, <1>7, CreateIsSave, ServiceAssumption, TimeAssumption DEF Times
    <2>2. ~held(id)
      BY <1>1 DEF TypeOK, Known
    <2>3. /\ StoreInv' /\ Atomic!Written(id, r.body)
          /\ entries'[id] = saved(id, r.body, at)
          /\ used' = used \cup {id}
      <3>1. used' = used \cup {id}
        BY <2>1 DEF SaveStep
      <3> QED
        BY <1>1, <2>1, <2>2, <3>1, SaveMoves, SaveIsWritten, NotTouched
    <2>4. ~Atomic!Clashes(id, r.body) /\ ~Atomic!Invalid(id, r.body)
      <3>1. verify(id, r.body) = "ok"
        BY <2>1 DEF SaveStep, save
      <3> QED
        BY <1>1, <1>3, <3>1, VerifyDecides
    <2>5. PICK seen : seen = record(id, saved(id, r.body, at), inbound')
      OBVIOUS
    <2>6. seen = Atomic!Shown(entries', id)
      BY <2>3, <2>5, ShownIsRecordNext
    <2>7. calls' = [calls EXCEPT ![p] = With(calls[p], "after", id, seen, "ok")]
      <3> DEFINE c == calls[p]
                 x == [c EXCEPT !.step = "after", !.status = "ok"]
                 y == [x EXCEPT !.id = id]
                 w == [y EXCEPT !.seen = seen]
      <3>1. calls' = [calls EXCEPT ![p] = w]
        <4>1. calls' = [calls EXCEPT ![p].step = "after", ![p].status = "ok", ![p].id = id,
                                     ![p].seen = seen]
          BY <1>7, <2>5
        <4> QED
          BY <4>1
      <3>2. c \in Call
        BY <1>1
      <3>3. x = With(c, "after", c.id, c.seen, "ok")
        <4> HIDE DEF c
        <4> QED
          BY <3>2, EditStatus
      <3> HIDE DEF x
      <3>4. y = With(c, "after", id, c.seen, "ok")
        BY <3>3 DEF With
      <3> HIDE DEF y
      <3>5. w = With(c, "after", id, seen, "ok")
        BY <3>4 DEF With
      <3> QED
        BY <3>1, <3>5
    <2>8. Atomic!Resolve(p, "performed", "ok", seen)
      BY <1>1, <1>2, <1>3, <2>7, Phases, ResolveWith
    <2>9. Atomic!Resolve(p, "performed", "ok", Atomic!Shown(entries', id))
      BY <2>6, <2>8 DEF Atomic!Resolve
    <2>10. id \in Ids \ (used \cup Foreign)
      BY DEF Known
    <2>11. Atomic!Install(p)
      BY <1>3, <1>4, <2>3, <2>4, <2>9, <2>10 DEF Atomic!Install, Pending, Mapped
    <2> QED
      BY <2>11, AtomicStepIs
  <1> QED
    BY <1>5, <1>6, <1>7

LEMMA PersistUpdateRefines ==
    ASSUME ServiceInv, NEW p \in Callers, NEW at \in Readings, PersistUpdate(p, at)
    PROVE  AtomicStep
  <1>1. /\ calls \in [Callers -> Call] /\ calls[p].step = "persist" /\ StoreInv /\ TypeOK
        /\ calls[p].req.op \in {"replace", "patch"}
    BY DEF ServiceInv, PersistUpdate, StoreInv
  <1>2. PICK r, id, current, doc, version :
          /\ r = calls[p].req /\ id = r.id /\ current = calls[p].seen
          /\ doc = Wanted(r, current.doc) /\ version = current.version
    OBVIOUS
  <1>3. /\ id \in Ids /\ calls[p].id = id /\ r.kind \in Kinds
        /\ doc \in Storable /\ doc.kind = r.kind /\ Immutable(current.doc, doc)
        /\ r.versions = {} \/ version \in r.versions
        /\ version \in Int /\ entries[id].updated \in Int
        /\ entries[id].kind # None /\ entries[id].updated = version
             => current = record(id, entries[id], inbound)
    BY <1>1, <1>2, Persisting
  <1>4. Pending[p].phase = "pending" /\ Pending[p].req = r
    BY <1>1, <1>2, Phases DEF Pending, Mapped
  <1>5. ASSUME locate(id, r.kind, version)
        PROVE  /\ Matching(r) /\ Atomic!Matches(r)
               /\ current.doc = Into(entries[id]) /\ Asked(r) = doc
               /\ Immutable(Into(entries[id]), Asked(r))
    <2>1. entries[id].kind = r.kind /\ entries[id].updated = version /\ entries[id].kind # None
      BY <1>3, <1>5, NoneAssumption DEF locate
    <2>2. current.doc = Into(entries[id])
      BY <1>3, <2>1 DEF record
    <2> QED
      BY <1>2, <1>3, <2>1, <2>2 DEF Matching, Atomic!Matches, Atomic!Addressed, Asked
  <1>6. CASE Goto(p, "mismatch") /\ UNCHANGED vars
    BY <1>1, <1>6, Phases, GotoStutters, AtomicStepIs
  <1>7. CASE /\ locate(id, r.kind, version) /\ verify(id, doc) # "ok"
             /\ Answer(p, verify(id, doc)) /\ UNCHANGED vars
    <2>1. PICK status : status = verify(id, doc)
      OBVIOUS
    <2>2. Holds(r, status)
      BY <1>1, <1>2, <1>3, <1>5, <1>7, <2>1, VerifyDecides DEF Holds
    <2>3. Answer(p, status) /\ Holds(calls[p].req, status)
      BY <1>2, <1>7, <2>1, <2>2
    <2> QED
      BY <1>1, <1>7, <2>3, Phases, RefuseIs, AtomicStepIs
  <1>8. ASSUME Update(id, doc, version, at),
               calls' = [calls EXCEPT ![p].step = "after", ![p].status = "ok",
                   ![p].seen = record(id, saved(id, doc, bumped(entries[id].updated, at)), inbound')]
        PROVE  AtomicStep
    <2>1. PICK updated : updated = bumped(entries[id].updated, at)
      OBVIOUS
    <2>2. SaveStep(id, doc, bumped(entries[id].updated, at), at) /\ at \in Times /\ at \in Int
      BY <1>1, <1>3, <1>8, UpdateIsSave, ServiceAssumption, TimeAssumption DEF Times
    <2>3. SaveStep(id, doc, updated, at) /\ updated \in Int /\ updated > entries[id].updated
      BY <1>3, <2>1, <2>2, BumpedForward
    <2>4. locate(id, r.kind, version) /\ used' = used /\ verify(id, doc) = "ok"
      BY <1>3, <1>8 DEF Update, save
    <2>5. /\ StoreInv' /\ Atomic!Written(id, doc)
          /\ entries'[id] = saved(id, doc, updated)
      BY <1>1, <2>2, <2>3, SaveMoves, SaveIsWritten, NotTouched
    <2>6. ~Atomic!Clashes(id, doc) /\ ~Atomic!Invalid(id, doc)
      BY <1>1, <1>3, <2>4, VerifyDecides
    <2>7. PICK seen : seen = record(id, saved(id, doc, updated), inbound')
      OBVIOUS
    <2>8. seen = Atomic!Shown(entries', id)
      BY <1>3, <2>5, <2>7, ShownIsRecordNext
    <2>9. calls' = [calls EXCEPT ![p] = With(calls[p], "after", id, seen, "ok")]
      <3> DEFINE c == calls[p]
                 x == [c EXCEPT !.step = "after", !.status = "ok"]
                 w == [x EXCEPT !.seen = seen]
      <3>1. calls' = [calls EXCEPT ![p] = w]
        <4>1. calls' = [calls EXCEPT ![p].step = "after", ![p].status = "ok", ![p].seen = seen]
          BY <1>8, <2>1, <2>7
        <4> QED
          BY <4>1
      <3>2. c \in Call
        BY <1>1
      <3>3. x = With(c, "after", c.id, c.seen, "ok")
        <4> HIDE DEF c
        <4> QED
          BY <3>2, EditStatus
      <3> HIDE DEF x
      <3>4. w = With(c, "after", id, seen, "ok")
        BY <1>3, <3>3 DEF With
      <3> QED
        BY <3>1, <3>4
    <2>10. Atomic!Resolve(p, "performed", "ok", seen)
      <3>1. calls[p].req.op # "delete"
        BY <1>1
      <3> QED
        BY <1>1, <2>9, <3>1, Phases, ResolveWith
    <2>11. Atomic!Resolve(p, "performed", "ok", Atomic!Shown(entries', r.id))
      BY <1>2, <2>8, <2>10 DEF Atomic!Resolve
    <2>12. /\ Atomic!Wanted(r, Atomic!Into(entries[r.id])) = doc
           /\ Atomic!Immutable(Atomic!Into(entries[r.id]), doc)
           /\ Atomic!Matches(r) /\ r.op \in {"replace", "patch"}
      BY <1>1, <1>2, <1>5, <2>4, SameReading DEF Asked
    <2>13. Atomic!Rewrite(p)
      <3> DEFINE s == Pending[p].req
                 want == Atomic!Wanted(s, Atomic!Into(entries[s.id]))
      <3>1. /\ ~Atomic!Clashes(s.id, want) /\ ~Atomic!Invalid(s.id, want)
            /\ Atomic!Immutable(Atomic!Into(entries[s.id]), want)
            /\ Atomic!Matches(s) /\ s.op \in {"replace", "patch"}
        BY <1>2, <1>4, <2>6, <2>12
      <3>2. Atomic!Written(s.id, want)
        BY <1>2, <1>4, <2>5, <2>12 DEF Atomic!Written
      <3>3. Atomic!Resolve(p, "performed", "ok", Atomic!Shown(entries', s.id))
        BY <1>4, <2>11 DEF Atomic!Resolve
      <3>4. Pending[p].phase = "pending"
        BY <1>4
      <3> QED
        BY <2>4, <3>1, <3>2, <3>3, <3>4, Zenon DEF Atomic!Rewrite, Pending, Mapped
    <2> QED
      BY <2>13, AtomicStepIs
  <1> QED
    BY <1>2, <1>6, <1>7, <1>8 DEF PersistUpdate

LEMMA PersistDeleteRefines ==
    ASSUME ServiceInv, NEW p \in Callers, NEW at \in Readings, PersistDelete(p, at)
    PROVE  AtomicStep
  <1>1. /\ calls \in [Callers -> Call] /\ calls[p].step = "persist" /\ StoreInv
        /\ calls[p].req.op = "delete"
    BY DEF ServiceInv, PersistDelete
  <1>2. PICK r, id, v, version :
          /\ r = calls[p].req /\ id = r.id /\ v = DeleteVersion(p) /\ version = calls[p].seen.version
    OBVIOUS
  <1>3. /\ id \in Ids /\ r.kind \in Kinds /\ version \in Int
        /\ r.versions = {} \/ version \in r.versions
    BY <1>1, <1>2, Persisting
  <1>4. Pending[p].phase = "pending" /\ Pending[p].req = r
    BY <1>1, <1>2, Phases DEF Pending, Mapped
  <1>5. CASE Goto(p, "mismatch") /\ UNCHANGED vars
    BY <1>1, <1>5, Phases, GotoStutters, AtomicStepIs
  <1>6. ASSUME Delete(id, r.kind, v, at),
               calls' = [calls EXCEPT ![p].step = "after", ![p].status = "ok"]
        PROVE  AtomicStep
    <2>1. Atomic!Erased(id) /\ used' = used
      <3>1. at \in Times
        BY ServiceAssumption
      <3>2. used' = used
        BY <1>6 DEF Delete
      <3> QED
        BY <1>1, <1>3, <1>6, <3>1, <3>2, DeleteIsErased
    <2>2. Atomic!Matches(r)
      <3>1. v = IF r.versions = {} THEN None ELSE version
        BY <1>2 DEF DeleteVersion
      <3>2. entries[id].kind = r.kind /\ v \in {None, entries[id].updated}
        BY <1>6 DEF Delete, locate
      <3> QED
        BY <1>2, <1>3, <3>1, <3>2, NoneAssumption DEF Atomic!Matches, Atomic!Addressed
    <2>3. PICK old, seen : old = calls[p].id /\ seen = calls[p].seen
      OBVIOUS
    <2>4. calls' = [calls EXCEPT ![p] = With(calls[p], "after", old, seen, "ok")]
      <3> DEFINE c == calls[p]
                 w == [c EXCEPT !.step = "after", !.status = "ok"]
      <3>1. calls' = [calls EXCEPT ![p] = w]
        BY <1>6
      <3>2. c \in Call
        BY <1>1
      <3>3. w = With(c, "after", c.id, c.seen, "ok")
        <4> HIDE DEF c
        <4> QED
          BY <3>2, EditStatus
      <3> QED
        BY <2>3, <3>1, <3>3
    <2>5. Atomic!Resolve(p, "performed", "ok", None)
      BY <1>1, <2>4, Phases, ResolveWith
    <2>6. Atomic!Erase(p)
      <3> DEFINE s == Pending[p].req
      <3>1. s.op = "delete" /\ Atomic!Matches(s) /\ Pending[p].phase = "pending"
        BY <1>1, <1>2, <1>4, <2>2
      <3>2. Atomic!Erased(s.id)
        BY <1>2, <1>4, <2>1 DEF Atomic!Erased
      <3> QED
        BY <2>1, <2>5, <3>1, <3>2, Zenon DEF Atomic!Erase, Pending, Mapped
    <2> QED
      BY <2>6, AtomicStepIs
  <1> QED
    BY <1>2, <1>5, <1>6 DEF PersistDelete

LEMMA ServiceRefines == ServiceInv /\ [ServiceNext]_serviceVars => AtomicStep
  <1> SUFFICES ASSUME ServiceInv, [ServiceNext]_serviceVars
               PROVE  AtomicStep
    OBVIOUS
  <1>1. ASSUME NEW p \in Callers, Serve(p)
        PROVE  AtomicStep
    <2>1. ASSUME NEW at \in Readings,
                 PersistCreate(p, at) \/ PersistUpdate(p, at) \/ PersistDelete(p, at)
          PROVE  AtomicStep
      BY <2>1, PersistCreateRefines, PersistUpdateRefines, PersistDeleteRefines
    <2> QED
      BY <1>1, <2>1, BeforeHookRefines, AdmitCreateRefines, GetRefines, ReadCurrentRefines,
         MismatchRefines, AfterHookRefines DEF Serve
  <1>2. ASSUME NEW p \in Callers, NEW r \in Requests, Begin(p, r)
        PROVE  AtomicStep
    BY <1>2, BeginRefines
  <1>3. CASE UNCHANGED serviceVars
    <2>1. entries' = entries /\ used' = used /\ calls' = calls
      BY <1>3 DEF serviceVars, vars
    <2> QED
      BY <2>1 DEF AtomicStep, Atomic!atomicVars
  <1> QED
    BY <1>1, <1>2, <1>3 DEF ServiceNext

LEMMA ServiceStartsAtomic == ServiceInit => Atomic!AtomicInit
  <1> SUFFICES ASSUME ServiceInit
               PROVE  Atomic!AtomicInit
    OBVIOUS
  <1>1. entries = [i \in Ids |-> Atomic!NoEntry] /\ used = {}
    BY SameReading DEF ServiceInit, Init
  <1>2. calls = [p \in Callers |-> Idle]
    BY DEF ServiceInit
  <1>3. None # "ok"
    BY ServiceAssumption DEF Statuses
  <1>4. Mapped(Idle) = Atomic!NoCall
    BY <1>3, Phases DEF Mapped, Result, Idle, Atomic!NoCall
  <1>5. Pending = [p \in Callers |-> Atomic!NoCall]
    BY <1>2, <1>4 DEF Pending
  <1> QED
    BY <1>1, <1>5, Zenon DEF Atomic!AtomicInit, Pending, Mapped

(***************************************************************************)
(* The service implements the atomic specification: every request takes    *)
(* effect at one instant between its arrival and its answer, against the   *)
(* resources as they are then, or not at all, and its answer is true of    *)
(* that instant, although the code reads, releases the lock, and writes    *)
(* later under the version it read (service.go write, repository.go        *)
(* Update, memory.go save).                                                *)
(***************************************************************************)
THEOREM ServiceLinearizable == ServiceSpec => Linearizable
  <1>1. ServiceInit => Atomic!AtomicInit
    BY ServiceStartsAtomic
  <1>2. ServiceInv /\ [ServiceNext]_serviceVars => [Atomic!AtomicNext]_(Atomic!atomicVars)
    BY ServiceRefines DEF AtomicStep
  <1> QED
    BY <1>1, <1>2, ServiceSafety, PTL DEF ServiceSpec, Linearizable, Atomic!AtomicSpec
=============================================================================
