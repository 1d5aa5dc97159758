-------------------------- MODULE ProjectionProofs --------------------------
(***************************************************************************)
(* The repository may skip the references that Projection.Returns rules    *)
(* out, and the response holds exactly what is due, for every schema,      *)
(* resource and request.                                                   *)
(***************************************************************************)
EXTENDS Projection, SelectionProofs, SequenceTheorems, TLAPS

\* A plain projection asks for nothing, of schemas that leave out nothing.
PlainMeans(p) ==
    p.plain => /\ p.included = Omitted
               /\ p.excluded = {}
               /\ \A a \in Declared(p) :
                    /\ Level(p, a) \in {"always", "default"}
                    /\ \A s \in Subs[a] : Level(p, Part(a, s)) \in {"always", "default"}

\* What the client named is made of the names that qualifyName reads.
ProjectionOK(p) ==
    /\ DOMAIN p = {"schemas", "included", "excluded", "written", "plain"}
    /\ p.included # Omitted => \A n \in p.included : Name(n)

(***************************************************************************)
(* The state of a request: what it holds is what the steps so far gave it. *)
(***************************************************************************)
RequestInv ==
    /\ schema \in Definitions
    /\ document \in Documents(schema)
    /\ phase \in {"asked", "fetched", "sent"} =>
         projection.schemas = schema /\ PlainMeans(projection) /\ ProjectionOK(projection)
    /\ phase \in {"fetched", "sent"} => fetched = Fetched(projection)
    /\ phase = "sent" => response = rendered(projection, fetched)

\* What is not worth fetching is not shown, whatever it holds.
LEMMA NotShown ==
    ASSUME NEW p, NEW a, NEW x, ~Returns(p, a)
    PROVE  value(p, a, x) = <<>>
BY DEF Returns, value, always

\* Under a plain projection everything is worth fetching.
LEMMA PlainReturns ==
    ASSUME NEW p, PlainMeans(p), p.plain, NEW a \in Declared(p)
    PROVE  Returns(p, a)
<1>1. p.included = Omitted /\ p.excluded = {} /\ Level(p, a) \in {"always", "default"}
  BY DEF PlainMeans
<1>2. ~covers(p.excluded, a)
  BY <1>1 DEF covers
<1>3. CASE Level(p, a) = "always"
  BY <1>3 DEF Returns, returns, Hidden
<1>4. CASE Level(p, a) = "default"
  BY <1>1, <1>2, <1>4 DEF Returns, returns, Hidden
<1> QED BY <1>1, <1>3, <1>4

\* The response that the fetched part gives is the one that the whole resource gives.
LEMMA FetchedIsEnough ==
    ASSUME RequestInv, PlainMeans(projection)
    PROVE  rendered(projection, Fetched(projection)) = rendered(projection, document)
<1> DEFINE F == Fetched(projection)
<1>1. document \in [Attributes -> Seq(SUBSET STRING)]
  BY ProjectionAssumption DEF RequestInv
<1>2. CASE projection.plain
  <2>1. \A a \in Attributes : F[a] = document[a]
    BY <1>2, PlainReturns DEF Fetched
  <2>2. F = document
    BY <1>1, <2>1 DEF Fetched
  <2> QED BY <2>2
<1>3. CASE ~projection.plain
  <2>1. ASSUME NEW a \in Declared(projection)
        PROVE  value(projection, a, F[a]) = value(projection, a, document[a])
    <3>1. a \in Attributes
      BY DEF Declared
    <3>2. CASE Returns(projection, a)
      BY <3>1, <3>2 DEF Fetched
    <3>3. CASE ~Returns(projection, a)
      BY <3>3, NotShown
    <3> QED BY <3>2, <3>3
  <2> HIDE DEF F
  <2>2. pruned(projection, F) = pruned(projection, document)
    BY <2>1 DEF pruned
  <2>3. rendered(projection, F) = rendered(projection, document)
    BY <1>3, <2>2 DEF rendered
  <2> QED BY <2>3 DEF F
<1> QED BY <1>2, <1>3

LEMMA InitRequest == ProjectionInit => RequestInv
BY DEF ProjectionInit, RequestInv

LEMMA NextRequest == RequestInv /\ [ProjectionNext]_projectionVars => RequestInv'
<1> SUFFICES ASSUME RequestInv, [ProjectionNext]_projectionVars PROVE RequestInv'
  OBVIOUS
<1>1. ASSUME NEW q \in Queries, Ask(q) PROVE RequestInv'
  <2>1. /\ schema' = schema /\ document' = document
        /\ phase' \in {"invalidValue", "asked"}
        /\ phase' = "asked" => projection' = newProjection(q)
    BY <1>1 DEF Ask
  <2>2. PlainMeans(newProjection(q))
    <3> DEFINE p == [schemas |-> schema, included |-> q.included,
                     excluded |-> IF q.excluded = Omitted THEN {} ELSE q.excluded,
                     written |-> {}, plain |-> FALSE]
               r == newProjection(q)
    <3>1. /\ r.plain = (q.included = Omitted /\ q.excluded = Omitted /\ plainSchemas(p))
          /\ r.included = q.included /\ r.schemas = schema
          /\ r.excluded = IF q.excluded = Omitted THEN {} ELSE q.excluded
      BY DEF newProjection
    <3>2. ASSUME NEW a \in Declared(r)
          PROVE  /\ a \in Declared(p) /\ Level(r, a) \in Returned /\ Level(r, a) = Level(p, a)
                 /\ \A s \in Subs[a] : /\ Level(r, Part(a, s)) \in Returned
                                      /\ Level(r, Part(a, s)) = Level(p, Part(a, s))
      BY <3>1, <3>2, ProjectionAssumption DEF RequestInv, Declared, Level, Part
    <3>3. plainSchemas(p) => \A a \in Declared(p) :
             /\ Level(p, a) \notin {"never", "request"}
             /\ \A s \in Subs[a] : Level(p, Part(a, s)) \notin {"never", "request"}
      BY DEF plainSchemas
    <3> HIDE DEF p, r
    <3>4. ASSUME r.plain, NEW a \in Declared(r)
          PROVE  /\ Level(r, a) \in {"always", "default"}
                 /\ \A s \in Subs[a] : Level(r, Part(a, s)) \in {"always", "default"}
      <4>1. plainSchemas(p)
        BY <3>1, <3>4
      <4>2. ASSUME NEW x \in Returned, x \notin {"never", "request"}
            PROVE  x \in {"always", "default"}
        BY <4>2 DEF Returned
      <4> QED
        BY <3>2, <3>3, <3>4, <4>1, <4>2
    <3>5. PlainMeans(r)
      BY <3>1, <3>4 DEF PlainMeans
    <3> QED BY <3>5 DEF r
  <2>3. /\ newProjection(q).schemas = schema /\ newProjection(q).included = q.included
        /\ DOMAIN newProjection(q) = {"schemas", "included", "excluded", "written", "plain"}
    BY DEF newProjection
  <2>4. ProjectionOK(newProjection(q))
    BY <2>3, ProjectionAssumption DEF ProjectionOK
  <2> QED BY <2>1, <2>2, <2>3, <2>4 DEF RequestInv
<1>2. ASSUME NEW names \in Specified, Fetch(names) PROVE RequestInv'
  <2> DEFINE p == Written(projection, names)
  <2>1. /\ phase = "asked" /\ phase' = "fetched"
        /\ schema' = schema /\ document' = document
        /\ projection' = p /\ fetched' = Fetched(p)
    BY <1>2 DEF Fetch
  <2>2. p.schemas = schema /\ PlainMeans(p) /\ ProjectionOK(p)
    <3>1. projection.schemas = schema /\ PlainMeans(projection) /\ ProjectionOK(projection)
      BY <2>1 DEF RequestInv
    <3>2. /\ DOMAIN p = DOMAIN projection
          /\ p.included = projection.included /\ p.excluded = projection.excluded
          /\ p.schemas = projection.schemas /\ p.plain = projection.plain
      BY <3>1 DEF ProjectionOK, Written
    <3> HIDE DEF p
    <3> QED
      BY <3>1, <3>2 DEF PlainMeans, ProjectionOK, Declared, Level
  <2>3. Fetched(projection)' = Fetched(p)
    BY <2>1 DEF Fetched
  <2> HIDE DEF p
  <2> QED BY <2>1, <2>2, <2>3 DEF RequestInv
<1>3. ASSUME Send PROVE RequestInv'
  <2>1. /\ phase = "fetched" /\ phase' = "sent"
        /\ schema' = schema /\ document' = document /\ projection' = projection
        /\ fetched' = fetched /\ response' = rendered(projection, fetched)
    BY <1>3 DEF Send
  <2>2. Fetched(projection)' = Fetched(projection)
    BY <2>1 DEF Fetched
  <2> QED BY <2>1, <2>2 DEF RequestInv
<1>4. CASE UNCHANGED projectionVars
  <2>1. /\ schema' = schema /\ document' = document /\ projection' = projection
        /\ fetched' = fetched /\ response' = response /\ phase' = phase
    BY <1>4 DEF projectionVars
  <2>2. Fetched(projection)' = Fetched(projection)
    BY <2>1 DEF Fetched
  <2> QED BY <2>1, <2>2 DEF RequestInv
<1> QED BY <1>1, <1>2, <1>3, <1>4 DEF ProjectionNext

(***************************************************************************)
(* The response is the one that the whole resource gives, although the     *)
(* repository fetched only the references that Projection.Returns allows   *)
(* (repository.returned).                                                  *)
(***************************************************************************)
THEOREM FetchIsEnough == ProjectionSpec => []FetchSuffices
<1>1. ProjectionSpec => []RequestInv
  BY InitRequest, NextRequest, PTL DEF ProjectionSpec
<1>2. RequestInv => FetchSuffices
  BY FetchedIsEnough DEF RequestInv, FetchSuffices
<1> QED BY <1>1, <1>2, PTL

-----------------------------------------------------------------------------
(* What is due. *)

\* The lists that NonEmpty leaves as they are, and those of which it leaves nothing.
LEMMA NonEmptyAll ==
    ASSUME NEW X, NEW s \in Seq(X), \A i \in DOMAIN s : s[i] # {}
    PROVE  NonEmpty(s) = s
<1> DEFINE P == {i \in DOMAIN s : s[i] # {}}
<1>1. PICK t : t = Selected(s, P)
  OBVIOUS
<1>2. t \in Seq(X) /\ Selection(t, s, P, Len(s))
  BY <1>1, Selecting
<1>3. 1 .. Len(s) \subseteq P
  OBVIOUS
<1>4. Len(t) = Len(s) /\ \A k \in 1 .. Len(s) : t[k] = s[k]
  BY <1>2, <1>3 DEF Selection
<1>5. t = s
  BY <1>2, <1>4
<1> QED BY <1>1, <1>5 DEF NonEmpty

LEMMA NonEmptyNone ==
    ASSUME NEW X, NEW s \in Seq(X), \A i \in DOMAIN s : s[i] = {}
    PROVE  NonEmpty(s) = <<>>
<1> DEFINE P == {i \in DOMAIN s : s[i] # {}}
<1>1. PICK t : t = Selected(s, P)
  OBVIOUS
<1>2. t \in Seq(X) /\ Selection(t, s, P, Len(s)) /\ P = {}
  BY <1>1, Selecting
<1>3. PICK h : Traces(h, t, s, P, Len(s))
  BY <1>2 DEF Selection
<1>4. Len(t) = 0
  <2>1. \A k \in 1 .. Len(t) : h[k] \in {}
    BY <1>2, <1>3 DEF Traces
  <2> QED BY <1>2, <2>1
<1> QED BY <1>1, <1>2, <1>4 DEF NonEmpty

LEMMA NameFacts ==
    ASSUME NEW n, Name(n)
    PROVE  IsPrefix(n, n)
BY DEF Name, IsPrefix

\* Nothing is a part of a sub-attribute.
LEMMA NothingDeeper ==
    ASSUME NEW n, Name(n), Len(n) = 3, NEW e, Name(e)
    PROVE  ~IsStrictPrefix(n, e)
<1> SUFFICES ASSUME IsPrefix(n, e) PROVE n = e
  BY DEF IsStrictPrefix
<1>1. n \in Seq(STRING) /\ e \in Seq(STRING) /\ Len(e) = 3
  BY DEF Name, IsPrefix
<1>2. SubSeq(n, 1, Len(n)) = n /\ SubSeq(e, 1, Len(e)) = e
  BY <1>1
<1> QED BY <1>1, <1>2 DEF IsPrefix

\* The conditions of projection.go, one name at a time, against those of the specification.
LEMMA CoversIsWanted ==
    ASSUME NEW n
    PROVE  /\ projection.included # Omitted => (Wanted(n) <=> covers(projection.included, n))
           /\ projection.included = Omitted => (Wanted(n) <=> ~covers(projection.excluded, n))
BY DEF Wanted, covers

LEMMA RequestedIsNamed ==
    ASSUME NEW n, Name(n)
    PROVE  requested(projection, n) <=> Named(n)
<1>1. CASE projection.included # Omitted
  BY <1>1 DEF requested, Named, within
<1>2. CASE projection.included = Omitted
  <2>1. (covers(projection.written, n) \/ within(projection.written, n))
           <=> \E e \in projection.written : IsPrefix(e, n) \/ IsPrefix(n, e)
    BY NameFacts DEF covers, within, IsStrictPrefix
  <2> QED BY <1>2, <2>1, CoversIsWanted DEF requested, Named
<1> QED BY <1>1, <1>2

LEMMA ReturnsIsOpened ==
    ASSUME NEW a, Name(a), Level(projection, a) \in Returned
    PROVE  returns(projection, a) <=> Opened(a)
<1>1. CASE Level(projection, a) = "never"
  BY <1>1 DEF returns, Opened, Hidden
<1>2. CASE Level(projection, a) = "always"
  BY <1>2 DEF returns, Opened, Hidden, Allowed
<1>3. CASE Level(projection, a) = "request"
  BY <1>3, RequestedIsNamed DEF returns, Opened, Hidden, Allowed
<1>4. CASE Level(projection, a) = "default"
  <2>1. CASE projection.included # Omitted
    <3>1. (covers(projection.included, a) \/ within(projection.included, a))
             <=> Wanted(a) \/ \E e \in projection.included : IsPrefix(a, e)
      BY <2>1, NameFacts, CoversIsWanted DEF covers, within, IsStrictPrefix
    <3> QED BY <1>4, <2>1, <3>1 DEF returns, Opened, Hidden, Allowed
  <2>2. CASE projection.included = Omitted
    BY <1>4, <2>2, CoversIsWanted DEF returns, Opened, Hidden, Allowed
  <2> QED BY <2>1, <2>2
<1> QED BY <1>1, <1>2, <1>3, <1>4 DEF Returned

LEMMA ReturnsIsAllowed ==
    ASSUME NEW n, Name(n), Len(n) = 3, Level(projection, n) \in Returned, ProjectionOK(projection)
    PROVE  returns(projection, n) <=> Allowed(n)
<1>1. CASE Level(projection, n) = "never"
  BY <1>1 DEF returns, Hidden, Allowed
<1>2. CASE Level(projection, n) = "always"
  BY <1>2 DEF returns, Hidden, Allowed
<1>3. CASE Level(projection, n) = "request"
  BY <1>3, RequestedIsNamed DEF returns, Hidden, Allowed
<1>4. CASE Level(projection, n) = "default"
  <2>1. CASE projection.included # Omitted
    <3>1. ~within(projection.included, n)
      BY <2>1, NothingDeeper DEF within, ProjectionOK
    <3> QED BY <1>4, <2>1, <3>1, CoversIsWanted DEF returns, Hidden, Allowed
  <2>2. CASE projection.included = Omitted
    BY <1>4, <2>2, CoversIsWanted DEF returns, Hidden, Allowed
  <2> QED BY <2>1, <2>2
<1> QED BY <1>1, <1>2, <1>3, <1>4 DEF Returned

\* What the assumption says of a declared attribute.
LEMMA DeclaredFacts ==
    ASSUME RequestInv, projection.schemas = schema, NEW a \in Declared(projection)
    PROVE  /\ a \in Attributes /\ Name(a) /\ Level(projection, a) \in Returned
           /\ document[a] \in Seq(SUBSET Subs[a])
           /\ Subs[a] # {} => \A i \in DOMAIN document[a] : document[a][i] # {}
           /\ \A s \in Subs[a] : /\ Name(Part(a, s)) /\ Len(Part(a, s)) = 3
                                 /\ Level(projection, Part(a, s)) \in Returned
<1>1. a \in Attributes /\ schema \in Definitions /\ Whole(schema, document)
  BY ProjectionAssumption DEF RequestInv, Declared
<1>2. Name(a) /\ Len(a) = 2 /\ Subs[a] \subseteq STRING
  BY <1>1, ProjectionAssumption
<1>3. ASSUME NEW s \in Subs[a]
      PROVE  Name(Part(a, s)) /\ Len(Part(a, s)) = 3
  <2>1. a \in Seq(STRING) /\ Len(a) = 2 /\ s \in STRING
    BY <1>2 DEF Name
  <2>2. <<s>> \in Seq(STRING) /\ Len(<<s>>) = 1
    BY <2>1
  <2>3. a \o <<s>> \in Seq(STRING) /\ Len(a \o <<s>>) = Len(a) + Len(<<s>>)
    BY <2>1, <2>2, ConcatProperties
  <2> QED BY <2>1, <2>2, <2>3 DEF Name, Part
<1>4. /\ Level(projection, a) \in Returned
      /\ \A s \in Subs[a] : Level(projection, Part(a, s)) \in Returned
  BY <1>1, ProjectionAssumption DEF Level, Part
<1> QED BY <1>1, <1>2, <1>3, <1>4 DEF Whole

\* The elements of an attribute with the parts that are due.
DueParts(a) == [i \in DOMAIN document[a] |-> {s \in document[a][i] : Due(a, s)}]

\* Pruning gives each attribute what is due.
LEMMA PrunedIsDue ==
    ASSUME RequestInv, projection.schemas = schema, ProjectionOK(projection),
           NEW a \in Declared(projection)
    PROVE  value(projection, a, document[a]) =
             IF Subs[a] = {} THEN (IF Opened(a) THEN document[a] ELSE <<>>)
             ELSE NonEmpty(DueParts(a))
<1> DEFINE p == projection
           E == document[a]
           Always == {s \in Subs[a] : Level(p, Part(a, s)) = "always"}
           Open == {s \in Subs[a] : returns(p, Part(a, s))}
<1>1. /\ E \in Seq(SUBSET Subs[a])
      /\ returns(p, a) <=> Opened(a)
  BY DeclaredFacts, ReturnsIsOpened
<1>2. ASSUME NEW s \in Subs[a]
      PROVE  returns(p, Part(a, s)) <=> Allowed(Part(a, s))
  BY DeclaredFacts, ReturnsIsAllowed
<1>3. \A i \in DOMAIN E : E[i] \subseteq Subs[a]
  BY <1>1
<1>4. CASE Subs[a] = {}
  BY <1>1, <1>4 DEF value, always, returnsAlways
<1>5. CASE Subs[a] # {} /\ returns(p, a)
  <2>1. \A i \in DOMAIN E : E[i] \cap Open = {s \in E[i] : Due(a, s)}
    BY <1>1, <1>2, <1>3, <1>5 DEF Due
  <2>2. [i \in DOMAIN E |-> E[i] \cap Open] = DueParts(a)
    BY <2>1 DEF DueParts
  <2> QED BY <1>5, <2>2 DEF value, keepEach
<1>6. CASE Subs[a] # {} /\ ~returns(p, a) /\ returnsAlways(p, a)
  <2>1. \A i \in DOMAIN E : E[i] \cap Always = {s \in E[i] : Due(a, s)}
    BY <1>1, <1>3, <1>6 DEF Due, returnsAlways
  <2>2. [i \in DOMAIN E |-> E[i] \cap Always] = DueParts(a)
    BY <2>1 DEF DueParts
  <2> QED BY <1>6, <2>2 DEF value, always, keepEach
<1>7. CASE Subs[a] # {} /\ ~returns(p, a) /\ ~returnsAlways(p, a)
  <2>1. \A i \in DOMAIN E : {s \in E[i] : Due(a, s)} = {}
    BY <1>1, <1>3, <1>7 DEF Due, returnsAlways
  <2>2. DueParts(a) \in Seq(SUBSET Subs[a]) /\ \A i \in DOMAIN DueParts(a) : DueParts(a)[i] = {}
    BY <1>1, <2>1 DEF DueParts
  <2>3. NonEmpty(DueParts(a)) = <<>>
    BY <2>2, NonEmptyNone
  <2> QED BY <1>7, <2>3 DEF value, always
<1> QED BY <1>4, <1>5, <1>6, <1>7

\* Under a plain projection everything is due.
LEMMA PlainIsDue ==
    ASSUME RequestInv, projection.schemas = schema, PlainMeans(projection), projection.plain,
           NEW a \in Declared(projection)
    PROVE  document[a] = IF Subs[a] = {} THEN (IF Opened(a) THEN document[a] ELSE <<>>)
                         ELSE NonEmpty(DueParts(a))
<1> DEFINE E == document[a]
<1>1. E \in Seq(SUBSET Subs[a]) /\ (Subs[a] # {} => \A i \in DOMAIN E : E[i] # {})
  BY DeclaredFacts
<1>2. \A n : Wanted(n)
  BY DEF PlainMeans, Wanted
<1>3. Opened(a)
  BY <1>2 DEF PlainMeans, Opened, Allowed
<1>4. \A s \in Subs[a] : Due(a, s)
  BY <1>2, <1>3 DEF PlainMeans, Due, Allowed
<1>5. CASE Subs[a] # {}
  <2>1. \A i \in DOMAIN E : {s \in E[i] : Due(a, s)} = E[i]
    BY <1>1, <1>4
  <2>2. DueParts(a) = E
    <3>1. DueParts(a) = [i \in DOMAIN E |-> E[i]]
      BY <2>1 DEF DueParts
    <3>2. DueParts(a) \in Seq(SUBSET Subs[a]) /\ Len(DueParts(a)) = Len(E)
          /\ \A i \in 1 .. Len(E) : DueParts(a)[i] = E[i]
      BY <1>1, <3>1
    <3> QED BY <1>1, <3>2, SeqEqual
  <2>3. NonEmpty(E) = E
    BY <1>1, <1>5, NonEmptyAll
  <2> QED BY <1>5, <2>2, <2>3
<1> QED BY <1>3, <1>5

\* Together with FetchedIsEnough: what was sent is what is due.
LEMMA SentIsDue == RequestInv => ShowsWhatIsDue
<1> SUFFICES ASSUME RequestInv, phase = "sent", NEW a \in Attributes
             PROVE  response[a] =
                      IF a \notin Declared(projection) THEN <<>>
                      ELSE IF Subs[a] = {} THEN (IF Opened(a) THEN document[a] ELSE <<>>)
                      ELSE NonEmpty(DueParts(a))
  BY DEF ShowsWhatIsDue, DueParts
<1>1. projection.schemas = schema /\ PlainMeans(projection) /\ ProjectionOK(projection)
  BY DEF RequestInv
<1>2. response = rendered(projection, document)
  BY <1>1, FetchedIsEnough DEF RequestInv
<1>3. CASE a \notin Declared(projection)
  <2>1. document[a] = <<>>
    BY <1>1, <1>3, ProjectionAssumption DEF RequestInv, Declared, Whole
  <2> QED BY <1>2, <1>3, <2>1 DEF rendered, pruned
<1>4. CASE a \in Declared(projection) /\ projection.plain
  BY <1>1, <1>2, <1>4, PlainIsDue DEF rendered
<1>5. CASE a \in Declared(projection) /\ ~projection.plain
  <2>1. response[a] = value(projection, a, document[a])
    BY <1>2, <1>5 DEF rendered, pruned
  <2> QED BY <1>1, <1>5, <2>1, PrunedIsDue
<1> QED BY <1>3, <1>4, <1>5

(***************************************************************************)
(* A response holds exactly the parts that are due, whatever the schemas,  *)
(* the resource and the parameters (projection.go value, object, always    *)
(* and passthrough; repository.returned).                                  *)
(***************************************************************************)
THEOREM ResponseIsDue == ProjectionSpec => []ShowsWhatIsDue
<1>1. ProjectionSpec => []RequestInv
  BY InitRequest, NextRequest, PTL DEF ProjectionSpec
<1> QED BY <1>1, SentIsDue, PTL
=============================================================================
