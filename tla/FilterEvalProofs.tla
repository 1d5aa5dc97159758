-------------------------- MODULE FilterEvalProofs --------------------------
(***************************************************************************)
(* What a filter selects, for any schema, any resources and a filter of    *)
(* any size: hidden values stay hidden, the two visitors agree, and so do  *)
(* the spellings of one filter.  A leaf is right by itself; the logical    *)
(* operators and the end of a value path keep what holds of their parts.   *)
(***************************************************************************)
EXTENDS FilterEval, TLAPS

Universe == Ids \cup UNION {Positions(a) : a \in Attributes}
Predicates == [store : SUBSET Universe, patch : SUBSET Universe]

(***************************************************************************)
(* The walk.  What is compiled inside a value path selects elements of its *)
(* attribute.                                                              *)
(***************************************************************************)
WalkOK ==
    /\ inURI \in BOOLEAN /\ refused \in BOOLEAN /\ denied \in BOOLEAN
    /\ scope \in Attributes \cup {NoScope}
    /\ stack \in Seq(Predicates)
    /\ mark \in 0..Len(stack)
    /\ scope # NoScope => \A k \in (mark + 1)..Len(stack) : stack[k].store \subseteq Positions(scope)

-----------------------------------------------------------------------------
(* Leaves. *)

(***************************************************************************)
(* What is accepted has a simple type, which is that of a sub-attribute.   *)
(***************************************************************************)
LEMMA AcceptedIsSimple ==
    ASSUME NEW a, NEW s, NEW op \in Operators, Allowed(TypeOf(a, s), op)
    PROVE  TypeOf(a, s) # "complex" /\ TypeOf(a, s) = Subs(a)[s].type
<1>1. TypeOf(a, s) # "complex"
  BY DEF Allowed, Operators
<1> QED BY <1>1 DEF TypeOf

LEMMA AcceptedSub ==
    ASSUME NEW path \in Paths, NEW op \in Operators, NEW literal, NEW url,
           Accepts(NoScope, path, op, literal, url)
    PROVE  /\ path.name \in Attributes
           /\ subject(path) \in DOMAIN Subs(path.name)
           /\ compareAccepts(path.name, subject(path), op, literal, url)
           /\ TypeOf(path.name, subject(path)) = Subs(path.name)[subject(path)].type
<1> DEFINE a == path.name
           s == subject(path)
<1>1. /\ Resolves(path) /\ compareAccepts(a, s, op, literal, url)
  BY DEF Accepts
<1>2. a \in Attributes /\ path.sub \in DOMAIN Subs(a) \cup {Self}
  BY <1>1 DEF Resolves
<1>3. TypeOf(a, s) # "complex" /\ TypeOf(a, s) = Subs(a)[s].type
  BY <1>1, AcceptedIsSimple DEF compareAccepts
<1>4. s \in DOMAIN Subs(a)
  <2>1. CASE path.sub # Self
    BY <2>1, <1>2 DEF subject
  <2>2. CASE path.sub = Self /\ IsSimple(a)
    BY <2>2, <1>2, FilterAssumption DEF subject, IsSimple
  <2>3. CASE path.sub = Self /\ ~IsSimple(a)
    BY <2>3, <1>3 DEF subject, IsSimple, TypeOf, Subs
  <2> QED BY <2>1, <2>2, <2>3
<1> QED BY <1>1, <1>2, <1>3, <1>4

(***************************************************************************)
(* An attribute holds elements with its sub-attributes.                    *)
(***************************************************************************)
LEMMA HeldIs ==
    ASSUME NEW id \in Ids, NEW a \in Attributes
    PROVE  /\ Held[id][a] \in Seq([DOMAIN Subs(a) -> Scalar])
           /\ DOMAIN Held[id][a] = 1..Len(Held[id][a])
           /\ \A i \in DOMAIN Held[id][a] : DOMAIN Held[id][a][i] = DOMAIN Subs(a)
<1>1. Held[id][a] \in Seq([DOMAIN Subs(a) -> Scalar])
  BY FilterAssumption
<1> QED BY <1>1

LEMMA PositionIs ==
    ASSUME NEW a \in Attributes, NEW p
    PROVE  p \in Positions(a) <=> \E id \in Ids : \E i \in DOMAIN Held[id][a] : p = <<id, i>>
  BY DEF Positions

LEMMA ElementIs ==
    ASSUME NEW a \in Attributes, NEW p \in Positions(a)
    PROVE  DOMAIN ElementAt(a, p) = DOMAIN Subs(a)
<1>1. PICK id \in Ids : \E i \in DOMAIN Held[id][a] : p = <<id, i>>
  BY PositionIs
<1>2. PICK i \in DOMAIN Held[id][a] : p = <<id, i>>
  BY <1>1
<1>3. ElementAt(a, p) = Held[id][a][i]
  BY <1>2 DEF ElementAt
<1>4. \A k \in DOMAIN Held[id][a] : DOMAIN Held[id][a][k] = DOMAIN Subs(a)
  BY HeldIs
<1> QED BY <1>3, <1>4

-----------------------------------------------------------------------------
(* Hidden values. *)

\* The positions of an attribute, and the resources, that may not be told apart.
AlikeAt(a, p, q, url) ==
    p \in Positions(a) /\ q \in Positions(a) /\ Alike(a, ElementAt(a, p), ElementAt(a, q), url)

AlikeAll(i, j, url) ==
    /\ i \in Ids /\ j \in Ids
    /\ \A a \in Attributes :
         /\ DOMAIN Held[i][a] = DOMAIN Held[j][a]
         /\ \A n \in DOMAIN Held[i][a] : Alike(a, Held[i][a][n], Held[j][a][n], url)

BlindToElements(a, X, url) == \A p, q : AlikeAt(a, p, q, url) => (p \in X <=> q \in X)
BlindToResources(X, url) == \A i, j : AlikeAll(i, j, url) => (i \in X <=> j \in X)

Kept(stk, sc, mk, url) ==
    \A k \in 1..Len(stk) :
        IF sc # NoScope /\ k > mk
        THEN BlindToElements(sc, stk[k].store, url) /\ BlindToElements(sc, stk[k].patch, FALSE)
        ELSE BlindToResources(stk[k].store, url)

LEMMA RespectsIsBlind ==
    ASSUME NEW X, NEW url \in BOOLEAN, NEW alike,
           alike = IF url THEN AlikeInURL ELSE AlikeInBody
    PROVE  /\ scope \in Attributes => (RespectsElements(X, alike) <=> BlindToElements(scope, X, url))
           /\ RespectsResources(X, alike) <=> BlindToResources(X, url)
<1>1. alike.elements = PairsAlike(url) /\ alike.resources = ResourcesAlike(url)
  BY DEF AlikeInURL, AlikeInBody
<1>2. ASSUME scope \in Attributes PROVE RespectsElements(X, alike) <=> BlindToElements(scope, X, url)
  <2>1. ASSUME NEW t \in PairsAlike(url)
        PROVE  \E b \in Attributes : \E p, q \in Positions(b) : t = <<b, p, q>> /\ AlikeAt(b, p, q, url)
    BY <2>1 DEF PairsAlike, AlikeAt
  <2>2. ASSUME NEW b \in Attributes, NEW p, NEW q, AlikeAt(b, p, q, url) PROVE <<b, p, q>> \in PairsAlike(url)
    <3>1. <<p, q>> \in {pq \in Positions(b) \X Positions(b) : Alike(b, ElementAt(b, pq[1]), ElementAt(b, pq[2]), url)}
      BY <2>2 DEF AlikeAt
    <3>2. <<b, p, q>> = <<b, <<p, q>>[1], <<p, q>>[2]>>
      OBVIOUS
    <3> QED BY <3>1, <3>2 DEF PairsAlike
  <2>3. ASSUME RespectsElements(X, alike), NEW p, NEW q, AlikeAt(scope, p, q, url)
        PROVE  p \in X <=> q \in X
    <3>1. <<scope, p, q>> \in alike.elements
      BY <1>1, <1>2, <2>2, <2>3
    <3> QED BY <3>1, <2>3 DEF RespectsElements
  <2>4. ASSUME BlindToElements(scope, X, url), NEW t \in alike.elements, t[1] = scope
        PROVE  t[2] \in X <=> t[3] \in X
    <3>1. PICK b \in Attributes : \E p, q \in Positions(b) : t = <<b, p, q>> /\ AlikeAt(b, p, q, url)
      BY <1>1, <2>1, <2>4
    <3>2. PICK p \in Positions(b), q \in Positions(b) : t = <<b, p, q>> /\ AlikeAt(b, p, q, url)
      BY <3>1
    <3> QED BY <3>2, <2>4 DEF BlindToElements
  <2> QED BY <2>3, <2>4 DEF RespectsElements, BlindToElements
<1>3. RespectsResources(X, alike) <=> BlindToResources(X, url)
  <2>1. \A i, j : <<i, j>> \in ResourcesAlike(url) <=> AlikeAll(i, j, url)
    BY DEF ResourcesAlike, AlikeAll
  <2>2. \A t \in ResourcesAlike(url) : \E i, j : t = <<i, j>>
    BY DEF ResourcesAlike
  <2>3. ASSUME RespectsResources(X, alike), NEW i, NEW j, AlikeAll(i, j, url) PROVE i \in X <=> j \in X
    <3>1. <<i, j>> \in alike.resources
      BY <1>1, <2>1, <2>3
    <3>2. <<i, j>>[1] \in X <=> <<i, j>>[2] \in X
      BY <3>1, <2>3, Zenon DEF RespectsResources
    <3> QED BY <3>2
  <2>4. ASSUME BlindToResources(X, url), NEW t \in alike.resources PROVE t[1] \in X <=> t[2] \in X
    <3>1. PICK i, j : t = <<i, j>>
      BY <1>1, <2>2
    <3>2. AlikeAll(i, j, url)
      BY <3>1, <1>1, <2>1
    <3>3. i \in X <=> j \in X
      BY <3>2, <2>4, Zenon DEF BlindToResources
    <3> QED BY <3>1, <3>3
  <2> QED BY <2>3, <2>4, Zenon DEF RespectsResources, BlindToResources
<1> QED BY <1>2, <1>3

(***************************************************************************)
(* Concealed, said of the stack without the state.                         *)
(***************************************************************************)
LEMMA ConcealedIsKept ==
    ASSUME WalkOK PROVE Concealed <=> Kept(stack, scope, mark, inURI)
<1> DEFINE alike == IF inURI THEN AlikeInURL ELSE AlikeInBody
<1>1. DOMAIN stack = 1..Len(stack) /\ scope \in Attributes \cup {NoScope} /\ inURI \in BOOLEAN
  BY DEF WalkOK
<1>2. \A X : /\ scope \in Attributes => (RespectsElements(X, alike) <=> BlindToElements(scope, X, inURI))
             /\ RespectsResources(X, alike) <=> BlindToResources(X, inURI)
  BY <1>1, RespectsIsBlind
<1>3. \A X : scope \in Attributes => (RespectsElements(X, AlikeInBody) <=> BlindToElements(scope, X, FALSE))
  BY RespectsIsBlind
<1> HIDE DEF alike
<1> QED BY <1>1, <1>2, <1>3 DEF Concealed, Kept, alike

(***************************************************************************)
(* A comparison that is let through asks for equality of a hidden value,   *)
(* and then not in a URL, or is not of a hidden value (conceal).           *)
(***************************************************************************)
LEMMA ComparesAlike ==
    ASSUME NEW a \in Attributes, NEW s \in DOMAIN Subs(a), NEW op, NEW literal \in Literals, NEW url \in BOOLEAN,
           NEW e, NEW f, Alike(a, e, f, url), DOMAIN e = DOMAIN Subs(a),
           Coerces(Subs(a)[s].type, literal),
           Hidden(a, s) => ~url /\ op = "eq"
    PROVE  LET sub == Subs(a)[s]
               want == Fold(sub, Coerce(sub.type, literal))
           IN  Match(op, Observed(sub, Coerce(sub.type, e[s])), want)
                 <=> Match(op, Observed(sub, Coerce(sub.type, f[s])), want)
<1>1. CASE Secret(a, s)
  <2>1. Hidden(a, s)
    BY <1>1 DEF Secret, Hidden
  <2>2. SameAnswers(a, s, e[s], f[s])
    BY <1>1, <2>1 DEF Alike
  <2> QED BY <2>1, <2>2 DEF SameAnswers
<1>2. CASE ~Secret(a, s)
  <2>1. e[s] = f[s]
    BY <1>2 DEF Alike
  <2> QED BY <2>1
<1> QED BY <1>1, <1>2
(***************************************************************************)
(* The values that a resource is asked for are those of its elements.      *)
(***************************************************************************)
LEMMA ValuesAre ==
    ASSUME NEW id, NEW a, NEW s, Held[id][a] # <<>>
    PROVE  Values(id, a, s) = {Coerce(TypeOf(a, s), Held[id][a][n][s]) : n \in DOMAIN Held[id][a]}
<1>1. ASSUME NEW v \in Values(id, a, s)
      PROVE  \E n \in DOMAIN Held[id][a] : v = Coerce(TypeOf(a, s), Held[id][a][n][s])
  BY <1>1 DEF Values, ToSet
<1>2. ASSUME NEW n \in DOMAIN Held[id][a]
      PROVE  Coerce(TypeOf(a, s), Held[id][a][n][s]) \in Values(id, a, s)
  BY <1>2 DEF Values, ToSet
<1> QED BY <1>1, <1>2

LEMMA MatchesOneOf ==
    ASSUME NEW op, NEW id, NEW a, NEW s, NEW sub, NEW want, TypeOf(a, s) = sub.type, Held[id][a] # <<>>
    PROVE  anyMatch(op, Values(id, a, s), sub, want)
             <=> \E n \in DOMAIN Held[id][a] : Match(op, Observed(sub, Coerce(sub.type, Held[id][a][n][s])), want)
  BY ValuesAre DEF anyMatch

(***************************************************************************)
(* The store's leaves, on resources.                                       *)
(***************************************************************************)
LEMMA ResourceComparisonBlind ==
    ASSUME NEW path \in Paths, NEW op \in Operators, NEW literal \in Literals, NEW url \in BOOLEAN,
           Accepts(NoScope, path, op, literal, url)
    PROVE  BlindToResources(Compared(NoScope, path, op, literal), url)
<1>0. PICK a, s, sub : a = path.name /\ s = subject(path) /\ sub = Subs(a)[s]
  OBVIOUS
<1>1. /\ a \in Attributes /\ s \in DOMAIN Subs(a)
      /\ compareAccepts(a, s, op, literal, url) /\ TypeOf(a, s) = sub.type
  BY <1>0, AcceptedSub
<1>2. Coerces(sub.type, literal) /\ (Hidden(a, s) => ~url /\ op = "eq")
  BY <1>1 DEF compareAccepts, conceal
<1>3. PICK want : want = Fold(sub, Coerce(sub.type, literal))
  OBVIOUS
<1>4. Compared(NoScope, path, op, literal) = {id \in Ids : anyMatch(op, Values(id, a, s), sub, want)}
  BY <1>0, <1>1, <1>3 DEF Compared
<1>5. ASSUME NEW i, NEW j, AlikeAll(i, j, url)
      PROVE  i \in Ids /\ j \in Ids /\ (anyMatch(op, Values(i, a, s), sub, want) <=> anyMatch(op, Values(j, a, s), sub, want))
  <2>1. /\ i \in Ids /\ j \in Ids /\ DOMAIN Held[i][a] = DOMAIN Held[j][a]
        /\ \A n \in DOMAIN Held[i][a] : Alike(a, Held[i][a][n], Held[j][a][n], url)
    BY <1>1, <1>5 DEF AlikeAll
  <2>2. /\ Held[i][a] \in Seq([DOMAIN Subs(a) -> Scalar]) /\ Held[j][a] \in Seq([DOMAIN Subs(a) -> Scalar])
        /\ \A n \in DOMAIN Held[i][a] : DOMAIN Held[i][a][n] = DOMAIN Subs(a)
    BY <1>1, <2>1, HeldIs
  <2>3. Held[i][a] = <<>> <=> Held[j][a] = <<>>
    BY <2>1, <2>2
  <2>4. CASE Held[i][a] = <<>>
    BY <2>1, <2>3, <2>4 DEF Values
  <2>5. CASE Held[i][a] # <<>>
    <3>1. \A id : Held[id][a] # <<>> =>
             (anyMatch(op, Values(id, a, s), sub, want)
                <=> \E n \in DOMAIN Held[id][a] : Match(op, Observed(sub, Coerce(sub.type, Held[id][a][n][s])), want))
      BY <1>1, MatchesOneOf
    <3>2. \A n \in DOMAIN Held[i][a] :
             Match(op, Observed(sub, Coerce(sub.type, Held[i][a][n][s])), want)
               <=> Match(op, Observed(sub, Coerce(sub.type, Held[j][a][n][s])), want)
      <4> TAKE n \in DOMAIN Held[i][a]
      <4>1. PICK e, f : e = Held[i][a][n] /\ f = Held[j][a][n]
        OBVIOUS
      <4>2. Alike(a, e, f, url) /\ DOMAIN e = DOMAIN Subs(a)
        BY <4>1, <2>1, <2>2
      <4>3. Match(op, Observed(sub, Coerce(sub.type, e[s])), want) <=> Match(op, Observed(sub, Coerce(sub.type, f[s])), want)
        BY <4>2, <1>0, <1>1, <1>2, <1>3, ComparesAlike
      <4> QED BY <4>1, <4>3
    <3> QED BY <2>1, <2>3, <2>5, <3>1, <3>2
  <2> QED BY <2>4, <2>5
<1> QED BY <1>4, <1>5 DEF BlindToResources

LEMMA ResourcePresenceBlind ==
    ASSUME NEW path \in Paths, NEW url \in BOOLEAN, AcceptsPresence(NoScope, path, url)
    PROVE  BlindToResources(Present(NoScope, path), url)
<1>0. PICK a, s : a = path.name /\ s = path.sub
  OBVIOUS
<1>1. a \in Attributes /\ s \in DOMAIN Subs(a) \cup {Self} /\ ~Hidden(a, s)
  BY <1>0 DEF AcceptsPresence, Resolves, conceal
<1>2. SUFFICES ASSUME NEW i, NEW j, AlikeAll(i, j, url)
               PROVE  i \in Present(NoScope, path) <=> j \in Present(NoScope, path)
  BY DEF BlindToResources
<1>3. /\ i \in Ids /\ j \in Ids /\ DOMAIN Held[i][a] = DOMAIN Held[j][a]
      /\ \A n \in DOMAIN Held[i][a] : Alike(a, Held[i][a][n], Held[j][a][n], url)
  BY <1>1, <1>2 DEF AlikeAll
<1>4. /\ Held[i][a] \in Seq([DOMAIN Subs(a) -> Scalar]) /\ Held[j][a] \in Seq([DOMAIN Subs(a) -> Scalar])
      /\ \A n \in DOMAIN Held[i][a] : DOMAIN Held[i][a][n] = DOMAIN Subs(a) /\ DOMAIN Held[j][a][n] = DOMAIN Subs(a)
  BY <1>1, <1>3, HeldIs
<1>5. CASE TypeOf(a, s) = "complex"
  <2>1. Present(NoScope, path) = {id \in Ids : \E n \in DOMAIN Held[id][a] : \E x \in DOMAIN Held[id][a][n] : Held[id][a][n][x] # Nil}
    BY <1>0, <1>5 DEF Present, ToSet
  <2>2. \A n \in DOMAIN Held[i][a] :
          (\E x \in DOMAIN Held[i][a][n] : Held[i][a][n][x] # Nil) <=> (\E x \in DOMAIN Held[j][a][n] : Held[j][a][n][x] # Nil)
    BY <1>3 DEF Alike
  <2>3. (\E n \in DOMAIN Held[i][a] : \E x \in DOMAIN Held[i][a][n] : Held[i][a][n][x] # Nil)
          <=> (\E n \in DOMAIN Held[j][a] : \E x \in DOMAIN Held[j][a][n] : Held[j][a][n][x] # Nil)
    BY <1>3, <2>2, Zenon
  <2> QED BY <1>3, <2>1, <2>3
<1>6. CASE TypeOf(a, s) # "complex"
  <2>1. s \in DOMAIN Subs(a)
    BY <1>1, <1>6, FilterAssumption DEF TypeOf, IsSimple
  <2>2. ~Secret(a, s)
    BY <1>1, <2>1 DEF Secret, Hidden
  <2>3. \A n \in DOMAIN Held[i][a] : Held[i][a][n][s] = Held[j][a][n][s]
    BY <1>3, <1>4, <2>1, <2>2 DEF Alike
  <2>4. Held[i][a] = <<>> <=> Held[j][a] = <<>>
    BY <1>3, <1>4
  <2>5. Values(i, a, s) = Values(j, a, s)
    <3>1. CASE Held[i][a] = <<>>
      BY <3>1, <2>4 DEF Values
    <3>2. CASE Held[i][a] # <<>>
      <4>1. PICK X, Y : X = Values(i, a, s) /\ Y = Values(j, a, s)
        OBVIOUS
      <4>2. /\ X = {Coerce(TypeOf(a, s), Held[i][a][n][s]) : n \in DOMAIN Held[i][a]}
            /\ Y = {Coerce(TypeOf(a, s), Held[j][a][n][s]) : n \in DOMAIN Held[j][a]}
        BY <4>1, <3>2, <2>4, ValuesAre
      <4> QED BY <4>1, <4>2, <1>3, <2>3
    <3> QED BY <3>1, <3>2
  <2> QED BY <1>0, <1>3, <1>6, <2>5 DEF Present
<1> QED BY <1>5, <1>6
(***************************************************************************)
(* The leaves of a value filter, of the store and of the matcher.          *)
(***************************************************************************)
LEMMA ElementComparisonBlind ==
    ASSUME NEW a \in Attributes, NEW path, NEW op \in Operators, NEW literal \in Literals, NEW url \in BOOLEAN,
           a # NoScope, Accepts(a, path, op, literal, url)
    PROVE  BlindToElements(a, Compared(a, path, op, literal), url)
<1>0. PICK s, sub : s = path.name /\ sub = Subs(a)[s]
  OBVIOUS
<1>1. s \in DOMAIN Subs(a) /\ compareAccepts(a, s, op, literal, url)
  BY <1>0 DEF Accepts, ResolvesWithin
<1>2. TypeOf(a, s) = sub.type
  BY <1>0, <1>1, AcceptedIsSimple DEF compareAccepts
<1>3. Coerces(sub.type, literal) /\ (Hidden(a, s) => ~url /\ op = "eq")
  BY <1>1, <1>2 DEF compareAccepts, conceal
<1>4. PICK want : want = Fold(sub, Coerce(sub.type, literal))
  OBVIOUS
<1>5. Compared(a, path, op, literal)
        = {p \in Positions(a) : Match(op, Observed(sub, Coerce(sub.type, ElementAt(a, p)[s])), want)}
  BY <1>0, <1>2, <1>4 DEF Compared, anyMatch
<1>6. SUFFICES ASSUME NEW p, NEW q, AlikeAt(a, p, q, url)
               PROVE  p \in Compared(a, path, op, literal) <=> q \in Compared(a, path, op, literal)
  BY DEF BlindToElements
<1>7. PICK e, f : e = ElementAt(a, p) /\ f = ElementAt(a, q)
  OBVIOUS
<1>8. p \in Positions(a) /\ q \in Positions(a) /\ Alike(a, e, f, url)
  BY <1>6, <1>7 DEF AlikeAt
<1>9. DOMAIN e = DOMAIN Subs(a)
  BY <1>7, <1>8, ElementIs
<1>10. Match(op, Observed(sub, Coerce(sub.type, e[s])), want) <=> Match(op, Observed(sub, Coerce(sub.type, f[s])), want)
  BY <1>0, <1>1, <1>3, <1>4, <1>8, <1>9, ComparesAlike
<1> QED BY <1>5, <1>7, <1>8, <1>10

LEMMA UnhiddenSame ==
    ASSUME NEW a \in Attributes, NEW s \in DOMAIN Subs(a), ~Hidden(a, s), NEW url, NEW p, NEW q, AlikeAt(a, p, q, url)
    PROVE  ElementAt(a, p)[s] = ElementAt(a, q)[s]
<1>1. p \in Positions(a) /\ Alike(a, ElementAt(a, p), ElementAt(a, q), url)
  BY DEF AlikeAt
<1>2. DOMAIN ElementAt(a, p) = DOMAIN Subs(a)
  BY <1>1, ElementIs
<1> QED BY <1>1, <1>2 DEF Alike, Secret, Hidden

LEMMA ElementPresenceBlind ==
    ASSUME NEW a \in Attributes, NEW path, NEW url \in BOOLEAN, a # NoScope, AcceptsPresence(a, path, url)
    PROVE  BlindToElements(a, Present(a, path), url)
<1>1. path.name \in DOMAIN Subs(a) /\ ~Hidden(a, path.name)
  BY DEF AcceptsPresence, ResolvesWithin, conceal
<1>2. Present(a, path) = {p \in Positions(a) : ~IsUnassigned(ElementAt(a, p)[path.name])}
  BY DEF Present
<1>3. \A p, q : AlikeAt(a, p, q, url) =>
        p \in Positions(a) /\ q \in Positions(a) /\ ElementAt(a, p)[path.name] = ElementAt(a, q)[path.name]
  BY <1>1, UnhiddenSame DEF AlikeAt
<1> QED BY <1>2, <1>3 DEF BlindToElements

LEMMA FieldIsSub ==
    ASSUME NEW a \in Attributes, NEW path, matcherResolves(a, path)
    PROVE  field(a, path) \in DOMAIN Subs(a)
  BY FilterAssumption DEF matcherResolves, field

LEMMA MatcherComparisonBlind ==
    ASSUME NEW a \in Attributes, NEW path, NEW op \in Operators, NEW literal \in Literals,
           matcherResolves(a, path), check(a, field(a, path), op, literal)
    PROVE  BlindToElements(a, leaf(a, path, op, literal), FALSE)
<1>0. PICK s, sub : s = field(a, path) /\ sub = Subs(a)[s]
  OBVIOUS
<1>1. s \in DOMAIN Subs(a) /\ check(a, s, op, literal)
  BY <1>0, FieldIsSub
<1>2. TypeOf(a, s) = sub.type
  BY <1>0, <1>1, AcceptedIsSimple DEF check
<1>3. Coerces(sub.type, literal) /\ (Hidden(a, s) => ~FALSE /\ op = "eq")
  BY <1>1, <1>2 DEF check
<1>4. PICK want : want = Fold(sub, Coerce(sub.type, literal))
  OBVIOUS
<1>5. leaf(a, path, op, literal)
        = {p \in Positions(a) : Match(op, Observed(sub, Coerce(sub.type, ElementAt(a, p)[s])), want)}
  BY <1>0, <1>4 DEF leaf, expected
<1>6. SUFFICES ASSUME NEW p, NEW q, AlikeAt(a, p, q, FALSE)
               PROVE  p \in leaf(a, path, op, literal) <=> q \in leaf(a, path, op, literal)
  BY DEF BlindToElements
<1>7. PICK e, f : e = ElementAt(a, p) /\ f = ElementAt(a, q)
  OBVIOUS
<1>8. p \in Positions(a) /\ q \in Positions(a) /\ Alike(a, e, f, FALSE)
  BY <1>6, <1>7 DEF AlikeAt
<1>9. DOMAIN e = DOMAIN Subs(a)
  BY <1>7, <1>8, ElementIs
<1>10. Match(op, Observed(sub, Coerce(sub.type, e[s])), want) <=> Match(op, Observed(sub, Coerce(sub.type, f[s])), want)
  BY <1>0, <1>1, <1>3, <1>4, <1>8, <1>9, ComparesAlike
<1> QED BY <1>5, <1>7, <1>8, <1>10

LEMMA MatcherPresenceBlind ==
    ASSUME NEW a \in Attributes, NEW path, matcherResolves(a, path), ~Hidden(a, field(a, path))
    PROVE  BlindToElements(a, matcherPresent(a, path), FALSE)
<1>0. PICK s : s = field(a, path)
  OBVIOUS
<1>1. s \in DOMAIN Subs(a) /\ ~Hidden(a, s)
  BY <1>0, FieldIsSub
<1>2. matcherPresent(a, path) = {p \in Positions(a) : ~IsUnassigned(ElementAt(a, p)[s])}
  BY <1>0 DEF matcherPresent
<1>3. ASSUME NEW p, NEW q, AlikeAt(a, p, q, FALSE)
      PROVE  p \in Positions(a) /\ q \in Positions(a) /\ ElementAt(a, p)[s] = ElementAt(a, q)[s]
  <2>1. p \in Positions(a) /\ q \in Positions(a)
    BY <1>3 DEF AlikeAt
  <2>2. ElementAt(a, p)[s] = ElementAt(a, q)[s]
    BY <1>1, <1>3, UnhiddenSame, Zenon
  <2> QED BY <2>1, <2>2
<1> QED BY <1>2, <1>3 DEF BlindToElements

-----------------------------------------------------------------------------
(* Logical operators, and the end of a value path. *)

LEMMA OperatorsBlind ==
    ASSUME NEW a, NEW X, NEW Y, NEW url
    PROVE  /\ BlindToElements(a, X, url) /\ BlindToElements(a, Y, url) =>
                /\ BlindToElements(a, X \cap Y, url)
                /\ BlindToElements(a, X \cup Y, url)
                /\ BlindToElements(a, Positions(a) \ X, url)
           /\ BlindToResources(X, url) /\ BlindToResources(Y, url) =>
                /\ BlindToResources(X \cap Y, url)
                /\ BlindToResources(X \cup Y, url)
                /\ BlindToResources(Ids \ X, url)
           /\ BlindToElements(a, {}, url)
           /\ BlindToResources({}, url)
<1>1. BlindToElements(a, X, url) /\ BlindToElements(a, Y, url) =>
                /\ BlindToElements(a, X \cap Y, url)
                /\ BlindToElements(a, X \cup Y, url)
                /\ BlindToElements(a, Positions(a) \ X, url)
  BY DEF BlindToElements, AlikeAt
<1>2. BlindToResources(X, url) /\ BlindToResources(Y, url) =>
                /\ BlindToResources(X \cap Y, url)
                /\ BlindToResources(X \cup Y, url)
                /\ BlindToResources(Ids \ X, url)
  BY DEF BlindToResources, AlikeAll
<1>3. BlindToElements(a, {}, url) /\ BlindToResources({}, url)
  BY DEF BlindToElements, BlindToResources
<1> QED BY <1>1, <1>2, <1>3

(***************************************************************************)
(* Resources that may not be told apart have elements at the same places   *)
(* that may not be told apart (evaluator.go ValuePath).                    *)
(***************************************************************************)
LEMMA ValuePathBlind ==
    ASSUME NEW a \in Attributes, NEW X \in SUBSET Positions(a), NEW url, BlindToElements(a, X, url)
    PROVE  BlindToResources({p[1] : p \in X}, url)
<1>1. ASSUME NEW i, NEW j, AlikeAll(i, j, url), NEW n \in DOMAIN Held[i][a]
      PROVE  n \in DOMAIN Held[j][a] /\ (<<i, n>> \in X <=> <<j, n>> \in X)
  <2>1. /\ i \in Ids /\ j \in Ids /\ DOMAIN Held[i][a] = DOMAIN Held[j][a]
        /\ Alike(a, Held[i][a][n], Held[j][a][n], url)
    BY <1>1 DEF AlikeAll
  <2>2. <<i, n>> \in Positions(a) /\ <<j, n>> \in Positions(a)
    BY <1>1, <2>1, PositionIs
  <2>3. ElementAt(a, <<i, n>>) = Held[i][a][n] /\ ElementAt(a, <<j, n>>) = Held[j][a][n]
    BY DEF ElementAt
  <2> QED BY <2>1, <2>2, <2>3 DEF BlindToElements, AlikeAt
<1>2. \A i : i \in {p[1] : p \in X} <=> i \in Ids /\ \E n \in DOMAIN Held[i][a] : <<i, n>> \in X
  <2>1. \A p \in X : \E i \in Ids : \E n \in DOMAIN Held[i][a] : p = <<i, n>>
    BY PositionIs
  <2>2. ASSUME NEW i, i \in {p[1] : p \in X} PROVE i \in Ids /\ \E n \in DOMAIN Held[i][a] : <<i, n>> \in X
    <3>1. PICK p \in X : i = p[1]
      BY <2>2
    <3>2. PICK k \in Ids : \E n \in DOMAIN Held[k][a] : p = <<k, n>>
      BY <2>1
    <3> QED BY <3>1, <3>2
  <2>3. ASSUME NEW i \in Ids, NEW n \in DOMAIN Held[i][a], <<i, n>> \in X PROVE i \in {p[1] : p \in X}
    <3>1. <<i, n>>[1] = i
      OBVIOUS
    <3> QED BY <2>3, <3>1
  <2> QED BY <2>2, <2>3
<1>3. \A i, j : AlikeAll(i, j, url) => i \in Ids /\ j \in Ids /\ DOMAIN Held[i][a] = DOMAIN Held[j][a]
  BY DEF AlikeAll
<1>4. ASSUME NEW i, NEW j, AlikeAll(i, j, url)
      PROVE  (\E n \in DOMAIN Held[i][a] : <<i, n>> \in X) <=> (\E n \in DOMAIN Held[j][a] : <<j, n>> \in X)
  <2>1. \A n \in DOMAIN Held[i][a] : <<i, n>> \in X <=> <<j, n>> \in X
    BY <1>1, <1>4
  <2>2. DOMAIN Held[i][a] = DOMAIN Held[j][a]
    BY <1>3, <1>4
  <2> QED BY <2>1, <2>2, Zenon
<1>5. PICK Z : Z = {p[1] : p \in X}
  OBVIOUS
<1>6. \A i, j : AlikeAll(i, j, url) => (i \in Z <=> j \in Z)
  <2> TAKE i, j
  <2> HAVE AlikeAll(i, j, url)
  <2>1. i \in Ids /\ j \in Ids
    BY <1>3
  <2>2. (\E n \in DOMAIN Held[i][a] : <<i, n>> \in X) <=> (\E n \in DOMAIN Held[j][a] : <<j, n>> \in X)
    BY <1>4
  <2> QED BY <1>2, <1>5, <2>1, <2>2, Zenon
<1> QED BY <1>5, <1>6 DEF BlindToResources
-----------------------------------------------------------------------------
(* The walk. *)

(***************************************************************************)
(* What a node compiles to, in the scope where it is compiled.             *)
(***************************************************************************)
Fits(x, sc, url) ==
    IF sc # NoScope
    THEN /\ x.store \subseteq Positions(sc)
         /\ BlindToElements(sc, x.store, url) /\ BlindToElements(sc, x.patch, FALSE)
    ELSE BlindToResources(x.store, url)

(***************************************************************************)
(* The inductive invariant of the walk.                                    *)
(***************************************************************************)
WalkInv == WalkOK /\ Kept(stack, scope, mark, inURI) /\ ValueFiltersAgree

LEMMA PushedStack ==
    ASSUME NEW S, NEW stk \in Seq(S), NEW n \in 0..Len(stk), NEW x \in S, NEW new, new = Append(SubSeq(stk, 1, n), x)
    PROVE  /\ new \in Seq(S) /\ Len(new) = n + 1 /\ new[n + 1] = x
           /\ \A k \in 1..n : new[k] = stk[k]
<1>1. SubSeq(stk, 1, n) \in Seq(S) /\ Len(SubSeq(stk, 1, n)) = n /\ \A k \in 1..n : SubSeq(stk, 1, n)[k] = stk[k]
  OBVIOUS
<1> QED BY <1>1

(***************************************************************************)
(* A node takes the predicates of its parts off the stack and puts its own *)
(* on it.                                                                  *)
(***************************************************************************)
LEMMA NodeKeepsInv ==
    ASSUME WalkInv, NEW x \in Predicates, NEW n \in 0..Len(stack), mark <= n,
           stack' = Append(SubSeq(stack, 1, n), x),
           UNCHANGED <<inURI, scope, mark>>, refused' \in BOOLEAN, denied' \in BOOLEAN,
           refused => refused', denied => denied',
           Fits(x, scope, inURI),
           scope # NoScope /\ ~refused' /\ ~denied' => x.store = x.patch
    PROVE  WalkInv'
<1>1. /\ stack \in Seq(Predicates) /\ mark \in 0..Len(stack) /\ mark \in Nat /\ n \in Nat
      /\ inURI' = inURI /\ scope' = scope /\ mark' = mark
  BY DEF WalkInv, WalkOK
<1>2. /\ stack' \in Seq(Predicates) /\ Len(stack') = n + 1 /\ stack'[n + 1] = x
      /\ \A k \in 1..n : stack'[k] = stack[k]
  <2>1. PICK old, new : old = stack /\ new = stack'
    OBVIOUS
  <2>2. old \in Seq(Predicates) /\ n \in 0..Len(old) /\ new = Append(SubSeq(old, 1, n), x)
    BY <1>1, <2>1
  <2>3. /\ new \in Seq(Predicates) /\ Len(new) = n + 1 /\ new[n + 1] = x
        /\ \A k \in 1..n : new[k] = old[k]
    BY <2>2, PushedStack
  <2> QED BY <2>1, <2>3
<1>3. ASSUME NEW k \in 1..Len(stack')
      PROVE  (k \in 1..n /\ k \in 1..Len(stack)) \/ (k = n + 1 /\ k > mark)
  <2>1. Len(stack) \in Nat /\ k \in 1..(n + 1) /\ mark <= n /\ n <= Len(stack)
    BY <1>1, <1>2
  <2> QED BY <2>1, <1>1
<1>4. WalkOK'
  <2>1. mark' \in 0..Len(stack')
    BY <1>1, <1>2
  <2>2. ASSUME scope # NoScope, NEW k \in (mark + 1)..Len(stack') PROVE stack'[k].store \subseteq Positions(scope)
    <3>1. CASE k \in 1..n
      <4>1. k \in (mark + 1)..Len(stack)
        BY <2>2, <3>1, <1>1
      <4> QED BY <2>2, <3>1, <4>1, <1>2 DEF WalkInv, WalkOK
    <3>2. CASE k = n + 1
      BY <2>2, <3>2, <1>2 DEF Fits
    <3> QED BY <3>1, <3>2, <1>1, <1>2
  <2> QED BY <1>1, <1>2, <2>1, <2>2 DEF WalkInv, WalkOK, Positions
<1>5. Kept(stack, scope, mark, inURI)'
  <2>1. ASSUME NEW k \in 1..Len(stack')
        PROVE  IF scope # NoScope /\ k > mark
               THEN BlindToElements(scope, stack'[k].store, inURI) /\ BlindToElements(scope, stack'[k].patch, FALSE)
               ELSE BlindToResources(stack'[k].store, inURI)
    <3>1. CASE k \in 1..n /\ k \in 1..Len(stack)
      BY <3>1, <1>2 DEF WalkInv, Kept
    <3>2. CASE k = n + 1 /\ k > mark
      BY <3>2, <1>2 DEF Fits
    <3> QED BY <3>1, <3>2, <1>3
  <2> QED BY <1>1, <2>1 DEF Kept
<1>6. ValueFiltersAgree'
  <2>1. ASSUME scope # NoScope, ~refused', ~denied', NEW k \in (mark + 1)..Len(stack')
        PROVE  stack'[k].store = stack'[k].patch
    <3>1. CASE k \in 1..n
      <4>1. k \in (mark + 1)..Len(stack) /\ ~refused /\ ~denied
        BY <2>1, <3>1, <1>1
      <4> QED BY <2>1, <3>1, <4>1, <1>2 DEF WalkInv, ValueFiltersAgree
    <3>2. CASE k = n + 1
      BY <2>1, <3>2, <1>2
    <3> QED BY <3>1, <3>2, <1>1, <1>2
  <2> QED BY <1>1, <2>1 DEF ValueFiltersAgree
<1> QED BY <1>4, <1>5, <1>6 DEF WalkInv
LEMMA PushLast ==
    ASSUME NEW S, NEW s \in Seq(S) PROVE s = SubSeq(s, 1, Len(s)) /\ Len(s) \in 0..Len(s)
  OBVIOUS

(***************************************************************************)
(* A leaf of either kind.                                                  *)
(***************************************************************************)
LEMMA LeafKeepsInv ==
    ASSUME WalkInv, NEW sc, NEW url, sc = scope, url = inURI,
           NEW store, NEW accepted \in BOOLEAN, NEW patch, NEW matched \in BOOLEAN,
           Leaf(store, accepted, patch, matched),
           accepted => IF sc # NoScope THEN store \subseteq Positions(sc) /\ BlindToElements(sc, store, url)
                       ELSE store \subseteq Ids /\ BlindToResources(store, url),
           matched => sc # NoScope /\ patch \subseteq Positions(sc) /\ BlindToElements(sc, patch, FALSE),
           accepted /\ matched => store = patch
    PROVE  WalkInv'
<1>1. /\ refused \in BOOLEAN /\ denied \in BOOLEAN /\ sc \in Attributes \cup {NoScope}
      /\ stack \in Seq(Predicates) /\ mark \in 0..Len(stack)
  BY DEF WalkInv, WalkOK
<1>2. /\ refused' = (refused \/ ~accepted) /\ denied' = (denied \/ ~matched)
      /\ stack' = Append(stack, [store |-> IF refused' THEN {} ELSE store, patch |-> IF denied' THEN {} ELSE patch])
      /\ UNCHANGED <<inURI, scope, mark>>
  BY DEF Leaf, Compiled
<1>3. PICK st, pt, x, n : /\ st = (IF refused' THEN {} ELSE store) /\ pt = (IF denied' THEN {} ELSE patch)
                          /\ x = [store |-> st, patch |-> pt] /\ n = Len(stack)
  OBVIOUS
<1>4. /\ st = {} \/ (accepted /\ st = store)
      /\ pt = {} \/ (matched /\ pt = patch)
      /\ ~refused' => accepted /\ st = store
      /\ ~denied' => matched /\ pt = patch
  BY <1>1, <1>2, <1>3
<1>5. st \subseteq Universe /\ pt \subseteq Universe
  BY <1>1, <1>4 DEF Universe
<1>6. x \in Predicates /\ x.store = st /\ x.patch = pt
  BY <1>3, <1>5 DEF Predicates
<1>7. Fits(x, sc, url)
  <2>1. CASE sc # NoScope
    <3>1. st \subseteq Positions(sc) /\ BlindToElements(sc, st, url)
      BY <2>1, <1>4, OperatorsBlind
    <3>2. BlindToElements(sc, pt, FALSE)
      BY <1>4 DEF BlindToElements
    <3> QED BY <2>1, <3>1, <3>2, <1>6 DEF Fits
  <2>2. CASE sc = NoScope
    BY <2>2, <1>4, <1>6, OperatorsBlind DEF Fits
  <2> QED BY <2>1, <2>2
<1>8. stack' = Append(SubSeq(stack, 1, n), x) /\ n \in 0..Len(stack) /\ mark <= n
  BY <1>1, <1>2, <1>3, PushLast
<1>9. sc # NoScope /\ ~refused' /\ ~denied' => x.store = x.patch
  BY <1>4, <1>6
<1>10. refused' \in BOOLEAN /\ denied' \in BOOLEAN /\ (refused => refused') /\ (denied => denied')
  BY <1>1, <1>2
<1> QED BY <1>2, <1>6, <1>7, <1>8, <1>9, <1>10, NodeKeepsInv

LEMMA ComparisonKeepsInv ==
    ASSUME WalkInv, NEW path \in Paths, NEW op \in Operators, NEW literal \in Literals,
           VisitComparison(path, op, literal)
    PROVE  WalkInv'
<1>1. PICK sc, url : sc = scope /\ url = inURI
  OBVIOUS
<1>2. PICK store, accepted, patch, matched :
        /\ store = Compared(sc, path, op, literal)
        /\ accepted = Accepts(sc, path, op, literal, url)
        /\ patch = leaf(sc, path, op, literal)
        /\ matched = (sc # NoScope /\ matcherResolves(sc, path) /\ check(sc, field(sc, path), op, literal))
  OBVIOUS
<1>3. Leaf(store, accepted, patch, matched)
  BY <1>1, <1>2 DEF VisitComparison, Leaf, Compiled
<1>4. sc \in Attributes \cup {NoScope} /\ url \in BOOLEAN
  BY <1>1 DEF WalkInv, WalkOK
<1>5. accepted \in BOOLEAN /\ matched \in BOOLEAN
  BY <1>2 DEF Accepts
<1>6. ASSUME accepted
      PROVE  IF sc # NoScope THEN store \subseteq Positions(sc) /\ BlindToElements(sc, store, url)
             ELSE store \subseteq Ids /\ BlindToResources(store, url)
  <2>1. CASE sc # NoScope
    <3>1. store \subseteq Positions(sc)
      BY <2>1, <1>2 DEF Compared
    <3>2. BlindToElements(sc, store, url)
      BY <2>1, <1>2, <1>4, <1>6, ElementComparisonBlind
    <3> QED BY <2>1, <3>1, <3>2
  <2>2. CASE sc = NoScope
    <3>1. store \subseteq Ids
      BY <2>2, <1>2 DEF Compared
    <3>2. BlindToResources(store, url)
      BY <2>2, <1>2, <1>4, <1>6, ResourceComparisonBlind
    <3> QED BY <2>2, <3>1, <3>2
  <2> QED BY <2>1, <2>2
<1>7. ASSUME matched PROVE sc # NoScope /\ patch \subseteq Positions(sc) /\ BlindToElements(sc, patch, FALSE)
  <2>1. sc # NoScope /\ sc \in Attributes /\ matcherResolves(sc, path) /\ check(sc, field(sc, path), op, literal)
    BY <1>2, <1>4, <1>7
  <2>2. patch \subseteq Positions(sc)
    BY <1>2 DEF leaf
  <2>3. BlindToElements(sc, patch, FALSE)
    BY <1>2, <2>1, MatcherComparisonBlind
  <2> QED BY <2>1, <2>2, <2>3
<1>8. ASSUME accepted, matched PROVE store = patch
  <2>1. sc # NoScope /\ ResolvesWithin(sc, path) /\ compareAccepts(sc, path.name, op, literal, url)
    BY <1>2, <1>8 DEF Accepts
  <2>2. field(sc, path) = path.name
    BY <2>1 DEF ResolvesWithin, field
  <2>3. TypeOf(sc, path.name) = Subs(sc)[path.name].type
    BY <2>1, AcceptedIsSimple DEF compareAccepts
  <2> QED BY <1>2, <2>1, <2>2, <2>3 DEF Compared, leaf, anyMatch, expected
<1>9. /\ accepted => IF sc # NoScope THEN store \subseteq Positions(sc) /\ BlindToElements(sc, store, url)
                     ELSE store \subseteq Ids /\ BlindToResources(store, url)
      /\ matched => sc # NoScope /\ patch \subseteq Positions(sc) /\ BlindToElements(sc, patch, FALSE)
      /\ accepted /\ matched => store = patch
  BY <1>6, <1>7, <1>8, Zenon
<1> QED BY <1>1, <1>3, <1>5, <1>9, LeafKeepsInv, Zenon

LEMMA PresenceKeepsInv ==
    ASSUME WalkInv, NEW path \in Paths, VisitPresence(path)
    PROVE  WalkInv'
<1>1. PICK sc, url : sc = scope /\ url = inURI
  OBVIOUS
<1>2. PICK store, accepted, patch, matched :
        /\ store = Present(sc, path)
        /\ accepted = AcceptsPresence(sc, path, url)
        /\ patch = matcherPresent(sc, path)
        /\ matched = (sc # NoScope /\ matcherResolves(sc, path) /\ ~Hidden(sc, field(sc, path)))
  OBVIOUS
<1>3. Leaf(store, accepted, patch, matched)
  BY <1>1, <1>2 DEF VisitPresence, Leaf, Compiled
<1>4. sc \in Attributes \cup {NoScope} /\ url \in BOOLEAN
  BY <1>1 DEF WalkInv, WalkOK
<1>5. accepted \in BOOLEAN /\ matched \in BOOLEAN
  BY <1>2 DEF AcceptsPresence
<1>6. ASSUME accepted
      PROVE  IF sc # NoScope THEN store \subseteq Positions(sc) /\ BlindToElements(sc, store, url)
             ELSE store \subseteq Ids /\ BlindToResources(store, url)
  <2>1. CASE sc # NoScope
    <3>1. store \subseteq Positions(sc)
      BY <2>1, <1>2 DEF Present
    <3>2. BlindToElements(sc, store, url)
      BY <2>1, <1>2, <1>4, <1>6, ElementPresenceBlind
    <3> QED BY <2>1, <3>1, <3>2
  <2>2. CASE sc = NoScope
    <3>1. store \subseteq Ids
      BY <2>2, <1>2 DEF Present
    <3>2. BlindToResources(store, url)
      BY <2>2, <1>2, <1>4, <1>6, ResourcePresenceBlind
    <3> QED BY <2>2, <3>1, <3>2
  <2> QED BY <2>1, <2>2
<1>7. ASSUME matched PROVE sc # NoScope /\ patch \subseteq Positions(sc) /\ BlindToElements(sc, patch, FALSE)
  <2>1. sc # NoScope /\ sc \in Attributes /\ matcherResolves(sc, path) /\ ~Hidden(sc, field(sc, path))
    BY <1>2, <1>4, <1>7
  <2>2. patch \subseteq Positions(sc)
    BY <1>2 DEF matcherPresent
  <2>3. BlindToElements(sc, patch, FALSE)
    BY <1>2, <2>1, MatcherPresenceBlind
  <2> QED BY <2>1, <2>2, <2>3
<1>8. ASSUME accepted, matched PROVE store = patch
  <2>1. sc # NoScope /\ ResolvesWithin(sc, path)
    BY <1>2, <1>8 DEF AcceptsPresence
  <2>2. field(sc, path) = path.name
    BY <2>1 DEF ResolvesWithin, field
  <2> QED BY <1>2, <2>1, <2>2 DEF Present, matcherPresent
<1>9. /\ accepted => IF sc # NoScope THEN store \subseteq Positions(sc) /\ BlindToElements(sc, store, url)
                     ELSE store \subseteq Ids /\ BlindToResources(store, url)
      /\ matched => sc # NoScope /\ patch \subseteq Positions(sc) /\ BlindToElements(sc, patch, FALSE)
      /\ accepted /\ matched => store = patch
  BY <1>6, <1>7, <1>8, Zenon
<1> QED BY <1>1, <1>3, <1>5, <1>9, LeafKeepsInv, Zenon
(***************************************************************************)
(* "and", "or" and "not".                                                  *)
(***************************************************************************)
LEMMA OperatorKeepsInv ==
    ASSUME WalkInv, NEW sc, NEW url, sc = scope, url = inURI, NEW arity \in Nat, arity >= 1, NEW store, NEW patch,
           Operator(arity, store, patch),
           sc # NoScope => store \subseteq Positions(sc) /\ BlindToElements(sc, store, url) /\ BlindToElements(sc, patch, FALSE),
           sc = NoScope => BlindToResources(store, url),
           store \subseteq Universe, patch \subseteq Universe,
           scope # NoScope /\ ~refused /\ ~denied => store = patch
    PROVE  WalkInv'
<1>1. /\ refused \in BOOLEAN /\ denied \in BOOLEAN /\ sc \in Attributes \cup {NoScope}
      /\ stack \in Seq(Predicates) /\ mark \in 0..Len(stack)
  BY DEF WalkInv, WalkOK
<1>2. /\ Len(stack) >= mark + arity
      /\ UNCHANGED <<inURI, scope, mark, refused, denied>>
      /\ stack' = Append(SubSeq(stack, 1, Len(stack) - arity),
                         [store |-> IF refused' THEN {} ELSE store, patch |-> IF denied' THEN {} ELSE patch])
  BY DEF Operator, Compiled
<1>3. PICK st, pt, x, n : /\ st = (IF refused' THEN {} ELSE store) /\ pt = (IF denied' THEN {} ELSE patch)
                          /\ x = [store |-> st, patch |-> pt] /\ n = Len(stack) - arity
  OBVIOUS
<1>4. st \in {{}, store} /\ pt \in {{}, patch} /\ (~refused => st = store) /\ (~denied => pt = patch)
  BY <1>1, <1>2, <1>3
<1>5. st \subseteq Universe /\ pt \subseteq Universe
  BY <1>1, <1>4 DEF Universe
<1>6. x \in Predicates /\ x.store = st /\ x.patch = pt
  BY <1>3, <1>5 DEF Predicates
<1>7. Fits(x, sc, url)
  <2>1. CASE sc # NoScope
    <3>1. st \subseteq Positions(sc) /\ BlindToElements(sc, st, url)
      BY <2>1, <1>4 DEF BlindToElements
    <3>2. BlindToElements(sc, pt, FALSE)
      BY <2>1, <1>4 DEF BlindToElements
    <3> QED BY <2>1, <3>1, <3>2, <1>6 DEF Fits
  <2>2. CASE sc = NoScope
    <3>1. BlindToResources(st, url)
      BY <2>2, <1>4 DEF BlindToResources
    <3> QED BY <2>2, <3>1, <1>6 DEF Fits
  <2> QED BY <2>1, <2>2
<1>8. stack' = Append(SubSeq(stack, 1, n), x) /\ n \in 0..Len(stack) /\ mark <= n
  BY <1>1, <1>2, <1>3
<1>9. scope # NoScope /\ ~refused' /\ ~denied' => x.store = x.patch
  BY <1>2, <1>4, <1>6
<1>10. refused' \in BOOLEAN /\ denied' \in BOOLEAN /\ (refused => refused') /\ (denied => denied')
  BY <1>1, <1>2
<1> QED BY <1>2, <1>6, <1>7, <1>8, <1>9, <1>10, NodeKeepsInv

(***************************************************************************)
(* What the parts of a node are, when it is one of the last `arity`.       *)
(***************************************************************************)
LEMMA PartsAre ==
    ASSUME WalkInv, NEW sc, NEW url, sc = scope, url = inURI, NEW k \in 1..Len(stack), k > mark
    PROVE  /\ stack[k].store \subseteq Universe /\ stack[k].patch \subseteq Universe
           /\ sc # NoScope => /\ stack[k].store \subseteq Positions(sc)
                              /\ BlindToElements(sc, stack[k].store, url)
                              /\ BlindToElements(sc, stack[k].patch, FALSE)
           /\ sc = NoScope => BlindToResources(stack[k].store, url)
           /\ sc # NoScope /\ ~refused /\ ~denied => stack[k].store = stack[k].patch
<1>1. stack[k] \in Predicates /\ k \in (mark + 1)..Len(stack) /\ k \in 1..Len(stack)
  BY DEF WalkInv, WalkOK
<1>2. stack[k].store \subseteq Universe /\ stack[k].patch \subseteq Universe
  BY <1>1 DEF Predicates
<1>3. sc # NoScope => stack[k].store \subseteq Positions(sc)
  BY <1>1 DEF WalkInv, WalkOK
<1>4. IF sc # NoScope
      THEN BlindToElements(sc, stack[k].store, url) /\ BlindToElements(sc, stack[k].patch, FALSE)
      ELSE BlindToResources(stack[k].store, url)
  BY <1>1 DEF WalkInv, Kept
<1>5. sc # NoScope /\ ~refused /\ ~denied => stack[k].store = stack[k].patch
  BY <1>1 DEF WalkInv, ValueFiltersAgree
<1> QED BY <1>2, <1>3, <1>4, <1>5
LEMMA PairKeepsInv ==
    ASSUME WalkInv, VisitAnd \/ VisitOr
    PROVE  WalkInv'
<1>1. PICK sc, url, n, X, Y, P, Q :
        /\ sc = scope /\ url = inURI /\ n = Len(stack)
        /\ X = stack[n - 1].store /\ Y = stack[n].store /\ P = stack[n - 1].patch /\ Q = stack[n].patch
  OBVIOUS
<1>2. stack \in Seq(Predicates) /\ mark \in 0..Len(stack) /\ n \in Nat /\ n >= mark + 2
  BY <1>1 DEF WalkInv, WalkOK, VisitAnd, VisitOr, Operator
<1>3. /\ n \in 1..Len(stack) /\ n > mark
      /\ n - 1 \in 1..Len(stack) /\ n - 1 > mark
  BY <1>1, <1>2
<1>4. /\ X \subseteq Universe /\ P \subseteq Universe
      /\ sc # NoScope => X \subseteq Positions(sc) /\ BlindToElements(sc, X, url) /\ BlindToElements(sc, P, FALSE)
      /\ sc = NoScope => BlindToResources(X, url)
      /\ sc # NoScope /\ ~refused /\ ~denied => X = P
  BY <1>1, <1>3, PartsAre
<1>5. /\ Y \subseteq Universe /\ Q \subseteq Universe
      /\ sc # NoScope => Y \subseteq Positions(sc) /\ BlindToElements(sc, Y, url) /\ BlindToElements(sc, Q, FALSE)
      /\ sc = NoScope => BlindToResources(Y, url)
      /\ sc # NoScope /\ ~refused /\ ~denied => Y = Q
  BY <1>1, <1>3, PartsAre
<1>6. CASE VisitAnd
  <2>1. PICK S, T : S = X \cap Y /\ T = P \cap Q
    OBVIOUS
  <2>2. Operator(2, S, T)
    BY <1>1, <1>6, <2>1 DEF VisitAnd, Operator, Compiled, Top, Second
  <2>3. /\ sc # NoScope => S \subseteq Positions(sc) /\ BlindToElements(sc, S, url) /\ BlindToElements(sc, T, FALSE)
        /\ sc = NoScope => BlindToResources(S, url)
    BY <2>1, <1>4, <1>5 DEF BlindToElements, BlindToResources
  <2>4. S \subseteq Universe /\ T \subseteq Universe /\ (scope # NoScope /\ ~refused /\ ~denied => S = T)
    BY <2>1, <1>1, <1>4, <1>5
  <2>5. PICK k : k = 2
    OBVIOUS
  <2>6. Operator(k, S, T) /\ k \in Nat /\ k >= 1
    BY <2>2, <2>5
  <2> QED BY <1>1, <2>3, <2>4, <2>6, OperatorKeepsInv, Zenon
<1>7. CASE VisitOr
  <2>1. PICK S, T : S = X \cup Y /\ T = P \cup Q
    OBVIOUS
  <2>2. Operator(2, S, T)
    BY <1>1, <1>7, <2>1 DEF VisitOr, Operator, Compiled, Top, Second
  <2>3. /\ sc # NoScope => S \subseteq Positions(sc) /\ BlindToElements(sc, S, url) /\ BlindToElements(sc, T, FALSE)
        /\ sc = NoScope => BlindToResources(S, url)
    BY <2>1, <1>4, <1>5 DEF BlindToElements, BlindToResources
  <2>4. S \subseteq Universe /\ T \subseteq Universe /\ (scope # NoScope /\ ~refused /\ ~denied => S = T)
    BY <2>1, <1>1, <1>4, <1>5
  <2>5. PICK k : k = 2
    OBVIOUS
  <2>6. Operator(k, S, T) /\ k \in Nat /\ k >= 1
    BY <2>2, <2>5
  <2> QED BY <1>1, <2>3, <2>4, <2>6, OperatorKeepsInv, Zenon
<1> QED BY <1>6, <1>7

LEMMA NotKeepsInv ==
    ASSUME WalkInv, VisitNot
    PROVE  WalkInv'
<1>1. PICK sc, url, n, Y, Q :
        sc = scope /\ url = inURI /\ n = Len(stack) /\ Y = stack[n].store /\ Q = stack[n].patch
  OBVIOUS
<1>2. /\ stack \in Seq(Predicates) /\ mark \in 0..Len(stack) /\ n \in Nat /\ n >= mark + 1
      /\ sc \in Attributes \cup {NoScope}
  BY <1>1 DEF WalkInv, WalkOK, VisitNot, Operator
<1>3. n \in 1..Len(stack) /\ n > mark
  BY <1>1, <1>2
<1>4. /\ Y \subseteq Universe /\ Q \subseteq Universe
      /\ sc # NoScope => Y \subseteq Positions(sc) /\ BlindToElements(sc, Y, url) /\ BlindToElements(sc, Q, FALSE)
      /\ sc = NoScope => BlindToResources(Y, url)
      /\ sc # NoScope /\ ~refused /\ ~denied => Y = Q
  BY <1>1, <1>3, PartsAre
<1>5. PICK U, S, T : U = (IF sc = NoScope THEN Ids ELSE Positions(sc)) /\ S = U \ Y /\ T = U \ Q
  OBVIOUS
<1>6. Operator(1, S, T)
  BY <1>1, <1>5 DEF VisitNot, Operator, Compiled, Top, All
<1>7. /\ sc # NoScope => S \subseteq Positions(sc) /\ BlindToElements(sc, S, url) /\ BlindToElements(sc, T, FALSE)
      /\ sc = NoScope => BlindToResources(S, url)
  BY <1>4, <1>5 DEF BlindToElements, BlindToResources, AlikeAt, AlikeAll
<1>8. S \subseteq Universe /\ T \subseteq Universe /\ (scope # NoScope /\ ~refused /\ ~denied => S = T)
  BY <1>1, <1>2, <1>4, <1>5 DEF Universe
<1>9. PICK k : k = 1
  OBVIOUS
<1>10. Operator(k, S, T) /\ k \in Nat /\ k >= 1
  BY <1>6, <1>9
<1> QED BY <1>1, <1>7, <1>8, <1>10, OperatorKeepsInv, Zenon

(***************************************************************************)
(* A value path is entered with nothing in it, and left with a predicate   *)
(* on resources.                                                           *)
(***************************************************************************)
LEMMA EnterKeepsInv ==
    ASSUME WalkInv, NEW path \in Paths, EnterValuePath(path)
    PROVE  WalkInv'
<1>1. /\ scope = NoScope /\ stack \in Seq(Predicates) /\ inURI \in BOOLEAN /\ denied \in BOOLEAN
      /\ scope' = path.name /\ path.name \in Attributes
      /\ mark' = Len(stack) /\ UNCHANGED <<inURI, stack>>
      /\ refused' = (path.name \in Withheld) /\ denied' = FALSE
  BY DEF WalkInv, WalkOK, EnterValuePath, Resolves
<1>2. Len(stack) \in Nat /\ mark' \in 0..Len(stack') /\ (mark' + 1)..Len(stack') = {}
  BY <1>1
<1>3. WalkOK'
  <2>1. CASE path.name \in Withheld
    <3>1. refused' = TRUE /\ denied' = FALSE
      BY <1>1, <2>1
    <3> QED BY <1>1, <1>2, <3>1 DEF WalkOK
  <2>2. CASE path.name \notin Withheld
    <3>0. (path.name \in Withheld) = FALSE
      BY <2>2
    <3>1. refused' = FALSE /\ denied' = FALSE
      BY <1>1, <3>0
    <3> QED BY <1>1, <1>2, <3>1 DEF WalkOK
  <2> QED BY <2>1, <2>2
<1>4. \A k \in 1..Len(stack) : ~(k > mark') /\ BlindToResources(stack[k].store, inURI)
  BY <1>1, <1>2 DEF WalkInv, Kept
<1>5. Kept(stack, scope, mark, inURI)'
  BY <1>1, <1>4 DEF Kept
<1>6. ValueFiltersAgree'
  BY <1>2 DEF ValueFiltersAgree
<1> QED BY <1>3, <1>5, <1>6 DEF WalkInv

LEMMA LeaveKeepsInv ==
    ASSUME WalkInv, LeaveValuePath
    PROVE  WalkInv'
<1>1. /\ stack \in Seq(Predicates) /\ mark \in 0..Len(stack) /\ Len(stack) = mark + 1 /\ scope # NoScope
      /\ scope \in Attributes \cup {NoScope} /\ inURI \in BOOLEAN /\ refused = FALSE
      /\ inURI' = inURI /\ refused' = refused /\ denied' = TRUE /\ scope' = NoScope /\ mark' = 0
      /\ stack' = Append(SubSeq(stack, 1, mark), [store |-> {p[1] : p \in stack[Len(stack)].store}, patch |-> {}])
  BY DEF WalkInv, WalkOK, LeaveValuePath, Compiled, Top
<1>2. PICK sc, url, n, X, Y, x, old, new :
        /\ sc = scope /\ url = inURI /\ n = mark /\ X = stack[n + 1].store /\ Y = {p[1] : p \in X}
        /\ x = [store |-> Y, patch |-> {}] /\ old = stack /\ new = stack'
  OBVIOUS
<1>3. sc \in Attributes /\ n \in Nat /\ n + 1 \in 1..Len(stack) /\ n + 1 > mark
  BY <1>1, <1>2
<1>4. X \subseteq Positions(sc) /\ BlindToElements(sc, X, url)
  BY <1>1, <1>2, <1>3, PartsAre
<1>5. Y \subseteq Ids
  <2>1. \A p \in X : \E id \in Ids : \E i \in DOMAIN Held[id][sc] : p = <<id, i>>
    BY <1>3, <1>4, PositionIs
  <2> QED BY <1>2, <2>1
<1>6. BlindToResources(Y, url)
  BY <1>2, <1>3, <1>4, ValuePathBlind
<1>7. x \in Predicates /\ x.store = Y
  BY <1>2, <1>5 DEF Predicates, Universe
<1>8. old \in Seq(Predicates) /\ n \in 0..Len(old) /\ new = Append(SubSeq(old, 1, n), x)
  BY <1>1, <1>2
<1>9. /\ new \in Seq(Predicates) /\ Len(new) = n + 1 /\ new[n + 1] = x
      /\ \A k \in 1..n : new[k] = old[k]
  BY <1>7, <1>8, PushedStack
<1>10. WalkOK'
  <2>1. inURI' \in BOOLEAN /\ refused' \in BOOLEAN /\ denied' \in BOOLEAN
    BY <1>1
  <2>2. stack' \in Seq(Predicates) /\ mark' \in 0..Len(stack')
    BY <1>1, <1>2, <1>3, <1>9
  <2> QED BY <1>1, <2>1, <2>2 DEF WalkOK
<1>11. \A k \in 1..Len(new) : BlindToResources(new[k].store, url)
  <2>1. ASSUME NEW k \in 1..Len(new) PROVE BlindToResources(new[k].store, url)
    <3>1. CASE k \in 1..n
      <4>1. k \in 1..Len(stack) /\ ~(k > mark)
        BY <3>1, <1>1, <1>2
      <4> QED BY <3>1, <4>1, <1>2, <1>9 DEF WalkInv, Kept
    <3>2. CASE k = n + 1
      BY <3>2, <1>6, <1>7, <1>9
    <3> QED BY <3>1, <3>2, <1>3, <1>9
  <2> QED BY <2>1
<1>12. Kept(stack, scope, mark, inURI)'
  BY <1>1, <1>2, <1>11 DEF Kept
<1>13. ValueFiltersAgree'
  BY <1>1 DEF ValueFiltersAgree
<1> QED BY <1>10, <1>12, <1>13 DEF WalkInv
LEMMA WalkInit == Init => WalkInv
<1> SUFFICES ASSUME Init PROVE WalkInv
  OBVIOUS
<1>1. stack = <<>> /\ Len(stack) = 0 /\ scope = NoScope /\ mark = 0 /\ inURI \in BOOLEAN /\ refused = FALSE /\ denied = TRUE
  BY DEF Init
<1>2. WalkOK
  <2>1. stack \in Seq(Predicates) /\ mark \in 0..Len(stack)
    BY <1>1
  <2>2. refused \in BOOLEAN /\ denied \in BOOLEAN
    BY <1>1
  <2> QED BY <1>1, <2>1, <2>2 DEF WalkOK
<1> QED BY <1>1, <1>2 DEF WalkInv, Kept, ValueFiltersAgree

LEMMA WalkNext == WalkInv /\ [Next]_vars => WalkInv'
<1> SUFFICES ASSUME WalkInv, [Next]_vars PROVE WalkInv'
  OBVIOUS
<1>1. ASSUME NEW path \in Paths, VisitPresence(path) PROVE WalkInv'
  BY <1>1, PresenceKeepsInv
<1>2. ASSUME NEW path \in Paths, EnterValuePath(path) PROVE WalkInv'
  BY <1>2, EnterKeepsInv
<1>3. ASSUME NEW path \in Paths, NoValuePath(path) PROVE WalkInv'
  <2>1. UNCHANGED <<inURI, scope, mark, stack, denied>> /\ refused' = TRUE
    BY <1>3 DEF NoValuePath
  <2>2. WalkOK'
    BY <2>1 DEF WalkInv, WalkOK, Positions
  <2> QED BY <2>1, <2>2 DEF WalkInv, Kept, ValueFiltersAgree
<1>4. ASSUME NEW path \in Paths, NEW op \in Operators, NEW literal \in Literals, VisitComparison(path, op, literal)
      PROVE  WalkInv'
  BY <1>4, ComparisonKeepsInv
<1>5. CASE VisitAnd \/ VisitOr
  BY <1>5, PairKeepsInv
<1>6. CASE VisitNot
  BY <1>6, NotKeepsInv
<1>7. CASE LeaveValuePath
  BY <1>7, LeaveKeepsInv
<1>8. CASE UNCHANGED vars
  <2>1. UNCHANGED <<inURI, scope, mark, stack, refused, denied>>
    BY <1>8 DEF vars
  <2>2. WalkOK'
    BY <2>1 DEF WalkInv, WalkOK, Positions
  <2> QED BY <2>1, <2>2 DEF WalkInv, Kept, ValueFiltersAgree
<1> QED BY <1>1, <1>2, <1>3, <1>4, <1>5, <1>6, <1>7, <1>8 DEF Next

LEMMA WalkInvAlways == Spec => []WalkInv
  BY WalkInit, WalkNext, PTL DEF Spec

(***************************************************************************)
(* A filter of any size tells nothing of the values that are never         *)
(* returned, in a URL, and nothing beyond equality in a body: conceal,     *)
(* the matcher's check, and what "and", "or", "not" and ValuePath do with  *)
(* the predicates of their parts.                                          *)
(***************************************************************************)
THEOREM HiddenStaysHidden == Spec => []Concealed
<1>1. WalkInv => Concealed
  BY ConcealedIsKept DEF WalkInv
<1> QED BY <1>1, WalkInvAlways, PTL

(***************************************************************************)
(* The store and the patch engine select the same elements by any value    *)
(* filter that both take (evaluator.go, matcher.go).                       *)
(***************************************************************************)
THEOREM VisitorsAgree == Spec => []ValueFiltersAgree
<1>1. WalkInv => ValueFiltersAgree
  BY DEF WalkInv
<1> QED BY <1>1, WalkInvAlways, PTL
-----------------------------------------------------------------------------
(* Spellings. *)

(***************************************************************************)
(* What the literal of a caseless attribute is compared as has no case     *)
(* (attribute.go Fold).                                                    *)
(***************************************************************************)
LEMMA FoldedLiteral ==
    ASSUME NEW sub, sub.type = "string", ~sub.exact, NEW l, l.type = "string"
    PROVE  Fold(sub, Coerce(sub.type, l)) = Text(Lower(l.v))
<1>1. l # Nil
  BY DEF Nil
<1>2. Coerce(sub.type, l) = l
  BY <1>1 DEF Coerce
<1> QED BY <1>2 DEF Fold

LEMMA CaseSpellings ==
    ASSUME NEW path \in Paths, NEW op \in Operators, NEW literal, NEW other, NEW url,
           Accepts(NoScope, path, op, literal, url),
           Caseless(path.name, subject(path)), literal.type = "string", other.type = "string",
           Lower(other.v) = Lower(literal.v)
    PROVE  Compared(NoScope, path, op, other) = Compared(NoScope, path, op, literal)
<1>0. PICK a, s, sub : a = path.name /\ s = subject(path) /\ sub = Subs(a)[s]
  OBVIOUS
<1>1. TypeOf(a, s) = sub.type
  BY <1>0, AcceptedSub
<1>2. sub.type = "string" /\ ~sub.exact
  BY <1>0 DEF Caseless
<1>3. Fold(sub, Coerce(TypeOf(a, s), other)) = Fold(sub, Coerce(TypeOf(a, s), literal))
  BY <1>1, <1>2, FoldedLiteral
<1> QED BY <1>0, <1>3 DEF Compared

(***************************************************************************)
(* A value path with one comparison selects what the comparison of the     *)
(* sub-attribute selects among the resources with elements (evaluator.go   *)
(* ValuePath and Compare).                                                 *)
(***************************************************************************)
LEMMA PathSpellings ==
    ASSUME NEW path \in Paths, NEW op \in Operators, NEW literal, NEW url,
           Accepts(NoScope, path, op, literal, url),
           Definition[path.name].multi, Definition[path.name].complex,
           NEW within, within = [path EXCEPT !.name = subject(path), !.sub = Self]
    PROVE  /\ Accepts(path.name, within, op, literal, url)
           /\ {p[1] : p \in Compared(path.name, within, op, literal)}
                = {id \in Compared(NoScope, path, op, literal) : Held[id][path.name] # <<>>}
<1>0. PICK a, s, sub, want : a = path.name /\ s = subject(path) /\ sub = Subs(a)[s]
                             /\ want = Fold(sub, Coerce(sub.type, literal))
  OBVIOUS
<1>1. /\ a \in Attributes /\ s \in DOMAIN Subs(a)
      /\ compareAccepts(a, s, op, literal, url) /\ TypeOf(a, s) = sub.type
  BY <1>0, AcceptedSub
<1>2. a # NoScope
  BY <1>1, FilterAssumption
<1>3. within.name = s /\ within.sub = Self
  <2>1. path \in [qualified : BOOLEAN, name : STRING, sub : STRING]
    BY FilterAssumption
  <2> QED BY <1>0, <2>1
<1>4. Accepts(a, within, op, literal, url)
  BY <1>0, <1>1, <1>2, <1>3 DEF Accepts, ResolvesWithin, IsSimple
<1>5. PICK inner, outer : inner = Compared(a, within, op, literal) /\ outer = Compared(NoScope, path, op, literal)
  OBVIOUS
<1>6. inner = {p \in Positions(a) : Match(op, Observed(sub, Coerce(sub.type, ElementAt(a, p)[s])), want)}
  BY <1>0, <1>1, <1>2, <1>3, <1>5 DEF Compared, anyMatch
<1>7. outer = {id \in Ids : anyMatch(op, Values(id, a, s), sub, want)}
  BY <1>0, <1>1, <1>5 DEF Compared
<1>8. \A id \in Ids : Held[id][a] # <<>> =>
        (anyMatch(op, Values(id, a, s), sub, want)
           <=> \E n \in DOMAIN Held[id][a] : Match(op, Observed(sub, Coerce(sub.type, Held[id][a][n][s])), want))
  BY <1>1, MatchesOneOf
<1>9. ASSUME NEW p \in inner PROVE p[1] \in outer /\ Held[p[1]][a] # <<>>
  <2>1. PICK id \in Ids : \E i \in DOMAIN Held[id][a] : p = <<id, i>>
    BY <1>1, <1>6, PositionIs
  <2>2. PICK i \in DOMAIN Held[id][a] : p = <<id, i>>
    BY <2>1
  <2>3. ElementAt(a, p) = Held[id][a][i] /\ p[1] = id
    BY <2>2 DEF ElementAt
  <2>4. Held[id][a] # <<>>
    BY <2>2, <1>1, HeldIs
  <2>5. Match(op, Observed(sub, Coerce(sub.type, Held[id][a][i][s])), want)
    BY <1>6, <2>3
  <2> QED BY <1>7, <1>8, <2>3, <2>4, <2>5
<1>10. ASSUME NEW id \in outer, Held[id][a] # <<>> PROVE \E p \in inner : p[1] = id
  <2>1. id \in Ids
    BY <1>7
  <2>2. PICK n \in DOMAIN Held[id][a] : Match(op, Observed(sub, Coerce(sub.type, Held[id][a][n][s])), want)
    BY <1>7, <1>8, <1>10, <2>1
  <2>3. PICK p : p = <<id, n>>
    OBVIOUS
  <2>4. p \in Positions(a) /\ ElementAt(a, p) = Held[id][a][n] /\ p[1] = id
    BY <2>1, <2>3, <1>1, PositionIs DEF ElementAt
  <2> QED BY <2>2, <2>4, <1>6
<1>11. {p[1] : p \in inner} = {id \in outer : Held[id][a] # <<>>}
  BY <1>9, <1>10
<1> QED BY <1>0, <1>4, <1>5, <1>11

(***************************************************************************)
(* What a value and a literal of an attribute are compared as: a value is  *)
(* either nothing or of the kind of the literal (compare.go Coerce).       *)
(***************************************************************************)
LEMMA ComparedKinds ==
    ASSUME NEW sub, NEW v, NEW l, Coerces(sub.type, v), Coerces(sub.type, l),
           NEW got, got = Observed(sub, Coerce(sub.type, v)),
           NEW want, want = Fold(sub, Coerce(sub.type, l))
    PROVE  got = Nil \/ want = Nil \/ Comparable(got, want)
<1> DEFINE kind(t) ==
      CASE t \in {"string", "reference", "binary"} -> "string"
        [] t = "boolean" -> "bool" [] t = "decimal" -> "float" [] t = "integer" -> "int" [] t = "dateTime" -> "time"
        [] OTHER -> "none"
<1>1. ASSUME NEW x, Coerces(sub.type, x), x # Nil
      PROVE  Coerce(sub.type, x).type = kind(sub.type) /\ kind(sub.type) # "none"
  BY <1>1 DEF Coerces, Coerce
<1>2. kind(sub.type) \notin {"nil", "list"}
  OBVIOUS
<1>3. \A x : Fold(sub, x).type = x.type
  BY DEF Fold, Text
<1>4. Coerce(sub.type, Nil) = Nil
  BY DEF Coerce
<1>5. CASE l = Nil
  <2>1. want = Nil
    BY <1>4, <1>5 DEF Fold, Nil
  <2> QED BY <2>1
<1>6. CASE v # Nil /\ l # Nil
  <2>1. Coerce(sub.type, v).type = kind(sub.type) /\ Coerce(sub.type, l).type = kind(sub.type)
    BY <1>1, <1>6
  <2>2. PICK x : x = Coerce(sub.type, v)
    OBVIOUS
  <2>3. x # Nil
    BY <2>1, <2>2, <1>2 DEF Nil
  <2>4. got = Fold(sub, x)
    BY <2>2, <2>3 DEF Observed, Defaulted
  <2>5. got.type = kind(sub.type) /\ want.type = kind(sub.type)
    BY <1>3, <2>1, <2>2, <2>4
  <2> HIDE DEF kind
  <2> QED BY <2>5, <1>2 DEF Comparable
<1>7. CASE v = Nil /\ l # Nil
  <2>1. CASE sub.type = "boolean" /\ sub.name = "primary"
    <3>1. got = Fold(sub, False)
      BY <1>4, <1>7, <2>1 DEF Observed, Defaulted
    <3>2. got.type = "bool"
      BY <3>1, <1>3 DEF False
    <3>3. want.type = "bool"
      BY <1>1, <1>3, <1>7, <2>1
    <3> QED BY <3>2, <3>3 DEF Comparable
  <2>2. CASE ~(sub.type = "boolean" /\ sub.name = "primary")
    <3>1. got = Fold(sub, Nil)
      BY <1>4, <1>7, <2>2 DEF Observed, Defaulted
    <3> QED BY <3>1 DEF Fold, Nil
  <2> QED BY <2>1, <2>2
<1> QED BY <1>5, <1>6, <1>7

LEMMA NotEqual ==
    ASSUME NEW got, NEW want, got = Nil \/ want = Nil \/ Comparable(got, want)
    PROVE  Match("ne", got, want) <=> ~Match("eq", got, want)
<1>1. CASE want = Nil
  BY <1>1 DEF Match, matchNull
<1>2. CASE want # Nil /\ Comparable(got, want)
  BY <1>2 DEF Match, holds
<1>3. CASE want # Nil /\ ~Comparable(got, want)
  <2>1. got = Nil /\ IsUnassigned(got)
    BY <1>3 DEF IsUnassigned
  <2> QED BY <1>3, <2>1 DEF Match
<1> QED BY <1>1, <1>2, <1>3

(***************************************************************************)
(* On a single value "ne" is the negation of "eq" (compare.go Match).      *)
(***************************************************************************)
LEMMA NegationSpellings ==
    ASSUME NEW path \in Paths, NEW literal, NEW url,
           Accepts(NoScope, path, "eq", literal, url), ~Definition[path.name].multi
    PROVE  Compared(NoScope, path, "ne", literal) = Ids \ Compared(NoScope, path, "eq", literal)
<1>0. PICK a, s, sub, want : a = path.name /\ s = subject(path) /\ sub = Subs(a)[s]
                             /\ want = Fold(sub, Coerce(sub.type, literal))
  OBVIOUS
<1>1. /\ a \in Attributes /\ s \in DOMAIN Subs(a)
      /\ compareAccepts(a, s, "eq", literal, url) /\ TypeOf(a, s) = sub.type
  <2>1. "eq" \in Operators
    BY DEF Operators
  <2> QED BY <1>0, <2>1, AcceptedSub
<1>2. Coerces(sub.type, literal)
  BY <1>1 DEF compareAccepts
<1>3. \A op : Compared(NoScope, path, op, literal) = {id \in Ids : anyMatch(op, Values(id, a, s), sub, want)}
  BY <1>0, <1>1 DEF Compared
<1>4. ASSUME NEW id \in Ids
      PROVE  anyMatch("ne", Values(id, a, s), sub, want) <=> ~anyMatch("eq", Values(id, a, s), sub, want)
  <2>1. Len(Held[id][a]) = 1 /\ DOMAIN Held[id][a] = 1..Len(Held[id][a]) /\ Held[id][a] # <<>>
    <3>1. Held[id][a] \in Seq([DOMAIN Subs(a) -> Scalar]) /\ DOMAIN Held[id][a] = 1..Len(Held[id][a])
      BY <1>1, HeldIs
    <3>2. Len(Held[id][a]) = 1
      BY <1>0, <1>1, FilterAssumption
    <3>3. PICK S, h : S = [DOMAIN Subs(a) -> Scalar] /\ h = Held[id][a]
      OBVIOUS
    <3>4. h \in Seq(S) /\ Len(h) = 1 => h # <<>>
      OBVIOUS
    <3> QED BY <3>1, <3>2, <3>3, <3>4
  <2>2. DOMAIN Held[id][a] = {1}
    BY <2>1
  <2>3. PICK v, got : v = Held[id][a][1][s] /\ got = Observed(sub, Coerce(sub.type, v))
    OBVIOUS
  <2>4. Coerces(sub.type, v)
    BY <1>0, <1>1, <2>2, <2>3, FilterAssumption
  <2>5. \A op : anyMatch(op, Values(id, a, s), sub, want) <=> Match(op, got, want)
    BY <1>1, <2>1, <2>2, <2>3, MatchesOneOf
  <2>6. got = Nil \/ want = Nil \/ Comparable(got, want)
    BY <1>0, <1>2, <2>3, <2>4, ComparedKinds
  <2> QED BY <2>5, <2>6, NotEqual
<1> QED BY <1>3, <1>4
(***************************************************************************)
(* Filters that say the same thing select the same resources, whatever     *)
(* the schema and the resources: SpellingsAgree is about any filter of one *)
(* leaf, and the walk has not begun when it is asked for.                  *)
(***************************************************************************)
THEOREM SameFilterSameAnswer == Spec => []SpellingsAgree
<1>1. SpellingsAgree
  <2>1. SUFFICES ASSUME NEW path \in Paths, NEW op \in Operators, NEW literal \in Literals,
                        Accepts(NoScope, path, op, literal, inURI)
                 PROVE  LET a == path.name
                            s == subject(path)
                            within == [path EXCEPT !.name = s, !.sub = Self]
                            selected == Compared(NoScope, path, op, literal)
                        IN  /\ \A other \in Literals :
                                 Caseless(a, s) /\ literal.type = "string" /\ other.type = "string"
                                   /\ Lower(other.v) = Lower(literal.v)
                                 => Compared(NoScope, path, op, other) = selected
                            /\ Definition[a].multi /\ Definition[a].complex =>
                                 /\ Accepts(a, within, op, literal, inURI)
                                 /\ {p[1] : p \in Compared(a, within, op, literal)}
                                      = {id \in selected : Held[id][a] # <<>>}
                            /\ ~Definition[a].multi /\ op = "eq" /\ Accepts(NoScope, path, "ne", literal, inURI) =>
                                 Compared(NoScope, path, "ne", literal) = Ids \ selected
    BY DEF SpellingsAgree
  <2> DEFINE within == [path EXCEPT !.name = subject(path), !.sub = Self]
  <2>2. PICK url : url = inURI
    OBVIOUS
  <2>3. Accepts(NoScope, path, op, literal, url)
    BY <2>1, <2>2
  <2>4. ASSUME NEW other \in Literals, Caseless(path.name, subject(path)), literal.type = "string",
               other.type = "string", Lower(other.v) = Lower(literal.v)
        PROVE  Compared(NoScope, path, op, other) = Compared(NoScope, path, op, literal)
    BY <2>3, <2>4, CaseSpellings
  <2>5. ASSUME Definition[path.name].multi, Definition[path.name].complex
        PROVE  /\ Accepts(path.name, within, op, literal, url)
               /\ {p[1] : p \in Compared(path.name, within, op, literal)}
                    = {id \in Compared(NoScope, path, op, literal) : Held[id][path.name] # <<>>}
    BY <2>3, <2>5, PathSpellings
  <2>6. ASSUME ~Definition[path.name].multi, op = "eq"
        PROVE  Compared(NoScope, path, "ne", literal) = Ids \ Compared(NoScope, path, op, literal)
    BY <2>3, <2>6, NegationSpellings
  <2> QED BY <2>2, <2>4, <2>5, <2>6
<1> QED BY <1>1, PTL
=============================================================================
