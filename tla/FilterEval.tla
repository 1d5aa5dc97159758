----------------------------- MODULE FilterEval -----------------------------
(***************************************************************************)
(* What a filter selects.  filter.Visit walks the syntax tree from the     *)
(* leaves up and calls a visitor, which compiles each node to a predicate. *)
(* There are two: the one of protocol, over the store's evaluator, for     *)
(* `filter=` (pkg/protocol/visitor.go, internal/memory/evaluator.go), and  *)
(* the matcher of the patch engine for a value filter in a path            *)
(* (pkg/patch/matcher.go).  Here both are called for the same value        *)
(* filter, side by side.  A query walks its filter twice with the same     *)
(* rules, in SearchRequest.Validate, which knows where it came from, and   *)
(* in the store; that is one walk here.                                    *)
(*                                                                         *)
(* A predicate is the set of what it holds of: resources, or inside a      *)
(* value path the elements of the attribute.  A resource holds a sequence  *)
(* of elements per attribute, one if it is not multi-valued, and an        *)
(* element one value per sub-attribute; a simple attribute has only Self.  *)
(* Names are compared without case, so a name stands for its spellings.    *)
(***************************************************************************)
EXTENDS Integers, Sequences, SequencesExt

CONSTANTS
    Attributes,
    Definition,   \* of each: extension, multi, complex, hidden, subs
    Withheld,     \* attributes whose values the store cannot compare: password
    Held,         \* the resources
    Paths,        \* attribute paths in a filter: qualified by a URI or not, name, sub
    Literals,     \* comparison values
    Base64,       \* the strings that are base64
    Instant,      \* from the strings that are dateTimes to their instants
    MaxNodes      \* bound: leaves and logical operators in a filter

Self == ""
Ids == DOMAIN Held
NoScope == "none"

Operators == {"eq", "ne", "co", "sw", "ew", "gt", "ge", "lt", "le"}

-----------------------------------------------------------------------------
(* Values.  The payload of a string is its character codes, of a number    *)
(* its double and whether it is written with a point or an exponent.       *)

Scalar == [type : STRING, v : Seq(Int)]

Nil == [type |-> "nil", v |-> <<>>]
EmptyList == [type |-> "list", v |-> <<>>]
False == [type |-> "bool", v |-> <<0>>]
Text(codes) == [type |-> "string", v |-> codes]

IsUnassigned(v) == v \in {Nil, EmptyList, Text(<<>>)}

Coerces(type, v) ==
    \/ v = Nil
    \/ type \in {"string", "reference"} /\ v.type = "string"
    \/ type = "binary" /\ v.type = "string" /\ v.v \in Base64
    \/ type = "boolean" /\ v.type = "bool"
    \/ type = "decimal" /\ v.type = "number"
    \/ type = "integer" /\ v.type = "number" /\ v.v[2] = 0
    \/ type = "dateTime" /\ v.type = "string" /\ v.v \in DOMAIN Instant

Coerce(type, v) ==
    IF v = Nil THEN Nil
    ELSE CASE type = "decimal" -> [type |-> "float", v |-> <<v.v[1]>>]
           [] type = "integer" -> [type |-> "int", v |-> <<v.v[1]>>]
           [] type = "dateTime" -> [type |-> "time", v |-> <<Instant[v.v]>>]
           [] OTHER -> v

Lower(codes) == [i \in DOMAIN codes |-> IF codes[i] \in 65..90 THEN codes[i] + 32 ELSE codes[i]]

\* A sub-attribute is its name, type, exact and hidden.
Fold(sub, v) ==
    IF v.type = "string" /\ sub.type \notin {"binary", "reference"} /\ ~sub.exact
    THEN Text(Lower(v.v)) ELSE v

Defaulted(sub, v) ==
    IF v = Nil /\ sub.type = "boolean" /\ sub.name = "primary" THEN False ELSE v

Observed(sub, v) == Fold(sub, Defaulted(sub, v))

Allowed(type, op) ==
    CASE op \in {"eq", "ne"} -> type # "complex"
      [] op \in {"co", "sw", "ew"} -> type \in {"string", "reference"}
      [] OTHER -> type \in {"string", "reference", "dateTime", "integer", "decimal"}

Less(x, y) ==
    \E n \in 0..Len(x) :
        /\ n < Len(y)
        /\ SubSeq(x, 1, n) = SubSeq(y, 1, n)
        /\ n = Len(x) \/ x[n + 1] < y[n + 1]

Comparable(a, b) == a.type = b.type /\ a.type \notin {"nil", "list"}

substring(op, got, want) ==
    /\ got.type = "string" /\ want.type = "string"
    /\ CASE op = "sw" -> IsPrefix(want.v, got.v)
         [] op = "ew" -> IsSuffix(want.v, got.v)
         [] OTHER -> \E i \in 1..(Len(got.v) + 1) : IsPrefix(want.v, SubSeq(got.v, i, Len(got.v)))

matchNull(op, got) ==
    \/ op = "eq" /\ IsUnassigned(got)
    \/ op = "ne" /\ ~IsUnassigned(got)

holds(op, got, want) ==
    CASE op = "eq" -> got = want
      [] op = "ne" -> got # want
      [] op = "gt" -> Less(want.v, got.v)
      [] op = "ge" -> ~Less(got.v, want.v)
      [] op = "lt" -> Less(got.v, want.v)
      [] op = "le" -> ~Less(want.v, got.v)

Match(op, got, want) ==
    IF want = Nil THEN matchNull(op, got)
    ELSE IF op \in {"co", "sw", "ew"} THEN substring(op, got, want)
    ELSE IF Comparable(got, want) THEN holds(op, got, want)
    ELSE op = "ne" /\ IsUnassigned(got)

-----------------------------------------------------------------------------
(* Schemas. *)

Subs(a) == Definition[a].subs
IsSimple(a) == ~Definition[a].complex

TypeOf(a, s) == IF s = Self /\ Definition[a].complex THEN "complex" ELSE Subs(a)[s].type

\* Mutant: a sub-attribute is hidden only by its own definition.
HiddenItself(a, s) == s \in DOMAIN Subs(a) /\ Subs(a)[s].hidden

Hidden(a, s) == Definition[a].hidden \/ (s \in DOMAIN Subs(a) /\ Subs(a)[s].hidden)

\* Schemas.Resolve: an extension's attributes need its URI.
Resolves(path) ==
    /\ path.name \in Attributes
    /\ Definition[path.name].extension => path.qualified
    /\ path.sub \in DOMAIN Subs(path.name) \cup {Self}

\* Within a value path, a name is a sub-attribute of the scope.
ResolvesWithin(a, path) == ~IsSimple(a) /\ path.name \in DOMAIN Subs(a) /\ path.sub = Self

Positions(a) == UNION {{<<id, i>> : i \in DOMAIN Held[id][a]} : id \in Ids}
ElementAt(a, p) == Held[p[1]][a][p[2]]

\* Resources are decoded into their Go types, so a value has the type of its attribute.
ASSUME FilterAssumption ==
    /\ MaxNodes \in Nat
    /\ NoScope \notin Attributes
    /\ Paths \subseteq [qualified : BOOLEAN, name : STRING, sub : STRING]
    /\ \A a \in Attributes : IsSimple(a) => DOMAIN Subs(a) = {Self}
    /\ \A id \in Ids, a \in Attributes :
         /\ Held[id][a] \in Seq([DOMAIN Subs(a) -> Scalar])
         /\ Definition[a].multi \/ Len(Held[id][a]) = 1
         /\ \A i \in DOMAIN Held[id][a], s \in DOMAIN Subs(a) :
              Coerces(Subs(a)[s].type, Held[id][a][i][s])

-----------------------------------------------------------------------------
(* The store's visitor. *)

\* Of an attribute without values, the sub-attribute reads as an empty list.
Values(id, a, s) ==
    IF Held[id][a] = <<>> THEN {EmptyList}
    ELSE {Coerce(TypeOf(a, s), e[s]) : e \in ToSet(Held[id][a])}

\* Mutant: ne asks that no value be equal.
allMatchNe(op, values, sub, want) ==
    IF op = "ne" THEN \A v \in values : Match(op, Observed(sub, v), want)
    ELSE \E v \in values : Match(op, Observed(sub, v), want)

anyMatch(op, values, sub, want) == \E v \in values : Match(op, Observed(sub, v), want)

\* A multi-valued complex attribute stands for its value sub-attribute.
subject(path) ==
    LET d == Definition[path.name]
    IN  IF path.sub = Self /\ d.complex /\ d.multi /\ "value" \in DOMAIN d.subs
        THEN "value" ELSE path.sub

\* Whether a hidden value may be compared: for equality, and not in a URL.
conceal(a, s, op, inURI) == Hidden(a, s) => ~inURI /\ op = "eq"

compareAccepts(a, s, op, literal, inURI) ==
    /\ conceal(a, s, op, inURI)
    /\ Allowed(TypeOf(a, s), op)
    /\ Coerces(TypeOf(a, s), literal)

Accepts(scope, path, op, literal, inURI) ==
    IF scope # NoScope
    THEN ResolvesWithin(scope, path) /\ compareAccepts(scope, path.name, op, literal, inURI)
    ELSE /\ Resolves(path)
         /\ path.name \notin Withheld
         /\ compareAccepts(path.name, subject(path), op, literal, inURI)

Compared(scope, path, op, literal) ==
    LET a == IF scope # NoScope THEN scope ELSE path.name
        s == IF scope # NoScope THEN path.name ELSE subject(path)
        want == Fold(Subs(a)[s], Coerce(TypeOf(a, s), literal))
    IN  IF scope # NoScope
        THEN {p \in Positions(a) :
                anyMatch(op, {Coerce(TypeOf(a, s), ElementAt(a, p)[s])}, Subs(a)[s], want)}
        ELSE {id \in Ids : anyMatch(op, Values(id, a, s), Subs(a)[s], want)}

AcceptsPresence(scope, path, inURI) ==
    IF scope # NoScope
    THEN ResolvesWithin(scope, path) /\ conceal(scope, path.name, "pr", inURI)
    ELSE Resolves(path) /\ path.name \notin Withheld /\ conceal(path.name, path.sub, "pr", inURI)

\* A complex attribute is present if an element of it has any sub-attribute at all.
Present(scope, path) ==
    IF scope # NoScope
    THEN {p \in Positions(scope) : ~IsUnassigned(ElementAt(scope, p)[path.name])}
    ELSE IF TypeOf(path.name, path.sub) = "complex"
    THEN {id \in Ids : \E e \in ToSet(Held[id][path.name]) : \E s \in DOMAIN e : e[s] # Nil}
    ELSE {id \in Ids : \E v \in Values(id, path.name, path.sub) : ~IsUnassigned(v)}

-----------------------------------------------------------------------------
(* The patch engine's matcher.  Values of attributes that no schema        *)
(* declares, whose type is inferred, are left out.                         *)

matcherResolves(a, path) ==
    /\ ~path.qualified /\ path.sub = Self
    /\ IF IsSimple(a) THEN path.name = "value" ELSE path.name \in DOMAIN Subs(a)

\* The value of a simple element is the element.
field(a, path) == IF IsSimple(a) THEN Self ELSE path.name

check(a, s, op, literal) ==
    /\ Allowed(TypeOf(a, s), op)
    /\ Hidden(a, s) => op = "eq"
    /\ Coerces(TypeOf(a, s), literal)

\* Mutant: the literal keeps its case.
literalAsSent(sub, literal) == Coerce(sub.type, literal)

expected(sub, literal) == Fold(sub, Coerce(sub.type, literal))

leaf(a, path, op, literal) ==
    LET s == field(a, path)
        sub == Subs(a)[s]
    IN  {p \in Positions(a) :
            Match(op, Observed(sub, Coerce(sub.type, ElementAt(a, p)[s])), expected(sub, literal))}

matcherPresent(a, path) ==
    {p \in Positions(a) : ~IsUnassigned(ElementAt(a, p)[field(a, path)])}

-----------------------------------------------------------------------------
(* The walk. *)

VARIABLES
    inURI,     \* the filter came in a URL, not in the body of .search
    scope,     \* the attribute of the value path the walk is in
    mark,      \* how many predicates there were when it got there
    stack,     \* predicates: the store's and, in a value path, the matcher's
    nodes,     \* nodes visited
    refused,   \* the store's visitor has failed
    denied     \* the matcher has failed, or is not used

vars == <<inURI, scope, mark, stack, nodes, refused, denied>>

Going == ~(refused /\ denied)

\* The predicates of a node; a visitor that has failed has none.
Compiled(store, patch) ==
    [store |-> IF refused' THEN {} ELSE store, patch |-> IF denied' THEN {} ELSE patch]

Leaf(store, accepted, patch, matched) ==
    /\ Going
    /\ nodes + 1 + Len(stack) <= MaxNodes
    /\ refused' = (refused \/ ~accepted)
    /\ denied' = (denied \/ ~matched)
    /\ stack' = Append(stack, Compiled(store, patch))
    /\ nodes' = nodes + 1
    /\ UNCHANGED <<inURI, scope, mark>>

VisitComparison(path, op, literal) ==
    Leaf(Compared(scope, path, op, literal), Accepts(scope, path, op, literal, inURI),
         leaf(scope, path, op, literal),
         scope # NoScope /\ matcherResolves(scope, path) /\ check(scope, field(scope, path), op, literal))

VisitPresence(path) ==
    Leaf(Present(scope, path), AcceptsPresence(scope, path, inURI),
         matcherPresent(scope, path),
         scope # NoScope /\ matcherResolves(scope, path) /\ ~Hidden(scope, field(scope, path)))

All == IF scope = NoScope THEN Ids ELSE Positions(scope)

Operator(arity, store, patch) ==
    /\ Going
    /\ Len(stack) >= mark + arity
    /\ nodes < MaxNodes
    /\ UNCHANGED <<inURI, scope, mark, refused, denied>>
    /\ stack' = Append(SubSeq(stack, 1, Len(stack) - arity), Compiled(store, patch))
    /\ nodes' = nodes + 1

Top == stack[Len(stack)]
Second == stack[Len(stack) - 1]

VisitAnd == Operator(2, Second.store \cap Top.store, Second.patch \cap Top.patch)
VisitOr == Operator(2, Second.store \cup Top.store, Second.patch \cup Top.patch)
VisitNot == Operator(1, All \ Top.store, All \ Top.patch)

\* VisitValuePath up to the call of valueFilter; one path cannot contain another.
EnterValuePath(path) ==
    /\ Going /\ scope = NoScope
    /\ nodes + Len(stack) < MaxNodes
    /\ Resolves(path) /\ path.sub = Self /\ Definition[path.name].multi
    /\ scope' = path.name
    /\ mark' = Len(stack)
    /\ refused' = (path.name \in Withheld)
    /\ denied' = FALSE
    /\ UNCHANGED <<inURI, stack, nodes>>

\* A path that cannot take a value filter.
NoValuePath(path) ==
    /\ Going /\ scope = NoScope
    /\ ~(Resolves(path) /\ path.sub = Self /\ Definition[path.name].multi)
    /\ refused' = TRUE
    /\ UNCHANGED <<inURI, scope, mark, stack, nodes, denied>>

LeaveValuePath ==
    /\ scope # NoScope
    /\ ~refused
    /\ Len(stack) = mark + 1
    /\ UNCHANGED <<inURI, refused, nodes>>
    /\ denied' = TRUE
    /\ stack' = Append(SubSeq(stack, 1, mark), Compiled({p[1] : p \in Top.store}, {}))
    /\ scope' = NoScope
    /\ mark' = 0

Init ==
    /\ inURI \in BOOLEAN
    /\ scope = NoScope
    /\ mark = 0
    /\ stack = <<>>
    /\ nodes = 0
    /\ refused = FALSE
    /\ denied = TRUE

Next ==
    \/ \E path \in Paths : VisitPresence(path) \/ EnterValuePath(path) \/ NoValuePath(path)
    \/ \E path \in Paths, op \in Operators, literal \in Literals : VisitComparison(path, op, literal)
    \/ VisitAnd \/ VisitOr \/ VisitNot \/ LeaveValuePath

Spec == Init /\ [][Next]_vars

-----------------------------------------------------------------------------
(* Properties. *)

Caseless(a, s) == Subs(a)[s].type = "string" /\ ~Subs(a)[s].exact

Secret(a, s) == Definition[a].hidden \/ Subs(a)[s].hidden

\* Two values that no equality a client may ask for tells apart.
SameAnswers(a, s, v, w) ==
    LET seen(x) == Observed(Subs(a)[s], Coerce(Subs(a)[s].type, x))
        want(x) == Fold(Subs(a)[s], Coerce(Subs(a)[s].type, x))
    IN  \A l \in Literals :
            Coerces(Subs(a)[s].type, l) => (Match("eq", seen(v), want(l)) <=> Match("eq", seen(w), want(l)))

\* Elements that differ in hidden values only, and in a body only beyond equality.  That there
\* is an element, with or without anything in it, is not hidden.
Alike(a, e, f, url) ==
    /\ \A s \in DOMAIN e : IF Secret(a, s) THEN url \/ SameAnswers(a, s, e[s], f[s]) ELSE e[s] = f[s]
    /\ (\A s \in DOMAIN e : e[s] = Nil) = (\A s \in DOMAIN f : f[s] = Nil)

PairsAlike(url) ==
    UNION {{<<a, pq[1], pq[2]>> : pq \in
              {pq \in Positions(a) \X Positions(a) : Alike(a, ElementAt(a, pq[1]), ElementAt(a, pq[2]), url)}} :
           a \in Attributes}

ResourcesAlike(url) ==
    UNION {{<<i, j>> : j \in
              {k \in Ids : \A a \in Attributes :
                  /\ DOMAIN Held[i][a] = DOMAIN Held[k][a]
                  /\ \A n \in DOMAIN Held[i][a] : Alike(a, Held[i][a][n], Held[k][a][n], url)}} :
           i \in Ids}

AlikeInURL == [elements |-> PairsAlike(TRUE), resources |-> ResourcesAlike(TRUE)]
AlikeInBody == [elements |-> PairsAlike(FALSE), resources |-> ResourcesAlike(FALSE)]

RespectsElements(predicate, alike) ==
    \A t \in alike.elements : t[1] = scope => (t[2] \in predicate <=> t[3] \in predicate)

RespectsResources(predicate, alike) ==
    \A ij \in alike.resources : ij[1] \in predicate <=> ij[2] \in predicate

(***************************************************************************)
(* A filter tells nothing of values that are never returned if it came in  *)
(* a URL, and otherwise no more than whether they equal a literal that the *)
(* client sent, however leaves are combined and whichever level hides them *)
(* (visitor.go conceal and parent, matcher.go check and VisitPresence).    *)
(***************************************************************************)
Concealed ==
    LET alike == IF inURI THEN AlikeInURL ELSE AlikeInBody
    IN  \A k \in DOMAIN stack :
            IF scope # NoScope /\ k > mark
            THEN /\ RespectsElements(stack[k].store, alike)
                 /\ RespectsElements(stack[k].patch, AlikeInBody)
            ELSE RespectsResources(stack[k].store, alike)

(***************************************************************************)
(* A value filter that both visitors take selects the same elements in     *)
(* `filter=emails[...]` as in a PATCH path (evaluator.go Compare and       *)
(* Present, matcher.go leaf and VisitPresence).                            *)
(***************************************************************************)
ValueFiltersAgree ==
    scope # NoScope /\ ~refused /\ ~denied =>
        \A k \in (mark + 1)..Len(stack) : stack[k].store = stack[k].patch

(***************************************************************************)
(* Filters that say the same thing select the same resources: with the     *)
(* literal in another case if the attribute ignores case, with a           *)
(* sub-attribute after a dot or in a value path if there are values at     *)
(* all, and with ne or not eq on a single value (evaluator.go anyMatch and *)
(* ValuePath, compare.go Match, attribute.go Fold).                        *)
(***************************************************************************)
SpellingsAgree ==
    stack = <<>> /\ scope = NoScope =>
        \A path \in Paths, op \in Operators, literal \in Literals :
            Accepts(NoScope, path, op, literal, inURI) =>
                LET a == path.name
                    s == subject(path)
                    within == [path EXCEPT !.name = s, !.sub = Self]
                    selected == Compared(NoScope, path, op, literal)
                IN  /\ \A other \in Literals :
                         Caseless(a, s) /\ literal.type = "string" /\ other.type = "string"
                           /\ Lower(other.v) = Lower(literal.v)
                         => Compared(NoScope, path, op, other) = selected
                    /\ Definition[a].multi /\ Definition[a].complex =>
                         /\ Accepts(a, within, op, literal, inURI)
                         /\ {p[1] : p \in Compared(a, within, op, literal)}
                              = {id \in selected : Held[id][a] # <<>>}
                    /\ ~Definition[a].multi /\ op = "eq" /\ Accepts(NoScope, path, "ne", literal, inURI) =>
                         Compared(NoScope, path, "ne", literal) = Ids \ selected
=============================================================================
