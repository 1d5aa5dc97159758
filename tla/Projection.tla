----------------------------- MODULE Projection -----------------------------
(***************************************************************************)
(* Which attributes of a resource a response holds (pkg/protocol,          *)
(* projection.go): "attributes" and "excludedAttributes", the `returned`   *)
(* characteristic of every attribute, and the attributes that the request  *)
(* itself wrote.  The projection is used twice: the repository asks it     *)
(* which references are worth fetching (repository.returned), and the      *)
(* response is pruned by it afterwards.                                    *)
(*                                                                         *)
(* A name is the sequence of its parts: <<schema>>, <<schema, attribute>>  *)
(* or <<schema, attribute, sub>>, all of them folded and known to the      *)
(* schemas (qualifyName drops the others).  The value of an attribute is   *)
(* the sequence of its elements, each the set of sub-attributes it has;    *)
(* <<>> when it is not assigned.  A simple value is one element, {}.       *)
(***************************************************************************)
EXTENDS Integers, Sequences, FiniteSets, SequencesExt, Selections

CONSTANTS
    Base,          \* the base schema
    Attributes,    \* the names of the attributes, of the base schema and of extensions
    Subs,          \* their sub-attributes: a function from Attributes to sets
    References,    \* the attributes the store fills in from links
    Definitions,   \* the `returned` of every attribute and sub-attribute
    Documents(_),  \* what a resource may hold, given the schemas
    Queries,       \* pairs of attributes and excludedAttributes, each a set or Omitted
    Omitted,
    Specified      \* the names that a POST, PUT or PATCH specifies; {} for a GET

Returned == {"always", "never", "default", "request"}

\* A schema, an attribute or a sub-attribute; qualifyName reads no deeper names.
Name(n) == n \in Seq(STRING) /\ Len(n) <= 3

\* A resource holds declared attributes only, and a complex element has some part.
Whole(d, doc) ==
    \A a \in Attributes :
        /\ doc[a] \in Seq(SUBSET Subs[a])
        /\ a[1] \notin d.schemas => doc[a] = <<>>
        /\ Subs[a] # {} => \A i \in DOMAIN doc[a] : doc[a][i] # {}

ASSUME ProjectionAssumption ==
    /\ \A a \in Attributes : Name(a) /\ Len(a) = 2 /\ Subs[a] \subseteq STRING
    /\ References \subseteq Attributes
    /\ \A q \in Queries : q.included # Omitted => \A n \in q.included : Name(n)
    /\ \A d \in Definitions :
         /\ Base \in d.schemas
         /\ \A a \in Attributes : /\ d.returned[a] \in Returned
                                  /\ \A s \in Subs[a] : d.returned[a \o <<s>>] \in Returned
         /\ Documents(d) \subseteq [Attributes -> Seq(SUBSET STRING)]
         /\ \A doc \in Documents(d) : Whole(d, doc)

VARIABLES
    schema,      \* the registered schemas and their characteristics
    document,    \* the resource as the store has it
    projection,  \* the Projection of the request
    fetched,     \* the resource as the repository gave it
    response,    \* what the client gets
    phase        \* "new", "asked", "fetched", "sent" or "invalidValue"

projectionVars == <<schema, document, projection, fetched, response, phase>>

\* A Projection holds the schemas it was made for, so that these depend on nothing else.
Declared(p) == {a \in Attributes : a[1] \in p.schemas.schemas}
Level(p, name) == p.schemas.returned[name]
Part(a, s) == a \o <<s>>

-----------------------------------------------------------------------------
(* Names. *)

\* A name of the list is the name given, or one that it is a part of.
covers(list, name) == \E e \in list : IsPrefix(e, name)

\* A name of the list is a part of the name given.
within(list, name) == \E e \in list : IsStrictPrefix(name, e)

-----------------------------------------------------------------------------
(* Characteristics. *)

Hidden(p, name) == Level(p, name) = "never"

returnsAlways(p, a) == ~Hidden(p, a) /\ \E s \in Subs[a] : Level(p, Part(a, s)) = "always"

onRequest(p) == \E a \in Declared(p) : \/ Level(p, a) = "request"
                                       \/ \E s \in Subs[a] : Level(p, Part(a, s)) = "request"

\* Mutant: what the request wrote is returned whatever it left out.
requestedAnyway(p, name) ==
    IF p.included # Omitted THEN name \in p.included \/ within(p.included, name)
    ELSE covers(p.written, name) \/ within(p.written, name)

requested(p, name) ==
    IF p.included # Omitted THEN name \in p.included \/ within(p.included, name)
    ELSE (covers(p.written, name) \/ within(p.written, name)) /\ ~covers(p.excluded, name)

returns(p, name) ==
    /\ ~Hidden(p, name)
    /\ CASE Level(p, name) = "always" -> TRUE
         [] Level(p, name) = "request" -> requested(p, name)
         [] OTHER -> IF p.included # Omitted THEN covers(p.included, name) \/ within(p.included, name)
                                             ELSE ~covers(p.excluded, name)

\* Mutant: an attribute left out is not worth fetching.
ReturnsOnly(p, a) == returns(p, a)

\* Returns: some part of the attribute can appear.
Returns(p, a) == returns(p, a) \/ returnsAlways(p, a)

\* plainSchemas: nothing is ever left out, and there is no extension.
plainSchemas(p) ==
    /\ p.schemas.schemas = {Base}
    /\ \A a \in Declared(p) :
         /\ Level(p, a) \notin {"never", "request"}
         /\ \A s \in Subs[a] : Level(p, Part(a, s)) \notin {"never", "request"}

-----------------------------------------------------------------------------
(* Pruning. *)

\* The elements that have some part, in their order.
NonEmpty(elements) == Selected(elements, {i \in DOMAIN elements : elements[i] # {}})

\* The parts of each element that are kept; an element that keeps none is dropped.
keepEach(elements, kept) == NonEmpty([i \in DOMAIN elements |-> elements[i] \cap kept])

always(p, a, elements) ==
    IF returnsAlways(p, a) THEN keepEach(elements, {s \in Subs[a] : Level(p, Part(a, s)) = "always"})
                           ELSE <<>>

value(p, a, elements) ==
    IF ~returns(p, a) THEN always(p, a, elements)
    ELSE IF Subs[a] = {} THEN elements
    ELSE keepEach(elements, {s \in Subs[a] : returns(p, Part(a, s))})

pruned(p, doc) ==
    [a \in Attributes |-> IF a \in Declared(p) THEN value(p, a, doc[a]) ELSE <<>>]

rendered(p, doc) == IF p.plain THEN doc ELSE pruned(p, doc)

-----------------------------------------------------------------------------
(* A request. *)

Nothing == [a \in Attributes |-> <<>>]

ProjectionInit ==
    /\ schema \in Definitions
    /\ document \in Documents(schema)
    /\ projection = Omitted
    /\ fetched = Nothing
    /\ response = Nothing
    /\ phase = "new"

NamesOf(q) == UNION {l \in {q.included, q.excluded} : l # Omitted}

newProjection(q) ==
    LET p == [schemas |-> schema, included |-> q.included,
              excluded |-> IF q.excluded = Omitted THEN {} ELSE q.excluded,
              written |-> {}, plain |-> FALSE]
    IN  [p EXCEPT !.plain = q.included = Omitted /\ q.excluded = Omitted /\ plainSchemas(p)]

\* The two parameters exclude each other, and a name has a known schema.
Ask(q) ==
    /\ phase = "new"
    /\ IF \/ q.included # Omitted /\ q.excluded # Omitted
          \/ \E name \in NamesOf(q) : name[1] \notin schema.schemas
       THEN phase' = "invalidValue" /\ UNCHANGED projection
       ELSE phase' = "asked" /\ projection' = newProjection(q)
    /\ UNCHANGED <<schema, document, fetched, response>>

\* Written and Patched.
Written(p, names) ==
    [p EXCEPT !.written = IF p.included = Omitted /\ onRequest(p) THEN names ELSE {}]

\* repository.returned and the store: what is worth fetching.
Fetched(p) ==
    [a \in Attributes |-> IF a \in References \cap Declared(p) /\ ~Returns(p, a)
                          THEN <<>> ELSE document[a]]

Fetch(names) ==
    LET p == Written(projection, names)
    IN  /\ phase = "asked"
        /\ phase' = "fetched"
        /\ projection' = p
        /\ fetched' = Fetched(p)
        /\ UNCHANGED <<schema, document, response>>

\* projected.MarshalJSON
Send ==
    /\ phase = "fetched"
    /\ phase' = "sent"
    /\ response' = rendered(projection, fetched)
    /\ UNCHANGED <<schema, document, projection, fetched>>

ProjectionNext ==
    \/ \E q \in Queries : Ask(q)
    \/ \E names \in Specified : Fetch(names)
    \/ Send

ProjectionSpec == ProjectionInit /\ [][ProjectionNext]_projectionVars

-----------------------------------------------------------------------------
(* Properties. *)

\* What the client asked for, one part at a time.  A part is wanted if the client names it or
\* something it is in; with excludedAttributes or nothing, if it is not excluded.
Wanted(name) ==
    IF projection.included # Omitted THEN \E e \in projection.included : IsPrefix(e, name)
    ELSE ~ \E e \in projection.excluded : IsPrefix(e, name)

\* A part returned only on request is named itself, or was written and not excluded.
Named(name) ==
    IF projection.included # Omitted
    THEN \E e \in projection.included : e = name \/ IsStrictPrefix(name, e)
    ELSE /\ \E e \in projection.written : IsPrefix(e, name) \/ IsPrefix(name, e)
         /\ Wanted(name)

Allowed(name) ==
    CASE Level(projection, name) = "never" -> FALSE
      [] Level(projection, name) = "always" -> TRUE
      [] Level(projection, name) = "request" -> Named(name)
      [] OTHER -> Wanted(name)

\* An attribute is let through if it is allowed, or if one of its parts was asked for.
Opened(a) ==
    /\ Level(projection, a) # "never"
    /\ Allowed(a) \/ (Level(projection, a) = "default" /\ projection.included # Omitted
                         /\ \E e \in projection.included : IsPrefix(a, e))

Due(a, s) == IF Opened(a) THEN Allowed(Part(a, s))
             ELSE ~Hidden(projection, a) /\ Level(projection, Part(a, s)) = "always"

(***************************************************************************)
(* A response holds exactly the parts that the rules of RFC 7643 section 7 *)
(* give, read one part at a time: nothing that is never returned, what is  *)
(* returned on request only when it is named or written, nothing the       *)
(* client excluded, everything else it wanted; elements keep their order   *)
(* and those left with nothing are dropped.  Skipping references that are  *)
(* not worth fetching, and rendering plain resources as they are, change   *)
(* nothing (projection.go value, object and always; repository.returned).  *)
(***************************************************************************)
ShowsWhatIsDue ==
    phase = "sent" =>
        \A a \in Attributes :
            response[a] =
                IF a \notin Declared(projection) THEN <<>>
                ELSE IF Subs[a] = {} THEN (IF Opened(a) THEN document[a] ELSE <<>>)
                ELSE NonEmpty([i \in DOMAIN document[a] |-> {s \in document[a][i] : Due(a, s)}])

(***************************************************************************)
(* A reference that is not fetched would not have been shown: the response *)
(* is the one that the whole resource gives (Projection.Returns,           *)
(* repository.returned).                                                   *)
(***************************************************************************)
FetchSuffices == phase = "sent" => response = rendered(projection, document)

(***************************************************************************)
(* An attribute that is always returned is returned, whatever the client   *)
(* asks for (projection.go returns, RFC 7643 section 7).                   *)
(***************************************************************************)
AlwaysReturned ==
    phase = "sent" =>
        \A a \in Declared(projection) : Level(projection, a) = "always" /\ document[a] # <<>> => response[a] # <<>>
=============================================================================
