------------------------------ MODULE Document ------------------------------
(***************************************************************************)
(* What a write leaves in a resource: POST and PUT (protocol/writable.go), *)
(* the operations of a PATCH on a working copy (pkg/patch), the typed      *)
(* decoding that follows, the `schemas` it lists and the characteristics   *)
(* it must have (server/service.go, server/characteristics.go).  One       *)
(* resource, one request at a time; the elements of complex lists are in   *)
(* PatchList, and the races between requests in ScimService.               *)
(*                                                                         *)
(* A spelled name is a pair: the name, and how its letters are cased.  An  *)
(* object is a function from spelled names to values.  A string has its    *)
(* letters and their case.  A path is as FilterGrammar's NewPath reads it. *)
(***************************************************************************)
EXTENDS Naturals, FiniteSets, SequencesExt

CONSTANTS
    Base,         \* the attributes of the base schema
    Extension,    \* those of the extension
    Stored,       \* documents that the store may hold at first
    Bodies,       \* bodies of POST and PUT
    Operations,   \* operations of PATCH
    MaxOps,       \* bound: operations of a PATCH
    MaxRequests   \* bound: requests that are accepted

VARIABLES
    held,         \* the resource exists
    doc,          \* its attributes, as encoded from the typed resource
    schemas,      \* the URIs that it lists
    open,         \* a PATCH is being applied
    work,         \* its working copy
    gone,         \* complex attributes that were no objects at some point of it
    ops,          \* operations applied so far
    requests      \* requests that were accepted

vars == <<held, doc, schemas, open, work, gone, ops, requests>>

-----------------------------------------------------------------------------
(* Values and objects. *)

Null == [t |-> "null"]
Number == [t |-> "number"]
Text(s, case) == [t |-> "string", s |-> s, case |-> case]
Obj(o) == [t |-> "object", o |-> o]
List(l) == [t |-> "list", l |-> l]

Exact(name) == <<name, "exact">>
NoName == <<"", "exact">>
BaseURI == "base"
ExtURI == "extension"
ExtKey == Exact(ExtURI)

IsObject(v) == v.t = "object"
AsObject(v) == IF IsObject(v) THEN v.o ELSE <<>>

IsUnassigned(v) ==
    \/ v.t = "null"
    \/ v.t = "string" /\ v.s = ""
    \/ v.t = "list" /\ v.l = {}
    \/ v.t = "object" /\ DOMAIN v.o = {}

\* Objects nest twice: the extension, and a complex attribute.
AllUnassigned(o) ==
    \A n \in DOMAIN o : \/ IsUnassigned(o[n])
                        \/ IsObject(o[n]) /\ \A m \in DOMAIN o[n].o : IsUnassigned(o[n].o[m])

Spelled(o, n) == {m \in DOMAIN o : m[1] = n[1]}
key(o, n) == IF n \in DOMAIN o \/ Spelled(o, n) = {} THEN n ELSE CHOOSE m \in Spelled(o, n) : TRUE
Has(o, n) == Spelled(o, n) # {}
Get(o, n) == IF Has(o, n) THEN o[key(o, n)] ELSE Null
Entry(n, v) == [m \in {n} |-> v]
Over(o, p) == [n \in DOMAIN o \cup DOMAIN p |-> IF n \in DOMAIN o THEN o[n] ELSE p[n]]
Set(o, n, v) == Over(Entry(key(o, n), v), o)
Without(o, n) == Restrict(o, DOMAIN o \ {key(o, n)})

\* One name is not given twice, here or further down.
Distinct(o) == \A m, n \in DOMAIN o : m[1] = n[1] => m = n
DistinctWithin(o) == Distinct(o) /\ \A n \in DOMAIN o : Distinct(AsObject(o[n]))
wellFormedNames(o) == DistinctWithin(o) /\ \A n \in DOMAIN o : DistinctWithin(AsObject(o[n]))
wellFormedValue(v) == wellFormedNames(AsObject(v))

Equal(a, v, w) ==
    IF v.t = "string" /\ w.t = "string" THEN v.s = w.s /\ (a.exact => v.case = w.case)
    ELSE v = w

-----------------------------------------------------------------------------
(* Attributes and paths. *)

permissiveAttr == [complex |-> FALSE, multi |-> FALSE, mutability |-> "none", required |-> FALSE,
                   exact |-> FALSE, canonical |-> {}, subs |-> <<>>]

Lookup(attrs, n) == IF n[1] \in DOMAIN attrs THEN attrs[n[1]] ELSE permissiveAttr

Attributes(uri) ==
    CASE uri \in {"", BaseURI} -> Base
      [] uri = ExtURI -> Extension
      [] OTHER -> <<>>

Path(uri, name, sub) == [uri |-> uri, name |-> name, sub |-> sub]

Parent(path) == Lookup(Attributes(path.uri), path.name)
Attribute(path) == IF path.sub = NoName THEN Parent(path) ELSE Lookup(Parent(path).subs, path.sub)

Resolves(path) ==
    /\ path.name[1] \in DOMAIN Attributes(path.uri)
    /\ path.sub # NoName => path.sub[1] \in DOMAIN Parent(path).subs

\* fields.New: every attribute and sub-attribute of the schemas.
Tops == {Path(BaseURI, Exact(n), NoName) : n \in DOMAIN Base}
          \cup {Path(ExtURI, Exact(n), NoName) : n \in DOMAIN Extension}
Fields == Tops \cup UNION {{[f EXCEPT !.sub = Exact(s)] : s \in DOMAIN Parent(f).subs} : f \in Tops}

Container(d, path) == IF path.uri = ExtURI THEN Get(d, ExtKey) ELSE Obj(d)
Holder(d, path) ==
    IF path.sub = NoName THEN Container(d, path) ELSE Get(AsObject(Container(d, path)), path.name)
Value(d, path) == Get(AsObject(Holder(d, path)), IF path.sub = NoName THEN path.name ELSE path.sub)

-----------------------------------------------------------------------------
(* The bodies of POST and PUT: writable.go. *)

\* Mutant: readOnly values are dropped, and not put back.
restoredImmutable(attrs, body, existing) ==
    {n \in DOMAIN existing : /\ Lookup(attrs, n).mutability = "immutable"
                             /\ ~Lookup(attrs, n).required /\ ~Has(body, n)}

restored(attrs, body, existing) ==
    {n \in DOMAIN existing :
        \/ Lookup(attrs, n).mutability = "readOnly"
        \/ /\ Lookup(attrs, n).mutability = "immutable"
           /\ ~Lookup(attrs, n).required /\ ~Has(body, n)}

Rebuilt(attrs, body, existing, Rewrite(_, _, _)) ==
    LET kept == [n \in {m \in DOMAIN body : Lookup(attrs, m).mutability # "readOnly"} |->
                    Rewrite(Lookup(attrs, n), body[n], Get(existing, n))]
    IN  Over(Restrict(existing, restored(attrs, kept, existing)), kept)

writableValue(a, v, before) ==
    IF IsObject(v) /\ DOMAIN a.subs # {}
    THEN Obj(Rebuilt(a.subs, v.o, AsObject(before), LAMBDA b, w, old : w))
    ELSE v

writableObject(attrs, body, existing) == Rebuilt(attrs, body, existing, writableValue)

writable(body, existing) ==
    LET base == writableObject(Base, body, existing)
        raw == Get(base, ExtKey)
        ext == writableObject(Extension, AsObject(raw), AsObject(Get(existing, ExtKey)))
        rest == Without(base, ExtKey)
    IN  IF ~AllUnassigned(ext) THEN Over(Entry(ExtKey, Obj(ext)), rest)
        ELSE IF raw.t # "null" /\ ~IsObject(raw) THEN Over(Entry(ExtKey, raw), rest)
        ELSE rest

-----------------------------------------------------------------------------
(* The typed resource: resource.go fromDocument, and the encoding back.    *)
(* Names that are not declared, null, "" and [] are dropped; {} stays.     *)

FitsSimple(a, v) == v.t \in {"null", IF a.multi THEN "list" ELSE "string"}

Fits(a, v) ==
    IF a.complex THEN \/ v.t = "null"
                      \/ IsObject(v) /\ \A s \in DOMAIN a.subs : FitsSimple(a.subs[s], Get(v.o, Exact(s)))
    ELSE FitsSimple(a, v)

TypedWith(attrs, o, Rewrite(_, _)) ==
    [n \in {Exact(m) : m \in {k \in DOMAIN attrs : IsObject(Get(o, Exact(k))) \/ ~IsUnassigned(Get(o, Exact(k)))}} |->
        Rewrite(attrs[n[1]], Get(o, n))]

TypedValue(a, v) == IF IsObject(v) THEN Obj(TypedWith(a.subs, v.o, LAMBDA b, w : w)) ELSE v
Typed(attrs, o) == TypedWith(attrs, o, TypedValue)

Decodes(d) ==
    /\ Get(d, ExtKey).t \in {"null", "object"}
    /\ \A f \in Tops : Fits(Attribute(f), Value(d, f))

fromDocument(d) ==
    LET ext == Get(d, ExtKey)
    IN  Over(IF IsObject(ext) THEN Entry(ExtKey, Obj(Typed(Extension, ext.o))) ELSE <<>>, Typed(Base, d))

stampSchemas(d) == {BaseURI} \cup (IF IsUnassigned(Get(d, ExtKey)) THEN {} ELSE {ExtURI})

-----------------------------------------------------------------------------
(* What is assumed of the constants. *)

\* Sub-attributes are simple; lists of objects are left to PatchList.
Declares(attrs) ==
    \A n \in DOMAIN attrs :
        LET a == attrs[n]
        IN  /\ n # ""
            /\ IF a.complex THEN ~a.multi ELSE DOMAIN a.subs = {}
            /\ \A s \in DOMAIN a.subs : s # "" /\ ~a.subs[s].complex

ASSUME SchemaAssumption == Declares(Base) /\ Declares(Extension) /\ ExtURI \notin DOMAIN Base

\* What is stored is a typed resource, in which the server leaves no object empty that only it assigns.
ASSUME StoredAssumption ==
    \A d \in Stored :
        /\ Decodes(d) /\ fromDocument(d) = d
        /\ \A f \in Tops : Attribute(f).mutability = "readOnly" /\ IsObject(Value(d, f))
                             => ~IsUnassigned(Value(d, f))

\* A value filter selects elements of an attribute, and an object has finitely many names.
ASSUME OperationAssumption ==
    \A op \in Operations :
        /\ op.op \in {"add", "replace", "remove", "drop"}
        /\ op.op = "drop" => op.path.sub = NoName
        /\ op.pathless => /\ IsFiniteSet(DOMAIN op.value)
                          /\ \A k \in DOMAIN op.value : IsFiniteSet(DOMAIN AsObject(op.value[k]))

-----------------------------------------------------------------------------
(* Characteristics. *)

\* At most one primary element: PatchList.  The encoding of binary values is left out.
Strings(v) == {w \in (IF v.t = "list" THEN v.l ELSE {v}) : w.t = "string" /\ w.s # ""}

conforms(candidate) ==
    \A f \in Fields :
        LET a == Attribute(f)
            v == Value(candidate, f)
        IN  /\ a.required /\ Holder(candidate, f).t # "null" => ~IsUnassigned(v)
            /\ a.canonical # {} => \A w \in Strings(v) : \E c \in a.canonical : Equal(a, c, w)

immutable(existing, candidate) ==
    \A f \in Fields :
        Attribute(f).mutability = "immutable" /\ ~(f.sub # NoName /\ Parent(f).multi)
            /\ ~IsUnassigned(Value(existing, f))
        => Equal(Attribute(f), Value(existing, f), Value(candidate, f))

-----------------------------------------------------------------------------
(* The operations of a PATCH, each on the working copy.  What is refused   *)
(* ends the request, and the copy is discarded.                            *)

\* lost: complex attributes that were no objects between the steps.
Ok(root) == [ok |-> TRUE, root |-> root, lost |-> {}]
Refused == [ok |-> FALSE, root |-> <<>>, lost |-> {}]
OkIf(condition, root) == IF condition THEN Ok(root) ELSE Refused

\* What child can descend into, or create.
CanHold(v) == v.t \in {"null", "object"}

\* Mutant: readOnly sub-attributes of a value are written.
stripNothing(a, v) == v

stripReadOnly(a, v) ==
    IF IsObject(v)
    THEN Obj(Restrict(v.o, {n \in DOMAIN v.o : Lookup(a.subs, n).mutability # "readOnly"}))
    ELSE v

shapedList(v) == CASE v.t = "null" -> {} [] v.t = "list" -> v.l [] OTHER -> {v}
shaped(a, v) == IF a.multi THEN List(shapedList(v)) ELSE v

\* An element that is there already is not added again.
appended(a, before, v, kind) ==
    IF kind = "add" /\ before.t = "list"
    THEN List(before.l \cup {w \in shapedList(v) : ~\E old \in before.l : Equal(a, old, w)})
    ELSE v

\* Mutant: an assigned immutable attribute is written.
gateNothing(a, before, final) == TRUE

gateImmutableWrite(a, before, final) ==
    a.mutability = "immutable" /\ ~IsUnassigned(before) => Equal(a, before, final)

\* The singular complex attribute a holder belongs to; permissiveAttr if it belongs to none.
parentGate(parent, holder, a, before, final) ==
    parent.mutability = "immutable" /\ ~parent.multi /\ DOMAIN holder # {} => Equal(a, before, final)

\* The fields are written in any order: the gate is fixed first and each has a key of its own.
merge(holder, parent, kind, values) ==
    LET final(n) == appended(Lookup(parent.subs, n), Get(holder, n), shaped(Lookup(parent.subs, n), values[n]), kind)
        allowed(n) == /\ gateImmutableWrite(Lookup(parent.subs, n), Get(holder, n), final(n))
                      /\ parentGate(parent, holder, Lookup(parent.subs, n), Get(holder, n), final(n))
        written == {key(holder, n) : n \in DOMAIN values}
    IN  OkIf(\A n \in DOMAIN values : allowed(n),
             Over([k \in written |-> final(CHOOSE n \in DOMAIN values : key(holder, n) = k)], holder))

put(holder, parent, a, n, kind, v) ==
    LET before == Get(holder, n)
        final == appended(a, before, shaped(a, v), kind)
        merged == merge(AsObject(before), a, kind, AsObject(v))
    IN  IF IsObject(v) /\ a.complex /\ ~a.multi
        THEN OkIf(CanHold(before) /\ merged.ok, Set(holder, n, Obj(merged.root)))
        ELSE OkIf(gateImmutableWrite(a, before, final) /\ parentGate(parent, holder, a, before, final),
                  Set(holder, n, final))

gate(a) == a.mutability # "readOnly"

\* patcher.target: what a path may aim at.
Aims(path) == Resolves(path) /\ gate(Parent(path)) /\ gate(Attribute(path))

\* Mutant: an extension that lost its last value stays.
unassignNothing(root, path) == root

unassignEmptyExtension(root, path) ==
    IF path.uri = ExtURI /\ AllUnassigned(AsObject(Get(root, ExtKey))) THEN Without(root, ExtKey) ELSE root

\* The attribute that a sub-attribute write changes as well.
subParent(path) == IF path.sub = NoName THEN permissiveAttr ELSE Parent(path)

Rehoused(root, path, holder) ==
    LET container == IF path.sub = NoName THEN holder
                     ELSE Set(AsObject(Container(root, path)), path.name, Obj(holder))
    IN  IF path.uri = ExtURI THEN Set(root, ExtKey, Obj(container)) ELSE container

Target(path) == IF path.sub = NoName THEN path.name ELSE path.sub

writeAt(root, path, kind, v) ==
    LET holder == AsObject(Holder(root, path))
        written == put(holder, subParent(path), Attribute(path), Target(path), kind,
                       stripReadOnly(Attribute(path), v))
    IN  OkIf(/\ Aims(path)
             /\ path.sub # NoName => ~Parent(path).multi
             /\ CanHold(Container(root, path)) /\ CanHold(Holder(root, path))
             /\ written.ok,
             unassignEmptyExtension(Rehoused(root, path, written.root), path))

gateRequired(a, becomesUnassigned) == a.required => ~becomesUnassigned

remove(root, path) ==
    LET a == Attribute(path)
        assigned == Value(root, path)
        holder == Holder(root, path)
        removed == IF Has(AsObject(holder), Target(path))
                   THEN Rehoused(root, path, Without(holder.o, Target(path))) ELSE root
    IN  OkIf(/\ Aims(path)
             /\ gateRequired(a, ~IsUnassigned(assigned))
             /\ gateImmutableWrite(a, assigned, Null)
             /\ parentGate(subParent(path), AsObject(holder), a, assigned, Null),
             unassignEmptyExtension(removed, path))

\* "remove" with a value filter, which selects the elements of `selected`.
drop(root, path, selected) ==
    LET a == Attribute(path)
        before == Value(root, path)
        after == List(before.l \ selected)
    IN  IF ~Aims(path) THEN Refused
        ELSE IF before.t # "list" \/ before.l \cap selected = {} THEN Ok(root)
        ELSE OkIf(/\ gateRequired(a, after.l = {})
                  /\ gateImmutableWrite(a, before, after),
                  Rehoused(root, path, Set(AsObject(Holder(root, path)), path.name, after)))

-----------------------------------------------------------------------------
(* An operation without a path: a function from keys to values.  A key is  *)
(* read as a path; the URI of a schema is a path without a name.           *)

IsSchemas(path) == path.uri = "" /\ path.name[1] = "schemas" /\ path.sub = NoName

\* Looks for the name at the root, whatever the path's URI and sub-attribute.
repeatsReadOnly(root, path, v) ==
    /\ Resolves(path)
    /\ Attribute(path).mutability = "readOnly"
    /\ Has(root, path.name)
    /\ Equal(Attribute(path), Get(root, path.name), v)

Complex == {f \in Tops : Parent(f).complex}
NoObject(root) == {f \in Complex : ~IsObject(Value(root, f))}

\* One step after another, until one is refused.
After(r, s) ==
    IF r.ok THEN [ok |-> s.ok, root |-> s.root, lost |-> r.lost \cup s.lost \cup NoObject(s.root)] ELSE r

Done(Step(_, _), start, order) ==
    LET done[n \in 0 .. Len(order)] ==
            IF n = 0 THEN Ok(start) ELSE After(done[n - 1], Step(done[n - 1].root, order[n]))
    IN  done

Then(Step(_, _), start, order) == Done(Step, start, order)[Len(order)]

mergeSchema(root, uri, v, kind, order) ==
    IF IsObject(v)
    THEN Then(LAMBDA r, n : IF n \in DOMAIN v.o THEN writeAt(r, Path(uri, n, NoName), kind, v.o[n]) ELSE Ok(r),
              root, order)
    ELSE Refused

mergeKey(root, k, v, kind, order) ==
    IF k.name = NoName THEN mergeSchema(root, k.uri, v, kind, order)
    ELSE IF IsSchemas(k) \/ repeatsReadOnly(root, k, v) THEN Ok(root)
    ELSE writeAt(root, k, kind, v)

mergeRoot(root, values, kind, keys, order) ==
    Then(LAMBDA r, k : mergeKey(r, k, values[k], kind, order), root, keys)

\* Every outcome that an order of the keys, and of the names in schema objects, can have.
NamesWithin(values) == UNION {DOMAIN AsObject(values[k]) : k \in {j \in DOMAIN values : j.name = NoName}}

Merges(root, values, kind) ==
    UNION {{mergeRoot(root, values, kind, keys, order) : order \in SetToSeqs(NamesWithin(values))} :
              keys \in SetToSeqs(DOMAIN values)}

\* The names of a request are checked when it is read, in the values of its operations as well.
wellFormed(op) ==
    IF op.pathless
    THEN /\ \A k, l \in DOMAIN op.value :
               <<k.uri, k.name[1], k.sub[1]>> = <<l.uri, l.name[1], l.sub[1]>> => k = l
         /\ \A k \in DOMAIN op.value : wellFormedValue(op.value[k])
    ELSE wellFormedValue(op.value)

apply(root, op) ==
    CASE op.op \in {"add", "replace"} /\ op.pathless -> Merges(root, op.value, op.op)
      [] op.op \in {"add", "replace"} /\ ~op.pathless -> {writeAt(root, op.path, op.op, op.value)}
      [] op.op = "remove" -> {remove(root, op.path)}
      [] op.op = "drop" -> {drop(root, op.path, op.selected)}

-----------------------------------------------------------------------------
(* Requests.  One that is refused leaves everything as it was. *)

Init ==
    /\ held \in BOOLEAN
    /\ doc \in IF held THEN Stored ELSE {<<>>}
    /\ schemas = stampSchemas(doc)
    /\ open = FALSE /\ work = <<>> /\ gone = {} /\ ops = 0
    /\ requests = 0

Save(resource, candidate) ==
    /\ requests < MaxRequests
    /\ held' = TRUE
    /\ doc' = resource
    /\ schemas' = stampSchemas(candidate)
    /\ requests' = requests + 1

\* service.replaced and save; existing is empty for a POST.
Replaced(body, existing) ==
    LET candidate == writable(body, existing)
    IN  [ok |-> wellFormedNames(body) /\ Decodes(candidate) /\ conforms(candidate) /\ immutable(existing, candidate),
         candidate |-> candidate]

Create(body) ==
    LET r == Replaced(body, <<>>)
    IN  ~held /\ r.ok /\ Save(fromDocument(r.candidate), r.candidate) /\ UNCHANGED <<open, work, gone, ops>>

Replace(body) ==
    LET r == Replaced(body, doc)
    IN  held /\ ~open /\ r.ok /\ Save(fromDocument(r.candidate), r.candidate) /\ UNCHANGED <<open, work, gone, ops>>

Patch ==
    /\ held /\ ~open /\ requests < MaxRequests
    /\ open' = TRUE /\ work' = doc /\ gone' = NoObject(doc)
    /\ UNCHANGED <<held, doc, schemas, ops, requests>>

Apply(op) ==
    /\ open /\ ops < MaxOps
    /\ wellFormed(op)
    /\ \E r \in apply(work, op) : r.ok /\ work' = r.root /\ gone' = gone \cup r.lost \cup NoObject(r.root)
    /\ ops' = ops + 1
    /\ UNCHANGED <<held, doc, schemas, open, requests>>

Closed == open' = FALSE /\ work' = <<>> /\ gone' = {} /\ ops' = 0

\* A patch that changes nothing is not checked: the document may be from before a rule.
Unchanged(root) == fromDocument(root) = doc /\ stampSchemas(root) = schemas

\* Immutable attributes are not compared again: nothing is passed as existing.
Commit ==
    /\ open /\ ops > 0
    /\ Decodes(work) /\ ~Unchanged(work) /\ conforms(work)
    /\ Save(fromDocument(work), work)
    /\ Closed

\* The patch is without effect, or an operation, the decoding or the rules refuse it.
Discard == open /\ ops > 0 /\ Closed /\ UNCHANGED <<held, doc, schemas, requests>>

Next ==
    \/ \E body \in Bodies : Create(body) \/ Replace(body)
    \/ Patch
    \/ \E op \in Operations : Apply(op)
    \/ Commit
    \/ Discard

Spec == Init /\ [][Next]_vars

-----------------------------------------------------------------------------
(* Properties. *)

Top(f) == [f EXCEPT !.sub = NoName]

\* The request has taken the complex attribute of f away, if only for a while.
ParentWentAway(f) == f.sub # NoName /\ (Top(f) \in gone \/ ~IsObject(Holder(doc', f)))

(***************************************************************************)
(* No request writes a readOnly value: it keeps the value that the server  *)
(* gave it, whichever way a client reaches it, and a readOnly              *)
(* sub-attribute is lost only with the attribute it belongs to             *)
(* (writable.go, patcher.go gate and repeatsReadOnly, target.go            *)
(* stripReadOnly).                                                         *)
(***************************************************************************)
ReadOnlyKept ==
    [][\A f \in {g \in Fields : Attribute(g).mutability = "readOnly"} :
          \/ Value(doc', f) = Value(doc, f)
          \/ Value(doc', f) = Null /\ ParentWentAway(f)]_vars

\* Assigned once: the value was assigned, and the attribute is immutable.
Fixed(f) == Attribute(f).mutability = "immutable" /\ ~IsUnassigned(Value(doc, f))

\* Equal, up to case where the attribute ignores it.
Stays(f) == Equal(Attribute(f), Value(doc, f), Value(doc', f))

(***************************************************************************)
(* An immutable value that is assigned stays, up to case where the         *)
(* attribute ignores it, through every PUT and every sequence of           *)
(* operations of a PATCH, with one exception: once an operation has taken  *)
(* away a complex attribute that is not itself immutable, what its         *)
(* immutable sub-attributes held is lost, or is assigned anew by a later   *)
(* operation of the same PATCH.  Nothing else changes one, and the         *)
(* sub-attributes of an immutable attribute stay without exception.  A     *)
(* PATCH passes no existing document to the characteristics, so only the   *)
(* gates of its operations stand in the way, on a copy that earlier        *)
(* operations have changed (merger.go, target.go overwritable, remover.go, *)
(* characteristics.go immutable).  Elements of complex lists: PatchList.   *)
(***************************************************************************)
OnceAssigned ==
    [][\A f \in {g \in Fields : ~Attribute(g).complex} :
          /\ Fixed(f) => Stays(f) \/ (f.sub # NoName /\ Top(f) \in gone)
          /\ f.sub # NoName /\ Parent(f).mutability = "immutable" /\ ~IsUnassigned(Holder(doc, f)) => Stays(f)]_vars

(***************************************************************************)
(* The same without the exception: "an assigned immutable attribute SHALL  *)
(* NOT be updated, including by removal" (remover.go:44).  The gates look  *)
(* at the attribute that is removed and at the one it is part of, never at *)
(* the parts of the one that is removed (gateHolderRemoval, rewrite).      *)
(***************************************************************************)
AssignedForGood == [][\A f \in {g \in Fields : ~Attribute(g).complex} : Fixed(f) => Stays(f)]_vars

Recased(o) == [n \in {<<m[1], "other">> : m \in DOMAIN o} |-> o[Exact(n[1])]]

\* Its parts are compared as one value, by their keys as they are spelled.
ComparedWhole(attrs, n) == Lookup(attrs, n).mutability = "immutable"

RespelledIn(attrs, o) ==
    [n \in DOMAIN Recased(o) |->
        LET v == Recased(o)[n]
        IN  IF IsObject(v) /\ ~ComparedWhole(attrs, n) THEN Obj(Recased(v.o)) ELSE v]

\* Every name in another case, but for those within an immutable complex attribute.
Respelled(d) ==
    [n \in DOMAIN Recased(d) |->
        IF n[1] = ExtURI THEN Obj(RespelledIn(Extension, AsObject(Get(d, ExtKey))))
        ELSE RespelledIn(Base, Without(d, ExtKey))[n]]

HoldsData(d) == ~AllUnassigned(AsObject(Get(d, ExtKey)))

(***************************************************************************)
(* A client may send back what it was given: the PUT of a stored document, *)
(* with its readOnly values, and with every name in another case but those *)
(* of the sub-attributes of an immutable complex attribute, is accepted    *)
(* and changes nothing, but that an extension without data goes, with its  *)
(* listing.  Such sub-attributes in another case are refused as a change:  *)
(* objects are compared by their keys (compare.go Equal,                   *)
(* characteristics.go immutable, writable.go, resource.go).                *)
(***************************************************************************)
EchoIsHarmless ==
    held => \A body \in {doc, Respelled(doc)} :
                LET r == Replaced(body, doc)
                IN  /\ r.ok
                    /\ fromDocument(r.candidate) = IF HoldsData(doc) THEN doc ELSE Without(doc, ExtKey)
                    /\ stampSchemas(r.candidate) = IF HoldsData(doc) THEN schemas ELSE {BaseURI}

\* An assigned value below the extension that the schema does not declare.
Undeclared(d) ==
    LET ext == AsObject(Get(d, ExtKey))
    IN  \E n \in DOMAIN ext :
            \/ n[1] \notin DOMAIN Extension /\ ~IsUnassigned(ext[n])
            \/ \E m \in DOMAIN AsObject(ext[n]) : /\ m[1] \notin DOMAIN Lookup(Extension, n).subs
                                                  /\ ~IsUnassigned(AsObject(ext[n])[m])

(***************************************************************************)
(* What is saved lists the extension whenever it holds data of it, and     *)
(* otherwise only for one of three reasons: the body of a POST or PUT, or  *)
(* what a PATCH left, has an undeclared name in the extension, which       *)
(* writable and merge keep and the decoding drops (writable.go:39,         *)
(* merger.go field); or the PATCH left an empty list there, which only a   *)
(* value filter can (remover.go:69 ends without unassignEmptyExtension);   *)
(* or the PATCH found it so, with an empty object in it, and left it alone *)
(* (stampSchemas does not look into that object).                          *)
(***************************************************************************)
ListedForData ==
    [][requests' # requests =>
          /\ HoldsData(doc') => ExtURI \in schemas'
          /\ ExtURI \in schemas' /\ ~HoldsData(doc') =>
                \/ \E body \in Bodies : (Create(body) \/ Replace(body)) /\ Undeclared(body)
                \/ /\ Commit
                   /\ \/ Undeclared(work)
                      \/ \E f \in Tops : f.uri = ExtURI /\ Value(work, f) = List({})
                      \/ ExtURI \in schemas /\ ~HoldsData(doc) /\ Get(work, ExtKey) = Get(doc, ExtKey)]_vars

(***************************************************************************)
(* A resource lists an extension if and only if it holds data of it:       *)
(* "stampSchemas lists the base schema plus every extension with assigned  *)
(* data in object" (service.go stampSchemas, writable.go, target.go        *)
(* unassignEmptyExtension).                                                *)
(***************************************************************************)
SchemasExact == held => (ExtURI \in schemas <=> HoldsData(doc))
=============================================================================
