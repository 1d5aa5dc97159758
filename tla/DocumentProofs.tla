--------------------------- MODULE DocumentProofs ---------------------------
(***************************************************************************)
(* What only the server assigns, and what is assigned once, is kept by     *)
(* every request, for every schema, document, body and operation.          *)
(***************************************************************************)
EXTENDS Document, SelectionProofs, FiniteSetTheorems, TLAPS

-----------------------------------------------------------------------------
(* Objects: what Get finds after Over, Set and Without. *)

LEMMA NoNames == DOMAIN <<>> = {}
  OBVIOUS

LEMMA KeyIs ==
    ASSUME NEW o, NEW n
    PROVE  /\ key(o, n)[1] = n[1]
           /\ Has(o, n) => key(o, n) \in DOMAIN o
           /\ ~Has(o, n) => key(o, n) = n /\ key(o, n) \notin DOMAIN o /\ Get(o, n) = Null
  BY DEF key, Has, Spelled, Get

LEMMA GetOf ==
    ASSUME NEW o, Distinct(o), NEW m \in DOMAIN o, NEW n, m[1] = n[1]
    PROVE  key(o, n) = m /\ Has(o, n) /\ Get(o, n) = o[m]
  BY KeyIs DEF Distinct, Has, Spelled, Get

LEMMA GetNone ==
    ASSUME NEW o, NEW n, \A m \in DOMAIN o : m[1] # n[1]
    PROVE  Get(o, n) = Null /\ ~Has(o, n)
  BY DEF Get, Has, Spelled

LEMMA GetSame ==
    ASSUME NEW o, Distinct(o), NEW m, NEW n, m[1] = n[1]
    PROVE  Get(o, m) = Get(o, n)
<1>1. CASE \E k \in DOMAIN o : k[1] = m[1]
  BY <1>1, GetOf
<1>2. CASE \A k \in DOMAIN o : k[1] # m[1]
  BY <1>2, GetNone
<1> QED
  BY <1>1, <1>2

\* The empty object.
LEMMA NothingIn ==
    ASSUME NEW n
    PROVE  Get(<<>>, n) = Null /\ Distinct(<<>>)
  BY NoNames, GetNone DEF Distinct

LEMMA OverIs ==
    ASSUME NEW o, NEW p
    PROVE  /\ DOMAIN Over(o, p) = DOMAIN o \cup DOMAIN p
           /\ \A n \in DOMAIN o : Over(o, p)[n] = o[n]
           /\ \A n \in DOMAIN p : n \notin DOMAIN o => Over(o, p)[n] = p[n]
  BY DEF Over

LEMMA EntryIs == ASSUME NEW n, NEW v PROVE DOMAIN Entry(n, v) = {n} /\ Entry(n, v)[n] = v
  BY DEF Entry

\* After a change of one name.
Changed(o, p, n, v) ==
    /\ Distinct(p)
    /\ \A m : m[1] = n[1] => Get(p, m) = v
    /\ \A m : m[1] # n[1] => Get(p, m) = Get(o, m)

LEMMA SetChanges ==
    ASSUME NEW o, Distinct(o), NEW n, NEW v
    PROVE  Changed(o, Set(o, n, v), n, v)
<1>1. PICK k : k = key(o, n)
  OBVIOUS
<1>2. k[1] = n[1] /\ (Has(o, n) => k \in DOMAIN o) /\ (~Has(o, n) => k = n)
  BY <1>1, KeyIs
<1>3. PICK p : p = Set(o, n, v)
  OBVIOUS
<1>4. DOMAIN p = DOMAIN o \cup {k} /\ p[k] = v /\ \A m \in DOMAIN o : m # k => p[m] = o[m]
  <2>1. PICK e : e = Entry(k, v)
    OBVIOUS
  <2>2. DOMAIN e = {k} /\ e[k] = v
    BY <2>1, EntryIs
  <2>3. p = Over(e, o)
    BY <1>1, <1>3, <2>1 DEF Set
  <2> QED
    BY <2>2, <2>3 DEF Over
<1>5. \A m \in DOMAIN o : m[1] = n[1] => m = k
  BY <1>1, GetOf
<1>6. Distinct(p)
  BY <1>2, <1>4, <1>5 DEF Distinct
<1>7. ASSUME NEW m, m[1] = n[1] PROVE Get(p, m) = v
  BY <1>2, <1>4, <1>6, <1>7, GetOf
<1>8. ASSUME NEW m, m[1] # n[1] PROVE Get(p, m) = Get(o, m)
  <2>1. CASE \E j \in DOMAIN o : j[1] = m[1]
    <3>1. PICK j \in DOMAIN o : j[1] = m[1]
      BY <2>1
    <3>2. j \in DOMAIN p /\ p[j] = o[j]
      BY <1>2, <1>4, <1>8, <3>1
    <3> QED
      BY <1>6, <3>1, <3>2, GetOf
  <2>2. CASE \A j \in DOMAIN o : j[1] # m[1]
    BY <1>2, <1>4, <1>8, <2>2, GetNone
  <2> QED
    BY <2>1, <2>2
<1> QED
  BY <1>3, <1>6, <1>7, <1>8 DEF Changed

LEMMA WithoutChanges ==
    ASSUME NEW o, Distinct(o), NEW n
    PROVE  Changed(o, Without(o, n), n, Null)
<1>1. PICK k : k = key(o, n)
  OBVIOUS
<1>2. k[1] = n[1]
  BY <1>1, KeyIs
<1>3. PICK p : p = Without(o, n)
  OBVIOUS
<1>4. DOMAIN p = DOMAIN o \ {k} /\ \A m \in DOMAIN p : p[m] = o[m]
  BY <1>1, <1>3 DEF Without, Restrict
<1>5. \A m \in DOMAIN o : m[1] = n[1] => m = k
  BY <1>1, GetOf
<1>6. Distinct(p)
  BY <1>4 DEF Distinct
<1>7. ASSUME NEW m, m[1] = n[1] PROVE Get(p, m) = Null
  BY <1>4, <1>5, <1>7, GetNone
<1>8. ASSUME NEW m, m[1] # n[1] PROVE Get(p, m) = Get(o, m)
  <2>1. CASE \E j \in DOMAIN o : j[1] = m[1]
    <3>1. PICK j \in DOMAIN o : j[1] = m[1]
      BY <2>1
    <3>2. j \in DOMAIN p /\ p[j] = o[j]
      BY <1>2, <1>4, <1>8, <3>1
    <3> QED
      BY <1>6, <3>1, <3>2, GetOf
  <2>2. CASE \A j \in DOMAIN o : j[1] # m[1]
    BY <1>4, <2>2, GetNone
  <2> QED
    BY <2>1, <2>2
<1> QED
  BY <1>3, <1>6, <1>7, <1>8 DEF Changed

-----------------------------------------------------------------------------
(* Values. *)

LEMMA ObjectIs == ASSUME NEW o PROVE IsObject(Obj(o)) /\ Obj(o).o = o /\ AsObject(Obj(o)) = o /\ Obj(o).t = "object"
  BY DEF Obj, IsObject, AsObject

LEMMA NullIs == IsUnassigned(Null) /\ ~IsObject(Null) /\ AsObject(Null) = <<>> /\ Null.t = "null"
  BY DEF Null, IsUnassigned, IsObject, AsObject

\* AllUnassigned counts it as data.
Full(v) == ~IsUnassigned(v) /\ (IsObject(v) => \E m \in DOMAIN v.o : ~IsUnassigned(v.o[m]))

LEMMA EqualReflexive == ASSUME NEW a, NEW v PROVE Equal(a, v, v)
  BY DEF Equal

LEMMA EqualTransitive ==
    ASSUME NEW a, NEW u, NEW v, NEW w, Equal(a, u, v), Equal(a, v, w)
    PROVE  Equal(a, u, w)
  BY DEF Equal

LEMMA EqualAlike ==
    ASSUME NEW a, NEW v, NEW w, Equal(a, v, w)
    PROVE  /\ ~IsUnassigned(v) => ~IsUnassigned(w)
           /\ Full(v) => Full(w)
           /\ v.t # "string" => w = v
           /\ IsObject(v) => w = v
           /\ v = Null => w = Null
<1>1. (v.t # "string" \/ w.t # "string") => w = v
  BY DEF Equal
<1>2. (v.t = "string" /\ w.t = "string") => v.s = w.s
  BY DEF Equal
<1>3. ~IsUnassigned(v) => ~IsUnassigned(w)
  BY <1>1, <1>2 DEF IsUnassigned
<1>4. Full(v) => Full(w)
  BY <1>1, <1>3 DEF Full, IsObject
<1> QED
  BY <1>1, <1>3, <1>4, NullIs DEF IsObject

\* What unassignEmptyExtension looks for.
LEMMA AllUnassignedGet ==
    ASSUME NEW o, AllUnassigned(o), NEW n
    PROVE  /\ ~Full(Get(o, n))
           /\ \A m : IsUnassigned(Get(AsObject(Get(o, n)), m))
<1>1. CASE ~Has(o, n)
  <2>1. Get(o, n) = Null
    BY <1>1, KeyIs
  <2> QED
    BY <2>1, NullIs, NothingIn DEF Full
<1>2. CASE Has(o, n)
  <2>1. PICK v : v = Get(o, n)
    OBVIOUS
  <2>2. IsUnassigned(v) \/ (IsObject(v) /\ \A m \in DOMAIN v.o : IsUnassigned(v.o[m]))
    BY <1>2, <2>1, KeyIs DEF Get, AllUnassigned
  <2>3. ASSUME NEW m PROVE IsUnassigned(Get(AsObject(v), m))
    <3>1. CASE ~Has(AsObject(v), m)
      BY <3>1, KeyIs, NullIs
    <3>2. CASE Has(AsObject(v), m)
      <4>1. PICK j : j = key(AsObject(v), m)
        OBVIOUS
      <4>2. j \in DOMAIN AsObject(v) /\ Get(AsObject(v), m) = AsObject(v)[j]
        BY <3>2, <4>1, KeyIs DEF Get
      <4>3. IsObject(v) /\ AsObject(v) = v.o
        BY <4>2, NoNames DEF AsObject
      <4>4. DOMAIN v.o # {}
        BY <4>2, <4>3
      <4>5. ~IsUnassigned(v)
        BY <4>3, <4>4 DEF IsUnassigned, IsObject
      <4> QED
        BY <2>2, <4>2, <4>3, <4>5
    <3> QED
      BY <3>1, <3>2
  <2> QED
    BY <2>1, <2>2, <2>3 DEF Full
<1> QED
  BY <1>1, <1>2

-----------------------------------------------------------------------------
(* What a write may do to the sub-attributes of an object h that is the    *)
(* value of attribute a.                                                   *)

Among(h, a, n, v) ==
    LET b == Lookup(a.subs, n)
    IN  /\ b.mutability = "readOnly" => v = Get(h, n)
        /\ b.mutability = "immutable" /\ ~IsUnassigned(Get(h, n)) => Equal(b, Get(h, n), v)
        /\ a.mutability = "immutable" /\ ~a.multi /\ DOMAIN h # {} => Equal(b, Get(h, n), v)

SubKeeps(a, h, p) == Distinct(p) /\ \A n : Among(h, a, n, Get(p, n))

LEMMA AmongSame == ASSUME NEW h, NEW a, NEW n PROVE Among(h, a, n, Get(h, n))
  BY EqualReflexive DEF Among

LEMMA LookupSame == ASSUME NEW attrs, NEW m, NEW n, m[1] = n[1] PROVE Lookup(attrs, m) = Lookup(attrs, n)
  BY DEF Lookup

LEMMA AmongAlike ==
    ASSUME NEW h, Distinct(h), NEW a, NEW m, NEW n, m[1] = n[1], NEW v, Among(h, a, m, v)
    PROVE  Among(h, a, n, v)
<1>1. Get(h, m) = Get(h, n) /\ Lookup(a.subs, m) = Lookup(a.subs, n)
  BY GetSame, LookupSame
<1> QED
  BY <1>1 DEF Among

LEMMA ChangeKeeps ==
    ASSUME NEW h, Distinct(h), NEW a, NEW p, NEW n, NEW v,
           Changed(h, p, n, v), Among(h, a, n, v)
    PROVE  SubKeeps(a, h, p)
<1> SUFFICES ASSUME NEW m PROVE Among(h, a, m, Get(p, m))
  BY DEF SubKeeps, Changed
<1>1. CASE m[1] = n[1]
  BY <1>1, AmongAlike DEF Changed
<1>2. CASE m[1] # n[1]
  BY <1>2, AmongSame DEF Changed
<1> QED
  BY <1>1, <1>2

\* merger.merge: every field passes the gates, and none is readOnly.
LEMMA MergeKeeps ==
    ASSUME NEW h, Distinct(h), NEW a, NEW kind, NEW values, Distinct(values),
           \A n \in DOMAIN values : Lookup(a.subs, n).mutability # "readOnly",
           merge(h, a, kind, values).ok
    PROVE  SubKeeps(a, h, merge(h, a, kind, values).root)
<1> DEFINE final(n) == appended(Lookup(a.subs, n), Get(h, n), shaped(Lookup(a.subs, n), values[n]), kind)
           written == {key(h, n) : n \in DOMAIN values}
           o == [k \in written |-> final(CHOOSE n \in DOMAIN values : key(h, n) = k)]
<1>1. /\ merge(h, a, kind, values).root = Over(o, h)
      /\ \A n \in DOMAIN values :
           /\ gateImmutableWrite(Lookup(a.subs, n), Get(h, n), final(n))
           /\ parentGate(a, h, Lookup(a.subs, n), Get(h, n), final(n))
  BY DEF merge, OkIf, Ok, Refused
<1>2. \A n \in DOMAIN values : Among(h, a, n, final(n))
  BY <1>1 DEF Among, gateImmutableWrite, parentGate
<1>3. ASSUME NEW k \in written
      PROVE  \E n \in DOMAIN values : key(h, n) = k /\ n[1] = k[1] /\ o[k] = final(n)
  <2>1. PICK n : n = CHOOSE j \in DOMAIN values : key(h, j) = k
    OBVIOUS
  <2>2. n \in DOMAIN values /\ key(h, n) = k
    BY <2>1, <1>3
  <2>3. o[k] = final(n)
    BY <2>1, <1>3
  <2> HIDE DEF final, o, written
  <2> QED
    BY <2>2, <2>3, KeyIs
<1>4. \A k \in written : Among(h, a, k, o[k])
  <2> TAKE k \in written
  <2>1. PICK n \in DOMAIN values : n[1] = k[1] /\ o[k] = final(n)
    BY <1>3
  <2>2. Among(h, a, n, final(n))
    BY <1>2
  <2> HIDE DEF final, o, written
  <2> QED
    BY <2>1, <2>2, AmongAlike
<1>5. DOMAIN o = written
  OBVIOUS
<1>6. \A j \in written, k \in written : j[1] = k[1] => j = k
  <2> TAKE j \in written, k \in written
  <2>1. PICK m \in DOMAIN values : key(h, m) = j /\ m[1] = j[1]
    BY <1>3
  <2>2. PICK n \in DOMAIN values : key(h, n) = k /\ n[1] = k[1]
    BY <1>3
  <2> HIDE DEF final, o, written
  <2> QED
    BY <2>1, <2>2 DEF Distinct
<1>7. \A j \in DOMAIN h, k \in written : j[1] = k[1] => j = k
  <2> TAKE j \in DOMAIN h, k \in written
  <2>1. PICK n \in DOMAIN values : key(h, n) = k /\ n[1] = k[1]
    BY <1>3
  <2> HIDE DEF final, o, written
  <2> QED
    BY <2>1, GetOf
<1> HIDE DEF final, o, written
<1>8. PICK p : p = merge(h, a, kind, values).root
  OBVIOUS
<1>9. /\ DOMAIN p = written \cup DOMAIN h
      /\ \A k \in written : p[k] = o[k]
      /\ \A k \in DOMAIN h : k \notin written => p[k] = h[k]
  BY <1>1, <1>5, <1>8 DEF Over
<1>10. Distinct(p)
  BY <1>6, <1>7, <1>9 DEF Distinct
<1>11. ASSUME NEW n PROVE Among(h, a, n, Get(p, n))
  <2>1. CASE \E k \in written : k[1] = n[1]
    <3>1. PICK k \in written : k[1] = n[1]
      BY <2>1
    <3>2. Get(p, n) = o[k]
      BY <1>9, <1>10, <3>1, GetOf
    <3> QED
      BY <1>4, <3>1, <3>2, AmongAlike
  <2>2. CASE ~(\E k \in written : k[1] = n[1]) /\ \E k \in DOMAIN h : k[1] = n[1]
    <3>1. PICK k \in DOMAIN h : k[1] = n[1]
      BY <2>2
    <3>2. k \notin written
      BY <2>2, <3>1
    <3>3. Get(p, n) = Get(h, n)
      BY <1>9, <1>10, <3>1, <3>2, GetOf
    <3> QED
      BY <3>3, AmongSame
  <2>3. CASE ~(\E k \in written : k[1] = n[1]) /\ ~\E k \in DOMAIN h : k[1] = n[1]
    <3>1. Get(p, n) = Null /\ Get(h, n) = Null
      BY <1>9, <2>3, GetNone
    <3> QED
      BY <3>1, AmongSame
  <2> QED
    BY <2>1, <2>2, <2>3
<1> QED
  BY <1>8, <1>10, <1>11 DEF SubKeeps

-----------------------------------------------------------------------------
(* What a write may make of the value v of attribute a itself. *)

TopKeeps(a, v, w) ==
    \/ a.complex /\ CanHold(v) /\ IsObject(w) /\ SubKeeps(a, AsObject(v), w.o)
    \/ /\ a.mutability = "immutable" /\ ~IsUnassigned(v) => Equal(a, v, w)
       /\ a.complex => ~IsObject(w)

\* target.stripReadOnly leaves no readOnly names.
LEMMA Stripped ==
    ASSUME NEW a, NEW v, Distinct(AsObject(v))
    PROVE  LET w == stripReadOnly(a, v)
           IN  /\ IsObject(w) <=> IsObject(v)
               /\ ~IsObject(v) => w = v
               /\ Distinct(AsObject(w))
               /\ IsObject(w) => \A n \in DOMAIN AsObject(w) : Lookup(a.subs, n).mutability # "readOnly"
<1>1. CASE ~IsObject(v)
  BY <1>1 DEF stripReadOnly
<1>2. CASE IsObject(v)
  <2>1. PICK S : S = {n \in DOMAIN v.o : Lookup(a.subs, n).mutability # "readOnly"}
    OBVIOUS
  <2>2. PICK o : o = Restrict(v.o, S)
    OBVIOUS
  <2>3. stripReadOnly(a, v) = Obj(o)
    BY <1>2, <2>1, <2>2 DEF stripReadOnly
  <2>4. DOMAIN o = S /\ AsObject(v) = v.o
    BY <1>2, <2>2 DEF Restrict, AsObject
  <2>5. Distinct(o)
    BY <2>1, <2>4 DEF Distinct
  <2> QED
    BY <1>2, <2>1, <2>3, <2>4, <2>5, ObjectIs
<1> QED
  BY <1>1, <1>2

\* target.put on an attribute.
LEMMA PutTop ==
    ASSUME NEW c, Distinct(c), NEW a, NEW n, NEW kind, NEW v,
           a.complex => ~a.multi,
           Distinct(AsObject(Get(c, n))) \/ ~a.complex, Distinct(AsObject(v)),
           IsObject(v) => \A m \in DOMAIN AsObject(v) : Lookup(a.subs, m).mutability # "readOnly",
           put(c, permissiveAttr, a, n, kind, v).ok
    PROVE  \E w : TopKeeps(a, Get(c, n), w)
                  /\ Changed(c, put(c, permissiveAttr, a, n, kind, v).root, n, w)
<1> DEFINE before == Get(c, n)
           final == appended(a, before, shaped(a, v), kind)
           merged == merge(AsObject(before), a, kind, AsObject(v))
<1>1. CASE IsObject(v) /\ a.complex /\ ~a.multi
  <2>1. /\ put(c, permissiveAttr, a, n, kind, v).root = Set(c, n, Obj(merged.root))
        /\ CanHold(before) /\ merged.ok
    BY <1>1 DEF put, OkIf, Ok, Refused
  <2>2. SubKeeps(a, AsObject(before), merged.root)
    BY <1>1, <2>1, MergeKeeps
  <2>3. TopKeeps(a, before, Obj(merged.root))
    BY <1>1, <2>1, <2>2, ObjectIs DEF TopKeeps
  <2> HIDE DEF before, merged
  <2>4. Changed(c, Set(c, n, Obj(merged.root)), n, Obj(merged.root))
    BY SetChanges
  <2> QED
    BY <2>1, <2>3, <2>4 DEF before
<1>2. CASE ~(IsObject(v) /\ a.complex /\ ~a.multi)
  <2>1. /\ put(c, permissiveAttr, a, n, kind, v).root = Set(c, n, final)
        /\ gateImmutableWrite(a, before, final)
    BY <1>2 DEF put, OkIf, Ok, Refused
  <2>2. a.complex => ~IsObject(final)
    BY <1>2 DEF appended, shaped, List, IsObject
  <2>3. TopKeeps(a, before, final)
    BY <2>1, <2>2 DEF TopKeeps, gateImmutableWrite
  <2> HIDE DEF before, final
  <2>4. Changed(c, Set(c, n, final), n, final)
    BY SetChanges
  <2> QED
    BY <2>1, <2>3, <2>4 DEF before
<1> QED
  BY <1>1, <1>2

\* target.put on a sub-attribute of a.
LEMMA PutSub ==
    ASSUME NEW h, Distinct(h), NEW a, NEW b, NEW n, NEW kind, NEW v,
           b = Lookup(a.subs, n), b.mutability # "readOnly", ~b.complex,
           put(h, a, b, n, kind, v).ok
    PROVE  SubKeeps(a, h, put(h, a, b, n, kind, v).root)
<1>1. PICK before : before = Get(h, n)
  OBVIOUS
<1>2. PICK final : final = appended(b, before, shaped(b, v), kind)
  OBVIOUS
<1>3. /\ put(h, a, b, n, kind, v).root = Set(h, n, final)
      /\ gateImmutableWrite(b, before, final) /\ parentGate(a, h, b, before, final)
  BY <1>1, <1>2 DEF put, OkIf, Ok, Refused
<1>4. Among(h, a, n, final)
  BY <1>1, <1>3 DEF Among, gateImmutableWrite, parentGate
<1>5. Changed(h, Set(h, n, final), n, final)
  BY SetChanges
<1> QED
  BY <1>3, <1>4, <1>5, ChangeKeeps

-----------------------------------------------------------------------------
(* Fields, and where their values are. *)

House(d, uri) == IF uri = ExtURI THEN AsObject(Get(d, ExtKey)) ELSE d

LEMMA ExactIs == ASSUME NEW n PROVE Exact(n)[1] = n /\ (n # "" => Exact(n) # NoName)
  BY DEF Exact, NoName

LEMMA ExtKeyIs == ExtKey[1] = ExtURI /\ ExtURI # BaseURI /\ ExtURI # "" /\ BaseURI # ""
  BY ExactIs DEF ExtKey, ExtURI, BaseURI

LEMMA AttributesAre ==
    /\ Attributes("") = Base /\ Attributes(BaseURI) = Base /\ Attributes(ExtURI) = Extension
    /\ \A uri : uri \notin {"", BaseURI, ExtURI} => DOMAIN Attributes(uri) = {}
  BY NoNames DEF Attributes, BaseURI, ExtURI

LEMMA DeclaredIs ==
    ASSUME NEW uri, NEW n \in DOMAIN Attributes(uri)
    PROVE  LET a == Attributes(uri)[n]
           IN  /\ n # ""
               /\ uri = ExtURI \/ n # ExtURI
               /\ a.complex => ~a.multi
               /\ ~a.complex => DOMAIN a.subs = {}
               /\ \A s \in DOMAIN a.subs : s # "" /\ ~a.subs[s].complex
  BY AttributesAre, SchemaAssumption DEF Declares

LEMMA TopPath ==
    ASSUME NEW f \in Tops
    PROVE  \E uri \in {BaseURI, ExtURI} : \E n \in DOMAIN Attributes(uri) : f = Path(uri, Exact(n), NoName)
<1>1. CASE f \in {Path(BaseURI, Exact(n), NoName) : n \in DOMAIN Base}
  <2>1. PICK n \in DOMAIN Base : f = Path(BaseURI, Exact(n), NoName)
    BY <1>1
  <2> QED
    BY <2>1, AttributesAre
<1>2. CASE f \in {Path(ExtURI, Exact(n), NoName) : n \in DOMAIN Extension}
  <2>1. PICK n \in DOMAIN Extension : f = Path(ExtURI, Exact(n), NoName)
    BY <1>2
  <2> QED
    BY <2>1, AttributesAre
<1> QED
  BY <1>1, <1>2 DEF Tops

LEMMA TopIs ==
    ASSUME NEW f \in Tops
    PROVE  /\ f.sub = NoName /\ f.uri \in {BaseURI, ExtURI}
           /\ f.name[1] \in DOMAIN Attributes(f.uri) /\ f.name = Exact(f.name[1])
           /\ Parent(f) = Attributes(f.uri)[f.name[1]] /\ Attribute(f) = Parent(f)
<1>1. PICK uri \in {BaseURI, ExtURI} : \E n \in DOMAIN Attributes(uri) : f = Path(uri, Exact(n), NoName)
  BY TopPath
<1>2. PICK n \in DOMAIN Attributes(uri) : f = Path(uri, Exact(n), NoName)
  BY <1>1
<1>3. f.sub = NoName /\ f.uri \in {BaseURI, ExtURI}
      /\ f.name[1] \in DOMAIN Attributes(f.uri) /\ f.name = Exact(f.name[1])
  BY <1>2, ExactIs DEF Path
<1> QED
  BY <1>3 DEF Parent, Attribute, Lookup

LEMMA SubIs ==
    ASSUME NEW f \in Fields, f \notin Tops
    PROVE  /\ f.sub # NoName /\ f.sub = Exact(f.sub[1])
           /\ Top(f) \in Complex /\ Top(f).uri = f.uri /\ Top(f).name = f.name
           /\ Parent(f) = Attribute(Top(f)) /\ f.sub[1] \in DOMAIN Parent(f).subs
           /\ Attribute(f) = Lookup(Parent(f).subs, f.sub)
           /\ ~Attribute(f).complex
<1>1. PICK t \in Tops : \E s \in DOMAIN Parent(t).subs : f = [t EXCEPT !.sub = Exact(s)]
  BY DEF Fields
<1>2. PICK s \in DOMAIN Parent(t).subs : f = [t EXCEPT !.sub = Exact(s)]
  BY <1>1
<1>3. PICK uri, n : t = Path(uri, n, NoName)
  BY TopPath
<1>4. f.uri = t.uri /\ f.name = t.name /\ f.sub = Exact(s) /\ Top(f) = t
  <2>1. f = Path(uri, n, Exact(s))
    BY <1>2, <1>3 DEF Path
  <2>2. Top(f) = Path(uri, n, NoName)
    BY <2>1 DEF Path, Top
  <2> QED
    BY <1>3, <2>1, <2>2 DEF Path
<1>5. Parent(f) = Parent(t)
  BY <1>4 DEF Parent
<1>6. /\ Parent(t) = Attributes(t.uri)[t.name[1]] /\ Attribute(t) = Parent(t)
      /\ t.name[1] \in DOMAIN Attributes(t.uri)
  BY TopIs
<1>7. Parent(t).complex /\ s # "" /\ ~Parent(t).subs[s].complex
  BY <1>2, <1>6, DeclaredIs
<1>8. f.sub # NoName /\ f.sub[1] = s
  BY <1>4, <1>7, ExactIs
<1>9. Attribute(f) = Lookup(Parent(f).subs, f.sub) /\ Lookup(Parent(f).subs, f.sub) = Parent(t).subs[s]
  BY <1>2, <1>5, <1>8 DEF Attribute, Lookup
<1> QED
  BY <1>4, <1>5, <1>6, <1>7, <1>8, <1>9 DEF Complex

LEMMA FieldIs ==
    ASSUME NEW f \in Fields
    PROVE  f.sub = NoName <=> f \in Tops
  BY TopIs, SubIs

LEMMA HouseIs ==
    ASSUME NEW d, NEW p
    PROVE  AsObject(Container(d, p)) = House(d, p.uri)
  BY ObjectIs DEF Container, House

LEMMA ValueTop ==
    ASSUME NEW d, NEW f, f.sub = NoName
    PROVE  Value(d, f) = Get(House(d, f.uri), f.name) /\ Holder(d, f) = Container(d, f)
  BY HouseIs DEF Value, Holder

LEMMA ValueSub ==
    ASSUME NEW d, NEW f \in Fields, f.sub # NoName
    PROVE  Value(d, f) = Get(AsObject(Value(d, Top(f))), f.sub) /\ Holder(d, f) = Value(d, Top(f))
<1>1. f \notin Tops
  BY TopIs
<1>2. Top(f).uri = f.uri /\ Top(f).name = f.name /\ Top(f).sub = NoName
  BY <1>1, SubIs, TopIs DEF Complex
<1>3. Holder(d, f) = Value(d, Top(f))
  BY <1>2, ValueTop, HouseIs DEF Holder
<1> QED
  BY <1>3 DEF Value

-----------------------------------------------------------------------------
(* A working copy in which no name is given twice, and what one write does *)
(* to the fields of such a copy.                                           *)

Neat(root) ==
    /\ Distinct(root)
    /\ Distinct(House(root, ExtURI))
    /\ \A f \in Complex : Distinct(AsObject(Value(root, f)))

\* Some sub-attribute of f is assigned.
HasData(root, f) ==
    \E g \in Fields : g.sub # NoName /\ Top(g) = f /\ ~IsUnassigned(Value(root, g))

LostWith(f, G) == f.sub # NoName /\ Top(f) \in G

FieldKept(f, v, w, data, G) ==
    /\ Attribute(f).mutability = "readOnly" => w = v \/ (w = Null /\ LostWith(f, G))
    /\ ~Attribute(f).complex /\ Attribute(f).mutability = "immutable" /\ Full(v)
         => Equal(Attribute(f), v, w) \/ LostWith(f, G)
    /\ f.sub # NoName /\ Parent(f).mutability = "immutable" /\ data => Equal(Attribute(f), v, w)

Keeps(root, new) ==
    \A f \in Fields : FieldKept(f, Value(root, f), Value(new, f), HasData(root, Top(f)), NoObject(new))

\* Attribute n of the schema uri has become w, and nothing else has changed.
Rewritten(root, new, uri, n, w) ==
    /\ Distinct(new)
    /\ Distinct(House(new, ExtURI))
    /\ \A m : m[1] = n[1] => Get(House(new, uri), m) = w
    /\ \A m : m[1] # n[1] => Get(House(new, uri), m) = Get(House(root, uri), m)
    /\ uri = ExtURI => \A m : m[1] # ExtURI => Get(new, m) = Get(root, m)
    /\ uri # ExtURI => House(new, ExtURI) = House(root, ExtURI)

LEMMA RewrittenIs ==
    ASSUME NEW root, Neat(root), NEW uri, NEW n, n[1] \in DOMAIN Attributes(uri), NEW w, NEW c,
           Changed(House(root, uri), c, n, w)
    PROVE  Rewritten(root, IF uri = ExtURI THEN Set(root, ExtKey, Obj(c)) ELSE c, uri, n, w)
<1>1. CASE uri = ExtURI
  <2>1. PICK new : new = Set(root, ExtKey, Obj(c))
    OBVIOUS
  <2>2. Changed(root, new, ExtKey, Obj(c))
    BY <2>1, SetChanges DEF Neat
  <2>3. Get(new, ExtKey) = Obj(c)
    BY <2>2 DEF Changed
  <2>4. House(new, ExtURI) = c
    BY <2>3, ObjectIs DEF House
  <2>5. Distinct(new) /\ \A m : m[1] # ExtURI => Get(new, m) = Get(root, m)
    BY <2>2, ExtKeyIs DEF Changed
  <2> QED
    BY <1>1, <2>1, <2>4, <2>5 DEF Changed, Rewritten
<1>2. CASE uri # ExtURI
  <2>1. House(root, uri) = root /\ House(c, uri) = c
    BY <1>2 DEF House
  <2>2. n[1] # ExtURI
    BY <1>2, DeclaredIs
  <2>3. Get(c, ExtKey) = Get(root, ExtKey)
    BY <2>1, <2>2, ExtKeyIs DEF Changed
  <2>4. House(c, ExtURI) = House(root, ExtURI)
    BY <2>3 DEF House
  <2> QED
    BY <1>2, <2>1, <2>4 DEF Changed, Rewritten, Neat
<1> QED
  BY <1>1, <1>2

\* The value of every attribute after a write: w for the one written, the old one for the others.
LEMMA RewrittenTops ==
    ASSUME NEW root, Neat(root), NEW new, NEW uri, NEW n, n[1] \in DOMAIN Attributes(uri),
           NEW w, Rewritten(root, new, uri, n, w), NEW f \in Tops
    PROVE  \/ /\ Attribute(f) = Attributes(uri)[n[1]]
              /\ Value(root, f) = Get(House(root, uri), n)
              /\ Value(new, f) = w
           \/ Value(new, f) = Value(root, f)
<1>1. /\ f.uri \in {BaseURI, ExtURI} /\ f.name[1] \in DOMAIN Attributes(f.uri)
      /\ Attribute(f) = Attributes(f.uri)[f.name[1]]
      /\ Value(root, f) = Get(House(root, f.uri), f.name)
      /\ Value(new, f) = Get(House(new, f.uri), f.name)
  BY TopIs, ValueTop
<1>2. uri \in {"", BaseURI, ExtURI}
  BY AttributesAre
<1>3. CASE (f.uri = ExtURI) = (uri = ExtURI)
  <2>1. Attributes(f.uri) = Attributes(uri) /\ House(root, f.uri) = House(root, uri)
        /\ House(new, f.uri) = House(new, uri)
    BY <1>1, <1>2, <1>3, AttributesAre, ExtKeyIs DEF House
  <2>2. Distinct(House(root, uri))
    BY DEF Neat, House
  <2>3. CASE f.name[1] = n[1]
    <3>1. Get(House(root, uri), f.name) = Get(House(root, uri), n)
      BY <2>2, <2>3, GetSame
    <3> QED
      BY <1>1, <2>1, <2>3, <3>1 DEF Rewritten
  <2>4. CASE f.name[1] # n[1]
    BY <1>1, <2>1, <2>4 DEF Rewritten
  <2> QED
    BY <2>3, <2>4
<1>4. CASE f.uri # ExtURI /\ uri = ExtURI
  <2>1. f.name[1] # ExtURI /\ House(root, f.uri) = root /\ House(new, f.uri) = new
    BY <1>1, <1>4, DeclaredIs DEF House
  <2> QED
    BY <1>1, <1>4, <2>1 DEF Rewritten
<1>5. CASE f.uri = ExtURI /\ uri # ExtURI
  BY <1>1, <1>5 DEF Rewritten
<1> QED
  BY <1>3, <1>4, <1>5

LEMMA SameKept ==
    ASSUME NEW f, NEW v, NEW data, NEW G
    PROVE  FieldKept(f, v, v, data, G)
  BY EqualReflexive DEF FieldKept

\* A value that has a sub-attribute is an object with a name in it.
LEMMA DataIsObject ==
    ASSUME NEW v, NEW s, ~IsUnassigned(Get(AsObject(v), s))
    PROVE  IsObject(v) /\ DOMAIN AsObject(v) # {} /\ ~IsUnassigned(v)
<1>1. Has(AsObject(v), s)
  BY KeyIs, NullIs
<1>2. DOMAIN AsObject(v) # {}
  BY <1>1, KeyIs
<1>3. IsObject(v) /\ AsObject(v) = v.o
  BY <1>2, NoNames DEF AsObject
<1> QED
  BY <1>2, <1>3 DEF IsUnassigned, IsObject

LEMMA RewrittenKeeps ==
    ASSUME NEW root, Neat(root), NEW new, NEW uri, NEW n, n[1] \in DOMAIN Attributes(uri),
           NEW a, a = Attributes(uri)[n[1]], a.mutability # "readOnly",
           NEW w, Rewritten(root, new, uri, n, w), TopKeeps(a, Get(House(root, uri), n), w)
    PROVE  Neat(new) /\ Keeps(root, new)
<1>1. PICK v : v = Get(House(root, uri), n)
  OBVIOUS
<1>2. \A f \in Tops : \/ Attribute(f) = a /\ Value(root, f) = v /\ Value(new, f) = w
                      \/ Value(new, f) = Value(root, f)
  BY <1>1, RewrittenTops
<1>3. TopKeeps(a, v, w) /\ (a.complex => ~a.multi)
  BY <1>1, DeclaredIs
<1>4. Neat(new)
  <2> SUFFICES ASSUME NEW f \in Complex PROVE Distinct(AsObject(Value(new, f)))
    BY DEF Neat, Rewritten
  <2>1. f \in Tops /\ Attribute(f).complex
    BY TopIs DEF Complex
  <2>2. CASE Value(new, f) = Value(root, f)
    BY <2>2 DEF Neat
  <2>3. CASE Attribute(f) = a /\ Value(new, f) = w
    <3>1. IsObject(w) => Distinct(w.o)
      BY <1>3, <2>1, <2>3 DEF TopKeeps, SubKeeps
    <3>2. ~IsObject(w) => AsObject(w) = <<>>
      BY DEF AsObject
    <3>3. IsObject(w) => AsObject(w) = w.o
      BY DEF AsObject
    <3> QED
      BY <2>3, <3>1, <3>2, <3>3, NothingIn
  <2> QED
    BY <1>2, <2>1, <2>2, <2>3
<1>5. ASSUME NEW f \in Fields
      PROVE  FieldKept(f, Value(root, f), Value(new, f), HasData(root, Top(f)), NoObject(new))
  <2>1. CASE f \in Tops
    <3>1. CASE Value(new, f) = Value(root, f)
      BY <3>1, SameKept
    <3>2. CASE Attribute(f) = a /\ Value(root, f) = v /\ Value(new, f) = w
      BY <1>3, <2>1, <3>2, TopIs DEF TopKeeps, FieldKept, Full
    <3> QED
      BY <1>2, <2>1, <3>1, <3>2
  <2>2. CASE f \notin Tops
    <3>1. /\ Top(f) \in Tops /\ Attribute(Top(f)).complex /\ Parent(f) = Attribute(Top(f)) /\ f.sub # NoName
          /\ Attribute(f) = Lookup(Parent(f).subs, f.sub) /\ Top(f) \in Complex
      BY <2>2, SubIs, TopIs DEF Complex
    <3>2. /\ Value(root, f) = Get(AsObject(Value(root, Top(f))), f.sub)
          /\ Value(new, f) = Get(AsObject(Value(new, Top(f))), f.sub)
      BY <3>1, ValueSub
    <3>3. CASE Value(new, Top(f)) = Value(root, Top(f))
      BY <3>2, <3>3, SameKept
    <3>4. CASE Attribute(Top(f)) = a /\ Value(root, Top(f)) = v /\ Value(new, Top(f)) = w
      <4>1. HasData(root, Top(f)) => IsObject(v) /\ DOMAIN AsObject(v) # {} /\ ~IsUnassigned(v)
        <5> SUFFICES ASSUME NEW g \in Fields, g.sub # NoName, Top(g) = Top(f), ~IsUnassigned(Value(root, g))
                     PROVE  IsObject(v) /\ DOMAIN AsObject(v) # {} /\ ~IsUnassigned(v)
          BY DEF HasData
        <5>1. Value(root, g) = Get(AsObject(v), g.sub)
          BY <3>4, ValueSub
        <5> QED
          BY <5>1, DataIsObject
      <4>2. CASE IsObject(w) /\ SubKeeps(a, AsObject(v), w.o)
        <5>1. Among(AsObject(v), a, f.sub, Get(w.o, f.sub))
          BY <4>2 DEF SubKeeps
        <5>2. Value(new, f) = Get(w.o, f.sub) /\ Value(root, f) = Get(AsObject(v), f.sub)
          BY <3>2, <3>4, <4>2 DEF AsObject
        <5> QED
          BY <1>3, <3>1, <3>4, <4>1, <5>1, <5>2 DEF Among, FieldKept, Full
      <4>3. CASE ~IsObject(w) /\ (a.mutability = "immutable" /\ ~IsUnassigned(v) => Equal(a, v, w))
        <5>1. Top(f) \in NoObject(new)
          BY <3>1, <3>4, <4>3 DEF NoObject
        <5>2. Value(new, f) = Null
          BY <3>2, <3>4, <4>3, NothingIn DEF AsObject
        <5>3. ~(a.mutability = "immutable" /\ HasData(root, Top(f)))
          BY <4>1, <4>3, EqualAlike
        <5> QED
          BY <3>1, <3>4, <5>1, <5>2, <5>3 DEF FieldKept, LostWith
      <4> QED
        BY <1>3, <3>1, <3>4, <4>2, <4>3 DEF TopKeeps
    <3> QED
      BY <1>2, <3>1, <3>3, <3>4
  <2> QED
    BY <2>1, <2>2
<1> QED
  BY <1>4, <1>5 DEF Keeps

-----------------------------------------------------------------------------
(* The operations of a PATCH with a path. *)

\* What only the server assigns is there with data, or not at all.
Solid(root) ==
    \A f \in Fields : Attribute(f).mutability = "readOnly" => Value(root, f) = Null \/ Full(Value(root, f))

LEMMA SameKeeps == ASSUME NEW root PROVE Keeps(root, root)
  BY SameKept DEF Keeps

\* target.unassignEmptyExtension takes nothing away that must be kept.
LEMMA UnassignKeeps ==
    ASSUME NEW root, Solid(root), NEW new, Neat(new), Keeps(root, new), NEW path
    PROVE  LET kept == unassignEmptyExtension(new, path)
           IN  Neat(kept) /\ Keeps(root, kept)
<1>1. CASE unassignEmptyExtension(new, path) = new
  BY <1>1
<1>2. CASE AllUnassigned(House(new, ExtURI)) /\ unassignEmptyExtension(new, path) = Without(new, ExtKey)
  <2>1. PICK kept : kept = Without(new, ExtKey)
    OBVIOUS
  <2>2. Changed(new, kept, ExtKey, Null)
    BY <2>1, WithoutChanges DEF Neat
  <2>3. Get(kept, ExtKey) = Null /\ House(kept, ExtURI) = <<>>
    BY <2>2, NullIs DEF Changed, House
  <2>4. \A f \in Tops : f.uri # ExtURI => Value(kept, f) = Value(new, f)
    <3> TAKE f \in Tops
    <3> HAVE f.uri # ExtURI
    <3>1. f.name[1] # ExtURI
      BY TopIs, DeclaredIs
    <3>2. Get(kept, f.name) = Get(new, f.name)
      BY <2>2, <3>1, ExtKeyIs DEF Changed
    <3> QED
      BY <3>2, TopIs, ValueTop DEF House
  <2>5. \A f \in Tops : f.uri = ExtURI => Value(kept, f) = Null
    BY <2>3, TopIs, ValueTop, NothingIn
  <2>6. Neat(kept)
    <3> SUFFICES ASSUME NEW f \in Complex PROVE Distinct(AsObject(Value(kept, f)))
      BY <2>2, <2>3, NothingIn DEF Neat, Changed
    <3>1. f \in Tops
      BY DEF Complex
    <3>2. CASE f.uri = ExtURI
      BY <2>5, <3>1, <3>2, NullIs, NothingIn
    <3>3. CASE f.uri # ExtURI
      BY <2>4, <3>1, <3>3 DEF Neat
    <3> QED
      BY <3>2, <3>3
  <2>7. NoObject(new) \subseteq NoObject(kept)
    BY <2>4, <2>5, NullIs DEF NoObject, Complex
  <2>8. ASSUME NEW f \in Fields, f.uri = ExtURI
        PROVE  Value(kept, f) = Null /\ ~Full(Value(new, f)) /\ (f.sub # NoName => IsUnassigned(Value(new, f)))
    <3>1. CASE f \in Tops
      <4>1. Value(new, f) = Get(House(new, ExtURI), f.name) /\ f.sub = NoName
        BY <2>8, <3>1, TopIs, ValueTop
      <4> QED
        BY <1>2, <2>5, <2>8, <3>1, <4>1, AllUnassignedGet
    <3>2. CASE f \notin Tops
      <4>1. f.sub # NoName /\ Top(f) \in Tops /\ Top(f).uri = ExtURI /\ Top(f).sub = NoName
        BY <2>8, <3>2, SubIs, TopIs DEF Complex
      <4>2. /\ Value(new, f) = Get(AsObject(Value(new, Top(f))), f.sub)
            /\ Value(kept, f) = Get(AsObject(Value(kept, Top(f))), f.sub)
        BY <4>1, ValueSub
      <4>3. Value(new, Top(f)) = Get(House(new, ExtURI), Top(f).name)
        BY <4>1, ValueTop
      <4>4. Value(kept, f) = Null
        BY <2>5, <4>1, <4>2, NullIs, NothingIn
      <4>5. IsUnassigned(Value(new, f))
        BY <1>2, <4>2, <4>3, AllUnassignedGet
      <4> QED
        BY <4>4, <4>5 DEF Full
    <3> QED
      BY <3>1, <3>2
  <2>9. ASSUME NEW f \in Fields
        PROVE  FieldKept(f, Value(root, f), Value(kept, f), HasData(root, Top(f)), NoObject(kept))
    <3>1. FieldKept(f, Value(root, f), Value(new, f), HasData(root, Top(f)), NoObject(new))
      BY DEF Keeps
    <3>2. LostWith(f, NoObject(new)) => LostWith(f, NoObject(kept))
      BY <2>7 DEF LostWith
    <3>3. CASE f.uri # ExtURI
      <4>1. Value(kept, f) = Value(new, f)
        <5>1. CASE f \in Tops
          BY <2>4, <3>3, <5>1
        <5>2. CASE f \notin Tops
          <6>1. f.sub # NoName /\ Top(f) \in Tops /\ Top(f).uri # ExtURI
            BY <3>3, <5>2, SubIs DEF Complex
          <6> QED
            BY <2>4, <6>1, ValueSub
        <5> QED
          BY <5>1, <5>2
      <4> QED
        BY <3>1, <3>2, <4>1 DEF FieldKept
    <3>4. CASE f.uri = ExtURI
      <4>1. Value(kept, f) = Null /\ ~Full(Value(new, f))
        BY <2>8, <3>4
      <4>2. Attribute(f).mutability = "readOnly"
              => Value(kept, f) = Value(root, f) \/ (Value(kept, f) = Null /\ LostWith(f, NoObject(kept)))
        BY <3>1, <3>2, <4>1 DEF FieldKept, Solid
      <4>3. ~Attribute(f).complex /\ Attribute(f).mutability = "immutable" /\ Full(Value(root, f))
              => LostWith(f, NoObject(kept))
        BY <3>1, <3>2, <4>1, EqualAlike DEF FieldKept
      <4>4. ~(f.sub # NoName /\ Parent(f).mutability = "immutable" /\ HasData(root, Top(f)))
        <5> SUFFICES ASSUME f.sub # NoName, Parent(f).mutability = "immutable",
                            NEW g \in Fields, g.sub # NoName, Top(g) = Top(f), ~IsUnassigned(Value(root, g))
                     PROVE  FALSE
          BY DEF HasData
        <5>1. f \notin Tops /\ g \notin Tops
          BY TopIs
        <5>2. g.uri = ExtURI /\ Parent(g) = Parent(f)
          BY <3>4, <5>1, SubIs
        <5>3. HasData(root, Top(g))
          BY DEF HasData
        <5>4. Equal(Attribute(g), Value(root, g), Value(new, g))
          BY <5>2, <5>3 DEF Keeps, FieldKept
        <5> QED
          BY <2>8, <5>2, <5>4, EqualAlike
      <4> QED
        BY <4>2, <4>3, <4>4 DEF FieldKept
    <3> QED
      BY <3>3, <3>4
  <2> QED
    BY <1>2, <2>1, <2>6, <2>9 DEF Keeps
<1> QED
  BY <1>1, <1>2 DEF unassignEmptyExtension, House

\* The field that a path without a sub-attribute names.
LEMMA TopOf ==
    ASSUME NEW root, Neat(root), NEW uri, NEW n, n[1] \in DOMAIN Attributes(uri)
    PROVE  /\ Distinct(House(root, uri))
           /\ Attributes(uri)[n[1]].complex => Distinct(AsObject(Get(House(root, uri), n)))
<1>1. Distinct(House(root, uri))
  BY DEF Neat, House
<1>2. PICK u \in {BaseURI, ExtURI} : Attributes(u) = Attributes(uri) /\ House(root, u) = House(root, uri)
  BY AttributesAre, ExtKeyIs DEF House
<1>3. PICK f : f = Path(u, Exact(n[1]), NoName)
  OBVIOUS
<1>4. f \in Tops /\ f.uri = u /\ f.name = Exact(n[1])
  BY <1>2, <1>3, AttributesAre DEF Tops, Path
<1>5. Attribute(f) = Attributes(uri)[n[1]] /\ Parent(f) = Attribute(f)
  BY <1>2, <1>4, TopIs, ExactIs
<1>6. Value(root, f) = Get(House(root, uri), n)
  <2>1. Value(root, f) = Get(House(root, uri), f.name)
    BY <1>2, <1>4, TopIs, ValueTop
  <2>2. f.name[1] = n[1]
    BY <1>4 DEF Exact
  <2> QED
    BY <1>1, <2>1, <2>2, GetSame
<1> QED
  BY <1>1, <1>4, <1>5, <1>6 DEF Neat, Complex

LEMMA ParentOf ==
    ASSUME NEW path, Resolves(path)
    PROVE  /\ path.name[1] \in DOMAIN Attributes(path.uri)
           /\ Parent(path) = Attributes(path.uri)[path.name[1]]
           /\ path.sub = NoName => Attribute(path) = Parent(path)
           /\ path.sub # NoName => /\ Attribute(path) = Lookup(Parent(path).subs, path.sub)
                                   /\ Parent(path).complex /\ ~Attribute(path).complex
<1>1. /\ path.name[1] \in DOMAIN Attributes(path.uri)
      /\ Parent(path) = Attributes(path.uri)[path.name[1]]
      /\ path.sub = NoName => Attribute(path) = Parent(path)
      /\ path.sub # NoName => /\ Attribute(path) = Lookup(Parent(path).subs, path.sub)
                              /\ path.sub[1] \in DOMAIN Parent(path).subs
  BY DEF Resolves, Parent, Attribute, Lookup
<1>2. path.sub # NoName => Attribute(path) = Parent(path).subs[path.sub[1]]
  BY <1>1 DEF Lookup
<1>3. PICK a : a = Attributes(path.uri)[path.name[1]]
  OBVIOUS
<1>4. (~a.complex => DOMAIN a.subs = {}) /\ \A s \in DOMAIN a.subs : ~a.subs[s].complex
  BY <1>1, <1>3, DeclaredIs
<1> QED
  BY <1>1, <1>2, <1>3, <1>4

LEMMA RehousedIs ==
    ASSUME NEW root, NEW path, NEW holder
    PROVE  /\ path.sub = NoName =>
                Rehoused(root, path, holder)
                  = IF path.uri = ExtURI THEN Set(root, ExtKey, Obj(holder)) ELSE holder
           /\ path.sub # NoName =>
                \E c : /\ c = Set(House(root, path.uri), path.name, Obj(holder))
                       /\ Rehoused(root, path, holder)
                            = IF path.uri = ExtURI THEN Set(root, ExtKey, Obj(c)) ELSE c
  BY HouseIs DEF Rehoused

\* A write to a whole attribute.
LEMMA TopWritten ==
    ASSUME NEW root, Neat(root), NEW path, Resolves(path), gate(Parent(path)), path.sub = NoName,
           NEW c, NEW w, Changed(House(root, path.uri), c, path.name, w),
           TopKeeps(Attribute(path), Get(House(root, path.uri), path.name), w)
    PROVE  Neat(Rehoused(root, path, c)) /\ Keeps(root, Rehoused(root, path, c))
<1>1. PICK new : new = Rehoused(root, path, c)
  OBVIOUS
<1>2. /\ path.name[1] \in DOMAIN Attributes(path.uri)
      /\ Attribute(path) = Attributes(path.uri)[path.name[1]]
      /\ Attribute(path).mutability # "readOnly"
  BY ParentOf DEF gate
<1>3. new = IF path.uri = ExtURI THEN Set(root, ExtKey, Obj(c)) ELSE c
  BY <1>1, RehousedIs
<1>4. Rewritten(root, new, path.uri, path.name, w)
  BY <1>2, <1>3, RewrittenIs
<1> QED
  BY <1>1, <1>2, <1>4, RewrittenKeeps

\* A write to a sub-attribute, which leaves the object h.
LEMMA SubWritten ==
    ASSUME NEW root, Neat(root), NEW path, Resolves(path), gate(Parent(path)), path.sub # NoName,
           NEW h, CanHold(Holder(root, path)), SubKeeps(Parent(path), AsObject(Holder(root, path)), h)
    PROVE  Neat(Rehoused(root, path, h)) /\ Keeps(root, Rehoused(root, path, h))
<1>1. PICK new : new = Rehoused(root, path, h)
  OBVIOUS
<1>2. /\ path.name[1] \in DOMAIN Attributes(path.uri)
      /\ Parent(path) = Attributes(path.uri)[path.name[1]]
      /\ Parent(path).mutability # "readOnly" /\ Parent(path).complex
  BY ParentOf DEF gate
<1>3. PICK c : /\ c = Set(House(root, path.uri), path.name, Obj(h))
               /\ new = IF path.uri = ExtURI THEN Set(root, ExtKey, Obj(c)) ELSE c
  BY <1>1, RehousedIs
<1>4. Changed(House(root, path.uri), c, path.name, Obj(h))
  BY <1>2, <1>3, TopOf, SetChanges
<1>5. Rewritten(root, new, path.uri, path.name, Obj(h))
  BY <1>2, <1>3, <1>4, RewrittenIs
<1>6. Holder(root, path) = Get(House(root, path.uri), path.name)
  BY HouseIs DEF Holder
<1>7. TopKeeps(Parent(path), Get(House(root, path.uri), path.name), Obj(h))
  BY <1>2, <1>6, ObjectIs DEF TopKeeps
<1> QED
  BY <1>1, <1>2, <1>5, <1>7, RewrittenKeeps

LEMMA HolderSub ==
    ASSUME NEW root, Neat(root), NEW path, Resolves(path), path.sub # NoName
    PROVE  Distinct(AsObject(Holder(root, path)))
<1>1. Holder(root, path) = Get(House(root, path.uri), path.name)
  BY HouseIs DEF Holder
<1> QED
  BY <1>1, ParentOf, TopOf

LEMMA WriteKeeps ==
    ASSUME NEW root, Neat(root), Solid(root), NEW path, NEW kind, NEW v, Distinct(AsObject(v)),
           writeAt(root, path, kind, v).ok
    PROVE  Neat(writeAt(root, path, kind, v).root) /\ Keeps(root, writeAt(root, path, kind, v).root)
<1>1. PICK h : h = AsObject(Holder(root, path))
  OBVIOUS
<1>2. PICK x : x = stripReadOnly(Attribute(path), v)
  OBVIOUS
<1>3. PICK written : written = put(h, subParent(path), Attribute(path), Target(path), kind, x)
  OBVIOUS
<1>4. PICK new : new = Rehoused(root, path, written.root)
  OBVIOUS
<1>5. /\ Resolves(path) /\ gate(Parent(path)) /\ gate(Attribute(path))
      /\ CanHold(Holder(root, path)) /\ written.ok
      /\ writeAt(root, path, kind, v).root = unassignEmptyExtension(new, path)
  BY <1>1, <1>2, <1>3, <1>4 DEF writeAt, OkIf, Ok, Refused, Aims
<1>6. /\ Distinct(AsObject(x))
      /\ IsObject(x) => \A n \in DOMAIN AsObject(x) : Lookup(Attribute(path).subs, n).mutability # "readOnly"
  BY <1>2, Stripped
<1>7. CASE path.sub = NoName
  <2>1. h = House(root, path.uri) /\ subParent(path) = permissiveAttr /\ Target(path) = path.name
    BY <1>1, <1>7, HouseIs DEF Holder, subParent, Target
  <2>2. PICK a : a = Attribute(path)
    OBVIOUS
  <2>3. /\ path.name[1] \in DOMAIN Attributes(path.uri) /\ a = Attributes(path.uri)[path.name[1]]
        /\ Distinct(h) /\ (a.complex => ~a.multi) /\ (a.complex => Distinct(AsObject(Get(h, path.name))))
    <3>1. path.name[1] \in DOMAIN Attributes(path.uri) /\ a = Attributes(path.uri)[path.name[1]]
      BY <1>5, <1>7, <2>2, ParentOf
    <3>2. a.complex => ~a.multi
      BY <3>1, DeclaredIs
    <3>3. Distinct(h) /\ (a.complex => Distinct(AsObject(Get(h, path.name))))
      BY <2>1, <3>1, TopOf
    <3> QED
      BY <3>1, <3>2, <3>3
  <2>4. PICK w : TopKeeps(a, Get(h, path.name), w) /\ Changed(h, written.root, path.name, w)
    BY <1>3, <1>5, <1>6, <2>1, <2>2, <2>3, PutTop
  <2>5. Neat(new) /\ Keeps(root, new)
    BY <1>4, <1>5, <1>7, <2>1, <2>2, <2>4, TopWritten
  <2> QED
    BY <1>5, <2>5, UnassignKeeps
<1>8. CASE path.sub # NoName
  <2>1. subParent(path) = Parent(path) /\ Target(path) = path.sub
    BY <1>8 DEF subParent, Target
  <2>2. SubKeeps(Parent(path), h, written.root)
    BY <1>1, <1>3, <1>5, <1>8, <2>1, ParentOf, HolderSub, PutSub DEF gate
  <2>3. Neat(new) /\ Keeps(root, new)
    BY <1>1, <1>4, <1>5, <1>8, <2>2, SubWritten
  <2> QED
    BY <1>5, <2>3, UnassignKeeps
<1> QED
  BY <1>7, <1>8

LEMMA RemoveKeeps ==
    ASSUME NEW root, Neat(root), Solid(root), NEW path, remove(root, path).ok
    PROVE  Neat(remove(root, path).root) /\ Keeps(root, remove(root, path).root)
<1>1. PICK holder : holder = Holder(root, path)
  OBVIOUS
<1>2. PICK a : a = Attribute(path)
  OBVIOUS
<1>3. PICK before : before = Value(root, path)
  OBVIOUS
<1>4. before = Get(AsObject(holder), Target(path))
  BY <1>1, <1>3 DEF Value, Target
<1>5. PICK new : new = IF Has(AsObject(holder), Target(path))
                       THEN Rehoused(root, path, Without(holder.o, Target(path))) ELSE root
  OBVIOUS
<1>6. /\ Resolves(path) /\ gate(Parent(path)) /\ gate(a)
      /\ gateImmutableWrite(a, before, Null)
      /\ parentGate(subParent(path), AsObject(holder), a, before, Null)
      /\ remove(root, path).root = unassignEmptyExtension(new, path)
  BY <1>1, <1>2, <1>3, <1>5 DEF remove, OkIf, Ok, Refused, Aims
<1>7. CASE ~Has(AsObject(holder), Target(path))
  BY <1>5, <1>6, <1>7, SameKeeps, UnassignKeeps
<1>8. CASE Has(AsObject(holder), Target(path)) /\ path.sub = NoName
  <2>1. PICK c : c = Without(holder.o, path.name)
    OBVIOUS
  <2>2. Target(path) = path.name /\ AsObject(holder) = House(root, path.uri)
    BY <1>1, <1>8, HouseIs DEF Target, Holder
  <2>3. IsObject(holder) /\ holder.o = House(root, path.uri)
    BY <1>8, <2>2, KeyIs, NoNames DEF AsObject
  <2>4. Changed(House(root, path.uri), c, path.name, Null)
    BY <1>6, <2>1, <2>3, ParentOf, TopOf, WithoutChanges
  <2>5. TopKeeps(a, before, Null)
    BY <1>6, NullIs DEF TopKeeps, gateImmutableWrite
  <2>6. new = Rehoused(root, path, c)
    BY <1>5, <1>8, <2>1, <2>2
  <2>7. before = Get(House(root, path.uri), path.name)
    BY <1>4, <2>2
  <2>8. Neat(new) /\ Keeps(root, new)
    BY <1>2, <1>6, <1>8, <2>4, <2>5, <2>6, <2>7, TopWritten
  <2> QED
    BY <1>6, <2>8, UnassignKeeps
<1>9. CASE Has(AsObject(holder), Target(path)) /\ path.sub # NoName
  <2>1. PICK h : h = Without(holder.o, path.sub)
    OBVIOUS
  <2>2. Target(path) = path.sub /\ subParent(path) = Parent(path)
    BY <1>9 DEF Target, subParent
  <2>3. IsObject(holder) /\ holder.o = AsObject(holder)
    BY <1>9, KeyIs, NoNames DEF AsObject
  <2>4. Distinct(AsObject(holder))
    BY <1>1, <1>6, <1>9, HolderSub
  <2>5. Changed(AsObject(holder), h, path.sub, Null)
    BY <2>1, <2>3, <2>4, WithoutChanges
  <2>6. Among(AsObject(holder), Parent(path), path.sub, Null)
    BY <1>2, <1>4, <1>6, <1>9, <2>2, ParentOf DEF Among, gate, gateImmutableWrite, parentGate
  <2>7. SubKeeps(Parent(path), AsObject(holder), h)
    BY <2>4, <2>5, <2>6, ChangeKeeps
  <2>8. new = Rehoused(root, path, h) /\ CanHold(holder)
    BY <1>5, <1>9, <2>1, <2>2, <2>3 DEF CanHold, IsObject
  <2>9. Neat(new) /\ Keeps(root, new)
    BY <1>1, <1>6, <1>9, <2>7, <2>8, SubWritten
  <2> QED
    BY <1>6, <2>9, UnassignKeeps
<1> QED
  BY <1>7, <1>8, <1>9

LEMMA DropKeeps ==
    ASSUME NEW root, Neat(root), NEW path, path.sub = NoName, NEW selected, drop(root, path, selected).ok
    PROVE  Neat(drop(root, path, selected).root) /\ Keeps(root, drop(root, path, selected).root)
<1>1. PICK before : before = Value(root, path)
  OBVIOUS
<1>2. PICK after : after = List(before.l \ selected)
  OBVIOUS
<1>3. Aims(path)
  BY DEF drop, Refused
<1>4. CASE drop(root, path, selected).root = root
  BY <1>4, SameKeeps
<1>5. CASE /\ gateImmutableWrite(Attribute(path), before, after)
           /\ drop(root, path, selected).root
                = Rehoused(root, path, Set(AsObject(Holder(root, path)), path.name, after))
  <2>1. AsObject(Holder(root, path)) = House(root, path.uri)
        /\ before = Get(House(root, path.uri), path.name)
    BY <1>1, ValueTop, HouseIs
  <2>2. Changed(House(root, path.uri), Set(House(root, path.uri), path.name, after), path.name, after)
    BY <1>3, ParentOf, TopOf, SetChanges DEF Aims
  <2>3. TopKeeps(Attribute(path), before, after)
    BY <1>2, <1>5 DEF TopKeeps, gateImmutableWrite, List, IsObject
  <2> QED
    BY <1>3, <1>5, <2>1, <2>2, <2>3, TopWritten DEF Aims
<1> QED
  BY <1>1, <1>2, <1>3, <1>4, <1>5 DEF drop, OkIf, Ok, Refused

-----------------------------------------------------------------------------
(* A PATCH: what has become of the fields since the document was read, if  *)
(* the attributes of G were no objects at some time.                       *)

Since(D, root, G) ==
    \A f \in Fields : FieldKept(f, Value(D, f), Value(root, f), HasData(D, Top(f)), G)

LEMMA SinceMore ==
    ASSUME NEW D, NEW root, NEW G, NEW H, Since(D, root, G), G \subseteq H
    PROVE  Since(D, root, H)
  BY DEF Since, FieldKept, LostWith

LEMMA SinceSolid ==
    ASSUME NEW D, NEW root, NEW G, Solid(D), Since(D, root, G)
    PROVE  Solid(root)
<1> SUFFICES ASSUME NEW f \in Fields, Attribute(f).mutability = "readOnly"
             PROVE  Value(root, f) = Null \/ Full(Value(root, f))
  BY DEF Solid
<1>1. Value(D, f) = Null \/ Full(Value(D, f))
  BY DEF Solid
<1>2. Value(root, f) = Value(D, f) \/ Value(root, f) = Null
  BY DEF Since, FieldKept
<1> QED
  BY <1>1, <1>2

LEMMA SinceStep ==
    ASSUME NEW D, NEW root, NEW new, NEW G, Since(D, root, G), Keeps(root, new)
    PROVE  Since(D, new, G \cup NoObject(new))
<1> SUFFICES ASSUME NEW f \in Fields
             PROVE  FieldKept(f, Value(D, f), Value(new, f), HasData(D, Top(f)), G \cup NoObject(new))
  BY DEF Since
<1>1. PICK u, v, w, H : u = Value(D, f) /\ v = Value(root, f) /\ w = Value(new, f) /\ H = G \cup NoObject(new)
  OBVIOUS
<1>2. FieldKept(f, u, v, HasData(D, Top(f)), G) /\ FieldKept(f, v, w, HasData(root, Top(f)), NoObject(new))
  BY <1>1 DEF Since, Keeps
<1>3. (LostWith(f, G) \/ LostWith(f, NoObject(new))) => LostWith(f, H)
  BY <1>1 DEF LostWith
<1>4. Attribute(f).mutability = "readOnly" => w = u \/ (w = Null /\ LostWith(f, H))
  BY <1>2, <1>3 DEF FieldKept
<1>5. ~Attribute(f).complex /\ Attribute(f).mutability = "immutable" /\ Full(u)
        => Equal(Attribute(f), u, w) \/ LostWith(f, H)
  BY <1>2, <1>3, EqualAlike, EqualTransitive DEF FieldKept
<1>6. ASSUME f.sub # NoName, Parent(f).mutability = "immutable", HasData(D, Top(f))
      PROVE  Equal(Attribute(f), u, w)
  <2>1. PICK g \in Fields : g.sub # NoName /\ Top(g) = Top(f) /\ ~IsUnassigned(Value(D, g))
    BY <1>6 DEF HasData
  <2>2. f \notin Tops /\ g \notin Tops
    BY <1>6, <2>1, TopIs
  <2>3. Parent(g) = Parent(f)
    BY <2>1, <2>2, SubIs
  <2>4. Equal(Attribute(g), Value(D, g), Value(root, g))
    BY <1>6, <2>1, <2>3 DEF Since, FieldKept
  <2>5. HasData(root, Top(f))
    BY <2>1, <2>4, EqualAlike DEF HasData
  <2> QED
    BY <1>2, <1>6, <2>5, EqualTransitive DEF FieldKept
<1> QED
  BY <1>1, <1>4, <1>5, <1>6 DEF FieldKept

\* What is said of the outcome r of a step.
Good(D, G, r) == r.ok => Neat(r.root) /\ Since(D, r.root, G \cup r.lost \cup NoObject(r.root))

LEMMA OkIs ==
    ASSUME NEW root
    PROVE  Ok(root).ok /\ Ok(root).root = root /\ Ok(root).lost = {} /\ ~Refused.ok
  BY DEF Ok, Refused

LEMMA SameGood ==
    ASSUME NEW D, NEW G, NEW root, Neat(root), Since(D, root, G)
    PROVE  Good(D, G, Ok(root))
<1>1. Since(D, root, G \cup {} \cup NoObject(root))
  BY SinceMore
<1> QED
  BY <1>1, OkIs DEF Good

LEMMA StepGood ==
    ASSUME NEW D, NEW G, NEW root, Since(D, root, G), NEW r, r.lost = {},
           r.ok => Neat(r.root) /\ Keeps(root, r.root)
    PROVE  Good(D, G, r)
<1> SUFFICES ASSUME r.ok PROVE Neat(r.root) /\ Since(D, r.root, G \cup r.lost \cup NoObject(r.root))
  BY DEF Good
<1>1. PICK new : new = r.root
  OBVIOUS
<1>2. Since(D, new, G \cup NoObject(new))
  BY <1>1, SinceStep
<1>3. G \cup r.lost \cup NoObject(new) = G \cup NoObject(new)
  OBVIOUS
<1> QED
  BY <1>1, <1>2, <1>3

LEMMA WriteGood ==
    ASSUME NEW D, Solid(D), NEW G, NEW root, Neat(root), Since(D, root, G),
           NEW path, NEW kind, NEW v, Distinct(AsObject(v))
    PROVE  Good(D, G, writeAt(root, path, kind, v))
<1>1. writeAt(root, path, kind, v).lost = {}
  BY DEF writeAt, OkIf, Ok, Refused
<1>2. Solid(root)
  BY SinceSolid
<1> QED
  BY <1>1, <1>2, WriteKeeps, StepGood

\* Steps one after another, each of which is good.
LEMMA AfterGood ==
    ASSUME NEW D, NEW G, NEW r, NEW s, Good(D, G, r), r.ok => Good(D, G \cup r.lost \cup NoObject(r.root), s),
           r.ok => NoObject(r.root) \subseteq G \cup r.lost
    PROVE  Good(D, G, After(r, s)) /\ (After(r, s).ok => NoObject(After(r, s).root) \subseteq G \cup After(r, s).lost)
<1>1. CASE ~r.ok
  <2>1. After(r, s) = r
    BY <1>1 DEF After
  <2> QED
    BY <1>1, <2>1
<1>2. CASE r.ok
  <2>1. PICK L, N : L = r.lost /\ N = NoObject(r.root)
    OBVIOUS
  <2>2. PICK t : t = After(r, s)
    OBVIOUS
  <2>3. t.ok = s.ok /\ t.root = s.root /\ t.lost = L \cup s.lost \cup NoObject(s.root)
    BY <1>2, <2>1, <2>2 DEF After
  <2>4. N \subseteq G \cup L
    BY <1>2, <2>1
  <2>5. G \cup L \cup N \cup s.lost \cup NoObject(s.root) = G \cup t.lost \cup NoObject(t.root)
    BY <2>3, <2>4
  <2>6. s.ok => Neat(s.root) /\ Since(D, s.root, G \cup L \cup N \cup s.lost \cup NoObject(s.root))
    BY <1>2, <2>1 DEF Good
  <2> QED
    BY <2>2, <2>3, <2>5, <2>6 DEF Good
<1> QED
  BY <1>1, <1>2

\* mergeSchema: one name of the object.
SchemaStep(uri, v, kind, root, n) ==
    IF n \in DOMAIN v.o THEN writeAt(root, Path(uri, n, NoName), kind, v.o[n]) ELSE Ok(root)

\* The equation that defines Done, up to some step, for the names of an object under the URI of a schema.
SchemaChain(f, root, uri, v, kind, order, m) ==
    f = [n \in 0 .. m |-> IF n = 0 THEN Ok(root) ELSE After(f[n - 1], SchemaStep(uri, v, kind, f[n - 1].root, order[n]))]

LEMMA SchemaChainExists ==
    ASSUME NEW root, NEW uri, NEW v, NEW kind, NEW order, NEW L \in Nat
    PROVE  \E f : SchemaChain(f, root, uri, v, kind, order, L)
  <1> DEFINE S == {m \in Nat : \E f : SchemaChain(f, root, uri, v, kind, order, m)}
  <1>1. 0 \in S
    <2> DEFINE f == [n \in 0 .. 0 |-> Ok(root)]
    <2>1. SchemaChain(f, root, uri, v, kind, order, 0)
      BY DEF SchemaChain
    <2> QED
      BY <2>1
  <1>2. ASSUME NEW m \in Nat, m \in S
        PROVE  m + 1 \in S
    <2>1. PICK f : SchemaChain(f, root, uri, v, kind, order, m)
      BY <1>2
    <2> DEFINE U(g, n) == After(g[n - 1], SchemaStep(uri, v, kind, g[n - 1].root, order[n]))
               g == [n \in 0 .. m + 1 |-> IF n = m + 1 THEN U(f, m + 1) ELSE f[n]]
    <2>2. \A n \in 0 .. m : f[n] = IF n = 0 THEN Ok(root) ELSE U(f, n)
      BY <2>1 DEF SchemaChain
    <2>3. \A n \in 0 .. m : g[n] = f[n]
      OBVIOUS
    <2>4. \A n \in 0 .. m + 1 : n # 0 => g[n - 1] = f[n - 1]
      BY <2>3
    <2>5. \A n \in 0 .. m + 1 : g[n] = IF n = 0 THEN Ok(root) ELSE U(g, n)
      <3> TAKE n \in 0 .. m + 1
      <3>1. CASE n = m + 1
        <4>1. g[n] = U(f, m + 1)
          BY <3>1
        <4>2. g[n - 1] = f[n - 1]
          BY <2>4, <3>1
        <4> HIDE DEF g
        <4> QED
          BY <3>1, <4>1, <4>2
      <3>2. CASE n # m + 1
        <4>1. n \in 0 .. m /\ g[n] = f[n]
          BY <2>3, <3>2
        <4>2. n # 0 => g[n - 1] = f[n - 1]
          BY <2>4
        <4> HIDE DEF g
        <4> QED
          BY <2>2, <4>1, <4>2
      <3> QED
        BY <3>1, <3>2
    <2>6. g = [n \in 0 .. m + 1 |-> g[n]]
      OBVIOUS
    <2> HIDE DEF g
    <2>7. SchemaChain(g, root, uri, v, kind, order, m + 1)
      BY <2>5, <2>6 DEF SchemaChain
    <2> QED
      BY <2>7
  <1> HIDE DEF S
  <1>3. Nat \subseteq S
    BY <1>1, <1>2, SetInduction
  <1> QED
    BY <1>3 DEF S

LEMMA SchemaGood ==
    ASSUME NEW D, Solid(D), NEW G, NEW root, Neat(root), Since(D, root, G), NoObject(root) \subseteq G,
           NEW uri, NEW v, NEW kind, NEW order, Len(order) \in Nat,
           IsObject(v), \A n \in DOMAIN v.o : Distinct(AsObject(v.o[n]))
    PROVE  Good(D, G, mergeSchema(root, uri, v, kind, order))
<1>1. PICK L \in Nat : L = Len(order)
  OBVIOUS
<1>2. PICK f : SchemaChain(f, root, uri, v, kind, order, L) /\ mergeSchema(root, uri, v, kind, order) = f[L]
  <2>1. \E f : SchemaChain(f, root, uri, v, kind, order, L)
    BY SchemaChainExists
  <2>2. mergeSchema(root, uri, v, kind, order) = (CHOOSE f : SchemaChain(f, root, uri, v, kind, order, L))[L]
    BY <1>1 DEF mergeSchema, Then, Done, SchemaChain, SchemaStep
  <2> QED
    BY <2>1, <2>2
<1>3. f[0] = Ok(root) /\ \A n \in 0 .. L : n # 0 => f[n] = After(f[n - 1], SchemaStep(uri, v, kind, f[n - 1].root, order[n]))
  BY <1>2 DEF SchemaChain
<1> DEFINE P(r) == Good(D, G, r) /\ (r.ok => NoObject(r.root) \subseteq G \cup r.lost)
           S == {n \in Nat : n <= L => P(f[n])}
<1>4. 0 \in S
  BY <1>3, SameGood, OkIs
<1>5. ASSUME NEW n \in Nat, n \in S
      PROVE  n + 1 \in S
  <2> SUFFICES ASSUME n + 1 <= L PROVE P(f[n + 1])
    OBVIOUS
  <2>1. PICK r : r = f[n]
    OBVIOUS
  <2>2. PICK s : s = SchemaStep(uri, v, kind, r.root, order[n + 1])
    OBVIOUS
  <2>3. f[n + 1] = After(r, s)
    <3>1. n + 1 \in 0 .. L /\ n + 1 # 0 /\ (n + 1) - 1 = n
      OBVIOUS
    <3> QED
      BY <1>3, <2>1, <2>2, <3>1
  <2>4. P(r)
    BY <1>5, <2>1
  <2>5. ASSUME r.ok PROVE Good(D, G \cup r.lost \cup NoObject(r.root), s)
    <3>1. PICK H, x : H = G \cup r.lost \cup NoObject(r.root) /\ x = r.root
      OBVIOUS
    <3>2. Neat(x) /\ Since(D, x, H) /\ NoObject(x) \subseteq H
      BY <2>4, <2>5, <3>1 DEF Good
    <3>3. PICK k : k = order[n + 1]
      OBVIOUS
    <3>4. CASE k \in DOMAIN v.o
      <4>1. s = writeAt(x, Path(uri, k, NoName), kind, v.o[k])
        BY <2>2, <3>1, <3>3, <3>4 DEF SchemaStep
      <4>2. Distinct(AsObject(v.o[k]))
        BY <3>4
      <4> QED
        BY <3>1, <3>2, <4>1, <4>2, WriteGood
    <3>5. CASE k \notin DOMAIN v.o
      <4>1. s = Ok(x)
        BY <2>2, <3>1, <3>3, <3>5 DEF SchemaStep
      <4> QED
        BY <3>1, <3>2, <4>1, SameGood
    <3> QED
      BY <3>4, <3>5
  <2> HIDE DEF S
  <2> QED
    BY <2>3, <2>4, <2>5, AfterGood
<1> HIDE DEF S
<1>6. Nat \subseteq S
  BY <1>4, <1>5, SetInduction
<1>7. P(f[L])
  BY <1>6 DEF S
<1> QED
  BY <1>2, <1>7

LEMMA KeyGood ==
    ASSUME NEW D, Solid(D), NEW G, NEW root, Neat(root), Since(D, root, G), NoObject(root) \subseteq G,
           NEW k, NEW v, NEW kind, NEW names, Len(names) \in Nat, wellFormedValue(v)
    PROVE  Good(D, G, mergeKey(root, k, v, kind, names))
<1>1. /\ Distinct(AsObject(v))
      /\ IsObject(v) => \A n \in DOMAIN v.o : Distinct(AsObject(v.o[n]))
  BY DEF wellFormedValue, wellFormedNames, DistinctWithin, AsObject
<1>2. CASE mergeKey(root, k, v, kind, names) = mergeSchema(root, k.uri, v, kind, names)
  <2>1. CASE IsObject(v)
    BY <1>1, <1>2, <2>1, SchemaGood
  <2>2. CASE ~IsObject(v)
    BY <1>2, <2>2, OkIs DEF mergeSchema, Good
  <2> QED
    BY <2>1, <2>2
<1>3. CASE mergeKey(root, k, v, kind, names) = Ok(root)
  BY <1>3, SameGood
<1>4. CASE mergeKey(root, k, v, kind, names) = writeAt(root, k, kind, v)
  BY <1>1, <1>4, WriteGood
<1> QED
  BY <1>2, <1>3, <1>4 DEF mergeKey

\* mergeRoot: one key.
RootStep(values, kind, names, root, k) == mergeKey(root, k, values[k], kind, names)

\* The equation that defines Done, up to some step, for the keys of an operation without a path.
RootChain(f, root, values, kind, order, names, m) ==
    f = [n \in 0 .. m |-> IF n = 0 THEN Ok(root) ELSE After(f[n - 1], RootStep(values, kind, names, f[n - 1].root, order[n]))]

LEMMA RootChainExists ==
    ASSUME NEW root, NEW values, NEW kind, NEW names, NEW order, NEW L \in Nat
    PROVE  \E f : RootChain(f, root, values, kind, order, names, L)
  <1> DEFINE S == {m \in Nat : \E f : RootChain(f, root, values, kind, order, names, m)}
  <1>1. 0 \in S
    <2> DEFINE f == [n \in 0 .. 0 |-> Ok(root)]
    <2>1. RootChain(f, root, values, kind, order, names, 0)
      BY DEF RootChain
    <2> QED
      BY <2>1
  <1>2. ASSUME NEW m \in Nat, m \in S
        PROVE  m + 1 \in S
    <2>1. PICK f : RootChain(f, root, values, kind, order, names, m)
      BY <1>2
    <2> DEFINE U(g, n) == After(g[n - 1], RootStep(values, kind, names, g[n - 1].root, order[n]))
               g == [n \in 0 .. m + 1 |-> IF n = m + 1 THEN U(f, m + 1) ELSE f[n]]
    <2>2. \A n \in 0 .. m : f[n] = IF n = 0 THEN Ok(root) ELSE U(f, n)
      BY <2>1 DEF RootChain
    <2>3. \A n \in 0 .. m : g[n] = f[n]
      OBVIOUS
    <2>4. \A n \in 0 .. m + 1 : n # 0 => g[n - 1] = f[n - 1]
      BY <2>3
    <2>5. \A n \in 0 .. m + 1 : g[n] = IF n = 0 THEN Ok(root) ELSE U(g, n)
      <3> TAKE n \in 0 .. m + 1
      <3>1. CASE n = m + 1
        <4>1. g[n] = U(f, m + 1)
          BY <3>1
        <4>2. g[n - 1] = f[n - 1]
          BY <2>4, <3>1
        <4> HIDE DEF g
        <4> QED
          BY <3>1, <4>1, <4>2
      <3>2. CASE n # m + 1
        <4>1. n \in 0 .. m /\ g[n] = f[n]
          BY <2>3, <3>2
        <4>2. n # 0 => g[n - 1] = f[n - 1]
          BY <2>4
        <4> HIDE DEF g
        <4> QED
          BY <2>2, <4>1, <4>2
      <3> QED
        BY <3>1, <3>2
    <2>6. g = [n \in 0 .. m + 1 |-> g[n]]
      OBVIOUS
    <2> HIDE DEF g
    <2>7. RootChain(g, root, values, kind, order, names, m + 1)
      BY <2>5, <2>6 DEF RootChain
    <2> QED
      BY <2>7
  <1> HIDE DEF S
  <1>3. Nat \subseteq S
    BY <1>1, <1>2, SetInduction
  <1> QED
    BY <1>3 DEF S

LEMMA RootGood ==
    ASSUME NEW D, Solid(D), NEW G, NEW root, Neat(root), Since(D, root, G), NoObject(root) \subseteq G,
           NEW values, NEW kind, NEW names, NEW order, Len(order) \in Nat, Len(names) \in Nat,
           \A i \in 1 .. Len(order) : wellFormedValue(values[order[i]])
    PROVE  Good(D, G, mergeRoot(root, values, kind, order, names))
<1>1. PICK L \in Nat : L = Len(order)
  OBVIOUS
<1>2. PICK f : RootChain(f, root, values, kind, order, names, L) /\ mergeRoot(root, values, kind, order, names) = f[L]
  <2>1. \E f : RootChain(f, root, values, kind, order, names, L)
    BY RootChainExists
  <2>2. mergeRoot(root, values, kind, order, names) = (CHOOSE f : RootChain(f, root, values, kind, order, names, L))[L]
    BY <1>1 DEF mergeRoot, Then, Done, RootChain, RootStep
  <2> QED
    BY <2>1, <2>2
<1>3. f[0] = Ok(root) /\ \A n \in 0 .. L : n # 0 => f[n] = After(f[n - 1], RootStep(values, kind, names, f[n - 1].root, order[n]))
  BY <1>2 DEF RootChain
<1> DEFINE P(r) == Good(D, G, r) /\ (r.ok => NoObject(r.root) \subseteq G \cup r.lost)
           S == {n \in Nat : n <= L => P(f[n])}
<1>4. 0 \in S
  BY <1>3, SameGood, OkIs
<1>5. ASSUME NEW n \in Nat, n \in S
      PROVE  n + 1 \in S
  <2> SUFFICES ASSUME n + 1 <= L PROVE P(f[n + 1])
    OBVIOUS
  <2>1. PICK r : r = f[n]
    OBVIOUS
  <2>2. PICK s : s = RootStep(values, kind, names, r.root, order[n + 1])
    OBVIOUS
  <2>3. f[n + 1] = After(r, s)
    <3>1. n + 1 \in 0 .. L /\ n + 1 # 0 /\ (n + 1) - 1 = n
      OBVIOUS
    <3> QED
      BY <1>3, <2>1, <2>2, <3>1
  <2>4. P(r)
    BY <1>5, <2>1
  <2>5. ASSUME r.ok PROVE Good(D, G \cup r.lost \cup NoObject(r.root), s)
    <3>1. PICK H, x : H = G \cup r.lost \cup NoObject(r.root) /\ x = r.root
      OBVIOUS
    <3>2. Neat(x) /\ Since(D, x, H) /\ NoObject(x) \subseteq H
      BY <2>4, <2>5, <3>1 DEF Good
    <3>3. PICK k : k = order[n + 1]
      OBVIOUS
    <3>4. wellFormedValue(values[k])
      BY <1>1, <3>3
    <3>5. s = mergeKey(x, k, values[k], kind, names)
      BY <2>2, <3>1, <3>3 DEF RootStep
    <3> QED
      BY <3>1, <3>2, <3>4, <3>5, KeyGood
  <2> HIDE DEF S
  <2> QED
    BY <2>3, <2>4, <2>5, AfterGood
<1> HIDE DEF S
<1>6. Nat \subseteq S
  BY <1>4, <1>5, SetInduction
<1>7. P(f[L])
  BY <1>6 DEF S
<1> QED
  BY <1>2, <1>7

\* The permutations that stand for the orders of a Go map.
LEMMA SeqsOf ==
    ASSUME NEW S, IsFiniteSet(S), NEW s \in SetToSeqs(S)
    PROVE  Len(s) \in Nat /\ \A i \in 1 .. Len(s) : s[i] \in S
<1>1. PICK n \in Nat : n = Cardinality(S)
  BY FS_CardinalityType
<1>2. s \in [1 .. n -> S]
  BY <1>1 DEF SetToSeqs
<1>3. s \in Seq(S)
  BY <1>2
<1> QED
  BY <1>3

LEMMA ApplyGood ==
    ASSUME NEW D, Solid(D), NEW G, NEW root, Neat(root), Since(D, root, G), NoObject(root) \subseteq G,
           NEW op \in Operations, wellFormed(op), NEW r \in apply(root, op)
    PROVE  Good(D, G, r)
<1>0. /\ op.op \in {"add", "replace", "remove", "drop"}
      /\ op.op = "drop" => op.path.sub = NoName
      /\ op.pathless => /\ IsFiniteSet(DOMAIN op.value)
                        /\ \A k \in DOMAIN op.value : IsFiniteSet(DOMAIN AsObject(op.value[k]))
  BY OperationAssumption
<1>1. CASE op.op \in {"add", "replace"} /\ op.pathless
  <2>1. r \in Merges(root, op.value, op.op)
    BY <1>1 DEF apply
  <2>3. PICK keys \in SetToSeqs(DOMAIN op.value), names \in SetToSeqs(NamesWithin(op.value)) :
          r = mergeRoot(root, op.value, op.op, keys, names)
    BY <2>1 DEF Merges
  <2>4. IsFiniteSet(NamesWithin(op.value))
    <3> DEFINE T == {DOMAIN AsObject(op.value[k]) : k \in {j \in DOMAIN op.value : j.name = NoName}}
    <3>1. PICK K : K = {j \in DOMAIN op.value : j.name = NoName}
      OBVIOUS
    <3>2. IsFiniteSet(K) /\ K \subseteq DOMAIN op.value
      BY <1>0, <1>1, <3>1, FS_Subset
    <3>3. T = {DOMAIN AsObject(op.value[k]) : k \in K}
      BY <3>1
    <3>4. PICK F : F = [k \in K |-> DOMAIN AsObject(op.value[k])]
      OBVIOUS
    <3>5. T = {F[k] : k \in K} /\ DOMAIN F = K
      BY <3>3, <3>4
    <3>6. F \in Surjection(K, T)
      BY <3>4, <3>5 DEF Surjection
    <3>7. IsFiniteSet(T)
      BY <3>2, <3>6, FS_Surjection
    <3>8. \A X \in T : IsFiniteSet(X)
      BY <1>0, <1>1, <3>2, <3>3
    <3>9. NamesWithin(op.value) = UNION T
      BY DEF NamesWithin
    <3> HIDE DEF T
    <3> QED
      BY <3>7, <3>8, <3>9, FS_UNION
  <2>5. Len(keys) \in Nat /\ Len(names) \in Nat /\ \A i \in 1 .. Len(keys) : keys[i] \in DOMAIN op.value
    BY <1>0, <1>1, <2>4, SeqsOf
  <2>6. \A i \in 1 .. Len(keys) : wellFormedValue(op.value[keys[i]])
    BY <1>1, <2>5 DEF wellFormed
  <2> QED
    BY <2>3, <2>5, <2>6, RootGood
<1>2. CASE op.op \in {"add", "replace"} /\ ~op.pathless
  <2>1. r = writeAt(root, op.path, op.op, op.value)
    BY <1>2 DEF apply
  <2>2. Distinct(AsObject(op.value))
    BY <1>2 DEF wellFormed, wellFormedValue, wellFormedNames, DistinctWithin
  <2> QED
    BY <2>1, <2>2, WriteGood
<1>3. CASE op.op = "remove"
  <2>1. r = remove(root, op.path)
    BY <1>3 DEF apply
  <2>2. r.lost = {}
    BY <2>1 DEF remove, OkIf, Ok, Refused
  <2>3. Solid(root)
    BY SinceSolid
  <2> QED
    BY <2>1, <2>2, <2>3, RemoveKeeps, StepGood
<1>4. CASE op.op = "drop"
  <2>1. r = drop(root, op.path, op.selected)
    BY <1>4 DEF apply
  <2>2. r.lost = {}
    BY <2>1 DEF drop, OkIf, Ok, Refused
  <2> QED
    BY <1>0, <1>4, <2>1, <2>2, DropKeeps, StepGood
<1> QED
  BY <1>0, <1>1, <1>2, <1>3, <1>4

-----------------------------------------------------------------------------
(* The typed resource. *)

SubTyped(subs, o) == TypedWith(subs, o, LAMBDA b, w : w)

\* What is left of a value.
Present(v) == IsObject(v) \/ ~IsUnassigned(v)

LEMMA SubTypedIs ==
    ASSUME NEW subs, NEW o
    PROVE  /\ Distinct(SubTyped(subs, o))
           /\ \A n \in DOMAIN SubTyped(subs, o) :
                n[1] \in DOMAIN subs /\ n = Exact(n[1]) /\ Present(Get(o, n)) /\ SubTyped(subs, o)[n] = Get(o, n)
           /\ \A s \in DOMAIN subs :
                /\ Present(Get(o, Exact(s))) => Get(SubTyped(subs, o), Exact(s)) = Get(o, Exact(s))
                /\ ~Present(Get(o, Exact(s))) => Get(SubTyped(subs, o), Exact(s)) = Null
<1>1. PICK t : t = SubTyped(subs, o)
  OBVIOUS
<1>2. PICK S : S = {k \in DOMAIN subs : Present(Get(o, Exact(k)))}
  OBVIOUS
<1>3. t = [n \in {Exact(m) : m \in S} |-> Get(o, n)]
  BY <1>1, <1>2 DEF SubTyped, TypedWith, Present
<1>4. \A n \in DOMAIN t : n[1] \in S /\ n = Exact(n[1]) /\ t[n] = Get(o, n)
  BY <1>3, ExactIs
<1>5. Distinct(t)
  BY <1>4 DEF Distinct
<1>6. \A s \in S : Exact(s) \in DOMAIN t
  BY <1>3
<1>7. \A s \in S : Get(t, Exact(s)) = Get(o, Exact(s))
  <2> TAKE s \in S
  <2>1. Exact(s) \in DOMAIN t /\ t[Exact(s)] = Get(o, Exact(s))
    BY <1>4, <1>6
  <2> QED
    BY <1>5, <2>1, GetOf
<1>8. \A s : s \notin S => Get(t, Exact(s)) = Null
  <2> TAKE s
  <2> HAVE s \notin S
  <2>1. \A n \in DOMAIN t : n[1] # Exact(s)[1]
    BY <1>4, ExactIs
  <2> QED
    BY <2>1, GetNone
<1> QED
  BY <1>1, <1>2, <1>4, <1>5, <1>7, <1>8

LEMMA TypedIs ==
    ASSUME NEW attrs, NEW o
    PROVE  /\ Distinct(Typed(attrs, o))
           /\ \A n \in DOMAIN Typed(attrs, o) : n[1] \in DOMAIN attrs
           /\ \A s \in DOMAIN attrs :
                /\ Present(Get(o, Exact(s))) => Get(Typed(attrs, o), Exact(s)) = TypedValue(attrs[s], Get(o, Exact(s)))
                /\ ~Present(Get(o, Exact(s))) => Get(Typed(attrs, o), Exact(s)) = Null
<1>1. PICK t : t = Typed(attrs, o)
  OBVIOUS
<1>2. PICK S : S = {k \in DOMAIN attrs : Present(Get(o, Exact(k)))}
  OBVIOUS
<1>3. t = [n \in {Exact(m) : m \in S} |-> TypedValue(attrs[n[1]], Get(o, n))]
  BY <1>1, <1>2 DEF Typed, TypedWith, Present
<1>4. \A n \in DOMAIN t : n[1] \in S /\ n = Exact(n[1]) /\ t[n] = TypedValue(attrs[n[1]], Get(o, n))
  BY <1>3, ExactIs
<1>5. Distinct(t)
  BY <1>4 DEF Distinct
<1>6. \A s \in S : Exact(s) \in DOMAIN t
  BY <1>3
<1>7. \A s \in S : Get(t, Exact(s)) = TypedValue(attrs[s], Get(o, Exact(s)))
  <2> TAKE s \in S
  <2>1. Exact(s) \in DOMAIN t /\ t[Exact(s)] = TypedValue(attrs[s], Get(o, Exact(s)))
    BY <1>4, <1>6, ExactIs
  <2> QED
    BY <1>5, <2>1, GetOf
<1>8. \A s : s \notin S => Get(t, Exact(s)) = Null
  <2> TAKE s
  <2> HAVE s \notin S
  <2>1. \A n \in DOMAIN t : n[1] # Exact(s)[1]
    BY <1>4, ExactIs
  <2> QED
    BY <2>1, GetNone
<1> QED
  BY <1>1, <1>2, <1>4, <1>5, <1>7, <1>8

\* Two objects with the same names and the same values.
LEMMA GetAgree ==
    ASSUME NEW o, NEW p, Distinct(o), DOMAIN p = DOMAIN o, \A n \in DOMAIN o : p[n] = o[n]
    PROVE  Distinct(p) /\ \A n : Get(p, n) = Get(o, n)
<1>1. Distinct(p)
  BY DEF Distinct
<1>2. ASSUME NEW n PROVE Get(p, n) = Get(o, n)
  <2>1. CASE \E k \in DOMAIN o : k[1] = n[1]
    <3>1. PICK k \in DOMAIN o : k[1] = n[1]
      BY <2>1
    <3> QED
      BY <1>1, <3>1, GetOf
  <2>2. CASE \A k \in DOMAIN o : k[1] # n[1]
    BY <2>2, GetNone
  <2> QED
    BY <2>1, <2>2
<1> QED
  BY <1>1, <1>2

\* A name that an object does not have is added.
LEMMA AddedIs ==
    ASSUME NEW o, Distinct(o), NEW n, \A m \in DOMAIN o : m[1] # n[1], NEW v
    PROVE  Changed(o, Over(Entry(n, v), o), n, v)
<1>1. key(o, n) = n
  BY GetNone, KeyIs
<1>2. Over(Entry(n, v), o) = Set(o, n, v)
  BY <1>1 DEF Set
<1> QED
  BY <1>2, SetChanges

\* Where the values of a document are that is made of those of the base schema and of the extension.
LEMMA ValueInHouse ==
    ASSUME NEW d, NEW f \in Tops
    PROVE  /\ f.uri = ExtURI => Value(d, f) = Get(AsObject(Get(d, ExtKey)), f.name) /\ Attribute(f) = Extension[f.name[1]]
                                  /\ f.name[1] \in DOMAIN Extension
           /\ f.uri # ExtURI => Value(d, f) = Get(d, f.name) /\ f.name[1] # ExtURI /\ Attribute(f) = Base[f.name[1]]
                                  /\ f.name[1] \in DOMAIN Base
           /\ f.name = Exact(f.name[1])
<1>1. /\ f.sub = NoName /\ f.uri \in {BaseURI, ExtURI} /\ f.name = Exact(f.name[1])
      /\ f.name[1] \in DOMAIN Attributes(f.uri) /\ Attribute(f) = Attributes(f.uri)[f.name[1]]
  BY TopIs
<1>2. Value(d, f) = Get(House(d, f.uri), f.name)
  BY <1>1, ValueTop
<1>3. f.uri = ExtURI \/ f.name[1] # ExtURI
  BY <1>1, DeclaredIs
<1>4. /\ f.uri = ExtURI => Attributes(f.uri) = Extension
      /\ f.uri # ExtURI => Attributes(f.uri) = Base
  BY <1>1, AttributesAre
<1> QED
  BY <1>1, <1>2, <1>3, <1>4 DEF House

\* resource.fromDocument, and the encoding back.
LEMMA FromDocumentIs ==
    ASSUME NEW c, Get(c, ExtKey).t \in {"null", "object"}
    PROVE  LET d == fromDocument(c)
           IN  /\ Distinct(d) /\ Distinct(House(d, ExtURI))
               /\ Get(d, ExtKey).t \in {"null", "object"}
               /\ \A f \in Tops : /\ Present(Value(c, f)) => Value(d, f) = TypedValue(Attribute(f), Value(c, f))
                                  /\ ~Present(Value(c, f)) => Value(d, f) = Null
<1>1. PICK e : e = Get(c, ExtKey)
  OBVIOUS
<1>2. PICK B : B = Typed(Base, c)
  OBVIOUS
<1>3. PICK T : T = Typed(Extension, AsObject(e))
  OBVIOUS
<1>4. PICK d : d = fromDocument(c)
  OBVIOUS
<1>5. Distinct(B) /\ Distinct(T) /\ \A n \in DOMAIN B : n[1] # ExtKey[1]
  BY <1>2, <1>3, TypedIs, ExtKeyIs, SchemaAssumption
<1>6. CASE IsObject(e)
  <2>1. d = Over(Entry(ExtKey, Obj(T)), B)
    BY <1>1, <1>2, <1>3, <1>4, <1>6 DEF fromDocument, AsObject
  <2>2. Changed(B, d, ExtKey, Obj(T))
    BY <1>5, <2>1, AddedIs
  <2>3. Distinct(d) /\ Get(d, ExtKey) = Obj(T) /\ House(d, ExtURI) = T /\ AsObject(Get(d, ExtKey)) = T
    BY <2>2, ObjectIs DEF Changed, House
  <2>4. ASSUME NEW f \in Tops
        PROVE  /\ Present(Value(c, f)) => Value(d, f) = TypedValue(Attribute(f), Value(c, f))
               /\ ~Present(Value(c, f)) => Value(d, f) = Null
    <3>1. PICK s : s = f.name[1]
      OBVIOUS
    <3>2. f.name = Exact(s)
      BY <3>1, ValueInHouse
    <3>3. CASE f.uri = ExtURI
      <4>1. /\ Value(d, f) = Get(T, Exact(s)) /\ Value(c, f) = Get(AsObject(e), Exact(s))
            /\ Attribute(f) = Extension[s] /\ s \in DOMAIN Extension
        BY <1>1, <2>3, <3>1, <3>2, <3>3, ValueInHouse
      <4> QED
        BY <1>3, <4>1, TypedIs
    <3>4. CASE f.uri # ExtURI
      <4>1. /\ Value(d, f) = Get(d, Exact(s)) /\ Value(c, f) = Get(c, Exact(s))
            /\ Attribute(f) = Base[s] /\ s \in DOMAIN Base /\ s # ExtURI
        BY <3>1, <3>2, <3>4, ValueInHouse
      <4>2. Get(d, Exact(s)) = Get(B, Exact(s))
        BY <2>2, <4>1, ExactIs, ExtKeyIs DEF Changed
      <4> QED
        BY <1>2, <4>1, <4>2, TypedIs
    <3> QED
      BY <3>3, <3>4
  <2> QED
    BY <1>4, <1>5, <2>3, <2>4, ObjectIs
<1>7. CASE ~IsObject(e)
  <2>1. e.t = "null" /\ AsObject(e) = <<>>
    BY <1>1, <1>7 DEF IsObject, AsObject
  <2>2. d = Over(<<>>, B)
    BY <1>1, <1>2, <1>4, <1>7 DEF fromDocument
  <2>3. DOMAIN d = DOMAIN B /\ \A n \in DOMAIN B : d[n] = B[n]
    <3>1. PICK E : E = <<>>
      OBVIOUS
    <3>2. DOMAIN E = {}
      BY <3>1, NoNames
    <3>3. d = Over(E, B)
      BY <2>2, <3>1
    <3> QED
      BY <3>2, <3>3 DEF Over
  <2>4. Distinct(d) /\ \A n : Get(d, n) = Get(B, n)
    BY <1>5, <2>3, GetAgree
  <2>5. Get(d, ExtKey) = Null
    BY <1>5, <2>4, GetNone
  <2>6. House(d, ExtURI) = <<>>
    BY <2>5, NullIs DEF House
  <2>7. ASSUME NEW f \in Tops
        PROVE  /\ Present(Value(c, f)) => Value(d, f) = TypedValue(Attribute(f), Value(c, f))
               /\ ~Present(Value(c, f)) => Value(d, f) = Null
    <3>1. PICK s : s = f.name[1]
      OBVIOUS
    <3>2. f.name = Exact(s)
      BY <3>1, ValueInHouse
    <3>3. CASE f.uri = ExtURI
      <4>1. Value(d, f) = Get(<<>>, f.name) /\ Value(c, f) = Get(<<>>, f.name)
        BY <1>1, <2>1, <2>5, <3>3, NullIs, ValueInHouse
      <4> QED
        BY <4>1, NothingIn, NullIs DEF Present
    <3>4. CASE f.uri # ExtURI
      <4>1. /\ Value(d, f) = Get(d, Exact(s)) /\ Value(c, f) = Get(c, Exact(s))
            /\ Attribute(f) = Base[s] /\ s \in DOMAIN Base
        BY <3>1, <3>2, <3>4, ValueInHouse
      <4> QED
        BY <1>2, <2>4, <4>1, TypedIs
    <3> QED
      BY <3>3, <3>4
  <2> QED
    BY <1>4, <2>4, <2>5, <2>6, <2>7, NothingIn, NullIs
<1> QED
  BY <1>1, <1>4, <1>6, <1>7

LEMMA SubTypedTwice ==
    ASSUME NEW subs, NEW o
    PROVE  SubTyped(subs, SubTyped(subs, o)) = SubTyped(subs, o)
<1>1. PICK t : t = SubTyped(subs, o)
  OBVIOUS
<1>2. PICK S : S = {k \in DOMAIN subs : Present(Get(o, Exact(k)))}
  OBVIOUS
<1>3. t = [n \in {Exact(m) : m \in S} |-> Get(o, n)]
  BY <1>1, <1>2 DEF SubTyped, TypedWith, Present
<1>4. \A k \in DOMAIN subs : /\ k \in S => Get(t, Exact(k)) = Get(o, Exact(k))
                             /\ k \notin S => Get(t, Exact(k)) = Null
  BY <1>1, <1>2, SubTypedIs
<1>5. ~Present(Null)
  BY NullIs DEF Present
<1>6. S = {k \in DOMAIN subs : Present(Get(t, Exact(k)))}
  BY <1>2, <1>4, <1>5
<1>7. PICK u : u = SubTyped(subs, t)
  OBVIOUS
<1>8. u = [n \in {Exact(m) : m \in S} |-> Get(t, n)]
  BY <1>6, <1>7 DEF SubTyped, TypedWith, Present
<1>9. \A n \in {Exact(m) : m \in S} : Get(t, n) = Get(o, n)
  BY <1>2, <1>4
<1>10. u = t
  BY <1>3, <1>8, <1>9
<1> QED
  BY <1>1, <1>7, <1>10

\* The value of an attribute in the typed resource.
LEMMA TypedValueIs ==
    ASSUME NEW a, NEW v, Fits(a, v)
    PROVE  LET w == TypedValue(a, v)
           IN  /\ Fits(a, w) /\ TypedValue(a, w) = w /\ Distinct(AsObject(w))
               /\ IsObject(w) <=> IsObject(v)
               /\ ~IsObject(v) => w = v
               /\ IsObject(v) => a.complex /\ w = Obj(SubTyped(a.subs, v.o))
               /\ Present(v) => Present(w)
<1>1. PICK w : w = TypedValue(a, v)
  OBVIOUS
<1>2. CASE ~IsObject(v)
  <2>1. w = v
    BY <1>1, <1>2 DEF TypedValue
  <2>2. AsObject(v) = <<>>
    BY <1>2 DEF AsObject
  <2> QED
    BY <1>1, <1>2, <2>1, <2>2, NothingIn
<1>3. CASE IsObject(v)
  <2>1. PICK t : t = SubTyped(a.subs, v.o)
    OBVIOUS
  <2>2. w = Obj(t)
    BY <1>1, <1>3, <2>1 DEF TypedValue, SubTyped
  <2>3. IsObject(w) /\ w.o = t /\ AsObject(w) = t
    BY <2>2, ObjectIs
  <2>4. Distinct(t)
    BY <2>1, SubTypedIs
  <2>5. TypedValue(a, w) = w
    BY <2>1, <2>2, <2>3, SubTypedTwice DEF TypedValue, SubTyped
  <2>6. a.complex
    BY <1>3 DEF Fits, FitsSimple, IsObject
  <2>7. \A s \in DOMAIN a.subs : FitsSimple(a.subs[s], Get(v.o, Exact(s)))
    BY <1>3, <2>6 DEF Fits, IsObject
  <2>8. \A s \in DOMAIN a.subs : Get(t, Exact(s)) = Get(v.o, Exact(s)) \/ Get(t, Exact(s)) = Null
    BY <2>1, SubTypedIs
  <2>9. \A b : FitsSimple(b, Null)
    BY DEF FitsSimple, Null
  <2>10. \A s \in DOMAIN a.subs : FitsSimple(a.subs[s], Get(w.o, Exact(s)))
    BY <2>3, <2>7, <2>8, <2>9
  <2>11. Fits(a, w)
    BY <2>3, <2>6, <2>10 DEF Fits
  <2> QED
    BY <1>1, <1>3, <2>1, <2>2, <2>3, <2>4, <2>5, <2>6, <2>11 DEF Present
<1> QED
  BY <1>2, <1>3

\* A document that was encoded from a typed resource.
Plain(d) ==
    /\ Neat(d) /\ Decodes(d)
    /\ \A f \in Tops : LET v == Value(d, f)
                       IN  TypedValue(Attribute(f), v) = v /\ (v = Null \/ Present(v))

LEMMA FromDocumentPlain == ASSUME NEW c, Decodes(c) PROVE Plain(fromDocument(c))
<1>1. PICK d : d = fromDocument(c)
  OBVIOUS
<1>2. Get(c, ExtKey).t \in {"null", "object"}
  BY DEF Decodes
<1>3. Distinct(d) /\ Distinct(House(d, ExtURI)) /\ Get(d, ExtKey).t \in {"null", "object"}
  BY <1>1, <1>2, FromDocumentIs
<1>4. ASSUME NEW f \in Tops
      PROVE  /\ Fits(Attribute(f), Value(d, f)) /\ Distinct(AsObject(Value(d, f)))
             /\ TypedValue(Attribute(f), Value(d, f)) = Value(d, f)
             /\ Value(d, f) = Null \/ Present(Value(d, f))
  <2>1. PICK a : a = Attribute(f)
    OBVIOUS
  <2>2. PICK v : v = Value(c, f)
    OBVIOUS
  <2>3. PICK w : w = Value(d, f)
    OBVIOUS
  <2>4. Fits(a, v)
    BY <2>1, <2>2 DEF Decodes
  <2>5. (Present(v) => w = TypedValue(a, v)) /\ (~Present(v) => w = Null)
    BY <1>1, <1>2, <2>1, <2>2, <2>3, FromDocumentIs
  <2>6. CASE Present(v)
    BY <2>1, <2>3, <2>4, <2>5, <2>6, TypedValueIs
  <2>7. CASE ~Present(v)
    <3>1. w = Null
      BY <2>5, <2>7
    <3>2. Fits(a, Null)
      BY NullIs DEF Fits, FitsSimple
    <3>3. TypedValue(a, Null) = Null
      BY NullIs DEF TypedValue
    <3> QED
      BY <2>1, <2>3, <3>1, <3>2, <3>3, NullIs, NothingIn
  <2> QED
    BY <2>6, <2>7
<1>5. Neat(d)
  BY <1>3, <1>4 DEF Neat, Complex
<1>6. Decodes(d)
  BY <1>3, <1>4 DEF Decodes
<1> QED
  BY <1>1, <1>4, <1>5, <1>6 DEF Plain

\* A simple field: what is unassigned is dropped, and everything else stays.
LEMMA CarriedOver ==
    ASSUME NEW c, Decodes(c), NEW f \in Fields, ~Attribute(f).complex
    PROVE  /\ ~IsObject(Value(c, f))
           /\ IsUnassigned(Value(c, f)) => Value(fromDocument(c), f) = Null
           /\ ~IsUnassigned(Value(c, f)) => Value(fromDocument(c), f) = Value(c, f)
<1>1. PICK d : d = fromDocument(c)
  OBVIOUS
<1>2. \A g \in Tops : /\ Fits(Attribute(g), Value(c, g))
                      /\ Present(Value(c, g)) => Value(d, g) = TypedValue(Attribute(g), Value(c, g))
                      /\ ~Present(Value(c, g)) => Value(d, g) = Null
  BY <1>1, FromDocumentIs DEF Decodes
<1>3. CASE f \in Tops
  <2>1. FitsSimple(Attribute(f), Value(c, f))
    BY <1>2, <1>3 DEF Fits
  <2>2. ~IsObject(Value(c, f))
    BY <2>1 DEF FitsSimple, IsObject
  <2>3. Present(Value(c, f)) => Value(d, f) = Value(c, f)
    BY <1>2, <1>3, <2>2, TypedValueIs
  <2> QED
    BY <1>1, <1>2, <1>3, <2>2, <2>3 DEF Present
<1>4. CASE f \notin Tops
  <2>1. PICK g : g = Top(f)
    OBVIOUS
  <2>2. /\ f.sub # NoName /\ f.sub = Exact(f.sub[1]) /\ g \in Complex
        /\ Parent(f) = Attribute(g) /\ f.sub[1] \in DOMAIN Parent(f).subs
    BY <1>4, <2>1, SubIs
  <2>3. g \in Tops
    BY <2>2 DEF Complex
  <2>4. PICK s : s = f.sub[1]
    OBVIOUS
  <2>5. PICK a : a = Attribute(g)
    OBVIOUS
  <2>6. PICK v : v = Value(c, g)
    OBVIOUS
  <2>7. s \in DOMAIN a.subs /\ f.sub = Exact(s)
    BY <2>2, <2>4, <2>5
  <2>8. Value(c, f) = Get(AsObject(v), Exact(s)) /\ Value(d, f) = Get(AsObject(Value(d, g)), Exact(s))
    BY <2>1, <2>2, <2>6, <2>7, ValueSub
  <2>9. CASE IsObject(v)
    <3>1. Fits(a, v) /\ Value(d, g) = TypedValue(a, v)
      BY <1>2, <2>3, <2>5, <2>6, <2>9 DEF Present
    <3>2. a.complex /\ Value(d, g) = Obj(SubTyped(a.subs, v.o)) /\ AsObject(v) = v.o
      BY <2>9, <3>1, TypedValueIs DEF AsObject
    <3>3. Value(d, f) = Get(SubTyped(a.subs, v.o), Exact(s)) /\ Value(c, f) = Get(v.o, Exact(s))
      BY <2>8, <3>2, ObjectIs
    <3>4. FitsSimple(a.subs[s], Get(v.o, Exact(s)))
      BY <2>7, <2>9, <3>1, <3>2 DEF Fits, IsObject
    <3>5. ~IsObject(Get(v.o, Exact(s)))
      BY <3>4 DEF FitsSimple, IsObject
    <3>6. /\ Present(Get(v.o, Exact(s))) => Value(d, f) = Get(v.o, Exact(s))
          /\ ~Present(Get(v.o, Exact(s))) => Value(d, f) = Null
      BY <2>7, <3>3, SubTypedIs
    <3> QED
      BY <1>1, <3>3, <3>5, <3>6 DEF Present
  <2>10. CASE ~IsObject(v)
    <3>1. Fits(a, v)
      BY <1>2, <2>3, <2>5, <2>6
    <3>2. ~IsObject(Value(d, g))
      BY <1>2, <2>3, <2>5, <2>6, <2>10, <3>1, TypedValueIs, NullIs
    <3>3. AsObject(v) = <<>> /\ AsObject(Value(d, g)) = <<>>
      BY <2>10, <3>2 DEF AsObject
    <3>4. Value(c, f) = Null /\ Value(d, f) = Null
      BY <2>8, <3>3, NothingIn
    <3> QED
      BY <1>1, <3>4, NullIs
  <2> QED
    BY <2>9, <2>10
<1> QED
  BY <1>3, <1>4

\* A complex attribute stays an object if it was one, and only then.
LEMMA ObjectsStay ==
    ASSUME NEW c, Decodes(c), NEW f \in Tops
    PROVE  IsObject(Value(fromDocument(c), f)) <=> IsObject(Value(c, f))
<1>1. PICK v : v = Value(c, f)
  OBVIOUS
<1>2. PICK w : w = Value(fromDocument(c), f)
  OBVIOUS
<1>3. PICK a : a = Attribute(f)
  OBVIOUS
<1>4. Fits(a, v) /\ (Present(v) => w = TypedValue(a, v)) /\ (~Present(v) => w = Null)
  BY <1>1, <1>2, <1>3, FromDocumentIs DEF Decodes
<1>5. IsObject(w) <=> IsObject(v)
  BY <1>4, TypedValueIs, NullIs DEF Present
<1> QED
  BY <1>1, <1>2, <1>5

\* What an encoded document holds: no name that is not declared, and no value that is unassigned.
LEMMA PlainObject ==
    ASSUME NEW d, Plain(d), NEW f \in Tops, NEW v, v = Value(d, f), IsObject(v)
    PROVE  /\ Attribute(f).complex
           /\ \A n \in DOMAIN v.o : /\ n[1] \in DOMAIN Attribute(f).subs /\ n = Exact(n[1])
                                    /\ v.o[n] = Get(v.o, n) /\ ~IsObject(v.o[n]) /\ ~IsUnassigned(v.o[n])
<1>1. PICK a : a = Attribute(f)
  OBVIOUS
<1>2. Fits(a, v) /\ TypedValue(a, v) = v
  BY <1>1 DEF Plain, Decodes
<1>3. a.complex /\ v = Obj(SubTyped(a.subs, v.o))
  BY <1>2, TypedValueIs
<1>4. PICK t : t = SubTyped(a.subs, v.o)
  OBVIOUS
<1>5. v.o = t
  BY <1>3, <1>4, ObjectIs
<1>6. \A n \in DOMAIN t : n[1] \in DOMAIN a.subs /\ n = Exact(n[1]) /\ Present(Get(v.o, n)) /\ t[n] = Get(v.o, n)
  BY <1>4, SubTypedIs
<1>7. \A s \in DOMAIN a.subs : FitsSimple(a.subs[s], Get(v.o, Exact(s)))
  BY <1>2, <1>3 DEF Fits, IsObject
<1>8. \A s \in DOMAIN a.subs : ~IsObject(Get(v.o, Exact(s)))
  BY <1>7 DEF FitsSimple, IsObject
<1>9. ASSUME NEW n \in DOMAIN v.o
      PROVE  /\ n[1] \in DOMAIN a.subs /\ n = Exact(n[1])
             /\ v.o[n] = Get(v.o, n) /\ ~IsObject(v.o[n]) /\ ~IsUnassigned(v.o[n])
  <2>1. n[1] \in DOMAIN a.subs /\ n = Exact(n[1]) /\ Present(Get(v.o, n)) /\ v.o[n] = Get(v.o, n)
    BY <1>5, <1>6
  <2>2. ~IsObject(Get(v.o, n))
    BY <1>8, <2>1
  <2> QED
    BY <2>1, <2>2 DEF Present
<1> QED
  BY <1>1, <1>3, <1>9

LEMMA PlainField ==
    ASSUME NEW d, Plain(d), NEW f \in Fields, ~Attribute(f).complex
    PROVE  /\ ~IsObject(Value(d, f))
           /\ Value(d, f) = Null \/ Full(Value(d, f))
<1>1. ~IsObject(Value(d, f))
  BY CarriedOver DEF Plain
<1>2. Value(d, f) = Null \/ ~IsUnassigned(Value(d, f))
  <2>1. CASE f \in Tops
    BY <1>1, <2>1 DEF Plain, Present
  <2>2. CASE f \notin Tops
    <3>1. PICK g : g = Top(f)
      OBVIOUS
    <3>2. f.sub # NoName /\ g \in Tops
      BY <2>2, <3>1, SubIs DEF Complex
    <3>3. PICK v : v = Value(d, g)
      OBVIOUS
    <3>4. Value(d, f) = Get(AsObject(v), f.sub)
      BY <3>1, <3>2, <3>3, ValueSub
    <3>5. CASE ~Has(AsObject(v), f.sub)
      BY <3>4, <3>5, KeyIs
    <3>6. CASE Has(AsObject(v), f.sub)
      <4>1. PICK k : k = key(AsObject(v), f.sub)
        OBVIOUS
      <4>2. k \in DOMAIN AsObject(v) /\ Value(d, f) = AsObject(v)[k]
        BY <3>4, <3>6, <4>1, KeyIs DEF Get
      <4>3. IsObject(v) /\ AsObject(v) = v.o
        BY <4>2, NoNames DEF AsObject
      <4> QED
        BY <3>2, <3>3, <4>2, <4>3, PlainObject
    <3> QED
      BY <3>5, <3>6
  <2> QED
    BY <2>1, <2>2
<1> QED
  BY <1>1, <1>2 DEF Full

\* The field of a sub-attribute.
LEMMA SubField ==
    ASSUME NEW f \in Tops, NEW s \in DOMAIN Attribute(f).subs
    PROVE  \E g \in Fields : g.sub = Exact(s) /\ g.sub # NoName /\ Top(g) = f
<1>1. PICK uri, n : f = Path(uri, n, NoName)
  BY TopPath
<1>2. PICK g : g = [f EXCEPT !.sub = Exact(s)]
  OBVIOUS
<1>3. g = Path(uri, n, Exact(s))
  BY <1>1, <1>2 DEF Path
<1>4. g.sub = Exact(s) /\ Top(g) = f
  BY <1>1, <1>3 DEF Path, Top
<1>5. Attribute(f) = Parent(f) /\ Parent(f) = Attributes(f.uri)[f.name[1]] /\ f.name[1] \in DOMAIN Attributes(f.uri)
  BY TopIs
<1>6. g \in Fields
  BY <1>2, <1>5 DEF Fields
<1>7. s # ""
  BY <1>5, DeclaredIs
<1> QED
  BY <1>4, <1>6, <1>7, ExactIs

LEMMA PlainData ==
    ASSUME NEW d, Plain(d), NEW f \in Complex, ~IsUnassigned(Value(d, f))
    PROVE  HasData(d, f) /\ Full(Value(d, f)) /\ IsObject(Value(d, f))
<1>1. f \in Tops /\ Attribute(f).complex
  BY TopIs DEF Complex
<1>2. PICK v : v = Value(d, f)
  OBVIOUS
<1>3. v.t = "null" \/ IsObject(v)
  BY <1>1, <1>2 DEF Plain, Decodes, Fits
<1>4. IsObject(v) /\ DOMAIN v.o # {}
  BY <1>2, <1>3 DEF IsUnassigned, IsObject
<1>5. PICK n : n \in DOMAIN v.o
  BY <1>4
<1>6. /\ n[1] \in DOMAIN Attribute(f).subs /\ n = Exact(n[1])
      /\ v.o[n] = Get(v.o, n) /\ ~IsUnassigned(v.o[n])
  BY <1>1, <1>2, <1>4, <1>5, PlainObject
<1>7. PICK g \in Fields : g.sub = n /\ g.sub # NoName /\ Top(g) = f
  BY <1>1, <1>6, SubField
<1>8. Value(d, g) = Get(AsObject(v), n) /\ AsObject(v) = v.o
  BY <1>2, <1>4, <1>7, ValueSub DEF AsObject
<1> QED
  BY <1>2, <1>4, <1>5, <1>6, <1>7, <1>8 DEF HasData, Full

\* An encoded document in which the server leaves no object empty that only it assigns.
Encoded(d) ==
    /\ Plain(d)
    /\ \A f \in Tops : Attribute(f).mutability = "readOnly" => Value(d, f) = Null \/ ~IsUnassigned(Value(d, f))

LEMMA EncodedSolid == ASSUME NEW d, Encoded(d) PROVE Solid(d)
<1> SUFFICES ASSUME NEW f \in Fields, Attribute(f).mutability = "readOnly"
             PROVE  Value(d, f) = Null \/ Full(Value(d, f))
  BY DEF Solid
<1>1. CASE ~Attribute(f).complex
  BY <1>1, PlainField DEF Encoded
<1>2. CASE Attribute(f).complex
  <2>1. f \in Tops /\ f \in Complex
    BY <1>2, SubIs, TopIs DEF Complex
  <2> QED
    BY <2>1, PlainData DEF Encoded
<1> QED
  BY <1>1, <1>2

LEMMA EmptyEncoded == Encoded(<<>>)
<1>1. PICK E : E = <<>>
  OBVIOUS
<1>2. \A n : Get(E, n) = Null
  BY <1>1, NothingIn
<1>3. Distinct(E)
  BY <1>1, NothingIn
<1>4. House(E, ExtURI) = <<>>
  BY <1>2, NullIs DEF House
<1>5. \A f \in Tops : Value(E, f) = Null
  <2> TAKE f \in Tops
  <2>1. CASE f.uri = ExtURI
    <3>1. Value(E, f) = Get(<<>>, f.name)
      BY <1>2, <2>1, NullIs, ValueInHouse
    <3> QED
      BY <3>1, NothingIn
  <2>2. CASE f.uri # ExtURI
    BY <1>2, <2>2, ValueInHouse
  <2> QED
    BY <2>1, <2>2
<1>6. Neat(E)
  BY <1>3, <1>4, <1>5, NullIs, NothingIn DEF Neat, Complex
<1>7. \A a : Fits(a, Null) /\ TypedValue(a, Null) = Null
  BY NullIs DEF Fits, FitsSimple, TypedValue
<1>8. Decodes(E)
  BY <1>2, <1>5, <1>7, NullIs DEF Decodes
<1>9. Encoded(E)
  BY <1>5, <1>6, <1>7, <1>8 DEF Encoded, Plain
<1> QED
  BY <1>1, <1>9

LEMMA StoredEncoded == ASSUME NEW d \in Stored PROVE Encoded(d)
<1>1. /\ Decodes(d) /\ fromDocument(d) = d
      /\ \A f \in Tops : Attribute(f).mutability = "readOnly" /\ IsObject(Value(d, f)) => ~IsUnassigned(Value(d, f))
  BY StoredAssumption
<1>2. Plain(d)
  BY <1>1, FromDocumentPlain
<1> QED
  BY <1>1, <1>2 DEF Encoded, Plain, Present

-----------------------------------------------------------------------------
(* What a request that is saved has done to the fields, once the document  *)
(* is decoded and encoded again.                                           *)

Settles(D, d, G) ==
    \A f \in Fields :
        /\ Attribute(f).mutability = "readOnly"
             => Value(d, f) = Value(D, f) \/ (Value(d, f) = Null /\ LostWith(f, G))
        /\ ~Attribute(f).complex /\ Attribute(f).mutability = "immutable" /\ ~IsUnassigned(Value(D, f))
             => Equal(Attribute(f), Value(D, f), Value(d, f)) \/ LostWith(f, G)
        /\ f.sub # NoName /\ Parent(f).mutability = "immutable" /\ ~IsUnassigned(Holder(D, f))
             => Equal(Attribute(f), Value(D, f), Value(d, f))

LEMMA SinceSettles ==
    ASSUME NEW D, Encoded(D), NEW c, NEW G, Since(D, c, G), Decodes(c), NEW d, d = fromDocument(c)
    PROVE  Settles(D, d, G) /\ Encoded(d)
<1>1. ASSUME NEW f \in Fields
      PROVE  /\ Attribute(f).mutability = "readOnly"
                  => Value(d, f) = Value(D, f) \/ (Value(d, f) = Null /\ LostWith(f, G))
             /\ ~Attribute(f).complex /\ Attribute(f).mutability = "immutable" /\ ~IsUnassigned(Value(D, f))
                  => Equal(Attribute(f), Value(D, f), Value(d, f)) \/ LostWith(f, G)
             /\ f.sub # NoName /\ Parent(f).mutability = "immutable" /\ ~IsUnassigned(Holder(D, f))
                  => Equal(Attribute(f), Value(D, f), Value(d, f))
  <2>1. PICK a : a = Attribute(f)
    OBVIOUS
  <2>2. PICK v : v = Value(D, f)
    OBVIOUS
  <2>3. PICK w : w = Value(c, f)
    OBVIOUS
  <2>4. PICK u : u = Value(d, f)
    OBVIOUS
  <2>5. /\ a.mutability = "readOnly" => w = v \/ (w = Null /\ LostWith(f, G))
        /\ ~a.complex /\ a.mutability = "immutable" /\ Full(v) => Equal(a, v, w) \/ LostWith(f, G)
        /\ f.sub # NoName /\ Parent(f).mutability = "immutable" /\ HasData(D, Top(f)) => Equal(a, v, w)
    BY <2>1, <2>2, <2>3 DEF Since, FieldKept
  <2>6. CASE ~a.complex
    <3>1. (IsUnassigned(w) => u = Null) /\ (~IsUnassigned(w) => u = w)
      BY <2>1, <2>3, <2>4, <2>6, CarriedOver
    <3>2. v = Null \/ Full(v)
      BY <2>1, <2>2, <2>6, PlainField DEF Encoded
    <3>3. Full(v) => ~IsUnassigned(v)
      BY DEF Full
    <3>4. ASSUME Equal(a, v, w) PROVE Equal(a, v, u)
      <4>1. CASE v = Null
        BY <3>1, <3>4, <4>1, EqualAlike, EqualReflexive, NullIs
      <4>2. CASE Full(v)
        BY <3>1, <3>3, <3>4, <4>2, EqualAlike
      <4> QED
        BY <3>2, <4>1, <4>2
    <3>5. ASSUME a.mutability = "readOnly" PROVE u = v \/ (u = Null /\ LostWith(f, G))
      BY <2>5, <3>1, <3>2, <3>3, <3>5, NullIs
    <3>6. ASSUME a.mutability = "immutable", ~IsUnassigned(v) PROVE Equal(a, v, u) \/ LostWith(f, G)
      BY <2>5, <2>6, <3>2, <3>4, <3>6, NullIs
    <3>7. ASSUME f.sub # NoName, Parent(f).mutability = "immutable", ~IsUnassigned(Holder(D, f)) PROVE Equal(a, v, u)
      <4>1. Top(f) \in Complex /\ Holder(D, f) = Value(D, Top(f))
        BY <3>7, FieldIs, SubIs, ValueSub
      <4>2. HasData(D, Top(f))
        BY <3>7, <4>1, PlainData DEF Encoded
      <4> QED
        BY <2>5, <3>4, <3>7, <4>2
    <3> QED
      BY <2>1, <2>2, <2>4, <3>5, <3>6, <3>7
  <2>7. CASE a.complex
    <3>1. f \in Tops /\ f.sub = NoName
      BY <2>1, <2>7, SubIs, TopIs
    <3>2. ~LostWith(f, G)
      BY <3>1 DEF LostWith
    <3>3. (Present(w) => u = TypedValue(a, w)) /\ (~Present(w) => u = Null)
      BY <2>1, <2>3, <2>4, <3>1, FromDocumentIs DEF Decodes
    <3>4. TypedValue(a, v) = v /\ (v = Null \/ Present(v))
      BY <2>1, <2>2, <3>1 DEF Encoded, Plain
    <3>5. a.mutability = "readOnly" => u = v
      BY <2>5, <3>2, <3>3, <3>4
    <3> QED
      BY <2>1, <2>2, <2>4, <2>7, <3>1, <3>5
  <2> QED
    BY <2>6, <2>7
<1>2. Plain(d)
  BY FromDocumentPlain
<1>3. ASSUME NEW f \in Tops, Attribute(f).mutability = "readOnly"
      PROVE  Value(d, f) = Null \/ ~IsUnassigned(Value(d, f))
  <2>1. f \in Fields /\ f.sub = NoName
    BY TopIs DEF Fields
  <2>2. Value(d, f) = Value(D, f)
    BY <1>1, <1>3, <2>1 DEF LostWith
  <2> QED
    BY <1>3, <2>2 DEF Encoded
<1> QED
  BY <1>1, <1>2, <1>3 DEF Settles, Encoded

-----------------------------------------------------------------------------
(* POST and PUT: what writable makes of a body. *)

\* The names of the body that are kept, and those of the stored document that are put back.
LEMMA MixedIs ==
    ASSUME NEW attrs, NEW existing, Distinct(existing), NEW kept, Distinct(kept),
           \A m \in DOMAIN kept : Lookup(attrs, m).mutability # "readOnly",
           NEW r, r = Over(Restrict(existing, restored(attrs, kept, existing)), kept)
    PROVE  /\ Distinct(r)
           /\ \A n : \/ Get(r, n) = Get(existing, n) /\ Lookup(attrs, n).mutability \in {"readOnly", "immutable"}
                     \/ /\ Lookup(attrs, n).mutability # "readOnly"
                        /\ Get(r, n) = Null \/ \E m \in DOMAIN kept : m[1] = n[1] /\ Get(r, n) = kept[m]
<1>1. PICK R : R = restored(attrs, kept, existing)
  OBVIOUS
<1>2. PICK q : q = Restrict(existing, R)
  OBVIOUS
<1>3. DOMAIN q = R /\ \A n \in R : q[n] = existing[n]
  BY <1>2 DEF Restrict
<1>4. /\ R \subseteq DOMAIN existing
      /\ \A n \in R : Lookup(attrs, n).mutability \in {"readOnly", "immutable"}
      /\ \A n \in R : Lookup(attrs, n).mutability = "readOnly" \/ ~Has(kept, n)
      /\ \A n \in DOMAIN existing : Lookup(attrs, n).mutability = "readOnly" => n \in R
  BY <1>1 DEF restored
<1>5. /\ DOMAIN r = R \cup DOMAIN kept
      /\ \A n \in R : r[n] = existing[n]
      /\ \A n \in DOMAIN kept : n \notin R => r[n] = kept[n]
  <2>1. r = Over(q, kept)
    BY <1>1, <1>2
  <2> QED
    BY <1>3, <2>1 DEF Over
<1>6. \A m \in R, n \in DOMAIN kept : m[1] # n[1]
  <2> TAKE m \in R, n \in DOMAIN kept
  <2>1. ASSUME m[1] = n[1] PROVE FALSE
    <3>1. Lookup(attrs, m) = Lookup(attrs, n)
      BY <2>1, LookupSame
    <3>2. Has(kept, m)
      BY <2>1, GetOf
    <3> QED
      BY <1>4, <3>1, <3>2
  <2> QED
    BY <2>1
<1>7. Distinct(r)
  BY <1>4, <1>5, <1>6 DEF Distinct
<1>8. ASSUME NEW n
      PROVE  \/ Get(r, n) = Get(existing, n) /\ Lookup(attrs, n).mutability \in {"readOnly", "immutable"}
             \/ /\ Lookup(attrs, n).mutability # "readOnly"
                /\ Get(r, n) = Null \/ \E m \in DOMAIN kept : m[1] = n[1] /\ Get(r, n) = kept[m]
  <2>1. CASE \E m \in R : m[1] = n[1]
    <3>1. PICK m \in R : m[1] = n[1]
      BY <2>1
    <3>2. m \in DOMAIN r /\ r[m] = existing[m] /\ m \in DOMAIN existing
      BY <1>4, <1>5, <3>1
    <3>3. Get(r, n) = Get(existing, n)
      BY <1>7, <3>1, <3>2, GetOf
    <3>4. Lookup(attrs, m) = Lookup(attrs, n)
      BY <3>1, LookupSame
    <3> QED
      BY <1>4, <3>1, <3>3, <3>4
  <2>2. CASE \E m \in DOMAIN kept : m[1] = n[1]
    <3>1. PICK m \in DOMAIN kept : m[1] = n[1]
      BY <2>2
    <3>2. m \in DOMAIN r /\ r[m] = kept[m]
      BY <1>5, <1>6, <3>1
    <3>3. Get(r, n) = kept[m]
      BY <1>7, <3>1, <3>2, GetOf
    <3>4. Lookup(attrs, m) = Lookup(attrs, n)
      BY <3>1, LookupSame
    <3> QED
      BY <3>1, <3>3, <3>4
  <2>3. CASE ~(\E m \in R : m[1] = n[1]) /\ ~(\E m \in DOMAIN kept : m[1] = n[1])
    <3>1. Get(r, n) = Null
      BY <1>5, <2>3, GetNone
    <3>2. CASE Lookup(attrs, n).mutability # "readOnly"
      BY <3>1, <3>2
    <3>3. CASE Lookup(attrs, n).mutability = "readOnly"
      <4>1. \A m \in DOMAIN existing : m[1] # n[1]
        <5> TAKE m \in DOMAIN existing
        <5>1. ASSUME m[1] = n[1] PROVE FALSE
          <6>1. Lookup(attrs, m) = Lookup(attrs, n)
            BY <5>1, LookupSame
          <6> QED
            BY <1>4, <2>3, <3>3, <5>1, <6>1
        <5> QED
          BY <5>1
      <4> QED
        BY <3>1, <3>3, <4>1, GetNone
    <3> QED
      BY <3>2, <3>3
  <2> QED
    BY <2>1, <2>2, <2>3
<1> QED
  BY <1>7, <1>8

\* A value in which the readOnly sub-attributes are those of the stored one.
SubsKept(a, old, new) ==
    \/ ~IsObject(new)
    \/ \A s : Lookup(a.subs, s).mutability = "readOnly" => Get(AsObject(new), s) = Get(AsObject(old), s)

LEMMA WritableValueKeeps ==
    ASSUME NEW a, NEW v, Distinct(AsObject(v)), NEW old, DOMAIN a.subs # {} => Distinct(AsObject(old))
    PROVE  SubsKept(a, old, writableValue(a, v, old))
<1>1. CASE IsObject(v) /\ DOMAIN a.subs # {}
  <2>1. PICK e : e = AsObject(old)
    OBVIOUS
  <2>2. PICK kept : kept = [n \in {m \in DOMAIN v.o : Lookup(a.subs, m).mutability # "readOnly"} |-> v.o[n]]
    OBVIOUS
  <2>3. PICK r : r = Over(Restrict(e, restored(a.subs, kept, e)), kept)
    OBVIOUS
  <2>4. writableValue(a, v, old) = Obj(r)
    BY <1>1, <2>1, <2>2, <2>3 DEF writableValue, Rebuilt
  <2>5. AsObject(v) = v.o
    BY <1>1 DEF AsObject
  <2>6. Distinct(kept) /\ \A m \in DOMAIN kept : Lookup(a.subs, m).mutability # "readOnly"
    BY <2>2, <2>5 DEF Distinct
  <2>7. Distinct(e)
    BY <1>1, <2>1
  <2>8. \A s : Lookup(a.subs, s).mutability = "readOnly" => Get(r, s) = Get(e, s)
    BY <2>3, <2>6, <2>7, MixedIs
  <2> QED
    BY <2>1, <2>4, <2>8, ObjectIs DEF SubsKept
<1>2. CASE ~IsObject(v)
  BY <1>2 DEF writableValue, SubsKept
<1>3. CASE DOMAIN a.subs = {}
  <2>1. \A s : Lookup(a.subs, s).mutability # "readOnly"
    BY <1>3 DEF Lookup, permissiveAttr
  <2> QED
    BY <2>1 DEF SubsKept
<1> QED
  BY <1>1, <1>2, <1>3

LEMMA WritableObjectIs ==
    ASSUME NEW attrs, NEW body, Distinct(body), \A n \in DOMAIN body : Distinct(AsObject(body[n])),
           NEW existing, Distinct(existing),
           \A n : DOMAIN Lookup(attrs, n).subs # {} => Distinct(AsObject(Get(existing, n))),
           NEW r, r = writableObject(attrs, body, existing)
    PROVE  /\ Distinct(r)
           /\ \A n : Lookup(attrs, n).mutability = "readOnly" => Get(r, n) = Get(existing, n)
           /\ \A n : SubsKept(Lookup(attrs, n), Get(existing, n), Get(r, n))
           /\ \A n : Lookup(attrs, n) = permissiveAttr => Get(r, n) = Null \/ \E m \in DOMAIN body : Get(r, n) = body[m]
<1>1. PICK kept : kept = [n \in {m \in DOMAIN body : Lookup(attrs, m).mutability # "readOnly"} |->
                              writableValue(Lookup(attrs, n), body[n], Get(existing, n))]
  OBVIOUS
<1>2. r = Over(Restrict(existing, restored(attrs, kept, existing)), kept)
  BY <1>1 DEF writableObject, Rebuilt
<1>3. \A m \in DOMAIN kept : /\ m \in DOMAIN body /\ Lookup(attrs, m).mutability # "readOnly"
                             /\ kept[m] = writableValue(Lookup(attrs, m), body[m], Get(existing, m))
  BY <1>1
<1>4. Distinct(kept)
  BY <1>3 DEF Distinct
<1>5. /\ Distinct(r)
      /\ \A n : \/ Get(r, n) = Get(existing, n) /\ Lookup(attrs, n).mutability \in {"readOnly", "immutable"}
                \/ /\ Lookup(attrs, n).mutability # "readOnly"
                   /\ Get(r, n) = Null \/ \E m \in DOMAIN kept : m[1] = n[1] /\ Get(r, n) = kept[m]
  BY <1>2, <1>3, <1>4, MixedIs
<1>6. ASSUME NEW n PROVE SubsKept(Lookup(attrs, n), Get(existing, n), Get(r, n))
  <2>1. CASE Get(r, n) = Get(existing, n)
    BY <2>1 DEF SubsKept
  <2>2. CASE Get(r, n) = Null
    BY <2>2, NullIs DEF SubsKept
  <2>3. CASE \E m \in DOMAIN kept : m[1] = n[1] /\ Get(r, n) = kept[m]
    <3>1. PICK m \in DOMAIN kept : m[1] = n[1] /\ Get(r, n) = kept[m]
      BY <2>3
    <3>2. PICK a : a = Lookup(attrs, n)
      OBVIOUS
    <3>3. PICK old : old = Get(existing, n)
      OBVIOUS
    <3>4. Lookup(attrs, m) = a /\ Get(existing, m) = old
      BY <3>1, <3>2, <3>3, LookupSame, GetSame
    <3>5. Get(r, n) = writableValue(a, body[m], old) /\ m \in DOMAIN body
      BY <1>3, <3>1, <3>4
    <3>6. DOMAIN a.subs # {} => Distinct(AsObject(old))
      BY <3>2, <3>3
    <3>7. Distinct(AsObject(body[m]))
      BY <3>5
    <3> QED
      BY <3>2, <3>3, <3>5, <3>6, <3>7, WritableValueKeeps
  <2> QED
    BY <1>5, <2>1, <2>2, <2>3
<1>7. ASSUME NEW n, Lookup(attrs, n) = permissiveAttr
      PROVE  Get(r, n) = Null \/ \E m \in DOMAIN body : Get(r, n) = body[m]
  <2>1. Lookup(attrs, n).mutability \notin {"readOnly", "immutable"} /\ DOMAIN permissiveAttr.subs = {}
    BY <1>7, NoNames DEF permissiveAttr
  <2>2. CASE Get(r, n) = Null
    BY <2>2
  <2>3. CASE Get(r, n) # Null
    <3>1. PICK m \in DOMAIN kept : m[1] = n[1] /\ Get(r, n) = kept[m]
      BY <1>5, <2>1, <2>3
    <3>2. Lookup(attrs, m) = permissiveAttr
      BY <1>7, <3>1, LookupSame
    <3>3. kept[m] = body[m] /\ m \in DOMAIN body
      BY <1>3, <2>1, <3>1, <3>2 DEF writableValue
    <3> QED
      BY <3>1, <3>3
  <2> QED
    BY <2>2, <2>3
<1> QED
  BY <1>5, <1>6, <1>7

\* The objects of a document, as the ones that a body is written over.
LEMMA ExistingNeat ==
    ASSUME NEW D, Neat(D), NEW uri, uri \in {BaseURI, ExtURI}, NEW n,
           DOMAIN Lookup(Attributes(uri), n).subs # {}
    PROVE  Distinct(AsObject(Get(House(D, uri), n)))
<1>1. n[1] \in DOMAIN Attributes(uri) /\ Lookup(Attributes(uri), n) = Attributes(uri)[n[1]]
  BY NoNames DEF Lookup, permissiveAttr
<1>2. Attributes(uri)[n[1]].complex
  BY <1>1, DeclaredIs
<1> QED
  BY <1>1, <1>2, TopOf

\* The attributes of a candidate, if its extension decodes.
LEMMA WritableTops ==
    ASSUME NEW D, Encoded(D), NEW body, wellFormedNames(body), NEW c, c = writable(body, D),
           Get(c, ExtKey).t \in {"null", "object"}, NEW f \in Tops
    PROVE  /\ Attribute(f).mutability = "readOnly" => Value(c, f) = Value(D, f)
           /\ SubsKept(Attribute(f), Value(D, f), Value(c, f))
<1>1. PICK base : base = writableObject(Base, body, D)
  OBVIOUS
<1>2. PICK raw : raw = Get(base, ExtKey)
  OBVIOUS
<1>3. PICK E : E = AsObject(Get(D, ExtKey))
  OBVIOUS
<1>4. PICK ext : ext = writableObject(Extension, AsObject(raw), E)
  OBVIOUS
<1>5. PICK rest : rest = Without(base, ExtKey)
  OBVIOUS
<1>6. \/ ~AllUnassigned(ext) /\ c = Over(Entry(ExtKey, Obj(ext)), rest)
      \/ AllUnassigned(ext) /\ raw.t # "null" /\ ~IsObject(raw) /\ c = Over(Entry(ExtKey, raw), rest)
      \/ AllUnassigned(ext) /\ c = rest
  BY <1>1, <1>2, <1>3, <1>4, <1>5 DEF writable
<1>7. Neat(D) /\ Solid(D)
  BY EncodedSolid DEF Encoded, Plain
<1>8. Distinct(D) /\ Distinct(E) /\ House(D, ExtURI) = E /\ House(D, BaseURI) = D
  BY <1>3, <1>7, ExtKeyIs DEF Neat, House
<1>9. /\ Distinct(body) /\ \A n \in DOMAIN body : Distinct(AsObject(body[n]))
      /\ \A n \in DOMAIN body : \A m \in DOMAIN AsObject(body[n]) : Distinct(AsObject(AsObject(body[n])[m]))
  BY DEF wellFormedNames, DistinctWithin
<1>10. \A n : DOMAIN Lookup(Base, n).subs # {} => Distinct(AsObject(Get(D, n)))
  BY <1>7, <1>8, ExistingNeat, AttributesAre
<1>11. \A n : DOMAIN Lookup(Extension, n).subs # {} => Distinct(AsObject(Get(E, n)))
  BY <1>7, <1>8, ExistingNeat, AttributesAre
<1>12. /\ Distinct(base)
       /\ \A n : Lookup(Base, n).mutability = "readOnly" => Get(base, n) = Get(D, n)
       /\ \A n : SubsKept(Lookup(Base, n), Get(D, n), Get(base, n))
       /\ \A n : Lookup(Base, n) = permissiveAttr
            => Get(base, n) = Null \/ \E m \in DOMAIN body : Get(base, n) = body[m]
  BY <1>1, <1>8, <1>9, <1>10, WritableObjectIs
<1>13. Lookup(Base, ExtKey) = permissiveAttr
  BY ExtKeyIs, SchemaAssumption DEF Lookup
<1>14. Distinct(AsObject(raw)) /\ \A m \in DOMAIN AsObject(raw) : Distinct(AsObject(AsObject(raw)[m]))
  <2>1. CASE raw = Null
    <3>1. AsObject(raw) = <<>>
      BY <2>1, NullIs
    <3>2. DOMAIN AsObject(raw) = {}
      BY <3>1, NoNames
    <3> QED
      BY <3>1, <3>2, NothingIn
  <2>2. CASE \E m \in DOMAIN body : raw = body[m]
    BY <1>9, <2>2
  <2> QED
    BY <1>2, <1>12, <1>13, <2>1, <2>2
<1>15. /\ \A n : Lookup(Extension, n).mutability = "readOnly" => Get(ext, n) = Get(E, n)
       /\ \A n : SubsKept(Lookup(Extension, n), Get(E, n), Get(ext, n))
  BY <1>4, <1>8, <1>11, <1>14, WritableObjectIs
<1>16. Changed(base, rest, ExtKey, Null)
  BY <1>5, <1>12, WithoutChanges
<1>17. Distinct(rest) /\ \A m \in DOMAIN rest : m[1] # ExtKey[1]
  <2>1. PICK k : k = key(base, ExtKey)
    OBVIOUS
  <2>2. DOMAIN rest = DOMAIN base \ {k}
    BY <1>5, <2>1 DEF Without, Restrict
  <2>3. \A m \in DOMAIN base : m[1] = ExtKey[1] => m = k
    BY <1>12, <2>1, GetOf
  <2> QED
    BY <1>16, <2>2, <2>3 DEF Changed
<1>18. \/ ~AllUnassigned(ext) /\ Changed(rest, c, ExtKey, Obj(ext))
       \/ AllUnassigned(ext) /\ c = rest
  <2>1. CASE ~AllUnassigned(ext) /\ c = Over(Entry(ExtKey, Obj(ext)), rest)
    BY <1>17, <2>1, AddedIs
  <2>2. CASE raw.t # "null" /\ ~IsObject(raw) /\ c = Over(Entry(ExtKey, raw), rest)
    <3>1. Changed(rest, c, ExtKey, raw)
      BY <1>17, <2>2, AddedIs
    <3>2. Get(c, ExtKey) = raw
      BY <3>1 DEF Changed
    <3> QED
      BY <2>2, <3>2 DEF IsObject
  <2> QED
    BY <1>6, <2>1, <2>2
<1>19. CASE f.uri # ExtURI
  <2>1. /\ Value(c, f) = Get(c, f.name) /\ Value(D, f) = Get(D, f.name)
        /\ f.name[1] # ExtURI /\ f.name[1] \in DOMAIN Base /\ Attribute(f) = Base[f.name[1]]
    BY <1>19, ValueInHouse
  <2>2. Lookup(Base, f.name) = Attribute(f)
    BY <2>1 DEF Lookup
  <2>3. Get(rest, f.name) = Get(base, f.name)
    BY <1>16, <2>1, ExtKeyIs DEF Changed
  <2>4. Get(c, f.name) = Get(rest, f.name)
    BY <1>18, <2>1, ExtKeyIs DEF Changed
  <2> QED
    BY <1>12, <2>1, <2>2, <2>3, <2>4
<1>20. CASE f.uri = ExtURI
  <2>1. /\ Value(c, f) = Get(AsObject(Get(c, ExtKey)), f.name) /\ Value(D, f) = Get(E, f.name)
        /\ f.name[1] \in DOMAIN Extension /\ Attribute(f) = Extension[f.name[1]]
    BY <1>3, <1>20, ValueInHouse
  <2>2. Lookup(Extension, f.name) = Attribute(f)
    BY <2>1 DEF Lookup
  <2>3. CASE Changed(rest, c, ExtKey, Obj(ext))
    <3>1. Get(c, ExtKey) = Obj(ext)
      BY <2>3 DEF Changed
    <3>2. Value(c, f) = Get(ext, f.name)
      BY <2>1, <3>1, ObjectIs
    <3> QED
      BY <1>15, <2>1, <2>2, <3>2
  <2>4. CASE AllUnassigned(ext) /\ c = rest
    <3>1. Get(c, ExtKey) = Null
      BY <1>16, <2>4 DEF Changed
    <3>2. Value(c, f) = Null
      BY <2>1, <3>1, NullIs, NothingIn
    <3>3. ~Full(Get(ext, f.name))
      BY <2>4, AllUnassignedGet
    <3>4. f \in Fields
      BY DEF Fields
    <3>5. ASSUME Attribute(f).mutability = "readOnly" PROVE Value(D, f) = Null
      <4>1. Value(D, f) = Null \/ Full(Value(D, f))
        BY <1>7, <3>4, <3>5 DEF Solid
      <4>2. Value(D, f) = Get(ext, f.name)
        BY <1>15, <2>1, <2>2, <3>5
      <4> QED
        BY <3>3, <4>1, <4>2
    <3> QED
      BY <3>2, <3>5, NullIs DEF SubsKept
  <2> QED
    BY <1>18, <2>3, <2>4
<1> QED
  BY <1>19, <1>20

\* Immutable values stay, unless their attribute is among those of G.
Firm(D, d, G) ==
    \A f \in Fields : ~Attribute(f).complex /\ Attribute(f).mutability = "immutable" /\ ~IsUnassigned(Value(D, f))
                        => Equal(Attribute(f), Value(D, f), Value(d, f)) \/ LostWith(f, G)

LEMMA FirmEncoded ==
    ASSUME NEW D, NEW c, Decodes(c), Firm(D, c, {}), NEW d, d = fromDocument(c)
    PROVE  Firm(D, d, {})
<1> SUFFICES ASSUME NEW f \in Fields, ~Attribute(f).complex, Attribute(f).mutability = "immutable",
                    ~IsUnassigned(Value(D, f))
             PROVE  Equal(Attribute(f), Value(D, f), Value(d, f))
  BY DEF Firm
<1>1. Equal(Attribute(f), Value(D, f), Value(c, f))
  BY DEF Firm, LostWith
<1>2. ~IsUnassigned(Value(c, f))
  BY <1>1, EqualAlike
<1>3. Value(d, f) = Value(c, f)
  BY <1>2, CarriedOver
<1> QED
  BY <1>1, <1>3

\* service.replaced: the candidate keeps what it must, by writable or by the check of immutable attributes.
LEMMA ReplacedKeeps ==
    ASSUME NEW D, Encoded(D), NEW body, Replaced(body, D).ok, NEW c, c = Replaced(body, D).candidate
    PROVE  Decodes(c) /\ Since(D, c, NoObject(c)) /\ Firm(D, c, {})
<1>1. c = writable(body, D) /\ wellFormedNames(body) /\ Decodes(c) /\ immutable(D, c)
  BY DEF Replaced
<1>2. Get(c, ExtKey).t \in {"null", "object"}
  BY <1>1 DEF Decodes
<1>3. \A f \in Tops : /\ Attribute(f).mutability = "readOnly" => Value(c, f) = Value(D, f)
                      /\ SubsKept(Attribute(f), Value(D, f), Value(c, f))
  BY <1>1, <1>2, WritableTops
<1>4. \A g \in Complex : g \in Tops /\ g \in Fields /\ g.sub = NoName /\ Attribute(g) = Parent(g) /\ ~Parent(g).multi
  <2> TAKE g \in Complex
  <2>1. g \in Tops /\ g \in Fields /\ Parent(g).complex
    BY DEF Complex, Fields
  <2>2. /\ g.sub = NoName /\ Attribute(g) = Parent(g)
        /\ Parent(g) = Attributes(g.uri)[g.name[1]] /\ g.name[1] \in DOMAIN Attributes(g.uri)
    BY <2>1, TopIs
  <2>3. ~Parent(g).multi
    BY <2>1, <2>2, DeclaredIs
  <2> QED
    BY <2>1, <2>2, <2>3
<1>5. ASSUME NEW g \in Fields, Attribute(g).mutability = "immutable", ~IsUnassigned(Value(D, g))
      PROVE  Equal(Attribute(g), Value(D, g), Value(c, g))
  <2>1. g.sub # NoName => ~Parent(g).multi
    BY <1>4, FieldIs, SubIs
  <2> QED
    BY <1>1, <1>5, <2>1 DEF immutable
<1>6. ASSUME NEW f \in Fields PROVE FieldKept(f, Value(D, f), Value(c, f), HasData(D, Top(f)), NoObject(c))
  <2>1. ASSUME Attribute(f).mutability = "readOnly"
        PROVE  Value(c, f) = Value(D, f) \/ (Value(c, f) = Null /\ LostWith(f, NoObject(c)))
    <3>1. CASE f \in Tops
      BY <1>3, <2>1, <3>1
    <3>2. CASE f \notin Tops
      <4>1. PICK g : g = Top(f)
        OBVIOUS
      <4>2. /\ f.sub # NoName /\ g \in Complex /\ Attribute(f) = Lookup(Attribute(g).subs, f.sub)
        BY <3>2, <4>1, SubIs
      <4>3. g \in Tops
        BY <4>2 DEF Complex
      <4>4. PICK v : v = Value(D, g)
        OBVIOUS
      <4>5. PICK w : w = Value(c, g)
        OBVIOUS
      <4>6. Value(D, f) = Get(AsObject(v), f.sub) /\ Value(c, f) = Get(AsObject(w), f.sub)
        BY <4>1, <4>2, <4>4, <4>5, ValueSub
      <4>7. SubsKept(Attribute(g), v, w)
        BY <1>3, <4>3, <4>4, <4>5
      <4>8. CASE ~IsObject(w)
        <5>1. AsObject(w) = <<>>
          BY <4>8 DEF AsObject
        <5>2. Value(c, f) = Null
          BY <4>6, <5>1, NothingIn
        <5>3. g \in NoObject(c)
          BY <4>2, <4>5, <4>8 DEF NoObject
        <5> QED
          BY <4>1, <4>2, <5>2, <5>3 DEF LostWith
      <4>9. CASE IsObject(w)
        BY <2>1, <4>2, <4>6, <4>7, <4>9 DEF SubsKept
      <4> QED
        BY <4>8, <4>9
    <3> QED
      BY <3>1, <3>2
  <2>2. f.sub # NoName => f \notin Tops /\ Top(f) \in Complex /\ Parent(f) = Attribute(Top(f))
    BY FieldIs, SubIs
  <2>5. ASSUME Attribute(f).mutability = "immutable", Full(Value(D, f))
        PROVE  Equal(Attribute(f), Value(D, f), Value(c, f))
    BY <1>5, <2>5 DEF Full
  <2>6. ASSUME f.sub # NoName, Parent(f).mutability = "immutable", HasData(D, Top(f))
        PROVE  Equal(Attribute(f), Value(D, f), Value(c, f))
    <3>1. PICK g : g = Top(f)
      OBVIOUS
    <3>2. g \in Fields /\ g \in Complex /\ Attribute(g).mutability = "immutable"
      BY <1>4, <2>2, <2>6, <3>1
    <3>3. PICK h \in Fields : h.sub # NoName /\ Top(h) = g /\ ~IsUnassigned(Value(D, h))
      BY <2>6, <3>1 DEF HasData
    <3>4. Value(D, h) = Get(AsObject(Value(D, g)), h.sub)
      BY <3>3, ValueSub
    <3>5. IsObject(Value(D, g)) /\ ~IsUnassigned(Value(D, g))
      BY <3>3, <3>4, DataIsObject
    <3>6. Equal(Attribute(g), Value(D, g), Value(c, g))
      BY <1>5, <3>2, <3>5
    <3>7. Value(c, g) = Value(D, g)
      BY <3>5, <3>6, EqualAlike
    <3>8. Value(c, f) = Value(D, f)
      BY <2>6, <3>1, <3>7, ValueSub
    <3> QED
      BY <3>8, EqualReflexive
  <2> QED
    BY <2>1, <2>5, <2>6 DEF FieldKept
<1> QED
  BY <1>1, <1>5, <1>6 DEF Since, Firm

-----------------------------------------------------------------------------
(* The specification. *)

DocInv ==
    /\ Encoded(doc)
    /\ ~held => doc = <<>> /\ ~open
    /\ open => Neat(work) /\ Since(doc, work, gone) /\ NoObject(work) \subseteq gone

\* What a step does to the stored document.
DocStep ==
    \/ doc' = doc
    \/ Encoded(doc') /\ \E G : /\ Settles(doc, doc', G)
                               /\ \A f \in Fields : LostWith(f, G) => ParentWentAway(f)
                     /\ Firm(doc, doc', gone)

LEMMA SavedReplaced ==
    ASSUME DocInv, NEW body, Replaced(body, doc).ok, doc' = fromDocument(Replaced(body, doc).candidate)
    PROVE  DocStep /\ Encoded(doc')
<1>1. PICK D : D = doc
  OBVIOUS
<1>2. PICK c : c = Replaced(body, D).candidate
  OBVIOUS
<1>3. PICK d : d = doc'
  OBVIOUS
<1>4. PICK G : G = NoObject(c)
  OBVIOUS
<1>5. Encoded(D)
  BY <1>1 DEF DocInv
<1>6. Decodes(c) /\ Since(D, c, G) /\ Firm(D, c, {}) /\ d = fromDocument(c)
  BY <1>1, <1>2, <1>3, <1>4, <1>5, ReplacedKeeps
<1>7. Settles(D, d, G) /\ Encoded(d)
  BY <1>5, <1>6, SinceSettles
<1>8. ASSUME NEW f \in Fields, LostWith(f, G) PROVE ParentWentAway(f)
  <2>1. f.sub # NoName /\ Top(f) \in NoObject(c)
    BY <1>4, <1>8 DEF LostWith
  <2>2. Top(f) \in Tops /\ ~IsObject(Value(c, Top(f)))
    BY <2>1 DEF NoObject, Complex
  <2>3. ~IsObject(Value(d, Top(f)))
    BY <1>6, <2>2, ObjectsStay
  <2>4. Holder(d, f) = Value(d, Top(f))
    BY <2>1, ValueSub
  <2> QED
    BY <1>3, <2>1, <2>3, <2>4 DEF ParentWentAway
<1>9. Firm(D, d, {})
  BY <1>6, FirmEncoded
<1>10. Firm(D, d, gone)
  BY <1>9 DEF Firm, LostWith
<1> QED
  BY <1>1, <1>3, <1>7, <1>8, <1>10 DEF DocStep

LEMMA CommitSettles ==
    ASSUME DocInv, Commit
    PROVE  DocStep /\ Encoded(doc')
<1>1. PICK d : d = doc'
  OBVIOUS
<1>2. Encoded(doc) /\ Since(doc, work, gone) /\ Decodes(work) /\ d = fromDocument(work)
  BY <1>1 DEF DocInv, Commit, Save
<1>3. Settles(doc, d, gone) /\ Encoded(d)
  BY <1>2, SinceSettles
<1>4. \A f \in Fields : LostWith(f, gone) => ParentWentAway(f)
  BY DEF LostWith, ParentWentAway
<1>5. Firm(doc, d, gone)
  BY <1>3 DEF Settles, Firm
<1> QED
  BY <1>1, <1>3, <1>4, <1>5 DEF DocStep

LEMMA InitDocInv == Init => DocInv
<1> SUFFICES ASSUME Init PROVE DocInv
  OBVIOUS
<1>1. CASE held
  BY <1>1, StoredEncoded DEF Init, DocInv
<1>2. CASE ~held
  BY <1>2, EmptyEncoded DEF Init, DocInv
<1> QED
  BY <1>1, <1>2

LEMMA NextDocInv == DocInv /\ [Next]_vars => DocInv' /\ DocStep
<1> SUFFICES ASSUME DocInv, [Next]_vars PROVE DocInv' /\ DocStep
  OBVIOUS
<1>1. ASSUME NEW body \in Bodies, Create(body) PROVE DocInv' /\ DocStep
  <2>1. /\ ~held /\ ~open /\ doc = <<>>
        /\ Replaced(body, doc).ok /\ doc' = fromDocument(Replaced(body, doc).candidate)
        /\ held' = TRUE /\ open' = open
    BY <1>1 DEF DocInv, Create, Save
  <2>2. DocStep /\ Encoded(doc')
    BY <2>1, SavedReplaced
  <2> QED
    BY <2>1, <2>2 DEF DocInv
<1>2. ASSUME NEW body \in Bodies, Replace(body) PROVE DocInv' /\ DocStep
  <2>1. /\ ~open
        /\ Replaced(body, doc).ok /\ doc' = fromDocument(Replaced(body, doc).candidate)
        /\ held' = TRUE /\ open' = open
    BY <1>2 DEF Replace, Save
  <2>2. DocStep /\ Encoded(doc')
    BY <2>1, SavedReplaced
  <2> QED
    BY <2>1, <2>2 DEF DocInv
<1>3. CASE Patch
  <2>1. held /\ held' = held /\ doc' = doc /\ work' = doc /\ gone' = NoObject(doc) /\ open' = TRUE
    BY <1>3 DEF Patch
  <2>2. Encoded(doc) /\ Neat(doc)
    BY DEF DocInv, Encoded, Plain
  <2>3. Since(doc, doc, NoObject(doc))
    BY SameKept DEF Since
  <2> QED
    BY <2>1, <2>2, <2>3 DEF DocInv, DocStep
<1>4. ASSUME NEW op \in Operations, Apply(op) PROVE DocInv' /\ DocStep
  <2>1. open /\ wellFormed(op) /\ held' = held /\ doc' = doc /\ open' = open
    BY <1>4 DEF Apply
  <2>2. PICK r \in apply(work, op) : r.ok /\ work' = r.root /\ gone' = gone \cup r.lost \cup NoObject(r.root)
    BY <1>4 DEF Apply
  <2>3. Encoded(doc) /\ Neat(work) /\ Since(doc, work, gone) /\ NoObject(work) \subseteq gone
    BY <2>1 DEF DocInv
  <2>4. Solid(doc)
    BY <2>3, EncodedSolid
  <2>5. Good(doc, gone, r)
    BY <2>1, <2>2, <2>3, <2>4, ApplyGood
  <2>6. Neat(work') /\ Since(doc, work', gone') /\ NoObject(work') \subseteq gone'
    BY <2>2, <2>5 DEF Good
  <2>7. held
    BY <2>1 DEF DocInv
  <2> QED
    BY <2>1, <2>3, <2>6, <2>7 DEF DocInv, DocStep
<1>5. CASE Commit
  <2>1. DocStep /\ Encoded(doc')
    BY <1>5, CommitSettles
  <2>2. held' = TRUE /\ open' = FALSE
    BY <1>5 DEF Commit, Save, Closed
  <2> QED
    BY <2>1, <2>2 DEF DocInv
<1>6. CASE Discard
  BY <1>6 DEF Discard, Closed, DocInv, DocStep
<1>7. CASE UNCHANGED vars
  BY <1>7 DEF vars, DocInv, DocStep
<1> QED
  BY <1>1, <1>2, <1>3, <1>4, <1>5, <1>6, <1>7 DEF Next

(***************************************************************************)
(* Whatever the schema, the stored document, the bodies and the            *)
(* operations, and however many operations a PATCH has and in whichever    *)
(* order the keys of one are written, no request changes a readOnly value, *)
(* and a readOnly sub-attribute is lost only with its attribute            *)
(* (writable.go, patcher.go gate, mergeKey and repeatsReadOnly, target.go  *)
(* stripReadOnly and unassignEmptyExtension).                              *)
(***************************************************************************)
THEOREM ServerValuesKept == Spec => ReadOnlyKept
<1> DEFINE A == \A f \in {g \in Fields : Attribute(g).mutability = "readOnly"} :
                   \/ Value(doc', f) = Value(doc, f)
                   \/ Value(doc', f) = Null /\ ParentWentAway(f)
<1>1. ASSUME DocStep PROVE A
  <2> SUFFICES ASSUME NEW f \in Fields, Attribute(f).mutability = "readOnly"
               PROVE  \/ Value(doc', f) = Value(doc, f)
                      \/ Value(doc', f) = Null /\ ParentWentAway(f)
    OBVIOUS
  <2>1. CASE doc' = doc
    BY <2>1
  <2>2. CASE doc' # doc
    <3>1. PICK G : Settles(doc, doc', G) /\ \A g \in Fields : LostWith(g, G) => ParentWentAway(g)
      BY <1>1, <2>2 DEF DocStep
    <3>2. Value(doc', f) = Value(doc, f) \/ (Value(doc', f) = Null /\ LostWith(f, G))
      BY <3>1 DEF Settles
    <3> QED
      BY <3>1, <3>2
  <2> QED
    BY <2>1, <2>2
<1>2. DocInv /\ [Next]_vars => [A]_vars
  BY <1>1, NextDocInv
<1> QED
  BY <1>2, InitDocInv, NextDocInv, PTL DEF Spec, ReadOnlyKept

(***************************************************************************)
(* Whatever the schema, the documents and the requests, an immutable value *)
(* that is assigned stays: through every PUT, where the candidate is       *)
(* compared with it, and through every sequence of operations of a PATCH,  *)
(* where only the gates of the operations stand in the way, unless one of  *)
(* them has taken away the complex attribute that it is part of.  What is  *)
(* part of an immutable attribute stays in any case                        *)
(* (characteristics.go immutable, merger.go, target.go overwritable,       *)
(* remover.go).                                                            *)
(***************************************************************************)
THEOREM AssignedOnce == Spec => OnceAssigned
<1> DEFINE A == \A f \in {g \in Fields : ~Attribute(g).complex} :
                   /\ Fixed(f) => Stays(f) \/ (f.sub # NoName /\ Top(f) \in gone)
                   /\ f.sub # NoName /\ Parent(f).mutability = "immutable" /\ ~IsUnassigned(Holder(doc, f))
                        => Stays(f)
<1>1. ASSUME DocStep PROVE A
  <2> SUFFICES ASSUME NEW f \in Fields, ~Attribute(f).complex
               PROVE  /\ Fixed(f) => Stays(f) \/ LostWith(f, gone)
                      /\ f.sub # NoName /\ Parent(f).mutability = "immutable" /\ ~IsUnassigned(Holder(doc, f))
                           => Stays(f)
    BY DEF LostWith
  <2>1. CASE doc' = doc
    BY <2>1, EqualReflexive DEF Stays
  <2>2. CASE doc' # doc
    <3>1. PICK G : Settles(doc, doc', G)
      BY <1>1, <2>2 DEF DocStep
    <3>2. Firm(doc, doc', gone)
      BY <1>1, <2>2 DEF DocStep
    <3> QED
      BY <3>1, <3>2 DEF Settles, Firm, Fixed, Stays
  <2> QED
    BY <2>1, <2>2
<1>2. DocInv /\ [Next]_vars => [A]_vars
  BY <1>1, NextDocInv
<1> QED
  BY <1>2, InitDocInv, NextDocInv, PTL DEF Spec, OnceAssigned
=============================================================================
