----------------------------- MODULE MCDocument -----------------------------
(***************************************************************************)
(* A schema with an attribute of each kind that the rules tell apart: one  *)
(* that only the server assigns, one that is assigned once, a complex one  *)
(* with sub-attributes of both kinds, an immutable complex one of which a  *)
(* part is required, a list, and an extension.                             *)
(*                                                                         *)
(* The stored documents, bodies and operations are chosen so that every    *)
(* gate is met with a value that it must stop and one that it must let     *)
(* through: an equal value in another case, null, "", a value of the wrong *)
(* type, names in another case, a name given twice, undeclared names, and  *)
(* keys that name one attribute in two ways.                               *)
(***************************************************************************)
EXTENDS Document

Simple == [permissiveAttr EXCEPT !.mutability = "readWrite"]
With(subs) == [Simple EXCEPT !.complex = TRUE, !.subs = subs]
ReadOnly(a) == [a EXCEPT !.mutability = "readOnly"]
Immutable(a) == [a EXCEPT !.mutability = "immutable"]
Many == [Simple EXCEPT !.multi = TRUE]

a == Text("a", "lower")
A == Text("a", "upper")
b == Text("b", "lower")
empty == Text("", "lower")

MCBase ==
    [origin |-> ReadOnly(Simple),
     key |-> Immutable(Simple),
     name |-> With([given |-> [Simple EXCEPT !.canonical = {a}], full |-> ReadOnly(Simple),
                    born |-> Immutable(Simple)]),
     place |-> Immutable(With([city |-> [Simple EXCEPT !.required = TRUE], country |-> Simple])),
     tags |-> Many]

MCExtension == [tags |-> Many, dept |-> Simple, badge |-> Immutable(Simple), site |-> With([zip |-> Simple])]

At(name) == Path("", Exact(name), NoName)
Sub(name, sub) == Path("", Exact(name), Exact(sub))
OfExt(name) == Path(ExtURI, Exact(name), NoName)
Other(path) == [path EXCEPT !.name[2] = "other", !.sub[2] = IF path.sub = NoName THEN "exact" ELSE "other"]

\* Objects: a sequence of pairs of a name and a value.
Of(pairs) == [n \in {Exact(pairs[i][1]) : i \in DOMAIN pairs} |->
                (CHOOSE p \in Range(pairs) : p[1] = n[1])[2]]
Nested(pairs) == Obj(Of(pairs))

-----------------------------------------------------------------------------
Unnamed == <<<<"name", Nested(<<>>)>>>>
Names == {<<>>, Unnamed, <<<<"name", Nested(<<<<"given", a>>, <<"full", a>>, <<"born", a>>>>)>>>>}
Places == {<<>>, <<<<"place", Nested(<<<<"city", a>>>>)>>>>}
Exts == {<<>>, <<<<ExtURI, Nested(<<>>)>>>>, <<<<ExtURI, Nested(<<<<"tags", List({a, b})>>>>)>>>>,
         <<<<ExtURI, Nested(<<<<"dept", a>>, <<"badge", a>>>>)>>>>}
Keys == {<<>>, <<<<"key", a>>, <<"tags", List({a, b})>>>>}

Sites == {<<<<ExtURI, Nested(<<<<"site", Nested(s)>>>> \o t)>>>> : s \in {<<>>, <<<<"zip", a>>>>}, t \in {<<>>, <<<<"tags", List({a})>>>>}}

MCStored ==
    {Of(<<<<"origin", a>>>> \o k \o n \o p \o x) : k \in Keys, n \in Names \ {Unnamed}, p \in Places, x \in Exts}
      \cup {Of(<<<<"origin", a>>>> \o x) : x \in Sites}

\* Those that list the extension exactly when they hold data of it.
MCWellListed == {d \in MCStored : ExtURI \in stampSchemas(d) <=> HoldsData(d)}

MCBodies ==
    {Of(k \o n \o p \o x) : k \in {<<<<"key", A>>>>, <<<<"key", b>>>>}, n \in Names, p \in Places, x \in Exts}
      \cup {Of(<<<<"origin", b>>>>), Of(<<<<"name", Null>>>>), Of(<<<<"name", a>>>>), Of(<<<<"junk", a>>>>),
            Of(<<<<"name", Nested(<<<<"given", b>>>>)>>>>), Of(<<<<ExtURI, a>>>>),
            Of(<<<<ExtURI, Nested(<<<<"junk", a>>, <<"dept", Null>>>>)>>>>),
            Of(<<<<ExtURI, Nested(<<<<"site", Nested(<<<<"junk", a>>>>)>>>>)>>>>),
            Of(<<<<"place", Nested(<<<<"city", a>>, <<"junk", b>>>>)>>>>),
            (<<"key", "other">> :> a) @@ Of(<<<<"key", b>>>>)}

Op(op, path, value) == [op |-> op, pathless |-> FALSE, path |-> path, value |-> value, selected |-> {}]

Leaves == {At("origin"), At("key"), Other(At("key")), Sub("name", "given"), Sub("name", "full"), Sub("name", "born"),
           Sub("place", "city"), Other(Sub("place", "country")),
           OfExt("dept"), OfExt("badge"), [OfExt("site") EXCEPT !.sub = Exact("zip")]}
Wholes == {At("name"), At("place"), OfExt("site")}
Lists == {At("tags"), OfExt("tags")}

Writes == {Op("replace", p, v) : p \in Leaves, v \in {A, b, Null}}
            \cup {Op("add", p, Obj(v)) : p \in Wholes,
                   v \in {Of(<<>>), Of(<<<<"given", a>>, <<"full", b>>>>), Of(<<<<"born", b>>>>),
                          Of(<<<<"city", b>>, <<"country", a>>>>), <<"city", "other">> :> A}}
            \cup {Op("replace", p, v) : p \in Wholes, v \in {Null, a}}
            \cup {Op("replace", Sub("name", "given"), v) : v \in {empty, Number}}
            \cup {Op(kind, p, v) : kind \in {"add", "replace"}, p \in Lists, v \in {b, List({})}}
            \cup {Op("replace", Path("", Exact("junk"), NoName), a)}
Removals == {Op("remove", p, Null) : p \in Leaves \cup Wholes \cup Lists}
Drops == {[Op("drop", p, Null) EXCEPT !.selected = s] : p \in Lists, s \in {{a}, {a, b}}}

Merge(op, values) == [op |-> op, pathless |-> TRUE, path |-> At("origin"), value |-> values, selected |-> {}]
Schema(uri) == Path(uri, NoName, NoName)
MCMerges ==
    {(At("origin") :> a) @@ (At("key") :> A) @@ (At("name") :> Nested(<<<<"given", a>>>>)),
     (At("name") :> Null) @@ (Sub("name", "given") :> a),
     (At("schemas") :> a) @@ (Sub("name", "given") :> Null) @@ (Sub("place", "city") :> a),
     (OfExt("dept") :> Null) @@ (OfExt("badge") :> a) @@ (At("key") :> b) @@ (At("tags") :> b),
     (Schema(ExtURI) :> Nested(<<<<"dept", b>>, <<"badge", a>>>>)) @@ (At("place") :> Null),
     (Schema(ExtURI) :> Nested(<<<<"dept", Null>>>>)) @@ (OfExt("dept") :> a),
     (Schema(BaseURI) :> Nested(<<<<"key", a>>, <<"origin", a>>>>))}

MCOperations == Writes \cup Removals \cup Drops \cup {Merge(op, v) : op \in {"add"}, v \in MCMerges}
=============================================================================
