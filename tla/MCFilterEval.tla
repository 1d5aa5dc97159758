---------------------------- MODULE MCFilterEval ----------------------------
(* A schema with every type of attribute that matters: singular and        *)
(* multi-valued, simple and complex, hidden itself, by its parent, or in   *)
(* an extension.  Every resource varies in one attribute, and some in two. *)
(*                                                                         *)
(* Beside the evaluation, the reading of texts: a behaviour is of one of   *)
(* the two.  The texts have names that are keywords or begin with one,     *)
(* both orders of "and" and "or", groups in groups, "not" with and without *)
(* a group, a schema URI with a dot in it, and value filters.  Some are as *)
(* long as a text may be.                                                  *)
EXTENDS FilterEval, FilterText, TLC

a == <<97>>
A == <<65>>
AB == <<65, 98>>
ab == <<97, 98>>

\* Two spellings of one instant, and a later one.
noon == <<49, 50, 90>>
noonUTC == <<49, 50, 43>>
later == <<49, 51, 90>>

MCInstant == (noon :> 12) @@ (noonUTC :> 12) @@ (later :> 13)
MCBase64 == {ab}

Number(double, pointed) == [type |-> "number", v |-> <<double, pointed>>]
True == [type |-> "bool", v |-> <<1>>]

Sub(name, type) == [name |-> name, type |-> type, exact |-> FALSE, hidden |-> FALSE]
Exact(sub) == [sub EXCEPT !.exact = TRUE]
Never(sub) == [sub EXCEPT !.hidden = TRUE]

Attribute(subs) == [extension |-> FALSE, multi |-> FALSE, complex |-> TRUE, hidden |-> FALSE, subs |-> subs]
Simple(type) == [Attribute(Self :> Sub(Self, type)) EXCEPT !.complex = FALSE]
Many(d) == [d EXCEPT !.multi = TRUE]

MCDefinition ==
    [title |-> Simple("string"),
     password |-> [Simple("string") EXCEPT !.hidden = TRUE],
     pin |-> [Simple("string") EXCEPT !.hidden = TRUE, !.extension = TRUE],
     emails |-> Many(Attribute([value |-> Sub("value", "string"), type |-> Exact(Sub("type", "string")),
                                primary |-> Sub("primary", "boolean")])),
     tokens |-> [Many(Attribute([value |-> Sub("value", "string")])) EXCEPT !.hidden = TRUE],
     vaults |-> Many(Attribute([value |-> Never(Sub("value", "reference")), rank |-> Sub("rank", "integer")])),
     keys |-> Many(Simple("binary")),
     meta |-> Attribute([lastModified |-> Sub("lastModified", "dateTime"), size |-> Sub("size", "decimal")])]

MCAttributes == DOMAIN MCDefinition

(* What an attribute may hold beside the default.                          *)
One(v) == <<Self :> v>>
Email(value, type, primary) == [value |-> value, type |-> type, primary |-> primary]
Vault(value, rank) == [value |-> value, rank |-> rank]
Meta(time, size) == <<[lastModified |-> time, size |-> size]>>

MCOptions ==
    [title |-> <<One(Text(<<>>)), One(Text(a)), One(Text(A)), One(Text(ab))>>,
     password |-> <<One(Text(a))>>,
     pin |-> <<One(Text(a)), One(Text(ab)), One(Text(AB \o A))>>,
     emails |-> <<<<Email(Text(A), Nil, Nil)>>,
                  <<Email(Text(a), Text(A), True), Email(Text(ab), Text(a), Nil)>>,
                  <<Email(Nil, Text(a), False)>>, <<Email(Nil, Nil, Nil)>>>>,
     tokens |-> <<<<[value |-> Text(a)]>>, <<[value |-> Text(AB)]>>, <<[value |-> Text(ab \o a)]>>>>,
     vaults |-> <<<<Vault(Text(a), Number(2, 0))>>, <<Vault(Text(A), Number(2, 0))>>,
                  <<Vault(Text(AB \o A), Number(2, 0)), Vault(Nil, Number(4, 0))>>, <<Vault(Nil, Number(2, 0))>>>>,
     keys |-> <<<<Self :> Text(ab)>>>>,
     meta |-> <<Meta(Text(noon), Number(2, 0)), Meta(Text(later), Number(3, 1))>>]

Plain ==
    [title |-> One(Nil), password |-> One(Nil), pin |-> One(Nil), emails |-> <<>>,
     tokens |-> <<>>, vaults |-> <<>>, keys |-> <<>>, meta |-> Meta(Nil, Nil)]

Varied(x, resource) == [i \in DOMAIN MCOptions[x] |-> [resource EXCEPT ![x] = MCOptions[x][i]]]

MCHeld ==
    <<Plain>> \o Varied("title", Plain) \o Varied("password", Plain) \o Varied("pin", Plain)
      \o Varied("emails", Plain) \o Varied("tokens", Plain) \o Varied("vaults", Plain) \o Varied("keys", Plain)
      \o Varied("meta", Plain) \o Varied("pin", [Plain EXCEPT !.title = One(Text(a))])

Path(name, sub) == [qualified |-> FALSE, name |-> name, sub |-> sub]
Qualified(path) == [path EXCEPT !.qualified = TRUE]

MCPaths ==
    {Path(x, Self) : x \in MCAttributes} \cup {Path(x, Self) : x \in {"value", "type", "primary", "rank"}}
      \cup {Path("emails", "value"), Path("emails", "type"), Path("emails", "primary"), Path("tokens", "value"),
            Path("vaults", "value"), Path("vaults", "rank"), Path("meta", "lastModified"), Path("meta", "size"),
            Path("title", "value"), Qualified(Path("pin", Self)), Qualified(Path("value", Self)),
            Qualified(Path("emails", "type"))}

MCLiterals ==
    {Nil, Text(<<>>), Text(a), Text(A), Text(noonUTC), True, Number(2, 0), Number(2, 1)}

-----------------------------------------------------------------------------
name == <<"x">>
urn == <<"x", ":", "7", ".", "7", ":">>
IsPresent(path) == path \o <<" ", "pr">>
IsEqual(path, value) == path \o <<" ", "eq", " ", value>>
Joined(left, op, right) == left \o <<" ", op, " ">> \o right
Grouped(t) == <<"(">> \o t \o <<")">>
Negated(t) == <<"not">> \o Grouped(t)
Selected(t) == name \o <<"[">> \o t \o <<"]">>

Basic == {IsPresent(name), IsEqual(name, "s")}
Tricky == {IsPresent(<<"not">>), IsPresent(<<"not", "x">>), IsEqual(<<"and">>, "7"),
        IsPresent(<<"x", ".", "or">>), IsEqual(urn \o <<"x", ".", "pr">>, "null")}
Pairs == {Joined(l, op, IsPresent(name)) : l \in Basic \cup Tricky, op \in {"and", "or"}}
Triples == {Joined(IsPresent(name), op, Joined(IsPresent(name), next, IsPresent(name))) :
              op \in {"and", "or"}, next \in {"and", "or"}}
Groups == {Grouped(t) : t \in Pairs} \cup {Negated(t) : t \in Basic}
            \cup {Joined(Grouped(IsPresent(name)), op, Negated(Grouped(IsPresent(name)))) : op \in {"and", "or"}}
            \cup {Grouped(Grouped(Joined(Grouped(Grouped(IsPresent(name))), "or", IsPresent(name))))}
TextPaths == {name, name \o <<".", "x">>, urn \o name, Selected(IsPresent(name)) \o <<".", "x">>}
           \cup {Selected(t) : t \in Basic \cup {Negated(IsPresent(name)), Joined(IsPresent(name), "or", IsPresent(name))}}

MCTexts == Basic \cup Tricky \cup Pairs \cup Triples \cup Groups \cup TextPaths
MCFragments == {" ", "(", ")", "[", "]", ".", ":", "not", "and", "or", "pr", "eq",
                "x", "7", "null", "s", "bad"}

VARIABLE of   \* what the behaviour is of

\* A filter that was refused.
NoFilterIsWalked ==
    /\ inURI = FALSE
    /\ scope = NoScope /\ mark = 0
    /\ stack = <<[store |-> {}, patch |-> {}]>> /\ nodes = 1
    /\ refused = TRUE /\ denied = TRUE

MCInit ==
    \/ of = "filter" /\ Init /\ text = <<>> /\ edits = 0
    \/ of = "text" /\ TextInit /\ NoFilterIsWalked

MCNext ==
    /\ \/ of = "filter" /\ Next /\ UNCHANGED textVars
       \/ of = "text" /\ TextNext /\ UNCHANGED vars
    /\ UNCHANGED of

MCSpec == MCInit /\ [][MCNext]_<<vars, textVars, of>>
=============================================================================
