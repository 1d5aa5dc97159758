--------------------------- MODULE MCScimService ---------------------------
(***************************************************************************)
(* Concurrent requests over Users and Groups, with the schemas of          *)
(* MCMemoryStore.                                                          *)
(***************************************************************************)
EXTENDS ScimService, TLC

MCKinds == {"User", "Group"}
MCReferences == {"members", "manager"}
MCSoft == {"manager"}
MCHolder == [a \in MCReferences |-> IF a = "members" THEN "Group" ELSE "User"]
MCTypes == [a \in MCReferences |-> IF a = "members" THEN {"User", "Group"} ELSE {"User"}]
MCKeys == [k \in MCKinds |-> IF k = "User" THEN {{n} : n \in Names} ELSE {{}}]
MCReadings == {0}

NoRefs == [a \in MCReferences |-> {}]

User(n, d, boss) ==
    [kind |-> "User", keys |-> {n}, data |-> d, refs |-> [NoRefs EXCEPT !["manager"] = boss]]
Group(members) ==
    [kind |-> "Group", keys |-> {}, data |-> None, refs |-> [NoRefs EXCEPT !["members"] = members]]

Nothing == [keys |-> {}, data |-> None, add |-> NoRefs, remove |-> NoRefs]

Ask(op, kind, id, versions, body) ==
    [op |-> op, kind |-> kind, id |-> id, versions |-> versions, body |-> body]

\* No If-Match, or one version that a resource can have had.
Conditions == {{}, {0}, {1}}

MCRequests ==
    {Ask("create", "User", None, {}, User(n, None, {})) : n \in Names}
      \cup {Ask("create", "Group", None, {}, Group({}))}
      \cup {Ask("replace", "User", i, {}, User(n, None, {j})) : i \in Ids, j \in Ids, n \in Names}
      \cup {Ask("patch", "User", i, v, [Nothing EXCEPT !.keys = {n}]) :
              i \in Ids, v \in Conditions, n \in Names}
      \cup {Ask("patch", "User", i, {}, [Nothing EXCEPT !.add["manager"] = {j}]) :
              i \in Ids, j \in Ids}
      \cup {Ask("patch", "Group", i, {}, [Nothing EXCEPT !.add["members"] = {j}]) :
              i \in Ids, j \in Ids}
      \cup {Ask("patch", "Group", i, {}, [Nothing EXCEPT !.remove["members"] = {j}]) :
              i \in Ids, j \in Ids}
      \cup {Ask("delete", k, i, v, None) : k \in MCKinds, i \in Ids, v \in Conditions}
      \cup {Ask("get", "User", i, {}, None) : i \in Ids}

\* Writers that race to assign an immutable value.
ImmutableRequests ==
    {Ask("create", "User", None, {}, User(n, d, {})) : n \in Names, d \in Data \cup {None}}
      \cup {Ask("replace", "User", i, v, User(n, d, {})) :
              i \in Ids, v \in Conditions, n \in Names, d \in Data \cup {None}}
      \cup {Ask("patch", "User", i, v, [Nothing EXCEPT !.data = d]) :
              i \in Ids, v \in Conditions, d \in Data}
      \cup {Ask("delete", "User", i, {}, None) : i \in Ids}

Symmetry == Permutations(Ids) \cup Permutations(Names) \cup Permutations(Callers)
=============================================================================
