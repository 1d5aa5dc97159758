---------------------------- MODULE MCProjection ----------------------------
(* A base schema with one complex attribute filled in by the store and one *)
(* simple attribute, and an extension with a simple one.                   *)
EXTENDS Projection, TLC

GroupMembers == <<"core", "members">>
Label == <<"core", "label">>
Cost == <<"ext", "cost">>

MCAttributes == {GroupMembers, Label, Cost}
MCSubs == [a \in MCAttributes |-> IF a = GroupMembers THEN {"value", "type"} ELSE {}]

MCReferences == {GroupMembers}

Levels(m, v, t, l, c) ==
    GroupMembers :> m @@ Part(GroupMembers, "value") :> v @@ Part(GroupMembers, "type") :> t @@ Label :> l @@ Cost :> c

Extended == {{"core"}, {"core", "ext"}}

MCDefinitions ==
    {d \in [returned : {Levels(m, v, t, l, c) : m, v, l \in Returned, t, c \in {"default", "request"}},
            schemas : Extended] :
        Cardinality(d.schemas) = 1 => d.returned[Cost] = "default"}

(* A complex attribute that is always returned, its parts by default.      *)
MCAlways ==
    {[returned |-> Levels("always", "default", "default", "default", "default"), schemas |-> s] :
        s \in Extended}

MCDocuments(d) ==
    {GroupMembers :> m @@ Label :> l @@ Cost :> c :
        m \in {<<>>, <<{"type"}>>, <<{"type"}, {"type", "value"}>>},
        l \in {<<{}>>}, c \in {<<>>} \cup (IF "ext" \in d.schemas THEN {<<{}>>} ELSE {})}

Names == {<<"core">>, <<"ext">>, Label, Cost, GroupMembers, Part(GroupMembers, "value"), Part(GroupMembers, "type")}
Lists == {l \in SUBSET Names : Cardinality(l) <= 1}
           \cup {{Part(GroupMembers, "value"), n} : n \in Names}

MCQueries ==
    {[included |-> i, excluded |-> Omitted] : i \in Lists \cup {Omitted}}
        \cup {[included |-> Omitted, excluded |-> e] : e \in Lists}
        \cup {[included |-> {Label}, excluded |-> {Cost}]}

MCSpecified == {{}, {GroupMembers}, {Part(GroupMembers, "value"), Label}, {Part(GroupMembers, "type"), Cost}}
=============================================================================
