---------------------------- MODULE ScimRequests ----------------------------
(***************************************************************************)
(* The requests of the SCIM protocol on one resource, and the document a   *)
(* PUT or a PATCH asks for given the one that is stored.                   *)
(***************************************************************************)
EXTENDS ScimSchema

CONSTANT Requests     \* the requests clients may send

(***************************************************************************)
(* What a PATCH asks for: unique values and an immutable value to set (an  *)
(* empty set and None leave them alone), and references to add and remove. *)
(* The engine that turns a list of operations into this is pkg/patch.      *)
(***************************************************************************)
Change == [keys : SUBSET Names, data : Data \cup {None},
           add : [References -> SUBSET Ids], remove : [References -> SUBSET Ids]]

\* `versions` are the entity tags of If-Match, none when the header is absent or "*".
Request ==
    [op : {"get", "delete"}, kind : Kinds, id : Ids, versions : SUBSET Times, body : {None}]
      \cup [op : {"create"}, kind : Kinds, id : {None}, versions : {{}}, body : WellFormed]
      \cup [op : {"replace"}, kind : Kinds, id : Ids, versions : SUBSET Times, body : WellFormed]
      \cup [op : {"patch"}, kind : Kinds, id : Ids, versions : SUBSET Times, body : Change]

ASSUME RequestAssumption ==
    /\ Requests \subseteq Request
    /\ \A r \in Requests : r.op \in {"create", "replace"} => r.body.kind = r.kind
    /\ \A r \in Requests : r.op = "patch" => \A a \in Soft : r.body.add[a] \in Pointers

\* The ids a request mentions.
Mentioned(r) ==
    (IF r.op = "create" THEN {} ELSE {r.id}) \cup
    (CASE r.op \in {"create", "replace"} -> Mentions(r.body)
       [] r.op = "patch" -> UNION {r.body.add[a] \cup r.body.remove[a] : a \in References}
       [] OTHER -> {})

-----------------------------------------------------------------------------
\* PUT: an optional immutable value that the client leaves out is carried over.
Replaced(existing, body) ==
    [body EXCEPT !.data = IF @ = None THEN existing.data ELSE @]

\* PATCH: a single-valued reference is overwritten, a multi-valued one grows and shrinks.
Patched(existing, c) ==
    [existing EXCEPT
        !.keys = IF c.keys = {} THEN @ ELSE c.keys,
        !.data = IF c.data = None THEN @ ELSE c.data,
        !.refs = [a \in References |->
                    IF a \in Soft /\ c.add[a] # {} THEN c.add[a]
                    ELSE (@[a] \ c.remove[a]) \cup c.add[a]]]

Wanted(r, existing) ==
    IF r.op = "patch" THEN Patched(existing, r.body) ELSE Replaced(existing, r.body)

\* immutable: a value once assigned may only be restated.
Immutable(existing, candidate) == existing.data \in {None, candidate.data}
=============================================================================
