----------------------------- MODULE AtomicScim -----------------------------
(***************************************************************************)
(* What a SCIM server promises its clients, whatever runs concurrently:    *)
(* every request takes effect at one instant between its arrival and its   *)
(* answer, against the resources as they are at that instant, or has no    *)
(* effect at all.  There are no indexes, locks, reads or retries here: a   *)
(* write is accepted exactly when the resources that would result respect  *)
(* uniqueness, referential integrity and acyclicity, and it moves forward  *)
(* the version of exactly the resources that show something new.           *)
(***************************************************************************)
EXTENDS ScimRequests

CONSTANT Callers

VARIABLES
    resources,    \* the resources, NoEntry for an id that has none
    allotted,     \* ids that have ever had one
    pending       \* per caller: its request and its answer

atomicVars == <<resources, allotted, pending>>

present(i) == resources[i].kind # None

(***************************************************************************)
(* What a client is shown of a resource: its document, the links that lead *)
(* to it, and its version.                                                 *)
(***************************************************************************)
Derived(rs, i) == {edge \in Ids \X References : i \in rs[edge[1]].links[edge[2]]}

Shown(rs, i) == [doc |-> Into(rs[i]), derived |-> Derived(rs, i), version |-> rs[i].updated]

-----------------------------------------------------------------------------
(* When a document may become resource `id`. *)

Clashes(id, doc) ==
    \E j \in Ids \ {id} : resources[j].kind = doc.kind /\ resources[j].keys \cap doc.keys # {}

Targets(id, doc) ==
    [a \in References |-> IF a \in Soft THEN {t \in doc.refs[a] \ {id} : present(t)} ELSE doc.refs[a]]

Leads(links, a, from, goal) ==
    \A S \in SUBSET Ids : (from \in S /\ \A i \in S : links[i][a] \subseteq S) => goal \in S

Dangling(id, doc) ==
    \E a \in References : \E t \in Targets(id, doc)[a] :
        ~(present(t) /\ resources[t].kind \in Types[a])

Circular(id, doc) ==
    LET links == [[i \in Ids |-> resources[i].links] EXCEPT ![id] = Targets(id, doc)]
    IN  \E a \in Hard, i \in Ids : \E t \in links[i][a] : Leads(links, a, t, i)

Invalid(id, doc) == Dangling(id, doc) \/ Circular(id, doc)

-----------------------------------------------------------------------------
(* The version of each resource other than the ones in `written` moves     *)
(* forward exactly when what the resource shows changes.                   *)
VersionsFollow(written) ==
    \A i \in Ids \ written :
        present(i) =>
            IF /\ Into(resources'[i]) = Into(resources[i])
               /\ Derived(resources', i) = Derived(resources, i)
            THEN resources'[i].updated = resources[i].updated
            ELSE resources'[i].updated > resources[i].updated

SameButVersion(i, e) == [resources'[i] EXCEPT !.updated = 0] = [e EXCEPT !.updated = 0]

Written(id, doc) ==
    /\ SameButVersion(id, [kind |-> doc.kind, keys |-> doc.keys, soft |-> keep(doc),
                           data |-> doc.data, links |-> Targets(id, doc), updated |-> 0])
    /\ present(id) => resources'[id].updated > resources[id].updated
    /\ \A i \in Ids \ {id} : SameButVersion(i, resources[i])
    /\ VersionsFollow({id})

Erased(id) ==
    /\ resources'[id] = NoEntry
    /\ \A i \in Ids \ {id} :
         SameButVersion(i, [resources[i] EXCEPT
            !.links = [a \in References |-> @[a] \ {id}],
            !.soft = [a \in Soft |-> @[a] \ {id}]])
    /\ VersionsFollow({id})

-----------------------------------------------------------------------------
NoCall == [phase |-> "idle", req |-> None, status |-> None, result |-> None]

Resolve(p, phase, status, result) ==
    pending' = [pending EXCEPT ![p].phase = phase, ![p].status = status, ![p].result = result]

Invoke(p, r) ==
    /\ pending[p].phase \in {"idle", "answered"}
    /\ pending' = [pending EXCEPT ![p] = [NoCall EXCEPT !.phase = "pending", !.req = r]]
    /\ UNCHANGED <<resources, allotted>>

\* Is the target there, and does its version satisfy If-Match?
Addressed(r) == resources[r.id].kind = r.kind

Matches(r) == Addressed(r) /\ (r.versions = {} \/ resources[r.id].updated \in r.versions)

Observe(p) ==
    LET r == pending[p].req
    IN  /\ pending[p].phase = "pending" /\ r.op = "get"
        /\ Addressed(r)
        /\ Resolve(p, "answered", "ok", Shown(resources, r.id))
        /\ UNCHANGED <<resources, allotted>>

Install(p) ==
    LET r == pending[p].req
    IN  /\ pending[p].phase = "pending" /\ r.op = "create"
        /\ \E id \in Ids \ (allotted \cup Foreign) :
             /\ ~Clashes(id, r.body) /\ ~Invalid(id, r.body)
             /\ Written(id, r.body)
             /\ allotted' = allotted \cup {id}
             /\ Resolve(p, "performed", "ok", Shown(resources', id))

Rewrite(p) ==
    LET r == pending[p].req
        doc == Wanted(r, Into(resources[r.id]))
    IN  /\ pending[p].phase = "pending" /\ r.op \in {"replace", "patch"}
        /\ Matches(r)
        /\ Immutable(Into(resources[r.id]), doc)
        /\ ~Clashes(r.id, doc) /\ ~Invalid(r.id, doc)
        /\ Written(r.id, doc)
        /\ Resolve(p, "performed", "ok", Shown(resources', r.id))
        /\ UNCHANGED allotted

\* A PATCH that asks for what is already there does not make a new version.
Leave(p) ==
    LET r == pending[p].req
    IN  /\ pending[p].phase = "pending" /\ r.op = "patch"
        /\ Matches(r)
        /\ Wanted(r, Into(resources[r.id])) = Into(resources[r.id])
        /\ Resolve(p, "performed", "ok", Shown(resources, r.id))
        /\ UNCHANGED <<resources, allotted>>

Erase(p) ==
    LET r == pending[p].req
    IN  /\ pending[p].phase = "pending" /\ r.op = "delete"
        /\ Matches(r)
        /\ Erased(r.id)
        /\ Resolve(p, "performed", "ok", None)
        /\ UNCHANGED allotted

\* The resource and document a write is about.
Attempts(r) ==
    IF r.op = "create" THEN {<<i, r.body>> : i \in Ids \ (allotted \cup Foreign)}
    ELSE {<<r.id, Wanted(r, Into(resources[r.id]))>>}

(***************************************************************************)
(* A refusal has no effect, and its status is true at that instant.  A     *)
(* write that was overtaken may be told so: preconditionFailed when the    *)
(* client named a version, changed when it did not.                        *)
(***************************************************************************)
Refuse(p, status) ==
    LET r == pending[p].req
        writes == r.op \in {"create", "replace", "patch"}
        reached == r.op = "create" \/ Matches(r)
    IN  /\ pending[p].phase = "pending"
        /\ CASE status = "notFound" -> r.op # "create" /\ ~Addressed(r)
             [] status = "preconditionFailed" -> r.op \notin {"create", "get"} /\ r.versions # {}
             [] status = "changed" -> r.op \in {"replace", "patch"} /\ r.versions = {}
             [] status = "mutability" ->
                  /\ r.op \in {"replace", "patch"} /\ Matches(r)
                  /\ \E w \in Attempts(r) : ~Immutable(Into(resources[r.id]), w[2])
             [] status = "uniqueness" ->
                  writes /\ reached /\ \E w \in Attempts(r) : Clashes(w[1], w[2])
             [] status = "invalidValue" ->
                  writes /\ reached /\ \E w \in Attempts(r) : Invalid(w[1], w[2])
             [] status = "rejected" -> writes
             [] OTHER -> status = "hookFailed" /\ r.op # "get"
        /\ Resolve(p, "answered", status, None)
        /\ UNCHANGED <<resources, allotted>>

\* The answer to a request that took effect; an After hook may still turn it into an error.
Reply(p) ==
    /\ pending[p].phase = "performed"
    /\ \/ Resolve(p, "answered", "ok", pending[p].result)
       \/ Resolve(p, "answered", "hookFailed", None)
    /\ UNCHANGED <<resources, allotted>>

Refusals == {"notFound", "preconditionFailed", "changed", "mutability", "uniqueness",
             "invalidValue", "rejected", "hookFailed"}

AtomicInit ==
    /\ resources = [i \in Ids |-> NoEntry]
    /\ allotted = {}
    /\ pending = [p \in Callers |-> NoCall]

AtomicNext ==
    \E p \in Callers :
        \/ \E r \in Requests : Invoke(p, r)
        \/ Observe(p) \/ Install(p) \/ Rewrite(p) \/ Leave(p) \/ Erase(p)
        \/ \E status \in Refusals : Refuse(p, status)
        \/ Reply(p)

AtomicSpec == AtomicInit /\ [][AtomicNext]_atomicVars
=============================================================================
