---------------------------- MODULE MemoryStore ----------------------------
(***************************************************************************)
(* The in-memory store behind every resource type (internal/memory), with  *)
(* the document encoding that feeds it (pkg/store).  One mutex guards the  *)
(* three maps of Memory, so every operation of the Store interface is one  *)
(* atomic action here.                                                     *)
(***************************************************************************)
EXTENDS ScimSchema

VARIABLES
    entries,      \* Memory.entries, NoEntry where the map has no key
    unique,       \* Memory.unique: (scope, value) to the id that holds it
    inbound,      \* Memory.inbound: for each target, its (source, attribute) edges
    used          \* ids handed out so far: a UUID is never handed out twice

vars == <<entries, unique, inbound, used>>

held(i) == entries[i].kind # None

\* What a client can put in a reference: an id it has seen, or a foreign one.
Known == used \cup Foreign

\* The documents a client can send.
Documents == {doc \in WellFormed : Mentions(doc) \subseteq Known}

-----------------------------------------------------------------------------
(* entries.go: the checks a document's links go through. *)

resolved(links) ==
    [a \in References |-> IF a \in Soft THEN {t \in links[a] : held(t)} ELSE links[a]]

\* The ids that `attribute` leads to from the members of S.
Closed(attribute, S) == \A i \in S : entries[i].links[attribute] \subseteq S

\* There is a path of `attribute` links from one id to the other.
reaches(from, goal, attribute) ==
    \A S \in SUBSET Ids : from \in S /\ Closed(attribute, S) => goal \in S

checkTargets(attribute, targets) ==
    \A t \in targets : IF held(t) THEN entries[t].kind \in Types[attribute]
                                  ELSE attribute \in Soft

\* Mutant: only a link straight back to the source counts as a cycle.
checkAcyclicDirect(source, attribute, targets) == source \notin targets

checkAcyclic(source, attribute, targets) ==
    \A t \in targets : ~reaches(t, source, attribute)

checkLinks(id, before, links) ==
    \A a \in References :
        LET add == links[a] \ before[a]
        IN  /\ checkTargets(a, add)
            /\ a \notin Soft => checkAcyclic(id, a, add)

(* unique_index.go *)

\* Mutant: the holder of a value conflicts with itself.
conflictWithSelf(id, kind, keys) == \E n \in keys : unique[<<kind, n>>] # None

conflict(id, kind, keys) == \E n \in keys : unique[<<kind, n>>] \notin {None, id}

\* Mutant: the keys a resource gives up stay in the index.
reindexedKeepingOld(id, kind, before, keys) ==
    [key \in Kinds \X Names |-> IF key[1] = kind /\ key[2] \in keys THEN id ELSE unique[key]]

reindexed(id, kind, before, keys) ==
    [key \in Kinds \X Names |->
        IF key[1] = kind /\ key[2] \in keys THEN id
        ELSE IF key[1] = kind /\ key[2] \in before THEN None
        ELSE unique[key]]

(* inbound.go *)

\* Mutant: edges that are no longer there stay in the index.
relinkKeepingOld(id, before, after) ==
    [t \in Ids |-> inbound[t] \cup {<<id, a>> : a \in {a \in References : t \in after[a]}}]

relink(id, before, after) ==
    [t \in Ids |-> (inbound[t] \ {<<id, a>> : a \in {a \in References : t \in before[a]}})
                     \cup {<<id, a>> : a \in {a \in References : t \in after[a]}}]

-----------------------------------------------------------------------------
(* clock.go: `at` is what the wall clock says; it may repeat or step back. *)

\* Mutant: two writes within one clock reading get the same version.
bumpedByClock(previous, at) == IF at >= previous THEN at ELSE previous + 1

bumped(previous, at) == IF at > previous THEN at ELSE previous + 1

\* touch: a resource listed n times is bumped n times, at one reading of the clock.
touched(previous, times, at) ==
    IF times = 0 THEN previous ELSE bumped(previous, at) + times - 1

\* Mutant: removed targets are listed, added ones are not.
removedTargets(id, before, links) ==
    Cardinality({a \in References : id \in before[a] /\ id \notin links[a]})

\* How often changedTargets lists an id, and how often allTargets does.
changedTargets(id, before, links) ==
    Cardinality({a \in References : (id \in before[a]) # (id \in links[a])})

allTargets(id, links) == Cardinality({a \in References : id \in links[a]})

-----------------------------------------------------------------------------
(* store.go *)

\* Mutant: the version is not looked at.
locateAnyVersion(id, kind, version) == entries[id].kind = kind

locate(id, kind, version) ==
    /\ entries[id].kind = kind
    /\ version \in {None, entries[id].updated}

verify(id, doc) ==
    IF ~checkLinks(id, entries[id].links, extractLinks(id, doc)) THEN "invalidValue"
    ELSE IF conflict(id, doc.kind, doc.keys) THEN "uniqueness"
    ELSE "ok"

\* The entry save puts in the map.
saved(id, doc, updated) ==
    [kind |-> doc.kind, keys |-> doc.keys, soft |-> keep(doc), data |-> doc.data,
     links |-> resolved(extractLinks(id, doc)), updated |-> updated]

commit(id, doc, next, at) ==
    LET before == entries[id]
        links == extractLinks(id, doc)
        stored == [entries EXCEPT ![id] = next]
    IN  /\ entries' =
             [i \in Ids |->
                IF stored[i].kind = None THEN stored[i]
                ELSE [stored[i] EXCEPT !.updated =
                        touched(@, changedTargets(i, before.links, links), at)]]
        /\ inbound' = relink(id, before.links, next.links)
        /\ unique' = reindexed(id, doc.kind, before.keys, doc.keys)

save(id, doc, updated, at) ==
    /\ verify(id, doc) = "ok"
    /\ commit(id, doc, saved(id, doc, updated), at)

InTime == \A i \in Ids : entries'[i].updated \in Times

Create(id, doc, at) ==
    /\ id \in Ids \ Known
    /\ save(id, doc, at, at)
    /\ used' = used \cup {id}
    /\ InTime

Update(id, doc, version, at) ==
    /\ locate(id, doc.kind, version)
    /\ save(id, doc, bumped(entries[id].updated, at), at)
    /\ UNCHANGED used
    /\ InTime

\* Mutant: the pointer stays in the body.
unlinkLinksOnly(source, target) ==
    [entries[source] EXCEPT !.links = [a \in References |-> @[a] \ {target}]]

\* Mutant: the pointer goes from the body and the links stay.
unlinkBodyOnly(source, target) ==
    [entries[source] EXCEPT !.soft = [a \in Soft |-> @[a] \ {target}]]

\* unlink takes the target out of one source's links, and a soft pointer to it out of its body.
unlink(source, target) ==
    LET e == entries[source]
        edges == {a \in References : <<source, a>> \in inbound[target]}
    IN  [e EXCEPT !.links = [a \in References |-> IF a \in edges THEN @[a] \ {target} ELSE @[a]],
                  !.soft = [a \in Soft |-> IF a \in edges THEN {} ELSE @[a]]]

\* How often detach lists a source.
detached(source, target) ==
    Cardinality({a \in References : <<source, a>> \in inbound[target]})

Delete(id, kind, version, at) ==
    LET current == entries[id]
    IN  /\ locate(id, kind, version)
        /\ entries' =
             [i \in Ids |->
                IF i = id THEN NoEntry
                ELSE IF ~held(i) THEN entries[i]
                ELSE [unlink(i, id) EXCEPT !.updated =
                        touched(@, detached(i, id) + allTargets(i, current.links), at)]]
        /\ inbound' = [relink(id, current.links, NoEntry.links) EXCEPT ![id] = {}]
        /\ unique' = reindexed(id, kind, current.keys, {})
        /\ UNCHANGED used
        /\ InTime

-----------------------------------------------------------------------------
Init ==
    /\ entries = [i \in Ids |-> NoEntry]
    /\ unique = [key \in Kinds \X Names |-> None]
    /\ inbound = [i \in Ids |-> {}]
    /\ used = {}

Next ==
    \/ \E doc \in Documents, id \in Ids, at \in Times :
         \/ Create(id, doc, at)
         \/ \E version \in Times \cup {None} : Update(id, doc, version, at)
    \/ \E id \in Ids, kind \in Kinds, version \in Times \cup {None}, at \in Times :
         Delete(id, kind, version, at)

Spec == Init /\ [][Next]_vars
-----------------------------------------------------------------------------
(* Properties. *)

(***************************************************************************)
(* The maps hold what their Go types allow, a body never holds an id that  *)
(* may still be allotted, and whatever is held was allotted.               *)
(***************************************************************************)
TypeOK ==
    /\ entries \in [Ids -> Entry \cup {NoEntry}]
    /\ unique \in [Kinds \X Names -> Ids \cup {None}]
    /\ inbound \in [Ids -> SUBSET (Ids \X References)]
    /\ used \in SUBSET (Ids \ Foreign)
    /\ \A i \in Ids : held(i) => i \in used
    /\ \A i \in Ids, a \in Soft : entries[i].soft[a] \subseteq Known

(***************************************************************************)
(* The unique index names exactly the holders of unique values: no value   *)
(* has two holders, no live value is missing from the index, and no value  *)
(* stays blocked by a resource that changed or was deleted                 *)
(* (store.go verify, commit and Delete).                                   *)
(***************************************************************************)
UniqueIndexExact ==
    \A kind \in Kinds, n \in Names, i \in Ids :
        unique[<<kind, n>>] = i <=> entries[i].kind = kind /\ n \in entries[i].keys

(***************************************************************************)
(* The inbound index is the exact inverse of the links, so derived groups  *)
(* are right and detach finds every source (inbound.go relink and drop).   *)
(***************************************************************************)
InboundExact ==
    \A s, t \in Ids, a \in References :
        <<s, a>> \in inbound[t] <=> t \in entries[s].links[a]

(***************************************************************************)
(* Referential integrity: a link leads to a held resource of a kind the    *)
(* attribute allows, whatever was deleted since (memory.go detach).        *)
(***************************************************************************)
LinksHeld ==
    \A s \in Ids, a \in References : \A t \in entries[s].links[a] :
        held(t) /\ entries[t].kind \in Types[a]

(***************************************************************************)
(* A soft pointer kept in the body and the link resolved from it agree: it *)
(* is linked exactly when it names another held resource, at every moment  *)
(* and not only when it was written (encode.go softTargets, entries.go     *)
(* resolved), so deleting that resource will find it.                      *)
(***************************************************************************)
PointersResolved ==
    \A s \in Ids, a \in Soft :
        entries[s].links[a] = {t \in entries[s].soft[a] : held(t)} \ {s}

(***************************************************************************)
(* No chain of hard references leads back to where it started, although    *)
(* every write checks only the targets it adds (entries.go checkAcyclic).  *)
(***************************************************************************)
Acyclic ==
    \A s \in Ids, a \in Hard : \A t \in entries[s].links[a] : ~reaches(t, s, a)

-----------------------------------------------------------------------------
(* What a client reads of a resource: its body, its links and what is derived *)
(* from the links of others.                                                  *)
View(i) == <<entries[i].keys, entries[i].soft, entries[i].data, entries[i].links, inbound[i]>>

Survives(i) == held(i) /\ held(i)'

(***************************************************************************)
(* A resource's version moves forward whenever anything it shows changes,  *)
(* even through a write to another resource and even when the wall clock   *)
(* stands still or steps back (clock.go bumped, entries.go touch): a       *)
(* version never stands for two representations.                           *)
(***************************************************************************)
VersionFollowsView ==
    [][\A i \in Ids : Survives(i) =>
          \/ entries'[i].updated > entries[i].updated
          \/ entries'[i].updated = entries[i].updated /\ View(i)' = View(i)]_vars

(***************************************************************************)
(* When a resource is deleted, nothing that stays mentions it any more:    *)
(* neither a body nor a link (memory.go detach and unlink, unlink.go).     *)
(***************************************************************************)
DeletedIsForgotten ==
    [][\A i, s \in Ids :
          held(i) /\ ~held(i)' /\ held(s)' =>
            /\ \A a \in Soft : i \notin entries'[s].soft[a]
            /\ \A a \in References : i \notin entries'[s].links[a]]_vars

(***************************************************************************)
(* The store's inductive invariant.                                        *)
(***************************************************************************)
StoreInv ==
    /\ TypeOK
    /\ UniqueIndexExact
    /\ InboundExact
    /\ LinksHeld
    /\ PointersResolved
    /\ Acyclic
=============================================================================
