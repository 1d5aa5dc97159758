---------------------------- MODULE ScimService ----------------------------
(***************************************************************************)
(* Requests served concurrently over the in-memory store: the service, the *)
(* repository and the hooks of pkg/server.  A request is several steps,    *)
(* and the store's mutex is released between them:                         *)
(*                                                                         *)
(*   Begin -> BeforeHook -> ReadCurrent -> Persist -> AfterHook            *)
(*                                            |                            *)
(*                                            +-> Mismatch (a second Find) *)
(*                                                                         *)
(* Each member of Callers serves one request at a time.                    *)
(***************************************************************************)
EXTENDS MemoryStore, ScimRequests

CONSTANTS
    Callers,      \* goroutines serving requests
    Readings,     \* bound: what the wall clock can say
    MaxCalls      \* bound: how many requests are served in all

\* What Find and save return: a document, what is derived from inbound links, a version.
Record == [doc : Document, derived : SUBSET (Ids \X References), version : Times]

Statuses == {"ok", "notFound", "preconditionFailed", "changed", "mutability", "uniqueness",
             "invalidValue", "rejected", "hookFailed"}

ASSUME ServiceAssumption ==
    /\ Readings \subseteq Times
    /\ MaxCalls \in Nat
    /\ None \notin Record \cup Statuses

VARIABLES
    calls,        \* per caller: where it is, its request, what it read, its answer
    begun         \* requests begun so far

serviceVars == <<vars, calls, begun>>

Steps == {"idle", "before", "read", "persist", "mismatch", "after", "done"}

Idle == [step |-> "idle", req |-> None, id |-> None, seen |-> None, status |-> None]

\* The record of an entry.
record(id, e, in) == [doc |-> Into(e), derived |-> in[id], version |-> e.updated]

-----------------------------------------------------------------------------
Goto(p, step) == calls' = [calls EXCEPT ![p].step = step]

Answer(p, status) == calls' = [calls EXCEPT ![p].step = "done", ![p].status = status]

\* UUIDs do not run out: a create begins only while an id is left for it.
Allottable ==
    Cardinality({p \in Callers : calls[p].step \in {"before", "read", "persist"}
                                   /\ calls[p].req.op = "create"})
      < Cardinality(Ids \ Known)

Begin(p, r) ==
    /\ calls[p].step \in {"idle", "done"}
    /\ begun < MaxCalls
    /\ Mentioned(r) \subseteq Known
    /\ r.op = "create" => Allottable
    /\ begun' = begun + 1
    /\ calls' = [calls EXCEPT ![p] =
                   [Idle EXCEPT !.step = IF r.op = "get" THEN "read" ELSE "before",
                                !.req = r, !.id = r.id]]
    /\ UNCHANGED vars

\* hooks.go: a Before hook that fails ends the request.
BeforeHook(p) ==
    /\ calls[p].step = "before"
    /\ Goto(p, "read") \/ Answer(p, "hookFailed")
    /\ UNCHANGED <<vars, begun>>

\* service.Create: the document is admitted, or refused by a characteristic or a validator.
AdmitCreate(p) ==
    /\ calls[p].step = "read" /\ calls[p].req.op = "create"
    /\ Goto(p, "persist") \/ Answer(p, "rejected")
    /\ UNCHANGED <<vars, begun>>

\* Get: one Find.
Get(p) ==
    LET r == calls[p].req
    IN  /\ calls[p].step = "read" /\ r.op = "get"
        /\ IF entries[r.id].kind = r.kind
           THEN calls' = [calls EXCEPT ![p].step = "done", ![p].status = "ok",
                                       ![p].seen = record(r.id, entries[r.id], inbound)]
           ELSE Answer(p, "notFound")
        /\ UNCHANGED <<vars, begun>>

(***************************************************************************)
(* current, then the part of write up to the repository call: the read,    *)
(* the If-Match check, the new document computed from what was read, and   *)
(* admit.  A PATCH that changes nothing succeeds here.                     *)
(***************************************************************************)
ReadCurrent(p) ==
    LET r == calls[p].req
        current == record(r.id, entries[r.id], inbound)
        next == Wanted(r, current.doc)
        found == [calls EXCEPT ![p].seen = current]
    IN  /\ calls[p].step = "read" /\ r.op \in {"replace", "patch", "delete"}
        /\ IF entries[r.id].kind # r.kind THEN Answer(p, "notFound")
           ELSE IF r.versions # {} /\ current.version \notin r.versions
             THEN Answer(p, "preconditionFailed")
           ELSE IF r.op = "delete" THEN calls' = [found EXCEPT ![p].step = "persist"]
           ELSE \/ Answer(p, "rejected")
                \/ /\ ~Immutable(current.doc, next)
                   /\ Answer(p, "mutability")
                \/ /\ r.op = "patch" /\ next = current.doc
                   /\ calls' = [found EXCEPT ![p].step = "after", ![p].status = "ok"]
                \/ /\ Immutable(current.doc, next)
                   /\ ~(r.op = "patch" /\ next = current.doc)
                   /\ calls' = [found EXCEPT ![p].step = "persist"]
        /\ UNCHANGED <<vars, begun>>

-----------------------------------------------------------------------------
\* repository.Create and the store's Create: a fresh id, then the store's checks.
PersistCreate(p, at) ==
    LET r == calls[p].req
    IN  /\ calls[p].step = "persist" /\ r.op = "create"
        /\ \E id \in Ids \ Known :
             \/ /\ verify(id, r.body) # "ok"
                /\ Answer(p, verify(id, r.body))
                /\ UNCHANGED vars
             \/ /\ Create(id, r.body, at)
                /\ calls' = [calls EXCEPT
                     ![p].step = "after", ![p].status = "ok", ![p].id = id,
                     ![p].seen = record(id, saved(id, r.body, at), inbound')]
        /\ UNCHANGED begun

\* repository.Update under the version that was read.
PersistUpdate(p, at) ==
    LET r == calls[p].req
        current == calls[p].seen
        doc == Wanted(r, current.doc)
        updated == bumped(entries[r.id].updated, at)
    IN  /\ calls[p].step = "persist" /\ r.op \in {"replace", "patch"}
        /\ \/ /\ ~locate(r.id, r.kind, current.version)
              /\ Goto(p, "mismatch")
              /\ UNCHANGED vars
           \/ /\ locate(r.id, r.kind, current.version)
              /\ verify(r.id, doc) # "ok"
              /\ Answer(p, verify(r.id, doc))
              /\ UNCHANGED vars
           \/ /\ Update(r.id, doc, current.version, at)
              /\ calls' = [calls EXCEPT
                   ![p].step = "after", ![p].status = "ok",
                   ![p].seen = record(r.id, saved(r.id, doc, updated), inbound')]
        /\ UNCHANGED begun

\* Mutant: the version checked at the read is not checked again at the delete.
DeleteUnconditionally(p) == None

\* repository.Delete: unconditional when the request had no If-Match.
DeleteVersion(p) == IF calls[p].req.versions = {} THEN None ELSE calls[p].seen.version

PersistDelete(p, at) ==
    LET r == calls[p].req
    IN  /\ calls[p].step = "persist" /\ r.op = "delete"
        /\ \/ /\ ~locate(r.id, r.kind, DeleteVersion(p))
              /\ Goto(p, "mismatch")
              /\ UNCHANGED vars
           \/ /\ Delete(r.id, r.kind, DeleteVersion(p), at)
              /\ calls' = [calls EXCEPT ![p].step = "after", ![p].status = "ok"]
        /\ UNCHANGED begun

\* Mutant: a 412 is not turned into a 409.
MismatchAlways412(p) ==
    /\ calls[p].step = "mismatch"
    /\ Answer(p, IF entries[calls[p].id].kind # calls[p].req.kind THEN "notFound"
                 ELSE "preconditionFailed")
    /\ UNCHANGED <<vars, begun>>

\* Mutant: the write is tried again with the version that was refused.
MismatchRetries(p) ==
    /\ calls[p].step = "mismatch"
    /\ Goto(p, "persist")
    /\ UNCHANGED <<vars, begun>>

\* repository.mismatch: a second Find tells a deleted resource from a changed one, and
\* conflict turns the 412 of a PUT or PATCH without If-Match into a 409.
Mismatch(p) ==
    LET r == calls[p].req
    IN  /\ calls[p].step = "mismatch"
        /\ Answer(p, IF entries[r.id].kind # r.kind THEN "notFound"
                     ELSE IF r.versions = {} /\ r.op # "delete" THEN "changed"
                     ELSE "preconditionFailed")
        /\ UNCHANGED <<vars, begun>>

\* hooks.go: an After hook that fails turns the answer into an error, after the fact.
AfterHook(p) ==
    /\ calls[p].step = "after"
    /\ Answer(p, "ok") \/ Answer(p, "hookFailed")
    /\ UNCHANGED <<vars, begun>>

-----------------------------------------------------------------------------
ServiceInit ==
    /\ Init
    /\ calls = [p \in Callers |-> Idle]
    /\ begun = 0

Serve(p) ==
    \/ BeforeHook(p) \/ AdmitCreate(p) \/ Get(p) \/ ReadCurrent(p)
    \/ \E at \in Readings : PersistCreate(p, at) \/ PersistUpdate(p, at) \/ PersistDelete(p, at)
    \/ Mismatch(p) \/ AfterHook(p)

ServiceNext ==
    \E p \in Callers : Serve(p) \/ \E r \in Requests : Begin(p, r)

ServiceSpec == ServiceInit /\ [][ServiceNext]_serviceVars

\* A goroutine that has begun a request runs it to its end; clients need not send any.
FairServiceSpec == ServiceSpec /\ \A p \in Callers : WF_serviceVars(Serve(p))

-----------------------------------------------------------------------------
(* Properties. *)

(***************************************************************************)
(* An entity tag stands for one representation for ever: while a resource  *)
(* still has the version some caller was given with a read or a write,     *)
(* it shows exactly what that caller was given, groups included            *)
(* (record in memory.go, touch in entries.go).                             *)
(***************************************************************************)
TagIdentifiesRepresentation ==
    \A p \in Callers :
        LET c == calls[p]
        IN  c.seen # None /\ held(c.id) /\ entries[c.id].updated = c.seen.version
              => c.seen = record(c.id, entries[c.id], inbound)

(***************************************************************************)
(* No lost update: a PUT or PATCH that persists replaces exactly the       *)
(* representation it was computed from, although the lock was released     *)
(* after the read (service.go write, repository.go Update).                *)
(***************************************************************************)
NoLostUpdate ==
    [][\A p \in Callers :
          calls[p].step = "persist" /\ calls[p].req.op \in {"replace", "patch"}
            /\ calls'[p].step = "after"
          => calls[p].seen = record(calls[p].id, entries[calls[p].id], inbound)]_serviceVars

(***************************************************************************)
(* An immutable value, once assigned, never changes while the resource     *)
(* lives, although each writer checks it against an earlier read           *)
(* (characteristics.go immutable, called before the repository).           *)
(***************************************************************************)
ImmutableKept ==
    [][\A i \in Ids : Survives(i) /\ entries[i].data # None
                        => entries'[i].data = entries[i].data]_vars

(***************************************************************************)
(* If-Match is honoured at the write, not only at the read: what a         *)
(* conditional request overwrites or deletes has a version it named.       *)
(***************************************************************************)
IfMatchHonoured ==
    [][\A p \in Callers :
          calls[p].step = "persist" /\ calls'[p].step = "after" /\ calls[p].req.versions # {}
          => entries[calls[p].id].updated \in calls[p].req.versions]_serviceVars

(***************************************************************************)
(* A conflict answer is true and fits the request: a caller that was       *)
(* refused after its read has really been overtaken, only a conditional    *)
(* request is told its precondition failed, and only an unconditional      *)
(* write is told the resource changed (repository.go mismatch, service.go  *)
(* conflict).                                                              *)
(***************************************************************************)
ConflictsAreReal ==
    \A p \in Callers :
        LET c == calls[p]
        IN  c.step = "done" /\ c.status \in {"preconditionFailed", "changed"} =>
              /\ (c.status = "preconditionFailed") <=> (c.req.versions # {})
              /\ c.seen # None => ~held(c.id) \/ entries[c.id].updated > c.seen.version

(***************************************************************************)
(* Every request that begins is answered.                                  *)
(***************************************************************************)
Answered ==
    \A p \in Callers : calls[p].step \notin {"idle", "done"} ~> calls[p].step = "done"

-----------------------------------------------------------------------------
(* The service implements the atomic specification: a request is performed *)
(* when the store commits it (or when a PATCH without effect reads), and a  *)
(* refusal happens at the step that decides it.                            *)
Phase(step) ==
    CASE step = "idle" -> "idle"
      [] step = "after" -> "performed"
      [] step = "done" -> "answered"
      [] OTHER -> "pending"

Result(c) ==
    IF c.status = "ok" /\ c.req.op # "delete" THEN c.seen ELSE None

Atomic == INSTANCE AtomicScim WITH
    resources <- entries,
    allotted <- used,
    pending <- [p \in Callers |->
                  [phase |-> Phase(calls[p].step), req |-> calls[p].req,
                   status |-> calls[p].status, result |-> Result(calls[p])]]

(***************************************************************************)
(* Every request takes effect at one instant, against the resources as     *)
(* they are then, or not at all; and its answer is true of that instant.   *)
(***************************************************************************)
Linearizable == Atomic!AtomicSpec
=============================================================================
