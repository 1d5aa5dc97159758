# A TLA+ model of scim-go

scim-go is a SCIM 2.0 (RFC 7643, RFC 7644) server library: an HTTP layer, a
service that applies the protocol's rules, a repository that turns resources
into documents and links, and a store. The store that ships with it keeps
everything in memory behind one mutex. This directory models the parts of the
library that decide whether a client can trust it, checks them with TLC on
small instances, and proves with TLAPS, for every schema and any number of
resources and callers, the invariants of the store, that requests are
linearizable, what a PATCH keeps of a list, what every write keeps of the values
that only the server assigns or that are assigned once, what a filter gives away,
what a client that walks pages gets, what a response shows, and what one without a
body may leave unsaid.

## Inventory

| Part | State it keeps | Operations | What makes it correct |
| --- | --- | --- | --- |
| Store (`internal/memory`) | entries, unique index, inbound index, behind one mutex | Create, Update, Delete, Find, List | indexes exact, references whole and acyclic, versions follow representations |
| Encoding (`pkg/store`) | none | Encode, Embed, Unlink, LinkDiff | what is stored and linked decodes to what was sent |
| Repository, service, hooks (`pkg/server`) | none of their own; a request carries what it read between two locked store calls | Get, Create, Replace, Patch, Delete, List | linearizable requests, no lost update, If-Match honoured at the write |
| Controller (`pkg/server/controller.go`) | none | one handler per method, entity tags | preconditions parsed and applied as RFC 7232 says |
| Patch engine (`pkg/patch`) | the document under change, indexes over multi-valued attributes, budgets | add, replace, remove, one operation after another | operations mean what RFC 7644 3.5.2 says, one primary value, indexes never stale |
| Query (`internal/memory/query.go`, `sort.go`, `pkg/protocol/limits.go`) | none | filter, sort, page | pages partition the matches |
| Projection (`pkg/protocol/projection.go`) | none | attributes, excludedAttributes | never and always are respected |
| Write requests and characteristics (`pkg/protocol/writable.go`, `pkg/server/characteristics.go`) | none | build the document a POST or PUT asks for; refuse what breaks a rule | what only the server assigns and what is assigned once is kept; a client may send back what it was given |
| Filter grammar (`pkg/filter`) | the position in the text | parse filters, names and paths; print a filter | every text is read as the grammar says, or refused, in linear time |
| Filter evaluation (`internal/memory/evaluator.go`, `pkg/protocol/visitor.go`, `pkg/patch/matcher.go`) | none | compile and evaluate | nothing hidden is given away; queries and paths agree |

How they interact: a handler calls the (hooked) service, the service calls the
repository, the repository calls the store. Only the store locks, and it locks
once per call, so a PUT, a PATCH or a DELETE is at least two critical sections
with everything else (hooks, the patch engine, validators) between them. That
gap, and the indexes that a write to one resource must maintain on behalf of
others, is where the hard behaviour is.

What is hard here: requests interleave at every lock release; a version read
before the gap is used after it; a clock that repeats or steps back must still
give new versions; a write to one resource changes what others show; a graph
must stay acyclic although each write checks only what it adds; a PATCH keeps
indexes and budgets from one operation to the next, and nobody compares its
result with the document it started from; an object without a path is written
in the order of a Go map; a text is parsed without a scanner; a client pages through a
table that changes between two pages. Nothing is persisted and nothing retries,
so there is no crash recovery and no message loss to model.

## Modules

| Module | Models | Runs and proofs |
| --- | --- | --- |
| `ScimSchema` | documents, entries, links (`pkg/store`) | used by the next four modules |
| `MemoryStore` | the store's three maps and its operations (`internal/memory`) | `store`; `ScimServiceProofs`, first part |
| `ScimRequests` | requests, and the document a PUT or PATCH asks for | used by the next two |
| `ScimService` | requests as the steps between lock releases (`pkg/server`), over `MemoryStore` | `service`, `immutable`; `ScimServiceProofs`, second part |
| `AtomicScim` | the abstract specification: each request at one instant, no indexes, no locks | refined by `ScimService` (run `service`); `ScimServiceProofs`, third part |
| `ReachesSearch` | the search behind the acyclicity check, step by step | `store`; `StoreAlgorithmProofs` |
| `Listing` | limits, filter, sort, page, and a client walking pages | `store`; `StoreAlgorithmProofs` |
| `PatchList` | PATCH operations on one multi-valued complex attribute, with its indexes and budgets (`pkg/patch`) | `patch`, `immutable_complex`, `lock_replaced`; `PatchListProofs` |
| `Selections` | the elements of a list at some positions, in order: what a loop that keeps some elements leaves | used by `PatchList` and `Projection`; `SelectionProofs` |
| `Document` | POST, PUT, and PATCH operations on every other attribute, extensions and without a path; decoding, `schemas`, characteristics | `document`, `schemas_listed`, `once_assigned`; `DocumentProofs` |
| `Projection` | `attributes`, `excludedAttributes`, `returned`, reference fetching | `controller`, `always_returned`; `ProjectionProofs` |
| `Controller` | the handlers of one resource: entity tags, 304, 200 or 204 on PATCH (`pkg/server/controller.go`) | `controller`; `ControllerProofs` |
| `FilterEval` | what a filter selects, in a query and in a PATCH path | `filter`; `FilterEvalProofs` |
| `FilterGrammar` | the parser and the printer of filters and paths (`pkg/filter`) | used by the next |
| `FilterText` | the texts clients send, and the grammar of RFC 7644 as a reference | `filter` |

Each `MC` module gives the constants of the module it is named after. Three of
them also check what works beside it without sharing state, in behaviours of its
own: `MCMemoryStore` the search and the queries that the store runs under its
lock, `MCController` the projection of the response it sends, `MCFilterEval` the
parser whose trees the evaluator walks. A
definition whose comment starts with "Mutant" is a plausible mistake in the
definition that follows it; every property is violated when the one is put in
the place of the other.

### State and actions against the code

`MemoryStore`. `entries`, `unique` and `inbound` are the fields of `Memory`;
`used` records the ids ever allotted, because a UUIDv7 never comes back. One
mutex is held for the whole of each store call, so Create, Update and Delete are
one action each, every check, index and version included; a call that is
refused changes nothing and is an action only in `ScimService`. `at` is one
reading of the clock; it is any value, so it may repeat or go back. A resource
that one call lists several times is bumped several times, as `touch` does.
Lists of references are sets (`value.Unique` removes repeats before anything is
stored). A member of `Names` stands for a unique attribute with a folded value.
`data` is an optional immutable attribute; `created` and JSON bytes are left
out. Each reference attribute is held by one kind. Clients name ids they have
seen, or foreign ones, never an id that is still to be allotted.

`ScimService`. A caller is a goroutine; its `step` is where it is between two
lock releases: the Before hook, the read, the write, the second Find of
`repository.mismatch`, the After hook. The version that is passed to the store
is the one that was read (for DELETE, only with If-Match). Hooks, validators
and the error paths of the patch engine fail or succeed arbitrarily.
`ScimRequests.Patched` stands for the patch engine's effect on the attributes
the store tells apart; `PatchList` looks inside it.

`AtomicScim` accepts a write exactly when the resources that would result
respect uniqueness, referential integrity and acyclicity of the whole graph,
and it lets versions move exactly where representations change. The mapping
performs a request at the store's commit (or at the read, for a PATCH without
effect) and refuses it at the step that decides. It allows a conflict answer
at any instant; that such an answer is true is `ConflictsAreReal`.

`ReachesSearch`. One action per turn of the loop in `entries.reaches`, on any
graph: the store calls it on an acyclic one, and the loop does not rely on that.

`Listing`. `NextPage` is one List call under the lock; ids are allotted before
the lock is taken, so resources may appear out of id order. A filter is the set
of resources it accepts. A resource has an attribute of each kind that sortBy tells
apart: a singular one, a list of objects with a value and `primary`, a list of simple
values. `sorted` says what a stable sort of the rows in the order of
their ids gives, without an algorithm: in place k is the row that k - 1 others sort
before, by their keys or else by their ids. `Precedes` says what order is due
in terms of the resources alone. It follows the code in two places where a
comment could be read otherwise. A list of simple values gives no key at all
(`query.go:102` looks the attribute's name up in the element, which is no object), so
its rows keep the order of their ids, although the comment at `query.go:90` says that
"a multi-valued attribute sorts by its primary value, or else its first value". And `primary` that is missing, also because there is
no element, sorts as false and not last (`sort.go:30`; the comment at `sort.go:20`
says that "resources without a value are ordered last").

`PatchList`. One action per operation, with the index of the attribute under
each spelling of its name, and the two budgets. An empty and a missing list are
one state; a value filter is the set of elements it accepts with its number of
clauses; `lock` is an immutable sub-attribute, of which an explicit null is told
from one that is left out; sub-attributes that are readOnly or required, and the
aliasing of Go slices, are left out. `contested` and `repeated` are history variables that say
when a client itself asked for two primary values or for a repeat.

`Projection`. Ask parses the parameters, Fetch records what the request wrote
and skips the references not worth fetching, Send renders. A resource holds only
declared attributes; `writeOnly` counts as `never`; filling in `schemas` and
`meta.resourceType` is left out.

`Controller`. One action per handler and outcome; a call of the service is one
step, which `Linearizable` justifies, and another client's write is `Elsewhere`.
A header is a sequence of lines of symbols, so that splitting it into tags is
modelled by what it does. `exchange` holds the last request and its answer and
`Settle` only separates two exchanges. The resource is a Group, the only one
that may be answered 204; a body stands for the whole representation, before
`Projection` prunes it.

`FilterEval`. `filter.Visit` calls a visitor from the leaves of the syntax tree
up; one action is one such call, and `stack` holds the predicates compiled so
far, each as the set of resources (or, inside a value path, of elements) that it
holds of. The store's visitor and the matcher of the patch engine are called
side by side; each may refuse on its own. The grammar allows no value path
inside a value filter, so scopes do not nest. Strings are ASCII codes; the
instants of dateTimes and what is base64 are constants; numbers are halves with
a mark for a point or an exponent, which an integer attribute refuses.

`FilterGrammar`. One operator per function of `grammar.go`, with the position
as a parameter and the number of atoms tried in the result; the rules refer to
each other through the function `read`, as the parsers do through `peg.Ref`. A text is a sequence
of fragments; a keyword is a fragment of letters like any other, so a name may
begin with one or be one. Signs and exponents of numbers are left out. `FilterText`
starts from texts that clients mean to send and edits them one fragment at a
time; its reference collects every tree the RFC's rules allow for a text, without
an order of choices.

`Document`. `doc` is the stored resource as it is encoded, `work` the copy that
the operations of a PATCH change one after another. `Apply` is one operation,
`Commit` the end of `service.patched` and `save`; `Discard` is a PATCH without
effect or one that is refused, of which nothing remains. A name is a pair of the
name and its case, a string has its letters and their case. The order of a Go map
is a choice over the permutations of the keys (`Merges`). `Decodes` and
`fromDocument` are the round trip through the typed Go resource: names that are
not declared, null, "" and [] disappear, an empty object stays. Left out: the
elements of complex lists, those of a PATCH being in `PatchList` and those of a PUT
(the list case of `writableValue`, `writable.go:69`) in no module, and binary values.

What the model brought out about `Document`, beyond the disagreements below:

* A PATCH may remove or null a whole complex attribute, and with it a readOnly
  sub-attribute, where PUT puts it back; `ReadOnlyKept` allows that loss (`gone`). It
  may be shorter than an operation: the proof of `ServerValuesKept` failed, and TLC
  then showed a value without a path whose first key takes a complex attribute away
  and whose second, one of its sub-attributes, brings it back without its readOnly
  part. So an operation also tells what was lost between its keys (`lost`).
* The result of a value without a path may depend on the order of a Go map. Two keys
  may name one attribute; and `repeatsReadOnly` (`patcher.go:117`) looks a name up
  at the root, so a readOnly attribute of an extension is measured against an
  attribute of the base that has its name, which another key may just have written. No
  property says that the order does not matter; the others hold in every order.
* A PUT that respells the sub-attributes of an immutable complex attribute is refused
  as a change, because `value.Equal` compares objects by their keys (`compare.go:31`,
  `characteristics.go:90`). `EchoIsHarmless` respells every other name, at both levels.
* An extension is listed although it holds no data of its own when the body, or a
  PATCH, puts a name in it that is not declared: it counts for `stampSchemas` and the
  types drop it; and when a PATCH leaves an empty object in it alone. `ListedForData`
  has these two and the one under Disagreements as its only cases.

## Runs

| Run | Shows | Instance, and why it is enough |
| --- | --- | --- |
| `store` | indexes exact, links held, pointers resolved, hierarchy acyclic, versions follow representations, a deleted resource is forgotten; the search for a cycle is exact, and pops the stack at most once per link and once for the start; a walk of pages is exact when nobody writes, and creates hide no match | 3 ids and a foreign one, 2 unique values, instants 0..3, the User and Group schemas: a cycle of length 3, a group nested in a group, a name given up and taken again, a clock that stands still. For the search, every acyclic graph over 4 nodes up to renaming, in every order of targets, an unreachable goal, and some graphs with cycles. For the pages, 3 ids, page cap 2, indexes below, at and past the ends, sorted by each kind of attribute in both directions, values missing, single or with a late primary |
| `service` | the refinement of `AtomicScim`; no lost update, If-Match honoured at the write, a tag identifies one representation, conflict answers are true | 2 callers, 4 requests, 2 ids: two set-up requests and any two that race. The clock stands still (`Readings = {0}`), the worst case for versions; `MaxTime` is never reached |
| `immutable` | an immutable value survives racing writers; every request is answered | 2 callers, 1 id, 2 values, 4 requests |
| `patch` | the index agrees with the list, at most one primary value, no repeats, immutable lists kept, immutable sub-attributes changed only to what a client states in a whole list, budgets respected | 3 operations, lists up to 4, 2 identities and none, 2 spellings, 5 kinds of definition |
| `immutable_complex` | a disagreement, see below | one definition |
| `lock_replaced` | a disagreement, see below | one definition, 2 operations |
| `always_returned` | a disagreement, see below | one family of schemas |
| `controller` | If-Match and If-None-Match do what the client meant in every spelling; 304 is answered only to who was shown the current body; a 204 hides no effect; a response holds exactly what is due, and leaving references unfetched does not show | 2 members, versions 1..3, versioning and patch on or off, up to 2 tags in one line, spaced or several lines, with a strong tag, one with a comma, one not closed. For the response, all `returned` levels of a complex attribute with two parts, a simple one and an extension; all lists of one name and pairs |
| `filter` | hidden values stay hidden, queries and PATCH paths agree on value filters, spelling does not matter; every text is read in the one way the grammar allows, or refused, with at most one atom per position; printing and parsing are inverse | filters of 3 nodes (a value path is free), 8 attributes: single, multi-valued, complex, hidden at each level, in an extension; 26 resources; 8 literals; all operators. Texts with names that are keywords, schema URIs with dots, up to three operands and four nested groups, and every text one edit away, two for texts of up to 5 fragments |
| `document` | readOnly values are kept, immutable ones too but in a PATCH that took their attribute away, what is read may be sent back, an extension is listed without data in three cases only, in every order of a Go map | an attribute of each kind the rules tell apart, in the base schema and in an extension; any of 36 stored documents, or none, then one accepted request: a POST or PUT of about 60 bodies, undeclared names included, or a PATCH of 2 of about 90 operations |
| `schemas_listed` | a disagreement, see below | documents that list the extension rightly, one removal with a value filter |
| `once_assigned` | a disagreement, see below | the instance of `document` |

Deadlock is not checked: every model may stop when clients stop, or when a bound
is reached. Bounds that are not in the code: `MaxTime`, `MaxCalls`, `Readings`,
`Allottable` (ids left), `MaxWrites`, `MaxOps`, `MaxLen`, `MaxTags`, `MaxNodes`,
`MaxRequests`, `MaxEdits`, `ShortText` and the length of `Stamps`. `MaxCount`,
`MaxInput`, `MaxEvaluations` and `MaxWriteBytes` are the code's own limits, made small.

Fairness: `FairServiceSpec` assumes that a goroutine that has begun a request
keeps running, `WF(Serve(p))`. The Go scheduler gives that, the mutex is held
only for finite work, and there is no retry loop. Clients need not send
anything. Only `Answered` uses it.

### Disagreements

* `immutable_complex`: `newParentGate` (`pkg/patch/merger.go:28`) exempts
  multi-valued attributes, so a value filter changes elements of an immutable
  multi-valued complex attribute; the comment at `merger.go:18` says that "an
  immutable complex attribute SHALL NOT be updated, including through its
  sub-attributes". No schema of the library declares such an attribute.
* `always_returned`: a complex attribute that is always returned, with parts
  returned by default, disappears when the parameters leave it out, because an
  object with no part left is dropped (`projection.go:215`); a comment in
  `server_test.go:2515` says that it is returned regardless. No schema of the
  library declares such an attribute.
* `schemas_listed`: a "remove" with a value filter that selects every element of
  the only list of an extension ends without `unassignEmptyExtension`
  (`pkg/patch/remover.go:69`), so the extension stays as an object with an empty
  list and `schemas` goes on listing it; the comment at `service.go:180` says
  that it "lists the base schema plus every extension with assigned data". The
  enterprise extension of the library has no list; a server may register one
  that has.
* `lock_replaced`: a replacement of a whole list carries an immutable
  sub-attribute forward only where the new element leaves it out
  (`pkg/patch/carryforward.go:38`), and compares nothing; an element with the same
  value and another one, or null, there changes or loses it. The comment at
  `carryforward.go:10` says that "immutable values MUST match". The test at
  `patch_test.go:1282` expects another value to be taken; null is in no test.
* `once_assigned`: removing a complex attribute, or replacing it with null, takes
  its assigned immutable sub-attribute away (`pkg/patch/remover.go:45` looks at the
  attribute and what it is part of, not at its parts), and a later operation of the
  same PATCH may assign it anew. The comments say that an assigned immutable attribute "SHALL
  NOT be updated, including by removal" (`remover.go:44`) and that an assigned
  immutable sub-attribute "rejects any write that would change it" (`merger.go:71`).

## Proofs

`ScimServiceProofs`, the store: for every schema that satisfies `SchemaAssumption`,
any set of ids (finite or not), and every bound. The inductive invariant is
`StoreInv`: `TypeOK`, `UniqueIndexExact`, `InboundExact`, `LinksHeld`,
`PointersResolved` and `Acyclic` together. None of the parts is inductive alone.
Delete finds the sources of a resource in `inbound`, so `LinksHeld` needs
`InboundExact`. A pointer that is written before its target exists would be
resolved late, so `PointersResolved` needs the part of `TypeOK` that says no
body holds an id still to be allotted. `Acyclic` needs `LinksHeld` so that a new
resource has no link to it. The argument:

1. `SaveEffect` and `DeleteEffect` say what an operation does, apart from versions.
2. `RewireNoCycle`, about graphs in general: changing the edges out of one node
   keeps a graph acyclic if no *added* edge leads back to that node in the *old*
   graph. That is why `checkLinks` may look only at what a write adds, against
   the stored links. Reachability is stated with closed sets, so no induction
   is needed.
3. `SaveKeepsInv`, `DeleteKeepsInv`: one step per conjunct; then one per action.
4. `StoreTyped`, `StoreUnique`, `StoreReferences`, `StoreInbound`, `StorePointers`
   and `StoreAcyclic` follow. `StoreVersions` (a version moves whenever a
   representation changes, whatever the clock says) and `StoreForgets` are action
   properties from the same invariant.

`ScimServiceProofs`, the service: for any set of callers, of requests and of clock
readings. The store's invariant is not enough: what a request read before the gap decides what it
writes after it. `ServiceInv` therefore adds to `StoreInv`, for every caller, what
is known at each of its steps (`CallOK`), and above all what its record is worth
(`SeenOK`): the resource is gone for good, or its version is later than the
record's, or the record is exactly what the store would give now. A later version
with the same number would break it, so it rests on `StoreVersions` and
`StoreForgets`, stated of one write as `Moves`; a resource whose version is not
the record's is `Overtaken`, and stays so. The argument: every write `Moves`
(`SaveMoves`, `DeleteMoves`), what `Moves` keeps the other callers' records as
good as they were, and one step per action for the caller itself. From it:

* `ServiceTags`: two equal tags of one resource show one representation;
* `ServiceConflicts`: who is told "changed" or "precondition failed" after a read
  was really overtaken;
* `ServiceNoLostUpdate` and `ServiceIfMatch`: a commit overwrites exactly what its
  request read, and that is a version the client listed. Both are action properties;
* `ServiceImmutable`: no commit changes an immutable value of a living resource.

`ScimServiceProofs`, the refinement: `ServiceLinearizable`, the service implements
`AtomicScim`. The store decides with indexes, counts and added links; the abstract specification
with nothing but the resources that would result. The lemmas show that both come to
the same decision wherever `ServiceInv` holds: the unique index against the keys of
all resources, `RewireNoCycle` against acyclicity of the whole result, `inbound`
against the links that lead to a resource. Then there is one lemma per action: a
commit, a read and a refusal are the abstract steps of these names, every other
step is a stutter.

`SelectionProofs`: what `Selected` returns for every list. Here, and in the modules
that extend this one, is an induction over data, made without an operator parameter: a set of naturals that
holds 0 and is closed under successor is all of them, because < is well-founded
(`SetInduction`), and the positions up to which the loop is right are such a set.

`PatchListProofs` is for any definition, list, operations and budgets that satisfy
`PatchAssumption`: no attribute is both complex with a key and simple; a simple
value has no "primary"; what is stored has at most one primary value, as every
accepted write leaves it. The inductive invariant is `PatchInv`. Its heart is
`Indexed`: under every spelling an index covers no more elements than the list has,
and one that has the size of the list is exact. An index that an append through
another spelling made stale has another size and is rebuilt, and any other write
clears them all; an index larger than the list could come to agree in size by accident,
which is why the bound is needed. The others: two primary values only if a client
asked for two, no repeats unless it sent them, and budgets that are not overdrawn
while the request is open, so that a charge made first bounds the work after it.
`PatchIndex`, `PatchPrimary`, `PatchRepeats` and `PatchBudget` follow; `PatchLocks`
is an action property: the immutable sub-attribute of an element that stays is kept by
every operation with a value filter and by a list that leaves it out; only a
replacement of the whole list changes it, to the value or the null that the client
states for that element (see Disagreements). `PatchImmutable`, that an immutable list is never changed, is
proved for schemas in which no immutable attribute is keyed: for one that is, the
run `immutable_complex` shows that it fails (see Disagreements), and
`PatchImmutableSimple` says the same of each attribute without the hypothesis on
the schema.

`StoreAlgorithmProofs`, the search of the acyclicity check: `SearchIsExact`, from the
invariant `SearchInv` (whatever is seen or on the stack can be reached; the links of
what is seen are seen or on the stack; the goal is not among what is seen, so when
the stack is empty what is seen is a closed set without the goal). It connects the
loop to the reachability that `MemoryStore` and its proofs use. `SearchIsLinear`, from
`WorkInv`: the pops so far and those still due are no more than the links out of what
is seen, and one for the start. A link is a port, a resource with a position in its
list, so that the sum over resources is the size of one finite set. The graph is
finite, and need not be acyclic: `SearchInit` takes any.

`StoreAlgorithmProofs`, the pages: for any finite set of ids, any table, filter, sort,
page size and number of writes. `Ranking` says that in a finite strict order each
place is taken exactly once; `SortsStrictly` that the keys with the ids are such an
order, so the rows are the matches in that order (`RowsAre`). `RankGrows`: a create
moves no row forward. The invariant `WalkInv` says, of a walk from the first page:
if nobody has written, what was handed out are the first rows; if others have only
created, every match that was there at the start and whose place is before the next
page was handed out. Both properties are consequences at the end of the walk:
`WalkExact` and `CreatesKeepAll`. That the order is the one `Precedes` gives is `SortedAsAsked`,
from what the key of a row is for each kind of attribute (`KeyIs`). `ListingAssumption` allows a list at most one
primary value, as the characteristics demand of every write.

`DocumentProofs` is for every schema, stored document, body and operation. The
invariant `DocInv` says that the stored document is one that the typed resource
gives back, and, while a PATCH is open, what its copy is worth (`Since`): every
readOnly value of the stored document is in it, or was lost with its attribute;
every assigned immutable value is, up to case, or was lost with its attribute; an attribute once without an object
is recorded in `gone`. It is kept by every write the operations are made of (`Set`,
`Without`, `put`, `merge`, the removal of an emptied extension), hence by each
operation with a path, and by one without a path for every order of its keys, by an
induction with `SetInduction` over how many were written. `CommitSettles` carries
it through decoding to the next stored document; a PUT settles directly, because it
puts the readOnly values back and compares the immutable ones, those below a complex
attribute too. `ServerValuesKept` and
`AssignedOnce` follow: a PUT keeps what is assigned once without exception; a PATCH
keeps it, although nobody compares its result with the document that it started from,
except a sub-attribute whose attribute was without an object at some time during the
PATCH (`gone`), which then may be lost or assigned anew: the run `once_assigned` shows
it, and no more can be proved. The parts of an attribute that is immutable itself have no such
exception. Elements of complex lists are not among its attributes. The assumptions, all evaluated by
TLC: sub-attributes are simple, and an extension is not named like an attribute
(`SchemaAssumption` of `Document`); what is stored is typed and has no empty object
that only the server assigns (`StoredAssumption`: an extension that holds nothing else
is taken away as empty, and that object with it); the operations have finitely many
keys (`OperationAssumption`).

`FilterEvalProofs` is for any schema, any resources and filters of any size. The
invariant `WalkInv` ties each predicate on the visitor's stack to what it may tell
apart: inside a value path, elements that differ only in hidden values, outside it,
resources that do. A leaf is blind to them (`conceal`, and for equality in a body the
literal), the logical operators keep blindness, and the end of a value path turns
that of elements into that of resources. Because the visitor is called from the
leaves up, this is an induction over its calls and none over syntax trees.
`HiddenStaysHidden` and `VisitorsAgree` follow; `SameFilterSameAnswer` is about leaves
and needs no more than the assumption, that a stored value has the type of its
attribute and a single-valued attribute one element (`FilterAssumption`).

`ProjectionProofs`, for every schema, resource and request. The invariant
`RequestInv` ties what was fetched and rendered to the projection, and says what a
plain one leaves out (nothing). `FetchIsEnough`: what `Returns` rules out renders
to nothing (`NotShown`), so the response is what the whole resource would give.
`ResponseIsDue`: the response holds exactly what is due. `returns` is the rule of
the specification for an attribute (`ReturnsIsOpened`) and for a part
(`ReturnsIsAllowed`, because no name is deeper than a part); then either pruning
gives the parts that are due (`PrunedIsDue`), or the projection is plain and
everything is (`PlainIsDue`). `ProjectionAssumption` asks that an element of a
complex attribute has some part: an element stored as an empty object is shown by
a plain projection and dropped by any other.

`ControllerProofs`: `NoContentPredictable`, for any members and any number of
operations. `QuietInv` says that a PATCH answered without a body had only simple
operations and that the body after it is one they may lead to; `PatchedIsPredicted`,
an induction over their number with `SetInduction`, says what that body is: each
simple operation decides the membership of the one value it names (`SimpleEffect`),
so the last one on a value counts.

Assumptions on the constants that the proofs use, beyond types, are evaluated by
TLC in every run. `SchemaAssumption` and `TimeAssumption` are of the store;
`RequestAssumption` says that a POST or PUT has a body of the resource's kind and
that the soft references of a PATCH are pointers, as the decoder gives them;
`ServiceAssumption` that "nothing" is not a record.

Only model-checked: liveness (`Answered`) and everything that needs ENABLED, which
the prover does not handle. `IfMatchExact` and `NotModifiedIsFresh` of `Controller`,
which split a header with a recursion over its text, and `ReadsExactly` and
`WorkLinear` of `FilterText`, whose parser is recursive: what a recursive definition
computes for every input is out of the prover's reach. `EchoIsHarmless` of
`Document` is not true of every value of the constants: a stored document need not
respect a rule that was added after it. `ListedForData` is model-checked only, too.
`TypeOK` of the store and `SearchInv` are proved, and the
other invariants of their modules rest on them, so no run repeats them.

## Not modelled

Server assembly, routing, middleware and options are set once, before serving.
The definitions of the User, Group and configuration schemas are data; the models
take schemas of the same shape as constants. JSON decoding and the normalisation
of user names are conversions of single values whose results the models take as
given. A PUT of a list of complex values, element by element (`writable.go:69`), is in
no module. The conformance suite (a third of the code) and the commands are clients of
the library: what the suite expects of a server is what the properties say, and
the walk of its pages is the client of `Listing`. Unlinking a referrer does not
re-index it, which would matter for a unique attribute inside a soft reference; no
schema has one and `MemoryStore` keeps unique values outside references.
`PROJECT.json` lists every part with its status.

## Plan

The store came first, because every other part trusts its indexes; then the
service over it, its refinement, the engines that work inside one request, and
last the document rules and the grammar. What is left to model: elements of
undeclared attributes in `FilterEval`, what a sort by a hidden attribute gives away,
the elements of a complex list in a PUT, and the filling in of `schemas` and
`meta.resourceType` in `Projection`.

The proofs cover every safety property of the store, the service, the listing, the
lists of a PATCH, the projection and the evaluation of filters. Worth proving next:
`ListedForData` of `Document`, for any schema.
