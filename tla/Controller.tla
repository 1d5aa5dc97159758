----------------------------- MODULE Controller -----------------------------
(***************************************************************************)
(* The HTTP handlers of one resource (pkg/server, controller.go): the      *)
(* entity tags of If-Match and If-None-Match, the ETag of an answer, and a *)
(* PATCH answered without a body (patch_response.go).                      *)
(*                                                                         *)
(* One client sends requests about one resource that others write too.  A  *)
(* request to the service takes effect at one instant, which is what       *)
(* ScimService is shown to give.  The resource is a Group: its members and *)
(* a label that stands for its other attributes.                           *)
(*                                                                         *)
(* A header is a sequence of lines and a line a sequence of symbols: W/,   *)
(* a quote, a comma, a space, a star, and one symbol for each run of other *)
(* characters.                                                             *)
(***************************************************************************)
EXTENDS Integers, Sequences, FiniteSetsExt, SequencesExt

CONSTANTS
    Members,       \* values a member may have
    Labels,        \* the rest of the body
    Bodies,        \* the bodies a client may send
    Stamps,        \* the digits of each version, in order; their number is a bound
    Configs,       \* the features of ServiceProviderConfig: versioning and patch
    Extra,         \* other tags a client may send
    Forms,         \* how it spells a list of tags: "tight", "spaced" or "lines"
    Operations,    \* the lists of operations a client may send
    MaxTags        \* bound: tags in one header

Quote == "q"
Blank == {" ", ","}
Symbols == {"W/", Quote, "*", "x"} \cup Blank \cup ToSet(Stamps)

Body == [members : SUBSET Members, label : Labels]
Versions == 1..Len(Stamps)

\* PATCH operations: the kind, the path's attribute, whether it has a URI or a sub-attribute,
\* its value filter ("not" for a negated "eq"), and the value that is added or compared.
Operation == [op : {"add", "remove", "replace"}, name : {"members", "label"}, qualified : BOOLEAN,
              filter : {"none", "eq", "not", "other"}, value : Members]

ASSUME ControllerAssumption ==
    /\ \A i, j \in DOMAIN Stamps : Stamps[i] = Stamps[j] => i = j
    /\ ToSet(Stamps) \cap ({"W/", Quote, "*", "x"} \cup Blank) = {}
    /\ Bodies \subseteq Body
    /\ Extra \subseteq Seq(Symbols)
    /\ Operations \subseteq Seq(Operation)
    /\ MaxTags \in Nat

VARIABLES
    config,     \* what the server supports
    resource,   \* its state, version and body
    shown,      \* the tags and bodies this client was given
    exchange    \* the last request of this client and its answer

vars == <<config, resource, shown, exchange>>

-----------------------------------------------------------------------------
(* Entity tags. *)

\* etag.Weak
Weak(version) == <<"W/", Quote, Stamps[version], Quote>>

\* strings.TrimPrefix(tag, "W/")
Opaque(tag) == IF tag # <<>> /\ tag[1] = "W/" THEN Tail(tag) ELSE tag

First(field, S) == Min({i \in DOMAIN field : field[i] \in S} \cup {Len(field) + 1})

TrimLeft(field) == SubSeq(field, First(field, Symbols \ Blank), Len(field))

\* Mutant: a comma always ends a tag.
tagEndAtComma(field) == First(field, {","}) - 1

\* Where the first tag of a field ends: at its closing quote, or before a comma.
tagEnd(field) ==
    LET opaque == Opaque(field)
        close == First(Tail(opaque), {Quote})
    IN  IF opaque # <<>> /\ opaque[1] = Quote /\ close < Len(opaque)
        THEN Len(field) - Len(opaque) + close + 1
        ELSE First(field, {","}) - 1

entityTags(field) ==
    LET tags[rest \in Seq(Symbols)] ==
            LET f == TrimLeft(rest)
            IN  IF f = <<>> THEN <<>>
                ELSE <<SubSeq(f, 1, tagEnd(f))>> \o tags[SubSeq(f, tagEnd(f) + 1, Len(f))]
    IN  tags[field]

\* strings.Join(lines, ",")
Joined(lines) ==
    IF lines = <<>> THEN <<>>
    ELSE FoldLeft(LAMBDA field, line : field \o <<",">> \o line, lines[1], Tail(lines))

Star == <<<<"*">>>>

Listed(lines) == ToSet(entityTags(Joined(lines)))

\* The versions to ask for, none for no condition.
ifMatch(lines) ==
    LET tags == IF ~config.versioning \/ lines = Star THEN {} ELSE Listed(lines)
    IN  [versions |-> tags,
         error |-> config.versioning /\ lines \notin {<<>>, Star} /\ tags = {}]

\* Mutant: any tag stands for the current version.
notModifiedOnAnyTag(lines, version) == config.versioning /\ lines # <<>>

notModified(lines, version) ==
    /\ config.versioning
    /\ \/ lines = Star
       \/ \E tag \in Listed(lines) : Opaque(tag) = Opaque(Weak(version))

-----------------------------------------------------------------------------
(* PATCH operations. *)

\* Mutant: a negated filter counts as an equality.
isValueEqualityOrNot(filter) == filter \in {"eq", "not"}

isValueEquality(filter) == filter = "eq"

Simple(op) ==
    /\ ~op.qualified
    /\ op.name = "members"
    /\ CASE op.op = "add" -> op.filter = "none"
         [] op.op = "remove" -> isValueEquality(op.filter)
         [] OTHER -> FALSE

\* `asked` says whether the request has attributes or excludedAttributes.
noContentEligible(ops, asked) == ~asked /\ \A i \in DOMAIN ops : Simple(ops[i])

\* What an operation may make of a body; only operations on members are spelled out.
Effects(op, body) ==
    IF op.qualified \/ op.name # "members" THEN Bodies
    ELSE CASE op.op = "add" /\ op.filter = "none" -> {[body EXCEPT !.members = @ \cup {op.value}]}
           [] op.op = "remove" /\ op.filter = "eq" -> {[body EXCEPT !.members = @ \ {op.value}]}
           [] op.op = "remove" /\ op.filter = "not" -> {[body EXCEPT !.members = @ \cap {op.value}]}
           [] op.op = "remove" /\ op.filter = "none" -> {[body EXCEPT !.members = {}]}
           [] OTHER -> Bodies

\* What a body may be after each operation.
PatchedTo(ops, body) ==
    LET after[n \in 0 .. Len(ops)] ==
            IF n = 0 THEN {body} ELSE UNION {Effects(ops[n], b) : b \in after[n - 1]}
    IN  after

Patched(ops, body) == PatchedTo(ops, body)[Len(ops)]

-----------------------------------------------------------------------------
(* Headers: none, a star, or a list of tags in one of several spellings.   *)

NoHeader == [kind |-> "none", tags |-> <<>>, form |-> "tight"]

Headers(known) ==
    {NoHeader, [NoHeader EXCEPT !.kind = "star"]}
      \cup [kind : {"list"}, tags : SeqOf(known, MaxTags), form : Forms]

Lines(h) ==
    CASE h.kind = "none" -> <<>>
      [] h.kind = "star" -> Star
      [] h.form = "lines" /\ h.tags # <<>> -> h.tags
      [] h.form = "spaced" -> <<FlattenSeq([i \in DOMAIN h.tags |-> <<",", " ">> \o h.tags[i] \o <<" ">>])>>
      [] OTHER -> <<Joined(h.tags)>>

-----------------------------------------------------------------------------
(* Answers.  The exchange keeps what the properties speak of: the request, *)
(* the resource before and after it, and the answer.                       *)

Exchange(verb, h, ops, status, after, tag) ==
    [verb |-> verb, header |-> h, ops |-> ops, status |-> status, before |-> resource,
     after |-> after, etag |-> IF config.versioning THEN tag ELSE <<>>]

\* The resource as it is now, the ETag of the answer, and whether a body goes with it.
Answer(verb, h, ops, status, after, sent) ==
    /\ resource' = after
    /\ exchange' = Exchange(verb, h, ops, status, after, Weak(after.version))
    /\ shown' = IF sent /\ config.versioning
                THEN shown \cup {[tag |-> Weak(after.version), body |-> after.body]} ELSE shown
    /\ UNCHANGED config

\* An error of the handler or of the service: nothing happens.
Fail(verb, h, status) ==
    /\ exchange' = Exchange(verb, h, <<>>, status, resource, <<>>)
    /\ UNCHANGED <<config, resource, shown>>

-----------------------------------------------------------------------------
(* Handlers. *)

Create(body) ==
    /\ resource.state = "unborn"
    /\ Answer("write", NoHeader, <<>>, "created", [state |-> "held", version |-> 1, body |-> body], TRUE)

ByID(h) ==
    \/ resource.state # "held" /\ Fail("read", h, "notFound")
    \/ /\ resource.state = "held" /\ notModified(Lines(h), resource.version)
       /\ Answer("read", h, <<>>, "notModified", resource, FALSE)
    \/ /\ resource.state = "held" /\ ~notModified(Lines(h), resource.version)
       /\ Answer("read", h, <<>>, "ok", resource, TRUE)

\* A body that cannot be decoded, which is found before If-Match is looked at, or an
\* error of the service itself after it.
Invalid(h) == Fail("write", h, "invalid")

PatchUnsupported(h) == ~config.patch /\ Fail("write", h, "notImplemented")

\* ifMatch, then the service's own checks.
Refused(h) ==
    LET match == ifMatch(Lines(h))
    IN  \/ match.error /\ Fail("write", h, "preconditionFailed")
        \/ ~match.error /\ resource.state # "held" /\ Fail("write", h, "notFound")
        \/ /\ resource.state = "held" /\ match.versions # {}
           /\ Weak(resource.version) \notin match.versions
           /\ Fail("write", h, "preconditionFailed")

Admitted(h) ==
    LET match == ifMatch(Lines(h))
    IN  /\ ~match.error
        /\ resource.state = "held"
        /\ match.versions = {} \/ Weak(resource.version) \in match.versions

Rewritten(body) == [resource EXCEPT !.version = @ + 1, !.body = body]

Replace(h, body) ==
    /\ Admitted(h)
    /\ resource.version + 1 \in Versions
    /\ Answer("write", h, <<>>, "ok", Rewritten(body), TRUE)

\* A PATCH that changes nothing keeps the version.
unchanged(body) == body = resource.body

Patch(h, ops, asked) ==
    /\ config.patch
    /\ Admitted(h)
    /\ \E body \in Patched(ops, resource.body) :
         LET after == IF unchanged(body) THEN [resource EXCEPT !.body = body] ELSE Rewritten(body)
             quiet == noContentEligible(ops, asked)
         IN  /\ after.version \in Versions
             /\ Answer("write", h, ops, IF quiet THEN "noContent" ELSE "ok", after, ~quiet)

Delete(h) ==
    /\ Admitted(h)
    /\ resource' = [resource EXCEPT !.state = "gone"]
    /\ exchange' = Exchange("write", h, <<>>, "deleted", resource', <<>>)
    /\ UNCHANGED <<config, shown>>

\* Another client writes or deletes it, or a write to another resource changes what it shows.
Elsewhere(body) ==
    /\ resource.state = "held"
    /\ \/ resource.version + 1 \in Versions /\ resource' = Rewritten(body)
       \/ resource' = [resource EXCEPT !.state = "gone"]
    /\ UNCHANGED <<config, shown, exchange>>

-----------------------------------------------------------------------------
\* The tags a client has: of the bodies it was shown, and of its last answer.
TagsShown == {s.tag : s \in shown} \cup Extra
TagsKnown == TagsShown \cup ({exchange.etag} \ {<<>>})

\* Between two requests of the client, nothing is kept of the first one but its ETag.
Idle(etag) == [verb |-> "none", etag |-> etag]

Init ==
    /\ config \in Configs
    /\ \E body \in Bodies : resource = [state |-> "unborn", version |-> 1, body |-> body]
    /\ shown = {}
    /\ exchange = Idle(<<>>)

\* The client has read its answer.
Settle ==
    /\ exchange.verb # "none"
    /\ exchange' = Idle(exchange.etag)
    /\ UNCHANGED <<config, resource, shown>>

Request ==
    /\ exchange.verb = "none"
    /\ \/ \E body \in Bodies : Create(body) \/ Elsewhere(body)
       \/ \E h \in Headers(TagsShown) : ByID(h)
       \/ \E h \in Headers(TagsKnown) :
            \/ Invalid(h) \/ Refused(h) \/ PatchUnsupported(h) \/ Delete(h)
            \/ \E body \in Bodies : Replace(h, body)
            \/ \E ops \in Operations, asked \in BOOLEAN : Patch(h, ops, asked)

Next == Settle \/ Request

Spec == Init /\ [][Next]_vars

-----------------------------------------------------------------------------
(* Properties. *)

Conditional == config.versioning /\ exchange.verb # "none" /\ exchange.header.kind = "list"
Current == Weak(exchange.before.version)

WellFormed(tag) ==
    LET opaque == Opaque(tag)
    IN  Len(opaque) >= 2 /\ {i \in DOMAIN opaque : opaque[i] = Quote} = {1, Len(opaque)}

(***************************************************************************)
(* If-Match means what the client meant by it, in every spelling of the    *)
(* list: a write goes through only if the client listed the tag of the     *)
(* version that it overwrites, and one that listed it among well-formed    *)
(* tags is never turned away for its precondition (controller.go ifMatch,  *)
(* entityTags and tagEnd).                                                 *)
(***************************************************************************)
IfMatchExact ==
    Conditional /\ exchange.verb = "write" =>
        /\ exchange.status \in {"ok", "noContent", "deleted"} => Current \in ToSet(exchange.header.tags)
        /\ exchange.status = "preconditionFailed" =>
             \/ Current \notin ToSet(exchange.header.tags)
             \/ exchange.before.state # "held"
             \/ \E tag \in ToSet(exchange.header.tags) : ~WellFormed(tag)

(***************************************************************************)
(* A client that is told "not modified" on account of the tags it sent has *)
(* already been shown the body that the resource has (controller.go        *)
(* notModified, setVersion).                                               *)
(***************************************************************************)
NotModifiedIsFresh ==
    Conditional /\ exchange.status = "notModified" =>
        \E s \in shown : s.body = exchange.before.body

Naming(m) == {i \in DOMAIN exchange.ops : exchange.ops[i].value = m}

(***************************************************************************)
(* A PATCH answered without a body has no effect that its sender cannot    *)
(* work out: it changed the membership of the values it names, each as the *)
(* last operation on it says, and nothing else (patch_response.go          *)
(* noContentEligible).                                                     *)
(***************************************************************************)
NoContentIsPredictable ==
    exchange.verb = "write" /\ exchange.status = "noContent" =>
        /\ exchange.after.body.label = exchange.before.body.label
        /\ \A m \in Members :
             m \in exchange.after.body.members <=>
                IF Naming(m) = {} THEN m \in exchange.before.body.members
                ELSE exchange.ops[Max(Naming(m))].op = "add"
=============================================================================
