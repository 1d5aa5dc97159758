----------------------------- MODULE ScimSchema -----------------------------
(***************************************************************************)
(* What the other modules share: the registered schemas as parameters,     *)
(* documents, the entries the store keeps of them (pkg/store, encode.go),  *)
(* and how PUT and PATCH make a new document from a stored one.            *)
(*                                                                         *)
(* A schema is kinds of resource, the reference attributes each kind       *)
(* holds, which of them are soft (single-valued, kept in the body, allowed *)
(* to name a resource outside this server), the kinds they may point at,   *)
(* and the values of unique attributes a document may carry.  A member of  *)
(* Names stands for an (attribute, folded value) pair.  Data is the rest   *)
(* of the body: an optional attribute whose mutability is immutable.       *)
(***************************************************************************)
EXTENDS Integers, FiniteSets

CONSTANTS
    Ids,          \* resource ids: the ones this server may allot, and Foreign
    Foreign,      \* ids (or plain strings) this server never allots
    Kinds,        \* resource types
    References,   \* non-inverse reference attributes
    Soft,         \* the soft ones
    Holder,       \* the kind that holds each reference attribute
    Types,        \* the kinds each reference attribute may point at
    Names,        \* values of unique attributes
    Keys,         \* the sets of such values a document of each kind may carry
    Data,         \* values of the immutable attribute
    MaxTime,      \* bound: no resource is modified past this instant
    None          \* Go's zero value: no kind, no holder, no version

ASSUME SchemaAssumption ==
    /\ Foreign \subseteq Ids
    /\ Soft \subseteq References
    /\ Holder \in [References -> Kinds]
    /\ Types \in [References -> SUBSET Kinds]
    /\ Keys \in [Kinds -> SUBSET SUBSET Names]
    /\ IsFiniteSet(References)

ASSUME NoneAssumption ==
    None \notin Ids \cup Kinds \cup Int

ASSUME TimeAssumption == MaxTime \in Nat

Times == 0..MaxTime
Hard == References \ Soft

(***************************************************************************)
(* An entry: its kind, the unique values in its body, the soft pointers in *)
(* its body, the rest of the body, its resolved links and its version.  A  *)
(* pointer is a set with at most one id.  NoEntry is the zero value a Go   *)
(* map returns for a key it does not have.                                 *)
(***************************************************************************)
Pointers == {{}} \cup {{i} : i \in Ids}

Entry == [kind : Kinds, keys : SUBSET Names, soft : [Soft -> Pointers],
          data : Data \cup {None}, links : [References -> SUBSET Ids], updated : Times]

NoEntry == [kind |-> None, keys |-> {}, soft |-> [a \in Soft |-> {}],
            data |-> None, links |-> [a \in References |-> {}], updated |-> 0]

(***************************************************************************)
(* A document, before its references are taken out of it.                  *)
(***************************************************************************)
Document == [kind : Kinds, keys : SUBSET Names, data : Data \cup {None},
             refs : [References -> SUBSET Ids]]

\* The ones that fit the schemas.
WellFormed ==
    {doc \in Document :
        /\ doc.keys \in Keys[doc.kind]
        /\ \A a \in Soft : doc.refs[a] \in Pointers
        /\ \A a \in References : Holder[a] # doc.kind => doc.refs[a] = {}}

\* The ids a document mentions.
Mentions(doc) == UNION {doc.refs[a] : a \in References}

-----------------------------------------------------------------------------
(* Encode splits a document into links and the body that is kept. *)

\* Mutant: a resource may link to itself.
softTargetsWithSelf(id, pointer) == pointer

softTargets(id, pointer) == pointer \ {id}

extractLinks(id, doc) ==
    [a \in References |-> IF a \in Soft THEN softTargets(id, doc.refs[a]) ELSE doc.refs[a]]

keep(doc) == [a \in Soft |-> doc.refs[a]]

\* The document a record of this entry decodes to: relations are nested back into the body.
Into(e) ==
    [kind |-> e.kind, keys |-> e.keys, data |-> e.data,
     refs |-> [a \in References |-> IF a \in Soft THEN e.soft[a] ELSE e.links[a]]]
=============================================================================
