---------------------------- MODULE MCPatchList ----------------------------
(* Instances of PatchList: two identities and elements without one, two    *)
(* values of the immutable sub-attribute, two spellings of the name.       *)
EXTENDS PatchList

El(id, primary, lock) == [id |-> id, primary |-> primary, lock |-> lock]

Plain == [keyed |-> FALSE, simple |-> FALSE, immutable |-> FALSE, required |-> FALSE]

(* Complex attributes with and without sub-attributes, and simple ones,    *)
(* also required and immutable.                                            *)
MCAttributes ==
    {Plain,
     [Plain EXCEPT !.keyed = TRUE],
     [Plain EXCEPT !.keyed = TRUE, !.required = TRUE],
     [Plain EXCEPT !.simple = TRUE],
     [Plain EXCEPT !.simple = TRUE, !.immutable = TRUE]}

(* Only an immutable complex attribute.                                    *)
MCImmutableComplex == {[Plain EXCEPT !.keyed = TRUE, !.immutable = TRUE]}

(* The elements a definition allows: only keyed ones have an immutable     *)
(* sub-attribute, and it is enough that one identity has two values of it. *)
One == CHOOSE v \in Ids : TRUE

MCElements(a) ==
    IF a.simple THEN {El(v, FALSE, None) : v \in Ids}
    ELSE {El(v, p, None) : v \in Ids, p \in BOOLEAN}
         \cup IF a.keyed THEN {El(One, FALSE, k) : k \in Locks \cup {Null}} \cup {El(None, TRUE, None)} ELSE {}

(* A client sends one element, a pair of two identities, or a repeat.      *)
MCPairs(a) ==
    {s \in {<<e, f>> : e, f \in MCElements(a)} :
        s[1].id = One /\ s[1].lock = None /\ s[2].lock = None
            /\ (a.keyed => s[1].primary = FALSE)}

MCIncoming(a) == {<<>>} \cup {<<e>> : e \in MCElements(a)} \cup MCPairs(a)

(* Stored lists passed conforms: at most one element is primary.  The      *)
(* encoding of a typed resource has no null.                               *)
MCHeld(a) ==
    {s \in MCIncoming(a) : /\ Cardinality(Primaries(s)) <= 1 /\ (a.simple => ~ Repeats(a, s))
                           /\ \A i \in DOMAIN s : s[i].lock # Null}

(* A group's members: the list is not immutable, their type is.            *)
MCKeyed == {[Plain EXCEPT !.keyed = TRUE]}
=============================================================================
