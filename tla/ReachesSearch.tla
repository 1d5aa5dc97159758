--------------------------- MODULE ReachesSearch ---------------------------
(***************************************************************************)
(* The depth-first search behind checkAcyclic: entries.reaches follows the *)
(* links of one hard reference attribute with an explicit stack.  It runs  *)
(* under the store's mutex, so the links do not change while it runs.  The *)
(* store's links are acyclic, but nothing here depends on it.              *)
(* MemoryStore takes this search as one step and says what it computes;    *)
(* this module shows that it does compute that, and in how many steps.     *)
(***************************************************************************)
EXTENDS Naturals, Sequences, FiniteSets, FiniteSetsExt

CONSTANTS
    Nodes,        \* resource ids
    Graphs        \* the targets of the attribute, for each resource, in their order

ASSUME GraphAssumption == IsFiniteSet(Nodes) /\ Graphs \subseteq [Nodes -> Seq(Nodes)]

VARIABLES
    links,        \* the graph that is searched
    from, goal,   \* the arguments
    pending,      \* the stack, its top last
    seen,         \* the resources whose links were pushed
    popped,       \* how many times the stack was popped
    result        \* "none" while the search runs

searchVars == <<links, from, goal, pending, seen, popped, result>>

Elements(s) == {s[k] : k \in 1..Len(s)}

\* What the search is for: every set that has `a` and is closed under links has `b`.
Reaches(a, b) ==
    \A S \in SUBSET Nodes :
        (a \in S /\ \A i \in S : Elements(links[i]) \subseteq S) => b \in S

-----------------------------------------------------------------------------
SearchInit ==
    /\ links \in Graphs
    /\ from \in Nodes
    /\ goal \in Nodes
    /\ pending = <<from>>
    /\ seen = {}
    /\ popped = 0
    /\ result = "none"

Top == pending[Len(pending)]
Rest == SubSeq(pending, 1, Len(pending) - 1)

\* Mutant: the resource the search starts from is not compared.
FoundLate == popped > 0 /\ Top = goal

\* if id == goal { return true }
Found == Top = goal

\* Mutant: what was seen is not consulted.
FreshAlways == TRUE

\* if !seen.Has(id)
Fresh == Top \notin seen

\* targetsOf(es[id].links, attribute)
Pushed == links[Top]

Pop ==
    /\ result = "none"
    /\ pending # <<>>
    /\ popped' = popped + 1
    /\ IF Found
       THEN result' = "found" /\ UNCHANGED <<pending, seen>>
       ELSE /\ IF Fresh
               THEN seen' = seen \cup {Top} /\ pending' = Rest \o Pushed
               ELSE seen' = seen /\ pending' = Rest
            /\ UNCHANGED result
    /\ UNCHANGED <<links, from, goal>>

Exhausted ==
    /\ result = "none"
    /\ pending = <<>>
    /\ result' = "unreachable"
    /\ UNCHANGED <<links, from, goal, pending, seen, popped>>

SearchNext == Pop \/ Exhausted

SearchSpec == SearchInit /\ [][SearchNext]_searchVars

-----------------------------------------------------------------------------
(* Properties. *)

(***************************************************************************)
(* The search answers reachability exactly: "found" when a path of links   *)
(* leads from one resource to the other, the resource itself included, and *)
(* "unreachable" when none does (entries.go reaches).                      *)
(***************************************************************************)
SearchExact ==
    /\ result = "found" => Reaches(from, goal)
    /\ result = "unreachable" => ~Reaches(from, goal)

(***************************************************************************)
(* However many paths lead to a resource, its links are pushed once: the   *)
(* stack is popped at most once per link, and once for the start.  Without *)
(* that, nested groups that share members make a membership change take    *)
(* exponential time with the store locked (entries.go seen).               *)
(***************************************************************************)
WorkBounded == popped <= 1 + MapThenSumSet(LAMBDA i : Len(links[i]), Nodes)

-----------------------------------------------------------------------------
(***************************************************************************)
(* Why the search is right (entries.go reaches): whatever is seen or       *)
(* pending is reachable from the start, the links of what is seen are seen *)
(* or pending, and the goal is not among what is seen.                     *)
(***************************************************************************)
SearchInv ==
    /\ links \in [Nodes -> Seq(Nodes)]
    /\ from \in Nodes /\ goal \in Nodes
    /\ pending \in Seq(Nodes)
    /\ seen \in SUBSET Nodes
    /\ popped \in Nat
    /\ result \in {"none", "found", "unreachable"}
    /\ \A i \in seen \cup Elements(pending) : Reaches(from, i)
    /\ from \in seen \cup Elements(pending)
    /\ \A i \in seen : Elements(links[i]) \subseteq seen \cup Elements(pending)
    /\ goal \notin seen
    /\ result = "found" => goal \in Elements(pending)
    /\ result = "unreachable" => pending = <<>>
=============================================================================
