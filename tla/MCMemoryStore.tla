--------------------------- MODULE MCMemoryStore ---------------------------
(***************************************************************************)
(* The store with the schemas the server registers: User.userName is       *)
(* required and unique, User.manager is a soft reference to a User, and    *)
(* Group.members is a hard reference to Users and Groups.                  *)
(*                                                                         *)
(* Beside it, two algorithms that the store runs under its lock; a         *)
(* behaviour is of the store or of one of them.                            *)
(*                                                                         *)
(* The search that the check for cycles makes, one pop of its stack at a   *)
(* time: its graphs are those over four resources whose links go from a    *)
(* lower number to a higher one, in each order a list of targets may have  *)
(* (every acyclic graph is one of these up to renaming), and a fifth       *)
(* resource that no search reaches, so that a search can go through the    *)
(* whole graph; and a few graphs with cycles.                              *)
(*                                                                         *)
(* Queries, page by page: three resources, each with nothing, with one     *)
(* value of each attribute, or with two of which the first sorts before    *)
(* the single one and the primary one after it; every attribute to sort    *)
(* by, in both directions, and the page sizes and first indexes at which   *)
(* the limits bite.                                                        *)
(***************************************************************************)
EXTENDS MemoryStore, ReachesSearch, Listing, TLC

MCKinds == {"User", "Group"}
MCReferences == {"members", "manager"}
MCSoft == {"manager"}
MCHolder == [a \in MCReferences |-> IF a = "members" THEN "Group" ELSE "User"]
MCTypes == [a \in MCReferences |-> IF a = "members" THEN {"User", "Group"} ELSE {"User"}]
MCKeys == [k \in MCKinds |-> IF k = "User" THEN {{n} : n \in Names} ELSE {{}}]

Symmetry == Permutations(Ids \ Foreign) \cup Permutations(Names)

MCNodes == 1..5

MCGraphs ==
    {<<a, b, c, <<>>, <<>>>> : a \in SetToAllKPermutations({2, 3, 4}),
                               b \in SetToAllKPermutations({3, 4}),
                               c \in SetToAllKPermutations({4})}
      \cup {<<<<2, 3>>, <<1, 3>>, <<4, 1>>, d, <<>>>> : d \in {<<>>, <<3>>, <<4>>, <<2, 1>>}}
      \cup {<<<<1>>, <<>>, <<>>, <<>>, <<>>>>, <<<<2>>, <<1>>, <<>>, <<>>, <<>>>>}

MCRowIds == 1..3

One(v) == [object |-> TRUE, value |-> v, primary |-> Missing]
Main(v) == [One(v) EXCEPT !.primary = Yes]
Plain(v) == [One(v) EXCEPT !.object = FALSE]

Row(title, emails, tags) == [title |-> title, emails |-> emails, tags |-> tags]

Bare == Row(Missing, <<>>, <<>>)
Single == Row(2, <<[One(2) EXCEPT !.primary = No]>>, <<Plain(2)>>)
Double == Row(1, <<One(1), Main(3)>>, <<Plain(1), Plain(3)>>)

MCRows == {Bare, Single, Double}

MCQueries ==
    {q \in [filter : {MCRows, MCRows \ {Single}}, sortBy : SortBy, descending : BOOLEAN,
            startIndex : {-1, 1, 2, 9}, count : {-1, 1, 9}] :
        /\ q.sortBy = "none" => ~q.descending
        /\ q.sortBy # "value" => q.filter = MCRows /\ q.startIndex = 1 /\ q.count # -1
        /\ q.startIndex \in {-1, 9} => q.count = 1
        /\ q.count = -1 => q.startIndex = 1
        /\ q.filter # MCRows => q.startIndex = 1 /\ q.count = 1}

-----------------------------------------------------------------------------
VARIABLE of   \* what the behaviour is of

NoSearch ==
    /\ links = [i \in Nodes |-> <<>>]
    /\ from = 1 /\ goal = 2
    /\ pending = <<>> /\ seen = {} /\ popped = 0
    /\ result = "none"

NoListing ==
    /\ table = [i \in RowIds |-> Absent]
    /\ allotted = {} /\ writes = 0 /\ walk = NoWalk

MCInit ==
    /\ Init
    /\ \/ of = "store" /\ NoSearch /\ NoListing
       \/ of = "search" /\ SearchInit /\ NoListing
       \/ of = "queries" /\ ListingInit /\ NoSearch

MCNext ==
    /\ \/ of = "store" /\ Next /\ UNCHANGED <<searchVars, listingVars>>
       \/ of = "search" /\ SearchNext /\ UNCHANGED <<vars, listingVars>>
       \/ of = "queries" /\ ListingNext /\ UNCHANGED <<vars, searchVars>>
    /\ UNCHANGED of

MCSpec == MCInit /\ [][MCNext]_<<vars, searchVars, listingVars, of>>
=============================================================================
