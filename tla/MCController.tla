---------------------------- MODULE MCController ----------------------------
(***************************************************************************)
(* A Group with up to two members; the versions 1, 2 and 3.                *)
(*                                                                         *)
(* Beside it, what an answer shows: a behaviour is of the controller or of *)
(* the projection of one response, with the schemas of MCProjection.       *)
(***************************************************************************)
EXTENDS Controller, MCProjection

MCStamps == <<"1", "2", "3">>

MCConfigs == {c \in [versioning : BOOLEAN, patch : BOOLEAN] : c.versioning \/ c.patch}

MCBodies ==
    {[members |-> {}, label |-> "l"], [members |-> Members, label |-> "l"], [members |-> {"a"}, label |-> "k"]}

(* A strong tag, one with a comma in it, and one that is not closed.       *)
MCExtra == {<<Quote, "1", Quote>>, <<"W/", Quote, "2", ",", "x", Quote>>, <<Quote, "x">>}

Op(op, name, filter, member) ==
    [op |-> op, name |-> name, filter |-> filter, value |-> member, qualified |-> FALSE]

MCOperations ==
    {<<op>> : op \in {Op("add", "members", "eq", "a"), Op("replace", "members", "none", "a"),
                      Op("remove", "members", "none", "a"), Op("remove", "members", "not", "a"),
                      Op("add", "label", "none", "a"),
                      [Op("add", "members", "none", "b") EXCEPT !.qualified = TRUE]}}
      \cup {<<Op("add", "members", "none", m)>> : m \in Members}
      \cup {<<Op("add", "members", "none", m), Op("remove", "members", "eq", n)>> : m, n \in Members}

-----------------------------------------------------------------------------
VARIABLE of   \* what the behaviour is of

\* No request to the controller, and none for a response.
NoExchange ==
    /\ config = [versioning |-> FALSE, patch |-> FALSE]
    /\ resource = [state |-> "unborn", version |-> 1, body |-> CHOOSE body \in Bodies : TRUE]
    /\ shown = {} /\ exchange = Idle(<<>>)

NoResponse ==
    /\ schema = CHOOSE d \in Definitions : TRUE
    /\ document = Nothing /\ fetched = Nothing /\ response = Nothing
    /\ projection = Omitted /\ phase = "new"

MCInit ==
    \/ of = "controller" /\ Init /\ NoResponse
    \/ of = "projection" /\ ProjectionInit /\ NoExchange

MCNext ==
    /\ \/ of = "controller" /\ Next /\ UNCHANGED projectionVars
       \/ of = "projection" /\ ProjectionNext /\ UNCHANGED vars
    /\ UNCHANGED of

MCSpec == MCInit /\ [][MCNext]_<<vars, projectionVars, of>>
=============================================================================
