--------------------------- MODULE GroupMembership ---------------------------
(***************************************************************************)
(* What joining a group promises, without devices, reads or writes: a      *)
(* posted group keeps its limit, and a join adds one new member at the end *)
(* while there is room.                                                    *)
(***************************************************************************)
EXTENDS Integers, Sequences

CONSTANTS GroupIds, LimitInputs, Ids, Founders, NoGroup

VARIABLE roster

Init == roster = [g \in GroupIds |-> NoGroup]

Post(g, limit) ==
    /\ roster[g] = NoGroup
    /\ roster' = [roster EXCEPT ![g] = [limit |-> limit, members |-> Founders]]

Join(g, u) ==
    /\ roster[g] # NoGroup
    /\ \A i \in DOMAIN roster[g].members : roster[g].members[i] # u
    /\ Len(roster[g].members) < roster[g].limit
    /\ roster' = [roster EXCEPT ![g].members = Append(@, u)]

Next == \E g \in GroupIds :
            \/ \E limit \in LimitInputs : Post(g, limit)
            \/ \E u \in Ids : Join(g, u)

Spec == Init /\ [][Next]_roster
=============================================================================
