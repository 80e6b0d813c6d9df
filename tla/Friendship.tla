----------------------------- MODULE Friendship -----------------------------
(***************************************************************************)
(* What addFriend is meant to do to the documents of GoodThingUsers: two   *)
(* users who both have a document get each other into their lists of       *)
(* friends, in one step, and no friend is ever lost.                       *)
(***************************************************************************)
CONSTANT User

VARIABLES present,   \* the users that have a document
          friends    \* friends[u]: the list of friends of u's document

vars == <<present, friends>>

Init ==
  /\ present \in SUBSET User
  /\ friends = [u \in User |-> {}]

Create(u) ==
  /\ present' = present \cup {u}
  /\ UNCHANGED friends

\* Each of the two is added to the list of the other; u and v may be one.
Befriend(u, v) ==
  /\ {u, v} \subseteq present
  /\ friends' = [w \in User |->
        friends[w] \cup {x \in {u, v} : <<w, x>> \in {<<u, v>>, <<v, u>>}}]
  /\ UNCHANGED present

Next == \E u \in User : Create(u) \/ \E v \in User : Befriend(u, v)

Spec == Init /\ [][Next]_vars

(* Friendship is mutual.                                                   *)
Mutual == \A u, v \in User : v \in friends[u] => u \in friends[v]
=============================================================================
