----------------------------- MODULE MCAddFriend -----------------------------
EXTENDS AddFriend, TLC
CONSTANTS ann, bob, cai, r1, r2

MCUser == {ann, bob, cai}
MCRequest == {r1, r2}

\* The same pair from both sides, two pairs that share a user in each of the
\* positions, and users who answer their own task.
MCPairings == {r1 :> <<ann, bob>> @@ r2 :> p :
                 p \in {<<ann, bob>>, <<bob, ann>>, <<bob, cai>>, <<ann, cai>>,
                        <<bob, bob>>}}
=============================================================================
