------------------------------ MODULE FriendList ------------------------------
(***************************************************************************)
(* The friend list page, UserFriendListViewController: one read of the     *)
(* user's own document, then one read per friend, answered in any order,   *)
(* each answer appending a row.  The list of friends is the one            *)
(* registration writes and addFriend extends.                              *)
(***************************************************************************)
EXTENDS Integers, Sequences

CONSTANTS Friends,   \* ids of users the task page may befriend
          EmptyId    \* the string ""

VARIABLES friends,   \* server: the field "friends" of the user's document
          stage,     \* the page: "closed", "asked", "listed" or "trapped"
          pending,   \* friends whose documents were asked for
          details    \* friendDetails

vars == <<friends, stage, pending, details>>

Contains(s, x) == \E i \in DOMAIN s : s[i] = x

(* postUserData, and saveUserInfoToFirestore alike: "friends": [""]. *)
Init == /\ friends = <<EmptyId>>
        /\ stage = "closed"
        /\ pending = {}
        /\ details = <<>>

(* addFriend, on this or on the friend's device. *)
AddFriend(v) ==
    /\ ~ Contains(friends, v)
    /\ friends' = Append(friends, v)
    /\ UNCHANGED <<stage, pending, details>>

(* viewDidLoad: fetchFriendDetails asks for the user's own document. *)
OpenPage ==
    /\ stage # "trapped"
    /\ stage' = "asked"
    /\ pending' = {}
    /\ details' = <<>>
    /\ UNCHANGED friends

(* Its callback: nothing after an error, for a missing document or a list  *)
(* that does not parse; else fetchUserDetails for one id after the other.  *)
(* An empty id ends in the exception of document("").                      *)
FriendsCallback ==
    /\ stage = "asked"
    /\ \/ stage' = "listed" /\ UNCHANGED pending
       \/ /\ Contains(friends, EmptyId)
          /\ stage' = "trapped"
          /\ UNCHANGED pending
       \/ /\ ~ Contains(friends, EmptyId)
          /\ stage' = "listed"
          /\ pending' = {friends[i] : i \in DOMAIN friends}
    /\ UNCHANGED <<friends, details>>

(* A friend's document arrives and is appended, or it is missing. *)
DetailsCallback(v) ==
    /\ stage = "listed" /\ v \in pending
    /\ pending' = pending \ {v}
    /\ details' = Append(details, v) \/ UNCHANGED details
    /\ UNCHANGED <<friends, stage>>

Next == \/ OpenPage
        \/ FriendsCallback
        \/ \E v \in Friends : AddFriend(v) \/ DetailsCallback(v)

Spec == Init /\ [][Next]_vars

(* Firestore raises "Document path cannot be empty." for document("") and  *)
(* the app ends: fetchFriendDetails never asks for it.                     *)
NeverEmptyPath == stage # "trapped"
=============================================================================
