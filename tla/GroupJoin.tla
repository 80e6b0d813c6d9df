------------------------------ MODULE GroupJoin ------------------------------
(***************************************************************************)
(* Posting and joining a group (揪團): PostGroupViewController.postGroup   *)
(* and DetailGroupViewController.modifyCurrentPeopleNumber, run by several *)
(* devices against one Firestore collection, "GoodThingGroup".             *)
(*                                                                         *)
(* A join is a read-modify-write without a transaction: getDocument is     *)
(* asked (Tap), answered by the server (Answer), and only its callback     *)
(* (Callback) decides and issues setData, which reaches the server later   *)
(* (Commit).  Any step of any other device may fall in between.            *)
(*                                                                         *)
(* Firestore itself is external.  What the code uses of it: a device's     *)
(* writes go to the server in the order they were issued and survive being *)
(* offline; a device sees its own writes before they reach the server; a   *)
(* read may fail.                                                          *)
(***************************************************************************)
EXTENDS Integers, Sequences

CONSTANTS Devices,      \* running copies of the app
          GroupIds,     \* the document ids document() can still hand out
          Taps,         \* join-button taps of one device (a bound)
          LimitInputs,  \* what Int(peopleNumberLimitString) can return
          Ids,          \* user ids
          UserId,       \* the argument userId each device joins with
          NoGroup       \* "no such document"

ASSUME GroupJoinAssumption ==
    /\ LimitInputs \subseteq Int
    /\ UserId \in [Devices -> Ids]
    /\ NoGroup \notin GroupIds
    /\ {"Aaron", "Eric", "Hank", "Ella"} \subseteq Ids

VARIABLES groups,   \* the server's collection "GoodThingGroup"
          outbox,   \* per device: issued writes not yet at the server
          joins     \* per device and tap: the progress of its join

vars == <<groups, outbox, joins>>

(* The participants every posted group starts with. *)
Founders == <<"Aaron", "Eric", "Hank", "Ella">>

(* The fields of GoodThingGroup that joining reads or writes. *)
Group == [peopleNumberLimit : Int, currentPeopleNumber : Int,
          participants : Seq(Ids)]

ASSUME NoGroupAssumption == NoGroup \notin Group

Write == [group : GroupIds, data : Group]

Outcome == {"joined", "already", "full", "failed"}

Stage == {"idle", "asked", "answered"} \cup Outcome

Join == [stage : Stage, group : GroupIds \cup {NoGroup},
         data : Group \cup {NoGroup}]

Idle == [stage |-> "idle", group |-> NoGroup, data |-> NoGroup]

Contains(group, u) == \E i \in DOMAIN group.participants :
                          group.participants[i] = u

(* What device d sees of g when the server told it data: its own latest    *)
(* write, if one is still on its way.                                      *)
View(d, g, data) ==
    LET own == {i \in DOMAIN outbox[d] : outbox[d][i].group = g}
    IN  IF own = {} THEN data
        ELSE outbox[d][CHOOSE i \in own : \A j \in own : j <= i].data

Init == /\ groups = [g \in GroupIds |-> NoGroup]
        /\ outbox = [d \in Devices |-> <<>>]
        /\ joins = [d \in Devices |-> [t \in Taps |-> Idle]]

-----------------------------------------------------------------------------
Issue(d, g, data) ==
    outbox' = [outbox EXCEPT ![d] = Append(@, [group |-> g, data |-> data])]

UnissuedAtServer(g) == groups[g] = NoGroup

Unissued(g) == /\ groups[g] = NoGroup
               /\ \A d \in Devices : \A i \in DOMAIN outbox[d] :
                      outbox[d][i].group # g

NewGroup(limit) == [peopleNumberLimit |-> limit,
                    currentPeopleNumber |-> Len(Founders),
                    participants |-> Founders]

(* postGroup with all fields filled in and a numeric limit; otherwise it   *)
(* returns without a trace.  The limit may well be below four.             *)
PostGroup(d, g, limit) ==
    /\ Unissued(g)
    /\ Issue(d, g, NewGroup(limit))
    /\ UNCHANGED <<groups, joins>>

(* The join button of a detail page opened from the device's own list:     *)
(* getDocument is asked.                                                   *)
Tap(d, t, g) ==
    /\ joins[d][t].stage = "idle"
    /\ View(d, g, groups[g]) # NoGroup
    /\ joins' = [joins EXCEPT ![d][t] =
                     [stage |-> "asked", group |-> g, data |-> NoGroup]]
    /\ UNCHANGED <<groups, outbox>>

(* The server reads the document for the device. *)
Answer(d, t) ==
    /\ joins[d][t].stage = "asked"
    /\ joins' = [joins EXCEPT ![d][t].stage = "answered",
                              ![d][t].data = groups[joins[d][t].group]]
    /\ UNCHANGED <<groups, outbox>>

(* getDocument ends with an error, or the app is killed first: no alert,   *)
(* no write.                                                               *)
ReadFails(d, t) ==
    /\ joins[d][t].stage \in {"asked", "answered"}
    /\ joins' = [joins EXCEPT ![d][t].stage = "failed"]
    /\ UNCHANGED <<groups, outbox>>

AddWithoutCount(group, u) == [group EXCEPT !.participants = Append(@, u)]

AddCountOnly(group, u) == [group EXCEPT !.currentPeopleNumber = @ + 1]

AddParticipant(group, u) ==
    [group EXCEPT !.currentPeopleNumber = @ + 1,
                  !.participants = Append(@, u)]

CanJoinFull(group, u) == /\ ~ Contains(group, u)
                         /\ group.currentPeopleNumber <= group.peopleNumberLimit

CanJoin(group, u) == /\ ~ Contains(group, u)
                     /\ group.currentPeopleNumber < group.peopleNumberLimit

(* The callback of getDocument.  An outdated document is used as it is.    *)
(* The branch "already joined" does not return: it writes back what it     *)
(* read.                                                                   *)
Callback(d, t) ==
    LET g == joins[d][t].group
        group == View(d, g, joins[d][t].data)
        Alert(outcome) == joins' = [joins EXCEPT ![d][t].stage = outcome]
    IN  /\ joins[d][t].stage = "answered"
        /\ \/ /\ group = NoGroup
              /\ Alert("failed")
              /\ UNCHANGED outbox
           \/ /\ group # NoGroup
              /\ CanJoin(group, UserId[d])
              /\ Alert("joined")
              /\ Issue(d, g, AddParticipant(group, UserId[d]))
           \/ /\ group # NoGroup
              /\ ~ CanJoin(group, UserId[d])
              /\ Contains(group, UserId[d])
              /\ Alert("already")
              /\ Issue(d, g, group)
           \/ /\ group # NoGroup
              /\ ~ CanJoin(group, UserId[d])
              /\ ~ Contains(group, UserId[d])
              /\ Alert("full")
              /\ UNCHANGED outbox
        /\ UNCHANGED groups

(* setData reaches the server: the whole document is replaced.  The device *)
(* knows the version it wrote and ignores an older answer to a read.       *)
Commit(d) ==
    /\ outbox[d] # <<>>
    /\ LET w == Head(outbox[d])
           Newer(j) == IF j.stage = "answered" /\ j.group = w.group
                       THEN [j EXCEPT !.data = w.data] ELSE j
       IN  /\ groups' = [groups EXCEPT ![w.group] = w.data]
           /\ joins' = [joins EXCEPT ![d] = [t \in Taps |-> Newer(@[t])]]
    /\ outbox' = [outbox EXCEPT ![d] = Tail(@)]

Next == \E d \in Devices :
            \/ \E g \in GroupIds, limit \in LimitInputs : PostGroup(d, g, limit)
            \/ \E t \in Taps, g \in GroupIds : Tap(d, t, g)
            \/ \E t \in Taps : Answer(d, t) \/ ReadFails(d, t) \/ Callback(d, t)
            \/ Commit(d)

(* A write that was issued is retried until it reaches the server. *)
Fairness == \A d \in Devices : WF_vars(Commit(d))

Spec == Init /\ [][Next]_vars /\ Fairness

-----------------------------------------------------------------------------
TypeOK == /\ groups \in [GroupIds -> Group \cup {NoGroup}]
          /\ outbox \in [Devices -> Seq(Write)]
          /\ joins \in [Devices -> [Taps -> Join]]
          /\ \A d \in Devices, t \in Taps :
                 joins[d][t] = Idle \/ joins[d][t].group \in GroupIds

(* A document somebody could join by: the count is the number of           *)
(* participants, nobody is listed twice, and the limit is exceeded only by *)
(* the founders themselves.                                                *)
Sound(group) ==
    /\ group.currentPeopleNumber = Len(group.participants)
    /\ \A i, j \in DOMAIN group.participants :
           group.participants[i] = group.participants[j] => i = j
    /\ \/ group.currentPeopleNumber <= group.peopleNumberLimit
       \/ group.participants = Founders

(* Joins that overlap in any way (modifyCurrentPeopleNumber has no         *)
(* transaction and writes back outdated documents) never leave a document  *)
(* whose count is wrong, that lists a participant twice, or that took a    *)
(* participant beyond peopleNumberLimit: not at the server, not on its way *)
(* there, and not in a callback's hands.                                   *)
GroupsSound ==
    /\ \A g \in GroupIds : groups[g] # NoGroup => Sound(groups[g])
    /\ \A d \in Devices : \A i \in DOMAIN outbox[d] : Sound(outbox[d][i].data)
    /\ \A d \in Devices, t \in Taps :
           joins[d][t].data # NoGroup => Sound(joins[d][t].data)

(* A posted group never disappears and its limit is never changed by the   *)
(* whole-document setData of a join, however old the document it read.     *)
TermsKept ==
    [][\A g \in GroupIds : groups[g] # NoGroup =>
           /\ groups'[g] # NoGroup
           /\ groups'[g].peopleNumberLimit = groups[g].peopleNumberLimit]_vars

(* The alert "揪團加入成功！" is shown before anything is written.  Even so *)
(* the join it announces reaches the server's document.                    *)
AnnouncedJoinsArrive ==
    \A d \in Devices, t \in Taps, g \in GroupIds :
        (joins[d][t].stage = "joined" /\ joins[d][t].group = g)
            ~> (groups[g] # NoGroup /\ Contains(groups[g], UserId[d]))

(* The roster of each group, as GroupMembership sees it. *)
Roster == [g \in GroupIds |->
              IF groups[g] = NoGroup THEN NoGroup
              ELSE [limit |-> groups[g].peopleNumberLimit,
                    members |-> groups[g].participants]]

ASSUME NoRosterAssumption == NoGroup \notin [limit : Int, members : Seq(Ids)]

Membership == INSTANCE GroupMembership WITH roster <- Roster

(* With one user id the read, the decision and the write of                *)
(* modifyCurrentPeopleNumber look like one atomic join: the server's       *)
(* document moves as GroupMembership allows.                               *)
ImplementsMembership == Membership!Spec
=============================================================================
