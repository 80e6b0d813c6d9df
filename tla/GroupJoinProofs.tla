--------------------------- MODULE GroupJoinProofs ---------------------------
(***************************************************************************)
(* Proofs about GroupJoin, for any number of devices, groups, taps and     *)
(* limits and for every assignment of user ids to devices; the refinement  *)
(* of GroupMembership for any assignment of one id to all of them.         *)
(***************************************************************************)
EXTENDS GroupJoin, WellFoundedInduction, TLAPS

-----------------------------------------------------------------------------
(* The operators a join is made of. *)

(* The founders are four pairwise different ids. *)
LEMMA FoundersFacts ==
    /\ Founders \in Seq(Ids)
    /\ Len(Founders) = 4
    /\ \A i, j \in DOMAIN Founders : Founders[i] = Founders[j] => i = j
BY GroupJoinAssumption DEF Founders

(* A non-empty set of positions of a sequence has a last one. *)
LEMMA LastPosition ==
    ASSUME NEW n \in Nat, NEW P, P \subseteq 1 .. n, P # {}
    PROVE  \E i \in P : \A j \in P : j <= i
<1> DEFINE T == {k \in Nat : n - k \in P}
           R == OpToRel(<, Nat)
<1>1. T \subseteq Nat
  OBVIOUS
<1>2. T # {}
  <2>1. PICK i \in P : TRUE
    OBVIOUS
  <2>2. i \in 1 .. n
    OBVIOUS
  <2>3. n - i \in T
    BY <2>2
  <2> QED
    BY <2>3
<1>3. IsWellFoundedOn(R, Nat)
  BY NatLessThanWellFounded
<1> HIDE DEF R
<1>4. PICK x \in T : \A y \in T : <<y, x>> \notin R
  BY <1>1, <1>2, <1>3, WFMin
<1>5. \A y \in T : ~ (y < x)
  BY <1>4 DEF R, OpToRel
<1>6. ASSUME NEW j \in P PROVE j <= n - x
  <2>1. j \in 1 .. n
    OBVIOUS
  <2>2. n - j \in T
    BY <2>1
  <2>3. ~ (n - j < x)
    BY <1>5, <2>2
  <2> QED
    BY <2>1, <2>3
<1> QED
  BY <1>6

(* A device sees the data it was told or one of its own pending writes. *)
LEMMA ViewIsSeen ==
    ASSUME TypeOK, NEW d \in Devices, NEW g \in GroupIds, NEW data
    PROVE  \/ View(d, g, data) = data
           \/ \E i \in DOMAIN outbox[d] :
                  outbox[d][i].group = g /\ View(d, g, data) = outbox[d][i].data
<1> DEFINE own == {i \in DOMAIN outbox[d] : outbox[d][i].group = g}
<1>1. CASE own = {}
  BY <1>1 DEF View
<1>2. CASE own # {}
  <2>1. /\ Len(outbox[d]) \in Nat
        /\ own \subseteq 1 .. Len(outbox[d])
    BY DEF TypeOK
  <2>2. \E i \in own : \A j \in own : j <= i
    BY <1>2, <2>1, LastPosition
  <2> QED
    BY <1>2, <2>2 DEF View
<1> QED
  BY <1>1, <1>2

(* What a device sees of a group is a group if what it was told is. *)
LEMMA ViewType ==
    ASSUME TypeOK, NEW d \in Devices, NEW g \in GroupIds,
           NEW data \in Group \cup {NoGroup}
    PROVE  View(d, g, data) \in Group \cup {NoGroup}
<1>1. \A i \in DOMAIN outbox[d] : outbox[d][i] \in Write
  BY DEF TypeOK
<1>2. \A i \in DOMAIN outbox[d] : outbox[d][i].data \in Group
  BY <1>1 DEF Write
<1> QED
  BY <1>2, ViewIsSeen

(* The fields of a group a user was added to. *)
LEMMA AddParticipantType ==
    ASSUME NEW group \in Group, NEW u \in Ids
    PROVE  LET new == AddParticipant(group, u)
           IN  /\ new \in Group
               /\ new.peopleNumberLimit = group.peopleNumberLimit
               /\ new.currentPeopleNumber = group.currentPeopleNumber + 1
               /\ new.participants = Append(group.participants, u)
<1> DEFINE new == AddParticipant(group, u)
           n == group.currentPeopleNumber + 1
           q == Append(group.participants, u)
<1>1. n \in Int /\ q \in Seq(Ids)
  BY DEF Group
<1>2. new = [group EXCEPT !.currentPeopleNumber = n, !.participants = q]
  BY DEF AddParticipant
<1> HIDE DEF n, q, new
<1>3. /\ new \in Group
      /\ new.peopleNumberLimit = group.peopleNumberLimit
      /\ new.currentPeopleNumber = n
      /\ new.participants = q
  BY <1>1, <1>2 DEF Group
<1> QED
  BY <1>3 DEF n, q, new

(* Joining a sound group there is room in leaves a sound group. *)
LEMMA AddParticipantSound ==
    ASSUME NEW group \in Group, Sound(group), NEW u \in Ids, CanJoin(group, u)
    PROVE  Sound(AddParticipant(group, u))
<1> DEFINE p == group.participants
           new == AddParticipant(group, u)
<1>1. /\ p \in Seq(Ids)
      /\ group.currentPeopleNumber \in Int
      /\ group.peopleNumberLimit \in Int
  BY DEF Group
<1>2. /\ new.peopleNumberLimit = group.peopleNumberLimit
      /\ new.currentPeopleNumber = group.currentPeopleNumber + 1
      /\ new.participants = Append(p, u)
  BY AddParticipantType
<1> HIDE DEF new
<1>3. new.currentPeopleNumber = Len(new.participants)
  BY <1>1, <1>2 DEF Sound
<1>4. ASSUME NEW i \in DOMAIN new.participants, NEW j \in DOMAIN new.participants,
             new.participants[i] = new.participants[j]
      PROVE  i = j
  BY <1>1, <1>2, <1>4 DEF Sound, CanJoin, Contains
<1>5. new.currentPeopleNumber <= new.peopleNumberLimit
  BY <1>1, <1>2 DEF CanJoin
<1> QED
  BY <1>3, <1>4, <1>5 DEF Sound, new

(* A new group is sound whatever its limit. *)
LEMMA NewGroupSound ==
    ASSUME NEW limit \in LimitInputs
    PROVE  NewGroup(limit) \in Group /\ Sound(NewGroup(limit))
BY GroupJoinAssumption, FoundersFacts DEF NewGroup, Group, Sound

-----------------------------------------------------------------------------
(* Type correctness. *)

(* Every behaviour starts in it. *)
LEMMA InitType == Init => TypeOK
BY DEF Init, TypeOK, Idle, Join, Stage

(* What a write that is issued changes. *)
LEMMA IssueFrame ==
    ASSUME TypeOK, NEW d \in Devices, NEW g \in GroupIds, NEW data \in Group,
           Issue(d, g, data)
    PROVE  /\ outbox' \in [Devices -> Seq(Write)]
           /\ \A e \in Devices : \A i \in DOMAIN outbox'[e] :
                  \/ i \in DOMAIN outbox[e] /\ outbox'[e][i] = outbox[e][i]
                  \/ e = d /\ outbox'[e][i] = [group |-> g, data |-> data]
           /\ \A e \in Devices : \A i \in DOMAIN outbox[e] :
                  i \in DOMAIN outbox'[e] /\ outbox'[e][i] = outbox[e][i]
<1> DEFINE w == [group |-> g, data |-> data]
<1>1. w \in Write
  BY DEF Write
<1>2. outbox \in [Devices -> Seq(Write)]
  BY DEF TypeOK
<1>3. outbox' = [outbox EXCEPT ![d] = Append(outbox[d], w)]
  BY <1>2 DEF Issue
<1> HIDE DEF w
<1> QED
  BY <1>1, <1>2, <1>3 DEF w

(* What a new stage of one join changes. *)
LEMMA StageFrame ==
    ASSUME TypeOK, NEW d \in Devices, NEW t \in Taps, NEW s \in Stage,
           joins[d][t].stage # "idle",
           joins' = [joins EXCEPT ![d][t].stage = s]
    PROVE  /\ joins' \in [Devices -> [Taps -> Join]]
           /\ \A e \in Devices, x \in Taps :
                  /\ joins'[e][x].group = joins[e][x].group
                  /\ joins'[e][x].data = joins[e][x].data
                  /\ joins'[e][x] = joins[e][x] \/ joins[e][x].group \in GroupIds
<1>1. joins \in [Devices -> [Taps -> Join]]
  BY DEF TypeOK
<1>2. [joins[d][t] EXCEPT !.stage = s] \in Join
  <2>1. joins[d][t] \in Join
    BY <1>1
  <2> QED
    BY <2>1 DEF Join
<1>3. joins[d][t].group \in GroupIds
  BY DEF TypeOK, Idle
<1> QED
  BY <1>1, <1>2, <1>3 DEF Join

(* What an answer of the server changes. *)
LEMMA AnswerFrame ==
    ASSUME TypeOK, NEW d \in Devices, NEW t \in Taps, Answer(d, t)
    PROVE  /\ joins' \in [Devices -> [Taps -> Join]]
           /\ joins[d][t].group \in GroupIds
           /\ \A e \in Devices, x \in Taps :
                  \/ joins'[e][x] = joins[e][x]
                  \/ /\ joins'[e][x].group = joins[d][t].group
                     /\ joins'[e][x].data = groups[joins[d][t].group]
<1> DEFINE g == joins[d][t].group
           new == [joins[d][t] EXCEPT !.stage = "answered", !.data = groups[g]]
<1>1. joins[d][t] \in Join /\ g \in GroupIds
  BY DEF Answer, TypeOK, Idle
<1>2. groups[g] \in Group \cup {NoGroup}
  BY <1>1 DEF TypeOK
<1>3. new \in Join /\ new.group = g /\ new.data = groups[g]
  BY <1>1, <1>2 DEF Join, Stage
<1>4. joins' = [joins EXCEPT ![d][t] = new]
  BY DEF Answer, TypeOK
<1> HIDE DEF new
<1> QED
  BY <1>1, <1>3, <1>4 DEF TypeOK

(* What a write that reaches the server changes. *)
LEMMA CommitFrame ==
    ASSUME TypeOK, NEW d \in Devices, Commit(d),
           NEW w, w = Head(outbox[d])
    PROVE  /\ 1 \in DOMAIN outbox[d] /\ w = outbox[d][1]
           /\ w.group \in GroupIds /\ w.data \in Group
           /\ groups' = [groups EXCEPT ![w.group] = w.data]
           /\ outbox' \in [Devices -> Seq(Write)]
           /\ \A e \in Devices : \A i \in DOMAIN outbox'[e] :
                  \/ e # d /\ i \in DOMAIN outbox[e] /\ outbox'[e][i] = outbox[e][i]
                  \/ e = d /\ i + 1 \in DOMAIN outbox[e] /\ outbox'[e][i] = outbox[e][i + 1]
           /\ joins' \in [Devices -> [Taps -> Join]]
           /\ \A e \in Devices, x \in Taps :
                  /\ joins'[e][x].group = joins[e][x].group
                  /\ \/ joins'[e][x] = joins[e][x]
                     \/ joins[e][x].group = w.group /\ joins'[e][x].data = w.data
<1> DEFINE new(t) == IF joins[d][t].stage = "answered" /\ joins[d][t].group = w.group
                     THEN [joins[d][t] EXCEPT !.data = w.data] ELSE joins[d][t]
<1>1. outbox[d] \in Seq(Write) /\ outbox[d] # <<>>
  BY DEF Commit, TypeOK
<1>2. w \in Write /\ w = outbox[d][1] /\ 1 \in DOMAIN outbox[d]
  BY <1>1
<1>3. w.group \in GroupIds /\ w.data \in Group
  BY <1>2 DEF Write
<1>4. /\ groups' = [groups EXCEPT ![w.group] = w.data]
      /\ outbox' = [outbox EXCEPT ![d] = Tail(outbox[d])]
      /\ joins' = [joins EXCEPT ![d] = [t \in Taps |-> new(t)]]
  BY DEF Commit
<1>5. ASSUME NEW t \in Taps
      PROVE  /\ new(t) \in Join
             /\ new(t).group = joins[d][t].group
             /\ \/ new(t) = joins[d][t]
                \/ joins[d][t].group = w.group /\ new(t).data = w.data
  <2>1. joins[d][t] \in Join
    BY DEF TypeOK
  <2> QED
    BY <1>3, <2>1 DEF Join
<1> HIDE DEF new
<1>6. \A e \in Devices, x \in Taps :
          joins'[e][x] = IF e = d THEN new(x) ELSE joins[e][x]
  BY <1>4 DEF TypeOK
<1>7. joins' \in [Devices -> [Taps -> Join]]
  BY <1>4, <1>5 DEF TypeOK
<1>8. outbox' \in [Devices -> Seq(Write)]
  BY <1>1, <1>4 DEF TypeOK
<1>9. ASSUME NEW e \in Devices, NEW i \in DOMAIN outbox'[e]
      PROVE  \/ e # d /\ i \in DOMAIN outbox[e] /\ outbox'[e][i] = outbox[e][i]
             \/ e = d /\ i + 1 \in DOMAIN outbox[e] /\ outbox'[e][i] = outbox[e][i + 1]
  <2>1. CASE e # d
    BY <1>4, <2>1 DEF TypeOK
  <2>2. CASE e = d
    <3>1. outbox'[e] = Tail(outbox[d])
      BY <1>4, <2>2 DEF TypeOK
    <3> QED
      BY <1>1, <2>2, <3>1
  <2> QED
    BY <2>1, <2>2
<1> QED
  BY <1>2, <1>3, <1>4, <1>5, <1>6, <1>7, <1>8, <1>9

(* A callback either leaves the outbox alone or issues one write of a      *)
(* document it saw, with the user appended if there was room.              *)
LEMMA CallbackFrame ==
    ASSUME TypeOK, NEW d \in Devices, NEW t \in Taps, Callback(d, t),
           NEW g, g = joins[d][t].group,
           NEW group, group = View(d, g, joins[d][t].data)
    PROVE  /\ g \in GroupIds
           /\ joins[d][t].stage # "idle"
           /\ \E s \in Stage : joins' = [joins EXCEPT ![d][t].stage = s]
           /\ \/ UNCHANGED outbox
              \/ /\ group \in Group
                 /\ CanJoin(group, UserId[d])
                 /\ Issue(d, g, AddParticipant(group, UserId[d]))
              \/ /\ group \in Group
                 /\ Contains(group, UserId[d])
                 /\ Issue(d, g, group)
<1>1. g \in GroupIds /\ joins[d][t].stage # "idle" /\ joins[d][t] \in Join
  BY DEF Callback, TypeOK, Idle
<1>2. joins[d][t].data \in Group \cup {NoGroup}
  BY <1>1 DEF Join
<1>3. group \in Group \cup {NoGroup}
  BY <1>1, <1>2, ViewType
<1>4. \E s \in Outcome : joins' = [joins EXCEPT ![d][t].stage = s]
  BY DEF Callback, Outcome
<1> QED
  BY <1>1, <1>3, <1>4 DEF Callback, Stage

(* Every step preserves it. *)
LEMMA NextType == TypeOK /\ [Next]_vars => TypeOK'
<1> SUFFICES ASSUME TypeOK, [Next]_vars PROVE TypeOK'
  OBVIOUS
<1>1. ASSUME NEW d \in Devices, NEW g \in GroupIds, NEW limit \in LimitInputs,
             PostGroup(d, g, limit)
      PROVE  TypeOK'
  BY <1>1, NewGroupSound, IssueFrame DEF PostGroup, TypeOK
<1>2. ASSUME NEW d \in Devices, NEW t \in Taps, NEW g \in GroupIds, Tap(d, t, g)
      PROVE  TypeOK'
  <2> DEFINE new == [stage |-> "asked", group |-> g, data |-> NoGroup]
  <2>1. new \in Join
    BY DEF Join, Stage
  <2>2. joins' \in [Devices -> [Taps -> Join]]
    BY <1>2, <2>1 DEF Tap, TypeOK
  <2>3. \A e \in Devices, x \in Taps : joins'[e][x] \in {new, joins[e][x]}
    BY <1>2 DEF Tap, TypeOK
  <2> QED
    BY <1>2, <2>2, <2>3 DEF Tap, TypeOK
<1>3. ASSUME NEW d \in Devices, NEW t \in Taps, Answer(d, t)
      PROVE  TypeOK'
  <2>1. /\ joins' \in [Devices -> [Taps -> Join]]
        /\ joins[d][t].group \in GroupIds
        /\ \A e \in Devices, x \in Taps :
               \/ joins'[e][x] = joins[e][x]
               \/ /\ joins'[e][x].group = joins[d][t].group
                  /\ joins'[e][x].data = groups[joins[d][t].group]
    BY <1>3, AnswerFrame
  <2> QED
    BY <1>3, <2>1 DEF Answer, TypeOK
<1>4. ASSUME NEW d \in Devices, NEW t \in Taps, ReadFails(d, t)
      PROVE  TypeOK'
  <2>1. "failed" \in Stage
    BY DEF Stage, Outcome
  <2>2. /\ joins' \in [Devices -> [Taps -> Join]]
        /\ \A e \in Devices, x \in Taps :
               /\ joins'[e][x].group = joins[e][x].group
               /\ joins'[e][x] = joins[e][x] \/ joins[e][x].group \in GroupIds
    BY <1>4, <2>1, StageFrame DEF ReadFails
  <2> QED
    BY <1>4, <2>2 DEF ReadFails, TypeOK
<1>5. ASSUME NEW d \in Devices, NEW t \in Taps, Callback(d, t)
      PROVE  TypeOK'
  <2> DEFINE g == joins[d][t].group
             group == View(d, g, joins[d][t].data)
  <2>1. /\ g \in GroupIds
        /\ joins[d][t].stage # "idle"
        /\ \E s \in Stage : joins' = [joins EXCEPT ![d][t].stage = s]
        /\ \/ UNCHANGED outbox
           \/ group \in Group /\ Issue(d, g, AddParticipant(group, UserId[d]))
           \/ group \in Group /\ Issue(d, g, group)
    BY <1>5, CallbackFrame
  <2>2. group \in Group => AddParticipant(group, UserId[d]) \in Group
    BY GroupJoinAssumption, AddParticipantType
  <2> HIDE DEF group
  <2>3. outbox' \in [Devices -> Seq(Write)]
    BY <2>1, <2>2, IssueFrame DEF TypeOK
  <2> QED
    BY <1>5, <2>1, <2>3, StageFrame DEF Callback, TypeOK
<1>6. ASSUME NEW d \in Devices, Commit(d)
      PROVE  TypeOK'
  <2> DEFINE w == Head(outbox[d])
  <2>1. /\ w.group \in GroupIds /\ w.data \in Group
        /\ groups' = [groups EXCEPT ![w.group] = w.data]
        /\ outbox' \in [Devices -> Seq(Write)]
        /\ joins' \in [Devices -> [Taps -> Join]]
        /\ \A e \in Devices, x \in Taps :
               \/ joins'[e][x] = joins[e][x]
               \/ joins'[e][x].group = w.group
    BY <1>6, CommitFrame
  <2> HIDE DEF w
  <2> QED
    BY <2>1 DEF TypeOK
<1>7. CASE UNCHANGED vars
  BY <1>7 DEF vars, TypeOK
<1> QED
  BY <1>1, <1>2, <1>3, <1>4, <1>5, <1>6, <1>7 DEF Next

-----------------------------------------------------------------------------
(* Copies of a group and where they come from. *)

(* data is some copy of group g: the server's, one on its way there, or    *)
(* one a join was told.                                                    *)
IsCopy(g, data) ==
    \/ groups[g] = data
    \/ \E d \in Devices : \E i \in DOMAIN outbox[d] :
           outbox[d][i].group = g /\ outbox[d][i].data = data
    \/ \E d \in Devices, t \in Taps :
           joins[d][t].group = g /\ joins[d][t].data = data

(* After a step every copy is an old one, an old one with the device's     *)
(* user appended, or that of a newly posted group.  So what holds of all   *)
(* copies need only be checked for these.                                  *)
LEMMA CopyStep ==
    ASSUME TypeOK, [Next]_vars,
           NEW g \in GroupIds, NEW data \in Group, IsCopy(g, data)'
    PROVE  \/ IsCopy(g, data)
           \/ \E d \in Devices, old \in Group :
                  /\ IsCopy(g, old)
                  /\ CanJoin(old, UserId[d])
                  /\ data = AddParticipant(old, UserId[d])
           \/ \E d \in Devices, limit \in LimitInputs :
                  PostGroup(d, g, limit) /\ data = NewGroup(limit)
<1>1. ASSUME NEW d \in Devices, NEW h \in GroupIds, NEW limit \in LimitInputs,
             PostGroup(d, h, limit)
      PROVE  \/ IsCopy(g, data)
             \/ PostGroup(d, g, limit) /\ data = NewGroup(limit)
  <2>1. NewGroup(limit) \in Group
    BY NewGroupSound
  <2>2. Issue(d, h, NewGroup(limit)) /\ groups' = groups /\ joins' = joins
    BY <1>1 DEF PostGroup
  <2>3. \A e \in Devices : \A i \in DOMAIN outbox'[e] :
            \/ i \in DOMAIN outbox[e] /\ outbox'[e][i] = outbox[e][i]
            \/ outbox'[e][i] = [group |-> h, data |-> NewGroup(limit)]
    BY <2>1, <2>2, IssueFrame
  <2>4. IsCopy(g, data) \/ (g = h /\ data = NewGroup(limit))
    BY <2>2, <2>3 DEF IsCopy
  <2> QED
    BY <1>1, <2>4
<1>2. ASSUME NEW d \in Devices, NEW t \in Taps, NEW h \in GroupIds, Tap(d, t, h)
      PROVE  IsCopy(g, data)
  <2>1. \A e \in Devices, x \in Taps :
            joins'[e][x].data = NoGroup \/ joins'[e][x] = joins[e][x]
    BY <1>2 DEF Tap, TypeOK
  <2> QED
    BY <1>2, <2>1, NoGroupAssumption DEF Tap, IsCopy
<1>3. ASSUME NEW d \in Devices, NEW t \in Taps, Answer(d, t)
      PROVE  IsCopy(g, data)
  <2>1. /\ joins' \in [Devices -> [Taps -> Join]]
        /\ joins[d][t].group \in GroupIds
        /\ \A e \in Devices, x \in Taps :
               \/ joins'[e][x] = joins[e][x]
               \/ /\ joins'[e][x].group = joins[d][t].group
                  /\ joins'[e][x].data = groups[joins[d][t].group]
    BY <1>3, AnswerFrame
  <2>2. UNCHANGED <<groups, outbox>>
    BY <1>3 DEF Answer
  <2> QED
    BY <2>1, <2>2 DEF IsCopy
<1>4. ASSUME NEW d \in Devices, NEW t \in Taps, ReadFails(d, t)
      PROVE  IsCopy(g, data)
  <2>1. "failed" \in Stage
    BY DEF Stage, Outcome
  <2> QED
    BY <1>4, <2>1, StageFrame DEF ReadFails, IsCopy
<1>5. ASSUME NEW d \in Devices, NEW t \in Taps, Callback(d, t)
      PROVE  \/ IsCopy(g, data)
             \/ \E old \in Group : /\ IsCopy(g, old)
                                   /\ CanJoin(old, UserId[d])
                                   /\ data = AddParticipant(old, UserId[d])
  <2> DEFINE h == joins[d][t].group
             group == View(d, h, joins[d][t].data)
             new == AddParticipant(group, UserId[d])
  <2>1. /\ h \in GroupIds
        /\ joins[d][t].stage # "idle"
        /\ \E s \in Stage : joins' = [joins EXCEPT ![d][t].stage = s]
        /\ \/ UNCHANGED outbox
           \/ /\ group \in Group
              /\ CanJoin(group, UserId[d])
              /\ Issue(d, h, new)
           \/ group \in Group /\ Issue(d, h, group)
    BY <1>5, CallbackFrame
  <2>2. group \in Group => new \in Group
    BY GroupJoinAssumption, AddParticipantType
  <2>3. IsCopy(h, group)
    BY <2>1, ViewIsSeen DEF IsCopy
  <2>4. groups' = groups
    BY <1>5 DEF Callback
  <2>5. \A e \in Devices, x \in Taps : /\ joins'[e][x].group = joins[e][x].group
                                      /\ joins'[e][x].data = joins[e][x].data
    BY <2>1, StageFrame
  <2> HIDE DEF h, group, new
  <2>6. \A e \in Devices : \A i \in DOMAIN outbox'[e] :
           \/ i \in DOMAIN outbox[e] /\ outbox'[e][i] = outbox[e][i]
           \/ /\ group \in Group /\ CanJoin(group, UserId[d])
              /\ outbox'[e][i] = [group |-> h, data |-> new]
           \/ group \in Group /\ outbox'[e][i] = [group |-> h, data |-> group]
    BY <2>1, <2>2, IssueFrame
  <2>7. \/ IsCopy(g, data)
        \/ g = h /\ data = new /\ group \in Group /\ CanJoin(group, UserId[d])
        \/ g = h /\ data = group
    BY <2>4, <2>5, <2>6 DEF IsCopy
  <2> QED
    BY <2>3, <2>7 DEF new
<1>6. ASSUME NEW d \in Devices, Commit(d)
      PROVE  IsCopy(g, data)
  <2> DEFINE w == Head(outbox[d])
  <2>1. IsCopy(w.group, w.data)
    BY <1>6, CommitFrame DEF IsCopy
  <2>2. /\ groups' = [groups EXCEPT ![w.group] = w.data]
        /\ groups \in [GroupIds -> Group \cup {NoGroup}]
    BY <1>6, CommitFrame DEF TypeOK
  <2>3. groups'[g] = data => IsCopy(g, data)
    BY <2>1, <2>2 DEF IsCopy
  <2>4. \A e \in Devices : \A i \in DOMAIN outbox'[e] :
            \E k \in DOMAIN outbox[e] : outbox'[e][i] = outbox[e][k]
    BY <1>6, CommitFrame
  <2>5. \A e \in Devices, x \in Taps :
            /\ joins'[e][x].group = joins[e][x].group
            /\ \/ joins'[e][x] = joins[e][x]
               \/ joins[e][x].group = w.group /\ joins'[e][x].data = w.data
    BY <1>6, CommitFrame
  <2> HIDE DEF w
  <2> QED
    BY <2>1, <2>3, <2>4, <2>5 DEF IsCopy
<1>7. CASE UNCHANGED vars
  BY <1>7 DEF vars, IsCopy
<1> QED
  BY <1>1, <1>2, <1>3, <1>4, <1>5, <1>6, <1>7 DEF Next

-----------------------------------------------------------------------------
(* Soundness. *)

(* A sound state's copies are sound. *)
LEMMA SoundCopies ==
    ASSUME TypeOK, GroupsSound, NEW g \in GroupIds, NEW data \in Group, IsCopy(g, data)
    PROVE  Sound(data)
BY NoGroupAssumption DEF GroupsSound, IsCopy

(* Overlapping joins preserve soundness. *)
LEMMA NextSound == TypeOK /\ GroupsSound /\ [Next]_vars => GroupsSound'
<1> SUFFICES ASSUME TypeOK, GroupsSound, [Next]_vars PROVE GroupsSound'
  OBVIOUS
<1>1. TypeOK'
  BY NextType
<1>2. ASSUME NEW g \in GroupIds, NEW data \in Group, IsCopy(g, data)'
      PROVE  Sound(data)
  <2>1. CASE IsCopy(g, data)
    BY <2>1, SoundCopies
  <2>2. ASSUME NEW d \in Devices, NEW old \in Group, IsCopy(g, old),
               CanJoin(old, UserId[d]), data = AddParticipant(old, UserId[d])
        PROVE  Sound(data)
    BY <2>2, SoundCopies, AddParticipantSound, GroupJoinAssumption
  <2>3. ASSUME NEW limit \in LimitInputs, data = NewGroup(limit)
        PROVE  Sound(data)
    BY <2>3, NewGroupSound
  <2> QED
    BY <1>2, <2>1, <2>2, <2>3, CopyStep
<1>3. ASSUME NEW g \in GroupIds, groups'[g] # NoGroup
      PROVE  Sound(groups'[g])
  <2>1. PICK data \in Group : data = groups'[g]
    BY <1>1, <1>3 DEF TypeOK
  <2>2. IsCopy(g, data)'
    BY <2>1 DEF IsCopy
  <2> QED
    BY <1>2, <2>1, <2>2
<1>4. ASSUME NEW d \in Devices, NEW i \in DOMAIN outbox'[d]
      PROVE  Sound(outbox'[d][i].data)
  <2>1. outbox'[d][i] \in Write
    BY <1>1 DEF TypeOK
  <2>2. PICK g \in GroupIds, data \in Group : outbox'[d][i] = [group |-> g, data |-> data]
    BY <2>1 DEF Write
  <2>3. IsCopy(g, data)'
    BY <2>2 DEF IsCopy
  <2> QED
    BY <1>2, <2>2, <2>3
<1>5. ASSUME NEW d \in Devices, NEW t \in Taps, joins'[d][t].data # NoGroup
      PROVE  Sound(joins'[d][t].data)
  <2>1. joins'[d][t] \in Join /\ joins'[d][t].group \in GroupIds
    BY <1>1, <1>5 DEF TypeOK, Idle
  <2>2. PICK g \in GroupIds, data \in Group :
            g = joins'[d][t].group /\ data = joins'[d][t].data
    BY <1>5, <2>1 DEF Join
  <2>3. IsCopy(g, data)'
    BY <2>2 DEF IsCopy
  <2> QED
    BY <1>2, <2>2, <2>3
<1> QED
  BY <1>3, <1>4, <1>5 DEF GroupsSound

(* Types hold always. *)
THEOREM TypeCorrect == Spec => []TypeOK
BY InitType, NextType, PTL DEF Spec

(* For any number of devices and any user ids, overlapping joins leave     *)
(* every copy of a group sound: the count of DetailGroupViewController's   *)
(* whole-document writes is right, no participant is listed twice, and     *)
(* nobody is taken beyond peopleNumberLimit.                               *)
THEOREM GroupsStaySound == Spec => []GroupsSound
<1>1. Init => GroupsSound
  BY DEF Init, GroupsSound, Idle
<1> QED
  BY <1>1, InitType, NextType, NextSound, PTL DEF Spec

-----------------------------------------------------------------------------
(* The terms of a group. *)

(* All copies of a group, however old, state the same limit. *)
OneLimit == \A g \in GroupIds, a, b \in Group :
                IsCopy(g, a) /\ IsCopy(g, b)
                    => a.peopleNumberLimit = b.peopleNumberLimit

(* A join was told a document only of a group that is at the server. *)
ReadPosted == \A d \in Devices, t \in Taps :
                  joins[d][t].data # NoGroup => groups[joins[d][t].group] # NoGroup

(* A group whose id was never used has no copies. *)
LEMMA UnissuedNoCopies ==
    ASSUME TypeOK, ReadPosted, NEW g \in GroupIds, Unissued(g),
           NEW data \in Group, IsCopy(g, data)
    PROVE  FALSE
BY NoGroupAssumption DEF Unissued, IsCopy, ReadPosted

(* Whatever happens, a document at the server stays there, and only a      *)
(* commit replaces it, by a copy of the same group.                        *)
LEMMA ServerStep ==
    ASSUME TypeOK, [Next]_vars, NEW g \in GroupIds
    PROVE  \/ groups'[g] = groups[g]
           \/ groups'[g] \in Group /\ IsCopy(g, groups'[g])
<1>1. CASE \E d \in Devices : Commit(d)
  <2>1. PICK d \in Devices : Commit(d)
    BY <1>1
  <2> DEFINE w == Head(outbox[d])
  <2>2. /\ 1 \in DOMAIN outbox[d] /\ w = outbox[d][1]
        /\ w.data \in Group
        /\ groups' = [groups EXCEPT ![w.group] = w.data]
    BY <2>1, CommitFrame
  <2>3. IsCopy(w.group, w.data)
    BY <2>2 DEF IsCopy
  <2> HIDE DEF w
  <2> QED
    BY <2>2, <2>3 DEF TypeOK
<1>2. CASE ~ \E d \in Devices : Commit(d)
  <2>1. CASE UNCHANGED vars
    BY <2>1 DEF vars
  <2>2. ASSUME NEW d \in Devices, NEW h \in GroupIds, NEW limit \in LimitInputs,
               PostGroup(d, h, limit)
        PROVE  UNCHANGED groups
    BY <2>2 DEF PostGroup
  <2>3. ASSUME NEW d \in Devices, NEW t \in Taps,
               \/ \E h \in GroupIds : Tap(d, t, h)
               \/ Answer(d, t) \/ ReadFails(d, t) \/ Callback(d, t)
        PROVE  UNCHANGED groups
    BY <2>3 DEF Tap, Answer, ReadFails, Callback
  <2> QED
    BY <1>2, <2>1, <2>2, <2>3 DEF Next
<1> QED
  BY <1>1, <1>2

(* ReadPosted is preserved: a read answers after the post reached the server. *)
LEMMA NextReadPosted == TypeOK /\ ReadPosted /\ [Next]_vars => ReadPosted'
<1> SUFFICES ASSUME TypeOK, ReadPosted, [Next]_vars PROVE ReadPosted'
  OBVIOUS
<1> USE NoGroupAssumption
<1>1. \A g \in GroupIds : groups[g] # NoGroup => groups'[g] # NoGroup
  BY ServerStep
<1>2. ASSUME NEW e \in Devices, NEW x \in Taps
      PROVE  \/ joins'[e][x].data = NoGroup
             \/ /\ joins'[e][x].group = joins[e][x].group
                /\ joins'[e][x].data = joins[e][x].data
             \/ groups'[joins'[e][x].group] # NoGroup
  <2>1. ASSUME NEW d \in Devices, NEW t \in Taps, NEW g \in GroupIds, Tap(d, t, g)
        PROVE  joins'[e][x].data = NoGroup \/ joins'[e][x] = joins[e][x]
    BY <2>1 DEF Tap, TypeOK
  <2>2. ASSUME NEW d \in Devices, NEW t \in Taps, Answer(d, t)
        PROVE  \/ joins'[e][x] = joins[e][x]
               \/ joins'[e][x].data = groups'[joins'[e][x].group]
    <3>1. \/ joins'[e][x] = joins[e][x]
          \/ /\ joins'[e][x].group = joins[d][t].group
             /\ joins'[e][x].data = groups[joins[d][t].group]
      BY <2>2, AnswerFrame
    <3> QED
      BY <2>2, <3>1 DEF Answer
  <2>3. ASSUME NEW d \in Devices, NEW t \in Taps, ReadFails(d, t) \/ Callback(d, t)
        PROVE  /\ joins'[e][x].group = joins[e][x].group
               /\ joins'[e][x].data = joins[e][x].data
    <3>1. /\ joins[d][t].stage # "idle"
          /\ \E s \in Stage : joins' = [joins EXCEPT ![d][t].stage = s]
      BY <2>3, CallbackFrame DEF ReadFails, Stage, Outcome
    <3> QED
      BY <3>1, StageFrame
  <2>4. ASSUME NEW d \in Devices, Commit(d)
        PROVE  joins'[e][x] = joins[e][x] \/ groups'[joins'[e][x].group] # NoGroup
    <3> DEFINE w == Head(outbox[d])
    <3>1. /\ w.group \in GroupIds /\ w.data \in Group
          /\ groups' = [groups EXCEPT ![w.group] = w.data]
          /\ joins'[e][x].group = joins[e][x].group
          /\ joins'[e][x] = joins[e][x] \/ joins[e][x].group = w.group
      BY <2>4, CommitFrame
    <3> HIDE DEF w
    <3> QED
      BY <3>1 DEF TypeOK
  <2>5. ASSUME UNCHANGED joins
        PROVE  joins'[e][x] = joins[e][x]
    BY <2>5
  <2> QED
    BY <2>1, <2>2, <2>3, <2>4, <2>5 DEF Next, vars, PostGroup
<1>3. ASSUME NEW e \in Devices, NEW x \in Taps, joins'[e][x].data # NoGroup
      PROVE  groups'[joins'[e][x].group] # NoGroup
  <2>1. CASE /\ joins'[e][x].group = joins[e][x].group
             /\ joins'[e][x].data = joins[e][x].data
    <3>1. groups[joins[e][x].group] # NoGroup /\ joins[e][x].group \in GroupIds
      BY <1>3, <2>1 DEF ReadPosted, TypeOK, Idle
    <3> QED
      BY <1>1, <2>1, <3>1
  <2> QED
    BY <1>2, <1>3, <2>1
<1> QED
  BY <1>3 DEF ReadPosted

(* One step posts a group with one limit. *)
LEMMA OnePost ==
    ASSUME TypeOK, NEW g \in GroupIds, NEW d \in Devices, NEW e \in Devices,
           NEW l \in LimitInputs, NEW m \in LimitInputs,
           PostGroup(d, g, l), PostGroup(e, g, m)
    PROVE  l = m
<1> DEFINE wl == [group |-> g, data |-> NewGroup(l)]
           wm == [group |-> g, data |-> NewGroup(m)]
<1>1. outbox[d] \in Seq(Write) /\ outbox \in [Devices -> Seq(Write)]
  BY DEF TypeOK
<1>2. outbox'[d] = Append(outbox[d], wl)
  BY <1>1 DEF PostGroup, Issue
<1>3. outbox'[d] = IF d = e THEN Append(outbox[d], wm) ELSE outbox[d]
  BY <1>1 DEF PostGroup, Issue
<1>4. wl \in Write /\ wm \in Write
  BY NewGroupSound DEF Write
<1> HIDE DEF wl, wm
<1>5. Len(outbox'[d]) = Len(outbox[d]) + 1 /\ outbox'[d][Len(outbox[d]) + 1] = wl
  BY <1>1, <1>2, <1>4
<1>6. wl = wm
  BY <1>1, <1>3, <1>4, <1>5
<1> QED
  BY <1>6 DEF wl, wm, NewGroup

(* No step makes two copies disagree. *)
LEMMA NextOneLimit ==
    TypeOK /\ ReadPosted /\ OneLimit /\ [Next]_vars => OneLimit'
<1> SUFFICES ASSUME TypeOK, ReadPosted, OneLimit, [Next]_vars PROVE OneLimit'
  OBVIOUS
<1>1. SUFFICES ASSUME NEW g \in GroupIds, NEW a \in Group, NEW b \in Group,
                      IsCopy(g, a)', IsCopy(g, b)'
               PROVE  a.peopleNumberLimit = b.peopleNumberLimit
  BY DEF OneLimit
<1> DEFINE Old(c) == \E o \in Group : /\ IsCopy(g, o)
                                      /\ c.peopleNumberLimit = o.peopleNumberLimit
           Fresh(c) == \E d \in Devices, l \in LimitInputs :
                           PostGroup(d, g, l) /\ c = NewGroup(l)
<1>2. ASSUME NEW c \in Group, IsCopy(g, c)'
      PROVE  Old(c) \/ Fresh(c)
  <2>1. ASSUME NEW d \in Devices, NEW o \in Group, IsCopy(g, o),
               c = AddParticipant(o, UserId[d])
        PROVE  Old(c)
    BY <2>1, AddParticipantType, GroupJoinAssumption
  <2> QED
    BY <1>2, <2>1, CopyStep
<1>3. ASSUME NEW c, NEW o, Fresh(c), Old(o)
      PROVE  FALSE
  <2>1. Unissued(g)
    BY <1>3 DEF PostGroup
  <2> QED
    BY <1>3, <2>1, UnissuedNoCopies
<1>4. CASE Old(a) /\ Old(b)
  BY <1>4 DEF OneLimit
<1>5. CASE Fresh(a) /\ Fresh(b)
  BY <1>5, OnePost
<1> HIDE DEF Old, Fresh
<1> QED
  BY <1>1, <1>2, <1>3, <1>4, <1>5

(* For any devices and user ids, no outdated whole-document setData of a   *)
(* join removes a posted group or changes its peopleNumberLimit.           *)
THEOREM TermsAreKept == Spec => TermsKept
<1> DEFINE Terms == \A g \in GroupIds : groups[g] # NoGroup =>
                        /\ groups'[g] # NoGroup
                        /\ groups'[g].peopleNumberLimit = groups[g].peopleNumberLimit
<1>1. Init => ReadPosted /\ OneLimit
  <2> SUFFICES ASSUME Init PROVE ReadPosted /\ OneLimit
    OBVIOUS
  <2>1. ReadPosted
    BY DEF Init, Idle, ReadPosted
  <2>2. \A g \in GroupIds : Unissued(g)
    BY DEF Init, Unissued
  <2> QED
    BY <2>1, <2>2, InitType, UnissuedNoCopies DEF OneLimit
<1>2. TypeOK /\ ReadPosted /\ OneLimit /\ [Next]_vars => Terms
  <2> SUFFICES ASSUME TypeOK, OneLimit, [Next]_vars,
                      NEW g \in GroupIds, groups[g] # NoGroup
               PROVE  /\ groups'[g] # NoGroup
                      /\ groups'[g].peopleNumberLimit = groups[g].peopleNumberLimit
    OBVIOUS
  <2>1. groups[g] \in Group /\ IsCopy(g, groups[g])
    BY DEF TypeOK, IsCopy
  <2> QED
    BY <2>1, ServerStep, NoGroupAssumption DEF OneLimit
<1>3. TermsKept <=> [][Terms]_vars
  BY DEF TermsKept
<1> HIDE DEF Terms
<1> QED
  BY <1>1, <1>2, <1>3, InitType, NextType, NextReadPosted, NextOneLimit, PTL DEF Spec

-----------------------------------------------------------------------------
(* One id.  The app passes no userId, so every device joins as the default *)
(* argument.  The refinement of GroupMembership is about such devices.     *)

OneId == \A d, e \in Devices : UserId[d] = UserId[e]

IsFounder(u) == \E i \in DOMAIN Founders : Founders[i] = u

(* A document as it was posted, and one after the one join there can be. *)
Plain(data) == data.participants = Founders

Visited(data) ==
    \E d \in Devices : /\ ~ IsFounder(UserId[d])
                       /\ data.participants = Append(Founders, UserId[d])

(* There are no other documents, and each has a limit that was entered. *)
TwoKinds == \A g \in GroupIds, c \in Group :
                IsCopy(g, c) => /\ c.peopleNumberLimit \in LimitInputs
                                /\ Plain(c) \/ Visited(c)

(* The i-th pending write of device d is one of group g as it was posted. *)
Posting(d, i, g) == /\ i \in DOMAIN outbox[d]
                    /\ outbox[d][i].group = g
                    /\ Plain(outbox[d][i].data)

(* While a group is not at the server, whatever a device will write of it  *)
(* comes after its post.                                                   *)
PostFirst == \A g \in GroupIds, d \in Devices : \A i \in DOMAIN outbox[d] :
                 groups[g] = NoGroup /\ outbox[d][i].group = g
                     => \E j \in DOMAIN outbox[d] : j <= i /\ Posting(d, j, g)

(* Unless the one id is a founder's, whose every tap writes the document   *)
(* back, a document without the user is written once, as the first.        *)
PostOnce == (\A d \in Devices : ~ IsFounder(UserId[d])) =>
                \A g \in GroupIds, d, e \in Devices, i, j \in Nat :
                    Posting(d, i, g) =>
                        /\ groups[g] = NoGroup
                        /\ Posting(e, j, g) => e = d /\ j = i

(* What is known of the founders' and the visitor's places in a document. *)
LEMMA KindFacts ==
    ASSUME NEW c \in Group, NEW u \in Ids
    PROVE  /\ Plain(c) /\ Contains(c, u) => IsFounder(u)
           /\ c.participants = Append(Founders, u) => Contains(c, u)
           /\ Plain(c) /\ ~ Contains(c, u) => ~ IsFounder(u)
           /\ Append(Founders, u) # Founders
<1>1. PICK p \in Seq(Ids) : p = Founders
  BY FoundersFacts
<1>2. /\ Append(p, u) # p
      /\ Len(p) + 1 \in DOMAIN Append(p, u)
      /\ Append(p, u)[Len(p) + 1] = u
  OBVIOUS
<1> QED
  BY <1>1, <1>2 DEF Plain, Contains, IsFounder

(* Every step leaves documents of the two kinds. *)
LEMMA NextTwoKinds ==
    ASSUME OneId, TypeOK, TwoKinds, [Next]_vars
    PROVE  TwoKinds'
<1>1. SUFFICES ASSUME NEW g \in GroupIds, NEW c \in Group, IsCopy(g, c)'
               PROVE  c.peopleNumberLimit \in LimitInputs /\ (Plain(c) \/ Visited(c))
  BY DEF TwoKinds, Plain, Visited
<1>2. CASE IsCopy(g, c)
  BY <1>2 DEF TwoKinds
<1>3. ASSUME NEW d \in Devices, NEW old \in Group, IsCopy(g, old),
             CanJoin(old, UserId[d]), c = AddParticipant(old, UserId[d])
      PROVE  c.peopleNumberLimit \in LimitInputs /\ Visited(c)
  <2>1. UserId[d] \in Ids
    BY GroupJoinAssumption
  <2>2. /\ c.peopleNumberLimit = old.peopleNumberLimit
        /\ c.participants = Append(old.participants, UserId[d])
    BY <1>3, <2>1, AddParticipantType
  <2>3. old.peopleNumberLimit \in LimitInputs /\ (Plain(old) \/ Visited(old))
    BY <1>3 DEF TwoKinds
  <2>4. ~ Contains(old, UserId[d])
    BY <1>3 DEF CanJoin
  <2>5. ~ Visited(old)
    BY <2>1, <2>4, KindFacts DEF Visited, OneId
  <2>6. Plain(old) /\ ~ IsFounder(UserId[d])
    BY <2>1, <2>3, <2>4, <2>5, KindFacts
  <2> QED
    BY <2>2, <2>3, <2>6 DEF Plain, Visited
<1>4. ASSUME NEW limit \in LimitInputs, c = NewGroup(limit)
      PROVE  c.peopleNumberLimit \in LimitInputs /\ Plain(c)
  BY <1>4 DEF NewGroup, Plain
<1> QED
  BY <1>1, <1>2, <1>3, <1>4, CopyStep

(* Where an issued write stands: behind all others of its device. *)
LEMMA IssuePlace ==
    ASSUME TypeOK, NEW d \in Devices, NEW g \in GroupIds, NEW data \in Group,
           Issue(d, g, data), NEW n, n = Len(outbox[d]) + 1
    PROVE  /\ n \in Nat /\ n \notin DOMAIN outbox[d] /\ n \in DOMAIN outbox'[d]
           /\ \A i \in DOMAIN outbox[d] : i < n
           /\ outbox'[d][n] = [group |-> g, data |-> data]
           /\ \A e \in Devices : \A i \in DOMAIN outbox'[e] :
                  \/ i \in DOMAIN outbox[e] /\ outbox'[e][i] = outbox[e][i]
                  \/ e = d /\ i = n
           /\ \A e \in Devices : \A i \in DOMAIN outbox[e] :
                  i \in DOMAIN outbox'[e] /\ outbox'[e][i] = outbox[e][i]
<1> DEFINE w == [group |-> g, data |-> data]
<1>1. w \in Write
  BY DEF Write
<1>2. outbox \in [Devices -> Seq(Write)]
  BY DEF TypeOK
<1>3. outbox' = [outbox EXCEPT ![d] = Append(outbox[d], w)]
  BY <1>2 DEF Issue
<1> HIDE DEF w
<1> QED
  BY <1>1, <1>2, <1>3 DEF w

(* A step that touches outboxes or the server is a post, a commit or the   *)
(* write of a callback, which contains the user and follows an earlier     *)
(* write of the group or its arrival at the server.                        *)
LEMMA WriteStep ==
    ASSUME TypeOK, ReadPosted, [Next]_vars
    PROVE  \/ UNCHANGED <<groups, outbox>>
           \/ \E d \in Devices : Commit(d)
           \/ \E d \in Devices, g \in GroupIds, limit \in LimitInputs :
                  PostGroup(d, g, limit)
           \/ \E d \in Devices, g \in GroupIds, data \in Group :
                  /\ Issue(d, g, data)
                  /\ Contains(data, UserId[d])
                  /\ groups' = groups
                  /\ \/ groups[g] # NoGroup
                     \/ \E i \in DOMAIN outbox[d] : outbox[d][i].group = g
<1>1. ASSUME NEW d \in Devices, NEW t \in Taps, Callback(d, t)
      PROVE  \/ UNCHANGED <<groups, outbox>>
             \/ \E g \in GroupIds, data \in Group :
                  /\ Issue(d, g, data)
                  /\ Contains(data, UserId[d])
                  /\ groups' = groups
                  /\ \/ groups[g] # NoGroup
                     \/ \E i \in DOMAIN outbox[d] : outbox[d][i].group = g
  <2> DEFINE g == joins[d][t].group
             told == joins[d][t].data
             group == View(d, g, told)
             new == AddParticipant(group, UserId[d])
  <2>1. /\ g \in GroupIds /\ groups' = groups
        /\ \/ UNCHANGED outbox
           \/ group \in Group /\ Issue(d, g, new)
           \/ group \in Group /\ Contains(group, UserId[d]) /\ Issue(d, g, group)
    BY <1>1, CallbackFrame DEF Callback
  <2>2. \/ group = told
        \/ \E i \in DOMAIN outbox[d] : outbox[d][i].group = g
    BY <2>1, ViewIsSeen
  <2>3. group \in Group =>
            \/ groups[g] # NoGroup
            \/ \E i \in DOMAIN outbox[d] : outbox[d][i].group = g
    BY <2>2, NoGroupAssumption DEF ReadPosted
  <2>4. ASSUME group \in Group PROVE new \in Group /\ Contains(new, UserId[d])
    <3>1. PICK p \in Seq(Ids), u \in Ids : p = group.participants /\ u = UserId[d]
      BY <2>4, GroupJoinAssumption DEF Group
    <3>2. new \in Group /\ new.participants = Append(p, u)
      BY <2>4, <3>1, AddParticipantType
    <3>3. Len(p) + 1 \in DOMAIN Append(p, u) /\ Append(p, u)[Len(p) + 1] = u
      OBVIOUS
    <3> QED
      BY <3>1, <3>2, <3>3 DEF Contains
  <2> HIDE DEF g, told, group, new
  <2> QED
    BY <2>1, <2>3, <2>4
<1>2. ASSUME NEW d \in Devices, NEW t \in Taps,
             \/ \E h \in GroupIds : Tap(d, t, h)
             \/ Answer(d, t) \/ ReadFails(d, t)
      PROVE  UNCHANGED <<groups, outbox>>
  BY <1>2 DEF Tap, Answer, ReadFails
<1>3. CASE UNCHANGED vars
  BY <1>3 DEF vars
<1> QED
  BY <1>1, <1>2, <1>3 DEF Next

(* The post stays first. *)
LEMMA NextPostFirst ==
    ASSUME TypeOK, ReadPosted, PostFirst, [Next]_vars
    PROVE  PostFirst'
<1>1. SUFFICES ASSUME NEW g \in GroupIds, NEW d \in Devices,
                      NEW i \in DOMAIN outbox'[d],
                      groups'[g] = NoGroup, outbox'[d][i].group = g
               PROVE  \E j \in DOMAIN outbox'[d] : j <= i /\ Posting(d, j, g)'
  BY DEF PostFirst
<1>2. CASE UNCHANGED <<groups, outbox>>
  BY <1>1, <1>2 DEF PostFirst, Posting
<1>3. ASSUME NEW e \in Devices, NEW h \in GroupIds, NEW data \in Group,
             Issue(e, h, data), groups' = groups,
             \/ Plain(data)
             \/ groups[h] # NoGroup
             \/ \E k \in DOMAIN outbox[e] : outbox[e][k].group = h
      PROVE  \E j \in DOMAIN outbox'[d] : j <= i /\ Posting(d, j, g)'
  <2>0. PICK n : n = Len(outbox[e]) + 1
    OBVIOUS
  <2>1. /\ n \in Nat /\ n \notin DOMAIN outbox[e] /\ n \in DOMAIN outbox'[e]
        /\ \A k \in DOMAIN outbox[e] : k < n
        /\ outbox'[e][n] = [group |-> h, data |-> data]
        /\ \A k \in DOMAIN outbox'[d] :
               \/ k \in DOMAIN outbox[d] /\ outbox'[d][k] = outbox[d][k]
               \/ d = e /\ k = n
        /\ \A k \in DOMAIN outbox[d] :
               k \in DOMAIN outbox'[d] /\ outbox'[d][k] = outbox[d][k]
    BY <1>3, <2>0, IssuePlace
  <2>2. DOMAIN outbox[d] \subseteq Nat
    BY DEF TypeOK
  <2>3. ASSUME NEW k \in DOMAIN outbox[d], outbox[d][k].group = g
        PROVE  \E j \in DOMAIN outbox'[d] : j <= k /\ Posting(d, j, g)'
    <3>1. PICK j \in DOMAIN outbox[d] : j <= k /\ Posting(d, j, g)
      BY <1>1, <1>3, <2>3 DEF PostFirst
    <3>2. Posting(d, j, g)'
      BY <2>1, <3>1 DEF Posting
    <3> QED
      BY <2>1, <3>1, <3>2
  <2>4. CASE i \in DOMAIN outbox[d] /\ outbox'[d][i] = outbox[d][i]
    BY <1>1, <2>3, <2>4
  <2>5. CASE d = e /\ i = n
    <3>1. h = g
      BY <1>1, <2>1, <2>5
    <3>2. CASE Plain(data)
      <4>1. Posting(d, n, g)'
        BY <2>1, <2>5, <3>1, <3>2 DEF Posting
      <4> QED
        BY <2>1, <2>5, <4>1
    <3>3. CASE \E k \in DOMAIN outbox[e] : outbox[e][k].group = h
      <4>1. PICK k \in DOMAIN outbox[d] : outbox[d][k].group = g
        BY <2>5, <3>1, <3>3
      <4>2. PICK j \in DOMAIN outbox'[d] : j <= k /\ Posting(d, j, g)'
        BY <2>3, <4>1
      <4>3. k \in Nat /\ k < n
        BY <2>1, <2>2, <2>5, <4>1
      <4>4. j \in Nat
        BY <2>1, <2>2
      <4> QED
        BY <2>1, <2>5, <4>2, <4>3, <4>4
    <3> QED
      BY <1>1, <1>3, <3>1, <3>2, <3>3
  <2> QED
    BY <2>1, <2>4, <2>5
<1>4. ASSUME NEW e \in Devices, Commit(e)
      PROVE  \E j \in DOMAIN outbox'[d] : j <= i /\ Posting(d, j, g)'
  <2> DEFINE w == Head(outbox[e])
  <2>1. /\ w = outbox[e][1]
        /\ w.group \in GroupIds /\ w.data \in Group
        /\ groups' = [groups EXCEPT ![w.group] = w.data]
        /\ \/ d # e /\ i \in DOMAIN outbox[d] /\ outbox'[d][i] = outbox[d][i]
           \/ d = e /\ i + 1 \in DOMAIN outbox[d] /\ outbox'[d][i] = outbox[d][i + 1]
    BY <1>4, CommitFrame
  <2>2. outbox' = [outbox EXCEPT ![e] = Tail(outbox[e])] /\ outbox[e] # <<>>
    BY <1>4 DEF Commit
  <2> HIDE DEF w
  <2>3. w.group # g /\ groups[g] = NoGroup
    BY <1>1, <2>1, NoGroupAssumption DEF TypeOK
  <2>4. CASE d # e
    <3>1. outbox'[d] = outbox[d]
      BY <2>2, <2>4 DEF TypeOK
    <3> QED
      BY <1>1, <2>3, <3>1 DEF PostFirst, Posting
  <2>5. CASE d = e
    <3>1. PICK j \in DOMAIN outbox[d] : j <= i + 1 /\ Posting(d, j, g)
      BY <1>1, <2>1, <2>3, <2>5 DEF PostFirst
    <3>2. j # 1
      BY <2>1, <2>3, <2>5, <3>1 DEF Posting
    <3>3. outbox[d] \in Seq(Write) /\ outbox[d] # <<>> /\ outbox'[d] = Tail(outbox[d])
      BY <2>2, <2>5 DEF TypeOK
    <3>4. /\ j - 1 \in DOMAIN outbox'[d] /\ outbox'[d][j - 1] = outbox[d][j]
          /\ i \in Nat /\ j \in Nat
      BY <3>2, <3>3
    <3>5. Posting(d, j - 1, g)'
      BY <3>1, <3>4 DEF Posting
    <3> QED
      BY <3>1, <3>4, <3>5
  <2> QED
    BY <2>4, <2>5
<1>5. ASSUME NEW e \in Devices, NEW h \in GroupIds, NEW limit \in LimitInputs,
             PostGroup(e, h, limit)
      PROVE  \E j \in DOMAIN outbox'[d] : j <= i /\ Posting(d, j, g)'
  <2>1. NewGroup(limit) \in Group /\ Plain(NewGroup(limit))
    BY NewGroupSound DEF NewGroup, Plain
  <2> QED
    BY <1>3, <1>5, <2>1 DEF PostGroup
<1> QED
  BY <1>2, <1>3, <1>4, <1>5, WriteStep

(* The post stays the only write without the user. *)
LEMMA NextPostOnce ==
    ASSUME TypeOK, ReadPosted, PostFirst, PostOnce, [Next]_vars
    PROVE  PostOnce'
<1>1. SUFFICES ASSUME \A d \in Devices : ~ IsFounder(UserId[d]),
                      NEW g \in GroupIds, NEW d \in Devices, NEW e \in Devices,
                      NEW i \in Nat, NEW j \in Nat, Posting(d, i, g)'
               PROVE  /\ groups'[g] = NoGroup
                      /\ Posting(e, j, g)' => e = d /\ j = i
  BY DEF PostOnce
<1>2. \A a, b \in Devices, k, m \in Nat :
          Posting(a, k, g) => /\ groups[g] = NoGroup
                              /\ Posting(b, m, g) => b = a /\ m = k
  BY <1>1 DEF PostOnce
<1>3. CASE UNCHANGED <<groups, outbox>>
  BY <1>1, <1>2, <1>3 DEF Posting
<1>4. ASSUME NEW f \in Devices, NEW h \in GroupIds, NEW data \in Group,
             Issue(f, h, data), Contains(data, UserId[f]), groups' = groups
      PROVE  /\ groups'[g] = NoGroup
             /\ Posting(e, j, g)' => e = d /\ j = i
  <2>1. ~ Plain(data)
    BY <1>1, <1>4, KindFacts, GroupJoinAssumption
  <2>2. \A a \in Devices : \A k \in DOMAIN outbox'[a] :
            \/ k \in DOMAIN outbox[a] /\ outbox'[a][k] = outbox[a][k]
            \/ outbox'[a][k] = [group |-> h, data |-> data]
    BY <1>4, IssueFrame
  <2>3. \A a \in Devices, k \in Nat : Posting(a, k, g)' => Posting(a, k, g)
    BY <2>1, <2>2 DEF Posting, Plain
  <2> QED
    BY <1>1, <1>2, <1>4, <2>3
<1>5. ASSUME NEW f \in Devices, NEW h \in GroupIds, NEW limit \in LimitInputs,
             PostGroup(f, h, limit)
      PROVE  /\ groups'[g] = NoGroup
             /\ Posting(e, j, g)' => e = d /\ j = i
  <2>1. PICK n : n = Len(outbox[f]) + 1
    OBVIOUS
  <2>2. /\ NewGroup(limit) \in Group /\ Issue(f, h, NewGroup(limit))
        /\ Unissued(h) /\ groups' = groups
    BY <1>5, NewGroupSound DEF PostGroup
  <2>3. /\ outbox'[f][n] = [group |-> h, data |-> NewGroup(limit)]
        /\ \A a \in Devices : \A k \in DOMAIN outbox'[a] :
               \/ k \in DOMAIN outbox[a] /\ outbox'[a][k] = outbox[a][k]
               \/ a = f /\ k = n
    BY <2>1, <2>2, IssuePlace
  <2>4. \A a \in Devices, k \in Nat :
            Posting(a, k, g)' => Posting(a, k, g) \/ (a = f /\ k = n /\ g = h)
    BY <2>3 DEF Posting
  <2>5. g = h => groups[g] = NoGroup /\ \A a \in Devices, k \in Nat : ~ Posting(a, k, g)
    BY <2>2 DEF Unissued, Posting
  <2> QED
    BY <1>1, <1>2, <2>2, <2>4, <2>5
<1>6. ASSUME NEW f \in Devices, Commit(f)
      PROVE  /\ groups'[g] = NoGroup
             /\ Posting(e, j, g)' => e = d /\ j = i
  <2>1. PICK w : w = Head(outbox[f])
    OBVIOUS
  <2>2. /\ 1 \in DOMAIN outbox[f] /\ w = outbox[f][1]
        /\ w.group \in GroupIds /\ w.data \in Group
        /\ groups' = [groups EXCEPT ![w.group] = w.data]
        /\ outbox' \in [Devices -> Seq(Write)]
        /\ \A a \in Devices : \A k \in DOMAIN outbox'[a] :
               \/ a # f /\ k \in DOMAIN outbox[a] /\ outbox'[a][k] = outbox[a][k]
               \/ a = f /\ k + 1 \in DOMAIN outbox[a] /\ outbox'[a][k] = outbox[a][k + 1]
    BY <1>6, <2>1, CommitFrame
  <2>3. \A a \in Devices, k \in Nat : Posting(a, k, g)' =>
            \/ a # f /\ Posting(a, k, g)
            \/ a = f /\ k >= 1 /\ Posting(a, k + 1, g)
    <3> SUFFICES ASSUME NEW a \in Devices, NEW k \in Nat, Posting(a, k, g)'
                 PROVE  \/ a # f /\ Posting(a, k, g)
                        \/ a = f /\ k >= 1 /\ Posting(a, k + 1, g)
      OBVIOUS
    <3>1. k \in DOMAIN outbox'[a] /\ outbox'[a][k].group = g /\ Plain(outbox'[a][k].data)
      BY DEF Posting, Plain
    <3>2. k >= 1
      BY <2>2, <3>1
    <3> QED
      BY <2>2, <3>1, <3>2 DEF Posting
  <2>4. w.group # g
    <3> SUFFICES ASSUME w.group = g PROVE FALSE
      OBVIOUS
    <3>1. groups[g] = NoGroup
      BY <1>1, <1>2, <2>3
    <3>2. PICK k \in DOMAIN outbox[f] : k <= 1 /\ Posting(f, k, g)
      BY <2>2, <3>1 DEF PostFirst
    <3>3. k = 1
      BY <3>2 DEF TypeOK
    <3>4. Posting(f, 1, g)
      BY <3>2, <3>3
    <3> QED
      BY <1>1, <1>2, <2>3, <3>4
  <2>5. groups'[g] = groups[g]
    BY <2>2, <2>4 DEF TypeOK
  <2> QED
    BY <1>1, <1>2, <2>3, <2>5
<1> QED
  BY <1>3, <1>4, <1>5, <1>6, WriteStep

(* A commit, seen by GroupMembership: the post of the group, its one join, *)
(* or nothing new.                                                         *)
LEMMA MembershipStep ==
    ASSUME OneId, TypeOK, GroupsSound, ReadPosted, OneLimit,
           TwoKinds, PostFirst, PostOnce, [Next]_vars
    PROVE  [Membership!Next]_Roster
<1>1. CASE UNCHANGED groups
  BY <1>1 DEF Roster
<1>2. ASSUME NEW d \in Devices, Commit(d)
      PROVE  [Membership!Next]_Roster
  <2>1. PICK w : w = Head(outbox[d])
    OBVIOUS
  <2>2. PICK g \in GroupIds, c \in Group : g = w.group /\ c = w.data
    BY <1>2, <2>1, CommitFrame
  <2>3. /\ 1 \in DOMAIN outbox[d] /\ outbox[d][1].group = g /\ outbox[d][1].data = c
        /\ groups' = [groups EXCEPT ![g] = c]
    BY <1>2, <2>1, <2>2, CommitFrame
  <2>4. IsCopy(g, c) /\ Sound(c)
    BY <2>3 DEF IsCopy, GroupsSound
  <2>5. c.peopleNumberLimit \in LimitInputs /\ (Plain(c) \/ Visited(c))
    BY <2>4 DEF TwoKinds
  <2>6. groups \in [GroupIds -> Group \cup {NoGroup}] /\ c # NoGroup
    BY NoGroupAssumption DEF TypeOK
  <2> DEFINE new == [limit |-> c.peopleNumberLimit, members |-> c.participants]
  <2>7. Roster' = [Roster EXCEPT ![g] = new]
    BY <2>3, <2>6 DEF Roster
  <2>8. CASE groups[g] = NoGroup
    <3>1. PICK k \in DOMAIN outbox[d] : k <= 1 /\ Posting(d, k, g)
      BY <2>3, <2>8 DEF PostFirst
    <3>2. k = 1
      BY <3>1 DEF TypeOK
    <3>3. c.participants = Founders
      BY <2>3, <3>1, <3>2 DEF Posting, Plain
    <3>4. Roster[g] = NoGroup
      BY <2>8 DEF Roster
    <3>5. Membership!Post(g, c.peopleNumberLimit)
      BY <2>7, <3>3, <3>4 DEF Membership!Post
    <3> QED
      BY <2>5, <3>5 DEF Membership!Next
  <2>9. CASE groups[g] # NoGroup
    <3>1. PICK o \in Group : o = groups[g]
      BY <2>6, <2>9
    <3>2. IsCopy(g, o)
      BY <3>1 DEF IsCopy
    <3>3. Plain(o) \/ Visited(o)
      BY <3>2 DEF TwoKinds
    <3>4. c.peopleNumberLimit = o.peopleNumberLimit
      BY <2>4, <3>2 DEF OneLimit
    <3>5. Roster[g] = [limit |-> o.peopleNumberLimit, members |-> o.participants]
      BY <2>9, <3>1 DEF Roster
    <3>6. ASSUME c.participants = o.participants
          PROVE  Roster' = Roster
      BY <2>7, <3>4, <3>5, <3>6 DEF Roster
    <3>7. CASE Plain(c) /\ Plain(o)
      BY <3>6, <3>7 DEF Plain
    <3>8. CASE Visited(c) /\ Visited(o)
      BY <3>6, <3>8 DEF Visited, OneId
    <3>9. CASE Plain(c) /\ Visited(o)
      <4>1. \A e \in Devices : ~ IsFounder(UserId[e])
        BY <3>9 DEF Visited, OneId
      <4>2. Posting(d, 1, g)
        BY <2>3, <3>9 DEF Posting
      <4> QED
        BY <2>9, <4>1, <4>2 DEF PostOnce
    <3>10. CASE Visited(c) /\ Plain(o)
      <4>1. PICK u \in Ids : ~ IsFounder(u) /\ c.participants = Append(Founders, u)
        BY <3>10, GroupJoinAssumption DEF Visited
      <4>2. Founders \in Seq(Ids) /\ Len(Founders) = 4 /\ Append(Founders, u) # Founders
        BY FoundersFacts, KindFacts
      <4>3. Len(Founders) < o.peopleNumberLimit
        <5>1. PICK p \in Seq(Ids) : p = Founders
          BY <4>2
        <5>2. c.currentPeopleNumber = Len(p) + 1
          BY <2>4, <4>1, <5>1 DEF Sound
        <5>3. c.currentPeopleNumber <= c.peopleNumberLimit
          BY <2>4, <4>1, <4>2 DEF Sound
        <5>4. c.peopleNumberLimit \in Int
          BY DEF Group
        <5> QED
          BY <3>4, <5>1, <5>2, <5>3, <5>4
      <4>4. Roster[g] = [limit |-> o.peopleNumberLimit, members |-> Founders]
        BY <3>5, <3>10 DEF Plain
      <4>5. Roster[g] # NoGroup
        <5>1. o.peopleNumberLimit \in Int
          BY DEF Group
        <5> QED
          BY <4>2, <4>4, <5>1, NoRosterAssumption
      <4>6. Roster' = [Roster EXCEPT ![g].members = Append(@, u)]
        <5>1. [Roster[g] EXCEPT !.members = Append(@, u)] = new
          BY <3>4, <4>1, <4>4
        <5> QED
          BY <2>7, <5>1
      <4>7. Membership!Join(g, u)
        BY <4>1, <4>3, <4>4, <4>5, <4>6 DEF Membership!Join, IsFounder
      <4> QED
        BY <4>7 DEF Membership!Next
    <3> QED
      BY <2>5, <3>3, <3>7, <3>8, <3>9, <3>10
  <2> QED
    BY <2>8, <2>9
<1>3. ASSUME NEW d \in Devices, NEW g \in GroupIds, NEW limit \in LimitInputs,
             PostGroup(d, g, limit)
      PROVE  UNCHANGED groups
  BY <1>3 DEF PostGroup
<1> QED
  BY <1>1, <1>2, <1>3, WriteStep

(* However many devices join with the one id the app passes, and however   *)
(* their reads, decisions and whole-document writes overlap, the server's  *)
(* documents move as if each join were atomic: no write of                 *)
(* modifyCurrentPeopleNumber takes a participant out again.                *)
THEOREM OneIdJoinsAreAtomic ==
    ASSUME OneId PROVE Spec => ImplementsMembership
<1>1. Init => /\ TypeOK /\ GroupsSound /\ ReadPosted /\ OneLimit
              /\ TwoKinds /\ PostFirst /\ PostOnce
  <2> SUFFICES ASSUME Init
               PROVE  /\ TypeOK /\ GroupsSound /\ ReadPosted /\ OneLimit
                      /\ TwoKinds /\ PostFirst /\ PostOnce
    OBVIOUS
  <2>1. TypeOK /\ ReadPosted /\ GroupsSound
    BY InitType DEF Init, Idle, ReadPosted, GroupsSound
  <2>2. \A g \in GroupIds : Unissued(g)
    BY DEF Init, Unissued
  <2>3. OneLimit /\ TwoKinds
    BY <2>1, <2>2, UnissuedNoCopies DEF OneLimit, TwoKinds
  <2>4. ASSUME NEW d \in Devices PROVE DOMAIN outbox[d] = {}
    <3>1. outbox[d] = <<>>
      BY DEF Init
    <3> QED
      BY <3>1
  <2> QED
    BY <2>1, <2>3, <2>4 DEF PostFirst, PostOnce, Posting
<1>2. Init => Membership!Init
  BY DEF Init, Membership!Init, Roster
<1> QED
  BY <1>1, <1>2, NextType, NextSound, NextReadPosted, NextOneLimit, NextTwoKinds,
     NextPostFirst, NextPostOnce, MembershipStep, PTL
  DEF Spec, ImplementsMembership, Membership!Spec
=============================================================================
