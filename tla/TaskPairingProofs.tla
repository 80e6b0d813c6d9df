-------------------------- MODULE TaskPairingProofs --------------------------
(***************************************************************************)
(* Proofs about TaskPairing, for any users, tasks, days and random values: *)
(* what the order of one device's writes guarantees to all the others.     *)
(***************************************************************************)
EXTENDS TaskPairing, TLAPS, WellFoundedInduction

USE TaskPairingAssumption

-----------------------------------------------------------------------------
(***************************************************************************)
(* Numbers and queues.                                                     *)
(***************************************************************************)
(* Every set of naturals has a least element.                              *)
LEMMA LeastNatural ==
  ASSUME NEW T \in SUBSET Nat, T # {}
  PROVE  \E x \in T : \A y \in T : x <= y
<1> DEFINE R == {p \in Nat \X Nat : p[1] < p[2]}
<1>1. OpToRel(<, Nat) = R
  BY Zenon DEF OpToRel
<1>2. IsWellFoundedOn(R, Nat)
  BY <1>1, NatLessThanWellFounded, Zenon
<1> HIDE DEF R
<1>3. PICK x \in T : \A y \in T : ~(<<y, x>> \in R)
  BY <1>2, WFMin
<1>4. ASSUME NEW y \in T PROVE x <= y
  <2>1. <<y, x>> \in Nat \X Nat /\ ~(<<y, x>> \in R)
    BY <1>3
  <2>2. ~(y < x)
    BY <2>1 DEF R
  <2> QED
    BY <2>2
<1> QED
  BY <1>4

(* Every set of positions in a queue has a last one.                       *)
LEMMA LastPosition ==
  ASSUME NEW n \in Nat, NEW T \in SUBSET (1..n), T # {}
  PROVE  \E x \in T : \A y \in T : y <= x
<1> DEFINE R == {n - x : x \in T}
<1>1. R \in SUBSET Nat
  OBVIOUS
<1>2. PICK v \in T : TRUE
  OBVIOUS
<1>3. n - v \in R
  OBVIOUS
<1>4. PICK y \in R : \A z \in R : y <= z
  <2> HIDE DEF R
  <2> QED
    BY <1>1, <1>3, LeastNatural
<1>5. PICK x \in T : y = n - x
  OBVIOUS
<1>6. ASSUME NEW w \in T PROVE w <= x
  <2>1. n - w \in R
    OBVIOUS
  <2>2. n - x <= n - w
    BY <1>4, <1>5, <2>1
  <2> QED
    BY <2>2
<1> QED
  BY <1>6

(* The oldest write of a device and those behind it.                       *)
LEMMA OldestWrite ==
  ASSUME TypeOK, NEW u \in Users, outbox[u] # <<>>
  PROVE  /\ outbox[u] \in Seq(Write) /\ Len(outbox[u]) \in Nat \ {0}
         /\ Head(outbox[u]) = outbox[u][1] /\ Head(outbox[u]) \in Write
         /\ Tail(outbox[u]) \in Seq(Write)
         /\ Len(Tail(outbox[u])) = Len(outbox[u]) - 1
         /\ \A i \in 1..(Len(outbox[u]) - 1) : Tail(outbox[u])[i] = outbox[u][i + 1]
<1>1. outbox[u] \in Seq(Write)
  BY DEF TypeOK
<1> QED
  BY <1>1

(* A restart keeps a write but for its completion handler.                 *)
LEMMA DeadWrite ==
  \A w \in Write : LET x == [w EXCEPT !.live = FALSE] IN
    x \in Write /\ \A f \in {"kind", "task", "day", "by"} : x[f] = w[f]
BY DEF Write

(* So a restarted device has the same writes in the same order.            *)
LEMMA DeadQueue ==
  ASSUME NEW q \in Seq(Write)
  PROVE  LET p == WithoutHandlers(q) IN
         /\ p \in Seq(Write) /\ Len(p) = Len(q)
         /\ \A i \in 1..Len(q) : /\ p[i].kind = q[i].kind /\ p[i].task = q[i].task
                                 /\ p[i].day = q[i].day /\ p[i].by = q[i].by
<1> DEFINE p == WithoutHandlers(q)
<1> USE DEF WithoutHandlers
<1>1. DOMAIN q = 1..Len(q) /\ \A i \in 1..Len(q) : q[i] \in Write
  OBVIOUS
<1>2. \A i \in 1..Len(q) : p[i] = [q[i] EXCEPT !.live = FALSE]
  BY <1>1
<1>3. p \in Seq(Write) /\ Len(p) = Len(q)
  BY <1>1, DeadWrite
<1>4. \A i \in 1..Len(q) : /\ p[i].kind = q[i].kind /\ p[i].task = q[i].task
                           /\ p[i].day = q[i].day /\ p[i].by = q[i].by
  BY <1>1, <1>2, DeadWrite
<1> QED
  BY <1>3, <1>4

(* What the app issues is a write.                                         *)
LEMMA WriteTypes ==
  ASSUME NEW kind \in {"account", "user", "task", "latest", "fetched", "response"},
         NEW t \in TaskIds \cup {NoTask}, NEW d \in Days, NEW u \in Users \cup {NoUser}
  PROVE  LET w == WriteOf(kind, t, d, u) IN
         w \in Write /\ w.kind = kind /\ w.task = t /\ w.day = d /\ w.by = u
BY DEF WriteOf, Write

-----------------------------------------------------------------------------
(***************************************************************************)
(* Types.                                                                  *)
(***************************************************************************)
(* Zero and all other days are days.                                       *)
LEMMA DayTypes == /\ 0 \in Days /\ \A d \in Days : d \in Nat
                  /\ LastDay \in Nat \ {0}
BY DEF Days

(* The initial states are well typed.                                      *)
LEMMA InitTypeOK == Init => TypeOK
<1> SUFFICES ASSUME Init PROVE TypeOK
  OBVIOUS
<1>1. day \in Days \ {0} /\ 0 \in Days
  BY DEF Init, Days
<1>2. Closed \in Reception
  BY DEF Closed, Reception
<1> QED
  BY <1>1, <1>2 DEF Init, TypeOK

(* Appending a write, or two, to the outbox of a device.                   *)
LEMMA IssueTypes ==
  ASSUME outbox \in [Users -> Seq(Write)], NEW u \in Users,
         NEW ws \in Seq(Write), Issue(u, ws)
  PROVE  outbox' \in [Users -> Seq(Write)]
<1>1. outbox[u] \o ws \in Seq(Write)
  OBVIOUS
<1> QED
  BY <1>1 DEF Issue

(* Pages and waiting handlers that a restart clears are well typed.        *)
LEMMA EndedTypes ==
  ASSUME TypeOK, NEW u \in Users, Ended(u)
  PROVE  /\ saving' \subseteq AppleUsers /\ loaded' \subseteq Users
         /\ fetching' \in [Users -> Days]
         /\ found' \in [Users -> TaskIds \cup {NoTask}]
         /\ hand' \in [Users -> TaskIds \cup {NoTask}]
         /\ reception' \in [Users -> Reception]
<1>1. Closed \in Reception /\ 0 \in Days
  BY DayTypes DEF Closed, Reception
<1> QED
  BY <1>1 DEF Ended, TypeOK

(* A document of GoodThingUsers after an update of one field.              *)
LEMMA DocTypes ==
  ASSUME NEW d \in UserDoc
  PROVE  /\ \A t \in TaskIds \cup {NoTask} :
              /\ [d EXCEPT !.latest = t] \in UserDoc
              /\ [d EXCEPT !.latest = t].friends = d.friends
              /\ [d EXCEPT !.latest = t].latest = t
         /\ \A F \in SUBSET Users :
              /\ [d EXCEPT !.friends = F] \in UserDoc
              /\ [d EXCEPT !.friends = F].friends = F
              /\ [d EXCEPT !.friends = F].latest = d.latest
BY DEF UserDoc

(* What the server does with the oldest write, variable by variable.       *)
LEMMA CommitEffect ==
  ASSUME NEW u \in Users, Commit(u)
  PROVE  LET w == Head(outbox[u])
             Sent == [outbox EXCEPT ![u] = Tail(@)]
         IN
    /\ outbox[u] # <<>>
    /\ w.kind \in {"account", "user", "task", "latest", "fetched", "response"}
    /\ UNCHANGED <<day, registered, hasId, saving, author, rank, postedOn>>
    /\ UNCHANGED <<loaded, fetching, found, hand, cut, reception>>
    /\ IF w.kind = "task" /\ w.live
       THEN /\ outbox' = [outbox EXCEPT ![u] =
                             Append(Tail(@), WriteOf("latest", w.task, 0, u))]
            /\ latest' = [latest EXCEPT ![u] = w.task]
       ELSE outbox' = Sent /\ latest' = latest
    /\ IF w.kind = "account" THEN accounts' = accounts \cup {u} ELSE accounts' = accounts
    /\ IF w.kind = "user" THEN users' = [users EXCEPT ![u] = BlankUser]
       ELSE IF w.kind = "latest" /\ users[u] # NoUser
            THEN users' = [users EXCEPT ![u] = [users[u] EXCEPT !.latest = w.task]]
            ELSE users' = users
    /\ IF w.kind \in {"task", "fetched"}
       THEN /\ lastFetched' = [lastFetched EXCEPT ![w.task] = w.day]
            /\ cached' = [cached EXCEPT ![u][w.task] = w.day]
       ELSE lastFetched' = lastFetched /\ cached' = cached
    /\ IF w.kind = "response"
       THEN responses' = [responses EXCEPT ![w.task] = responses[w.task] \cup {w.by}]
       ELSE responses' = responses
<1> DEFINE w == Head(outbox[u])
<1>0. /\ outbox[u] # <<>>
      /\ UNCHANGED <<day, registered, hasId, saving, author, rank, postedOn>>
      /\ UNCHANGED <<loaded, fetching, found, hand, cut, reception>>
  BY DEF Commit, taskVars, pageVars
<1>1. CASE w.kind = "account"
  BY <1>0, <1>1 DEF Commit, serverVars
<1>2. CASE w.kind = "user"
  BY <1>0, <1>2 DEF Commit
<1>3. CASE w.kind = "task"
  BY <1>0, <1>3 DEF Commit, Acknowledge, Dated
<1>4. CASE w.kind = "latest"
  BY <1>0, <1>4 DEF Commit
<1>5. CASE w.kind = "fetched"
  BY <1>0, <1>5 DEF Commit, Dated
<1>6. CASE w.kind = "response"
  BY <1>0, <1>6 DEF Commit
<1> QED
  BY <1>1, <1>2, <1>3, <1>4, <1>5, <1>6 DEF Commit

(* A cache with one date changed is well typed.                            *)
LEMMA CachedTypes ==
  ASSUME cached \in [Users -> [TaskIds -> Days]], NEW u \in Users,
         NEW t \in TaskIds \cup {NoTask}, NEW d \in Days
  PROVE  [cached EXCEPT ![u][t] = d] \in [Users -> [TaskIds -> Days]]
<1>1. cached[u] \in [TaskIds -> Days]
  OBVIOUS
<1>2. [cached[u] EXCEPT ![t] = d] \in [TaskIds -> Days]
  BY <1>1
<1> QED
  BY <1>2

(* The server's part of a commit is well typed.                            *)
LEMMA CommitTypes ==
  ASSUME TypeOK, NEW u \in Users, Commit(u)
  PROVE  TypeOK'
<1> DEFINE w == Head(outbox[u])
<1>1. /\ outbox[u] # <<>> /\ w \in Write
      /\ Tail(outbox[u]) \in Seq(Write)
  BY OldestWrite, CommitEffect
<1>2. /\ w.task \in TaskIds \cup {NoTask} /\ w.day \in Days
      /\ w.by \in Users \cup {NoUser}
  BY <1>1 DEF Write
<1>3. Append(Tail(outbox[u]), WriteOf("latest", w.task, 0, u)) \in Seq(Write)
  <2>1. WriteOf("latest", w.task, 0, u) \in Write
    BY <1>2, DayTypes, WriteTypes
  <2> QED
    BY <1>1, <2>1
<1>t. /\ outbox \in [Users -> Seq(Write)] /\ latest \in [Users -> TaskIds \cup {NoTask}]
      /\ accounts \subseteq Users /\ lastFetched \in [TaskIds -> Days]
      /\ responses \in [TaskIds -> SUBSET (Users \cup {NoUser})]
  BY DEF TypeOK
<1>4. outbox' \in [Users -> Seq(Write)]
  <2>1. \/ outbox' = [outbox EXCEPT ![u] = Tail(@)]
        \/ outbox' = [outbox EXCEPT ![u] =
                         Append(Tail(@), WriteOf("latest", w.task, 0, u))]
    BY CommitEffect
  <2> QED
    BY <1>1, <1>3, <1>t, <2>1
<1>5. latest' \in [Users -> TaskIds \cup {NoTask}]
  <2>1. latest' = latest \/ latest' = [latest EXCEPT ![u] = w.task]
    BY CommitEffect
  <2> QED
    BY <1>2, <1>t, <2>1
<1>6. accounts' \subseteq Users
  <2>1. accounts' = accounts \/ accounts' = accounts \cup {u}
    BY CommitEffect
  <2> QED
    BY <1>t, <2>1
<1>7. users' \in [Users -> UserDoc \cup {NoUser}]
  <2>1. users \in [Users -> UserDoc \cup {NoUser}]
    BY DEF TypeOK
  <2>2. BlankUser \in UserDoc
    BY DEF BlankUser, UserDoc
  <2>3. users[u] # NoUser => [users[u] EXCEPT !.latest = w.task] \in UserDoc
    BY <1>2, <2>1, DocTypes
  <2> QED
    BY <2>1, <2>2, <2>3, CommitEffect
<1>8. lastFetched' \in [TaskIds -> Days]
  <2>1. \/ lastFetched' = lastFetched
        \/ lastFetched' = [lastFetched EXCEPT ![w.task] = w.day]
    BY CommitEffect
  <2> QED
    BY <1>2, <1>t, <2>1
<1>9. responses' \in [TaskIds -> SUBSET (Users \cup {NoUser})]
  <2>1. \/ responses' = responses
        \/ responses' = [responses EXCEPT ![w.task] = responses[w.task] \cup {w.by}]
    BY CommitEffect
  <2>2. PICK b \in Users \cup {NoUser} : b = w.by
    BY <1>2
  <2>3. \A t \in TaskIds : responses'[t] \subseteq responses[t] \cup {b}
    BY <1>t, <2>1, <2>2
  <2>4. ASSUME NEW t \in TaskIds PROVE responses'[t] \in SUBSET (Users \cup {NoUser})
    <3>1. responses[t] \subseteq Users \cup {NoUser}
      BY <1>t
    <3> QED
      BY <2>2, <2>3, <3>1
  <2> QED
    BY <1>t, <2>1, <2>4
<1>10. UNCHANGED <<day, registered, hasId, saving, author, rank, postedOn,
                   loaded, fetching, found, hand, cut, reception>>
  BY CommitEffect
<1>11. cached' \in [Users -> [TaskIds -> Days]]
  <2>1. cached' = cached \/ cached' = [cached EXCEPT ![u][w.task] = w.day]
    BY CommitEffect
  <2>2. cached \in [Users -> [TaskIds -> Days]]
    BY DEF TypeOK
  <2> QED
    BY <1>2, <2>1, <2>2, CachedTypes
<1> QED
  BY <1>4, <1>5, <1>6, <1>7, <1>8, <1>9, <1>10, <1>11 DEF TypeOK

(* An app that ends in postTask's completion handler, variable by variable. *)
LEMMA CutEffect ==
  ASSUME TypeOK, NEW u \in Users, CutShort(u)
  PROVE  \E w \in Write :
    /\ outbox[u] # <<>> /\ w = outbox[u][1] /\ w.kind = "task"
    /\ lastFetched' = [lastFetched EXCEPT ![w.task] = w.day]
    /\ cached' = [cached EXCEPT ![u][w.task] = w.day]
    /\ latest' = [latest EXCEPT ![u] = w.task]
    /\ cut' = cut \cup {w.task}
    /\ outbox' = [outbox EXCEPT ![u] = WithoutHandlers(Tail(@))]
    /\ Ended(u)
    /\ UNCHANGED <<day, registered, hasId, accounts, author, rank, postedOn, users,
                   responses>>
<1>1. outbox[u] # <<>>
  BY DEF CutShort
<1>2. Head(outbox[u]) = outbox[u][1] /\ Head(outbox[u]) \in Write
  BY <1>1, OldestWrite
<1> QED
  BY <1>1, <1>2 DEF CutShort, Dated, taskVars

(* The reception page asks for the replies of a task it knows.             *)
AsksForTask ==
  \A u \in Users : reception[u].stage = "askResponses" => reception[u].task # NoTask

TypeInv == TypeOK /\ AsksForTask

(* Every step keeps the types.                                             *)
LEMMA NextTypeOK == TypeInv /\ [Next]_vars => TypeOK'
<1> SUFFICES ASSUME TypeInv, [Next]_vars PROVE TypeOK'
  OBVIOUS
<1>0. TypeOK /\ AsksForTask
  BY DEF TypeInv
<1> USE <1>0
<1> USE DEF accountVars, taskVars, serverVars, deviceVars, pageVars, diskVars
<1>1. CASE Midnight
  <2>1. day' \in Days \ {0}
    BY <1>1 DEF Midnight, TypeOK, Days
  <2> QED
    BY <1>1, <2>1 DEF Midnight, TypeOK
<1>2. ASSUME NEW u \in Users, Register(u) PROVE TypeOK'
  <2>1. UserWrite(u) \in Seq(Write)
    BY WriteTypes, DayTypes DEF UserWrite
  <2>2. outbox' \in [Users -> Seq(Write)]
    BY <1>2, <2>1, IssueTypes DEF Register, TypeOK
  <2> QED
    BY <1>2, <2>2 DEF Register, TypeOK
<1>3. ASSUME NEW u \in Users, Login(u) \/ SignInWithApple(u) \/ OpenTasks(u) PROVE TypeOK'
  <2>1. CASE Login(u)
    BY <2>1 DEF Login, TypeOK
  <2>2. CASE SignInWithApple(u)
    BY <2>2 DEF SignInWithApple, TypeOK
  <2>3. CASE OpenTasks(u)
    BY <2>3 DEF OpenTasks, ShouldSelect, TypeOK
  <2> QED
    BY <1>3, <2>1, <2>2, <2>3
<1>4. ASSUME NEW u \in Users, SaveUserInfo(u) PROVE TypeOK'
  <2>1. <<WriteOf("account", NoTask, 0, u)>> \o UserWrite(u) \in Seq(Write)
    <3>1. /\ WriteOf("account", NoTask, 0, u) \in Write
          /\ WriteOf("user", NoTask, 0, u) \in Write
      BY WriteTypes, DayTypes
    <3> QED
      BY <3>1 DEF UserWrite
  <2>2. outbox' \in [Users -> Seq(Write)]
    BY <1>4, <2>1, IssueTypes DEF SaveUserInfo, TypeOK
  <2> QED
    BY <1>4, <2>2 DEF SaveUserInfo, TypeOK
<1>5. ASSUME NEW u \in Users, NEW t \in TaskIds, NEW r \in Ranks, PostTask(u, t, r)
      PROVE  TypeOK'
  <2>1. day \in Days
    BY DEF TypeOK
  <2>2. <<WriteOf("task", t, day, u)>> \in Seq(Write)
    BY <2>1, WriteTypes
  <2>3. outbox' \in [Users -> Seq(Write)]
    BY <1>5, <2>2, IssueTypes DEF PostTask, TypeOK
  <2> QED
    BY <1>5, <2>1, <2>3 DEF PostTask, TypeOK
<1>6. ASSUME NEW u \in Users, Launch(u) PROVE TypeOK'
  <2>1. outbox[u] \in Seq(Write)
    BY DEF TypeOK
  <2>2. WithoutHandlers(outbox[u]) \in Seq(Write)
    BY <2>1, DeadQueue
  <2>3. outbox' \in [Users -> Seq(Write)]
    BY <1>6, <2>2 DEF Launch, TypeOK
  <2> QED
    BY <1>6, <2>3, EndedTypes DEF Launch, TypeOK
<1>7. ASSUME NEW u \in Users, Reinstall(u) PROVE TypeOK'
  <2>1. outbox' \in [Users -> Seq(Write)]
    BY <1>7 DEF Reinstall, TypeOK
  <2>2. cached' \in [Users -> [TaskIds -> Days]]
    <3>1. [t \in TaskIds |-> 0] \in [TaskIds -> Days]
      BY DayTypes
    <3> QED
      BY <1>7, <3>1 DEF Reinstall, TypeOK
  <2> QED
    BY <1>7, <2>1, <2>2, EndedTypes DEF Reinstall, TypeOK
<1>8. ASSUME NEW u \in Users, NEW r \in Ranks \cup {0}, Answer(u, r) PROVE TypeOK'
  <2>1. fetching' \in [Users -> Days] /\ found' \in [Users -> TaskIds \cup {NoTask}]
    <3>1. /\ fetching' = fetching \/ fetching' = [fetching EXCEPT ![u] = 0]
          /\ found' = found \/ \E t \in TaskIds : found' = [found EXCEPT ![u] = t]
      BY <1>8 DEF Answer, Matches
    <3>2. fetching \in [Users -> Days] /\ found \in [Users -> TaskIds \cup {NoTask}]
      BY DEF TypeOK
    <3>3. fetching' \in [Users -> Days]
      BY ONLY <3>1, <3>2, DayTypes
    <3>4. found' \in [Users -> TaskIds \cup {NoTask}]
      BY ONLY <3>1, <3>2
    <3> QED
      BY <3>3, <3>4
  <2> QED
    BY <1>8, <2>1 DEF Answer, TypeOK
<1>9. ASSUME NEW u \in Users, FetchCallback(u) PROVE TypeOK'
  <2>1. found[u] \in TaskIds \cup {NoTask} /\ fetching[u] \in Days
    BY DEF TypeOK
  <2>2. <<WriteOf("fetched", found[u], fetching[u], u)>> \in Seq(Write)
    BY <2>1, WriteTypes
  <2>3. outbox' \in [Users -> Seq(Write)]
    BY <1>9, <2>2, IssueTypes DEF FetchCallback, TypeOK
  <2> QED
    BY <1>9, <2>1, <2>3, DayTypes DEF FetchCallback, TypeOK
<1>10. ASSUME NEW u \in Users, ReplyTask(u) PROVE TypeOK'
  <2>1. hand[u] \in TaskIds \cup {NoTask}
    BY DEF TypeOK
  <2>2. PICK b \in Users \cup {NoUser} : b = IF u \in hasId THEN u ELSE NoUser
    OBVIOUS
  <2>3. <<WriteOf("response", hand[u], 0, b)>> \in Seq(Write)
    BY <2>1, DayTypes, WriteTypes
  <2>4. outbox' \in [Users -> Seq(Write)]
    BY <1>10, <2>2, <2>3, IssueTypes DEF ReplyTask, TypeOK
  <2> QED
    BY <1>10, <2>4 DEF ReplyTask, TypeOK
<1>11. ASSUME NEW u \in Users, OpenReception(u) \/ LatestFromUserDoc(u) \/ ResponsesCallback(u)
       PROVE  TypeOK'
  <2>1. \E p \in Reception : reception' = [reception EXCEPT ![u] = p]
    <3>1. ASSUME NEW t \in TaskIds \cup {NoTask}
          PROVE  /\ [stage |-> "askResponses", task |-> t, completer |-> NoUser] \in Reception
                 /\ \A v \in Users \cup {NoUser} :
                      [stage |-> "shown", task |-> t, completer |-> v] \in Reception
      BY DEF Reception
    <3>2. [Closed EXCEPT !.stage = "askUser"] \in Reception
      BY DEF Closed, Reception
    <3>3. /\ latest[u] \in TaskIds \cup {NoTask} /\ reception[u] \in Reception
          /\ users[u] # NoUser => users[u] \in UserDoc
      BY DEF TypeOK
    <3>4. /\ reception[u].task \in TaskIds \cup {NoTask}
          /\ users[u] # NoUser => users[u].latest \in TaskIds \cup {NoTask}
      BY <3>3 DEF Reception, UserDoc
    <3>5. CASE OpenReception(u)
      BY <3>1, <3>2, <3>3, <3>5 DEF OpenReception, AskResponses
    <3>6. CASE LatestFromUserDoc(u)
      BY <3>1, <3>4, <3>6 DEF LatestFromUserDoc, AskResponses, Shown
    <3>7. CASE ResponsesCallback(u)
      <4>1. \E v \in Users \cup {NoUser} : Shown(u, reception[u].task, v)
        <5>1. CASE Shown(u, reception[u].task, NoUser)
          BY <5>1
        <5>2. ASSUME NEW v \in Decoded(u, reception[u].task),
                     Shown(u, reception[u].task, v)
              PROVE  v \in Users \cup {NoUser}
          <6>1. reception[u].task \in TaskIds
            BY <3>4, <3>7 DEF ResponsesCallback, AsksForTask
          <6>2. responses[reception[u].task] \subseteq Users \cup {NoUser}
            BY <6>1 DEF TypeOK
          <6>3. \A i \in DOMAIN outbox[u] : outbox[u][i].by \in Users \cup {NoUser}
            <7>1. outbox[u] \in Seq(Write)
              BY DEF TypeOK
            <7>2. \A i \in DOMAIN outbox[u] : outbox[u][i] \in Write
              BY <7>1
            <7> QED
              BY <7>2 DEF Write
          <6> QED
            BY <5>2, <6>2, <6>3 DEF Decoded
        <5> QED
          BY <3>7, <5>1, <5>2 DEF ResponsesCallback
      <4> QED
        BY <3>1, <3>4, <4>1 DEF Shown
    <3> QED
      BY <1>11, <3>5, <3>6, <3>7
  <2>2. UNCHANGED <<day, accountVars, taskVars, serverVars, outbox, pageVars, diskVars>>
    BY <1>11 DEF OpenReception, LatestFromUserDoc, ResponsesCallback
  <2> QED
    BY <2>1, <2>2 DEF TypeOK
<1>12. ASSUME NEW u \in Users, Agree(u) PROVE TypeOK'
  <2> DEFINE v == reception[u].completer
  <2>1. v \in Users /\ users[u] # NoUser /\ users[v] # NoUser
    <3>1. reception[u] \in Reception
      BY DEF TypeOK
    <3>2. v \in Users \cup {NoUser}
      BY <3>1 DEF Reception
    <3> QED
      BY <1>12, <3>2 DEF Agree
  <2>2. users' \in [Users -> UserDoc \cup {NoUser}]
    <3> HIDE DEF v
    <3>1. users \in [Users -> UserDoc \cup {NoUser}]
      BY DEF TypeOK
    <3>2. users' = Befriended(u, v)
      BY <1>12 DEF Agree, v
    <3>3. ASSUME NEW x \in {u, v} PROVE users'[x] \in UserDoc
      <4>1. users[x] \in UserDoc
        BY <2>1, <3>1
      <4>2. PICK F \in SUBSET Users : F = users[x].friends
              \cup (IF x = u THEN {v} ELSE {}) \cup (IF x = v THEN {u} ELSE {})
        BY <2>1, <4>1 DEF UserDoc
      <4>3. users'[x] = [users[x] EXCEPT !.friends = F]
        BY <2>1, <3>2, <4>2 DEF Befriended
      <4> QED
        BY <4>1, <4>3, DocTypes
    <3>4. \A x \in Users \ {u, v} : users'[x] = users[x]
      BY <3>2 DEF Befriended
    <3>5. users' = [x \in Users |-> users'[x]]
      BY <3>2 DEF Befriended
    <3> QED
      BY <3>1, <3>3, <3>4, <3>5
  <2>3. UNCHANGED <<day, accountVars, taskVars, lastFetched, responses, outbox, deviceVars>>
    BY <1>12 DEF Agree
  <2> QED
    BY <2>2, <2>3 DEF TypeOK
<1>13. CASE UNCHANGED vars
  BY <1>13 DEF vars, TypeOK
<1>14. ASSUME NEW u \in Users, NEW t \in TaskIds, Refresh(u, t) PROVE TypeOK'
  <2>1. lastFetched[t] \in Days /\ cached \in [Users -> [TaskIds -> Days]]
    BY DEF TypeOK
  <2>2. cached' \in [Users -> [TaskIds -> Days]]
    BY <1>14, <2>1, CachedTypes DEF Refresh
  <2> QED
    BY <1>14, <2>2 DEF Refresh, TypeOK
<1>15. ASSUME NEW u \in Users, CutShort(u) PROVE TypeOK'
  <2>1. PICK w \in Write :
          /\ outbox[u] # <<>>
          /\ lastFetched' = [lastFetched EXCEPT ![w.task] = w.day]
          /\ cached' = [cached EXCEPT ![u][w.task] = w.day]
          /\ latest' = [latest EXCEPT ![u] = w.task]
          /\ cut' = cut \cup {w.task}
          /\ outbox' = [outbox EXCEPT ![u] = WithoutHandlers(Tail(@))]
          /\ Ended(u)
          /\ UNCHANGED <<day, registered, hasId, accounts, author, rank, postedOn, users,
                         responses>>
    BY <1>15, CutEffect
  <2>2. w.task \in TaskIds \cup {NoTask} /\ w.day \in Days
    BY DEF Write
  <2>3. WithoutHandlers(Tail(outbox[u])) \in Seq(Write)
    <3>1. Tail(outbox[u]) \in Seq(Write)
      BY <2>1, OldestWrite
    <3> QED
      BY <3>1, DeadQueue
  <2>4. cached' \in [Users -> [TaskIds -> Days]]
    BY <2>1, <2>2, CachedTypes DEF TypeOK
  <2>5. /\ lastFetched' \in [TaskIds -> Days]
        /\ latest' \in [Users -> TaskIds \cup {NoTask}]
        /\ cut' \subseteq TaskIds \cup {NoTask}
    BY <2>1, <2>2 DEF TypeOK
  <2>6. outbox' \in [Users -> Seq(Write)]
    BY <2>1, <2>3 DEF TypeOK
  <2> QED
    BY <2>1, <2>4, <2>5, <2>6, EndedTypes DEF TypeOK
<1> QED
  BY <1>1, <1>2, <1>3, <1>4, <1>5, <1>6, <1>7, <1>8, <1>9, <1>10, <1>11, <1>12, <1>13,
     <1>14, <1>15, CommitTypes
  DEF Next, Receive

(* What a step does to the reception page of device u.                     *)
LEMMA ReceptionStep ==
  ASSUME TypeInv, [Next]_vars, NEW u \in Users
  PROVE  LET p == reception[u] IN
         \/ reception'[u] = p \/ reception'[u] = Closed
         \/ reception'[u] = [Closed EXCEPT !.stage = "askUser"]
         \/ UNCHANGED <<author, users, lastFetched, responses, outbox, latest>> /\
            \/ /\ latest[u] # NoTask
               /\ reception'[u] = [stage |-> "askResponses", task |-> latest[u],
                                   completer |-> NoUser]
            \/ /\ users[u] # NoUser /\ users[u].latest # NoTask
               /\ reception'[u] = [stage |-> "askResponses", task |-> users[u].latest,
                                   completer |-> NoUser]
            \/ \E v \in Users \cup {NoUser} : \E t \in {p.task, NoTask} :
               /\ reception'[u] = [stage |-> "shown", task |-> t, completer |-> v]
               /\ v = NoUser \/ (t = p.task /\ p.stage = "askResponses" /\ v \in Decoded(u, t))
<1>0. reception \in [Users -> Reception] /\ TypeOK'
  BY NextTypeOK DEF TypeInv, TypeOK
<1>1. CASE UNCHANGED reception
  BY <1>1
<1>2. ASSUME NEW x \in Users, Launch(x) \/ Reinstall(x) \/ CutShort(x)
      PROVE  reception'[u] = reception[u] \/ reception'[u] = Closed
  BY <1>0, <1>2 DEF Launch, Reinstall, CutShort, Ended
<1> DEFINE Kept(x) == x # u => reception'[u] = reception[u]
           Same == UNCHANGED <<author, users, lastFetched, responses, outbox, latest>>
<1>3. ASSUME NEW x \in Users, OpenReception(x)
      PROVE  /\ Kept(x) /\ Same
             /\ x = u => \/ reception'[u] = [Closed EXCEPT !.stage = "askUser"]
                         \/ /\ latest[u] # NoTask
                            /\ reception'[u] = [stage |-> "askResponses",
                                 task |-> latest[u], completer |-> NoUser]
  BY <1>0, <1>3 DEF OpenReception, AskResponses, taskVars, serverVars, diskVars
<1>4. ASSUME NEW x \in Users, LatestFromUserDoc(x)
      PROVE  /\ Kept(x) /\ Same
             /\ x = u => \/ reception'[u] = [stage |-> "shown", task |-> NoTask,
                                             completer |-> NoUser]
                         \/ /\ users[u] # NoUser /\ users[u].latest # NoTask
                            /\ reception'[u] = [stage |-> "askResponses",
                                 task |-> users[u].latest, completer |-> NoUser]
  BY <1>0, <1>4 DEF LatestFromUserDoc, AskResponses, Shown, taskVars, serverVars, diskVars
<1>5. ASSUME NEW x \in Users, ResponsesCallback(x)
      PROVE  /\ Kept(x) /\ Same
             /\ x = u => /\ reception[u].stage = "askResponses"
                         /\ \E v \in Decoded(u, reception[u].task) \cup {NoUser} :
                              reception'[u] = [stage |-> "shown", task |-> reception[u].task,
                                               completer |-> v]
  BY <1>0, <1>5 DEF ResponsesCallback, Shown, taskVars, serverVars, diskVars
<1>6. ASSUME NEW x \in Users, NEW v, NEW t, x = u,
             reception'[u] = [stage |-> "shown", task |-> t, completer |-> v]
      PROVE  v \in Users \cup {NoUser}
  <2>1. reception'[u] \in Reception
    BY <1>0 DEF TypeOK
  <2> QED
    BY <1>6, <2>1 DEF Reception
<1>7. ASSUME NEW x \in Users, Receive(x)
      PROVE  UNCHANGED reception \/ OpenReception(x) \/ LatestFromUserDoc(x)
             \/ ResponsesCallback(x)
  BY <1>7 DEF Receive, Agree, deviceVars
<1>8. ASSUME NEW x \in Users, Commit(x) PROVE UNCHANGED reception
  BY <1>8 DEF Commit
<1>9. \/ UNCHANGED reception
      \/ \E x \in Users : \/ Launch(x) \/ Reinstall(x) \/ CutShort(x) \/ OpenReception(x)
                          \/ LatestFromUserDoc(x) \/ ResponsesCallback(x)
  BY <1>7, <1>8 DEF Next, vars, Midnight, Register, Login, SignInWithApple, SaveUserInfo,
    OpenTasks, ShouldSelect, PostTask, Refresh, Answer, FetchCallback, ReplyTask, deviceVars
<1>10. CASE \E x \in Users : OpenReception(x)
  BY <1>3, <1>10
<1>11. CASE \E x \in Users : LatestFromUserDoc(x)
  <2>1. PICK x \in Users : LatestFromUserDoc(x)
    BY <1>11
  <2>2. Kept(x) /\ Same
    BY <1>4, <2>1
  <2>3. CASE x = u /\ reception'[u] = [stage |-> "shown", task |-> NoTask,
                                      completer |-> NoUser]
    BY <2>2, <2>3
  <2> QED
    BY <1>4, <2>1, <2>2, <2>3
<1>12. CASE \E x \in Users : ResponsesCallback(x)
  <2>1. PICK x \in Users : ResponsesCallback(x)
    BY <1>12
  <2>2. Kept(x) /\ Same
    BY <1>5, <2>1
  <2>3. CASE x = u
    <3>1. PICK v \in Decoded(u, reception[u].task) \cup {NoUser} :
            reception'[u] = [stage |-> "shown", task |-> reception[u].task,
                             completer |-> v]
      BY <1>5, <2>1, <2>3
    <3>2. v \in Users \cup {NoUser} /\ reception[u].stage = "askResponses"
      BY <1>5, <1>6, <2>1, <2>3, <3>1
    <3> QED
      BY <2>2, <3>1, <3>2
  <2> QED
    BY <2>2, <2>3
<1> QED
  BY <1>1, <1>2, <1>9, <1>10, <1>11, <1>12

(* Every step keeps the types, and asks for the replies of known tasks.    *)
LEMMA NextTypeInv == TypeInv /\ [Next]_vars => TypeInv'
<1> SUFFICES ASSUME TypeInv, [Next]_vars PROVE AsksForTask'
  BY NextTypeOK DEF TypeInv
<1> SUFFICES ASSUME NEW u \in Users, reception'[u].stage = "askResponses"
             PROVE  reception'[u].task # NoTask
  BY DEF AsksForTask
<1>1. /\ Closed.stage # "askResponses"
      /\ [Closed EXCEPT !.stage = "askUser"].stage # "askResponses"
  BY DEF Closed
<1>2. ASSUME NEW v, NEW t PROVE [stage |-> "shown", task |-> t, completer |-> v].stage = "shown"
  OBVIOUS
<1>3. reception[u].stage = "askResponses" => reception[u].task # NoTask
  BY DEF TypeInv, AsksForTask
<1>4. CASE reception'[u] \in {reception[u], Closed, [Closed EXCEPT !.stage = "askUser"]}
  BY <1>1, <1>3, <1>4
<1>5. CASE \E v \in Users \cup {NoUser} : \E t \in {reception[u].task, NoTask} :
             reception'[u] = [stage |-> "shown", task |-> t, completer |-> v]
  BY <1>2, <1>5
<1>6. ASSUME NEW t, t # NoTask,
             reception'[u] = [stage |-> "askResponses", task |-> t, completer |-> NoUser]
      PROVE  reception'[u].task # NoTask
  BY <1>6
<1> QED
  BY ReceptionStep, <1>4, <1>5, <1>6

-----------------------------------------------------------------------------
(***************************************************************************)
(* The inductive invariant about fetching and replying.                    *)
(***************************************************************************)
Posted(t) == t \in TaskIds /\ author[t] # NoUser

\* Task t is at the server, or one of the first n writes of u puts it there.
Stored(u, t, n) ==
  \/ lastFetched[t] # 0
  \/ \E j \in 1..n : outbox[u][j].kind = "task" /\ outbox[u][j].task = t

\* Task t is marked as fetched, or one of the first n writes of u marks it.
Marked(u, t, n) ==
  \/ lastFetched[t] > postedOn[t]
  \/ \E j \in 1..n : outbox[u][j].kind = "fetched" /\ outbox[u][j].task = t

(* A task's document is written once, before it is marked, and the mark    *)
(* before the reply.                                                       *)
WriteSound(u, i) ==
  LET w == outbox[u][i] IN
  /\ w.kind \in {"task", "fetched", "response", "latest"} => Posted(w.task)
  /\ w.kind = "task" => /\ author[w.task] = u /\ lastFetched[w.task] = 0
                        /\ w.day = postedOn[w.task] /\ w.day # 0
  /\ w.kind = "fetched" => w.day > postedOn[w.task] /\ Stored(u, w.task, i - 1)
  /\ w.kind = "response" => w.by = u /\ Marked(u, w.task, i - 1)
  /\ w.kind = "latest" => author[w.task] = u /\ lastFetched[w.task] # 0

WritesSound == \A u \in Users : \A i \in 1..Len(outbox[u]) : WriteSound(u, i)

PostedOnce ==
  \A u \in Users : \A i, j \in 1..Len(outbox[u]) :
    /\ outbox[u][i].kind = "task" /\ outbox[u][j].kind = "task"
    /\ outbox[u][i].task = outbox[u][j].task
    => i = j

(* The server has what was posted, marked no earlier than posted.          *)
ServerSound ==
  \A t \in TaskIds :
    /\ lastFetched[t] # 0 => author[t] # NoUser /\ lastFetched[t] >= postedOn[t]
    /\ responses[t] # {} => lastFetched[t] > postedOn[t]
    /\ NoUser \notin responses[t]

(* A task a page found or shows was posted on an earlier day and is stored *)
(* or marked before what the page writes next; only pages of a device with *)
(* a "userId" have one.                                                    *)
PageSound(u) ==
  /\ fetching[u] <= day
  /\ u \in loaded \/ fetching[u] # 0 \/ found[u] # NoTask \/ hand[u] # NoTask => u \in hasId
  /\ found[u] # NoTask => /\ Posted(found[u]) /\ postedOn[found[u]] < fetching[u]
                          /\ Stored(u, found[u], Len(outbox[u]))
  /\ hand[u] # NoTask => /\ Posted(hand[u]) /\ postedOn[hand[u]] < day
                         /\ Marked(u, hand[u], Len(outbox[u]))

PagesSound == \A u \in Users : PageSound(u)

(* A device's cache has what was at the server.                            *)
CacheSound ==
  \A u \in Users : \A t \in TaskIds : cached[u][t] # 0 =>
    lastFetched[t] # 0 /\ cached[u][t] >= postedOn[t]

FetchInv ==
  TypeInv /\ WritesSound /\ PostedOnce /\ ServerSound /\ CacheSound /\ PagesSound

(* A step as the queues see it.  c is the device whose oldest write the    *)
(* server applies, or NoUser.                                              *)
Applied(u, c) == IF u = c THEN 1 ELSE 0

Follows(u, c) ==
  LET n == Len(outbox[u])
      d == Applied(u, c)
  IN  /\ d <= n /\ n - d <= Len(outbox'[u])
      /\ \A i \in 1..(n - d) : /\ outbox'[u][i].kind = outbox[u][i + d].kind
                                /\ outbox'[u][i].task = outbox[u][i + d].task
                                /\ outbox'[u][i].day = outbox[u][i + d].day
                                /\ outbox'[u][i].by = outbox[u][i + d].by

ServerStep(c) ==
  /\ \A t \in TaskIds : author[t] # NoUser =>
       author'[t] = author[t] /\ postedOn'[t] = postedOn[t]
  /\ c \in Users => outbox[c] # <<>>
  /\ \A t \in TaskIds :
       IF /\ c \in Users /\ outbox[c][1].kind \in {"task", "fetched"}
          /\ outbox[c][1].task = t
       THEN lastFetched'[t] = outbox[c][1].day
       ELSE lastFetched'[t] = lastFetched[t]
  /\ \A t \in TaskIds :
       IF /\ c \in Users /\ outbox[c][1].kind = "response" /\ outbox[c][1].task = t
       THEN responses'[t] = responses[t] \cup {outbox[c][1].by}
       ELSE responses'[t] = responses[t]

\* Write w, issued by device u in this step, comes from one of the handlers.
NewWrite(u, c, w) ==
  \/ w.kind = "account" /\ u \in saving
  \/ w.kind = "user" /\ (u \in saving \/ (u \notin registered /\ u \in registered'))
  \/ /\ w.kind = "task" /\ w.day = day /\ w.task \in TaskIds /\ author[w.task] = NoUser
     /\ author'[w.task] = u /\ postedOn'[w.task] = day /\ u \in hasId
  \/ /\ w.kind = "latest" /\ u = c /\ outbox[u][1].kind = "task"
     /\ w.task = outbox[u][1].task /\ latest'[u] = w.task
  \/ w.kind = "fetched" /\ w.task = found[u] /\ found[u] # NoTask /\ w.day = fetching[u]
  \/ w.kind = "response" /\ w.task = hand[u] /\ hand[u] # NoTask
     /\ w.by = IF u \in hasId THEN u ELSE NoUser

Grows(u, c) ==
  LET m == Len(outbox[u]) - Applied(u, c)
      n == Len(outbox'[u])
  IN  \A i \in (m + 1)..n :
        /\ NewWrite(u, c, outbox'[u][i])
        /\ n = m + 1 \/ (u \in saving /\ outbox'[u][i].kind \in {"account", "user"})

PagesCleared(u) ==
  u \notin loaded' /\ fetching'[u] = 0 /\ found'[u] = NoTask /\ hand'[u] = NoTask

QueueStep(u, c) ==
  \/ Follows(u, c) /\ Grows(u, c)
  \/ outbox'[u] = <<>> /\ latest'[u] = NoTask /\ PagesCleared(u)

(* A device that issues nothing in a step.                                 *)
LEMMA QueueKept ==
  ASSUME TypeOK, NEW u \in Users, NEW c, u # c, outbox'[u] = outbox[u]
  PROVE  QueueStep(u, c)
<1>1. Len(outbox[u]) \in Nat
  BY DEF TypeOK
<1>2. Applied(u, c) = 0
  BY DEF Applied
<1>3. Follows(u, c)
  BY <1>1, <1>2 DEF Follows
<1>4. Grows(u, c)
  BY <1>1, <1>2 DEF Grows
<1> QED
  BY <1>3, <1>4 DEF QueueStep

(* A device that issues one write.                                         *)
LEMMA QueueOnIssue ==
  ASSUME TypeOK, NEW x \in Users, NEW w \in Write, Issue(x, <<w>>),
         NewWrite(x, NoUser, w), NEW u \in Users
  PROVE  QueueStep(u, NoUser)
<1>0. outbox[u] \in Seq(Write) /\ u # NoUser /\ outbox \in [Users -> Seq(Write)]
  BY DEF TypeOK
<1>1. CASE u # x
  <2>1. outbox'[u] = outbox[u]
    BY <1>0, <1>1 DEF Issue
  <2> QED
    BY <1>0, <2>1, QueueKept
<1>2. CASE u = x
  <2>1. PICK n \in Nat : n = Len(outbox[u])
    BY <1>0
  <2>2. outbox'[u] = outbox[u] \o <<w>>
    BY <1>0, <1>2 DEF Issue
  <2>3. /\ Len(outbox'[u]) = n + 1 /\ outbox'[u][n + 1] = w
        /\ \A i \in 1..n : outbox'[u][i] = outbox[u][i]
    BY <1>0, <2>1, <2>2
  <2>4. Applied(u, NoUser) = 0
    BY <1>0 DEF Applied
  <2>5. Follows(u, NoUser)
    BY <2>1, <2>3, <2>4 DEF Follows
  <2>6. \A i \in (n + 1)..(n + 1) : i = n + 1
    BY <2>1
  <2>7. Grows(u, NoUser)
    BY <1>2, <2>1, <2>3, <2>4, <2>6 DEF Grows
  <2> QED
    BY <2>5, <2>7 DEF QueueStep
<1> QED
  BY <1>1, <1>2

(* A device that writes an account document, a user document or both.      *)
LEMMA QueueOnSignIn ==
  ASSUME TypeOK, NEW x \in saving, x \in Users, NEW u \in Users,
         Issue(x, <<WriteOf("account", NoTask, 0, x)>> \o UserWrite(x))
  PROVE  QueueStep(u, NoUser)
<1>0. outbox[u] \in Seq(Write) /\ u # NoUser /\ outbox \in [Users -> Seq(Write)]
  BY DEF TypeOK
<1>1. CASE u # x
  <2>1. outbox'[u] = outbox[u]
    BY <1>0, <1>1 DEF Issue
  <2> QED
    BY <1>0, <2>1, QueueKept
<1>2. CASE u = x
  <2>1. PICK n \in Nat : n = Len(outbox[u])
    BY <1>0
  <2>2. PICK a \in Write, b \in Write :
          /\ a = WriteOf("account", NoTask, 0, x) /\ b = WriteOf("user", NoTask, 0, x)
          /\ a.kind = "account" /\ b.kind = "user"
    BY WriteTypes, DayTypes
  <2>3. outbox'[u] = outbox[u] \o (<<a>> \o <<b>>)
    BY <1>0, <1>2, <2>2 DEF Issue, UserWrite
  <2>4. /\ Len(outbox'[u]) = n + 2 /\ outbox'[u][n + 1] = a /\ outbox'[u][n + 2] = b
        /\ \A i \in 1..n : outbox'[u][i] = outbox[u][i]
    BY <1>0, <2>1, <2>3
  <2>5. Applied(u, NoUser) = 0
    BY <1>0 DEF Applied
  <2>6. Follows(u, NoUser)
    BY <2>1, <2>4, <2>5 DEF Follows
  <2>7. \A i \in (n + 1)..(n + 2) : i = n + 1 \/ i = n + 2
    BY <2>1
  <2>8. \A i \in (n + 1)..(n + 2) : outbox'[u][i].kind \in {"account", "user"}
    BY <2>2, <2>4, <2>7
  <2>9. Grows(u, NoUser)
    BY <1>2, <2>1, <2>4, <2>5, <2>8 DEF Grows, NewWrite
  <2> QED
    BY <2>6, <2>9 DEF QueueStep
<1> QED
  BY <1>1, <1>2

(* The device whose oldest write the server applies.                       *)
LEMMA QueueOnCommit ==
  ASSUME TypeOK, NEW c \in Users, Commit(c), NEW u \in Users
  PROVE  QueueStep(u, c)
<1>0. outbox \in [Users -> Seq(Write)]
  BY DEF TypeOK
<1> DEFINE w == Head(outbox[c])
<1>t. /\ outbox[c] # <<>> /\ w = outbox[c][1] /\ w \in Write
      /\ Tail(outbox[c]) \in Seq(Write)
      /\ \/ outbox' = [outbox EXCEPT ![c] = Tail(@)]
         \/ /\ w.kind = "task"
            /\ outbox' = [outbox EXCEPT ![c] =
                             Append(Tail(@), WriteOf("latest", w.task, 0, c))]
  <2>1. outbox[c] # <<>>
    BY CommitEffect
  <2> QED
    BY <2>1, OldestWrite, CommitEffect
<1>1. CASE u # c
  <2>1. outbox'[u] = outbox[u]
    BY <1>0, <1>1, <1>t
  <2> QED
    BY <1>1, <2>1, QueueKept
<1>2. CASE u = c
  <2>1. PICK n \in Nat \ {0} : n = Len(outbox[u])
    BY <1>2, <1>t, OldestWrite
  <2>2. /\ Len(Tail(outbox[u])) = n - 1
        /\ \A i \in 1..(n - 1) : Tail(outbox[u])[i] = outbox[u][i + 1]
    BY <1>2, <1>t, <2>1, OldestWrite
  <2>3. Applied(u, c) = 1
    BY <1>2 DEF Applied
  <2>4. CASE outbox'[u] = Tail(outbox[u])
    <3>1. Follows(u, c)
      BY <2>1, <2>2, <2>3, <2>4 DEF Follows
    <3>2. Grows(u, c)
      BY <2>1, <2>2, <2>3, <2>4 DEF Grows
    <3> QED
      BY <3>1, <3>2 DEF QueueStep
  <2>5. CASE /\ w.kind = "task"
             /\ outbox'[u] = Append(Tail(outbox[u]), WriteOf("latest", w.task, 0, c))
    <3>0. w.task \in TaskIds \cup {NoTask}
      BY <1>t DEF Write
    <3>1. PICK x \in Write : x = WriteOf("latest", w.task, 0, c)
                              /\ x.kind = "latest" /\ x.task = w.task
      BY <3>0, WriteTypes, DayTypes
    <3>2. /\ Len(outbox'[u]) = n /\ outbox'[u][n] = x
          /\ \A i \in 1..(n - 1) : outbox'[u][i] = outbox[u][i + 1]
      BY <1>2, <1>t, <2>1, <2>2, <2>5, <3>1
    <3>3. Follows(u, c)
      BY <2>1, <2>3, <3>2 DEF Follows
    <3>4. NewWrite(u, c, x)
      <4>1. latest'[u] = w.task
        <5>1. Tail(outbox[u]) # outbox'[u]
          <6>1. Len(Tail(outbox[u])) # Len(outbox'[u])
            BY <2>1, <2>2, <3>2
          <6> QED
            BY <6>1
        <5>2. outbox'[u] = Tail(outbox[u]) \/ latest' = [latest EXCEPT ![u] = w.task]
          BY <1>0, <1>2, CommitEffect
        <5> QED
          BY <5>1, <5>2 DEF TypeOK
      <4> QED
        BY <1>2, <1>t, <2>5, <3>1, <4>1 DEF NewWrite
    <3>5. \A i \in (n - 1 + 1)..n : i = n
      BY <2>1
    <3>6. Grows(u, c)
      BY <2>1, <2>3, <3>1, <3>2, <3>4, <3>5 DEF Grows
    <3> QED
      BY <3>3, <3>6 DEF QueueStep
  <2> QED
    BY <1>0, <1>2, <1>t, <2>4, <2>5
<1> QED
  BY <1>1, <1>2

(* A restart leaves the writes, without their handlers.                    *)
LEMMA QueueOnLaunch ==
  ASSUME TypeOK, NEW x \in Users, Launch(x), NEW u \in Users
  PROVE  QueueStep(u, NoUser)
<1>0. outbox[u] \in Seq(Write) /\ u # NoUser /\ outbox \in [Users -> Seq(Write)]
  BY DEF TypeOK
<1>1. CASE u # x
  <2>1. outbox'[u] = outbox[u]
    BY <1>0, <1>1 DEF Launch
  <2> QED
    BY <1>0, <2>1, QueueKept
<1>2. CASE u = x
  <2>1. outbox'[u] = WithoutHandlers(outbox[u])
    BY <1>0, <1>2 DEF Launch
  <2>2. PICK n \in Nat : n = Len(outbox[u])
    BY <1>0
  <2>3. Len(outbox'[u]) = n
        /\ \A i \in 1..n : /\ outbox'[u][i].kind = outbox[u][i].kind
                           /\ outbox'[u][i].task = outbox[u][i].task
                           /\ outbox'[u][i].day = outbox[u][i].day
                           /\ outbox'[u][i].by = outbox[u][i].by
    BY <1>0, <2>1, <2>2, DeadQueue
  <2>4. Applied(u, NoUser) = 0
    BY <1>0 DEF Applied
  <2>5. Follows(u, NoUser)
    BY ONLY <2>2, <2>3, <2>4, n \in Nat DEF Follows
  <2>6. Grows(u, NoUser)
    BY <2>2, <2>3, <2>4 DEF Grows
  <2> QED
    BY <2>5, <2>6 DEF QueueStep
<1> QED
  BY <1>1, <1>2

(* So does an app that ends in postTask's completion handler.              *)
LEMMA QueueOnCut ==
  ASSUME TypeOK, NEW c \in Users, CutShort(c), NEW u \in Users
  PROVE  QueueStep(u, c)
<1>0. outbox \in [Users -> Seq(Write)]
  BY DEF TypeOK
<1>t. /\ outbox[c] # <<>> /\ outbox' = [outbox EXCEPT ![c] = WithoutHandlers(Tail(@))]
  BY CutEffect
<1>1. CASE u # c
  <2>1. outbox'[u] = outbox[u]
    BY <1>0, <1>1, <1>t
  <2> QED
    BY <1>1, <2>1, QueueKept
<1>2. CASE u = c
  <2>1. PICK n \in Nat \ {0} : n = Len(outbox[u])
    BY <1>2, <1>t, OldestWrite
  <2>2. PICK q \in Seq(Write) :
          /\ q = Tail(outbox[u]) /\ Len(q) = n - 1
          /\ \A i \in 1..(n - 1) : q[i] = outbox[u][i + 1]
    BY <1>2, <1>t, <2>1, OldestWrite
  <2>3. outbox'[u] = WithoutHandlers(q)
    BY <1>0, <1>2, <1>t, <2>2
  <2>4. Len(outbox'[u]) = n - 1
        /\ \A i \in 1..(n - 1) : /\ outbox'[u][i].kind = outbox[u][i + 1].kind
                                 /\ outbox'[u][i].task = outbox[u][i + 1].task
                                 /\ outbox'[u][i].day = outbox[u][i + 1].day
                                 /\ outbox'[u][i].by = outbox[u][i + 1].by
    <3>1. Len(outbox'[u]) = Len(q)
          /\ \A i \in 1..Len(q) : /\ outbox'[u][i].kind = q[i].kind
                                  /\ outbox'[u][i].task = q[i].task
                                  /\ outbox'[u][i].day = q[i].day
                                  /\ outbox'[u][i].by = q[i].by
      BY <2>3, DeadQueue
    <3> QED
      BY <2>2, <3>1
  <2>5. Applied(u, c) = 1
    BY <1>2 DEF Applied
  <2>6. Follows(u, c)
    BY ONLY <2>1, <2>4, <2>5, n \in Nat \ {0} DEF Follows
  <2>7. Grows(u, c)
    BY <2>1, <2>4, <2>5 DEF Grows
  <2> QED
    BY <2>6, <2>7 DEF QueueStep
<1> QED
  BY <1>1, <1>2

(* A reinstallation drops writes and pages.                                *)
LEMMA QueueOnReinstall ==
  ASSUME TypeOK, NEW x \in Users, Reinstall(x), NEW u \in Users
  PROVE  QueueStep(u, NoUser)
<1>0. u # NoUser /\ outbox \in [Users -> Seq(Write)]
  BY DEF TypeOK
<1>1. CASE u # x
  <2>1. outbox'[u] = outbox[u]
    BY <1>0, <1>1 DEF Reinstall
  <2> QED
    BY <1>0, <2>1, QueueKept
<1>2. CASE u = x
  <2>1. outbox'[u] = <<>> /\ latest'[u] = NoTask
    BY <1>0, <1>2 DEF Reinstall, TypeOK
  <2>2. PagesCleared(u)
    BY <1>2 DEF Reinstall, Ended, PagesCleared, TypeOK
  <2> QED
    BY <2>1, <2>2 DEF QueueStep
<1> QED
  BY <1>1, <1>2

(* The tasks at the server change by a commit only, and a posted task      *)
(* keeps its poster and its day.                                           *)
LEMMA ServerKept ==
  ASSUME UNCHANGED <<lastFetched, responses>>,
         \A t \in TaskIds : author[t] # NoUser =>
            author'[t] = author[t] /\ postedOn'[t] = postedOn[t]
  PROVE  ServerStep(NoUser)
BY DEF ServerStep

(* What the server does with an oldest write about tasks.                  *)
LEMMA ServerOnCommit ==
  ASSUME TypeOK, NEW c \in Users, Commit(c)
  PROVE  ServerStep(c)
<1>1. /\ outbox[c] # <<>> /\ Head(outbox[c]) = outbox[c][1]
  <2>1. outbox[c] # <<>>
    BY CommitEffect
  <2> QED
    BY <2>1, OldestWrite
<1>2. UNCHANGED <<author, postedOn>>
  BY CommitEffect
<1>3. lastFetched \in [TaskIds -> Days]
      /\ responses \in [TaskIds -> SUBSET (Users \cup {NoUser})]
  BY DEF TypeOK
<1>4. ASSUME NEW t \in TaskIds
      PROVE  IF /\ outbox[c][1].kind \in {"task", "fetched"} /\ outbox[c][1].task = t
             THEN lastFetched'[t] = outbox[c][1].day
             ELSE lastFetched'[t] = lastFetched[t]
  <2>1. IF outbox[c][1].kind \in {"task", "fetched"}
        THEN lastFetched' = [lastFetched EXCEPT ![outbox[c][1].task] = outbox[c][1].day]
        ELSE lastFetched' = lastFetched
    BY <1>1, CommitEffect
  <2> QED
    BY ONLY <1>3, <2>1, t \in TaskIds
<1>5. ASSUME NEW t \in TaskIds
      PROVE  IF outbox[c][1].kind = "response" /\ outbox[c][1].task = t
             THEN responses'[t] = responses[t] \cup {outbox[c][1].by}
             ELSE responses'[t] = responses[t]
  <2>1. IF outbox[c][1].kind = "response"
        THEN responses' = [responses EXCEPT ![outbox[c][1].task] =
                              responses[outbox[c][1].task] \cup {outbox[c][1].by}]
        ELSE responses' = responses
    BY <1>1, CommitEffect
  <2> QED
    BY ONLY <1>3, <2>1, t \in TaskIds
<1> QED
  BY <1>1, <1>2, <1>4, <1>5 DEF ServerStep

(* The same when the poster's app ends in the completion handler.          *)
LEMMA ServerOnCut ==
  ASSUME TypeOK, NEW c \in Users, CutShort(c)
  PROVE  ServerStep(c)
<1>1. PICK w \in Write :
        /\ outbox[c] # <<>> /\ w = outbox[c][1] /\ w.kind = "task"
        /\ lastFetched' = [lastFetched EXCEPT ![w.task] = w.day]
        /\ UNCHANGED <<author, postedOn, responses>>
  BY CutEffect
<1>2. lastFetched \in [TaskIds -> Days]
  BY DEF TypeOK
<1>3. ASSUME NEW t \in TaskIds
      PROVE  IF w.task = t THEN lastFetched'[t] = w.day ELSE lastFetched'[t] = lastFetched[t]
  BY <1>1, <1>2
<1> QED
  BY <1>1, <1>3 DEF ServerStep

(* What a step does to the user document and the latest id of device u.    *)
LatestStep(u, c) ==
  \/ latest'[u] = latest[u]
  \/ latest'[u] = NoTask /\ outbox'[u] = <<>>
  \/ LET n == Len(outbox[u]) IN
     /\ u = c /\ outbox[u][1].kind = "task" /\ latest'[u] = outbox[u][1].task
     /\ \/ /\ Len(outbox'[u]) = n
           /\ outbox'[u][n].kind = "latest" /\ outbox'[u][n].task = latest'[u]
        \/ latest'[u] \in cut'

DocStep(u, c) ==
  \/ users'[u] = users[u] /\ (u = c => outbox[u][1].kind # "latest" \/ users[u] = NoUser)
  \/ u = c /\ outbox[u][1].kind = "user" /\ users'[u] = BlankUser
  \/ /\ users[u] # NoUser /\ users'[u] # NoUser
     /\ \/ u = c /\ outbox[u][1].kind = "latest" /\ users'[u].latest = outbox[u][1].task
        \/ u # c /\ users'[u].latest = users[u].latest

AccountStep(u, c) ==
  /\ u \in registered => u \in registered'
  /\ cut \subseteq cut'
  /\ u \in saving' => u \in saving \/ u \in registered'
  /\ LatestStep(u, c) /\ DocStep(u, c)

(* A commit is such a step.                                                *)
LEMMA AccountOnCommit ==
  ASSUME TypeOK, NEW c \in Users, Commit(c), NEW u \in Users
  PROVE  AccountStep(u, c)
<1> DEFINE w == Head(outbox[c])
<1>0. /\ outbox \in [Users -> Seq(Write)] /\ latest \in [Users -> TaskIds \cup {NoTask}]
      /\ users \in [Users -> UserDoc \cup {NoUser}]
  BY DEF TypeOK
<1>1. /\ outbox[c] # <<>> /\ w = outbox[c][1] /\ w \in Write /\ Tail(outbox[c]) \in Seq(Write)
      /\ Len(Tail(outbox[c])) = Len(outbox[c]) - 1
  <2>1. outbox[c] # <<>>
    BY CommitEffect
  <2> QED
    BY <2>1, OldestWrite
<1>2. w.task \in TaskIds \cup {NoTask}
  BY <1>1 DEF Write
<1>3. LatestStep(u, c)
  <2>1. CASE latest' = latest
    BY <2>1 DEF LatestStep
  <2>2. CASE /\ w.kind = "task"
             /\ outbox' = [outbox EXCEPT ![c] =
                              Append(Tail(@), WriteOf("latest", w.task, 0, c))]
             /\ latest' = [latest EXCEPT ![c] = w.task]
    <3>1. CASE u # c
      BY <1>0, <2>2, <3>1 DEF LatestStep
    <3>2. CASE u = c
      <4>1. PICK x \in Write : x = WriteOf("latest", w.task, 0, c)
                               /\ x.kind = "latest" /\ x.task = w.task
        BY <1>2, WriteTypes, DayTypes
      <4>2. outbox'[u] = Append(Tail(outbox[u]), x) /\ latest'[u] = w.task
        BY <1>0, <2>2, <3>2, <4>1
      <4>3. PICK n \in Nat \ {0} : n = Len(outbox[u])
        BY <1>1, <3>2, OldestWrite
      <4>4. Len(outbox'[u]) = n /\ outbox'[u][n] = x
        BY <1>1, <3>2, <4>2, <4>3
      <4> QED
        BY <1>1, <2>2, <3>2, <4>1, <4>2, <4>3, <4>4 DEF LatestStep
    <3> QED
      BY <3>1, <3>2
  <2> QED
    BY <2>1, <2>2, CommitEffect
<1>4. DocStep(u, c)
  <2>1. CASE w.kind = "user" /\ users' = [users EXCEPT ![c] = BlankUser]
    BY <1>0, <1>1, <2>1 DEF DocStep
  <2>2. CASE /\ w.kind = "latest" /\ users[c] # NoUser
             /\ users' = [users EXCEPT ![c] = [users[c] EXCEPT !.latest = w.task]]
    <3>1. CASE u = c
      <4>1. users'[u] = [users[u] EXCEPT !.latest = w.task] /\ users[u] \in UserDoc
        BY <1>0, <2>2, <3>1
      <4>2. users'[u].latest = w.task
        BY <1>2, <4>1, DocTypes
      <4>3. users'[u] # NoUser
        BY <1>2, <4>1, DocTypes, NoDocument
      <4> QED
        BY <1>1, <2>2, <3>1, <4>2, <4>3 DEF DocStep
    <3> QED
      BY <1>0, <2>2, <3>1 DEF DocStep
  <2>3. CASE users' = users /\ (w.kind # "latest" \/ users[c] = NoUser)
    BY <1>1, <2>3 DEF DocStep
  <2> QED
    BY <2>1, <2>2, <2>3, CommitEffect
<1>5. UNCHANGED <<registered, saving, cut>>
  BY CommitEffect
<1> QED
  BY <1>3, <1>4, <1>5 DEF AccountStep

(* So is one whose completion handler is cut short.                        *)
LEMMA AccountOnCut ==
  ASSUME TypeOK, NEW c \in Users, CutShort(c), NEW u \in Users
  PROVE  AccountStep(u, c)
<1>1. PICK w \in Write :
        /\ w = outbox[c][1] /\ w.kind = "task"
        /\ latest' = [latest EXCEPT ![c] = w.task]
        /\ cut' = cut \cup {w.task}
        /\ saving' \subseteq saving
        /\ UNCHANGED <<registered, users>>
  <2>1. Ended(c) => saving' \subseteq saving
    BY DEF Ended
  <2> QED
    BY <2>1, CutEffect
<1>2. LatestStep(u, c)
  BY <1>1 DEF LatestStep, TypeOK
<1>3. DocStep(u, c)
  BY <1>1 DEF DocStep
<1> QED
  BY <1>1, <1>2, <1>3 DEF AccountStep

(* What addFriend makes of the document of u, when x agrees to befriend v. *)
LEMMA BefriendedDoc ==
  ASSUME TypeOK, NEW x \in Users, Agree(x), NEW u \in Users
  PROVE  LET v == reception[x].completer IN
         /\ v \in Users /\ users[x] # NoUser /\ users[v] # NoUser
         /\ IF u \in {x, v}
            THEN /\ users[u] \in UserDoc /\ users'[u] \in UserDoc
                 /\ users'[u].latest = users[u].latest
                 /\ users'[u].friends = users[u].friends \cup (IF u = x THEN {v} ELSE {})
                                                         \cup (IF u = v THEN {x} ELSE {})
            ELSE users'[u] = users[u]
<1>1. PICK v \in Users : /\ v = reception[x].completer
                         /\ users[x] # NoUser /\ users[v] # NoUser
                         /\ users' = Befriended(x, v)
  <2>1. reception[x] \in Reception
    BY DEF TypeOK
  <2>2. reception[x].completer \in Users \cup {NoUser}
    BY <2>1 DEF Reception
  <2> QED
    BY <2>2 DEF Agree
<1>2. CASE u \notin {x, v}
  BY <1>1, <1>2 DEF Befriended
<1>3. CASE u \in {x, v}
  <2>1. users[u] \in UserDoc
    BY <1>1, <1>3 DEF TypeOK
  <2>2. PICK F \in SUBSET Users : F = users[u].friends
          \cup (IF u = x THEN {v} ELSE {}) \cup (IF u = v THEN {x} ELSE {})
    BY <2>1 DEF UserDoc
  <2>3. users'[u] = [users[u] EXCEPT !.friends = F]
    BY <1>1, <1>3, <2>2 DEF Befriended
  <2>4. /\ users'[u] \in UserDoc /\ users'[u].latest = users[u].latest
        /\ users'[u].friends = F
    BY <2>1, <2>3, DocTypes
  <2> QED
    BY <1>1, <1>3, <2>1, <2>2, <2>4
<1> QED
  BY <1>1, <1>2, <1>3

(* A step without commit leaves accounts, ids and documents sound.         *)
LEMMA AccountKept ==
  ASSUME TypeOK, NEW u \in Users, UNCHANGED <<users, latest, cut>>,
         registered \subseteq registered', saving' \subseteq saving \cup registered'
  PROVE  AccountStep(u, NoUser)
BY DEF AccountStep, LatestStep, DocStep

(* So is a reinstallation, and so is addFriend.                            *)
LEMMA AccountOnReinstall ==
  ASSUME TypeOK, NEW x \in Users, Reinstall(x), NEW u \in Users
  PROVE  AccountStep(u, NoUser)
<1>1. /\ UNCHANGED <<users, registered, cut>> /\ saving' \subseteq saving
      /\ u # x => latest'[u] = latest[u]
      /\ u = x => latest'[u] = NoTask /\ outbox'[u] = <<>>
  BY DEF Reinstall, Ended, serverVars, TypeOK
<1> QED
  BY <1>1 DEF AccountStep, LatestStep, DocStep

(* The step of addFriend.                                                  *)
LEMMA AccountOnAgree ==
  ASSUME TypeOK, NEW x \in Users, Agree(x), NEW u \in Users
  PROVE  AccountStep(u, NoUser)
<1>1. UNCHANGED <<registered, saving, latest, cut>>
  BY DEF Agree, accountVars, deviceVars, diskVars
<1>2. \/ users'[u] = users[u]
      \/ /\ users[u] \in UserDoc /\ users'[u] \in UserDoc
         /\ users'[u].latest = users[u].latest
  BY BefriendedDoc
<1> QED
  BY <1>1, <1>2, NoDocument DEF AccountStep, LatestStep, DocStep

(* Every step is one of the queues, the server and the accounts.           *)
LEMMA StepShape ==
  ASSUME TypeInv, [Next]_vars
  PROVE  \E c \in Users \cup {NoUser} :
           /\ ServerStep(c)
           /\ \A u \in Users : QueueStep(u, c) /\ AccountStep(u, c)
<1> USE DEF accountVars, taskVars, serverVars, deviceVars, pageVars, diskVars
<1>0. TypeOK /\ NoUser \in Users \cup {NoUser} /\ \A u \in Users : u # NoUser
  BY DEF TypeInv
<1>1. ASSUME UNCHANGED <<taskVars, lastFetched, responses>> PROVE ServerStep(NoUser)
  BY <1>1, ServerKept
<1>2. ASSUME UNCHANGED outbox, NEW u \in Users PROVE QueueStep(u, NoUser)
  BY <1>0, <1>2, QueueKept
<1> DEFINE Goal == \E c \in Users \cup {NoUser} :
                     ServerStep(c) /\ \A u \in Users : QueueStep(u, c) /\ AccountStep(u, c)
           Docs == /\ UNCHANGED <<users, latest, cut>> /\ registered \subseteq registered'
                   /\ saving' \subseteq saving \cup registered'
<1> HIDE DEF Goal
<1>3. ASSUME ServerStep(NoUser), \A u \in Users : QueueStep(u, NoUser),
             \A u \in Users : AccountStep(u, NoUser)
      PROVE  Goal
  BY <1>0, <1>3 DEF Goal
<1>a. ASSUME Docs PROVE \A u \in Users : AccountStep(u, NoUser)
  BY <1>0, <1>a, AccountKept
<1>4. ASSUME UNCHANGED <<taskVars, lastFetched, responses, outbox>>, Docs PROVE Goal
  BY <1>1, <1>2, <1>3, <1>4, <1>a
<1>5. ASSUME NEW x \in Users, NEW w \in Write, Issue(x, <<w>>), NewWrite(x, NoUser, w),
             NEW u \in Users
      PROVE  QueueStep(u, NoUser)
  BY <1>0, <1>5, QueueOnIssue
<1>6. ASSUME NEW x \in Users, Register(x) PROVE Goal
  <2>1. ServerStep(NoUser) /\ \A u \in Users : AccountStep(u, NoUser)
    BY <1>1, <1>6, <1>a DEF Register
  <2>2. CASE UNCHANGED outbox
    BY <1>2, <1>3, <2>1, <2>2
  <2>3. CASE Issue(x, UserWrite(x))
    <3>1. PICK w \in Write : w = WriteOf("user", NoTask, 0, x) /\ w.kind = "user"
      BY WriteTypes, DayTypes
    <3>2. Issue(x, <<w>>) /\ NewWrite(x, NoUser, w)
      BY <1>6, <2>3, <3>1 DEF Register, UserWrite, NewWrite
    <3> QED
      BY <1>3, <1>5, <2>1, <3>2
  <2> QED
    BY <1>6, <2>2, <2>3 DEF Register
<1>7. ASSUME NEW x \in Users, SaveUserInfo(x) PROVE Goal
  <2>1. ServerStep(NoUser) /\ \A u \in Users : AccountStep(u, NoUser)
    BY <1>1, <1>7, <1>a DEF SaveUserInfo
  <2> QED
    BY <1>0, <1>2, <1>3, <1>7, <2>1, QueueOnSignIn DEF SaveUserInfo
<1>8. ASSUME NEW x \in Users, Commit(x) \/ CutShort(x) PROVE Goal
  <2>1. CASE Commit(x)
    BY <1>0, <2>1, ServerOnCommit, QueueOnCommit, AccountOnCommit DEF Goal
  <2>2. CASE CutShort(x)
    BY <1>0, <2>2, ServerOnCut, QueueOnCut, AccountOnCut DEF Goal
  <2> QED
    BY <1>8, <2>1, <2>2
<1>9. ASSUME NEW x \in Users, NEW t \in TaskIds, NEW r \in Ranks, PostTask(x, t, r) PROVE Goal
  <2>1. day \in Days /\ author \in [TaskIds -> Users \cup {NoUser}]
        /\ postedOn \in [TaskIds -> Days]
    BY <1>0 DEF TypeOK
  <2>2. ServerStep(NoUser) /\ \A u \in Users : AccountStep(u, NoUser)
    BY <1>9, <1>a, <2>1, ServerKept DEF PostTask
  <2>3. PICK w \in Write : /\ w = WriteOf("task", t, day, x) /\ w.kind = "task"
                           /\ w.task = t /\ w.day = day
    BY <2>1, WriteTypes
  <2>4. Issue(x, <<w>>) /\ NewWrite(x, NoUser, w)
    BY <1>9, <2>1, <2>3 DEF PostTask, NewWrite
  <2> QED
    BY <1>3, <1>5, <2>2, <2>4
<1>10. ASSUME NEW x \in Users, Launch(x) \/ Reinstall(x) PROVE Goal
  <2>1. ServerStep(NoUser)
    BY <1>1, <1>10 DEF Launch, Reinstall
  <2>2. ASSUME Launch(x) PROVE \A u \in Users : AccountStep(u, NoUser)
    BY <1>a, <2>2 DEF Launch, Ended
  <2>3. \A u \in Users : AccountStep(u, NoUser)
    BY <1>0, <1>10, <2>2, AccountOnReinstall
  <2> QED
    BY <1>0, <1>3, <1>10, <2>1, <2>3, QueueOnLaunch, QueueOnReinstall
<1>11. ASSUME NEW x \in Users, FetchCallback(x) PROVE Goal
  <2>1. ServerStep(NoUser) /\ \A u \in Users : AccountStep(u, NoUser)
    BY <1>1, <1>11, <1>a DEF FetchCallback
  <2>2. found[x] \in TaskIds \cup {NoTask} /\ fetching[x] \in Days
    BY <1>0 DEF TypeOK
  <2>3. PICK w \in Write : /\ w = WriteOf("fetched", found[x], fetching[x], x)
                           /\ w.kind = "fetched" /\ w.task = found[x] /\ w.day = fetching[x]
    BY <2>2, WriteTypes
  <2>4. Issue(x, <<w>>) /\ NewWrite(x, NoUser, w)
    BY <1>11, <2>3 DEF FetchCallback, NewWrite
  <2> QED
    BY <1>3, <1>5, <2>1, <2>4
<1>12. ASSUME NEW x \in Users, ReplyTask(x) PROVE Goal
  <2>1. ServerStep(NoUser) /\ \A u \in Users : AccountStep(u, NoUser)
    BY <1>1, <1>12, <1>a DEF ReplyTask
  <2>2. hand[x] \in TaskIds \cup {NoTask}
    BY <1>0 DEF TypeOK
  <2>3. PICK b \in Users \cup {NoUser} : b = IF x \in hasId THEN x ELSE NoUser
    OBVIOUS
  <2>4. PICK w \in Write : /\ w = WriteOf("response", hand[x], 0, b)
                           /\ w.kind = "response" /\ w.task = hand[x] /\ w.by = b
    BY <2>2, DayTypes, WriteTypes
  <2>5. Issue(x, <<w>>) /\ NewWrite(x, NoUser, w)
    BY <1>12, <2>3, <2>4 DEF ReplyTask, NewWrite
  <2> QED
    BY <1>3, <1>5, <2>1, <2>5
<1>13. ASSUME NEW x \in Users, Receive(x) PROVE Goal
  <2>1. UNCHANGED <<taskVars, lastFetched, responses, outbox>>
    BY <1>13 DEF Receive, OpenReception, LatestFromUserDoc, ResponsesCallback, Agree
  <2>2. CASE Docs
    BY <1>4, <2>1, <2>2
  <2>3. CASE Agree(x)
    BY <1>0, <1>1, <1>2, <1>3, <2>1, <2>3, AccountOnAgree
  <2> QED
    BY <1>13, <2>2, <2>3 DEF Receive, OpenReception, LatestFromUserDoc, ResponsesCallback
<1>14. Goal
  <2>1. CASE Midnight \/ UNCHANGED vars
    BY <1>4, <2>1 DEF Midnight, vars
  <2>2. ASSUME NEW x \in Users, Login(x) \/ SignInWithApple(x) \/ OpenTasks(x) PROVE Goal
    BY <1>4, <2>2 DEF Login, SignInWithApple, OpenTasks, ShouldSelect
  <2>3. ASSUME NEW x \in Users, NEW r \in Ranks \cup {0}, Answer(x, r) PROVE Goal
    BY <1>4, <2>3 DEF Answer
  <2>5. ASSUME NEW x \in Users, NEW t \in TaskIds, Refresh(x, t) PROVE Goal
    BY <1>4, <2>5 DEF Refresh
  <2>4. ASSUME NEW x \in Users, Receive(x) PROVE Goal
    BY <1>13, <2>4
  <2> QED
    BY <1>6, <1>7, <1>8, <1>9, <1>10, <1>11, <1>12, <2>1, <2>2, <2>3, <2>4, <2>5 DEF Next
<1> QED
  BY <1>14 DEF Goal

(* WriteSound after a step, in the fields of the write.                    *)
LEMMA WriteAfter ==
  ASSUME NEW u \in Users, NEW i \in Nat, NEW k, NEW t, NEW d, NEW b,
         outbox'[u][i].kind = k, outbox'[u][i].task = t,
         outbox'[u][i].day = d, outbox'[u][i].by = b,
         k \in {"task", "fetched", "response", "latest"} => Posted(t)',
         k = "task" => author'[t] = u /\ lastFetched'[t] = 0 /\ d = postedOn'[t] /\ d # 0,
         k = "fetched" => d > postedOn'[t] /\ Stored(u, t, i - 1)',
         k = "response" => b = u /\ Marked(u, t, i - 1)',
         k = "latest" => author'[t] = u /\ lastFetched'[t] # 0
  PROVE  WriteSound(u, i)'
BY DEF WriteSound, Posted, Stored, Marked

(* The oldest write is sound.                                              *)
LEMMA HeadSound ==
  ASSUME FetchInv, NEW c \in Users, outbox[c] # <<>>
  PROVE  /\ outbox[c][1] \in Write /\ 1 \in 1..Len(outbox[c]) /\ WriteSound(c, 1)
<1>1. TypeOK
  BY DEF FetchInv, TypeInv
<1>2. 1 \in 1..Len(outbox[c]) /\ outbox[c][1] \in Write
  BY <1>1, OldestWrite
<1> QED
  BY <1>2 DEF FetchInv, WritesSound

(* The types of what a task has at the server.                             *)
LEMMA TaskTypes ==
  ASSUME FetchInv, NEW t \in TaskIds
  PROVE  /\ lastFetched[t] \in Nat /\ postedOn[t] \in Nat
         /\ author[t] \in Users \cup {NoUser}
BY DayTypes DEF FetchInv, TypeInv, TypeOK

(* A task at the server stays, and a mark stays after the day of posting.  *)
LEMMA MarksKept ==
  ASSUME FetchInv, NEW c \in Users \cup {NoUser}, ServerStep(c), NEW t \in TaskIds
  PROVE  /\ lastFetched[t] # 0 => lastFetched'[t] # 0
         /\ lastFetched[t] > postedOn[t] => lastFetched'[t] > postedOn'[t]
<1>0. lastFetched[t] \in Nat /\ postedOn[t] \in Nat
  BY TaskTypes
<1>1. CASE lastFetched'[t] = lastFetched[t]
  <2>1. CASE lastFetched[t] > postedOn[t]
    <3>1. lastFetched[t] # 0
      BY <1>0, <2>1
    <3>2. author[t] # NoUser
      BY <3>1 DEF FetchInv, ServerSound
    <3>3. postedOn'[t] = postedOn[t]
      BY <3>2 DEF ServerStep
    <3> QED
      BY <1>1, <3>3
  <2> QED
    BY <1>1, <2>1
<1>2. CASE /\ c \in Users /\ outbox[c][1].kind = "task" /\ outbox[c][1].task = t
  <2>1. lastFetched[t] = 0
    BY <1>2, HeadSound DEF ServerStep, WriteSound
  <2> QED
    BY <1>0, <2>1
<1>3. CASE /\ c \in Users /\ outbox[c][1].kind = "fetched" /\ outbox[c][1].task = t
  <2>1. outbox[c] # <<>> /\ WriteSound(c, 1) /\ outbox[c][1] \in Write
    BY <1>3, HeadSound DEF ServerStep
  <2>2. outbox[c][1].day > postedOn[t] /\ author[t] # NoUser
    BY <1>3, <2>1 DEF WriteSound, Posted
  <2>3. outbox[c][1].day \in Nat
    BY <2>1, DayTypes DEF Write
  <2>4. lastFetched'[t] = outbox[c][1].day /\ postedOn'[t] = postedOn[t]
    BY <1>3, <2>2 DEF ServerStep
  <2> QED
    BY <1>0, <2>2, <2>3, <2>4
<1> QED
  BY <1>1, <1>2, <1>3 DEF ServerStep

(* The number of applied writes.                                           *)
LEMMA AppliedTypes ==
  ASSUME NEW u, NEW c
  PROVE  Applied(u, c) \in {0, 1} /\ (Applied(u, c) = 1 => u = c)
BY DEF Applied

(* What is stored, at the server or on its way before a write, stays so.   *)
LEMMA StoredKept ==
  ASSUME FetchInv, NEW c \in Users \cup {NoUser}, ServerStep(c),
         NEW u \in Users, Follows(u, c), NEW t \in TaskIds,
         NEW n \in 0..Len(outbox[u]), Stored(u, t, n)
  PROVE  Stored(u, t, n - Applied(u, c))'
<1>0. PICK d \in {0, 1} : d = Applied(u, c) /\ (d = 1 => u = c)
  BY AppliedTypes
<1>t. Len(outbox[u]) \in Nat
  BY DEF FetchInv, TypeInv, TypeOK
<1>1. CASE lastFetched[t] # 0
  BY <1>1, MarksKept DEF Stored
<1>2. ASSUME NEW j \in 1..n, outbox[u][j].kind = "task", outbox[u][j].task = t
      PROVE  Stored(u, t, n - d)'
  <2>1. CASE j > d
    <3>1. j - d \in 1..(n - d) /\ j - d \in 1..(Len(outbox[u]) - d) /\ (j - d) + d = j
      BY <1>t, <2>1
    <3>2. outbox'[u][j - d].kind = "task" /\ outbox'[u][j - d].task = t
      BY <1>0, <1>2, <3>1 DEF Follows
    <3> QED
      BY <3>1, <3>2 DEF Stored
  <2>2. CASE j = 1 /\ d = 1
    <3>1. u = c /\ outbox[u] # <<>> /\ WriteSound(u, 1)
      BY <1>0, <2>2, HeadSound DEF ServerStep
    <3>2. lastFetched'[t] = outbox[u][1].day
      BY <1>2, <2>2, <3>1 DEF ServerStep
    <3>3. outbox[u][1].day # 0
      BY <1>2, <2>2, <3>1 DEF WriteSound
    <3> QED
      BY <3>2, <3>3 DEF Stored
  <2> QED
    BY <2>1, <2>2
<1> QED
  BY <1>0, <1>1, <1>2 DEF Stored

(* Likewise for what is marked.                                            *)
LEMMA MarkedKept ==
  ASSUME FetchInv, NEW c \in Users \cup {NoUser}, ServerStep(c),
         NEW u \in Users, Follows(u, c), NEW t \in TaskIds,
         NEW n \in 0..Len(outbox[u]), Marked(u, t, n)
  PROVE  Marked(u, t, n - Applied(u, c))'
<1>0. PICK d \in {0, 1} : d = Applied(u, c) /\ (d = 1 => u = c)
  BY AppliedTypes
<1>t. Len(outbox[u]) \in Nat
  BY DEF FetchInv, TypeInv, TypeOK
<1>1. CASE lastFetched[t] > postedOn[t]
  BY <1>1, MarksKept DEF Marked
<1>2. ASSUME NEW j \in 1..n, outbox[u][j].kind = "fetched", outbox[u][j].task = t
      PROVE  Marked(u, t, n - d)'
  <2>1. CASE j > d
    <3>1. j - d \in 1..(n - d) /\ j - d \in 1..(Len(outbox[u]) - d) /\ (j - d) + d = j
      BY <1>t, <2>1
    <3>2. outbox'[u][j - d].kind = "fetched" /\ outbox'[u][j - d].task = t
      BY <1>0, <1>2, <3>1 DEF Follows
    <3> QED
      BY <3>1, <3>2 DEF Marked
  <2>2. CASE j = 1 /\ d = 1
    <3>1. u = c /\ outbox[u] # <<>> /\ WriteSound(u, 1)
      BY <1>0, <2>2, HeadSound DEF ServerStep
    <3>2. lastFetched'[t] = outbox[u][1].day
      BY <1>2, <2>2, <3>1 DEF ServerStep
    <3>3. outbox[u][1].day > postedOn[t] /\ author[t] # NoUser
      BY <1>2, <2>2, <3>1 DEF WriteSound, Posted
    <3>4. postedOn'[t] = postedOn[t]
      BY <3>3 DEF ServerStep
    <3> QED
      BY <3>2, <3>3, <3>4 DEF Marked
  <2> QED
    BY <2>1, <2>2
<1> QED
  BY <1>0, <1>1, <1>2 DEF Marked

(* While the document of a task is on its way, nobody else writes to it.   *)
LEMMA TaskStillUnwritten ==
  ASSUME FetchInv, NEW c \in Users \cup {NoUser}, ServerStep(c),
         NEW u \in Users, NEW i \in 1..Len(outbox[u]), i > Applied(u, c),
         NEW t \in TaskIds, outbox[u][i].kind = "task", outbox[u][i].task = t
  PROVE  lastFetched'[t] = 0
<1>1. author[t] = u /\ lastFetched[t] = 0
  BY DEF FetchInv, WritesSound, WriteSound
<1>2. SUFFICES ASSUME c \in Users, outbox[c][1].kind \in {"task", "fetched"},
                      outbox[c][1].task = t
               PROVE  FALSE
  BY <1>1 DEF ServerStep
<1>3. outbox[c] # <<>> /\ 1 \in 1..Len(outbox[c]) /\ WriteSound(c, 1)
  BY <1>2, HeadSound DEF ServerStep
<1>4. CASE outbox[c][1].kind = "task"
  <2>1. c = u
    BY <1>1, <1>2, <1>3, <1>4 DEF WriteSound
  <2>2. i = 1
    BY <1>2, <1>3, <1>4, <2>1 DEF FetchInv, PostedOnce
  <2>3. Applied(u, c) = 1
    BY <2>1 DEF Applied
  <2> QED
    BY <2>2, <2>3
<1>5. CASE outbox[c][1].kind = "fetched"
  <2>1. Stored(c, t, 0)
    BY <1>2, <1>3, <1>5 DEF WriteSound
  <2> QED
    BY <1>1, <2>1 DEF Stored
<1> QED
  BY <1>2, <1>4, <1>5

(* A write that waits on is as sound as it was.                            *)
LEMMA KeptWriteSound ==
  ASSUME FetchInv, NEW c \in Users \cup {NoUser}, ServerStep(c),
         NEW u \in Users, Follows(u, c),
         NEW i \in 1..(Len(outbox[u]) - Applied(u, c))
  PROVE  WriteSound(u, i)'
<1>0. PICK d \in {0, 1} : d = Applied(u, c)
  BY AppliedTypes
<1>1. Len(outbox[u]) \in Nat /\ outbox[u] \in Seq(Write)
  BY DEF FetchInv, TypeInv, TypeOK
<1>2. i \in Nat /\ i + d \in 1..Len(outbox[u]) /\ i + d > d /\ (i + d - 1) \in 0..Len(outbox[u])
      /\ (i + d - 1) - d = i - 1
  BY <1>0, <1>1
<1>3. outbox[u][i + d] \in Write /\ WriteSound(u, i + d)
  BY <1>1, <1>2 DEF FetchInv, WritesSound
<1>4. PICK w \in Write : w = outbox[u][i + d]
  BY <1>3
<1>5. /\ outbox'[u][i].kind = w.kind /\ outbox'[u][i].task = w.task
      /\ outbox'[u][i].day = w.day /\ outbox'[u][i].by = w.by
  BY <1>0, <1>4 DEF Follows
<1>6. /\ w.kind \in {"task", "fetched", "response", "latest"} => Posted(w.task)
      /\ w.kind = "task" => /\ author[w.task] = u /\ lastFetched[w.task] = 0
                            /\ w.day = postedOn[w.task] /\ w.day # 0
      /\ w.kind = "fetched" => w.day > postedOn[w.task] /\ Stored(u, w.task, i + d - 1)
      /\ w.kind = "response" => w.by = u /\ Marked(u, w.task, i + d - 1)
      /\ w.kind = "latest" => author[w.task] = u /\ lastFetched[w.task] # 0
  BY <1>3, <1>4 DEF WriteSound
<1>7. Posted(w.task) => /\ w.task \in TaskIds /\ author'[w.task] = author[w.task]
                        /\ postedOn'[w.task] = postedOn[w.task] /\ Posted(w.task)'
  BY DEF Posted, ServerStep
<1>8. ASSUME w.kind = "task" PROVE lastFetched'[w.task] = 0
  <2>1. w.task \in TaskIds
    BY <1>6, <1>7, <1>8
  <2>2. PICK k \in 1..Len(outbox[u]) : k = i + d
    BY <1>2
  <2>3. k > Applied(u, c) /\ outbox[u][k].kind = "task" /\ outbox[u][k].task = w.task
    BY <1>0, <1>2, <1>4, <1>8, <2>2
  <2> QED
    BY <2>1, <2>3, TaskStillUnwritten
<1>9. w.kind = "fetched" => Stored(u, w.task, i - 1)'
  <2>1. w.kind = "fetched" => Stored(u, w.task, (i + d - 1) - d)'
    BY <1>0, <1>2, <1>6, <1>7, StoredKept
  <2> QED
    BY <1>2, <2>1
<1>10. w.kind = "response" => Marked(u, w.task, i - 1)'
  <2>1. w.kind = "response" => Marked(u, w.task, (i + d - 1) - d)'
    BY <1>0, <1>2, <1>6, <1>7, MarkedKept
  <2> QED
    BY <1>2, <2>1
<1>11. w.kind = "latest" => lastFetched'[w.task] # 0
  BY <1>6, <1>7, MarksKept
<1> QED
  BY <1>2, <1>5, <1>6, <1>7, <1>8, <1>9, <1>10, <1>11, WriteAfter

(* More writes store and mark no less.                                     *)
LEMMA LaterStored ==
  ASSUME NEW u, NEW t, NEW m \in Int, NEW n \in Int, m <= n
  PROVE  /\ Stored(u, t, m) => Stored(u, t, n)
         /\ Marked(u, t, m) => Marked(u, t, n)
<1>1. \A j \in 1..m : j \in 1..n
  OBVIOUS
<1> QED
  BY <1>1 DEF Stored, Marked

(* A write the step issues is sound.                                       *)
LEMMA NewWriteSound ==
  ASSUME FetchInv, TypeInv', NEW c \in Users \cup {NoUser}, ServerStep(c),
         NEW u \in Users, Follows(u, c), Grows(u, c),
         NEW i \in (Len(outbox[u]) - Applied(u, c) + 1)..Len(outbox'[u])
  PROVE  WriteSound(u, i)'
<1>0. PICK d \in {0, 1} : d = Applied(u, c) /\ (d = 1 => u = c)
  BY AppliedTypes
<1>1. PICK m \in Nat : m = Len(outbox[u])
  BY DEF FetchInv, TypeInv, TypeOK
<1>2. m - d \in Int /\ i - 1 \in Int /\ m - d <= i - 1 /\ m \in 0..Len(outbox[u]) /\ d <= m
      /\ i \in 1..Len(outbox'[u])
  BY <1>0, <1>1 DEF Follows
<1>3. outbox'[u][i] \in Write
  <2>1. outbox'[u] \in Seq(Write)
    BY DEF TypeInv, TypeOK
  <2> QED
    BY <1>2, <2>1
<1>4. PICK w \in Write : w = outbox'[u][i]
  BY <1>3
<1>5. NewWrite(u, c, w)
  BY <1>4 DEF Grows
<1>6. PageSound(u)
  BY DEF FetchInv, PagesSound
<1>7. ASSUME NEW t \in TaskIds, Posted(t)
      PROVE  Posted(t)' /\ author'[t] = author[t] /\ postedOn'[t] = postedOn[t]
  BY <1>7 DEF Posted, ServerStep
<1>8. CASE w.kind \in {"account", "user"}
  BY <1>2, <1>4, <1>8, WriteAfter
<1>9. CASE /\ w.kind = "task" /\ w.day = day /\ w.task \in TaskIds
           /\ author[w.task] = NoUser /\ author'[w.task] = u /\ postedOn'[w.task] = day
  <2>1. lastFetched[w.task] = 0
    BY <1>9 DEF FetchInv, ServerSound
  <2>2. lastFetched'[w.task] = 0
    <3>1. ~(/\ c \in Users /\ outbox[c][1].kind \in {"task", "fetched"}
            /\ outbox[c][1].task = w.task)
      BY <1>9, HeadSound DEF ServerStep, WriteSound, Posted
    <3> QED
      BY <1>9, <2>1, <3>1 DEF ServerStep
  <2>3. day # 0 /\ Posted(w.task)'
    BY <1>9 DEF FetchInv, TypeInv, TypeOK, Posted
  <2> QED
    BY <1>2, <1>4, <1>9, <2>2, <2>3, WriteAfter
<1>10. CASE w.kind = "latest" /\ u = c /\ outbox[u][1].kind = "task"
            /\ w.task = outbox[u][1].task
  <2>1. outbox[u] # <<>> /\ WriteSound(u, 1)
    BY <1>10, HeadSound DEF ServerStep
  <2>2. Posted(w.task) /\ author[w.task] = u /\ outbox[u][1].day # 0
    BY <1>10, <2>1 DEF WriteSound
  <2>3. w.task \in TaskIds
    BY <2>2 DEF Posted
  <2>4. lastFetched'[w.task] = outbox[u][1].day
    BY <1>10, <2>3 DEF ServerStep
  <2>5. Posted(w.task)' /\ author'[w.task] = u
    BY <1>7, <2>2, <2>3
  <2>6. w.kind = "latest" /\ lastFetched'[w.task] # 0 /\ i \in Nat
    BY <1>2, <1>10, <2>2, <2>4
  <2> QED
    BY <1>4, <2>5, <2>6, WriteAfter
<1>11. CASE w.kind = "fetched" /\ w.task = found[u] /\ found[u] # NoTask /\ w.day = fetching[u]
  <2>1. /\ Posted(w.task) /\ postedOn[w.task] < w.day /\ Stored(u, w.task, m)
        /\ w.task \in TaskIds
    BY <1>1, <1>6, <1>11 DEF PageSound, Posted
  <2>2. Stored(u, w.task, m - d)'
    BY <1>0, <1>2, <2>1, StoredKept
  <2>3. Stored(u, w.task, i - 1)'
    BY <1>2, <2>2 DEF Stored
  <2>4. Posted(w.task)' /\ postedOn'[w.task] = postedOn[w.task]
    BY <1>7, <2>1
  <2>5. w.day \in Nat /\ postedOn[w.task] \in Nat
    BY <2>1, DayTypes, TaskTypes DEF Write
  <2>6. w.day > postedOn'[w.task]
    BY <2>1, <2>4, <2>5
  <2>7. w.kind = "fetched" /\ i \in Nat
    BY <1>2, <1>11
  <2> QED
    BY <1>4, <2>3, <2>4, <2>6, <2>7, WriteAfter
<1>12. CASE /\ w.kind = "response" /\ w.task = hand[u] /\ hand[u] # NoTask
            /\ w.by = IF u \in hasId THEN u ELSE NoUser
  <2>1. /\ Posted(w.task) /\ Marked(u, w.task, m) /\ w.task \in TaskIds
        /\ u \in hasId
    BY <1>1, <1>6, <1>12 DEF PageSound, Posted
  <2>2. Marked(u, w.task, m - d)'
    BY <1>0, <1>2, <2>1, MarkedKept
  <2>3. Marked(u, w.task, i - 1)'
    BY <1>2, <2>2 DEF Marked
  <2>4. Posted(w.task)'
    BY <1>7, <2>1
  <2>5. w.kind = "response" /\ w.by = u /\ i \in Nat
    BY <1>2, <1>12, <2>1
  <2> QED
    BY <1>4, <2>3, <2>4, <2>5, WriteAfter
<1> QED
  BY <1>5, <1>8, <1>9, <1>10, <1>11, <1>12 DEF NewWrite

(* So all writes stay sound.                                               *)
LEMMA NextWritesSound ==
  ASSUME FetchInv, TypeInv', NEW c \in Users \cup {NoUser}, ServerStep(c),
         \A u \in Users : QueueStep(u, c)
  PROVE  WritesSound'
<1> SUFFICES ASSUME NEW u \in Users, NEW i \in 1..Len(outbox'[u]) PROVE WriteSound(u, i)'
  BY DEF WritesSound
<1>1. CASE outbox'[u] = <<>>
  BY <1>1
<1>2. CASE Follows(u, c) /\ Grows(u, c)
  <2>1. PICK m \in Int : m = Len(outbox[u]) - Applied(u, c)
    <3>1. Len(outbox[u]) \in Nat
      BY DEF FetchInv, TypeInv, TypeOK
    <3> QED
      BY <3>1, AppliedTypes
  <2>2. Len(outbox'[u]) \in Nat
    BY DEF TypeInv, TypeOK
  <2>3. i \in 1..m \/ i \in (m + 1)..Len(outbox'[u])
    BY <2>1, <2>2
  <2> QED
    BY <1>2, <2>1, <2>3, KeptWriteSound, NewWriteSound
<1> QED
  BY <1>1, <1>2 DEF QueueStep

(* A task's document stays written once.                                   *)
LEMMA NextPostedOnce ==
  ASSUME FetchInv, TypeInv', NEW c \in Users \cup {NoUser}, ServerStep(c),
         \A u \in Users : QueueStep(u, c)
  PROVE  PostedOnce'
<1> SUFFICES ASSUME NEW u \in Users, NEW i \in 1..Len(outbox'[u]),
                    NEW j \in 1..Len(outbox'[u]), i < j,
                    outbox'[u][i].kind = "task", outbox'[u][j].kind = "task",
                    outbox'[u][i].task = outbox'[u][j].task
             PROVE  FALSE
  <2>1. \A u \in Users : Len(outbox'[u]) \in Nat
    BY DEF TypeInv, TypeOK
  <2>2. \A u \in Users : \A i, j \in 1..Len(outbox'[u]) : i < j \/ j < i \/ i = j
    BY <2>1
  <2> QED
    BY <2>2 DEF PostedOnce
<1>1. Follows(u, c) /\ Grows(u, c)
  <2>1. CASE outbox'[u] = <<>>
    BY <2>1
  <2> QED
    BY <2>1 DEF QueueStep
<1>2. PICK d \in {0, 1} : d = Applied(u, c)
  BY AppliedTypes
<1>3. PICK m \in Nat : m = Len(outbox[u])
  BY DEF FetchInv, TypeInv, TypeOK
<1>4. PICK n \in Nat : n = Len(outbox'[u])
  BY DEF TypeInv, TypeOK
<1>5. CASE j <= m - d
  <2>1. /\ i \in 1..(m - d) /\ j \in 1..(m - d)
        /\ i + d \in 1..m /\ j + d \in 1..m /\ i + d # j + d
    BY <1>3, <1>4, <1>5
  <2>2. /\ outbox[u][i + d].kind = "task" /\ outbox[u][j + d].kind = "task"
        /\ outbox[u][i + d].task = outbox[u][j + d].task
    BY <1>1, <1>2, <1>3, <2>1 DEF Follows
  <2> QED
    BY <1>3, <2>1, <2>2 DEF FetchInv, PostedOnce
<1>6. CASE j > m - d
  <2>1. j \in (m - d + 1)..n
    BY <1>3, <1>4, <1>6
  <2>2. n = m - d + 1 /\ NewWrite(u, c, outbox'[u][j])
    BY <1>1, <1>2, <1>3, <1>4, <2>1 DEF Grows
  <2>3. i \in 1..(m - d) /\ i + d \in 1..m
    BY <1>3, <1>4, <2>1, <2>2
  <2>4. outbox[u][i + d].kind = "task" /\ outbox[u][i + d].task = outbox'[u][j].task
    BY <1>1, <1>2, <1>3, <2>3 DEF Follows
  <2>5. WriteSound(u, i + d)
    BY <1>3, <2>3 DEF FetchInv, WritesSound
  <2>6. Posted(outbox[u][i + d].task)
    BY <2>4, <2>5 DEF WriteSound
  <2>7. author[outbox'[u][j].task] = NoUser
    BY <2>2 DEF NewWrite
  <2> QED
    BY <2>4, <2>6, <2>7 DEF Posted
<1> QED
  BY <1>2, <1>3, <1>4, <1>5, <1>6

(* The server keeps to what was posted, marked and signed.                 *)
LEMMA NextServerSound ==
  ASSUME FetchInv, NEW c \in Users \cup {NoUser}, ServerStep(c)
  PROVE  ServerSound'
<1> SUFFICES ASSUME NEW t \in TaskIds
             PROVE  /\ lastFetched'[t] # 0 => /\ author'[t] # NoUser
                                              /\ lastFetched'[t] >= postedOn'[t]
                    /\ responses'[t] # {} => lastFetched'[t] > postedOn'[t]
                    /\ NoUser \notin responses'[t]
  BY DEF ServerSound
<1>0. lastFetched[t] \in Nat /\ postedOn[t] \in Nat
  BY TaskTypes
<1>1. /\ lastFetched[t] # 0 => author[t] # NoUser /\ lastFetched[t] >= postedOn[t]
      /\ responses[t] # {} => lastFetched[t] > postedOn[t]
      /\ NoUser \notin responses[t]
  BY DEF FetchInv, ServerSound
<1>2. author[t] # NoUser => author'[t] = author[t] /\ postedOn'[t] = postedOn[t]
  BY DEF ServerStep
<1>3. ASSUME lastFetched'[t] # 0
      PROVE  author'[t] # NoUser /\ lastFetched'[t] >= postedOn'[t]
  <2>1. CASE lastFetched'[t] = lastFetched[t]
    BY <1>1, <1>2, <1>3, <2>1
  <2>2. CASE /\ c \in Users /\ outbox[c][1].kind \in {"task", "fetched"}
             /\ outbox[c][1].task = t /\ lastFetched'[t] = outbox[c][1].day
    <3>1. outbox[c] # <<>> /\ WriteSound(c, 1) /\ outbox[c][1] \in Write
      BY <2>2, HeadSound DEF ServerStep
    <3>2. author[t] # NoUser
      BY <2>2, <3>1 DEF WriteSound, Posted
    <3>3. outbox[c][1].day = postedOn[t] \/ outbox[c][1].day > postedOn[t]
      BY <2>2, <3>1 DEF WriteSound
    <3>4. outbox[c][1].day \in Nat
      BY <3>1, DayTypes DEF Write
    <3> QED
      BY <1>0, <1>2, <2>2, <3>2, <3>3, <3>4
  <2> QED
    BY <2>1, <2>2 DEF ServerStep
<1>4. CASE responses'[t] = responses[t]
  BY <1>1, <1>3, <1>4, MarksKept
<1>5. CASE /\ c \in Users /\ outbox[c][1].kind = "response" /\ outbox[c][1].task = t
           /\ responses'[t] = responses[t] \cup {outbox[c][1].by}
  <2>1. outbox[c] # <<>> /\ WriteSound(c, 1)
    BY <1>5, HeadSound DEF ServerStep
  <2>2. outbox[c][1].by = c /\ Marked(c, t, 0)
    BY <1>5, <2>1 DEF WriteSound
  <2>3. lastFetched[t] > postedOn[t]
    BY <2>2 DEF Marked
  <2>4. lastFetched'[t] > postedOn'[t]
    BY <2>3, MarksKept
  <2>5. NoUser \notin responses'[t]
    BY <1>1, <1>5, <2>2
  <2> QED
    BY <1>3, <2>4, <2>5
<1> QED
  BY <1>4, <1>5 DEF ServerStep

(* A task the device's query can match is stored, or will be before what   *)
(* the device writes next, and was not posted later than the day it sees.  *)
LEMMA SeenIsStored ==
  ASSUME FetchInv, NEW u \in Users, NEW t \in TaskIds, SeenFetched(u, t) # 0
  PROVE  /\ Posted(t) /\ SeenFetched(u, t) \in Nat /\ postedOn[t] <= SeenFetched(u, t)
         /\ Stored(u, t, Len(outbox[u]))
<1> DEFINE own == {i \in DOMAIN outbox[u] : /\ outbox[u][i].task = t
                                            /\ outbox[u][i].kind \in {"task", "fetched"}}
<1>0. /\ outbox[u] \in Seq(Write) /\ lastFetched[t] \in Nat /\ postedOn[t] \in Nat
  BY TaskTypes DEF FetchInv, TypeInv, TypeOK
<1>1. CASE own = {}
  <2>1. SeenFetched(u, t) = cached[u][t]
    BY <1>1 DEF SeenFetched
  <2>2. cached[u][t] \in Nat
    BY DayTypes DEF FetchInv, TypeInv, TypeOK
  <2>3. lastFetched[t] # 0 /\ cached[u][t] >= postedOn[t]
    BY <2>1 DEF FetchInv, CacheSound
  <2> QED
    BY <1>0, <2>1, <2>2, <2>3 DEF FetchInv, ServerSound, Posted, Stored
<1>2. CASE own # {}
  <2>1. PICK n \in Nat : n = Len(outbox[u])
    BY <1>0
  <2>2. own \in SUBSET (1..n)
    BY <1>0, <2>1
  <2>3. \E i \in own : \A j \in own : j <= i
    <3> HIDE DEF own
    <3> QED
      BY <1>2, <2>2, LastPosition
  <2>4. PICK i \in own : i = CHOOSE x \in own : \A j \in own : j <= x
    BY <2>3
  <2>5. SeenFetched(u, t) = outbox[u][i].day
    BY <1>2, <2>4 DEF SeenFetched
  <2>6. i \in 1..n /\ outbox[u][i].task = t /\ outbox[u][i].kind \in {"task", "fetched"}
    BY <2>2
  <2> HIDE DEF own
  <2>7. WriteSound(u, i) /\ outbox[u][i] \in Write
    BY <1>0, <2>1, <2>6 DEF FetchInv, WritesSound
  <2>8. outbox[u][i].day \in Nat
    BY <2>7, DayTypes DEF Write
  <2>9. Posted(t)
    BY <2>6, <2>7 DEF WriteSound
  <2>10. outbox[u][i].day >= postedOn[t]
    BY <1>0, <2>6, <2>7, <2>8 DEF WriteSound
  <2>11. CASE outbox[u][i].kind = "task"
    BY <1>0, <2>1, <2>5, <2>6, <2>8, <2>9, <2>10, <2>11 DEF Stored
  <2>12. CASE outbox[u][i].kind = "fetched"
    <3>1. Stored(u, t, i - 1)
      BY <2>6, <2>7, <2>12 DEF WriteSound
    <3>2. Stored(u, t, n)
      BY <2>6, <3>1, LaterStored
    <3> QED
      BY <1>0, <2>1, <2>5, <2>8, <2>9, <2>10, <3>2
  <2> QED
    BY <2>6, <2>11, <2>12
<1> QED
  BY <1>1, <1>2

(* A date in a device's cache stays, goes, or is the server's.             *)
LEMMA CacheStep ==
  ASSUME TypeOK, [Next]_vars, NEW u \in Users, NEW t \in TaskIds
  PROVE  cached'[u][t] \in {0, cached[u][t], lastFetched'[t]}
<1> USE DEF accountVars, taskVars, serverVars, deviceVars, pageVars, diskVars
<1>0. cached \in [Users -> [TaskIds -> Days]] /\ lastFetched \in [TaskIds -> Days]
  BY DEF TypeOK
<1> DEFINE Goal == cached'[u][t] \in {0, cached[u][t], lastFetched'[t]}
<1>1. ASSUME UNCHANGED cached PROVE Goal
  BY <1>1
<1>2. ASSUME NEW x \in Users, NEW y \in TaskIds \cup {NoTask}, NEW d \in Days,
             cached' = [cached EXCEPT ![x][y] = d], y = t => lastFetched'[t] = d
      PROVE  Goal
  <2>1. CASE x = u /\ y = t
    <3>1. cached'[u] = [cached[u] EXCEPT ![t] = d] /\ cached[u] \in [TaskIds -> Days]
      BY <1>0, <1>2, <2>1
    <3> QED
      BY <1>2, <2>1, <3>1
  <2>2. CASE x = u /\ y # t
    <3>1. cached'[u] = [cached[u] EXCEPT ![y] = d] /\ cached[u] \in [TaskIds -> Days]
      BY <1>0, <1>2, <2>2
    <3> QED
      BY <2>2, <3>1
  <2>3. CASE x # u
    BY <1>0, <1>2, <2>3
  <2> QED
    BY <2>1, <2>2, <2>3
<1>3. ASSUME NEW x \in Users, Commit(x) PROVE Goal
  <2>1. PICK w \in Write : w = Head(outbox[x])
    BY <1>3, CommitEffect, OldestWrite
  <2>2. w.task \in TaskIds \cup {NoTask} /\ w.day \in Days
    BY DEF Write
  <2>3. \/ UNCHANGED cached
        \/ /\ lastFetched' = [lastFetched EXCEPT ![w.task] = w.day]
           /\ cached' = [cached EXCEPT ![x][w.task] = w.day]
    BY <1>3, <2>1, CommitEffect
  <2> QED
    BY <1>0, <1>1, <1>2, <2>2, <2>3
<1>4. ASSUME NEW x \in Users, CutShort(x) PROVE Goal
  <2>1. PICK w \in Write : /\ lastFetched' = [lastFetched EXCEPT ![w.task] = w.day]
                           /\ cached' = [cached EXCEPT ![x][w.task] = w.day]
    BY <1>4, CutEffect
  <2>2. w.task \in TaskIds \cup {NoTask} /\ w.day \in Days
    BY DEF Write
  <2> QED
    BY <1>0, <1>2, <2>1, <2>2
<1>5. ASSUME NEW x \in Users, NEW y \in TaskIds, Refresh(x, y) PROVE Goal
  <2>1. /\ cached' = [cached EXCEPT ![x][y] = lastFetched[y]] /\ lastFetched' = lastFetched
        /\ lastFetched[y] \in Days
    BY <1>0, <1>5 DEF Refresh
  <2> QED
    BY <1>2, <2>1
<1>6. ASSUME NEW x \in Users, Reinstall(x) PROVE Goal
  <2>1. cached' = [cached EXCEPT ![x] = [y \in TaskIds |-> 0]]
    BY <1>6 DEF Reinstall
  <2>2. cached'[u] = cached[u] \/ cached'[u] = [y \in TaskIds |-> 0]
    BY <1>0, <2>1
  <2> QED
    BY <2>2
<1>7. ASSUME NEW x \in Users, Receive(x) PROVE UNCHANGED cached
  BY <1>7 DEF Receive, OpenReception, LatestFromUserDoc, ResponsesCallback, Agree
<1>8. ASSUME NEW x \in Users,
             \/ Launch(x) \/ FetchCallback(x) \/ ReplyTask(x)
             \/ \E y \in TaskIds, r \in Ranks : PostTask(x, y, r)
             \/ \E r \in Ranks \cup {0} : Answer(x, r)
      PROVE  UNCHANGED cached
  BY <1>8 DEF Launch, FetchCallback, ReplyTask, PostTask, Answer
<1>9. \/ UNCHANGED cached
      \/ \E x \in Users : Commit(x) \/ CutShort(x) \/ Reinstall(x)
      \/ \E x \in Users, y \in TaskIds : Refresh(x, y)
  BY <1>7, <1>8 DEF Next, vars, Midnight, Register, Login, SignInWithApple, SaveUserInfo,
    OpenTasks, ShouldSelect
<1> QED
  BY <1>1, <1>3, <1>4, <1>5, <1>6, <1>9

(* The caches stay sound.                                                  *)
LEMMA NextCacheSound ==
  ASSUME FetchInv, TypeInv', [Next]_vars, NEW c \in Users \cup {NoUser}, ServerStep(c),
         ServerSound'
  PROVE  CacheSound'
<1> SUFFICES ASSUME NEW u \in Users, NEW t \in TaskIds, cached'[u][t] # 0
             PROVE  lastFetched'[t] # 0 /\ cached'[u][t] >= postedOn'[t]
  BY DEF CacheSound
<1>0. TypeOK
  BY DEF FetchInv, TypeInv
<1>1. CASE cached'[u][t] = lastFetched'[t]
  BY <1>1 DEF ServerSound
<1>2. CASE cached'[u][t] = cached[u][t]
  <2>1. lastFetched[t] # 0 /\ cached[u][t] >= postedOn[t]
    BY <1>2 DEF FetchInv, CacheSound
  <2>2. lastFetched'[t] # 0
    BY <2>1, MarksKept
  <2>3. author[t] # NoUser
    BY <2>1 DEF FetchInv, ServerSound
  <2> QED
    BY <1>2, <2>1, <2>2, <2>3 DEF ServerStep
<1> QED
  BY <1>0, <1>1, <1>2, CacheStep

(* What a step does to the tasks page of device u.                         *)
PageStep(u) ==
  \/ PagesCleared(u)
  \/ /\ u \in hasId => u \in hasId'
     /\ u \in loaded' => u \in loaded \/ u \in hasId
     /\ \/ fetching'[u] = fetching[u] /\ found'[u] = found[u] /\ hand'[u] = hand[u]
        \/ u \in hasId /\ fetching'[u] = day /\ found'[u] = found[u] /\ hand'[u] = hand[u]
        \/ fetching'[u] = 0 /\ found[u] = NoTask /\ found'[u] = NoTask /\ hand'[u] = hand[u]
        \/ \E t \in TaskIds :
              /\ SeenFetched(u, t) # 0 /\ SeenFetched(u, t) = fetching[u] - 1
              /\ fetching[u] # 0 /\ fetching'[u] = fetching[u] /\ found'[u] = t
              /\ hand'[u] = hand[u]
              /\ outbox'[u] = outbox[u] /\ UNCHANGED <<lastFetched, author, postedOn>>
        \/ /\ found[u] # NoTask /\ hand'[u] = found[u] /\ fetching'[u] = 0
           /\ found'[u] = NoTask
           /\ Len(outbox'[u]) # 0 /\ outbox'[u][Len(outbox'[u])].kind = "fetched"
           /\ outbox'[u][Len(outbox'[u])].task = found[u]

(* Every step is one of each device's tasks page.                          *)
LEMMA PageShape ==
  ASSUME TypeOK, [Next]_vars, NEW u \in Users
  PROVE  PageStep(u) /\ day <= day'
<1> USE DEF accountVars, taskVars, serverVars, deviceVars, pageVars, diskVars
<1>0. /\ fetching \in [Users -> Days] /\ found \in [Users -> TaskIds \cup {NoTask}]
      /\ hand \in [Users -> TaskIds \cup {NoTask}] /\ outbox \in [Users -> Seq(Write)]
  BY DEF TypeOK
<1>d. day <= day'
  <2>1. day \in Nat
    BY DayTypes DEF TypeOK
  <2>2. ASSUME NEW x \in Users, Commit(x) \/ Receive(x) PROVE day' = day
    BY <2>2 DEF Commit, Receive, OpenReception, LatestFromUserDoc, ResponsesCallback, Agree
  <2>3. ASSUME NEW x \in Users,
               \/ \E t \in TaskIds : Refresh(x, t)
               \/ \E r \in Ranks \cup {0} : Answer(x, r)
        PROVE  day' = day
    BY <2>3 DEF Answer, Refresh
  <2>4. ASSUME NEW x \in Users, Launch(x) \/ Reinstall(x) \/ CutShort(x)
                                \/ FetchCallback(x) \/ ReplyTask(x)
        PROVE  day' = day
    BY <2>4 DEF Launch, Reinstall, CutShort, FetchCallback, ReplyTask
  <2>5. day' = day \/ day' = day + 1
    BY <2>2, <2>3, <2>4 DEF Next, vars, Midnight, Register, Login, SignInWithApple,
      SaveUserInfo, OpenTasks, ShouldSelect, PostTask
  <2> QED
    BY <2>1, <2>5
<1>1. ASSUME UNCHANGED <<fetching, found, hand, loaded>>, hasId \subseteq hasId'
      PROVE  PageStep(u)
  BY <1>1 DEF PageStep
<1>2. ASSUME NEW x \in Users, OpenTasks(x) PROVE PageStep(u)
  <2>1. /\ UNCHANGED <<found, hand, hasId>>
        /\ u \in loaded' => u \in loaded \/ u \in hasId
        /\ fetching'[u] = fetching[u] \/ (u \in hasId /\ fetching'[u] = day)
    BY <1>0, <1>2 DEF OpenTasks, ShouldSelect
  <2> QED
    BY <2>1 DEF PageStep
<1>3. ASSUME NEW x \in Users, Ended(x), x = u \/ (u \in hasId => u \in hasId')
      PROVE  PageStep(u)
  <2>1. CASE x = u
    BY <1>0, <1>3, <2>1 DEF Ended, PageStep, PagesCleared
  <2>2. CASE x # u
    <3>1. /\ fetching'[u] = fetching[u] /\ found'[u] = found[u] /\ hand'[u] = hand[u]
          /\ u \in loaded' => u \in loaded
      BY <1>0, <1>3, <2>2 DEF Ended
    <3> QED
      BY <1>3, <2>2, <3>1 DEF PageStep
  <2> QED
    BY <2>1, <2>2
<1>4. ASSUME NEW x \in Users, Launch(x) \/ Reinstall(x) \/ CutShort(x) PROVE PageStep(u)
  <2>1. Ended(x) /\ (x = u \/ (u \in hasId => u \in hasId'))
    BY <1>4 DEF Launch, Reinstall, CutShort
  <2> QED
    BY <1>3, <2>1
<1>5. ASSUME NEW x \in Users, NEW r \in Ranks \cup {0}, Answer(x, r) PROVE PageStep(u)
  <2>1. UNCHANGED <<hand, loaded, hasId, outbox, lastFetched, author, postedOn>>
    BY <1>5 DEF Answer
  <2>2. CASE fetching' = [fetching EXCEPT ![x] = 0] /\ found' = found /\ found[x] = NoTask
    BY <1>0, <2>1, <2>2 DEF PageStep
  <2>3. ASSUME NEW t \in Matches(x, fetching[x], r),
               found' = [found EXCEPT ![x] = t], fetching' = fetching, fetching[x] # 0
        PROVE  PageStep(u)
    <3>1. t \in TaskIds /\ SeenFetched(x, t) # 0 /\ SeenFetched(x, t) = fetching[x] - 1
      BY DEF Matches
    <3>2. CASE x = u
      BY <1>0, <2>1, <2>3, <3>1, <3>2 DEF PageStep
    <3>3. CASE x # u
      BY <1>0, <2>1, <2>3, <3>3 DEF PageStep
    <3> QED
      BY <3>2, <3>3
  <2> QED
    BY <1>5, <2>2, <2>3 DEF Answer
<1>6. ASSUME NEW x \in Users, FetchCallback(x) PROVE PageStep(u)
  <2>1. UNCHANGED <<loaded, hasId>>
    BY <1>6 DEF FetchCallback
  <2>2. CASE x # u
    <3>1. fetching'[u] = fetching[u] /\ found'[u] = found[u] /\ hand'[u] = hand[u]
      BY <1>0, <1>6, <2>2 DEF FetchCallback
    <3> QED
      BY <2>1, <3>1 DEF PageStep
  <2>3. CASE x = u
    <3>0. found[u] \in TaskIds \cup {NoTask} /\ fetching[u] \in Days
      BY <1>0
    <3>1. PICK w \in Write : /\ w = WriteOf("fetched", found[u], fetching[u], u)
                             /\ w.kind = "fetched" /\ w.task = found[u]
      BY <3>0, WriteTypes
    <3>2. outbox'[u] = outbox[u] \o <<w>> /\ outbox[u] \in Seq(Write)
      BY <1>0, <1>6, <2>3, <3>1 DEF FetchCallback, Issue
    <3>3. Len(outbox'[u]) # 0 /\ outbox'[u][Len(outbox'[u])] = w
      BY <3>2
    <3>4. found[u] # NoTask /\ hand'[u] = found[u] /\ fetching'[u] = 0 /\ found'[u] = NoTask
      BY <1>0, <1>6, <2>3 DEF FetchCallback
    <3> QED
      BY <2>1, <3>1, <3>3, <3>4 DEF PageStep
  <2> QED
    BY <2>2, <2>3
<1>7. ASSUME NEW x \in Users, Receive(x) \/ Commit(x) PROVE PageStep(u)
  <2>1. UNCHANGED <<fetching, found, hand, loaded, hasId>>
    BY <1>7 DEF Receive, OpenReception, LatestFromUserDoc, ResponsesCallback, Agree, Commit
  <2> QED
    BY <1>1, <2>1
<1>8. ASSUME NEW x \in Users,
             Register(x) \/ Login(x) \/ SignInWithApple(x) \/ SaveUserInfo(x)
             \/ ReplyTask(x) \/ (\E t \in TaskIds, r \in Ranks : PostTask(x, t, r))
             \/ \E y \in TaskIds : Refresh(x, y)
      PROVE  PageStep(u)
  <2>1. UNCHANGED <<fetching, found, hand, loaded>> /\ hasId \subseteq hasId'
    BY <1>8 DEF Register, Login, SignInWithApple, SaveUserInfo, ReplyTask, PostTask, Refresh
  <2> QED
    BY <1>1, <2>1
<1>9. CASE Midnight \/ UNCHANGED vars
  BY <1>1, <1>9, <1>d DEF Midnight, vars
<1> QED
  BY <1>d, <1>2, <1>4, <1>5, <1>6, <1>7, <1>8, <1>9 DEF Next

(* The pages stay sound.                                                   *)
LEMMA NextPagesSound ==
  ASSUME FetchInv, TypeInv', [Next]_vars, NEW c \in Users \cup {NoUser}, ServerStep(c),
         \A u \in Users : QueueStep(u, c)
  PROVE  PagesSound'
<1> SUFFICES ASSUME NEW u \in Users PROVE PageSound(u)'
  BY DEF PagesSound
<1>0. /\ TypeOK /\ PageSound(u) /\ fetching[u] \in Nat /\ day \in Nat /\ day' \in Nat
  BY DayTypes DEF FetchInv, TypeInv, TypeOK, PagesSound
<1>1. PageStep(u) /\ day <= day'
  BY <1>0, PageShape
<1>2. CASE PagesCleared(u)
  BY <1>0, <1>2 DEF PagesCleared, PageSound
<1>3. CASE ~PagesCleared(u)
  <2>1. Follows(u, c)
    BY <1>3 DEF QueueStep
  <2>2. PICK d \in {0, 1} : d = Applied(u, c)
    BY AppliedTypes
  <2>3. PICK m \in Nat : m = Len(outbox[u]) /\ m \in 0..Len(outbox[u])
    BY <1>0 DEF TypeOK
  <2>4. PICK n \in Nat : n = Len(outbox'[u]) /\ m - d <= n /\ m - d \in Int
    <3>1. Len(outbox'[u]) \in Nat
      BY DEF TypeInv, TypeOK
    <3> QED
      BY <2>1, <2>2, <2>3, <3>1 DEF Follows
  <2>5. ASSUME NEW t \in TaskIds, Posted(t)
        PROVE  /\ Posted(t)' /\ postedOn'[t] = postedOn[t] /\ postedOn[t] \in Nat
               /\ Stored(u, t, m) => Stored(u, t, n)'
               /\ Marked(u, t, m) => Marked(u, t, n)'
    <3>1. Posted(t)' /\ postedOn'[t] = postedOn[t] /\ postedOn[t] \in Nat
      BY <2>5, TaskTypes DEF Posted, ServerStep
    <3>2. Stored(u, t, m) => Stored(u, t, m - d)'
      BY <2>1, <2>2, <2>3, StoredKept
    <3>3. Marked(u, t, m) => Marked(u, t, m - d)'
      BY <2>1, <2>2, <2>3, MarkedKept
    <3>4. \A j \in 1..(m - d) : j \in 1..n
      BY <2>4
    <3> QED
      BY <3>1, <3>2, <3>3, <3>4 DEF Stored, Marked
  <2>6. ASSUME NEW f \in TaskIds, NEW e \in Nat,
               Posted(f), postedOn[f] < e, Stored(u, f, m), found'[u] = f, fetching'[u] >= e,
               fetching'[u] \in Nat
        PROVE  /\ Posted(found[u])' /\ postedOn'[found'[u]] < fetching'[u]
               /\ Stored(u, found[u], Len(outbox[u]))'
    <3>1. Posted(f)' /\ postedOn'[f] = postedOn[f] /\ Stored(u, f, n)' /\ postedOn[f] \in Nat
      BY <2>5, <2>6
    <3>2. postedOn'[f] < fetching'[u]
      BY <2>6, <3>1
    <3> QED
      BY <2>4, <2>6, <3>1, <3>2 DEF Posted, Stored
  <2>7. ASSUME NEW h \in TaskIds, Posted(h), postedOn[h] < day, hand'[u] = h,
               Marked(u, h, n)'
        PROVE  /\ Posted(hand[u])' /\ postedOn'[hand'[u]] < day'
               /\ Marked(u, hand[u], Len(outbox[u]))'
    <3>1. Posted(h)' /\ postedOn'[h] = postedOn[h] /\ postedOn[h] \in Nat
      BY <2>5, <2>7
    <3>2. postedOn'[h] < day'
      BY <1>0, <1>1, <2>7, <3>1
    <3> QED
      BY <2>4, <2>7, <3>1, <3>2 DEF Posted, Marked
  <2>8. fetching'[u] \in Nat /\ fetching[u] <= day
    BY <1>0, DayTypes DEF TypeInv, TypeOK, PageSound
  <2>9. u \in loaded \/ fetching[u] # 0 \/ found[u] # NoTask \/ hand[u] # NoTask => u \in hasId
    BY <1>0 DEF PageSound
  <2>10. ASSUME hand'[u] = hand[u], hand'[u] # NoTask
         PROVE  /\ Posted(hand[u])' /\ postedOn'[hand'[u]] < day'
                /\ Marked(u, hand[u], Len(outbox[u]))'
    <3>1. PICK h \in TaskIds : h = hand[u] /\ Posted(h) /\ postedOn[h] < day /\ Marked(u, h, m)
      BY <1>0, <2>3, <2>10 DEF PageSound, Posted
    <3>2. Marked(u, h, n)'
      BY <2>5, <3>1
    <3> QED
      BY <2>7, <2>10, <3>1, <3>2
  <2>11. ASSUME found'[u] = found[u], found'[u] # NoTask, fetching'[u] >= fetching[u]
         PROVE  /\ Posted(found[u])' /\ postedOn'[found'[u]] < fetching'[u]
                /\ Stored(u, found[u], Len(outbox[u]))'
    <3>1. PICK f \in TaskIds : /\ f = found[u] /\ Posted(f) /\ postedOn[f] < fetching[u]
                               /\ Stored(u, f, m)
      BY <1>0, <2>3, <2>11 DEF PageSound, Posted
    <3> QED
      BY <1>0, <2>6, <2>8, <2>11, <3>1
  <2>12. u \in hasId => u \in hasId'
    BY <1>1, <1>3 DEF PageStep
  <2>13. u \in loaded' => u \in hasId'
    BY <1>1, <1>3, <2>9, <2>12 DEF PageStep
  <2>14. CASE fetching'[u] = fetching[u] /\ found'[u] = found[u] /\ hand'[u] = hand[u]
    BY <1>0, <1>1, <2>8, <2>9, <2>10, <2>11, <2>12, <2>13, <2>14 DEF PageSound
  <2>15. CASE u \in hasId /\ fetching'[u] = day /\ found'[u] = found[u] /\ hand'[u] = hand[u]
    BY <1>0, <1>1, <2>8, <2>9, <2>10, <2>11, <2>12, <2>13, <2>15 DEF PageSound
  <2>16. CASE fetching'[u] = 0 /\ found[u] = NoTask /\ found'[u] = NoTask /\ hand'[u] = hand[u]
    BY <1>0, <1>1, <2>8, <2>9, <2>10, <2>12, <2>13, <2>16 DEF PageSound
  <2>17. ASSUME NEW t \in TaskIds, SeenFetched(u, t) # 0, SeenFetched(u, t) = fetching[u] - 1,
                fetching[u] # 0, fetching'[u] = fetching[u], found'[u] = t, hand'[u] = hand[u]
         PROVE  PageSound(u)'
    <3>1. /\ Posted(t) /\ postedOn[t] <= fetching[u] - 1 /\ Stored(u, t, m)
          /\ postedOn[t] \in Nat
      <4>1. /\ Posted(t) /\ postedOn[t] <= SeenFetched(u, t)
            /\ Stored(u, t, Len(outbox[u]))
        BY <2>17, SeenIsStored
      <4>2. postedOn[t] \in Nat
        BY TaskTypes
      <4> QED
        BY <2>3, <2>17, <4>1, <4>2
    <3>2. postedOn[t] < fetching[u]
      BY <1>0, <3>1
    <3>3. /\ Posted(found[u])' /\ postedOn'[found'[u]] < fetching'[u]
          /\ Stored(u, found[u], Len(outbox[u]))'
      BY <1>0, <2>6, <2>8, <2>17, <3>1, <3>2
    <3> QED
      BY <1>0, <1>1, <2>8, <2>9, <2>10, <2>12, <2>13, <2>17, <3>3 DEF PageSound
  <2>18. ASSUME found[u] # NoTask, hand'[u] = found[u], fetching'[u] = 0, found'[u] = NoTask,
                n # 0, outbox'[u][n].kind = "fetched", outbox'[u][n].task = found[u]
         PROVE  PageSound(u)'
    <3>1. PICK f \in TaskIds : f = found[u] /\ Posted(f) /\ postedOn[f] < fetching[u]
      BY <1>0, <2>18 DEF PageSound, Posted
    <3>2. postedOn[f] < day
      BY <1>0, <2>8, <3>1, TaskTypes
    <3>3. Marked(u, f, n)'
      BY <2>18, <3>1 DEF Marked
    <3>4. /\ Posted(hand[u])' /\ postedOn'[hand'[u]] < day'
          /\ Marked(u, hand[u], Len(outbox[u]))'
      BY <2>7, <2>18, <3>1, <3>2, <3>3
    <3> QED
      BY <1>0, <2>9, <2>12, <2>13, <2>18, <3>4 DEF PageSound
  <2> QED
    BY <1>1, <1>3, <2>4, <2>14, <2>15, <2>16, <2>17, <2>18 DEF PageStep
<1> QED
  BY <1>2, <1>3

(* The initial states satisfy the invariant.                               *)
LEMMA InitFetchInv == Init => FetchInv
<1> SUFFICES ASSUME Init PROVE FetchInv
  OBVIOUS
<1>1. TypeInv
  BY InitTypeOK DEF TypeInv, AsksForTask, Init, Closed
<1>2. \A u \in Users : Len(outbox[u]) = 0
  BY DEF Init
<1>3. WritesSound /\ PostedOnce
  BY <1>2 DEF WritesSound, PostedOnce
<1>4. ServerSound /\ CacheSound
  BY DEF Init, ServerSound, CacheSound
<1>5. PagesSound
  <2>1. day = 1 /\ loaded = {} /\ 0 <= 1
        /\ \A u \in Users : fetching[u] = 0 /\ found[u] = NoTask /\ hand[u] = NoTask
    BY DEF Init
  <2> QED
    BY <2>1 DEF PagesSound, PageSound
<1> QED
  BY <1>1, <1>3, <1>4, <1>5 DEF FetchInv

(* Every step keeps it.                                                    *)
LEMMA NextFetchInv == FetchInv /\ [Next]_vars => FetchInv'
<1> SUFFICES ASSUME FetchInv, [Next]_vars PROVE FetchInv'
  OBVIOUS
<1>1. TypeInv /\ TypeInv'
  BY NextTypeInv DEF FetchInv
<1>2. PICK c \in Users \cup {NoUser} : ServerStep(c) /\ \A u \in Users : QueueStep(u, c)
  BY <1>1, StepShape
<1>3. ServerSound'
  BY <1>2, NextServerSound
<1> QED
  BY <1>1, <1>2, <1>3, NextWritesSound, NextPostedOnce, NextCacheSound, NextPagesSound
  DEF FetchInv

(* The order of each device's writes suffices for all devices: a task is   *)
(* at the server before it is marked and marked before a reply to it.      *)
LEMMA FetchInvariant == Spec => []FetchInv
BY InitFetchInv, NextFetchInv, PTL DEF Spec

(* fetchTask hands out no task on the day it was posted, whatever the      *)
(* users, tasks and days, however long writes are on their way and however *)
(* often an app is ended or reinstalled.                                   *)
THEOREM NeverOnItsOwnDay == Spec => []NotOnItsOwnDay
<1>1. FetchInv => NotOnItsOwnDay
  BY DEF FetchInv, PagesSound, PageSound, NotOnItsOwnDay
<1> QED
  BY <1>1, FetchInvariant, PTL

(* A reply at the server is signed, and to a task that is marked with a    *)
(* day after its own: neither the queue nor a restart or a reinstallation  *)
(* lets replyTask's write overtake the mark of fetchTask.                  *)
THEOREM RepliesStaySound == Spec => []RepliesSound
<1>1. FetchInv => RepliesSound
  BY DEF FetchInv, TypeInv, ServerSound, RepliesSound, RepliedTaskIsMarked, RepliesSigned
<1> QED
  BY <1>1, FetchInvariant, PTL

(***************************************************************************)
(* A task nobody fetched in time.                                          *)
(***************************************************************************)
(* What the dates of a task are.                                           *)
LEMMA InDates ==
  ASSUME NEW t
  PROVE  /\ lastFetched[t] \in Dates(t)
         /\ \A u \in Users : cached[u][t] \in Dates(t)
         /\ \A u \in Users : \A i \in DOMAIN outbox[u] :
              /\ outbox[u][i].kind \in {"task", "fetched"} /\ outbox[u][i].task = t
              => outbox[u][i].day \in Dates(t)
BY DEF Dates

(* And, after a step, nothing else.                                        *)
LEMMA DatesAfter ==
  ASSUME NEW t, NEW S, lastFetched'[t] \in S,
         \A u \in Users : cached'[u][t] \in S,
         \A u \in Users : \A i \in DOMAIN outbox'[u] :
              /\ outbox'[u][i].kind \in {"task", "fetched"} /\ outbox'[u][i].task = t
              => outbox'[u][i].day \in S
  PROVE  \A d \in Dates(t)' : d \in S
BY DEF Dates

(* Dates are numbers.                                                      *)
LEMMA DatesTypes ==
  ASSUME TypeOK, NEW t \in TaskIds
  PROVE  \A d \in Dates(t) : d \in Nat
<1>1. lastFetched[t] \in Nat
  BY DayTypes DEF TypeOK
<1>2. \A u \in Users : cached[u][t] \in Nat
  BY DayTypes DEF TypeOK
<1>3. ASSUME NEW u \in Users, NEW i \in DOMAIN outbox[u] PROVE outbox[u][i].day \in Nat
  <2>1. outbox[u] \in Seq(Write)
    BY DEF TypeOK
  <2>2. outbox[u][i] \in Write
    BY <2>1
  <2> QED
    BY <2>2, DayTypes DEF Write
<1> QED
  BY <1>1, <1>2, <1>3 DEF Dates

(* What a device sees is one of them.                                      *)
LEMMA SeenIsADate ==
  ASSUME TypeOK, NEW u \in Users, NEW t \in TaskIds
  PROVE  SeenFetched(u, t) \in Dates(t)
<1> DEFINE own == {i \in DOMAIN outbox[u] : /\ outbox[u][i].task = t
                                            /\ outbox[u][i].kind \in {"task", "fetched"}}
<1>1. CASE own = {}
  <2>1. SeenFetched(u, t) = cached[u][t]
    BY <1>1 DEF SeenFetched
  <2> QED
    BY <2>1, InDates
<1>2. CASE own # {}
  <2>1. PICK n \in Nat : n = Len(outbox[u]) /\ DOMAIN outbox[u] = 1..n
    <3>1. outbox[u] \in Seq(Write)
      BY DEF TypeOK
    <3> QED
      BY ONLY <3>1
  <2>2. \E i \in own : \A j \in own : j <= i
    <3>1. own \in SUBSET (1..n)
      BY <2>1
    <3> HIDE DEF own
    <3> QED
      BY <1>2, <3>1, LastPosition
  <2>3. PICK i \in own : i = CHOOSE x \in own : \A j \in own : j <= x
    BY <2>2
  <2>4. SeenFetched(u, t) = outbox[u][i].day
    BY <1>2, <2>3 DEF SeenFetched
  <2>5. /\ i \in DOMAIN outbox[u] /\ outbox[u][i].task = t
        /\ outbox[u][i].kind \in {"task", "fetched"}
    OBVIOUS
  <2>6. outbox[u][i].day \in Dates(t)
    BY ONLY <2>5, InDates, u \in Users
  <2> QED
    BY <2>4, <2>6
<1> QED
  BY <1>1, <1>2

(* A task without a page that found it gets no new date.                   *)
LEMMA DatesStep ==
  ASSUME FetchInv, [Next]_vars, NEW t \in TaskIds, author[t] # NoUser,
         \A u \in Users : found[u] # t
  PROVE  \A e \in Dates(t)' : e \in Dates(t) \cup {0}
<1>0. TypeOK /\ TypeInv /\ TypeInv'
  BY NextTypeInv DEF FetchInv, TypeInv
<1>1. PICK c \in Users \cup {NoUser} : ServerStep(c) /\ \A u \in Users : QueueStep(u, c)
  BY <1>0, StepShape
<1>2. PICK S : S = Dates(t) \cup {0}
  OBVIOUS
<1>3. /\ lastFetched[t] \in S /\ \A u \in Users : cached[u][t] \in S
      /\ \A u \in Users : \A i \in DOMAIN outbox[u] :
              /\ outbox[u][i].kind \in {"task", "fetched"} /\ outbox[u][i].task = t
              => outbox[u][i].day \in S
  BY <1>2, InDates
<1>4. lastFetched'[t] \in S
  <2>1. ASSUME c \in Users, outbox[c][1].kind \in {"task", "fetched"}, outbox[c][1].task = t
        PROVE  outbox[c][1].day \in S
    <3>1. outbox[c] # <<>> /\ 1 \in 1..Len(outbox[c])
      BY <1>1, <2>1, HeadSound DEF ServerStep
    <3>2. outbox[c] \in Seq(Write)
      BY <1>0, <2>1 DEF TypeOK
    <3>3. 1 \in DOMAIN outbox[c]
      BY <3>1, <3>2
    <3> QED
      BY <1>3, <2>1, <3>3
  <2> QED
    BY <1>1, <1>3, <2>1 DEF ServerStep
<1>5. \A u \in Users : cached'[u][t] \in S
  BY <1>0, <1>2, <1>3, <1>4, CacheStep
<1>6. ASSUME NEW u \in Users, NEW i \in DOMAIN outbox'[u],
             outbox'[u][i].kind \in {"task", "fetched"}, outbox'[u][i].task = t
      PROVE  outbox'[u][i].day \in S
  <2>1. PICK n \in Nat : n = Len(outbox'[u]) /\ DOMAIN outbox'[u] = 1..n
    BY <1>0 DEF TypeInv, TypeOK
  <2>2. PICK m \in Nat : m = Len(outbox[u]) /\ DOMAIN outbox[u] = 1..m
    <3>1. outbox[u] \in Seq(Write)
      BY <1>0 DEF TypeOK
    <3> QED
      BY ONLY <3>1
  <2>3. PICK d \in {0, 1} : d = Applied(u, c)
    BY AppliedTypes
  <2>4. Follows(u, c) /\ Grows(u, c)
    <3>1. outbox'[u] # <<>>
      BY <2>1
    <3> QED
      BY <1>1, <3>1 DEF QueueStep
  <2>5. CASE i \in 1..(m - d)
    <3>1. i + d \in 1..m
      BY <2>5
    <3>2. /\ outbox[u][i + d].kind = outbox'[u][i].kind
          /\ outbox[u][i + d].task = t /\ outbox[u][i + d].day = outbox'[u][i].day
      BY <1>6, <2>2, <2>3, <2>4, <2>5 DEF Follows
    <3>3. i + d \in DOMAIN outbox[u] /\ outbox[u][i + d].kind \in {"task", "fetched"}
      BY <1>6, <2>2, <3>1, <3>2
    <3> QED
      BY <1>3, <3>2, <3>3
  <2>6. CASE i \in (m - d + 1)..n
    <3>1. NewWrite(u, c, outbox'[u][i])
      BY <2>1, <2>2, <2>3, <2>4, <2>6 DEF Grows
    <3>2. found[u] = t \/ author[t] = NoUser
      BY <1>6, <3>1 DEF NewWrite
    <3> QED
      BY <3>2
  <2> QED
    BY <2>1, <2>2, <2>3, <2>5, <2>6
<1> QED
  BY <1>2, <1>4, <1>5, <1>6, DatesAfter

(* No step brings an expired task back.                                    *)
LEMMA ExpiredStep ==
  ASSUME FetchInv, [Next]_vars, NEW t \in TaskIds, Expired(t)
  PROVE  Expired(t)' /\ \A u \in Users : hand'[u] = t => hand[u] = t
<1>0. TypeOK /\ TypeInv /\ day \in Nat /\ day' \in Nat
  <2>1. TypeInv'
    BY NextTypeInv DEF FetchInv
  <2> QED
    BY <2>1, DayTypes DEF FetchInv, TypeInv, TypeOK
<1>1. /\ author[t] # NoUser
      /\ \A d \in Dates(t) : d \in Nat /\ d < day - 1
      /\ \A u \in Users : found[u] # t /\ (fetching[u] - 1) \notin Dates(t) \ {0}
  BY <1>0, DatesTypes DEF Expired
<1>2. \A e \in Dates(t)' : e \in Dates(t) \cup {0}
  BY <1>1, DatesStep
<1>3. day <= day'
  <2>1. \A u \in Users : day <= day'
    BY <1>0, PageShape
  <2>2. CASE Users = {}
    BY <1>0, <2>2 DEF Next, Midnight, vars
  <2> QED
    BY <2>1, <2>2
<1>4. 0 < day - 1
  <2>1. lastFetched[t] \in Dates(t)
    BY InDates
  <2> QED
    BY <1>0, <1>1, <2>1
<1>5. \A e \in Dates(t)' : e < day' - 1
  BY <1>0, <1>1, <1>2, <1>3, <1>4
<1>6. ASSUME NEW u \in Users
      PROVE  /\ found'[u] # t
             /\ hand'[u] = t => hand[u] = t
             /\ \/ fetching'[u] = fetching[u] \/ fetching'[u] = day \/ fetching'[u] = 0
  <2>1. PageStep(u)
    BY <1>0, PageShape
  <2>2. found[u] # t /\ t # NoTask
    BY <1>1
  <2>3. CASE PagesCleared(u)
    BY <2>2, <2>3 DEF PagesCleared
  <2>4. CASE fetching'[u] = fetching[u] /\ found'[u] = found[u] /\ hand'[u] = hand[u]
    BY <2>2, <2>4
  <2>5. CASE fetching'[u] = day /\ found'[u] = found[u] /\ hand'[u] = hand[u]
    BY <2>2, <2>5
  <2>6. CASE fetching'[u] = 0 /\ found'[u] = NoTask /\ (hand'[u] = hand[u] \/ hand'[u] = found[u])
    BY <2>2, <2>6
  <2>7. ASSUME NEW x \in TaskIds, SeenFetched(u, x) # 0, SeenFetched(u, x) = fetching[u] - 1,
               found'[u] = x
        PROVE  found'[u] # t
    <3>1. SUFFICES ASSUME x = t PROVE FALSE
      BY <2>7
    <3>2. SeenFetched(u, t) \in Dates(t)
      BY <1>0, SeenIsADate
    <3> QED
      BY <1>1, <2>7, <3>1, <3>2
  <2> QED
    BY <2>1, <2>2, <2>3, <2>4, <2>5, <2>6, <2>7 DEF PageStep
<1>7. ASSUME NEW u \in Users, (fetching'[u] - 1) \in Dates(t)', fetching'[u] - 1 # 0
      PROVE  FALSE
  <2>1. PICK e \in Dates(t) : e = fetching'[u] - 1
    BY <1>2, <1>7
  <2>2. e \in Nat /\ e < day - 1
    BY <1>1
  <2> QED
    BY <1>0, <1>1, <1>6, <1>7, <2>1, <2>2
<1>8. author'[t] # NoUser
  <2>1. PICK c \in Users \cup {NoUser} : ServerStep(c)
    BY <1>0, StepShape
  <2> QED
    BY <1>1, <2>1 DEF ServerStep
<1>9. Expired(t)'
  BY <1>5, <1>6, <1>7, <1>8 DEF Expired
<1> QED
  BY <1>6, <1>9

(* A task of which every copy, at the server, in a cache or in a write     *)
(* under way, is dated before yesterday, with no query that asks for such  *)
(* a date, is never handed out again, by any device, online or offline.    *)
THEOREM ExpiredStaysExpired == Spec => ExpiredForever
<1>1. FetchInv /\ [Next]_vars =>
        [\A t \in TaskIds : Expired(t) =>
           /\ Expired(t)'
           /\ \A u \in Users : hand'[u] = t => hand[u] = t]_vars
  BY ExpiredStep
<1> QED
  BY <1>1, FetchInvariant, PTL DEF Spec, ExpiredForever

-----------------------------------------------------------------------------

(***************************************************************************)
(* Accounts and the latest task.                                           *)
(***************************************************************************)
(* An account comes before anything else of a user.  Registration writes   *)
(* the user document of an email user first and once.                      *)
AccountSound(u) ==
  /\ u \in saving => u \in registered
  /\ u \notin registered => outbox[u] = <<>> /\ latest[u] = NoTask
  /\ u \notin registered \cup AppleUsers => users[u] = NoUser
  /\ u \notin AppleUsers => \A i \in 1..Len(outbox[u]) :
       outbox[u][i].kind = "user" => i = 1 /\ users[u] = NoUser /\ latest[u] = NoTask

AccountsSound == \A u \in Users : AccountSound(u)

(* Where the id of the latest task is on its way to the user document, it  *)
(* is in the last of the writes that will set it.                          *)
LatestComing(u) ==
  latest[u] \notin cut \cup {NoTask} /\ users[u] # NoUser =>
    \/ /\ users[u].latest = latest[u]
       /\ \A i \in 1..Len(outbox[u]) : outbox[u][i].kind # "latest"
    \/ \E i \in 1..Len(outbox[u]) :
         /\ outbox[u][i].kind = "latest" /\ outbox[u][i].task = latest[u]
         /\ \A j \in (i + 1)..Len(outbox[u]) : outbox[u][j].kind # "latest"

LatestOnItsWay == \A u \in Users \ AppleUsers : LatestComing(u)

LatestInv == FetchInv /\ AccountsSound /\ LatestIsPosted /\ LatestOnItsWay

(* Accounts stay ahead of everything else.                                 *)
LEMMA NextAccountsSound ==
  ASSUME FetchInv, AccountsSound, TypeInv', NEW c \in Users \cup {NoUser}, ServerStep(c),
         \A u \in Users : QueueStep(u, c) /\ AccountStep(u, c)
  PROVE  AccountsSound'
<1> SUFFICES ASSUME NEW u \in Users PROVE AccountSound(u)'
  BY DEF AccountsSound
<1>0. /\ AccountSound(u) /\ QueueStep(u, c) /\ AccountStep(u, c) /\ PageSound(u)
  BY DEF AccountsSound, FetchInv, PagesSound
<1>1. /\ hasId \subseteq registered /\ saving \subseteq AppleUsers
      /\ outbox[u] \in Seq(Write) /\ Len(outbox[u]) \in Nat /\ Len(outbox'[u]) \in Nat
      /\ outbox'[u] \in Seq(Write)
  BY DEF FetchInv, TypeInv, TypeOK
<1>2. u \in saving' => u \in registered'
  BY <1>0 DEF AccountSound, AccountStep
<1>3. ASSUME u \notin registered
      PROVE  /\ u # c /\ outbox[u] = <<>> /\ latest[u] = NoTask /\ latest'[u] = NoTask
             /\ u \notin AppleUsers => users[u] = NoUser /\ users'[u] = NoUser
  <2>1. outbox[u] = <<>> /\ latest[u] = NoTask
    BY <1>0, <1>3 DEF AccountSound
  <2>2. u # c
    BY <2>1 DEF ServerStep
  <2>3. latest'[u] = NoTask
    BY <1>0, <2>1, <2>2 DEF AccountStep, LatestStep
  <2>4. u \notin AppleUsers => users[u] = NoUser
    BY <1>0, <1>3 DEF AccountSound
  <2>5. u \notin AppleUsers => users'[u] = NoUser
    BY <1>0, <2>2, <2>4 DEF AccountStep, DocStep
  <2> QED
    BY <2>1, <2>2, <2>3, <2>4, <2>5
<1>4. u \notin registered' => u \notin registered
  BY <1>0 DEF AccountStep
<1>5. ASSUME u \notin registered' PROVE outbox'[u] = <<>>
  <2>1. ASSUME NEW i \in 1..Len(outbox'[u]), Grows(u, c) PROVE FALSE
    <3>1. Len(outbox[u]) - Applied(u, c) = 0
      BY <1>3, <1>4, <1>5 DEF Applied
    <3>2. NewWrite(u, c, outbox'[u][i])
      BY <1>1, <2>1, <3>1 DEF Grows
    <3>3. u \notin saving /\ u \notin hasId /\ found[u] = NoTask /\ hand[u] = NoTask /\ u # c
      BY <1>0, <1>1, <1>3, <1>4, <1>5 DEF AccountSound, PageSound
    <3> QED
      BY <1>5, <3>2, <3>3 DEF NewWrite
  <2>2. Grows(u, c) => Len(outbox'[u]) = 0
    BY <1>1, <2>1
  <2> QED
    BY <1>0, <1>1, <2>2 DEF QueueStep
<1>6. ASSUME u \notin AppleUsers, NEW i \in 1..Len(outbox'[u]), outbox'[u][i].kind = "user"
      PROVE  i = 1 /\ users'[u] = NoUser /\ latest'[u] = NoTask
  <2>1. PICK n \in Nat : n = Len(outbox'[u])
    BY <1>1
  <2>2. PICK m \in Nat : m = Len(outbox[u])
    BY <1>1
  <2>3. PICK d \in {0, 1} : d = Applied(u, c)
    BY AppliedTypes
  <2>4. Follows(u, c) /\ Grows(u, c)
    <3>1. outbox'[u] # <<>>
      BY <1>6
    <3> QED
      BY <1>0, <3>1 DEF QueueStep
  <2>5. CASE i \in 1..(m - d)
    <3>1. i + d \in 1..m
      BY <2>5
    <3>2. outbox[u][i + d].kind = "user"
      BY <1>6, <2>2, <2>3, <2>4, <2>5 DEF Follows
    <3>3. i + d = 1 /\ users[u] = NoUser /\ latest[u] = NoTask
      BY <1>0, <1>6, <2>2, <3>1, <3>2 DEF AccountSound
    <3>4. i = 1 /\ d = 0
      BY <3>3, <2>5
    <3>5. u # c
      BY <2>3, <3>4 DEF Applied
    <3> QED
      BY <1>0, <3>3, <3>4, <3>5 DEF AccountStep, LatestStep, DocStep
  <2>6. CASE i \in (m - d + 1)..n
    <3>1. /\ NewWrite(u, c, outbox'[u][i])
          /\ n = m - d + 1 \/ u \in saving
      BY <2>1, <2>2, <2>3, <2>4, <2>6 DEF Grows
    <3>2. u \notin saving
      BY <1>1, <1>6
    <3>3. u \notin registered
      BY <1>6, <3>1, <3>2 DEF NewWrite
    <3>4. m = 0 /\ d = 0
      BY <1>3, <2>2, <2>3, <3>3 DEF Applied
    <3> QED
      BY <1>3, <1>6, <2>6, <3>1, <3>2, <3>3, <3>4
  <2> QED
    BY <2>1, <2>2, <2>3, <2>5, <2>6
<1> QED
  BY <1>2, <1>3, <1>4, <1>5, <1>6 DEF AccountSound

(* A task that is stored and named as somebody's latest stays theirs.      *)
LEMMA NextLatestIsPosted ==
  ASSUME FetchInv, LatestIsPosted, TypeInv', [Next]_vars, NEW c \in Users \cup {NoUser},
         ServerStep(c), \A u \in Users : QueueStep(u, c) /\ AccountStep(u, c)
  PROVE  LatestIsPosted'
<1> DEFINE Own(u, t) == t \in TaskIds /\ author[t] = u /\ lastFetched[t] # 0
<1>0. TypeInv /\ TypeOK
  BY DEF FetchInv, TypeInv
<1>1. ASSUME NEW u \in Users, NEW t, Own(u, t)
      PROVE  author'[t] = u /\ lastFetched'[t] # 0
  BY <1>1, MarksKept DEF ServerStep
<1> SUFFICES ASSUME NEW u \in Users, NEW t, t # NoTask,
                    \/ t = latest'[u] \/ t = reception'[u].task
                    \/ users'[u] # NoUser /\ t = users'[u].latest
             PROVE  author'[t] = u /\ lastFetched'[t] # 0
  BY DEF LatestIsPosted
<1>2. /\ latest[u] # NoTask => Own(u, latest[u])
      /\ reception[u].task # NoTask => Own(u, reception[u].task)
      /\ users[u] # NoUser /\ users[u].latest # NoTask => Own(u, users[u].latest)
  <2>1. /\ latest[u] \in TaskIds \cup {NoTask} /\ reception[u] \in Reception
        /\ users[u] # NoUser => users[u] \in UserDoc
    BY <1>0 DEF TypeOK
  <2>2. /\ reception[u].task \in TaskIds \cup {NoTask}
        /\ users[u] # NoUser => users[u].latest \in TaskIds \cup {NoTask}
    BY <2>1 DEF Reception, UserDoc
  <2> QED
    BY <2>1, <2>2 DEF LatestIsPosted
<1>3. AccountStep(u, c)
  OBVIOUS
<1>4. ASSUME u = c PROVE outbox[u] # <<>> /\ WriteSound(u, 1)
  BY <1>4, HeadSound DEF ServerStep
<1>5. ASSUME u = c, outbox[u][1].kind = "task"
      PROVE  author'[outbox[u][1].task] = u /\ lastFetched'[outbox[u][1].task] # 0
  <2>1. PICK x \in TaskIds : x = outbox[u][1].task /\ author[x] = u /\ outbox[u][1].day # 0
    BY <1>4, <1>5 DEF WriteSound, Posted
  <2>2. author'[x] = u /\ lastFetched'[x] = outbox[u][1].day
    BY <1>5, <2>1 DEF ServerStep
  <2> QED
    BY <2>1, <2>2
<1>6. ASSUME u = c, outbox[u][1].kind = "latest" PROVE Own(u, outbox[u][1].task)
  BY <1>4, <1>6 DEF WriteSound, Posted
<1>7. CASE t = latest'[u]
  BY <1>1, <1>2, <1>3, <1>5, <1>7 DEF AccountStep, LatestStep
<1>8. CASE users'[u] # NoUser /\ t = users'[u].latest
  <2>1. BlankUser.latest = NoTask
    BY DEF BlankUser
  <2>2. \/ users'[u] = users[u] \/ users'[u] = BlankUser
        \/ u = c /\ outbox[u][1].kind = "latest" /\ users'[u].latest = outbox[u][1].task
        \/ users[u] # NoUser /\ users'[u].latest = users[u].latest
    BY <1>3 DEF AccountStep, DocStep
  <2> QED
    BY <1>1, <1>2, <1>6, <1>8, <2>1, <2>2
<1>9. CASE t = reception'[u].task
  <2>1. Closed.task = NoTask /\ [Closed EXCEPT !.stage = "askUser"].task = NoTask
    BY DEF Closed
  <2>2. \/ reception'[u].task \in {NoTask, reception[u].task}
        \/ latest[u] # NoTask /\ reception'[u].task = latest[u]
        \/ /\ users[u] # NoUser /\ users[u].latest # NoTask
           /\ reception'[u].task = users[u].latest
    <3>1. ASSUME NEW st, NEW x, NEW v,
                 reception'[u] = [stage |-> st, task |-> x, completer |-> v]
          PROVE  reception'[u].task = x
      BY <3>1
    <3>2. CASE reception'[u] \in {reception[u], Closed, [Closed EXCEPT !.stage = "askUser"]}
      BY <2>1, <3>2
    <3>3. CASE \E v \in Users \cup {NoUser} : \E x \in {reception[u].task, NoTask} :
                 reception'[u] = [stage |-> "shown", task |-> x, completer |-> v]
      BY <3>1, <3>3
    <3>4. CASE /\ latest[u] # NoTask
               /\ reception'[u] = [stage |-> "askResponses", task |-> latest[u],
                                   completer |-> NoUser]
      BY <3>1, <3>4
    <3>5. CASE /\ users[u] # NoUser /\ users[u].latest # NoTask
               /\ reception'[u] = [stage |-> "askResponses", task |-> users[u].latest,
                                   completer |-> NoUser]
      BY <3>1, <3>5
    <3>6. \/ reception'[u] \in {reception[u], Closed, [Closed EXCEPT !.stage = "askUser"]}
          \/ \E v \in Users \cup {NoUser} : \E x \in {reception[u].task, NoTask} :
                 reception'[u] = [stage |-> "shown", task |-> x, completer |-> v]
          \/ /\ latest[u] # NoTask
             /\ reception'[u] = [stage |-> "askResponses", task |-> latest[u],
                                 completer |-> NoUser]
          \/ /\ users[u] # NoUser /\ users[u].latest # NoTask
             /\ reception'[u] = [stage |-> "askResponses", task |-> users[u].latest,
                                 completer |-> NoUser]
      BY <1>0, ReceptionStep, Zenon
    <3> QED
      BY <3>2, <3>3, <3>4, <3>5, <3>6
  <2> QED
    BY <1>1, <1>2, <1>9, <2>2
<1> QED
  BY <1>7, <1>8, <1>9

(* The last write of the latest id stays the last, until it is applied.    *)
LEMMA NextLatestOnItsWay ==
  ASSUME FetchInv, AccountsSound, LatestOnItsWay, TypeInv', NEW c \in Users \cup {NoUser},
         ServerStep(c), \A u \in Users : QueueStep(u, c) /\ AccountStep(u, c)
  PROVE  LatestOnItsWay'
<1> SUFFICES ASSUME NEW u \in Users, u \notin AppleUsers PROVE LatestComing(u)'
  BY DEF LatestOnItsWay
<1> SUFFICES ASSUME latest'[u] # NoTask, latest'[u] \notin cut', users'[u] # NoUser
             PROVE  LatestComing(u)'
  BY DEF LatestComing
<1>0. /\ AccountSound(u) /\ QueueStep(u, c) /\ AccountStep(u, c) /\ LatestComing(u)
  BY DEF AccountsSound, LatestOnItsWay
<1>1. PICK m \in Nat : m = Len(outbox[u])
  BY DEF FetchInv, TypeInv, TypeOK
<1>2. PICK n \in Nat : n = Len(outbox'[u]) /\ outbox'[u] \in Seq(Write)
  BY DEF TypeInv, TypeOK
<1>3. PICK d \in {0, 1} : d = Applied(u, c) /\ (d = 1 <=> u = c)
  BY DEF Applied
<1>4. u = c => 1 \in 1..m
  BY <1>1, HeadSound DEF ServerStep
<1>5. Follows(u, c) /\ Grows(u, c)
  BY <1>0 DEF QueueStep
<1>6. ASSUME users[u] = NoUser PROVE FALSE
  <2>1. u = c /\ outbox[u][1].kind = "user"
    BY <1>0, <1>6 DEF AccountStep, DocStep
  <2>2. latest[u] = NoTask
    BY <1>0, <1>1, <1>4, <2>1 DEF AccountSound
  <2> QED
    BY <1>0, <2>1, <2>2 DEF AccountStep, LatestStep
<1>7. CASE \E i \in 1..n : outbox'[u][i].kind = "latest" /\ i \notin 1..(m - d)
  <2>1. PICK i \in 1..n : outbox'[u][i].kind = "latest" /\ i \in (m - d + 1)..n
    BY <1>1, <1>2, <1>3, <1>7
  <2>3. n = m - d + 1 /\ NewWrite(u, c, outbox'[u][i])
    BY <1>1, <1>2, <1>3, <1>5, <2>1 DEF Grows
  <2>4. outbox'[u][i].task = latest'[u]
    BY <2>1, <2>3 DEF NewWrite
  <2>5. \A j \in (i + 1)..n : FALSE
    BY <1>1, <2>1, <2>3
  <2> QED
    BY <1>2, <2>1, <2>4, <2>5 DEF LatestComing
<1>8. CASE \A i \in 1..n : outbox'[u][i].kind = "latest" => i \in 1..(m - d)
  <2>1. latest'[u] = latest[u]
    <3>1. ~(/\ u = c /\ Len(outbox'[u]) = Len(outbox[u])
            /\ outbox'[u][Len(outbox[u])].kind = "latest")
      BY <1>1, <1>2, <1>3, <1>4, <1>8
    <3> QED
      BY <1>0, <3>1 DEF AccountStep, LatestStep
  <2>2. ASSUME NEW i \in 1..n, outbox'[u][i].kind = "latest"
        PROVE  i + d \in 1..m /\ outbox[u][i + d].kind = "latest"
    <3>1. i \in 1..(m - d)
      BY <1>8, <2>2
    <3> QED
      BY <1>1, <1>3, <1>5, <2>2, <3>1 DEF Follows
  <2>3. ~(u = c /\ outbox[u][1].kind = "user")
    BY <1>0, <1>1, <1>4, <1>6 DEF AccountSound
  <2>4. CASE /\ users[u].latest = latest[u]
             /\ \A i \in 1..m : outbox[u][i].kind # "latest"
    <3>1. \A i \in 1..n : outbox'[u][i].kind # "latest"
      BY <2>2, <2>4
    <3>2. users'[u].latest = users[u].latest
      BY <1>0, <1>4, <2>3, <2>4 DEF AccountStep, DocStep
    <3> QED
      BY <1>2, <2>1, <2>4, <3>1, <3>2 DEF LatestComing
  <2>5. ASSUME NEW i \in 1..m, outbox[u][i].kind = "latest", outbox[u][i].task = latest[u],
               \A j \in (i + 1)..m : outbox[u][j].kind # "latest"
        PROVE  LatestComing(u)'
    <3>1. ASSUME NEW j \in 1..n, outbox'[u][j].kind = "latest" PROVE j + d <= i
      <4>1. j + d \in 1..m /\ outbox[u][j + d].kind = "latest"
        BY <2>2, <3>1
      <4> QED
        BY <2>5, <4>1
    <3>2. CASE i > d
      <4>1. i - d \in 1..(m - d) /\ (i - d) + d = i
        BY <3>2
      <4>2. outbox'[u][i - d].kind = "latest" /\ outbox'[u][i - d].task = latest'[u]
        BY <1>1, <1>3, <1>5, <2>1, <2>5, <4>1 DEF Follows
      <4>3. i - d \in 1..n
        BY <1>1, <1>2, <1>3, <1>5, <4>1 DEF Follows
      <4>4. \A j \in (i - d + 1)..n : outbox'[u][j].kind # "latest"
        BY <3>1, <4>3
      <4> QED
        BY <1>2, <4>2, <4>3, <4>4 DEF LatestComing
    <3>3. CASE i = 1 /\ d = 1
      <4>1. u = c /\ users'[u].latest = latest'[u]
        BY <1>0, <1>3, <1>6, <2>1, <2>5, <3>3 DEF AccountStep, DocStep
      <4>2. \A j \in 1..n : outbox'[u][j].kind # "latest"
        BY <3>1, <3>3
      <4> QED
        BY <1>2, <4>1, <4>2 DEF LatestComing
    <3> QED
      BY <3>2, <3>3
  <2>6. latest[u] \notin cut \cup {NoTask}
    BY <1>0, <2>1 DEF AccountStep
  <2> QED
    BY <1>0, <1>1, <1>6, <2>4, <2>5, <2>6 DEF LatestComing
<1> QED
  BY <1>7, <1>8

(* The initial states satisfy the invariant about the latest task.         *)
LEMMA InitLatestInv == Init => LatestInv
<1> SUFFICES ASSUME Init PROVE LatestInv
  OBVIOUS
<1>1. FetchInv
  BY InitFetchInv
<1>2. /\ saving = {} /\ registered = {}
      /\ \A u \in Users : /\ outbox[u] = <<>> /\ latest[u] = NoTask /\ users[u] = NoUser
                          /\ reception[u].task = NoTask
  BY DEF Init, Closed
<1>3. AccountsSound
  <2> SUFFICES ASSUME NEW u \in Users PROVE AccountSound(u)
    BY DEF AccountsSound
  <2>1. /\ outbox[u] = <<>> /\ latest[u] = NoTask /\ users[u] = NoUser
    BY <1>2
  <2>2. Len(outbox[u]) = 0
    BY ONLY <2>1
  <2>3. \A i \in 1..Len(outbox[u]) : FALSE
    BY <2>2
  <2> QED
    BY <1>2, <2>1, <2>3 DEF AccountSound
<1>4. LatestIsPosted /\ LatestOnItsWay
  BY <1>2 DEF LatestIsPosted, LatestOnItsWay, LatestComing
<1> QED
  BY <1>1, <1>3, <1>4 DEF LatestInv

(* Every step keeps it.                                                    *)
LEMMA NextLatestInv == LatestInv /\ [Next]_vars => LatestInv'
<1> SUFFICES ASSUME LatestInv, [Next]_vars PROVE LatestInv'
  OBVIOUS
<1>1. FetchInv /\ FetchInv' /\ TypeInv /\ TypeInv'
  BY NextFetchInv DEF LatestInv, FetchInv
<1>2. PICK c \in Users \cup {NoUser} :
        ServerStep(c) /\ \A u \in Users : QueueStep(u, c) /\ AccountStep(u, c)
  BY <1>1, StepShape
<1> QED
  BY <1>1, <1>2, NextAccountsSound, NextLatestIsPosted, NextLatestOnItsWay DEF LatestInv

(* The latest task a device or a user document names is the user's own and *)
(* stored, and the two agree whenever the device has no write under way:   *)
(* postTask's two writes, the second issued from the completion handler of *)
(* the first, do not drift apart.                                          *)
THEOREM LatestStaysSound == Spec => []LatestSound
<1>1. LatestInv => LatestSound
  <2> SUFFICES ASSUME LatestInv PROVE LatestAgreesWhenQuiet
    BY DEF LatestInv, LatestSound
  <2> SUFFICES ASSUME NEW u \in Users \ AppleUsers, outbox[u] = <<>>,
                      latest[u] \notin cut \cup {NoTask}, users[u] # NoUser
               PROVE  users[u].latest = latest[u]
    BY DEF LatestAgreesWhenQuiet
  <2>1. LatestComing(u) /\ Len(outbox[u]) = 0
    BY DEF LatestInv, LatestOnItsWay
  <2> QED
    BY <2>1 DEF LatestComing
<1> QED
  BY <1>1, InitLatestInv, NextLatestInv, PTL DEF Spec

-----------------------------------------------------------------------------
(***************************************************************************)
(* Friendship.                                                             *)
(***************************************************************************)
(* The completer a reception page shows replied to the task it shows.      *)
CompleterReplied(u) ==
  LET p == reception[u] IN
  p.completer # NoUser =>
    p.task # NoTask /\ (p.completer = u \/ p.completer \in responses[p.task])

CompletersReplied == \A u \in Users : CompleterReplied(u)

FriendsInv == LatestInv /\ CompletersReplied /\ FriendsSound

(* Replies are never withdrawn, and a poster stays one.                    *)
LEMMA RepliesStay ==
  ASSUME TypeInv, [Next]_vars, NEW t \in TaskIds
  PROVE  /\ responses[t] \subseteq responses'[t]
         /\ author[t] # NoUser => author'[t] = author[t]
<1>1. PICK c \in Users \cup {NoUser} : ServerStep(c)
  BY StepShape
<1> QED
  BY <1>1 DEF ServerStep

(* What the reception page shows stays a reply to its task.                *)
LEMMA NextCompletersReplied ==
  ASSUME FetchInv, LatestIsPosted, CompletersReplied, [Next]_vars
  PROVE  CompletersReplied'
<1> SUFFICES ASSUME NEW u \in Users, reception'[u].completer # NoUser
             PROVE  /\ reception'[u].task # NoTask
                    /\ \/ reception'[u].completer = u
                       \/ reception'[u].completer \in responses'[reception'[u].task]
  BY DEF CompletersReplied, CompleterReplied
<1>0. TypeInv /\ TypeOK /\ AsksForTask
  BY DEF FetchInv, TypeInv
<1>1. reception[u].task \in TaskIds \cup {NoTask}
  <2>1. reception[u] \in Reception
    BY <1>0 DEF TypeOK
  <2> QED
    BY <2>1 DEF Reception
<1>2. CASE reception'[u] = reception[u]
  BY <1>0, <1>1, <1>2, RepliesStay DEF CompletersReplied, CompleterReplied
<1>3. /\ Closed.completer = NoUser /\ [Closed EXCEPT !.stage = "askUser"].completer = NoUser
  BY DEF Closed
<1>4. ASSUME NEW v, NEW t PROVE
        /\ [stage |-> "shown", task |-> t, completer |-> v].completer = v
        /\ [stage |-> "shown", task |-> t, completer |-> v].task = t
        /\ [stage |-> "askResponses", task |-> t, completer |-> v].completer = v
  OBVIOUS
<1>5. ASSUME NEW v \in Decoded(u, reception[u].task), reception[u].stage = "askResponses",
             reception'[u] = [stage |-> "shown", task |-> reception[u].task, completer |-> v]
      PROVE  /\ reception'[u].task # NoTask
             /\ \/ reception'[u].completer = u
                \/ reception'[u].completer \in responses'[reception'[u].task]
  <2>1. reception[u].task # NoTask /\ reception[u].task \in TaskIds
    BY <1>0, <1>1, <1>5 DEF AsksForTask
  <2>2. outbox[u] \in Seq(Write)
    BY <1>0 DEF TypeOK
  <2>3. ASSUME NEW j \in DOMAIN outbox[u], outbox[u][j].kind = "response"
        PROVE  outbox[u][j].by = u
    <3>1. j \in 1..Len(outbox[u])
      BY <2>2
    <3> QED
      BY <2>3, <3>1 DEF FetchInv, WritesSound, WriteSound
  <2>4. v = u \/ v \in responses[reception[u].task]
    BY <2>3 DEF Decoded
  <2>5. v = u \/ v \in responses'[reception[u].task]
    BY <1>0, <2>1, <2>4, RepliesStay
  <2> QED
    BY <1>4, <1>5, <2>1, <2>5
<1>6. \/ reception'[u] \in {reception[u], Closed, [Closed EXCEPT !.stage = "askUser"]}
      \/ \E t : reception'[u] = [stage |-> "askResponses", task |-> t, completer |-> NoUser]
      \/ \E t : reception'[u] = [stage |-> "shown", task |-> t, completer |-> NoUser]
      \/ \E v \in Decoded(u, reception[u].task) :
            /\ reception[u].stage = "askResponses"
            /\ reception'[u] = [stage |-> "shown", task |-> reception[u].task,
                                completer |-> v]
  BY <1>0, ReceptionStep, Zenon
<1>7. CASE reception'[u] \in {Closed, [Closed EXCEPT !.stage = "askUser"]}
  BY <1>3, <1>7
<1>8. CASE \E t : \/ reception'[u] = [stage |-> "askResponses", task |-> t,
                                       completer |-> NoUser]
                 \/ reception'[u] = [stage |-> "shown", task |-> t, completer |-> NoUser]
  BY <1>4, <1>8
<1> QED
  BY <1>2, <1>5, <1>6, <1>7, <1>8

(* What a step does to the friends in the document of u.                   *)
FriendsStep(u) ==
  \/ users'[u] = users[u]
  \/ /\ users'[u] # NoUser /\ users'[u].friends = {}
     /\ u \notin AppleUsers => users[u] = NoUser
  \/ users[u] # NoUser /\ users'[u] # NoUser /\ users'[u].friends = users[u].friends

(* A document changes by a commit or by addFriend.                         *)
LEMMA DocumentsStep ==
  ASSUME LatestInv, [Next]_vars
  PROVE  \/ \A u \in Users : FriendsStep(u)
         \/ \E x \in Users : Agree(x)
<1> USE DEF accountVars, taskVars, serverVars, deviceVars, pageVars, diskVars
<1>0. TypeOK /\ TypeOK' /\ users \in [Users -> UserDoc \cup {NoUser}]
  BY NextTypeOK DEF LatestInv, FetchInv, TypeInv, TypeOK
<1>1. ASSUME UNCHANGED users, NEW u \in Users PROVE FriendsStep(u)
  BY <1>1 DEF FriendsStep
<1>2. ASSUME NEW c \in Users, Commit(c), NEW u \in Users PROVE FriendsStep(u)
  <2> DEFINE w == Head(outbox[c])
  <2>1. /\ outbox[c] # <<>> /\ w = outbox[c][1] /\ w \in Write /\ 1 \in 1..Len(outbox[c])
    <3>1. outbox[c] # <<>>
      BY <1>2, CommitEffect
    <3> QED
      BY <1>0, <3>1, OldestWrite
  <2>2. CASE users' = users
    BY <1>1, <2>2
  <2>3. CASE w.kind = "user" /\ users' = [users EXCEPT ![c] = BlankUser]
    <3>1. BlankUser \in UserDoc /\ BlankUser.friends = {}
      BY DEF BlankUser, UserDoc
    <3>2. c \notin AppleUsers => users[c] = NoUser
      BY <2>1, <2>3 DEF LatestInv, AccountsSound, AccountSound
    <3> QED
      BY <1>0, <2>3, <3>1, <3>2, NoDocument DEF FriendsStep
  <2>4. CASE /\ w.kind = "latest" /\ users[c] # NoUser
             /\ users' = [users EXCEPT ![c] = [users[c] EXCEPT !.latest = w.task]]
    <3>1. users[c] \in UserDoc /\ w.task \in TaskIds \cup {NoTask}
      BY <1>0, <2>1, <2>4 DEF Write
    <3>2. /\ [users[c] EXCEPT !.latest = w.task] \in UserDoc
          /\ [users[c] EXCEPT !.latest = w.task].friends = users[c].friends
      BY <3>1, DocTypes
    <3>3. CASE u = c
      BY <1>0, <2>4, <3>2, <3>3, NoDocument DEF FriendsStep
    <3> QED
      BY <1>0, <2>4, <3>3 DEF FriendsStep
  <2> QED
    BY <1>2, <2>2, <2>3, <2>4, CommitEffect
<1>3. ASSUME NEW x \in Users, Receive(x), ~Agree(x) PROVE UNCHANGED users
  BY <1>3 DEF Receive, OpenReception, LatestFromUserDoc, ResponsesCallback
<1>4. ASSUME NEW x \in Users, NEW r \in Ranks \cup {0}, Answer(x, r) PROVE UNCHANGED users
  BY <1>4 DEF Answer
<1>5. ASSUME NEW x \in Users,
             Launch(x) \/ Reinstall(x) \/ CutShort(x) \/ FetchCallback(x) \/ ReplyTask(x)
             \/ (\E t \in TaskIds, r \in Ranks : PostTask(x, t, r))
             \/ \E y \in TaskIds : Refresh(x, y)
      PROVE  UNCHANGED users
  BY <1>5 DEF Launch, Reinstall, CutShort, FetchCallback, ReplyTask, PostTask, Refresh
<1>6. \/ UNCHANGED users \/ \E x \in Users : Commit(x) \/ Agree(x)
  BY <1>3, <1>4, <1>5 DEF Next, vars, Midnight, Register, Login, SignInWithApple,
    SaveUserInfo, OpenTasks, ShouldSelect
<1> QED
  BY <1>1, <1>2, <1>6

(* Friends come from a task, and stay so.                                  *)
LEMMA NextFriendsThroughATask ==
  ASSUME FriendsInv, [Next]_vars
  PROVE  FriendsThroughATask'
<1> DEFINE Met(u, v) == \E t \in TaskIds : \/ author[t] = u /\ v \in responses[t]
                                           \/ author[t] = v /\ u \in responses[t]
<1>0. /\ LatestInv /\ TypeInv /\ TypeOK /\ FriendsThroughATask
      /\ users \in [Users -> UserDoc \cup {NoUser}]
  BY DEF FriendsInv, LatestInv, FetchInv, FriendsSound, TypeInv, TypeOK
<1>1. ASSUME NEW u \in Users, NEW v \in Users, Met(u, v) PROVE Met(u, v)'
  BY <1>0, <1>1, RepliesStay
<1>2. ASSUME NEW u \in Users, users[u] # NoUser, NEW v \in users[u].friends
      PROVE  v \in Users /\ (u # v => Met(u, v))
  <2>1. users[u] \in UserDoc
    BY <1>0, <1>2
  <2>2. v \in Users
    BY <1>2, <2>1 DEF UserDoc
  <2> QED
    BY <1>0, <1>2, <2>2 DEF FriendsThroughATask
<1> SUFFICES ASSUME NEW u \in Users, users'[u] # NoUser, NEW v \in users'[u].friends, u # v
             PROVE  Met(u, v)'
  BY DEF FriendsThroughATask
<1>3. CASE users[u] # NoUser /\ v \in users[u].friends
  BY <1>1, <1>2, <1>3
<1>4. CASE \A x \in Users : FriendsStep(x)
  BY <1>3, <1>4 DEF FriendsStep
<1>5. ASSUME NEW x \in Users, Agree(x) PROVE Met(u, v)'
  <2>1. PICK y \in Users : /\ y = reception[x].completer /\ users[x] # NoUser /\ users[y] # NoUser
                           /\ IF u \in {x, y}
                              THEN users'[u].friends =
                                     users[u].friends \cup (IF u = x THEN {y} ELSE {})
                                                      \cup (IF u = y THEN {x} ELSE {})
                              ELSE users'[u] = users[u]
    BY <1>0, <1>5, BefriendedDoc
  <2>2. CASE u \notin {x, y} \/ v \notin {x, y}
    BY <1>3, <2>1, <2>2
  <2>3. CASE {u, v} = {x, y}
    <3>1. x # y
      BY <2>3
    <3>2. PICK t : t = reception[x].task
      OBVIOUS
    <3>3. t # NoTask /\ y \in responses[t]
      BY <2>1, <3>1, <3>2 DEF FriendsInv, CompletersReplied, CompleterReplied
    <3>4. author[t] = x
      BY <3>2, <3>3 DEF FriendsInv, LatestInv, LatestIsPosted
    <3>5. t \in TaskIds
      <4>1. reception[x] \in Reception
        BY <1>0 DEF TypeOK
      <4> QED
        BY <3>2, <3>3, <4>1 DEF Reception
    <3>6. Met(u, v)
      BY <2>3, <3>1, <3>3, <3>4, <3>5
    <3>7. v \in Users
      BY <2>3
    <3> QED
      BY <1>1, <3>6, <3>7
  <2>4. CASE u \in {x, y} /\ v \in {x, y}
    BY <2>3, <2>4
  <2> QED
    BY <2>2, <2>4
<1> QED
  BY <1>0, <1>4, <1>5, DocumentsStep

(* Friendship stays mutual.                                                *)
LEMMA NextFriendsMutual ==
  ASSUME FriendsInv, [Next]_vars
  PROVE  FriendsMutual'
<1>0. LatestInv /\ TypeOK /\ FriendsMutual
  BY DEF FriendsInv, LatestInv, FetchInv, FriendsSound, TypeInv
<1> SUFFICES ASSUME NEW u \in Users, NEW v \in Users, users'[u] # NoUser,
                    v \in users'[u].friends, v \notin AppleUsers
             PROVE  users'[v] # NoUser /\ u \in users'[v].friends
  BY DEF FriendsMutual
<1>1. ASSUME users[u] # NoUser, v \in users[u].friends
      PROVE  users[v] # NoUser /\ u \in users[v].friends
  BY <1>0, <1>1 DEF FriendsMutual
<1>2. CASE \A x \in Users : FriendsStep(x)
  <2>1. users[u] # NoUser /\ v \in users[u].friends
    BY <1>2 DEF FriendsStep
  <2> QED
    BY <1>1, <1>2, <2>1 DEF FriendsStep
<1>3. ASSUME NEW x \in Users, Agree(x)
      PROVE  users'[v] # NoUser /\ u \in users'[v].friends
  <2>1. PICK y \in Users : y = reception[x].completer
    BY <1>0, <1>3, BefriendedDoc
  <2>2. /\ users[x] # NoUser /\ users[y] # NoUser
        /\ \A z \in Users :
             IF z \in {x, y}
             THEN /\ users'[z] # NoUser
                  /\ users'[z].friends = users[z].friends \cup (IF z = x THEN {y} ELSE {})
                                                          \cup (IF z = y THEN {x} ELSE {})
             ELSE users'[z] = users[z]
    BY <1>0, <1>3, <2>1, BefriendedDoc, NoDocument
  <2>3. CASE users[u] # NoUser /\ v \in users[u].friends
    BY <1>1, <2>2, <2>3
  <2>4. CASE (u = x /\ v = y) \/ (u = y /\ v = x)
    BY <2>2, <2>4
  <2> QED
    BY <2>2, <2>3, <2>4
<1> QED
  BY <1>0, <1>2, <1>3, DocumentsStep

(* Two users are friends only through a task one posted and the other      *)
(* replied to, and, for email accounts, mutually: addFriend is reached     *)
(* with a stale reception page, after restarts and while documents are     *)
(* still being written, and never breaks this.                             *)
THEOREM FriendsStaySound == Spec => []FriendsSound
<1>1. Init => FriendsInv
  <2> SUFFICES ASSUME Init PROVE CompletersReplied /\ FriendsSound
    BY InitLatestInv DEF FriendsInv
  <2>1. \A u \in Users : users[u] = NoUser /\ reception[u].completer = NoUser
    BY DEF Init, Closed
  <2> QED
    BY <2>1 DEF CompletersReplied, CompleterReplied, FriendsSound, FriendsThroughATask,
      FriendsMutual
<1>2. FriendsInv /\ [Next]_vars => FriendsInv'
  <2> SUFFICES ASSUME FriendsInv, [Next]_vars PROVE FriendsInv'
    OBVIOUS
  <2>1. LatestInv /\ FetchInv /\ LatestIsPosted /\ CompletersReplied
    BY DEF FriendsInv, LatestInv
  <2> QED
    BY <2>1, NextLatestInv, NextCompletersReplied, NextFriendsThroughATask,
       NextFriendsMutual DEF FriendsInv, FriendsSound
<1>3. FriendsInv => FriendsSound
  BY DEF FriendsInv
<1> QED
  BY <1>1, <1>2, <1>3, PTL DEF Spec
=============================================================================
