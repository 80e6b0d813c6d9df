--------------------------- MODULE AddFriendProofs ---------------------------
(***************************************************************************)
(* Proofs about AddFriend, for any users, requests, attempts and writes:   *)
(* the versions recorded by a transaction make its writes atomic.          *)
(***************************************************************************)
EXTENDS AddFriend, TLAPS

USE AttemptAssumption

(* Poster and completer of a request are users.                            *)
LEMMA PairTypes ==
  ASSUME TypeOK, NEW r \in Request
  PROVE  Poster(r) \in User /\ Completer(r) \in User /\ Keys(r) \subseteq User
BY DEF TypeOK, Poster, Completer, Keys

(* The initial states satisfy the invariant.                               *)
LEMMA InitCopyInv == Init => CopyInv
<1> SUFFICES ASSUME Init PROVE CopyInv
  OBVIOUS
<1>1. TypeOK
  BY DEF Init, TypeOK, Phase, Copy, NothingRead, Unread
<1>2. IdleHasAttempts
  BY DEF Init, IdleHasAttempts
<1>3. CopiesFaithful
  BY <1>1 DEF Init, TypeOK, CopiesFaithful, Faithful, NothingRead, Unread
<1> QED
  BY <1>1, <1>2, <1>3 DEF CopyInv

(* The runner's decision after an error keeps the types and the count.     *)
LEMMA ErrorStep ==
  ASSUME CopyInv, NEW r \in Request, phase[r] # "idle", NEW error,
         HandleTransactionError(r, error)
  PROVE  /\ phase' \in [Request -> Phase]
         /\ attempts' \in [Request -> 0..MaxAttempts]
         /\ result' \in [Request -> {"none", "done", "failed"}]
         /\ IdleHasAttempts'
<1> USE DEF CopyInv, TypeOK, IdleHasAttempts, Phase, Becomes
<1>1. CASE CanRetry(r, error) /\ Run(r) /\ UNCHANGED result
  BY <1>1 DEF CanRetry, Run
<1>2. CASE ResultCallback(r, "failed") /\ UNCHANGED attempts
  BY <1>2 DEF ResultCallback
<1> QED
  BY <1>1, <1>2 DEF HandleTransactionError

(* What a step does to the copies: those it keeps it does not change, and  *)
(* those it makes are of the document as it is.                            *)
LEMMA CopiesFollow ==
  ASSUME CopyInv, UNCHANGED doc,
         seen' \in [Request -> [User -> Copy]],
         \A r \in Request, u \in User :
           seen'[r][u] \in {seen[r][u], doc[u], Unread},
         \A m \in wire' : m \in wire \/ \A u \in User :
           \E r \in Request : m.base[u] \in {seen[r][u], doc[u]}
  PROVE  CopiesFaithful'
<1> SUFFICES ASSUME NEW u \in User
             PROVE  /\ \A r \in Request : Faithful(seen'[r][u], doc[u])
                    /\ \A m \in wire' : Faithful(m.base[u], doc[u])
  BY DEF CopiesFaithful
<1>1. doc[u].version \in Nat
  BY DEF CopyInv, TypeOK
<1>2. Faithful(doc[u], doc[u]) /\ Faithful(Unread, doc[u])
  BY <1>1 DEF Faithful, Unread
<1>3. /\ \A r \in Request : Faithful(seen[r][u], doc[u])
      /\ \A m \in wire : Faithful(m.base[u], doc[u])
  BY DEF CopyInv, CopiesFaithful
<1>4. \A r \in Request : Faithful(seen'[r][u], doc[u])
  <2> TAKE r \in Request
  <2> seen'[r][u] \in {seen[r][u], doc[u], Unread}
    OBVIOUS
  <2> QED
    BY <1>2, <1>3
<1>5. \A m \in wire' : Faithful(m.base[u], doc[u])
  <2> TAKE m \in wire'
  <2>1. CASE m \in wire
    BY <1>3, <2>1
  <2>2. CASE m \notin wire
    <3>1. PICK r \in Request : m.base[u] \in {seen[r][u], doc[u]}
      BY <2>2
    <3> QED
      BY <1>2, <1>3, <3>1
  <2> QED
    BY <2>1, <2>2
<1> QED
  BY <1>4, <1>5

(* Documents change only with a new version, so old copies stay faithful.  *)
LEMMA NewVersion ==
  ASSUME CopyInv,
         \A u \in User : doc'[u] = doc[u] \/ doc'[u].version = doc[u].version + 1,
         UNCHANGED seen, wire' \subseteq wire
  PROVE  CopiesFaithful'
<1> SUFFICES ASSUME NEW u \in User
             PROVE  /\ \A r \in Request : Faithful(seen[r][u], doc'[u])
                    /\ \A m \in wire : Faithful(m.base[u], doc'[u])
  BY DEF CopiesFaithful
<1>1. doc[u].version \in Nat
  BY DEF CopyInv, TypeOK
<1>2. \A copy \in Copy : Faithful(copy, doc[u]) => Faithful(copy, doc'[u])
  BY <1>1 DEF Faithful, Copy
<1>3. /\ \A r \in Request : seen[r][u] \in Copy /\ Faithful(seen[r][u], doc[u])
      /\ \A m \in wire : m.base[u] \in Copy /\ Faithful(m.base[u], doc[u])
  BY DEF CopyInv, TypeOK, CopiesFaithful
<1> QED
  BY <1>2, <1>3

(* What the server does with a commit request: nothing, or both lists of   *)
(* the documents as they are grow by one friend.                           *)
LEMMA CommitEffect ==
  ASSUME CopyInv, NEW m \in wire, PreconditionsHold(m), Commits(m)
  PROVE  \/ UNCHANGED doc
         \/ /\ \A u \in Keys(m.r) : doc[u].version > 0
            /\ doc' = [u \in User |->
                 IF u \in Keys(m.r)
                 THEN [version |-> doc[u].version + 1,
                       friends |-> doc[u].friends
                         \cup (IF u = Poster(m.r) THEN {Completer(m.r)} ELSE {})
                         \cup (IF u = Completer(m.r) THEN {Poster(m.r)} ELSE {})]
                 ELSE doc[u]]
<1>1. m.r \in Request /\ m.base \in [User -> Copy]
  BY DEF CopyInv, TypeOK
<1>2. Keys(m.r) \subseteq User
  BY <1>1, PairTypes DEF CopyInv
<1>3. \A u \in Keys(m.r) : /\ m.base[u].version = doc[u].version
                           /\ m.base[u].friends = doc[u].friends
  BY <1>2 DEF PreconditionsHold, CopyInv, CopiesFaithful, Faithful
<1>4. CASE \A u \in Keys(m.r) : m.base[u].version > 0
  BY <1>2, <1>3, <1>4 DEF Commits, UpdatedFriends, Keys
<1>5. CASE ~(\A u \in Keys(m.r) : m.base[u].version > 0)
  BY <1>5 DEF Commits, CopyInv, TypeOK
<1> QED
  BY <1>4, <1>5

(* Every step keeps the invariant.                                         *)
LEMMA NextCopyInv == CopyInv /\ [Next]_vars => CopyInv'
<1> SUFFICES ASSUME CopyInv, [Next]_vars PROVE CopyInv'
  OBVIOUS
<1>0. TypeOK /\ IdleHasAttempts /\ CopiesFaithful
  BY DEF CopyInv
<1>0a. \A u \in User : doc[u] \in Copy /\ Unread \in Copy /\ NothingRead \in [User -> Copy]
  BY <1>0 DEF TypeOK, Copy, Unread, NothingRead
<1>1. ASSUME NEW r \in Request, RunTransaction(r) PROVE CopyInv'
  <2>1. TypeOK' /\ IdleHasAttempts'
    BY <1>0, <1>1 DEF RunTransaction, Run, Becomes, TypeOK, IdleHasAttempts, Phase
  <2>2. CopiesFaithful'
    BY <1>0, <1>1 DEF RunTransaction, CopiesFaithful
  <2> QED
    BY <2>1, <2>2 DEF CopyInv
<1>2. ASSUME NEW r \in Request, BackoffElapsed(r) PROVE CopyInv'
  <2>1. TypeOK' /\ IdleHasAttempts'
    BY <1>0, <1>2 DEF BackoffElapsed, Becomes, TypeOK, IdleHasAttempts, Phase
  <2>2. CopiesFaithful'
    BY <1>0, <1>2 DEF BackoffElapsed, CopiesFaithful
  <2> QED
    BY <2>1, <2>2 DEF CopyInv
<1>3. ASSUME NEW r \in Request, GetPosterDocument(r) PROVE CopyInv'
  <2>1. Poster(r) \in User
    BY <1>0, PairTypes
  <2>2. seen' \in [Request -> [User -> Copy]]
    BY <1>0, <1>0a, <1>3, <2>1 DEF GetPosterDocument, TypeOK
  <2>3. TypeOK' /\ IdleHasAttempts'
    BY <1>0, <1>3, <2>2
    DEF GetPosterDocument, Becomes, TypeOK, IdleHasAttempts, Phase
  <2>4. \A s \in Request, u \in User : seen'[s][u] \in {seen[s][u], doc[u], Unread}
    BY <1>0, <1>3, <2>1 DEF GetPosterDocument, TypeOK
  <2>5. UNCHANGED <<doc, wire>>
    BY <1>3 DEF GetPosterDocument
  <2>6. CopiesFaithful'
    BY <2>2, <2>4, <2>5, CopiesFollow
  <2> QED
    BY <2>3, <2>6 DEF CopyInv
<1>4. ASSUME NEW r \in Request, GetCompleterDocument(r) PROVE CopyInv'
  <2> DEFINE base == [seen[r] EXCEPT ![Completer(r)] = doc[Completer(r)]]
             m == [r |-> r, left |-> attempts[r], base |-> base]
  <2>1. Completer(r) \in User
    BY <1>0, PairTypes
  <2>2. base \in [User -> Copy] /\ \A u \in User : base[u] \in {seen[r][u], doc[u]}
    BY <1>0, <1>0a, <2>1 DEF TypeOK
  <2>3. seen' = [seen EXCEPT ![r] = NothingRead]
    BY <1>4 DEF GetCompleterDocument, FailsOn
  <2>4. /\ seen' \in [Request -> [User -> Copy]]
        /\ \A s \in Request, u \in User : seen'[s][u] \in {seen[s][u], doc[u], Unread}
    BY <1>0, <1>0a, <2>3 DEF TypeOK, NothingRead
  <2>5. UNCHANGED <<doc, pair, both, writes>>
    BY <1>4 DEF GetCompleterDocument
  <2>6. CASE /\ wire' = wire \cup {m} /\ Becomes(r, "sent")
             /\ UNCHANGED <<attempts, result>>
    <3> m \in [r : Request, left : 0..MaxAttempts, base : [User -> Copy]]
      BY <1>0, <2>2 DEF TypeOK
    <3> HIDE DEF base
    <3>1. TypeOK' /\ IdleHasAttempts'
      BY <1>0, <2>4, <2>5, <2>6 DEF TypeOK, IdleHasAttempts, Phase, Becomes
    <3>2. \A n \in wire' : n \in wire \/ \A u \in User :
            \E s \in Request : n.base[u] \in {seen[s][u], doc[u]}
      BY <2>2, <2>6
    <3>3. CopiesFaithful'
      BY <2>4, <2>5, <3>2, CopiesFollow
    <3> QED
      BY <3>1, <3>3 DEF CopyInv
  <2>7. CASE HandleTransactionError(r, "aborted") /\ UNCHANGED wire
    <3>1. phase[r] # "idle"
      BY <1>4 DEF GetCompleterDocument
    <3>2. TypeOK' /\ IdleHasAttempts'
      BY <1>0, <2>4, <2>5, <2>7, <3>1, ErrorStep DEF TypeOK
    <3>3. CopiesFaithful'
      BY <2>4, <2>5, <2>7, CopiesFollow
    <3> QED
      BY <3>2, <3>3 DEF CopyInv
  <2> QED
    BY <1>4, <2>6, <2>7 DEF GetCompleterDocument, FailsOn
<1>5. ASSUME NEW r \in Request, CallFails(r) PROVE CopyInv'
  <2>1. PICK error : HandleTransactionError(r, error)
    BY <1>5 DEF CallFails, FailsOn
  <2>2. /\ phase[r] # "idle" /\ wire' \subseteq wire
        /\ UNCHANGED <<doc, pair, both, writes>>
        /\ seen' = [seen EXCEPT ![r] = NothingRead]
    BY <1>5 DEF CallFails, FailsOn
  <2>3. /\ seen' \in [Request -> [User -> Copy]]
        /\ \A s \in Request, u \in User : seen'[s][u] \in {seen[s][u], doc[u], Unread}
    BY <1>0, <1>0a, <2>2 DEF TypeOK, NothingRead
  <2>4. TypeOK' /\ IdleHasAttempts'
    BY <1>0, <2>1, <2>2, <2>3, ErrorStep DEF TypeOK
  <2>5. CopiesFaithful'
    BY <2>2, <2>3, CopiesFollow
  <2> QED
    BY <2>4, <2>5 DEF CopyInv
<1>6. ASSUME NEW r \in Request, DispatchResult(r) PROVE CopyInv'
  <2>1. UNCHANGED <<doc, pair, seen, wire, both, writes>>
    BY <1>6 DEF DispatchResult
  <2>4. TypeOK' /\ IdleHasAttempts'
    <3>1. CASE phase[r] = "applied" /\ ResultCallback(r, "done") /\ UNCHANGED attempts
      BY <1>0, <2>1, <3>1
      DEF ResultCallback, Becomes, TypeOK, IdleHasAttempts, Phase
    <3>2. CASE phase[r] = "refused" /\ HandleTransactionError(r, "aborted")
      BY <1>0, <2>1, <3>2, ErrorStep DEF TypeOK
    <3> QED
      BY <1>6, <3>1, <3>2 DEF DispatchResult
  <2>5. CopiesFaithful'
    BY <1>0, <2>1 DEF CopiesFaithful
  <2> QED
    BY <2>4, <2>5 DEF CopyInv
<1>7. ASSUME NEW m \in wire, ServerCommit(m) PROVE CopyInv'
  <2>1. UNCHANGED <<pair, attempts, seen, result, both, writes>> /\ wire' \subseteq wire
    BY <1>7 DEF ServerCommit
  <2>2. m.r \in Request
    BY <1>0 DEF TypeOK
  <2>3. phase' \in [Request -> Phase] /\ IdleHasAttempts'
    <3>1. phase' = phase \/ \E a \in {"applied", "refused"} : Becomes(m.r, a)
      BY <1>7 DEF ServerCommit, AnswersTo
    <3> QED
      BY <1>0, <2>1, <2>2, <3>1 DEF Becomes, TypeOK, IdleHasAttempts, Phase
  <2>4. /\ doc' \in [User -> [version : Nat, friends : SUBSET User]]
        /\ \A u \in User : doc'[u] = doc[u] \/ doc'[u].version = doc[u].version + 1
    <3>1. CASE UNCHANGED doc
      BY <1>0, <3>1 DEF TypeOK
    <3>2. CASE PreconditionsHold(m) /\ Commits(m)
      <4>1. /\ Poster(m.r) \in User /\ Completer(m.r) \in User
            /\ doc \in [User -> [version : Nat, friends : SUBSET User]]
        BY <1>0, <2>2, PairTypes DEF TypeOK
      <4>2. CASE doc' = [u \in User |->
                   IF u \in Keys(m.r)
                   THEN [version |-> doc[u].version + 1,
                         friends |-> doc[u].friends
                           \cup (IF u = Poster(m.r) THEN {Completer(m.r)} ELSE {})
                           \cup (IF u = Completer(m.r) THEN {Poster(m.r)} ELSE {})]
                   ELSE doc[u]]
        BY <4>1, <4>2
      <4> QED
        BY <3>1, <3>2, <4>2, CommitEffect
    <3> QED
      BY <1>7, <3>1, <3>2 DEF ServerCommit
  <2>5. TypeOK'
    BY <1>0, <2>1, <2>3, <2>4 DEF TypeOK
  <2>6. CopiesFaithful'
    BY <2>1, <2>4, NewVersion
  <2> QED
    BY <2>3, <2>5, <2>6 DEF CopyInv
<1>8. ASSUME NEW u \in User, OtherWrite(u) PROVE CopyInv'
  <2>0. doc' \in [User -> [version : Nat, friends : SUBSET User]]
    <3>1. doc' = [doc EXCEPT ![u] = [doc[u] EXCEPT !.version = @ + 1]]
      BY <1>8 DEF OtherWrite
    <3>2. doc[u] \in [version : Nat, friends : SUBSET User]
      BY <1>0 DEF TypeOK
    <3>3. [doc[u] EXCEPT !.version = @ + 1] \in [version : Nat, friends : SUBSET User]
      BY ONLY <3>2
    <3> QED
      BY <1>0, <3>1, <3>3 DEF TypeOK
  <2>1a. /\ writes' \in 0..MaxWrites
         /\ UNCHANGED <<pair, phase, attempts, seen, wire, result, both>>
    BY <1>0, <1>8 DEF OtherWrite, TypeOK
  <2>1. TypeOK' /\ IdleHasAttempts'
    BY <1>0, <2>0, <2>1a DEF TypeOK, IdleHasAttempts
  <2>2. \A v \in User : doc'[v] = doc[v] \/ doc'[v].version = doc[v].version + 1
    BY <1>0, <1>8 DEF OtherWrite, TypeOK
  <2>3. CopiesFaithful'
    BY <1>8, <2>2, NewVersion DEF OtherWrite
  <2> QED
    BY <2>1, <2>3 DEF CopyInv
<1>9. CASE UNCHANGED vars
  BY <1>0, <1>9
  DEF vars, CopyInv, TypeOK, IdleHasAttempts, CopiesFaithful
<1> QED
  BY <1>1, <1>2, <1>3, <1>4, <1>5, <1>6, <1>7, <1>8, <1>9 DEF Next, Step

(* The state of AddFriend is well typed, and no runner uses more attempts  *)
(* than it was given.                                                      *)
THEOREM TypeCorrect == Spec => []TypeOK
<1>1. CopyInv => TypeOK
  BY DEF CopyInv
<1> QED
  BY InitCopyInv, NextCopyInv, <1>1, PTL DEF Spec

(* A copy that still has its document's version is the document, in every  *)
(* attempt of a transaction and in every commit request, also a late one.  *)
THEOREM CopiesStayFaithful == Spec => []CopyInv
BY InitCopyInv, NextCopyInv, PTL DEF Spec

-----------------------------------------------------------------------------
(***************************************************************************)
(* The lists change as Friendship says.                                    *)
(***************************************************************************)
Present == {u \in User : doc[u].version > 0}
Friends == [u \in User |-> doc[u].friends]

(* A commit that is applied is one step of Friendship, whatever the copies *)
(* it was computed from.                                                   *)
LEMMA CommitBefriends ==
  ASSUME CopyInv, NEW m \in wire, PreconditionsHold(m), Commits(m)
  PROVE  \/ UNCHANGED doc
         \/ \E u, v \in User : Lists!Befriend(u, v)
<1> DEFINE p == Poster(m.r)
           q == Completer(m.r)
<1>1. CASE UNCHANGED doc
  BY <1>1
<1>2. CASE ~(UNCHANGED doc)
  <2>1. p \in User /\ q \in User /\ Keys(m.r) = {p, q}
    BY PairTypes DEF CopyInv, TypeOK, Keys
  <2>2. /\ \A u \in Keys(m.r) : doc[u].version > 0
        /\ doc' = [u \in User |->
             IF u \in Keys(m.r)
             THEN [version |-> doc[u].version + 1,
                   friends |-> doc[u].friends
                     \cup (IF u = p THEN {q} ELSE {})
                     \cup (IF u = q THEN {p} ELSE {})]
             ELSE doc[u]]
    BY <1>2, CommitEffect
  <2> HIDE DEF p, q
  <2>3. \A u \in User : doc[u].version \in Nat
    BY DEF CopyInv, TypeOK
  <2>4. {p, q} \subseteq Present /\ Present' = Present
    BY <2>1, <2>2, <2>3 DEF Present
  <2>5. Friends' = [w \in User |-> Friends[w]
          \cup {x \in {p, q} : <<w, x>> \in {<<p, q>>, <<q, p>>}}]
    BY <2>1, <2>2 DEF Friends
  <2>6. PICK u \in User, v \in User : u = p /\ v = q
    BY <2>1
  <2>7. Lists!Befriend(u, v)
    BY <2>4, <2>5, <2>6 DEF Lists!Befriend, Present, Friends
  <2> QED
    BY <2>7
<1> QED
  BY <1>1, <1>2

(* Every step is a step of Friendship or leaves the lists alone.           *)
LEMMA NextBefriends ==
  CopyInv /\ [Next]_vars => [Lists!Next]_(Lists!vars)
<1> SUFFICES ASSUME CopyInv, [Next]_vars PROVE [Lists!Next]_(Lists!vars)
  OBVIOUS
<1>1. CASE UNCHANGED doc
  BY <1>1 DEF Lists!vars
<1>2. ASSUME NEW m \in wire, ServerCommit(m), ~(UNCHANGED doc)
      PROVE  Lists!Next
  <2>1. PreconditionsHold(m) /\ Commits(m)
    BY <1>2 DEF ServerCommit
  <2> QED
    BY <1>2, <2>1, CommitBefriends DEF Lists!Next
<1>3. ASSUME NEW u \in User, OtherWrite(u) PROVE Lists!Next
  <2>1. \A w \in User : /\ doc[w].version \in Nat
                        /\ doc'[w].friends = doc[w].friends
                        /\ doc'[w].version = IF w = u THEN doc[w].version + 1
                                             ELSE doc[w].version
    BY <1>3 DEF OtherWrite, CopyInv, TypeOK
  <2>2. Lists!Create(u)
    BY <2>1 DEF Lists!Create
  <2> QED
    BY <2>2 DEF Lists!Next
<1> QED
  BY <1>1, <1>2, <1>3
  DEF Next, Step, RunTransaction, BackoffElapsed, GetPosterDocument,
      GetCompleterDocument, CallFails, DispatchResult, vars

(* The initial documents have no friends.                                  *)
LEMMA InitLists == Init => Lists!Init
BY DEF Init, Lists!Init

(* addFriend, with all its attempts, failures and late commits, implements *)
(* Friendship: friendships are entered whole and none is ever lost.        *)
THEOREM ImplementsFriendship == Spec => AtomicFriendship
BY InitCopyInv, NextCopyInv, InitLists, NextBefriends, PTL
DEF Spec, AtomicFriendship, Lists!Spec

(* Steps of Friendship keep friendship mutual.                             *)
LEMMA MutualStep ==
  FriendsMutual /\ [Lists!Next]_(Lists!vars) => FriendsMutual'
<1> SUFFICES ASSUME FriendsMutual, [Lists!Next]_(Lists!vars)
             PROVE  FriendsMutual'
  OBVIOUS
<1> USE DEF FriendsMutual, Lists!Mutual
<1>1. CASE UNCHANGED Lists!vars
  BY <1>1 DEF Lists!vars
<1>2. ASSUME NEW u \in User, Lists!Create(u) PROVE FriendsMutual'
  BY <1>2 DEF Lists!Create
<1>3. ASSUME NEW u \in User, NEW v \in User, Lists!Befriend(u, v)
      PROVE  FriendsMutual'
  BY <1>3 DEF Lists!Befriend
<1> QED
  BY <1>1, <1>2, <1>3 DEF Lists!Next

(* Friendship is mutual in every state.                                    *)
THEOREM FriendsStayMutual == Spec => []FriendsMutual
<1>1. Init => FriendsMutual
  <2> SUFFICES ASSUME Init, NEW u \in User PROVE doc[u].friends = {}
    BY DEF FriendsMutual, Lists!Mutual
  <2>1. PICK v \in {0, 1} : doc[u] = [version |-> v, friends |-> {}]
    BY DEF Init
  <2> QED
    BY <2>1
<1> QED
  BY <1>1, InitCopyInv, NextCopyInv, NextBefriends, MutualStep, PTL DEF Spec

-----------------------------------------------------------------------------
(***************************************************************************)
(* What the completion handler may rely on.                                *)
(***************************************************************************)
Befriended(r) == /\ Completer(r) \in doc[Poster(r)].friends
                 /\ Poster(r) \in doc[Completer(r)].friends

(* The documents of a request that began with both are still there, and    *)
(* from the server's answer on, heard or not, the two are friends.         *)
AppliedInv ==
  /\ \A r \in Request : phase[r] = "idle" => result[r] = "none"
  /\ \A r \in both : /\ \A u \in Keys(r) : doc[u].version > 0
                     /\ phase[r] = "applied" \/ result[r] = "done" => Befriended(r)

(* No step removes a document or a friend.                                 *)
LEMMA ListsGrow ==
  ASSUME CopyInv, [Next]_vars, NEW u \in User
  PROVE  /\ doc[u].friends \subseteq doc'[u].friends
         /\ doc[u].version > 0 => doc'[u].version > 0
<1>1. CASE UNCHANGED Lists!vars
  BY <1>1 DEF Lists!vars
<1>2. ASSUME NEW v \in User, Lists!Create(v)
      PROVE  /\ doc[u].friends \subseteq doc'[u].friends
             /\ doc[u].version > 0 => doc'[u].version > 0
  BY <1>2 DEF Lists!Create
<1>3. ASSUME NEW v \in User, NEW w \in User, Lists!Befriend(v, w)
      PROVE  /\ doc[u].friends \subseteq doc'[u].friends
             /\ doc[u].version > 0 => doc'[u].version > 0
  BY <1>3 DEF Lists!Befriend
<1> QED
  BY <1>1, <1>2, <1>3, NextBefriends DEF Lists!Next

(* After an error the runner waits for another attempt or reports failure. *)
LEMMA ErrorOutcome ==
  ASSUME TypeOK, NEW r \in Request, NEW error, HandleTransactionError(r, error)
  PROVE  \A s \in Request :
           /\ phase'[s] = phase[s] \/ (s = r /\ phase'[s] \in {"backoff", "over"})
           /\ result'[s] = result[s] \/ (s = r /\ result'[s] = "failed" /\ phase'[s] = "over")
BY DEF HandleTransactionError, Run, ResultCallback, Becomes, TypeOK

(* Success is only reported after the server's answer, and the server only *)
(* answers so when it has committed.                                       *)
LEMMA SuccessHasCommit ==
  ASSUME CopyInv, [Next]_vars, NEW s \in Request
  PROVE  /\ pair' = pair
         /\ phase'[s] = "idle" => phase[s] = "idle" /\ result'[s] = result[s]
         /\ s \in both' /\ s \notin both =>
              /\ phase[s] = "idle" /\ phase'[s] # "applied" /\ result'[s] = result[s]
              /\ \A u \in Keys(s) : doc[u].version > 0
         /\ phase'[s] = "applied" \/ result'[s] = "done" =>
              \/ phase[s] = "applied" \/ result[s] = "done"
              \/ \E m \in wire : m.r = s /\ PreconditionsHold(m) /\ Commits(m)
<1>0. TypeOK
  BY DEF CopyInv
<1> DEFINE Goal ==
         /\ pair' = pair
         /\ phase'[s] = "idle" => phase[s] = "idle" /\ result'[s] = result[s]
         /\ s \in both' /\ s \notin both =>
              /\ phase[s] = "idle" /\ phase'[s] # "applied" /\ result'[s] = result[s]
              /\ \A u \in Keys(s) : doc[u].version > 0
         /\ phase'[s] = "applied" \/ result'[s] = "done" =>
              \/ phase[s] = "applied" \/ result[s] = "done"
              \/ \E m \in wire : m.r = s /\ PreconditionsHold(m) /\ Commits(m)
<1>1. ASSUME NEW r \in Request, RunTransaction(r) PROVE Goal
  BY <1>0, <1>1 DEF RunTransaction, Run, Becomes, TypeOK
<1>2. ASSUME NEW r \in Request, BackoffElapsed(r) \/ GetPosterDocument(r) PROVE Goal
  BY <1>0, <1>2 DEF BackoffElapsed, GetPosterDocument, Becomes, TypeOK
<1>3. ASSUME NEW r \in Request, NEW error, HandleTransactionError(r, error),
             UNCHANGED <<pair, both>>
      PROVE  Goal
  BY <1>0, <1>3, ErrorOutcome
<1>4. ASSUME NEW r \in Request, GetCompleterDocument(r) PROVE Goal
  <2>1. CASE Becomes(r, "sent") /\ UNCHANGED <<pair, both, result>>
    BY <1>0, <2>1 DEF Becomes, TypeOK
  <2> QED
    BY <1>3, <1>4, <2>1 DEF GetCompleterDocument, FailsOn
<1>5. ASSUME NEW r \in Request, CallFails(r) PROVE Goal
  BY <1>3, <1>5 DEF CallFails, FailsOn
<1>6. ASSUME NEW r \in Request, DispatchResult(r) PROVE Goal
  <2>1. CASE /\ phase[r] = "applied" /\ ResultCallback(r, "done")
             /\ UNCHANGED <<pair, both>>
    BY <1>0, <2>1 DEF ResultCallback, Becomes, TypeOK
  <2> QED
    BY <1>3, <1>6, <2>1 DEF DispatchResult
<1>7. ASSUME NEW m \in wire, ServerCommit(m) PROVE Goal
  <2>1. UNCHANGED <<pair, result, both>> /\ m.r \in Request
    BY <1>0, <1>7 DEF ServerCommit, TypeOK
  <2>2. CASE PreconditionsHold(m) /\ Commits(m) /\ AnswersTo(m, "applied")
    <3>1. phase' = phase \/ phase' = [phase EXCEPT ![m.r] = "applied"]
      BY <2>2 DEF AnswersTo, Becomes
    <3>2. phase'[s] = phase[s] \/ (s = m.r /\ phase'[s] = "applied")
      BY <1>0, <2>1, <3>1 DEF TypeOK
    <3> QED
      BY <2>1, <2>2, <3>2
  <2>3. CASE AnswersTo(m, "refused")
    <3>1. phase'[s] = phase[s] \/ phase'[s] = "refused"
      BY <1>0, <2>1, <2>3 DEF AnswersTo, Becomes, TypeOK
    <3> QED
      BY <2>1, <3>1
  <2> QED
    BY <1>7, <2>2, <2>3 DEF ServerCommit
<1>8. ASSUME NEW u \in User, OtherWrite(u) PROVE Goal
  BY <1>8 DEF OtherWrite
<1>9. CASE UNCHANGED vars
  BY <1>9 DEF vars
<1> QED
  BY <1>1, <1>2, <1>4, <1>5, <1>6, <1>7, <1>8, <1>9 DEF Next, Step

(* Every step keeps the invariant.                                         *)
LEMMA NextAppliedInv == CopyInv /\ AppliedInv /\ [Next]_vars => AppliedInv'
<1> SUFFICES ASSUME CopyInv, AppliedInv, [Next]_vars PROVE AppliedInv'
  OBVIOUS
<1>1. both' \subseteq Request
  BY NextCopyInv DEF CopyInv, TypeOK
<1>2. \A r \in Request : phase'[r] = "idle" => result'[r] = "none"
  BY SuccessHasCommit DEF AppliedInv
<1>3. ASSUME NEW r \in both'
      PROVE  /\ \A u \in Keys(r)' : doc'[u].version > 0
             /\ phase'[r] = "applied" \/ result'[r] = "done" => Befriended(r)'
  <2>1. r \in Request
    BY <1>1
  <2>2. /\ Poster(r)' = Poster(r) /\ Completer(r)' = Completer(r)
        /\ Keys(r)' = Keys(r)
    BY <2>1, SuccessHasCommit DEF Poster, Completer, Keys
  <2>3. Poster(r) \in User /\ Completer(r) \in User /\ Keys(r) \subseteq User
    BY <2>1, PairTypes DEF CopyInv
  <2>4. \A u \in Keys(r) : doc[u].version > 0
    BY <2>1, SuccessHasCommit DEF AppliedInv
  <2>5. \A u \in Keys(r) : doc'[u].version > 0
    BY <2>3, <2>4, ListsGrow
  <2>6. ASSUME phase'[r] = "applied" \/ result'[r] = "done" PROVE Befriended(r)'
    <3>1. CASE (phase[r] = "applied" \/ result[r] = "done") /\ r \in both
      <4>1. Befriended(r)
        BY <3>1 DEF AppliedInv
      <4> QED
        BY <2>2, <2>3, <4>1, ListsGrow DEF Befriended
    <3>2. CASE (phase[r] = "applied" \/ result[r] = "done") /\ r \notin both
      BY <2>1, <2>6, <3>2, SuccessHasCommit DEF AppliedInv
    <3>3. ASSUME NEW m \in wire, m.r = r, PreconditionsHold(m), Commits(m)
          PROVE  Befriended(r)'
      <4>1. \A u \in Keys(r) : m.base[u].version > 0
        BY <2>4, <3>3 DEF PreconditionsHold
      <4>2. \A u \in Keys(r) : doc'[u].friends =
              UpdatedFriends(m.base, Poster(r), Completer(r), u)
        BY <2>3, <3>3, <4>1 DEF Commits
      <4> QED
        BY <2>2, <4>1, <4>2 DEF Befriended, UpdatedFriends, Keys
    <3> QED
      BY <2>1, <2>6, <3>1, <3>2, <3>3, SuccessHasCommit
  <2> QED
    BY <2>2, <2>5, <2>6
<1> QED
  BY <1>2, <1>3 DEF AppliedInv

(* A page told that the transaction succeeded can rely on it, whatever     *)
(* other devices, retries and late commits did: the two are friends.       *)
THEOREM DoneMeansFriendsAlways == Spec => []DoneMeansFriends
<1>1. Init => AppliedInv
  BY DEF Init, AppliedInv
<1>2. AppliedInv => DoneMeansFriends
  BY DEF AppliedInv, DoneMeansFriends, Befriended
<1> QED
  BY <1>1, <1>2, InitCopyInv, NextCopyInv, NextAppliedInv, PTL DEF Spec
=============================================================================
