------------------------------ MODULE AddFriend ------------------------------
(***************************************************************************)
(* addFriend of the reception page with the machinery below it: the        *)
(* TransactionRunner of the Firestore client, which runs the page's block  *)
(* again when an attempt fails, the Transaction that records the versions  *)
(* the block read and turns them into preconditions, and the server, which *)
(* commits all the writes of an attempt or none.                           *)
(*                                                                         *)
(* Several devices run addFriend at once, other writes change the same     *)
(* documents in between, any call may fail with the answer lost, and a     *)
(* commit request given up by the client may still reach the server later. *)
(***************************************************************************)
EXTENDS Integers

CONSTANTS User,         \* the ids of the documents in GoodThingUsers
          Request,      \* taps on the agree button, each on its own device
          Pairings,     \* whom the requests may make friends
          MaxAttempts,  \* attempts of one transaction (5 by default)
          MaxWrites     \* bound on the other writes to these documents

ASSUME AttemptAssumption ==
  /\ MaxAttempts \in Nat \ {0} /\ MaxWrites \in Nat
  /\ Pairings \subseteq [Request -> User \X User]

VARIABLES doc,       \* doc[u]: version, 0 for no document, and friends
          pair,      \* pair[r]: poster and completer that r makes friends
          phase,     \* phase[r]: where the runner of r is
          attempts,  \* attempts[r]: attempts_remaining_
          seen,      \* seen[r][u]: what this attempt read of u's document
          wire,      \* commit requests the server has not handled
          result,    \* result[r]: what the completion handler was told
          both,      \* ghost: the requests that began with two documents
          writes     \* other writes so far

vars == <<doc, pair, phase, attempts, seen, wire, result, both, writes>>

\* Version -1 stands for a document not read, 0 for one that is not there.
Copy == [version : Nat \cup {-1}, friends : SUBSET User]
Unread == [version |-> -1, friends |-> {}]
NothingRead == [u \in User |-> Unread]
Phase == {"idle", "backoff", "poster", "completer", "sent", "applied",
          "refused", "over"}

Poster(r) == pair[r][1]
Completer(r) == pair[r][2]
Keys(r) == {Poster(r), Completer(r)}

TypeOK ==
  /\ doc \in [User -> [version : Nat, friends : SUBSET User]]
  /\ pair \in Pairings
  /\ phase \in [Request -> Phase]
  /\ attempts \in [Request -> 0..MaxAttempts]
  /\ seen \in [Request -> [User -> Copy]]
  /\ wire \subseteq [r : Request, left : 0..MaxAttempts, base : [User -> Copy]]
  /\ result \in [Request -> {"none", "done", "failed"}]
  /\ both \subseteq Request
  /\ writes \in 0..MaxWrites

Init ==
  /\ doc \in [User -> {[version |-> v, friends |-> {}] : v \in {0, 1}}]
  /\ pair \in Pairings
  /\ phase = [r \in Request |-> "idle"]
  /\ attempts = [r \in Request |-> MaxAttempts]
  /\ seen = [r \in Request |-> NothingRead]
  /\ wire = {}
  /\ result = [r \in Request |-> "none"]
  /\ both = {}
  /\ writes = 0
-----------------------------------------------------------------------------
(***************************************************************************)
(* TransactionRunner.                                                      *)
(***************************************************************************)
Becomes(r, p) == phase' = [phase EXCEPT ![r] = p]

\* The attempt is not counted.
RunUncounted(r) == Becomes(r, "backoff") /\ UNCHANGED attempts
\* One attempt is used up and the update block waits for the backoff.
Run(r) ==
  /\ Becomes(r, "backoff")
  /\ attempts' = [attempts EXCEPT ![r] = @ - 1]

ResultCallback(r, outcome) ==
  /\ result' = [result EXCEPT ![r] = outcome]
  /\ Becomes(r, "over")

\* A stale read is refused with a code that is permanent elsewhere.
IsRetryableTransactionError(error) == error \in {"aborted", "transient"}

CanRetry(r, error) == attempts[r] > 0 /\ IsRetryableTransactionError(error)

HandleTransactionError(r, error) ==
  \/ CanRetry(r, error) /\ Run(r) /\ UNCHANGED result
  \/ ~CanRetry(r, error) /\ ResultCallback(r, "failed") /\ UNCHANGED attempts
-----------------------------------------------------------------------------
(***************************************************************************)
(* addFriend: the block of the page, attempt by attempt.                   *)
(***************************************************************************)
RunTransaction(r) ==
  /\ phase[r] = "idle"
  /\ Run(r)
  /\ both' = both \cup {s \in {r} : \A u \in Keys(r) : doc[u].version > 0}
  /\ UNCHANGED <<doc, pair, seen, wire, result, writes>>

\* A new Transaction object, with nothing read, is handed to the block.
BackoffElapsed(r) ==
  /\ phase[r] = "backoff"
  /\ Becomes(r, "poster")
  /\ UNCHANGED <<doc, pair, attempts, seen, wire, result, both, writes>>

\* RecordVersion: a document read before must not have changed.
Changed(r, u) == seen[r][u] # Unread /\ seen[r][u].version # doc[u].version

\* Both lists are there: the block writes both.  Otherwise it writes none
\* and the commit only verifies what was read.
UpdatedFriends(base, p, c, u) ==
  IF base[p].version > 0 /\ base[c].version > 0
  THEN base[u].friends \cup (IF u = p THEN {c} ELSE {})
                       \cup (IF u = c THEN {p} ELSE {})
  ELSE base[u].friends

\* The Transaction object goes with its attempt.
FailsOn(r, error) ==
  /\ HandleTransactionError(r, error)
  /\ seen' = [seen EXCEPT ![r] = NothingRead]

GetPosterDocument(r) ==
  /\ phase[r] = "poster"
  /\ seen' = [seen EXCEPT ![r][Poster(r)] = doc[Poster(r)]]
  /\ Becomes(r, "completer")
  /\ UNCHANGED <<doc, pair, attempts, wire, result, both, writes>>

\* The second read, the rest of the block, and Commit.
GetCompleterDocument(r) ==
  /\ phase[r] = "completer"
  /\ \/ /\ ~Changed(r, Completer(r))
        /\ wire' = wire \cup {[r |-> r, left |-> attempts[r], base |->
                     [seen[r] EXCEPT ![Completer(r)] = doc[Completer(r)]]]}
        /\ seen' = [seen EXCEPT ![r] = NothingRead]
        /\ Becomes(r, "sent")
        /\ UNCHANGED <<attempts, result>>
     \/ /\ Changed(r, Completer(r))
        /\ FailsOn(r, "aborted")
        /\ UNCHANGED wire
  /\ UNCHANGED <<doc, pair, both, writes>>

\* The lookup fails, or the commit does: credentials, connection, rules.
\* What was sent may be applied nonetheless, before or after.
CallFails(r) ==
  /\ phase[r] \in {"poster", "completer", "sent", "applied", "refused"}
  /\ \/ FailsOn(r, "transient") /\ UNCHANGED wire
     \/ /\ phase[r] \in {"poster", "completer", "sent"}
        /\ FailsOn(r, "permanent")
        /\ wire' = {m \in wire : m.r # r \/ m.left # attempts[r]}
  /\ UNCHANGED <<doc, pair, both, writes>>

DispatchResult(r) ==
  /\ \/ phase[r] = "applied" /\ ResultCallback(r, "done") /\ UNCHANGED attempts
     \/ phase[r] = "refused" /\ HandleTransactionError(r, "aborted")
  /\ UNCHANGED <<doc, pair, seen, wire, both, writes>>
-----------------------------------------------------------------------------
(***************************************************************************)
(* The server.                                                             *)
(***************************************************************************)
\* What was read may have changed.
PreconditionsBlind(m) == TRUE
\* Every document read is still at the version that was read.
PreconditionsHold(m) == \A u \in Keys(m.r) : doc[u].version = m.base[u].version

\* The write leaves the version as it was.
CommitsUnversioned(m) ==
  doc' = [u \in User |->
    IF u \in Keys(m.r) /\ (\A k \in Keys(m.r) : m.base[k].version > 0)
    THEN [doc[u] EXCEPT !.friends =
            UpdatedFriends(m.base, Poster(m.r), Completer(m.r), u)]
    ELSE doc[u]]
Commits(m) ==
  doc' = [u \in User |->
    IF u \in Keys(m.r) /\ (\A k \in Keys(m.r) : m.base[k].version > 0)
    THEN [version |-> doc[u].version + 1,
          friends |-> UpdatedFriends(m.base, Poster(m.r), Completer(m.r), u)]
    ELSE doc[u]]

\* The answer reaches the client if it still waits for this attempt.
AnswersTo(m, answer) ==
  IF phase[m.r] = "sent" /\ attempts[m.r] = m.left THEN Becomes(m.r, answer)
  ELSE UNCHANGED phase

ServerCommit(m) ==
  /\ wire' = wire \ {m}
  /\ \/ PreconditionsHold(m) /\ Commits(m) /\ AnswersTo(m, "applied")
     \/ ~PreconditionsHold(m) /\ UNCHANGED doc /\ AnswersTo(m, "refused")
  /\ UNCHANGED <<pair, attempts, seen, result, both, writes>>

\* Another page writes u's document: postUserData or saveUserInfoToFirestore
\* creates it, UserInfoEdition and postTask's handler update other fields.
\* None of these changes the friends of a document that is there.  (The one
\* write that does, saveUserInfoToFirestore of a user it takes for a new one,
\* is an action of TaskPairing and not part of this module.)
OtherWrite(u) ==
  /\ writes < MaxWrites
  /\ writes' = writes + 1
  /\ doc' = [doc EXCEPT ![u].version = @ + 1]
  /\ UNCHANGED <<pair, phase, attempts, seen, wire, result, both>>
-----------------------------------------------------------------------------
Step(r) == \/ BackoffElapsed(r) \/ GetPosterDocument(r)
           \/ GetCompleterDocument(r) \/ CallFails(r) \/ DispatchResult(r)

Next == \/ \E r \in Request : RunTransaction(r) \/ Step(r)
        \/ \E m \in wire : ServerCommit(m)
        \/ \E u \in User : OtherWrite(u)

\* Every call ends, with an answer or an error, and timers fire.
Fairness == \A r \in Request : WF_vars(Step(r))

Spec == Init /\ [][Next]_vars /\ Fairness
-----------------------------------------------------------------------------
(* Whatever is retried, lost or late, the lists of friends change as in    *)
(* Friendship: a whole friendship at a time, and nothing is undone by a    *)
(* list that was read before.                                              *)
Lists == INSTANCE Friendship WITH
  present <- {u \in User : doc[u].version > 0},
  friends <- [u \in User |-> doc[u].friends]

AtomicFriendship == Lists!Spec

(* Friendship is mutual in every state between two transactions' steps.    *)
FriendsMutual == Lists!Mutual

(* A page that is told the transaction succeeded can rely on it: if both   *)
(* users had their documents when the button was tapped, they are friends. *)
DoneMeansFriends ==
  \A r \in both : result[r] = "done" =>
    /\ Completer(r) \in doc[Poster(r)].friends
    /\ Poster(r) \in doc[Completer(r)].friends

(* The completion handler runs in the end, however often calls fail: the   *)
(* attempts are bounded, the failures are not.                             *)
EveryRequestEnds ==
  \A r \in Request : phase[r] = "backoff" ~> result[r] # "none"

(* Why the preconditions are enough: a copy of a document with the version *)
(* the document still has is that document, wherever the copy is kept.     *)
Faithful(copy, d) ==
  /\ copy.version <= d.version
  /\ copy.version = d.version => copy.friends = d.friends

CopiesFaithful ==
  \A u \in User : /\ \A r \in Request : Faithful(seen[r][u], doc[u])
                  /\ \A m \in wire : Faithful(m.base[u], doc[u])
(* A request that did not begin has all its attempts, so that counting     *)
(* down stays above zero.                                                  *)
IdleHasAttempts == \A r \in Request : phase[r] = "idle" => attempts[r] = MaxAttempts

(* The inductive invariant behind AtomicFriendship: well-typed state and   *)
(* faithful copies, in every attempt of TransactionRunner and every commit *)
(* request on the wire, also a late one.                                   *)
CopyInv == TypeOK /\ IdleHasAttempts /\ CopiesFaithful
=============================================================================
