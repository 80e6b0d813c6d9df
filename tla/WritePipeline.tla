---------------------------- MODULE WritePipeline ----------------------------
(***************************************************************************)
(* The write path of the Firestore client the app links: SyncEngine gives  *)
(* a write a batch in the user's persistent mutation queue (LocalStore,    *)
(* LevelDbMutationQueue); RemoteStore keeps the first batches of that      *)
(* queue in its write pipeline and sends them over one WriteStream, which  *)
(* starts, shakes hands, fails, backs off and idles out.                   *)
(*                                                                         *)
(* All of this runs on the client's worker queue, so one handler, with     *)
(* every call it makes, is one action.  Calls nest (closing a stream       *)
(* refills the pipeline, which starts the stream again), so the handlers   *)
(* are operators on the record of the stream and the pipeline, "rs".       *)
(*                                                                         *)
(* The server and the connection are external.  A connection delivers in   *)
(* order, what it had not delivered is lost with it, and the server ends a *)
(* stream with a permanent error only to refuse a write.                   *)
(***************************************************************************)
EXTENDS Integers, FiniteSets, SequencesExt, Stream

CONSTANTS User,              \* the accounts that sign in on the device
          MaxWrites,         \* bound on the number of writes issued
          kMaxPendingWrites, \* batches the pipeline holds (10 in the code)
          MaxTrouble         \* bound on failures, restarts and sign-ins

ASSUME LimitAssumption ==
  {MaxWrites, MaxTrouble} \subseteq Nat /\ kMaxPendingWrites \in Nat \ {0}

VARIABLES issued,     \* issued[w]: the user who issued write w
          user,       \* SyncEngine::current_user_
          queue,      \* queue[u]: the batches [id, w] of u's mutation queue
          nextId,     \* LevelDbMutationQueue::next_batch_id_
          callbacks,  \* callbacks[u]: SyncEngine::mutation_callbacks_
          told,       \* told[w]: what the callback of w was called with
          rs,         \* write stream and write pipeline of RemoteStore
          token,      \* the token the credentials provider hands out
          log,        \* the writes in the order the server applied them
          trouble     \* failures, restarts and sign-ins so far

store == <<queue, nextId, callbacks, told>>
vars == <<issued, user, store, rs, token, log, trouble>>

Write == 1..MaxWrites
Batch == [id : 1..MaxWrites, w : Write]
BatchIdUnknown == -1
\* Batch ids start at 1; on the wire, two messages carry no batch.
Handshake == [id |-> 0, w |-> 0]  \* the first request and its response
Refusal == [id |-> 0, w |-> 1]    \* a permanent error ending the stream

Stopped == [state |-> "Initial", handshake |-> FALSE, idle |-> FALSE,
            request |-> FALSE, pipeline |-> <<>>, up |-> <<>>, down |-> <<>>]

TypeOK ==
  /\ issued \in SeqOf(User, MaxWrites)
  /\ user \in User
  /\ \A u \in User : queue[u] \in Seq(Batch) /\ callbacks[u] \in SUBSET Batch
  /\ nextId \in 1..(MaxWrites + 1)
  /\ told \in [Write -> {"nothing", "done", "refused"}]
  /\ rs.state \in State
  /\ {rs.handshake, rs.idle, rs.request} \subseteq BOOLEAN
  /\ rs.pipeline \in Seq(Batch) /\ Len(rs.pipeline) <= kMaxPendingWrites
  /\ rs.up \in Seq(Batch \cup {Handshake})
  /\ rs.down \in Seq(Batch \cup {Handshake, Refusal})
  /\ token \in {"good", "stale"}
  /\ log \in Seq(Write)
  /\ trouble \in 0..MaxTrouble
-----------------------------------------------------------------------------
(***************************************************************************)
(* RemoteStore: the write pipeline.                                        *)
(***************************************************************************)
\* The handshake flag goes down after the listener was notified.
HandshakeOver(s) == [s EXCEPT !.handshake = FALSE]

ShouldStartWriteStream(s) == ~IsStarted(s) /\ s.pipeline # <<>>

StartIfNeeded(s) == IF ShouldStartWriteStream(s) THEN Start(s) ELSE s

\* Where an iterator over the keys of the batches of q stands after Seek(id).
Seek(q, id) ==
  CHOOSE i \in 1..(Len(q) + 1) :
    /\ \A j \in 1..(i - 1) : q[j].id < id
    /\ i <= Len(q) => q[i].id >= id

\* The batches of q that follow the last one of the pipeline, as many as fit.
NextBatches(s, q) ==
  LET last == IF s.pipeline = <<>> THEN BatchIdUnknown ELSE Last(s.pipeline).id
      first == Seek(q, last + 1)
      end == first + kMaxPendingWrites - Len(s.pipeline) - 1
  IN  SubSeq(q, first, IF end < Len(q) THEN end ELSE Len(q))

AddToWritePipeline(s, batches) ==
  LET t == [s EXCEPT !.pipeline = @ \o batches]
  IN  IF IsOpen(s) /\ s.handshake THEN Send(t, batches) ELSE t

\* A refill does not start the stream.
FillWritePipelineNoStart(s, q) ==
  LET t == AddToWritePipeline(s, NextBatches(s, q))
  IN  IF t.pipeline = <<>> THEN MarkIdle(t) ELSE t
FillWritePipeline(s, q) ==
  LET t == AddToWritePipeline(s, NextBatches(s, q))
  IN  StartIfNeeded(IF t.pipeline = <<>> THEN MarkIdle(t) ELSE t)

\* The pipeline survives the restart.
RestartNetworkKeepsPipeline(s, q) ==
  FillWritePipeline(HandshakeOver(EndStream(s, "Initial")), q)
\* Streams stopped, pipeline dropped, backoff forgotten, and filled again.
RestartNetwork(s, q) ==
  LET disabled == HandshakeOver(EndStream(s, "Initial"))
  IN  FillWritePipeline([disabled EXCEPT !.pipeline = <<>>], q)

\* OnWriteStreamClose without a batch to reject.
StreamClosed(s, endState) ==
  HandshakeOver(StartIfNeeded(EndStream(s, endState)))
-----------------------------------------------------------------------------
(***************************************************************************)
(* SyncEngine and the mutation queue.                                      *)
(***************************************************************************)
AllBatches == UNION {ToSet(queue[u]) : u \in User}

LoadNextBatchIdFromDb ==
  1 + (CHOOSE m \in {0} \cup {b.id : b \in AllBatches} :
         \A b \in AllBatches : b.id <= m)
\* Only the batches of the user who signs in are counted.
LoadNextBatchIdOfUser(u) ==
  1 + (CHOOSE m \in {0} \cup {b.id : b \in ToSet(queue[u])} :
         \A b \in ToSet(queue[u]) : b.id <= m)

\* insert() keeps the callback an id already has.
StoreCallback(b) ==
  callbacks' = IF \E c \in callbacks[user] : c.id = b.id THEN callbacks
               ELSE [callbacks EXCEPT ![user] = @ \cup {b}]

NotifyUser(b, outcome) ==
  LET found == {c \in callbacks[user] : c.id = b.id}
  IN  /\ told' = [w \in Write |-> IF \E c \in found : c.w = w
                                  THEN outcome ELSE told[w]]
      /\ callbacks' = [callbacks EXCEPT ![user] = @ \ found]

RemoveMutationBatch(b) ==
  queue' = [queue EXCEPT ![user] = RemoveAt(@, Seek(@, b.id))]

\* The first batch of the pipeline is answered; it leaves pipeline and queue.
AnswerFirst(outcome) ==
  /\ NotifyUser(Head(rs.pipeline), outcome)
  /\ RemoveMutationBatch(Head(rs.pipeline))
  /\ UNCHANGED nextId

WithoutFirst(s) == [s EXCEPT !.pipeline = Tail(@)]
-----------------------------------------------------------------------------
(***************************************************************************)
(* Handlers.                                                               *)
(***************************************************************************)
Init ==
  /\ issued = <<>>
  /\ user \in User
  /\ queue = [u \in User |-> <<>>]
  /\ nextId = 1
  /\ callbacks = [u \in User |-> {}]
  /\ told = [w \in Write |-> "nothing"]
  /\ rs = Stopped
  /\ token = "good"
  /\ log = <<>>
  /\ trouble = 0

WriteMutations ==
  LET b == [id |-> nextId, w |-> Len(issued) + 1]
  IN  /\ Len(issued) < MaxWrites
      /\ issued' = Append(issued, user)
      /\ queue' = [queue EXCEPT ![user] = Append(@, b)]
      /\ nextId' = nextId + 1
      /\ StoreCallback(b)
      /\ rs' = FillWritePipeline(rs, queue'[user])
      /\ UNCHANGED <<user, told, token, log, trouble>>

\* The credentials arrive: the stream opens and sends its handshake.
ResumeStartWithCredentials ==
  /\ rs.request
  /\ rs' = Send(ResumeStart(rs), <<Handshake>>)
  /\ UNCHANGED <<issued, user, store, token, log, trouble>>

\* The pipeline is sent newest write first.
HandshakeCompleteReversed ==
  /\ rs.down # <<>>
  /\ Head(rs.down) = Handshake
  /\ rs' = Send([rs EXCEPT !.down = Tail(@), !.handshake = TRUE],
                Reverse(rs.pipeline))
  /\ UNCHANGED <<issued, user, store, token, log, trouble>>
HandshakeComplete ==
  /\ rs.down # <<>>
  /\ Head(rs.down) = Handshake
  /\ rs' = Send([rs EXCEPT !.down = Tail(@), !.handshake = TRUE], rs.pipeline)
  /\ UNCHANGED <<issued, user, store, token, log, trouble>>

\* A response after the handshake belongs to the first write of the pipeline.
MutationResult ==
  /\ rs.down # <<>>
  /\ Head(rs.down) \in Batch
  /\ AnswerFirst("done")
  /\ rs' = FillWritePipeline(WithoutFirst([rs EXCEPT !.down = Tail(@)]),
                             queue'[user])
  /\ UNCHANGED <<issued, user, token, log, trouble>>

\* The refused write is kept, as if the error were transient.
WriteRejectedRetries ==
  /\ rs.down # <<>>
  /\ Head(rs.down) = Refusal
  /\ rs' = StreamClosed(rs, "Error")
  /\ UNCHANGED <<issued, user, store, token, log, trouble>>
\* A permanent error after the handshake rejects the first write, and the
\* stream starts again without backing off.
WriteRejected ==
  /\ rs.down # <<>>
  /\ Head(rs.down) = Refusal
  /\ AnswerFirst("refused")
  /\ LET inhibited == WithoutFirst(EndStream(rs, "Initial"))
     IN  rs' = HandshakeOver(StartIfNeeded(
                 FillWritePipeline(inhibited, queue'[user])))
  /\ UNCHANGED <<issued, user, token, log, trouble>>

BackoffElapsed ==
  /\ rs.state = "Backoff"
  /\ rs' = Resume(rs)
  /\ UNCHANGED <<issued, user, store, token, log, trouble>>

HealthCheck ==
  /\ rs.state = "Open"
  /\ rs' = [rs EXCEPT !.state = "Healthy"]
  /\ UNCHANGED <<issued, user, store, token, log, trouble>>

IdleTimeout ==
  /\ rs.idle
  /\ rs' = StreamClosed(rs, "Initial")
  /\ UNCHANGED <<issued, user, store, token, log, trouble>>

\* A stale token is given back only if the stream was not yet healthy.
Unauthenticated ==
  /\ IsOpen(rs)
  /\ token = "stale"
  /\ token' = IF rs.state = "Healthy" THEN token ELSE "good"
  /\ rs' = StreamClosed(rs, "Error")
  /\ UNCHANGED <<issued, user, store, log, trouble>>
-----------------------------------------------------------------------------
(***************************************************************************)
(* What goes wrong, MaxTrouble times: an attempt or a connection fails with *)
(* a transient error, the network changes, another user signs in, the app  *)
(* is killed, the token goes stale.                                        *)
(***************************************************************************)
Trouble == trouble < MaxTrouble /\ trouble' = trouble + 1

StreamFails ==
  /\ Trouble
  /\ IsOpen(rs) \/ rs.request
  /\ rs' = StreamClosed(rs, "Error")
  /\ UNCHANGED <<issued, user, store, token, log>>

ConnectivityChanged ==
  /\ Trouble
  /\ rs' = RestartNetwork(rs, queue[user])
  /\ UNCHANGED <<issued, user, store, token, log>>

\* The queue of the new user counts on its own.
HandleCredentialChangeOwnIds(u) ==
  /\ Trouble
  /\ u # user
  /\ user' = u
  /\ nextId' = LoadNextBatchIdOfUser(u)
  /\ rs' = RestartNetwork(rs, queue[u])
  /\ UNCHANGED <<issued, queue, callbacks, told, token, log>>
HandleCredentialChange(u) ==
  /\ Trouble
  /\ u # user
  /\ user' = u
  /\ nextId' = LoadNextBatchIdFromDb
  /\ rs' = RestartNetwork(rs, queue[u])
  /\ UNCHANGED <<issued, queue, callbacks, told, token, log>>

CrashAndRestart ==
  /\ Trouble
  /\ nextId' = LoadNextBatchIdFromDb
  /\ callbacks' = [u \in User |-> {}]
  /\ rs' = FillWritePipeline(Stopped, queue[user])
  /\ UNCHANGED <<issued, user, queue, told, token, log>>

TokenGoesStale ==
  /\ Trouble
  /\ token = "good"
  /\ token' = "stale"
  /\ UNCHANGED <<issued, user, store, rs, log>>
-----------------------------------------------------------------------------
(***************************************************************************)
(* The server takes the requests of a stream in order and stops at the     *)
(* first write it refuses.                                                 *)
(***************************************************************************)
Ended(s) == s.down # <<>> /\ Last(s.down) = Refusal

ServerReplies(response) ==
  /\ rs.up # <<>>
  /\ ~Ended(rs)
  /\ rs' = [rs EXCEPT !.up = Tail(@), !.down = Append(@, response)]
  /\ UNCHANGED <<issued, user, store, token, trouble>>

ServerAcceptsStream ==
  /\ token = "good"
  /\ ServerReplies(Handshake)
  /\ Head(rs.up) = Handshake
  /\ UNCHANGED log

ServerApplies ==
  /\ ServerReplies(Head(rs.up))
  /\ Head(rs.up) \in Batch
  /\ log' = Append(log, Head(rs.up).w)

ServerRefuses ==
  /\ ServerReplies(Refusal)
  /\ Head(rs.up) \in Batch
  /\ UNCHANGED log
-----------------------------------------------------------------------------
Next ==
  \/ WriteMutations \/ ResumeStartWithCredentials
  \/ HandshakeComplete \/ MutationResult \/ WriteRejected
  \/ BackoffElapsed \/ HealthCheck \/ IdleTimeout \/ Unauthenticated
  \/ StreamFails \/ ConnectivityChanged \/ CrashAndRestart \/ TokenGoesStale
  \/ ServerAcceptsStream \/ ServerApplies \/ ServerRefuses
  \/ \E u \in User : HandleCredentialChange(u)

(* The worker queue runs what is enqueued and timers fire; the server      *)
(* answers.  A server that keeps finding the token stale answers at least  *)
(* once before the ten seconds of the health check.                        *)
Fairness ==
  /\ WF_vars(ResumeStartWithCredentials)
  /\ WF_vars(HandshakeComplete \/ MutationResult \/ WriteRejected)
  /\ WF_vars(BackoffElapsed)
  /\ WF_vars(IdleTimeout)
  /\ WF_vars(Unauthenticated)
  /\ SF_vars(Unauthenticated /\ rs.state = "Open")
  /\ WF_vars(ServerAcceptsStream \/ ServerApplies \/ ServerRefuses)

Spec == Init /\ [][Next]_vars /\ Fairness
-----------------------------------------------------------------------------
(***************************************************************************)
(* What must hold.                                                         *)
(***************************************************************************)
\* The results under way: what an established stream carries down, but for
\* the refusal that ends it.
Results(s) == IF ~s.handshake THEN <<>>
              ELSE IF Ended(s) THEN Front(s.down) ELSE s.down

(* RemoteStore correlates an answer with a write by position alone: on an  *)
(* established stream the answers under way, the write being refused and   *)
(* the requests under way are, in this order, the pipeline, so every       *)
(* result meets its own batch and never an empty pipeline (the assertion   *)
(* of OnWriteStreamMutationResult).                                        *)
AnswersMatchPipeline ==
  rs.handshake =>
    LET known == Results(rs) \o IF Ended(rs) THEN <<>> ELSE rs.up
    IN  IsPrefix(known, rs.pipeline) /\ (~Ended(rs) => known = rs.pipeline)

(* The pipeline is the head of the signed-in user's queue, also after a    *)
(* change of user, a refusal and a restart: the batch that is removed      *)
(* exists (the assertions of RejectBatch and RemoveMutationBatch).         *)
PipelineHeadsQueue == IsPrefix(rs.pipeline, queue[user])

(* What is on the wire, the pipeline and the queue are in step.            *)
PipelineInStep == AnswersMatchPipeline /\ PipelineHeadsQueue

(* The idle timer never runs while a write waits, so the stream is never   *)
(* stopped gracefully while still needed (assertion of OnWriteStreamClose).*)
IdleMeansEmpty == rs.idle => rs.pipeline = <<>>

(* A batch of the signed-in user is always on its way: it is in the        *)
(* pipeline if there is room, and a stream with work is started.           *)
NoWriteIsStranded ==
  /\ rs.pipeline # <<>> => IsStarted(rs)
  /\ Len(rs.pipeline) < kMaxPendingWrites => Len(queue[user]) = Len(rs.pipeline)

(* Credentials that arrive belong to the attempt being started, never to   *)
(* one closed meanwhile (assertion of ResumeStartWithCredentials).         *)
CredentialsMeetTheirStart == rs.request => rs.state = "Starting"

(* Timers and requests of the stream belong to the state it is in.         *)
StreamInStep == TypeOK /\ IdleMeansEmpty /\ CredentialsMeetTheirStart

(* A callback is stored under the id of the queued batch of its own write: *)
(* ids are given out again after a restart or a change of user, and still  *)
(* no page hears of another page's write.                                  *)
CallbackOfItsBatch ==
  \A u \in User : callbacks[u] \subseteq ToSet(queue[u])

(* No two batches of the database have one id, whoever owns them.          *)
IdsUnique ==
  \A u, v \in User : \A i \in DOMAIN queue[u], j \in DOMAIN queue[v] :
    queue[u][i].id = queue[v][j].id => u = v /\ i = j

(* Ids tell batches apart, and callbacks find their batch by its id.       *)
CallbacksInStep == CallbackOfItsBatch /\ IdsUnique

Pending == [u \in User |-> [i \in DOMAIN queue[u] |-> queue[u][i].w]]
Ahead == Len(Results(rs))
Listening == UNION {{c.w : c \in callbacks[u]} : u \in User}

(* The write path keeps the promise of WriteQueue.                         *)
Promise == INSTANCE WriteQueue WITH
  pending <- Pending, ahead <- Ahead, listening <- Listening

KeepsPromise == Promise!Spec

(* Of the promise: nothing overtakes, and the newest write stays.          *)
NothingOvertakes == Promise!NothingOvertakes
ToldIsTrue == Promise!ToldIsTrue
NewestWins == Promise!NewestWins

(* What the order of the queue means to the app: nothing overtakes, what a *)
(* page is told is true, and the newest write is the one that stays.       *)
PromisedOrder == NothingOvertakes /\ ToldIsTrue /\ NewestWins
=============================================================================
