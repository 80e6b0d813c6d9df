----------------------------- MODULE QueryListen -----------------------------
(***************************************************************************)
(* The read path of the Firestore client the app links: getDocument(s) and *)
(* addSnapshotListener are QueryListeners of the EventManager; SyncEngine  *)
(* has one View per query listened to; RemoteStore watches the query over  *)
(* one WatchStream, whose messages the WatchChangeAggregator gathers until *)
(* a snapshot; the OnlineStateTracker decides when a query is answered     *)
(* from the cache.  A get is a listener that removes itself when its first *)
(* event is called back.                                                   *)
(*                                                                         *)
(* The client's worker queue runs one handler after the other, so one      *)
(* handler with every call it makes is one action, an operator on the      *)
(* record "c".  Events go through the main queue, where they meet the app. *)
(*                                                                         *)
(* The result of a query is a version: 0 when nothing was ever received,   *)
(* otherwise what "version" was when the server sent it.  The server is    *)
(* external: it answers the requests of a stream in order, refuses some    *)
(* queries, and sends a snapshot only when each query watched is current.  *)
(***************************************************************************)
EXTENDS Integers, FiniteSets, SequencesExt, Stream

CONSTANTS Query,       \* the queries of the app
          Denied,      \* those the server refuses
          Listener,    \* the listeners the app adds, each at most once
          Visits,      \* the sets of listeners an instance combines
          Gets,        \* those of getDocument and getDocuments
          QueryOf,     \* the query of a listener
          kMaxWatchStreamFailures,
          MaxVersion,  \* bound on the versions of the data
          MaxTrouble   \* bound on failures and changes of the network

ASSUME ListenAssumption ==
  /\ Denied \subseteq Query
  /\ Gets \subseteq Listener /\ Visits \subseteq SUBSET Listener
  /\ QueryOf \in [Listener -> Query]
  /\ kMaxWatchStreamFailures \in Nat \ {0}
  /\ MaxVersion \in Nat \ {0} /\ MaxTrouble \in Nat

VARIABLES c,        \* the client
          muted,    \* the listeners that were removed by the app
          called,   \* called[l]: the last event of l called back
          asked,    \* asked[l]: the version when l was added, 0 if another
                    \* listener had the query already, -1 before, -2 never
          version,  \* the version of the data at the server
          serving,  \* serving[q]: what the server sent of q on this stream
          dirty,    \* whether something was sent since the last snapshot
          trouble   \* failures and changes of the network so far

app == <<muted, called, asked>>
server == <<serving, dirty>>
vars == <<c, app, version, server, trouble>>

NotServed == -2
Adding == -1
Version == 0..MaxVersion

\* TargetState: what the aggregator knows of a target.
NewTarget == [waiting |-> 0, current |-> FALSE, changed |-> TRUE, docs |-> 0]
NoTargets == [q \in Query |-> NewTarget]

Message == [type : {"watch", "unwatch", "added", "removed", "error"},
            q : Query, v : {0}]
           \cup [type : {"current", "change"}, q : Query, v : Version]
           \cup [type : {"snapshot"}, q : {"all"}, v : {0}]
Msg(type, q, v) == [type |-> type, q |-> q, v |-> v]
Event == [l : Listener, v : Version, from : {"server", "cache", "error"}]
Nothing == [l |-> "none", v |-> 0, from |-> "nobody"]

TypeOK ==
  /\ c.state \in State \ {"Healthy"}  \* health matters to tokens only
  /\ {c.idle, c.request, c.timer} \subseteq BOOLEAN
  /\ c.up \in Seq(Message) /\ c.down \in Seq(Message)
  /\ c.online \in {"Unknown", "Online", "Offline"}
  /\ c.failures \in 0..MaxTrouble
  /\ c.target \in [Query -> [waiting : Nat, current : BOOLEAN,
                             changed : BOOLEAN, docs : Version]]
  /\ c.listeners \in SUBSET Listener /\ c.raised \in SUBSET Listener
  /\ c.synced \in SUBSET Query
  /\ c.docs \in [Query -> Version]
  /\ c.events \in Seq(Event)
  /\ muted \in SUBSET Gets
  /\ called \in [Listener -> Event \cup {Nothing}]
  /\ asked \in [Listener -> -2..MaxVersion]
  /\ version \in 1..MaxVersion
  /\ serving \in [Query -> NotServed..MaxVersion]
  /\ dirty \in BOOLEAN
  /\ trouble \in 0..MaxTrouble

Targets(s) == {QueryOf[l] : l \in s.listeners}
-----------------------------------------------------------------------------
(***************************************************************************)
(* QueryListener and EventManager.                                         *)
(***************************************************************************)
\* A get waits for the server unless the client is offline.
ShouldRaiseInitialEvent(s, l) ==
  \/ QueryOf[l] \in s.synced
  \/ s.online = "Offline"
  \/ l \notin Gets /\ s.docs[QueryOf[l]] > 0

EventOf(s, l) ==
  [l |-> l, v |-> s.docs[QueryOf[l]],
   from |-> IF QueryOf[l] \in s.synced THEN "server" ELSE "cache"]

Raise(s, ls) ==
  [s EXCEPT !.raised = @ \cup ls,
            !.events = @ \o SetToSeq({EventOf(s, l) : l \in ls})]

\* Snapshots of views: docs and sync have the queries whose documents or
\* sync state changed.  Only a get wants to hear of the latter.
OnViewSnapshots(s, docs, sync) ==
  Raise(s, {l \in s.listeners :
              IF l \in s.raised
              THEN QueryOf[l] \in docs \/ (l \in Gets /\ QueryOf[l] \in sync)
              ELSE ShouldRaiseInitialEvent(s, l)})

\* Only the views hear of it, not the listeners that wait.
HandleOnlineStateChangeOfViews(s) ==
  IF s.online = "Offline" THEN [s EXCEPT !.synced = {}] ELSE s
\* Offline, no view is current any more and whoever waits gets the cache.
HandleOnlineStateChange(s) ==
  IF s.online = "Offline"
  THEN OnViewSnapshots([s EXCEPT !.synced = {}], {}, s.synced)
  ELSE s
-----------------------------------------------------------------------------
(***************************************************************************)
(* OnlineStateTracker.                                                     *)
(***************************************************************************)
SetAndBroadcast(s, state) ==
  IF s.online = state THEN s
  ELSE HandleOnlineStateChange([s EXCEPT !.online = state])

HandleWatchStreamStart(s) ==
  IF s.failures # 0 THEN s
  ELSE [SetAndBroadcast(s, "Unknown") EXCEPT !.timer = TRUE]

HandleWatchStreamFailure(s) ==
  LET counted == [s EXCEPT !.failures = @ + 1]
  IN  IF s.online = "Online" THEN SetAndBroadcast(s, "Unknown")
      ELSE IF counted.failures < kMaxWatchStreamFailures THEN counted
      ELSE SetAndBroadcast([counted EXCEPT !.timer = FALSE], "Offline")

\* The timer is left running.
UpdateStateKeepsTimer(s, state) ==
  SetAndBroadcast([s EXCEPT !.failures = 0], state)
UpdateState(s, state) ==
  SetAndBroadcast([s EXCEPT !.timer = FALSE, !.failures = 0], state)
-----------------------------------------------------------------------------
(***************************************************************************)
(* RemoteStore: the watch stream.                                          *)
(***************************************************************************)
Request(s, type, q) ==
  Send([s EXCEPT !.target[q].waiting = @ + 1], <<Msg(type, q, 0)>>)

ShouldStartWatchStream(s) == ~IsStarted(s) /\ Targets(s) # {}

StartWatchStream(s) ==
  HandleWatchStreamStart(Start([s EXCEPT !.target = NoTargets]))

RemoteListen(s, q) ==
  IF ShouldStartWatchStream(s) THEN StartWatchStream(s)
  ELSE IF IsOpen(s) THEN Request(s, "watch", q)
  ELSE s

StopListening(s, q) ==
  LET t == IF IsOpen(s) THEN Request(s, "unwatch", q) ELSE s
  IN  IF Targets(s) # {} THEN t
      ELSE IF IsOpen(s) THEN MarkIdle(t)
      ELSE UpdateState(t, "Unknown")

CleanUpWatchStreamState(s) == [s EXCEPT !.target = NoTargets]

OnWatchStreamClose(s, endState) ==
  LET t == CleanUpWatchStreamState(EndStream(s, endState))
  IN  IF ShouldStartWatchStream(t)
      THEN StartWatchStream(HandleWatchStreamFailure(t))
      ELSE UpdateState(t, "Unknown")

RestartNetwork(s) ==
  LET t == UpdateState(CleanUpWatchStreamState(EndStream(s, "Initial")),
                       "Unknown")
  IN  IF ShouldStartWatchStream(t) THEN StartWatchStream(t) ELSE t
-----------------------------------------------------------------------------
(***************************************************************************)
(* WatchChangeAggregator, and what a message does to the client.           *)
(***************************************************************************)
\* Outstanding responses are not looked at.
IsWatchedTarget(s, q) == q \in Targets(s)
IsActiveTarget(s, q) == q \in Targets(s) /\ s.target[q].waiting = 0

\* Only a removal counts as a response.
HandleAddedUncounted(s, q) ==
  [s EXCEPT !.target[q].changed = FALSE, !.target[q].docs = 0]
HandleAdded(s, q) ==
  LET n == s.target[q].waiting - 1
  IN  [s EXCEPT !.target[q] =
         IF n # 0 THEN [@ EXCEPT !.waiting = n]
         ELSE [@ EXCEPT !.waiting = 0, !.changed = FALSE, !.docs = 0]]

\* The target is forgotten although it is watched again.
HandleRemovedForgets(s, q) == [s EXCEPT !.target[q] = NewTarget]
HandleRemoved(s, q) ==
  LET n == s.target[q].waiting - 1
  IN  [s EXCEPT !.target[q] =
         IF n # 0 THEN [@ EXCEPT !.waiting = n] ELSE NewTarget]

HandleDocuments(s, q, v) ==
  IF IsActiveTarget(s, q)
  THEN [s EXCEPT !.target[q].docs = v, !.target[q].changed = TRUE]
  ELSE s

HandleCurrent(s, q, v) ==
  IF IsActiveTarget(s, q)
  THEN [HandleDocuments(s, q, v) EXCEPT !.target[q].current = TRUE]
  ELSE s

\* CreateRemoteEvent, and its application to cache and views.
RaiseWatchSnapshot(s) ==
  LET changed == {q \in Query : IsActiveTarget(s, q) /\ s.target[q].changed}
      docs == {q \in changed : s.target[q].docs > s.docs[q]}
      current == {q \in changed : s.target[q].current}
      synced == (s.synced \ changed) \cup current
      t == [s EXCEPT
             !.docs = [q \in Query |-> IF q \in docs THEN s.target[q].docs
                                       ELSE s.docs[q]],
             !.target = [q \in Query |->
                           IF q \in changed
                           THEN [s.target[q] EXCEPT !.changed = FALSE, !.docs = 0]
                           ELSE s.target[q]],
             !.synced = synced]
  IN  OnViewSnapshots(t, docs, {q \in changed : (q \in synced) # (q \in s.synced)})

\* They are forgotten without a word.
ProcessTargetErrorSilent(s, q) ==
  [s EXCEPT !.target[q] = NewTarget, !.synced = @ \ {q},
            !.listeners = {l \in @ : QueryOf[l] # q}]
\* The listeners of a refused query are told and forgotten.
ProcessTargetError(s, q) ==
  LET told == {l \in s.listeners : QueryOf[l] = q}
  IN  IF told = {} THEN s
      ELSE [s EXCEPT !.target[q] = NewTarget, !.listeners = @ \ told,
                     !.synced = @ \ {q},
                     !.events = @ \o SetToSeq({[l |-> l, v |-> 0, from |-> "error"] :
                                                 l \in told})]

OnWatchStreamChange(s, m) ==
  LET t == UpdateState(s, "Online")
  IN  CASE m.type = "added"    -> HandleAdded(t, m.q)
        [] m.type = "removed"  -> HandleRemoved(t, m.q)
        [] m.type = "change"   -> HandleDocuments(t, m.q, m.v)
        [] m.type = "current"  -> HandleCurrent(t, m.q, m.v)
        [] m.type = "snapshot" -> RaiseWatchSnapshot(t)
        [] m.type = "error"    -> ProcessTargetError(t, m.q)
-----------------------------------------------------------------------------
(***************************************************************************)
(* Handlers.                                                               *)
(***************************************************************************)
Init ==
  /\ c = [state |-> "Initial", idle |-> FALSE, request |-> FALSE,
          up |-> <<>>, down |-> <<>>,
          online |-> "Unknown", failures |-> 0, timer |-> FALSE,
          target |-> NoTargets, listeners |-> {}, raised |-> {},
          synced |-> {}, docs |-> [q \in Query |-> 0], events |-> <<>>]
  /\ muted = {}
  /\ called = [l \in Listener |-> Nothing]
  /\ \E visit \in Visits :
       asked = [l \in Listener |-> IF l \in visit THEN -1 ELSE -2]
  /\ version = 1
  /\ serving = [q \in Query |-> NotServed]
  /\ dirty = FALSE
  /\ trouble = 0

\* What the server has of a stream goes with the stream.
ConnectionOver ==
  /\ serving' = [q \in Query |-> NotServed]
  /\ dirty' = FALSE

\* A new view is never current, and it has what the cache has.
AddQueryListener(l) ==
  LET q == QueryOf[l]
      first == q \notin Targets(c)
      s == [c EXCEPT !.listeners = @ \cup {l},
                     !.synced = IF first THEN @ \ {q} ELSE @]
      t == IF ShouldRaiseInitialEvent(s, l) THEN Raise(s, {l}) ELSE s
  IN  /\ asked[l] = -1
      /\ asked' = [asked EXCEPT ![l] = IF first THEN version ELSE 0]
      /\ c' = IF first THEN RemoteListen(t, q) ELSE t
      /\ UNCHANGED <<muted, called, version, server, trouble>>

\* An event that was already enqueued is called back all the same.
CallBackUnmuted ==
  LET e == Head(c.events)
  IN  /\ c.events # <<>>
      /\ c' = [c EXCEPT !.events = Tail(@)]
      /\ called' = [called EXCEPT ![e.l] = e]
      /\ muted' = IF e.l \in Gets /\ e.from # "error"
                  THEN muted \cup {e.l} ELSE muted
      /\ UNCHANGED <<asked, version, server, trouble>>
\* The main queue runs the next event.  A get removes its listener first.
CallBack ==
  LET e == Head(c.events)
  IN  /\ c.events # <<>>
      /\ c' = [c EXCEPT !.events = Tail(@)]
      /\ IF e.l \in muted THEN UNCHANGED <<called, muted>>
         ELSE /\ called' = [called EXCEPT ![e.l] = e]
              /\ muted' = IF e.l \in Gets /\ e.from # "error"
                          THEN muted \cup {e.l} ELSE muted
      /\ UNCHANGED <<asked, version, server, trouble>>

RemoveQueryListener(l) ==
  LET s == [c EXCEPT !.listeners = @ \ {l}]
  IN  /\ l \in muted \cap c.listeners
      /\ c' = IF QueryOf[l] \in Targets(s) THEN s
              ELSE StopListening([s EXCEPT !.synced = @ \ {QueryOf[l]}],
                                 QueryOf[l])
      /\ UNCHANGED <<app, version, server, trouble>>

\* Nothing is watched on a new stream that was listened to before.
OnWatchStreamOpenOnly ==
  /\ c.request
  /\ c' = ResumeStart(c)
  /\ UNCHANGED <<app, version, server, trouble>>
\* The credentials arrive: the stream opens and watches every target.
OnWatchStreamOpen ==
  LET open == ResumeStart(c)
      qs == SetToSeq(Targets(c))
      watched == [q \in Query |-> IF q \in Targets(c)
                                  THEN [c.target[q] EXCEPT !.waiting = @ + 1]
                                  ELSE c.target[q]]
  IN  /\ c.request
      /\ c' = Send([open EXCEPT !.target = watched],
                   [i \in DOMAIN qs |-> Msg("watch", qs[i], 0)])
      /\ UNCHANGED <<app, version, server, trouble>>

OnStreamRead ==
  /\ c.down # <<>>
  /\ c' = OnWatchStreamChange([c EXCEPT !.down = Tail(@)], Head(c.down))
  /\ UNCHANGED <<app, version, server, trouble>>

BackoffElapsed ==
  /\ c.state = "Backoff"
  /\ c' = Resume(c)
  /\ UNCHANGED <<app, version, server, trouble>>

OnlineStateTimeout ==
  /\ c.timer
  /\ c' = SetAndBroadcast([c EXCEPT !.timer = FALSE], "Offline")
  /\ UNCHANGED <<app, version, server, trouble>>

IdleTimeout ==
  /\ c.idle
  /\ c' = OnWatchStreamClose(c, "Initial")
  /\ ConnectionOver
  /\ UNCHANGED <<app, version, trouble>>

Trouble == trouble < MaxTrouble /\ trouble' = trouble + 1

StreamFails ==
  /\ Trouble
  /\ IsOpen(c) \/ c.request
  /\ c' = OnWatchStreamClose(c, "Error")
  /\ ConnectionOver
  /\ UNCHANGED <<app, version>>

\* The network changed, or another user signed in.
ConnectivityChanged ==
  /\ Trouble
  /\ c' = RestartNetwork(c)
  /\ ConnectionOver
  /\ UNCHANGED <<app, version>>
-----------------------------------------------------------------------------
(***************************************************************************)
(* The server.                                                             *)
(***************************************************************************)
ServerTakes ==
  LET m == Head(c.up)
      answer == IF m.type = "unwatch"
                THEN IF serving[m.q] = NotServed THEN <<>>
                     ELSE <<Msg("removed", m.q, 0)>>
                ELSE <<Msg(IF m.q \in Denied THEN "error" ELSE "added", m.q, 0)>>
  IN  /\ c.up # <<>>
      /\ c' = [c EXCEPT !.up = Tail(@), !.down = @ \o answer]
      /\ serving' = [serving EXCEPT ![m.q] =
                       IF m.type = "unwatch" \/ m.q \in Denied
                       THEN NotServed ELSE Adding]
      /\ UNCHANGED <<app, version, dirty, trouble>>

ServerSends(q) ==
  /\ serving[q] \in Adding..(version - 1)
  /\ serving' = [serving EXCEPT ![q] = version]
  /\ dirty' = TRUE
  /\ c' = [c EXCEPT !.down = Append(@,
             Msg(IF serving[q] = Adding THEN "current" ELSE "change", q, version))]
  /\ UNCHANGED <<app, version, trouble>>

ServerSnapshots ==
  /\ dirty
  /\ \A q \in Query : serving[q] # Adding
  /\ dirty' = FALSE
  /\ c' = [c EXCEPT !.down = Append(@, Msg("snapshot", "all", 0))]
  /\ UNCHANGED <<app, version, serving, trouble>>

OthersWrite ==
  /\ version < MaxVersion
  /\ version' = version + 1
  /\ UNCHANGED <<c, app, server, trouble>>

ServerActs == ServerTakes \/ ServerSnapshots \/ \E q \in Query : ServerSends(q)
-----------------------------------------------------------------------------
ClientSteps ==
  \/ CallBack \/ OnWatchStreamOpen \/ OnStreamRead
  \/ BackoffElapsed \/ OnlineStateTimeout \/ IdleTimeout
  \/ \E l \in Listener : RemoveQueryListener(l)

Next ==
  \/ \E l \in Listener : AddQueryListener(l)
  \/ ClientSteps \/ ServerActs
  \/ StreamFails \/ ConnectivityChanged \/ OthersWrite

(* The client's queues run what is enqueued, timers fire and credentials   *)
(* arrive.  The server may stay silent.                                    *)
SilentSpec == Init /\ [][Next]_vars /\ WF_vars(ClientSteps)

\* A server that is reached answers.
Spec == SilentSpec /\ WF_vars(ServerActs)
-----------------------------------------------------------------------------
(***************************************************************************)
(* What must hold.                                                         *)
(***************************************************************************)
(* The heuristics of OnlineStateTracker stay in step with the state, also  *)
(* over restarts of the network (its assertions): the timer runs only      *)
(* while the state is unknown, and an online client has no failures.       *)
TrackerConsistent ==
  /\ c.timer => c.online = "Unknown"
  /\ c.online = "Online" => c.failures = 0

\* Where a sequence of messages has those of the given types about q.
Of(messages, q, types) ==
  {i \in DOMAIN messages : messages[i].q = q /\ messages[i].type \in types}

InFlight(q, types) ==
  Cardinality(Of(c.up, q, types)) + Cardinality(Of(c.down, q, types))

(* The aggregator's count of outstanding responses is exact, through every *)
(* removal and repeated listen of one target: it is the number of requests *)
(* and confirmations under way, so messages of an earlier listen are told  *)
(* from those of the present one.                                          *)
CountsExact ==
  \A q \in Query \ Denied :
    c.target[q].waiting = InFlight(q, {"watch", "unwatch", "added", "removed"})

(* A listener that heard nothing yet waits for a reason: the client is not *)
(* offline, its view is not in sync, and the stream it waits for runs.     *)
WaitingHasReason ==
  \A l \in c.listeners \ c.raised :
    c.online # "Offline" /\ QueryOf[l] \notin c.synced /\ IsStarted(c)

(* The idle timer runs only while nothing is watched (the assertion of     *)
(* OnWatchStreamClose), and credentials meet the attempt they are for.     *)
IdleMeansUnwatched ==
  /\ c.idle => Targets(c) = {}
  /\ c.request => c.state = "Starting"

(* Tracker, timers and requests belong to the state the client is in.      *)
ClientInStep == TypeOK /\ TrackerConsistent /\ IdleMeansUnwatched

(* When nothing is under way on an open stream, every view has what the    *)
(* server sent last and knows it: no message was dropped that should have  *)
(* been applied.                                                           *)
QuietMeansInSync ==
  (IsOpen(c) /\ c.up = <<>> /\ c.down = <<>> /\ ~dirty) =>
    \A q \in Targets(c) :
      serving[q] >= 0 => q \in c.synced /\ c.docs[q] = serving[q]

(* The handler of a get is called at most once, although its listener may  *)
(* raise more events before it is removed.                                 *)
GetCalledOnce ==
  [][\A l \in Gets : called[l] # Nothing => called'[l] = called[l]]_vars

(* A get whose query nobody else listened to, answered "from the server",  *)
(* has data at least as new as the server's when it was called: no message *)
(* of an earlier listen of the query passes for its answer.                *)
AnswersAreFresh ==
  \A l \in Gets : called[l].from = "server" => called[l].v >= asked[l]

(* Every get is called back: from the server, from the cache, or with the  *)
(* refusal of its query.                                                   *)
EveryGetAnswered ==
  \A l \in Gets : (asked[l] >= 0) ~> (called[l] # Nothing)

(* While something is listened to, "Unknown" does not last, also if the    *)
(* server never answers: it "should become Offline or Online if we wait    *)
(* long enough" (query_listener.cc), by the timeout of online_state_       *)
(* tracker.cc.                                                             *)
UnknownIsLeft ==
  (c.online = "Unknown" /\ Targets(c) # {})
    ~> (c.online # "Unknown" \/ Targets(c) = {})

(* A snapshot listener that was not refused shows the newest data in the   *)
(* end, whatever failed on the way.                                        *)
ListenersCatchUp ==
  \A l \in Listener \ Gets :
    <>[](l \in c.listeners => called[l].v = version)
=============================================================================
