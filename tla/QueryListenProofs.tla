-------------------------- MODULE QueryListenProofs --------------------------
(***************************************************************************)
(* Proofs about the read path of the Firestore client, for every set of    *)
(* queries and listeners and any number of failures: the tracker of the    *)
(* online state, the stream and the listeners stay in step, the responses  *)
(* a target waits for are counted exactly, a get is called back once, what *)
(* it answers is as new as what it asked for, and a client with nothing    *)
(* left to receive shows the server's documents.                           *)
(***************************************************************************)
EXTENDS QueryListen, TLAPS, FiniteSetTheorems, FunctionTheorems, SequenceTheorems

(***************************************************************************)
(* Sequences of messages and events.                                       *)
(***************************************************************************)

(* Of a finite set, SetToSeq has every element once.                       *)
LEMMA SetToSeqFacts ==
  ASSUME NEW S, IsFiniteSet(S)
  PROVE  /\ SetToSeq(S) \in Seq(S)
         /\ \A i, j \in DOMAIN SetToSeq(S) : SetToSeq(S)[i] = SetToSeq(S)[j] => i = j
         /\ \A x \in S : \E i \in DOMAIN SetToSeq(S) : SetToSeq(S)[i] = x
<1>1. PICK n : n = Cardinality(S)
  OBVIOUS
<1>2. n \in Nat /\ ExistsBijection(1..n, S)
  BY <1>1, FS_CardinalityType
<1>3. PICK g \in Bijection(1..n, S) : TRUE
  BY <1>2 DEF ExistsBijection
<1>4. g \in [1..n -> S] /\ IsInjective(g)
  BY <1>3 DEF Bijection, Injection
<1>5. PICK f : f = SetToSeq(S)
  OBVIOUS
<1>6. f \in [1..n -> S] /\ IsInjective(f)
  BY <1>1, <1>4, <1>5 DEF SetToSeq
<1>7. f \in Injection(1..n, S)
  BY <1>6 DEF Injection
<1>8. Cardinality(1..n) = n /\ IsFiniteSet(1..n)
  BY <1>2, FS_Interval
<1>9. f \in Surjection(1..n, S)
  BY <1>1, <1>7, <1>8, FS_Injection
<1>10. \A x \in S : \E i \in 1..n : f[i] = x
  BY <1>9 DEF Surjection
<1>11. f \in Seq(S) /\ DOMAIN f = 1..n
  BY <1>2, <1>6
<1> QED
  BY <1>5, <1>6, <1>10, <1>11 DEF IsInjective

(* The queries of finitely many listeners are finitely many.               *)
LEMMA FinitelyManyTargets ==
  ASSUME NEW s, s.listeners \in SUBSET Listener, IsFiniteSet(s.listeners)
  PROVE  IsFiniteSet(Targets(s)) /\ Targets(s) \subseteq Query
<1>1. PICK S : S = s.listeners
  OBVIOUS
<1>2. PICK f : f = [l \in S |-> QueryOf[l]]
  OBVIOUS
<1>3. f \in Surjection(S, Targets(s))
  BY <1>1, <1>2 DEF Targets, Surjection
<1>4. IsFiniteSet(Targets(s))
  BY <1>1, <1>3, FS_Surjection
<1> QED
  BY <1>4, ListenAssumption DEF Targets

(* So are the events made of them.                                         *)
LEMMA FinitelyManyEvents ==
  ASSUME NEW S, IsFiniteSet(S), NEW f, NEW T, f \in [S -> T]
  PROVE  IsFiniteSet({f[l] : l \in S})
<1>1. f \in Surjection(S, {f[l] : l \in S})
  BY DEF Surjection
<1> QED
  BY <1>1, FS_Surjection

(***************************************************************************)
(* Counting messages.                                                      *)
(***************************************************************************)
(* Messages about a query are finitely many.                               *)
LEMMA OfFinite ==
  ASSUME NEW T, NEW ms \in Seq(T), NEW q, NEW types
  PROVE  IsFiniteSet(Of(ms, q, types)) /\ Cardinality(Of(ms, q, types)) \in Nat
<1>1. IsFiniteSet(DOMAIN ms)
  <2>1. Len(ms) \in Nat /\ DOMAIN ms = 1..Len(ms)
    OBVIOUS
  <2> QED
    BY <2>1, FS_Interval
<1>2. Of(ms, q, types) \in SUBSET DOMAIN ms
  BY DEF Of
<1>3. IsFiniteSet(Of(ms, q, types))
  BY <1>1, <1>2, FS_Subset
<1> QED
  BY <1>3, FS_CardinalityType

(* An empty channel has none.                                              *)
LEMMA OfEmpty ==
  ASSUME NEW q, NEW types
  PROVE  Cardinality(Of(<<>>, q, types)) = 0
<1>1. Of(<<>>, q, types) = {}
  BY DEF Of
<1> QED
  BY <1>1, FS_EmptySet

(* A message sent is one more if it is meant.                              *)
LEMMA OfAppend ==
  ASSUME NEW T, NEW ms \in Seq(T), NEW m \in T, NEW q, NEW types
  PROVE  Cardinality(Of(Append(ms, m), q, types)) =
           Cardinality(Of(ms, q, types)) + IF m.q = q /\ m.type \in types THEN 1 ELSE 0
<1>1. PICK n, A, B, r : /\ n = Len(ms) /\ r = Append(ms, m)
                        /\ A = Of(ms, q, types) /\ B = Of(r, q, types)
  OBVIOUS
<1>2. /\ n \in Nat /\ DOMAIN ms = 1..n /\ DOMAIN r = 1..(n + 1)
      /\ r[n + 1] = m /\ \A i \in 1..n : r[i] = ms[i]
  BY <1>1
<1>3. IsFiniteSet(A) /\ Cardinality(A) \in Nat /\ n + 1 \notin A /\ A \subseteq 1..n
  <2>1. A \subseteq 1..n
    BY <1>1, <1>2 DEF Of
  <2> QED
    BY <2>1, <1>1, <1>2, OfFinite
<1>4. \A i \in 1..(n + 1) : i \in 1..n \/ i = n + 1
  BY <1>2
<1>5. \A i \in 1..n : i \in 1..(n + 1) /\ i # n + 1
  BY <1>2
<1>6. n + 1 \in 1..(n + 1)
  BY <1>2
<1>7. B \ {n + 1} = A
  BY <1>1, <1>2, <1>4, <1>5 DEF Of
<1>8. n + 1 \in B <=> (m.q = q /\ m.type \in types)
  BY <1>1, <1>2, <1>6 DEF Of
<1>9. CASE m.q = q /\ m.type \in types
  <2>1. B = A \cup {n + 1}
    BY <1>7, <1>8, <1>9
  <2>2. Cardinality(B) = Cardinality(A) + 1
    BY <2>1, <1>3, FS_AddElement
  <2> QED
    BY <2>2, <1>1, <1>9
<1>10. CASE ~ (m.q = q /\ m.type \in types)
  <2>1. B = A
    BY <1>7, <1>8, <1>10
  <2> QED
    BY <2>1, <1>1, <1>3, <1>10
<1> QED
  BY <1>9, <1>10

(* A message taken is one less.                                            *)
LEMMA OfTail ==
  ASSUME NEW T, NEW ms \in Seq(T), ms # <<>>, NEW q, NEW types
  PROVE  Cardinality(Of(ms, q, types)) =
           Cardinality(Of(Tail(ms), q, types))
           + IF Head(ms).q = q /\ Head(ms).type \in types THEN 1 ELSE 0
<1>1. PICK n, A, B, r, m : /\ n = Len(ms) - 1 /\ r = Tail(ms) /\ m = Head(ms)
                           /\ A = Of(r, q, types) /\ B = Of(ms, q, types)
  OBVIOUS
<1>2. /\ n \in Nat /\ DOMAIN ms = 1..(n + 1) /\ DOMAIN r = 1..n /\ r \in Seq(T)
      /\ m = ms[1] /\ \A i \in 1..n : r[i] = ms[i + 1]
  BY <1>1
<1>3. IsFiniteSet(A) /\ Cardinality(A) \in Nat /\ A \subseteq 1..n /\ IsFiniteSet(B)
  <2>1. A \subseteq 1..n
    BY <1>1, <1>2 DEF Of
  <2> QED
    BY <2>1, <1>1, <1>2, OfFinite
<1>4. PICK C : C = B \ {1}
  OBVIOUS
<1>5. IsFiniteSet(C) /\ Cardinality(C) = IF 1 \in B THEN Cardinality(B) - 1 ELSE Cardinality(B)
  BY <1>3, <1>4, FS_RemoveElement
<1>6. 1 \in B <=> (m.q = q /\ m.type \in types)
  <2>1. 1 \in 1..(n + 1)
    BY <1>2
  <2> QED
    BY <2>1, <1>1, <1>2 DEF Of
<1>7. Cardinality(C) = Cardinality(A)
  <2>1. PICK f : f = [i \in A |-> i + 1]
    OBVIOUS
  <2>2. ASSUME NEW i \in A PROVE i + 1 \in C
    <3>1. i \in 1..n /\ r[i].q = q /\ r[i].type \in types
      BY <1>1, <1>2, <1>3 DEF Of
    <3>2. i + 1 \in 1..(n + 1) /\ i + 1 # 1 /\ ms[i + 1] = r[i]
      BY <3>1, <1>2
    <3> QED
      BY <3>1, <3>2, <1>1, <1>2, <1>4 DEF Of
  <2>3. ASSUME NEW k \in C PROVE \E i \in A : k = i + 1
    <3>1. k \in 1..(n + 1) /\ k # 1 /\ ms[k].q = q /\ ms[k].type \in types
      BY <1>1, <1>2, <1>4 DEF Of
    <3>2. PICK i : i = k - 1
      OBVIOUS
    <3>3. i \in 1..n /\ k = i + 1 /\ r[i] = ms[k]
      BY <3>1, <3>2, <1>2
    <3> QED
      BY <3>1, <3>3, <1>1, <1>2 DEF Of
  <2>4. f \in Surjection(A, C)
    BY <2>1, <2>2, <2>3 DEF Surjection
  <2>5. f \in Injection(A, C)
    <3>1. \A i, j \in A : i + 1 = j + 1 => i = j
      BY <1>2, <1>3
    <3>2. f \in [A -> C]
      BY <2>1, <2>2
    <3> QED
      BY <3>1, <3>2, <2>1 DEF Injection, IsInjective
  <2> QED
    BY <2>4, <2>5, <1>3, FS_Surjection
<1>8. Cardinality(B) \in Nat
  BY <1>3, FS_CardinalityType
<1> QED
  BY <1>1, <1>5, <1>6, <1>7, <1>8

(***************************************************************************)
(* The client's record, and what its operators do to it.                   *)
(***************************************************************************)
(* The messages that travel up, and those that travel down.                *)
Requests == [type : {"watch", "unwatch"}, q : Query, v : {0}]
Replies == [type : {"added", "removed", "error"}, q : Query, v : {0}]
           \cup [type : {"current", "change"}, q : Query, v : Version]
           \cup [type : {"snapshot"}, q : {"all"}, v : {0}]
TargetType == [waiting : Nat, current : BOOLEAN, changed : BOOLEAN, docs : Version]

ClientType ==
  [state : State \ {"Healthy"}, idle : BOOLEAN, request : BOOLEAN,
   up : Seq(Requests), down : Seq(Replies),
   online : {"Unknown", "Online", "Offline"}, failures : Nat, timer : BOOLEAN,
   target : [Query -> TargetType],
   listeners : SUBSET Listener, raised : SUBSET Listener,
   synced : SUBSET Query, docs : [Query -> Version], events : Seq(Event)]

(* The stream is as before; so is what is watched and what it counts.      *)
SameStream(s, r) ==
  /\ r.state = s.state /\ r.idle = s.idle /\ r.request = s.request
  /\ r.up = s.up /\ r.down = s.down
SameWatch(s, r) == r.target = s.target /\ r.listeners = s.listeners

(* An event tells a listener what its view has: "server" means in sync.    *)
Tells(s, e) ==
  /\ e.l \in s.listeners /\ e.from # "error"
  /\ e.from = "server" => QueryOf[e.l] \in s.synced /\ e.v = s.docs[QueryOf[e.l]]

(* Events were added that tell what the views had; some are out of sync.   *)
Later(s, r) ==
  /\ Len(s.events) <= Len(r.events)
  /\ \A i \in 1..Len(s.events) : r.events[i] = s.events[i]
  /\ \A i \in (Len(s.events) + 1)..Len(r.events) : Tells(s, r.events[i])
  /\ r.synced \in SUBSET s.synced /\ r.docs = s.docs

(* A listener that heard nothing is not in sync with an online client.     *)
Waits(s) ==
  \A l \in s.listeners \ s.raised : s.online # "Offline" /\ QueryOf[l] \notin s.synced

(* The timer and the failures suit the online state.                       *)
Tracked(s) ==
  /\ s.timer => s.online = "Unknown"
  /\ s.online = "Online" => s.failures = 0

(* What the record of the client is made of.                               *)
LEMMA ClientFields ==
  ASSUME NEW s \in ClientType
  PROVE  /\ s.state \in State \ {"Healthy"} /\ s.idle \in BOOLEAN /\ s.request \in BOOLEAN
         /\ s.up \in Seq(Requests) /\ s.down \in Seq(Replies)
         /\ s.online \in {"Unknown", "Online", "Offline"} /\ s.failures \in Nat
         /\ s.timer \in BOOLEAN /\ s.target \in [Query -> TargetType]
         /\ s.listeners \in SUBSET Listener /\ s.raised \in SUBSET Listener
         /\ s.synced \in SUBSET Query /\ s.docs \in [Query -> Version]
         /\ s.events \in Seq(Event)
BY DEF ClientType

(* Events appended are later ones.                                         *)
LEMMA AppendedLater ==
  ASSUME NEW s, NEW r, s.events \in Seq(Event), NEW es \in Seq(Event),
         r.events = s.events \o es, \A i \in DOMAIN es : Tells(s, es[i]),
         r.synced \in SUBSET s.synced, r.docs = s.docs
  PROVE  Later(s, r)
<1>1. PICK a, b, n, m : a = s.events /\ b = r.events /\ n = Len(a) /\ m = Len(es)
  OBVIOUS
<1>2. /\ n \in Nat /\ m \in Nat /\ Len(b) = n + m /\ DOMAIN es = 1..m
      /\ \A i \in 1..n : b[i] = a[i]
      /\ \A i \in (n + 1)..(n + m) : b[i] = es[i - n] /\ i - n \in 1..m
  BY <1>1
<1>3. ASSUME NEW i \in (n + 1)..Len(b) PROVE Tells(s, b[i])
  <2>1. PICK k : k = i - n
    OBVIOUS
  <2>2. k \in DOMAIN es /\ b[i] = es[k]
    BY <2>1, <1>2
  <2> QED
    BY <2>2
<1>4. n <= Len(b) /\ \A i \in 1..n : b[i] = a[i]
  BY <1>2
<1> QED
  BY <1>1, <1>3, <1>4 DEF Later

(* Later twice.                                                            *)
LEMMA LaterTwice ==
  ASSUME NEW s \in ClientType, NEW r \in ClientType, NEW t \in ClientType,
         Later(s, r), Later(r, t), r.listeners = s.listeners
  PROVE  Later(s, t)
<1>1. Len(s.events) \in Nat /\ Len(r.events) \in Nat /\ Len(t.events) \in Nat
  BY ClientFields
<1>2. ASSUME NEW i \in (Len(s.events) + 1)..Len(t.events)
      PROVE  Tells(s, t.events[i])
  <2>1. i \in (Len(s.events) + 1)..Len(r.events) \/ i \in (Len(r.events) + 1)..Len(t.events)
    BY <1>1
  <2>2. CASE i \in (Len(s.events) + 1)..Len(r.events)
    <3>1. i \in 1..Len(r.events)
      BY <2>2, <1>1
    <3>2. t.events[i] = r.events[i] /\ Tells(s, r.events[i])
      BY <2>2, <3>1 DEF Later
    <3> QED
      BY <3>2
  <2>3. CASE i \in (Len(r.events) + 1)..Len(t.events)
    <3>1. Tells(r, t.events[i]) /\ r.synced \in SUBSET s.synced /\ r.docs = s.docs
      BY <2>3 DEF Later
    <3> QED
      BY <3>1 DEF Tells
  <2> QED
    BY <2>1, <2>2, <2>3
<1>3. ASSUME NEW i \in 1..Len(s.events) PROVE t.events[i] = s.events[i]
  <2>1. i \in 1..Len(r.events)
    BY <1>1 DEF Later
  <2> QED
    BY <2>1 DEF Later
<1>4. Len(s.events) <= Len(t.events)
  BY <1>1 DEF Later
<1> QED
  BY <1>2, <1>3, <1>4 DEF Later

(* Nothing happened.                                                       *)
LEMMA LaterSame ==
  ASSUME NEW s \in ClientType, NEW r, r.events = s.events,
         r.synced \in SUBSET s.synced, r.docs = s.docs
  PROVE  Later(s, r)
<1>1. Len(s.events) \in Nat
  BY ClientFields
<1> QED
  BY <1>1 DEF Later

(* Later than a client that knows no more.                                 *)
LEMMA LaterFrom ==
  ASSUME NEW s, NEW w, NEW r, Later(w, r), w.events = s.events,
         w.listeners \in SUBSET s.listeners, w.synced \in SUBSET s.synced,
         w.docs = s.docs
  PROVE  Later(s, r)
<1>1. \A e : Tells(w, e) => Tells(s, e)
  BY DEF Tells
<1>2. r.synced \in SUBSET s.synced /\ r.docs = s.docs
  BY DEF Later
<1> QED
  BY <1>1, <1>2 DEF Later

(* Events were added that tell what the views have now.                    *)
Shown(t, r) ==
  /\ r.listeners = t.listeners
  /\ \E w \in ClientType : /\ w.events = t.events /\ w.listeners = t.listeners
                           /\ w.docs = r.docs /\ w.synced = r.synced /\ Later(w, r)

(* Raise adds one event for each of the listeners.                         *)
LEMMA RaiseShape ==
  ASSUME NEW s \in ClientType, NEW ls \in SUBSET s.listeners, IsFiniteSet(ls)
  PROVE  /\ Raise(s, ls) \in ClientType
         /\ SameStream(s, Raise(s, ls)) /\ SameWatch(s, Raise(s, ls))
         /\ Raise(s, ls).online = s.online /\ Raise(s, ls).failures = s.failures
         /\ Raise(s, ls).timer = s.timer /\ Raise(s, ls).synced = s.synced
         /\ Raise(s, ls).docs = s.docs
         /\ Raise(s, ls).raised = s.raised \cup ls
         /\ Later(s, Raise(s, ls))
<1>1. PICK f : f = [l \in ls |-> EventOf(s, l)]
  OBVIOUS
<1>2. PICK E : E = {EventOf(s, l) : l \in ls}
  OBVIOUS
<1>3. ASSUME NEW l \in ls
      PROVE  /\ EventOf(s, l) \in Event /\ EventOf(s, l).l = l
             /\ Tells(s, EventOf(s, l))
  <2>1. l \in Listener /\ QueryOf[l] \in Query
    BY ClientFields, ListenAssumption
  <2>2. s.docs[QueryOf[l]] \in Version
    BY <2>1, ClientFields
  <2> QED
    BY <2>1, <2>2 DEF EventOf, Event, Tells
<1>4. E \subseteq Event /\ \A e \in E : Tells(s, e)
  BY <1>2, <1>3
<1>5. IsFiniteSet(E)
  <2>1. f \in [ls -> Event]
    BY <1>1, <1>3
  <2>2. E = {f[l] : l \in ls}
    BY <1>1, <1>2
  <2> QED
    BY <2>1, <2>2, FinitelyManyEvents
<1>6. PICK es : es = SetToSeq(E)
  OBVIOUS
<1>7. es \in Seq(E)
  BY <1>5, <1>6, SetToSeqFacts
<1>8. es \in Seq(Event) /\ \A i \in DOMAIN es : Tells(s, es[i])
  BY <1>4, <1>7
<1>9. PICK r : r = Raise(s, ls)
  OBVIOUS
<1>10. r = [s EXCEPT !.raised = s.raised \cup ls, !.events = s.events \o es]
  BY <1>2, <1>6, <1>9 DEF Raise
<1>11. s.raised \cup ls \in SUBSET Listener /\ s.events \o es \in Seq(Event)
  BY <1>8, ClientFields
<1>12. r \in ClientType
  BY <1>10, <1>11 DEF ClientType
<1>13. /\ SameStream(s, r) /\ SameWatch(s, r)
       /\ r.online = s.online /\ r.failures = s.failures /\ r.timer = s.timer
       /\ r.synced = s.synced /\ r.docs = s.docs /\ r.raised = s.raised \cup ls
       /\ r.events = s.events \o es
  BY <1>10 DEF ClientType, SameStream, SameWatch
<1>14. Later(s, r)
  BY <1>8, <1>13, ClientFields, AppendedLater
<1> QED
  BY <1>9, <1>12, <1>13, <1>14

(* Snapshots of the views raise events for listeners, and nobody waits     *)
(* without a reason afterwards.                                            *)
LEMMA ViewsShape ==
  ASSUME NEW s \in ClientType, IsFiniteSet(s.listeners), NEW docs, NEW sync
  PROVE  LET r == OnViewSnapshots(s, docs, sync) IN
         /\ r \in ClientType
         /\ SameStream(s, r) /\ SameWatch(s, r)
         /\ r.online = s.online /\ r.failures = s.failures
         /\ r.timer = s.timer /\ r.synced = s.synced /\ r.docs = s.docs
         /\ Later(s, r) /\ Waits(r)
<1>1. PICK ls, r : /\ ls = {l \in s.listeners :
                             IF l \in s.raised
                             THEN QueryOf[l] \in docs \/ (l \in Gets /\ QueryOf[l] \in sync)
                             ELSE ShouldRaiseInitialEvent(s, l)}
                   /\ r = Raise(s, ls)
  OBVIOUS
<1>2. ls \in SUBSET s.listeners /\ IsFiniteSet(ls)
  <2>1. ls \in SUBSET s.listeners
    BY <1>1
  <2> QED
    BY <2>1, FS_Subset
<1>3. /\ r \in ClientType
      /\ SameStream(s, r) /\ SameWatch(s, r)
      /\ r.online = s.online /\ r.failures = s.failures
      /\ r.timer = s.timer /\ r.synced = s.synced /\ r.docs = s.docs
      /\ r.raised = s.raised \cup ls
      /\ Later(s, r)
  BY <1>1, <1>2, RaiseShape
<1>4. ASSUME NEW l \in r.listeners \ r.raised
      PROVE  r.online # "Offline" /\ QueryOf[l] \notin r.synced
  <2>1. l \in s.listeners /\ l \notin s.raised /\ l \notin ls
    BY <1>3 DEF SameWatch
  <2>2. ~ ShouldRaiseInitialEvent(s, l)
    BY <2>1, <1>1
  <2> QED
    BY <2>2, <1>3 DEF ShouldRaiseInitialEvent
<1>5. r = OnViewSnapshots(s, docs, sync)
  BY <1>1 DEF OnViewSnapshots
<1> QED
  BY <1>3, <1>4, <1>5 DEF Waits

(* The tracker's broadcast of a state: nobody is left waiting offline.     *)
LEMMA BroadcastShape ==
  ASSUME NEW s \in ClientType, IsFiniteSet(s.listeners), Waits(s),
         NEW state \in {"Unknown", "Online", "Offline"}
  PROVE  LET r == SetAndBroadcast(s, state) IN
         /\ r \in ClientType
         /\ SameStream(s, r) /\ SameWatch(s, r)
         /\ r.online = state /\ r.failures = s.failures
         /\ r.timer = s.timer /\ r.docs = s.docs
         /\ state # "Offline" => r.synced = s.synced
         /\ Later(s, r) /\ Waits(r)
<1>1. PICK r : r = SetAndBroadcast(s, state)
  OBVIOUS
<1>2. CASE s.online = state
  <2>1. r = s
    BY <1>1, <1>2 DEF SetAndBroadcast
  <2> QED
    BY <2>1, <1>1, <1>2, LaterSame DEF SameStream, SameWatch
<1>3. CASE s.online # state
  <2>1. PICK t : t = [s EXCEPT !.online = state]
    OBVIOUS
  <2>2. /\ t \in ClientType
        /\ SameStream(s, t) /\ SameWatch(s, t) /\ t.online = state
        /\ t.failures = s.failures /\ t.timer = s.timer /\ t.docs = s.docs
        /\ t.synced = s.synced /\ t.events = s.events /\ t.raised = s.raised
    BY <2>1 DEF ClientType, SameStream, SameWatch
  <2>3. r = HandleOnlineStateChange(t)
    BY <2>1, <1>1, <1>3 DEF SetAndBroadcast
  <2>4. CASE state # "Offline"
    <3>1. r = t
      BY <2>2, <2>3, <2>4 DEF HandleOnlineStateChange
    <3>2. Waits(r) /\ Later(s, r)
      BY <2>2, <2>4, <3>1, LaterSame DEF Waits, SameWatch
    <3> QED
      BY <2>2, <3>1, <3>2, <1>1
  <2>5. CASE state = "Offline"
    <3>1. PICK w : w = [t EXCEPT !.synced = {}]
      OBVIOUS
    <3>2. /\ w \in ClientType
          /\ SameStream(t, w) /\ SameWatch(t, w) /\ w.online = state
          /\ w.failures = t.failures /\ w.timer = t.timer /\ w.docs = t.docs
          /\ w.events = t.events /\ w.synced = {}
      BY <2>2, <3>1 DEF ClientType, SameStream, SameWatch
    <3>3. r = OnViewSnapshots(w, {}, t.synced)
      BY <2>2, <2>3, <2>5, <3>1 DEF HandleOnlineStateChange
    <3>4. IsFiniteSet(w.listeners)
      BY <2>2, <3>2 DEF SameWatch
    <3>5. /\ r \in ClientType
          /\ SameStream(w, r) /\ SameWatch(w, r)
          /\ r.online = w.online /\ r.failures = w.failures
          /\ r.timer = w.timer /\ r.docs = w.docs
          /\ Later(w, r) /\ Waits(r)
      BY <3>2, <3>3, <3>4, ViewsShape
    <3>6. Later(s, r)
      <4>1. /\ w.events = s.events /\ w.listeners \in SUBSET s.listeners
            /\ w.synced \in SUBSET s.synced /\ w.docs = s.docs
        BY <2>2, <3>2 DEF SameWatch
      <4> QED
        BY <4>1, <3>5, LaterFrom
    <3> QED
      BY <2>2, <2>5, <3>2, <3>5, <3>6, <1>1 DEF SameStream, SameWatch
  <2> QED
    BY <2>4, <2>5
<1> QED
  BY <1>2, <1>3

(***************************************************************************)
(* The tracker.                                                            *)
(***************************************************************************)
(* A state is announced and the failures forgotten.                        *)
LEMMA UpdateShape ==
  ASSUME NEW s \in ClientType, IsFiniteSet(s.listeners), Waits(s),
         NEW state \in {"Unknown", "Online", "Offline"}
  PROVE  LET r == UpdateState(s, state) IN
         /\ r \in ClientType
         /\ SameStream(s, r) /\ SameWatch(s, r)
         /\ r.online = state /\ r.failures = 0 /\ r.timer = FALSE /\ r.docs = s.docs
         /\ state # "Offline" => r.synced = s.synced
         /\ Later(s, r) /\ Waits(r) /\ Tracked(r)
<1>1. PICK t, r : /\ t = [s EXCEPT !.timer = FALSE, !.failures = 0]
                  /\ r = SetAndBroadcast(t, state)
  OBVIOUS
<1>2. /\ t \in ClientType
      /\ SameStream(s, t) /\ SameWatch(s, t) /\ t.online = s.online
      /\ t.failures = 0 /\ t.timer = FALSE /\ t.docs = s.docs
      /\ t.synced = s.synced /\ t.events = s.events /\ t.raised = s.raised
  BY <1>1 DEF ClientType, SameStream, SameWatch
<1>3. IsFiniteSet(t.listeners) /\ Waits(t)
  BY <1>2 DEF SameWatch, Waits
<1>4. /\ r \in ClientType
      /\ SameStream(t, r) /\ SameWatch(t, r)
      /\ r.online = state /\ r.failures = t.failures
      /\ r.timer = t.timer /\ r.docs = t.docs
      /\ state # "Offline" => r.synced = t.synced
      /\ Later(t, r) /\ Waits(r)
  <2>1. t \in ClientType
    BY <1>2
  <2>2. r = SetAndBroadcast(t, state)
    BY <1>1
  <2> QED
    BY ONLY <2>1, <2>2, <1>3, state \in {"Unknown", "Online", "Offline"}, BroadcastShape
<1>5. Later(s, r)
  BY <1>2, <1>4, LaterFrom DEF SameWatch
<1>6. SameStream(s, r) /\ SameWatch(s, r)
  BY <1>2, <1>4 DEF SameStream, SameWatch
<1>7. Tracked(r) /\ r.failures = 0 /\ r.timer = FALSE
  BY <1>2, <1>4 DEF Tracked
<1>8. r = UpdateState(s, state)
  BY <1>1 DEF UpdateState
<1> QED
  BY <1>2, <1>4, <1>5, <1>6, <1>7, <1>8

(* A stream is started: a client without failures begins to wait.          *)
LEMMA StartedShape ==
  ASSUME NEW s \in ClientType, IsFiniteSet(s.listeners), Waits(s), Tracked(s)
  PROVE  LET r == HandleWatchStreamStart(s) IN
         /\ r \in ClientType
         /\ SameStream(s, r) /\ SameWatch(s, r)
         /\ r.failures = s.failures /\ r.docs = s.docs
         /\ Later(s, r) /\ Waits(r) /\ Tracked(r)
<1>1. PICK r : r = HandleWatchStreamStart(s)
  OBVIOUS
<1>2. CASE s.failures # 0
  <2>1. r = s
    BY <1>1, <1>2 DEF HandleWatchStreamStart
  <2> QED
    BY <2>1, <1>1, LaterSame DEF SameStream, SameWatch
<1>3. CASE s.failures = 0
  <2>1. PICK t : t = SetAndBroadcast(s, "Unknown")
    OBVIOUS
  <2>2. /\ t \in ClientType
        /\ SameStream(s, t) /\ SameWatch(s, t)
        /\ t.online = "Unknown" /\ t.failures = s.failures /\ t.docs = s.docs
        /\ Later(s, t) /\ Waits(t)
    BY <2>1, BroadcastShape
  <2>3. r = [t EXCEPT !.timer = TRUE]
    BY <2>1, <1>1, <1>3 DEF HandleWatchStreamStart
  <2>4. /\ r \in ClientType /\ SameStream(t, r) /\ SameWatch(t, r)
        /\ r.online = "Unknown" /\ r.failures = t.failures /\ r.docs = t.docs
        /\ r.events = t.events /\ r.raised = t.raised /\ r.synced = t.synced
    BY <2>2, <2>3 DEF ClientType, SameStream, SameWatch
  <2>5. Later(s, r) /\ Waits(r) /\ Tracked(r)
    BY <2>2, <2>4 DEF Later, Waits, Tracked, SameWatch
  <2>6. SameStream(s, r) /\ SameWatch(s, r)
    BY <2>2, <2>4 DEF SameStream, SameWatch
  <2> QED
    BY <2>2, <2>4, <2>5, <2>6, <1>1
<1> QED
  BY <1>2, <1>3

(* A failure is counted, or takes the client out of the state online.      *)
LEMMA FailureShape ==
  ASSUME NEW s \in ClientType, IsFiniteSet(s.listeners), Waits(s), Tracked(s)
  PROVE  LET r == HandleWatchStreamFailure(s) IN
         /\ r \in ClientType
         /\ SameStream(s, r) /\ SameWatch(s, r)
         /\ r.failures \in s.failures..(s.failures + 1) /\ r.docs = s.docs
         /\ Later(s, r) /\ Waits(r) /\ Tracked(r)
<1>0. s.failures \in Nat
  BY ClientFields
<1>1. PICK r, n, k : /\ r = HandleWatchStreamFailure(s)
                     /\ n = s.failures + 1 /\ k = [s EXCEPT !.failures = n]
  OBVIOUS
<1>a. n \in Nat
  BY <1>0, <1>1
<1>2. /\ k \in ClientType /\ SameStream(s, k) /\ SameWatch(s, k)
      /\ k.failures = s.failures + 1 /\ k.online = s.online /\ k.docs = s.docs
      /\ k.events = s.events /\ k.raised = s.raised /\ k.synced = s.synced
      /\ k.timer = s.timer
  <2>1. k = [s EXCEPT !.failures = n]
    BY <1>1
  <2>2. /\ k \in ClientType /\ SameStream(s, k) /\ SameWatch(s, k)
        /\ k.failures = n /\ k.online = s.online /\ k.docs = s.docs
        /\ k.events = s.events /\ k.raised = s.raised /\ k.synced = s.synced
        /\ k.timer = s.timer
    BY ONLY <1>a, <2>1, s \in ClientType DEF ClientType, SameStream, SameWatch
  <2> QED
    BY <2>2, <1>1
<1>3. CASE s.online = "Online"
  <2>1. r = SetAndBroadcast(s, "Unknown")
    BY <1>1, <1>3 DEF HandleWatchStreamFailure
  <2>2. /\ r \in ClientType
        /\ SameStream(s, r) /\ SameWatch(s, r)
        /\ r.online = "Unknown" /\ r.failures = s.failures /\ r.docs = s.docs
        /\ Later(s, r) /\ Waits(r)
    BY <2>1, BroadcastShape
  <2>3. Tracked(r)
    BY <2>2 DEF Tracked
  <2> QED
    BY <2>2, <2>3, <1>0, <1>1
<1>4. CASE s.online # "Online" /\ k.failures < kMaxWatchStreamFailures
  <2>1. r = k
    BY <1>1, <1>4 DEF HandleWatchStreamFailure
  <2>2. Waits(r) /\ Later(s, r) /\ Tracked(r)
    BY <2>1, <1>2, <1>4, LaterSame DEF Waits, Tracked, SameWatch
  <2> QED
    BY <2>1, <2>2, <1>0, <1>1, <1>2
<1>5. CASE s.online # "Online" /\ ~ (k.failures < kMaxWatchStreamFailures)
  <2>1. PICK t : t = [k EXCEPT !.timer = FALSE]
    OBVIOUS
  <2>2. r = SetAndBroadcast(t, "Offline")
    BY <2>1, <1>1, <1>5 DEF HandleWatchStreamFailure
  <2>3. /\ t \in ClientType /\ SameStream(s, t) /\ SameWatch(s, t)
        /\ t.failures = s.failures + 1 /\ t.online = s.online /\ t.docs = s.docs
        /\ t.events = s.events /\ t.raised = s.raised /\ t.synced = s.synced
        /\ t.timer = FALSE
    BY <2>1, <1>2 DEF ClientType, SameStream, SameWatch
  <2>4. IsFiniteSet(t.listeners) /\ Waits(t)
    BY <2>3 DEF SameWatch, Waits
  <2>5. /\ r \in ClientType
        /\ SameStream(t, r) /\ SameWatch(t, r)
        /\ r.online = "Offline" /\ r.failures = t.failures
        /\ r.timer = t.timer /\ r.docs = t.docs
        /\ Later(t, r) /\ Waits(r)
    BY <2>2, <2>3, <2>4, BroadcastShape
  <2>6. Later(s, r) /\ Tracked(r)
    <3>1. Later(s, r)
      BY <2>3, <2>5, LaterFrom DEF SameWatch
    <3> QED
      BY <3>1, <2>3, <2>5 DEF Tracked
  <2>7. SameStream(s, r) /\ SameWatch(s, r)
    BY <2>3, <2>5 DEF SameStream, SameWatch
  <2>8. r.failures \in s.failures..(s.failures + 1)
    BY <2>3, <2>5, <1>0
  <2> QED
    BY <2>3, <2>5, <2>6, <2>7, <2>8, <1>1
<1> QED
  BY <1>3, <1>4, <1>5

(***************************************************************************)
(* A stream that is not open.                                              *)
(***************************************************************************)
(* Nothing is on the wire and nothing is counted.                          *)
Cut(s) ==
  /\ s \in ClientType /\ IsFiniteSet(s.listeners) /\ Waits(s) /\ Tracked(s)
  /\ ~ IsOpen(s) /\ ~ s.idle /\ s.up = <<>> /\ s.down = <<>>
  /\ s.request => s.state = "Starting"
  /\ s.target = NoTargets

(* A stream with something to watch is started.                            *)
Running(s) == Targets(s) # {} => IsStarted(s)

(* A new target waits for nothing.                                         *)
LEMMA NewTargetFacts ==
  /\ NewTarget \in TargetType /\ NewTarget.waiting = 0
  /\ NoTargets \in [Query -> TargetType]
  /\ \A q \in Query : NoTargets[q].waiting = 0
<1>1. 0 \in Version
  BY ListenAssumption DEF Version
<1> QED
  BY <1>1 DEF NewTarget, TargetType, NoTargets

(* The watch stream starts.                                                *)
LEMMA StartWatchShape ==
  ASSUME NEW s \in ClientType, IsFiniteSet(s.listeners), Waits(s), Tracked(s),
         ~ IsStarted(s), ~ s.idle, ~ s.request, s.up = <<>>, s.down = <<>>
  PROVE  LET r == StartWatchStream(s) IN
         /\ Cut(r) /\ IsStarted(r) /\ r.listeners = s.listeners
         /\ r.failures = s.failures /\ r.docs = s.docs /\ Later(s, r)
<1>1. PICK a, b, r : /\ a = [s EXCEPT !.target = NoTargets] /\ b = Start(a)
                     /\ r = HandleWatchStreamStart(b)
  OBVIOUS
<1>2. /\ a \in ClientType /\ SameStream(s, a) /\ a.listeners = s.listeners
      /\ a.target = NoTargets /\ a.online = s.online /\ a.failures = s.failures
      /\ a.timer = s.timer /\ a.docs = s.docs /\ a.events = s.events
      /\ a.raised = s.raised /\ a.synced = s.synced
  BY <1>1, NewTargetFacts DEF ClientType, SameStream
<1>3. /\ b \in ClientType /\ b.listeners = s.listeners
      /\ b.target = NoTargets /\ b.online = s.online /\ b.failures = s.failures
      /\ b.timer = s.timer /\ b.docs = s.docs /\ b.events = s.events
      /\ b.raised = s.raised /\ b.synced = s.synced
      /\ b.idle = s.idle /\ b.up = s.up /\ b.down = s.down
      /\ b.state \in {"Backoff", "Starting"}
      /\ b.request => b.state = "Starting"
  <2>1. CASE a.state = "Error"
    <3>1. b = [a EXCEPT !.state = "Backoff"]
      BY <2>1, <1>1 DEF Start
    <3> QED
      BY <3>1, <1>2 DEF ClientType, SameStream, State
  <2>2. CASE a.state # "Error"
    <3>1. b = [a EXCEPT !.state = "Starting", !.request = TRUE]
      BY <2>2, <1>1 DEF Start
    <3> QED
      BY <3>1, <1>2 DEF ClientType, SameStream, State
  <2> QED
    BY <2>1, <2>2
<1>4. IsFiniteSet(b.listeners) /\ Waits(b) /\ Tracked(b)
  BY <1>3 DEF Waits, Tracked
<1>5. /\ r \in ClientType
      /\ SameStream(b, r) /\ SameWatch(b, r)
      /\ r.failures = b.failures /\ r.docs = b.docs
      /\ Later(b, r) /\ Waits(r) /\ Tracked(r)
  BY <1>1, <1>3, <1>4, StartedShape
<1>6. Later(s, r)
  BY <1>3, <1>5, LaterFrom
<1>7. Cut(r) /\ IsStarted(r)
  BY <1>3, <1>4, <1>5 DEF Cut, IsOpen, IsStarted, SameStream, SameWatch
<1>8. r = StartWatchStream(s)
  BY <1>1 DEF StartWatchStream
<1> QED
  BY <1>3, <1>5, <1>6, <1>7, <1>8 DEF SameWatch

(* The connection and all that was on it are gone.                         *)
LEMMA CutShape ==
  ASSUME NEW s \in ClientType, IsFiniteSet(s.listeners), Waits(s), Tracked(s),
         NEW e \in {"Initial", "Error"}
  PROVE  LET r == CleanUpWatchStreamState(EndStream(s, e)) IN
         /\ Cut(r) /\ ~ IsStarted(r) /\ ~ r.request /\ r.listeners = s.listeners
         /\ r.failures = s.failures /\ r.docs = s.docs /\ r.events = s.events
         /\ r.online = s.online /\ r.synced = s.synced
<1>1. PICK r : r = CleanUpWatchStreamState(EndStream(s, e))
  OBVIOUS
<1>2. r = [s EXCEPT !.state = e, !.idle = FALSE, !.request = FALSE,
                    !.up = <<>>, !.down = <<>>, !.target = NoTargets]
  BY <1>1 DEF CleanUpWatchStreamState, EndStream, ClientType
<1>3. <<>> \in Seq(Requests) /\ <<>> \in Seq(Replies)
  OBVIOUS
<1>4. /\ r \in ClientType /\ r.state = e /\ r.listeners = s.listeners
      /\ r.idle = FALSE /\ r.request = FALSE /\ r.up = <<>> /\ r.down = <<>>
      /\ r.target = NoTargets /\ r.online = s.online /\ r.failures = s.failures
      /\ r.timer = s.timer /\ r.docs = s.docs /\ r.events = s.events
      /\ r.raised = s.raised /\ r.synced = s.synced
  BY <1>2, <1>3, NewTargetFacts DEF ClientType, State
<1>5. ~ IsOpen(r) /\ ~ IsStarted(r)
  BY <1>4 DEF IsOpen, IsStarted
<1>6. Waits(r) /\ Tracked(r)
  BY <1>4 DEF Waits, Tracked
<1> QED
  BY <1>1, <1>4, <1>5, <1>6 DEF Cut

(* The stream closes: it starts again if something is watched.             *)
LEMMA CloseShape ==
  ASSUME NEW s \in ClientType, IsFiniteSet(s.listeners), Waits(s), Tracked(s),
         NEW e \in {"Initial", "Error"}
  PROVE  LET r == OnWatchStreamClose(s, e) IN
         /\ Cut(r) /\ Running(r) /\ r.listeners = s.listeners
         /\ r.failures \in 0..(s.failures + 1)
         /\ Targets(s) = {} => r.failures = 0
         /\ r.docs = s.docs /\ Later(s, r)
<1>1. PICK t, r : /\ t = CleanUpWatchStreamState(EndStream(s, e))
                  /\ r = OnWatchStreamClose(s, e)
  OBVIOUS
<1>2. /\ Cut(t) /\ ~ IsStarted(t) /\ ~ t.request /\ t.listeners = s.listeners
      /\ t.failures = s.failures /\ t.docs = s.docs /\ t.events = s.events
      /\ t.synced = s.synced
  BY <1>1, CutShape
<1>3. /\ t \in ClientType /\ IsFiniteSet(t.listeners) /\ Waits(t) /\ Tracked(t)
      /\ ~ t.idle /\ t.up = <<>> /\ t.down = <<>> /\ s.failures \in Nat
  BY <1>2, ClientFields DEF Cut
<1>4. Targets(t) = Targets(s)
  BY <1>2 DEF Targets
<1>5. CASE Targets(s) # {}
  <2>1. PICK f : f = HandleWatchStreamFailure(t)
    OBVIOUS
  <2>2. /\ f \in ClientType
        /\ SameStream(t, f) /\ SameWatch(t, f)
        /\ f.failures \in t.failures..(t.failures + 1) /\ f.docs = t.docs
        /\ Later(t, f) /\ Waits(f) /\ Tracked(f)
    BY <2>1, <1>3, FailureShape
  <2>3. /\ IsFiniteSet(f.listeners) /\ ~ IsStarted(f) /\ ~ f.idle /\ ~ f.request
        /\ f.up = <<>> /\ f.down = <<>>
    BY <2>2, <1>2, <1>3 DEF SameStream, SameWatch, IsStarted, IsOpen
  <2>4. r = StartWatchStream(f)
    BY <2>1, <1>1, <1>2, <1>4, <1>5 DEF OnWatchStreamClose, ShouldStartWatchStream
  <2>5. /\ Cut(r) /\ IsStarted(r) /\ r.listeners = f.listeners
        /\ r.failures = f.failures /\ r.docs = f.docs /\ Later(f, r)
    BY <2>2, <2>3, <2>4, StartWatchShape
  <2>6. Later(t, r)
    BY <2>2, <2>5, <1>3, LaterTwice DEF SameWatch, Cut
  <2>7. Later(s, r)
    BY <2>6, <1>2, LaterFrom
  <2>8. r.failures \in 0..(s.failures + 1)
    BY <2>2, <2>5, <1>2, <1>3
  <2> QED
    BY <2>2, <2>5, <2>7, <2>8, <1>1, <1>2, <1>5 DEF Running, SameWatch
<1>6. CASE Targets(s) = {}
  <2>1. r = UpdateState(t, "Unknown")
    BY <1>1, <1>4, <1>6 DEF OnWatchStreamClose, ShouldStartWatchStream
  <2>2. /\ r \in ClientType
        /\ SameStream(t, r) /\ SameWatch(t, r)
        /\ r.failures = 0 /\ r.docs = t.docs
        /\ Later(t, r) /\ Waits(r) /\ Tracked(r)
    BY <2>1, <1>3, UpdateShape
  <2>3. Cut(r)
    BY <2>2, <1>2 DEF Cut, SameStream, SameWatch, IsOpen
  <2>4. Targets(r) = {}
    BY <2>2, <1>4, <1>6 DEF Targets, SameWatch
  <2>5. Later(s, r)
    BY <2>2, <1>2, LaterFrom
  <2>6. r.failures \in 0..(s.failures + 1)
    BY <2>2, <1>3
  <2> QED
    BY <2>2, <2>3, <2>4, <2>5, <2>6, <1>1, <1>2 DEF Running, SameWatch
<1> QED
  BY <1>5, <1>6

(* The network restarts: the same, and the failures are forgotten.         *)
LEMMA RestartShape ==
  ASSUME NEW s \in ClientType, IsFiniteSet(s.listeners), Waits(s), Tracked(s)
  PROVE  LET r == RestartNetwork(s) IN
         /\ Cut(r) /\ Running(r) /\ r.listeners = s.listeners
         /\ r.failures = 0 /\ r.docs = s.docs /\ Later(s, r)
<1>1. PICK u, t, r : /\ u = CleanUpWatchStreamState(EndStream(s, "Initial"))
                     /\ t = UpdateState(u, "Unknown")
                     /\ r = RestartNetwork(s)
  OBVIOUS
<1>2. /\ Cut(u) /\ ~ IsStarted(u) /\ ~ u.request /\ u.listeners = s.listeners
      /\ u.docs = s.docs /\ u.events = s.events /\ u.synced = s.synced
  BY <1>1, CutShape
<1>3. u \in ClientType /\ IsFiniteSet(u.listeners) /\ Waits(u)
  BY <1>2 DEF Cut
<1>4. /\ t \in ClientType
      /\ SameStream(u, t) /\ SameWatch(u, t)
      /\ t.failures = 0 /\ t.docs = u.docs
      /\ Later(u, t) /\ Waits(t) /\ Tracked(t)
  BY <1>1, <1>3, UpdateShape
<1>5. /\ Cut(t) /\ ~ IsStarted(t) /\ ~ t.request /\ ~ t.idle /\ t.listeners = s.listeners
      /\ t.up = <<>> /\ t.down = <<>> /\ IsFiniteSet(t.listeners)
  BY <1>2, <1>4 DEF Cut, SameStream, SameWatch, IsOpen, IsStarted
<1>6. Later(s, t)
  BY <1>2, <1>4, LaterFrom
<1>7. CASE Targets(t) # {}
  <2>1. r = StartWatchStream(t)
    BY <1>1, <1>5, <1>7 DEF RestartNetwork, ShouldStartWatchStream
  <2>2. /\ Cut(r) /\ IsStarted(r) /\ r.listeners = t.listeners
        /\ r.failures = t.failures /\ r.docs = t.docs /\ Later(t, r)
    BY <2>1, <1>4, <1>5, StartWatchShape
  <2>3. Later(s, r)
    BY <2>2, <1>4, <1>5, <1>6, LaterTwice DEF Cut
  <2> QED
    BY <2>2, <2>3, <1>1, <1>2, <1>4, <1>5 DEF Running
<1>8. CASE Targets(t) = {}
  <2>1. r = t
    BY <1>1, <1>8 DEF RestartNetwork, ShouldStartWatchStream
  <2> QED
    BY <2>1, <1>1, <1>2, <1>4, <1>5, <1>6, <1>8 DEF Running
<1> QED
  BY <1>7, <1>8

(***************************************************************************)
(* The wire.                                                               *)
(***************************************************************************)
Counted == {"watch", "unwatch", "added", "removed"}
Flight(s, q) == Cardinality(Of(s.up, q, Counted)) + Cardinality(Of(s.down, q, Counted))

(* Each request and confirmation under way is one the target waits for.    *)
Counts(s) == \A q \in Query \ Denied : s.target[q].waiting = Flight(s, q)

(* A query is confirmed or refused, as the server does with it.            *)
Replied(s) ==
  \A i \in DOMAIN s.down :
    /\ s.down[i].type \in {"added", "removed"} => s.down[i].q \in Query \ Denied
    /\ s.down[i].type = "error" => s.down[i].q \in Denied

(* h[i] tells whether the server has q after the first i requests: it is   *)
(* never asked to forget what it does not have.                            *)
Follows(h, up, q, now) ==
  /\ h \in [0..Len(up) -> {"yes", "no"}] /\ h[0] = now
  /\ \A i \in 1..Len(up) :
       /\ up[i].q # q => h[i] = h[i - 1]
       /\ up[i].q = q /\ up[i].type = "watch" => h[i] = "yes"
       /\ up[i].q = q /\ up[i].type = "unwatch" => h[i] = "no" /\ h[i - 1] = "yes"

Now(srv, q) == IF srv[q] = NotServed THEN "no" ELSE "yes"

(* After all requests the server has the queries of W.                     *)
Requested(up, srv, W) ==
  \A q \in Query \ Denied :
    \E h : Follows(h, up, q, Now(srv, q)) /\ (q \in W => h[Len(up)] = "yes")

Watched(s) == IF IsOpen(s) THEN Targets(s) ELSE {}

(* One request more.                                                       *)
LEMMA FollowsAppend ==
  ASSUME NEW up \in Seq(Requests), NEW m \in Requests, NEW q, NEW now, NEW h,
         Follows(h, up, q, now),
         m.q = q /\ m.type = "unwatch" => h[Len(up)] = "yes"
  PROVE  \E g : /\ Follows(g, Append(up, m), q, now)
                /\ g[Len(up) + 1] = IF m.q # q THEN h[Len(up)]
                                    ELSE IF m.type = "watch" THEN "yes" ELSE "no"
<1>1. PICK n, r, x : /\ n = Len(up) /\ r = Append(up, m)
                     /\ x = IF m.q # q THEN h[n] ELSE IF m.type = "watch" THEN "yes" ELSE "no"
  OBVIOUS
<1>2. /\ n \in Nat /\ Len(r) = n + 1 /\ r[n + 1] = m
      /\ \A i \in 1..n : r[i] = up[i]
  BY <1>1
<1>3. PICK g : g = [i \in 0..(n + 1) |-> IF i = n + 1 THEN x ELSE h[i]]
  OBVIOUS
<1>4. h \in [0..n -> {"yes", "no"}] /\ h[0] = now
  BY <1>1 DEF Follows
<1>5. /\ n \in 0..n /\ 0 \in 0..n /\ 0 \in 0..(n + 1) /\ n \in 0..(n + 1) /\ n + 1 \in 0..(n + 1)
      /\ 0 # n + 1 /\ n # n + 1
      /\ \A i \in 0..(n + 1) : i = n + 1 \/ i \in 0..n
  BY <1>2
<1>6. x \in {"yes", "no"}
  BY <1>1, <1>4, <1>5
<1>7. g \in [0..(n + 1) -> {"yes", "no"}] /\ g[0] = now /\ g[n + 1] = x /\ g[n] = h[n]
  BY <1>3, <1>4, <1>5, <1>6
<1>8. \A i \in 0..n : g[i] = h[i]
  <2>1. \A i \in 0..n : i \in 0..(n + 1) /\ i # n + 1
    BY <1>2
  <2> QED
    BY <2>1, <1>3
<1>9. m.type \in {"watch", "unwatch"}
  BY DEF Requests
<1>10. ASSUME NEW i \in 1..(n + 1)
       PROVE  /\ r[i].q # q => g[i] = g[i - 1]
              /\ r[i].q = q /\ r[i].type = "watch" => g[i] = "yes"
              /\ r[i].q = q /\ r[i].type = "unwatch" => g[i] = "no" /\ g[i - 1] = "yes"
  <2>1. CASE i = n + 1
    <3>1. i - 1 = n
      BY <2>1, <1>2
    <3>2. r[i] = m /\ g[i] = x /\ g[i - 1] = h[n]
      BY <2>1, <3>1, <1>2, <1>7
    <3>3. m.q = q /\ m.type = "unwatch" => h[n] = "yes"
      BY <1>1
    <3>4. x = IF m.q # q THEN h[n] ELSE IF m.type = "watch" THEN "yes" ELSE "no"
      BY <1>1
    <3> QED
      BY <3>2, <3>3, <3>4
  <2>2. CASE i # n + 1
    <3>1. PICK k : k = i - 1
      OBVIOUS
    <3>2. i \in 1..n /\ k \in 0..n /\ i \in 0..n
      BY <2>2, <3>1, <1>2
    <3>3. r[i] = up[i] /\ g[i] = h[i] /\ g[k] = h[k]
      BY <3>2, <1>2, <1>8
    <3>4. /\ up[i].q # q => h[i] = h[k]
          /\ up[i].q = q /\ up[i].type = "watch" => h[i] = "yes"
          /\ up[i].q = q /\ up[i].type = "unwatch" => h[i] = "no" /\ h[k] = "yes"
      BY <3>1, <3>2, <1>1 DEF Follows
    <3> QED
      BY <3>1, <3>3, <3>4
  <2> QED
    BY <2>1, <2>2
<1>11. Follows(g, r, q, now)
  BY <1>2, <1>7, <1>10 DEF Follows
<1> QED
  BY <1>1, <1>7, <1>11

(* The first request is taken.                                             *)
LEMMA FollowsTail ==
  ASSUME NEW up \in Seq(Requests), up # <<>>, NEW q, NEW now, NEW h,
         Follows(h, up, q, now)
  PROVE  \E g : Follows(g, Tail(up), q, h[1]) /\ g[Len(Tail(up))] = h[Len(up)]
<1>1. PICK n, r : n = Len(up) - 1 /\ r = Tail(up)
  OBVIOUS
<1>2. /\ n \in Nat /\ Len(up) = n + 1 /\ Len(r) = n
      /\ \A i \in 1..n : r[i] = up[i + 1]
  BY <1>1
<1>3. PICK g : g = [i \in 0..n |-> h[i + 1]]
  OBVIOUS
<1>4. h \in [0..(n + 1) -> {"yes", "no"}]
  BY <1>2 DEF Follows
<1>5. g \in [0..n -> {"yes", "no"}]
  <2>1. \A i \in 0..n : i + 1 \in 0..(n + 1)
    BY <1>2
  <2> QED
    BY <2>1, <1>3, <1>4
<1>6. g[0] = h[1] /\ g[n] = h[n + 1]
  BY <1>2, <1>3
<1>7. ASSUME NEW i \in 1..n
      PROVE  /\ r[i].q # q => g[i] = g[i - 1]
             /\ r[i].q = q /\ r[i].type = "watch" => g[i] = "yes"
             /\ r[i].q = q /\ r[i].type = "unwatch" => g[i] = "no" /\ g[i - 1] = "yes"
  <2>1. PICK k, j : k = i - 1 /\ j = i + 1
    OBVIOUS
  <2>2. k \in 0..n /\ j \in 1..(n + 1) /\ k + 1 = i /\ j - 1 = i /\ i \in 0..n
    BY <2>1, <1>2
  <2>3. r[i] = up[j] /\ g[i] = h[j] /\ g[k] = h[i]
    BY <2>1, <2>2, <1>2, <1>3
  <2>4. /\ up[j].q # q => h[j] = h[j - 1]
        /\ up[j].q = q /\ up[j].type = "watch" => h[j] = "yes"
        /\ up[j].q = q /\ up[j].type = "unwatch" => h[j] = "no" /\ h[j - 1] = "yes"
    BY <2>2, <1>2 DEF Follows
  <2> QED
    BY <2>1, <2>2, <2>3, <2>4
<1>8. Follows(g, r, q, h[1])
  BY <1>2, <1>5, <1>6, <1>7 DEF Follows
<1> QED
  BY <1>1, <1>2, <1>6, <1>8

(* Nothing was asked for.                                                  *)
LEMMA RequestedNothing ==
  ASSUME NEW srv
  PROVE  Requested(<<>>, srv, {})
<1>1. ASSUME NEW q \in Query \ Denied PROVE \E h : Follows(h, <<>>, q, Now(srv, q))
  <2>1. PICK h : h = [i \in 0..0 |-> Now(srv, q)]
    OBVIOUS
  <2>2. 0..0 = {0} /\ Len(<<>>) = 0 /\ 1..0 = {}
    OBVIOUS
  <2>3. Now(srv, q) \in {"yes", "no"}
    BY DEF Now
  <2>4. h \in [0..0 -> {"yes", "no"}] /\ h[0] = Now(srv, q)
    BY <2>1, <2>2, <2>3
  <2>5. Follows(h, <<>>, q, Now(srv, q))
    BY <2>2, <2>4 DEF Follows
  <2> QED
    BY <2>5
<1> QED
  BY <1>1 DEF Requested

(* A query is watched.                                                     *)
LEMMA RequestedWatch ==
  ASSUME NEW up \in Seq(Requests), NEW srv, NEW W, Requested(up, srv, W),
         NEW p \in Query
  PROVE  Requested(Append(up, Msg("watch", p, 0)), srv, W \cup {p})
<1>1. PICK m : m = Msg("watch", p, 0)
  OBVIOUS
<1>2. m \in Requests /\ m.q = p /\ m.type = "watch"
  BY <1>1 DEF Requests, Msg
<1>3. Len(Append(up, m)) = Len(up) + 1
  OBVIOUS
<1>4. ASSUME NEW q \in Query \ Denied
      PROVE  \E g : /\ Follows(g, Append(up, m), q, Now(srv, q))
                    /\ q \in W \cup {p} => g[Len(up) + 1] = "yes"
  <2>1. PICK h : Follows(h, up, q, Now(srv, q)) /\ (q \in W => h[Len(up)] = "yes")
    BY DEF Requested
  <2>2. PICK g : /\ Follows(g, Append(up, m), q, Now(srv, q))
                 /\ g[Len(up) + 1] = IF m.q # q THEN h[Len(up)]
                                     ELSE IF m.type = "watch" THEN "yes" ELSE "no"
    <3>1. ~ (m.q = q /\ m.type = "unwatch")
      BY <1>2
    <3> QED
      BY <3>1, <2>1, <1>2, FollowsAppend
  <2> QED
    BY <2>1, <2>2, <1>2
<1> QED
  BY <1>1, <1>3, <1>4 DEF Requested

(* A query that was watched is not any more.                               *)
LEMMA RequestedUnwatch ==
  ASSUME NEW up \in Seq(Requests), NEW srv, NEW W, Requested(up, srv, W),
         NEW p \in W \cap Query
  PROVE  Requested(Append(up, Msg("unwatch", p, 0)), srv, W \ {p})
<1>1. PICK m : m = Msg("unwatch", p, 0)
  OBVIOUS
<1>2. m \in Requests /\ m.q = p /\ m.type = "unwatch"
  BY <1>1 DEF Requests, Msg
<1>3. Len(Append(up, m)) = Len(up) + 1
  OBVIOUS
<1>4. ASSUME NEW q \in Query \ Denied
      PROVE  \E g : /\ Follows(g, Append(up, m), q, Now(srv, q))
                    /\ q \in W \ {p} => g[Len(up) + 1] = "yes"
  <2>1. PICK h : Follows(h, up, q, Now(srv, q)) /\ (q \in W => h[Len(up)] = "yes")
    BY DEF Requested
  <2>2. PICK g : /\ Follows(g, Append(up, m), q, Now(srv, q))
                 /\ g[Len(up) + 1] = IF m.q # q THEN h[Len(up)]
                                     ELSE IF m.type = "watch" THEN "yes" ELSE "no"
    <3>1. m.q = q => h[Len(up)] = "yes"
      BY <2>1, <1>2
    <3> QED
      BY <3>1, <2>1, <1>2, FollowsAppend
  <2> QED
    BY <2>1, <2>2, <1>2
<1> QED
  BY <1>1, <1>3, <1>4 DEF Requested

(* Less is watched.                                                        *)
LEMMA RequestedLess ==
  ASSUME NEW up, NEW srv, NEW W, NEW V \in SUBSET W, Requested(up, srv, W)
  PROVE  Requested(up, srv, V)
BY DEF Requested

(***************************************************************************)
(* What is inductive about the client, given what the server serves.       *)
(***************************************************************************)
(* The idle timer, the request for credentials and the wire belong to the  *)
(* state the stream is in.                                                 *)
Streamed(s) ==
  /\ s.idle => Targets(s) = {} /\ IsOpen(s)
  /\ s.request => s.state = "Starting"
  /\ ~ IsOpen(s) => s.up = <<>> /\ s.down = <<>>

(* Nothing watched is left without a stream, and nobody without an answer. *)
Attended(s) ==
  s \in ClientType /\ IsFiniteSet(s.listeners) /\ Waits(s) /\ Tracked(s) /\ Running(s)

Sound(s, srv) ==
  /\ Attended(s) /\ Streamed(s) /\ Counts(s) /\ Replied(s)
  /\ Requested(s.up, srv, Watched(s))

(* A client without a connection is sound.                                 *)
LEMMA CutSound ==
  ASSUME NEW s, Cut(s), Running(s), NEW srv
  PROVE  Sound(s, srv)
<1>1. Attended(s) /\ Streamed(s)
  BY DEF Cut, Attended, Streamed
<1>2. Watched(s) = {} /\ s.up = <<>> /\ s.down = <<>>
  BY DEF Cut, Watched
<1>3. Requested(s.up, srv, Watched(s))
  BY <1>2, RequestedNothing
<1>4. ASSUME NEW q \in Query \ Denied PROVE s.target[q].waiting = Flight(s, q)
  <2>1. s.target[q].waiting = 0
    BY NewTargetFacts DEF Cut
  <2> QED
    BY <2>1, <1>2, OfEmpty DEF Flight
<1>5. DOMAIN s.down = {}
  BY <1>2
<1> QED
  BY <1>1, <1>3, <1>4, <1>5 DEF Sound, Counts, Replied

(* Stream and targets are as they were.                                    *)
LEMMA KeptSound ==
  ASSUME NEW s, NEW srv, Sound(s, srv),
         NEW r \in ClientType, SameStream(s, r), SameWatch(s, r), Waits(r), Tracked(r)
  PROVE  Sound(r, srv)
<1>1. Targets(r) = Targets(s) /\ (IsOpen(r) <=> IsOpen(s)) /\ (IsStarted(r) <=> IsStarted(s))
  BY DEF Targets, SameWatch, SameStream, IsOpen, IsStarted
<1>2. Attended(r)
  BY <1>1 DEF Sound, Attended, SameWatch, Running
<1>3. Streamed(r)
  BY <1>1 DEF Sound, Streamed, SameStream
<1>4. Counts(r) /\ Replied(r)
  BY DEF Sound, Counts, Replied, SameStream, SameWatch, Flight
<1>5. Watched(r) = Watched(s) /\ r.up = s.up
  BY <1>1 DEF Watched, SameStream
<1> QED
  BY <1>2, <1>3, <1>4, <1>5 DEF Sound

(* A request of q was made, and nothing else.                              *)
Asked(s, r, type, q) ==
  /\ r \in ClientType /\ r.up = Append(s.up, Msg(type, q, 0)) /\ r.idle = FALSE
  /\ r.target[q].waiting = s.target[q].waiting + 1
  /\ r.target[q].current = s.target[q].current
  /\ r.target[q].changed = s.target[q].changed
  /\ r.target[q].docs = s.target[q].docs
  /\ \A p \in Query \ {q} : r.target[p] = s.target[p]
  /\ r.state = s.state /\ r.request = s.request /\ r.down = s.down
  /\ r.online = s.online /\ r.failures = s.failures /\ r.timer = s.timer
  /\ r.listeners = s.listeners /\ r.raised = s.raised /\ r.synced = s.synced
  /\ r.docs = s.docs /\ r.events = s.events

(* A request is one more message and one more response to wait for.        *)
LEMMA RequestShape ==
  ASSUME NEW s \in ClientType, NEW type \in {"watch", "unwatch"}, NEW q \in Query
  PROVE  Asked(s, Request(s, type, q), type, q)
<1>1. PICK n, k, tg, m : /\ n = s.target[q].waiting + 1
                         /\ k = [s.target[q] EXCEPT !.waiting = n]
                         /\ tg = [s.target EXCEPT ![q] = k]
                         /\ m = Msg(type, q, 0)
  OBVIOUS
<1>2. s.target \in [Query -> TargetType] /\ s.up \in Seq(Requests)
  BY ClientFields
<1>3. s.target[q] \in TargetType
  BY <1>2
<1>4. s.target[q].waiting \in Nat
  BY <1>3 DEF TargetType
<1>5. n \in Nat
  BY <1>1, <1>4
<1>6. /\ k \in TargetType /\ k.waiting = n /\ k.current = s.target[q].current
      /\ k.changed = s.target[q].changed /\ k.docs = s.target[q].docs
  BY <1>1, <1>3, <1>5 DEF TargetType
<1>7. tg \in [Query -> TargetType] /\ tg[q] = k /\ \A p \in Query \ {q} : tg[p] = s.target[p]
  BY <1>1, <1>2, <1>6
<1>8. m \in Requests
  BY <1>1 DEF Requests, Msg
<1>9. PICK u : u = Append(s.up, m)
  OBVIOUS
<1>10. u \in Seq(Requests) /\ s.up \o <<m>> = u
  BY <1>2, <1>8, <1>9
<1>11. PICK r : r = Request(s, type, q)
  OBVIOUS
<1>12. r = [s EXCEPT !.target = tg, !.up = u, !.idle = FALSE]
  <2>1. PICK t : t = [s EXCEPT !.target = tg]
    OBVIOUS
  <2>2. r = Send(t, <<m>>)
    BY <2>1, <1>1, <1>11 DEF Request
  <2>3. <<m>> # <<>>
    OBVIOUS
  <2>4. t.up = s.up
    BY <2>1 DEF ClientType
  <2>5. r = [t EXCEPT !.up = u, !.idle = FALSE]
    BY <2>2, <2>3, <2>4, <1>10 DEF Send
  <2> QED
    BY <2>1, <2>5 DEF ClientType
<1>13. /\ r \in ClientType /\ r.up = u /\ r.idle = FALSE /\ r.target = tg
       /\ r.state = s.state /\ r.request = s.request /\ r.down = s.down
       /\ r.online = s.online /\ r.failures = s.failures /\ r.timer = s.timer
       /\ r.listeners = s.listeners /\ r.raised = s.raised /\ r.synced = s.synced
       /\ r.docs = s.docs /\ r.events = s.events
  BY <1>7, <1>10, <1>12 DEF ClientType
<1> QED
  BY <1>1, <1>6, <1>7, <1>9, <1>11, <1>13 DEF Asked

(* A request keeps the count.                                              *)
LEMMA RequestCounts ==
  ASSUME NEW s \in ClientType, Counts(s), NEW type \in {"watch", "unwatch"},
         NEW q \in Query, NEW r, r.up = Append(s.up, Msg(type, q, 0)), r.down = s.down,
         r.target[q].waiting = s.target[q].waiting + 1,
         \A p \in Query \ {q} : r.target[p] = s.target[p]
  PROVE  Counts(r)
<1>1. PICK m : m = Msg(type, q, 0)
  OBVIOUS
<1>2. m \in Requests /\ m.q = q /\ m.type \in Counted
  BY <1>1 DEF Requests, Msg, Counted
<1>3. s.up \in Seq(Requests) /\ s.down \in Seq(Replies)
  BY ClientFields
<1>4. ASSUME NEW p \in Query \ Denied PROVE r.target[p].waiting = Flight(r, p)
  <2>1. PICK a, b, d : /\ a = Cardinality(Of(s.up, p, Counted))
                       /\ b = Cardinality(Of(r.up, p, Counted))
                       /\ d = Cardinality(Of(s.down, p, Counted))
    OBVIOUS
  <2>2. a \in Nat /\ d \in Nat
    BY <2>1, <1>3, OfFinite
  <2>3. b = a + IF m.q = p /\ m.type \in Counted THEN 1 ELSE 0
    BY <2>1, <1>1, <1>2, <1>3, OfAppend
  <2>4. s.target[p].waiting = a + d /\ Flight(r, p) = b + d
    BY <2>1 DEF Counts, Flight
  <2>5. CASE p = q
    <3>1. b = a + 1
      BY <2>3, <2>5, <1>2
    <3> QED
      BY <3>1, <2>2, <2>4, <2>5
  <2>6. CASE p # q
    <3>1. b = a
      BY <2>2, <2>3, <2>6, <1>2
    <3> QED
      BY <3>1, <2>2, <2>4, <2>6
  <2> QED
    BY <2>5, <2>6
<1> QED
  BY <1>4 DEF Counts

(***************************************************************************)
(* What a listener is told is as new as it asked for, and what the server  *)
(* sent reaches the view.  Two more invariants: Fresh is about every       *)
(* message, target, view and event, Delivered about the latest message of  *)
(* each query.                                                             *)
(***************************************************************************)
News == {"current", "change"}

(* No request of q is on its way up; no confirmation of q follows message  *)
(* i on its way down; nothing at all about q does.                         *)
Unasked(s, q) == \A j \in DOMAIN s.up : s.up[j].q # q
Unconfirmed(s, i, q) ==
  \A j \in DOMAIN s.down : i < j /\ s.down[j].q = q => s.down[j].type \notin Counted
NoMore(s, i, q) ==
  \A j \in DOMAIN s.down :
    i < j /\ s.down[j].q = q => s.down[j].type \notin Counted \cup News

(* v is as new as each listener of q asked for.                            *)
NewEnough(s, as, q, v) == \A l \in s.listeners : QueryOf[l] = q => as[l] <= v

(* News of the present listen are new enough, those of an earlier one have *)
(* a confirmation between them and the present.                            *)
FreshNews(s, as) ==
  \A i \in DOMAIN s.down : s.down[i].type \in News =>
    /\ s.down[i].q \in Query \ Denied
    /\ Unasked(s, s.down[i].q) /\ Unconfirmed(s, i, s.down[i].q) =>
         NewEnough(s, as, s.down[i].q, s.down[i].v)

(* So is what a target gathered for the next snapshot, and what a view in  *)
(* sync shows.                                                             *)
FreshTargets(s, as) ==
  \A q \in Query : s.target[q].current =>
    /\ IsOpen(s)
    /\ s.target[q].waiting = 0 /\ s.target[q].changed =>
         NewEnough(s, as, q, s.target[q].docs)
FreshViews(s, as) == \A q \in s.synced : NewEnough(s, as, q, s.docs[q])

Fresh(s, as) == FreshNews(s, as) /\ FreshTargets(s, as) /\ FreshViews(s, as)

(* A snapshot follows message i, or the server is about to send one.       *)
Coming(s, more, i) ==
  more \/ \E j \in DOMAIN s.down : i < j /\ s.down[j].type = "snapshot"

(* The latest news v of q travel down to a target that is current by then. *)
OnTheWay(s, q, v, more) ==
  \E i \in DOMAIN s.down :
    /\ s.down[i].q = q /\ s.down[i].type \in News /\ s.down[i].v = v
    /\ NoMore(s, i, q) /\ Coming(s, more, i)
    /\ \/ \E k \in DOMAIN s.down : /\ k <= i /\ s.down[k].q = q
                                   /\ s.down[k].type = "current" /\ Unconfirmed(s, k, q)
       \/ s.target[q].current /\ Unconfirmed(s, 0, q)

(* They were read: the next snapshot shows them, or the last one did.      *)
Arrived(s, q, v, more) ==
  /\ NoMore(s, 0, q) /\ s.target[q].current
  /\ \/ s.target[q].changed /\ s.target[q].docs = v /\ Coming(s, more, 0)
     \/ ~ s.target[q].changed /\ q \in s.synced /\ s.docs[q] = v

Delivered(s, srv, more) ==
  \A q \in Targets(s) : IsOpen(s) /\ srv[q] >= 0 /\ Unasked(s, q) =>
    OnTheWay(s, q, srv[q], more) \/ Arrived(s, q, srv[q], more)

(* No client is ahead of the server, nor of what it was sent.              *)
AtMost(s, q, n) ==
  /\ s.docs[q] <= n /\ s.target[q].docs <= n
  /\ \A i \in DOMAIN s.down : s.down[i].q = q => s.down[i].v <= n
Behind(s, srv, n) ==
  \A q \in Query : /\ AtMost(s, q, n)
                   /\ srv[q] >= 0 => srv[q] <= n /\ AtMost(s, q, srv[q])

(* Until the first message of a stream the client may turn offline.        *)
Untimed(s) == s.timer => \A q \in Query : ~ s.target[q].current

InTime(s, srv, more, n) == Delivered(s, srv, more) /\ Behind(s, srv, n) /\ Untimed(s)

(* The client asks for q from now on: there is nothing of it to show yet.  *)
Anew(r, q) == q \notin r.synced /\ (IsOpen(r) => ~ Unasked(r, q) /\ r.target[q].waiting # 0)

(* Nothing arrives: targets keep what they gathered, and a listener that   *)
(* is added finds its query listened to already or asks for it anew.       *)
Steady(s, r, as, new) ==
  /\ r.down = s.down /\ r.docs = s.docs /\ r.synced \in SUBSET s.synced
  /\ r.timer => s.timer
  /\ IsOpen(s) => IsOpen(r)
  /\ IsOpen(r) /\ ~ IsOpen(s) => \A q \in Targets(r) : ~ Unasked(r, q)
  /\ \A q \in Query :
       /\ r.target[q].current = s.target[q].current
       /\ r.target[q].changed = s.target[q].changed
       /\ r.target[q].docs = s.target[q].docs
       /\ r.target[q].waiting = 0 => s.target[q].waiting = 0
       /\ Unasked(r, q) => Unasked(s, q)
  /\ \A q \in (s.synced \ r.synced) \cap Targets(r) :
       IsOpen(r) /\ Unasked(r, q) => ~ s.target[q].current
  /\ \A l \in r.listeners :
       \/ l \in s.listeners /\ new[l] = as[l]
       \/ QueryOf[l] \in Targets(s) /\ new[l] = 0
       \/ Anew(r, QueryOf[l])

(* The stream is over, or starts: what is on the wire or gathered is gone. *)
Severed(s, r, as, new) ==
  /\ Cut(r) /\ r.docs = s.docs /\ r.synced \in SUBSET s.synced
  /\ \A l \in r.listeners :
       \/ l \in s.listeners /\ new[l] = as[l]
       \/ QueryOf[l] \notin r.synced

(* Nothing but the online state, the state of a closed stream and the      *)
(* events change.                                                          *)
LEMMA KeptSteady ==
  ASSUME NEW s \in ClientType, NEW r, NEW as, r.up = s.up, r.down = s.down, r.docs = s.docs,
         r.target = s.target, r.listeners = s.listeners, r.synced \in SUBSET s.synced,
         r.synced = s.synced \/ \A q \in Query : ~ s.target[q].current,
         r.timer => s.timer, IsOpen(r) <=> IsOpen(s)
  PROVE  Steady(s, r, as, as)
<1>1. s.synced \in SUBSET Query
  BY ClientFields
<1>2. \A q \in Query : Unasked(r, q) => Unasked(s, q)
  BY DEF Unasked
<1>3. \A q \in s.synced \ r.synced : ~ s.target[q].current
  BY <1>1
<1> QED
  BY <1>2, <1>3 DEF Steady

(* A request asks for its query.                                           *)
LEMMA AskedOnce ==
  ASSUME NEW up \in Seq(Requests), NEW type \in {"watch", "unwatch"}, NEW q \in Query,
         NEW r, NEW s, s.up = up, r.up = Append(up, Msg(type, q, 0))
  PROVE  ~ Unasked(r, q) /\ \A p : Unasked(r, p) => Unasked(s, p)
<1>1. PICK m : m = Msg(type, q, 0)
  OBVIOUS
<1>2. m \in Requests /\ m.q = q
  BY <1>1 DEF Requests, Msg
<1>3. PICK n : n = Len(up)
  OBVIOUS
<1>4. n \in Nat /\ DOMAIN up = 1..n /\ DOMAIN r.up = 1..(n + 1)
  BY <1>1, <1>2, <1>3
<1>5. r.up[n + 1] = m /\ \A j \in 1..n : r.up[j] = up[j]
  BY <1>1, <1>2, <1>3
<1>6. \A j \in 1..n : j \in 1..(n + 1)
  BY <1>4
<1>7. n + 1 \in 1..(n + 1)
  BY <1>4
<1> QED
  BY <1>2, <1>4, <1>5, <1>6, <1>7 DEF Unasked

(***************************************************************************)
(* The steps of the client.                                                *)
(***************************************************************************)
(* A listener is added: its query is watched, or will be when the stream   *)
(* opens, unless it is watched already.                                    *)
LEMMA AddStep ==
  ASSUME NEW srv, Sound(c, srv), NEW l \in Listener, AddQueryListener(l),
         asked \in [Listener -> -2..MaxVersion]
  PROVE  /\ Sound(c', srv) /\ c'.failures = c.failures /\ (IsOpen(c) => IsOpen(c'))
         /\ c'.listeners = c.listeners \cup {l}
         /\ \/ Steady(c, c', asked, asked')
            \/ ~ IsOpen(c) /\ Severed(c, c', asked, asked')
         /\ \E s \in ClientType :
              /\ s.events = c.events /\ s.listeners = c.listeners \cup {l}
              /\ s.docs = c.docs /\ s.synced \in SUBSET c.synced
              /\ QueryOf[l] \in s.synced => asked'[l] = 0
              /\ Later(s, c')
<1>1. PICK q, sy, ls : /\ q = QueryOf[l] /\ ls = c.listeners \cup {l}
                       /\ sy = IF q \notin Targets(c) THEN c.synced \ {q} ELSE c.synced
  OBVIOUS
<1>2. PICK s : s = [c EXCEPT !.listeners = ls, !.synced = sy]
  OBVIOUS
<1>3. PICK t : t = IF ShouldRaiseInitialEvent(s, l) THEN Raise(s, {l}) ELSE s
  OBVIOUS
<1>4. PICK r : r = c'
  OBVIOUS
<1>5. r = IF q \notin Targets(c) THEN RemoteListen(t, q) ELSE t
  BY <1>1, <1>2, <1>3, <1>4 DEF AddQueryListener
<1>6. c \in ClientType /\ IsFiniteSet(c.listeners) /\ Waits(c) /\ Tracked(c) /\ Running(c)
  BY DEF Sound, Attended
<1>7. q \in Query /\ ls \in SUBSET Listener /\ sy \in SUBSET c.synced /\ sy \in SUBSET Query
  BY <1>1, <1>6, ClientFields, ListenAssumption
<1>8. IsFiniteSet(ls)
  BY <1>1, <1>6, FS_AddElement
<1>9. /\ s \in ClientType /\ SameStream(c, s) /\ s.target = c.target /\ s.listeners = ls
      /\ s.online = c.online /\ s.failures = c.failures /\ s.timer = c.timer
      /\ s.raised = c.raised /\ s.synced = sy /\ s.docs = c.docs /\ s.events = c.events
  BY <1>2, <1>6, <1>7 DEF ClientType, SameStream
<1>10. /\ t \in ClientType /\ SameStream(s, t) /\ SameWatch(s, t)
       /\ t.online = s.online /\ t.failures = s.failures /\ t.timer = s.timer
       /\ t.synced = s.synced /\ t.docs = s.docs /\ Later(s, t)
       /\ t.raised = IF ShouldRaiseInitialEvent(s, l) THEN s.raised \cup {l} ELSE s.raised
  <2>1. CASE ShouldRaiseInitialEvent(s, l)
    <3>1. t = Raise(s, {l})
      BY <2>1, <1>3
    <3>2. {l} \in SUBSET s.listeners /\ IsFiniteSet({l})
      BY <1>1, <1>9, FS_Singleton
    <3> QED
      BY <2>1, <3>1, <3>2, <1>9, RaiseShape
  <2>2. CASE ~ ShouldRaiseInitialEvent(s, l)
    <3>1. t = s
      BY <2>2, <1>3
    <3> QED
      BY <2>2, <3>1, <1>9, LaterSame DEF SameStream, SameWatch
  <2> QED
    BY <2>1, <2>2
<1>11. Waits(t)
  <2>1. ASSUME NEW x \in t.listeners \ t.raised
        PROVE  t.online # "Offline" /\ QueryOf[x] \notin t.synced
    <3>1. x \in c.listeners \cup {l} /\ x \notin c.raised
      BY <1>1, <1>9, <1>10 DEF SameWatch
    <3>2. CASE x = l
      <4>1. ~ ShouldRaiseInitialEvent(s, l)
        BY <3>2, <1>10
      <4> QED
        BY <4>1, <3>2, <1>9, <1>10 DEF ShouldRaiseInitialEvent
    <3>3. CASE x # l
      <4>1. c.online # "Offline" /\ QueryOf[x] \notin c.synced
        BY <3>1, <3>3, <1>6 DEF Waits
      <4> QED
        BY <4>1, <1>7, <1>9, <1>10
    <3> QED
      BY <3>2, <3>3
  <2> QED
    BY <2>1 DEF Waits
<1>12. Tracked(t) /\ IsFiniteSet(t.listeners) /\ t.listeners = ls
  BY <1>6, <1>8, <1>9, <1>10 DEF Tracked, SameWatch
<1>13. Targets(t) = Targets(c) \cup {q}
  BY <1>1, <1>12 DEF Targets
<1>14. SameStream(c, t) /\ t.target = c.target /\ t.failures = c.failures
  BY <1>9, <1>10 DEF SameStream, SameWatch
<1>15. Streamed(c) /\ Counts(c) /\ Replied(c) /\ Requested(c.up, srv, Watched(c))
  BY DEF Sound
<1>16. Counts(t) /\ Replied(t)
  BY <1>14, <1>15 DEF Counts, Replied, SameStream, Flight
<1>17. (IsOpen(t) <=> IsOpen(c)) /\ (IsStarted(t) <=> IsStarted(c))
  BY <1>14 DEF SameStream, IsOpen, IsStarted
<1>18. PICK as, new : as = asked /\ new = asked'
  OBVIOUS
<1>19. /\ new[l] = IF q \notin Targets(c) THEN version ELSE 0
      /\ \A x \in Listener \ {l} : new[x] = as[x]
  BY <1>1, <1>18 DEF AddQueryListener
<1>20. t.synced = sy /\ t.docs = c.docs /\ t.timer = c.timer /\ c.listeners \in SUBSET Listener
  BY <1>6, <1>9, <1>10, ClientFields
<1>21. q \in s.synced => new[l] = 0
  BY <1>1, <1>9, <1>19
<1>22. ASSUME NEW x \in ls, q \notin Targets(c)
      PROVE  (x \in c.listeners /\ new[x] = as[x]) \/ (x = l /\ q \notin t.synced)
  <2>1. CASE x = l
    BY <2>1, <1>1, <1>20, <1>22
  <2>2. CASE x # l
    BY <2>2, <1>1, <1>19, <1>20
  <2> QED
    BY <2>1, <2>2
<1>23. ASSUME q \in Targets(c) \/ ~ IsOpen(t) PROVE Steady(c, t, as, new)
  <2>1. /\ t.down = c.down /\ t.docs = c.docs /\ t.synced \in SUBSET c.synced
        /\ (t.timer => c.timer) /\ (IsOpen(c) <=> IsOpen(t))
    BY <1>7, <1>14, <1>17, <1>20 DEF SameStream
  <2>2. \A p \in Query : t.target[p] = c.target[p] /\ (Unasked(t, p) => Unasked(c, p))
    BY <1>14 DEF SameStream, Unasked
  <2>3. \A p \in (c.synced \ t.synced) \cap Targets(t) : ~ IsOpen(t)
    BY <1>1, <1>20, <1>23
  <2>4. ASSUME NEW x \in t.listeners
        PROVE  \/ x \in c.listeners /\ new[x] = as[x]
               \/ QueryOf[x] \in Targets(c) /\ new[x] = 0
               \/ Anew(t, QueryOf[x])
    <3>1. x \in ls
      BY <1>12
    <3>2. CASE q \notin Targets(c)
      <4>1. (x \in c.listeners /\ new[x] = as[x]) \/ (x = l /\ q \notin t.synced)
        BY <3>1, <3>2, <1>22
      <4> QED
        BY <4>1, <3>2, <1>1, <1>23 DEF Anew
    <3>3. CASE q \in Targets(c)
      BY <3>1, <3>3, <1>1, <1>19, <1>20
    <3> QED
      BY <3>2, <3>3
  <2> QED
    BY <2>1, <2>2, <2>3, <2>4 DEF Steady
<1>24. ASSUME r = t, q \in Targets(c) \/ (IsStarted(t) /\ ~ IsOpen(t)) PROVE Sound(r, srv)
  <2>1. IsStarted(t)
    BY <1>6, <1>17, <1>24 DEF Running
  <2>2. ~ t.idle
    BY <1>14, <1>15, <1>17, <1>24 DEF Streamed, SameStream
  <2>3. Streamed(t)
    BY <2>2, <1>14, <1>15, <1>17 DEF Streamed, SameStream
  <2>4. Watched(t) = Watched(c)
    BY <1>13, <1>17, <1>24 DEF Watched
  <2>5. t.up = c.up
    BY <1>14 DEF SameStream
  <2> QED
    BY <2>1, <2>3, <2>4, <2>5, <1>10, <1>11, <1>12, <1>15, <1>16, <1>24
       DEF Sound, Attended, Running
<1>25. ASSUME q \notin Targets(c), ~ IsStarted(t)
       PROVE  /\ Sound(r, srv) /\ r.listeners = ls /\ r.failures = t.failures
              /\ Later(t, r) /\ (IsOpen(c) => IsOpen(r))
              /\ Steady(c, r, as, new) \/ (~ IsOpen(c) /\ Severed(c, r, as, new))
  <2>1. r = StartWatchStream(t)
    BY <1>5, <1>13, <1>25 DEF RemoteListen, ShouldStartWatchStream
  <2>2. ~ t.idle /\ ~ t.request /\ t.up = <<>> /\ t.down = <<>>
    BY <1>14, <1>15, <1>17, <1>25 DEF Streamed, SameStream, IsStarted
  <2>3. /\ Cut(r) /\ IsStarted(r) /\ r.listeners = t.listeners
        /\ r.failures = t.failures /\ Later(t, r)
    BY <2>1, <2>2, <1>10, <1>11, <1>12, <1>25, StartWatchShape
  <2>4. Running(r)
    BY <2>3 DEF Running
  <2>5. r.docs = c.docs /\ r.synced \in SUBSET t.synced /\ r.listeners = ls
    BY <2>3, <1>12, <1>20 DEF Later
  <2>6. ASSUME NEW x \in r.listeners
        PROVE  (x \in c.listeners /\ new[x] = as[x]) \/ QueryOf[x] \notin r.synced
    BY <2>5, <1>1, <1>25, <1>22
  <2>7. Severed(c, r, as, new) /\ ~ IsOpen(c)
    BY <2>3, <2>5, <2>6, <1>7, <1>17, <1>25, <1>20 DEF Severed, IsStarted
  <2> QED
    BY <2>3, <2>4, <2>7, <1>12, <1>17, <1>25, CutSound DEF IsStarted
<1>26. ASSUME q \notin Targets(c), IsOpen(t)
       PROVE  /\ Sound(r, srv) /\ r.listeners = ls /\ r.failures = t.failures
              /\ Later(t, r) /\ (IsOpen(c) => IsOpen(r))
              /\ Steady(c, r, as, new) \/ (~ IsOpen(c) /\ Severed(c, r, as, new))
  <2>1. r = Request(t, "watch", q)
    BY <1>5, <1>26 DEF RemoteListen, ShouldStartWatchStream, IsStarted
  <2>2. /\ r \in ClientType /\ r.up = Append(t.up, Msg("watch", q, 0)) /\ r.idle = FALSE
        /\ r.target[q].waiting = t.target[q].waiting + 1
        /\ r.target[q].current = t.target[q].current
        /\ r.target[q].changed = t.target[q].changed
        /\ r.target[q].docs = t.target[q].docs
        /\ \A p \in Query \ {q} : r.target[p] = t.target[p]
        /\ r.state = t.state /\ r.request = t.request /\ r.down = t.down
        /\ r.online = t.online /\ r.failures = t.failures /\ r.timer = t.timer
        /\ r.listeners = t.listeners /\ r.raised = t.raised /\ r.synced = t.synced
        /\ r.events = t.events /\ r.docs = t.docs
    <3>1. t \in ClientType /\ q \in Query
      BY <1>7, <1>10
    <3>2. Asked(t, r, "watch", q)
      BY <2>1, <3>1, RequestShape
    <3> QED
      BY <3>2 DEF Asked
  <2>3. IsOpen(r) /\ IsStarted(r) /\ Targets(r) = Targets(t)
    BY <2>2, <1>26 DEF IsOpen, IsStarted, Targets
  <2>4. Waits(r) /\ Tracked(r) /\ IsFiniteSet(r.listeners)
    BY <2>2, <1>11, <1>12 DEF Waits, Tracked
  <2>5. Streamed(r)
    BY <2>2, <2>3, <1>14, <1>15 DEF Streamed, SameStream
  <2>6. Counts(r)
    BY <2>2, <1>7, <1>10, <1>16, RequestCounts
  <2>7. Replied(r)
    BY <2>2, <1>16 DEF Replied
  <2>8. t.up = c.up /\ t.up \in Seq(Requests) /\ Watched(r) = Watched(c) \cup {q}
    <3>1. Watched(r) = Watched(c) \cup {q}
      BY <2>3, <1>13, <1>17, <1>26 DEF Watched
    <3> QED
      BY <3>1, <1>10, <1>14, ClientFields DEF SameStream
  <2>9. Requested(r.up, srv, Watched(r))
    BY <2>2, <2>8, <1>7, <1>15, RequestedWatch
  <2>10. Later(t, r)
    BY <2>2, <1>10, LaterSame
  <2>11. Steady(c, r, as, new)
    <3>1. /\ r.down = c.down /\ r.docs = c.docs /\ r.synced \in SUBSET c.synced
          /\ (r.timer => c.timer) /\ IsOpen(c) /\ IsOpen(r) /\ r.synced = t.synced
      BY <2>2, <2>3, <1>7, <1>14, <1>17, <1>26, <1>20 DEF SameStream
    <3>2. ~ Unasked(r, q) /\ \A p : Unasked(r, p) => Unasked(c, p)
      BY <2>2, <2>8, <1>7, AskedOnce
    <3>3. t.target[q].waiting \in Nat /\ r.target[q].waiting # 0
      <4>1. t.target[q] \in TargetType
        BY <1>7, <1>10, ClientFields
      <4>2. t.target[q].waiting \in Nat
        BY <4>1 DEF TargetType
      <4> QED
        BY <4>2, <2>2
    <3>4. ASSUME NEW p \in Query
          PROVE  /\ r.target[p].current = c.target[p].current
                 /\ r.target[p].changed = c.target[p].changed
                 /\ r.target[p].docs = c.target[p].docs
                 /\ r.target[p].waiting = 0 => c.target[p].waiting = 0
      BY <2>2, <3>3, <1>14
    <3>5. \A p \in c.synced \ r.synced : ~ Unasked(r, p)
      BY <3>1, <3>2, <1>1, <1>20
    <3>6. ASSUME NEW x \in r.listeners
          PROVE  (x \in c.listeners /\ new[x] = as[x]) \/ Anew(r, QueryOf[x])
      <4>1. x \in ls
        BY <2>2, <1>12
      <4>2. (x \in c.listeners /\ new[x] = as[x]) \/ (x = l /\ q \notin r.synced)
        BY <4>1, <3>1, <1>26, <1>22
      <4> QED
        BY <4>2, <3>2, <3>3, <1>1 DEF Anew
    <3> QED
      BY <3>1, <3>2, <3>4, <3>5, <3>6 DEF Steady
  <2> QED
    BY <2>2, <2>3, <2>4, <2>5, <2>6, <2>7, <2>9, <2>10, <2>11, <1>12
       DEF Sound, Attended, Running
<1>27. CASE q \in Targets(c) \/ (IsStarted(t) /\ ~ IsOpen(t))
  <2>1. r = t
    BY <1>5, <1>27 DEF RemoteListen, ShouldStartWatchStream
  <2>2. Steady(c, r, as, new)
    BY <2>1, <1>27, <1>23
  <2>3. QueryOf[l] \in s.synced => asked'[l] = 0
    BY <1>1, <1>18, <1>21
  <2> QED
    BY <2>1, <2>2, <2>3, <1>1, <1>4, <1>7, <1>9, <1>10, <1>12, <1>14, <1>17, <1>24, <1>27, <1>18
<1>28. CASE ~ (q \in Targets(c) \/ (IsStarted(t) /\ ~ IsOpen(t)))
  <2>1. /\ Sound(r, srv) /\ r.listeners = ls /\ r.failures = t.failures /\ Later(t, r)
        /\ (IsOpen(c) => IsOpen(r))
        /\ Steady(c, r, as, new) \/ (~ IsOpen(c) /\ Severed(c, r, as, new))
    BY <1>25, <1>26, <1>28 DEF IsStarted
  <2>2. r \in ClientType
    BY <2>1 DEF Sound, Attended
  <2>3. Later(s, r)
    BY <2>1, <2>2, <1>9, <1>10, LaterTwice DEF SameWatch
  <2>4. QueryOf[l] \in s.synced => asked'[l] = 0
    BY <1>1, <1>18, <1>21
  <2> QED
    BY <2>1, <2>3, <2>4, <1>1, <1>4, <1>7, <1>9, <1>14, <1>18
<1> QED
  BY <1>27, <1>28

(* A listener is removed: with the last one of its query the server is     *)
(* told, and without any query the stream may go idle.                     *)
LEMMA RemoveStep ==
  ASSUME NEW srv, Sound(c, srv), NEW l \in Listener, RemoveQueryListener(l)
  PROVE  /\ Sound(c', srv) /\ c'.failures \in {0, c.failures} /\ (IsOpen(c) => IsOpen(c'))
         /\ c'.listeners \in SUBSET c.listeners /\ Later(c, c')
         /\ Steady(c, c', asked, asked)
<1>1. PICK q, ls, s : /\ q = QueryOf[l] /\ ls = c.listeners \ {l}
                      /\ s = [c EXCEPT !.listeners = ls]
  OBVIOUS
<1>2. PICK sy, w : /\ sy = IF q \in Targets(s) THEN c.synced ELSE c.synced \ {q}
                   /\ w = [c EXCEPT !.listeners = ls, !.synced = sy]
  OBVIOUS
<1>3. PICK r : r = c'
  OBVIOUS
<1>4. c \in ClientType /\ IsFiniteSet(c.listeners) /\ Waits(c) /\ Tracked(c) /\ Running(c)
  BY DEF Sound, Attended
<1>5. /\ q \in Query /\ ls \in SUBSET Listener /\ ls \in SUBSET c.listeners
      /\ sy \in SUBSET c.synced /\ sy \in SUBSET Query /\ l \in c.listeners
  BY <1>1, <1>2, <1>4, ClientFields, ListenAssumption DEF RemoveQueryListener
<1>6. /\ w \in ClientType /\ SameStream(c, w) /\ w.target = c.target /\ w.listeners = ls
      /\ w.online = c.online /\ w.failures = c.failures /\ w.timer = c.timer
      /\ w.raised = c.raised /\ w.synced = sy /\ w.docs = c.docs /\ w.events = c.events
  BY <1>2, <1>4, <1>5 DEF ClientType, SameStream
<1>7. s.listeners = ls /\ Targets(w) = Targets(s) /\ Targets(c) = Targets(w) \cup {q}
  <2>1. s.listeners = ls
    BY <1>1, <1>4 DEF ClientType
  <2> QED
    BY <2>1, <1>1, <1>5, <1>6 DEF Targets
<1>8. r = IF q \in Targets(w) THEN w ELSE StopListening(w, q)
  <2>1. c' = IF q \in Targets(s) THEN s ELSE StopListening([s EXCEPT !.synced = @ \ {q}], q)
    BY <1>1 DEF RemoveQueryListener
  <2>2. CASE q \in Targets(s)
    <3>1. s = w
      BY <2>2, <1>1, <1>2, <1>4 DEF ClientType
    <3> QED
      BY <2>1, <2>2, <3>1, <1>3, <1>7
  <2>3. CASE q \notin Targets(s)
    <3>1. s.synced = c.synced
      BY <1>1, <1>4 DEF ClientType
    <3>2. [s EXCEPT !.synced = s.synced \ {q}] = w
      BY <2>3, <3>1, <1>1, <1>2, <1>4 DEF ClientType
    <3> QED
      BY <2>1, <2>3, <3>2, <1>3, <1>7
  <2> QED
    BY <2>2, <2>3
<1>9. (IsOpen(w) <=> IsOpen(c)) /\ (IsStarted(w) <=> IsStarted(c))
  BY <1>6 DEF SameStream, IsOpen, IsStarted
<1>10. IsFiniteSet(w.listeners) /\ Waits(w) /\ Tracked(w) /\ Running(w)
  <2>1. IsFiniteSet(w.listeners)
    BY <1>4, <1>5, <1>6, FS_Subset
  <2>2. Waits(w)
    BY <1>4, <1>5, <1>6 DEF Waits
  <2> QED
    BY <2>1, <2>2, <1>4, <1>6, <1>7, <1>9 DEF Tracked, Running
<1>11. Streamed(c) /\ Counts(c) /\ Replied(c) /\ Requested(c.up, srv, Watched(c))
  BY DEF Sound
<1>12. w.up = c.up /\ Watched(w) \in SUBSET Watched(c)
  BY <1>6, <1>7, <1>9 DEF SameStream, Watched
<1>13. Sound(w, srv)
  <2>1. Streamed(w)
    BY <1>6, <1>7, <1>9, <1>11 DEF Streamed, SameStream
  <2>2. Counts(w) /\ Replied(w)
    BY <1>6, <1>11 DEF Counts, Replied, SameStream, Flight
  <2>3. Requested(w.up, srv, Watched(w))
    BY <1>11, <1>12, RequestedLess
  <2> QED
    BY <2>1, <2>2, <2>3, <1>6, <1>10 DEF Sound, Attended
<1>14. Later(c, w)
  BY <1>4, <1>5, <1>6, LaterSame
<1>15. PICK as : as = asked
  OBVIOUS
<1>16. ASSUME q \in Targets(w) \/ ~ IsOpen(w), NEW y, y.down = w.down, y.up = w.up,
             y.docs = w.docs, y.synced \in SUBSET w.synced, IsOpen(y) => y.synced = w.synced,
             y.timer => w.timer, y.target = w.target, y.listeners = w.listeners,
             IsOpen(y) <=> IsOpen(w)
      PROVE  Steady(c, y, as, as)
  <2>1. /\ y.down = c.down /\ y.docs = c.docs /\ y.synced \in SUBSET c.synced
        /\ (y.timer => c.timer) /\ (IsOpen(c) <=> IsOpen(y)) /\ y.up = c.up
    BY <1>5, <1>6, <1>9, <1>16 DEF SameStream
  <2>2. \A p \in Query : y.target[p] = c.target[p] /\ (Unasked(y, p) => Unasked(c, p))
    BY <2>1, <1>6, <1>16 DEF Unasked
  <2>3. \A p \in (c.synced \ y.synced) \cap Targets(y) : ~ IsOpen(y)
    <3>1. IsOpen(y) => y.synced = c.synced
      BY <1>2, <1>6, <1>7, <1>16
    <3> QED
      BY <3>1
  <2>4. \A x \in y.listeners : x \in c.listeners
    BY <1>5, <1>6, <1>16
  <2> QED
    BY <2>1, <2>2, <2>3, <2>4 DEF Steady
<1>17. ASSUME r = w, q \in Targets(w) \/ ~ IsOpen(w)
       PROVE  /\ Sound(r, srv) /\ r.failures \in {0, c.failures} /\ (IsOpen(c) => IsOpen(r))
              /\ r.listeners \in SUBSET c.listeners /\ Later(c, r) /\ Steady(c, r, as, as)
  <2>1. Steady(c, r, as, as)
    BY <1>17, <1>16
  <2> QED
    BY <2>1, <1>5, <1>6, <1>9, <1>13, <1>14, <1>17
<1>18. CASE q \in Targets(w)
  BY <1>3, <1>8, <1>17, <1>18, <1>15
<1>19. CASE q \notin Targets(w) /\ IsOpen(w)
  <2>1. PICK t : t = Request(w, "unwatch", q)
    OBVIOUS
  <2>2. /\ t \in ClientType /\ t.up = Append(w.up, Msg("unwatch", q, 0)) /\ t.idle = FALSE
        /\ t.target[q].waiting = w.target[q].waiting + 1
        /\ t.target[q].current = w.target[q].current
        /\ t.target[q].changed = w.target[q].changed
        /\ t.target[q].docs = w.target[q].docs
        /\ \A p \in Query \ {q} : t.target[p] = w.target[p]
        /\ t.state = w.state /\ t.request = w.request /\ t.down = w.down
        /\ t.online = w.online /\ t.failures = w.failures /\ t.timer = w.timer
        /\ t.listeners = w.listeners /\ t.raised = w.raised /\ t.synced = w.synced
        /\ t.events = w.events /\ t.docs = w.docs
    BY <2>1, <1>5, <1>6, RequestShape DEF Asked
  <2>3. IsOpen(t) /\ IsStarted(t) /\ Targets(t) = Targets(w)
    BY <2>2, <1>19 DEF IsOpen, IsStarted, Targets
  <2>4. /\ r \in ClientType /\ r.up = t.up /\ r.down = t.down /\ r.target = t.target
        /\ r.state = t.state /\ r.request = t.request
        /\ r.online = t.online /\ r.failures = t.failures /\ r.timer = t.timer
        /\ r.listeners = t.listeners /\ r.raised = t.raised /\ r.synced = t.synced
        /\ r.events = t.events /\ r.docs = t.docs
        /\ r.idle => Targets(w) = {}
    <3>1. CASE Targets(w) # {}
      <4>1. r = t
        BY <3>1, <2>1, <1>8, <1>19 DEF StopListening
      <4> QED
        BY <4>1, <2>2
    <3>2. CASE Targets(w) = {}
      <4>1. r = [t EXCEPT !.idle = TRUE]
        BY <3>2, <2>1, <2>3, <1>8, <1>19 DEF StopListening, MarkIdle
      <4> QED
        BY <4>1, <3>2, <2>2 DEF ClientType
    <3> QED
      BY <3>1, <3>2
  <2>5. IsOpen(r) /\ IsStarted(r) /\ Targets(r) = Targets(w)
    BY <2>3, <2>4 DEF IsOpen, IsStarted, Targets
  <2>6. Attended(r)
    BY <2>2, <2>4, <2>5, <1>10 DEF Attended, Waits, Tracked, Running
  <2>7. Streamed(r)
    BY <2>2, <2>4, <2>5, <1>13 DEF Sound, Streamed
  <2>8. Counts(r)
    <3>1. Counts(w)
      BY <1>13 DEF Sound
    <3> QED
      BY <3>1, <2>2, <2>4, <1>5, <1>6, RequestCounts
  <2>9. Replied(r)
    BY <2>2, <2>4, <1>13 DEF Sound, Replied
  <2>10. Requested(r.up, srv, Watched(r))
    <3>1. q \in Watched(c) \cap Query /\ Watched(r) = Watched(c) \ {q}
      BY <2>5, <1>5, <1>7, <1>9, <1>19 DEF Watched
    <3>2. c.up \in Seq(Requests) /\ r.up = Append(c.up, Msg("unwatch", q, 0))
      BY <2>2, <2>4, <1>4, <1>12, ClientFields
    <3> QED
      BY <3>1, <3>2, <1>11, RequestedUnwatch
  <2>11. /\ r.events = c.events /\ r.listeners = ls /\ r.failures = c.failures
         /\ r.synced \in SUBSET c.synced /\ r.docs = c.docs
    BY <2>2, <2>4, <1>5, <1>6
  <2>12. Steady(c, r, as, as)
    <3>1. /\ r.down = c.down /\ r.docs = c.docs /\ r.synced \in SUBSET c.synced
          /\ (r.timer => c.timer) /\ IsOpen(c) /\ IsOpen(r) /\ r.synced = sy
      BY <2>2, <2>4, <2>5, <1>5, <1>6, <1>9, <1>19 DEF SameStream
    <3>2. ~ Unasked(r, q) /\ \A p : Unasked(r, p) => Unasked(c, p)
      <4>1. c.up \in Seq(Requests) /\ r.up = Append(c.up, Msg("unwatch", q, 0))
        BY <2>2, <2>4, <1>4, <1>12, ClientFields
      <4> QED
        BY <4>1, <1>5, AskedOnce
    <3>3. r.target[q].waiting # 0
      <4>1. w.target[q] \in TargetType
        BY <1>5, <1>6, ClientFields
      <4>2. w.target[q].waiting \in Nat
        BY <4>1 DEF TargetType
      <4> QED
        BY <4>2, <2>2, <2>4
    <3>4. ASSUME NEW p \in Query
          PROVE  /\ r.target[p].current = c.target[p].current
                 /\ r.target[p].changed = c.target[p].changed
                 /\ r.target[p].docs = c.target[p].docs
                 /\ r.target[p].waiting = 0 => c.target[p].waiting = 0
      BY <2>2, <2>4, <3>3, <1>6
    <3>5. \A p \in c.synced \ r.synced : ~ Unasked(r, p)
      BY <3>1, <3>2, <1>2, <1>7, <1>19
    <3>6. \A x \in r.listeners : x \in c.listeners
      BY <2>11, <1>5
    <3> QED
      BY <3>1, <3>2, <3>4, <3>5, <3>6 DEF Steady
  <2> QED
    BY <2>5, <2>6, <2>7, <2>8, <2>9, <2>10, <2>11, <2>12, <1>3, <1>4, <1>5, <1>15, LaterSame
       DEF Sound
<1>20. CASE q \notin Targets(w) /\ ~ IsOpen(w) /\ Targets(w) # {}
  <2>1. r = w
    BY <1>8, <1>20 DEF StopListening
  <2> QED
    BY <2>1, <1>3, <1>17, <1>20, <1>15
<1>21. CASE q \notin Targets(w) /\ ~ IsOpen(w) /\ Targets(w) = {}
  <2>1. r = UpdateState(w, "Unknown")
    BY <1>8, <1>21 DEF StopListening
  <2>2. /\ r \in ClientType /\ SameStream(w, r) /\ SameWatch(w, r)
        /\ r.failures = 0 /\ r.timer = FALSE /\ Later(w, r) /\ Waits(r) /\ Tracked(r)
    BY <2>1, <1>6, <1>10, UpdateShape
  <2>3. Sound(r, srv)
    BY <2>2, <1>13, KeptSound
  <2>4. Later(c, r)
    BY <2>2, <1>5, <1>6, LaterFrom
  <2>5. Steady(c, r, as, as)
    <3>1. /\ r.down = w.down /\ r.up = w.up /\ (IsOpen(r) <=> IsOpen(w))
          /\ r.target = w.target /\ r.listeners = w.listeners
      BY <2>2 DEF SameStream, SameWatch, IsOpen
    <3>2. r.docs = w.docs /\ r.synced \in SUBSET w.synced
      BY <2>2 DEF Later
    <3> QED
      BY <2>2, <3>1, <3>2, <1>21, <1>16
  <2> QED
    BY <2>2, <2>3, <2>4, <2>5, <1>3, <1>5, <1>6, <1>9, <1>21, <1>15 DEF SameWatch
<1> QED
  BY <1>18, <1>19, <1>20, <1>21

(* The delay of the backoff is over.                                       *)
LEMMA BackoffStep ==
  ASSUME NEW srv, Sound(c, srv), BackoffElapsed
  PROVE  /\ Sound(c', srv) /\ c'.failures = c.failures /\ ~ IsOpen(c)
         /\ c'.listeners = c.listeners /\ c'.events = c.events
         /\ Steady(c, c', asked, asked)
<1>1. PICK r : r = c'
  OBVIOUS
<1>2. c.state = "Backoff" /\ r = Resume(c)
  BY <1>1 DEF BackoffElapsed
<1>3. c \in ClientType /\ IsFiniteSet(c.listeners) /\ Waits(c) /\ Tracked(c) /\ Running(c)
  BY DEF Sound, Attended
<1>4. r = [c EXCEPT !.state = "Starting", !.request = TRUE]
  <2>1. PICK b : b = [c EXCEPT !.state = "Initial"]
    OBVIOUS
  <2>2. b.state = "Initial"
    BY <2>1, <1>3 DEF ClientType
  <2>3. r = [b EXCEPT !.state = "Starting", !.request = TRUE]
    BY <2>1, <2>2, <1>2 DEF Resume, Start
  <2> QED
    BY <2>1, <2>3, <1>3 DEF ClientType
<1>5. /\ r \in ClientType /\ r.state = "Starting"
      /\ r.idle = c.idle /\ r.up = c.up /\ r.down = c.down /\ r.target = c.target
      /\ r.online = c.online /\ r.failures = c.failures /\ r.timer = c.timer
      /\ r.listeners = c.listeners /\ r.raised = c.raised /\ r.synced = c.synced
      /\ r.events = c.events /\ r.docs = c.docs
  BY <1>3, <1>4 DEF ClientType, State
<1>6. ~ IsOpen(r) /\ IsStarted(r) /\ ~ IsOpen(c) /\ Targets(r) = Targets(c)
  BY <1>2, <1>5 DEF IsOpen, IsStarted, Targets
<1>7. Attended(r) /\ Streamed(r)
  BY <1>3, <1>5, <1>6 DEF Attended, Waits, Tracked, Running, Streamed, Sound
<1>8. Counts(r) /\ Replied(r)
  BY <1>5 DEF Sound, Counts, Replied, Flight
<1>9. Requested(r.up, srv, Watched(r))
  <2>1. Watched(r) = Watched(c)
    BY <1>6 DEF Watched
  <2> QED
    BY <2>1, <1>5 DEF Sound
<1>10. Steady(c, r, asked, asked)
  BY <1>3, <1>5, <1>6, KeptSteady
<1> QED
  BY <1>1, <1>5, <1>6, <1>7, <1>8, <1>9, <1>10 DEF Sound

(* The server was not reached in time: the client is offline.              *)
LEMMA TimeoutStep ==
  ASSUME NEW srv, Sound(c, srv), OnlineStateTimeout
  PROVE  /\ Sound(c', srv) /\ c'.failures = c.failures /\ (IsOpen(c) => IsOpen(c'))
         /\ c'.listeners = c.listeners /\ Later(c, c')
         /\ Untimed(c) => Steady(c, c', asked, asked)
<1>1. PICK r, t : r = c' /\ t = [c EXCEPT !.timer = FALSE]
  OBVIOUS
<1>2. r = SetAndBroadcast(t, "Offline")
  BY <1>1 DEF OnlineStateTimeout
<1>3. c \in ClientType /\ IsFiniteSet(c.listeners) /\ Waits(c) /\ Tracked(c)
  BY DEF Sound, Attended
<1>4. /\ t \in ClientType /\ SameStream(c, t) /\ SameWatch(c, t)
      /\ t.online = c.online /\ t.failures = c.failures /\ t.timer = FALSE
      /\ t.raised = c.raised /\ t.synced = c.synced /\ t.events = c.events
      /\ t.docs = c.docs
  BY <1>1, <1>3 DEF ClientType, SameStream, SameWatch
<1>5. IsFiniteSet(t.listeners) /\ Waits(t)
  BY <1>3, <1>4 DEF SameWatch, Waits
<1>6. /\ r \in ClientType /\ SameStream(t, r) /\ SameWatch(t, r)
      /\ r.online = "Offline" /\ r.failures = t.failures /\ r.timer = t.timer
      /\ Later(t, r) /\ Waits(r)
  <2>1. t \in ClientType
    BY <1>4
  <2> QED
    BY ONLY <2>1, <1>2, <1>5, BroadcastShape
<1>7. Tracked(r) /\ SameStream(c, r) /\ SameWatch(c, r) /\ Later(c, r)
  <2>1. Later(c, r)
    BY <1>4, <1>6, LaterFrom DEF SameWatch
  <2> QED
    BY <2>1, <1>4, <1>6 DEF Tracked, SameStream, SameWatch
<1>8. Sound(r, srv)
  BY <1>6, <1>7, KeptSound
<1>9. ASSUME Untimed(c) PROVE Steady(c, r, asked, asked)
  <2>1. \A q \in Query : ~ c.target[q].current
    BY <1>9 DEF Untimed, OnlineStateTimeout
  <2>2. /\ r.up = c.up /\ r.down = c.down /\ (IsOpen(r) <=> IsOpen(c))
        /\ r.target = c.target /\ r.listeners = c.listeners
    BY <1>7 DEF SameStream, SameWatch, IsOpen
  <2>3. r.docs = c.docs /\ r.synced \in SUBSET c.synced /\ r.timer = FALSE
    BY <1>4, <1>6, <1>7 DEF Later
  <2> QED
    BY <2>1, <2>2, <2>3, <1>3, KeptSteady
<1> QED
  BY <1>1, <1>4, <1>6, <1>7, <1>8, <1>9 DEF SameWatch, SameStream, IsOpen

(***************************************************************************)
(* The stream opens.                                                       *)
(***************************************************************************)
(* One request for each of the queries: one message under way for each,    *)
(* and after them the server has them all.                                 *)
LEMMA OpeningRequests ==
  ASSUME NEW W \in SUBSET Query, IsFiniteSet(W), NEW srv, NEW ms,
         ms = [i \in DOMAIN SetToSeq(W) |-> Msg("watch", SetToSeq(W)[i], 0)]
  PROVE  /\ ms \in Seq(Requests)
         /\ \A q \in Query : Cardinality(Of(ms, q, Counted)) = IF q \in W THEN 1 ELSE 0
         /\ Requested(ms, srv, W)
<1>1. PICK qs : qs = SetToSeq(W)
  OBVIOUS
<1>2. /\ qs \in Seq(W)
      /\ \A i, j \in DOMAIN qs : qs[i] = qs[j] => i = j
      /\ \A x \in W : \E i \in DOMAIN qs : qs[i] = x
  BY <1>1, SetToSeqFacts
<1>3. PICK n : n = Len(qs)
  OBVIOUS
<1>4. n \in Nat /\ DOMAIN qs = 1..n /\ \A i \in 1..n : qs[i] \in W
  BY <1>2, <1>3
<1>5. \A i \in 1..n : Msg("watch", qs[i], 0) \in Requests
  BY <1>4 DEF Msg, Requests
<1>6. ms = [i \in 1..n |-> Msg("watch", qs[i], 0)]
  BY <1>1, <1>4
<1>7. ms \in Seq(Requests) /\ Len(ms) = n /\ DOMAIN ms = 1..n
  BY <1>4, <1>5, <1>6
<1>8. \A i \in 1..n : ms[i].q = qs[i] /\ ms[i].type = "watch"
  BY <1>6 DEF Msg
<1>9. ASSUME NEW q \in Query
      PROVE  Cardinality(Of(ms, q, Counted)) = IF q \in W THEN 1 ELSE 0
  <2>1. Of(ms, q, Counted) = {i \in 1..n : qs[i] = q}
    BY <1>7, <1>8 DEF Of, Counted
  <2>2. CASE q \in W
    <3>1. PICK k \in 1..n : qs[k] = q
      BY <2>2, <1>2, <1>4
    <3>2. Of(ms, q, Counted) = {k}
      BY <2>1, <3>1, <1>2, <1>4
    <3> QED
      BY <3>2, <2>2, FS_Singleton
  <2>3. CASE q \notin W
    <3>1. Of(ms, q, Counted) = {}
      BY <2>1, <2>3, <1>4
    <3> QED
      BY <3>1, <2>3, FS_EmptySet
  <2> QED
    BY <2>2, <2>3
<1>10. ASSUME NEW q \in Query \ Denied
       PROVE  \E h : Follows(h, ms, q, Now(srv, q)) /\ (q \in W => h[n] = "yes")
  <2>1. PICK h : h = [i \in 0..n |-> IF \E j \in 1..n : j <= i /\ qs[j] = q THEN "yes"
                                     ELSE Now(srv, q)]
    OBVIOUS
  <2>2. Now(srv, q) \in {"yes", "no"}
    BY DEF Now
  <2>3. h \in [0..n -> {"yes", "no"}]
    BY <2>1, <2>2
  <2>4. h[0] = Now(srv, q)
    <3>1. 0 \in 0..n /\ ~ \E j \in 1..n : j <= 0
      BY <1>4
    <3> QED
      BY <3>1, <2>1
  <2>5. ASSUME NEW i \in 1..n
        PROVE  /\ ms[i].q # q => h[i] = h[i - 1]
               /\ ms[i].q = q /\ ms[i].type = "watch" => h[i] = "yes"
               /\ ms[i].q = q /\ ms[i].type = "unwatch" => h[i] = "no" /\ h[i - 1] = "yes"
    <3>1. PICK k : k = i - 1
      OBVIOUS
    <3>2. i \in 0..n /\ k \in 0..n /\ i <= i /\ \A j \in 1..n : j <= i <=> (j <= k \/ j = i)
      BY <3>1, <1>4
    <3>3. ms[i].q = q => h[i] = "yes"
      BY <3>2, <2>1, <1>8
    <3>4. ASSUME ms[i].q # q PROVE h[i] = h[k]
      <4>1. qs[i] # q
        BY <3>4, <1>8
      <4>2. (\E j \in 1..n : j <= i /\ qs[j] = q) <=> (\E j \in 1..n : j <= k /\ qs[j] = q)
        BY <4>1, <3>2
      <4> QED
        BY <4>2, <3>2, <2>1
    <3> QED
      BY <3>1, <3>3, <3>4, <1>8
  <2>6. Follows(h, ms, q, Now(srv, q))
    BY <2>3, <2>4, <2>5, <1>7 DEF Follows
  <2>7. ASSUME q \in W PROVE h[n] = "yes"
    <3>1. PICK j \in 1..n : qs[j] = q
      BY <2>7, <1>2, <1>4
    <3>2. j <= n /\ n \in 0..n
      BY <1>4
    <3> QED
      BY <3>1, <3>2, <2>1
  <2> QED
    BY <2>6, <2>7
<1> QED
  BY <1>7, <1>9, <1>10 DEF Requested

(* The credentials are there, and every query listened to is watched.      *)
LEMMA OpenStep ==
  ASSUME NEW srv, Sound(c, srv), OnWatchStreamOpen
  PROVE  /\ Sound(c', srv) /\ c'.failures = c.failures /\ IsOpen(c')
         /\ c'.listeners = c.listeners /\ c'.events = c.events
         /\ Steady(c, c', asked, asked)
<1>1. PICK W, ms, tg : /\ W = Targets(c)
                       /\ ms = [i \in DOMAIN SetToSeq(W) |-> Msg("watch", SetToSeq(W)[i], 0)]
                       /\ tg = [q \in Query |-> IF q \in W
                                                THEN [c.target[q] EXCEPT !.waiting = @ + 1]
                                                ELSE c.target[q]]
  OBVIOUS
<1>2. PICK r : r = c'
  OBVIOUS
<1>3. r = Send([ResumeStart(c) EXCEPT !.target = tg], ms) /\ c.request
  BY <1>1, <1>2 DEF OnWatchStreamOpen
<1>4. c \in ClientType /\ IsFiniteSet(c.listeners) /\ Waits(c) /\ Tracked(c)
  BY DEF Sound, Attended
<1>5. Streamed(c) /\ Counts(c) /\ Replied(c)
  BY DEF Sound
<1>6. ~ IsOpen(c) /\ c.up = <<>> /\ c.down = <<>> /\ ~ c.idle
  <2>1. ~ IsOpen(c)
    BY <1>3, <1>5 DEF Streamed, IsOpen
  <2> QED
    BY <2>1, <1>5 DEF Streamed
<1>7. W \in SUBSET Query /\ IsFiniteSet(W)
  BY <1>1, <1>4, ClientFields, FinitelyManyTargets
<1>8. /\ ms \in Seq(Requests)
      /\ \A q \in Query : Cardinality(Of(ms, q, Counted)) = IF q \in W THEN 1 ELSE 0
      /\ Requested(ms, srv, W)
  BY <1>1, <1>7, OpeningRequests
<1>9. ASSUME NEW q \in Query
      PROVE  /\ tg[q] \in TargetType
             /\ tg[q].waiting = c.target[q].waiting + IF q \in W THEN 1 ELSE 0
             /\ c.target[q].waiting \in Nat /\ tg[q].current = c.target[q].current
             /\ tg[q].changed = c.target[q].changed /\ tg[q].docs = c.target[q].docs
  <2>1. c.target[q] \in TargetType
    BY <1>4, ClientFields
  <2>2. PICK n : n = c.target[q].waiting + 1
    OBVIOUS
  <2>3. c.target[q].waiting \in Nat /\ n \in Nat
    BY <2>1, <2>2 DEF TargetType
  <2>4. CASE q \in W
    <3>1. tg[q] = [c.target[q] EXCEPT !.waiting = n]
      BY <2>2, <2>4, <1>1
    <3>2. /\ tg[q] \in TargetType /\ tg[q].waiting = n /\ tg[q].current = c.target[q].current
          /\ tg[q].changed = c.target[q].changed /\ tg[q].docs = c.target[q].docs
      BY <3>1, <2>1, <2>3 DEF TargetType
    <3> QED
      BY <3>2, <2>2, <2>3, <2>4
  <2>5. CASE q \notin W
    <3>1. tg[q] = c.target[q]
      BY <2>5, <1>1
    <3> QED
      BY <3>1, <2>1, <2>3, <2>5
  <2> QED
    BY <2>4, <2>5
<1>10. tg \in [Query -> TargetType]
  BY <1>1, <1>9
<1>11. /\ r \in ClientType /\ r.state = "Open" /\ r.request = FALSE /\ r.target = tg
       /\ r.up = ms /\ r.down = <<>> /\ r.idle = FALSE
       /\ r.online = c.online /\ r.failures = c.failures /\ r.timer = c.timer
       /\ r.listeners = c.listeners /\ r.raised = c.raised /\ r.synced = c.synced
       /\ r.events = c.events /\ r.docs = c.docs
  <2>1. PICK o : o = [ResumeStart(c) EXCEPT !.target = tg]
    OBVIOUS
  <2>2. o = [c EXCEPT !.state = "Open", !.request = FALSE, !.target = tg]
    BY <2>1, <1>4 DEF ResumeStart, ClientType
  <2>3. /\ o \in ClientType /\ o.state = "Open" /\ o.request = FALSE /\ o.target = tg
        /\ o.up = c.up /\ o.down = c.down /\ o.idle = c.idle
        /\ o.online = c.online /\ o.failures = c.failures /\ o.timer = c.timer
        /\ o.listeners = c.listeners /\ o.raised = c.raised /\ o.synced = c.synced
        /\ o.events = c.events /\ o.docs = c.docs
    BY <2>2, <1>4, <1>10 DEF ClientType, State
  <2>4. c.idle = FALSE
    BY <1>4, <1>6, ClientFields
  <2>5. CASE ms = <<>>
    <3>1. r = o
      BY <2>1, <2>5, <1>3 DEF Send
    <3> QED
      BY <2>3, <2>4, <2>5, <3>1, <1>6
  <2>6. CASE ms # <<>>
    <3>1. o.up \o ms = ms
      BY <2>3, <1>6, <1>8
    <3>2. r = [o EXCEPT !.up = ms, !.idle = FALSE]
      BY <2>1, <2>6, <3>1, <1>3 DEF Send
    <3>3. /\ r \in ClientType /\ r.up = ms /\ r.idle = FALSE
          /\ r.state = o.state /\ r.request = o.request /\ r.target = o.target
          /\ r.down = o.down
          /\ r.online = o.online /\ r.failures = o.failures /\ r.timer = o.timer
          /\ r.listeners = o.listeners /\ r.raised = o.raised /\ r.synced = o.synced
          /\ r.events = o.events /\ r.docs = o.docs
      BY <2>3, <3>2, <1>8 DEF ClientType
    <3> QED
      BY <2>3, <3>3, <1>6
  <2> QED
    BY <2>5, <2>6
<1>12. IsOpen(r) /\ IsStarted(r) /\ Targets(r) = W
  BY <1>1, <1>11 DEF IsOpen, IsStarted, Targets
<1>13. Attended(r) /\ Streamed(r)
  BY <1>4, <1>11, <1>12 DEF Attended, Waits, Tracked, Running, Streamed
<1>14. ASSUME NEW q \in Query \ Denied PROVE r.target[q].waiting = Flight(r, q)
  <2>1. c.target[q].waiting = 0
    BY <1>5, <1>6, OfEmpty DEF Counts, Flight
  <2>2. Cardinality(Of(r.down, q, Counted)) = 0
    BY <1>11, OfEmpty
  <2>3. Cardinality(Of(r.up, q, Counted)) = IF q \in W THEN 1 ELSE 0
    BY <1>8, <1>11
  <2>4. r.target[q].waiting = c.target[q].waiting + IF q \in W THEN 1 ELSE 0
    BY <1>9, <1>11
  <2> QED
    BY <2>1, <2>2, <2>3, <2>4 DEF Flight
<1>15. Replied(r)
  BY <1>5, <1>6, <1>11 DEF Replied
<1>16. Requested(r.up, srv, Watched(r))
  BY <1>8, <1>11, <1>12 DEF Watched
<1>17. ASSUME NEW q \in W PROVE ~ Unasked(r, q)
  <2>1. Cardinality(Of(ms, q, Counted)) = 1 /\ Cardinality({}) = 0
    BY <1>7, <1>8, FS_EmptySet
  <2>2. PICK j \in Of(ms, q, Counted) : TRUE
    BY <2>1
  <2> QED
    BY <2>2, <1>11 DEF Unasked, Of
<1>18. Steady(c, r, asked, asked)
  <2>1. \A q \in Query : Unasked(c, q)
    BY <1>6 DEF Unasked
  <2>2. ASSUME NEW q \in Query
        PROVE  /\ r.target[q].current = c.target[q].current
               /\ r.target[q].changed = c.target[q].changed
               /\ r.target[q].docs = c.target[q].docs
               /\ r.target[q].waiting = 0 => c.target[q].waiting = 0
    BY <1>9, <1>11
  <2> QED
    BY <2>1, <2>2, <1>6, <1>11, <1>12, <1>17 DEF Steady
<1> QED
  BY <1>2, <1>11, <1>12, <1>13, <1>14, <1>15, <1>16, <1>18 DEF Sound, Counts

(***************************************************************************)
(* A message is read.                                                      *)
(***************************************************************************)
(* What a message takes from the count.                                    *)
Weight(m, q) == IF m.q = q /\ m.type \in Counted THEN 1 ELSE 0

(* The client is sound after a message if the count follows.               *)
LEMMA ReadSound ==
  ASSUME NEW srv, Sound(c, srv), c.down # <<>>, NEW r \in ClientType,
         r.state = c.state, r.idle = c.idle, r.request = c.request,
         r.up = c.up, r.down = Tail(c.down),
         r.listeners \in SUBSET c.listeners, Waits(r), Tracked(r),
         \A q \in Query \ Denied :
           r.target[q].waiting = c.target[q].waiting - Weight(Head(c.down), q)
  PROVE  Sound(r, srv)
<1>1. c \in ClientType /\ IsFiniteSet(c.listeners) /\ Running(c)
  BY DEF Sound, Attended
<1>2. Streamed(c) /\ Counts(c) /\ Replied(c) /\ Requested(c.up, srv, Watched(c))
  BY DEF Sound
<1>3. c.up \in Seq(Requests) /\ c.down \in Seq(Replies)
  BY <1>1, ClientFields
<1>4. Targets(r) \in SUBSET Targets(c) /\ (IsOpen(r) <=> IsOpen(c)) /\ (IsStarted(r) <=> IsStarted(c))
  BY DEF Targets, IsOpen, IsStarted
<1>5. Attended(r)
  <2>1. IsFiniteSet(r.listeners)
    BY <1>1, FS_Subset
  <2>2. Running(r)
    BY <1>1, <1>4 DEF Running
  <2> QED
    BY <2>1, <2>2 DEF Attended
<1>6. Streamed(r)
  BY <1>2, <1>4 DEF Streamed
<1>7. ASSUME NEW q \in Query \ Denied PROVE r.target[q].waiting = Flight(r, q)
  <2>1. PICK a, b, d, w : /\ a = Cardinality(Of(c.up, q, Counted))
                          /\ b = Cardinality(Of(c.down, q, Counted))
                          /\ d = Cardinality(Of(Tail(c.down), q, Counted))
                          /\ w = Weight(Head(c.down), q)
    OBVIOUS
  <2>2. a \in Nat /\ b \in Nat
    BY <2>1, <1>3, OfFinite
  <2>3. d \in Nat
    <3>1. Tail(c.down) \in Seq(Replies)
      BY <1>3
    <3> QED
      BY <3>1, <2>1, OfFinite
  <2>4. b = d + w
    BY <2>1, <1>3, OfTail DEF Weight
  <2>5. w \in Nat
    BY <2>1 DEF Weight
  <2>6. c.target[q].waiting = a + b /\ Flight(r, q) = a + d
    BY <2>1, <1>2 DEF Counts, Flight
  <2>7. r.target[q].waiting = c.target[q].waiting - w
    BY <2>1
  <2> QED
    BY <2>2, <2>3, <2>4, <2>5, <2>6, <2>7
<1>8. Replied(r)
  <2>1. ASSUME NEW i \in DOMAIN r.down
        PROVE  /\ r.down[i].type \in {"added", "removed"} => r.down[i].q \in Query \ Denied
               /\ r.down[i].type = "error" => r.down[i].q \in Denied
    <3>1. PICK k : k = i + 1
      OBVIOUS
    <3>2. k \in DOMAIN c.down /\ r.down[i] = c.down[k]
      BY <3>1, <1>3
    <3> QED
      BY <3>2, <1>2 DEF Replied
  <2> QED
    BY <2>1 DEF Replied
<1>9. Requested(r.up, srv, Watched(r))
  <2>1. Watched(r) \in SUBSET Watched(c)
    BY <1>4 DEF Watched
  <2> QED
    BY <2>1, <1>2, RequestedLess
<1> QED
  BY <1>5, <1>6, <1>7, <1>8, <1>9 DEF Sound, Counts

(* What is read first was counted.                                         *)
LEMMA HeadCounted ==
  ASSUME NEW srv, Sound(c, srv), c.down # <<>>, NEW m, m = Head(c.down)
  PROVE  /\ m \in Replies
         /\ m.type \in {"added", "removed"} =>
              m.q \in Query \ Denied /\ c.target[m.q].waiting \in Nat \ {0}
         /\ m.type = "error" => m.q \in Denied /\ m.q \in Query
         /\ \A q \in Query \ Denied : c.target[q].waiting \in Nat
<1>1. c \in ClientType /\ Counts(c) /\ Replied(c)
  BY DEF Sound, Attended
<1>2. c.up \in Seq(Requests) /\ c.down \in Seq(Replies)
  BY <1>1, ClientFields
<1>3. 1 \in DOMAIN c.down /\ m = c.down[1] /\ m \in Replies
  BY <1>2
<1>4. /\ m.type \in {"added", "removed"} => m.q \in Query \ Denied
      /\ m.type = "error" => m.q \in Denied
  BY <1>1, <1>3 DEF Replied
<1>5. ASSUME m.type \in {"added", "removed"} PROVE c.target[m.q].waiting \in Nat \ {0}
  <2>1. PICK q, a, b, d : /\ q = m.q
                          /\ a = Cardinality(Of(c.up, q, Counted))
                          /\ b = Cardinality(Of(c.down, q, Counted))
                          /\ d = Cardinality(Of(Tail(c.down), q, Counted))
    OBVIOUS
  <2>2. a \in Nat /\ b \in Nat
    BY <2>1, <1>2, OfFinite
  <2>3. d \in Nat
    <3>1. Tail(c.down) \in Seq(Replies)
      BY <1>2
    <3> QED
      BY <3>1, <2>1, OfFinite
  <2>4. b = d + 1
    <3>1. m.q = q /\ m.type \in Counted
      BY <2>1, <1>5 DEF Counted
    <3> QED
      BY <2>1, <3>1, <1>2, OfTail
  <2>5. c.target[q].waiting = a + b
    BY <2>1, <1>1, <1>4, <1>5 DEF Counts, Flight
  <2> QED
    BY <2>1, <2>2, <2>3, <2>4, <2>5
<1>6. \A q \in Query \ Denied : c.target[q].waiting \in Nat
  BY <1>1, ClientFields DEF TargetType
<1> QED
  BY <1>3, <1>4, <1>5, <1>6, ListenAssumption

(* What a message makes of a target: a confirmation, and documents.        *)
Confirmed(old, new) ==
  /\ new.current => old.current
  /\ new.current /\ new.waiting = 0 => ~ new.changed
  /\ new.docs \in {0, old.docs}
Informed(old, new, type, v, active) ==
  IF active
  THEN /\ new.docs = v /\ new.changed /\ new.waiting = old.waiting
       /\ new.current = (old.current \/ type = "current")
  ELSE new = old

(* What a snapshot makes of a query.                                       *)
Shows(s, r, q) ==
  IF IsActiveTarget(s, q) /\ s.target[q].changed
  THEN /\ r.docs[q] = IF s.target[q].docs > s.docs[q] THEN s.target[q].docs ELSE s.docs[q]
       /\ r.target[q].current = s.target[q].current
       /\ ~ r.target[q].changed /\ r.target[q].docs = 0
       /\ q \in r.synced <=> s.target[q].current
  ELSE /\ r.target[q] = s.target[q] /\ r.docs[q] = s.docs[q]
       /\ q \in r.synced <=> q \in s.synced

(* What the client knows of q before and after message m.                  *)
Learns(s, r, m, q) ==
  /\ m.type # "snapshot" => r.docs[q] = s.docs[q]
  /\ m.type \notin {"snapshot", "error"} => (q \in r.synced <=> q \in s.synced)
  /\ m.type = "error" => /\ q \in r.synced => q \in s.synced
                         /\ m.q # q /\ q \in s.synced => q \in r.synced
  /\ m.type # "snapshot" /\ m.q # q => r.target[q] = s.target[q]
  /\ m.q = q /\ m.type \in {"added", "removed"} => Confirmed(s.target[q], r.target[q])
  /\ m.q = q /\ m.type \in News =>
       Informed(s.target[q], r.target[q], m.type, m.v, IsActiveTarget(s, q))
  /\ m.q = q /\ m.type = "error" => r.target[q] \in {s.target[q], NewTarget}
  /\ m.type = "snapshot" => Shows(s, r, q)

(* A confirmation is one response less to wait for.                        *)
LEMMA ConfirmShape ==
  ASSUME NEW t \in ClientType, NEW q \in Query, t.target[q].waiting \in Nat \ {0},
         NEW r, r = HandleAdded(t, q) \/ r = HandleRemoved(t, q)
  PROVE  \E tg \in [Query -> TargetType] :
           /\ r = [t EXCEPT !.target = tg]
           /\ tg[q].waiting = t.target[q].waiting - 1
           /\ \A p \in Query \ {q} : tg[p] = t.target[p]
           /\ Confirmed(t.target[q], tg[q])
<1>1. PICK n : n = t.target[q].waiting - 1
  OBVIOUS
<1>2. n \in Nat
  BY <1>1
<1>3. t.target \in [Query -> TargetType] /\ t.target[q] \in TargetType
  BY ClientFields
<1>4. PICK k : /\ r = [t EXCEPT !.target[q] = k]
               /\ \/ n # 0 /\ k = [t.target[q] EXCEPT !.waiting = n]
                  \/ n = 0 /\ k = [t.target[q] EXCEPT !.waiting = 0, !.changed = FALSE, !.docs = 0]
                  \/ n = 0 /\ k = NewTarget
  BY <1>1 DEF HandleAdded, HandleRemoved
<1>5. 0 \in Version /\ 0 \in Nat
  BY ListenAssumption DEF Version
<1>6. k \in TargetType /\ k.waiting = n /\ Confirmed(t.target[q], k)
  <2>1. CASE n # 0 /\ k = [t.target[q] EXCEPT !.waiting = n]
    BY <2>1, <1>2, <1>3 DEF TargetType, Confirmed
  <2>2. CASE n = 0 /\ k = [t.target[q] EXCEPT !.waiting = 0, !.changed = FALSE, !.docs = 0]
    BY <2>2, <1>3, <1>5 DEF TargetType, Confirmed
  <2>3. CASE n = 0 /\ k = NewTarget
    BY <2>3, NewTargetFacts DEF Confirmed, NewTarget
  <2> QED
    BY <2>1, <2>2, <2>3, <1>4
<1>7. PICK tg : tg = [t.target EXCEPT ![q] = k]
  OBVIOUS
<1>8. tg \in [Query -> TargetType] /\ tg[q] = k /\ \A p \in Query \ {q} : tg[p] = t.target[p]
  BY <1>3, <1>6, <1>7
<1>9. r = [t EXCEPT !.target = tg]
  BY <1>4, <1>7
<1> QED
  BY <1>1, <1>6, <1>8, <1>9

(* Documents do not touch the count.                                       *)
LEMMA DocumentsShape ==
  ASSUME NEW t \in ClientType, NEW q \in Query, NEW v \in Version,
         NEW r, NEW type \in News,
         r = IF type = "current" THEN HandleCurrent(t, q, v) ELSE HandleDocuments(t, q, v)
  PROVE  \E tg \in [Query -> TargetType] :
           /\ r = [t EXCEPT !.target = tg]
           /\ \A p \in Query : tg[p].waiting = t.target[p].waiting
           /\ \A p \in Query \ {q} : tg[p] = t.target[p]
           /\ Informed(t.target[q], tg[q], type, v, IsActiveTarget(t, q))
<1>1. t.target \in [Query -> TargetType] /\ t.target[q] \in TargetType
  BY ClientFields
<1>2. CASE ~ IsActiveTarget(t, q)
  <2>1. r = t
    BY <1>2 DEF HandleDocuments, HandleCurrent
  <2>2. r = [t EXCEPT !.target = t.target]
    BY <2>1 DEF ClientType
  <2>3. Informed(t.target[q], t.target[q], type, v, IsActiveTarget(t, q))
    BY <1>2 DEF Informed
  <2> QED
    BY <2>2, <2>3, <1>1
<1>3. CASE IsActiveTarget(t, q)
  <2>1. PICK a : a = [t.target[q] EXCEPT !.docs = v, !.changed = TRUE]
    OBVIOUS
  <2>2. /\ a \in TargetType /\ a.waiting = t.target[q].waiting
        /\ a.docs = v /\ a.changed = TRUE /\ a.current = t.target[q].current
    BY <2>1, <1>1 DEF TargetType
  <2>3. PICK d : d = [t EXCEPT !.target[q] = a]
    OBVIOUS
  <2>4. d = [t EXCEPT !.target[q].docs = v, !.target[q].changed = TRUE]
    BY <2>1, <2>3, <1>1 DEF ClientType, TargetType
  <2>5. PICK b : b = [a EXCEPT !.current = TRUE]
    OBVIOUS
  <2>6. /\ b \in TargetType /\ b.waiting = a.waiting
        /\ b.docs = v /\ b.changed = TRUE /\ b.current = TRUE
    BY <2>2, <2>5 DEF TargetType
  <2>7. d.target[q] = a
    BY <2>3, <1>1 DEF ClientType
  <2>8. [d EXCEPT !.target[q].current = TRUE] = [t EXCEPT !.target[q] = b]
    BY <2>3, <2>5, <2>7, <1>1 DEF ClientType
  <2>9. r = IF type = "current" THEN [d EXCEPT !.target[q].current = TRUE] ELSE d
    BY <2>4, <1>3 DEF HandleDocuments, HandleCurrent
  <2>10. PICK k \in {a, b} : /\ r = [t EXCEPT !.target[q] = k]
                             /\ k = IF type = "current" THEN b ELSE a
    BY <2>3, <2>8, <2>9
  <2>11. PICK tg : tg = [t.target EXCEPT ![q] = k]
    OBVIOUS
  <2>12. k \in TargetType /\ k.waiting = t.target[q].waiting
    BY <2>2, <2>6, <2>10
  <2>13. tg \in [Query -> TargetType] /\ \A p \in Query : tg[p].waiting = t.target[p].waiting
    BY <2>11, <2>12, <1>1
  <2>14. r = [t EXCEPT !.target = tg]
    BY <2>10, <2>11
  <2>15. tg[q] = k /\ \A p \in Query \ {q} : tg[p] = t.target[p]
    BY <2>11, <1>1
  <2>16. t.target[q].current \in BOOLEAN
    BY <1>1 DEF TargetType
  <2>17. Informed(t.target[q], k, type, v, IsActiveTarget(t, q))
    BY <2>2, <2>6, <2>10, <2>16, <1>3 DEF Informed
  <2> QED
    BY <2>13, <2>14, <2>15, <2>17
<1> QED
  BY <1>2, <1>3

(* A snapshot changes documents and views, and raises events.              *)
LEMMA SnapshotShape ==
  ASSUME NEW t \in ClientType, IsFiniteSet(t.listeners), NEW r, r = RaiseWatchSnapshot(t)
  PROVE  /\ r \in ClientType /\ SameStream(t, r) /\ r.listeners = t.listeners
         /\ r.online = t.online /\ r.failures = t.failures /\ r.timer = t.timer
         /\ \A p \in Query : r.target[p].waiting = t.target[p].waiting
         /\ Shown(t, r) /\ Waits(r)
         /\ \A p \in Query : Shows(t, r, p)
<1>1. PICK changed : changed = {q \in Query : IsActiveTarget(t, q) /\ t.target[q].changed}
  OBVIOUS
<1>2. PICK docs, current : /\ docs = {q \in changed : t.target[q].docs > t.docs[q]}
                           /\ current = {q \in changed : t.target[q].current}
  OBVIOUS
<1>3. PICK synced, ds, tg :
        /\ synced = (t.synced \ changed) \cup current
        /\ ds = [q \in Query |-> IF q \in docs THEN t.target[q].docs ELSE t.docs[q]]
        /\ tg = [q \in Query |-> IF q \in changed
                                 THEN [t.target[q] EXCEPT !.changed = FALSE, !.docs = 0]
                                 ELSE t.target[q]]
  OBVIOUS
<1>4. PICK w, sync : /\ w = [t EXCEPT !.docs = ds, !.target = tg, !.synced = synced]
                     /\ sync = {q \in changed : (q \in synced) # (q \in t.synced)}
  OBVIOUS
<1>5. r = OnViewSnapshots(w, docs, sync)
  BY <1>1, <1>2, <1>3, <1>4 DEF RaiseWatchSnapshot
<1>6. /\ t.target \in [Query -> TargetType] /\ t.docs \in [Query -> Version]
      /\ t.synced \in SUBSET Query
  BY ClientFields
<1>7. \A q \in Query : t.target[q] \in TargetType /\ t.target[q].docs \in Version
  BY <1>6 DEF TargetType
<1>8. 0 \in Version
  BY ListenAssumption DEF Version
<1>9. ds \in [Query -> Version] /\ synced \in SUBSET Query
  BY <1>1, <1>2, <1>3, <1>6, <1>7
<1>10. ASSUME NEW q \in Query
       PROVE  tg[q] \in TargetType /\ tg[q].waiting = t.target[q].waiting
  <2>1. CASE q \in changed
    <3>1. tg[q] = [t.target[q] EXCEPT !.changed = FALSE, !.docs = 0]
      BY <2>1, <1>3
    <3> QED
      BY <3>1, <1>7, <1>8 DEF TargetType
  <2>2. CASE q \notin changed
    BY <2>2, <1>3, <1>7
  <2> QED
    BY <2>1, <2>2
<1>11. tg \in [Query -> TargetType]
  BY <1>3, <1>10
<1>12. /\ w \in ClientType /\ SameStream(t, w) /\ w.listeners = t.listeners /\ w.target = tg
       /\ w.online = t.online /\ w.failures = t.failures /\ w.timer = t.timer
       /\ w.events = t.events /\ w.docs = ds /\ w.synced = synced
  BY <1>4, <1>9, <1>11 DEF ClientType, SameStream
<1>13. /\ r \in ClientType /\ SameStream(w, r) /\ SameWatch(w, r)
       /\ r.online = w.online /\ r.failures = w.failures /\ r.timer = w.timer
       /\ r.docs = w.docs /\ r.synced = w.synced /\ Later(w, r) /\ Waits(r)
  BY <1>5, <1>12, ViewsShape
<1>14. Shown(t, r)
  BY <1>12, <1>13 DEF Shown, SameWatch
<1>15. SameStream(t, r) /\ r.listeners = t.listeners /\ r.target = tg
  BY <1>12, <1>13 DEF SameStream, SameWatch
<1>16. ASSUME NEW q \in Query PROVE Shows(t, r, q)
  <2>1. r.docs = ds /\ r.synced = synced /\ r.target = tg
    BY <1>12, <1>13, <1>15
  <2>2. CASE q \in changed
    <3>1. IsActiveTarget(t, q) /\ t.target[q].changed
      BY <2>2, <1>1
    <3>2. tg[q] = [t.target[q] EXCEPT !.changed = FALSE, !.docs = 0]
      BY <2>2, <1>3
    <3>3. tg[q].changed = FALSE /\ tg[q].docs = 0 /\ tg[q].current = t.target[q].current
      BY <3>2, <1>7, <1>8 DEF TargetType
    <3>4. q \in synced <=> t.target[q].current
      BY <2>2, <1>2, <1>3
    <3>5. ds[q] = IF t.target[q].docs > t.docs[q] THEN t.target[q].docs ELSE t.docs[q]
      BY <2>2, <1>2, <1>3
    <3> QED
      BY <2>1, <3>1, <3>3, <3>4, <3>5 DEF Shows
  <2>3. CASE q \notin changed
    <3>1. ~ (IsActiveTarget(t, q) /\ t.target[q].changed)
      BY <2>3, <1>1
    <3>2. tg[q] = t.target[q] /\ ds[q] = t.docs[q] /\ (q \in synced <=> q \in t.synced)
      BY <2>3, <1>2, <1>3
    <3> QED
      BY <2>1, <3>1, <3>2 DEF Shows
  <2> QED
    BY <2>2, <2>3
<1> QED
  BY <1>10, <1>12, <1>13, <1>14, <1>15, <1>16

(* Refusals: one for each listener that is forgotten.                      *)
Refusals(es, before, after) ==
  /\ \A i \in DOMAIN es : es[i].from = "error" /\ es[i].l \in before \ after
  /\ \A i, j \in DOMAIN es : es[i].l = es[j].l => i = j

Refused(t, r, q) ==
  /\ r \in ClientType /\ SameStream(t, r) /\ r.listeners \in SUBSET t.listeners
  /\ r.online = t.online /\ r.failures = t.failures /\ r.timer = t.timer
  /\ \A p \in Query \ {q} : r.target[p] = t.target[p]
  /\ r.target[q] \in {t.target[q], NewTarget}
  /\ r.docs = t.docs /\ r.synced \in SUBSET t.synced /\ t.synced \ {q} \in SUBSET r.synced
  /\ Waits(r)
  /\ \E es \in Seq(Event) : /\ r.events = t.events \o es
                            /\ Refusals(es, t.listeners, r.listeners)

(* The listeners of a refused query are told and forgotten.                *)
LEMMA ErrorShape ==
  ASSUME NEW t \in ClientType, IsFiniteSet(t.listeners), Waits(t), NEW q \in Query,
         NEW r, r = ProcessTargetError(t, q)
  PROVE  Refused(t, r, q)
<1>1. PICK told : told = {l \in t.listeners : QueryOf[l] = q}
  OBVIOUS
<1>2. CASE told = {}
  <2>1. r = t
    BY <1>1, <1>2 DEF ProcessTargetError
  <2>2. PICK es : es = <<>>
    OBVIOUS
  <2>3. es \in Seq(Event) /\ DOMAIN es = {} /\ t.events \o es = t.events
    BY <2>2, ClientFields
  <2>4. Refusals(es, t.listeners, r.listeners)
    BY <2>3 DEF Refusals
  <2> QED
    BY <2>1, <2>3, <2>4 DEF SameStream, Refused
<1>3. CASE told # {}
  <2>1. PICK f : f = [l \in told |-> [l |-> l, v |-> 0, from |-> "error"]]
    OBVIOUS
  <2>2. PICK E : E = {[l |-> l, v |-> 0, from |-> "error"] : l \in told}
    OBVIOUS
  <2>3. told \in SUBSET t.listeners /\ IsFiniteSet(told) /\ told \in SUBSET Listener
    <3>1. told \in SUBSET t.listeners
      BY <1>1
    <3> QED
      BY <3>1, FS_Subset, ClientFields
  <2>4. 0 \in Version
    BY ListenAssumption DEF Version
  <2>5. f \in [told -> Event] /\ E = {f[l] : l \in told}
    BY <2>1, <2>2, <2>3, <2>4 DEF Event
  <2>6. IsFiniteSet(E) /\ E \in SUBSET Event
    <3>1. IsFiniteSet(E)
      BY <2>3, <2>5, FinitelyManyEvents
    <3> QED
      BY <3>1, <2>5
  <2>7. \A e \in E : e.from = "error" /\ e.l \in told /\ e = [l |-> e.l, v |-> 0, from |-> "error"]
    BY <2>2
  <2>8. PICK es : es = SetToSeq(E)
    OBVIOUS
  <2>9. es \in Seq(E) /\ \A i, j \in DOMAIN es : es[i] = es[j] => i = j
    BY <2>6, <2>8, SetToSeqFacts
  <2>10. es \in Seq(Event) /\ \A i \in DOMAIN es : es[i] \in E
    BY <2>6, <2>9
  <2>11. PICK tg, ls, sy, ev : /\ tg = [t.target EXCEPT ![q] = NewTarget]
                               /\ ls = t.listeners \ told /\ sy = t.synced \ {q}
                               /\ ev = t.events \o es
    OBVIOUS
  <2>12. r = [t EXCEPT !.target = tg, !.listeners = ls, !.synced = sy, !.events = ev]
    BY <1>1, <1>3, <2>2, <2>8, <2>11 DEF ProcessTargetError, ClientType
  <2>13. /\ tg \in [Query -> TargetType] /\ ls \in SUBSET Listener /\ sy \in SUBSET Query
         /\ ev \in Seq(Event) /\ \A p \in Query \ {q} : tg[p] = t.target[p]
         /\ tg[q] = NewTarget
    BY <2>10, <2>11, ClientFields, NewTargetFacts
  <2>14. /\ r \in ClientType /\ SameStream(t, r) /\ r.listeners = ls /\ r.target = tg
         /\ r.online = t.online /\ r.failures = t.failures /\ r.timer = t.timer
         /\ r.raised = t.raised /\ r.synced = sy /\ r.events = ev /\ r.docs = t.docs
    <3>1. r \in ClientType
      BY ONLY <2>12, <2>13, t \in ClientType DEF ClientType
    <3> QED
      BY ONLY <2>12, <3>1, t \in ClientType DEF ClientType, SameStream
  <2>15. Waits(r)
    BY <2>11, <2>14 DEF Waits
  <2>16. Refusals(es, t.listeners, r.listeners)
    <3>1. \A i \in DOMAIN es : es[i].from = "error" /\ es[i].l \in t.listeners \ r.listeners
      BY <2>3, <2>7, <2>10, <2>11, <2>14
    <3>2. ASSUME NEW i \in DOMAIN es, NEW j \in DOMAIN es, es[i].l = es[j].l PROVE i = j
      <4>1. es[i] = es[j]
        BY <3>2, <2>7, <2>10
      <4> QED
        BY <4>1, <2>9
    <3> QED
      BY <3>1, <3>2 DEF Refusals
  <2> QED
    BY <2>10, <2>11, <2>13, <2>14, <2>15, <2>16 DEF Refused
<1> QED
  BY <1>2, <1>3

(* A message was read, and each query learnt from it what it had to.       *)
Reads(s, r) ==
  /\ s.down # <<>> /\ r.up = s.up /\ r.down = Tail(s.down) /\ r.timer = FALSE
  /\ (IsOpen(r) <=> IsOpen(s)) /\ r.listeners \in SUBSET s.listeners
  /\ \A q \in Query : Learns(s, r, Head(s.down), q)

(* A message is read: the client is online, and every kind of message      *)
(* leaves it sound.                                                        *)
LEMMA ReadStep ==
  ASSUME NEW srv, Sound(c, srv), OnStreamRead
  PROVE  /\ Sound(c', srv) /\ c'.failures = 0 /\ c'.listeners \in SUBSET c.listeners
         /\ (IsOpen(c) => IsOpen(c')) /\ Reads(c, c')
         /\ \E t \in ClientType, es \in Seq(Event) :
              /\ Later(c, t) /\ t.listeners = c.listeners
              /\ \/ Shown(t, c')
                 \/ c'.events = t.events \o es /\ Refusals(es, c.listeners, c'.listeners)
<1>1. PICK b, m, t, r : /\ b = [c EXCEPT !.down = Tail(c.down)] /\ m = Head(c.down)
                        /\ t = UpdateState(b, "Online") /\ r = c'
  OBVIOUS
<1>2. r = OnWatchStreamChange(b, m) /\ c.down # <<>>
  BY <1>1 DEF OnStreamRead
<1>3. c \in ClientType /\ IsFiniteSet(c.listeners) /\ Waits(c)
  BY DEF Sound, Attended
<1>4. /\ m \in Replies
      /\ m.type \in {"added", "removed"} =>
           m.q \in Query \ Denied /\ c.target[m.q].waiting \in Nat \ {0}
      /\ m.type = "error" => m.q \in Denied /\ m.q \in Query
      /\ \A q \in Query \ Denied : c.target[q].waiting \in Nat
  BY <1>1, <1>2, HeadCounted
<1>5. Tail(c.down) \in Seq(Replies)
  BY <1>2, <1>3, ClientFields
<1>6. /\ b \in ClientType /\ b.state = c.state /\ b.idle = c.idle /\ b.request = c.request
      /\ b.up = c.up /\ b.down = Tail(c.down) /\ b.target = c.target
      /\ b.listeners = c.listeners /\ b.online = c.online /\ b.raised = c.raised
      /\ b.synced = c.synced /\ b.events = c.events /\ b.docs = c.docs
  BY <1>1, <1>3, <1>5 DEF ClientType
<1>7. IsFiniteSet(b.listeners) /\ Waits(b)
  BY <1>3, <1>6 DEF Waits
<1>8. /\ t \in ClientType /\ SameStream(b, t) /\ SameWatch(b, t)
      /\ t.failures = 0 /\ t.timer = FALSE /\ Later(b, t) /\ Waits(t) /\ Tracked(t)
      /\ t.docs = b.docs /\ t.synced = b.synced
  BY <1>1, <1>6, <1>7, UpdateShape
<1>9. t.target = c.target /\ t.listeners = c.listeners /\ IsFiniteSet(t.listeners)
  BY <1>6, <1>7, <1>8 DEF SameWatch
<1>10. /\ t.docs = c.docs /\ t.synced = c.synced
      /\ \A q : IsActiveTarget(t, q) <=> IsActiveTarget(c, q)
  BY <1>6, <1>8, <1>9 DEF IsActiveTarget, Targets
<1>11. Later(c, t)
  BY <1>6, <1>8, LaterFrom
<1>12. /\ t.state = c.state /\ t.idle = c.idle /\ t.request = c.request
       /\ t.up = c.up /\ t.down = Tail(c.down)
  BY <1>6, <1>8 DEF SameStream
<1>13. ASSUME r \in ClientType, SameStream(t, r), r.listeners \in SUBSET t.listeners,
              r.failures = t.failures, r.timer = t.timer, Waits(r), Tracked(r),
              \A q \in Query : Learns(c, r, m, q),
              \A q \in Query \ Denied :
                r.target[q].waiting = c.target[q].waiting - Weight(m, q),
              \E es \in Seq(Event) :
                \/ Shown(t, r)
                \/ r.events = t.events \o es /\ Refusals(es, t.listeners, r.listeners)
       PROVE  /\ Sound(c', srv) /\ c'.failures = 0 /\ c'.listeners \in SUBSET c.listeners
              /\ (IsOpen(c) => IsOpen(c')) /\ Reads(c, c')
              /\ \E y \in ClientType, es \in Seq(Event) :
                   /\ Later(c, y) /\ y.listeners = c.listeners
                   /\ \/ Shown(y, c')
                      \/ c'.events = y.events \o es /\ Refusals(es, c.listeners, c'.listeners)
  <2>1. /\ r.state = c.state /\ r.idle = c.idle /\ r.request = c.request
        /\ r.up = c.up /\ r.down = Tail(c.down)
    BY <1>12, <1>13 DEF SameStream
  <2>2. r.listeners \in SUBSET c.listeners
    BY <1>9, <1>13
  <2>3. Sound(r, srv)
    BY <2>1, <2>2, <1>1, <1>2, <1>13, ReadSound
  <2>4. IsOpen(c) => IsOpen(r)
    BY <2>1 DEF IsOpen
  <2>5. Reads(c, r)
    <3>1. (IsOpen(r) <=> IsOpen(c)) /\ r.timer = FALSE
      BY <2>1, <1>8, <1>13 DEF IsOpen
    <3> QED
      BY <2>1, <2>2, <3>1, <1>1, <1>2, <1>13 DEF Reads
  <2> QED
    BY <2>2, <2>3, <2>4, <2>5, <1>1, <1>8, <1>9, <1>11, <1>13
<1>14. <<>> \in Seq(Event)
  OBVIOUS
<1>15. ASSUME NEW tg \in [Query -> TargetType], r = [t EXCEPT !.target = tg]
       PROVE  /\ r \in ClientType /\ SameStream(t, r) /\ r.listeners \in SUBSET t.listeners
              /\ r.failures = t.failures /\ Waits(r) /\ Tracked(r) /\ r.target = tg
              /\ Shown(t, r) /\ r.timer = t.timer /\ r.docs = c.docs /\ r.synced = c.synced
  <2>1. /\ r \in ClientType /\ SameStream(t, r) /\ r.listeners = t.listeners
        /\ r.failures = t.failures /\ r.online = t.online /\ r.timer = t.timer
        /\ r.raised = t.raised /\ r.synced = t.synced /\ r.target = tg
        /\ r.events = t.events /\ r.docs = t.docs
    BY <1>8, <1>15 DEF ClientType, SameStream
  <2>2. Waits(r) /\ Tracked(r)
    BY <2>1, <1>8 DEF Waits, Tracked
  <2>3. Later(t, r)
    BY <2>1, <1>8, LaterSame
  <2> QED
    BY <2>1, <2>2, <2>3, <1>8, <1>10 DEF Shown
<1>16. CASE m.type \in {"added", "removed"}
  <2>1. r = HandleAdded(t, m.q) \/ r = HandleRemoved(t, m.q)
    BY <1>1, <1>2, <1>16 DEF OnWatchStreamChange
  <2>2. m.q \in Query /\ t.target[m.q].waiting \in Nat \ {0}
    BY <1>4, <1>9, <1>16
  <2>3. PICK tg \in [Query -> TargetType] :
          /\ r = [t EXCEPT !.target = tg]
          /\ tg[m.q].waiting = t.target[m.q].waiting - 1
          /\ \A p \in Query \ {m.q} : tg[p] = t.target[p]
          /\ Confirmed(t.target[m.q], tg[m.q])
    BY <2>1, <2>2, <1>8, ConfirmShape
  <2>4. /\ r \in ClientType /\ SameStream(t, r) /\ r.listeners \in SUBSET t.listeners
        /\ r.failures = t.failures /\ Waits(r) /\ Tracked(r) /\ r.target = tg
        /\ Shown(t, r) /\ r.timer = t.timer /\ r.docs = c.docs /\ r.synced = c.synced
    BY <2>3, <1>15
  <2>5. ASSUME NEW q \in Query \ Denied
        PROVE  r.target[q].waiting = c.target[q].waiting - Weight(m, q)
    <3>1. m.type \in Counted
      BY <1>16 DEF Counted
    <3>2. CASE q = m.q
      <4>1. Weight(m, q) = 1
        BY <3>1, <3>2 DEF Weight
      <4> QED
        BY <4>1, <3>2, <2>3, <2>4, <1>9
    <3>3. CASE q # m.q
      <4>1. Weight(m, q) = 0
        BY <3>3 DEF Weight
      <4>2. r.target[q].waiting = c.target[q].waiting /\ c.target[q].waiting \in Nat
        BY <3>3, <2>3, <2>4, <1>4, <1>9
      <4> QED
        BY <4>1, <4>2
    <3> QED
      BY <3>2, <3>3
  <2>6. m.type \notin {"snapshot", "error"} \cup News
    BY <1>16 DEF News
  <2>7. ASSUME NEW q \in Query PROVE Learns(c, r, m, q)
    <3>1. q # m.q => r.target[q] = c.target[q]
      BY <2>3, <2>4, <1>9
    <3>2. q = m.q => Confirmed(c.target[q], r.target[q])
      BY <2>3, <2>4, <1>9
    <3> QED
      BY <2>4, <2>6, <3>1, <3>2 DEF Learns
  <2> QED
    BY <2>4, <2>5, <2>7, <1>13, <1>14
<1>17. ASSUME m.type \notin Counted, NEW q \in Query \ Denied,
              r.target[q].waiting = t.target[q].waiting
       PROVE  r.target[q].waiting = c.target[q].waiting - Weight(m, q)
  <2>1. Weight(m, q) = 0
    BY <1>17 DEF Weight
  <2>2. r.target[q].waiting = c.target[q].waiting /\ c.target[q].waiting \in Nat
    BY <1>4, <1>9, <1>17
  <2> QED
    BY <2>1, <2>2
<1>18. CASE m.type \in {"change", "current"}
  <2>1. r = IF m.type = "current" THEN HandleCurrent(t, m.q, m.v)
            ELSE HandleDocuments(t, m.q, m.v)
    BY <1>1, <1>2, <1>18 DEF OnWatchStreamChange
  <2>2. m.q \in Query /\ m.v \in Version /\ m.type \in News
    BY <1>4, <1>18 DEF Replies, News
  <2>3. PICK tg \in [Query -> TargetType] :
          /\ r = [t EXCEPT !.target = tg]
          /\ \A p \in Query : tg[p].waiting = t.target[p].waiting
          /\ \A p \in Query \ {m.q} : tg[p] = t.target[p]
          /\ Informed(t.target[m.q], tg[m.q], m.type, m.v, IsActiveTarget(t, m.q))
    <3>1. PICK q, v, type : q = m.q /\ v = m.v /\ type = m.type
      OBVIOUS
    <3>2. q \in Query /\ v \in Version /\ type \in News
      BY <2>2, <3>1
    <3>3. r = IF type = "current" THEN HandleCurrent(t, q, v) ELSE HandleDocuments(t, q, v)
      BY ONLY <2>1, <3>1
    <3>4. \E tg \in [Query -> TargetType] :
            /\ r = [t EXCEPT !.target = tg]
            /\ \A p \in Query : tg[p].waiting = t.target[p].waiting
            /\ \A p \in Query \ {q} : tg[p] = t.target[p]
            /\ Informed(t.target[q], tg[q], type, v, IsActiveTarget(t, q))
      BY ONLY <3>2, <3>3, <1>8, DocumentsShape
    <3> QED
      BY ONLY <3>1, <3>4
  <2>4. /\ r \in ClientType /\ SameStream(t, r) /\ r.listeners \in SUBSET t.listeners
        /\ r.failures = t.failures /\ Waits(r) /\ Tracked(r) /\ r.target = tg
        /\ Shown(t, r) /\ r.timer = t.timer /\ r.docs = c.docs /\ r.synced = c.synced
    BY <2>3, <1>15
  <2>5. m.type \notin Counted
    BY <1>18 DEF Counted
  <2>6. \A q \in Query \ Denied : r.target[q].waiting = c.target[q].waiting - Weight(m, q)
    BY <2>3, <2>4, <2>5, <1>17
  <2>7. m.type \notin {"snapshot", "error", "added", "removed"}
    BY <1>18
  <2>8. ASSUME NEW q \in Query PROVE Learns(c, r, m, q)
    <3>1. q # m.q => r.target[q] = c.target[q]
      BY <2>3, <2>4, <1>9
    <3>2. q = m.q => Informed(c.target[q], r.target[q], m.type, m.v, IsActiveTarget(c, q))
      <4>1. IsActiveTarget(t, m.q) <=> IsActiveTarget(c, m.q)
        BY <1>10
      <4> QED
        BY <4>1, <2>3, <2>4, <1>9 DEF Informed
    <3> QED
      BY <2>4, <2>7, <3>1, <3>2 DEF Learns
  <2> QED
    BY <2>4, <2>6, <2>8, <1>13, <1>14
<1>19. CASE m.type = "snapshot"
  <2>1. r = RaiseWatchSnapshot(t)
    BY <1>1, <1>2, <1>19 DEF OnWatchStreamChange
  <2>2. /\ r \in ClientType /\ SameStream(t, r) /\ r.listeners = t.listeners
        /\ r.online = t.online /\ r.failures = t.failures /\ r.timer = t.timer
        /\ \A p \in Query : r.target[p].waiting = t.target[p].waiting
        /\ Shown(t, r) /\ Waits(r) /\ \A p \in Query : Shows(t, r, p)
    BY <2>1, <1>8, <1>9, SnapshotShape
  <2>3. Tracked(r)
    BY <2>2, <1>8 DEF Tracked
  <2>4. m.type \notin Counted
    BY <1>19 DEF Counted
  <2>5. \A q \in Query \ Denied : r.target[q].waiting = c.target[q].waiting - Weight(m, q)
    BY <2>2, <2>4, <1>17
  <2>6. ASSUME NEW q \in Query PROVE Learns(c, r, m, q)
    <3>1. Shows(t, r, q) /\ (IsActiveTarget(t, q) <=> IsActiveTarget(c, q))
      BY <2>2, <1>10
    <3>2. Shows(c, r, q)
      BY <3>1, <1>9, <1>10 DEF Shows
    <3>3. m.type \notin News
      BY <1>19 DEF News
    <3> QED
      BY <3>2, <3>3, <1>19 DEF Learns
  <2> QED
    BY <2>2, <2>3, <2>5, <2>6, <1>13, <1>14
<1>20. CASE m.type = "error"
  <2>1. r = ProcessTargetError(t, m.q)
    BY <1>1, <1>2, <1>20 DEF OnWatchStreamChange
  <2>2. /\ r \in ClientType /\ SameStream(t, r) /\ r.listeners \in SUBSET t.listeners
        /\ r.online = t.online /\ r.failures = t.failures /\ r.timer = t.timer
        /\ \A p \in Query \ {m.q} : r.target[p] = t.target[p]
        /\ r.target[m.q] \in {t.target[m.q], NewTarget}
        /\ r.docs = t.docs /\ r.synced \in SUBSET t.synced
        /\ t.synced \ {m.q} \in SUBSET r.synced
        /\ Waits(r)
        /\ \E es \in Seq(Event) : /\ r.events = t.events \o es
                                  /\ Refusals(es, t.listeners, r.listeners)
    <3>1. t \in ClientType /\ IsFiniteSet(t.listeners) /\ Waits(t)
      BY <1>8, <1>9
    <3>2. PICK q : q = m.q
      OBVIOUS
    <3>3. q \in Query /\ r = ProcessTargetError(t, q)
      BY <2>1, <3>2, <1>4, <1>20
    <3>4. Refused(t, r, q)
      BY ONLY <3>1, <3>3, ErrorShape
    <3> QED
      BY <3>2, <3>4 DEF Refused
  <2>3. Tracked(r)
    BY <2>2, <1>8 DEF Tracked
  <2>4. m.type \notin Counted /\ m.q \in Denied
    BY <1>4, <1>20 DEF Counted
  <2>5. \A q \in Query \ Denied : r.target[q].waiting = c.target[q].waiting - Weight(m, q)
    BY <2>2, <2>4, <1>17
  <2>6. ASSUME NEW q \in Query PROVE Learns(c, r, m, q)
    <3>1. q # m.q => r.target[q] = c.target[q] /\ (q \in c.synced => q \in r.synced)
      BY <2>2, <1>9, <1>10
    <3>2. r.docs = c.docs /\ r.synced \in SUBSET c.synced
      BY <2>2, <1>10
    <3>3. q = m.q => r.target[q] \in {c.target[q], NewTarget}
      BY <2>2, <1>9
    <3>4. m.type \notin News
      BY <1>20 DEF News
    <3> QED
      BY <3>1, <3>2, <3>3, <3>4, <1>20 DEF Learns
  <2> QED
    BY <2>2, <2>3, <2>5, <2>6, <1>13
<1> QED
  BY <1>4, <1>16, <1>18, <1>19, <1>20 DEF Replies

(***************************************************************************)
(* The server's steps.                                                     *)
(***************************************************************************)
(* One reply more on the wire.                                             *)
LEMMA ReplyShape ==
  ASSUME NEW s \in ClientType, Replied(s), NEW x \in Replies,
         x.type \in {"added", "removed"} => x.q \in Query \ Denied,
         x.type = "error" => x.q \in Denied,
         NEW d, d = Append(s.down, x)
  PROVE  /\ d \in Seq(Replies)
         /\ \A q \in Query : Cardinality(Of(d, q, Counted)) =
                               Cardinality(Of(s.down, q, Counted)) + Weight(x, q)
         /\ \A r : r.down = d => Replied(r)
<1>1. s.down \in Seq(Replies)
  BY ClientFields
<1>2. PICK n : n = Len(s.down)
  OBVIOUS
<1>3. /\ n \in Nat /\ d \in Seq(Replies) /\ DOMAIN d = 1..(n + 1) /\ DOMAIN s.down = 1..n
      /\ d[n + 1] = x /\ \A i \in 1..n : d[i] = s.down[i]
  BY <1>1, <1>2
<1>4. \A q \in Query : Cardinality(Of(d, q, Counted)) =
                         Cardinality(Of(s.down, q, Counted)) + Weight(x, q)
  BY <1>1, OfAppend DEF Weight
<1>5. ASSUME NEW i \in DOMAIN d
      PROVE  /\ d[i].type \in {"added", "removed"} => d[i].q \in Query \ Denied
             /\ d[i].type = "error" => d[i].q \in Denied
  <2>1. i \in 1..n \/ i = n + 1
    BY <1>3
  <2>2. CASE i = n + 1
    BY <2>2, <1>3
  <2>3. CASE i \in 1..n
    <3>1. i \in DOMAIN s.down /\ d[i] = s.down[i]
      BY <2>3, <1>3
    <3> QED
      BY <3>1 DEF Replied
  <2> QED
    BY <2>1, <2>2, <2>3
<1> QED
  BY <1>3, <1>4, <1>5 DEF Replied

(* Only the wire of an open stream changes.                                *)
LEMMA WireSound ==
  ASSUME NEW srv, Sound(c, srv), IsOpen(c), NEW r,
         NEW u \in Seq(Requests), NEW d \in Seq(Replies),
         r = [c EXCEPT !.up = u, !.down = d],
         \A q \in Query \ Denied : c.target[q].waiting = Flight(r, q),
         Replied(r), NEW new, Requested(u, new, Watched(c))
  PROVE  /\ Sound(r, new) /\ IsOpen(r)
         /\ r.failures = c.failures /\ r.listeners = c.listeners /\ r.events = c.events
<1>1. c \in ClientType
  BY DEF Sound, Attended
<1>2. /\ r \in ClientType /\ r.state = c.state /\ r.idle = c.idle /\ r.request = c.request
      /\ r.up = u /\ r.down = d /\ r.target = c.target
      /\ r.online = c.online /\ r.failures = c.failures /\ r.timer = c.timer
      /\ r.listeners = c.listeners /\ r.raised = c.raised /\ r.synced = c.synced
      /\ r.events = c.events
  BY <1>1 DEF ClientType
<1>3. IsOpen(r) /\ IsStarted(r) /\ Targets(r) = Targets(c)
  BY <1>2 DEF IsOpen, IsStarted, Targets
<1>4. Attended(r) /\ Streamed(r)
  BY <1>2, <1>3 DEF Attended, Waits, Tracked, Running, Streamed, Sound
<1>5. Watched(r) = Watched(c)
  BY <1>3 DEF Watched
<1>6. Counts(r)
  BY <1>2 DEF Counts
<1> QED
  BY <1>2, <1>3, <1>4, <1>5, <1>6 DEF Sound

(* What the server serves of a stream, and that it serves only those.      *)
Serving(s, srv, more) ==
  /\ srv \in [Query -> NotServed..MaxVersion] /\ more \in BOOLEAN
  /\ \A q \in Denied : srv[q] = NotServed
  /\ ~ IsOpen(s) => more = FALSE /\ \A q \in Query : srv[q] = NotServed

(* The server answers a request.                                           *)
LEMMA TakesStep ==
  ASSUME Sound(c, serving), Serving(c, serving, dirty), ServerTakes
  PROVE  /\ Sound(c', serving') /\ Serving(c', serving', dirty')
         /\ c'.failures = c.failures /\ c'.listeners = c.listeners /\ c'.events = c.events
<1>1. PICK m, r, new : m = Head(c.up) /\ r = c' /\ new = serving'
  OBVIOUS
<1>2. PICK p : p = m.q
  OBVIOUS
<1>3. PICK a : a = IF m.type = "unwatch"
                   THEN IF serving[p] = NotServed THEN <<>> ELSE <<Msg("removed", p, 0)>>
                   ELSE <<Msg(IF p \in Denied THEN "error" ELSE "added", p, 0)>>
  OBVIOUS
<1>4. PICK k : k = IF m.type = "unwatch" \/ p \in Denied THEN NotServed ELSE Adding
  OBVIOUS
<1>5. /\ c.up # <<>> /\ r = [c EXCEPT !.up = Tail(c.up), !.down = c.down \o a]
      /\ new = [serving EXCEPT ![p] = k] /\ dirty' = dirty
  BY <1>1, <1>2, <1>3, <1>4 DEF ServerTakes
<1>6. c \in ClientType /\ Counts(c) /\ Replied(c) /\ Requested(c.up, serving, Watched(c))
  BY DEF Sound, Attended
<1>7. c.up \in Seq(Requests) /\ c.down \in Seq(Replies)
  BY <1>6, ClientFields
<1>8. m \in Requests /\ Tail(c.up) \in Seq(Requests) /\ m = c.up[1] /\ 1 \in 1..Len(c.up)
  BY <1>1, <1>5, <1>7
<1>9. p \in Query /\ m.type \in {"watch", "unwatch"}
  BY <1>2, <1>8 DEF Requests
<1>10. IsOpen(c)
  BY <1>5 DEF Sound, Streamed
<1>11. /\ serving \in [Query -> NotServed..MaxVersion] /\ dirty \in BOOLEAN
       /\ \A q \in Denied : serving[q] = NotServed
  BY DEF Serving
<1>12. k \in NotServed..MaxVersion
  BY <1>4, ListenAssumption DEF NotServed, Adding
<1>13. /\ new \in [Query -> NotServed..MaxVersion] /\ new[p] = k
       /\ \A q \in Query \ {p} : new[q] = serving[q]
  BY <1>5, <1>9, <1>11, <1>12
<1>14. \A q \in Denied : new[q] = NotServed
  BY <1>4, <1>11, <1>13, ListenAssumption
<1>15. ASSUME NEW q \in Query \ Denied
       PROVE  /\ \E g : /\ Follows(g, Tail(c.up), q, Now(new, q))
                        /\ q \in Watched(c) => g[Len(Tail(c.up))] = "yes"
              /\ q = p /\ m.type = "unwatch" => serving[q] # NotServed
  <2>1. PICK h : Follows(h, c.up, q, Now(serving, q)) /\ (q \in Watched(c) => h[Len(c.up)] = "yes")
    BY <1>6 DEF Requested
  <2>2. h[0] = Now(serving, q)
    BY <2>1 DEF Follows
  <2>3. /\ m.q # q => h[1] = h[0]
        /\ m.q = q /\ m.type = "watch" => h[1] = "yes"
        /\ m.q = q /\ m.type = "unwatch" => h[1] = "no" /\ h[0] = "yes"
    <3>1. 1 - 1 = 0
      OBVIOUS
    <3> QED
      BY <2>1, <3>1, <1>8 DEF Follows
  <2>4. h[1] = Now(new, q)
    <3>1. NotServed # Adding
      BY DEF NotServed, Adding
    <3>2. CASE q # p
      BY <2>2, <2>3, <3>2, <1>2, <1>13 DEF Now
    <3>3. CASE q = p
      BY <2>3, <3>1, <3>3, <1>2, <1>4, <1>9, <1>13 DEF Now
    <3> QED
      BY <3>2, <3>3
  <2>5. PICK g : Follows(g, Tail(c.up), q, h[1]) /\ g[Len(Tail(c.up))] = h[Len(c.up)]
    BY <2>1, <1>5, <1>7, FollowsTail
  <2>6. q = p /\ m.type = "unwatch" => serving[q] # NotServed
    BY <2>2, <2>3, <1>2 DEF Now
  <2> QED
    BY <2>1, <2>4, <2>5, <2>6
<1>16. Requested(Tail(c.up), new, Watched(c))
  BY <1>15 DEF Requested
<1>17. ASSUME NEW q \in Query \ Denied
       PROVE  /\ Cardinality(Of(c.up, q, Counted)) =
                   Cardinality(Of(Tail(c.up), q, Counted)) + IF q = p THEN 1 ELSE 0
              /\ Cardinality(Of(Tail(c.up), q, Counted)) \in Nat
              /\ Cardinality(Of(c.down, q, Counted)) \in Nat
  <2>1. m.type \in Counted
    BY <1>9 DEF Counted
  <2>2. Cardinality(Of(c.up, q, Counted)) =
          Cardinality(Of(Tail(c.up), q, Counted)) + IF m.q = q /\ m.type \in Counted THEN 1 ELSE 0
    BY <1>1, <1>5, <1>7, OfTail
  <2> QED
    BY <2>1, <2>2, <1>2, <1>7, <1>8, OfFinite
<1>18. PICK d : d = c.down \o a
  OBVIOUS
<1>19. r.up = Tail(c.up) /\ r.down = d
  BY <1>5, <1>6, <1>18 DEF ClientType
<1>20. /\ d \in Seq(Replies) /\ Replied(r)
       /\ \A q \in Query \ Denied : c.target[q].waiting = Flight(r, q)
  <2>1. CASE m.type = "unwatch" /\ serving[p] = NotServed
    <3>1. a = <<>>
      BY <2>1, <1>3
    <3>2. d = c.down
      BY <3>1, <1>7, <1>18
    <3>3. p \in Denied
      BY <2>1, <1>9, <1>15
    <3>4. ASSUME NEW q \in Query \ Denied PROVE c.target[q].waiting = Flight(r, q)
      <4>1. q # p
        BY <3>3
      <4> QED
        BY <4>1, <3>2, <1>6, <1>17, <1>19 DEF Counts, Flight
    <3> QED
      BY <3>2, <3>4, <1>6, <1>7, <1>19 DEF Replied
  <2>2. CASE ~ (m.type = "unwatch" /\ serving[p] = NotServed)
    <3>1. PICK x : /\ a = <<x>>
                   /\ x = Msg(IF m.type = "unwatch" THEN "removed"
                              ELSE IF p \in Denied THEN "error" ELSE "added", p, 0)
      BY <2>2, <1>3
    <3>2. /\ x.q = p /\ x.type \in {"added", "removed", "error"}
          /\ x.type = "error" <=> (p \in Denied /\ m.type = "watch")
      BY <3>1, <1>9 DEF Msg
    <3>3. x \in Replies
      BY <3>1, <1>9 DEF Msg, Replies
    <3>4. p \in Denied <=> x.type = "error"
      BY <3>2, <2>2, <1>9, <1>11
    <3>5. d = Append(c.down, x)
      BY <3>1, <3>3, <1>7, <1>18
    <3>6. x.type \in {"added", "removed"} => x.q \in Query \ Denied
      BY <3>2, <3>4, <1>9
    <3>7. x.type = "error" => x.q \in Denied
      BY <3>2, <3>4
    <3>8. /\ d \in Seq(Replies)
          /\ \A q \in Query : Cardinality(Of(d, q, Counted)) =
                                Cardinality(Of(c.down, q, Counted)) + Weight(x, q)
          /\ \A y : y.down = d => Replied(y)
      BY <3>3, <3>5, <3>6, <3>7, <1>6, ReplyShape
    <3>9. ASSUME NEW q \in Query \ Denied PROVE c.target[q].waiting = Flight(r, q)
      <4>1. Weight(x, q) = IF q = p THEN 1 ELSE 0
        BY <3>2, <3>4 DEF Weight, Counted
      <4>2. PICK i, j, f, g : /\ i = Cardinality(Of(c.up, q, Counted))
                              /\ j = Cardinality(Of(Tail(c.up), q, Counted))
                              /\ f = Cardinality(Of(c.down, q, Counted))
                              /\ g = Cardinality(Of(d, q, Counted))
        OBVIOUS
      <4>3. i = j + (IF q = p THEN 1 ELSE 0) /\ j \in Nat /\ f \in Nat
        BY <4>2, <1>17
      <4>4. g = f + IF q = p THEN 1 ELSE 0
        BY <4>1, <4>2, <3>8
      <4>5. c.target[q].waiting = i + f /\ Flight(r, q) = j + g
        BY <4>2, <1>6, <1>19 DEF Counts, Flight
      <4> QED
        BY <4>3, <4>4, <4>5
    <3> QED
      BY <3>8, <3>9, <1>19
  <2> QED
    BY <2>1, <2>2
<1>21. /\ Sound(r, new) /\ IsOpen(r)
       /\ r.failures = c.failures /\ r.listeners = c.listeners /\ r.events = c.events
  BY <1>5, <1>8, <1>10, <1>16, <1>18, <1>20, WireSound
<1> QED
  BY <1>1, <1>5, <1>11, <1>13, <1>14, <1>21 DEF Serving

(* The server sends documents, or a snapshot.                              *)
LEMMA SendsStep ==
  ASSUME Sound(c, serving), Serving(c, serving, dirty), version \in 1..MaxVersion,
         ServerSnapshots \/ \E q \in Query : ServerSends(q)
  PROVE  /\ Sound(c', serving') /\ Serving(c', serving', dirty')
         /\ c'.failures = c.failures /\ c'.listeners = c.listeners /\ c'.events = c.events
<1>1. PICK r, new, more : r = c' /\ new = serving' /\ more = dirty'
  OBVIOUS
<1>2. c \in ClientType /\ Counts(c) /\ Replied(c) /\ Requested(c.up, serving, Watched(c))
  BY DEF Sound, Attended
<1>3. c.up \in Seq(Requests) /\ c.down \in Seq(Replies)
  BY <1>2, ClientFields
<1>4. /\ serving \in [Query -> NotServed..MaxVersion] /\ dirty \in BOOLEAN
      /\ \A q \in Denied : serving[q] = NotServed
      /\ ~ IsOpen(c) => dirty = FALSE /\ \A q \in Query : serving[q] = NotServed
  BY DEF Serving
<1>5. MaxVersion \in Nat /\ NotServed = -2 /\ Adding = -1
  BY ListenAssumption DEF NotServed, Adding
<1>6. /\ IsOpen(c) /\ more \in BOOLEAN /\ new \in [Query -> NotServed..MaxVersion]
      /\ \A q \in Query : new[q] = NotServed <=> serving[q] = NotServed
      /\ \E x \in Replies : /\ r = [c EXCEPT !.down = Append(c.down, x)]
                            /\ x.type \in {"current", "change", "snapshot"}
  <2>1. CASE ServerSnapshots
    <3>1. /\ dirty /\ more = FALSE /\ new = serving
          /\ r = [c EXCEPT !.down = Append(c.down, Msg("snapshot", "all", 0))]
      BY <2>1, <1>1 DEF ServerSnapshots
    <3>2. Msg("snapshot", "all", 0) \in Replies /\ Msg("snapshot", "all", 0).type = "snapshot"
      BY DEF Msg, Replies
    <3>3. IsOpen(c)
      BY <3>1, <1>4
    <3> QED
      BY <3>1, <3>2, <3>3, <1>4
  <2>2. ASSUME NEW p \in Query, ServerSends(p)
        PROVE  /\ IsOpen(c) /\ more \in BOOLEAN /\ new \in [Query -> NotServed..MaxVersion]
               /\ \A q \in Query : new[q] = NotServed <=> serving[q] = NotServed
               /\ \E x \in Replies : /\ r = [c EXCEPT !.down = Append(c.down, x)]
                                     /\ x.type \in {"current", "change", "snapshot"}
    <3>1. PICK v, y : /\ v = version
                      /\ y = IF serving[p] = Adding THEN "current" ELSE "change"
      OBVIOUS
    <3>2. /\ serving[p] \in Adding..(v - 1) /\ new = [serving EXCEPT ![p] = v] /\ more = TRUE
          /\ r = [c EXCEPT !.down = Append(c.down, Msg(y, p, v))]
      BY <2>2, <3>1, <1>1 DEF ServerSends
    <3>3. v \in 1..MaxVersion
      BY <3>1
    <3>4. v \in NotServed..MaxVersion /\ v \in Version /\ v # NotServed /\ serving[p] # NotServed
      BY <3>2, <3>3, <1>5 DEF Version
    <3>5. Msg(y, p, v) \in Replies /\ Msg(y, p, v).type \in {"current", "change"}
      BY <3>1, <3>4 DEF Msg, Replies
    <3>6. IsOpen(c)
      BY <3>4, <1>4
    <3>7. new \in [Query -> NotServed..MaxVersion]
      BY <3>2, <3>4, <1>4
    <3>8. \A q \in Query : new[q] = NotServed <=> serving[q] = NotServed
      BY <3>2, <3>4, <1>4
    <3> QED
      BY <3>2, <3>5, <3>6, <3>7, <3>8
  <2> QED
    BY <2>1, <2>2
<1>7. PICK x \in Replies : /\ r = [c EXCEPT !.down = Append(c.down, x)]
                           /\ x.type \in {"current", "change", "snapshot"}
  BY <1>6
<1>8. PICK d : d = Append(c.down, x)
  OBVIOUS
<1>9. r = [c EXCEPT !.up = c.up, !.down = d]
  BY <1>2, <1>7, <1>8 DEF ClientType
<1>10. r.up = c.up /\ r.down = d
  BY <1>2, <1>9 DEF ClientType
<1>11. /\ d \in Seq(Replies)
       /\ \A q \in Query : Cardinality(Of(d, q, Counted)) =
                             Cardinality(Of(c.down, q, Counted)) + Weight(x, q)
       /\ Replied(r)
  BY <1>2, <1>7, <1>8, <1>10, ReplyShape
<1>12. ASSUME NEW q \in Query \ Denied PROVE c.target[q].waiting = Flight(r, q)
  <2>1. Weight(x, q) = 0
    BY <1>7 DEF Weight, Counted
  <2>2. Cardinality(Of(c.down, q, Counted)) \in Nat
    BY <1>3, OfFinite
  <2>3. Cardinality(Of(d, q, Counted)) = Cardinality(Of(c.down, q, Counted))
    BY <2>1, <2>2, <1>11
  <2> QED
    BY <2>3, <1>2, <1>10 DEF Counts, Flight
<1>13. Requested(c.up, new, Watched(c))
  <2>1. \A q \in Query : Now(new, q) = Now(serving, q)
    BY <1>6 DEF Now
  <2> QED
    BY <2>1, <1>2 DEF Requested
<1>14. /\ Sound(r, new) /\ IsOpen(r)
       /\ r.failures = c.failures /\ r.listeners = c.listeners /\ r.events = c.events
  BY <1>3, <1>6, <1>9, <1>11, <1>12, <1>13, WireSound
<1>15. \A q \in Denied : new[q] = NotServed
  BY <1>4, <1>6, ListenAssumption
<1> QED
  BY <1>1, <1>6, <1>14, <1>15 DEF Serving

(***************************************************************************)
(* The connection is over.                                                 *)
(***************************************************************************)
(* Nothing of a closed stream is left on either side.                      *)
LEMMA ClosedSound ==
  ASSUME ConnectionOver, Cut(c'), Running(c')
  PROVE  Sound(c', serving') /\ Serving(c', serving', dirty')
<1>1. PICK r, new, more : r = c' /\ new = serving' /\ more = dirty'
  OBVIOUS
<1>2. new = [q \in Query |-> NotServed] /\ more = FALSE
  BY <1>1 DEF ConnectionOver
<1>3. Sound(r, new)
  <2>1. Cut(r) /\ Running(r)
    BY <1>1
  <2> QED
    BY <2>1, CutSound
<1>4. NotServed \in NotServed..MaxVersion
  BY ListenAssumption DEF NotServed
<1>5. Serving(r, new, more)
  BY <1>2, <1>4, ListenAssumption DEF Serving
<1> QED
  BY <1>1, <1>3, <1>5

(* An idle stream closes, or one breaks, or the network changes.           *)
LEMMA ClosingStep ==
  ASSUME Sound(c, serving), IdleTimeout \/ StreamFails \/ ConnectivityChanged
  PROVE  /\ Sound(c', serving') /\ Serving(c', serving', dirty')
         /\ c'.listeners = c.listeners /\ Later(c, c') /\ Severed(c, c', asked, asked)
         /\ c'.failures \in 0..(c.failures + 1)
         /\ IdleTimeout => c'.failures = 0
<1>1. PICK r : r = c'
  OBVIOUS
<1>2. c \in ClientType /\ IsFiniteSet(c.listeners) /\ Waits(c) /\ Tracked(c)
  BY DEF Sound, Attended
<1>3. c.failures \in Nat
  BY <1>2, ClientFields
<1>4. /\ Cut(r) /\ Running(r) /\ r.listeners = c.listeners /\ Later(c, r)
      /\ r.failures \in 0..(c.failures + 1)
      /\ IdleTimeout => r.failures = 0
  <2>1. CASE IdleTimeout
    <3>1. c.idle /\ r = OnWatchStreamClose(c, "Initial")
      BY <2>1, <1>1 DEF IdleTimeout
    <3>2. Targets(c) = {}
      BY <3>1 DEF Sound, Streamed
    <3> QED
      BY <3>1, <3>2, <1>2, CloseShape
  <2>2. CASE StreamFails /\ ~ IdleTimeout
    <3>1. r = OnWatchStreamClose(c, "Error")
      BY <2>2, <1>1 DEF StreamFails
    <3> QED
      BY <3>1, <2>2, <1>2, CloseShape
  <2>3. CASE ConnectivityChanged /\ ~ IdleTimeout
    <3>1. r = RestartNetwork(c)
      BY <2>3, <1>1 DEF ConnectivityChanged
    <3>2. /\ Cut(r) /\ Running(r) /\ r.listeners = c.listeners
          /\ r.failures = 0 /\ Later(c, r)
      BY <3>1, <1>2, RestartShape
    <3>3. r.failures \in 0..(c.failures + 1)
      BY <3>2, <1>3
    <3> QED
      BY <3>2, <3>3, <2>3
  <2> QED
    BY <2>1, <2>2, <2>3
<1>5. ConnectionOver
  BY DEF IdleTimeout, StreamFails, ConnectivityChanged
<1>6. Sound(c', serving') /\ Serving(c', serving', dirty')
  BY <1>1, <1>4, <1>5, ClosedSound
<1>7. Severed(c, r, asked, asked)
  BY <1>4 DEF Severed, Later
<1> QED
  BY <1>1, <1>4, <1>6, <1>7

(***************************************************************************)
(* The inductive invariant.                                                *)
(***************************************************************************)
AppTyped ==
  /\ muted \in SUBSET Gets
  /\ called \in [Listener -> Event \cup {Nothing}]
  /\ asked \in [Listener -> -2..MaxVersion]
  /\ version \in 1..MaxVersion
  /\ trouble \in 0..MaxTrouble

ListenInv ==
  /\ Sound(c, serving) /\ Serving(c, serving, dirty)
  /\ AppTyped /\ c.failures <= trouble

(* It holds in the beginning.                                              *)
LEMMA ListenInit ==
  ASSUME Init
  PROVE  ListenInv
<1>1. /\ c.state = "Initial" /\ c.idle = FALSE /\ c.request = FALSE
      /\ c.up = <<>> /\ c.down = <<>> /\ c.online = "Unknown" /\ c.failures = 0
      /\ c.timer = FALSE /\ c.target = NoTargets /\ c.listeners = {} /\ c.synced = {}
  BY DEF Init
<1>2. c \in ClientType
  <2>1. 0 \in Version
    BY ListenAssumption DEF Version
  <2>2. [q \in Query |-> 0] \in [Query -> Version]
    BY <2>1
  <2>3. <<>> \in Seq(Requests) /\ <<>> \in Seq(Replies) /\ <<>> \in Seq(Event) /\ 0 \in Nat
    OBVIOUS
  <2>4. "Initial" \in State \ {"Healthy"}
    BY DEF State
  <2>5. c = [state |-> "Initial", idle |-> FALSE, request |-> FALSE,
             up |-> <<>>, down |-> <<>>,
             online |-> "Unknown", failures |-> 0, timer |-> FALSE,
             target |-> NoTargets, listeners |-> {}, raised |-> {},
             synced |-> {}, docs |-> [q \in Query |-> 0], events |-> <<>>]
    BY DEF Init
  <2> QED
    BY <2>2, <2>3, <2>4, <2>5, NewTargetFacts DEF ClientType
<1>3. Cut(c) /\ Running(c)
  <2>1. IsFiniteSet(c.listeners) /\ Targets(c) = {}
    BY <1>1, FS_EmptySet DEF Targets
  <2> QED
    BY <2>1, <1>1, <1>2 DEF Cut, Running, Waits, Tracked, IsOpen
<1>4. Sound(c, serving)
  BY <1>3, CutSound
<1>5. Serving(c, serving, dirty)
  <2>1. serving = [q \in Query |-> NotServed] /\ dirty = FALSE
    BY DEF Init
  <2>2. NotServed \in NotServed..MaxVersion
    BY ListenAssumption DEF NotServed
  <2> QED
    BY <2>1, <2>2, ListenAssumption DEF Serving
<1>6. AppTyped
  <2>1. asked \in [Listener -> -2..MaxVersion]
    <3>1. PICK visit \in Visits : asked = [l \in Listener |-> IF l \in visit THEN -1 ELSE -2]
      BY DEF Init
    <3>2. -1 \in -2..MaxVersion /\ -2 \in -2..MaxVersion
      BY ListenAssumption
    <3> QED
      BY <3>1, <3>2
  <2>2. version \in 1..MaxVersion /\ trouble \in 0..MaxTrouble
    BY ListenAssumption DEF Init
  <2>3. muted \in SUBSET Gets /\ called \in [Listener -> Event \cup {Nothing}]
    BY DEF Init
  <2> QED
    BY <2>1, <2>2, <2>3 DEF AppTyped
<1>7. c.failures <= trouble
  BY <1>1 DEF Init
<1> QED
  BY <1>4, <1>5, <1>6, <1>7 DEF ListenInv

(* The server keeps serving when only the client moved.                    *)
LEMMA ServingKept ==
  ASSUME Serving(c, serving, dirty), UNCHANGED server, IsOpen(c) => IsOpen(c')
  PROVE  Serving(c', serving', dirty') /\ serving' = serving
<1>1. serving' = serving /\ dirty' = dirty
  BY DEF server
<1> QED
  BY <1>1 DEF Serving

(* The variables of the app.                                               *)
LEMMA AppKept ==
  ASSUME AppTyped, UNCHANGED app, version' \in 1..MaxVersion, trouble' \in 0..MaxTrouble
  PROVE  AppTyped'
BY DEF AppTyped, app

(* The next event is called back.                                          *)
LEMMA CallStep ==
  ASSUME ListenInv, CallBack
  PROVE  ListenInv'
<1>1. PICK e, r : e = Head(c.events) /\ r = c'
  OBVIOUS
<1>2. /\ c.events # <<>> /\ r = [c EXCEPT !.events = Tail(c.events)]
      /\ UNCHANGED <<asked, version, server, trouble>>
  BY <1>1 DEF CallBack
<1>3. Sound(c, serving) /\ Serving(c, serving, dirty) /\ AppTyped /\ c.failures <= trouble
  BY DEF ListenInv
<1>4. c \in ClientType /\ Waits(c) /\ Tracked(c)
  BY <1>3 DEF Sound, Attended
<1>5. e \in Event /\ Tail(c.events) \in Seq(Event)
  BY <1>1, <1>2, <1>4, ClientFields
<1>6. /\ r \in ClientType /\ SameStream(c, r) /\ SameWatch(c, r)
      /\ r.online = c.online /\ r.failures = c.failures /\ r.timer = c.timer
      /\ r.raised = c.raised /\ r.synced = c.synced
  BY <1>2, <1>4, <1>5 DEF ClientType, SameStream, SameWatch
<1>7. Sound(r, serving)
  <2>1. Waits(r) /\ Tracked(r)
    BY <1>4, <1>6 DEF Waits, Tracked, SameWatch
  <2> QED
    BY <2>1, <1>3, <1>6, KeptSound
<1>8. Serving(c', serving', dirty') /\ serving' = serving
  <2>1. IsOpen(c) => IsOpen(c')
    BY <1>1, <1>6 DEF SameStream, IsOpen
  <2> QED
    BY <2>1, <1>2, <1>3, ServingKept
<1>9. AppTyped'
  <2>1. e.l \in Listener
    BY <1>5 DEF Event
  <2>2. muted' \in SUBSET Gets
    BY <1>1, <1>3 DEF CallBack, AppTyped
  <2>3. called' \in [Listener -> Event \cup {Nothing}]
    BY <2>1, <1>1, <1>3, <1>5 DEF CallBack, AppTyped
  <2> QED
    BY <2>2, <2>3, <1>2, <1>3 DEF AppTyped
<1> QED
  BY <1>1, <1>2, <1>3, <1>6, <1>7, <1>8, <1>9 DEF ListenInv

(* Every step keeps it.                                                    *)
LEMMA ListenStep ==
  ASSUME ListenInv, [Next]_vars
  PROVE  ListenInv'
<1>1. Sound(c, serving) /\ Serving(c, serving, dirty) /\ AppTyped /\ c.failures <= trouble
  BY DEF ListenInv
<1>2. c.failures \in Nat /\ trouble \in Nat /\ trouble \in 0..MaxTrouble /\ version \in 1..MaxVersion
  BY <1>1, ClientFields, ListenAssumption DEF Sound, Attended, AppTyped
<1>3. ASSUME NEW l \in Listener, AddQueryListener(l) PROVE ListenInv'
  <2>1. /\ Sound(c', serving) /\ c'.failures = c.failures /\ (IsOpen(c) => IsOpen(c'))
    BY <1>1, <1>3, AddStep DEF AppTyped
  <2>2. UNCHANGED <<muted, called, version, server, trouble>>
    BY <1>3 DEF AddQueryListener
  <2>3. Serving(c', serving', dirty') /\ serving' = serving
    BY <2>1, <2>2, <1>1, ServingKept
  <2>4. asked' \in [Listener -> -2..MaxVersion]
    <3>1. version \in -2..MaxVersion /\ 0 \in -2..MaxVersion
      BY <1>2, ListenAssumption
    <3>2. PICK k : k = IF QueryOf[l] \notin Targets(c) THEN version ELSE 0
      OBVIOUS
    <3>3. asked' = [asked EXCEPT ![l] = k] /\ k \in -2..MaxVersion
      BY <3>1, <3>2, <1>3 DEF AddQueryListener
    <3> QED
      BY <3>3, <1>1 DEF AppTyped
  <2>5. AppTyped'
    BY <2>2, <2>4, <1>1 DEF AppTyped
  <2> QED
    BY <2>1, <2>2, <2>3, <2>5, <1>1 DEF ListenInv
<1>4. ASSUME Sound(c', serving), c'.failures \in {0, c.failures}, IsOpen(c) => IsOpen(c'),
             UNCHANGED <<app, version, server, trouble>>
      PROVE  ListenInv'
  <2>1. Serving(c', serving', dirty') /\ serving' = serving
    BY <1>1, <1>4, ServingKept
  <2>2. AppTyped'
    BY <1>1, <1>2, <1>4, AppKept
  <2>3. c'.failures <= trouble'
    BY <1>1, <1>2, <1>4
  <2> QED
    BY <2>1, <2>2, <2>3, <1>4 DEF ListenInv
<1>5. ASSUME NEW l \in Listener, RemoveQueryListener(l) PROVE ListenInv'
  <2>1. Sound(c', serving) /\ c'.failures \in {0, c.failures} /\ (IsOpen(c) => IsOpen(c'))
    BY <1>1, <1>5, RemoveStep
  <2>2. UNCHANGED <<app, version, server, trouble>>
    BY <1>5 DEF RemoveQueryListener
  <2> QED
    BY <2>1, <2>2, <1>4
<1>6. CASE CallBack
  BY <1>6, CallStep
<1>7. CASE OnWatchStreamOpen
  <2>1. Sound(c', serving) /\ c'.failures \in {0, c.failures} /\ (IsOpen(c) => IsOpen(c'))
    BY <1>1, <1>7, OpenStep
  <2>2. UNCHANGED <<app, version, server, trouble>>
    BY <1>7 DEF OnWatchStreamOpen
  <2> QED
    BY <2>1, <2>2, <1>4
<1>8. CASE OnStreamRead
  <2>1. Sound(c', serving) /\ c'.failures \in {0, c.failures} /\ (IsOpen(c) => IsOpen(c'))
    BY <1>1, <1>8, ReadStep
  <2>2. UNCHANGED <<app, version, server, trouble>>
    BY <1>8 DEF OnStreamRead
  <2> QED
    BY <2>1, <2>2, <1>4
<1>9. CASE BackoffElapsed
  <2>1. Sound(c', serving) /\ c'.failures \in {0, c.failures} /\ (IsOpen(c) => IsOpen(c'))
    BY <1>1, <1>9, BackoffStep
  <2>2. UNCHANGED <<app, version, server, trouble>>
    BY <1>9 DEF BackoffElapsed
  <2> QED
    BY <2>1, <2>2, <1>4
<1>10. CASE OnlineStateTimeout
  <2>1. Sound(c', serving) /\ c'.failures \in {0, c.failures} /\ (IsOpen(c) => IsOpen(c'))
    BY <1>1, <1>10, TimeoutStep
  <2>2. UNCHANGED <<app, version, server, trouble>>
    BY <1>10 DEF OnlineStateTimeout
  <2> QED
    BY <2>1, <2>2, <1>4
<1>11. CASE IdleTimeout \/ StreamFails \/ ConnectivityChanged
  <2>1. /\ Sound(c', serving') /\ Serving(c', serving', dirty')
        /\ c'.failures \in 0..(c.failures + 1)
        /\ IdleTimeout => c'.failures = 0
    BY <1>1, <1>11, ClosingStep
  <2>2. UNCHANGED app /\ version' = version
    BY <1>11 DEF IdleTimeout, StreamFails, ConnectivityChanged
  <2>3. trouble' \in 0..MaxTrouble /\ c'.failures <= trouble'
    <3>1. CASE IdleTimeout
      BY <3>1, <2>1, <1>2 DEF IdleTimeout
    <3>2. CASE StreamFails \/ ConnectivityChanged
      <4>1. trouble < MaxTrouble /\ trouble' = trouble + 1
        BY <3>2 DEF StreamFails, ConnectivityChanged, Trouble
      <4> QED
        BY <4>1, <2>1, <1>1, <1>2, ListenAssumption
    <3> QED
      BY <3>1, <3>2, <1>11
  <2>4. AppTyped'
    BY <2>2, <2>3, <1>1, <1>2, AppKept
  <2> QED
    BY <2>1, <2>3, <2>4 DEF ListenInv
<1>12. CASE ServerActs
  <2>1. /\ Sound(c', serving') /\ Serving(c', serving', dirty') /\ c'.failures = c.failures
    BY <1>1, <1>2, <1>12, TakesStep, SendsStep DEF ServerActs
  <2>2. UNCHANGED <<app, version, trouble>>
    BY <1>12 DEF ServerActs, ServerTakes, ServerSnapshots, ServerSends
  <2>3. AppTyped'
    BY <2>2, <1>1, <1>2, AppKept
  <2> QED
    BY <2>1, <2>2, <2>3, <1>1 DEF ListenInv
<1>13. CASE OthersWrite
  <2>1. UNCHANGED <<c, app, server, trouble>> /\ version' \in 1..MaxVersion
    BY <1>2, <1>13, ListenAssumption DEF OthersWrite
  <2>2. AppTyped'
    BY <2>1, <1>1, <1>2, AppKept
  <2> QED
    BY <2>1, <2>2, <1>1 DEF ListenInv, server
<1>14. CASE UNCHANGED vars
  <2>1. UNCHANGED <<c, app, version, server, trouble>>
    BY <1>14 DEF vars
  <2>2. AppTyped'
    BY <2>1, <1>1, <1>2, AppKept
  <2> QED
    BY <2>1, <2>2, <1>1 DEF ListenInv, server
<1> QED
  BY <1>3, <1>5, <1>6, <1>7, <1>8, <1>9, <1>10, <1>11, <1>12, <1>13, <1>14
     DEF Next, ClientSteps

(* Always, whether or not the server answers.                              *)
LEMMA ListenAlways == SilentSpec => []ListenInv
<1>1. Init => ListenInv
  BY ListenInit
<1>2. ListenInv /\ [Next]_vars => ListenInv'
  BY ListenStep
<1> QED
  BY <1>1, <1>2, PTL DEF SilentSpec

(* The tracker of the online state, the idle timer and the request for     *)
(* credentials belong to the state the client is in, in every run of the   *)
(* watch stream of RemoteStore, with and without answers of the server.    *)
THEOREM ClientStaysInStep == SilentSpec => []ClientInStep
<1>1. ListenInv => ClientInStep
  <2> SUFFICES ASSUME ListenInv PROVE ClientInStep
    OBVIOUS
  <2>1. Sound(c, serving) /\ Serving(c, serving, dirty) /\ AppTyped /\ c.failures <= trouble
    BY DEF ListenInv
  <2>2. c \in ClientType /\ Tracked(c) /\ Streamed(c)
    BY <2>1 DEF Sound, Attended
  <2>3. c.up \in Seq(Message) /\ c.down \in Seq(Message)
    <3>1. Requests \subseteq Message /\ Replies \subseteq Message
      BY DEF Requests, Replies, Message
    <3>2. c.up \in Seq(Requests) /\ c.down \in Seq(Replies)
      BY <2>2, ClientFields
    <3>3. \A i \in 1..Len(c.up) : c.up[i] \in Message
      BY <3>1, <3>2
    <3>4. \A i \in 1..Len(c.down) : c.down[i] \in Message
      BY <3>1, <3>2
    <3> QED
      BY <3>2, <3>3, <3>4
  <2>4. c.failures \in 0..MaxTrouble
    BY <2>1, <2>2, ClientFields, ListenAssumption DEF AppTyped
  <2>5. /\ muted \in SUBSET Gets
        /\ called \in [Listener -> Event \cup {Nothing}]
        /\ asked \in [Listener -> -2..MaxVersion]
        /\ version \in 1..MaxVersion /\ trouble \in 0..MaxTrouble
    BY <2>1 DEF AppTyped
  <2>6. serving \in [Query -> NotServed..MaxVersion] /\ dirty \in BOOLEAN
    BY <2>1 DEF Serving
  <2>7. /\ c.state \in State \ {"Healthy"}
        /\ c.idle \in BOOLEAN /\ c.request \in BOOLEAN /\ c.timer \in BOOLEAN
        /\ c.online \in {"Unknown", "Online", "Offline"}
        /\ c.target \in [Query -> [waiting : Nat, current : BOOLEAN,
                                   changed : BOOLEAN, docs : Version]]
        /\ c.listeners \in SUBSET Listener /\ c.raised \in SUBSET Listener
        /\ c.synced \in SUBSET Query /\ c.docs \in [Query -> Version]
        /\ c.events \in Seq(Event)
    BY <2>2, ClientFields DEF TargetType
  <2>8. {c.idle, c.request, c.timer} \subseteq BOOLEAN
    BY <2>7
  <2>9. TypeOK
    BY <2>3, <2>4, <2>5, <2>6, <2>7, <2>8, Zenon DEF TypeOK
  <2>10. TrackerConsistent
    BY <2>2 DEF Tracked, TrackerConsistent
  <2>11. IdleMeansUnwatched
    BY <2>2 DEF Streamed, IdleMeansUnwatched
  <2> QED
    BY <2>9, <2>10, <2>11 DEF ClientInStep
<1> QED
  BY <1>1, ListenAlways, PTL

(* The aggregator's count of outstanding responses is exact through every  *)
(* removal and repeated listen of a target, and through the loss of the    *)
(* stream (TargetState::RecordPendingTargetRequest, RecordTargetResponse). *)
THEOREM CountsStayExact == SilentSpec => []CountsExact
<1>1. ListenInv => CountsExact
  BY DEF ListenInv, Sound, Counts, Flight, Counted, CountsExact, InFlight
<1> QED
  BY <1>1, ListenAlways, PTL

(* A listener that heard nothing yet waits for a stream that runs: nobody  *)
(* is forgotten by QueryListener when the client goes offline or its view  *)
(* becomes current.                                                        *)
THEOREM NobodyWaitsInVain == SilentSpec => []WaitingHasReason
<1>1. ListenInv => WaitingHasReason
  <2> SUFFICES ASSUME ListenInv, NEW l \in c.listeners \ c.raised
               PROVE  c.online # "Offline" /\ QueryOf[l] \notin c.synced /\ IsStarted(c)
    BY DEF WaitingHasReason
  <2>1. Waits(c) /\ Running(c)
    BY DEF ListenInv, Sound, Attended
  <2>2. Targets(c) # {}
    BY DEF Targets
  <2> QED
    BY <2>1, <2>2 DEF Waits, Running
<1> QED
  BY <1>1, ListenAlways, PTL

(***************************************************************************)
(* A get is called back once.                                              *)
(***************************************************************************)
(* A refusal is the last event of its listener; a get that was called and  *)
(* did not remove itself was refused; what was not added heard nothing.    *)
Told(ls, es, cl, mu, as) ==
  /\ \A i \in DOMAIN es : es[i].from = "error" =>
       /\ es[i].l \notin ls
       /\ \A j \in DOMAIN es : i < j => es[j].l # es[i].l
  /\ \A l \in Gets : cl[l] # Nothing /\ l \notin mu =>
       /\ l \notin ls
       /\ \A i \in DOMAIN es : es[i].l # l
  /\ \A l \in Listener : as[l] = -1 =>
       /\ l \notin ls /\ cl[l] = Nothing
       /\ \A i \in DOMAIN es : es[i].l # l

(* More events of those who listen.                                        *)
LEMMA TellMore ==
  ASSUME NEW s \in ClientType, NEW r \in ClientType, NEW cl, NEW mu, NEW as,
         Told(s.listeners, s.events, cl, mu, as),
         Later(s, r), r.listeners \in SUBSET s.listeners
  PROVE  Told(r.listeners, r.events, cl, mu, as)
<1>1. PICK n, k, a, b : /\ a = s.events /\ b = r.events /\ n = Len(a) /\ k = Len(b)
  OBVIOUS
<1>2. n \in Nat /\ k \in Nat /\ DOMAIN a = 1..n /\ DOMAIN b = 1..k
  BY <1>1, ClientFields
<1>3. /\ n <= k /\ \A i \in 1..n : b[i] = a[i]
      /\ \A i \in (n + 1)..k : b[i].l \in s.listeners /\ b[i].from # "error"
  BY <1>1 DEF Later, Tells
<1>4. \A i \in 1..k : i \in 1..n \/ i \in (n + 1)..k
  BY <1>2
<1>5. ASSUME NEW x, x \notin s.listeners, \A i \in 1..n : a[i].l # x
      PROVE  x \notin r.listeners /\ \A i \in 1..k : b[i].l # x
  BY <1>3, <1>4, <1>5
<1>6. ASSUME NEW i \in 1..k, b[i].from = "error"
      PROVE  b[i].l \notin r.listeners /\ \A j \in 1..k : i < j => b[j].l # b[i].l
  <2>1. i \in 1..n /\ b[i] = a[i]
    BY <1>3, <1>4, <1>6
  <2>2. a[i].l \notin s.listeners /\ \A j \in 1..n : i < j => a[j].l # a[i].l
    BY <2>1, <1>1, <1>2, <1>6 DEF Told
  <2>3. ASSUME NEW j \in 1..k, i < j PROVE b[j].l # b[i].l
    <3>1. CASE j \in 1..n
      BY <2>1, <2>2, <2>3, <3>1, <1>3
    <3>2. CASE j \in (n + 1)..k
      BY <2>1, <2>2, <3>2, <1>3
    <3> QED
      BY <3>1, <3>2, <1>4
  <2> QED
    BY <2>1, <2>2, <2>3
<1>7. ASSUME NEW l \in Gets, cl[l] # Nothing, l \notin mu
      PROVE  l \notin r.listeners /\ \A i \in 1..k : b[i].l # l
  <2>1. l \notin s.listeners /\ \A i \in 1..n : a[i].l # l
    BY <1>1, <1>2, <1>7 DEF Told
  <2> QED
    BY <2>1, <1>5
<1>8. ASSUME NEW l \in Listener, as[l] = -1
      PROVE  l \notin r.listeners /\ cl[l] = Nothing /\ \A i \in 1..k : b[i].l # l
  <2>1. l \notin s.listeners /\ cl[l] = Nothing /\ \A i \in 1..n : a[i].l # l
    BY <1>1, <1>2, <1>8 DEF Told
  <2> QED
    BY <2>1, <1>5
<1> QED
  BY <1>1, <1>2, <1>6, <1>7, <1>8 DEF Told

(* The listeners of a refused query are told and forgotten.                *)
LEMMA TellRefusals ==
  ASSUME NEW s \in ClientType, NEW r \in ClientType, NEW cl, NEW mu, NEW as,
         Told(s.listeners, s.events, cl, mu, as), NEW es \in Seq(Event),
         r.events = s.events \o es, Refusals(es, s.listeners, r.listeners),
         r.listeners \in SUBSET s.listeners
  PROVE  Told(r.listeners, r.events, cl, mu, as)
<1>1. PICK n, k, a, b : /\ a = s.events /\ b = r.events /\ n = Len(a) /\ k = Len(es)
  OBVIOUS
<1>2. /\ n \in Nat /\ k \in Nat /\ DOMAIN a = 1..n /\ DOMAIN es = 1..k /\ a \in Seq(Event)
      /\ b = a \o es
  BY <1>1, ClientFields
<1>3. /\ DOMAIN b = 1..(n + k) /\ \A i \in 1..n : b[i] = a[i]
      /\ \A i \in (n + 1)..(n + k) : i - n \in 1..k /\ b[i] = es[i - n]
  <2>1. Len(a) = n /\ Len(es) = k /\ a \in Seq(Event) /\ es \in Seq(Event) /\ b = a \o es
    BY <1>1, <1>2
  <2>2. /\ b \in Seq(Event) /\ Len(b) = n + k
        /\ \A i \in 1..(n + k) : b[i] = IF i <= n THEN a[i] ELSE es[i - n]
    BY ONLY <2>1, ConcatProperties
  <2>3. DOMAIN b = 1..(n + k)
    BY ONLY <2>2
  <2>4. \A i \in (n + 1)..(n + k) : i - n \in 1..k /\ i \in 1..(n + k) /\ ~ (i <= n)
    BY ONLY <1>2
  <2>5. \A i \in 1..n : i \in 1..(n + k) /\ i <= n
    BY ONLY <1>2
  <2> QED
    BY ONLY <2>2, <2>3, <2>4, <2>5
<1>4. \A i \in 1..(n + k) : i \in 1..n \/ i \in (n + 1)..(n + k)
  BY <1>2
<1>5. ASSUME NEW i \in (n + 1)..(n + k)
      PROVE  b[i].l \in s.listeners /\ b[i].l \notin r.listeners
  <2>1. PICK e : e = i - n
    OBVIOUS
  <2>2. e \in DOMAIN es /\ b[i] = es[e]
    BY <2>1, <1>2, <1>3
  <2> QED
    BY <2>2 DEF Refusals
<1>6. ASSUME NEW x, x \notin s.listeners, \A i \in 1..n : a[i].l # x
      PROVE  x \notin r.listeners /\ \A i \in 1..(n + k) : b[i].l # x
  BY <1>3, <1>4, <1>5, <1>6
<1>7. ASSUME NEW i \in 1..(n + k), b[i].from = "error"
      PROVE  b[i].l \notin r.listeners /\ \A j \in 1..(n + k) : i < j => b[j].l # b[i].l
  <2>1. CASE i \in 1..n
    <3>1. a[i].l \notin s.listeners /\ \A j \in 1..n : i < j => a[j].l # a[i].l
      <4>1. Told(s.listeners, a, cl, mu, as) /\ i \in DOMAIN a /\ a[i].from = "error"
        BY <2>1, <1>1, <1>2, <1>3, <1>7
      <4> QED
        BY ONLY <4>1, <1>2 DEF Told
    <3>2. ASSUME NEW j \in 1..(n + k), i < j PROVE b[j].l # b[i].l
      <4>1. CASE j \in 1..n
        BY <2>1, <3>1, <3>2, <4>1, <1>3
      <4>2. CASE j \in (n + 1)..(n + k)
        BY <2>1, <3>1, <4>2, <1>3, <1>5
      <4> QED
        BY <4>1, <4>2, <1>4
    <3> QED
      BY <2>1, <3>1, <3>2, <1>3
  <2>2. CASE i \in (n + 1)..(n + k)
    <3>1. ASSUME NEW j \in 1..(n + k), i < j PROVE b[j].l # b[i].l
      <4>1. PICK e, f : e = i - n /\ f = j - n
        OBVIOUS
      <4>2. j \in (n + 1)..(n + k)
        BY <2>2, <3>1, <1>2
      <4>3. e \in DOMAIN es /\ f \in DOMAIN es /\ b[i] = es[e] /\ b[j] = es[f]
        BY <2>2, <4>1, <4>2, <1>2, <1>3
      <4>4. e # f
        BY <2>2, <3>1, <4>1, <4>2, <1>2
      <4> QED
        BY <4>3, <4>4 DEF Refusals
    <3> QED
      BY <2>2, <3>1, <1>5
  <2> QED
    BY <2>1, <2>2, <1>4
<1>8. ASSUME NEW l \in Gets, cl[l] # Nothing, l \notin mu
      PROVE  l \notin r.listeners /\ \A i \in 1..(n + k) : b[i].l # l
  <2>1. l \notin s.listeners /\ \A i \in 1..n : a[i].l # l
    BY <1>1, <1>2, <1>8 DEF Told
  <2> QED
    BY <2>1, <1>6
<1>9. ASSUME NEW l \in Listener, as[l] = -1
      PROVE  l \notin r.listeners /\ cl[l] = Nothing /\ \A i \in 1..(n + k) : b[i].l # l
  <2>1. l \notin s.listeners /\ cl[l] = Nothing /\ \A i \in 1..n : a[i].l # l
    BY <1>1, <1>2, <1>9 DEF Told
  <2> QED
    BY <2>1, <1>6
<1>10. DOMAIN b = 1..(n + k)
  BY <1>3
<1>11. Told(r.listeners, b, cl, mu, as)
  BY ONLY <1>7, <1>8, <1>9, <1>10 DEF Told
<1> QED
  BY <1>1, <1>11

ToldInv == Told(c.listeners, c.events, called, muted, asked)

(* An event is called back: a get then removes itself, or was refused.     *)
LEMMA ToldCallBack ==
  ASSUME c \in ClientType, called \in [Listener -> Event \cup {Nothing}], ToldInv, CallBack
  PROVE  ToldInv'
<1>1. PICK e, a, b, n, ls : /\ a = c.events /\ e = Head(a) /\ b = Tail(a) /\ n = Len(a) - 1
                            /\ ls = c.listeners
  OBVIOUS
<1>2. /\ a # <<>> /\ c' = [c EXCEPT !.events = b] /\ asked' = asked
      /\ \/ e.l \in muted /\ UNCHANGED <<called, muted>>
         \/ /\ e.l \notin muted /\ called' = [called EXCEPT ![e.l] = e]
            /\ muted' = IF e.l \in Gets /\ e.from # "error" THEN muted \cup {e.l} ELSE muted
  BY <1>1 DEF CallBack
<1>3. a \in Seq(Event)
  BY <1>1, ClientFields
<1>4. /\ n \in Nat /\ DOMAIN a = 1..(n + 1) /\ DOMAIN b = 1..n /\ e = a[1]
      /\ \A i \in 1..n : b[i] = a[i + 1]
  BY <1>1, <1>2, <1>3
<1>5. c'.listeners = ls /\ c'.events = b
  BY <1>1, <1>2 DEF ClientType
<1>6. Told(ls, a, called, muted, asked)
  BY <1>1 DEF ToldInv
<1>7. 1 \in 1..(n + 1) /\ \A i \in 1..n : i + 1 \in 1..(n + 1) /\ 1 < i + 1
  BY <1>4
<1>8. ASSUME NEW x, \A i \in 1..(n + 1) : a[i].l # x
      PROVE  (\A i \in 1..n : b[i].l # x) /\ e.l # x
  BY <1>4, <1>7, <1>8
<1>9. ASSUME NEW i \in 1..n, b[i].from = "error"
      PROVE  b[i].l \notin ls /\ \A j \in 1..n : i < j => b[j].l # b[i].l
  <2>1. PICK p : p = i + 1
    OBVIOUS
  <2>2. p \in 1..(n + 1) /\ b[i] = a[p] /\ a[p].from = "error"
    BY <2>1, <1>4, <1>7, <1>9
  <2>3. a[p].l \notin ls /\ \A j \in 1..(n + 1) : p < j => a[j].l # a[p].l
    BY <2>2, <1>4, <1>6 DEF Told
  <2>4. ASSUME NEW j \in 1..n, i < j PROVE b[j].l # b[i].l
    <3>1. PICK k : k = j + 1
      OBVIOUS
    <3>2. k \in 1..(n + 1) /\ p < k /\ b[j] = a[k]
      BY <2>1, <2>4, <3>1, <1>4
    <3> QED
      BY <2>2, <2>3, <3>2
  <2> QED
    BY <2>2, <2>3, <2>4
<1>10. ASSUME NEW l \in Gets, called'[l] # Nothing, l \notin muted'
       PROVE  l \notin ls /\ \A i \in 1..n : b[i].l # l
  <2>1. ASSUME called[l] # Nothing, l \notin muted
        PROVE  l \notin ls /\ \A i \in 1..n : b[i].l # l
    <3>1. l \notin ls /\ \A i \in 1..(n + 1) : a[i].l # l
      BY <2>1, <1>4, <1>6 DEF Told
    <3> QED
      BY <3>1, <1>8
  <2>2. CASE e.l \in muted \/ e.l # l
    <3>1. called'[l] = called[l] /\ l \notin muted
      BY <2>2, <1>2, <1>10, ListenAssumption
    <3> QED
      BY <2>1, <3>1, <1>10
  <2>3. CASE e.l \notin muted /\ e.l = l
    <3>1. e.from = "error"
      BY <2>3, <1>2, <1>10
    <3>2. a[1].l \notin ls /\ \A j \in 1..(n + 1) : 1 < j => a[j].l # a[1].l
      BY <3>1, <1>4, <1>6, <1>7 DEF Told
    <3> QED
      BY <2>3, <3>2, <1>4, <1>7
  <2> QED
    BY <2>2, <2>3
<1>11. ASSUME NEW l \in Listener, asked'[l] = -1
       PROVE  l \notin ls /\ called'[l] = Nothing /\ \A i \in 1..n : b[i].l # l
  <2>1. asked[l] = -1
    BY <1>2, <1>11
  <2>2. l \notin ls /\ called[l] = Nothing /\ \A i \in 1..(n + 1) : a[i].l # l
    BY <2>1, <1>4, <1>6 DEF Told
  <2>3. e.l # l /\ \A i \in 1..n : b[i].l # l
    BY <2>2, <1>8
  <2>4. called'[l] = called[l]
    BY <2>3, <1>2, <1>11
  <2> QED
    BY <2>2, <2>3, <2>4
<1>12. Told(ls, b, called', muted', asked')
  BY ONLY <1>4, <1>9, <1>10, <1>11 DEF Told
<1> QED
  BY <1>5, <1>12 DEF ToldInv

(* A listener is added that never heard anything.                          *)
LEMMA ToldAdd ==
  ASSUME ListenInv, ListenInv', ToldInv, NEW l \in Listener, AddQueryListener(l)
  PROVE  ToldInv'
<1>1. Sound(c, serving) /\ c \in ClientType /\ c' \in ClientType
  BY DEF ListenInv, Sound, Attended
<1>2. /\ c'.listeners = c.listeners \cup {l}
      /\ \E s \in ClientType : /\ s.events = c.events
                               /\ s.listeners = c.listeners \cup {l}
                               /\ Later(s, c')
  BY <1>1, AddStep DEF ListenInv, AppTyped
<1>3. PICK s \in ClientType : /\ s.events = c.events
                              /\ s.listeners = c.listeners \cup {l}
                              /\ Later(s, c')
  BY <1>2
<1>4. asked[l] = -1 /\ UNCHANGED <<muted, called>>
  BY DEF AddQueryListener
<1>5. asked'[l] # -1 /\ \A x \in Listener \ {l} : asked'[x] = asked[x]
  <2>1. PICK k : k = IF QueryOf[l] \notin Targets(c) THEN version ELSE 0
    OBVIOUS
  <2>2. asked' = [asked EXCEPT ![l] = k] /\ asked \in [Listener -> -2..MaxVersion]
    BY <2>1 DEF AddQueryListener, ListenInv, AppTyped
  <2>3. version \in 1..MaxVersion
    BY DEF ListenInv, AppTyped
  <2>4. k # -1
    BY <2>1, <2>3, ListenAssumption
  <2> QED
    BY <2>2, <2>4
<1>6. /\ l \notin c.listeners /\ called[l] = Nothing
      /\ \A i \in DOMAIN c.events : c.events[i].l # l
  BY <1>4 DEF ToldInv, Told
<1>7. Told(s.listeners, s.events, called', muted', asked')
  <2>1. ASSUME NEW i \in DOMAIN s.events, s.events[i].from = "error"
        PROVE  /\ s.events[i].l \notin s.listeners
               /\ \A j \in DOMAIN s.events : i < j => s.events[j].l # s.events[i].l
    BY <2>1, <1>3, <1>6 DEF ToldInv, Told
  <2>2. ASSUME NEW x \in Gets, called'[x] # Nothing, x \notin muted'
        PROVE  x \notin s.listeners /\ \A i \in DOMAIN s.events : s.events[i].l # x
    BY <2>2, <1>3, <1>4, <1>6 DEF ToldInv, Told
  <2>3. ASSUME NEW x \in Listener, asked'[x] = -1
        PROVE  /\ x \notin s.listeners /\ called'[x] = Nothing
               /\ \A i \in DOMAIN s.events : s.events[i].l # x
    <3>1. x # l /\ asked[x] = -1
      BY <2>3, <1>5
    <3> QED
      BY <3>1, <1>3, <1>4 DEF ToldInv, Told
  <2> QED
    BY ONLY <2>1, <2>2, <2>3 DEF Told
<1>8. c'.listeners \in SUBSET s.listeners
  BY <1>2, <1>3
<1>9. Told(c'.listeners, c'.events, called', muted', asked')
  <2>1. PICK r, cl, mu, as : r = c' /\ cl = called' /\ mu = muted' /\ as = asked'
    OBVIOUS
  <2>2. /\ r \in ClientType /\ Told(s.listeners, s.events, cl, mu, as)
        /\ Later(s, r) /\ r.listeners \in SUBSET s.listeners
    BY <2>1, <1>1, <1>3, <1>7, <1>8
  <2>3. Told(r.listeners, r.events, cl, mu, as)
    BY <2>2, TellMore
  <2> QED
    BY <2>1, <2>3
<1> QED
  BY <1>9 DEF ToldInv

(* Every step keeps it.                                                    *)
LEMMA ToldStep ==
  ASSUME ListenInv, ListenInv', ToldInv, [Next]_vars
  PROVE  ToldInv'
<1>1. /\ Sound(c, serving) /\ Serving(c, serving, dirty) /\ version \in 1..MaxVersion
      /\ c \in ClientType /\ c' \in ClientType
  BY DEF ListenInv, Sound, Attended, AppTyped
<1>2. PICK r, cl, mu, as : r = c' /\ cl = called /\ mu = muted /\ as = asked
  OBVIOUS
<1>3. r \in ClientType /\ Told(c.listeners, c.events, cl, mu, as)
  BY <1>1, <1>2 DEF ToldInv
<1>4. ASSUME UNCHANGED app, Told(r.listeners, r.events, cl, mu, as) PROVE ToldInv'
  BY <1>2, <1>4 DEF ToldInv, app
<1>5. ASSUME UNCHANGED app, Later(c, c'), c'.listeners \in SUBSET c.listeners PROVE ToldInv'
  <2>1. Later(c, r) /\ r.listeners \in SUBSET c.listeners
    BY <1>2, <1>5
  <2>2. Told(r.listeners, r.events, cl, mu, as)
    BY <2>1, <1>1, <1>3, TellMore
  <2> QED
    BY <2>2, <1>4, <1>5
<1>6. ASSUME UNCHANGED app, c'.events = c.events, c'.listeners = c.listeners PROVE ToldInv'
  BY <1>6 DEF ToldInv, app
<1>7. ASSUME NEW l \in Listener, AddQueryListener(l) PROVE ToldInv'
  BY <1>7, ToldAdd
<1>8. ASSUME NEW l \in Listener, RemoveQueryListener(l) PROVE ToldInv'
  <2>1. c'.listeners \in SUBSET c.listeners /\ Later(c, c')
    BY <1>1, <1>8, RemoveStep
  <2>2. UNCHANGED app
    BY <1>8 DEF RemoveQueryListener
  <2> QED
    BY <2>1, <2>2, <1>5
<1>9. CASE CallBack
  <2>1. called \in [Listener -> Event \cup {Nothing}]
    BY DEF ListenInv, AppTyped
  <2> QED
    BY <2>1, <1>1, <1>9, ToldCallBack
<1>10. CASE OnWatchStreamOpen
  <2>1. c'.events = c.events /\ c'.listeners = c.listeners
    BY <1>1, <1>10, OpenStep
  <2>2. UNCHANGED app
    BY <1>10 DEF OnWatchStreamOpen
  <2> QED
    BY <2>1, <2>2, <1>6
<1>11. CASE OnStreamRead
  <2>1. UNCHANGED app
    BY <1>11 DEF OnStreamRead
  <2>2. /\ c'.listeners \in SUBSET c.listeners
        /\ \E t \in ClientType, es \in Seq(Event) :
             /\ Later(c, t) /\ t.listeners = c.listeners
             /\ \/ Shown(t, c')
                \/ c'.events = t.events \o es /\ Refusals(es, c.listeners, c'.listeners)
    BY <1>1, <1>11, ReadStep
  <2>3. PICK t \in ClientType, es \in Seq(Event) :
          /\ Later(c, t) /\ t.listeners = c.listeners
          /\ \/ Shown(t, r)
             \/ r.events = t.events \o es /\ Refusals(es, c.listeners, r.listeners)
    BY <2>2, <1>2
  <2>4. Told(t.listeners, t.events, cl, mu, as)
    BY <2>3, <1>1, <1>3, TellMore
  <2>5. r.listeners \in SUBSET t.listeners
    BY <2>2, <2>3, <1>2
  <2>6. CASE Shown(t, r)
    <3>1. PICK w \in ClientType :
            w.events = t.events /\ w.listeners = t.listeners /\ Later(w, r)
      BY <2>6 DEF Shown
    <3>2. Told(w.listeners, w.events, cl, mu, as) /\ r.listeners \in SUBSET w.listeners
      BY <2>4, <2>5, <3>1
    <3>3. Told(r.listeners, r.events, cl, mu, as)
      BY <3>1, <3>2, <1>3, TellMore
    <3> QED
      BY <3>3, <2>1, <1>4
  <2>7. CASE r.events = t.events \o es /\ Refusals(es, c.listeners, r.listeners)
    <3>1. Refusals(es, t.listeners, r.listeners)
      BY <2>3, <2>7
    <3>2. Told(r.listeners, r.events, cl, mu, as)
      BY <2>4, <2>5, <2>7, <3>1, <1>3, TellRefusals
    <3> QED
      BY <3>2, <2>1, <1>4
  <2> QED
    BY <2>3, <2>6, <2>7
<1>12. CASE BackoffElapsed
  <2>1. c'.events = c.events /\ c'.listeners = c.listeners
    BY <1>1, <1>12, BackoffStep
  <2>2. UNCHANGED app
    BY <1>12 DEF BackoffElapsed
  <2> QED
    BY <2>1, <2>2, <1>6
<1>13. CASE OnlineStateTimeout
  <2>1. c'.listeners = c.listeners /\ Later(c, c')
    BY <1>1, <1>13, TimeoutStep
  <2>2. UNCHANGED app
    BY <1>13 DEF OnlineStateTimeout
  <2> QED
    BY <2>1, <2>2, <1>5
<1>14. CASE IdleTimeout \/ StreamFails \/ ConnectivityChanged
  <2>1. c'.listeners = c.listeners /\ Later(c, c')
    BY <1>1, <1>14, ClosingStep
  <2>2. UNCHANGED app
    BY <1>14 DEF IdleTimeout, StreamFails, ConnectivityChanged
  <2> QED
    BY <2>1, <2>2, <1>5
<1>15. CASE ServerActs
  <2>1. c'.events = c.events /\ c'.listeners = c.listeners
    BY <1>1, <1>15, TakesStep, SendsStep DEF ServerActs
  <2>2. UNCHANGED app
    BY <1>15 DEF ServerActs, ServerTakes, ServerSnapshots, ServerSends
  <2> QED
    BY <2>1, <2>2, <1>6
<1>16. CASE OthersWrite \/ UNCHANGED vars
  BY <1>6, <1>16 DEF OthersWrite, vars
<1> QED
  BY <1>7, <1>8, <1>9, <1>10, <1>11, <1>12, <1>13, <1>14, <1>15, <1>16
     DEF Next, ClientSteps

(* In the beginning nobody was told anything.                              *)
LEMMA ToldInit ==
  ASSUME Init
  PROVE  ToldInv
<1>1. c.listeners = {} /\ c.events = <<>> /\ called = [l \in Listener |-> Nothing]
  BY DEF Init
<1>2. DOMAIN c.events = {} /\ \A l \in Listener : called[l] = Nothing
  BY <1>1
<1> QED
  BY <1>1, <1>2, ListenAssumption DEF ToldInv, Told

(* The handler of a get is called at most once, although its listener may  *)
(* raise more events before it is removed, and although a refusal does not *)
(* remove it (Query::GetDocuments, DocumentReference::GetDocument and the  *)
(* mute of AsyncEventListener).                                            *)
THEOREM GetIsCalledOnce == SilentSpec => GetCalledOnce
<1>1. Init => ToldInv
  BY ToldInit
<1>2. ListenInv /\ ListenInv' /\ ToldInv /\ [Next]_vars => ToldInv'
  BY ToldStep
<1>3. ListenInv /\ ToldInv /\ [Next]_vars =>
        [\A l \in Gets : called[l] # Nothing => called'[l] = called[l]]_vars
  <2> SUFFICES ASSUME ListenInv, ToldInv, [Next]_vars,
                      NEW l \in Gets, called[l] # Nothing, called'[l] # called[l]
               PROVE  UNCHANGED vars
    OBVIOUS
  <2>1. CASE CallBack
    <3>1. PICK e : e = Head(c.events)
      OBVIOUS
    <3>2. /\ c.events # <<>> /\ e.l \notin muted /\ called' = [called EXCEPT ![e.l] = e]
      BY <2>1, <3>1 DEF CallBack
    <3>3. e.l = l
      <4>1. called \in [Listener -> Event \cup {Nothing}] /\ l \in Listener
        BY ListenAssumption DEF ListenInv, AppTyped
      <4> QED
        BY <4>1, <3>2
    <3>4. c.events \in Seq(Event)
      BY ClientFields DEF ListenInv, Sound, Attended
    <3>5. 1 \in DOMAIN c.events /\ c.events[1] = e
      BY <3>1, <3>2, <3>4
    <3>6. \A i \in DOMAIN c.events : c.events[i].l # l
      BY <3>2, <3>3 DEF ToldInv, Told
    <3> QED
      BY <3>3, <3>5, <3>6
  <2>2. CASE ~ CallBack
    <3>1. called' = called
      BY <2>2 DEF Next, ClientSteps, ServerActs, AddQueryListener, RemoveQueryListener,
           OnWatchStreamOpen, OnStreamRead, BackoffElapsed, OnlineStateTimeout, IdleTimeout,
           StreamFails, ConnectivityChanged, ServerTakes, ServerSends, ServerSnapshots,
           OthersWrite, app, vars
    <3> QED
      BY <3>1
  <2> QED
    BY <2>1, <2>2
<1> QED
  BY <1>1, <1>2, <1>3, ListenAlways, PTL DEF SilentSpec, GetCalledOnce

(***************************************************************************)
(* What was told is new enough, what was sent arrives: the proofs.         *)
(***************************************************************************)
(* A target that waits for nothing has nothing confirmed on its way ...    *)
LEMMA ActiveSettled ==
  ASSUME NEW s \in ClientType, Counts(s), NEW q \in Query \ Denied,
         s.target[q].waiting = 0
  PROVE  Unasked(s, q) /\ Unconfirmed(s, 0, q)
<1>1. PICK a, b : a = Of(s.up, q, Counted) /\ b = Of(s.down, q, Counted)
  OBVIOUS
<1>2. s.up \in Seq(Requests) /\ s.down \in Seq(Replies)
  BY ClientFields
<1>3. IsFiniteSet(a) /\ IsFiniteSet(b)
  BY <1>1, <1>2, OfFinite
<1>4. Cardinality(a) \in Nat /\ Cardinality(b) \in Nat
  BY <1>3, FS_CardinalityType
<1>5. Cardinality(a) + Cardinality(b) = 0
  BY <1>1 DEF Counts, Flight
<1>6. Cardinality(a) = 0 /\ Cardinality(b) = 0
  BY <1>4, <1>5
<1>7. a = {} /\ b = {}
  BY <1>3, <1>6, FS_EmptySet
<1>8. ASSUME NEW j \in DOMAIN s.up PROVE s.up[j].type \in Counted
  <2>1. s.up[j] \in Requests
    BY <1>2
  <2> QED
    BY <2>1 DEF Requests, Counted
<1> QED
  BY <1>1, <1>7, <1>8 DEF Of, Unasked, Unconfirmed

(* ... and the other way round.                                            *)
LEMMA SettledActive ==
  ASSUME NEW s \in ClientType, Counts(s), NEW q \in Query \ Denied,
         Unasked(s, q), Unconfirmed(s, 0, q)
  PROVE  s.target[q].waiting = 0
<1>1. s.up \in Seq(Requests) /\ s.down \in Seq(Replies)
  BY ClientFields
<1>2. \A j \in DOMAIN s.down : 0 < j
  BY <1>1
<1>3. Of(s.up, q, Counted) = {} /\ Of(s.down, q, Counted) = {}
  BY <1>2 DEF Of, Unasked, Unconfirmed
<1>4. Cardinality({}) = 0
  BY FS_EmptySet
<1> QED
  BY <1>3, <1>4 DEF Counts, Flight

(* What was new enough stays so.                                           *)
LEMMA SteadyEnough ==
  ASSUME NEW s, NEW r, NEW as, NEW new, Steady(s, r, as, new), NEW q, NEW v \in Nat,
         NewEnough(s, as, q, v), ~ Anew(r, q)
  PROVE  NewEnough(r, new, q, v)
<1> SUFFICES ASSUME NEW l \in r.listeners, QueryOf[l] = q PROVE new[l] <= v
  BY DEF NewEnough
<1>1. (l \in s.listeners /\ new[l] = as[l]) \/ new[l] = 0
  BY DEF Steady
<1>2. CASE l \in s.listeners /\ new[l] = as[l]
  BY <1>2 DEF NewEnough
<1>3. CASE new[l] = 0
  BY <1>3
<1> QED
  BY <1>1, <1>2, <1>3

(* A message of the server has a version.                                  *)
LEMMA MessageFields ==
  ASSUME NEW s \in ClientType, NEW i \in DOMAIN s.down
  PROVE  /\ s.down[i] \in Replies /\ s.down[i].v \in Nat /\ i \in Nat \ {0}
         /\ s.down[i].type = "snapshot" => s.down[i].v = 0
<1>1. s.down \in Seq(Replies)
  BY ClientFields
<1>2. s.down[i] \in Replies /\ i \in Nat \ {0}
  BY <1>1
<1>3. 0 \in Nat /\ Version \in SUBSET Nat
  BY ListenAssumption DEF Version
<1>4. s.down[i].v \in Nat
  BY <1>2, <1>3 DEF Replies
<1>5. s.down[i].type = "snapshot" => s.down[i].v = 0
  BY <1>2 DEF Replies
<1> QED
  BY <1>2, <1>4, <1>5

(* The parts of a target, and the documents of a view.                     *)
LEMMA TargetFields ==
  ASSUME NEW s \in ClientType, NEW q \in Query
  PROVE  /\ s.target[q] \in TargetType /\ s.target[q].waiting \in Nat
         /\ s.target[q].current \in BOOLEAN /\ s.target[q].changed \in BOOLEAN
         /\ s.target[q].docs \in Nat /\ s.docs[q] \in Nat
<1>1. s.target \in [Query -> TargetType] /\ s.docs \in [Query -> Version]
  BY ClientFields
<1>2. s.target[q] \in TargetType /\ s.docs[q] \in Version
  BY <1>1
<1>3. Version \in SUBSET Nat
  BY ListenAssumption DEF Version
<1> QED
  BY <1>2, <1>3 DEF TargetType

(* Nothing becomes stale when nothing arrives.                             *)
LEMMA SteadyFresh ==
  ASSUME NEW s \in ClientType, NEW r \in ClientType, NEW as, NEW new, Streamed(s),
         Fresh(s, as), Steady(s, r, as, new)
  PROVE  Fresh(r, new)
<1>1. FreshNews(r, new)
  <2> SUFFICES ASSUME NEW i \in DOMAIN r.down, r.down[i].type \in News
               PROVE  /\ r.down[i].q \in Query \ Denied
                      /\ Unasked(r, r.down[i].q) /\ Unconfirmed(r, i, r.down[i].q) =>
                           NewEnough(r, new, r.down[i].q, r.down[i].v)
    BY DEF FreshNews
  <2>1. PICK q, v : q = r.down[i].q /\ v = r.down[i].v
    OBVIOUS
  <2>2. r.down = s.down /\ i \in DOMAIN s.down
    BY DEF Steady
  <2>3. IsOpen(r)
    <3>1. s.down # <<>>
      BY <2>2
    <3> QED
      BY <3>1 DEF Streamed, Steady
  <2>4. q \in Query \ Denied /\ v \in Nat
    BY <2>1, <2>2, MessageFields DEF Fresh, FreshNews
  <2>5. ASSUME Unasked(r, q), Unconfirmed(r, i, q) PROVE NewEnough(r, new, q, v)
    <3>1. Unasked(s, q)
      BY <2>4, <2>5 DEF Steady
    <3>2. Unconfirmed(s, i, q)
      BY <2>2, <2>5 DEF Unconfirmed
    <3>3. NewEnough(s, as, q, v)
      BY <3>1, <3>2, <2>1, <2>2 DEF Fresh, FreshNews
    <3>4. ~ Anew(r, q)
      BY <2>3, <2>5 DEF Anew
    <3> QED
      BY <3>3, <3>4, <2>4, SteadyEnough
  <2> QED
    BY <2>1, <2>4, <2>5
<1>2. FreshTargets(r, new)
  <2> SUFFICES ASSUME NEW q \in Query, r.target[q].current
               PROVE  /\ IsOpen(r)
                      /\ r.target[q].waiting = 0 /\ r.target[q].changed =>
                           NewEnough(r, new, q, r.target[q].docs)
    BY DEF FreshTargets
  <2>1. s.target[q].current
    BY DEF Steady
  <2>2. IsOpen(s) /\ IsOpen(r)
    BY <2>1 DEF Steady, Fresh, FreshTargets
  <2>3. ASSUME r.target[q].waiting = 0, r.target[q].changed
        PROVE  NewEnough(r, new, q, r.target[q].docs)
    <3>1. s.target[q].waiting = 0 /\ s.target[q].changed /\ r.target[q].docs = s.target[q].docs
      BY <2>3 DEF Steady
    <3>2. NewEnough(s, as, q, r.target[q].docs)
      BY <3>1, <2>1 DEF Fresh, FreshTargets
    <3>3. ~ Anew(r, q)
      BY <2>2, <2>3 DEF Anew
    <3>4. r.target[q].docs \in Nat
      BY TargetFields
    <3> QED
      BY <3>2, <3>3, <3>4, SteadyEnough
  <2> QED
    BY <2>2, <2>3
<1>3. FreshViews(r, new)
  <2> SUFFICES ASSUME NEW q \in r.synced PROVE NewEnough(r, new, q, r.docs[q])
    BY DEF FreshViews
  <2>1. q \in Query /\ r.docs[q] \in Nat
    BY ClientFields, TargetFields
  <2>2. q \in s.synced /\ r.docs = s.docs
    BY DEF Steady
  <2>3. NewEnough(s, as, q, r.docs[q]) /\ ~ Anew(r, q)
    BY <2>2 DEF Fresh, FreshViews, Anew
  <2> QED
    BY <2>1, <2>3, SteadyEnough
<1> QED
  BY <1>1, <1>2, <1>3 DEF Fresh

(* Nor does anything get lost.                                             *)
LEMMA SteadyInTime ==
  ASSUME NEW s \in ClientType, NEW r \in ClientType, NEW as, NEW new,
         NEW srv, NEW more, NEW n, InTime(s, srv, more, n), Steady(s, r, as, new)
  PROVE  InTime(r, srv, more, n)
<1>1. Delivered(r, srv, more)
  <2> SUFFICES ASSUME NEW q \in Targets(r), IsOpen(r), srv[q] >= 0, Unasked(r, q)
               PROVE  OnTheWay(r, q, srv[q], more) \/ Arrived(r, q, srv[q], more)
    BY DEF Delivered
  <2>1. PICK l \in r.listeners : q = QueryOf[l]
    BY DEF Targets
  <2>2. q \in Query
    BY <2>1, ClientFields, ListenAssumption
  <2>3. ~ Anew(r, q)
    BY DEF Anew
  <2>4. q \in Targets(s)
    <3>1. CASE l \in s.listeners
      BY <2>1, <3>1 DEF Targets
    <3>2. CASE l \notin s.listeners
      BY <2>1, <2>3, <3>2 DEF Steady
    <3> QED
      BY <3>1, <3>2
  <2>5. IsOpen(s)
    BY DEF Steady
  <2>6. /\ Unasked(s, q) /\ r.down = s.down /\ r.docs = s.docs
        /\ r.target[q].current = s.target[q].current
        /\ r.target[q].changed = s.target[q].changed
        /\ r.target[q].docs = s.target[q].docs
    BY <2>2 DEF Steady
  <2>7. OnTheWay(s, q, srv[q], more) \/ Arrived(s, q, srv[q], more)
    BY <2>4, <2>5, <2>6 DEF InTime, Delivered
  <2>8. \A i : /\ Unconfirmed(r, i, q) <=> Unconfirmed(s, i, q)
               /\ NoMore(r, i, q) <=> NoMore(s, i, q)
               /\ Coming(r, more, i) <=> Coming(s, more, i)
    BY <2>6 DEF Unconfirmed, NoMore, Coming
  <2>9. CASE OnTheWay(s, q, srv[q], more)
    BY <2>6, <2>8, <2>9 DEF OnTheWay
  <2>10. CASE Arrived(s, q, srv[q], more)
    <3>1. q \in s.synced => q \in r.synced
      BY <2>10 DEF Steady, Arrived
    <3> QED
      BY <3>1, <2>6, <2>8, <2>10 DEF Arrived
  <2> QED
    BY <2>7, <2>9, <2>10
<1>2. Behind(r, srv, n)
  <2> SUFFICES ASSUME NEW q \in Query
               PROVE  /\ AtMost(r, q, n)
                      /\ srv[q] >= 0 => srv[q] <= n /\ AtMost(r, q, srv[q])
    BY DEF Behind
  <2>1. r.down = s.down /\ r.docs = s.docs /\ r.target[q].docs = s.target[q].docs
    BY DEF Steady
  <2>2. \A k : AtMost(s, q, k) => AtMost(r, q, k)
    BY <2>1 DEF AtMost
  <2> QED
    BY <2>2 DEF InTime, Behind
<1>3. Untimed(r)
  BY DEF Untimed, Steady, InTime
<1> QED
  BY <1>1, <1>2, <1>3 DEF InTime

(* Without a stream there is nothing that could be stale ...               *)
LEMMA SeveredFresh ==
  ASSUME NEW s \in ClientType, NEW r \in ClientType, NEW as, NEW new,
         Fresh(s, as), Severed(s, r, as, new)
  PROVE  Fresh(r, new)
<1>1. /\ Cut(r) /\ r.docs = s.docs /\ r.synced \in SUBSET s.synced
      /\ \A l \in r.listeners :
           \/ l \in s.listeners /\ new[l] = as[l]
           \/ QueryOf[l] \notin r.synced
  BY DEF Severed
<1>2. r.down = <<>> /\ r.target = NoTargets
  BY <1>1 DEF Cut
<1>3. FreshNews(r, new)
  BY <1>2 DEF FreshNews
<1>4. FreshTargets(r, new)
  BY <1>2 DEF FreshTargets, NoTargets, NewTarget
<1>5. FreshViews(r, new)
  <2> SUFFICES ASSUME NEW q \in r.synced, NEW l \in r.listeners, QueryOf[l] = q
               PROVE  new[l] <= r.docs[q]
    BY DEF FreshViews, NewEnough
  <2>1. q \in s.synced /\ l \in s.listeners /\ new[l] = as[l] /\ r.docs = s.docs
    BY <1>1
  <2>2. NewEnough(s, as, q, s.docs[q])
    BY <2>1 DEF Fresh, FreshViews
  <2> QED
    BY <2>1, <2>2 DEF NewEnough
<1> QED
  BY <1>3, <1>4, <1>5 DEF Fresh

(* ... and nothing that could be lost.                                     *)
LEMMA SeveredInTime ==
  ASSUME NEW s \in ClientType, NEW r \in ClientType, NEW as, NEW new, NEW n \in Nat,
         NEW old, NEW was, InTime(s, old, was, n), Severed(s, r, as, new),
         NEW srv, NEW more, \A q \in Query : srv[q] = NotServed
  PROVE  InTime(r, srv, more, n)
<1>1. Cut(r) /\ r.docs = s.docs
  BY DEF Severed
<1>2. r.down = <<>> /\ r.target = NoTargets /\ ~ IsOpen(r)
  BY <1>1 DEF Cut
<1>3. Delivered(r, srv, more)
  BY <1>2 DEF Delivered
<1>4. Untimed(r)
  BY <1>2 DEF Untimed, NoTargets, NewTarget
<1>5. ASSUME NEW q \in Query PROVE AtMost(r, q, n) /\ ~ (srv[q] >= 0)
  <2>1. s.docs[q] <= n
    BY DEF InTime, Behind, AtMost
  <2>2. r.target[q].docs = 0
    BY <1>2 DEF NoTargets, NewTarget
  <2>3. srv[q] = -2
    BY DEF NotServed
  <2> QED
    BY <2>1, <2>2, <2>3, <1>1, <1>2 DEF AtMost
<1> QED
  BY <1>3, <1>4, <1>5 DEF InTime, Behind

(* What is read leaves the wire, and the rest moves up by one.             *)
LEMMA ReadShift ==
  ASSUME NEW s \in ClientType, NEW r, Reads(s, r)
  PROVE  /\ 1 \in DOMAIN s.down /\ Head(s.down) = s.down[1]
         /\ \A i \in DOMAIN r.down : i + 1 \in DOMAIN s.down /\ r.down[i] = s.down[i + 1]
         /\ \A j \in DOMAIN s.down : j # 1 => j - 1 \in DOMAIN r.down
         /\ DOMAIN s.down \in SUBSET (Nat \ {0}) /\ DOMAIN r.down \in SUBSET (Nat \ {0})
<1>1. s.down \in Seq(Replies) /\ s.down # <<>> /\ r.down = Tail(s.down)
  BY ClientFields DEF Reads
<1>2. PICK n, a, b : a = s.down /\ b = r.down /\ n = Len(a)
  OBVIOUS
<1>3. /\ n \in Nat \ {0} /\ DOMAIN a = 1..n /\ DOMAIN b = 1..(n - 1) /\ Head(a) = a[1]
      /\ \A i \in 1..(n - 1) : b[i] = a[i + 1]
  BY ONLY <1>1, <1>2
<1>4. /\ 1 \in 1..n /\ \A i \in 1..(n - 1) : i + 1 \in 1..n
      /\ \A j \in 1..n : j # 1 => j - 1 \in 1..(n - 1)
      /\ 1..n \in SUBSET (Nat \ {0}) /\ 1..(n - 1) \in SUBSET (Nat \ {0})
  BY ONLY <1>3
<1> QED
  BY ONLY <1>2, <1>3, <1>4

(* So what follows a message still follows it.                             *)
LEMMA ReadAfter ==
  ASSUME NEW s \in ClientType, NEW r, Reads(s, r), NEW i \in Nat, NEW q
  PROVE  /\ Unconfirmed(r, i, q) <=> Unconfirmed(s, i + 1, q)
         /\ NoMore(r, i, q) <=> NoMore(s, i + 1, q)
         /\ \A more : Coming(r, more, i) <=> Coming(s, more, i + 1)
<1>1. /\ \A j \in DOMAIN r.down : j + 1 \in DOMAIN s.down /\ r.down[j] = s.down[j + 1]
      /\ \A j \in DOMAIN s.down : j # 1 => j - 1 \in DOMAIN r.down
      /\ DOMAIN s.down \in SUBSET (Nat \ {0}) /\ DOMAIN r.down \in SUBSET (Nat \ {0})
  BY ReadShift
<1>2. ASSUME NEW j \in DOMAIN r.down, i < j
      PROVE  j + 1 \in DOMAIN s.down /\ i + 1 < j + 1 /\ r.down[j] = s.down[j + 1]
  <2>1. j \in Nat
    BY <1>1
  <2> QED
    BY <2>1, <1>1, <1>2
<1>3. ASSUME NEW j \in DOMAIN s.down, i + 1 < j
      PROVE  j - 1 \in DOMAIN r.down /\ i < j - 1 /\ s.down[j] = r.down[j - 1]
  <2>1. j \in Nat \ {0}
    BY <1>1
  <2>2. PICK k : k = j - 1
    OBVIOUS
  <2>3. j # 1 /\ j = k + 1 /\ i < k
    BY <2>1, <2>2, <1>3
  <2>4. k \in DOMAIN r.down
    BY <2>2, <2>3, <1>1
  <2>5. r.down[k] = s.down[k + 1]
    BY <2>4, <1>1
  <2> QED
    BY ONLY <2>2, <2>3, <2>4, <2>5
<1>4. Unconfirmed(r, i, q) <=> Unconfirmed(s, i + 1, q)
  BY ONLY <1>2, <1>3 DEF Unconfirmed
<1>5. NoMore(r, i, q) <=> NoMore(s, i + 1, q)
  BY ONLY <1>2, <1>3 DEF NoMore
<1>6. ASSUME NEW more PROVE Coming(r, more, i) <=> Coming(s, more, i + 1)
  <2>1. (\E j \in DOMAIN r.down : i < j /\ r.down[j].type = "snapshot") =>
          \E j \in DOMAIN s.down : i + 1 < j /\ s.down[j].type = "snapshot"
    BY <1>2
  <2>2. (\E j \in DOMAIN s.down : i + 1 < j /\ s.down[j].type = "snapshot") =>
          \E j \in DOMAIN r.down : i < j /\ r.down[j].type = "snapshot"
    BY <1>3
  <2> QED
    BY <2>1, <2>2 DEF Coming
<1> QED
  BY <1>4, <1>5, <1>6

(* The first message, and those that follow it.                            *)
LEMMA FirstAndRest ==
  ASSUME NEW s \in ClientType, s.down # <<>>, NEW q
  PROVE  /\ Unconfirmed(s, 0, q) <=>
              (s.down[1].q = q => s.down[1].type \notin Counted) /\ Unconfirmed(s, 1, q)
         /\ NoMore(s, 0, q) <=>
              /\ s.down[1].q = q => s.down[1].type \notin Counted \cup News
              /\ NoMore(s, 1, q)
         /\ \A more : Coming(s, more, 0) <=> (s.down[1].type = "snapshot" \/ Coming(s, more, 1))
<1>1. s.down \in Seq(Replies)
  BY ClientFields
<1>2. 1 \in DOMAIN s.down /\ \A j \in DOMAIN s.down : j \in Nat \ {0}
  BY <1>1
<1>3. \A j \in DOMAIN s.down : 0 < j /\ (j = 1 \/ 1 < j)
  BY <1>2
<1>4. Unconfirmed(s, 0, q) <=>
        (s.down[1].q = q => s.down[1].type \notin Counted) /\ Unconfirmed(s, 1, q)
  BY ONLY <1>2, <1>3 DEF Unconfirmed
<1>5. NoMore(s, 0, q) <=> /\ s.down[1].q = q => s.down[1].type \notin Counted \cup News
                          /\ NoMore(s, 1, q)
  BY ONLY <1>2, <1>3 DEF NoMore
<1>6. \A more : Coming(s, more, 0) <=> (s.down[1].type = "snapshot" \/ Coming(s, more, 1))
  BY ONLY <1>2, <1>3 DEF Coming
<1> QED
  BY <1>4, <1>5, <1>6

(* The first message, and what kinds there are.                            *)
LEMMA FirstMessage ==
  ASSUME NEW s \in ClientType, Replied(s), s.down # <<>>
  PROVE  /\ s.down[1] \in Replies /\ s.down[1].v \in Nat
         /\ s.down[1].type \in {"added", "removed", "error", "snapshot"} \cup News
         /\ s.down[1].type = "error" => s.down[1].q \in Denied
<1>1. s.down \in Seq(Replies)
  BY ClientFields
<1>2. 1 \in DOMAIN s.down
  BY <1>1
<1>3. s.down[1] \in Replies /\ s.down[1].v \in Nat
  BY <1>2, MessageFields
<1>4. s.down[1].type \in {"added", "removed", "error", "snapshot"} \cup News
  BY <1>3 DEF Replies, News
<1> QED
  BY <1>2, <1>3, <1>4 DEF Replied

(* Fewer listeners ask for less, and newer data serve them as well.        *)
LEMMA EnoughForFewer ==
  ASSUME NEW s \in ClientType, NEW r, r.listeners \in SUBSET s.listeners,
         NEW ask \in [Listener -> -2..MaxVersion], NEW q, NEW v \in Nat, NEW w \in Nat, v <= w,
         NewEnough(s, ask, q, v)
  PROVE  NewEnough(r, ask, q, w)
<1> SUFFICES ASSUME NEW l \in r.listeners, QueryOf[l] = q PROVE ask[l] <= w
  BY DEF NewEnough
<1>1. l \in s.listeners /\ l \in Listener
  BY ClientFields
<1>2. ask[l] <= v
  BY <1>1 DEF NewEnough
<1>3. PICK x : x = ask[l]
  OBVIOUS
<1>4. x \in -2..MaxVersion
  BY <1>1, <1>3
<1>5. x \in Int
  BY ONLY <1>4
<1>6. x <= w
  BY ONLY <1>2, <1>3, <1>5, v <= w, v \in Nat, w \in Nat
<1> QED
  BY ONLY <1>3, <1>6

(* A message that is read makes nothing stale: news of an earlier listen   *)
(* find the target waiting for a confirmation, and are dropped.            *)
LEMMA ReadFresh ==
  ASSUME NEW s \in ClientType, NEW r \in ClientType, Streamed(s), Counts(s), Replied(s),
         NEW ask \in [Listener -> -2..MaxVersion], Fresh(s, ask), Reads(s, r)
  PROVE  Fresh(r, ask)
<1>1. PICK m : m = s.down[1]
  OBVIOUS
<1>2. /\ s.down # <<>> /\ IsOpen(r) /\ IsOpen(s) /\ r.listeners \in SUBSET s.listeners
      /\ \A q : Unasked(r, q) <=> Unasked(s, q)
  BY DEF Reads, Streamed, Unasked
<1>3. 1 \in DOMAIN s.down /\ \A q \in Query : Learns(s, r, m, q)
  BY <1>1, ReadShift DEF Reads
<1>4. /\ m.v \in Nat /\ m.type \in {"added", "removed", "error", "snapshot"} \cup News
      /\ m.type = "error" => m.q \in Denied
  BY <1>1, <1>2, FirstMessage
<1>5. ASSUME NEW q, NEW v \in Nat, NewEnough(s, ask, q, v) PROVE NewEnough(r, ask, q, v)
  BY <1>2, <1>5 DEF NewEnough
<1>6. FreshNews(r, ask)
  <2> SUFFICES ASSUME NEW i \in DOMAIN r.down, r.down[i].type \in News
               PROVE  /\ r.down[i].q \in Query \ Denied
                      /\ Unasked(r, r.down[i].q) /\ Unconfirmed(r, i, r.down[i].q) =>
                           NewEnough(r, ask, r.down[i].q, r.down[i].v)
    BY DEF FreshNews
  <2>1. PICK k : k = i + 1
    OBVIOUS
  <2>2. k \in DOMAIN s.down /\ r.down[i] = s.down[k] /\ i \in Nat
    BY <2>1, ReadShift
  <2>3. PICK q, v : q = s.down[k].q /\ v = s.down[k].v
    OBVIOUS
  <2>4. /\ q \in Query \ Denied
        /\ Unasked(s, q) /\ Unconfirmed(s, k, q) => NewEnough(s, ask, q, v)
    BY <2>2, <2>3 DEF Fresh, FreshNews
  <2>5. v \in Nat
    BY <2>2, <2>3, MessageFields
  <2>6. Unconfirmed(r, i, q) => Unconfirmed(s, k, q)
    BY <2>1, <2>2, ReadAfter
  <2> QED
    BY <2>2, <2>3, <2>4, <2>5, <2>6, <1>2, <1>5
<1>7. FreshTargets(r, ask)
  <2> SUFFICES ASSUME NEW q \in Query, r.target[q].current
               PROVE  r.target[q].waiting = 0 /\ r.target[q].changed =>
                        NewEnough(r, ask, q, r.target[q].docs)
    BY <1>2 DEF FreshTargets
  <2>1. PICK a, b : a = s.target[q] /\ b = r.target[q]
    OBVIOUS
  <2>2. Learns(s, r, m, q)
    BY <1>3
  <2>3. b.docs \in Nat
    BY <2>1, TargetFields
  <2>4. ASSUME b = a, b.waiting = 0, b.changed PROVE NewEnough(r, ask, q, b.docs)
    <3>1. NewEnough(s, ask, q, b.docs)
      BY <2>1, <2>4 DEF Fresh, FreshTargets
    <3> QED
      BY <3>1, <2>3, <1>5
  <2>5. CASE m.type = "snapshot"
    <3>1. Shows(s, r, q)
      BY <2>2, <2>5 DEF Learns
    <3>2. b = a \/ ~ b.changed
      BY <3>1, <2>1 DEF Shows
    <3> QED
      BY <3>2, <2>1, <2>4
  <2>6. CASE m.type # "snapshot" /\ m.q # q
    <3>1. b = a
      BY <2>1, <2>2, <2>6 DEF Learns
    <3> QED
      BY <3>1, <2>1, <2>4
  <2>7. CASE m.q = q /\ m.type \in {"added", "removed"}
    <3>1. Confirmed(a, b)
      BY <2>1, <2>2, <2>7 DEF Learns
    <3> QED
      BY <3>1, <2>1 DEF Confirmed
  <2>8. CASE m.q = q /\ m.type = "error"
    <3>1. b \in {a, NewTarget}
      BY <2>1, <2>2, <2>8 DEF Learns
    <3>2. b # NewTarget
      BY <2>1 DEF NewTarget
    <3> QED
      BY <3>1, <3>2, <2>1, <2>4
  <2>9. CASE m.q = q /\ m.type \in News
    <3>1. Informed(a, b, m.type, m.v, IsActiveTarget(s, q))
      BY <2>1, <2>2, <2>9 DEF Learns
    <3>2. CASE ~ IsActiveTarget(s, q)
      <4>1. b = a
        BY <3>1, <3>2 DEF Informed
      <4> QED
        BY <4>1, <2>1, <2>4
    <3>3. CASE IsActiveTarget(s, q)
      <4>1. b.docs = m.v
        BY <3>1, <3>3 DEF Informed
      <4>2. q \in Query \ Denied
        BY <2>9, <1>1, <1>3 DEF Fresh, FreshNews
      <4>3. s.target[q].waiting = 0
        BY <3>3 DEF IsActiveTarget
      <4>4. Unasked(s, q) /\ Unconfirmed(s, 0, q)
        BY <4>2, <4>3, ActiveSettled
      <4>5. Unconfirmed(s, 1, q)
        BY <4>4, <1>2, FirstAndRest
      <4>6. NewEnough(s, ask, q, m.v)
        BY <4>4, <4>5, <2>9, <1>1, <1>3 DEF Fresh, FreshNews
      <4> QED
        BY <4>1, <4>6, <2>1, <1>4, <1>5
    <3> QED
      BY <3>2, <3>3
  <2> QED
    BY <2>5, <2>6, <2>7, <2>8, <2>9, <1>4
<1>8. FreshViews(r, ask)
  <2> SUFFICES ASSUME NEW q \in r.synced PROVE NewEnough(r, ask, q, r.docs[q])
    BY DEF FreshViews
  <2>1. q \in Query
    BY ClientFields
  <2>2. Learns(s, r, m, q) /\ r.docs[q] \in Nat /\ s.docs[q] \in Nat /\ s.target[q].docs \in Nat
    BY <2>1, <1>3, TargetFields
  <2>3. ASSUME q \in s.synced, r.docs[q] = s.docs[q] PROVE NewEnough(r, ask, q, r.docs[q])
    <3>1. NewEnough(s, ask, q, r.docs[q])
      BY <2>3 DEF Fresh, FreshViews
    <3> QED
      BY <3>1, <2>2, <1>5
  <2>4. CASE m.type # "snapshot"
    <3>1. q \in s.synced /\ r.docs[q] = s.docs[q]
      BY <2>2, <2>4 DEF Learns
    <3> QED
      BY <3>1, <2>3
  <2>5. CASE m.type = "snapshot"
    <3>1. Shows(s, r, q)
      BY <2>2, <2>5 DEF Learns
    <3>2. CASE ~ (IsActiveTarget(s, q) /\ s.target[q].changed)
      <4>1. q \in s.synced /\ r.docs[q] = s.docs[q]
        BY <3>1, <3>2 DEF Shows
      <4> QED
        BY <4>1, <2>3
    <3>3. CASE IsActiveTarget(s, q) /\ s.target[q].changed
      <4>1. /\ r.docs[q] = IF s.target[q].docs > s.docs[q] THEN s.target[q].docs ELSE s.docs[q]
            /\ s.target[q].current
        BY <3>1, <3>3 DEF Shows
      <4>2. s.target[q].waiting = 0
        BY <3>3 DEF IsActiveTarget
      <4>3. NewEnough(s, ask, q, s.target[q].docs)
        BY <4>1, <4>2, <3>3, <2>1 DEF Fresh, FreshTargets
      <4>4. s.target[q].docs <= r.docs[q]
        BY <4>1, <2>2
      <4>5. PICK v, w : v = s.target[q].docs /\ w = r.docs[q]
        OBVIOUS
      <4>6. /\ v \in Nat /\ w \in Nat /\ v <= w /\ NewEnough(s, ask, q, v)
            /\ r.listeners \in SUBSET s.listeners
        BY <4>3, <4>4, <4>5, <2>2, <1>2
      <4>7. NewEnough(r, ask, q, w)
        BY ONLY <4>6, s \in ClientType, ask \in [Listener -> -2..MaxVersion], EnoughForFewer
      <4> QED
        BY ONLY <4>5, <4>7
    <3> QED
      BY <3>2, <3>3
  <2> QED
    BY <2>4, <2>5
<1> QED
  BY <1>6, <1>7, <1>8 DEF Fresh

(* Reading a message does not get the client ahead of what it was sent.    *)
LEMMA ReadAtMost ==
  ASSUME NEW s \in ClientType, NEW r \in ClientType, Replied(s), Reads(s, r),
         NEW q \in Query, NEW k \in Nat, AtMost(s, q, k)
  PROVE  AtMost(r, q, k)
<1>1. PICK m, a, b : m = s.down[1] /\ a = s.target[q] /\ b = r.target[q]
  OBVIOUS
<1>2. 1 \in DOMAIN s.down /\ s.down # <<>> /\ Learns(s, r, m, q)
  BY <1>1, ReadShift DEF Reads
<1>3. m.type \in {"added", "removed", "error", "snapshot"} \cup News
  BY <1>1, <1>2, FirstMessage
<1>4. s.docs[q] <= k /\ a.docs <= k /\ (m.q = q => m.v <= k)
  BY <1>1, <1>2 DEF AtMost
<1>5. r.docs[q] <= k
  <2>1. CASE m.type # "snapshot"
    BY <2>1, <1>2, <1>4 DEF Learns
  <2>2. CASE m.type = "snapshot"
    <3>1. Shows(s, r, q)
      BY <2>2, <1>2 DEF Learns
    <3>2. r.docs[q] = s.docs[q] \/ r.docs[q] = a.docs
      BY <3>1, <1>1 DEF Shows
    <3> QED
      BY <3>2, <1>4
  <2> QED
    BY <2>1, <2>2
<1>6. b.docs \in {0, a.docs} \/ (m.q = q /\ b.docs = m.v)
  <2>1. CASE m.type = "snapshot"
    <3>1. Shows(s, r, q)
      BY <2>1, <1>2 DEF Learns
    <3> QED
      BY <3>1, <1>1 DEF Shows
  <2>2. CASE m.type # "snapshot" /\ m.q # q
    BY <2>2, <1>1, <1>2 DEF Learns
  <2>3. CASE m.q = q /\ m.type \in {"added", "removed"}
    BY <2>3, <1>1, <1>2 DEF Learns, Confirmed
  <2>4. CASE m.q = q /\ m.type = "error"
    BY <2>4, <1>1, <1>2 DEF Learns, NewTarget
  <2>5. CASE m.q = q /\ m.type \in News
    BY <2>5, <1>1, <1>2 DEF Learns, Informed
  <2> QED
    BY <2>1, <2>2, <2>3, <2>4, <2>5, <1>3
<1>7. r.target[q].docs <= k
  BY <1>1, <1>4, <1>6
<1>8. ASSUME NEW i \in DOMAIN r.down, r.down[i].q = q PROVE r.down[i].v <= k
  <2>1. PICK j : j = i + 1
    OBVIOUS
  <2>2. j \in DOMAIN s.down /\ r.down[i] = s.down[j]
    BY <2>1, ReadShift
  <2> QED
    BY <2>2, <1>8 DEF AtMost
<1> QED
  BY <1>5, <1>7, <1>8 DEF AtMost

(* News that are read, and that nothing else about the query follows, have *)
(* arrived.                                                                *)
LEMMA NewsArrive ==
  ASSUME NEW s \in ClientType, NEW r \in ClientType, Counts(s), Reads(s, r),
         NEW q \in Query \ Denied, q \in Targets(s), Unasked(s, q),
         s.down[1].q = q, s.down[1].type \in News, Unconfirmed(s, 1, q)
  PROVE  /\ r.target[q].docs = s.down[1].v /\ r.target[q].changed
         /\ r.target[q].current = (s.target[q].current \/ s.down[1].type = "current")
<1>1. s.down # <<>> /\ Learns(s, r, s.down[1], q)
  BY ReadShift DEF Reads
<1>2. s.down[1].type \notin Counted
  BY DEF News, Counted
<1>3. Unconfirmed(s, 0, q)
  BY <1>1, <1>2, FirstAndRest
<1>4. IsActiveTarget(s, q)
  BY <1>3, SettledActive DEF IsActiveTarget
<1> QED
  BY <1>1, <1>4 DEF Learns, Informed

(* What was shown or gathered stays so until the next snapshot shows it.   *)
LEMMA ReadArrived ==
  ASSUME NEW s \in ClientType, NEW r \in ClientType, Counts(s), Replied(s), Reads(s, r),
         NEW q \in Query \ Denied, q \in Targets(s), Unasked(s, q),
         NEW v \in Nat, AtMost(s, q, v), NEW more, Arrived(s, q, v, more)
  PROVE  Arrived(r, q, v, more)
<1>1. PICK m, a, b : m = s.down[1] /\ a = s.target[q] /\ b = r.target[q]
  OBVIOUS
<1>2. s.down # <<>> /\ Learns(s, r, m, q)
  BY <1>1, ReadShift DEF Reads
<1>3. /\ m.type \in {"added", "removed", "error", "snapshot"} \cup News
      /\ m.type = "error" => m.q \in Denied
  BY <1>1, <1>2, FirstMessage
<1>4. /\ NoMore(s, 0, q) /\ a.current
      /\ \/ a.changed /\ a.docs = v /\ Coming(s, more, 0)
         \/ ~ a.changed /\ q \in s.synced /\ s.docs[q] = v
  BY <1>1 DEF Arrived
<1>5. m.q = q => m.type \notin Counted \cup News
  BY <1>1, <1>2, <1>4, FirstAndRest
<1>6. NoMore(r, 0, q)
  <2>1. NoMore(s, 1, q)
    BY <1>2, <1>4, FirstAndRest
  <2>2. NoMore(r, 0, q) <=> NoMore(s, 0 + 1, q)
    BY ReadAfter
  <2> QED
    BY <2>1, <2>2
<1>7. CASE m.type # "snapshot"
  <2>1. m.q # q
    BY <1>3, <1>5, <1>7 DEF Counted
  <2>2. b = a /\ r.docs[q] = s.docs[q] /\ (q \in s.synced => q \in r.synced)
    BY <2>1, <1>1, <1>2, <1>3, <1>7 DEF Learns
  <2>3. Coming(s, more, 0) => Coming(r, more, 0)
    <3>1. Coming(s, more, 0) => Coming(s, more, 1)
      BY <1>1, <1>2, <1>7, FirstAndRest
    <3>2. Coming(r, more, 0) <=> Coming(s, more, 0 + 1)
      BY ReadAfter
    <3> QED
      BY <3>1, <3>2
  <2> QED
    BY <2>2, <2>3, <1>1, <1>4, <1>6 DEF Arrived
<1>8. CASE m.type = "snapshot"
  <2>1. Shows(s, r, q)
    BY <1>2, <1>8 DEF Learns
  <2>2. CASE ~ a.changed
    <3>1. r.target[q] = s.target[q] /\ r.docs[q] = s.docs[q] /\ (q \in r.synced <=> q \in s.synced)
      BY <2>1, <2>2, <1>1 DEF Shows
    <3> QED
      BY <3>1, <2>2, <1>1, <1>4, <1>6 DEF Arrived
  <2>3. CASE a.changed
    <3>1. Unconfirmed(s, 0, q)
      BY <1>4 DEF NoMore, Unconfirmed
    <3>2. IsActiveTarget(s, q)
      BY <3>1, SettledActive DEF IsActiveTarget
    <3>3. /\ r.docs[q] = IF a.docs > s.docs[q] THEN a.docs ELSE s.docs[q]
          /\ b.current /\ ~ b.changed /\ q \in r.synced
      BY <2>1, <2>3, <3>2, <1>1, <1>4 DEF Shows
    <3>4. s.docs[q] <= v /\ a.docs = v
      BY <2>3, <1>4 DEF AtMost
    <3>5. s.docs[q] \in Nat
      BY TargetFields
    <3>6. r.docs[q] = v
      BY <3>3, <3>4, <3>5
    <3> QED
      BY <3>3, <3>6, <1>1, <1>6 DEF Arrived
  <2> QED
    BY <2>2, <2>3
<1> QED
  BY <1>7, <1>8

(* A target that is current, with nothing to confirm, stays current.       *)
LEMMA ReadCurrent ==
  ASSUME NEW s \in ClientType, NEW r \in ClientType, Counts(s), Replied(s), Reads(s, r),
         NEW q \in Query \ Denied, q \in Targets(s), Unasked(s, q),
         s.target[q].current, Unconfirmed(s, 0, q)
  PROVE  r.target[q].current
<1>1. PICK m : m = s.down[1]
  OBVIOUS
<1>2. s.down # <<>> /\ Learns(s, r, m, q)
  BY <1>1, ReadShift DEF Reads
<1>3. /\ m.type \in {"added", "removed", "error", "snapshot"} \cup News
      /\ m.type = "error" => m.q \in Denied
  BY <1>1, <1>2, FirstMessage
<1>4. (m.q = q => m.type \notin Counted) /\ Unconfirmed(s, 1, q)
  BY <1>1, <1>2, FirstAndRest
<1>5. CASE m.type = "snapshot"
  BY <1>2, <1>5 DEF Learns, Shows
<1>6. CASE m.type # "snapshot" /\ m.q # q
  BY <1>2, <1>6 DEF Learns
<1>7. CASE m.q = q /\ m.type \in News
  BY <1>1, <1>4, <1>7, NewsArrive
<1> QED
  BY <1>3, <1>4, <1>5, <1>6, <1>7 DEF Counted

(* News under way come closer, or arrive.                                  *)
LEMMA ReadOnTheWay ==
  ASSUME NEW s \in ClientType, NEW r \in ClientType, Counts(s), Replied(s), Reads(s, r),
         NEW q \in Query \ Denied, q \in Targets(s), Unasked(s, q),
         NEW v, NEW more, OnTheWay(s, q, v, more)
  PROVE  OnTheWay(r, q, v, more) \/ Arrived(r, q, v, more)
<1>1. PICK i \in DOMAIN s.down :
        /\ s.down[i].q = q /\ s.down[i].type \in News /\ s.down[i].v = v
        /\ NoMore(s, i, q) /\ Coming(s, more, i)
        /\ \/ \E k \in DOMAIN s.down : /\ k <= i /\ s.down[k].q = q
                                       /\ s.down[k].type = "current" /\ Unconfirmed(s, k, q)
           \/ s.target[q].current /\ Unconfirmed(s, 0, q)
  BY DEF OnTheWay
<1>2. /\ s.down # <<>> /\ i \in Nat \ {0} /\ DOMAIN s.down \in SUBSET (Nat \ {0})
      /\ \A j \in DOMAIN s.down : j # 1 => j - 1 \in DOMAIN r.down
      /\ \A j \in DOMAIN r.down : r.down[j] = s.down[j + 1]
  <2>1. s.down # <<>>
    BY DEF Reads
  <2>2. /\ DOMAIN s.down \in SUBSET (Nat \ {0})
        /\ \A j \in DOMAIN s.down : j # 1 => j - 1 \in DOMAIN r.down
        /\ \A j \in DOMAIN r.down : r.down[j] = s.down[j + 1]
    BY ReadShift
  <2>3. i \in Nat \ {0}
    BY <2>2
  <2> QED
    BY ONLY <2>1, <2>2, <2>3
<1>3. ASSUME NEW j \in DOMAIN s.down, j # 1
      PROVE  \E k \in DOMAIN r.down :
               /\ j = k + 1 /\ k \in Nat /\ r.down[k] = s.down[j]
               /\ Unconfirmed(r, k, q) <=> Unconfirmed(s, j, q)
               /\ NoMore(r, k, q) <=> NoMore(s, j, q)
               /\ Coming(r, more, k) <=> Coming(s, more, j)
  <2>1. PICK k : k = j - 1
    OBVIOUS
  <2>2. j \in Nat \ {0}
    BY <1>2
  <2>3. k \in Nat /\ j = k + 1
    BY <2>1, <2>2
  <2>4. k \in DOMAIN r.down /\ r.down[k] = s.down[j]
    BY <2>1, <2>3, <1>2, <1>3
  <2>5. /\ Unconfirmed(r, k, q) <=> Unconfirmed(s, k + 1, q)
        /\ NoMore(r, k, q) <=> NoMore(s, k + 1, q)
        /\ Coming(r, more, k) <=> Coming(s, more, k + 1)
    BY <2>3, ReadAfter
  <2> QED
    BY ONLY <2>3, <2>4, <2>5
<1>4. /\ Unconfirmed(r, 0, q) <=> Unconfirmed(s, 1, q)
      /\ NoMore(r, 0, q) <=> NoMore(s, 1, q)
      /\ Coming(r, more, 0) <=> Coming(s, more, 1)
  <2>1. /\ Unconfirmed(r, 0, q) <=> Unconfirmed(s, 0 + 1, q)
        /\ NoMore(r, 0, q) <=> NoMore(s, 0 + 1, q)
        /\ Coming(r, more, 0) <=> Coming(s, more, 0 + 1)
    BY ReadAfter
  <2>2. 0 + 1 = 1
    OBVIOUS
  <2> QED
    BY ONLY <2>1, <2>2
<1>5. Unconfirmed(s, 0, q) => Unconfirmed(s, 1, q)
  BY <1>2, FirstAndRest
<1>6. CASE i = 1
  <2>1. Unconfirmed(s, 1, q)
    BY <1>1, <1>6 DEF NoMore, Unconfirmed
  <2>2. s.target[q].current \/ s.down[1].type = "current"
    <3>1. \A k \in DOMAIN s.down : k <= 1 => k = 1
      BY <1>2
    <3> QED
      BY <3>1, <1>1, <1>6
  <2>3. r.target[q].docs = v /\ r.target[q].changed /\ r.target[q].current
    <3>1. s.down[1].q = q /\ s.down[1].type \in News /\ s.down[1].v = v
      BY <1>1, <1>6
    <3>2. /\ r.target[q].docs = s.down[1].v /\ r.target[q].changed
          /\ r.target[q].current = (s.target[q].current \/ s.down[1].type = "current")
      BY <3>1, <2>1, NewsArrive
    <3> QED
      BY ONLY <2>2, <3>1, <3>2
  <2>4. NoMore(r, 0, q) /\ Coming(r, more, 0)
    BY <1>1, <1>4, <1>6
  <2> QED
    BY <2>3, <2>4 DEF Arrived
<1>7. CASE i # 1
  <2>1. PICK h \in DOMAIN r.down :
          /\ i = h + 1 /\ h \in Nat /\ r.down[h] = s.down[i]
          /\ NoMore(r, h, q) <=> NoMore(s, i, q)
          /\ Coming(r, more, h) <=> Coming(s, more, i)
    BY <1>3, <1>7
  <2>2. \/ \E k \in DOMAIN r.down : /\ k <= h /\ r.down[k].q = q
                                    /\ r.down[k].type = "current" /\ Unconfirmed(r, k, q)
        \/ r.target[q].current /\ Unconfirmed(r, 0, q)
    <3>1. CASE s.target[q].current /\ Unconfirmed(s, 0, q)
      BY <3>1, <1>4, <1>5, ReadCurrent
    <3>2. ASSUME NEW k \in DOMAIN s.down, k <= i, s.down[k].q = q, s.down[k].type = "current",
                 Unconfirmed(s, k, q)
          PROVE  \/ \E j \in DOMAIN r.down : /\ j <= h /\ r.down[j].q = q
                                             /\ r.down[j].type = "current" /\ Unconfirmed(r, j, q)
                 \/ r.target[q].current /\ Unconfirmed(r, 0, q)
      <4>1. CASE k = 1
        <5>1. s.down[1].type \in News /\ s.down[1].q = q /\ Unconfirmed(s, 1, q)
          BY <3>2, <4>1 DEF News
        <5>2. r.target[q].current
          BY <3>2, <4>1, <5>1, NewsArrive
        <5> QED
          BY <5>1, <5>2, <1>4
      <4>2. CASE k # 1
        <5>1. PICK j \in DOMAIN r.down :
                /\ k = j + 1 /\ j \in Nat /\ r.down[j] = s.down[k]
                /\ Unconfirmed(r, j, q) <=> Unconfirmed(s, k, q)
          BY <1>3, <4>2
        <5>2. j <= h
          BY ONLY <5>1, <2>1, <3>2
        <5> QED
          BY <5>1, <5>2, <3>2
      <4> QED
        BY <4>1, <4>2
    <3> QED
      BY <3>1, <3>2, <1>1
  <2> QED
    BY <2>1, <2>2, <1>1 DEF OnTheWay
<1> QED
  BY <1>6, <1>7

(* Nothing is lost when a message is read.                                 *)
LEMMA ReadInTime ==
  ASSUME NEW s \in ClientType, NEW r \in ClientType, Counts(s), Replied(s), Reads(s, r),
         NEW srv, NEW more, Serving(s, srv, more), NEW n \in Nat, InTime(s, srv, more, n)
  PROVE  InTime(r, srv, more, n)
<1>1. Delivered(r, srv, more)
  <2> SUFFICES ASSUME NEW q \in Targets(r), IsOpen(r), srv[q] >= 0, Unasked(r, q)
               PROVE  OnTheWay(r, q, srv[q], more) \/ Arrived(r, q, srv[q], more)
    BY DEF Delivered
  <2>1. q \in Targets(s) /\ IsOpen(s) /\ Unasked(s, q)
    BY DEF Reads, Targets, Unasked
  <2>2. q \in Query
    BY ClientFields, ListenAssumption DEF Targets
  <2>3. q \in Query \ Denied /\ srv[q] \in Nat
    <3>1. srv[q] \in NotServed..MaxVersion
      BY <2>2 DEF Serving
    <3>2. srv[q] # NotServed
      BY DEF NotServed
    <3>3. srv[q] \in Nat
      BY <3>1, ListenAssumption DEF NotServed
    <3> QED
      BY <2>2, <3>2, <3>3 DEF Serving
  <2>4. AtMost(s, q, srv[q])
    BY <2>2 DEF InTime, Behind
  <2>5. OnTheWay(s, q, srv[q], more) \/ Arrived(s, q, srv[q], more)
    BY <2>1 DEF InTime, Delivered
  <2> QED
    BY <2>1, <2>3, <2>4, <2>5, ReadOnTheWay, ReadArrived
<1>2. Behind(r, srv, n)
  <2> SUFFICES ASSUME NEW q \in Query
               PROVE  /\ AtMost(r, q, n)
                      /\ srv[q] >= 0 => srv[q] <= n /\ AtMost(r, q, srv[q])
    BY DEF Behind
  <2>1. AtMost(s, q, n) /\ (srv[q] >= 0 => srv[q] <= n /\ AtMost(s, q, srv[q]))
    BY DEF InTime, Behind
  <2>2. srv[q] >= 0 => srv[q] \in Nat
    <3>1. srv[q] \in NotServed..MaxVersion
      BY DEF Serving
    <3> QED
      BY <3>1, ListenAssumption DEF NotServed
  <2> QED
    BY <2>1, <2>2, ReadAtMost
<1>3. Untimed(r)
  BY DEF Untimed, Reads
<1> QED
  BY <1>1, <1>2, <1>3 DEF InTime

(* The server takes a request, or none, and sends x, unless it has nothing *)
(* to say about a query it refuses.                                        *)
Sent(s, r, x) ==
  /\ x \in Replies
  /\ \/ r.down = Append(s.down, x)
     \/ r.down = s.down /\ x.type = "error" /\ x.q \in Denied
  /\ r.target = s.target /\ r.docs = s.docs /\ r.synced = s.synced
  /\ r.listeners = s.listeners /\ r.timer = s.timer /\ (IsOpen(r) <=> IsOpen(s))
  /\ \A q \in Query \ Denied :
       Unasked(r, q) => Unasked(s, q) \/ (x.q = q /\ x.type \in Counted)

(* What it serves, and whether it owes a snapshot, fit what it sent.       *)
Agrees(x, old, owed, new, owes, n) ==
  /\ \A q \in Query : new[q] >= 0 =>
       IF x.q = q /\ x.type \in News
       THEN /\ x.v = new[q] /\ new[q] = n /\ owes
            /\ x.type = "current" \/ old[q] >= 0
       ELSE new[q] = old[q] /\ ~ (x.q = q /\ x.type \in Counted)
  /\ owed => owes \/ x.type = "snapshot"
  /\ x.type \in News => x.v = n

(* What was sent is the last message.                                      *)
LEMMA SentLast ==
  ASSUME NEW s \in ClientType, NEW r, NEW x, Sent(s, r, x)
  PROVE  /\ DOMAIN s.down \in SUBSET (Nat \ {0})
         /\ \A i \in DOMAIN s.down : i \in DOMAIN r.down /\ r.down[i] = s.down[i]
         /\ \A i \in DOMAIN r.down \ DOMAIN s.down : r.down[i] = x
         /\ x.type # "error" =>
              \E i \in DOMAIN r.down \ DOMAIN s.down :
                /\ i \in Nat \ {0} /\ \A j \in DOMAIN r.down : j <= i /\ ~ (i < j)
                /\ \A j \in DOMAIN s.down : j < i
<1>1. PICK a, b, n : a = s.down /\ b = r.down /\ n = Len(a)
  OBVIOUS
<1>2. a \in Seq(Replies) /\ x \in Replies
  BY <1>1, ClientFields DEF Sent
<1>3. n \in Nat /\ DOMAIN a = 1..n /\ 1..n \in SUBSET (Nat \ {0})
  BY <1>1, <1>2
<1>4. CASE b = Append(a, x)
  <2>1. DOMAIN b = 1..(n + 1) /\ b[n + 1] = x /\ \A i \in 1..n : b[i] = a[i]
    BY <1>1, <1>2, <1>4
  <2>2. /\ \A i \in 1..n : i \in 1..(n + 1) /\ i < n + 1
        /\ \A i \in 1..(n + 1) : /\ i \in 1..n \/ i = n + 1
                                 /\ i <= n + 1 /\ ~ (n + 1 < i)
        /\ n + 1 \in 1..(n + 1) /\ n + 1 \notin 1..n /\ n + 1 \in Nat \ {0}
    BY <1>3
  <2>3. \A i \in 1..n : i \in DOMAIN b /\ b[i] = a[i]
    BY <2>1, <2>2
  <2>4. \A i \in DOMAIN b \ 1..n : b[i] = x
    BY <2>1, <2>2
  <2>5. PICK k : k = n + 1
    OBVIOUS
  <2>6. /\ k \in DOMAIN b \ 1..n /\ k \in Nat \ {0} /\ \A j \in DOMAIN b : j <= k /\ ~ (k < j)
        /\ \A j \in 1..n : j < k
    BY <2>1, <2>2, <2>5
  <2> QED
    BY <2>3, <2>4, <2>6, <1>1, <1>3
<1>5. CASE b = a /\ x.type = "error"
  BY <1>1, <1>3, <1>5
<1> QED
  BY <1>1, <1>4, <1>5 DEF Sent

(* What follows a message still does, and so does what was sent.           *)
LEMMA SentAfter ==
  ASSUME NEW s \in ClientType, NEW r, NEW x, Sent(s, r, x),
         NEW i \in DOMAIN s.down \cup {0}, NEW q \in Query \ Denied
  PROVE  /\ Unconfirmed(r, i, q) <=>
              Unconfirmed(s, i, q) /\ ~ (x.q = q /\ x.type \in Counted)
         /\ NoMore(r, i, q) <=>
              NoMore(s, i, q) /\ ~ (x.q = q /\ x.type \in Counted \cup News)
         /\ \A more : Coming(r, more, i) <=> (Coming(s, more, i) \/ x.type = "snapshot")
<1>1. /\ \A j \in DOMAIN s.down : j \in DOMAIN r.down /\ r.down[j] = s.down[j]
      /\ \A j \in DOMAIN r.down \ DOMAIN s.down : r.down[j] = x
  BY SentLast
<1>2. CASE r.down = s.down /\ x.type = "error" /\ x.q \in Denied
  <2>1. x.q # q /\ x.type # "snapshot"
    BY <1>2
  <2> QED
    BY <2>1, <1>2 DEF Unconfirmed, NoMore, Coming
<1>3. CASE r.down = Append(s.down, x)
  <2>1. PICK k \in DOMAIN r.down : i < k /\ r.down[k] = x
    <3>1. s.down \in Seq(Replies) /\ x \in Replies
      BY ClientFields DEF Sent
    <3>2. PICK k : k = Len(s.down) + 1
      OBVIOUS
    <3>3. k \in DOMAIN r.down /\ r.down[k] = x
      BY ONLY <3>1, <3>2, <1>3
    <3>4. i < k
      BY ONLY <3>1, <3>2, i \in DOMAIN s.down \cup {0}
    <3> QED
      BY <3>3, <3>4
  <2>2. Unconfirmed(r, i, q) <=> Unconfirmed(s, i, q) /\ ~ (x.q = q /\ x.type \in Counted)
    BY ONLY <2>1, <1>1 DEF Unconfirmed
  <2>3. NoMore(r, i, q) <=> NoMore(s, i, q) /\ ~ (x.q = q /\ x.type \in Counted \cup News)
    BY ONLY <2>1, <1>1 DEF NoMore
  <2>4. \A more : Coming(r, more, i) <=> (Coming(s, more, i) \/ x.type = "snapshot")
    BY ONLY <2>1, <1>1 DEF Coming
  <2> QED
    BY <2>2, <2>3, <2>4
<1> QED
  BY <1>2, <1>3 DEF Sent

(* What the server sends is new enough.                                    *)
LEMMA SentFresh ==
  ASSUME NEW s \in ClientType, NEW r, NEW x, Sent(s, r, x), NEW ask, Fresh(s, ask),
         x.type \in News => x.q \in Query \ Denied /\ NewEnough(s, ask, x.q, x.v)
  PROVE  Fresh(r, ask)
<1>1. /\ r.target = s.target /\ r.docs = s.docs /\ r.synced = s.synced
      /\ r.listeners = s.listeners /\ (IsOpen(r) <=> IsOpen(s))
  BY DEF Sent
<1>2. \A q, v : NewEnough(r, ask, q, v) <=> NewEnough(s, ask, q, v)
  BY <1>1 DEF NewEnough
<1>3. FreshTargets(r, ask) /\ FreshViews(r, ask)
  BY <1>1, <1>2 DEF Fresh, FreshTargets, FreshViews
<1>4. FreshNews(r, ask)
  <2> SUFFICES ASSUME NEW i \in DOMAIN r.down, r.down[i].type \in News
               PROVE  /\ r.down[i].q \in Query \ Denied
                      /\ Unasked(r, r.down[i].q) /\ Unconfirmed(r, i, r.down[i].q) =>
                           NewEnough(r, ask, r.down[i].q, r.down[i].v)
    BY DEF FreshNews
  <2>1. CASE i \notin DOMAIN s.down
    <3>1. r.down[i] = x
      BY <2>1, SentLast
    <3> QED
      BY <3>1, <1>2
  <2>2. CASE i \in DOMAIN s.down
    <3>1. r.down[i] = s.down[i]
      BY <2>2, SentLast
    <3>2. PICK q, v : q = s.down[i].q /\ v = s.down[i].v
      OBVIOUS
    <3>3. /\ q \in Query \ Denied
          /\ Unasked(s, q) /\ Unconfirmed(s, i, q) => NewEnough(s, ask, q, v)
      BY <2>2, <3>1, <3>2 DEF Fresh, FreshNews
    <3>4. Unconfirmed(r, i, q) => Unconfirmed(s, i, q) /\ ~ (x.q = q /\ x.type \in Counted)
      BY <2>2, <3>3, SentAfter
    <3>5. Unasked(r, q) => Unasked(s, q) \/ (x.q = q /\ x.type \in Counted)
      BY <3>3 DEF Sent
    <3> QED
      BY <3>1, <3>2, <3>3, <3>4, <3>5, <1>2
  <2> QED
    BY <2>1, <2>2
<1> QED
  BY <1>3, <1>4 DEF Fresh

(* What was on its way, or had arrived, is not overtaken by a message that *)
(* is neither a confirmation nor news of the query.                        *)
LEMMA SentKeeps ==
  ASSUME NEW s \in ClientType, NEW r, NEW x, Sent(s, r, x), NEW q \in Query \ Denied, NEW v,
         ~ (x.q = q /\ x.type \in Counted \cup News), NEW owed, NEW owes,
         owed => owes \/ x.type = "snapshot"
  PROVE  /\ OnTheWay(s, q, v, owed) => OnTheWay(r, q, v, owes)
         /\ Arrived(s, q, v, owed) => Arrived(r, q, v, owes)
<1>1. r.target = s.target /\ r.docs = s.docs /\ r.synced = s.synced
  BY DEF Sent
<1>2. \A i \in DOMAIN s.down : i \in DOMAIN r.down /\ r.down[i] = s.down[i]
  BY SentLast
<1>3. ASSUME NEW i \in DOMAIN s.down \cup {0}
      PROVE  /\ Unconfirmed(s, i, q) => Unconfirmed(r, i, q)
             /\ NoMore(s, i, q) => NoMore(r, i, q)
             /\ Coming(s, owed, i) => Coming(r, owes, i)
  <2>1. /\ Unconfirmed(s, i, q) => Unconfirmed(r, i, q)
        /\ NoMore(s, i, q) => NoMore(r, i, q)
        /\ Coming(s, owed, i) \/ x.type = "snapshot" => Coming(r, owed, i)
        /\ Coming(s, owes, i) \/ x.type = "snapshot" => Coming(r, owes, i)
    BY SentAfter
  <2>2. Coming(s, owed, i) => Coming(r, owes, i)
    BY <2>1 DEF Coming
  <2> QED
    BY <2>1, <2>2
<1>4. ASSUME OnTheWay(s, q, v, owed) PROVE OnTheWay(r, q, v, owes)
  <2>1. PICK i \in DOMAIN s.down :
          /\ s.down[i].q = q /\ s.down[i].type \in News /\ s.down[i].v = v
          /\ NoMore(s, i, q) /\ Coming(s, owed, i)
          /\ \/ \E k \in DOMAIN s.down : /\ k <= i /\ s.down[k].q = q
                                         /\ s.down[k].type = "current" /\ Unconfirmed(s, k, q)
             \/ s.target[q].current /\ Unconfirmed(s, 0, q)
    BY <1>4 DEF OnTheWay
  <2>2. \/ \E k \in DOMAIN r.down : /\ k <= i /\ r.down[k].q = q
                                    /\ r.down[k].type = "current" /\ Unconfirmed(r, k, q)
        \/ r.target[q].current /\ Unconfirmed(r, 0, q)
    BY <2>1, <1>1, <1>2, <1>3
  <2>3. /\ r.down[i].q = q /\ r.down[i].type \in News /\ r.down[i].v = v
        /\ i \in DOMAIN r.down /\ NoMore(r, i, q) /\ Coming(r, owes, i)
    BY <2>1, <1>2, <1>3
  <2> QED
    BY <2>2, <2>3 DEF OnTheWay
<1>5. ASSUME Arrived(s, q, v, owed) PROVE Arrived(r, q, v, owes)
  BY <1>1, <1>3, <1>5 DEF Arrived
<1> QED
  BY <1>4, <1>5

(* News that were sent are on their way, to a target that is current by    *)
(* then.                                                                   *)
LEMMA SentNews ==
  ASSUME NEW s \in ClientType, NEW r, NEW x, Sent(s, r, x), NEW q \in Query \ Denied,
         x.q = q, x.type \in News,
         x.type = "current" \/ \E v, owed : OnTheWay(s, q, v, owed) \/ Arrived(s, q, v, owed)
  PROVE  OnTheWay(r, q, x.v, TRUE)
<1>1. x.type # "error" /\ x.type \notin Counted
  BY DEF News, Counted
<1>2. PICK i \in DOMAIN r.down \ DOMAIN s.down :
        /\ i \in Nat \ {0} /\ \A j \in DOMAIN r.down : j <= i /\ ~ (i < j)
        /\ \A j \in DOMAIN s.down : j < i
  BY <1>1, SentLast
<1>3. r.down[i] = x /\ \A k \in DOMAIN s.down : k \in DOMAIN r.down /\ r.down[k] = s.down[k]
  BY <1>2, SentLast
<1>4. NoMore(r, i, q) /\ Unconfirmed(r, i, q) /\ Coming(r, TRUE, i)
  BY <1>2 DEF NoMore, Unconfirmed, Coming
<1>5. \A k \in DOMAIN s.down \cup {0} : Unconfirmed(s, k, q) => Unconfirmed(r, k, q)
  BY <1>1, SentAfter
<1>6. \/ \E k \in DOMAIN r.down : /\ k <= i /\ r.down[k].q = q
                                  /\ r.down[k].type = "current" /\ Unconfirmed(r, k, q)
      \/ r.target[q].current /\ Unconfirmed(r, 0, q)
  <2>1. CASE x.type = "current"
    BY <2>1, <1>2, <1>3, <1>4
  <2>2. ASSUME NEW v, NEW owed, OnTheWay(s, q, v, owed) \/ Arrived(s, q, v, owed)
        PROVE  \/ \E k \in DOMAIN r.down : /\ k <= i /\ r.down[k].q = q
                                           /\ r.down[k].type = "current" /\ Unconfirmed(r, k, q)
               \/ r.target[q].current /\ Unconfirmed(r, 0, q)
    <3>1. \/ \E k \in DOMAIN s.down : /\ s.down[k].q = q
                                      /\ s.down[k].type = "current" /\ Unconfirmed(s, k, q)
          \/ s.target[q].current /\ Unconfirmed(s, 0, q)
      <4>1. CASE OnTheWay(s, q, v, owed)
        BY <4>1 DEF OnTheWay
      <4>2. CASE Arrived(s, q, v, owed)
        BY <4>2 DEF Arrived, NoMore, Unconfirmed
      <4> QED
        BY <2>2, <4>1, <4>2
    <3>2. r.target = s.target
      BY DEF Sent
    <3> QED
      BY <3>1, <3>2, <1>2, <1>3, <1>5
  <2> QED
    BY <2>1, <2>2
<1> QED
  BY <1>2, <1>3, <1>4, <1>6 DEF OnTheWay

(* Nothing is lost when the server sends.                                  *)
LEMMA SentInTime ==
  ASSUME NEW s \in ClientType, NEW r \in ClientType, NEW x, Sent(s, r, x),
         NEW old, NEW owed, NEW new, NEW owes, NEW n \in Nat,
         Agrees(x, old, owed, new, owes, n), Serving(r, new, owes), InTime(s, old, owed, n)
  PROVE  InTime(r, new, owes, n)
<1>1. /\ x \in Replies /\ r.target = s.target /\ r.docs = s.docs /\ r.listeners = s.listeners
      /\ r.timer = s.timer /\ (IsOpen(r) <=> IsOpen(s))
  BY DEF Sent
<1>2. ASSUME NEW q \in Query, new[q] >= 0
      PROVE  /\ q \in Query \ Denied /\ new[q] \in Nat
             /\ IF x.q = q /\ x.type \in News
                THEN /\ x.v = new[q] /\ new[q] = n /\ owes
                     /\ x.type = "current" \/ old[q] >= 0
                ELSE new[q] = old[q] /\ ~ (x.q = q /\ x.type \in Counted)
  <2>1. new[q] \in NotServed..MaxVersion
    BY DEF Serving
  <2>2. new[q] # NotServed /\ new[q] \in Nat
    BY <2>1, <1>2, ListenAssumption DEF NotServed
  <2>3. q \notin Denied
    BY <2>2 DEF Serving
  <2> QED
    BY <2>2, <2>3, <1>2 DEF Agrees
<1>3. Delivered(r, new, owes)
  <2> SUFFICES ASSUME NEW q \in Targets(r), IsOpen(r), new[q] >= 0, Unasked(r, q)
               PROVE  OnTheWay(r, q, new[q], owes) \/ Arrived(r, q, new[q], owes)
    BY DEF Delivered
  <2>1. q \in Query /\ q \in Targets(s) /\ IsOpen(s)
    BY <1>1, ClientFields, ListenAssumption DEF Targets
  <2>2. q \in Query \ Denied
    BY <2>1, <1>2
  <2>3. Unasked(s, q) \/ (x.q = q /\ x.type \in Counted)
    BY <2>2 DEF Sent
  <2>4. ASSUME old[q] >= 0, ~ (x.q = q /\ x.type \in Counted)
        PROVE  OnTheWay(s, q, old[q], owed) \/ Arrived(s, q, old[q], owed)
    BY <2>1, <2>3, <2>4 DEF InTime, Delivered
  <2>5. CASE x.q = q /\ x.type \in News
    <3>1. x.v = new[q] /\ owes /\ (x.type = "current" \/ old[q] >= 0)
      BY <2>1, <2>5, <1>2
    <3>2. x.type \notin Counted
      BY <2>5 DEF News, Counted
    <3>3. OnTheWay(r, q, x.v, TRUE)
      <4>1. CASE x.type = "current"
        BY <2>2, <2>5, <4>1, SentNews
      <4>2. CASE old[q] >= 0
        BY <2>2, <2>4, <2>5, <3>2, <4>2, SentNews
      <4> QED
        BY <3>1, <4>1, <4>2
    <3> QED
      BY <3>1, <3>3 DEF OnTheWay, Coming
  <2>6. CASE ~ (x.q = q /\ x.type \in News)
    <3>1. new[q] = old[q] /\ ~ (x.q = q /\ x.type \in Counted)
      BY <2>1, <2>6, <1>2
    <3>2. OnTheWay(s, q, new[q], owed) \/ Arrived(s, q, new[q], owed)
      BY <2>4, <3>1
    <3>3. ~ (x.q = q /\ x.type \in Counted \cup News)
      BY <2>6, <3>1
    <3>4. owed => owes \/ x.type = "snapshot"
      BY DEF Agrees
    <3> QED
      BY <3>2, <3>3, <3>4, <2>2, SentKeeps
  <2> QED
    BY <2>5, <2>6
<1>4. Behind(r, new, n)
  <2> SUFFICES ASSUME NEW q \in Query
               PROVE  /\ AtMost(r, q, n)
                      /\ new[q] >= 0 => new[q] <= n /\ AtMost(r, q, new[q])
    BY DEF Behind
  <2>1. AtMost(s, q, n) /\ (old[q] >= 0 => old[q] <= n /\ AtMost(s, q, old[q]))
    BY DEF InTime, Behind
  <2>2. x.type \notin News => x.v = 0
    BY <1>1 DEF Replies, News
  <2>3. ASSUME NEW k \in Nat, AtMost(s, q, k), x.q = q => x.v <= k PROVE AtMost(r, q, k)
    <3>1. ASSUME NEW i \in DOMAIN r.down, r.down[i].q = q PROVE r.down[i].v <= k
      <4>1. CASE i \in DOMAIN s.down
        <5>1. r.down[i] = s.down[i]
          BY <4>1, SentLast
        <5> QED
          BY <5>1, <4>1, <3>1, <2>3 DEF AtMost
      <4>2. CASE i \notin DOMAIN s.down
        <5>1. r.down[i] = x
          BY <4>2, SentLast
        <5> QED
          BY <5>1, <3>1, <2>3
      <4> QED
        BY <4>1, <4>2
    <3> QED
      BY <3>1, <2>3, <1>1 DEF AtMost
  <2>4. AtMost(r, q, n)
    <3>1. x.v <= n
      BY <2>2 DEF Agrees
    <3> QED
      BY <3>1, <2>1, <2>3
  <2>5. ASSUME new[q] >= 0 PROVE new[q] <= n /\ AtMost(r, q, new[q])
    <3>1. CASE x.q = q /\ x.type \in News
      <4>1. new[q] = n
        BY <2>5, <3>1, <1>2
      <4> QED
        BY <4>1, <2>4
    <3>2. CASE ~ (x.q = q /\ x.type \in News)
      <4>1. new[q] = old[q] /\ new[q] \in Nat
        BY <2>5, <3>2, <1>2
      <4>2. x.q = q => x.v <= new[q]
        BY <4>1, <3>2, <2>2
      <4>3. AtMost(s, q, new[q]) /\ new[q] <= n
        BY <4>1, <2>1
      <4> QED
        BY <4>1, <4>2, <4>3, <2>3
    <3> QED
      BY <3>1, <3>2
  <2> QED
    BY <2>4, <2>5
<1>5. Untimed(r)
  BY <1>1 DEF Untimed, InTime
<1> QED
  BY <1>3, <1>4, <1>5 DEF InTime

(* The server is not asked to forget a query it does not have.             *)
LEMMA UnwatchServed ==
  ASSUME Sound(c, serving), c.up # <<>>, c.up[1].type = "unwatch", c.up[1].q \in Query \ Denied
  PROVE  serving[c.up[1].q] # NotServed
<1>1. PICK q : q = c.up[1].q
  OBVIOUS
<1>2. c.up \in Seq(Requests) /\ Requested(c.up, serving, Watched(c))
  BY ClientFields DEF Sound, Attended
<1>3. PICK h : Follows(h, c.up, q, Now(serving, q))
  BY <1>1, <1>2 DEF Requested
<1>4. 1 \in 1..Len(c.up) /\ 1 - 1 = 0
  BY <1>2
<1>5. h[0] = Now(serving, q) /\ h[0] = "yes"
  BY <1>1, <1>3, <1>4 DEF Follows
<1> QED
  BY <1>1, <1>5 DEF Now

(* Taking the first request leaves the others.                             *)
LEMMA TakesUnasked ==
  ASSUME NEW s \in ClientType, NEW r, s.up # <<>>, r.up = Tail(s.up), NEW q, q # s.up[1].q
  PROVE  Unasked(r, q) => Unasked(s, q)
<1> SUFFICES ASSUME Unasked(r, q), NEW j \in DOMAIN s.up PROVE s.up[j].q # q
  BY DEF Unasked
<1>1. s.up \in Seq(Requests)
  BY ClientFields
<1>2. CASE j = 1
  BY <1>2
<1>3. CASE j # 1
  <2>1. PICK k : k = j - 1
    OBVIOUS
  <2>2. k \in DOMAIN Tail(s.up) /\ Tail(s.up)[k] = s.up[k + 1] /\ k + 1 = j
    BY <2>1, <1>1, <1>3
  <2> QED
    BY <2>2 DEF Unasked
<1> QED
  BY <1>2, <1>3

(* A step of the server.                                                   *)
Served(x) ==
  /\ Sent(c, c', x) /\ Agrees(x, serving, dirty, serving', dirty', version)
  /\ x.type \in News => x.q \in Query \ Denied /\ x.v = version

(* It answers a request ...                                                *)
LEMMA TakesServed ==
  ASSUME Sound(c, serving), Serving(c, serving, dirty), ServerTakes
  PROVE  \E x : Served(x)
<1>1. PICK m, p, r, new : m = c.up[1] /\ p = m.q /\ r = c' /\ new = serving'
  OBVIOUS
<1>2. PICK a : a = IF m.type = "unwatch"
                   THEN IF serving[p] = NotServed THEN <<>> ELSE <<Msg("removed", p, 0)>>
                   ELSE <<Msg(IF p \in Denied THEN "error" ELSE "added", p, 0)>>
  OBVIOUS
<1>3. PICK k : k = IF m.type = "unwatch" \/ p \in Denied THEN NotServed ELSE Adding
  OBVIOUS
<1>4. c \in ClientType /\ c.up # <<>>
  BY DEF Sound, Attended, ServerTakes
<1>5. c.up \in Seq(Requests) /\ c.down \in Seq(Replies)
  BY <1>4, ClientFields
<1>6. Head(c.up) = m /\ m \in Requests
  BY <1>1, <1>4, <1>5
<1>7. /\ r = [c EXCEPT !.up = Tail(c.up), !.down = c.down \o a]
      /\ new = [serving EXCEPT ![p] = k] /\ dirty' = dirty
  BY <1>1, <1>2, <1>3, <1>6 DEF ServerTakes
<1>8. p \in Query /\ m.type \in {"watch", "unwatch"}
  BY <1>1, <1>6 DEF Requests
<1>9. serving \in [Query -> NotServed..MaxVersion] /\ \A q \in Denied : serving[q] = NotServed
  BY DEF Serving
<1>10. m.type = "unwatch" /\ p \notin Denied => serving[p] # NotServed
  BY <1>1, <1>4, <1>8, UnwatchServed
<1>11. /\ r.up = Tail(c.up) /\ r.down = c.down \o a /\ r.target = c.target /\ r.docs = c.docs
       /\ r.synced = c.synced /\ r.listeners = c.listeners /\ r.timer = c.timer
       /\ (IsOpen(r) <=> IsOpen(c))
  BY <1>4, <1>7 DEF ClientType, IsOpen
<1>12. PICK x : x = Msg(IF p \in Denied THEN "error"
                        ELSE IF m.type = "unwatch" THEN "removed" ELSE "added", p, 0)
  OBVIOUS
<1>13. /\ x \in Replies /\ x.q = p /\ x.type \in {"added", "removed", "error"}
       /\ p \in Denied => x.type = "error"
       /\ p \notin Denied => x.type \in {"added", "removed"}
  BY <1>8, <1>12 DEF Msg, Replies
<1>14. r.down = Append(c.down, x) \/ (r.down = c.down /\ x.type = "error" /\ x.q \in Denied)
  <2>1. CASE a = <<>>
    <3>1. m.type = "unwatch" /\ serving[p] = NotServed
      BY <2>1, <1>2
    <3>2. p \in Denied
      BY <3>1, <1>10
    <3> QED
      BY <2>1, <3>2, <1>5, <1>11, <1>13
  <2>2. CASE a # <<>>
    <3>1. a = <<x>>
      BY <2>2, <1>2, <1>8, <1>9, <1>12
    <3> QED
      BY <3>1, <1>5, <1>11, <1>13
  <2> QED
    BY <2>1, <2>2
<1>15. ASSUME NEW q \in Query \ Denied
       PROVE  Unasked(r, q) => Unasked(c, q) \/ (x.q = q /\ x.type \in Counted)
  <2>1. CASE q = p
    BY <2>1, <1>13 DEF Counted
  <2>2. CASE q # p
    BY <2>2, <1>1, <1>4, <1>11, TakesUnasked
  <2> QED
    BY <2>1, <2>2
<1>16. Sent(c, r, x)
  BY <1>11, <1>13, <1>14, <1>15 DEF Sent
<1>17. x.type \notin News
  BY <1>13 DEF News
<1>18. Agrees(x, serving, dirty, new, dirty', version)
  <2>1. ASSUME NEW q \in Query, new[q] >= 0 PROVE q # p /\ new[q] = serving[q]
    <3>1. q # p
      <4>1. new[p] = k
        BY <1>7, <1>8, <1>9
      <4>2. ~ (k >= 0)
        BY <1>3 DEF NotServed, Adding
      <4> QED
        BY <4>1, <4>2, <2>1
    <3> QED
      BY <3>1, <1>7, <1>9
  <2> QED
    BY <2>1, <1>7, <1>13, <1>17 DEF Agrees
<1> QED
  BY <1>1, <1>16, <1>17, <1>18 DEF Served

(* ... sends documents, or a snapshot.                                     *)
LEMMA SendsServed ==
  ASSUME Sound(c, serving), Serving(c, serving, dirty), version \in 1..MaxVersion,
         ServerSnapshots \/ \E q \in Query : ServerSends(q)
  PROVE  \E x : Served(x)
<1>1. PICK r, new : r = c' /\ new = serving'
  OBVIOUS
<1>2. c \in ClientType
  BY DEF Sound, Attended
<1>3. serving \in [Query -> NotServed..MaxVersion] /\ \A q \in Denied : serving[q] = NotServed
  BY DEF Serving
<1>4. ASSUME NEW x \in Replies, r = [c EXCEPT !.down = Append(c.down, x)] PROVE Sent(c, r, x)
  <2>1. /\ r.up = c.up /\ r.down = Append(c.down, x) /\ r.target = c.target /\ r.docs = c.docs
        /\ r.synced = c.synced /\ r.listeners = c.listeners /\ r.timer = c.timer
        /\ (IsOpen(r) <=> IsOpen(c))
    BY <1>2, <1>4 DEF ClientType, IsOpen
  <2> QED
    BY <2>1 DEF Sent, Unasked
<1>5. CASE ServerSnapshots
  <2>1. PICK x : x = Msg("snapshot", "all", 0)
    OBVIOUS
  <2>2. x \in Replies /\ x.type = "snapshot"
    BY <2>1 DEF Msg, Replies
  <2>3. new = serving /\ r = [c EXCEPT !.down = Append(c.down, x)]
    BY <2>1, <1>1, <1>5 DEF ServerSnapshots
  <2>4. Sent(c, r, x)
    BY <2>2, <2>3, <1>4
  <2>5. Agrees(x, serving, dirty, new, dirty', version) /\ x.type \notin News
    BY <2>2, <2>3 DEF Agrees, News, Counted
  <2> QED
    BY <2>4, <2>5, <1>1 DEF Served
<1>6. ASSUME NEW p \in Query, ServerSends(p) PROVE \E x : Served(x)
  <2>1. PICK v, y, x : /\ v = version /\ x = Msg(y, p, v)
                       /\ y = IF serving[p] = Adding THEN "current" ELSE "change"
    OBVIOUS
  <2>2. /\ serving[p] \in Adding..(v - 1) /\ new = [serving EXCEPT ![p] = v] /\ dirty' = TRUE
        /\ r = [c EXCEPT !.down = Append(c.down, x)]
    BY <2>1, <1>1, <1>6 DEF ServerSends
  <2>3. v \in 1..MaxVersion /\ v \in Version
    BY <2>1, ListenAssumption DEF Version
  <2>4. x \in Replies /\ x.q = p /\ x.v = v /\ x.type = y /\ y \in News
    BY <2>1, <2>3 DEF Msg, Replies, News
  <2>5. y = "current" \/ serving[p] >= 0
    BY <2>1, <2>2, <2>3 DEF Adding
  <2>6. p \notin Denied
    <3>1. serving[p] # NotServed
      BY <2>2, <2>3 DEF Adding, NotServed
    <3> QED
      BY <3>1, <1>3
  <2>7. Sent(c, r, x)
    BY <2>2, <2>4, <1>4
  <2>8. new[p] = v /\ \A q \in Query \ {p} : new[q] = serving[q]
    BY <2>2, <1>3
  <2>9. Agrees(x, serving, dirty, new, dirty', v)
    BY <2>2, <2>4, <2>5, <2>8 DEF Agrees
  <2> QED
    BY <2>1, <2>4, <2>6, <2>7, <2>9, <1>1 DEF Served
<1> QED
  BY <1>5, <1>6

(* What a step does to client and server.                                  *)
LEMMA Moves ==
  ASSUME ListenInv, Untimed(c), [Next]_vars
  PROVE  \/ Steady(c, c', asked, asked') /\ UNCHANGED <<version, serving, dirty>>
         \/ /\ Severed(c, c', asked, asked') /\ version' = version
            /\ \A q \in Query : serving'[q] = NotServed
         \/ Reads(c, c') /\ UNCHANGED <<asked, version, serving, dirty>>
         \/ (\E x : Served(x)) /\ UNCHANGED <<asked, version>>
         \/ OthersWrite
<1>1. /\ Sound(c, serving) /\ Serving(c, serving, dirty) /\ version \in 1..MaxVersion
      /\ asked \in [Listener -> -2..MaxVersion] /\ c \in ClientType
  BY DEF ListenInv, AppTyped, Sound, Attended
<1>2. ASSUME UNCHANGED <<app, version, server, trouble>>
      PROVE  UNCHANGED <<asked, version, serving, dirty>>
  BY <1>2 DEF app, server
<1>3. ASSUME NEW l \in Listener, AddQueryListener(l)
      PROVE  \/ Steady(c, c', asked, asked') /\ UNCHANGED <<version, serving, dirty>>
             \/ /\ Severed(c, c', asked, asked') /\ version' = version
                /\ \A q \in Query : serving'[q] = NotServed
  <2>1. UNCHANGED <<version, serving, dirty>>
    BY <1>3 DEF AddQueryListener, server
  <2>2. Steady(c, c', asked, asked') \/ (~ IsOpen(c) /\ Severed(c, c', asked, asked'))
    BY <1>1, <1>3, AddStep
  <2>3. ~ IsOpen(c) => \A q \in Query : serving[q] = NotServed
    BY <1>1 DEF Serving
  <2> QED
    BY <2>1, <2>2, <2>3
<1>4. ASSUME NEW l \in Listener, RemoveQueryListener(l)
      PROVE  Steady(c, c', asked, asked') /\ UNCHANGED <<version, serving, dirty>>
  <2>1. UNCHANGED <<asked, version, serving, dirty>>
    BY <1>2, <1>4 DEF RemoveQueryListener
  <2> QED
    BY <2>1, <1>1, <1>4, RemoveStep
<1>5. CASE CallBack
  <2>1. UNCHANGED <<asked, version, serving, dirty>> /\ c' = [c EXCEPT !.events = Tail(@)]
    BY <1>5 DEF CallBack, server
  <2>2. PICK r, as : r = c' /\ as = asked
    OBVIOUS
  <2>3. /\ r.up = c.up /\ r.down = c.down /\ r.docs = c.docs /\ r.target = c.target
        /\ r.listeners = c.listeners /\ r.synced = c.synced /\ r.timer = c.timer
        /\ (IsOpen(r) <=> IsOpen(c))
    BY <2>1, <2>2, <1>1 DEF ClientType, IsOpen
  <2>4. Steady(c, r, as, as)
    BY <2>3, <1>1, KeptSteady
  <2> QED
    BY <2>1, <2>2, <2>4
<1>6. CASE UNCHANGED vars
  <2>1. UNCHANGED <<c, asked, version, serving, dirty>>
    BY <1>6 DEF vars, app, server
  <2>2. Steady(c, c, asked, asked)
    BY <1>1, KeptSteady
  <2> QED
    BY <2>1, <2>2
<1>7. CASE OnWatchStreamOpen
  <2>1. UNCHANGED <<asked, version, serving, dirty>>
    BY <1>2, <1>7 DEF OnWatchStreamOpen
  <2> QED
    BY <2>1, <1>1, <1>7, OpenStep
<1>8. CASE BackoffElapsed
  <2>1. UNCHANGED <<asked, version, serving, dirty>>
    BY <1>2, <1>8 DEF BackoffElapsed
  <2> QED
    BY <2>1, <1>1, <1>8, BackoffStep
<1>9. CASE OnlineStateTimeout
  <2>1. UNCHANGED <<asked, version, serving, dirty>>
    BY <1>2, <1>9 DEF OnlineStateTimeout
  <2> QED
    BY <2>1, <1>1, <1>9, TimeoutStep
<1>10. CASE OnStreamRead
  <2>1. UNCHANGED <<asked, version, serving, dirty>>
    BY <1>2, <1>10 DEF OnStreamRead
  <2> QED
    BY <2>1, <1>1, <1>10, ReadStep
<1>11. CASE IdleTimeout \/ StreamFails \/ ConnectivityChanged
  <2>1. UNCHANGED <<asked, version>> /\ ConnectionOver
    BY <1>11 DEF IdleTimeout, StreamFails, ConnectivityChanged, app
  <2>2. \A q \in Query : serving'[q] = NotServed
    BY <2>1 DEF ConnectionOver
  <2>3. Severed(c, c', asked, asked)
    BY <1>1, <1>11, ClosingStep
  <2> QED
    BY <2>1, <2>2, <2>3
<1>12. CASE ServerActs
  <2>1. UNCHANGED <<asked, version>>
    BY <1>12 DEF ServerActs, ServerTakes, ServerSnapshots, ServerSends, app
  <2>2. \E x : Served(x)
    BY <1>1, <1>12, TakesServed, SendsServed DEF ServerActs
  <2> QED
    BY <2>1, <2>2
<1> QED
  BY <1>3, <1>4, <1>5, <1>6, <1>7, <1>8, <1>9, <1>10, <1>11, <1>12 DEF Next, ClientSteps

TimeInv == InTime(c, serving, dirty, version)

(* What was sent arrives, whatever the step.                               *)
LEMMA TimeStep ==
  ASSUME ListenInv, ListenInv', TimeInv, [Next]_vars
  PROVE  TimeInv'
<1>1. PICK r, as, new, srv, more, n :
        /\ r = c' /\ as = asked /\ new = asked' /\ srv = serving' /\ more = dirty' /\ n = version'
  OBVIOUS
<1>2. /\ c \in ClientType /\ Counts(c) /\ Replied(c) /\ Serving(c, serving, dirty)
      /\ version \in Nat /\ r \in ClientType /\ Serving(r, srv, more)
      /\ InTime(c, serving, dirty, version) /\ Untimed(c)
  BY <1>1 DEF ListenInv, Sound, Attended, AppTyped, TimeInv, InTime
<1>3. ASSUME InTime(r, srv, more, n) PROVE TimeInv'
  BY <1>1, <1>3 DEF TimeInv
<1>4. CASE Steady(c, c', asked, asked') /\ UNCHANGED <<version, serving, dirty>>
  <2>1. Steady(c, r, as, new) /\ srv = serving /\ more = dirty /\ n = version
    BY <1>1, <1>4
  <2>2. InTime(r, srv, more, n)
    BY <2>1, <1>2, SteadyInTime
  <2> QED
    BY <2>2, <1>3
<1>5. CASE /\ Severed(c, c', asked, asked') /\ version' = version
           /\ \A q \in Query : serving'[q] = NotServed
  <2>1. Severed(c, r, as, new) /\ n = version /\ \A q \in Query : srv[q] = NotServed
    BY <1>1, <1>5
  <2>2. InTime(r, srv, more, n)
    BY <2>1, <1>2, SeveredInTime
  <2> QED
    BY <2>2, <1>3
<1>6. CASE Reads(c, c') /\ UNCHANGED <<asked, version, serving, dirty>>
  <2>1. Reads(c, r) /\ srv = serving /\ more = dirty /\ n = version
    BY <1>1, <1>6
  <2>2. InTime(r, srv, more, n)
    BY <2>1, <1>2, ReadInTime
  <2> QED
    BY <2>2, <1>3
<1>7. CASE (\E x : Served(x)) /\ UNCHANGED <<asked, version>>
  <2>1. PICK x : Sent(c, r, x) /\ Agrees(x, serving, dirty, srv, more, n) /\ n = version
    BY <1>1, <1>7 DEF Served
  <2>2. InTime(r, srv, more, n)
    BY <2>1, <1>2, SentInTime
  <2> QED
    BY <2>2, <1>3
<1>8. CASE OthersWrite
  <2>1. r = c /\ srv = serving /\ more = dirty /\ n = version + 1
    BY <1>1, <1>8 DEF OthersWrite, server
  <2>2. Delivered(r, srv, more) /\ Untimed(r)
    BY <2>1, <1>2 DEF InTime
  <2>3. ASSUME NEW q \in Query
        PROVE  AtMost(r, q, n) /\ (srv[q] >= 0 => srv[q] <= n /\ AtMost(r, q, srv[q]))
    <3>1. /\ AtMost(c, q, version)
          /\ serving[q] >= 0 => serving[q] <= version /\ AtMost(c, q, serving[q])
      BY <1>2 DEF InTime, Behind
    <3>2. AtMost(c, q, n)
      <4>1. c.docs[q] \in Nat /\ c.target[q].docs \in Nat
        BY <1>2, TargetFields
      <4>2. \A i \in DOMAIN c.down : c.down[i].v \in Nat
        BY <1>2, MessageFields
      <4>3. \A k \in Nat : k <= version => k <= n
        BY <2>1, <1>2
      <4> QED
        BY <3>1, <4>1, <4>2, <4>3 DEF AtMost
    <3>3. serving[q] >= 0 => serving[q] <= n
      <4>1. serving[q] \in Int
        BY <1>2 DEF Serving
      <4> QED
        BY <3>1, <4>1, <2>1, <1>2
    <3> QED
      BY <3>1, <3>2, <3>3, <2>1
  <2> QED
    BY <2>2, <2>3, <1>3 DEF InTime, Behind
<1> QED
  BY <1>2, <1>4, <1>5, <1>6, <1>7, <1>8, Moves

(* In the beginning nothing was sent.                                      *)
LEMMA TimeInit ==
  ASSUME Init
  PROVE  TimeInv
<1>1. /\ c.listeners = {} /\ c.down = <<>> /\ c.timer = FALSE /\ c.target = NoTargets
      /\ c.docs = [q \in Query |-> 0] /\ serving = [q \in Query |-> NotServed] /\ version = 1
  BY DEF Init
<1>2. Delivered(c, serving, dirty) /\ Untimed(c)
  BY <1>1 DEF Delivered, Targets, Untimed
<1>3. ASSUME NEW q \in Query PROVE AtMost(c, q, version) /\ ~ (serving[q] >= 0)
  BY <1>1 DEF AtMost, NoTargets, NewTarget, NotServed
<1> QED
  BY <1>2, <1>3 DEF TimeInv, InTime, Behind

(* When nothing is under way on an open stream and the server owes no      *)
(* snapshot, every view has what the server sent last and knows that it is *)
(* current: the WatchChangeAggregator drops no message that it should have *)
(* applied, also when a query is listened to again before the removal of   *)
(* its target was confirmed.                                               *)
THEOREM QuietIsInSync == SilentSpec => []QuietMeansInSync
<1>1. Init => TimeInv
  BY TimeInit
<1>2. ListenInv /\ ListenInv' /\ TimeInv /\ [Next]_vars => TimeInv'
  BY TimeStep
<1>3. TimeInv => QuietMeansInSync
  <2> SUFFICES ASSUME TimeInv, IsOpen(c), c.up = <<>>, c.down = <<>>, ~ dirty,
                      NEW q \in Targets(c), serving[q] >= 0
               PROVE  q \in c.synced /\ c.docs[q] = serving[q]
    BY DEF QuietMeansInSync
  <2>1. DOMAIN c.down = {} /\ Unasked(c, q)
    BY DEF Unasked
  <2>2. OnTheWay(c, q, serving[q], dirty) \/ Arrived(c, q, serving[q], dirty)
    BY <2>1 DEF TimeInv, InTime, Delivered
  <2>3. ~ OnTheWay(c, q, serving[q], dirty) /\ ~ Coming(c, dirty, 0)
    BY <2>1 DEF OnTheWay, Coming
  <2> QED
    BY <2>2, <2>3 DEF Arrived
<1> QED
  BY <1>1, <1>2, <1>3, ListenAlways, PTL DEF SilentSpec

(* What was told, or is about to be, is as new as it was asked for.        *)
Answered(es, cl, ask) ==
  /\ \A i \in DOMAIN es : es[i].from = "server" => ask[es[i].l] <= es[i].v
  /\ \A l \in Listener : cl[l].from = "server" => ask[l] <= cl[l].v

FreshInv ==
  /\ Fresh(c, asked) /\ Answered(c.events, called, asked)
  /\ \A l \in Listener : asked[l] <= version

(* Views that are fresh tell what is fresh.                                *)
LEMMA AnswerMore ==
  ASSUME NEW s \in ClientType, NEW r \in ClientType, NEW cl, NEW ask, Later(s, r),
         FreshViews(s, ask), Answered(s.events, cl, ask)
  PROVE  Answered(r.events, cl, ask)
<1> SUFFICES ASSUME NEW i \in DOMAIN r.events, r.events[i].from = "server"
             PROVE  ask[r.events[i].l] <= r.events[i].v
  BY DEF Answered
<1>1. PICK n, k, a, b : a = s.events /\ b = r.events /\ n = Len(a) /\ k = Len(b)
  OBVIOUS
<1>2. n \in Nat /\ k \in Nat /\ DOMAIN a = 1..n /\ DOMAIN b = 1..k
  BY <1>1, ClientFields
<1>3. i \in 1..n \/ i \in (n + 1)..k
  BY <1>1, <1>2
<1>4. CASE i \in 1..n
  <2>1. b[i] = a[i]
    BY <1>1, <1>4 DEF Later
  <2> QED
    BY <2>1, <1>1, <1>2, <1>4 DEF Answered
<1>5. CASE i \in (n + 1)..k
  <2>1. PICK e, q : e = b[i] /\ q = QueryOf[e.l]
    OBVIOUS
  <2>2. Tells(s, e)
    BY <2>1, <1>1, <1>5 DEF Later
  <2>3. e.l \in s.listeners /\ q \in s.synced /\ e.v = s.docs[q]
    BY <2>1, <2>2, <1>1 DEF Tells
  <2>4. ask[e.l] <= e.v
    BY <2>1, <2>3 DEF FreshViews, NewEnough
  <2> QED
    BY <2>1, <2>4, <1>1
<1> QED
  BY <1>3, <1>4, <1>5

(* A refusal has no data that could be stale.                              *)
LEMMA AnswerRefusals ==
  ASSUME NEW a \in Seq(Event), NEW es \in Seq(Event), NEW before, NEW after,
         Refusals(es, before, after), NEW cl, NEW ask, Answered(a, cl, ask)
  PROVE  Answered(a \o es, cl, ask)
<1>1. PICK b, n, k : b = a \o es /\ n = Len(a) /\ k = Len(es)
  OBVIOUS
<1>2. /\ n \in Nat /\ k \in Nat /\ DOMAIN a = 1..n /\ DOMAIN es = 1..k /\ DOMAIN b = 1..(n + k)
      /\ \A i \in 1..n : b[i] = a[i]
      /\ \A i \in (n + 1)..(n + k) : b[i] = es[i - n] /\ i - n \in 1..k
  BY <1>1
<1>3. ASSUME NEW i \in DOMAIN b, b[i].from = "server" PROVE ask[b[i].l] <= b[i].v
  <2>1. i \in 1..n \/ i \in (n + 1)..(n + k)
    BY <1>2
  <2>2. CASE i \in 1..n
    BY <2>2, <1>2, <1>3 DEF Answered
  <2>3. CASE i \in (n + 1)..(n + k)
    <3>1. PICK j : j = i - n
      OBVIOUS
    <3>2. j \in DOMAIN es /\ b[i] = es[j]
      BY <2>3, <3>1, <1>2
    <3>3. es[j].from = "error"
      BY <3>2 DEF Refusals
    <3> QED
      BY <3>2, <3>3, <1>3
  <2> QED
    BY <2>1, <2>2, <2>3
<1> QED
  BY <1>1, <1>3 DEF Answered

(* A listener that is added was told nothing, and is not told of a view    *)
(* that is older than itself.                                              *)
LEMMA AnswerAdd ==
  ASSUME ListenInv, ListenInv', ToldInv, FreshInv, NEW l \in Listener, AddQueryListener(l)
  PROVE  /\ Answered(c'.events, called', asked')
         /\ \A x \in Listener : asked'[x] <= version'
<1>1. Sound(c, serving) /\ c \in ClientType /\ c' \in ClientType
  BY DEF ListenInv, Sound, Attended
<1>2. PICK s \in ClientType :
        /\ s.events = c.events /\ s.listeners = c.listeners \cup {l}
        /\ s.docs = c.docs /\ s.synced \in SUBSET c.synced
        /\ QueryOf[l] \in s.synced => asked'[l] = 0
        /\ Later(s, c')
  BY <1>1, AddStep DEF ListenInv, AppTyped
<1>3. asked[l] = -1 /\ UNCHANGED <<called, version>>
  BY DEF AddQueryListener
<1>4. /\ l \notin c.listeners /\ called[l] = Nothing
      /\ \A i \in DOMAIN c.events : c.events[i].l # l
  BY <1>3 DEF ToldInv, Told
<1>5. PICK r, cl, ask : r = c' /\ cl = called' /\ ask = asked'
  OBVIOUS
<1>6. version \in 1..MaxVersion /\ asked \in [Listener -> -2..MaxVersion]
  BY DEF ListenInv, AppTyped
<1>7. ask[l] <= version /\ \A x \in Listener \ {l} : ask[x] = asked[x]
  <2>1. PICK k : k = IF QueryOf[l] \notin Targets(c) THEN version ELSE 0
    OBVIOUS
  <2>2. asked' = [asked EXCEPT ![l] = k]
    BY <2>1 DEF AddQueryListener
  <2>3. ask[l] = k /\ \A x \in Listener \ {l} : ask[x] = asked[x]
    BY <2>2, <1>5, <1>6
  <2>4. k <= version
    BY <2>1, <1>6
  <2> QED
    BY <2>3, <2>4
<1>8. Answered(s.events, cl, ask)
  <2>1. ASSUME NEW i \in DOMAIN c.events, c.events[i].from = "server"
        PROVE  ask[c.events[i].l] <= c.events[i].v
    <3>1. c.events[i] \in Event
      BY <1>1, ClientFields
    <3>2. c.events[i].l \in Listener \ {l}
      BY <3>1, <1>4 DEF Event
    <3>3. asked[c.events[i].l] <= c.events[i].v
      BY <2>1 DEF FreshInv, Answered
    <3> QED
      BY <3>2, <3>3, <1>7
  <2>2. ASSUME NEW x \in Listener, cl[x].from = "server" PROVE ask[x] <= cl[x].v
    <3>1. cl = called
      BY <1>3, <1>5
    <3>2. x # l
      BY <2>2, <3>1, <1>4 DEF Nothing
    <3>3. asked[x] <= called[x].v
      BY <2>2, <3>1 DEF FreshInv, Answered
    <3> QED
      BY <3>1, <3>2, <3>3, <1>7
  <2> QED
    BY <2>1, <2>2, <1>2 DEF Answered
<1>9. FreshViews(s, ask)
  <2> SUFFICES ASSUME NEW q \in s.synced, NEW x \in s.listeners, QueryOf[x] = q
               PROVE  ask[x] <= s.docs[q]
    BY DEF FreshViews, NewEnough
  <2>1. q \in c.synced /\ s.docs = c.docs /\ q \in Query /\ c.docs[q] \in Nat
    BY <1>1, <1>2, ClientFields, TargetFields
  <2>2. CASE x = l
    <3>1. ask[x] = 0
      BY <2>2, <1>2, <1>5
    <3> QED
      BY <2>1, <3>1
  <2>3. CASE x # l
    <3>1. x \in c.listeners /\ x \in Listener
      BY <2>3, <1>1, <1>2, ClientFields
    <3>2. asked[x] <= c.docs[q]
      BY <2>1, <3>1 DEF FreshInv, Fresh, FreshViews, NewEnough
    <3> QED
      BY <2>1, <2>3, <3>1, <3>2, <1>7
  <2> QED
    BY <2>2, <2>3
<1>10. Answered(r.events, cl, ask)
  <2>1. Later(s, r) /\ r \in ClientType
    BY <1>1, <1>2, <1>5
  <2> QED
    BY <2>1, <1>8, <1>9, AnswerMore
<1>11. ASSUME NEW x \in Listener PROVE asked'[x] <= version'
  <2>1. CASE x = l
    BY <2>1, <1>3, <1>5, <1>7
  <2>2. CASE x # l
    BY <2>2, <1>3, <1>5, <1>7 DEF FreshInv
  <2> QED
    BY <2>1, <2>2
<1> QED
  BY <1>5, <1>10, <1>11

(* An event is called back as it was raised.                               *)
LEMMA AnswerCallBack ==
  ASSUME c \in ClientType, called \in [Listener -> Event \cup {Nothing}],
         Answered(c.events, called, asked), CallBack
  PROVE  Answered(c'.events, called', asked')
<1>1. PICK e, a, b, n : a = c.events /\ e = Head(a) /\ b = Tail(a) /\ n = Len(a) - 1
  OBVIOUS
<1>2. /\ a # <<>> /\ c' = [c EXCEPT !.events = b] /\ asked' = asked
      /\ called' = called \/ called' = [called EXCEPT ![e.l] = e]
  BY <1>1 DEF CallBack
<1>3. a \in Seq(Event)
  BY <1>1, ClientFields
<1>4. /\ n \in Nat /\ DOMAIN a = 1..(n + 1) /\ DOMAIN b = 1..n /\ e = a[1]
      /\ \A i \in 1..n : b[i] = a[i + 1]
  BY <1>1, <1>2, <1>3
<1>5. c'.events = b
  BY <1>1, <1>2 DEF ClientType
<1>6. 1 \in 1..(n + 1) /\ \A i \in 1..n : i + 1 \in 1..(n + 1)
  BY <1>4
<1>7. \A i \in 1..(n + 1) : a[i].from = "server" => asked[a[i].l] <= a[i].v
  BY <1>1, <1>4 DEF Answered
<1>8. \A i \in 1..n : b[i].from = "server" => asked[b[i].l] <= b[i].v
  BY <1>4, <1>6, <1>7
<1>9. ASSUME NEW l \in Listener, called'[l].from = "server" PROVE asked[l] <= called'[l].v
  <2>1. CASE called'[l] = called[l]
    BY <2>1, <1>9 DEF Answered
  <2>2. CASE called'[l] # called[l]
    <3>1. l = e.l /\ called'[l] = e
      BY <2>2, <1>2
    <3>2. e.from = "server" => asked[e.l] <= e.v
      BY <1>4, <1>6, <1>7
    <3> QED
      BY <3>1, <3>2, <1>9
  <2> QED
    BY <2>1, <2>2
<1> QED
  BY <1>2, <1>4, <1>5, <1>8, <1>9 DEF Answered

(* Messages, targets and views stay fresh, whatever the step.              *)
LEMMA FreshStep ==
  ASSUME ListenInv, ListenInv', TimeInv, FreshInv, [Next]_vars
  PROVE  Fresh(c, asked)'
<1>1. PICK r, was, new : r = c' /\ was = asked /\ new = asked'
  OBVIOUS
<1>2. /\ c \in ClientType /\ Streamed(c) /\ Counts(c) /\ Replied(c) /\ r \in ClientType
      /\ was \in [Listener -> -2..MaxVersion] /\ Fresh(c, was) /\ Untimed(c)
  BY <1>1 DEF ListenInv, Sound, Attended, AppTyped, FreshInv, TimeInv, InTime
<1>3. ASSUME Fresh(r, new) PROVE Fresh(c, asked)'
  BY <1>1, <1>3
<1>4. CASE Steady(c, c', asked, asked')
  <2>1. Steady(c, r, was, new)
    BY <1>1, <1>4
  <2> QED
    BY <2>1, <1>2, <1>3, SteadyFresh
<1>5. CASE Severed(c, c', asked, asked')
  <2>1. Severed(c, r, was, new)
    BY <1>1, <1>5
  <2> QED
    BY <2>1, <1>2, <1>3, SeveredFresh
<1>6. CASE Reads(c, c') /\ UNCHANGED asked
  <2>1. Reads(c, r) /\ new = was
    BY <1>1, <1>6
  <2> QED
    BY <2>1, <1>2, <1>3, ReadFresh
<1>7. ASSUME NEW x, Served(x), UNCHANGED asked PROVE Fresh(c, asked)'
  <2>1. Sent(c, r, x) /\ new = was /\ (x.type \in News => x.q \in Query \ Denied /\ x.v = version)
    BY <1>1, <1>7 DEF Served
  <2>2. NewEnough(c, was, x.q, version)
    <3>1. \A l \in c.listeners : was[l] <= version
      BY <1>1, <1>2, ClientFields DEF FreshInv
    <3> QED
      BY <3>1 DEF NewEnough
  <2>3. x.type \in News => x.q \in Query \ Denied /\ NewEnough(c, was, x.q, x.v)
    BY <2>1, <2>2
  <2>4. Fresh(r, was)
    BY <2>1, <2>3, <1>2, SentFresh
  <2> QED
    BY <2>1, <2>4, <1>3
<1>8. CASE OthersWrite
  <2>1. r = c /\ new = was
    BY <1>1, <1>8 DEF OthersWrite, app
  <2> QED
    BY <2>1, <1>2, <1>3
<1> QED
  BY <1>2, <1>4, <1>5, <1>6, <1>7, <1>8, Moves

(* And so does what is told.                                               *)
LEMMA AnswerStep ==
  ASSUME ListenInv, ListenInv', ToldInv, FreshInv, Fresh(c, asked)', [Next]_vars
  PROVE  /\ Answered(c'.events, called', asked')
         /\ \A l \in Listener : asked'[l] <= version'
<1>1. /\ Sound(c, serving) /\ Serving(c, serving, dirty) /\ version \in 1..MaxVersion
      /\ c \in ClientType /\ c' \in ClientType /\ asked \in [Listener -> -2..MaxVersion]
      /\ called \in [Listener -> Event \cup {Nothing}]
  BY DEF ListenInv, Sound, Attended, AppTyped
<1>2. PICK r, cl, ask : r = c' /\ cl = called /\ ask = asked
  OBVIOUS
<1>3. /\ r \in ClientType /\ Answered(c.events, cl, ask) /\ FreshViews(c, ask)
      /\ \A l \in Listener : asked[l] <= version
  BY <1>1, <1>2 DEF FreshInv, Fresh
<1>4. ASSUME UNCHANGED <<app, version>>, Answered(r.events, cl, ask)
      PROVE  /\ Answered(c'.events, called', asked')
             /\ \A l \in Listener : asked'[l] <= version'
  <2>1. called' = cl /\ asked' = ask /\ version' = version
    BY <1>2, <1>4 DEF app
  <2> QED
    BY <2>1, <1>2, <1>3, <1>4
<1>5. ASSUME UNCHANGED <<app, version>>, Later(c, c')
      PROVE  /\ Answered(c'.events, called', asked')
             /\ \A l \in Listener : asked'[l] <= version'
  <2>1. Later(c, r)
    BY <1>2, <1>5
  <2>2. Answered(r.events, cl, ask)
    BY <2>1, <1>1, <1>3, AnswerMore
  <2> QED
    BY <2>2, <1>4, <1>5
<1>6. ASSUME UNCHANGED <<app, version>>, c'.events = c.events
      PROVE  /\ Answered(c'.events, called', asked')
             /\ \A l \in Listener : asked'[l] <= version'
  <2>1. Answered(r.events, cl, ask)
    BY <1>2, <1>3, <1>6
  <2> QED
    BY <2>1, <1>4, <1>6
<1>7. ASSUME NEW l \in Listener, AddQueryListener(l)
      PROVE  /\ Answered(c'.events, called', asked')
             /\ \A x \in Listener : asked'[x] <= version'
  BY <1>7, AnswerAdd
<1>8. ASSUME NEW l \in Listener, RemoveQueryListener(l)
      PROVE  UNCHANGED <<app, version>> /\ Later(c, c')
  <2>1. Later(c, c')
    BY <1>1, <1>8, RemoveStep
  <2> QED
    BY <2>1, <1>8 DEF RemoveQueryListener
<1>9. CASE CallBack
  <2>1. Answered(c'.events, called', asked')
    BY <1>1, <1>9, AnswerCallBack DEF FreshInv
  <2>2. asked' = asked /\ version' = version
    BY <1>9 DEF CallBack
  <2> QED
    BY <2>1, <2>2, <1>3
<1>10. CASE OnWatchStreamOpen
  <2>1. c'.events = c.events
    BY <1>1, <1>10, OpenStep
  <2> QED
    BY <2>1, <1>6, <1>10 DEF OnWatchStreamOpen
<1>11. CASE OnStreamRead
  <2>1. UNCHANGED <<app, version>>
    BY <1>11 DEF OnStreamRead
  <2>2. PICK t \in ClientType, es \in Seq(Event) :
          /\ Later(c, t) /\ t.listeners = c.listeners
          /\ \/ Shown(t, r)
             \/ r.events = t.events \o es /\ Refusals(es, c.listeners, r.listeners)
    BY <1>1, <1>2, <1>11, ReadStep
  <2>3. Answered(t.events, cl, ask)
    BY <2>2, <1>1, <1>3, AnswerMore
  <2>4. FreshViews(r, ask)
    <3>1. asked' = ask
      BY <2>1, <1>2 DEF app
    <3> QED
      BY <3>1, <1>2 DEF Fresh
  <2>5. CASE Shown(t, r)
    <3>1. /\ r.listeners = t.listeners
          /\ \E w \in ClientType : /\ w.events = t.events /\ w.listeners = t.listeners
                                   /\ w.docs = r.docs /\ w.synced = r.synced /\ Later(w, r)
      BY <2>5 DEF Shown
    <3>2. PICK w \in ClientType : /\ w.events = t.events /\ w.listeners = r.listeners
                                  /\ w.docs = r.docs /\ w.synced = r.synced /\ Later(w, r)
      BY <3>1
    <3>3. FreshViews(w, ask) /\ Answered(w.events, cl, ask)
      BY <3>2, <2>3, <2>4 DEF FreshViews, NewEnough
    <3>4. Answered(r.events, cl, ask)
      BY <3>2, <3>3, <1>3, AnswerMore
    <3> QED
      BY <3>4, <2>1, <1>4
  <2>6. CASE r.events = t.events \o es /\ Refusals(es, c.listeners, r.listeners)
    <3>1. t.events \in Seq(Event)
      BY <2>2, ClientFields
    <3>2. Answered(t.events \o es, cl, ask)
      BY <3>1, <2>2, <2>3, <2>6, AnswerRefusals
    <3> QED
      BY <3>2, <2>1, <2>6, <1>4
  <2> QED
    BY <2>2, <2>5, <2>6
<1>12. CASE BackoffElapsed
  <2>1. c'.events = c.events
    BY <1>1, <1>12, BackoffStep
  <2> QED
    BY <2>1, <1>6, <1>12 DEF BackoffElapsed
<1>13. CASE OnlineStateTimeout
  <2>1. Later(c, c')
    BY <1>1, <1>13, TimeoutStep
  <2> QED
    BY <2>1, <1>5, <1>13 DEF OnlineStateTimeout
<1>14. CASE IdleTimeout \/ StreamFails \/ ConnectivityChanged
  <2>1. Later(c, c')
    BY <1>1, <1>14, ClosingStep
  <2>2. UNCHANGED <<app, version>>
    BY <1>14 DEF IdleTimeout, StreamFails, ConnectivityChanged
  <2> QED
    BY <2>1, <2>2, <1>5
<1>15. CASE ServerActs
  <2>1. c'.events = c.events
    BY <1>1, <1>15, TakesStep, SendsStep DEF ServerActs
  <2>2. UNCHANGED <<app, version>>
    BY <1>15 DEF ServerActs, ServerTakes, ServerSnapshots, ServerSends
  <2> QED
    BY <2>1, <2>2, <1>6
<1>16. CASE OthersWrite
  <2>1. c' = c /\ called' = called /\ asked' = asked /\ version' = version + 1
    BY <1>16 DEF OthersWrite, app
  <2>2. ASSUME NEW l \in Listener PROVE asked'[l] <= version'
    <3>1. asked[l] \in -2..MaxVersion /\ asked[l] <= version
      BY <1>1, <1>3
    <3>2. asked[l] \in Int /\ version \in Int
      BY <3>1, <1>1
    <3> QED
      BY ONLY <3>1, <3>2, <2>1
  <2> QED
    BY <2>1, <2>2 DEF FreshInv
<1>17. CASE UNCHANGED vars
  BY <1>6, <1>17 DEF vars
<1> QED
  BY <1>5, <1>7, <1>8, <1>9, <1>10, <1>11, <1>12, <1>13, <1>14, <1>15, <1>16, <1>17
     DEF Next, ClientSteps

(* A get whose query nobody else listened to, answered "from the server",  *)
(* has data at least as new as the server's when it was called: the count  *)
(* of outstanding responses (IsActiveTarget, TargetState::IsPending) keeps *)
(* the messages of an earlier listen of the query from passing for its     *)
(* answer, through every removal, restart of the stream and loss of the    *)
(* network.                                                                *)
THEOREM AnswersStayFresh == SilentSpec => []AnswersAreFresh
<1>1. Init => ToldInv /\ TimeInv /\ FreshInv
  <2> SUFFICES ASSUME Init PROVE FreshInv
    BY ToldInit, TimeInit
  <2>1. /\ c.down = <<>> /\ c.target = NoTargets /\ c.synced = {} /\ c.events = <<>>
        /\ called = [l \in Listener |-> Nothing] /\ version = 1
    BY DEF Init
  <2>2. Fresh(c, asked)
    BY <2>1 DEF Fresh, FreshNews, FreshTargets, FreshViews, NoTargets, NewTarget
  <2>3. Answered(c.events, called, asked)
    BY <2>1 DEF Answered, Nothing
  <2>4. \A l \in Listener : asked[l] <= version
    BY <2>1 DEF Init
  <2> QED
    BY <2>2, <2>3, <2>4 DEF FreshInv
<1>2. ListenInv /\ ListenInv' /\ ToldInv /\ TimeInv /\ FreshInv /\ [Next]_vars
        => ToldInv' /\ TimeInv' /\ FreshInv'
  <2> SUFFICES ASSUME ListenInv, ListenInv', ToldInv, TimeInv, FreshInv, [Next]_vars
               PROVE  ToldInv' /\ TimeInv' /\ FreshInv'
    OBVIOUS
  <2>1. ToldInv' /\ TimeInv'
    BY ToldStep, TimeStep
  <2>2. Fresh(c, asked)'
    BY FreshStep
  <2>3. /\ Answered(c'.events, called', asked')
        /\ \A l \in Listener : asked'[l] <= version'
    BY <2>2, AnswerStep
  <2> QED
    BY <2>1, <2>2, <2>3 DEF FreshInv
<1>3. ListenInv /\ FreshInv => AnswersAreFresh
  <2> SUFFICES ASSUME ListenInv, FreshInv, NEW l \in Gets, called[l].from = "server"
               PROVE  called[l].v >= asked[l]
    BY DEF AnswersAreFresh
  <2>1. l \in Listener
    BY ListenAssumption
  <2>2. asked[l] <= called[l].v
    BY <2>1 DEF FreshInv, Answered
  <2>3. asked[l] \in -2..MaxVersion
    BY <2>1 DEF ListenInv, AppTyped
  <2>4. called[l] \in Event
    <3>1. called[l] \in Event \cup {Nothing} /\ called[l] # Nothing
      BY <2>1 DEF ListenInv, AppTyped, Nothing
    <3> QED
      BY <3>1
  <2>5. called[l].v \in Nat
    BY <2>4, ListenAssumption DEF Event, Version
  <2> QED
    BY <2>2, <2>3, <2>5
<1> QED
  BY <1>1, <1>2, <1>3, ListenAlways, PTL DEF SilentSpec
=============================================================================
