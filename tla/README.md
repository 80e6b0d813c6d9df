# GoodThing in TLA+

GoodThing (好事) is an iOS app in Swift on top of Firebase: Auth for accounts,
Firestore for documents, Storage for images and recordings. This directory
models the app's own code, `GoodThing/GoodThing/**/*.swift`, and the part of the
vendored Firestore client (`GoodThing/Pods/FirebaseFirestore/Firestore/core/src`)
the app's correctness rests on: its write queue, its transactions and its
listeners. The rest of `Pods/` (gRPC, BoringSSL, Abseil, leveldb, other Firebase
products), the Firestore server, UIKit and AVFoundation are left out or appear
only as the code uses them. The app has no tests and no design documents; the
expectations the models are held to come from the code, its comments and
assertions, and the texts the app shows to its users.

## Inventory

| Part | State | Operations | What is hard |
|---|---|---|---|
| Groups (揪團): `PostGroup`, `DetailGroup` | collection `GoodThingGroup`: limit, count, participants, deadline | post, join | a join is a read and a whole-document write without a transaction |
| Listing pages: `FetchGroup`, `GoodThingMemoryWall`, `MemoryWallDetailPage`, `FetchMemory` | one array and one table each | fetch once, listen, reload | fetch and listener answer in any order and change one array; the reload comes later |
| Tasks: `PostTask`, `Tasks`, `ReplyTask`, `TaskResponseReception` | collection `GoodThingTasks` with responses, `latestPostedTaskId` on the device and in the user document, the task on screen | post, fetch yesterday's task, reply, look at replies, befriend | marks and replies of several devices; two writes in a chain; midnight; restarts |
| Accounts: `UserSingup`, `UserLogin`, `MainTabBar` | Firebase account, `userId` in UserDefaults, `UserAccountInfo`, `GoodThingUsers` | register, log in, sign in with Apple, tab gate | account, account document and user document are written separately; failed reads |
| Friend list: `UserFriendList` | `friends` of the user document, rows | one read, then one read per friend | the list contains the empty id |
| Letters: `UserLetterWriting`, `UserFriendLetterList`, `UserFriendLetterDetail` | collection `Inbox`, one conversation per pair, letters below it | send, list | read, create conversation, add letter: three round trips |
| Audio memo in `PostTask` and `ReplyTask` | recorder, player, timer, buttons, upload | record, pause, store, play | callbacks of two engines and of a timer |
| Images in `PostTask`, `ReplyTask`, `PostMemory` | `imageURL` of the page | pick, upload, post | an upload that ends after the post |
| `MediaDownloader` and cells | files, image views | download | an answer for a cell that shows another row |
| User pages: `UserInfo`, `UserInfoEdition`, `UserProfile` | three arrays | three queries, one update | queries in any order |
| Exclusive tasks | two parallel arrays | add, toggle | the arrays must stay in step |
| Firestore client, writing: `SyncEngine`, `LocalStore`, `LevelDbMutationQueue`, `RemoteStore`, `WriteStream` | a persistent queue of batches per user, callbacks by batch id, a pipeline of ten, a stream | write, send, acknowledge, refuse, back off, idle, change of user, restart | answers carry no batch id; lost answers; ids given out again |
| Firestore client, transactions: `TransactionRunner`, `Transaction` | attempts left, versions read | run, look up, commit, retry | other writes between reads and commit; lost and late commits |
| Firestore client, listening: `EventManager`, `QueryListener`, `View`, `RemoteStore`, `WatchChangeAggregator`, `OnlineStateTracker` | listeners, views, targets, online state | listen, get, snapshot, time out, idle | messages of an earlier listen; events on two queues; timeouts |
| Firestore client, cache: overlays, indexes, garbage collection, bundles | leveldb tables | | below the promises used here |
| `AppDelegate`, scenes, animation | two windows | launch | a delayed block |

The parts interact through Firestore: a page writes documents that other
devices' pages read, listen to or write back. On one device they interact
through UserDefaults (`userId`, `latestPostedTaskId`), and pages get a copy of
a record from the page that opened them. All app code runs on the main thread;
concurrency is the order of callbacks and the steps of other devices.

What makes each part correct: a group never lists somebody twice, never takes
anybody beyond its limit and loses nobody who was told to be in it; a list
shows each document, in order, and the table never asks for a row that is not
there; a task is handed out on the day after it was posted or last fetched and
to nobody else later, replies belong to somebody, friendship is mutual and
comes from a task; the id of the latest task is the same in its two places; a
letter is in an existing conversation and reaches the friend it was written to;
a write is sent until it is answered and never overtakes an earlier one; a
transaction happens as a whole or not at all; a get is answered once, with data
that is not older than its call, and a listener catches up.

## What Firestore does, as far as the models need it

The same three assumptions are made wherever writes occur (`outbox`, `View`,
`Seen...`, `Commit`): the writes a device issues reach the server in the order
they were issued, are retried and survive the end of the app; a device sees
its own pending writes; a read may fail, and is answered some time before its
callback runs. A completion handler runs when its write is at the server, and
never if the app ended before that. A reinstallation empties the queue.

A get that finds no connection is answered from the cache. In `GroupJoin`,
`FeedList` and `Letters` this needs no cache: what a page is told then is what
the server had when the copy was made, or what the device wrote since, so the
behaviour is that of a read answered early whose callback comes late (and a
missing copy is an error, which `sendLetter` takes for "no such conversation").
`TaskPairing` has the cache of the tasks, because there a query depends on the
day on which it is asked. Its other reads need none: the responses shown may be any of those
stored, or none; `UserAccountInfo` may always seem to be missing; and a user
document's latest task is read only on an installation that has not posted one,
and no other device changes that field.

Three modules look below these assumptions. `WritePipeline` shows that the
client's code keeps the order, the retries, the survival of a restart and the
callbacks; `QueryListen` that a get is answered, from the server or from the
cache; `AddFriend` that `addFriend` may be taken for one step, as `Agree` of
`TaskPairing` does. That a device sees its own pending writes remains assumed.
One difference remains, too: in `WritePipeline` the server may apply a write
again whose answer was lost, and may refuse one; in the models of the pages
`Commit` stores every write once. `NewestWins` shows that a repeated write never
undoes a newer one of the same user, but it may overwrite what another device
stored between the two applications, which the pages' models only have for a
write that arrives late and not for one that was visible before. Refusals come
from security rules, which are not in the repository.

Fairness is assumed of exactly what these assumptions name: `Commit` (a queued
write is retried until it is stored), in `FeedList` the main queue (`Reload`)
and the delivery of snapshots to a listener that was not ended by an error
(`Hear`), in `MediaPost` the callbacks of recorder and Storage, and in the
modules of the client the worker queue, its timers and a server that answers
(each discussed below). No user action, no read of a
document and no callback of one is assumed to happen.

## Modules

### GroupJoin, GroupMembership, GroupJoinProofs

`GroupJoin` is `postGroup` and `modifyCurrentPeopleNumber` run by several
devices. `groups` is the server's collection, `outbox[d]` the issued `setData`
calls, `joins[d][t]` one tap on the join button: `Tap` asks for the document,
`Answer` is the server's read, `Callback` decides (joined, already a member,
full, no document) and issues the write, `Commit` stores it. The branch
"already a member" writes too, as in the code. A group's data is reduced to the
limit, the count and the participants. The user id is a constant function of
the device, because the code's is a default argument. TLC runs the instance with the one
id the app passes everywhere; the theorems hold for any ids, also one per device,
which the `TODO` above the function announces, except the refinement below.

`GroupMembership` is the promise: a group keeps its limit, and a join adds one
new member while there is room. With one id the devices together implement it
(`ImplementsMembership`), because a write of an outdated document either
repeats what is there or is the one join there can be. With an id per device
this fails: two joins read the same document and the second write removes the
first participant, after both saw 揪團加入成功！. What remains true then is
`GroupsSound` and `TermsKept`.

The page shows the deadline of a group as the end of entries (報名截止), but
`modifyCurrentPeopleNumber` does not look at it; the model has no deadline, and
`Tap` is possible at any time, as in the code.

### TaskPairing, TaskPairingProofs

One device per user. `outbox[u]` is its write queue, with `live` saying whether
the completion handler still exists. `author`, `rank` and `postedOn` are what a
task's document never changes, `lastFetched` is its `lastFetchedTime` (0: not
stored yet), `responses` the completers of its replies. `OpenTasks` is the gate
of the tab bar followed by `viewDidLoad`, `Answer` and `FetchCallback` are
`fetchTask`, whose date is captured when it is called. `ShouldSelect` is that
gate. `cached[u]` is the `lastFetchedTime` of each task in the device's Firestore
cache. The query is answered from it, own pending writes first; `Refresh`, any
number of times before the answer or not at all, is a message of the server that
brings the cache up to date, about a task that matches there or that matched in
the cache. A message that is never delivered and an answer without connection
are thus the same. The random value is drawn when the query is answered, so a refresh
may also concern a task below it, of which the server would not speak; this only
adds behaviours. The acknowledgement of a device's own write brings its cache up to date as
well (`Dated`). A failed or empty query and a document that does not decode are
one case, as the page does nothing for each of them. `Acknowledge` is the
completion handler of `postTask`, and `CutShort` the end of the app inside it,
between `UserDefaults.set` and `updateData`; the history variable `cut` keeps
the tasks this happened to, and the two properties about the latest id excuse
just those. `OpenReception`, `LatestFromUserDoc`,
`ResponsesCallback` and `Agree` are the reception page; `Agree` is atomic, which
`AddFriend` justifies. (In the storyboard no control calls
`agreeButtonTapped`; the model has the handler, as if its button were wired.)
`Register`, `Login`, `SignInWithApple` and `SaveUserInfo` are the accounts, as
far as they write documents. `Launch`, `CutShort` and `Reinstall` end the app.
`UserInfo`, which reads tasks as well, is behind the friend list and thus out of
reach (see `friend_list`).

`ExpiredForever` speaks of a task all of whose copies are older than yesterday.
The server's copy alone would not do: two devices fetch a task on one day, one of
them stays offline with its mark, the other fetches the task again the next day;
then the delayed mark takes the server back a day. A day later the server's copy is
older than yesterday, but the second device, started offline, is handed
the task from its cache, and its new mark brings the task back to everybody.
Titles, contents, pictures and recordings are left out; the empty id every
`friends` list starts with is left out here and is the subject of `FriendList`.
The task the page keeps in UserDefaults is never used by the code (its date does
not parse), so there is none in the model.

### FeedList, FeedListProofs

One page: `list` is its array, `rows` the number of rows the table counted at
its last reload, `fetch`/`answer` the one-time query, `heard` what the listener
was told. `Sortings` gives all results `sort(by:)` may have, since times have
minutes only and Swift promises no order among equals; the query's order among
equal times is left open in the same way. `page` says which of the four pages
it is and never changes: `Listed` and `Watched` are the filters of its two
queries (on the memory wall the fetch asks for public memories and the listener
for all), comments are listed oldest first, and the private memories have no
fetch. `overtaken` is a history variable: the documents the listener had brought
when the fetch was called back and that its answer, made before they were posted
or filtered more narrowly, was without. The callback removes their rows, and the
listener reports them only once. `HeardHasRow` says that these, and no others, are
the documents heard of that have no row.

### Letters, LettersProofs and FriendList

`Letters` is `sendLetter` with its three round trips and `fetchLetters`. The
receiver is the sender, as in the code, and `Ordered` gives what an
`order(by:)` query returns: documents that have the field. (The list asks for
`CreatedTime`, letters have `createdTime`, so the list is always empty.) A user may be their
own friend (by answering their own task). `FriendList` is the page through which the
letters are reached; a read that fails leaves it empty. As the run `friend_list` shows, today it ends the app
before any friend is shown; `Letters` describes the pages behind it as they
would run for a user whose document lists no empty id.

### AudioMemo, MediaPost, MediaPostProofs

`AudioMemo` is the recording part of `PostTask` and `ReplyTask`, whose code is
the same: buttons, recorder, player and the timer of the label. A timer that
`startTimer` overwrites while it is valid stays scheduled; the model keeps the
held timer's validity (`ticking`) and the number of the others (`orphans`).
`PlayerEnds` and `DidFinishPlaying` are two steps, since taps may come between
the end of the sound and the delegate's call. `Play` and `StareRecord` include
the failures the code handles (no player, no audio session). Three things are
assumed of AVFoundation: `configure` gets its recorder (without one the page's
first tap on record ends the app, as `audioRecorder` is unwrapped), `record()`
and `play()`, whose results the code ignores, succeed, and nothing interrupts
either engine. `ClockHasReason` and `OrphansFromPlayback` rest on the second and
the third: `startTimer` is called whatever `record()` returned, so after a
resume that failed, or under an interruption, the clock runs over silence.
`NotOverItself` does not rest on them.

`MediaPost` extends it with the rest of the page: images, the upload of a
finished take, the post button and the label. `page` says which of the three
pages it is; `PostMemory` has no recorder, and each page has its own texts.
An upload is two round trips, `ImageSent` and `ImageLinked`, `AudioSent` and
`AudioLinked`, and each may fail. Posts take whatever links the page has by
then, also those of an earlier post. Contents of recordings are not modelled,
so that a take uploaded under a name in use (the same user's earlier one, or,
for replies, anybody's) changes nothing: links resolve, but the model does not
say to which recording. Fairness: the delegate of the recorder is called, and
uploads and URL requests end, if only because their retries run out.

### Stream, WriteQueue, WritePipeline, WritePipelineProofs

`Stream` has the state machine both streams share (`remote/stream.cc`) as
operators on a record: starting, credentials, backoff, open, idle, closed.
The connection is part of the record (`up`, `down`): it delivers in order, and
what it had not delivered is lost with it.

`WritePipeline` is a write from `SyncEngine::WriteMutations` to its answer.
`queue[u]` is the mutation queue in the database, `callbacks[u]` the callbacks
by batch id, and `rs` the stream and the pipeline of `RemoteStore`. Everything
runs on one worker queue, so a handler with all it calls is one action; since
calls nest (closing a stream refills the pipeline, which starts the stream),
handlers are operators on `rs`. `Seek` is where an iterator over the batch keys
of a queue stands; refilling the pipeline and removing a batch both go by it.
Failures, changes of network and user, kills of
the app and stale tokens happen `MaxTrouble` times in any combination. The
server takes the requests of a stream in order, refuses a write only with a
permanent error that ends the stream, never ends a stream with status OK, and
sends no permanent error for another reason (so `HandleHandshakeError`'s reset
of the stream token is left out, as the token is).

`WriteQueue` is the promise in terms of writes alone: one queue per user that
survives a restart, applied in order, from the head again after a lost
connection, answered from the head. The refinement mapping is `Pending` (the
writes of the queued batches), `Ahead` (the results under way on an established
stream) and `Listening` (the writes whose callback is stored). `KeepsPromise` says that the client
implements it, its liveness (every write of the user who stays signed in is
answered) included.

### Friendship, AddFriend, AddFriendProofs

`AddFriend` is `addFriend` of the reception page on top of `TransactionRunner`
and `Transaction`: an attempt reads the two documents one after the other,
remembers their versions, computes both lists and sends one commit with the
versions as preconditions; a failed attempt is run again while attempts are
left and the error allows it. `wire` has the commit requests, also those of
attempts the client gave up, which may arrive late. A permanent error of a
lookup or a commit means that nothing was applied. `OtherWrite` is any write of
other pages to these documents that leaves the friends alone: the creation of a
document, the profile's `updateUserInfo`, the note of the latest task. The write
that does not, `saveUserInfoToFirestore` of a user it takes for a new one after a
failed read, is in `TaskPairing` only, where `FriendsMutual` says what it costs;
what is checked and proved here holds as long as it does not happen. `both` is a ghost:
the requests that began when both documents existed. `Friendship` is the promise: documents
appear, and a whole friendship is added in one step.

### QueryListen, QueryListenProofs

`getDocument(s)` and `addSnapshotListener`: `c` is the client, with the watch
stream, the online state and its timer, the aggregator's `target`s, listeners,
views (`synced`: current; `docs`: the newest version received) and the events
enqueued to the main queue, where `CallBack` runs them. A get is a listener that
mutes and removes itself at its first event; the app never removes its snapshot
listeners. Data is a version number; the documents of a query and CURRENT come
in one message. The server answers requests in order, ignores an unwatch of a
query it does not serve, sends a snapshot only when every query watched is
current, and never goes back in time. The last-but-one is what makes the flag
`current_`, which a repeated listen does not reset, harmless. Documents of
deleted listens, existence filters, limbo and resume tokens are not modelled: a
query is sent anew on every stream.

## Runs

| Run | Instance | Shows |
|---|---|---|
| `group_join_shipped` | 2 devices, 2 taps each, 1 group, limits 3, 4 and 5, one id | joins behave as atomic ones and arrive |
| `task_fetch` | 2 users, 1 task, 4 days | the day of a fetch, marks before replies, expiry, signed replies |
| `task_friends` | an Apple and an email user, 2 tasks, 2 days | friendship, the id of the latest task |
| `feed_list` | each of the 4 pages with 3 documents, 2 of the same minute | order, accounting and range of rows, new documents appear |
| `letters_send` | 2 users, 2 letters | conversations and arrival |
| `letters_receiver` (violation) | the same | the wrong receiver |
| `media_post` | each of the 3 pages, 2 images, 2 takes, 1 timer left behind | recorder and player, timers, links, label, a stored take gets its link |
| `friend_list` (violation) | 2 friends | the empty id |
| `write_pipeline` | 2 users, 3 writes, a pipeline of 2, 3 troubles | stream, pipeline, queue and callbacks in step, nothing stranded, order, the promise of `WriteQueue` |
| `add_friend` | 2 requests of 2 attempts, 5 pairings of 3 users, 1 other write | faithful copies, whole friendships, told is true, requests end |
| `query_listen` | 2 queries, one refused; 2 listeners at a time; 2 versions; 1 failure or change of network | counts of responses, reasons to wait, fresh and single answers, listeners catch up |
| `query_silent` (violation) | the same, no failure, a silent server | `Unknown` lasts for ever |

Why the bounds are enough: overlapping joins need two devices, and a limit just
above the founders makes them compete for the last place; limits 3 and 4 are groups
that are full from the start. Four days let a mark be late by a day, a task
expire at the server and not in a cache, and a query made before midnight be
answered after it. Two tasks make
"latest" change. Three documents with a tie let the fetch miss one, the
listener bring one twice, and order matter. Two takes and two images let a
callback of the first come after the second was begun; one timer left behind
is all the clock's properties tell apart. `MaxOutbox` = 2 lets writes pile
up; `Roles` says who does what in an instance of `TaskPairing` and keeps the
number of interleavings down. In `task_friends` the constraint `FirstTaskFirst` stands
for symmetry, which TLC cannot use beside liveness: the two task ids are
interchangeable, and only behaviours that use the other one first are left out (no
fairness concerns the post that is). Three writes over a pipeline of two (ten in the
code) leave one outside; three troubles are enough for a write of the first
user, a sign-in, a restart and the way back. Two attempts are a first and a
repeated one; the pairings include the same pair from both sides, pairs that
share a user, and a user paired with themselves. `MaxAttempts` is 5 in the
code, `kMaxWatchStreamFailures` is the code's 1. With two gets of one query the second may
begin at any point of the first's life, which is where old messages are met; the
safety properties were also tried with two failures. Deadlock is not checked:
the users may stop, and the bounds end every behaviour.

Fairness of the client's modules: the worker queue runs what is enqueued, timers
fire, credentials arrive, and a server that is reached answers. Failures are
finite in number in `WritePipeline` and `QueryListen`; in `AddFriend` every call
may fail, and only the attempts are bounded. `WritePipeline` has one strong
fairness: a stream that keeps being told that its token is stale is told so at
least once before the ten seconds of the health check, since a later refusal
does not give the token back. `query_silent` assumes nothing of the server.

Properties are stated to be exact about what goes wrong. `RowsInRange` and
`HeardHasRow` name the one situation in which a row is out of range or lost:
the callback of the fetch replaced rows of documents its answer did not have. `FriendsMutual`
leaves out friends who sign in with Apple: a failed read of `UserAccountInfo`
empties such a user's document. `LatestAgreesWhenQuiet` leaves them out too.
Several runs check conjunctions, whose parts are named and commented in the
modules (`PipelineInStep`, `StreamInStep`, `CallbacksInStep`, `PromisedOrder`,
`ClientInStep`, `RepliesSound`, `FriendsSound`, `LatestSound`, `ListSound`,
`LettersSound`, `PostsHonest`); type invariants are checked as parts of these,
that of `GroupJoin` is proved.

## Proofs

`GroupJoinProofs` proves, for any devices, taps, ids, limits and groups,

- `TypeCorrect`: `Spec => []TypeOK`;
- `GroupsStaySound`: `Spec => []GroupsSound`;
- `TermsAreKept`: `Spec => TermsKept`;
- `OneIdJoinsAreAtomic`: `Spec => ImplementsMembership`, if all devices join
  with one id (`OneId`), as those of the app do.

The assumptions are those of `GroupJoin` on its constants. The argument for the
second: a document lives in several places, at the server, in queues and in the
hands of callbacks, and every step only copies documents between them except
two, `PostGroup`, which makes a sound one, and `Callback`, which may add a
participant to a copy. `IsCopy` names the places and `CopyStep` says just
this: a copy after a step was a copy before it, or is new, or is
`AddParticipant` of an earlier copy by somebody who could join. Soundness of all copies is then
inductive, whereas soundness of the server's document alone is not.
For the third, `OneLimit` (all copies of a group state one limit) is the
inductive invariant; it needs `ReadPosted` (a callback holds a document only of
a group that is stored), which rules out that an id is taken twice.

The fourth is a refinement, and false without its hypothesis (see above). With one
id there are only two kinds of documents, the posted one and the posted one with
the user appended (`TwoKinds`), so a commit can do harm only by storing the
posted one late. `PostFirst` says that the posted document is the first of a
group to be stored, whatever else waits behind it on its device, and `PostOnce`
that it is written once, unless the id is a founder's, when nobody can join and all
copies are equal. A commit is then the post, the one join, or a stutter; that
there was room for the join is `GroupsSound` of the document written, not of the
one replaced.

`MediaPostProofs` proves, for any images and bounds, `NeverOverItself`
(`Spec => []NotOverItself`), `ClockAlwaysHasReason` (`Spec => []ClockHasReason`)
and `OrphansOnlyFromPlayback` (`Spec => OrphansFromPlayback`). The inductive
invariant is `PageInv`: `ClockHasReason` with `TakeLocksPlayer`, that from the
start of a take to `storeRecord`, pauses included, play is disabled and the
player is silent. Neither property is inductive alone: a play button left
enabled during a pause would start the player, and a resume that fails over a
running player would leave its timer ticking for no reason.

`AddFriendProofs` proves, for any users, requests, pairings, attempts and other
writes,

- `TypeCorrect`: `Spec => []TypeOK`;
- `CopiesStayFaithful`: `Spec => []CopyInv`;
- `ImplementsFriendship`: `Spec => AtomicFriendship`, the refinement;
- `FriendsStayMutual`: `Spec => []FriendsMutual`.

`CopyInv` is the inductive invariant: beside the types, `CopiesFaithful` (a copy
with the document's present version has the document's contents, whether it is
held by an attempt or travels in a commit request) and `IdleHasAttempts`, which
keeps the counter of attempts from going below zero. `NewVersion` is the heart
of its step: whoever changes a document raises its version, so every older copy
becomes recognisably old. `CommitEffect` and `CommitBefriends` turn a commit
whose preconditions hold into one `Befriend` of `Friendship`, since its lists
were computed from the very documents it replaces; every other step changes no
list (`NextBefriends`). That friendship is mutual then follows from
`Friendship` alone (`MutualStep`).

`DoneMeansFriendsAlways` (`Spec => []DoneMeansFriends`) adds `AppliedInv`: from
the moment the server applied a commit, its answer heard or not, the two are
friends, and no step takes a friend away (`ListsGrow`).

`LettersProofs` proves `LettersStaySound` (`Spec => []LettersSound`) for any
users, letters and conversations. The invariant `OrderInv` speaks of positions in
the senders' queues: a letter in a queue has its conversation at the server or
before it in the same queue (`WritesInOrder`), and a conversation that a read
found is at the server or ahead in the queue, and stays so (`FoundStays`). Without the queues the property is not
inductive, since the letter and its conversation travel as two writes.

`MediaPostProofs` further proves `PostsStayHonest` (`Spec => []PostsHonest`), types
included. `HonestInv` adds that links the page holds, or will hold when a URL
request is answered, resolve (`HeldLinksResolve`), and that takes and uploads are
counted within their bounds (`TakesAccounted`).

`TaskPairingProofs` proves, for any users, tasks, days, ranks and roles,

- `NeverOnItsOwnDay`: `Spec => []NotOnItsOwnDay`;
- `RepliesStaySound`: `Spec => []RepliesSound`;
- `ExpiredStaysExpired`: `Spec => ExpiredForever`;
- `LatestStaysSound`: `Spec => []LatestSound`;
- `FriendsStaySound`: `Spec => []FriendsSound`.

The assumptions are `TaskPairingAssumption` and `NoDocument` (the value that
stands for a missing document is not a document). `StepShape` reduces every
action to what it does to one device's queue (`QueueStep`), to the server
(`ServerStep`) and to the accounts (`AccountStep`), and three invariants build on
each other. `FetchInv` says of every queued write what is stored already or
queued before it (`Stored`, `Marked`), that a task's id is written once, and what
a page may hold; a mark is thus never overtaken by its reply. `LatestInv` adds
that the latest id is at the server or on its way with nothing behind it that
would undo it, `FriendsInv` that whoever is shown as a completer has replied.
A part of `FetchInv`, `CacheSound`, says that a task in a cache is at the server
and dated no earlier than its post. For `ExpiredForever` the lemma `DatesStep`
follows the dates of a task over all their places: a posted task that no page has
found gets no new date. What a query sees is one of the dates (`SeenIsADate`),
those of an expired task are too old to be asked for, and days never go back, so no
page finds it. `LatestInv` excuses a task whose handler was cut short, and no
other.

`FeedListProofs` proves, for any documents, times and pages, `ListStaysSound`,
`RowsStayAccounted`, `HeardKeepsRow` and `RowsStayInRange` (each
`Spec => []` of the property of that name: `ListSound`, `RowsAccounted`,
`HeardHasRow`, `RowsInRange`), the third as an equivalence: a document heard of
has a row if and only if the fetch's callback did not remove it. They are proved together, as `ListInv`, which adds
`LengthKept`: until the fetch is called back the list has exactly the documents
heard, and the table no more rows than that. Counting rows is a matter of
cardinalities (`CountRows`, `CountAppended`, `SortingsRows`): a sort permutes the
rows, and a row more raises one count by one.

`WritePipelineProofs` proves, for any users, writes, length of the pipeline and
number of failures,

- `StreamStaysInStep`, `PipelineStaysInStep`, `NoWriteStaysStranded` and
  `CallbacksStayInStep`: `Spec => []` of `StreamInStep`, `PipelineInStep`,
  `NoWriteIsStranded` and `CallbacksInStep`;
- `ImplementsWriteQueue`: `Spec => Promise!Init /\ [][Promise!Next]_(Promise!vars)`,
  the safety part of `KeepsPromise`;
- `OrderIsKept`: `Spec => []PromisedOrder`.

The only assumption is `LimitAssumption`. The inductive invariant `WriteInv` has
four parts: the database (queues ascend in ids and writes, ids are unique over
all users and below the next one, callbacks belong to queued batches); the type
of `rs`; the shape of the wire in each state of the stream (`StreamSound`: an
established stream carries the results, the refusal and the requests of its
pipeline, in this order); and that the pipeline is not just some head of the
queue but all of it that fits (`Filled`). The last is what makes the pipeline
after a refill predictable: the properties alone say too little of it to be kept
by `FillWritePipeline`. That ids given out again stay unique needs that
`LoadNextBatchIdFromDb` finds the greatest id, hence `GreatestNatural`, from the
well-foundedness of the naturals. Each handler is then shown to be one action of
`WriteQueue` or to change nothing there (`PromiseStep`). `OrderIsKept` is proved
of `WriteQueue`'s steps alone, with `HistoryInv`: what was answered is older than
all that waits, the writes whose results are under way were applied, each after
the last application of any older write of the user. It is the last clause that
makes `NewestWins` hold when a write leaves the queue.

`QueryListenProofs` proves of `SilentSpec`, hence also of `Spec`, which only adds
fairness of the server, for any queries, listeners, refusals and failures,

- `ClientStaysInStep`: `SilentSpec => []ClientInStep`;
- `CountsStayExact`: `SilentSpec => []CountsExact`;
- `NobodyWaitsInVain`: `SilentSpec => []WaitingHasReason`;
- `GetIsCalledOnce`: `SilentSpec => GetCalledOnce`;
- `QuietIsInSync`: `SilentSpec => []QuietMeansInSync`;
- `AnswersStayFresh`: `SilentSpec => []AnswersAreFresh`.

The only assumption is `ListenAssumption`. The handlers are operators on the
record `c`, so each has a lemma of its own that says what it changes (`RaiseShape`
to `RestartShape`, `RequestShape`, `ConfirmShape`, ...), and the steps combine them. The
inductive invariant `ListenInv` needs, besides the properties, what is on the
wire: a stream that is not open carries nothing (`Streamed`), the server confirms
what it does not refuse (`Replied`), and, for the count, that it is never asked to
forget a query it does not serve, since it would not answer and the count would
stay behind. `Requested` says this with a history `h` along the requests sent:
`h[i]` tells whether the server will serve the query after the first `i` of them.
`GetIsCalledOnce` adds `ToldInv`: a refusal, after which a get is not muted, is the
last event of its listener.

The last two theorems are about data, and neither property is inductive: both
need to know what the messages still on the wire will do. `FreshInv` says of every
message with news, every target that gathered some and every view in sync that it
is as new as each of its listeners asked for, unless a request or a confirmation
of the query is still behind the message: that is a message of an earlier listen,
and by `CountsExact` it finds its target waiting and is dropped (`ActiveSettled`).
`TimeInv` says of each query the server serves, and has no further request for,
that its newest documents are on their way to a target that is current by then
with a snapshot behind them (`OnTheWay`), or were gathered or shown (`Arrived`).
It also needs that the client is never ahead of what it was sent (`Behind`), since
a snapshot shows only newer documents, and that the timer of the online state has
stopped once a target is current (`Untimed`), since going offline takes views out
of sync. The steps are of five kinds (`Moves`): nothing arrives (`Steady`), the
stream is cut (`Severed`), a message is read (`Reads`), the server sends (`Sent`),
others write; each kind has one lemma for each of the two invariants.

Only model-checked: all liveness, the liveness part of `KeepsPromise` included,
which is out of the prover's reach.

## Findings

- A letter is addressed to its sender (`letters_receiver`); a comment in the
  code remembers it.
- The friend list asks for `document("")`, which Firestore answers with an
  exception (`friend_list`).
- In the Firestore client, a get may leave the online state `Unknown` without
  the timeout the comments promise (`query_silent`): a first get times out and
  is answered from the cache while the stream is still starting; its removal
  resets the state to `Unknown` and the timer; a second get finds the stream
  started and starts neither stream nor timer. With a server that stays silent
  it is never answered.

Seen in the code and present in the models without a run of their own: joins
are accepted after the deadline shown as 報名截止, and the letter list orders
by a field letters do not have.

## Not modelled, and the plan

Layout, cells, scrolling, animation, the preview pages and the launch of the
app have no state worth a model. Of the Firestore client: `waitForPendingWrites`,
`enableNetwork` and `disableNetwork` (the app calls none of them), stream and
resume tokens, limbo documents, existence filters, limits, aggregates, bundles,
overlays, indexes and garbage collection. The rest of `Pods/`, by far most of the
repository's lines, is third-party code whose behaviour the models take as
external. In this order the project goes on with

1. `MediaDownload`: downloads answered after the cell was reused; the file that
   exists already, which `moveItem` refuses.
2. `Accounts`: nonce, spinner (left running by a failed login), alerts and gate
   of the sign-in pages, as a refinement of the account steps of `TaskPairing`.
3. `UserInfo`, placeholder texts (accepted as content) and exclusive tasks.
