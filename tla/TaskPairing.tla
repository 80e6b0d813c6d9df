----------------------------- MODULE TaskPairing -----------------------------
(***************************************************************************)
(* The good-thing tasks: a user posts a task, the next day somebody's app  *)
(* fetches it, replies to it, and the poster, shown the reply, may make    *)
(* the two of them friends.  Signing in is here too, because it writes the *)
(* user documents friendship lives in.                                     *)
(*                                                                         *)
(* Each user has one device.  outbox[u] holds the Firestore writes device  *)
(* u issued and the server has not seen: they are sent in order and        *)
(* survive a restart of the app, but not a reinstallation.  The query for  *)
(* a task is answered from the device's cache, as Firestore's local store  *)
(* does: the server's message, when the device is online and one comes in  *)
(* time, has been put there first.  Reads of user documents and replies    *)
(* show the server, or fail.  A device's own pending writes are visible to *)
(* itself.  addFriend is a Firestore transaction and thus atomic.          *)
(***************************************************************************)
EXTENDS Integers, Sequences

CONSTANTS Users,
          AppleUsers,   \* those who sign in with Apple; the others by email
          TaskIds,      \* document ids still to be handed out
          LastDay,      \* bound: the calendar stops here
          Ranks,        \* values of randomSelectionValue, in order
          MaxOutbox,    \* bound: no user action while so many writes wait
          Roles,        \* bound: what each user does in an instance
          NoTask, NoUser

ASSUME TaskPairingAssumption ==
    /\ AppleUsers \subseteq Users
    /\ LastDay \in Nat \ {0}
    /\ Ranks \subseteq Nat
    /\ MaxOutbox \in Nat
    /\ Roles \in [Users -> SUBSET {"post", "fetch", "receive", "restart", "reinstall"}]
    /\ NoTask \notin TaskIds
    /\ NoUser \notin Users

VARIABLES
    day,          \* today, the same on every device
    registered,   \* users with a Firebase account: Auth.currentUser is set
    hasId,        \* users whose UserDefaults has "userId"
    accounts,     \* server: users with a document in UserAccountInfo
    users,        \* server: collection GoodThingUsers
    author,       \* per task: taskCreatorId, once the id was taken
    rank,         \* per task: randomSelectionValue
    postedOn,     \* per task: the day postTask ran
    lastFetched,  \* server: lastFetchedTime of each task, 0 if not there
    responses,    \* server: completerIds of each task's responses
    outbox,       \* per device: writes on their way
    saving,       \* devices waiting for saveUserInfoToFirestore's read
    loaded,       \* devices whose TasksViewController is loaded
    fetching,     \* per device: the day a running fetchTask captured, or 0
    found,        \* per device: the task that fetchTask was answered with
    hand,         \* per device: TasksViewController.task
    cached,       \* per device: lastFetchedTime of each task in Firestore's
                  \* cache, 0 if not there
    latest,       \* per device: UserDefaults "latestPostedTaskId"
    cut,          \* history: tasks whose poster's app ended between the two
                  \* notes of the task's id
    reception     \* per device: the TaskResponseReceptionViewController

accountVars == <<registered, hasId, accounts, saving>>
taskVars == <<author, rank, postedOn>>
serverVars == <<users, lastFetched, responses>>
pageVars == <<loaded, fetching, found, hand>>
diskVars == <<cached, latest, cut>>
deviceVars == <<pageVars, diskVars, reception>>
vars == <<day, accountVars, taskVars, serverVars, outbox, deviceVars>>

Days == 0 .. LastDay

UserDoc == [friends : SUBSET Users, latest : TaskIds \cup {NoTask}]

(* NoUser also stands for a missing document. *)
ASSUME NoDocument == NoUser \notin UserDoc

Write == [kind : {"account", "user", "task", "latest", "fetched", "response"},
          task : TaskIds \cup {NoTask},
          day : Days,
          by : Users \cup {NoUser},
          live : BOOLEAN]       \* its completion handler can still run

Closed == [stage |-> "closed", task |-> NoTask, completer |-> NoUser]

Reception == [stage : {"closed", "askUser", "askResponses", "shown"},
              task : TaskIds \cup {NoTask}, completer : Users \cup {NoUser}]

BlankUser == [friends |-> {}, latest |-> NoTask]

Init == /\ day = 1
        /\ registered = {} /\ hasId = {} /\ accounts = {} /\ saving = {}
        /\ users = [u \in Users |-> NoUser]
        /\ author = [t \in TaskIds |-> NoUser]
        /\ rank = [t \in TaskIds |-> 0]
        /\ postedOn = [t \in TaskIds |-> 0]
        /\ lastFetched = [t \in TaskIds |-> 0]
        /\ responses = [t \in TaskIds |-> {}]
        /\ outbox = [u \in Users |-> <<>>]
        /\ loaded = {}
        /\ fetching = [u \in Users |-> 0]
        /\ found = [u \in Users |-> NoTask]
        /\ hand = [u \in Users |-> NoTask]
        /\ cached = [u \in Users |-> [t \in TaskIds |-> 0]]
        /\ latest = [u \in Users |-> NoTask]
        /\ cut = {}
        /\ reception = [u \in Users |-> Closed]

-----------------------------------------------------------------------------
(* Issuing writes.                                                         *)

WriteOf(kind, t, d, u) ==
    [kind |-> kind, task |-> t, day |-> d, by |-> u, live |-> TRUE]

Room(u) == Len(outbox[u]) < MaxOutbox

Issue(u, ws) == outbox' = [outbox EXCEPT ![u] = @ \o ws]

(* lastFetchedTime of task t as device u sees it: its own latest write     *)
(* under way, else the copy in its cache.                                  *)
SeenFetched(u, t) ==
    LET own == {i \in DOMAIN outbox[u] : /\ outbox[u][i].task = t
                                         /\ outbox[u][i].kind \in {"task", "fetched"}}
    IN  IF own = {} THEN cached[u][t]
        ELSE outbox[u][CHOOSE i \in own : \A j \in own : j <= i].day

-----------------------------------------------------------------------------
(* Accounts.                                                               *)

UserWrite(u) == <<WriteOf("user", NoTask, 0, u)>>

(* rigister and its callback.  postUserData reads the two text fields a    *)
(* second time; if they are empty by then, no user document is written.    *)
Register(u) ==
    /\ u \notin AppleUsers \cup registered /\ u \notin hasId
    /\ Room(u)
    /\ registered' = registered \cup {u}
    /\ hasId' = hasId \cup {u}
    /\ Issue(u, UserWrite(u)) \/ UNCHANGED outbox
    /\ UNCHANGED <<day, accounts, saving, taskVars, serverVars, deviceVars>>

(* login, after a reinstallation: no document is touched. *)
Login(u) ==
    /\ u \in registered \ AppleUsers /\ u \notin hasId
    /\ hasId' = hasId \cup {u}
    /\ UNCHANGED <<day, registered, accounts, saving, taskVars, serverVars, outbox, deviceVars>>

(* Sign in with Apple: saveUserInfoToFirestore asks for the account's      *)
(* document, and at once the user is signed in.                            *)
SignInWithApple(u) ==
    /\ u \in AppleUsers /\ u \notin hasId
    /\ registered' = registered \cup {u}
    /\ hasId' = hasId \cup {u}
    /\ saving' = saving \cup {u}
    /\ UNCHANGED <<day, accounts, taskVars, serverVars, outbox, deviceVars>>

(* The callback of that read.  A read that fails counts as "no such user": *)
(* both documents are then written anew.                                   *)
SaveUserInfo(u) ==
    /\ u \in saving
    /\ Room(u)
    /\ saving' = saving \ {u}
    /\ \/ /\ u \in accounts
          /\ UNCHANGED outbox
       \/ Issue(u, <<WriteOf("account", NoTask, 0, u)>> \o UserWrite(u))
    /\ UNCHANGED <<day, registered, hasId, accounts, taskVars, serverVars, deviceVars>>

-----------------------------------------------------------------------------
(* Posting.                                                                *)

(* postTask with title and content: the document carries today's date. *)
PostTask(u, t, r) ==
    /\ u \in loaded /\ u \in hasId
    /\ author[t] = NoUser
    /\ Room(u)
    /\ author' = [author EXCEPT ![t] = u]
    /\ rank' = [rank EXCEPT ![t] = r]
    /\ postedOn' = [postedOn EXCEPT ![t] = day]
    /\ Issue(u, <<WriteOf("task", t, day, u)>>)
    /\ UNCHANGED <<day, accountVars, serverVars, deviceVars>>

AcknowledgeOnDevice(u, w) ==
    /\ latest' = IF w.live THEN [latest EXCEPT ![u] = w.task] ELSE latest
    /\ outbox' = [outbox EXCEPT ![u] = Tail(@)]

(* The write of a task is at the server.  Only then, and only if the app   *)
(* still runs, its completion handler stores the id on the device and      *)
(* issues the update of the user document.                                 *)
Acknowledge(u, w) ==
    IF w.live
    THEN /\ latest' = [latest EXCEPT ![u] = w.task]
         /\ outbox' = [outbox EXCEPT ![u] = Append(Tail(@), WriteOf("latest", w.task, 0, u))]
    ELSE /\ outbox' = [outbox EXCEPT ![u] = Tail(@)]
         /\ UNCHANGED latest

(* A write that dates a task is at the server; its answer makes the        *)
(* device's cache follow.                                                  *)
Dated(u, w) ==
    /\ lastFetched' = [lastFetched EXCEPT ![w.task] = w.day]
    /\ cached' = [cached EXCEPT ![u][w.task] = w.day]

(* The server applies the oldest write of device u. *)
Commit(u) ==
    /\ outbox[u] # <<>>
    /\ LET w == Head(outbox[u])
           Sent == outbox' = [outbox EXCEPT ![u] = Tail(@)]
       IN  \/ /\ w.kind = "account"
              /\ accounts' = accounts \cup {u}
              /\ Sent
              /\ UNCHANGED <<serverVars, cached, latest>>
           \/ /\ w.kind = "user"
              /\ users' = [users EXCEPT ![u] = BlankUser]
              /\ Sent
              /\ UNCHANGED <<accounts, lastFetched, responses, cached, latest>>
           \/ /\ w.kind = "task"
              /\ Dated(u, w)
              /\ Acknowledge(u, w)
              /\ UNCHANGED <<accounts, users, responses>>
           \/ /\ w.kind = "latest"     \* updateData fails on a missing document
              /\ users' = IF users[u] = NoUser THEN users
                          ELSE [users EXCEPT ![u].latest = w.task]
              /\ Sent
              /\ UNCHANGED <<accounts, lastFetched, responses, cached, latest>>
           \/ /\ w.kind = "fetched"
              /\ Dated(u, w)
              /\ Sent
              /\ UNCHANGED <<accounts, users, responses, latest>>
           \/ /\ w.kind = "response"
              /\ responses' = [responses EXCEPT ![w.task] = @ \cup {w.by}]
              /\ Sent
              /\ UNCHANGED <<accounts, users, lastFetched, cached, latest>>
    /\ UNCHANGED <<day, registered, hasId, saving, taskVars, pageVars, cut, reception>>

-----------------------------------------------------------------------------
(* Fetching and replying.                                                  *)

ShouldSelectAny(u) == u \in Users

(* The tab bar lets only a device with "userId" through to the tasks tab;  *)
(* any other is shown the login page.                                      *)
ShouldSelect(u) == u \in hasId

(* The tasks tab is chosen: viewDidLoad, once per run of the app, calls    *)
(* fetchTask, which captures today's date.  The task kept in UserDefaults  *)
(* is never used: its date is stored as Date().description and read back   *)
(* with "yyyy.MM.dd", which does not parse it.                             *)
OpenTasks(u) ==
    /\ ShouldSelect(u)
    /\ u \notin loaded
    /\ loaded' = loaded \cup {u}
    /\ fetching' = [fetching EXCEPT ![u] = day]
    /\ UNCHANGED <<day, accountVars, taskVars, serverVars, outbox, found, hand, diskVars,
                   reception>>

(* The app ended: its pages are gone, and so are the completion handlers   *)
(* that have not run.                                                      *)
Ended(u) ==
    /\ saving' = saving \ {u}
    /\ loaded' = loaded \ {u}
    /\ fetching' = [fetching EXCEPT ![u] = 0]
    /\ found' = [found EXCEPT ![u] = NoTask]
    /\ hand' = [hand EXCEPT ![u] = NoTask]
    /\ reception' = [reception EXCEPT ![u] = Closed]

WithoutHandlers(q) == [i \in DOMAIN q |-> [q[i] EXCEPT !.live = FALSE]]

Launch(u) ==
    /\ Ended(u)
    /\ outbox' = [outbox EXCEPT ![u] = WithoutHandlers(@)]
    /\ UNCHANGED <<day, registered, hasId, accounts, taskVars, serverVars, diskVars>>

(* The app ends inside postTask's completion handler: UserDefaults has the *)
(* id, the update of the user document was not issued.                     *)
CutShort(u) ==
    /\ outbox[u] # <<>>
    /\ LET w == Head(outbox[u])
       IN  /\ w.kind = "task" /\ w.live
           /\ Dated(u, w)
           /\ latest' = [latest EXCEPT ![u] = w.task]
           /\ cut' = cut \cup {w.task}
    /\ outbox' = [outbox EXCEPT ![u] = WithoutHandlers(Tail(@))]
    /\ Ended(u)
    /\ UNCHANGED <<day, registered, hasId, accounts, taskVars, users, responses>>

(* The app is deleted and installed again: its storage is gone, the        *)
(* Firebase sign-in, kept in the keychain, is not.                         *)
Reinstall(u) ==
    /\ Ended(u)
    /\ hasId' = hasId \ {u}
    /\ latest' = [latest EXCEPT ![u] = NoTask]
    /\ cached' = [cached EXCEPT ![u] = [t \in TaskIds |-> 0]]
    /\ outbox' = [outbox EXCEPT ![u] = <<>>]
    /\ UNCHANGED <<day, registered, accounts, taskVars, serverVars, cut>>

(* While the query of fetchTask runs, the server tells the device about a  *)
(* task that matches, or about one that matches in the cache and no longer *)
(* at the server.  (UserInfoViewController, the other page that reads      *)
(* tasks, is behind the friend list, which cannot be opened.)              *)
Refresh(u, t) ==
    /\ fetching[u] # 0 /\ found[u] = NoTask
    /\ lastFetched[t] # 0
    /\ fetching[u] - 1 \in {lastFetched[t], cached[u][t]}
    /\ cached' = [cached EXCEPT ![u][t] = lastFetched[t]]
    /\ UNCHANGED <<day, accountVars, taskVars, serverVars, outbox, pageVars, latest, cut,
                   reception>>

MatchesToday(u, d, r) == {t \in TaskIds : /\ SeenFetched(u, t) # 0
                                          /\ SeenFetched(u, t) = d
                                          /\ rank[t] > r}

MatchesOlder(u, d, r) == {t \in TaskIds : /\ SeenFetched(u, t) # 0
                                          /\ SeenFetched(u, t) < d
                                          /\ rank[t] > r}

(* The tasks the query of fetchTask matches: last fetched, or posted, on   *)
(* the day before d, with a random value above r.                          *)
Matches(u, d, r) == {t \in TaskIds : /\ SeenFetched(u, t) # 0
                                     /\ SeenFetched(u, t) = d - 1
                                     /\ rank[t] > r}

(* The query is answered with one of them, the one of the lowest value; or *)
(* with none, when the random value is above all others, when nothing was  *)
(* in the cache, on an error, and when the document does not decode.       *)
Answer(u, r) ==
    /\ fetching[u] # 0 /\ found[u] = NoTask
    /\ LET matches == Matches(u, fetching[u], r)
       IN  \/ /\ fetching' = [fetching EXCEPT ![u] = 0]
              /\ UNCHANGED found
           \/ \E t \in matches :
                 /\ \A x \in matches : rank[t] <= rank[x]
                 /\ found' = [found EXCEPT ![u] = t]
                 /\ UNCHANGED fetching
    /\ UNCHANGED <<day, accountVars, taskVars, serverVars, outbox, loaded, hand, diskVars,
                   reception>>

(* The callback of the query: the task is shown, and marked with the date  *)
(* captured when the query was made.                                       *)
FetchCallback(u) ==
    /\ found[u] # NoTask
    /\ Room(u)
    /\ hand' = [hand EXCEPT ![u] = found[u]]
    /\ Issue(u, <<WriteOf("fetched", found[u], fetching[u], u)>>)
    /\ found' = [found EXCEPT ![u] = NoTask]
    /\ fetching' = [fetching EXCEPT ![u] = 0]
    /\ UNCHANGED <<day, accountVars, taskVars, serverVars, loaded, diskVars, reception>>

(* replyTask: completerId is whatever UserDefaults has, nil included. *)
ReplyTask(u) ==
    /\ hand[u] # NoTask
    /\ Room(u)
    /\ Issue(u, <<WriteOf("response", hand[u], 0, IF u \in hasId THEN u ELSE NoUser)>>)
    /\ UNCHANGED <<day, accountVars, taskVars, serverVars, deviceVars>>

-----------------------------------------------------------------------------
(* The poster sees a reply and agrees.                                     *)

AskResponses(u, t) ==
    reception' = [reception EXCEPT ![u] =
                     [stage |-> "askResponses", task |-> t, completer |-> NoUser]]

Shown(u, t, v) ==
    reception' = [reception EXCEPT ![u] =
                     [stage |-> "shown", task |-> t, completer |-> v]]

(* viewDidLoad: the device's own note first, the user document otherwise. *)
OpenReception(u) ==
    /\ u \in loaded /\ u \in registered
    /\ \/ latest[u] # NoTask /\ AskResponses(u, latest[u])
       \/ /\ latest[u] = NoTask
          /\ reception' = [reception EXCEPT ![u] = [Closed EXCEPT !.stage = "askUser"]]
    /\ UNCHANGED <<day, accountVars, taskVars, serverVars, outbox, pageVars, diskVars>>

(* The callback of fetchLatestTaskIDFromFirebase; an error shows none. *)
LatestFromUserDoc(u) ==
    /\ reception[u].stage = "askUser"
    /\ \/ Shown(u, NoTask, NoUser)
       \/ /\ users[u] # NoUser /\ users[u].latest # NoTask
          /\ AskResponses(u, users[u].latest)
    /\ UNCHANGED <<day, accountVars, taskVars, serverVars, outbox, pageVars, diskVars>>

(* The responses of t device u sees, those that decode: a completerId. *)
Decoded(u, t) ==
    (responses[t]
     \cup {outbox[u][i].by : i \in {j \in DOMAIN outbox[u] :
                /\ outbox[u][j].kind = "response"
                /\ outbox[u][j].task = t}}) \ {NoUser}

(* The callback of fetchResponsesForTask: the last one in the order of the *)
(* document ids is shown, that is, any; an error shows none.               *)
ResponsesCallback(u) ==
    LET t == reception[u].task
    IN  /\ reception[u].stage = "askResponses"
        /\ \/ Shown(u, t, NoUser)
           \/ \E v \in Decoded(u, t) : Shown(u, t, v)
        /\ UNCHANGED <<day, accountVars, taskVars, serverVars, outbox, pageVars, diskVars>>

OneSided(poster, completer) ==
    [users EXCEPT ![completer].friends = @ \cup {poster}]

(* addFriend: each is added to the other's list, in one transaction. *)
Befriended(poster, completer) ==
    [u \in Users |->
        IF u \in {poster, completer}
        THEN [users[u] EXCEPT !.friends =
                 @ \cup (IF u = poster THEN {completer} ELSE {})
                   \cup (IF u = completer THEN {poster} ELSE {})]
        ELSE users[u]]

(* agreeButtonTapped.  The transaction does nothing unless both documents  *)
(* are there.                                                              *)
Agree(u) ==
    LET v == reception[u].completer
    IN  /\ u \in registered
        /\ v # NoUser
        /\ users[u] # NoUser /\ users[v] # NoUser
        /\ users' = Befriended(u, v)
        /\ UNCHANGED <<day, accountVars, taskVars, lastFetched, responses, outbox, deviceVars>>

Receive(u) == \/ OpenReception(u)
              \/ LatestFromUserDoc(u)
              \/ ResponsesCallback(u)
              \/ Agree(u)

Midnight ==
    /\ day < LastDay
    /\ day' = day + 1
    /\ UNCHANGED <<accountVars, taskVars, serverVars, outbox, deviceVars>>

Next ==
    \/ Midnight
    \/ \E u \in Users :
          \/ Register(u) \/ Login(u) \/ SignInWithApple(u) \/ SaveUserInfo(u)
          \/ Commit(u)
          \/ OpenTasks(u)
          \/ "post" \in Roles[u] /\ \E t \in TaskIds, r \in Ranks : PostTask(u, t, r)
          \/ "restart" \in Roles[u] /\ (Launch(u) \/ CutShort(u))
          \/ "reinstall" \in Roles[u] /\ Reinstall(u)
          \/ "fetch" \in Roles[u] /\ \E t \in TaskIds : Refresh(u, t)
          \/ "fetch" \in Roles[u] /\ \E r \in Ranks \cup {0} : Answer(u, r)
          \/ "fetch" \in Roles[u] /\ FetchCallback(u)
          \/ "fetch" \in Roles[u] /\ ReplyTask(u)
          \/ "receive" \in Roles[u] /\ Receive(u)

(* An issued write is retried until the server has it. *)
Fairness == \A u \in Users : WF_vars(Commit(u))

Spec == Init /\ [][Next]_vars /\ Fairness

-----------------------------------------------------------------------------
TypeOK ==
    /\ day \in Days \ {0}
    /\ registered \subseteq Users /\ hasId \subseteq registered
    /\ accounts \subseteq Users /\ saving \subseteq AppleUsers
    /\ users \in [Users -> UserDoc \cup {NoUser}]
    /\ author \in [TaskIds -> Users \cup {NoUser}]
    /\ rank \in [TaskIds -> Ranks \cup {0}]
    /\ postedOn \in [TaskIds -> Days]
    /\ lastFetched \in [TaskIds -> Days]
    /\ responses \in [TaskIds -> SUBSET (Users \cup {NoUser})]
    /\ outbox \in [Users -> Seq(Write)]
    /\ loaded \subseteq Users
    /\ fetching \in [Users -> Days]
    /\ found \in [Users -> TaskIds \cup {NoTask}]
    /\ hand \in [Users -> TaskIds \cup {NoTask}]
    /\ cached \in [Users -> [TaskIds -> Days]]
    /\ latest \in [Users -> TaskIds \cup {NoTask}]
    /\ cut \subseteq TaskIds \cup {NoTask}
    /\ reception \in [Users -> Reception]

(* The task a device or a user document names as the latest one posted is  *)
(* the user's own and is at the server, so the reception page never looks  *)
(* for replies to a missing or foreign task.                               *)
LatestIsPosted ==
    \A u \in Users :
        \A t \in {latest[u], reception[u].task}
                 \cup (IF users[u] = NoUser THEN {} ELSE {users[u].latest}) :
            t # NoTask => author[t] = u /\ lastFetched[t] # 0

(* Two users become friends only where a task brought them together: one   *)
(* posted it, the other replied to it and the reply reached the server.    *)
(* (A user who fetched and answered their own task may befriend            *)
(* themselves, even before that reply is at the server.)                   *)
FriendsThroughATask ==
    \A u \in Users : users[u] # NoUser =>
        \A v \in users[u].friends \ {u} :
            \E t \in TaskIds : \/ author[t] = u /\ v \in responses[t]
                               \/ author[t] = v /\ u \in responses[t]

(* addFriend's two lists agree: who has a friend with an email account is  *)
(* that user's friend too.  (An Apple user's list may be emptied by a sign *)
(* in whose read of UserAccountInfo failed.)                               *)
FriendsMutual ==
    \A u, v \in Users :
        (/\ users[u] # NoUser /\ v \in users[u].friends
         /\ v \notin AppleUsers)
            => users[v] # NoUser /\ u \in users[v].friends

(* Friendship comes from a task and is mutual.                             *)
FriendsSound == FriendsThroughATask /\ FriendsMutual

(* fetchTask hands out no task on the day it was posted, however late its  *)
(* query, its callback or the post itself reach the server.                *)
NotOnItsOwnDay ==
    \A u \in Users : hand[u] # NoTask => postedOn[hand[u]] < day

(* A reply never overtakes the mark that its task was fetched: a task with *)
(* a reply at the server is marked with a day after the one it was posted. *)
RepliedTaskIsMarked ==
    \A t \in TaskIds : responses[t] # {} => lastFetched[t] > postedOn[t]

(* Every reply says who completed the task: replyTask sends whatever       *)
(* UserDefaults has, and only the tab bar's gate, several pages earlier,   *)
(* makes sure that it has an id.                                           *)
RepliesSigned == \A t \in TaskIds : NoUser \notin responses[t]

(* Replies belong to a marked task and to somebody, in well-typed state.   *)
RepliesSound == TypeOK /\ RepliedTaskIsMarked /\ RepliesSigned

(* The dates task t has anywhere: at the server, in a device's cache, in a *)
(* write under way.                                                        *)
Dates(t) ==
    {lastFetched[t]} \cup {cached[u][t] : u \in Users}
    \cup UNION {{outbox[u][i].day : i \in {j \in DOMAIN outbox[u] :
                     /\ outbox[u][j].kind \in {"task", "fetched"}
                     /\ outbox[u][j].task = t}} : u \in Users}

(* Task t was posted, every copy of it is dated before yesterday, and no   *)
(* query under way asks for one of those dates or has found it.            *)
Expired(t) ==
    /\ author[t] # NoUser
    /\ \A d \in Dates(t) : d < day - 1
    /\ \A u \in Users : found[u] # t /\ (fetching[u] - 1) \notin Dates(t) \ {0}

(* A task nobody fetched in time is never handed out again, online or      *)
(* offline: fetchTask asks for yesterday's tasks only, and no late mark,   *)
(* refreshed cache or restarted app makes an old date younger.             *)
ExpiredForever ==
    [][\A t \in TaskIds : Expired(t) =>
           /\ Expired(t)'
           /\ \A u \in Users : hand'[u] = t => hand[u] = t]_vars

(* With no write under way, an email user's document names the same latest *)
(* task as the device, unless registration left the user without document  *)
(* or the app ended between noting the id here and there.                  *)
LatestAgreesWhenQuiet ==
    \A u \in Users \ AppleUsers :
        (/\ outbox[u] = <<>> /\ users[u] # NoUser
         /\ latest[u] \notin cut \cup {NoTask})
            => users[u].latest = latest[u]

(* The id of the latest task names a stored task of the user, and its two  *)
(* copies agree when no write of postTask is under way or was cut off.     *)
LatestSound == LatestIsPosted /\ LatestAgreesWhenQuiet

(* The latest task a device knows of reaches the user document, by a       *)
(* second write issued from the completion handler of the first, unless    *)
(* the device moves on to another task or is reinstalled, or the app ended *)
(* before that handler issued it.                                          *)
LatestReachesUserDoc ==
    \A u \in Users \ AppleUsers, t \in TaskIds :
        (latest[u] = t /\ users[u] # NoUser)
            ~> (latest[u] # t \/ t \in cut \/ (users[u] # NoUser /\ users[u].latest = t))
=============================================================================
