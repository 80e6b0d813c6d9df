----------------------------- MODULE WriteQueue -----------------------------
(***************************************************************************)
(* What the Firestore client promises the pages of the app about the       *)
(* writes they issue (setData, updateData, addDocument): the writes of one *)
(* user wait in one queue that survives a restart, reach the server in the *)
(* order they were issued, and leave the queue from its head, acknowledged *)
(* or refused.  A lost connection makes the server see again, from the     *)
(* head of the queue, what it had not yet acknowledged.                    *)
(*                                                                         *)
(* A write is its number in the order of issue.  WritePipeline shows that  *)
(* the client's code keeps these promises.                                 *)
(***************************************************************************)
EXTENDS Naturals, Sequences

CONSTANTS User,       \* the accounts that sign in on the device
          MaxWrites   \* bound on the number of writes issued

VARIABLES issued,     \* issued[w]: the user who issued write w
          user,       \* the user signed in
          pending,    \* pending[u]: the writes of u not yet answered
          ahead,      \* how many of the user's writes this connection applied
          log,        \* the writes in the order the server applied them
          listening,  \* the writes whose completion a page waits for
          told        \* told[w]: what that page was told

vars == <<issued, user, pending, ahead, log, listening, told>>

Write == 1..MaxWrites
Range(s) == {s[i] : i \in DOMAIN s}

Init ==
  /\ issued = <<>>
  /\ user \in User
  /\ pending = [u \in User |-> <<>>]
  /\ ahead = 0
  /\ log = <<>>
  /\ listening = {}
  /\ told = [w \in Write |-> "nothing"]

Issue ==
  /\ Len(issued) < MaxWrites
  /\ issued' = Append(issued, user)
  /\ pending' = [pending EXCEPT ![user] = Append(@, Len(issued) + 1)]
  /\ listening' = listening \cup {Len(issued) + 1}
  /\ UNCHANGED <<user, ahead, log, told>>

\* The server applies the writes of a connection one after the other.
Apply ==
  /\ ahead < Len(pending[user])
  /\ ahead' = ahead + 1
  /\ log' = Append(log, pending[user][ahead + 1])
  /\ UNCHANGED <<issued, user, pending, listening, told>>

Tell(w, outcome) ==
  /\ told' = IF w \in listening THEN [told EXCEPT ![w] = outcome] ELSE told
  /\ listening' = listening \ {w}

Acknowledge ==
  /\ ahead > 0
  /\ pending' = [pending EXCEPT ![user] = Tail(@)]
  /\ ahead' = ahead - 1
  /\ Tell(Head(pending[user]), "done")
  /\ UNCHANGED <<issued, user, log>>

Refuse ==
  /\ ahead = 0
  /\ pending[user] # <<>>
  /\ pending' = [pending EXCEPT ![user] = Tail(@)]
  /\ Tell(Head(pending[user]), "refused")
  /\ UNCHANGED <<issued, user, ahead, log>>

\* The connection is lost, with the answers still under way.
Disconnect ==
  /\ ahead' = 0
  /\ UNCHANGED <<issued, user, pending, log, listening, told>>

SignIn(u) ==
  /\ user' = u
  /\ ahead' = 0
  /\ UNCHANGED <<issued, pending, log, listening, told>>

\* The app is killed and started again: nobody waits any more.
Restart ==
  /\ ahead' = 0
  /\ listening' = {}
  /\ UNCHANGED <<issued, user, pending, log, told>>

Next ==
  \/ Issue \/ Apply \/ Acknowledge \/ Refuse \/ Disconnect \/ Restart
  \/ \E u \in User : SignIn(u)

Answered == Acknowledge \/ Refuse

\* Every write of the user who stays signed in is answered in the end.
Spec == Init /\ [][Next]_vars /\ WF_vars(Answered)
-----------------------------------------------------------------------------
(***************************************************************************)
(* Consequences of the promise.                                            *)
(***************************************************************************)
Applied == Range(log)
LastOf(w) == CHOOSE i \in DOMAIN log :
               log[i] = w /\ \A j \in DOMAIN log : log[j] = w => j <= i

(* The server has never seen a write without the ones that wait before it: *)
(* nothing overtakes in the pipeline, whatever was lost or sent again.     *)
NothingOvertakes ==
  \A u \in User : \A i \in DOMAIN pending[u] : \A j \in 1..i :
    pending[u][i] \in Applied => pending[u][j] \in Applied

(* What is told is true of the server: a write reported done was applied.  *)
ToldIsTrue == \A w \in Write : told[w] = "done" => w \in Applied

(* Of two writes of one user that have left the queue, both reported done, *)
(* the server's last application of the earlier one comes before the last  *)
(* of the later one: sending again never leaves the older value in place.  *)
NewestWins ==
  \A v, w \in Write :
    (v < w /\ told[v] = "done" /\ told[w] = "done" /\ issued[v] = issued[w])
      => LastOf(v) < LastOf(w)
=============================================================================
