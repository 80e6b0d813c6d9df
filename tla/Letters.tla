------------------------------- MODULE Letters -------------------------------
(***************************************************************************)
(* Letters between friends: UserLetterWritingViewController sends one,     *)
(* UserFriendLetterListViewController lists those of a conversation.       *)
(*                                                                         *)
(* Sending takes up to three round trips: read the conversation's document *)
(* in "Inbox", create it if it is missing, and, from the completion        *)
(* handler of that write, add the letter below it.  The writes a device    *)
(* issued reach the server in order and survive a restart of the app, the  *)
(* handlers do not.                                                        *)
(***************************************************************************)
EXTENDS Integers, Sequences

CONSTANTS Users,    \* user ids, numbers for the order String has
          Letters,  \* ids addDocument can hand out: bounds the letters
          NoUser

ASSUME LettersAssumption == Users \subseteq Nat /\ NoUser \notin Users

VARIABLES letter,         \* per letter: how far its sending is
          outbox,         \* per device: writes on their way
          conversations,  \* server: the documents of "Inbox"
          inbox,          \* server: the letters, each below its conversation
          page            \* per device: the letter list

vars == <<letter, outbox, conversations, inbox, page>>

Stage == {"unwritten", "asked", "found", "missing", "preparing", "issued",
          "failed", "lost"}

Letter == [stage : Stage, sender : Users \cup {NoUser},
           receiver : Users \cup {NoUser}, friend : Users \cup {NoUser}]

Unwritten == [stage |-> "unwritten", sender |-> NoUser, receiver |-> NoUser,
              friend |-> NoUser]

Write == [kind : {"conversation", "letter"}, letter : Letters, live : BOOLEAN]

Page == [stage : {"closed", "asked", "shown"}, friend : Users \cup {NoUser},
         letters : SUBSET Letters]

ClosedPage == [stage |-> "closed", friend |-> NoUser, letters |-> {}]

(* getConversationId, the same in both view controllers. *)
ConversationId(user1, user2) ==
    IF user1 < user2 THEN <<user1, user2>> ELSE <<user2, user1>>

ConversationOf(l) == ConversationId(letter[l].sender, letter[l].receiver)

Init == /\ letter = [l \in Letters |-> Unwritten]
        /\ outbox = [u \in Users |-> <<>>]
        /\ conversations = {}
        /\ inbox = {}
        /\ page = [u \in Users |-> ClosedPage]

-----------------------------------------------------------------------------
(* Sending.                                                                *)

Moved(l, stage) == letter' = [letter EXCEPT ![l].stage = stage]

IssueOf(kind, l) == [kind |-> kind, letter |-> l, live |-> TRUE]

Issue(u, kind, l) == outbox' = [outbox EXCEPT ![u] = Append(@, IssueOf(kind, l))]

(* sendLetterButtonTapped on the page of friend v: the receiver is read    *)
(* from the sender's own "userId".                                         *)
SendLetter(u, v, l) ==
    /\ letter[l].stage = "unwritten"
    /\ letter' = [letter EXCEPT ![l] = [stage |-> "asked", sender |-> u,
                                        receiver |-> u, friend |-> v]]
    /\ UNCHANGED <<outbox, conversations, inbox, page>>

(* The conversations device u sees: the server's and its own writes. *)
Seen(u) ==
    conversations
    \cup {ConversationOf(outbox[u][i].letter) :
              i \in {j \in DOMAIN outbox[u] : outbox[u][j].kind = "conversation"}}

(* getDocument is answered. *)
Answer(l) ==
    /\ letter[l].stage = "asked"
    /\ \/ Moved(l, "failed")
       \/ Moved(l, IF ConversationOf(l) \in Seen(letter[l].sender)
                   THEN "found" ELSE "missing")
    /\ UNCHANGED <<outbox, conversations, inbox, page>>

CallbackWithoutConversation(l) ==
    LET u == letter[l].sender
    IN  /\ letter[l].stage \in {"missing", "found"}
        /\ Moved(l, "issued") /\ Issue(u, "letter", l)
        /\ UNCHANGED <<conversations, inbox, page>>

(* The callback of getDocument: create the conversation first, or add the  *)
(* letter at once.  Another letter may have created it meanwhile; creating *)
(* it again changes nothing.                                               *)
Callback(l) ==
    LET u == letter[l].sender
    IN  /\ \/ /\ letter[l].stage = "missing"
              /\ Moved(l, "preparing") /\ Issue(u, "conversation", l)
           \/ /\ letter[l].stage = "found"
              /\ Moved(l, "issued") /\ Issue(u, "letter", l)
        /\ UNCHANGED <<conversations, inbox, page>>

AcknowledgeDropped(u, w) ==
    outbox' = [outbox EXCEPT ![u] = Tail(@)] /\ UNCHANGED letter

(* The completion handler of the conversation's write, if it still exists. *)
Acknowledge(u, w) ==
    IF w.live
    THEN /\ outbox' = [outbox EXCEPT ![u] = Append(Tail(@), IssueOf("letter", w.letter))]
         /\ Moved(w.letter, "issued")
    ELSE outbox' = [outbox EXCEPT ![u] = Tail(@)] /\ UNCHANGED letter

(* The server applies the oldest write of device u. *)
Commit(u) ==
    /\ outbox[u] # <<>>
    /\ LET w == Head(outbox[u])
       IN  \/ /\ w.kind = "conversation"
              /\ conversations' = conversations \cup {ConversationOf(w.letter)}
              /\ Acknowledge(u, w)
              /\ UNCHANGED inbox
           \/ /\ w.kind = "letter"
              /\ inbox' = inbox \cup {w.letter}
              /\ outbox' = [outbox EXCEPT ![u] = Tail(@)]
              /\ UNCHANGED <<letter, conversations>>
    /\ UNCHANGED page

(* The app is killed: callbacks that have not run never will. *)
Restart(u) ==
    /\ letter' = [l \in Letters |->
           IF /\ letter[l].sender = u
              /\ letter[l].stage \in {"asked", "found", "missing", "preparing"}
           THEN [letter[l] EXCEPT !.stage = "lost"] ELSE letter[l]]
    /\ outbox' = [outbox EXCEPT ![u] =
                      [i \in DOMAIN @ |-> [@[i] EXCEPT !.live = FALSE]]]
    /\ page' = [page EXCEPT ![u] = ClosedPage]
    /\ UNCHANGED <<conversations, inbox>>

-----------------------------------------------------------------------------
(* Listing.                                                                *)

LetterFields == {"user1", "user2", "title", "content", "createdTime"}

(* The letters an order(by: field) query finds below conversation c:       *)
(* documents without the field are left out.                               *)
Ordered(c, field) == {l \in inbox : ConversationOf(l) = c /\ field \in LetterFields}

(* The page of friend v is opened. *)
OpenLetterList(u, v) ==
    /\ page' = [page EXCEPT ![u] = [stage |-> "asked", friend |-> v, letters |-> {}]]
    /\ UNCHANGED <<letter, outbox, conversations, inbox>>

(* The callback of fetchLetters. *)
FetchLetters(u) ==
    /\ page[u].stage = "asked"
    /\ page' = [page EXCEPT ![u].stage = "shown",
                            ![u].letters = Ordered(ConversationId(u, page[u].friend),
                                                   "CreatedTime")]
    /\ UNCHANGED <<letter, outbox, conversations, inbox>>

Next ==
    \/ \E l \in Letters : Answer(l) \/ Callback(l)
    \/ \E u \in Users : \/ Commit(u)
                        \/ Restart(u)
                        \/ FetchLetters(u)
                        \/ \E v \in Users : \/ OpenLetterList(u, v)
                                            \/ \E l \in Letters : SendLetter(u, v, l)

(* An issued write is retried until the server has it. *)
Fairness == \A u \in Users : WF_vars(Commit(u))

Spec == Init /\ [][Next]_vars /\ Fairness

-----------------------------------------------------------------------------
TypeOK == /\ letter \in [Letters -> Letter]
          /\ outbox \in [Users -> Seq(Write)]
          /\ conversations \subseteq Users \X Users
          /\ inbox \subseteq Letters
          /\ page \in [Users -> Page]

(* "Ensure the conversation document exists in the Inbox collection":      *)
(* whatever is lost or restarted between the writes, no letter is stored   *)
(* below a conversation that has no document.                              *)
LettersHaveConversation == \A l \in inbox : ConversationOf(l) \in conversations

(* Well-typed state, and every stored letter in a stored conversation.     *)
LettersSound == TypeOK /\ LettersHaveConversation

(* A letter whose sending got as far as a write is stored, unless the app  *)
(* is killed before the conversation's completion handler ran.             *)
LettersArrive ==
    \A l \in Letters :
        letter[l].stage \in {"preparing", "issued"}
            ~> (l \in inbox \/ letter[l].stage = "lost")

(* "Letter sent successfully!": the letter written on a friend's page is   *)
(* addressed to that friend.                                               *)
LettersReachTheFriend == \A l \in inbox : letter[l].receiver = letter[l].friend

=============================================================================
