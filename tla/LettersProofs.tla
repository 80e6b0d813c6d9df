---------------------------- MODULE LettersProofs ----------------------------
(***************************************************************************)
(* Proofs about Letters, for any users and letters: no letter is stored    *)
(* below a conversation without a document, whatever is restarted.         *)
(***************************************************************************)
EXTENDS Letters, TLAPS

USE LettersAssumption

-----------------------------------------------------------------------------
(***************************************************************************)
(* The inductive invariant.                                                *)
(***************************************************************************)
\* Conversation c has a document, or one of the first n writes of device u
\* creates it.
Covered(u, c, n) ==
  \/ c \in conversations
  \/ \E j \in 1..n : /\ outbox[u][j].kind = "conversation"
                     /\ ConversationOf(outbox[u][j].letter) = c

(* A letter that was written has its sender and receiver.                  *)
WrittenHasUsers ==
  \A l \in Letters : letter[l].stage = "unwritten"
                     \/ (letter[l].sender \in Users /\ letter[l].receiver \in Users)

(* Only what was written is on its way or stored.                          *)
OnTheirWayWritten ==
  /\ \A l \in inbox : letter[l].stage # "unwritten"
  /\ \A u \in Users : \A i \in 1..Len(outbox[u]) :
       letter[outbox[u][i].letter].stage # "unwritten"

(* A letter's write comes after that of its conversation.                  *)
WritesInOrder ==
  \A u \in Users : \A i \in 1..Len(outbox[u]) :
    outbox[u][i].kind = "letter" =>
      Covered(u, ConversationOf(outbox[u][i].letter), i - 1)

(* A conversation found stays on the server or ahead in the outbox.        *)
FoundStays ==
  \A l \in Letters : letter[l].stage = "found" =>
    Covered(letter[l].sender, ConversationOf(l), Len(outbox[letter[l].sender]))

OrderInv == /\ TypeOK /\ LettersHaveConversation
            /\ WrittenHasUsers /\ OnTheirWayWritten
            /\ WritesInOrder /\ FoundStays

-----------------------------------------------------------------------------
(* The initial states satisfy the invariant.                               *)
LEMMA InitOrderInv == Init => OrderInv
<1> SUFFICES ASSUME Init PROVE OrderInv
  OBVIOUS
<1>1. TypeOK
  BY DEF Init, TypeOK, Letter, Stage, Unwritten, Page, ClosedPage
<1>2. \A l \in Letters : letter[l].stage = "unwritten"
  BY DEF Init, Unwritten
<1>3. \A u \in Users : Len(outbox[u]) = 0
  BY DEF Init
<1> QED
  BY <1>1, <1>2, <1>3
  DEF Init, OrderInv, LettersHaveConversation, WrittenHasUsers, OnTheirWayWritten,
      WritesInOrder, FoundStays

(* A conversation is a pair of users.                                      *)
LEMMA ConversationType ==
  ASSUME OrderInv, NEW l \in Letters, letter[l].stage # "unwritten"
  PROVE  ConversationOf(l) \in Users \X Users
BY DEF OrderInv, WrittenHasUsers, ConversationOf, ConversationId

(* The oldest write of a device and those behind it.                       *)
LEMMA OldestWrite ==
  ASSUME TypeOK, NEW u \in Users, outbox[u] # <<>>
  PROVE  /\ outbox[u] \in Seq(Write) /\ Len(outbox[u]) \in Nat \ {0}
         /\ Head(outbox[u]) = outbox[u][1]
         /\ Head(outbox[u]) \in Write /\ Head(outbox[u]).letter \in Letters
         /\ Tail(outbox[u]) \in Seq(Write)
         /\ Len(Tail(outbox[u])) = Len(outbox[u]) - 1
         /\ \A i \in 1..(Len(outbox[u]) - 1) : Tail(outbox[u])[i] = outbox[u][i + 1]
<1>1. outbox[u] \in Seq(Write)
  BY DEF TypeOK
<1>2. Head(outbox[u]) \in Write /\ Tail(outbox[u]) \in Seq(Write)
  BY <1>1
<1>3. Head(outbox[u]).letter \in Letters
  BY <1>2 DEF Write
<1> QED
  BY <1>1, <1>2, <1>3

(* A killed app keeps a letter but for its stage, and a write but for its  *)
(* completion handler.                                                     *)
LEMMA KilledTypes ==
  /\ \A r \in Letter : LET s == [r EXCEPT !.stage = "lost"] IN
       /\ s \in Letter /\ s.stage = "lost"
       /\ s.sender = r.sender /\ s.receiver = r.receiver
  /\ \A w \in Write : LET x == [w EXCEPT !.live = FALSE] IN
       x \in Write /\ x.kind = w.kind /\ x.letter = w.letter
BY DEF Letter, Stage, Write

(* What getDocument sees is what the first writes of the outbox cover.     *)
LEMMA SeenIsCovered ==
  ASSUME TypeOK, NEW u \in Users, NEW c
  PROVE  c \in Seen(u) <=> Covered(u, c, Len(outbox[u]))
<1>1. outbox[u] \in Seq(Write)
  BY DEF TypeOK
<1>2. DOMAIN outbox[u] = 1..Len(outbox[u])
  BY <1>1
<1> QED
  BY <1>2 DEF Seen, Covered

(* No step changes the two users of a letter that was written.             *)
LEMMA WrittenStays ==
  ASSUME OrderInv, [Next]_vars, NEW l \in Letters, letter[l].stage # "unwritten"
  PROVE  /\ letter'[l].stage # "unwritten"
         /\ letter'[l].sender = letter[l].sender
         /\ letter'[l].receiver = letter[l].receiver
         /\ ConversationOf(l)' = ConversationOf(l)
<1> DEFINE Kept == /\ letter'[l].stage # "unwritten"
                   /\ letter'[l].sender = letter[l].sender
                   /\ letter'[l].receiver = letter[l].receiver
<1>0. letter \in [Letters -> Letter]
  BY DEF OrderInv, TypeOK
<1>1. ASSUME NEW k \in Letters, NEW stage \in Stage \ {"unwritten"}, Moved(k, stage)
      PROVE  Kept
  BY <1>0, <1>1 DEF Moved, Letter
<1>2. ASSUME NEW k \in Letters, Answer(k) \/ Callback(k) PROVE Kept
  BY <1>1, <1>2 DEF Answer, Callback, Stage
<1>3. ASSUME NEW u \in Users, Commit(u) PROVE Kept
  <2>1. CASE UNCHANGED letter
    BY <2>1
  <2>2. CASE Acknowledge(u, Head(outbox[u])) /\ Head(outbox[u]).live
    <3>1. Head(outbox[u]).letter \in Letters
      BY <1>3, OldestWrite DEF OrderInv, Commit
    <3>2. Moved(Head(outbox[u]).letter, "issued")
      BY <2>2 DEF Acknowledge
    <3> QED
      BY <1>1, <3>1, <3>2 DEF Stage
  <2> QED
    BY <1>3, <2>1, <2>2 DEF Commit, Acknowledge
<1>4. ASSUME NEW u \in Users, Restart(u) PROVE Kept
  <2>1. letter[l] \in Letter
    BY <1>0
  <2>2. letter'[l] = letter[l] \/ letter'[l] = [letter[l] EXCEPT !.stage = "lost"]
    BY <1>4 DEF Restart
  <2>3. CASE letter'[l] = letter[l]
    BY <2>3
  <2>4. CASE letter'[l] = [letter[l] EXCEPT !.stage = "lost"]
    BY <2>1, <2>4, KilledTypes
  <2> QED
    BY <2>2, <2>3, <2>4
<1>5. ASSUME NEW u \in Users, NEW v \in Users, NEW k \in Letters, SendLetter(u, v, k)
      PROVE  Kept
  BY <1>0, <1>5 DEF SendLetter
<1>6. ASSUME UNCHANGED letter PROVE Kept
  BY <1>6
<1>7. Kept
  BY <1>2, <1>3, <1>4, <1>5, <1>6 DEF Next, vars, FetchLetters, OpenLetterList
<1> QED
  BY <1>7 DEF ConversationOf

(* Every step keeps the types.                                             *)
LEMMA NextTypeOK == OrderInv /\ [Next]_vars => TypeOK'
<1> SUFFICES ASSUME OrderInv, [Next]_vars PROVE TypeOK'
  OBVIOUS
<1>0. TypeOK
  BY DEF OrderInv
<1>a. ASSUME NEW l \in Letters, NEW stage \in Stage, Moved(l, stage)
      PROVE  letter' \in [Letters -> Letter]
  BY <1>0, <1>a DEF TypeOK, Moved, Letter
<1>b. ASSUME NEW u \in Users, NEW l \in Letters, NEW kind \in {"conversation", "letter"},
             Issue(u, kind, l)
      PROVE  outbox' \in [Users -> Seq(Write)]
  <2>1. IssueOf(kind, l) \in Write /\ outbox[u] \in Seq(Write)
    BY <1>0 DEF TypeOK, IssueOf, Write
  <2>2. Append(outbox[u], IssueOf(kind, l)) \in Seq(Write)
    BY <2>1
  <2> QED
    BY <1>0, <1>b, <2>2 DEF TypeOK, Issue
<1>1. ASSUME NEW l \in Letters, Answer(l) PROVE TypeOK'
  BY <1>0, <1>1, <1>a DEF Answer, Stage, TypeOK
<1>2. ASSUME NEW l \in Letters, Callback(l) PROVE TypeOK'
  <2>1. letter[l].sender \in Users
    BY <1>2 DEF OrderInv, WrittenHasUsers, Callback
  <2> QED
    BY <1>0, <1>2, <1>a, <1>b, <2>1 DEF Callback, Stage, TypeOK
<1>3. ASSUME NEW u \in Users, Commit(u) PROVE TypeOK'
  <2> DEFINE w == Head(outbox[u])
  <2>1. outbox[u] \in Seq(Write) /\ outbox[u] # <<>>
    BY <1>0, <1>3 DEF TypeOK, Commit
  <2>2. w \in Write /\ Tail(outbox[u]) \in Seq(Write) /\ w.letter \in Letters
    BY <1>0, <2>1, OldestWrite
  <2>3. letter[w.letter].stage # "unwritten"
    <3>1. w = outbox[u][1] /\ 1 \in 1..Len(outbox[u])
      BY <1>0, <2>1, OldestWrite
    <3> QED
      BY <3>1 DEF OrderInv, OnTheirWayWritten
  <2>4. IssueOf("letter", w.letter) \in Write
    BY <2>2 DEF IssueOf, Write
  <2>5. Append(Tail(outbox[u]), IssueOf("letter", w.letter)) \in Seq(Write)
    BY <2>2, <2>4
  <2>6. outbox' \in [Users -> Seq(Write)]
    BY <1>0, <1>3, <2>2, <2>5 DEF Commit, Acknowledge, TypeOK
  <2>7. letter' \in [Letters -> Letter]
    BY <1>0, <1>3, <1>a, <2>2 DEF Commit, Acknowledge, TypeOK, Stage
  <2>8. conversations' \subseteq Users \X Users /\ inbox' \subseteq Letters
    BY <1>0, <1>3, <2>2, <2>3, ConversationType DEF Commit, TypeOK
  <2> QED
    BY <1>0, <1>3, <2>6, <2>7, <2>8 DEF Commit, TypeOK
<1>4. ASSUME NEW u \in Users, Restart(u) PROVE TypeOK'
  <2>1. letter' \in [Letters -> Letter]
    <3>1. ASSUME NEW l \in Letters PROVE letter'[l] \in Letter
      <4>1. letter[l] \in Letter
        BY <1>0 DEF TypeOK
      <4>2. letter'[l] = letter[l] \/ letter'[l] = [letter[l] EXCEPT !.stage = "lost"]
        BY <1>4 DEF Restart
      <4> QED
        BY <4>1, <4>2, KilledTypes
    <3>2. DOMAIN letter' = Letters /\ letter' = [l \in Letters |-> letter'[l]]
      BY <1>4 DEF Restart
    <3> QED
      BY <3>1, <3>2
  <2>2. outbox[u] \in Seq(Write)
    BY <1>0 DEF TypeOK
  <2>3. [i \in DOMAIN outbox[u] |-> [outbox[u][i] EXCEPT !.live = FALSE]] \in Seq(Write)
    BY <2>2, KilledTypes
  <2>4. outbox' \in [Users -> Seq(Write)]
    BY <1>0, <1>4, <2>3 DEF Restart, TypeOK
  <2>5. page' \in [Users -> Page]
    BY <1>0, <1>4 DEF Restart, TypeOK, Page, ClosedPage
  <2> QED
    BY <1>0, <1>4, <2>1, <2>4, <2>5 DEF Restart, TypeOK
<1>5. ASSUME NEW u \in Users, FetchLetters(u) PROVE TypeOK'
  <2>1. Ordered(ConversationId(u, page[u].friend), "CreatedTime") \subseteq Letters
    BY <1>0 DEF Ordered, TypeOK
  <2> DEFINE shown == Ordered(ConversationId(u, page[u].friend), "CreatedTime")
             p == [page[u] EXCEPT !.stage = "shown", !.letters = shown]
  <2>2. page' = [page EXCEPT ![u] = p] /\ UNCHANGED <<letter, outbox, conversations, inbox>>
    BY <1>5 DEF FetchLetters
  <2>3. page[u] \in Page
    BY <1>0 DEF TypeOK
  <2>4. p \in Page
    BY ONLY <2>1, <2>3 DEF Page
  <2> QED
    BY <1>0, <2>2, <2>4 DEF TypeOK
<1>6. ASSUME NEW u \in Users, NEW v \in Users, OpenLetterList(u, v) PROVE TypeOK'
  BY <1>0, <1>6 DEF OpenLetterList, TypeOK, Page
<1>7. ASSUME NEW u \in Users, NEW v \in Users, NEW l \in Letters, SendLetter(u, v, l)
      PROVE  TypeOK'
  BY <1>0, <1>7 DEF SendLetter, TypeOK, Letter, Stage
<1>8. CASE UNCHANGED vars
  BY <1>0, <1>8 DEF vars, TypeOK
<1> QED
  BY <1>1, <1>2, <1>3, <1>4, <1>5, <1>6, <1>7, <1>8 DEF Next

-----------------------------------------------------------------------------
(***************************************************************************)
(* What a step does to the queue of one device.                            *)
(***************************************************************************)
\* The d oldest writes are applied, the others keep their order, and what is
\* added was written and, for a letter, comes after its conversation.
QueueFollows(u, d) ==
  LET n == Len(outbox[u]) IN
  /\ n \geq d /\ Len(outbox'[u]) \geq n - d
  /\ \A i \in (1 + d)..n : /\ outbox'[u][i - d].kind = outbox[u][i].kind
                           /\ outbox'[u][i - d].letter = outbox[u][i].letter
  /\ d = 1 /\ outbox[u][1].kind = "conversation" =>
       ConversationOf(outbox[u][1].letter) \in conversations'
  /\ \A i \in (n - d + 1)..Len(outbox'[u]) :
       /\ letter'[outbox'[u][i].letter].stage # "unwritten"
       /\ outbox'[u][i].kind = "letter" =>
            Covered(u, ConversationOf(outbox[u][i].letter), i - 1)'

(* Coverage is kept while writes only move from the outbox to the server,  *)
(* here in the terms of one device's queue before and after a step.        *)
LEMMA CoverageKept ==
  ASSUME OrderInv, [Next]_vars, TypeOK', NEW u \in Users, NEW c,
         NEW n \in 0..Len(outbox[u]), Covered(u, c, n),
         conversations \subseteq conversations',
         NEW d \in {0, 1}, Len(outbox[u]) \geq d,
         \A i \in (1 + d)..Len(outbox[u]) :
            /\ outbox'[u][i - d].kind = outbox[u][i].kind
            /\ outbox'[u][i - d].letter = outbox[u][i].letter,
         d = 1 /\ outbox[u][1].kind = "conversation" =>
            ConversationOf(outbox[u][1].letter) \in conversations'
  PROVE  Covered(u, c, n - d)'
<1> DEFINE q == outbox[u]
<1>1. q \in Seq(Write) /\ Len(q) \in Nat
  <2>1. outbox \in [Users -> Seq(Write)]
    BY DEF OrderInv, TypeOK
  <2> QED
    BY ONLY <2>1, u \in Users
<1>2. CASE c \in conversations
  BY <1>2 DEF Covered
<1>3. ASSUME NEW j \in 1..n, q[j].kind = "conversation", ConversationOf(q[j].letter) = c
      PROVE  Covered(u, c, n - d)'
  <2>1. j \in 1..Len(q) /\ q[j] \in Write
    BY <1>1
  <2>2. PICK l \in Letters : q[j].letter = l
    BY <2>1 DEF Write
  <2>3. ConversationOf(l)' = c
    BY <1>3, <2>1, <2>2, WrittenStays DEF OrderInv, OnTheirWayWritten
  <2>4. CASE j > d
    <3>1. j - d \in 1..(n - d) /\ j \in (1 + d)..Len(outbox[u])
      BY <1>1, <2>1, <2>4
    <3>2. outbox'[u][j - d].kind = "conversation" /\ outbox'[u][j - d].letter = l
      BY <1>3, <2>2, <3>1
    <3> QED
      BY <2>3, <3>1, <3>2 DEF Covered
  <2>5. CASE j = 1 /\ d = 1
    BY <1>3, <2>5 DEF Covered
  <2> QED
    BY <2>1, <2>4, <2>5
<1> QED
  BY <1>2, <1>3 DEF Covered

(* A device whose outbox is left alone.                                    *)
LEMMA QueueKept ==
  ASSUME OrderInv, NEW u \in Users, outbox'[u] = outbox[u]
  PROVE  QueueFollows(u, 0)
<1>1. Len(outbox[u]) \in Nat
  BY DEF OrderInv, TypeOK
<1> QED
  BY <1>1 DEF QueueFollows

(* The callback of getDocument appends one write.                          *)
LEMMA QueueOnCallback ==
  ASSUME OrderInv, [Next]_vars, TypeOK', NEW l \in Letters, Callback(l),
         NEW u \in Users
  PROVE  QueueFollows(u, 0)
<1>0. outbox[u] \in Seq(Write) /\ letter[l].sender \in Users
  BY DEF OrderInv, TypeOK, Callback, WrittenHasUsers
<1>1. PICK n \in Nat : n = Len(outbox[u])
  BY <1>0
<1>2. CASE u # letter[l].sender
  <2>1. outbox'[u] = outbox[u]
    BY <1>0, <1>2 DEF Callback, Issue, OrderInv, TypeOK
  <2> QED
    BY <2>1, QueueKept
<1>3. CASE u = letter[l].sender
  <2>1. PICK kind \in {"conversation", "letter"} :
          /\ outbox'[u] = Append(outbox[u], IssueOf(kind, l))
          /\ kind = "letter" => letter[l].stage = "found"
    BY <1>0, <1>3 DEF Callback, Issue, OrderInv, TypeOK
  <2>2. /\ Len(outbox'[u]) = n + 1
        /\ \A i \in 1..n : outbox'[u][i] = outbox[u][i]
        /\ outbox'[u][n + 1] = IssueOf(kind, l)
    BY <1>0, <1>1, <2>1 DEF IssueOf, Write
  <2>3. letter[l].stage # "unwritten" /\ letter'[l].stage # "unwritten"
    BY WrittenStays DEF Callback
  <2>4. ASSUME kind = "letter" PROVE Covered(u, ConversationOf(l), n)'
    <3>1. PICK c : c = ConversationOf(l) /\ c = ConversationOf(l)'
      BY <2>3, WrittenStays
    <3>2. Covered(u, c, n)
      BY <1>1, <1>3, <2>1, <2>4, <3>1 DEF OrderInv, FoundStays
    <3>3. conversations \subseteq conversations'
      BY DEF Callback
    <3>4. Covered(u, c, n - 0)'
      BY <1>1, <2>2, <3>2, <3>3, CoverageKept
    <3>5. Covered(u, c, n)'
      BY <3>4
    <3> QED
      BY <3>1, <3>5
  <2> QED
    BY <1>1, <2>2, <2>3, <2>4 DEF QueueFollows, IssueOf
<1> QED
  BY <1>2, <1>3

(* The server takes the oldest write, and a live handler appends one.      *)
LEMMA QueueOnCommit ==
  ASSUME OrderInv, [Next]_vars, NEW v \in Users, Commit(v), NEW u \in Users
  PROVE  \E d \in {0, 1} : QueueFollows(u, d)
<1> DEFINE w == Head(outbox[u])
<1>1. CASE u # v
  <2>1. outbox'[u] = outbox[u]
    BY <1>1 DEF Commit, Acknowledge, OrderInv, TypeOK
  <2> QED
    BY <2>1, QueueKept
<1>2. CASE u = v
  <2>0. TypeOK /\ outbox[u] # <<>>
    BY <1>2 DEF Commit, OrderInv
  <2>1. PICK n \in Nat \ {0} : n = Len(outbox[u])
    BY <2>0, OldestWrite
  <2>2. PICK l \in Letters : l = w.letter
    BY <2>0, OldestWrite
  <2>3. /\ w = outbox[u][1] /\ Tail(outbox[u]) \in Seq(Write)
        /\ Len(Tail(outbox[u])) = n - 1
        /\ \A i \in 1..(n - 1) : Tail(outbox[u])[i] = outbox[u][i + 1]
    BY <2>0, <2>1, OldestWrite
  <2>4. letter[l].stage # "unwritten"
    BY <2>1, <2>2, <2>3 DEF OrderInv, OnTheirWayWritten
  <2>5. w.kind = "conversation" => ConversationOf(l) \in conversations'
    BY <1>2, <2>2 DEF Commit
  <2>6. CASE outbox'[u] = Tail(outbox[u])
    <3>1. QueueFollows(u, 1)
      BY <2>1, <2>2, <2>3, <2>5, <2>6 DEF QueueFollows
    <3> QED
      BY <3>1
  <2>7. CASE /\ w.kind = "conversation"
             /\ outbox'[u] = Append(Tail(outbox[u]), IssueOf("letter", l))
    <3>1. IssueOf("letter", l) \in Write
      BY DEF IssueOf, Write
    <3>2. /\ Len(outbox'[u]) = n
          /\ \A i \in 1..(n - 1) : outbox'[u][i] = outbox[u][i + 1]
          /\ outbox'[u][n] = IssueOf("letter", l)
      BY <2>1, <2>3, <2>7, <3>1
    <3>3. letter'[l].stage # "unwritten" /\ ConversationOf(l)' = ConversationOf(l)
      BY <2>4, WrittenStays
    <3>4. ConversationOf(l)' \in conversations'
      BY <2>5, <2>7, <3>3
    <3>5. outbox'[u][n].letter = l
      BY <3>2 DEF IssueOf
    <3>6. Covered(u, ConversationOf(outbox[u][n].letter), n - 1)'
      BY <3>4, <3>5 DEF Covered
    <3>7. \A i \in (n - 1 + 1)..Len(outbox'[u]) : i = n
      BY <3>2
    <3>8. QueueFollows(u, 1)
      BY <2>1, <2>2, <2>3, <2>5, <3>2, <3>3, <3>5, <3>6, <3>7 DEF QueueFollows
    <3> QED
      BY <3>8
  <2> QED
    BY <1>2, <2>0, <2>2, <2>6, <2>7 DEF Commit, Acknowledge, TypeOK
<1> QED
  BY <1>1, <1>2

(* A restart leaves the writes, without their handlers.                    *)
LEMMA QueueOnRestart ==
  ASSUME OrderInv, NEW v \in Users, Restart(v), NEW u \in Users
  PROVE  QueueFollows(u, 0)
<1>1. outbox[u] \in Seq(Write) /\ Len(outbox[u]) \in Nat
  BY DEF OrderInv, TypeOK
<1>2. CASE u # v
  <2>1. outbox'[u] = outbox[u]
    BY <1>2 DEF Restart, OrderInv, TypeOK
  <2> QED
    BY <2>1, QueueKept
<1>3. CASE u = v
  <2>1. outbox'[u] = [i \in DOMAIN outbox[u] |-> [outbox[u][i] EXCEPT !.live = FALSE]]
    BY <1>3 DEF Restart, OrderInv, TypeOK
  <2>2. DOMAIN outbox[u] = 1..Len(outbox[u])
    BY <1>1
  <2>3. outbox'[u] \in Seq(Write) /\ Len(outbox'[u]) = Len(outbox[u])
    BY <1>1, <2>1, KilledTypes
  <2>4. \A i \in 1..Len(outbox[u]) :
          outbox[u][i] \in Write /\ outbox'[u][i] = [outbox[u][i] EXCEPT !.live = FALSE]
    BY <1>1, <2>1, <2>2
  <2>5. \A i \in 1..Len(outbox[u]) : /\ outbox'[u][i].kind = outbox[u][i].kind
                                     /\ outbox'[u][i].letter = outbox[u][i].letter
    BY <2>4, KilledTypes
  <2> QED
    BY <1>1, <2>3, <2>5 DEF QueueFollows
<1> QED
  BY <1>2, <1>3

(* So it is with every step, and no conversation is removed.               *)
LEMMA QueueStep ==
  ASSUME OrderInv, [Next]_vars, TypeOK', NEW u \in Users
  PROVE  /\ conversations \subseteq conversations'
         /\ \E d \in {0, 1} : QueueFollows(u, d)
<1>1. conversations \subseteq conversations'
  BY DEF Next, vars, Answer, Callback, Commit, Restart, FetchLetters, OpenLetterList,
         SendLetter
<1>2. ASSUME UNCHANGED outbox PROVE \E d \in {0, 1} : QueueFollows(u, d)
  BY <1>2, QueueKept
<1>3. ASSUME NEW l \in Letters, Callback(l) PROVE \E d \in {0, 1} : QueueFollows(u, d)
  BY <1>3, QueueOnCallback
<1>4. ASSUME NEW v \in Users, Commit(v) PROVE \E d \in {0, 1} : QueueFollows(u, d)
  BY <1>4, QueueOnCommit
<1>5. ASSUME NEW v \in Users, Restart(v) PROVE \E d \in {0, 1} : QueueFollows(u, d)
  BY <1>5, QueueOnRestart
<1> QED
  BY <1>1, <1>2, <1>3, <1>4, <1>5
  DEF Next, vars, Answer, FetchLetters, OpenLetterList, SendLetter

(* Hence what is covered stays covered.                                    *)
LEMMA CoverageFollows ==
  ASSUME OrderInv, [Next]_vars, TypeOK', NEW u \in Users, NEW c,
         NEW n \in Nat, n \leq Len(outbox[u]), Covered(u, c, n),
         NEW d \in {0, 1}, QueueFollows(u, d)
  PROVE  Covered(u, c, n - d)'
<1>1. conversations \subseteq conversations' /\ n \in 0..Len(outbox[u])
  BY QueueStep DEF OrderInv, TypeOK
<1>2. /\ Len(outbox[u]) \geq d
      /\ \A i \in (1 + d)..Len(outbox[u]) :
           /\ outbox'[u][i - d].kind = outbox[u][i].kind
           /\ outbox'[u][i - d].letter = outbox[u][i].letter
      /\ d = 1 /\ outbox[u][1].kind = "conversation" =>
           ConversationOf(outbox[u][1].letter) \in conversations'
  BY DEF QueueFollows
<1> QED
  BY <1>1, <1>2, CoverageKept

-----------------------------------------------------------------------------
(* A stored letter was the oldest write of a device, with its conversation *)
(* stored before.                                                          *)
LEMMA StoredLetters ==
  ASSUME OrderInv, [Next]_vars, NEW l \in inbox'
  PROVE  /\ l \in Letters /\ letter[l].stage # "unwritten"
         /\ ConversationOf(l) \in conversations
<1>1. CASE l \in inbox
  BY <1>1 DEF OrderInv, TypeOK, LettersHaveConversation, OnTheirWayWritten
<1>2. ASSUME NEW u \in Users, Commit(u), l \notin inbox
      PROVE  /\ l \in Letters /\ letter[l].stage # "unwritten"
             /\ ConversationOf(l) \in conversations
  <2>1. TypeOK /\ outbox[u] # <<>>
    BY <1>2 DEF OrderInv, Commit
  <2>2. Head(outbox[u]).kind = "letter" /\ l = Head(outbox[u]).letter
    BY <1>2 DEF Commit
  <2>3. /\ outbox[u][1].kind = "letter" /\ l = outbox[u][1].letter
        /\ 1 \in 1..Len(outbox[u]) /\ l \in Letters
    BY <2>1, <2>2, OldestWrite
  <2>4. Covered(u, ConversationOf(l), 1 - 1)
    BY <2>3 DEF OrderInv, WritesInOrder
  <2> QED
    BY <2>3, <2>4 DEF Covered, OrderInv, OnTheirWayWritten
<1> QED
  BY <1>1, <1>2
  DEF Next, vars, Answer, Callback, Restart, FetchLetters, OpenLetterList, SendLetter

(* A letter whose conversation is found was found before, or is now.       *)
LEMMA FoundBefore ==
  ASSUME OrderInv, [Next]_vars, NEW l \in Letters, letter'[l].stage = "found"
  PROVE  \/ letter[l].stage = "found"
         \/ /\ letter[l].stage # "unwritten" /\ UNCHANGED <<outbox, conversations>>
            /\ ConversationOf(l) \in Seen(letter[l].sender)
<1> DEFINE Goal ==
         \/ letter[l].stage = "found"
         \/ /\ letter[l].stage # "unwritten" /\ UNCHANGED <<outbox, conversations>>
            /\ ConversationOf(l) \in Seen(letter[l].sender)
<1>0. letter \in [Letters -> Letter]
  BY DEF OrderInv, TypeOK
<1>1. ASSUME NEW k \in Letters, NEW stage, Moved(k, stage)
      PROVE  letter[l].stage = "found" \/ (k = l /\ stage = "found")
  BY <1>0, <1>1 DEF Moved, Letter
<1>2. ASSUME NEW k \in Letters, Answer(k) PROVE Goal
  BY <1>1, <1>2 DEF Answer
<1>3. ASSUME NEW k \in Letters, Callback(k) PROVE Goal
  BY <1>1, <1>3 DEF Callback
<1>4. ASSUME NEW u \in Users, Commit(u) PROVE Goal
  <2>1. Head(outbox[u]).letter \in Letters
    BY <1>4, OldestWrite DEF OrderInv, Commit
  <2> QED
    BY <1>1, <1>4, <2>1 DEF Commit, Acknowledge
<1>5. ASSUME NEW u \in Users, Restart(u) PROVE Goal
  <2>1. letter[l] \in Letter
    BY <1>0
  <2>2. letter'[l] = letter[l] \/ letter'[l] = [letter[l] EXCEPT !.stage = "lost"]
    BY <1>5 DEF Restart
  <2> QED
    BY <2>1, <2>2, KilledTypes
<1>6. ASSUME NEW u \in Users, NEW v \in Users, NEW k \in Letters, SendLetter(u, v, k)
      PROVE  Goal
  BY <1>0, <1>6 DEF SendLetter
<1>7. ASSUME UNCHANGED letter PROVE Goal
  BY <1>7
<1> QED
  BY <1>2, <1>3, <1>4, <1>5, <1>6, <1>7 DEF Next, vars, FetchLetters, OpenLetterList

(* Only sending makes a letter a written one, with its users.              *)
LEMMA UsersStay == OrderInv /\ [Next]_vars => WrittenHasUsers'
<1> SUFFICES ASSUME OrderInv, [Next]_vars, NEW l \in Letters,
                    letter'[l].stage # "unwritten"
             PROVE  letter'[l].sender \in Users /\ letter'[l].receiver \in Users
  BY DEF WrittenHasUsers
<1>1. CASE letter[l].stage # "unwritten"
  BY <1>1, WrittenStays DEF OrderInv, WrittenHasUsers
<1>2. CASE letter[l].stage = "unwritten"
  <2>0. letter \in [Letters -> Letter]
    BY DEF OrderInv, TypeOK
  <2>1. ASSUME NEW u \in Users, NEW v \in Users, NEW k \in Letters, SendLetter(u, v, k)
        PROVE  letter'[l].sender \in Users /\ letter'[l].receiver \in Users
    BY <1>2, <2>0, <2>1 DEF SendLetter
  <2>2. ASSUME NEW k \in Letters, letter[k].stage # "unwritten", NEW stage, Moved(k, stage)
        PROVE  FALSE
    BY <1>2, <2>0, <2>2 DEF Moved, Letter
  <2>3. ASSUME NEW u \in Users, Commit(u) PROVE FALSE
    <3>1. /\ Head(outbox[u]).letter \in Letters
          /\ Head(outbox[u]) = outbox[u][1] /\ 1 \in 1..Len(outbox[u])
      BY <2>3, OldestWrite DEF OrderInv, Commit
    <3>2. letter[Head(outbox[u]).letter].stage # "unwritten"
      BY <3>1 DEF OrderInv, OnTheirWayWritten
    <3>3. UNCHANGED letter \/ Moved(Head(outbox[u]).letter, "issued")
      BY <2>3 DEF Commit, Acknowledge
    <3> QED
      BY <1>2, <2>2, <3>1, <3>2, <3>3
  <2>4. ASSUME NEW u \in Users, Restart(u) PROVE FALSE
    BY <1>2, <2>4 DEF Restart
  <2> QED
    BY <1>2, <2>1, <2>2, <2>3, <2>4
    DEF Next, vars, Answer, Callback, FetchLetters, OpenLetterList
<1> QED
  BY <1>1, <1>2

(* Every step keeps the invariant.                                         *)
LEMMA NextOrderInv == OrderInv /\ [Next]_vars => OrderInv'
<1> SUFFICES ASSUME OrderInv, [Next]_vars PROVE OrderInv'
  OBVIOUS
<1>1. TypeOK' /\ WrittenHasUsers'
  BY NextTypeOK, UsersStay
<1>2. conversations \subseteq conversations' \/ Users = {}
  BY <1>1, QueueStep
<1>3. LettersHaveConversation' /\ \A l \in inbox' : letter'[l].stage # "unwritten"
  <2> SUFFICES ASSUME NEW l \in inbox'
               PROVE  ConversationOf(l)' \in conversations' /\ letter'[l].stage # "unwritten"
    BY DEF LettersHaveConversation
  <2>1. /\ l \in Letters /\ letter[l].stage # "unwritten"
        /\ ConversationOf(l) \in conversations
    BY StoredLetters
  <2>2. letter[l].sender \in Users
    BY <2>1 DEF OrderInv, WrittenHasUsers
  <2> QED
    BY <1>2, <2>1, <2>2, WrittenStays
<1>4. ASSUME NEW u \in Users, NEW i \in 1..Len(outbox'[u])
      PROVE  /\ letter'[outbox'[u][i].letter].stage # "unwritten"
             /\ outbox'[u][i].kind = "letter" =>
                  Covered(u, ConversationOf(outbox[u][i].letter), i - 1)'
  <2>1. PICK d \in {0, 1} : QueueFollows(u, d)
    BY <1>1, QueueStep
  <2>2. PICK n \in Nat : n = Len(outbox[u])
    BY DEF OrderInv, TypeOK
  <2>3. i \in Nat \ {0}
    BY <1>1 DEF TypeOK
  <2>4. CASE i > n - d
    BY <2>1, <2>2, <2>3, <2>4 DEF QueueFollows
  <2>5. CASE i \leq n - d
    <3>1. i + d \in (1 + d)..n /\ i + d \in 1..n /\ (i + d) - d = i
      BY <2>2, <2>3, <2>5
    <3>2. outbox[u] \in Seq(Write) /\ outbox[u][i + d] \in Write
      BY <2>2, <3>1 DEF OrderInv, TypeOK
    <3>3. PICK l \in Letters : l = outbox[u][i + d].letter
      BY <3>2 DEF Write
    <3>4. outbox'[u][i].kind = outbox[u][i + d].kind /\ outbox'[u][i].letter = l
      BY <2>1, <2>2, <3>1, <3>3 DEF QueueFollows
    <3>5. letter[l].stage # "unwritten"
      BY <2>2, <3>1, <3>3 DEF OrderInv, OnTheirWayWritten
    <3>6. PICK c : c = ConversationOf(l) /\ c = ConversationOf(l)'
      BY <3>5, WrittenStays
    <3>7. ASSUME outbox'[u][i].kind = "letter" PROVE Covered(u, c, i - 1)'
      <4>1. Covered(u, c, (i + d) - 1)
        BY <2>2, <3>1, <3>3, <3>4, <3>6, <3>7 DEF OrderInv, WritesInOrder
      <4>2. PICK m \in Nat : m \leq n /\ m = (i + d) - 1 /\ m - d = i - 1
        BY <2>2, <2>3, <2>5
      <4>3. Covered(u, c, m - d)'
        BY <1>1, <2>1, <2>2, <4>1, <4>2, CoverageFollows
      <4> QED
        BY <4>2, <4>3
    <3>8. outbox'[u][i].kind = "letter" =>
            Covered(u, ConversationOf(outbox[u][i].letter), i - 1)'
      BY <3>4, <3>6, <3>7
    <3> QED
      BY <3>4, <3>5, <3>8, WrittenStays
  <2> QED
    BY <2>2, <2>3, <2>4, <2>5
<1>5. WritesInOrder' /\ OnTheirWayWritten'
  BY <1>3, <1>4 DEF WritesInOrder, OnTheirWayWritten
<1>6. ASSUME NEW l \in Letters, letter'[l].stage = "found"
      PROVE  Covered(letter[l].sender, ConversationOf(l), Len(outbox[letter[l].sender]))'
  <2>1. letter[l].stage # "unwritten"
    BY <1>6, FoundBefore
  <2>2. PICK u \in Users : u = letter[l].sender /\ u = letter'[l].sender
    BY <2>1, WrittenStays DEF OrderInv, WrittenHasUsers
  <2>3. PICK c : c = ConversationOf(l) /\ c = ConversationOf(l)'
    BY <2>1, WrittenStays
  <2>4. PICK n \in Nat : n = Len(outbox[u])
    BY DEF OrderInv, TypeOK
  <2>5. Covered(u, c, n) \/ (c \in Seen(u) /\ UNCHANGED <<outbox, conversations>>)
    BY <1>6, <2>2, <2>3, <2>4, FoundBefore DEF OrderInv, FoundStays
  <2>6. Covered(u, c, n)
    BY <2>4, <2>5, SeenIsCovered DEF OrderInv
  <2>7. PICK d \in {0, 1} : QueueFollows(u, d)
    BY <1>1, QueueStep
  <2>8. Covered(u, c, n - d)'
    BY <1>1, <2>4, <2>6, <2>7, CoverageFollows
  <2>9. PICK k \in Nat : k = Len(outbox'[u]) /\ k \geq n - d /\ n - d \in Int
    BY <1>1, <2>4, <2>7 DEF TypeOK, QueueFollows
  <2>10. Covered(u, c, k)'
    BY <2>8, <2>9 DEF Covered
  <2> QED
    BY <2>2, <2>3, <2>9, <2>10 DEF Covered
<1>7. FoundStays'
  BY <1>6 DEF FoundStays
<1> QED
  BY <1>1, <1>3, <1>5, <1>7 DEF OrderInv

(* Whatever is restarted between the writes, no letter is stored below a   *)
(* conversation that has no document.                                      *)
THEOREM LettersStaySound == Spec => []LettersSound
<1>1. OrderInv => LettersSound
  BY DEF OrderInv, LettersSound
<1> QED
  BY InitOrderInv, NextOrderInv, <1>1, PTL DEF Spec
=============================================================================
