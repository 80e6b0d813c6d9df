------------------------------- MODULE FeedList -------------------------------
(***************************************************************************)
(* A page that lists a Firestore collection: the groups                    *)
(* (FetchGroupViewController), the memory wall                             *)
(* (GoodThingMemoryWallViewController), the comments of a memory           *)
(* (MemoryWallDetailPageViewController) and the private memories           *)
(* (FetchMemoryViewController).  The four share one design: viewDidLoad    *)
(* asks for the documents once (not so the private memories) and starts a  *)
(* snapshot listener; both callbacks change one array and schedule a       *)
(* reload of the table, in whatever order Firestore answers.               *)
(*                                                                         *)
(* All of this runs on the main thread: a callback is one step, and so is  *)
(* a scheduled reload, but other steps may come between the two.           *)
(* No page of the app deletes a document, and changed ones are ignored by  *)
(* the listeners, so a document is no more here than its creation time.    *)
(***************************************************************************)
EXTENDS Integers, Sequences, FiniteSets

CONSTANTS Docs,     \* documents that can be stored
          Minute,   \* the creation time each carries: minutes, with ties
          Public    \* memories: those with memoryPrivacyStatus false

ASSUME FeedListAssumption ==
    /\ IsFiniteSet(Docs)
    /\ Minute \in [Docs -> Nat]
    /\ Public \subseteq Docs

VARIABLES page,       \* which of the four pages this is
          stored,     \* the documents in the collection, as the device sees it
          fetch,      \* stage of the fetch
          answer,     \* the documents it was answered with
          listening,  \* the listener has not been ended by an error
          heard,      \* documents the listener was told of as .added
          list,       \* groups, publicMemory, articleComments, privateMemory
          rows,       \* rows the table counted at its last reload
          reloading,  \* a reload is waiting in the main queue
          overtaken   \* history: documents whose row the callback of the fetch
                      \* removed, as its answer was without them

vars == <<page, stored, fetch, answer, listening, heard, list, rows, reloading, overtaken>>

Pages == {"groups", "wall", "comments", "private"}

(* What the query of the fetch matches. *)
Listed == IF page = "wall" THEN Public ELSE Docs

(* What the query of the listener matches: the wall's has no filter. *)
Watched == IF page = "private" THEN Docs \ Public ELSE Docs

(* Comments are listed oldest first, all others newest first. *)
Before(x, y) == IF page # "comments" THEN Minute[x] > Minute[y] ELSE Minute[x] < Minute[y]

Sorted(s) == \A i, j \in DOMAIN s : i < j => ~ Before(s[j], s[i])

Count(s, d) == Cardinality({i \in DOMAIN s : s[i] = d})

Unsorted(s) == {s}

(* The results sort(by:) may have: Swift promises no order among equals. *)
Sortings(s) ==
    {r \in [DOMAIN s -> {s[i] : i \in DOMAIN s}] :
        /\ Sorted(r)
        /\ \A i \in DOMAIN s : Count(r, s[i]) = Count(s, s[i])}

(* The sequences that list each element of D once. *)
Orders(D) == {s \in [1 .. Cardinality(D) -> D] : \A d \in D : Count(s, d) = 1}

(* viewDidLoad has run: the fetch is asked, the listener added. *)
Init == /\ page \in Pages
        /\ stored \in SUBSET Docs
        /\ fetch = IF page = "private" THEN "none" ELSE "asked"
        /\ answer = {}
        /\ listening = TRUE
        /\ heard = {}
        /\ list = <<>>
        /\ rows = 0
        /\ reloading = FALSE
        /\ overtaken = {}

-----------------------------------------------------------------------------
(* A document is posted, on this device or another. *)
Store(d) ==
    /\ d \notin stored
    /\ stored' = stored \cup {d}
    /\ UNCHANGED <<page, fetch, answer, listening, heard, list, rows, reloading, overtaken>>

(* The query of the fetch is evaluated. *)
Answer ==
    /\ fetch = "asked"
    /\ fetch' = "answered"
    /\ answer' = stored \cap Listed
    /\ UNCHANGED <<page, stored, listening, heard, list, rows, reloading, overtaken>>

FetchFails ==
    /\ fetch \in {"asked", "answered"}
    /\ fetch' = "failed"
    /\ UNCHANGED <<page, stored, answer, listening, heard, list, rows, reloading, overtaken>>

FetchForgetsReload ==
    /\ fetch = "answered"
    /\ fetch' = "done"
    /\ list' \in {s \in Orders(answer) : Sorted(s)}
    /\ overtaken' = heard \ answer
    /\ UNCHANGED <<page, stored, answer, listening, heard, rows, reloading>>

(* The callback of the fetch: what the list holds by then is replaced by   *)
(* the documents in the order of the query.                                *)
FetchCallback ==
    /\ fetch = "answered"
    /\ fetch' = "done"
    /\ list' \in {s \in Orders(answer) : Sorted(s)}
    /\ reloading' = TRUE
    /\ overtaken' = heard \ answer
    /\ UNCHANGED <<page, stored, answer, listening, heard, rows>>

HearAgain(D) ==
    /\ listening
    /\ D # {} /\ D \subseteq stored \cap Watched
    /\ Len(list) < 4
    /\ heard' = heard \cup D
    /\ \E new \in Orders(D) : list' \in Sortings(list \o new)
    /\ reloading' = TRUE
    /\ UNCHANGED <<page, stored, fetch, answer, listening, rows, overtaken>>

HearInstead(D) ==
    /\ listening
    /\ D # {} /\ D \subseteq (stored \cap Watched) \ heard
    /\ heard' = heard \cup D
    /\ \E new \in Orders(D) : list' \in Sortings(new)
    /\ reloading' = TRUE
    /\ UNCHANGED <<page, stored, fetch, answer, listening, rows, overtaken>>

HearUnshown(D) ==
    /\ listening
    /\ D # {} /\ D \subseteq (stored \cap Watched) \ heard
    /\ heard' = heard \cup D
    /\ \E new \in Orders(D) : list' \in Sortings(list \o new)
    /\ UNCHANGED <<page, stored, fetch, answer, listening, rows, reloading, overtaken>>

(* The listener's callback with the documents D new to it.  A cache that   *)
(* knows part of the collection may make several snapshots of it.  The     *)
(* documents join the list whether or not the fetch brought them already.  *)
Hear(D) ==
    /\ listening
    /\ D # {} /\ D \subseteq (stored \cap Watched) \ heard
    /\ heard' = heard \cup D
    /\ \E new \in Orders(D) : list' \in Sortings(list \o new)
    /\ reloading' = TRUE
    /\ UNCHANGED <<page, stored, fetch, answer, listening, rows, overtaken>>

(* The listener ends with an error: it is not started again. *)
ListenerFails ==
    /\ listening
    /\ listening' = FALSE
    /\ UNCHANGED <<page, stored, fetch, answer, heard, list, rows, reloading, overtaken>>

(* The block the callbacks put into the main queue: reloadData. *)
Reload ==
    /\ reloading
    /\ reloading' = FALSE
    /\ rows' = Len(list)
    /\ UNCHANGED <<page, stored, fetch, answer, listening, heard, list, overtaken>>

Next == \/ \E d \in Docs : Store(d)
        \/ Answer
        \/ FetchFails
        \/ FetchCallback
        \/ \E D \in SUBSET Docs : Hear(D)
        \/ ListenerFails
        \/ Reload

(* The main queue runs its blocks; a listener that was not ended is told   *)
(* of every document.                                                      *)
Fairness == WF_vars(Reload) /\ WF_vars(\E D \in SUBSET Docs : Hear(D))

Spec == Init /\ [][Next]_vars /\ Fairness

-----------------------------------------------------------------------------
FetchOver == fetch \in {"none", "done", "failed"}

Rows(s) == {s[i] : i \in DOMAIN s}

TypeOK == /\ page \in Pages
          /\ stored \subseteq Docs
          /\ fetch \in {"none", "asked", "answered", "done", "failed"}
          /\ answer \subseteq stored
          /\ listening \in BOOLEAN
          /\ heard \subseteq stored
          /\ list \in Seq(stored)
          /\ rows \in Nat
          /\ reloading \in BOOLEAN
          /\ overtaken \subseteq heard

(* Whatever the order of the two callbacks, the list is in the page's      *)
(* order: the fetch relies on the query's order(by:), the listener sorts.  *)
ListSorted == Sorted(list)

(* A well-typed page with its list in order.                               *)
ListSound == TypeOK /\ ListSorted

(* A document has a second row only if the fetch replaced the list and the *)
(* listener told of it afterwards; without a fetch every document told of  *)
(* has exactly one row.                                                    *)
RowsAccounted ==
    \A d \in Docs :
        /\ Count(list, d) <= (IF fetch = "done" /\ d \in answer THEN 1 ELSE 0)
                             + (IF d \in heard THEN 1 ELSE 0)
        /\ fetch # "done" => Count(list, d) = IF d \in heard THEN 1 ELSE 0

(* A document the listener told of has a row, all but those it told of     *)
(* before the callback of a fetch that was evaluated without them: these   *)
(* lose their row and never get it back.                                   *)
HeardHasRow == \A d \in heard : d \in Rows(list) <=> d \notin overtaken

(* The table asks for rows the list does not have (an index out of range   *)
(* in cellForRowAt or didSelectRowAt) at most between the callback of a    *)
(* fetch that the listener had overtaken and the reload it scheduled.      *)
RowsInRange ==
    rows > Len(list) => reloading /\ overtaken # {}

(* Once the fetch is over, a document the listener was not told of yet     *)
(* gets a row that the table counts, unless the listener ends.             *)
NewDocsAppear ==
    \A d \in Docs :
        (FetchOver /\ d \in (stored \cap Watched) \ heard)
            ~> (~ listening \/ (d \in Rows(list) /\ rows = Len(list)))
=============================================================================
