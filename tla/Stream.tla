------------------------------- MODULE Stream -------------------------------
(***************************************************************************)
(* The bidirectional stream both halves of the Firestore client use: the   *)
(* WriteStream of WritePipeline and the WatchStream of QueryListen.        *)
(*                                                                         *)
(* A stream is a record s with the state of the machine, whether the idle  *)
(* timer runs, whether credentials are requested and not yet there, and    *)
(* the messages the connection carries up and down.  The connection is     *)
(* external: it delivers in order, and what it had not delivered is lost   *)
(* with it.  Records have more fields where a module keeps more.           *)
(***************************************************************************)
EXTENDS Sequences

State == {"Initial", "Starting", "Backoff", "Open", "Healthy", "Error"}

IsOpen(s) == s.state \in {"Open", "Healthy"}
IsStarted(s) == s.state \in {"Starting", "Backoff"} \/ IsOpen(s)

\* A stream that failed waits first, another one asks for credentials.
Start(s) == IF s.state = "Error"
            THEN [s EXCEPT !.state = "Backoff"]
            ELSE [s EXCEPT !.state = "Starting", !.request = TRUE]

\* The credentials are there: the stream counts as open.
ResumeStart(s) == [s EXCEPT !.state = "Open", !.request = FALSE]

\* The delay of the backoff is over.
Resume(s) == Start([s EXCEPT !.state = "Initial"])

\* Sending stops the idle timer.
Send(s, requests) ==
  IF requests = <<>> THEN s
  ELSE [s EXCEPT !.up = @ \o requests, !.idle = FALSE]

MarkIdle(s) == IF IsOpen(s) THEN [s EXCEPT !.idle = TRUE] ELSE s

\* A late answer of the credentials provider is not told apart.
EndStreamKeepsRequest(s, endState) ==
  [s EXCEPT !.state = endState, !.idle = FALSE, !.up = <<>>, !.down = <<>>]
\* The steps of Close up to the state change; an outstanding request for
\* credentials becomes void with the close count.
EndStream(s, endState) ==
  [s EXCEPT !.state = endState, !.idle = FALSE, !.request = FALSE,
            !.up = <<>>, !.down = <<>>]
=============================================================================
