------------------------------ MODULE MCFeedList ------------------------------
(* Instances of FeedList for TLC: three documents, the first two created   *)
(* in the same minute.                                                     *)
EXTENDS FeedList, TLC

CONSTANTS a, b, c

Times == (a :> 1) @@ (b :> 1) @@ (c :> 2)
=============================================================================
