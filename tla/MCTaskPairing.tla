---------------------------- MODULE MCTaskPairing ----------------------------
(* Instances of TaskPairing for TLC. *)
EXTENDS TaskPairing, TLC

CONSTANTS anna, bob

(* Both fetch and restart, days pass; anna posts. *)
FetchRoles == (anna :> {"post", "fetch", "restart"}) @@ (bob :> {"fetch", "restart"})

(* anna posts and looks for replies, also on a new installation; bob       *)
(* replies, also from a new installation.                                  *)
FriendRoles == (anna :> {"post", "receive", "restart", "reinstall"})
               @@ (bob :> {"fetch", "reinstall"})

(* Ids are random and interchangeable: of two tasks the one posted first   *)
(* may be taken to be always the same.                                     *)
FirstTask == CHOOSE t \in TaskIds : TRUE
FirstTaskFirst == (\E t \in TaskIds : author[t] # NoUser) => author[FirstTask] # NoUser
=============================================================================
