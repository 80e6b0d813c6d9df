----------------------------- MODULE MCGroupJoin -----------------------------
(* Instances of GroupJoin for TLC. *)
EXTENDS GroupJoin, TLC

FounderIds == {"Aaron", "Eric", "Hank", "Ella"}

(* The app as it is: every device joins as the default argument. *)
ShippedIds == FounderIds \cup {"WangHuaYue"}
ShippedUserId == [d \in Devices |-> "WangHuaYue"]

(* Limits below, at and above the number of founders. *)
Limits == {3, 4, 5}
=============================================================================
