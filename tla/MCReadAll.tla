----------------------------- MODULE MCReadAll -----------------------------
(* Four channels: an unsorted data group with two channel groups, the      *)
(* first with a master; a sorted one; two channels of the same name.       *)
EXTENDS ReadAll

Names == <<"t", "a", "a", "b">>
GroupsOf == <<1, 1, 2, 3>>
Masters == <<1, 0, 0>>
DataGroups == <<1, 1, 2>>
=============================================================================
