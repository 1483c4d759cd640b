---------------------------- MODULE MCGroupClear ----------------------------
(* GroupClear for TLC; the cfg files give the bounds. *)
EXTENDS GroupClear
=============================================================================
