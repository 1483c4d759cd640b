------------------------------- MODULE MCXact -------------------------------
(* Small instances of Xact for TLC: the first of the xids up to MaxXid that is handed *)
(* out, and what each session does.                                                   *)
EXTENDS Xact

\* A writer, a reader with catalog or with registered snapshots, and a vacuum.
Catalog  == <<4, <<{"assign"}, {"snapshot", "catalog"}, {"horizon"}>>>>
Register == <<3, <<{"assign"}, {"snapshot", "register"}, {"horizon"}>>>>

\* A writer, and two sessions that come and go; one writes and looks xids up.
Churn == <<3, <<{"churn"}, {"churn", "assign", "progress", "snapshot"}, {"assign"}>>>>

\* Two writers and a reader that keeps a snapshot while it takes the next; two
\* sessions that write and read.
Order == <<3, <<{"assign"}, {"assign"}, {"snapshot", "register"}>>>>
Both  == <<3, <<{"assign", "snapshot"}, {"assign", "snapshot"}, {}>>>>

\* A session that writes, reads, prepares and finishes, and one that writes and
\* finishes.
Prepare == <<3, <<{"assign", "snapshot", "prepare", "finish"}, {"assign", "finish"}, {}>>>>

\* A session that prepares, one that finishes, and a reader.
PrepareSeen == <<3, <<{"assign", "prepare"}, {"finish"}, {"snapshot"}>>>>

\* A writer of transaction trees, and a session that reads or looks xids up.
TreeRead == <<1, <<{"assign", "sub"}, {"snapshot"}, {}>>>>
TreeTold == <<2, <<{"assign", "nest"}, {"progress"}, {}>>>>

AllPlans == {Catalog, Register, Churn, Order, Both, Prepare, PrepareSeen, TreeRead, TreeTold}
=============================================================================
