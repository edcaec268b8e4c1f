----------------------------- MODULE MCUpdater -----------------------------
(* Updater for TLC: two updaters, with enough inodes that a file can      *)
(* always be created.                                                      *)
EXTENDS Updater

CONSTANTS u1, u2, i1, i2, i3, i4

Two == {u1, u2}
Inodes4 == {i1, i2, i3, i4}
OwnPids == [u \in Updaters |-> IF u = u1 THEN 11 ELSE 12]

\* The installed file, the one a crash goes back to, and what the updaters
\* have open or named: one inode more than all of them is always free.
ASSUME EnoughInodes == Cardinality(Inodes) >= 2 + Cardinality(Updaters)
=============================================================================
