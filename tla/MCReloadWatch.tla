--------------------------- MODULE MCReloadWatch ---------------------------
(* ReloadWatch for TLC: two files are enough for a walk or a load to fall  *)
(* between two rewrites.                                                    *)
EXTENDS ReloadWatch

CONSTANTS f1, f2

OneFile == {f1}
TwoFiles == {f1, f2}
=============================================================================
