----------------------------- MODULE MCDevLoop -----------------------------
(* The edit-build loop over a small tree.                                    *)
EXTENDS DevLoop
=============================================================================
