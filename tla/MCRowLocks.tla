----------------------------- MODULE MCRowLocks -----------------------------
(***************************************************************************)
(* Up to three decisions about two suggestions, at the same time as the    *)
(* end of a review.                                                        *)
(***************************************************************************)
EXTENDS RowLocks

CONSTANTS a1, a2, t1, t2, t3
=============================================================================
