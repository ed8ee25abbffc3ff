------------------------------- MODULE Values -------------------------------
(***************************************************************************)
(* The value all parts of the upkeep share.                                *)
(***************************************************************************)
CONSTANT None  \* what is missing: a file, a reading, a result
=============================================================================
