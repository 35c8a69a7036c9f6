------------------------------ MODULE Nothing ------------------------------
(* The absent value of the modules of the screens: Python's None. *)
CONSTANT None
=============================================================================
