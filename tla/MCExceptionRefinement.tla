----------------------- MODULE MCExceptionRefinement -----------------------
(* ExceptionRefinement with one colon definition, for TLC. *)
EXTENDS FiclExceptionProofs

CONSTANT foo

MCOne == {foo}

AllRules == AllObligations
=============================================================================
