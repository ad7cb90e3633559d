--------------------------- MODULE MCClientSubmit ---------------------------
(***************************************************************************)
(* Small instances of ClientSubmit.  Requests in flight are                 *)
(* interchangeable.                                                         *)
(***************************************************************************)
EXTENDS ClientSubmit, TLC

Symmetry == Permutations(Handlers)
=============================================================================
