----------------------- MODULE MCApplicationPipeline -----------------------
(***************************************************************************)
(* Small instances of ApplicationPipeline.  Handlers, documents and offers  *)
(* are interchangeable.                                                     *)
(***************************************************************************)
EXTENDS ApplicationPipeline, TLC

Symmetry == Permutations(Handlers) \cup Permutations(Docs) \cup Permutations(Offers)
=============================================================================
