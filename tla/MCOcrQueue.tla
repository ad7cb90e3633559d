----------------------------- MODULE MCOcrQueue -----------------------------
(***************************************************************************)
(* Small instances of OcrQueue.                                             *)
(***************************************************************************)
EXTENDS OcrQueue
=============================================================================
