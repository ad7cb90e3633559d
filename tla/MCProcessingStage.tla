------------------------- MODULE MCProcessingStage -------------------------
(***************************************************************************)
(* A small instance of ProcessingStage: one document the product asks for   *)
(* and one more.  A behaviour has one of two subjects, and its calls are     *)
(* about that: the course of the required document through reviews and       *)
(* banking, or OCR of both documents with its failures and retries.  The     *)
(* calls are interchangeable.                                               *)
(***************************************************************************)
EXTENDS ProcessingStage, TLC

VARIABLE subject

Symmetry == Permutations(Calls)

OfCourse(o) ==
  /\ o.j \notin Docs \ Required
  /\ o.op # "ocrFail" /\ (o.op = "retry" => o.j \notin Docs)

OfOcr(o) ==
  \/ o.op \in {"none", "createOcr", "ocrDone", "ocrFail"}
  \/ o.op = "retry" /\ o.j \in Docs

SubjectInit == Init /\ subject \in {"course", "ocr"}
SubjectNext ==
  /\ Next /\ UNCHANGED subject
  /\ \A c \in Calls : IF subject = "course" THEN OfCourse(call'[c]) ELSE OfOcr(call'[c])
SubjectSpec == SubjectInit /\ [][SubjectNext]_<<subject, vars>>
=============================================================================
