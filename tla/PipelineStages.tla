--------------------------- MODULE PipelineStages ---------------------------
(***************************************************************************)
(* The application pipeline: its stages, the legal moves between them and   *)
(* the checks every service makes before it moves an application            *)
(* (src/modules/applications/pipelineState.ts and                           *)
(* applicationLifecycle.service.ts).  Pure definitions, no state.           *)
(***************************************************************************)
EXTENDS Naturals, Sequences

Received      == "Received"
InReview      == "In Review"
DocsRequired  == "Documents Required"
StepsRequired == "Additional Steps Required"
OffToLender   == "Off to Lender"
Offer         == "Offer"
Accepted      == "Accepted"
Rejected      == "Rejected"

\* PIPELINE_STATES, in the order of the array: the order decides what
\* resolveNextPipelineStage proposes.
PipelineOrder == << Received, InReview, DocsRequired, StepsRequired,
                    OffToLender, Offer, Accepted, Rejected >>

Stages == { Received, InReview, DocsRequired, StepsRequired,
            OffToLender, Offer, Accepted, Rejected }

LegalTransitions ==
  [s \in Stages |->
     CASE s = Received      -> {InReview, DocsRequired}
       [] s = InReview      -> {DocsRequired, StepsRequired, OffToLender}
       [] s = DocsRequired  -> {StepsRequired, OffToLender}
       [] s = StepsRequired -> {OffToLender, DocsRequired}
       [] s = OffToLender   -> {Offer, Accepted, Rejected, DocsRequired}
       [] s = Offer         -> {Accepted, Rejected, DocsRequired}
       [] OTHER             -> {}]

TerminalStages == {Accepted, Rejected}

\* assertPipelineTransition returns normally: a move to the stage the
\* application is already in is accepted and changes nothing.
TransitionAllowed(from, to) == from = to \/ to \in LegalTransitions[from]

\* resolveNextPipelineStage: the first legal successor in array order, or
\* nothing (the empty set) for a stage without successors.
NextStage(s) ==
  { t \in LegalTransitions[s] :
      \A i, j \in 1..Len(PipelineOrder) :
        (/\ PipelineOrder[i] = t
         /\ PipelineOrder[j] \in LegalTransitions[s]) => i <= j }
=============================================================================
