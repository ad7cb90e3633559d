------------------------ MODULE ApplicationPipeline ------------------------
(***************************************************************************)
(* The stage of one application under concurrent HTTP handlers: the staff   *)
(* portal (src/routes/portal.ts), the application routes                    *)
(* (modules/applications/applications.routes.ts), the pipeline service      *)
(* (applications.service.ts) and the offer routes (routes/offers.ts,        *)
(* routes/offerAcceptance.ts).                                              *)
(*                                                                          *)
(* Almost every handler reads applications.pipeline_state in one statement, *)
(* decides, and writes it in a later statement without a transaction, so    *)
(* another handler may run in between: each statement is an action.  The    *)
(* history of moves is application_stage_events.  The initial states are    *)
(* those an earlier history may have left.  The offers table has the columns *)
(* and statuses the statements name.                                        *)
(***************************************************************************)
EXTENDS PipelineStages, FiniteSets

CONSTANTS Handlers,     \* requests in flight at once
          Docs,         \* the documents of the application
          Offers,       \* identities for rows of the offers table
          NewStatuses,  \* statuses the callers of POST /portal/offers name
          MaxRequests,  \* bound on the requests made
          MaxFaults     \* bound on failed statements and lost processes

ASSUME PipelineAssumption == MaxRequests \in Nat /\ MaxFaults \in Nat

VARIABLES stage,        \* applications.pipeline_state
          firstOpened,  \* applications.first_opened_at is not null
          doc,          \* documents.status
          offer,        \* offers rows: status and is_archived
          staged,       \* applications.pending_acceptance_offer_id, as a set
          events,       \* application_stage_events since the initial state
          h,            \* the handler running in each slot
          requests,     \* requests made so far
          faults        \* faults so far

vars == << stage, firstOpened, doc, offer, staged, events, h, requests, faults >>

DocStatus == {"pending_review", "accepted", "rejected"}
OfferStatus == {"absent", "pending", "created", "sent", "accepted", "declined",
                "changes_requested", "pending_acceptance"}

ASSUME StatusAssumption == NewStatuses \subseteq OfferStatus \ {"absent"}

NoRequest == [kind |-> "none"]

\* Every request a handler accepts: its route and its validated input.  The
\* own field says whether the caller works in the silo of the application.
Requests ==
       [kind : {"view", "open", "termSheet", "createOffer"}]
  \cup [kind : {"promote"}, to : Stages \cup {"next"}]
  \cup [kind : {"drag"}, to : Stages]
  \cup [kind : {"status"}, to : {StepsRequired, Accepted, Rejected}]
  \cup [kind : {"acceptDoc", "rejectDoc"}, doc : Docs, own : BOOLEAN]
  \cup [kind : {"portalAccept", "portalDecline", "stageOffer", "confirm",
                "declineOffer"}, offer : Offers]
  \cup [kind : {"patchOffer"}, offer : Offers,
        to : {"created", "sent", "accepted", "declined"}]
  \cup [kind : {"portalOffer"}, to : NewStatuses]

Events == [from : Stages, to : Stages, trigger : STRING]

Idle == [req |-> NoRequest, pc |-> "idle", read |-> Received, to |-> Received,
         trigger |-> ""]

Init ==
  /\ stage \in Stages
  /\ firstOpened \in (IF stage = Received THEN {FALSE} ELSE BOOLEAN)
  /\ doc \in [Docs -> DocStatus]
  /\ offer \in [Offers -> [status : {"absent", "created", "pending_acceptance"},
                           archived : {FALSE}]]
  /\ Cardinality({ o \in Offers : offer[o].status # "absent" }) <= 1
  /\ staged = {}
  /\ events = << >>
  /\ h = [x \in Handlers |-> Idle]
  /\ requests = 0
  /\ faults = 0

----------------------------------------------------------------------------
(* Steps shared by the handlers.                                            *)

Goto(x, pc) == h' = [h EXCEPT ![x].pc = pc]
End(x) == h' = [h EXCEPT ![x] = Idle]
At(x, pc, kinds) == h[x].pc = pc /\ h[x].req.kind \in kinds

\* Decide to move the application from the stage just read.
Plan(x, to, trigger) ==
  h' = [h EXCEPT ![x] = [@ EXCEPT !.pc = "write", !.read = stage, !.to = to,
                                  !.trigger = trigger]]

Arrive(x, r) ==
  /\ h[x].pc = "idle"
  /\ requests < MaxRequests
  /\ requests' = requests + 1
  /\ h' = [h EXCEPT ![x] = [@ EXCEPT !.req = r, !.pc = "start"]]
  /\ UNCHANGED << stage, firstOpened, doc, offer, staged, events, faults >>

\* The UPDATE of pipeline_state, by id and without looking at the old value.
WriteStage(x) ==
  /\ h[x].pc = "write"
  /\ stage' = h[x].to
  /\ Goto(x, "event")
  /\ UNCHANGED << firstOpened, doc, offer, staged, events, requests, faults >>

\* Mutant: the manual moves are not recorded.
RecordTransitionAutoOnly(x) ==
  /\ h[x].pc = "event"
  /\ events' = IF h[x].trigger = "manual" THEN events
               ELSE Append(events, [from |-> h[x].read, to |-> h[x].to,
                                    trigger |-> h[x].trigger])
  /\ End(x)
  /\ UNCHANGED << stage, firstOpened, doc, offer, staged, requests, faults >>

\* createApplicationStageEvent and recordTransition: the move as it was
\* decided, from the stage that was read.
RecordTransition(x) ==
  /\ h[x].pc = "event"
  /\ events' = Append(events, [from |-> h[x].read, to |-> h[x].to,
                               trigger |-> h[x].trigger])
  /\ End(x)
  /\ UNCHANGED << stage, firstOpened, doc, offer, staged, requests, faults >>

\* The portal swallows a failed UPDATE of the stage (.catch(() => {})) and
\* still records the transition; the pipeline service gives up.
SwallowedKinds == {"view", "acceptDoc", "rejectDoc", "termSheet"}
FailWrite(x) ==
  /\ h[x].pc = "write"
  /\ faults < MaxFaults
  /\ faults' = faults + 1
  /\ IF h[x].req.kind \in SwallowedKinds THEN Goto(x, "event") ELSE End(x)
  /\ UNCHANGED << stage, firstOpened, doc, offer, staged, events, requests >>

\* The process is lost, or a statement fails and its error ends the request:
\* what has been written stays written.
Lose(x) ==
  /\ h[x].pc # "idle"
  /\ faults < MaxFaults
  /\ faults' = faults + 1
  /\ End(x)
  /\ UNCHANGED << stage, firstOpened, doc, offer, staged, events, requests >>

----------------------------------------------------------------------------
(* Opening an application.                                                  *)

\* GET /applications/:id moves a Received application to In Review.
ViewApplication(x) ==
  /\ At(x, "start", {"view"})
  /\ IF stage = Received THEN Plan(x, InReview, "viewed") ELSE End(x)
  /\ UNCHANGED << stage, firstOpened, doc, offer, staged, events, requests, faults >>

\* POST /applications/:id/open: the read that opens the transaction.
OpenRead(x) ==
  /\ At(x, "start", {"open"})
  /\ h' = [h EXCEPT ![x] = [@ EXCEPT !.pc = "open", !.read = stage]]
  /\ UNCHANGED << stage, firstOpened, doc, offer, staged, events, requests, faults >>

\* updateApplicationFirstOpenedAt tells whether this call is the first; its
\* UPDATE locks the application's row until the transaction ends.
DidOpen == ~firstOpened

\* The rest of the transaction.  The stage is read again under the row lock;
\* if it has moved to a stage from which In Review is illegal the call fails
\* and its mark is rolled back with it.
OpenCommit(x) ==
  /\ h[x].pc = "open"
  /\ IF DidOpen /\ h[x].read = Received
       THEN IF TransitionAllowed(stage, InReview)
              THEN /\ firstOpened' = TRUE
                   /\ stage' = InReview
                   /\ events' = IF stage = InReview THEN events
                                ELSE Append(events, [from |-> stage, to |-> InReview,
                                                     trigger |-> "first_opened"])
              ELSE UNCHANGED << firstOpened, stage, events >>
       ELSE /\ firstOpened' = TRUE
            /\ UNCHANGED << stage, events >>
  /\ End(x)
  /\ UNCHANGED << doc, offer, staged, requests, faults >>

----------------------------------------------------------------------------
(* Moves by staff.                                                          *)

\* POST /applications/:id/promote: the admin's own check, before the
\* pipeline service reads the stage again.
Promote(x) ==
  LET next == IF h[x].req.to = "next" THEN NextStage(stage) ELSE {h[x].req.to} IN
  /\ At(x, "start", {"promote"})
  /\ \/ \E to \in next :
          /\ to \in LegalTransitions[stage]
          /\ h' = [h EXCEPT ![x] = [@ EXCEPT !.pc = "transition", !.to = to]]
     \/ /\ \A to \in next : to \notin LegalTransitions[stage]
        /\ End(x)
  /\ UNCHANGED << stage, firstOpened, doc, offer, staged, events, requests, faults >>

\* PATCH /applications/:id (a card dragged to another column) and PATCH
\* /applications/:id/status call the pipeline service directly.
Drag(x) ==
  /\ At(x, "start", {"drag", "status"})
  /\ h' = [h EXCEPT ![x] = [@ EXCEPT !.pc = "transition", !.to = h[x].req.to]]
  /\ UNCHANGED << stage, firstOpened, doc, offer, staged, events, requests, faults >>

\* transitionPipelineState: read, refuse an illegal move, skip a move to the
\* same stage.
TransitionPipelineState(x) ==
  /\ h[x].pc = "transition"
  /\ IF h[x].to \in LegalTransitions[stage]
       THEN Plan(x, h[x].to, "manual")
       ELSE End(x)
  /\ UNCHANGED << stage, firstOpened, doc, offer, staged, events, requests, faults >>

----------------------------------------------------------------------------
(* Document review.                                                         *)

\* POST /documents/:id/accept and /reject change the document first.
ReviewDocument(x) ==
  /\ At(x, "start", {"acceptDoc", "rejectDoc"})
  /\ doc' = [doc EXCEPT ![h[x].req.doc] =
                IF h[x].req.kind = "acceptDoc" THEN "accepted" ELSE "rejected"]
  /\ Goto(x, CASE ~h[x].req.own -> "undo"
               [] h[x].req.kind = "acceptDoc" -> "count"
               [] OTHER -> "readStage")
  /\ UNCHANGED << stage, firstOpened, offer, staged, events, requests, faults >>

\* A caller of another silo: the change is undone by a second UPDATE.
UndoReview(x) ==
  /\ h[x].pc = "undo"
  /\ doc' = [doc EXCEPT ![h[x].req.doc] = "pending_review"]
  /\ End(x)
  /\ UNCHANGED << stage, firstOpened, offer, staged, events, requests, faults >>

\* allDocumentsAccepted: rejected documents are not counted.
AllDocumentsAccepted ==
  LET counted == { d \in Docs : doc[d] # "rejected" } IN
  counted # {} /\ \A d \in counted : doc[d] = "accepted"

CountDocuments(x) ==
  /\ h[x].pc = "count"
  /\ IF AllDocumentsAccepted THEN Goto(x, "readStage") ELSE End(x)
  /\ UNCHANGED << stage, firstOpened, doc, offer, staged, events, requests, faults >>

\* The stages from which a finished review moves the application.
SentFrom == {InReview, DocsRequired, StepsRequired}
ReturnedFrom == {InReview, OffToLender, Received}

ReadStageAfterReview(x) ==
  /\ At(x, "readStage", {"acceptDoc", "rejectDoc"})
  /\ \/ /\ h[x].req.kind = "acceptDoc" /\ stage \in SentFrom
        /\ Plan(x, OffToLender, "all_accepted")
     \/ /\ h[x].req.kind = "rejectDoc" /\ stage \in ReturnedFrom
        /\ Plan(x, DocsRequired, "doc_rejected")
     \/ /\ stage \notin (IF h[x].req.kind = "acceptDoc" THEN SentFrom ELSE ReturnedFrom)
        /\ End(x)
  /\ UNCHANGED << stage, firstOpened, doc, offer, staged, events, requests, faults >>

----------------------------------------------------------------------------
(* Offers.                                                                  *)

\* A new row takes an identity not used yet; Offers bounds how many there are.
Insert(o, status) ==
  /\ offer[o].status = "absent"
  /\ offer' = [offer EXCEPT ![o].status = status]

SetOffer(x, status) == offer' = [offer EXCEPT ![h[x].req.offer].status = status]
OfferOf(x) == offer[h[x].req.offer]

\* POST /applications/:id/term-sheet archives the live offers ...
ArchiveOffers(x) ==
  /\ At(x, "start", {"termSheet"})
  /\ offer' = [o \in Offers |-> IF offer[o].status = "absent" THEN offer[o]
                                ELSE [offer[o] EXCEPT !.archived = TRUE]]
  /\ Goto(x, "insert")
  /\ UNCHANGED << stage, firstOpened, doc, staged, events, requests, faults >>

\* ... inserts the new one ...
InsertTermSheet(x) ==
  /\ h[x].pc = "insert"
  /\ \E o \in Offers : Insert(o, "pending")
  /\ Goto(x, "readStage")
  /\ UNCHANGED << stage, firstOpened, doc, staged, events, requests, faults >>

\* ... and moves an application that is with the lender to Offer.
ReadStageAfterTermSheet(x) ==
  /\ At(x, "readStage", {"termSheet"})
  /\ IF stage = OffToLender THEN Plan(x, Offer, "term_sheet") ELSE End(x)
  /\ UNCHANGED << stage, firstOpened, doc, offer, staged, events, requests, faults >>

\* POST /portal/offers stores the status its caller names.
PortalCreateOffer(x) ==
  /\ At(x, "start", {"portalOffer"})
  /\ \E o \in Offers : Insert(o, h[x].req.to)
  /\ End(x)
  /\ UNCHANGED << stage, firstOpened, doc, staged, events, requests, faults >>

\* POST /offers.
CreateOffer(x) ==
  /\ At(x, "start", {"createOffer"})
  /\ \E o \in Offers : Insert(o, "created")
  /\ End(x)
  /\ UNCHANGED << stage, firstOpened, doc, staged, events, requests, faults >>

\* Mutant: an accepted offer can still be declined.
DisposableLate(o) == ~o.archived /\ o.status \in {"pending", "created", "sent", "accepted"}

\* The condition of the client's two dispositions on the portal.
Disposable(o) == ~o.archived /\ o.status \in {"pending", "created", "sent"}

\* POST /portal/offers/:id/accept, first statement.
PortalAccept(x) ==
  /\ At(x, "start", {"portalAccept"})
  /\ IF Disposable(OfferOf(x))
       THEN SetOffer(x, "accepted") /\ Goto(x, "accepted")
       ELSE End(x) /\ UNCHANGED offer
  /\ UNCHANGED << stage, firstOpened, doc, staged, events, requests, faults >>

\* Mutant: the UPDATE forgets its condition on the stage.
AcceptApplicationAnyStage(x) ==
  /\ h[x].pc = "accepted"
  /\ stage' = Accepted
  /\ End(x)
  /\ UNCHANGED << firstOpened, doc, offer, staged, events, requests, faults >>

\* Second statement: a conditional UPDATE, recorded in no stage event.
AcceptApplication(x) ==
  /\ h[x].pc = "accepted"
  /\ stage' = IF stage \in {Offer, OffToLender} THEN Accepted ELSE stage
  /\ End(x)
  /\ UNCHANGED << firstOpened, doc, offer, staged, events, requests, faults >>

PortalDecline(x) ==
  /\ At(x, "start", {"portalDecline"})
  /\ IF Disposable(OfferOf(x)) THEN SetOffer(x, "changes_requested") ELSE UNCHANGED offer
  /\ End(x)
  /\ UNCHANGED << stage, firstOpened, doc, staged, events, requests, faults >>

\* PATCH /offers/:id/status, here and on the portal: any of four statuses over any status.
PatchOffer(x) ==
  /\ At(x, "start", {"patchOffer"})
  /\ IF OfferOf(x).status # "absent" THEN SetOffer(x, h[x].req.to) ELSE UNCHANGED offer
  /\ End(x)
  /\ UNCHANGED << stage, firstOpened, doc, staged, events, requests, faults >>

Open(o) == o.status \notin {"absent", "accepted", "declined"}

\* POST /offers/:id/accept stages the offer ...
StageOffer(x) ==
  /\ At(x, "start", {"stageOffer"})
  /\ IF Open(OfferOf(x))
       THEN SetOffer(x, "pending_acceptance") /\ Goto(x, "staged")
       ELSE End(x) /\ UNCHANGED offer
  /\ UNCHANGED << stage, firstOpened, doc, staged, events, requests, faults >>

\* ... and then names it on the application.
NameStagedOffer(x) ==
  /\ h[x].pc = "staged"
  /\ staged' = {h[x].req.offer}
  /\ End(x)
  /\ UNCHANGED << stage, firstOpened, doc, offer, events, requests, faults >>

\* POST /offers/:id/confirm-acceptance by staff.
ConfirmAcceptance(x) ==
  /\ At(x, "start", {"confirm"})
  /\ IF OfferOf(x).status = "pending_acceptance" THEN SetOffer(x, "accepted")
                                                 ELSE UNCHANGED offer
  /\ End(x)
  /\ UNCHANGED << stage, firstOpened, doc, staged, events, requests, faults >>

DeclineOffer(x) ==
  /\ At(x, "start", {"declineOffer"})
  /\ IF Open(OfferOf(x)) THEN SetOffer(x, "declined") ELSE UNCHANGED offer
  /\ End(x)
  /\ UNCHANGED << stage, firstOpened, doc, staged, events, requests, faults >>

----------------------------------------------------------------------------
Step(x) ==
  \/ WriteStage(x) \/ RecordTransition(x)
  \/ ViewApplication(x) \/ OpenRead(x) \/ OpenCommit(x)
  \/ Promote(x) \/ Drag(x) \/ TransitionPipelineState(x)
  \/ ReviewDocument(x) \/ UndoReview(x) \/ CountDocuments(x)
  \/ ReadStageAfterReview(x)
  \/ ArchiveOffers(x) \/ InsertTermSheet(x) \/ ReadStageAfterTermSheet(x)
  \/ CreateOffer(x) \/ PortalCreateOffer(x) \/ PortalAccept(x) \/ AcceptApplication(x)
  \/ PortalDecline(x) \/ PatchOffer(x) \/ StageOffer(x) \/ NameStagedOffer(x)
  \/ ConfirmAcceptance(x) \/ DeclineOffer(x)

Next ==
  \E x \in Handlers :
    \/ \E r \in Requests : Arrive(x, r)
    \/ Step(x)
    \/ FailWrite(x)
    \/ Lose(x)

Spec == Init /\ [][Next]_vars

----------------------------------------------------------------------------
(* Properties.                                                              *)

\* The columns hold values of their enumerations, the log holds moves between
\* stages, and a running handler remembers a request it was given.
TypeOK ==
  /\ stage \in Stages
  /\ firstOpened \in BOOLEAN
  /\ doc \in [Docs -> DocStatus]
  /\ offer \in [Offers -> [status : OfferStatus, archived : BOOLEAN]]
  /\ staged \subseteq Offers
  /\ \A i \in 1..Len(events) : events[i].from \in Stages /\ events[i].to \in Stages
  /\ \A x \in Handlers : /\ h[x].req \in Requests \cup {NoRequest}
                         /\ h[x].read \in Stages /\ h[x].to \in Stages
  /\ requests \in 0..MaxRequests
  /\ faults \in 0..MaxFaults

\* Every row of application_stage_events is a legal move, whoever wrote it and
\* whatever ran meanwhile: the stage lists hard-coded in portal.ts agree with
\* LEGAL_TRANSITIONS.
EventsAreLegal ==
  \A i \in 1..Len(events) : events[i].to \in LegalTransitions[events[i].from]

\* An application only makes an illegal move when a handler writes a decision
\* it took on a stage that another handler has changed since.  In particular
\* Accepted and Rejected are never left by handlers that do not overlap.
IllegalMoveNeedsStaleRead ==
  [][ \/ stage' = stage
      \/ stage' \in LegalTransitions[stage]
      \/ \E x \in Handlers : h[x].pc = "write" /\ h[x].read # stage /\ h'[x] # h[x]
    ]_vars

\* An application marked as opened has left Received: the mark and the move
\* commit or roll back together, whatever moved the stage between the handler's
\* two reads.
OpenedLeavesReceived == firstOpened => stage # Received

\* When no statement failed and no handler is running, the stage is the target
\* of some recorded move, or Accepted through the client's acceptance, which
\* records none: interleaved writers may record their moves in another order
\* than they made them but lose none.
StageIsRecorded ==
  (/\ faults = 0
   /\ events # << >>
   /\ \A x \in Handlers : h[x].pc = "idle")
  => \/ stage = Accepted
     \/ \E i \in 1..Len(events) : events[i].to = stage

\* The stage, the log of its moves and the mark of the first opening agree
\* however handlers interleave and whichever statement fails.
StageAndLogAgree == TypeOK /\ EventsAreLegal /\ OpenedLeavesReceived /\ StageIsRecorded

\* An accepted offer is taken back only by the staff's PATCH of its status: no
\* late decline, second acceptance or staging by the client changes it.
AcceptedOfferStands ==
  [][ \A o \in Offers :
        (offer[o].status = "accepted" /\ offer'[o].status # "accepted")
        => \E x \in Handlers : At(x, "start", {"patchOffer"}) ]_vars

\* routes/offers.ts says of the offer_accepted event that its listener moves
\* the application: with every handler finished, no application waits in Offer
\* beside an accepted offer.  No listener is registered, so it does.
AcceptedOfferMovesApplication ==
  (/\ faults = 0
   /\ \A x \in Handlers : h[x].pc = "idle"
   /\ \E o \in Offers : offer[o].status = "accepted" /\ ~offer[o].archived)
  => stage # Offer
=============================================================================
