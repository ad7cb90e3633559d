---------------------- MODULE ApplicationPipelineProofs ----------------------
(***************************************************************************)
(* The stage of an application for any number of handlers, documents,      *)
(* offers, requests and faults: the stage and its log agree, an illegal    *)
(* move needs a stale read, and an accepted offer stands.                  *)
(***************************************************************************)
EXTENDS ApplicationPipeline, TLAPS

Places == {"idle", "start", "write", "event", "open", "transition", "undo", "count",
           "readStage", "insert", "accepted", "staged"}

Triggers == {"", "viewed", "first_opened", "manual", "all_accepted", "doc_rejected", "term_sheet"}

LogRow == [from : Stages, to : Stages, trigger : Triggers]

HandlerState == [req : Requests \cup {NoRequest}, pc : Places, read : Stages, to : Stages,
                 trigger : Triggers]

\* The types of TypeOK, with the handlers and the log as a function and a sequence.
Typed == TypeOK /\ h \in [Handlers -> HandlerState] /\ events \in Seq(LogRow)

\* A handler that is about to write, or to record, decided on a legal move from
\* the stage it read.
Decided == \A x \in Handlers :
    h[x].pc \in {"write", "event"} => h[x].to \in LegalTransitions[h[x].read]

\* No handler brings an application back to Received.
ReadStands == \A x \in Handlers : h[x].pc = "open" /\ h[x].read # Received => stage # Received

\* Where the present stage comes from, as long as nothing failed.
StageHasSource ==
  faults = 0 =>
    \/ stage = Accepted
    \/ \E i \in 1..Len(events) : events[i].to = stage
    \/ \E x \in Handlers : h[x].pc = "event" /\ h[x].to = stage
    \/ events = << >> /\ \A x \in Handlers : h[x].pc # "event"

\* A handler that staged an offer names that one.
StagesAnOffer == \A x \in Handlers : h[x].pc = "staged" => h[x].req.offer \in Offers

AInv == Typed /\ StagesAnOffer /\ Decided /\ ReadStands /\ StageHasSource /\ EventsAreLegal /\ OpenedLeavesReceived

-----------------------------------------------------------------------------
(* Facts about the data                                                     *)

\* A legal move goes to another stage and never to Received.
LEMMA LegalMoves ==
  /\ \A s \in Stages : LegalTransitions[s] \subseteq Stages /\ Received \notin LegalTransitions[s]
  /\ InReview \in LegalTransitions[Received]
  /\ \A s \in SentFrom : OffToLender \in LegalTransitions[s]
  /\ \A s \in ReturnedFrom : DocsRequired \in LegalTransitions[s]
  /\ Offer \in LegalTransitions[OffToLender]
  /\ \A s \in {Offer, OffToLender} : Accepted \in LegalTransitions[s]
  BY DEF LegalTransitions, Stages, SentFrom, ReturnedFrom, Received, InReview, DocsRequired,
         StepsRequired, OffToLender, Offer, Accepted, Rejected

\* What a request of each kind carries.
LEMMA RequestFields ==
  ASSUME NEW r \in Requests \cup {NoRequest}
  PROVE  /\ r.kind \in {"drag", "status"} => r.to \in Stages
         /\ r.kind \in {"acceptDoc", "rejectDoc"} => r.doc \in Docs
         /\ r.kind \in {"portalAccept", "portalDecline", "stageOffer", "confirm",
                        "declineOffer", "patchOffer"} => r.offer \in Offers
         /\ r.kind \in {"patchOffer", "portalOffer"} => r.to \in OfferStatus
  <1>1. CASE r = NoRequest
    BY <1>1 DEF NoRequest
  <1>2. CASE r \in [kind : {"view", "open", "termSheet", "createOffer"}]
    BY <1>2
  <1>3. CASE r \in [kind : {"promote"}, to : Stages \cup {"next"}]
    BY <1>3
  <1>4. CASE r \in [kind : {"drag"}, to : Stages]
    BY <1>4
  <1>5. CASE r \in [kind : {"status"}, to : {StepsRequired, Accepted, Rejected}]
    BY <1>5 DEF Stages
  <1>6. CASE r \in [kind : {"acceptDoc", "rejectDoc"}, doc : Docs, own : BOOLEAN]
    BY <1>6
  <1>7. CASE r \in [kind : {"portalAccept", "portalDecline", "stageOffer", "confirm",
                            "declineOffer"}, offer : Offers]
    BY <1>7
  <1>8. CASE r \in [kind : {"patchOffer"}, offer : Offers,
                    to : {"created", "sent", "accepted", "declined"}]
    BY <1>8 DEF OfferStatus
  <1>9. CASE r \in [kind : {"portalOffer"}, to : NewStatuses]
    BY <1>9, StatusAssumption DEF OfferStatus
  <1> QED BY <1>1, <1>2, <1>3, <1>4, <1>5, <1>6, <1>7, <1>8, <1>9 DEF Requests

LEMMA IdleTyped == Idle \in HandlerState /\ Idle.pc = "idle"
  BY DEF Idle, HandlerState, Places, Triggers, Stages

-----------------------------------------------------------------------------
(* What a step does to its handler, the stage and the log                   *)

\* The stage, the mark and the log are left alone.
Untouched == UNCHANGED << stage, firstOpened, events >>

\* x takes a decision on the stage as it is.
Decides(x) == /\ h'[x].pc = "write" /\ h'[x].read = stage
              /\ h'[x].to \in LegalTransitions[stage]

\* The ways a handler moves on without writing the stage or the log.
MovesOn(x) ==
  \/ h'[x].pc \notin {"write", "event", "open"}
  \/ Decides(x)
  \/ h'[x].pc = "open" /\ h'[x].read = stage
  \/ h[x].pc = "write" /\ h'[x].pc = "event" /\ h'[x].to = h[x].to /\ h'[x].read = h[x].read
     /\ faults' > 0

Moves(x) ==
  /\ h' = [h EXCEPT ![x] = h'[x]]
  /\ h'[x] \in HandlerState
  /\ \/ Untouched /\ MovesOn(x) /\ (h[x].pc = "event" => faults' > 0)
     \/ WriteStage(x) \/ RecordTransition(x) \/ OpenCommit(x)
     \/ AcceptApplication(x) /\ h'[x].pc = "idle"

\* A handler that ends, or goes to a given place.
LEMMA Ends ==
  ASSUME Typed, NEW x \in Handlers, End(x)
  PROVE  h'[x] \in HandlerState /\ h'[x].pc = "idle" /\ h' = [h EXCEPT ![x] = h'[x]]
  BY IdleTyped DEF Typed, End

LEMMA Goes ==
  ASSUME Typed, NEW x \in Handlers, NEW pc \in Places, Goto(x, pc)
  PROVE  /\ h'[x] \in HandlerState /\ h'[x].pc = pc
         /\ h'[x].to = h[x].to /\ h'[x].read = h[x].read
         /\ h' = [h EXCEPT ![x] = h'[x]]
  BY DEF Typed, Goto, HandlerState

LEMMA Plans ==
  ASSUME Typed, NEW x \in Handlers, NEW to \in LegalTransitions[stage], NEW trigger \in Triggers,
         Plan(x, to, trigger)
  PROVE  /\ h'[x] \in HandlerState /\ Decides(x)
         /\ h' = [h EXCEPT ![x] = h'[x]]
  <1>1. stage \in Stages /\ to \in Stages
    BY LegalMoves DEF Typed, TypeOK
  <1> QED BY <1>1 DEF Typed, Plan, Decides, HandlerState, Places

LEMMA StepMoves ==
  ASSUME AInv, NEW x \in Handlers, Step(x) \/ FailWrite(x) \/ Lose(x) \/ \E r \in Requests : Arrive(x, r)
  PROVE  Moves(x)
  <1> USE DEF AInv
  <1>t. /\ h \in [Handlers -> HandlerState] /\ h[x] \in HandlerState /\ stage \in Stages
        /\ faults \in Nat /\ h[x].req \in Requests \cup {NoRequest}
        /\ {"idle", "start", "write", "event", "open", "transition", "undo", "count",
            "readStage", "insert", "accepted", "staged"} = Places
    BY DEF Typed, TypeOK, HandlerState, Places
  <1>1. ASSUME NEW r \in Requests, Arrive(x, r) PROVE Moves(x)
    <2>1. h'[x] = [h[x] EXCEPT !.req = r, !.pc = "start"] /\ h' = [h EXCEPT ![x] = h'[x]]
      BY <1>1, <1>t DEF Arrive
    <2>2. h'[x] \in HandlerState /\ h'[x].pc = "start"
      BY <2>1, <1>t DEF HandlerState, Places
    <2> QED BY <1>1, <2>1, <2>2 DEF Moves, MovesOn, Arrive, Untouched
  <1>2. ASSUME WriteStage(x) PROVE Moves(x)
    BY <1>2, <1>t, Goes DEF WriteStage, Moves
  <1>3. ASSUME RecordTransition(x) \/ OpenCommit(x) PROVE Moves(x)
    BY <1>3, Ends DEF RecordTransition, OpenCommit, Moves
  <1>4. ASSUME AcceptApplication(x) PROVE Moves(x)
    BY <1>4, Ends DEF AcceptApplication, Moves
  <1>5. ASSUME Untouched, End(x), h[x].pc = "event" => faults' > 0 PROVE Moves(x)
    BY <1>5, Ends DEF Moves, MovesOn
  <1>6. ASSUME Untouched, NEW pc \in Places \ {"write", "event", "open"}, Goto(x, pc), h[x].pc # "event"
        PROVE Moves(x)
    BY <1>6, Goes DEF Moves, MovesOn
  <1>7. ASSUME Untouched, NEW to \in LegalTransitions[stage], NEW trigger \in Triggers, h[x].pc # "event",
               Plan(x, to, trigger)
        PROVE Moves(x)
    BY <1>7, Plans DEF Moves, MovesOn
  <1>8. ASSUME FailWrite(x) PROVE Moves(x)
    <2>1. Untouched /\ faults' > 0 /\ h[x].pc = "write"
      BY <1>8, <1>t DEF FailWrite, Untouched
    <2>2. CASE Goto(x, "event")
      BY <2>1, <2>2, <1>t, Goes DEF Moves, MovesOn
    <2> QED BY <1>5, <1>8, <2>1, <2>2 DEF FailWrite
  <1>9. ASSUME Lose(x) PROVE Moves(x)
    <2>1. Untouched /\ End(x) /\ faults' > 0
      BY <1>9, <1>t DEF Lose, Untouched
    <2> QED BY <1>5, <2>1
  <1>10. ASSUME ViewApplication(x) PROVE Moves(x)
    BY <1>10, <1>5, <1>7, LegalMoves DEF ViewApplication, At, Untouched, Triggers
  <1>11. ASSUME OpenRead(x) PROVE Moves(x)
    <2>1. h'[x] = [h[x] EXCEPT !.pc = "open", !.read = stage] /\ h' = [h EXCEPT ![x] = h'[x]]
      BY <1>11, <1>t DEF OpenRead
    <2>2. h'[x] \in HandlerState /\ h'[x].pc = "open" /\ h'[x].read = stage
      BY <2>1, <1>t DEF HandlerState, Places
    <2> QED BY <1>11, <2>1, <2>2 DEF OpenRead, At, Moves, MovesOn, Untouched
  <1>12. ASSUME NEW to \in Stages, Untouched, h[x].pc # "event",
                h' = [h EXCEPT ![x] = [@ EXCEPT !.pc = "transition", !.to = to]]
         PROVE Moves(x)
    <2>1. h'[x] = [h[x] EXCEPT !.pc = "transition", !.to = to] /\ h' = [h EXCEPT ![x] = h'[x]]
      BY <1>12, <1>t
    <2>2. h'[x] \in HandlerState /\ h'[x].pc = "transition"
      BY <2>1, <1>t DEF HandlerState, Places
    <2> QED BY <1>12, <2>1, <2>2 DEF Moves, MovesOn
  <1>13. ASSUME Promote(x) PROVE Moves(x)
    <2>1. Untouched /\ h[x].pc # "event"
      BY <1>13 DEF Promote, Untouched, At
    <2>2. ASSUME NEW to \in LegalTransitions[stage],
                 h' = [h EXCEPT ![x] = [@ EXCEPT !.pc = "transition", !.to = to]]
          PROVE Moves(x)
      BY <2>1, <2>2, <1>12, <1>t, LegalMoves
    <2> QED BY <1>13, <2>1, <2>2, <1>5 DEF Promote
  <1>14. ASSUME Drag(x) PROVE Moves(x)
    <2>1. h[x].req.to \in Stages
      BY <1>14, <1>t, RequestFields DEF Drag, At
    <2> QED BY <1>14, <2>1, <1>12 DEF Drag, At, Untouched
  <1>15. ASSUME TransitionPipelineState(x) PROVE Moves(x)
    BY <1>15, <1>5, <1>7 DEF TransitionPipelineState, Untouched, Triggers
  <1>16. ASSUME ReviewDocument(x) PROVE Moves(x)
    <2>1. Untouched /\ h[x].pc # "event"
          /\ \E pc \in {"undo", "count", "readStage"} : Goto(x, pc)
      BY <1>16 DEF ReviewDocument, At, Untouched
    <2> QED BY <2>1, <1>6, <1>t
  <1>17. ASSUME CountDocuments(x) PROVE Moves(x)
    BY <1>17, <1>5, <1>6, <1>t DEF CountDocuments, Untouched
  <1>18. ASSUME ReadStageAfterReview(x) PROVE Moves(x)
    BY <1>18, <1>5, <1>7, LegalMoves DEF ReadStageAfterReview, At, Untouched, Triggers
  <1>19. ASSUME ArchiveOffers(x) \/ InsertTermSheet(x) PROVE Moves(x)
    BY <1>19, <1>6, <1>t DEF ArchiveOffers, InsertTermSheet, At, Untouched
  <1>20. ASSUME ReadStageAfterTermSheet(x) PROVE Moves(x)
    BY <1>20, <1>5, <1>7, LegalMoves DEF ReadStageAfterTermSheet, At, Untouched, Triggers
  <1>21. ASSUME PortalAccept(x) \/ StageOffer(x) PROVE Moves(x)
    BY <1>21, <1>5, <1>6, <1>t DEF PortalAccept, StageOffer, At, Untouched
  <1>22. ASSUME \/ UndoReview(x) \/ CreateOffer(x) \/ PortalDecline(x) \/ PatchOffer(x)
                \/ PortalCreateOffer(x) \/ NameStagedOffer(x) \/ ConfirmAcceptance(x) \/ DeclineOffer(x)
         PROVE Moves(x)
    BY <1>22, <1>5 DEF UndoReview, CreateOffer, PortalCreateOffer, PortalDecline, PatchOffer, NameStagedOffer,
       ConfirmAcceptance, DeclineOffer, At, Untouched
  <1> QED
    BY <1>1, <1>2, <1>3, <1>4, <1>8, <1>9, <1>10, <1>11, <1>13, <1>14, <1>15, <1>16, <1>17,
       <1>18, <1>19, <1>20, <1>21, <1>22 DEF Step

-----------------------------------------------------------------------------
(* Types *)

\* The rows that are not the stage keep their types.
RowsTyped == /\ doc \in [Docs -> DocStatus]
             /\ offer \in [Offers -> [status : OfferStatus, archived : BOOLEAN]]
             /\ staged \subseteq Offers
             /\ requests \in 0..MaxRequests /\ faults \in 0..MaxFaults

LEMMA OfferWrites ==
  ASSUME Typed, NEW x \in Handlers, h[x].req.offer \in Offers, NEW status \in OfferStatus,
         SetOffer(x, status)
  PROVE  offer' \in [Offers -> [status : OfferStatus, archived : BOOLEAN]]
  BY DEF Typed, TypeOK, SetOffer

LEMMA RowsKept ==
  ASSUME Typed, StagesAnOffer, NEW x \in Handlers, Step(x) \/ FailWrite(x) \/ Lose(x) \/ \E r \in Requests : Arrive(x, r)
  PROVE  RowsTyped'
  <1>t. RowsTyped /\ h[x].req \in Requests \cup {NoRequest}
    BY DEF Typed, TypeOK, RowsTyped
  <1>1. CASE UNCHANGED << doc, offer, staged, requests, faults >>
    BY <1>1, <1>t DEF RowsTyped
  <1>2. ASSUME NEW r \in Requests, Arrive(x, r) PROVE RowsTyped'
    <2>1. requests \in 0..MaxRequests /\ requests < MaxRequests /\ requests' = requests + 1
      BY <1>2, <1>t DEF Arrive, RowsTyped
    <2>2. requests' \in 0..MaxRequests
      BY <2>1, PipelineAssumption
    <2>3. UNCHANGED << doc, offer, staged, faults >>
      BY <1>2 DEF Arrive
    <2> QED BY <2>2, <2>3, <1>t DEF RowsTyped
  <1>3. CASE FailWrite(x) \/ Lose(x)
    BY <1>3, <1>t, PipelineAssumption DEF FailWrite, Lose, RowsTyped
  <1>4. CASE ReviewDocument(x) \/ UndoReview(x)
    BY <1>4, <1>t DEF ReviewDocument, UndoReview, RowsTyped, DocStatus
  <1>5. CASE ArchiveOffers(x)
    BY <1>5, <1>t DEF ArchiveOffers, RowsTyped
  <1>6. CASE InsertTermSheet(x) \/ CreateOffer(x) \/ PortalCreateOffer(x)
    <2>1. PICK o \in Offers, status \in OfferStatus : Insert(o, status)
      BY <1>6, <1>t, RequestFields DEF InsertTermSheet, CreateOffer, PortalCreateOffer, At,
         OfferStatus
    <2>2. offer' \in [Offers -> [status : OfferStatus, archived : BOOLEAN]]
      BY <2>1, <1>t DEF Insert, RowsTyped, OfferStatus
    <2> QED BY <2>2, <1>6, <1>t DEF InsertTermSheet, CreateOffer, PortalCreateOffer, RowsTyped
  <1>7. CASE PortalAccept(x) \/ PortalDecline(x) \/ StageOffer(x) \/ ConfirmAcceptance(x)
             \/ DeclineOffer(x) \/ PatchOffer(x)
    <2>1. h[x].req.offer \in Offers
      BY <1>7, <1>t, RequestFields DEF PortalAccept, PortalDecline, StageOffer, ConfirmAcceptance,
         DeclineOffer, PatchOffer, At
    <2>2. h[x].req.kind = "patchOffer" => h[x].req.to \in OfferStatus
      BY <1>t, RequestFields
    <2>3. UNCHANGED offer \/ \E status \in OfferStatus : SetOffer(x, status)
      BY <1>7, <2>2 DEF PortalAccept, PortalDecline, StageOffer, ConfirmAcceptance,
         DeclineOffer, PatchOffer, At, OfferStatus
    <2>4. UNCHANGED << doc, staged, requests, faults >>
      BY <1>7 DEF PortalAccept, PortalDecline, StageOffer, ConfirmAcceptance,
         DeclineOffer, PatchOffer
    <2> QED BY <2>1, <2>3, <2>4, <1>t, OfferWrites DEF RowsTyped
  <1>8. CASE NameStagedOffer(x)
    BY <1>8, <1>t DEF NameStagedOffer, RowsTyped, StagesAnOffer
  <1> QED
    BY <1>1, <1>2, <1>3, <1>4, <1>5, <1>6, <1>7, <1>8 DEF Step, WriteStage, RecordTransition,
       ViewApplication, OpenRead, OpenCommit, Promote, Drag, TransitionPipelineState,
       CountDocuments, ReadStageAfterReview, ReadStageAfterTermSheet, AcceptApplication
LEMMA StagedKept ==
  ASSUME AInv, NEW x \in Handlers, Step(x) \/ FailWrite(x) \/ Lose(x) \/ (\E r \in Requests : Arrive(x, r)),
         Moves(x)
  PROVE  StagesAnOffer'
  <1>t. Typed /\ StagesAnOffer /\ h[x].req \in Requests \cup {NoRequest}
    BY DEF AInv, Typed, TypeOK
  <1>1. h'[x].pc = "staged" => h'[x].req.offer \in Offers
    <2>1. CASE StageOffer(x)
      <3>1. h[x].req.offer \in Offers
        BY <2>1, <1>t, RequestFields DEF StageOffer, At
      <3>2. h' = [h EXCEPT ![x] = Idle] \/ h' = [h EXCEPT ![x].pc = "staged"]
        BY <2>1 DEF StageOffer, Goto, End
      <3> QED BY <3>1, <3>2, <1>t, IdleTyped DEF Typed, HandlerState
    <2>2. CASE ~StageOffer(x)
      <3>1. ASSUME NEW pc \in Places \ {"staged"}, Goto(x, pc) PROVE h'[x].pc # "staged"
        BY <3>1, <1>t, Goes
      <3>2. ASSUME End(x) PROVE h'[x].pc # "staged"
        BY <3>2, <1>t, Ends
      <3>3. ASSUME NEW to, NEW trigger, Plan(x, to, trigger) PROVE h'[x].pc # "staged"
        BY <3>3, <1>t DEF Plan, Typed, HandlerState
      <3>4. CASE \E r \in Requests : Arrive(x, r)
        BY <3>4, <1>t DEF Arrive, Typed, HandlerState
      <3>5. CASE OpenRead(x) \/ Promote(x) \/ Drag(x)
        <4>1. CASE OpenRead(x)
          BY <4>1, <1>t DEF OpenRead, Typed, HandlerState
        <4>2. CASE Promote(x)
          BY <4>2, <3>2, <1>t DEF Promote, Typed, HandlerState
        <4>3. CASE Drag(x)
          BY <4>3, <1>t DEF Drag, Typed, HandlerState
        <4> QED BY <3>5, <4>1, <4>2, <4>3
      <3> QED
        BY <2>2, <3>1, <3>2, <3>3, <3>4, <3>5 DEF Step, WriteStage, RecordTransition,
           ViewApplication, OpenCommit, TransitionPipelineState, ReviewDocument, UndoReview,
           CountDocuments, ReadStageAfterReview, ArchiveOffers, InsertTermSheet,
           ReadStageAfterTermSheet, CreateOffer, PortalCreateOffer, PortalAccept, AcceptApplication,
           PortalDecline, PatchOffer, NameStagedOffer, ConfirmAcceptance,
           DeclineOffer, FailWrite, Lose, Places
    <2> QED BY <2>1, <2>2
  <1>2. \A q \in Handlers \ {x} : h'[q] = h[q]
    BY <1>t DEF Moves, Typed
  <1> QED BY <1>1, <1>2, <1>t DEF StagesAnOffer

-----------------------------------------------------------------------------
(* The invariant *)

LEMMA InvInit == Init => AInv
  <1> SUFFICES ASSUME Init PROVE AInv
    OBVIOUS
  <1>1. \A x \in Handlers : h[x] = Idle /\ h[x].pc = "idle"
    BY IdleTyped DEF Init
  <1>2. h \in [Handlers -> HandlerState] /\ events \in Seq(LogRow) /\ Len(events) = 0
    BY IdleTyped DEF Init
  <1>3. TypeOK
    <2>1. doc \in [Docs -> DocStatus] /\ offer \in [Offers -> [status : OfferStatus, archived : BOOLEAN]]
      BY DEF Init, OfferStatus
    <2>2. \A x \in Handlers : h[x].req \in Requests \cup {NoRequest} /\ h[x].read \in Stages /\ h[x].to \in Stages
      BY <1>2 DEF HandlerState
    <2>3. stage \in Stages /\ firstOpened \in BOOLEAN /\ staged \subseteq Offers
      BY DEF Init
    <2>4. requests \in 0..MaxRequests /\ faults \in 0..MaxFaults
      BY PipelineAssumption DEF Init
    <2>5. \A i \in 1..Len(events) : events[i].from \in Stages /\ events[i].to \in Stages
      BY <1>2
    <2> QED BY <2>1, <2>2, <2>3, <2>4, <2>5 DEF TypeOK
  <1>4. StagesAnOffer /\ Decided /\ ReadStands
    BY <1>1 DEF StagesAnOffer, Decided, ReadStands
  <1>5. StageHasSource /\ EventsAreLegal /\ OpenedLeavesReceived
    <2>1. StageHasSource /\ EventsAreLegal
      BY <1>1, <1>2 DEF Init, StageHasSource, EventsAreLegal
    <2>2. OpenedLeavesReceived
      BY DEF Init, OpenedLeavesReceived
    <2> QED BY <2>1, <2>2
  <1> QED BY <1>2, <1>3, <1>4, <1>5 DEF AInv, Typed

\* What one more row does to the log.
LEMMA Logged ==
  ASSUME events \in Seq(LogRow), NEW row \in LogRow, events' = Append(events, row)
  PROVE  /\ events' \in Seq(LogRow) /\ Len(events') = Len(events) + 1
         /\ events'[Len(events')] = row
         /\ \A i \in 1..Len(events) : i \in 1..Len(events') /\ events'[i] = events[i]
         /\ \A i \in 1..Len(events') : events'[i] = row \/ (i \in 1..Len(events) /\ events'[i] = events[i])
         /\ events' # << >>
  OBVIOUS

LEMMA LogFields ==
  ASSUME NEW log \in Seq(LogRow)
  PROVE  \A i \in 1..Len(log) : log[i].from \in Stages /\ log[i].to \in Stages
  <1>1. \A i \in 1..Len(log) : log[i] \in LogRow
    OBVIOUS
  <1> QED BY <1>1 DEF LogRow

\* A step of x keeps the stage, its log and the mark together.
LEMMA StageKept ==
  ASSUME AInv, NEW x \in Handlers, Moves(x), RowsTyped', faults' >= faults
  PROVE  Typed' /\ Decided' /\ ReadStands' /\ StageHasSource' /\ EventsAreLegal' /\ OpenedLeavesReceived'
  <1> USE DEF AInv
  <1>t. /\ Typed /\ stage \in Stages /\ events \in Seq(LogRow) /\ firstOpened \in BOOLEAN
        /\ h \in [Handlers -> HandlerState] /\ h[x] \in HandlerState /\ faults \in Nat /\ faults' \in Nat
    BY DEF Typed, TypeOK, RowsTyped
  <1>o. h' \in [Handlers -> HandlerState] /\ (\A q \in Handlers \ {x} : h'[q] = h[q]) /\ h'[x] \in HandlerState
    BY <1>t DEF Moves
  <1>q. \A q \in Handlers : h'[q] = h[q] \/ q = x
    BY <1>o
  <1>1. CASE Untouched /\ MovesOn(x) /\ (h[x].pc = "event" => faults' > 0)
    <2>1. stage' = stage /\ firstOpened' = firstOpened /\ events' = events
      BY <1>1 DEF Untouched
    <2>2. Decided' /\ ReadStands'
      BY <1>1, <1>t, <1>o, <1>q, <2>1, LegalMoves DEF MovesOn, Decides, Decided, ReadStands
    <2>3. StageHasSource'
      BY <1>1, <1>t, <1>q, <2>1 DEF StageHasSource, MovesOn, Decides
    <2>4. EventsAreLegal' /\ OpenedLeavesReceived'
      BY <2>1 DEF EventsAreLegal, OpenedLeavesReceived
    <2>5. Typed'
      BY <1>t, <1>o, <2>1 DEF Typed, TypeOK, RowsTyped, HandlerState
    <2> QED BY <2>2, <2>3, <2>4, <2>5
  <1>2. CASE WriteStage(x)
    <2>1. /\ h[x].pc = "write" /\ stage' = h[x].to /\ firstOpened' = firstOpened /\ events' = events
          /\ h'[x].pc = "event" /\ h'[x].to = h[x].to /\ h'[x].read = h[x].read
      BY <1>2, <1>t DEF WriteStage, Goto, HandlerState
    <2>2. stage' \in Stages /\ stage' # Received
      BY <2>1, <1>t, LegalMoves DEF Decided, HandlerState
    <2>3. Decided' /\ ReadStands' /\ StageHasSource'
      BY <2>1, <2>2, <1>t, <1>o, <1>q DEF Decided, ReadStands, StageHasSource
    <2>4. EventsAreLegal' /\ OpenedLeavesReceived'
      BY <2>1, <2>2 DEF EventsAreLegal, OpenedLeavesReceived
    <2>5. Typed'
      BY <1>t, <1>o, <2>1, <2>2 DEF Typed, TypeOK, RowsTyped, HandlerState
    <2> QED BY <2>3, <2>4, <2>5
  <1>3. CASE RecordTransition(x)
    <2> DEFINE row == [from |-> h[x].read, to |-> h[x].to, trigger |-> h[x].trigger]
    <2>1. /\ h[x].pc = "event" /\ stage' = stage /\ firstOpened' = firstOpened /\ faults' = faults
          /\ events' = Append(events, row) /\ h'[x].pc = "idle"
      BY <1>3, <1>t, Ends DEF RecordTransition
    <2>2. row \in LogRow /\ row.to = h[x].to /\ row.to \in LegalTransitions[row.from] /\ row.from \in Stages /\ row.to \in Stages
      BY <2>1, <1>t DEF Decided, HandlerState, LogRow
    <2> HIDE DEF row
    <2>3. Decided' /\ ReadStands'
      BY <2>1, <1>o, <1>q DEF Decided, ReadStands
    <2>4. StageHasSource'
      <3>1. Len(events') \in 1..Len(events') /\ events'[Len(events')].to = h[x].to
        BY <2>1, <2>2, <1>t, Logged
      <3>2. stage' = Accepted \/ (\E i \in 1..Len(events) : events[i].to = stage)
              \/ stage = h[x].to \/ (\E y \in Handlers \ {x} : h[y].pc = "event" /\ h[y].to = stage)
              \/ faults' # 0
        BY <2>1 DEF StageHasSource
      <3>3. CASE \E i \in 1..Len(events) : events[i].to = stage
        BY <3>3, <2>1, <2>2, <1>t, Logged DEF StageHasSource
      <3>4. CASE stage = h[x].to
        BY <3>1, <3>4, <2>1 DEF StageHasSource
      <3>5. CASE \E y \in Handlers \ {x} : h[y].pc = "event" /\ h[y].to = stage
        BY <3>5, <2>1, <1>q DEF StageHasSource
      <3> QED BY <3>2, <3>3, <3>4, <3>5 DEF StageHasSource
    <2>5. EventsAreLegal'
      BY <2>1, <2>2, <1>t, Logged DEF EventsAreLegal
    <2>6. OpenedLeavesReceived'
      BY <2>1 DEF OpenedLeavesReceived
    <2>7. Typed'
      <3>1. events' \in Seq(LogRow) /\ \A i \in 1..Len(events') : events'[i].from \in Stages /\ events'[i].to \in Stages
        BY <2>1, <2>2, <1>t, Logged, LogFields
      <3> QED BY <3>1, <1>t, <1>o, <2>1 DEF Typed, TypeOK, RowsTyped, HandlerState
    <2> QED BY <2>3, <2>4, <2>5, <2>6, <2>7
  <1>4. CASE OpenCommit(x)
    <2>1. h[x].pc = "open" /\ h'[x].pc = "idle" /\ faults' = faults
      BY <1>4, <1>t, Ends DEF OpenCommit
    <2>2. CASE /\ firstOpened' = TRUE /\ stage' = InReview /\ TransitionAllowed(stage, InReview)
               /\ events' = IF stage = InReview THEN events
                            ELSE Append(events, [from |-> stage, to |-> InReview, trigger |-> "first_opened"])
      <3>1. InReview \in Stages /\ InReview # Received
        BY DEF Stages, InReview, Received
      <3>2. CASE stage = InReview
        <4>1. stage' = stage /\ events' = events
          BY <2>2, <3>2
        <4>2. Decided' /\ ReadStands'
          BY <2>1, <4>1, <1>o, <1>q DEF Decided, ReadStands
        <4>3. StageHasSource'
          BY <2>1, <4>1, <1>o, <1>q DEF StageHasSource
        <4>4. EventsAreLegal' /\ OpenedLeavesReceived'
          BY <2>2, <3>1, <4>1 DEF EventsAreLegal, OpenedLeavesReceived
        <4>5. Typed'
          BY <2>2, <3>1, <4>1, <1>t, <1>o DEF Typed, TypeOK, RowsTyped, HandlerState
        <4> QED BY <4>2, <4>3, <4>4, <4>5
      <3>3. CASE stage # InReview
        <4> DEFINE row == [from |-> stage, to |-> InReview, trigger |-> "first_opened"]
        <4>1. /\ row \in LogRow /\ row.to = InReview /\ row.from = stage /\ InReview \in LegalTransitions[stage]
              /\ events' = Append(events, row)
          BY <2>2, <3>1, <3>3, <1>t DEF LogRow, Triggers, TransitionAllowed
        <4> HIDE DEF row
        <4>2. Decided' /\ ReadStands'
          BY <2>1, <2>2, <3>1, <1>o, <1>q DEF Decided, ReadStands
        <4>3. StageHasSource'
          <5>1. Len(events') \in 1..Len(events') /\ events'[Len(events')].to = stage'
            BY <2>2, <4>1, <1>t, Logged
          <5> QED BY <5>1 DEF StageHasSource
        <4>4. EventsAreLegal'
          BY <4>1, <1>t, Logged DEF EventsAreLegal
        <4>5. OpenedLeavesReceived'
          BY <2>2, <3>1 DEF OpenedLeavesReceived
        <4>6. Typed'
          <5>1. events' \in Seq(LogRow) /\ \A i \in 1..Len(events') : events'[i].from \in Stages /\ events'[i].to \in Stages
            BY <4>1, <1>t, Logged, LogFields
          <5> QED BY <5>1, <2>2, <3>1, <1>t, <1>o DEF Typed, TypeOK, RowsTyped, HandlerState
        <4> QED BY <4>2, <4>3, <4>4, <4>5, <4>6
      <3> QED BY <3>2, <3>3
    <2>3. CASE /\ UNCHANGED << stage, events >> /\ firstOpened' \in BOOLEAN
               /\ firstOpened' = firstOpened \/ firstOpened \/ h[x].read # Received
      <3>1. Decided' /\ ReadStands'
        BY <2>1, <2>3, <1>o, <1>q DEF Decided, ReadStands
      <3>2. StageHasSource'
        BY <2>1, <2>3, <1>o, <1>q DEF StageHasSource
      <3>3. EventsAreLegal' /\ OpenedLeavesReceived'
        BY <2>1, <2>3 DEF EventsAreLegal, OpenedLeavesReceived, ReadStands
      <3>4. Typed'
        BY <2>3, <1>t, <1>o DEF Typed, TypeOK, RowsTyped, HandlerState
      <3> QED BY <3>1, <3>2, <3>3, <3>4
    <2> QED BY <1>4, <1>t, <2>2, <2>3 DEF OpenCommit, DidOpen
  <1>5. CASE AcceptApplication(x) /\ h'[x].pc = "idle"
    <2>1. /\ h[x].pc = "accepted" /\ events' = events /\ firstOpened' = firstOpened /\ faults' = faults
          /\ stage' = stage \/ stage' = Accepted
      BY <1>5 DEF AcceptApplication
    <2>2. Accepted \in Stages /\ Accepted # Received
      BY DEF Accepted, Received, Stages
    <2>3. Decided' /\ ReadStands'
      BY <1>5, <2>1, <2>2, <1>o, <1>q DEF Decided, ReadStands
    <2>4. StageHasSource'
      BY <1>5, <2>1, <1>o, <1>q DEF StageHasSource
    <2>5. EventsAreLegal' /\ OpenedLeavesReceived'
      BY <2>1, <2>2 DEF EventsAreLegal, OpenedLeavesReceived
    <2>6. Typed'
      BY <2>1, <2>2, <1>t, <1>o DEF Typed, TypeOK, RowsTyped, HandlerState
    <2> QED BY <2>3, <2>4, <2>5, <2>6
  <1> QED BY <1>1, <1>2, <1>3, <1>4, <1>5 DEF Moves

\* Which handler takes a step.
LEMMA Taken ==
  ASSUME AInv, [Next]_vars
  PROVE  \/ UNCHANGED vars
         \/ \E x \in Handlers : /\ Step(x) \/ FailWrite(x) \/ Lose(x) \/ (\E r \in Requests : Arrive(x, r))
                                /\ Moves(x)
  BY StepMoves DEF Next

LEMMA InvKept ==
  ASSUME AInv, [Next]_vars
  PROVE  AInv'
  <1>1. CASE UNCHANGED vars
    BY <1>1 DEF AInv, vars, Typed, TypeOK, StagesAnOffer, Decided, ReadStands, StageHasSource,
       EventsAreLegal, OpenedLeavesReceived
  <1>2. ASSUME NEW x \in Handlers, Step(x) \/ FailWrite(x) \/ Lose(x) \/ (\E r \in Requests : Arrive(x, r)),
               Moves(x)
        PROVE  AInv'
    <2>1. RowsTyped'
      BY <1>2, RowsKept DEF AInv
    <2>2. faults' >= faults
      <3>1. faults \in Nat
        BY PipelineAssumption DEF AInv, Typed, TypeOK
      <3>2. faults' = faults \/ faults' = faults + 1
        BY <1>2 DEF Step, Arrive, FailWrite, Lose, WriteStage, RecordTransition, ViewApplication,
           OpenRead, OpenCommit, Promote, Drag, TransitionPipelineState, ReviewDocument, UndoReview,
           CountDocuments, ReadStageAfterReview, ArchiveOffers, InsertTermSheet,
           ReadStageAfterTermSheet, CreateOffer, PortalCreateOffer, PortalAccept, AcceptApplication, PortalDecline,
           PatchOffer, StageOffer, NameStagedOffer, ConfirmAcceptance, DeclineOffer
      <3> QED BY <3>1, <3>2
    <2>3. StagesAnOffer'
      BY <1>2, StagedKept
    <2> QED BY <1>2, <2>1, <2>2, <2>3, StageKept DEF AInv
  <1> QED BY <1>1, <1>2, Taken

THEOREM PipelineInvariant == Spec => []AInv
  <1>1. Init => AInv BY InvInit
  <1>2. AInv /\ [Next]_vars => AInv' BY InvKept
  <1> QED BY <1>1, <1>2, PTL DEF Spec

\* For any number of handlers, requests and faults: the recorded moves are
\* legal, the mark of the first opening goes with the move, and, if nothing
\* failed, the stage is the target of a recorded move or Accepted.
THEOREM StageAgreesWithLog == Spec => []StageAndLogAgree
  <1>1. AInv => StageAndLogAgree
    <2> SUFFICES ASSUME AInv PROVE StageAndLogAgree
      OBVIOUS
    <2>1. StageIsRecorded
      BY DEF AInv, StageHasSource, StageIsRecorded
    <2> QED BY <2>1 DEF AInv, Typed, StageAndLogAgree
  <1> QED BY <1>1, PipelineInvariant, PTL

-----------------------------------------------------------------------------
(* What a step may never do *)

\* An illegal move of the stage is written on a stale read.
LEMMA LegalUnlessStale ==
  ASSUME AInv, [Next]_vars
  PROVE  \/ stage' = stage
         \/ stage' \in LegalTransitions[stage]
         \/ \E x \in Handlers : h[x].pc = "write" /\ h[x].read # stage /\ h'[x] # h[x]
  <1>1. CASE UNCHANGED vars
    BY <1>1 DEF vars
  <1>2. ASSUME NEW x \in Handlers, Moves(x)
        PROVE  \/ stage' = stage \/ stage' \in LegalTransitions[stage]
               \/ h[x].pc = "write" /\ h[x].read # stage /\ h'[x] # h[x]
    <2>1. CASE Untouched \/ RecordTransition(x)
      BY <2>1 DEF Untouched, RecordTransition
    <2>2. CASE WriteStage(x)
      <3>1. h[x].pc = "write" /\ stage' = h[x].to /\ h'[x].pc = "event"
        BY <2>2, Goes DEF WriteStage, AInv, Places
      <3> QED BY <3>1 DEF AInv, Decided
    <2>3. CASE OpenCommit(x)
      BY <2>3 DEF OpenCommit, TransitionAllowed
    <2>4. CASE AcceptApplication(x)
      BY <2>4, LegalMoves DEF AcceptApplication
    <2> QED BY <1>2, <2>1, <2>2, <2>3, <2>4 DEF Moves
  <1> QED BY <1>1, <1>2, Taken

\* Handlers that do not overlap only ever make legal moves.
THEOREM IllegalMoveIsStale == Spec => IllegalMoveNeedsStaleRead
  <1>1. AInv /\ [Next]_vars =>
          [ \/ stage' = stage
            \/ stage' \in LegalTransitions[stage]
            \/ \E x \in Handlers : h[x].pc = "write" /\ h[x].read # stage /\ h'[x] # h[x] ]_vars
    BY LegalUnlessStale
  <1> QED BY <1>1, PipelineInvariant, PTL DEF Spec, IllegalMoveNeedsStaleRead

\* The steps that write an offer's status, and over which status they write.
LEMMA OfferSteps ==
  ASSUME AInv, [Next]_vars, NEW o \in Offers, offer[o].status = "accepted", offer'[o].status # "accepted"
  PROVE  \E x \in Handlers : At(x, "start", {"patchOffer"})
  <1>1. offer' # offer
    OBVIOUS
  <1>2. PICK x \in Handlers : Step(x) \/ FailWrite(x) \/ Lose(x) \/ (\E r \in Requests : Arrive(x, r))
    BY <1>1, Taken DEF vars
  <1>3. offer \in [Offers -> [status : OfferStatus, archived : BOOLEAN]]
    BY DEF AInv, Typed, TypeOK
  <1>4. ASSUME NEW status, SetOffer(x, status), OfferOf(x).status # "accepted" PROVE FALSE
    BY <1>3, <1>4 DEF SetOffer, OfferOf
  <1>5. ASSUME SetOffer(x, "accepted") PROVE FALSE
    BY <1>3, <1>5 DEF SetOffer
  <1>6. ~ArchiveOffers(x)
    BY <1>3 DEF ArchiveOffers
  <1>7. ~InsertTermSheet(x) /\ ~CreateOffer(x) /\ ~PortalCreateOffer(x)
    BY <1>3 DEF InsertTermSheet, CreateOffer, PortalCreateOffer, Insert
  <1>8. ~PortalAccept(x) /\ ~ConfirmAcceptance(x)
    BY <1>1, <1>5 DEF PortalAccept, ConfirmAcceptance
  <1>9. ~PortalDecline(x)
    BY <1>1, <1>4 DEF PortalDecline, Disposable
  <1>10. ~StageOffer(x) /\ ~DeclineOffer(x)
    BY <1>1, <1>4 DEF StageOffer, DeclineOffer, Open
  <1>11. PatchOffer(x)
    BY <1>1, <1>2, <1>6, <1>7, <1>8, <1>9, <1>10 DEF Step, Arrive, FailWrite, Lose, WriteStage,
       RecordTransition, ViewApplication, OpenRead, OpenCommit, Promote, Drag,
       TransitionPipelineState, ReviewDocument, UndoReview, CountDocuments, ReadStageAfterReview,
       ReadStageAfterTermSheet, AcceptApplication, NameStagedOffer
  <1> QED BY <1>11 DEF PatchOffer

\* No late decline, second acceptance or staging takes an accepted offer back.
THEOREM AcceptedOfferIsKept == Spec => AcceptedOfferStands
  <1>1. AInv /\ [Next]_vars =>
          [ \A o \in Offers :
              (offer[o].status = "accepted" /\ offer'[o].status # "accepted")
              => \E x \in Handlers : At(x, "start", {"patchOffer"}) ]_vars
    BY OfferSteps
  <1> QED BY <1>1, PipelineInvariant, PTL DEF Spec, AcceptedOfferStands
=============================================================================
