----------------------------- MODULE MCServices -----------------------------
(* The services around the application pipeline, checked in one run: a         *)
(* behaviour picks one of them at the start, and the others stay as they       *)
(* began.  They share no row and call each other only through the values their *)
(* own modules already take from the environment.                              *)
EXTENDS AuthSessions, LenderCatalogue, LenderMatches, ProductRequirements,
        OfflineSync, HttpIdempotency, PushDevices, StaffNotices,
        ReadinessIntake, DocumentVersions, CallLogs, Communications,
        CreditSummaries, OpsJobs, Office365, BankingAnalysis, TLC

CONSTANTS h1, h2,  \* two requests under way in whichever service is picked
          r1, r2   \* two rows, keys or people it works on

VARIABLE part

AtRest == "at rest"

Parts == {"auth", "catalogue", "matches", "requirements", "sync",
          "idempotency", "push", "notices", "intake", "documents", "calls",
          "messages", "credit", "operations", "office", "banking"}

ReplayActionsMC ==
  {[path |-> "/api/lenders", key |-> "k1", body |-> "a"],
   [path |-> "/api/lenders", key |-> "k1", body |-> "b"],
   [path |-> "/api/lender-products", key |-> "k1", body |-> "a"]}
SyncUsersMC == {[role |-> "Admin", caps |-> {"OPS_MANAGE"}]}
DemandMC == [t1 |-> "required", t2 |-> "none"]
CommStaffMC == {[role |-> "staff", silo |-> "BF", silos |-> Silos]}

\* What the portal's form writes, and the entries of the service's own editor.
Entry(k, d, demanded, from, upTo) ==
  [key |-> k, doc |-> d, required |-> demanded, min |-> from, max |-> upTo]
EntriesMC == {Entry("category", "d1", TRUE, Null, Null),
              Entry("type", "d2", TRUE, 2, 2), Entry("type", "d2", FALSE, 1, 1)}
TermsMC == {[min |-> Null, max |-> Null], [min |-> 2, max |-> 2]}

ServicesSymmetry == Permutations({h1, h2}) \cup Permutations({r1, r2})

-----------------------------------------------------------------------------
\* A service that is not picked is at rest: its variables have one value.
Init ==
  /\ part \in Parts
  /\ IF part = "auth" THEN AuthInit
     ELSE /\ account = AtRest /\ otp = AtRest /\ token = AtRest
          /\ lockedBy = AtRest /\ inFlight = AtRest /\ replayed = AtRest
          /\ request = AtRest
  /\ IF part = "catalogue" THEN CatInit
     ELSE /\ lender = AtRest /\ product = AtRest /\ mirror = AtRest
          /\ editor = AtRest
  /\ IF part = "matches" THEN MatchInit
     ELSE /\ offered = AtRest /\ evidence = AtRest /\ outstanding = AtRest
          /\ matches = AtRest /\ marks = AtRest /\ matcher = AtRest
  /\ IF part = "requirements" THEN ReqInit
     ELSE /\ listing = AtRest /\ editing = AtRest
  /\ IF part = "sync" THEN SyncInit
     ELSE /\ syncBatch = AtRest /\ syncRecord = AtRest /\ lenderOpen = AtRest
          /\ executed = AtRest /\ excused = AtRest
  /\ IF part = "idempotency" THEN HttpInit
     ELSE /\ httpRequest = AtRest /\ redisLink = AtRest /\ redisStore = AtRest
          /\ memoryStore = AtRest /\ handled = AtRest /\ forgotten = AtRest
  /\ IF part = "push" THEN PushInit
     ELSE /\ subscription = AtRest /\ rowsMade = AtRest /\ registrar = AtRest
          /\ pushReady = AtRest /\ sender = AtRest /\ pushAudit = AtRest
  /\ IF part = "notices" THEN NoticeInit
     ELSE /\ note = AtRest /\ writer = AtRest /\ inbox = AtRest
          /\ unnotified = AtRest
  /\ IF part = "intake" THEN IntakeInit
     ELSE /\ session = AtRest /\ mapping = AtRest /\ app = AtRest
          /\ appOwner = AtRest /\ leads = AtRest /\ contacts = AtRest
          /\ intake = AtRest /\ doubled = AtRest
  /\ IF part = "documents" THEN DocInit
     ELSE /\ docRow = AtRest /\ versions = AtRest /\ required = AtRest
          /\ docStage = AtRest /\ processed = AtRest /\ queued = AtRest
          /\ docReq = AtRest /\ docCalls = AtRest /\ crossed = AtRest
  /\ IF part = "calls" THEN CallInit
     ELSE /\ phase = AtRest /\ reported = AtRest /\ callRow = AtRest
          /\ callH = AtRest /\ refused = AtRest /\ byHand = AtRest
          /\ callOps = AtRest /\ presence = AtRest
  /\ IF part = "messages" THEN CommInit
     ELSE /\ contactSilo = AtRest /\ appSilo = AtRest /\ linked = AtRest
          /\ rows = AtRest /\ texts = AtRest /\ comm = AtRest
          /\ escalated = AtRest
  /\ IF part = "credit" THEN CreditInit
     ELSE /\ file = AtRest /\ creditRow = AtRest /\ history = AtRest
          /\ stamped = AtRest /\ author = AtRest /\ failed = AtRest
  /\ IF part = "operations" THEN OpsInit
     ELSE /\ killSwitch = AtRest /\ turns = AtRest /\ present = AtRest
          /\ replayJob = AtRest /\ replayAt = AtRest /\ batch = AtRest
          /\ promised = AtRest /\ marked = AtRest /\ overrun = AtRest /\ unwritten = AtRest
          /\ exportAt = AtRest /\ exportAudit = AtRest /\ handed = AtRest
  /\ IF part = "office" THEN OfficeInit
     ELSE /\ o365 = AtRest /\ issued = AtRest /\ lapsed = AtRest
          /\ calTask = AtRest /\ todo = AtRest /\ everLinked = AtRest
          /\ spared = AtRest /\ desk = AtRest
  /\ IF part = "banking" THEN BankInit
     ELSE /\ bankRow = AtRest /\ ocrDone = AtRest /\ bankRun = AtRest
          /\ txns = AtRest /\ summary = AtRest /\ mirrored = AtRest
          /\ bankedAt = AtRest /\ retries = AtRest /\ lost = AtRest
          /\ overlapped = AtRest /\ abandoned = AtRest

\* Only the picked service moves.
Only(p) ==
  /\ part = p /\ UNCHANGED part
  /\ IF p = "auth" THEN TRUE ELSE UNCHANGED authVars
  /\ IF p = "catalogue" THEN TRUE ELSE UNCHANGED catVars
  /\ IF p = "matches" THEN TRUE ELSE UNCHANGED matchVars
  /\ IF p = "requirements" THEN TRUE ELSE UNCHANGED reqVars
  /\ IF p = "sync" THEN TRUE ELSE UNCHANGED syncVars
  /\ IF p = "idempotency" THEN TRUE ELSE UNCHANGED httpVars
  /\ IF p = "push" THEN TRUE ELSE UNCHANGED pushVars
  /\ IF p = "notices" THEN TRUE ELSE UNCHANGED noticeVars
  /\ IF p = "intake" THEN TRUE ELSE UNCHANGED intakeVars
  /\ IF p = "documents" THEN TRUE ELSE UNCHANGED docVars
  /\ IF p = "calls" THEN TRUE ELSE UNCHANGED callVars
  /\ IF p = "messages" THEN TRUE ELSE UNCHANGED commVars
  /\ IF p = "credit" THEN TRUE ELSE UNCHANGED creditVars
  /\ IF p = "operations" THEN TRUE ELSE UNCHANGED opsVars
  /\ IF p = "office" THEN TRUE ELSE UNCHANGED officeVars
  /\ IF p = "banking" THEN TRUE ELSE UNCHANGED bankVars

Next ==
  \/ Only("auth") /\ AuthNext
  \/ Only("catalogue") /\ CatNext
  \/ Only("matches") /\ MatchNext
  \/ Only("requirements") /\ ReqNext
  \/ Only("sync") /\ SyncNext
  \/ Only("idempotency") /\ HttpNext
  \/ Only("push") /\ PushNext
  \/ Only("notices") /\ NoticeNext
  \/ Only("intake") /\ IntakeNext
  \/ Only("documents") /\ DocNext
  \/ Only("calls") /\ CallNext
  \/ Only("messages") /\ CommNext
  \/ Only("credit") /\ CreditNext
  \/ Only("operations") /\ OpsNext
  \/ Only("office") /\ OfficeNext
  \/ Only("banking") /\ BankNext

Spec == Init /\ [][Next]_<<part, authVars, catVars, matchVars, reqVars, syncVars, httpVars, pushVars, noticeVars, intakeVars, docVars, callVars, commVars, creditVars, opsVars, officeVars, bankVars>>

-----------------------------------------------------------------------------
(* Properties: of each service what its own module states, and its types.    *)

\* AuthSessions: a refresh token is exchanged once, and a disabled account has
\* no session that would come back with it.
SessionsAreSafe == part = "auth" => AuthTypeOK /\ RotatedOnce /\ DisabledEndsSessions

\* LenderCatalogue: a submission method has its own target and no other's, and
\* the company in the CRM follows its lender.
LendersAreWhole == part = "catalogue" => CatTypeOK /\ SubmissionTargetFits /\ CrmFollowsLender

\* LenderMatches: matches shown as ready are computed from what is known now.
MatchesAreCurrent == part = "matches" => MatchTypeOK /\ ReadyMatchesAreCurrent

\* ProductRequirements: the merged requirements say what their entries say, and
\* a borrower is asked for exactly what the amount demands.
RequirementsAreRight ==
  part = "requirements" => ReqTypeOK /\ MergedRequirements /\ DemandFitsAmount

\* OfflineSync: a queued request is carried out once, and a success told from a
\* record was one.
ReplaysAreSafe == part = "sync" => SyncTypeOK /\ ReplayedOnce /\ RecordedWasDone

\* HttpIdempotency: a request is handled once under its key.
KeysAreHonoured == part = "idempotency" => HttpTypeOK /\ HandledOnce

\* PushDevices: an endpoint has the keys of its owner.
DevicesAreOwned == part = "push" => PushTypeOK /\ KeysBelongToOwner

\* StaffNotices: whoever a note mentions is told.
MentionsArrive == part = "notices" => NoticeTypeOK /\ MentionedIsNotified

\* ReadinessIntake: a session becomes one application.
SessionsConvertOnce == part = "intake" => IntakeTypeOK /\ SessionBecomesOne

\* DocumentVersions: an accepted document has an accepted version, and the
\* readers of its status agree.
ReviewsAreBacked == part = "documents" => DocTypeOK /\ AcceptedIsBacked /\ ReadersAgree

\* CallLogs: a call that is over in the log is over.
CallsEndTogether == part = "calls" => CallTypeOK /\ OverInLogIsOver

\* Communications: a text is stored once, and what is stored is shown by its
\* readers within their limits.
ConversationsAreWhole == part = "messages" => CommTypeOK /\ MessagesAreReachable

\* CreditSummaries: the history holds every version, and the stamp is backed by
\* a submitted one.
SummariesAreKept == part = "credit" => CreditTypeOK /\ HistoryIsComplete /\ StampIsBacked

\* OpsJobs: a completed replay covers its scope, the switch bites, a job that has
\* neither ended nor a task died or lost a statement, and no export leaves
\* without its audit row.
OperationsAreSafe ==
  part = "operations" =>
    OpsTypeOK /\ CompletedCoversScope /\ KillSwitchBites /\ UnendedHasTask /\ ExportsAreAudited

\* Office365: a call tried again acts once, and a To-Do item goes with its task.
OfficeIsInStep == part = "office" => OfficeTypeOK /\ ActedOnce /\ TodoFollowsTask

\* BankingAnalysis: a complete analysis counts every statement once and shows
\* its months, and the attempts end.
AnalysesAreWhole == part = "banking" => BankTypeOK /\ AnalysisIsWhole /\ BankAttemptsBounded

\* DocumentVersions: a document with an accepted version gets no further one,
\* except from an upload that was already under way.
AcceptedIsFinal == [][part = "documents" => AcceptedStays]_docVars
=============================================================================
