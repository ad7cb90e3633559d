--------------------------- MODULE LenderMatches ---------------------------
(***************************************************************************)
(* The cached lender matches of one application                            *)
(* (services/lenderMatchCache.ts, ai/lenderMatchEngine.ts and the handlers *)
(* that mark the cache or compute it).  Every step is one SQL statement.   *)
(***************************************************************************)
EXTENDS Naturals

CONSTANTS OfferedProducts, Matchers, MaxEvidence

ASSUME MatchAssumption == MaxEvidence \in Nat \ {0}

VARIABLES
  offered,     \* active products of active lenders that fit the application
  evidence,    \* what is known of the application, counted
  outstanding, \* whether a row of application_required_documents is not accepted
  matches,     \* lender_matches, lender_matches_stale, lender_matches_computed_at
  marks,       \* markLenderMatchesStale calls started and not run
  matcher      \* the computations

matchVars == <<offered, evidence, outstanding, matches, marks, matcher>>

MatcherIdle == [step |-> "idle", evidence |-> 0, seen |-> {}]

MatchTypeOK ==
  /\ offered \subseteq OfferedProducts
  /\ evidence \in 0..MaxEvidence
  /\ outstanding \in BOOLEAN
  /\ matches \in [list: SUBSET OfferedProducts, computed: BOOLEAN, stale: BOOLEAN,
                  evidence: 0..MaxEvidence, overtaken: BOOLEAN]
  /\ marks \in 0..MaxEvidence
  /\ matcher \in [Matchers -> [step: {"idle", "match", "store"}, evidence: 0..MaxEvidence,
                               seen: SUBSET OfferedProducts]]

MatchInit ==
  /\ offered = {}
  /\ evidence = 0
  /\ outstanding = TRUE
  /\ matches = [list |-> {}, computed |-> FALSE, stale |-> FALSE, evidence |-> 0,
                overtaken |-> FALSE]
  /\ marks = 0
  /\ matcher = [h \in Matchers |-> MatcherIdle]

\* matchLenders: active products of active lenders whose country, amount window
\* and category fit the application.
MatchLenders == offered

\* The catalogue is edited (LenderCatalogue); no edit marks a cache.
CatalogueChanges ==
  /\ offered' \in SUBSET OfferedProducts
  /\ UNCHANGED <<evidence, outstanding, matches, marks, matcher>>

\* getOutstandingRequiredDocs; rows are added and accepted by other handlers.
RequiredDocumentsChange ==
  /\ outstanding' = ~outstanding
  /\ UNCHANGED <<offered, evidence, matches, marks, matcher>>

\* Before OCR marked the matches: what is known changes and nothing is marked.
EvidenceUnmarked ==
  /\ evidence < MaxEvidence
  /\ evidence' = evidence + 1
  /\ UNCHANGED <<offered, outstanding, matches, marks, matcher>>

\* A rejected document, or OCR that succeeded: the application is known
\* otherwise than before, and a mark is on its way, not awaited.
EvidenceChanges ==
  /\ evidence < MaxEvidence
  /\ evidence' = evidence + 1
  /\ marks' = marks + 1
  /\ UNCHANGED <<offered, outstanding, matches, matcher>>

\* The mark lands.  It is overtaken when a computation has read the
\* application and has not written: what that writes takes the mark back.
MarkLenderMatchesStale ==
  /\ marks > 0
  /\ marks' = marks - 1
  /\ matches' = [matches EXCEPT !.stale = TRUE, !.overtaken =
       @ \/ \E h \in Matchers : matcher[h].step \in {"match", "store"}]
  /\ UNCHANGED <<offered, evidence, outstanding, matcher>>

\* The failed mark is logged.
MarkFails ==
  /\ marks > 0
  /\ marks' = marks - 1
  /\ matches' = [matches EXCEPT !.overtaken = TRUE]
  /\ UNCHANGED <<offered, evidence, outstanding, matcher>>

\* POST /:id/lenders/recalculate at any time, and the acceptance of a document
\* when nothing is outstanding: read the application ...
ComputeAndCacheLenderMatches(h) ==
  /\ matcher[h] = MatcherIdle
  /\ matcher' = [matcher EXCEPT ![h] = [@ EXCEPT !.step = "match", !.evidence = evidence]]
  /\ UNCHANGED <<offered, evidence, outstanding, matches, marks>>

\* ... then the catalogue; a query that fails leaves an empty list ...
ReadCatalogue(h) ==
  /\ matcher[h].step = "match"
  /\ \E found \in {MatchLenders, {}} :
       matcher' = [matcher EXCEPT ![h] = [@ EXCEPT !.step = "store", !.seen = found]]
  /\ UNCHANGED <<offered, evidence, outstanding, matches, marks>>

\* ... and write the list as computed now and not stale.  A failed write is logged.
StoreMatches(h) ==
  /\ matcher[h].step = "store"
  /\ \/ matches' = [matches EXCEPT !.list = matcher[h].seen, !.computed = TRUE,
                                   !.stale = FALSE, !.evidence = matcher[h].evidence]
     \/ UNCHANGED matches
  /\ matcher' = [matcher EXCEPT ![h] = MatcherIdle]
  /\ UNCHANGED <<offered, evidence, outstanding, marks>>

\* readLenderMatchEnvelope
Envelope == IF outstanding THEN "locked"
            ELSE IF matches.stale \/ ~matches.computed \/ matches.list = {} THEN "stale"
            ELSE "ready"

-----------------------------------------------------------------------------
MatchNext ==
  \/ CatalogueChanges \/ RequiredDocumentsChange \/ EvidenceChanges
  \/ MarkLenderMatchesStale \/ MarkFails
  \/ \E h \in Matchers :
       ComputeAndCacheLenderMatches(h) \/ ReadCatalogue(h) \/ StoreMatches(h)

MatchSpec == MatchInit /\ [][MatchNext]_matchVars

-----------------------------------------------------------------------------
\* Matches shown as ready were computed from what is known of the application,
\* unless a mark fell into a computation or was lost (markLenderMatchesStale,
\* computeAndCacheLenderMatches).
ReadyMatchesAreCurrent ==
  Envelope = "ready" /\ marks = 0 /\ ~matches.overtaken => matches.evidence = evidence
=============================================================================
