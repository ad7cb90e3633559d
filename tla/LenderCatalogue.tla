-------------------------- MODULE LenderCatalogue --------------------------
(***************************************************************************)
(* Lenders, their products and the CRM copy of a lender                    *)
(* (repositories/lenders.repo.ts, repositories/lenderProducts.repo.ts,     *)
(* routes/portalLenders.ts, routes/portalLenderProducts.ts,                *)
(* services/lenderCrmMirror.ts).                                           *)
(*                                                                         *)
(* A handler is one request being served; every step is one SQL statement. *)
(* All of it happens in one silo: a request of another silo is refused     *)
(* before it writes.  Names, addresses and rates are not told apart; the   *)
(* fields the CRM copies are one revision number.                          *)
(***************************************************************************)
EXTENDS Naturals, FiniteSets

CONSTANTS Lenders, Products, CatHandlers,
          Methods,      \* of EMAIL, API, GOOGLE_SHEET, MANUAL
          MaxRevision

ASSUME CatalogueAssumption ==
  /\ IsFiniteSet(CatHandlers)
  /\ MaxRevision \in Nat \ {0}
  /\ Methods \subseteq {"EMAIL", "API", "GOOGLE_SHEET", "MANUAL"}
  /\ "EMAIL" \in Methods

VARIABLES
  lender,      \* lenders
  product,     \* lender_products
  mirror,      \* companies and contacts with the lender's id
  editor       \* what each handler is doing

catVars == <<lender, product, mirror, editor>>

\* The methods that need an address: submission_email, api_config, submission_config.
Addressed == Methods \ {"MANUAL"}
NoMethod == "none"
Submission == [method: Methods \cup {NoMethod}, targets: SUBSET Addressed]
Unset == [method |-> NoMethod, targets |-> {}]
CatIdle == [step |-> "idle", lender |-> {}, to |-> Unset, revision |-> 0,
            contacts |-> 0]
CatSteps == {"idle", "read", "write", "company", "contact", "insert", "update"}

CatTypeOK ==
  /\ lender \in [Lenders -> [row: {"absent", "active", "inactive"},
                             submission: Submission, revision: 0..MaxRevision]]
  /\ product \in [Products -> [row: {"absent", "active", "inactive"},
                               lender: {{l} : l \in Lenders} \cup {{}}]]
  /\ mirror \in [Lenders -> [company: 0..MaxRevision,
                             contacts: 0..Cardinality(CatHandlers),
                             contact: 0..MaxRevision, lagging: BOOLEAN]]
  /\ editor \in [CatHandlers ->
       [step: CatSteps, lender: {{l} : l \in Lenders} \cup {{}}, to: Submission,
        revision: 0..MaxRevision,
        contacts: 0..Cardinality(CatHandlers)]]

CatInit ==
  /\ lender = [l \in Lenders |-> [row |-> "absent", submission |-> Unset, revision |-> 0]]
  /\ product = [p \in Products |-> [row |-> "absent", lender |-> {}]]
  /\ mirror = [l \in Lenders |->
                 [company |-> 0, contacts |-> 0, contact |-> 0, lagging |-> FALSE]]
  /\ editor = [h \in CatHandlers |-> CatIdle]

-----------------------------------------------------------------------------
\* The submission fields of a lender.

\* reconcileSubmissionPayload: a method keeps its own address and no other, and
\* a method without its address is dropped.
ReconcileSubmissionPayload(s) ==
  IF s.method = "MANUAL" THEN [method |-> "MANUAL", targets |-> {}]
  ELSE IF s.method \in s.targets THEN [s EXCEPT !.targets = {s.method}]
  ELSE Unset

\* The method and addresses of a request, for those it names, else the row's.
\* An unknown method is null, so the row's method stays.
Merge(old, body) ==
  [method |-> IF body.method = NoMethod THEN old.method ELSE body.method,
   targets |-> (old.targets \cup body.given) \ body.cleared]

Bodies == [method: Methods \cup {NoMethod}, given: SUBSET Addressed, cleared: SUBSET Addressed]
Reconciles(body) == body # [method |-> NoMethod, given |-> {}, cleared |-> {}]

\* fetchLenderById finds the row whatever its status.
FetchLenderById(l) == lender[l].row # "absent"

\* The route's early returns: no id, no name, a lender of another silo.
CatBegin(h, step, l) ==
  /\ editor[h] = CatIdle
  /\ editor' = [editor EXCEPT ![h] = [CatIdle EXCEPT !.step = step, !.lender = {l}]]

CatEnds(h) == editor' = [editor EXCEPT ![h] = CatIdle]

\* A lag is excused from here on: two copies of one lender run at a time, or one failed.
Copying(l) == {h \in CatHandlers : editor[h].lender = {l}
                 /\ editor[h].step \in {"company", "contact", "insert", "update"}}

\* mirrorLenderToCrm is started and not awaited.
StartMirror(h, l, revision) ==
  /\ editor' = [editor EXCEPT ![h] = [CatIdle EXCEPT !.step = "company", !.lender = {l},
                                                     !.revision = revision]]
  /\ mirror' = [mirror EXCEPT ![l].lagging = @ \/ Copying(l) # {}]

\* createLender: one INSERT, status and active from one value.
CreateLender(l, method, targets, row) ==
  lender' = [lender EXCEPT ![l] =
    [row |-> row, revision |-> lender[l].revision + 1,
     submission |-> ReconcileSubmissionPayload([method |-> method, targets |-> targets])]]

\* POST /portal/lenders; a request without a method means EMAIL.
PostLender(h, l, body, row) ==
  /\ editor[h] = CatIdle
  /\ lender[l].row = "absent" /\ lender[l].revision < MaxRevision
  /\ CreateLender(l, IF body.method = NoMethod THEN "EMAIL" ELSE body.method, body.given, row)
  /\ StartMirror(h, l, lender[l].revision + 1)
  /\ UNCHANGED product

\* PATCH /portal/lenders/:id finds the lender ...
PatchLender(h, l) ==
  /\ FetchLenderById(l) /\ lender[l].revision < MaxRevision
  /\ CatBegin(h, "read", l)
  /\ UNCHANGED <<lender, product, mirror>>

\* ... updateLender reads it again when the request names a submission field,
\* and reconciles the request against what it read ...
UpdateLenderRead(h) ==
  /\ editor[h].step = "read"
  /\ \E l \in editor[h].lender, body \in Bodies :
       /\ Reconciles(body)
       /\ editor' = [editor EXCEPT ![h] = [@ EXCEPT !.step = "write",
            !.to = ReconcileSubmissionPayload(Merge(lender[l].submission, body))]]
  /\ UNCHANGED <<lender, product, mirror>>

\* Only the columns the request named, each as it is at the write.
WriteNamedFields(l, to) ==
  [method |-> to.method, targets |-> lender[l].submission.targets \cup to.targets]

\* What the UPDATE does to the submission fields: all of them, from one reading.
WriteSubmission(l, to) == to

\* ... and writes every changed column in one UPDATE.  The row may be gone:
\* the handler then fails on the missing id, before the mirror.
UpdateLender(h, row) ==
  /\ editor[h].step \in {"read", "write"}
  /\ \E l \in editor[h].lender :
       \/ /\ lender[l].row = "absent"
          /\ CatEnds(h)
          /\ UNCHANGED <<lender, mirror>>
       \/ /\ lender[l].row # "absent" /\ lender[l].revision < MaxRevision
          /\ lender' = [lender EXCEPT ![l] = [lender[l] EXCEPT !.row = row, !.revision = @ + 1,
               !.submission = IF editor[h].step = "write"
                                 THEN WriteSubmission(l, editor[h].to) ELSE @]]
          /\ StartMirror(h, l, lender[l].revision + 1)
  /\ UNCHANGED product

\* DELETE /portal/lenders/:id: the products go with it (ON DELETE CASCADE), the
\* CRM rows stay.
DeleteLender(l) ==
  /\ lender[l].row # "absent"
  /\ lender' = [lender EXCEPT ![l] = [@ EXCEPT !.row = "absent", !.submission = Unset]]
  /\ product' = [p \in Products |-> IF product[p].lender = {l}
                                    THEN [row |-> "absent", lender |-> {}] ELSE product[p]]
  /\ UNCHANGED <<mirror, editor>>

-----------------------------------------------------------------------------
\* mirrorLenderToCrm: upsert of the company, insert of the contact if there is
\* none, update of the contacts.  A failed statement ends it.

MirrorCompany(h) ==
  /\ editor[h].step = "company"
  /\ \E l \in editor[h].lender :
       mirror' = [mirror EXCEPT ![l].company = editor[h].revision]
  /\ editor' = [editor EXCEPT ![h].step = "contact"]
  /\ UNCHANGED <<lender, product>>

\* INSERT ... WHERE NOT EXISTS looks for a committed contact ...
MirrorContactLookup(h) ==
  /\ editor[h].step = "contact"
  /\ \E l \in editor[h].lender :
       editor' = [editor EXCEPT ![h] = [@ EXCEPT !.step = "insert", !.contacts = mirror[l].contacts]]
  /\ UNCHANGED <<lender, product, mirror>>

\* ... and inserts when it saw none.  A lender without a contact ends before.
MirrorContactInsert(h) ==
  /\ editor[h].step = "insert"
  /\ \E l \in editor[h].lender :
       mirror' = [mirror EXCEPT ![l].contacts =
                    IF editor[h].contacts = 0 THEN @ + 1 ELSE @]
  /\ editor' = [editor EXCEPT ![h] = [@ EXCEPT !.step = "update", !.contacts = 0]]
  /\ UNCHANGED <<lender, product>>

MirrorContactUpdate(h) ==
  /\ editor[h].step = "update"
  /\ \E l \in editor[h].lender :
       mirror' = [mirror EXCEPT ![l].contact = editor[h].revision]
  /\ CatEnds(h)
  /\ UNCHANGED <<lender, product>>

MirrorFails(h) ==
  /\ editor[h].step \in {"company", "contact", "insert", "update"}
  /\ \E l \in editor[h].lender : mirror' = [mirror EXCEPT ![l].lagging = TRUE]
  /\ CatEnds(h)
  /\ UNCHANGED <<lender, product>>

-----------------------------------------------------------------------------
\* Products.

\* createLenderProduct: a trigger refuses a lender that is not active.
CreateLenderProduct(p, l, row) ==
  /\ lender[l].row = "active"
  /\ product' = [product EXCEPT ![p] = [row |-> row, lender |-> {l}]]

\* POST /portal/lender-products
PostLenderProduct(p, l, row) ==
  /\ product[p].row = "absent"
  /\ CreateLenderProduct(p, l, row)
  /\ UNCHANGED <<lender, mirror, editor>>

FetchLenderProductById(p) == product[p].row # "absent"

\* updateLenderProduct: one statement; the columns the request leaves out stay,
\* active among them.
UpdateLenderProduct(p, row) == product' = [product EXCEPT ![p].row = row]

\* PUT /portal/lender-products/:id
PutLenderProduct(p, row) ==
  /\ FetchLenderProductById(p)
  /\ UpdateLenderProduct(p, row)
  /\ UNCHANGED <<lender, mirror, editor>>

\* DELETE /portal/lender-products/:id
DeleteLenderProduct(p) ==
  /\ product[p].row # "absent"
  /\ product' = [product EXCEPT ![p] = [row |-> "absent", lender |-> {}]]
  /\ UNCHANGED <<lender, mirror, editor>>

-----------------------------------------------------------------------------
CatNext ==
  \/ \E h \in CatHandlers :
       \/ \E l \in Lenders : \/ \E body \in Bodies, row \in {"active", "inactive"} :
                                  body.cleared = {} /\ PostLender(h, l, body, row)
                             \/ PatchLender(h, l)
       \/ UpdateLenderRead(h)
       \/ \E row \in {"active", "inactive"} : UpdateLender(h, row)
       \/ MirrorCompany(h) \/ MirrorContactLookup(h) \/ MirrorContactInsert(h)
       \/ MirrorContactUpdate(h) \/ MirrorFails(h)
  \/ \E l \in Lenders : DeleteLender(l)
  \/ \E p \in Products :
       \/ \E l \in Lenders, row \in {"active", "inactive"} : PostLenderProduct(p, l, row)
       \/ \E row \in {"active", "inactive"} : PutLenderProduct(p, row)
       \/ DeleteLenderProduct(p)

CatSpec == CatInit /\ [][CatNext]_catVars

-----------------------------------------------------------------------------
\* Properties.

\* However the PATCHes of a lender overlap, its submission method has its own
\* address and no other method's: a transmission never finds a method without
\* a target, nor a target left from a method given up (updateLender).
SubmissionTargetFits ==
  \A l \in Lenders : LET s == lender[l].submission IN
    s.targets = (IF s.method \in Addressed THEN {s.method} ELSE {})

\* An edit of a lender reaches its company in the CRM, once its copy has run:
\* the company lags behind only after two copies ran at a time or one failed
\* (mirrorLenderToCrm is not awaited and never repeated).
CrmFollowsLender ==
  \A l \in Lenders : Copying(l) = {} /\ ~mirror[l].lagging =>
    mirror[l].company = lender[l].revision
=============================================================================
