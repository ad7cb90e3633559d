---------------------------- MODULE RecordsProofs ----------------------------
(*****************************************************************************)
(* What the services record: catalogue and matches, notes, readiness sessions, *)
(* documents, calls, conversations, credit summaries, calendar and banking   *)
(* analysis, each for any values of its constants.  Each service has an      *)
(* inductive invariant of its own; the theorems about the run of all services *)
(* are at the end.                                                           *)
(*****************************************************************************)
EXTENDS MCServices, FiniteSetTheorems, SequenceTheorems, WellFoundedInduction, TLAPS

\* The variables of the run.
servicesVars == <<part, authVars, catVars, matchVars, reqVars, syncVars, httpVars, pushVars, noticeVars,
                  intakeVars, docVars, callVars, commVars, creditVars, opsVars, officeVars, bankVars>>

-----------------------------------------------------------------------------
(* Lender catalogue.                                                         *)

CopySteps == {"company", "contact", "insert", "update"}
EditorRow == [step: CatSteps, lender: {{l} : l \in Lenders} \cup {{}}, to: Submission,
              revision: 0..MaxRevision, contacts: 0..Cardinality(CatHandlers)]
LenderRow == [row: {"absent", "active", "inactive"}, submission: Submission, revision: 0..MaxRevision]
MirrorRow == [company: 0..MaxRevision, contacts: Nat, contact: 0..MaxRevision, lagging: BOOLEAN]

\* The method has its own address and no other.
Fits(s) == s.targets = (IF s.method \in Addressed THEN {s.method} ELSE {})

\* Handlers that saw no contact and are about to insert one.
Inserting(l) == {h \in CatHandlers : /\ editor[h].step = "insert" /\ editor[h].lender = {l}
                                     /\ editor[h].contacts = 0}

EditorSound(r) ==
  /\ r.step # "idle" => \E l \in Lenders : r.lender = {l}
  /\ r.step = "write" => Fits(r.to)

\* A lender that does not lag has at most one copy under way, of its last edit.
CopySound(l) ==
  ~mirror[l].lagging =>
    /\ \A g, h \in Copying(l) : g = h
    /\ \A h \in Copying(l) : /\ editor[h].revision = lender[l].revision
                             /\ editor[h].step # "company" => mirror[l].company = lender[l].revision
    /\ Copying(l) = {} => mirror[l].company = lender[l].revision

\* Contacts are inserted by handlers that all looked before the first.
ContactsBounded(l) == mirror[l].contacts + Cardinality(Inserting(l)) <= Cardinality(CatHandlers)

CatInv ==
  /\ lender \in [Lenders -> LenderRow] /\ mirror \in [Lenders -> MirrorRow]
  /\ product \in [Products -> [row: {"absent", "active", "inactive"}, lender: {{l} : l \in Lenders} \cup {{}}]]
  /\ editor \in [CatHandlers -> EditorRow]
  /\ \A h \in CatHandlers : EditorSound(editor[h])
  /\ \A l \in Lenders : Fits(lender[l].submission) /\ CopySound(l) /\ ContactsBounded(l)

\* The sets of handlers are finite.
LEMMA HandlersFinite ==
  ASSUME NEW l
  PROVE  /\ IsFiniteSet(CatHandlers) /\ Cardinality(CatHandlers) \in Nat
         /\ IsFiniteSet(Inserting(l)) /\ Cardinality(Inserting(l)) \in Nat
         /\ Cardinality(Inserting(l)) <= Cardinality(CatHandlers)
         /\ IsFiniteSet(Inserting(l)') /\ Cardinality(Inserting(l)') \in Nat
         /\ Cardinality(Inserting(l)') <= Cardinality(CatHandlers)
<1>1. IsFiniteSet(CatHandlers)
  BY CatalogueAssumption
<1>2. Inserting(l) \subseteq CatHandlers /\ Inserting(l)' \subseteq CatHandlers
  BY DEF Inserting
<1> QED BY <1>1, <1>2, FS_Subset, FS_CardinalityType

\* What reconciling returns fits.
LEMMA ReconciledFits ==
  ASSUME NEW s, s.method \in Methods \cup {NoMethod}, s.targets \subseteq Addressed,
         s = [method |-> s.method, targets |-> s.targets]
  PROVE  ReconcileSubmissionPayload(s) \in Submission /\ Fits(ReconcileSubmissionPayload(s))
<1>1. NoMethod \notin Methods /\ "MANUAL" \notin Addressed /\ Addressed \subseteq Methods
  BY CatalogueAssumption DEF NoMethod, Addressed
<1>2. CASE s.method = "MANUAL"
  BY <1>1, <1>2 DEF ReconcileSubmissionPayload, Submission, Fits
<1>3. CASE s.method # "MANUAL" /\ s.method \in s.targets
  <2>1. ReconcileSubmissionPayload(s) = [method |-> s.method, targets |-> {s.method}]
    BY <1>3 DEF ReconcileSubmissionPayload
  <2> QED BY <1>1, <1>3, <2>1 DEF Submission, Fits
<1>4. CASE s.method # "MANUAL" /\ s.method \notin s.targets
  <2>1. ReconcileSubmissionPayload(s) = Unset
    BY <1>4 DEF ReconcileSubmissionPayload
  <2> QED BY <1>1, <2>1 DEF Unset, Submission, Fits
<1> QED BY <1>2, <1>3, <1>4

\* The types, as the steps below use them.
LEMMA CatTyped ==
  ASSUME CatInv
  PROVE  /\ lender \in [Lenders -> LenderRow] /\ mirror \in [Lenders -> MirrorRow]
         /\ product \in [Products -> [row: {"absent", "active", "inactive"}, lender: {{l} : l \in Lenders} \cup {{}}]]
         /\ editor \in [CatHandlers -> EditorRow]
         /\ Unset \in Submission /\ Fits(Unset)
         /\ CatIdle \in EditorRow /\ CatIdle.step = "idle" /\ EditorSound(CatIdle)
         /\ CatIdle.lender = {} /\ CatIdle.to = Unset /\ CatIdle.contacts = 0 /\ CatIdle.revision = 0
<1>1. NoMethod \notin Methods /\ Addressed \subseteq Methods
  BY CatalogueAssumption DEF NoMethod, Addressed
<1>2. Unset \in Submission /\ Fits(Unset)
  BY <1>1 DEF Unset, Submission, Fits
<1>3. Cardinality(CatHandlers) \in Nat
  BY HandlersFinite
<1>4. CatIdle \in EditorRow /\ CatIdle.step = "idle" /\ EditorSound(CatIdle)
  BY <1>2, <1>3, CatalogueAssumption DEF CatIdle, EditorRow, CatSteps, EditorSound
<1> QED BY <1>2, <1>4 DEF CatInv, CatIdle

\* The catalogue is empty at the start.
LEMMA CatStarts == CatInit => CatInv
<1> SUFFICES ASSUME CatInit PROVE CatInv
  OBVIOUS
<1>1. NoMethod \notin Methods /\ Addressed \subseteq Methods
  BY CatalogueAssumption DEF NoMethod, Addressed
<1>2. Unset \in Submission /\ Fits(Unset)
  BY <1>1 DEF Unset, Submission, Fits
<1>3. Cardinality(CatHandlers) \in Nat
  BY HandlersFinite
<1>4. CatIdle \in EditorRow /\ CatIdle.step = "idle" /\ EditorSound(CatIdle)
  BY <1>2, <1>3, CatalogueAssumption DEF CatIdle, EditorRow, CatSteps, EditorSound
<1>5. \A h \in CatHandlers : editor[h] = CatIdle
  BY DEF CatInit
<1>6. ASSUME NEW l \in Lenders PROVE Fits(lender[l].submission) /\ CopySound(l) /\ ContactsBounded(l)
  <2>1. Copying(l) = {} /\ Inserting(l) = {}
    BY <1>4, <1>5 DEF Copying, Inserting
  <2>2. /\ lender[l].submission = Unset /\ lender[l].revision = 0
        /\ mirror[l].company = 0 /\ mirror[l].contacts = 0
    BY DEF CatInit
  <2>3. ContactsBounded(l)
    BY <1>3, <2>1, <2>2, FS_EmptySet DEF ContactsBounded
  <2> QED BY <1>2, <2>1, <2>2, <2>3 DEF CopySound
<1>7. lender \in [Lenders -> LenderRow] /\ mirror \in [Lenders -> MirrorRow]
  BY <1>2, CatalogueAssumption DEF CatInit, LenderRow, MirrorRow
<1>8. editor \in [CatHandlers -> EditorRow]
  BY <1>4 DEF CatInit
<1> QED BY <1>4, <1>5, <1>6, <1>7, <1>8 DEF CatInit, CatInv

\* A step of handler h on lender l, which the other lenders do not feel.
LEMMA EditorMoves ==
  ASSUME CatInv, NEW h \in CatHandlers, NEW l \in Lenders, NEW r \in EditorRow,
         editor[h].step = "idle" \/ editor[h].lender = {l}, r.step = "idle" \/ r.lender = {l},
         editor' = [editor EXCEPT ![h] = r], EditorSound(r), UNCHANGED product,
         lender' \in [Lenders -> LenderRow], mirror' \in [Lenders -> MirrorRow],
         \A k \in Lenders : k # l => lender'[k] = lender[k] /\ mirror'[k] = mirror[k],
         Fits(lender'[l].submission), CopySound(l)', ContactsBounded(l)'
  PROVE  CatInv'
<1>1. editor' \in [CatHandlers -> EditorRow] /\ editor'[h] = r /\ \A g \in CatHandlers : g # h => editor'[g] = editor[g]
  BY CatTyped
<1>2. ASSUME NEW k \in Lenders, k # l PROVE Fits(lender'[k].submission) /\ CopySound(k)' /\ ContactsBounded(k)'
  <2>1. Copying(k)' = Copying(k)
    BY <1>1, <1>2 DEF Copying
  <2>2. Inserting(k)' = Inserting(k)
    BY <1>1, <1>2 DEF Inserting
  <2>3. lender'[k] = lender[k] /\ mirror'[k] = mirror[k] /\ Fits(lender[k].submission) /\ CopySound(k) /\ ContactsBounded(k)
    BY <1>2 DEF CatInv
  <2>4. ContactsBounded(k)'
    BY <2>2, <2>3 DEF ContactsBounded
  <2>5. \A g \in Copying(k) : editor'[g] = editor[g]
    <3>1. h \notin Copying(k)
      BY <1>2 DEF Copying
    <3>2. Copying(k) \subseteq CatHandlers
      BY DEF Copying
    <3> QED BY <1>1, <3>1, <3>2
  <2>6. CopySound(k)'
    BY <2>1, <2>3, <2>5 DEF CopySound
  <2> QED BY <2>3, <2>4, <2>6
<1>3. \A g \in CatHandlers : EditorSound(editor'[g])
  BY <1>1 DEF CatInv
<1>4. product' \in [Products -> [row: {"absent", "active", "inactive"}, lender: {{k} : k \in Lenders} \cup {{}}]]
  BY CatTyped
<1> QED BY <1>1, <1>2, <1>3, <1>4 DEF CatInv

\* The handlers that insert do not grow, and no contact is added.
LEMMA BoundKept ==
  ASSUME CatInv, NEW l \in Lenders, mirror'[l].contacts = mirror[l].contacts, Inserting(l)' \subseteq Inserting(l)
  PROVE  ContactsBounded(l)'
<1> DEFINE m == Cardinality(Inserting(l))  n == Cardinality(Inserting(l)')  c == mirror[l].contacts
           k == Cardinality(CatHandlers)
<1>1. m \in Nat /\ n \in Nat /\ n <= m /\ c \in Nat /\ k \in Nat /\ c + m <= k
  BY HandlersFinite, FS_Subset, CatTyped DEF CatInv, ContactsBounded, MirrorRow
<1>2. c + n <= k
  <2> HIDE DEF m, n, c, k
  <2> QED BY <1>1
<1> QED BY <1>2 DEF ContactsBounded

\* A handler that begins, reads, writes or ends, and copies nothing.
LEMMA PlainMoves ==
  ASSUME CatInv, NEW h \in CatHandlers, NEW l \in Lenders, NEW r \in EditorRow,
         editor[h].step = "idle" \/ editor[h].lender = {l}, r.step = "idle" \/ r.lender = {l},
         editor[h].step \notin CopySteps, r.step \notin CopySteps,
         editor' = [editor EXCEPT ![h] = r], EditorSound(r), UNCHANGED <<product, lender, mirror>>
  PROVE  CatInv'
<1>1. editor'[h] = r /\ \A g \in CatHandlers : g # h => editor'[g] = editor[g]
  BY CatTyped
<1>2. Copying(l)' = Copying(l) /\ h \notin Copying(l) /\ Copying(l) \subseteq CatHandlers
  BY <1>1 DEF Copying, CopySteps
<1>3. Inserting(l)' = Inserting(l)
  BY <1>1 DEF Inserting, CopySteps
<1>4. CopySound(l)' /\ ContactsBounded(l)' /\ Fits(lender'[l].submission)
  BY <1>1, <1>2, <1>3 DEF CatInv, CopySound, ContactsBounded
<1> QED BY <1>4, CatTyped, EditorMoves

\* A lender is written and its copy begins.
LEMMA CopyBegins ==
  ASSUME CatInv, NEW h \in CatHandlers, NEW l \in Lenders, NEW s \in Submission, Fits(s),
         NEW row \in {"active", "inactive"}, editor[h].step \in {"idle", "read", "write"},
         editor[h].step = "idle" \/ editor[h].lender = {l},
         NEW n \in 0..MaxRevision,
         lender' = [lender EXCEPT ![l] = [row |-> row, revision |-> n, submission |-> s]],
         StartMirror(h, l, n), UNCHANGED product
  PROVE  CatInv'
<1> DEFINE r == [CatIdle EXCEPT !.step = "company", !.lender = {l}, !.revision = n]
           m == [mirror[l] EXCEPT !.lagging = mirror[l].lagging \/ Copying(l) # {}]
<1>1. r \in EditorRow /\ r.step = "company" /\ r.lender = {l} /\ r.revision = n /\ r.contacts = 0
  BY CatTyped DEF EditorRow, CatSteps
<1>2. EditorSound(r)
  BY <1>1 DEF EditorSound
<1>3. m \in MirrorRow /\ m.lagging = (mirror[l].lagging \/ Copying(l) # {}) /\ m.contacts = mirror[l].contacts
  <2>1. PICK b \in BOOLEAN : b = (mirror[l].lagging \/ Copying(l) # {})
    OBVIOUS
  <2>2. PICK kept : kept = mirror[l]
    OBVIOUS
  <2>3. kept \in MirrorRow
    BY <2>2, CatTyped
  <2>4. m = [kept EXCEPT !.lagging = b]
    BY <2>1, <2>2
  <2> HIDE DEF m
  <2>5. m \in MirrorRow /\ m.lagging = b /\ m.contacts = kept.contacts
    BY <2>3, <2>4 DEF MirrorRow
  <2> QED BY <2>1, <2>2, <2>5
<1>4. editor' = [editor EXCEPT ![h] = r] /\ mirror' = [mirror EXCEPT ![l] = m]
  <2>1. editor' = [editor EXCEPT ![h] = r] /\ mirror' = [mirror EXCEPT ![l].lagging = @ \/ Copying(l) # {}]
    BY DEF StartMirror
  <2> QED BY <2>1, CatTyped DEF MirrorRow
<1>5. [row |-> row, revision |-> n, submission |-> s] \in LenderRow
  BY DEF LenderRow
<1> HIDE DEF r, m
<1>6. editor'[h] = r /\ \A g \in CatHandlers : g # h => editor'[g] = editor[g]
  BY <1>4, CatTyped
<1>7. /\ lender' \in [Lenders -> LenderRow] /\ mirror' \in [Lenders -> MirrorRow]
      /\ \A k \in Lenders : k # l => lender'[k] = lender[k] /\ mirror'[k] = mirror[k]
      /\ lender'[l].revision = n /\ lender'[l].submission = s /\ mirror'[l] = m
  BY <1>3, <1>4, <1>5, CatTyped
<1>8. CopySound(l)'
  <2> SUFFICES ASSUME ~mirror'[l].lagging PROVE CopySound(l)'
    BY DEF CopySound
  <2>1. Copying(l) = {}
    BY <1>3, <1>7
  <2>2. Copying(l)' = {h}
    BY <1>1, <1>6, <2>1 DEF Copying
  <2> QED BY <1>1, <1>6, <1>7, <2>2 DEF CopySound
<1>9. ContactsBounded(l)'
  <2>1. Inserting(l)' \subseteq Inserting(l)
    BY <1>1, <1>6 DEF Inserting
  <2> QED BY <1>3, <1>7, <2>1, BoundKept
<1> QED BY <1>1, <1>2, <1>4, <1>7, <1>8, <1>9, EditorMoves

\* A step of a copy of lender l that has begun.
LEMMA CopyMoves ==
  ASSUME CatInv, NEW h \in CatHandlers, NEW l \in Lenders, editor[h].lender = {l}, editor[h].step \in CopySteps,
         NEW r \in EditorRow, editor' = [editor EXCEPT ![h] = r], NEW m \in MirrorRow,
         mirror' = [mirror EXCEPT ![l] = m], UNCHANGED <<lender, product>>,
         \/ r.step \in CopySteps \ {"company"} /\ r.lender = {l} /\ r.revision = editor[h].revision
         \/ r.step = "idle",
         m.lagging \/ m.lagging = mirror[l].lagging,
         m.company = mirror[l].company \/ m.company = editor[h].revision,
         ~m.lagging /\ editor[h].step = "company" => m.company = editor[h].revision,
         ContactsBounded(l)'
  PROVE  CatInv'
<1>1. editor'[h] = r /\ \A g \in CatHandlers : g # h => editor'[g] = editor[g]
  BY CatTyped
<1>2. /\ mirror' \in [Lenders -> MirrorRow] /\ mirror'[l] = m /\ \A k \in Lenders : k # l => mirror'[k] = mirror[k]
  BY CatTyped
<1>3. EditorSound(r)
  BY DEF EditorSound, CopySteps
<1>4. CopySound(l)'
  <2> SUFFICES ASSUME ~m.lagging PROVE CopySound(l)'
    BY <1>2 DEF CopySound
  <2>1. h \in Copying(l)
    BY DEF Copying, CopySteps
  <2>2. /\ Copying(l) = {h} /\ editor[h].revision = lender[l].revision
        /\ editor[h].step # "company" => mirror[l].company = lender[l].revision
    BY <2>1 DEF CatInv, CopySound
  <2>3. m.company = lender[l].revision
    BY <2>2
  <2>4. Copying(l)' = IF r.step = "idle" THEN {} ELSE {h}
    BY <1>1, <2>2 DEF Copying, CopySteps
  <2> QED BY <1>1, <1>2, <2>2, <2>3, <2>4 DEF CopySound
<1>5. Fits(lender'[l].submission) /\ lender' \in [Lenders -> LenderRow]
  BY CatTyped DEF CatInv
<1> QED BY <1>1, <1>2, <1>3, <1>4, <1>5, EditorMoves DEF CopySteps

\* The copy of a lender in the CRM: company, then contact.
LEMMA MirrorKeeps ==
  ASSUME CatInv, NEW h \in CatHandlers,
         MirrorCompany(h) \/ MirrorContactLookup(h) \/ MirrorContactInsert(h) \/ MirrorContactUpdate(h) \/ MirrorFails(h)
  PROVE  CatInv'
<1>t. /\ lender \in [Lenders -> LenderRow] /\ mirror \in [Lenders -> MirrorRow] /\ editor[h] \in EditorRow
      /\ editor \in [CatHandlers -> EditorRow] /\ CatIdle \in EditorRow /\ CatIdle.step = "idle"
  BY CatTyped
<1>0. editor[h].step \in CopySteps /\ UNCHANGED <<lender, product>>
  BY DEF MirrorCompany, MirrorContactLookup, MirrorContactInsert, MirrorContactUpdate, MirrorFails, CopySteps
<1>1. PICK l \in Lenders : editor[h].lender = {l}
  BY <1>0 DEF CatInv, EditorSound, CopySteps
<1>c. {"contact", "insert", "update"} \subseteq CatSteps \cap CopySteps /\ 0 \in 0..Cardinality(CatHandlers)
  BY HandlersFinite DEF CatSteps, CopySteps
<1>2. CASE MirrorCompany(h)
  <2> DEFINE r == [editor[h] EXCEPT !.step = "contact"]
             m == [mirror[l] EXCEPT !.company = editor[h].revision]
  <2>1. /\ r \in EditorRow /\ r.step = "contact" /\ r.lender = {l} /\ r.revision = editor[h].revision
    BY <1>t, <1>c, <1>1 DEF EditorRow
  <2>2. m \in MirrorRow /\ m.lagging = mirror[l].lagging /\ m.company = editor[h].revision /\ m.contacts = mirror[l].contacts
    BY <1>t DEF EditorRow, MirrorRow
  <2>3. editor' = [editor EXCEPT ![h] = r] /\ mirror' = [mirror EXCEPT ![l] = m] /\ editor[h].step = "company"
    BY <1>t, <1>1, <1>2 DEF MirrorCompany, MirrorRow, EditorRow
  <2> HIDE DEF r, m
  <2>4. ContactsBounded(l)'
    <3>1. Inserting(l)' \subseteq Inserting(l)
      BY <1>t, <2>1, <2>3 DEF Inserting
    <3>2. mirror'[l].contacts = mirror[l].contacts
      BY <1>t, <2>2, <2>3
    <3> QED BY <3>1, <3>2, BoundKept
  <2> QED BY <1>0, <1>1, <1>c, <2>1, <2>2, <2>3, <2>4, CopyMoves
<1>3. CASE MirrorContactLookup(h)
  <2> DEFINE r == [editor[h] EXCEPT !.step = "insert", !.contacts = mirror[l].contacts]
  <2>1. editor' = [editor EXCEPT ![h] = r] /\ UNCHANGED mirror /\ editor[h].step = "contact"
    BY <1>1, <1>3 DEF MirrorContactLookup
  <2> DEFINE n == mirror[l].contacts  k == Cardinality(CatHandlers)  i == Cardinality(Inserting(l))
             j == Cardinality(Inserting(l)')
  <2>2. n \in Nat /\ k \in Nat /\ i \in Nat /\ j \in Nat /\ n + i <= k /\ j <= k
    BY <1>t, HandlersFinite DEF CatInv, ContactsBounded, MirrorRow
  <2>3. n \in 0..k /\ 0 + j <= k
    <3> HIDE DEF n, k, i, j
    <3> QED BY <2>2
  <2>4. /\ r \in EditorRow /\ r.step = "insert" /\ r.lender = {l} /\ r.revision = editor[h].revision
        /\ r.contacts = mirror[l].contacts
    BY <1>t, <1>c, <1>1, <2>3 DEF EditorRow
  <2> HIDE DEF r
  <2>5. ContactsBounded(l)'
    <3>1. CASE mirror[l].contacts = 0
      BY <2>1, <2>3, <3>1 DEF ContactsBounded
    <3>2. CASE mirror[l].contacts # 0
      <4>1. Inserting(l)' \subseteq Inserting(l)
        BY <1>t, <2>1, <2>4, <3>2 DEF Inserting
      <4> QED BY <2>1, <4>1, BoundKept
    <3> QED BY <3>1, <3>2
  <2>6. mirror' = [mirror EXCEPT ![l] = mirror[l]] /\ mirror[l] \in MirrorRow
    BY <1>t, <2>1
  <2>7. r.step \in CopySteps \ {"company"} /\ editor[h].step # "company"
    BY <1>c, <2>1, <2>4
  <2> DEFINE m == mirror[l]
  <2>8. m \in MirrorRow /\ mirror' = [mirror EXCEPT ![l] = m] /\ m.lagging = mirror[l].lagging /\ m.company = mirror[l].company
    BY <2>6
  <2> HIDE DEF m, n, k, i, j
  <2>9. r.step \in CopySteps \ {"company"} /\ r.lender = {l} /\ r.revision = editor[h].revision
    BY <2>4, <2>7
  <2>10. (m.lagging \/ m.lagging = mirror[l].lagging) /\ (m.company = mirror[l].company \/ m.company = editor[h].revision)
         /\ (~m.lagging /\ editor[h].step = "company" => m.company = editor[h].revision)
    BY <2>7, <2>8
  <2>11. r \in EditorRow /\ m \in MirrorRow /\ mirror' = [mirror EXCEPT ![l] = m] /\ editor' = [editor EXCEPT ![h] = r]
    BY <2>1, <2>4, <2>8
  <2>12. editor[h].step \in CopySteps /\ UNCHANGED <<lender, product>>
    BY <1>0
  <2> QED BY <1>1, <2>5, <2>9, <2>10, <2>11, <2>12, CopyMoves
<1>4. CASE MirrorContactInsert(h)
  <2> DEFINE r == [editor[h] EXCEPT !.step = "update", !.contacts = 0]
             m == [mirror[l] EXCEPT !.contacts = IF editor[h].contacts = 0 THEN mirror[l].contacts + 1
                                                                         ELSE mirror[l].contacts]
  <2>1. editor' = [editor EXCEPT ![h] = r] /\ mirror' = [mirror EXCEPT ![l] = m] /\ editor[h].step = "insert"
    BY <1>t, <1>1, <1>4 DEF MirrorContactInsert, MirrorRow
  <2>2. r \in EditorRow /\ r.step = "update" /\ r.lender = {l} /\ r.revision = editor[h].revision
    BY <1>t, <1>c, <1>1 DEF EditorRow
  <2>3. /\ m \in MirrorRow /\ m.lagging = mirror[l].lagging /\ m.company = mirror[l].company
        /\ m.contacts = IF editor[h].contacts = 0 THEN mirror[l].contacts + 1 ELSE mirror[l].contacts
    <3>1. mirror[l].contacts + 1 \in Nat
      BY <1>t DEF MirrorRow
    <3> QED BY <1>t, <3>1 DEF MirrorRow
  <2> HIDE DEF r, m
  <2>4. mirror'[l] = m
    BY <1>t, <2>1
  <2>5. ContactsBounded(l)'
    <3>1. CASE editor[h].contacts # 0
      <4>1. Inserting(l)' \subseteq Inserting(l)
        BY <1>t, <2>1, <2>2 DEF Inserting
      <4> QED BY <2>3, <2>4, <3>1, <4>1, BoundKept
    <3>2. CASE editor[h].contacts = 0
      <4>1. Inserting(l)' = Inserting(l) \ {h} /\ h \in Inserting(l)
        BY <1>t, <1>1, <2>1, <2>2, <3>2 DEF Inserting
      <4> DEFINE n == mirror[l].contacts  k == Cardinality(CatHandlers)  i == Cardinality(Inserting(l))
                 j == Cardinality(Inserting(l)')  q == mirror'[l].contacts
      <4>2. n \in Nat /\ k \in Nat /\ i \in Nat /\ n + i <= k /\ j = i - 1 /\ q = n + 1
        <5>1. j = i - 1
          BY <4>1, HandlersFinite, FS_RemoveElement
        <5> QED BY <1>t, <2>3, <2>4, <3>2, <5>1, HandlersFinite DEF CatInv, ContactsBounded, MirrorRow
      <4>3. q + j <= k
        <5> HIDE DEF n, k, i, j, q
        <5> QED BY <4>2
      <4> QED BY <4>3 DEF ContactsBounded
    <3> QED BY <3>1, <3>2
  <2> QED BY <1>0, <1>1, <1>c, <2>1, <2>2, <2>3, <2>5, CopyMoves
<1>5. CASE MirrorContactUpdate(h)
  <2> DEFINE m == [mirror[l] EXCEPT !.contact = editor[h].revision]
  <2>1. m \in MirrorRow /\ m.lagging = mirror[l].lagging /\ m.company = mirror[l].company /\ m.contacts = mirror[l].contacts
    BY <1>t DEF EditorRow, MirrorRow
  <2>2. editor' = [editor EXCEPT ![h] = CatIdle] /\ mirror' = [mirror EXCEPT ![l] = m] /\ editor[h].step = "update"
    BY <1>t, <1>1, <1>5 DEF MirrorContactUpdate, CatEnds, MirrorRow, EditorRow
  <2> HIDE DEF m
  <2>3. ContactsBounded(l)'
    <3>1. Inserting(l)' \subseteq Inserting(l)
      BY <1>t, <2>2 DEF Inserting
    <3>2. mirror'[l].contacts = mirror[l].contacts
      BY <1>t, <2>1, <2>2
    <3> QED BY <3>1, <3>2, BoundKept
  <2> QED BY <1>t, <1>0, <1>1, <2>1, <2>2, <2>3, CopyMoves
<1>6. CASE MirrorFails(h)
  <2> DEFINE m == [mirror[l] EXCEPT !.lagging = TRUE]
  <2>1. m \in MirrorRow /\ m.lagging /\ m.company = mirror[l].company /\ m.contacts = mirror[l].contacts
    BY <1>t DEF MirrorRow
  <2>2. editor' = [editor EXCEPT ![h] = CatIdle] /\ mirror' = [mirror EXCEPT ![l] = m]
    BY <1>t, <1>1, <1>6 DEF MirrorFails, CatEnds, MirrorRow
  <2> HIDE DEF m
  <2>3. ContactsBounded(l)'
    <3>1. Inserting(l)' \subseteq Inserting(l)
      BY <1>t, <2>2 DEF Inserting
    <3>2. mirror'[l].contacts = mirror[l].contacts
      BY <1>t, <2>1, <2>2
    <3> QED BY <3>1, <3>2, BoundKept
  <2> QED BY <1>t, <1>0, <1>1, <2>1, <2>2, <2>3, CopyMoves
<1> QED BY <1>2, <1>3, <1>4, <1>5, <1>6

\* The requests on a lender.
LEMMA LenderKeeps ==
  ASSUME CatInv, NEW h \in CatHandlers,
         \/ \E l \in Lenders : \/ \E body \in Bodies, row \in {"active", "inactive"} :
                                    body.cleared = {} /\ PostLender(h, l, body, row)
                               \/ PatchLender(h, l)
         \/ UpdateLenderRead(h)
         \/ \E row \in {"active", "inactive"} : UpdateLender(h, row)
  PROVE  CatInv'
<1>t. /\ lender \in [Lenders -> LenderRow] /\ mirror \in [Lenders -> MirrorRow] /\ editor[h] \in EditorRow
      /\ editor \in [CatHandlers -> EditorRow] /\ CatIdle \in EditorRow /\ CatIdle.step = "idle"
      /\ EditorSound(CatIdle) /\ EditorSound(editor[h]) /\ MaxRevision \in Nat
  BY CatTyped, CatalogueAssumption DEF CatInv
\* A request's method and addresses are reconciled.
<1>r. ASSUME NEW me \in Methods \cup {NoMethod}, NEW ta \in SUBSET Addressed
      PROVE  /\ ReconcileSubmissionPayload([method |-> me, targets |-> ta]) \in Submission
             /\ Fits(ReconcileSubmissionPayload([method |-> me, targets |-> ta]))
  <2> DEFINE s == [method |-> me, targets |-> ta]
  <2>1. s.method = me /\ s.targets = ta /\ s = [method |-> s.method, targets |-> s.targets]
    OBVIOUS
  <2> HIDE DEF s
  <2>2. ReconcileSubmissionPayload(s) \in Submission /\ Fits(ReconcileSubmissionPayload(s))
    BY <2>1, ReconciledFits
  <2> QED BY <2>2 DEF s
<1>1. ASSUME NEW l \in Lenders, NEW body \in Bodies, NEW row \in {"active", "inactive"}, PostLender(h, l, body, row)
      PROVE  CatInv'
  <2>1. PICK me \in Methods \cup {NoMethod} : /\ editor[h] = CatIdle /\ lender[l].revision < MaxRevision
                                              /\ CreateLender(l, me, body.given, row)
                                              /\ StartMirror(h, l, lender[l].revision + 1) /\ UNCHANGED product
    BY <1>1, CatalogueAssumption DEF PostLender, Bodies
  <2> DEFINE s == ReconcileSubmissionPayload([method |-> me, targets |-> body.given])
             n == lender[l].revision + 1
  <2>2. body.given \in SUBSET Addressed
    BY DEF Bodies
  <2>3. s \in Submission /\ Fits(s)
    BY <1>r, <2>2
  <2>4. n \in 0..MaxRevision
    BY <1>t, <2>1 DEF LenderRow
  <2>5. lender' = [lender EXCEPT ![l] = [row |-> row, revision |-> n, submission |-> s]] /\ StartMirror(h, l, n)
    BY <2>1 DEF CreateLender
  <2> HIDE DEF s, n
  <2> QED BY <1>t, <2>1, <2>3, <2>4, <2>5, CopyBegins
<1>2. ASSUME NEW l \in Lenders, PatchLender(h, l) PROVE CatInv'
  <2> DEFINE r == [CatIdle EXCEPT !.step = "read", !.lender = {l}]
  <2>1. r \in EditorRow /\ r.step = "read" /\ r.lender = {l} /\ r.step \notin CopySteps
    BY <1>t DEF EditorRow, CatSteps, CopySteps
  <2>2. editor' = [editor EXCEPT ![h] = r] /\ editor[h] = CatIdle /\ UNCHANGED <<lender, product, mirror>>
    BY <1>2 DEF PatchLender, CatBegin
  <2>3. EditorSound(r)
    BY <2>1 DEF EditorSound
  <2> HIDE DEF r
  <2> QED BY <1>t, <2>1, <2>2, <2>3, PlainMoves DEF CopySteps
<1>3. ASSUME UpdateLenderRead(h) PROVE CatInv'
  <2>1. PICK l \in editor[h].lender, body \in Bodies :
          editor' = [editor EXCEPT ![h] = [editor[h] EXCEPT !.step = "write",
                        !.to = ReconcileSubmissionPayload(Merge(lender[l].submission, body))]]
    BY <1>3 DEF UpdateLenderRead
  <2>2. editor[h].step = "read" /\ UNCHANGED <<lender, product, mirror>>
    BY <1>3 DEF UpdateLenderRead
  <2>3. l \in Lenders /\ editor[h].lender = {l}
    BY <1>t, <2>1, <2>2 DEF EditorSound
  <2> DEFINE s == ReconcileSubmissionPayload(Merge(lender[l].submission, body))
             r == [editor[h] EXCEPT !.step = "write", !.to = s]
  <2>4. s \in Submission /\ Fits(s)
    <3> DEFINE me == IF body.method = NoMethod THEN lender[l].submission.method ELSE body.method
               ta == (lender[l].submission.targets \cup body.given) \ body.cleared
    <3>1. me \in Methods \cup {NoMethod} /\ ta \in SUBSET Addressed
      BY <1>t, <2>3 DEF LenderRow, Submission, Bodies
    <3>2. s = ReconcileSubmissionPayload([method |-> me, targets |-> ta])
      BY DEF Merge
    <3> HIDE DEF me, ta, s
    <3> QED BY <1>r, <3>1, <3>2
  <2> HIDE DEF s
  <2>5. r \in EditorRow /\ r.step = "write" /\ r.lender = {l} /\ r.to = s
    BY <1>t, <2>3, <2>4 DEF EditorRow, CatSteps
  <2>6. EditorSound(r)
    BY <2>3, <2>4, <2>5 DEF EditorSound
  <2>7. editor' = [editor EXCEPT ![h] = r]
    BY <2>1 DEF s
  <2> HIDE DEF r
  <2> QED BY <1>t, <2>2, <2>3, <2>5, <2>6, <2>7, PlainMoves DEF CopySteps
<1>4. ASSUME NEW row \in {"active", "inactive"}, UpdateLender(h, row) PROVE CatInv'
  <2>1. PICK l \in editor[h].lender :
       \/ /\ lender[l].row = "absent"
          /\ CatEnds(h)
          /\ UNCHANGED <<lender, mirror>>
       \/ /\ lender[l].row # "absent" /\ lender[l].revision < MaxRevision
          /\ lender' = [lender EXCEPT ![l] = [lender[l] EXCEPT !.row = row, !.revision = lender[l].revision + 1,
               !.submission = IF editor[h].step = "write"
                                 THEN WriteSubmission(l, editor[h].to) ELSE lender[l].submission]]
          /\ StartMirror(h, l, lender[l].revision + 1)
    BY <1>4 DEF UpdateLender
  <2>2. editor[h].step \in {"read", "write"} /\ UNCHANGED product
    BY <1>4 DEF UpdateLender
  <2>3. l \in Lenders /\ editor[h].lender = {l}
    BY <1>t, <2>1, <2>2 DEF EditorSound
  <2>4. CASE CatEnds(h) /\ UNCHANGED <<lender, mirror>>
    BY <1>t, <2>2, <2>3, <2>4, PlainMoves DEF CatEnds, CopySteps
  <2>5. CASE /\ lender[l].revision < MaxRevision
             /\ lender' = [lender EXCEPT ![l] = [lender[l] EXCEPT !.row = row, !.revision = lender[l].revision + 1,
                  !.submission = IF editor[h].step = "write"
                                    THEN WriteSubmission(l, editor[h].to) ELSE lender[l].submission]]
             /\ StartMirror(h, l, lender[l].revision + 1)
    <3> DEFINE s == IF editor[h].step = "write" THEN editor[h].to ELSE lender[l].submission
               n == lender[l].revision + 1
    <3>1. s \in Submission /\ Fits(s)
      BY <1>t, <2>3 DEF EditorSound, EditorRow, LenderRow, CatInv
    <3>2. n \in 0..MaxRevision
      BY <1>t, <2>3, <2>5 DEF LenderRow
    <3>r. lender[l] \in LenderRow
      BY <1>t, <2>3
    <3> HIDE DEF n
    <3>3. [lender[l] EXCEPT !.row = row, !.revision = n, !.submission = s]
            = [row |-> row, submission |-> s, revision |-> n]
      <4> HIDE DEF s
      <4>1. PICK a, b, c : lender[l] = [row |-> a, submission |-> b, revision |-> c]
        BY <3>r DEF LenderRow
      <4>2. PICK y : y = [lender[l] EXCEPT !.row = row, !.revision = n, !.submission = s]
        OBVIOUS
      <4>3. y = [row |-> row, submission |-> s, revision |-> n]
        BY <4>1, <4>2
      <4> QED BY <4>2, <4>3
    <3> USE DEF n
    <3>4. lender' = [lender EXCEPT ![l] = [row |-> row, submission |-> s, revision |-> n]]
      BY <2>5, <3>3 DEF WriteSubmission
    <3>5. StartMirror(h, l, n)
      BY <2>5
    <3> HIDE DEF s, n
    <3> QED BY <2>2, <2>3, <3>1, <3>2, <3>4, <3>5, CopyBegins
  <2> QED BY <2>1, <2>4, <2>5
<1> QED BY <1>1, <1>2, <1>3, <1>4

\* Every step of the catalogue preserves the invariant.
LEMMA CatKeeps == CatInv /\ [CatNext]_catVars => CatInv'
<1> SUFFICES ASSUME CatInv, [CatNext]_catVars PROVE CatInv'
  OBVIOUS
<1>t. /\ lender \in [Lenders -> LenderRow] /\ mirror \in [Lenders -> MirrorRow]
      /\ product \in [Products -> [row: {"absent", "active", "inactive"}, lender: {{l} : l \in Lenders} \cup {{}}]]
      /\ Unset \in Submission /\ Fits(Unset)
  BY CatTyped
\* A step that leaves the copies alone.
<1>s. ASSUME UNCHANGED <<mirror, editor>>, lender' \in [Lenders -> LenderRow],
             product' \in [Products -> [row: {"absent", "active", "inactive"}, lender: {{l} : l \in Lenders} \cup {{}}]],
             \A l \in Lenders : lender'[l].revision = lender[l].revision /\ Fits(lender'[l].submission)
      PROVE  CatInv'
  <2>1. \A l \in Lenders : Copying(l)' = Copying(l) /\ Inserting(l)' = Inserting(l)
    BY <1>s DEF Copying, Inserting
  <2> QED BY <1>s, <2>1 DEF CatInv, CopySound, ContactsBounded
<1>1. ASSUME NEW l \in Lenders, DeleteLender(l) PROVE CatInv'
  <2> DEFINE row == [lender[l] EXCEPT !.row = "absent", !.submission = Unset]
  <2>1. row \in LenderRow /\ row.revision = lender[l].revision /\ row.submission = Unset
    BY <1>t DEF LenderRow
  <2>2. /\ lender' = [lender EXCEPT ![l] = row] /\ UNCHANGED <<mirror, editor>>
        /\ product' = [p \in Products |-> IF product[p].lender = {l}
                                    THEN [row |-> "absent", lender |-> {}] ELSE product[p]]
    BY <1>1 DEF DeleteLender
  <2>3. product' \in [Products -> [row: {"absent", "active", "inactive"}, lender: {{k} : k \in Lenders} \cup {{}}]]
    BY <1>t, <2>2
  <2> HIDE DEF row
  <2> QED BY <1>t, <1>s, <2>1, <2>2, <2>3 DEF CatInv
<1>2. ASSUME NEW p \in Products,
             \/ \E l \in Lenders, row \in {"active", "inactive"} : PostLenderProduct(p, l, row)
             \/ \E row \in {"active", "inactive"} : PutLenderProduct(p, row)
             \/ DeleteLenderProduct(p)
      PROVE  CatInv'
  <2>1. UNCHANGED <<lender, mirror, editor>>
    BY <1>2 DEF PostLenderProduct, PutLenderProduct, DeleteLenderProduct
  <2>2. product' \in [Products -> [row: {"absent", "active", "inactive"}, lender: {{k} : k \in Lenders} \cup {{}}]]
    BY <1>t, <1>2 DEF PostLenderProduct, CreateLenderProduct, PutLenderProduct, UpdateLenderProduct, DeleteLenderProduct
  <2> QED BY <1>t, <1>s, <2>1, <2>2 DEF CatInv
<1>3. CASE UNCHANGED catVars
  BY <1>3, <1>t, <1>s DEF catVars, CatInv
<1> QED BY <1>1, <1>2, <1>3, LenderKeeps, MirrorKeeps DEF CatNext

\* The invariant implies what the run checks.
LEMMA CatInvImplies == CatInv => CatTypeOK /\ SubmissionTargetFits /\ CrmFollowsLender
<1> SUFFICES ASSUME CatInv PROVE CatTypeOK /\ SubmissionTargetFits /\ CrmFollowsLender
  OBVIOUS
<1>1. mirror \in [Lenders -> [company: 0..MaxRevision, contacts: 0..Cardinality(CatHandlers),
                              contact: 0..MaxRevision, lagging: BOOLEAN]]
  <2>1. ASSUME NEW l \in Lenders PROVE mirror[l].contacts \in 0..Cardinality(CatHandlers)
    <3> DEFINE n == mirror[l].contacts  k == Cardinality(CatHandlers)  i == Cardinality(Inserting(l))
    <3>1. n \in Nat /\ k \in Nat /\ i \in Nat /\ n + i <= k
      BY CatTyped, HandlersFinite DEF CatInv, ContactsBounded, MirrorRow
    <3>2. n \in 0..k
      <4> HIDE DEF n, k, i
      <4> QED BY <3>1
    <3> QED BY <3>2
  <2> QED BY <2>1, CatTyped DEF MirrorRow
<1>2. CatTypeOK
  BY <1>1, CatTyped DEF CatTypeOK, EditorRow, LenderRow
<1>3. SubmissionTargetFits
  BY DEF SubmissionTargetFits, CatInv, Fits
<1> QED BY <1>2, <1>3 DEF CatInv, CopySound, CrmFollowsLender

-----------------------------------------------------------------------------
(* Lender matches.                                                           *)

\* A mark is on its way only for something that became known.
MarksFollowEvidence == marks <= evidence

\* With no mark on its way and none overtaken, whoever computes has read what is
\* known now, and what is stored and not stale was computed from it.
ComputedFromNow ==
  marks = 0 /\ ~matches.overtaken =>
    /\ \A h \in Matchers : matcher[h].step \in {"match", "store"} => matcher[h].evidence = evidence
    /\ matches.computed /\ ~matches.stale => matches.evidence = evidence

MatchInv == MatchTypeOK /\ MarksFollowEvidence /\ ComputedFromNow

MatcherRow == [step: {"idle", "match", "store"}, evidence: 0..MaxEvidence,
               seen: SUBSET OfferedProducts]
MatchesRow == [list: SUBSET OfferedProducts, computed: BOOLEAN, stale: BOOLEAN,
               evidence: 0..MaxEvidence, overtaken: BOOLEAN]

\* Nothing is computed at the start.
LEMMA MatchStarts == MatchInit => MatchInv
  BY MatchAssumption DEF MatchInit, MatchInv, MatchTypeOK, MatcherIdle, MarksFollowEvidence, ComputedFromNow

\* A step changes the computation of at most one handler, to a state r.
LEMMA MatcherMoves ==
  ASSUME MatchInv, NEW h \in Matchers, NEW r \in MatcherRow,
         matcher' = [matcher EXCEPT ![h] = r]
  PROVE  /\ matcher' \in [Matchers -> MatcherRow] /\ matcher'[h] = r
         /\ \A g \in Matchers : g # h => matcher'[g] = matcher[g]
  BY DEF MatchInv, MatchTypeOK, MatcherRow

\* Every step of the matches preserves the invariant.
LEMMA MatchKeeps == MatchInv /\ [MatchNext]_matchVars => MatchInv'
<1> SUFFICES ASSUME MatchInv, [MatchNext]_matchVars PROVE MatchInv'
  OBVIOUS
<1>t. /\ matcher \in [Matchers -> MatcherRow] /\ matches \in MatchesRow
      /\ evidence \in 0..MaxEvidence /\ marks \in 0..MaxEvidence /\ marks <= evidence
      /\ offered \subseteq OfferedProducts /\ outstanding \in BOOLEAN
  BY DEF MatchInv, MatchTypeOK, MatcherRow, MatchesRow, MarksFollowEvidence
<1> USE MatchAssumption
<1>1. CASE CatalogueChanges \/ RequiredDocumentsChange \/ UNCHANGED matchVars
  BY <1>t, <1>1 DEF MatchInv, MatchTypeOK, CatalogueChanges, RequiredDocumentsChange, matchVars,
     MarksFollowEvidence, ComputedFromNow
<1>2. CASE EvidenceChanges
  BY <1>t, <1>2 DEF MatchInv, MatchTypeOK, EvidenceChanges, MarksFollowEvidence, ComputedFromNow
<1>3. CASE MarkLenderMatchesStale
  <2>1. matches' \in MatchesRow /\ matches'.stale = TRUE
        /\ (~matches'.overtaken =>
              \A h \in Matchers : matcher[h].step \notin {"match", "store"})
    BY <1>t, <1>3 DEF MarkLenderMatchesStale, MatchesRow
  <2>0. /\ marks' = marks - 1 /\ marks > 0
        /\ UNCHANGED <<offered, evidence, outstanding, matcher>>
    BY <1>3 DEF MarkLenderMatchesStale
  <2>a. marks' \in 0..MaxEvidence /\ marks' <= evidence
    BY <1>t, <2>0
  <2>2. MatchTypeOK' /\ MarksFollowEvidence'
    BY <1>t, <2>0, <2>a, <2>1 DEF MatchTypeOK, MatchesRow, MatcherRow, MarksFollowEvidence
  <2>3. ComputedFromNow'
    BY <1>3, <2>1 DEF MarkLenderMatchesStale, ComputedFromNow
  <2> QED BY <2>2, <2>3 DEF MatchInv
<1>4. CASE MarkFails
  <2>1. matches' \in MatchesRow /\ matches'.overtaken = TRUE
    BY <1>t, <1>4 DEF MarkFails, MatchesRow
  <2> QED
    BY <1>t, <1>4, <2>1 DEF MatchInv, MatchTypeOK, MarkFails, MatchesRow,
       MarksFollowEvidence, ComputedFromNow
<1>5. ASSUME NEW h \in Matchers, ComputeAndCacheLenderMatches(h) PROVE MatchInv'
  <2> DEFINE r == [matcher[h] EXCEPT !.step = "match", !.evidence = evidence]
  <2>1. r \in MatcherRow /\ r.evidence = evidence /\ matcher' = [matcher EXCEPT ![h] = r]
    BY <1>t, <1>5 DEF ComputeAndCacheLenderMatches, MatcherRow
  <2> HIDE DEF r
  <2> QED
    BY <1>t, <1>5, <2>1, MatcherMoves DEF MatchInv, MatchTypeOK, ComputeAndCacheLenderMatches,
       MatcherRow, MarksFollowEvidence, ComputedFromNow
<1>6. ASSUME NEW h \in Matchers, ReadCatalogue(h) PROVE MatchInv'
  <2>1. PICK found \in {MatchLenders, {}} :
          matcher' = [matcher EXCEPT ![h] = [@ EXCEPT !.step = "store", !.seen = found]]
    BY <1>6 DEF ReadCatalogue
  <2> DEFINE r == [matcher[h] EXCEPT !.step = "store", !.seen = found]
  <2>2. r \in MatcherRow /\ r.evidence = matcher[h].evidence /\ matcher' = [matcher EXCEPT ![h] = r]
    BY <1>t, <1>6, <2>1 DEF MatcherRow, MatchLenders
  <2> HIDE DEF r
  <2> QED
    BY <1>t, <1>6, <2>2, MatcherMoves DEF MatchInv, MatchTypeOK, ReadCatalogue,
       MatcherRow, MarksFollowEvidence, ComputedFromNow
<1>7. ASSUME NEW h \in Matchers, StoreMatches(h) PROVE MatchInv'
  <2>1. MatcherIdle \in MatcherRow /\ MatcherIdle.step = "idle"
    BY DEF MatcherIdle, MatcherRow
  <2>2. /\ matches' \in MatchesRow /\ matches'.overtaken = matches.overtaken
        /\ matches' = matches \/ matches'.evidence = matcher[h].evidence
    BY <1>t, <1>7 DEF StoreMatches, MatchesRow, MatcherRow
  <2> QED
    BY <1>t, <1>7, <2>1, <2>2, MatcherMoves DEF MatchInv, MatchTypeOK, StoreMatches,
       MatcherRow, MatchesRow, MarksFollowEvidence, ComputedFromNow
<1> QED BY <1>1, <1>2, <1>3, <1>4, <1>5, <1>6, <1>7 DEF MatchNext

\* The invariant implies what the run checks.
LEMMA MatchInvImplies == MatchInv => MatchTypeOK /\ ReadyMatchesAreCurrent
  BY DEF MatchInv, ComputedFromNow, ReadyMatchesAreCurrent, Envelope, MatchTypeOK

-----------------------------------------------------------------------------
(* Mentions.                                                                 *)

NoteRow == [state : {"absent", "live", "deleted"}, mentions : SUBSET Staff]
WriterRow == [pc : {"idle", "create", "save", "notify"}, ref : Refs \cup {"none"},
              wanted : SUBSET Staff, previous : SUBSET Staff, todo : SUBSET Staff]

\* A request writes a note or notifies about a record, and only then has people
\* still to notify.
WriterSound(r) ==
  /\ r.pc \in {"create", "save"} => r.ref \in NoteIds
  /\ r.pc = "notify" => r.ref \in Refs
  /\ r.pc # "notify" => r.todo = {}

\* u was notified of n, will be, or lost it: what stays true once it is.
Covered(u, n) ==
  \/ inbox[<<u, n>>] # "none"
  \/ <<u, n>> \in unnotified
  \/ \E h \in NoteHandlers : writer[h].ref = n /\ u \in writer[h].todo

\* Whoever an edit found mentioned is covered, whatever other edits do since.
PreviousAreCovered ==
  \A h \in NoteHandlers : writer[h].pc = "save" =>
    \A u \in writer[h].previous : Covered(u, writer[h].ref)

MentionsAreCovered == \A n \in NoteIds : \A u \in note[n].mentions : Covered(u, n)

NoticeInv ==
  /\ NoticeTypeOK
  /\ \A h \in NoteHandlers : WriterSound(writer[h])
  /\ PreviousAreCovered
  /\ MentionsAreCovered

\* The types of the rows under way.
LEMMA NoticeTyped ==
  NoticeTypeOK <=> /\ note \in [NoteIds -> NoteRow] /\ writer \in [NoteHandlers -> WriterRow]
                   /\ inbox \in [Staff \X Refs -> {"none", "unread", "read"}]
                   /\ unnotified \subseteq Staff \X NoteIds
  BY DEF NoticeTypeOK, NoteRow, WriterRow

\* A writer without a request.
LEMMA IdleWriterSound == IdleWriter \in WriterRow /\ WriterSound(IdleWriter)
                         /\ IdleWriter.pc = "idle" /\ IdleWriter.todo = {}
  BY DEF IdleWriter, WriterRow, WriterSound

\* No note is written at the start.
LEMMA NoticeStarts == NoticeInit => NoticeInv
<1> SUFFICES ASSUME NoticeInit PROVE NoticeInv
  OBVIOUS
<1>1. NoticeTypeOK
  BY IdleWriterSound DEF NoticeInit, NoticeTypeOK, WriterRow
<1>2. \A h \in NoteHandlers : WriterSound(writer[h]) /\ writer[h].pc = "idle"
  BY IdleWriterSound DEF NoticeInit
<1>3. \A n \in NoteIds : note[n].mentions = {}
  BY DEF NoticeInit
<1> QED BY <1>1, <1>2, <1>3 DEF NoticeInv, PreviousAreCovered, MentionsAreCovered

\* One request moves to r; the people it had still to notify stay covered.
LEMMA NoticeStep ==
  ASSUME NoticeInv, NEW h \in NoteHandlers, NEW r \in WriterRow, WriterSound(r),
         writer' = [writer EXCEPT ![h] = r],
         note' \in [NoteIds -> NoteRow],
         inbox' \in [Staff \X Refs -> {"none", "unread", "read"}],
         unnotified' \subseteq Staff \X NoteIds,
         \A x \in Staff \X Refs : inbox[x] # "none" => inbox'[x] # "none",
         unnotified \subseteq unnotified',
         \A u \in writer[h].todo : writer[h].ref \in NoteIds =>
            \/ inbox'[<<u, writer[h].ref>>] # "none" \/ <<u, writer[h].ref>> \in unnotified'
            \/ r.ref = writer[h].ref /\ u \in r.todo,
         \A n \in NoteIds : \A u \in note'[n].mentions :
            u \in note[n].mentions \/ Covered(u, n) \/ Covered(u, n)',
         r.pc = "save" => \A u \in r.previous : Covered(u, r.ref)
  PROVE  NoticeInv'
<1>t. /\ writer \in [NoteHandlers -> WriterRow] /\ note \in [NoteIds -> NoteRow]
      /\ unnotified \subseteq Staff \X NoteIds
      /\ \A g \in NoteHandlers : WriterSound(writer[g])
  BY NoticeTyped DEF NoticeInv
<1>1. /\ writer' \in [NoteHandlers -> WriterRow] /\ writer'[h] = r
      /\ \A g \in NoteHandlers : g # h => writer'[g] = writer[g]
  BY <1>t
<1>2. NoticeTypeOK'
  BY <1>1 DEF NoticeTypeOK, NoteRow, WriterRow
<1>3. \A u \in Staff, n \in NoteIds : Covered(u, n) => Covered(u, n)'
  <2> SUFFICES ASSUME NEW u \in Staff, NEW n \in NoteIds, Covered(u, n) PROVE Covered(u, n)'
    OBVIOUS
  <2>0. <<u, n>> \in Staff \X Refs
    BY DEF Refs
  <2>1. CASE inbox[<<u, n>>] # "none" \/ <<u, n>> \in unnotified
    BY <2>0, <2>1 DEF Covered
  <2>2. ASSUME NEW g \in NoteHandlers, writer[g].ref = n, u \in writer[g].todo PROVE Covered(u, n)'
    <3>1. CASE g = h
      BY <1>1, <2>2, <3>1 DEF Covered
    <3>2. CASE g # h
      BY <1>1, <2>2, <3>2 DEF Covered
    <3> QED BY <3>1, <3>2
  <2> QED BY <2>1, <2>2 DEF Covered
<1>4. MentionsAreCovered'
  <2> SUFFICES ASSUME NEW n \in NoteIds, NEW u \in note'[n].mentions PROVE Covered(u, n)'
    BY DEF MentionsAreCovered
  <2>1. u \in Staff
    BY DEF NoteRow
  <2>2. u \in note[n].mentions => Covered(u, n)
    BY DEF NoticeInv, MentionsAreCovered
  <2> QED BY <1>3, <2>1, <2>2
<1>5. PreviousAreCovered'
  <2> SUFFICES ASSUME NEW g \in NoteHandlers, writer'[g].pc = "save", NEW u \in writer'[g].previous,
                      NEW n, n = writer'[g].ref
               PROVE  Covered(u, n)'
    BY DEF PreviousAreCovered, Covered
  <2>1. u \in Staff /\ n \in NoteIds
    BY <1>1, <1>t DEF WriterRow, WriterSound
  <2>2. Covered(u, n)
    BY <1>1 DEF NoticeInv, PreviousAreCovered
  <2> QED BY <1>3, <2>1, <2>2
<1>6. \A g \in NoteHandlers : WriterSound(writer'[g])
  BY <1>1, <1>t
<1> QED BY <1>2, <1>4, <1>5, <1>6 DEF NoticeInv

\* What Notify makes of the request.
Notified(h, targets) ==
  IF targets = {} THEN IdleWriter ELSE [writer[h] EXCEPT !.pc = "notify", !.todo = targets]

\* One of the people still to notify is, or is lost.
LEMMA NotifyMoves ==
  ASSUME NEW h \in NoteHandlers, writer \in [NoteHandlers -> WriterRow], NEW targets \in SUBSET Staff,
         writer[h].ref \in Refs, Notify(h, targets)
  PROVE  /\ writer' = [writer EXCEPT ![h] = Notified(h, targets)]
         /\ Notified(h, targets) \in WriterRow /\ WriterSound(Notified(h, targets))
         /\ Notified(h, targets).pc # "save"
         /\ Notified(h, targets).todo = targets
         /\ targets # {} => Notified(h, targets).ref = writer[h].ref
  BY IdleWriterSound DEF Notify, Notified, WriterRow, WriterSound

\* Every step of the notices preserves the invariant.
LEMMA NoticeKeeps == NoticeInv /\ [NoticeNext]_noticeVars => NoticeInv'
<1> SUFFICES ASSUME NoticeInv, [NoticeNext]_noticeVars PROVE NoticeInv'
  OBVIOUS
<1>t. /\ writer \in [NoteHandlers -> WriterRow] /\ note \in [NoteIds -> NoteRow]
      /\ unnotified \subseteq Staff \X NoteIds /\ inbox \in [Staff \X Refs -> {"none", "unread", "read"}]
      /\ \A g \in NoteHandlers : WriterSound(writer[g]) /\ writer[g] \in WriterRow
  BY NoticeTyped DEF NoticeInv
<1>1. CASE UNCHANGED noticeVars
  BY <1>1, NoticeTyped DEF noticeVars, NoticeInv, PreviousAreCovered, MentionsAreCovered, Covered, NoticeTypeOK
<1>2. ASSUME NEW h \in NoteHandlers, NEW n \in NoteIds, NEW named \in SUBSET Staff, CreateNote(h, n, named)
      PROVE  NoticeInv'
  <2>1. PICK mentions \in ResolvedMentions(named) :
          writer' = [writer EXCEPT ![h] = [pc |-> "create", ref |-> n, wanted |-> mentions,
                                           previous |-> {}, todo |-> {}]]
    BY <1>2 DEF CreateNote
  <2> DEFINE r == [pc |-> "create", ref |-> n, wanted |-> mentions, previous |-> {}, todo |-> {}]
  <2>2. r \in WriterRow /\ WriterSound(r) /\ r.pc = "create"
    BY DEF WriterRow, WriterSound, Refs, ResolvedMentions
  <2>3. writer[h].todo = {} /\ UNCHANGED <<note, inbox, unnotified>>
    BY <1>2, <1>t DEF CreateNote, WriterSound
  <2> HIDE DEF r
  <2> QED BY <1>t, <2>1, <2>2, <2>3, NoticeStep DEF r
<1>3. ASSUME NEW h \in NoteHandlers, NEW n \in NoteIds, NEW named \in SUBSET Staff, EditNote(h, n, named)
      PROVE  NoticeInv'
  <2>1. PICK mentions \in ResolvedMentions(named) :
          writer' = [writer EXCEPT ![h] = [pc |-> "save", ref |-> n, wanted |-> mentions,
                                           previous |-> note[n].mentions, todo |-> {}]]
    BY <1>3 DEF EditNote
  <2> DEFINE r == [pc |-> "save", ref |-> n, wanted |-> mentions,
                   previous |-> note[n].mentions, todo |-> {}]
  <2>2. /\ r \in WriterRow /\ WriterSound(r) /\ r.pc = "save"
        /\ \A u \in r.previous : Covered(u, r.ref)
    BY <1>t DEF WriterRow, WriterSound, Refs, ResolvedMentions, NoteRow, NoticeInv, MentionsAreCovered
  <2>3. writer[h].todo = {} /\ UNCHANGED <<note, inbox, unnotified>>
    BY <1>3, <1>t DEF EditNote, WriterSound
  <2>4. writer' = [writer EXCEPT ![h] = r]
    BY <2>1
  <2> HIDE DEF r
  <2> QED BY <1>t, <2>2, <2>3, <2>4, NoticeStep
<1>4. ASSUME NEW h \in NoteHandlers, InsertNote(h) PROVE NoticeInv'
  <2> DEFINE n == writer[h].ref
             r == Notified(h, writer[h].wanted)
  <2>1. /\ n \in NoteIds /\ n \in Refs /\ writer[h].wanted \in SUBSET Staff /\ writer[h].todo = {}
        /\ UNCHANGED <<inbox, unnotified>> /\ Notify(h, writer[h].wanted)
        /\ note' = [note EXCEPT ![n] = [state |-> "live", mentions |-> writer[h].wanted]]
    BY <1>4, <1>t DEF InsertNote, WriterSound, WriterRow, Refs
  <2>2. /\ writer' = [writer EXCEPT ![h] = r] /\ r \in WriterRow /\ WriterSound(r) /\ r.pc # "save"
        /\ r.todo = writer[h].wanted /\ (r.todo # {} => r.ref = n)
    BY <1>t, <2>1, NotifyMoves
  <2>3. note' \in [NoteIds -> NoteRow] /\ note'[n].mentions = writer[h].wanted
        /\ \A m \in NoteIds : m # n => note'[m] = note[m]
    BY <1>t, <2>1 DEF NoteRow
  <2> HIDE DEF r
  <2>4. writer'[h] = r
    BY <1>t, <2>2
  <2>5. \A m \in NoteIds : \A u \in note'[m].mentions :
          u \in note[m].mentions \/ Covered(u, m) \/ Covered(u, m)'
    <3> SUFFICES ASSUME NEW m \in NoteIds, NEW u \in note'[m].mentions, u \notin note[m].mentions
                 PROVE  Covered(u, m)'
      OBVIOUS
    <3>1. m = n /\ u \in writer[h].wanted
      BY <2>3
    <3>2. u \in r.todo /\ r.ref = m
      BY <3>1, <2>2
    <3>3. \E g \in NoteHandlers : writer'[g].ref = m /\ u \in writer'[g].todo
      BY <3>2, <2>4
    <3> QED BY <3>3 DEF Covered
  <2> QED BY <1>t, <2>1, <2>2, <2>3, <2>5, NoticeStep
<1>5. ASSUME NEW h \in NoteHandlers, SaveNote(h) PROVE NoticeInv'
  <2> DEFINE n == writer[h].ref
             new == DiffMentions(writer[h].wanted, writer[h].previous)
             r == Notified(h, new)
  <2>1. /\ n \in NoteIds /\ n \in Refs /\ new \in SUBSET Staff /\ writer[h].todo = {}
        /\ writer[h].wanted \in SUBSET Staff
        /\ UNCHANGED <<inbox, unnotified>>
    BY <1>5, <1>t DEF SaveNote, WriterSound, WriterRow, Refs, DiffMentions
  <2>2. CASE /\ note' = [note EXCEPT ![n].mentions = writer[h].wanted]
             /\ Notify(h, new)
    <3>2. /\ writer' = [writer EXCEPT ![h] = r] /\ r \in WriterRow /\ WriterSound(r) /\ r.pc # "save"
          /\ r.todo = new /\ (r.todo # {} => r.ref = n)
      BY <1>t, <2>1, <2>2, NotifyMoves
    <3>3. note' \in [NoteIds -> NoteRow] /\ note'[n].mentions = writer[h].wanted
          /\ \A m \in NoteIds : m # n => note'[m] = note[m]
      BY <1>t, <2>1, <2>2 DEF NoteRow
    <3> HIDE DEF r
    <3>4. writer'[h] = r
      BY <1>t, <3>2
    <3>5. \A u \in writer[h].previous : Covered(u, n)
      BY <1>5 DEF SaveNote, NoticeInv, PreviousAreCovered
    <3>6. \A m \in NoteIds : \A u \in note'[m].mentions :
            u \in note[m].mentions \/ Covered(u, m) \/ Covered(u, m)'
      <4> SUFFICES ASSUME NEW m \in NoteIds, NEW u \in note'[m].mentions, u \notin note[m].mentions
                   PROVE  Covered(u, m) \/ Covered(u, m)'
        OBVIOUS
      <4>1. m = n /\ u \in writer[h].wanted
        BY <3>3
      <4>2. CASE u \in writer[h].previous
        BY <4>1, <4>2, <3>5
      <4>3. CASE u \notin writer[h].previous
        <5>1. u \in new
          BY <4>1, <4>3 DEF DiffMentions
        <5> HIDE DEF new
        <5>2. u \in r.todo /\ r.ref = m
          BY <4>1, <5>1, <3>2
        <5>3. \E g \in NoteHandlers : writer'[g].ref = m /\ u \in writer'[g].todo
          BY <5>2, <3>4
        <5> QED BY <5>3 DEF Covered
      <4> QED BY <4>2, <4>3
    <3> HIDE DEF new
    <3> QED BY <1>t, <2>1, <3>2, <3>3, <3>6, NoticeStep
  <2>3. CASE writer' = [writer EXCEPT ![h] = IdleWriter] /\ UNCHANGED note
    BY <1>t, <2>1, <2>3, IdleWriterSound, NoticeStep
  <2> QED BY <1>5, <2>2, <2>3 DEF SaveNote
<1>6. ASSUME NEW h \in NoteHandlers, WriterDies(h) PROVE NoticeInv'
  <2>1. /\ writer' = [writer EXCEPT ![h] = IdleWriter] /\ UNCHANGED <<note, inbox>>
        /\ unnotified' = unnotified \cup (writer[h].todo \X ({writer[h].ref} \cap NoteIds))
        /\ writer[h].todo \subseteq Staff
    BY <1>6, <1>t DEF WriterDies, WriterRow
  <2>2. unnotified' \subseteq Staff \X NoteIds /\ unnotified \subseteq unnotified'
    BY <1>t, <2>1
  <2>3. \A u \in writer[h].todo : writer[h].ref \in NoteIds => <<u, writer[h].ref>> \in unnotified'
    BY <2>1
  <2> QED BY <1>t, <2>1, <2>2, <2>3, IdleWriterSound, NoticeStep
<1>7. ASSUME NEW h \in NoteHandlers, NEW l \in Leads, NEW active \in SUBSET Staff, NotifyAllStaff(h, l, active)
      PROVE  NoticeInv'
  <2> DEFINE r == [pc |-> "notify", ref |-> l, wanted |-> {}, previous |-> {}, todo |-> active]
  <2>1. /\ writer' = [writer EXCEPT ![h] = r] /\ UNCHANGED <<note, inbox, unnotified>>
        /\ writer[h].todo = {}
    BY <1>7, <1>t DEF NotifyAllStaff, WriterSound
  <2>2. r \in WriterRow /\ WriterSound(r) /\ r.pc # "save"
    BY DEF WriterRow, WriterSound, Refs
  <2> HIDE DEF r
  <2> QED BY <1>t, <2>1, <2>2, NoticeStep
<1>8. ASSUME NEW h \in NoteHandlers, NEW u \in Staff, InsertNotification(h, u) PROVE NoticeInv'
  <2> DEFINE left == writer[h].todo \ {u}
             r == Notified(h, left)
             x == <<u, writer[h].ref>>
  <2>1. /\ writer[h].ref \in Refs /\ left \in SUBSET Staff /\ Notify(h, left)
        /\ UNCHANGED note /\ x \in Staff \X Refs
    BY <1>8, <1>t DEF InsertNotification, WriterSound, WriterRow
  <2>2. /\ writer' = [writer EXCEPT ![h] = r] /\ r \in WriterRow /\ WriterSound(r) /\ r.pc # "save"
        /\ r.todo = left /\ (r.todo # {} => r.ref = writer[h].ref)
    <3> HIDE DEF left
    <3> QED BY <1>t, <2>1, NotifyMoves
  <2>3. /\ inbox' \in [Staff \X Refs -> {"none", "unread", "read"}]
        /\ \A y \in Staff \X Refs : inbox[y] # "none" => inbox'[y] # "none"
        /\ unnotified \subseteq unnotified' /\ unnotified' \subseteq Staff \X NoteIds
        /\ writer[h].ref \in NoteIds => inbox'[x] # "none" \/ x \in unnotified'
    BY <1>8, <1>t, <2>1 DEF InsertNotification
  <2> HIDE DEF r
  <2>4. \A v \in writer[h].todo : writer[h].ref \in NoteIds =>
            \/ inbox'[<<v, writer[h].ref>>] # "none" \/ <<v, writer[h].ref>> \in unnotified'
            \/ r.ref = writer[h].ref /\ v \in r.todo
    <3> SUFFICES ASSUME NEW v \in writer[h].todo, writer[h].ref \in NoteIds
                 PROVE  \/ inbox'[<<v, writer[h].ref>>] # "none" \/ <<v, writer[h].ref>> \in unnotified'
                        \/ r.ref = writer[h].ref /\ v \in r.todo
      OBVIOUS
    <3>1. CASE v = u
      BY <3>1, <2>3
    <3>2. CASE v # u
      <4>1. v \in left
        BY <3>2
      <4> HIDE DEF left
      <4> QED BY <4>1, <2>2
    <3> QED BY <3>1, <3>2
  <2> HIDE DEF left, x
  <2> QED BY <1>t, <2>1, <2>2, <2>3, <2>4, NoticeStep
<1>9. ASSUME NEW n \in NoteIds, DeleteNote(n) PROVE NoticeInv'
  <2>1. /\ note' \in [NoteIds -> NoteRow] /\ \A m \in NoteIds : note'[m].mentions = note[m].mentions
        /\ UNCHANGED <<writer, inbox, unnotified>>
    BY <1>9, <1>t DEF DeleteNote, NoteRow
  <2> QED BY <1>t, <2>1, NoticeTyped DEF NoticeInv, NoticeTypeOK, NoteRow, WriterRow, PreviousAreCovered, MentionsAreCovered, Covered
<1>10. ASSUME NEW u \in Staff, MarkAllRead(u) \/ \E ref \in Refs : MarkRead(u, ref) PROVE NoticeInv'
  <2>1. /\ inbox' \in [Staff \X Refs -> {"none", "unread", "read"}] /\ UNCHANGED <<note, writer, unnotified>>
        /\ \A x \in Staff \X Refs : inbox[x] # "none" => inbox'[x] # "none"
    BY <1>10, <1>t DEF MarkAllRead, MarkRead
  <2>2. NoticeTypeOK'
    BY <1>t, <2>1 DEF NoticeTypeOK, NoteRow, WriterRow
  <2>3. \A v \in Staff, m \in NoteIds : Covered(v, m) => Covered(v, m)'
    BY <2>1 DEF Covered, Refs
  <2>4. PreviousAreCovered'
    BY <1>t, <2>1, <2>3 DEF NoticeInv, PreviousAreCovered, Covered, WriterRow, WriterSound
  <2>5. MentionsAreCovered'
    BY <1>t, <2>1, <2>3 DEF NoticeInv, MentionsAreCovered, NoteRow
  <2> QED BY <1>t, <2>1, <2>2, <2>4, <2>5 DEF NoticeInv
<1> QED BY <1>1, <1>2, <1>3, <1>4, <1>5, <1>6, <1>7, <1>8, <1>9, <1>10 DEF NoticeNext

\* The invariant implies what the run checks.
LEMMA NoticeInvImplies == NoticeInv => NoticeTypeOK /\ MentionedIsNotified
  BY DEF NoticeInv, MentionsAreCovered, MentionedIsNotified, Covered

-----------------------------------------------------------------------------
(* Readiness sessions.                                                       *)

IntakeRow == [pc : {"idle", "contact", "lead", "session", "draft", "create", "map", "close", "reuse"},
              route : Routes \cup {"none"}, person : Persons \cup {"none"}, found : BOOLEAN, app : 0..MaxApps]
SessionRow == [active : BOOLEAN, fresh : BOOLEAN, converted : 0..MaxApps]
StartPcs == {"create", "map", "close"}

\* The starts of p under way, and the applications its sessions became.
Starts(p) == {h \in IntakeHandlers : intake[h].route = "start" /\ intake[h].person = p}
MadeBy(p) == {a \in 1..MaxApps : app[a] = "session" /\ appOwner[a] = p}

\* A row of intake is of a person once begun, and the start route has its own steps.
RowSound(r) == (r.pc # "idle" => r.person \in Persons) /\ (r.route = "start" <=> r.pc \in StartPcs)

\* One start at a time; nothing is made before it made it, and what it made is
\* what it maps.
OneStart(p) ==
  /\ \A g, h \in Starts(p) : g = h
  /\ mapping[p] = 0 =>
       /\ \A h \in Starts(p) : \/ intake[h].pc = "create" /\ MadeBy(p) = {}
                               \/ intake[h].pc = "map" /\ MadeBy(p) = {intake[h].app}
       /\ Starts(p) = {} => MadeBy(p) = {}
  /\ mapping[p] # 0 =>
       /\ MadeBy(p) \subseteq {mapping[p]}
       /\ \A h \in Starts(p) : intake[h].pc = "close" /\ intake[h].app = mapping[p]
  /\ HasSession(p) => session[p].converted \in {0, mapping[p]}

IntakeTypes ==
  /\ session \in [Persons -> SessionRow \cup {NoSession}]
  /\ mapping \in [Persons -> 0..MaxApps]
  /\ app \in [1..MaxApps -> {"none", "draft", "received", "session", "blank"}]
  /\ appOwner \in [1..MaxApps -> Persons \cup {"none"}]
  /\ leads \in [Persons -> 0..2] /\ contacts \in [Persons -> 0..2]
  /\ intake \in [IntakeHandlers -> IntakeRow]
  /\ doubled \subseteq Persons

IntakeInv ==
  /\ IntakeTypes
  /\ \A h \in IntakeHandlers : RowSound(intake[h]) /\ (intake[h].route = "start" => session[intake[h].person] # NoSession)
  /\ \A p \in Persons \ doubled : OneStart(p)

\* Facts of the rows the steps write.
LEMMA IntakeRows ==
  /\ MaxApps \in Nat /\ 0 \in 0..MaxApps
  /\ IdleIntake \in IntakeRow /\ IdleIntake.pc = "idle" /\ IdleIntake.route = "none" /\ RowSound(IdleIntake)
  /\ NewSession \in SessionRow /\ NewSession.converted = 0
  /\ \A n : OneMore(n) \in 0..2
  /\ \A s \in SessionRow : s # NoSession
<1>1. MaxApps \in Nat /\ 0 \in 0..MaxApps
  BY IntakeAssumption
<1>2. IdleIntake \in IntakeRow /\ IdleIntake.pc = "idle" /\ IdleIntake.route = "none" /\ RowSound(IdleIntake)
  BY <1>1 DEF IdleIntake, IntakeRow, RowSound, StartPcs
<1>3. NewSession \in SessionRow /\ NewSession.converted = 0
  BY <1>1 DEF NewSession, SessionRow
<1>4. \A n : OneMore(n) \in 0..2
  BY DEF OneMore
<1>5. ASSUME NEW s \in SessionRow PROVE s # NoSession
  <2>1. "fresh" \in DOMAIN s /\ DOMAIN NoSession = {"active"}
    BY DEF SessionRow, NoSession
  <2> QED BY <2>1
<1> QED BY <1>1, <1>2, <1>3, <1>4, <1>5

\* A free number is one no application has.
LEMMA FreeIsFree ==
  ASSUME FreeApp # 0
  PROVE  FreeApp \in 1..MaxApps /\ app[FreeApp] = "none"
BY DEF FreeApp

\* An application that is not made from a session leaves those that are.
LEMMA OtherCreated ==
  ASSUME IntakeTypes, NEW kind \in {"draft", "received", "blank"}, NEW o \in Persons \cup {"none"}, Create(kind, o)
  PROVE  /\ app' \in [1..MaxApps -> {"none", "draft", "received", "session", "blank"}]
         /\ appOwner' \in [1..MaxApps -> Persons \cup {"none"}]
         /\ \A p : MadeBy(p)' = MadeBy(p)
<1>1. FreeApp \in 1..MaxApps /\ app[FreeApp] = "none"
  BY FreeIsFree DEF Create
<1> DEFINE f == FreeApp
<1>2. app' = [app EXCEPT ![f] = kind] /\ appOwner' = [appOwner EXCEPT ![f] = o]
  BY DEF Create
<1> HIDE DEF f
<1>3. f \in 1..MaxApps /\ app[f] = "none"
  BY <1>1 DEF f
<1>4. /\ app' \in [1..MaxApps -> {"none", "draft", "received", "session", "blank"}]
      /\ appOwner' \in [1..MaxApps -> Persons \cup {"none"}]
  BY <1>2, <1>3 DEF IntakeTypes
<1>5. \A p : MadeBy(p)' = MadeBy(p)
  BY <1>2, <1>3 DEF IntakeTypes, MadeBy
<1> QED BY <1>4, <1>5

\* A person whose starts, applications and mapping are left alone stays one-start.
LEMMA StartQuiet ==
  ASSUME NEW p, OneStart(p), Starts(p)' = Starts(p), \A h \in Starts(p) : intake'[h] = intake[h],
         MadeBy(p)' = MadeBy(p), mapping'[p] = mapping[p],
         session'[p] # NoSession =>
           \/ session'[p].converted = 0
           \/ session[p] # NoSession /\ session'[p].converted = session[p].converted
  PROVE  OneStart(p)'
BY DEF OneStart, HasSession

\* A step of a handler that does not start leaves the starts alone.
LEMMA OtherStep ==
  ASSUME IntakeTypes, NEW h \in IntakeHandlers, NEW r \in IntakeRow, intake' = [intake EXCEPT ![h] = r],
         intake[h].route # "start", r.route # "start", NEW p
  PROVE  Starts(p)' = Starts(p) /\ \A g \in Starts(p) : intake'[g] = intake[g]
BY DEF IntakeTypes, Starts

\* What every step of another route keeps.
LEMMA OtherMoves ==
  ASSUME IntakeInv, NEW h \in IntakeHandlers, NEW r \in IntakeRow, intake' = [intake EXCEPT ![h] = r], RowSound(r),
         intake[h].route # "start", r.route # "start", UNCHANGED <<mapping, doubled>>,
         session' \in [Persons -> SessionRow \cup {NoSession}],
         app' \in [1..MaxApps -> {"none", "draft", "received", "session", "blank"}],
         appOwner' \in [1..MaxApps -> Persons \cup {"none"}],
         leads' \in [Persons -> 0..2], contacts' \in [Persons -> 0..2],
         \A p : MadeBy(p)' = MadeBy(p),
         \A p \in Persons : session[p] # NoSession => session'[p] # NoSession,
         \A p \in Persons : session'[p] # NoSession =>
           \/ session'[p].converted = 0
           \/ session[p] # NoSession /\ session'[p].converted = session[p].converted
  PROVE  IntakeInv'
<1>1. IntakeTypes'
  BY DEF IntakeInv, IntakeTypes
<1>2. \A g \in IntakeHandlers : RowSound(intake'[g]) /\ (intake'[g].route = "start" => session'[intake'[g].person] # NoSession)
  <2> SUFFICES ASSUME NEW g \in IntakeHandlers
               PROVE  RowSound(intake'[g]) /\ (intake'[g].route = "start" => session'[intake'[g].person] # NoSession)
    OBVIOUS
  <2>1. CASE g = h
    BY <2>1 DEF IntakeInv, IntakeTypes
  <2>2. CASE g # h
    <3>1. intake'[g] = intake[g] /\ RowSound(intake[g])
      BY <2>2 DEF IntakeInv, IntakeTypes
    <3>2. intake[g].route = "start" => intake[g].person \in Persons
      BY <3>1 DEF RowSound, StartPcs
    <3> QED BY <3>1, <3>2 DEF IntakeInv, HasSession
  <2> QED BY <2>1, <2>2
<1>3. ASSUME NEW p \in Persons \ doubled PROVE OneStart(p)'
  <2>1. IntakeTypes /\ OneStart(p) /\ intake[h].route # "start"
    BY DEF IntakeInv
  <2>2. Starts(p)' = Starts(p) /\ \A g \in Starts(p) : intake'[g] = intake[g]
    BY <2>1, OtherStep
  <2> QED BY <2>1, <2>2, StartQuiet
<1> QED BY <1>1, <1>2, <1>3 DEF IntakeInv

\* No session is open at the start.
LEMMA IntakeStarts == IntakeInit => IntakeInv
<1> SUFFICES ASSUME IntakeInit PROVE IntakeInv
  OBVIOUS
<1>1. IntakeTypes /\ \A h \in IntakeHandlers : RowSound(intake[h]) /\ intake[h].route # "start"
  BY IntakeRows DEF IntakeInit, IntakeTypes
<1>2. ASSUME NEW p \in Persons PROVE OneStart(p)
  <2>1. Starts(p) = {}
    BY IntakeRows DEF IntakeInit, Starts
  <2>2. MadeBy(p) = {}
    BY DEF IntakeInit, MadeBy
  <2> QED BY <2>1, <2>2 DEF IntakeInit, OneStart, HasSession
<1> QED BY <1>1, <1>2 DEF IntakeInv

\* The steps of the website, of the CRM and of the credit check.
LEMMA FormsKeep ==
  ASSUME IntakeInv, NEW h \in IntakeHandlers,
         \/ \E p \in Persons : SubmitCreditReadiness(h, p) \/ CrmReadiness(h, p) \/ CreditReadiness(h, p)
         \/ LinkCrmContact(h) \/ UpsertCrmLead(h) \/ WriteSession(h) \/ InsertDraft(h)
  PROVE  IntakeInv'
<1>t. /\ IntakeTypes /\ intake[h] \in IntakeRow /\ RowSound(intake[h]) /\ intake \in [IntakeHandlers -> IntakeRow]
      /\ session \in [Persons -> SessionRow \cup {NoSession}]
      /\ app \in [1..MaxApps -> {"none", "draft", "received", "session", "blank"}]
      /\ appOwner \in [1..MaxApps -> Persons \cup {"none"}]
      /\ leads \in [Persons -> 0..2] /\ contacts \in [Persons -> 0..2]
  BY DEF IntakeInv, IntakeTypes
<1>s. ASSUME UNCHANGED session
      PROVE  /\ session' \in [Persons -> SessionRow \cup {NoSession}]
             /\ \A p \in Persons : session[p] # NoSession => session'[p] # NoSession
             /\ \A p \in Persons : session'[p] # NoSession =>
                  \/ session'[p].converted = 0
                  \/ session[p] # NoSession /\ session'[p].converted = session[p].converted
  BY <1>t, <1>s
<1>a. ASSUME UNCHANGED <<app, appOwner>>
      PROVE  /\ app' \in [1..MaxApps -> {"none", "draft", "received", "session", "blank"}]
             /\ appOwner' \in [1..MaxApps -> Persons \cup {"none"}]
             /\ \A p : MadeBy(p)' = MadeBy(p)
  BY <1>t, <1>a DEF MadeBy
<1>o. \A q \in Persons : [leads EXCEPT ![q] = OneMore(leads[q])] \in [Persons -> 0..2]
                         /\ [contacts EXCEPT ![q] = OneMore(contacts[q])] \in [Persons -> 0..2]
  BY <1>t, IntakeRows
<1>0. intake[h].route # "start"
  BY <1>t DEF SubmitCreditReadiness, CrmReadiness, CreditReadiness, LinkCrmContact, UpsertCrmLead, WriteSession,
              InsertDraft, RowSound, StartPcs
<1>1. CASE \E p \in Persons : SubmitCreditReadiness(h, p) \/ CrmReadiness(h, p)
  <2>1. PICK p \in Persons : SubmitCreditReadiness(h, p) \/ CrmReadiness(h, p)
    BY <1>1
  <2> DEFINE r == IF SubmitCreditReadiness(h, p)
                    THEN [pc |-> "session", route |-> "website", person |-> p, found |-> FALSE, app |-> 0]
                    ELSE [pc |-> "contact", route |-> "crm", person |-> p, found |-> contacts[p] > 0, app |-> 0]
  <2>2. r \in IntakeRow /\ r.route # "start" /\ RowSound(r)
    BY IntakeRows DEF IntakeRow, Routes, RowSound, StartPcs
  <2>3. /\ intake' = [intake EXCEPT ![h] = r] /\ UNCHANGED <<session, mapping, app, appOwner, contacts, doubled>>
        /\ leads' = leads \/ leads' = [leads EXCEPT ![p] = OneMore(leads[p])]
    BY <2>1 DEF SubmitCreditReadiness, CrmReadiness
  <2> HIDE DEF r
  <2>4. leads' \in [Persons -> 0..2] /\ contacts' \in [Persons -> 0..2]
    BY <1>t, <1>o, <2>3
  <2> QED BY <1>0, <1>s, <1>a, <2>2, <2>3, <2>4, OtherMoves
<1>2. CASE \E p \in Persons : CreditReadiness(h, p)
  <2>1. PICK p \in Persons : CreditReadiness(h, p)
    BY <1>2
  <2> DEFINE r == [pc |-> "lead", route |-> "credit", person |-> p, found |-> leads[p] > 0, app |-> FreeApp]
  <2>2. FreeApp \in 0..MaxApps
    BY <2>1, FreeIsFree, IntakeRows DEF CreditReadiness, Create
  <2>3. r \in IntakeRow /\ r.route # "start" /\ RowSound(r)
    BY <2>2 DEF IntakeRow, Routes, RowSound, StartPcs
  <2>4. /\ intake' = [intake EXCEPT ![h] = r] /\ UNCHANGED <<session, mapping, leads, contacts, doubled>>
        /\ Create("received", p)
    BY <2>1 DEF CreditReadiness
  <2> HIDE DEF r
  <2>5. /\ app' \in [1..MaxApps -> {"none", "draft", "received", "session", "blank"}]
        /\ appOwner' \in [1..MaxApps -> Persons \cup {"none"}]
        /\ \A q : MadeBy(q)' = MadeBy(q)
    BY <1>t, <2>4, OtherCreated
  <2>6. leads' \in [Persons -> 0..2] /\ contacts' \in [Persons -> 0..2]
    BY <1>t, <2>4
  <2> QED BY <1>0, <1>s, <2>3, <2>4, <2>5, <2>6, OtherMoves
<1>3. CASE LinkCrmContact(h) \/ UpsertCrmLead(h)
  <2>p. intake[h].person \in Persons
    BY <1>t, <1>3 DEF LinkCrmContact, UpsertCrmLead, RowSound
  <2>1. PICK r : r = IF LinkCrmContact(h) THEN [intake[h] EXCEPT !.pc = "lead", !.found = leads[intake[h].person] > 0]
                                          ELSE [intake[h] EXCEPT !.pc = "session"]
    OBVIOUS
  <2>2. r \in IntakeRow /\ r.route = intake[h].route /\ r.person = intake[h].person /\ r.pc \in {"lead", "session"}
    <3>1. CASE LinkCrmContact(h)
      <4>1. r = [intake[h] EXCEPT !.pc = "lead", !.found = leads[intake[h].person] > 0]
        BY <2>1, <3>1
      <4>2. (leads[intake[h].person] > 0) \in BOOLEAN
        OBVIOUS
      <4> QED BY <1>t, <4>1, <4>2 DEF IntakeRow
    <3>2. CASE ~LinkCrmContact(h)
      BY <1>t, <2>1, <3>2 DEF IntakeRow
    <3> QED BY <3>1, <3>2
  <2>3. RowSound(r) /\ r.route # "start"
    BY <1>0, <2>p, <2>2 DEF RowSound, StartPcs
  <2>4. intake' = [intake EXCEPT ![h] = r]
    <3>1. CASE LinkCrmContact(h)
      BY <1>t, <2>1, <3>1 DEF LinkCrmContact
    <3>2. CASE ~LinkCrmContact(h) /\ UpsertCrmLead(h)
      BY <1>t, <2>1, <3>2 DEF UpsertCrmLead, IntakeGoto
    <3> QED BY <1>3, <3>1, <3>2
  <2>5. /\ UNCHANGED <<session, mapping, app, appOwner, doubled>>
        /\ leads' = leads \/ leads' = [leads EXCEPT ![intake[h].person] = OneMore(leads[intake[h].person])]
        /\ contacts' = contacts \/ contacts' = [contacts EXCEPT ![intake[h].person] = OneMore(contacts[intake[h].person])]
    BY <1>3 DEF LinkCrmContact, UpsertCrmLead
  <2>6. leads' \in [Persons -> 0..2] /\ contacts' \in [Persons -> 0..2]
    BY <1>t, <1>o, <2>5, <2>p
  <2> QED BY <1>0, <1>s, <1>a, <2>2, <2>3, <2>4, <2>5, <2>6, OtherMoves
<1>4. CASE WriteSession(h)
  <2> DEFINE p == intake[h].person
  <2>p. p \in Persons
    BY <1>t, <1>4 DEF WriteSession, RowSound
  <2>1. PICK r : /\ r = IdleIntake \/ r = [intake[h] EXCEPT !.pc = "draft"]
                 /\ intake' = [intake EXCEPT ![h] = r]
    BY <1>t, <1>4 DEF WriteSession, IntakeGoto, Finish
  <2>2. r \in IntakeRow /\ r.route # "start" /\ RowSound(r)
    <3>1. CASE r = IdleIntake
      BY <3>1, IntakeRows DEF RowSound, StartPcs
    <3>2. CASE r = [intake[h] EXCEPT !.pc = "draft"]
      <4>1. PICK row \in IntakeRow : row = intake[h]
        BY <1>t
      <4>2. r = [row EXCEPT !.pc = "draft"]
        BY <3>2, <4>1
      <4>3. r \in IntakeRow /\ r.pc = "draft" /\ r.route = row.route /\ r.person = row.person
        BY <4>2 DEF IntakeRow
      <4> QED BY <1>0, <2>p, <4>1, <4>3 DEF RowSound, StartPcs
    <3> QED BY <2>1, <3>1, <3>2
  <2>3. session' = InsertSession(h, p) /\ UNCHANGED <<mapping, app, appOwner, leads, contacts, doubled>>
    BY <1>4 DEF WriteSession
  <2> HIDE DEF p
  <2>4. /\ session' \in [Persons -> SessionRow \cup {NoSession}]
        /\ \A q \in Persons : session[q] # NoSession => session'[q] # NoSession
        /\ \A q \in Persons : session'[q] # NoSession =>
             \/ session'[q].converted = 0
             \/ session[q] # NoSession /\ session'[q].converted = session[q].converted
    <3>1. CASE ~HasSession(p)
      <4>1. session' = [session EXCEPT ![p] = NewSession]
        BY <2>3, <3>1 DEF InsertSession, LiveSession
      <4> QED BY <1>t, <2>p, <4>1, IntakeRows
    <3>2. CASE HasSession(p) /\ intake[h].route = "credit" /\ LiveSession(p) /\ ~session[p].fresh
      <4>1. PICK s : s = [session[p] EXCEPT !.active = FALSE]
        OBVIOUS
      <4>2. session[p] \in SessionRow
        BY <1>t, <2>p, <3>2 DEF HasSession
      <4>3. s \in SessionRow /\ s.converted = session[p].converted
        BY <4>1, <4>2 DEF SessionRow
      <4>4. session' = [session EXCEPT ![p] = s]
        BY <1>t, <2>p, <2>3, <3>2, <4>1 DEF InsertSession
      <4> QED BY <1>t, <2>p, <3>2, <4>3, <4>4, IntakeRows DEF HasSession
    <3>3. CASE HasSession(p) /\ ~(intake[h].route = "credit" /\ LiveSession(p) /\ ~session[p].fresh)
      <4>1. session' = session
        BY <2>3, <3>3 DEF InsertSession
      <4> QED BY <1>s, <4>1
    <3> QED BY <3>1, <3>2, <3>3
  <2>5. leads' \in [Persons -> 0..2] /\ contacts' \in [Persons -> 0..2]
    BY <1>t, <2>3
  <2> QED BY <1>0, <1>a, <2>1, <2>2, <2>3, <2>4, <2>5, OtherMoves
<1>5. CASE InsertDraft(h)
  <2>p. intake[h].person \in Persons
    BY <1>t, <1>5 DEF InsertDraft, RowSound
  <2>1. intake' = [intake EXCEPT ![h] = IdleIntake] /\ UNCHANGED <<session, mapping, leads, contacts, doubled>>
    BY <1>5 DEF InsertDraft, Finish
  <2>2. Create("draft", intake[h].person) \/ UNCHANGED <<app, appOwner>>
    BY <1>5 DEF InsertDraft
  <2>3. /\ app' \in [1..MaxApps -> {"none", "draft", "received", "session", "blank"}]
        /\ appOwner' \in [1..MaxApps -> Persons \cup {"none"}]
        /\ \A q : MadeBy(q)' = MadeBy(q)
    BY <1>t, <1>a, <2>p, <2>2, OtherCreated
  <2>4. leads' \in [Persons -> 0..2] /\ contacts' \in [Persons -> 0..2]
    BY <1>t, <2>1
  <2>5. IdleIntake.route # "start" /\ IdleIntake \in IntakeRow /\ RowSound(IdleIntake)
    BY IntakeRows
  <2> QED BY <1>0, <1>s, <2>1, <2>3, <2>4, <2>5, OtherMoves
<1> QED BY <1>1, <1>2, <1>3, <1>4, <1>5

\* A step of a start for p leaves everyone else's starts alone.
LEMMA StartMoves ==
  ASSUME IntakeInv, NEW h \in IntakeHandlers, NEW p \in Persons, NEW r \in IntakeRow, RowSound(r),
         intake' = [intake EXCEPT ![h] = r],
         intake[h].route = "start" => intake[h].person = p, r.route = "start" => r.person = p,
         doubled' = doubled \/ doubled' = doubled \cup {p},
         session' \in [Persons -> SessionRow \cup {NoSession}], mapping' \in [Persons -> 0..MaxApps],
         app' \in [1..MaxApps -> {"none", "draft", "received", "session", "blank"}],
         appOwner' \in [1..MaxApps -> Persons \cup {"none"}], UNCHANGED <<leads, contacts>>,
         \A q \in Persons : q # p => session'[q] = session[q] /\ mapping'[q] = mapping[q] /\ MadeBy(q)' = MadeBy(q),
         HasSession(p) => HasSession(p)', r.route = "start" => HasSession(p),
         p \notin doubled' => OneStart(p)'
  PROVE  IntakeInv'
<1>1. IntakeTypes'
  BY DEF IntakeInv, IntakeTypes
<1>2. \A g \in IntakeHandlers : RowSound(intake'[g]) /\ (intake'[g].route = "start" => session'[intake'[g].person] # NoSession)
  <2> SUFFICES ASSUME NEW g \in IntakeHandlers
               PROVE  RowSound(intake'[g]) /\ (intake'[g].route = "start" => session'[intake'[g].person] # NoSession)
    OBVIOUS
  <2>1. CASE g = h
    BY <2>1 DEF IntakeInv, IntakeTypes, HasSession
  <2>2. CASE g # h
    <3>1. intake'[g] = intake[g] /\ RowSound(intake[g])
      BY <2>2 DEF IntakeInv, IntakeTypes
    <3>2. intake[g].route = "start" => intake[g].person \in Persons
      BY <3>1 DEF RowSound, StartPcs
    <3>3. \A q \in Persons : session[q] # NoSession => session'[q] # NoSession
      BY DEF HasSession
    <3> QED BY <3>1, <3>2, <3>3 DEF IntakeInv
  <2> QED BY <2>1, <2>2
<1>3. ASSUME NEW q \in Persons \ doubled', q # p PROVE OneStart(q)'
  <2>1. Starts(q)' = Starts(q) /\ \A g \in Starts(q) : intake'[g] = intake[g]
    BY <1>3 DEF IntakeInv, IntakeTypes, Starts
  <2>2. OneStart(q)
    BY <1>3 DEF IntakeInv
  <2>3. MadeBy(q)' = MadeBy(q) /\ mapping'[q] = mapping[q] /\ session'[q] = session[q]
    BY <1>3
  <2> QED BY <2>1, <2>2, <2>3, StartQuiet
<1> QED BY <1>1, <1>2, <1>3 DEF IntakeInv

\* The start of an application from its session.
LEMMA StartsKeep ==
  ASSUME IntakeInv, NEW h \in IntakeHandlers,
         \/ \E p \in Persons : StartFromSession(h, p)
         \/ CreateFromSession(h) \/ InsertMapping(h) \/ CloseSession(h) \/ IntakeFails(h)
  PROVE  IntakeInv'
<1>t. /\ IntakeTypes /\ intake[h] \in IntakeRow /\ RowSound(intake[h]) /\ intake \in [IntakeHandlers -> IntakeRow]
      /\ session \in [Persons -> SessionRow \cup {NoSession}] /\ mapping \in [Persons -> 0..MaxApps]
      /\ app \in [1..MaxApps -> {"none", "draft", "received", "session", "blank"}]
      /\ appOwner \in [1..MaxApps -> Persons \cup {"none"}]
  BY DEF IntakeInv, IntakeTypes
<1>i. IdleIntake \in IntakeRow /\ RowSound(IdleIntake) /\ IdleIntake.route # "start"
  BY IntakeRows
<1>1. ASSUME NEW p \in Persons, StartFromSession(h, p) PROVE IntakeInv'
  <2> DEFINE r == [pc |-> "create", route |-> "start", person |-> p, found |-> FALSE, app |-> 0]
  <2>1. r \in IntakeRow /\ RowSound(r) /\ r.route = "start" /\ r.person = p /\ r.pc = "create"
    BY IntakeRows DEF IntakeRow, Routes, RowSound, StartPcs
  <2>2. /\ intake' = [intake EXCEPT ![h] = r] /\ UNCHANGED <<session, mapping, app, appOwner, leads, contacts>>
        /\ intake[h].pc = "idle" /\ mapping[p] = 0 /\ HasSession(p) /\ HasSession(p)'
        /\ doubled' = IF Starts(p) # {} THEN doubled \cup {p} ELSE doubled
    BY <1>1 DEF StartFromSession, Starts, HasSession
  <2>3. intake[h].route # "start"
    BY <1>t, <2>2 DEF RowSound, StartPcs
  <2> HIDE DEF r
  <2>4. \A q : MadeBy(q)' = MadeBy(q)
    BY <2>2 DEF MadeBy
  <2>5. ASSUME p \notin doubled' PROVE OneStart(p)'
    <3>1. Starts(p) = {} /\ OneStart(p)
      BY <2>2, <2>5 DEF IntakeInv
    <3>2. Starts(p)' = {h} /\ intake'[h].pc = "create"
      BY <1>t, <2>1, <2>2, <3>1 DEF Starts
    <3>3. MadeBy(p)' = {} /\ mapping'[p] = 0
      BY <2>2, <2>4, <3>1 DEF OneStart
    <3>4. HasSession(p)' => session'[p].converted \in {0, mapping'[p]}
      BY <2>2, <3>1 DEF OneStart, HasSession
    <3> QED BY <3>2, <3>3, <3>4 DEF OneStart
  <2>6. doubled' = doubled \/ doubled' = doubled \cup {p}
    BY <2>2
  <2> QED BY <1>t, <2>1, <2>2, <2>3, <2>4, <2>5, <2>6, StartMoves
<1>2. CASE CreateFromSession(h)
  <2>p. intake[h].person \in Persons /\ intake[h].route = "start" /\ intake[h].pc = "create" /\ FreeApp # 0
    BY <1>t, <1>2 DEF CreateFromSession, RowSound, StartPcs, Create
  <2>f. PICK f \in 1..MaxApps : f = FreeApp /\ app[f] = "none"
    BY <2>p, FreeIsFree
  <2>q. PICK p \in Persons : p = intake[h].person
    BY <2>p
  <2>1. /\ app' = [app EXCEPT ![f] = "session"] /\ appOwner' = [appOwner EXCEPT ![f] = p]
        /\ UNCHANGED <<session, mapping, leads, contacts, doubled>>
    BY <1>2, <2>f, <2>q DEF CreateFromSession, Create
  <2>2. PICK r : r = [intake[h] EXCEPT !.pc = "map", !.app = f]
    OBVIOUS
  <2>3. intake' = [intake EXCEPT ![h] = r]
    BY <1>t, <1>2, <2>2, <2>f DEF CreateFromSession
  <2>m. f \in 0..MaxApps
    BY IntakeAssumption
  <2>4. r \in IntakeRow /\ r.route = "start" /\ r.person = p /\ r.pc = "map" /\ r.app = f
    BY <1>t, <2>2, <2>m, <2>p, <2>q DEF IntakeRow
  <2>5. RowSound(r)
    BY <2>4 DEF RowSound, StartPcs
  <2>6. MadeBy(p)' = MadeBy(p) \cup {f} /\ \A q : q # p => MadeBy(q)' = MadeBy(q)
    BY <1>t, <2>f, <2>1 DEF MadeBy
  <2>7. ASSUME p \notin doubled PROVE OneStart(p)'
    <3>1. OneStart(p) /\ h \in Starts(p)
      BY <2>7, <2>p, <2>q DEF IntakeInv, Starts
    <3>2. mapping[p] = 0 /\ MadeBy(p) = {} /\ Starts(p) = {h}
      BY <2>p, <3>1 DEF OneStart
    <3>3. Starts(p)' = {h} /\ intake'[h] = r
      BY <1>t, <2>3, <2>4, <3>2 DEF Starts
    <3>4. mapping'[p] = 0 /\ MadeBy(p)' = {f}
      BY <2>1, <2>6, <3>2
    <3>5. HasSession(p)' => session'[p].converted \in {0, mapping'[p]}
      BY <2>1, <3>1 DEF OneStart, HasSession
    <3> QED BY <2>4, <3>3, <3>4, <3>5 DEF OneStart
  <2>8. /\ app' \in [1..MaxApps -> {"none", "draft", "received", "session", "blank"}]
        /\ appOwner' \in [1..MaxApps -> Persons \cup {"none"}]
    BY <1>t, <2>1
  <2>9. /\ session' \in [Persons -> SessionRow \cup {NoSession}] /\ mapping' \in [Persons -> 0..MaxApps]
        /\ \A q \in Persons : q # p => session'[q] = session[q] /\ mapping'[q] = mapping[q]
        /\ UNCHANGED <<leads, contacts>> /\ doubled' = doubled
    <3>1. session' = session /\ mapping' = mapping /\ UNCHANGED <<leads, contacts>> /\ doubled' = doubled
      BY <2>1
    <3>2. session \in [Persons -> SessionRow \cup {NoSession}]
      BY <1>t
    <3>3. mapping \in [Persons -> 0..MaxApps]
      BY <1>t
    <3> QED BY <3>1, <3>2, <3>3
  <2>10. HasSession(p) /\ HasSession(p)'
    BY <2>1, <2>p, <2>q DEF IntakeInv, HasSession
  <2>11. intake[h].person = p
    BY <2>q
  <2>12. \A q \in Persons : q # p => session'[q] = session[q] /\ mapping'[q] = mapping[q] /\ MadeBy(q)' = MadeBy(q)
    BY <2>6, <2>9
  <2>13. p \notin doubled' => OneStart(p)'
    BY <2>7, <2>9
  <2> QED BY <2>3, <2>4, <2>5, <2>8, <2>9, <2>10, <2>11, <2>12, <2>13, StartMoves
<1>3. CASE InsertMapping(h)
  <2>p. intake[h].person \in Persons /\ intake[h].route = "start" /\ intake[h].pc = "map"
    BY <1>t, <1>3 DEF InsertMapping, RowSound, StartPcs
  <2>q. PICK p \in Persons : p = intake[h].person
    BY <2>p
  <2>a. PICK a \in 0..MaxApps : a = intake[h].app
    BY <1>t DEF IntakeRow
  <2>1. /\ mapping' = IF mapping[p] = 0 THEN [mapping EXCEPT ![p] = a] ELSE mapping
        /\ UNCHANGED <<session, app, appOwner, leads, contacts, doubled>>
    BY <1>3, <2>q, <2>a DEF InsertMapping
  <2>2. PICK r : r = [intake[h] EXCEPT !.pc = "close"]
    OBVIOUS
  <2>3. intake' = [intake EXCEPT ![h] = r]
    BY <1>t, <1>3, <2>2 DEF InsertMapping, IntakeGoto
  <2>4. r \in IntakeRow /\ r.route = "start" /\ r.person = p /\ r.pc = "close" /\ r.app = a
    BY <1>t, <2>2, <2>p, <2>q, <2>a DEF IntakeRow
  <2>5. RowSound(r)
    BY <2>4 DEF RowSound, StartPcs
  <2>6. \A q : MadeBy(q)' = MadeBy(q)
    BY <2>1 DEF MadeBy
  <2>7. ASSUME p \notin doubled PROVE OneStart(p)'
    <3>1. OneStart(p) /\ h \in Starts(p)
      BY <2>7, <2>p, <2>q DEF IntakeInv, Starts
    <3>2. mapping[p] = 0 /\ MadeBy(p) = {a} /\ Starts(p) = {h}
      BY <2>p, <2>a, <3>1 DEF OneStart
    <3>3. Starts(p)' = {h} /\ intake'[h] = r
      BY <1>t, <2>3, <2>4, <3>2 DEF Starts
    <3>4. mapping'[p] = a /\ MadeBy(p)' = {a} /\ a \in 1..MaxApps
      BY <1>t, <2>1, <2>6, <3>2 DEF MadeBy
    <3>5. HasSession(p)' => session'[p].converted = 0
      BY <2>1, <3>1, <3>2 DEF OneStart, HasSession
    <3>6. a # 0
      BY <3>4
    <3> QED BY <2>4, <3>3, <3>4, <3>5, <3>6 DEF OneStart
  <2>8. mapping' \in [Persons -> 0..MaxApps] /\ \A q \in Persons : q # p => mapping'[q] = mapping[q]
    BY <1>t, <2>1
  <2>9. HasSession(p) /\ HasSession(p)'
    BY <2>1, <2>p, <2>q DEF IntakeInv, HasSession
  <2> QED BY <2>9, <1>t, <2>q, <2>1, <2>3, <2>4, <2>5, <2>6, <2>7, <2>8, StartMoves
<1>4. CASE CloseSession(h)
  <2>p. intake[h].person \in Persons /\ intake[h].route = "start" /\ intake[h].pc = "close"
    BY <1>t, <1>4 DEF CloseSession, RowSound, StartPcs
  <2>q. PICK p \in Persons : p = intake[h].person
    BY <2>p
  <2>a. PICK a \in 0..MaxApps : a = intake[h].app
    BY <1>t DEF IntakeRow
  <2>1. /\ session' = [session EXCEPT ![p] = [session[p] EXCEPT !.active = FALSE, !.converted = a]]
        /\ UNCHANGED <<mapping, app, appOwner, leads, contacts, doubled>>
        /\ intake' = [intake EXCEPT ![h] = IdleIntake]
    BY <1>t, <1>4, <2>q, <2>a DEF CloseSession, Finish
  <2>2. PICK s : s = [session[p] EXCEPT !.active = FALSE, !.converted = a]
    OBVIOUS
  <2>s. HasSession(p)
    BY <2>p, <2>q DEF IntakeInv, HasSession
  <2>3. s \in SessionRow /\ s.converted = a
    BY <1>t, <2>2, <2>s DEF SessionRow, HasSession
  <2>4. session' = [session EXCEPT ![p] = s]
    BY <2>1, <2>2
  <2>6. \A q : MadeBy(q)' = MadeBy(q)
    BY <2>1 DEF MadeBy
  <2>7. ASSUME p \notin doubled PROVE OneStart(p)'
    <3>1. OneStart(p) /\ h \in Starts(p)
      BY <2>7, <2>p, <2>q DEF IntakeInv, Starts
    <3>2. mapping[p] # 0 /\ MadeBy(p) \subseteq {mapping[p]} /\ Starts(p) = {h} /\ a = mapping[p]
      BY <2>p, <2>a, <3>1 DEF OneStart
    <3>3. Starts(p)' = {}
      BY <1>t, <1>i, <2>1, <3>2 DEF Starts
    <3>4. mapping'[p] # 0 /\ MadeBy(p)' \subseteq {mapping'[p]} /\ session'[p].converted = mapping'[p]
      BY <1>t, <2>1, <2>3, <2>4, <2>6, <3>2
    <3> QED BY <3>3, <3>4 DEF OneStart
  <2>8. session' \in [Persons -> SessionRow \cup {NoSession}] /\ \A q \in Persons : q # p => session'[q] = session[q]
    BY <1>t, <2>3, <2>4
  <2>9. HasSession(p)'
    BY <1>t, <2>3, <2>4, IntakeRows DEF HasSession
  <2> QED BY <2>9, <1>t, <1>i, <2>q, <2>1, <2>6, <2>7, <2>8, StartMoves
<1>5. CASE IntakeFails(h)
  <2>p. intake[h].person \in Persons
    BY <1>t, <1>5 DEF IntakeFails, RowSound
  <2>q. PICK p \in Persons : p = intake[h].person
    BY <2>p
  <2>1. /\ intake' = [intake EXCEPT ![h] = IdleIntake]
        /\ doubled' = IF intake[h].pc = "map" THEN doubled \cup {p} ELSE doubled
        /\ UNCHANGED <<session, mapping, app, appOwner, leads, contacts>>
    BY <1>5, <2>q DEF IntakeFails, Finish
  <2>6. \A q : MadeBy(q)' = MadeBy(q)
    BY <2>1 DEF MadeBy
  <2>7. ASSUME p \notin doubled' PROVE OneStart(p)'
    <3>1. OneStart(p) /\ intake[h].pc # "map"
      BY <2>7, <2>1 DEF IntakeInv
    <3>2. CASE h \notin Starts(p)
      <4>1. Starts(p)' = Starts(p) /\ \A g \in Starts(p) : intake'[g] = intake[g]
        BY <1>t, <1>i, <2>1, <3>2 DEF Starts
      <4>2. mapping'[p] = mapping[p] /\ session'[p] = session[p] /\ MadeBy(p)' = MadeBy(p)
        BY <2>1, <2>6
      <4> QED BY <3>1, <4>1, <4>2, StartQuiet
    <3>3. CASE h \in Starts(p)
      <4>1. Starts(p) = {h}
        BY <3>1, <3>3 DEF OneStart
      <4>2. Starts(p)' = {}
        BY <1>t, <1>i, <2>1, <4>1 DEF Starts
      <4>3. mapping[p] = 0 => MadeBy(p) = {}
        BY <3>1, <4>1 DEF OneStart
      <4>4. mapping[p] # 0 => MadeBy(p) \subseteq {mapping[p]}
        BY <3>1 DEF OneStart
      <4>5. HasSession(p) => session[p].converted \in {0, mapping[p]}
        BY <3>1 DEF OneStart
      <4>6. mapping' = mapping /\ session' = session /\ MadeBy(p)' = MadeBy(p)
        BY <2>1, <2>6
      <4> QED BY <4>2, <4>3, <4>4, <4>5, <4>6 DEF OneStart, HasSession
    <3> QED BY <3>2, <3>3
  <2>8. doubled' = doubled \/ doubled' = doubled \cup {p}
    BY <2>1
  <2>9. HasSession(p)' = HasSession(p)
    BY <2>1 DEF HasSession
  <2> QED BY <2>9, <1>t, <1>i, <2>q, <2>1, <2>6, <2>7, <2>8, StartMoves
<1> QED BY <1>1, <1>2, <1>3, <1>4, <1>5

\* Every step of the intake preserves the invariant.
LEMMA IntakeKeeps == IntakeInv /\ [IntakeNext]_intakeVars => IntakeInv'
<1> SUFFICES ASSUME IntakeInv, [IntakeNext]_intakeVars PROVE IntakeInv'
  OBVIOUS
<1>t. /\ IntakeTypes /\ session \in [Persons -> SessionRow \cup {NoSession}]
      /\ leads \in [Persons -> 0..2] /\ intake \in [IntakeHandlers -> IntakeRow]
  BY DEF IntakeInv, IntakeTypes
\* A step no handler takes part in.
<1>0. ASSUME UNCHANGED <<mapping, intake, doubled, contacts>>, leads' \in [Persons -> 0..2],
             app' \in [1..MaxApps -> {"none", "draft", "received", "session", "blank"}],
             appOwner' \in [1..MaxApps -> Persons \cup {"none"}],
             \A p : MadeBy(p)' = MadeBy(p),
             session' \in [Persons -> SessionRow \cup {NoSession}],
             \A p \in Persons : session'[p] # NoSession =>
               session[p] # NoSession /\ session'[p].converted = session[p].converted,
             \A p \in Persons : session[p] # NoSession => session'[p] # NoSession
      PROVE  IntakeInv'
  <2>1. IntakeTypes' /\ \A g \in IntakeHandlers : RowSound(intake'[g])
    BY <1>0 DEF IntakeInv, IntakeTypes
  <2>3. \A g \in IntakeHandlers : intake'[g].route = "start" => session'[intake'[g].person] # NoSession
    BY <1>0 DEF IntakeInv, HasSession, RowSound, StartPcs
  <2>2. ASSUME NEW p \in Persons \ doubled PROVE OneStart(p)'
    <3>1. Starts(p)' = Starts(p) /\ OneStart(p)
      BY <1>0 DEF Starts, IntakeInv
    <3> QED BY <1>0, <3>1, StartQuiet
  <2> QED BY <1>0, <2>1, <2>2, <2>3 DEF IntakeInv
<1>1. ASSUME NEW p \in Persons, SubmitContactForm(p) PROVE IntakeInv'
  <2>1. leads' = [leads EXCEPT ![p] = OneMore(leads[p])] /\ UNCHANGED <<session, mapping, app, appOwner, contacts, intake, doubled>>
    BY <1>1 DEF SubmitContactForm
  <2>2. leads' \in [Persons -> 0..2]
    BY <1>t, <2>1, IntakeRows
  <2>3. \A q : MadeBy(q)' = MadeBy(q)
    BY <2>1 DEF MadeBy
  <2> QED BY <1>0, <1>t, <2>1, <2>2, <2>3 DEF IntakeTypes
<1>2. ASSUME NEW p \in Persons, StartByPhone(p) PROVE IntakeInv'
  <2>1. Create("blank", "none") /\ UNCHANGED <<session, mapping, leads, contacts, intake, doubled>>
    BY <1>2 DEF StartByPhone
  <2>2. /\ app' \in [1..MaxApps -> {"none", "draft", "received", "session", "blank"}]
        /\ appOwner' \in [1..MaxApps -> Persons \cup {"none"}]
        /\ \A q : MadeBy(q)' = MadeBy(q)
    BY <1>t, <2>1, OtherCreated
  <2> QED BY <1>0, <1>t, <2>1, <2>2
<1>3. ASSUME NEW p \in Persons, SessionExpires(p) PROVE IntakeInv'
  <2>1. PICK s : s = [session[p] EXCEPT !.fresh = FALSE]
    OBVIOUS
  <2>2. session[p] \in SessionRow /\ session[p] # NoSession
    BY <1>t, <1>3 DEF SessionExpires, HasSession
  <2>3. s \in SessionRow /\ s.converted = session[p].converted
    BY <2>1, <2>2 DEF SessionRow
  <2>4. session' = [session EXCEPT ![p] = s] /\ UNCHANGED <<mapping, app, appOwner, leads, contacts, intake, doubled>>
    BY <1>t, <1>3, <2>1 DEF SessionExpires
  <2>5. \A q : MadeBy(q)' = MadeBy(q)
    BY <2>4 DEF MadeBy
  <2>6. /\ session' \in [Persons -> SessionRow \cup {NoSession}]
        /\ \A q \in Persons : session'[q] # NoSession =>
             session[q] # NoSession /\ session'[q].converted = session[q].converted
        /\ \A q \in Persons : session[q] # NoSession => session'[q] # NoSession
    BY <1>t, <2>2, <2>3, <2>4, IntakeRows
  <2> QED BY <1>0, <1>t, <2>4, <2>5, <2>6 DEF IntakeTypes
<1>4. CASE UNCHANGED intakeVars
  <2>1. UNCHANGED <<session, mapping, app, appOwner, leads, contacts, intake, doubled>>
    BY <1>4 DEF intakeVars
  <2>2. \A q : MadeBy(q)' = MadeBy(q)
    BY <2>1 DEF MadeBy
  <2> QED BY <1>0, <1>t, <2>1, <2>2 DEF IntakeTypes
<1>5. CASE IntakeNext
  BY <1>1, <1>2, <1>3, <1>5, FormsKeep, StartsKeep DEF IntakeNext
<1> QED BY <1>4, <1>5

\* The inductive invariant gives what the run checks.
LEMMA IntakeInvImplies == IntakeInv => IntakeTypeOK /\ SessionBecomesOne
<1> SUFFICES ASSUME IntakeInv PROVE IntakeTypeOK /\ SessionBecomesOne
  OBVIOUS
<1>1. IntakeTypeOK
  BY DEF IntakeInv, IntakeTypes, IntakeTypeOK, SessionRow, NoSession, IntakeRow
<1>2. ASSUME NEW p \in Persons \ doubled
      PROVE  /\ Cardinality(MadeBy(p)) <= 1
             /\ HasSession(p) => session[p].converted \in {0, mapping[p]}
  <2>1. OneStart(p)
    BY DEF IntakeInv
  <2>2. \E x : MadeBy(p) \subseteq {x}
    <3>1. CASE mapping[p] # 0
      BY <2>1, <3>1 DEF OneStart
    <3>2. CASE mapping[p] = 0
      BY <2>1, <3>2 DEF OneStart
    <3> QED BY <3>1, <3>2
  <2>3. PICK x : MadeBy(p) \subseteq {x}
    BY <2>2
  <2>4. IsFiniteSet({x}) /\ Cardinality({x}) = 1
    BY FS_Singleton
  <2>5. Cardinality(MadeBy(p)) <= 1
    BY <2>3, <2>4, FS_Subset
  <2> QED BY <2>1, <2>5 DEF OneStart
<1> QED BY <1>1, <1>2 DEF SessionBecomesOne, MadeBy

-----------------------------------------------------------------------------
\* A set of indices that is not empty has a greatest one.
LEMMA GreatestIndex ==
  ASSUME NEW n \in Nat, NEW S \in SUBSET (1..n), S # {}
  PROVE  \E v \in S : \A w \in S : w <= v
<1> DEFINE T == {m \in Nat : n - m \in S}
<1>1. PICK s \in S : TRUE
  OBVIOUS
<1>2. n - s \in T
  <2>1. n - s \in Nat /\ n - (n - s) = s
    BY <1>1
  <2> QED BY <2>1
<1>3. PICK x \in T : \A y \in T : ~ (<<y, x>> \in OpToRel(<, Nat))
  <2>1. T \subseteq Nat /\ T # {}
    BY <1>2
  <2> HIDE DEF T
  <2> QED BY <2>1, NatLessThanWellFounded, WFMin
<1>4. ASSUME NEW w \in S PROVE w <= n - x
  <2>1. n - w \in T /\ n - w \in Nat /\ w \in Nat
    <3>1. n - w \in Nat /\ n - (n - w) = w
      OBVIOUS
    <3> QED BY <3>1
  <2>2. ~ (n - w < x)
    BY <1>3, <2>1 DEF OpToRel
  <2> QED BY <2>1, <2>2
<1>5. n - x \in S
  OBVIOUS
<1> QED BY <1>4, <1>5

-----------------------------------------------------------------------------
(* Documents.                                                                *)

DocRowType == [type : DocTypes, status : {"uploaded", "accepted", "rejected"}]
RequiredRow == [status : {"missing", "uploaded", "accepted", "rejected"}, required : BOOLEAN]
DocReqRow == [pc : {"idle", "insert", "version", "review", "commit", "job", "queue", "ocr"},
              op : {"none", "upload", "public", "staff", "acceptVersion", "rejectVersion", "accept", "reject"},
              doc : DocRows \cup {"none"}, type : DocTypes \cup {"none"}, v : 0..MaxVersions,
              read : Stages, pending : BOOLEAN]

\* The types, with the versions of a document as a function of their own.
DocTyped ==
  /\ docRow \in [DocRows -> DocRowType \cup {NoDoc}]
  /\ versions \in [DocRows -> Seq(Reviews)]
  /\ \A d \in DocRows : Len(versions[d]) <= MaxVersions
  /\ required \in [DocTypes -> RequiredRow]
  /\ docStage \in Stages /\ docCalls \in 0..MaxDocCalls
  /\ processed \subseteq DocRows /\ queued \subseteq DocRows /\ crossed \subseteq DocRows
  /\ docReq \in [DocHandlers -> DocReqRow]

\* A document that is not there has no version, one that is has at least one.
VersionsOfDocuments ==
  \A d \in DocRows : IF DocExists(d) THEN versions[d] # <<>> ELSE versions[d] = <<>>

\* What a request has read of its document is still so: the type never
\* changes, versions are only added, and the version whose review is about to
\* be committed has none.
DocReqSound(h) ==
  LET d == docReq[h].doc
  IN  /\ docReq[h].pc = "insert" => docReq[h].type \in DocTypes
      /\ docReq[h].pc \in {"job", "queue", "ocr"} => d \in DocRows
      /\ docReq[h].pc \in {"version", "review", "commit"} =>
           d \in DocRows /\ DocExists(d) /\ docReq[h].type = docRow[d].type
      /\ docReq[h].pc \in {"review", "commit"} => docReq[h].v \in DOMAIN versions[d]
      /\ docReq[h].pc = "commit" => versions[d][docReq[h].v] = "none"
      /\ docReq[h].pc = "version" /\ HasAccepted(d) => d \in crossed

\* The row locks: no two reviews of one document or one type are open.
ReviewsExclude ==
  \A g, h \in DocHandlers :
    g # h /\ docReq[g].pc = "commit" /\ docReq[h].pc = "commit" =>
      docReq[g].doc # docReq[h].doc /\ docReq[g].type # docReq[h].type

DocInv ==
  /\ DocTyped /\ VersionsOfDocuments
  /\ \A h \in DocHandlers : DocReqSound(h)
  /\ ReviewsExclude /\ AcceptedIsBacked

\* The stages a document moves its application through.
LEMMA StagesLead ==
  /\ Received \in Stages /\ DocsRequired \in Stages /\ InReview \in Stages
  /\ \A s \in Stages : LegalTransitions[s] \subseteq Stages
  BY DEF LegalTransitions, Stages, Received, InReview, DocsRequired,
     StepsRequired, OffToLender, Offer, Accepted, Rejected

\* The row of a deleted document is none.
LEMMA NoDocRow == NoDoc \notin DocRowType
  BY DemandAssumption DEF NoDoc, DocRowType

\* A handler without a request.
LEMMA IdleDocRow == IdleDoc \in DocReqRow /\ IdleDoc.pc = "idle"
  BY StagesLead, DemandAssumption DEF IdleDoc, DocReqRow

\* No document is uploaded at the start.
LEMMA DocStarts == DocInit => DocInv
<1> SUFFICES ASSUME DocInit PROVE DocInv
  OBVIOUS
<1>1. DocTyped
  <2>1. required \in [DocTypes -> RequiredRow]
    BY DEF DocInit, NoRequiredRow, RequiredRow
  <2>2. \A d \in DocRows : versions[d] = <<>> /\ Len(versions[d]) <= MaxVersions
    BY DemandAssumption DEF DocInit
  <2>3. docStage \in Stages /\ docCalls \in 0..MaxDocCalls
    BY StagesLead, DemandAssumption DEF DocInit
  <2>4. versions \in [DocRows -> Seq(Reviews)]
    BY DEF DocInit
  <2>5. docReq \in [DocHandlers -> DocReqRow]
    BY IdleDocRow DEF DocInit
  <2> QED BY <2>1, <2>2, <2>3, <2>4, <2>5 DEF DocInit, DocTyped
<1>2. \A d \in DocRows : docRow[d] = NoDoc /\ versions[d] = <<>>
  BY DEF DocInit
<1>3. \A h \in DocHandlers : docReq[h].pc = "idle"
  BY IdleDocRow DEF DocInit
<1>4. VersionsOfDocuments
  BY <1>2 DEF VersionsOfDocuments, DocExists
<1>5. (\A h \in DocHandlers : DocReqSound(h)) /\ ReviewsExclude
  BY <1>3 DEF DocReqSound, ReviewsExclude
<1>6. \A t \in DocTypes : required[t].status = "missing"
  BY DEF DocInit, NoRequiredRow
<1> QED BY <1>1, <1>4, <1>5, <1>6 DEF DocInv, AcceptedIsBacked

\* What the steps do to the documents, their versions and their acceptances.
\* The documents that are there stay, with their types; versions are only
\* added; a review is final; an acceptance that comes is marked as crossed for
\* the uploads it overtakes.
DocsGrow ==
  /\ docRow' \in [DocRows -> DocRowType \cup {NoDoc}]
  /\ versions' \in [DocRows -> Seq(Reviews)]
  /\ crossed \subseteq crossed' /\ crossed' \subseteq DocRows
  /\ \A d \in DocRows :
       /\ Len(versions'[d]) <= MaxVersions
       /\ DocExists(d) => DocExists(d)' /\ docRow'[d].type = docRow[d].type
       /\ DocExists(d)' <=> versions'[d] # <<>>
       /\ DOMAIN versions[d] \subseteq DOMAIN versions'[d]
       /\ \A v \in DOMAIN versions[d] : versions[d][v] # "none" => versions'[d][v] = versions[d][v]
       /\ HasAccepted(d)' => \/ HasAccepted(d) \/ d \in crossed'
                             \/ \A g \in DocHandlers : docReq[g].pc = "version" => docReq[g].doc # d

\* A step in which one request moves on, that satisfies all this, keeps the
\* invariant.
LEMMA DocStep ==
  ASSUME DocInv, DocsGrow, NEW h \in DocHandlers, NEW r \in DocReqRow,
         docReq' = [docReq EXCEPT ![h] = r] \/ (UNCHANGED docReq /\ r = docReq[h]),
         \A g \in DocHandlers : docReq[g].pc = "commit" /\ g # h =>
           versions'[docReq[g].doc][docReq[g].v] = "none",
         docStage' \in Stages, docCalls' \in 0..MaxDocCalls,
         required' \in [DocTypes -> RequiredRow],
         processed' \subseteq DocRows, queued' \subseteq DocRows,
         DocReqSound(h)',
         r.pc = "commit" => /\ docReq[h].pc = "commit" \/ ~Locked(h)
                            /\ docReq[h].doc = r.doc /\ docReq[h].type = r.type,
         \A t \in DocTypes : required'[t].status = "accepted" =>
           \/ required[t].status = "accepted"
           \/ \E d \in DocRows : docRow'[d].type = t /\ HasAccepted(d)'
  PROVE  DocInv'
<1>t. docReq \in [DocHandlers -> DocReqRow] /\ docRow \in [DocRows -> DocRowType \cup {NoDoc}]
  BY DEF DocInv, DocTyped
<1>1. /\ docReq' \in [DocHandlers -> DocReqRow] /\ docReq'[h] = r
      /\ \A g \in DocHandlers : g # h => docReq'[g] = docReq[g]
  BY <1>t
<1>2. DocTyped'
  <2>1. /\ docRow' \in [DocRows -> DocRowType \cup {NoDoc}] /\ versions' \in [DocRows -> Seq(Reviews)]
        /\ \A d \in DocRows : Len(versions'[d]) <= MaxVersions
        /\ crossed' \subseteq DocRows
    BY DEF DocsGrow
  <2> QED BY <1>1, <2>1 DEF DocTyped
<1>3. VersionsOfDocuments'
  <2>1. \A d \in DocRows : DocExists(d)' <=> versions'[d] # <<>>
    BY DEF DocsGrow
  <2> QED BY <2>1 DEF VersionsOfDocuments
<1>4. ASSUME NEW d \in DocRows, HasAccepted(d) PROVE HasAccepted(d)'
  <2>1. PICK v \in DOMAIN versions[d] : versions[d][v] = "accepted"
    BY <1>4 DEF HasAccepted
  <2>2. v \in DOMAIN versions'[d] /\ versions'[d][v] = versions[d][v]
    BY <2>1 DEF DocsGrow
  <2> QED BY <2>1, <2>2 DEF HasAccepted
<1>5. ASSUME NEW g \in DocHandlers PROVE DocReqSound(g)'
  <2>1. CASE g = h
    BY <2>1
  <2>2. CASE g # h
    <3>1. DocReqSound(g) /\ docReq'[g] = docReq[g]
      BY <1>1, <2>2 DEF DocInv
    <3>2. docReq[g].pc \in {"insert", "job", "queue", "ocr", "idle"} => DocReqSound(g)'
      BY <3>1 DEF DocReqSound
    <3>3. CASE docReq[g].pc \in {"version", "review", "commit"}
      <4> DEFINE d == docReq[g].doc
      <4>1. d \in DocRows /\ DocExists(d)' /\ docReq[g].type = docRow'[d].type
        BY <3>1, <3>3 DEF DocReqSound, DocsGrow
      <4>2. docReq[g].pc \in {"review", "commit"} => docReq[g].v \in DOMAIN versions'[d]
        BY <3>1, <4>1 DEF DocReqSound, DocsGrow
      <4>3. docReq[g].pc = "commit" => versions'[d][docReq[g].v] = "none"
        BY <2>2
      <4>4. docReq[g].pc = "version" /\ HasAccepted(d)' => d \in crossed'
        BY <3>1, <4>1 DEF DocReqSound, DocsGrow
      <4> QED BY <3>1, <3>3, <4>1, <4>2, <4>3, <4>4 DEF DocReqSound, HasAccepted, DocExists
    <3> QED BY <3>2, <3>3, <1>t DEF DocReqRow
  <2> QED BY <2>1, <2>2
<1>6. ReviewsExclude'
  <2>1. \A g \in DocHandlers : g # h /\ docReq[g].pc = "commit" /\ r.pc = "commit" =>
          docReq[g].doc # r.doc /\ docReq[g].type # r.type
    BY DEF DocInv, ReviewsExclude, Locked
  <2> QED BY <1>1, <2>1 DEF DocInv, ReviewsExclude
<1>7. AcceptedIsBacked'
  <2> SUFFICES ASSUME NEW t \in DocTypes, required'[t].status = "accepted",
                      required[t].status = "accepted"
               PROVE  \E d \in DocRows : docRow'[d].type = t /\ HasAccepted(d)'
    BY DEF AcceptedIsBacked
  <2>1. PICK d \in DocRows : docRow[d].type = t /\ HasAccepted(d)
    BY DEF DocInv, AcceptedIsBacked
  <2>2. DocExists(d)
    BY <2>1 DEF DocInv, VersionsOfDocuments, HasAccepted
  <2> QED BY <1>4, <2>1, <2>2 DEF DocsGrow
<1> QED BY <1>2, <1>3, <1>5, <1>6, <1>7 DEF DocInv

\* The same when the documents, their versions and their rows stay.
LEMMA DocsStay ==
  ASSUME DocInv, UNCHANGED <<docRow, versions, crossed>>
  PROVE  /\ DocsGrow
         /\ \A g \in DocHandlers : docReq[g].pc = "commit" =>
              versions'[docReq[g].doc][docReq[g].v] = "none"
<1>1. DocsGrow
  BY DEF DocInv, DocTyped, DocsGrow, VersionsOfDocuments, DocExists, HasAccepted
<1> QED BY <1>1 DEF DocInv, DocReqSound

\* A version is added at the end and changes no other.
LEMMA WriteVersionGrows ==
  ASSUME DocInv, NEW d \in DocRows, NEW t \in DocTypes, Len(versions[d]) < MaxVersions,
         DocExists(d) => docRow[d].type = t, WriteVersion(d, t), UNCHANGED crossed
  PROVE  /\ DocsGrow /\ docRow'[d].type = t /\ DocExists(d)'
         /\ \A g \in DocHandlers : docReq[g].pc = "commit" =>
              versions'[docReq[g].doc][docReq[g].v] = "none"
<1> DEFINE row == [type |-> t, status |-> "uploaded"]
<1>t. /\ docRow \in [DocRows -> DocRowType \cup {NoDoc}] /\ versions \in [DocRows -> Seq(Reviews)]
      /\ crossed \subseteq DocRows /\ \A e \in DocRows : Len(versions[e]) <= MaxVersions
  BY DEF DocInv, DocTyped
<1>1. row \in DocRowType /\ row # NoDoc /\ row.type = t
  BY NoDocRow DEF DocRowType
<1>2. docRow' = [docRow EXCEPT ![d] = row]
  BY DEF WriteVersion
<1> HIDE DEF row
<1>3. /\ docRow' \in [DocRows -> DocRowType \cup {NoDoc}] /\ docRow'[d] = row
      /\ \A e \in DocRows : e # d => docRow'[e] = docRow[e]
  BY <1>t, <1>1, <1>2
<1> DEFINE s == versions[d]
           n == Append(s, "none")
<1>4. /\ s \in Seq(Reviews) /\ "none" \in Reviews
      /\ versions' = [versions EXCEPT ![d] = n]
  BY <1>t DEF WriteVersion, Reviews
<1>5. /\ n \in Seq(Reviews) /\ Len(n) = Len(s) + 1 /\ Len(s) \in Nat /\ n # <<>>
      /\ DOMAIN s = 1..Len(s) /\ DOMAIN n = 1..(Len(s) + 1)
      /\ \A i \in 1..Len(s) : n[i] = s[i]
      /\ n[Len(s) + 1] = "none"
  <2> HIDE DEF s
  <2> QED BY <1>4
<1> HIDE DEF n
<1>6. /\ versions' \in [DocRows -> Seq(Reviews)] /\ versions'[d] = n
      /\ \A e \in DocRows : e # d => versions'[e] = versions[e]
  BY <1>t, <1>4, <1>5
<1>7. /\ DOMAIN s \subseteq DOMAIN n /\ \A v \in DOMAIN s : n[v] = s[v]
      /\ ((\E v \in DOMAIN n : n[v] = "accepted") => \E v \in DOMAIN s : s[v] = "accepted")
  <2>1. \A v \in DOMAIN n : v \in DOMAIN s \/ n[v] = "none"
    BY <1>5
  <2> QED BY <1>5, <2>1
<1>8. DocsGrow
  <2>1. ASSUME NEW e \in DocRows
        PROVE  /\ Len(versions'[e]) <= MaxVersions
               /\ DocExists(e) => DocExists(e)' /\ docRow'[e].type = docRow[e].type
               /\ DocExists(e)' <=> versions'[e] # <<>>
               /\ DOMAIN versions[e] \subseteq DOMAIN versions'[e]
               /\ \A v \in DOMAIN versions[e] : versions[e][v] # "none" => versions'[e][v] = versions[e][v]
               /\ HasAccepted(e)' => HasAccepted(e)
    <3>1. CASE e = d
      <4>1. Len(n) <= MaxVersions
        BY <1>5, DemandAssumption
      <4> HIDE DEF s
      <4>2. HasAccepted(d)' => HasAccepted(d)
        BY <1>6, <1>7 DEF HasAccepted, s
      <4> QED BY <3>1, <1>1, <1>3, <1>5, <1>6, <1>7, <4>1, <4>2 DEF DocExists, s
    <3>2. CASE e # d
      BY <3>2, <1>t, <1>3, <1>6 DEF DocExists, HasAccepted, DocInv, VersionsOfDocuments
    <3> QED BY <3>1, <3>2
  <2> QED BY <1>t, <1>3, <1>6, <2>1 DEF DocsGrow
<1>9. ASSUME NEW g \in DocHandlers, docReq[g].pc = "commit"
      PROVE  versions'[docReq[g].doc][docReq[g].v] = "none"
  <2>1. docReq[g].doc \in DocRows /\ docReq[g].v \in DOMAIN versions[docReq[g].doc]
        /\ versions[docReq[g].doc][docReq[g].v] = "none"
    BY <1>9 DEF DocInv, DocReqSound
  <2> QED BY <2>1, <1>6, <1>7
<1> QED BY <1>1, <1>3, <1>8, <1>9 DEF DocExists

\* A commit of a review writes a version that had none.
LEMMA ReviewGrows ==
  ASSUME DocInv, NEW h \in DocHandlers, docReq[h].pc = "commit", ReviewRows(h),
         NEW d, d = docReq[h].doc, NEW t, t = docReq[h].type,
         NEW k, k = docReq[h].v, NEW s, s = Outcome(docReq[h].op),
         crossed \subseteq crossed', crossed' \subseteq DocRows,
         s = "accepted" /\ d \notin crossed' =>
           \A g \in DocHandlers : docReq[g].pc = "version" => docReq[g].doc # d
  PROVE  /\ DocsGrow /\ required' \in [DocTypes -> RequiredRow]
         /\ \A g \in DocHandlers : docReq[g].pc = "commit" /\ g # h =>
              versions'[docReq[g].doc][docReq[g].v] = "none"
         /\ \A u \in DocTypes : required'[u].status = "accepted" =>
              \/ required[u].status = "accepted"
              \/ \E e \in DocRows : docRow'[e].type = u /\ HasAccepted(e)'
<1>t. /\ docRow \in [DocRows -> DocRowType \cup {NoDoc}] /\ versions \in [DocRows -> Seq(Reviews)]
      /\ crossed \subseteq DocRows /\ \A e \in DocRows : Len(versions[e]) <= MaxVersions
      /\ required \in [DocTypes -> RequiredRow]
  BY DEF DocInv, DocTyped
<1> DEFINE row == [docRow[d] EXCEPT !.status = s]
           n == [versions[d] EXCEPT ![k] = s]
           q == [status |-> s, required |-> Demand[t] # "optional"]
<1>1. /\ d \in DocRows /\ DocExists(d) /\ t = docRow[d].type /\ k \in DOMAIN versions[d]
      /\ versions[d][k] = "none" /\ versions[d] \in Seq(Reviews) /\ s \in {"accepted", "rejected"}
  BY <1>t DEF DocInv, DocReqSound, Outcome
<1>2. docRow[d] \in DocRowType /\ t \in DocTypes
  BY <1>1, <1>t DEF DocExists, DocRowType
<1>3. /\ versions' = [versions EXCEPT ![d] = n] /\ docRow' = [docRow EXCEPT ![d] = row]
      /\ required' = [required EXCEPT ![t] = q]
  BY <1>t, <1>1 DEF ReviewRows, SetRequired
<1>4. row \in DocRowType /\ row # NoDoc /\ row.type = docRow[d].type
  BY <1>1, <1>2, NoDocRow DEF DocRowType
<1>5. q \in RequiredRow /\ q.status = s
  BY <1>1 DEF RequiredRow
<1>6. /\ n \in Seq(Reviews) /\ Len(n) = Len(versions[d]) /\ DOMAIN n = DOMAIN versions[d]
      /\ n[k] = s /\ \A v \in DOMAIN versions[d] : v # k => n[v] = versions[d][v]
  <2>1. s \in Reviews
    BY <1>1 DEF Reviews
  <2> QED BY <1>1, <2>1
<1> HIDE DEF row, n, q
<1>7. /\ docRow' \in [DocRows -> DocRowType \cup {NoDoc}] /\ docRow'[d] = row
      /\ \A e \in DocRows : e # d => docRow'[e] = docRow[e]
  BY <1>t, <1>1, <1>3, <1>4
<1>8. /\ versions' \in [DocRows -> Seq(Reviews)] /\ versions'[d] = n
      /\ \A e \in DocRows : e # d => versions'[e] = versions[e]
  BY <1>t, <1>1, <1>3, <1>6
<1>9. /\ required' \in [DocTypes -> RequiredRow] /\ required'[t].status = s
      /\ \A u \in DocTypes : u # t => required'[u] = required[u]
  BY <1>t, <1>2, <1>3, <1>5
<1>10. HasAccepted(d)' => HasAccepted(d) \/ s = "accepted"
  BY <1>6, <1>8 DEF HasAccepted
<1>11. s = "accepted" => HasAccepted(d)'
  BY <1>1, <1>6, <1>8 DEF HasAccepted
<1>12. DocsGrow
  <2>1. ASSUME NEW e \in DocRows
        PROVE  /\ Len(versions'[e]) <= MaxVersions
               /\ DocExists(e) => DocExists(e)' /\ docRow'[e].type = docRow[e].type
               /\ DocExists(e)' <=> versions'[e] # <<>>
               /\ DOMAIN versions[e] \subseteq DOMAIN versions'[e]
               /\ \A v \in DOMAIN versions[e] : versions[e][v] # "none" => versions'[e][v] = versions[e][v]
               /\ HasAccepted(e)' => HasAccepted(e) \/ (e = d /\ s = "accepted")
    <3>1. CASE e = d
      <4>1. n # <<>>
        BY <1>1, <1>6
      <4> QED BY <3>1, <1>t, <1>1, <1>4, <1>6, <1>7, <1>8, <1>10, <4>1 DEF DocExists
    <3>2. CASE e # d
      BY <3>2, <1>t, <1>7, <1>8 DEF DocExists, HasAccepted, DocInv, VersionsOfDocuments
    <3> QED BY <3>1, <3>2
  <2> QED BY <1>t, <1>7, <1>8, <2>1 DEF DocsGrow
<1>13. ASSUME NEW g \in DocHandlers, docReq[g].pc = "commit", g # h
       PROVE  versions'[docReq[g].doc][docReq[g].v] = "none"
  <2>1. docReq[g].doc \in DocRows /\ versions[docReq[g].doc][docReq[g].v] = "none" /\ docReq[g].doc # d
    BY <1>13 DEF DocInv, DocReqSound, ReviewsExclude
  <2> QED BY <2>1, <1>8
<1>14. ASSUME NEW u \in DocTypes, required'[u].status = "accepted", required[u].status # "accepted"
       PROVE  \E e \in DocRows : docRow'[e].type = u /\ HasAccepted(e)'
  <2>1. u = t /\ s = "accepted"
    BY <1>9, <1>14
  <2> QED BY <2>1, <1>1, <1>4, <1>7, <1>11
<1> QED BY <1>9, <1>12, <1>13, <1>14

\* The active version of a document is one of its versions.
LEMMA ActiveIsVersion ==
  ASSUME DocInv, NEW d \in DocRows, DocExists(d)
  PROVE  Active(d) \in DOMAIN versions[d] /\ DOMAIN versions[d] \subseteq 1..MaxVersions
<1> DEFINE n == Len(versions[d])
           S == {v \in DOMAIN versions[d] : versions[d][v] = "accepted"}
<1>1. /\ versions[d] \in Seq(Reviews) /\ versions[d] # <<>> /\ n \in Nat /\ DOMAIN versions[d] = 1..n
      /\ n <= MaxVersions
  BY DEF DocInv, DocTyped, VersionsOfDocuments
<1>2. n \in 1..n
  BY <1>1
<1>3. S # {} => \E v \in S : \A w \in S : w <= v
  BY <1>1, GreatestIndex
<1>4. Active(d) \in 1..n
  BY <1>1, <1>2, <1>3 DEF Active
<1>5. \A v \in 1..n : v \in 1..MaxVersions
  BY <1>1, DemandAssumption
<1> QED BY <1>1, <1>4, <1>5

\* A request begins, and counts against the bound.
LEMMA DocCallTyped ==
  ASSUME DocInv, DocCall
  PROVE  docCalls' \in 0..MaxDocCalls
<1>1. docCalls \in 0..MaxDocCalls /\ docCalls < MaxDocCalls /\ docCalls' = docCalls + 1
  BY DEF DocInv, DocTyped, DocCall
<1> QED BY <1>1, DemandAssumption

\* A request only moves: it begins, begins or ends without writing a document.
LEMMA DocMoves ==
  ASSUME DocInv, NEW h \in DocHandlers, NEW r \in DocReqRow, docReq' = [docReq EXCEPT ![h] = r],
         UNCHANGED <<docRow, versions, required, docStage, crossed>>,
         docCalls' \in 0..MaxDocCalls, processed' \subseteq DocRows, queued' \subseteq DocRows,
         \/ r.pc = "idle"
         \/ r.pc = "insert" /\ r.type \in DocTypes
         \/ r.pc \in {"job", "queue", "ocr"} /\ r.doc \in DocRows
         \/ r.pc = "version" /\ r.doc \in DocRows /\ DocExists(r.doc) /\ r.type = docRow[r.doc].type
            /\ ~HasAccepted(r.doc)
         \/ r.pc = "review" /\ r.doc \in DocRows /\ DocExists(r.doc) /\ r.type = docRow[r.doc].type
            /\ r.v \in DOMAIN versions[r.doc]
         \/ r.pc = "commit" /\ docReq[h].pc = "review" /\ ~Locked(h)
            /\ r.doc = docReq[h].doc /\ r.type = docReq[h].type /\ r.v = docReq[h].v
            /\ versions[docReq[h].doc][docReq[h].v] = "none"
  PROVE  DocInv'
<1>1. docReq'[h] = r
  BY DEF DocInv, DocTyped
<1>2. docReq[h].pc = "review" =>
        /\ docReq[h].doc \in DocRows /\ DocExists(docReq[h].doc)
        /\ docReq[h].type = docRow[docReq[h].doc].type /\ docReq[h].v \in DOMAIN versions[docReq[h].doc]
  BY DEF DocInv, DocReqSound
<1>3. \A e \in DocRows : /\ DocExists(e)' <=> DocExists(e)
                         /\ HasAccepted(e)' <=> HasAccepted(e)
  BY DEF DocExists, HasAccepted
<1>4. DocReqSound(h)'
  <2> DEFINE e == r.doc
  <2>1. /\ (r.pc = "insert" => r.type \in DocTypes)
        /\ (r.pc \in {"job", "queue", "ocr"} => r.doc \in DocRows)
        /\ (r.pc \in {"version", "review", "commit"} =>
              r.doc \in DocRows /\ DocExists(r.doc) /\ r.type = docRow[r.doc].type)
        /\ (r.pc \in {"review", "commit"} => r.v \in DOMAIN versions[r.doc])
        /\ (r.pc = "commit" => versions[r.doc][r.v] = "none")
        /\ (r.pc = "version" => ~HasAccepted(r.doc))
    BY <1>2
  <2>2. r.pc \in {"version", "review", "commit"} => DocExists(r.doc)' /\ (HasAccepted(r.doc)' => HasAccepted(r.doc))
    BY <1>3, <2>1
  <2> QED BY <1>1, <2>1, <2>2 DEF DocReqSound, DocExists, HasAccepted
<1>5. \A t \in DocTypes : required'[t].status = "accepted" => required[t].status = "accepted"
  OBVIOUS
<1>6. docStage' \in Stages /\ required' \in [DocTypes -> RequiredRow]
  BY DEF DocInv, DocTyped
<1> QED BY <1>4, <1>5, <1>6, DocsStay, DocStep

\* Every step of the documents preserves the invariant.
LEMMA DocKeeps == DocInv /\ [DocNext]_docVars => DocInv'
<1> SUFFICES ASSUME DocInv, [DocNext]_docVars PROVE DocInv'
  OBVIOUS
<1> USE DemandAssumption
<1>t. /\ docRow \in [DocRows -> DocRowType \cup {NoDoc}] /\ versions \in [DocRows -> Seq(Reviews)]
      /\ required \in [DocTypes -> RequiredRow] /\ docStage \in Stages /\ docCalls \in 0..MaxDocCalls
      /\ docReq \in [DocHandlers -> DocReqRow]
      /\ processed \subseteq DocRows /\ queued \subseteq DocRows /\ crossed \subseteq DocRows
  BY DEF DocInv, DocTyped
<1>1. ASSUME NEW h \in DocHandlers, NEW t \in DocTypes, UploadNew(h, t) \/ PublicUpload(h, t) \/ StaffUpload(h, t)
      PROVE  DocInv'
  <2>1. PICK op \in {"upload", "public", "staff"} :
          docReq' = [docReq EXCEPT ![h] = [IdleDoc EXCEPT !.pc = "insert", !.op = op, !.type = t]]
    BY <1>1 DEF UploadNew, PublicUpload, StaffUpload
  <2> DEFINE r == [IdleDoc EXCEPT !.pc = "insert", !.op = op, !.type = t]
  <2>2. r \in DocReqRow /\ r.pc = "insert" /\ r.type = t
    BY IdleDocRow DEF DocReqRow
  <2>3. UNCHANGED <<docRow, versions, required, docStage, processed, queued, crossed>> /\ DocCall
    BY <1>1 DEF UploadNew, PublicUpload, StaffUpload
  <2> HIDE DEF r
  <2> QED BY <1>t, <2>1, <2>2, <2>3, DocCallTyped, DocMoves DEF r
<1>2. ASSUME NEW h \in DocHandlers, NEW d \in DocRows, UploadVersion(h, d) PROVE DocInv'
  <2> DEFINE r == [IdleDoc EXCEPT !.pc = "version", !.op = "upload", !.doc = d, !.type = docRow[d].type,
                                  !.v = Len(versions[d])]
  <2>1. /\ docReq' = [docReq EXCEPT ![h] = r] /\ DocExists(d) /\ ~HasAccepted(d) /\ DocCall
        /\ UNCHANGED <<docRow, versions, required, docStage, processed, queued, crossed>>
    BY <1>2 DEF UploadVersion
  <2>2. docRow[d].type \in DocTypes /\ Len(versions[d]) \in 0..MaxVersions
    <3>1. docRow[d].type \in DocTypes
      BY <1>t, <2>1 DEF DocExists, DocRowType
    <3>2. Len(versions[d]) <= MaxVersions /\ Len(versions[d]) \in Nat
      BY <1>t DEF DocInv, DocTyped
    <3> QED BY <3>1, <3>2
  <2>3. r \in DocReqRow /\ r.pc = "version" /\ r.doc = d /\ r.type = docRow[d].type
    BY <2>2, StagesLead DEF IdleDoc, DocReqRow
  <2> HIDE DEF r
  <2> QED BY <1>t, <2>1, <2>3, DocCallTyped, DocMoves
<1>3. ASSUME NEW h \in DocHandlers, NEW d \in DocRows, NEW v, v \in DOMAIN versions[d], DocExists(d),
             NEW op \in {"acceptVersion", "rejectVersion", "accept", "reject"}, DocCall, BeginReview(h, op, d, v),
             UNCHANGED <<docRow, versions, required, docStage, processed, queued, crossed>>
      PROVE  DocInv'
  <2> DEFINE r == [IdleDoc EXCEPT !.pc = "review", !.op = op, !.doc = d,
                                  !.type = docRow[d].type, !.v = v, !.read = docStage]
  <2>1. docReq' = [docReq EXCEPT ![h] = r]
    BY <1>3 DEF BeginReview
  <2>2. docRow[d].type \in DocTypes /\ v \in 0..MaxVersions
    <3>1. docRow[d].type \in DocTypes
      BY <1>t, <1>3 DEF DocExists, DocRowType
    <3>2. v \in 1..MaxVersions
      BY <1>3, ActiveIsVersion
    <3> QED BY <3>1, <3>2
  <2>3. r \in DocReqRow /\ r.pc = "review" /\ r.doc = d /\ r.type = docRow[d].type /\ r.v = v
    BY <1>t, <2>2 DEF IdleDoc, DocReqRow
  <2> HIDE DEF r
  <2> QED BY <1>t, <1>3, <2>1, <2>3, DocCallTyped, DocMoves
<1>4. ASSUME NEW h \in DocHandlers, NEW d \in DocRows, NEW op \in {"acceptVersion", "rejectVersion"},
             NEW v \in 1..MaxVersions, ReviewVersion(h, op, d, v)
      PROVE  DocInv'
  BY <1>3, <1>4 DEF ReviewVersion
<1>5. ASSUME NEW h \in DocHandlers, NEW d \in DocRows, NEW op \in {"accept", "reject"}, ReviewActive(h, op, d)
      PROVE  DocInv'
  BY <1>3, <1>5, ActiveIsVersion DEF ReviewActive
<1>6. ASSUME NEW h \in DocHandlers, NEW d \in DocRows, ~DocExists(d), docReq[h].pc = "insert",
             WriteVersion(d, docReq[h].type), NEW pc \in {"job", "ocr"},
             docReq' = [docReq EXCEPT ![h] = [@ EXCEPT !.pc = pc, !.doc = d]],
             UNCHANGED <<docCalls, docStage, processed, queued, crossed>>,
             required' \in [DocTypes -> RequiredRow],
             \A u \in DocTypes : required'[u].status = "accepted" => required[u].status = "accepted"
      PROVE  DocInv'
  <2> DEFINE r == [docReq[h] EXCEPT !.pc = pc, !.doc = d]
  <2>1. docReq[h].type \in DocTypes
    BY <1>6 DEF DocInv, DocReqSound
  <2>2. r \in DocReqRow /\ r.pc = pc /\ r.doc = d /\ docReq' = [docReq EXCEPT ![h] = r]
    <3>1. PICK row \in DocReqRow : row = docReq[h]
      BY <1>t
    <3>2. r = [row EXCEPT !.pc = pc, !.doc = d] /\ docReq' = [docReq EXCEPT ![h] = r]
      BY <1>6, <3>1
    <3> HIDE DEF r
    <3>3. r \in DocReqRow /\ r.pc = pc /\ r.doc = d
      BY <3>2 DEF DocReqRow
    <3> QED BY <3>2, <3>3
  <2> HIDE DEF r
  <2>3. Len(versions[d]) < MaxVersions
    <3>1. versions[d] = <<>>
      BY <1>6 DEF DocInv, VersionsOfDocuments
    <3> QED BY <3>1
  <2>4. DocReqSound(h)'
    BY <1>t, <2>2 DEF DocReqSound
  <2> QED BY <1>t, <1>6, <2>1, <2>2, <2>3, <2>4, WriteVersionGrows, DocStep
<1>7. ASSUME NEW h \in DocHandlers, CommitNew(h) PROVE DocInv'
  <2>1. PICK d \in DocRows : /\ ~DocExists(d) /\ WriteVersion(d, docReq[h].type)
                             /\ docReq' = [docReq EXCEPT ![h] = [@ EXCEPT !.pc = "job", !.doc = d]]
    BY <1>7 DEF CommitNew
  <2> DEFINE q == [status |-> "uploaded", required |-> Demand[docReq[h].type] = "required"]
  <2>2. /\ required' = [required EXCEPT ![docReq[h].type] = q] /\ docReq[h].pc = "insert"
        /\ UNCHANGED <<docCalls, docStage, processed, queued, crossed>>
    BY <1>7 DEF CommitNew, SetRequired
  <2>3. q \in RequiredRow /\ q.status = "uploaded"
    BY DEF RequiredRow
  <2> HIDE DEF q
  <2>4. /\ required' \in [DocTypes -> RequiredRow]
        /\ \A u \in DocTypes : required'[u].status = "accepted" => required[u].status = "accepted"
    BY <1>t, <2>2, <2>3
  <2> QED BY <1>6, <2>1, <2>2, <2>4
<1>8. ASSUME NEW h \in DocHandlers, PersistAndEnqueue(h) PROVE DocInv'
  <2>1. PICK d \in DocRows : /\ ~DocExists(d) /\ WriteVersion(d, docReq[h].type)
                             /\ docReq' = [docReq EXCEPT ![h] = [@ EXCEPT !.pc = "ocr", !.doc = d]]
    BY <1>8 DEF PersistAndEnqueue
  <2>2. UNCHANGED <<docCalls, required, docStage, processed, queued, crossed>> /\ docReq[h].pc = "insert"
    BY <1>8 DEF PersistAndEnqueue
  <2> QED BY <1>t, <1>6, <2>1, <2>2
<1>9. ASSUME NEW h \in DocHandlers, DocEnd(h), UNCHANGED <<docCalls, docRow, versions, required, docStage, crossed>>,
             processed' \subseteq DocRows, queued' \subseteq DocRows
      PROVE  DocInv'
  BY <1>t, <1>9, IdleDocRow, DocMoves DEF DocEnd
<1>10. ASSUME NEW h \in DocHandlers, CommitVersion(h) PROVE DocInv'
  <2> DEFINE q == [status |-> "uploaded", required |-> Demand[docReq[h].type] = "required"]
  <2>1. /\ docReq[h].doc \in DocRows /\ DocExists(docReq[h].doc) /\ docReq[h].type = docRow[docReq[h].doc].type
        /\ DocEnd(h) /\ UNCHANGED <<docCalls, docStage, processed, queued, crossed>>
    BY <1>10 DEF CommitVersion, DocInv, DocReqSound
  <2>2. CASE UNCHANGED <<docRow, versions, required>>
    BY <1>t, <1>9, <2>1, <2>2
  <2>3. CASE /\ WriteVersion(docReq[h].doc, docReq[h].type)
             /\ SetRequired(docReq[h].type, "uploaded", Demand[docReq[h].type] = "required")
             /\ Len(versions[docReq[h].doc]) < MaxVersions
    <3>1. q \in RequiredRow /\ q.status = "uploaded" /\ docReq[h].type \in DocTypes
      BY <1>t, <2>1 DEF RequiredRow, DocExists, DocRowType
    <3>2. required' = [required EXCEPT ![docReq[h].type] = q]
      BY <2>3 DEF SetRequired
    <3> HIDE DEF q
    <3>3. /\ required' \in [DocTypes -> RequiredRow]
          /\ \A u \in DocTypes : required'[u].status = "accepted" => required[u].status = "accepted"
      BY <1>t, <3>1, <3>2
    <3>4. docReq' = [docReq EXCEPT ![h] = IdleDoc] /\ docReq'[h].pc = "idle"
      BY <1>t, <2>1, IdleDocRow DEF DocEnd
    <3>5. DocReqSound(h)'
      BY <3>4 DEF DocReqSound
    <3>6. /\ DocsGrow
          /\ \A g \in DocHandlers : docReq[g].pc = "commit" =>
               versions'[docReq[g].doc][docReq[g].v] = "none"
      BY <2>1, <2>3, <3>1, WriteVersionGrows
    <3>7. IdleDoc \in DocReqRow /\ IdleDoc.pc = "idle"
      BY IdleDocRow
    <3>8. docStage' \in Stages /\ docCalls' \in 0..MaxDocCalls /\ processed' \subseteq DocRows /\ queued' \subseteq DocRows
      BY <1>t, <2>1
    <3> QED BY <3>3, <3>4, <3>5, <3>6, <3>7, <3>8, DocStep
  <2> QED BY <1>10, <2>2, <2>3 DEF CommitVersion
<1>11. ASSUME NEW h \in DocHandlers, CreateJob(h) PROVE DocInv'
  <2> DEFINE r == [docReq[h] EXCEPT !.pc = "queue"]
  <2>1. /\ docReq[h].doc \in DocRows /\ processed' = processed \cup {docReq[h].doc}
        /\ UNCHANGED <<docCalls, docRow, versions, required, docStage, queued, crossed>>
    BY <1>11 DEF CreateJob, DocInv, DocReqSound
  <2>2. r \in DocReqRow /\ r.pc = "queue" /\ r.doc = docReq[h].doc /\ docReq' = [docReq EXCEPT ![h] = r]
    <3>1. PICK row \in DocReqRow : row = docReq[h]
      BY <1>t
    <3>2. r = [row EXCEPT !.pc = "queue"] /\ docReq' = [docReq EXCEPT ![h] = r]
      BY <1>11, <3>1 DEF CreateJob, DocGoto
    <3> HIDE DEF r
    <3>3. r \in DocReqRow /\ r.pc = "queue" /\ r.doc = row.doc
      BY <3>2 DEF DocReqRow
    <3> QED BY <3>1, <3>2, <3>3
  <2> HIDE DEF r
  <2> QED BY <1>t, <2>1, <2>2, DocMoves
<1>12. ASSUME NEW h \in DocHandlers, QueueOcrDocument(h) \/ EnqueueOcr(h) \/ DocRequestFails(h) PROVE DocInv'
  <2>1. docReq[h].pc \in {"queue", "ocr"} => docReq[h].doc \in DocRows
    BY DEF DocInv, DocReqSound
  <2> QED BY <1>t, <1>9, <1>12, <2>1 DEF QueueOcrDocument, EnqueueOcr, DocRequestFails
<1>13. ASSUME NEW h \in DocHandlers, WriteReview(h) PROVE DocInv'
  <2>1. CASE DocEnd(h)
    BY <1>t, <1>9, <1>13, <2>1 DEF WriteReview
  <2>2. CASE ~DocEnd(h)
    <3>1. PICK pending \in BOOLEAN :
            /\ docReq' = [docReq EXCEPT ![h] = [@ EXCEPT !.pc = "commit", !.pending = pending]]
            /\ docReq[h].pc = "review" /\ ~Locked(h)
            /\ versions[docReq[h].doc][docReq[h].v] = "none"
      BY <1>13, <2>2 DEF WriteReview
    <3>2. UNCHANGED <<docCalls, docRow, versions, required, docStage, processed, queued, crossed>>
      BY <1>13 DEF WriteReview
    <3> DEFINE r == [docReq[h] EXCEPT !.pc = "commit", !.pending = pending]
    <3>3. /\ r \in DocReqRow /\ r.pc = "commit" /\ r.doc = docReq[h].doc /\ r.type = docReq[h].type
          /\ r.v = docReq[h].v /\ docReq' = [docReq EXCEPT ![h] = r]
      <4>1. PICK row \in DocReqRow : row = docReq[h]
        BY <1>t
      <4>2. r = [row EXCEPT !.pc = "commit", !.pending = pending] /\ docReq' = [docReq EXCEPT ![h] = r]
        BY <3>1, <4>1
      <4> HIDE DEF r
      <4>3. r \in DocReqRow /\ r.pc = "commit"
        BY <4>2 DEF DocReqRow
      <4>4. r.doc = row.doc /\ r.type = row.type /\ r.v = row.v
        BY <4>2 DEF DocReqRow
      <4> QED BY <4>1, <4>2, <4>3, <4>4
    <3> HIDE DEF r
    <3>4. docCalls' \in 0..MaxDocCalls /\ processed' \subseteq DocRows /\ queued' \subseteq DocRows
      BY <1>t, <3>2
    <3> QED BY <3>1, <3>2, <3>3, <3>4, DocMoves
  <2> QED BY <2>1, <2>2
<1>14. ASSUME NEW h \in DocHandlers, docReq[h].pc = "commit", DocEnd(h), ReviewRows(h), docStage' \in Stages,
              UNCHANGED <<docCalls, processed, queued>>, crossed \subseteq crossed', crossed' \subseteq DocRows,
              Outcome(docReq[h].op) = "accepted" /\ docReq[h].doc \notin crossed' =>
                \A g \in DocHandlers : docReq[g].pc = "version" => docReq[g].doc # docReq[h].doc
       PROVE  DocInv'
  <2>1. /\ DocsGrow /\ required' \in [DocTypes -> RequiredRow]
        /\ \A g \in DocHandlers : docReq[g].pc = "commit" /\ g # h =>
             versions'[docReq[g].doc][docReq[g].v] = "none"
        /\ \A u \in DocTypes : required'[u].status = "accepted" =>
             \/ required[u].status = "accepted"
             \/ \E e \in DocRows : docRow'[e].type = u /\ HasAccepted(e)'
    BY <1>14, ReviewGrows
  <2>2. docReq' = [docReq EXCEPT ![h] = IdleDoc] /\ docReq'[h].pc = "idle"
    BY <1>t, <1>14, IdleDocRow DEF DocEnd
  <2>3. DocReqSound(h)'
    BY <2>2 DEF DocReqSound
  <2> QED BY <1>t, <1>14, <2>1, <2>2, <2>3, IdleDocRow, DocStep
<1>15. ASSUME NEW h \in DocHandlers, CommitAccept(h) PROVE DocInv'
  <2>1. docReq[h].doc \in DocRows
    BY <1>15 DEF CommitAccept, DocInv, DocReqSound
  <2>2. docStage' \in Stages
    BY <1>t, <1>15, StagesLead DEF CommitAccept
  <2>3. crossed' = crossed \cup
          {d \in {docReq[h].doc} : \E g \in DocHandlers : docReq[g].pc = "version" /\ docReq[g].doc = d}
    BY <1>15 DEF CommitAccept
  <2> QED BY <1>t, <1>14, <1>15, <2>1, <2>2, <2>3 DEF CommitAccept
<1>16. ASSUME NEW h \in DocHandlers, CommitReject(h) PROVE DocInv'
  <2>1. CASE EnforceDocumentsRequiredStage(h) /\ ReviewRows(h)
    <3>1. docStage' \in Stages
      BY <1>t, <2>1, StagesLead DEF EnforceDocumentsRequiredStage
    <3>2. Outcome(docReq[h].op) # "accepted"
      BY <1>16 DEF CommitReject, Outcome
    <3> QED BY <1>t, <1>14, <1>16, <2>1, <3>1, <3>2 DEF CommitReject
  <2>2. CASE UNCHANGED <<docRow, versions, required, docStage>>
    BY <1>t, <1>9, <1>16, <2>2 DEF CommitReject
  <2> QED BY <1>16, <2>1, <2>2 DEF CommitReject
<1>17. ASSUME NEW d \in DocRows, NEW s \in {"accepted", "rejected"}, SetDocumentStatus(d, s) PROVE DocInv'
  <2> DEFINE row == [docRow[d] EXCEPT !.status = s]
  <2>1. /\ DocExists(d) /\ docRow' = [docRow EXCEPT ![d] = row] /\ DocCall
        /\ UNCHANGED <<versions, required, docStage, processed, queued, docReq, crossed>>
    BY <1>17, <1>t DEF SetDocumentStatus
  <2>2. row \in DocRowType /\ row # NoDoc /\ row.type = docRow[d].type
    BY <1>t, <2>1, NoDocRow DEF DocExists, DocRowType
  <2> HIDE DEF row
  <2>3. /\ docRow' \in [DocRows -> DocRowType \cup {NoDoc}] /\ docRow'[d] = row
        /\ \A e \in DocRows : e # d => docRow'[e] = docRow[e]
    BY <1>t, <2>1, <2>2
  <2>4. \A e \in DocRows : /\ DocExists(e)' <=> DocExists(e)
                           /\ HasAccepted(e)' <=> HasAccepted(e)
                           /\ docRow'[e].type = docRow[e].type
    BY <2>1, <2>2, <2>3 DEF DocExists, HasAccepted
  <2>5. DocTyped'
    BY <2>1, <2>3, DocCallTyped DEF DocInv, DocTyped
  <2>6. VersionsOfDocuments' /\ ReviewsExclude' /\ AcceptedIsBacked'
    BY <2>1, <2>4 DEF DocInv, VersionsOfDocuments, ReviewsExclude, AcceptedIsBacked
  <2>7. \A h \in DocHandlers : DocReqSound(h)'
    BY <2>1, <2>4 DEF DocInv, DocReqSound, DocExists, HasAccepted
  <2> QED BY <2>5, <2>6, <2>7 DEF DocInv
<1>18. CASE StageMoves \/ UNCHANGED docVars
  <2>1. /\ docStage' \in Stages /\ docCalls' \in 0..MaxDocCalls
        /\ UNCHANGED <<docRow, versions, required, processed, queued, docReq, crossed>>
    BY <1>t, <1>18, StagesLead, DocCallTyped DEF StageMoves, docVars
  <2> QED BY <2>1 DEF DocInv, DocTyped, VersionsOfDocuments, ReviewsExclude, AcceptedIsBacked, DocReqSound,
          DocExists, HasAccepted
<1> QED BY <1>1, <1>2, <1>4, <1>5, <1>7, <1>8, <1>10, <1>11, <1>12, <1>13, <1>15, <1>16, <1>17, <1>18
        DEF DocNext

\* The invariant implies what the run checks.
LEMMA DocInvImplies == DocInv => DocTypeOK /\ AcceptedIsBacked /\ ReadersAgree
<1> SUFFICES ASSUME DocInv PROVE DocTypeOK /\ AcceptedIsBacked /\ ReadersAgree
  OBVIOUS
<1>1. DocTypeOK
  BY DEF DocInv, DocTyped, DocTypeOK, DocRowType, RequiredRow, DocReqRow
<1>2. ReadersAgree
  BY DemandAssumption DEF DocInv, DocTyped, ReadersAgree, AllRequiredAccepted, MissingRequired,
     EnsuredRow, RowOf, NoRequiredRow, RequiredRow
<1> QED BY <1>1, <1>2 DEF DocInv

\* A step that adds a version to a document with an accepted one is the commit
\* of an upload that the acceptance overtook.
LEMMA AcceptedStaysOnStep == DocInv /\ [DocNext]_docVars => AcceptedStays
<1> SUFFICES ASSUME DocInv, [DocNext]_docVars, NEW d \in DocRows, HasAccepted(d),
                    Len(versions'[d]) > Len(versions[d])
             PROVE  d \in crossed
  BY DEF AcceptedStays
<1>t. versions \in [DocRows -> Seq(Reviews)]
  BY DEF DocInv, DocTyped
<1>1. DocExists(d) /\ Len(versions[d]) \in Nat
  BY <1>t DEF DocInv, VersionsOfDocuments, HasAccepted
<1>2. versions' # versions
  BY <1>1
<1>3. ASSUME NEW e \in DocRows, NEW t, WriteVersion(e, t) PROVE e = d
  BY <1>t, <1>1, <1>3 DEF WriteVersion
<1>4. ASSUME NEW h \in DocHandlers, CommitNew(h) \/ PersistAndEnqueue(h) PROVE FALSE
  BY <1>1, <1>3, <1>4 DEF CommitNew, PersistAndEnqueue
<1>5. ASSUME NEW h \in DocHandlers, CommitVersion(h) PROVE d \in crossed
  <2>1. WriteVersion(docReq[h].doc, docReq[h].type) /\ docReq[h].pc = "version"
    BY <1>2, <1>5 DEF CommitVersion
  <2>2. docReq[h].doc \in DocRows /\ (HasAccepted(docReq[h].doc) => docReq[h].doc \in crossed)
    BY <2>1 DEF DocInv, DocReqSound
  <2> QED BY <1>3, <2>1, <2>2
<1>6. ASSUME NEW h \in DocHandlers, ReviewRows(h) PROVE FALSE
  <2>1. PICK e, v, s : versions' = [versions EXCEPT ![e][v] = s]
    BY <1>6 DEF ReviewRows
  <2>2. Len(versions'[d]) = Len(versions[d])
    BY <1>t, <2>1
  <2> QED BY <1>1, <2>2
<1> QED
  BY <1>2, <1>4, <1>5, <1>6 DEF DocNext, docVars, UploadNew, PublicUpload, StaffUpload, UploadVersion,
     ReviewVersion, ReviewActive, CreateJob, QueueOcrDocument, EnqueueOcr, WriteReview, CommitAccept,
     CommitReject, DocRequestFails, SetDocumentStatus, StageMoves

-----------------------------------------------------------------------------
(* Calls.                                                                    *)

CallRowType == [logged: BOOLEAN, status: CallStatus, ended: BOOLEAN]
CallHRow == [pc: {"idle", "insert", "end", "hangup", "read", "write"},
             call: Calls \union {"none"}, status: CallStatus, seen: CallStatus,
             ended: BOOLEAN]

\* The log may show the call as over.
MayBeOver(c) == phase[c] \in TwilioOver \/ c \in refused \union byHand

\* Only a call that is over was reported as over.
ReportsAreTrue == \A c \in Calls : reported[c] \cap TwilioOver # {} => phase[c] \in TwilioOver

\* A row that is not there is blank.
BlankUntilLogged == \A c \in Calls : callRow[c].logged \/ callRow[c] = NoCallRow

\* Who is about to write an end has a reason that stays.
CallHSound(h) ==
  LET r == callH[h]
  IN  /\ r.pc # "idle" => r.call \in Calls
      /\ r.pc \in {"end", "hangup", "read", "write"} => callRow[r.call].logged
      /\ r.pc \in {"read", "write"} /\ r.status \in TerminalStatus => MayBeOver(r.call)

CallInv ==
  /\ CallTypeOK /\ ReportsAreTrue /\ BlankUntilLogged /\ OverInLogIsOver
  /\ \A h \in CallHandlers : CallHSound(h)

\* The types, as the steps below use them.
LEMMA CallTyped ==
  ASSUME CallInv
  PROVE  /\ phase \in [Calls -> {"none"} \union TwilioStatus]
         /\ reported \in [Calls -> SUBSET TwilioStatus]
         /\ callRow \in [Calls -> CallRowType]
         /\ callH \in [CallHandlers -> CallHRow]
         /\ refused \subseteq Calls /\ byHand \subseteq Calls
         /\ callOps \in [Calls -> 0..MaxCallOps]
         /\ presence \in [Callers -> [status: {"none", "available", "busy", "offline"}, fresh: BOOLEAN]]
         /\ NoCallRow \in CallRowType /\ ~NoCallRow.logged /\ NoCallRow.status = "initiated" /\ ~NoCallRow.ended
         /\ Resting \in CallHRow /\ Resting.pc = "idle"
  BY DEF CallInv, CallTypeOK, CallRowType, CallHRow, NoCallRow, Resting, CallStatus

\* No call has been placed at the start.
LEMMA CallStarts == CallInit => CallInv
  BY CallAssumption DEF CallInit, CallInv, CallTypeOK, ReportsAreTrue, BlankUntilLogged, OverInLogIsOver,
     CallHSound, NoCallRow, Resting, CallStatus, TerminalStatus, EndStatus

\* What every step does: the reasons for an end stay, rows stay, and an end is
\* written with a reason.
CallsAdvance ==
  /\ phase' \in [Calls -> {"none"} \union TwilioStatus]
  /\ reported' \in [Calls -> SUBSET TwilioStatus]
  /\ callRow' \in [Calls -> CallRowType]
  /\ refused' \subseteq Calls /\ byHand' \subseteq Calls
  /\ \A c \in Calls :
       /\ MayBeOver(c) => MayBeOver(c)'
       /\ callRow[c].logged => callRow'[c].logged
       /\ callRow'[c].logged \/ callRow'[c] = NoCallRow
       /\ callRow'[c].status \in TerminalStatus => MayBeOver(c)'
       /\ reported'[c] \cap TwilioOver # {} => phase'[c] \in TwilioOver

\* A handler moves and a row is written, for a reason that stays.
LEMMA CallStep ==
  ASSUME CallInv, CallsAdvance, callOps' \in [Calls -> 0..MaxCallOps], UNCHANGED presence,
         NEW h \in CallHandlers, NEW r \in CallHRow,
         callH' = [callH EXCEPT ![h] = r] \/ (UNCHANGED callH /\ r = callH[h]),
         r.pc # "idle" => r.call \in Calls,
         r.pc \in {"end", "hangup", "read", "write"} => callRow'[r.call].logged,
         r.pc \in {"read", "write"} /\ r.status \in TerminalStatus => MayBeOver(r.call)'
  PROVE  CallInv'
<1>1. /\ callH' \in [CallHandlers -> CallHRow] /\ callH'[h] = r
      /\ \A g \in CallHandlers : g # h => callH'[g] = callH[g]
  BY CallTyped
<1>2. CallTypeOK'
  BY <1>1, CallTyped DEF CallTypeOK, CallsAdvance, CallRowType, CallHRow
<1>3. ReportsAreTrue' /\ BlankUntilLogged'
  BY DEF CallsAdvance, ReportsAreTrue, BlankUntilLogged
<1>4. OverInLogIsOver'
  BY DEF CallsAdvance, OverInLogIsOver, MayBeOver
<1>5. ASSUME NEW g \in CallHandlers PROVE CallHSound(g)'
  <2>1. CASE g = h
    BY <1>1, <2>1 DEF CallHSound, MayBeOver
  <2>2. CASE g # h
    <3>1. callH'[g] = callH[g] /\ CallHSound(g)
      BY <1>1, <2>2 DEF CallInv
    <3> QED BY <3>1 DEF CallHSound, CallsAdvance, MayBeOver
  <2> QED BY <2>1, <2>2
<1> QED BY <1>2, <1>3, <1>4, <1>5 DEF CallInv

\* The calls and their rows stay.
LEMMA CallsStay ==
  ASSUME CallInv, UNCHANGED <<phase, reported, callRow, refused>>,
         byHand \subseteq byHand', byHand' \subseteq Calls
  PROVE  CallsAdvance
  BY CallTyped DEF CallInv, CallsAdvance, ReportsAreTrue, BlankUntilLogged, OverInLogIsOver, MayBeOver

\* A handler begins.
LEMMA BeginMoves ==
  ASSUME CallInv, NEW h \in CallHandlers, NEW c \in Calls, NEW s \in CallStatus,
         NEW pc \in {"insert", "end", "hangup", "read"}, Begin(h, c, pc, s)
  PROVE  /\ callOps' \in [Calls -> 0..MaxCallOps]
         /\ \E r \in CallHRow : /\ callH' = [callH EXCEPT ![h] = r] /\ r.pc = pc /\ r.call = c /\ r.status = s
<1>1. /\ callOps[c] < MaxCallOps /\ callOps' = [callOps EXCEPT ![c] = @ + 1]
      /\ callH' = [callH EXCEPT ![h] = [Resting EXCEPT !.pc = pc, !.call = c, !.status = s]]
  BY DEF Begin
<1>2. callOps' \in [Calls -> 0..MaxCallOps]
  <2>1. callOps[c] + 1 \in 0..MaxCallOps
    BY <1>1, CallTyped, CallAssumption
  <2> QED BY <1>1, <2>1, CallTyped
<1>3. [Resting EXCEPT !.pc = pc, !.call = c, !.status = s] \in CallHRow
  BY CallTyped DEF CallHRow
<1> QED BY <1>1, <1>2, <1>3 DEF Resting

\* A handler begins to write s for a call that is logged, with a reason if s is
\* an end.
LEMMA BeginKeeps ==
  ASSUME CallInv, NEW h \in CallHandlers, NEW c \in Calls, NEW s \in CallStatus,
         NEW pc \in {"end", "hangup", "read"}, Begin(h, c, pc, s), callRow[c].logged,
         UNCHANGED <<phase, reported, callRow, refused, presence>>,
         byHand \subseteq byHand', byHand' \subseteq Calls,
         pc = "read" /\ s \in TerminalStatus => MayBeOver(c) \/ c \in byHand'
  PROVE  CallInv'
<1>1. MayBeOver(c) \/ c \in byHand' => MayBeOver(c)'
  BY DEF MayBeOver
<1> QED BY <1>1, BeginMoves, CallsStay, CallStep

\* Staff place a call.
LEMMA PlaceCallKeeps ==
  ASSUME CallInv, NEW h \in CallHandlers, NEW c \in Calls, PlaceCall(h, c)
  PROVE  CallInv'
<1>1. /\ phase[c] = "none" /\ ~callRow[c].logged /\ Begin(h, c, "insert", "initiated")
      /\ phase' = [phase EXCEPT ![c] = "initiated"] /\ reported' = [reported EXCEPT ![c] = {"initiated"}]
      /\ UNCHANGED <<callRow, refused, byHand, presence>>
  BY DEF PlaceCall
<1>2. CallsAdvance
  BY <1>1, CallTyped DEF CallInv, CallsAdvance, MayBeOver, ReportsAreTrue, BlankUntilLogged, OverInLogIsOver,
     TwilioStatus, TwilioOver
<1>3. "initiated" \in CallStatus
  BY DEF CallStatus
<1> QED BY <1>1, <1>2, <1>3, BeginMoves, CallStep

\* Every step of the calls preserves the invariant.
LEMMA CallKeeps == CallInv /\ [CallNext]_callVars => CallInv'
<1> SUFFICES ASSUME CallInv, [CallNext]_callVars PROVE CallInv'
  OBVIOUS
<1> USE CallAssumption
<1>t. /\ phase \in [Calls -> {"none"} \union TwilioStatus]
      /\ reported \in [Calls -> SUBSET TwilioStatus]
      /\ callRow \in [Calls -> CallRowType]
      /\ callH \in [CallHandlers -> CallHRow]
      /\ refused \subseteq Calls /\ byHand \subseteq Calls
      /\ callOps \in [Calls -> 0..MaxCallOps]
      /\ NoCallRow \in CallRowType /\ ~NoCallRow.logged /\ NoCallRow.status = "initiated" /\ ~NoCallRow.ended
      /\ Resting \in CallHRow /\ Resting.pc = "idle"
  BY CallTyped
<1>1. ASSUME NEW c \in Calls, TwilioMoves(c) \/ ClientCalls(c) PROVE CallInv'
  <2>1. CallsAdvance /\ UNCHANGED <<callH, callOps, presence, callRow, refused, byHand>>
    <3>1. CASE TwilioMoves(c)
      <4>1. PICK p \in Follows(phase[c]) :
              /\ phase' = [phase EXCEPT ![c] = p] /\ reported' = [reported EXCEPT ![c] = @ \union {p, "unknown"}]
              /\ UNCHANGED <<callRow, callH, refused, byHand, callOps, presence>>
        BY <3>1 DEF TwilioMoves
      <4>2. p \in TwilioStatus /\ phase[c] \notin TwilioOver
        BY <1>t DEF Follows, TwilioStatus, TwilioOver
      <4> QED
        BY <1>t, <4>1, <4>2 DEF CallInv, CallsAdvance, MayBeOver, ReportsAreTrue, BlankUntilLogged,
           OverInLogIsOver, TwilioStatus, TwilioOver
    <3>2. CASE ClientCalls(c)
      <4>1. PICK p \in {"busy", "ringing"} :
              /\ phase' = [phase EXCEPT ![c] = p] /\ reported' = [reported EXCEPT ![c] = {p}]
              /\ UNCHANGED <<callRow, callH, refused, byHand, callOps, presence>>
        BY <1>t, <3>2 DEF ClientCalls
      <4>2. phase[c] = "none"
        BY <3>2 DEF ClientCalls
      <4> QED
        BY <1>t, <4>1, <4>2 DEF CallInv, CallsAdvance, MayBeOver, ReportsAreTrue, BlankUntilLogged,
           OverInLogIsOver, TwilioStatus, TwilioOver
    <3> QED BY <1>1, <3>1, <3>2
  <2> QED BY <2>1, <1>t DEF CallInv, CallTypeOK, CallsAdvance, CallRowType, ReportsAreTrue, BlankUntilLogged,
          OverInLogIsOver, CallHSound, MayBeOver
<1>2. ASSUME NEW u \in Callers, FetchToken(u) \/ SetPresence(u) \/ Heartbeat(u) \/ HeartbeatExpires(u)
      PROVE  CallInv'
  <2>1. /\ UNCHANGED <<phase, reported, callRow, callH, refused, byHand, callOps>>
        /\ presence' \in [Callers -> [status: {"none", "available", "busy", "offline"}, fresh: BOOLEAN]]
    <3>1. presence \in [Callers -> [status: {"none", "available", "busy", "offline"}, fresh: BOOLEAN]]
      BY CallTyped
    <3>2. CASE FetchToken(u)
      BY <3>1, <3>2 DEF FetchToken
    <3>3. CASE SetPresence(u)
      BY <3>1, <3>3 DEF SetPresence
    <3>4. CASE Heartbeat(u)
      BY <3>1, <3>4 DEF Heartbeat
    <3>5. CASE HeartbeatExpires(u)
      BY <3>1, <3>5 DEF HeartbeatExpires
    <3> QED BY <1>2, <3>2, <3>3, <3>4, <3>5
  <2> QED
    BY <2>1 DEF CallInv, CallTypeOK, ReportsAreTrue, BlankUntilLogged, OverInLogIsOver, CallHSound, MayBeOver
<1>3. ASSUME NEW h \in CallHandlers, CreateCallLog(h) PROVE CallInv'
  <2>1. /\ callH[h].call \in Calls /\ callH' = [callH EXCEPT ![h] = Resting]
        /\ UNCHANGED <<phase, reported, refused, byHand, callOps, presence>>
    BY <1>3 DEF CreateCallLog, CallInv, CallHSound
  <2>2. \/ UNCHANGED callRow
        \/ ~callRow[callH[h].call].logged
           /\ callRow' = [callRow EXCEPT ![callH[h].call] = [NoCallRow EXCEPT !.logged = TRUE]]
    BY <1>3, <1>t DEF CreateCallLog
  <2> DEFINE row == [NoCallRow EXCEPT !.logged = TRUE]
  <2>3. row \in CallRowType /\ row.logged /\ row.status = "initiated"
    BY <1>t DEF CallRowType
  <2> HIDE DEF row
  <2>4. callRow' \in [Calls -> CallRowType]
        /\ \A c \in Calls : callRow'[c] = callRow[c] \/ (callRow'[c] = row /\ ~callRow[c].logged)
    BY <1>t, <2>1, <2>2, <2>3 DEF row
  <2>5. CallsAdvance
    BY <1>t, <2>1, <2>3, <2>4 DEF CallInv, CallsAdvance, MayBeOver, ReportsAreTrue, BlankUntilLogged,
       OverInLogIsOver, TerminalStatus, EndStatus
  <2> QED BY <1>t, <2>1, <2>5, CallStep
<1>4. ASSUME NEW h \in CallHandlers, TwilioAnswers(h) PROVE CallInv'
  <2>1. PICK okay \in BOOLEAN :
          /\ TwilioEnds(callH[h].call, okay)
          /\ callH' = [callH EXCEPT ![h] = [callH[h] EXCEPT !.pc = "read",
                          !.status = IF callH[h].pc = "end" /\ ~okay THEN "failed" ELSE @]]
    BY <1>4 DEF TwilioAnswers
  <2> DEFINE r == [callH[h] EXCEPT !.pc = "read",
                          !.status = IF callH[h].pc = "end" /\ ~okay THEN "failed" ELSE @]
  <2>2. /\ callH[h].call \in Calls /\ callRow[callH[h].call].logged
        /\ UNCHANGED <<callRow, byHand, callOps, presence>>
    BY <1>4 DEF TwilioAnswers, CallInv, CallHSound
  <2>3. /\ r \in CallHRow /\ r.pc = "read" /\ r.call = callH[h].call /\ callH' = [callH EXCEPT ![h] = r]
    BY <1>t, <2>1 DEF CallHRow, CallStatus
  <2> HIDE DEF r
  <2>4. ASSUME NEW c, c = callH[h].call PROVE CallsAdvance /\ MayBeOver(c)'
    <3>1. CASE okay
      <4>1. /\ phase' = [phase EXCEPT ![c] = IF @ \in TwilioOver THEN @ ELSE "completed"]
            /\ reported' = [reported EXCEPT ![c] = @ \union {"completed"}] /\ UNCHANGED refused
        BY <2>1, <2>4, <3>1 DEF TwilioEnds
      <4>2. /\ phase' \in [Calls -> {"none"} \union TwilioStatus] /\ phase'[c] \in TwilioOver
            /\ \A d \in Calls : d # c => phase'[d] = phase[d]
        BY <1>t, <2>2, <2>4, <4>1 DEF TwilioStatus, TwilioOver
      <4>3. /\ reported' \in [Calls -> SUBSET TwilioStatus]
            /\ \A d \in Calls : d # c => reported'[d] = reported[d]
        BY <1>t, <2>2, <2>4, <4>1 DEF TwilioStatus, TwilioOver
      <4> QED
        BY <1>t, <2>2, <2>4, <4>1, <4>2, <4>3 DEF CallInv, CallsAdvance, MayBeOver, ReportsAreTrue,
           BlankUntilLogged, OverInLogIsOver
    <3>2. CASE ~okay
      <4>1. refused' = refused \union {c} /\ UNCHANGED <<phase, reported>>
        BY <2>1, <2>4, <3>2 DEF TwilioEnds
      <4> QED
        BY <1>t, <2>2, <2>4, <4>1 DEF CallInv, CallsAdvance, MayBeOver, ReportsAreTrue,
           BlankUntilLogged, OverInLogIsOver
    <3> QED BY <3>1, <3>2
  <2> QED BY <1>t, <2>2, <2>3, <2>4, CallStep
<1>5. ASSUME NEW h \in CallHandlers, FindCallLog(h) PROVE CallInv'
  <2>0. PICK c \in Calls : c = callH[h].call
    BY <1>5 DEF FindCallLog, CallInv, CallHSound
  <2> DEFINE r == [callH[h] EXCEPT !.pc = "write", !.seen = callRow[c].status, !.ended = callRow[c].ended]
  <2>1. /\ c \in Calls /\ callRow[c].logged /\ callH[h].pc = "read"
        /\ (callH[h].status \in TerminalStatus => MayBeOver(c))
        /\ callH' = [callH EXCEPT ![h] = r]
        /\ UNCHANGED <<phase, reported, callRow, refused, byHand, callOps, presence>>
    BY <1>5, <2>0 DEF FindCallLog, CallInv, CallHSound
  <2>2. r \in CallHRow /\ r.pc = "write" /\ r.call = c /\ r.status = callH[h].status
    BY <1>t, <2>0, <2>1 DEF CallHRow, CallRowType
  <2> HIDE DEF r
  <2>3. MayBeOver(c) => MayBeOver(c)'
    BY <2>1 DEF MayBeOver
  <2>4. CallsAdvance
    BY <1>t, <2>1, CallsStay
  <2> QED BY <1>t, <2>0, <2>1, <2>2, <2>3, <2>4, CallStep
<1>6. ASSUME NEW h \in CallHandlers, UpdateCallStatus(h) PROVE CallInv'
  <2>1. PICK c \in Calls : /\ c = callH[h].call /\ callRow[c].logged
                           /\ (callH[h].status \in TerminalStatus => MayBeOver(c))
    BY <1>6 DEF UpdateCallStatus, CallInv, CallHSound
  <2>2. callH' = [callH EXCEPT ![h] = Resting] /\ UNCHANGED <<phase, reported, refused, byHand, callOps, presence>>
    BY <1>6 DEF UpdateCallStatus
  <2> DEFINE row == [callRow[c] EXCEPT !.status = callH[h].status, !.ended = EndedAt(h)]
  <2>3. row \in CallRowType /\ row.logged /\ row.status = callH[h].status
    BY <1>t, <2>1 DEF CallRowType, CallHRow, EndedAt
  <2>4. UNCHANGED callRow \/ callRow' = [callRow EXCEPT ![c] = row]
    BY <1>6, <2>1 DEF UpdateCallStatus, UpdateCallLogStatus
  <2> HIDE DEF row
  <2>5. callRow' \in [Calls -> CallRowType]
        /\ \A d \in Calls : callRow'[d] = callRow[d] \/ (d = c /\ callRow'[d] = row)
    BY <1>t, <2>3, <2>4
  <2>6. CallsAdvance
    BY <1>t, <2>1, <2>2, <2>3, <2>5 DEF CallInv, CallsAdvance, MayBeOver, ReportsAreTrue, BlankUntilLogged,
       OverInLogIsOver
  <2> QED BY <1>t, <2>2, <2>6, CallStep
<1>7. ASSUME NEW h \in CallHandlers, NEW c \in Calls, StartVoiceCall(h, c) \/ OutboundCall(h, c) \/ SdkCall(h, c)
      PROVE  CallInv'
  BY <1>7, PlaceCallKeeps DEF StartVoiceCall, OutboundCall, SdkCall
<1>8. ASSUME NEW h \in CallHandlers, NEW c \in Calls, HandleVoiceStatusWebhook(h, c) PROVE CallInv'
  <2>1. PICK t \in reported[c] : \E s \in MapTwilioStatus(t) : Begin(h, c, "read", s)
    BY <1>8 DEF HandleVoiceStatusWebhook
  <2>2. PICK s \in MapTwilioStatus(t) : Begin(h, c, "read", s)
    BY <2>1
  <2>3. s \in CallStatus /\ (s \in TerminalStatus => t \in TwilioOver)
    BY <1>t DEF MapTwilioStatus, CallStatus, TerminalStatus, EndStatus, TwilioOver
  <2>4. s \in TerminalStatus => MayBeOver(c)
    BY <2>3 DEF CallInv, ReportsAreTrue, MayBeOver
  <2> QED BY <1>t, <1>8, <2>2, <2>3, <2>4, BeginKeeps DEF HandleVoiceStatusWebhook
<1>9. ASSUME NEW h \in CallHandlers, NEW c \in Calls, NEW s \in CallStatus, WriteByHand(h, c, s) PROVE CallInv'
  BY <1>t, <1>9, BeginKeeps DEF WriteByHand
<1>10. ASSUME NEW h \in CallHandlers, NEW c \in Calls,
              PostCallStatus(h, c) \/ EndCall(h, c) \/ UpdateVoiceCallStatus(h, c)
       PROVE  CallInv'
  <2>1. \E s \in CallStatus : WriteByHand(h, c, s)
    BY <1>10 DEF PostCallStatus, EndCall, UpdateVoiceCallStatus, NormalizeLifecycleStatus, CallStatus
  <2> QED BY <1>9, <2>1
<1>11. ASSUME NEW h \in CallHandlers, NEW c \in Calls, EndVoiceCall(h, c) PROVE CallInv'
  <2>1. callRow[c].status \in TerminalStatus => MayBeOver(c)
    BY DEF CallInv, OverInLogIsOver, MayBeOver
  <2>2. "completed" \in CallStatus
    BY DEF CallStatus
  <2>3. /\ callRow[c].logged /\ UNCHANGED <<phase, reported, callRow, refused, byHand, presence>>
        /\ \/ callRow[c].status \in TerminalStatus /\ Begin(h, c, "read", "completed")
           \/ Begin(h, c, "end", "completed")
    BY <1>11 DEF EndVoiceCall
  <2> QED BY <1>t, <2>1, <2>2, <2>3, BeginKeeps
<1>12. ASSUME NEW h \in CallHandlers, NEW c \in Calls, ControlVoiceCall(h, c) PROVE CallInv'
  <2>1. /\ callRow[c].logged /\ UNCHANGED <<phase, reported, callRow, refused, byHand, presence>>
        /\ Begin(h, c, "hangup", "completed") \/ Begin(h, c, "read", "in_progress")
    BY <1>12 DEF ControlVoiceCall
  <2>2. {"completed", "in_progress"} \subseteq CallStatus /\ "in_progress" \notin TerminalStatus
    BY DEF CallStatus, TerminalStatus, EndStatus
  <2> QED BY <1>t, <2>1, <2>2, BeginKeeps
<1>13. ASSUME NEW h \in CallHandlers, NEW c \in Calls, RecordVoiceCallRecording(h, c) PROVE CallInv'
  <2>1. callRow[c].status \in CallStatus /\ (callRow[c].status \in TerminalStatus => MayBeOver(c))
    BY <1>t DEF CallRowType, CallInv, OverInLogIsOver, MayBeOver
  <2> QED BY <1>t, <1>13, <2>1, BeginKeeps DEF RecordVoiceCallRecording
<1>14. ASSUME NEW h \in CallHandlers, NEW c \in Calls, NEW s \in CallStatus, StartCall(h, c, s) PROVE CallInv'
  <2> DEFINE row == [NoCallRow EXCEPT !.logged = TRUE, !.status = s]
  <2>1. /\ ~callRow[c].logged /\ callRow' = [callRow EXCEPT ![c] = row] /\ byHand' = byHand \union {c}
        /\ UNCHANGED <<phase, reported, refused, presence>>
        /\ Begin(h, c, "read", s) \/ UNCHANGED <<callH, callOps>>
    BY <1>14 DEF StartCall
  <2>2. row \in CallRowType /\ row.logged
    BY <1>t DEF CallRowType
  <2> HIDE DEF row
  <2>3. /\ callRow' \in [Calls -> CallRowType] /\ callRow'[c].logged
        /\ \A d \in Calls : d # c => callRow'[d] = callRow[d]
    BY <1>t, <2>1, <2>2
  <2>4. CallsAdvance /\ MayBeOver(c)'
    BY <1>t, <2>1, <2>3 DEF CallInv, CallsAdvance, MayBeOver, ReportsAreTrue, BlankUntilLogged, OverInLogIsOver
  <2>5. CASE Begin(h, c, "read", s)
    BY <1>t, <2>1, <2>3, <2>4, <2>5, BeginMoves, CallStep
  <2>6. CASE UNCHANGED <<callH, callOps>>
    <3>1. /\ callH[h].pc # "idle" => callH[h].call \in Calls
          /\ callH[h].pc \in {"end", "hangup", "read", "write"} => callRow[callH[h].call].logged
          /\ callH[h].pc \in {"read", "write"} /\ callH[h].status \in TerminalStatus => MayBeOver(callH[h].call)
      BY DEF CallInv, CallHSound
    <3> QED BY <1>t, <2>1, <2>4, <2>6, <3>1, CallStep DEF CallsAdvance
  <2> QED BY <2>1, <2>5, <2>6
<1>15. CASE UNCHANGED callVars
  BY <1>15 DEF callVars, CallInv, CallTypeOK, ReportsAreTrue, BlankUntilLogged, OverInLogIsOver, CallHSound, MayBeOver
<1> QED BY <1>1, <1>2, <1>3, <1>4, <1>5, <1>6, <1>7, <1>8, <1>10, <1>11, <1>12, <1>13, <1>14, <1>15 DEF CallNext

\* The invariant implies what the run checks.
LEMMA CallInvImplies == CallInv => CallTypeOK /\ OverInLogIsOver
  BY DEF CallInv

-----------------------------------------------------------------------------
(* Communications.                                                           *)

TextRow == [dir : {"outbound", "inbound"}, phone : Phones, seen : Silos \cup {Nil}, times : Nat]

\* A text of a contact has the contact's number, and a row that stands for a
\* text says what Twilio carried.
RowFits(r) ==
  /\ r.type = "sms" => r.contact \in {Nil, r.from, r.to}
  /\ r.sid # 0 =>
       /\ r.sid \in DOMAIN texts /\ r.type = "sms"
       /\ texts[r.sid].phone \in {r.from, r.to}
       /\ texts[r.sid].dir = "outbound" => r.silo = texts[r.sid].seen

\* What a handler will send or store.
CommSound(h) ==
  /\ comm[h].at = "send" => /\ comm[h].phone \in Phones /\ comm[h].contact \in {Nil, comm[h].phone}
                            /\ comm[h].app \in Phones \cup {Nil} /\ comm[h].silo \in Silos
                            /\ comm[h].seen = comm[h].silo
  /\ comm[h].at = "store" => comm[h].row \in CommRow /\ comm[h].row.sid # 0 /\ RowFits(comm[h].row)
  /\ comm[h].at \in {"escalate", "tell"} => comm[h] \in [at : {"escalate", "tell"}, phone : Phones]

CommTypes ==
  /\ contactSilo \in [Phones -> Silos \cup {Nil}] /\ appSilo \in [Phones -> Silos \cup {Nil}]
  /\ linked \subseteq Phones /\ escalated \subseteq Phones
  /\ rows \in Seq(CommRow) /\ Len(rows) <= MaxCommRows
  /\ texts \in Seq(TextRow) /\ Len(texts) <= MaxTexts
  /\ comm = [h \in CommHandlers |-> comm[h]]

\* A text has at most one row.
StoredOnce == \A i, j \in DOMAIN rows : rows[i].sid # 0 /\ rows[i].sid = rows[j].sid => i = j

CommInv ==
  /\ CommTypes
  /\ \A h \in CommHandlers : CommSound(h)
  /\ \A i \in DOMAIN rows : RowFits(rows[i])
  /\ StoredOnce

\* Nothing has been sent or stored at the start.
LEMMA CommStarts == CommInit => CommInv
<1> SUFFICES ASSUME CommInit PROVE CommInv
  OBVIOUS
<1>1. rows = << >> /\ texts = << >> /\ Len(rows) = 0 /\ Len(texts) = 0 /\ DOMAIN rows = {}
  BY DEF CommInit
<1>2. CommTypes
  BY <1>1, CommAssumption DEF CommInit, CommTypes, CommIdle
<1>3. \A h \in CommHandlers : CommSound(h)
  BY DEF CommInit, CommSound, CommIdle
<1> QED BY <1>1, <1>2, <1>3 DEF CommInv, StoredOnce

\* A row of a text, with what it is made of.
LEMMA SmsRowIs ==
  ASSUME NEW dir, NEW p \in Phones, NEW contact \in {Nil, p}, NEW a \in Phones \cup {Nil},
         NEW silo \in Silos, NEW sid \in Nat
  PROVE  LET r == SmsRow(dir, p, contact, a, silo, sid) IN
           /\ r \in CommRow /\ r.sid = sid /\ r.type = "sms" /\ r.silo = silo /\ p \in {r.from, r.to}
           /\ r.contact \in {Nil, r.from, r.to}
BY DEF SmsRow, CommRow

\* A row of a message stands for no text.
LEMMA AppRowIs ==
  ASSUME NEW type \in {"message", "maya_handoff"}, NEW contact \in Phones \cup {Nil},
         NEW a \in Phones \cup {Nil}, NEW silo \in Silos
  PROVE  /\ AppRow(type, contact, a, silo) \in CommRow /\ AppRow(type, contact, a, silo).sid = 0
         /\ AppRow(type, contact, a, silo).type # "sms"
BY DEF AppRow, CommRow

\* The silo a request works in is one.
LEMMA SiloIs ==
  ASSUME NEW u \in CommStaff, NEW requested \in Silos
  PROVE  ResolveSilo(u, requested) \in Silos
BY CommAssumption DEF ResolveSilo

\* A row that stands for no text, or for one that has none yet, is added.
LEMMA InsertKeeps ==
  ASSUME CommInv, NEW row \in CommRow, Insert(row), UNCHANGED <<contactSilo, appSilo, linked, texts>>,
         RowFits(row), row.sid # 0 => ~Stored(row.sid),
         comm' = [h \in CommHandlers |-> comm'[h]], \A h \in CommHandlers : CommSound(h)',
         escalated' \subseteq Phones
  PROVE  CommInv'
<1>1. PICK n \in Nat : n = Len(rows)
  BY DEF CommInv, CommTypes
<1>2. rows \in Seq(CommRow) /\ rows' = Append(rows, row) /\ n < MaxCommRows
  BY <1>1 DEF CommInv, CommTypes, Insert
<1>3. /\ rows' \in Seq(CommRow) /\ Len(rows') = n + 1 /\ DOMAIN rows' = 1..(n + 1) /\ DOMAIN rows = 1..n
      /\ rows'[n + 1] = row /\ \A i \in 1..n : rows'[i] = rows[i]
  BY <1>1, <1>2
<1>4. n + 1 <= MaxCommRows
  BY <1>2, CommAssumption
<1>5. CommTypes'
  BY <1>3, <1>4 DEF CommInv, CommTypes
<1>6. \A i \in 1..(n + 1) : i = n + 1 \/ i \in 1..n
  OBVIOUS
<1>7. \A i \in DOMAIN rows' : RowFits(rows[i])'
  <2>1. \A r : RowFits(r)' <=> RowFits(r)
    BY DEF RowFits
  <2>2. \A i \in 1..n : RowFits(rows[i])
    BY <1>3 DEF CommInv
  <2>3. ASSUME NEW i \in DOMAIN rows' PROVE RowFits(rows'[i])
    BY <1>3, <1>6, <2>2
  <2> QED BY <2>3 DEF RowFits
<1>8. StoredOnce'
  <2>1. \A i \in 1..n : row.sid # 0 => rows[i].sid # row.sid
    BY <1>3 DEF Stored
  <2>2. \A i, j \in 1..n : rows[i].sid # 0 /\ rows[i].sid = rows[j].sid => i = j
    BY <1>3 DEF CommInv, StoredOnce
  <2>3. ASSUME NEW i \in DOMAIN rows', NEW j \in DOMAIN rows', rows'[i].sid # 0, rows'[i].sid = rows'[j].sid
        PROVE  i = j
    BY <1>3, <1>6, <2>1, <2>2, <2>3
  <2> QED BY <2>3 DEF StoredOnce
<1> QED BY <1>5, <1>7, <1>8 DEF CommInv

\* What a row or a handler says of a text stays true as texts are added or
\* delivered once more.
LEMMA TextsGrow ==
  ASSUME CommInv, UNCHANGED <<contactSilo, appSilo, linked, rows, escalated>>,
         texts' \in Seq(TextRow), Len(texts') <= MaxTexts,
         \A t \in DOMAIN texts : /\ t \in DOMAIN texts' /\ texts'[t].phone = texts[t].phone
                                 /\ texts'[t].dir = texts[t].dir /\ texts'[t].seen = texts[t].seen
  PROVE  /\ comm' = comm => CommInv'
         /\ \A h \in CommHandlers : comm'[h] = comm[h] => CommSound(h)'
         /\ comm' = [h \in CommHandlers |-> comm'[h]] /\ (\A h \in CommHandlers : CommSound(h)') => CommInv'
<1>1. ASSUME NEW r, RowFits(r) PROVE RowFits(r)'
  BY <1>1 DEF RowFits
<1>2. \A i \in DOMAIN rows' : RowFits(rows[i])'
  <2>1. ASSUME NEW i \in DOMAIN rows PROVE RowFits(rows[i])'
    <3>1. PICK r : r = rows[i]
      OBVIOUS
    <3>2. RowFits(r)'
      BY <1>1, <3>1 DEF CommInv
    <3> QED BY <3>1, <3>2 DEF RowFits
  <2> QED BY <2>1
<1>3. StoredOnce'
  BY DEF CommInv, StoredOnce
<1>4. ASSUME NEW h \in CommHandlers, comm'[h] = comm[h] PROVE CommSound(h)'
  <2>1. CommSound(h)
    BY DEF CommInv
  <2>2. PICK r : r = comm[h].row
    OBVIOUS
  <2>3. RowFits(r) => RowFits(r)'
    BY <1>1
  <2> QED BY <1>4, <2>1, <2>2, <2>3 DEF CommSound, RowFits
<1>5. comm' = [h \in CommHandlers |-> comm'[h]] /\ (\A h \in CommHandlers : CommSound(h)') => CommInv'
  <2>1. comm' = [h \in CommHandlers |-> comm'[h]] => CommTypes'
    BY DEF CommInv, CommTypes
  <2> QED BY <1>2, <1>3, <2>1 DEF CommInv
<1>6. comm' = comm => CommInv'
  <2>1. comm' = comm => comm' = [h \in CommHandlers |-> comm'[h]]
    BY DEF CommInv, CommTypes
  <2> QED BY <1>4, <1>5, <2>1
<1> QED BY <1>4, <1>5, <1>6

\* The same with a handler that reads what it will do next.
LEMMA TextsMove ==
  ASSUME CommInv, UNCHANGED <<contactSilo, appSilo, linked, rows, escalated>>,
         texts' \in Seq(TextRow), Len(texts') <= MaxTexts,
         \A t \in DOMAIN texts : /\ t \in DOMAIN texts' /\ texts'[t].phone = texts[t].phone
                                 /\ texts'[t].dir = texts[t].dir /\ texts'[t].seen = texts[t].seen,
         NEW h \in CommHandlers, NEW to, comm' = comm \/ (comm' = [comm EXCEPT ![h] = to] /\ CommSound(h)')
  PROVE  CommInv'
<1>0. comm = [k \in CommHandlers |-> comm[k]]
  BY DEF CommInv, CommTypes
<1>1. CASE comm' = comm
  BY <1>1, TextsGrow
<1>2. CASE comm' = [comm EXCEPT ![h] = to] /\ CommSound(h)'
  <2>1. comm' = [k \in CommHandlers |-> comm'[k]] /\ \A k \in CommHandlers : k # h => comm'[k] = comm[k]
    BY <1>0, <1>2
  <2>2. \A k \in CommHandlers : CommSound(k)'
    BY <1>2, <2>1, TextsGrow
  <2> QED BY <2>1, <2>2, TextsGrow
<1> QED BY <1>1, <1>2

\* Reading what to send, and Twilio carrying it.
LEMMA SendingKeeps ==
  ASSUME CommInv, NEW h \in CommHandlers,
         PostSms(h) \/ SendDocumentRejectionSms(h) \/ TwilioSends(h) \/ \E p \in Phones : Escalate(h, p)
  PROVE  CommInv'
<1>t. /\ comm = [k \in CommHandlers |-> comm[k]] /\ texts \in Seq(TextRow) /\ Len(texts) <= MaxTexts
      /\ linked \subseteq Phones /\ CommSound(h)
  BY DEF CommInv, CommTypes
<1>u. UNCHANGED <<contactSilo, appSilo, linked, rows, escalated>>
  BY DEF PostSms, SendDocumentRejectionSms, TwilioSends, Escalate
\* A handler that reads, and sends nothing yet.
<1>0. ASSUME UNCHANGED texts, NEW to, comm' = [comm EXCEPT ![h] = to] \/ comm' = comm,
             comm' # comm => CommSound(h)'
      PROVE  CommInv'
  <2>1. CASE comm' = comm
    BY <1>t, <1>u, <1>0, <2>1, TextsMove
  <2>2. CASE comm' = [comm EXCEPT ![h] = to] /\ CommSound(h)'
    BY <1>t, <1>u, <1>0, <2>2, TextsMove
  <2> QED BY <1>0, <2>1, <2>2
<1>s. ASSUME NEW p \in Phones, NEW contact \in {Nil, p}, NEW a \in Phones \cup {Nil},
             NEW silo \in Silos, comm' = [comm EXCEPT ![h] = Sending(p, contact, a, silo, silo)]
      PROVE  CommSound(h)'
  <2>1. comm'[h] = Sending(p, contact, a, silo, silo)
    BY <1>t, <1>s
  <2> QED BY <2>1 DEF CommSound, Sending
<1>1. CASE PostSms(h)
  <2>1. PICK p \in Phones, u \in CommStaff, requested \in Silos, named \in BOOLEAN :
          comm' = [comm EXCEPT ![h] = Sending(p, IF named THEN p ELSE Nil, IF named THEN AppContact(p) ELSE Nil,
                                              SmsSilo(u, requested), ResolveSilo(u, requested))]
    BY <1>1 DEF PostSms
  <2>2. PICK silo \in Silos : silo = ResolveSilo(u, requested) /\ silo = SmsSilo(u, requested)
    BY SiloIs DEF SmsSilo
  <2>3. PICK contact \in {Nil, p}, a \in Phones \cup {Nil} :
          contact = (IF named THEN p ELSE Nil) /\ a = (IF named THEN AppContact(p) ELSE Nil)
    BY DEF AppContact
  <2>4. comm' = [comm EXCEPT ![h] = Sending(p, contact, a, silo, silo)]
    BY <2>1, <2>2, <2>3
  <2>5. CommSound(h)'
    BY <1>s, <2>4
  <2> QED BY <1>0, <1>1, <2>4, <2>5 DEF PostSms
<1>2. CASE SendDocumentRejectionSms(h)
  <2>1. PICK p \in Phones : comm' = [comm EXCEPT ![h] = Sending(p, Nil, p, "BF", "BF")]
    BY <1>2 DEF SendDocumentRejectionSms
  <2>2. CommSound(h)'
    BY <1>s, <2>1 DEF Silos
  <2> QED BY <1>0, <1>2, <2>1, <2>2 DEF SendDocumentRejectionSms
<1>3. CASE comm[h].at = "send" /\ comm' = [comm EXCEPT ![h] = CommIdle] /\ UNCHANGED texts
  <2>1. CommSound(h)'
    BY <1>t, <1>3 DEF CommSound, CommIdle
  <2> QED BY <1>0, <1>3, <2>1
<1>4. CASE /\ comm[h].at = "send" /\ Len(texts) < MaxTexts
           /\ texts' = Append(texts, Text("outbound", comm[h].phone, comm[h].seen))
           /\ comm' = [comm EXCEPT ![h] = [at |-> "store", row |->
                         SmsRow("outbound", comm[h].phone, comm[h].contact, comm[h].app,
                                comm[h].silo, Len(texts) + 1)]]
  <2>0. PICK p \in Phones : p = comm[h].phone
    BY <1>t, <1>4 DEF CommSound
  <2>1. PICK contact \in {Nil, p}, a \in Phones \cup {Nil}, silo \in Silos :
          p = comm[h].phone /\ contact = comm[h].contact /\ a = comm[h].app /\ silo = comm[h].silo /\ silo = comm[h].seen
    BY <1>t, <1>4, <2>0 DEF CommSound
  <2>2. PICK sid \in Nat : sid = Len(texts) + 1
    BY <1>t
  <2>3. PICK r : r = SmsRow("outbound", p, contact, a, silo, sid)
    OBVIOUS
  <2>4. /\ r \in CommRow /\ r.sid = sid /\ r.type = "sms" /\ r.silo = silo /\ p \in {r.from, r.to}
        /\ r.contact \in {Nil, r.from, r.to}
    BY <2>3, SmsRowIs
  <2>5. PICK to : to = [at |-> "store", row |-> r]
    OBVIOUS
  <2>6. comm' = [comm EXCEPT ![h] = to] /\ comm'[h] = to
    BY <1>t, <1>4, <2>1, <2>2, <2>3, <2>5
  <2>n. PICK new : new = Text("outbound", p, silo)
    OBVIOUS
  <2>7. new \in TextRow /\ new.phone = p /\ new.dir = "outbound" /\ new.seen = silo
    BY <2>n DEF Text, TextRow
  <2>8. texts' = Append(texts, new)
    BY <1>4, <2>1, <2>n
  <2>9. /\ texts' \in Seq(TextRow) /\ Len(texts') = sid /\ DOMAIN texts' = 1..sid /\ texts'[sid] = new
        /\ \A t \in DOMAIN texts : t \in DOMAIN texts' /\ texts'[t] = texts[t]
    BY <1>t, <2>2, <2>7, <2>8
  <2>10. sid <= MaxTexts /\ sid # 0 /\ sid \in 1..sid
    BY <1>t, <1>4, <2>2, CommAssumption
  <2>11. CommSound(h)'
    BY <2>4, <2>5, <2>6, <2>7, <2>9, <2>10 DEF CommSound, RowFits
  <2> QED BY <1>u, <2>6, <2>9, <2>10, <2>11, TextsMove
<1>5. ASSUME NEW p \in Phones, Escalate(h, p) PROVE CommInv'
  <2>1. CASE comm' = comm
    BY <1>0, <1>5, <2>1 DEF Escalate
  <2>2. CASE comm' = [comm EXCEPT ![h] = [at |-> "escalate", phone |-> p]]
    <3>1. CommSound(h)'
      BY <1>t, <2>2 DEF CommSound
    <3> QED BY <1>0, <1>5, <2>2, <3>1 DEF Escalate
  <2> QED BY <1>5, <2>1, <2>2 DEF Escalate
<1> QED BY <1>1, <1>2, <1>3, <1>4, <1>5 DEF TwilioSends

\* A client's text is carried.
LEMMA ClientTextKeeps ==
  ASSUME CommInv, NEW p \in Phones, ClientTexts(p)
  PROVE  CommInv'
<1>t. texts \in Seq(TextRow) /\ Len(texts) <= MaxTexts
  BY DEF CommInv, CommTypes
<1>h. UNCHANGED <<contactSilo, appSilo, linked, rows, comm, escalated>>
  BY DEF ClientTexts
<1>n. PICK new : new = Text("inbound", p, Nil)
  OBVIOUS
<1>1. new \in TextRow
  BY <1>n DEF Text, TextRow
<1>2. texts' = Append(texts, new) /\ Len(texts) < MaxTexts
  BY <1>n DEF ClientTexts
<1>3. /\ texts' \in Seq(TextRow) /\ Len(texts') = Len(texts) + 1
      /\ \A t \in DOMAIN texts : t \in DOMAIN texts' /\ texts'[t] = texts[t]
  BY <1>t, <1>1, <1>2
<1>4. Len(texts') <= MaxTexts
  BY <1>t, <1>2, <1>3, CommAssumption
<1> QED BY <1>h, <1>3, <1>4, TextsGrow

\* Twilio delivers a text, for the first time or again.
LEMMA InboundKeeps ==
  ASSUME CommInv, NEW h \in CommHandlers, DeliverInbound(h)
  PROVE  CommInv'
<1>t. /\ comm = [k \in CommHandlers |-> comm[k]] /\ texts \in Seq(TextRow) /\ Len(texts) <= MaxTexts
      /\ contactSilo \in [Phones -> Silos \cup {Nil}]
  BY DEF CommInv, CommTypes
<1>u. UNCHANGED <<contactSilo, appSilo, linked, rows, escalated>>
  BY DEF DeliverInbound
<1>1. PICK i \in DOMAIN texts :
        /\ texts[i].dir = "inbound"
        /\ texts' = [texts EXCEPT ![i].times = @ + 1]
        /\ comm' = [comm EXCEPT ![h] = [at |-> "store", row |->
             SmsRow("inbound", texts[i].phone, IF contactSilo[texts[i].phone] = Nil THEN Nil ELSE texts[i].phone, Nil,
                    IF contactSilo[texts[i].phone] = Nil THEN "BF" ELSE contactSilo[texts[i].phone], i)]]
  BY DEF DeliverInbound
<1>r. texts[i] \in TextRow
  BY <1>t
<1>2. PICK p \in Phones : p = texts[i].phone
  BY <1>r DEF TextRow
<1>3. PICK contact \in {Nil, p}, silo \in Silos :
        /\ contact = (IF contactSilo[p] = Nil THEN Nil ELSE p)
        /\ silo = (IF contactSilo[p] = Nil THEN "BF" ELSE contactSilo[p])
  BY <1>t DEF Silos
<1>4. PICK sid \in Nat : sid = i /\ sid # 0
  BY <1>t
<1>a. PICK a \in Phones \cup {Nil} : a = Nil
  OBVIOUS
<1>5. PICK r : r = SmsRow("inbound", p, contact, a, silo, sid)
  OBVIOUS
<1>6. /\ r \in CommRow /\ r.sid = sid /\ r.type = "sms" /\ p \in {r.from, r.to}
      /\ r.contact \in {Nil, r.from, r.to}
  BY <1>5, SmsRowIs
<1>7. PICK to : to = [at |-> "store", row |-> r]
  OBVIOUS
<1>8. comm' = [comm EXCEPT ![h] = to] /\ comm'[h] = to
  BY <1>t, <1>1, <1>2, <1>3, <1>4, <1>a, <1>5, <1>7
<1>9. PICK n \in Nat : n = texts[i].times
  BY <1>r DEF TextRow
<1>10. PICK new : new = [texts[i] EXCEPT !.times = n + 1]
  OBVIOUS
<1>11. new \in TextRow /\ new.phone = p /\ new.dir = "inbound" /\ new.seen = texts[i].seen /\ texts[i] \in TextRow
  BY <1>1, <1>2, <1>10, <1>r DEF TextRow
<1>12. texts' = [texts EXCEPT ![i] = new]
  BY <1>1, <1>9, <1>10
<1>13. /\ texts' \in Seq(TextRow) /\ Len(texts') = Len(texts) /\ DOMAIN texts' = DOMAIN texts
       /\ texts'[i] = new /\ \A t \in DOMAIN texts : t # i => texts'[t] = texts[t]
  BY <1>t, <1>11, <1>12
<1>14. \A t \in DOMAIN texts : /\ t \in DOMAIN texts' /\ texts'[t].phone = texts[t].phone
                               /\ texts'[t].dir = texts[t].dir /\ texts'[t].seen = texts[t].seen
  BY <1>1, <1>2, <1>11, <1>13
<1>15. CommSound(h)'
  BY <1>4, <1>6, <1>7, <1>8, <1>11, <1>13 DEF CommSound, RowFits
<1>16. Len(texts') <= MaxTexts
  BY <1>t, <1>13
<1> QED BY <1>u, <1>8, <1>13, <1>14, <1>15, <1>16, TextsMove

\* A handler that ends leaves the others and what is stored alone.
LEMMA HandlerEnds ==
  ASSUME CommInv, UNCHANGED texts, NEW h \in CommHandlers, NEW to, comm' = [comm EXCEPT ![h] = to],
         to.at \in {"idle", "tell"}, to.at = "tell" => to \in [at : {"escalate", "tell"}, phone : Phones]
  PROVE  comm' = [k \in CommHandlers |-> comm'[k]] /\ \A k \in CommHandlers : CommSound(k)'
<1>0. comm = [k \in CommHandlers |-> comm[k]]
  BY DEF CommInv, CommTypes
<1>1. comm' = [k \in CommHandlers |-> comm'[k]] /\ comm'[h] = to /\ \A k \in CommHandlers : k # h => comm'[k] = comm[k]
  BY <1>0
<1>2. ASSUME NEW k \in CommHandlers PROVE CommSound(k)'
  <2>1. CASE k = h
    BY <1>1, <2>1 DEF CommSound
  <2>2. CASE k # h
    <3>1. CommSound(k) /\ comm'[k] = comm[k]
      BY <1>1, <2>2 DEF CommInv
    <3> QED BY <3>1 DEF CommSound, RowFits
  <2> QED BY <2>1, <2>2
<1> QED BY <1>1, <1>2

\* The rows stay as they are.
LEMMA RowsStay ==
  ASSUME CommInv, UNCHANGED <<rows, texts>>, linked' \subseteq Phones, escalated' \subseteq Phones,
         contactSilo' \in [Phones -> Silos \cup {Nil}], appSilo' \in [Phones -> Silos \cup {Nil}],
         comm' = [k \in CommHandlers |-> comm'[k]], \A k \in CommHandlers : CommSound(k)'
  PROVE  CommInv'
<1>1. CommTypes'
  BY DEF CommInv, CommTypes
<1>2. \A i \in DOMAIN rows' : RowFits(rows[i])'
  BY DEF CommInv, RowFits
<1>3. StoredOnce'
  BY DEF CommInv, StoredOnce
<1> QED BY <1>1, <1>2, <1>3 DEF CommInv

\* The handlers do, too, when they read nothing.
LEMMA HandlersStay ==
  ASSUME CommInv, UNCHANGED <<texts, comm>>
  PROVE  comm' = [k \in CommHandlers |-> comm'[k]] /\ \A k \in CommHandlers : CommSound(k)'
<1>1. comm' = [k \in CommHandlers |-> comm'[k]]
  BY DEF CommInv, CommTypes
<1>2. ASSUME NEW k \in CommHandlers PROVE CommSound(k)'
  <2>1. CommSound(k)
    BY DEF CommInv
  <2> QED BY <2>1 DEF CommSound, RowFits
<1> QED BY <1>1, <1>2

\* Storing a text, an escalation, and the message about it.
LEMMA StoringKeeps ==
  ASSUME CommInv, NEW h \in CommHandlers, StoreText(h) \/ StoreEscalation(h) \/ TellStaff(h)
  PROVE  CommInv'
<1>t. /\ linked \subseteq Phones /\ escalated \subseteq Phones /\ CommSound(h)
      /\ contactSilo \in [Phones -> Silos \cup {Nil}] /\ appSilo \in [Phones -> Silos \cup {Nil}]
  BY DEF CommInv, CommTypes
<1>i. CommIdle.at = "idle"
  BY DEF CommIdle
<1>1. CASE StoreText(h)
  <2>1. comm' = [comm EXCEPT ![h] = CommIdle] /\ UNCHANGED <<contactSilo, appSilo, linked, texts, escalated>>
    BY <1>1 DEF StoreText
  <2>2. comm' = [k \in CommHandlers |-> comm'[k]] /\ \A k \in CommHandlers : CommSound(k)'
    BY <1>i, <2>1, HandlerEnds
  <2>3. CASE UNCHANGED rows
    BY <1>t, <2>1, <2>2, <2>3, RowsStay
  <2>4. CASE ~Stored(comm[h].row.sid) /\ Insert(comm[h].row)
    <3>1. PICK r \in CommRow : r = comm[h].row /\ RowFits(r)
      BY <1>t, <1>1 DEF StoreText, CommSound
    <3>2. Insert(r) /\ ~Stored(r.sid)
      BY <2>4, <3>1
    <3> QED BY <1>t, <2>1, <2>2, <3>1, <3>2, InsertKeeps
  <2> QED BY <1>1, <2>3, <2>4 DEF StoreText
<1>2. CASE StoreEscalation(h)
  <2>1. comm[h] \in [at : {"escalate", "tell"}, phone : Phones]
    BY <1>t, <1>2 DEF StoreEscalation, CommSound
  <2>2. PICK p \in Phones : p = comm[h].phone
    BY <2>1
  <2>3. UNCHANGED <<contactSilo, appSilo, linked, rows, texts>> /\ escalated' \subseteq Phones
    BY <1>t, <1>2, <2>2 DEF StoreEscalation
  <2>4. PICK told : told = [comm[h] EXCEPT !.at = "tell"]
    OBVIOUS
  <2>5. told \in [at : {"escalate", "tell"}, phone : Phones] /\ told.at = "tell"
    BY <2>1, <2>4
  <2>6. PICK to : to = IF appSilo[p] = Nil THEN CommIdle ELSE told
    OBVIOUS
  <2>7. comm' = [comm EXCEPT ![h] = to]
    BY <1>2, <2>2, <2>4, <2>6 DEF StoreEscalation
  <2>8. to.at \in {"idle", "tell"} /\ (to.at = "tell" => to \in [at : {"escalate", "tell"}, phone : Phones])
    BY <1>i, <2>5, <2>6
  <2>9. comm' = [k \in CommHandlers |-> comm'[k]] /\ \A k \in CommHandlers : CommSound(k)'
    BY <2>3, <2>7, <2>8, HandlerEnds
  <2> QED BY <1>t, <2>3, <2>9, RowsStay
<1>3. CASE TellStaff(h)
  <2>1. comm' = [comm EXCEPT ![h] = CommIdle] /\ UNCHANGED <<contactSilo, appSilo, linked, texts, escalated>>
    BY <1>3 DEF TellStaff
  <2>2. comm' = [k \in CommHandlers |-> comm'[k]] /\ \A k \in CommHandlers : CommSound(k)'
    BY <1>i, <2>1, HandlerEnds
  <2>3. CASE UNCHANGED rows
    BY <1>t, <2>1, <2>2, <2>3, RowsStay
  <2>4. ASSUME NEW silo \in Silos, Insert(AppRow("message", AppContact(comm[h].phone), comm[h].phone, silo))
        PROVE  CommInv'
    <3>1. PICK p \in Phones, contact \in Phones \cup {Nil} : p = comm[h].phone /\ contact = AppContact(p)
      BY <1>t, <1>3 DEF TellStaff, CommSound, AppContact
    <3>2. PICK r : r = AppRow("message", contact, p, silo)
      OBVIOUS
    <3>3. r \in CommRow /\ r.sid = 0 /\ r.type # "sms"
      BY <3>2, AppRowIs
    <3>4. Insert(r) /\ RowFits(r)
      BY <2>4, <3>1, <3>2, <3>3 DEF RowFits
    <3> QED BY <1>t, <2>1, <2>2, <3>3, <3>4, InsertKeeps
  <2> QED BY <1>3, <2>3, <2>4 DEF TellStaff
<1> QED BY <1>1, <1>2, <1>3

\* In-app messages and hand-offs.
LEMMA MessagesKeep ==
  ASSUME CommInv,
         \/ \E p \in Phones : ClientMessage(p) \/ StaffMessage(p) \/ RejectionMessage(p) \/ HandoffMessage(p) \/ PostMessage(p)
         \/ \E silo \in Silos : MayaHandoff(silo)
  PROVE  CommInv'
<1>t. /\ linked \subseteq Phones /\ escalated \subseteq Phones
      /\ contactSilo \in [Phones -> Silos \cup {Nil}] /\ appSilo \in [Phones -> Silos \cup {Nil}]
  BY DEF CommInv, CommTypes
<1>0. ASSUME NEW type \in {"message", "maya_handoff"}, NEW contact \in Phones \cup {Nil},
             NEW a \in Phones \cup {Nil}, NEW silo \in Silos,
             AppMessage(AppRow(type, contact, a, silo))
      PROVE  CommInv'
  <2>1. PICK r : r = AppRow(type, contact, a, silo)
    OBVIOUS
  <2>2. r \in CommRow /\ r.sid = 0 /\ r.type # "sms"
    BY <2>1, AppRowIs
  <2>3. Insert(r) /\ UNCHANGED <<contactSilo, appSilo, linked, texts, comm, escalated>> /\ RowFits(r)
    BY <1>0, <2>1, <2>2 DEF AppMessage, RowFits
  <2>4. comm' = [k \in CommHandlers |-> comm'[k]] /\ \A k \in CommHandlers : CommSound(k)'
    BY <2>3, HandlersStay
  <2> QED BY <1>t, <2>2, <2>3, <2>4, InsertKeeps
<1>1. ASSUME NEW p \in Phones, ClientMessage(p) \/ RejectionMessage(p) \/ HandoffMessage(p) PROVE CommInv'
  <2>1. PICK contact \in Phones \cup {Nil}, silo \in Silos : contact = AppContact(p) /\ silo = AppSiloOrBF(p)
    BY <1>t DEF AppContact, AppSiloOrBF, Silos
  <2>2. AppMessage(AppRow("message", contact, p, silo))
    BY <1>1, <2>1 DEF ClientMessage, RejectionMessage, HandoffMessage
  <2> QED BY <1>0, <2>2
<1>2. ASSUME NEW p \in Phones, StaffMessage(p) PROVE CommInv'
  <2>1. PICK u \in CommStaff, requested \in Silos : AppMessage(AppRow("message", AppContact(p), p, ResolveSilo(u, requested)))
    BY <1>2 DEF StaffMessage
  <2>2. AppContact(p) \in Phones \cup {Nil} /\ ResolveSilo(u, requested) \in Silos
    BY SiloIs DEF AppContact
  <2> QED BY <1>0, <2>1, <2>2
<1>3. ASSUME NEW p \in Phones, PostMessage(p) PROVE CommInv'
  <2>1. PICK contact \in Phones \cup {Nil} : AppMessage(AppRow("message", contact, p, "BF"))
    BY <1>3 DEF PostMessage
  <2> QED BY <1>0, <2>1 DEF Silos
<1>4. ASSUME NEW silo \in Silos, MayaHandoff(silo) PROVE CommInv'
  <2>1. AppMessage(AppRow("maya_handoff", Nil, Nil, silo))
    BY <1>4 DEF MayaHandoff, AppMessage
  <2> QED BY <1>0, <2>1
<1> QED BY <1>1, <1>2, <1>3, <1>4

\* Contacts and applications come and go; a deleted contact leaves its rows to
\* its number.
LEMMA ContactsKeep ==
  ASSUME CommInv, NEW p \in Phones, ContactAppears(p) \/ ContactDeleted(p) \/ ApplicationAppears(p)
  PROVE  CommInv'
<1>t. /\ linked \subseteq Phones /\ escalated \subseteq Phones
      /\ contactSilo \in [Phones -> Silos \cup {Nil}] /\ appSilo \in [Phones -> Silos \cup {Nil}]
      /\ rows \in Seq(CommRow) /\ Len(rows) <= MaxCommRows
  BY DEF CommInv, CommTypes
<1>u. UNCHANGED <<texts, comm, escalated>>
  BY DEF ContactAppears, ContactDeleted, ApplicationAppears
<1>h. comm' = [k \in CommHandlers |-> comm'[k]] /\ \A k \in CommHandlers : CommSound(k)'
  BY <1>u, HandlersStay
<1>1. CASE ContactAppears(p) \/ ApplicationAppears(p)
  <2>1. /\ contactSilo' \in [Phones -> Silos \cup {Nil}] /\ appSilo' \in [Phones -> Silos \cup {Nil}]
        /\ linked' \subseteq Phones /\ UNCHANGED rows
    BY <1>t, <1>1 DEF ContactAppears, ApplicationAppears
  <2> QED BY <1>t, <1>u, <1>h, <2>1, RowsStay
<1>2. CASE ContactDeleted(p)
  <2>1. /\ contactSilo' \in [Phones -> Silos \cup {Nil}] /\ appSilo' = appSilo /\ linked' \subseteq Phones
    BY <1>t, <1>2 DEF ContactDeleted
  <2>2. rows' = [i \in DOMAIN rows |-> IF rows[i].contact = p THEN [rows[i] EXCEPT !.contact = Nil] ELSE rows[i]]
    BY <1>2 DEF ContactDeleted
  <2>3. PICK n \in Nat : n = Len(rows) /\ DOMAIN rows = 1..n /\ \A i \in 1..n : rows[i] \in CommRow
    BY <1>t
  <2>4. ASSUME NEW i \in 1..n
        PROVE  /\ rows'[i] \in CommRow /\ rows'[i].sid = rows[i].sid /\ rows'[i].type = rows[i].type
               /\ rows'[i].from = rows[i].from /\ rows'[i].to = rows[i].to /\ rows'[i].silo = rows[i].silo
               /\ rows'[i].contact \in {Nil, rows[i].contact}
    <3>1. PICK r \in CommRow : r = rows[i]
      BY <2>3
    <3>n. PICK new : new = [r EXCEPT !.contact = Nil]
      OBVIOUS
    <3>2. /\ new \in CommRow /\ new.sid = r.sid /\ new.type = r.type /\ new.from = r.from /\ new.to = r.to
          /\ new.silo = r.silo /\ new.contact = Nil
      BY <3>n DEF CommRow
    <3>3. rows'[i] = new \/ rows'[i] = r
      BY <2>2, <2>3, <3>1, <3>n
    <3> QED BY <3>1, <3>2, <3>3
  <2>5. rows' \in [1..n -> CommRow]
    <3>1. DOMAIN rows' = 1..n /\ rows' = [i \in 1..n |-> rows'[i]]
      BY <2>2, <2>3
    <3> QED BY <2>4, <3>1
  <2>6. rows' \in Seq(CommRow) /\ Len(rows') = n /\ DOMAIN rows' = 1..n
    <3>1. rows' \in Seq(CommRow)
      BY <2>5, IsASeq
    <3> QED BY <2>5, <3>1, LenProperties
  <2>7. CommTypes'
    BY <1>t, <1>u, <1>h, <2>1, <2>3, <2>6 DEF CommInv, CommTypes
  <2>8. ASSUME NEW i \in DOMAIN rows' PROVE RowFits(rows[i])'
    <3>1. i \in 1..n /\ RowFits(rows[i])
      BY <2>3, <2>6 DEF CommInv
    <3> QED BY <1>u, <2>4, <3>1 DEF RowFits
  <2>9. StoredOnce'
    <3>1. \A i, j \in 1..n : rows[i].sid # 0 /\ rows[i].sid = rows[j].sid => i = j
      BY <2>3 DEF CommInv, StoredOnce
    <3> QED BY <2>4, <2>6, <3>1 DEF StoredOnce
  <2> QED BY <1>h, <2>7, <2>8, <2>9 DEF CommInv
<1> QED BY <1>1, <1>2

\* Every step of the communications preserves the invariant.
LEMMA CommKeeps == CommInv /\ [CommNext]_commVars => CommInv'
<1> SUFFICES ASSUME CommInv, [CommNext]_commVars PROVE CommInv'
  OBVIOUS
<1>1. CASE \E h \in CommHandlers : PostSms(h) \/ SendDocumentRejectionSms(h) \/ TwilioSends(h) \/ \E p \in Phones : Escalate(h, p)
  BY <1>1, SendingKeeps
<1>2. CASE \E h \in CommHandlers : DeliverInbound(h)
  BY <1>2, InboundKeeps
<1>3. CASE \E h \in CommHandlers : StoreText(h) \/ StoreEscalation(h) \/ TellStaff(h)
  BY <1>3, StoringKeeps
<1>4. CASE \/ \E p \in Phones : ClientMessage(p) \/ StaffMessage(p) \/ RejectionMessage(p) \/ HandoffMessage(p) \/ PostMessage(p)
           \/ \E silo \in Silos : MayaHandoff(silo)
  BY <1>4, MessagesKeep
<1>5. CASE \E p \in Phones : ContactAppears(p) \/ ContactDeleted(p) \/ ApplicationAppears(p)
  BY <1>5, ContactsKeep
<1>6. CASE \E p \in Phones : ClientTexts(p)
  BY <1>6, ClientTextKeeps
<1>7. CASE UNCHANGED commVars
  <2>1. UNCHANGED <<contactSilo, appSilo, linked, rows, texts, comm, escalated>>
    BY <1>7 DEF commVars
  <2>2. comm' = [k \in CommHandlers |-> comm'[k]] /\ \A k \in CommHandlers : CommSound(k)'
    BY <2>1, HandlersStay
  <2> QED BY <2>1, <2>2, RowsStay DEF CommInv, CommTypes
<1> QED BY <1>1, <1>2, <1>3, <1>4, <1>5, <1>6, <1>7 DEF CommNext

\* A thread opens a row, or as many earlier rows exist as it holds; a timeline a
\* row, or as many later ones.
LEMMA OpensOldest ==
  ASSUME CommInv, NEW S, NEW T, S \subseteq T, T \subseteq DOMAIN rows, NEW i \in S, NEW n \in Nat
  PROVE  (i \in Oldest(S, n) \/ Before(T, i) >= n) /\ (i \in Newest(S, n) \/ After(T, i) >= n)
<1>1. PICK len \in Nat : DOMAIN rows = 1..len
  BY DEF CommInv, CommTypes
<1>2. IsFiniteSet(1..len)
  BY FS_Interval
<1>3. ASSUME NEW A, NEW B, A \subseteq B, B \subseteq 1..len
      PROVE  Cardinality(A) \in Nat /\ Cardinality(B) \in Nat /\ Cardinality(A) <= Cardinality(B)
  <2>1. IsFiniteSet(B)
    BY <1>2, <1>3, FS_Subset
  <2> QED BY <1>3, <2>1, FS_Subset, FS_CardinalityType
<1>4. i \in Oldest(S, n) \/ Before(T, i) >= n
  <2>1. PICK A, B : A = {j \in S : j < i} /\ B = {j \in T : j < i}
    OBVIOUS
  <2>2. Cardinality(A) \in Nat /\ Cardinality(B) \in Nat /\ Cardinality(A) <= Cardinality(B)
    BY <1>1, <1>3, <2>1
  <2>3. Cardinality(A) < n \/ Cardinality(B) >= n
    BY <2>2
  <2> QED BY <2>1, <2>3 DEF Oldest, Before
<1>5. i \in Newest(S, n) \/ After(T, i) >= n
  <2>1. PICK A, B : A = {j \in S : j > i} /\ B = {j \in T : j > i}
    OBVIOUS
  <2>2. Cardinality(A) \in Nat /\ Cardinality(B) \in Nat /\ Cardinality(A) <= Cardinality(B)
    BY <1>1, <1>3, <2>1
  <2>3. Cardinality(A) < n \/ Cardinality(B) >= n
    BY <2>2
  <2> QED BY <2>1, <2>3 DEF Newest, After
<1> QED BY <1>4, <1>5

\* What is stored of a text can be read where it belongs, within the limits.
LEMMA CommInvImplies == CommInv => CommTypeOK /\ MessagesAreReachable
<1> SUFFICES ASSUME CommInv PROVE CommTypeOK /\ MessagesAreReachable
  OBVIOUS
<1>1. CommTypeOK
  BY DEF CommInv, CommTypes, CommTypeOK
<1>n. ThreadLimit \in Nat /\ ClientLimit \in Nat /\ TimelineLimit \in Nat
  BY CommAssumption
<1>s. ASSUME NEW i \in DOMAIN rows, NEW p \in {rows[i].from, rows[i].to}, rows[i].type = "sms"
      PROVE  InSmsTab(i, rows[i].silo, p)
  <2>1. PICK silo, contact, number :
          silo = rows[i].silo /\ contact = rows[i].contact /\ number = IF contact # Nil THEN contact ELSE p
    OBVIOUS
  <2>2. PICK S : S = {j \in DOMAIN rows : /\ rows[j].silo = silo /\ rows[j].type = "sms"
                                          /\ IF contact # Nil THEN rows[j].contact = contact
                                             ELSE rows[j].contact = Nil /\ number \in {rows[j].from, rows[j].to}}
    OBVIOUS
  <2>3. i \in S
    BY <1>s, <2>1, <2>2
  <2>4. ASSUME NEW j \in S PROVE j \in Exchanged(number)
    <3>1. rows[j].type = "sms" /\ j \in DOMAIN rows
      BY <2>2
    <3>2. rows[j].contact \in {Nil, rows[j].from, rows[j].to}
      BY <3>1 DEF CommInv, RowFits
    <3> QED BY <2>1, <2>2, <3>1, <3>2 DEF Exchanged
  <2>5. S \subseteq Exchanged(number) /\ Exchanged(number) \subseteq DOMAIN rows
    BY <2>4 DEF Exchanged
  <2>6. i \in Oldest(S, ThreadLimit) \/ Before(Exchanged(number), i) >= ThreadLimit
    BY <1>n, <2>3, <2>5, OpensOldest
  <2>7. i \in SmsThread(silo, contact, number) \/ Before(Exchanged(number), i) >= ThreadLimit
    BY <2>2, <2>6 DEF SmsThread, RowsWhere
  <2> QED BY <2>1, <2>7 DEF InSmsTab
<1>2. ASSUME NEW t \in DOMAIN texts, NEW i \in DOMAIN rows, rows[i].sid = t
      PROVE  LET silo == IF texts[t].dir = "outbound" THEN texts[t].seen ELSE rows[i].silo
             IN  /\ InSmsTab(i, silo, texts[t].phone)
                 /\ \/ i \in Timeline(silo, texts[t].phone)
                    \/ After(Exchanged(texts[t].phone), i) >= TimelineLimit
  <2>1. t # 0 /\ RowFits(rows[i])
    <3>1. texts \in Seq(TextRow)
      BY DEF CommInv, CommTypes
    <3>2. t # 0
      BY <3>1
    <3> QED BY <3>2 DEF CommInv
  <2>2. PICK silo, p : silo = (IF texts[t].dir = "outbound" THEN texts[t].seen ELSE rows[i].silo) /\ p = texts[t].phone
    OBVIOUS
  <2>3. silo = rows[i].silo /\ rows[i].type = "sms" /\ p \in {rows[i].from, rows[i].to}
    BY <1>2, <2>1, <2>2 DEF RowFits
  <2>4. i \in Timeline(silo, p) \/ After(Exchanged(p), i) >= TimelineLimit
    <3>1. PICK S : S = {j \in DOMAIN rows : rows[j].silo = silo /\ p \in {rows[j].from, rows[j].to}}
      OBVIOUS
    <3>2. i \in S /\ S \subseteq Exchanged(p) /\ Exchanged(p) \subseteq DOMAIN rows
      BY <2>3, <3>1 DEF Exchanged
    <3>3. i \in Newest(S, TimelineLimit) \/ After(Exchanged(p), i) >= TimelineLimit
      BY <1>n, <3>2, OpensOldest
    <3> QED BY <3>1, <3>3 DEF Timeline, RowsWhere
  <2>5. InSmsTab(i, silo, p)
    BY <1>s, <2>3
  <2> QED BY <2>2, <2>4, <2>5
<1>3. ASSUME NEW t \in DOMAIN texts, NEW i \in DOMAIN rows, NEW j \in DOMAIN rows, rows[i].sid = t, rows[j].sid = t
      PROVE  i = j
  <2>1. texts \in Seq(TextRow)
    BY DEF CommInv, CommTypes
  <2>2. t # 0
    BY <2>1
  <2> QED BY <1>3, <2>2 DEF CommInv, StoredOnce
<1>4. ASSUME NEW i \in DOMAIN rows, rows[i].type = "message" PROVE InMessagesTab(i)
  <2>1. PICK silo, a : silo = rows[i].silo /\ a = rows[i].app
    OBVIOUS
  <2>2. rows[i].contact # Nil => i \in ContactMessages(silo, rows[i].contact)
    BY <1>4, <2>1 DEF ContactMessages, RowsWhere
  <2>3. /\ i \in AppThread(a) \/ Before(OfApp(a), i) >= ThreadLimit
        /\ i \in ClientThread(a) \/ Before(OfApp(a), i) >= ClientLimit
    <3>1. PICK S : S = {j \in DOMAIN rows : rows[j].app = a}
      OBVIOUS
    <3>2. i \in S /\ S = OfApp(a) /\ S \subseteq DOMAIN rows
      BY <2>1, <3>1 DEF OfApp
    <3>3. /\ i \in Oldest(S, ThreadLimit) \/ Before(OfApp(a), i) >= ThreadLimit
          /\ i \in Oldest(S, ClientLimit) \/ Before(OfApp(a), i) >= ClientLimit
      BY <1>n, <3>2, OpensOldest
    <3> QED BY <3>1, <3>3 DEF AppThread, ClientThread, RowsWhere
  <2> QED BY <2>1, <2>2, <2>3 DEF InMessagesTab
<1> QED BY <1>1, <1>2, <1>3, <1>4 DEF MessagesAreReachable

-----------------------------------------------------------------------------
(* Credit summary.                                                           *)

\* The row has a version once it is there.
CreditRowSound ==
  creditRow = NoSummary \/ (creditRow.version \in 1 .. MaxVersion /\ creditRow.status \in {"draft", "submitted"})

Submitted == creditRow # NoSummary /\ creditRow.status = "submitted"

\* Each version of the summary is with its request, or in the history, or lost,
\* and is in the history once.
VersionsAreSound ==
  /\ \A v \in history : v.version \in 1 .. CurrentVersion /\ v.reason \in Reasons
  /\ \A v \in history : v.reason = "submitted" => Submitted

\* What a request is about to append has a number of its own, and says what the
\* row says if it is the newest.
AuthorSound(a) ==
  /\ author[a].at = "upsert" => author[a].reason \in Reasons
  /\ author[a].at = "append" =>
       /\ author[a].version \in 1 .. CurrentVersion /\ author[a].reason \in Reasons
       /\ author[a].reason = "submitted" => Submitted
       /\ author[a].version = CurrentVersion =>
            author[a].sections = creditRow.sections /\ author[a].inputs = creditRow.inputs
       /\ \A v \in history : v.version # author[a].version
       /\ \A b \in Authors : author[b].at = "append" /\ author[b].version = author[a].version => b = a
  /\ author[a].at = "stamp" => Submitted /\ \E v \in history : v.reason = "submitted"

CreditInv ==
  /\ DOMAIN author = Authors /\ stamped \in BOOLEAN
  /\ CreditRowSound /\ VersionsAreSound /\ HistoryIsComplete /\ StampIsBacked
  /\ \A a \in Authors : AuthorSound(a)

\* There is no summary at the start.
LEMMA CreditStarts == CreditInit => CreditInv
<1> SUFFICES ASSUME CreditInit PROVE CreditInv
  OBVIOUS
<1>1. CreditRowSound /\ VersionsAreSound /\ StampIsBacked /\ HistoryIsComplete
  BY DEF CreditInit, CreditRowSound, VersionsAreSound, StampIsBacked, HistoryIsComplete, CurrentVersion, NoSummary
<1> QED BY <1>1 DEF CreditInit, CreditInv, AuthorSound, AuthorIdle

\* A step of a request that leaves the row and the history alone.
LEMMA AuthorMoves ==
  ASSUME CreditInv, NEW a \in Authors, NEW r, author' = [author EXCEPT ![a] = r],
         UNCHANGED <<creditRow, history>>, stamped' \in BOOLEAN, failed \subseteq failed',
         r.at # "append", author[a].at = "append" => author[a].version \in failed',
         r.at = "upsert" => r.reason \in Reasons,
         r.at = "stamp" => author[a].at = "stamp",
         stamped' => stamped \/ author[a].at = "stamp"
  PROVE  CreditInv'
<1>1. DOMAIN author' = Authors /\ author'[a] = r /\ \A b \in Authors : b # a => author'[b] = author[b]
  BY DEF CreditInv
<1>2. CreditRowSound' /\ VersionsAreSound'
  BY DEF CreditInv, CreditRowSound, VersionsAreSound, Submitted, CurrentVersion
<1>3. \A b \in Authors : AuthorSound(b)'
  BY <1>1 DEF CreditInv, AuthorSound, Submitted, CurrentVersion
<1>4. HistoryIsComplete'
  <2>1. \A n \in InProgress : n \in InProgress' \cup failed'
    BY <1>1 DEF InProgress
  <2> QED BY <2>1 DEF CreditInv, HistoryIsComplete, CurrentVersion
<1>5. StampIsBacked'
  BY DEF CreditInv, AuthorSound, Submitted, StampIsBacked
<1> QED BY <1>1, <1>2, <1>3, <1>4, <1>5 DEF CreditInv

\* Plan as a record.
LEMMA PlanMoves ==
  ASSUME CreditInv, NEW a \in Authors, NEW s, NEW in, NEW reason \in Reasons, Plan(a, s, in, reason),
         UNCHANGED <<creditRow, history, stamped, failed>>, author[a].at \in {"idle", "load"}
  PROVE  CreditInv'
<1> DEFINE r == [at |-> "upsert", sections |-> s, inputs |-> in, reason |-> reason]
<1>1. author' = [author EXCEPT ![a] = r]
  BY DEF Plan
<1>2. r.at = "upsert" /\ r.reason \in Reasons
  OBVIOUS
<1> HIDE DEF r
<1> QED BY <1>1, <1>2, AuthorMoves DEF CreditInv

\* A request writes the row and takes the next version for its own.
LEMMA UpsertKeeps ==
  ASSUME CreditInv, NEW a \in Authors, Upsert(a)
  PROVE  CreditInv'
<1> DEFINE n == creditRow.version + 1
           row == [sections |-> author[a].sections, inputs |-> author[a].inputs, version |-> n,
                   status |-> NextStatus(creditRow, author[a].reason)]
           r == [at |-> "append", version |-> n, sections |-> author[a].sections,
                 inputs |-> author[a].inputs, reason |-> author[a].reason]
<1>1. /\ author[a].at = "upsert" /\ creditRow.version < MaxVersion /\ creditRow' = row
      /\ author' = [author EXCEPT ![a] = r] /\ UNCHANGED <<history, stamped, failed>>
  BY DEF Upsert, CurrentVersion
<1>2. n \in 1 .. MaxVersion /\ creditRow.version \in Nat /\ n = creditRow.version + 1
  BY <1>1, CreditAssumption DEF CreditInv, CreditRowSound, NoSummary
<1>3. author[a].reason \in Reasons
  BY <1>1 DEF CreditInv, AuthorSound
<1>4. /\ row.version = n /\ row.status \in {"draft", "submitted"} /\ row.sections = r.sections /\ row.inputs = r.inputs
      /\ (Submitted \/ author[a].reason = "submitted" => row.status = "submitted")
  BY <1>3 DEF CreditInv, CreditRowSound, NextStatus, Submitted
<1>5. r.at = "append" /\ r.version = n /\ r.reason = author[a].reason
  OBVIOUS
<1>6. row # NoSummary
  BY <1>2 DEF NoSummary
<1> HIDE DEF row, r, n
<1>7. DOMAIN author' = Authors /\ author'[a] = r /\ \A b \in Authors : b # a => author'[b] = author[b]
  BY <1>1 DEF CreditInv
<1>8. CreditRowSound' /\ CurrentVersion' = n /\ CurrentVersion = creditRow.version
  BY <1>1, <1>2, <1>4 DEF CreditRowSound, CurrentVersion
<1>9. Submitted => Submitted'
  BY <1>1, <1>4, <1>6 DEF Submitted
<1>10. VersionsAreSound'
  BY <1>1, <1>2, <1>8, <1>9 DEF CreditInv, VersionsAreSound
<1>11. \A v \in history : v.version \in Int /\ v.version < n
  BY <1>2, <1>8 DEF CreditInv, VersionsAreSound
<1>12. HistoryIsComplete'
  <2>1. n \in InProgress' /\ \A m \in InProgress : m \in InProgress'
    BY <1>1, <1>5, <1>7 DEF InProgress
  <2>2. \A m \in 1 .. n : m = n \/ m \in 1 .. creditRow.version
    BY <1>2
  <2>3. \A v \in history' : v.version # n
    BY <1>1, <1>11, <1>2
  <2> QED BY <1>1, <1>8, <2>1, <2>2, <2>3 DEF CreditInv, HistoryIsComplete
<1>13. \A b \in Authors : AuthorSound(b)'
  <2>1. AuthorSound(a)'
    <3>1. \A b \in Authors : b # a /\ author'[b].at = "append" => author'[b].version # n
      BY <1>2, <1>7, <1>8 DEF CreditInv, AuthorSound
    <3>2. r.reason = "submitted" => Submitted'
      BY <1>1, <1>4, <1>5, <1>6 DEF Submitted
    <3> QED
      BY <1>1, <1>2, <1>3, <1>4, <1>5, <1>7, <1>8, <1>11, <3>1, <3>2 DEF AuthorSound
  <2>2. ASSUME NEW b \in Authors, b # a PROVE AuthorSound(b)'
    <3>1. author'[b] = author[b] /\ AuthorSound(b)
      BY <1>7, <2>2 DEF CreditInv
    <3>2. author[b].at = "append" => author[b].version \in Int /\ author[b].version < n /\ author[b].version \in 1 .. n
      BY <1>2, <1>8, <3>1 DEF AuthorSound
    <3> QED BY <1>1, <1>2, <1>5, <1>7, <1>8, <1>9, <3>1, <3>2 DEF AuthorSound
  <2> QED BY <2>1, <2>2
<1>14. StampIsBacked'
  BY <1>1, <1>9 DEF CreditInv, StampIsBacked, Submitted
<1> QED BY <1>1, <1>7, <1>8, <1>10, <1>12, <1>13, <1>14 DEF CreditInv

\* A request appends its version to the history.
LEMMA AppendKeeps ==
  ASSUME CreditInv, NEW a \in Authors, AppendVersion(a)
  PROVE  CreditInv'
<1> DEFINE v == [version |-> author[a].version, sections |-> author[a].sections,
                 inputs |-> author[a].inputs, reason |-> author[a].reason]
           r == IF author[a].reason = "submitted" THEN [at |-> "stamp"] ELSE AuthorIdle
<1>1. /\ author[a].at = "append" /\ history' = history \cup {v}
      /\ author' = [author EXCEPT ![a] = r] /\ UNCHANGED <<creditRow, stamped, failed>>
  BY DEF AppendVersion, VersionNumber
<1>2. /\ v.version = author[a].version /\ v.sections = author[a].sections /\ v.inputs = author[a].inputs
      /\ v.reason = author[a].reason /\ r.at \in {"idle", "stamp"}
      /\ r.at = "stamp" => v.reason = "submitted"
  BY DEF AuthorIdle
<1> HIDE DEF v, r
<1>3. DOMAIN author' = Authors /\ author'[a] = r /\ \A b \in Authors : b # a => author'[b] = author[b]
  BY <1>1 DEF CreditInv
<1>4. AuthorSound(a)
  BY DEF CreditInv
<1>5. CreditRowSound' /\ VersionsAreSound'
  BY <1>1, <1>2, <1>4 DEF CreditInv, CreditRowSound, VersionsAreSound, AuthorSound, Submitted, CurrentVersion
<1>6. HistoryIsComplete'
  <2>1. \A m \in InProgress : m \in InProgress' \/ m = v.version
    BY <1>1, <1>2, <1>3 DEF InProgress
  <2>2. \A w, x \in history' : w.version = x.version => w = x
    BY <1>1, <1>2, <1>4 DEF CreditInv, HistoryIsComplete, AuthorSound
  <2> QED BY <1>1, <1>2, <1>4, <2>1, <2>2 DEF CreditInv, HistoryIsComplete, AuthorSound, CurrentVersion
<1>7. \A b \in Authors : AuthorSound(b)'
  BY <1>1, <1>2, <1>3, <1>4 DEF CreditInv, AuthorSound, Submitted, CurrentVersion
<1>8. StampIsBacked'
  BY <1>1 DEF CreditInv, StampIsBacked
<1> QED BY <1>1, <1>3, <1>5, <1>6, <1>7, <1>8 DEF CreditInv

\* Every step of the credit summary preserves the invariant.
LEMMA CreditKeeps == CreditInv /\ [CreditNext]_creditVars => CreditInv'
<1> SUFFICES ASSUME CreditInv, [CreditNext]_creditVars PROVE CreditInv'
  OBVIOUS
<1>r. {"generated", "edited", "submitted"} \subseteq Reasons
  BY DEF Reasons
<1>1. ASSUME NEW a \in Authors, GetSummary(a) \/ SaveSummary(a) \/ Regenerate(a) PROVE CreditInv'
  <2>1. /\ UNCHANGED <<creditRow, history, stamped, failed>> /\ author[a].at = "idle"
        /\ \E s, in : \E reason \in Reasons : Plan(a, s, in, reason)
    BY <1>1, <1>r DEF GetSummary, SaveSummary, Regenerate, Reads, AuthorIdle
  <2> QED BY <2>1, PlanMoves
<1>2. ASSUME NEW a \in Authors, SubmitSummary(a) PROVE CreditInv'
  <2> DEFINE r == [at |-> "load", sections |-> creditRow.sections]
  <2>1. /\ author' = [author EXCEPT ![a] = r] /\ UNCHANGED <<creditRow, history, stamped, failed>>
        /\ author[a].at = "idle" /\ r.at = "load"
    BY <1>2 DEF SubmitSummary, Reads, AuthorIdle
  <2> HIDE DEF r
  <2> QED BY <2>1, AuthorMoves DEF CreditInv
<1>3. ASSUME NEW a \in Authors, LoadForSubmit(a) PROVE CreditInv'
  BY <1>3, <1>r, PlanMoves DEF LoadForSubmit
<1>4. ASSUME NEW a \in Authors, AppendFails(a) \/ Stamp(a) PROVE CreditInv'
  <2>1. /\ author' = [author EXCEPT ![a] = AuthorIdle] /\ UNCHANGED <<creditRow, history>>
        /\ AuthorIdle.at = "idle" /\ failed \subseteq failed' /\ stamped' \in BOOLEAN
        /\ author[a].at = "append" => author[a].version \in failed'
        /\ stamped' => stamped \/ author[a].at = "stamp"
    <3>1. CASE AppendFails(a)
      BY <3>1 DEF AppendFails, AuthorIdle, CreditInv
    <3>2. CASE Stamp(a)
      <4>1. author[a].at = "stamp" /\ (stamped' = TRUE \/ stamped' = stamped)
        BY <3>2 DEF Stamp
      <4> QED BY <3>2, <4>1 DEF Stamp, AuthorIdle, CreditInv
    <3> QED BY <1>4, <3>1, <3>2
  <2> QED BY <2>1, AuthorMoves
<1>5. CASE FileGrows \/ UNCHANGED creditVars
  <2>1. UNCHANGED <<creditRow, history, stamped, author, failed>>
    BY <1>5 DEF FileGrows, creditVars
  <2> QED
    BY <2>1 DEF CreditInv, CreditRowSound, VersionsAreSound, HistoryIsComplete, StampIsBacked, AuthorSound,
       Submitted, CurrentVersion, InProgress
<1> QED BY <1>1, <1>2, <1>3, <1>4, <1>5, UpsertKeeps, AppendKeeps DEF CreditNext

\* The invariant implies what the run checks.
LEMMA CreditInvImplies == CreditInv => CreditTypeOK /\ HistoryIsComplete /\ StampIsBacked
<1> SUFFICES ASSUME CreditInv PROVE CreditTypeOK
  BY DEF CreditInv
<1>1. CurrentVersion \in 0 .. MaxVersion
  BY CreditAssumption DEF CreditInv, CreditRowSound, CurrentVersion, NoSummary
<1>2. \A v \in history : v.version \in 1 .. MaxVersion /\ v.reason \in Reasons
  BY <1>1, CreditAssumption DEF CreditInv, VersionsAreSound
<1> QED BY <1>1, <1>2 DEF CreditInv, CreditRowSound, CreditTypeOK

-----------------------------------------------------------------------------
(* Office 365.                                                               *)

DeskPlace == {"idle", "renew", "persist", "look", "lookAgain", "unknown", "act", "actAgain", "store",
              "mirror", "link", "update", "push", "unmirror"}
DeskType == [at: DeskPlace, kind: GraphKinds \cup {"none", "status", "refresh", "calendar"},
             token: 0 .. MaxIssued, canRefresh: BOOLEAN, ok: DeskPlace, no: DeskPlace,
             task: CalTasks \cup {"none"}, copy: TaskRows \cup {Unborn, Gone}, acted: {0, 1}]

\* Until its last fetch a request has had nothing done at Graph, and where it
\* goes after a renewal is a place before that fetch, or one that stores no mail.
DeskSound(r) ==
  /\ r.at \in {"renew", "persist", "look", "lookAgain", "unknown", "act", "actAgain"} => r.acted = 0
  /\ r.at \in {"renew", "persist"} =>
       /\ r.ok \in {"idle", "look", "lookAgain", "act", "actAgain"}
       /\ r.no \in {"idle", "look", "act", "unknown", "store"}
       /\ r.no = "store" => r.kind # "email"
  /\ r.at = "store" /\ r.kind = "email" => r.acted = 1
  /\ r.at \in {"mirror", "link", "update", "push", "unmirror"} => r.task \in CalTasks
  /\ r.at \in {"mirror", "link", "update", "push"} => r.copy \in TaskRows

\* A task keeps its link, and only the request that made it may still link it.
LinkSound ==
  /\ \A t \in everLinked : calTask[t] # Unborn /\ (InTable(t) => calTask[t].link)
  /\ \A h \in Tabs : desk[h].at \in {"mirror", "link"} =>
       /\ desk[h].task \notin everLinked
       /\ calTask[desk[h].task] # Unborn
       /\ \A g \in Tabs : desk[g].at \in {"mirror", "link"} /\ desk[g].task = desk[h].task => g = h
  /\ \A t \in CalTasks : InTable(t) /\ calTask[t].link => t \in everLinked

OfficeInv ==
  /\ OfficeTypeOK
  /\ desk \in [Tabs -> DeskType]
  /\ \A h \in Tabs : DeskSound(desk[h])
  /\ LinkSound /\ TodoFollowsTask

\* The types, as the steps below use them.
LEMMA OfficeTyped ==
  ASSUME OfficeInv
  PROVE  /\ o365 \in [access : 0 .. MaxIssued, refresh : BOOLEAN, current : 0 .. MaxIssued, legacy : 0 .. MaxIssued]
         /\ issued \in 0 .. MaxIssued /\ lapsed \in 0 .. issued
         /\ calTask \in [CalTasks -> TaskRows \cup {Unborn, Gone}]
         /\ todo \in [CalTasks -> TaskStatus \cup {"absent"}]
         /\ everLinked \subseteq CalTasks /\ spared \subseteq CalTasks
         /\ desk \in [Tabs -> DeskType]
         /\ Unborn # Gone /\ Unborn \notin TaskRows /\ Gone \notin TaskRows
         /\ Free \in DeskType /\ Free.at = "idle"
  BY OfficeAssumption DEF OfficeInv, OfficeTypeOK, Free, DeskType, DeskPlace, Unborn, Gone, TaskRows, TaskStatus

\* Nobody has connected an account at the start.
LEMMA OfficeStarts == OfficeInit => OfficeInv
<1> SUFFICES ASSUME OfficeInit PROVE OfficeInv
  OBVIOUS
<1> USE OfficeAssumption
<1>1. Free \in DeskType /\ Free.at = "idle" /\ Free.kind = "none"
  BY DEF Free, DeskType, DeskPlace
<1>2. desk \in [Tabs -> DeskType] /\ \A h \in Tabs : desk[h] = Free
  BY <1>1 DEF OfficeInit
<1>3. OfficeTypeOK
  BY <1>1, <1>2 DEF OfficeInit, OfficeTypeOK, TaskRows, Unborn, Gone
<1>4. LinkSound /\ TodoFollowsTask
  BY <1>1, <1>2 DEF OfficeInit, LinkSound, TodoFollowsTask, InTable, TaskRows, TaskStatus, Unborn
<1>5. \A h \in Tabs : DeskSound(desk[h])
  BY <1>1, <1>2 DEF DeskSound
<1> QED BY <1>2, <1>3, <1>4, <1>5 DEF OfficeInv

\* A step of one request that leaves the tasks alone.
LEMMA DeskMoves ==
  ASSUME OfficeInv, NEW h \in Tabs, NEW r \in DeskType, desk' = [desk EXCEPT ![h] = r], DeskSound(r),
         o365' \in [access : 0 .. MaxIssued, refresh : BOOLEAN, current : 0 .. MaxIssued, legacy : 0 .. MaxIssued],
         issued' \in 0 .. MaxIssued, lapsed' \in 0 .. issued',
         TasksStay, desk[h].at # "unmirror",
         r.at \notin {"mirror", "link"}
  PROVE  OfficeInv'
<1>1. desk' \in [Tabs -> DeskType] /\ desk'[h] = r /\ \A g \in Tabs : g # h => desk'[g] = desk[g]
  BY OfficeTyped
<1>2. UNCHANGED <<calTask, todo, everLinked, spared>>
  BY DEF TasksStay
<1>3. OfficeTypeOK'
  BY <1>1, <1>2, OfficeTyped DEF OfficeInv, OfficeTypeOK, DeskType
<1>4. LinkSound'
  BY <1>1, <1>2 DEF OfficeInv, LinkSound, InTable
<1>5. TodoFollowsTask'
  BY <1>1, <1>2 DEF OfficeInv, TodoFollowsTask
<1>6. \A g \in Tabs : DeskSound(desk'[g])
  BY <1>1 DEF OfficeInv
<1> QED BY <1>1, <1>3, <1>4, <1>5, <1>6 DEF OfficeInv

\* What the tokens are is left to their own steps.
LEMMA TokensTyped ==
  ASSUME OfficeInv, TokensStay
  PROVE  /\ o365' \in [access : 0 .. MaxIssued, refresh : BOOLEAN, current : 0 .. MaxIssued, legacy : 0 .. MaxIssued]
         /\ issued' \in 0 .. MaxIssued /\ lapsed' \in 0 .. issued'
  BY OfficeTyped DEF TokensStay

\* A request goes to a place in its Graph calls, or is over.
LEMMA GoesKeeps ==
  ASSUME OfficeInv, NEW h \in Tabs,
         NEW at \in {"idle", "look", "lookAgain", "act", "actAgain", "unknown", "store"}, Goes(h, at),
         at \notin {"idle", "store"} => desk[h].acted = 0,
         at = "store" /\ desk[h].kind = "email" => desk[h].acted = 1,
         o365' \in [access : 0 .. MaxIssued, refresh : BOOLEAN, current : 0 .. MaxIssued, legacy : 0 .. MaxIssued],
         issued' \in 0 .. MaxIssued, lapsed' \in 0 .. issued',
         TasksStay, desk[h].at # "unmirror"
  PROVE  OfficeInv'
<1> DEFINE s == [desk[h] EXCEPT !.at = at, !.ok = "idle", !.no = "idle"]
           r == IF at = "idle" THEN Free ELSE s
<1>0. desk[h] \in DeskType /\ "idle" \in DeskPlace /\ at \in DeskPlace
  BY OfficeTyped DEF DeskPlace
<1>1. s \in DeskType /\ s.at = at /\ s.kind = desk[h].kind /\ s.acted = desk[h].acted
  BY <1>0 DEF DeskType
<1>2. Free \in DeskType /\ Free.at = "idle" /\ DeskSound(Free)
  BY OfficeTyped DEF DeskSound
<1>3. desk' = [desk EXCEPT ![h] = r]
  BY DEF Goes
<1>4. at = "idle" \/ DeskSound(s)
  BY <1>1 DEF DeskSound
<1>5. r \in DeskType /\ DeskSound(r) /\ r.at \notin {"mirror", "link"}
  BY <1>1, <1>2, <1>4
<1> HIDE DEF r
<1> QED BY <1>3, <1>5, DeskMoves

\* The steps of the tokens that are no request's.
LEMMA TokenRoutesKeep ==
  ASSUME OfficeInv, Lapse \/ SaveTokens \/ ConnectMicrosoft
  PROVE  OfficeInv'
<1> USE OfficeAssumption
<1>t. /\ o365 \in [access : 0 .. MaxIssued, refresh : BOOLEAN, current : 0 .. MaxIssued, legacy : 0 .. MaxIssued]
      /\ issued \in 0 .. MaxIssued /\ lapsed \in 0 .. issued
  BY OfficeTyped
<1>1. UNCHANGED <<desk, calTask, todo, everLinked, spared>>
  BY DEF Lapse, SaveTokens, ConnectMicrosoft, TasksStay
<1>2. /\ o365' \in [access : 0 .. MaxIssued, refresh : BOOLEAN, current : 0 .. MaxIssued, legacy : 0 .. MaxIssued]
      /\ issued' \in 0 .. MaxIssued /\ lapsed' \in 0 .. issued'
  <2>1. CASE Lapse
    <3>1. lapsed' = lapsed + 1 /\ UNCHANGED <<issued, o365>> /\ lapsed < issued
      BY <2>1 DEF Lapse
    <3>2. lapsed + 1 \in 0 .. issued
      BY <1>t, <3>1
    <3> QED BY <1>t, <3>1, <3>2
  <2>2. CASE SaveTokens \/ ConnectMicrosoft
    <3>1. issued' = issued + 1 /\ issued < MaxIssued /\ lapsed' = lapsed
      BY <2>2 DEF SaveTokens, ConnectMicrosoft
    <3>2. issued + 1 \in 0 .. MaxIssued /\ lapsed \in 0 .. (issued + 1) /\ lapsed \in Nat
      BY <1>t, <3>1
    <3>3. issued' \in 0 .. MaxIssued /\ lapsed' \in 0 .. issued'
      BY <3>1, <3>2
    <3>4. \A n \in (lapsed + 1) .. issued' : n \in 0 .. MaxIssued
      BY <3>2, <3>3
    <3>5. CASE SaveTokens
      BY <1>t, <3>3, <3>5 DEF SaveTokens
    <3>6. CASE ConnectMicrosoft
      BY <1>t, <3>3, <3>4, <3>6 DEF ConnectMicrosoft
    <3> QED BY <2>2, <3>3, <3>5, <3>6
  <2> QED BY <2>1, <2>2
<1>3. OfficeTypeOK'
  BY <1>1, <1>2, OfficeTyped DEF OfficeInv, OfficeTypeOK
<1> QED BY <1>1, <1>3 DEF OfficeInv, LinkSound, TodoFollowsTask, InTable, DeskType

\* Renewing a token.
LEMMA RenewalKeeps ==
  ASSUME OfficeInv, NEW h \in Tabs,
         ReadStatus(h) \/ ReadRefreshToken(h) \/ RefreshAccessToken(h) \/ PersistRefreshedToken(h)
  PROVE  OfficeInv'
<1> USE OfficeAssumption
<1>t. /\ desk[h] \in DeskType /\ DeskSound(desk[h]) /\ Free \in DeskType /\ Free.at = "idle"
      /\ o365 \in [access : 0 .. MaxIssued, refresh : BOOLEAN, current : 0 .. MaxIssued, legacy : 0 .. MaxIssued]
      /\ issued \in 0 .. MaxIssued /\ lapsed \in 0 .. issued
  BY OfficeTyped DEF OfficeInv
<1>1. ASSUME NEW k \in {"status", "refresh"}, desk[h].at = "idle", TokensStay, TasksStay,
             desk' = [desk EXCEPT ![h] = [Free EXCEPT !.at = "renew", !.kind = k]]
      PROVE  OfficeInv'
  <2> DEFINE r == [Free EXCEPT !.at = "renew", !.kind = k]
  <2>1. r \in DeskType /\ DeskSound(r) /\ r.at = "renew"
    <3>1. Free.acted = 0 /\ Free.ok = "idle" /\ Free.no = "idle"
      BY DEF Free
    <3>2. r \in DeskType /\ r.at = "renew" /\ r.acted = 0 /\ r.ok = "idle" /\ r.no = "idle"
      <4>1. "renew" \in DeskPlace
        BY DEF DeskPlace
      <4> QED BY <1>t, <3>1, <4>1 DEF DeskType
    <3> QED BY <3>2 DEF DeskSound
  <2> HIDE DEF r
  <2>2. desk' = [desk EXCEPT ![h] = r]
    BY <1>1 DEF r
  <2> QED BY <1>1, <2>1, <2>2, DeskMoves, TokensTyped
<1>2. ASSUME RefreshAccessToken(h) PROVE OfficeInv'
  <2>1. desk[h].at = "renew" /\ UNCHANGED <<o365, lapsed>> /\ TasksStay
    BY <1>2 DEF RefreshAccessToken
  <2>2. CASE /\ issued < MaxIssued /\ issued' = issued + 1
             /\ desk' = [desk EXCEPT ![h] = [desk[h] EXCEPT !.token = issued', !.at = "persist"]]
    <3> DEFINE r == [desk[h] EXCEPT !.token = issued', !.at = "persist"]
    <3>1. issued + 1 \in 0 .. MaxIssued /\ lapsed \in 0 .. (issued + 1)
      BY <1>t, <2>2
    <3>2. issued' \in 0 .. MaxIssued /\ lapsed' \in 0 .. issued'
      BY <2>1, <2>2, <3>1
    <3>3. r \in DeskType /\ DeskSound(r) /\ r.at = "persist"
      <4>1. "persist" \in DeskPlace
        BY DEF DeskPlace
      <4>2. r \in DeskType /\ r.at = "persist" /\ r.acted = desk[h].acted /\ r.ok = desk[h].ok /\ r.no = desk[h].no
            /\ r.kind = desk[h].kind
        BY <1>t, <3>2, <4>1 DEF DeskType
      <4> QED BY <1>t, <2>1, <4>2 DEF DeskSound
    <3> HIDE DEF r
    <3>4. desk' = [desk EXCEPT ![h] = r]
      BY <2>2 DEF r
    <3>5. o365' \in [access : 0 .. MaxIssued, refresh : BOOLEAN, current : 0 .. MaxIssued, legacy : 0 .. MaxIssued]
      BY <1>t, <2>1
    <3> QED BY <2>1, <3>2, <3>3, <3>4, <3>5, DeskMoves
  <2>3. CASE Goes(h, desk[h].no) /\ UNCHANGED issued
    <3>1. desk[h].no \in {"idle", "look", "act", "unknown", "store"} /\ (desk[h].no = "store" => desk[h].kind # "email")
      BY <1>t, <2>1 DEF DeskSound
    <3>2. PICK at \in {"idle", "look", "act", "unknown", "store"} : at = desk[h].no
      BY <3>1
    <3>3. Goes(h, at) /\ (at = "store" => desk[h].kind # "email") /\ desk[h].acted = 0
      BY <1>t, <2>1, <2>3, <3>1, <3>2 DEF DeskSound
    <3> QED BY <1>t, <2>1, <2>3, <3>3, GoesKeeps
  <2> QED BY <1>2, <2>2, <2>3 DEF RefreshAccessToken
<1>3. ASSUME PersistRefreshedToken(h) PROVE OfficeInv'
  <2>1. desk[h].at = "persist" /\ UNCHANGED <<issued, lapsed>> /\ TasksStay /\ Goes(h, desk[h].ok)
    BY <1>3 DEF PersistRefreshedToken
  <2>2. o365' \in [access : 0 .. MaxIssued, refresh : BOOLEAN, current : 0 .. MaxIssued, legacy : 0 .. MaxIssued]
    BY <1>t, <1>3 DEF PersistRefreshedToken, DeskType
  <2>3. PICK at \in {"idle", "look", "lookAgain", "act", "actAgain"} : at = desk[h].ok
    BY <1>t, <2>1 DEF DeskSound
  <2>4. Goes(h, at) /\ desk[h].acted = 0
    BY <1>t, <2>1, <2>3 DEF DeskSound
  <2> QED BY <1>t, <2>1, <2>2, <2>4, GoesKeeps
<1> QED BY <1>1, <1>2, <1>3 DEF ReadStatus, ReadRefreshToken

\* Requests through getGraphForUser.
LEMMA GraphKeeps ==
  ASSUME OfficeInv, NEW h \in Tabs,
         GetGraphForUser(h) \/ LookFetch(h) \/ LookFailed(h) \/ ActFetch(h) \/ StoreActivity(h)
  PROVE  OfficeInv'
<1> USE OfficeAssumption
<1>t. /\ desk[h] \in DeskType /\ DeskSound(desk[h]) /\ Free \in DeskType /\ Free.at = "idle" /\ DeskSound(Free)
      /\ o365 \in [access : 0 .. MaxIssued, refresh : BOOLEAN, current : 0 .. MaxIssued, legacy : 0 .. MaxIssued]
  BY OfficeTyped DEF OfficeInv, DeskSound
<1>d. {"idle", "renew", "look", "lookAgain", "unknown", "act", "actAgain", "store"} \subseteq DeskPlace
  BY DEF DeskPlace
<1>k. TokensStay /\ TasksStay /\ desk[h].at # "unmirror"
  BY DEF GetGraphForUser, LookFetch, LookFailed, ActFetch, StoreActivity
\* A place a request may go to at once.
<1>g. ASSUME NEW at \in {"idle", "look", "act", "unknown", "store"}, Goes(h, at),
             at \notin {"idle", "store"} => desk[h].acted = 0,
             at = "store" /\ desk[h].kind = "email" => desk[h].acted = 1
      PROVE  OfficeInv'
  BY <1>k, <1>g, GoesKeeps, TokensTyped
<1>1. ASSUME GetGraphForUser(h) PROVE OfficeInv'
  <2>0. \A kind \in GraphKinds : FirstFetch(kind) \subseteq {"look", "act"}
    BY DEF GraphKinds, FirstFetch
  <2>1. PICK kind, first : kind \in GraphKinds /\ first \in FirstFetch(kind) /\
          LET at == CASE o365.access = 0 -> WithoutGraph(kind)
                      [] o365.access # 0 /\ Past(o365.current) /\ o365.refresh -> "renew"
                      [] OTHER -> first
          IN desk' = [desk EXCEPT ![h] = IF at = "idle" THEN Free ELSE
                         [Free EXCEPT !.at = at, !.kind = kind, !.token = o365.access,
                                      !.canRefresh = o365.refresh, !.ok = first, !.no = first]]
    BY <1>1 DEF GetGraphForUser
  <2>f. kind \in GraphKinds /\ first \in {"look", "act"}
    BY <2>0, <2>1
  <2>2. PICK at \in {"idle", "store", "renew", "look", "act"} :
          /\ at = "store" => kind # "email"
          /\ desk' = [desk EXCEPT ![h] = IF at = "idle" THEN Free ELSE
                         [Free EXCEPT !.at = at, !.kind = kind, !.token = o365.access,
                                      !.canRefresh = o365.refresh, !.ok = first, !.no = first]]
    <3> DEFINE at == CASE o365.access = 0 -> WithoutGraph(kind)
                       [] o365.access # 0 /\ Past(o365.current) /\ o365.refresh -> "renew"
                       [] OTHER -> first
    <3>1. at \in {"idle", "store", "renew", "look", "act"} /\ (at = "store" => kind # "email")
      BY <2>f DEF WithoutGraph
    <3> HIDE DEF at
    <3>2. desk' = [desk EXCEPT ![h] = IF at = "idle" THEN Free ELSE
                         [Free EXCEPT !.at = at, !.kind = kind, !.token = o365.access,
                                      !.canRefresh = o365.refresh, !.ok = first, !.no = first]]
      BY <2>1 DEF at
    <3> QED BY <3>1, <3>2
  <2> DEFINE s == [Free EXCEPT !.at = at, !.kind = kind, !.token = o365.access,
                               !.canRefresh = o365.refresh, !.ok = first, !.no = first]
             r == IF at = "idle" THEN Free ELSE s
  <2>3. /\ s \in DeskType /\ s.at = at /\ s.kind = kind /\ s.ok = first /\ s.no = first /\ s.acted = 0
    <3>1. at \in DeskPlace /\ first \in DeskPlace /\ o365.access \in 0 .. MaxIssued /\ o365.refresh \in BOOLEAN
      BY <1>t, <1>d, <2>f
    <3>2. Free.acted = 0
      BY DEF Free
    <3>3. s \in DeskType
      <4>1. Free \in DeskType /\ kind \in GraphKinds
        BY <1>t, <2>f
      <4> QED BY <3>1, <4>1 DEF DeskType
    <3>4. s.at = at /\ s.kind = kind /\ s.ok = first /\ s.no = first /\ s.acted = Free.acted
      BY <1>t DEF DeskType
    <3> QED BY <3>2, <3>3, <3>4
  <2>4. DeskSound(s)
    BY <2>2, <2>3, <2>f DEF DeskSound
  <2>5. desk' = [desk EXCEPT ![h] = r]
    BY <2>2
  <2>6. r \in DeskType /\ DeskSound(r) /\ r.at \notin {"mirror", "link"}
    BY <1>t, <2>3, <2>4
  <2> HIDE DEF r
  <2> QED BY <1>k, <2>5, <2>6, DeskMoves, TokensTyped
\* A fetch that is tried again.
<1>2. ASSUME NEW again \in {"lookAgain", "actAgain"}, NEW no \in {"unknown", "idle", "store"},
             no = "store" => desk[h].kind # "email", RetryFetch(h, again, no, 0)
      PROVE  OfficeInv'
  <2> DEFINE r == [desk[h] EXCEPT !.at = "renew", !.ok = again, !.no = no, !.acted = 0]
  <2>1. r \in DeskType /\ r.at = "renew" /\ r.ok = again /\ r.no = no /\ r.acted = 0 /\ r.kind = desk[h].kind
    BY <1>t, <1>d DEF DeskType
  <2>2. desk' = [desk EXCEPT ![h] = r]
    BY <1>2 DEF RetryFetch
  <2>3. DeskSound(r)
    BY <1>2, <2>1 DEF DeskSound
  <2> HIDE DEF r
  <2> QED BY <1>k, <2>1, <2>2, <2>3, DeskMoves, TokensTyped
<1>3. ASSUME LookFetch(h) PROVE OfficeInv'
  <2>1. desk[h].acted = 0
    BY <1>t, <1>3 DEF LookFetch, DeskSound
  <2>2. \/ RetryFetch(h, "lookAgain", "unknown", 0)
        \/ Goes(h, "act") \/ Goes(h, "unknown")
    BY <1>3 DEF LookFetch
  <2> QED BY <1>g, <1>2, <2>1, <2>2
<1>4. ASSUME LookFailed(h) PROVE OfficeInv'
  <2>1. desk[h].acted = 0
    BY <1>t, <1>4 DEF LookFailed, DeskSound
  <2>2. \/ desk[h].kind = "task" /\ Goes(h, "store")
        \/ Goes(h, "act") \/ Goes(h, "idle")
    BY <1>4 DEF LookFailed
  <2> QED BY <1>g, <2>1, <2>2
<1>5. ASSUME ActFetch(h) PROVE OfficeInv'
  <2>1. desk[h].acted = 0
    BY <1>t, <1>5 DEF ActFetch, DeskSound
  <2>2. PICK answer \in Answers(h), more \in 0 .. 1 :
           /\ answer = "ok" => more = 1
           /\ answer = "401" => more = 0
           /\ LET times == desk[h].acted + more
                  then == AfterFetch(h, answer = "ok")
              IN  IF desk[h].at = "act" /\ desk[h].canRefresh /\ TriesAgain(h, answer)
                    THEN RetryFetch(h, "actAgain", AfterFetch(h, FALSE), times)
                    ELSE desk' = [desk EXCEPT ![h] = IF then = "idle" THEN Free
                                                     ELSE [desk[h] EXCEPT !.at = then, !.acted = times]]
    BY <1>5 DEF ActFetch
  <2>3. desk[h].acted + more = more /\ more \in {0, 1}
    BY <2>1
  <2>4. AfterFetch(h, FALSE) \in {"idle", "store"} /\ (AfterFetch(h, FALSE) = "store" => desk[h].kind # "email")
    BY DEF AfterFetch
  <2>5. CASE desk[h].at = "act" /\ desk[h].canRefresh /\ TriesAgain(h, answer)
    <3>1. more = 0 /\ RetryFetch(h, "actAgain", AfterFetch(h, FALSE), more)
      BY <2>2, <2>3, <2>5 DEF TriesAgain
    <3> QED BY <1>2, <2>4, <3>1
  <2>6. CASE ~(desk[h].at = "act" /\ desk[h].canRefresh /\ TriesAgain(h, answer))
    <3>1. PICK then \in {"idle", "store"} : then = AfterFetch(h, answer = "ok")
      BY DEF AfterFetch
    <3>2. then = "store" /\ desk[h].kind = "email" => more = 1
      BY <2>2, <3>1 DEF AfterFetch
    <3> DEFINE s == [desk[h] EXCEPT !.at = then, !.acted = more]
               r == IF then = "idle" THEN Free ELSE s
    <3>3. desk' = [desk EXCEPT ![h] = r]
      BY <2>2, <2>3, <2>6, <3>1
    <3>4. s \in DeskType /\ s.at = then /\ s.acted = more /\ s.kind = desk[h].kind
      BY <1>t, <1>d, <2>3 DEF DeskType
    <3>5. then = "store" => DeskSound(s)
      BY <3>2, <3>4 DEF DeskSound
    <3>6. r \in DeskType /\ DeskSound(r) /\ r.at \notin {"mirror", "link"}
      BY <1>t, <3>4, <3>5
    <3> HIDE DEF r
    <3> QED BY <1>k, <3>3, <3>6, DeskMoves, TokensTyped
  <2> QED BY <2>5, <2>6
<1>6. ASSUME StoreActivity(h) PROVE OfficeInv'
  <2>1. Goes(h, "idle")
    BY <1>6 DEF StoreActivity
  <2> QED BY <1>g, <2>1
<1> QED BY <1>1, <1>3, <1>4, <1>5, <1>6

\* A step of a request of the calendar.
LEMMA CalendarMoves ==
  ASSUME OfficeInv, NEW h \in Tabs, NEW r \in DeskType, desk' = [desk EXCEPT ![h] = r], DeskSound(r),
         TokensStay,
         calTask' \in [CalTasks -> TaskRows \cup {Unborn, Gone}],
         todo' \in [CalTasks -> TaskStatus \cup {"absent"}],
         everLinked' \subseteq CalTasks, spared' \subseteq CalTasks,
         LinkSound', TodoFollowsTask'
  PROVE  OfficeInv'
<1>1. desk' \in [Tabs -> DeskType] /\ desk'[h] = r /\ \A g \in Tabs : g # h => desk'[g] = desk[g]
  BY OfficeTyped
<1>2. OfficeTypeOK'
  BY <1>1, TokensTyped DEF OfficeTypeOK, DeskType
<1>3. \A g \in Tabs : DeskSound(desk'[g])
  BY <1>1 DEF OfficeInv
<1> QED BY <1>1, <1>2, <1>3 DEF OfficeInv

\* A request of the calendar about a task that is in the table.
LEMMA RequestTyped ==
  ASSUME OfficeInv, NEW h \in Tabs, NEW t \in CalTasks, calTask'[t] \in TaskRows,
         NEW at \in {"mirror", "update"}, TaskRequest(h, t, at)
  PROVE  \E r \in DeskType : desk' = [desk EXCEPT ![h] = r] /\ DeskSound(r) /\ r.at = at /\ r.task = t
<1> DEFINE r == [Free EXCEPT !.at = at, !.kind = "calendar", !.task = t, !.copy = calTask'[t]]
<1>1. at \in DeskPlace
  BY DEF DeskPlace
<1>2. r \in DeskType /\ r.at = at /\ r.task = t /\ r.copy = calTask'[t]
  BY <1>1, OfficeTyped DEF DeskType
<1>3. DeskSound(r)
  BY <1>2 DEF DeskSound
<1>4. desk' = [desk EXCEPT ![h] = r]
  BY DEF TaskRequest
<1> HIDE DEF r
<1> QED BY <1>2, <1>3, <1>4

\* The new task of a request goes on to be linked.
LEMMA OnTyped ==
  ASSUME OfficeInv, NEW h \in Tabs, desk[h].at = "mirror", Goes(h, "link")
  PROVE  \E r \in DeskType : /\ desk' = [desk EXCEPT ![h] = r] /\ DeskSound(r)
                             /\ r.at = "link" /\ r.task = desk[h].task
<1> DEFINE r == [desk[h] EXCEPT !.at = "link", !.ok = "idle", !.no = "idle"]
<1>1. "link" \in DeskPlace /\ "idle" \in DeskPlace /\ desk[h] \in DeskType /\ DeskSound(desk[h])
  BY OfficeTyped DEF DeskPlace, OfficeInv
<1>2. r \in DeskType /\ r.at = "link" /\ r.task = desk[h].task /\ r.copy = desk[h].copy
  BY <1>1 DEF DeskType
<1>3. DeskSound(r)
  BY <1>1, <1>2 DEF DeskSound
<1>4. desk' = [desk EXCEPT ![h] = r]
  BY DEF Goes
<1> HIDE DEF r
<1> QED BY <1>2, <1>3, <1>4

\* The rows and the links stay, and no request newly holds a task to link.
LEMMA LinkKept ==
  ASSUME LinkSound, UNCHANGED <<calTask, everLinked>>, desk \in [Tabs -> DeskType],
         NEW h \in Tabs, NEW r \in DeskType, desk' = [desk EXCEPT ![h] = r],
         r.at = "link" => desk[h].at = "mirror" /\ r.task = desk[h].task, r.at # "mirror"
  PROVE  LinkSound'
<1>1. desk'[h] = r /\ \A g \in Tabs : g # h => desk'[g] = desk[g]
  OBVIOUS
<1>2. \A g \in Tabs : desk'[g].at \in {"mirror", "link"} =>
        desk[g].at \in {"mirror", "link"} /\ desk[g].task = desk'[g].task
  BY <1>1
<1> QED BY <1>2 DEF LinkSound, InTable

\* Nothing changes but a request that deletes nothing.
LEMMA TodoKept ==
  ASSUME TodoFollowsTask, UNCHANGED <<calTask, todo, everLinked, spared>>, desk \in [Tabs -> DeskType],
         NEW h \in Tabs, desk[h].at # "unmirror", NEW r \in DeskType, desk' = [desk EXCEPT ![h] = r]
  PROVE  TodoFollowsTask'
<1>1. desk'[h] = r /\ \A g \in Tabs : g # h => desk'[g] = desk[g]
  OBVIOUS
<1> QED BY <1>1 DEF TodoFollowsTask

\* Tasks, their copies and the items linked to them.
LEMMA CalendarKeeps ==
  ASSUME OfficeInv, NEW h \in Tabs,
         CreateTask(h) \/ MirrorTask(h) \/ LinkTask(h) \/ ReadTask(h) \/ UpdateTask(h) \/ PushTask(h)
           \/ DeleteTask(h) \/ UnmirrorTask(h)
  PROVE  OfficeInv'
<1>t. /\ calTask \in [CalTasks -> TaskRows \cup {Unborn, Gone}]
      /\ todo \in [CalTasks -> TaskStatus \cup {"absent"}]
      /\ everLinked \subseteq CalTasks /\ spared \subseteq CalTasks
      /\ desk \in [Tabs -> DeskType]
      /\ Unborn # Gone /\ Unborn \notin TaskRows /\ Gone \notin TaskRows
      /\ Free \in DeskType /\ Free.at = "idle" /\ DeskSound(Free)
  BY OfficeTyped DEF DeskSound
<1>s. LinkSound /\ TodoFollowsTask /\ DeskSound(desk[h]) /\ desk[h].copy \in TaskRows \cup {Unborn, Gone}
  BY <1>t DEF OfficeInv, DeskType
<1>k. TokensStay
  BY DEF CreateTask, MirrorTask, LinkTask, ReadTask, UpdateTask, PushTask, DeleteTask, UnmirrorTask
<1>c. desk[h].at \in {"mirror", "link", "update", "push", "unmirror"} => desk[h].task \in CalTasks
  BY <1>s DEF DeskSound
<1>i. ASSUME Goes(h, "idle") PROVE desk' = [desk EXCEPT ![h] = Free]
  BY <1>i DEF Goes
<1>1. ASSUME CreateTask(h) PROVE OfficeInv'
  <2>1. PICK t \in CalTasks, status \in TaskStatus :
          /\ desk[h].at = "idle" /\ calTask[t] = Unborn
          /\ calTask' = [calTask EXCEPT ![t] = [status |-> status, link |-> FALSE]]
          /\ TaskRequest(h, t, "mirror")
          /\ UNCHANGED <<todo, everLinked, spared>>
    BY <1>1 DEF CreateTask
  <2> DEFINE row == [status |-> status, link |-> FALSE]
  <2>2. row \in TaskRows /\ ~row.link
    BY DEF TaskRows
  <2> HIDE DEF row
  <2>3. /\ calTask' \in [CalTasks -> TaskRows \cup {Unborn, Gone}] /\ calTask'[t] = row
        /\ \A u \in CalTasks : u # t => calTask'[u] = calTask[u]
    BY <1>t, <2>1, <2>2 DEF row
  <2>4. PICK r \in DeskType : desk' = [desk EXCEPT ![h] = r] /\ DeskSound(r) /\ r.at = "mirror" /\ r.task = t
    <3>1. calTask'[t] \in TaskRows
      BY <2>2, <2>3
    <3>2. TaskRequest(h, t, "mirror")
      BY <2>1
    <3> QED BY <3>1, <3>2, RequestTyped
  <2>5. desk' = [desk EXCEPT ![h] = r]
    BY <2>4
  <2>6. desk'[h] = r /\ \A g \in Tabs : g # h => desk'[g] = desk[g]
    BY <1>t, <2>5
  <2>7. t \notin everLinked /\ \A g \in Tabs : desk[g].at \in {"mirror", "link"} => desk[g].task # t
    BY <1>s, <2>1 DEF LinkSound
  <2>8. LinkSound'
    <3>1. \A u \in everLinked' : calTask'[u] # Unborn /\ (InTable(u)' => calTask'[u].link)
      BY <1>t, <1>s, <2>1, <2>3, <2>7 DEF LinkSound, InTable
    <3>2. \A u \in CalTasks : InTable(u)' /\ calTask'[u].link => u \in everLinked'
      BY <1>t, <1>s, <2>1, <2>2, <2>3 DEF LinkSound, InTable
    <3>3. calTask'[t] # Unborn
      BY <1>t, <2>2, <2>3
    <3>4. ASSUME NEW g \in Tabs, desk'[g].at \in {"mirror", "link"}
          PROVE  /\ desk'[g].task \notin everLinked' /\ calTask'[desk'[g].task] # Unborn
                 /\ \A k \in Tabs : desk'[k].at \in {"mirror", "link"} /\ desk'[k].task = desk'[g].task => k = g
      <4>1. CASE g = h
        BY <2>1, <2>4, <2>6, <2>7, <3>3, <4>1
      <4>2. CASE g # h
        <5>1. desk'[g] = desk[g] /\ desk[g].task # t /\ desk[g].task \in CalTasks
          BY <2>6, <2>7, <3>4, <4>2 DEF OfficeInv, DeskSound
        <5> QED BY <1>s, <2>1, <2>3, <2>4, <2>6, <3>4, <5>1 DEF LinkSound
      <4> QED BY <4>1, <4>2
    <3> QED BY <3>1, <3>2, <3>4 DEF LinkSound
  <2>9. TodoFollowsTask'
    BY <1>t, <1>s, <2>1, <2>2, <2>3, <2>4, <2>6, <2>7 DEF TodoFollowsTask
  <2> QED BY <1>t, <1>k, <2>1, <2>3, <2>4, <2>5, <2>8, <2>9, CalendarMoves
<1>2. ASSUME MirrorTask(h) PROVE OfficeInv'
  <2>1. /\ desk[h].at = "mirror" /\ UNCHANGED <<calTask, everLinked, spared>>
        /\ todo' = todo \/ todo' = [todo EXCEPT ![desk[h].task] = desk[h].copy.status]
        /\ Goes(h, "link") \/ Goes(h, "idle")
    BY <1>2 DEF MirrorTask
  <2>2. PICK t \in CalTasks : t = desk[h].task /\ t \notin everLinked
    BY <1>c, <1>s, <2>1 DEF LinkSound
  <2>3. desk[h].copy.status \in TaskStatus /\ desk[h].copy \in TaskRows
    BY <1>s, <2>1 DEF DeskSound, TaskRows
  <2>4. /\ todo' \in [CalTasks -> TaskStatus \cup {"absent"}]
        /\ \A u \in CalTasks : u # t => todo'[u] = todo[u]
    BY <1>t, <2>1, <2>2, <2>3
  <2>5. PICK r \in DeskType : /\ desk' = [desk EXCEPT ![h] = r] /\ DeskSound(r)
                              /\ r.at = "idle" \/ (r.at = "link" /\ r.task = t)
    <3>1. CASE Goes(h, "idle")
      BY <1>i, <1>t, <3>1
    <3>2. CASE Goes(h, "link")
      BY <1>t, <2>1, <2>2, <2>3, <3>2, OnTyped
    <3> QED BY <2>1, <3>1, <3>2
  <2>6. LinkSound'
    BY <1>t, <1>s, <2>1, <2>2, <2>5, LinkKept
  <2>7. TodoFollowsTask'
    <3>1. desk'[h] = r /\ \A g \in Tabs : g # h => desk'[g] = desk[g]
      BY <1>t, <2>5
    <3> QED BY <1>s, <1>t, <2>1, <2>2, <2>4, <3>1 DEF TodoFollowsTask
  <2> QED BY <1>t, <1>k, <2>1, <2>4, <2>5, <2>6, <2>7, CalendarMoves
<1>3. ASSUME LinkTask(h) PROVE OfficeInv'
  <2>1. desk[h].at = "link" /\ UNCHANGED <<todo, spared>> /\ desk' = [desk EXCEPT ![h] = Free]
    BY <1>3, <1>i DEF LinkTask
  <2>2. PICK t \in CalTasks : t = desk[h].task
    BY <1>c, <2>1
  <2>3. desk'[h] = Free /\ \A g \in Tabs : g # h => desk'[g] = desk[g]
    BY <1>t, <2>1
  <2>4. CASE UNCHANGED <<calTask, everLinked>>
    <3>1. LinkSound'
      BY <1>t, <1>s, <2>1, <2>4, LinkKept
    <3>2. TodoFollowsTask'
      BY <1>s, <2>1, <2>3, <2>4 DEF TodoFollowsTask
    <3> QED BY <1>t, <1>k, <2>1, <2>4, <3>1, <3>2, CalendarMoves
  <2>5. CASE InTable(t) /\ calTask' = [calTask EXCEPT ![t].link = TRUE] /\ everLinked' = everLinked \cup {t}
    <3>1. calTask[t] \in TaskRows /\ calTask' = [calTask EXCEPT ![t] = [calTask[t] EXCEPT !.link = TRUE]]
      BY <2>5 DEF InTable
    <3> DEFINE row == [calTask[t] EXCEPT !.link = TRUE]
    <3>2. row \in TaskRows /\ row.link
      BY <3>1 DEF TaskRows
    <3> HIDE DEF row
    <3>3. /\ calTask' \in [CalTasks -> TaskRows \cup {Unborn, Gone}] /\ calTask'[t] = row
          /\ \A u \in CalTasks : u # t => calTask'[u] = calTask[u]
      BY <1>t, <3>1, <3>2 DEF row
    <3>4. \A g \in Tabs : g # h /\ desk[g].at \in {"mirror", "link"} => desk[g].task # t /\ desk[g].task \in CalTasks
      BY <1>s, <2>1, <2>2 DEF LinkSound, OfficeInv, DeskSound
    <3>5. LinkSound'
      <4>1. \A u \in everLinked' : calTask'[u] # Unborn /\ (InTable(u)' => calTask'[u].link)
        <5>1. calTask'[t] # Unborn /\ calTask'[t].link
          BY <1>t, <3>2, <3>3
        <5>2. ASSUME NEW u \in everLinked, u # t PROVE calTask'[u] # Unborn /\ (InTable(u)' => calTask'[u].link)
          BY <1>t, <1>s, <3>3, <5>2 DEF LinkSound, InTable
        <5> QED BY <2>5, <5>1, <5>2
      <4>2. \A u \in CalTasks : InTable(u)' /\ calTask'[u].link => u \in everLinked'
        BY <1>t, <1>s, <2>5, <3>2, <3>3 DEF LinkSound, InTable
      <4>3. ASSUME NEW g \in Tabs, desk'[g].at \in {"mirror", "link"}
            PROVE  /\ desk'[g].task \notin everLinked' /\ calTask'[desk'[g].task] # Unborn
                   /\ \A k \in Tabs : desk'[k].at \in {"mirror", "link"} /\ desk'[k].task = desk'[g].task => k = g
        <5>1. g # h /\ desk'[g] = desk[g]
          BY <1>t, <2>3, <4>3
        <5>2. desk[g].task # t /\ desk[g].task \in CalTasks
          BY <3>4, <4>3, <5>1
        <5>3. desk'[g].task \notin everLinked' /\ calTask'[desk'[g].task] # Unborn
          <6>1. desk[g].task \notin everLinked /\ calTask[desk[g].task] # Unborn
            BY <1>s, <4>3, <5>1 DEF LinkSound
          <6> QED BY <2>5, <3>3, <5>1, <5>2, <6>1
        <5>4. ASSUME NEW k \in Tabs, desk'[k].at \in {"mirror", "link"}, desk'[k].task = desk'[g].task PROVE k = g
          <6>1. k # h /\ desk'[k] = desk[k]
            BY <1>t, <2>3, <5>4
          <6>2. desk[k].at \in {"mirror", "link"} /\ desk[k].task = desk[g].task /\ desk[g].at \in {"mirror", "link"}
            BY <4>3, <5>1, <5>4, <6>1
          <6> QED BY <1>s, <6>2 DEF LinkSound
        <5> QED BY <5>3, <5>4
      <4> QED BY <4>1, <4>2, <4>3 DEF LinkSound
    <3>6. ASSUME NEW u \in everLinked', calTask'[u] = Gone, todo'[u] # "absent"
          PROVE  u \in spared' \/ \E g \in Tabs : desk'[g].at = "unmirror" /\ desk'[g].task = u
      <4>1. u # t /\ u \in everLinked /\ todo[u] # "absent" /\ spared' = spared
        BY <1>t, <2>1, <2>5, <3>2, <3>3, <3>6
      <4>2. calTask[u] = Gone
        BY <1>t, <3>3, <3>6, <4>1
      <4>3. u \in spared \/ \E g \in Tabs : desk[g].at = "unmirror" /\ desk[g].task = u
        BY <1>s, <4>1, <4>2 DEF TodoFollowsTask
      <4> QED BY <2>1, <2>3, <4>1, <4>3
    <3>7. TodoFollowsTask'
      BY <3>6 DEF TodoFollowsTask
    <3> QED BY <1>t, <1>k, <2>1, <2>5, <3>3, <3>5, <3>7, CalendarMoves
  <2> QED BY <1>3, <2>2, <2>4, <2>5 DEF LinkTask
<1>4. ASSUME ReadTask(h) PROVE OfficeInv'
  <2>1. PICK t \in CalTasks : /\ desk[h].at = "idle" /\ InTable(t) /\ TaskRequest(h, t, "update")
                              /\ UNCHANGED <<calTask, todo, everLinked, spared>>
    BY <1>4 DEF ReadTask
  <2>2. calTask'[t] \in TaskRows
    BY <2>1 DEF InTable
  <2>3. PICK r \in DeskType : desk' = [desk EXCEPT ![h] = r] /\ DeskSound(r) /\ r.at = "update" /\ r.task = t
    BY <2>1, <2>2, RequestTyped
  <2> QED BY <1>t, <1>k, <1>s, <2>1, <2>3, CalendarMoves, LinkKept, TodoKept
<1>5. ASSUME UpdateTask(h) PROVE OfficeInv'
  <2>1. desk[h].at = "update" /\ UNCHANGED <<todo, everLinked, spared>>
    BY <1>5 DEF UpdateTask
  <2>2. PICK t \in CalTasks : t = desk[h].task
    BY <1>c, <2>1
  <2>3. CASE Goes(h, "idle") /\ UNCHANGED calTask
    BY <1>t, <1>k, <1>i, <1>s, <2>1, <2>3, CalendarMoves, LinkKept, TodoKept
  <2>4. ASSUME NEW status \in TaskStatus, InTable(t),
               calTask' = [calTask EXCEPT ![t] = ChangedColumns(calTask[t], desk[h].copy, status)],
               desk' = [desk EXCEPT ![h] = IF calTask'[t].link
                                             THEN [desk[h] EXCEPT !.at = "push", !.copy = calTask'[t]] ELSE Free]
        PROVE  OfficeInv'
    <3> DEFINE row == [calTask[t] EXCEPT !.status = status]
    <3>1. row \in TaskRows /\ row.link = calTask[t].link /\ calTask[t] \in TaskRows
      BY <2>4 DEF InTable, TaskRows
    <3>2. calTask' = [calTask EXCEPT ![t] = row]
      BY <2>4 DEF ChangedColumns
    <3> HIDE DEF row
    <3>3. /\ calTask' \in [CalTasks -> TaskRows \cup {Unborn, Gone}] /\ calTask'[t] = row
          /\ \A u \in CalTasks : u # t => calTask'[u] = calTask[u]
      BY <1>t, <3>1, <3>2
    <3>4. PICK r \in DeskType : desk' = [desk EXCEPT ![h] = r] /\ DeskSound(r) /\ r.at \in {"idle", "push"}
      <4> DEFINE r == [desk[h] EXCEPT !.at = "push", !.copy = row]
      <4>1. r \in DeskType /\ r.at = "push" /\ r.task = t /\ r.copy = row
        <5>1. "push" \in DeskPlace
          BY DEF DeskPlace
        <5> QED BY <1>t, <2>2, <3>1, <5>1 DEF DeskType
      <4>2. DeskSound(r)
        BY <3>1, <4>1 DEF DeskSound
      <4>3. desk' = [desk EXCEPT ![h] = IF row.link THEN r ELSE Free]
        BY <2>4, <3>3
      <4> HIDE DEF r
      <4> QED BY <1>t, <4>1, <4>2, <4>3
    <3>5. desk'[h] = r /\ \A g \in Tabs : g # h => desk'[g] = desk[g]
      BY <1>t, <3>4
    <3>6. LinkSound'
      <4>1. \A u \in everLinked' : calTask'[u] # Unborn /\ (InTable(u)' => calTask'[u].link)
        BY <1>t, <1>s, <2>1, <2>4, <3>1, <3>3 DEF LinkSound, InTable
      <4>2. \A u \in CalTasks : InTable(u)' /\ calTask'[u].link => u \in everLinked'
        BY <1>t, <1>s, <2>1, <2>4, <3>1, <3>3 DEF LinkSound, InTable
      <4>3. \A u \in CalTasks : calTask'[u] = Unborn => calTask[u] = Unborn
        BY <1>t, <3>1, <3>3
      <4>4. \A g \in Tabs : desk'[g].at \in {"mirror", "link"} => g # h /\ desk'[g] = desk[g] /\ desk[g].task \in CalTasks
        BY <3>4, <3>5 DEF OfficeInv, DeskSound
      <4> QED BY <1>s, <2>1, <4>1, <4>2, <4>3, <4>4 DEF LinkSound
    <3>7. TodoFollowsTask'
      BY <1>s, <1>t, <2>1, <3>1, <3>3, <3>5 DEF TodoFollowsTask
    <3> QED BY <1>t, <1>k, <2>1, <3>3, <3>4, <3>6, <3>7, CalendarMoves
  <2> QED BY <1>5, <2>2, <2>3, <2>4 DEF UpdateTask
<1>6. ASSUME PushTask(h) PROVE OfficeInv'
  <2>1. /\ desk[h].at = "push" /\ UNCHANGED <<calTask, everLinked, spared>> /\ desk' = [desk EXCEPT ![h] = Free]
        /\ todo' = todo \/ (todo[desk[h].task] # "absent" /\ todo' = [todo EXCEPT ![desk[h].task] = desk[h].copy.status])
    BY <1>6, <1>i DEF PushTask
  <2>2. PICK t \in CalTasks : t = desk[h].task
    BY <1>c, <2>1
  <2>3. desk[h].copy.status \in TaskStatus
    BY <1>s, <2>1 DEF DeskSound, TaskRows
  <2>4. /\ todo' \in [CalTasks -> TaskStatus \cup {"absent"}]
        /\ \A u \in CalTasks : todo'[u] # "absent" => todo[u] # "absent"
    BY <1>t, <2>1, <2>2, <2>3
  <2>5. desk'[h] = Free /\ \A g \in Tabs : g # h => desk'[g] = desk[g]
    BY <1>t, <2>1
  <2>6. TodoFollowsTask'
    BY <1>s, <1>t, <2>1, <2>4, <2>5 DEF TodoFollowsTask
  <2> QED BY <1>t, <1>k, <1>s, <2>1, <2>4, <2>6, CalendarMoves, LinkKept
<1>7. ASSUME DeleteTask(h) PROVE OfficeInv'
  <2>1. PICK t \in CalTasks :
          /\ desk[h].at = "idle" /\ InTable(t) /\ calTask' = [calTask EXCEPT ![t] = Gone]
          /\ desk' = [desk EXCEPT ![h] = IF calTask[t].link
                        THEN [Free EXCEPT !.at = "unmirror", !.kind = "calendar", !.task = t] ELSE Free]
          /\ UNCHANGED <<todo, everLinked, spared>>
    BY <1>7 DEF DeleteTask
  <2>2. /\ calTask' \in [CalTasks -> TaskRows \cup {Unborn, Gone}] /\ calTask'[t] = Gone
        /\ \A u \in CalTasks : u # t => calTask'[u] = calTask[u]
    BY <1>t, <2>1
  <2>3. PICK r \in DeskType : /\ desk' = [desk EXCEPT ![h] = r] /\ DeskSound(r) /\ r.at \in {"idle", "unmirror"}
                              /\ t \in everLinked => r.at = "unmirror" /\ r.task = t
    <3> DEFINE r == [Free EXCEPT !.at = "unmirror", !.kind = "calendar", !.task = t]
    <3>1. r \in DeskType /\ r.at = "unmirror" /\ r.task = t
      <4>1. "unmirror" \in DeskPlace
        BY DEF DeskPlace
      <4> QED BY <1>t, <4>1 DEF DeskType
    <3>2. DeskSound(r)
      BY <3>1 DEF DeskSound
    <3>3. desk' = [desk EXCEPT ![h] = IF calTask[t].link THEN r ELSE Free]
      BY <2>1
    <3>4. t \in everLinked => calTask[t].link
      BY <1>s, <2>1 DEF LinkSound
    <3> HIDE DEF r
    <3> QED BY <1>t, <3>1, <3>2, <3>3, <3>4
  <2>4. desk'[h] = r /\ \A g \in Tabs : g # h => desk'[g] = desk[g]
    BY <1>t, <2>3
  <2>5. LinkSound'
    <3>1. \A u \in everLinked' : calTask'[u] # Unborn /\ (InTable(u)' => calTask'[u].link)
      BY <1>t, <1>s, <2>1, <2>2 DEF LinkSound, InTable
    <3>2. \A u \in CalTasks : InTable(u)' /\ calTask'[u].link => u \in everLinked'
      BY <1>t, <1>s, <2>1, <2>2 DEF LinkSound, InTable
    <3>3. \A u \in CalTasks : calTask'[u] = Unborn => calTask[u] = Unborn
      BY <1>t, <2>2
    <3>4. \A g \in Tabs : desk'[g].at \in {"mirror", "link"} => g # h /\ desk'[g] = desk[g] /\ desk[g].task \in CalTasks
      BY <2>3, <2>4 DEF OfficeInv, DeskSound
    <3> QED BY <1>s, <2>1, <3>1, <3>2, <3>3, <3>4 DEF LinkSound
  <2>6. TodoFollowsTask'
    BY <1>s, <1>t, <2>1, <2>2, <2>3, <2>4 DEF TodoFollowsTask
  <2> QED BY <1>t, <1>k, <2>1, <2>2, <2>3, <2>5, <2>6, CalendarMoves
<1>8. ASSUME UnmirrorTask(h) PROVE OfficeInv'
  <2>1. PICK t \in CalTasks :
          /\ t = desk[h].task /\ desk[h].at = "unmirror" /\ desk' = [desk EXCEPT ![h] = Free]
          /\ UNCHANGED <<calTask, everLinked>>
          /\ \/ todo' = [todo EXCEPT ![t] = "absent"] /\ UNCHANGED spared
             \/ todo' \in {todo, [todo EXCEPT ![t] = "absent"]} /\ spared' = spared \cup {t}
    BY <1>8, <1>c, <1>i DEF UnmirrorTask
  <2>2. /\ todo' \in [CalTasks -> TaskStatus \cup {"absent"}]
        /\ \A u \in CalTasks : todo'[u] # "absent" => todo[u] # "absent"
        /\ todo'[t] = "absent" \/ t \in spared'
        /\ spared \subseteq spared' /\ spared' \subseteq CalTasks
    BY <1>t, <2>1
  <2>3. desk'[h] = Free /\ \A g \in Tabs : g # h => desk'[g] = desk[g]
    BY <1>t, <2>1
  <2>4. TodoFollowsTask'
    BY <1>s, <1>t, <2>1, <2>2, <2>3 DEF TodoFollowsTask
  <2> QED BY <1>t, <1>k, <1>s, <2>1, <2>2, <2>4, CalendarMoves, LinkKept
<1> QED BY <1>1, <1>2, <1>3, <1>4, <1>5, <1>6, <1>7, <1>8

\* Every step of the office preserves the invariant.
LEMMA OfficeKeeps == OfficeInv /\ [OfficeNext]_officeVars => OfficeInv'
<1> SUFFICES ASSUME OfficeInv, [OfficeNext]_officeVars PROVE OfficeInv'
  OBVIOUS
<1>1. CASE UNCHANGED officeVars
  BY <1>1 DEF officeVars, OfficeInv, OfficeTypeOK, LinkSound, TodoFollowsTask, InTable
<1> QED BY <1>1, TokenRoutesKeep, RenewalKeeps, GraphKeeps, CalendarKeeps DEF OfficeNext

\* The invariant implies what the run checks.
LEMMA OfficeInvImplies == OfficeInv => OfficeTypeOK /\ ActedOnce /\ TodoFollowsTask
<1> SUFFICES ASSUME OfficeInv PROVE ActedOnce
  BY DEF OfficeInv
<1>1. \A h \in Tabs : desk[h] \in DeskType /\ DeskSound(desk[h])
  BY OfficeTyped DEF OfficeInv
<1>2. \A h \in Tabs : desk[h].acted \in {0, 1}
  BY <1>1 DEF DeskType
<1>3. \A h \in Tabs : desk[h].at = "store" /\ desk[h].kind = "email" => desk[h].acted = 1
  BY <1>1 DEF DeskSound
<1>4. \A n \in {0, 1} : n <= 1
  OBVIOUS
<1> QED BY <1>2, <1>3, <1>4 DEF ActedOnce

-----------------------------------------------------------------------------
(* Banking analysis.                                                         *)

BankPlace == {"idle", "read", "mark", "done"} \cup Inside \cup {"mirror"}
BankRunRow == [pc: BankPlace, docs: SUBSET BankDocs, ready: SUBSET BankDocs]
BankStatus == {"none", "pending", "in_progress", "analysis_complete", "failed"}

\* Workers that may still add an attempt.
AtWork == {w \in BankWorkers : Running(w)}

\* A worker at work has yet to add its attempt, and it began with one left.
AttemptsLeft ==
  /\ bankRow.attempts \in Nat
  /\ bankRow.status \in {"none", "pending"} => bankRow.attempts = 0
  /\ bankRow.attempts + Cardinality(AtWork) <= MaxBankAttempts - 1 + Cardinality(BankWorkers)

\* Until two runs are in the pipeline together, the tables are those of the one
\* that is, or of the last one that left it.
OneInside ==
  ~overlapped =>
    /\ \A p, q \in BankRunners : bankRun[p].pc \in Inside /\ bankRun[q].pc \in Inside => p = q
    /\ \A p \in BankRunners :
         /\ bankRun[p].pc \in Inside => bankRow.status \notin {"none", "analysis_complete"}
         /\ bankRun[p].pc \in {"analyse", "insert"} => \A d \in BankDocs : txns[d] = 0
         /\ bankRun[p].pc \in {"aggregate", "persist"} => \A d \in BankDocs : txns[d] <= 1
         /\ bankRun[p].pc = "persist" => summary = txns
    /\ bankRow.status \in {"none", "analysis_complete"} =>
         summary = txns /\ \A d \in BankDocs : txns[d] <= 1

BankInv ==
  /\ bankRow \in [status: BankStatus, attempts: Nat, backoff: BOOLEAN]
  /\ ocrDone \subseteq BankDocs /\ mirrored \subseteq BankDocs
  /\ bankRun \in [BankRunners -> BankRunRow]
  /\ txns \in [BankDocs -> Nat] /\ summary \in [BankDocs -> Nat]
  /\ bankedAt \in BOOLEAN /\ retries \in 0..MaxBankRetries /\ lost \in 0..MaxLost
  /\ overlapped \in BOOLEAN /\ abandoned \in BOOLEAN
  /\ AttemptsLeft /\ OneInside

\* The workers at work are finitely many.
LEMMA WorkersFinite ==
  /\ IsFiniteSet(BankWorkers) /\ Cardinality(BankWorkers) \in Nat
  /\ IsFiniteSet(AtWork) /\ Cardinality(AtWork) \in Nat /\ Cardinality(AtWork) <= Cardinality(BankWorkers)
  /\ IsFiniteSet(AtWork') /\ Cardinality(AtWork') \in Nat /\ Cardinality(AtWork') <= Cardinality(BankWorkers)
<1>1. IsFiniteSet(BankWorkers)
  BY BankAssumption
<1>2. AtWork \subseteq BankWorkers /\ AtWork' \subseteq BankWorkers
  BY DEF AtWork
<1> QED BY <1>1, <1>2, FS_Subset, FS_CardinalityType

\* No statement is analysed at the start.
LEMMA BankStarts == BankInit => BankInv
<1> SUFFICES ASSUME BankInit PROVE BankInv
  OBVIOUS
<1> USE BankAssumption
<1>1. Idling \in BankRunRow /\ Idling.pc = "idle"
  BY DEF Idling, BankRunRow, BankPlace
<1>2. bankRun \in [BankRunners -> BankRunRow] /\ \A r \in BankRunners : bankRun[r].pc = "idle"
  BY <1>1 DEF BankInit
<1>3. AttemptsLeft
  <2>1. bankRow.attempts = 0
    BY DEF BankInit
  <2>2. AtWork = {}
    BY <1>2 DEF AtWork, Running, BankRunners
  <2>3. Cardinality(AtWork) = 0
    BY <2>2, FS_EmptySet
  <2> QED BY <2>1, <2>3, WorkersFinite DEF AttemptsLeft
<1>4. OneInside
  BY <1>2 DEF BankInit, OneInside, Inside
<1>5. bankRow \in [status: BankStatus, attempts: Nat, backoff: BOOLEAN]
  BY DEF BankInit, BankStatus
<1>6. retries \in 0..MaxBankRetries /\ lost \in 0..MaxLost
  BY DEF BankInit
<1>7. /\ ocrDone \subseteq BankDocs /\ mirrored \subseteq BankDocs
      /\ txns \in [BankDocs -> Nat] /\ summary \in [BankDocs -> Nat]
      /\ bankedAt \in BOOLEAN /\ overlapped \in BOOLEAN /\ abandoned \in BOOLEAN
  BY DEF BankInit
<1> QED BY <1>2, <1>3, <1>4, <1>5, <1>6, <1>7 DEF BankInv

\* A step of one runner to a place, with what it does to the tables.
LEMMA RunnerMoves ==
  ASSUME BankInv, NEW r \in BankRunners, NEW row \in BankRunRow, bankRun' = [bankRun EXCEPT ![r] = row],
         bankRow' \in [status: BankStatus, attempts: Nat, backoff: BOOLEAN],
         ocrDone' \subseteq BankDocs, mirrored' \subseteq BankDocs,
         txns' \in [BankDocs -> Nat], summary' \in [BankDocs -> Nat],
         bankedAt' \in BOOLEAN, retries' \in 0..MaxBankRetries, lost' \in 0..MaxLost,
         overlapped' \in BOOLEAN, abandoned' \in BOOLEAN,
         AttemptsLeft', OneInside'
  PROVE  BankInv'
<1>1. bankRun' \in [BankRunners -> BankRunRow]
  BY DEF BankInv
<1> QED BY <1>1 DEF BankInv

\* A runner that goes on, or is done, with the attempts as they were.
LEMMA AttemptsKept ==
  ASSUME BankInv, NEW r \in BankRunners, NEW row \in BankRunRow, bankRun' = [bankRun EXCEPT ![r] = row],
         bankRow'.attempts = bankRow.attempts,
         bankRow'.status = bankRow.status \/ bankRow'.status \notin {"none", "pending"},
         Running(r) \/ row.pc \in {"idle", "done"} \/ r \notin BankWorkers
  PROVE  AttemptsLeft'
<1>1. bankRun \in [BankRunners -> BankRunRow]
  BY DEF BankInv
<1>2. AtWork' \subseteq AtWork
  BY <1>1, BankAssumption DEF AtWork, Running, BankRunners
<1>3. Cardinality(AtWork') <= Cardinality(AtWork)
  BY <1>2, WorkersFinite, FS_Subset
<1> DEFINE m == Cardinality(AtWork)  n == Cardinality(AtWork')  a == bankRow.attempts  b == bankRow'.attempts
           top == MaxBankAttempts - 1 + Cardinality(BankWorkers)
<1>4. a \in Nat /\ a + m <= top /\ b = a /\ n <= m /\ m \in Nat /\ n \in Nat /\ top \in Int
  BY <1>3, WorkersFinite, BankAssumption DEF BankInv, AttemptsLeft
<1>5. b \in Nat /\ b + n <= top
  <2> HIDE DEF m, n, a, b, top
  <2> QED BY <1>4
<1>6. bankRow'.status \in {"none", "pending"} => bankRow'.attempts = 0
  BY DEF BankInv, AttemptsLeft
<1> QED BY <1>5, <1>6 DEF AttemptsLeft

\* What a runner outside of the pipeline does to its places and to nothing else.
LEMMA OutsidersKeep ==
  ASSUME BankInv, NEW r \in BankRunners, NEW row \in BankRunRow, bankRun' = [bankRun EXCEPT ![r] = row],
         row.pc \notin Inside,
         UNCHANGED <<txns, summary, overlapped>>, bankRow'.status \in {bankRow.status, "failed"}
  PROVE  OneInside'
<1>1. bankRun \in [BankRunners -> BankRunRow]
  BY DEF BankInv
<1>2. bankRun'[r] = row /\ \A q \in BankRunners : q # r => bankRun'[q] = bankRun[q]
  BY <1>1
<1>3. {"analyse", "insert", "aggregate", "persist"} \subseteq Inside
  BY DEF Inside
<1> QED BY <1>2, <1>3 DEF BankInv, OneInside

\* The parts of the type.
LEMMA BankTyped ==
  ASSUME BankInv
  PROVE  /\ bankRow \in [status: BankStatus, attempts: Nat, backoff: BOOLEAN]
         /\ ocrDone \subseteq BankDocs /\ mirrored \subseteq BankDocs
         /\ bankRun \in [BankRunners -> BankRunRow]
         /\ txns \in [BankDocs -> Nat] /\ summary \in [BankDocs -> Nat]
         /\ bankedAt \in BOOLEAN /\ retries \in 0..MaxBankRetries /\ lost \in 0..MaxLost
         /\ overlapped \in BOOLEAN /\ abandoned \in BOOLEAN
         /\ Idling \in BankRunRow /\ Idling.pc = "idle"
         /\ BankWorkers \subseteq BankRunners /\ BankStaff \subseteq BankRunners
         /\ Statements \subseteq BankDocs
  BY DEF BankInv, Idling, BankRunRow, BankPlace, BankRunners, BankDocs

\* The steps of the pipeline, one at a time.
LEMMA PipelineKeeps ==
  ASSUME BankInv, NEW r \in BankRunners, PipelineStep(r)
  PROVE  BankInv'
<1> USE BankAssumption
<1>t. /\ bankRow \in [status: BankStatus, attempts: Nat, backoff: BOOLEAN]
      /\ ocrDone \subseteq BankDocs /\ mirrored \subseteq BankDocs
      /\ bankRun \in [BankRunners -> BankRunRow] /\ bankRun[r] \in BankRunRow
      /\ txns \in [BankDocs -> Nat] /\ summary \in [BankDocs -> Nat]
      /\ bankedAt \in BOOLEAN /\ retries \in 0..MaxBankRetries /\ lost \in 0..MaxLost
      /\ overlapped \in BOOLEAN /\ abandoned \in BOOLEAN
      /\ Idling \in BankRunRow /\ Idling.pc = "idle" /\ Statements \subseteq BankDocs
  BY BankTyped
<1>i. OneInside
  BY DEF BankInv
<1>p. {"clear", "analyse", "insert", "aggregate", "persist", "mirror", "mark", "done"} \subseteq BankPlace
      /\ "mirror" \notin Inside /\ "done" \notin Inside /\ "idle" \notin Inside /\ "mark" \notin Inside
  BY DEF BankPlace, Inside
\* The run goes from one place to the next.
<1>s. ASSUME NEW from, NEW to \in BankPlace, Step(r, from, to)
      PROVE  \E row \in BankRunRow : /\ bankRun' = [bankRun EXCEPT ![r] = row] /\ row.pc = to
                                     /\ row.docs = bankRun[r].docs /\ bankRun[r].pc = from
                                     /\ bankRun'[r] = row
                                     /\ \A q \in BankRunners : q # r => bankRun'[q] = bankRun[q]
  <2> DEFINE row == [bankRun[r] EXCEPT !.pc = to]
  <2>1. row \in BankRunRow /\ row.pc = to /\ row.docs = bankRun[r].docs
    BY <1>t DEF BankRunRow
  <2>2. bankRun[r].pc = from /\ bankRun' = [bankRun EXCEPT ![r] = row]
    BY <1>s DEF Step
  <2> HIDE DEF row
  <2> QED BY <1>t, <2>1, <2>2
<1>1. ASSUME ReadStatements(r) PROVE BankInv'
  <2> DEFINE row == [bankRun[r] EXCEPT !.pc = "mark", !.docs = Statements]
  <2>1. row \in BankRunRow /\ row.pc = "mark"
    BY <1>t, <1>p DEF BankRunRow
  <2>2. /\ bankRun[r].pc = "read" /\ bankRun' = [bankRun EXCEPT ![r] = row]
        /\ UNCHANGED <<bankRow, ocrDone, txns, summary, mirrored, bankedAt, retries, lost, overlapped, abandoned>>
    BY <1>1 DEF ReadStatements
  <2> HIDE DEF row
  <2>3. OneInside'
    BY <1>p, <2>1, <2>2, OutsidersKeep
  <2>4. AttemptsLeft'
    BY <2>1, <2>2, AttemptsKept DEF Running
  <2> QED BY <1>t, <2>1, <2>2, <2>3, <2>4, RunnerMoves
<1>2. ASSUME MarkInProgress(r) PROVE BankInv'
  <2>1. PICK row \in BankRunRow : /\ bankRun' = [bankRun EXCEPT ![r] = row] /\ row.pc = "clear"
                                  /\ bankRun[r].pc = "mark" /\ bankRun'[r] = row
                                  /\ \A q \in BankRunners : q # r => bankRun'[q] = bankRun[q]
    BY <1>2, <1>p, <1>s DEF MarkInProgress
  <2>2. /\ bankRow' = [bankRow EXCEPT !.status = "in_progress"]
        /\ overlapped' = (overlapped \/ \E q \in BankRunners \ {r} : bankRun[q].pc \in Inside)
        /\ UNCHANGED <<ocrDone, txns, summary, mirrored, bankedAt, retries, lost, abandoned>>
    BY <1>2 DEF MarkInProgress
  <2>3. /\ bankRow' \in [status: BankStatus, attempts: Nat, backoff: BOOLEAN]
        /\ bankRow'.status = "in_progress" /\ bankRow'.attempts = bankRow.attempts
    BY <1>t, <2>2 DEF BankStatus
  <2>4. AttemptsLeft'
    BY <2>1, <2>3, AttemptsKept DEF Running
  <2>5. OneInside'
    <3> SUFFICES ASSUME ~overlapped' PROVE OneInside'
      BY DEF OneInside
    <3>1. ~overlapped /\ \A q \in BankRunners : q # r => bankRun[q].pc \notin Inside
      BY <2>2
    <3>2. \A q \in BankRunners : bankRun'[q].pc \in Inside => q = r
      BY <2>1, <3>1
    <3>3. \A q \in BankRunners : bankRun'[q].pc \notin {"analyse", "insert", "aggregate", "persist"}
      BY <2>1, <3>2 DEF Inside
    <3> QED BY <2>3, <3>2, <3>3 DEF OneInside
  <2>6. overlapped' \in BOOLEAN
    BY <2>2
  <2> QED BY <1>t, <2>1, <2>2, <2>3, <2>4, <2>5, <2>6, RunnerMoves
<1>3. ASSUME ClearTransactions(r) PROVE BankInv'
  <2>1. PICK row \in BankRunRow : /\ bankRun' = [bankRun EXCEPT ![r] = row] /\ row.pc = "analyse"
                                  /\ bankRun[r].pc = "clear" /\ bankRun'[r] = row
                                  /\ \A q \in BankRunners : q # r => bankRun'[q] = bankRun[q]
    BY <1>3, <1>p, <1>s DEF ClearTransactions
  <2>2. /\ txns' = [d \in BankDocs |-> 0] /\ summary' = [d \in BankDocs |-> 0]
        /\ UNCHANGED <<bankRow, ocrDone, mirrored, bankedAt, retries, lost, overlapped, abandoned>>
    BY <1>3 DEF ClearTransactions
  <2>3. AttemptsLeft'
    BY <2>1, <2>2, AttemptsKept DEF Running
  <2>4. OneInside'
    BY <1>i, <2>1, <2>2 DEF OneInside, Inside
  <2> QED BY <1>t, <2>1, <2>2, <2>3, <2>4, RunnerMoves
<1>4. ASSUME AnalyseStatements(r) PROVE BankInv'
  <2>1. PICK found \in SUBSET bankRun[r].docs :
          bankRun' = [bankRun EXCEPT ![r] = [bankRun[r] EXCEPT !.pc = IF found = {} THEN "aggregate" ELSE "insert",
                                                               !.docs = found]]
    BY <1>4 DEF AnalyseStatements
  <2> DEFINE row == [bankRun[r] EXCEPT !.pc = IF found = {} THEN "aggregate" ELSE "insert", !.docs = found]
  <2>2. row \in BankRunRow /\ row.pc \in {"aggregate", "insert"}
    BY <1>t, <1>p DEF BankRunRow
  <2>3. bankRun' = [bankRun EXCEPT ![r] = row]
    BY <2>1
  <2> HIDE DEF row
  <2>4. bankRun'[r] = row /\ \A q \in BankRunners : q # r => bankRun'[q] = bankRun[q]
    BY <1>t, <2>3
  <2>5. /\ bankRun[r].pc = "analyse"
        /\ UNCHANGED <<bankRow, ocrDone, txns, summary, mirrored, bankedAt, retries, lost, overlapped, abandoned>>
    BY <1>4 DEF AnalyseStatements
  <2>6. AttemptsLeft'
    BY <2>2, <2>3, <2>5, AttemptsKept DEF Running
  <2>7. OneInside'
    BY <1>i, <1>t, <2>2, <2>4, <2>5 DEF OneInside, Inside
  <2> QED BY <1>t, <2>2, <2>3, <2>5, <2>6, <2>7, RunnerMoves
<1>5. ASSUME InsertTransactions(r) PROVE BankInv'
  <2>1. PICK row \in BankRunRow : /\ bankRun' = [bankRun EXCEPT ![r] = row] /\ row.pc = "aggregate"
                                  /\ bankRun[r].pc = "insert" /\ bankRun'[r] = row
                                  /\ \A q \in BankRunners : q # r => bankRun'[q] = bankRun[q]
    BY <1>5, <1>p, <1>s DEF InsertTransactions
  <2>2. /\ txns' = [d \in BankDocs |-> IF d \in bankRun[r].docs THEN txns[d] + 1 ELSE txns[d]]
        /\ UNCHANGED <<bankRow, ocrDone, summary, mirrored, bankedAt, retries, lost, overlapped, abandoned>>
    BY <1>5 DEF InsertTransactions
  <2>3. txns' \in [BankDocs -> Nat] /\ \A d \in BankDocs : txns[d] = 0 => txns'[d] <= 1
    <3>1. \A d \in BankDocs : txns[d] + 1 \in Nat /\ (txns[d] = 0 => txns[d] + 1 <= 1 /\ txns[d] <= 1)
      BY <1>t
    <3> QED BY <1>t, <2>2, <3>1
  <2>4. AttemptsLeft'
    BY <2>1, <2>2, AttemptsKept DEF Running
  <2>5. OneInside'
    BY <1>i, <2>1, <2>2, <2>3 DEF OneInside, Inside
  <2> QED BY <1>t, <2>1, <2>2, <2>3, <2>4, <2>5, RunnerMoves
<1>6. ASSUME AggregateMonthlySummaries(r) PROVE BankInv'
  <2>1. PICK row \in BankRunRow : /\ bankRun' = [bankRun EXCEPT ![r] = row] /\ row.pc = "persist"
                                  /\ bankRun[r].pc = "aggregate" /\ bankRun'[r] = row
                                  /\ \A q \in BankRunners : q # r => bankRun'[q] = bankRun[q]
    BY <1>6, <1>p, <1>s DEF AggregateMonthlySummaries
  <2>2. /\ summary' = txns
        /\ UNCHANGED <<bankRow, ocrDone, txns, mirrored, bankedAt, retries, lost, overlapped, abandoned>>
    BY <1>6 DEF AggregateMonthlySummaries
  <2>3. AttemptsLeft'
    BY <2>1, <2>2, AttemptsKept DEF Running
  <2>4. OneInside'
    BY <1>i, <2>1, <2>2 DEF OneInside, Inside
  <2> QED BY <1>t, <2>1, <2>2, <2>3, <2>4, RunnerMoves
<1>7. ASSUME PersistAnalysis(r) PROVE BankInv'
  <2>1. PICK row \in BankRunRow : /\ bankRun' = [bankRun EXCEPT ![r] = row] /\ row.pc = "mirror"
                                  /\ bankRun[r].pc = "persist" /\ bankRun'[r] = row
                                  /\ \A q \in BankRunners : q # r => bankRun'[q] = bankRun[q]
    BY <1>7, <1>p, <1>s DEF PersistAnalysis
  <2>2. /\ bankRow' = [bankRow EXCEPT !.status = "analysis_complete"]
        /\ UNCHANGED <<ocrDone, txns, summary, mirrored, bankedAt, retries, lost, overlapped, abandoned>>
    BY <1>7 DEF PersistAnalysis
  <2>3. /\ bankRow' \in [status: BankStatus, attempts: Nat, backoff: BOOLEAN]
        /\ bankRow'.status = "analysis_complete" /\ bankRow'.attempts = bankRow.attempts
    BY <1>t, <2>2 DEF BankStatus
  <2>4. AttemptsLeft'
    BY <2>1, <2>3, AttemptsKept DEF Running
  <2>5. OneInside'
    <3> SUFFICES ASSUME ~overlapped PROVE OneInside'
      BY <2>2 DEF OneInside
    <3>1. \A q \in BankRunners : bankRun'[q].pc \notin Inside
      BY <1>i, <1>p, <2>1 DEF OneInside, Inside
    <3>2. summary = txns /\ \A d \in BankDocs : txns[d] <= 1
      BY <1>i, <2>1 DEF OneInside
    <3> QED BY <2>2, <3>1, <3>2 DEF OneInside, Inside
  <2> QED BY <1>t, <2>1, <2>2, <2>3, <2>4, <2>5, RunnerMoves
<1>8. ASSUME MirrorDocuments(r) PROVE BankInv'
  <2> DEFINE row == IF r \in BankWorkers THEN Idling ELSE [bankRun[r] EXCEPT !.pc = "done"]
  <2>1. row \in BankRunRow /\ row.pc \in {"idle", "done"}
    BY <1>t, <1>p DEF BankRunRow
  <2>2. bankRun' = [bankRun EXCEPT ![r] = row]
    BY <1>8 DEF MirrorDocuments
  <2>3. /\ mirrored' \subseteq BankDocs /\ bankedAt' = TRUE
        /\ UNCHANGED <<bankRow, ocrDone, txns, summary, retries, lost, overlapped, abandoned>>
    BY <1>8, <1>t DEF MirrorDocuments
  <2> HIDE DEF row
  <2>4. OneInside'
    BY <1>p, <2>1, <2>2, <2>3, OutsidersKeep
  <2>5. AttemptsLeft'
    BY <2>1, <2>2, <2>3, AttemptsKept
  <2> QED BY <1>t, <2>1, <2>2, <2>3, <2>4, <2>5, RunnerMoves
<1> QED BY <1>1, <1>2, <1>3, <1>4, <1>5, <1>6, <1>7, <1>8 DEF PipelineStep

\* A worker writes its failure: one attempt more, one worker less at work.
LEMMA WriteFailedKeeps ==
  ASSUME BankInv, NEW w \in BankWorkers, Running(w), WriteFailed(w),
         UNCHANGED <<ocrDone, txns, summary, mirrored, bankedAt, retries, lost, overlapped>>
  PROVE  BankInv'
<1> USE BankAssumption
<1>t. /\ bankRow \in [status: BankStatus, attempts: Nat, backoff: BOOLEAN]
      /\ ocrDone \subseteq BankDocs /\ mirrored \subseteq BankDocs
      /\ bankRun \in [BankRunners -> BankRunRow] /\ w \in BankRunners
      /\ txns \in [BankDocs -> Nat] /\ summary \in [BankDocs -> Nat]
      /\ bankedAt \in BOOLEAN /\ retries \in 0..MaxBankRetries /\ lost \in 0..MaxLost
      /\ overlapped \in BOOLEAN /\ abandoned \in BOOLEAN
      /\ Idling \in BankRunRow /\ Idling.pc = "idle" /\ "idle" \notin Inside
  BY BankTyped DEF Inside
<1>1. /\ bankRun' = [bankRun EXCEPT ![w] = Idling] /\ UNCHANGED abandoned
      /\ bankRow' = [status |-> "failed", attempts |-> bankRow.attempts + 1, backoff |-> TRUE]
  BY DEF WriteFailed, Stops
<1>2. /\ bankRow' \in [status: BankStatus, attempts: Nat, backoff: BOOLEAN]
      /\ bankRow'.status = "failed" /\ bankRow'.attempts = bankRow.attempts + 1
  <2>1. bankRow.attempts + 1 \in Nat
    BY <1>t
  <2> QED BY <1>1, <2>1 DEF BankStatus
<1>3. AtWork' = AtWork \ {w} /\ w \in AtWork
  BY <1>t, <1>1 DEF AtWork, Running
<1>4. Cardinality(AtWork') = Cardinality(AtWork) - 1
  BY <1>3, WorkersFinite, FS_RemoveElement
<1> DEFINE m == Cardinality(AtWork)  n == Cardinality(AtWork')  a == bankRow.attempts  b == bankRow'.attempts
           top == MaxBankAttempts - 1 + Cardinality(BankWorkers)
<1>5. a \in Nat /\ a + m <= top /\ b = a + 1 /\ n = m - 1 /\ m \in Nat /\ top \in Int
  BY <1>2, <1>4, WorkersFinite DEF BankInv, AttemptsLeft
<1>6. b \in Nat /\ b + n <= top
  <2> HIDE DEF m, n, a, b, top
  <2> QED BY <1>5
<1>7. AttemptsLeft'
  BY <1>2, <1>6 DEF AttemptsLeft
<1>8. OneInside'
  BY <1>t, <1>1, <1>2, OutsidersKeep
<1> QED BY <1>t, <1>1, <1>2, <1>7, <1>8, RunnerMoves

\* A runner stops and leaves the row as it is.
LEMMA LeavesRowKeeps ==
  ASSUME BankInv, NEW r \in BankRunners, Running(r), LeavesRow(r), lost' \in 0..MaxLost,
         UNCHANGED <<ocrDone, txns, summary, mirrored, bankedAt, retries, overlapped>>
  PROVE  BankInv'
<1>t. /\ bankRow \in [status: BankStatus, attempts: Nat, backoff: BOOLEAN]
      /\ ocrDone \subseteq BankDocs /\ mirrored \subseteq BankDocs
      /\ bankRun[r] \in BankRunRow
      /\ txns \in [BankDocs -> Nat] /\ summary \in [BankDocs -> Nat]
      /\ bankedAt \in BOOLEAN /\ retries \in 0..MaxBankRetries
      /\ overlapped \in BOOLEAN /\ abandoned \in BOOLEAN
      /\ Idling \in BankRunRow /\ Idling.pc = "idle" /\ {"idle", "done"} \cap Inside = {}
      /\ "done" \in BankPlace
  BY BankTyped DEF Inside, BankPlace
<1> DEFINE row == IF r \in BankWorkers THEN Idling ELSE [bankRun[r] EXCEPT !.pc = "done"]
<1>1. row \in BankRunRow /\ row.pc \in {"idle", "done"} /\ row.pc \notin Inside
  BY <1>t DEF BankRunRow
<1>2. bankRun' = [bankRun EXCEPT ![r] = row] /\ UNCHANGED bankRow /\ abandoned' \in BOOLEAN
  BY DEF LeavesRow, Stops
<1> HIDE DEF row
<1>3. OneInside'
  BY <1>1, <1>2, OutsidersKeep
<1>4. AttemptsLeft'
  BY <1>1, <1>2, AttemptsKept
<1> QED BY <1>t, <1>1, <1>2, <1>3, <1>4, RunnerMoves

\* Every step of the banking analysis preserves the invariant.
LEMMA BankKeeps == BankInv /\ [BankNext]_bankVars => BankInv'
<1> SUFFICES ASSUME BankInv, [BankNext]_bankVars PROVE BankInv'
  OBVIOUS
<1> USE BankAssumption
<1>t. /\ bankRow \in [status: BankStatus, attempts: Nat, backoff: BOOLEAN]
      /\ ocrDone \subseteq BankDocs /\ mirrored \subseteq BankDocs
      /\ bankRun \in [BankRunners -> BankRunRow]
      /\ txns \in [BankDocs -> Nat] /\ summary \in [BankDocs -> Nat]
      /\ bankedAt \in BOOLEAN /\ retries \in 0..MaxBankRetries /\ lost \in 0..MaxLost
      /\ overlapped \in BOOLEAN /\ abandoned \in BOOLEAN
      /\ BankWorkers \subseteq BankRunners /\ BankStaff \subseteq BankRunners
  BY BankTyped
<1>i. OneInside /\ AttemptsLeft
  BY DEF BankInv
<1>1. ASSUME NEW d \in BankDocs, OcrCompletes(d) PROVE BankInv'
  <2>1. /\ ocrDone' \subseteq BankDocs
        /\ UNCHANGED <<bankRow, bankRun, txns, summary, mirrored, bankedAt, retries, lost, overlapped, abandoned>>
    BY <1>1, <1>t DEF OcrCompletes
  <2> QED BY <2>1 DEF BankInv, OneInside, AttemptsLeft, AtWork, Running
<1>2. ASSUME NEW w \in BankWorkers, PollBanking(w) PROVE BankInv'
  <2> DEFINE row == [bankRun[w] EXCEPT !.pc = "read"]
  <2>1. row \in BankRunRow /\ row.pc = "read" /\ "read" \notin Inside
    BY <1>t DEF BankRunRow, BankPlace, Inside
  <2>2. /\ bankRun' = [bankRun EXCEPT ![w] = row] /\ Due
        /\ UNCHANGED <<bankRow, ocrDone, txns, summary, mirrored, bankedAt, retries, lost, overlapped, abandoned>>
    BY <1>2 DEF PollBanking
  <2> HIDE DEF row
  <2>3. OneInside'
    BY <1>t, <2>1, <2>2, OutsidersKeep
  <2>4. bankRow.attempts \in Nat /\ bankRow.attempts <= MaxBankAttempts - 1
    BY <1>i, <1>t, <2>2 DEF Due, AttemptsLeft
  <2> DEFINE n == Cardinality(AtWork')  a == bankRow.attempts  k == Cardinality(BankWorkers)
  <2>5. a \in Nat /\ a <= MaxBankAttempts - 1 /\ n \in Nat /\ n <= k /\ k \in Nat
    BY <2>4, WorkersFinite
  <2>6. a + n <= MaxBankAttempts - 1 + k
    <3> HIDE DEF n, a, k
    <3> QED BY <2>5
  <2>7. AttemptsLeft'
    BY <1>i, <2>2, <2>6 DEF AttemptsLeft
  <2> QED BY <1>t, <2>1, <2>2, <2>3, <2>7, RunnerMoves
<1>3. ASSUME NEW m \in BankStaff, RunByHand(m) PROVE BankInv'
  <2> DEFINE row == [pc |-> "read", docs |-> {}, ready |-> ocrDone]
  <2>1. row \in BankRunRow /\ row.pc = "read" /\ "read" \notin Inside
    BY <1>t DEF BankRunRow, BankPlace, Inside
  <2>2. /\ bankRun' = [bankRun EXCEPT ![m] = row]
        /\ UNCHANGED <<bankRow, ocrDone, txns, summary, mirrored, bankedAt, retries, lost, overlapped, abandoned>>
    BY <1>3 DEF RunByHand
  <2> HIDE DEF row
  <2>3. m \in BankRunners /\ m \notin BankWorkers
    BY <1>t
  <2>4. OneInside'
    BY <2>1, <2>2, <2>3, OutsidersKeep
  <2>5. AttemptsLeft'
    BY <2>1, <2>2, <2>3, AttemptsKept
  <2> QED BY <1>t, <2>1, <2>2, <2>3, <2>4, <2>5, RunnerMoves
<1>4. ASSUME RetryBanking PROVE BankInv'
  <2>1. /\ bankRow' = [status |-> "pending", attempts |-> 0, backoff |-> FALSE] /\ retries' = retries + 1
        /\ retries < MaxBankRetries
        /\ UNCHANGED <<ocrDone, bankRun, txns, summary, mirrored, bankedAt, lost, overlapped, abandoned>>
    BY <1>4 DEF RetryBanking
  <2>2. retries + 1 \in 0..MaxBankRetries
    BY <1>t, <2>1
  <2>3. /\ bankRow' \in [status: BankStatus, attempts: Nat, backoff: BOOLEAN]
        /\ bankRow'.status = "pending" /\ bankRow'.attempts = 0
    BY <2>1 DEF BankStatus
  <2> DEFINE n == Cardinality(AtWork')  k == Cardinality(BankWorkers)
  <2>4. n \in Nat /\ n <= k /\ k \in Nat
    BY WorkersFinite
  <2>5. 0 + n <= MaxBankAttempts - 1 + k
    <3> HIDE DEF n, k
    <3> QED BY <2>4
  <2>6. AttemptsLeft'
    BY <2>3, <2>5 DEF AttemptsLeft
  <2>7. OneInside'
    BY <1>i, <2>1, <2>3 DEF OneInside
  <2> QED BY <1>t, <2>1, <2>2, <2>3, <2>6, <2>7 DEF BankInv
<1>5. ASSUME BackoffEnds PROVE BankInv'
  <2>1. /\ bankRow' = [bankRow EXCEPT !.backoff = FALSE]
        /\ UNCHANGED <<ocrDone, bankRun, txns, summary, mirrored, bankedAt, retries, lost, overlapped, abandoned>>
    BY <1>5 DEF BackoffEnds
  <2>2. /\ bankRow' \in [status: BankStatus, attempts: Nat, backoff: BOOLEAN]
        /\ bankRow'.status = bankRow.status /\ bankRow'.attempts = bankRow.attempts
    BY <1>t, <2>1
  <2> QED BY <2>1, <2>2 DEF BankInv, OneInside, AttemptsLeft, AtWork, Running
<1>6. ASSUME NEW r \in BankRunners, BankingFails(r) PROVE BankInv'
  <2>1. Running(r) /\ UNCHANGED <<ocrDone, txns, summary, mirrored, bankedAt, retries, lost, overlapped>>
    BY <1>6 DEF BankingFails
  <2>2. CASE r \in BankWorkers
    <3>1. WriteFailed(r)
      BY <1>6, <2>2 DEF BankingFails
    <3> QED BY <2>1, <2>2, <3>1, WriteFailedKeeps
  <2>3. CASE r \notin BankWorkers
    <3>1. LeavesRow(r) /\ lost' \in 0..MaxLost
      BY <1>6, <1>t, <2>1, <2>3 DEF BankingFails
    <3> QED BY <2>1, <3>1, LeavesRowKeeps
  <2> QED BY <2>2, <2>3
<1>7. ASSUME NEW w \in BankWorkers, ReportLost(w) PROVE BankInv'
  <2>1. /\ Running(w) /\ LeavesRow(w) /\ lost < MaxLost /\ lost' = lost + 1
        /\ UNCHANGED <<ocrDone, txns, summary, mirrored, bankedAt, retries, overlapped>>
    BY <1>7 DEF ReportLost
  <2>2. lost + 1 \in 0..MaxLost
    BY <1>t, <2>1
  <2>3. lost' \in 0..MaxLost
    BY <2>1, <2>2
  <2> QED BY <1>t, <2>1, <2>3, LeavesRowKeeps
<1>8. CASE UNCHANGED bankVars
  BY <1>8 DEF bankVars, BankInv, OneInside, AttemptsLeft, AtWork, Running
<1> QED BY <1>1, <1>2, <1>3, <1>4, <1>5, <1>6, <1>7, <1>8, PipelineKeeps DEF BankNext

\* The invariant implies what the run checks.
LEMMA BankInvImplies == BankInv => BankTypeOK /\ AnalysisIsWhole /\ BankAttemptsBounded
<1> SUFFICES ASSUME BankInv PROVE BankTypeOK /\ AnalysisIsWhole /\ BankAttemptsBounded
  OBVIOUS
<1> DEFINE m == Cardinality(AtWork)  a == bankRow.attempts  k == Cardinality(BankWorkers)
<1>1. a \in Nat /\ m \in Nat /\ k \in Nat /\ a + m <= MaxBankAttempts - 1 + k /\ MaxBankAttempts \in Nat
  BY WorkersFinite, BankAssumption DEF BankInv, AttemptsLeft
<1>2. a \in 0..(MaxBankAttempts + k) /\ a <= MaxBankAttempts + k - 1
  <2> HIDE DEF m, a, k
  <2> QED BY <1>1
<1>3. BankTypeOK
  BY <1>2, BankTyped DEF BankTypeOK, BankStatus, BankRunRow, BankPlace
<1>4. AnalysisIsWhole
  <2> SUFFICES ASSUME BankingReport.status = "analysis_complete", ~overlapped
               PROVE  (\A d \in BankDocs : txns[d] <= 1) /\ BankingReport.monthGroups = txns
    BY DEF AnalysisIsWhole
  <2>1. bankRow.status \in {"none", "analysis_complete"}
    BY DEF BankingReport
  <2>2. summary = txns /\ \A d \in BankDocs : txns[d] <= 1
    BY <2>1 DEF BankInv, OneInside
  <2> QED BY <2>2 DEF BankingReport
<1> QED BY <1>2, <1>3, <1>4 DEF BankAttemptsBounded

-----------------------------------------------------------------------------
(* The services of the run, one of which a behaviour picks.                  *)

\* The picked service starts as it would alone.
LEMMA RecordsStart ==
  Init =>
    /\ part = "catalogue" => CatInit
    /\ part = "matches" => MatchInit
    /\ part = "notices" => NoticeInit
    /\ part = "intake" => IntakeInit
    /\ part = "documents" => DocInit
    /\ part = "calls" => CallInit
    /\ part = "messages" => CommInit
    /\ part = "credit" => CreditInit
    /\ part = "office" => OfficeInit
    /\ part = "banking" => BankInit
BY DEF Init

\* A step is one of the picked service, or leaves it as it is.
LEMMA RecordsMove ==
  [Next]_servicesVars =>
    /\ part' = part
    /\ part = "catalogue" => [CatNext]_catVars
    /\ part = "matches" => [MatchNext]_matchVars
    /\ part = "notices" => [NoticeNext]_noticeVars
    /\ part = "intake" => [IntakeNext]_intakeVars
    /\ part = "documents" => [DocNext]_docVars
    /\ part = "calls" => [CallNext]_callVars
    /\ part = "messages" => [CommNext]_commVars
    /\ part = "credit" => [CreditNext]_creditVars
    /\ part = "office" => [OfficeNext]_officeVars
    /\ part = "banking" => [BankNext]_bankVars
<1> SUFFICES ASSUME [Next]_servicesVars
             PROVE  /\ part' = part
                    /\ part = "catalogue" => [CatNext]_catVars
                    /\ part = "matches" => [MatchNext]_matchVars
                    /\ part = "notices" => [NoticeNext]_noticeVars
                    /\ part = "intake" => [IntakeNext]_intakeVars
                    /\ part = "documents" => [DocNext]_docVars
                    /\ part = "calls" => [CallNext]_callVars
                    /\ part = "messages" => [CommNext]_commVars
                    /\ part = "credit" => [CreditNext]_creditVars
                    /\ part = "office" => [OfficeNext]_officeVars
                    /\ part = "banking" => [BankNext]_bankVars
  OBVIOUS
<1>1. CASE UNCHANGED servicesVars
  BY <1>1 DEF servicesVars
<1>2. CASE Only("auth") /\ AuthNext
  BY <1>2 DEF Only
<1>3. CASE Only("catalogue") /\ CatNext
  BY <1>3 DEF Only
<1>4. CASE Only("matches") /\ MatchNext
  BY <1>4 DEF Only
<1>5. CASE Only("requirements") /\ ReqNext
  BY <1>5 DEF Only
<1>6. CASE Only("sync") /\ SyncNext
  BY <1>6 DEF Only
<1>7. CASE Only("idempotency") /\ HttpNext
  BY <1>7 DEF Only
<1>8. CASE Only("push") /\ PushNext
  BY <1>8 DEF Only
<1>9. CASE Only("notices") /\ NoticeNext
  BY <1>9 DEF Only
<1>10. CASE Only("intake") /\ IntakeNext
  BY <1>10 DEF Only
<1>11. CASE Only("documents") /\ DocNext
  BY <1>11 DEF Only
<1>12. CASE Only("calls") /\ CallNext
  BY <1>12 DEF Only
<1>13. CASE Only("messages") /\ CommNext
  BY <1>13 DEF Only
<1>14. CASE Only("credit") /\ CreditNext
  BY <1>14 DEF Only
<1>15. CASE Only("operations") /\ OpsNext
  BY <1>15 DEF Only
<1>16. CASE Only("office") /\ OfficeNext
  BY <1>16 DEF Only
<1>17. CASE Only("banking") /\ BankNext
  BY <1>17 DEF Only
<1> QED BY <1>1, <1>2, <1>3, <1>4, <1>5, <1>6, <1>7, <1>8, <1>9, <1>10, <1>11, <1>12, <1>13, <1>14, <1>15, <1>16, <1>17 DEF Next

\* What holds of whichever service is picked.
RecordsInv ==
  /\ part = "catalogue" => CatInv
  /\ part = "matches" => MatchInv
  /\ part = "notices" => NoticeInv
  /\ part = "intake" => IntakeInv
  /\ part = "documents" => DocInv
  /\ part = "calls" => CallInv
  /\ part = "messages" => CommInv
  /\ part = "credit" => CreditInv
  /\ part = "office" => OfficeInv
  /\ part = "banking" => BankInv

\* Every behaviour of the run keeps the invariant of the service it picked.
THEOREM RecordsInvariant == Spec => []RecordsInv
<1>1. Init => RecordsInv
  BY RecordsStart, CatStarts, MatchStarts, NoticeStarts, IntakeStarts, DocStarts, CallStarts, CommStarts, CreditStarts, OfficeStarts, BankStarts DEF RecordsInv
<1>2. RecordsInv /\ [Next]_servicesVars => RecordsInv'
  <2> SUFFICES ASSUME RecordsInv, [Next]_servicesVars PROVE RecordsInv'
    OBVIOUS
  <2>0. part' = part
    BY RecordsMove
  <2>1. part = "catalogue" => CatInv'
    BY RecordsMove, CatKeeps DEF RecordsInv
  <2>2. part = "matches" => MatchInv'
    BY RecordsMove, MatchKeeps DEF RecordsInv
  <2>3. part = "notices" => NoticeInv'
    BY RecordsMove, NoticeKeeps DEF RecordsInv
  <2>4. part = "intake" => IntakeInv'
    BY RecordsMove, IntakeKeeps DEF RecordsInv
  <2>5. part = "documents" => DocInv'
    BY RecordsMove, DocKeeps DEF RecordsInv
  <2>6. part = "calls" => CallInv'
    BY RecordsMove, CallKeeps DEF RecordsInv
  <2>7. part = "messages" => CommInv'
    BY RecordsMove, CommKeeps DEF RecordsInv
  <2>8. part = "credit" => CreditInv'
    BY RecordsMove, CreditKeeps DEF RecordsInv
  <2>9. part = "office" => OfficeInv'
    BY RecordsMove, OfficeKeeps DEF RecordsInv
  <2>10. part = "banking" => BankInv'
    BY RecordsMove, BankKeeps DEF RecordsInv
  <2> QED BY <2>0, <2>1, <2>2, <2>3, <2>4, <2>5, <2>6, <2>7, <2>8, <2>9, <2>10 DEF RecordsInv
<1> QED BY <1>1, <1>2, PTL DEF Spec, servicesVars

\* LenderCatalogue: a submission method has its own target and no other, and the
\* company in the CRM follows its lender.
THEOREM LendersStayWhole == Spec => []LendersAreWhole
<1>1. RecordsInv => LendersAreWhole
  BY CatInvImplies DEF RecordsInv, LendersAreWhole
<1> QED BY <1>1, RecordsInvariant, PTL

\* LenderMatches: matches that show as ready were computed from what is known now.
THEOREM MatchesStayCurrent == Spec => []MatchesAreCurrent
<1>1. RecordsInv => MatchesAreCurrent
  BY MatchInvImplies DEF RecordsInv, MatchesAreCurrent
<1> QED BY <1>1, RecordsInvariant, PTL

\* StaffNotices: whoever a note mentions is notified, is about to be, or the
\* notification was lost on its way.
THEOREM MentionsDoArrive == Spec => []MentionsArrive
<1>1. RecordsInv => MentionsArrive
  BY NoticeInvImplies DEF RecordsInv, MentionsArrive
<1> QED BY <1>1, RecordsInvariant, PTL

\* ReadinessIntake: a session becomes at most one application.
THEOREM SessionsStayOne == Spec => []SessionsConvertOnce
<1>1. RecordsInv => SessionsConvertOnce
  BY IntakeInvImplies DEF RecordsInv, SessionsConvertOnce
<1> QED BY <1>1, RecordsInvariant, PTL

\* DocumentVersions: an accepted document has an accepted version, and the readers
\* of its status agree.
THEOREM ReviewsStayBacked == Spec => []ReviewsAreBacked
<1>1. RecordsInv => ReviewsAreBacked
  BY DocInvImplies DEF RecordsInv, ReviewsAreBacked
<1> QED BY <1>1, RecordsInvariant, PTL

\* CallLogs: a call that is over in the log is over, was refused or was ended by
\* hand.
THEOREM CallsEndOnce == Spec => []CallsEndTogether
<1>1. RecordsInv => CallsEndTogether
  BY CallInvImplies DEF RecordsInv, CallsEndTogether
<1> QED BY <1>1, RecordsInvariant, PTL

\* Communications: a text is stored once, and the thread of its contact or number
\* and the timeline of its client show it in the silo of its sender, unless as
\* many rows precede it (or follow it) as that reader's limit holds.
THEOREM ConversationsStayWhole == Spec => []ConversationsAreWhole
<1>1. RecordsInv => ConversationsAreWhole
  BY CommInvImplies DEF RecordsInv, ConversationsAreWhole
<1> QED BY <1>1, RecordsInvariant, PTL

\* CreditSummaries: the history holds every version once, and the stamp is backed
\* by a submitted one.
THEOREM SummariesStayKept == Spec => []SummariesAreKept
<1>1. RecordsInv => SummariesAreKept
  BY CreditInvImplies DEF RecordsInv, SummariesAreKept
<1> QED BY <1>1, RecordsInvariant, PTL

\* Office365: a call tried again with a new token acts once, and a To-Do item goes
\* with its task.
THEOREM OfficeStaysInStep == Spec => []OfficeIsInStep
<1>1. RecordsInv => OfficeIsInStep
  BY OfficeInvImplies DEF RecordsInv, OfficeIsInStep
<1> QED BY <1>1, RecordsInvariant, PTL

\* BankingAnalysis: a complete analysis counts every statement once and shows its
\* months, and the attempts end.
THEOREM AnalysesStayWhole == Spec => []AnalysesAreWhole
<1>1. RecordsInv => AnalysesAreWhole
  BY BankInvImplies DEF RecordsInv, AnalysesAreWhole
<1> QED BY <1>1, RecordsInvariant, PTL

\* DocumentVersions: a document with an accepted version gets no further one,
\* except from an upload that was already under way.
THEOREM AcceptedStaysFinal == Spec => AcceptedIsFinal
<1>1. RecordsInv /\ [Next]_servicesVars => [part = "documents" => AcceptedStays]_docVars
  BY RecordsMove, AcceptedStaysOnStep DEF RecordsInv
<1> QED BY <1>1, RecordsInvariant, PTL DEF Spec, AcceptedIsFinal, servicesVars
=============================================================================
