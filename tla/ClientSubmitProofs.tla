------------------------- MODULE ClientSubmitProofs -------------------------
(***************************************************************************)
(* What resubmitting may never undo and never multiply, for any number of   *)
(* requests in flight and of requests made.                                 *)
(***************************************************************************)
EXTENDS ClientSubmit, FiniteSetTheorems, SequenceTheorems, TLAPS

\* The shapes of a request and of a mirror between two statements.
RequestState ==
       [pc : {"idle", "leg", "legInsert", "companion", "companionInsert", "normalize"}]
  \cup [pc : {"patch"}, form : Nat]
  \cup [pc : {"archive"}, row : Nat]
  \cup [pc : {"contact"}, company : Nat]
  \cup [pc : {"commit"}, company : Nat, email : BOOLEAN, found : BOOLEAN]

MirrorState ==
       [pc : {"idle", "company"}]
  \cup [pc : {"companyInsert", "contact", "link"}, company : Nat]
  \cup [pc : {"contactInsert"}, company : Nat, email : BOOLEAN]

\* The part of the type invariant the theorems below rest on.
Shape ==
  /\ app \in [stage : Stages, form : Nat, sent : Nat, staff : BOOLEAN, company : Nat]
  /\ companies \in Nat
  /\ comps \in Seq({"live", "archived"})
  /\ h \in [Handlers -> RequestState]
  /\ m \in [Handlers -> MirrorState]

\* The inductive invariant.
IInv == Shape /\ FormIsLatest /\ StaffStageStands /\ NormalizedIsWhole

\* A request moves to another state.
LEMMA BecomeType ==
  ASSUME Shape, NEW s \in Handlers, NEW next \in RequestState, Become(s, next)
  PROVE  h' \in [Handlers -> RequestState]
  BY DEF Shape, Become

\* A mirror moves to another state.
LEMMA MirrorBecomesType ==
  ASSUME Shape, NEW s \in Handlers, NEW next \in MirrorState, MirrorBecomes(s, next)
  PROVE  m' \in [Handlers -> MirrorState]
  BY DEF Shape, MirrorBecomes

\* What a request remembers in the states that remember something.
LEMMA Remembered ==
  ASSUME Shape, NEW s \in Handlers
  PROVE  /\ At(s, "patch") => h[s].form \in Nat
         /\ At(s, "contact") \/ At(s, "commit") => h[s].company \in Nat
         /\ At(s, "commit") => h[s].email \in BOOLEAN
         /\ m[s].pc \in {"companyInsert", "contact", "contactInsert", "link"} =>
              m[s].company \in Nat
         /\ MirrorAt(s, "contactInsert") => m[s].email \in BOOLEAN
  BY DEF Shape, RequestState, MirrorState, At, MirrorAt

\* What the mirror goes on to with its last statement.
LEMMA ToLinkType ==
  ASSUME NEW c \in Nat
  PROVE  /\ ToLink(c) \in MirrorState
         /\ ToLink(c).pc \in {"idle", "link"}
         /\ ToLink(c).pc = "link" => ToLink(c).company = c
  BY DEF ToLink, MirrorState, Idle

\* A lookup of the company returns None or a row.
LEMMA MatchesAreRows ==
  ASSUME companies \in Nat
  PROVE  CompanyMatches \subseteq Nat
  BY DEF CompanyMatches, None

\* The company a transaction commits to, the one found or the new one, is a row.
LEMMA NewCompanyIsRow ==
  ASSUME NEW found \in Nat, NEW n \in Nat
  PROVE  (IF found = None THEN n + 1 ELSE found) # None
  BY DEF None

\* After a submit the stage is still one of the stages.
LEMMA StageType ==
  ASSUME Shape, NEW uploaded \in BOOLEAN
  PROVE  StageOnSubmit(uploaded) \in Stages
  BY DEF Shape, StageOnSubmit, Stages, Unset

\* The initial states satisfy the invariant.
LEMMA InitIInv == Init => IInv
<1> SUFFICES ASSUME Init PROVE IInv
  OBVIOUS
<1>1. app \in [stage : Stages, form : Nat, sent : Nat, staff : BOOLEAN, company : Nat]
  <2>1. /\ {"draft", "Received"} \subseteq Stages
        /\ {0} \subseteq Nat
        /\ {None} \subseteq Nat
        /\ {FALSE} \subseteq BOOLEAN
    BY DEF Stages, Unset, None
  <2>2. ASSUME NEW A, NEW B, NEW C, NEW D, NEW a,
               A \subseteq Stages, B \subseteq Nat, C \subseteq BOOLEAN, D \subseteq Nat,
               a \in [stage : A, form : B, sent : B, staff : C, company : D]
        PROVE  a \in [stage : Stages, form : Nat, sent : Nat, staff : BOOLEAN, company : Nat]
    BY <2>2
  <2> QED
    BY <2>1, <2>2 DEF Init
<1>2. Idle \in RequestState /\ Idle \in MirrorState
  BY DEF Idle, RequestState, MirrorState
<1>3. Shape
  BY <1>1, <1>2 DEF Init, Shape
<1>4. FormIsLatest /\ StaffStageStands /\ NormalizedIsWhole
  BY DEF Init, FormIsLatest, StaffStageStands, NormalizedIsWhole
<1> QED
  BY <1>3, <1>4 DEF IInv

\* Every step keeps the shapes.
LEMMA NextShape == Shape /\ [Next]_vars => Shape'
<1> SUFFICES ASSUME Shape, [Next]_vars PROVE Shape'
  OBVIOUS
<1> USE DEF Shape
<1>1. ASSUME NEW s \in Handlers, PatchRead(s) PROVE Shape'
  <2>1. [pc |-> "patch", form |-> app.form] \in RequestState
    BY DEF RequestState
  <2> QED
    BY <1>1, <2>1, BecomeType DEF PatchRead, rows
<1>2. ASSUME NEW s \in Handlers, PatchWrite(s) PROVE Shape'
  <2>1. Idle \in RequestState
    BY DEF RequestState, Idle
  <2> QED
    BY <1>2, <2>1, BecomeType, Remembered DEF PatchWrite, Patched
<1>3. ASSUME NEW s \in Handlers, SubmitUpdate(s) PROVE Shape'
  <2>1. [pc |-> "leg"] \in RequestState
    BY DEF RequestState
  <2>2. h' \in [Handlers -> RequestState]
    BY <1>3, <2>1, BecomeType DEF SubmitUpdate
  <2>3. app' \in [stage : Stages, form : Nat, sent : Nat, staff : BOOLEAN, company : Nat]
    <3>1. PICK uploaded \in BOOLEAN :
            app' = [app EXCEPT !.form = app.sent + 1, !.sent = app.sent + 1,
                               !.stage = StageOnSubmit(uploaded)]
      BY <1>3 DEF SubmitUpdate
    <3>2. StageOnSubmit(uploaded) \in Stages
      BY StageType
    <3>3. ASSUME NEW n \in Nat, NEW stage \in Stages
          PROVE  [app EXCEPT !.form = n, !.sent = n, !.stage = stage]
                   \in [stage : Stages, form : Nat, sent : Nat, staff : BOOLEAN, company : Nat]
      OBVIOUS
    <3>4. app.sent + 1 \in Nat
      OBVIOUS
    <3> QED
      BY <3>1, <3>2, <3>3, <3>4
  <2> QED
    BY <1>3, <2>2, <2>3 DEF SubmitUpdate
<1>4. ASSUME NEW s \in Handlers, SubmitNormalized(s) PROVE Shape'
  <2>1. [pc |-> "normalize"] \in RequestState
    BY DEF RequestState
  <2> QED
    BY <1>4, <2>1, BecomeType DEF SubmitNormalized, rows
<1>5. ASSUME NEW s \in Handlers, LegSelect(s) \/ LegInsert(s) PROVE Shape'
  <2>1. [pc |-> "legInsert"] \in RequestState /\ [pc |-> "companion"] \in RequestState
    BY DEF RequestState
  <2> QED
    BY <1>5, <2>1, BecomeType DEF LegSelect, LegInsert, rows
<1>6. ASSUME NEW s \in Handlers, CompanionSelect(s) PROVE Shape'
  <2>1. [pc |-> "companionInsert"] \in RequestState
    BY DEF RequestState
  <2> QED
    BY <1>6, <2>1, BecomeType DEF CompanionSelect, rows
<1>7. ASSUME NEW s \in Handlers, GoOn(s)
      PROVE  h' \in [Handlers -> RequestState] /\ m' \in [Handlers -> MirrorState]
  <2>1. [pc |-> "normalize"] \in RequestState /\ [pc |-> "company"] \in MirrorState
    BY DEF RequestState, MirrorState
  <2> QED
    BY <1>7, <2>1, BecomeType, MirrorBecomesType DEF GoOn
<1>8. ASSUME NEW s \in Handlers, CompanionInsert(s) \/ NoCompanion(s) PROVE Shape'
  <2>1. Append(comps, "live") \in Seq({"live", "archived"})
    BY AppendProperties
  <2>2. GoOn(s)
    BY <1>8 DEF CompanionInsert, NoCompanion
  <2>3. CASE CompanionInsert(s)
    BY <1>7, <2>1, <2>2, <2>3 DEF CompanionInsert
  <2>4. CASE NoCompanion(s)
    BY <1>7, <2>2, <2>4 DEF NoCompanion, rows
  <2> QED
    BY <1>8, <2>3, <2>4
<1>9. ASSUME NEW s \in Handlers, OrphanSelect(s) PROVE Shape'
  <2>1. PICK i \in DOMAIN comps : Become(s, [pc |-> "archive", row |-> i])
    BY <1>9 DEF OrphanSelect
  <2>2. [pc |-> "archive", row |-> i] \in RequestState
    BY DEF RequestState
  <2> QED
    BY <1>9, <2>1, <2>2, BecomeType DEF OrphanSelect, rows
<1>10. ASSUME NEW s \in Handlers, OrphanArchive(s) PROVE Shape'
  <2>1. [comps EXCEPT ![h[s].row] = "archived"] \in Seq({"live", "archived"})
    <3>1. CASE h[s].row \in 1 .. Len(comps)
      BY <3>1, ExceptSeq
    <3>2. CASE h[s].row \notin 1 .. Len(comps)
      <4>1. [comps EXCEPT ![h[s].row] = "archived"] = comps
        BY <3>2
      <4> QED
        BY <4>1
    <3> QED
      BY <3>1, <3>2
  <2> QED
    BY <1>7, <1>10, <2>1 DEF OrphanArchive
<1>11. ASSUME NEW s \in Handlers, FindCompany(s) PROVE Shape'
  <2>1. PICK c \in Nat : Become(s, [pc |-> "contact", company |-> c])
    BY <1>11, MatchesAreRows DEF FindCompany
  <2>2. [pc |-> "contact", company |-> c] \in RequestState
    BY DEF RequestState
  <2> QED
    BY <1>11, <2>1, <2>2, BecomeType DEF FindCompany, rows
<1>12. ASSUME NEW s \in Handlers, FindContact(s) PROVE Shape'
  <2>1. PICK email \in BOOLEAN :
          Become(s, [pc |-> "commit", company |-> h[s].company, email |-> email,
                     found |-> email /\ ContactIn(h[s].company)])
    BY <1>12 DEF FindContact
  <2>2. PICK found \in BOOLEAN : found = (email /\ ContactIn(h[s].company))
    BY DEF ContactIn
  <2>3. [pc |-> "commit", company |-> h[s].company, email |-> email, found |-> found]
          \in RequestState
    BY <1>12, Remembered DEF FindContact, RequestState
  <2> QED
    BY <1>12, <2>1, <2>2, <2>3, BecomeType DEF FindContact, rows
<1>13. ASSUME NEW s \in Handlers, Commit(s) PROVE Shape'
  <2>1. Idle \in RequestState
    BY DEF RequestState, Idle
  <2> QED
    BY <1>13, <2>1, BecomeType, Remembered DEF Commit, CreateCompany, NamedCompany, None
<1>14. ASSUME NEW s \in Handlers, EndEarly(s) PROVE Shape'
  <2>1. Idle \in RequestState
    BY DEF RequestState, Idle
  <2> QED
    BY <1>14, <2>1, BecomeType DEF EndEarly, rows
<1>15. ASSUME NEW s \in Handlers, MirrorFindCompany(s) PROVE Shape'
  <2>1. PICK c \in Nat, pc \in {"companyInsert", "contact"} :
          MirrorBecomes(s, [pc |-> pc, company |-> c])
    BY <1>15, MatchesAreRows DEF MirrorFindCompany, None
  <2>2. [pc |-> pc, company |-> c] \in MirrorState
    BY DEF MirrorState
  <2> QED
    BY <1>15, <2>1, <2>2, MirrorBecomesType DEF MirrorFindCompany, rows
<1>16. ASSUME NEW s \in Handlers, MirrorCreateCompany(s) PROVE Shape'
  <2>1. [pc |-> "contact", company |-> companies + 1] \in MirrorState
    BY DEF MirrorState
  <2> QED
    BY <1>16, <2>1, MirrorBecomesType DEF MirrorCreateCompany
<1>17. ASSUME NEW s \in Handlers, MirrorFindContact(s) \/ MirrorCreateContact(s)
       PROVE  Shape'
  <2>1. m[s].company \in Nat
    BY <1>17, Remembered DEF MirrorFindContact, MirrorCreateContact, MirrorAt
  <2>2. ToLink(m[s].company) \in MirrorState
    BY <2>1, ToLinkType
  <2>3. ASSUME NEW email \in BOOLEAN
        PROVE  [pc |-> "contactInsert", company |-> m[s].company, email |-> email] \in MirrorState
    BY <2>1 DEF MirrorState
  <2>4. m' \in [Handlers -> MirrorState]
    BY <1>17, <2>2, <2>3, MirrorBecomesType DEF MirrorFindContact, MirrorCreateContact
  <2>5. UNCHANGED << app, companies, comps, h >>
    BY <1>17 DEF MirrorFindContact, MirrorCreateContact
  <2> QED
    BY <2>4, <2>5
<1>18. ASSUME NEW s \in Handlers, MirrorLink(s) \/ MirrorFail(s) PROVE Shape'
  <2>1. Idle \in MirrorState
    BY DEF MirrorState, Idle
  <2> QED
    BY <1>18, <2>1, MirrorBecomesType, Remembered
    DEF MirrorLink, MirrorFail, MirrorAt, Coalesced, None, rows
<1>19. ASSUME CreateCompanion \/ StaffMove \/ UNCHANGED vars PROVE Shape'
  <2>1. CASE CreateCompanion
    <3>1. Append(comps, "live") \in Seq({"live", "archived"})
      BY AppendProperties
    <3> QED
      BY <2>1, <3>1 DEF CreateCompanion
  <2>2. CASE StaffMove
    BY <2>2 DEF StaffMove, Stages
  <2>3. CASE UNCHANGED vars
    BY <2>3 DEF vars, rows
  <2> QED
    BY <1>19, <2>1, <2>2, <2>3
<1> QED
  BY <1>1, <1>2, <1>3, <1>4, <1>5, <1>6, <1>8, <1>9, <1>10, <1>11, <1>12, <1>13, <1>14,
     <1>15, <1>16, <1>17, <1>18, <1>19 DEF Next, Patch, Submit, Normalize, Mirror

\* The steps that write the row of the application, and what they write.
LEMMA AppSteps ==
  ASSUME Shape, [Next]_vars
  PROVE  \/ UNCHANGED << app, linked, lost >>
         \/ \E s \in Handlers : PatchWrite(s)
         \/ \E s \in Handlers : SubmitUpdate(s)
         \/ \E s \in Handlers : Commit(s)
         \/ \E s \in Handlers : MirrorLink(s)
         \/ StaffMove
<1>1. ASSUME NEW s \in Handlers,
             \/ PatchRead(s) \/ SubmitNormalized(s) \/ LegSelect(s) \/ LegInsert(s)
             \/ CompanionSelect(s) \/ CompanionInsert(s) \/ OrphanSelect(s)
             \/ OrphanArchive(s) \/ NoCompanion(s)
      PROVE  UNCHANGED << app, linked, lost >>
  BY <1>1 DEF PatchRead, SubmitNormalized, LegSelect, LegInsert, CompanionSelect,
     CompanionInsert, OrphanSelect, OrphanArchive, NoCompanion, rows, counts
<1>2. ASSUME NEW s \in Handlers,
             \/ FindCompany(s) \/ FindContact(s) \/ EndEarly(s) \/ MirrorFindCompany(s)
             \/ MirrorCreateCompany(s) \/ MirrorFindContact(s) \/ MirrorCreateContact(s)
             \/ MirrorFail(s)
      PROVE  UNCHANGED << app, linked, lost >>
  BY <1>2 DEF FindCompany, FindContact, EndEarly, MirrorFindCompany, MirrorCreateCompany,
     MirrorFindContact, MirrorCreateContact, MirrorFail, rows, counts
<1>3. ASSUME CreateCompanion \/ UNCHANGED vars PROVE UNCHANGED << app, linked, lost >>
  BY <1>3 DEF CreateCompanion, vars, rows, counts
<1> QED
  BY <1>1, <1>2, <1>3 DEF Next, Patch, Submit, Normalize, Mirror

\* Every step keeps the invariant: one case for each step that writes the row.
LEMMA NextIInv == IInv /\ [Next]_vars => IInv'
<1> SUFFICES ASSUME IInv, [Next]_vars PROVE IInv'
  OBVIOUS
<1>1. Shape'
  BY NextShape DEF IInv
<1> USE DEF IInv, Shape, FormIsLatest, StaffStageStands, NormalizedIsWhole
<1>2. CASE UNCHANGED << app, linked, lost >>
  BY <1>1, <1>2
<1>3. ASSUME NEW s \in Handlers, PatchWrite(s) PROVE IInv'
  <2>1. app' = [app EXCEPT !.form = h[s].form] /\ linked' = linked
    BY <1>3 DEF PatchWrite, Patched
  <2>2. /\ app'.form = h[s].form /\ app'.sent = app.sent /\ app'.staff = app.staff
        /\ app'.stage = app.stage /\ app'.company = app.company
    BY <2>1
  <2>3. lost' = (lost \/ h[s].form # app.form)
    BY <1>3 DEF PatchWrite
  <2>4. FormIsLatest'
    BY <2>2, <2>3
  <2>5. StaffStageStands' /\ NormalizedIsWhole'
    BY <2>1, <2>2
  <2> QED BY <1>1, <2>4, <2>5
<1>4. ASSUME NEW s \in Handlers, SubmitUpdate(s) PROVE IInv'
  <2>1. PICK uploaded \in BOOLEAN : app' = [app EXCEPT !.form = app.sent + 1, !.sent = app.sent + 1,
                                                       !.stage = StageOnSubmit(uploaded)]
    BY <1>4 DEF SubmitUpdate
  <2>2. PICK stage : stage = StageOnSubmit(uploaded)
    OBVIOUS
  <2>3. app.stage = "In Review" => stage = app.stage
    BY <2>2 DEF StageOnSubmit, Unset
  <2>4. app' = [app EXCEPT !.form = app.sent + 1, !.sent = app.sent + 1, !.stage = stage]
    BY <2>1, <2>2
  <2>5. /\ app'.form = app'.sent /\ app'.staff = app.staff /\ app'.company = app.company
        /\ app'.stage = stage
    BY <2>4
  <2>6. linked' = linked
    BY <1>4 DEF SubmitUpdate
  <2> QED BY <1>1, <2>3, <2>5, <2>6
<1>5. ASSUME NEW s \in Handlers, Commit(s) PROVE IInv'
  <2> DEFINE c == IF h[s].company = None THEN companies + 1 ELSE h[s].company
  <2>1. h[s].company \in Nat /\ companies \in Nat
    BY <1>5, Remembered DEF Commit
  <2>2. c # None
    BY <2>1, NewCompanyIsRow
  <2>3. app' = [app EXCEPT !.company = NamedCompany(c)]
    BY <1>5 DEF Commit
  <2> HIDE DEF c
  <2>4. c # None /\ app' = [app EXCEPT !.company = NamedCompany(c)]
    BY <2>2, <2>3
  <2>5. NamedCompany(c) # None
    BY <2>4 DEF NamedCompany
  <2>6. /\ app'.form = app.form /\ app'.sent = app.sent
        /\ app'.staff = app.staff /\ app'.stage = app.stage
        /\ app'.company = NamedCompany(c)
    BY <2>4
  <2>7. UNCHANGED lost
    BY <1>5 DEF Commit, counts
  <2> QED
    BY <1>1, <2>5, <2>6, <2>7
<1>6. ASSUME NEW s \in Handlers, MirrorLink(s) PROVE IInv'
  BY <1>1, <1>6, Remembered DEF MirrorLink, MirrorAt, Coalesced, None, counts
<1>7. CASE StaffMove
  BY <1>1, <1>7 DEF StaffMove, counts
<1> QED
  BY <1>2, <1>3, <1>4, <1>5, <1>6, <1>7, AppSteps

\* The invariant holds in every behaviour.
THEOREM Invariance == Spec => []IInv
  BY InitIInv, NextIInv, PTL DEF Spec

\* In every behaviour the application shows the form of its last submit unless
\* a PATCH wrote back what it had read before that submit.
THEOREM FormKept == Spec => []FormIsLatest
  <1>1. IInv => FormIsLatest
    BY DEF IInv
  <1> QED
    BY <1>1, Invariance, PTL

\* In every behaviour a submit leaves the stage staff gave the application.
THEOREM StageKept == Spec => []StaffStageStands
  <1>1. IInv => StaffStageStands
    BY DEF IInv
  <1> QED
    BY <1>1, Invariance, PTL

\* In every behaviour an application with linked contacts names a company.
THEOREM WholeOrNothing == Spec => []NormalizedIsWhole
  <1>1. IInv => NormalizedIsWhole
    BY DEF IInv
  <1> QED
    BY <1>1, Invariance, PTL

\* In every behaviour later requests take nothing back: the three above
\* together, as the run checks them.
THEOREM NothingLost == Spec => []NothingIsUndone
  <1>1. IInv => NothingIsUndone
    BY DEF IInv, NothingIsUndone
  <1> QED
    BY <1>1, Invariance, PTL

\* In every behaviour the company an application names is named for good,
\* whichever transactions and mirrors come later.
THEOREM CompanyKept == Spec => CompanyStands
<1>1. ASSUME Shape, [Next]_vars
      PROVE  [app.company # None => app'.company = app.company]_vars
  <2> USE <1>1 DEF Shape
  <2>1. CASE UNCHANGED << app, linked, lost >>
    BY <2>1
  <2>2. ASSUME NEW s \in Handlers, PatchWrite(s) PROVE app'.company = app.company
    BY <2>2 DEF PatchWrite, Patched
  <2>3. ASSUME NEW s \in Handlers, SubmitUpdate(s) PROVE app'.company = app.company
    BY <2>3 DEF SubmitUpdate
  <2>4. ASSUME NEW s \in Handlers, Commit(s), app.company # None
        PROVE  app'.company = app.company
    BY <2>4 DEF Commit, NamedCompany
  <2>5. ASSUME NEW s \in Handlers, MirrorLink(s), app.company # None
        PROVE  app'.company = app.company
    BY <2>5 DEF MirrorLink, Coalesced
  <2>6. CASE StaffMove
    BY <2>6 DEF StaffMove
  <2> QED
    BY <2>1, <2>2, <2>3, <2>4, <2>5, <2>6, AppSteps
<1>2. IInv => Shape
  BY DEF IInv
<1> QED
  BY <1>1, <1>2, Invariance, PTL DEF Spec, CompanyStands

-----------------------------------------------------------------------------
(* How many rows the submits under way still owe                            *)

\* The contacts that were inserted with an e-mail address.
Addressed == Len(contacts) - blank

\* An e-mail address, once it is in a row, stays there.
ContactsInRange ==
  /\ contacts \in Seq(Contact)
  /\ blank \in 0 .. Len(contacts)
  /\ Addressed # 0 => \E k \in DOMAIN contacts : contacts[k].email

\* The part of the type invariant that Shape leaves out, and what a request or
\* a mirror remembers is in range too, from the lookup to the commit.
Ranges ==
  /\ app.form <= app.sent /\ app.sent <= requests /\ app.company <= companies
  /\ legs \in Nat
  /\ ContactsInRange
  /\ linked \in BOOLEAN /\ lost \in BOOLEAN
  /\ requests \in 0 .. MaxRequests /\ step2 \in 0 .. requests

\* The form, row or company that the handlers of slot s carry from one statement
\* to the next.
CarriedBy(s) ==
  /\ At(s, "patch") => h[s].form <= app.sent
  /\ At(s, "archive") => h[s].row \in DOMAIN comps
  /\ At(s, "contact") \/ At(s, "commit") => h[s].company <= companies
  /\ m[s].pc \in {"companyInsert", "contact", "contactInsert", "link"} =>
       m[s].company <= companies

Carried == \A s \in Handlers : CarriedBy(s)

\* Those that have looked, found nothing and have not inserted yet: the leg, the
\* companion, the company (in the transaction and in the mirror), the contact
\* (likewise; a new company has no contact, so the transaction owes one at once).
\* Contacts without an e-mail address are owed by nobody.
LegOwers == {s \in Handlers : At(s, "legInsert")}
CompanionOwers == {s \in Handlers : At(s, "companionInsert")}
CompanyOwers == {s \in Handlers : (At(s, "contact") \/ At(s, "commit")) /\ h[s].company = None}
MirrorCompanyOwers == {s \in Handlers : MirrorAt(s, "companyInsert")}
ContactOwers == {s \in Handlers : \/ At(s, "contact") /\ h[s].company = None
                                  \/ At(s, "commit") /\ ~ h[s].found /\ h[s].email}
MirrorContactOwers == {s \in Handlers : MirrorAt(s, "contactInsert") /\ m[s].email}

\* The submits under way have been counted.
WayCounted ==
  /\ peak \in 0 .. requests
  /\ IsFiniteSet(UnderWay) /\ Cardinality(UnderWay) <= peak

\* The rows there are and those still owed are no more than the submits that
\* were under way when the table was still empty.
LegsOwed == legs + Cardinality(LegOwers) <= peak
CompanionsOwed == Len(comps) + Cardinality(CompanionOwers) <= step2 + peak
CompaniesOwed ==
  companies + Cardinality(CompanyOwers) + Cardinality(MirrorCompanyOwers) <= 2 * peak

\* Until a contact with the e-mail address has the company every such contact
\* came from a mirror, and each mirror brings at most one.
NoneNamed == \A k \in DOMAIN contacts : contacts[k].email => contacts[k].company = None
ContactsOwed ==
  companies <= 1 =>
    /\ Addressed + Cardinality(ContactOwers) + Cardinality(MirrorContactOwers) <= 2 * peak
    /\ NoneNamed => Addressed + Cardinality(MirrorContactOwers) <= peak

Owed == LegsOwed /\ CompanionsOwed /\ CompaniesOwed /\ ContactsOwed

FInv == Shape /\ Ranges /\ Carried /\ WayCounted /\ Owed

-----------------------------------------------------------------------------
(* Counting                                                                 *)

LEMMA Fewer ==
  ASSUME NEW S, IsFiniteSet(S), NEW T, T \subseteq S
  PROVE  /\ IsFiniteSet(T) /\ Cardinality(S) \in Nat /\ Cardinality(T) \in Nat
         /\ Cardinality(T) <= Cardinality(S)
  BY FS_Subset, FS_CardinalityType

\* From S to T one member at least has gone and none has come.
Pays(S, T) == \E x \in S : T \subseteq S \ {x}

LEMMA OneFewer ==
  ASSUME NEW S, IsFiniteSet(S), NEW T, Pays(S, T)
  PROVE  /\ IsFiniteSet(T) /\ Cardinality(S) \in Nat /\ Cardinality(T) \in Nat
         /\ Cardinality(T) + 1 <= Cardinality(S)
  <1>1. PICK x \in S : T \subseteq S \ {x}
    BY DEF Pays
  <1>2. IsFiniteSet(S \ {x}) /\ Cardinality(S \ {x}) = Cardinality(S) - 1
    BY FS_RemoveElement
  <1>3. /\ IsFiniteSet(T) /\ Cardinality(S \ {x}) \in Nat /\ Cardinality(T) \in Nat
        /\ Cardinality(T) <= Cardinality(S \ {x})
    BY <1>1, <1>2, Fewer
  <1>4. Cardinality(S) \in Nat
    BY FS_CardinalityType
  <1> QED BY <1>2, <1>3, <1>4

\* Whoever owes a row is under way.
OwersFew ==
  \A S \in {LegOwers, CompanionOwers, CompanyOwers, MirrorCompanyOwers,
            ContactOwers, MirrorContactOwers} :
    IsFiniteSet(S) /\ Cardinality(S) \in Nat /\ Cardinality(S) <= peak

CountsTyped == WayCounted /\ requests \in Nat

LEMMA OwersCounted == CountsTyped => OwersFew
  <1> DEFINE All == {LegOwers, CompanionOwers, CompanyOwers, MirrorCompanyOwers,
                     ContactOwers, MirrorContactOwers}
  <1>1. \A S \in All : S \subseteq UnderWay
    BY DEF LegOwers, CompanionOwers, CompanyOwers, MirrorCompanyOwers,
           ContactOwers, MirrorContactOwers, UnderWay, At, MirrorAt
  <1> SUFFICES ASSUME CountsTyped, NEW S \in All
               PROVE  IsFiniteSet(S) /\ Cardinality(S) \in Nat /\ Cardinality(S) <= peak
    BY DEF OwersFew
  <1>2. S \subseteq UnderWay
    BY <1>1
  <1> HIDE DEF All
  <1> QED BY <1>2, Fewer DEF WayCounted, CountsTyped

-----------------------------------------------------------------------------
(* What a step does to the rows there are and to those who owe one          *)

\* The handlers of the other slots stay where they are.
Aside(s) == \A q \in Handlers \ {s} : h'[q] = h[q] /\ m'[q] = m[q]

\* Whoever joins the submits under way is counted.
WayEffect ==
  \/ UnderWay' \subseteq UnderWay /\ peak' = peak /\ requests <= requests'
  \/ \E s \in Handlers : /\ UnderWay' \subseteq UnderWay \cup {s}
                         /\ peak' = Larger(peak, Cardinality(UnderWay \cup {s}))
                         /\ requests' = requests + 1

\* For each table: nothing happens to it and nobody new owes a row; or it is
\* still empty; or one of those who owe a row inserts it or gives up.
LegsAlone == legs' = legs /\ LegOwers' \subseteq LegOwers
LegEffect ==
  \/ LegsAlone
  \/ legs' = 0
  \/ legs' \in {legs, legs + 1} /\ Pays(LegOwers, LegOwers')

CompanionsAlone == /\ Len(comps') = Len(comps) /\ step2' = step2
                   /\ CompanionOwers' \subseteq CompanionOwers
CompanionEffect ==
  \/ CompanionsAlone
  \/ Len(comps') = 0 /\ step2' = step2
  \/ /\ Len(comps') \in {Len(comps), Len(comps) + 1} /\ step2' = step2
     /\ Pays(CompanionOwers, CompanionOwers')
  \/ /\ Len(comps') = Len(comps) + 1 /\ step2' = step2 + 1
     /\ CompanionOwers' \subseteq CompanionOwers

CompaniesAlone == /\ companies' = companies /\ CompanyOwers' \subseteq CompanyOwers
                  /\ MirrorCompanyOwers' \subseteq MirrorCompanyOwers
CompanyEffect ==
  \/ CompaniesAlone
  \/ companies' = 0
  \/ /\ companies' = companies + 1 /\ Pays(CompanyOwers, CompanyOwers')
     /\ MirrorCompanyOwers' \subseteq MirrorCompanyOwers
  \/ /\ companies' = companies + 1 /\ Pays(MirrorCompanyOwers, MirrorCompanyOwers')
     /\ CompanyOwers' \subseteq CompanyOwers

\* A transaction that comes to owe a contact has found none of the only company.
ContactsAlone == /\ Addressed' = Addressed
                 /\ NoneNamed' => NoneNamed
                 /\ ContactOwers' \subseteq ContactOwers
                 /\ MirrorContactOwers' \subseteq MirrorContactOwers
ContactEffect ==
  /\ companies <= companies'
  /\ \/ ContactsAlone
     \/ Addressed' = 0
     \/ /\ Addressed' = Addressed /\ MirrorContactOwers' \subseteq MirrorContactOwers
        /\ companies' <= 1 => NoneNamed
     \/ /\ Addressed' = Addressed + 1 /\ ~ NoneNamed'
        /\ Pays(ContactOwers, ContactOwers')
        /\ MirrorContactOwers' \subseteq MirrorContactOwers
     \/ /\ Addressed' = Addressed + 1
        /\ NoneNamed' => NoneNamed
        /\ Pays(MirrorContactOwers, MirrorContactOwers')
        /\ ContactOwers' \subseteq ContactOwers

Effects == WayEffect /\ LegEffect /\ CompanionEffect /\ CompanyEffect /\ ContactEffect

LEMMA WayKept ==
  ASSUME WayCounted, WayEffect, requests \in Nat, requests' \in Nat
  PROVE  WayCounted' /\ peak <= peak'
  <1>1. peak \in Nat /\ peak <= requests /\ IsFiniteSet(UnderWay) /\ Cardinality(UnderWay) <= peak
    BY DEF WayCounted
  <1>2. CASE UnderWay' \subseteq UnderWay /\ peak' = peak /\ requests <= requests'
    <2>1. IsFiniteSet(UnderWay') /\ Cardinality(UnderWay') <= Cardinality(UnderWay)
          /\ Cardinality(UnderWay') \in Nat /\ Cardinality(UnderWay) \in Nat
      BY <1>1, <1>2, Fewer
    <2> QED BY <1>1, <1>2, <2>1 DEF WayCounted
  <1>3. ASSUME NEW s \in Handlers, UnderWay' \subseteq UnderWay \cup {s},
               peak' = Larger(peak, Cardinality(UnderWay \cup {s})), requests' = requests + 1
        PROVE  WayCounted' /\ peak <= peak'
    <2> DEFINE C == Cardinality(UnderWay \cup {s})
    <2>1. IsFiniteSet(UnderWay \cup {s}) /\ C \in Nat
      BY <1>1, FS_AddElement, FS_CardinalityType
    <2>2. C <= Cardinality(UnderWay) + 1 /\ Cardinality(UnderWay) \in Nat
      <3>1. Cardinality(UnderWay) \in Nat
        BY <1>1, FS_CardinalityType
      <3>2. C = IF s \in UnderWay THEN Cardinality(UnderWay) ELSE Cardinality(UnderWay) + 1
        BY <1>1, FS_AddElement
      <3> HIDE DEF C
      <3> QED BY <3>1, <3>2
    <2>3. IsFiniteSet(UnderWay') /\ Cardinality(UnderWay') \in Nat /\ Cardinality(UnderWay') <= C
      BY <1>3, <2>1, Fewer
    <2>4. peak' = Larger(peak, C)
      BY <1>3
    <2> HIDE DEF C
    <2>5. peak' \in Nat /\ C <= peak' /\ peak <= peak' /\ peak' <= requests + 1
      BY <1>1, <2>1, <2>2, <2>4 DEF Larger
    <2> QED BY <1>3, <2>1, <2>3, <2>5 DEF WayCounted
  <1> QED BY <1>2, <1>3 DEF WayEffect

\* The bounds survive every effect.
LEMMA OwedKept ==
  ASSUME WayCounted, Owed, Effects, requests \in Nat, requests' \in Nat,
         legs \in Nat, comps \in Seq({"live", "archived"}), companies \in Nat,
         Addressed \in Nat, step2 \in Nat
  PROVE  Owed'
  <1>1. WayCounted' /\ peak <= peak'
    BY WayKept DEF Effects
  <1>2. peak \in Nat /\ peak' \in Nat
    BY <1>1 DEF WayCounted
  <1>o. \A S \in {LegOwers, CompanionOwers, CompanyOwers, MirrorCompanyOwers,
                  ContactOwers, MirrorContactOwers} :
           IsFiniteSet(S) /\ Cardinality(S) \in Nat /\ Cardinality(S) <= peak
    BY OwersCounted DEF OwersFew, CountsTyped
  <1>p. \A S \in {LegOwers', CompanionOwers', CompanyOwers', MirrorCompanyOwers',
                  ContactOwers', MirrorContactOwers'} :
           IsFiniteSet(S) /\ Cardinality(S) \in Nat /\ Cardinality(S) <= peak'
    <2>1. CountsTyped' => OwersFew'
      BY OwersCounted, PTL
    <2> QED BY <1>1, <2>1 DEF OwersFew, CountsTyped
  <1>3. Len(comps) \in Nat
    BY LenProperties
  <1>4. LegsOwed'
    <2>1. IsFiniteSet(LegOwers) /\ Cardinality(LegOwers) \in Nat /\ Cardinality(LegOwers') \in Nat
          /\ Cardinality(LegOwers') <= peak'
      BY <1>o, <1>p
    <2>2. legs + Cardinality(LegOwers) <= peak
      BY DEF Owed, LegsOwed
    <2>3. CASE LegsAlone
      BY <1>1, <1>2, <2>1, <2>2, <2>3, Fewer DEF LegsAlone, LegsOwed
    <2>4. CASE legs' = 0
      BY <1>2, <2>1, <2>4 DEF LegsOwed
    <2>5. CASE legs' \in {legs, legs + 1} /\ Pays(LegOwers, LegOwers')
      <3>1. Cardinality(LegOwers') + 1 <= Cardinality(LegOwers)
        BY <2>1, <2>5, OneFewer
      <3> QED BY <1>1, <1>2, <2>1, <2>2, <2>5, <3>1 DEF LegsOwed
    <2> QED BY <2>3, <2>4, <2>5 DEF Effects, LegEffect
  <1>5. CompanionsOwed'
    <2> DEFINE n == Len(comps)
               a == Cardinality(CompanionOwers)
               b == Cardinality(CompanionOwers')
    <2>1. IsFiniteSet(CompanionOwers) /\ a \in Nat /\ b \in Nat /\ b <= peak' /\ n \in Nat
      BY <1>o, <1>p, <1>3
    <2>2. n + a <= step2 + peak
      BY DEF Owed, CompanionsOwed
    <2>3. CompanionOwers' \subseteq CompanionOwers => b <= a
      BY <2>1, Fewer
    <2>4. Pays(CompanionOwers, CompanionOwers') => b + 1 <= a
      BY <2>1, OneFewer
    <2>5. \/ Len(comps') = n /\ step2' = step2 /\ b <= a
          \/ Len(comps') = 0 /\ step2' = step2
          \/ Len(comps') \in {n, n + 1} /\ step2' = step2 /\ b + 1 <= a
          \/ Len(comps') = n + 1 /\ step2' = step2 + 1 /\ b <= a
      BY <2>3, <2>4 DEF Effects, CompanionEffect, CompanionsAlone
    <2> HIDE DEF n, a
    <2>6. Len(comps') + b <= step2' + peak'
      <3> HIDE DEF b
      <3> QED BY <1>1, <1>2, <2>1, <2>2, <2>5
    <2> QED BY <2>6 DEF CompanionsOwed
  <1>6. CompaniesOwed'
    <2> DEFINE a == Cardinality(CompanyOwers)
               c == Cardinality(MirrorCompanyOwers)
               b == Cardinality(CompanyOwers')
               d == Cardinality(MirrorCompanyOwers')
    <2>1. IsFiniteSet(CompanyOwers) /\ a \in Nat /\ b \in Nat /\ b <= peak'
          /\ IsFiniteSet(MirrorCompanyOwers) /\ c \in Nat /\ d \in Nat /\ d <= peak'
      BY <1>o, <1>p
    <2>2. companies + a + c <= 2 * peak
      BY DEF Owed, CompaniesOwed
    <2>3. /\ CompanyOwers' \subseteq CompanyOwers => b <= a
          /\ MirrorCompanyOwers' \subseteq MirrorCompanyOwers => d <= c
      BY <2>1, Fewer
    <2>4. /\ Pays(CompanyOwers, CompanyOwers') => b + 1 <= a
          /\ Pays(MirrorCompanyOwers, MirrorCompanyOwers') => d + 1 <= c
      BY <2>1, OneFewer
    <2>5. \/ companies' = companies /\ b <= a /\ d <= c
          \/ companies' = 0
          \/ companies' = companies + 1 /\ b + 1 <= a /\ d <= c
          \/ companies' = companies + 1 /\ b <= a /\ d + 1 <= c
      BY <2>3, <2>4 DEF Effects, CompanyEffect, CompaniesAlone
    <2> HIDE DEF a, c
    <2>6. companies' + b + d <= 2 * peak'
      <3> HIDE DEF b, d
      <3> QED BY <1>1, <1>2, <2>1, <2>2, <2>5
    <2> QED BY <2>6 DEF CompaniesOwed
  <1>7. ContactsOwed'
    <2> SUFFICES ASSUME companies' <= 1
                 PROVE  /\ Addressed' + Cardinality(ContactOwers')
                             + Cardinality(MirrorContactOwers') <= 2 * peak'
                        /\ NoneNamed' => Addressed' + Cardinality(MirrorContactOwers') <= peak'
      BY DEF ContactsOwed
    <2> DEFINE n == Addressed
               a == Cardinality(ContactOwers)
               c == Cardinality(MirrorContactOwers)
               b == Cardinality(ContactOwers')
               d == Cardinality(MirrorContactOwers')
    <2>1. IsFiniteSet(ContactOwers) /\ a \in Nat /\ b \in Nat /\ b <= peak'
          /\ IsFiniteSet(MirrorContactOwers) /\ c \in Nat /\ d \in Nat /\ d <= peak' /\ n \in Nat
      BY <1>o, <1>p
    <2>0. companies <= companies'
      BY DEF Effects, ContactEffect
    <2>x. companies <= 1
      <3>1. companies' \in Nat
        BY DEF Effects, CompanyEffect, CompaniesAlone
      <3> QED BY <2>0, <3>1
    <2>2. n + a + c <= 2 * peak /\ (NoneNamed => n + c <= peak)
      BY <2>x DEF Owed, ContactsOwed
    <2>3. /\ ContactOwers' \subseteq ContactOwers => b <= a
          /\ MirrorContactOwers' \subseteq MirrorContactOwers => d <= c
      BY <2>1, Fewer
    <2>4. /\ Pays(ContactOwers, ContactOwers') => b + 1 <= a
          /\ Pays(MirrorContactOwers, MirrorContactOwers') => d + 1 <= c
      BY <2>1, OneFewer
    <2>5. \/ Addressed' = n /\ b <= a /\ d <= c /\ (NoneNamed' => NoneNamed)
          \/ Addressed' = 0
          \/ Addressed' = n /\ d <= c /\ NoneNamed
          \/ Addressed' = n + 1 /\ b + 1 <= a /\ d <= c /\ ~ NoneNamed'
          \/ Addressed' = n + 1 /\ b <= a /\ d + 1 <= c /\ (NoneNamed' => NoneNamed)
      BY <2>3, <2>4 DEF Effects, ContactEffect, ContactsAlone
    <2> HIDE DEF a, c, n, b, d
    <2>6. Addressed' + b + d <= 2 * peak'
      BY <1>1, <1>2, <2>1, <2>2, <2>5
    <2>7. NoneNamed' => Addressed' + d <= peak'
      BY <1>1, <1>2, <2>1, <2>2, <2>5
    <2> QED BY <2>6, <2>7 DEF b, d
  <1> QED BY <1>4, <1>5, <1>6, <1>7 DEF Owed

-----------------------------------------------------------------------------
(* The steps one by one                                                     *)

\* What is to be shown of every step.
Kept == Ranges' /\ Carried' /\ Effects

CInv == Shape /\ Ranges /\ Carried /\ WayCounted

LEMMA Moves ==
  ASSUME Shape, NEW s \in Handlers, NEW next, Become(s, next), m' = m
  PROVE  Aside(s) /\ h'[s] = next /\ m'[s] = m[s]
  BY DEF Shape, Become, Aside

LEMMA MirrorMoves ==
  ASSUME Shape, NEW s \in Handlers, NEW next, MirrorBecomes(s, next), h' = h
  PROVE  Aside(s) /\ m'[s] = next /\ h'[s] = h[s]
  BY DEF Shape, MirrorBecomes, Aside

LEMMA BothMove ==
  ASSUME Shape, NEW s \in Handlers, GoOn(s)
  PROVE  Aside(s) /\ h'[s].pc = "normalize" /\ m'[s].pc = "company"
  BY DEF Shape, GoOn, Become, MirrorBecomes, Aside

\* The counters do not fall and the row of the application does not shrink.
Grows == /\ app.sent <= app'.sent /\ companies <= companies'
         /\ DOMAIN comps \subseteq DOMAIN comps'

LEMMA CarriedKept ==
  ASSUME Shape, Shape', Carried, NEW s \in Handlers, Aside(s), Grows, CarriedBy(s)'
  PROVE  Carried'
  <1> SUFFICES ASSUME NEW q \in Handlers PROVE CarriedBy(q)'
    BY DEF Carried
  <1>1. CASE q = s
    BY <1>1
  <1>2. CASE q # s
    <2>1. h'[q] = h[q] /\ m'[q] = m[q]
      BY <1>2 DEF Aside
    <2>2. CarriedBy(q)
      BY DEF Carried
    <2>3. app.sent \in Nat /\ app'.sent \in Nat /\ companies \in Nat /\ companies' \in Nat
      BY DEF Shape
    <2>4. /\ At(q, "patch") => h[q].form \in Nat
          /\ At(q, "contact") \/ At(q, "commit") => h[q].company \in Nat
          /\ m[q].pc \in {"companyInsert", "contact", "contactInsert", "link"} =>
               m[q].company \in Nat
      BY Remembered
    <2> QED BY <2>1, <2>2, <2>3, <2>4 DEF CarriedBy, At, Grows
  <1> QED BY <1>1, <1>2

\* Nobody comes to owe a row in a step of slot s that leaves it in these places.
LEMMA NobodyOwes ==
  ASSUME NEW s \in Handlers, Aside(s)
  PROVE  /\ ~ At(s, "legInsert")' => LegOwers' \subseteq LegOwers \ {s}
         /\ ~ At(s, "companionInsert")' => CompanionOwers' \subseteq CompanionOwers \ {s}
         /\ ~ (At(s, "contact") \/ At(s, "commit"))' =>
              CompanyOwers' \subseteq CompanyOwers \ {s} /\ ContactOwers' \subseteq ContactOwers \ {s}
         /\ ~ MirrorAt(s, "companyInsert")' => MirrorCompanyOwers' \subseteq MirrorCompanyOwers \ {s}
         /\ ~ MirrorAt(s, "contactInsert")' => MirrorContactOwers' \subseteq MirrorContactOwers \ {s}
         /\ h'[s] = h[s] => /\ LegOwers' \subseteq LegOwers
                            /\ CompanionOwers' \subseteq CompanionOwers
                            /\ CompanyOwers' \subseteq CompanyOwers
                            /\ ContactOwers' \subseteq ContactOwers
         /\ m'[s] = m[s] => /\ MirrorCompanyOwers' \subseteq MirrorCompanyOwers
                            /\ MirrorContactOwers' \subseteq MirrorContactOwers
  BY DEF Aside, LegOwers, CompanionOwers, CompanyOwers, MirrorCompanyOwers,
         ContactOwers, MirrorContactOwers, At, MirrorAt

\* A step of a slot that is under way, or goes where it is not.
LEMMA WayAlone ==
  ASSUME NEW s \in Handlers, Aside(s), peak' = peak, requests <= requests',
         \/ s \in UnderWay
         \/ MirrorAt(s, "idle")' /\ h'[s].pc \in {"idle", "patch"}
         \/ h'[s] = h[s] /\ m'[s] = m[s]
  PROVE  WayEffect
  BY DEF Aside, UnderWay, WayEffect, At, MirrorAt

\* The tables and the counters are left alone.
Steady == UNCHANGED << legs, companies, contacts, blank, comps, step2 >>

LEMMA SteadyGrows ==
  ASSUME Shape, Steady, app'.sent = app.sent
  PROVE  Grows
  BY DEF Shape, Steady, Grows

\* Nobody comes to owe a row; with the tables left alone that is no effect at all.
NobodyNew == /\ LegOwers' \subseteq LegOwers
             /\ CompanionOwers' \subseteq CompanionOwers
             /\ CompanyOwers' \subseteq CompanyOwers
             /\ MirrorCompanyOwers' \subseteq MirrorCompanyOwers
             /\ ContactOwers' \subseteq ContactOwers
             /\ MirrorContactOwers' \subseteq MirrorContactOwers

LEMMA NoEffect ==
  ASSUME Shape, Steady
  PROVE  /\ LegOwers' \subseteq LegOwers => LegsAlone
         /\ CompanionOwers' \subseteq CompanionOwers => CompanionsAlone
         /\ CompanyOwers' \subseteq CompanyOwers /\ MirrorCompanyOwers' \subseteq MirrorCompanyOwers
              => CompaniesAlone
         /\ ContactOwers' \subseteq ContactOwers /\ MirrorContactOwers' \subseteq MirrorContactOwers
              => ContactsAlone
         /\ NoneNamed' => NoneNamed
         /\ companies <= companies'
  BY DEF Shape, Steady, LegsAlone, CompanionsAlone, CompaniesAlone, ContactsAlone, NoneNamed,
     Addressed

\* Contacts that are left alone stay in range.
LEMMA ContactsStay ==
  ASSUME ContactsInRange, UNCHANGED << companies, contacts, blank >>
  PROVE  ContactsInRange' /\ Addressed' = Addressed /\ (NoneNamed' => NoneNamed)
  BY DEF ContactsInRange, Contact, Addressed, NoneNamed

LEMMA AllAlone ==
  ASSUME Shape, WayEffect, LegsAlone, CompanionsAlone, CompaniesAlone, ContactsAlone
  PROVE  Effects
  BY DEF Shape, Effects, LegEffect, CompanionEffect, CompanyEffect, ContactEffect, CompaniesAlone

\* The row of the application stays in range.
RowInRange == /\ app.sent <= app'.sent /\ app'.form <= app'.sent
              /\ app'.sent <= requests' /\ app'.company <= companies'
              /\ linked' \in BOOLEAN /\ lost' \in BOOLEAN
              /\ requests <= requests' /\ requests' \in 0 .. MaxRequests

\* A step of slot s that writes none of the tables is judged by where it leads.
LEMMA StillStep ==
  ASSUME CInv, Shape', NEW s \in Handlers, Aside(s), Steady, RowInRange, CarriedBy(s)'
  PROVE  Ranges' /\ Carried'
  <1>1. Grows
    BY DEF Grows, Steady, RowInRange, CInv, Shape
  <1>2. Carried'
    BY <1>1, CarriedKept DEF CInv
  <1>3. Ranges'
    BY ContactsStay DEF CInv, Ranges, Steady, RowInRange
  <1> QED BY <1>2, <1>3

\* The row of the application as it was is in range.
LEMMA RowStays ==
  ASSUME CInv, UNCHANGED << app, companies, linked, lost >>,
         \/ requests' = requests
         \/ requests' = requests + 1 /\ requests < MaxRequests
  PROVE  RowInRange /\ requests <= requests'
  BY IntakeAssumption DEF CInv, Shape, Ranges, RowInRange

\* Requests that start.
LEMMA PatchReadStep ==
  ASSUME CInv, Shape', NEW s \in Handlers, PatchRead(s) PROVE Kept
  <1>1. /\ Aside(s) /\ h'[s] = [pc |-> "patch", form |-> app.form] /\ m'[s] = m[s]
        /\ UNCHANGED << rows, m, step2, lost, peak >>
        /\ requests < MaxRequests /\ requests' = requests + 1
    BY Moves DEF CInv, PatchRead, Arrive
  <1>2. Steady /\ RowInRange /\ requests <= requests' /\ app' = app
    BY <1>1, RowStays DEF Steady, rows
  <1>3. WayEffect
    <2>1. s \in UnderWay \/ MirrorAt(s, "idle")'
      BY <1>1 DEF UnderWay, MirrorAt
    <2> QED BY <1>1, <1>2, <2>1, WayAlone
  <1>4. CarriedBy(s)'
    <2>1. CarriedBy(s) /\ app.form <= app.sent
      BY DEF CInv, Carried, Ranges
    <2> QED BY <1>1, <1>2, <2>1 DEF CarriedBy, At, Steady
  <1>5. NobodyNew
    BY <1>1, NobodyOwes DEF At, NobodyNew
  <1> QED BY <1>1, <1>2, <1>3, <1>4, <1>5, StillStep, NoEffect, AllAlone DEF CInv, Kept, NobodyNew

LEMMA PatchWriteStep ==
  ASSUME CInv, Shape', NEW s \in Handlers, PatchWrite(s) PROVE Kept
  <1>1. /\ Aside(s) /\ h'[s] = Idle /\ m'[s] = m[s] /\ At(s, "patch")
        /\ app' = [app EXCEPT !.form = h[s].form]
        /\ lost' = (lost \/ h[s].form # app.form)
        /\ UNCHANGED << legs, comps, companies, contacts, blank, linked, m, requests, step2, peak >>
    <2>1. Become(s, Idle) /\ m' = m
      BY DEF PatchWrite
    <2> QED BY <2>1, Moves DEF CInv, PatchWrite, Patched
  <1>2. Steady
    BY <1>1 DEF Steady
  <1>3. CarriedBy(s) /\ h[s].form \in Nat
    BY <1>1, Remembered DEF CInv, Carried
  <1>4. RowInRange
    <2>1. app'.form = h[s].form /\ app'.sent = app.sent /\ app'.company = app.company
      BY <1>1 DEF CInv, Shape
    <2>2. h[s].form <= app.sent
      BY <1>1, <1>3 DEF CarriedBy
    <2>3. app.sent \in Nat /\ app.sent <= requests /\ app.company <= companies
          /\ linked \in BOOLEAN /\ lost \in BOOLEAN /\ requests \in 0 .. MaxRequests
      BY DEF CInv, Shape, Ranges
    <2>4. lost' \in BOOLEAN
      BY <1>1, <2>3
    <2> QED BY <1>1, <2>1, <2>2, <2>3, <2>4, IntakeAssumption DEF RowInRange
  <1>5. WayEffect
    <2>1. s \in UnderWay \/ MirrorAt(s, "idle")'
      BY <1>1 DEF UnderWay, MirrorAt
    <2>2. requests <= requests'
      BY <1>4 DEF RowInRange
    <2>3. h'[s].pc = "idle"
      BY <1>1 DEF Idle
    <2> QED BY <1>1, <2>1, <2>2, <2>3, WayAlone
  <1>6. CarriedBy(s)'
    BY <1>1, <1>2, <1>3 DEF CarriedBy, At, Steady, Idle
  <1>7. NobodyNew
    BY <1>1, NobodyOwes DEF At, NobodyNew, Idle
  <1> QED BY <1>1, <1>2, <1>4, <1>5, <1>6, <1>7, StillStep, NoEffect, AllAlone
          DEF CInv, Kept, NobodyNew

LEMMA SubmitStep ==
  ASSUME CInv, Shape', NEW s \in Handlers, SubmitUpdate(s) \/ SubmitNormalized(s) PROVE Kept
  <1>1. /\ Aside(s) /\ h'[s].pc \in {"leg", "normalize"} /\ m'[s] = m[s]
        /\ MirrorAt(s, "idle")
        /\ requests < MaxRequests /\ requests' = requests + 1
        /\ peak' = Larger(peak, Cardinality(UnderWay \cup {s}))
        /\ UNCHANGED << legs, comps, companies, contacts, blank, linked, m, step2, lost >>
    <2>1. CASE SubmitUpdate(s)
      <3>1. Become(s, [pc |-> "leg"]) /\ m' = m
        BY <2>1 DEF SubmitUpdate
      <3>2. Aside(s) /\ h'[s] = [pc |-> "leg"] /\ m'[s] = m[s]
        BY <3>1, Moves DEF CInv
      <3>3. /\ MirrorAt(s, "idle") /\ requests < MaxRequests /\ requests' = requests + 1
            /\ peak' = Larger(peak, Cardinality(UnderWay \cup {s}))
            /\ UNCHANGED << legs, comps, companies, contacts, blank, linked, m, step2, lost >>
        BY <2>1 DEF SubmitUpdate, Arrive
      <3> QED BY <3>2, <3>3
    <2>2. CASE SubmitNormalized(s)
      <3>1. Become(s, [pc |-> "normalize"]) /\ m' = m
        BY <2>2 DEF SubmitNormalized
      <3> QED BY <2>2, <3>1, Moves DEF CInv, SubmitNormalized, Arrive, rows
    <2> QED BY <2>1, <2>2
  <1>2. Steady
    BY <1>1 DEF Steady
  <1>3. RowInRange
    <2>1. CASE SubmitUpdate(s)
      <3>1. PICK uploaded \in BOOLEAN :
              app' = [app EXCEPT !.form = app.sent + 1, !.sent = app.sent + 1,
                                 !.stage = StageOnSubmit(uploaded)]
        BY <2>1 DEF SubmitUpdate
      <3>2. app'.form = app.sent + 1 /\ app'.sent = app.sent + 1 /\ app'.company = app.company
        BY <3>1 DEF CInv, Shape
      <3>3. app.sent \in Nat /\ app.sent <= requests /\ app.company <= companies
            /\ linked \in BOOLEAN /\ lost \in BOOLEAN /\ requests \in 0 .. MaxRequests
        BY DEF CInv, Shape, Ranges
      <3> QED BY <1>1, <3>2, <3>3, IntakeAssumption DEF RowInRange
    <2>2. CASE SubmitNormalized(s)
      BY <1>1, <2>2, RowStays DEF SubmitNormalized, rows
    <2> QED BY <2>1, <2>2
  <1>4. WayEffect
    <2>1. UnderWay' \subseteq UnderWay \cup {s}
      BY <1>1 DEF UnderWay, Aside, MirrorAt
    <2> QED BY <1>1, <2>1 DEF WayEffect
  <1>5. CarriedBy(s)'
    <2>1. CarriedBy(s)
      BY DEF CInv, Carried
    <2> QED BY <1>1, <1>2, <2>1 DEF CarriedBy, At, Steady
  <1>6. NobodyNew
    BY <1>1, NobodyOwes DEF At, NobodyNew
  <1> QED BY <1>1, <1>2, <1>3, <1>4, <1>5, <1>6, StillStep, NoEffect, AllAlone
          DEF CInv, Kept, NobodyNew

\* Slot s has neither a submit nor a mirror under way.
Rests(s) == MirrorAt(s, "idle") /\ h[s].pc \in {"idle", "patch"}

\* A step of slot s that writes nothing at all.
LEMMA QuietStep ==
  ASSUME CInv, Shape', NEW s \in Handlers, Aside(s), UNCHANGED rows, UNCHANGED counts,
         CarriedBy(s)',
         s \in UnderWay \/ Rests(s)'
  PROVE  Steady /\ Ranges' /\ Carried' /\ WayEffect
  <1>1. Steady /\ UNCHANGED << app, companies, linked, lost, requests, peak >>
    BY DEF Steady, rows, counts
  <1>2. RowInRange /\ requests <= requests'
    BY <1>1, RowStays
  <1> QED BY <1>1, <1>2, StillStep, WayAlone DEF Rests

LEMMA LegSelectStep ==
  ASSUME CInv, Shape', NEW s \in Handlers, LegSelect(s) PROVE Kept
  <1>1. /\ Aside(s) /\ h'[s].pc \in {"legInsert", "companion"} /\ m'[s] = m[s]
        /\ h'[s].pc = "legInsert" => legs = 0
        /\ UNCHANGED rows /\ UNCHANGED counts /\ s \in UnderWay
    <2>0. m' = m /\ UNCHANGED << rows, counts >> /\ At(s, "leg")
      BY DEF LegSelect
    <2>1. PICK pc \in {"legInsert", "companion"} :
            Become(s, [pc |-> pc]) /\ (pc = "legInsert" => legs = 0)
      BY DEF LegSelect
    <2>2. Aside(s) /\ h'[s] = [pc |-> pc] /\ m'[s] = m[s]
      BY <2>0, <2>1, Moves DEF CInv
    <2> QED BY <2>0, <2>1, <2>2 DEF UnderWay, At
  <1>2. CarriedBy(s)'
    <2>1. CarriedBy(s)
      BY DEF CInv, Carried
    <2> QED BY <1>1, <2>1 DEF CarriedBy, At, rows
  <1>3. Steady /\ Ranges' /\ Carried' /\ WayEffect
    BY <1>1, <1>2, QuietStep
  <1>4. LegEffect
    <2>1. CASE h'[s].pc = "legInsert"
      <3>1. legs' = 0
        BY <1>1, <1>3, <2>1 DEF Steady
      <3> QED BY <3>1 DEF LegEffect
    <2>2. CASE h'[s].pc # "legInsert"
      <3>1. LegOwers' \subseteq LegOwers
        BY <1>1, <2>2, NobodyOwes DEF At
      <3> QED BY <1>3, <3>1, NoEffect DEF CInv, LegEffect
    <2> QED BY <2>1, <2>2
  <1>5. CompanionsAlone /\ CompaniesAlone /\ ContactsAlone
    BY <1>1, <1>3, NobodyOwes, NoEffect DEF CInv, At
  <1> QED BY <1>3, <1>4, <1>5, NoEffect
          DEF CInv, Kept, Effects, CompanionEffect, CompanyEffect, ContactEffect

LEMMA LegInsertStep ==
  ASSUME CInv, Shape', NEW s \in Handlers, LegInsert(s) PROVE Kept
  <1>1. /\ Aside(s) /\ h'[s] = [pc |-> "companion"] /\ m'[s] = m[s] /\ At(s, "legInsert")
        /\ legs' \in {legs, legs + 1}
        /\ UNCHANGED << app, comps, companies, contacts, blank, linked, counts >>
    <2>1. Become(s, [pc |-> "companion"]) /\ m' = m
      BY DEF LegInsert
    <2> QED BY <2>1, Moves DEF CInv, LegInsert
  <1>2. RowInRange /\ requests <= requests' /\ Grows
    BY <1>1, RowStays DEF counts, Grows, CInv, Shape
  <1>3. CarriedBy(s)'
    <2>1. CarriedBy(s)
      BY DEF CInv, Carried
    <2> QED BY <1>1, <2>1 DEF CarriedBy, At
  <1>4. Carried'
    BY <1>1, <1>2, <1>3, CarriedKept DEF CInv
  <1>5. Ranges'
    BY <1>1, <1>2, ContactsStay DEF CInv, Ranges, RowInRange, counts
  <1>6. WayEffect
    <2>1. s \in UnderWay
      BY <1>1 DEF UnderWay, At
    <2> QED BY <1>1, <1>2, <2>1, WayAlone DEF counts
  <1>7. LegEffect
    <2>1. s \in LegOwers /\ LegOwers' \subseteq LegOwers \ {s}
      BY <1>1, NobodyOwes DEF LegOwers, At
    <2> QED BY <1>1, <2>1 DEF LegEffect, Pays
  <1>8. CompanionsAlone /\ CompaniesAlone /\ ContactsAlone
    BY <1>1, NobodyOwes
    DEF At, CompanionsAlone, CompaniesAlone, ContactsAlone, NoneNamed, Addressed, counts
  <1> QED BY <1>2, <1>4, <1>5, <1>6, <1>7, <1>8
          DEF Kept, Effects, CompanionEffect, CompanyEffect, ContactEffect, Grows

\* A request that looks something up and remembers no company.
LEMMA LooksUp ==
  ASSUME CInv, Shape', NEW s \in Handlers, Aside(s), m'[s] = m[s], UNCHANGED rows,
         UNCHANGED counts, s \in UnderWay \/ Rests(s)',
         h'[s].pc \in {"idle", "normalize", "archive", "companionInsert"},
         h'[s].pc = "archive" => h'[s].row \in DOMAIN comps,
         h'[s].pc = "companionInsert" => comps = << >>
  PROVE  Kept
  <1>1. CarriedBy(s)'
    <2>1. CarriedBy(s)
      BY DEF CInv, Carried
    <2> QED BY <2>1 DEF CarriedBy, At, rows
  <1>2. Steady /\ Ranges' /\ Carried' /\ WayEffect
    BY <1>1, QuietStep
  <1>3. CompanionEffect
    <2>1. CASE h'[s].pc = "companionInsert"
      <3>1. Len(comps') = 0 /\ step2' = step2
        BY <1>2, <2>1 DEF Steady
      <3> QED BY <3>1 DEF CompanionEffect
    <2>2. CASE h'[s].pc # "companionInsert"
      <3>1. CompanionOwers' \subseteq CompanionOwers
        BY <2>2, NobodyOwes DEF At
      <3> QED BY <1>2, <3>1, NoEffect DEF CInv, CompanionEffect
    <2> QED BY <2>1, <2>2
  <1>4. LegsAlone /\ CompaniesAlone /\ ContactsAlone
    BY <1>2, NobodyOwes, NoEffect DEF CInv, At
  <1> QED BY <1>2, <1>3, <1>4, NoEffect
          DEF CInv, Kept, Effects, LegEffect, CompanyEffect, ContactEffect

LEMMA LookStep ==
  ASSUME CInv, Shape', NEW s \in Handlers,
         CompanionSelect(s) \/ OrphanSelect(s) \/ EndEarly(s)
  PROVE  Kept
  <1>1. CASE CompanionSelect(s)
    <2>1. /\ Become(s, [pc |-> "companionInsert"]) /\ m' = m /\ UNCHANGED rows /\ UNCHANGED counts
          /\ comps = << >> /\ s \in UnderWay
      BY <1>1 DEF CompanionSelect, rows, UnderWay, At
    <2>2. Aside(s) /\ h'[s] = [pc |-> "companionInsert"] /\ m'[s] = m[s]
      BY <2>1, Moves DEF CInv
    <2> QED BY <2>1, <2>2, LooksUp
  <1>2. CASE OrphanSelect(s)
    <2>1. m' = m /\ UNCHANGED rows /\ UNCHANGED counts /\ s \in UnderWay
      BY <1>2 DEF OrphanSelect, rows, UnderWay, At
    <2>2. PICK i \in DOMAIN comps : Become(s, [pc |-> "archive", row |-> i])
      BY <1>2 DEF OrphanSelect
    <2>3. Aside(s) /\ h'[s] = [pc |-> "archive", row |-> i] /\ m'[s] = m[s]
      BY <2>1, <2>2, Moves DEF CInv
    <2> QED BY <2>1, <2>2, <2>3, LooksUp
  <1>3. CASE EndEarly(s)
    <2>1. Become(s, Idle) /\ m' = m /\ UNCHANGED rows /\ UNCHANGED counts
      BY <1>3 DEF EndEarly, rows
    <2>2. Aside(s) /\ h'[s].pc = "idle" /\ m'[s] = m[s]
      BY <2>1, Moves DEF CInv, Idle
    <2>3. s \in UnderWay \/ Rests(s)'
      BY <2>2 DEF UnderWay, Rests, MirrorAt
    <2> QED BY <2>1, <2>2, <2>3, LooksUp
  <1> QED BY <1>1, <1>2, <1>3

\* The request goes on to the normalized part, and the mirror starts.
LEMMA GoesOn ==
  ASSUME CInv, Shape', NEW s \in Handlers, GoOn(s), s \in UnderWay,
         UNCHANGED << app, legs, companies, contacts, blank, linked, counts >>,
         DOMAIN comps \subseteq DOMAIN comps'
  PROVE  /\ Ranges' /\ Carried' /\ WayEffect /\ CompanionOwers' \subseteq CompanionOwers \ {s}
         /\ LegsAlone /\ CompaniesAlone /\ ContactsAlone /\ companies <= companies'
  <1>1. Aside(s) /\ h'[s].pc = "normalize" /\ m'[s].pc = "company"
    BY BothMove DEF CInv
  <1>2. RowInRange /\ requests <= requests' /\ Grows
    BY RowStays DEF counts, Grows, CInv, Shape
  <1>3. CarriedBy(s)'
    BY <1>1 DEF CarriedBy, At
  <1>4. Carried'
    BY <1>1, <1>2, <1>3, CarriedKept DEF CInv
  <1>5. Ranges'
    BY <1>2, ContactsStay DEF CInv, Ranges, RowInRange, counts
  <1>6. WayEffect
    BY <1>1, <1>2, WayAlone DEF counts
  <1>7. LegsAlone /\ CompaniesAlone /\ ContactsAlone
    BY <1>1, NobodyOwes DEF At, MirrorAt, LegsAlone, CompaniesAlone, ContactsAlone, NoneNamed,
       Addressed
  <1>8. CompanionOwers' \subseteq CompanionOwers \ {s}
    BY <1>1, NobodyOwes DEF At
  <1> QED BY <1>2, <1>4, <1>5, <1>6, <1>7, <1>8 DEF Grows

LEMMA CompanionStep ==
  ASSUME CInv, Shape', NEW s \in Handlers,
         CompanionInsert(s) \/ OrphanArchive(s) \/ NoCompanion(s)
  PROVE  Kept
  <1>1. /\ GoOn(s) /\ s \in UnderWay
        /\ UNCHANGED << app, legs, companies, contacts, blank, linked, counts >>
    BY DEF CompanionInsert, OrphanArchive, NoCompanion, UnderWay, At, rows
  <1>2. /\ Len(comps) \in Nat /\ DOMAIN comps = 1 .. Len(comps)
        /\ Len(Append(comps, "live")) = Len(comps) + 1
        /\ DOMAIN Append(comps, "live") = 1 .. Len(comps) + 1
    BY LenProperties, AppendProperties DEF CInv, Shape
  <1>3. CASE CompanionInsert(s)
    <2>1. comps' \in {comps, Append(comps, "live")} /\ At(s, "companionInsert")
      BY <1>3 DEF CompanionInsert
    <2>2. DOMAIN comps \subseteq DOMAIN comps' /\ Len(comps') \in {Len(comps), Len(comps) + 1}
      BY <1>2, <2>1
    <2>3. s \in CompanionOwers
      BY <2>1 DEF CompanionOwers
    <2>4. /\ Ranges' /\ Carried' /\ WayEffect /\ CompanionOwers' \subseteq CompanionOwers \ {s}
          /\ LegsAlone /\ CompaniesAlone /\ ContactsAlone /\ companies <= companies'
      BY <1>1, <2>2, GoesOn
    <2>5. CompanionEffect
      BY <1>1, <2>2, <2>3, <2>4 DEF CompanionEffect, Pays, counts
    <2> QED BY <2>4, <2>5 DEF Kept, Effects, LegEffect, CompanyEffect, ContactEffect
  <1>4. CASE OrphanArchive(s) \/ NoCompanion(s)
    <2>1. Len(comps') = Len(comps) /\ DOMAIN comps' = DOMAIN comps
      <3>1. CASE comps' = [comps EXCEPT ![h[s].row] = "archived"]
        <4>1. DOMAIN comps' = DOMAIN comps
          BY <3>1
        <4>2. comps' \in Seq({"live", "archived"})
          BY DEF Shape
        <4> QED BY <1>2, <4>1, <4>2, LenProperties
      <3>2. CASE comps' = comps
        BY <3>2
      <3> QED BY <1>4, <3>1, <3>2 DEF OrphanArchive, NoCompanion, rows
    <2>2. /\ Ranges' /\ Carried' /\ WayEffect /\ CompanionOwers' \subseteq CompanionOwers \ {s}
          /\ LegsAlone /\ CompaniesAlone /\ ContactsAlone /\ companies <= companies'
      BY <1>1, <2>1, GoesOn
    <2>3. CompanionsAlone
      BY <1>1, <2>1, <2>2 DEF CompanionsAlone, counts
    <2> QED BY <2>2, <2>3 DEF Kept, Effects, LegEffect, CompanionEffect, CompanyEffect, ContactEffect
  <1> QED BY <1>3, <1>4

\* Steps that belong to no request.
LEMMA OtherStep ==
  ASSUME CInv, Shape', CreateCompanion \/ StaffMove \/ UNCHANGED vars
  PROVE  Kept
  <1>1. /\ h' = h /\ m' = m
        /\ UNCHANGED << legs, companies, contacts, blank, linked, lost, peak >>
        /\ requests \in Nat /\ requests' \in 0 .. MaxRequests /\ requests <= requests'
    BY IntakeAssumption DEF CreateCompanion, Arrive, StaffMove, vars, rows, counts, CInv, Ranges
  <1>2. NobodyNew
    BY <1>1 DEF NobodyNew, LegOwers, CompanionOwers, CompanyOwers, MirrorCompanyOwers,
                ContactOwers, MirrorContactOwers, At, MirrorAt
  <1>3. WayEffect
    BY <1>1 DEF WayEffect, UnderWay, At, MirrorAt, CInv, Ranges
  <1>4. LegsAlone /\ CompaniesAlone /\ ContactsAlone /\ companies <= companies'
    BY <1>1, <1>2
    DEF NobodyNew, LegsAlone, CompaniesAlone, ContactsAlone, NoneNamed, Addressed, CInv, Shape
  <1>5. app'.sent = app.sent /\ app'.form = app.form /\ app'.company = app.company
    BY DEF CreateCompanion, StaffMove, vars, rows, CInv, Shape
  <1>8. ContactsInRange'
    BY <1>1, ContactsStay DEF CInv, Ranges
  <1>6. CASE CreateCompanion
    <2>1. /\ comps' = Append(comps, "live") /\ step2' = step2 + 1 /\ requests' = requests + 1
      BY <1>6 DEF CreateCompanion, Arrive
    <2>2. /\ Len(comps) \in Nat /\ DOMAIN comps = 1 .. Len(comps)
          /\ Len(comps') = Len(comps) + 1 /\ DOMAIN comps' = 1 .. Len(comps) + 1
      BY <2>1, LenProperties, AppendProperties DEF CInv, Shape
    <2>3. CompanionEffect
      BY <1>2, <2>1, <2>2 DEF CompanionEffect, NobodyNew
    <2>4. Ranges'
      BY <1>1, <1>5, <1>8, <2>1 DEF CInv, Shape, Ranges
    <2>5. Carried'
      <3>1. DOMAIN comps \subseteq DOMAIN comps'
        BY <2>2
      <3> SUFFICES ASSUME NEW q \in Handlers PROVE CarriedBy(q)'
        BY DEF Carried
      <3>2. CarriedBy(q)
        BY DEF CInv, Carried
      <3> QED BY <1>1, <1>5, <3>1, <3>2 DEF CarriedBy, At
    <2> QED BY <1>3, <1>4, <2>3, <2>4, <2>5 DEF Kept, Effects, LegEffect, CompanyEffect, ContactEffect
  <1>7. CASE StaffMove \/ UNCHANGED vars
    <2>1. comps' = comps /\ step2' = step2
      BY <1>7 DEF StaffMove, vars, rows, counts
    <2>2. CompanionsAlone
      BY <1>2, <2>1 DEF CompanionsAlone, NobodyNew
    <2>3. Ranges'
      BY <1>1, <1>5, <1>8, <2>1 DEF CInv, Shape, Ranges
    <2>4. Carried'
      BY <1>1, <1>5, <2>1 DEF CInv, Carried, CarriedBy, At
    <2> QED BY <1>3, <1>4, <2>2, <2>3, <2>4
            DEF Kept, Effects, LegEffect, CompanionEffect, CompanyEffect, ContactEffect
  <1> QED BY <1>6, <1>7

LEMMA ContactFacts ==
  ASSUME CInv
  PROVE  /\ Len(contacts) \in Nat /\ DOMAIN contacts = 1 .. Len(contacts)
         /\ \A k \in DOMAIN contacts : contacts[k] \in Contact
         /\ companies \in Nat
         /\ \A c : /\ Len(Append(contacts, c)) = Len(contacts) + 1
                   /\ DOMAIN Append(contacts, c) = 1 .. Len(contacts) + 1
                   /\ Append(contacts, c)[Len(contacts) + 1] = c
                   /\ \A k \in 1 .. Len(contacts) : Append(contacts, c)[k] = contacts[k]
  <1>1. contacts \in Seq(Contact) /\ companies \in Nat
    BY DEF CInv, Ranges, ContactsInRange, Shape
  <1>2. /\ Len(contacts) \in Nat /\ DOMAIN contacts = 1 .. Len(contacts)
        /\ \A k \in DOMAIN contacts : contacts[k] \in Contact
    BY <1>1, LenProperties
  <1>3. ASSUME NEW c
        PROVE  /\ Len(Append(contacts, c)) = Len(contacts) + 1
               /\ DOMAIN Append(contacts, c) = 1 .. Len(contacts) + 1
               /\ Append(contacts, c)[Len(contacts) + 1] = c
               /\ \A k \in 1 .. Len(contacts) : Append(contacts, c)[k] = contacts[k]
    <2>1. contacts \in Seq(Contact \cup {c})
      BY <1>1, SeqMonotonic
    <2>2. Append(contacts, c) \in Seq(Contact \cup {c})
      BY <2>1, AppendProperties
    <2> QED BY <1>2, <2>1, <2>2, AppendProperties, LenProperties
  <1> QED BY <1>1, <1>2, <1>3

\* Contacts that are left alone while the companies grow in number.
LEMMA MoreCompanies ==
  ASSUME CInv, UNCHANGED << contacts, blank >>, companies' \in Nat, companies <= companies'
  PROVE  ContactsInRange'
  <1>1. ContactsInRange /\ companies \in Nat
    BY DEF CInv, Ranges, Shape
  <1>2. Contact \subseteq Contact'
    BY <1>1 DEF Contact
  <1>3. contacts' \in Seq(Contact')
    BY <1>1, <1>2, SeqMonotonic DEF ContactsInRange
  <1> QED BY <1>1, <1>3 DEF ContactsInRange, Addressed

\* A contact is inserted: with an e-mail address it is counted, without it not.
LEMMA ContactAdded ==
  ASSUME CInv, NEW c \in Nat, NEW email \in BOOLEAN, CreateContact(c, email),
         companies' \in Nat, companies <= companies', c <= companies'
  PROVE  /\ ContactsInRange'
         /\ Addressed' = IF email THEN Addressed + 1 ELSE Addressed
         /\ NoneNamed' => NoneNamed
         /\ email /\ c # None => ~ NoneNamed'
  <1> DEFINE row == [company |-> c, email |-> email]
             n == Len(contacts)
  <1>1. /\ contacts' = Append(contacts, row)
        /\ blank' = IF email THEN blank ELSE blank + 1
    BY DEF CreateContact
  <1>2. row \in Contact' /\ row.company = c /\ row.email = email
    BY DEF Contact
  <1>3. contacts \in Seq(Contact')
    <2>1. contacts \in Seq(Contact) /\ companies \in Nat
      BY DEF CInv, Ranges, ContactsInRange, Shape
    <2>2. Contact \subseteq Contact'
      BY <2>1 DEF Contact
    <2> QED BY <2>1, <2>2, SeqMonotonic
  <1> HIDE DEF row
  <1>4. /\ n \in Nat /\ DOMAIN contacts = 1 .. n /\ blank \in 0 .. n
        /\ Addressed = n - blank
        /\ Addressed # 0 => \E k \in 1 .. n : contacts[k].email
    BY ContactFacts DEF CInv, Ranges, ContactsInRange, Addressed
  <1>5. /\ contacts' \in Seq(Contact') /\ Len(contacts') = n + 1
        /\ DOMAIN contacts' = 1 .. n + 1 /\ contacts'[n + 1] = row
        /\ \A k \in 1 .. n : contacts'[k] = contacts[k]
    <2>1. contacts' \in Seq(Contact')
      BY <1>1, <1>2, <1>3, AppendProperties
    <2> QED BY <1>1, <2>1, ContactFacts
  <1> HIDE DEF n
  <1>6. Addressed' = IF email THEN Addressed + 1 ELSE Addressed
    BY <1>1, <1>4, <1>5 DEF Addressed
  <1>7. Addressed' # 0 => \E k \in DOMAIN contacts' : contacts'[k].email
    <2>1. CASE email
      <3>1. n + 1 \in DOMAIN contacts'
        BY <1>4, <1>5
      <3>2. contacts'[n + 1].email = email
        BY <1>2, <1>5
      <3>3. contacts'[n + 1].email
        BY <2>1, <3>2, Zenon
      <3> QED BY <3>1, <3>3
    <2>2. CASE ~ email
      BY <1>4, <1>5, <1>6, <2>2
    <2> QED BY <2>1, <2>2
  <1>8. blank' \in 0 .. n + 1
    BY <1>1, <1>4
  <1>9. NoneNamed' => NoneNamed
    <2> SUFFICES ASSUME NoneNamed', NEW k \in DOMAIN contacts, contacts[k].email
                 PROVE  contacts[k].company = None
      BY DEF NoneNamed
    <2>1. k \in DOMAIN contacts' /\ contacts'[k] = contacts[k]
      BY <1>4, <1>5
    <2> QED BY <2>1 DEF NoneNamed
  <1>10. email /\ c # None => ~ NoneNamed'
    <2>1. n + 1 \in DOMAIN contacts' /\ contacts'[n + 1].email = email
          /\ contacts'[n + 1].company = c
      BY <1>2, <1>4, <1>5
    <2> QED BY <2>1 DEF NoneNamed
  <1> QED BY <1>5, <1>6, <1>7, <1>8, <1>9, <1>10 DEF ContactsInRange

LEMMA FindCompanyStep ==
  ASSUME CInv, Shape', NEW s \in Handlers, FindCompany(s) PROVE Kept
  <1>1. m' = m /\ UNCHANGED rows /\ UNCHANGED counts /\ s \in UnderWay
    BY DEF FindCompany, rows, UnderWay, At
  <1>2. PICK c \in CompanyMatches : Become(s, [pc |-> "contact", company |-> c])
    BY DEF FindCompany
  <1>3. Aside(s) /\ h'[s] = [pc |-> "contact", company |-> c] /\ m'[s] = m[s]
    BY <1>1, <1>2, Moves DEF CInv
  <1>4. c <= companies /\ (c = None => companies = 0)
    BY ContactFacts DEF CompanyMatches, None
  <1>5. CarriedBy(s)'
    <2>1. CarriedBy(s)
      BY DEF CInv, Carried
    <2> QED BY <1>1, <1>3, <1>4, <2>1 DEF CarriedBy, At, rows
  <1>6. Steady /\ Ranges' /\ Carried' /\ WayEffect
    BY <1>1, <1>3, <1>5, QuietStep
  <1>7. LegsAlone /\ CompanionsAlone
    BY <1>3, <1>6, NobodyOwes, NoEffect DEF CInv, At
  <1>8. /\ MirrorCompanyOwers' \subseteq MirrorCompanyOwers
        /\ MirrorContactOwers' \subseteq MirrorContactOwers
        /\ companies <= companies'
    BY <1>3, <1>6, NobodyOwes, NoEffect DEF CInv
  <1>9. CASE c = None
    <2>1. companies' = 0
      BY <1>4, <1>6, <1>9 DEF Steady
    <2>2. NoneNamed
      <3>1. \A k \in DOMAIN contacts : contacts[k].company \in 0 .. companies
        BY ContactFacts DEF Contact
      <3>2. companies = 0
        BY <1>4, <1>9
      <3> QED BY <3>1, <3>2 DEF NoneNamed, None
    <2>3. Addressed' = Addressed
      BY <1>6 DEF Steady, Addressed
    <2> QED BY <1>6, <1>7, <1>8, <2>1, <2>2, <2>3
            DEF Kept, Effects, LegEffect, CompanionEffect, CompanyEffect, ContactEffect
  <1>10. CASE c # None
    <2>1. CompanyOwers' \subseteq CompanyOwers /\ ContactOwers' \subseteq ContactOwers
      BY <1>3, <1>10 DEF Aside, CompanyOwers, ContactOwers, At
    <2> QED BY <1>6, <1>7, <1>8, <2>1, NoEffect
            DEF CInv, Kept, Effects, LegEffect, CompanionEffect, CompanyEffect, ContactEffect
  <1> QED BY <1>9, <1>10

LEMMA FindContactStep ==
  ASSUME CInv, Shape', NEW s \in Handlers, FindContact(s) PROVE Kept
  <1>1. m' = m /\ UNCHANGED rows /\ UNCHANGED counts /\ s \in UnderWay /\ At(s, "contact")
    BY DEF FindContact, rows, UnderWay, At
  <1>0. PICK email \in BOOLEAN :
          Become(s, [pc |-> "commit", company |-> h[s].company, email |-> email,
                     found |-> email /\ ContactIn(h[s].company)])
    BY DEF FindContact
  <1>2. Aside(s) /\ m'[s] = m[s]
        /\ h'[s] = [pc |-> "commit", company |-> h[s].company, email |-> email,
                    found |-> email /\ ContactIn(h[s].company)]
    BY <1>0, <1>1, Moves DEF CInv
  <1>3. h[s].company \in Nat /\ h[s].company <= companies
    BY <1>1, Remembered DEF CInv, Carried, CarriedBy
  <1>4. CarriedBy(s)'
    <2>1. CarriedBy(s)
      BY DEF CInv, Carried
    <2> QED BY <1>1, <1>2, <1>3, <2>1 DEF CarriedBy, At, rows
  <1>5. Steady /\ Ranges' /\ Carried' /\ WayEffect
    BY <1>1, <1>2, <1>4, QuietStep
  <1>6. LegsAlone /\ CompanionsAlone
    BY <1>2, <1>5, NobodyOwes, NoEffect DEF CInv, At
  <1>7. /\ MirrorCompanyOwers' \subseteq MirrorCompanyOwers
        /\ MirrorContactOwers' \subseteq MirrorContactOwers
        /\ companies <= companies'
    BY <1>2, <1>5, NobodyOwes, NoEffect DEF CInv
  <1>8. CompanyOwers' \subseteq CompanyOwers
    BY <1>1, <1>2 DEF Aside, CompanyOwers, At
  <1>9. ContactEffect
    <2>1. CASE h[s].company = None \/ ContactIn(h[s].company) \/ ~ email
      <3>1. h'[s].found = (email /\ ContactIn(h[s].company)) /\ h'[s].email = email
            /\ h'[s].pc = "commit"
        BY <1>2
      <3>2. At(s, "commit")' /\ ~ h'[s].found /\ h'[s].email => s \in ContactOwers
        BY <1>1, <2>1, <3>1 DEF ContactOwers
      <3>3. ~ At(s, "contact")'
        BY <3>1 DEF At
      <3>4. ContactOwers' \subseteq ContactOwers
        BY <1>2, <3>2, <3>3 DEF Aside, ContactOwers, At
      <3> QED BY <1>5, <1>7, <3>4, NoEffect DEF CInv, ContactEffect
    <2>2. CASE h[s].company # None /\ ~ ContactIn(h[s].company)
      <3>1. companies <= 1 => NoneNamed
        <4>1. \A k \in DOMAIN contacts : contacts[k].company \in 0 .. companies
          BY ContactFacts DEF Contact
        <4>2. companies \in Nat
          BY ContactFacts
        <4> QED BY <1>3, <2>2, <4>1, <4>2 DEF ContactIn, NoneNamed, None
      <3>2. Addressed' = Addressed /\ companies' = companies
        BY <1>5 DEF Steady, Addressed
      <3> QED BY <1>7, <3>1, <3>2 DEF ContactEffect
    <2> QED BY <2>1, <2>2
  <1> QED BY <1>5, <1>6, <1>7, <1>8, <1>9, NoEffect
          DEF CInv, Kept, Effects, LegEffect, CompanionEffect, CompanyEffect

LEMMA CommitStep ==
  ASSUME CInv, Shape', NEW s \in Handlers, Commit(s) PROVE Kept
  <1>1. /\ Aside(s) /\ h'[s].pc = "idle" /\ m'[s] = m[s] /\ At(s, "commit")
        /\ UNCHANGED << legs, comps, counts >> /\ linked' = TRUE
    <2>1. Become(s, Idle) /\ m' = m /\ UNCHANGED << legs, comps, counts >> /\ linked' = TRUE
          /\ At(s, "commit")
      BY DEF Commit
    <2> QED BY <2>1, Moves DEF CInv, Idle
  <1>2. h[s].company \in Nat /\ h[s].company <= companies /\ companies \in Nat
    BY <1>1, Remembered, ContactFacts DEF CInv, Carried, CarriedBy
  <1>3. PICK c : c = IF h[s].company = None THEN companies + 1 ELSE h[s].company
    OBVIOUS
  <1>4. /\ IF h[s].company = None THEN companies' = companies + 1 ELSE companies' = companies
        /\ IF h[s].found THEN UNCHANGED << contacts, blank >> ELSE CreateContact(c, h[s].email)
        /\ app' = [app EXCEPT !.company = NamedCompany(c)]
    BY <1>3 DEF Commit, CreateCompany
  <1>5. c \in 1 .. companies' /\ companies' \in {companies, companies + 1} /\ companies' \in Nat
    BY <1>2, <1>3, <1>4 DEF None
  <1>6. RowInRange /\ Grows
    <2>1. app'.sent = app.sent /\ app'.form = app.form /\ app'.company \in {c, app.company}
      BY <1>4 DEF NamedCompany, CInv, Shape
    <2>2. /\ app.sent \in Nat /\ app.form <= app.sent /\ app.sent <= requests
          /\ app.company \in Nat /\ app.company <= companies /\ lost \in BOOLEAN
          /\ requests \in 0 .. MaxRequests
      BY DEF CInv, Shape, Ranges
    <2> QED BY <1>1, <1>2, <1>5, <2>1, <2>2 DEF RowInRange, Grows, counts
  <1>16. h[s].email \in BOOLEAN
    BY <1>1, Remembered DEF CInv
  <1>17. ~ h[s].found => /\ ContactsInRange'
                         /\ Addressed' = IF h[s].email THEN Addressed + 1 ELSE Addressed
                         /\ NoneNamed' => NoneNamed
                         /\ h[s].email => ~ NoneNamed'
    <2>1. c \in Nat /\ c # None /\ c <= companies' /\ companies' \in Nat /\ companies <= companies'
      BY <1>2, <1>5 DEF None
    <2> QED BY <1>4, <1>16, <2>1, ContactAdded
  <1>7. ContactsInRange'
    <2>1. CASE h[s].found
      <3>1. UNCHANGED << contacts, blank >>
        BY <1>4, <2>1
      <3>2. companies <= companies' /\ companies' \in Nat
        BY <1>2, <1>5
      <3> QED BY <3>1, <3>2, MoreCompanies
    <2>2. CASE ~ h[s].found
      BY <1>17, <2>2
    <2> QED BY <2>1, <2>2
  <1>8. Carried'
    <2>1. CarriedBy(s)
      BY DEF CInv, Carried
    <2>2. m[s].pc \in {"companyInsert", "contact", "contactInsert", "link"} => m[s].company \in Nat
      BY Remembered DEF CInv
    <2>3. CarriedBy(s)'
      BY <1>1, <1>2, <1>5, <2>1, <2>2 DEF CarriedBy, At
    <2> QED BY <1>1, <1>6, <2>3, CarriedKept DEF CInv
  <1>9. Ranges'
    BY <1>1, <1>6, <1>7 DEF CInv, Ranges, RowInRange, counts
  <1>10. WayEffect
    <2>1. s \in UnderWay /\ requests <= requests' /\ peak' = peak
      BY <1>1, <1>6 DEF UnderWay, At, RowInRange, counts
    <2> QED BY <1>1, <2>1, WayAlone
  <1>11. LegsAlone /\ CompanionsAlone
    BY <1>1, NobodyOwes DEF At, LegsAlone, CompanionsAlone, counts
  <1>12. /\ CompanyOwers' \subseteq CompanyOwers \ {s} /\ ContactOwers' \subseteq ContactOwers \ {s}
         /\ MirrorCompanyOwers' \subseteq MirrorCompanyOwers
         /\ MirrorContactOwers' \subseteq MirrorContactOwers
    BY <1>1, NobodyOwes DEF At
  <1>13. CompanyEffect
    <2>1. CASE h[s].company = None
      <3>1. s \in CompanyOwers
        BY <1>1, <2>1 DEF CompanyOwers
      <3> QED BY <1>4, <1>12, <2>1, <3>1 DEF CompanyEffect, Pays
    <2>2. CASE h[s].company # None
      BY <1>4, <1>12, <2>2 DEF CompanyEffect, CompaniesAlone
    <2> QED BY <2>1, <2>2
  <1>14. ContactEffect
    <2>1. companies <= companies'
      BY <1>2, <1>5
    <2>2. CASE h[s].found
      <3>1. UNCHANGED << contacts, blank >>
        BY <1>4, <2>2
      <3> QED BY <1>12, <2>1, <3>1 DEF ContactEffect, ContactsAlone, NoneNamed, Addressed
    <2>3. CASE ~ h[s].found /\ h[s].email
      <3>1. s \in ContactOwers
        BY <1>1, <2>3 DEF ContactOwers
      <3>2. Addressed' = Addressed + 1 /\ ~ NoneNamed'
        BY <1>17, <2>3
      <3> QED BY <1>12, <2>1, <3>1, <3>2 DEF ContactEffect, Pays
    <2>4. CASE ~ h[s].found /\ ~ h[s].email
      <3>1. Addressed' = Addressed /\ (NoneNamed' => NoneNamed)
        BY <1>17, <2>4
      <3> QED BY <1>12, <2>1, <3>1 DEF ContactEffect, ContactsAlone
    <2> QED BY <2>2, <2>3, <2>4
  <1> QED BY <1>8, <1>9, <1>10, <1>11, <1>13, <1>14
          DEF Kept, Effects, LegEffect, CompanionEffect

\* A step of the mirror of slot s leaves requests, counters and the row's form.
LEMMA MirrorWay ==
  ASSUME CInv, NEW s \in Handlers, Aside(s), h'[s] = h[s], s \in UnderWay, UNCHANGED counts
  PROVE  WayEffect
  <1>1. peak' = peak /\ requests <= requests'
    BY DEF counts, CInv, Ranges
  <1> QED BY <1>1, WayAlone

LEMMA MirrorFindCompanyStep ==
  ASSUME CInv, Shape', NEW s \in Handlers, MirrorFindCompany(s) PROVE Kept
  <1>1. h' = h /\ UNCHANGED rows /\ UNCHANGED counts /\ s \in UnderWay
    BY DEF MirrorFindCompany, rows, UnderWay, MirrorAt
  <1>2. PICK pc \in {"companyInsert", "contact"}, c \in Nat :
           /\ MirrorBecomes(s, [pc |-> pc, company |-> c])
           /\ c <= companies /\ (pc = "companyInsert" => companies = 0)
    <2>1. CASE MirrorBecomes(s, [pc |-> "contact", company |-> None])
      BY <2>1, ContactFacts DEF None
    <2>2. ASSUME NEW c \in CompanyMatches,
                 MirrorBecomes(s, [pc |-> IF c = None THEN "companyInsert" ELSE "contact",
                                   company |-> c])
          PROVE  \E pc \in {"companyInsert", "contact"}, d \in Nat :
                   /\ MirrorBecomes(s, [pc |-> pc, company |-> d])
                   /\ d <= companies /\ (pc = "companyInsert" => companies = 0)
      <3>1. c \in Nat /\ c <= companies /\ (c = None => companies = 0)
        BY ContactFacts DEF CompanyMatches, None
      <3>2. CASE c = None
        BY <2>2, <3>1, <3>2
      <3>3. CASE c # None
        BY <2>2, <3>1, <3>3
      <3> QED BY <3>2, <3>3
    <2> QED BY <2>1, <2>2 DEF MirrorFindCompany
  <1>3. Aside(s) /\ m'[s] = [pc |-> pc, company |-> c] /\ h'[s] = h[s]
    BY <1>1, <1>2, MirrorMoves DEF CInv
  <1>4. CarriedBy(s)'
    <2>1. CarriedBy(s)
      BY DEF CInv, Carried
    <2> QED BY <1>1, <1>2, <1>3, <2>1 DEF CarriedBy, At, rows
  <1>5. Steady /\ Ranges' /\ Carried' /\ WayEffect
    BY <1>1, <1>3, <1>4, QuietStep
  <1>6. /\ LegOwers' \subseteq LegOwers /\ CompanionOwers' \subseteq CompanionOwers
        /\ CompanyOwers' \subseteq CompanyOwers /\ ContactOwers' \subseteq ContactOwers
        /\ MirrorContactOwers' \subseteq MirrorContactOwers
    BY <1>3, NobodyOwes DEF MirrorAt
  <1>7. LegsAlone /\ CompanionsAlone /\ ContactsAlone /\ companies <= companies'
    BY <1>5, <1>6, NoEffect DEF CInv
  <1>8. CompanyEffect
    <2>1. CASE pc = "companyInsert"
      <3>1. companies' = 0
        BY <1>2, <1>5, <2>1 DEF Steady
      <3> QED BY <3>1 DEF CompanyEffect
    <2>2. CASE pc # "companyInsert"
      <3>1. MirrorCompanyOwers' \subseteq MirrorCompanyOwers
        BY <1>3, <2>2, NobodyOwes DEF MirrorAt
      <3> QED BY <1>5, <1>6, <3>1, NoEffect DEF CInv, CompanyEffect
    <2> QED BY <2>1, <2>2
  <1> QED BY <1>5, <1>7, <1>8 DEF Kept, Effects, LegEffect, CompanionEffect, ContactEffect

LEMMA MirrorCreateCompanyStep ==
  ASSUME CInv, Shape', NEW s \in Handlers, MirrorCreateCompany(s) PROVE Kept
  <1>1. /\ h' = h /\ UNCHANGED counts /\ companies' = companies + 1
        /\ UNCHANGED << app, legs, comps, contacts, blank, linked >>
        /\ MirrorAt(s, "companyInsert") /\ companies \in Nat
        /\ MirrorBecomes(s, [pc |-> "contact", company |-> companies + 1])
    BY DEF MirrorCreateCompany, CInv, Shape
  <1>2. Aside(s) /\ m'[s] = [pc |-> "contact", company |-> companies + 1] /\ h'[s] = h[s]
    BY <1>1, MirrorMoves DEF CInv
  <1>3. RowInRange /\ Grows /\ companies <= companies'
    BY <1>1, ContactFacts DEF CInv, Shape, Ranges, RowInRange, Grows, counts
  <1>4. ContactsInRange'
    BY <1>1, <1>3, ContactFacts, MoreCompanies
  <1>5. Ranges'
    BY <1>1, <1>3, <1>4 DEF CInv, Ranges, RowInRange, counts
  <1>6. Carried'
    <2>1. CarriedBy(s) /\ companies \in Nat
      BY ContactFacts DEF CInv, Carried
    <2>2. At(s, "contact") \/ At(s, "commit") => h[s].company \in Nat
      BY Remembered DEF CInv
    <2>3. CarriedBy(s)'
      BY <1>1, <1>2, <2>1, <2>2 DEF CarriedBy, At
    <2> QED BY <1>2, <1>3, <2>3, CarriedKept DEF CInv
  <1>7. WayEffect
    <2>1. s \in UnderWay
      BY <1>1 DEF UnderWay, MirrorAt
    <2> QED BY <1>1, <1>2, <2>1, MirrorWay
  <1>8. /\ LegOwers' \subseteq LegOwers /\ CompanionOwers' \subseteq CompanionOwers
        /\ CompanyOwers' \subseteq CompanyOwers /\ ContactOwers' \subseteq ContactOwers
        /\ MirrorContactOwers' \subseteq MirrorContactOwers
        /\ MirrorCompanyOwers' \subseteq MirrorCompanyOwers \ {s}
    BY <1>2, NobodyOwes DEF MirrorAt
  <1>9. LegsAlone /\ CompanionsAlone /\ ContactsAlone
    BY <1>1, <1>8 DEF LegsAlone, CompanionsAlone, ContactsAlone, NoneNamed, Addressed, counts
  <1>10. CompanyEffect
    <2>1. s \in MirrorCompanyOwers
      BY <1>1 DEF MirrorCompanyOwers
    <2> QED BY <1>1, <1>8, <2>1 DEF CompanyEffect, Pays
  <1> QED BY <1>3, <1>5, <1>6, <1>7, <1>9, <1>10
          DEF Kept, Effects, LegEffect, CompanionEffect, ContactEffect

\* A step of the mirror that writes at most contacts and the company of the row.
LEMMA MirrorWrites ==
  ASSUME CInv, Shape', NEW s \in Handlers, Aside(s), h'[s] = h[s], s \in UnderWay,
         UNCHANGED << legs, comps, companies, linked, counts >>,
         m'[s].pc \in {"idle", "link", "contactInsert"},
         m'[s].pc # "idle" => m'[s].company = m[s].company /\ m[s].company <= companies,
         app'.sent = app.sent, app'.form = app.form, app'.company <= companies,
         ContactsInRange', ContactEffect
  PROVE  Kept
  <1>1. RowInRange /\ Grows
    BY ContactFacts DEF CInv, Shape, Ranges, RowInRange, Grows, counts
  <1>2. Ranges'
    BY <1>1 DEF CInv, Ranges, RowInRange, counts
  <1>3. Carried'
    <2>1. CarriedBy(s)
      BY DEF CInv, Carried
    <2>2. CarriedBy(s)'
      BY <2>1 DEF CarriedBy, At
    <2> QED BY <1>1, <2>2, CarriedKept DEF CInv
  <1>4. WayEffect
    BY MirrorWay DEF counts
  <1>5. /\ LegOwers' \subseteq LegOwers /\ CompanionOwers' \subseteq CompanionOwers
        /\ CompanyOwers' \subseteq CompanyOwers
        /\ MirrorCompanyOwers' \subseteq MirrorCompanyOwers
    BY NobodyOwes DEF MirrorAt
  <1>6. LegsAlone /\ CompanionsAlone /\ CompaniesAlone
    BY <1>5 DEF LegsAlone, CompanionsAlone, CompaniesAlone, counts
  <1> QED BY <1>2, <1>3, <1>4, <1>6 DEF Kept, Effects, LegEffect, CompanionEffect, CompanyEffect

\* A mirror that goes on to its last statement, or to the insert, with the
\* company it has found.
LEMMA MirrorGoesOn ==
  ASSUME CInv, Shape', NEW s \in Handlers, h' = h, s \in UnderWay,
         UNCHANGED << app, legs, comps, companies, linked, counts >>,
         m[s].company \in Nat, m[s].company <= companies,
         NEW next, MirrorBecomes(s, next), next.pc \in {"idle", "link", "contactInsert"},
         next.pc # "idle" => next.company = m[s].company,
         ContactsInRange', ContactEffect
  PROVE  Kept
  <1>1. Aside(s) /\ m'[s] = next /\ h'[s] = h[s]
    BY MirrorMoves DEF CInv
  <1>2. app'.sent = app.sent /\ app'.form = app.form /\ app'.company <= companies
    BY DEF CInv, Ranges
  <1>3. m'[s].pc # "idle" => m'[s].company = m[s].company /\ m[s].company <= companies
    BY <1>1
  <1> QED BY <1>1, <1>2, <1>3, MirrorWrites

LEMMA MirrorFindContactStep ==
  ASSUME CInv, Shape', NEW s \in Handlers, MirrorFindContact(s)
  PROVE  Kept
  <1>1. /\ h' = h /\ s \in UnderWay
        /\ UNCHANGED << app, legs, comps, companies, blank, linked, counts >>
        /\ m[s].pc = "contact"
    BY DEF MirrorFindContact, UnderWay, MirrorAt
  <1>2. m[s].company \in Nat /\ m[s].company <= companies
    BY <1>1, Remembered DEF CInv, Carried, CarriedBy
  <1>3. ContactsInRange /\ companies \in Nat
    BY DEF CInv, Ranges, Shape
  <1>4. ToLink(m[s].company).pc \in {"idle", "link"}
        /\ (ToLink(m[s].company).pc # "idle" => ToLink(m[s].company).company = m[s].company)
    BY <1>2, ToLinkType
  <1>5. ASSUME NEW next, MirrorBecomes(s, next)
        PROVE  /\ Aside(s) /\ m'[s] = next /\ h'[s] = h[s]
               /\ ContactOwers' \subseteq ContactOwers /\ companies <= companies'
               /\ next.pc # "contactInsert" => MirrorContactOwers' \subseteq MirrorContactOwers
    <2>1. Aside(s) /\ m'[s] = next /\ h'[s] = h[s]
      BY <1>1, <1>5, MirrorMoves DEF CInv
    <2>2. companies <= companies'
      BY <1>1, <1>3
    <2> QED BY <2>1, <2>2, NobodyOwes DEF MirrorAt
  <1>6. PICK email \in BOOLEAN :
          \/ /\ email => \A k \in DOMAIN contacts : ~ contacts[k].email
             /\ MirrorBecomes(s, [pc |-> "contactInsert", company |-> m[s].company,
                                  email |-> email])
             /\ UNCHANGED contacts
          \/ \E k \in DOMAIN contacts :
               /\ contacts' = [contacts EXCEPT ![k] = FilledIn(k, m[s].company, email)]
               /\ MirrorBecomes(s, ToLink(m[s].company))
          \/ /\ ~ email
             /\ MirrorBecomes(s, ToLink(m[s].company))
             /\ UNCHANGED contacts
    BY DEF MirrorFindContact
  <1>7. CASE /\ email => \A k \in DOMAIN contacts : ~ contacts[k].email
             /\ MirrorBecomes(s, [pc |-> "contactInsert", company |-> m[s].company,
                                  email |-> email])
             /\ UNCHANGED contacts
    <2>1. PICK next : next = [pc |-> "contactInsert", company |-> m[s].company, email |-> email]
      OBVIOUS
    <2>2. MirrorBecomes(s, next) /\ next.pc = "contactInsert"
          /\ next.company = m[s].company /\ next.email = email
      BY <1>7, <2>1
    <2>3. ContactsInRange' /\ Addressed' = Addressed /\ (NoneNamed' => NoneNamed)
      BY <1>1, <1>3, <1>7, ContactsStay
    <2>4. ContactEffect
      <3>1. CASE email
        <4>1. Addressed = 0
          BY <1>3, <1>7, <3>1 DEF ContactsInRange
        <4> QED BY <1>5, <2>2, <2>3, <4>1 DEF ContactEffect
      <3>2. CASE ~ email
        <4>1. MirrorContactOwers' \subseteq MirrorContactOwers
          BY <1>5, <2>2, <3>2 DEF MirrorContactOwers, MirrorAt, Aside
        <4> QED BY <1>5, <2>2, <2>3, <4>1 DEF ContactEffect, ContactsAlone
      <3> QED BY <3>1, <3>2
    <2> QED BY <1>1, <1>2, <2>2, <2>3, <2>4, MirrorGoesOn
  <1>8. ASSUME NEW k \in DOMAIN contacts,
               contacts' = [contacts EXCEPT ![k] = FilledIn(k, m[s].company, email)],
               MirrorBecomes(s, ToLink(m[s].company))
        PROVE  Kept
    <2>1. PICK row : row = FilledIn(k, m[s].company, email)
      OBVIOUS
    <2>2. k \in 1 .. Len(contacts) /\ contacts[k] \in Contact /\ Len(contacts) \in Nat
      BY ContactFacts
    <2>3. row \in Contact /\ (contacts[k].email => row.email)
          /\ (contacts[k].company # None => row.company # None)
      BY <1>2, <2>1, <2>2 DEF FilledIn, Contact, None
    <2>4. /\ contacts' \in Seq(Contact) /\ Len(contacts') = Len(contacts)
          /\ \A j \in 1 .. Len(contacts) : contacts'[j] = IF j = k THEN row ELSE contacts[j]
      BY <1>3, <1>8, <2>1, <2>2, <2>3, ExceptSeq DEF ContactsInRange
    <2>5. DOMAIN contacts' = 1 .. Len(contacts) /\ DOMAIN contacts = 1 .. Len(contacts)
      BY <2>4, LenProperties, ContactFacts
    <2>6. Contact' = Contact
      BY <1>1 DEF Contact
    <2>7. Addressed' = Addressed
      BY <1>1, <2>4 DEF Addressed
    <2>8. ContactsInRange'
      <3>1. Addressed' # 0 => \E j \in DOMAIN contacts' : contacts'[j].email
        BY <1>3, <2>3, <2>4, <2>5, <2>7 DEF ContactsInRange
      <3>2. blank' \in 0 .. Len(contacts')
        BY <1>1, <1>3, <2>4 DEF ContactsInRange
      <3> QED BY <2>4, <2>6, <3>1, <3>2 DEF ContactsInRange
    <2>9. NoneNamed' => NoneNamed
      BY <2>2, <2>3, <2>4, <2>5 DEF NoneNamed
    <2>10. ContactEffect
      BY <1>4, <1>5, <1>8, <2>7, <2>9 DEF ContactEffect, ContactsAlone
    <2> QED BY <1>1, <1>2, <1>4, <1>8, <2>8, <2>10, MirrorGoesOn
  <1>9. CASE MirrorBecomes(s, ToLink(m[s].company)) /\ UNCHANGED contacts
    <2>1. ContactsInRange' /\ Addressed' = Addressed /\ (NoneNamed' => NoneNamed)
      BY <1>1, <1>3, <1>9, ContactsStay
    <2>2. ContactEffect
      BY <1>4, <1>5, <1>9, <2>1 DEF ContactEffect, ContactsAlone
    <2> QED BY <1>1, <1>2, <1>4, <1>9, <2>1, <2>2, MirrorGoesOn
  <1> QED BY <1>6, <1>7, <1>8, <1>9

LEMMA MirrorCreateContactStep ==
  ASSUME CInv, Shape', NEW s \in Handlers, MirrorCreateContact(s)
  PROVE  Kept
  <1>1. /\ h' = h /\ s \in UnderWay
        /\ UNCHANGED << app, legs, comps, companies, linked, counts >>
        /\ MirrorAt(s, "contactInsert")
        /\ CreateContact(m[s].company, m[s].email)
        /\ MirrorBecomes(s, ToLink(m[s].company))
    BY DEF MirrorCreateContact, UnderWay, MirrorAt
  <1>2. /\ m[s].company \in Nat /\ m[s].company <= companies
        /\ m[s].email \in BOOLEAN
    BY <1>1, Remembered DEF CInv, Carried, CarriedBy, MirrorAt
  <1>3. companies' \in Nat /\ companies <= companies' /\ m[s].company <= companies'
    BY <1>1, <1>2 DEF CInv, Shape
  <1>4. /\ ContactsInRange' /\ (NoneNamed' => NoneNamed)
        /\ Addressed' = IF m[s].email THEN Addressed + 1 ELSE Addressed
    BY <1>1, <1>2, <1>3, ContactAdded
  <1>5. ToLink(m[s].company).pc \in {"idle", "link"}
        /\ (ToLink(m[s].company).pc # "idle" => ToLink(m[s].company).company = m[s].company)
    BY <1>2, ToLinkType
  <1>6. Aside(s) /\ m'[s] = ToLink(m[s].company) /\ h'[s] = h[s]
    BY <1>1, MirrorMoves DEF CInv
  <1>7. ContactOwers' \subseteq ContactOwers /\ MirrorContactOwers' \subseteq MirrorContactOwers \ {s}
    BY <1>5, <1>6, NobodyOwes DEF MirrorAt
  <1>8. ContactEffect
    <2>1. CASE m[s].email
      <3>1. s \in MirrorContactOwers
        BY <1>1, <2>1 DEF MirrorContactOwers
      <3>2. Addressed' = Addressed + 1
        BY <1>4, <2>1
      <3> QED BY <1>3, <1>4, <1>7, <3>1, <3>2 DEF ContactEffect, Pays
    <2>2. CASE ~ m[s].email
      <3>1. Addressed' = Addressed
        BY <1>4, <2>2
      <3> QED BY <1>3, <1>4, <1>7, <3>1 DEF ContactEffect, ContactsAlone
    <2> QED BY <2>1, <2>2
  <1> QED BY <1>1, <1>2, <1>4, <1>5, <1>8, MirrorGoesOn

LEMMA MirrorEndStep ==
  ASSUME CInv, Shape', NEW s \in Handlers, MirrorLink(s) \/ MirrorFail(s) PROVE Kept
  <1>1. /\ h' = h /\ s \in UnderWay
        /\ UNCHANGED << legs, comps, companies, contacts, blank, linked, counts >>
        /\ MirrorBecomes(s, Idle)
    BY DEF MirrorLink, MirrorFail, UnderWay, MirrorAt, rows
  <1>2. Aside(s) /\ h'[s] = h[s] /\ m'[s].pc = "idle"
    BY <1>1, MirrorMoves DEF CInv, Idle
  <1>3. app'.sent = app.sent /\ app'.form = app.form /\ app'.company <= companies
    <2>1. app.company <= companies
      BY DEF CInv, Ranges
    <2>2. CASE MirrorLink(s)
      <3>1. MirrorAt(s, "link") /\ app' = [app EXCEPT !.company = Coalesced(m[s].company)]
        BY <2>2 DEF MirrorLink
      <3>2. m[s].company <= companies
        BY <3>1 DEF MirrorAt, CInv, Carried, CarriedBy
      <3>3. app'.sent = app.sent /\ app'.form = app.form /\ app'.company = Coalesced(m[s].company)
        BY <3>1 DEF CInv, Shape
      <3> QED BY <2>1, <3>2, <3>3 DEF Coalesced
    <2>3. CASE MirrorFail(s)
      BY <2>1, <2>3 DEF MirrorFail, rows
    <2> QED BY <2>2, <2>3
  <1>4. ContactEffect
    <2>1. ContactOwers' \subseteq ContactOwers /\ MirrorContactOwers' \subseteq MirrorContactOwers
      BY <1>2, NobodyOwes DEF MirrorAt
    <2>2. companies <= companies'
      BY <1>1 DEF CInv, Shape
    <2> QED BY <1>1, <2>1, <2>2 DEF ContactEffect, ContactsAlone, NoneNamed, Addressed
  <1>5. ContactsInRange'
    BY <1>1, ContactsStay DEF CInv, Ranges
  <1> QED BY <1>1, <1>2, <1>3, <1>4, <1>5, MirrorWrites

LEMMA StepKept ==
  ASSUME CInv, Shape', [Next]_vars PROVE Kept
  <1>1. ASSUME NEW s \in Handlers, Patch(s) PROVE Kept
    BY <1>1, PatchReadStep, PatchWriteStep DEF Patch
  <1>2. ASSUME NEW s \in Handlers, Submit(s) PROVE Kept
    <2>1. CASE SubmitUpdate(s) \/ SubmitNormalized(s)
      BY <2>1, SubmitStep
    <2>2. CASE LegSelect(s) \/ LegInsert(s)
      BY <2>2, LegSelectStep, LegInsertStep
    <2>3. CASE CompanionSelect(s) \/ OrphanSelect(s)
      BY <2>3, LookStep
    <2>4. CASE CompanionInsert(s) \/ OrphanArchive(s) \/ NoCompanion(s)
      BY <2>4, CompanionStep
    <2> QED BY <1>2, <2>1, <2>2, <2>3, <2>4 DEF Submit
  <1>3. ASSUME NEW s \in Handlers, Normalize(s) \/ EndEarly(s) PROVE Kept
    BY <1>3, FindCompanyStep, FindContactStep, CommitStep, LookStep DEF Normalize
  <1>4. ASSUME NEW s \in Handlers, Mirror(s) PROVE Kept
    BY <1>4, MirrorFindCompanyStep, MirrorCreateCompanyStep, MirrorFindContactStep,
       MirrorCreateContactStep, MirrorEndStep DEF Mirror
  <1>5. CASE CreateCompanion \/ StaffMove \/ UNCHANGED vars
    BY <1>5, OtherStep
  <1> QED BY <1>1, <1>2, <1>3, <1>4, <1>5 DEF Next

LEMMA FInvStarts == Init => FInv
  <1> SUFFICES ASSUME Init PROVE FInv
    OBVIOUS
  <1>1. Shape
    BY InitIInv DEF IInv
  <1>2. Ranges
    <2>1. ContactsInRange
      <3>1. contacts = << >> /\ blank = 0 /\ Len(<< >>) = 0
        BY DEF Init
      <3> QED BY <3>1, EmptySeq DEF ContactsInRange, Addressed
    <2>2. app.form = 0 /\ app.sent = 0 /\ app.company = 0
      BY DEF Init, None
    <2>3. linked \in BOOLEAN /\ lost \in BOOLEAN
      BY DEF Init
    <2>4. requests = 0 /\ step2 = 0 /\ companies = 0 /\ legs = 0
      BY DEF Init
    <2>5. requests \in 0 .. MaxRequests /\ step2 \in 0 .. requests /\ legs \in Nat
      BY <2>4, IntakeAssumption
    <2>6. app.form <= app.sent /\ app.sent <= requests /\ app.company <= companies
      BY <2>2, <2>4
    <2> QED BY <2>1, <2>3, <2>5, <2>6 DEF Ranges
  <1>3. Carried
    BY DEF Init, Carried, CarriedBy, At, Idle
  <1>4. UnderWay = {} /\ LegOwers = {} /\ CompanionOwers = {} /\ CompanyOwers = {}
        /\ MirrorCompanyOwers = {} /\ ContactOwers = {} /\ MirrorContactOwers = {}
    BY DEF Init, UnderWay, LegOwers, CompanionOwers, CompanyOwers, MirrorCompanyOwers,
           ContactOwers, MirrorContactOwers, At, MirrorAt, Idle
  <1>5. WayCounted
    BY <1>4, FS_EmptySet DEF WayCounted, Init
  <1>6. Owed
    <2>1. Cardinality({}) = 0 /\ Len(<< >>) = 0
      BY FS_EmptySet
    <2> QED BY <1>4, <2>1
            DEF Owed, LegsOwed, CompanionsOwed, CompaniesOwed, ContactsOwed, Addressed, Init
  <1> QED BY <1>1, <1>2, <1>3, <1>5, <1>6 DEF FInv

LEMMA FInvKept == FInv /\ [Next]_vars => FInv'
  <1> SUFFICES ASSUME FInv, [Next]_vars PROVE FInv'
    OBVIOUS
  <1>1. CInv /\ Shape'
    BY NextShape DEF FInv, CInv
  <1>2. Kept
    BY <1>1, StepKept
  <1>3. requests \in Nat /\ requests' \in Nat
    BY <1>1, <1>2, IntakeAssumption DEF CInv, Kept, Ranges
  <1>4. WayCounted'
    BY <1>1, <1>2, <1>3, WayKept DEF CInv, Kept, Effects
  <1>5. Owed'
    <2>1. /\ legs \in Nat /\ comps \in Seq({"live", "archived"}) /\ companies \in Nat
          /\ step2 \in Nat
      BY <1>1, IntakeAssumption DEF CInv, Shape, Ranges
    <2>2. Addressed \in Nat
      BY <1>1, ContactFacts DEF CInv, Ranges, ContactsInRange, Addressed
    <2> QED BY <1>1, <1>2, <1>3, <2>1, <2>2, OwedKept DEF FInv, CInv, Kept
  <1> QED BY <1>1, <1>2, <1>4, <1>5 DEF FInv, Kept

\* In every behaviour, for any number of requests and of slots, submitting again
\* and together makes no more legs, companions, companies and contacts than the
\* submits that were under way at once: a check that finds a row inserts none.
\* The one exception is the contact of a payload without an e-mail address, for
\* which nothing is looked up: each such payload adds one, and is counted.
THEOREM RowsAreBounded == Spec => []NothingMultiplies
  <1>1. FInv => NothingMultiplies
    <2> SUFFICES ASSUME FInv PROVE NothingMultiplies
      OBVIOUS
    <2>1. CInv /\ Owed /\ requests \in Nat
      BY IntakeAssumption DEF FInv, CInv, Ranges
    <2>2. OwersFew /\ peak \in Nat /\ Len(comps) \in Nat /\ Len(contacts) \in Nat
          /\ companies \in Nat /\ legs \in Nat /\ step2 \in Nat
      BY <2>1, OwersCounted, ContactFacts, LenProperties, IntakeAssumption
      DEF CInv, WayCounted, CountsTyped, Shape, Ranges
    <2>5. FanOutBounded /\ CompaniesBounded
      BY <2>1, <2>2 DEF Owed, LegsOwed, CompanionsOwed, CompaniesOwed, OwersFew,
         FanOutBounded, CompaniesBounded
    <2>6. ContactsBounded
      <3>1. blank \in Nat
        BY <2>1, <2>2 DEF CInv, Ranges, ContactsInRange
      <3> QED BY <2>1, <2>2, <3>1
              DEF Owed, ContactsOwed, OwersFew, ContactsBounded, Addressed
    <2>3. FanOutBounded /\ CompaniesBounded /\ ContactsBounded
      BY <2>5, <2>6
    <2>4. TypeOK
      <3>1. app \in [stage : Stages, form : 0 .. app.sent, sent : 0 .. requests,
                     staff : BOOLEAN, company : 0 .. companies]
        BY <2>1 DEF CInv, Shape, Ranges
      <3>2. \A s \in Handlers : /\ At(s, "archive") => h[s].row \in DOMAIN comps
                                /\ MirrorAt(s, "link") => m[s].company \in 0 .. companies
        BY <2>1, Remembered DEF CInv, Carried, CarriedBy, MirrorAt
      <3> QED BY <2>1, <3>1, <3>2
              DEF CInv, Shape, Ranges, ContactsInRange, WayCounted, TypeOK
    <2> QED BY <2>3, <2>4 DEF NothingMultiplies
  <1> QED BY <1>1, FInvStarts, FInvKept, PTL DEF Spec
=============================================================================
