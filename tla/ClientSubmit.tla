---------------------------- MODULE ClientSubmit ----------------------------
(***************************************************************************)
(* One client application while the wizard saves and submits it            *)
(* (src/routes/client/v1Applications.ts), perhaps several times and from    *)
(* several tabs: PATCH reads the row and writes it back; submit updates it, *)
(* fans out into an equipment leg and a closing-costs companion, starts the *)
(* CRM mirror in the background (services/applicationCrmMirror.ts) and      *)
(* normalises company and contact in a transaction (services/companies.ts,  *)
(* services/contacts.ts).                                                   *)
(*                                                                          *)
(* Each statement that another handler could come between is an action.     *)
(* What a payload asks for is chosen where it is first looked at.  Companies *)
(* and contacts are the rows that match this applicant: one business name   *)
(* and one e-mail address, which a payload may leave out (the partner is    *)
(* looked up in the same way); telephone numbers are not told apart.  The   *)
(* hand-off to the insurance server and product_category are written here   *)
(* and read by no handler of this module, and are left out.                 *)
(***************************************************************************)
EXTENDS Integers, FiniteSets, Sequences

CONSTANTS Handlers,      \* requests in flight at once
          MaxRequests    \* bound on the requests made

ASSUME IntakeAssumption == MaxRequests \in Nat

VARIABLES app,        \* the applications row of the client
          legs,       \* number of its equipment legs
          comps,      \* its closing-costs companions, in order of insertion
          companies,  \* number of companies rows with the applicant's name
          contacts,   \* the contacts rows of the applicant, in order of insertion
          blank,      \* history: contacts inserted without an e-mail address
          linked,     \* application_contacts has a row for the application
          h,          \* the request in each slot
          m,          \* the CRM mirror each slot has started
          requests,   \* requests made so far
          step2,      \* companions created at step 2 so far
          lost,       \* history: a PATCH wrote back a row it read before a submit
          peak        \* history: the most submits under way at once

rows == << app, legs, comps, companies, contacts, blank, linked >>
counts == << requests, step2, lost, peak >>
vars == << rows, h, m, counts >>

\* pipeline_state as far as submit tells stages apart: null or empty, the
\* website's draft, the two it sets, and one only staff set.
Unset == {"null", "draft"}
Stages == Unset \cup {"Received", "Documents Required", "In Review"}
None == 0

\* A contacts row: its company_id, and whether it has the applicant's e-mail.
Contact == [company : 0 .. companies, email : BOOLEAN]

Idle == [pc |-> "idle"]

\* A row of the website's readiness form, or one that start created.  The
\* form is named by the submit it came with, 0 when there was none; sent and
\* staff are history: the last submit, and whether staff have moved it.
Init ==
  /\ app \in [stage : {"draft", "Received"}, form : {0}, sent : {0}, staff : {FALSE},
              company : {None}]
  /\ legs = 0
  /\ comps = << >>
  /\ companies = 0
  /\ contacts = << >>
  /\ blank = 0
  /\ linked = FALSE
  /\ h = [s \in Handlers |-> Idle]
  /\ m = [s \in Handlers |-> Idle]
  /\ requests = 0
  /\ step2 = 0
  /\ lost = FALSE
  /\ peak = 0

At(s, pc) == h[s].pc = pc
Become(s, next) == h' = [h EXCEPT ![s] = next]
MirrorAt(s, pc) == m[s].pc = pc
MirrorBecomes(s, next) == m' = [m EXCEPT ![s] = next]

\* A new request is taken.
Arrive == requests < MaxRequests /\ requests' = requests + 1
-----------------------------------------------------------------------------
(* Saving.  PATCH /applications/:id builds name and metadata from the row   *)
(* it read and writes both whole.                                           *)

PatchRead(s) ==
  /\ At(s, "idle")
  /\ Arrive
  /\ Become(s, [pc |-> "patch", form |-> app.form])
  /\ UNCHANGED << rows, m, step2, lost, peak >>

\* Mutant: the metadata that was read is not merged.
PatchedOnlyInput(read) == [app EXCEPT !.form = 0]

Patched(read) == [app EXCEPT !.form = read]

PatchWrite(s) ==
  /\ At(s, "patch")
  /\ app' = Patched(h[s].form)
  /\ lost' = (lost \/ h[s].form # app.form)
  /\ Become(s, Idle)
  /\ UNCHANGED << legs, comps, companies, contacts, blank, linked, m, requests, step2, peak >>

\* POST /applications from step 2 inserts a closing-costs companion without
\* looking for one.
CreateCompanion ==
  /\ Arrive
  /\ step2' = step2 + 1
  /\ comps' = Append(comps, "live")
  /\ UNCHANGED << app, legs, companies, contacts, blank, linked, h, m, lost, peak >>
-----------------------------------------------------------------------------
(* Submitting: the row itself, in one UPDATE that sees the current stage.   *)

StageOnSubmit(uploaded) ==
  CASE app.stage \notin Unset -> app.stage
    [] app.stage \in Unset /\ uploaded -> "Received"
    [] app.stage \in Unset /\ ~ uploaded -> "Documents Required"

\* Slots whose submit, or the mirror it started, has not ended.
UnderWay == {s \in Handlers : ~ MirrorAt(s, "idle") \/ h[s].pc \notin {"idle", "patch"}}
Larger(a, b) == IF a < b THEN b ELSE a

\* The next submit of a slot waits for its mirror (a bound on the mirrors).
SubmitUpdate(s) ==
  /\ At(s, "idle") /\ MirrorAt(s, "idle")
  /\ Arrive
  /\ \E uploaded \in BOOLEAN :
       app' = [app EXCEPT !.form = app.sent + 1, !.sent = app.sent + 1,
                          !.stage = StageOnSubmit(uploaded)]
  /\ Become(s, [pc |-> "leg"])
  /\ peak' = Larger(peak, Cardinality(UnderWay \cup {s}))
  /\ UNCHANGED << legs, comps, companies, contacts, blank, linked, m, step2, lost >>

\* A payload with only a normalized part leaves the row alone.
SubmitNormalized(s) ==
  /\ At(s, "idle") /\ MirrorAt(s, "idle")
  /\ Arrive
  /\ Become(s, [pc |-> "normalize"])
  /\ peak' = Larger(peak, Cardinality(UnderWay \cup {s}))
  /\ UNCHANGED << rows, m, step2, lost >>

\* The equipment leg: looked for, and inserted in a second statement if there
\* is none.  The back-fill of one that exists only touches its metadata, and
\* a failure of any of these statements is logged and swallowed.
LegSelect(s) ==
  /\ At(s, "leg")
  /\ \/ legs = 0 /\ Become(s, [pc |-> "legInsert"])
     \/ Become(s, [pc |-> "companion"])
  /\ UNCHANGED << rows, m, counts >>

LegInsert(s) ==
  /\ At(s, "legInsert")
  /\ legs' \in {legs, legs + 1}
  /\ Become(s, [pc |-> "companion"])
  /\ UNCHANGED << app, comps, companies, contacts, blank, linked, m, counts >>

\* After the companion the mirror is started and not waited for.
GoOn(s) ==
  /\ MirrorBecomes(s, [pc |-> "company"])
  /\ Become(s, [pc |-> "normalize"])

\* Mutant: no look for an existing companion.
CompanionSelectUnchecked(s) ==
  /\ At(s, "companion")
  /\ Become(s, [pc |-> "companionInsert"])
  /\ UNCHANGED << rows, m, counts >>

\* The companion: looked for and inserted in the same way when closing costs
\* are wanted (one that was archived counts).
CompanionSelect(s) ==
  /\ At(s, "companion")
  /\ comps = << >>
  /\ Become(s, [pc |-> "companionInsert"])
  /\ UNCHANGED << rows, m, counts >>

CompanionInsert(s) ==
  /\ At(s, "companionInsert")
  /\ comps' \in {comps, Append(comps, "live")}
  /\ GoOn(s)
  /\ UNCHANGED << app, legs, companies, contacts, blank, linked, counts >>

\* When closing costs were dropped one live companion, found in an earlier
\* statement, is archived.
OrphanSelect(s) ==
  /\ At(s, "companion")
  /\ \E i \in DOMAIN comps :
       comps[i] = "live" /\ Become(s, [pc |-> "archive", row |-> i])
  /\ UNCHANGED << rows, m, counts >>

OrphanArchive(s) ==
  /\ At(s, "archive")
  /\ comps' \in {comps, [comps EXCEPT ![h[s].row] = "archived"]}
  /\ GoOn(s)
  /\ UNCHANGED << app, legs, companies, contacts, blank, linked, counts >>

\* No question of closing costs, a companion that exists and is back-filled,
\* none to archive, or a statement that failed.
NoCompanion(s) ==
  /\ At(s, "companion")
  /\ GoOn(s)
  /\ UNCHANGED << rows, counts >>
-----------------------------------------------------------------------------
(* The normalized part: a transaction that finds or creates the company and *)
(* the contact, links the contact and names the company on the application. *)
(* What it inserts is seen by others when it commits.                       *)

\* The company a lookup returns: any that is committed, or None.
CompanyMatches == IF companies = 0 THEN {None} ELSE 1 .. companies

FindCompany(s) ==
  /\ At(s, "normalize")
  /\ \E c \in CompanyMatches : Become(s, [pc |-> "contact", company |-> c])
  /\ UNCHANGED << rows, m, counts >>

\* Whether the lookup by e-mail and company finds a contact; a company that
\* this transaction has just inserted has none.
ContactIn(c) ==
  c # None /\ \E k \in DOMAIN contacts : contacts[k].email /\ contacts[k].company = c

\* A payload without an e-mail address looks for no contact.
FindContact(s) ==
  /\ At(s, "contact")
  /\ \E email \in BOOLEAN :
       Become(s, [pc |-> "commit", company |-> h[s].company, email |-> email,
                  found |-> email /\ ContactIn(h[s].company)])
  /\ UNCHANGED << rows, m, counts >>

\* applications.company_id is set where it is null or already this company.
NamedCompany(c) == IF app.company \in {None, c} THEN c ELSE app.company

\* createCompany and createContact, as the transaction calls them.
CreateCompany == companies' = companies + 1
CreateContact(c, email) ==
  /\ contacts' = Append(contacts, [company |-> c, email |-> email])
  /\ blank' = IF email THEN blank ELSE blank + 1

Commit(s) ==
  /\ At(s, "commit")
  /\ LET new == h[s].company = None
         c == IF new THEN companies + 1 ELSE h[s].company
     IN /\ IF new THEN CreateCompany ELSE UNCHANGED companies
        /\ IF h[s].found THEN UNCHANGED << contacts, blank >>
           ELSE CreateContact(c, h[s].email)
        /\ app' = [app EXCEPT !.company = NamedCompany(c)]
  /\ linked' = TRUE
  /\ Become(s, Idle)
  /\ UNCHANGED << legs, comps, m, counts >>

\* The request ends without a commit: a payload with no normalized part, a
\* statement of the transaction that failed, or a lost process.
EndEarly(s) ==
  /\ ~ At(s, "idle")
  /\ Become(s, Idle)
  /\ UNCHANGED << rows, m, counts >>
-----------------------------------------------------------------------------
(* The CRM mirror: find or create the company, then the contact, then fill  *)
(* the empty company_id of the application, each in a statement of its own. *)

\* A payload without a business name, e-mail or phone has no company to find.
MirrorFindCompany(s) ==
  /\ MirrorAt(s, "company")
  /\ \/ \E c \in CompanyMatches :
          MirrorBecomes(s, [pc |-> IF c = None THEN "companyInsert" ELSE "contact",
                            company |-> c])
     \/ MirrorBecomes(s, [pc |-> "contact", company |-> None])
  /\ UNCHANGED << rows, h, counts >>

MirrorCreateCompany(s) ==
  /\ MirrorAt(s, "companyInsert")
  /\ companies' = companies + 1
  /\ MirrorBecomes(s, [pc |-> "contact", company |-> companies + 1])
  /\ UNCHANGED << app, legs, comps, contacts, blank, linked, h, counts >>

\* The contact k as the mirror fills it in: the company found above, if any,
\* and the e-mail address the payload has, if any.
FilledIn(k, c, email) ==
  [company |-> IF c = None THEN contacts[k].company ELSE c,
   email |-> contacts[k].email \/ email]

\* The last statement fills the company in; with none found it writes nothing.
ToLink(c) == IF c = None THEN Idle ELSE [pc |-> "link", company |-> c]

\* A contact is looked for by phone and then by e-mail, whatever its company;
\* the one found is filled in, and if there is none one is inserted later.
\* An applicant with neither phone nor e-mail has no contact.
MirrorFindContact(s) ==
  /\ MirrorAt(s, "contact")
  /\ \E email \in BOOLEAN :
       \/ /\ email => \A k \in DOMAIN contacts : ~ contacts[k].email
          /\ MirrorBecomes(s, [pc |-> "contactInsert", company |-> m[s].company,
                               email |-> email])
          /\ UNCHANGED contacts
       \/ \E k \in DOMAIN contacts :
            /\ contacts' = [contacts EXCEPT ![k] = FilledIn(k, m[s].company, email)]
            /\ MirrorBecomes(s, ToLink(m[s].company))
       \/ /\ ~ email
          /\ MirrorBecomes(s, ToLink(m[s].company))
          /\ UNCHANGED contacts
  /\ UNCHANGED << app, legs, comps, companies, blank, linked, h, counts >>

MirrorCreateContact(s) ==
  /\ MirrorAt(s, "contactInsert")
  /\ CreateContact(m[s].company, m[s].email)
  /\ MirrorBecomes(s, ToLink(m[s].company))
  /\ UNCHANGED << app, legs, comps, companies, linked, h, counts >>

\* Mutant: a manual or earlier link is overwritten.
Overwritten(c) == IF c = None THEN app.company ELSE c

Coalesced(c) == IF app.company = None THEN c ELSE app.company

MirrorLink(s) ==
  /\ MirrorAt(s, "link")
  /\ app' = [app EXCEPT !.company = Coalesced(m[s].company)]
  /\ MirrorBecomes(s, Idle)
  /\ UNCHANGED << legs, comps, companies, contacts, blank, linked, h, counts >>

\* A statement of the mirror fails, or its process dies: nothing else is done.
MirrorFail(s) ==
  /\ ~ MirrorAt(s, "idle")
  /\ MirrorBecomes(s, Idle)
  /\ UNCHANGED << rows, h, counts >>
-----------------------------------------------------------------------------
\* Staff move the application on the board.
StaffMove ==
  /\ ~ app.staff
  /\ app' = [app EXCEPT !.stage = "In Review", !.staff = TRUE]
  /\ UNCHANGED << legs, comps, companies, contacts, blank, linked, h, m, counts >>

Patch(s) == PatchRead(s) \/ PatchWrite(s)
Submit(s) == \/ SubmitUpdate(s) \/ SubmitNormalized(s) \/ LegSelect(s) \/ LegInsert(s)
             \/ CompanionSelect(s) \/ CompanionInsert(s)
             \/ OrphanSelect(s) \/ OrphanArchive(s) \/ NoCompanion(s)
Normalize(s) == FindCompany(s) \/ FindContact(s) \/ Commit(s)
Mirror(s) == \/ MirrorFindCompany(s) \/ MirrorCreateCompany(s)
             \/ MirrorFindContact(s) \/ MirrorCreateContact(s)
             \/ MirrorLink(s) \/ MirrorFail(s)

Next == \/ \E s \in Handlers : Patch(s) \/ Submit(s) \/ Normalize(s) \/ EndEarly(s) \/ Mirror(s)
        \/ CreateCompanion \/ StaffMove

Spec == Init /\ [][Next]_vars
-----------------------------------------------------------------------------
(* Properties.                                                              *)

\* Rows and counters are in range, and what a request or mirror remembers is
\* a row that exists.
TypeOK ==
  /\ app \in [stage : Stages, form : 0 .. app.sent, sent : 0 .. requests,
              staff : BOOLEAN, company : 0 .. companies]
  /\ legs \in Nat /\ companies \in Nat
  /\ comps \in Seq({"live", "archived"})
  /\ contacts \in Seq(Contact) /\ blank \in 0 .. Len(contacts)
  /\ linked \in BOOLEAN /\ lost \in BOOLEAN
  /\ requests \in 0 .. MaxRequests /\ peak \in 0 .. requests /\ step2 \in 0 .. requests
  /\ \A s \in Handlers : /\ At(s, "archive") => h[s].row \in DOMAIN comps
                         /\ MirrorAt(s, "link") => m[s].company \in 0 .. companies

\* Submitting again multiplies neither the equipment leg nor the companion: each
\* check and its insert are two statements, so there may be as many as submits
\* that were under way together (and the companions of step 2), and no more
\* however often the submit is repeated; archiving one makes no room for
\* another (submit, v1Applications.ts).
FanOutBounded == legs <= peak /\ Len(comps) <= step2 + peak

\* A submit and its mirror look for the company side by side, so each submit
\* under way when the first company is committed may bring two, and a later
\* one brings none (findOrCreateCompanyByNameAndSilo, mirrorApplicationToCrm).
CompaniesBounded == companies <= 2 * peak

\* While the applicant has one company, the same bound holds of the contacts
\* inserted with an e-mail address (findOrCreateContactByEmailAndCompany,
\* mirrorApplicationToCrm), however often one is submitted.  Only a payload
\* without an e-mail adds a contact each time: the transaction then looks for
\* none (v1Applications.ts, applicantInput.email ? ... : createContact).  Once
\* companies are duplicated the bound ends: the mirror moves contacts from one
\* company to another.
ContactsBounded == companies <= 1 => Len(contacts) <= 2 * peak + blank

\* The application shows the form of the last submit, unless a PATCH wrote
\* back metadata it had read before that submit (PATCH /applications/:id).
FormIsLatest == app.form = app.sent \/ lost

\* A repeated submit does not pull back an application that staff moved on
\* (the CASE of submit's UPDATE).
StaffStageStands == app.staff => app.stage = "In Review"

\* Contacts are linked to an application only together with a company: both
\* are committed at once and neither is taken back (submit's transaction).
NormalizedIsWhole == linked => app.company # None

\* Repeated and overlapping submits create no more rows than the submits that
\* overlapped the first can explain.
NothingMultiplies == TypeOK /\ FanOutBounded /\ CompaniesBounded /\ ContactsBounded

\* Repeated and overlapping submits take nothing back: neither the last form,
\* nor the stage staff gave the application, nor half of what they committed.
NothingIsUndone == FormIsLatest /\ StaffStageStands /\ NormalizedIsWhole

\* The company an application names never changes once it is set, whichever
\* of the transactions and mirrors of all its submits come later.
CompanyStands == [][app.company # None => app'.company = app.company]_vars
=============================================================================
