---------------------------- MODULE ReadinessIntake ----------------------------
(* The way into an application: a readiness check on the website or in the CRM *)
(* API leaves a lead, a contact, a readiness session and perhaps a draft, and  *)
(* POST /public/application/start turns a session into an application.  Every  *)
(* statement commits by itself, so forms and starts of the same person         *)
(* interleave and a request may end between two of its statements.             *)
(* readiness_sessions has a unique index on the email, active or not           *)
(* (migrations/090b), so a person has one session row for ever.                *)
EXTENDS Naturals, FiniteSets

CONSTANTS Persons,      \* an email address and the phone number that goes with it
          IntakeHandlers,
          MaxApps       \* bound: applications created

ASSUME IntakeAssumption == MaxApps \in Nat

VARIABLES session,      \* Persons -> "none", or [active, fresh, converted]
          mapping,      \* Persons -> application of readiness_application_mappings, 0 for none
          app,          \* 1..MaxApps -> "none", "draft", "received", "session" or "blank"
          appOwner,     \* 1..MaxApps -> person, or "none" for a blank application
          leads,        \* Persons -> crm_leads rows: 0, 1 or 2 for several
          contacts,     \* Persons -> contacts rows: 0, 1 or 2 for several
          intake,       \* IntakeHandlers -> [pc, route, person, found, app]
          doubled       \* ghost: persons with overlapping or interrupted starts

intakeVars == <<session, mapping, app, appOwner, leads, contacts, intake, doubled>>

Routes == {"website", "crm", "credit", "start"}
IdleIntake == [pc |-> "idle", route |-> "none", person |-> "none", found |-> FALSE, app |-> 0]
NewSession == [active |-> TRUE, fresh |-> TRUE, converted |-> 0]

IntakeTypeOK ==
  /\ session \in [Persons -> [active : BOOLEAN, fresh : BOOLEAN, converted : 0..MaxApps] \cup {[active |-> "none"]}]
  /\ mapping \in [Persons -> 0..MaxApps]
  /\ app \in [1..MaxApps -> {"none", "draft", "received", "session", "blank"}]
  /\ appOwner \in [1..MaxApps -> Persons \cup {"none"}]
  /\ leads \in [Persons -> 0..2] /\ contacts \in [Persons -> 0..2]
  /\ intake \in [IntakeHandlers ->
       [pc : {"idle", "contact", "lead", "session", "draft", "create", "map", "close", "reuse"},
        route : Routes \cup {"none"}, person : Persons \cup {"none"}, found : BOOLEAN, app : 0..MaxApps]]
  /\ doubled \subseteq Persons

NoSession == [active |-> "none"]
HasSession(p) == session[p] # NoSession
LiveSession(p) == HasSession(p) /\ session[p].active

IntakeInit ==
  /\ session = [p \in Persons |-> NoSession]
  /\ mapping = [p \in Persons |-> 0]
  /\ app = [a \in 1..MaxApps |-> "none"]
  /\ appOwner = [a \in 1..MaxApps |-> "none"]
  /\ leads = [p \in Persons |-> 0] /\ contacts = [p \in Persons |-> 0]
  /\ intake = [h \in IntakeHandlers |-> IdleIntake]
  /\ doubled = {}

OneMore(n) == IF n = 0 THEN 1 ELSE 2
IntakeGoto(h, pc) == intake' = [intake EXCEPT ![h].pc = pc]
Finish(h) == intake' = [intake EXCEPT ![h] = IdleIntake]
FreeApp == IF \E a \in 1..MaxApps : app[a] = "none"
           THEN CHOOSE a \in 1..MaxApps : app[a] = "none" ELSE 0
Create(kind, p) ==
  /\ FreeApp # 0
  /\ app' = [app EXCEPT ![FreeApp] = kind]
  /\ appOwner' = [appOwner EXCEPT ![FreeApp] = p]

(* The website's readiness check.  createCrmLead always inserts.               *)
SubmitCreditReadiness(h, p) ==
  /\ intake[h].pc = "idle"
  /\ leads' = [leads EXCEPT ![p] = OneMore(@)]
  /\ intake' = [intake EXCEPT ![h] = [pc |-> "session", route |-> "website", person |-> p, found |-> FALSE, app |-> 0]]
  /\ UNCHANGED <<session, mapping, app, appOwner, contacts, doubled>>

(* The contact form of the website writes a lead and nothing else that lasts.  *)
SubmitContactForm(p) ==
  /\ leads' = [leads EXCEPT ![p] = OneMore(@)]
  /\ leads' # leads
  /\ UNCHANGED <<session, mapping, app, appOwner, contacts, intake, doubled>>

(* POST /crm/readiness begins with linkCrmContact: the contact is looked up... *)
CrmReadiness(h, p) ==
  /\ intake[h].pc = "idle"
  /\ intake' = [intake EXCEPT ![h] = [pc |-> "contact", route |-> "crm", person |-> p,
                                      found |-> contacts[p] > 0, app |-> 0]]
  /\ UNCHANGED <<session, mapping, app, appOwner, leads, contacts, doubled>>

(* ... and updated or inserted; upsertCrmLead then looks the lead up.          *)
LinkCrmContact(h) ==
  LET p == intake[h].person
  IN  /\ intake[h].pc = "contact"
      /\ contacts' = IF intake[h].found THEN contacts ELSE [contacts EXCEPT ![p] = OneMore(@)]
      /\ intake' = [intake EXCEPT ![h] = [@ EXCEPT !.pc = "lead", !.found = leads[p] > 0]]
      /\ UNCHANGED <<session, mapping, app, appOwner, leads, doubled>>

(* POST /credit-readiness writes an application in stage RECEIVED first.       *)
CreditReadiness(h, p) ==
  /\ intake[h].pc = "idle"
  /\ Create("received", p)
  /\ intake' = [intake EXCEPT ![h] = [pc |-> "lead", route |-> "credit", person |-> p,
                                      found |-> leads[p] > 0, app |-> FreeApp]]
  /\ UNCHANGED <<session, mapping, leads, contacts, doubled>>

(* upsertCrmLead: the lead that was found is updated, else one is inserted.    *)
UpsertCrmLead(h) ==
  LET p == intake[h].person
  IN  /\ intake[h].pc = "lead"
      /\ leads' = IF intake[h].found THEN leads ELSE [leads EXCEPT ![p] = OneMore(@)]
      /\ IntakeGoto(h, "session")
      /\ UNCHANGED <<session, mapping, app, appOwner, contacts, doubled>>

\* The insert of each route, on a person whose row exists: the website updates
\* an active session and fails on an inactive one, the credit route reuses an
\* active and fresh one, the CRM route always fails.
InsertSession(h, p) ==
  CASE ~HasSession(p) -> [session EXCEPT ![p] = NewSession]
    [] intake[h].route = "credit" /\ LiveSession(p) /\ ~session[p].fresh -> [session EXCEPT ![p].active = FALSE]
    [] OTHER -> session

SessionWritten(h, p) ==
  \/ ~HasSession(p)
  \/ intake[h].route = "website" /\ session[p].active
  \/ intake[h].route = "credit" /\ session[p].active /\ session[p].fresh

(* The session of the form: written, or the request fails on the unique email. *)
WriteSession(h) ==
  LET p == intake[h].person
  IN  /\ intake[h].pc = "session"
      /\ session' = InsertSession(h, p)
      /\ IF SessionWritten(h, p) /\ intake[h].route = "website" THEN IntakeGoto(h, "draft") ELSE Finish(h)
      /\ UNCHANGED <<mapping, app, appOwner, leads, contacts, doubled>>

(* The website's check also leaves a draft for the pipeline; an error here is  *)
(* swallowed and the form succeeds.                                            *)
InsertDraft(h) ==
  /\ intake[h].pc = "draft"
  /\ \/ Create("draft", intake[h].person)
     \/ UNCHANGED <<app, appOwner>>
  /\ Finish(h)
  /\ UNCHANGED <<session, mapping, leads, contacts, doubled>>

\* Mutant: the mapping is not looked at before an application is created.
StartUnmapped(h, p) ==
  /\ intake[h].pc = "idle" /\ HasSession(p)
  /\ \A g \in IntakeHandlers : intake[g].route # "start"
  /\ intake' = [intake EXCEPT ![h] = [pc |-> "create", route |-> "start", person |-> p, found |-> FALSE, app |-> 0]]
  /\ UNCHANGED <<session, mapping, app, appOwner, leads, contacts, doubled>>

(* POST /public/application/start with a session id: an application that was   *)
(* mapped before is answered again.                                            *)
StartFromSession(h, p) ==
  /\ intake[h].pc = "idle" /\ HasSession(p) /\ mapping[p] = 0
  /\ intake' = [intake EXCEPT ![h] = [pc |-> "create", route |-> "start", person |-> p, found |-> FALSE, app |-> 0]]
  /\ doubled' = IF \E g \in IntakeHandlers : intake[g].route = "start" /\ intake[g].person = p
                THEN doubled \cup {p} ELSE doubled
  /\ UNCHANGED <<session, mapping, app, appOwner, leads, contacts>>

CreateFromSession(h) ==
  /\ intake[h].pc = "create"
  /\ Create("session", intake[h].person)
  /\ intake' = [intake EXCEPT ![h] = [@ EXCEPT !.pc = "map", !.app = FreeApp]]
  /\ UNCHANGED <<session, mapping, leads, contacts, doubled>>

(* ON CONFLICT DO NOTHING: the first mapping of a session stays.               *)
InsertMapping(h) ==
  LET p == intake[h].person
  IN  /\ intake[h].pc = "map"
      /\ mapping' = IF mapping[p] = 0 THEN [mapping EXCEPT ![p] = intake[h].app] ELSE mapping
      /\ IntakeGoto(h, "close")
      /\ UNCHANGED <<session, app, appOwner, leads, contacts, doubled>>

(* The session is closed with the application this request created, and that   *)
(* is the one the client is told about.                                        *)
CloseSession(h) ==
  LET p == intake[h].person
  IN  /\ intake[h].pc = "close"
      /\ session' = [session EXCEPT ![p] = [@ EXCEPT !.active = FALSE, !.converted = intake[h].app]]
      /\ Finish(h)
      /\ UNCHANGED <<mapping, app, appOwner, leads, contacts, doubled>>

(* The start by phone number.  With an active session and a website draft the  *)
(* update that would claim the draft is no valid SQL (a comment in the style   *)
(* of TypeScript inside the statement), so the request fails and nothing       *)
(* changes; without either a blank application is created, as it is when the   *)
(* request names nobody.                                                       *)
HasDraft(p) == \E a \in 1..MaxApps : app[a] = "draft" /\ appOwner[a] = p

StartByPhone(p) ==
  /\ ~(LiveSession(p) /\ HasDraft(p))
  /\ Create("blank", "none")
  /\ UNCHANGED <<session, mapping, leads, contacts, intake, doubled>>

(* A session passes its expiry; only the credit route looks at that.           *)
SessionExpires(p) ==
  /\ HasSession(p) /\ session[p].fresh
  /\ session' = [session EXCEPT ![p].fresh = FALSE]
  /\ UNCHANGED <<mapping, app, appOwner, leads, contacts, intake, doubled>>

(* A request fails at a statement, or the process dies.                        *)
IntakeFails(h) ==
  /\ intake[h].pc # "idle"
  /\ Finish(h)
  /\ doubled' = IF intake[h].pc = "map" THEN doubled \cup {intake[h].person} ELSE doubled
  /\ UNCHANGED <<session, mapping, app, appOwner, leads, contacts>>

IntakeNext ==
  \/ \E h \in IntakeHandlers :
       \/ \E p \in Persons : \/ SubmitCreditReadiness(h, p) \/ CrmReadiness(h, p)
                             \/ CreditReadiness(h, p) \/ StartFromSession(h, p)
       \/ LinkCrmContact(h) \/ UpsertCrmLead(h) \/ WriteSession(h) \/ InsertDraft(h)
       \/ CreateFromSession(h) \/ InsertMapping(h) \/ CloseSession(h) \/ IntakeFails(h)
  \/ \E p \in Persons : SubmitContactForm(p) \/ StartByPhone(p) \/ SessionExpires(p)

IntakeSpec == IntakeInit /\ [][IntakeNext]_intakeVars

(* A readiness session becomes one application: starting it again answers with *)
(* the same one, and the session, once closed, names the application of the    *)
(* mapping.  It takes two overlapping starts, or one that dies before the      *)
(* mapping is written, to leave a second application behind                    *)
(* (publicApplication.ts, application/start).                                  *)
SessionBecomesOne ==
  \A p \in Persons \ doubled :
    /\ Cardinality({a \in 1..MaxApps : app[a] = "session" /\ appOwner[a] = p}) <= 1
    /\ HasSession(p) => session[p].converted \in {0, mapping[p]}

================================================================================
