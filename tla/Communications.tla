--------------------------- MODULE Communications ---------------------------
(***************************************************************************)
(* The table communications_messages: texts carried by Twilio, messages of  *)
(* the client's mini-portal and of the staff, Maya's hand-offs.  Handlers   *)
(* of several processes write rows while contacts come and go; the tabs of  *)
(* the portal read them back by contact, by number or by application.       *)
(*                                                                          *)
(* A client is identified by the phone number: it has at most one contact   *)
(* and at most one application.  Bodies are left out.                       *)
(***************************************************************************)
EXTENDS Integers, FiniteSets, Sequences, SequencesExt

CONSTANTS Phones,       \* numbers of clients
          Ours,         \* the number texts are sent from
          Nil,          \* SQL null
          CommStaff,    \* signed-in staff: [role, silo, silos]
          CommHandlers, \* requests and webhooks in progress
          ThreadLimit,  \* texts or messages a thread opens (500 in the code)
          ClientLimit,  \* messages the client's thread opens (200)
          TimelineLimit,\* texts a timeline holds at most (500)
          MaxCommRows,  \* bound: rows written
          MaxTexts,     \* bound: texts Twilio carries
          MaxDeliveries \* bound: how often Twilio delivers one webhook

Silos == {"BF", "BI"}

ASSUME CommAssumption ==
    /\ Nil \notin Phones /\ Ours \notin Phones
    /\ \A u \in CommStaff : u.silo \in Silos
    /\ {ThreadLimit, ClientLimit, TimelineLimit} \subseteq Nat \ {0}
    /\ MaxCommRows \in Nat /\ MaxTexts \in Nat /\ MaxDeliveries \in Nat

VARIABLES contactSilo, \* silo of the contact with a number, or Nil
          appSilo,     \* silo of the client's application, or Nil
          linked,      \* clients whose application has a contact_id
          rows,        \* communications_messages by created_at
          texts,       \* texts Twilio carried: [dir, phone, seen, times]
          comm,        \* what a handler has read and will do next
          escalated    \* sessions (clients) with a row in maya_escalations

commVars == <<contactSilo, appSilo, linked, rows, texts, comm, escalated>>

CommIdle == [at |-> "idle"]

CommRow == [type : {"sms", "message", "maya_handoff"},
            from : Phones \cup {Ours, Nil}, to : Phones \cup {Ours, Nil},
            contact : Phones \cup {Nil}, app : Phones \cup {Nil},
            silo : Silos, sid : Nat]

CommTypeOK ==
    /\ contactSilo \in [Phones -> Silos \cup {Nil}]
    /\ appSilo \in [Phones -> Silos \cup {Nil}]
    /\ linked \subseteq Phones
    /\ rows \in Seq(CommRow) /\ Len(rows) <= MaxCommRows
    /\ Len(texts) <= MaxTexts
    /\ escalated \subseteq Phones

CommInit ==
    /\ contactSilo = [p \in Phones |-> Nil]
    /\ appSilo = [p \in Phones |-> Nil]
    /\ linked = {}
    /\ rows = <<>> /\ texts = <<>> /\ escalated = {}
    /\ comm = [h \in CommHandlers |-> CommIdle]

-----------------------------------------------------------------------------
(* The silo of a request: requireAuth resolves it for the readers, POST /sms   *)
(* resolves it again for the row it writes.                                   *)

\* An allowlist of one silo gives no choice: the primary silo is used.
ResolveSilo(u, requested) ==
    IF u.role = "admin" \/ (requested \in u.silos /\ \E other \in u.silos : other # requested)
    THEN requested ELSE u.silo

\* Mutant: the silo of the user's token, whatever silo the user works in.
TokenSilo(u, requested) == u.silo

SmsSilo(u, requested) == ResolveSilo(u, requested)

-----------------------------------------------------------------------------
(* Rows.                                                                     *)

Insert(row) == /\ Len(rows) < MaxCommRows
               /\ rows' = Append(rows, row)

SmsRow(dir, p, contact, app, silo, sid) ==
    [type |-> "sms", contact |-> contact, app |-> app, silo |-> silo, sid |-> sid,
     from |-> IF dir = "inbound" THEN p ELSE Ours, to |-> IF dir = "inbound" THEN Ours ELSE p]

AppRow(type, contact, app, silo) ==
    [type |-> type, contact |-> contact, app |-> app, silo |-> silo, sid |-> 0,
     from |-> Nil, to |-> Nil]

\* (SELECT contact_id FROM applications WHERE id = ...)
AppContact(p) == IF p \in linked THEN p ELSE Nil

\* COALESCE((SELECT silo FROM applications ...), 'BF')
AppSiloOrBF(p) == IF appSilo[p] = Nil THEN "BF" ELSE appSilo[p]

-----------------------------------------------------------------------------
(* Texts of the staff: the contact's application is looked up, Twilio sends,  *)
(* the row is written; a failed INSERT is only logged.                        *)

Sending(p, contact, app, silo, seen) ==
    [at |-> "send", phone |-> p, contact |-> contact, app |-> app, silo |-> silo, seen |-> seen]

PostSms(h) ==
    \E p \in Phones, u \in CommStaff, requested \in Silos, named \in BOOLEAN :
        /\ comm[h] = CommIdle
        /\ named => contactSilo[p] # Nil
        /\ comm' = [comm EXCEPT ![h] =
                      Sending(p, IF named THEN p ELSE Nil, IF named THEN AppContact(p) ELSE Nil,
                              SmsSilo(u, requested), ResolveSilo(u, requested))]
        /\ UNCHANGED <<contactSilo, appSilo, linked, rows, texts, escalated>>

\* sendDocumentRejectionSms names no contact and no silo: the column's
\* default is 'BF'.
SendDocumentRejectionSms(h) ==
    \E p \in Phones :
        /\ comm[h] = CommIdle
        /\ appSilo[p] # Nil
        /\ comm' = [comm EXCEPT ![h] = Sending(p, Nil, p, "BF", "BF")]
        /\ UNCHANGED <<contactSilo, appSilo, linked, rows, texts, escalated>>

Text(dir, p, seen) == [dir |-> dir, phone |-> p, seen |-> seen, times |-> 0]

\* client.messages.create: an error ends the request.
TwilioSends(h) ==
    /\ comm[h].at = "send"
    /\ \/ comm' = [comm EXCEPT ![h] = CommIdle] /\ UNCHANGED texts
       \/ /\ Len(texts) < MaxTexts
          /\ texts' = Append(texts, Text("outbound", comm[h].phone, comm[h].seen))
          /\ comm' = [comm EXCEPT ![h] = [at |-> "store", row |->
                        SmsRow("outbound", comm[h].phone, comm[h].contact, comm[h].app,
                               comm[h].silo, Len(texts) + 1)]]
    /\ UNCHANGED <<contactSilo, appSilo, linked, rows, escalated>>

-----------------------------------------------------------------------------
(* Texts of clients: Twilio delivers the webhook once or more often, to either *)
(* of its two routes; the row's sid is unique.                                 *)

ClientTexts(p) ==
    /\ Len(texts) < MaxTexts
    /\ texts' = Append(texts, Text("inbound", p, Nil))
    /\ UNCHANGED <<contactSilo, appSilo, linked, rows, comm, escalated>>

DeliverInbound(h) ==
    \E i \in DOMAIN texts :
        /\ comm[h] = CommIdle
        /\ texts[i].dir = "inbound" /\ texts[i].times < MaxDeliveries
        /\ texts' = [texts EXCEPT ![i].times = @ + 1]
        /\ LET p == texts[i].phone IN
           comm' = [comm EXCEPT ![h] = [at |-> "store", row |->
               SmsRow("inbound", p, IF contactSilo[p] = Nil THEN Nil ELSE p, Nil,
                      IF contactSilo[p] = Nil THEN "BF" ELSE contactSilo[p], i)]]
        /\ UNCHANGED <<contactSilo, appSilo, linked, rows, escalated>>

\* ON CONFLICT (twilio_sid) DO NOTHING
Stored(sid) == \E i \in DOMAIN rows : rows[i].sid = sid

\* A contact deleted since it was read violates the foreign key; an INSERT
\* that fails, for this or another reason, is only logged.
StoreText(h) ==
    /\ comm[h].at = "store"
    /\ LET row == comm[h].row IN
       \/ /\ ~Stored(row.sid)
          /\ row.contact # Nil => contactSilo[row.contact] # Nil
          /\ Insert(row)
       \/ UNCHANGED rows
    /\ comm' = [comm EXCEPT ![h] = CommIdle]
    /\ UNCHANGED <<contactSilo, appSilo, linked, texts, escalated>>

-----------------------------------------------------------------------------
(* In-app messages, each one INSERT.                                          *)

AppMessage(row) ==
    /\ Insert(row)
    /\ UNCHANGED <<contactSilo, appSilo, linked, texts, comm, escalated>>

ClientMessage(p) ==
    appSilo[p] # Nil /\ AppMessage(AppRow("message", AppContact(p), p, AppSiloOrBF(p)))

StaffMessage(p) ==
    \E u \in CommStaff, requested \in Silos :
        AppMessage(AppRow("message", AppContact(p), p, ResolveSilo(u, requested)))

\* The message with the button to upload a rejected document again.
RejectionMessage(p) ==
    appSilo[p] # Nil /\ AppMessage(AppRow("message", AppContact(p), p, AppSiloOrBF(p)))

\* The message with the link to the insurance application.
HandoffMessage(p) ==
    appSilo[p] # Nil /\ AppMessage(AppRow("message", AppContact(p), p, AppSiloOrBF(p)))

\* POST /api/messages names no silo.
PostMessage(p) ==
    \E contact \in {Nil, p} :
        /\ contact # Nil => contactSilo[p] # Nil
        /\ AppMessage(AppRow("message", contact, p, "BF"))

-----------------------------------------------------------------------------
(* Maya asks for a human: a hand-off is stored without client or application;  *)
(* an escalation is stored unless one of the last minute has its session.      *)

MayaHandoff(silo) ==
    /\ Insert(AppRow("maya_handoff", Nil, Nil, silo))
    /\ UNCHANGED <<contactSilo, appSilo, linked, texts, comm, escalated>>

Escalate(h, p) ==
    /\ comm[h] = CommIdle
    /\ \/ p \in escalated /\ UNCHANGED comm   \* stored within the last minute
       \/ comm' = [comm EXCEPT ![h] = [at |-> "escalate", phone |-> p]]
    /\ UNCHANGED <<contactSilo, appSilo, linked, rows, texts, escalated>>

StoreEscalation(h) ==
    /\ comm[h].at = "escalate"
    /\ escalated' = escalated \cup {comm[h].phone}
    /\ comm' = [comm EXCEPT ![h] = IF appSilo[comm[h].phone] = Nil THEN CommIdle
                                     ELSE [comm[h] EXCEPT !.at = "tell"]]
    /\ UNCHANGED <<contactSilo, appSilo, linked, rows, texts>>

\* The message about it may fail to be stored; the silo is Maya's or the
\* application's.
TellStaff(h) ==
    /\ comm[h].at = "tell"
    /\ LET p == comm[h].phone IN
       \/ \E silo \in Silos : Insert(AppRow("message", AppContact(p), p, silo))
       \/ UNCHANGED rows
    /\ comm' = [comm EXCEPT ![h] = CommIdle]
    /\ UNCHANGED <<contactSilo, appSilo, linked, texts, escalated>>

-----------------------------------------------------------------------------
(* Contacts and applications change beside the handlers.                      *)

ContactAppears(p) ==
    /\ contactSilo[p] = Nil
    /\ \E s \in Silos : contactSilo' = [contactSilo EXCEPT ![p] = s]
    /\ UNCHANGED <<appSilo, linked, rows, texts, comm, escalated>>

\* ON DELETE SET NULL
ContactDeleted(p) ==
    /\ contactSilo[p] # Nil
    /\ contactSilo' = [contactSilo EXCEPT ![p] = Nil]
    /\ linked' = linked \ {p}
    /\ rows' = [i \in DOMAIN rows |->
                  IF rows[i].contact = p THEN [rows[i] EXCEPT !.contact = Nil] ELSE rows[i]]
    /\ UNCHANGED <<appSilo, texts, comm, escalated>>

ApplicationAppears(p) ==
    /\ appSilo[p] = Nil
    /\ \E s \in Silos : appSilo' = [appSilo EXCEPT ![p] = s]
    /\ linked' = IF contactSilo[p] = Nil THEN linked ELSE linked \cup {p}
    /\ UNCHANGED <<contactSilo, rows, texts, comm, escalated>>

CommNext ==
    \/ \E h \in CommHandlers :
          \/ PostSms(h) \/ SendDocumentRejectionSms(h) \/ TwilioSends(h)
          \/ DeliverInbound(h) \/ StoreText(h)
          \/ StoreEscalation(h) \/ TellStaff(h)
          \/ \E p \in Phones : Escalate(h, p)
    \/ \E p \in Phones :
          \/ ClientTexts(p) \/ ClientMessage(p) \/ StaffMessage(p) \/ RejectionMessage(p)
          \/ HandoffMessage(p) \/ PostMessage(p)
          \/ ContactAppears(p) \/ ContactDeleted(p) \/ ApplicationAppears(p)
    \/ \E silo \in Silos : MayaHandoff(silo)

CommSpec == CommInit /\ [][CommNext]_commVars

-----------------------------------------------------------------------------
(* The readers.  A thread opens the oldest rows up to its LIMIT, the timeline  *)
(* the newest.  The lists of conversations, GET /sms and GET /messages-list,   *)
(* are always empty: PostgreSQL refuses both queries, which select columns     *)
(* they do not group by, and the handlers answer an error with no rows.        *)

RowsWhere(Test(_)) == {i \in DOMAIN rows : Test(rows[i])}

\* ORDER BY created_at ASC LIMIT n, and DESC
Oldest(S, n) == {i \in S : Cardinality({j \in S : j < i}) < n}
Newest(S, n) == {i \in S : Cardinality({j \in S : j > i}) < n}

\* GET /sms/thread, by contact or, without one, by number
SmsThread(silo, contact, phone) ==
    LET Shown(r) == /\ r.silo = silo /\ r.type = "sms"
                    /\ IF contact # Nil THEN r.contact = contact
                                        ELSE r.contact = Nil /\ phone \in {r.from, r.to}
    IN  Oldest(RowsWhere(Shown), ThreadLimit)

\* GET /messages, without a limit
ContactMessages(silo, contact) ==
    LET Shown(r) == r.silo = silo /\ r.contact = contact /\ r.type # "sms" IN RowsWhere(Shown)

\* GET /messages/thread/:applicationId
AppThread(app) == LET Shown(r) == r.app = app IN Oldest(RowsWhere(Shown), ThreadLimit)

\* The client's GET /messages
ClientThread(app) == LET Shown(r) == r.app = app IN Oldest(RowsWhere(Shown), ClientLimit)

\* GET /timeline: the texts of a number
Timeline(silo, phone) ==
    LET Shown(r) == r.silo = silo /\ phone \in {r.from, r.to}
    IN  Newest(RowsWhere(Shown), TimelineLimit)

-----------------------------------------------------------------------------
(* Properties.                                                               *)

\* Rows exchanged with a number, and rows of an application, whoever asks.
Exchanged(number) == {i \in DOMAIN rows : number \in {rows[i].from, rows[i].to}}
OfApp(app) == {i \in DOMAIN rows : rows[i].app = app}

Before(S, i) == Cardinality({j \in S : j < i})
After(S, i) == Cardinality({j \in S : j > i})

\* The SMS tab opens a text's thread by its contact or, without one, by the
\* client's number p.
InSmsTab(i, silo, p) ==
    LET number == IF rows[i].contact # Nil THEN rows[i].contact ELSE p IN
    i \in SmsThread(silo, rows[i].contact, number) \/ Before(Exchanged(number), i) >= ThreadLimit

InMessagesTab(i) ==
    LET app == rows[i].app IN
    /\ rows[i].contact # Nil => i \in ContactMessages(rows[i].silo, rows[i].contact)
    /\ i \in AppThread(app) \/ Before(OfApp(app), i) >= ThreadLimit
    /\ i \in ClientThread(app) \/ Before(OfApp(app), i) >= ClientLimit

\* A text is stored at most once however often Twilio delivers it, and what was
\* stored can be read within the limits of the readers.  In the silo its sender
\* works in, the thread of a text's contact or number opens it, unless
\* ThreadLimit earlier rows were exchanged with that number (the thread opens
\* the oldest, so the latest texts of a long conversation are not opened), and
\* the timeline of its number has it until TimelineLimit later rows push it out.
\* A message is opened under its contact, and in the application's thread and
\* the client's within their limits.
MessagesAreReachable ==
    /\ \A t \in DOMAIN texts :
          LET of == {i \in DOMAIN rows : rows[i].sid = t}
              p == texts[t].phone
          IN  /\ \A i, j \in of : i = j
              /\ \A i \in of :
                    LET silo == IF texts[t].dir = "outbound" THEN texts[t].seen ELSE rows[i].silo
                    IN  /\ InSmsTab(i, silo, p)
                        /\ i \in Timeline(silo, p) \/ After(Exchanged(p), i) >= TimelineLimit
    /\ \A i \in DOMAIN rows : rows[i].type = "message" => InMessagesTab(i)
=============================================================================
