------------------------------ MODULE PushDevices ------------------------------
(* Push subscriptions of the staff app (pwa_subscriptions, one row per         *)
(* endpoint) and the sending of notifications.  Registering reads the row of   *)
(* the endpoint and then updates it by its id or inserts one; sending reads    *)
(* the rows of a user, files the notification and then contacts the endpoints  *)
(* one after the other, dropping the ones the push service calls gone.         *)
EXTENDS Naturals, FiniteSets

CONSTANTS PushUsers, Endpoints,
          Registrars,   \* POST /pwa/subscribe requests in flight
          Senders,      \* sendNotification calls in flight
          MaxPushRows,      \* bound: subscription rows ever inserted
          MaxAudit      \* bound: pwa_notifications rows of a user

ASSUME PushAssumption ==
  /\ MaxPushRows \in Nat /\ MaxAudit \in Nat
  /\ IsFiniteSet(Registrars) /\ "none" \notin PushUsers \cup Endpoints

VARIABLES subscription,  \* Endpoints -> row: id (0 when there is none), owner, whose keys
          rowsMade,      \* number of rows inserted so far: the next id
          registrar,     \* Registrars -> the handler: pc, user, endpoint, id found
          pushReady,     \* "unset", "configured" or "off": initializePushService, run once
          sender,        \* Senders -> pc, user, rows still to contact, endpoint to drop
          pushAudit      \* PushUsers -> [unread, read]: rows of pwa_notifications

pushVars == <<subscription, rowsMade, registrar, pushReady, sender, pushAudit>>

PushRow == [id : 0..MaxPushRows, owner : PushUsers \cup {"none"}, keys : PushUsers \cup {"none"}]
NoPushRow == [id |-> 0, owner |-> "none", keys |-> "none"]
IdleRegistrar == [pc |-> "idle", user |-> "none", endpoint |-> "none", found |-> 0]
IdleSender == [pc |-> "idle", user |-> "none", todo |-> {}, drop |-> "none"]

PushTypeOK ==
  /\ subscription \in [Endpoints -> PushRow] /\ rowsMade \in 0..MaxPushRows
  /\ registrar \in [Registrars -> [pc : {"idle", "write"}, user : PushUsers \cup {"none"},
                                   endpoint : Endpoints \cup {"none"}, found : 0..MaxPushRows]]
  /\ pushReady \in {"unset", "configured", "off"}
  /\ sender \in [Senders -> [pc : {"idle", "audit", "send", "drop"}, user : PushUsers \cup {"none"},
                             todo : SUBSET Endpoints, drop : Endpoints \cup {"none"}]]
  /\ pushAudit \in [PushUsers -> [unread : 0..MaxAudit, read : 0..MaxAudit]]

PushInit ==
  /\ subscription = [e \in Endpoints |-> NoPushRow] /\ rowsMade = 0
  /\ registrar = [r \in Registrars |-> IdleRegistrar]
  /\ pushReady = "unset"
  /\ sender = [s \in Senders |-> IdleSender]
  /\ pushAudit = [u \in PushUsers |-> [unread |-> 0, read |-> 0]]

(* upsertPwaSubscription, first statement: another user's endpoint is refused  *)
(* with 409.                                                                   *)
Subscribe(r, u, e) ==
  /\ registrar[r].pc = "idle"
  /\ rowsMade + Cardinality({q \in Registrars : registrar[q].pc = "write"}) < MaxPushRows
  /\ subscription[e].owner \in {u, "none"}
  /\ registrar' = [registrar EXCEPT ![r] = [pc |-> "write", user |-> u, endpoint |-> e,
                                            found |-> subscription[e].id]]
  /\ UNCHANGED <<subscription, rowsMade, pushReady, sender, pushAudit>>

\* Mutant: the row is updated by its endpoint instead of by the id that was read.
WriteByEndpoint(r) ==
  LET u == registrar[r].user  e == registrar[r].endpoint
  IN  /\ registrar[r].pc = "write"
      /\ registrar' = [registrar EXCEPT ![r] = IdleRegistrar]
      /\ IF subscription[e].id # 0
         THEN subscription' = [subscription EXCEPT ![e].keys = u] /\ UNCHANGED rowsMade
         ELSE /\ rowsMade' = rowsMade + 1
              /\ subscription' = [subscription EXCEPT ![e] = [id |-> rowsMade + 1, owner |-> u, keys |-> u]]
      /\ UNCHANGED <<pushReady, sender, pushAudit>>

(* Second statement: the update touches nothing, and the request fails, when   *)
(* the row was removed meanwhile; the insert fails on the unique endpoint when *)
(* another request was faster.                                                 *)
WriteSubscription(r) ==
  LET u == registrar[r].user
      e == registrar[r].endpoint
      found == registrar[r].found
  IN  /\ registrar[r].pc = "write"
      /\ registrar' = [registrar EXCEPT ![r] = IdleRegistrar]
      /\ \/ /\ found # 0 /\ subscription[e].id = found
            /\ subscription' = [subscription EXCEPT ![e].keys = u]
            /\ UNCHANGED rowsMade
         \/ /\ found = 0 /\ subscription[e].id = 0
            /\ rowsMade' = rowsMade + 1
            /\ subscription' = [subscription EXCEPT ![e] = [id |-> rowsMade + 1, owner |-> u, keys |-> u]]
         \/ /\ subscription[e].id # found
            /\ UNCHANGED <<subscription, rowsMade>>
      /\ UNCHANGED <<pushReady, sender, pushAudit>>

(* DELETE /pwa/unsubscribe: the own row, or with scope "legacy" whoever's.     *)
DeleteSubscription(u, e) ==
  /\ subscription[e].owner = u
  /\ subscription' = [subscription EXCEPT ![e] = NoPushRow]
  /\ UNCHANGED <<rowsMade, registrar, pushReady, sender, pushAudit>>

DeleteSubscriptionLegacy(e) ==
  /\ subscription[e].id # 0
  /\ subscription' = [subscription EXCEPT ![e] = NoPushRow]
  /\ UNCHANGED <<rowsMade, registrar, pushReady, sender, pushAudit>>

(* initializePushService decides once whether push can be used at all.         *)
InitializePushService ==
  /\ pushReady = "unset"
  /\ pushReady' \in {"configured", "off"}
  /\ UNCHANGED <<subscription, rowsMade, registrar, sender, pushAudit>>

(* sendNotification: the rows of the user are read first.                      *)
ListSubscriptions(s, u) ==
  /\ sender[s].pc = "idle" /\ pushReady = "configured"
  /\ sender' = [sender EXCEPT ![s] = [pc |-> "audit", user |-> u, drop |-> "none",
                                      todo |-> {e \in Endpoints : subscription[e].owner = u}]]
  /\ UNCHANGED <<subscription, rowsMade, registrar, pushReady, pushAudit>>

(* The notification is filed before anything is sent, and also when there is   *)
(* nobody to send it to.  A row with the same hash of the last two minutes     *)
(* would be reused, but the hash covers the time of sending.                   *)
FileNotification(s) ==
  LET u == sender[s].user
  IN  /\ sender[s].pc = "audit"
      /\ pushAudit[u].unread + pushAudit[u].read < MaxAudit
      /\ pushAudit' = [pushAudit EXCEPT ![u].unread = @ + 1]
      /\ sender' = [sender EXCEPT ![s] = IF @.todo = {} THEN IdleSender ELSE [@ EXCEPT !.pc = "send"]]
      /\ UNCHANGED <<subscription, rowsMade, registrar, pushReady>>

Sent(s, e) == sender' = [sender EXCEPT ![s] = IF @.todo = {e} THEN IdleSender
                                              ELSE [sender[s] EXCEPT !.todo = @ \ {e}]]

(* One endpoint answers: delivered, failed for the moment, or gone (400, 404   *)
(* or 410).                                                                    *)
ContactEndpoint(s, e) ==
  /\ sender[s].pc = "send" /\ e \in sender[s].todo
  /\ \/ Sent(s, e)
     \/ sender' = [sender EXCEPT ![s] = [@ EXCEPT !.pc = "drop", !.drop = e]]
  /\ UNCHANGED <<subscription, rowsMade, registrar, pushReady, pushAudit>>

(* deletePwaSubscriptionByEndpoint: only the row of the addressed user.        *)
DropSubscription(s) ==
  LET e == sender[s].drop
      left == sender[s].todo \ {e}
  IN  /\ sender[s].pc = "drop"
      /\ subscription' = IF subscription[e].owner = sender[s].user
                         THEN [subscription EXCEPT ![e] = NoPushRow] ELSE subscription
      /\ sender' = [sender EXCEPT ![s] = IF left = {} THEN IdleSender
                                         ELSE [@ EXCEPT !.pc = "send", !.todo = left, !.drop = "none"]]
      /\ UNCHANGED <<rowsMade, registrar, pushReady, pushAudit>>

(* POST /pwa/notifications/:id/ack, once per row; the retention run deletes    *)
(* old rows, read or not.                                                      *)
AcknowledgeNotification(u) ==
  /\ pushAudit[u].unread > 0
  /\ pushAudit' = [pushAudit EXCEPT ![u] = [pushAudit[u] EXCEPT !.unread = @ - 1, !.read = @ + 1]]
  /\ UNCHANGED <<subscription, rowsMade, registrar, pushReady, sender>>

PurgeNotifications ==
  /\ \E u \in PushUsers : pushAudit[u].unread + pushAudit[u].read > 0
  /\ pushAudit' \in [PushUsers -> [unread : 0..MaxAudit, read : 0..MaxAudit]]
  /\ \A u \in PushUsers : pushAudit'[u].unread <= pushAudit[u].unread /\ pushAudit'[u].read <= pushAudit[u].read
  /\ UNCHANGED <<subscription, rowsMade, registrar, pushReady, sender>>

PushNext ==
  \/ \E r \in Registrars : \/ \E u \in PushUsers, e \in Endpoints : Subscribe(r, u, e)
                           \/ WriteSubscription(r)
  \/ \E u \in PushUsers, e \in Endpoints : DeleteSubscription(u, e)
  \/ \E e \in Endpoints : DeleteSubscriptionLegacy(e)
  \/ InitializePushService
  \/ \E s \in Senders : \/ \E u \in PushUsers : ListSubscriptions(s, u)
                        \/ FileNotification(s) \/ DropSubscription(s)
                        \/ \E e \in Endpoints : ContactEndpoint(s, e)
  \/ \E u \in PushUsers : AcknowledgeNotification(u)
  \/ PurgeNotifications

PushSpec == PushInit /\ [][PushNext]_pushVars

(* The keys on a row are the ones its owner registered: a registration that    *)
(* read the endpoint before it changed hands never leaves one user's keys on   *)
(* another user's row, where the other's notifications would be encrypted for  *)
(* the wrong browser (upsertPwaSubscription).                                  *)
KeysBelongToOwner == \A e \in Endpoints : subscription[e].keys = subscription[e].owner

================================================================================
