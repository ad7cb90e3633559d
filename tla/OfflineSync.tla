------------------------------ MODULE OfflineSync ------------------------------
(* Offline replay of the staff app: POST /api/pwa/sync hands a batch of queued *)
(* requests to replaySyncBatch, which works through them one by one.  Each is  *)
(* looked up in idempotency_keys, executed when nothing is found and recorded  *)
(* afterwards; look-up, execution and record are three statements without a    *)
(* transaction, so batches of several devices, a lost answer followed by a     *)
(* retry, and a process that dies fall between them.                           *)
EXTENDS Naturals, Sequences, FiniteSets

CONSTANTS Batches,          \* requests to /sync in flight, one device each
          ReplayActions,    \* the queued requests: [path, key, body]
          SyncUsers,        \* the signed-in users: [role, caps]
          MaxSyncActions,   \* config.pwa.syncMaxActions
          MaxReplays        \* bound: executions of one key

ASSUME SyncAssumption ==
  /\ \A a \in ReplayActions :
       /\ a.path \in {"/api/lenders", "/api/lender-products", "/api/users", "/api/other"}
       /\ a.body \in {"a", "b", "incomplete", "oversized", "token", "unbound"}
  /\ MaxSyncActions \in Nat /\ MaxReplays \in Nat
  /\ IsFiniteSet(Batches) /\ SyncUsers # {}

VARIABLES syncBatch,   \* Batches -> the handler: pc, its user, what is left and,
                       \* as a ghost, the recorded executions at its look-up
          syncRecord,  \* route and key -> body of the stored record, or "none"
          lenderOpen,  \* whether the lender the products belong to is active
          executed,    \* route and key -> [times, bodies]: how often, and what, was carried out
          excused      \* ghost: reasons a key may be carried out once more

syncVars == <<syncBatch, syncRecord, lenderOpen, executed, excused>>

RecordKey(a) == <<a.path, a.key>>
RecordKeys == {RecordKey(a) : a \in ReplayActions}
ReplayBodies == {a.body : a \in ReplayActions}
IdleBatch == [pc |-> "idle", user |-> CHOOSE u \in SyncUsers : TRUE, todo |-> <<>>, seen |-> 0]

SyncTypeOK ==
  /\ syncBatch \in [Batches -> [pc : {"idle", "lookup", "execute", "record"}, user : SyncUsers,
                                todo : Seq(ReplayActions), seen : 0..MaxReplays]]
  /\ syncRecord \in [RecordKeys -> ReplayBodies \cup {"none"}]
  /\ lenderOpen \in BOOLEAN
  /\ executed \in [RecordKeys -> [times : 0..MaxReplays, bodies : SUBSET ReplayBodies]]
  /\ excused \in [RecordKeys -> Nat]

SyncInit ==
  /\ syncBatch = [b \in Batches |-> IdleBatch]
  /\ syncRecord = [k \in RecordKeys |-> "none"]
  /\ lenderOpen = TRUE
  /\ executed = [k \in RecordKeys |-> [times |-> 0, bodies |-> {}]]
  /\ excused = [k \in RecordKeys |-> 0]

Current(b) == Head(syncBatch[b].todo)
Times(k) == executed[k].times

(* A batch that meets a failure skips all that is left of it, one after the    *)
(* other without touching the database; a batch that has gone through its last *)
(* action answers.                                                             *)
Advance(b, result) ==
  LET left == IF result = "failed" THEN <<>> ELSE Tail(syncBatch[b].todo)
  IN  syncBatch' = [syncBatch EXCEPT ![b] =
                      IF left = <<>> THEN IdleBatch
                      ELSE [@ EXCEPT !.pc = "lookup", !.todo = left, !.seen = 0]]

(* replaySyncBatch refuses an empty batch and one above the limit before       *)
(* anything else.                                                              *)
BatchAcceptable(actions) == Len(actions) \in 1..MaxSyncActions

(* A device sends its queue: for the first time, again because the answer was  *)
(* lost, or with other actions.                                                *)
StartSync(b, user, actions) ==
  /\ syncBatch[b].pc = "idle"
  /\ BatchAcceptable(actions)
  /\ syncBatch' = [syncBatch EXCEPT ![b] = [pc |-> "lookup", user |-> user, todo |-> actions,
                                            seen |-> 0]]
  /\ UNCHANGED <<syncRecord, lenderOpen, executed, excused>>

(* containsJwt and assertActionPayloadSize come before the look-up.            *)
PayloadAccepted(a) == a.body \notin {"token", "oversized"}

FindIdempotencyRecord(k) == syncRecord[k]

Unrecorded(k) == Cardinality({c \in Batches : /\ syncBatch[c].pc = "record"
                                               /\ RecordKey(Current(c)) = k})
BeginExecution(b, k) ==
  syncBatch' = [syncBatch EXCEPT ![b] = [@ EXCEPT !.pc = "execute", !.seen = Times(k) - Unrecorded(k)]]

(* createIdempotencyRecord inserts or overwrites the row of the route and key. *)
CreateIdempotencyRecord(a) == syncRecord' = [syncRecord EXCEPT ![RecordKey(a)] = a.body]

\* Mutant: a key sent with another payload is taken for a new one.
LookUpByPayload(b) ==
  LET a == Current(b)
      k == RecordKey(a)
  IN  /\ syncBatch[b].pc = "lookup"
      /\ IF FindIdempotencyRecord(k) = a.body THEN Advance(b, "succeeded") ELSE BeginExecution(b, k)
      /\ UNCHANGED <<syncRecord, lenderOpen, executed, excused>>

LookUp(b) ==
  LET a == Current(b)
      found == FindIdempotencyRecord(RecordKey(a))
  IN  /\ syncBatch[b].pc = "lookup"
      /\ \/ ~PayloadAccepted(a) /\ Advance(b, "failed")
         \/ PayloadAccepted(a) /\ found \notin {"none", a.body} /\ Advance(b, "failed")
         \/ PayloadAccepted(a) /\ found = a.body /\ Advance(b, "succeeded")
         \/ PayloadAccepted(a) /\ found = "none" /\ BeginExecution(b, RecordKey(a))
      /\ UNCHANGED <<syncRecord, lenderOpen, executed, excused>>

(* assertCapabilities: operations staff may do everything the others may.      *)
HasCapability(user, cap) == "OPS_MANAGE" \in user.caps \/ cap \in user.caps

(* isLenderActive, read by executeReplayAction before a product is created.    *)
LenderActive == lenderOpen

(* A Lender user adds products to the own lender only, and needs one.          *)
LenderBound(user, a) == user.role # "Lender" \/ a.body # "unbound"

(* executeReplayAction: who may replay which path, and what the payload needs. *)
MayExecute(user, a) ==
  CASE a.path = "/api/lenders" ->
         HasCapability(user, "OPS_MANAGE") /\ a.body # "incomplete"
    [] a.path = "/api/lender-products" ->
         /\ HasCapability(user, "LENDER_PRODUCTS_WRITE")
         /\ a.body # "incomplete"
         /\ LenderBound(user, a)
         /\ LenderActive
    [] a.path = "/api/users" -> user.role = "Admin" /\ a.body # "incomplete"
    [] OTHER -> FALSE

(* The create call may also fail by itself, and then nothing was written.      *)
Execute(b) ==
  LET a == Current(b)
      k == RecordKey(a)
  IN  /\ syncBatch[b].pc = "execute"
      /\ \/ /\ MayExecute(syncBatch[b].user, a)
            /\ Times(k) < MaxReplays
            /\ executed' = [executed EXCEPT ![k] = [times |-> @.times + 1, bodies |-> @.bodies \cup {a.body}]]
            /\ syncBatch' = [syncBatch EXCEPT ![b] = [@ EXCEPT !.pc = "record", !.seen = 0]]
            /\ excused' = IF Times(k) = syncBatch[b].seen THEN excused
                          ELSE [excused EXCEPT ![k] = @ + 1]
         \/ /\ Advance(b, "failed")
            /\ UNCHANGED <<executed, excused>>
      /\ UNCHANGED <<syncRecord, lenderOpen>>

(* A failing write turns the executed action into a failed one.                *)
RecordOutcome(b) ==
  LET a == Current(b)
  IN  /\ syncBatch[b].pc = "record"
      /\ \/ /\ CreateIdempotencyRecord(a)
            /\ Advance(b, "succeeded")
            /\ UNCHANGED excused
         \/ /\ Advance(b, "failed")
            /\ excused' = [excused EXCEPT ![RecordKey(a)] = @ + 1]
            /\ UNCHANGED syncRecord
      /\ UNCHANGED <<lenderOpen, executed>>

(* The process dies: the device sees no answer.                                *)
SyncCrash(b) ==
  /\ syncBatch[b].pc # "idle"
  /\ syncBatch' = [syncBatch EXCEPT ![b] = IdleBatch]
  /\ excused' = IF syncBatch[b].pc # "record" THEN excused
                ELSE [excused EXCEPT ![RecordKey(Current(b))] = @ + 1]
  /\ UNCHANGED <<syncRecord, lenderOpen, executed>>

(* The look-up ignores records older than 24 hours; the next record overwrites *)
(* the old row.                                                                *)
RecordLapses(k) ==
  /\ syncRecord[k] # "none"
  /\ syncRecord' = [syncRecord EXCEPT ![k] = "none"]
  /\ excused' = [excused EXCEPT ![k] = @ + 1]
  /\ UNCHANGED <<syncBatch, lenderOpen, executed>>

(* Staff switch the lender off and on through the catalogue.                   *)
LenderSwitched ==
  /\ lenderOpen' = ~lenderOpen
  /\ UNCHANGED <<syncBatch, syncRecord, executed, excused>>

ActionQueues == UNION {[1..n -> ReplayActions] : n \in 1..MaxSyncActions}

SyncNext ==
  \/ \E b \in Batches : \/ \E u \in SyncUsers, q \in ActionQueues : StartSync(b, u, q)
                        \/ LookUp(b) \/ Execute(b) \/ RecordOutcome(b) \/ SyncCrash(b)
  \/ \E k \in RecordKeys : RecordLapses(k)
  \/ LenderSwitched

SyncSpec == SyncInit /\ [][SyncNext]_syncVars

(* A queued request is carried out once however often and from however many    *)
(* devices it is sent; each further time is paid for by one of: two look-ups   *)
(* that overlapped, a record that could not be written, a crash before the     *)
(* record, or a record older than a day (replaySyncBatch).                     *)
ReplayedOnce == \A k \in RecordKeys : Times(k) <= 1 + excused[k]

(* What a device is told has succeeded on the strength of a stored record was  *)
(* really carried out, with exactly the payload it sent: neither a failed      *)
(* action nor another device's payload under the same key leaves a record that *)
(* answers for it (replaySyncBatch, createIdempotencyRecord).                  *)
RecordedWasDone ==
  \A k \in RecordKeys : syncRecord[k] # "none" => syncRecord[k] \in executed[k].bodies

================================================================================
