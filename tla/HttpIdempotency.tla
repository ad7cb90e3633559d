--------------------------- MODULE HttpIdempotency ----------------------------
(* The Idempotency-Key middleware in front of POST /leads and POST             *)
(* /lender/send: a stored response is looked up, the request runs when there   *)
(* is none, and its answer is stored without waiting.  The store is Redis once *)
(* its connection is up; until then, and whenever a command fails, it is a Map *)
(* of the process that forgets its oldest entry beyond a limit and every entry *)
(* after an hour.                                                              *)
EXTENDS Naturals, Sequences, SequencesExt

CONSTANTS Requests,     \* requests in flight
          HttpKeys,     \* storage keys: user, path and Idempotency-Key together
          Payloads,     \* request bodies, told apart by their hash
          MemoryLimit,  \* MEMORY_STORE_MAX_ITEMS
          MaxHandled    \* bound: times one key is handled

ASSUME HttpAssumption == MemoryLimit \in Nat \ {0} /\ MaxHandled \in Nat /\ "none" \notin Payloads

VARIABLES httpRequest,  \* Requests -> [pc, key, payload]
          redisLink,    \* "unattempted", "connecting", "ready" or "unavailable"
          redisStore,   \* HttpKeys -> payload of the stored response, or "none"
          memoryStore,  \* the Map: a sequence of [key, payload] in insertion order
          handled,      \* HttpKeys -> times a request with that key was handled
          forgotten     \* ghost: keys whose stored response was lost, or raced

httpVars == <<httpRequest, redisLink, redisStore, memoryStore, handled, forgotten>>

IdleRequest == [pc |-> "idle", key |-> "none", payload |-> "none"]

HttpTypeOK ==
  /\ httpRequest \in [Requests -> [pc : {"idle", "lookup", "handle", "store"},
                                   key : HttpKeys \cup {"none"}, payload : Payloads \cup {"none"}]]
  /\ redisLink \in {"unattempted", "connecting", "ready", "unavailable"}
  /\ redisStore \in [HttpKeys -> Payloads \cup {"none"}]
  /\ memoryStore \in Seq([key : HttpKeys, payload : Payloads]) /\ Len(memoryStore) <= MemoryLimit
  /\ handled \in [HttpKeys -> 0..MaxHandled]
  /\ forgotten \subseteq HttpKeys

HttpInit ==
  /\ httpRequest = [r \in Requests |-> IdleRequest]
  /\ redisLink = "unattempted"
  /\ redisStore = [k \in HttpKeys |-> "none"]
  /\ memoryStore = <<>>
  /\ handled = [k \in HttpKeys |-> 0]
  /\ forgotten = {}

(* fetchRedisClient starts the connection on first use and answers null until  *)
(* it is up; it is attempted once in the life of the process.                  *)
FetchRedisClient == redisLink' = IF redisLink = "unattempted" THEN "connecting" ELSE redisLink

MemoryKeys == {memoryStore[i].key : i \in DOMAIN memoryStore}
MemoryGet(k) == IF k \in MemoryKeys
                THEN memoryStore[CHOOSE i \in DOMAIN memoryStore : memoryStore[i].key = k].payload
                ELSE "none"

\* Mutant: a full store takes no new entry.
MemorySetWhileRoom(k, p) ==
  IF Len(memoryStore) = MemoryLimit THEN memoryStore ELSE Append(memoryStore, [key |-> k, payload |-> p])

(* Map.set keeps the place of a key it already holds; beyond the limit the     *)
(* oldest entry goes.                                                          *)
MemorySet(k, p) ==
  LET entry == [key |-> k, payload |-> p]
      placed == IF k \in MemoryKeys
                THEN [i \in DOMAIN memoryStore |-> IF memoryStore[i].key = k THEN entry ELSE memoryStore[i]]
                ELSE Append(memoryStore, entry)
  IN  IF Len(placed) > MemoryLimit THEN Tail(placed) ELSE placed

Evicted(k, p) == MemoryKeys \ {MemorySet(k, p)[i].key : i \in DOMAIN MemorySet(k, p)}

(* A request arrives with a well-formed key.                                   *)
Arrive(r, k, p) ==
  /\ httpRequest[r].pc = "idle"
  /\ httpRequest' = [httpRequest EXCEPT ![r] = [pc |-> "lookup", key |-> k, payload |-> p]]
  /\ UNCHANGED <<redisLink, redisStore, memoryStore, handled, forgotten>>

(* What fetchStoredResponse may answer: Redis when it is up, the Map when it   *)
(* is not up or the command fails.                                             *)
FetchStoredResponse(k) ==
  IF redisLink = "ready" THEN {redisStore[k], MemoryGet(k)} ELSE {MemoryGet(k)}

Racing(r, k) == \E q \in Requests \ {r} : httpRequest[q].pc \in {"handle", "store"} /\ httpRequest[q].key = k

(* idempotencyMiddleware: answered at once with 409 or as a duplicate, or      *)
(* handed on.  A response kept in Redis is missed when the command fails or    *)
(* when the process has just started and the connection is not up yet.         *)
Lookup(r) ==
  LET k == httpRequest[r].key
  IN  /\ httpRequest[r].pc = "lookup"
      /\ FetchRedisClient
      /\ \E found \in FetchStoredResponse(k) :
           IF found # "none"
           THEN httpRequest' = [httpRequest EXCEPT ![r] = IdleRequest] /\ UNCHANGED forgotten
           ELSE /\ httpRequest' = [httpRequest EXCEPT ![r].pc = "handle"]
                /\ forgotten' = IF Racing(r, k) \/ redisStore[k] # "none"
                                THEN forgotten \cup {k} ELSE forgotten
      /\ UNCHANGED <<redisStore, memoryStore, handled>>

(* createLead inserts the lead (or the lender package is queued) and the       *)
(* handler answers 201 or 202; a refusal, 4xx, is stored like a success; an    *)
(* error, 5xx, is not stored.                                                  *)
Handle(r) ==
  LET k == httpRequest[r].key
  IN  /\ httpRequest[r].pc = "handle"
      /\ \/ /\ handled[k] < MaxHandled
            /\ handled' = [handled EXCEPT ![k] = @ + 1]
            /\ httpRequest' = [httpRequest EXCEPT ![r].pc = "store"]
            /\ UNCHANGED forgotten
         \/ /\ httpRequest' = [httpRequest EXCEPT ![r].pc = "store"]
            /\ UNCHANGED <<handled, forgotten>>
         \/ /\ handled[k] < MaxHandled
            /\ handled' \in {handled, [handled EXCEPT ![k] = @ + 1]}
            /\ forgotten' = forgotten \cup {k}
            /\ httpRequest' = [httpRequest EXCEPT ![r] = IdleRequest]
      /\ UNCHANGED <<redisLink, redisStore, memoryStore>>

(* storeResponse, not awaited by the answer.                                   *)
StoreResponse(r) ==
  LET k == httpRequest[r].key
      p == httpRequest[r].payload
  IN  /\ httpRequest[r].pc = "store"
      /\ FetchRedisClient
      /\ httpRequest' = [httpRequest EXCEPT ![r] = IdleRequest]
      /\ \/ /\ redisLink = "ready"
            /\ redisStore' = [redisStore EXCEPT ![k] = p]
            /\ UNCHANGED <<memoryStore, forgotten>>
         \/ /\ memoryStore' = MemorySet(k, p)
            /\ forgotten' = forgotten \cup Evicted(k, p) \cup (IF redisLink = "ready" THEN {k} ELSE {})
            /\ UNCHANGED redisStore
      /\ UNCHANGED handled

(* The connection comes up, and from then on the Map is read only when a       *)
(* command fails; or it does not come up and is not tried again.               *)
RedisConnects ==
  /\ redisLink = "connecting"
  /\ \/ redisLink' = "ready" /\ forgotten' = forgotten \cup MemoryKeys
     \/ redisLink' = "unavailable" /\ UNCHANGED forgotten
  /\ UNCHANGED <<httpRequest, redisStore, memoryStore, handled>>

(* An hour passes: the timer of the Map deletes the key, Redis expires it.     *)
ResponseExpires(k) ==
  /\ \/ /\ k \in MemoryKeys
        /\ \E i \in DOMAIN memoryStore : memoryStore[i].key = k /\ memoryStore' = RemoveAt(memoryStore, i)
        /\ UNCHANGED redisStore
     \/ /\ redisStore[k] # "none"
        /\ redisStore' = [redisStore EXCEPT ![k] = "none"]
        /\ UNCHANGED memoryStore
  /\ forgotten' = forgotten \cup {k}
  /\ UNCHANGED <<httpRequest, redisLink, handled>>

(* The process restarts: its requests and its Map are gone.                    *)
Restart ==
  /\ redisLink # "unattempted"
  /\ forgotten' = forgotten \cup MemoryKeys \cup {k \in HttpKeys : \E r \in Requests :
                                                  httpRequest[r].pc \in {"handle", "store"} /\ httpRequest[r].key = k}
  /\ httpRequest' = [r \in Requests |-> IdleRequest]
  /\ redisLink' = "unattempted"
  /\ memoryStore' = <<>>
  /\ UNCHANGED <<redisStore, handled>>

HttpNext ==
  \/ \E r \in Requests : \/ \E k \in HttpKeys, p \in Payloads : Arrive(r, k, p)
                         \/ Lookup(r) \/ Handle(r) \/ StoreResponse(r)
  \/ \E k \in HttpKeys : ResponseExpires(k)
  \/ RedisConnects
  \/ Restart

HttpSpec == HttpInit /\ [][HttpNext]_httpVars

(* A request sent again under its key is handled once, whatever payload comes  *)
(* with it and wherever the response is kept.  It takes a loss to break that:  *)
(* two requests overlapping, an entry evicted, expired or left in the Map when *)
(* Redis comes up, a look-up that misses Redis, an error answer, or a restart  *)
(* that takes the Map away (idempotencyMiddleware).                            *)
HandledOnce == \A k \in HttpKeys : k \notin forgotten => handled[k] <= 1

================================================================================
