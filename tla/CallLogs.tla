------------------------------ MODULE CallLogs ------------------------------
(***************************************************************************)
(* Calls: the log rows (modules/calls), the voice service                  *)
(* (modules/voice/voice.service.ts), the staff routes (routes/calls.ts),   *)
(* the telephony routes and presence (telephony/routes) and Twilio's       *)
(* webhooks (routes/webhooks.ts).                                          *)
(*                                                                         *)
(* Twilio is external: it reports the changes of a call in any order, any  *)
(* number of times, or not at all.  Every change of a row is a read of the *)
(* row followed by one UPDATE that writes all of its columns back, with    *)
(* nothing held in between.                                                *)
(***************************************************************************)
EXTENDS Naturals

CONSTANTS
    Calls,        \* calls, each with at most one row and one Twilio SID
    CallHandlers, \* requests and webhooks in progress
    Callers,      \* staff members
    MaxCallOps    \* bound on the operations on a call's row

ASSUME CallAssumption == MaxCallOps \in Nat

TwilioOver == {"completed", "busy"}           \* busy stands for no-answer, failed, canceled

TwilioStatus == {"initiated", "ringing", "in-progress", "unknown"} \union TwilioOver

CallStatus == {"initiated", "ringing", "in_progress", "completed", "failed", "ended", "busy"}

\* Statuses that set ended_at; a row set to busy (or no_answer) by hand is over too.
EndStatus == {"completed", "failed", "ended"}

TerminalStatus == EndStatus \union {"busy"}

VARIABLES
    phase,       \* call -> where it is at Twilio ("none": no Twilio call)
    reported,    \* call -> statuses Twilio has sent, deliverable at any time
    callRow,     \* call -> its row in call_logs
    callH,       \* handler -> what it does
    refused,     \* calls for which a request to Twilio failed
    byHand,      \* calls whose status staff wrote without asking Twilio
    callOps,     \* call -> operations begun
    presence     \* caller -> row of staff_presence; fresh: heartbeat of the last 5 minutes

callVars == <<phase, reported, callRow, callH, refused, byHand, callOps, presence>>

NoCallRow == [logged |-> FALSE, status |-> "initiated", ended |-> FALSE]

Resting == [pc |-> "idle", call |-> "none", status |-> "initiated", seen |-> "initiated",
            ended |-> FALSE]

CallTypeOK ==
    /\ phase \in [Calls -> {"none"} \union TwilioStatus]
    /\ reported \in [Calls -> SUBSET TwilioStatus]
    /\ callRow \in [Calls -> [logged: BOOLEAN, status: CallStatus, ended: BOOLEAN]]
    /\ callH \in [CallHandlers -> [pc: {"idle", "insert", "end", "hangup", "read", "write"},
                                   call: Calls \union {"none"}, status: CallStatus, seen: CallStatus,
                                   ended: BOOLEAN]]
    /\ refused \subseteq Calls /\ byHand \subseteq Calls
    /\ callOps \in [Calls -> 0..MaxCallOps]
    /\ presence \in [Callers -> [status: {"none", "available", "busy", "offline"}, fresh: BOOLEAN]]

----------------------------------------------------------------------------
(* Twilio (external) *)

Follows(p) == CASE p = "initiated" -> {"ringing", "busy"}
                [] p = "ringing" -> {"in-progress", "busy"}
                [] p = "in-progress" -> {"completed"}
                [] OTHER -> {}

TwilioMoves(c) ==
    /\ \E p \in Follows(phase[c]) :
          phase' = [phase EXCEPT ![c] = p] /\ reported' = [reported EXCEPT ![c] = @ \union {p, "unknown"}]
    /\ UNCHANGED <<callRow, callH, refused, byHand, callOps, presence>>

\* calls(sid).update({status: "completed"}): the call ends, or the request fails.
TwilioEnds(c, okay) ==
    IF okay THEN /\ phase' = [phase EXCEPT ![c] = IF @ \in TwilioOver THEN @ ELSE "completed"]
                 /\ reported' = [reported EXCEPT ![c] = @ \union {"completed"}]
                 /\ UNCHANGED refused
            ELSE refused' = refused \union {c} /\ UNCHANGED <<phase, reported>>

----------------------------------------------------------------------------
(* The status of a row *)

\* mapTwilioStatus then normalizeLifecycleStatus; unknown statuses are ignored.
MapTwilioStatus(t) == CASE t = "initiated" -> {"initiated"}
                        [] t = "ringing" -> {"ringing"}
                        [] t = "in-progress" -> {"in_progress"}
                        [] t = "completed" -> {"completed"}
                        [] t = "busy" -> {"failed"}
                        [] OTHER -> {}

\* Of the statuses the routes accept, the voice service keeps these.
NormalizeLifecycleStatus(s) == CASE s = "ended" -> "completed" [] s = "busy" -> "failed" [] OTHER -> s

\* The handler begins with this status to write, at this place.
Begin(h, c, pc, s) ==
    /\ callH[h].pc = "idle" /\ callOps[c] < MaxCallOps
    /\ callOps' = [callOps EXCEPT ![c] = @ + 1]
    /\ callH' = [callH EXCEPT ![h] = [Resting EXCEPT !.pc = pc, !.call = c, !.status = s]]

\* updateCallStatus: findCallLogById.
FindCallLog(h) ==
    /\ callH[h].pc = "read"
    /\ callH' = [callH EXCEPT ![h] = [@ EXCEPT !.pc = "write", !.seen = callRow[callH[h].call].status,
                              !.ended = callRow[callH[h].call].ended]]
    /\ UNCHANGED <<phase, reported, callRow, refused, byHand, callOps, presence>>

\* endedAt: shouldEnd ? now : what was read.
EndedAt(h) == callH[h].ended \/ callH[h].status \in EndStatus

\* The UPDATE: every column is written.
UpdateCallLogStatus(h) ==
    [callRow EXCEPT ![callH[h].call] =
        [callRow[callH[h].call] EXCEPT !.status = callH[h].status, !.ended = EndedAt(h)]]

\* updateCallStatus: one UPDATE and its audit event, or nothing if no column
\* differs from what was read (the numbers, the duration, the error and the
\* recording, which are not modelled, may differ).
UpdateCallStatus(h) ==
    /\ callH[h].pc = "write"
    /\ \/ callRow' = UpdateCallLogStatus(h)
       \/ /\ callH[h].status = callH[h].seen /\ EndedAt(h) = callH[h].ended
          /\ UNCHANGED callRow
    /\ callH' = [callH EXCEPT ![h] = Resting]
    /\ UNCHANGED <<phase, reported, refused, byHand, callOps, presence>>

----------------------------------------------------------------------------
(* Starting a call *)

\* However a call is placed, it exists at Twilio before its row does.
PlaceCall(h, c) ==
    /\ phase[c] = "none" /\ ~callRow[c].logged
    /\ Begin(h, c, "insert", "initiated")
    /\ phase' = [phase EXCEPT ![c] = "initiated"]
    /\ reported' = [reported EXCEPT ![c] = {"initiated"}]
    /\ UNCHANGED <<callRow, refused, byHand, presence>>

\* The voice service; a failed insert is the caller's error.
StartVoiceCall(h, c) == PlaceCall(h, c)

\* POST /telephony/outbound-call; a failed insert is ignored.
OutboundCall(h, c) == PlaceCall(h, c)

\* A call of the browser's SDK, logged on its way through the twiml webhook,
\* which lets the call go on if the insert fails.
SdkCall(h, c) == PlaceCall(h, c)

\* createCallLog: an insert that keeps a row the SID already has; a failure is
\* logged and the call goes on without a row.
CreateCallLog(h) ==
    /\ callH[h].pc = "insert"
    /\ \/ callRow' = [callRow EXCEPT ![callH[h].call] =
                          IF @.logged THEN @ ELSE [NoCallRow EXCEPT !.logged = TRUE]]
       \/ UNCHANGED callRow
    /\ callH' = [callH EXCEPT ![h] = Resting]
    /\ UNCHANGED <<phase, reported, refused, byHand, callOps, presence>>

\* POST /calls/start and POST /calls/log: a row without a Twilio call, which is
\* inserted with its status and, by /log, updated to set its end.
StartCall(h, c, s) ==
    /\ phase[c] = "none" /\ ~callRow[c].logged
    /\ callRow' = [callRow EXCEPT ![c] = [NoCallRow EXCEPT !.logged = TRUE, !.status = s]]
    /\ byHand' = byHand \union {c}
    /\ (s = "completed" /\ Begin(h, c, "read", s)) \/ UNCHANGED <<callH, callOps>>
    /\ UNCHANGED <<phase, reported, refused, presence>>

----------------------------------------------------------------------------
(* Changing a call *)

\* POST /webhooks/twilio/voice: a report of a call without a row, or of a status
\* nobody knows, is dropped.
HandleVoiceStatusWebhook(h, c) ==
    /\ callRow[c].logged
    /\ \E t \in reported[c] : \E s \in MapTwilioStatus(t) : Begin(h, c, "read", s)
    /\ UNCHANGED <<phase, reported, callRow, refused, byHand, presence>>

\* The staff's word is written, whatever Twilio says.
WriteByHand(h, c, s) ==
    /\ callRow[c].logged
    /\ Begin(h, c, "read", s)
    /\ byHand' = byHand \union {c}
    /\ UNCHANGED <<phase, reported, callRow, refused, presence>>

\* POST /calls/:id/status, with any status.
PostCallStatus(h, c) == \E s \in CallStatus : WriteByHand(h, c, s)

\* POST /calls/:id/end.
EndCall(h, c) == WriteByHand(h, c, "ended")

\* The voice service's own way to set a status.
UpdateVoiceCallStatus(h, c) ==
    phase[c] # "none" /\ \E s \in CallStatus : WriteByHand(h, c, NormalizeLifecycleStatus(s))

\* Mutant: the row is closed and Twilio is not asked.
EndWithoutTwilio(h, c) ==
    /\ callRow[c].logged /\ phase[c] # "none"
    /\ Begin(h, c, "read", "completed")
    /\ UNCHANGED <<phase, reported, callRow, refused, byHand, presence>>

\* endVoiceCall: a row that is over already is not ended at Twilio again.
EndVoiceCall(h, c) ==
    /\ callRow[c].logged /\ phase[c] # "none"
    /\ Begin(h, c, IF callRow[c].status \in TerminalStatus THEN "read" ELSE "end", "completed")
    /\ UNCHANGED <<phase, reported, callRow, refused, byHand, presence>>

\* controlVoiceCall: hangup asks Twilio even when the row is over; mute, hold and
\* resume are refused then and write in_progress otherwise, whatever Twilio says.
ControlVoiceCall(h, c) ==
    /\ callRow[c].logged /\ phase[c] # "none"
    /\ \/ Begin(h, c, "hangup", "completed")
       \/ callRow[c].status \notin TerminalStatus /\ Begin(h, c, "read", "in_progress")
    /\ UNCHANGED <<phase, reported, callRow, refused, byHand, presence>>

\* The answer of Twilio.  A refused end is logged as failed, a refused hangup as
\* completed all the same.
TwilioAnswers(h) ==
    LET c == callH[h].call IN
    /\ callH[h].pc \in {"end", "hangup"}
    /\ \E okay \in BOOLEAN :
          /\ TwilioEnds(c, okay)
          /\ callH' = [callH EXCEPT ![h] = [callH[h] EXCEPT !.pc = "read",
                                    !.status = IF callH[h].pc = "end" /\ ~okay THEN "failed" ELSE @]]
    /\ UNCHANGED <<callRow, byHand, callOps, presence>>

\* updateCallRecording: the status it has just read is written back with the
\* recording.
RecordVoiceCallRecording(h, c) ==
    /\ callRow[c].logged /\ phase[c] # "none"
    /\ Begin(h, c, "read", callRow[c].status)
    /\ UNCHANGED <<phase, reported, callRow, refused, byHand, presence>>

----------------------------------------------------------------------------
(* Presence of the staff *)

\* GET /telephony/token: a new row is available, an old one keeps its status.
FetchToken(u) ==
    /\ presence' = [presence EXCEPT ![u] = [status |-> IF @.status = "none" THEN "available" ELSE @.status,
                                            fresh |-> TRUE]]
    /\ UNCHANGED <<phase, reported, callRow, callH, refused, byHand, callOps>>

SetPresence(u) ==
    /\ \E s \in {"available", "busy", "offline"} :
          presence' = [presence EXCEPT ![u] = [status |-> s, fresh |-> TRUE]]
    /\ UNCHANGED <<phase, reported, callRow, callH, refused, byHand, callOps>>

\* POST /presence/heartbeat; one that comes too soon after the last changes nothing.
Heartbeat(u) ==
    /\ presence[u].status # "none"
    /\ presence' = [presence EXCEPT ![u].fresh = TRUE]
    /\ UNCHANGED <<phase, reported, callRow, callH, refused, byHand, callOps>>

HeartbeatExpires(u) ==
    /\ presence' = [presence EXCEPT ![u].fresh = FALSE]
    /\ UNCHANGED <<phase, reported, callRow, callH, refused, byHand, callOps>>

\* Whom a client's call rings; with nobody there it goes to voicemail.
RingAll == {u \in Callers : presence[u].status = "available" /\ presence[u].fresh}

\* A call of the mini portal: the staff is rung, no row is written; one that
\* nobody can take is over at once.
ClientCalls(c) ==
    /\ phase[c] = "none" /\ ~callRow[c].logged
    /\ phase' = [phase EXCEPT ![c] = IF RingAll = {} THEN "busy" ELSE "ringing"]
    /\ reported' = [reported EXCEPT ![c] = {phase'[c]}]
    /\ UNCHANGED <<callRow, callH, refused, byHand, callOps, presence>>

----------------------------------------------------------------------------
CallInit ==
    /\ phase = [c \in Calls |-> "none"] /\ reported = [c \in Calls |-> {}]
    /\ callRow = [c \in Calls |-> NoCallRow]
    /\ callH = [h \in CallHandlers |-> Resting]
    /\ refused = {} /\ byHand = {}
    /\ callOps = [c \in Calls |-> 0]
    /\ presence = [u \in Callers |-> [status |-> "none", fresh |-> FALSE]]

CallNext ==
    \/ \E c \in Calls : TwilioMoves(c) \/ ClientCalls(c)
    \/ \E u \in Callers : FetchToken(u) \/ SetPresence(u) \/ Heartbeat(u) \/ HeartbeatExpires(u)
    \/ \E h \in CallHandlers :
          \/ CreateCallLog(h) \/ TwilioAnswers(h) \/ FindCallLog(h) \/ UpdateCallStatus(h)
          \/ \E c \in Calls :
                \/ StartVoiceCall(h, c) \/ OutboundCall(h, c) \/ SdkCall(h, c)
                \/ HandleVoiceStatusWebhook(h, c)
                \/ PostCallStatus(h, c) \/ EndCall(h, c) \/ UpdateVoiceCallStatus(h, c)
                \/ EndVoiceCall(h, c) \/ ControlVoiceCall(h, c) \/ RecordVoiceCallRecording(h, c)
                \/ \E s \in CallStatus : StartCall(h, c, s)

CallSpec == CallInit /\ [][CallNext]_callVars

----------------------------------------------------------------------------
(* Properties *)

\* A call that the log shows as over is over at Twilio, whatever the order in
\* which webhooks, hang-ups, recordings and stale read-backs are written, unless
\* a request to Twilio failed or staff wrote the status by hand.
OverInLogIsOver ==
    \A c \in Calls : callRow[c].status \in TerminalStatus =>
        phase[c] \in TwilioOver \/ c \in refused \union byHand
=============================================================================
