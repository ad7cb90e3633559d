---------------------------- MODULE AuthSessions ----------------------------
(***************************************************************************)
(* One-time codes, refresh tokens and account administration               *)
(* (src/src/modules/auth, src/src/modules/users, services/users.service).  *)
(*                                                                         *)
(* A handler is one request being served.  The requests that write several *)
(* rows do so in one READ COMMITTED transaction: a row it has updated is   *)
(* locked until it ends, an UPDATE sees the rows committed when the        *)
(* statement began and waits for the locked ones among them, and an insert *)
(* is seen by others only after the commit.  A phone belongs to one user,  *)
(* so the per-phone state is kept per user.                                *)
(***************************************************************************)
EXTENDS Naturals, FiniteSets

CONSTANTS Users, AuthHandlers, RefreshTokens, MaxTokenVersion, MaxOtpAttempts, Nobody

ASSUME AuthAssumption == /\ MaxTokenVersion \in Nat
                         /\ MaxOtpAttempts \in Nat \ {0}
                         /\ Nobody \notin Users \cup AuthHandlers \cup RefreshTokens

VARIABLES
  account,    \* users: activity flags, token_version, whether role and lender_id fit together
  otp,        \* otp_sessions, otp_verifications and otpAttemptState of the user's phone
  token,      \* auth_refresh_tokens
  lockedBy,   \* the transaction that has updated a user or token row and not ended
  inFlight,   \* otpVerifyInFlight
  replayed,   \* refreshReplayGuard
  request     \* what each handler is doing

authVars == <<account, otp, token, lockedBy, inFlight, replayed, request>>

(***************************************************************************)
(* setUserActive writes active, is_active, disabled and status together,   *)
(* so the four columns have one of three values; createUser leaves         *)
(* is_active NULL and active false.                                        *)
(***************************************************************************)
Activity == {"absent", "created", "active", "disabled"}
OtpRecord == [session: {"none", "open", "expired"},
              verification: {"none", "pending", "approved"},
              attempts: 0..MaxOtpAttempts]
TokenState == {"unissued", "live", "revoked", "dead"}
Steps == {"idle", "check", "sign_in", "consume", "load", "replay", "snapshot",
          "revoke", "finish"}
Idle == [step |-> "idle", user |-> Nobody, from |-> Nobody, version |-> 0,
         seen |-> {}, change |-> "none"]

AuthTypeOK ==
  /\ account \in [Users -> [activity: Activity, version: 0..MaxTokenVersion, bound: BOOLEAN]]
  /\ otp \in [Users -> OtpRecord]
  /\ token \in [RefreshTokens -> [state: TokenState, user: Users \cup {Nobody},
                                  version: 0..MaxTokenVersion,
                                  parent: RefreshTokens \cup {Nobody}]]
  /\ lockedBy \in [Users \cup RefreshTokens -> AuthHandlers \cup {Nobody}]
  /\ inFlight \subseteq Users
  /\ replayed \subseteq RefreshTokens
  /\ request \in [AuthHandlers ->
       [step: Steps, user: Users \cup {Nobody}, from: RefreshTokens \cup {Nobody},
        version: 0..MaxTokenVersion, seen: SUBSET RefreshTokens,
        change: {"none", "disabled", "role"}]]

Unissued == [state |-> "unissued", user |-> Nobody, version |-> 0, parent |-> Nobody]
FreshToken == CHOOSE t \in RefreshTokens : TRUE

\* No account yet, or the active ones of the seed scripts, one of them signed in.
AuthInit ==
  /\ account \in [Users -> [activity: {"absent", "active"}, version: {0}, bound: {TRUE}]]
  /\ otp = [u \in Users |-> [session |-> "none", verification |-> "none", attempts |-> 0]]
  /\ \E here \in {u \in Users : account[u].activity = "active"} \cup {Nobody} :
       token = [t \in RefreshTokens |->
                  IF here # Nobody /\ t = FreshToken
                  THEN [Unissued EXCEPT !.state = "live", !.user = here] ELSE Unissued]
  /\ lockedBy = [x \in Users \cup RefreshTokens |-> Nobody]
  /\ inFlight = {}
  /\ replayed = {}
  /\ request = [h \in AuthHandlers |-> Idle]

-----------------------------------------------------------------------------
\* Rows, locks and the end of a request.

AccountExists(u) == account[u].activity # "absent"

\* assertUserActive: nobody has disabled the account and one of the flags is set.
AssertUserActive(a) == a.activity = "active"

\* assertLenderBinding: a lender_id for the role Lender and for no other.
AssertLenderBinding(a) == a.bound

\* The row with an id, or with a phone in either of its two columns.
FindAuthUserById(u) == account[u]
FindAuthUserByPhone(u) == account[u]

MaySignIn(a) == AssertUserActive(a) /\ AssertLenderBinding(a)

\* Rows of the user not revoked and not expired.
LiveTokens(u) == {t \in RefreshTokens : token[t].state = "live" /\ token[t].user = u}

\* No transaction but h's own has updated the row.
FreeFor(h, x) == lockedBy[x] \in {h, Nobody}

Unlocked(h) == [x \in Users \cup RefreshTokens |->
                  IF lockedBy[x] = h THEN Nobody ELSE lockedBy[x]]

At(h, step) == request[h].step = step

AuthGoto(h, step) == request' = [request EXCEPT ![h].step = step]

\* The request ends: its transaction is over and its locks are gone.
Ends(h) == /\ request' = [request EXCEPT ![h] = Idle]
           /\ lockedBy' = Unlocked(h)

\* The finally block of verifyOtpCode drops the phone's in-flight mark,
\* whichever request set it.
ClearVerifyAttempt(h) ==
  inFlight' = IF request[h].from = Nobody /\ request[h].change = "none"
              THEN inFlight \ {request[h].user} ELSE inFlight

\* The UPDATEs of the transaction take effect at its commit.
Revoked(h) == {t \in RefreshTokens : lockedBy[t] = h /\ token[t].state = "live"}

CommitRevocations(h) ==
  [t \in RefreshTokens |-> IF t \in Revoked(h)
                           THEN [token[t] EXCEPT !.state = "revoked"] ELSE token[t]]

-----------------------------------------------------------------------------
\* One-time codes.

\* A code is requested: the attempts are forgotten, a session row is written and,
\* when the provider took the request and the phone has an account, a pending
\* verification.
CreateOtpVerification(u) == IF AccountExists(u) THEN "pending" ELSE otp[u].verification

StartOtp(u) ==
  /\ \E sent \in BOOLEAN :
       otp' = [otp EXCEPT ![u] =
         [session |-> "open", attempts |-> 0,
          verification |-> IF sent THEN CreateOtpVerification(u) ELSE @.verification]]
  /\ UNCHANGED <<account, token, lockedBy, inFlight, replayed, request>>

\* Ten minutes pass: the session expires and the verification is no longer fresh.
OtpExpires(u) ==
  /\ otp[u].session = "open"
  /\ otp' = [otp EXCEPT ![u] = [@ EXCEPT !.session = "expired", !.verification = "none"]]
  /\ UNCHANGED <<account, token, lockedBy, inFlight, replayed, request>>

\* The four conditions under which the provider is asked at all.
AssertOtpAttemptLimit(u) == otp[u].attempts < MaxOtpAttempts
AssertSingleVerifyAttempt(u) == u \notin inFlight
OtpSessionOpen(u) == otp[u].session = "open"
OtpVerificationFresh(u) == otp[u].verification # "none"

\* verifyOtpCode up to the provider call: attempt limit, one verification at a
\* time per phone, an open session and a fresh verification.
VerifyStart(h, u) ==
  /\ At(h, "idle")
  /\ AssertOtpAttemptLimit(u)
  /\ AssertSingleVerifyAttempt(u)
  /\ OtpSessionOpen(u)
  /\ OtpVerificationFresh(u)
  /\ inFlight' = inFlight \cup {u}
  /\ request' = [request EXCEPT ![h] = [Idle EXCEPT !.step = "check", !.user = u]]
  /\ UNCHANGED <<account, otp, token, lockedBy, replayed>>

\* The mark lapses 1.5 s after it was set, whether or not the request is done.
InFlightLapses(u) ==
  /\ u \in inFlight
  /\ inFlight' = inFlight \ {u}
  /\ UNCHANGED <<account, otp, token, lockedBy, replayed, request>>

\* What Twilio Verify, with the mapping of its errors, can answer to a check.
VerificationCheck == {"approved", "refused"}

\* One more refused code (the counter is compared with its limit and no more).
RecordOtpAttempt(n) == IF n < MaxOtpAttempts THEN n + 1 ELSE n

\* The provider is asked unless the latest verification is already approved; a
\* refusal is counted, an approval forgets the attempts and goes on to the tokens.
VerifyCheck(h) ==
  LET u == request[h].user IN
  /\ At(h, "check")
  /\ \E answer \in IF otp[u].verification = "approved" THEN {"approved"}
                   ELSE VerificationCheck :
       \/ /\ answer = "refused"
          /\ otp' = [otp EXCEPT ![u].attempts = RecordOtpAttempt(@)]
          /\ Ends(h)
          /\ ClearVerifyAttempt(h)
       \/ /\ answer = "approved"
          /\ otp' = [otp EXCEPT ![u].attempts = 0]
          /\ AuthGoto(h, "sign_in")
          /\ UNCHANGED <<inFlight, lockedBy>>
  /\ UNCHANGED <<account, token, replayed>>

ApproveVerification(v) == IF v = "pending" THEN "approved" ELSE v

\* The user row is read FOR UPDATE.  Whoever may not sign in is refused and the
\* transaction rolled back, which also undoes the activation of a created account
\* (the check looks at the row as it was read); else the verification is approved.
VerifySignIn(h) ==
  LET u == request[h].user IN
  /\ At(h, "sign_in")
  /\ FreeFor(h, u)
  /\ \/ /\ ~MaySignIn(FindAuthUserByPhone(u))
        /\ Ends(h)
        /\ ClearVerifyAttempt(h)
        /\ UNCHANGED otp
     \/ /\ MaySignIn(FindAuthUserByPhone(u))
        /\ lockedBy' = [lockedBy EXCEPT ![u] = h]
        /\ otp' = [otp EXCEPT ![u].verification = ApproveVerification(@)]
        /\ request' = [request EXCEPT ![h] = [@ EXCEPT !.step = "snapshot",
                                      !.version = account[u].version]]
        /\ UNCHANGED inFlight
  /\ UNCHANGED <<account, token, replayed>>

-----------------------------------------------------------------------------
\* Refresh tokens.

\* A token is presented: its UPDATE waits for a transaction that holds the row.
RefreshStart(h, t) ==
  /\ At(h, "idle")
  /\ token[t].state \in {"live", "revoked"}
  /\ request' = [request EXCEPT ![h] =
       [Idle EXCEPT !.step = "consume", !.user = token[t].user, !.from = t]]
  /\ UNCHANGED <<account, otp, token, lockedBy, inFlight, replayed>>

\* consumeRefreshToken: one UPDATE that revokes the token if it is still live.
ConsumeRefreshToken(h) ==
  LET t == request[h].from IN
  /\ At(h, "consume")
  /\ FreeFor(h, t)
  /\ \/ /\ token[t].state = "live"
        /\ lockedBy' = [lockedBy EXCEPT ![t] = h]
        /\ AuthGoto(h, "load")
     \/ /\ token[t].state # "live"
        /\ AuthGoto(h, "replay")
        /\ UNCHANGED lockedBy
  /\ UNCHANGED <<account, otp, token, inFlight, replayed>>

\* The user is read without a lock.  Refused by the account: rolled back, the token
\* is live again.  Another token_version: committed, the token stays revoked.
RefreshLoad(h) ==
  LET u == request[h].user
      t == request[h].from
  IN
  /\ At(h, "load")
  /\ \/ /\ ~MaySignIn(FindAuthUserById(u))
        /\ Ends(h)
        /\ UNCHANGED token
     \/ /\ MaySignIn(FindAuthUserById(u))
        /\ account[u].version # token[t].version
        /\ Ends(h)
        /\ token' = CommitRevocations(h)
     \/ /\ MaySignIn(FindAuthUserById(u))
        /\ account[u].version = token[t].version
        /\ request' = [request EXCEPT ![h] = [@ EXCEPT !.step = "snapshot",
                                      !.version = account[u].version]]
        /\ UNCHANGED <<token, lockedBy>>
  /\ UNCHANGED <<account, otp, inFlight, replayed>>

\* The row of a token whatever its state, while its grace lasts.
WithinGrace(t) == token[t].state = "revoked"

\* registerRefreshReplay: the second replay of a token is refused.
RegisterRefreshReplay(t) == t \notin replayed

\* A token revoked less than two minutes ago is answered once with the user's live
\* token; nothing is written but the guard.
RefreshReplay(h) ==
  LET u == request[h].user
      t == request[h].from
  IN
  /\ At(h, "replay")
  /\ replayed' = IF /\ WithinGrace(t)
                    /\ MaySignIn(FindAuthUserById(u))
                    /\ account[u].version = token[t].version
                    /\ LiveTokens(u) # {}
                    /\ RegisterRefreshReplay(t)
                 THEN replayed \cup {t} ELSE replayed
  /\ Ends(h)
  /\ UNCHANGED <<account, otp, token, inFlight>>

\* The two minutes after a revocation end, or a live token reaches expires_at.
TokenLapses(t) ==
  /\ token[t].state \in {"live", "revoked"}
  /\ lockedBy[t] = Nobody
  /\ token' = [token EXCEPT ![t].state = "dead"]
  /\ replayed' = replayed \ {t}
  /\ UNCHANGED <<account, otp, lockedBy, inFlight, request>>

\* storeRefreshToken and revokeRefreshTokensForUser begin with an UPDATE of the
\* user's live tokens: the rows it will touch are those committed by now.
RevokeSnapshot(h) ==
  /\ At(h, "snapshot")
  /\ request' = [request EXCEPT ![h] = [@ EXCEPT !.step = "revoke",
                                !.seen = LiveTokens(request[h].user)]]
  /\ UNCHANGED <<account, otp, token, lockedBy, inFlight, replayed>>

\* ... it waits for the locked ones and revokes those that are still live.
RevokeSeen(h) ==
  /\ At(h, "revoke")
  /\ \A t \in request[h].seen : FreeFor(h, t)
  /\ lockedBy' = [x \in Users \cup RefreshTokens |->
       IF x \in request[h].seen /\ token[x].state = "live" THEN h ELSE lockedBy[x]]
  /\ AuthGoto(h, "finish")
  /\ UNCHANGED <<account, otp, token, inFlight, replayed>>

\* Two transactions wait for each other's token rows: PostgreSQL ends one of them
\* with an error, the transaction is rolled back and refreshSession's handler
\* revokes the token that was presented.
WaitsFor(h, g) == /\ At(h, "revoke")
                  /\ \E t \in request[h].seen : lockedBy[t] = g

DeadlockAbort(h) ==
  /\ \E g \in AuthHandlers \ {h} : WaitsFor(h, g) /\ WaitsFor(g, h)
  /\ request[h].from # Nobody
  /\ token' = [token EXCEPT ![request[h].from].state = "revoked"]
  /\ Ends(h)
  /\ UNCHANGED <<account, otp, inFlight, replayed>>

\* The new token is inserted and the transaction commits (verifyOtpCode and
\* refreshSession).
IssueToken(h, n) ==
  /\ At(h, "finish")
  /\ request[h].change = "none"
  /\ token[n].state = "unissued" /\ n = CHOOSE t \in RefreshTokens : token[t].state = "unissued"
  /\ token' = [CommitRevocations(h) EXCEPT ![n] =
       [state |-> "live", user |-> request[h].user, version |-> request[h].version,
        parent |-> request[h].from]]
  /\ Ends(h)
  /\ ClearVerifyAttempt(h)
  /\ UNCHANGED <<account, otp, replayed>>

-----------------------------------------------------------------------------
\* Accounts.

\* createUserAccount: inserted inactive (active is true only in tests).
CreateUser(u) ==
  /\ ~AccountExists(u)
  /\ account' = [account EXCEPT ![u].activity = "created"]
  /\ UNCHANGED <<otp, token, lockedBy, inFlight, replayed, request>>

\* PATCH /users/:id writes the role without looking at lender_id.
AdminUpdateUser(u) ==
  /\ AccountExists(u)
  /\ lockedBy[u] = Nobody
  /\ \E b \in BOOLEAN : account' = [account EXCEPT ![u].bound = b]
  /\ UNCHANGED <<otp, token, lockedBy, inFlight, replayed, request>>

\* The columns setUserActive writes.
SetUserActive(a, active) == [a EXCEPT !.activity = IF active THEN "active" ELSE "disabled"]

\* setUserStatus(active = true) revokes nothing and keeps token_version.
EnableUser(u) ==
  /\ AccountExists(u)
  /\ lockedBy[u] = Nobody
  /\ account' = [account EXCEPT ![u] = SetUserActive(@, TRUE)]
  /\ UNCHANGED <<otp, token, lockedBy, inFlight, replayed, request>>

\* setUserStatus(active = false) and changeUserRole: a transaction that updates the
\* user row, then revokes the user's tokens.
AdministerUser(h, u, change) ==
  /\ At(h, "idle")
  /\ AccountExists(u)
  /\ lockedBy[u] = Nobody
  /\ account[u].version < MaxTokenVersion
  /\ lockedBy' = [lockedBy EXCEPT ![u] = h]
  /\ request' = [request EXCEPT ![h] =
       [Idle EXCEPT !.step = "snapshot", !.user = u, !.change = change]]
  /\ UNCHANGED <<account, otp, token, inFlight, replayed>>

\* Wrong: token_version is left alone.
AdministerKeepingVersion(h) ==
  /\ At(h, "finish")
  /\ request[h].change # "none"
  /\ account' = [account EXCEPT ![request[h].user].activity =
       IF request[h].change = "disabled" THEN "disabled" ELSE @]
  /\ token' = CommitRevocations(h)
  /\ Ends(h)
  /\ UNCHANGED <<otp, inFlight, replayed>>

IncrementTokenVersion(a) == [a EXCEPT !.version = @ + 1]

\* ... and commits: new flags or role, next token_version, tokens revoked.
AdministerCommit(h) ==
  LET u == request[h].user IN
  /\ At(h, "finish")
  /\ request[h].change # "none"
  /\ \/ /\ request[h].change = "disabled"
        /\ account' = [account EXCEPT ![u] = IncrementTokenVersion(SetUserActive(@, FALSE))]
     \/ /\ request[h].change = "role"
        /\ \E b \in BOOLEAN :
             account' = [account EXCEPT ![u] = [IncrementTokenVersion(@) EXCEPT !.bound = b]]
  /\ token' = CommitRevocations(h)
  /\ Ends(h)
  /\ UNCHANGED <<otp, inFlight, replayed>>

AuthNext ==
  \/ \E u \in Users : \/ StartOtp(u) \/ OtpExpires(u) \/ InFlightLapses(u)
                      \/ CreateUser(u) \/ AdminUpdateUser(u) \/ EnableUser(u)
  \/ \E t \in RefreshTokens : TokenLapses(t)
  \/ \E h \in AuthHandlers :
       \/ \E u \in Users : \/ VerifyStart(h, u)
                           \/ \E c \in {"disabled", "role"} : AdministerUser(h, u, c)
       \/ \E t \in RefreshTokens : RefreshStart(h, t) \/ IssueToken(h, t)
       \/ VerifyCheck(h) \/ VerifySignIn(h)
       \/ ConsumeRefreshToken(h) \/ RefreshLoad(h) \/ RefreshReplay(h)
       \/ RevokeSnapshot(h) \/ RevokeSeen(h) \/ DeadlockAbort(h)
       \/ AdministerCommit(h)

AuthSpec == AuthInit /\ [][AuthNext]_authVars

-----------------------------------------------------------------------------
(***************************************************************************)
(* A refresh token is exchanged for at most one new token, however many    *)
(* requests present it at the same time (refreshSession rotates through    *)
(* the UPDATE ... WHERE revoked_at IS NULL of consumeRefreshToken, and the *)
(* answer to a replay issues none).                                        *)
(***************************************************************************)
RotatedOnce ==
  \A t \in RefreshTokens :
    Cardinality({n \in RefreshTokens : token[n].parent = t}) <= 1

(***************************************************************************)
(* A disabled account has no refresh token that would still be accepted    *)
(* once it is enabled again: refreshSession reads the user without a lock  *)
(* and may commit a new token after setUserStatus has revoked the ones it  *)
(* saw, but such a token carries the old token_version.                    *)
(***************************************************************************)
DisabledEndsSessions ==
  \A t \in RefreshTokens :
    token[t].state = "live" /\ account[token[t].user].activity = "disabled"
      => token[t].version # account[token[t].user].version

=============================================================================
