----------------------------- MODULE Office365 -----------------------------
(***************************************************************************)
(* Microsoft 365 for one staff user: the tokens kept in the users row, the  *)
(* Graph calls made with them, and the tasks mirrored to Microsoft To-Do.   *)
(*                                                                          *)
(* Tokens are numbered in the order of issue and lapse in that order; an    *)
(* expiry column holds the number of the token whose lifetime was written   *)
(* into it, 0 for null.  The users row has two of them: getGraphForUser     *)
(* reads the current one and renews the token when it is past, the calendar *)
(* reads the older one and does without Graph when it is past.  Requests of *)
(* several tabs interleave between their database and Graph calls.  A       *)
(* request that Graph reports as failed may have been carried out.          *)
(***************************************************************************)
EXTENDS Integers

CONSTANTS Tabs,       \* requests under way at the same time
          CalTasks,   \* ids of calendar_tasks rows
          MaxIssued   \* bound: access tokens issued

ASSUME OfficeAssumption == MaxIssued \in Nat

VARIABLES o365,     \* users: o365_access_token, _refresh_token, both expiry columns
          issued, lapsed, \* tokens issued so far; how many of them have lapsed
          calTask,  \* calendar_tasks
          todo,     \* the user's To-Do list: the item made for a task
          everLinked,   \* tasks whose o365_task_id was written at some time
          spared,   \* deleted tasks whose item Graph was not made to delete
          desk      \* the request of a tab; acted: how often Graph carried it out

officeVars == <<o365, issued, lapsed, calTask, todo, everLinked, spared, desk>>

Unborn == [status |-> "unborn", link |-> FALSE]
Gone == [status |-> "gone", link |-> FALSE]
TaskStatus == {"open", "done"}
TaskRows == [status : TaskStatus, link : BOOLEAN]
InTable(t) == calTask[t] \in TaskRows

\* Requests that go through getGraphForUser: a CRM task, a CRM meeting, a CRM
\* e-mail, and the /o365 routes, which keep no row.
GraphKinds == {"task", "meeting", "email", "direct"}
Free == [at |-> "idle", kind |-> "none", token |-> 0, canRefresh |-> FALSE, ok |-> "idle", no |-> "idle",
         task |-> "none", copy |-> Unborn, acted |-> 0]

OfficeTypeOK ==
    /\ o365 \in [access : 0 .. MaxIssued, refresh : BOOLEAN, current : 0 .. MaxIssued, legacy : 0 .. MaxIssued]
    /\ issued \in 0 .. MaxIssued /\ lapsed \in 0 .. issued
    /\ calTask \in [CalTasks -> TaskRows \cup {Unborn, Gone}]
    /\ todo \in [CalTasks -> TaskStatus \cup {"absent"}]
    /\ everLinked \subseteq CalTasks /\ spared \subseteq CalTasks
    /\ \A h \in Tabs : desk[h].kind \in GraphKinds \cup {"none", "status", "refresh", "calendar"}

OfficeInit ==
    /\ o365 = [access |-> 0, refresh |-> FALSE, current |-> 0, legacy |-> 0]
    /\ issued = 0 /\ lapsed = 0
    /\ calTask = [t \in CalTasks |-> Unborn]
    /\ todo = [t \in CalTasks |-> "absent"]
    /\ everLinked = {} /\ spared = {}
    /\ desk = [h \in Tabs |-> Free]

Goes(h, at) ==
    desk' = [desk EXCEPT ![h] = IF at = "idle" THEN Free ELSE [@ EXCEPT !.at = at, !.ok = "idle", !.no = "idle"]]
TokensStay == UNCHANGED <<o365, issued, lapsed>>
TasksStay == UNCHANGED <<calTask, todo, everLinked, spared>>

\* "Past" stands for: less than the margin is left, 60 s here, 5 min in the calendar.
Past(column) == column = 0 \/ column <= lapsed

Lapse ==
    /\ lapsed < issued /\ lapsed' = lapsed + 1
    /\ UNCHANGED <<o365, issued, desk>> /\ TasksStay

-----------------------------------------------------------------------------
(* The token routes.                                                         *)

\* POST /o365-tokens: the browser's new token, its expiry if the body has one.
SaveTokens ==
    /\ issued < MaxIssued /\ issued' = issued + 1
    /\ \E known \in BOOLEAN, refresh \in BOOLEAN :
           o365' = [access |-> issued', refresh |-> o365.refresh \/ refresh,
                    current |-> IF known THEN issued' ELSE 0, legacy |-> IF known THEN issued' ELSE 0]
    /\ UNCHANGED <<lapsed, desk>> /\ TasksStay

\* POST /microsoft: a token Graph accepts, taken to be good for an hour from now.
ConnectMicrosoft ==
    /\ issued < MaxIssued /\ issued' = issued + 1
    /\ \E token \in (lapsed + 1) .. issued' :
           o365' = [o365 EXCEPT !.access = token, !.current = issued', !.legacy = issued']
    /\ UNCHANGED <<lapsed, desk>> /\ TasksStay

\* GET /o365-status: an expired token is renewed.
ReadStatus(h) ==
    /\ desk[h].at = "idle"
    /\ o365.access # 0 /\ Past(o365.current) /\ o365.refresh
    /\ desk' = [desk EXCEPT ![h] = [Free EXCEPT !.at = "renew", !.kind = "status"]]
    /\ TokensStay /\ TasksStay

\* POST /o365-refresh
ReadRefreshToken(h) ==
    /\ desk[h].at = "idle" /\ o365.refresh
    /\ desk' = [desk EXCEPT ![h] = [Free EXCEPT !.at = "renew", !.kind = "refresh"]]
    /\ TokensStay /\ TasksStay

RefreshAccessToken(h) ==
    /\ desk[h].at = "renew"
    /\ \/ /\ issued < MaxIssued /\ issued' = issued + 1
          /\ desk' = [desk EXCEPT ![h] = [@ EXCEPT !.token = issued', !.at = "persist"]]
       \/ Goes(h, desk[h].no) /\ UNCHANGED issued
    /\ UNCHANGED <<o365, lapsed>> /\ TasksStay

\* The refresh token is replaced or kept: it was there, and nothing clears it.
\* POST /o365-refresh writes one expiry column, the others write both.
PersistRefreshedToken(h) ==
    /\ desk[h].at = "persist"
    /\ o365' = [o365 EXCEPT !.access = desk[h].token, !.current = desk[h].token,
                            !.legacy = IF desk[h].kind = "refresh" THEN @ ELSE desk[h].token]
    /\ Goes(h, desk[h].ok)
    /\ UNCHANGED <<issued, lapsed>> /\ TasksStay

-----------------------------------------------------------------------------
(* Requests through getGraphForUser.                                         *)

\* A task first asks for the user's lists, an e-mail for the user's address,
\* also on the /o365 routes; a meeting or an event is made at once.
FirstFetch(kind) ==
    CASE kind \in {"task", "email"} -> {"look"}
      [] kind = "meeting" -> {"act"}
      [] kind = "direct" -> {"look", "act"}

\* Without a token tasks and meetings are only stored; the others are refused.
WithoutGraph(kind) == IF kind \in {"task", "meeting"} THEN "store" ELSE "idle"

GetGraphForUser(h) ==
    \E kind \in GraphKinds : \E first \in FirstFetch(kind) :
        /\ desk[h].at = "idle"
        /\ LET at == CASE o365.access = 0 -> WithoutGraph(kind)
                      [] o365.access # 0 /\ Past(o365.current) /\ o365.refresh -> "renew"
                      [] OTHER -> first
           IN desk' = [desk EXCEPT ![h] = IF at = "idle" THEN Free ELSE
                         [Free EXCEPT !.at = at, !.kind = kind, !.token = o365.access,
                                      !.canRefresh = o365.refresh, !.ok = first, !.no = first]]
        /\ TokensStay /\ TasksStay

\* What the handler does after its last fetch.
AfterFetch(h, worked) ==
    CASE desk[h].kind = "email" -> (IF worked THEN "store" ELSE "idle")
      [] desk[h].kind = "direct" -> "idle"
      [] OTHER -> "store"

\* graphFetch tries again after a 401 only, once, and only with a refresh token.
TriesAgain(h, answer) == answer = "401"

\* Graph answers 401 to a token that has lapsed or was revoked.
Answers(h) == {"401", "failed"} \cup IF desk[h].token > lapsed THEN {"ok"} ELSE {}

RetryFetch(h, again, no, times) ==
    desk' = [desk EXCEPT ![h] = [@ EXCEPT !.at = "renew", !.ok = again, !.no = no, !.acted = times]]

\* The fetch that only reads.
LookFetch(h) ==
    /\ desk[h].at \in {"look", "lookAgain"}
    /\ \E answer \in Answers(h) :
           IF desk[h].at = "look" /\ desk[h].canRefresh /\ TriesAgain(h, answer)
             THEN RetryFetch(h, "lookAgain", "unknown", 0)
             ELSE Goes(h, IF answer = "ok" THEN "act" ELSE "unknown")
    /\ TokensStay /\ TasksStay

\* Without lists a CRM task is stored unlinked and a To-Do request refused;
\* an e-mail of an unknown sender may still come from a shared mailbox.
LookFailed(h) ==
    /\ desk[h].at = "unknown"
    /\ \/ desk[h].kind = "task" /\ Goes(h, "store")
       \/ desk[h].kind # "task" /\ (Goes(h, "act") \/ Goes(h, "idle"))
    /\ TokensStay /\ TasksStay

\* The fetch that sends the mail or makes the item.
ActFetch(h) ==
    /\ desk[h].at \in {"act", "actAgain"}
    /\ \E answer \in Answers(h), more \in 0 .. 1 :
           /\ answer = "ok" => more = 1
           /\ answer = "401" => more = 0
           /\ LET times == desk[h].acted + more
                  then == AfterFetch(h, answer = "ok")
              IN  IF desk[h].at = "act" /\ desk[h].canRefresh /\ TriesAgain(h, answer)
                    THEN RetryFetch(h, "actAgain", AfterFetch(h, FALSE), times)
                    ELSE desk' = [desk EXCEPT ![h] = IF then = "idle" THEN Free
                                                     ELSE [@ EXCEPT !.at = then, !.acted = times]]
    /\ TokensStay /\ TasksStay

\* INSERT INTO crm_tasks, crm_meetings or crm_email_log; it may fail.
StoreActivity(h) ==
    /\ desk[h].at = "store" /\ Goes(h, "idle")
    /\ TokensStay /\ TasksStay

-----------------------------------------------------------------------------
(* The calendar's own tasks: the row first, then To-Do, with the token that   *)
(* is there and without renewing it.                                          *)

GetO365Token == o365.access # 0 /\ (o365.legacy = 0 \/ ~Past(o365.legacy))

TaskRequest(h, t, at) ==
    desk' = [desk EXCEPT ![h] = [Free EXCEPT !.at = at, !.kind = "calendar", !.task = t, !.copy = calTask'[t]]]

CreateTask(h) ==
    \E t \in CalTasks, status \in TaskStatus :
        /\ desk[h].at = "idle" /\ calTask[t] = Unborn
        /\ calTask' = [calTask EXCEPT ![t] = [status |-> status, link |-> FALSE]]
        /\ TaskRequest(h, t, "mirror")
        /\ UNCHANGED <<todo, everLinked, spared>> /\ TokensStay

\* An item whose answer is lost stays unlinked.
MirrorTask(h) ==
    LET made == [todo EXCEPT ![desk[h].task] = desk[h].copy.status]
    IN  /\ desk[h].at = "mirror"
        /\ \/ GetO365Token /\ o365.access > lapsed /\ todo' = made /\ Goes(h, "link")
           \/ GetO365Token /\ todo' \in {todo, made} /\ Goes(h, "idle")
           \/ ~GetO365Token /\ UNCHANGED todo /\ Goes(h, "idle")
        /\ UNCHANGED <<calTask, everLinked, spared>> /\ TokensStay

\* The UPDATE may find the row deleted, or fail.
LinkTask(h) ==
    /\ desk[h].at = "link" /\ Goes(h, "idle")
    /\ \/ /\ InTable(desk[h].task)
          /\ calTask' = [calTask EXCEPT ![desk[h].task].link = TRUE]
          /\ everLinked' = everLinked \cup {desk[h].task}
       \/ UNCHANGED <<calTask, everLinked>>
    /\ UNCHANGED <<todo, spared>> /\ TokensStay

ReadTask(h) ==
    \E t \in CalTasks :
        /\ desk[h].at = "idle" /\ InTable(t)
        /\ UNCHANGED calTask /\ TaskRequest(h, t, "update")
        /\ UNCHANGED <<todo, everLinked, spared>> /\ TokensStay

\* Mutant: every column is written back, the link too.
WholeRow(row, copy, status) == [status |-> status, link |-> copy.link]

\* Only the columns of the body are written.
ChangedColumns(row, copy, status) == [row EXCEPT !.status = status]

\* A row deleted in the meantime ends the request with an error.
UpdateTask(h) ==
    LET t == desk[h].task
    IN  /\ desk[h].at = "update"
        /\ \/ /\ ~InTable(t) /\ Goes(h, "idle") /\ UNCHANGED calTask
           \/ \E status \in TaskStatus :
                  /\ InTable(t)
                  /\ calTask' = [calTask EXCEPT ![t] = ChangedColumns(@, desk[h].copy, status)]
                  /\ desk' = [desk EXCEPT ![h] = IF calTask'[t].link
                                                   THEN [@ EXCEPT !.at = "push", !.copy = calTask'[t]] ELSE Free]
        /\ UNCHANGED <<todo, everLinked, spared>> /\ TokensStay

PushTask(h) ==
    LET t == desk[h].task
    IN  /\ desk[h].at = "push" /\ Goes(h, "idle")
        /\ \/ /\ GetO365Token /\ o365.access > lapsed /\ todo[t] # "absent"
              /\ todo' = [todo EXCEPT ![t] = desk[h].copy.status]
           \/ UNCHANGED todo
        /\ UNCHANGED <<calTask, everLinked, spared>> /\ TokensStay

\* DELETE ... RETURNING o365_task_id
DeleteTask(h) ==
    \E t \in CalTasks :
        /\ desk[h].at = "idle" /\ InTable(t)
        /\ calTask' = [calTask EXCEPT ![t] = Gone]
        /\ desk' = [desk EXCEPT ![h] = IF calTask[t].link
                      THEN [Free EXCEPT !.at = "unmirror", !.kind = "calendar", !.task = t] ELSE Free]
        /\ UNCHANGED <<todo, everLinked, spared>> /\ TokensStay

UnmirrorTask(h) ==
    LET t == desk[h].task
        removed == [todo EXCEPT ![t] = "absent"]
    IN  /\ desk[h].at = "unmirror" /\ Goes(h, "idle")
        /\ \/ GetO365Token /\ o365.access > lapsed /\ todo' = removed /\ UNCHANGED spared
           \/ /\ todo' \in {todo} \cup IF GetO365Token THEN {removed} ELSE {}
              /\ spared' = spared \cup {t}
        /\ UNCHANGED <<calTask, everLinked>> /\ TokensStay

-----------------------------------------------------------------------------
OfficeNext ==
    \/ Lapse \/ SaveTokens \/ ConnectMicrosoft
    \/ \E h \in Tabs :
           \/ ReadStatus(h) \/ ReadRefreshToken(h) \/ RefreshAccessToken(h) \/ PersistRefreshedToken(h)
           \/ GetGraphForUser(h) \/ LookFetch(h) \/ LookFailed(h) \/ ActFetch(h) \/ StoreActivity(h)
           \/ CreateTask(h) \/ MirrorTask(h) \/ LinkTask(h)
           \/ ReadTask(h) \/ UpdateTask(h) \/ PushTask(h)
           \/ DeleteTask(h) \/ UnmirrorTask(h)

OfficeSpec == OfficeInit /\ [][OfficeNext]_officeVars

-----------------------------------------------------------------------------
(* Properties.                                                               *)

\* Trying a Graph call again never sends a mail or makes an item twice, though
\* a failed call may have been carried out; and an e-mail is logged only when
\* it was sent (graphFetch, crm/emails.ts).
ActedOnce ==
    \A h \in Tabs :
        /\ desk[h].acted <= 1
        /\ desk[h].at = "store" /\ desk[h].kind = "email" => desk[h].acted = 1

\* However edits, deletions and the late link of a new task interleave, the
\* To-Do item of a task that was ever linked goes with the task, unless Graph could
\* not be made to delete it.
TodoFollowsTask ==
    \A t \in everLinked :
        calTask[t] = Gone /\ todo[t] # "absent" =>
            t \in spared \/ \E h \in Tabs : desk[h].at = "unmirror" /\ desk[h].task = t

\* "keep both expiry columns in sync" (routes/o365Tokens.ts): both columns
\* tell the same expiry of the stored token.
ExpiryColumnsAgree == o365.current = o365.legacy
=============================================================================
