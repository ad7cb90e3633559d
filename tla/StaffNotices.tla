------------------------------ MODULE StaffNotices -----------------------------
(* Notes of contacts, companies and applications, the people they mention, and *)
(* the in-app notifications of staff.  Creating or editing a note resolves the *)
(* @mentions, saves the note and then notifies, one insert after the other and *)
(* errors swallowed, everybody who is newly mentioned; an edit reads the       *)
(* earlier mentions in a statement before the one that saves.  Website forms   *)
(* notify all active staff in the same table.                                  *)
EXTENDS FiniteSets

CONSTANTS Staff, NoteIds, Leads,
          NoteHandlers    \* note requests and website forms in flight

VARIABLES note,         \* NoteIds -> [state, mentions]
          writer,       \* NoteHandlers -> pc, note or lead, mentions wanted and read before, still to notify
          inbox,        \* <<staff, note or lead>> -> "none", "unread" or "read"
          unnotified    \* ghost: <<staff, note>> whose notification failed or died

noticeVars == <<note, writer, inbox, unnotified>>

Refs == NoteIds \cup Leads
IdleWriter == [pc |-> "idle", ref |-> "none", wanted |-> {}, previous |-> {}, todo |-> {}]

NoticeTypeOK ==
  /\ note \in [NoteIds -> [state : {"absent", "live", "deleted"}, mentions : SUBSET Staff]]
  /\ writer \in [NoteHandlers -> [pc : {"idle", "create", "save", "notify"}, ref : Refs \cup {"none"},
                                  wanted : SUBSET Staff, previous : SUBSET Staff, todo : SUBSET Staff]]
  /\ inbox \in [Staff \X Refs -> {"none", "unread", "read"}]
  /\ unnotified \subseteq Staff \X NoteIds

NoticeInit ==
  /\ note = [n \in NoteIds |-> [state |-> "absent", mentions |-> {}]]
  /\ writer = [h \in NoteHandlers |-> IdleWriter]
  /\ inbox = [x \in Staff \X Refs |-> "none"]
  /\ unnotified = {}

(* parseAndResolveMentions: the users named in the text, or nobody when the    *)
(* query fails.                                                                *)
ResolvedMentions(named) == {named, {}}

(* diffMentions.                                                               *)
DiffMentions(new, previous) == new \ previous

Notify(h, targets) ==
  writer' = [writer EXCEPT ![h] = IF targets = {} THEN IdleWriter
                                  ELSE [@ EXCEPT !.pc = "notify", !.todo = targets]]

Busy(n) == \E h \in NoteHandlers : writer[h].ref = n /\ writer[h].pc = "create"

(* POST of a note.                                                             *)
CreateNote(h, n, named) ==
  /\ writer[h].pc = "idle" /\ note[n].state = "absent" /\ ~Busy(n)
  /\ \E mentions \in ResolvedMentions(named) :
       writer' = [writer EXCEPT ![h] = [pc |-> "create", ref |-> n, wanted |-> mentions,
                                        previous |-> {}, todo |-> {}]]
  /\ UNCHANGED <<note, inbox, unnotified>>

InsertNote(h) ==
  LET n == writer[h].ref
  IN  /\ writer[h].pc = "create"
      /\ note' = [note EXCEPT ![n] = [state |-> "live", mentions |-> writer[h].wanted]]
      /\ Notify(h, writer[h].wanted)
      /\ UNCHANGED <<inbox, unnotified>>

(* PATCH of a note, first statement: the earlier mentions.                     *)
EditNote(h, n, named) ==
  /\ writer[h].pc = "idle" /\ note[n].state = "live"
  /\ \E mentions \in ResolvedMentions(named) :
       writer' = [writer EXCEPT ![h] = [pc |-> "save", ref |-> n, wanted |-> mentions,
                                        previous |-> note[n].mentions, todo |-> {}]]
  /\ UNCHANGED <<note, inbox, unnotified>>

\* Mutant: the earlier mentions are read after the note is saved.
SaveThenRead(h) ==
  LET n == writer[h].ref
  IN  /\ writer[h].pc = "save"
      /\ note' = [note EXCEPT ![n].mentions = writer[h].wanted]
      /\ Notify(h, DiffMentions(writer[h].wanted, note'[n].mentions))
      /\ UNCHANGED <<inbox, unnotified>>

(* Second statement: saved unless the note was deleted meanwhile (404), then   *)
(* the newly mentioned are notified.                                           *)
SaveNote(h) ==
  LET n == writer[h].ref
  IN  /\ writer[h].pc = "save"
      /\ \/ /\ note[n].state = "live"
            /\ note' = [note EXCEPT ![n].mentions = writer[h].wanted]
            /\ Notify(h, DiffMentions(writer[h].wanted, writer[h].previous))
         \/ /\ note[n].state # "live"
            /\ writer' = [writer EXCEPT ![h] = IdleWriter]
            /\ UNCHANGED note
      /\ UNCHANGED <<inbox, unnotified>>

DeleteNote(n) ==
  /\ note[n].state = "live"
  /\ note' = [note EXCEPT ![n].state = "deleted"]
  /\ UNCHANGED <<writer, inbox, unnotified>>

(* submitContactForm and submitCreditReadiness end in notifyAllStaff: whoever  *)
(* is active when the list is read.                                            *)
NotifyAllStaff(h, l, active) ==
  /\ writer[h].pc = "idle" /\ active # {}
  /\ writer' = [writer EXCEPT ![h] = [pc |-> "notify", ref |-> l, wanted |-> {},
                                      previous |-> {}, todo |-> active]]
  /\ UNCHANGED <<note, inbox, unnotified>>

(* One insert of notifyMentions or notifyAllStaff: at most one row per person, *)
(* type and record, a second is ignored; an error is swallowed and the next    *)
(* person follows.                                                             *)
InsertNotification(h, u) ==
  LET x == <<u, writer[h].ref>>
  IN  /\ writer[h].pc = "notify" /\ u \in writer[h].todo
      /\ Notify(h, writer[h].todo \ {u})
      /\ \/ /\ inbox' = [inbox EXCEPT ![x] = IF @ = "none" THEN "unread" ELSE @]
            /\ UNCHANGED unnotified
         \/ unnotified' = unnotified \cup ({x} \cap (Staff \X NoteIds)) /\ UNCHANGED inbox
      /\ UNCHANGED note

(* The process dies with people still to notify.                               *)
WriterDies(h) ==
  /\ writer[h].pc # "idle"
  /\ writer' = [writer EXCEPT ![h] = IdleWriter]
  /\ unnotified' = unnotified \cup (writer[h].todo \X ({writer[h].ref} \cap NoteIds))
  /\ UNCHANGED <<note, inbox>>

(* POST /notifications/:id/read and /read-all: the own, unread ones.           *)
MarkRead(u, ref) ==
  /\ inbox[<<u, ref>>] = "unread"
  /\ inbox' = [inbox EXCEPT ![<<u, ref>>] = "read"]
  /\ UNCHANGED <<note, writer, unnotified>>

MarkAllRead(u) ==
  /\ \E ref \in Refs : inbox[<<u, ref>>] = "unread"
  /\ inbox' = [x \in Staff \X Refs |-> IF x[1] = u /\ inbox[x] = "unread" THEN "read" ELSE inbox[x]]
  /\ UNCHANGED <<note, writer, unnotified>>

NoticeNext ==
  \/ \E h \in NoteHandlers :
       \/ \E n \in NoteIds, named \in SUBSET Staff : CreateNote(h, n, named) \/ EditNote(h, n, named)
       \/ InsertNote(h) \/ SaveNote(h) \/ WriterDies(h)
       \/ \E l \in Leads, active \in SUBSET Staff : NotifyAllStaff(h, l, active)
       \/ \E u \in Staff : InsertNotification(h, u)
  \/ \E n \in NoteIds : DeleteNote(n)
  \/ \E u \in Staff : \/ \E ref \in Refs : MarkRead(u, ref)
                      \/ MarkAllRead(u)

NoticeSpec == NoticeInit /\ [][NoticeNext]_noticeVars

(* Everybody a stored note mentions has been notified of it, or is about to    *)
(* be by a request still running, or lost the notification to an error or a    *)
(* crash: edits that overlap, each comparing with what it read before the      *)
(* other saved, never pass somebody over (notifyMentions).                     *)
MentionedIsNotified ==
  \A n \in NoteIds : \A u \in note[n].mentions :
    \/ inbox[<<u, n>>] # "none"
    \/ <<u, n>> \in unnotified
    \/ \E h \in NoteHandlers : writer[h].ref = n /\ u \in writer[h].todo

================================================================================
