--------------------------- MODULE MessageEvents ---------------------------
(***************************************************************************)
(* The webhook collect_message_event of api.py, for the events of one      *)
(* delivery row.  A post is one HTTP call, handled by a thread with one    *)
(* PostgreSQL transaction (READ COMMITTED) of up to four statements: read  *)
(* the delivery row, insert the event under its event_key ON CONFLICT DO   *)
(* NOTHING, update the delivery row, commit.  Providers resend: any number *)
(* of posts may carry the same notification, in any order.                 *)
(*                                                                         *)
(* The event_key is computed from the row as the first statement read it;  *)
(* the update works on the row as it is when the row lock is granted.      *)
(* Distinct deliveries share nothing, a message id names one delivery, and *)
(* the provider in the URL is fixed.                                       *)
(***************************************************************************)
EXTENDS Naturals, Sequences

CONSTANTS
  Posts,        \* HTTP calls
  Notices,      \* the notifications of the provider about this delivery
  MessageIds,   \* provider_message_id values
  EventIds,     \* provider_event_id values
  Times,        \* what event_at, click_url and conversion_type tell apart
  AssignedIds,  \* provider_message_id of the row as the assignment wrote it
  OwnId,        \* "delivery:<delivery_id>", the key's id when there is no other
  None

EventTypes == {"send_requested", "sent", "delivered", "bounce", "failed",
               "impression", "open", "click", "conversion", "unsubscribe"}

Rows == [pmid : MessageIds \cup {None}, requestedAt : Times \cup {None},
         sentAt : Times \cup {None},
         status : {"assigned", "requested", "sent", "delivered", "bounced", "failed"}]

ASSUME NoticesAssumption ==
  \A n \in Notices :
    /\ n \in [event : EventTypes, at : Times, pmid : MessageIds \cup {None},
              eventId : EventIds \cup {None}, named : {"delivery", "pmid"}]
    /\ n.named = "pmid" => n.pmid # None

ASSUME ValuesAssumption ==
  /\ AssignedIds \subseteq MessageIds \cup {None}
  /\ OwnId \notin MessageIds
  /\ None \notin MessageIds \cup EventIds \cup Times \cup Notices \cup Rows \cup {OwnId}
  /\ None \notin {"stored", "duplicate"}

VARIABLES
  row,       \* committed campaign_message_deliveries row
  events,    \* committed campaign_message_events rows, in commit order
  notice,    \* body of each post, None before it arrives
  pc,        \* the statement a post is about to execute
  key,       \* event_key it computed
  inserted,  \* has the open transaction inserted the event row?
  written,   \* the version of the delivery row it has written (and locked), or None
  outcome    \* None or the answer

vars == <<row, events, notice, pc, key, inserted, written, outcome>>

Keys == [id : MessageIds \cup {OwnId}, event : EventTypes, mark : EventIds \cup Times]

InTransaction(p) == pc[p] \in {"lookup", "insert", "update", "commit"}

TypeOK ==
  /\ row \in Rows
  /\ events \in Seq([key : Keys, notice : Notices])
  /\ notice \in [Posts -> Notices \cup {None}]
  /\ pc \in [Posts -> {"idle", "lookup", "insert", "update", "commit", "done"}]
  /\ key \in [Posts -> Keys \cup {None}]
  /\ inserted \in [Posts -> BOOLEAN]
  /\ written \in [Posts -> Rows \cup {None}]
  /\ outcome \in [Posts -> {None, "not_found", "stored", "duplicate", "error"}]

Init ==
  /\ row \in {[pmid |-> id, requestedAt |-> None, sentAt |-> None,
               status |-> "assigned"] : id \in AssignedIds}
  /\ events = <<>>
  /\ notice = [p \in Posts |-> None]
  /\ pc = [p \in Posts |-> "idle"]
  /\ key = [p \in Posts |-> None]
  /\ inserted = [p \in Posts |-> FALSE]
  /\ written = [p \in Posts |-> None]
  /\ outcome = [p \in Posts |-> None]

(***************************************************************************)
(* The event key and the update of the delivery row.                       *)
(***************************************************************************)

\* COALESCE(old, new), with the row's value first.
Coalesce(old, new) == IF old # None THEN old ELSE new

\* Mutant of MessageKey: no "delivery:<id>" when neither side has a message id.
KeyWithoutOwnId(n) ==
  [id    |-> Coalesce(n.pmid, row.pmid),
   event |-> n.event,
   mark  |-> Coalesce(n.eventId, n.at)]

\* Mutant of MessageKey: the id of the row before the id of the request.
KeyWithRowFirst(n) ==
  [id    |-> Coalesce(row.pmid, Coalesce(n.pmid, OwnId)),
   event |-> n.event,
   mark  |-> Coalesce(n.eventId, n.at)]

\* The id is the request's, else the row's, else the delivery's own; a missing
\* provider_event_id is replaced by a hash of the notification.
MessageKey(n) ==
  [id    |-> Coalesce(n.pmid, Coalesce(row.pmid, OwnId)),
   event |-> n.event,
   mark  |-> Coalesce(n.eventId, n.at)]

StatusOf == [send_requested |-> "requested", sent |-> "sent",
             delivered |-> "delivered", bounce |-> "bounced", failed |-> "failed"]

\* Other events write the row only to fill in its message id.
UpdatesRow(n) == n.event \in DOMAIN StatusOf \/ n.pmid # None

\* Mutant of Updated: the latest time and message id win instead of the first.
UpdatedLastWins(old, n) ==
  [pmid        |-> Coalesce(n.pmid, old.pmid),
   requestedAt |-> IF n.event = "send_requested" THEN n.at ELSE old.requestedAt,
   sentAt      |-> IF n.event = "sent" THEN n.at ELSE old.sentAt,
   status      |-> IF n.event \in DOMAIN StatusOf THEN StatusOf[n.event] ELSE old.status]

Updated(old, n) ==
  [pmid        |-> Coalesce(old.pmid, n.pmid),
   requestedAt |-> IF n.event = "send_requested" THEN Coalesce(old.requestedAt, n.at)
                   ELSE old.requestedAt,
   sentAt      |-> IF n.event = "sent" THEN Coalesce(old.sentAt, n.at) ELSE old.sentAt,
   status      |-> IF n.event \in DOMAIN StatusOf THEN StatusOf[n.event] ELSE old.status]

(***************************************************************************)
(* PostgreSQL: who blocks the statement a post is about to execute.        *)
(***************************************************************************)

\* Mutant of WaitsFor: the insert keeps a lock on the delivery row that the
\* update of another transaction conflicts with, and nobody detects the cycle.
WaitsForEveryInserter(p) ==
  {q \in Posts \ {p} :
     \/ pc[p] = "insert" /\ inserted[q] /\ key[q] = key[p]
     \/ pc[p] = "update" /\ inserted[q]}

\* An INSERT waits for an open inserter of the same key, an UPDATE for the
\* holder of the row lock.
WaitsFor(p) ==
  {q \in Posts \ {p} :
     \/ pc[p] = "insert" /\ inserted[q] /\ key[q] = key[p]
     \/ pc[p] = "update" /\ written[q] # None}

StoredKeys == {events[i].key : i \in DOMAIN events}

(***************************************************************************)
(* The statements of the handler.                                          *)
(***************************************************************************)

\* The connection block ends by an exception: rollback, nothing is kept.
Rollback(p, why) ==
  /\ pc' = [pc EXCEPT ![p] = "done"]
  /\ inserted' = [inserted EXCEPT ![p] = FALSE]
  /\ written' = [written EXCEPT ![p] = None]
  /\ outcome' = [outcome EXCEPT ![p] = why]
  /\ UNCHANGED <<row, events, notice, key>>

Arrive(p, n) ==
  /\ pc[p] = "idle"
  /\ notice' = [notice EXCEPT ![p] = n]
  /\ pc' = [pc EXCEPT ![p] = "lookup"]
  /\ UNCHANGED <<row, events, key, inserted, written, outcome>>

\* Find the row by delivery_id or by message id; then the key is computed.
Lookup(p) ==
  /\ pc[p] = "lookup"
  /\ LET n == notice[p]
         found == n.named = "delivery" \/ n.pmid = row.pmid IN
       \/ /\ found
          /\ key' = [key EXCEPT ![p] = MessageKey(n)]
          /\ pc' = [pc EXCEPT ![p] = "insert"]
          /\ UNCHANGED <<row, events, notice, inserted, written, outcome>>
       \/ ~found /\ Rollback(p, "not_found")

\* Mutant of InsertEvent: an insert that is still open counts as a conflict.
InsertEventWithoutWaiting(p) ==
  /\ pc[p] = "insert"
  /\ inserted' = [inserted EXCEPT ![p] =
       key[p] \notin StoredKeys \cup {key[q] : q \in {q \in Posts : inserted[q]}}]
  /\ pc' = [pc EXCEPT ![p] = IF inserted'[p] /\ UpdatesRow(notice[p])
                            THEN "update" ELSE "commit"]
  /\ UNCHANGED <<row, events, notice, key, written, outcome>>

\* Mutant of InsertEvent: the row is updated for a duplicate as well.
InsertEventUpdateAlways(p) ==
  /\ pc[p] = "insert"
  /\ WaitsFor(p) = {}
  /\ inserted' = [inserted EXCEPT ![p] = key[p] \notin StoredKeys]
  /\ pc' = [pc EXCEPT ![p] = IF UpdatesRow(notice[p]) THEN "update" ELSE "commit"]
  /\ UNCHANGED <<row, events, notice, key, written, outcome>>

\* INSERT ... ON CONFLICT (event_key) DO NOTHING; on a conflict the handler
\* writes nothing more and answers isDuplicate.
InsertEvent(p) ==
  /\ pc[p] = "insert"
  /\ WaitsFor(p) = {}
  /\ inserted' = [inserted EXCEPT ![p] = key[p] \notin StoredKeys]
  /\ pc' = [pc EXCEPT ![p] = IF inserted'[p] /\ UpdatesRow(notice[p])
                            THEN "update" ELSE "commit"]
  /\ UNCHANGED <<row, events, notice, key, written, outcome>>

UpdateDelivery(p) ==
  /\ pc[p] = "update"
  /\ WaitsFor(p) = {}
  /\ written' = [written EXCEPT ![p] = Updated(row, notice[p])]
  /\ pc' = [pc EXCEPT ![p] = "commit"]
  /\ UNCHANGED <<row, events, notice, key, inserted, outcome>>

Commit(p) ==
  /\ pc[p] = "commit"
  /\ events' = IF inserted[p] THEN Append(events, [key |-> key[p], notice |-> notice[p]])
               ELSE events
  /\ row' = Coalesce(written[p], row)
  /\ pc' = [pc EXCEPT ![p] = "done"]
  /\ inserted' = [inserted EXCEPT ![p] = FALSE]
  /\ written' = [written EXCEPT ![p] = None]
  /\ outcome' = [outcome EXCEPT ![p] = IF inserted[p] THEN "stored" ELSE "duplicate"]
  /\ UNCHANGED <<notice, key>>

\* A lost connection, a dead process, a rejected value: 500 or no answer.
Fail(p) ==
  /\ InTransaction(p)
  /\ Rollback(p, "error")

Statement(p) == Lookup(p) \/ InsertEvent(p) \/ UpdateDelivery(p) \/ Commit(p)

Next ==
  \E p \in Posts :
    \/ \E n \in Notices : Arrive(p, n)
    \/ Statement(p)
    \/ Fail(p)

Spec == Init /\ [][Next]_vars

\* A handler thread goes on executing its statements.
FairSpec == Spec /\ \A p \in Posts : WF_vars(Statement(p))

(***************************************************************************)
(* Properties.                                                             *)
(***************************************************************************)

\* No accepted event is lost or half applied: the two tables change together,
\* by one new event whose key was not stored, and the delivery row becomes what
\* this event makes of the row as it was just before, whatever other posts
\* committed between the handler's read of the row and its update.
EventAndRowTogether ==
  [][\E p \in Posts : LET n == notice[p] IN
       /\ key[p] \notin StoredKeys
       /\ events' = Append(events, [key |-> key[p], notice |-> n])
       /\ row' = IF UpdatesRow(n) THEN Updated(row, n) ELSE row]_<<row, events>>

\* The event log deduplicates what the provider identifies itself: whatever is
\* resent, and however the resends interleave with each other and with other
\* events of the delivery, a notification with a message id is stored once.
IdentifiedNoticeStoredOnce ==
  \A i, j \in DOMAIN events :
    events[i].notice = events[j].notice /\ events[i].notice.pmid # None => i = j

\* A provider stops resending after a successful answer, so a successful answer,
\* "duplicate" included, is only given once the event is in the committed log:
\* never for an insert that is still open and may roll back.
AnsweredEventIsStored ==
  \A p \in Posts : outcome[p] \in {"stored", "duplicate"} => key[p] \in StoredKeys

\* The first message id and the first times stay: a late or resent event never
\* replaces them, also when two posts race to fill them.
FirstValuesStay ==
  [][\A field \in {"pmid", "requestedAt", "sentAt"} :
       row[field] # None => row'[field] = row[field]]_row

\* Every post is answered: waits for keys and for the row lock form no cycle.
EveryPostEnds ==
  \A p \in Posts : (pc[p] # "idle") ~> (pc[p] = "done")

\* What the guide says of event_key, for every notification: a resend is never
\* stored a second time.
ResentNoticeStoredOnce ==
  \A i, j \in DOMAIN events : events[i].notice = events[j].notice => i = j
=============================================================================
