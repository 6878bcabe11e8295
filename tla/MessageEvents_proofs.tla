------------------------ MODULE MessageEvents_proofs ------------------------
(***************************************************************************)
(* Proofs about the webhook: types, the uniqueness of stored keys, what an *)
(* answer promises, that the two tables move together, and that posts      *)
(* neither wait in a cycle nor go on for ever.                             *)
(***************************************************************************)
EXTENDS MessageEvents, TLAPS

\* A post beyond "idle" has its body; one beyond its first statement has a key
\* computed from that body.
KeyFits(k, n) ==
  /\ k.event = n.event
  /\ k.mark = Coalesce(n.eventId, n.at)
  /\ n.pmid # None => k.id = n.pmid

KeyInv ==
  \A p \in Posts :
    /\ pc[p] # "idle" => notice[p] \in Notices
    /\ pc[p] \in {"insert", "update", "commit"} =>
         key[p] \in Keys /\ KeyFits(key[p], notice[p])

TypeInv == TypeOK /\ KeyInv

LEMMA MessageKeyFits ==
  ASSUME row \in Rows, NEW n \in Notices
  PROVE  MessageKey(n) \in Keys /\ KeyFits(MessageKey(n), n)
  BY NoticesAssumption, ValuesAssumption
  DEF MessageKey, Keys, KeyFits, Coalesce, Rows

LEMMA UpdatedType ==
  ASSUME NEW old \in Rows, NEW n \in Notices
  PROVE  Updated(old, n) \in Rows
<1>1. n.event \in DOMAIN StatusOf =>
        StatusOf[n.event] \in {"requested", "sent", "delivered", "bounced", "failed"}
  BY DEF StatusOf
<1>2. QED
  BY <1>1, NoticesAssumption DEF Updated, Coalesce, Rows

LEMMA TypeInvInit == Init => TypeInv
<1> SUFFICES ASSUME Init PROVE TypeInv
  OBVIOUS
<1>1. row \in Rows
  BY ValuesAssumption DEF Init, Rows
<1>2. QED
  BY <1>1 DEF Init, TypeInv, TypeOK, KeyInv

LEMMA TypeInvNext == TypeInv /\ [Next]_vars => TypeInv'
<1> SUFFICES ASSUME TypeInv, [Next]_vars PROVE TypeInv'
  OBVIOUS
<1> USE DEF TypeInv
<1>1. CASE UNCHANGED vars
  BY <1>1 DEF vars, TypeOK, KeyInv
<1>2. ASSUME NEW p \in Posts, NEW n \in Notices, Arrive(p, n)
      PROVE  TypeInv'
  BY <1>2 DEF Arrive, TypeOK, KeyInv
<1>3. ASSUME NEW p \in Posts, NEW why \in {"not_found", "error"}, Rollback(p, why), pc[p] # "idle"
      PROVE  TypeInv'
  BY <1>3 DEF Rollback, TypeOK, KeyInv
<1>4. ASSUME NEW p \in Posts, Lookup(p)
      PROVE  TypeInv'
  <2>1. notice[p] \in Notices
    BY <1>4 DEF Lookup, KeyInv
  <2>2. CASE Rollback(p, "not_found")
    BY <1>3, <1>4, <2>2 DEF Lookup
  <2>3. CASE ~Rollback(p, "not_found")
    <3>1. /\ key' = [key EXCEPT ![p] = MessageKey(notice[p])]
          /\ pc' = [pc EXCEPT ![p] = "insert"]
          /\ UNCHANGED <<row, events, notice, inserted, written, outcome>>
      BY <1>4, <2>3 DEF Lookup
    <3>2. MessageKey(notice[p]) \in Keys /\ KeyFits(MessageKey(notice[p]), notice[p])
      BY <2>1, MessageKeyFits DEF TypeOK
    <3>3. QED
      BY <2>1, <3>1, <3>2 DEF TypeOK, KeyInv
  <2>4. QED
    BY <2>2, <2>3
<1>5. ASSUME NEW p \in Posts, InsertEvent(p)
      PROVE  TypeInv'
  BY <1>5 DEF InsertEvent, TypeOK, KeyInv
<1>6. ASSUME NEW p \in Posts, UpdateDelivery(p)
      PROVE  TypeInv'
  <2>1. Updated(row, notice[p]) \in Rows
    BY <1>6, UpdatedType DEF UpdateDelivery, TypeOK, KeyInv
  <2>2. QED
    BY <1>6, <2>1 DEF UpdateDelivery, TypeOK, KeyInv
<1>7. ASSUME NEW p \in Posts, Commit(p)
      PROVE  TypeInv'
  <2>1. key[p] \in Keys /\ notice[p] \in Notices
    BY <1>7 DEF Commit, KeyInv
  <2>2. events' \in Seq([key : Keys, notice : Notices])
    <3> DEFINE Entry == [key : Keys, notice : Notices]
    <3>1. [key |-> key[p], notice |-> notice[p]] \in Entry
      BY <2>1
    <3>2. events \in Seq(Entry)
      BY DEF TypeOK
    <3>3. events' = Append(events, [key |-> key[p], notice |-> notice[p]]) \/ events' = events
      BY <1>7 DEF Commit
    <3> HIDE DEF Entry
    <3>4. events' \in Seq(Entry)
      BY <3>1, <3>2, <3>3
    <3>5. QED
      BY <3>4 DEF Entry
  <2>3. row' \in Rows
    BY <1>7 DEF Commit, TypeOK, Coalesce
  <2>4. QED
    BY <1>7, <2>2, <2>3 DEF Commit, TypeOK, KeyInv
<1>8. ASSUME NEW p \in Posts, Fail(p)
      PROVE  TypeInv'
  BY <1>3, <1>8 DEF Fail, InTransaction
<1>9. QED
  BY <1>1, <1>2, <1>4, <1>5, <1>6, <1>7, <1>8 DEF Next, Statement

\* Every reachable state is well typed.
THEOREM TypeCorrect == Spec => []TypeOK
<1>1. Spec => []TypeInv
  BY TypeInvInit, TypeInvNext, PTL DEF Spec
<1>2. TypeInv => TypeOK
  BY DEF TypeInv
<1>3. QED
  BY <1>1, <1>2, PTL

(***************************************************************************)
(* The tables.  Keys are unique in the log because an open insert keeps    *)
(* its key to itself (OpenKeysInv), and the row version an open            *)
(* transaction has written is the current row plus its event because the   *)
(* row lock keeps others out (RowLockInv).                                 *)
(***************************************************************************)

\* What a stored event's key says; equal keys are the same entry.
LogInv ==
  \A i \in DOMAIN events :
    /\ KeyFits(events[i].key, events[i].notice)
    /\ \A j \in DOMAIN events : events[i].key = events[j].key => i = j

\* An open insert has a key nobody else has, neither stored nor open.
OpenKeysInv ==
  \A p \in Posts : inserted[p] =>
    /\ pc[p] \in {"update", "commit"}
    /\ key[p] \notin StoredKeys
    /\ \A q \in Posts \ {p} : inserted[q] => key[p] # key[q]

\* Who holds the row lock is the only one, about to commit, with the update of
\* the current row; who commits an insert has updated the row if it had to.
RowLockInv ==
  \A p \in Posts :
    /\ written[p] # None =>
         /\ pc[p] = "commit" /\ inserted[p] /\ UpdatesRow(notice[p])
         /\ written[p] = Updated(row, notice[p])
         /\ \A q \in Posts \ {p} : written[q] = None
    /\ pc[p] = "update" => inserted[p] /\ UpdatesRow(notice[p])
    /\ pc[p] = "commit" /\ inserted[p] /\ UpdatesRow(notice[p]) => written[p] # None

\* A duplicate, and a post that has been answered, has its key in the log.
AnswerInv ==
  \A p \in Posts :
    (pc[p] = "commit" /\ ~inserted[p]) \/ outcome[p] \in {"stored", "duplicate"}
      => key[p] \in StoredKeys /\ pc[p] \in {"commit", "done"}

TablesInv == LogInv /\ OpenKeysInv /\ RowLockInv /\ AnswerInv

LEMMA TablesInvInit == Init => TablesInv
<1> SUFFICES ASSUME Init PROVE TablesInv
  OBVIOUS
<1>1. DOMAIN events = {}
  BY DEF Init
<1>2. LogInv
  BY <1>1 DEF LogInv
<1>3. OpenKeysInv
  BY DEF Init, OpenKeysInv
<1>4. RowLockInv
  BY DEF Init, RowLockInv
<1>5. AnswerInv
  <2>1. None # "stored" /\ None # "duplicate"
    BY ValuesAssumption
  <2>2. QED
    BY <2>1 DEF Init, AnswerInv
<1>6. QED
  BY <1>2, <1>3, <1>4, <1>5 DEF TablesInv

\* Appending an entry adds its key and keeps the entries before it.
LEMMA LogAppend ==
  ASSUME NEW Entry, NEW log \in Seq(Entry), NEW e \in Entry
  PROVE  /\ DOMAIN Append(log, e) = DOMAIN log \cup {Len(log) + 1}
         /\ Len(log) + 1 \notin DOMAIN log
         /\ Append(log, e)[Len(log) + 1] = e
         /\ \A i \in DOMAIN log : Append(log, e)[i] = log[i]
  OBVIOUS

\* What a commit does to the log.
LEMMA CommitLog ==
  ASSUME TypeInv, NEW p \in Posts, Commit(p)
  PROVE  /\ inserted[p] => /\ DOMAIN events' = DOMAIN events \cup {Len(events) + 1}
                           /\ Len(events) + 1 \notin DOMAIN events
                           /\ events'[Len(events) + 1] = [key |-> key[p], notice |-> notice[p]]
                           /\ \A i \in DOMAIN events : events'[i] = events[i]
                           /\ StoredKeys' = StoredKeys \cup {key[p]}
         /\ ~inserted[p] => events' = events
<1> DEFINE Entry == [key : Keys, notice : Notices]
           e == [key |-> key[p], notice |-> notice[p]]
<1>1. events \in Seq(Entry) /\ e \in Entry
  BY DEF TypeInv, TypeOK, KeyInv, Commit
<1>2. inserted[p] => events' = Append(events, e)
  BY DEF Commit
<1>3. e.key = key[p]
  OBVIOUS
<1> HIDE DEF Entry, e
<1>4. inserted[p] => /\ DOMAIN events' = DOMAIN events \cup {Len(events) + 1}
                     /\ Len(events) + 1 \notin DOMAIN events
                     /\ events'[Len(events) + 1] = e
                     /\ \A i \in DOMAIN events : events'[i] = events[i]
  BY <1>1, <1>2, LogAppend
<1>5. inserted[p] => StoredKeys' = StoredKeys \cup {key[p]}
  BY <1>3, <1>4 DEF StoredKeys
<1>6. ~inserted[p] => events' = events
  BY DEF Commit
<1>7. QED
  BY <1>4, <1>5, <1>6 DEF e

LEMMA TablesInvNext == TypeInv /\ TablesInv /\ [Next]_vars => TablesInv'
<1> SUFFICES ASSUME TypeInv, TablesInv, [Next]_vars PROVE TablesInv'
  OBVIOUS
<1> USE DEF TablesInv
<1>1. ASSUME UNCHANGED events
      PROVE  LogInv' /\ StoredKeys' = StoredKeys
  BY <1>1 DEF LogInv, StoredKeys
<1>2. CASE UNCHANGED vars
  BY <1>1, <1>2 DEF vars, OpenKeysInv, RowLockInv, AnswerInv
<1>3. ASSUME NEW p \in Posts, NEW n \in Notices, Arrive(p, n)
      PROVE  TablesInv'
  BY <1>1, <1>3 DEF Arrive, OpenKeysInv, RowLockInv, AnswerInv, TypeInv, TypeOK
<1>4. ASSUME NEW p \in Posts, NEW why \in {"not_found", "error"}, Rollback(p, why)
      PROVE  TablesInv'
  BY <1>1, <1>4 DEF Rollback, OpenKeysInv, RowLockInv, AnswerInv, TypeInv, TypeOK
<1>5. ASSUME NEW p \in Posts, Lookup(p)
      PROVE  TablesInv'
  <2>1. CASE Rollback(p, "not_found")
    BY <1>4, <2>1
  <2>2. CASE ~Rollback(p, "not_found")
    <3>1. /\ pc[p] = "lookup"
          /\ key' = [key EXCEPT ![p] = MessageKey(notice[p])]
          /\ pc' = [pc EXCEPT ![p] = "insert"]
          /\ UNCHANGED <<row, events, notice, inserted, written, outcome>>
      BY <1>5, <2>2 DEF Lookup
    <3>2. QED
      BY <1>1, <3>1 DEF OpenKeysInv, RowLockInv, AnswerInv, TypeInv, TypeOK
  <2>3. QED
    BY <2>1, <2>2
<1>6. ASSUME NEW p \in Posts, InsertEvent(p)
      PROVE  TablesInv'
  <2>1. \A q \in Posts \ {p} : inserted[q] => key[q] # key[p]
    BY <1>6 DEF InsertEvent, WaitsFor
  <2>2. /\ inserted'[p] = (key[p] \notin StoredKeys)
        /\ pc'[p] = IF inserted'[p] /\ UpdatesRow(notice[p]) THEN "update" ELSE "commit"
        /\ \A q \in Posts \ {p} : inserted'[q] = inserted[q] /\ pc'[q] = pc[q]
        /\ UNCHANGED <<row, events, notice, key, written, outcome>>
        /\ pc[p] = "insert"
    BY <1>6 DEF InsertEvent, TypeInv, TypeOK
  <2>3. LogInv' /\ StoredKeys' = StoredKeys
    BY <1>1, <2>2
  <2>4. OpenKeysInv'
    BY <2>1, <2>2, <2>3 DEF OpenKeysInv
  <2>5. RowLockInv'
    BY <2>2 DEF RowLockInv
  <2>6. AnswerInv'
    BY <2>2, <2>3 DEF AnswerInv
  <2>7. QED
    BY <2>3, <2>4, <2>5, <2>6
<1>7. ASSUME NEW p \in Posts, UpdateDelivery(p)
      PROVE  TablesInv'
  <2>1. \A q \in Posts \ {p} : written[q] = None
    BY <1>7 DEF UpdateDelivery, WaitsFor
  <2>2. /\ written' = [written EXCEPT ![p] = Updated(row, notice[p])]
        /\ pc' = [pc EXCEPT ![p] = "commit"]
        /\ UNCHANGED <<row, events, notice, key, inserted, outcome>>
        /\ pc[p] = "update"
    BY <1>7 DEF UpdateDelivery
  <2>3. Updated(row, notice[p]) # None
    BY <2>2, UpdatedType, ValuesAssumption DEF TypeInv, TypeOK, KeyInv
  <2>4. QED
    BY <1>1, <2>1, <2>2, <2>3 DEF OpenKeysInv, RowLockInv, AnswerInv, TypeInv, TypeOK
<1>8. ASSUME NEW p \in Posts, Commit(p)
      PROVE  TablesInv'
  <2>1. /\ pc[p] = "commit"
        /\ pc' = [pc EXCEPT ![p] = "done"]
        /\ inserted' = [inserted EXCEPT ![p] = FALSE]
        /\ written' = [written EXCEPT ![p] = None]
        /\ outcome' = [outcome EXCEPT ![p] = IF inserted[p] THEN "stored" ELSE "duplicate"]
        /\ row' = Coalesce(written[p], row)
        /\ UNCHANGED <<notice, key>>
    BY <1>8 DEF Commit
  <2>2. LogInv'
    <3>1. CASE inserted[p]
      <4>1. KeyFits(key[p], notice[p]) /\ key[p] \notin StoredKeys
        BY <2>1, <3>1 DEF TypeInv, KeyInv, OpenKeysInv
      <4>2. \A i \in DOMAIN events : events[i].key # key[p]
        BY <4>1 DEF StoredKeys
      <4> DEFINE last == Len(events) + 1
      <4>3. /\ DOMAIN events' = DOMAIN events \cup {last}
            /\ events'[last] = [key |-> key[p], notice |-> notice[p]]
            /\ \A i \in DOMAIN events : events'[i] = events[i]
        BY <1>8, <3>1, CommitLog
      <4>4. events'[last].key = key[p] /\ events'[last].notice = notice[p]
        BY <4>3
      <4> HIDE DEF last
      <4>5. \A i \in DOMAIN events' :
              /\ KeyFits(events'[i].key, events'[i].notice)
              /\ \A j \in DOMAIN events' : events'[i].key = events'[j].key => i = j
        BY <4>1, <4>2, <4>3, <4>4 DEF LogInv
      <4>6. QED
        BY <4>5 DEF LogInv, KeyFits
    <3>2. CASE ~inserted[p]
      BY <1>1, <1>8, <3>2, CommitLog
    <3>3. QED
      BY <3>1, <3>2
  <2>3. /\ StoredKeys \subseteq StoredKeys'
        /\ StoredKeys' \subseteq StoredKeys \cup (IF inserted[p] THEN {key[p]} ELSE {})
        /\ key[p] \in StoredKeys'
    <3>1. CASE inserted[p]
      BY <1>8, <3>1, CommitLog
    <3>2. CASE ~inserted[p]
      BY <1>1, <1>8, <2>1, <3>2, CommitLog DEF AnswerInv
    <3>3. QED
      BY <3>1, <3>2
  <2>4. OpenKeysInv'
    BY <2>1, <2>3 DEF OpenKeysInv, TypeInv, TypeOK
  <2>5. RowLockInv'
    BY <2>1 DEF RowLockInv, Coalesce, TypeInv, TypeOK
  <2>6. AnswerInv'
    BY <2>1, <2>3 DEF AnswerInv, TypeInv, TypeOK
  <2>7. QED
    BY <2>2, <2>4, <2>5, <2>6
<1>9. ASSUME NEW p \in Posts, Fail(p)
      PROVE  TablesInv'
  BY <1>4, <1>9 DEF Fail
<1>10. QED
  BY <1>2, <1>3, <1>5, <1>6, <1>7, <1>8, <1>9 DEF Next, Statement

LEMMA TablesCorrect == Spec => [](TypeInv /\ TablesInv)
<1>1. Init => TypeInv /\ TablesInv
  BY TypeInvInit, TablesInvInit
<1>2. TypeInv /\ TablesInv /\ [Next]_vars => (TypeInv /\ TablesInv)'
  BY TypeInvNext, TablesInvNext
<1>3. QED
  BY <1>1, <1>2, PTL DEF Spec

\* A successful answer is only given for an event in the committed log.
THEOREM AnswersAreDurable == Spec => []AnsweredEventIsStored
<1>1. TypeInv /\ TablesInv => AnsweredEventIsStored
  BY DEF TablesInv, AnswerInv, AnsweredEventIsStored
<1>2. QED
  BY TablesCorrect, <1>1, PTL

\* A notification that carries its message id is stored at most once.
THEOREM IdentifiedOnce == Spec => []IdentifiedNoticeStoredOnce
<1>1. TypeInv /\ TablesInv => IdentifiedNoticeStoredOnce
  <2> SUFFICES ASSUME TypeInv, TablesInv, NEW i \in DOMAIN events, NEW j \in DOMAIN events,
                      events[i].notice = events[j].notice, events[i].notice.pmid # None
               PROVE  i = j
    BY DEF IdentifiedNoticeStoredOnce
  <2>1. events[i].key \in Keys /\ events[j].key \in Keys
    <3> DEFINE Entry == [key : Keys, notice : Notices]
    <3>1. events \in Seq(Entry)
      BY DEF TypeInv, TypeOK
    <3> HIDE DEF Entry
    <3>2. events[i] \in Entry /\ events[j] \in Entry
      BY <3>1
    <3>3. QED
      BY <3>2 DEF Entry
  <2>2. KeyFits(events[i].key, events[i].notice) /\ KeyFits(events[j].key, events[i].notice)
    BY DEF TablesInv, LogInv
  <2>3. events[i].key = events[j].key
    BY <2>1, <2>2 DEF KeyFits, Keys
  <2>4. QED
    BY <2>3 DEF TablesInv, LogInv
<1>2. QED
  BY TablesCorrect, <1>1, PTL

\* The event log and the delivery row move together, one new event at a time.
THEOREM TablesMoveTogether == Spec => EventAndRowTogether
<1> DEFINE OneEvent == \E p \in Posts : LET n == notice[p] IN
             /\ key[p] \notin StoredKeys
             /\ events' = Append(events, [key |-> key[p], notice |-> n])
             /\ row' = IF UpdatesRow(n) THEN Updated(row, n) ELSE row
<1>1. TypeInv /\ TablesInv /\ [Next]_vars => OneEvent \/ UNCHANGED <<row, events>>
  <2> SUFFICES ASSUME TypeInv, TablesInv, [Next]_vars, ~UNCHANGED <<row, events>>
               PROVE  OneEvent
    OBVIOUS
  <2>1. PICK p \in Posts : Commit(p)
    BY DEF Next, Statement, vars, Arrive, Lookup, Rollback, InsertEvent, UpdateDelivery, Fail
  <2>2. inserted[p]
    BY <2>1 DEF Commit, TablesInv, RowLockInv, Coalesce
  <2>3. key[p] \notin StoredKeys
    BY <2>2 DEF TablesInv, OpenKeysInv
  <2>4. row' = IF UpdatesRow(notice[p]) THEN Updated(row, notice[p]) ELSE row
    BY <2>1, <2>2 DEF Commit, TablesInv, RowLockInv, Coalesce
  <2>5. QED
    BY <2>1, <2>2, <2>3, <2>4 DEF Commit
<1>2. QED
  BY TablesCorrect, <1>1, PTL DEF Spec, EventAndRowTogether

\* The first message id and times a delivery row receives stay.
THEOREM FirstValuesKept == Spec => FirstValuesStay
<1> DEFINE Stay == \A field \in {"pmid", "requestedAt", "sentAt"} :
                     row[field] # None => row'[field] = row[field]
<1>1. TypeInv /\ TablesInv /\ [Next]_vars => Stay \/ UNCHANGED row
  <2> SUFFICES ASSUME TypeInv, TablesInv, [Next]_vars, row' # row
               PROVE  Stay
    OBVIOUS
  <2>1. PICK p \in Posts : Commit(p)
    BY DEF Next, Statement, vars, Arrive, Lookup, Rollback, InsertEvent, UpdateDelivery, Fail
  <2>2. row' = Updated(row, notice[p])
    BY <2>1 DEF Commit, TablesInv, RowLockInv, Coalesce
  <2>3. QED
    BY <2>2 DEF Updated, Coalesce
<1>2. QED
  BY TablesCorrect, <1>1, PTL DEF Spec, FirstValuesStay

(***************************************************************************)
(* What the end of every post rests on, besides the fairness of threads:   *)
(* waits are short and end at a commit, and no statement is repeated.      *)
(***************************************************************************)

\* A post waits for at most one other, and that one, or the one it waits for in
\* turn, is about to commit: the waits for event keys and for the row lock never
\* form a cycle and need no deadlock detector, however many posts there are.
WaitsAreShort ==
  \A p \in Posts : \A q \in WaitsFor(p) :
    /\ InTransaction(q)
    /\ \A s \in WaitsFor(p) : s = q
    /\ \A s \in WaitsFor(q) : pc[s] = "commit" /\ WaitsFor(s) = {}

\* While posts are being handled, one of them can execute its next statement.
SomePostCanGoOn ==
  (\E p \in Posts : InTransaction(p)) =>
    \E p \in Posts : InTransaction(p) /\ WaitsFor(p) = {}

LEMMA ShortWaits == TypeInv /\ TablesInv => WaitsAreShort
<1> SUFFICES ASSUME TypeInv, TablesInv, NEW p \in Posts, NEW q \in WaitsFor(p)
             PROVE  /\ InTransaction(q)
                    /\ \A s \in WaitsFor(p) : s = q
                    /\ \A s \in WaitsFor(q) : pc[s] = "commit" /\ WaitsFor(s) = {}
  BY DEF WaitsAreShort
\* The holder of the row lock is about to commit, and an open insert has passed it.
<1>1. \A s \in Posts : written[s] # None => pc[s] = "commit"
  BY DEF TablesInv, RowLockInv
<1>2. \A s \in Posts : inserted[s] => pc[s] \in {"update", "commit"}
  BY DEF TablesInv, OpenKeysInv
<1>3. \A s \in Posts : pc[s] = "commit" => WaitsFor(s) = {}
  BY DEF WaitsFor
<1>4. InTransaction(q)
  BY <1>1, <1>2 DEF WaitsFor, InTransaction
<1>5. ASSUME NEW s \in WaitsFor(p) PROVE s = q
  <2>1. CASE pc[p] = "insert"
    BY <2>1 DEF WaitsFor, TablesInv, OpenKeysInv
  <2>2. CASE pc[p] = "update"
    BY <2>2 DEF WaitsFor, TablesInv, RowLockInv
  <2>3. QED
    BY <2>1, <2>2 DEF WaitsFor
<1>6. ASSUME NEW s \in WaitsFor(q) PROVE pc[s] = "commit" /\ WaitsFor(s) = {}
  <2>1. pc[q] # "insert"
    BY <1>1, <1>2 DEF WaitsFor
  <2>2. s \in Posts /\ written[s] # None
    BY <2>1 DEF WaitsFor
  <2>3. QED
    BY <1>1, <1>3, <2>2
<1>7. QED
  BY <1>4, <1>5, <1>6

\* Waits between posts are at most two long and end at a post about to commit.
THEOREM PostsWaitBriefly == Spec => []WaitsAreShort
BY TablesCorrect, ShortWaits, PTL

\* No set of posts ever waits for itself: one of them can go on.
THEOREM PostsAreNeverStuck == Spec => []SomePostCanGoOn
<1>1. WaitsAreShort => SomePostCanGoOn
  <2> SUFFICES ASSUME WaitsAreShort, NEW p \in Posts, InTransaction(p)
               PROVE  \E s \in Posts : InTransaction(s) /\ WaitsFor(s) = {}
    BY DEF SomePostCanGoOn
  <2>1. CASE WaitsFor(p) = {}
    BY <2>1
  <2>2. ASSUME NEW q \in WaitsFor(p), WaitsFor(q) = {}
        PROVE  \E s \in Posts : InTransaction(s) /\ WaitsFor(s) = {}
    BY <2>2 DEF WaitsAreShort, WaitsFor
  <2>3. ASSUME NEW q \in WaitsFor(p), NEW s \in WaitsFor(q)
        PROVE  s \in Posts /\ InTransaction(s) /\ WaitsFor(s) = {}
    BY <2>3 DEF WaitsAreShort, WaitsFor, InTransaction
  <2>4. QED
    BY <2>1, <2>2, <2>3
<1>2. QED
  BY PostsWaitBriefly, <1>1, PTL

\* How far a post is.
Progress(p) ==
  CASE pc[p] = "idle"   -> 0
    [] pc[p] = "lookup" -> 1
    [] pc[p] = "insert" -> 2
    [] pc[p] = "update" -> 3
    [] pc[p] = "commit" -> 4
    [] pc[p] = "done"   -> 5

\* Every step takes one post forward and leaves the others where they are: a
\* handler executes no statement twice, so a post takes at most five steps.
OnePostAdvances ==
  [][\E p \in Posts :
       /\ Progress(p)' > Progress(p)
       /\ \A q \in Posts \ {p} : pc'[q] = pc[q]]_vars

\* A post takes at most five steps, whatever is resent and however it interleaves.
THEOREM PostsAdvance == Spec => OnePostAdvances
<1> DEFINE Advances == \E p \in Posts :
             /\ Progress(p)' > Progress(p)
             /\ \A q \in Posts \ {p} : pc'[q] = pc[q]
<1>1. TypeInv /\ [Next]_vars => Advances \/ UNCHANGED vars
  <2> SUFFICES ASSUME TypeInv, Next PROVE Advances
    OBVIOUS
  <2>1. PICK p \in Posts :
          (\E n \in Notices : Arrive(p, n)) \/ Statement(p) \/ Fail(p)
    BY DEF Next
  <2>2. PICK to : /\ pc' = [pc EXCEPT ![p] = to]
                  /\ \/ pc[p] = "idle" /\ to = "lookup"
                     \/ pc[p] = "lookup" /\ to \in {"insert", "done"}
                     \/ pc[p] = "insert" /\ to \in {"update", "commit"}
                     \/ pc[p] = "update" /\ to = "commit"
                     \/ pc[p] = "commit" /\ to = "done"
                     \/ InTransaction(p) /\ to = "done"
    <3>1. ASSUME NEW n \in Notices, Arrive(p, n)
          PROVE  pc[p] = "idle" /\ pc' = [pc EXCEPT ![p] = "lookup"]
      BY <3>1 DEF Arrive
    <3>2. CASE Lookup(p)
      BY <3>2 DEF Lookup, Rollback
    <3>3. CASE InsertEvent(p)
      BY <3>3 DEF InsertEvent
    <3>4. CASE UpdateDelivery(p)
      BY <3>4 DEF UpdateDelivery
    <3>5. CASE Commit(p)
      BY <3>5 DEF Commit
    <3>6. CASE Fail(p)
      BY <3>6 DEF Fail, Rollback
    <3>7. QED
      BY <2>1, <3>1, <3>2, <3>3, <3>4, <3>5, <3>6 DEF Statement
  <2>3. pc'[p] = to /\ \A q \in Posts \ {p} : pc'[q] = pc[q]
    BY <2>2 DEF TypeInv, TypeOK
  <2>4. Progress(p)' > Progress(p)
    BY <2>2, <2>3 DEF Progress, InTransaction
  <2>5. QED
    BY <2>3, <2>4
<1>2. QED
  BY TablesCorrect, <1>1, PTL DEF Spec, OnePostAdvances
=============================================================================
