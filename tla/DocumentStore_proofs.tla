------------------------ MODULE DocumentStore_proofs ------------------------
(***************************************************************************)
(* Proofs about the document caches: types, that a cache is a state of its *)
(* table, that only writes make it lag, and that one thread alone keeps it *)
(* up to date.                                                             *)
(***************************************************************************)
EXTENDS DocumentStore, TLAPS

\* A load that is about to publish has read rows; one about to set the flag
\* has published.
LoadInv ==
  \A t \in Threads :
    /\ pc[t] = "setCache" => rows[t] # None
    /\ pc[t] = "setReady" => cache # None

TypeInv == TypeOK /\ LoadInv

LEMMA HistoryAppend ==
  ASSUME history \in Seq(Tables), Len(history) >= 1, NEW table \in Tables
  PROVE  /\ Append(history, table) \in Seq(Tables)
         /\ Len(Append(history, table)) = Len(history) + 1
         /\ \A i \in DOMAIN history :
              i \in DOMAIN Append(history, table) /\ Append(history, table)[i] = history[i]
<1> HIDE DEF Tables
<1>1. QED
  OBVIOUS

LEMMA CurrentTable ==
  ASSUME TypeOK
  PROVE  /\ Len(history) \in DOMAIN history
         /\ Table \in Tables
<1>1. history \in Seq(Tables) /\ Len(history) \in 1..(MaxWrites + 1)
  BY DEF TypeOK
<1>2. MaxWrites \in Nat
  BY BoundsAssumption
<1> HIDE DEF Tables
<1>3. Len(history) \in DOMAIN history
  BY <1>1, <1>2
<1>4. QED
  BY <1>1, <1>3 DEF Table

LEMMA WrittenType ==
  ASSUME TypeOK, NEW w \in Writes
  PROVE  Written(w) \in Tables
<1>1. Table \in Tables
  BY CurrentTable
<1>2. \A n \in DOMAIN w : w[n] \in Contents \cup {None}
  <2>1. CASE w = Files
    BY <2>1, TablesAssumption
  <2>2. CASE w # Files
    <3>1. PICK name \in Names, content \in Contents \cup {None} :
            w = [n \in {name} |-> content]
      BY <2>2 DEF Writes
    <3>2. QED
      BY <3>1
  <2>3. QED
    BY <2>1, <2>2
<1>3. QED
  BY <1>1, <1>2 DEF Written, Tables

LEMMA TypeInvInit == Init => TypeInv
<1> SUFFICES ASSUME Init PROVE TypeInv
  OBVIOUS
<1>1. history \in Seq(Tables) /\ Len(history) = 1
  <2>1. FirstTable \in Tables
    BY TablesAssumption
  <2> HIDE DEF Tables
  <2>2. QED
    BY <2>1 DEF Init
<1>2. /\ 1 \in 1..(MaxWrites + 1) /\ 0 \in 0..MaxFailures /\ 0 \in 0..MaxRestarts
  BY BoundsAssumption
<1>3. LoadInv
  BY DEF Init, LoadInv
<1>4. QED
  BY <1>1, <1>2, <1>3 DEF Init, TypeInv, TypeOK

LEMMA TypeInvNext == TypeInv /\ [Next]_vars => TypeInv'
<1> SUFFICES ASSUME TypeInv, [Next]_vars PROVE TypeInv'
  OBVIOUS
<1> USE DEF TypeInv, globals, Goto
<1>1. CASE UNCHANGED vars
  BY <1>1 DEF vars, TypeOK, LoadInv
<1>2. ASSUME NEW t \in Threads,
             BeginLookup(t) \/ BeginReload(t) \/ CheckReady(t) \/ CheckRetry(t)
             \/ ResetReady(t) \/ ResetRetry(t)
      PROVE  TypeInv'
  BY <1>2 DEF BeginLookup, BeginReload, CheckReady, CheckRetry, ResetReady, ResetRetry,
              TypeOK, LoadInv
<1>3. ASSUME NEW t \in Threads, NEW w \in Writes, Write(t, w)
      PROVE  TypeInv'
  <2>1. /\ history' \in Seq(Tables)
        /\ Len(history') \in 1..(MaxWrites + 1)
    BY <1>3, WrittenType, HistoryAppend, BoundsAssumption DEF Write, TypeOK
  <2>2. QED
    BY <1>3, <2>1 DEF Write, TypeOK, LoadInv
<1>4. ASSUME NEW t \in Threads, Select(t)
      PROVE  TypeInv'
  <2>1. rows'[t] \in Tables /\ rows'[t] # None
    BY <1>4, CurrentTable, TablesAssumption DEF Select, TypeOK
  <2>2. QED
    BY <1>4, <2>1 DEF Select, TypeOK, LoadInv
<1>5. ASSUME NEW t \in Threads, SetCache(t) \/ SetReady(t) \/ SetRetry(t)
      PROVE  TypeInv'
  BY <1>5 DEF SetCache, SetReady, SetRetry, TypeOK, LoadInv
<1>6. ASSUME NEW t \in Threads, FailSelect(t)
      PROVE  TypeInv'
  <2>1. failures' \in 0..MaxFailures
    BY <1>6, BoundsAssumption DEF FailSelect, TypeOK
  <2>2. QED
    BY <1>6, <2>1 DEF FailSelect, TypeOK, LoadInv
<1>7. CASE CooldownEnds
  BY <1>7 DEF CooldownEnds, TypeOK, LoadInv
<1>8. CASE Restart
  <2>1. restarts' \in 0..MaxRestarts
    BY <1>8, BoundsAssumption DEF Restart, TypeOK
  <2>2. QED
    BY <1>8, <2>1 DEF Restart, TypeOK, LoadInv
<1>9. QED
  BY <1>1, <1>2, <1>3, <1>4, <1>5, <1>6, <1>7, <1>8 DEF Next, Step, Load

\* Every reachable state is well typed.
THEOREM TypeCorrect == Spec => []TypeOK
<1>1. Spec => []TypeInv
  BY TypeInvInit, TypeInvNext, PTL DEF Spec
<1>2. TypeInv => TypeOK
  BY DEF TypeInv
<1>3. QED
  BY <1>1, <1>2, PTL

(***************************************************************************)
(* The cache.  What a thread has read was the table when it read it, and   *)
(* stays in the history however many writes commit before it is published. *)
(***************************************************************************)

Committed(table) == \E i \in DOMAIN history : history[i] = table

SnapshotInv ==
  /\ \A t \in Threads : rows[t] # None => Committed(rows[t])
  /\ CacheIsCommittedTable

LEMMA SnapshotInit == Init => SnapshotInv
  BY DEF Init, SnapshotInv, CacheIsCommittedTable

LEMMA SnapshotNext ==
  ASSUME SameDatabase
  PROVE  TypeInv /\ SnapshotInv /\ [Next]_vars => SnapshotInv'
<1> SUFFICES ASSUME TypeInv, SnapshotInv, [Next]_vars PROVE SnapshotInv'
  OBVIOUS
<1> USE DEF SnapshotInv, CacheIsCommittedTable, Committed
<1>1. CASE UNCHANGED vars
  BY <1>1 DEF vars, globals
<1>2. ASSUME NEW t \in Threads, NEW w \in Writes, Write(t, w)
      PROVE  SnapshotInv'
  <2>1. \A i \in DOMAIN history : i \in DOMAIN history' /\ history'[i] = history[i]
    <3>1. /\ history \in Seq(Tables) /\ Len(history) >= 1 /\ Written(w) \in Tables
          /\ history' = Append(history, Written(w))
      BY <1>2, WrittenType, BoundsAssumption DEF Write, TypeInv, TypeOK
    <3>2. QED
      BY <3>1, HistoryAppend
  <2>2. UNCHANGED <<cache, ready, rows>>
    BY <1>2 DEF Write, globals
  <2>3. QED
    BY <2>1, <2>2
<1>3. ASSUME NEW t \in Threads, Select(t)
      PROVE  SnapshotInv'
  BY <1>3, CurrentTable DEF Select, Table, globals, TypeInv, TypeOK
<1>4. ASSUME NEW t \in Threads, SetCache(t)
      PROVE  SnapshotInv'
  BY <1>4 DEF SetCache, TypeInv, TypeOK, LoadInv
<1>5. ASSUME NEW t \in Threads, SetReady(t)
      PROVE  SnapshotInv'
  BY <1>5 DEF SetReady, TypeInv, LoadInv
<1>6. ASSUME NEW t \in Threads,
             BeginLookup(t) \/ BeginReload(t) \/ CheckReady(t) \/ CheckRetry(t)
             \/ ResetRetry(t) \/ SetRetry(t) \/ FailSelect(t) \/ ResetReady(t)
      PROVE  SnapshotInv'
  <2>1. UNCHANGED <<history, cache, rows>> /\ (ready' = ready \/ ready' = FALSE)
    BY <1>6 DEF BeginLookup, BeginReload, CheckReady, CheckRetry, ResetRetry, SetRetry,
                FailSelect, ResetReady, globals
  <2>2. QED
    BY <2>1
<1>7. CASE CooldownEnds
  BY <1>7 DEF CooldownEnds
<1>8. CASE Restart
  <2>1. rows' = [t \in Threads |-> None] /\ cache' = None /\ ready' = FALSE
    BY <1>8 DEF Restart
  <2>2. QED
    BY <2>1
<1>9. QED
  BY <1>1, <1>2, <1>3, <1>4, <1>5, <1>6, <1>7, <1>8 DEF Next, Step, Load

\* If lookups load from the metadata database, they are only ever answered from
\* a state that table really had, for any number of threads, writes, failures
\* and restarts.
THEOREM CacheIsAlwaysATable ==
  ASSUME SameDatabase
  PROVE  Spec => []CacheIsCommittedTable
<1>1. Init => TypeInv /\ SnapshotInv
  BY TypeInvInit, SnapshotInit
<1>2. TypeInv /\ SnapshotInv /\ [Next]_vars => (TypeInv /\ SnapshotInv)'
  BY TypeInvNext, SnapshotNext
<1>3. TypeInv /\ SnapshotInv => CacheIsCommittedTable
  BY DEF SnapshotInv
<1>4. QED
  BY <1>1, <1>2, <1>3, PTL DEF Spec

(***************************************************************************)
(* When the cache lags behind the table.                                    *)
(***************************************************************************)

\* What is cached, and every load on its way to the cache, is the current table.
Fresh ==
  /\ ready => cache = Table
  /\ \A t \in Threads : /\ pc[t] = "setCache" => rows[t] = Table
                        /\ pc[t] = "setReady" => cache = Table

\* A cache that follows the writes stops doing so only by another write: loads,
\* reloads, failures and restarts of any number of threads never bring an older
\* table back by themselves.
LagsBehindWritesOnly ==
  [][Fresh /\ ~Fresh' => \E t \in Threads, w \in Writes : Write(t, w)]_vars

LEMMA FreshStays ==
  ASSUME SameDatabase, TypeOK, Fresh, [Next]_vars,
         ~(\E t \in Threads, w \in Writes : Write(t, w))
  PROVE  Fresh'
<1> USE DEF Fresh, Goto, globals, TypeOK
<1>1. Table' = Table
  BY DEF Next, Step, Load, BeginLookup, CheckReady, CheckRetry, ResetReady, ResetRetry,
         Select, SetCache, SetReady, SetRetry, FailSelect, BeginReload, CooldownEnds,
         Restart, vars, Table
<1>2. CASE UNCHANGED vars
  BY <1>1, <1>2 DEF vars
<1>3. ASSUME NEW t \in Threads,
             BeginLookup(t) \/ BeginReload(t) \/ CheckReady(t) \/ CheckRetry(t)
             \/ ResetReady(t) \/ ResetRetry(t) \/ SetRetry(t) \/ FailSelect(t)
      PROVE  Fresh'
  <2>1. /\ UNCHANGED <<cache, rows>> /\ (ready' = ready \/ ready' = FALSE)
        /\ \E next \in {"idle", "checkReady", "checkRetry", "resetReady", "resetRetry",
                        "select"} : pc' = [pc EXCEPT ![t] = next]
    BY <1>3 DEF BeginLookup, BeginReload, CheckReady, CheckRetry, ResetReady, ResetRetry,
                SetRetry, FailSelect
  <2>2. PICK next \in {"idle", "checkReady", "checkRetry", "resetReady", "resetRetry",
                       "select"} : pc' = [pc EXCEPT ![t] = next]
    BY <2>1
  <2>3. \A u \in Threads : pc'[u] \in {"setCache", "setReady"} => pc'[u] = pc[u]
    BY <2>2
  <2>4. QED
    BY <1>1, <2>1, <2>3
<1>4. ASSUME NEW t \in Threads, Select(t) PROVE Fresh'
  <2>1. /\ UNCHANGED <<cache, ready>> /\ rows' = [rows EXCEPT ![t] = Table]
        /\ pc' = [pc EXCEPT ![t] = "setCache"]
    BY <1>4 DEF Select
  <2>2. QED
    BY <1>1, <2>1
<1>5. ASSUME NEW t \in Threads, SetCache(t) PROVE Fresh'
  <2>1. cache' = Table /\ ready' = ready /\ pc' = [pc EXCEPT ![t] = "setReady"]
        /\ rows' = [rows EXCEPT ![t] = None]
    BY <1>5 DEF SetCache
  <2>2. QED
    BY <1>1, <2>1
<1>6. ASSUME NEW t \in Threads, SetReady(t) PROVE Fresh'
  <2>1. cache = Table /\ cache' = cache /\ rows' = rows
        /\ pc' = [pc EXCEPT ![t] = "setRetry"]
    BY <1>6 DEF SetReady
  <2>2. QED
    BY <1>1, <2>1
<1>7. CASE CooldownEnds
  BY <1>1, <1>7 DEF CooldownEnds
<1>8. CASE Restart
  BY <1>8 DEF Restart
<1>9. QED
  BY <1>2, <1>3, <1>4, <1>5, <1>6, <1>7, <1>8 DEF Next, Step, Load

\* Whatever the threads do, only a write makes a cache lag that did not.
THEOREM OnlyWritesMakeItLag ==
  ASSUME SameDatabase
  PROVE  Spec => LagsBehindWritesOnly
<1>1. TypeOK /\ [Next]_vars
      => [Fresh /\ ~Fresh' => \E t \in Threads, w \in Writes : Write(t, w)]_vars
  BY FreshStays
<1>2. QED
  BY <1>1, TypeCorrect, PTL DEF Spec, LagsBehindWritesOnly

\* A lone thread, between the write of a call and its reset of the flag.
FollowsInv ==
  /\ ready => cache = Table \/ \E t \in Threads : pc[t] = "resetReady"
  /\ \A t \in Threads : /\ pc[t] = "setCache" => rows[t] = Table
                        /\ pc[t] = "setReady" => cache = Table

\* The lag of the cache takes two threads: when the calls come one after the other,
\* the cache follows the writes, whatever fails and whenever the process restarts.
THEOREM OneThreadFollowsWrites ==
  ASSUME SameDatabase, NEW one, Threads = {one}
  PROVE  Spec => []CacheFollowsWrites
<1>1. Init => TypeInv /\ FollowsInv
  BY TypeInvInit DEF Init, FollowsInv
<1>2. TypeInv /\ FollowsInv /\ [Next]_vars => FollowsInv'
  <2> SUFFICES ASSUME TypeInv, FollowsInv, [Next]_vars PROVE FollowsInv'
    OBVIOUS
  <2> USE DEF FollowsInv, Goto, globals, TypeInv, TypeOK
  <2>1. ASSUME NEW w \in Writes, Write(one, w) PROVE FollowsInv'
    BY <2>1 DEF Write
  <2>2. CASE ResetReady(one)
    BY <2>2 DEF ResetReady, Table
  <2>3. CASE ~(\E w \in Writes : Write(one, w)) /\ ~ResetReady(one)
    <3>1. CASE pc[one] = "resetReady"
      BY <2>3, <3>1
      DEF Next, Step, Load, BeginLookup, CheckReady, CheckRetry, ResetRetry, Select,
          SetCache, SetReady, SetRetry, FailSelect, BeginReload, CooldownEnds, Restart,
          vars, Table
    <3>2. CASE pc[one] # "resetReady"
      <4>1. Fresh
        BY <3>2 DEF Fresh
      <4>2. Fresh'
        BY <2>3, <4>1, FreshStays DEF TypeInv
      <4>3. QED
        BY <4>2 DEF Fresh
    <3>3. QED
      BY <3>1, <3>2
  <2>4. QED
    BY <2>1, <2>2, <2>3
<1>3. FollowsInv => CacheFollowsWrites
  BY DEF FollowsInv, CacheFollowsWrites
<1>4. QED
  BY <1>1, <1>2, <1>3, TypeInvNext, PTL DEF Spec
=============================================================================
