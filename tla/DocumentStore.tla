--------------------------- MODULE DocumentStore ---------------------------
(***************************************************************************)
(* policy_store.py and prompt_store.py: documents kept in a PostgreSQL     *)
(* table and served from a process-wide cache, three module globals that   *)
(* the handler threads of the server read and write without a lock.  Both  *)
(* modules have the same code; they differ in who calls the lookup: with   *)
(* the metadata database the admin endpoints write (policies) or without,  *)
(* which selects the default database (prompts, from rag/llm_io.py).       *)
(*                                                                         *)
(* A thread handles one call after the other.  An admin write is one       *)
(* transaction that reads nothing and is one action; every access to a     *)
(* global and the SELECT of a load are actions of their own.               *)
(***************************************************************************)
EXTENDS Naturals, Sequences

CONSTANTS
  Threads,
  Names, Contents,   \* documents
  Files,             \* name -> content of the files the seed call upserts
  FirstTable,        \* the table in the metadata database at the start
  SameDatabase,      \* does the lookup load from the metadata database?
  OtherTable,        \* else: the table it finds in the default database
  MaxWrites, MaxFailures, MaxRestarts,  \* bounds of the model
  None

Tables == [Names -> Contents \cup {None}]

ASSUME TablesAssumption ==
  /\ FirstTable \in Tables
  /\ OtherTable \in Tables
  /\ DOMAIN Files \subseteq Names
  /\ \A n \in DOMAIN Files : Files[n] \in Contents
  /\ None \notin Contents \cup Tables

ASSUME BoundsAssumption ==
  /\ SameDatabase \in BOOLEAN
  /\ MaxWrites \in Nat /\ MaxFailures \in Nat /\ MaxRestarts \in Nat

VARIABLES
  history,     \* committed states of the table, the last one is current
  cache,       \* _cache, None while it is the initial empty dict
  ready,       \* _cache_ready
  cooling,     \* is _next_retry_at in the future?
  pc,          \* what each thread is about to do
  lookup,      \* is its load on behalf of a lookup (else of an admin call)?
  rows,        \* rows its load has read, None when it has not
  failures, restarts

globals == <<cache, ready, cooling>>
vars == <<history, globals, pc, lookup, rows, failures, restarts>>

TypeOK ==
  /\ history \in Seq(Tables) /\ Len(history) \in 1..(MaxWrites + 1)
  /\ cache \in Tables \cup {None}
  /\ ready \in BOOLEAN
  /\ cooling \in BOOLEAN
  /\ pc \in [Threads -> {"idle", "checkReady", "checkRetry", "resetReady", "resetRetry",
                         "select", "setCache", "setReady", "setRetry"}]
  /\ lookup \in [Threads -> BOOLEAN]
  /\ rows \in [Threads -> Tables \cup {None}]
  /\ failures \in 0..MaxFailures
  /\ restarts \in 0..MaxRestarts

Init ==
  /\ history = <<FirstTable>>
  /\ cache = None
  /\ ready = FALSE
  /\ cooling = FALSE
  /\ pc = [t \in Threads |-> "idle"]
  /\ lookup = [t \in Threads |-> FALSE]
  /\ rows = [t \in Threads |-> None]
  /\ failures = 0
  /\ restarts = 0

Table == history[Len(history)]

\* t goes on at `next`.
Goto(t, next) == pc' = [pc EXCEPT ![t] = next]

(***************************************************************************)
(* get_policy / get_template: _ensure_cache, then the cached document.     *)
(***************************************************************************)

\* Mutant of RetryDue: after one failure the store is never loaded again.
NoFailureYet == failures = 0

RetryDue == ~cooling

BeginLookup(t) ==
  /\ pc[t] = "idle"
  /\ lookup' = [lookup EXCEPT ![t] = TRUE]
  /\ Goto(t, "checkReady")
  /\ UNCHANGED <<history, globals, rows, failures, restarts>>

\* A ready cache is served as it is.
CheckReady(t) ==
  /\ pc[t] = "checkReady"
  /\ Goto(t, IF ready THEN "idle" ELSE "checkRetry")
  /\ UNCHANGED <<history, globals, lookup, rows, failures, restarts>>

\* Within the cooldown of a failed load nothing is loaded.
CheckRetry(t) ==
  /\ pc[t] = "checkRetry"
  /\ Goto(t, IF RetryDue THEN "select" ELSE "idle")
  /\ UNCHANGED <<history, globals, lookup, rows, failures, restarts>>

CooldownEnds ==
  /\ cooling
  /\ cooling' = FALSE
  /\ UNCHANGED <<history, cache, ready, pc, lookup, rows, failures, restarts>>

(***************************************************************************)
(* upsert, delete, seed_from_dir and reload.                               *)
(***************************************************************************)

\* What an admin call writes: one document, the removal of one, all the files.
Writes == {[n \in {name} |-> content] : name \in Names, content \in Contents \cup {None}}
          \cup {Files}

\* Mutant of Written: a removed document loses its place in the table.
WrittenNamesOnly(w) == [n \in {m \in DOMAIN w : w[m] # None} |-> w[n]]

Written(w) == [n \in Names |-> IF n \in DOMAIN w THEN w[n] ELSE Table[n]]

\* The transaction commits; the call goes on with reload().
Write(t, w) ==
  /\ pc[t] = "idle"
  /\ Len(history) <= MaxWrites
  /\ history' = Append(history, Written(w))
  /\ lookup' = [lookup EXCEPT ![t] = FALSE]
  /\ Goto(t, "resetReady")
  /\ UNCHANGED <<globals, rows, failures, restarts>>

BeginReload(t) ==
  /\ pc[t] = "idle"
  /\ lookup' = [lookup EXCEPT ![t] = FALSE]
  /\ Goto(t, "resetReady")
  /\ UNCHANGED <<history, globals, rows, failures, restarts>>

ResetReady(t) ==
  /\ pc[t] = "resetReady"
  /\ ready' = FALSE
  /\ Goto(t, "resetRetry")
  /\ UNCHANGED <<history, cache, cooling, lookup, rows, failures, restarts>>

ResetRetry(t) ==
  /\ pc[t] = "resetRetry"
  /\ cooling' = FALSE
  /\ Goto(t, "select")
  /\ UNCHANGED <<history, cache, ready, lookup, rows, failures, restarts>>

(***************************************************************************)
(* _load_cache.                                                            *)
(***************************************************************************)

Select(t) ==
  /\ pc[t] = "select"
  /\ rows' = [rows EXCEPT ![t] =
       IF lookup[t] /\ ~SameDatabase THEN OtherTable ELSE Table]
  /\ Goto(t, "setCache")
  /\ UNCHANGED <<history, globals, lookup, failures, restarts>>

\* The database cannot be read: a lookup starts the cooldown and is served what
\* is cached, an admin call ends with the exception.
FailSelect(t) ==
  /\ pc[t] = "select"
  /\ failures < MaxFailures
  /\ failures' = failures + 1
  /\ cooling' = IF lookup[t] THEN TRUE ELSE cooling
  /\ Goto(t, "idle")
  /\ UNCHANGED <<history, cache, ready, lookup, rows, restarts>>

\* Mutant of SetCache: the rows are merged into the dict that is there.
UpdateCache(t) ==
  /\ pc[t] = "setCache"
  /\ cache' = [n \in Names |-> IF rows[t][n] # None \/ cache = None
                              THEN rows[t][n] ELSE cache[n]]
  /\ rows' = [rows EXCEPT ![t] = None]
  /\ Goto(t, "setReady")
  /\ UNCHANGED <<history, ready, cooling, lookup, failures, restarts>>

SetCache(t) ==
  /\ pc[t] = "setCache"
  /\ cache' = rows[t]
  /\ rows' = [rows EXCEPT ![t] = None]
  /\ Goto(t, "setReady")
  /\ UNCHANGED <<history, ready, cooling, lookup, failures, restarts>>

SetReady(t) ==
  /\ pc[t] = "setReady"
  /\ ready' = TRUE
  /\ Goto(t, "setRetry")
  /\ UNCHANGED <<history, cache, cooling, lookup, rows, failures, restarts>>

SetRetry(t) ==
  /\ pc[t] = "setRetry"
  /\ cooling' = FALSE
  /\ Goto(t, "idle")
  /\ UNCHANGED <<history, cache, ready, lookup, rows, failures, restarts>>

\* The process dies in any state and comes back with fresh module globals.
Restart ==
  /\ restarts < MaxRestarts
  /\ restarts' = restarts + 1
  /\ cache' = None
  /\ ready' = FALSE
  /\ cooling' = FALSE
  /\ pc' = [t \in Threads |-> "idle"]
  /\ rows' = [t \in Threads |-> None]
  /\ UNCHANGED <<history, lookup, failures>>

Load(t) == Select(t) \/ SetCache(t) \/ SetReady(t) \/ SetRetry(t)

Step(t) == CheckReady(t) \/ CheckRetry(t) \/ ResetReady(t) \/ ResetRetry(t) \/ Load(t)

Next ==
  \/ \E t \in Threads :
       \/ BeginLookup(t)
       \/ Step(t)
       \/ FailSelect(t)
       \/ BeginReload(t)
       \/ \E w \in Writes : Write(t, w)
  \/ CooldownEnds
  \/ Restart

Spec == Init /\ [][Next]_vars

\* Threads go on, time passes, and lookups keep coming; failures are finitely
\* many (MaxFailures), admin calls need not come.
Fairness ==
  /\ WF_vars(CooldownEnds)
  /\ \A t \in Threads : WF_vars(Step(t)) /\ WF_vars(BeginLookup(t))

FairSpec == Spec /\ Fairness

(***************************************************************************)
(* Properties.                                                             *)
(***************************************************************************)

\* Lookups are only ever answered from a state the metadata table really had: a
\* load replaces the whole cache by what one SELECT saw, so no lookup sees half
\* a seed, a removed document next to newer ones, or a cache marked ready before
\* its rows are in, whatever loads, reloads and writes run at the same time.
CacheIsCommittedTable ==
  /\ ready => cache # None
  /\ cache # None => \E i \in DOMAIN history : history[i] = cache

\* Failed loads delay the cache and never end it: the cooldown and a later
\* lookup always bring it back.
CacheComesBack == []<>ready

\* What the module says of writes: the cache follows them.  Once no thread is
\* inside a call, a ready cache holds the table as it is.
CacheFollowsWrites ==
  ready /\ (\A t \in Threads : pc[t] = "idle") => cache = Table
=============================================================================
