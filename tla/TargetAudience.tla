--------------------------- MODULE TargetAudience ---------------------------
(***************************************************************************)
(* Target audiences of api.py: execute_target_sql reads the members from   *)
(* the business database and _save_target_audience stores them in the      *)
(* metadata database, in one transaction of an INSERT, a COPY and an       *)
(* UPDATE; members are read page by page, each page one request of two     *)
(* statements; audiences are deleted, or cleaned up once they expired.     *)
(*                                                                         *)
(* Every statement is an action, and so is every row of a COPY, because    *)
(* concurrent COPYs draw their member ids from one sequence.  DELETE is    *)
(* the only statement of its transaction and is one action; its foreign    *)
(* key removes the members with the audience.  A saver is one call and     *)
(* names the audience it saves.                                            *)
(***************************************************************************)
EXTENDS Naturals, FiniteSets

CONSTANTS
  Savers,         \* calls that save an audience
  Pagers,         \* clients that read the members of an audience
  Users, Campaigns,
  Results,        \* what the query of a call may return
  Limits,         \* page sizes
  CleanupLimits,  \* sizes of a cleanup batch
  Ttls,           \* audience_ttl_days
  MaxTime,        \* bound of the model: the clock stops here
  None, Gone

Rows == [user : Users, campaign : Campaigns \cup {None}]

ASSUME ResultsAssumption ==
  \A result \in Results : result \subseteq Rows /\ IsFiniteSet(result)

ASSUME LimitsAssumption ==
  /\ Limits \subseteq Nat \ {0} /\ CleanupLimits \subseteq Nat \ {0}
  /\ Ttls \subseteq Nat \ {0} /\ MaxTime \in Nat

ASSUME NoneAssumption ==
  /\ None \notin Savers \cup Campaigns /\ None \notin Results
  /\ None \notin {"saved", "skipped", "error"}
  /\ Gone \notin Results \cup {None}

VARIABLES
  audiences,   \* committed campaign_target_audiences rows
  members,     \* committed campaign_target_audience_members rows
  nextMember,  \* sequence behind member_id
  now,         \* CURRENT_TIMESTAMP in days
  pc, result, draft, copied, outcome,     \* the savers
  reader, listing, limit, after, got, received  \* the pagers

saverVars == <<pc, result, draft, copied, outcome>>
pagerVars == <<reader, listing, limit, after, got, received>>
vars == <<audiences, members, nextMember, now, saverVars, pagerVars>>

Counted == [members : Nat, users : Nat, campaigns : Nat]

Audiences == [id : Savers, status : {"running", "completed"}, counts : Counted,
              expires : Nat]

Members == [audience : Savers, id : Nat, row : Rows]

TypeOK ==
  /\ audiences \subseteq Audiences
  /\ members \subseteq Members
  /\ nextMember \in Nat
  /\ now \in 0..MaxTime
  /\ pc \in [Savers -> {"idle", "insert", "copy", "complete", "commit", "done"}]
  /\ result \in [Savers -> Results \cup {None}]
  /\ draft \in [Savers -> Audiences \cup {None}]
  /\ copied \in [Savers -> SUBSET Members]
  /\ outcome \in [Savers -> {None, "saved", "skipped", "error"}]
  /\ reader \in [Pagers -> {"idle", "check", "page", "complete", "not_found"}]
  /\ listing \in [Pagers -> Savers \cup {None}]
  /\ limit \in [Pagers -> Limits \cup {None}]
  /\ after \in [Pagers -> Nat]
  /\ got \in [Pagers -> SUBSET Members]
  /\ received \in [Pagers -> Nat]

Init ==
  /\ audiences = {}
  /\ members = {}
  /\ nextMember = 1
  /\ now = 0
  /\ pc = [s \in Savers |-> "idle"]
  /\ result = [s \in Savers |-> None]
  /\ draft = [s \in Savers |-> None]
  /\ copied = [s \in Savers |-> {}]
  /\ outcome = [s \in Savers |-> None]
  /\ reader = [p \in Pagers |-> "idle"]
  /\ listing = [p \in Pagers |-> None]
  /\ limit = [p \in Pagers |-> None]
  /\ after = [p \in Pagers |-> 0]
  /\ got = [p \in Pagers |-> {}]
  /\ received = [p \in Pagers |-> 0]

AudienceIds == {a.id : a \in audiences}
MembersOf(id) == {m \in members : m.audience = id}
RowsOf(ms) == {m.row : m \in ms}

(***************************************************************************)
(* Saving.                                                                 *)
(***************************************************************************)

Counts(rows) ==
  [members   |-> Cardinality(rows),
   users     |-> Cardinality({r.user : r \in rows}),
   campaigns |-> Cardinality({r.campaign : r \in rows} \ {None})]

\* The business database is read; nothing is saved when the query fails, its
\* result is not sane, it has no user_id, or the request does not ask for it.
Execute(s) ==
  /\ pc[s] = "idle"
  /\ \/ /\ \E rows \in Results : result' = [result EXCEPT ![s] = rows]
        /\ pc' = [pc EXCEPT ![s] = "insert"]
        /\ UNCHANGED outcome
     \/ /\ pc' = [pc EXCEPT ![s] = "done"]
        /\ outcome' = [outcome EXCEPT ![s] = "skipped"]
        /\ UNCHANGED result
  /\ UNCHANGED <<audiences, members, nextMember, now, draft, copied, pagerVars>>

InsertAudience(s) ==
  /\ pc[s] = "insert"
  /\ \E ttl \in Ttls :
       draft' = [draft EXCEPT ![s] = [id |-> s, status |-> "running",
                                      counts |-> Counts({}), expires |-> now + ttl]]
  /\ pc' = [pc EXCEPT ![s] = IF result[s] = {} THEN "complete" ELSE "copy"]
  /\ UNCHANGED <<audiences, members, nextMember, now, result, copied, outcome, pagerVars>>

\* Mutant of CopyRow: every statement commits by itself.
CopyRowAutocommit(s) ==
  /\ pc[s] = "copy"
  /\ \E row \in result[s] \ RowsOf(copied[s]) :
       /\ copied' = [copied EXCEPT ![s] =
            @ \cup {[audience |-> s, id |-> nextMember, row |-> row]}]
       /\ members' = members \cup copied'[s]
  /\ audiences' = audiences \cup {draft[s]}
  /\ nextMember' = nextMember + 1
  /\ pc' = [pc EXCEPT ![s] = IF RowsOf(copied'[s]) = result[s] THEN "complete" ELSE "copy"]
  /\ UNCHANGED <<now, result, draft, outcome, pagerVars>>

\* One row of the COPY; it ends after the last one.
CopyRow(s) ==
  /\ pc[s] = "copy"
  /\ \E row \in result[s] \ RowsOf(copied[s]) :
       copied' = [copied EXCEPT ![s] =
         @ \cup {[audience |-> s, id |-> nextMember, row |-> row]}]
  /\ nextMember' = nextMember + 1
  /\ pc' = [pc EXCEPT ![s] = IF RowsOf(copied'[s]) = result[s] THEN "complete" ELSE "copy"]
  /\ UNCHANGED <<audiences, members, now, result, draft, outcome, pagerVars>>

\* Mutant of Complete: the status the schema does not know.
CompleteMisspelt(s) ==
  /\ pc[s] = "complete"
  /\ draft' = [draft EXCEPT ![s].status = "complete", ![s].counts = Counts(result[s])]
  /\ pc' = [pc EXCEPT ![s] = "commit"]
  /\ UNCHANGED <<audiences, members, nextMember, now, result, copied, outcome, pagerVars>>

\* The UPDATE with the counts of the rows that were read.
Complete(s) ==
  /\ pc[s] = "complete"
  /\ draft' = [draft EXCEPT ![s].status = "completed", ![s].counts = Counts(result[s])]
  /\ pc' = [pc EXCEPT ![s] = "commit"]
  /\ UNCHANGED <<audiences, members, nextMember, now, result, copied, outcome, pagerVars>>

Commit(s) ==
  /\ pc[s] = "commit"
  /\ audiences' = audiences \cup {draft[s]}
  /\ members' = members \cup copied[s]
  /\ pc' = [pc EXCEPT ![s] = "done"]
  /\ draft' = [draft EXCEPT ![s] = None]
  /\ copied' = [copied EXCEPT ![s] = {}]
  /\ outcome' = [outcome EXCEPT ![s] = "saved"]
  /\ UNCHANGED <<nextMember, now, result, pagerVars>>

\* A timeout, a lost connection, a dead process: rollback, the sequence stays.
Fail(s) ==
  /\ pc[s] \in {"insert", "copy", "complete", "commit"}
  /\ pc' = [pc EXCEPT ![s] = "done"]
  /\ draft' = [draft EXCEPT ![s] = None]
  /\ copied' = [copied EXCEPT ![s] = {}]
  /\ outcome' = [outcome EXCEPT ![s] = "error"]
  /\ UNCHANGED <<audiences, members, nextMember, now, result, pagerVars>>

(***************************************************************************)
(* Deleting.                                                               *)
(***************************************************************************)

\* Mutant of Remove: the foreign key does not cascade.
RemoveWithoutMembers(ids) ==
  /\ audiences' = {a \in audiences : a.id \notin ids}
  /\ UNCHANGED members

\* ON DELETE CASCADE.
Remove(ids) ==
  /\ audiences' = {a \in audiences : a.id \notin ids}
  /\ members' = {m \in members : m.audience \notin ids}

Delete(a) ==
  /\ Remove({a.id})
  /\ UNCHANGED <<nextMember, now, saverVars, pagerVars>>

Expired == {a \in audiences : a.expires < now}

\* The first ones to expire, at most `batch` of them.
Cleanup(batch) ==
  /\ \E first \in SUBSET Expired :
       /\ first # {}
       /\ Cardinality(first) <= batch
       /\ Cardinality(first) < batch => first = Expired
       /\ \A a \in first, b \in Expired \ first : a.expires <= b.expires
       /\ Remove({a.id : a \in first})
  /\ UNCHANGED <<nextMember, now, saverVars, pagerVars>>

Tick ==
  /\ now < MaxTime
  /\ now' = now + 1
  /\ UNCHANGED <<audiences, members, nextMember, saverVars, pagerVars>>

(***************************************************************************)
(* Reading the members.                                                    *)
(***************************************************************************)

BeginListing(p) ==
  /\ reader[p] = "idle"
  /\ \E id \in Savers : listing' = [listing EXCEPT ![p] = id]
  /\ \E size \in Limits : limit' = [limit EXCEPT ![p] = size]
  /\ reader' = [reader EXCEPT ![p] = "check"]
  /\ UNCHANGED <<audiences, members, nextMember, now, saverVars, after, got, received>>

CheckExists(p) ==
  /\ reader[p] = "check"
  /\ reader' = [reader EXCEPT ![p] =
                  IF listing[p] \in AudienceIds THEN "page" ELSE "not_found"]
  /\ UNCHANGED <<audiences, members, nextMember, now, saverVars,
                 listing, limit, after, got, received>>

\* ORDER BY member_id LIMIT size.
Before(rest, m) == {n \in rest : n.id < m.id}
FirstOf(rest, size) == {m \in rest : Cardinality(Before(rest, m)) < size}

\* Mutant of Page: the cursor is taken as the first id of the next page.
PageFromCursor(p) ==
  FirstOf({m \in MembersOf(listing[p]) : m.id > after[p] + 1}, limit[p])

Page(p) == FirstOf({m \in MembersOf(listing[p]) : m.id > after[p]}, limit[p])

\* A full page carries the cursor of the next one, any other ends the list.
ReadPage(p) ==
  /\ reader[p] = "page"
  /\ got' = [got EXCEPT ![p] = @ \cup Page(p)]
  /\ received' = [received EXCEPT ![p] = @ + Cardinality(Page(p))]
  /\ \/ /\ Cardinality(Page(p)) = limit[p]
        /\ \E last \in Page(p) :
             /\ \A m \in Page(p) : m.id <= last.id
             /\ after' = [after EXCEPT ![p] = last.id]
        /\ reader' = [reader EXCEPT ![p] = "check"]
     \/ /\ Cardinality(Page(p)) # limit[p]
        /\ reader' = [reader EXCEPT ![p] = "complete"]
        /\ UNCHANGED after
  /\ UNCHANGED <<audiences, members, nextMember, now, saverVars, listing, limit>>

\* A request that fails is repeated with the cursor it had.
FailPage(p) ==
  /\ reader[p] = "page"
  /\ reader' = [reader EXCEPT ![p] = "check"]
  /\ UNCHANGED <<audiences, members, nextMember, now, saverVars,
                 listing, limit, after, got, received>>

Next ==
  \/ \E s \in Savers :
       \/ Execute(s)
       \/ InsertAudience(s)
       \/ CopyRow(s)
       \/ Complete(s)
       \/ Commit(s)
       \/ Fail(s)
  \/ \E a \in audiences : Delete(a)
  \/ \E batch \in CleanupLimits : Cleanup(batch)
  \/ Tick
  \/ \E p \in Pagers :
       \/ BeginListing(p)
       \/ CheckExists(p)
       \/ ReadPage(p)
       \/ FailPage(p)

Spec == Init /\ [][Next]_vars

(***************************************************************************)
(* Properties.                                                             *)
(***************************************************************************)

\* What is stored is whole, whatever fails, is deleted or saved at the same
\* time: no audience stays "running", its counts are those of its member rows,
\* which are the rows its query returned, and no member outlives its audience.
SavedWhole ==
  /\ \A a \in audiences :
       /\ a.status = "completed"
       /\ RowsOf(MembersOf(a.id)) = result[a.id]
       /\ a.counts.members = Cardinality(MembersOf(a.id))
       /\ a.counts.users = Cardinality({m.row.user : m \in MembersOf(a.id)})
       /\ a.counts.campaigns =
            Cardinality({m.row.campaign : m \in MembersOf(a.id)} \ {None})
  /\ \A m \in members : m.audience \in AudienceIds

\* The pages a client collects never repeat a member and never contain one of
\* another audience, although member ids of several audiences interleave; a
\* list that ended is the whole audience as long as the audience is there.
PagesMakeTheAudience ==
  \A p \in Pagers :
    /\ received[p] = Cardinality(got[p])
    /\ listing[p] \in AudienceIds =>
         /\ got[p] \subseteq MembersOf(listing[p])
         /\ reader[p] = "complete" => got[p] = MembersOf(listing[p])

\* An audience is saved by one step, does not change, and disappears entirely.
StoreOf ==
  [s \in Savers |->
     IF s \in AudienceIds THEN RowsOf(MembersOf(s))
     ELSE IF outcome[s] = "saved" THEN Gone ELSE None]

Snapshots == INSTANCE AudienceSnapshots WITH Ids <- Savers, store <- StoreOf

ImplementsSnapshots == Snapshots!SnapshotSpec
=============================================================================
