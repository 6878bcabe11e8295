----------------------- MODULE TargetAudience_proofs -----------------------
(***************************************************************************)
(* Proofs about TargetAudience: types, whole audiences, the pages of a     *)
(* listing, and that the statements implement AudienceSnapshots, whose     *)
(* audiences last.                                                         *)
(***************************************************************************)
EXTENDS TargetAudience, FiniteSetTheorems, WellFoundedInduction, TLAPS

(***************************************************************************)
(* Least and greatest elements of sets of natural numbers.                 *)
(***************************************************************************)

LEMMA NatMin ==
  ASSUME NEW S \in SUBSET Nat, S # {}
  PROVE  \E n \in S : \A m \in S : n <= m
<1> DEFINE Intervals == {0..n : n \in S}
<1>1. Intervals \subseteq FiniteSubsetsOf(Nat)
  <2>1. \A n \in Nat : IsFiniteSet(0..n)
    BY FS_Interval
  <2>2. QED
    BY <2>1 DEF FiniteSubsetsOf
<1>2. Intervals # {}
  OBVIOUS
<1>3. PICK x \in Intervals : \A y \in Intervals : <<y, x>> \notin StrictSubsetOrdering(Nat)
  <2> HIDE DEF Intervals
  <2>1. QED
    BY <1>1, <1>2, FS_StrictSubsetOrderingWellFounded, WFMin
<1>4. PICK n \in S : x = 0..n
  OBVIOUS
<1>5. ASSUME NEW m \in S PROVE n <= m
  <2>1. SUFFICES ASSUME m < n PROVE FALSE
    OBVIOUS
  <2>2. /\ 0..m \in SUBSET Nat /\ 0..n \in SUBSET Nat
        /\ 0..m \subseteq 0..n /\ 0..m # 0..n
    BY <2>1
  <2>3. QED
    BY <1>3, <1>4, <2>2 DEF StrictSubsetOrdering
<1>6. QED
  BY <1>5

LEMMA NatMax ==
  ASSUME NEW S \in SUBSET Nat, S # {}, NEW bound \in Nat, \A n \in S : n <= bound
  PROVE  \E n \in S : \A m \in S : m <= n
<1> DEFINE Distances == {bound - n : n \in S}
<1>1. \A n \in S : bound - n \in Nat
  OBVIOUS
<1>2. Distances \in SUBSET Nat /\ Distances # {}
  BY <1>1
<1>3. PICK d \in Distances : \A e \in Distances : d <= e
  <2> HIDE DEF Distances
  <2>1. QED
    BY <1>2, NatMin
<1>4. PICK n \in S : d = bound - n
  OBVIOUS
<1>5. \A m \in S : bound - n <= bound - m
  BY <1>3, <1>4
<1>6. QED
  BY <1>5

(***************************************************************************)
(* The first `size` members of a set: what ORDER BY member_id LIMIT gives. *)
(***************************************************************************)

LEMMA BeforeFinite ==
  ASSUME NEW rest, IsFiniteSet(rest)
  PROVE  \A m : Before(rest, m) \subseteq rest /\ IsFiniteSet(Before(rest, m))
                /\ Cardinality(Before(rest, m)) \in Nat
<1>1. \A m : Before(rest, m) \in SUBSET rest
  BY DEF Before
<1>2. QED
  BY <1>1, FS_Subset, FS_CardinalityType

\* Whoever precedes one of the first ones is one of them.
LEMMA FirstOnesAreAPrefix ==
  ASSUME NEW rest \in SUBSET Members, IsFiniteSet(rest), NEW size \in Nat,
         NEW m \in FirstOf(rest, size), NEW n \in rest, n.id <= m.id
  PROVE  n \in FirstOf(rest, size)
<1>1. m \in rest /\ m.id \in Nat /\ n.id \in Nat /\ \A o \in rest : o.id \in Nat
  BY DEF FirstOf, Members
<1>2. Before(rest, n) \in SUBSET Before(rest, m)
  BY <1>1 DEF Before
<1>3. Cardinality(Before(rest, n)) <= Cardinality(Before(rest, m))
  BY <1>2, BeforeFinite, FS_Subset
<1>4. Cardinality(Before(rest, m)) < size
  BY DEF FirstOf
<1>5. QED
  BY <1>3, <1>4, BeforeFinite DEF FirstOf

\* There are never more than `size` of them.
LEMMA FirstOnesAreFew ==
  ASSUME NEW rest \in SUBSET Members, IsFiniteSet(rest), NEW size \in Nat \ {0},
         \A m, n \in rest : m.id = n.id => m = n,
         NEW bound \in Nat, \A m \in rest : m.id <= bound
  PROVE  /\ IsFiniteSet(FirstOf(rest, size))
         /\ Cardinality(FirstOf(rest, size)) \in Nat
         /\ Cardinality(FirstOf(rest, size)) <= size
<1> DEFINE page == FirstOf(rest, size)
<1>1. page \in SUBSET rest
  BY DEF FirstOf
<1>2. IsFiniteSet(page) /\ Cardinality(page) \in Nat
  BY <1>1, FS_Subset, FS_CardinalityType
<1>3. CASE page = {}
  BY <1>2, <1>3, FS_EmptySet
<1>4. CASE page # {}
  <2> DEFINE ids == {m.id : m \in page}
  <2>1. ids \in SUBSET Nat /\ ids # {} /\ \A i \in ids : i <= bound
    BY <1>1, <1>4 DEF Members
  <2>2. PICK i \in ids : \A j \in ids : j <= i
    <3> HIDE DEF ids, page
    <3>1. QED
      BY <2>1, NatMax
  <2>3. PICK x \in page : \A m \in page : m.id <= x.id
    BY <2>2
  <2>4. page \ {x} \in SUBSET Before(rest, x)
    <3>1. ASSUME NEW m \in page, m # x PROVE m.id < x.id
      <4>1. m \in rest /\ x \in rest /\ m.id \in Nat /\ x.id \in Nat
        BY <1>1 DEF Members
      <4>2. m.id <= x.id /\ m.id # x.id
        BY <2>3, <3>1, <4>1
      <4>3. QED
        BY <4>1, <4>2
    <3>2. QED
      BY <1>1, <3>1 DEF Before
  <2>5. Cardinality(page \ {x}) <= Cardinality(Before(rest, x))
    BY <2>4, BeforeFinite, FS_Subset
  <2>6. Cardinality(Before(rest, x)) < size
    BY <2>3 DEF FirstOf
  <2>7. Cardinality(page \ {x}) = Cardinality(page) - 1
    <3> HIDE DEF page
    <3>1. QED
      BY <1>2, <2>3, FS_RemoveElement
  <2>8. Cardinality(Before(rest, x)) \in Nat
    BY BeforeFinite
  <2> HIDE DEF page
  <2>9. Cardinality(page) <= size
    BY <1>2, <2>5, <2>6, <2>7, <2>8
  <2>10. QED
    BY <1>2, <2>9 DEF page
<1>5. QED
  BY <1>3, <1>4

\* When there are not `size` of them, nothing follows them.
LEMMA ShortPageIsLast ==
  ASSUME NEW rest \in SUBSET Members, IsFiniteSet(rest), NEW size \in Nat \ {0},
         \A m, n \in rest : m.id = n.id => m = n,
         NEW bound \in Nat, \A m \in rest : m.id <= bound,
         Cardinality(FirstOf(rest, size)) # size
  PROVE  FirstOf(rest, size) = rest
<1> DEFINE page == FirstOf(rest, size)
           left == rest \ page
           ids == {m.id : m \in left}
<1>1. SUFFICES ASSUME left # {} PROVE FALSE
  BY DEF FirstOf
<1>2. ids \in SUBSET Nat /\ ids # {}
  BY <1>1 DEF Members
<1>3. PICK i \in ids : \A j \in ids : i <= j
  <2> HIDE DEF ids
  <2>1. QED
    BY <1>2, NatMin
<1>4. PICK x \in left : \A m \in left : x.id <= m.id
  BY <1>3
<1>5. Before(rest, x) \in SUBSET page
  <2>1. ASSUME NEW m \in rest, m.id < x.id, m \in left PROVE FALSE
    BY <1>4, <2>1 DEF Members
  <2>2. QED
    BY <2>1 DEF Before
<1>6. IsFiniteSet(page) /\ Cardinality(page) \in Nat /\ Cardinality(page) <= size
  BY FirstOnesAreFew
<1>7. Cardinality(Before(rest, x)) <= Cardinality(page)
  <2> HIDE DEF page
  <2>1. QED
    BY <1>5, <1>6, FS_Subset
<1>8. ~(Cardinality(Before(rest, x)) < size)
  BY <1>4 DEF FirstOf
<1>9. Cardinality(Before(rest, x)) \in Nat
  BY BeforeFinite
<1>10. Cardinality(page) # size
  OBVIOUS
<1> HIDE DEF page, left, ids
<1>11. QED
  BY <1>6, <1>7, <1>8, <1>9, <1>10

(***************************************************************************)
(* Types.  A saver has read its rows before it inserts, and has an         *)
(* audience row before it copies.                                          *)
(***************************************************************************)

DraftInv ==
  \A s \in Savers :
    /\ pc[s] \in {"insert", "copy", "complete", "commit"} => result[s] \in Results
    /\ pc[s] \in {"copy", "complete", "commit"} =>
         draft[s] \in Audiences /\ draft[s].id = s

ReaderInv ==
  \A p \in Pagers :
    IF reader[p] = "idle" THEN got[p] = {} /\ after[p] = 0 /\ received[p] = 0
                               /\ listing[p] = None
    ELSE listing[p] \in Savers /\ limit[p] \in Limits

FiniteInv ==
  /\ IsFiniteSet(members)
  /\ \A s \in Savers : IsFiniteSet(copied[s])

TypeInv == TypeOK /\ DraftInv /\ ReaderInv /\ FiniteInv

LEMMA CountsType ==
  ASSUME NEW rows, IsFiniteSet(rows)
  PROVE  Counts(rows) \in Counted
<1> DEFINE users == {r.user : r \in rows}
           campaigns == {r.campaign : r \in rows}
<1>1. Cardinality(users) \in Nat
  <2> DEFINE f == [r \in rows |-> r.user]
  <2>1. f \in Surjection(rows, users)
    BY DEF Surjection
  <2> HIDE DEF f, users
  <2>2. QED
    BY <2>1, FS_Surjection, FS_CardinalityType
<1>2. IsFiniteSet(campaigns)
  <2> DEFINE f == [r \in rows |-> r.campaign]
  <2>1. f \in Surjection(rows, campaigns)
    BY DEF Surjection
  <2> HIDE DEF f, campaigns
  <2>2. QED
    BY <2>1, FS_Surjection
<1>3. Cardinality(campaigns \ {None}) \in Nat
  <2> HIDE DEF campaigns
  <2>1. QED
    BY <1>2, FS_RemoveElement, FS_CardinalityType
<1>4. Cardinality(rows) \in Nat
  BY FS_CardinalityType
<1>5. QED
  BY <1>1, <1>3, <1>4 DEF Counts, Counted

LEMMA PageType ==
  ASSUME TypeInv, NEW p \in Pagers, reader[p] # "idle"
  PROVE  Page(p) \in SUBSET Members /\ IsFiniteSet(Page(p)) /\ Cardinality(Page(p)) \in Nat
<1>1. Page(p) \in SUBSET members
  BY DEF Page, FirstOf, MembersOf
<1>2. QED
  BY <1>1, FS_Subset, FS_CardinalityType DEF TypeInv, TypeOK, FiniteInv

LEMMA TypeInvInit == Init => TypeInv
<1> SUFFICES ASSUME Init PROVE TypeInv
  OBVIOUS
<1>1. 0 \in 0..MaxTime
  BY LimitsAssumption
<1>2. TypeOK
  BY <1>1 DEF Init, TypeOK
<1>3. DraftInv /\ ReaderInv
  BY DEF Init, DraftInv, ReaderInv
<1>4. FiniteInv
  BY FS_EmptySet DEF Init, FiniteInv
<1>5. QED
  BY <1>2, <1>3, <1>4 DEF TypeInv

LEMMA SaverTypes ==
  ASSUME TypeInv, NEW s \in Savers,
         Execute(s) \/ InsertAudience(s) \/ CopyRow(s) \/ Complete(s) \/ Commit(s) \/ Fail(s)
  PROVE  TypeInv'
<1> USE DEF TypeInv
<1>0. ReaderInv' /\ UNCHANGED <<now, pagerVars>>
  BY DEF Execute, InsertAudience, CopyRow, Complete, Commit, Fail, ReaderInv, pagerVars
<1>1. CASE Execute(s)
  BY <1>0, <1>1 DEF Execute, TypeOK, DraftInv, FiniteInv, pagerVars
<1>2. CASE InsertAudience(s)
  <2>1. PICK ttl \in Ttls :
          draft' = [draft EXCEPT ![s] = [id |-> s, status |-> "running",
                                         counts |-> Counts({}), expires |-> now + ttl]]
    BY <1>2 DEF InsertAudience
  <2>2. Counts({}) \in Counted
    BY CountsType, FS_EmptySet
  <2>3. now + ttl \in Nat
    BY LimitsAssumption DEF TypeOK
  <2>4. draft'[s] \in Audiences /\ draft'[s].id = s
    BY <2>1, <2>2, <2>3 DEF TypeOK, Audiences
  <2>5. QED
    BY <1>0, <1>2, <2>1, <2>4 DEF InsertAudience, TypeOK, DraftInv, FiniteInv, pagerVars
<1>3. CASE CopyRow(s)
  <2>1. PICK row \in result[s] \ RowsOf(copied[s]) :
          copied' = [copied EXCEPT ![s] =
            @ \cup {[audience |-> s, id |-> nextMember, row |-> row]}]
    BY <1>3 DEF CopyRow
  <2>2. row \in Rows
    BY <1>3, <2>1, ResultsAssumption DEF CopyRow, DraftInv
  <2>3. [audience |-> s, id |-> nextMember, row |-> row] \in Members
    BY <2>2 DEF Members, TypeOK
  <2>4. copied' \in [Savers -> SUBSET Members]
    BY <2>1, <2>3 DEF TypeOK
  <2>5. \A q \in Savers : IsFiniteSet(copied'[q])
    BY <2>1, FS_AddElement DEF TypeOK, FiniteInv
  <2>6. PICK next \in {"complete", "copy"} : pc' = [pc EXCEPT ![s] = next]
    BY <1>3 DEF CopyRow
  <2>7. /\ nextMember' \in Nat
        /\ UNCHANGED <<audiences, members, now, result, draft, outcome, pagerVars>>
    BY <1>3 DEF CopyRow, TypeOK
  <2>8. TypeOK'
    BY <2>4, <2>6, <2>7 DEF TypeOK, pagerVars
  <2>9. pc[s] = "copy"
    BY <1>3 DEF CopyRow
  <2>10. DraftInv'
    BY <2>6, <2>7, <2>9 DEF DraftInv, TypeOK
  <2>11. QED
    BY <1>0, <2>5, <2>7, <2>8, <2>10 DEF FiniteInv
<1>4. CASE Complete(s)
  <2>1. Counts(result[s]) \in Counted
    BY <1>4, CountsType, ResultsAssumption DEF Complete, DraftInv
  <2>2. draft'[s] \in Audiences /\ draft'[s].id = s
    <3>1. draft[s] \in Audiences /\ draft[s].id = s
      BY <1>4 DEF Complete, DraftInv
    <3>2. draft'[s] = [draft[s] EXCEPT !.status = "completed", !.counts = Counts(result[s])]
      BY <1>4 DEF Complete, TypeOK
    <3>3. QED
      BY <2>1, <3>1, <3>2 DEF Audiences
  <2>3. QED
    BY <1>0, <1>4, <2>2 DEF Complete, TypeOK, DraftInv, FiniteInv, pagerVars
<1>5. CASE Commit(s)
  <2>1. draft[s] \in Audiences
    BY <1>5 DEF Commit, DraftInv
  <2>2. IsFiniteSet(members')
    BY <1>5, FS_Union DEF Commit, FiniteInv
  <2>3. QED
    BY <1>0, <1>5, <2>1, <2>2, FS_EmptySet DEF Commit, TypeOK, DraftInv, FiniteInv, pagerVars
<1>6. CASE Fail(s)
  BY <1>0, <1>6, FS_EmptySet DEF Fail, TypeOK, DraftInv, FiniteInv, pagerVars
<1>7. QED
  BY <1>1, <1>2, <1>3, <1>4, <1>5, <1>6

\* A deletion removes audiences and exactly their members.
Removal ==
  /\ \E ids \in SUBSET AudienceIds : Remove(ids)
  /\ UNCHANGED <<nextMember, now, saverVars, pagerVars>>

LEMMA DeletionsRemove ==
  ASSUME (\E a \in audiences : Delete(a)) \/ (\E batch \in CleanupLimits : Cleanup(batch))
  PROVE  Removal
<1>1. ASSUME NEW a \in audiences, Delete(a) PROVE Removal
  <2>1. {a.id} \in SUBSET AudienceIds
    BY DEF AudienceIds
  <2>2. QED
    BY <1>1, <2>1 DEF Delete, Removal
<1>2. ASSUME NEW batch \in CleanupLimits, Cleanup(batch) PROVE Removal
  <2>1. PICK first \in SUBSET Expired : Remove({a.id : a \in first})
    BY <1>2 DEF Cleanup
  <2>2. {a.id : a \in first} \in SUBSET AudienceIds
    BY DEF AudienceIds, Expired
  <2>3. QED
    BY <1>2, <2>1, <2>2 DEF Cleanup, Removal
<1>3. QED
  BY <1>1, <1>2

LEMMA RemovalTypes ==
  ASSUME TypeInv, Removal
  PROVE  TypeInv'
<1>1. audiences' \in SUBSET audiences /\ members' \in SUBSET members
  BY DEF Removal, Remove
<1>2. IsFiniteSet(members')
  BY <1>1, FS_Subset DEF TypeInv, FiniteInv
<1>3. QED
  BY <1>1, <1>2 DEF Removal, TypeInv, TypeOK, DraftInv, ReaderInv, FiniteInv,
                    saverVars, pagerVars

LEMMA PagerTypes ==
  ASSUME TypeInv, NEW p \in Pagers,
         BeginListing(p) \/ CheckExists(p) \/ ReadPage(p) \/ FailPage(p)
  PROVE  TypeInv'
<1> USE DEF TypeInv
<1>0. DraftInv' /\ FiniteInv' /\ UNCHANGED <<audiences, members, nextMember, now, saverVars>>
  BY DEF BeginListing, CheckExists, ReadPage, FailPage, DraftInv, FiniteInv, saverVars
<1>1. CASE BeginListing(p)
  BY <1>0, <1>1 DEF BeginListing, TypeOK, ReaderInv, saverVars
<1>2. CASE CheckExists(p) \/ FailPage(p)
  BY <1>0, <1>2 DEF CheckExists, FailPage, TypeOK, ReaderInv, saverVars
<1>3. CASE ReadPage(p)
  <2>1. Page(p) \in SUBSET Members /\ Cardinality(Page(p)) \in Nat
    BY <1>3, PageType DEF ReadPage
  <2>2. after' \in [Pagers -> Nat]
    BY <1>3, <2>1 DEF ReadPage, TypeOK, Members
  <2>3. got' \in [Pagers -> SUBSET Members] /\ received' \in [Pagers -> Nat]
    BY <1>3, <2>1 DEF ReadPage, TypeOK
  <2>4. QED
    BY <1>0, <1>3, <2>2, <2>3 DEF ReadPage, TypeOK, ReaderInv, saverVars
<1>4. QED
  BY <1>1, <1>2, <1>3

LEMMA TypeInvNext == TypeInv /\ [Next]_vars => TypeInv'
<1> SUFFICES ASSUME TypeInv, [Next]_vars PROVE TypeInv'
  OBVIOUS
<1>1. CASE UNCHANGED vars
  BY <1>1 DEF vars, saverVars, pagerVars, TypeInv, TypeOK, DraftInv, ReaderInv, FiniteInv
<1>2. CASE Tick
  <2>1. now' \in 0..MaxTime
    BY <1>2, LimitsAssumption DEF Tick, TypeInv, TypeOK
  <2>2. QED
    BY <1>2, <2>1 DEF Tick, saverVars, pagerVars, TypeInv, TypeOK, DraftInv, ReaderInv, FiniteInv
<1>3. QED
  BY <1>1, <1>2, SaverTypes, PagerTypes, DeletionsRemove, RemovalTypes DEF Next

\* Every reachable state of the target audience endpoints is well typed.
THEOREM TypeCorrect == Spec => []TypeOK
<1>1. Spec => []TypeInv
  BY TypeInvInit, TypeInvNext, PTL DEF Spec
<1>2. TypeInv => TypeOK
  BY DEF TypeInv
<1>3. QED
  BY <1>1, <1>2, PTL

(***************************************************************************)
(* Whole audiences.  Member ids are unique over everything the sequence    *)
(* numbered, committed or not; what a saver copied is its own; and what    *)
(* it commits is everything its query returned.                            *)
(***************************************************************************)

Numbered == members \cup UNION {copied[s] : s \in Savers}

IdInv ==
  /\ nextMember >= 1
  /\ \A m \in Numbered : 1 <= m.id /\ m.id < nextMember
  /\ \A m, n \in Numbered :
       m.id = n.id \/ (m.audience = n.audience /\ m.row = n.row) => m = n

SaverInv ==
  \A s \in Savers :
    /\ outcome[s] = None <=> pc[s] # "done"
    /\ outcome[s] = "saved" => result[s] \in Results
    /\ \A m \in copied[s] : m.audience = s
    /\ pc[s] \in {"idle", "insert"} => copied[s] = {}
    /\ pc[s] \in {"complete", "commit"} => RowsOf(copied[s]) = result[s]
    /\ pc[s] = "commit" => /\ draft[s].status = "completed"
                          /\ draft[s].counts = Counts(result[s])

StoreInv ==
  /\ \A a \in audiences :
       /\ outcome[a.id] = "saved"
       /\ a.status = "completed"
       /\ a.counts = Counts(result[a.id])
       /\ RowsOf(MembersOf(a.id)) = result[a.id]
  /\ \A m \in members : m.audience \in AudienceIds

WholeInv == IdInv /\ SaverInv /\ StoreInv

LEMMA WholeInvInit == Init => WholeInv
  BY NoneAssumption DEF Init, WholeInv, IdInv, SaverInv, StoreInv, Numbered

\* A call that is not done has no audience and no members.
LEMMA NothingSavedYet ==
  ASSUME WholeInv, NEW s \in Savers, outcome[s] # "saved"
  PROVE  s \notin AudienceIds /\ MembersOf(s) = {}
<1>1. s \notin AudienceIds
  BY DEF WholeInv, StoreInv, AudienceIds
<1>2. QED
  BY <1>1 DEF WholeInv, StoreInv, MembersOf

\* What numbered nothing new keeps the ids unique.
LEMMA NothingNumbered ==
  ASSUME IdInv, Numbered' \subseteq Numbered, UNCHANGED nextMember
  PROVE  IdInv'
  BY DEF IdInv

LEMMA SaversKeepWhole ==
  ASSUME TypeInv, WholeInv, NEW s \in Savers,
         Execute(s) \/ InsertAudience(s) \/ CopyRow(s) \/ Complete(s) \/ Commit(s) \/ Fail(s)
  PROVE  WholeInv'
<1> USE DEF WholeInv
<1>0. outcome[s] = None /\ pc[s] # "done"
  BY DEF Execute, InsertAudience, CopyRow, Complete, Commit, Fail, SaverInv
<1>00. s \notin AudienceIds /\ MembersOf(s) = {}
  BY <1>0, NothingSavedYet, NoneAssumption
<1>1. CASE Execute(s)
  <2>1. IdInv'
    BY <1>1, NothingNumbered DEF Execute, Numbered
  <2>2. \A a \in audiences : a.id # s
    BY <1>00 DEF AudienceIds
  <2>3. StoreInv'
    BY <1>1, <2>2 DEF Execute, StoreInv, AudienceIds, MembersOf, TypeInv, TypeOK, Audiences
  <2>4. SaverInv'
    BY <1>1, NoneAssumption DEF Execute, SaverInv, TypeInv, TypeOK
  <2>5. QED
    BY <2>1, <2>3, <2>4
<1>2. CASE InsertAudience(s)
  <2>1. IdInv'
    BY <1>2, NothingNumbered DEF InsertAudience, Numbered
  <2>2. StoreInv'
    BY <1>2 DEF InsertAudience, StoreInv, AudienceIds, MembersOf
  <2>3. RowsOf({}) = {}
    BY DEF RowsOf
  <2>4. SaverInv'
    BY <1>2, <2>3 DEF InsertAudience, SaverInv, TypeInv, TypeOK
  <2>5. QED
    BY <2>1, <2>2, <2>4
<1>3. CASE CopyRow(s)
  <2>1. PICK row \in result[s] \ RowsOf(copied[s]) :
          copied' = [copied EXCEPT ![s] =
            @ \cup {[audience |-> s, id |-> nextMember, row |-> row]}]
    BY <1>3 DEF CopyRow
  <2> DEFINE new == [audience |-> s, id |-> nextMember, row |-> row]
  <2>2. /\ UNCHANGED <<audiences, members, result, draft, outcome>>
        /\ nextMember' = nextMember + 1 /\ nextMember \in Nat
        /\ pc[s] = "copy"
        /\ pc' = [pc EXCEPT ![s] = IF RowsOf(copied'[s]) = result[s] THEN "complete" ELSE "copy"]
    BY <1>3 DEF CopyRow, TypeInv, TypeOK
  <2>3. /\ copied'[s] = copied[s] \cup {new}
        /\ \A q \in Savers \ {s} : copied'[q] = copied[q]
    BY <2>1 DEF TypeInv, TypeOK
  <2>4. Numbered' \subseteq Numbered \cup {new}
    BY <2>2, <2>3 DEF Numbered
  <2>5. \A m \in Numbered : m.id \in Nat
    BY DEF Numbered, TypeInv, TypeOK, Members
  <2>6. ASSUME NEW m \in Numbered, m.audience = s PROVE m.row # row
    <3>1. m \in copied[s]
      BY <1>00, <2>6 DEF Numbered, MembersOf, SaverInv
    <3>2. QED
      BY <2>1, <3>1 DEF RowsOf
  <2>7. IdInv'
    BY <2>2, <2>4, <2>5, <2>6 DEF IdInv
  <2>8. StoreInv'
    BY <2>2 DEF StoreInv, AudienceIds, MembersOf
  <2>9. SaverInv'
    <3>1. /\ pc'[s] \in {"copy", "complete"}
          /\ pc'[s] = "complete" => RowsOf(copied'[s]) = result[s]
          /\ \A q \in Savers \ {s} : pc'[q] = pc[q]
      BY <2>2 DEF TypeInv, TypeOK
    <3>2. \A m \in copied'[s] : m.audience = s
      BY <2>3 DEF SaverInv
    <3>3. QED
      BY <1>0, <2>2, <2>3, <3>1, <3>2 DEF SaverInv, RowsOf
  <2>10. QED
    BY <2>7, <2>8, <2>9
<1>4. CASE Complete(s)
  <2>1. IdInv'
    BY <1>4, NothingNumbered DEF Complete, Numbered
  <2>2. StoreInv'
    BY <1>4 DEF Complete, StoreInv, AudienceIds, MembersOf
  <2>3. /\ draft[s] \in Audiences /\ draft \in [Savers -> Audiences \cup {None}]
        /\ draft'[s] = [draft[s] EXCEPT !.status = "completed", !.counts = Counts(result[s])]
    BY <1>4 DEF Complete, TypeInv, TypeOK, DraftInv
  <2>4. draft'[s].status = "completed" /\ draft'[s].counts = Counts(result[s])
    BY <2>3 DEF Audiences
  <2>5. SaverInv'
    BY <1>4, <2>4 DEF Complete, SaverInv, TypeInv, TypeOK
  <2>6. QED
    BY <2>1, <2>2, <2>5
<1>5. CASE Commit(s)
  <2>1. /\ draft[s] \in Audiences /\ draft[s].id = s
        /\ audiences' = audiences \cup {draft[s]}
        /\ members' = members \cup copied[s]
        /\ copied' = [copied EXCEPT ![s] = {}]
        /\ outcome' = [outcome EXCEPT ![s] = "saved"]
        /\ pc' = [pc EXCEPT ![s] = "done"]
        /\ pc[s] = "commit"
        /\ UNCHANGED <<result, nextMember>>
    BY <1>5 DEF Commit, TypeInv, DraftInv
  <2>2. /\ AudienceIds' = AudienceIds \cup {s}
        /\ outcome'[s] = "saved"
        /\ \A q \in Savers \ {s} : outcome'[q] = outcome[q]
    BY <2>1 DEF AudienceIds, TypeInv, TypeOK
  <2>3. MembersOf(s)' = copied[s]
    BY <1>00, <2>1 DEF MembersOf, SaverInv
  <2>4. \A id : id # s => MembersOf(id)' = MembersOf(id)
    BY <2>1 DEF MembersOf, SaverInv
  <2>5. IdInv'
    <3>1. Numbered' \subseteq Numbered
      BY <2>1 DEF Numbered, TypeInv, TypeOK
    <3>2. QED
      BY <2>1, <3>1, NothingNumbered
  <2>6. StoreInv'
    <3>1. ASSUME NEW a \in audiences'
          PROVE  /\ outcome'[a.id] = "saved" /\ a.status = "completed"
                 /\ a.counts = Counts(result'[a.id])
                 /\ RowsOf(MembersOf(a.id)') = result'[a.id]
      <4>1. CASE a = draft[s]
        BY <2>1, <2>2, <2>3, <4>1 DEF SaverInv
      <4>2. CASE a \in audiences
        <5>1. a.id # s /\ a.id \in Savers
          BY <1>00, <4>2 DEF AudienceIds, TypeInv, TypeOK, Audiences
        <5>2. QED
          BY <2>1, <2>2, <2>4, <4>2, <5>1 DEF StoreInv
      <4>3. QED
        BY <2>1, <4>1, <4>2
    <3>2. \A m \in members' : m.audience \in AudienceIds'
      BY <2>1, <2>2 DEF StoreInv, SaverInv
    <3>3. QED
      BY <3>1, <3>2 DEF StoreInv, RowsOf
  <2>7. SaverInv'
    BY <1>5, NoneAssumption DEF Commit, SaverInv, TypeInv, TypeOK, DraftInv
  <2>8. QED
    BY <2>5, <2>6, <2>7
<1>6. CASE Fail(s)
  <2>1. Numbered' \subseteq Numbered
    BY <1>6 DEF Fail, Numbered, TypeInv, TypeOK
  <2>2. IdInv'
    BY <1>6, <2>1, NothingNumbered DEF Fail
  <2>3. \A a \in audiences : a.id # s
    BY <1>00 DEF AudienceIds
  <2>4. StoreInv'
    BY <1>6, <2>3 DEF Fail, StoreInv, AudienceIds, MembersOf, TypeInv, TypeOK, Audiences
  <2>5. SaverInv'
    BY <1>6, NoneAssumption DEF Fail, SaverInv, TypeInv, TypeOK
  <2>6. QED
    BY <2>2, <2>4, <2>5
<1>7. QED
  BY <1>1, <1>2, <1>3, <1>4, <1>5, <1>6

LEMMA RemovalKeepsWhole ==
  ASSUME TypeInv, WholeInv, Removal
  PROVE  WholeInv'
<1> USE DEF WholeInv
<1>1. PICK ids \in SUBSET AudienceIds : Remove(ids)
  BY DEF Removal
<1>2. UNCHANGED <<nextMember, pc, result, draft, copied, outcome>>
  BY DEF Removal, saverVars
<1>3. AudienceIds' = AudienceIds \ ids
  BY <1>1 DEF Remove, AudienceIds
<1>4. \A id : id \notin ids => MembersOf(id)' = MembersOf(id)
  BY <1>1 DEF Remove, MembersOf
<1>5. IdInv'
  BY <1>1, <1>2, NothingNumbered DEF Remove, Numbered
<1>6. SaverInv'
  BY <1>2 DEF SaverInv, RowsOf
<1>7. StoreInv'
  <2>1. ASSUME NEW a \in audiences' PROVE a \in audiences /\ a.id \notin ids
    BY <1>1, <2>1 DEF Remove
  <2>2. \A a \in audiences' : RowsOf(MembersOf(a.id)') = RowsOf(MembersOf(a.id))
    BY <1>4, <2>1
  <2>3. \A m \in members' : m \in members /\ m.audience \notin ids
    BY <1>1 DEF Remove
  <2>4. QED
    BY <1>2, <1>3, <2>1, <2>2, <2>3 DEF StoreInv, RowsOf
<1>8. QED
  BY <1>5, <1>6, <1>7

LEMMA WholeInvNext == TypeInv /\ WholeInv /\ [Next]_vars => WholeInv'
<1> SUFFICES ASSUME TypeInv, WholeInv, [Next]_vars PROVE WholeInv'
  OBVIOUS
<1>1. CASE UNCHANGED <<audiences, members, nextMember, saverVars>>
  BY <1>1 DEF WholeInv, IdInv, SaverInv, StoreInv, Numbered, AudienceIds, MembersOf, RowsOf,
              saverVars
<1>2. CASE UNCHANGED vars \/ Tick
  BY <1>1, <1>2 DEF vars, Tick, saverVars
<1>3. ASSUME NEW p \in Pagers,
             BeginListing(p) \/ CheckExists(p) \/ ReadPage(p) \/ FailPage(p)
      PROVE  WholeInv'
  BY <1>1, <1>3 DEF BeginListing, CheckExists, ReadPage, FailPage, saverVars
<1>4. QED
  BY <1>2, <1>3, SaversKeepWhole, DeletionsRemove, RemovalKeepsWhole DEF Next

LEMMA SpecWhole == Spec => [](TypeInv /\ WholeInv)
<1>1. Init => TypeInv /\ WholeInv
  BY TypeInvInit, WholeInvInit
<1>2. TypeInv /\ WholeInv /\ [Next]_vars => (TypeInv /\ WholeInv)'
  BY TypeInvNext, WholeInvNext
<1>3. QED
  BY <1>1, <1>2, PTL DEF Spec

\* Members of one audience and its rows are as many.
LEMMA AsManyMembersAsRows ==
  ASSUME TypeInv, WholeInv, NEW a \in audiences
  PROVE  Cardinality(MembersOf(a.id)) = Cardinality(result[a.id])
<1> DEFINE ms == MembersOf(a.id)
           f == [m \in ms |-> m.row]
<1>1. IsFiniteSet(ms)
  <2>1. ms \in SUBSET members
    BY DEF MembersOf
  <2>2. QED
    BY <2>1, FS_Subset DEF TypeInv, FiniteInv
<1>2. \A m, n \in ms : m.row = n.row => m = n
  BY DEF MembersOf, WholeInv, IdInv, Numbered
<1>3. result[a.id] = RowsOf(ms)
  BY DEF WholeInv, StoreInv
<1>4. f \in Bijection(ms, result[a.id])
  BY <1>2, <1>3 DEF Bijection, Injection, Surjection, IsInjective, RowsOf
<1>5. ExistsBijection(ms, result[a.id])
  BY <1>4 DEF ExistsBijection
<1> HIDE DEF ms
<1>6. QED
  BY <1>1, <1>5, FS_Bijection DEF ms

\* Whatever fails, is deleted or saved at the same time: audiences are whole.
THEOREM AudiencesAreWhole == Spec => []SavedWhole
<1>1. TypeInv /\ WholeInv => SavedWhole
  <2> SUFFICES ASSUME TypeInv, WholeInv PROVE SavedWhole
    OBVIOUS
  <2>1. ASSUME NEW a \in audiences
        PROVE  /\ a.counts.members = Cardinality(MembersOf(a.id))
               /\ a.counts.users = Cardinality({m.row.user : m \in MembersOf(a.id)})
               /\ a.counts.campaigns =
                    Cardinality({m.row.campaign : m \in MembersOf(a.id)} \ {None})
    <3>1. a.counts = Counts(result[a.id]) /\ result[a.id] = RowsOf(MembersOf(a.id))
      BY DEF WholeInv, StoreInv
    <3>2. /\ {r.user : r \in result[a.id]} = {m.row.user : m \in MembersOf(a.id)}
          /\ {r.campaign : r \in result[a.id]} = {m.row.campaign : m \in MembersOf(a.id)}
      BY <3>1 DEF RowsOf
    <3>3. /\ a.counts.members = Cardinality(result[a.id])
          /\ a.counts.users = Cardinality({r.user : r \in result[a.id]})
          /\ a.counts.campaigns = Cardinality({r.campaign : r \in result[a.id]} \ {None})
      BY <3>1 DEF Counts
    <3>4. QED
      BY <3>2, <3>3, AsManyMembersAsRows
  <2>2. QED
    BY <2>1 DEF WholeInv, StoreInv, SavedWhole
<1>2. QED
  BY <1>1, SpecWhole, PTL

(***************************************************************************)
(* Refinement.  Only the COMMIT of a saver and a removal change what is    *)
(* stored; each is one step of AudienceSnapshots.                          *)
(***************************************************************************)

\* Statements before the COMMIT, and a rollback, store nothing.
LEMMA UncommittedStepsStutter ==
  ASSUME TypeInv, WholeInv, NEW s \in Savers,
         Execute(s) \/ InsertAudience(s) \/ CopyRow(s) \/ Complete(s) \/ Fail(s)
  PROVE  UNCHANGED StoreOf
<1>1. UNCHANGED <<audiences, members>>
  BY DEF Execute, InsertAudience, CopyRow, Complete, Fail
<1>2. \A q \in Savers : outcome'[q] = "saved" <=> outcome[q] = "saved"
  <2>1. outcome[s] = None
    BY DEF Execute, InsertAudience, CopyRow, Complete, Fail, WholeInv, SaverInv
  <2>2. QED
    BY <2>1, NoneAssumption
    DEF Execute, InsertAudience, CopyRow, Complete, Fail, TypeInv, TypeOK
<1>3. QED
  BY <1>1, <1>2 DEF StoreOf, AudienceIds, MembersOf, RowsOf

LEMMA CommitSaves ==
  ASSUME TypeInv, WholeInv, NEW s \in Savers, Commit(s)
  PROVE  Snapshots!SaveSnapshot(s)
<1>1. /\ outcome[s] = None /\ pc[s] = "commit"
      /\ draft[s] \in Audiences /\ draft[s].id = s
      /\ result[s] \in Results /\ RowsOf(copied[s]) = result[s]
  BY DEF Commit, WholeInv, SaverInv, TypeInv, DraftInv
<1>2. s \notin AudienceIds /\ MembersOf(s) = {}
  BY <1>1, NothingSavedYet, NoneAssumption
<1>3. AudienceIds' = AudienceIds \cup {s}
  BY <1>1 DEF Commit, AudienceIds
<1>4. MembersOf(s)' = copied[s] /\ \A id : id # s => MembersOf(id)' = MembersOf(id)
  BY <1>2 DEF Commit, MembersOf, WholeInv, SaverInv
<1>5. \A q \in Savers \ {s} : outcome'[q] = outcome[q]
  BY DEF Commit, TypeInv, TypeOK
<1>6. StoreOf[s] = None
  BY <1>1, <1>2, NoneAssumption DEF StoreOf
<1>7. StoreOf' = [StoreOf EXCEPT ![s] = result[s]]
  <2>1. RowsOf(copied[s])' = RowsOf(copied'[s])
    BY DEF RowsOf
  <2>2. \A q \in Savers :
          StoreOf'[q] = IF q = s THEN result[s] ELSE StoreOf[q]
    BY <1>1, <1>3, <1>4, <1>5 DEF StoreOf, RowsOf
  <2>3. StoreOf' = [q \in Savers |-> StoreOf'[q]] /\ StoreOf = [q \in Savers |-> StoreOf[q]]
    BY DEF StoreOf
  <2> HIDE DEF StoreOf
  <2>4. QED
    BY <2>2, <2>3
<1>8. QED
  BY <1>1, <1>6, <1>7 DEF Snapshots!SaveSnapshot

LEMMA RemovalRemoves ==
  ASSUME TypeInv, WholeInv, Removal
  PROVE  \E ids \in SUBSET Savers : Snapshots!RemoveSnapshots(ids)
<1>1. PICK ids \in SUBSET AudienceIds : Remove(ids)
  BY DEF Removal
<1>2. ids \in SUBSET Savers
  BY DEF AudienceIds, TypeInv, TypeOK, Audiences
<1>3. AudienceIds' = AudienceIds \ ids /\ UNCHANGED outcome
  BY <1>1 DEF Remove, AudienceIds, Removal, saverVars
<1>4. \A id : id \notin ids => MembersOf(id)' = MembersOf(id)
  BY <1>1 DEF Remove, MembersOf
<1>5. \A id \in ids : outcome[id] = "saved" /\ StoreOf[id] \in Results
  BY <1>2 DEF AudienceIds, StoreOf, WholeInv, StoreInv, SaverInv
<1>6. StoreOf' = [a \in Savers |-> IF a \in ids THEN Gone ELSE StoreOf[a]]
  BY <1>3, <1>4, <1>5 DEF StoreOf, RowsOf
<1>7. QED
  BY <1>2, <1>5, <1>6 DEF Snapshots!RemoveSnapshots

\* The INSERT, COPY, UPDATE and COMMIT of a save, the rollback of a failed one
\* and the cascading deletions are, seen from what is stored, snapshots that
\* appear and disappear in one step.
THEOREM AudiencesAreSnapshots == Spec => ImplementsSnapshots
<1>1. Init => Snapshots!SnapshotInit
  BY NoneAssumption DEF Init, Snapshots!SnapshotInit, StoreOf, AudienceIds
<1>2. TypeInv /\ WholeInv /\ [Next]_vars => [Snapshots!SnapshotNext]_StoreOf
  <2> SUFFICES ASSUME TypeInv, WholeInv, [Next]_vars
               PROVE  [Snapshots!SnapshotNext]_StoreOf
    OBVIOUS
  <2>1. CASE UNCHANGED <<audiences, members, outcome>>
    BY <2>1 DEF StoreOf, AudienceIds, MembersOf, RowsOf
  <2>2. CASE UNCHANGED vars \/ Tick
    BY <2>1, <2>2 DEF vars, Tick, saverVars
  <2>3. ASSUME NEW p \in Pagers,
               BeginListing(p) \/ CheckExists(p) \/ ReadPage(p) \/ FailPage(p)
        PROVE  [Snapshots!SnapshotNext]_StoreOf
    BY <2>1, <2>3 DEF BeginListing, CheckExists, ReadPage, FailPage, saverVars
  <2>4. CASE Removal
    BY <2>4, RemovalRemoves DEF Snapshots!SnapshotNext
  <2>5. ASSUME NEW s \in Savers, Commit(s) PROVE [Snapshots!SnapshotNext]_StoreOf
    BY <2>5, CommitSaves DEF Snapshots!SnapshotNext
  <2>6. QED
    BY <2>2, <2>3, <2>4, <2>5, UncommittedStepsStutter, DeletionsRemove DEF Next
<1>3. QED
  BY <1>1, <1>2, SpecWhole, PTL DEF Spec, ImplementsSnapshots, Snapshots!SnapshotSpec

\* What a client fetched of an audience stays true of it until it is removed, and
\* then no later audience answers to its id.
THEOREM AudiencesLast == Spec => Snapshots!SnapshotsLast
<1>1. ASSUME [Snapshots!SnapshotNext]_StoreOf, NEW a \in Savers, StoreOf' # StoreOf
      PROVE  /\ StoreOf[a] \in Results => StoreOf'[a] \in {StoreOf[a], Gone}
             /\ StoreOf[a] = Gone => StoreOf'[a] = Gone
  <2>1. StoreOf = [s \in Savers |-> StoreOf[s]]
    BY DEF StoreOf
  <2>2. ASSUME NEW s \in Savers, Snapshots!SaveSnapshot(s)
        PROVE  StoreOf'[a] = StoreOf[a] \/ StoreOf[a] = None
    BY <2>1, <2>2 DEF Snapshots!SaveSnapshot
  <2>3. ASSUME NEW ids \in SUBSET Savers, Snapshots!RemoveSnapshots(ids)
        PROVE  \/ StoreOf'[a] = StoreOf[a]
               \/ StoreOf[a] \in Results /\ StoreOf'[a] = Gone
    BY <2>3 DEF Snapshots!RemoveSnapshots
  <2>4. Snapshots!SnapshotNext
    BY <1>1
  <2>5. \/ StoreOf'[a] = StoreOf[a] \/ StoreOf[a] = None
        \/ StoreOf[a] \in Results /\ StoreOf'[a] = Gone
    BY <2>2, <2>3, <2>4 DEF Snapshots!SnapshotNext
  <2>6. None \notin Results /\ Gone \notin Results \cup {None}
    BY NoneAssumption
  <2> HIDE DEF StoreOf
  <2>7. QED
    BY <2>5, <2>6
<1>2. [Snapshots!SnapshotNext]_StoreOf
      => [\A a \in Savers : /\ StoreOf[a] \in Results => StoreOf'[a] \in {StoreOf[a], Gone}
                            /\ StoreOf[a] = Gone => StoreOf'[a] = Gone]_StoreOf
  BY <1>1
<1>3. QED
  BY <1>2, AudiencesAreSnapshots, PTL
  DEF ImplementsSnapshots, Snapshots!SnapshotSpec, Snapshots!SnapshotsLast

(***************************************************************************)
(* Pages.  While an audience is there, a client that is not at the end has *)
(* exactly its members up to the cursor.  A client that has seen anything  *)
(* of it has seen it committed, so what it has not seen cannot appear      *)
(* behind its cursor.                                                      *)
(***************************************************************************)

UpTo(id, cursor) == {m \in MembersOf(id) : m.id <= cursor}

CollectedInv(p) ==
  /\ IsFiniteSet(got[p]) /\ received[p] = Cardinality(got[p])
  /\ got[p] = {} => after[p] = 0
  /\ reader[p] # "complete" => \A m \in got[p] : m.id <= after[p]
  /\ reader[p] \in {"page", "complete"} \/ got[p] # {} => pc[listing[p]] = "done"

ListedInv(p) ==
  listing[p] \in AudienceIds =>
    /\ got[p] \subseteq MembersOf(listing[p])
    /\ reader[p] \in {"check", "page"} => got[p] = UpTo(listing[p], after[p])
    /\ reader[p] = "complete" => got[p] = MembersOf(listing[p])

PagerInv == \A p \in Pagers : CollectedInv(p) /\ ListedInv(p)

LEMMA PagerInvInit == Init => PagerInv
  BY FS_EmptySet DEF Init, PagerInv, CollectedInv, ListedInv, AudienceIds

LEMMA NothingUpToZero ==
  ASSUME TypeInv, IdInv, NEW id
  PROVE  UpTo(id, 0) = {}
<1>1. \A m \in MembersOf(id) : m.id \in Nat /\ 1 <= m.id
  BY DEF MembersOf, IdInv, Numbered, TypeInv, TypeOK, Members
<1>2. QED
  BY <1>1 DEF UpTo

LEMMA SaversKeepPages ==
  ASSUME TypeInv, WholeInv, WholeInv', PagerInv, TypeInv', NEW s \in Savers,
         Execute(s) \/ InsertAudience(s) \/ CopyRow(s) \/ Complete(s) \/ Commit(s) \/ Fail(s)
  PROVE  PagerInv'
<1>1. UNCHANGED pagerVars
  BY DEF Execute, InsertAudience, CopyRow, Complete, Commit, Fail
<1>2. pc[s] # "done" /\ \A q \in Savers : pc[q] = "done" => pc'[q] = "done"
  BY DEF Execute, InsertAudience, CopyRow, Complete, Commit, Fail, TypeInv, TypeOK
<1>3. SUFFICES ASSUME NEW p \in Pagers PROVE CollectedInv(p)' /\ ListedInv(p)'
  BY DEF PagerInv
<1>4. reader[p] = "idle" \/ listing[p] \in Savers
  BY DEF TypeInv, ReaderInv
<1>5. reader[p] = "idle" => got[p] = {} /\ listing[p] = None
  BY DEF TypeInv, ReaderInv
<1>6. CollectedInv(p)'
  BY <1>1, <1>2, <1>4, <1>5 DEF CollectedInv, PagerInv, pagerVars
<1>7. ListedInv(p)'
  <2>1. CASE Commit(s) /\ listing[p] = s
    <3>1. got[p] = {} /\ after[p] = 0 /\ reader[p] \notin {"page", "complete"}
      BY <1>2, <2>1 DEF PagerInv, CollectedInv
    <3>2. UpTo(s, 0)' = {}
      <4>1. \A m \in MembersOf(s)' : m.id \in Nat /\ 1 <= m.id
        BY DEF MembersOf, WholeInv, IdInv, Numbered, TypeInv, TypeOK, Members
      <4>2. QED
        BY <4>1 DEF UpTo
    <3>3. QED
      BY <1>1, <2>1, <3>1, <3>2 DEF ListedInv, UpTo, MembersOf, pagerVars
  <2>2. CASE Commit(s) /\ listing[p] # s
    <3>1. AudienceIds' = AudienceIds \cup {s}
      BY <2>2 DEF Commit, AudienceIds, TypeInv, DraftInv
    <3>2. MembersOf(listing[p])' = MembersOf(listing[p])
      BY <1>1, <2>2 DEF Commit, MembersOf, WholeInv, SaverInv, pagerVars
    <3>3. QED
      BY <1>1, <2>2, <3>1, <3>2 DEF ListedInv, UpTo, PagerInv, pagerVars
  <2>3. CASE UNCHANGED <<audiences, members>>
    BY <1>1, <2>3 DEF ListedInv, UpTo, PagerInv, AudienceIds, MembersOf, pagerVars
  <2>4. QED
    BY <2>1, <2>2, <2>3 DEF Execute, InsertAudience, CopyRow, Complete, Fail
<1>8. QED
  BY <1>6, <1>7

LEMMA RemovalKeepsPages ==
  ASSUME PagerInv, Removal
  PROVE  PagerInv'
<1>1. PICK ids \in SUBSET AudienceIds : Remove(ids)
  BY DEF Removal
<1>2. UNCHANGED <<pc, reader, listing, limit, after, got, received>>
  BY DEF Removal, saverVars, pagerVars
<1>3. AudienceIds' = AudienceIds \ ids
  BY <1>1 DEF Remove, AudienceIds
<1>4. \A p \in Pagers : listing[p] \notin ids =>
        MembersOf(listing[p])' = MembersOf(listing[p])
  BY <1>1, <1>2 DEF Remove, MembersOf
<1>5. QED
  BY <1>2, <1>3, <1>4 DEF PagerInv, CollectedInv, ListedInv, UpTo

\* One page: what is left behind the cursor, from its first member on.
LEMMA OnePage ==
  ASSUME TypeInv, WholeInv, PagerInv, NEW p \in Pagers, reader[p] = "page"
  PROVE  /\ IsFiniteSet(Page(p)) /\ Cardinality(Page(p)) \in Nat
         /\ Page(p) \subseteq MembersOf(listing[p])
         /\ \A m \in Page(p) : m.id > after[p]
         /\ \A m \in Page(p) : UpTo(listing[p], m.id) \subseteq
                                 UpTo(listing[p], after[p]) \cup
                                 {n \in Page(p) : n.id <= m.id}
         /\ Cardinality(Page(p)) # limit[p] =>
              MembersOf(listing[p]) = UpTo(listing[p], after[p]) \cup Page(p)
<1> DEFINE rest == {m \in MembersOf(listing[p]) : m.id > after[p]}
<1>1. rest \in SUBSET Members /\ rest \in SUBSET members
  BY DEF MembersOf, TypeInv, TypeOK
<1>2. IsFiniteSet(rest)
  BY <1>1, FS_Subset DEF TypeInv, FiniteInv
<1>3. \A m, n \in rest : m.id = n.id => m = n
  BY <1>1 DEF WholeInv, IdInv, Numbered
<1>4. \A m \in rest : m.id <= nextMember
  BY <1>1 DEF WholeInv, IdInv, Numbered, TypeInv, TypeOK, Members
<1>5. limit[p] \in Nat \ {0} /\ nextMember \in Nat /\ after[p] \in Nat
  BY LimitsAssumption DEF TypeInv, TypeOK, ReaderInv
<1>6. Page(p) = FirstOf(rest, limit[p])
  BY DEF Page
<1>7. Page(p) \subseteq rest
  BY <1>6 DEF FirstOf
<1>8. IsFiniteSet(Page(p)) /\ Cardinality(Page(p)) \in Nat
  BY PageType
<1>9. ASSUME NEW m \in Page(p), NEW n \in MembersOf(listing[p]), n.id <= m.id, n.id > after[p]
      PROVE  n \in Page(p)
  <2>1. n \in rest
    BY <1>9
  <2> HIDE DEF rest
  <2>2. QED
    BY <1>1, <1>2, <1>5, <1>6, <1>9, <2>1, FirstOnesAreAPrefix
<1>10. \A n \in MembersOf(listing[p]) : n.id \in Nat
  BY DEF MembersOf, TypeInv, TypeOK, Members
<1>11. \A m \in Page(p) : UpTo(listing[p], m.id) \subseteq
          UpTo(listing[p], after[p]) \cup {n \in Page(p) : n.id <= m.id}
  BY <1>5, <1>9, <1>10 DEF UpTo
<1>12. ASSUME Cardinality(Page(p)) # limit[p]
       PROVE  MembersOf(listing[p]) = UpTo(listing[p], after[p]) \cup Page(p)
  <2>1. Page(p) = rest
    <3> HIDE DEF rest
    <3>1. QED
      BY <1>1, <1>2, <1>3, <1>4, <1>5, <1>6, <1>12, ShortPageIsLast
  <2>2. QED
    BY <1>5, <1>10, <2>1 DEF UpTo
<1>13. QED
  BY <1>7, <1>8, <1>11, <1>12

LEMMA ReadPageKeepsPages ==
  ASSUME TypeInv, WholeInv, PagerInv, NEW p \in Pagers, ReadPage(p)
  PROVE  CollectedInv(p)' /\ ListedInv(p)'
<1>1. /\ reader[p] = "page" /\ pc[listing[p]] = "done"
      /\ IsFiniteSet(got[p]) /\ received[p] = Cardinality(got[p])
      /\ \A m \in got[p] : m.id <= after[p]
      /\ got[p] = {} => after[p] = 0
  BY DEF ReadPage, PagerInv, CollectedInv
<1>2. /\ got'[p] = got[p] \cup Page(p)
      /\ received'[p] = received[p] + Cardinality(Page(p))
      /\ UNCHANGED <<audiences, members, pc, listing, limit>>
  BY DEF ReadPage, TypeInv, TypeOK, saverVars
<1>3. /\ after[p] \in Nat
      /\ \A m \in got[p] \cup Page(p) : m.id \in Nat
  BY <1>1, PageType DEF TypeInv, TypeOK, Members
<1>4. got[p] \cap Page(p) = {}
  BY <1>1, <1>3, OnePage
<1>5. IsFiniteSet(got'[p]) /\ received'[p] = Cardinality(got'[p])
  <2>1. IsFiniteSet(got[p] \cup Page(p))
    BY <1>1, OnePage, FS_Union
  <2>2. Cardinality(got[p] \cup Page(p))
          = Cardinality(got[p]) + Cardinality(Page(p)) - Cardinality(got[p] \cap Page(p))
    BY <1>1, OnePage, FS_Union
  <2>3. Cardinality(got[p] \cap Page(p)) = 0
    BY <1>4, FS_EmptySet
  <2>4. Cardinality(got[p]) \in Nat /\ Cardinality(Page(p)) \in Nat
    BY <1>1, OnePage, FS_CardinalityType
  <2>5. QED
    BY <1>1, <1>2, <2>1, <2>2, <2>3, <2>4
<1>6. UNCHANGED <<AudienceIds, MembersOf(listing[p])>>
  BY <1>2 DEF AudienceIds, MembersOf
<1>7. listing[p] \in AudienceIds => got[p] = UpTo(listing[p], after[p])
  BY <1>1 DEF PagerInv, ListedInv
<1>8. CASE Cardinality(Page(p)) = limit[p]
  <2>1. PICK last \in Page(p) : /\ \A m \in Page(p) : m.id <= last.id
                                /\ after' = [after EXCEPT ![p] = last.id]
    BY <1>8 DEF ReadPage
  <2>2. after'[p] = last.id /\ last.id > after[p] /\ last.id \in Nat
    BY <1>1, <1>3, <2>1, OnePage DEF TypeInv, TypeOK
  <2>3. reader'[p] = "check"
    BY <1>8 DEF ReadPage, TypeInv, TypeOK
  <2>4. \A m \in got'[p] : m.id <= after'[p]
    BY <1>1, <1>2, <1>3, <2>1, <2>2
  <2>5. CollectedInv(p)'
    BY <1>1, <1>2, <1>5, <2>1, <2>4 DEF CollectedInv
  <2>6. ASSUME listing[p] \in AudienceIds
        PROVE  got'[p] = UpTo(listing[p], last.id)
    <3>1. UpTo(listing[p], last.id) \subseteq got'[p]
      BY <1>1, <1>2, <1>7, <2>6, OnePage
    <3>2. got'[p] \subseteq MembersOf(listing[p])
      BY <1>1, <1>2, <1>7, <2>6, OnePage DEF UpTo
    <3>3. QED
      BY <2>2, <2>4, <3>1, <3>2 DEF UpTo
  <2>7. ListedInv(p)'
    BY <1>2, <1>6, <2>2, <2>3, <2>6 DEF ListedInv, UpTo
  <2>8. QED
    BY <2>5, <2>7
<1>9. CASE Cardinality(Page(p)) # limit[p]
  <2>1. reader'[p] = "complete" /\ UNCHANGED after
    BY <1>9 DEF ReadPage, TypeInv, TypeOK
  <2>2. CollectedInv(p)'
    BY <1>1, <1>2, <1>5, <2>1 DEF CollectedInv
  <2>3. listing[p] \in AudienceIds => got'[p] = MembersOf(listing[p])
    BY <1>1, <1>2, <1>7, <1>9, OnePage
  <2>4. ListedInv(p)'
    BY <1>2, <1>6, <2>1, <2>3 DEF ListedInv
  <2>5. QED
    BY <2>2, <2>4
<1>10. QED
  BY <1>8, <1>9

LEMMA PagersKeepPages ==
  ASSUME TypeInv, WholeInv, PagerInv, NEW p \in Pagers,
         BeginListing(p) \/ CheckExists(p) \/ ReadPage(p) \/ FailPage(p)
  PROVE  PagerInv'
<1>0. UNCHANGED <<audiences, members, pc>>
  BY DEF BeginListing, CheckExists, ReadPage, FailPage, saverVars
<1>1. ASSUME NEW q \in Pagers, q # p PROVE CollectedInv(q)' /\ ListedInv(q)'
  <2>1. /\ reader'[q] = reader[q] /\ listing'[q] = listing[q] /\ limit'[q] = limit[q]
        /\ after'[q] = after[q] /\ got'[q] = got[q] /\ received'[q] = received[q]
    BY <1>1 DEF BeginListing, CheckExists, ReadPage, FailPage, TypeInv, TypeOK
  <2>2. QED
    BY <1>0, <2>1 DEF PagerInv, CollectedInv, ListedInv, UpTo, AudienceIds, MembersOf
<1>2. CASE BeginListing(p)
  <2>1. /\ reader[p] = "idle" /\ reader'[p] = "check"
        /\ UNCHANGED <<after, got, received>>
    BY <1>2 DEF BeginListing, TypeInv, TypeOK
  <2>2. got[p] = {} /\ after[p] = 0 /\ received[p] = 0
    BY <2>1 DEF TypeInv, ReaderInv
  <2>3. UpTo(listing'[p], 0) = {}
    BY NothingUpToZero DEF WholeInv
  <2>4. CollectedInv(p)' /\ ListedInv(p)'
    BY <1>0, <2>1, <2>2, <2>3, FS_EmptySet
    DEF CollectedInv, ListedInv, UpTo, AudienceIds, MembersOf
  <2>5. QED
    BY <1>1, <2>4 DEF PagerInv
<1>3. CASE CheckExists(p)
  <2>1. /\ reader[p] = "check" /\ UNCHANGED <<listing, limit, after, got, received>>
        /\ reader'[p] = IF listing[p] \in AudienceIds THEN "page" ELSE "not_found"
    BY <1>3 DEF CheckExists, TypeInv, TypeOK
  <2>2. listing[p] \in AudienceIds => pc[listing[p]] = "done"
    <3>1. \A a \in audiences : a.id \in Savers /\ outcome[a.id] = "saved"
      BY DEF WholeInv, StoreInv, TypeInv, TypeOK, Audiences
    <3>2. QED
      BY <3>1, NoneAssumption DEF AudienceIds, WholeInv, SaverInv
  <2>3. CollectedInv(p)' /\ ListedInv(p)'
    BY <1>0, <2>1, <2>2 DEF PagerInv, CollectedInv, ListedInv, UpTo, AudienceIds, MembersOf
  <2>4. QED
    BY <1>1, <2>3 DEF PagerInv
<1>4. CASE ReadPage(p)
  BY <1>1, <1>4, ReadPageKeepsPages DEF PagerInv
<1>5. CASE FailPage(p)
  <2>1. /\ reader[p] = "page" /\ reader'[p] = "check"
        /\ UNCHANGED <<listing, limit, after, got, received>>
    BY <1>5 DEF FailPage, TypeInv, TypeOK
  <2>2. CollectedInv(p)' /\ ListedInv(p)'
    BY <1>0, <2>1 DEF PagerInv, CollectedInv, ListedInv, UpTo, AudienceIds, MembersOf
  <2>3. QED
    BY <1>1, <2>2 DEF PagerInv
<1>6. QED
  BY <1>2, <1>3, <1>4, <1>5

LEMMA PagerInvNext ==
  TypeInv /\ WholeInv /\ PagerInv /\ [Next]_vars => PagerInv'
<1> SUFFICES ASSUME TypeInv, WholeInv, PagerInv, [Next]_vars PROVE PagerInv'
  OBVIOUS
<1>1. TypeInv' /\ WholeInv'
  BY TypeInvNext, WholeInvNext
<1>2. CASE UNCHANGED <<audiences, members, saverVars, pagerVars>>
  BY <1>2 DEF PagerInv, CollectedInv, ListedInv, UpTo, AudienceIds, MembersOf,
              saverVars, pagerVars
<1>3. CASE UNCHANGED vars \/ Tick
  BY <1>2, <1>3 DEF vars, Tick
<1>4. QED
  BY <1>1, <1>3, SaversKeepPages, PagersKeepPages, DeletionsRemove, RemovalKeepsPages DEF Next

\* A client that pages through an audience gets every member once and none of
\* another audience, whatever is saved and deleted meanwhile; a list that
\* ended is the whole audience while the audience is there.
THEOREM PagesAreTheAudience == Spec => []PagesMakeTheAudience
<1>1. Init => PagerInv
  BY PagerInvInit
<1>2. TypeInv /\ WholeInv /\ PagerInv /\ [Next]_vars => PagerInv'
  BY PagerInvNext
<1>3. PagerInv => PagesMakeTheAudience
  BY DEF PagerInv, CollectedInv, ListedInv, PagesMakeTheAudience
<1>4. QED
  BY <1>1, <1>2, <1>3, SpecWhole, PTL DEF Spec
=============================================================================
