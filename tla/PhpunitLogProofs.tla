-------------------------- MODULE PhpunitLogProofs --------------------------
(***************************************************************************)
(* Theorems about PhpunitLog for every number of requests, modules and     *)
(* tests.                                                                  *)
(***************************************************************************)
EXTENDS PhpunitLog, FiniteSetTheorems, WellFoundedInduction, TLAPS

(* The functions of requests that the proofs look into.                    *)
PerRequest(f) == f = [r \in Requests |-> f[r]]

Functional ==
    /\ step \in [Requests -> Steps]
    /\ PerRequest(at) /\ PerRequest(target)
    /\ PerRequest(new_id) /\ PerRequest(removed)

(* Between the two inserts of a record the first row is still there, or a  *)
(* clear has removed it.                                                   *)
HalfWritten ==
    \A r \in Requests : step[r] = "item" =>
        \/ <<r, at[r]>> \in overtaken
        \/ \E t \in log_test : t.id = new_id[r] /\ t.by = <<r, at[r]>>

LogInv == Functional /\ HalfWritten /\ PairingExplained

(* The groups that requests and members refer to exist or were purged.     *)
KnownGroups ==
    /\ \A i \in members : i.group \in groups \union purged
    /\ \A r \in Requests :
        /\ step[r] \in {"form", "add"} => target[r] \in groups \union purged
        /\ step[r] = "delete" => target[r] \in purged

(* What a purged group still has was added afterwards.                     *)
PurgedIsEmpty == \A i \in members : i.group \in purged => i.id \in late

GroupInv == Functional /\ KnownGroups /\ PurgedIsEmpty

-----------------------------------------------------------------------------
(* The functions stay functions of the requests.                           *)

LEMMA ExceptPerRequest ==
    ASSUME NEW f, PerRequest(f), NEW r \in Requests, NEW e
    PROVE  PerRequest([f EXCEPT ![r] = e])
BY DEF PerRequest

LEMMA FunctionalInit == Init => Functional
BY DEF Init, Functional, PerRequest, Steps

LEMMA FunctionalStep ==
    ASSUME Functional, [Next]_vars
    PROVE  Functional'
<1>1. CASE UNCHANGED vars
    BY <1>1 DEF Functional, PerRequest, vars, tables, request, ghosts
<1>2. ASSUME NEW r \in Requests, RunStep(r) PROVE Functional'
    <2>1. CASE AskRun(r)
        BY <2>1, ExceptPerRequest DEF AskRun, Begin, Functional, Steps, PerRequest, ghosts
    <2>2. CASE AskGroupRun(r)
        BY <2>2, ExceptPerRequest DEF AskGroupRun, Begin, Functional, Steps, PerRequest
    <2>3. CASE InsertLogTest(r)
        BY <2>3, ExceptPerRequest DEF InsertLogTest, Functional, Steps, PerRequest, ghosts
    <2>4. CASE InsertLogItem(r)
        BY <2>4, ExceptPerRequest DEF InsertLogItem, Continue, Functional, Steps, PerRequest, ghosts
    <2>5. CASE NoResult(r)
        BY <2>5, ExceptPerRequest DEF NoResult, Continue, Functional, Steps, PerRequest
    <2> QED
        BY <1>2, <2>1, <2>2, <2>3, <2>4, <2>5 DEF RunStep
<1>3. ASSUME NEW r \in Requests, GroupStep(r) PROVE Functional'
    <2>1. CASE OpenAddForm(r)
        BY <2>1, ExceptPerRequest DEF OpenAddForm, Begin, Functional, Steps, PerRequest, ghosts
    <2>2. CASE SubmitAddForm(r)
        BY <2>2 DEF SubmitAddForm, Functional, Steps, PerRequest, ghosts
    <2>3. CASE InsertMember(r)
        BY <2>3, ExceptPerRequest DEF InsertMember, Continue, Functional, Steps, PerRequest
    <2>4. CASE CreateGroup(r)
        BY <2>4 DEF CreateGroup, Begin, Functional, Steps, PerRequest, ghosts
    <2>5. CASE DeleteGroupItem(r)
        BY <2>5 DEF DeleteGroupItem, Begin, Functional, Steps, PerRequest, ghosts
    <2>6. CASE DeleteMembers(r)
        BY <2>6, ExceptPerRequest DEF DeleteMembers, Begin, Functional, Steps, PerRequest
    <2>7. CASE DeleteGroup(r)
        BY <2>7 DEF DeleteGroup, Functional, Steps, PerRequest, ghosts
    <2> QED
        BY <1>3, <2>1, <2>2, <2>3, <2>4, <2>5, <2>6, <2>7 DEF GroupStep
<1>4. ASSUME NEW r \in Requests, ClearStep(r) PROVE Functional'
    <2>1. CASE TruncateLogTest(r)
        BY <2>1, ExceptPerRequest DEF TruncateLogTest, Begin, Functional, Steps, PerRequest
    <2>2. CASE TruncateLogItem(r)
        BY <2>2 DEF TruncateLogItem, Functional, Steps, PerRequest, ghosts
    <2> QED
        BY <1>4, <2>1, <2>2 DEF ClearStep
<1>5. ASSUME NEW r \in Requests, ShowCount(r) PROVE Functional'
    BY <1>5 DEF ShowCount, Functional, Steps, PerRequest, ghosts, tables
<1> QED
    BY <1>1, <1>2, <1>3, <1>4, <1>5 DEF Next

-----------------------------------------------------------------------------
(* The log                                                                 *)

(* Steps that leave the log and every half-written record alone.           *)
LEMMA LogUntouched ==
    ASSUME LogInv, NEW r \in Requests,
           UNCHANGED <<log_test, log_item, removed, overtaken, new_id>>,
           \A q \in Requests : step'[q] = "item" => step[q] = "item" /\ at'[q] = at[q],
           \A q \in Requests : step[q] = "clear" => step'[q] = "clear"
    PROVE  HalfWritten' /\ PairingExplained'
BY DEF LogInv, HalfWritten, PairingExplained, Paired

LEMMA LogStep ==
    ASSUME LogInv, [Next]_vars
    PROVE  LogInv'
<1>0. Functional /\ Functional'
    BY FunctionalStep DEF LogInv
<1>1. CASE UNCHANGED vars
    BY <1>0, <1>1 DEF LogInv, HalfWritten, PairingExplained, Paired, vars, tables, request, ghosts
<1>2. ASSUME NEW r \in Requests, RunStep(r) PROVE HalfWritten' /\ PairingExplained'
    <2>1. CASE AskRun(r)
        <3>1. UNCHANGED <<log_test, log_item, removed, overtaken, new_id>>
            BY <2>1 DEF AskRun, tables, ghosts
        <3>2. \A q \in Requests :
                /\ step'[q] = "item" => step[q] = "item" /\ at'[q] = at[q]
                /\ step[q] = "clear" => step'[q] = "clear"
            BY <2>1, <1>0 DEF AskRun, Begin, Functional, PerRequest
        <3> QED
            BY <3>1, <3>2, LogUntouched
    <2>2. CASE AskGroupRun(r)
        <3>1. UNCHANGED <<log_test, log_item, removed, overtaken, new_id>>
            BY <2>2 DEF AskGroupRun, tables
        <3>2. \A q \in Requests :
                /\ step'[q] = "item" => step[q] = "item" /\ at'[q] = at[q]
                /\ step[q] = "clear" => step'[q] = "clear"
            BY <2>2, <1>0 DEF AskGroupRun, Begin, Functional, PerRequest
        <3> QED
            BY <3>1, <3>2, LogUntouched
    <2>3. CASE InsertLogTest(r)
        <3>1. /\ UNCHANGED <<log_item, overtaken, removed, at>>
              /\ new_id' = [new_id EXCEPT ![r] = serial.test]
              /\ step' = [step EXCEPT ![r] = "item"]
              /\ step[r] = "run"
            BY <2>3 DEF InsertLogTest, ghosts
        <3>2. PICK t : /\ t.id = serial.test /\ t.by = <<r, at[r]>>
                       /\ log_test' = log_test \union {t}
            BY <2>3 DEF InsertLogTest
        <3>3. PairingExplained'
            BY <3>1, <3>2, <1>0 DEF LogInv, PairingExplained, Paired, Functional
        <3>4. HalfWritten'
            <4> SUFFICES ASSUME NEW q \in Requests, step'[q] = "item"
                         PROVE  \/ <<q, at[q]>> \in overtaken
                                \/ \E u \in log_test' : u.id = new_id'[q] /\ u.by = <<q, at[q]>>
                BY <3>1 DEF HalfWritten
            <4>1. CASE q = r
                <5>1. new_id'[r] = serial.test
                    BY <3>1, <1>0 DEF Functional, PerRequest
                <5> QED
                    BY <5>1, <3>2, <4>1
            <4>2. CASE q # r
                <5>1. step[q] = "item" /\ new_id'[q] = new_id[q]
                    BY <3>1, <4>2, <1>0 DEF Functional, PerRequest
                <5> QED
                    BY <5>1, <3>2 DEF LogInv, HalfWritten
            <4> QED
                BY <4>1, <4>2
        <3> QED
            BY <3>3, <3>4
    <2>4. CASE InsertLogItem(r)
        <3>1. PICK row : /\ row.test_id = new_id[r] /\ row.by = <<r, at[r]>>
                         /\ log_item' = log_item \union {row}
            BY <2>4 DEF InsertLogItem
        <3>2. /\ UNCHANGED <<log_test, overtaken, removed, new_id>>
              /\ step' = [step EXCEPT ![r] = "run"] /\ step[r] = "item"
              /\ at' = [at EXCEPT ![r] = @ + 1]
            BY <2>4 DEF InsertLogItem, Continue, ghosts
        <3>3. PairingExplained'
            BY <3>1, <3>2, <1>0 DEF LogInv, HalfWritten, PairingExplained, Paired, Functional
        <3>4. HalfWritten'
            BY <3>2, <1>0 DEF LogInv, HalfWritten, Functional, PerRequest
        <3> QED
            BY <3>3, <3>4
    <2>5. CASE NoResult(r)
        <3>1. UNCHANGED <<log_test, log_item, removed, overtaken, new_id>>
            BY <2>5 DEF NoResult, tables
        <3>2. \A q \in Requests :
                /\ step'[q] = "item" => step[q] = "item" /\ at'[q] = at[q]
                /\ step[q] = "clear" => step'[q] = "clear"
            BY <2>5, <1>0 DEF NoResult, Continue, Functional, PerRequest
        <3> QED
            BY <3>1, <3>2, LogUntouched
    <2> QED
        BY <1>2, <2>1, <2>2, <2>3, <2>4, <2>5 DEF RunStep
<1>3. ASSUME NEW r \in Requests, GroupStep(r) \/ ShowCount(r)
      PROVE  HalfWritten' /\ PairingExplained'
    <2>1. UNCHANGED <<log_test, log_item, removed, overtaken, new_id>>
        BY <1>3 DEF GroupStep, OpenAddForm, SubmitAddForm, InsertMember, CreateGroup,
                    DeleteGroupItem, DeleteMembers, DeleteGroup, ShowCount, tables, ghosts
    <2>2. /\ step' \in {step, [step EXCEPT ![r] = "form"], [step EXCEPT ![r] = "add"],
                        [step EXCEPT ![r] = "delete"], [step EXCEPT ![r] = "done"]}
          /\ step[r] \notin {"item", "clear"}
          /\ \A q \in Requests : q # r => at'[q] = at[q]
        BY <1>3, <1>0 DEF GroupStep, OpenAddForm, SubmitAddForm, InsertMember, CreateGroup,
                    DeleteGroupItem, DeleteMembers, DeleteGroup, ShowCount, Begin, Continue,
                    Functional, PerRequest
    <2>3. \A q \in Requests :
            /\ step'[q] = "item" => step[q] = "item" /\ at'[q] = at[q]
            /\ step[q] = "clear" => step'[q] = "clear"
        BY <2>2, <1>0 DEF Functional
    <2> QED
        BY <2>1, <2>3, LogUntouched
<1>4. ASSUME NEW r \in Requests, TruncateLogTest(r) PROVE HalfWritten' /\ PairingExplained'
    <2>1. /\ log_test' = {} /\ UNCHANGED <<log_item, at>>
          /\ step[r] = "idle" /\ step' = [step EXCEPT ![r] = "clear"]
          /\ removed' = [removed EXCEPT ![r] = {t.by : t \in log_test}]
          /\ overtaken' = overtaken \union
                {<<q, at[q]>> : q \in {p \in Requests : step[p] = "item"}}
        BY <1>4 DEF TruncateLogTest, Begin
    <2>2. HalfWritten'
        BY <2>1, <1>0 DEF HalfWritten, Functional
    <2>3. ASSUME NEW i \in log_item, Paired(i) PROVE i.by \in removed'[r]
        BY <2>1, <2>3, <1>0 DEF Paired, Functional, PerRequest
    <2>4. step'[r] = "clear"
        BY <2>1, <1>0 DEF Functional
    <2>5. \A c \in Requests : step[c] = "clear" =>
              step'[c] = "clear" /\ removed'[c] = removed[c]
        BY <2>1, <1>0 DEF Functional, PerRequest
    <2>6. PairingExplained'
        BY <2>1, <2>3, <2>4, <2>5 DEF LogInv, PairingExplained
    <2> QED
        BY <2>2, <2>6
<1>5. ASSUME NEW r \in Requests, TruncateLogItem(r) PROVE HalfWritten' /\ PairingExplained'
    <2>1. /\ log_item' = {} /\ UNCHANGED <<log_test, overtaken, new_id, at>>
          /\ step' = [step EXCEPT ![r] = "done"]
        BY <1>5 DEF TruncateLogItem, ghosts
    <2>2. HalfWritten'
        BY <2>1, <1>0 DEF LogInv, HalfWritten, Functional
    <2>3. PairingExplained'
        BY <2>1 DEF PairingExplained
    <2> QED
        BY <2>2, <2>3
<1> QED
    BY <1>0, <1>1, <1>2, <1>3, <1>4, <1>5 DEF Next, ClearStep, LogInv

(* However runs and clears overlap, a line of the report belongs to its    *)
(* own run unless a clear came between the two inserts of createLog or is  *)
(* itself half done.                                                       *)
THEOREM Pairing == Spec => []PairingExplained
<1>1. Init => LogInv
    <2> SUFFICES ASSUME Init PROVE LogInv
        OBVIOUS
    <2>1. HalfWritten /\ PairingExplained
        BY DEF Init, HalfWritten, PairingExplained
    <2> QED
        BY <2>1, FunctionalInit DEF LogInv
<1>2. LogInv /\ [Next]_vars => LogInv'
    BY LogStep
<1>3. LogInv => PairingExplained
    BY DEF LogInv
<1> QED
    BY <1>1, <1>2, <1>3, PTL DEF Spec

-----------------------------------------------------------------------------
(* The groups                                                              *)

(* Steps that leave the groups alone and work for no other group.          *)
LEMMA GroupsUntouched ==
    ASSUME GroupInv, UNCHANGED <<groups, members, purged, late>>,
           \A q \in Requests :
              /\ step'[q] \in {"form", "add"} =>
                    step[q] \in {"form", "add"} /\ target'[q] = target[q]
              /\ step'[q] = "delete" => step[q] = "delete" /\ target'[q] = target[q]
    PROVE  KnownGroups' /\ PurgedIsEmpty'
BY DEF GroupInv, KnownGroups, PurgedIsEmpty

LEMMA GroupStepInv ==
    ASSUME GroupInv, [Next]_vars
    PROVE  GroupInv'
<1>0. Functional /\ Functional'
    BY FunctionalStep DEF GroupInv
<1>1. CASE UNCHANGED vars
    BY <1>0, <1>1 DEF GroupInv, KnownGroups, PurgedIsEmpty, vars, tables, request, ghosts
<1>2. ASSUME NEW r \in Requests, RunStep(r) \/ ClearStep(r) \/ ShowCount(r)
      PROVE  KnownGroups' /\ PurgedIsEmpty'
    <2>1. UNCHANGED <<groups, members, purged, late>>
        BY <1>2 DEF RunStep, ClearStep, AskRun, AskGroupRun, InsertLogTest, InsertLogItem,
                    NoResult, TruncateLogTest, TruncateLogItem, ShowCount, tables, ghosts
    <2>2. /\ step' \in {[step EXCEPT ![r] = "run"], [step EXCEPT ![r] = "item"],
                        [step EXCEPT ![r] = "clear"], [step EXCEPT ![r] = "done"]}
          /\ \A q \in Requests : q # r => target'[q] = target[q]
        BY <1>2, <1>0 DEF RunStep, ClearStep, AskRun, AskGroupRun, InsertLogTest, InsertLogItem,
                    NoResult, TruncateLogTest, TruncateLogItem, ShowCount, Begin,
                    Functional, PerRequest
    <2>3. \A q \in Requests :
              /\ step'[q] \in {"form", "add"} =>
                    step[q] \in {"form", "add"} /\ target'[q] = target[q]
              /\ step'[q] = "delete" => step[q] = "delete" /\ target'[q] = target[q]
        BY <2>2, <1>0 DEF Functional
    <2> QED
        BY <2>1, <2>3, GroupsUntouched
<1>3. ASSUME NEW r \in Requests, GroupStep(r) PROVE KnownGroups' /\ PurgedIsEmpty'
    <2>1. CASE OpenAddForm(r)
        <3>1. /\ UNCHANGED <<groups, members, purged, late>>
              /\ step' = [step EXCEPT ![r] = "form"]
            BY <2>1 DEF OpenAddForm, Begin, tables, ghosts
        <3>2. PICK g \in groups : target' = [target EXCEPT ![r] = g]
            BY <2>1 DEF OpenAddForm
        <3> QED
            BY <3>1, <3>2, <1>0 DEF GroupInv, KnownGroups, PurgedIsEmpty, Functional, PerRequest
    <2>2. CASE SubmitAddForm(r)
        BY <2>2, <1>0 DEF SubmitAddForm, tables, ghosts, GroupInv, KnownGroups, PurgedIsEmpty,
                    Functional
    <2>3. CASE InsertMember(r)
        <3>1. PICK m : /\ m.id = serial.member /\ m.group = target[r]
                       /\ members' = members \union {m}
            BY <2>3 DEF InsertMember
        <3>2. /\ UNCHANGED <<groups, purged, step, target>> /\ step[r] = "add"
              /\ late' = IF target[r] \in purged THEN late \union {serial.member} ELSE late
            BY <2>3 DEF InsertMember
        <3> QED
            BY <3>1, <3>2 DEF GroupInv, KnownGroups, PurgedIsEmpty
    <2>4. CASE CreateGroup(r)
        <3>1. /\ groups' = groups \union {serial.group}
              /\ UNCHANGED <<members, purged, late, target>>
              /\ step' = [step EXCEPT ![r] = "done"]
            BY <2>4 DEF CreateGroup, Begin, ghosts
        <3> QED
            BY <3>1, <1>0 DEF GroupInv, KnownGroups, PurgedIsEmpty, Functional
    <2>5. CASE DeleteGroupItem(r)
        <3>1. /\ members' \subseteq members
              /\ UNCHANGED <<groups, purged, late, target>>
              /\ step' = [step EXCEPT ![r] = "done"]
            BY <2>5 DEF DeleteGroupItem, Begin, ghosts
        <3> QED
            BY <3>1, <1>0 DEF GroupInv, KnownGroups, PurgedIsEmpty, Functional
    <2>6. CASE DeleteMembers(r)
        <3>1. PICK g \in groups : /\ target' = [target EXCEPT ![r] = g]
                                  /\ members' = members \ MembersOf(g)
                                  /\ purged' = purged \union {g}
            BY <2>6 DEF DeleteMembers
        <3>2. UNCHANGED <<groups, late>> /\ step' = [step EXCEPT ![r] = "delete"]
            BY <2>6 DEF DeleteMembers, Begin
        <3>3. PurgedIsEmpty'
            BY <3>1, <3>2 DEF GroupInv, PurgedIsEmpty, MembersOf
        <3>4. KnownGroups'
            BY <3>1, <3>2, <1>0 DEF GroupInv, KnownGroups, Functional, PerRequest
        <3> QED
            BY <3>3, <3>4
    <2>7. CASE DeleteGroup(r)
        <3>1. /\ groups' = groups \ {target[r]} /\ step[r] = "delete"
              /\ UNCHANGED <<members, purged, late, target>>
              /\ step' = [step EXCEPT ![r] = "done"]
            BY <2>7 DEF DeleteGroup, ghosts
        <3>2. target[r] \in purged
            BY <3>1 DEF GroupInv, KnownGroups
        <3> QED
            BY <3>1, <3>2, <1>0 DEF GroupInv, KnownGroups, PurgedIsEmpty, Functional
    <2> QED
        BY <1>3, <2>1, <2>2, <2>3, <2>4, <2>5, <2>6, <2>7 DEF GroupStep
<1> QED
    BY <1>0, <1>1, <1>2, <1>3 DEF Next, GroupInv

(* Members outlive their group only when they were added after the items   *)
(* of the group had been deleted, whatever the requests.                   *)
THEOREM Orphans == Spec => []OrphansExplained
<1>1. Init => GroupInv
    <2> SUFFICES ASSUME Init PROVE GroupInv
        OBVIOUS
    <2>1. purged = {} /\ groups = {1} /\ \A r \in Requests : step[r] = "idle"
        BY DEF Init
    <2>2. \A i \in members : i.group = 1
        BY DEF Init
    <2>3. KnownGroups /\ PurgedIsEmpty
        BY <2>1, <2>2 DEF KnownGroups, PurgedIsEmpty
    <2> QED
        BY <2>3, FunctionalInit DEF GroupInv
<1>2. GroupInv /\ [Next]_vars => GroupInv'
    BY GroupStepInv
<1>3. GroupInv => OrphansExplained
    BY DEF GroupInv, KnownGroups, PurgedIsEmpty, OrphansExplained
<1> QED
    BY <1>1, <1>2, <1>3, PTL DEF Spec

-----------------------------------------------------------------------------
(* The rows of a group, by the names of their tests                        *)

LEMMA LeastElement ==
    ASSUME NEW T \in SUBSET Nat, T # {}
    PROVE  \E n \in T : \A k \in T : n <= k
<1>1. PICK n \in T : \A k \in T : ~(<<k, n>> \in OpToRel(<, Nat))
  BY NatLessThanWellFounded, WFMin
<1>2. \A k \in T : ~(k < n)
  BY <1>1 DEF OpToRel
<1>3. QED
  BY <1>2

(* Rows as the table holds them: finitely many, each with an id below the  *)
(* next one and with an id of its own.                                     *)
Table(rows, next) ==
    /\ rows \subseteq Member /\ IsFiniteSet(rows)
    /\ next \in Nat /\ \A i \in rows : i.id < next
    /\ \A i, j \in rows : i.id = j.id => i = j

LEMMA FirstOfName ==
    ASSUME NEW rows, NEW next, Table(rows, next), NEW m \in rows
    PROVE  \E i \in FirstRows(rows) : i.test.name = m.test.name
<1> DEFINE T == {i.id : i \in {j \in rows : j.test.name = m.test.name}}
<1>1. \A i \in rows : i.id \in Nat
  BY DEF Table, Member
<1>2. T \in SUBSET Nat /\ m.id \in T
  BY <1>1
<1>3. PICK n \in T : \A k \in T : n <= k
  BY <1>2, LeastElement
<1>4. PICK i \in rows : i.test.name = m.test.name /\ i.id = n
  OBVIOUS
<1>5. \A j \in rows : j.test.name = i.test.name => i.id <= j.id
  BY <1>3, <1>4
<1>6. QED
  BY <1>4, <1>5 DEF FirstRows

LEMMA LastOfName ==
    ASSUME NEW rows, NEW next, Table(rows, next), NEW m \in rows
    PROVE  /\ LastRow(rows, m.test.name) \in rows
           /\ LastRow(rows, m.test.name).test.name = m.test.name
           /\ \A j \in rows : j.test.name = m.test.name =>
                 j.id <= LastRow(rows, m.test.name).id
<1> DEFINE T == {next - i.id : i \in {j \in rows : j.test.name = m.test.name}}
<1>1. \A i \in rows : i.id \in Nat /\ next \in Nat /\ i.id < next
  BY DEF Table, Member
<1>2. T \in SUBSET Nat /\ next - m.id \in T
  BY <1>1
<1>3. PICK n \in T : \A k \in T : n <= k
  BY <1>2, LeastElement
<1>4. PICK i \in rows : i.test.name = m.test.name /\ next - i.id = n
  OBVIOUS
<1>5. ASSUME NEW j \in rows, j.test.name = m.test.name
      PROVE  j.id <= i.id
  <2>1. n <= next - j.id
    BY <1>3, <1>5
  <2>2. QED
    BY <1>1, <1>4, <2>1
<1>6. QED
  BY <1>4, <1>5 DEF LastRow

(* Every first row has a place of its own, and every place a row.          *)
LEMMA PlaceFacts ==
    ASSUME NEW rows, NEW next, Table(rows, next)
    PROVE  /\ IsFiniteSet(FirstRows(rows)) /\ Cardinality(FirstRows(rows)) \in Nat
           /\ \A i \in FirstRows(rows) : Place(rows, i) \in 1 .. Cardinality(FirstRows(rows))
           /\ \A i, j \in FirstRows(rows) : Place(rows, i) = Place(rows, j) => i = j
           /\ \A k \in 1 .. Cardinality(FirstRows(rows)) :
                 \E i \in FirstRows(rows) : Place(rows, i) = k
<1> DEFINE first == FirstRows(rows)
           upTo(i) == {j \in first : j.id <= i.id}
           n == Cardinality(first)
<1>1. first \subseteq rows /\ \A i \in first : i.id \in Nat
  BY DEF FirstRows, Table, Member
<1>2. IsFiniteSet(first) /\ n \in Nat
  BY <1>1, FS_Subset, FS_CardinalityType DEF Table
<1>3. \A i \in first : Place(rows, i) = Cardinality(upTo(i)) /\ upTo(i) \in SUBSET first
  BY DEF Place
<1>4. ASSUME NEW i \in first
      PROVE  IsFiniteSet(upTo(i)) /\ Cardinality(upTo(i)) \in 1 .. n
  <2>1. IsFiniteSet(upTo(i)) /\ Cardinality(upTo(i)) <= n
    BY <1>2, <1>3, FS_Subset
  <2>2. i \in upTo(i)
    BY <1>1
  <2>3. Cardinality(upTo(i)) # 0
    BY <2>1, <2>2, FS_EmptySet
  <2>4. Cardinality(upTo(i)) \in Nat
    BY <2>1, FS_CardinalityType
  <2>5. QED
    BY <1>2, <2>1, <2>3, <2>4
<1>5. ASSUME NEW i \in first, NEW j \in first, Cardinality(upTo(i)) = Cardinality(upTo(j))
      PROVE  i = j
  <2>1. CASE i.id <= j.id
    <3>1. upTo(i) \in SUBSET upTo(j)
      BY <1>1, <2>1
    <3>2. upTo(i) = upTo(j)
      BY <1>4, <1>5, <3>1, FS_Subset
    <3>3. j \in upTo(i)
      BY <1>1, <3>2
    <3>4. i.id = j.id
      BY <1>1, <2>1, <3>3
    <3>5. QED
      BY <1>1, <3>4 DEF Table
  <2>2. CASE j.id <= i.id
    <3>1. upTo(j) \in SUBSET upTo(i)
      BY <1>1, <2>2
    <3>2. upTo(i) = upTo(j)
      BY <1>4, <1>5, <3>1, FS_Subset
    <3>3. i \in upTo(j)
      BY <1>1, <3>2
    <3>4. i.id = j.id
      BY <1>1, <2>2, <3>3
    <3>5. QED
      BY <1>1, <3>4 DEF Table
  <2>3. QED
    BY <1>1, <2>1, <2>2
<1>6. \A k \in 1 .. n : \E i \in first : Place(rows, i) = k
  <2> DEFINE f == [i \in first |-> Place(rows, i)]
  <2> HIDE DEF upTo, n, first
  <2>1. f \in Injection(first, 1 .. n)
    BY <1>3, <1>4, <1>5 DEF Injection, IsInjective
  <2>2. IsFiniteSet(1 .. n) /\ Cardinality(1 .. n) = n
    BY <1>2, FS_Interval
  <2>3. f \in Surjection(first, 1 .. n)
    BY <2>1, <2>2, FS_Injection DEF n
  <2>4. QED
    BY <2>3 DEF Surjection
<1>7. QED
  BY <1>2, <1>3, <1>4, <1>5, <1>6

(* A group run has every test of the group in its list, but for those with *)
(* a later one of their name.                                              *)
LEMMA KeyedFacts ==
    ASSUME NEW rows, NEW next, Table(rows, next)
    PROVE  /\ Keyed(rows) \in Seq(Test)
           /\ \A m \in rows :
                 \/ \E k \in 1 .. Len(Keyed(rows)) : Keyed(rows)[k] = m.test
                 \/ \E n \in rows : n.test.name = m.test.name /\ n.id > m.id
<1> DEFINE first == FirstRows(rows)
           RowAt(k) == CHOOSE i \in first : Place(rows, i) = k
           n == Cardinality(first)
<1>1. Keyed(rows) = [k \in 1 .. n |-> LastRow(rows, RowAt(k).test.name).test]
  BY DEF Keyed
<1>2. n \in Nat /\ first \subseteq rows
  BY PlaceFacts DEF FirstRows
<1>3. ASSUME NEW k \in 1 .. n
      PROVE  RowAt(k) \in first /\ Place(rows, RowAt(k)) = k
  BY PlaceFacts
<1> HIDE DEF RowAt, first, n
<1>4. ASSUME NEW k \in 1 .. n
      PROVE  Keyed(rows)[k] = LastRow(rows, RowAt(k).test.name).test
  BY <1>1
<1>5. \A i \in rows : i.test \in Test /\ i.id \in Nat
  BY DEF Table, Member
<1>6. ASSUME NEW k \in 1 .. n
      PROVE  Keyed(rows)[k] \in Test
  BY <1>2, <1>3, <1>4, <1>5, LastOfName
<1>7. Keyed(rows) \in Seq(Test) /\ Len(Keyed(rows)) = n
  BY <1>1, <1>2, <1>6
<1>8. ASSUME NEW m \in rows, \A j \in rows : j.test.name = m.test.name => ~(j.id > m.id)
      PROVE  \E k \in 1 .. Len(Keyed(rows)) : Keyed(rows)[k] = m.test
  <2>1. PICK i \in first : i.test.name = m.test.name
    BY FirstOfName DEF first
  <2> DEFINE k == Place(rows, i)
  <2>2. k \in 1 .. n
    BY <2>1, PlaceFacts DEF first, n
  <2>3. RowAt(k) = i
    BY <1>3, <2>2, PlaceFacts DEF first
  <2>4. /\ LastRow(rows, m.test.name) \in rows
        /\ LastRow(rows, m.test.name).test.name = m.test.name
        /\ m.id <= LastRow(rows, m.test.name).id
    BY LastOfName
  <2>5. LastRow(rows, m.test.name).id = m.id
    BY <1>5, <1>8, <2>4
  <2>6. LastRow(rows, m.test.name) = m
    BY <2>4, <2>5 DEF Table
  <2>7. Keyed(rows)[k] = m.test
    BY <1>4, <2>1, <2>2, <2>3, <2>6
  <2>8. QED
    BY <1>7, <2>2, <2>7
<1>9. QED
  BY <1>7, <1>8

-----------------------------------------------------------------------------
(* Types                                                                   *)

(* The table of the members, and lists that are not left in the middle.    *)
Typed ==
    /\ TypeOK /\ Table(members, serial.member) /\ IsFiniteSet(log_item)
    /\ \A r \in Requests : step[r] \in {"run", "item", "add", "form"} => at[r] >= 1
    /\ \A r \in Requests : step[r] = "item" => at[r] <= Len(todo[r])

LEMMA SelectionsFacts ==
    ASSUME NEW c \in Selections
    PROVE  c \in Seq(Test)
<1>1. PICK m \in Modules, s \in UNION {[1 .. n -> Names] : n \in 1 .. MaxTests} :
         c = [i \in 1 .. Len(s) |-> [module |-> m, name |-> s[i]]]
  BY DEF Selections
<1>2. PICK n \in 1 .. MaxTests : s \in [1 .. n -> Names]
  BY <1>1
<1>3. n \in Nat /\ Len(s) = n
  BY <1>2, BoundAssumption
<1>4. \A i \in 1 .. n : [module |-> m, name |-> s[i]] \in Test
  BY <1>2 DEF Test
<1>5. QED
  BY <1>1, <1>3, <1>4

(* The serials of the tables, one of them moved on or back to its start.   *)
LEMMA SerialsFacts ==
    ASSUME NEW s \in Serials
    PROVE  /\ s.group \in Nat /\ s.member \in Nat /\ s.test \in Nat
           /\ [s EXCEPT !.test = @ + 1] \in Serials
           /\ [s EXCEPT !.test = @ + 1].member = s.member
           /\ [s EXCEPT !.test = 1] \in Serials
           /\ [s EXCEPT !.test = 1].member = s.member
           /\ [s EXCEPT !.group = @ + 1] \in Serials
           /\ [s EXCEPT !.group = @ + 1].member = s.member
           /\ [s EXCEPT !.member = @ + 1] \in Serials
           /\ [s EXCEPT !.member = @ + 1].member = s.member + 1
BY DEF Serials

(* The rows of the log that a request writes.                              *)
LEMMA RowFacts ==
    ASSUME NEW id \in Nat, NEW t \in Test, NEW r \in Requests, NEW k \in Nat
    PROVE  /\ <<r, k>> \in Insert
           /\ [id |-> id, by |-> <<r, k>>] \in LogTest
           /\ [test_id |-> id, test |-> t, by |-> <<r, k>>] \in LogItem
BY DEF Insert, LogTest, LogItem

LEMMA TypedInit == Init => Typed
<1> SUFFICES ASSUME Init
             PROVE  Typed
  OBVIOUS
<1>1. PICK s \in UNION {[1 .. n -> Test] : n \in 0 .. MaxGroup} :
         /\ members = {[id |-> i, group |-> 1, test |-> s[i]] : i \in 1 .. Len(s)}
         /\ serial = [group |-> 2, member |-> Len(s) + 1, test |-> 1]
  BY DEF Init
<1>2. PICK n \in Nat : s \in [1 .. n -> Test] /\ Len(s) = n
  BY <1>1, BoundAssumption
<1>3. \A i \in 1 .. n : [id |-> i, group |-> 1, test |-> s[i]] \in Member
  BY <1>2 DEF Member
<1>4. members \subseteq Member /\ serial \in Serials
  BY <1>1, <1>2, <1>3 DEF Serials
<1>5. IsFiniteSet(members)
  <2> DEFINE f == [i \in 1 .. n |-> [id |-> i, group |-> 1, test |-> s[i]]]
  <2>1. f \in Surjection(1 .. n, members)
    BY <1>1, <1>2 DEF Surjection
  <2>2. IsFiniteSet(1 .. n)
    BY <1>2, FS_Interval
  <2>3. QED
    BY <2>1, <2>2, FS_Surjection
<1>6. Table(members, serial.member)
  BY <1>1, <1>2, <1>4, <1>5 DEF Table
<1>7. TypeOK
  BY <1>4 DEF Init, TypeOK, Steps, Purposes
<1>8. IsFiniteSet(log_item)
  BY FS_EmptySet DEF Init
<1>9. QED
  BY <1>6, <1>7, <1>8 DEF Typed, Init

LEMMA TypedRun ==
    ASSUME Typed, NEW r \in Requests, RunStep(r)
    PROVE  Typed'
<1> USE DEF Steps, Purposes
<1>1. TypeOK
  BY DEF Typed
<1>2. CASE AskRun(r)
  <2>1. \A c \in Selections : c \in Seq(Test)
    BY SelectionsFacts
  <2>2. TypeOK'
    BY <1>1, <1>2, <2>1 DEF AskRun, Begin, TypeOK, tables, ghosts
  <2>3. QED
    BY <1>1, <1>2, <2>2 DEF AskRun, Begin, Typed, TypeOK, tables
<1>3. CASE AskGroupRun(r)
  <2>1. PICK g \in groups : /\ target' = [target EXCEPT ![r] = g]
                            /\ todo' = [todo EXCEPT ![r] = Keyed(MembersOf(g))]
                            /\ expected' = [expected EXCEPT ![r] = MembersOf(g)]
    BY <1>3 DEF AskGroupRun
  <2>2. MembersOf(g) \subseteq members /\ Table(MembersOf(g), serial.member)
    BY FS_Subset DEF MembersOf, Typed, Table
  <2>3. Keyed(MembersOf(g)) \in Seq(Test)
    BY <2>2, KeyedFacts
  <2>4. TypeOK'
    BY <1>1, <1>3, <2>1, <2>2, <2>3 DEF AskGroupRun, Begin, TypeOK, tables
  <2>5. QED
    BY <1>1, <1>3, <2>4 DEF AskGroupRun, Begin, Typed, TypeOK, tables
<1>4. CASE InsertLogTest(r)
  <2>1. at[r] \in Nat /\ serial.test \in Nat /\ Len(todo[r]) \in Nat
    BY <1>1 DEF TypeOK, Serials
  <2>2. todo[r][at[r]] \in Test /\ at[r] <= Len(todo[r])
    BY <1>1, <1>4, <2>1 DEF InsertLogTest, Typed, TypeOK
  <2>3. log_test' \subseteq LogTest
    BY <1>1, <1>4, <2>1, <2>2, RowFacts DEF InsertLogTest, TypeOK
  <2>4. serial' \in Serials /\ serial'.member = serial.member
    BY <1>1, <1>4, SerialsFacts DEF InsertLogTest, TypeOK
  <2>5. TypeOK'
    BY <1>1, <1>4, <2>1, <2>3, <2>4 DEF InsertLogTest, TypeOK, ghosts
  <2>6. QED
    BY <1>1, <1>4, <2>1, <2>2, <2>4, <2>5 DEF InsertLogTest, Typed, TypeOK
<1>5. CASE InsertLogItem(r)
  <2>1. at[r] \in Nat /\ new_id[r] \in Nat /\ counted[r] \in Nat /\ todo[r] \in Seq(Test)
    BY <1>1 DEF TypeOK
  <2>2. todo[r][at[r]] \in Test
    <3>1. at[r] >= 1 /\ at[r] <= Len(todo[r])
      BY <1>5 DEF InsertLogItem, Typed
    <3>2. QED
      BY <2>1, <3>1
  <2>3. log_item' \subseteq LogItem
    <3>1. [test_id |-> new_id[r], test |-> todo[r][at[r]], by |-> <<r, at[r]>>] \in LogItem
      BY <2>1, <2>2, RowFacts
    <3>2. QED
      BY <1>1, <1>5, <3>1 DEF InsertLogItem, TypeOK
  <2>4. IsFiniteSet(log_item')
    BY <1>5, FS_AddElement DEF InsertLogItem, Typed
  <2>5. TypeOK'
    <3>1. at' \in [Requests -> Nat] /\ counted' \in [Requests -> Nat]
      BY <1>1, <1>5, <2>1 DEF InsertLogItem, Continue, TypeOK
    <3>2. step' \in [Requests -> Steps]
      BY <1>1, <1>5 DEF InsertLogItem, TypeOK
    <3>3. QED
      BY <1>1, <1>5, <2>3, <3>1, <3>2 DEF InsertLogItem, TypeOK, ghosts
  <2>6. QED
    BY <1>1, <1>5, <2>1, <2>4, <2>5 DEF InsertLogItem, Continue, Typed, TypeOK
<1>6. CASE NoResult(r)
  <2>1. at[r] \in Nat /\ counted[r] \in Nat
    BY <1>1 DEF TypeOK
  <2>2. at' \in [Requests -> Nat] /\ counted' \in [Requests -> Nat]
    BY <1>1, <1>6, <2>1 DEF NoResult, Continue, TypeOK
  <2>3. step' \in [Requests -> Steps] /\ failed' \in [Requests -> SUBSET Nat]
    BY <1>1, <1>6, <2>1 DEF NoResult, TypeOK
  <2>4. TypeOK'
    BY <1>1, <1>6, <2>2, <2>3 DEF NoResult, TypeOK, tables
  <2>5. at[r] >= 1 /\ at'[r] = at[r] + 1
    BY <1>1, <1>6 DEF NoResult, Continue, Typed, TypeOK
  <2>6. step'[r] # "item"
    BY <1>1, <1>6 DEF NoResult, TypeOK
  <2>7. at'[r] >= 1
    BY <2>1, <2>5
  <2>8. \A q \in Requests : q # r => at'[q] = at[q] /\ step'[q] = step[q]
    BY <1>1, <1>6 DEF NoResult, Continue, TypeOK
  <2>9. todo' = todo /\ UNCHANGED tables
    BY <1>6 DEF NoResult
  <2>10. QED
    BY <2>4, <2>6, <2>7, <2>8, <2>9 DEF Typed, tables
<1>7. QED
  BY <1>2, <1>3, <1>4, <1>5, <1>6 DEF RunStep

LEMMA TypedGroup ==
    ASSUME Typed, NEW r \in Requests, GroupStep(r)
    PROVE  Typed'
<1> USE DEF Steps, Purposes
<1>1. TypeOK
  BY DEF Typed
<1>2. CASE OpenAddForm(r)
  <2>1. \A c \in Selections : c \in Seq(Test)
    BY SelectionsFacts
  <2>2. TypeOK'
    BY <1>1, <1>2, <2>1 DEF OpenAddForm, Begin, TypeOK, tables, ghosts
  <2>3. QED
    BY <1>1, <1>2, <2>2 DEF OpenAddForm, Begin, Typed, TypeOK, tables
<1>3. CASE SubmitAddForm(r)
  BY <1>1, <1>3 DEF SubmitAddForm, Typed, TypeOK, tables, ghosts
<1>4. CASE InsertMember(r)
  <2>1. /\ at[r] \in Nat /\ counted[r] \in Nat /\ serial.member \in Nat /\ at[r] >= 1
        /\ target[r] \in Nat
    BY <1>1, <1>4 DEF InsertMember, Typed, TypeOK, Serials
  <2>2. todo[r][at[r]] \in Test
    BY <1>1, <1>4, <2>1 DEF InsertMember, TypeOK
  <2> DEFINE m == [id |-> serial.member, group |-> target[r], test |-> todo[r][at[r]]]
  <2>3. m \in Member /\ m.id = serial.member
    BY <2>1, <2>2 DEF Member
  <2>4. members' = members \union {m} /\ serial' \in Serials /\ serial'.member = serial.member + 1
    BY <1>1, <1>4, SerialsFacts DEF InsertMember, TypeOK
  <2> HIDE DEF m
  <2>5. Table(members, serial.member)
    BY DEF Typed
  <2>6. IsFiniteSet(members')
    BY <2>4, <2>5, FS_AddElement DEF Table
  <2>7. Table(members', serial'.member)
    BY <2>1, <2>3, <2>4, <2>5, <2>6 DEF Table, Member
  <2>8. late' \subseteq Nat /\ members' \subseteq Member
    BY <1>1, <1>4, <2>1, <2>3, <2>4 DEF InsertMember, TypeOK
  <2>9. TypeOK'
    BY <1>1, <1>4, <2>1, <2>4, <2>8 DEF InsertMember, Continue, TypeOK
  <2>10. at'[r] >= 1 /\ step' = step /\ todo' = todo /\ log_item' = log_item /\ step[r] # "item"
    BY <1>1, <1>4, <2>1 DEF InsertMember, Continue, TypeOK
  <2>11. \A q \in Requests : q # r => at'[q] = at[q]
    BY <1>1, <1>4 DEF InsertMember, Continue, TypeOK
  <2>12. QED
    BY <2>7, <2>9, <2>10, <2>11 DEF Typed
<1>5. CASE CreateGroup(r)
  <2>1. serial' \in Serials /\ serial'.member = serial.member /\ serial.group \in Nat
    BY <1>1, <1>5, SerialsFacts DEF CreateGroup, TypeOK
  <2>2. TypeOK'
    BY <1>1, <1>5, <2>1 DEF CreateGroup, Begin, TypeOK, ghosts
  <2>3. QED
    BY <1>1, <1>5, <2>1, <2>2 DEF CreateGroup, Begin, Typed, TypeOK
<1>6. CASE DeleteGroupItem(r) \/ DeleteMembers(r)
  <2>1. members' \subseteq members /\ serial' = serial
    BY <1>6 DEF DeleteGroupItem, DeleteMembers
  <2>2. Table(members', serial'.member)
    BY <2>1, FS_Subset DEF Typed, Table
  <2>3. TypeOK'
    <3>1. \A g \in groups : g \in Nat /\ purged \union {g} \subseteq Nat
      BY <1>1 DEF TypeOK
    <3>2. CASE DeleteGroupItem(r)
      BY <1>1, <2>1, <3>2 DEF DeleteGroupItem, Begin, TypeOK, ghosts
    <3>3. CASE DeleteMembers(r)
      BY <1>1, <2>1, <3>1, <3>3 DEF DeleteMembers, Begin, TypeOK
    <3>4. QED
      BY <1>6, <3>2, <3>3
  <2>4. QED
    BY <1>1, <1>6, <2>2, <2>3 DEF DeleteGroupItem, DeleteMembers, Begin, Typed, TypeOK, ghosts
<1>7. CASE DeleteGroup(r)
  BY <1>1, <1>7 DEF DeleteGroup, Typed, TypeOK, ghosts
<1>8. QED
  BY <1>2, <1>3, <1>4, <1>5, <1>6, <1>7 DEF GroupStep

LEMMA TypedRest ==
    ASSUME Typed, NEW r \in Requests, ClearStep(r) \/ ShowCount(r)
    PROVE  Typed'
<1> USE DEF Steps, Purposes
<1>1. TypeOK
  BY DEF Typed
<1>2. CASE TruncateLogTest(r)
  <2>1. /\ serial' \in Serials /\ serial'.member = serial.member
        /\ {t.by : t \in log_test} \subseteq Insert
        /\ \A q \in Requests : <<q, at[q]>> \in Insert
    <3>1. serial' \in Serials /\ serial'.member = serial.member
      BY <1>1, <1>2, SerialsFacts DEF TruncateLogTest, TypeOK
    <3>2. {t.by : t \in log_test} \subseteq Insert
      BY <1>1 DEF TypeOK, LogTest
    <3>3. \A q \in Requests : <<q, at[q]>> \in Insert
      BY <1>1 DEF TypeOK, Insert
    <3>4. QED
      BY <3>1, <3>2, <3>3
  <2>2. TypeOK'
    BY <1>1, <1>2, <2>1 DEF TruncateLogTest, Begin, TypeOK
  <2>3. QED
    BY <1>1, <1>2, <2>1, <2>2 DEF TruncateLogTest, Begin, Typed, TypeOK
<1>3. CASE TruncateLogItem(r)
  <2>1. TypeOK'
    BY <1>1, <1>3 DEF TruncateLogItem, TypeOK, ghosts
  <2>2. IsFiniteSet(log_item')
    BY <1>3, FS_EmptySet DEF TruncateLogItem
  <2>3. QED
    BY <1>1, <1>3, <2>1, <2>2 DEF TruncateLogItem, Typed, TypeOK
<1>4. CASE ShowCount(r)
  <2>1. TypeOK'
    BY <1>1, <1>4 DEF ShowCount, TypeOK, tables, ghosts
  <2>2. QED
    BY <1>1, <1>4, <2>1 DEF ShowCount, Typed, TypeOK, tables
<1>5. QED
  BY <1>2, <1>3, <1>4 DEF ClearStep

LEMMA TypedStep ==
    ASSUME Typed, [Next]_vars
    PROVE  Typed'
<1>1. CASE UNCHANGED vars
  BY <1>1 DEF Typed, TypeOK, vars, tables, request, ghosts
<1>2. QED
  BY <1>1, TypedRun, TypedGroup, TypedRest DEF Next

(* Tables, lists and messages keep their types, whatever is asked at once. *)
THEOREM LogTypeCorrect == Spec => []TypeOK
<1>1. Typed => TypeOK
  BY DEF Typed
<1>2. QED
  BY TypedInit, TypedStep, <1>1, PTL DEF Spec

-----------------------------------------------------------------------------
(* What a run has counted and a group run has logged                       *)

Cleared == \E c \in Requests : op[c] = "clear"
Own(r) == {i \in log_item : i.by[1] = r}

(* What a request is for goes with what it does next, and the message is   *)
(* shown at the end of the list.                                           *)
Phase(r) ==
    /\ step[r] = "idle" => op[r] = "none" /\ counted[r] = 0 /\ at[r] = 0
    /\ step[r] \in {"run", "item"} => op[r] \in {"run", "group"}
    /\ step[r] \in {"form", "add"} => op[r] = "add"
    /\ step[r] = "clear" => op[r] = "clear"
    /\ step[r] = "delete" => op[r] = "other"
    /\ step[r] # "done" => report[r] = NoReport
    /\ report[r] # NoReport => report[r] = counted[r] /\ at[r] > Len(todo[r])

(* As long as nothing is cleared: a request has logged only tests it has   *)
(* passed, and a run counts what it has logged.                            *)
Counting(r) ==
    /\ \A i \in Own(r) : i.by[2] < at[r]
    /\ op[r] \in {"none", "run", "group"} => counted[r] = Cardinality(Own(r))

(* A group run has logged or failed every test of its list that it has     *)
(* passed, and its list has the tests of the group it has read.            *)
Covering(r) ==
    op[r] = "group" =>
        /\ \A k \in 1 .. Len(todo[r]) : k < at[r] =>
              k \in failed[r] \/ \E i \in Own(r) : i.test = todo[r][k]
        /\ \A m \in expected[r] :
              \/ \E k \in 1 .. Len(todo[r]) : todo[r][k] = m.test
              \/ \E n \in expected[r] : n.test.name = m.test.name /\ n.id > m.id

RunInv ==
    /\ Typed
    /\ \A r \in Requests : Phase(r)
    /\ Cleared \/ \A r \in Requests : Counting(r) /\ Covering(r)

RequestStep(r) == RunStep(r) \/ GroupStep(r) \/ ClearStep(r) \/ ShowCount(r)

(* A step of a request leaves the other requests where they are, and only  *)
(* the second statement of a clear removes what they have logged.          *)
LEMMA Bystander ==
    ASSUME TypeOK, NEW r \in Requests, RequestStep(r), NEW q \in Requests, q # r
    PROVE  /\ step'[q] = step[q] /\ op'[q] = op[q] /\ todo'[q] = todo[q]
           /\ at'[q] = at[q] /\ counted'[q] = counted[q] /\ report'[q] = report[q]
           /\ failed'[q] = failed[q] /\ expected'[q] = expected[q]
           /\ step[r] # "clear" => Own(q)' = Own(q)
<1>1. CASE AskRun(r)
  BY <1>1 DEF AskRun, Begin, TypeOK, tables, ghosts, Own
<1>2. CASE AskGroupRun(r)
  BY <1>2 DEF AskGroupRun, Begin, TypeOK, tables, Own
<1>3. CASE InsertLogTest(r)
  BY <1>3 DEF InsertLogTest, TypeOK, ghosts, Own
<1>4. CASE InsertLogItem(r)
  BY <1>4 DEF InsertLogItem, Continue, TypeOK, ghosts, Own
<1>5. CASE NoResult(r)
  BY <1>5 DEF NoResult, Continue, TypeOK, tables, Own
<1>6. CASE OpenAddForm(r)
  BY <1>6 DEF OpenAddForm, Begin, TypeOK, tables, ghosts, Own
<1>7. CASE SubmitAddForm(r)
  BY <1>7 DEF SubmitAddForm, TypeOK, tables, ghosts, Own
<1>8. CASE InsertMember(r)
  BY <1>8 DEF InsertMember, Continue, TypeOK, Own
<1>9. CASE CreateGroup(r)
  BY <1>9 DEF CreateGroup, Begin, TypeOK, ghosts, Own
<1>10. CASE DeleteGroupItem(r)
  BY <1>10 DEF DeleteGroupItem, Begin, TypeOK, ghosts, Own
<1>11. CASE DeleteMembers(r)
  BY <1>11 DEF DeleteMembers, Begin, TypeOK, Own
<1>12. CASE DeleteGroup(r)
  BY <1>12 DEF DeleteGroup, TypeOK, ghosts, Own
<1>13. CASE TruncateLogTest(r)
  BY <1>13 DEF TruncateLogTest, Begin, TypeOK, Own
<1>14. CASE TruncateLogItem(r)
  BY <1>14 DEF TruncateLogItem, TypeOK, ghosts
<1>15. CASE ShowCount(r)
  BY <1>15 DEF ShowCount, TypeOK, tables, ghosts, Own
<1>16. QED
  BY <1>1, <1>2, <1>3, <1>4, <1>5, <1>6, <1>7, <1>8, <1>9, <1>10, <1>11, <1>12, <1>13, <1>14, <1>15
  DEF RequestStep, RunStep, GroupStep, ClearStep

LEMMA PhaseStep ==
    ASSUME TypeOK, NEW r \in Requests, RequestStep(r), Phase(r)
    PROVE  Phase(r)'
<1> SUFFICES Phase(r)'
  OBVIOUS
<1>1. CASE AskRun(r)
  BY <1>1 DEF AskRun, Begin, TypeOK, Phase
<1>2. CASE AskGroupRun(r)
  BY <1>2 DEF AskGroupRun, Begin, TypeOK, Phase
<1>3. CASE InsertLogTest(r)
  BY <1>3 DEF InsertLogTest, TypeOK, Phase
<1>4. CASE InsertLogItem(r)
  BY <1>4 DEF InsertLogItem, TypeOK, Phase
<1>5. CASE NoResult(r)
  BY <1>5 DEF NoResult, TypeOK, Phase
<1>6. CASE OpenAddForm(r)
  BY <1>6 DEF OpenAddForm, Begin, TypeOK, Phase
<1>7. CASE SubmitAddForm(r)
  BY <1>7 DEF SubmitAddForm, TypeOK, Phase
<1>8. CASE InsertMember(r)
  BY <1>8 DEF InsertMember, TypeOK, Phase
<1>9. CASE CreateGroup(r) \/ DeleteGroupItem(r) \/ DeleteMembers(r)
  BY <1>9 DEF CreateGroup, DeleteGroupItem, DeleteMembers, Begin, TypeOK, Phase
<1>10. CASE DeleteGroup(r)
  BY <1>10 DEF DeleteGroup, TypeOK, Phase
<1>11. CASE TruncateLogTest(r)
  BY <1>11 DEF TruncateLogTest, Begin, TypeOK, Phase
<1>12. CASE TruncateLogItem(r)
  BY <1>12 DEF TruncateLogItem, TypeOK, Phase
<1>13. CASE ShowCount(r)
  BY <1>13 DEF ShowCount, TypeOK, Phase
<1>14. QED
  BY <1>1, <1>2, <1>3, <1>4, <1>5, <1>6, <1>7, <1>8, <1>9, <1>10, <1>11, <1>12, <1>13
  DEF RequestStep, RunStep, GroupStep, ClearStep

(* A request keeps its purpose: it gets one when it begins.                *)
LEMMA PurposeKept ==
    ASSUME TypeOK, NEW r \in Requests, RequestStep(r)
    PROVE  step[r] = "idle" \/ op'[r] = op[r]
BY DEF RequestStep, RunStep, GroupStep, ClearStep, AskRun, AskGroupRun, InsertLogTest,
       InsertLogItem, NoResult, OpenAddForm, SubmitAddForm, InsertMember, CreateGroup,
       DeleteGroupItem, DeleteMembers, DeleteGroup, TruncateLogTest, TruncateLogItem,
       ShowCount, Begin

LEMMA ClearedStays ==
    ASSUME TypeOK, NEW r \in Requests, RequestStep(r), Phase(r), Cleared
    PROVE  Cleared'
<1>1. PICK c \in Requests : op[c] = "clear"
  BY DEF Cleared
<1>2. op'[c] = "clear"
  BY <1>1, Bystander, PurposeKept DEF Phase
<1>3. QED
  BY <1>2 DEF Cleared

(* The second insert of a record.                                          *)
LEMMA LoggedItem ==
    ASSUME TypeOK, NEW r \in Requests, InsertLogItem(r)
    PROVE  \E i \in Own(r)' : /\ i.by = <<r, at[r]>> /\ i.test = todo[r][at[r]]
                              /\ Own(r)' = Own(r) \union {i}
<1> DEFINE i == [test_id |-> new_id[r], test |-> todo[r][at[r]], by |-> <<r, at[r]>>]
<1>1. log_item' = log_item \union {i}
  BY DEF InsertLogItem
<1>2. i.by = <<r, at[r]>> /\ i.by[1] = r /\ i.test = todo[r][at[r]]
  OBVIOUS
<1> HIDE DEF i
<1>3. QED
  BY <1>1, <1>2 DEF Own

LEMMA CountingStep ==
    ASSUME Typed, NEW r \in Requests, RequestStep(r), Phase(r), ~Cleared', Counting(r)
    PROVE  Counting(r)'
<1>1. TypeOK /\ IsFiniteSet(Own(r))
  <2>1. IsFiniteSet(log_item) /\ Own(r) \subseteq log_item
    BY DEF Typed, Own
  <2>2. QED
    BY <2>1, FS_Subset DEF Typed
<1>2. \A i \in Own(r) : i.by[2] \in Nat
  BY <1>1 DEF Own, TypeOK, LogItem, Insert
<1>3. at[r] \in Nat /\ counted[r] \in Nat
  BY <1>1 DEF TypeOK
<1>4. CASE AskRun(r) \/ AskGroupRun(r)
  <2>1. /\ Own(r)' = Own(r) /\ counted'[r] = counted[r] /\ at'[r] = 1
        /\ step[r] = "idle"
    BY <1>1, <1>4 DEF AskRun, AskGroupRun, Begin, TypeOK, tables, Own
  <2>2. at[r] = 0 /\ op[r] = "none"
    BY <2>1 DEF Phase
  <2>3. \A i \in Own(r) : i.by[2] < 1
    BY <1>2, <2>2 DEF Counting
  <2>4. QED
    BY <2>1, <2>2, <2>3 DEF Counting
<1>5. CASE InsertLogItem(r)
  <2>1. PICK i \in Own(r)' : i.by = <<r, at[r]>> /\ Own(r)' = Own(r) \union {i}
    BY <1>1, <1>5, LoggedItem
  <2>2. at'[r] = at[r] + 1 /\ counted'[r] = counted[r] + 1 /\ op' = op
    BY <1>1, <1>5 DEF InsertLogItem, Continue, TypeOK
  <2>3. op[r] \in {"run", "group"}
    BY <1>5 DEF InsertLogItem, Phase
  <2>4. i.by[2] = at[r] /\ i \notin Own(r)
    BY <1>3, <2>1 DEF Counting
  <2>5. Cardinality(Own(r)') = Cardinality(Own(r)) + 1
    BY <1>1, <2>1, <2>4, FS_AddElement
  <2>6. \A j \in Own(r)' : j.by[2] < at[r] + 1
    BY <1>2, <1>3, <2>1, <2>4 DEF Counting
  <2>7. QED
    BY <2>2, <2>3, <2>5, <2>6 DEF Counting
<1>6. CASE NoResult(r)
  <2>1. Own(r)' = Own(r) /\ at'[r] = at[r] + 1 /\ counted'[r] = counted[r] /\ op' = op
    BY <1>1, <1>6 DEF NoResult, Continue, TypeOK, tables, Own
  <2>2. \A i \in Own(r) : i.by[2] < at[r] + 1
    BY <1>2, <1>3 DEF Counting
  <2>3. QED
    BY <2>1, <2>2 DEF Counting
<1>7. CASE InsertMember(r)
  <2>1. Own(r)' = Own(r) /\ at'[r] = at[r] + 1 /\ op' = op
    BY <1>1, <1>7 DEF InsertMember, Continue, TypeOK, Own
  <2>2. op[r] = "add"
    BY <1>7 DEF InsertMember, Phase
  <2>3. \A i \in Own(r) : i.by[2] < at[r] + 1
    BY <1>2, <1>3 DEF Counting
  <2>4. QED
    BY <2>1, <2>2, <2>3 DEF Counting
<1>8. CASE OpenAddForm(r)
  <2>1. /\ Own(r)' = Own(r) /\ at'[r] = 1 /\ step[r] = "idle" /\ op'[r] = "add"
    BY <1>1, <1>8 DEF OpenAddForm, Begin, TypeOK, tables, Own
  <2>2. \A i \in Own(r) : i.by[2] < 1
    BY <1>2, <2>1 DEF Counting, Phase
  <2>3. QED
    BY <2>1, <2>2 DEF Counting
<1>9. CASE CreateGroup(r) \/ DeleteGroupItem(r) \/ DeleteMembers(r)
  <2>1. Own(r)' = Own(r) /\ at' = at /\ op'[r] = "other"
    BY <1>1, <1>9 DEF CreateGroup, DeleteGroupItem, DeleteMembers, Begin, TypeOK, Own
  <2>2. QED
    BY <2>1 DEF Counting
<1>10. CASE InsertLogTest(r) \/ SubmitAddForm(r) \/ DeleteGroup(r) \/ ShowCount(r)
  <2>1. Own(r)' = Own(r) /\ at' = at /\ op' = op /\ counted' = counted
    BY <1>10 DEF InsertLogTest, SubmitAddForm, DeleteGroup, ShowCount, tables, Own
  <2>2. QED
    BY <2>1 DEF Counting
<1>11. CASE ClearStep(r)
  <2>1. op'[r] = "clear"
    BY <1>1, <1>11 DEF ClearStep, TruncateLogTest, TruncateLogItem, Begin, TypeOK, Phase
  <2>2. QED
    BY <2>1 DEF Cleared
<1>12. QED
  BY <1>4, <1>5, <1>6, <1>7, <1>8, <1>9, <1>10, <1>11 DEF RequestStep, RunStep, GroupStep

LEMMA CoveringStep ==
    ASSUME Typed, NEW r \in Requests, RequestStep(r), Phase(r), ~Cleared', Covering(r)
    PROVE  Covering(r)'
<1>1. TypeOK
  BY DEF Typed
<1>2. at[r] \in Nat /\ Len(todo[r]) \in Nat
  BY <1>1 DEF TypeOK
<1> SUFFICES ASSUME op'[r] = "group"
             PROVE  Covering(r)'
  BY DEF Covering
<1>3. CASE AskGroupRun(r)
  <2>1. PICK g \in groups : /\ todo' = [todo EXCEPT ![r] = Keyed(MembersOf(g))]
                            /\ expected' = [expected EXCEPT ![r] = MembersOf(g)]
    BY <1>3 DEF AskGroupRun
  <2>2. todo'[r] = Keyed(MembersOf(g)) /\ expected'[r] = MembersOf(g) /\ at'[r] = 1
    BY <1>1, <1>3, <2>1 DEF AskGroupRun, TypeOK
  <2>3. Table(MembersOf(g), serial.member)
    BY FS_Subset DEF MembersOf, Typed, Table
  <2>4. Len(Keyed(MembersOf(g))) \in Nat
    BY <2>3, KeyedFacts
  <2>5. \A m \in expected'[r] :
           \/ \E k \in 1 .. Len(todo'[r]) : todo'[r][k] = m.test
           \/ \E n \in expected'[r] : n.test.name = m.test.name /\ n.id > m.id
    BY <2>2, <2>3, KeyedFacts
  <2>6. \A k \in 1 .. Len(todo'[r]) : ~(k < at'[r])
    BY <2>2, <2>4
  <2>7. QED
    BY <2>5, <2>6 DEF Covering
<1>4. CASE InsertLogItem(r)
  <2>1. PICK i \in Own(r)' : i.test = todo[r][at[r]] /\ Own(r)' = Own(r) \union {i}
    BY <1>1, <1>4, LoggedItem
  <2>2. /\ at'[r] = at[r] + 1 /\ op' = op /\ todo' = todo
        /\ failed' = failed /\ expected' = expected
    BY <1>1, <1>4 DEF InsertLogItem, Continue, TypeOK, ghosts
  <2>3. ASSUME NEW k \in 1 .. Len(todo[r]), k < at[r] + 1
        PROVE  k \in failed[r] \/ \E j \in Own(r)' : j.test = todo[r][k]
    <3>1. k < at[r] \/ k = at[r]
      BY <1>2, <2>3
    <3>2. QED
      BY <2>1, <2>2, <3>1 DEF Covering
  <2>4. QED
    BY <2>2, <2>3 DEF Covering
<1>5. CASE NoResult(r)
  <2>1. /\ Own(r)' = Own(r) /\ at'[r] = at[r] + 1 /\ op' = op /\ todo' = todo
        /\ failed'[r] = failed[r] \union {at[r]} /\ expected' = expected
    BY <1>1, <1>5 DEF NoResult, Continue, TypeOK, tables, Own
  <2>2. ASSUME NEW k \in 1 .. Len(todo[r]), k < at[r] + 1
        PROVE  k \in failed'[r] \/ \E j \in Own(r) : j.test = todo[r][k]
    <3>1. k < at[r] \/ k = at[r]
      BY <1>2, <2>2
    <3>2. QED
      BY <2>1, <3>1 DEF Covering
  <2>3. QED
    BY <2>1, <2>2 DEF Covering
<1>6. CASE InsertLogTest(r) \/ DeleteGroup(r) \/ ShowCount(r)
  <2>1. /\ Own(r)' = Own(r) /\ at' = at /\ op' = op /\ todo' = todo
        /\ failed' = failed /\ expected' = expected
    BY <1>6 DEF InsertLogTest, DeleteGroup, ShowCount, tables, ghosts, Own
  <2>2. QED
    BY <2>1 DEF Covering
<1>7. CASE \/ AskRun(r) \/ OpenAddForm(r) \/ SubmitAddForm(r) \/ InsertMember(r)
           \/ CreateGroup(r) \/ DeleteGroupItem(r) \/ DeleteMembers(r) \/ ClearStep(r)
  <2>1. op'[r] # "group"
    BY <1>1, <1>7
    DEF AskRun, OpenAddForm, SubmitAddForm, InsertMember, CreateGroup, DeleteGroupItem,
        DeleteMembers, ClearStep, TruncateLogTest, TruncateLogItem, Begin, TypeOK, Phase
  <2>2. QED
    BY <2>1
<1>8. QED
  BY <1>3, <1>4, <1>5, <1>6, <1>7 DEF RequestStep, RunStep, GroupStep

LEMMA RunInvInit == Init => RunInv
<1> SUFFICES ASSUME Init
             PROVE  RunInv
  OBVIOUS
<1>1. \A r \in Requests : Phase(r)
  BY DEF Init, Phase
<1>2. ASSUME NEW r \in Requests
      PROVE  Counting(r)
  <2>1. Own(r) = {}
    BY DEF Init, Own
  <2>2. QED
    BY <2>1, FS_EmptySet DEF Init, Counting
<1>3. \A r \in Requests : Covering(r)
  BY DEF Init, Covering
<1>4. QED
  BY TypedInit, <1>1, <1>2, <1>3 DEF RunInv

LEMMA RunInvStep ==
    ASSUME RunInv, [Next]_vars
    PROVE  RunInv'
<1>1. Typed' /\ Typed /\ TypeOK
  BY TypedStep DEF RunInv, Typed
<1>2. CASE UNCHANGED vars
  <2>1. UNCHANGED <<log_item, step, op, todo, at, counted, report, failed, expected>>
    BY <1>2 DEF vars, tables, request, ghosts
  <2>2. /\ Cleared' = Cleared
        /\ \A q \in Requests : Phase(q)' = Phase(q) /\ Counting(q)' = Counting(q)
                                /\ Covering(q)' = Covering(q)
    BY <2>1 DEF Phase, Cleared, Counting, Covering, Own
  <2>3. QED
    BY <1>1, <2>2 DEF RunInv
<1>3. ASSUME NEW r \in Requests, RequestStep(r)
      PROVE  RunInv'
  <2>1. ASSUME NEW q \in Requests
        PROVE  Phase(q)'
    <3>1. CASE q = r
      BY <1>1, <1>3, <3>1, PhaseStep DEF RunInv
    <3>2. CASE q # r
      BY <1>1, <1>3, <3>2, Bystander DEF RunInv, Phase
    <3>3. QED
      BY <3>1, <3>2
  <2>2. ASSUME ~Cleared', NEW q \in Requests
        PROVE  Counting(q)' /\ Covering(q)'
    <3>1. ~Cleared
      BY <1>1, <1>3, <2>2, ClearedStays DEF RunInv
    <3>2. Phase(r) /\ Counting(q) /\ Covering(q)
      BY <3>1 DEF RunInv
    <3>3. CASE q = r
      BY <1>1, <1>3, <2>2, <3>2, <3>3, CountingStep, CoveringStep
    <3>4. CASE q # r
      <4>1. step[r] # "clear"
        BY <3>1, <3>2 DEF Phase, Cleared
      <4>2. /\ op'[q] = op[q] /\ todo'[q] = todo[q] /\ at'[q] = at[q] /\ counted'[q] = counted[q]
            /\ failed'[q] = failed[q] /\ expected'[q] = expected[q] /\ Own(q)' = Own(q)
        BY <1>1, <1>3, <3>4, <4>1, Bystander
      <4>3. QED
        BY <3>2, <4>2 DEF Counting, Covering
    <3>5. QED
      BY <3>3, <3>4
  <2>3. QED
    BY <1>1, <2>1, <2>2 DEF RunInv
<1>4. QED
  BY <1>2, <1>3 DEF Next, RequestStep

THEOREM RunsInvariant == Spec => []RunInv
BY RunInvInit, RunInvStep, PTL DEF Spec

(* The number in the message of a run is the number of records it has left *)
(* in the log, however many requests write to it at the same time.         *)
THEOREM CountAlwaysTrue == Spec => []CountIsTrue
<1>1. RunInv => CountIsTrue
  BY DEF RunInv, Phase, Counting, Cleared, Own, CountIsTrue
<1>2. QED
  BY RunsInvariant, <1>1, PTL

(* A group run that has come to its end has logged the whole group.        *)
THEOREM GroupAlwaysCovered == Spec => []GroupRunCovers
<1>1. ASSUME RunInv
      PROVE  GroupRunCovers
  <2> SUFFICES ASSUME NEW r \in Requests, op[r] = "group", report[r] # NoReport, ~Cleared,
                      NEW m \in expected[r],
                      ~ \E n \in expected[r] : n.test.name = m.test.name /\ n.id > m.id
               PROVE  \/ \E i \in log_item : i.by[1] = r /\ i.test = m.test
                      \/ \E k \in failed[r] : todo[r][k] = m.test
    BY DEF GroupRunCovers, Cleared
  <2>1. Covering(r) /\ Phase(r) /\ TypeOK
    BY <1>1 DEF RunInv, Typed
  <2>2. PICK k \in 1 .. Len(todo[r]) : todo[r][k] = m.test
    BY <2>1 DEF Covering
  <2>3. k < at[r]
    <3>1. at[r] > Len(todo[r])
      BY <2>1 DEF Phase
    <3>2. at[r] \in Nat /\ Len(todo[r]) \in Nat
      BY <2>1 DEF TypeOK
    <3>3. QED
      BY <3>1, <3>2
  <2>4. k \in failed[r] \/ \E i \in Own(r) : i.test = todo[r][k]
    BY <2>1, <2>3 DEF Covering
  <2>5. QED
    BY <2>2, <2>4 DEF Own
<1>2. QED
  BY RunsInvariant, <1>1, PTL

=============================================================================
