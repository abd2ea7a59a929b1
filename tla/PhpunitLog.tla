----------------------------- MODULE PhpunitLog -----------------------------
(***************************************************************************)
(* The phpunit_tests module of testsuite: its test groups and the log of   *)
(* test runs, used by several administrators at the same time.             *)
(*                                                                         *)
(*   PhpunitTestsRunTestsMultistepForm    runs chosen tests of a module    *)
(*   PhpunitTestsLinkController           runs one test                    *)
(*   PhpunitTestsGroupController          runs the tests of a group        *)
(*   PhpunitTestsAddToGroupMultistepForm  adds tests to a group            *)
(*   PhpunitTestsRepositoryService        the inserts behind them          *)
(*   the four confirm forms               clear the log, delete            *)
(*                                                                         *)
(* A log record is a row of phpunit_test (log_test) and a row of           *)
(* phpunit_test_item (log_item) that points to it.  Every statement is     *)
(* autocommitted, so requests interleave between any two of them.  A       *)
(* request is used once; area and directory are constant and left out.     *)
(***************************************************************************)
EXTENDS Naturals, Sequences, FiniteSets, SequencesExt

CONSTANTS
    Requests,  \* page requests, each submits one form or follows one link
    Modules,   \* modules that have tests
    Names,     \* names of test classes
    MaxTests,  \* bound: tests chosen in one form
    MaxGroup,  \* bound: tests in the group at the beginning
    NoReport   \* the request has not shown a message

ASSUME BoundAssumption == MaxTests \in Nat /\ MaxGroup \in Nat
ASSUME NoReportAssumption == NoReport \notin Nat

(* A test is a class of a module.  An insert is named by the request and   *)
(* the position of the test in its list: a ghost that identifies rows.     *)
Test == [module: Modules, name: Names]
Insert == Requests \X Nat

Steps == {"idle", "form",        \* nothing asked yet; the last page is open
          "run", "item",         \* the next test runs; its second insert
          "add",                 \* the next test joins the group
          "clear",               \* phpunit_test is empty, its items are not
          "delete",              \* the items are gone, the group is not
          "done"}

Purposes == {"none", "run", "group", "add", "clear", "other"}

VARIABLES
    groups,     \* ids of phpunit_test_group
    members,    \* rows of phpunit_test_group_item: [id, group, test]
    log_test,   \* rows of phpunit_test: [id, by]
    log_item,   \* rows of phpunit_test_item: [test_id, test, by]
    serial,     \* next id of phpunit_test_group, _group_item, phpunit_test
    step,       \* what the request does next
    todo,       \* the tests in its list, one after the other
    at,         \* position in todo
    target,     \* the group the request is about
    new_id,     \* id of the phpunit_test row it has inserted last
    op,         \* what the request is for
    counted,    \* $testCount
    report,     \* the number in the message shown at the end
    failed,     \* ghost: positions whose shell command printed nothing
    expected,   \* ghost: the members of the group when its run was asked
    removed,    \* ghost: the rows of phpunit_test that a clear has removed
    overtaken,  \* ghost: inserts with a clear between their two statements
    purged,     \* ghost: groups whose items a delete has removed
    late        \* ghost: members added to a group after it was purged

tables == <<groups, members, log_test, log_item, serial>>
request == <<step, todo, at, target, new_id, op, counted, report>>
ghosts == <<failed, expected, removed, overtaken, purged, late>>
vars == <<tables, request, ghosts>>

-----------------------------------------------------------------------------
(* Values                                                                  *)

Member == [id: Nat, group: Nat, test: Test]
LogTest == [id: Nat, by: Insert]
LogItem == [test_id: Nat, test: Test, by: Insert]
Serials == [group: Nat, member: Nat, test: Nat]

TypeOK ==
    /\ groups \subseteq Nat /\ members \subseteq Member
    /\ log_test \subseteq LogTest /\ log_item \subseteq LogItem
    /\ serial \in Serials
    /\ step \in [Requests -> Steps]
    /\ todo \in [Requests -> Seq(Test)]
    /\ at \in [Requests -> Nat]
    /\ target \in [Requests -> Nat]
    /\ new_id \in [Requests -> Nat]
    /\ op \in [Requests -> Purposes]
    /\ counted \in [Requests -> Nat]
    /\ report \in [Requests -> Nat \union {NoReport}]
    /\ failed \in [Requests -> SUBSET Nat]
    /\ expected \in [Requests -> SUBSET Member]
    /\ removed \in [Requests -> SUBSET Insert]
    /\ overtaken \subseteq Insert
    /\ purged \subseteq Nat /\ late \subseteq Nat

(* The orders in which a multiple select can list tests of one module.     *)
Selections ==
    {[i \in 1 .. Len(s) |-> [module |-> m, name |-> s[i]]] :
        m \in Modules,
        s \in {q \in UNION {[1 .. n -> Names] : n \in 1 .. MaxTests} :
                    IsInjective(q)}}

(* Mutants of MembersOf and Keyed: the id of the item is compared with the *)
(* group's; the rows themselves are returned; the module is the key.       *)
MembersWithId(g) == {i \in members : i.id = g}
KeyedRows(rows) == SetToSeq(rows)
KeyedByModule(rows) ==
    LET last(m) == CHOOSE i \in rows :
                      /\ i.test.module = m
                      /\ \A j \in rows : j.test.module = m => j.id <= i.id
    IN  SetToSeq({last(i.test.module).test : i \in rows})

MembersOf(g) == {i \in members : i.group = g}

(* SELECT ... fetchAllAssoc('test'): the rows in the order of their ids,   *)
(* keyed by the name of the test.  A later row of the same name replaces   *)
(* the earlier one and keeps its place.                                    *)
FirstRows(rows) ==
    {i \in rows : \A j \in rows : j.test.name = i.test.name => i.id <= j.id}
LastRow(rows, n) ==
    CHOOSE i \in rows :
        /\ i.test.name = n
        /\ \A j \in rows : j.test.name = n => j.id <= i.id
Place(rows, i) == Cardinality({j \in FirstRows(rows) : j.id <= i.id})
Keyed(rows) ==
    LET first == FirstRows(rows)
        RowAt(k) == CHOOSE i \in first : Place(rows, i) = k
    IN  [k \in 1 .. Cardinality(first) |-> LastRow(rows, RowAt(k).test.name).test]

-----------------------------------------------------------------------------
(* Requests begin                                                          *)

Begin(r, purpose, next) ==
    /\ step[r] = "idle"
    /\ step' = [step EXCEPT ![r] = next]
    /\ op' = [op EXCEPT ![r] = purpose]

(* Submits the run form, or follows the link that runs one test.           *)
AskRun(r) ==
    /\ Begin(r, "run", "run")
    /\ \E c \in Selections : todo' = [todo EXCEPT ![r] = c]
    /\ at' = [at EXCEPT ![r] = 1]
    /\ UNCHANGED <<tables, target, new_id, counted, report, ghosts>>

(* Follows the link that runs a group: its items are read once.            *)
AskGroupRun(r) ==
    /\ Begin(r, "group", "run")
    /\ \E g \in groups :
        /\ target' = [target EXCEPT ![r] = g]
        /\ todo' = [todo EXCEPT ![r] = Keyed(MembersOf(g))]
        /\ expected' = [expected EXCEPT ![r] = MembersOf(g)]
    /\ at' = [at EXCEPT ![r] = 1]
    /\ UNCHANGED <<tables, new_id, counted, report, failed, removed, overtaken, purged, late>>

(* The last page of the add form lists the groups there are now; the form  *)
(* is cached with this list until the page is submitted.                   *)
OpenAddForm(r) ==
    /\ Begin(r, "add", "form")
    /\ \E g \in groups : target' = [target EXCEPT ![r] = g]
    /\ \E c \in Selections : todo' = [todo EXCEPT ![r] = c]
    /\ at' = [at EXCEPT ![r] = 1]
    /\ UNCHANGED <<tables, new_id, counted, report, ghosts>>

SubmitAddForm(r) ==
    /\ step[r] = "form"
    /\ step' = [step EXCEPT ![r] = "add"]
    /\ UNCHANGED <<tables, todo, at, target, new_id, op, counted, report, ghosts>>

CreateGroup(r) ==
    /\ Begin(r, "other", "done")
    /\ groups' = groups \union {serial.group}
    /\ serial' = [serial EXCEPT !.group = @ + 1]
    /\ UNCHANGED <<members, log_test, log_item, todo, at, target, new_id,
                   counted, report, ghosts>>

DeleteGroupItem(r) ==
    /\ Begin(r, "other", "done")
    /\ \E i \in members : members' = members \ {i}
    /\ UNCHANGED <<groups, log_test, log_item, serial, todo, at, target, new_id,
                   counted, report, ghosts>>

-----------------------------------------------------------------------------
(* Statements of a request                                                 *)

(* A mutant of Continue: the tests are counted, not their records.         *)
CountAll(r, count) ==
    /\ counted' = [counted EXCEPT ![r] = at[r]]
    /\ at' = [at EXCEPT ![r] = @ + 1]

(* What the loop does after a test: the next one, or the message.          *)
Continue(r, count) ==
    /\ counted' = [counted EXCEPT ![r] = count]
    /\ at' = [at EXCEPT ![r] = @ + 1]

(* The shell command printed a report: the first insert of createLog.      *)
InsertLogTest(r) ==
    /\ step[r] = "run" /\ at[r] <= Len(todo[r])
    /\ log_test' = log_test \union {[id |-> serial.test, by |-> <<r, at[r]>>]}
    /\ new_id' = [new_id EXCEPT ![r] = serial.test]
    /\ serial' = [serial EXCEPT !.test = @ + 1]
    /\ step' = [step EXCEPT ![r] = "item"]
    /\ UNCHANGED <<groups, members, log_item, todo, at, target, op,
                   counted, report, ghosts>>

(* A mutant of InsertLogItem: the highest id of phpunit_test is used.      *)
InsertUnderLastId(r) ==
    /\ step[r] = "item"
    /\ log_item' = log_item \union
          {[test_id |-> serial.test - 1, test |-> todo[r][at[r]], by |-> <<r, at[r]>>]}
    /\ step' = [step EXCEPT ![r] = "run"]
    /\ Continue(r, counted[r] + 1)
    /\ UNCHANGED <<groups, members, log_test, serial, todo, target, new_id,
                   op, report, ghosts>>

(* The second insert of createLog.                                         *)
InsertLogItem(r) ==
    /\ step[r] = "item"
    /\ log_item' = log_item \union
          {[test_id |-> new_id[r], test |-> todo[r][at[r]], by |-> <<r, at[r]>>]}
    /\ step' = [step EXCEPT ![r] = "run"]
    /\ Continue(r, counted[r] + 1)
    /\ UNCHANGED <<groups, members, log_test, serial, todo, target, new_id,
                   op, report, ghosts>>

(* The shell command printed nothing.  The group run goes on with the next *)
(* test, the form returns without a count and the link answers No results. *)
NoResult(r) ==
    /\ step[r] = "run" /\ at[r] <= Len(todo[r])
    /\ failed' = [failed EXCEPT ![r] = @ \union {at[r]}]
    /\ step' = [step EXCEPT ![r] = IF op[r] = "group" THEN "run" ELSE "done"]
    /\ Continue(r, counted[r])
    /\ UNCHANGED <<tables, todo, target, new_id, op, report,
                   expected, removed, overtaken, purged, late>>

(* createGroupItem: nothing checks that the group still exists.            *)
InsertMember(r) ==
    /\ step[r] = "add" /\ at[r] <= Len(todo[r])
    /\ members' = members \union
          {[id |-> serial.member, group |-> target[r], test |-> todo[r][at[r]]]}
    /\ late' = IF target[r] \in purged THEN late \union {serial.member} ELSE late
    /\ serial' = [serial EXCEPT !.member = @ + 1]
    /\ Continue(r, counted[r] + 1)
    /\ UNCHANGED <<groups, log_test, log_item, step, todo, target, new_id,
                   op, report, failed, expected, removed, overtaken, purged>>

(* The end of the loop shows how many tests have been recorded.            *)
ShowCount(r) ==
    /\ step[r] \in {"run", "add"} /\ at[r] > Len(todo[r])
    /\ report' = [report EXCEPT ![r] = counted[r]]
    /\ step' = [step EXCEPT ![r] = "done"]
    /\ UNCHANGED <<tables, todo, at, target, new_id, op, counted, ghosts>>

(* Both clear forms: TRUNCATE phpunit_test, which restarts its serial.     *)
TruncateLogTest(r) ==
    /\ Begin(r, "clear", "clear")
    /\ log_test' = {}
    /\ serial' = [serial EXCEPT !.test = 1]
    /\ removed' = [removed EXCEPT ![r] = {t.by : t \in log_test}]
    /\ overtaken' = overtaken \union {<<q, at[q]>> : q \in {p \in Requests : step[p] = "item"}}
    /\ UNCHANGED <<groups, members, log_item, todo, at, target, new_id,
                   counted, report, failed, expected, purged, late>>

TruncateLogItem(r) ==
    /\ step[r] = "clear"
    /\ log_item' = {}
    /\ step' = [step EXCEPT ![r] = "done"]
    /\ UNCHANGED <<groups, members, log_test, serial, todo, at, target, new_id,
                   op, counted, report, ghosts>>

(* The confirm form of a group: first its items, then the group itself.    *)
DeleteMembers(r) ==
    /\ Begin(r, "other", "delete")
    /\ \E g \in groups :
        /\ target' = [target EXCEPT ![r] = g]
        /\ members' = members \ MembersOf(g)
        /\ purged' = purged \union {g}
    /\ UNCHANGED <<groups, log_test, log_item, serial, todo, at, new_id,
                   counted, report, failed, expected, removed, overtaken, late>>

DeleteGroup(r) ==
    /\ step[r] = "delete"
    /\ groups' = groups \ {target[r]}
    /\ step' = [step EXCEPT ![r] = "done"]
    /\ UNCHANGED <<members, log_test, log_item, serial, todo, at, target, new_id,
                   op, counted, report, ghosts>>

-----------------------------------------------------------------------------
(* The specification.  Group 1 exists, with any tests in it; no request    *)
(* has to go on: one that the web server gives up on simply stops.         *)

Init ==
    /\ groups = {1}
    /\ \E s \in UNION {[1 .. n -> Test] : n \in 0 .. MaxGroup} :
        /\ members = {[id |-> i, group |-> 1, test |-> s[i]] : i \in 1 .. Len(s)}
        /\ serial = [group |-> 2, member |-> Len(s) + 1, test |-> 1]
    /\ log_test = {} /\ log_item = {}
    /\ step = [r \in Requests |-> "idle"]
    /\ op = [r \in Requests |-> "none"]
    /\ todo = [r \in Requests |-> <<>>]
    /\ at = [r \in Requests |-> 0]
    /\ target = [r \in Requests |-> 0]
    /\ new_id = [r \in Requests |-> 0]
    /\ counted = [r \in Requests |-> 0]
    /\ report = [r \in Requests |-> NoReport]
    /\ failed = [r \in Requests |-> {}]
    /\ expected = [r \in Requests |-> {}]
    /\ removed = [r \in Requests |-> {}]
    /\ overtaken = {} /\ purged = {} /\ late = {}

RunStep(r) == AskRun(r) \/ AskGroupRun(r) \/ InsertLogTest(r) \/ InsertLogItem(r) \/ NoResult(r)
GroupStep(r) ==
    \/ OpenAddForm(r) \/ SubmitAddForm(r) \/ InsertMember(r)
    \/ CreateGroup(r) \/ DeleteGroupItem(r) \/ DeleteMembers(r) \/ DeleteGroup(r)
ClearStep(r) == TruncateLogTest(r) \/ TruncateLogItem(r)

Next == \E r \in Requests : RunStep(r) \/ GroupStep(r) \/ ClearStep(r) \/ ShowCount(r)

Spec == Init /\ [][Next]_vars

-----------------------------------------------------------------------------
(* Properties                                                              *)

(* The report joins an item with the row of phpunit_test of its id.        *)
Paired(i) == \E t \in log_test : t.id = i.test_id /\ t.by = i.by

(* An item of the report without its own row of phpunit_test (no row: the  *)
(* report page cannot build its link; the row of another run: it shows the *)
(* wrong date and leads to the wrong details) was written across a clear:  *)
(* either its two inserts had the clear between them or the clear has not  *)
(* come to the items yet.                                                  *)
PairingExplained ==
    \A i \in log_item :
        \/ Paired(i)
        \/ i.by \in overtaken
        \/ \E c \in Requests : step[c] = "clear" /\ i.by \in removed[c]

(* A member whose group is gone was added after a delete of the group had  *)
(* removed its items: nothing else leaves members behind.                  *)
OrphansExplained ==
    \A i \in members : i.group \in groups \/ i.id \in late

(* A group run that has shown its message has logged every member of the   *)
(* group, but for those whose command printed nothing and those that have  *)
(* the class name of a later member (unless the log was cleared).          *)
GroupRunCovers ==
    \A r \in Requests : op[r] = "group" /\ report[r] # NoReport =>
        \A m \in expected[r] :
            \/ \E i \in log_item : i.by[1] = r /\ i.test = m.test
            \/ \E k \in failed[r] : todo[r][k] = m.test
            \/ \E n \in expected[r] : n.test.name = m.test.name /\ n.id > m.id
            \/ \E c \in Requests : op[c] = "clear"

(* The number in the message is the number of records that the request has *)
(* left in the log (unless the log was cleared).                           *)
CountIsTrue ==
    \A r \in Requests : op[r] \in {"run", "group"} /\ report[r] # NoReport =>
        \/ report[r] = Cardinality({i \in log_item : i.by[1] = r})
        \/ \E c \in Requests : op[c] = "clear"

=============================================================================
