------------------------ MODULE GeocoderFieldProofs ------------------------
(***************************************************************************)
(* Theorems about geocoder_field: GeocodeQueue for every set of entities,  *)
(* sources and processes, every setting of the field and every number of   *)
(* items, and GeocodeFieldProcess for every chain of fields, every number  *)
(* of values and every setting but those that a theorem names.             *)
(***************************************************************************)
EXTENDS GeocodeQueue, GeocodeFieldProcess, TLAPS

(* A pair that needs no queue item: up to date, or stale for a cause.      *)
Explained(pair) == UpToDate(pair) \/ pair.why # {}

(* The job, target and location of a process belong together.              *)
JobsMatch ==
    \A p \in Procs :
        /\ pc[p] \in {"idle", "editing"} => job[p] = NoItem
        /\ pc[p] \in {"claimed", "geocoded", "saved"} =>
              job[p] \in Item /\ target[p] = job[p].ent
        /\ pc[p] \in {"editing", "saving"} => target[p] \in Entities
        /\ pc[p] = "saving" /\ job[p] # NoItem => job[p].ent = target[p]

(* Serial numbers are never reused.                                        *)
IdsAreFresh ==
    /\ \A i \in items : i.id < nextId
    /\ \A p \in Procs : job[p] # NoItem => job[p].id < nextId

(* A row that is not committed belongs to the saving process alone.        *)
OwnRow ==
    QueueInTransaction =>
        \A p \in Procs : pc[p] = "saving" /\ job[p] # NoItem =>
            /\ job[p] \in items
            /\ \A q \in Procs : q # p => job[q] # job[p]

(* What a process is about to write.                                       *)
CopiesExplained ==
    \A p \in Procs :
        /\ pc[p] = "geocoded" => Explained(copy[p]) /\ target[p] \in flag[p]
        /\ pc[p] = "saving" => Explained(copy[p]) \/ job[p] # NoItem
        /\ pc[p] = "editing" /\ ~UseQueue => Explained(copy[p])

(* Without the queue setting nothing is ever queued.                       *)
NoQueueNoItems ==
    ~UseQueue => items = {} /\ \A p \in Procs : job[p] = NoItem

CopiesNotRaced == QueueInTransaction => \A p \in Procs : "raced" \notin copy[p].why

(* An entity with stale coordinates is in the queue or has some cause.      *)
HasCause == \A e \in Entities : Outdated(e) => stored[e].why # {} \/ Owed(e)

(* A queue inside the transaction of the save is never ahead of the save.  *)
NoRace ==
    QueueInTransaction => \A e \in Entities : Exists(e) => "raced" \notin stored[e].why

IInv ==
    /\ TypeOK
    /\ JobsMatch
    /\ IdsAreFresh
    /\ OwnRow
    /\ CopiesExplained
    /\ NoQueueNoItems
    /\ CopiesNotRaced
    /\ HasCause
    /\ NoRace

-----------------------------------------------------------------------------
(* Values                                                                  *)

LEMMA PairFields ==
    ASSUME NEW pair \in Pair
    PROVE  /\ pair.src \in Value /\ pair.geo \in Value /\ pair.why \in SUBSET Causes
           /\ \A w \in SUBSET Causes : /\ WithCauses(pair, w) \in Pair
                                       /\ WithCauses(pair, w).src = pair.src
                                       /\ WithCauses(pair, w).geo = pair.geo
                                       /\ WithCauses(pair, w).why = w
           /\ \A c \in Causes : /\ Note(pair, c) \in Pair
                                /\ Note(pair, c).src = pair.src
                                /\ Note(pair, c).geo = pair.geo
                                /\ Note(pair, c).why = pair.why \union {c}
           /\ \A s \in Value : /\ [pair EXCEPT !.src = s] \in Pair
                               /\ [pair EXCEPT !.src = s].src = s
                               /\ [pair EXCEPT !.src = s].geo = pair.geo
                               /\ [pair EXCEPT !.src = s].why = pair.why
  BY DEF Pair, Note, WithCauses

(* Every outcome of _geocoder_field_process is a pair with the same source. *)
LEMMA ProcessedType ==
    ASSUME NEW pair \in Pair, NEW former, NEW found \in BOOLEAN
    PROVE  /\ Processed(pair, former, found) \in Pair
           /\ Processed(pair, former, found).src = pair.src
           /\ "raced" \notin pair.why => "raced" \notin Processed(pair, former, found).why
  BY ConfigAssumption
     DEF Processed, Geocoded, NotGeocoded, Note, WithCauses, Pair, Causes, Value

(* ... and it is explained unless the source is unchanged.                 *)
LEMMA ProcessedExplained ==
    ASSUME NEW pair \in Pair, NEW former, NEW found \in BOOLEAN
    PROVE  \/ Explained(Processed(pair, former, found))
           \/ SourceUnchanged(pair, former) /\ Processed(pair, former, found) = pair
  BY ConfigAssumption
     DEF Processed, Geocoded, NotGeocoded, Note, WithCauses, Pair, Causes, Value, Explained, UpToDate

LEMMA ItemFields ==
    ASSUME NEW e \in Entities, nextId \in Nat
    PROVE  NewItem(e) \in Item /\ NewItem(e).id = nextId /\ NewItem(e).ent = e
  BY DEF NewItem, Item

LEMMA BlankPair == Blank \in Pair /\ Explained(Blank) /\ Blank.why = {}
  BY DEF Blank, Pair, Value, Causes, Explained, UpToDate

LEMMA Cause == /\ "disabled" \in Causes /\ "flagged" \in Causes /\ "overtaken" \in Causes
               /\ "raced" \in Causes /\ "failed" \in Causes /\ "kept" \in Causes
  BY DEF Causes

-----------------------------------------------------------------------------
(* Types                                                                   *)

LEMMA TypeInit == Init => TypeOK /\ JobsMatch
  BY BlankPair DEF Init, TypeOK, JobsMatch, Location, Item

LEMMA TypeStep == TypeOK /\ JobsMatch /\ [Next]_vars => TypeOK' /\ JobsMatch'
<1> SUFFICES ASSUME TypeOK, JobsMatch, [Next]_vars
             PROVE  TypeOK' /\ JobsMatch'
  OBVIOUS
<1> USE SentinelAssumption
<1>1. ASSUME NEW p \in Procs, NEW e \in Entities, BeginEdit(p, e)
      PROVE  TypeOK' /\ JobsMatch'
  <2>1. TypeOK'
    BY <1>1, BlankPair DEF BeginEdit, Exists, TypeOK, JobsMatch, Location
  <2>2. JobsMatch'
    BY <1>1 DEF BeginEdit, Exists, TypeOK, JobsMatch, Location
  <2>3. QED BY <2>1, <2>2
<1>2. ASSUME NEW p \in Procs, NEW s \in Value, PresaveSkipped(p, s)
      PROVE  TypeOK' /\ JobsMatch'
  <2>1. TypeOK'
    BY <1>2, PairFields, Cause DEF PresaveSkipped, Draft, TypeOK, JobsMatch, Location
  <2>2. JobsMatch'
    BY <1>2 DEF PresaveSkipped, Draft, TypeOK, JobsMatch, Location
  <2>3. QED BY <2>1, <2>2
<1>3. ASSUME NEW p \in Procs, NEW s \in Value, PresaveQueued(p, s)
      PROVE  TypeOK' /\ JobsMatch'
  <2>1. target[p] \in Entities /\ copy[p] \in Pair /\ nextId \in Nat
    BY <1>3 DEF PresaveQueued, TypeOK, JobsMatch
  <2> DEFINE draft == Draft(p, s)
  <2>2. WithCauses(draft, {}) \in Pair
    BY <2>1, PairFields DEF Draft
  <2>3. NewItem(target[p]) \in Item /\ NewItem(target[p]).ent = target[p]
    BY <2>1, ItemFields
  <2> HIDE DEF draft
  <2>4. TypeOK'
    BY <1>3, <2>1, <2>2, <2>3 DEF PresaveQueued, TypeOK, Location, draft
  <2>5. JobsMatch'
    BY <1>3, <2>1, <2>3 DEF PresaveQueued, TypeOK, JobsMatch, Location
  <2>6. QED BY <2>4, <2>5
<1>4. ASSUME NEW p \in Procs, NEW s \in Value, NEW found \in BOOLEAN, PresaveSync(p, s, found)
      PROVE  TypeOK' /\ JobsMatch'
  <2>1. TypeOK'
    BY <1>4, PairFields, ProcessedType, Cause DEF PresaveSync, Draft, TypeOK, JobsMatch, Location
  <2>2. JobsMatch'
    BY <1>4 DEF PresaveSync, Draft, TypeOK, JobsMatch, Location
  <2>3. QED BY <2>1, <2>2
<1>5. ASSUME NEW p \in Procs, Write(p)
      PROVE  TypeOK' /\ JobsMatch'
  <2>1. TypeOK'
    BY <1>5, PairFields, BlankPair, Cause DEF Write, Release, TypeOK, JobsMatch, Location
  <2>2. JobsMatch'
    BY <1>5 DEF Write, Release, TypeOK, JobsMatch, Location
  <2>3. QED BY <2>1, <2>2
<1>6. ASSUME NEW p \in Procs, OnPrePublish(p)
      PROVE  TypeOK' /\ JobsMatch'
  <2>1. TypeOK'
    BY <1>6 DEF OnPrePublish, TypeOK, JobsMatch, Location
  <2>2. JobsMatch'
    BY <1>6 DEF OnPrePublish, TypeOK, JobsMatch, Location
  <2>3. QED BY <2>1, <2>2
<1>7. ASSUME NEW p \in Procs, OnPostPublish(p)
      PROVE  TypeOK' /\ JobsMatch'
  <2>1. TypeOK'
    BY <1>7 DEF OnPostPublish, TypeOK, JobsMatch, Location
  <2>2. JobsMatch'
    BY <1>7 DEF OnPostPublish, TypeOK, JobsMatch, Location
  <2>3. QED BY <2>1, <2>2
<1>8. ASSUME NEW p \in Procs, NEW i \in items, ClaimItem(p, i)
      PROVE  TypeOK' /\ JobsMatch'
  <2>1. TypeOK'
    <3>1. i \in Item /\ i.ent \in Entities
      BY DEF TypeOK, Item
    <3>2. QED
      BY <1>8, <3>1 DEF ClaimItem, TypeOK, Location
  <2>2. JobsMatch'
    BY <1>8 DEF ClaimItem, TypeOK, JobsMatch, Location
  <2>3. QED BY <2>1, <2>2
<1>9. ASSUME NEW p \in Procs, ProcessNothing(p)
      PROVE  TypeOK' /\ JobsMatch'
  <2>1. TypeOK'
    BY <1>9 DEF ProcessNothing, TypeOK, JobsMatch, Location
  <2>2. JobsMatch'
    BY <1>9 DEF ProcessNothing, TypeOK, JobsMatch, Location
  <2>3. QED BY <2>1, <2>2
<1>10. ASSUME NEW p \in Procs, NEW found \in BOOLEAN, ProcessUnchanged(p, found)
      PROVE  TypeOK' /\ JobsMatch'
  <2>1. TypeOK'
    <3>1. target[p] \in Entities /\ stored[target[p]] \in Pair
      BY <1>10 DEF ProcessUnchanged, Exists, TypeOK, JobsMatch, Item
    <3>2. Result(p, found) \in Pair
      BY <3>1, ProcessedType DEF Result
    <3>3. WithCauses(stored[target[p]], Result(p, found).why) \in Pair
      BY <3>1, <3>2, PairFields
    <3>4. QED
      BY <1>10, <3>1, <3>2, <3>3 DEF ProcessUnchanged, TypeOK, Location
  <2>2. JobsMatch'
    BY <1>10 DEF ProcessUnchanged, Result, Exists, TypeOK, JobsMatch, Location
  <2>3. QED BY <2>1, <2>2
<1>11. ASSUME NEW p \in Procs, NEW found \in BOOLEAN, ProcessDropped(p, found)
      PROVE  TypeOK' /\ JobsMatch'
  <2>1. TypeOK'
    BY <1>11, PairFields, Cause DEF ProcessDropped, Exists, TypeOK, JobsMatch, Location
  <2>2. JobsMatch'
    BY <1>11 DEF ProcessDropped, Exists, TypeOK, JobsMatch, Location
  <2>3. QED BY <2>1, <2>2
<1>12. ASSUME NEW p \in Procs, NEW found \in BOOLEAN, ProcessChanged(p, found)
      PROVE  TypeOK' /\ JobsMatch'
  <2>1. TypeOK'
    <3>1. target[p] \in Entities /\ stored[target[p]] \in Pair
      BY <1>12 DEF ProcessChanged, Exists, TypeOK, JobsMatch, Item
    <3>2. Result(p, found) \in Pair
      BY <3>1, ProcessedType DEF Result
    <3>3. WithCauses(stored[target[p]], Result(p, found).why) \in Pair
      BY <3>1, <3>2, PairFields
    <3>4. QED
      BY <1>12, <3>1, <3>2, <3>3 DEF ProcessChanged, TypeOK, Location
  <2>2. JobsMatch'
    BY <1>12 DEF ProcessChanged, Result, Exists, TypeOK, JobsMatch, Location
  <2>3. QED BY <2>1, <2>2
<1>13. ASSUME NEW p \in Procs, WorkerSave(p)
      PROVE  TypeOK' /\ JobsMatch'
  <2>1. TypeOK'
    <3>1. target[p] \in Entities /\ copy[p] \in Pair /\ nextId \in Nat /\ nextId + 1 \in Nat
      BY <1>13 DEF WorkerSave, TypeOK, JobsMatch, Item
    <3>2. NewItem(target[p]) \in Item
      BY <3>1, ItemFields
    <3>3. QED
      BY <1>13, <3>1, <3>2, BlankPair DEF WorkerSave, TypeOK, Location
  <2>2. JobsMatch'
    BY <1>13, ItemFields DEF WorkerSave, TypeOK, JobsMatch, Location
  <2>3. QED BY <2>1, <2>2
<1>14. ASSUME NEW p \in Procs, WorkerSaveFails(p)
      PROVE  TypeOK' /\ JobsMatch'
  <2>1. TypeOK'
    BY <1>14, BlankPair DEF WorkerSaveFails, Release, TypeOK, JobsMatch, Location
  <2>2. JobsMatch'
    BY <1>14 DEF WorkerSaveFails, Release, TypeOK, JobsMatch, Location
  <2>3. QED BY <2>1, <2>2
<1>15. ASSUME NEW p \in Procs, DeleteItem(p)
      PROVE  TypeOK' /\ JobsMatch'
  <2>1. TypeOK'
    BY <1>15, BlankPair DEF DeleteItem, Release, TypeOK, JobsMatch, Location
  <2>2. JobsMatch'
    BY <1>15 DEF DeleteItem, Release, TypeOK, JobsMatch, Location
  <2>3. QED BY <2>1, <2>2
<1>16. ASSUME NEW p \in Procs, EndProcess(p)
      PROVE  TypeOK' /\ JobsMatch'
  <2>1. TypeOK'
    BY <1>16, BlankPair DEF EndProcess, Release, Forget, TypeOK, JobsMatch, Location
  <2>2. JobsMatch'
    BY <1>16 DEF EndProcess, Release, Forget, TypeOK, JobsMatch, Location
  <2>3. QED BY <2>1, <2>2
<1>17. ASSUME NEW p \in Procs, Crash(p)
      PROVE  TypeOK' /\ JobsMatch'
  <2>1. TypeOK'
    BY <1>17, BlankPair DEF Crash, Release, Forget, TypeOK, JobsMatch, Location
  <2>2. JobsMatch'
    BY <1>17 DEF Crash, Release, Forget, TypeOK, JobsMatch, Location
  <2>3. QED BY <2>1, <2>2
<1>18. ASSUME NEW e \in Entities, DeleteEntity(e)
       PROVE  TypeOK' /\ JobsMatch'
  BY <1>18 DEF DeleteEntity, TypeOK, JobsMatch, procVars
<1>19. ASSUME NEW i \in leased, LeaseExpires(i)
       PROVE  TypeOK' /\ JobsMatch'
  BY <1>19 DEF LeaseExpires, TypeOK, JobsMatch, procVars
<1>20. CASE UNCHANGED vars
  BY <1>20 DEF vars, procVars, TypeOK, JobsMatch
<1>21. QED
  BY <1>1, <1>2, <1>3, <1>4, <1>5, <1>6, <1>7, <1>8, <1>9, <1>10, <1>11, <1>12,
     <1>13, <1>14, <1>15, <1>16, <1>17, <1>18, <1>19, <1>20
     DEF Next, Presave, ProcessItem

-----------------------------------------------------------------------------
(* Rows and their serial numbers                                           *)

LEMMA IdsStep == TypeOK /\ JobsMatch /\ IdsAreFresh /\ [Next]_vars => IdsAreFresh'
<1> SUFFICES ASSUME TypeOK, JobsMatch, IdsAreFresh, [Next]_vars
             PROVE  IdsAreFresh'
  OBVIOUS
<1> USE SentinelAssumption
<1>1. ASSUME NEW p \in Procs, NEW e \in Entities, BeginEdit(p, e)
      PROVE  IdsAreFresh'
  BY <1>1 DEF BeginEdit, Exists, IdsAreFresh, TypeOK, JobsMatch, Item
<1>2. ASSUME NEW p \in Procs, NEW s \in Value, PresaveSkipped(p, s)
      PROVE  IdsAreFresh'
  BY <1>2 DEF PresaveSkipped, Draft, IdsAreFresh, TypeOK, JobsMatch, Item
<1>3. ASSUME NEW p \in Procs, NEW s \in Value, PresaveQueued(p, s)
      PROVE  IdsAreFresh'
  BY <1>3, ItemFields DEF PresaveQueued, Draft, IdsAreFresh, TypeOK, JobsMatch, Item
<1>4. ASSUME NEW p \in Procs, NEW s \in Value, NEW found \in BOOLEAN, PresaveSync(p, s, found)
      PROVE  IdsAreFresh'
  BY <1>4 DEF PresaveSync, Draft, IdsAreFresh, TypeOK, JobsMatch, Item
<1>5. ASSUME NEW p \in Procs, Write(p)
      PROVE  IdsAreFresh'
  BY <1>5 DEF Write, Release, IdsAreFresh, TypeOK, JobsMatch, Item
<1>6. ASSUME NEW p \in Procs, OnPrePublish(p)
      PROVE  IdsAreFresh'
  BY <1>6 DEF OnPrePublish, IdsAreFresh, TypeOK, JobsMatch, Item
<1>7. ASSUME NEW p \in Procs, OnPostPublish(p)
      PROVE  IdsAreFresh'
  BY <1>7 DEF OnPostPublish, IdsAreFresh, TypeOK, JobsMatch, Item
<1>8. ASSUME NEW p \in Procs, NEW i \in items, ClaimItem(p, i)
      PROVE  IdsAreFresh'
  BY <1>8 DEF ClaimItem, IdsAreFresh, TypeOK, JobsMatch, Item
<1>9. ASSUME NEW p \in Procs, ProcessNothing(p)
      PROVE  IdsAreFresh'
  BY <1>9 DEF ProcessNothing, IdsAreFresh, TypeOK, JobsMatch, Item
<1>10. ASSUME NEW p \in Procs, NEW found \in BOOLEAN, ProcessUnchanged(p, found)
      PROVE  IdsAreFresh'
  BY <1>10 DEF ProcessUnchanged, Result, Exists, IdsAreFresh, TypeOK, JobsMatch, Item
<1>11. ASSUME NEW p \in Procs, NEW found \in BOOLEAN, ProcessDropped(p, found)
      PROVE  IdsAreFresh'
  BY <1>11 DEF ProcessDropped, Exists, IdsAreFresh, TypeOK, JobsMatch, Item
<1>12. ASSUME NEW p \in Procs, NEW found \in BOOLEAN, ProcessChanged(p, found)
      PROVE  IdsAreFresh'
  BY <1>12 DEF ProcessChanged, Result, Exists, IdsAreFresh, TypeOK, JobsMatch, Item
<1>13. ASSUME NEW p \in Procs, WorkerSave(p)
      PROVE  IdsAreFresh'
  BY <1>13, ItemFields DEF WorkerSave, IdsAreFresh, TypeOK, JobsMatch, Item
<1>14. ASSUME NEW p \in Procs, WorkerSaveFails(p)
      PROVE  IdsAreFresh'
  BY <1>14 DEF WorkerSaveFails, Release, IdsAreFresh, TypeOK, JobsMatch, Item
<1>15. ASSUME NEW p \in Procs, DeleteItem(p)
      PROVE  IdsAreFresh'
  BY <1>15 DEF DeleteItem, Release, IdsAreFresh, TypeOK, JobsMatch, Item
<1>16. ASSUME NEW p \in Procs, EndProcess(p)
      PROVE  IdsAreFresh'
  BY <1>16 DEF EndProcess, Release, Forget, IdsAreFresh, TypeOK, JobsMatch, Item
<1>17. ASSUME NEW p \in Procs, Crash(p)
      PROVE  IdsAreFresh'
  BY <1>17 DEF Crash, Release, Forget, IdsAreFresh, TypeOK, JobsMatch, Item
<1>18. ASSUME NEW e \in Entities, DeleteEntity(e)
       PROVE  IdsAreFresh'
  BY <1>18 DEF DeleteEntity, procVars, IdsAreFresh, TypeOK, JobsMatch, Item
<1>19. ASSUME NEW i \in leased, LeaseExpires(i)
       PROVE  IdsAreFresh'
  BY <1>19 DEF LeaseExpires, procVars, IdsAreFresh, TypeOK, JobsMatch, Item
<1>20. CASE UNCHANGED vars
  BY <1>20 DEF vars, procVars, IdsAreFresh, TypeOK, JobsMatch, Item
<1>21. QED
  BY <1>1, <1>2, <1>3, <1>4, <1>5, <1>6, <1>7, <1>8, <1>9, <1>10, <1>11, <1>12,
     <1>13, <1>14, <1>15, <1>16, <1>17, <1>18, <1>19, <1>20
     DEF Next, Presave, ProcessItem

LEMMA OwnRowStep == TypeOK /\ JobsMatch /\ IdsAreFresh /\ OwnRow /\ [Next]_vars => OwnRow'
<1> SUFFICES ASSUME TypeOK, JobsMatch, IdsAreFresh, OwnRow, [Next]_vars
             PROVE  OwnRow'
  OBVIOUS
<1> USE SentinelAssumption
<1>1. ASSUME NEW p \in Procs, NEW e \in Entities, BeginEdit(p, e)
      PROVE  OwnRow'
  BY <1>1 DEF BeginEdit, Exists, OwnRow, Uncommitted, IdsAreFresh, TypeOK, JobsMatch, Item
<1>2. ASSUME NEW p \in Procs, NEW s \in Value, PresaveSkipped(p, s)
      PROVE  OwnRow'
  BY <1>2 DEF PresaveSkipped, Draft, OwnRow, Uncommitted, IdsAreFresh, TypeOK, JobsMatch, Item
<1>3. ASSUME NEW p \in Procs, NEW s \in Value, PresaveQueued(p, s)
      PROVE  OwnRow'
  BY <1>3, ItemFields DEF PresaveQueued, Draft, OwnRow, Uncommitted, IdsAreFresh, TypeOK, JobsMatch, Item
<1>4. ASSUME NEW p \in Procs, NEW s \in Value, NEW found \in BOOLEAN, PresaveSync(p, s, found)
      PROVE  OwnRow'
  BY <1>4 DEF PresaveSync, Draft, OwnRow, Uncommitted, IdsAreFresh, TypeOK, JobsMatch, Item
<1>5. ASSUME NEW p \in Procs, Write(p)
      PROVE  OwnRow'
  BY <1>5 DEF Write, Release, OwnRow, Uncommitted, IdsAreFresh, TypeOK, JobsMatch, Item
<1>6. ASSUME NEW p \in Procs, OnPrePublish(p)
      PROVE  OwnRow'
  BY <1>6 DEF OnPrePublish, OwnRow, Uncommitted, IdsAreFresh, TypeOK, JobsMatch, Item
<1>7. ASSUME NEW p \in Procs, OnPostPublish(p)
      PROVE  OwnRow'
  BY <1>7 DEF OnPostPublish, OwnRow, Uncommitted, IdsAreFresh, TypeOK, JobsMatch, Item
<1>8. ASSUME NEW p \in Procs, NEW i \in items, ClaimItem(p, i)
      PROVE  OwnRow'
  BY <1>8 DEF ClaimItem, OwnRow, Uncommitted, IdsAreFresh, TypeOK, JobsMatch, Item
<1>9. ASSUME NEW p \in Procs, ProcessNothing(p)
      PROVE  OwnRow'
  BY <1>9 DEF ProcessNothing, OwnRow, Uncommitted, IdsAreFresh, TypeOK, JobsMatch, Item
<1>10. ASSUME NEW p \in Procs, NEW found \in BOOLEAN, ProcessUnchanged(p, found)
      PROVE  OwnRow'
  BY <1>10 DEF ProcessUnchanged, Result, Exists, OwnRow, Uncommitted, IdsAreFresh, TypeOK, JobsMatch, Item
<1>11. ASSUME NEW p \in Procs, NEW found \in BOOLEAN, ProcessDropped(p, found)
      PROVE  OwnRow'
  BY <1>11 DEF ProcessDropped, Exists, OwnRow, Uncommitted, IdsAreFresh, TypeOK, JobsMatch, Item
<1>12. ASSUME NEW p \in Procs, NEW found \in BOOLEAN, ProcessChanged(p, found)
      PROVE  OwnRow'
  BY <1>12 DEF ProcessChanged, Result, Exists, OwnRow, Uncommitted, IdsAreFresh, TypeOK, JobsMatch, Item
<1>13. ASSUME NEW p \in Procs, WorkerSave(p)
      PROVE  OwnRow'
  BY <1>13, ItemFields DEF WorkerSave, OwnRow, Uncommitted, IdsAreFresh, TypeOK, JobsMatch, Item
<1>14. ASSUME NEW p \in Procs, WorkerSaveFails(p)
      PROVE  OwnRow'
  BY <1>14 DEF WorkerSaveFails, Release, OwnRow, Uncommitted, IdsAreFresh, TypeOK, JobsMatch, Item
<1>15. ASSUME NEW p \in Procs, DeleteItem(p)
      PROVE  OwnRow'
  BY <1>15 DEF DeleteItem, Release, OwnRow, Uncommitted, IdsAreFresh, TypeOK, JobsMatch, Item
<1>16. ASSUME NEW p \in Procs, EndProcess(p)
      PROVE  OwnRow'
  BY <1>16 DEF EndProcess, Release, Forget, OwnRow, Uncommitted, IdsAreFresh, TypeOK, JobsMatch, Item
<1>17. ASSUME NEW p \in Procs, Crash(p)
      PROVE  OwnRow'
  BY <1>17 DEF Crash, Release, Forget, OwnRow, Uncommitted, IdsAreFresh, TypeOK, JobsMatch, Item
<1>18. ASSUME NEW e \in Entities, DeleteEntity(e)
       PROVE  OwnRow'
  BY <1>18 DEF DeleteEntity, procVars, OwnRow, Uncommitted, IdsAreFresh, TypeOK, JobsMatch, Item
<1>19. ASSUME NEW i \in leased, LeaseExpires(i)
       PROVE  OwnRow'
  BY <1>19 DEF LeaseExpires, procVars, OwnRow, Uncommitted, IdsAreFresh, TypeOK, JobsMatch, Item
<1>20. CASE UNCHANGED vars
  BY <1>20 DEF vars, procVars, OwnRow, Uncommitted, IdsAreFresh, TypeOK, JobsMatch, Item
<1>21. QED
  BY <1>1, <1>2, <1>3, <1>4, <1>5, <1>6, <1>7, <1>8, <1>9, <1>10, <1>11, <1>12,
     <1>13, <1>14, <1>15, <1>16, <1>17, <1>18, <1>19, <1>20
     DEF Next, Presave, ProcessItem

LEMMA NoQueueStep == TypeOK /\ JobsMatch /\ NoQueueNoItems /\ [Next]_vars => NoQueueNoItems'
<1> SUFFICES ASSUME TypeOK, JobsMatch, NoQueueNoItems, [Next]_vars
             PROVE  NoQueueNoItems'
  OBVIOUS
<1> USE SentinelAssumption
<1>1. ASSUME NEW p \in Procs, NEW e \in Entities, BeginEdit(p, e)
      PROVE  NoQueueNoItems'
  BY <1>1 DEF BeginEdit, Exists, NoQueueNoItems, TypeOK, JobsMatch, Item
<1>2. ASSUME NEW p \in Procs, NEW s \in Value, PresaveSkipped(p, s)
      PROVE  NoQueueNoItems'
  BY <1>2 DEF PresaveSkipped, Draft, NoQueueNoItems, TypeOK, JobsMatch, Item
<1>3. ASSUME NEW p \in Procs, NEW s \in Value, PresaveQueued(p, s)
      PROVE  NoQueueNoItems'
  BY <1>3 DEF PresaveQueued, Draft, NoQueueNoItems, TypeOK, JobsMatch, Item
<1>4. ASSUME NEW p \in Procs, NEW s \in Value, NEW found \in BOOLEAN, PresaveSync(p, s, found)
      PROVE  NoQueueNoItems'
  BY <1>4 DEF PresaveSync, Draft, NoQueueNoItems, TypeOK, JobsMatch, Item
<1>5. ASSUME NEW p \in Procs, Write(p)
      PROVE  NoQueueNoItems'
  BY <1>5 DEF Write, Release, NoQueueNoItems, TypeOK, JobsMatch, Item
<1>6. ASSUME NEW p \in Procs, OnPrePublish(p)
      PROVE  NoQueueNoItems'
  BY <1>6 DEF OnPrePublish, NoQueueNoItems, TypeOK, JobsMatch, Item
<1>7. ASSUME NEW p \in Procs, OnPostPublish(p)
      PROVE  NoQueueNoItems'
  BY <1>7 DEF OnPostPublish, NoQueueNoItems, TypeOK, JobsMatch, Item
<1>8. ASSUME NEW p \in Procs, NEW i \in items, ClaimItem(p, i)
      PROVE  NoQueueNoItems'
  BY <1>8 DEF ClaimItem, NoQueueNoItems, TypeOK, JobsMatch, Item
<1>9. ASSUME NEW p \in Procs, ProcessNothing(p)
      PROVE  NoQueueNoItems'
  BY <1>9 DEF ProcessNothing, NoQueueNoItems, TypeOK, JobsMatch, Item
<1>10. ASSUME NEW p \in Procs, NEW found \in BOOLEAN, ProcessUnchanged(p, found)
      PROVE  NoQueueNoItems'
  BY <1>10 DEF ProcessUnchanged, Result, Exists, NoQueueNoItems, TypeOK, JobsMatch, Item
<1>11. ASSUME NEW p \in Procs, NEW found \in BOOLEAN, ProcessDropped(p, found)
      PROVE  NoQueueNoItems'
  BY <1>11 DEF ProcessDropped, Exists, NoQueueNoItems, TypeOK, JobsMatch, Item
<1>12. ASSUME NEW p \in Procs, NEW found \in BOOLEAN, ProcessChanged(p, found)
      PROVE  NoQueueNoItems'
  BY <1>12 DEF ProcessChanged, Result, Exists, NoQueueNoItems, TypeOK, JobsMatch, Item
<1>13. ASSUME NEW p \in Procs, WorkerSave(p)
      PROVE  NoQueueNoItems'
  BY <1>13 DEF WorkerSave, NoQueueNoItems, TypeOK, JobsMatch, Item
<1>14. ASSUME NEW p \in Procs, WorkerSaveFails(p)
      PROVE  NoQueueNoItems'
  BY <1>14 DEF WorkerSaveFails, Release, NoQueueNoItems, TypeOK, JobsMatch, Item
<1>15. ASSUME NEW p \in Procs, DeleteItem(p)
      PROVE  NoQueueNoItems'
  BY <1>15 DEF DeleteItem, Release, NoQueueNoItems, TypeOK, JobsMatch, Item
<1>16. ASSUME NEW p \in Procs, EndProcess(p)
      PROVE  NoQueueNoItems'
  BY <1>16 DEF EndProcess, Release, Forget, NoQueueNoItems, TypeOK, JobsMatch, Item
<1>17. ASSUME NEW p \in Procs, Crash(p)
      PROVE  NoQueueNoItems'
  BY <1>17 DEF Crash, Release, Forget, NoQueueNoItems, TypeOK, JobsMatch, Item
<1>18. ASSUME NEW e \in Entities, DeleteEntity(e)
       PROVE  NoQueueNoItems'
  BY <1>18 DEF DeleteEntity, procVars, NoQueueNoItems, TypeOK, JobsMatch, Item
<1>19. ASSUME NEW i \in leased, LeaseExpires(i)
       PROVE  NoQueueNoItems'
  BY <1>19 DEF LeaseExpires, procVars, NoQueueNoItems, TypeOK, JobsMatch, Item
<1>20. CASE UNCHANGED vars
  BY <1>20 DEF vars, procVars, NoQueueNoItems, TypeOK, JobsMatch, Item
<1>21. QED
  BY <1>1, <1>2, <1>3, <1>4, <1>5, <1>6, <1>7, <1>8, <1>9, <1>10, <1>11, <1>12,
     <1>13, <1>14, <1>15, <1>16, <1>17, <1>18, <1>19, <1>20
     DEF Next, Presave, ProcessItem

-----------------------------------------------------------------------------
(* Copies                                                                  *)

(* A noted cause explains a pair.                                          *)
LEMMA NotedExplained ==
    ASSUME NEW pair \in Pair, NEW c \in Causes
    PROVE  /\ Explained(Note(pair, c))
           /\ c # "raced" /\ "raced" \notin pair.why => "raced" \notin Note(pair, c).why
  BY PairFields DEF Explained

(* Nothing that processItem makes of a stored pair is left unexplained.    *)
LEMMA ResultExplained ==
    ASSUME TypeOK, NEW p \in Procs, NEW found \in BOOLEAN,
           target[p] \in Entities, Exists(target[p])
    PROVE  /\ Result(p, found) \in Pair
           /\ Explained(Result(p, found))
           /\ Result(p, found).src = stored[target[p]].src
           /\ "raced" \notin stored[target[p]].why => "raced" \notin Result(p, found).why
  BY ProcessedType, ProcessedExplained, SentinelAssumption
     DEF Result, Exists, SourceUnchanged, TypeOK

(* Draft keeps everything but the source.                                  *)
LEMMA DraftFields ==
    ASSUME NEW p \in Procs, NEW s \in Value, copy[p] \in Pair
    PROVE  /\ Draft(p, s) \in Pair
           /\ Draft(p, s).src = s
           /\ Draft(p, s).geo = copy[p].geo
           /\ Draft(p, s).why = copy[p].why
  BY PairFields DEF Draft

LEMMA CopiesStep == TypeOK /\ JobsMatch /\ NoQueueNoItems /\ CopiesExplained /\ HasCause /\ [Next]_vars => CopiesExplained'
<1> SUFFICES ASSUME TypeOK, JobsMatch, NoQueueNoItems, CopiesExplained, HasCause, [Next]_vars
             PROVE  CopiesExplained'
  OBVIOUS
<1> USE SentinelAssumption
<1>1. ASSUME NEW p \in Procs, NEW e \in Entities, BeginEdit(p, e)
      PROVE  CopiesExplained'
  <2>1. ~UseQueue => Explained(copy'[p])
    BY <1>1, BlankPair
       DEF BeginEdit, Exists, HasCause, Outdated, Owed, NoQueueNoItems, Explained, TypeOK
  <2>2. QED
    BY <1>1, <2>1 DEF BeginEdit, CopiesExplained, TypeOK
<1>2. ASSUME NEW p \in Procs, NEW s \in Value, PresaveSkipped(p, s)
      PROVE  CopiesExplained'
  <2>1. Explained(copy'[p])
    BY <1>2, DraftFields, NotedExplained, Cause DEF PresaveSkipped, TypeOK
  <2>2. QED
    BY <1>2, <2>1 DEF PresaveSkipped, CopiesExplained, TypeOK
<1>3. ASSUME NEW p \in Procs, NEW s \in Value, PresaveQueued(p, s)
      PROVE  CopiesExplained'
  BY <1>3, ItemFields DEF PresaveQueued, Draft, CopiesExplained, TypeOK, JobsMatch, Item
<1>4. ASSUME NEW p \in Procs, NEW s \in Value, NEW found \in BOOLEAN, PresaveSync(p, s, found)
      PROVE  CopiesExplained'
  <2> DEFINE draft == Draft(p, s)
             former == stored[target[p]]
             outcome == Processed(draft, former, found)
             missed == SourceUnchanged(draft, former) /\ s # copy[p].src
  <2>1. copy[p] \in Pair /\ Explained(copy[p])
    BY <1>4 DEF PresaveSync, CopiesExplained, TypeOK
  <2>2. draft \in Pair /\ draft.src = s /\ draft.geo = copy[p].geo /\ draft.why = copy[p].why
    BY <2>1, DraftFields
  <2>3. copy'[p] = IF missed THEN Note(outcome, "overtaken") ELSE outcome
    BY <1>4 DEF PresaveSync, TypeOK
  <2>4. outcome \in Pair
    BY <2>2, ProcessedType
  <2>5. Explained(copy'[p])
    <3>1. CASE missed
      BY <2>3, <2>4, <3>1, NotedExplained, Cause
    <3>2. CASE ~missed
      <4>1. Explained(outcome) \/ (SourceUnchanged(draft, former) /\ outcome = draft)
        BY <2>2, ProcessedExplained
      <4>2. SourceUnchanged(draft, former) => Explained(draft)
        BY <2>1, <2>2, <3>2 DEF Explained, UpToDate
      <4>3. QED
        BY <2>3, <3>2, <4>1, <4>2
    <3>3. QED
      BY <3>1, <3>2
  <2>6. QED
    BY <1>4, <2>5 DEF PresaveSync, CopiesExplained, TypeOK
<1>5. ASSUME NEW p \in Procs, Write(p)
      PROVE  CopiesExplained'
  BY <1>5 DEF Write, Release, CopiesExplained, TypeOK, JobsMatch, Item
<1>6. ASSUME NEW p \in Procs, OnPrePublish(p)
      PROVE  CopiesExplained'
  BY <1>6 DEF OnPrePublish, CopiesExplained, TypeOK, JobsMatch, Item
<1>7. ASSUME NEW p \in Procs, OnPostPublish(p)
      PROVE  CopiesExplained'
  BY <1>7 DEF OnPostPublish, CopiesExplained, TypeOK, JobsMatch, Item
<1>8. ASSUME NEW p \in Procs, NEW i \in items, ClaimItem(p, i)
      PROVE  CopiesExplained'
  BY <1>8 DEF ClaimItem, CopiesExplained, TypeOK, JobsMatch, Item
<1>9. ASSUME NEW p \in Procs, ProcessNothing(p)
      PROVE  CopiesExplained'
  BY <1>9 DEF ProcessNothing, CopiesExplained, TypeOK, JobsMatch, Item
<1>10. ASSUME NEW p \in Procs, NEW found \in BOOLEAN, ProcessUnchanged(p, found)
      PROVE  CopiesExplained'
  BY <1>10 DEF ProcessUnchanged, Result, Exists, CopiesExplained, TypeOK, JobsMatch, Item
<1>11. ASSUME NEW p \in Procs, NEW found \in BOOLEAN, ProcessDropped(p, found)
      PROVE  CopiesExplained'
  BY <1>11 DEF ProcessDropped, Exists, CopiesExplained, TypeOK, JobsMatch, Item
<1>12. ASSUME NEW p \in Procs, NEW found \in BOOLEAN, ProcessChanged(p, found)
      PROVE  CopiesExplained'
  <2>1. Explained(copy'[p])
    BY <1>12, ResultExplained DEF ProcessChanged, TypeOK, JobsMatch, Item
  <2>2. QED
    BY <1>12, <2>1 DEF ProcessChanged, CopiesExplained, TypeOK
<1>13. ASSUME NEW p \in Procs, WorkerSave(p)
      PROVE  CopiesExplained'
  BY <1>13 DEF WorkerSave, CopiesExplained, TypeOK, JobsMatch, Item
<1>14. ASSUME NEW p \in Procs, WorkerSaveFails(p)
      PROVE  CopiesExplained'
  BY <1>14 DEF WorkerSaveFails, Release, CopiesExplained, TypeOK, JobsMatch, Item
<1>15. ASSUME NEW p \in Procs, DeleteItem(p)
      PROVE  CopiesExplained'
  BY <1>15 DEF DeleteItem, Release, CopiesExplained, TypeOK, JobsMatch, Item
<1>16. ASSUME NEW p \in Procs, EndProcess(p)
      PROVE  CopiesExplained'
  BY <1>16 DEF EndProcess, Release, Forget, CopiesExplained, TypeOK, JobsMatch, Item
<1>17. ASSUME NEW p \in Procs, Crash(p)
      PROVE  CopiesExplained'
  BY <1>17 DEF Crash, Release, Forget, CopiesExplained, TypeOK, JobsMatch, Item
<1>18. ASSUME NEW e \in Entities, DeleteEntity(e)
       PROVE  CopiesExplained'
  BY <1>18 DEF DeleteEntity, procVars, CopiesExplained, TypeOK, JobsMatch, Item
<1>19. ASSUME NEW i \in leased, LeaseExpires(i)
       PROVE  CopiesExplained'
  BY <1>19 DEF LeaseExpires, procVars, CopiesExplained, TypeOK, JobsMatch, Item
<1>20. CASE UNCHANGED vars
  BY <1>20 DEF vars, procVars, CopiesExplained, TypeOK, JobsMatch, Item
<1>21. QED
  BY <1>1, <1>2, <1>3, <1>4, <1>5, <1>6, <1>7, <1>8, <1>9, <1>10, <1>11, <1>12,
     <1>13, <1>14, <1>15, <1>16, <1>17, <1>18, <1>19, <1>20
     DEF Next, Presave, ProcessItem

LEMMA NotRacedStep == TypeOK /\ JobsMatch /\ IdsAreFresh /\ OwnRow /\ CopiesNotRaced /\ NoRace /\ [Next]_vars => (CopiesNotRaced /\ NoRace)'
<1> SUFFICES ASSUME TypeOK, JobsMatch, IdsAreFresh, OwnRow, CopiesNotRaced, NoRace, [Next]_vars
             PROVE  (CopiesNotRaced /\ NoRace)'
  OBVIOUS
<1> USE SentinelAssumption
<1>1. ASSUME NEW p \in Procs, NEW e \in Entities, BeginEdit(p, e)
      PROVE  (CopiesNotRaced /\ NoRace)'
  BY <1>1, BlankPair DEF BeginEdit, Exists, CopiesNotRaced, NoRace, Exists, TypeOK, JobsMatch, Item
<1>2. ASSUME NEW p \in Procs, NEW s \in Value, PresaveSkipped(p, s)
      PROVE  (CopiesNotRaced /\ NoRace)'
  <2>1. QueueInTransaction => "raced" \notin copy'[p].why
    BY <1>2, DraftFields, NotedExplained, Cause DEF PresaveSkipped, CopiesNotRaced, TypeOK
  <2>2. QED
    BY <1>2, <2>1 DEF PresaveSkipped, CopiesNotRaced, NoRace, Exists, TypeOK
<1>3. ASSUME NEW p \in Procs, NEW s \in Value, PresaveQueued(p, s)
      PROVE  (CopiesNotRaced /\ NoRace)'
  BY <1>3, PairFields DEF PresaveQueued, Draft, CopiesNotRaced, NoRace, Exists, TypeOK, JobsMatch, Item
<1>4. ASSUME NEW p \in Procs, NEW s \in Value, NEW found \in BOOLEAN, PresaveSync(p, s, found)
      PROVE  (CopiesNotRaced /\ NoRace)'
  <2> DEFINE draft == Draft(p, s)
             outcome == Processed(draft, stored[target[p]], found)
  <2>1. draft \in Pair /\ draft.why = copy[p].why
    BY DraftFields DEF TypeOK
  <2>2. /\ outcome \in Pair
        /\ "raced" \notin copy[p].why => "raced" \notin outcome.why
    BY <2>1, ProcessedType
  <2>3. copy'[p] \in {outcome, Note(outcome, "overtaken")}
    BY <1>4 DEF PresaveSync, TypeOK
  <2>4. "raced" \notin copy[p].why => "raced" \notin copy'[p].why
    BY <2>2, <2>3, NotedExplained, Cause
  <2>5. QED
    BY <1>4, <2>4 DEF PresaveSync, CopiesNotRaced, NoRace, Exists, TypeOK
<1>5. ASSUME NEW p \in Procs, Write(p)
      PROVE  (CopiesNotRaced /\ NoRace)'
  <2> SUFFICES ASSUME QueueInTransaction
               PROVE  (CopiesNotRaced /\ NoRace)'
    BY DEF CopiesNotRaced, NoRace
  <2>1. CopiesNotRaced'
    BY <1>5, BlankPair DEF Write, Release, CopiesNotRaced, TypeOK
  <2>2. target[p] \in Entities /\ ~(job[p] # NoItem /\ (job[p] \notin items \/ Spent(job[p])))
    BY <1>5 DEF Write, OwnRow, Spent, TypeOK, JobsMatch
  <2>3. stored' = stored \/ stored' = [stored EXCEPT ![target[p]] = copy[p]]
    BY <1>5, <2>2 DEF Write
  <2>4. "raced" \notin copy[p].why
    BY DEF CopiesNotRaced
  <2>5. NoRace'
    BY <2>2, <2>3, <2>4 DEF NoRace, Exists, TypeOK
  <2>6. QED
    BY <2>1, <2>5
<1>6. ASSUME NEW p \in Procs, OnPrePublish(p)
      PROVE  (CopiesNotRaced /\ NoRace)'
  BY <1>6 DEF OnPrePublish, CopiesNotRaced, NoRace, Exists, TypeOK, JobsMatch, Item
<1>7. ASSUME NEW p \in Procs, OnPostPublish(p)
      PROVE  (CopiesNotRaced /\ NoRace)'
  BY <1>7 DEF OnPostPublish, CopiesNotRaced, NoRace, Exists, TypeOK, JobsMatch, Item
<1>8. ASSUME NEW p \in Procs, NEW i \in items, ClaimItem(p, i)
      PROVE  (CopiesNotRaced /\ NoRace)'
  BY <1>8 DEF ClaimItem, CopiesNotRaced, NoRace, Exists, TypeOK, JobsMatch, Item
<1>9. ASSUME NEW p \in Procs, ProcessNothing(p)
      PROVE  (CopiesNotRaced /\ NoRace)'
  BY <1>9 DEF ProcessNothing, CopiesNotRaced, NoRace, Exists, TypeOK, JobsMatch, Item
<1>10. ASSUME NEW p \in Procs, NEW found \in BOOLEAN, ProcessUnchanged(p, found)
      PROVE  (CopiesNotRaced /\ NoRace)'
  <2>1. target[p] \in Entities /\ Exists(target[p])
    BY <1>10 DEF ProcessUnchanged, TypeOK, JobsMatch, Item
  <2>2. "raced" \notin stored[target[p]].why => "raced" \notin stored'[target[p]].why
    BY <1>10, <2>1, ResultExplained, PairFields DEF ProcessUnchanged, Exists, TypeOK
  <2>3. QED
    BY <1>10, <2>1, <2>2 DEF ProcessUnchanged, CopiesNotRaced, NoRace, Exists, TypeOK
<1>11. ASSUME NEW p \in Procs, NEW found \in BOOLEAN, ProcessDropped(p, found)
      PROVE  (CopiesNotRaced /\ NoRace)'
  <2>1. target[p] \in Entities /\ Exists(target[p])
    BY <1>11 DEF ProcessDropped, TypeOK, JobsMatch, Item
  <2>2. "raced" \notin stored[target[p]].why => "raced" \notin stored'[target[p]].why
    BY <1>11, <2>1, NotedExplained, Cause DEF ProcessDropped, Exists, TypeOK
  <2>3. QED
    BY <1>11, <2>1, <2>2 DEF ProcessDropped, CopiesNotRaced, NoRace, Exists, TypeOK
<1>12. ASSUME NEW p \in Procs, NEW found \in BOOLEAN, ProcessChanged(p, found)
      PROVE  (CopiesNotRaced /\ NoRace)'
  <2>1. target[p] \in Entities /\ Exists(target[p])
    BY <1>12 DEF ProcessChanged, TypeOK, JobsMatch, Item
  <2>2. "raced" \notin stored[target[p]].why => "raced" \notin copy'[p].why
    BY <1>12, <2>1, ResultExplained DEF ProcessChanged, TypeOK
  <2>3. QED
    BY <1>12, <2>1, <2>2 DEF ProcessChanged, CopiesNotRaced, NoRace, Exists, TypeOK
<1>13. ASSUME NEW p \in Procs, WorkerSave(p)
      PROVE  (CopiesNotRaced /\ NoRace)'
  BY <1>13, BlankPair DEF WorkerSave, CopiesNotRaced, NoRace, Exists, TypeOK, JobsMatch, Item
<1>14. ASSUME NEW p \in Procs, WorkerSaveFails(p)
      PROVE  (CopiesNotRaced /\ NoRace)'
  BY <1>14, BlankPair DEF WorkerSaveFails, Release, CopiesNotRaced, NoRace, Exists, TypeOK, JobsMatch, Item
<1>15. ASSUME NEW p \in Procs, DeleteItem(p)
      PROVE  (CopiesNotRaced /\ NoRace)'
  BY <1>15, BlankPair DEF DeleteItem, Release, CopiesNotRaced, NoRace, Exists, TypeOK, JobsMatch, Item
<1>16. ASSUME NEW p \in Procs, EndProcess(p)
      PROVE  (CopiesNotRaced /\ NoRace)'
  BY <1>16, BlankPair DEF EndProcess, Release, Forget, CopiesNotRaced, NoRace, Exists, TypeOK, JobsMatch, Item
<1>17. ASSUME NEW p \in Procs, Crash(p)
      PROVE  (CopiesNotRaced /\ NoRace)'
  BY <1>17, BlankPair DEF Crash, Release, Forget, CopiesNotRaced, NoRace, Exists, TypeOK, JobsMatch, Item
<1>18. ASSUME NEW e \in Entities, DeleteEntity(e)
       PROVE  (CopiesNotRaced /\ NoRace)'
  BY <1>18 DEF DeleteEntity, procVars, CopiesNotRaced, NoRace, Exists, TypeOK, JobsMatch, Item
<1>19. ASSUME NEW i \in leased, LeaseExpires(i)
       PROVE  (CopiesNotRaced /\ NoRace)'
  BY <1>19 DEF LeaseExpires, procVars, CopiesNotRaced, NoRace, Exists, TypeOK, JobsMatch, Item
<1>20. CASE UNCHANGED vars
  BY <1>20 DEF vars, procVars, CopiesNotRaced, NoRace, Exists, TypeOK, JobsMatch, Item
<1>21. QED
  BY <1>1, <1>2, <1>3, <1>4, <1>5, <1>6, <1>7, <1>8, <1>9, <1>10, <1>11, <1>12,
     <1>13, <1>14, <1>15, <1>16, <1>17, <1>18, <1>19, <1>20
     DEF Next, Presave, ProcessItem

-----------------------------------------------------------------------------
(* Nothing is lost                                                         *)

LEMMA ExplainedStep == TypeOK /\ JobsMatch /\ IdsAreFresh /\ OwnRow /\ CopiesExplained /\ HasCause /\ [Next]_vars => HasCause'
<1> SUFFICES ASSUME TypeOK, JobsMatch, IdsAreFresh, OwnRow, CopiesExplained, HasCause, [Next]_vars
             PROVE  HasCause'
  OBVIOUS
<1> USE SentinelAssumption
<1>1. ASSUME NEW p \in Procs, NEW e \in Entities, BeginEdit(p, e)
      PROVE  HasCause'
  BY <1>1 DEF BeginEdit, Exists, HasCause, Outdated, Exists, Owed, Pending, Spent, Uncommitted, TypeOK, JobsMatch, Item
<1>2. ASSUME NEW p \in Procs, NEW s \in Value, PresaveSkipped(p, s)
      PROVE  HasCause'
  BY <1>2 DEF PresaveSkipped, Draft, HasCause, Outdated, Exists, Owed, Pending, Spent, Uncommitted, TypeOK, JobsMatch, Item
<1>3. ASSUME NEW p \in Procs, NEW s \in Value, PresaveQueued(p, s)
      PROVE  HasCause'
  <2>1. target[p] \in Entities /\ nextId \in Nat
    BY <1>3 DEF PresaveQueued, TypeOK, JobsMatch
  <2>2. \A i \in items : i # NewItem(target[p])
    BY <2>1, ItemFields DEF IdsAreFresh
  <2>3. \A i \in items : Pending(i) => i \in items' /\ Pending(i)'
    BY <1>3, <2>2 DEF PresaveQueued, Pending, Spent, Uncommitted, TypeOK
  <2>4. QED
    BY <1>3, <2>3 DEF PresaveQueued, HasCause, Outdated, Exists, Owed
<1>4. ASSUME NEW p \in Procs, NEW s \in Value, NEW found \in BOOLEAN, PresaveSync(p, s, found)
      PROVE  HasCause'
  BY <1>4 DEF PresaveSync, Draft, HasCause, Outdated, Exists, Owed, Pending, Spent, Uncommitted, TypeOK, JobsMatch, Item
<1>5. ASSUME NEW p \in Procs, Write(p)
      PROVE  HasCause'
  <2>1. PICK e0 \in Entities : e0 = target[p]
    BY <1>5 DEF Write, JobsMatch
  <2>2. \A i \in items : Pending(i) => i \in items' /\ Pending(i)'
    BY <1>5 DEF Write, Release, Pending, Spent, Uncommitted, TypeOK
  <2>3. \A e \in Entities : e # e0 => stored'[e] = stored[e]
    BY <1>5, <2>1 DEF Write, TypeOK
  <2>4. Outdated(e0)' => stored'[e0].why # {} \/ Owed(e0)'
    <3> DEFINE raced == job[p] # NoItem /\ (job[p] \notin items \/ Spent(job[p]))
    <3>1. CASE stored[e0] = Deleted
      BY <1>5, <2>1, <3>1 DEF Write, Outdated, Exists
    <3>2. CASE stored[e0] # Deleted /\ raced
      <4>1. stored'[e0] = Note(copy[p], "raced")
        BY <1>5, <2>1, <3>2 DEF Write, TypeOK
      <4>2. QED
        BY <4>1, NotedExplained, Cause DEF Outdated, Explained, TypeOK
    <3>3. CASE stored[e0] # Deleted /\ ~raced /\ job[p] = NoItem
      BY <1>5, <2>1, <3>3 DEF Write, CopiesExplained, Outdated, Explained, TypeOK
    <3>4. CASE stored[e0] # Deleted /\ ~raced /\ job[p] # NoItem
      <4>1. PICK i0 \in items : i0 = job[p] /\ ~Spent(i0) /\ i0.ent = e0
        BY <1>5, <2>1, <3>4 DEF Write, JobsMatch
      <4>2. ~Spent(i0)'
        BY <1>5, <4>1 DEF Write, Release, Spent, TypeOK
      <4>3. ~Uncommitted(i0)'
        BY <1>5, <4>1 DEF Write, Release, Uncommitted, OwnRow, TypeOK
      <4>4. QED
        BY <1>5, <4>1, <4>2, <4>3 DEF Write, Owed, Pending
    <3>5. QED
      BY <3>1, <3>2, <3>3, <3>4
  <2>5. QED
    BY <1>5, <2>1, <2>2, <2>3, <2>4 DEF HasCause, Outdated, Exists, Owed
<1>6. ASSUME NEW p \in Procs, OnPrePublish(p)
      PROVE  HasCause'
  BY <1>6 DEF OnPrePublish, HasCause, Outdated, Exists, Owed, Pending, Spent, Uncommitted, TypeOK, JobsMatch, Item
<1>7. ASSUME NEW p \in Procs, OnPostPublish(p)
      PROVE  HasCause'
  BY <1>7 DEF OnPostPublish, HasCause, Outdated, Exists, Owed, Pending, Spent, Uncommitted, TypeOK, JobsMatch, Item
<1>8. ASSUME NEW p \in Procs, NEW i \in items, ClaimItem(p, i)
      PROVE  HasCause'
  BY <1>8 DEF ClaimItem, HasCause, Outdated, Exists, Owed, Pending, Spent, Uncommitted, TypeOK, JobsMatch, Item
<1>9. ASSUME NEW p \in Procs, ProcessNothing(p)
      PROVE  HasCause'
  BY <1>9 DEF ProcessNothing, HasCause, Outdated, Exists, Owed, Pending, Spent, Uncommitted, TypeOK, JobsMatch, Item
<1>10. ASSUME NEW p \in Procs, NEW found \in BOOLEAN, ProcessUnchanged(p, found)
      PROVE  HasCause'
  <2>1. PICK e0 \in Entities : e0 = target[p] /\ e0 = job[p].ent
    BY <1>10 DEF ProcessUnchanged, TypeOK, JobsMatch, Item
  <2>2. \A i \in items : i.ent # e0 /\ Pending(i) => i \in items' /\ Pending(i)'
    BY <1>10, <2>1 DEF ProcessUnchanged, Pending, Spent, Uncommitted, TypeOK
  <2>3. \A e \in Entities : e # e0 => stored'[e] = stored[e]
    BY <1>10, <2>1 DEF ProcessUnchanged, TypeOK
  <2>4. Outdated(e0)' => stored'[e0].why # {}
    <3>1. Exists(e0) /\ stored[e0] \in Pair
      BY <1>10, <2>1 DEF ProcessUnchanged, Exists
    <3>2. /\ Result(p, found) \in Pair
          /\ Explained(Result(p, found))
          /\ Result(p, found).src = stored[e0].src
          /\ Result(p, found).geo = stored[e0].geo
      BY <1>10, <2>1, <3>1, ResultExplained DEF ProcessUnchanged, Changes
    <3>3. stored'[e0] = WithCauses(stored[e0], Result(p, found).why)
      BY <1>10, <2>1 DEF ProcessUnchanged, TypeOK
    <3>4. /\ stored'[e0].src = stored[e0].src
          /\ stored'[e0].geo = stored[e0].geo
          /\ stored'[e0].why = Result(p, found).why
      BY <3>1, <3>2, <3>3, PairFields
    <3>5. QED
      BY <3>2, <3>4 DEF Outdated, Explained, UpToDate
  <2>5. QED
    BY <2>1, <2>2, <2>3, <2>4 DEF HasCause, Outdated, Exists, Owed
<1>11. ASSUME NEW p \in Procs, NEW found \in BOOLEAN, ProcessDropped(p, found)
      PROVE  HasCause'
  <2>1. PICK e0 \in Entities : e0 = target[p] /\ e0 = job[p].ent
    BY <1>11 DEF ProcessDropped, TypeOK, JobsMatch, Item
  <2>2. \A i \in items : i.ent # e0 /\ Pending(i) => i \in items' /\ Pending(i)'
    BY <1>11, <2>1 DEF ProcessDropped, Pending, Spent, Uncommitted, TypeOK
  <2>3. \A e \in Entities : e # e0 => stored'[e] = stored[e]
    BY <1>11, <2>1 DEF ProcessDropped, TypeOK
  <2>4. Outdated(e0)' => stored'[e0].why # {}
    <3>1. stored[e0] \in Pair /\ stored'[e0] = Note(stored[e0], "flagged")
      BY <1>11, <2>1 DEF ProcessDropped, Exists, TypeOK
    <3>2. QED
      BY <3>1, NotedExplained, Cause DEF Outdated, Explained
  <2>5. QED
    BY <2>1, <2>2, <2>3, <2>4 DEF HasCause, Outdated, Exists, Owed
<1>12. ASSUME NEW p \in Procs, NEW found \in BOOLEAN, ProcessChanged(p, found)
      PROVE  HasCause'
  BY <1>12 DEF ProcessChanged, Result, Exists, HasCause, Outdated, Exists, Owed, Pending, Spent, Uncommitted, TypeOK, JobsMatch, Item
<1>13. ASSUME NEW p \in Procs, WorkerSave(p)
      PROVE  HasCause'
  <2>1. PICK e0 \in Entities : e0 = target[p] /\ e0 = job[p].ent
    BY <1>13 DEF WorkerSave, TypeOK, JobsMatch, Item
  <2>2. \A i \in items : i.ent # e0 /\ Pending(i) => i \in items' /\ Pending(i)'
    BY <1>13, <2>1 DEF WorkerSave, Pending, Spent, Uncommitted, TypeOK
  <2>3. \A e \in Entities : e # e0 => stored'[e] = stored[e]
    BY <1>13, <2>1 DEF WorkerSave, TypeOK
  <2>4. Outdated(e0)' => stored'[e0].why # {}
    BY <1>13, <2>1
       DEF WorkerSave, CopiesExplained, Outdated, Exists, Explained, TypeOK
  <2>5. QED
    BY <2>1, <2>2, <2>3, <2>4 DEF HasCause, Outdated, Exists, Owed
<1>14. ASSUME NEW p \in Procs, WorkerSaveFails(p)
      PROVE  HasCause'
  BY <1>14 DEF WorkerSaveFails, Release, HasCause, Outdated, Exists, Owed, Pending, Spent, Uncommitted, TypeOK, JobsMatch, Item
<1>15. ASSUME NEW p \in Procs, DeleteItem(p)
      PROVE  HasCause'
  BY <1>15 DEF DeleteItem, Release, HasCause, Outdated, Exists, Owed, Pending, Spent, Uncommitted, TypeOK, JobsMatch, Item
<1>16. ASSUME NEW p \in Procs, EndProcess(p)
      PROVE  HasCause'
  BY <1>16 DEF EndProcess, Release, Forget, HasCause, Outdated, Exists, Owed, Pending, Spent, Uncommitted, TypeOK, JobsMatch, Item
<1>17. ASSUME NEW p \in Procs, Crash(p)
      PROVE  HasCause'
  BY <1>17 DEF Crash, Release, Forget, HasCause, Outdated, Exists, Owed, Pending, Spent, Uncommitted, TypeOK, JobsMatch, Item
<1>18. ASSUME NEW e \in Entities, DeleteEntity(e)
       PROVE  HasCause'
  BY <1>18 DEF DeleteEntity, procVars, HasCause, Outdated, Exists, Owed, Pending, Spent, Uncommitted, TypeOK, JobsMatch, Item
<1>19. ASSUME NEW i \in leased, LeaseExpires(i)
       PROVE  HasCause'
  BY <1>19 DEF LeaseExpires, procVars, HasCause, Outdated, Exists, Owed, Pending, Spent, Uncommitted, TypeOK, JobsMatch, Item
<1>20. CASE UNCHANGED vars
  BY <1>20 DEF vars, procVars, HasCause, Outdated, Exists, Owed, Pending, Spent, Uncommitted, TypeOK, JobsMatch, Item
<1>21. QED
  BY <1>1, <1>2, <1>3, <1>4, <1>5, <1>6, <1>7, <1>8, <1>9, <1>10, <1>11, <1>12,
     <1>13, <1>14, <1>15, <1>16, <1>17, <1>18, <1>19, <1>20
     DEF Next, Presave, ProcessItem

-----------------------------------------------------------------------------
(* Theorems                                                                *)

LEMMA InvInit == Init => IInv
<1> SUFFICES ASSUME Init PROVE IInv
  OBVIOUS
<1>1. TypeOK /\ JobsMatch
  BY TypeInit
<1>2. IdsAreFresh /\ OwnRow /\ CopiesExplained /\ NoQueueNoItems /\ CopiesNotRaced
  BY BlankPair
     DEF Init, IdsAreFresh, OwnRow, CopiesExplained, NoQueueNoItems, CopiesNotRaced
<1>3. HasCause /\ NoRace
  BY SentinelAssumption DEF Init, HasCause, NoRace, Outdated, Exists
<1>4. QED
  BY <1>1, <1>2, <1>3 DEF IInv

LEMMA InvStep == IInv /\ [Next]_vars => IInv'
  BY TypeStep, IdsStep, OwnRowStep, NoQueueStep, CopiesStep, NotRacedStep, ExplainedStep
     DEF IInv

(* The inductive invariant holds in every reachable state.                 *)
THEOREM Invariance == Spec => []IInv
  BY InvInit, InvStep, PTL DEF Spec

(* Every variable keeps its type, whatever the processes do.               *)
THEOREM TypeCorrect == Spec => []TypeOK
<1>1. IInv => TypeOK
  BY DEF IInv
<1>2. QED
  BY <1>1, Invariance, PTL

(* A cause that can occur is an excuse: the others are those that the       *)
(* transaction rules out.                                                  *)
LEMMA CausesExcuse == IInv => StaleIsExplained
<1> SUFFICES ASSUME IInv, NEW e \in Entities, Outdated(e), ~Owed(e)
             PROVE  Excused(stored[e])
  BY DEF StaleIsExplained
<1>1. stored[e] \in Pair /\ stored[e].why # {} /\ stored[e].why \subseteq Causes
  BY PairFields DEF IInv, HasCause, Outdated, Exists
<1>2. QueueInTransaction => "raced" \notin stored[e].why
  BY <1>1 DEF IInv, NoRace, Exists
<1>3. QED
  BY <1>1, <1>2 DEF Excused, Excuses

LEMMA CausesExcuseNext == IInv' => StaleIsExplained'
<1> SUFFICES ASSUME IInv', NEW e \in Entities, Outdated(e)', ~Owed(e)'
             PROVE  Excused(stored[e])'
  BY DEF StaleIsExplained
<1>1. stored'[e] \in Pair /\ stored'[e].why # {} /\ stored'[e].why \subseteq Causes
  BY PairFields DEF IInv, HasCause, Outdated, Exists
<1>2. QueueInTransaction => "raced" \notin stored'[e].why
  BY <1>1 DEF IInv, NoRace, Exists
<1>3. QED
  BY <1>1, <1>2 DEF Excused, Excuses

(* An entity with stale coordinates is in the queue or has a cause on      *)
(* record: presave hook and worker lose no entity silently.                *)
THEOREM NothingIsLost == Spec => []StaleIsExplained
<1>1. IInv => StaleIsExplained
  BY CausesExcuse
<1>2. QED
  BY <1>1, Invariance, PTL

(* The static flag keeps the save of the worker from queueing the entity   *)
(* again, in every process and whatever happened to it before.             *)
THEOREM WorkerDoesNotFeedQueue == Spec => WorkerNeverRequeues
<1>1. IInv /\ [Next]_vars => [\A p \in Procs : WorkerSave(p) => UNCHANGED items]_vars
  BY DEF IInv, CopiesExplained, WorkerSave, PresaveSkips
<1>2. QED
  BY <1>1, Invariance, PTL DEF Spec, WorkerNeverRequeues

-----------------------------------------------------------------------------
(* The contract of geocoder_field                                          *)

(* What the contract sees of an entity: nothing but its status.            *)
LEMMA StatusFacts ==
    TypeOK /\ StaleIsExplained =>
        \A e \in Entities :
            /\ stored[e] \in Pair \union {Absent, Deleted}
            /\ stored[e] = Absent => StatusOf(e) = "absent"
            /\ stored[e] = Deleted => StatusOf(e) = "deleted"
            /\ stored[e] \in Pair => StatusOf(e) \in Contract!Accounted
  BY SentinelAssumption
     DEF StatusOf, Contract!Accounted, TypeOK, StaleIsExplained, Outdated, Exists, Excused

LEMMA StatusFactsNext ==
    TypeOK' /\ StaleIsExplained' =>
        \A e \in Entities :
            /\ stored'[e] \in Pair \union {Absent, Deleted}
            /\ stored'[e] = Absent => StatusOf(e)' = "absent"
            /\ stored'[e] = Deleted => StatusOf(e)' = "deleted"
            /\ stored'[e] \in Pair => StatusOf(e)' \in Contract!Accounted
  BY SentinelAssumption
     DEF StatusOf, Contract!Accounted, TypeOK, StaleIsExplained, Outdated, Exists, Excused

(* The rows of all other entities stay as they are, and so do the other    *)
(* entities.                                                               *)
OthersKeep(e0) ==
    /\ \A e \in Entities : e # e0 => stored'[e] = stored[e]
    /\ \A i \in Item : i.ent # e0 => (Pending(i)' <=> Pending(i))

(* An entity is created, changed or deleted; deletion is final.            *)
Lives(e0) ==
    /\ stored[e0] = Deleted => stored'[e0] = Deleted
    /\ stored[e0] = Absent => stored'[e0] # Deleted
    /\ stored[e0] \in Pair => stored'[e0] # Absent

(* A step that writes neither entities nor rows, nor begins or ends to own *)
(* a row, is invisible.                                                    *)
NothingSeen ==
    /\ stored' = stored
    /\ \A i \in Item : Pending(i)' <=> Pending(i)

(* Every step concerns one entity at most.                                 *)
LEMMA OneEntity ==
    ASSUME IInv, [Next]_vars
    PROVE  NothingSeen \/ \E e0 \in Entities : OthersKeep(e0) /\ Lives(e0)
<1> USE SentinelAssumption
<1>0. TypeOK /\ JobsMatch /\ IdsAreFresh /\ OwnRow
  BY DEF IInv
<1>1. ASSUME NEW p \in Procs, NEW e \in Entities, BeginEdit(p, e)
      PROVE  NothingSeen
  BY <1>0, <1>1 DEF BeginEdit, NothingSeen, Pending, Spent, Uncommitted, TypeOK, JobsMatch
<1>2. ASSUME NEW p \in Procs, NEW s \in Value, PresaveSkipped(p, s)
      PROVE  NothingSeen
  BY <1>0, <1>2 DEF PresaveSkipped, NothingSeen, Pending, Spent, Uncommitted, TypeOK, JobsMatch
<1>3. ASSUME NEW p \in Procs, NEW s \in Value, PresaveQueued(p, s)
      PROVE  \E e0 \in Entities : OthersKeep(e0) /\ Lives(e0)
  <2>1. target[p] \in Entities /\ nextId \in Nat
    BY <1>0, <1>3 DEF PresaveQueued, TypeOK, JobsMatch
  <2>2. \A i \in Item : i.ent # target[p] => i # NewItem(target[p])
    BY <2>1, ItemFields
  <2>3. OthersKeep(target[p]) /\ Lives(target[p])
    BY <1>0, <1>3, <2>1, <2>2
       DEF PresaveQueued, OthersKeep, Lives, Pending, Spent, Uncommitted, TypeOK, JobsMatch
  <2>4. QED
    BY <2>1, <2>3
<1>4. ASSUME NEW p \in Procs, NEW s \in Value, NEW found \in BOOLEAN, PresaveSync(p, s, found)
      PROVE  NothingSeen
  BY <1>0, <1>4 DEF PresaveSync, NothingSeen, Pending, Spent, Uncommitted, TypeOK, JobsMatch
<1>5. ASSUME NEW p \in Procs, Write(p)
      PROVE  \E e0 \in Entities : OthersKeep(e0) /\ Lives(e0)
  <2>1. target[p] \in Entities /\ copy[p] \in Pair /\ pc[p] = "saving"
    BY <1>0, <1>5 DEF Write, TypeOK, JobsMatch
  <2>2. Note(copy[p], "raced") \in Pair
    BY <2>1, PairFields, Cause
  <2>3. Lives(target[p])
    BY <1>0, <1>5, <2>1, <2>2 DEF Write, Lives, TypeOK
  <2>4. OthersKeep(target[p])
    BY <1>0, <1>5, <2>1
       DEF Write, Release, OthersKeep, Pending, Spent, Uncommitted, TypeOK, JobsMatch
  <2>5. QED
    BY <2>1, <2>3, <2>4
<1>6. ASSUME NEW p \in Procs, OnPrePublish(p)
      PROVE  NothingSeen
  BY <1>6 DEF OnPrePublish, NothingSeen, Pending, Spent, Uncommitted
<1>7. ASSUME NEW p \in Procs, OnPostPublish(p)
      PROVE  NothingSeen
  BY <1>7 DEF OnPostPublish, NothingSeen, Pending, Spent, Uncommitted
<1>8. ASSUME NEW p \in Procs, NEW i \in items, ClaimItem(p, i)
      PROVE  NothingSeen
  BY <1>0, <1>8 DEF ClaimItem, NothingSeen, Pending, Spent, Uncommitted, TypeOK, JobsMatch
<1>9. ASSUME NEW p \in Procs, pc[p] = "claimed", pc' = [pc EXCEPT ![p] = "saved"],
             \A e \in Entities : e # target[p] => stored'[e] = stored[e],
             stored' # stored => stored[target[p]] \in Pair /\ stored'[target[p]] \in Pair,
             UNCHANGED <<items, job>>
      PROVE  \E e0 \in Entities : OthersKeep(e0) /\ Lives(e0)
  <2>1. target[p] \in Entities /\ job[p].ent = target[p]
    BY <1>0, <1>9 DEF TypeOK, JobsMatch, Item
  <2>2. OthersKeep(target[p])
    BY <1>0, <1>9, <2>1 DEF OthersKeep, Pending, Spent, Uncommitted, TypeOK
  <2>3. Lives(target[p])
    BY <1>0, <1>9, <2>1 DEF Lives
  <2>4. QED
    BY <2>1, <2>2, <2>3
<1>10. ASSUME NEW p \in Procs, ProcessItem(p)
       PROVE  NothingSeen \/ \E e0 \in Entities : OthersKeep(e0) /\ Lives(e0)
  <2>1. target[p] \in Entities
    BY <1>0, <1>10
       DEF ProcessItem, ProcessNothing, ProcessUnchanged, ProcessDropped, ProcessChanged,
           TypeOK, JobsMatch, Item
  <2>2. CASE ProcessNothing(p)
    BY <2>2, <1>9 DEF ProcessNothing
  <2>3. ASSUME NEW found \in BOOLEAN, ProcessUnchanged(p, found)
        PROVE  \E e0 \in Entities : OthersKeep(e0) /\ Lives(e0)
    <3>1. stored[target[p]] \in Pair /\ Result(p, found) \in Pair
      BY <2>3, ProcessedType DEF ProcessUnchanged, Exists, Result
    <3>2. WithCauses(stored[target[p]], Result(p, found).why) \in Pair
      BY <3>1, PairFields
    <3>3. /\ stored'[target[p]] = WithCauses(stored[target[p]], Result(p, found).why)
          /\ \A e \in Entities : e # target[p] => stored'[e] = stored[e]
      BY <1>0, <2>1, <2>3 DEF ProcessUnchanged, TypeOK
    <3>4. QED
      BY <2>3, <3>1, <3>2, <3>3, <1>9 DEF ProcessUnchanged
  <2>4. ASSUME NEW found \in BOOLEAN, ProcessDropped(p, found)
        PROVE  \E e0 \in Entities : OthersKeep(e0) /\ Lives(e0)
    <3>1. stored[target[p]] \in Pair /\ Note(stored[target[p]], "flagged") \in Pair
      BY <2>4, PairFields, Cause DEF ProcessDropped, Exists
    <3>2. /\ stored'[target[p]] = Note(stored[target[p]], "flagged")
          /\ \A e \in Entities : e # target[p] => stored'[e] = stored[e]
      BY <1>0, <2>1, <2>4 DEF ProcessDropped, TypeOK
    <3>3. QED
      BY <2>4, <3>1, <3>2, <1>9 DEF ProcessDropped
  <2>5. ASSUME NEW found \in BOOLEAN, ProcessChanged(p, found)
        PROVE  NothingSeen
    BY <1>0, <2>5 DEF ProcessChanged, NothingSeen, Pending, Spent, Uncommitted, TypeOK
  <2>6. QED
    BY <1>10, <2>2, <2>3, <2>4, <2>5 DEF ProcessItem
<1>11. ASSUME NEW p \in Procs, WorkerSave(p)
       PROVE  \E e0 \in Entities : OthersKeep(e0) /\ Lives(e0)
  <2>1. /\ target[p] \in Entities /\ target[p] = job[p].ent
        /\ copy[p] \in Pair /\ nextId \in Nat
    BY <1>0, <1>11 DEF WorkerSave, TypeOK, JobsMatch, Item
  <2>2. \A i \in Item : i.ent # target[p] => i # NewItem(target[p])
    BY <2>1, ItemFields
  <2>3. Lives(target[p])
    BY <1>0, <1>11, <2>1 DEF WorkerSave, Lives, TypeOK
  <2>4. OthersKeep(target[p])
    BY <1>0, <1>11, <2>1, <2>2 DEF WorkerSave, OthersKeep, Pending, Spent, Uncommitted, TypeOK
  <2>5. QED
    BY <2>1, <2>3, <2>4
<1>12. ASSUME NEW p \in Procs, WorkerSaveFails(p)
       PROVE  NothingSeen
  BY <1>0, <1>12
     DEF WorkerSaveFails, Release, NothingSeen, Pending, Spent, Uncommitted, TypeOK
<1>13. ASSUME NEW p \in Procs, DeleteItem(p)
       PROVE  \E e0 \in Entities : OthersKeep(e0) /\ Lives(e0)
  <2>1. target[p] \in Entities /\ target[p] = job[p].ent
    BY <1>0, <1>13 DEF DeleteItem, TypeOK, JobsMatch, Item
  <2>2. OthersKeep(target[p])
    BY <1>0, <1>13, <2>1
       DEF DeleteItem, Release, OthersKeep, Pending, Spent, Uncommitted, TypeOK
  <2>3. Lives(target[p])
    BY <1>13 DEF DeleteItem, Lives
  <2>4. QED
    BY <2>1, <2>2, <2>3
<1>14. ASSUME NEW p \in Procs, EndProcess(p)
       PROVE  NothingSeen
  BY <1>0, <1>14
     DEF EndProcess, Release, Forget, NothingSeen, Pending, Spent, Uncommitted, TypeOK
<1>15. ASSUME NEW p \in Procs, Crash(p)
       PROVE  \E e0 \in Entities : OthersKeep(e0) /\ Lives(e0)
  <2>1. target[p] \in Entities /\ (job[p] # NoItem => target[p] = job[p].ent)
    BY <1>0, <1>15 DEF Crash, TypeOK, JobsMatch, Item, Location
  <2>2. OthersKeep(target[p])
    BY <1>0, <1>15, <2>1
       DEF Crash, Release, Forget, OthersKeep, Pending, Spent, Uncommitted, TypeOK
  <2>3. Lives(target[p])
    BY <1>15 DEF Crash, Lives
  <2>4. QED
    BY <2>1, <2>2, <2>3
<1>16. ASSUME NEW e \in Entities, DeleteEntity(e)
       PROVE  \E e0 \in Entities : OthersKeep(e0) /\ Lives(e0)
  <2>1. OthersKeep(e)
    BY <1>0, <1>16
       DEF DeleteEntity, procVars, OthersKeep, Pending, Spent, Uncommitted, TypeOK
  <2>2. Lives(e)
    BY <1>0, <1>16 DEF DeleteEntity, Exists, Lives, TypeOK
  <2>3. QED
    BY <2>1, <2>2
<1>17. ASSUME NEW i \in leased, LeaseExpires(i)
       PROVE  NothingSeen
  BY <1>17 DEF LeaseExpires, procVars, NothingSeen, Pending, Spent, Uncommitted
<1>18. CASE UNCHANGED vars
  BY <1>18 DEF vars, procVars, NothingSeen, Pending, Spent, Uncommitted
<1>19. QED
  BY <1>1, <1>2, <1>3, <1>4, <1>5, <1>6, <1>7, <1>8, <1>10, <1>11, <1>12, <1>13, <1>14,
     <1>15, <1>16, <1>17, <1>18 DEF Next, Presave

(* Whether an entity is owed depends on its own rows only.                 *)
LEMMA StatusKept ==
    ASSUME TypeOK, TypeOK', NEW e \in Entities, stored'[e] = stored[e],
           \A i \in Item : i.ent = e => (Pending(i)' <=> Pending(i))
    PROVE  StatusOf(e)' = StatusOf(e)
<1>1. Owed(e)' <=> Owed(e)
  BY DEF Owed, Pending, TypeOK
<1>2. QED
  BY <1>1 DEF StatusOf, UpToDate

(* A step of presave, queue or worker is a step of the contract, or one    *)
(* that the contract does not see.                                         *)
LEMMA ContractStep ==
    ASSUME IInv, IInv', [Next]_vars
    PROVE  [Contract!Next]_([e \in Entities |-> StatusOf(e)])
<1> DEFINE status == [e \in Entities |-> StatusOf(e)]
<1>1. TypeOK /\ StaleIsExplained /\ TypeOK' /\ StaleIsExplained'
  <2>1. IInv /\ IInv'
    OBVIOUS
  <2>2. QED
    BY <2>1, CausesExcuse, CausesExcuseNext DEF IInv
<1>2. CASE NothingSeen
  <2>1. \A e \in Entities : StatusOf(e)' = StatusOf(e)
    BY <1>1, <1>2, StatusKept DEF NothingSeen
  <2>2. QED
    BY <2>1
<1>3. ASSUME NEW e0 \in Entities, OthersKeep(e0), Lives(e0)
      PROVE  [Contract!Next]_status
  <2>1. \A e \in Entities : e # e0 => StatusOf(e)' = StatusOf(e)
    BY <1>1, <1>3, StatusKept DEF OthersKeep
  <2>2. status' = [status EXCEPT ![e0] = StatusOf(e0)']
    BY <2>1
  <2>3. CASE StatusOf(e0)' = StatusOf(e0)
    BY <2>1, <2>3
  <2>4. CASE StatusOf(e0)' \in Contract!Accounted /\ StatusOf(e0) # "deleted"
    BY <2>2, <2>4 DEF Contract!Next, Contract!Save
  <2>5. CASE StatusOf(e0)' = "deleted" /\ StatusOf(e0) \in Contract!Accounted
    BY <2>2, <2>5 DEF Contract!Next, Contract!Delete
  <2>6. QED
    BY <1>1, <1>3, <2>3, <2>4, <2>5, StatusFacts, StatusFactsNext, SentinelAssumption
       DEF Lives, Contract!Accounted
<1>4. QED
  BY <1>2, <1>3, OneEntity

(* Presave hook, queue and worker implement the contract: after every step *)
(* of any number of processes every entity is settled, owed by the queue   *)
(* or excused, and a deleted entity is never written again.                *)
THEOREM QueueImplementsContract == Spec => ImplementsContract
<1>1. Init => Contract!Init
  BY DEF Init, Contract!Init, StatusOf
<1>2. IInv /\ IInv' /\ [Next]_vars => [Contract!Next]_([e \in Entities |-> StatusOf(e)])
  BY ContractStep
<1>3. QED
  BY <1>1, <1>2, Invariance, PTL DEF Spec, ImplementsContract, Contract!Spec

-----------------------------------------------------------------------------
(* Values and answers of a pass                                            *)

(* What an output format makes of a value says which value that was.       *)
LEMMA DumpedFacts ==
    ASSUME NEW v \in FieldValue, NEW part \in Nat, NEW d \in Dumpers
    PROVE  Dumped(v, part, d) \in FieldValue /\ Origin(Dumped(v, part, d)) = v
<1> DEFINE w == Dumped(v, part, d)
           longer == Append(v.path, <<part, d>>)
<1>1. v.path \in Seq(Nat \X Dumpers) /\ <<part, d>> \in Nat \X Dumpers
  BY DEF FieldValue
<1>2. longer \in Seq(Nat \X Dumpers) /\ Front(longer) = v.path
  <2>1. Len(longer) = Len(v.path) + 1 /\ \A i \in 1 .. Len(v.path) : longer[i] = v.path[i]
    BY <1>1
  <2>2. longer \in Seq(Nat \X Dumpers)
    BY <1>1
  <2> HIDE DEF longer
  <2>3. SubSeq(longer, 1, Len(longer) - 1) = v.path
    BY <1>1, <2>1, <2>2
  <2>4. QED
    BY <2>2, <2>3 DEF Front
<1> HIDE DEF longer
<1>3. w = [v EXCEPT !.path = longer]
  BY DEF Dumped, longer
<1>4. w \in FieldValue /\ w.path = longer /\ w.text = v.text
  BY <1>2, <1>3 DEF FieldValue
<1> HIDE DEF w
<1>5. Origin(w) = [w EXCEPT !.path = v.path]
  BY <1>2, <1>4 DEF Origin
<1>6. [w EXCEPT !.path = v.path] = v
  BY <1>4 DEF FieldValue
<1>7. QED
  BY <1>4, <1>5, <1>6 DEF w

(* An answer gives parts of the value it is for.                           *)
LEMMA PartsFacts ==
    ASSUME NEW a \in Answer \union {Null}, dumper \in Dumpers \union {Null}
    PROVE  /\ Parts(a) \in Seq(FieldValue)
           /\ Parts(a) # << >> => a # Null
           /\ \A i \in 1 .. Len(Parts(a)) : \E part \in Nat :
                 Parts(a)[i] = Dumped(a.for, part, dumper) /\ Origin(Parts(a)[i]) = a.for
           /\ Delta[Field] # "s_to_m" /\ Parts(a) # << >> =>
                 \E part \in {0, 1} : Parts(a) = <<Dumped(a.for, part, dumper)>>
<1> DEFINE all == [i \in 1 .. a.size |-> Dumped(a.for, i, dumper)]
           first == <<Dumped(a.for, 1, dumper)>>
           whole == <<Dumped(a.for, 0, dumper)>>
<1>1. CASE a = Null \/ dumper = Null
  BY <1>1 DEF Parts
<1>2. CASE a # Null /\ dumper # Null
  <2>1. a \in Answer /\ dumper \in Dumpers /\ a.for \in FieldValue /\ a.size \in Nat \ {0}
    BY <1>2, PassBoundAssumption DEF Answer
  <2>2. \A part \in Nat :
            /\ Dumped(a.for, part, dumper) \in FieldValue
            /\ Origin(Dumped(a.for, part, dumper)) = a.for
    BY <2>1, DumpedFacts
  <2>3. \/ Parts(a) = << >>
        \/ Parts(a) = all /\ Delta[Field] = "s_to_m"
        \/ Parts(a) = first
        \/ Parts(a) = whole
    BY <1>2 DEF Parts
  <2>4. CASE Parts(a) = << >>
    BY <2>4
  <2>5. CASE Parts(a) = all /\ Delta[Field] = "s_to_m"
    <3>1. all \in Seq(FieldValue) /\ Len(all) = a.size
      BY <2>1, <2>2
    <3>2. \A i \in 1 .. Len(all) : i \in Nat /\ all[i] = Dumped(a.for, i, dumper)
      BY <2>1, <3>1
    <3> HIDE DEF all
    <3>3. QED
      BY <1>2, <2>2, <2>5, <3>1, <3>2
  <2>6. CASE Parts(a) = first
    BY <1>2, <2>2, <2>6
  <2>7. CASE Parts(a) = whole
    BY <1>2, <2>2, <2>7
  <2>8. QED
    BY <2>3, <2>4, <2>5, <2>6, <2>7
<1>3. QED
  BY <1>1, <1>2

(* filterEmptyItems() leaves values of the list, and no empty ones.        *)
FilterOp(e, kept, v) == Filtered(kept, v)
OnlyFilled(s, n, kept) ==
    /\ kept \in Seq(FieldValue)
    /\ \A i \in 1 .. Len(kept) : \E j \in 1 .. Len(s) : kept[i] = s[j]
Filter == INSTANCE FoldTheorems WITH Op <- FilterOp, Inv <- OnlyFilled

LEMMA NotEmptyFacts ==
    ASSUME NEW s \in Seq(FieldValue \union {Null})
    PROVE  /\ NotEmpty(s) \in Seq(FieldValue)
           /\ \A i \in 1 .. Len(NotEmpty(s)) : \E j \in 1 .. Len(s) : NotEmpty(s)[i] = s[j]
<1>1. OnlyFilled(s, 0, << >>)
  BY DEF OnlyFilled
<1>2. ASSUME NEW i \in 1 .. Len(s), NEW kept, OnlyFilled(s, i - 1, kept)
      PROVE  OnlyFilled(s, i, FilterOp(s, kept, s[i]))
  <2>1. CASE s[i] = Null
    BY <1>2, <2>1 DEF OnlyFilled, FilterOp, Filtered
  <2>2. CASE s[i] # Null
    <3> DEFINE more == Append(kept, s[i])
    <3>1. kept \in Seq(FieldValue) /\ s[i] \in FieldValue
      BY <1>2, <2>2 DEF OnlyFilled
    <3>2. more \in Seq(FieldValue) /\ Len(more) = Len(kept) + 1
          /\ more[Len(more)] = s[i] /\ \A j \in 1 .. Len(kept) : more[j] = kept[j]
      BY <3>1
    <3> HIDE DEF more
    <3>3. ASSUME NEW j \in 1 .. Len(more)
          PROVE  \E k \in 1 .. Len(s) : more[j] = s[k]
      <4>1. j = Len(more) \/ j \in 1 .. Len(kept)
        BY <3>1, <3>2
      <4>2. QED
        BY <1>2, <3>2, <4>1 DEF OnlyFilled
    <3>4. FilterOp(s, kept, s[i]) = more
      BY <2>2 DEF FilterOp, Filtered, more
    <3>5. QED
      BY <3>2, <3>3, <3>4 DEF OnlyFilled
  <2>3. QED
    BY <2>1, <2>2
<1>3. OnlyFilled(s, Len(s), Filter!Fold(s, << >>, s))
  BY <1>1, <1>2, Filter!FoldInvariant
<1>4. Filter!Fold(s, << >>, s) = NotEmpty(s)
  BY DEF Filter!Fold, Filter!FoldLeft, Filter!MapThenFoldSet, Filter!Max,
         NotEmpty, FoldLeft, MapThenFoldSet, Max, FilterOp
<1>5. QED
  BY <1>3, <1>4 DEF OnlyFilled


-----------------------------------------------------------------------------
(* Types of a pass                                                         *)

LEMMA FieldFacts ==
    ASSUME PassTypeOK, todo # << >>
    PROVE  /\ Field \in GeocodedFields /\ Field \in Fields /\ Source[Field] \in Fields
           /\ Dumper[Field] \in Dumpers /\ Tail(todo) \in Seq(GeocodedFields)
           /\ entity[Field] \in Seq(FieldValue) /\ Values \in Seq(FieldValue)
<1>1. todo \in Seq(GeocodedFields)
  BY DEF PassTypeOK
<1>2. Head(todo) \in GeocodedFields /\ Tail(todo) \in Seq(GeocodedFields)
  BY <1>1
<1>3. Field \in GeocodedFields /\ Field \in Fields /\ Source[Field] \in Fields
  BY <1>2, FieldAssumption DEF Field
<1>4. entity[Field] \in Seq(FieldValue) /\ Values \in Seq(FieldValue)
  BY <1>3 DEF PassTypeOK, Values
<1>5. QED
  BY <1>2, <1>3, <1>4 DEF Dumpers

LEMMA ConsultFacts ==
    ASSUME PassTypeOK, AtValue, Consult
    PROVE  /\ geo' \in Answer \union {Null} /\ Values[delta] \in FieldValue
           /\ todo # << >> /\ delta \in Nat \ {0} /\ delta \in 1 .. Len(Values)
           /\ asked' \in Seq(BOOLEAN) /\ Len(asked') = delta
           /\ \E b \in BOOLEAN :
                 /\ asked' = Append(asked, b)
                 /\ b /\ geo' # Null => geo'.for = Values[delta]
                 /\ ~b => geo' = geo
<1>1. delta \in Nat \ {0} /\ todo # << >> /\ delta <= Len(Values)
  BY DEF PassTypeOK, AtValue
<1>2. Values \in Seq(FieldValue)
  BY <1>1, FieldFacts
<1>3. Values[delta] \in FieldValue /\ delta \in 1 .. Len(Values)
  BY <1>1, <1>2
<1>4. \A b \in Answers(Values[delta]) :
          /\ b \in Answer \union {Null}
          /\ b # Null => b.for = Values[delta]
  BY <1>3 DEF Answers, Answer
<1>5. geo \in Answer \union {Null} /\ asked \in Seq(BOOLEAN) /\ Len(asked) = delta - 1
  BY <1>1 DEF PassTypeOK
<1>6. \E b \in BOOLEAN :
          /\ asked' = Append(asked, b)
          /\ b => geo' \in Answers(Values[delta])
          /\ ~b => geo' = geo
  BY DEF Consult
<1>7. PICK b \in BOOLEAN : /\ asked' = Append(asked, b)
                           /\ b => geo' \in Answers(Values[delta])
                           /\ ~b => geo' = geo
  BY <1>6
<1>8. asked' \in Seq(BOOLEAN) /\ Len(asked') = delta
  BY <1>1, <1>5, <1>7
<1>9. QED
  BY <1>1, <1>3, <1>4, <1>5, <1>7, <1>8

(* What may stand in the result of a field.                                *)
Slots == FieldValue \union {Null}

LEMMA PutAtFacts ==
    ASSUME NEW s \in Seq(Slots), NEW i \in Nat \ {0}, NEW v \in Slots, Len(s) >= i - 1
    PROVE  /\ PutAt(s, i, v) \in Seq(Slots) /\ Len(PutAt(s, i, v)) >= i
           /\ \A j \in 1 .. Len(PutAt(s, i, v)) :
                 PutAt(s, i, v)[j] = v \/ (j \in 1 .. Len(s) /\ PutAt(s, i, v)[j] = s[j])
           /\ Len(s) = i - 1 => PutAt(s, i, v) = Append(s, v)
<1>1. CASE i <= Len(s)
  <2>1. PutAt(s, i, v) = [s EXCEPT ![i] = v]
    BY <1>1 DEF PutAt
  <2>2. QED
    BY <1>1, <2>1
<1>2. CASE ~(i <= Len(s))
  <2>1. PutAt(s, i, v) = Append(s, v) /\ Len(s) = i - 1
    BY <1>2 DEF PutAt
  <2>2. QED
    BY <2>1
<1>3. QED
  BY <1>1, <1>2

LEMMA FallbackFacts ==
    ASSUME PassTypeOK, NEW i \in Nat \ {0}
    PROVE  /\ Fallback(i) \in FieldValue \union {Null}
           /\ FailureHandling[Field] = "empty" => Fallback(i) = Null
<1>1. defaults \in Seq(FieldValue)
  BY DEF PassTypeOK
<1>2. i <= Len(defaults) => defaults[i] \in FieldValue
  BY <1>1
<1>3. QED
  BY <1>2 DEF Fallback

(* PassTypeOK alone is not inductive: between two passes no field is under *)
(* way.                                                                    *)
PassTypes ==
    PassTypeOK /\ (origin = "none" => todo = << >> /\ delta = 0)

LEMMA PassTypesInitial == PassInit => PassTypes
<1> SUFFICES ASSUME PassInit
             PROVE  PassTypes
  OBVIOUS
<1>1. /\ << >> \in Seq(FieldValue) /\ << >> \in Seq(Slots) /\ << >> \in Seq(GeocodedFields)
      /\ << >> \in Seq(BOOLEAN) /\ Len(<< >>) = 0
  OBVIOUS
<1>2. entity \in [Fields -> Seq(FieldValue)] /\ original \in [Fields -> Seq(FieldValue)]
  BY <1>1 DEF PassInit
<1>3. /\ origin = "none" /\ todo = << >> /\ delta = 0 /\ defaults = << >> /\ result = << >>
      /\ geo = Null /\ dumper = Null /\ changed = FALSE /\ asked = << >> /\ loose = {}
  BY DEF PassInit
<1>4. /\ origin \in {"none", "insert", "update", "queue"} /\ delta \in Nat
      /\ todo \in Seq(GeocodedFields) /\ changed \in BOOLEAN
      /\ loose \in SUBSET GeocodedFields
      /\ geo \in Answer \union {Null} /\ dumper \in Dumpers \union {Null}
  BY <1>1, <1>3
<1>5. /\ defaults \in Seq(FieldValue) /\ result \in Seq(FieldValue \union {Null})
      /\ asked \in Seq(BOOLEAN) /\ Len(asked) = 0
  BY <1>1, <1>3 DEF Slots
<1>6. PassTypeOK
  BY <1>2, <1>3, <1>4, <1>5 DEF PassTypeOK
<1>7. QED
  BY <1>3, <1>6 DEF PassTypes

(* What a turn of the inner loop makes of the result.                      *)
LEMMA StoreFacts ==
    ASSUME PassTypeOK, Store
    PROVE  /\ geo' \in Answer \union {Null} /\ geo' # Null
           /\ result' \in Seq(Slots) /\ Len(result') >= delta
           /\ \A j \in 1 .. Len(result') :
                 \/ j \in 1 .. Len(result) /\ result'[j] = result[j]
                 \/ Origin(result'[j]) = geo'.for
           /\ Delta[Field] # "s_to_m" /\ Len(result) = delta - 1 =>
                 \E part \in {0, 1} : result' = Append(result, Dumped(geo'.for, part, dumper))
<1> DEFINE parts == Parts(geo')
<1>1. /\ Consult /\ parts # << >> /\ AtValue
      /\ result' = IF Appends(geo') THEN result \o parts ELSE PutAt(result, delta, parts[1])
  BY DEF Store
<1>2. geo' \in Answer \union {Null} /\ delta \in Nat \ {0} /\ todo # << >>
  BY <1>1, ConsultFacts
<1>3. /\ result \in Seq(Slots) /\ Len(result) >= delta - 1 /\ dumper \in Dumpers \union {Null}
  BY <1>2 DEF PassTypeOK, Slots
<1>4. /\ parts \in Seq(FieldValue) /\ geo' # Null
      /\ \A i \in 1 .. Len(parts) : Origin(parts[i]) = geo'.for
      /\ Delta[Field] # "s_to_m" =>
            \E part \in {0, 1} : parts = <<Dumped(geo'.for, part, dumper)>>
  BY <1>1, <1>2, <1>3, PartsFacts
<1> HIDE DEF parts
<1>5. parts \in Seq(Slots) /\ Len(parts) \in Nat \ {0} /\ parts[1] \in Slots /\ 1 \in 1 .. Len(parts)
  BY <1>1, <1>4 DEF Slots
<1>6. CASE Appends(geo')
  <2>1. result' = result \o parts
    BY <1>1, <1>6
  <2>2. /\ result' \in Seq(Slots) /\ Len(result') = Len(result) + Len(parts)
        /\ \A j \in 1 .. Len(result') :
              \/ j \in 1 .. Len(result) /\ result'[j] = result[j]
              \/ j - Len(result) \in 1 .. Len(parts) /\ result'[j] = parts[j - Len(result)]
    BY <1>3, <1>5, <2>1
  <2>3. ASSUME NEW part, parts = <<Dumped(geo'.for, part, dumper)>>
        PROVE  result' = Append(result, Dumped(geo'.for, part, dumper))
    BY <1>3, <2>1, <2>3
  <2>4. Len(result') >= delta
    BY <1>2, <1>3, <1>5, <2>2
  <2>5. \A j \in 1 .. Len(result') :
           \/ j \in 1 .. Len(result) /\ result'[j] = result[j]
           \/ Origin(result'[j]) = geo'.for
    BY <1>4, <2>2
  <2>6. QED
    BY <1>2, <1>4, <2>2, <2>3, <2>4, <2>5
<1>7. CASE ~Appends(geo')
  <2> DEFINE x == parts[1]
  <2>1. result' = PutAt(result, delta, x) /\ x \in Slots
    BY <1>1, <1>5, <1>7
  <2> HIDE DEF x
  <2>2. /\ result' \in Seq(Slots) /\ Len(result') >= delta
        /\ \A j \in 1 .. Len(result') :
              result'[j] = x \/ (j \in 1 .. Len(result) /\ result'[j] = result[j])
        /\ Len(result) = delta - 1 => result' = Append(result, x)
    BY <1>2, <1>3, <2>1, PutAtFacts
  <2>3. Origin(x) = geo'.for
    BY <1>4, <1>5 DEF x
  <2>4. ASSUME NEW part, parts = <<Dumped(geo'.for, part, dumper)>>
        PROVE  x = Dumped(geo'.for, part, dumper)
    BY <2>4 DEF x
  <2>5. QED
    BY <1>2, <1>4, <2>2, <2>3, <2>4
<1>8. QED
  BY <1>6, <1>7

LEMMA FailFacts ==
    ASSUME PassTypeOK, FailValue
    PROVE  /\ geo' \in Answer \union {Null}
           /\ result' \in Seq(Slots) /\ Len(result') >= delta
           /\ \A j \in 1 .. Len(result') :
                 \/ j \in 1 .. Len(result) /\ result'[j] = result[j]
                 \/ result'[j] = Fallback(delta)
           /\ Len(result) = delta - 1 => result' = Append(result, Fallback(delta))
<1>1. Consult /\ AtValue /\ result' = PutAt(result, delta, Fallback(delta))
  BY DEF FailValue
<1>2. geo' \in Answer \union {Null} /\ delta \in Nat \ {0} /\ todo # << >>
  BY <1>1, ConsultFacts
<1>3. /\ result \in Seq(Slots) /\ Len(result) >= delta - 1
      /\ Fallback(delta) \in Slots
  BY <1>2, FallbackFacts DEF PassTypeOK, Slots
<1>4. QED
  BY <1>1, <1>2, <1>3, PutAtFacts

LEMMA PassTypesStep == PassTypes /\ [PassNext]_passVars => PassTypes'
<1> SUFFICES ASSUME PassTypes, [PassNext]_passVars
             PROVE  PassTypes'
  OBVIOUS
<1>1. PassTypeOK
  BY DEF PassTypes
<1>2. CASE UserSaves \/ WorkerStarts
  <2>1. entity' \in [Fields -> Seq(FieldValue)]
    <3>1. CASE UserSaves
      <4>1. PICK typed \in [Fields \ GeocodedFields -> UNION {[1 .. n -> Texts] : n \in 0 .. MaxValues}] :
              entity' = [f \in Fields |->
                            IF f \in GeocodedFields THEN entity[f]
                            ELSE [i \in DOMAIN typed[f] |-> Typed(typed[f][i])]]
        BY <3>1 DEF UserSaves
      <4>2. ASSUME NEW f \in Fields \ GeocodedFields
            PROVE  [i \in DOMAIN typed[f] |-> Typed(typed[f][i])] \in Seq(FieldValue)
        <5>1. PICK n \in 0 .. MaxValues : typed[f] \in [1 .. n -> Texts]
          BY <4>1
        <5>2. n \in Nat /\ DOMAIN typed[f] = 1 .. n
          BY <5>1, PassBoundAssumption
        <5>3. \A i \in 1 .. n : Typed(typed[f][i]) \in FieldValue
          BY <5>1 DEF Typed, FieldValue
        <5>4. QED
          BY <5>2, <5>3
      <4>3. QED
        BY <1>1, <4>1, <4>2 DEF PassTypeOK
    <3>2. CASE WorkerStarts
      BY <1>1, <3>2 DEF WorkerStarts, PassTypeOK
    <3>3. QED
      BY <1>2, <3>1, <3>2
  <2>2. /\ origin = "none" /\ origin' \in {"insert", "update", "queue"} /\ todo' = Order
        /\ changed' = FALSE /\ UNCHANGED <<original, local, loose>>
    BY <1>2 DEF UserSaves, WorkerStarts, Begin
  <2>3. delta = 0 /\ Order \in Seq(GeocodedFields)
    BY <2>2, FieldAssumption DEF PassTypes
  <2>4. QED
    BY <1>1, <2>1, <2>2, <2>3 DEF PassTypes, PassTypeOK, local
<1>3. CASE SkipUnchanged \/ SkipFilled \/ EnterField
  <2>1. AtField
    BY <1>3 DEF SkipUnchanged, SkipFilled, EnterField
  <2>2. todo # << >> /\ delta = 0 /\ origin # "none"
    BY <2>1 DEF AtField
  <2>3. Tail(todo) \in Seq(GeocodedFields) /\ entity[Field] \in Seq(FieldValue)
        /\ NextDumper \in Dumpers \union {Null}
    BY <1>1, <2>2, FieldFacts DEF PassTypeOK, NextDumper
  <2>4. CASE SkipUnchanged \/ SkipFilled
    BY <1>1, <2>2, <2>3, <2>4 DEF SkipUnchanged, SkipFilled, PassTypes, PassTypeOK, local
  <2>5. CASE EnterField
    BY <1>1, <2>2, <2>3, <2>5 DEF EnterField, PassTypes, PassTypeOK
  <2>6. QED
    BY <1>3, <2>4, <2>5
<1>4. CASE Store \/ FailValue
  <2>1. delta \in Nat \ {0} /\ todo # << >> /\ origin # "none"
    BY <1>4 DEF Store, FailValue, AtValue, PassTypes, PassTypeOK
  <2>2. /\ geo' \in Answer \union {Null} /\ result' \in Seq(Slots) /\ Len(result') >= delta
        /\ asked' \in Seq(BOOLEAN) /\ Len(asked') = delta
    BY <1>1, <1>4, StoreFacts, FailFacts, ConsultFacts DEF Store, FailValue
  <2>3. /\ delta' = delta + 1
        /\ UNCHANGED <<entity, original, origin, todo, defaults, dumper, changed, loose>>
    BY <1>4 DEF Store, FailValue, NextValue
  <2>4. QED
    BY <1>1, <2>1, <2>2, <2>3 DEF PassTypes, PassTypeOK, Slots
<1>5. CASE SetField
  <2>1. delta # 0 /\ todo # << >> /\ origin # "none"
    BY <1>5 DEF SetField, PassTypes, PassTypeOK
  <2>2. NotEmpty(result) \in Seq(FieldValue)
    BY <1>1, NotEmptyFacts DEF PassTypeOK
  <2>3. Tail(todo) \in Seq(GeocodedFields) /\ Field \in Fields
    BY <1>1, <2>1, FieldFacts
  <2>4. /\ entity' \in [Fields -> Seq(FieldValue)] /\ Changed \in BOOLEAN
        /\ loose' \in SUBSET GeocodedFields
    BY <1>1, <1>5, <2>1, <2>2, <2>3, FieldFacts DEF SetField, PassTypeOK, Changed
  <2>5. QED
    BY <1>1, <1>5, <2>1, <2>3, <2>4 DEF SetField, PassTypes, PassTypeOK
<1>6. CASE Finish
  BY <1>1, <1>6 DEF Finish, PassTypes, PassTypeOK
<1>7. CASE UNCHANGED passVars
  BY <1>1, <1>7 DEF passVars, local, PassTypes, PassTypeOK
<1>8. QED
  BY <1>2, <1>3, <1>4, <1>5, <1>6, <1>7 DEF PassNext

(* The variables of a pass keep their types, whatever is configured and    *)
(* whatever the providers answer (_geocoder_field_process()).              *)
THEOREM PassTypeCorrect == PassSpec => []PassTypeOK
<1>1. PassTypes => PassTypeOK
  BY DEF PassTypes
<1>2. QED
  BY <1>1, PassTypesInitial, PassTypesStep, PTL DEF PassSpec


-----------------------------------------------------------------------------
(* Where a pass is                                                         *)

(* The fields are weighed in the order of their dependence.                *)
SourcesFirst ==
    \A i, j \in DOMAIN Order :
        /\ Order[i] = Order[j] => i = j
        /\ Source[Order[i]] = Order[j] => j < i

(* The fields that are still to do are the last ones of the order.         *)
TodoBehind(n) == todo = SubSeq(Order, n + 1, Len(Order))

LEMMA OrderFacts ==
    /\ Order \in Seq(GeocodedFields) /\ Len(Order) \in Nat
    /\ \A f \in GeocodedFields : \E i \in 1 .. Len(Order) : f = Order[i]
    /\ \A i \in 1 .. Len(Order) : Order[i] \in Fields /\ Source[Order[i]] \in Fields
BY FieldAssumption DEF GeocodedFields, ToSet

(* The next field is the one after those that are done.                    *)
LEMMA NextField ==
    ASSUME NEW n \in 0 .. Len(Order), TodoBehind(n), todo # << >>
    PROVE  /\ n + 1 \in 1 .. Len(Order) /\ Field = Order[n + 1]
           /\ Tail(todo) = SubSeq(Order, n + 2, Len(Order))
<1>1. Order \in Seq(GeocodedFields) /\ Len(Order) \in Nat
  BY OrderFacts
<1>2. n < Len(Order)
  BY <1>1 DEF TodoBehind
<1>3. Len(todo) = Len(Order) - n /\ \A i \in 1 .. Len(Order) - n : todo[i] = Order[n + i]
  BY <1>1, <1>2 DEF TodoBehind
<1>4. Head(todo) = todo[1]
  BY <1>1, <1>2 DEF TodoBehind
<1>5. Tail(todo) = SubSeq(Order, n + 2, Len(Order))
  BY <1>1, <1>2 DEF TodoBehind
<1>6. QED
  BY <1>1, <1>2, <1>3, <1>4, <1>5 DEF Field

(* Before holds the fields in front of it.                                 *)
Done(t) == ToSet(SubSeq(Order, 1, Len(Order) - Len(t)))

LEMMA DoneFacts ==
    ASSUME NEW n \in 0 .. Len(Order)
    PROVE  Done(SubSeq(Order, n + 1, Len(Order))) = {Order[i] : i \in 1 .. n}
<1> DEFINE t == SubSeq(Order, n + 1, Len(Order))
           s == SubSeq(Order, 1, n)
<1>1. Order \in Seq(GeocodedFields) /\ Len(Order) \in Nat
  BY OrderFacts
<1>2. Len(t) = Len(Order) - n
  BY <1>1
<1>3. Len(Order) - Len(t) = n
  BY <1>1, <1>2
<1>4. /\ s \in Seq(GeocodedFields) /\ Len(s) = n /\ DOMAIN s = 1 .. n
      /\ \A i \in 1 .. n : s[i] = Order[i]
  BY <1>1
<1> HIDE DEF s
<1>5. ToSet(s) = {Order[i] : i \in 1 .. n}
  BY <1>4 DEF ToSet
<1>6. QED
  BY <1>3, <1>5 DEF Done, s

-----------------------------------------------------------------------------
(* The value at a delta                                                    *)
(*                                                                         *)
(* $geo_collection answers the last value that was given to the service,   *)
(* $dumper is the last one that could be created: AnsweredIn and Formats   *)
(* say of which values and fields these are.                               *)

(* The last turn up to i that asked the service.                           *)
LastAsked(a, i) == {k \in 1 .. i : a[k] /\ \A l \in k + 1 .. i : ~a[l]}

LEMMA LastAskedFacts ==
    ASSUME NEW a \in Seq(BOOLEAN), NEW b \in BOOLEAN
    PROVE  /\ \A i \in 0 .. Len(a) :
                 /\ (\E j \in 1 .. i : Append(a, b)[j]) <=> (\E j \in 1 .. i : a[j])
                 /\ LastAsked(Append(a, b), i) = LastAsked(a, i)
           /\ b => /\ \E j \in 1 .. Len(a) + 1 : Append(a, b)[j]
                   /\ LastAsked(Append(a, b), Len(a) + 1) = {Len(a) + 1}
           /\ ~b => /\ (\E j \in 1 .. Len(a) + 1 : Append(a, b)[j])
                          <=> (\E j \in 1 .. Len(a) : a[j])
                    /\ LastAsked(Append(a, b), Len(a) + 1) = LastAsked(a, Len(a))
<1> DEFINE c == Append(a, b)
           n == Len(a)
<1>1. /\ n \in Nat /\ c[n + 1] = b /\ \A j \in 1 .. n : c[j] = a[j]
      /\ \A j \in 1 .. n : a[j] \in BOOLEAN
  OBVIOUS
<1> HIDE DEF c, n
<1>2. ASSUME NEW i \in 0 .. n
      PROVE  /\ (\E j \in 1 .. i : c[j]) <=> (\E j \in 1 .. i : a[j])
             /\ LastAsked(c, i) = LastAsked(a, i)
  <2>1. \A j \in 1 .. i : j \in 1 .. n /\ \A l \in j + 1 .. i : l \in 1 .. n
    BY <1>1
  <2>2. \A j \in 1 .. i : c[j] = a[j] /\ \A l \in j + 1 .. i : c[l] = a[l]
    BY <1>1, <2>1
  <2>3. QED
    BY <2>2 DEF LastAsked
<1>3. \A k \in 1 .. n + 1 : k = n + 1 \/ k \in 1 .. n
  BY <1>1
<1>4. ASSUME b
      PROVE  (\E j \in 1 .. n + 1 : c[j]) /\ LastAsked(c, n + 1) = {n + 1}
  <2>1. n + 1 \in 1 .. n + 1 /\ c[n + 1] /\ \A l \in n + 1 + 1 .. n + 1 : ~c[l]
    BY <1>1, <1>4
  <2>2. \A k \in 1 .. n : n + 1 \in k + 1 .. n + 1
    BY <1>1
  <2>3. QED
    BY <1>3, <2>1, <2>2 DEF LastAsked
<1>5. ASSUME ~b
      PROVE  /\ (\E j \in 1 .. n + 1 : c[j]) <=> (\E j \in 1 .. n : a[j])
             /\ LastAsked(c, n + 1) = LastAsked(a, n)
  <2>1. \A k \in 1 .. n : k \in 1 .. n + 1 /\ (c[k] <=> a[k])
    BY <1>1
  <2>2. ~c[n + 1]
    BY <1>1, <1>5
  <2>3. ASSUME NEW k \in 1 .. n
        PROVE  (\A l \in k + 1 .. n + 1 : ~c[l]) <=> (\A l \in k + 1 .. n : ~a[l])
    <3>1. \A l \in k + 1 .. n + 1 : l = n + 1 \/ l \in k + 1 .. n
      BY <1>1
    <3>2. \A l \in k + 1 .. n : l \in k + 1 .. n + 1 /\ l \in 1 .. n
      BY <1>1
    <3>3. QED
      BY <2>1, <2>2, <3>1, <3>2
  <2>4. QED
    BY <1>3, <2>1, <2>2, <2>3 DEF LastAsked
<1>6. QED
  BY <1>2, <1>4, <1>5 DEF c, n

(* The values that the fields in front of the current one were set from.   *)
Earlier == UNION {ToSet(entity[Source[f]]) : f \in Before}

AnsweredOf(vals, early, a, i) ==
    IF \E j \in 1 .. i : a[j] THEN {vals[j] : j \in LastAsked(a, i)} ELSE early

LEMMA AnsweredFacts ==
    /\ \A i : AnsweredIn(i) = AnsweredOf(Values, Earlier, asked, i)
    /\ \A i : AnsweredIn(i)' = AnsweredOf(Values', Earlier', asked', i)
  BY DEF AnsweredIn, AnsweredOf, LastAsked, Earlier

(* What the variables that outlive a turn are about.                       *)
Carrying ==
    /\ origin = "none" => geo = Null /\ dumper = Null
    /\ delta # 0 => delta - 1 <= Len(Values)
    /\ geo # Null => geo.for \in IF delta = 0 THEN Earlier
                               ELSE AnsweredOf(Values, Earlier, asked, delta - 1)
    /\ dumper # Null =>
          dumper \in IF delta = 0 THEN {Dumper[f] : f \in Before} \ Broken ELSE Formats

Matching ==
    /\ PassTypes
    /\ origin # "none" => \E n \in 0 .. Len(Order) : TodoBehind(n)
    /\ Carrying
    /\ ResultMatchesDelta

(* The next field: the one that is done joins Before, and the sources of   *)
(* all of them stay.                                                       *)
LEMMA Onward ==
    ASSUME SourcesFirst, PassTypeOK, NEW n \in 0 .. Len(Order), TodoBehind(n), todo # << >>,
           todo' = Tail(todo), \A f \in Fields : f # Field => entity'[f] = entity[f]
    PROVE  /\ n + 1 \in 0 .. Len(Order) /\ TodoBehind(n + 1)'
           /\ Before' = Before \union {Field}
           /\ Earlier' = Earlier \union ToSet(Values)
           /\ Field \in Fields /\ Source[Field] \in Fields /\ Source[Field] # Field
<1>1. /\ Order \in Seq(GeocodedFields) /\ Len(Order) \in Nat
      /\ \A i \in 1 .. Len(Order) : Order[i] \in Fields /\ Source[Order[i]] \in Fields
  BY OrderFacts
<1>2. /\ n + 1 \in 1 .. Len(Order) /\ Field = Order[n + 1]
      /\ todo' = SubSeq(Order, n + 2, Len(Order))
  BY NextField
<1>3. n + 1 \in 0 .. Len(Order) /\ n + 1 + 1 = n + 2
  BY <1>1, <1>2
<1>4. Before = {Order[i] : i \in 1 .. n}
  BY DoneFacts DEF Before, Done, TodoBehind
<1>5. Before' = {Order[i] : i \in 1 .. n + 1}
  <2>1. Done(SubSeq(Order, n + 1 + 1, Len(Order))) = {Order[i] : i \in 1 .. n + 1}
    BY <1>3, DoneFacts
  <2>2. Before' = Done(todo')
    BY DEF Before, Done
  <2>3. QED
    BY <1>2, <1>3, <2>1, <2>2
<1>6. \A i \in 1 .. n + 1 : i = n + 1 \/ i \in 1 .. n
  BY <1>1, <1>2
<1>7. \A i \in 1 .. n : i \in 1 .. n + 1
  BY <1>1, <1>2
<1>8. n + 1 \in 1 .. n + 1
  BY <1>1, <1>2
<1>9. Before' = Before \union {Field}
  BY <1>2, <1>4, <1>5, <1>6, <1>7, <1>8
<1>10. \A i \in 1 .. n + 1 : Source[Order[i]] # Field /\ Source[Order[i]] \in Fields
  <2>1. \A i \in 1 .. n + 1 : i \in 1 .. Len(Order) /\ ~(n + 1 < i)
    BY <1>1, <1>2
  <2>2. QED
    BY <1>1, <1>2, <2>1 DEF SourcesFirst
<1>11. \A f \in Before' : entity'[Source[f]] = entity[Source[f]]
  BY <1>5, <1>10
<1>12. Field \in Fields /\ Source[Field] \in Fields /\ Source[Field] # Field
  BY <1>1, <1>2, <1>8, <1>10
<1>13. Earlier' = UNION {ToSet(entity[Source[f]]) : f \in Before'}
  <2>1. Earlier' = UNION {ToSet(entity'[Source[f]]) : f \in Before'}
    BY DEF Earlier
  <2>2. QED
    BY <1>11, <2>1
<1>14. Earlier' = Earlier \union ToSet(Values)
  BY <1>9, <1>13 DEF Earlier, Values
<1>15. QED
  BY <1>2, <1>3, <1>9, <1>12, <1>14 DEF TodoBehind

(* A turn that does not ask keeps the answer of the last one that did.     *)
LEMMA TurnFacts ==
    ASSUME PassTypeOK, AtValue, Consult, Carrying
    PROVE  /\ \A i \in 1 .. delta - 1 :
                 AnsweredOf(Values, Earlier, asked', i) = AnsweredOf(Values, Earlier, asked, i)
           /\ geo' # Null => geo'.for \in AnsweredOf(Values, Earlier, asked', delta)
<1>1. PICK b \in BOOLEAN : /\ asked' = Append(asked, b)
                           /\ b /\ geo' # Null => geo'.for = Values[delta]
                           /\ ~b => geo' = geo
  BY ConsultFacts
<1>2. delta \in Nat \ {0} /\ asked \in Seq(BOOLEAN) /\ Len(asked) = delta - 1
  BY DEF PassTypeOK, AtValue
<1>3. /\ \A i \in 0 .. delta - 1 :
            /\ (\E j \in 1 .. i : asked'[j]) <=> (\E j \in 1 .. i : asked[j])
            /\ LastAsked(asked', i) = LastAsked(asked, i)
      /\ b => (\E j \in 1 .. delta : asked'[j]) /\ LastAsked(asked', delta) = {delta}
      /\ ~b => /\ (\E j \in 1 .. delta : asked'[j]) <=> (\E j \in 1 .. delta - 1 : asked[j])
               /\ LastAsked(asked', delta) = LastAsked(asked, delta - 1)
  <2>1. Len(asked) + 1 = delta
    BY <1>2
  <2>2. QED
    BY <1>1, <1>2, <2>1, LastAskedFacts
<1>4. \A i \in 1 .. delta - 1 :
         AnsweredOf(Values, Earlier, asked', i) = AnsweredOf(Values, Earlier, asked, i)
  <2>1. \A i \in 1 .. delta - 1 : i \in 0 .. delta - 1
    BY <1>2
  <2>2. QED
    BY <1>3, <2>1 DEF AnsweredOf
<1>5. ASSUME geo' # Null
      PROVE  geo'.for \in AnsweredOf(Values, Earlier, asked', delta)
  <2>1. CASE b
    BY <1>1, <1>3, <1>5, <2>1 DEF AnsweredOf
  <2>2. CASE ~b
    <3>1. geo' = geo /\ geo.for \in AnsweredOf(Values, Earlier, asked, delta - 1)
      BY <1>1, <1>2, <1>5, <2>2 DEF Carrying
    <3>2. AnsweredOf(Values, Earlier, asked', delta) = AnsweredOf(Values, Earlier, asked, delta - 1)
      BY <1>3, <2>2 DEF AnsweredOf
    <3>3. QED
      BY <3>1, <3>2
  <2>3. QED
    BY <2>1, <2>2
<1>6. QED
  BY <1>4, <1>5

LEMMA MatchingStep ==
    ASSUME SourcesFirst, Matching, [PassNext]_passVars
    PROVE  Matching'
<1>1. PassTypes' /\ PassTypes /\ PassTypeOK /\ PassTypeOK' /\ Carrying
  BY PassTypesStep DEF Matching, PassTypes
<1>2. CASE UserSaves \/ WorkerStarts
  <2>1. delta' = delta /\ origin = "none" /\ todo' = Order /\ geo' = geo /\ dumper' = dumper
    BY <1>2 DEF UserSaves, WorkerStarts, Begin, local
  <2>2. delta' = 0 /\ geo' = Null /\ dumper' = Null
    BY <1>1, <2>1 DEF PassTypes, Carrying
  <2>3. TodoBehind(0)' /\ 0 \in 0 .. Len(Order)
    <3>1. Order = SubSeq(Order, 0 + 1, Len(Order)) /\ Len(Order) \in Nat
      BY OrderFacts
    <3>2. QED
      BY <2>1, <3>1 DEF TodoBehind
  <2>4. QED
    BY <1>1, <2>2, <2>3 DEF Matching, ResultMatchesDelta, Carrying
<1>3. CASE SkipUnchanged \/ SkipFilled
  <2>1. /\ delta = 0 /\ delta' = 0 /\ origin # "none" /\ origin' = origin /\ todo # << >>
        /\ todo' = Tail(todo) /\ entity' = entity /\ geo' = geo
        /\ dumper' = dumper \/ dumper' = NextDumper
    BY <1>3 DEF SkipUnchanged, SkipFilled, AtField, local
  <2>2. PICK n \in 0 .. Len(Order) : TodoBehind(n)
    BY <2>1 DEF Matching
  <2>3. /\ n + 1 \in 0 .. Len(Order) /\ TodoBehind(n + 1)'
        /\ Before' = Before \union {Field}
        /\ Earlier' = Earlier \union ToSet(Values)
    BY <1>1, <2>1, <2>2, Onward
  <2>4. Carrying'
    BY <1>1, <2>1, <2>3 DEF Carrying, NextDumper
  <2>5. QED
    BY <1>1, <2>1, <2>3, <2>4 DEF Matching, ResultMatchesDelta
<1>4. CASE EnterField
  <2>1. /\ delta = 0 /\ delta' = 1 /\ result' = result /\ todo' = todo /\ dumper' = NextDumper
        /\ geo' = geo /\ entity' = entity /\ asked' = asked
        /\ origin # "none" /\ origin' = origin /\ todo # << >>
    BY <1>4 DEF EnterField, AtField
  <2>2. result' = << >> /\ Field' = Field /\ Before' = Before /\ Earlier' = Earlier
    BY <1>1, <2>1 DEF PassTypeOK, Field, Before, Earlier
  <2>3. ResultMatchesDelta'
    BY <2>1, <2>2 DEF ResultMatchesDelta
  <2>4. AnsweredOf(Values', Earlier', asked', 0) = Earlier' /\ delta' - 1 = 0
    BY <2>1 DEF AnsweredOf
  <2>5. dumper' # Null => dumper' \in Formats'
    BY <1>1, <2>1, <2>2 DEF Formats, NextDumper, Carrying
  <2>6. geo' # Null => geo'.for \in AnsweredOf(Values', Earlier', asked', delta' - 1)
    BY <1>1, <2>1, <2>2, <2>4 DEF Carrying
  <2>7. Len(Values') \in Nat
    BY <1>1, <2>1, FieldFacts DEF AtField, Values, Field
  <2>8. Carrying'
    BY <2>1, <2>5, <2>6, <2>7 DEF Carrying
  <2>9. QED
    BY <1>1, <2>1, <2>3, <2>8 DEF Matching, TodoBehind
<1>5. CASE Store \/ FailValue
  <2>1. AtValue /\ Consult /\ delta \in Nat \ {0} /\ todo # << >> /\ origin # "none"
    BY <1>1, <1>5 DEF Store, FailValue, AtValue, PassTypeOK, PassTypes
  <2>2. /\ delta' = delta + 1
        /\ UNCHANGED <<entity, original, origin, todo, defaults, dumper, changed>>
    BY <1>5 DEF Store, FailValue, NextValue
  <2>3. /\ Field' = Field /\ Values' = Values /\ Before' = Before /\ Formats' = Formats
        /\ \A i : Fallback(i)' = Fallback(i)
        /\ Earlier' = Earlier
    BY <2>2 DEF Field, Values, Before, Formats, Fallback, Earlier
  <2> DEFINE answered(i) == AnsweredOf(Values, Earlier, asked', i)
  <2>4. /\ \A i \in 1 .. delta - 1 : answered(i) = AnsweredIn(i)
        /\ geo' # Null => geo'.for \in answered(delta)
        /\ \A i : AnsweredIn(i)' = answered(i)
    BY <1>1, <2>1, <2>2, <2>3, TurnFacts, AnsweredFacts
  <2>5. Carrying'
    <3>1. delta' # 0 /\ delta' - 1 = delta /\ origin' # "none"
      BY <2>1, <2>2
    <3>2. geo' # Null => geo'.for \in AnsweredOf(Values', Earlier', asked', delta' - 1)
      BY <2>3, <2>4, <3>1
    <3>3. dumper' # Null => dumper' \in Formats'
      BY <1>1, <2>1, <2>2, <2>3 DEF Carrying
    <3>4. delta' - 1 <= Len(Values')
      BY <2>1, <2>3, <3>1 DEF AtValue
    <3>5. QED
      BY <3>1, <3>2, <3>3, <3>4 DEF Carrying
  <2> DEFINE Fits(x, i) == \/ x = Fallback(i)
                           \/ \E v \in answered(i), part \in {0, 1}, d \in Formats :
                                 x = Dumped(v, part, d)
  <2>6. SUFFICES ASSUME Delta[Field] = "default"
                 PROVE  Len(result') = delta /\ \A i \in 1 .. delta : Fits(result'[i], i)
    <3>1. CASE Delta[Field] # "default"
      BY <1>1, <2>1, <2>2, <2>3, <2>5, <3>1 DEF Matching, ResultMatchesDelta, TodoBehind
    <3>2. CASE Delta[Field] = "default" /\ Len(result') = delta
               /\ \A i \in 1 .. delta : Fits(result'[i], i)
      <4>1. delta' - 1 = delta
        BY <2>1, <2>2
      <4>2. ResultMatchesDelta'
        BY <2>3, <2>4, <3>2, <4>1 DEF ResultMatchesDelta
      <4>3. QED
        BY <1>1, <2>1, <2>2, <2>5, <4>2 DEF Matching, TodoBehind
    <3>3. QED
      BY <3>1, <3>2
  <2>7. /\ Len(result) = delta - 1 /\ result \in Seq(FieldValue \union {Null})
        /\ \A i \in 1 .. delta - 1 : Fits(result[i], i)
    BY <1>1, <2>1, <2>4, <2>6 DEF Matching, ResultMatchesDelta, PassTypeOK
  <2>8. \E x : result' = Append(result, x) /\ Fits(x, delta)
    <3>1. CASE Store
      <4>1. geo' # Null /\ dumper # Null
        BY <1>1, <3>1, StoreFacts DEF Store, Parts
      <4>2. geo'.for \in answered(delta) /\ dumper \in Formats
        BY <1>1, <2>1, <2>4, <4>1 DEF Carrying
      <4>3. \E part \in {0, 1} : result' = Append(result, Dumped(geo'.for, part, dumper))
        BY <1>1, <2>6, <2>7, <3>1, StoreFacts
      <4>4. QED
        BY <4>2, <4>3
    <3>2. CASE FailValue
      BY <1>1, <2>7, <3>2, FailFacts
    <3>3. QED
      BY <1>5, <3>1, <3>2
  <2> HIDE DEF Fits, answered
  <2>9. PICK x : result' = Append(result, x) /\ Fits(x, delta)
    BY <2>8
  <2>10. /\ Len(result') = delta /\ result'[delta] = x
         /\ \A i \in 1 .. delta - 1 : result'[i] = result[i]
    BY <2>1, <2>7, <2>9
  <2>11. \A i \in 1 .. delta : i = delta \/ i \in 1 .. delta - 1
    BY <2>1
  <2>12. QED
    BY <2>7, <2>9, <2>10, <2>11
<1>6. CASE SetField
  <2>1. /\ delta \in Nat \ {0} /\ delta' = 0 /\ todo # << >> /\ origin # "none"
        /\ todo' = Tail(todo)
        /\ entity' = [entity EXCEPT ![Field] = NotEmpty(result)]
        /\ UNCHANGED <<origin, geo, dumper>>
    BY <1>1, <1>6 DEF SetField, PassTypes, PassTypeOK
  <2>2. PICK n \in 0 .. Len(Order) : TodoBehind(n)
    BY <2>1 DEF Matching
  <2>3. \A f \in Fields : f # Field => entity'[f] = entity[f]
    BY <1>1, <2>1 DEF PassTypeOK
  <2>4. /\ n + 1 \in 0 .. Len(Order) /\ TodoBehind(n + 1)'
        /\ Before' = Before \union {Field}
        /\ Earlier' = Earlier \union ToSet(Values)
    BY <1>1, <2>1, <2>2, <2>3, Onward
  <2>5. AnsweredOf(Values, Earlier, asked, delta - 1) \subseteq Earlier'
    <3>1. Values \in Seq(FieldValue) /\ delta - 1 <= Len(Values)
      BY <1>1, <2>1, FieldFacts DEF Carrying
    <3>2. \A j \in 1 .. delta - 1 : Values[j] \in ToSet(Values)
      BY <2>1, <3>1 DEF ToSet
    <3>3. LastAsked(asked, delta - 1) \subseteq 1 .. delta - 1
      BY DEF LastAsked
    <3>4. QED
      BY <2>4, <3>2, <3>3 DEF AnsweredOf
  <2>6. Formats \subseteq {Dumper[f] : f \in Before'} \ Broken
    BY <2>4 DEF Formats
  <2>7. Carrying'
    BY <1>1, <2>1, <2>5, <2>6 DEF Carrying
  <2>8. QED
    BY <1>1, <2>1, <2>4, <2>7 DEF Matching, ResultMatchesDelta
<1>7. CASE Finish
  <2>1. delta = 0 /\ delta' = delta /\ geo' = Null /\ dumper' = Null /\ origin' = "none"
    BY <1>1, <1>7 DEF Finish, PassTypeOK
  <2>2. QED
    BY <1>1, <2>1 DEF Matching, ResultMatchesDelta, Carrying
<1>8. CASE UNCHANGED passVars
  <2>1. UNCHANGED <<entity, origin, todo, delta, defaults, result, geo, dumper, asked>>
    BY <1>8 DEF passVars, local
  <2>2. /\ Field' = Field /\ Values' = Values /\ Before' = Before
        /\ \A i \in Nat : Fallback(i)' = Fallback(i)
        /\ \A n \in 0 .. Len(Order) : TodoBehind(n)' <=> TodoBehind(n)
    BY <2>1 DEF Field, Values, Before, Fallback, TodoBehind
  <2>3. /\ Earlier' = Earlier /\ Formats' = Formats
        /\ \A i \in Nat : AnsweredIn(i)' = AnsweredIn(i)
    BY <2>1, <2>2 DEF Earlier, Formats, AnsweredIn
  <2>4. Carrying'
    BY <2>1, <2>2, <2>3 DEF Matching, Carrying
  <2>5. ResultMatchesDelta'
    BY <2>1, <2>2, <2>3, <1>1 DEF Matching, ResultMatchesDelta, PassTypeOK
  <2>6. QED
    BY <1>1, <2>1, <2>2, <2>4, <2>5 DEF Matching
<1>9. QED
  BY <1>2, <1>3, <1>4, <1>5, <1>6, <1>7, <1>8 DEF PassNext

(* With the default delta handling the result of a value that was given to *)
(* the service comes from that value; what a hook has unset gets the       *)
(* answer to the last value that was not, and a field without a dumper of  *)
(* its own the format of one before, for any number of fields and values   *)
(* in the order of their dependence (the variables that survive a turn).   *)
THEOREM ResultAlwaysMatchesDelta ==
    ASSUME SourcesFirst
    PROVE  PassSpec => []ResultMatchesDelta
<1>1. PassInit => Matching
  BY PassTypesInitial DEF PassInit, Matching, ResultMatchesDelta, Carrying
<1>2. Matching /\ [PassNext]_passVars => Matching'
  BY MatchingStep
<1>3. Matching => ResultMatchesDelta
  BY DEF Matching
<1>4. QED
  BY <1>1, <1>2, <1>3, PTL DEF PassSpec


-----------------------------------------------------------------------------
(* What is stored derives from what its source holds                       *)
(*                                                                         *)
(* Within a pass the fields behind Field are as they were stored, those    *)
(* before it derive from sources that the rest of the pass does not touch. *)
(* An entity that the pass has not changed is the one that is stored.      *)

Strict(f) == FailureHandling[f] = "empty" /\ f \notin SkipNotEmptyFields

DerivedIn(e, l, f) ==
    Strict(f) /\ f \notin l => \A i \in DOMAIN e[f] : Origin(e[f][i]) \in ToSet(e[Source[f]])

(* The first n fields of the order are done.                               *)
DoneBefore(n) ==
    /\ TodoBehind(n)
    /\ \A i \in 1 .. n : DerivedIn(entity, loose, Order[i])
    /\ \A i \in n + 1 .. Len(Order) : /\ entity[Order[i]] = original[Order[i]]
                                     /\ DerivedIn(original, loose, Order[i])

ResultDerived ==
    delta # 0 /\ Strict(Field) /\ (\A i \in 1 .. Len(asked) : asked[i]) =>
        \A i \in 1 .. Len(result) : result[i] = Null \/ Origin(result[i]) \in ToSet(Values)

Deriving ==
    /\ PassTypes
    /\ origin = "none" =>
          entity = original /\ \A f \in GeocodedFields : DerivedIn(entity, loose, f)
    /\ origin # "none" => \E n \in 0 .. Len(Order) : DoneBefore(n)
    /\ origin = "queue" /\ ~changed => entity = original
    /\ delta # 0 => defaults = entity[Field]
    /\ ResultDerived

(* A pass goes on behind a field that is done: only that one has changed.  *)
LEMMA FieldDone ==
    ASSUME SourcesFirst, PassTypeOK, NEW n \in 0 .. Len(Order), DoneBefore(n), todo # << >>,
           todo' = Tail(todo), original' = original,
           \A f \in Fields : f # Field => entity'[f] = entity[f],
           \A f : f # Field => (f \in loose' <=> f \in loose),
           DerivedIn(entity', loose', Field)
    PROVE  n + 1 \in 0 .. Len(Order) /\ DoneBefore(n + 1)'
<1>1. /\ Order \in Seq(GeocodedFields) /\ Len(Order) \in Nat
      /\ \A i \in 1 .. Len(Order) : Order[i] \in Fields /\ Source[Order[i]] \in Fields
  BY OrderFacts
<1>2. /\ n + 1 \in 1 .. Len(Order) /\ Field = Order[n + 1]
      /\ todo' = SubSeq(Order, n + 2, Len(Order))
  BY NextField DEF DoneBefore
<1>3. \A i \in 1 .. Len(Order) :
          /\ i # n + 1 => Order[i] # Field
          /\ i <= n + 1 => Source[Order[i]] # Field
  BY <1>1, <1>2 DEF SourcesFirst
<1>4. ASSUME NEW i \in 1 .. n + 1
      PROVE  DerivedIn(entity', loose', Order[i])
  <2>1. CASE i = n + 1
    BY <1>2, <2>1
  <2>2. CASE i # n + 1
    <3>1. i \in 1 .. n /\ i \in 1 .. Len(Order) /\ i <= n + 1
      BY <1>1, <1>2, <2>2
    <3>2. /\ entity'[Order[i]] = entity[Order[i]]
          /\ entity'[Source[Order[i]]] = entity[Source[Order[i]]]
          /\ Order[i] \in loose' <=> Order[i] \in loose
      BY <1>1, <1>3, <2>2, <3>1
    <3>3. DerivedIn(entity, loose, Order[i])
      BY <3>1 DEF DoneBefore
    <3>4. QED
      BY <3>2, <3>3 DEF DerivedIn
  <2>3. QED
    BY <2>1, <2>2
<1>5. ASSUME NEW i \in n + 2 .. Len(Order)
      PROVE  entity'[Order[i]] = original'[Order[i]] /\ DerivedIn(original', loose', Order[i])
  <2>1. i \in n + 1 .. Len(Order) /\ i \in 1 .. Len(Order) /\ i # n + 1
    BY <1>1, <1>2
  <2>2. /\ entity'[Order[i]] = entity[Order[i]]
        /\ Order[i] \in loose' <=> Order[i] \in loose
    BY <1>1, <1>3, <2>1
  <2>3. entity[Order[i]] = original[Order[i]] /\ DerivedIn(original, loose, Order[i])
    BY <2>1 DEF DoneBefore
  <2>4. QED
    BY <2>2, <2>3 DEF DerivedIn
<1>6. n + 1 + 1 = n + 2 /\ n + 1 \in 0 .. Len(Order)
  BY <1>1, <1>2
<1>7. QED
  BY <1>2, <1>4, <1>5, <1>6 DEF DoneBefore, TodoBehind

(* A field whose source has not changed is as good as it was.              *)
LEMMA SkippedIsDerived ==
    ASSUME PassTypeOK, NEW n \in 0 .. Len(Order), DoneBefore(n), todo # << >>,
           NothingToDo \/ Field \in SkipNotEmptyFields
    PROVE  DerivedIn(entity, loose, Field)
<1>1. n + 1 \in 1 .. Len(Order) /\ Field = Order[n + 1] /\ n + 1 \in n + 1 .. Len(Order)
  BY NextField, OrderFacts DEF DoneBefore
<1>2. entity[Field] = original[Field] /\ DerivedIn(original, loose, Field)
  BY <1>1 DEF DoneBefore
<1>3. CASE ~Strict(Field)
  BY <1>3 DEF DerivedIn
<1>4. CASE Strict(Field)
  <2>1. entity[Source[Field]] = original[Source[Field]]
    BY <1>4 DEF NothingToDo, Strict, SameAsOriginal, Values
  <2>2. QED
    BY <1>2, <2>1 DEF DerivedIn
<1>5. QED
  BY <1>3, <1>4

(* A step that touches neither the entity nor the list of fields.          *)
LEMMA SameFields ==
    ASSUME UNCHANGED <<entity, original, todo, loose>>
    PROVE  \A n \in 0 .. Len(Order) : DoneBefore(n) => DoneBefore(n)'
  BY DEF DoneBefore, TodoBehind, DerivedIn, Strict

LEMMA DerivingStep ==
    ASSUME SourcesFirst, Deriving, [PassNext]_passVars
    PROVE  Deriving'
<1>1. PassTypes /\ PassTypes' /\ PassTypeOK
  BY PassTypesStep DEF Deriving, PassTypes
<1>2. CASE UserSaves \/ WorkerStarts
  <2>1. /\ origin = "none" /\ origin' # "none" /\ todo' = Order
        /\ UNCHANGED <<original, delta, loose>>
    BY <1>2 DEF UserSaves, WorkerStarts, Begin, local
  <2>2. /\ entity = original /\ delta' = 0
        /\ \A f \in GeocodedFields : DerivedIn(original, loose, f)
    BY <1>1, <2>1 DEF Deriving, PassTypes
  <2>3. \A f \in GeocodedFields : entity'[f] = entity[f]
    BY <1>2, FieldAssumption DEF UserSaves, WorkerStarts
  <2>4. DoneBefore(0)' /\ 0 \in 0 .. Len(Order)
    <3>1. Order \in Seq(GeocodedFields) /\ Len(Order) \in Nat
      BY OrderFacts
    <3>2. SubSeq(Order, 0 + 1, Len(Order)) = Order
      BY <3>1
    <3>3. \A i \in 1 .. Len(Order) : entity'[Order[i]] = original'[Order[i]]
      BY <2>1, <2>2, <2>3, <3>1
    <3>4. \A i \in 1 .. Len(Order) : DerivedIn(original', loose', Order[i])
      BY <2>1, <2>2, <3>1 DEF DerivedIn
    <3>5. QED
      BY <2>1, <3>1, <3>2, <3>3, <3>4 DEF DoneBefore, TodoBehind
  <2>5. origin' = "queue" => entity' = original'
    BY <1>2, <2>1, <2>2 DEF UserSaves, WorkerStarts, Begin
  <2>6. QED
    BY <1>1, <2>1, <2>2, <2>4, <2>5 DEF Deriving, ResultDerived
<1>3. CASE SkipUnchanged \/ SkipFilled
  <2>1. /\ todo # << >> /\ delta' = 0 /\ origin # "none" /\ todo' = Tail(todo)
        /\ UNCHANGED <<entity, original, origin, changed, loose>>
        /\ NothingToDo \/ Field \in SkipNotEmptyFields
    BY <1>3 DEF SkipUnchanged, SkipFilled, AtField, local
  <2>2. PICK n \in 0 .. Len(Order) : DoneBefore(n)
    BY <2>1 DEF Deriving
  <2>3. DerivedIn(entity, loose, Field)
    BY <1>1, <2>1, <2>2, SkippedIsDerived
  <2>4. DerivedIn(entity', loose', Field)
    BY <2>1, <2>3 DEF DerivedIn
  <2>5. n + 1 \in 0 .. Len(Order) /\ DoneBefore(n + 1)'
    BY <1>1, <2>1, <2>2, <2>4, FieldDone
  <2>6. QED
    BY <1>1, <2>1, <2>5 DEF Deriving, ResultDerived
<1>4. CASE EnterField
  <2>1. /\ delta = 0 /\ origin # "none" /\ defaults' = entity[Field]
        /\ UNCHANGED <<entity, original, origin, todo, result, changed, loose>>
    BY <1>4 DEF EnterField, AtField
  <2>2. result' = << >> /\ Field' = Field
    BY <1>1, <2>1 DEF PassTypeOK, Field
  <2>3. ResultDerived'
    BY <2>2 DEF ResultDerived
  <2>4. QED
    BY <1>1, <2>1, <2>2, <2>3, SameFields DEF Deriving
<1>5. CASE Store \/ FailValue
  <2>1. /\ AtValue /\ Consult /\ delta \in Nat \ {0} /\ todo # << >> /\ Values \in Seq(FieldValue)
        /\ origin # "none"
    BY <1>1, <1>5, FieldFacts DEF Store, FailValue, AtValue, PassTypeOK, PassTypes
  <2>2. /\ delta' = delta + 1
        /\ UNCHANGED <<entity, original, origin, todo, defaults, changed, loose>>
    BY <1>5 DEF Store, FailValue, NextValue
  <2>3. Field' = Field /\ Values' = Values
    BY <2>2 DEF Field, Values
  <2>4. Values[delta] \in ToSet(Values)
    BY <2>1 DEF AtValue, ToSet
  <2>5. ResultDerived'
    <3>1. SUFFICES ASSUME Strict(Field), \A i \in 1 .. Len(asked') : asked'[i]
                   PROVE  \A i \in 1 .. Len(result') :
                             result'[i] = Null \/ Origin(result'[i]) \in ToSet(Values)
      BY <2>3 DEF ResultDerived, Strict
    <3>2. PICK b \in BOOLEAN : /\ asked' = Append(asked, b)
                               /\ b /\ geo' # Null => geo'.for = Values[delta]
      BY <1>1, <2>1, ConsultFacts
    <3>3. asked \in Seq(BOOLEAN)
      BY <1>1 DEF PassTypeOK
    <3>4. Len(asked') = Len(asked) + 1 /\ asked'[Len(asked) + 1] = b
          /\ \A i \in 1 .. Len(asked) : asked'[i] = asked[i]
      BY <3>2, <3>3
    <3>5. b /\ \A i \in 1 .. Len(asked) : asked[i]
      <4>1. Len(asked) + 1 \in 1 .. Len(asked') /\ \A i \in 1 .. Len(asked) : i \in 1 .. Len(asked')
        BY <3>3, <3>4
      <4>2. QED
        BY <3>1, <3>4, <4>1
    <3>6. \A i \in 1 .. Len(result) : result[i] = Null \/ Origin(result[i]) \in ToSet(Values)
      BY <2>1, <3>1, <3>5 DEF Deriving, ResultDerived
    <3>7. CASE Store
      BY <1>1, <2>4, <3>2, <3>5, <3>6, <3>7, StoreFacts
    <3>8. CASE FailValue
      <4>1. Fallback(delta) = Null
        BY <1>1, <2>1, <3>1, FallbackFacts DEF Strict
      <4>2. QED
        BY <1>1, <3>6, <3>8, <4>1, FailFacts
    <3>9. QED
      BY <1>5, <3>7, <3>8
  <2>6. QED
    BY <1>1, <2>1, <2>2, <2>3, <2>5, SameFields DEF Deriving
<1>6. CASE SetField
  <2>1. /\ delta # 0 /\ todo # << >> /\ origin # "none" /\ delta' = 0
        /\ entity' = [entity EXCEPT ![Field] = NotEmpty(result)]
        /\ todo' = Tail(todo) /\ changed' = Changed /\ UNCHANGED <<original, origin>>
        /\ loose' = IF \E i \in DOMAIN asked : ~asked[i] THEN loose \union {Field}
                    ELSE loose \ {Field}
    BY <1>1, <1>6 DEF SetField, PassTypes, PassTypeOK
  <2>2. PICK n \in 0 .. Len(Order) : DoneBefore(n)
    BY <2>1 DEF Deriving
  <2>3. Field \in Fields /\ Source[Field] \in Fields /\ Source[Field] # Field
    <3>1. n + 1 \in 1 .. Len(Order) /\ Field = Order[n + 1]
      BY <2>1, <2>2, NextField DEF DoneBefore
    <3>2. Source[Field] # Field
      BY <3>1, OrderFacts DEF SourcesFirst
    <3>3. QED
      BY <1>1, <2>1, <3>2, FieldFacts
  <2>4. /\ entity'[Field] = NotEmpty(result) /\ entity'[Source[Field]] = Values
        /\ \A f \in Fields : f # Field => entity'[f] = entity[f]
        /\ entity'[Field] = entity[Field] => entity' = entity
    BY <1>1, <2>1, <2>3 DEF PassTypeOK, Values
  <2>5. DerivedIn(entity', loose', Field)
    <3>1. SUFFICES ASSUME Strict(Field), Field \notin loose', NEW i \in DOMAIN NotEmpty(result)
                   PROVE  Origin(NotEmpty(result)[i]) \in ToSet(Values)
      BY <2>4 DEF DerivedIn
    <3>2. /\ result \in Seq(FieldValue \union {Null})
          /\ NotEmpty(result) \in Seq(FieldValue)
          /\ \A k \in 1 .. Len(NotEmpty(result)) :
                \E j \in 1 .. Len(result) : NotEmpty(result)[k] = result[j]
      BY <1>1, NotEmptyFacts DEF PassTypeOK
    <3>3. i \in 1 .. Len(NotEmpty(result)) /\ NotEmpty(result)[i] \in FieldValue
      BY <3>1, <3>2
    <3>4. PICK j \in 1 .. Len(result) : NotEmpty(result)[i] = result[j]
      BY <3>2, <3>3
    <3>5. result[j] # Null
      BY <3>3, <3>4, NullAssumption
    <3>6. asked \in Seq(BOOLEAN) /\ DOMAIN asked = 1 .. Len(asked)
      BY <1>1 DEF PassTypeOK
    <3>7. \A k \in 1 .. Len(asked) : asked[k]
      BY <2>1, <3>1, <3>6
    <3>8. QED
      BY <2>1, <3>1, <3>4, <3>5, <3>7 DEF Deriving, ResultDerived
  <2>6. n + 1 \in 0 .. Len(Order) /\ DoneBefore(n + 1)'
    BY <1>1, <2>1, <2>2, <2>4, <2>5, FieldDone
  <2>7. origin' = "queue" /\ ~changed' => entity' = original'
    BY <2>1, <2>4 DEF Deriving, Changed
  <2>8. QED
    BY <1>1, <2>1, <2>6, <2>7 DEF Deriving, ResultDerived
<1>7. CASE Finish
  <2>1. /\ origin # "none" /\ origin' = "none" /\ todo = << >> /\ delta' = delta
        /\ entity' = original' /\ loose' = loose
        /\ original' = entity \/ (original' = original /\ origin = "queue" /\ ~changed)
    BY <1>7 DEF Finish
  <2>2. delta = 0
    BY <1>1, <2>1 DEF PassTypeOK
  <2>3. original' = entity
    BY <2>1 DEF Deriving
  <2>4. \A f \in GeocodedFields : DerivedIn(entity, loose, f)
    <3>1. PICK n \in 0 .. Len(Order) : DoneBefore(n)
      BY <2>1 DEF Deriving
    <3>2. n = Len(Order)
      <4>1. Order \in Seq(GeocodedFields) /\ Len(Order) \in Nat
        BY OrderFacts
      <4>2. n < Len(Order) => Len(SubSeq(Order, n + 1, Len(Order))) = Len(Order) - n
        BY <4>1
      <4>3. Len(todo) = 0
        BY <2>1
      <4>4. QED
        BY <3>1, <4>1, <4>2, <4>3 DEF DoneBefore, TodoBehind
    <3>3. QED
      BY <3>1, <3>2, OrderFacts DEF DoneBefore
  <2>5. \A f \in GeocodedFields : DerivedIn(entity', loose', f)
    BY <2>1, <2>3, <2>4
  <2>6. QED
    BY <1>1, <2>1, <2>2, <2>5 DEF Deriving, ResultDerived
<1>8. CASE UNCHANGED passVars
  BY <1>1, <1>8, SameFields DEF passVars, local, Deriving, ResultDerived, Field, Values
<1>9. QED
  BY <1>2, <1>3, <1>4, <1>5, <1>6, <1>7, <1>8 DEF PassNext

(* For any chain of fields in the order of their dependence, any number of *)
(* values and any sequence of saves, in presave or by the worker, every    *)
(* stored value of a field that empties its failures derives from a value  *)
(* that its source holds now, unless a hook unset one of the values it was *)
(* set from (the skip conditions, the order of fields).                    *)
THEOREM AlwaysDerived ==
    ASSUME SourcesFirst
    PROVE  PassSpec => []Derived
<1>1. ASSUME PassInit
      PROVE  Deriving
  <2>1. PassTypes /\ origin = "none" /\ entity = original /\ delta = 0
    BY <1>1, PassTypesInitial DEF PassInit
  <2>2. ASSUME NEW f \in GeocodedFields
        PROVE  DerivedIn(entity, loose, f)
    <3>1. entity[f] = << >>
      BY <1>1, FieldAssumption DEF PassInit
    <3>2. DOMAIN << >> = {}
      OBVIOUS
    <3>3. QED
      BY <3>1, <3>2 DEF DerivedIn
  <2>3. QED
    BY <2>1, <2>2 DEF Deriving, ResultDerived
<1>2. Deriving /\ [PassNext]_passVars => Deriving'
  BY DerivingStep
<1>3. Deriving => Derived
  BY DEF Deriving, Derived, DerivedIn, Strict
<1>4. QED
  BY <1>1, <1>2, <1>3, PTL DEF PassSpec

=============================================================================
