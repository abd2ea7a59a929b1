---------------------------- MODULE GeocodeQueue ----------------------------
(***************************************************************************)
(* The geocoder_field module: what happens to the geocoded field of a      *)
(* content entity from the moment somebody saves the entity until its      *)
(* coordinates match its address again.                                    *)
(*                                                                         *)
(*   geocoder_field_entity_presave()   geocoder_field.module               *)
(*   _geocoder_field_process()         geocoder_field.module               *)
(*   GeocoderField::processItem()      src/Plugin/QueueWorker              *)
(*   WorkspacePublishingSubscriber     src/EventSubscriber                 *)
(*                                                                         *)
(* An entity has one source field and one geocoded field of one value      *)
(* each; module GeocodeFieldProcess treats several values.  The            *)
(* coordinates that a provider gives for source s are named s, so an       *)
(* entity is up to date when its two fields are equal.  The database, the  *)
(* queue backend and the entity storage are Drupal core: they are modelled *)
(* from the calls that the module makes.                                   *)
(***************************************************************************)
EXTENDS Naturals, FiniteSets

CONSTANTS
    Entities,           \* content entities, named by their UUID
    Sources,            \* values of the source field (addresses)
    Procs,              \* PHP processes: web requests, cron and drush runs
    Editors,            \* processes that save entities
    Workers,            \* processes that run the queue worker
    UseQueue,           \* geocoder.settings:queue
    PresaveDisabled,    \* geocoder.settings:geocoder_presave_disabled
    Handling,           \* failure.handling of the field, "preserve" or "empty"
    SkipNotEmpty,       \* skip_not_empty_value of the field
    QueueInTransaction, \* the queue shares the transaction of the entity save
    MaxItems,           \* bound: queue items ever created
    MaxFaults,          \* bound: crashed processes and failed saves
    NoValue,            \* an empty field
    Absent,             \* the entity has not been created yet
    Deleted,            \* the entity has been deleted
    NoEntity, NoItem    \* the process works on nothing

ASSUME ProcsAssumption == Editors \subseteq Procs /\ Workers \subseteq Procs

ASSUME ConfigAssumption ==
    /\ UseQueue \in BOOLEAN
    /\ PresaveDisabled \in BOOLEAN
    /\ SkipNotEmpty \in BOOLEAN
    /\ QueueInTransaction \in BOOLEAN
    /\ Handling \in {"preserve", "empty"}

ASSUME BoundAssumption == MaxItems \in Nat /\ MaxFaults \in Nat

-----------------------------------------------------------------------------
(* Values                                                                  *)

Value == Sources \union {NoValue}

(* Why the coordinates of a pair may differ from its source although no    *)
(* queue item is going to repair them.  A ghost: the code keeps no trace.  *)
Causes == {"disabled",   \* presave was switched off
           "flagged",    \* the static flag of the process was already set
           "failed",     \* no provider found the source
           "kept",       \* the field settings say to keep the old value
           "overtaken",  \* synchronous save of a copy that was out of date
           "raced"}      \* the item was consumed before the entity was saved

Pair == [src : Value, geo : Value, why : SUBSET Causes]

Blank == [src |-> NoValue, geo |-> NoValue, why |-> {}]

Item == [id : Nat, ent : Entities]

ASSUME SentinelAssumption ==
    /\ NoValue \notin Sources
    /\ Absent \notin Pair /\ Deleted \notin Pair /\ Absent # Deleted
    /\ NoEntity \notin Entities
    /\ NoItem \notin Item

Location == {"idle",       \* nothing in hand
             "editing",    \* an entity was loaded and is being changed
             "saving",     \* hook_entity_presave is over, the row is not written
             "claimed",    \* a queue item is leased
             "geocoded",   \* processItem is about to call $entity->save()
             "saved"}      \* processItem returned, the item is not deleted

VARIABLES
    stored,     \* the entities in the database
    items,      \* rows of the queue
    leased,     \* rows whose lease has not expired
    nextId,     \* serial number of the next row
    flag,       \* drupal_static 'geocoder_queued_entity:*' of each process
    publishing, \* processes with the request attribute geocoder_presave_disabled
    pc, target, copy, job,  \* per process: location, entity, its copy, its item
    faults      \* crashes and failed saves so far

procVars == <<flag, publishing, pc, target, copy, job>>
vars == <<stored, items, leased, nextId, procVars, faults>>

TypeOK ==
    /\ stored \in [Entities -> Pair \union {Absent, Deleted}]
    /\ items \in SUBSET Item
    /\ leased \in SUBSET Item
    /\ nextId \in Nat
    /\ flag \in [Procs -> SUBSET Entities]
    /\ publishing \in SUBSET Procs
    /\ pc \in [Procs -> Location]
    /\ target \in [Procs -> Entities \union {NoEntity}]
    /\ copy \in [Procs -> Pair]
    /\ job \in [Procs -> Item \union {NoItem}]
    /\ faults \in Nat

Init ==
    /\ stored = [e \in Entities |-> Absent]
    /\ items = {} /\ leased = {} /\ nextId = 1
    /\ flag = [p \in Procs |-> {}]
    /\ publishing = {}
    /\ pc = [p \in Procs |-> "idle"]
    /\ target = [p \in Procs |-> NoEntity]
    /\ copy = [p \in Procs |-> Blank]
    /\ job = [p \in Procs |-> NoItem]
    /\ faults = 0

-----------------------------------------------------------------------------
(* Helpers                                                                 *)

Exists(e) == stored[e] \in Pair

UpToDate(pair) == pair.geo = pair.src

WithCauses(pair, causes) == [pair EXCEPT !.why = causes]
Note(pair, cause) == WithCauses(pair, pair.why \union {cause})

(* The process puts down what it has in hand.                              *)
Release(p) ==
    /\ pc' = [pc EXCEPT ![p] = "idle"]
    /\ target' = [target EXCEPT ![p] = NoEntity]
    /\ copy' = [copy EXCEPT ![p] = Blank]
    /\ job' = [job EXCEPT ![p] = NoItem]

(* Mutant of Uncommitted: workers read uncommitted rows.                   *)
CommittedAtOnce(i) == FALSE

(* A row created inside a transaction that is still open is seen by nobody *)
(* else.                                                                   *)
Uncommitted(i) ==
    QueueInTransaction /\ \E p \in Procs : pc[p] = "saving" /\ job[p] = i

(* Some process has finished working on the row and only has to delete it. *)
Spent(i) == \E p \in Procs : pc[p] = "saved" /\ job[p] = i

(* The first lines of hook_entity_presave: the entity is marked as being   *)
(* saved by the queue, or presave is switched off.                         *)
PresaveOff(p) == PresaveDisabled \/ p \in publishing
PresaveSkips(p, e) == e \in flag[p] \/ PresaveOff(p)

NewItem(e) == [id |-> nextId, ent |-> e]

-----------------------------------------------------------------------------
(* _geocoder_field_process                                                 *)

(* The source is empty and an empty source must not erase the coordinates. *)
SourceCleared(pair) == pair.src = NoValue /\ Handling = "preserve"

(* $entity->original has the same source and there are coordinates.        *)
SourceUnchanged(pair, original) ==
    /\ original \in Pair
    /\ pair.geo # NoValue
    /\ pair.src = original.src

AlreadyFilled(pair) == SkipNotEmpty /\ pair.geo # NoValue

(* An empty source has nothing to loop over and leaves an empty result.    *)
Geocoded(pair) == [pair EXCEPT !.geo = pair.src, !.why = {}]

NotGeocoded(pair) ==
    Note([pair EXCEPT !.geo = IF Handling = "preserve" THEN @ ELSE NoValue],
         "failed")

(* The pair after one call; found says whether some provider answers.      *)
Processed(pair, original, found) ==
    IF \/ SourceCleared(pair)
       \/ AlreadyFilled(pair) /\ ~SourceUnchanged(pair, original)
    THEN Note(pair, "kept")
    ELSE IF SourceUnchanged(pair, original) THEN pair
    ELSE IF found \/ pair.src = NoValue THEN Geocoded(pair)
    ELSE NotGeocoded(pair)

-----------------------------------------------------------------------------
(* Saving an entity                                                        *)

(* Mutant of BeginEdit: the entity is not checked after loading it.        *)
BeginEditUnchecked(p, e) ==
    /\ p \in Editors
    /\ pc[p] = "idle"
    /\ pc' = [pc EXCEPT ![p] = "editing"]
    /\ target' = [target EXCEPT ![p] = e]
    /\ copy' = [copy EXCEPT ![p] = stored[e]]
    /\ UNCHANGED <<stored, items, leased, nextId, flag, publishing, job, faults>>

(* Somebody loads an entity to change it, or prepares a new one.           *)
BeginEdit(p, e) ==
    /\ p \in Editors
    /\ pc[p] = "idle"
    /\ \/ Exists(e)
       \/ stored[e] = Absent /\ \A q \in Procs : target[q] # e
    /\ pc' = [pc EXCEPT ![p] = "editing"]
    /\ target' = [target EXCEPT ![p] = e]
    /\ copy' = [copy EXCEPT ![p] = IF Exists(e) THEN stored[e] ELSE Blank]
    /\ UNCHANGED <<stored, items, leased, nextId, flag, publishing, job, faults>>

(* The copy of the process with the new source; save() is called on it.    *)
Draft(p, s) == [copy[p] EXCEPT !.src = s]

(* hook_entity_presave returns before doing anything.                      *)
PresaveSkipped(p, s) ==
    /\ pc[p] = "editing"
    /\ PresaveSkips(p, target[p])
    /\ pc' = [pc EXCEPT ![p] = "saving"]
    /\ copy' = [copy EXCEPT ![p] =
                  Note(Draft(p, s), IF target[p] \in flag[p]
                                    THEN "flagged" ELSE "disabled")]
    /\ UNCHANGED <<stored, items, leased, nextId, flag, publishing, target, job,
                   faults>>

(* Mutant of PresaveQueued: no second item while one of the entity exists. *)
PresaveQueuedOnce(p, s) ==
    /\ pc[p] = "editing"
    /\ UseQueue
    /\ ~PresaveSkips(p, target[p])
    /\ nextId <= MaxItems
    /\ pc' = [pc EXCEPT ![p] = "saving"]
    /\ copy' = [copy EXCEPT ![p] = WithCauses(Draft(p, s), {})]
    /\ IF \E i \in items : i.ent = target[p]
       THEN UNCHANGED <<items, job, nextId>>
       ELSE /\ items' = items \union {NewItem(target[p])}
            /\ job' = [job EXCEPT ![p] = NewItem(target[p])]
            /\ nextId' = nextId + 1
    /\ UNCHANGED <<stored, leased, flag, publishing, target, faults>>

(* hook_entity_presave creates a queue item.                               *)
PresaveQueued(p, s) ==
    /\ pc[p] = "editing"
    /\ UseQueue
    /\ ~PresaveSkips(p, target[p])
    /\ nextId <= MaxItems
    /\ pc' = [pc EXCEPT ![p] = "saving"]
    /\ copy' = [copy EXCEPT ![p] = WithCauses(Draft(p, s), {})]
    /\ items' = items \union {NewItem(target[p])}
    /\ job' = [job EXCEPT ![p] = NewItem(target[p])]
    /\ nextId' = nextId + 1
    /\ UNCHANGED <<stored, leased, flag, publishing, target, faults>>

(* Mutant of PresaveSync: the value that was loaded is geocoded.           *)
PresaveSyncLoaded(p, s, found) ==
    /\ pc[p] = "editing"
    /\ ~UseQueue
    /\ ~PresaveSkips(p, target[p])
    /\ LET result == Processed(copy[p], stored[target[p]], found)
       IN copy' = [copy EXCEPT ![p] = [result EXCEPT !.src = s]]
    /\ pc' = [pc EXCEPT ![p] = "saving"]
    /\ UNCHANGED <<stored, items, leased, nextId, flag, publishing, target, job,
                   faults>>

(* hook_entity_presave geocodes at once.  $entity->original is the row that *)
(* is stored now, not the one that this process loaded.                    *)
PresaveSync(p, s, found) ==
    /\ pc[p] = "editing"
    /\ ~UseQueue
    /\ ~PresaveSkips(p, target[p])
    /\ LET draft == Draft(p, s)
           original == stored[target[p]]
           result == Processed(draft, original, found)
           missed == SourceUnchanged(draft, original) /\ s # copy[p].src
       IN copy' = [copy EXCEPT ![p] =
                     IF missed THEN Note(result, "overtaken") ELSE result]
    /\ pc' = [pc EXCEPT ![p] = "saving"]
    /\ UNCHANGED <<stored, items, leased, nextId, flag, publishing, target, job,
                   faults>>

(* The entity storage writes the row and commits.  Nothing is written for  *)
(* an entity that was deleted in the meantime.                             *)
Write(p) ==
    /\ pc[p] = "saving"
    /\ LET e == target[p]
           raced == job[p] # NoItem /\ (job[p] \notin items \/ Spent(job[p]))
       IN stored' = IF stored[e] = Deleted THEN stored
                    ELSE [stored EXCEPT ![e] =
                            IF raced THEN Note(copy[p], "raced") ELSE copy[p]]
    /\ Release(p)
    /\ UNCHANGED <<items, leased, nextId, flag, publishing, faults>>

DeleteEntity(e) ==
    /\ Exists(e)
    /\ stored' = [stored EXCEPT ![e] = Deleted]
    /\ UNCHANGED <<items, leased, nextId, procVars, faults>>

(* WorkspacePublishingSubscriber switches presave off for the request while *)
(* a workspace is published.                                               *)
OnPrePublish(p) ==
    /\ p \in Editors
    /\ pc[p] = "idle"
    /\ publishing' = publishing \union {p}
    /\ UNCHANGED <<stored, items, leased, nextId, flag, pc, target, copy, job, faults>>

OnPostPublish(p) ==
    /\ p \in publishing
    /\ pc[p] = "idle"
    /\ publishing' = publishing \ {p}
    /\ UNCHANGED <<stored, items, leased, nextId, flag, pc, target, copy, job, faults>>

-----------------------------------------------------------------------------
(* The queue worker                                                        *)

(* Mutant of ClaimItem: rows of entities that this process has saved stay. *)
ClaimItemUnflagged(p, i) ==
    /\ p \in Workers
    /\ pc[p] = "idle"
    /\ i \in items \ leased
    /\ i.ent \notin flag[p]
    /\ ~Uncommitted(i)
    /\ leased' = leased \union {i}
    /\ pc' = [pc EXCEPT ![p] = "claimed"]
    /\ job' = [job EXCEPT ![p] = i]
    /\ target' = [target EXCEPT ![p] = i.ent]
    /\ UNCHANGED <<stored, items, nextId, flag, publishing, copy, faults>>

(* The queue runner leases a row.                                          *)
ClaimItem(p, i) ==
    /\ p \in Workers
    /\ pc[p] = "idle"
    /\ i \in items \ leased
    /\ ~Uncommitted(i)
    /\ leased' = leased \union {i}
    /\ pc' = [pc EXCEPT ![p] = "claimed"]
    /\ job' = [job EXCEPT ![p] = i]
    /\ target' = [target EXCEPT ![p] = i.ent]
    /\ UNCHANGED <<stored, items, nextId, flag, publishing, copy, faults>>

(* processItem finds no entity with this UUID and returns.                 *)
ProcessNothing(p) ==
    /\ pc[p] = "claimed"
    /\ ~Exists(target[p])
    /\ pc' = [pc EXCEPT ![p] = "saved"]
    /\ UNCHANGED <<stored, items, leased, nextId, flag, publishing, target, copy, job,
                   faults>>

(* What processItem makes of the stored pair: there is no original.        *)
Result(p, found) == Processed(stored[target[p]], Absent, found)

Changes(p, found) == Result(p, found).geo # stored[target[p]].geo

(* processItem loads the entity and geocodes it; the value is what it was. *)
ProcessUnchanged(p, found) ==
    /\ pc[p] = "claimed"
    /\ Exists(target[p])
    /\ ~Changes(p, found)
    /\ stored' = [stored EXCEPT ![target[p]] = WithCauses(@, Result(p, found).why)]
    /\ pc' = [pc EXCEPT ![p] = "saved"]
    /\ UNCHANGED <<items, leased, nextId, flag, publishing, target, copy, job, faults>>

(* The entity was changed, but this process has saved it for the queue     *)
(* before: the result is dropped and the item counts as processed.         *)
ProcessDropped(p, found) ==
    /\ pc[p] = "claimed"
    /\ Exists(target[p])
    /\ Changes(p, found)
    /\ target[p] \in flag[p]
    /\ stored' = [stored EXCEPT ![target[p]] = Note(@, "flagged")]
    /\ pc' = [pc EXCEPT ![p] = "saved"]
    /\ UNCHANGED <<items, leased, nextId, flag, publishing, target, copy, job, faults>>

(* Mutant of ProcessChanged: the flag is forgotten.                        *)
ProcessChangedUnflagged(p, found) ==
    /\ pc[p] = "claimed"
    /\ Exists(target[p])
    /\ Changes(p, found)
    /\ copy' = [copy EXCEPT ![p] = Result(p, found)]
    /\ pc' = [pc EXCEPT ![p] = "geocoded"]
    /\ UNCHANGED <<stored, items, leased, nextId, flag, publishing, target, job, faults>>

(* The entity was changed: it is flagged and will be saved.                *)
ProcessChanged(p, found) ==
    /\ pc[p] = "claimed"
    /\ Exists(target[p])
    /\ Changes(p, found)
    /\ target[p] \notin flag[p]
    /\ flag' = [flag EXCEPT ![p] = @ \union {target[p]}]
    /\ copy' = [copy EXCEPT ![p] = Result(p, found)]
    /\ pc' = [pc EXCEPT ![p] = "geocoded"]
    /\ UNCHANGED <<stored, items, leased, nextId, publishing, target, job, faults>>

(* $entity->save() in processItem: the whole copy is written, after the    *)
(* same presave hook.                                                      *)
WorkerSave(p) ==
    /\ pc[p] = "geocoded"
    /\ LET e == target[p]
           requeue == UseQueue /\ ~PresaveSkips(p, e)
       IN /\ stored' = IF stored[e] = Deleted THEN stored
                       ELSE [stored EXCEPT ![e] = copy[p]]
          /\ items' = IF requeue THEN items \union {NewItem(e)} ELSE items
          /\ nextId' = IF requeue THEN nextId + 1 ELSE nextId
    /\ copy' = [copy EXCEPT ![p] = Blank]
    /\ pc' = [pc EXCEPT ![p] = "saved"]
    /\ UNCHANGED <<leased, flag, publishing, target, job, faults>>

(* $entity->save() throws: the flag stays set and the row stays leased.    *)
WorkerSaveFails(p) ==
    /\ pc[p] = "geocoded"
    /\ faults < MaxFaults
    /\ faults' = faults + 1
    /\ Release(p)
    /\ UNCHANGED <<stored, items, leased, nextId, flag, publishing>>

(* processItem has returned: the queue runner deletes the row.             *)
DeleteItem(p) ==
    /\ pc[p] = "saved"
    /\ items' = items \ {job[p]}
    /\ leased' = leased \ {job[p]}
    /\ Release(p)
    /\ UNCHANGED <<stored, nextId, flag, publishing, faults>>

(* A lease runs out, whether or not its holder is still at work.           *)
LeaseExpires(i) ==
    /\ i \in leased
    /\ leased' = leased \ {i}
    /\ UNCHANGED <<stored, items, nextId, procVars, faults>>

-----------------------------------------------------------------------------
(* Processes                                                               *)

(* drupal_static and the request attributes die with the process.          *)
Forget(p) ==
    /\ flag' = [flag EXCEPT ![p] = {}]
    /\ publishing' = publishing \ {p}

(* A process ends, possibly without saving what it loaded; its slot stands *)
(* for the next process.                                                   *)
EndProcess(p) ==
    /\ pc[p] \in {"idle", "editing"}
    /\ Forget(p)
    /\ Release(p)
    /\ UNCHANGED <<stored, items, leased, nextId, faults>>

(* A process dies at work; an open transaction is rolled back.             *)
Crash(p) ==
    /\ pc[p] \notin {"idle", "editing"}
    /\ faults < MaxFaults
    /\ faults' = faults + 1
    /\ items' = IF pc[p] = "saving" /\ QueueInTransaction
                THEN items \ {job[p]} ELSE items
    /\ Forget(p)
    /\ Release(p)
    /\ UNCHANGED <<stored, leased, nextId>>

-----------------------------------------------------------------------------

Presave(p) ==
    \E s \in Value :
        \/ PresaveSkipped(p, s)
        \/ PresaveQueued(p, s)
        \/ \E found \in BOOLEAN : PresaveSync(p, s, found)

ProcessItem(p) ==
    \/ ProcessNothing(p)
    \/ \E found \in BOOLEAN :
          \/ ProcessUnchanged(p, found)
          \/ ProcessDropped(p, found)
          \/ ProcessChanged(p, found)

Next ==
    \/ \E p \in Procs :
          \/ \E e \in Entities : BeginEdit(p, e)
          \/ Presave(p)
          \/ Write(p)
          \/ OnPrePublish(p)
          \/ OnPostPublish(p)
          \/ \E i \in items : ClaimItem(p, i)
          \/ ProcessItem(p)
          \/ WorkerSave(p)
          \/ WorkerSaveFails(p)
          \/ DeleteItem(p)
          \/ EndProcess(p)
          \/ Crash(p)
    \/ \E e \in Entities : DeleteEntity(e)
    \/ \E i \in leased : LeaseExpires(i)

Spec == Init /\ [][Next]_vars

(* A process that started a step finishes it, leases run out, cron comes   *)
(* back, and no request lasts for ever.  Nobody has to edit anything.      *)
Fairness ==
    /\ \A p \in Procs : /\ WF_vars(Write(p))
                        /\ WF_vars(pc[p] = "editing" /\ EndProcess(p))
                        /\ WF_vars(ProcessItem(p))
                        /\ WF_vars(WorkerSave(p))
                        /\ WF_vars(DeleteItem(p))
    /\ \A p \in Workers : WF_vars(\E i \in items : ClaimItem(p, i))
    /\ WF_vars(\E i \in leased : LeaseExpires(i))

FairSpec == Spec /\ Fairness

-----------------------------------------------------------------------------
(* Properties                                                              *)

Outdated(e) == Exists(e) /\ ~UpToDate(stored[e])

(* A row of the queue that exists for everybody and will still be looked at. *)
Pending(i) == i \in items /\ ~Spent(i) /\ ~Uncommitted(i)

Owed(e) == \E i \in items : i.ent = e /\ Pending(i)

(* What excuses coordinates that do not belong to their source.  An item    *)
(* consumed ahead of its save is no excuse where the queue takes part in   *)
(* the transaction of the save.                                            *)
Excuses == IF QueueInTransaction THEN Causes \ {"raced"} ELSE Causes

Excused(pair) == pair.why \intersect Excuses # {}

(* The core promise of presave and worker: an entity whose coordinates do  *)
(* not belong to its source is still in the queue, or one of the listed    *)
(* causes took its item away since the last queued save.  Concurrent saves,*)
(* expired leases, crashes and redelivery lose no entity silently; the     *)
(* item that presave creates before the row is written is consumed too     *)
(* early only where the queue does not share the transaction.              *)
StaleIsExplained ==
    \A e \in Entities : Outdated(e) => Excused(stored[e]) \/ Owed(e)

(* The save that processItem makes never feeds its own queue: presave sees *)
(* the flag which processItem has set.                                     *)
WorkerNeverRequeues == [][\A p \in Procs : WorkerSave(p) => UNCHANGED items]_vars

(* The contract of geocoder_field as seen from outside: GeocodeContract    *)
(* with the status of each entity read off the stored pair and the queue.  *)
StatusOf(e) ==
    IF stored[e] = Absent THEN "absent"
    ELSE IF stored[e] = Deleted THEN "deleted"
    ELSE IF UpToDate(stored[e]) THEN "settled"
    ELSE IF Owed(e) THEN "owed"
    ELSE IF Excused(stored[e]) THEN "excused"
    ELSE "lost"

Contract == INSTANCE GeocodeContract WITH status <- [e \in Entities |-> StatusOf(e)]

(* Presave hook, queue and worker together implement the contract: every   *)
(* entity is accounted for after every step, and deletion is final.        *)
ImplementsContract == Contract!Spec

(* ... and under fair scheduling every debt is settled.                    *)
ImplementsFairContract == Contract!FairSpec

(* What the schema says of the queue setting: worker and cron process the  *)
(* geocoder data.  So a queued save ends with the coordinates of its       *)
(* source, unless the providers or the settings of the field forbid it.    *)
QueueProcessesTheData ==
    \A e \in Entities :
        Outdated(e) => \/ stored[e].why \intersect {"disabled", "failed", "kept"} # {}
                       \/ Owed(e)

=============================================================================
