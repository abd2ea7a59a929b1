------------------------- MODULE CtoolsWizardProofs -------------------------
(***************************************************************************)
(* Theorems about CtoolsWizard for any number of tabs, machine names and   *)
(* steps, and every interleaving of their requests with each other and     *)
(* with what happens outside of the wizard.                                *)
(***************************************************************************)
EXTENDS CtoolsWizard, TLAPS

(* What a tab is doing agrees with what it knows.                          *)
TabOK(t) ==
    /\ request[t] = "none" => machine_name[t] = None
    /\ request[t] \notin {"none", "page"} => machine_name[t] \in Ids
    /\ machine_name[t] = None => step[t] = 1
    /\ request[t] \in {"none", "page"} => want[t] = "get"
    /\ request[t] \in {"check", "reread", "absent", "init", "built", "unnamed"} =>
          want[t] # "condition"
    /\ request[t] \in {"empty", "validated"} =>
          want[t] \in {"next", "previous", "finish"}
    /\ request[t] = "modal" => want[t] = "condition"
    /\ want[t] = "next" => step[t] < LastStep
    /\ want[t] = "previous" => step[t] > 1
    /\ want[t] # "get" /\ request[t] \notin {"error", "delete"} =>
          want[t] = "previous" \/ made[t] < MaxEdits

(* A request has saved the entity and not yet deleted the values.          *)
Deleting(m) == \E q \in Tabs : request[q] = "delete" /\ machine_name[q] = m

(* Values that can be saved, as far as nobody has changed anything under   *)
(* an open tab.                                                            *)
Sound(values, m) ==
    /\ values # None /\ values.entity # "missing"
    /\ values.entity = "new" /\ saved[m] # None => Deleting(m)

StoreSound ==
    \A m \in Ids \ overlapped : tempstore[m] # None => Sound(tempstore[m], m)

(* What a request relies on, as far as that.  A link to nothing leads to an*)
(* error, and no further.                                                  *)
Stray(t, m) == request[t] \in {"check", "absent", "error"} /\ ~CanInit(m)
Ready(t, m) ==
    /\ request[t] \in {"check", "absent"} => CanInit(m)
    /\ request[t] \in {"page", "reread", "built", "delete"} => tempstore[m] # None
    /\ request[t] \notin {"empty", "unnamed"}
    /\ request[t] = "built" /\ want[t] # "get" => Sound(cached[t], m)
    /\ request[t] \in {"init", "validated", "modal"} => Sound(cached[t], m)
    /\ request[t] = "validated" /\ want[t] # "next" => tempstore[m] # None
    /\ request[t] = "error" => Deleting(m)
TabSound(t) ==
    /\ t \in astray => request[t] \notin {"none", "page"}
    /\ \A m \in Ids \ overlapped : machine_name[t] = m =>
          IF t \in astray THEN Stray(t, m) ELSE Ready(t, m)

(* What a request is about to write, or has saved; a submit that has found *)
(* no values knows of none that are waiting.                               *)
Read(t) == Edits(cached[t])
Knows(t) == IF request[t] = "delete" THEN Read(t) \union Written(t).edits ELSE Read(t)
Blind(t) == cached[t] = None /\ request[t] \in {"built", "unnamed", "empty"}

(* Whatever is current and not in it has been missed.                      *)
TabKnows(t) ==
    AtWork(t) /\ ~Adding(t) =>
        IF Blind(t) THEN Edits(tempstore[machine_name[t]]) \subseteq missed[t]
        ELSE Current(machine_name[t]) \subseteq missed[t] \union Knows(t)

IInv ==
    /\ TypeOK /\ StoreSound
    /\ \A t \in Tabs : TabOK(t) /\ TabSound(t) /\ TabKnows(t)

-----------------------------------------------------------------------------
(* Values                                                                  *)

LEMMA NewEditFacts ==
    ASSUME TypeOK, NEW t \in Tabs, NEW s \in Steps \union {Conditions}
    PROVE  NewEdit(t, s) \in Edit
  BY BoundAssumption DEF NewEdit, Edit, TypeOK

LEMMA WithFacts ==
    ASSUME NEW v \in Values \union {None}, NEW e \in Edit
    PROVE  /\ With(v, e) \in Values /\ With(v, e).edits \subseteq Edit
           /\ e \in With(v, e).edits
           /\ v # None => With(v, e).entity = v.entity
  BY DEF With, Replace, Values, Kinds

LEMMA WrittenIsValue ==
    ASSUME TypeOK, NEW t \in Tabs, NEW s \in Steps \union {Conditions}
    PROVE  With(cached[t], NewEdit(t, s)) \in Values
  BY NewEditFacts, WithFacts DEF TypeOK

(* What a step takes from the values is what it wrote before.              *)
LEMMA WithKeeps ==
    ASSUME NEW v \in Values, v # None, NEW e \in Edit, NEW x \in v.edits
    PROVE  \/ x \in With(v, e).edits
           \/ x.slot = e.slot /\ x.slot # Conditions
  BY DEF With, Replace, Values

LEMMA EntitiesAreValues ==
    Entities \subseteq Values /\ \A v \in Values : Entity(v.edits) \in Entities
  BY DEF Entities, Values, Kinds, Entity

LEMMA CurrentFacts ==
    ASSUME TypeOK, NEW m \in Ids
    PROVE  Current(m) \subseteq Edit
  BY DEF Current, Edits, TypeOK, Values, Entities

-----------------------------------------------------------------------------
(* A tab and the others                                                    *)

(* A request reads and writes what belongs to its machine name only, and   *)
(* writes the entity or the values.                                        *)
Alone(t) ==
    /\ \A q \in Tabs \ {t} :
          /\ request'[q] = request[q] /\ want'[q] = want[q]
          /\ machine_name'[q] = machine_name[q] /\ step'[q] = step[q]
          /\ cached'[q] = cached[q] /\ made'[q] = made[q]
    /\ \A id \in Ids : id # machine_name[t] =>
          saved'[id] = saved[id] /\ tempstore'[id] = tempstore[id]
    /\ saved' = saved \/ tempstore' = tempstore
    /\ request'[t] # request[t]

StateOK ==
    /\ saved \in [Ids -> Entities \union {None}]
    /\ tempstore \in [Ids -> Values \union {None}]
    /\ request \in [Tabs -> Requests] /\ want \in [Tabs -> Purposes]
    /\ machine_name \in [Tabs -> Ids \union {None}] /\ step \in [Tabs -> Steps]
    /\ cached \in [Tabs -> Values \union {None}]
    /\ made \in [Tabs -> 0 .. MaxEdits] /\ outside \in 0 .. MaxOutside

Orderly(t) == StateOK' /\ TabOK(t)' /\ Alone(t)

LEMMA OpenStep ==
    ASSUME TypeOK, NEW t \in Tabs, TabOK(t), OpenAdd(t) \/ OpenEdit(t)
    PROVE  Orderly(t)
<1>1. CASE OpenAdd(t)
  BY <1>1, StepAssumption DEF OpenAdd, Go, TypeOK, StateOK, TabOK, Alone, Orderly, Requests, Steps
<1>2. CASE OpenEdit(t)
  BY <1>2, NamesAssumption DEF OpenEdit, Go, TypeOK, StateOK, TabOK, Alone, Orderly, Requests, Purposes, Steps
<1>3. QED
  BY <1>1, <1>2

LEMMA SubmitStep ==
    ASSUME TypeOK, NEW t \in Tabs, TabOK(t), Submit(t) \/ SubmitName(t)
    PROVE  Orderly(t)
<1>1. CASE Submit(t)
  BY <1>1, StepAssumption DEF Submit, Go, TypeOK, StateOK, TabOK, Alone, Orderly, Requests, Purposes, Steps
<1>2. CASE SubmitName(t)
  <2>1. Fresh \in Values
    BY DEF Fresh, Values, Kinds
  <2>2. QED
    BY <1>2, <2>1, StepAssumption, NamesAssumption DEF SubmitName, Go, TypeOK, StateOK, TabOK, Alone, Orderly, Requests, Purposes, Steps
<1>3. QED
  BY <1>1, <1>2

LEMMA ReadStep ==
    ASSUME TypeOK, NEW t \in Tabs, TabOK(t),
           Check(t) \/ Reread(t) \/ Initialise(t) \/ StoreInitial(t) \/ Populate(t)
           \/ GetFormId(t) \/ InitFormId(t)
    PROVE  Orderly(t)
<1>2. CASE Check(t)
  BY <1>2, NamesAssumption DEF Check, Go, TypeOK, StateOK, TabOK, Alone, Orderly, Requests, Purposes
<1>3. CASE Reread(t)
  BY <1>3, NamesAssumption DEF Reread, Build, Go, TypeOK, StateOK, TabOK, Alone, Orderly, Requests, Purposes
<1>4. CASE Initialise(t)
  BY <1>4, NamesAssumption, EntitiesAreValues DEF Initialise, InitValues, Go, TypeOK, StateOK, TabOK, Alone, Orderly, Requests, Purposes
<1>5. CASE StoreInitial(t)
  BY <1>5, NamesAssumption DEF StoreInitial, Build, Go, TypeOK, StateOK, TabOK, Alone, Orderly, Requests, Purposes
<1>6. CASE Populate(t)
  BY <1>6, NamesAssumption, EntitiesAreValues DEF Populate, InitValues, Go, TypeOK, StateOK, TabOK, Alone, Orderly, Requests, Purposes
<1>7. CASE GetFormId(t) \/ InitFormId(t)
  BY <1>7, NamesAssumption DEF GetFormId, InitFormId, Form, Go, TypeOK, StateOK, TabOK, Alone, Orderly, Requests, Purposes
<1>8. QED
  BY <1>2, <1>3, <1>4, <1>5, <1>6, <1>7

LEMMA WriteStep ==
    ASSUME TypeOK, NEW t \in Tabs, TabOK(t),
           Previous(t) \/ Next(t) \/ Save(t) \/ DeleteValues(t)
           \/ OpenModal(t) \/ StoreCondition(t) \/ Leave(t)
    PROVE  Orderly(t)
<1>1. \A s \in Steps \union {Conditions} : With(cached[t], NewEdit(t, s)) \in Values
  BY WrittenIsValue
<1>3. CASE Previous(t)
  BY <1>3, NamesAssumption, StepAssumption DEF Previous, Redirect, Go, TypeOK, StateOK, TabOK, Alone, Orderly, Requests, Purposes, Steps
<1>4. CASE Next(t)
  BY <1>1, <1>4, NamesAssumption, StepAssumption, BoundAssumption DEF Next, Redirect, Go, TypeOK, StateOK, TabOK, Alone, Orderly, Requests, Purposes, Steps
<1>5. CASE Save(t)
  <2>1. Entity(With(cached[t], NewEdit(t, step[t])).edits) \in Entities
    BY <1>1, EntitiesAreValues DEF TypeOK
  <2>2. /\ request[t] = "validated" /\ want[t] = "finish" /\ made[t] < MaxEdits
        /\ machine_name[t] \in Ids
    BY <1>5 DEF Save, TabOK
  <2>3. StateOK'
    BY <1>5, <2>1, <2>2, BoundAssumption DEF Save, Go, TypeOK, StateOK, Requests
  <2>4. TabOK(t)' /\ Alone(t)
    BY <1>5, <2>2, NamesAssumption DEF Save, Go, TypeOK, TabOK, Alone
  <2>5. QED
    BY <2>3, <2>4 DEF Orderly
<1>6. CASE DeleteValues(t)
  BY <1>6, NamesAssumption, StepAssumption DEF DeleteValues, Close, Go, TypeOK, StateOK, TabOK, Alone, Orderly, Requests, Purposes, Steps
<1>7. CASE OpenModal(t)
  BY <1>7, NamesAssumption, StepAssumption DEF OpenModal, Go, TypeOK, StateOK, TabOK, Alone, Orderly, Requests, Purposes, Steps
<1>8. CASE StoreCondition(t)
  <2>1. With(cached[t], NewEdit(t, Conditions)) \in Values
    BY <1>1
  <2>2. /\ request[t] = "modal" /\ want[t] = "condition" /\ made[t] < MaxEdits
        /\ machine_name[t] \in Ids
    BY <1>8 DEF StoreCondition, TabOK
  <2>3. StateOK'
    BY <1>8, <2>1, <2>2, BoundAssumption DEF StoreCondition, Redirect, Go, TypeOK, StateOK, Requests, Purposes
  <2>4. TabOK(t)' /\ Alone(t)
    BY <1>8, <2>2, NamesAssumption DEF StoreCondition, Redirect, Go, TypeOK, TabOK, Alone
  <2>5. QED
    BY <2>3, <2>4 DEF Orderly
<1>9. CASE Leave(t)
  BY <1>9, NamesAssumption, StepAssumption DEF Leave, Close, Go, TypeOK, StateOK, TabOK, Alone, Orderly, Requests, Purposes, Steps
<1>10. QED
  BY <1>3, <1>4, <1>5, <1>6, <1>7, <1>8, <1>9

LEMMA TabStep ==
    ASSUME TypeOK, NEW t \in Tabs, TabOK(t), Begin(t) \/ Handle(t)
    PROVE  Orderly(t)
  BY OpenStep, SubmitStep, ReadStep, WriteStep DEF Begin, Handle

-----------------------------------------------------------------------------
(* What Observe records                                                    *)

(* A tab that no request touches, in a step that changes the entities or   *)
(* the values in the temp store.                                           *)
Untouched(q) ==
    /\ request'[q] = request[q] /\ want'[q] = want[q]
    /\ machine_name'[q] = machine_name[q] /\ step'[q] = step[q]
    /\ cached'[q] = cached[q] /\ made'[q] = made[q]

LEMMA MissedFacts ==
    ASSUME Observe, NEW t \in Tabs
    PROVE  LET now == Current(machine_name[t])' \ Current(machine_name'[t])
               waiting == Edits(tempstore'[machine_name[t]])
           IN  missed'[t] =
                  IF ~(AtWork(t) /\ AtWork(t)' /\ cached'[t] = cached[t]) THEN {}
                  ELSE IF request'[t] # request[t] THEN missed[t]
                  ELSE missed[t] \union now
                                 \union (IF cached[t] = None THEN waiting ELSE {})
  BY DEF Observe

LEMMA OwnStep ==
    ASSUME Observe, NEW t \in Tabs, request'[t] # request[t],
           AtWork(t), AtWork(t)', cached'[t] = cached[t]
    PROVE  missed'[t] = missed[t]
  BY MissedFacts

(* While something is waiting or a tab is open, an overlap is remembered.  *)
LEMMA OverlapStays ==
    ASSUME Observe, NEW m \in Ids \ overlapped',
           tempstore'[m] # None \/ \E q \in Tabs : machine_name'[q] = m
    PROVE  m \in Ids \ overlapped
  BY DEF Observe

(* Where a tab is open and nothing has been recorded, nothing has changed. *)
LEMMA NotOverlapped ==
    ASSUME Observe, NEW q \in Tabs, request[q] # "none", Untouched(q),
           NEW m \in Ids \ overlapped', machine_name[q] = m
    PROVE  saved'[m] = saved[m] /\ tempstore'[m] = tempstore[m]
  BY DEF Observe, Untouched

LEMMA GhostTypes ==
    ASSUME TypeOK, StateOK', Observe
    PROVE  TypeOK'
<1>1. ASSUME NEW t \in Tabs
      PROVE  missed'[t] \subseteq Edit
  <2>1. missed[t] \subseteq Edit
    BY DEF TypeOK
  <2>2. CASE ~(AtWork(t) /\ AtWork(t)')
    BY <2>2, MissedFacts
  <2>3. CASE AtWork(t) /\ AtWork(t)'
    <3>1. machine_name[t] \in Ids /\ machine_name'[t] \in Ids
      BY <2>3 DEF AtWork, TypeOK, StateOK
    <3> DEFINE now == Current(machine_name[t])'
               fresh == now \ Current(machine_name'[t])
               waiting == Edits(tempstore'[machine_name[t]])
    <3>2. now \subseteq Edit /\ waiting \subseteq Edit
      BY <3>1 DEF Current, Edits, StateOK, Values, Entities
    <3>3. missed'[t] =
             IF ~(AtWork(t) /\ AtWork(t)' /\ cached'[t] = cached[t]) THEN {}
             ELSE IF request'[t] # request[t] THEN missed[t]
             ELSE missed[t] \union fresh \union (IF cached[t] = None THEN waiting ELSE {})
      BY MissedFacts
    <3>4. fresh \subseteq Edit
      BY <3>2
    <3> HIDE DEF fresh, waiting
    <3>5. QED
      BY <2>1, <3>2, <3>3, <3>4
  <2>4. QED
    BY <2>2, <2>3
<1>2. missed' \in [Tabs -> SUBSET Edit]
  <2>1. missed' = [t \in Tabs |-> missed'[t]]
    BY DEF Observe
  <2>2. QED
    BY <1>1, <2>1
<1>3. overlapped' \subseteq Ids /\ astray' \subseteq Tabs
  BY DEF Observe
<1>4. QED
  BY <1>2, <1>3 DEF StateOK, TypeOK

-----------------------------------------------------------------------------
(* The other tabs                                                          *)

(* A request that has saved the entity and not yet deleted the values is   *)
(* still there after a step, unless the step deletes them.                 *)
StillDeleting(m) == Deleting(m) => Deleting(m)'

LEMMA BystanderKnows ==
    ASSUME TypeOK, StateOK', Observe, NEW q \in Tabs, Untouched(q), TabKnows(q)
    PROVE  TabKnows(q)'
<1> SUFFICES ASSUME AtWork(q)', ~Adding(q)'
             PROVE  IF Blind(q)' THEN Edits(tempstore'[machine_name'[q]]) \subseteq missed'[q]
                    ELSE Current(machine_name[q])' \subseteq missed'[q] \union Knows(q)'
  BY DEF TabKnows
<1> DEFINE m == machine_name[q]
           before == Current(m)
           now == Current(machine_name[q])'
           waiting == Edits(tempstore'[m])
<1>1. /\ AtWork(q) /\ ~Adding(q) /\ machine_name'[q] = m /\ cached'[q] = cached[q]
      /\ request'[q] = request[q]
  BY DEF AtWork, Adding, Untouched
<1>2. Knows(q)' = Knows(q) /\ Blind(q)' = Blind(q)
  BY DEF Knows, Read, Written, Blind, Untouched
<1>3. missed'[q] = missed[q] \union (now \ before)
                             \union (IF cached[q] = None THEN waiting ELSE {})
  <2>1. Current(machine_name'[q]) = before
    BY <1>1
  <2>2. QED
    BY <1>1, <2>1, MissedFacts
<1>4. CASE Blind(q)
  <2>1. waiting \subseteq missed'[q]
    BY <1>3, <1>4 DEF Blind
  <2>2. QED
    BY <1>1, <1>2, <1>4, <2>1
<1>5. CASE ~Blind(q)
  <2>1. before \subseteq missed[q] \union Knows(q)
    BY <1>1, <1>5 DEF TabKnows
  <2> HIDE DEF before, now, waiting
  <2>2. now \subseteq missed'[q] \union Knows(q)'
    BY <1>2, <1>3, <2>1
  <2>3. QED
    BY <1>2, <1>5, <2>2 DEF now
<1>6. QED
  BY <1>4, <1>5

LEMMA BystanderSound ==
    ASSUME TypeOK, Observe, NEW q \in Tabs, Untouched(q), TabOK(q), TabSound(q),
           \A m \in Ids \ overlapped' :
              machine_name[q] = m /\ tempstore'[m] = tempstore[m] => StillDeleting(m)
    PROVE  TabOK(q)' /\ TabSound(q)'
<1>1. TabOK(q)'
  BY DEF TabOK, Untouched
<1>2. request[q] # "none" => (q \in astray' <=> q \in astray /\ request[q] # "page")
  BY DEF Observe, Untouched
<1>3. q \in astray' => request'[q] \notin {"none", "page"}
  BY DEF Observe
<1>4. ASSUME NEW m \in Ids \ overlapped', machine_name'[q] = m
      PROVE  IF q \in astray' THEN Stray(q, m)' ELSE Ready(q, m)'
  <2>1. m \in Ids \ overlapped /\ machine_name[q] = m
    BY <1>4, OverlapStays DEF Untouched
  <2>2. request[q] # "none"
    BY <2>1, NamesAssumption DEF TabOK
  <2>3. saved'[m] = saved[m] /\ tempstore'[m] = tempstore[m]
    BY <2>1, <2>2, NotOverlapped
  <2>4. StillDeleting(m)
    BY <2>1, <2>3
  <2>5. Sound(cached[q], m) => Sound(cached[q], m)'
    BY <2>3, <2>4 DEF Sound, Untouched, StillDeleting
  <2>6. request'[q] = request[q] /\ want'[q] = want[q] /\ CanInit(m)' = CanInit(m)
    BY <2>3 DEF Untouched, CanInit
  <2>7. IF q \in astray THEN Stray(q, m) ELSE Ready(q, m)
    BY <2>1 DEF TabSound
  <2>8. q \in astray' <=> q \in astray
    BY <1>2, <2>2 DEF TabSound
  <2>9. CASE q \in astray
    BY <2>6, <2>7, <2>8, <2>9 DEF Stray
  <2>10. CASE q \notin astray
    BY <2>3, <2>4, <2>5, <2>6, <2>7, <2>8, <2>10 DEF Ready, StillDeleting
  <2>11. QED
    BY <2>9, <2>10
<1>5. QED
  BY <1>1, <1>3, <1>4 DEF TabSound

-----------------------------------------------------------------------------
(* The tab whose request takes the step                                    *)

(* The others are untouched, and a request that is about to delete the     *)
(* values is this one or goes on.                                          *)
LEMMA OthersUntouched ==
    ASSUME NEW t \in Tabs, Orderly(t)
    PROVE  \A q \in Tabs \ {t} : Untouched(q)
  BY DEF Orderly, Alone, Untouched

LEMMA TabStillDeleting ==
    ASSUME TypeOK, NEW t \in Tabs, Orderly(t), TabSound(t), Begin(t) \/ Handle(t),
           NEW m \in Ids \ overlapped, tempstore'[m] = tempstore[m] \/ tempstore'[m] # None
    PROVE  StillDeleting(m)
<1> SUFFICES ASSUME Deleting(m)
             PROVE  Deleting(m)'
  BY DEF StillDeleting
<1>1. PICK r \in Tabs : request[r] = "delete" /\ machine_name[r] = m
  BY DEF Deleting
<1>2. CASE r # t
  BY <1>1, <1>2, OthersUntouched DEF Untouched, Deleting
<1>3. CASE r = t
  <2>1. DeleteValues(t)
    BY <1>1, <1>3 DEF Begin, Handle, OpenAdd, OpenEdit, Submit, SubmitName, Check, Reread,
                      Initialise, StoreInitial, GetFormId, InitFormId, Populate, Previous,
                      Next, Save, OpenModal, StoreCondition, Leave
  <2>2. tempstore'[m] = None
    BY <1>1, <1>3, <2>1 DEF DeleteValues, TypeOK
  <2>3. tempstore[m] # None
    BY <1>1, <1>3 DEF TabSound, Stray, Ready
  <2>4. QED
    BY <2>2, <2>3
<1>4. QED
  BY <1>2, <1>3

(* What a submit stores can be saved if what it read could.                *)
LEMMA WithSound ==
    ASSUME TypeOK, NEW t \in Tabs, NEW s \in Steps \union {Conditions},
           NEW m \in Ids, Sound(cached[t], m), saved'[m] = saved[m], StillDeleting(m),
           NEW v, v = With(cached[t], NewEdit(t, s))
    PROVE  Sound(v, m)'
<1>1. cached[t] \in Values /\ cached[t] # None
  BY DEF Sound, TypeOK
<1>2. v.entity = cached[t].entity /\ v \in Values
  BY <1>1, NewEditFacts, WithFacts
<1>3. v # None
  BY <1>2, ValuesAssumption
<1>4. QED
  BY <1>2, <1>3 DEF Sound, StillDeleting

(* After its step the tab relies on no more than what is there.  That is   *)
(* said of a machine name m without changes under an open tab.             *)
LEMMA BeginSound ==
    ASSUME TypeOK, StateOK', NEW t \in Tabs, TabOK(t), StoreSound,
           NEW m \in Ids \ overlapped, machine_name'[t] = m, StillDeleting(m),
           machine_name[t] = m => Ready(t, m),
           OpenAdd(t) \/ (OpenEdit(t) /\ CanInit(m)) \/ Submit(t) \/ SubmitName(t) \/ Check(t)
    PROVE  Ready(t, m)'
<1>1. CASE OpenAdd(t)
  BY <1>1, NamesAssumption DEF OpenAdd, TabOK
<1>2. CASE OpenEdit(t) /\ CanInit(m)
  BY <1>2 DEF OpenEdit, Go, TypeOK, Ready, CanInit
<1>3. CASE Submit(t)
  BY <1>3 DEF Submit, Go, TypeOK, Ready, CanInit
<1>4. CASE SubmitName(t)
  <2>1. Fresh \in Values /\ Fresh.entity = "new"
    BY DEF Fresh, Values, Kinds
  <2>2. saved'[m] = None /\ cached'[t] = Fresh
    BY <1>4 DEF SubmitName, TypeOK
  <2>3. Sound(Fresh, m)'
    BY <2>1, <2>2, ValuesAssumption DEF Sound, Fresh
  <2>4. request'[t] = "validated" /\ want'[t] = "next"
    BY <1>4 DEF SubmitName, Go, TypeOK
  <2>5. QED
    BY <2>2, <2>3, <2>4 DEF Ready
<1>5. CASE Check(t)
  BY <1>5 DEF Check, Go, TypeOK, Ready, CanInit
<1>6. QED
  BY <1>1, <1>2, <1>3, <1>4, <1>5

LEMMA ReadSound ==
    ASSUME TypeOK, StateOK', NEW t \in Tabs, TabOK(t), StoreSound,
           NEW m \in Ids \ overlapped, machine_name'[t] = m, StillDeleting(m),
           machine_name[t] = m => Ready(t, m),
           Reread(t) \/ Initialise(t) \/ StoreInitial(t) \/ GetFormId(t) \/ InitFormId(t)
           \/ Populate(t)
    PROVE  Ready(t, m)'
<1>1. machine_name[t] = m
  BY DEF Reread, Initialise, StoreInitial, GetFormId, InitFormId, Populate
<1>2. tempstore[m] # None => Sound(tempstore[m], m)
  BY DEF StoreSound
<1>3. ASSUME NEW v, Sound(v, m), saved'[m] = saved[m]
      PROVE  Sound(v, m)'
  BY <1>3 DEF Sound, StillDeleting
<1>4. CASE Reread(t)
  <2>1. tempstore[m] # None /\ saved' = saved /\ tempstore' = tempstore
    BY <1>1, <1>4 DEF Reread, Ready
  <2>2. Sound(tempstore[m], m)'
    BY <1>2, <1>3, <2>1
  <2>3. /\ request'[t] = "built" /\ want' = want
        /\ want[t] # "get" => cached'[t] = tempstore[m]
    BY <1>1, <1>4, <2>1 DEF Reread, Build, Go, TypeOK
  <2>4. QED
    BY <2>1, <2>2, <2>3 DEF Ready
<1>5. CASE Initialise(t)
  <2>1. saved' = saved /\ tempstore' = tempstore
    BY <1>5 DEF Initialise
  <2>2. tempstore[m] # None \/ saved[m] # None
    BY <1>1, <1>5 DEF Initialise, Ready, CanInit
  <2>3. CASE tempstore[m] # None
    <3>1. request'[t] = "init" /\ cached'[t] = tempstore[m]
      BY <1>1, <1>5, <2>3 DEF Initialise, InitValues, CanInit, Go, TypeOK
    <3>2. Sound(tempstore[m], m)'
      BY <1>2, <1>3, <2>1, <2>3
    <3>3. QED
      BY <2>1, <3>1, <3>2 DEF Ready
  <2>4. CASE tempstore[m] = None
    <3>1. request'[t] = "init" /\ cached'[t] = saved[m]
      BY <1>1, <1>5, <2>2, <2>4 DEF Initialise, InitValues, CanInit, Go, TypeOK
    <3>2. saved[m] \in Entities
      BY <2>2, <2>4 DEF TypeOK
    <3>3. ASSUME NEW v \in Entities, v # None
          PROVE  Sound(v, m)'
      BY <3>3 DEF Sound, Entities
    <3>4. Sound(cached[t], m)'
      BY <2>2, <2>4, <3>1, <3>2, <3>3
    <3>5. QED
      BY <2>1, <3>1, <3>4 DEF Ready
  <2>5. QED
    BY <2>3, <2>4
<1>6. CASE StoreInitial(t)
  <2>1. Sound(cached[t], m) /\ cached[t] # None
    BY <1>1, <1>6 DEF StoreInitial, Ready, Sound
  <2>2. saved' = saved /\ tempstore'[m] = cached[t]
    BY <1>1, <1>6 DEF StoreInitial, TypeOK
  <2>3. ASSUME NEW v, v = cached[t], v = cached'[t]
        PROVE  Sound(v, m)'
    BY <1>3, <2>1, <2>2, <2>3
  <2>4. /\ request'[t] = "built" /\ want' = want
        /\ want[t] # "get" => cached'[t] = cached[t]
    BY <1>6, <2>1 DEF StoreInitial, Build, Go, TypeOK
  <2>5. want[t] # "get" => Sound(cached[t], m)'
    BY <2>3, <2>4
  <2>6. QED
    BY <2>1, <2>2, <2>4, <2>5 DEF Ready
<1>7. CASE InitFormId(t) \/ Populate(t)
  BY <1>1, <1>7 DEF InitFormId, Populate, Ready
<1>8. CASE GetFormId(t)
  <2>1. /\ tempstore[m] # None /\ saved' = saved /\ tempstore' = tempstore
        /\ want' = want /\ cached' = cached
        /\ want[t] # "get" => Sound(cached[t], m) /\ cached[t] # None
    BY <1>1, <1>8 DEF GetFormId, Ready, Sound
  <2>2. \/ request'[t] = "page"
        \/ request'[t] = "validated" /\ want[t] # "get"
    BY <1>1, <1>8, <2>1 DEF GetFormId, Form, Go, TypeOK
  <2>3. want[t] # "get" => Sound(cached[t], m)'
    BY <2>1 DEF Sound, StillDeleting
  <2>4. QED
    BY <2>1, <2>2, <2>3 DEF Ready
<1>9. QED
  BY <1>4, <1>5, <1>6, <1>7, <1>8

LEMMA WriteSound ==
    ASSUME TypeOK, StateOK', NEW t \in Tabs, TabOK(t), StoreSound,
           NEW m \in Ids \ overlapped, machine_name'[t] = m, StillDeleting(m),
           machine_name[t] = m => Ready(t, m),
           Previous(t) \/ Next(t) \/ Save(t) \/ DeleteValues(t)
           \/ OpenModal(t) \/ StoreCondition(t) \/ Leave(t)
    PROVE  Ready(t, m)'
<1>1. CASE Previous(t)
  <2>1. machine_name[t] = m /\ tempstore' = tempstore /\ tempstore[m] # None
    BY <1>1 DEF Previous, Ready
  <2>2. request'[t] = "check"
    BY <1>1 DEF Previous, Redirect, Go, TypeOK
  <2>3. QED
    BY <2>1, <2>2 DEF Ready, CanInit
<1>2. ASSUME Next(t) \/ StoreCondition(t)
      PROVE  Ready(t, m)'
  <2>1. request'[t] = "check" /\ machine_name[t] = m
    BY <1>2 DEF Next, StoreCondition, Redirect, Go, TypeOK
  <2>2. PICK s \in Steps \union {Conditions} : tempstore'[m] = With(cached[t], NewEdit(t, s))
    BY <1>2, <2>1 DEF Next, StoreCondition, TypeOK
  <2>3. tempstore'[m] \in Values
    BY <2>2, WrittenIsValue
  <2>4. QED
    BY <2>1, <2>3, ValuesAssumption DEF Ready, CanInit
<1>3. CASE Save(t)
  <2>1. /\ machine_name[t] = m /\ tempstore' = tempstore /\ cached' = cached
        /\ Sound(cached[t], m) /\ tempstore[m] # None
    BY <1>3 DEF Save, Ready
  <2>2. CASE CanSave(cached[t], m)
    <3>1. request'[t] = "delete"
      BY <1>3, <2>1, <2>2 DEF Save, Go, TypeOK
    <3>2. QED
      BY <2>1, <3>1 DEF Ready
  <2>3. CASE ~CanSave(cached[t], m)
    <3>1. request'[t] = "error"
      BY <1>3, <2>1, <2>3 DEF Save, Go, TypeOK
    <3>2. cached[t] # None /\ cached[t].entity \in Kinds
      BY <2>1 DEF Sound, TypeOK, Values
    <3>3. Deleting(m)
      BY <2>1, <2>3, <3>2 DEF CanSave, Sound, Kinds
    <3>4. Deleting(m)'
      BY <3>3 DEF StillDeleting
    <3>5. QED
      BY <3>1, <3>4 DEF Ready
  <2>4. QED
    BY <2>2, <2>3
<1>4. CASE DeleteValues(t) \/ Leave(t)
  BY <1>4, NamesAssumption DEF DeleteValues, Leave, Close, TypeOK
<1>5. CASE OpenModal(t)
  <2>1. machine_name[t] = m /\ saved' = saved /\ tempstore[m] # None
    BY <1>5 DEF OpenModal, Ready
  <2>2. request'[t] = "modal" /\ cached'[t] = tempstore[m]
    BY <1>5, <2>1 DEF OpenModal, Go, TypeOK
  <2>3. ASSUME NEW v, Sound(v, m)
        PROVE  Sound(v, m)'
    BY <2>1, <2>3 DEF Sound, StillDeleting
  <2>4. Sound(tempstore[m], m)
    BY <2>1 DEF StoreSound
  <2>5. Sound(cached[t], m)'
    BY <2>2, <2>3, <2>4
  <2>6. QED
    BY <2>2, <2>5 DEF Ready
<1>6. QED
  BY <1>1, <1>2, <1>3, <1>4, <1>5

(* A link to nothing leads to an error, if nothing comes to be there.      *)
LEMMA AstraySound ==
    ASSUME TypeOK, NEW t \in Tabs, t \in astray, NEW m \in Ids, machine_name'[t] = m,
           machine_name[t] = m => Stray(t, m), request[t] \notin {"none", "page"},
           Begin(t) \/ Handle(t)
    PROVE  Stray(t, m)'
<1>1. machine_name[t] = m
  BY NamesAssumption
     DEF Begin, Handle, OpenAdd, OpenEdit, Submit, SubmitName, Check, Reread, Initialise,
         StoreInitial, GetFormId, InitFormId, Populate, Previous, Next, Save, DeleteValues,
         OpenModal, StoreCondition, Leave, Close, TypeOK
<1>2. Stray(t, m)
  BY <1>1
<1>3. Check(t) \/ Initialise(t) \/ Leave(t)
  BY <1>2 DEF Stray, Begin, Handle, OpenAdd, OpenEdit, Submit, SubmitName, Reread,
              StoreInitial, GetFormId, InitFormId, Populate, Previous, Next, Save,
              DeleteValues, OpenModal, StoreCondition
<1>4. CASE Check(t)
  BY <1>1, <1>2, <1>4 DEF Stray, Check, CanInit, Go, TypeOK
<1>5. CASE Initialise(t)
  BY <1>1, <1>2, <1>5 DEF Stray, Initialise, InitValues, CanInit, Go, TypeOK
<1>6. CASE Leave(t)
  BY <1>6, NamesAssumption DEF Leave, Close, TypeOK
<1>7. QED
  BY <1>3, <1>4, <1>5, <1>6

LEMMA ActorSound ==
    ASSUME TypeOK, NEW t \in Tabs, TabOK(t), TabSound(t), StoreSound, Observe,
           Begin(t) \/ Handle(t)
    PROVE  TabSound(t)'
<1>1. Orderly(t) /\ StateOK'
  BY TabStep DEF Orderly
<1>2. t \in astray' => request'[t] \notin {"none", "page"}
  BY DEF Observe
<1> SUFFICES ASSUME NEW m \in Ids \ overlapped', machine_name'[t] = m
             PROVE  IF t \in astray' THEN Stray(t, m)' ELSE Ready(t, m)'
  BY <1>2 DEF TabSound
<1>3. m \in Ids \ overlapped
  BY OverlapStays
<1>4. machine_name[t] = m => IF t \in astray THEN Stray(t, m) ELSE Ready(t, m)
  BY <1>3 DEF TabSound
<1>5. t \in astray => request[t] \notin {"none", "page"}
  BY DEF TabSound
<1>6. t \in astray' <=>
         /\ request'[t] \notin {"none", "page"}
         /\ t \in astray \/ (request[t] = "none" /\ ~CanInit(m))
  BY DEF Observe
<1>7. CASE t \in astray
  <2>1. Stray(t, m)'
    BY <1>4, <1>5, <1>7, AstraySound
  <2>2. request'[t] \notin {"none", "page"}
    BY <2>1 DEF Stray
  <2>3. QED
    BY <1>6, <1>7, <2>1, <2>2
<1>8. CASE t \notin astray /\ OpenEdit(t) /\ ~CanInit(m)
  <2>1. request[t] = "none" /\ request'[t] = "check" /\ saved' = saved /\ tempstore' = tempstore
    BY <1>8 DEF OpenEdit, Go, TypeOK
  <2>2. Stray(t, m)'
    BY <1>8, <2>1 DEF Stray, CanInit
  <2>3. QED
    BY <1>6, <1>8, <2>1, <2>2
<1>9. CASE t \notin astray /\ (OpenEdit(t) => CanInit(m))
  <2>1. request[t] = "none" => OpenAdd(t) \/ OpenEdit(t)
    BY DEF Begin, Handle, Submit, SubmitName, Check, Reread, Initialise, StoreInitial,
           GetFormId, InitFormId, Populate, Previous, Next, Save, DeleteValues, OpenModal,
           StoreCondition, Leave
  <2>2. ~OpenAdd(t)
    BY NamesAssumption DEF OpenAdd, TabOK
  <2>3. t \notin astray'
    BY <1>6, <1>9, <2>1, <2>2
  <2>4. CASE DeleteValues(t)
    BY <2>4, NamesAssumption DEF DeleteValues, Close, TypeOK
  <2>5. CASE ~DeleteValues(t)
    <3>1. tempstore'[m] = tempstore[m] \/ tempstore'[m] # None
      <4>1. CASE StoreInitial(t)
        <5>1. machine_name[t] = m /\ tempstore'[m] = cached[t]
          BY <4>1 DEF StoreInitial, TypeOK
        <5>2. cached[t] # None
          BY <1>4, <1>9, <4>1, <5>1 DEF StoreInitial, Ready, Sound
        <5>3. QED
          BY <5>1, <5>2
      <4>2. ASSUME Next(t) \/ StoreCondition(t)
            PROVE  tempstore'[m] # None
        <5>1. PICK s \in Steps \union {Conditions} : tempstore'[m] = With(cached[t], NewEdit(t, s))
          BY <4>2 DEF Next, StoreCondition, TypeOK
        <5>2. tempstore'[m] \in Values
          BY <5>1, WrittenIsValue
        <5>3. QED
          BY <5>2, ValuesAssumption
      <4>3. QED
        BY <2>5, <4>1, <4>2 DEF Begin, Handle, OpenAdd, OpenEdit, Submit, SubmitName, Check,
                                Reread, Initialise, GetFormId, InitFormId, Populate, Previous,
                                Save, OpenModal, Leave
    <3>2. StillDeleting(m)
      BY <1>1, <1>3, <3>1, TabStillDeleting
    <3>3. Ready(t, m)'
      BY <1>1, <1>3, <1>4, <1>9, <3>2, BeginSound, ReadSound, WriteSound DEF Begin, Handle
    <3>4. QED
      BY <2>3, <3>3
  <2>6. QED
    BY <2>4, <2>5
<1>10. QED
  BY <1>7, <1>8, <1>9

(* The values that wait can be saved, or what stops them is a request that *)
(* has saved the entity itself and will delete them.                       *)
LEMMA TabStoreSound ==
    ASSUME TypeOK, NEW t \in Tabs, TabOK(t), TabSound(t), StoreSound, Observe,
           Begin(t) \/ Handle(t)
    PROVE  StoreSound'
<1>1. Orderly(t) /\ StateOK'
  BY TabStep DEF Orderly
<1> SUFFICES ASSUME NEW m \in Ids, m \notin overlapped', tempstore'[m] # None
             PROVE  Sound(tempstore[m], m)'
  BY DEF StoreSound
<1>2. m \in Ids \ overlapped
  BY OverlapStays
<1>3. StillDeleting(m)
  BY <1>1, <1>2, TabStillDeleting
<1>4. CASE m # machine_name[t]
  <2>1. saved'[m] = saved[m] /\ tempstore'[m] = tempstore[m]
    BY <1>1, <1>4 DEF Orderly, Alone
  <2>2. Sound(tempstore[m], m)
    BY <1>2, <2>1 DEF StoreSound
  <2>3. QED
    BY <1>3, <2>1, <2>2 DEF Sound, StillDeleting
<1>5. CASE m = machine_name[t] /\ StoreInitial(t)
  <2>1. tempstore'[m] = cached[t] /\ saved' = saved /\ Sound(cached[t], m)
    BY <1>2, <1>5 DEF StoreInitial, TabSound, Stray, Ready, TypeOK
  <2>2. QED
    BY <1>3, <2>1 DEF Sound, StillDeleting
<1>6. CASE m = machine_name[t] /\ (Next(t) \/ StoreCondition(t))
  <2>1. Sound(cached[t], m) /\ saved' = saved
    BY <1>2, <1>6 DEF Next, StoreCondition, TabSound, Stray, Ready
  <2>2. PICK s \in Steps \union {Conditions} : tempstore'[m] = With(cached[t], NewEdit(t, s))
    BY <1>6 DEF Next, StoreCondition, TypeOK
  <2>3. QED
    BY <1>3, <2>1, <2>2, WithSound
<1>7. CASE m = machine_name[t] /\ Save(t)
  <2>1. tempstore' = tempstore /\ Sound(tempstore[m], m)
    BY <1>2, <1>7 DEF Save, StoreSound
  <2>2. CASE CanSave(cached[t], m)
    <3>1. request'[t] = "delete" /\ machine_name'[t] = m
      BY <1>7, <2>2 DEF Save, Go, TypeOK
    <3>2. Deleting(m)'
      BY <3>1 DEF Deleting
    <3>3. QED
      BY <2>1, <3>2 DEF Sound
  <2>3. CASE ~CanSave(cached[t], m)
    <3>1. saved' = saved
      BY <1>7, <2>3 DEF Save
    <3>2. QED
      BY <1>3, <2>1, <3>1 DEF Sound, StillDeleting
  <2>4. QED
    BY <2>2, <2>3
<1>8. CASE m = machine_name[t] /\ DeleteValues(t)
  BY <1>8 DEF DeleteValues, TypeOK
<1>9. ASSUME saved' = saved, tempstore' = tempstore
      PROVE  Sound(tempstore[m], m)'
  BY <1>2, <1>3, <1>9 DEF StoreSound, Sound, StillDeleting
<1>10. QED
  BY <1>4, <1>5, <1>6, <1>7, <1>8, <1>9
     DEF Begin, Handle, OpenAdd, OpenEdit, Submit, SubmitName, Check, Reread, Initialise,
         GetFormId, InitFormId, Populate, Previous, OpenModal, Leave

-----------------------------------------------------------------------------
(* What a request knows of                                                 *)

(* What it writes keeps what it has read, but what its own submit of the   *)
(* same slot replaces.                                                     *)
LEMMA WrittenKeeps ==
    ASSUME TypeOK, NEW t \in Tabs, NEW s \in Steps \union {Conditions}, NEW x \in Read(t)
    PROVE  \/ x \in With(cached[t], NewEdit(t, s)).edits
           \/ /\ x.slot = s /\ s # Conditions /\ x \in Edit
              /\ NewEdit(t, s) \in With(cached[t], NewEdit(t, s)).edits
<1>1. cached[t] \in Values /\ cached[t] # None /\ x \in cached[t].edits
  BY DEF Read, Edits, TypeOK
<1>2. NewEdit(t, s) \in Edit /\ NewEdit(t, s).slot = s
  BY NewEditFacts DEF NewEdit
<1>3. x \in Edit
  BY <1>1 DEF Values
<1>4. NewEdit(t, s) \in With(cached[t], NewEdit(t, s)).edits
  BY <1>2, WithFacts, <1>1
<1>5. \/ x \in With(cached[t], NewEdit(t, s)).edits
      \/ x.slot = NewEdit(t, s).slot /\ x.slot # Conditions
  BY <1>1, <1>2, WithKeeps
<1>6. QED
  BY <1>2, <1>3, <1>4, <1>5

(* A request that has read what is current, if it has found anything.      *)
LEMMA ReadKnows ==
    ASSUME TypeOK, StateOK', NEW t \in Tabs, TabOK(t),
           Reread(t) \/ Initialise(t) \/ OpenModal(t), AtWork(t)'
    PROVE  IF Blind(t)' THEN tempstore'[machine_name'[t]] = None
           ELSE Current(machine_name[t])' = Read(t)' /\ request'[t] # "delete"
<1> DEFINE m == machine_name[t]
<1>1. machine_name'[t] = m /\ saved' = saved /\ tempstore' = tempstore /\ m \in Ids
  BY DEF Reread, Initialise, OpenModal, AtWork, StateOK
<1>2. Current(machine_name[t])' = Edits(IF tempstore[m] = None THEN saved[m] ELSE tempstore[m])
  BY <1>1 DEF Current
<1>3. Read(t)' = Edits(cached'[t])
  BY DEF Read
<1>4. CASE Reread(t)
  <2>1. request'[t] = "built" /\ want' = want
    BY <1>4 DEF Reread, Build, Go, TypeOK
  <2>2. cached'[t] = tempstore[m]
    BY <1>4, <2>1 DEF Reread, Build, AtWork, TypeOK
  <2>3. QED
    BY <1>1, <1>2, <1>3, <2>1, <2>2 DEF Blind
<1>5. CASE Initialise(t)
  <2>1. request'[t] = "init"
    BY <1>5 DEF Initialise, InitValues, Go, TypeOK, AtWork
  <2>2. cached'[t] = IF tempstore[m] = None THEN saved[m] ELSE tempstore[m]
    BY <1>5, <2>1 DEF Initialise, InitValues, Go, TypeOK
  <2>3. QED
    BY <1>2, <1>3, <2>1, <2>2 DEF Blind
<1>6. CASE OpenModal(t)
  <2>1. request'[t] = "modal" /\ tempstore[m] # None /\ cached'[t] = tempstore[m]
    BY <1>6 DEF OpenModal, Go, TypeOK, AtWork
  <2>2. QED
    BY <1>2, <1>3, <2>1 DEF Blind
<1>7. QED
  BY <1>4, <1>5, <1>6

(* Between its reading and its writing a request that takes a step knows   *)
(* what it knew.                                                           *)
LEMMA GoesOnKnowing ==
    ASSUME TypeOK, StateOK', Observe, NEW t \in Tabs, TabOK(t), TabKnows(t),
           GetFormId(t) \/ InitFormId(t), AtWork(t)', ~Adding(t)'
    PROVE  TabKnows(t)'
<1> DEFINE m == machine_name[t]
<1>1. /\ machine_name'[t] = m /\ saved' = saved /\ tempstore' = tempstore /\ want' = want
      /\ cached' = cached /\ request[t] \in {"built", "unnamed"} /\ m # None
  BY NamesAssumption DEF GetFormId, InitFormId, TabOK
<1>2. request'[t] \in {"unnamed", "page", "empty", "validated", "error"}
  BY DEF GetFormId, InitFormId, Form, Go, TypeOK
<1>3. AtWork(t) /\ request'[t] # request[t] /\ ~Adding(t)
  <2>1. request'[t] \notin {"page", "error"}
    BY DEF AtWork
  <2>2. want[t] # "get"
    BY <1>1, <1>2, <2>1 DEF AtWork, GetFormId, InitFormId, Form, Go, TypeOK
  <2>3. request'[t] # request[t]
    BY <1>2 DEF GetFormId, InitFormId, Form, Go, TypeOK
  <2>4. QED
    BY <1>1, <2>2, <2>3 DEF AtWork, Adding
<1>4. missed'[t] = missed[t]
  BY <1>1, <1>3, OwnStep
<1>5. Current(machine_name[t])' = Current(m) /\ Read(t)' = Read(t)
  BY <1>1 DEF Current, Read
<1>6. Blind(t)' <=> cached[t] = None
  <2>1. request'[t] = "validated" => cached[t] # None
    BY <1>1, <1>2 DEF GetFormId, InitFormId, Form, Go, TypeOK
  <2>2. request'[t] \in {"unnamed", "empty", "validated"}
    BY <1>2 DEF AtWork
  <2>3. QED
    BY <1>1, <2>1, <2>2 DEF Blind
<1>7. Blind(t) <=> cached[t] = None
  BY <1>1 DEF Blind
<1>8. CASE Blind(t)
  BY <1>1, <1>3, <1>4, <1>6, <1>7, <1>8 DEF TabKnows
<1>9. CASE ~Blind(t)
  <2>1. Current(m) \subseteq missed[t] \union Read(t)
    BY <1>1, <1>3, <1>9 DEF TabKnows, Knows
  <2>2. Knows(t)' = Read(t)'
    BY <1>2 DEF Knows
  <2>3. QED
    BY <1>4, <1>5, <1>6, <1>7, <1>9, <2>1, <2>2 DEF TabKnows
<1>10. QED
  BY <1>8, <1>9

LEMMA PopulateKnows ==
    ASSUME TypeOK, StateOK', Observe, NEW t \in Tabs, TabOK(t), TabKnows(t), Populate(t),
           AtWork(t)'
    PROVE  TabKnows(t)'
<1> DEFINE m == machine_name[t]
<1>1. /\ machine_name'[t] = m /\ saved' = saved /\ tempstore' = tempstore
      /\ request[t] = "empty" /\ AtWork(t) /\ ~Adding(t)
  BY NamesAssumption DEF Populate, TabOK, AtWork, Adding
<1>2. request'[t] = "validated"
  BY DEF Populate, InitValues, Go, TypeOK, AtWork
<1>3. /\ Current(machine_name[t])' = Current(m) /\ Knows(t)' = Edits(cached'[t])
      /\ ~Blind(t)'
  BY <1>1, <1>2 DEF Current, Read, Knows, Blind
<1>4. SUFFICES Current(m) \subseteq missed'[t] \union Edits(cached'[t])
  BY <1>3 DEF TabKnows
<1>5. CASE tempstore[m] = None
  <2>1. cached'[t] = saved[m]
    BY <1>2, <1>5 DEF Populate, InitValues, Go, TypeOK
  <2>2. QED
    BY <1>5, <2>1 DEF Current
<1>6. CASE tempstore[m] # None
  <2>1. cached' = cached /\ missed'[t] = missed[t]
    <3>1. cached' = cached
      BY <1>6 DEF Populate
    <3>2. QED
      BY <1>1, <1>2, <3>1, OwnStep
  <2>2. CASE cached[t] = None
    BY <1>1, <1>6, <2>1, <2>2 DEF TabKnows, Blind, Current
  <2>3. CASE cached[t] # None
    BY <1>1, <2>1, <2>3 DEF TabKnows, Blind, Knows, Read
  <2>4. QED
    BY <2>2, <2>3
<1>7. QED
  BY <1>5, <1>6

LEMMA StoreInitialKnows ==
    ASSUME TypeOK, StateOK', Observe, NEW t \in Tabs, TabOK(t), TabKnows(t), StoreInitial(t),
           AtWork(t)'
    PROVE  TabKnows(t)'
<1> DEFINE m == machine_name[t]
<1>1. m \in Ids /\ machine_name'[t] = m /\ tempstore'[m] = cached[t]
  BY DEF StoreInitial, TabOK, TypeOK
<1>2. request'[t] = "built" /\ cached'[t] = cached[t]
  BY DEF StoreInitial, Build, Go, TypeOK, AtWork
<1>3. Edits(None) = {}
  BY DEF Edits
<1>4. CASE cached[t] = None
  BY <1>1, <1>2, <1>3, <1>4 DEF TabKnows, Blind
<1>5. CASE cached[t] # None
  BY <1>1, <1>2, <1>5 DEF TabKnows, Blind, Current, Knows, Read
<1>6. QED
  BY <1>4, <1>5

(* A finish knows of everything that was current, and of what it has saved.*)
LEMMA SaveKnows ==
    ASSUME TypeOK, StateOK', Observe, NEW t \in Tabs, TabOK(t), TabKnows(t), Save(t),
           AtWork(t)'
    PROVE  TabKnows(t)'
<1> DEFINE m == machine_name[t]
           w == With(cached[t], NewEdit(t, step[t]))
           before == Current(m)
           now == Current(machine_name[t])'
<1>1. /\ m \in Ids /\ m # None /\ machine_name'[t] = m /\ AtWork(t) /\ ~Adding(t)
      /\ tempstore' = tempstore /\ cached' = cached /\ step' = step /\ step[t] \in Steps
      /\ request[t] = "validated"
  BY NamesAssumption DEF Save, TabOK, AtWork, Adding, TypeOK
<1>2. CanSave(cached[t], m) /\ request'[t] = "delete"
  BY DEF Save, Go, TypeOK, AtWork
<1>3. saved'[m] = Entity(w.edits) /\ made'[t] = made[t] + 1
  BY <1>1, <1>2 DEF Save, TypeOK
<1>4. Edits(saved'[m]) = w.edits
  <2>1. w \in Values
    BY <1>1, WrittenIsValue
  <2>2. saved'[m] # None /\ w.edits = Entity(w.edits).edits
    BY <1>3, <2>1, EntitiesAreValues, ValuesAssumption DEF Entity
  <2>3. QED
    BY <1>3, <2>2 DEF Edits
<1>5. before \subseteq missed[t] \union Read(t)
  BY <1>1 DEF TabKnows, Blind, Knows
<1>6. missed'[t] = missed[t]
  BY <1>1, <1>2, OwnStep
<1>7. Written(t)' = w
  BY <1>1, <1>3 DEF Written, NewEdit
<1>8. Knows(t)' = Read(t) \union w.edits /\ ~Blind(t)'
  BY <1>1, <1>2, <1>7 DEF Knows, Read, Blind
<1>9. now = IF tempstore[m] = None THEN w.edits ELSE before
  BY <1>1, <1>4 DEF Current
<1> HIDE DEF w, now, before
<1>10. now \subseteq missed'[t] \union Knows(t)'
  BY <1>5, <1>6, <1>8, <1>9
<1>11. QED
  BY <1>8, <1>10 DEF TabKnows, now

LEMMA ActorKnows ==
    ASSUME TypeOK, NEW t \in Tabs, TabOK(t), TabKnows(t), Observe, Begin(t) \/ Handle(t)
    PROVE  TabKnows(t)'
<1>1. StateOK'
  BY TabStep DEF Orderly
<1> SUFFICES ASSUME AtWork(t)', ~Adding(t)'
             PROVE  TabKnows(t)'
  BY DEF TabKnows
<1>2. CASE Reread(t) \/ Initialise(t) \/ OpenModal(t)
  <2>1. Edits(None) = {}
    BY DEF Edits
  <2>2. QED
    BY <1>1, <1>2, <2>1, ReadKnows DEF TabKnows, Knows
<1>3. CASE GetFormId(t) \/ InitFormId(t)
  BY <1>1, <1>3, GoesOnKnowing
<1>4. CASE StoreInitial(t) \/ Populate(t) \/ Save(t)
  BY <1>1, <1>4, StoreInitialKnows, PopulateKnows, SaveKnows
<1>5. CASE SubmitName(t)
  BY <1>5 DEF SubmitName, Go, Adding, TypeOK
<1>6. CASE \/ OpenAdd(t) \/ OpenEdit(t) \/ Submit(t) \/ Check(t) \/ Previous(t) \/ Next(t)
           \/ DeleteValues(t) \/ StoreCondition(t) \/ Leave(t)
  <2>1. request'[t] \in {"none", "page", "check", "absent", "reread"}
    BY <1>6 DEF OpenAdd, OpenEdit, Submit, Check, Previous, Next, DeleteValues,
                StoreCondition, Leave, Close, Redirect, Go, TypeOK
  <2>2. QED
    BY <2>1 DEF AtWork
<1>7. QED
  BY <1>2, <1>3, <1>4, <1>5, <1>6 DEF Begin, Handle

-----------------------------------------------------------------------------
(* Around the wizard                                                       *)

LEMMA AroundStep ==
    ASSUME TypeOK, NEW id \in Ids, Around(id)
    PROVE  /\ StateOK' /\ \A q \in Tabs : Untouched(q)
           /\ saved' = saved \/ tempstore' = tempstore
           /\ \A m \in Ids : saved[m] = None => saved'[m] = None
           /\ \A m \in Ids : tempstore'[m] # None => tempstore'[m] = tempstore[m]
<1>1. UNCHANGED tab /\ outside' \in 0 .. MaxOutside
  BY BoundAssumption DEF Around, SaveOutside, DeleteOutside, Expire, Happens, TypeOK
<1>2. CASE SaveOutside(id)
  <2>1. PICK s \in Steps : saved' = [saved EXCEPT
           ![id] = With(@, [by |-> Outside, nr |-> outside + 1, slot |-> s])]
    BY <1>2 DEF SaveOutside
  <2> DEFINE e == [by |-> Outside, nr |-> outside + 1, slot |-> s]
  <2>2. saved[id] \in Entities /\ saved[id] # None /\ tempstore' = tempstore
    BY <1>2 DEF SaveOutside, TypeOK
  <2>3. e \in Edit
    BY BoundAssumption DEF Edit, TypeOK
  <2>4. With(saved[id], e) \in Entities
    BY <2>2, <2>3 DEF With, Replace, Entities
  <2>5. saved' = [saved EXCEPT ![id] = With(saved[id], e)]
    BY <2>1
  <2> HIDE DEF e
  <2>6. saved' \in [Ids -> Entities \union {None}]
    BY <2>4, <2>5 DEF TypeOK
  <2>7. QED
    BY <1>1, <2>2, <2>5, <2>6 DEF StateOK, TypeOK, tab, Untouched
<1>3. CASE DeleteOutside(id)
  BY <1>1, <1>3 DEF DeleteOutside, StateOK, TypeOK, tab, Untouched
<1>4. CASE Expire(id)
  BY <1>1, <1>4 DEF Expire, StateOK, TypeOK, tab, Untouched
<1>5. QED
  BY <1>2, <1>3, <1>4 DEF Around

LEMMA AroundStoreSound ==
    ASSUME TypeOK, StoreSound, Observe, NEW id \in Ids, Around(id)
    PROVE  StoreSound'
<1> SUFFICES ASSUME NEW m \in Ids, m \notin overlapped', tempstore'[m] # None
             PROVE  Sound(tempstore[m], m)'
  BY DEF StoreSound
<1>1. m \in Ids \ overlapped /\ tempstore'[m] = tempstore[m]
  BY OverlapStays, AroundStep
<1>2. Sound(tempstore[m], m)
  BY <1>1 DEF StoreSound
<1>3. Deleting(m) => Deleting(m)'
  BY AroundStep DEF Deleting, Untouched
<1>4. saved[m] = None => saved'[m] = None
  BY AroundStep
<1>5. QED
  BY <1>1, <1>2, <1>3, <1>4 DEF Sound

-----------------------------------------------------------------------------
(* The invariant                                                           *)

LEMMA InitHolds == Init => IInv
<1> SUFFICES ASSUME Init
             PROVE  IInv
  OBVIOUS
<1>1. Entity({}) \in Entities
  BY DEF Entity, Entities
<1>2. TypeOK
  BY <1>1, StepAssumption, BoundAssumption DEF Init, TypeOK, Requests, Purposes, Steps
<1>3. StoreSound
  BY DEF Init, StoreSound
<1>4. ASSUME NEW t \in Tabs
      PROVE  TabOK(t) /\ TabSound(t) /\ TabKnows(t)
  BY NamesAssumption, StepAssumption DEF Init, TabOK, TabSound, TabKnows, AtWork
<1>5. QED
  BY <1>2, <1>3, <1>4 DEF IInv

LEMMA TabKeeps ==
    ASSUME IInv, NEW t \in Tabs, Begin(t) \/ Handle(t), Observe
    PROVE  IInv'
<1>1. TypeOK /\ StoreSound /\ \A q \in Tabs : TabOK(q) /\ TabSound(q) /\ TabKnows(q)
  BY DEF IInv
<1>2. Orderly(t)
  BY <1>1, TabStep
<1>3. TypeOK' /\ StateOK'
  BY <1>1, <1>2, GhostTypes DEF Orderly
<1>4. StoreSound'
  BY <1>1, TabStoreSound
<1>5. TabOK(t)' /\ TabSound(t)' /\ TabKnows(t)'
  BY <1>1, <1>2, ActorSound, ActorKnows DEF Orderly
<1>6. ASSUME NEW q \in Tabs \ {t}
      PROVE  TabOK(q)' /\ TabSound(q)' /\ TabKnows(q)'
  <2>1. Untouched(q)
    BY <1>2, OthersUntouched
  <2>2. ASSUME NEW m \in Ids \ overlapped', machine_name[q] = m, tempstore'[m] = tempstore[m]
        PROVE  StillDeleting(m)
    <3>1. m \in Ids \ overlapped
      BY <2>1, <2>2, OverlapStays DEF Untouched
    <3>2. QED
      BY <1>1, <1>2, <2>2, <3>1, TabStillDeleting
  <2>3. TabOK(q)' /\ TabSound(q)'
    BY <1>1, <2>1, <2>2, BystanderSound
  <2>4. TabKnows(q)'
    BY <1>1, <1>3, <2>1, BystanderKnows
  <2>5. QED
    BY <2>3, <2>4
<1>7. QED
  BY <1>3, <1>4, <1>5, <1>6 DEF IInv

LEMMA AroundKeeps ==
    ASSUME IInv, NEW id \in Ids, Around(id), Observe
    PROVE  IInv'
<1>1. TypeOK /\ StoreSound /\ \A q \in Tabs : TabOK(q) /\ TabSound(q) /\ TabKnows(q)
  BY DEF IInv
<1>2. StateOK' /\ \A q \in Tabs : Untouched(q)
  BY <1>1, AroundStep
<1>3. TypeOK'
  BY <1>1, <1>2, GhostTypes
<1>4. StoreSound'
  BY <1>1, AroundStoreSound
<1>5. ASSUME NEW q \in Tabs
      PROVE  TabOK(q)' /\ TabSound(q)' /\ TabKnows(q)'
  <2>1. \A m \in Ids : StillDeleting(m)
    BY <1>2 DEF StillDeleting, Deleting, Untouched
  <2>2. TabOK(q)' /\ TabSound(q)'
    BY <1>1, <1>2, <2>1, BystanderSound
  <2>3. TabKnows(q)'
    BY <1>1, <1>2, BystanderKnows
  <2>4. QED
    BY <2>2, <2>3
<1>6. QED
  BY <1>3, <1>4, <1>5 DEF IInv

LEMMA StutterKeeps == IInv /\ UNCHANGED vars => IInv'
  BY DEF IInv, vars, tab, ghosts, TypeOK, StoreSound, Sound, Deleting, TabOK, TabSound, Stray, Ready,
         CanInit, TabKnows, AtWork, Adding, Blind, Current, Edits, Knows, Read, Written

(* Whatever is current and a request that is to write has not read was     *)
(* stored by another after its reading, but for the first step of an add   *)
(* form, which has read nothing.  And where no entity and no values have   *)
(* changed under an open tab, a request that did not begin with an address *)
(* that leads to nothing finds what it relies on.                          *)
THEOREM WizardInvariant == Spec => []IInv
<1>1. IInv /\ [NextState]_vars => IInv'
  BY TabKeeps, AroundKeeps, StutterKeeps DEF NextState
<1>2. QED
  BY InitHolds, <1>1, PTL DEF Spec

(* Every value, machine name, step and request stays in its set.           *)
THEOREM WizardTypeCorrect == Spec => []TypeOK
<1>1. IInv => TypeOK
  BY DEF IInv
<1>2. QED
  BY WizardInvariant, <1>1, PTL

(* An error is shown only where the entity or its values changed under an  *)
(* open tab, while a finish is between saving and deleting, or at the end  *)
(* of an address that led to neither an entity nor values.                 *)
THEOREM ErrorsAlwaysExplained == Spec => []ErrorsExplained
<1>1. IInv => ErrorsExplained
  <2>1. ASSUME IInv, NEW t \in Tabs, request[t] = "error"
        PROVE  machine_name[t] \in overlapped \/ Deleting(machine_name[t]) \/ t \in astray
    BY <2>1 DEF IInv, TabOK, TabSound, Ready
  <2>2. QED
    BY <2>1 DEF ErrorsExplained, Deleting
<1>2. QED
  BY WizardInvariant, <1>1, PTL

-----------------------------------------------------------------------------
(* Nothing is lost but to a race                                           *)

(* What a request of tab t may take away from machine name id.             *)
Explained(t, id) ==
    \A e \in Current(id) \ Current(id)' :
        \/ e \in missed[t]
        \/ /\ e.slot # Conditions
           /\ [by |-> t, nr |-> made'[t], slot |-> e.slot] \in Current(id)'
        \/ Adding(t) \/ Undone(t)

(* What t writes over what it knows of keeps it, but what its own submit of*)
(* the same slot replaces.                                                 *)
LEMMA WrittenExplains ==
    ASSUME IInv, NEW t \in Tabs, NEW m \in Ids, NEW s \in Steps \union {Conditions},
           NEW w, w = With(cached[t], NewEdit(t, s)), made'[t] = made[t] + 1,
           Current(m) \subseteq missed[t] \union Read(t), Current(m)' = w.edits
    PROVE  Explained(t, m)
<1>1. TypeOK
  BY DEF IInv
<1>2. NewEdit(t, s) = [by |-> t, nr |-> made'[t], slot |-> s]
  BY DEF NewEdit
<1>3. ASSUME NEW e \in Read(t), e \notin w.edits
      PROVE  e.slot # Conditions /\ [by |-> t, nr |-> made'[t], slot |-> e.slot] \in w.edits
  BY <1>1, <1>2, <1>3, WrittenKeeps
<1>4. QED
  BY <1>3 DEF Explained

LEMMA StoresExplained ==
    ASSUME IInv, NEW t \in Tabs, Next(t) \/ StoreCondition(t), ~Adding(t),
           NEW m \in Ids, machine_name[t] = m
    PROVE  Explained(t, m)
<1>1. TypeOK /\ TabOK(t) /\ TabKnows(t)
  BY DEF IInv
<1>2. AtWork(t) /\ request[t] \in {"validated", "modal"}
  BY NamesAssumption DEF Next, StoreCondition, AtWork
<1>3. Current(m) \subseteq missed[t] \union Read(t)
  BY <1>1, <1>2 DEF TabKnows, Blind, Knows
<1>4. PICK s \in Steps \union {Conditions} :
         tempstore'[m] = With(cached[t], NewEdit(t, s)) /\ made'[t] = made[t] + 1
  BY <1>1, <1>2 DEF Next, StoreCondition, TypeOK
<1>5. tempstore'[m] # None
  BY <1>1, <1>4, WrittenIsValue, ValuesAssumption
<1>6. Current(m)' = With(cached[t], NewEdit(t, s)).edits
  BY <1>4, <1>5 DEF Current, Edits
<1>7. QED
  BY <1>3, <1>4, <1>6, WrittenExplains

LEMMA SaveExplained ==
    ASSUME IInv, NEW t \in Tabs, Save(t), NEW m \in Ids, machine_name[t] = m
    PROVE  Explained(t, m)
<1>1. TypeOK /\ TabKnows(t)
  BY DEF IInv
<1>2. AtWork(t) /\ request[t] = "validated" /\ ~Adding(t) /\ tempstore' = tempstore
  BY NamesAssumption DEF Save, AtWork, Adding
<1>3. CASE ~CanSave(cached[t], m) \/ tempstore[m] # None
  BY <1>2, <1>3 DEF Save, Explained, Current
<1>4. CASE CanSave(cached[t], m) /\ tempstore[m] = None
  <2> DEFINE w == With(cached[t], NewEdit(t, step[t]))
  <2>1. step[t] \in Steps \union {Conditions}
    BY <1>1 DEF TypeOK
  <2>2. saved'[m] = Entity(w.edits) /\ made'[t] = made[t] + 1
    BY <1>1, <1>4 DEF Save, TypeOK
  <2>3. w \in Values
    BY <1>1, <2>1, WrittenIsValue
  <2>4. Current(m)' = w.edits
    BY <1>2, <1>4, <2>2, <2>3, EntitiesAreValues, ValuesAssumption DEF Current, Edits, Entity
  <2>5. Current(m) \subseteq missed[t] \union Read(t)
    BY <1>1, <1>2 DEF TabKnows, Blind, Knows
  <2>6. QED
    BY <2>1, <2>2, <2>4, <2>5, WrittenExplains
<1>5. QED
  BY <1>3, <1>4

(* What is left after the values are deleted is what was saved.            *)
LEMMA DeleteExplained ==
    ASSUME IInv, NEW t \in Tabs, DeleteValues(t), ~Undone(t), NEW m \in Ids, machine_name[t] = m
    PROVE  Explained(t, m)
<1> DEFINE w == Written(t)
           e == [by |-> t, nr |-> made[t], slot |-> step[t]]
<1>1. TypeOK /\ TabKnows(t)
  BY DEF IInv
<1>2. AtWork(t) /\ request[t] = "delete" /\ ~Adding(t) /\ saved' = saved /\ made' = made
  BY NamesAssumption DEF DeleteValues, AtWork, Adding
<1>3. Current(m) \subseteq missed[t] \union Read(t) \union w.edits
  BY <1>1, <1>2 DEF TabKnows, Blind, Knows
<1>4. e \in Edit /\ e.slot # Conditions
  BY <1>1, BoundAssumption, StepAssumption DEF Edit, TypeOK, Steps, Conditions
<1>5. w = With(cached[t], e)
  BY DEF Written
<1> HIDE DEF e, w
<1>6. w \in Values /\ e \in w.edits
  BY <1>1, <1>4, <1>5, WithFacts DEF TypeOK
<1>7. tempstore'[m] = None
  BY <1>1 DEF DeleteValues, TypeOK
<1>8. Current(m)' = w.edits
  <2>1. saved[m] = Entity(w.edits)
    BY <1>2 DEF Undone, w
  <2>2. Entity(w.edits) # None /\ Entity(w.edits).edits = w.edits
    BY <1>6, EntitiesAreValues, ValuesAssumption DEF Entity
  <2>3. QED
    BY <1>2, <1>7, <2>1, <2>2 DEF Current, Edits
<1>9. ASSUME NEW x \in Read(t), x \notin w.edits
      PROVE  x.slot = e.slot
  <2>1. cached[t] \in Values /\ cached[t] # None /\ x \in cached[t].edits
    BY <1>1 DEF Read, Edits, TypeOK
  <2>2. QED
    BY <1>4, <1>5, <1>9, <2>1, WithKeeps
<1>10. e = [by |-> t, nr |-> made'[t], slot |-> e.slot]
  BY <1>2 DEF e
<1>11. QED
  BY <1>3, <1>4, <1>6, <1>8, <1>9, <1>10 DEF Explained

LEMMA TabExplained ==
    ASSUME IInv, NEW t \in Tabs, Begin(t) \/ Handle(t), NEW m \in Ids
    PROVE  Explained(t, m)
<1>1. TypeOK /\ TabOK(t) /\ TabKnows(t)
  BY DEF IInv
<1>2. Alone(t)
  BY <1>1, TabStep DEF Orderly
<1>3. CASE saved'[m] = saved[m] /\ tempstore'[m] = tempstore[m]
  BY <1>3 DEF Explained, Current
<1>4. CASE machine_name[t] = m /\ StoreInitial(t)
  <2>1. AtWork(t) /\ request[t] = "init" /\ ~Adding(t)
    BY <1>4, NamesAssumption DEF StoreInitial, AtWork, Adding
  <2>2. Current(m) \subseteq missed[t] \union Edits(cached[t])
    BY <1>1, <1>4, <2>1 DEF TabKnows, Blind, Knows, Read
  <2>3. Current(m)' = IF cached[t] = None THEN Edits(saved[m]) ELSE Edits(cached[t])
    BY <1>1, <1>4 DEF StoreInitial, Current, TypeOK
  <2>4. Edits(None) = {}
    BY DEF Edits
  <2>5. QED
    BY <2>2, <2>3, <2>4 DEF Explained
<1>5. CASE machine_name[t] = m /\ (Next(t) \/ StoreCondition(t)) /\ ~Adding(t)
  BY <1>5, StoresExplained
<1>6. CASE machine_name[t] = m /\ Save(t)
  BY <1>6, SaveExplained
<1>7. CASE machine_name[t] = m /\ DeleteValues(t) /\ ~Undone(t)
  BY <1>7, DeleteExplained
<1>8. CASE Adding(t) \/ Undone(t)
  BY <1>8 DEF Explained
<1>9. ASSUME ~StoreInitial(t), ~Next(t), ~StoreCondition(t), ~Save(t), ~DeleteValues(t)
      PROVE  saved' = saved /\ tempstore' = tempstore
  BY <1>9 DEF Begin, Handle, OpenAdd, OpenEdit, Submit, SubmitName, Check, Reread, Initialise,
              GetFormId, InitFormId, Populate, Previous, OpenModal, Leave
<1>10. CASE machine_name[t] # m
  BY <1>2, <1>3, <1>10 DEF Alone
<1>11. QED
  BY <1>3, <1>4, <1>5, <1>6, <1>7, <1>8, <1>9, <1>10

(* A request takes away what was stored only by replacing what its own     *)
(* step wrote before, or because another stored it after the reading: but  *)
(* for the first step of an add form, which writes over whatever is there, *)
(* and a finish whose entity has changed since it was saved, there is no   *)
(* other way to lose an edit.                                              *)
THEOREM LostOnlyEverToARace == Spec => LostOnlyToARace
<1>1. IInv /\ [NextState]_vars =>
         [\A t \in Tabs : \A id \in Ids : request'[t] # request[t] =>
            \A e \in Current(id) \ Current(id)' :
               \/ e \in missed[t]
               \/ /\ e.slot # Conditions
                  /\ [by |-> t, nr |-> made'[t], slot |-> e.slot] \in Current(id)'
               \/ Adding(t) \/ Undone(t)]_vars
  <2> SUFFICES ASSUME IInv, NextState,
                      NEW t \in Tabs, NEW id \in Ids, request'[t] # request[t]
               PROVE  Explained(t, id)
    BY DEF Explained
  <2>1. ASSUME NEW m \in Ids
        PROVE  ~Around(m)
    BY <2>1 DEF Around, SaveOutside, DeleteOutside, Expire, tab
  <2>2. PICK u \in Tabs : Begin(u) \/ Handle(u)
    BY <2>1 DEF NextState
  <2>3. Alone(u)
    BY <2>2, TabStep DEF Orderly, IInv
  <2>4. u = t
    BY <2>3 DEF Alone
  <2>5. QED
    BY <2>2, <2>4, TabExplained
<1>2. QED
  BY WizardInvariant, <1>1, PTL DEF Spec, LostOnlyToARace

=============================================================================
