---------------------------- MODULE CtoolsWizard ----------------------------
(***************************************************************************)
(* The entity wizards of ctools: a form of several steps whose values wait *)
(* in the shared temp store, under the machine name of the entity, until   *)
(* the last step saves the entity.                                         *)
(*                                                                         *)
(*   WizardFactory::getFormState      reads (or initialises) the values at *)
(*                                    the beginning of every request       *)
(*   FormWizardBase::submitForm       "Next" stores them with the step     *)
(*   EntityFormWizardBase::finish     "Finish" saves the entity and        *)
(*                                    deletes them                         *)
(*   ConditionConfigure, ...          the modal forms of a step store a    *)
(*                                    condition (a context, ...) themselves*)
(*                                                                         *)
(* The temp store is shared: several tabs, of one user or of several, work *)
(* on the same values, and a request reads and writes them in separate     *)
(* statements.  A tab is one browser tab with at most one request at work. *)
(***************************************************************************)
EXTENDS Naturals, FiniteSets

CONSTANTS
    Tabs,       \* browser tabs, with the request each has at work
    Ids,        \* machine names
    LastStep,   \* the operations of the wizard are 1 .. LastStep
    Outside,    \* whoever saves or deletes the entity without the wizard
    None,       \* no entity, nothing in the temp store, no machine name
    MaxEdits,   \* bound: submits of a tab that write something
    MaxOutside  \* bound: events outside of the wizard

ASSUME StepAssumption == LastStep \in Nat /\ LastStep > 1
ASSUME NamesAssumption == None \notin Ids /\ Outside \notin Tabs
ASSUME BoundAssumption == MaxEdits \in Nat /\ MaxOutside \in Nat

(* What is written is known by who wrote it and when.  A step is one slot  *)
(* of the values; conditions are added to the list in slot 0.              *)
Steps == 1 .. LastStep
Conditions == 0
Edit == [by: Tabs \union {Outside}, nr: Nat, slot: Steps \union {Conditions}]

(* The values: the edits in them and the entity object they hold: one that *)
(* is new, one that was loaded, none.                                      *)
Kinds == {"new", "loaded", "missing"}
Values == [edits: SUBSET Edit, entity: Kinds]
Entities == [edits: SUBSET Edit, entity: {"loaded"}]

ASSUME ValuesAssumption == None \notin Values

VARIABLES
    saved,         \* the entity of a machine name
    tempstore,     \* the cached values of a machine name
    request,       \* what the tab is doing
    want,          \* what its request is for
    machine_name,  \* of its wizard, None on the add form
    step,          \* of its wizard
    cached,        \* $cached_values of the request
    made,          \* bound: edits of the tab
    outside,       \* bound: events outside
    missed,        \* ghost: edits stored after a request read the values
    overlapped,    \* ghost: machine names changed under an open tab
    astray         \* ghost: tabs that followed a link to nothing

tab == <<request, want, machine_name, step, cached, made>>
ghosts == <<missed, overlapped, astray>>
vars == <<saved, tempstore, tab, outside, ghosts>>

Requests ==
    {"none",        \* nothing on the tab
     "page",        \* a step is shown
     "check",       \* getFormState is to look into the temp store
     "reread",      \* it has found values and reads them again
     "absent",      \* it has found none and initialises them
     "init",        \* it has initial values to store
     "built",       \* it has what it found, getFormId is to look again
     "unnamed",     \* getFormId has found none and initialises them
     "empty",       \* it is a submit and has found no values at all
     "validated",   \* the submit handler is to run
     "modal",       \* a modal form has read the values
     "delete",      \* the entity is saved, the values are not deleted yet
     "error"}       \* the request ended with an error

Purposes == {"get", "next", "previous", "finish", "condition"}

TypeOK ==
    /\ saved \in [Ids -> Entities \union {None}]
    /\ tempstore \in [Ids -> Values \union {None}]
    /\ request \in [Tabs -> Requests] /\ want \in [Tabs -> Purposes]
    /\ machine_name \in [Tabs -> Ids \union {None}] /\ step \in [Tabs -> Steps]
    /\ cached \in [Tabs -> Values \union {None}]
    /\ made \in [Tabs -> 0 .. MaxEdits] /\ outside \in 0 .. MaxOutside
    /\ missed \in [Tabs -> SUBSET Edit] /\ overlapped \subseteq Ids
    /\ astray \subseteq Tabs

-----------------------------------------------------------------------------
(* Values                                                                  *)

Fresh == [edits |-> {}, entity |-> "new"]
Entity(edits) == [edits |-> edits, entity |-> "loaded"]

(* A step replaces what it wrote before, a condition joins the list.       *)
Replace(edits, e) ==
    {x \in edits : x.slot # e.slot \/ x.slot = Conditions} \union {e}

(* $cached_values[...] = ... makes an array of NULL, without an entity.    *)
With(values, e) ==
    IF values = None THEN [edits |-> {e}, entity |-> "missing"]
    ELSE [edits |-> Replace(values.edits, e), entity |-> values.entity]

NewEdit(t, slot) == [by |-> t, nr |-> made[t] + 1, slot |-> slot]

-----------------------------------------------------------------------------
(* The beginning of a request                                              *)

Go(t, to) == request' = [request EXCEPT ![t] = to]

(* The tab shows something else.                                           *)
Close(t) ==
    /\ Go(t, "none")
    /\ want' = [want EXCEPT ![t] = "get"]
    /\ machine_name' = [machine_name EXCEPT ![t] = None]
    /\ step' = [step EXCEPT ![t] = 1]
    /\ cached' = [cached EXCEPT ![t] = None]

(* The add form has no machine name: its values are not in the temp store. *)
OpenAdd(t) ==
    /\ request[t] = "none" /\ Go(t, "page")
    /\ UNCHANGED <<saved, tempstore, want, machine_name, step, cached, made, outside>>

(* The address of a step, from a link, a bookmark or the history of the    *)
(* browser: the route takes any machine name.                              *)
OpenEdit(t) ==
    /\ request[t] = "none" /\ Go(t, "check")
    /\ want' = [want EXCEPT ![t] = "get"]
    /\ machine_name' \in {[machine_name EXCEPT ![t] = id] : id \in Ids}
    /\ step' \in {[step EXCEPT ![t] = s] : s \in Steps}
    /\ UNCHANGED <<saved, tempstore, cached, made, outside>>

(* Mutant of Submit: the first step has a Previous button too.             *)
SubmitEverywhere(t) ==
    /\ request[t] = "page"
    /\ want' = [want EXCEPT ![t] = "previous"]
    /\ machine_name[t] # None /\ Go(t, "check")
    /\ UNCHANGED <<saved, tempstore, machine_name, step, cached, made, outside>>

(* The buttons of a step: Finish on the last one, Previous but on the      *)
(* first one.                                                              *)
Submit(t) ==
    /\ request[t] = "page"
    /\ \/ want' = [want EXCEPT ![t] = "next"] /\ step[t] < LastStep /\ made[t] < MaxEdits
       \/ want' = [want EXCEPT ![t] = "finish"] /\ step[t] = LastStep /\ made[t] < MaxEdits
       \/ want' = [want EXCEPT ![t] = "previous"] /\ step[t] > 1
    /\ machine_name[t] # None /\ Go(t, "check")
    /\ UNCHANGED <<saved, tempstore, machine_name, step, cached, made, outside>>

(* The add form begins with a new entity and asks for a machine name.  It  *)
(* must be that of no entity, as 'exists' finds, but other values may be   *)
(* waiting under it.                                                       *)
SubmitName(t) ==
    /\ request[t] = "page" /\ made[t] < MaxEdits
    /\ machine_name[t] = None /\ Go(t, "validated")
    /\ want' = [want EXCEPT ![t] = "next"]
    /\ \E id \in Ids :
        saved[id] = None /\ machine_name' = [machine_name EXCEPT ![t] = id]
    /\ cached' = [cached EXCEPT ![t] = Fresh]
    /\ UNCHANGED <<saved, tempstore, step, made, outside>>

(* getFormState: the test for values, and what follows from it.            *)
Check(t) ==
    /\ request[t] = "check"
    /\ Go(t, IF tempstore[machine_name[t]] = None THEN "absent" ELSE "reread")
    /\ UNCHANGED <<saved, tempstore, want, machine_name, step, cached, made, outside>>

(* The form is built with the values that were found.                      *)
Build(t, values) ==
    /\ Go(t, "built")
    /\ cached' = [cached EXCEPT ![t] = IF want[t] = "get" THEN None ELSE values]

(* The second read may find that they have gone.                           *)
Reread(t) ==
    /\ request[t] = "reread" /\ Build(t, tempstore[machine_name[t]])
    /\ UNCHANGED <<saved, tempstore, want, machine_name, step, made, outside>>

(* Mutant of InitValues: the entity is loaded, whatever the temp store has *)
(* received meanwhile.                                                     *)
InitLoaded(t, to) ==
    IF saved[machine_name[t]] = None
    THEN Go(t, "error") /\ UNCHANGED cached
    ELSE Go(t, to) /\ cached' = [cached EXCEPT ![t] = saved[machine_name[t]]]

(* initValues looks again and loads the entity; id() of none is an error.  *)
CanInit(id) == tempstore[id] # None \/ saved[id] # None
InitValues(t, to) ==
    LET id == machine_name[t] IN
    IF ~CanInit(id) THEN Go(t, "error") /\ UNCHANGED cached
    ELSE /\ Go(t, to)
         /\ cached' = [cached EXCEPT ![t] =
                          IF tempstore[id] # None THEN tempstore[id] ELSE saved[id]]

Initialise(t) ==
    /\ request[t] = "absent" /\ InitValues(t, "init")
    /\ UNCHANGED <<saved, tempstore, want, machine_name, step, made, outside>>

StoreInitial(t) ==
    /\ request[t] = "init" /\ Build(t, cached[t])
    /\ tempstore' = [tempstore EXCEPT ![machine_name[t]] = cached[t]]
    /\ UNCHANGED <<saved, want, machine_name, step, made, outside>>

(* The form is shown, or its submit goes on.                               *)
Form(t) == Go(t, IF want[t] = "get" THEN "page"
                 ELSE IF cached[t] = None THEN "empty" ELSE "validated")

(* getFormId looks for values once more and initialises them if there are  *)
(* none.  What it finds only names the operation.                          *)
GetFormId(t) ==
    /\ request[t] = "built"
    /\ IF tempstore[machine_name[t]] = None THEN Go(t, "unnamed") ELSE Form(t)
    /\ UNCHANGED <<saved, tempstore, want, machine_name, step, cached, made, outside>>

InitFormId(t) ==
    /\ request[t] = "unnamed"
    /\ IF CanInit(machine_name[t]) THEN Form(t) ELSE Go(t, "error")
    /\ UNCHANGED <<saved, tempstore, want, machine_name, step, cached, made, outside>>

-----------------------------------------------------------------------------
(* The submit handlers                                                     *)

(* populateCachedValues repairs values that are missing in the request and *)
(* in the temp store; what it finds in the store it does not use.          *)
Populate(t) ==
    /\ request[t] = "empty"
    /\ IF tempstore[machine_name[t]] = None
       THEN InitValues(t, "validated")
       ELSE Go(t, "validated") /\ UNCHANGED cached
    /\ UNCHANGED <<saved, tempstore, want, machine_name, step, made, outside>>

(* A redirect: the next request of the tab.                                *)
Redirect(t, s) ==
    /\ Go(t, "check")
    /\ want' = [want EXCEPT ![t] = "get"]
    /\ step' = [step EXCEPT ![t] = s]
    /\ cached' = [cached EXCEPT ![t] = None]

Previous(t) ==
    /\ request[t] = "validated" /\ want[t] = "previous"
    /\ Redirect(t, step[t] - 1)
    /\ UNCHANGED <<saved, tempstore, machine_name, made, outside>>

(* The step writes into the values and they are stored as a whole.         *)
Next(t) ==
    /\ request[t] = "validated" /\ want[t] = "next"
    /\ tempstore' = [tempstore EXCEPT
                        ![machine_name[t]] = With(cached[t], NewEdit(t, step[t]))]
    /\ made' = [made EXCEPT ![t] = @ + 1]
    /\ Redirect(t, step[t] + 1)
    /\ UNCHANGED <<saved, machine_name, outside>>

(* finish: a new entity cannot be saved over one that exists, and nothing  *)
(* can be saved without an entity.                                         *)
CanSave(values, id) ==
    values # None /\ (values.entity = "loaded" \/ (values.entity = "new" /\ saved[id] = None))

Save(t) ==
    /\ request[t] = "validated" /\ want[t] = "finish"
    /\ LET id == machine_name[t]
       IN  IF CanSave(cached[t], id)
           THEN /\ Go(t, "delete")
                /\ saved' = [saved EXCEPT ![id] = Entity(With(cached[t], NewEdit(t, step[t])).edits)]
                /\ made' = [made EXCEPT ![t] = @ + 1]
           ELSE Go(t, "error") /\ UNCHANGED <<saved, made>>
    /\ UNCHANGED <<tempstore, want, machine_name, step, cached, outside>>

(* Mutant of DeleteValues: finish of the entity wizard does not call that  *)
(* of its parent.                                                          *)
KeepValues(t) ==
    /\ request[t] = "delete" /\ Close(t)
    /\ UNCHANGED <<saved, tempstore, made, outside>>

DeleteValues(t) ==
    /\ request[t] = "delete" /\ Close(t)
    /\ tempstore' = [tempstore EXCEPT ![machine_name[t]] = None]
    /\ UNCHANGED <<saved, made, outside>>

-----------------------------------------------------------------------------
(* A modal form of the step                                                *)

(* Its submit reads the values itself: they must be there.                 *)
OpenModal(t) ==
    /\ request[t] = "page" /\ machine_name[t] # None /\ made[t] < MaxEdits
    /\ want' = [want EXCEPT ![t] = "condition"]
    /\ LET values == tempstore[machine_name[t]]
       IN  /\ Go(t, IF values = None THEN "error" ELSE "modal")
           /\ cached' = [cached EXCEPT ![t] = values]
    /\ UNCHANGED <<saved, tempstore, machine_name, step, made, outside>>

StoreCondition(t) ==
    /\ request[t] = "modal"
    /\ tempstore' = [tempstore EXCEPT
                        ![machine_name[t]] = With(cached[t], NewEdit(t, Conditions))]
    /\ made' = [made EXCEPT ![t] = @ + 1]
    /\ Redirect(t, step[t])
    /\ UNCHANGED <<saved, machine_name, outside>>

-----------------------------------------------------------------------------
(* Around the wizard                                                       *)

Leave(t) ==
    /\ request[t] \in {"page", "error"} /\ Close(t)
    /\ UNCHANGED <<saved, tempstore, made, outside>>

Happens == outside < MaxOutside /\ outside' = outside + 1

(* Another form, or an import, saves the entity.  Values that are waiting  *)
(* do not learn of it and will be saved over it.                           *)
SaveOutside(id) ==
    /\ Happens /\ saved[id] # None
    /\ \E s \in Steps :
        saved' = [saved EXCEPT
                     ![id] = With(@, [by |-> Outside, nr |-> outside + 1, slot |-> s])]
    /\ UNCHANGED <<tempstore, tab>>

DeleteOutside(id) ==
    /\ Happens /\ saved[id] # None
    /\ saved' = [saved EXCEPT ![id] = None]
    /\ UNCHANGED <<tempstore, tab>>

(* The values expire a week after the last write.                          *)
Expire(id) ==
    /\ Happens /\ tempstore[id] # None
    /\ tempstore' = [tempstore EXCEPT ![id] = None]
    /\ UNCHANGED <<saved, tab>>

-----------------------------------------------------------------------------
(* What the properties need to know                                        *)

(* What a visitor finds: the values that are waiting, or the entity.       *)
Edits(values) == IF values = None THEN {} ELSE values.edits
Current(id) == Edits(IF tempstore[id] = None THEN saved[id] ELSE tempstore[id])

(* A request that will write, from its reading of the values to its last   *)
(* write.                                                                  *)
AtWork(t) ==
    /\ \/ request[t] \in {"init", "empty", "validated", "modal", "delete"}
       \/ request[t] \in {"built", "unnamed"} /\ want[t] # "get"
    /\ machine_name[t] # None

(* What a request has missed is what others have made current since it     *)
(* read the values; if it found none, all that has come to wait since.     *)
(* An overlap is over when nothing is waiting and no tab is open.          *)
Observe ==
    /\ missed' = [t \in Tabs |->
          LET before  == Current(machine_name'[t])
              now     == Current(machine_name[t])'
              waiting == Edits(tempstore'[machine_name[t]])
          IN  IF ~(AtWork(t) /\ AtWork(t)' /\ cached'[t] = cached[t]) THEN {}
              ELSE IF request'[t] # request[t] THEN missed[t]
              ELSE missed[t] \union (now \ before)
                             \union (IF cached[t] = None THEN waiting ELSE {})]
    /\ overlapped' =
          {id \in Ids :
              /\ \/ id \in overlapped
                 \/ /\ saved'[id] # saved[id] \/ tempstore'[id] # tempstore[id]
                    /\ \E t \in Tabs : /\ request'[t] = request[t] /\ request[t] # "none"
                                       /\ machine_name[t] = id
              /\ tempstore'[id] # None \/ \E t \in Tabs : machine_name'[t] = id}
    /\ astray' =
          {t \in Tabs :
              /\ request'[t] \notin {"none", "page"}
              /\ t \in astray \/ (request[t] = "none" /\ ~CanInit(machine_name'[t]))}

Init ==
    /\ saved \in [Ids -> {Entity({}), None}]
    /\ tempstore = [id \in Ids |-> None]
    /\ request = [t \in Tabs |-> "none"]
    /\ want = [t \in Tabs |-> "get"]
    /\ machine_name = [t \in Tabs |-> None]
    /\ step = [t \in Tabs |-> 1]
    /\ cached = [t \in Tabs |-> None]
    /\ made = [t \in Tabs |-> 0]
    /\ outside = 0
    /\ missed = [t \in Tabs |-> {}] /\ overlapped = {} /\ astray = {}

Begin(t) ==
    \/ OpenAdd(t) \/ OpenEdit(t) \/ Submit(t) \/ SubmitName(t)
    \/ Check(t) \/ Reread(t) \/ Initialise(t) \/ StoreInitial(t)
    \/ GetFormId(t) \/ InitFormId(t)
Handle(t) ==
    \/ Populate(t) \/ Previous(t) \/ Next(t)
    \/ Save(t) \/ DeleteValues(t)
    \/ OpenModal(t) \/ StoreCondition(t) \/ Leave(t)
Around(id) == SaveOutside(id) \/ DeleteOutside(id) \/ Expire(id)

NextState ==
    /\ (\E t \in Tabs : Begin(t) \/ Handle(t)) \/ (\E id \in Ids : Around(id))
    /\ Observe

Spec == Init /\ [][NextState]_vars

-----------------------------------------------------------------------------
(* Properties                                                              *)

(* The first step of an add form writes: what it writes over it never read. *)
Adding(t) == request[t] = "validated" /\ want[t] = "next" /\ cached[t] = Fresh

(* The entity is not any more what the request has saved.                  *)
Written(t) == With(cached[t], [by |-> t, nr |-> made[t], slot |-> step[t]])
Undone(t) == request[t] = "delete" /\ saved[machine_name[t]] # Entity(Written(t).edits)

(* What the steps of the wizard have stored stays with the wizard or, once *)
(* it is finished, with the entity.  A request of a tab takes from it only *)
(* what its own submit of the same step replaces, and what another tab     *)
(* stored after the request had read the values: the temp store is read at *)
(* the beginning of a request and written as a whole at its end, without a *)
(* lock.  There are two exceptions that need no such race.  An add form    *)
(* looks for an entity of its machine name and not for values: its first   *)
(* step writes over whatever is waiting there, since whenever.  And a      *)
(* finish deletes the values also when the entity that it saved from them  *)
(* has been changed or deleted meanwhile.                                  *)
LostOnlyToARace ==
    [][\A t \in Tabs : \A id \in Ids : request'[t] # request[t] =>
          \A e \in Current(id) \ Current(id)' :
             \/ e \in missed[t]
             \/ /\ e.slot # Conditions
                /\ [by |-> t, nr |-> made'[t], slot |-> e.slot] \in Current(id)'
             \/ Adding(t) \/ Undone(t)]_vars

(* A visitor meets an error only where the entity or the values changed    *)
(* under an open tab of the wizard, while another request has saved the    *)
(* entity and not yet deleted the values, or when the address led to a     *)
(* machine name with neither an entity nor values (a link that outlived    *)
(* the entity, a step of a new one whose values have expired).             *)
ErrorsExplained ==
    \A t \in Tabs : request[t] = "error" =>
        \/ machine_name[t] \in overlapped
        \/ \E q \in Tabs : request[q] = "delete" /\ machine_name[q] = machine_name[t]
        \/ t \in astray

=============================================================================
