------------------------ MODULE GeocodeFieldProcess ------------------------
(***************************************************************************)
(* _geocoder_field_process() of geocoder_field.module: one pass over the   *)
(* geocoded fields of an entity, in the order of their weights, and in     *)
(* each field one turn per value of its source field.  A field may be the  *)
(* source of another one: an address is geocoded to coordinates, and these *)
(* are reverse geocoded to a place.  The pass runs in hook_entity_presave, *)
(* where the entity knows its original, and in the queue worker, where it  *)
(* does not and where the entity is saved only if the pass returned TRUE.  *)
(*                                                                         *)
(* The variables of the PHP function that are assigned in the loops and    *)
(* not reset in every turn ($geo_collection, $dumper, the failure message) *)
(* are variables here, and keep what the turn before left in them.         *)
(***************************************************************************)
EXTENDS Naturals, Sequences, SequencesExt

CONSTANTS
    Texts,          \* values that a user may type
    Fields,         \* fields of the entity
    Order,          \* geocoded fields by weight, getOrderedGeocodeFields()
    Source,         \* the remote field of each geocoded field
    Dumper,         \* the output format of each geocoded field
    Broken,         \* dumpers whose plugin cannot be created
    GeoAdapters,    \* dumpers that are also geoPHP adapters
    FailureHandling,       \* failure.handling of each field
    Delta,          \* delta_handling of each field
    SkipNotEmptyFields,   \* fields with skip_not_empty_value
    Shapes,         \* what the configured providers may answer with
    HookedFields,   \* fields whose values an alter hook may unset
    MaxValues,      \* bound: values of a source field
    MaxParts,       \* bound: addresses or geometries in one answer
    Null            \* NULL

GeocodedFields == ToSet(Order)
Dumpers == {Dumper[f] : f \in GeocodedFields}

(* An answer of the geocoder service: an AddressCollection, a single       *)
(* geometry or a GeometryCollection.                                       *)
Shape == {"addresses", "geometry", "collection"}

ASSUME FieldAssumption ==
    /\ Order \in Seq(GeocodedFields) /\ GeocodedFields \subseteq Fields
    /\ Source \in [GeocodedFields -> Fields]
    /\ FailureHandling \in [GeocodedFields -> {"preserve", "empty"}]
    /\ Delta \in [GeocodedFields -> {"default", "s_to_m"}]
    /\ Broken \subseteq Dumpers /\ GeoAdapters \subseteq Dumpers
    /\ SkipNotEmptyFields \subseteq GeocodedFields
    /\ HookedFields \subseteq GeocodedFields
    /\ Shapes \subseteq Shape

ASSUME PassBoundAssumption == MaxValues \in Nat /\ MaxParts \in Nat \ {0}

(* A value: what the user typed, and how it was derived from that, one     *)
(* part of an answer in one output format after the other.                 *)
FieldValue == [text : Texts, path : Seq(Nat \X Dumpers)]

Typed(t) == [text |-> t, path |-> << >>]
Dumped(v, part, dumper) == [v EXCEPT !.path = Append(@, <<part, dumper>>)]
Origin(v) == [v EXCEPT !.path = Front(@)]

(* $geo_collection: the value it was given for, its size and its shape.    *)
Answer == [for : FieldValue, size : 1 .. MaxParts, shape : Shapes]

ASSUME NullAssumption == Null \notin FieldValue /\ Null \notin Answer

VARIABLES
    entity,     \* the fields of the entity in memory
    original,   \* the stored fields, $entity->original in presave
    origin,     \* who runs the pass: "none", "insert", "update" or "queue"
    todo,       \* geocoded fields still to process
    delta,      \* the next value of the source field, 0 between fields
    defaults,   \* $default_values, inside a field
    result,     \* $result, inside a field
    geo,        \* $geo_collection
    dumper,     \* $dumper
    changed,    \* the return value
    asked,      \* ghost, inside a field: was the value given to the service?
    loose       \* ghost: fields last set by turns of which some did not ask

local == <<delta, defaults, result, geo, dumper, asked>>
passVars == <<entity, original, origin, todo, local, changed, loose>>

PassTypeOK ==
    /\ entity \in [Fields -> Seq(FieldValue)]
    /\ original \in [Fields -> Seq(FieldValue)]
    /\ origin \in {"none", "insert", "update", "queue"}
    /\ todo \in Seq(GeocodedFields)
    /\ delta \in Nat
    /\ defaults \in Seq(FieldValue)
    /\ result \in Seq(FieldValue \union {Null})
    /\ IF delta = 0 THEN defaults = << >> /\ result = << >>
       ELSE todo # << >> /\ Len(result) >= delta - 1
    /\ geo \in Answer \union {Null}
    /\ dumper \in Dumpers \union {Null}
    /\ changed \in BOOLEAN
    /\ asked \in Seq(BOOLEAN)
    /\ Len(asked) = IF delta = 0 THEN 0 ELSE delta - 1
    /\ loose \in SUBSET GeocodedFields

PassInit ==
    /\ entity = [f \in Fields |-> << >>]
    /\ original = [f \in Fields |-> << >>]
    /\ origin = "none"
    /\ todo = << >>
    /\ delta = 0 /\ defaults = << >> /\ result = << >>
    /\ geo = Null /\ dumper = Null
    /\ changed = FALSE
    /\ asked = << >> /\ loose = {}

-----------------------------------------------------------------------------
(* Helpers                                                                 *)

Field == Head(todo)
Values == entity[Source[Field]]

(* $result[$delta] = v.  The keys of $result are 0, 1, ... without a gap.  *)
PutAt(seq, i, v) == IF i <= Len(seq) THEN [seq EXCEPT ![i] = v]
                    ELSE Append(seq, v)

(* Mutant of NotEmpty: the field keeps its empty items.                    *)
EmptyKept(seq) == seq

(* filterEmptyItems()                                                      *)
Filtered(kept, v) == IF v = Null THEN kept ELSE Append(kept, v)
NotEmpty(seq) == FoldLeft(Filtered, << >>, seq)

AtField == origin # "none" /\ todo # << >> /\ delta = 0
AtValue == delta # 0 /\ delta <= Len(Values)

-----------------------------------------------------------------------------
(* The start of a pass                                                     *)

Begin(by) ==
    /\ origin = "none"
    /\ origin' = by
    /\ todo' = Order
    /\ changed' = FALSE
    /\ UNCHANGED <<original, local, loose>>

(* A user changes the fields that are not geocoded and saves: the entity   *)
(* is new as long as it has never been stored with any value.              *)
UserSaves ==
    /\ \E typed \in [Fields \ GeocodedFields ->
                       UNION {[1 .. n -> Texts] : n \in 0 .. MaxValues}] :
          entity' = [f \in Fields |->
                        IF f \in GeocodedFields THEN entity[f]
                        ELSE [i \in DOMAIN typed[f] |-> Typed(typed[f][i])]]
    /\ Begin(IF \A f \in Fields : original[f] = << >> THEN "insert" ELSE "update")

(* The queue worker loads the entity again and processes it.               *)
WorkerStarts == Begin("queue") /\ UNCHANGED entity

-----------------------------------------------------------------------------
(* The loop over the fields                                                *)

(* Mutant of SameAsOriginal: only the number of values is compared.        *)
SameLength == Len(Values) = Len(original[Source[Field]])

(* PreprocessorPluginManager::sourceFieldIsSameOfOriginal()                *)
SameAsOriginal == Values = original[Source[Field]]

(* The first "continue": nothing to geocode and the value is to be kept,   *)
(* or the source has not changed since the field was filled.               *)
NothingToDo ==
    \/ Values = << >> /\ FailureHandling[Field] = "preserve"
    \/ origin = "update" /\ entity[Field] # << >> /\ SameAsOriginal

SkipUnchanged ==
    /\ AtField /\ NothingToDo
    /\ todo' = Tail(todo)
    /\ UNCHANGED <<entity, original, origin, local, changed, loose>>

(* createInstance() may throw: the error is logged and $dumper stays.      *)
NextDumper == IF Dumper[Field] \in Broken THEN dumper ELSE Dumper[Field]

(* The second "continue": skip_not_empty_value.                            *)
SkipFilled ==
    /\ AtField /\ ~NothingToDo
    /\ Field \in SkipNotEmptyFields /\ entity[Field] # << >>
    /\ dumper' = NextDumper
    /\ todo' = Tail(todo)
    /\ UNCHANGED <<entity, original, origin, delta, defaults, result, geo, asked,
                   changed, loose>>

EnterField ==
    /\ AtField /\ ~NothingToDo
    /\ ~(Field \in SkipNotEmptyFields /\ entity[Field] # << >>)
    /\ dumper' = NextDumper
    /\ defaults' = entity[Field]
    /\ delta' = 1
    /\ UNCHANGED <<entity, original, origin, todo, result, geo, asked, changed, loose>>

-----------------------------------------------------------------------------
(* The loop over the values of the source field                            *)

(* Mutant of Answers: a service that has nothing leaves the last answer.   *)
AnswersKept(v) ==
    {geo} \union {a \in [for : {v}, size : 1 .. MaxParts, shape : Shapes] :
                    a.shape = "geometry" => a.size = 1}

(* What geocode() or reverse() may return for a value.                     *)
Answers(v) ==
    {Null} \union {a \in [for : {v}, size : 1 .. MaxParts, shape : Shapes] :
                    a.shape = "geometry" => a.size = 1}

(* $geo_collection at this turn.  A value that a hook has unset is not     *)
(* given to the service, and the variable stays as it is.                  *)
Consult ==
    \/ /\ geo' \in Answers(Values[delta])
       /\ asked' = Append(asked, TRUE)
    \/ /\ Field \in HookedFields
       /\ geo' = geo
       /\ asked' = Append(asked, FALSE)

(* What the turn stores for answer a, << >> if it counts as a failure.     *)
Parts(a) ==
    LET part(i) == Dumped(a.for, i, dumper)
    IN  IF \/ a = Null \/ dumper = Null
           \/ a.shape # "addresses" /\ dumper \notin GeoAdapters
        THEN << >>
        ELSE IF a.shape # "geometry" /\ Delta[Field] = "s_to_m"
        THEN [i \in 1 .. a.size |-> part(i)]
        ELSE IF a.shape = "addresses" THEN <<part(1)>>   \* first()
        ELSE <<part(0)>>                      \* the geometry as a whole

NextValue == delta' = delta + 1

Appends(a) == a.shape # "addresses" \/ Delta[Field] = "s_to_m"

Store ==
    /\ AtValue
    /\ Consult
    /\ Parts(geo') # << >>
    /\ result' = IF Appends(geo') THEN result \o Parts(geo')
                 ELSE PutAt(result, delta, Parts(geo')[1])
    /\ NextValue
    /\ UNCHANGED <<entity, original, origin, todo, defaults, dumper, changed, loose>>

(* What the failure settings put at delta i.                               *)
Fallback(i) ==
    IF FailureHandling[Field] = "preserve" /\ i <= Len(defaults) THEN defaults[i]
    ELSE Null

FailValue ==
    /\ AtValue
    /\ Consult
    /\ Parts(geo') = << >>
    /\ result' = PutAt(result, delta, Fallback(delta))
    /\ NextValue
    /\ UNCHANGED <<entity, original, origin, todo, defaults, dumper, changed, loose>>

Changed == changed \/ entity'[Field] # defaults

(* The values are exhausted: the field is set and its empty items go.      *)
SetField ==
    /\ delta # 0 /\ delta > Len(Values)
    /\ entity' = [entity EXCEPT ![Field] = NotEmpty(result)]
    /\ changed' = Changed
    /\ todo' = Tail(todo)
    /\ delta' = 0 /\ defaults' = << >> /\ result' = << >> /\ asked' = << >>
    /\ loose' = IF \E i \in DOMAIN asked : ~asked[i] THEN loose \union {Field}
                ELSE loose \ {Field}
    /\ UNCHANGED <<original, origin, geo, dumper>>

-----------------------------------------------------------------------------
(* The end of the pass                                                     *)

(* Presave is over and the storage writes the entity; the worker calls     *)
(* save() only if something changed and drops the entity otherwise.        *)
Finish ==
    /\ origin # "none" /\ todo = << >>
    /\ LET saved == origin # "queue" \/ changed
       IN  /\ original' = IF saved THEN entity ELSE original
           /\ entity' = IF saved THEN entity ELSE original
    /\ origin' = "none"
    /\ geo' = Null /\ dumper' = Null
    /\ changed' = FALSE
    /\ UNCHANGED <<todo, delta, defaults, result, asked, loose>>

PassNext ==
    \/ UserSaves \/ WorkerStarts
    \/ SkipUnchanged \/ SkipFilled \/ EnterField
    \/ Store \/ FailValue \/ SetField
    \/ Finish

PassSpec == PassInit /\ [][PassNext]_passVars

-----------------------------------------------------------------------------
(* Properties                                                              *)

(* The fields whose turn is over.                                          *)
Before == ToSet(SubSeq(Order, 1, Len(Order) - Len(todo)))

(* The values whose answer $geo_collection can hold in turn i: the last    *)
(* one that was given to the service in this field or, if there was none,  *)
(* some value of a field before.                                           *)
AnsweredIn(i) ==
    IF \E j \in 1 .. i : asked[j]
    THEN {Values[j] : j \in {k \in 1 .. i : asked[k] /\ \A l \in k + 1 .. i : ~asked[l]}}
    ELSE UNION {ToSet(entity[Source[f]]) : f \in Before}

(* The formats of the dumper in use: that of the field, and where it cannot *)
(* be created that of a field before.                                      *)
Formats == IF Dumper[Field] \notin Broken THEN {Dumper[Field]}
           ELSE {Dumper[f] : f \in Before} \ Broken

(* With the default delta handling there is one result per value, and the  *)
(* result of a value that was given to the service is derived from that    *)
(* value or is what the failure settings say.  The variables that survive  *)
(* a turn are seen in two cases only: a value that a hook has unset gets   *)
(* the answer to the last value before it that was not unset, and a field  *)
(* whose dumper cannot be created gets the format of a field before it.    *)
ResultMatchesDelta ==
    delta # 0 /\ Delta[Field] = "default" =>
        /\ Len(result) = delta - 1
        /\ \A i \in 1 .. delta - 1 :
              \/ result[i] = Fallback(i)
              \/ \E v \in AnsweredIn(i), part \in {0, 1}, d \in Formats :
                    result[i] = Dumped(v, part, d)

(* A field that empties its failures never keeps a value of a source that  *)
(* is gone: with the fields in the order of their dependence, every stored *)
(* value derives from a value that its source field has now, whatever was  *)
(* typed before, over one save or many and through the chain of fields     *)
(* (the skip conditions, the order of the fields).  Only the answer that   *)
(* is left for a value which a hook has unset may come from elsewhere.     *)
Derived ==
    origin = "none" =>
        \A f \in GeocodedFields \ loose :
            FailureHandling[f] = "empty" /\ f \notin SkipNotEmptyFields =>
            \A i \in DOMAIN entity[f] :
                Origin(entity[f][i]) \in ToSet(entity[Source[f]])

=============================================================================
