-------------------------- MODULE GeojsonOverlays --------------------------
(***************************************************************************)
(* The GeoJSON overlays of widget maps (leaflet.geojson_overlays.js), on a *)
(* form of several maps that are attached together or one after another.   *)
(* The collection, the bounds and the list of promises belong to the       *)
(* behavior, not to a map: every map that is attached starts them anew,    *)
(* and whoever is answered later uses what it finds.                       *)
(*                                                                         *)
(* Promises that are resolved are handled before the browser does anything *)
(* else, so a map is processed in the step that resolves its last one.     *)
(***************************************************************************)
EXTENDS LeafletWidget

CONSTANTS
    Contents,        \* the overlay items of each map
    Remote,          \* items that are given by a URI
    BadJson,         \* items with a value that is no JSON
    Refused,         \* items with a JSON that L.geoJson() throws at
    BadStyle,        \* maps whose overlay style is no JSON
    ZoomToGeojson,   \* zoom_to_geojson
    Edited           \* maps of which the visitor works on one

Items == UNION {Contents[m] : m \in Maps}

ASSUME OverlayAssumption ==
    /\ IsFiniteSet(Maps) /\ "nobody" \notin Maps /\ Edited \subseteq Maps
    /\ \A m, o \in Maps : m # o => Contents[m] \cap Contents[o] = {}

VARIABLES
    focus,       \* the map that the visitor works on: a bound of the model
    reachable,   \* the URIs that will be answered
    collection,  \* self.geoJson, the map that started it, and as history what
                 \* other maps were waiting for then
    promises,    \* for each map the items it is waiting for
    overlays,    \* the collection that a map was processed with
    bounds,      \* self.geoJsonBounds
    overtaken    \* history: maps that were not processed before another came

overlayVars == <<focus, reachable, collection, promises, overlays, bounds, overtaken>>
formVars == <<widgetVars, overlayVars>>

(* A map has its overlays, waits for them, or has none yet.                *)
Unprocessed == [none |-> TRUE]
Pending == [pending |-> TRUE]
Nobody == [owner |-> "nobody", features |-> {}, late |-> {}]

FormInit ==
    /\ widgets = [m \in Maps |-> << >>]
    /\ focus \in Edited
    /\ text \in [Maps -> Texts] /\ \A m \in Maps \ {focus} : text[m] = {}
    /\ layers = [m \in Maps |-> << >>]
    /\ start = [m \in Maps |-> "settings"]
    /\ reachable \in SUBSET (Remote \intersect Items)
    /\ collection = Nobody
    /\ promises = [m \in Maps |-> {}]
    /\ overlays = [m \in Maps |-> Unprocessed]
    /\ bounds = {} /\ overtaken = {}

-----------------------------------------------------------------------------
(* Steps of the behavior, on a record of what it changes                   *)

Now == [collection |-> collection, promises |-> promises,
        overlays |-> overlays, bounds |-> bounds, start |-> start,
        overtaken |-> overtaken]

Becomes(b) ==
    /\ collection' = b.collection /\ promises' = b.promises
    /\ overlays' = b.overlays /\ bounds' = b.bounds /\ start' = b.start
    /\ overtaken' = b.overtaken
    /\ UNCHANGED <<focus, reachable>>

(* processGeoJsonOverlay(): an empty text lets the map zoom to the overlay *)
processGeoJsonOverlay(b, m) ==
    LET extended == b.bounds \union b.collection.features
    IN  IF text[m] = {} /\ ZoomToGeojson
        THEN [b EXCEPT !.bounds = extended, !.start[m] = "overlays"]
        ELSE b

(* Promise.all(): nothing is shown of an empty collection, and nothing at  *)
(* all if L.geoJson() throws at one of its features.                       *)
AllResolved(b, m) ==
    LET c == b.collection
        shown == c.features \intersect Refused = {}
        done == [b EXCEPT !.overlays[m] = [owner |-> c.owner, features |-> c.features,
                                           late |-> c.late, shown |-> shown]]
    IN  IF c.features # {} /\ shown THEN processGeoJsonOverlay(done, m) ELSE done

WithContents(m) == Contents[m] # {}
Styled(m) == WithContents(m) /\ m \notin BadStyle

(* A map without contents, or with a bad style, has no promises at all.    *)
Resolve(b, m) ==
    IF b.overlays[m] = Pending /\ b.promises[m] = {} THEN AllResolved(b, m) ELSE b

Awaited(b) == UNION {b.promises[o] : o \in Maps}
Waiting(b) == {o \in Maps : b.overlays[o] = Pending}

(* Mutant of Restarted: a map that follows adds to the collection.         *)
Continued(b, m) ==
    [b EXCEPT !.collection = [@ EXCEPT !.owner = m, !.late = Awaited(b)],
              !.overtaken = @ \union Waiting(b)]

(* The first lines for every element, with contents or without.            *)
Restarted(b, m) ==
    [b EXCEPT !.collection = [owner |-> m, features |-> {}, late |-> Awaited(b)],
              !.bounds = {},
              !.overtaken = @ \union Waiting(b)]

(* Mutant of AttachOne: values are waited for as well.                     *)
AttachOneAll(b, m) ==
    IF ~Styled(m) THEN Restarted(b, m)
    ELSE [Restarted(b, m) EXCEPT !.promises[m] = Contents[m], !.overlays[m] = Pending]

(* Items with a value are resolved on the spot.                            *)
AttachOne(b, m) ==
    LET values == Contents[m] \ (Remote \union BadJson)
    IN  IF ~Styled(m) THEN Restarted(b, m)
        ELSE [Restarted(b, m) EXCEPT
                 !.collection.features = @ \union values,
                 !.promises[m] = Contents[m] \intersect Remote,
                 !.overlays[m] = Pending]

(* The maps that are new in the document, in the order of the settings:    *)
(* the widget behavior goes through all of them, then the overlays.        *)
Attach(ms) ==
    LET new == ToSet(ms)
        second == {m \in new : WithContents(m)}
        Main(m) == update_leaflet_widget_map(layers[m], "main", text[m])
        attached == FoldLeft(AttachOne,
                        [Now EXCEPT !.start =
                            [m \in Maps |-> IF m \in new
                                            THEN Centered(@[m], text[m])
                                            ELSE @[m]]], ms)
    IN  /\ \A m \in new : ~Ready(m)
        /\ widgets' = [m \in Maps |->
                          IF m \notin new THEN widgets[m]
                          ELSE IF m \in second THEN <<"main", "overlay">>
                          ELSE <<"main">>]
        /\ layers' = [m \in Maps |->
                         IF m \notin new THEN layers[m]
                         ELSE IF m \in second
                         THEN update_leaflet_widget_map(Main(m), "overlay", text[m])
                         ELSE Main(m)]
        /\ Becomes(FoldLeft(Resolve, attached, ms))
        /\ UNCHANGED text

(* Mutant of Fetched: a request that fails is not resolved.                *)
FetchedOrNever(m, i) ==
    [Now EXCEPT !.promises[m] = IF i \in reachable THEN @ \ {i} ELSE @,
                !.collection.features =
                    IF i \in reachable THEN @ \union {i} ELSE @]

(* .done() adds to the collection of that moment, .fail() only resolves.   *)
Fetched(m, i) ==
    [Now EXCEPT !.promises[m] = @ \ {i},
                !.collection.features =
                    IF i \in reachable THEN @ \union {i} ELSE @]

Answer(m, i) ==
    /\ i \in promises[m]
    /\ Becomes(Resolve(Fetched(m, i), m))
    /\ UNCHANGED <<widgets, text, layers>>

LoadNext ==
    \/ \E new \in SUBSET Maps : new # {} /\ \E ms \in SetToSeqs(new) : Attach(ms)
    \/ \E m \in Maps, i \in Items : Answer(m, i)

FormNext == LoadNext \/ (Visit(focus) /\ UNCHANGED overlayVars)

(* Every request is answered or fails.                                     *)
FormSpec ==
    /\ FormInit /\ [][FormNext]_formVars
    /\ \A m \in Maps, i \in Items : WF_formVars(Answer(m, i))

-----------------------------------------------------------------------------
(* Properties                                                              *)

FormTypeOK ==
    /\ WidgetTypeOK
    /\ collection.owner \in Maps \union {"nobody"}
    /\ collection.features \union bounds \subseteq Items
    /\ \A m \in Maps : promises[m] \subseteq Contents[m] \intersect Remote
    /\ collection.late \subseteq Items /\ overtaken \subseteq Maps

Processed(m) == overlays[m] \notin {Unprocessed, Pending}
Usable(m) == Contents[m] \intersect ((Items \ (Remote \union BadJson)) \union reachable)

(* Where a collection may have its features from.                          *)
Sources(c) == Usable(c.owner) \union (c.late \intersect reachable)

(* A map is processed with a collection that it started, unless another    *)
(* map was attached before it had its answers; in its own collection it    *)
(* finds all the overlays it can have.  In any collection there are no     *)
(* other overlays than those of the map that started it and what was       *)
(* awaited by others at that moment, and of an overtaken map what it was   *)
(* still waiting for then (self.geoJson, self.promises).                   *)
OwnOverlays ==
    \A m \in Maps : Processed(m) =>
        LET o == overlays[m]
        IN  /\ o.owner # m => m \in overtaken
            /\ o.owner = m => Usable(m) \subseteq o.features
            /\ o.features \subseteq Sources(o)
            /\ Usable(m) \intersect o.late \subseteq o.features

Served(m) ==
    LET o == overlays[m]
    IN  /\ Processed(m)
        /\ \/ m \in overtaken
           \/ Sources(o) \intersect Refused # {}
           \/ o.shown /\ Usable(m) \subseteq o.features

(* Every map that was attached gets its overlays in the end, whichever     *)
(* requests fail (.fail() calls resolve()), and shows all that can be had, *)
(* but for two: one that was overtaken by another map, and one whose       *)
(* collection may hold a source that L.geoJson() refuses, which takes all  *)
(* the others with it (the catch() of Promise.all()).                      *)
EveryMapServed ==
    \A m \in Maps : (Ready(m) /\ Styled(m)) ~> Served(m)

=============================================================================
