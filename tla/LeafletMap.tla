----------------------------- MODULE LeafletMap -----------------------------
(***************************************************************************)
(* A Leaflet map as leaflet.drupal.js builds it from drupalSettings: the   *)
(* layers and the switcher, the features with their markers and groups,    *)
(* with or without marker clusters, and the view it starts with.  The map  *)
(* composes its popups (LeafletPopups) and its vector layer                *)
(* (MaplibreLayer), and lets a visitor switch, move and reset.             *)
(*                                                                         *)
(* Building a map is one step: loadMap() runs without a pause.  The base   *)
(* and overlay layers are known by their key, the groups and single        *)
(* features of the feature list by a name.                                 *)
(***************************************************************************)
EXTENDS LeafletPopups, MaplibreLayer, Integers, SequencesExt

CONSTANTS
    Definitions,  \* the settings a map may have on this page
    Vector,       \* the key of a base layer of type vector
    NoLabel       \* group_label is NULL: hidden from the switcher

(* What the server writes into the settings: layers and features in an     *)
(* order, numbers for the zooms, and one id for one feature.  A collection *)
(* has parts, and nothing else has.  The types json and unknown come from  *)
(* code that alters the settings, the formatter writes neither.            *)
IsList(s) == s \in Seq(ToSet(s))
Types == {"point", "path", "collection", "json", "unknown"}
WellFormed(f) ==
    /\ {"id", "type", "entity"} \subseteq DOMAIN f /\ f.type \in Types
    /\ IsList(f.parts) /\ \A p \in ToSet(f.parts) : p.type \in Types
    /\ f.parts # << >> <=> f.type = "collection"

ASSUME DefinitionsAssumption ==
    \A d \in Definitions :
        /\ {d.zoom, d.fits, d.fitted, d.finer} \subseteq Int
        /\ d.middle \in BOOLEAN
        /\ IsList(d.layers)
        /\ \A l \in ToSet(d.layers) : l.key # NoLabel /\ l.hidden \in BOOLEAN
        /\ IsList(d.features)
        /\ \A entry \in ToSet(d.features) :
              IsList(entry.members) /\ entry.disabled \in BOOLEAN
        /\ \A f, g \in UNION {ToSet(entry.members) : entry \in ToSet(d.features)} :
              WellFormed(f) /\ (f.id = g.id => f = g)

NoControl == [none |-> TRUE]
NoEntity == "no entity"
World == [center |-> "world", zoom |-> 0]
Elsewhere == [center |-> "elsewhere", zoom |-> 0]

VARIABLES
    definition,  \* the settings of the map
    inits,       \* how often a Drupal.Leaflet object was made
    state,       \* "new", "observed" by the IntersectionObserver, "loaded",
                 \* or "failed" in the middle of loadMap()
    lmap,        \* what was built, see Blank
    view,        \* where the map is
    start        \* start_center and start_zoom

mapVars == <<definition, inits, state, lmap, view, start>>
leafletVars == <<mapVars, popupVars, layerVars>>

Blank == [bases |-> {},            \* base_layers
          overlay |-> FALSE,       \* overlays is not empty
          control |-> NoControl,   \* layer_control
          shown |-> {},            \* layers and entries on the map
          clustered |-> {},        \* features in a cluster group
          markers |-> << >>,       \* markers
          points |-> 0]            \* length of bounds

-----------------------------------------------------------------------------
(* Layers and the switcher                                                 *)

(* At least two base layers, if the switcher is wanted, or an overlay.     *)
InitialiseLayersControl(m) ==
    IF m.control = NoControl
       /\ \/ definition.layerControl /\ Cardinality(m.bases) > 1
          \/ m.overlay
    THEN [m EXCEPT !.control =
             [bases |-> IF Cardinality(m.bases) > 1 THEN m.bases ELSE {},
              overlays |-> {}]]
    ELSE m

Show(m, name) == [m EXCEPT !.shown = @ \union {name}]

(* Mutant of AddBaseLayer: a switcher that exists is not told.             *)
AddBaseLayerQuietly(m, key, first) ==
    LET based == [m EXCEPT !.bases = @ \union {key}]
    IN  InitialiseLayersControl(IF first THEN Show(based, key) ELSE based)

(* Only the first of all layers is added to the map right away.            *)
AddBaseLayer(m, key, first) ==
    LET based == [m EXCEPT !.bases = @ \union {key}]
        added == IF first THEN Show(based, key) ELSE based
    IN  IF m.control = NoControl THEN InitialiseLayersControl(added)
        ELSE [added EXCEPT !.control.bases = @ \union {key}]

(* Mutant of AddOverlay: a group without a label is only kept.             *)
AddOverlayLabelled(m, label, name, hidden) ==
    LET kept == [(IF hidden \/ label = NoLabel THEN m ELSE Show(m, name))
                    EXCEPT !.overlay = TRUE]
    IN  IF label = NoLabel THEN kept
        ELSE LET c == InitialiseLayersControl(kept)
             IN  [c EXCEPT !.control.overlays = @ \union {name}]

(* A label brings the overlay, and if need be the switcher itself.         *)
AddOverlay(m, label, name, hidden) ==
    LET kept == [(IF hidden THEN m ELSE Show(m, name)) EXCEPT !.overlay = TRUE]
    IN  IF label = NoLabel THEN kept
        ELSE LET c == InitialiseLayersControl(kept)
             IN  [c EXCEPT !.control.overlays = @ \union {name}]

(* The layers of the definition in their order.                            *)
AddLayer(m, l) ==
    IF l.overlay THEN AddOverlay(m, l.key, l.key, l.hidden)
    ELSE AddBaseLayer(m, l.key, l = Head(definition.layers))

Initialise == FoldLeft(AddLayer, Blank, definition.layers)

-----------------------------------------------------------------------------
(* Features                                                                *)

(* markers[key] = lFeature                                                 *)
Keep(markers, key, id) ==
    [k \in DOMAIN markers \union {key} |-> IF k = key THEN id ELSE markers[k]]

(* Mutant of PushMarker: one key for an entity, whatever the cardinality.  *)
PushMarkerOnce(m, f) ==
    IF f.entity = NoEntity THEN m
    ELSE [m EXCEPT !.markers = Keep(@, <<f.entity>>, f.id)]

(* The key is the entity, with the first free number if the field takes    *)
(* several values.                                                         *)
PushMarker(m, f) ==
    LET Taken(i) == <<f.entity, i>> \in DOMAIN m.markers
        free == CHOOSE i \in 0 .. Cardinality(DOMAIN m.markers) :
                    ~Taken(i) /\ \A j \in 0 .. i - 1 : Taken(j)
        key == IF definition.multiple THEN <<f.entity, free>> ELSE <<f.entity>>
    IN  IF f.entity = NoEntity THEN m
        ELSE [m EXCEPT !.markers = Keep(@, key, f.id)]

(* What the callers ask of a Leaflet object: whether it is styled, and by  *)
(* a radius, and whether it has one position.                              *)
Marker == [setStyle |-> FALSE, getRadius |-> FALSE, getLatLng |-> TRUE]
CircleMarker == [setStyle |-> TRUE, getRadius |-> TRUE, getLatLng |-> TRUE]
Polyline == [setStyle |-> TRUE, getRadius |-> FALSE, getLatLng |-> FALSE]
PolylineClusterable == [Polyline EXCEPT !.getLatLng = TRUE]
FeatureGroup == [setStyle |-> TRUE, getRadius |-> FALSE, getLatLng |-> FALSE]
GeoJSON == FeatureGroup
NoLayer == [setStyle |-> FALSE, getRadius |-> FALSE, getLatLng |-> FALSE]

(* The icon type of a point decides.                                       *)
CreatePoint(f) == IF f.icon = "circle_marker" THEN CircleMarker ELSE Marker

(* Lines and polygons, simple or multiple.                                 *)
CreatePath == IF definition.includePath THEN PolylineClusterable ELSE Polyline

CreateGeometry(f) ==
    CASE f.type = "point" -> CreatePoint(f)
      [] f.type = "path" -> CreatePath
      [] f.type = "collection" -> FeatureGroup
      [] f.type = "json" -> GeoJSON
      [] OTHER -> NoLayer

(* A point extends the bounds by itself, everything else by two corners.   *)
ExtendMapBounds(m, f) ==
    [m EXCEPT !.points = @ + IF f.type = "point" THEN 1 ELSE 2]

AddToMap(m, f) == PushMarker(ExtendMapBounds(m, f), f)

(* A part has the properties of the collection but for those of its own.   *)
Components(f) ==
    [i \in DOMAIN f.parts |->
        [f EXCEPT !.id = f.parts[i].id, !.type = f.parts[i].type]]

(* A map, a group and a cluster refuse what is no layer with an exception, *)
(* and so do a tooltip and a popup.                                        *)
Refused(f) ==
    \E g \in {f} \union ToSet(Components(f)) : CreateGeometry(g) = NoLayer

(* The parts of a collection are features, and come before it.             *)
CreateFeature(m, f) ==
    AddToMap(FoldLeft(AddToMap, m, Components(f)), f)

(* Without the cluster library: groups are overlays, the rest is added.    *)
AddPlain(m, entry) ==
    LET created == FoldLeft(CreateFeature, m, entry.members)
    IN  IF entry.group
        THEN AddOverlay(created, entry.label, entry.name, entry.disabled)
        ELSE Show(created, entry.name)

(* A path, or a collection, joins the clusters only on request.            *)
Unclustered(f) ==
    LET g == CreateGeometry(f)
    IN  (g.setStyle /\ ~g.getRadius /\ ~definition.includePath) \/ f.excluded

AddMember(m, f) ==
    [CreateFeature(m, f) EXCEPT !.clustered =
        IF Unclustered(f) THEN @ ELSE @ \union {f.id}]

(* With it: a group without any member stays away.                         *)
AddClustered(m, entry) ==
    LET created == FoldLeft(AddMember, m, entry.members)
    IN  IF entry.group /\ entry.members # << >>
        THEN AddOverlay(created, entry.label, entry.name, entry.disabled)
        ELSE created

Entries == ToSet(definition.features)

AddEntries(m, list) ==
    IF definition.clusterLibrary THEN FoldLeft(AddClustered, m, list)
    ELSE FoldLeft(AddPlain, m, list)

(* With clusters, what is in no group is added at the end, as an overlay   *)
(* without a label.                                                        *)
AddFeatures(m) ==
    LET added == AddEntries(m, definition.features)
        single == {e.name : e \in {x \in Entries : ~x.group}}
    IN  IF definition.features = << >> THEN m
        ELSE IF definition.clusterLibrary
        THEN [added EXCEPT !.shown = @ \union single, !.overlay = TRUE]
        ELSE added

-----------------------------------------------------------------------------
(* The view                                                                *)

ZoomAnimationThreshold == 4

(* The target is so close to the view that Leaflet may animate: the same   *)
(* place, or the two middles of the features, which a fit has in sight, or *)
(* the settings if they are near the features.                             *)
Near(a, b) ==
    a = b \/ {a, b} \subseteq {"bounds", "projected"} \/ definition.near

(* setView() of Leaflet: a pan or a zoom that is not too far is left to an *)
(* animation.  A new call stops a pan where it is, but not a zoom that     *)
(* waits for its frame.                                                    *)
SetView(v, to) ==
    LET far == to.zoom - v.at.zoom
        stopped == [v EXCEPT !.pan = v.at.center]
        Reset == [stopped EXCEPT !.at = to, !.pan = to.center]
    IN  IF ~Near(v.at.center, to.center) THEN Reset
        ELSE IF far = 0 THEN [stopped EXCEPT !.pan = to.center]
        ELSE IF far \in -ZoomAnimationThreshold .. ZoomAnimationThreshold
        THEN [stopped EXCEPT !.frames = Append(@, to)]
        ELSE Reset

(* Where the map comes to rest: at the last zoom that was waiting.         *)
Rest(v) == IF v.frames # << >> THEN Last(v.frames)
           ELSE [center |-> v.pan, zoom |-> v.at.zoom]

At(place) == [at |-> place, pan |-> place.center, frames |-> << >>]

(* map_settings.center and zoom; a zoom of 0 counts as not set.            *)
Settings == [center |-> "settings",
             zoom |-> IF definition.zoom = 0 THEN 12 ELSE definition.zoom]
FirstView == IF definition.zoom = 0 THEN At(World) ELSE At(Settings)

(* fitBounds() of Drupal.Leaflet: the view and what it notes as the start, *)
(* to be compared with the view that the calls of setView() end in.        *)
(* Leaflet goes to the middle of the features on the projected map, with   *)
(* the padding of fitbounds_options, and what is noted is the middle in    *)
(* degrees.  These are the same only on one latitude, or as far north as   *)
(* south, and with an even padding: definition.middle.                     *)
Fitted(points) ==
    LET bounds == [center |-> "bounds", zoom |-> definition.fits]
        target == [center |-> IF definition.middle THEN "bounds" ELSE "projected",
                   zoom |-> definition.fitted]
        fit == SetView(FirstView, target)
        one == [bounds EXCEPT !.zoom = definition.zoom]
    IN  IF points = 0
        THEN [v |-> SetView(FirstView, Settings), start |-> Settings]
        ELSE IF points = 1
        THEN [v |-> SetView(fit, [fit.at EXCEPT !.zoom = definition.zoom]),
              start |-> one]
        ELSE [v |-> fit, start |-> bounds]

(* Mutant of Fined: the finer zoom is not part of the start.               *)
FinedOnce(f) ==
    LET to == [f.start EXCEPT !.zoom = @ + definition.finer]
    IN  IF definition.finer = 0 THEN f
        ELSE [v |-> SetView(f.v, to), start |-> f.start]

Fined(f) ==
    LET to == [f.start EXCEPT !.zoom = @ + definition.finer]
    IN  IF definition.finer = 0 THEN f
        ELSE [v |-> SetView(f.v, to), start |-> to]

(* A forced position notes no start: loadMap() takes what the map says.    *)
FitBounds(points) ==
    LET forced == SetView(FirstView, Settings)
    IN  IF definition.forced THEN [v |-> forced, start |-> forced.at]
        ELSE Fined(Fitted(points))

-----------------------------------------------------------------------------
(* Loading                                                                 *)

(* Mutant of Unprocessed: whenever the map becomes visible.                *)
Always == TRUE

(* data('leaflet') === undefined.                                          *)
Unprocessed == inits = 0

LayerFollows(shown) ==
    IF Vector \in shown /\ ~onMap THEN OnAdd
    ELSE IF Vector \notin shown /\ onMap THEN OnRemove
    ELSE UNCHANGED layerVars

Finish ==
    LET built == AddFeatures(Initialise)
        fit == FitBounds(built.points)
    IN  /\ \A e \in Entries : \A f \in ToSet(e.members) : ~Refused(f)
        /\ state' = "loaded"
        /\ lmap' = built
        /\ view' = Rest(fit.v)
        /\ start' = fit.start
        /\ LayerFollows(built.shown)

(* The exception ends loadMap() at an entry: those before it are on the    *)
(* map, there is no fit, no control and no listener of popups.  What the   *)
(* entry itself left in markers and bounds, nobody reads.                  *)
FailAt(n) ==
    LET list == definition.features
        Fails(i) == \E f \in ToSet(list[i].members) : Refused(f)
        built == AddEntries(Initialise, SubSeq(list, 1, n - 1))
    IN  /\ Fails(n) /\ \A i \in 1 .. n - 1 : ~Fails(i)
        /\ state' = "failed"
        /\ lmap' = built
        /\ view' = FirstView.at
        /\ LayerFollows(built.shown)
        /\ UNCHANGED start

LoadMap ==
    /\ inits' = inits + 1
    /\ Finish \/ \E n \in DOMAIN definition.features : FailAt(n)
    /\ UNCHANGED <<definition, popupVars>>

LeafletInit ==
    /\ definition \in Definitions
    /\ inits = 0 /\ state = "new" /\ lmap = Blank
    /\ view = World /\ start = World
    /\ PopupInit /\ LayerInit

(* The behavior is attached once to an element.                            *)
Attach ==
    /\ state = "new"
    /\ IF definition.lazy
       THEN /\ state' = "observed"
            /\ UNCHANGED <<definition, inits, lmap, view, start,
                           popupVars, layerVars>>
       ELSE LoadMap

(* The observer reports every time the map becomes visible.                *)
Intersect ==
    /\ definition.lazy /\ state # "new"
    /\ Unprocessed
    /\ LoadMap

-----------------------------------------------------------------------------
(* What a visitor does with the loaded map                                 *)

Loaded == state = "loaded"
KeepMap == UNCHANGED <<definition, inits, state, lmap, start>>

(* The features on the map because of these entries.                       *)
Holding(names) ==
    UNION {{f.id : f \in ToSet(e.members)} :
              e \in {x \in Entries : x.name \in names}}

(* L.Control.Layers: the layers of the list that are not checked leave the *)
(* map, with their popups, and those that are checked come.                *)
Switch(shown) ==
    /\ lmap' = [lmap EXCEPT !.shown = shown]
    /\ LayerFollows(shown)
    /\ UNCHANGED <<definition, inits, state, view, start>>

ChooseBase(b) ==
    /\ Loaded /\ lmap.control # NoControl
    /\ b \in lmap.control.bases \ lmap.shown
    /\ Switch((lmap.shown \ lmap.control.bases) \union {b})
    /\ UNCHANGED popupVars

Overlays ==
    IF lmap.control = NoControl THEN {} ELSE lmap.control.overlays

ToggleOverlay(o) ==
    /\ Loaded
    /\ IF o \in lmap.shown
       THEN /\ Switch(lmap.shown \ {o})
            /\ IF open \in Holding({o}) THEN Close ELSE UNCHANGED popupVars
       ELSE Switch(lmap.shown \union {o}) /\ UNCHANGED popupVars

(* The view changes, and with it a vector layer.  Without one the events   *)
(* of the map have no listener to be modelled.                             *)
Moves(step) ==
    IF Vector \in lmap.bases THEN step ELSE UNCHANGED layerVars

(* A map that failed has its base layer, and can be moved.                 *)
Move == /\ state \in {"loaded", "failed"} /\ view' = Elsewhere /\ KeepMap
        /\ Moves(Visitor) /\ UNCHANGED popupVars

(* The reset control, or map_reset().                                      *)
ResetView == /\ Loaded /\ definition.resetControl
             /\ view' = start /\ KeepMap
             /\ Moves(Jump \/ AnimateZoom) /\ UNCHANGED popupVars

(* The geocoder control is made if its library is on the page: the address *)
(* is shown, and a popup says so.                                          *)
SelectAddress == /\ Loaded /\ definition.searchLibrary
                 /\ view' = Elsewhere /\ KeepMap
                 /\ Moves(Jump \/ AnimateZoom) /\ OpenSearch

OpenPopup == /\ Loaded /\ \E f \in Features \cap Holding(lmap.shown) : Open(f)
             /\ UNCHANGED <<mapVars, layerVars>>

ClosePopup == Close /\ UNCHANGED <<mapVars, layerVars>>

PopupFails == /\ \E f \in Features : Fail(f)
              /\ UNCHANGED <<mapVars, layerVars>>

PopupArrives(f) == Arrive(f) /\ UNCHANGED <<mapVars, layerVars>>

Background == /\ Browser \/ (onMap /\ Resize)
              /\ UNCHANGED <<mapVars, popupVars>>

LeafletNext ==
    \/ Attach \/ Intersect
    \/ (\E b \in lmap.bases : ChooseBase(b))
    \/ (\E o \in Overlays : ToggleOverlay(o))
    \/ Move \/ ResetView \/ SelectAddress
    \/ OpenPopup \/ ClosePopup \/ PopupFails
    \/ (\E f \in Features : PopupArrives(f))
    \/ Background

LeafletSpec == LeafletInit /\ [][LeafletNext]_leafletVars

-----------------------------------------------------------------------------
(* Properties                                                              *)

LeafletTypeOK ==
    /\ definition \in Definitions
    /\ inits \in 0 .. 1 /\ state \in {"new", "observed", "loaded", "failed"}
    /\ lmap.points \in Nat /\ lmap.overlay \in BOOLEAN
    /\ {view.zoom, start.zoom} \subseteq Int
    /\ PopupTypeOK /\ LayerTypeOK

Members == UNION {ToSet(entry.members) : entry \in Entries}

(* Everything that a loaded map has can be looked at: its base layers, its *)
(* overlay layers, its groups and its single features are on the map or in *)
(* the switcher, whatever order they came in, with and without clusters;   *)
(* except a base layer of a map that wants no switcher, and a group that   *)
(* is both disabled and hidden from the switcher.  And what joined the     *)
(* clusters has a position, or its components have; but for the paths of a *)
(* json, which the clusters show beside them (add_overlay, add_base_layer, *)
(* initialise_layers_control, add_features against create_geometry).       *)
CanBeSeen ==
    Loaded =>
        LET listed == IF lmap.control = NoControl THEN {}
                      ELSE lmap.control.bases \union lmap.control.overlays
            seen == lmap.shown \union listed
        IN  /\ lmap.control # NoControl => lmap.bases \subseteq seen
            /\ lmap.control = NoControl /\ definition.layerControl =>
                  lmap.bases \subseteq lmap.shown
            /\ \A l \in ToSet(definition.layers) : l.overlay => l.key \in seen
            /\ \A entry \in Entries :
                  \/ entry.name \in seen
                  \/ entry.members = << >>
                  \/ entry.disabled /\ entry.label = NoLabel
            /\ \A f \in Members : f.id \in lmap.clustered =>
                  \A g \in {f} \union ToSet(Components(f)) :
                     CreateGeometry(g).getLatLng \/ g.type \in {"collection", "json"}

(* With a field of several values no marker replaces another, and the      *)
(* parts of a collection are kept beside it; with a single value the       *)
(* marker of an entity is its last feature, never a part of one            *)
(* (push_markers_features, create_collection).                             *)
MarkersKept ==
    LET Parts(f) == {p.id : p \in ToSet(f.parts)}
        Of(i) == definition.features[i].members
    IN  Loaded =>
            \A i \in DOMAIN definition.features : \A j \in DOMAIN Of(i) :
                LET f == Of(i)[j]
                IN  f.entity # NoEntity =>
                    IF definition.multiple
                    THEN {f.id} \union Parts(f) \subseteq Range(lmap.markers)
                    ELSE \/ lmap.markers[<<f.entity>>] = f.id
                         \/ \E k \in j + 1 .. Len(Of(i)) :
                                Of(i)[k].entity = f.entity
                         \/ \E k \in i + 1 .. Len(definition.features) :
                                \E g \in ToSet(Of(k)) : g.entity = f.entity

(* The map starts where the reset control will bring it back, in every     *)
(* branch of fitBounds() with its three calls of setView(), but for the    *)
(* cases in which Leaflet makes something else of them: the fit is limited *)
(* by fitbounds_options, the settings are so close to the features that    *)
(* the fit is animated, a finer zoom follows the zoom to one marker that   *)
(* waits for its frame, or the middle of the features on the projected map *)
(* is not that in degrees, and no finer zoom makes up for it.              *)
StartsAtStart ==
    Loaded /\ view # Elsewhere
        => \/ view = start
           \/ definition.fitted # definition.fits
           \/ definition.near
           \/ lmap.points = 1 /\ definition.finer # 0
           \/ lmap.points > 0 /\ ~definition.middle /\ definition.finer = 0

=============================================================================
