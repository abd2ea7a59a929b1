--------------------------- MODULE LeafletWidget ---------------------------
(***************************************************************************)
(* The geofield widget of leaflet.widget.js: the shapes on a map that a    *)
(* visitor draws, edits, cuts and removes with leaflet-geoman, and the     *)
(* text field that will be saved.  A map with GeoJSON overlays has two     *)
(* widgets, "main" and the one that leaflet.geojson_overlays.js makes for  *)
(* itself; both have a group of layers and write the same text.            *)
(*                                                                         *)
(* A geometry is one of Shapes, and the text the set of its geometries.    *)
(* The listeners of one event run in a step, main's first: it registers    *)
(* first.                                                                  *)
(***************************************************************************)
EXTENDS Naturals, FiniteSets, SequencesExt

CONSTANTS
    Maps,        \* the maps of a form
    Shapes,      \* the geometries there are
    Invalid,     \* a text that is no GeoJSON, or GeoJSON without a geometry
    AutoCenter,  \* leaflet_widget.autoCenter
    MaxLayers    \* no cut on a map that has more layers: a bound of the model

ASSUME ShapeAssumption ==
    IsFiniteSet(Shapes) /\ \A shapes \in SUBSET Shapes : Invalid # shapes

VARIABLES
    widgets,     \* the Leaflet_Widget objects of a map
    text,        \* the value of json_selector
    layers,      \* the layers of a map in the order they were made
    start        \* what start_center and start_zoom were taken from

widgetVars == <<widgets, text, layers, start>>

Widgets == {"main", "overlay"}
Layer == [shape : Shapes,
          in : SUBSET Widgets,     \* the drawnItems that hold it
          heard : SUBSET Widgets,  \* the widgets that listen to it
          shown : BOOLEAN]

-----------------------------------------------------------------------------
(* The groups and the text                                                 *)

Group(ls, w) == {l.shape : l \in {k \in ToSet(ls) : w \in k.in}}
Seen(ls) == {l.shape : l \in {k \in ToSet(ls) : k.shown}}
OnPage(ls) == {l.shape : l \in ToSet(ls)}

(* update_text() of the widgets that listen; the last one stays.           *)
update_text(ls, ws, old) ==
    IF ws = {} THEN old
    ELSE Group(ls, IF "overlay" \in ws THEN "overlay" ELSE "main")

Only(ls, those) ==
    FoldLeft(LAMBDA kept, l : IF l \in those THEN Append(kept, l) ELSE kept, << >>, ls)

(* Layers that nothing holds and nobody sees are garbage.                  *)
Kept(ls) == Only(ls, {l \in ToSet(ls) : l.shown \/ l.in # {}})

(* clearLayers() takes a layer off the map, also one that the other widget *)
(* holds as well.                                                          *)
clearLayers(ls, w) ==
    LET Clear(l) == IF w \in l.in
                    THEN [l EXCEPT !.in = @ \ {w}, !.shown = FALSE] ELSE l
    IN  Kept([i \in DOMAIN ls |-> Clear(ls[i])])

(* update_leaflet_widget_map(): what does not parse leaves the map empty.  *)
update_leaflet_widget_map(ls, w, value) ==
    LET New(s) == [shape |-> s, in |-> {w}, heard |-> {w}, shown |-> TRUE]
        shapes == IF value = Invalid THEN << >> ELSE SetToSeq(value)
    IN  clearLayers(ls, w) \o [i \in DOMAIN shapes |-> New(shapes[i])]

(* reset_start_zoom_and_center(), if the widget centers its features.      *)
Centered(old, value) ==
    IF AutoCenter /\ value \notin {Invalid, {}} THEN "text" ELSE old

-----------------------------------------------------------------------------
(* What a visitor does on a map that has its widgets                       *)

Ready(m) == widgets[m] # << >>
Fresh(m) == Shapes \ OnPage(layers[m])

Changed(m, ls, ws) ==
    /\ layers' = [layers EXCEPT ![m] = Kept(ls)]
    /\ text' = [text EXCEPT ![m] = update_text(ls, ws, @)]
    /\ UNCHANGED <<widgets, start>>

(* pm:create reaches every widget of the map.                              *)
Draw(m, s) ==
    LET all == ToSet(widgets[m])
    IN  /\ Ready(m) /\ s \in Fresh(m)
        /\ Changed(m, Append(layers[m], [shape |-> s, in |-> all,
                                         heard |-> all, shown |-> TRUE]), all)

(* pm:edit, pm:update, pm:dragend.                                         *)
Edit(m, i, s) ==
    /\ layers[m][i].shown /\ s \in Fresh(m)
    /\ Changed(m, [layers[m] EXCEPT ![i].shape = s], layers[m][i].heard)

(* pm:remove, after geoman took the layer off the map.                     *)
Erase(m, i) ==
    LET l == layers[m][i]
    IN  /\ l.shown
        /\ Changed(m, [layers[m] EXCEPT ![i] =
                          [l EXCEPT !.in = @ \ l.heard, !.shown = FALSE]],
                   l.heard)

(* The layer that a cut leaves: no listener is added to it.                *)
CutLayer(l, s) == [l EXCEPT !.shape = s, !.in = l.heard, !.heard = {}]

(* The listeners of several layers run one after another, where there are  *)
(* any: those of the last layer write the text that stays.                 *)
LastHeard(ls) ==
    FoldLeft(LAMBDA ws, l : IF l.heard # {} THEN l.heard ELSE ws, {}, ls)

(* pm:cut: every layer under the knife is replaced, in every group that    *)
(* listens to it.                                                          *)
Cut(m, was, s) ==
    LET under == {l \in ToSet(layers[m]) : l.shown /\ l.shape = was}
        hit == Only(layers[m], under)
        old == [i \in DOMAIN layers[m] |->
                   LET l == layers[m][i]
                   IN  IF l \in under THEN [l EXCEPT !.in = @ \ l.heard,
                                                    !.shown = FALSE] ELSE l]
        new == [i \in DOMAIN hit |-> CutLayer(hit[i], s)]
    IN  /\ under # {} /\ s \in Fresh(m) /\ Len(layers[m]) <= MaxLayers
        /\ Changed(m, old \o new, LastHeard(hit))

(* A change of the text field: every widget reads it.                      *)
TypeText(m, value) ==
    LET Read(ls, w) == update_leaflet_widget_map(ls, w, value)
    IN  /\ Ready(m) /\ value # text[m]
        /\ text' = [text EXCEPT ![m] = value]
        /\ layers' = [layers EXCEPT ![m] = FoldLeft(Read, @, widgets[m])]
        /\ start' = [start EXCEPT ![m] = Centered(@, value)]
        /\ UNCHANGED widgets

(* Mutant of Placed: the map is not updated from the text.                 *)
PlacedOnly(ls) == clearLayers(ls, "main")

(* The marker was part of the text; main reads it back.                    *)
Placed(ls) == update_leaflet_widget_map(ls, "main", Group(ls, "main"))

(* An address is selected in the geocoder control of a map with            *)
(* set_marker: only main takes the marker.                                 *)
PlaceMarker(m, s) ==
    LET marked == Append(layers[m], [shape |-> s, in |-> {"main"},
                                     heard |-> {}, shown |-> TRUE])
    IN  /\ Ready(m) /\ s \in Fresh(m)
        /\ text' = [text EXCEPT ![m] = Group(marked, "main")]
        /\ layers' = [layers EXCEPT ![m] = Placed(marked)]
        /\ start' = [start EXCEPT ![m] = Centered(@, {s})]
        /\ UNCHANGED widgets

Texts == {Invalid} \union SUBSET Shapes

Visit(m) ==
    \/ \E s \in Shapes : Draw(m, s) \/ PlaceMarker(m, s)
    \/ \E i \in DOMAIN layers[m] : Erase(m, i) \/ \E s \in Shapes : Edit(m, i, s)
    \/ \E was \in OnPage(layers[m]), s \in Shapes : Cut(m, was, s)
    \/ \E value \in Texts : TypeText(m, value)

-----------------------------------------------------------------------------
(* Properties                                                              *)

WidgetTypeOK ==
    \A m \in Maps :
        /\ widgets[m] \in {<< >>, <<"main">>, <<"main", "overlay">>}
        /\ text[m] \in Texts
        /\ ToSet(layers[m]) \subseteq Layer
        /\ start[m] \in {"settings", "text", "overlays"}

(* What will be saved is what the visitor sees, after any sequence of      *)
(* drawing, editing, removing, typing and geocoding ("make sure that WKT   *)
(* and map are synchronized").  What breaks it is, exactly, a layer that   *)
(* was left by a cut, to which no widget listens, until the text is read   *)
(* again; and on a map with overlays a change that only one of the two     *)
(* widgets got to know (add_layer_listeners, update_text).                 *)
TextFollows ==
    \A m \in Maps :
        LET ls == layers[m]
            unheard == \E l \in ToSet(ls) : l.heard = {}
            apart == /\ Len(widgets[m]) = 2
                     /\ Group(ls, "main") # Group(ls, "overlay")
        IN  Ready(m) /\ ~unheard /\ ~apart =>
                IF text[m] = Invalid THEN Seen(ls) = {} ELSE text[m] = Seen(ls)

=============================================================================
