--------------------------- MODULE MCLeafletMap ---------------------------
(* Small instances of LeafletMap for TLC: the settings are families that   *)
(* vary one part of a map at a time.                                       *)
EXTENDS LeafletMap

Plain ==
    [layers |-> << >>, features |-> << >>, layerControl |-> TRUE,
     multiple |-> FALSE, clusterLibrary |-> FALSE, includePath |-> FALSE,
     forced |-> FALSE, zoom |-> 10, fits |-> 13, fitted |-> 13, finer |-> 0, middle |-> TRUE,
     near |-> FALSE, resetControl |-> FALSE, lazy |-> FALSE,
     searchLibrary |-> FALSE]

Keys == <<"osm", "satellite", "terrain">>
BaseLayer(key) == [key |-> key, overlay |-> FALSE, hidden |-> FALSE]

Point(id, entity) ==
    [id |-> id, entity |-> entity, type |-> "point", icon |-> "marker",
     excluded |-> FALSE, parts |-> << >>]
Circle(id, entity) == [Point(id, entity) EXCEPT !.icon = "circle_marker"]
Path(id, entity) == [Point(id, entity) EXCEPT !.type = "path"]
Json(id, entity) == [Point(id, entity) EXCEPT !.type = "json"]
Unknown(id, entity) == [Point(id, entity) EXCEPT !.type = "unknown"]
Collection(id, entity, a, b) ==
    [Point(id, entity) EXCEPT !.type = "collection",
        !.parts = <<[id |-> a, type |-> "point"], [id |-> b, type |-> "path"]>>]

Single(f) == [name |-> "single", group |-> FALSE, label |-> NoLabel,
              disabled |-> FALSE, members |-> <<f>>]
Group(name, label, disabled, members) ==
    [name |-> name, group |-> TRUE, label |-> label, disabled |-> disabled,
     members |-> members]

(* Up to three layers of either kind in any order, with the switcher       *)
(* wanted or not, and a group of features after them or not.               *)
LayerOrders ==
    {[Plain EXCEPT !.layers = [i \in 1 .. n |->
                        [key |-> Keys[i], overlay |-> overlay[i],
                         hidden |-> overlay[i] /\ hidden]],
                   !.layerControl = wanted, !.features = list] :
        n \in {3}, overlay \in [1 .. 3 -> BOOLEAN], hidden \in BOOLEAN,
        wanted \in BOOLEAN,
        list \in {<< >>, <<Group("g", "G", FALSE, <<Point("x", NoEntity)>>)>>}}
    \union
    {[Plain EXCEPT !.layers = <<BaseLayer("osm")>>, !.features = list] :
        list \in {<< >>, <<Group("g", "G", TRUE, <<Point("x", NoEntity)>>)>>}}

(* Groups with and without a label, disabled, empty; entities with several *)
(* features, a collection and a json; with and without clusters.           *)
FeatureLists ==
    {[Plain EXCEPT !.layers = <<BaseLayer("osm")>>, !.multiple = multiple,
                   !.clusterLibrary = cluster, !.includePath = path,
                   !.features =
          <<Single(Point("a", "n1")),
            Group("g", label, disabled,
                  <<Collection("b", "n1", "b1", "b2"), Path("c", "n2"),
                    Json("j", "n2"), Circle("d", "n2")>>),
            Group("h", NoLabel, FALSE, <<Point("e", NoEntity)>>),
            Group("i", "I", FALSE, << >>)>>] :
        multiple \in BOOLEAN, cluster \in BOOLEAN, path \in BOOLEAN,
        label \in {"G", NoLabel}, disabled \in BOOLEAN}

(* A feature that is no layer, alone, in a group or in a collection, after *)
(* a group and before another; with and without clusters.                  *)
Failing ==
    {[Plain EXCEPT !.layers = <<BaseLayer(Vector)>>, !.clusterLibrary = cluster,
                   !.features = <<Group("g", "G", FALSE, <<Point("f1", "n1")>>),
                                  entry, Single(Point("f2", "n2"))>>] :
        cluster \in BOOLEAN,
        entry \in {Single(Unknown("a", NoEntity)),
                   Group("h", "H", FALSE, <<Point("b", "n2"), Unknown("a", "n2")>>),
                   Single([Collection("c", "n2", "c1", "c2") EXCEPT
                              !.parts[2].type = "unknown"])}}

(* The branches of fitBounds(): no feature, one marker, several; forced or *)
(* not; zoom not set; the fit limited; close to the settings; finer; with  *)
(* one middle or two.                                                      *)
Views ==
    {d \in {[Plain EXCEPT !.resetControl = TRUE, !.features = list,
                !.forced = forced, !.zoom = zoom, !.fits = fits,
                !.fitted = fitted, !.finer = finer, !.near = near, !.middle = middle] :
        list \in {<< >>, <<Single(Point("a", NoEntity))>>,
                  <<Single(Path("a", NoEntity))>>},
        forced \in BOOLEAN, zoom \in {0, 10, 15}, fits \in {13, 18},
        fitted \in {12, 13, 18}, finer \in {-2, 0, 2}, near \in BOOLEAN,
        middle \in BOOLEAN} :
     d.fitted <= d.fits}

(* A lazy map with popups, an overlay that takes one away, and the         *)
(* geocoder control.                                                       *)
WithPopups ==
    {[Plain EXCEPT !.layers = <<BaseLayer("osm")>>, !.lazy = TRUE,
                   !.searchLibrary = TRUE,
                   !.features = <<Single(Point("f1", "n1")),
                                  Group("g", "G", disabled,
                                        <<Point("f2", "n2")>>)>>] :
        disabled \in BOOLEAN}

(* A vector layer that can be switched off and on again.                   *)
WithVector ==
    {[Plain EXCEPT !.layers = <<BaseLayer(Vector), BaseLayer("osm")>>,
                   !.resetControl = TRUE, !.searchLibrary = TRUE,
                   !.lazy = lazy] : lazy \in BOOLEAN}

MCDefinitions == LayerOrders \union FeatureLists \union Failing \union Views
                    \union WithPopups \union WithVector

(* Timers and frames of the browser.                                       *)
LeafletFairSpec ==
    /\ LeafletSpec
    /\ WF_leafletVars(Timer /\ UNCHANGED <<mapVars, popupVars>>)
    /\ WF_leafletVars(Frame /\ UNCHANGED <<mapVars, popupVars>>)
    /\ WF_leafletVars(Later /\ UNCHANGED <<mapVars, popupVars>>)

=============================================================================
