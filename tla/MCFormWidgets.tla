--------------------------- MODULE MCFormWidgets ---------------------------
(***************************************************************************)
(* Small forms for TLC: one with the widget maps that a visitor works on,  *)
(* one with three maps that wait for overlays, and one with coordinates in *)
(* two fields and two views with an origin.  The scripts of the widgets    *)
(* and of the coordinates share no variable.                               *)
(***************************************************************************)
EXTENDS GeojsonOverlays, GeofieldGeolocation

VARIABLE form

pageVars == <<form, formVars, geolocationVars>>

MCContents == [m \in Maps |-> CASE m = "m1" -> {"value1", "bad1", "uri1"}
                                [] m = "m2" -> {"value2", "uri2"}
                                [] OTHER -> {}]

MCFieldOf == [r \in Rows |-> IF r = "s1" THEN "S" ELSE "R"]
MCRowsIn == [x \in Contexts |-> CASE x \in {"page", "group"} -> <<"r1", "r2", "s1">>
                                  [] x = "fieldR" -> <<"r1", "r2">>
                                  [] x = "fieldS" -> <<"s1">>
                                  [] OTHER -> << >>]
MCOriginsIn == [x \in Contexts |-> CASE x = "page" -> <<"o1", "o2">>
                                     [] x = "viewO" -> <<"o1">>
                                     [] x = "viewP" -> <<"o2">>
                                     [] OTHER -> << >>]

(* The other form is empty, and its browser of one kind.                   *)
NoMaps == \A m \in Maps : text[m] = {} /\ reachable = {} /\ focus = "m1"
NoCoordinates == native /\ \A r \in Rows : value[r] = Empty

PageInit ==
    /\ FormInit /\ GeolocationInit
    /\ \/ form = "maps" /\ NoCoordinates /\ "uri2" \notin reachable
       \/ form = "overlays" /\ NoCoordinates /\ focus = "m1"
       \/ form = "coordinates" /\ NoMaps

PageNext ==
    \/ form = "maps" /\ FormNext /\ widgets'["m2"] = << >>
       /\ UNCHANGED <<form, geolocationVars>>
    \/ form = "overlays" /\ LoadNext /\ UNCHANGED <<form, geolocationVars>>
    \/ form = "coordinates" /\ GeolocationNext /\ value'["r2"] \in {value["r2"], Here}
       /\ UNCHANGED <<form, formVars>>

(* The answers that FormSpec counts on.  The visitor leaves m2 and r2 to   *)
(* the scripts.                                                            *)
PageSpec ==
    /\ PageInit /\ [][PageNext]_pageVars
    /\ \A m \in Maps, i \in Items : WF_formVars(Answer(m, i))

(* The variables of both scripts keep their types.                         *)
PageTypeOK == FormTypeOK /\ GeolocationTypeOK

=============================================================================
