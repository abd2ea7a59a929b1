----------------------- MODULE MCGeocodeFieldProcess -----------------------
(* Small instances of GeocodeFieldProcess for TLC.                         *)
EXTENDS GeocodeFieldProcess

CONSTANTS t1, t2, address, point, place, label, wkt, geojson, kml

(* The address is geocoded to points, each point reverse geocoded to a     *)
(* place, and a label is filled from the address once and then kept.  The  *)
(* dumper of the label cannot be created.                                  *)
ChainOrder == <<point, label, place>>
ChainSource == (point :> address) @@ (place :> point) @@ (label :> address)
ChainDumper == (point :> wkt) @@ (place :> geojson) @@ (label :> kml)
ChainHandling == [f \in ToSet(ChainOrder) |-> IF f = label THEN "preserve" ELSE "empty"]
ChainDelta == [f \in ToSet(ChainOrder) |-> IF f = point THEN "s_to_m" ELSE "default"]

TextSymmetry == Permutations(Texts)

=============================================================================
