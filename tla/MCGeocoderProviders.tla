------------------------ MODULE MCGeocoderProviders ------------------------
(* Small instances of GeocoderProviders for TLC.                           *)
EXTENDS GeocoderProviders, TLC

CONSTANTS
    p1, p2,              \* processes
    web, web2, file, random,  \* provider entities
    google, geojson, faker,   \* plugins
    plain, italian,      \* configurations: no locale option, locale it
    en, it               \* interface languages

MCPluginOf == [pr \in Providers |-> CASE pr = file -> geojson
                                      [] pr = random -> faker
                                      [] OTHER -> google]
MCHandlerOf == [pl \in Plugins |-> CASE pl = geojson -> "geometry"
                                     [] pl = faker -> "none"
                                     [] OTHER -> "php"]
MCLocaleOf == [c \in Confs |-> IF c = italian THEN it ELSE NoLocale]

(* The lists that the callers are configured with.                         *)
OneList == {<<web>>}
(* Every kind of plugin, and two provider entities of one plugin.          *)
MixedLists == {<<random, web, file>>, <<web, web2>>}

ProcSymmetry == Permutations(Procs)

=============================================================================
