SPECIFICATION PassSpec
CONSTANTS
    address = address  point = point  place = place  label = label
    t1 = t1  t2 = t2
    wkt = wkt  geojson = geojson  kml = kml
    Texts = {t1, t2}
    Fields = {address, point, place, label}
    Order <- ChainOrder
    Source <- ChainSource
    Dumper <- ChainDumper
    Broken = {kml}
    GeoAdapters = {wkt}
    FailureHandling <- ChainHandling
    Delta <- ChainDelta
    SkipNotEmptyFields = {label}
    Shapes = {"addresses", "geometry", "collection"}
    HookedFields = {point, place, label}
    MaxValues = 1
    MaxParts = 3
    Null = Null
SYMMETRY TextSymmetry
INVARIANTS PassTypeOK ResultMatchesDelta Derived
