SPECIFICATION Spec
CONSTANTS
    p1 = p1  p2 = p2
    web = web  web2 = web2  file = file  random = random
    google = google  geojson = geojson  faker = faker
    plain = plain  italian = italian
    en = en  it = it
    Procs = {p1, p2}
    Providers = {web}
    Plugins = {google, geojson, faker}
    PluginOf <- MCPluginOf
    HandlerOf <- MCHandlerOf
    Confs = {plain, italian}
    LocaleOf <- MCLocaleOf
    Langs = {en, it}
    Queries = {"q1"}
    Methods = {"geocode"}
    Lists <- OneList
    NoLocale = NoLocale
    NoAnswer = NoAnswer
    NoCall = NoCall
SYMMETRY ProcSymmetry
INVARIANTS TypeOK CacheHoldsOwnAnswers
