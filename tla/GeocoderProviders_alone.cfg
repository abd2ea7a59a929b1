SPECIFICATION FairSpec
CONSTANTS
    p1 = p1  p2 = p2
    web = web  web2 = web2  file = file  random = random
    google = google  geojson = geojson  faker = faker
    plain = plain  italian = italian
    en = en  it = it
    Procs = {p1}
    Providers = {web, web2, file, random}
    Plugins = {google, geojson, faker}
    PluginOf <- MCPluginOf
    HandlerOf <- MCHandlerOf
    Confs = {plain}
    LocaleOf <- MCLocaleOf
    Langs = {en}
    Queries = {"q1"}
    Methods = {"geocode", "reverse", "geocodeQuery"}
    Lists <- MixedLists
    NoLocale = NoLocale
    NoAnswer = NoAnswer
    NoCall = NoCall
INVARIANTS FirstUsableWins
PROPERTIES CallsEnd
