------------------------- MODULE GeocoderProviders -------------------------
(***************************************************************************)
(* The geocoder service: a list of provider entities is tried one after    *)
(* the other until one of them gives a result, and each provider plugin    *)
(* keeps its results in a cache that all PHP processes share.              *)
(*                                                                         *)
(*   Geocoder::geocode(), Geocoder::reverse()     src/Geocoder.php         *)
(*   ProviderBase::process() and its cache        src/ProviderBase.php     *)
(*   ProviderUsingHandlerBase                     handlers, wrapper        *)
(*   GeocoderProvider::getPlugin()                src/Entity               *)
(*   GeocoderApiEnpoints                          calls of the service     *)
(*                                                                         *)
(* An answer of a provider is modelled by what was asked: the method, the  *)
(* plugin, its configuration, the query and the locale.  What the service  *)
(* says is a choice: a result, an empty collection or an exception.  The   *)
(* throttle (GeocoderThrottle) only delays a request and is left out.      *)
(***************************************************************************)
EXTENDS Naturals, Sequences, FiniteSets

CONSTANTS
    Procs,       \* PHP processes
    Providers,   \* geocoder_provider configuration entities
    Plugins,     \* provider plugins
    PluginOf,    \* the plugin of each provider entity
    HandlerOf,   \* what the plugin works with, see Handlers
    Confs,       \* plugin configurations an administrator may save
    LocaleOf,    \* the geocoder.locale option in a configuration
    Langs,       \* interface languages
    Queries,     \* addresses or coordinates
    Methods,     \* methods that the callers use
    Lists,       \* provider lists that the callers are configured with
    NoLocale,    \* no locale: option not set, or wrapper not built
    NoAnswer,    \* NULL
    NoCall       \* the process has not called the service yet

(* The handler of a plugin: a geocoder-php Provider, a GeoPHP file reader   *)
(* (GeometryProviderInterface), or none: a plugin that extends ProviderBase *)
(* directly.                                                                *)
Handlers == {"php", "geometry", "none"}

ASSUME ConfigAssumption ==
    /\ PluginOf \in [Providers -> Plugins]
    /\ HandlerOf \in [Plugins -> Handlers]
    /\ LocaleOf \in [Confs -> Langs \union {NoLocale}]
    /\ Methods \subseteq {"geocode", "reverse", "geocodeQuery"}
    /\ Lists \subseteq Seq(Providers)
    /\ NoLocale \notin Langs

Switch == {"on", "off"}

(* The parts of a cache id, ProviderBase::getCacheId().                    *)
Key == [method : Methods, plugin : Plugins, conf : Confs,
        query : Queries, locale : Langs]

(* What a provider gave, and the request it gave it for.                   *)
Answer == [empty : BOOLEAN, to : Key]

(* The arguments of a call.                                                *)
Request == [method : Methods, query : Queries]

ASSUME SentinelAssumption == NoAnswer \notin Answer /\ NoCall \notin Request

(* A plugin object: its configuration, and the locale its StatefulGeocoder *)
(* was built with.                                                         *)
Plugin == [conf : Confs, wrapper : Langs \union {NoLocale}]

Failure == {"raised", "empty", "unable"}

Location == {"idle",     \* no providers loaded
             "ready",    \* providers loaded, no call under way
             "next",     \* head of the loop over the providers
             "asking",   \* the provider was asked, no answer yet
             "storing",  \* between the answer and cacheBackend->set()
             "judging",  \* process() returned to Geocoder::geocode()
             "done",     \* the call returned
             "aborted"}  \* a TypeError left the loop

VARIABLES
    cacheOn,   \* geocoder.settings:cache
    conf,      \* the stored configuration of each provider entity
    cache,     \* the cache bin: a function on the ids in use
    pc,        \* location of each process
    setting,   \* its copy of the setting, config objects are read once
    lang,      \* its interface language, while it has providers
    plugins,   \* its plugin objects, by provider
    order,     \* the provider list of its caller
    call,      \* the call under way or the last one
    todo,      \* providers not tried yet
    failed,    \* how the providers tried before failed (history)
    answer     \* $value in process(), $result in the loop

procVars == <<pc, setting, lang, plugins, order, call, todo, failed, answer>>
vars == <<cacheOn, conf, cache, procVars>>

TypeOK ==
    /\ cacheOn \in Switch
    /\ conf \in [Providers -> Confs]
    /\ DOMAIN cache \subseteq Key
    /\ \A k \in DOMAIN cache : cache[k] \in Answer
    /\ pc \in [Procs -> Location]
    /\ setting \in [Procs -> Switch \union {"unread"}]
    /\ lang \in [Procs -> Langs \union {NoLocale}]
    /\ plugins \in [Procs -> [Providers -> Plugin] \union {<< >>}]
    /\ order \in [Procs -> Lists \union {<< >>}]
    /\ call \in [Procs -> Request \union {NoCall}]
    /\ todo \in [Procs -> Seq(Providers)]
    /\ failed \in [Procs -> Seq(Failure)]
    /\ \A p \in Procs : Len(failed[p]) + Len(todo[p]) <= Len(order[p])
    /\ answer \in [Procs -> Answer \union {NoAnswer}]

(* GeocoderProvider::loadMultiple() gives new entities, and each builds    *)
(* its plugin collection once, with the stored configuration.              *)
Instances == [pr \in Providers |-> [conf |-> conf[pr], wrapper |-> NoLocale]]

Init ==
    /\ cacheOn = "on"
    /\ conf \in [Providers -> Confs]
    /\ cache = << >>
    /\ pc = [p \in Procs |-> "idle"]
    /\ setting = [p \in Procs |-> "unread"]
    /\ lang = [p \in Procs |-> NoLocale]
    /\ plugins = [p \in Procs |-> << >>]
    /\ order = [p \in Procs |-> << >>]
    /\ call = [p \in Procs |-> NoCall]
    /\ todo = [p \in Procs |-> << >>]
    /\ failed = [p \in Procs |-> << >>]
    /\ answer = [p \in Procs |-> NoAnswer]

-----------------------------------------------------------------------------
(* Helpers                                                                 *)

Handler(pr) == HandlerOf[PluginOf[pr]]

(* ProviderBase::getLocale(): the option, else the current language.       *)
Locale(p, pr) ==
    LET option == LocaleOf[plugins[p][pr].conf]
    IN  IF option # NoLocale THEN option ELSE lang[p]

(* Mutant of CacheId: the cache id as it was before the locale was added   *)
(* to it.                                                                  *)
CacheIdWithoutLocale(p, pr) ==
    [method |-> call[p].method, plugin |-> PluginOf[pr],
     conf |-> plugins[p][pr].conf, query |-> call[p].query,
     locale |-> CHOOSE l \in Langs : TRUE]

CacheId(p, pr) ==
    [method |-> call[p].method, plugin |-> PluginOf[pr],
     conf |-> plugins[p][pr].conf, query |-> call[p].query,
     locale |-> Locale(p, pr)]

(* The locale that the request is really made in: that of the wrapper,     *)
(* which is built once per plugin object.                                  *)
WrapperLocale(p, pr) ==
    IF plugins[p][pr].wrapper = NoLocale THEN Locale(p, pr)
    ELSE plugins[p][pr].wrapper

Asked(p, pr) ==
    [CacheId(p, pr) EXCEPT !.locale =
        IF Handler(pr) = "php" THEN WrapperLocale(p, pr) ELSE Locale(p, pr)]

(* The configuration object of a process is read once, at the first use.   *)
SettingSeen(p) == IF setting[p] = "unread" THEN cacheOn ELSE setting[p]
ReadSetting(p) == setting' = [setting EXCEPT ![p] = SettingSeen(p)]

Current(p) == Head(todo[p])

(* Mutant of Fail: the failure is noted, and the provider stays the head.  *)
FailInPlace(p, failure) ==
    /\ failed' = [failed EXCEPT ![p] = Append(@, failure)]
    /\ answer' = [answer EXCEPT ![p] = NoAnswer]
    /\ pc' = [pc EXCEPT ![p] = "next"]
    /\ UNCHANGED todo

(* Mutant of Fail: the loop tries the same provider again.                 *)
FailAndRetry(p, failure) ==
    /\ answer' = [answer EXCEPT ![p] = NoAnswer]
    /\ pc' = [pc EXCEPT ![p] = "next"]
    /\ UNCHANGED <<failed, todo>>

(* The catch block: a warning is logged and the loop goes on.              *)
Fail(p, failure) ==
    /\ failed' = [failed EXCEPT ![p] = Append(@, failure)]
    /\ todo' = [todo EXCEPT ![p] = Tail(@)]
    /\ answer' = [answer EXCEPT ![p] = NoAnswer]
    /\ pc' = [pc EXCEPT ![p] = "next"]

-----------------------------------------------------------------------------
(* Administration                                                          *)

(* SettingsForm: the cache is switched on or off.                          *)
SaveSettings ==
    /\ cacheOn' \in Switch \ {cacheOn}
    /\ UNCHANGED <<conf, cache, procVars>>

(* GeocoderProviderEditForm: new options; objects in memory keep theirs.   *)
EditProvider(pr) ==
    /\ \E c \in Confs \ {conf[pr]} : conf' = [conf EXCEPT ![pr] = c]
    /\ UNCHANGED <<cacheOn, cache, procVars>>

(* The cache bin is emptied, with all the caches of the site.              *)
ClearCache ==
    /\ DOMAIN cache # {}
    /\ cache' = << >>
    /\ UNCHANGED <<cacheOn, conf, procVars>>

-----------------------------------------------------------------------------
(* Calls                                                                   *)

(* A caller loads its providers, in a new process or in one that has seen  *)
(* the settings before; the language may differ from the last time.        *)
LoadProviders(p) ==
    /\ pc[p] = "idle"
    /\ pc' = [pc EXCEPT ![p] = "ready"]
    /\ plugins' = [plugins EXCEPT ![p] = Instances]
    /\ \E l \in Langs : lang' = [lang EXCEPT ![p] = l]
    /\ \E list \in Lists : order' = [order EXCEPT ![p] = list]
    /\ \E s \in {"unread", setting[p]} : setting' = [setting EXCEPT ![p] = s]
    /\ UNCHANGED <<cacheOn, conf, cache, call, todo, failed, answer>>

(* geocode() or reverse() is called, for one more value of the field.      *)
Call(p) ==
    /\ pc[p] \in {"ready", "done"}
    /\ pc' = [pc EXCEPT ![p] = "next"]
    /\ \E request \in Request : call' = [call EXCEPT ![p] = request]
    /\ todo' = [todo EXCEPT ![p] = order[p]]
    /\ failed' = [failed EXCEPT ![p] = << >>]
    /\ answer' = [answer EXCEPT ![p] = NoAnswer]
    /\ UNCHANGED <<cacheOn, conf, cache, setting, lang, plugins, order>>

(* The list is exhausted: the call returns NULL.                           *)
GiveUp(p) ==
    /\ pc[p] = "next" /\ todo[p] = << >>
    /\ pc' = [pc EXCEPT ![p] = "done"]
    /\ UNCHANGED <<cacheOn, conf, cache, setting, lang, plugins, order,
                   call, todo, failed, answer>>

AtProvider(p) == pc[p] = "next" /\ todo[p] # << >>

(* The plugin is no ProviderGeocoderPhpInterface: $result stays as it is,  *)
(* not set or empty, and the loop throws.                                  *)
Unable(p) ==
    /\ AtProvider(p)
    /\ call[p].method = "geocodeQuery" /\ Handler(Current(p)) = "none"
    /\ Fail(p, "unable")
    /\ UNCHANGED <<cacheOn, conf, cache, setting, lang, plugins, order,
                   call>>

(* A GeoPHP handler cannot be wrapped in a StatefulGeocoder, and           *)
(* geocodeQuery() returns NULL from a method declared to return a          *)
(* Collection: both are a TypeError, which catch (\Exception) lets pass.   *)
Mistyped(p) == Handler(Current(p)) = "geometry" /\ call[p].method # "geocode"

Abort(p) ==
    /\ AtProvider(p)
    /\ Mistyped(p)
    /\ IF call[p].method = "reverse" THEN ReadSetting(p) ELSE UNCHANGED setting
    /\ pc' = [pc EXCEPT ![p] = "aborted"]
    /\ UNCHANGED <<cacheOn, conf, cache, lang, plugins, order, call,
                   todo, failed, answer>>

Asks(p) ==
    /\ AtProvider(p)
    /\ ~Mistyped(p)
    /\ ~(call[p].method = "geocodeQuery" /\ Handler(Current(p)) = "none")

(* The cache is on for this process and holds the answer to the call.      *)
Stored(p) == SettingSeen(p) = "on" /\ CacheId(p, Current(p)) \in DOMAIN cache

(* getCache() finds an answer.                                             *)
Hit(p) ==
    /\ Asks(p) /\ Stored(p)
    /\ ReadSetting(p)
    /\ answer' = [answer EXCEPT ![p] = cache[CacheId(p, Current(p))]]
    /\ pc' = [pc EXCEPT ![p] = "judging"]
    /\ UNCHANGED <<cacheOn, conf, cache, lang, plugins, order, call,
                   todo, failed>>

(* Nothing in the cache: the provider is asked, and the wrapper is built   *)
(* if this is the first request of the plugin object.                      *)
Miss(p) ==
    /\ Asks(p) /\ ~Stored(p)
    /\ ReadSetting(p)
    /\ IF Handler(Current(p)) = "php"
       THEN plugins' = [plugins EXCEPT ![p][Current(p)].wrapper =
                            WrapperLocale(p, Current(p))]
       ELSE UNCHANGED plugins
    /\ pc' = [pc EXCEPT ![p] = "asking"]
    /\ UNCHANGED <<cacheOn, conf, cache, lang, order, call, todo,
                   failed, answer>>

(* The request fails, in the network or in the handler.                    *)
Raise(p) ==
    /\ pc[p] = "asking"
    /\ Fail(p, "raised")
    /\ UNCHANGED <<cacheOn, conf, cache, setting, lang, plugins, order,
                   call>>

(* The provider answers, with a result or with an empty collection.  A     *)
(* GeoPHP handler has a geometry or throws.                                *)
Reply(p) ==
    /\ pc[p] = "asking"
    /\ \E none \in BOOLEAN :
          /\ Handler(Current(p)) = "geometry" => ~none
          /\ answer' = [answer EXCEPT ![p] =
                            [empty |-> none, to |-> Asked(p, Current(p))]]
    /\ pc' = [pc EXCEPT ![p] = "storing"]
    /\ UNCHANGED <<cacheOn, conf, cache, setting, lang, plugins, order,
                   call, todo, failed>>

(* setCache(): permanent, whatever the answer.                             *)
SetCache(p) ==
    /\ pc[p] = "storing"
    /\ cache' = IF setting[p] = "on"
                THEN [k \in DOMAIN cache \union {CacheId(p, Current(p))} |->
                         IF k = CacheId(p, Current(p)) THEN answer[p]
                         ELSE cache[k]]
                ELSE cache
    /\ pc' = [pc EXCEPT ![p] = "judging"]
    /\ UNCHANGED <<cacheOn, conf, setting, lang, plugins, order, call, todo, failed, answer>>

(* Mutant of Useless: only NULL is refused.                                *)
NeverUseless(p) == FALSE

(* An empty result is refused like no result.                              *)
Useless(p) == answer[p].empty

Refuse(p) ==
    /\ pc[p] = "judging" /\ Useless(p)
    /\ Fail(p, "empty")
    /\ UNCHANGED <<cacheOn, conf, cache, setting, lang, plugins, order,
                   call>>

Accept(p) ==
    /\ pc[p] = "judging" /\ ~Useless(p)
    /\ pc' = [pc EXCEPT ![p] = "done"]
    /\ UNCHANGED <<cacheOn, conf, cache, setting, lang, plugins, order,
                   call, todo, failed, answer>>

(* The caller drops its providers, or the error ends the request.          *)
Leave(p) ==
    /\ pc[p] \in {"ready", "done", "aborted"}
    /\ pc' = [pc EXCEPT ![p] = "idle"]
    /\ lang' = [lang EXCEPT ![p] = NoLocale]
    /\ plugins' = [plugins EXCEPT ![p] = << >>]
    /\ order' = [order EXCEPT ![p] = << >>]
    /\ call' = [call EXCEPT ![p] = NoCall]
    /\ todo' = [todo EXCEPT ![p] = << >>]
    /\ failed' = [failed EXCEPT ![p] = << >>]
    /\ answer' = [answer EXCEPT ![p] = NoAnswer]
    /\ UNCHANGED <<cacheOn, conf, cache, setting>>

-----------------------------------------------------------------------------
(* One turn of the loop, and the whole system                              *)

LoopStep(p) == \/ GiveUp(p) \/ Unable(p) \/ Abort(p) \/ Hit(p) \/ Miss(p)
               \/ Raise(p) \/ Reply(p) \/ SetCache(p) \/ Refuse(p)
               \/ Accept(p)

Next ==
    \/ SaveSettings
    \/ \E pr \in Providers : EditProvider(pr)
    \/ ClearCache
    \/ \E p \in Procs : \/ LoadProviders(p) \/ Call(p) \/ LoopStep(p)
                        \/ Leave(p)

Spec == Init /\ [][Next]_vars

(* PHP runs a call to its end, and a request to a provider is answered or  *)
(* times out.  Nobody has to call, and nobody has to edit anything.        *)
FairSpec == Spec /\ \A p \in Procs : WF_vars(LoopStep(p))

-----------------------------------------------------------------------------
(* Properties                                                              *)

(* Whatever the languages, the configurations and the interleaving of the  *)
(* processes, an answer in the cache is filed under the method, plugin,    *)
(* configuration, query and locale that it was given for (getCacheId with  *)
(* getLocale against the locale kept in the handler wrapper).              *)
CacheHoldsOwnAnswers == \A k \in DOMAIN cache : cache[k].to = k

(* A call returns the answer of the first provider in the list that gave   *)
(* one to exactly this question, from the cache or not, and NULL only      *)
(* after every provider has failed (the loop of Geocoder::geocode).        *)
FirstUsableWins ==
    \A p \in Procs : pc[p] = "done" =>
        IF answer[p] = NoAnswer
        THEN Len(failed[p]) = Len(order[p])
        ELSE LET winner == order[p][Len(failed[p]) + 1]
             IN  /\ ~answer[p].empty
                 /\ answer[p].to = CacheId(p, winner)

(* Every call ends, whatever its providers do.                             *)
CallsEnd == \A p \in Procs : pc[p] = "next" ~> pc[p] \in {"done", "aborted"}

=============================================================================
