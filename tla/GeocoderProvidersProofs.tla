---------------------- MODULE GeocoderProvidersProofs ----------------------
(***************************************************************************)
(* Theorems about GeocoderProviders for every set of processes, providers, *)
(* plugins, configurations, languages and queries, every list of providers *)
(* and every interleaving of calls with the administration.                *)
(***************************************************************************)
EXTENDS GeocoderProviders, TLAPS

Calling == {"next", "asking", "storing", "judging", "done", "aborted"}

(* A process without providers has no list and no call.                    *)
Resting(p) ==
    /\ pc[p] = "idle" => order[p] = << >>
    /\ pc[p] \in {"idle", "ready"} => todo[p] = << >> /\ failed[p] = << >>

(* Providers are loaded together with a language; a call has arguments.    *)
Loaded(p) ==
    /\ pc[p] # "idle" => plugins[p] \in [Providers -> Plugin] /\ lang[p] \in Langs
    /\ pc[p] \in Calling => call[p] \in Request

(* Every provider of the list has failed, or is still to be tried, in the  *)
(* order of the list.                                                      *)
InOrder(p) ==
    pc[p] \in Calling =>
        /\ Len(failed[p]) + Len(todo[p]) = Len(order[p])
        /\ \A i \in 1..Len(todo[p]) : todo[p][i] = order[p][Len(failed[p]) + i]

(* A handler wrapper has no locale yet, or the one of the cache id.        *)
OwnWrapper(p) ==
    pc[p] # "idle" =>
        \A pr \in Providers : plugins[p][pr].wrapper \in {NoLocale, Locale(p, pr)}

(* Who is asked has a wrapper, if the plugin needs one.                    *)
Wrapped(p) ==
    pc[p] = "asking" /\ Handler(Current(p)) = "php" =>
        plugins[p][Current(p)].wrapper = Locale(p, Current(p))

(* The answer in hand is that of the provider in hand, to this question.   *)
OwnAnswer(p) ==
    /\ pc[p] \in {"asking", "storing", "judging"} => todo[p] # << >>
    /\ pc[p] \in {"next", "asking"} => answer[p] = NoAnswer
    /\ pc[p] \in {"storing", "judging"} =>
          answer[p] \in Answer /\ answer[p].to = CacheId(p, Current(p))
    /\ pc[p] = "done" =>
          \/ answer[p] = NoAnswer /\ todo[p] = << >>
          \/ /\ todo[p] # << >> /\ answer[p] \in Answer
             /\ ~answer[p].empty /\ answer[p].to = CacheId(p, Current(p))

ProcInv(p) ==
    /\ Resting(p) /\ Loaded(p) /\ InOrder(p)
    /\ OwnWrapper(p) /\ Wrapped(p) /\ OwnAnswer(p)

IInv ==
    /\ TypeOK
    /\ \A p \in Procs : ProcInv(p)
    /\ CacheHoldsOwnAnswers

-----------------------------------------------------------------------------
(* Values                                                                  *)

LEMMA LocaleFacts ==
    ASSUME NEW p \in Procs, NEW pr \in Providers,
           plugins[p] \in [Providers -> Plugin], lang[p] \in Langs
    PROVE  /\ plugins[p][pr] \in Plugin /\ plugins[p][pr].conf \in Confs
           /\ PluginOf[pr] \in Plugins /\ Handler(pr) \in Handlers
           /\ Locale(p, pr) \in Langs /\ Locale(p, pr) # NoLocale
  BY ConfigAssumption DEF Locale, Handler, Plugin

LEMMA CacheIdFacts ==
    ASSUME NEW p \in Procs, NEW pr \in Providers,
           plugins[p] \in [Providers -> Plugin], lang[p] \in Langs, call[p] \in Request
    PROVE  CacheId(p, pr) \in Key /\ CacheId(p, pr).locale = Locale(p, pr)
<1>1. call[p].method \in Methods /\ call[p].query \in Queries
  BY DEF Request
<1>2. QED
  BY <1>1, LocaleFacts DEF CacheId, Key

(* What is asked is what the answer will be filed under.                   *)
LEMMA AskedIsFiled ==
    ASSUME NEW p \in Procs, NEW pr \in Providers,
           plugins[p] \in [Providers -> Plugin], lang[p] \in Langs, call[p] \in Request,
           Handler(pr) = "php" => plugins[p][pr].wrapper = Locale(p, pr)
    PROVE  Asked(p, pr) = CacheId(p, pr)
<1>1. WrapperLocale(p, pr) = Locale(p, pr) \/ Handler(pr) # "php"
  BY LocaleFacts DEF WrapperLocale
<1>2. QED
  BY <1>1 DEF Asked, CacheId

(* The head of the list in hand is a provider, and the one in turn.        *)
LEMMA CurrentFacts ==
    ASSUME NEW p \in Procs, todo[p] \in Seq(Providers), todo[p] # << >>
    PROVE  /\ Current(p) \in Providers /\ Current(p) = todo[p][1]
           /\ Len(todo[p]) \in Nat /\ Len(todo[p]) >= 1
  BY DEF Current

(* Dropping the head of a sequence.                                        *)
LEMMA TailFacts ==
    ASSUME NEW S, NEW s \in Seq(S), s # << >>
    PROVE  /\ Tail(s) \in Seq(S) /\ Len(Tail(s)) = Len(s) - 1
           /\ \A i \in 1..Len(Tail(s)) : Tail(s)[i] = s[i + 1]
  OBVIOUS

-----------------------------------------------------------------------------
(* A process and the others                                                *)

Same(q) ==
    /\ pc'[q] = pc[q] /\ lang'[q] = lang[q] /\ plugins'[q] = plugins[q]
    /\ order'[q] = order[q] /\ call'[q] = call[q] /\ todo'[q] = todo[q]
    /\ failed'[q] = failed[q] /\ answer'[q] = answer[q]

OthersSame(p) == \A q \in Procs : q # p => Same(q)

(* What holds of a process depends on nothing but its own variables.       *)
LEMMA Frame ==
    ASSUME NEW q \in Procs, ProcInv(q), Same(q)
    PROVE  ProcInv(q)'
<1>1. /\ Current(q)' = Current(q)
      /\ \A pr : Locale(q, pr)' = Locale(q, pr) /\ CacheId(q, pr)' = CacheId(q, pr)
  BY DEF Same, Current, Locale, CacheId
<1>2. Resting(q)' /\ Loaded(q)' /\ InOrder(q)'
  BY DEF ProcInv, Same, Resting, Loaded, InOrder
<1>3. OwnWrapper(q)' /\ Wrapped(q)'
  BY <1>1 DEF ProcInv, Same, OwnWrapper, Wrapped, Handler
<1>4. OwnAnswer(q)'
  BY <1>1 DEF ProcInv, Same, OwnAnswer
<1>5. QED
  BY <1>2, <1>3, <1>4 DEF ProcInv

(* The catch block: the provider in hand is behind the process.            *)
LEMMA FailStep ==
    ASSUME TypeOK, NEW p \in Procs, ProcInv(p), NEW failure \in Failure,
           pc[p] \in Calling, todo[p] # << >>, Fail(p, failure),
           UNCHANGED <<cacheOn, conf, cache, setting, lang, plugins, order, call>>
    PROVE  TypeOK' /\ ProcInv(p)' /\ OthersSame(p)
<1>1. /\ todo[p] \in Seq(Providers) /\ failed[p] \in Seq(Failure)
      /\ order[p] \in Seq(Providers)
      /\ pc'[p] = "next" /\ todo'[p] = Tail(todo[p])
      /\ failed'[p] = Append(failed[p], failure) /\ answer'[p] = NoAnswer
  BY ConfigAssumption DEF Fail, TypeOK
<1>2. /\ Tail(todo[p]) \in Seq(Providers) /\ Len(Tail(todo[p])) = Len(todo[p]) - 1
      /\ \A i \in 1..Len(Tail(todo[p])) : Tail(todo[p])[i] = todo[p][i + 1]
  BY <1>1, TailFacts
<1>3. /\ Append(failed[p], failure) \in Seq(Failure)
      /\ Len(Append(failed[p], failure)) = Len(failed[p]) + 1
  BY <1>1
<1>4. PICK f \in Nat, t \in Nat, o \in Nat :
          Len(failed[p]) = f /\ Len(todo[p]) = t /\ Len(order[p]) = o
  <2>1. Len(failed[p]) \in Nat /\ Len(todo[p]) \in Nat /\ Len(order[p]) \in Nat
    BY <1>1
  <2>2. QED
    BY <2>1, Zenon
<1>5. f + t = o /\ \A i \in 1..t : todo[p][i] = order[p][f + i]
  BY <1>4 DEF ProcInv, InOrder
<1>6. Len(failed'[p]) = f + 1 /\ Len(todo'[p]) = t - 1 /\ order'[p] = order[p]
  BY <1>1, <1>2, <1>3, <1>4
<1>7. OthersSame(p)
  BY DEF Fail, OthersSame, Same, TypeOK
<1>8. TypeOK'
  <2>1. (f + 1) + (t - 1) = o
    BY <1>5
  <2>2. \A q \in Procs : Len(failed[q]) + Len(todo[q]) <= Len(order[q])
    BY DEF TypeOK
  <2>3. \A q \in Procs : Len(failed'[q]) + Len(todo'[q]) <= Len(order'[q])
    <3> SUFFICES ASSUME NEW q \in Procs
                 PROVE  Len(failed'[q]) + Len(todo'[q]) <= Len(order'[q])
      OBVIOUS
    <3>1. CASE q = p
      <4>1. Len(order'[p]) = o
        BY <1>4, <1>6
      <4>2. Len(failed'[p]) + Len(todo'[p]) <= Len(order'[p])
        BY <1>6, <2>1, <4>1
      <4>3. QED
        BY <3>1, <4>2
    <3>2. CASE q # p
      BY <1>7, <2>2, <3>2 DEF OthersSame, Same
    <3>3. QED
      BY <3>1, <3>2
  <2>4. QED
    BY <1>2, <1>3, <2>3 DEF TypeOK, Fail, Location
<1>9. InOrder(p)'
  <2>1. Len(failed'[p]) + Len(todo'[p]) = Len(order'[p])
    BY <1>4, <1>5, <1>6
  <2>2. ASSUME NEW i \in 1..Len(todo'[p])
        PROVE  todo'[p][i] = order'[p][Len(failed'[p]) + i]
    <3>1. i \in Nat /\ i + 1 \in 1..t /\ f + (i + 1) = (f + 1) + i
      BY <1>6
    <3>2. todo'[p][i] = todo[p][i + 1]
      BY <1>1, <1>2
    <3>3. QED
      BY <1>5, <1>6, <3>1, <3>2
  <2>3. QED
    BY <2>1, <2>2 DEF InOrder
<1>10. /\ lang'[p] = lang[p] /\ plugins'[p] = plugins[p] /\ call'[p] = call[p]
       /\ order'[p] = order[p]
       /\ \A pr : Locale(p, pr)' = Locale(p, pr)
  BY DEF Locale
<1>11. Resting(p)' /\ Loaded(p)'
  BY <1>1, <1>10 DEF ProcInv, Resting, Loaded, Calling
<1>12. OwnWrapper(p)' /\ Wrapped(p)' /\ OwnAnswer(p)'
  BY <1>1, <1>10 DEF ProcInv, OwnWrapper, Wrapped, OwnAnswer, Calling
<1>13. QED
  BY <1>7, <1>8, <1>9, <1>11, <1>12 DEF ProcInv

-----------------------------------------------------------------------------
(* The steps of a call                                                     *)

Promise(p) == TypeOK' /\ ProcInv(p)' /\ OthersSame(p)

LEMMA LoadStep ==
    ASSUME TypeOK, NEW p \in Procs, ProcInv(p), LoadProviders(p)
    PROVE  Promise(p) /\ UNCHANGED cache
<1>1. PICK l \in Langs, list \in Lists, s \in {"unread", setting[p]} :
          /\ lang' = [lang EXCEPT ![p] = l]
          /\ order' = [order EXCEPT ![p] = list]
          /\ setting' = [setting EXCEPT ![p] = s]
  BY DEF LoadProviders
<1>2. /\ todo[p] = << >> /\ failed[p] = << >> /\ list \in Seq(Providers)
      /\ pc[p] = "idle" /\ pc'[p] = "ready" /\ todo' = todo /\ failed' = failed
      /\ answer' = answer /\ call' = call
  BY ConfigAssumption DEF LoadProviders, ProcInv, Resting, TypeOK
<1>3. Instances \in [Providers -> Plugin] /\ \A pr \in Providers : Instances[pr].wrapper = NoLocale
  BY DEF Instances, Plugin, TypeOK
<1>4. OthersSame(p)
  BY <1>1 DEF LoadProviders, OthersSame, Same, TypeOK
<1>5. plugins'[p] = Instances /\ lang'[p] = l /\ order'[p] = list
  BY <1>1 DEF LoadProviders, TypeOK
<1>6. TypeOK'
  <2>1. Len(failed'[p]) + Len(todo'[p]) <= Len(order'[p])
    <3>1. PICK n \in Nat : Len(list) = n
      <4>1. Len(list) \in Nat
        BY <1>2
      <4>2. QED
        BY <4>1, Zenon
    <3>2. Len(failed'[p]) = 0 /\ Len(todo'[p]) = 0 /\ Len(order'[p]) = n
      BY <1>2, <1>5, <3>1
    <3>3. QED
      BY <3>2
  <2>2. \A q \in Procs : Len(failed[q]) + Len(todo[q]) <= Len(order[q])
    BY DEF TypeOK
  <2>3. \A q \in Procs : Len(failed'[q]) + Len(todo'[q]) <= Len(order'[q])
    BY <1>4, <2>1, <2>2 DEF OthersSame, Same
  <2>4. QED
    BY <1>1, <1>2, <1>3, <2>3, ConfigAssumption DEF LoadProviders, TypeOK, Location
<1>7. Resting(p)' /\ Loaded(p)' /\ InOrder(p)'
  BY <1>2, <1>3, <1>5 DEF Resting, Loaded, InOrder, Calling
<1>8. OwnWrapper(p)' /\ Wrapped(p)' /\ OwnAnswer(p)'
  BY <1>2, <1>3, <1>5 DEF OwnWrapper, Wrapped, OwnAnswer
<1>9. QED
  BY <1>4, <1>6, <1>7, <1>8 DEF Promise, ProcInv, LoadProviders

LEMMA CallStep ==
    ASSUME TypeOK, NEW p \in Procs, ProcInv(p), Call(p)
    PROVE  Promise(p) /\ UNCHANGED cache
<1>1. PICK request \in Request : call' = [call EXCEPT ![p] = request]
  BY DEF Call
<1>2. /\ pc[p] \in {"ready", "done"} /\ pc'[p] = "next" /\ order[p] \in Seq(Providers)
      /\ todo'[p] = order[p] /\ failed'[p] = << >> /\ answer'[p] = NoAnswer
      /\ call'[p] = request /\ order' = order /\ plugins' = plugins /\ lang' = lang
  <2>1. order[p] \in Seq(Providers)
    BY ConfigAssumption DEF TypeOK
  <2>2. QED
    BY <1>1, <2>1 DEF Call, TypeOK
<1>3. OthersSame(p)
  BY <1>1 DEF Call, OthersSame, Same, TypeOK
<1>4. /\ Len(order[p]) \in Nat /\ Len(<< >>) = 0
      /\ \A i \in 1..Len(order[p]) : order[p][i] = order[p][0 + i]
  BY <1>2
<1>5. TypeOK'
  <2>1. Len(failed'[p]) + Len(todo'[p]) <= Len(order'[p])
    BY <1>2, <1>4
  <2>2. \A q \in Procs : Len(failed[q]) + Len(todo[q]) <= Len(order[q])
    BY DEF TypeOK
  <2>3. \A q \in Procs : Len(failed'[q]) + Len(todo'[q]) <= Len(order'[q])
    BY <1>3, <2>1, <2>2 DEF OthersSame, Same
  <2>4. QED
    BY <1>1, <1>2, <2>3 DEF Call, TypeOK, Location
<1>6. InOrder(p)'
  BY <1>2, <1>4 DEF InOrder
<1>7. Resting(p)' /\ Loaded(p)'
  BY <1>2 DEF ProcInv, Resting, Loaded, Calling
<1>8. OwnWrapper(p)' /\ Wrapped(p)' /\ OwnAnswer(p)'
  BY <1>2 DEF ProcInv, OwnWrapper, Wrapped, OwnAnswer, Locale
<1>9. QED
  BY <1>3, <1>5, <1>6, <1>7, <1>8 DEF Promise, ProcInv, Call

(* Steps that keep the list of the call and the plugins.                   *)
LEMMA GiveUpStep ==
    ASSUME TypeOK, NEW p \in Procs, ProcInv(p), GiveUp(p)
    PROVE  Promise(p) /\ UNCHANGED cache
<1>1. TypeOK' /\ OthersSame(p)
  BY DEF GiveUp, TypeOK, OthersSame, Same, Location
<1>2. pc[p] = "next" /\ pc'[p] = "done" /\ todo[p] = << >>
  BY DEF GiveUp, TypeOK
<1>3. Resting(p)' /\ Loaded(p)' /\ InOrder(p)'
  BY <1>2 DEF GiveUp, ProcInv, Resting, Loaded, InOrder, Calling
<1>4. OwnWrapper(p)' /\ Wrapped(p)' /\ OwnAnswer(p)'
  BY <1>2 DEF GiveUp, ProcInv, OwnWrapper, Wrapped, OwnAnswer, Locale
<1>5. QED
  BY <1>1, <1>3, <1>4 DEF Promise, ProcInv, GiveUp

LEMMA AbortStep ==
    ASSUME TypeOK, NEW p \in Procs, ProcInv(p), Abort(p)
    PROVE  Promise(p) /\ UNCHANGED cache
<1>1. TypeOK' /\ OthersSame(p)
  BY DEF Abort, ReadSetting, SettingSeen, Switch, TypeOK, OthersSame, Same, Location
<1>2. pc[p] = "next" /\ pc'[p] = "aborted"
  BY DEF Abort, AtProvider, TypeOK
<1>3. Resting(p)' /\ Loaded(p)' /\ InOrder(p)'
  BY <1>2 DEF Abort, ProcInv, Resting, Loaded, InOrder, Calling
<1>4. OwnWrapper(p)' /\ Wrapped(p)' /\ OwnAnswer(p)'
  BY <1>2 DEF Abort, ProcInv, OwnWrapper, Wrapped, OwnAnswer, Locale
<1>5. QED
  BY <1>1, <1>3, <1>4 DEF Promise, ProcInv, Abort

LEMMA HitStep ==
    ASSUME TypeOK, CacheHoldsOwnAnswers, NEW p \in Procs, ProcInv(p), Hit(p)
    PROVE  Promise(p) /\ UNCHANGED cache
<1>1. /\ pc[p] = "next" /\ pc'[p] = "judging" /\ todo[p] # << >>
      /\ CacheId(p, Current(p)) \in DOMAIN cache
      /\ answer'[p] = cache[CacheId(p, Current(p))]
  BY DEF Hit, Asks, AtProvider, Stored, TypeOK
<1>2. answer'[p] \in Answer /\ answer'[p].to = CacheId(p, Current(p))
  BY <1>1 DEF TypeOK, CacheHoldsOwnAnswers
<1>3. TypeOK' /\ OthersSame(p)
  BY <1>1, <1>2 DEF Hit, ReadSetting, SettingSeen, Switch, TypeOK, OthersSame, Same, Location
<1>4. Current(p)' = Current(p) /\ \A pr : CacheId(p, pr)' = CacheId(p, pr)
  BY DEF Hit, Current, CacheId, Locale
<1>5. Resting(p)' /\ Loaded(p)' /\ InOrder(p)'
  BY <1>1 DEF Hit, ProcInv, Resting, Loaded, InOrder, Calling
<1>6. OwnWrapper(p)' /\ Wrapped(p)'
  BY <1>1 DEF Hit, ProcInv, OwnWrapper, Wrapped, Locale
<1>7. OwnAnswer(p)'
  BY <1>1, <1>2, <1>4 DEF Hit, OwnAnswer
<1>8. QED
  BY <1>3, <1>5, <1>6, <1>7 DEF Promise, ProcInv, Hit

(* The wrapper is built in the locale of the cache id.                     *)
LEMMA MissStep ==
    ASSUME TypeOK, NEW p \in Procs, ProcInv(p), Miss(p)
    PROVE  Promise(p) /\ UNCHANGED cache
<1>1. /\ pc[p] = "next" /\ pc'[p] = "asking" /\ todo[p] # << >> /\ todo[p] \in Seq(Providers)
      /\ plugins[p] \in [Providers -> Plugin] /\ lang[p] \in Langs
      /\ lang' = lang /\ todo' = todo /\ answer' = answer
  BY DEF Miss, Asks, AtProvider, ProcInv, Loaded, TypeOK
<1>2. Current(p) \in Providers /\ Current(p)' = Current(p)
  BY <1>1, CurrentFacts DEF Current
<1> DEFINE pr0 == Current(p)
<1>3. WrapperLocale(p, pr0) = Locale(p, pr0) /\ Locale(p, pr0) \in Langs
  BY <1>1, <1>2, LocaleFacts DEF ProcInv, OwnWrapper, WrapperLocale
<1>4. /\ plugins'[p] \in [Providers -> Plugin]
      /\ \A pr \in Providers : /\ plugins'[p][pr].conf = plugins[p][pr].conf
                               /\ \/ plugins'[p][pr].wrapper = plugins[p][pr].wrapper
                                  \/ pr = pr0 /\ plugins'[p][pr].wrapper = Locale(p, pr0)
      /\ Handler(pr0) = "php" => plugins'[p][pr0].wrapper = Locale(p, pr0)
  <2>1. CASE Handler(pr0) = "php"
    <3>1. plugins' = [plugins EXCEPT ![p][pr0].wrapper = Locale(p, pr0)]
      BY <1>3, <2>1 DEF Miss
    <3>2. plugins'[p] = [plugins[p] EXCEPT ![pr0].wrapper = Locale(p, pr0)]
      BY <3>1 DEF TypeOK
    <3> HIDE DEF pr0
    <3>3. QED
      BY <1>1, <1>2, <1>3, <3>2 DEF Plugin, pr0
  <2>2. CASE Handler(pr0) # "php"
    BY <1>1, <2>2 DEF Miss
  <2>3. QED
    BY <2>1, <2>2
<1>5. \A pr \in Providers : Locale(p, pr)' = Locale(p, pr)
  BY <1>1, <1>4 DEF Locale
<1>6. OthersSame(p)
  BY DEF Miss, ReadSetting, TypeOK, OthersSame, Same
<1>7. TypeOK'
  <2>1. plugins' \in [Procs -> [Providers -> Plugin] \union {<< >>}]
    <3>1. DOMAIN plugins' = Procs /\ plugins' = [q \in Procs |-> plugins'[q]]
      BY DEF Miss, TypeOK
    <3>2. \A q \in Procs : plugins'[q] \in [Providers -> Plugin] \union {<< >>}
      BY <1>4, <1>6 DEF OthersSame, Same, TypeOK
    <3>3. QED
      BY <3>1, <3>2
  <2>2. QED
    BY <2>1 DEF Miss, ReadSetting, SettingSeen, Switch, TypeOK, Location
<1>8. Resting(p)' /\ Loaded(p)' /\ InOrder(p)'
  BY <1>1, <1>4 DEF Miss, ProcInv, Resting, Loaded, InOrder, Calling
<1>9. OwnWrapper(p)'
  BY <1>1, <1>2, <1>4, <1>5 DEF ProcInv, OwnWrapper
<1>10. Wrapped(p)'
  BY <1>2, <1>4, <1>5 DEF Wrapped, Handler
<1>11. OwnAnswer(p)'
  BY <1>1 DEF ProcInv, OwnAnswer
<1>12. QED
  BY <1>6, <1>7, <1>8, <1>9, <1>10, <1>11 DEF Promise, ProcInv, Miss

(* A provider answers the question of the cache id.                        *)
LEMMA ReplyStep ==
    ASSUME TypeOK, NEW p \in Procs, ProcInv(p), Reply(p)
    PROVE  Promise(p) /\ UNCHANGED cache
<1>1. /\ pc[p] = "asking" /\ pc'[p] = "storing" /\ todo[p] # << >> /\ todo[p] \in Seq(Providers)
      /\ plugins[p] \in [Providers -> Plugin] /\ lang[p] \in Langs /\ call[p] \in Request
  BY DEF Reply, ProcInv, Loaded, OwnAnswer, Calling, TypeOK
<1>2. Current(p) \in Providers
  BY <1>1, CurrentFacts
<1>3. Asked(p, Current(p)) = CacheId(p, Current(p)) /\ CacheId(p, Current(p)) \in Key
  BY <1>1, <1>2, AskedIsFiled, CacheIdFacts DEF ProcInv, Wrapped
<1>4. PICK none \in BOOLEAN :
          answer' = [answer EXCEPT ![p] = [empty |-> none, to |-> Asked(p, Current(p))]]
  BY DEF Reply
<1>5. answer'[p] \in Answer /\ answer'[p].to = CacheId(p, Current(p))
  BY <1>3, <1>4 DEF Answer, TypeOK
<1>6. TypeOK' /\ OthersSame(p)
  BY <1>4, <1>5 DEF Reply, TypeOK, OthersSame, Same, Location
<1>7. Current(p)' = Current(p) /\ \A pr : CacheId(p, pr)' = CacheId(p, pr)
  BY DEF Reply, Current, CacheId, Locale
<1>8. Resting(p)' /\ Loaded(p)' /\ InOrder(p)'
  BY <1>1 DEF Reply, ProcInv, Resting, Loaded, InOrder, Calling
<1>9. OwnWrapper(p)' /\ Wrapped(p)'
  BY <1>1 DEF Reply, ProcInv, OwnWrapper, Wrapped, Locale
<1>10. OwnAnswer(p)'
  BY <1>1, <1>5, <1>7 DEF Reply, OwnAnswer
<1>11. QED
  BY <1>6, <1>8, <1>9, <1>10 DEF Promise, ProcInv, Reply

(* The answer is filed under the question it was given for.                *)
LEMMA SetCacheStep ==
    ASSUME TypeOK, CacheHoldsOwnAnswers, NEW p \in Procs, ProcInv(p), SetCache(p)
    PROVE  Promise(p) /\ CacheHoldsOwnAnswers'
<1>1. /\ pc[p] = "storing" /\ pc'[p] = "judging" /\ todo[p] # << >> /\ todo[p] \in Seq(Providers)
      /\ plugins[p] \in [Providers -> Plugin] /\ lang[p] \in Langs /\ call[p] \in Request
      /\ answer[p] \in Answer /\ answer[p].to = CacheId(p, Current(p))
  BY DEF SetCache, ProcInv, Loaded, OwnAnswer, Calling, TypeOK
<1>2. Current(p) \in Providers /\ CacheId(p, Current(p)) \in Key
  BY <1>1, CurrentFacts, CacheIdFacts
<1>3. /\ DOMAIN cache' \subseteq Key
      /\ \A k \in DOMAIN cache' : cache'[k] \in Answer /\ cache'[k].to = k
  BY <1>1, <1>2 DEF SetCache, CacheHoldsOwnAnswers, TypeOK
<1>4. TypeOK' /\ OthersSame(p)
  BY <1>3 DEF SetCache, TypeOK, OthersSame, Same, Location
<1>5. Current(p)' = Current(p) /\ \A pr : CacheId(p, pr)' = CacheId(p, pr)
  BY DEF SetCache, Current, CacheId, Locale
<1>6. Resting(p)' /\ Loaded(p)' /\ InOrder(p)'
  BY <1>1 DEF SetCache, ProcInv, Resting, Loaded, InOrder, Calling
<1>7. OwnWrapper(p)' /\ Wrapped(p)'
  BY <1>1 DEF SetCache, ProcInv, OwnWrapper, Wrapped, Locale
<1>8. OwnAnswer(p)'
  BY <1>1, <1>5 DEF SetCache, OwnAnswer
<1>9. QED
  BY <1>3, <1>4, <1>6, <1>7, <1>8 DEF Promise, ProcInv, CacheHoldsOwnAnswers

LEMMA AcceptStep ==
    ASSUME TypeOK, NEW p \in Procs, ProcInv(p), Accept(p)
    PROVE  Promise(p) /\ UNCHANGED cache
<1>1. /\ pc[p] = "judging" /\ pc'[p] = "done" /\ ~answer[p].empty
      /\ todo[p] # << >> /\ answer[p] \in Answer /\ answer[p].to = CacheId(p, Current(p))
  BY DEF Accept, Useless, ProcInv, OwnAnswer, TypeOK
<1>2. TypeOK' /\ OthersSame(p)
  BY DEF Accept, TypeOK, OthersSame, Same, Location
<1>3. Current(p)' = Current(p) /\ \A pr : CacheId(p, pr)' = CacheId(p, pr)
  BY DEF Accept, Current, CacheId, Locale
<1>4. Resting(p)' /\ Loaded(p)' /\ InOrder(p)'
  BY <1>1 DEF Accept, ProcInv, Resting, Loaded, InOrder, Calling
<1>5. OwnWrapper(p)' /\ Wrapped(p)'
  BY <1>1 DEF Accept, ProcInv, OwnWrapper, Wrapped, Locale
<1>6. OwnAnswer(p)'
  BY <1>1, <1>3 DEF Accept, OwnAnswer
<1>7. QED
  BY <1>2, <1>4, <1>5, <1>6 DEF Promise, ProcInv, Accept

LEMMA LeaveStep ==
    ASSUME TypeOK, NEW p \in Procs, ProcInv(p), Leave(p)
    PROVE  Promise(p) /\ UNCHANGED cache
<1>1. OthersSame(p)
  BY DEF Leave, TypeOK, OthersSame, Same
<1>2. /\ pc'[p] = "idle" /\ order'[p] = << >> /\ todo'[p] = << >> /\ failed'[p] = << >>
  BY DEF Leave, TypeOK
<1>3. TypeOK'
  <2>1. Len(failed'[p]) + Len(todo'[p]) <= Len(order'[p])
    BY <1>2
  <2>2. \A q \in Procs : Len(failed[q]) + Len(todo[q]) <= Len(order[q])
    BY DEF TypeOK
  <2>3. \A q \in Procs : Len(failed'[q]) + Len(todo'[q]) <= Len(order'[q])
    BY <1>1, <2>1, <2>2 DEF OthersSame, Same
  <2>4. QED
    BY <2>3 DEF Leave, TypeOK, Location
<1>4. ProcInv(p)'
  BY <1>2 DEF ProcInv, Resting, Loaded, InOrder, OwnWrapper, Wrapped, OwnAnswer, Calling
<1>5. QED
  BY <1>1, <1>3, <1>4 DEF Promise, Leave

-----------------------------------------------------------------------------
(* Theorems                                                                *)

LEMMA InvInit == Init => IInv
<1> SUFFICES ASSUME Init PROVE IInv
  OBVIOUS
<1>1. TypeOK
  BY DEF Init, TypeOK, Switch, Location
<1>2. ASSUME NEW p \in Procs PROVE ProcInv(p)
  BY DEF Init, ProcInv, Resting, Loaded, InOrder, OwnWrapper, Wrapped, OwnAnswer, Calling
<1>3. CacheHoldsOwnAnswers
  BY DEF Init, CacheHoldsOwnAnswers
<1>4. QED
  BY <1>1, <1>2, <1>3 DEF IInv

(* Any step of a call keeps what holds of its process and of the cache.    *)
LEMMA LoopStepKeeps ==
    ASSUME TypeOK, CacheHoldsOwnAnswers, NEW p \in Procs, ProcInv(p), LoopStep(p)
    PROVE  Promise(p) /\ CacheHoldsOwnAnswers'
<1>1. CASE GiveUp(p)
  BY <1>1, GiveUpStep DEF CacheHoldsOwnAnswers
<1>2. CASE Unable(p)
  <2>1. todo[p] # << >> /\ pc[p] \in Calling /\ "unable" \in Failure
    BY <1>2 DEF Unable, AtProvider, Calling, Failure
  <2>2. QED
    BY <1>2, <2>1, FailStep DEF Unable, Promise, CacheHoldsOwnAnswers
<1>3. CASE Abort(p)
  BY <1>3, AbortStep DEF CacheHoldsOwnAnswers
<1>4. CASE Hit(p)
  BY <1>4, HitStep DEF CacheHoldsOwnAnswers
<1>5. CASE Miss(p)
  BY <1>5, MissStep DEF CacheHoldsOwnAnswers
<1>6. CASE Raise(p)
  <2>1. todo[p] # << >> /\ pc[p] \in Calling /\ "raised" \in Failure
    BY <1>6 DEF Raise, ProcInv, OwnAnswer, Calling, Failure
  <2>2. QED
    BY <1>6, <2>1, FailStep DEF Raise, Promise, CacheHoldsOwnAnswers
<1>7. CASE Reply(p)
  BY <1>7, ReplyStep DEF CacheHoldsOwnAnswers
<1>8. CASE SetCache(p)
  BY <1>8, SetCacheStep
<1>9. CASE Refuse(p)
  <2>1. todo[p] # << >> /\ pc[p] \in Calling /\ "empty" \in Failure
    BY <1>9 DEF Refuse, ProcInv, OwnAnswer, Calling, Failure
  <2>2. QED
    BY <1>9, <2>1, FailStep DEF Refuse, Promise, CacheHoldsOwnAnswers
<1>10. CASE Accept(p)
  BY <1>10, AcceptStep DEF CacheHoldsOwnAnswers
<1>11. QED
  BY <1>1, <1>2, <1>3, <1>4, <1>5, <1>6, <1>7, <1>8, <1>9, <1>10 DEF LoopStep

LEMMA InvStep == IInv /\ [Next]_vars => IInv'
<1> SUFFICES ASSUME IInv, [Next]_vars PROVE IInv'
  OBVIOUS
<1>0. TypeOK /\ CacheHoldsOwnAnswers /\ \A p \in Procs : ProcInv(p)
  BY DEF IInv
<1>1. ASSUME NEW p \in Procs, Promise(p), CacheHoldsOwnAnswers'
      PROVE  IInv'
  BY <1>0, <1>1, Frame DEF IInv, Promise, OthersSame
<1>2. ASSUME NEW p \in Procs, LoadProviders(p) \/ Call(p) \/ LoopStep(p) \/ Leave(p)
      PROVE  IInv'
  <2>1. Promise(p) /\ CacheHoldsOwnAnswers'
    BY <1>0, <1>2, LoadStep, CallStep, LoopStepKeeps, LeaveStep DEF CacheHoldsOwnAnswers
  <2>2. QED
    BY <1>1, <2>1
<1>3. ASSUME UNCHANGED procVars, TypeOK', CacheHoldsOwnAnswers'
      PROVE  IInv'
  <2>1. \A p \in Procs : Same(p)
    BY <1>3 DEF procVars, Same
  <2>2. QED
    BY <1>0, <1>3, <2>1, Frame DEF IInv
<1>4. CASE SaveSettings
  BY <1>0, <1>3, <1>4 DEF SaveSettings, procVars, TypeOK, CacheHoldsOwnAnswers
<1>5. ASSUME NEW pr \in Providers, EditProvider(pr)
      PROVE  IInv'
  BY <1>0, <1>3, <1>5 DEF EditProvider, procVars, TypeOK, CacheHoldsOwnAnswers
<1>6. CASE ClearCache
  BY <1>0, <1>3, <1>6 DEF ClearCache, procVars, TypeOK, CacheHoldsOwnAnswers
<1>7. CASE UNCHANGED vars
  BY <1>0, <1>3, <1>7 DEF vars, procVars, TypeOK, CacheHoldsOwnAnswers
<1>8. QED
  BY <1>2, <1>4, <1>5, <1>6, <1>7 DEF Next

(* The inductive invariant holds in every reachable state.                 *)
THEOREM ProvidersInvariant == Spec => []IInv
  BY InvInit, InvStep, PTL DEF Spec

(* The variables of calls, plugin objects and cache keep their types, and  *)
(* no loop runs past the end of its list.                                  *)
THEOREM ProvidersTypeCorrect == Spec => []TypeOK
<1>1. IInv => TypeOK
  BY DEF IInv
<1>2. QED
  BY <1>1, ProvidersInvariant, PTL

(* Whatever an administrator edits and in whatever order processes ask,    *)
(* reply and store: each entry of the cache answers the request it is      *)
(* filed under, in the locale of its id.                                   *)
THEOREM CacheAlwaysOwn == Spec => []CacheHoldsOwnAnswers
<1>1. IInv => CacheHoldsOwnAnswers
  BY DEF IInv
<1>2. QED
  BY <1>1, ProvidersInvariant, PTL

(* For lists of any length: what a call returns is the answer of the first *)
(* provider that had one, to its own question, and NULL means that all     *)
(* have failed.                                                            *)
THEOREM FirstUsableAlwaysWins == Spec => []FirstUsableWins
<1>1. IInv => FirstUsableWins
  <2> SUFFICES ASSUME IInv, NEW p \in Procs, pc[p] = "done"
               PROVE  IF answer[p] = NoAnswer
                      THEN Len(failed[p]) = Len(order[p])
                      ELSE LET winner == order[p][Len(failed[p]) + 1]
                           IN  /\ ~answer[p].empty
                               /\ answer[p].to = CacheId(p, winner)
    BY DEF FirstUsableWins
  <2>1. ProcInv(p) /\ todo[p] \in Seq(Providers) /\ failed[p] \in Seq(Failure)
    BY DEF IInv, TypeOK
  <2>2. PICK f \in Nat, t \in Nat : Len(failed[p]) = f /\ Len(todo[p]) = t
    <3>1. Len(failed[p]) \in Nat /\ Len(todo[p]) \in Nat
      BY <2>1
    <3>2. QED
      BY <3>1, Zenon
  <2>3. /\ Len(order[p]) = f + t
        /\ \A i \in 1..t : todo[p][i] = order[p][f + i]
    BY <2>1, <2>2 DEF ProcInv, InOrder, Calling
  <2>4. CASE answer[p] = NoAnswer
    <3>1. todo[p] = << >>
      BY <2>1, <2>4, SentinelAssumption DEF ProcInv, OwnAnswer
    <3>2. t = 0
      BY <2>2, <3>1
    <3>3. QED
      BY <2>2, <2>3, <2>4, <3>2
  <2>5. CASE answer[p] # NoAnswer
    <3>1. /\ todo[p] # << >> /\ ~answer[p].empty
          /\ answer[p].to = CacheId(p, Current(p))
      BY <2>1, <2>5 DEF ProcInv, OwnAnswer
    <3>2. t >= 1 /\ Current(p) = todo[p][1]
      BY <2>1, <2>2, <3>1, CurrentFacts
    <3>3. Current(p) = order[p][f + 1]
      BY <2>3, <3>2
    <3>4. QED
      BY <2>2, <2>5, <3>1, <3>3
  <2>6. QED
    BY <2>4, <2>5
<1>2. QED
  BY <1>1, ProvidersInvariant, PTL

=============================================================================
