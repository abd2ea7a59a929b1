-------------------------- MODULE FormWidgetsProofs --------------------------
(***************************************************************************)
(* What the scripts of a form promise.  GeofieldGeolocation, for all pages *)
(* and bounds; GeojsonOverlays, for any number of maps and items;          *)
(* LeafletWidget, for any maps, shapes and sequences of events.            *)
(***************************************************************************)
EXTENDS MCFormWidgets, FiniteSetTheorems, TLAPS

-----------------------------------------------------------------------------
(* Positions (GeofieldGeolocation)                                         *)
(*                                                                         *)
(* An answer goes where the variables of its attach call point to when it  *)
(* comes; the invariant adds what they point to: the last origin of the    *)
(* call, if it is still in the page (OwnOrigin), and, while an answer is   *)
(* awaited, rows that were asked for through the same call or those of a   *)
(* call that found one empty (RequestsHaveReason).                         *)

(* A call is over before its elements can be used or replaced.             *)
HandledBefore == \A e \in Elements : handler[e] <= Len(attached)
OwedHandled == \A r \in owed : handler[r] # 0

OwnOrigin ==
    \A c \in DOMAIN attached :
        LET origins == OriginsIn[attached[c]]
        IN  origins # << >> /\ handler[Last(origins)] = c => input[c] = Last(origins)

RequestsHaveReason ==
    \A c \in Calls :
        waiting[c].rows > 0 =>
            \/ c \in blank
            \/ fields[c] # Document /\ \A r \in fields[c] : r \in asked /\ handler[r] = c

GeolocationInv ==
    /\ GeolocationTypeOK /\ HandledBefore /\ OwedHandled
    /\ PressIsAnswered /\ OwnOrigin /\ LastOriginLocated /\ RequestsHaveReason

-----------------------------------------------------------------------------
(* The operators                                                           *)

LEMMA FoundFacts ==
    ASSUME NEW f \in (SUBSET Rows) \union {Document}
    PROVE  /\ Found(f) \subseteq Rows
           /\ f # Document => Found(f) = f
BY ContextAssumption DEF Found, Document

LEMMA RowIsNoDocument ==
    ASSUME NEW r \in Rows
    PROVE  {r} # Document /\ Found({r}) = {r}
BY ContextAssumption DEF Found, Document

LEMMA ContextFacts ==
    ASSUME NEW x \in Contexts
    PROVE  /\ RowsIn[x] \in Seq(Rows) /\ OriginsIn[x] \in Seq(Origins)
           /\ ToSet(RowsIn[x]) \subseteq Rows /\ ToSet(OriginsIn[x]) \subseteq Origins
           /\ Len(OriginsIn[x]) \in Nat
           /\ OriginsIn[x] # << >> =>
                  /\ Last(OriginsIn[x]) \in ToSet(OriginsIn[x])
                  /\ Len(OriginsIn[x]) > 0
BY ContextAssumption DEF ToSet, Last

LEMMA UpdateFacts ==
    ASSUME value \in [Rows -> Values], NEW f
    PROVE  /\ updateLocation(f) \in [Rows -> Values]
           /\ \A r \in Rows \ Found(f) : updateLocation(f)[r] = value[r]
BY DEF updateLocation, Values, Here

LEMMA AttachedFacts ==
    ASSUME GeolocationInv
    PROVE  /\ DOMAIN attached \subseteq Calls
           /\ \A d \in DOMAIN attached : attached[d] \in Contexts
<1>1. /\ attached \in Seq(Contexts) /\ Len(attached) \in Nat /\ MaxAttached \in Nat
      /\ Len(attached) <= MaxAttached /\ DOMAIN attached = 1..Len(attached)
  BY ContextAssumption DEF GeolocationInv, GeolocationTypeOK
<1> QED BY <1>1 DEF Calls

-----------------------------------------------------------------------------
(* Initial states and steps                                                *)

LEMMA InitialInv == GeolocationInit => GeolocationInv
<1> SUFFICES ASSUME GeolocationInit PROVE GeolocationInv
  OBVIOUS
<1>1. GeolocationTypeOK
  <2>1. attached \in Seq(Contexts) /\ Len(attached) <= MaxAttached
    BY ContextAssumption DEF GeolocationInit
  <2>2. value \in [Rows -> Values]
    BY DEF GeolocationInit, Values
  <2>3. /\ handler \in [Elements -> 0..MaxAttached]
        /\ fields \in [Calls -> (SUBSET Rows) \union {Document}]
        /\ input \in [Calls -> Origins \union {NoOrigin}]
        /\ waiting \in [Calls -> [rows : Nat, origins : Nat]]
    BY ContextAssumption DEF GeolocationInit
  <2> QED BY <2>1, <2>2, <2>3 DEF GeolocationInit, GeolocationTypeOK
<1>2. /\ HandledBefore /\ OwedHandled /\ PressIsAnswered
      /\ OwnOrigin /\ LastOriginLocated
  BY DEF GeolocationInit, HandledBefore, OwedHandled, PressIsAnswered, OwnOrigin,
         LastOriginLocated
<1>3. RequestsHaveReason
  BY DEF GeolocationInit, RequestsHaveReason
<1> QED BY <1>1, <1>2, <1>3 DEF GeolocationInv

LEMMA AttachKeepsInv ==
    ASSUME GeolocationInv, NEW x \in Contexts, AttachBehaviors(x)
    PROVE  GeolocationInv'
<1> DEFINE c == Len(attached) + 1
           rows == RowsIn[x]
           origins == OriginsIn[x]
           auto == Wanted(rows)
<1>1. /\ c \in Calls /\ Len(attached) \in Nat /\ attached \in Seq(Contexts)
      /\ attached' = Append(attached, x)
  BY DEF AttachBehaviors, GeolocationInv, GeolocationTypeOK
<1>2. /\ Len(attached') = c
      /\ DOMAIN attached' = DOMAIN attached \union {c}
      /\ attached'[c] = x
      /\ \A d \in DOMAIN attached : d # c /\ d \in Calls /\ attached'[d] = attached[d]
                                    /\ attached[d] \in Contexts
  BY <1>1, ContextAssumption DEF Calls
<1>3. /\ ToSet(rows) \subseteq Rows /\ ToSet(origins) \subseteq Origins
      /\ Len(origins) \in Nat
  BY ContextFacts
<1>4. /\ \A e \in ToSet(rows) \union ToSet(origins) : handler'[e] = c
      /\ \A e \in Elements \ (ToSet(rows) \union ToSet(origins)) :
             handler'[e] = handler[e]
      /\ handler' \in [Elements -> 0..MaxAttached]
  BY <1>1, <1>3 DEF AttachBehaviors, GeolocationInv, GeolocationTypeOK, Elements, Calls
<1>5. /\ waiting'[c] = [rows |-> IF auto THEN 1 ELSE 0, origins |-> Len(origins)]
      /\ \A d \in Calls \ {c} : waiting'[d] = waiting[d]
      /\ waiting' \in [Calls -> [rows : Nat, origins : Nat]]
  BY <1>1, <1>3 DEF AttachBehaviors, GeolocationInv, GeolocationTypeOK
<1>6. /\ \A d \in Calls \ {c} : fields'[d] = Detached(fields[d], ToSet(rows))
      /\ fields' \in [Calls -> (SUBSET Rows) \union {Document}]
  BY <1>1, <1>3 DEF AttachBehaviors, GeolocationInv, GeolocationTypeOK, Detached
<1>7. /\ origins # << >> => input'[c] = Last(origins)
      /\ \A d \in Calls \ {c} : input[d] \notin ToSet(origins) => input'[d] = input[d]
      /\ input' \in [Calls -> Origins \union {NoOrigin}]
  <2>1. origins # << >> => Last(origins) \in Origins
    BY <1>3, ContextFacts
  <2> QED BY <1>1, <2>1 DEF AttachBehaviors, OwnInput, GeolocationInv, GeolocationTypeOK
<1>8. GeolocationTypeOK'
  <2>1. value' \in [Rows -> Values]
    BY UpdateFacts DEF AttachBehaviors, GeolocationInv, GeolocationTypeOK
  <2>2. attached' \in Seq(Contexts) /\ Len(attached') <= MaxAttached
    BY <1>1, <1>2, ContextAssumption DEF Calls
  <2>3. /\ located' \subseteq Origins /\ owed' \subseteq asked' /\ asked' \subseteq Rows
        /\ blank' \subseteq Calls
        /\ native' \in BOOLEAN /\ cache' \in BOOLEAN /\ refused' \in BOOLEAN
    BY <1>1, <1>3 DEF AttachBehaviors, GeolocationInv, GeolocationTypeOK
  <2> QED BY <1>4, <1>5, <1>6, <1>7, <2>1, <2>2, <2>3 DEF GeolocationTypeOK
<1>9. HandledBefore'
  <2> SUFFICES ASSUME NEW e \in Elements PROVE handler'[e] <= Len(attached')
    BY DEF HandledBefore
  <2>1. handler[e] <= Len(attached) /\ handler[e] \in Int
    BY DEF GeolocationInv, GeolocationTypeOK, HandledBefore
  <2>2. handler'[e] = c \/ handler'[e] = handler[e]
    BY <1>4
  <2> QED BY <1>1, <1>2, <2>1, <2>2
<1>10. OwedHandled' /\ PressIsAnswered'
  <2> SUFFICES ASSUME NEW r \in owed'
               PROVE  /\ handler'[r] # 0 /\ waiting'[handler'[r]].rows > 0
                      /\ r \in Found(fields'[handler'[r]])
    BY DEF OwedHandled, PressIsAnswered, Found
  <2>1. /\ r \in owed /\ r \in Rows /\ r \in Elements
        /\ r \notin ToSet(rows) \union ToSet(origins)
    BY <1>3, ContextAssumption DEF AttachBehaviors, GeolocationInv, GeolocationTypeOK, Elements
  <2>2. /\ handler'[r] = handler[r] /\ handler[r] # 0
        /\ handler[r] \in Calls \ {c}
    BY <1>1, <1>4, <2>1 DEF GeolocationInv, GeolocationTypeOK, OwedHandled, HandledBefore,
                            Calls
  <2>3. waiting'[handler'[r]].rows > 0
    BY <1>5, <2>1, <2>2 DEF GeolocationInv, PressIsAnswered
  <2>4. r \in Found(Detached(fields[handler[r]], ToSet(rows)))
    BY <2>1, <2>2 DEF GeolocationInv, PressIsAnswered, Detached, Found
  <2> QED BY <1>6, <2>2, <2>3, <2>4
<1>11. OwnOrigin' /\ LastOriginLocated'
  <2> SUFFICES ASSUME NEW d \in DOMAIN attached',
                      OriginsIn[attached'[d]] # << >>,
                      handler'[Last(OriginsIn[attached'[d]])] = d
               PROVE  /\ input'[d] = Last(OriginsIn[attached'[d]])
                      /\ ~refused' => \/ Last(OriginsIn[attached'[d]]) \in located'
                                      \/ waiting'[d].origins > 0
    BY DEF OwnOrigin, LastOriginLocated
  <2>1. CASE d = c
    BY <1>2, <1>5, <1>7, <2>1, ContextFacts
  <2>2. CASE d # c
    <3> DEFINE o == Last(OriginsIn[attached[d]])
    <3>1. /\ d \in DOMAIN attached /\ d \in Calls \ {c} /\ attached'[d] = attached[d]
          /\ attached[d] \in Contexts /\ OriginsIn[attached[d]] # << >>
      BY <1>2, <2>2
    <3>2. o \in Origins /\ o \in Elements
      BY <3>1, ContextFacts DEF Elements
    <3>3. o \notin ToSet(rows) \union ToSet(origins) /\ handler[o] = d
      BY <1>4, <2>2, <3>1, <3>2
    <3>4. input[d] = o /\ input'[d] = o
      BY <1>7, <3>1, <3>3 DEF GeolocationInv, OwnOrigin
    <3>5. ~refused' => o \in located \/ waiting'[d].origins > 0
      BY <1>5, <3>1, <3>3 DEF AttachBehaviors, GeolocationInv, LastOriginLocated
    <3>6. o \in located => o \in located'
      BY <3>3 DEF AttachBehaviors
    <3> QED BY <3>1, <3>4, <3>5, <3>6
  <2> QED BY <2>1, <2>2
<1>12. RequestsHaveReason'
  <2> SUFFICES ASSUME NEW d \in Calls, waiting'[d].rows > 0
               PROVE  \/ d \in blank'
                      \/ /\ fields'[d] # Document
                         /\ \A r \in fields'[d] : r \in asked' /\ handler'[r] = d
    BY DEF RequestsHaveReason
  <2>1. CASE d = c
    BY <1>5, <2>1 DEF AttachBehaviors, Wanted
  <2>2. CASE d # c /\ d \in blank
    BY <2>2 DEF AttachBehaviors
  <2>3. CASE d # c /\ d \notin blank
    <3>1. /\ fields[d] # Document
          /\ \A r \in fields[d] : r \in asked /\ handler[r] = d
          /\ fields'[d] = fields[d] \ ToSet(rows)
      BY <1>5, <1>6, <2>3 DEF GeolocationInv, RequestsHaveReason, Detached
    <3>2. fields[d] \subseteq Rows
      BY <3>1 DEF GeolocationInv, GeolocationTypeOK
    <3>3. fields'[d] # Document
      BY <3>1, <3>2, ContextAssumption DEF Document
    <3>4. asked' = asked \ ToSet(rows)
      BY DEF AttachBehaviors
    <3>5. ASSUME NEW r \in fields'[d]
          PROVE  r \in asked' /\ handler'[r] = d
      <4>1. r \in Elements \ (ToSet(rows) \union ToSet(origins))
        BY <1>3, <3>1, <3>2, <3>5, ContextAssumption DEF Elements
      <4> QED BY <1>4, <3>1, <3>4, <3>5, <4>1
    <3> QED BY <3>3, <3>5
  <2> QED BY <2>1, <2>2, <2>3
<1> QED BY <1>8, <1>9, <1>10, <1>11, <1>12 DEF GeolocationInv

LEMMA PressKeepsInv ==
    ASSUME GeolocationInv, NEW r \in Rows, Press(r)
    PROVE  GeolocationInv'
<1> DEFINE c == handler[r]
<1>1. /\ c \in Calls /\ r \in Elements
      /\ attached' = attached /\ handler' = handler /\ input' = input
      /\ located' = located /\ refused' = refused /\ blank' = blank \ {c}
  BY DEF Press, GeolocationInv, GeolocationTypeOK, Elements, Calls
<1>2. /\ fields'[c] = {r} /\ fields'[c] # Document /\ Found(fields'[c]) = {r}
      /\ \A d \in Calls \ {c} : fields'[d] = fields[d]
      /\ fields' \in [Calls -> (SUBSET Rows) \union {Document}]
  BY <1>1, RowIsNoDocument DEF Press, Aimed, GeolocationInv, GeolocationTypeOK
<1>3. /\ waiting'[c].rows > 0
      /\ \A d \in Calls \ {c} : waiting'[d].rows = waiting[d].rows
      /\ \A d \in Calls : waiting'[d].origins = waiting[d].origins
      /\ waiting' \in [Calls -> [rows : Nat, origins : Nat]]
  <2>1. waiting \in [Calls -> [rows : Nat, origins : Nat]]
    BY DEF GeolocationInv, GeolocationTypeOK
  <2>2. waiting' = [waiting EXCEPT ![c].rows = @ + 1]
    BY DEF Press
  <2> QED BY <1>1, <2>1, <2>2
<1>4. GeolocationTypeOK'
  <2>1. value' \in [Rows -> Values]
    BY UpdateFacts DEF Press, GeolocationInv, GeolocationTypeOK
  <2>2. asked' \subseteq Rows /\ owed' \subseteq asked'
    BY DEF Press, GeolocationInv, GeolocationTypeOK
  <2> QED BY <1>1, <1>2, <1>3, <2>1, <2>2 DEF Press, GeolocationInv, GeolocationTypeOK
<1>5. HandledBefore' /\ OwnOrigin' /\ LastOriginLocated'
  <2>1. DOMAIN attached \subseteq Calls
    BY AttachedFacts
  <2> QED BY <1>1, <1>3, <2>1 DEF GeolocationInv, HandledBefore, OwnOrigin,
                                  LastOriginLocated
<1>6. OwedHandled' /\ PressIsAnswered'
  <2> SUFFICES ASSUME NEW o \in owed'
               PROVE  /\ handler'[o] # 0 /\ waiting'[handler'[o]].rows > 0
                      /\ o \in Found(fields'[handler'[o]])
    BY DEF OwedHandled, PressIsAnswered, Found
  <2>1. CASE o = r
    <3>1. handler'[o] = c /\ c # 0
      BY <1>1, <2>1 DEF Calls
    <3>2. o \in Found(fields'[c])
      BY <1>2, <2>1
    <3> QED BY <1>3, <3>1, <3>2
  <2>2. CASE o # r
    <3>1. o \in owed /\ o \in Rows /\ o \in Elements /\ handler[o] # c
      BY <2>2 DEF Press, GeolocationInv, GeolocationTypeOK, Elements
    <3>2. handler[o] # 0 /\ handler[o] \in Calls \ {c}
      BY <3>1 DEF GeolocationInv, GeolocationTypeOK, OwedHandled, Calls
    <3>3. waiting[handler[o]].rows > 0 /\ o \in Found(fields[handler[o]])
      BY <3>1 DEF GeolocationInv, PressIsAnswered
    <3>4. fields'[handler[o]] = fields[handler[o]] /\ handler'[o] = handler[o]
      BY <1>1, <1>2, <3>2
    <3>5. Found(fields'[handler'[o]]) = Found(fields[handler[o]])
      BY <3>4 DEF Found
    <3>6. waiting'[handler'[o]].rows > 0
      BY <1>3, <3>2, <3>3, <3>4
    <3>7. handler'[o] # 0 /\ o \in Found(fields'[handler'[o]])
      BY <3>2, <3>3, <3>4, <3>5
    <3> QED BY <3>6, <3>7
  <2> QED BY <2>1, <2>2
<1>7. RequestsHaveReason'
  <2> SUFFICES ASSUME NEW d \in Calls, waiting'[d].rows > 0
               PROVE  \/ d \in blank'
                      \/ /\ fields'[d] # Document
                         /\ \A o \in fields'[d] : o \in asked' /\ handler'[o] = d
    BY DEF RequestsHaveReason
  <2>1. asked' = asked \union {r}
    BY DEF Press
  <2>2. CASE d = c
    BY <1>1, <1>2, <2>1, <2>2
  <2>3. CASE d # c
    BY <1>1, <1>2, <1>3, <2>1, <2>3 DEF GeolocationInv, RequestsHaveReason
  <2> QED BY <2>2, <2>3
<1> QED BY <1>4, <1>5, <1>6, <1>7 DEF GeolocationInv

(* An answer to a request for rows, with or without a position.            *)
LEMMA OneLessFacts ==
    ASSUME GeolocationInv, NEW c \in Calls, waiting[c].rows > 0, OneLess(c)
    PROVE  /\ \A d \in Calls \ {c} : waiting'[d] = waiting[d]
           /\ waiting'[c].origins = waiting[c].origins
           /\ waiting' \in [Calls -> [rows : Nat, origins : Nat]]
           /\ asked' \subseteq asked /\ blank' \subseteq blank
           /\ \A r \in asked : handler[r] # c => r \in asked'
           /\ \A d \in Calls : waiting'[d].rows > 0 =>
                  \/ d \in blank'
                  \/ /\ fields[d] # Document
                     /\ \A r \in fields[d] : r \in asked' /\ handler[r] = d
<1>1. /\ \A d \in Calls \ {c} : waiting'[d] = waiting[d]
      /\ waiting'[c].origins = waiting[c].origins
      /\ waiting'[c].rows = waiting[c].rows - 1
      /\ waiting[c].rows \in Nat
      /\ waiting' \in [Calls -> [rows : Nat, origins : Nat]]
  <2>1. waiting \in [Calls -> [rows : Nat, origins : Nat]]
    BY DEF GeolocationInv, GeolocationTypeOK
  <2>2. waiting' = [waiting EXCEPT ![c].rows = @ - 1]
    BY DEF OneLess
  <2> QED BY <2>1, <2>2
<1>2. /\ asked' \subseteq asked /\ blank' \subseteq blank
      /\ \A r \in asked : handler[r] # c => r \in asked'
      /\ \A d \in blank : d # c => d \in blank'
  BY DEF OneLess
<1>3. ASSUME NEW d \in Calls, waiting'[d].rows > 0
      PROVE  \/ d \in blank'
             \/ /\ fields[d] # Document
                /\ \A r \in fields[d] : r \in asked' /\ handler[r] = d
  <2>1. CASE d = c
    <3>1. ~LastAnswer(c)
      BY <1>1, <1>3, <2>1 DEF LastAnswer
    <3>2. asked' = asked /\ blank' = blank
      BY <3>1 DEF OneLess
    <3> QED BY <2>1, <3>2 DEF GeolocationInv, RequestsHaveReason
  <2>2. CASE d # c
    <3>1. \/ d \in blank
          \/ /\ fields[d] # Document
             /\ \A r \in fields[d] : r \in asked /\ handler[r] = d
      BY <1>1, <1>3, <2>2 DEF GeolocationInv, RequestsHaveReason
    <3> QED BY <1>2, <2>2, <3>1
  <2> QED BY <2>1, <2>2
<1> QED BY <1>1, <1>2, <1>3

LEMMA AnswerRowsKeepsInv ==
    ASSUME GeolocationInv, NEW c \in Calls, AnswerRows(c)
    PROVE  GeolocationInv'
<1>1. /\ attached' = attached /\ handler' = handler /\ fields' = fields
      /\ input' = input /\ located' = located /\ refused' = refused
  BY DEF AnswerRows
<1>2. /\ \A d \in Calls : waiting'[d].origins = waiting[d].origins
      /\ \A d \in Calls \ {c} : waiting'[d].rows = waiting[d].rows
      /\ waiting[c].rows > 0
      /\ waiting' \in [Calls -> [rows : Nat, origins : Nat]]
  BY OneLessFacts DEF AnswerRows
<1>3. \A r \in owed : /\ r \in Elements /\ handler[r] \in Calls
                       /\ r \in asked /\ r \in Found(fields[handler[r]])
                       /\ handler[r] # 0 /\ waiting[handler[r]].rows > 0
  BY DEF GeolocationInv, GeolocationTypeOK, OwedHandled, PressIsAnswered, Calls, Elements
<1>4. owed' = owed \ Found(fields[c])
  BY DEF AnswerRows
<1>5. GeolocationTypeOK'
  <2>1. value' \in [Rows -> Values]
    BY UpdateFacts DEF AnswerRows, GeolocationInv, GeolocationTypeOK
  <2>2. cache' \in BOOLEAN /\ native' \in BOOLEAN
    BY DEF AnswerRows, GeolocationInv, GeolocationTypeOK
  <2>3. asked' \subseteq asked /\ blank' \subseteq blank
    BY OneLessFacts DEF AnswerRows
  <2>4. owed' \subseteq asked'
    <3>1. \A r \in asked : handler[r] # c => r \in asked'
      BY OneLessFacts DEF AnswerRows
    <3> QED BY <1>3, <1>4, <3>1
  <2> QED BY <1>1, <1>2, <2>1, <2>2, <2>3, <2>4 DEF GeolocationInv, GeolocationTypeOK
<1>6. HandledBefore' /\ OwnOrigin' /\ LastOriginLocated'
  <2>1. DOMAIN attached \subseteq Calls
    BY AttachedFacts
  <2> QED BY <1>1, <1>2, <2>1 DEF GeolocationInv, HandledBefore, OwnOrigin,
                                  LastOriginLocated
<1>7. OwedHandled' /\ PressIsAnswered'
  <2> SUFFICES ASSUME NEW o \in owed'
               PROVE  /\ handler[o] # 0 /\ waiting'[handler[o]].rows > 0
                      /\ o \in Found(fields[handler[o]])
    BY <1>1 DEF OwedHandled, PressIsAnswered, Found
  <2>1. o \in owed /\ handler[o] \in Calls \ {c}
    BY <1>3, <1>4
  <2> QED BY <1>2, <1>3, <2>1
<1>8. RequestsHaveReason'
  BY <1>1, OneLessFacts DEF AnswerRows, RequestsHaveReason
<1> QED BY <1>5, <1>6, <1>7, <1>8 DEF GeolocationInv

LEMMA OriginAnswerKeepsInv ==
    ASSUME GeolocationInv, NEW c \in Calls, getClientOrigin(c)
    PROVE  GeolocationInv'
<1>1. /\ attached' = attached /\ handler' = handler /\ fields' = fields
      /\ input' = input /\ value' = value /\ refused' = refused
      /\ asked' = asked /\ owed' = owed /\ blank' = blank
  BY DEF getClientOrigin, history
<1>2. /\ \A d \in Calls : waiting'[d].rows = waiting[d].rows
      /\ \A d \in Calls \ {c} : waiting'[d].origins = waiting[d].origins
      /\ waiting[c].origins > 0
      /\ waiting' \in [Calls -> [rows : Nat, origins : Nat]]
  BY DEF getClientOrigin, GeolocationInv, GeolocationTypeOK
<1>3. /\ located \subseteq located' /\ located' \subseteq Origins
      /\ input[c] # NoOrigin => input[c] \in located'
  BY ContextAssumption DEF getClientOrigin, Written, GeolocationInv, GeolocationTypeOK
<1>4. GeolocationTypeOK'
  <2>1. cache' \in BOOLEAN /\ native' \in BOOLEAN
    BY DEF getClientOrigin, GeolocationInv, GeolocationTypeOK
  <2> QED BY <1>1, <1>2, <1>3, <2>1 DEF GeolocationInv, GeolocationTypeOK
<1>5. HandledBefore' /\ OwnOrigin' /\ OwedHandled'
  BY <1>1 DEF GeolocationInv, HandledBefore, OwnOrigin, OwedHandled
<1>6. LastOriginLocated'
  <2> SUFFICES ASSUME NEW d \in DOMAIN attached, ~refused,
                      OriginsIn[attached[d]] # << >>,
                      handler[Last(OriginsIn[attached[d]])] = d
               PROVE  \/ Last(OriginsIn[attached[d]]) \in located'
                      \/ waiting'[d].origins > 0
    BY <1>1 DEF LastOriginLocated
  <2>1. d \in Calls /\ attached[d] \in Contexts
    BY AttachedFacts
  <2>2. CASE d = c
    <3>1. input[c] = Last(OriginsIn[attached[d]])
      BY <2>2 DEF GeolocationInv, OwnOrigin
    <3>2. input[c] # NoOrigin
      BY <2>1, <3>1, ContextFacts, ContextAssumption
    <3> QED BY <1>3, <3>1, <3>2
  <2>3. CASE d # c
    BY <1>2, <1>3, <2>1, <2>3 DEF GeolocationInv, LastOriginLocated
  <2> QED BY <2>2, <2>3
<1>7. PressIsAnswered' /\ RequestsHaveReason'
  <2>1. RequestsHaveReason'
    BY <1>1, <1>2 DEF GeolocationInv, RequestsHaveReason
  <2>2. \A r \in owed : handler[r] \in Calls
    BY DEF GeolocationInv, GeolocationTypeOK, OwedHandled, Calls, Elements
  <2>3. PressIsAnswered'
    BY <1>1, <1>2, <2>2 DEF GeolocationInv, PressIsAnswered, Found
  <2> QED BY <2>1, <2>3
<1> QED BY <1>4, <1>5, <1>6, <1>7 DEF GeolocationInv

LEMMA FailKeepsInv ==
    ASSUME GeolocationInv, NEW c \in Calls, Fail(c)
    PROVE  GeolocationInv'
<1>1. /\ attached' = attached /\ handler' = handler /\ fields' = fields
      /\ input' = input /\ value' = value /\ located' = located /\ refused'
      /\ owed' = {r \in owed : handler[r] # c}
  BY DEF Fail
<1>2. /\ \A d \in Calls \ {c} : waiting'[d] = waiting[d]
      /\ waiting' \in [Calls -> [rows : Nat, origins : Nat]]
      /\ asked' \subseteq asked /\ blank' \subseteq blank
      /\ \A r \in asked : handler[r] # c => r \in asked'
      /\ RequestsHaveReason'
  <2>1. CASE waiting[c].rows > 0 /\ OneLess(c)
    BY <1>1, <2>1, OneLessFacts DEF RequestsHaveReason
  <2>2. CASE /\ waiting[c].origins > 0
             /\ waiting' = [waiting EXCEPT ![c].origins = @ - 1]
             /\ UNCHANGED <<asked, blank>>
    <3>1. /\ \A d \in Calls \ {c} : waiting'[d] = waiting[d]
          /\ \A d \in Calls : waiting'[d].rows = waiting[d].rows
          /\ waiting' \in [Calls -> [rows : Nat, origins : Nat]]
      BY <2>2 DEF GeolocationInv, GeolocationTypeOK
    <3> QED BY <1>1, <2>2, <3>1 DEF GeolocationInv, RequestsHaveReason
  <2> QED BY <2>1, <2>2 DEF Fail
<1>3. GeolocationTypeOK'
  BY <1>1, <1>2 DEF Fail, GeolocationInv, GeolocationTypeOK
<1>4. HandledBefore' /\ OwnOrigin' /\ LastOriginLocated' /\ OwedHandled'
  BY <1>1 DEF GeolocationInv, HandledBefore, OwnOrigin, LastOriginLocated, OwedHandled
<1>5. PressIsAnswered'
  <2>1. \A r \in owed : handler[r] \in Calls
    BY DEF GeolocationInv, GeolocationTypeOK, OwedHandled, Calls, Elements
  <2> QED BY <1>1, <1>2, <2>1 DEF GeolocationInv, PressIsAnswered, Found
<1> QED BY <1>2, <1>3, <1>4, <1>5 DEF GeolocationInv

LEMMA TypeRowKeepsInv ==
    ASSUME GeolocationInv, NEW r \in Rows, NEW v \in {Empty, "typed"}, TypeRow(r, v)
    PROVE  GeolocationInv'
<1>1. /\ attached' = attached /\ handler' = handler /\ fields' = fields
      /\ input' = input /\ located' = located /\ refused' = refused
      /\ asked' = asked /\ owed' = owed /\ blank' = blank /\ waiting' = waiting
  BY DEF TypeRow, history
<1>2. GeolocationTypeOK'
  BY <1>1 DEF TypeRow, GeolocationInv, GeolocationTypeOK, Values
<1> QED BY <1>1, <1>2 DEF GeolocationInv, HandledBefore, OwnOrigin, LastOriginLocated,
                          OwedHandled, PressIsAnswered, RequestsHaveReason, Found

LEMMA StepKeepsInv ==
    GeolocationInv /\ [GeolocationNext]_geolocationVars => GeolocationInv'
<1> SUFFICES ASSUME GeolocationInv, [GeolocationNext]_geolocationVars
             PROVE  GeolocationInv'
  OBVIOUS
<1>1. CASE GeolocationNext
  BY <1>1, AttachKeepsInv, PressKeepsInv, TypeRowKeepsInv, AnswerRowsKeepsInv,
     OriginAnswerKeepsInv, FailKeepsInv DEF GeolocationNext
<1>2. CASE UNCHANGED geolocationVars
  BY <1>2 DEF geolocationVars, code, history, GeolocationInv, GeolocationTypeOK,
              HandledBefore, OwnOrigin, LastOriginLocated, OwedHandled,
              PressIsAnswered, RequestsHaveReason, Found
<1> QED BY <1>1, <1>2

-----------------------------------------------------------------------------
(* Theorems                                                                *)

THEOREM GeolocationInvariant == GeolocationSpec => []GeolocationInv
<1> QED BY InitialInv, StepKeepsInv, PTL DEF GeolocationSpec

(* The variables keep their types (the state of geolocation.js).           *)
THEOREM GeolocationTypeCorrect == GeolocationSpec => []GeolocationTypeOK
<1>1. GeolocationInv => GeolocationTypeOK
  BY DEF GeolocationInv
<1> QED BY <1>1, GeolocationInvariant, PTL

(* A row whose button was pressed is among those that the next answer of   *)
(* its attach call fills, and that answer is still awaited (fields); the   *)
(* last origin of an attach call gets its position, whatever other calls   *)
(* replace and answer in between (latitudeInput).                          *)
THEOREM AnswersAlwaysArrive == GeolocationSpec => []AnswersArrive
<1>1. GeolocationInv => AnswersArrive
  BY DEF GeolocationInv, AnswersArrive
<1> QED BY <1>1, GeolocationInvariant, PTL

(* Coordinates give way to the position only where a visitor asked for it, *)
(* or where the call that asked by itself had begun with an empty row,     *)
(* (Wanted, fields).                                                       *)
THEOREM AlwaysReplacedWithReason == GeolocationSpec => ReplacedWithReason
<1> DEFINE Reason(r) == Pressed(r) \/ OwnFieldEmpty(r) \/ OtherFieldEmpty(r)
           ReplacedWell == \A r \in Rows : Replaced(r) => Reason(r)
<1>0. \A r \in Rows : Filling(r) # {} => Reason(r)
  BY DEF OwnFieldEmpty, OtherFieldEmpty
<1>1. ASSUME GeolocationInv, [GeolocationNext]_geolocationVars
      PROVE  [ReplacedWell]_geolocationVars
  <2>1. ASSUME NEW x \in Contexts, AttachBehaviors(x)
        PROVE  ReplacedWell
    <3> DEFINE c == Len(attached) + 1
    <3>1. CASE Wanted(RowsIn[x]) /\ AtOnce
      <4>1. c \in blank'
        BY <2>1, <3>1 DEF AttachBehaviors, Wanted
      <4>2. value' = updateLocation(fields'[c])
        BY <1>1, <2>1, <3>1 DEF AttachBehaviors, GeolocationInv, GeolocationTypeOK
      <4>3. \A r \in Rows : Replaced(r) => r \in Found(fields'[c])
        BY <1>1, <4>2, UpdateFacts
           DEF GeolocationInv, GeolocationTypeOK, Here, Replaced
      <4> QED BY <1>0, <4>1, <4>3 DEF Filling
    <3>2. CASE ~(Wanted(RowsIn[x]) /\ AtOnce)
      BY <2>1, <3>2 DEF AttachBehaviors, Here, Replaced
    <3> QED BY <3>1, <3>2
  <2>2. ASSUME NEW r \in Rows, Press(r)
        PROVE  ReplacedWell
    <3>1. r \in asked' /\ Found(Aimed(r)[handler[r]]) = {r}
      BY <1>1, <2>2, RowIsNoDocument
         DEF Press, Aimed, GeolocationInv, GeolocationTypeOK, Elements, Calls
    <3>2. CASE AtOnce
      BY <1>1, <2>2, <3>1, <3>2, UpdateFacts
         DEF Press, GeolocationInv, GeolocationTypeOK, Here, Replaced, Pressed
    <3>3. CASE ~AtOnce
      BY <2>2, <3>3 DEF Press, Here, Replaced
    <3> QED BY <3>2, <3>3
  <2>3. ASSUME NEW c \in Calls, AnswerRows(c)
        PROVE  ReplacedWell
    <3>1. value' = updateLocation(fields[c]) /\ fields' = fields
      BY <2>3 DEF AnswerRows
    <3>2. \/ c \in blank
          \/ fields[c] # Document /\ fields[c] \subseteq asked
      BY <1>1, <2>3 DEF AnswerRows, GeolocationInv, RequestsHaveReason
    <3>3. \A r \in Rows : r \in Found(fields[c]) => Reason(r)
      <4>1. CASE c \in blank
        BY <1>0, <3>1, <4>1 DEF Filling
      <4>2. CASE fields[c] # Document /\ fields[c] \subseteq asked
        BY <4>2 DEF Found, Pressed
      <4> QED BY <3>2, <4>1, <4>2
    <3> QED BY <1>1, <3>1, <3>3, UpdateFacts
          DEF GeolocationInv, GeolocationTypeOK, Here, Replaced
  <2>4. ASSUME NEW c \in Calls, getClientOrigin(c) \/ Fail(c)
        PROVE  ReplacedWell
    BY <2>4 DEF getClientOrigin, Fail, Here, Replaced
  <2>5. ASSUME NEW r \in Rows, NEW v \in {Empty, "typed"}, TypeRow(r, v)
        PROVE  ReplacedWell
    BY <1>1, <2>5 DEF TypeRow, GeolocationInv, GeolocationTypeOK, Here, Empty, Replaced
  <2>6. CASE UNCHANGED geolocationVars
    BY <2>6 DEF geolocationVars, code, Replaced, Here
  <2> QED BY <1>1, <2>1, <2>2, <2>3, <2>4, <2>5, <2>6 DEF GeolocationNext
<1> QED BY <1>1, GeolocationInvariant, PTL DEF GeolocationSpec, ReplacedWithReason

-----------------------------------------------------------------------------
(* GeoJSON overlays (GeojsonOverlays)                                      *)
(*                                                                         *)
(* Whoever is processed takes the collection of that moment, so the        *)
(* invariant is about the collection: what its features come from, that    *)
(* all of the map that started it and all that others were waiting for is  *)
(* in it or still awaited, and that nobody else waits who was not          *)
(* overtaken.                                                              *)

Owners == Maps \union {"nobody"}
Collections == [owner : Owners, features : SUBSET Items, late : SUBSET Items]
Shown == [owner : Owners, features : SUBSET Items, late : SUBSET Items, shown : BOOLEAN]

(* A state of the behavior, between two maps of an attach call as well.    *)
Behaviors == [collection : Collections,
              promises : [Maps -> SUBSET Items],
              overlays : [Maps -> Shown \union {Unprocessed, Pending}],
              bounds : SUBSET Items,
              start : [Maps -> {"settings", "text", "overlays"}],
              overtaken : SUBSET Maps]

(* What map m finds in a collection, and what is in it at all.             *)
OfOwner(b) ==
    LET c == b.collection
    IN  /\ c.features # {} => c.owner \in Maps
        /\ c.features \subseteq Sources(c)
        /\ \A m \in Maps :
               /\ c.owner = m /\ Styled(m) => Usable(m) \ b.promises[m] \subseteq c.features
               /\ (Usable(m) \intersect c.late) \ b.promises[m] \subseteq c.features
               /\ c.owner # m /\ b.overlays[m] = Pending => m \in b.overtaken

(* Only styled maps wait, for what they have to fetch.                     *)
WaitsForOwn(b) ==
    \A m \in Maps :
        /\ b.promises[m] \subseteq Contents[m] \intersect Remote
        /\ b.overlays[m] = Pending => Styled(m)
        /\ b.promises[m] # {} => b.collection.owner \in Maps
        /\ b.collection.owner # m => b.promises[m] \subseteq b.collection.late

(* OwnOverlays of one map, in a state of the behavior.                     *)
OwnIn(m, o, overtook) ==
    o \notin {Unprocessed, Pending} =>
        /\ o.owner # m => m \in overtook
        /\ o.owner = m => Usable(m) \subseteq o.features
        /\ o.features \subseteq Sources(o)
        /\ Usable(m) \intersect o.late \subseteq o.features

InOrder(b) ==
    /\ b \in Behaviors
    /\ OfOwner(b) /\ WaitsForOwn(b)
    /\ \A m \in Maps : OwnIn(m, b.overlays[m], b.overtaken)

OverlayInv == InOrder(Now) /\ reachable \subseteq Remote /\ focus \in Maps

(* The records of the states of a map differ.                              *)
LEMMA NotWaiting ==
    ASSUME NEW o \in Shown
    PROVE  o \notin {Unprocessed, Pending}
<1>1. DOMAIN o = {"owner", "features", "late", "shown"}
  BY DEF Shown
<1>2. DOMAIN Unprocessed = {"none"} /\ DOMAIN Pending = {"pending"}
  BY DEF Unprocessed, Pending
<1>3. "owner" \notin {"none", "pending"}
  OBVIOUS
<1> QED BY <1>1, <1>2, <1>3

LEMMA DifferentWaits == Unprocessed # Pending
<1>1. DOMAIN Unprocessed = {"none"} /\ DOMAIN Pending = {"pending"}
  BY DEF Unprocessed, Pending
<1> QED BY <1>1

(* Items belong to one map.                                                *)
LEMMA AwaitedFacts ==
    ASSUME NEW b, InOrder(b)
    PROVE  /\ Awaited(b) \subseteq Items
           /\ \A m \in Maps : b.promises[m] \subseteq Awaited(b)
           /\ \A m \in Maps : Contents[m] \intersect Awaited(b) \subseteq b.promises[m]
<1>1. b.promises \in [Maps -> SUBSET Items]
  BY DEF InOrder, Behaviors
<1>2. \A m \in Maps : b.promises[m] \subseteq Contents[m]
  BY DEF InOrder, WaitsForOwn
<1> QED BY <1>1, <1>2, OverlayAssumption DEF Awaited

(* A map that starts the collection anew.                                  *)
LEMMA RestartedFields ==
    ASSUME NEW b, InOrder(b), NEW m \in Maps
    PROVE  LET r == Restarted(b, m)
           IN  /\ r.collection = [owner |-> m, features |-> {}, late |-> Awaited(b)]
               /\ r.bounds = {} /\ r.overtaken = b.overtaken \union Waiting(b)
               /\ r.promises = b.promises /\ r.overlays = b.overlays
               /\ r.start = b.start
               /\ r \in Behaviors
<1>1. b \in Behaviors /\ Awaited(b) \subseteq Items
  BY AwaitedFacts DEF InOrder
<1>2. Waiting(b) \subseteq Maps
  BY DEF Waiting
<1> QED BY <1>1, <1>2 DEF Restarted, Behaviors, Collections, Owners

LEMMA RestartedInOrder ==
    ASSUME NEW b, InOrder(b), NEW m \in Maps, ~Styled(m)
    PROVE  InOrder(Restarted(b, m))
<1> DEFINE r == Restarted(b, m)
<1>1. /\ r.collection = [owner |-> m, features |-> {}, late |-> Awaited(b)]
      /\ r.overtaken = b.overtaken \union Waiting(b)
      /\ r.promises = b.promises /\ r.overlays = b.overlays
      /\ r \in Behaviors
  BY RestartedFields
<1> HIDE DEF r
<1>2. OfOwner(r)
  <2>1. \A o \in Maps : (Usable(o) \intersect Awaited(b)) \ b.promises[o] = {}
    BY AwaitedFacts DEF Usable
  <2>2. \A o \in Maps : b.overlays[o] = Pending => o \in r.overtaken
    BY <1>1 DEF Waiting
  <2> QED BY <1>1, <2>1, <2>2 DEF OfOwner
<1>3. WaitsForOwn(r)
  BY <1>1, AwaitedFacts DEF InOrder, WaitsForOwn
<1>4. \A o \in Maps : OwnIn(o, r.overlays[o], r.overtaken)
  BY <1>1 DEF InOrder, OwnIn
<1>5. QED
  BY <1>1, <1>2, <1>3, <1>4 DEF InOrder, r

(* What is given by a value is in the collection at once.                  *)
LEMMA AttachOneInOrder ==
    ASSUME reachable \subseteq Remote, NEW b, InOrder(b), NEW m \in Maps
    PROVE  InOrder(AttachOne(b, m))
<1>1. CASE ~Styled(m)
  BY <1>1, RestartedInOrder DEF AttachOne
<1>2. CASE Styled(m)
  <2> DEFINE values == Contents[m] \ (Remote \union BadJson)
             started == Restarted(b, m)
             r == AttachOne(b, m)
  <2>1. values \subseteq Items /\ Contents[m] \intersect Remote \subseteq Items
    BY DEF Items
  <2>2. /\ started.collection = [owner |-> m, features |-> {}, late |-> Awaited(b)]
        /\ started.overtaken = b.overtaken \union Waiting(b)
        /\ started.promises = b.promises /\ started.overlays = b.overlays
        /\ started \in Behaviors
    BY RestartedFields
  <2>3. r = [started EXCEPT !.collection.features = @ \union values,
                            !.promises[m] = Contents[m] \intersect Remote,
                            !.overlays[m] = Pending]
    BY <1>2 DEF AttachOne
  <2> HIDE DEF started, values, r
  <2>4. /\ r.collection = [owner |-> m, features |-> values, late |-> Awaited(b)]
        /\ r.promises = [b.promises EXCEPT ![m] = Contents[m] \intersect Remote]
        /\ r.overlays = [b.overlays EXCEPT ![m] = Pending]
        /\ r.overtaken = b.overtaken \union Waiting(b)
    <3>1. /\ r.collection = [started.collection EXCEPT !.features = @ \union values]
          /\ r.promises = [started.promises EXCEPT ![m] = Contents[m] \intersect Remote]
          /\ r.overlays = [started.overlays EXCEPT ![m] = Pending]
          /\ r.overtaken = started.overtaken
      BY <2>2, <2>3 DEF Behaviors
    <3> QED BY <2>2, <3>1
  <2>5. r \in Behaviors
    BY <2>1, <2>2, <2>3 DEF Behaviors, Collections
  <2>6. /\ r.promises[m] = Contents[m] \intersect Remote /\ r.overlays[m] = Pending
        /\ \A o \in Maps : o # m => /\ r.promises[o] = b.promises[o]
                                    /\ r.overlays[o] = b.overlays[o]
    BY <2>2, <2>4 DEF Behaviors
  <2>7. /\ values \subseteq Usable(m) /\ Usable(m) \ r.promises[m] \subseteq values
        /\ \A o \in Maps : (Usable(o) \intersect Awaited(b)) \ r.promises[o] = {}
    <3>1. /\ values \subseteq Usable(m)
          /\ Usable(m) \ (Contents[m] \intersect Remote) \subseteq values
      BY <2>1 DEF Usable, values
    <3>2. ASSUME NEW o \in Maps
          PROVE  (Usable(o) \intersect Awaited(b)) \ r.promises[o] = {}
      <4>1. Usable(o) \intersect Awaited(b) \subseteq b.promises[o]
        BY AwaitedFacts DEF Usable
      <4>2. b.promises[o] \subseteq r.promises[o]
        BY <2>6 DEF InOrder, WaitsForOwn
      <4> QED BY <4>1, <4>2
    <3> QED BY <2>6, <3>1, <3>2
  <2>8. OfOwner(r)
    <3>1. values \subseteq Sources(r.collection)
      BY <2>4, <2>7 DEF Sources
    <3>2. \A o \in Maps : o # m /\ r.overlays[o] = Pending => o \in r.overtaken
      BY <2>4, <2>6 DEF Waiting
    <3> QED BY <2>4, <2>7, <3>1, <3>2 DEF OfOwner
  <2>9. WaitsForOwn(r)
    BY <1>2, <2>4, <2>6, AwaitedFacts DEF InOrder, WaitsForOwn
  <2>10. \A o \in Maps : OwnIn(o, r.overlays[o], r.overtaken)
    BY <2>4, <2>6 DEF InOrder, OwnIn
  <2>11. QED
    BY <2>5, <2>8, <2>9, <2>10 DEF InOrder, r
<1>3. QED
  BY <1>1, <1>2

(* A map is processed when nothing is awaited.                             *)
LEMMA ResolveInOrder ==
    ASSUME NEW b, InOrder(b), NEW m \in Maps
    PROVE  InOrder(Resolve(b, m))
<1>1. CASE ~(b.overlays[m] = Pending /\ b.promises[m] = {})
  BY <1>1 DEF Resolve
<1>2. CASE b.overlays[m] = Pending /\ b.promises[m] = {}
  <2> DEFINE c == b.collection
             o == [owner |-> c.owner, features |-> c.features, late |-> c.late,
                   shown |-> c.features \intersect Refused = {}]
             done == [b EXCEPT !.overlays[m] = o]
             r == Resolve(b, m)
  <2>1. b \in Behaviors /\ c \in Collections
    BY DEF InOrder, Behaviors
  <2>2. o \in Shown
    BY <2>1 DEF Shown, Collections
  <2>3. /\ done.collection = b.collection /\ done.promises = b.promises
        /\ done.overlays = [b.overlays EXCEPT ![m] = o]
        /\ done.overtaken = b.overtaken /\ done \in Behaviors
    BY <2>1, <2>2 DEF Behaviors
  <2>4. r = done \/ r = processGeoJsonOverlay(done, m)
    BY <1>2 DEF Resolve, AllResolved
  <2> HIDE DEF done, o, r
  <2>5. /\ r.collection = b.collection /\ r.promises = b.promises
        /\ r.overlays = [b.overlays EXCEPT ![m] = o]
        /\ r.overtaken = b.overtaken /\ r \in Behaviors
    <3> DEFINE extended == done.bounds \union done.collection.features
    <3>1. extended \subseteq Items
      BY <2>1, <2>3 DEF Behaviors, Collections
    <3>2. \/ r = done
          \/ r = [done EXCEPT !.bounds = extended, !.start[m] = "overlays"]
      BY <2>4 DEF processGeoJsonOverlay
    <3> HIDE DEF extended
    <3>3. CASE r = done
      BY <2>3, <3>3
    <3>4. CASE r = [done EXCEPT !.bounds = extended, !.start[m] = "overlays"]
      <4>1. done.start \in [Maps -> {"settings", "text", "overlays"}]
        BY <2>3 DEF Behaviors
      <4>2. [done.start EXCEPT ![m] = "overlays"]
              \in [Maps -> {"settings", "text", "overlays"}]
        BY <4>1
      <4>3. /\ r.collection = done.collection /\ r.promises = done.promises
            /\ r.overlays = done.overlays /\ r.overtaken = done.overtaken
        BY <2>3, <3>4 DEF Behaviors
      <4>4. r \in Behaviors
        BY <2>3, <3>1, <3>4, <4>2 DEF Behaviors
      <4> QED BY <2>3, <4>3, <4>4
    <3> QED BY <3>2, <3>3, <3>4
  <2>6. /\ r.overlays[m] = o /\ r.overlays[m] # Pending
        /\ \A k \in Maps : k # m => r.overlays[k] = b.overlays[k]
    BY <2>1, <2>2, <2>5, NotWaiting DEF Behaviors
  <2>7. OfOwner(r) /\ WaitsForOwn(r)
    BY <2>5, <2>6 DEF InOrder, OfOwner, WaitsForOwn
  <2>8. OwnIn(m, o, b.overtaken)
    <3>1. /\ o.owner = c.owner /\ o.features = c.features /\ o.late = c.late
          /\ Sources(o) = Sources(c)
      BY DEF o, Sources
    <3>2. /\ c.owner # m => m \in b.overtaken
          /\ c.owner = m => Usable(m) \subseteq c.features
          /\ c.features \subseteq Sources(c)
          /\ Usable(m) \intersect c.late \subseteq c.features
      BY <1>2 DEF InOrder, OfOwner, WaitsForOwn
    <3> QED BY <3>1, <3>2 DEF OwnIn
  <2>9. \A k \in Maps : OwnIn(k, r.overlays[k], r.overtaken)
    BY <2>5, <2>6, <2>8 DEF InOrder
  <2>10. QED
    BY <2>5, <2>7, <2>9 DEF InOrder, r
<1>3. QED
  BY <1>1, <1>2

LEMMA FetchedInOrder ==
    ASSUME OverlayInv, NEW m \in Maps, NEW i \in promises[m]
    PROVE  InOrder(Fetched(m, i))
<1> DEFINE r == Fetched(m, i)
           added == IF i \in reachable THEN {i} ELSE {}
<1>1. Now \in Behaviors /\ i \in Contents[m] \intersect Remote /\ i \in Items
  BY DEF OverlayInv, InOrder, WaitsForOwn, Now, Items
<1>2. /\ r.collection = [owner |-> collection.owner,
                         features |-> collection.features \union added,
                         late |-> collection.late]
      /\ r.promises = [promises EXCEPT ![m] = @ \ {i}]
      /\ r.overlays = overlays /\ r.bounds = bounds /\ r.start = start
      /\ r.overtaken = overtaken
      /\ r \in Behaviors
  <2>1. /\ Now.collection = collection /\ Now.promises = promises
        /\ Now.overlays = overlays /\ Now.bounds = bounds /\ Now.start = start
        /\ Now.overtaken = overtaken
    BY DEF Now
  <2>2. collection \in Collections
    BY <1>1, <2>1 DEF Behaviors
  <2>3. r = [Now EXCEPT !.promises[m] = @ \ {i}, !.collection.features = @ \union added]
    BY <1>1, <2>1 DEF Fetched, Behaviors, Collections
  <2>4. added \subseteq Items
    BY <1>1
  <2> HIDE DEF r, added
  <2>5. /\ r.collection = [collection EXCEPT !.features = @ \union added]
        /\ r.promises = [promises EXCEPT ![m] = @ \ {i}]
        /\ r.overlays = overlays /\ r.bounds = bounds /\ r.start = start
        /\ r.overtaken = overtaken
    BY <1>1, <2>1, <2>3 DEF Behaviors
  <2>6. r.collection = [owner |-> collection.owner,
                        features |-> collection.features \union added,
                        late |-> collection.late]
    BY <2>2, <2>5 DEF Collections
  <2>7. r \in Behaviors
    BY <1>1, <2>2, <2>3, <2>4 DEF Behaviors, Collections
  <2> QED BY <2>5, <2>6, <2>7
<1>3. /\ r.promises[m] = promises[m] \ {i}
      /\ \A o \in Maps : o # m => r.promises[o] = promises[o]
  BY <1>1, <1>2 DEF Now, Behaviors
<1> HIDE DEF r
<1>4. OfOwner(r)
  <2>1. r.collection.owner \in Maps
    BY <1>2 DEF OverlayInv, InOrder, WaitsForOwn, Now
  <2>2. Sources(r.collection) = Sources(collection)
    BY <1>2 DEF Sources
  <2>3. added \subseteq Sources(collection)
    <3>1. CASE collection.owner = m
      BY <1>1, <3>1 DEF Sources, Usable
    <3>2. CASE collection.owner # m
      BY <3>2 DEF OverlayInv, InOrder, WaitsForOwn, Now, Sources
    <3> QED BY <3>1, <3>2
  <2>4. r.collection.features \subseteq Sources(r.collection)
    BY <1>2, <2>2, <2>3 DEF OverlayInv, InOrder, OfOwner, Now
  <2>5. ASSUME NEW o \in Maps
        PROVE  /\ r.collection.owner = o /\ Styled(o) =>
                      Usable(o) \ r.promises[o] \subseteq r.collection.features
               /\ (Usable(o) \intersect r.collection.late) \ r.promises[o]
                      \subseteq r.collection.features
               /\ r.collection.owner # o /\ r.overlays[o] = Pending =>
                      o \in r.overtaken
    <3>1. /\ collection.owner = o /\ Styled(o) =>
                 Usable(o) \ promises[o] \subseteq collection.features
          /\ (Usable(o) \intersect collection.late) \ promises[o]
                 \subseteq collection.features
          /\ collection.owner # o /\ overlays[o] = Pending => o \in overtaken
      BY DEF OverlayInv, InOrder, OfOwner, Now
    <3>2. i \in Usable(o) => i \in reachable
      BY <1>1 DEF Usable
    <3>3. QED
      BY <1>2, <1>3, <3>1, <3>2
  <2>6. QED
    BY <2>1, <2>4, <2>5 DEF OfOwner
<1>5. WaitsForOwn(r)
  BY <1>2, <1>3 DEF OverlayInv, InOrder, WaitsForOwn, Now
<1>6. \A o \in Maps : OwnIn(o, r.overlays[o], r.overtaken)
  BY <1>2 DEF OverlayInv, InOrder, Now
<1>7. QED
  BY <1>2, <1>4, <1>5, <1>6 DEF InOrder, r

-----------------------------------------------------------------------------
(* The two loops over the maps of an attach call                           *)

AttachOp(e, b, m) == AttachOne(b, m)
ResolveOp(e, b, m) == Resolve(b, m)
Always(e, n, b) == InOrder(b)

Attaching == INSTANCE FoldTheorems WITH Op <- AttachOp, Inv <- Always
Resolving == INSTANCE FoldTheorems WITH Op <- ResolveOp, Inv <- Always

LEMMA AttachedInOrder ==
    ASSUME reachable \subseteq Remote, NEW b, InOrder(b), NEW ms \in Seq(Maps)
    PROVE  InOrder(FoldLeft(AttachOne, b, ms))
<1>1. \A i \in 1 .. Len(ms) : \A x :
          Always(0, i - 1, x) => Always(0, i, AttachOp(0, x, ms[i]))
  BY AttachOneInOrder DEF Always, AttachOp
<1>2. Always(0, Len(ms), Attaching!Fold(0, b, ms))
  BY <1>1, Attaching!FoldInvariant DEF Always
<1>3. Attaching!Fold(0, b, ms) = FoldLeft(AttachOne, b, ms)
  BY DEF Attaching!Fold, Attaching!FoldLeft, Attaching!MapThenFoldSet, Attaching!Max,
         FoldLeft, MapThenFoldSet, Max, AttachOp
<1>4. QED
  BY <1>2, <1>3 DEF Always

LEMMA ResolvedInOrder ==
    ASSUME NEW b, InOrder(b), NEW ms \in Seq(Maps)
    PROVE  InOrder(FoldLeft(Resolve, b, ms))
<1>1. \A i \in 1 .. Len(ms) : \A x :
          Always(0, i - 1, x) => Always(0, i, ResolveOp(0, x, ms[i]))
  BY ResolveInOrder DEF Always, ResolveOp
<1>2. Always(0, Len(ms), Resolving!Fold(0, b, ms))
  BY <1>1, Resolving!FoldInvariant DEF Always
<1>3. Resolving!Fold(0, b, ms) = FoldLeft(Resolve, b, ms)
  BY DEF Resolving!Fold, Resolving!FoldLeft, Resolving!MapThenFoldSet, Resolving!Max,
         FoldLeft, MapThenFoldSet, Max, ResolveOp
<1>4. QED
  BY <1>2, <1>3 DEF Always

-----------------------------------------------------------------------------
(* Steps                                                                   *)

LEMMA BecomesInOrder ==
    ASSUME NEW b, InOrder(b), Becomes(b), reachable \subseteq Remote, focus \in Maps
    PROVE  OverlayInv'
<1>1. Now' = b /\ reachable' = reachable /\ focus' = focus
  BY DEF InOrder, Becomes, Now, Behaviors
<1>2. QED
  BY <1>1 DEF OverlayInv, InOrder, OfOwner, WaitsForOwn, OwnIn, Usable, Sources

LEMMA OverlayInitial == FormInit => OverlayInv
<1> SUFFICES ASSUME FormInit PROVE OverlayInv
  OBVIOUS
<1>1. Now \in Behaviors
  BY DEF FormInit, Now, Behaviors, Collections, Owners, Nobody
<1>2. OfOwner(Now)
  BY OverlayAssumption, DifferentWaits DEF FormInit, OfOwner, Now, Nobody
<1>3. WaitsForOwn(Now) /\ \A m \in Maps : OwnIn(m, overlays[m], overtaken)
  BY DifferentWaits DEF FormInit, WaitsForOwn, OwnIn, Now
<1>4. QED
  BY <1>1, <1>2, <1>3, OverlayAssumption DEF FormInit, OverlayInv, InOrder, Now

(* The sequences in which new maps may come.                               *)
LEMMA OrderFacts ==
    ASSUME NEW new \in SUBSET Maps, NEW ms \in SetToSeqs(new)
    PROVE  ms \in Seq(Maps)
<1>1. Cardinality(new) \in Nat
  BY OverlayAssumption, FS_Subset, FS_CardinalityType
<1>2. ms \in [1 .. Cardinality(new) -> new]
  BY DEF SetToSeqs
<1>3. QED
  BY <1>1, <1>2

LEMMA AttachKeepsOverlays ==
    ASSUME OverlayInv, NEW ms \in Seq(Maps), Attach(ms)
    PROVE  OverlayInv'
<1> DEFINE centered == [Now EXCEPT !.start =
                           [m \in Maps |-> IF m \in ToSet(ms)
                                           THEN Centered(@[m], text[m])
                                           ELSE @[m]]]
           processed == FoldLeft(AttachOne, centered, ms)
<1>1. InOrder(centered)
  <2>1. /\ centered.collection = collection /\ centered.promises = promises
        /\ centered.overlays = overlays /\ centered.overtaken = overtaken
        /\ centered \in Behaviors
    BY DEF OverlayInv, InOrder, Now, Behaviors, Centered
  <2> HIDE DEF centered
  <2>2. QED
    BY <2>1 DEF OverlayInv, InOrder, OfOwner, WaitsForOwn, Now
<1>2. Becomes(FoldLeft(Resolve, processed, ms))
  BY DEF Attach
<1> HIDE DEF centered
<1>3. InOrder(processed)
  BY <1>1, AttachedInOrder DEF OverlayInv
<1> HIDE DEF processed
<1>4. InOrder(FoldLeft(Resolve, processed, ms))
  BY <1>3, ResolvedInOrder
<1>5. QED
  BY <1>2, <1>4, BecomesInOrder DEF OverlayInv

LEMMA AnswerKeepsOverlays ==
    ASSUME OverlayInv, NEW m \in Maps, NEW i \in Items, Answer(m, i)
    PROVE  OverlayInv'
<1>1. i \in promises[m] /\ Becomes(Resolve(Fetched(m, i), m))
  BY DEF Answer
<1>2. InOrder(Resolve(Fetched(m, i), m))
  BY <1>1, FetchedInOrder, ResolveInOrder
<1>3. QED
  BY <1>1, <1>2, BecomesInOrder DEF OverlayInv

(* The visitor may center a map on its text, and does nothing else here.   *)
LEMMA VisitKeepsOverlays ==
    ASSUME OverlayInv, NEW m \in Maps, Visit(m), UNCHANGED overlayVars
    PROVE  OverlayInv'
<1>1. start' \in [Maps -> {"settings", "text", "overlays"}]
  <2>1. start \in [Maps -> {"settings", "text", "overlays"}]
    BY DEF OverlayInv, InOrder, Behaviors, Now
  <2>2. \/ UNCHANGED start
        \/ \E v : start' = [start EXCEPT ![m] = Centered(@, v)]
    BY DEF Visit, Draw, Erase, Edit, Cut, Changed, PlaceMarker, TypeText
  <2>3. QED
    BY <2>1, <2>2 DEF Centered
<1>2. Now' \in Behaviors
  BY <1>1 DEF OverlayInv, InOrder, Behaviors, Now, overlayVars
<1>3. QED
  BY <1>2 DEF OverlayInv, InOrder, OfOwner, WaitsForOwn, OwnIn, Usable, Sources, Now,
              overlayVars

LEMMA OverlayStep == OverlayInv /\ [FormNext]_formVars => OverlayInv'
<1> SUFFICES ASSUME OverlayInv, [FormNext]_formVars
             PROVE  OverlayInv'
  OBVIOUS
<1>1. ASSUME NEW new \in SUBSET Maps, NEW ms \in SetToSeqs(new), Attach(ms)
      PROVE  OverlayInv'
  BY <1>1, OrderFacts, AttachKeepsOverlays
<1>2. ASSUME NEW m \in Maps, NEW i \in Items, Answer(m, i)
      PROVE  OverlayInv'
  BY <1>2, AnswerKeepsOverlays
<1>3. CASE Visit(focus) /\ UNCHANGED overlayVars
  BY <1>3, VisitKeepsOverlays DEF OverlayInv
<1>4. CASE UNCHANGED formVars
  BY <1>4 DEF formVars, overlayVars, widgetVars, OverlayInv, InOrder, OfOwner,
              WaitsForOwn, OwnIn, Usable, Sources, Now
<1>5. QED
  BY <1>1, <1>2, <1>3, <1>4 DEF FormNext, LoadNext

(* The inductive invariant holds in every reachable state of a form.       *)
THEOREM OverlayInvariant == FormSpec => []OverlayInv
  BY OverlayInitial, OverlayStep, PTL DEF FormSpec

(* For any number of maps, items and answers: a map that was not overtaken *)
(* is processed with its own collection and all it can have; no collection *)
(* holds more than what its owner brings and what was awaited when it was  *)
(* started, and what an overtaken map was waiting for then is in it        *)
(* (self.geoJson).                                                         *)
THEOREM OverlaysAlwaysOwn == FormSpec => []OwnOverlays
<1>1. OverlayInv => OwnOverlays
  BY DEF OverlayInv, InOrder, OwnIn, OwnOverlays, Processed, Now
<1>2. QED
  BY <1>1, OverlayInvariant, PTL

-----------------------------------------------------------------------------
(* Widgets (LeafletWidget)                                                 *)
(*                                                                         *)
(* TextFollows says nothing of a map with a layer that nobody hears, or    *)
(* with two groups that differ; but a layer may go and groups may become   *)
(* equal again, so the invariant says what holds meanwhile: which layers   *)
(* there are (Known), and that the text is that of a group, unless an      *)
(* unheard layer is in one, which no event of the layer takes out (Told).  *)

TextIs(saved, shapes) == IF saved = Invalid THEN shapes = {} ELSE saved = shapes

(* A layer that is heard is drawn where it is heard, or is one that main   *)
(* has cleared and the other widget still holds.                           *)
KnownLayer(l, ws) ==
    /\ l.heard \subseteq ws /\ l.in \subseteq ws
    /\ \/ l.heard = {}
       \/ l.in = l.heard /\ l.shown
       \/ l.heard = Widgets /\ l.in = {"overlay"} /\ ~l.shown

Known(ls, ws) == \A l \in ToSet(ls) : KnownLayer(l, ws)

Told(saved, ls, ws) ==
    \/ \E w \in ws : TextIs(saved, Group(ls, w))
    \/ \E l \in ToSet(ls) : l.heard = {} /\ l.in # {}

InStep(ws, saved, ls) ==
    IF ws = {} THEN ls = << >> ELSE Known(ls, ws) /\ Told(saved, ls, ws)

WidgetInv ==
    /\ widgets \in [Maps -> {<< >>, <<"main">>, <<"main", "overlay">>}]
    /\ text \in [Maps -> Texts]
    /\ layers \in [Maps -> Seq(Layer)]
    /\ \A m \in Maps : InStep(ToSet(widgets[m]), text[m], layers[m])

(* The elements of sequences.                                              *)
LEMMA ListFacts ==
    /\ ToSet(<< >>) = {} /\ ToSet(<<"main">>) = {"main"}
    /\ ToSet(<<"main", "overlay">>) = Widgets
    /\ \A S : \A s \in Seq(S) : ToSet(s) \subseteq S
    /\ \A S : \A s \in Seq(S) : \A x \in S :
           Append(s, x) \in Seq(S) /\ ToSet(Append(s, x)) = ToSet(s) \union {x}
    /\ \A S : \A s, t \in Seq(S) :
           s \o t \in Seq(S) /\ ToSet(s \o t) = ToSet(s) \union ToSet(t)
<1>1. /\ ToSet(<< >>) = {} /\ ToSet(<<"main">>) = {"main"}
      /\ ToSet(<<"main", "overlay">>) = Widgets
  BY DEF ToSet, Widgets
<1>2. ASSUME NEW S, NEW s \in Seq(S)
      PROVE  ToSet(s) \subseteq S
  BY DEF ToSet
<1>3. ASSUME NEW S, NEW s \in Seq(S), NEW x \in S
      PROVE  Append(s, x) \in Seq(S) /\ ToSet(Append(s, x)) = ToSet(s) \union {x}
  <2>1. /\ Append(s, x) \in Seq(S) /\ Len(Append(s, x)) = Len(s) + 1
        /\ DOMAIN Append(s, x) = 1 .. Len(s) + 1 /\ DOMAIN s = 1 .. Len(s)
        /\ \A i \in 1 .. Len(s) : Append(s, x)[i] = s[i]
        /\ Append(s, x)[Len(s) + 1] = x /\ Len(s) \in Nat
    OBVIOUS
  <2>2. 1 .. Len(s) + 1 = (1 .. Len(s)) \union {Len(s) + 1}
    BY <2>1
  <2>3. QED
    BY <2>1, <2>2 DEF ToSet
<1>4. ASSUME NEW S, NEW s \in Seq(S), NEW t \in Seq(S)
      PROVE  s \o t \in Seq(S) /\ ToSet(s \o t) = ToSet(s) \union ToSet(t)
  <2>1. /\ s \o t \in Seq(S) /\ Len(s \o t) = Len(s) + Len(t)
        /\ DOMAIN (s \o t) = 1 .. Len(s) + Len(t)
        /\ DOMAIN s = 1 .. Len(s) /\ DOMAIN t = 1 .. Len(t)
        /\ Len(s) \in Nat /\ Len(t) \in Nat
    OBVIOUS
  <2>2. \A i \in 1 .. Len(s) + Len(t) :
            (s \o t)[i] = IF i <= Len(s) THEN s[i] ELSE t[i - Len(s)]
    BY <2>1
  <2>3. ASSUME NEW i \in 1 .. Len(s) + Len(t)
        PROVE  (s \o t)[i] \in ToSet(s) \union ToSet(t)
    <3>1. CASE i <= Len(s)
      <4>1. i \in DOMAIN s /\ (s \o t)[i] = s[i]
        BY <2>1, <2>2, <3>1
      <4>2. QED
        BY <4>1 DEF ToSet
    <3>2. CASE ~(i <= Len(s))
      <4>1. i - Len(s) \in DOMAIN t /\ (s \o t)[i] = t[i - Len(s)]
        BY <2>1, <2>2, <3>2
      <4>2. QED
        BY <4>1 DEF ToSet
    <3>3. QED
      BY <3>1, <3>2
  <2>4. ASSUME NEW i \in 1 .. Len(s)
        PROVE  s[i] \in ToSet(s \o t)
    <3>1. i \in 1 .. Len(s) + Len(t) /\ i <= Len(s)
      BY <2>1
    <3>2. QED
      BY <2>1, <2>2, <3>1 DEF ToSet
  <2>5. ASSUME NEW i \in 1 .. Len(t)
        PROVE  t[i] \in ToSet(s \o t)
    <3>1. /\ i + Len(s) \in 1 .. Len(s) + Len(t) /\ ~(i + Len(s) <= Len(s))
          /\ (i + Len(s)) - Len(s) = i
      BY <2>1
    <3>2. (s \o t)[i + Len(s)] = t[i]
      BY <2>2, <3>1
    <3>3. QED
      BY <2>1, <3>1, <3>2 DEF ToSet
  <2>6. QED
    BY <2>1, <2>3, <2>4, <2>5 DEF ToSet
<1>5. QED
  BY <1>1, <1>2, <1>3, <1>4

(* The layers of a sequence one by one.                                    *)
LEMMA MapFacts ==
    ASSUME NEW ls \in Seq(Layer), NEW f, DOMAIN f = DOMAIN ls,
           \A i \in DOMAIN ls : f[i] \in Layer, 
           f = [i \in DOMAIN ls |-> f[i]]
    PROVE  f \in Seq(Layer) /\ ToSet(f) = {f[i] : i \in DOMAIN ls}
<1>1. DOMAIN ls = 1 .. Len(ls) /\ Len(ls) \in Nat
  OBVIOUS
<1>2. f \in [1 .. Len(ls) -> Layer]
  BY <1>1
<1>3. QED
  BY <1>1, <1>2 DEF ToSet

-----------------------------------------------------------------------------
(* The loops over layers                                                   *)

OnlyOp(e, kept, l) == IF l \in e.those THEN Append(kept, l) ELSE kept
OnlyInv(e, n, kept) ==
    /\ kept \in Seq(Layer)
    /\ ToSet(kept) = {e.ls[i] : i \in 1 .. n} \intersect e.those
Keeping == INSTANCE FoldTheorems WITH Op <- OnlyOp, Inv <- OnlyInv

LEMMA OnlyFacts ==
    ASSUME NEW ls \in Seq(Layer), NEW those
    PROVE  /\ Only(ls, those) \in Seq(Layer)
           /\ ToSet(Only(ls, those)) = ToSet(ls) \intersect those
<1> DEFINE e == [ls |-> ls, those |-> those]
<1>1. OnlyInv(e, 0, << >>)
  <2>1. << >> \in Seq(Layer) /\ 1 .. 0 = {}
    OBVIOUS
  <2>2. QED
    BY <2>1, ListFacts DEF OnlyInv
<1>2. ASSUME NEW i \in 1 .. Len(ls), NEW kept, OnlyInv(e, i - 1, kept)
      PROVE  OnlyInv(e, i, OnlyOp(e, kept, ls[i]))
  <2>1. /\ i - 1 \in Nat /\ ls[i] \in Layer
        /\ 1 .. i = (1 .. i - 1) \union {i}
    OBVIOUS
  <2>2. {ls[j] : j \in 1 .. i} = {ls[j] : j \in 1 .. i - 1} \union {ls[i]}
    BY <2>1
  <2>3. kept \in Seq(Layer)
        /\ ToSet(kept) = {ls[j] : j \in 1 .. i - 1} \intersect those
    BY <1>2 DEF OnlyInv
  <2>4. /\ Append(kept, ls[i]) \in Seq(Layer)
        /\ ToSet(Append(kept, ls[i])) = ToSet(kept) \union {ls[i]}
    BY <2>1, <2>3, ListFacts
  <2>5. QED
    BY <2>2, <2>3, <2>4 DEF OnlyInv, OnlyOp
<1>3. OnlyInv(e, Len(ls), Keeping!Fold(e, << >>, ls))
  <2> HIDE DEF e
  <2>1. QED
    BY <1>1, <1>2, Keeping!FoldInvariant
<1>4. Keeping!Fold(e, << >>, ls) = Only(ls, those)
  BY DEF Keeping!Fold, Keeping!FoldLeft, Keeping!MapThenFoldSet, Keeping!Max,
         Only, FoldLeft, MapThenFoldSet, Max, OnlyOp
<1>5. ToSet(ls) = {ls[i] : i \in 1 .. Len(ls)}
  BY DEF ToSet
<1>6. QED
  BY <1>3, <1>4, <1>5 DEF OnlyInv

HeardOp(e, ws, l) == IF l.heard # {} THEN l.heard ELSE ws
HeardInv(ls, n, ws) ==
    \/ ws = {} /\ \A i \in 1 .. n : ls[i].heard = {}
    \/ ws # {} /\ \E i \in 1 .. n : ws = ls[i].heard
Hearing == INSTANCE FoldTheorems WITH Op <- HeardOp, Inv <- HeardInv

LEMMA LastHeardFacts ==
    ASSUME NEW ls \in Seq(Layer)
    PROVE  \/ LastHeard(ls) = {} /\ \A l \in ToSet(ls) : l.heard = {}
           \/ LastHeard(ls) # {} /\ \E l \in ToSet(ls) : LastHeard(ls) = l.heard
<1>1. HeardInv(ls, 0, {})
  BY DEF HeardInv
<1>2. ASSUME NEW i \in 1 .. Len(ls), NEW ws, HeardInv(ls, i - 1, ws)
      PROVE  HeardInv(ls, i, HeardOp(ls, ws, ls[i]))
  <2>1. i - 1 \in Nat /\ i \in 1 .. i /\ 1 .. i = (1 .. i - 1) \union {i}
    OBVIOUS
  <2>2. QED
    BY <1>2, <2>1 DEF HeardInv, HeardOp
<1>3. HeardInv(ls, Len(ls), Hearing!Fold(ls, {}, ls))
  BY <1>1, <1>2, Hearing!FoldInvariant
<1>4. Hearing!Fold(ls, {}, ls) = LastHeard(ls)
  BY DEF Hearing!Fold, Hearing!FoldLeft, Hearing!MapThenFoldSet, Hearing!Max,
         LastHeard, FoldLeft, MapThenFoldSet, Max, HeardOp
<1>5. QED
  BY <1>3, <1>4 DEF HeardInv, ToSet

(* What is kept, and that garbage is in no group.                          *)
LEMMA KeptFacts ==
    ASSUME NEW ls \in Seq(Layer)
    PROVE  /\ Kept(ls) \in Seq(Layer)
           /\ ToSet(Kept(ls)) = {l \in ToSet(ls) : l.shown \/ l.in # {}}
           /\ \A w : Group(Kept(ls), w) = Group(ls, w)
<1>1. /\ Kept(ls) \in Seq(Layer)
      /\ ToSet(Kept(ls)) = {l \in ToSet(ls) : l.shown \/ l.in # {}}
  BY OnlyFacts DEF Kept
<1>2. QED
  BY <1>1 DEF Group

(* A set of shapes as a sequence.                                          *)
LEMMA ShapeFacts ==
    ASSUME NEW shapes \in SUBSET Shapes
    PROVE  SetToSeq(shapes) \in Seq(Shapes) /\ ToSet(SetToSeq(shapes)) = shapes
<1>1. IsFiniteSet(shapes)
  BY ShapeAssumption, FS_Subset
<1> DEFINE n == Cardinality(shapes)
<1>2. n \in Nat /\ ExistsBijection(1 .. n, shapes)
  BY <1>1, FS_CardinalityType
<1>3. PICK f \in [1 .. n -> shapes] : IsInjective(f)
  BY <1>2 DEF ExistsBijection, Bijection, Injection, IsInjective
<1>4. SetToSeq(shapes) \in [1 .. n -> shapes] /\ IsInjective(SetToSeq(shapes))
  BY <1>3 DEF SetToSeq
<1> DEFINE g == SetToSeq(shapes)
<1> HIDE DEF g
<1>5. g \in Injection(1 .. n, shapes)
  BY <1>4 DEF Injection, IsInjective, g
<1>6. Cardinality(1 .. n) = n
  BY <1>2, FS_Interval
<1>7. g \in Surjection(1 .. n, shapes)
  BY <1>1, <1>5, <1>6, FS_Injection
<1>8. g \in [1 .. n -> shapes]
  BY <1>4 DEF g
<1>9. g \in Seq(Shapes) /\ DOMAIN g = 1 .. n
  BY <1>2, <1>8
<1>10. ToSet(g) = shapes
  BY <1>7, <1>8, <1>9 DEF Surjection, ToSet
<1>11. QED
  BY <1>9, <1>10 DEF g

-----------------------------------------------------------------------------
(* Reading a text                                                          *)

(* clearLayers() of one widget.                                            *)
Cleared(l, w) == [l EXCEPT !.in = @ \ {w}, !.shown = FALSE]

LEMMA ClearedFacts ==
    ASSUME NEW l \in Layer, NEW w
    PROVE  /\ Cleared(l, w) \in Layer
           /\ Cleared(l, w).in = l.in \ {w} /\ ~Cleared(l, w).shown
           /\ Cleared(l, w).heard = l.heard /\ Cleared(l, w).shape = l.shape
  BY DEF Layer, Cleared

LEMMA ClearFacts ==
    ASSUME NEW ls \in Seq(Layer), NEW w \in Widgets
    PROVE  /\ clearLayers(ls, w) \in Seq(Layer)
           /\ \A l \in ToSet(clearLayers(ls, w)) :
                  \/ l \in ToSet(ls) /\ w \notin l.in
                  \/ /\ l.in # {}
                     /\ \E k \in ToSet(ls) : w \in k.in /\ l = Cleared(k, w)
<1> DEFINE f == [i \in DOMAIN ls |-> IF w \in ls[i].in THEN Cleared(ls[i], w) ELSE ls[i]]
<1>1. clearLayers(ls, w) = Kept(f)
  BY DEF clearLayers, Cleared
<1>2. \A i \in DOMAIN ls : ls[i] \in Layer /\ Cleared(ls[i], w) \in Layer
  <2>1. \A i \in DOMAIN ls : ls[i] \in Layer
    OBVIOUS
  <2>2. QED
    BY <2>1, ClearedFacts
<1>3. f \in Seq(Layer) /\ ToSet(f) = {f[i] : i \in DOMAIN ls}
  BY <1>2, MapFacts
<1>4. /\ Kept(f) \in Seq(Layer)
      /\ ToSet(Kept(f)) = {l \in ToSet(f) : l.shown \/ l.in # {}}
  <2> HIDE DEF f
  <2>1. QED
    BY <1>3, KeptFacts
<1>5. ASSUME NEW i \in DOMAIN ls, f[i].shown \/ f[i].in # {}
      PROVE  \/ f[i] \in ToSet(ls) /\ w \notin f[i].in
             \/ /\ f[i].in # {}
                /\ \E k \in ToSet(ls) : w \in k.in /\ f[i] = Cleared(k, w)
  <2>1. ls[i] \in ToSet(ls)
    BY DEF ToSet
  <2>2. CASE w \in ls[i].in
    <3>1. f[i] = Cleared(ls[i], w) /\ ~Cleared(ls[i], w).shown
      BY <1>2, <2>2, ClearedFacts
    <3>2. QED
      BY <1>5, <2>1, <2>2, <3>1
  <2>3. CASE w \notin ls[i].in
    BY <2>1, <2>3
  <2>4. QED
    BY <2>2, <2>3
<1>6. QED
  BY <1>1, <1>3, <1>4, <1>5

NewLayer(s, w) == [shape |-> s, in |-> {w}, heard |-> {w}, shown |-> TRUE]
ShapesOf(saved) == IF saved = Invalid THEN {} ELSE saved

(* update_leaflet_widget_map(): what is there then, and that the group of  *)
(* the widget is what the text says.                                       *)
LEMMA ReadFacts ==
    ASSUME NEW ls \in Seq(Layer), NEW w \in Widgets, NEW saved \in Texts,
           NEW read, read = update_leaflet_widget_map(ls, w, saved)
    PROVE  /\ read \in Seq(Layer)
           /\ ToSet(read) = ToSet(clearLayers(ls, w))
                            \union {NewLayer(s, w) : s \in ShapesOf(saved)}
           /\ TextIs(saved, Group(read, w))
<1> DEFINE shapes == IF saved = Invalid THEN << >> ELSE SetToSeq(saved)
           new == [i \in DOMAIN shapes |-> NewLayer(shapes[i], w)]
<1>1. ShapesOf(saved) \in SUBSET Shapes
  BY DEF Texts, ShapesOf
<1>2. shapes \in Seq(Shapes) /\ ToSet(shapes) = ShapesOf(saved)
  <2>1. CASE saved = Invalid
    <3>1. << >> \in Seq(Shapes)
      OBVIOUS
    <3>2. QED
      BY <2>1, <3>1, ListFacts DEF ShapesOf
  <2>2. CASE saved # Invalid
    BY <1>1, <2>2, ShapeFacts DEF ShapesOf
  <2>3. QED
    BY <2>1, <2>2
<1>3. read = clearLayers(ls, w) \o new
  BY DEF update_leaflet_widget_map, NewLayer
<1> HIDE DEF shapes
<1>4. \A s \in Shapes : NewLayer(s, w) \in Layer
  BY DEF NewLayer, Layer
<1>5. /\ new \in Seq(Layer)
      /\ ToSet(new) = {NewLayer(s, w) : s \in ShapesOf(saved)}
  <2>1. DOMAIN shapes = 1 .. Len(shapes) /\ Len(shapes) \in Nat
        /\ \A i \in DOMAIN shapes : shapes[i] \in Shapes
    BY <1>2
  <2>2. new \in [1 .. Len(shapes) -> Layer]
    BY <1>4, <2>1
  <2>3. QED
    BY <1>2, <2>1, <2>2 DEF ToSet
<1> HIDE DEF new
<1>6. clearLayers(ls, w) \in Seq(Layer)
  BY ClearFacts
<1>7. /\ read \in Seq(Layer)
      /\ ToSet(read) = ToSet(clearLayers(ls, w)) \union ToSet(new)
  BY <1>3, <1>5, <1>6, ListFacts
<1>8. \A l \in ToSet(clearLayers(ls, w)) : w \notin l.in
  <2>1. \A k \in ToSet(ls) : w \notin Cleared(k, w).in
    <3>1. \A k \in Layer : w \notin Cleared(k, w).in
      BY ClearedFacts
    <3>2. QED
      BY <3>1, ListFacts
  <2>2. QED
    BY <2>1, ClearFacts
<1>9. \A s : NewLayer(s, w).shape = s /\ w \in NewLayer(s, w).in
  BY DEF NewLayer
<1>10. Group(read, w) = ShapesOf(saved)
  BY <1>5, <1>7, <1>8, <1>9 DEF Group
<1>11. QED
  BY <1>5, <1>7, <1>10 DEF TextIs, ShapesOf

(* No layer of main is held by the other widget as well.                   *)
Parted(ls) == \A l \in ToSet(ls) : "main" \in l.in => l.in = {"main"}

(* main reads first: what both held is then with the other one alone.      *)
LEMMA MainReads ==
    ASSUME NEW ls \in Seq(Layer), NEW saved \in Texts, NEW ws \in SUBSET Widgets,
           "main" \in ws, Known(ls, ws)
    PROVE  LET read == update_leaflet_widget_map(ls, "main", saved)
           IN  Known(read, ws) /\ Parted(read)
<1> DEFINE read == update_leaflet_widget_map(ls, "main", saved)
<1>1. ToSet(read) = ToSet(clearLayers(ls, "main"))
                    \union {NewLayer(s, "main") : s \in ShapesOf(saved)}
  BY ReadFacts DEF Widgets
<1> HIDE DEF read
<1>2. ASSUME NEW s
      PROVE  LET l == NewLayer(s, "main")
             IN  KnownLayer(l, ws) /\ ("main" \in l.in => l.in = {"main"})
  BY DEF NewLayer, KnownLayer
<1>3. ASSUME NEW l \in ToSet(clearLayers(ls, "main"))
      PROVE  KnownLayer(l, ws) /\ "main" \notin l.in
  <2>1. CASE l \in ToSet(ls) /\ "main" \notin l.in
    BY <2>1 DEF Known
  <2>2. ASSUME NEW k \in ToSet(ls), "main" \in k.in, l = Cleared(k, "main"), l.in # {}
        PROVE  KnownLayer(l, ws) /\ "main" \notin l.in
    <3>1. k \in Layer /\ KnownLayer(k, ws)
      BY ListFacts DEF Known
    <3>2. l.in = k.in \ {"main"} /\ ~l.shown /\ l.heard = k.heard
      BY <2>2, <3>1, ClearedFacts
    <3>3. QED
      BY <2>2, <3>1, <3>2 DEF KnownLayer, Widgets
  <2>3. QED
    BY <2>1, <2>2, ClearFacts DEF Widgets
<1>4. QED
  BY <1>1, <1>2, <1>3 DEF Known, Parted, read

LEMMA OverlayReads ==
    ASSUME NEW ls \in Seq(Layer), NEW saved \in Texts,
           Known(ls, Widgets), Parted(ls)
    PROVE  Known(update_leaflet_widget_map(ls, "overlay", saved), Widgets)
<1> DEFINE read == update_leaflet_widget_map(ls, "overlay", saved)
<1>1. ToSet(read) = ToSet(clearLayers(ls, "overlay"))
                    \union {NewLayer(s, "overlay") : s \in ShapesOf(saved)}
  BY ReadFacts DEF Widgets
<1> HIDE DEF read
<1>2. \A s : KnownLayer(NewLayer(s, "overlay"), Widgets)
  BY DEF NewLayer, KnownLayer, Widgets
<1>3. ASSUME NEW l \in ToSet(clearLayers(ls, "overlay"))
      PROVE  KnownLayer(l, Widgets)
  <2>1. CASE l \in ToSet(ls)
    BY <2>1 DEF Known
  <2>2. ASSUME NEW k \in ToSet(ls), "overlay" \in k.in,
               l = Cleared(k, "overlay"), l.in # {}
        PROVE  KnownLayer(l, Widgets)
    <3>1. /\ k \in Layer /\ KnownLayer(k, Widgets)
          /\ "main" \in k.in => k.in = {"main"}
      BY ListFacts DEF Known, Parted
    <3>2. l.in = k.in \ {"overlay"}
      BY <2>2, <3>1, ClearedFacts
    <3>3. QED
      BY <2>2, <3>1, <3>2 DEF KnownLayer, Widgets
  <2>3. QED
    BY <2>1, <2>2, ClearFacts DEF Widgets
<1>4. QED
  BY <1>1, <1>2, <1>3 DEF Known, read

-----------------------------------------------------------------------------
(* What a visitor does                                                     *)

LEMMA WidgetFacts ==
    ASSUME WidgetInv, NEW m \in Maps, Ready(m)
    PROVE  LET ws == ToSet(widgets[m])
           IN  /\ layers[m] \in Seq(Layer) /\ text[m] \in Texts
               /\ ws \in SUBSET Widgets /\ "main" \in ws
               /\ \/ widgets[m] = <<"main">>
                  \/ widgets[m] = <<"main", "overlay">> /\ ws = Widgets
               /\ Known(layers[m], ws) /\ Told(text[m], layers[m], ws)
<1>1. widgets[m] \in {<<"main">>, <<"main", "overlay">>}
  BY DEF WidgetInv, Ready
<1>2. /\ ToSet(widgets[m]) \in SUBSET Widgets /\ "main" \in ToSet(widgets[m])
      /\ \/ widgets[m] = <<"main">>
         \/ widgets[m] = <<"main", "overlay">> /\ ToSet(widgets[m]) = Widgets
  BY <1>1, ListFacts DEF Widgets
<1>3. InStep(ToSet(widgets[m]), text[m], layers[m])
  BY DEF WidgetInv
<1>4. QED
  BY <1>2, <1>3 DEF InStep, WidgetInv

(* A map without widgets has no layers.                                    *)
LEMMA LayersNeedWidgets ==
    ASSUME WidgetInv, NEW m \in Maps, ~Ready(m)
    PROVE  layers[m] = << >>
<1>1. ToSet(widgets[m]) = {}
  BY ListFacts DEF Ready
<1>2. QED
  BY <1>1 DEF WidgetInv, InStep

LEMMA GroupType ==
    ASSUME NEW ls \in Seq(Layer), NEW w
    PROVE  Group(ls, w) \in SUBSET Shapes
<1>1. \A l \in ToSet(ls) : l.shape \in Shapes
  <2>1. ToSet(ls) \subseteq Layer
    BY ListFacts
  <2>2. \A l \in Layer : l.shape \in Shapes
    BY DEF Layer
  <2>3. QED
    BY <2>1, <2>2
<1>2. QED
  BY <1>1 DEF Group

(* One map changes.                                                        *)
LEMMA OneMap ==
    ASSUME WidgetInv, NEW m \in Maps, Ready(m),
           NEW saved \in Texts, NEW ls \in Seq(Layer),
           text' = [text EXCEPT ![m] = saved],
           layers' = [layers EXCEPT ![m] = ls], UNCHANGED widgets,
           Known(ls, ToSet(widgets[m])), Told(saved, ls, ToSet(widgets[m]))
    PROVE  WidgetInv'
<1>1. /\ text' \in [Maps -> Texts] /\ layers' \in [Maps -> Seq(Layer)]
      /\ text'[m] = saved /\ layers'[m] = ls
      /\ \A o \in Maps : o # m => text'[o] = text[o] /\ layers'[o] = layers[o]
  BY DEF WidgetInv
<1>2. ToSet(widgets[m]) # {}
  BY WidgetFacts
<1>3. \A o \in Maps : InStep(ToSet(widgets[o]), text'[o], layers'[o])
  BY <1>1, <1>2 DEF WidgetInv, InStep
<1>4. QED
  BY <1>1, <1>3 DEF WidgetInv

(* An event of layers: its listeners write the text; without any, the      *)
(* text must have been right before.                                       *)
LEMMA ChangedKeepsStep ==
    ASSUME WidgetInv, NEW m \in Maps, Ready(m),
           NEW ls \in Seq(Layer), NEW ws \in SUBSET ToSet(widgets[m]),
           Changed(m, ls, ws),
           \A l \in ToSet(ls) :
               l.shown \/ l.in # {} => KnownLayer(l, ToSet(widgets[m])),
           ws = {} => Told(text[m], ls, ToSet(widgets[m]))
    PROVE  WidgetInv'
<1> DEFINE all == ToSet(widgets[m])
           saved == update_text(ls, ws, text[m])
<1>1. /\ Kept(ls) \in Seq(Layer)
      /\ ToSet(Kept(ls)) = {l \in ToSet(ls) : l.shown \/ l.in # {}}
      /\ \A w : Group(Kept(ls), w) = Group(ls, w)
  BY KeptFacts
<1>2. all \in SUBSET Widgets /\ text[m] \in Texts
  BY WidgetFacts
<1>3. saved \in Texts
  BY <1>2, GroupType DEF update_text, Texts
<1>4. Known(Kept(ls), all)
  BY <1>1 DEF Known
<1>5. Told(saved, Kept(ls), all)
  <2>1. CASE ws = {}
    <3>1. saved = text[m] /\ Told(text[m], ls, all)
      BY <2>1 DEF update_text
    <3>2. QED
      BY <1>1, <3>1 DEF Told
  <2>2. CASE ws # {}
    <3>1. PICK w \in all : saved = Group(ls, w)
      BY <1>2, <2>2 DEF update_text, Widgets
    <3>2. TextIs(saved, Group(Kept(ls), w))
      BY <1>1, <3>1, GroupType, ShapeAssumption DEF TextIs
    <3>3. QED
      BY <3>1, <3>2 DEF Told
  <2>3. QED
    BY <2>1, <2>2
<1>6. /\ text' = [text EXCEPT ![m] = saved]
      /\ layers' = [layers EXCEPT ![m] = Kept(ls)] /\ UNCHANGED widgets
  BY DEF Changed
<1> HIDE DEF saved
<1>7. QED
  BY <1>1, <1>3, <1>4, <1>5, <1>6, OneMap

LEMMA DrawKeepsStep ==
    ASSUME WidgetInv, NEW m \in Maps, NEW s \in Shapes, Draw(m, s)
    PROVE  WidgetInv'
<1> DEFINE all == ToSet(widgets[m])
           drawn == [shape |-> s, in |-> all, heard |-> all, shown |-> TRUE]
           ls == Append(layers[m], drawn)
<1>1. Ready(m) /\ Changed(m, ls, all)
  BY DEF Draw
<1>2. /\ layers[m] \in Seq(Layer) /\ all \in SUBSET Widgets /\ "main" \in all
      /\ Known(layers[m], all)
  BY <1>1, WidgetFacts
<1> HIDE DEF all
<1>3. drawn \in Layer /\ KnownLayer(drawn, all)
  BY <1>2 DEF Layer, KnownLayer
<1> HIDE DEF drawn
<1>4. ls \in Seq(Layer) /\ ToSet(ls) = ToSet(layers[m]) \union {drawn}
  BY <1>2, <1>3, ListFacts
<1>5. \A l \in ToSet(ls) : KnownLayer(l, all)
  BY <1>2, <1>3, <1>4 DEF Known
<1>6. QED
  BY <1>1, <1>2, <1>4, <1>5, ChangedKeepsStep DEF all

(* One layer is replaced by another one.                                   *)
LEMMA ReplacedFacts ==
    ASSUME NEW ls \in Seq(Layer), NEW i \in DOMAIN ls, NEW l \in Layer
    PROVE  LET now == [ls EXCEPT ![i] = l]
           IN  /\ now \in Seq(Layer)
               /\ ToSet(now) = {ls[j] : j \in DOMAIN ls \ {i}} \union {l}
               /\ ToSet(ls) = {ls[j] : j \in DOMAIN ls \ {i}} \union {ls[i]}
<1> DEFINE now == [ls EXCEPT ![i] = l]
<1>1. /\ now \in Seq(Layer) /\ DOMAIN now = DOMAIN ls /\ now[i] = l
      /\ \A j \in DOMAIN ls : j # i => now[j] = ls[j]
  OBVIOUS
<1> HIDE DEF now
<1>2. QED
  BY <1>1 DEF ToSet, now

(* A layer that nobody hears is changed: groups that it is in have it      *)
(* still, others are as they were.                                         *)
LEMMA UnheardChange ==
    ASSUME NEW saved, NEW ws, NEW ls, NEW now, NEW rest, NEW old, NEW new,
           ToSet(ls) = rest \union {old}, ToSet(now) = rest \union {new},
           old.heard = {}, new.heard = {}, new.in = old.in,
           Told(saved, ls, ws)
    PROVE  Told(saved, now, ws)
<1>1. CASE new.in # {}
  BY <1>1 DEF Told
<1>2. CASE new.in = {}
  <2>1. \A w : Group(now, w) = Group(ls, w)
    BY <1>2 DEF Group
  <2>2. QED
    BY <1>2, <2>1 DEF Told
<1>3. QED
  BY <1>1, <1>2

LEMMA EditKeepsStep ==
    ASSUME WidgetInv, NEW m \in Maps, NEW i \in DOMAIN layers[m],
           NEW s \in Shapes, Edit(m, i, s)
    PROVE  WidgetInv'
<1> DEFINE all == ToSet(widgets[m])
           old == layers[m][i]
           new == [old EXCEPT !.shape = s]
           now == [layers[m] EXCEPT ![i] = new]
           rest == {layers[m][j] : j \in DOMAIN layers[m] \ {i}}
<1>1. Ready(m)
  BY LayersNeedWidgets
<1>2. /\ layers[m] \in Seq(Layer) /\ Known(layers[m], all)
      /\ Told(text[m], layers[m], all)
  BY <1>1, WidgetFacts
<1>3. old \in Layer /\ old \in ToSet(layers[m]) /\ KnownLayer(old, all)
  BY <1>2 DEF ToSet, Known
<1>4. /\ new \in Layer /\ KnownLayer(new, all)
      /\ new.in = old.in /\ new.heard = old.heard
  BY <1>3 DEF Layer, KnownLayer
<1>5. Changed(m, now, old.heard) /\ old.heard \subseteq all
  BY <1>3 DEF Edit, KnownLayer
<1> HIDE DEF new
<1>6. /\ now \in Seq(Layer) /\ ToSet(now) = rest \union {new}
      /\ ToSet(layers[m]) = rest \union {old}
  BY <1>2, <1>4, ReplacedFacts
<1> HIDE DEF old, now, rest, all
<1>7. \A l \in ToSet(now) : KnownLayer(l, all)
  BY <1>2, <1>4, <1>6 DEF Known
<1>8. old.heard = {} => Told(text[m], now, all)
  BY <1>2, <1>4, <1>6, UnheardChange
<1>9. QED
  BY <1>1, <1>5, <1>6, <1>7, <1>8, ChangedKeepsStep DEF all

LEMMA EraseKeepsStep ==
    ASSUME WidgetInv, NEW m \in Maps, NEW i \in DOMAIN layers[m], Erase(m, i)
    PROVE  WidgetInv'
<1> DEFINE all == ToSet(widgets[m])
           old == layers[m][i]
           new == [old EXCEPT !.in = @ \ old.heard, !.shown = FALSE]
           now == [layers[m] EXCEPT ![i] = new]
           rest == {layers[m][j] : j \in DOMAIN layers[m] \ {i}}
<1>1. Ready(m)
  BY LayersNeedWidgets
<1>2. /\ layers[m] \in Seq(Layer) /\ Known(layers[m], all)
      /\ Told(text[m], layers[m], all)
  BY <1>1, WidgetFacts
<1>3. old \in Layer /\ old \in ToSet(layers[m]) /\ KnownLayer(old, all)
  BY <1>2 DEF ToSet, Known
<1>4. /\ new \in Layer /\ new.heard = old.heard /\ ~new.shown
      /\ new.in = old.in \ old.heard
  BY <1>3 DEF Layer
<1>5. Changed(m, now, old.heard) /\ old.heard \subseteq all /\ old.shown
  BY <1>3 DEF Erase, KnownLayer
<1>6. /\ now \in Seq(Layer) /\ ToSet(now) = rest \union {new}
      /\ ToSet(layers[m]) = rest \union {old}
  BY <1>2, <1>4, ReplacedFacts
<1>7. new.shown \/ new.in # {} => KnownLayer(new, all)
  BY <1>3, <1>4, <1>5 DEF KnownLayer
<1> HIDE DEF old, new, now, rest, all
<1>8. \A l \in ToSet(now) : l.shown \/ l.in # {} => KnownLayer(l, all)
  BY <1>2, <1>6, <1>7 DEF Known
<1>9. old.heard = {} => Told(text[m], now, all)
  <2>1. old.heard = {} => new.in = old.in
    BY <1>4
  <2>2. QED
    BY <1>2, <1>4, <1>6, <2>1, UnheardChange
<1>10. QED
  BY <1>1, <1>5, <1>6, <1>8, <1>9, ChangedKeepsStep DEF all

LEMMA CutKeepsStep ==
    ASSUME WidgetInv, NEW m \in Maps, NEW was, NEW s \in Shapes, Cut(m, was, s)
    PROVE  WidgetInv'
<1> DEFINE all == ToSet(widgets[m])
           ls == layers[m]
           under == {l \in ToSet(ls) : l.shown /\ l.shape = was}
           hit == Only(ls, under)
           Taken(l) == [l EXCEPT !.in = @ \ l.heard, !.shown = FALSE]
           old == [i \in DOMAIN ls |-> IF ls[i] \in under THEN Taken(ls[i]) ELSE ls[i]]
           new == [i \in DOMAIN hit |-> CutLayer(hit[i], s)]
<1>1. Ready(m)
  <2>1. under # {}
    BY DEF Cut
  <2>2. layers[m] # << >>
    BY <2>1, ListFacts
  <2>3. QED
    BY <2>2, LayersNeedWidgets
<1>2. /\ ls \in Seq(Layer) /\ Known(ls, all) /\ Told(text[m], ls, all)
      /\ all \in SUBSET Widgets
  BY <1>1, WidgetFacts
<1>3. hit \in Seq(Layer) /\ ToSet(hit) = under
  BY <1>2, OnlyFacts
<1>4. Changed(m, old \o new, LastHeard(hit))
  BY DEF Cut
<1>5. /\ \A i \in DOMAIN ls : ls[i] \in ToSet(ls)
      /\ \A l \in ToSet(ls) : l \in Layer /\ KnownLayer(l, all)
  BY <1>2, ListFacts DEF ToSet, Known
<1>6. ASSUME NEW l \in under
      PROVE  /\ CutLayer(l, s) \in Layer /\ KnownLayer(CutLayer(l, s), all)
             /\ CutLayer(l, s).heard = {} /\ CutLayer(l, s).in = l.heard
             /\ Taken(l) \in Layer /\ ~Taken(l).shown /\ Taken(l).heard = l.heard
             /\ Taken(l).in = l.in \ l.heard /\ Taken(l).shape = l.shape
             /\ Taken(l).in # {} => l.heard = {} /\ KnownLayer(Taken(l), all)
  <2>1. l \in Layer /\ KnownLayer(l, all) /\ l.shown
    BY <1>5
  <2>2. /\ CutLayer(l, s) \in Layer
        /\ CutLayer(l, s).heard = {} /\ CutLayer(l, s).in = l.heard
    BY <2>1 DEF CutLayer, Layer
  <2>3. /\ Taken(l) \in Layer /\ ~Taken(l).shown /\ Taken(l).heard = l.heard
        /\ Taken(l).in = l.in \ l.heard /\ Taken(l).shape = l.shape
    BY <2>1 DEF Layer
  <2> HIDE DEF Taken
  <2>4. QED
    BY <2>1, <2>2, <2>3 DEF KnownLayer
<1> HIDE DEF Taken
<1>7. /\ old \in Seq(Layer) /\ ToSet(old) = (ToSet(ls) \ under) \union {Taken(l) : l \in under}
  <2>1. \A i \in DOMAIN ls : old[i] \in Layer
    BY <1>5, <1>6
  <2>2. old \in Seq(Layer) /\ ToSet(old) = {old[i] : i \in DOMAIN ls}
    BY <1>2, <2>1, MapFacts
  <2>3. ToSet(ls) = {ls[i] : i \in DOMAIN ls}
    BY DEF ToSet
  <2> HIDE DEF ls
  <2>4. {old[i] : i \in DOMAIN ls} = (ToSet(ls) \ under) \union {Taken(l) : l \in under}
    BY <2>3
  <2>5. QED
    BY <2>2, <2>4
<1>8. /\ new \in Seq(Layer) /\ ToSet(new) = {CutLayer(l, s) : l \in under}
  <2> HIDE DEF hit, under
  <2>1. /\ DOMAIN hit = 1 .. Len(hit) /\ Len(hit) \in Nat
        /\ under = {hit[i] : i \in DOMAIN hit}
    BY <1>3 DEF ToSet
  <2>2. \A i \in DOMAIN hit : CutLayer(hit[i], s) \in Layer
    BY <1>6, <2>1
  <2>3. new \in [1 .. Len(hit) -> Layer]
    BY <2>1, <2>2
  <2>4. QED
    BY <2>1, <2>3 DEF ToSet
<1> HIDE DEF old, new
<1>9. /\ old \o new \in Seq(Layer)
      /\ ToSet(old \o new) = (ToSet(ls) \ under) \union {Taken(l) : l \in under}
                            \union {CutLayer(l, s) : l \in under}
  BY <1>7, <1>8, ListFacts
<1>10. \/ LastHeard(hit) = {} /\ \A l \in under : l.heard = {}
       \/ LastHeard(hit) # {} /\ \E l \in under : LastHeard(hit) = l.heard
  BY <1>3, LastHeardFacts
<1> HIDE DEF hit
<1>11. LastHeard(hit) \in SUBSET all
  BY <1>5, <1>10 DEF KnownLayer
<1>12. \A l \in ToSet(old \o new) : l.shown \/ l.in # {} => KnownLayer(l, all)
  BY <1>5, <1>6, <1>9
<1>13. ASSUME LastHeard(hit) = {}
       PROVE  Told(text[m], old \o new, all)
  <2>1. \A l \in under : l.heard = {}
    BY <1>10, <1>13
  <2>2. \A l \in under : /\ Taken(l).in = l.in /\ Taken(l).shape = l.shape
                         /\ Taken(l).heard = {} /\ CutLayer(l, s).in = {}
    BY <1>6, <2>1
  <2>3. \A l \in under : l \in ToSet(ls)
    OBVIOUS
  <2> HIDE DEF under
  <2>4. ASSUME NEW w
        PROVE  Group(old \o new, w) = Group(ls, w)
    BY <1>9, <2>2, <2>3 DEF Group
  <2>5. (\E l \in ToSet(ls) : l.heard = {} /\ l.in # {})
        => (\E l \in ToSet(old \o new) : l.heard = {} /\ l.in # {})
    BY <1>9, <2>2
  <2>6. QED
    BY <1>2, <2>4, <2>5 DEF Told
<1> HIDE DEF all
<1>14. QED
  BY <1>1, <1>4, <1>9, <1>11, <1>12, <1>13, ChangedKeepsStep DEF all

ReadOp(saved, ls, w) == update_leaflet_widget_map(ls, w, saved)
AnyResult(saved, n, ls) == TRUE
Reading == INSTANCE FoldTheorems WITH Op <- ReadOp, Inv <- AnyResult

(* The loop over one widget, or over two.                                  *)
LEMMA TwoReads ==
    ASSUME NEW saved, NEW ls
    PROVE  LET Read(x, w) == update_leaflet_widget_map(x, w, saved)
           IN  /\ FoldLeft(Read, ls, <<"main">>) = Read(ls, "main")
               /\ FoldLeft(Read, ls, <<"main", "overlay">>)
                      = Read(Read(ls, "main"), "overlay")
<1> DEFINE Read(x, w) == update_leaflet_widget_map(x, w, saved)
<1>1. \A ws : Reading!Fold(saved, ls, ws) = FoldLeft(Read, ls, ws)
  BY DEF Reading!Fold, Reading!FoldLeft, Reading!MapThenFoldSet, Reading!Max,
         FoldLeft, MapThenFoldSet, Max, ReadOp
<1>2. Reading!Fold(saved, ls, <<"main">>) = Read(ls, "main")
  <2>1. <<"main">> \in Seq({"main"}) /\ Len(<<"main">>) = 1 /\ <<"main">>[1] = "main"
    OBVIOUS
  <2>2. PICK h : /\ Reading!IsFold(h, saved, ls, <<"main">>)
                 /\ Reading!Fold(saved, ls, <<"main">>) = h[Len(<<"main">>)]
    BY <2>1, Reading!FoldSteps
  <2>3. h[0] = ls /\ h[0 + 1] = ReadOp(saved, h[0], <<"main">>[0 + 1])
    BY <2>1, <2>2 DEF Reading!IsFold
  <2>4. QED
    BY <2>1, <2>2, <2>3 DEF ReadOp
<1>3. Reading!Fold(saved, ls, <<"main", "overlay">>) = Read(Read(ls, "main"), "overlay")
  <2> DEFINE two == <<"main", "overlay">>
  <2>1. /\ two \in Seq({"main", "overlay"}) /\ Len(two) = 2
        /\ two[1] = "main" /\ two[2] = "overlay"
    OBVIOUS
  <2> HIDE DEF two
  <2>2. PICK h : /\ Reading!IsFold(h, saved, ls, two)
                 /\ Reading!Fold(saved, ls, two) = h[Len(two)]
    BY <2>1, Reading!FoldSteps
  <2>3. /\ h[0] = ls /\ h[0 + 1] = ReadOp(saved, h[0], two[0 + 1])
        /\ h[1 + 1] = ReadOp(saved, h[1], two[1 + 1])
    BY <2>1, <2>2 DEF Reading!IsFold
  <2>4. QED
    BY <2>1, <2>2, <2>3 DEF ReadOp, two
<1>4. QED
  BY <1>1, <1>2, <1>3

LEMMA TypeTextKeepsStep ==
    ASSUME WidgetInv, NEW m \in Maps, NEW saved \in Texts, TypeText(m, saved)
    PROVE  WidgetInv'
<1> DEFINE all == ToSet(widgets[m])
           Read(ls, w) == update_leaflet_widget_map(ls, w, saved)
           main == Read(layers[m], "main")
           both == Read(main, "overlay")
           now == FoldLeft(Read, layers[m], widgets[m])
<1>1. Ready(m)
  BY DEF TypeText
<1>2. /\ layers[m] \in Seq(Layer) /\ Known(layers[m], all)
      /\ all \in SUBSET Widgets /\ "main" \in all
      /\ \/ widgets[m] = <<"main">>
         \/ widgets[m] = <<"main", "overlay">> /\ all = Widgets
  BY <1>1, WidgetFacts
<1>3. /\ text' = [text EXCEPT ![m] = saved] /\ UNCHANGED widgets
      /\ layers' = [layers EXCEPT ![m] = now]
  BY DEF TypeText
<1>4. /\ main \in Seq(Layer) /\ Known(main, all) /\ Parted(main)
      /\ TextIs(saved, Group(main, "main"))
  BY <1>2, MainReads, ReadFacts DEF Widgets
<1>5. CASE widgets[m] = <<"main">>
  <2>1. now = main
    BY <1>5, TwoReads
  <2>2. Told(saved, now, all)
    BY <1>2, <1>4, <2>1 DEF Told
  <2> HIDE DEF all, now, main
  <2>3. QED
    BY <1>1, <1>3, <1>4, <2>1, <2>2, OneMap DEF all
<1>6. CASE widgets[m] = <<"main", "overlay">> /\ all = Widgets
  <2>1. now = both
    BY <1>6, TwoReads
  <2> HIDE DEF main
  <2>2. /\ both \in Seq(Layer) /\ Known(both, all)
        /\ TextIs(saved, Group(both, "overlay"))
    BY <1>4, <1>6, OverlayReads, ReadFacts DEF Widgets
  <2> HIDE DEF both
  <2>3. Told(saved, now, all)
    BY <1>6, <2>1, <2>2 DEF Told, Widgets
  <2> HIDE DEF all, now
  <2>4. QED
    BY <1>1, <1>3, <2>1, <2>2, <2>3, OneMap DEF all
<1>7. QED
  BY <1>2, <1>5, <1>6

(* The marker that a geocoder places is read back by main.                 *)
LEMMA PlaceMarkerKeepsStep ==
    ASSUME WidgetInv, NEW m \in Maps, NEW s \in Shapes, PlaceMarker(m, s)
    PROVE  WidgetInv'
<1> DEFINE all == ToSet(widgets[m])
           marker == [shape |-> s, in |-> {"main"}, heard |-> {}, shown |-> TRUE]
           marked == Append(layers[m], marker)
           saved == Group(marked, "main")
           now == Placed(marked)
<1>1. /\ Ready(m) /\ text' = [text EXCEPT ![m] = saved] /\ UNCHANGED widgets
      /\ layers' = [layers EXCEPT ![m] = now]
  BY DEF PlaceMarker
<1>2. /\ layers[m] \in Seq(Layer) /\ Known(layers[m], all)
      /\ all \in SUBSET Widgets /\ "main" \in all
  BY <1>1, WidgetFacts
<1> HIDE DEF all
<1>3. marker \in Layer /\ KnownLayer(marker, all)
  BY <1>2 DEF Layer, KnownLayer, Widgets
<1> HIDE DEF marker
<1>4. marked \in Seq(Layer) /\ ToSet(marked) = ToSet(layers[m]) \union {marker}
  BY <1>2, <1>3, ListFacts
<1>5. Known(marked, all)
  BY <1>2, <1>3, <1>4 DEF Known
<1> HIDE DEF marked
<1>6. saved \in Texts
  BY <1>4, GroupType DEF Texts
<1> HIDE DEF saved
<1>7. now = update_leaflet_widget_map(marked, "main", saved)
  BY DEF Placed, saved
<1>8. now \in Seq(Layer) /\ Known(now, all) /\ TextIs(saved, Group(now, "main"))
  BY <1>2, <1>4, <1>5, <1>6, <1>7, MainReads, ReadFacts DEF Widgets
<1> HIDE DEF now
<1>9. Told(saved, now, all)
  BY <1>2, <1>8 DEF Told
<1>10. QED
  BY <1>1, <1>6, <1>8, <1>9, OneMap DEF all

-----------------------------------------------------------------------------
(* New maps, and the invariant                                             *)

LEMMA AttachKeepsStep ==
    ASSUME WidgetInv, NEW ms \in Seq(Maps), Attach(ms)
    PROVE  WidgetInv'
<1> DEFINE Main(m) == update_leaflet_widget_map(layers[m], "main", text[m])
           Both(m) == update_leaflet_widget_map(Main(m), "overlay", text[m])
<1>1. /\ text' = text
      /\ widgets' = [m \in Maps |-> IF m \notin ToSet(ms) THEN widgets[m]
                                   ELSE IF WithContents(m) THEN <<"main", "overlay">>
                                   ELSE <<"main">>]
      /\ layers' = [m \in Maps |-> IF m \notin ToSet(ms) THEN layers[m]
                                  ELSE IF WithContents(m) THEN Both(m) ELSE Main(m)]
  <2>1. \A m \in Maps : m \in {o \in ToSet(ms) : WithContents(o)}
                          <=> m \in ToSet(ms) /\ WithContents(m)
    OBVIOUS
  <2>2. QED
    BY <2>1 DEF Attach
<1>2. \A m \in ToSet(ms) : ~Ready(m)
  BY DEF Attach
<1>3. ASSUME NEW m \in Maps
      PROVE  /\ widgets'[m] \in {<< >>, <<"main">>, <<"main", "overlay">>}
             /\ layers'[m] \in Seq(Layer)
             /\ InStep(ToSet(widgets'[m]), text'[m], layers'[m])
  <2>1. CASE m \notin ToSet(ms)
    BY <1>1, <2>1 DEF WidgetInv
  <2>2. CASE m \in ToSet(ms)
    <3>1. layers[m] = << >> /\ layers[m] \in Seq(Layer) /\ text[m] \in Texts
      BY <1>2, <2>2, LayersNeedWidgets DEF WidgetInv
    <3>2. Known(layers[m], {"main"}) /\ Known(layers[m], Widgets)
      BY <3>1, ListFacts DEF Known
    <3>3. /\ Main(m) \in Seq(Layer) /\ Known(Main(m), {"main"})
          /\ Known(Main(m), Widgets) /\ Parted(Main(m))
          /\ TextIs(text[m], Group(Main(m), "main"))
      BY <3>1, <3>2, MainReads, ReadFacts DEF Widgets
    <3>4. CASE WithContents(m)
      <4>1. widgets'[m] = <<"main", "overlay">> /\ layers'[m] = Both(m) /\ text' = text
        BY <1>1, <2>2, <3>4
      <4> HIDE DEF Main
      <4>2. /\ Both(m) \in Seq(Layer) /\ Known(Both(m), Widgets)
            /\ TextIs(text[m], Group(Both(m), "overlay"))
        BY <3>1, <3>3, OverlayReads, ReadFacts DEF Widgets
      <4> HIDE DEF Both
      <4>3. Told(text[m], Both(m), Widgets)
        BY <4>2 DEF Told, Widgets
      <4>4. QED
        BY <4>1, <4>2, <4>3, ListFacts DEF InStep, Widgets
    <3>5. CASE ~WithContents(m)
      <4>1. widgets'[m] = <<"main">> /\ layers'[m] = Main(m) /\ text' = text
        BY <1>1, <2>2, <3>5
      <4> HIDE DEF Main
      <4>2. Told(text[m], Main(m), {"main"})
        BY <3>3 DEF Told
      <4>3. /\ ToSet(widgets'[m]) = {"main"}
            /\ widgets'[m] \in {<< >>, <<"main">>, <<"main", "overlay">>}
        BY <4>1, ListFacts
      <4>4. InStep(ToSet(widgets'[m]), text'[m], layers'[m])
        BY <3>3, <4>1, <4>2, <4>3 DEF InStep
      <4>5. QED
        BY <3>3, <4>1, <4>3, <4>4
    <3>6. QED
      BY <3>4, <3>5
  <2>3. QED
    BY <2>1, <2>2
<1>4. /\ DOMAIN widgets' = Maps /\ DOMAIN layers' = Maps
      /\ widgets' = [m \in Maps |-> widgets'[m]] /\ layers' = [m \in Maps |-> layers'[m]]
  BY <1>1
<1>5. /\ widgets' \in [Maps -> {<< >>, <<"main">>, <<"main", "overlay">>}]
      /\ layers' \in [Maps -> Seq(Layer)] /\ text' \in [Maps -> Texts]
  BY <1>1, <1>3, <1>4 DEF WidgetInv
<1>6. QED
  BY <1>3, <1>5 DEF WidgetInv

LEMMA WidgetInitial == FormInit => WidgetInv
<1> SUFFICES ASSUME FormInit PROVE WidgetInv
  OBVIOUS
<1>1. << >> \in Seq(Layer)
  OBVIOUS
<1>2. QED
  BY <1>1, ListFacts DEF FormInit, WidgetInv, InStep

LEMMA WidgetStep ==
    OverlayInv /\ WidgetInv /\ [FormNext]_formVars => WidgetInv'
<1> SUFFICES ASSUME OverlayInv, WidgetInv, [FormNext]_formVars
             PROVE  WidgetInv'
  OBVIOUS
<1>1. ASSUME NEW new \in SUBSET Maps, NEW ms \in SetToSeqs(new), Attach(ms)
      PROVE  WidgetInv'
  BY <1>1, OrderFacts, AttachKeepsStep
<1>2. ASSUME NEW m \in Maps, NEW i \in Items, Answer(m, i)
      PROVE  WidgetInv'
  BY <1>2 DEF Answer, WidgetInv
<1>3. CASE Visit(focus)
  <2>1. focus \in Maps
    BY DEF OverlayInv
  <2>2. QED
    BY <1>3, <2>1, DrawKeepsStep, PlaceMarkerKeepsStep, EraseKeepsStep, EditKeepsStep,
       CutKeepsStep, TypeTextKeepsStep DEF Visit
<1>4. CASE UNCHANGED formVars
  BY <1>4 DEF formVars, widgetVars, WidgetInv
<1>5. QED
  BY <1>1, <1>2, <1>3, <1>4 DEF FormNext, LoadNext

(* The inductive invariant holds in every reachable state of a form.       *)
THEOREM WidgetInvariant == FormSpec => []WidgetInv
  BY OverlayInvariant, WidgetInitial, WidgetStep, PTL DEF FormSpec

(* What a map without unheard layers, and with groups that agree, shows.   *)
LEMMA SeenIsGroup ==
    ASSUME NEW ls \in Seq(Layer), NEW ws, Known(ls, ws),
           \A l \in ToSet(ls) : l.heard # {},
           \/ ws = {"main"}
           \/ ws = Widgets /\ Group(ls, "main") = Group(ls, "overlay")
    PROVE  \A w \in ws : Group(ls, w) = Seen(ls)
<1>1. \A l \in ToSet(ls) :
          \/ l.in = l.heard /\ l.shown /\ l.in # {}
          \/ l.heard = Widgets /\ l.in = {"overlay"} /\ ~l.shown
  BY DEF Known, KnownLayer
<1>2. \A l \in ToSet(ls) : l.heard \subseteq ws
  BY DEF Known, KnownLayer
<1>3. Group(ls, "main") \subseteq Seen(ls)
  BY <1>1 DEF Group, Seen
<1>4. CASE ws = {"main"}
  <2>1. \A l \in ToSet(ls) : l.shown => "main" \in l.in
    BY <1>1, <1>2, <1>4
  <2>2. QED
    BY <1>3, <1>4, <2>1 DEF Group, Seen
<1>5. CASE ws = Widgets /\ Group(ls, "main") = Group(ls, "overlay")
  <2>1. \A l \in ToSet(ls) : l.shown => "main" \in l.in \/ "overlay" \in l.in
    BY <1>1, <1>2, <1>5 DEF Widgets
  <2>2. Seen(ls) \subseteq Group(ls, "main") \union Group(ls, "overlay")
    BY <2>1 DEF Group, Seen
  <2>3. QED
    BY <1>3, <1>5, <2>2 DEF Widgets
<1>6. QED
  BY <1>4, <1>5

(* For any number of maps and shapes, and whatever a visitor draws, edits, *)
(* cuts, removes, types and geocodes: the text that will be saved is what  *)
(* the map shows, but for layers that a cut has left and for groups of two *)
(* widgets that have come apart (add_layer_listeners, update_text).        *)
THEOREM TextAlwaysFollows == FormSpec => []TextFollows
<1>1. ASSUME WidgetInv
      PROVE  TextFollows
  <2> SUFFICES ASSUME NEW m \in Maps, Ready(m),
                      ~\E l \in ToSet(layers[m]) : l.heard = {},
                      ~(/\ Len(widgets[m]) = 2
                        /\ Group(layers[m], "main") # Group(layers[m], "overlay"))
               PROVE  TextIs(text[m], Seen(layers[m]))
    BY DEF TextFollows, TextIs
  <2> DEFINE ws == ToSet(widgets[m])
  <2>1. /\ layers[m] \in Seq(Layer) /\ Known(layers[m], ws)
        /\ Told(text[m], layers[m], ws)
        /\ \/ widgets[m] = <<"main">>
           \/ widgets[m] = <<"main", "overlay">> /\ ws = Widgets
    BY <1>1, WidgetFacts
  <2>2. \/ ws = {"main"}
        \/ ws = Widgets /\ Group(layers[m], "main") = Group(layers[m], "overlay")
    <3>1. Len(<<"main", "overlay">>) = 2
      OBVIOUS
    <3>2. QED
      BY <2>1, <3>1, ListFacts
  <2>3. \A w \in ws : Group(layers[m], w) = Seen(layers[m])
    BY <2>1, <2>2, SeenIsGroup
  <2>4. \E w \in ws : TextIs(text[m], Group(layers[m], w))
    BY <2>1 DEF Told
  <2>5. QED
    BY <2>3, <2>4
<1>2. QED
  BY <1>1, WidgetInvariant, PTL

(* The variables of widgets and overlays keep their types.                 *)
THEOREM FormTypeCorrect == FormSpec => []FormTypeOK
<1>1. ASSUME OverlayInv, WidgetInv
      PROVE  FormTypeOK
  <2>1. \A m \in Maps : ToSet(layers[m]) \subseteq Layer
    BY <1>1, ListFacts DEF WidgetInv
  <2>2. Now \in Behaviors /\ WaitsForOwn(Now)
    BY <1>1 DEF OverlayInv, InOrder
  <2>3. WidgetTypeOK
    BY <1>1, <2>1, <2>2 DEF WidgetInv, WidgetTypeOK, Behaviors, Now
  <2>4. QED
    BY <2>2, <2>3 DEF FormTypeOK, Behaviors, Collections, Owners, WaitsForOwn, Now
<1>2. QED
  BY <1>1, OverlayInvariant, WidgetInvariant, PTL

(* On a page that has either form the variables of both scripts keep their *)
(* types.                                                                  *)
THEOREM PageTypeCorrect == PageSpec => []PageTypeOK
<1>1. PageNext => [FormNext]_formVars /\ [GeolocationNext]_geolocationVars
  BY DEF PageNext, FormNext
<1>2. UNCHANGED pageVars => UNCHANGED formVars /\ UNCHANGED geolocationVars
  BY DEF pageVars
<1>3. PageSpec => FormSpec
  BY <1>1, <1>2, PTL DEF PageSpec, PageInit, FormSpec
<1>4. PageSpec => GeolocationSpec
  BY <1>1, <1>2, PTL DEF PageSpec, PageInit, GeolocationSpec
<1>5. QED
  BY <1>3, <1>4, FormTypeCorrect, GeolocationTypeCorrect, PTL DEF PageTypeOK

=============================================================================
