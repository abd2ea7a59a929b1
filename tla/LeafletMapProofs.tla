-------------------------- MODULE LeafletMapProofs --------------------------
(***************************************************************************)
(* Proofs about the popups, for any features, any tooltips and any number  *)
(* of unanswered requests; about the vector layer, for any number of       *)
(* frames under way; and about the whole map, whatever its settings and    *)
(* features are.                                                           *)
(***************************************************************************)
EXTENDS LeafletMap, FiniteSetTheorems, TLAPS

-----------------------------------------------------------------------------
(* Popups (LeafletPopups)                                                  *)
(*                                                                         *)
(* The invariant adds what the node of a popup holds (NodeIsKept): the     *)
(* fetched content is in the node of an open popup, and a node has it only *)
(* from an answer.  FetchedOnce would not be preserved without: Open       *)
(* writes the content, or leaves the node, and only the two together say   *)
(* that no placeholder comes back.                                         *)
NodeIsKept ==
    \A f \in Features :
        /\ open = f /\ content[f] = "fetched" => node[f] = "fetched"
        /\ node[f] = "fetched" => content[f] \in {"fetched", "none", "broken"}

PopupInv ==
    /\ PopupTypeOK
    /\ TooltipGivesWay
    /\ NodeIsKept
    /\ PlaceholderIsAwaited

-----------------------------------------------------------------------------
(* The two listeners                                                       *)

(* popupclose makes every tooltip visible if only that of the open popup   *)
(* was hidden (the popupclose listener).                                   *)
LEMMA CloseShowsAll ==
    ASSUME PopupTypeOK, TooltipGivesWay
    PROVE  OnPopupClose(opacity) = [f \in WithTooltip |-> "shown"]
<1>1. \A f \in WithTooltip : OnPopupClose(opacity)[f] = "shown"
  <2>1. CASE open \in WithTooltip
    BY <2>1 DEF PopupTypeOK, TooltipGivesWay, OnPopupClose, SetOpacity
  <2>2. CASE open \notin WithTooltip
    BY <2>2 DEF PopupTypeOK, TooltipGivesWay, OnPopupClose, SetOpacity
  <2> QED BY <2>1, <2>2
<1>2. OnPopupClose(opacity) \in [WithTooltip -> {"shown", "hidden"}]
  BY DEF PopupTypeOK, OnPopupClose, SetOpacity
<1> QED BY <1>1, <1>2

(* After both listeners only the tooltip of the new popup is hidden.       *)
LEMMA OpenHidesOne ==
    ASSUME PopupTypeOK, TooltipGivesWay, NEW f \in Features
    PROVE  OnPopupOpen(OnPopupClose(opacity), f) =
               [g \in WithTooltip |-> IF g = f THEN "hidden" ELSE "shown"]
BY CloseShowsAll DEF OnPopupOpen, SetOpacity

-----------------------------------------------------------------------------
(* The invariant                                                           *)

LEMMA PopupInitial == PopupInit => PopupInv
<1> SUFFICES ASSUME PopupInit PROVE PopupInv
  OBVIOUS
<1> USE PopupAssumption, RequestAssumption
<1>1. PopupTypeOK
  BY DEF PopupInit, PopupTypeOK, Contents, Node
<1>2. TooltipGivesWay
  BY DEF PopupInit, TooltipGivesWay
<1>3. NodeIsKept
  BY DEF PopupInit, NodeIsKept
<1>4. PlaceholderIsAwaited
  BY DEF PopupInit, PlaceholderIsAwaited
<1> QED BY <1>1, <1>2, <1>3, <1>4 DEF PopupInv

(* Opening a popup, with the one before it closed.                         *)
LEMMA OpenKeeps ==
    ASSUME PopupInv, NEW f \in Features, Open(f)
    PROVE  PopupInv'
<1> USE PopupAssumption, RequestAssumption DEF PopupInv
<1>1. opacity' = [g \in WithTooltip |-> IF g = f THEN "hidden" ELSE "shown"]
  BY OpenHidesOne DEF Open
<1>2. PopupTypeOK'
  <2>1. pending' \in [Features -> 0 .. MaxRequests]
    BY DEF Open, PopupTypeOK
  <2>2. node' \in [Features -> Node]
    BY DEF Open, PopupTypeOK, Node, Contents, Written
  <2> QED BY <1>1, <2>1, <2>2 DEF Open, PopupTypeOK
<1>3. TooltipGivesWay'
  BY <1>1 DEF Open, TooltipGivesWay
<1>4. NodeIsKept'
  BY DEF Open, NodeIsKept, PopupTypeOK, Written
<1>5. PlaceholderIsAwaited'
  BY DEF Open, PlaceholderIsAwaited, PopupTypeOK
<1> QED BY <1>2, <1>3, <1>4, <1>5

(* The popup of a search, and closing: no feature's popup is open then.    *)
LEMMA LeaveKeeps ==
    ASSUME PopupInv, NEW p \in {Search, NoPopup}, open' = p,
           opacity' = OnPopupClose(opacity),
           UNCHANGED <<content, node>>,
           pending' \in [Features -> 0 .. MaxRequests]
    PROVE  PopupInv'
<1> USE PopupAssumption DEF PopupInv
<1>1. opacity' = [f \in WithTooltip |-> "shown"]
  BY CloseShowsAll
<1>2. PopupTypeOK'
  BY <1>1 DEF PopupTypeOK
<1>3. p \notin Features
  OBVIOUS
<1>4. TooltipGivesWay' /\ NodeIsKept' /\ PlaceholderIsAwaited'
  BY <1>1, <1>3 DEF TooltipGivesWay, NodeIsKept, PlaceholderIsAwaited
<1> QED BY <1>2, <1>4

LEMMA ArriveKeeps ==
    ASSUME PopupInv, NEW f \in Features, Arrive(f)
    PROVE  PopupInv'
<1> USE DEF PopupInv, Arrive, Done, DoneSettings, DoneAssets, Answered
<1>1. PopupTypeOK'
  <2>1. pending' \in [Features -> 0 .. MaxRequests]
    BY RequestAssumption DEF PopupTypeOK
  <2>2. node' \in [Features -> Node] /\ content' \in [Features -> Contents]
    BY DEF PopupTypeOK, Node, Contents
  <2> QED BY <2>1, <2>2 DEF PopupTypeOK
<1>2. TooltipGivesWay'
  BY DEF TooltipGivesWay
<1>3. NodeIsKept'
  BY DEF NodeIsKept, PopupTypeOK
<1>4. PlaceholderIsAwaited'
  BY DEF PlaceholderIsAwaited, PopupTypeOK
<1> QED BY <1>1, <1>2, <1>3, <1>4

LEMMA FailKeeps ==
    ASSUME PopupInv, NEW f \in Features, Fail(f)
    PROVE  PopupInv'
<1>1. pending' \in [Features -> 0 .. MaxRequests]
  BY RequestAssumption DEF PopupInv, PopupTypeOK, Fail, Answered
<1>2. CASE open = f
  BY <1>1, <1>2, LeaveKeeps DEF Fail
<1>3. CASE open # f
  <2> USE <1>3 DEF PopupInv, Fail, Answered
  <2>1. PopupTypeOK'
    BY <1>1 DEF PopupTypeOK
  <2>2. TooltipGivesWay' /\ NodeIsKept'
    BY DEF TooltipGivesWay, NodeIsKept
  <2>3. PlaceholderIsAwaited'
    BY DEF PlaceholderIsAwaited, PopupTypeOK
  <2> QED BY <2>1, <2>2, <2>3
<1> QED BY <1>2, <1>3

LEMMA PopupStep == PopupInv /\ [PopupNext]_popupVars => PopupInv'
<1> SUFFICES ASSUME PopupInv, [PopupNext]_popupVars PROVE PopupInv'
  OBVIOUS
<1>1. ASSUME NEW f \in Features, Open(f) PROVE PopupInv'
  BY <1>1, OpenKeeps
<1>2. ASSUME NEW f \in Features, Arrive(f) PROVE PopupInv'
  BY <1>2, ArriveKeeps
<1>3. ASSUME NEW f \in Features, Fail(f) PROVE PopupInv'
  BY <1>3, FailKeeps
<1>4. CASE OpenSearch
  BY <1>4, LeaveKeeps DEF OpenSearch, PopupInv, PopupTypeOK
<1>5. CASE Close
  BY <1>5, LeaveKeeps DEF Close, PopupInv, PopupTypeOK
<1>6. CASE UNCHANGED popupVars
  BY <1>6 DEF popupVars, PopupInv, PopupTypeOK, TooltipGivesWay, NodeIsKept,
              PlaceholderIsAwaited
<1> QED BY <1>1, <1>2, <1>3, <1>4, <1>5, <1>6 DEF PopupNext, Answer

THEOREM PopupInvariant == PopupSpec => []PopupInv
BY PopupInitial, PopupStep, PTL DEF PopupSpec

-----------------------------------------------------------------------------
(* Theorems                                                                *)

(* The variables keep their types.                                         *)
THEOREM PopupTypeCorrect == PopupSpec => []PopupTypeOK
BY PopupInvariant, PTL DEF PopupInv

(* A tooltip is hidden exactly while the popup of its feature is open      *)
(* (the popupopen and popupclose listeners of leaflet.drupal.js).          *)
THEOREM TooltipAlwaysGivesWay == PopupSpec => []TooltipGivesWay
BY PopupInvariant, PTL DEF PopupInv

(* An open popup that shows its placeholder has a request under way.       *)
THEOREM PlaceholderAlwaysAwaited == PopupSpec => []PlaceholderIsAwaited
BY PopupInvariant, PTL DEF PopupInv

(* What a popup has, from an answer or from the page, is not asked for     *)
(* again and not replaced by its placeholder; only an answer may take it   *)
(* away (.done of the request, and setContent of Leaflet).                 *)
Has(f) == content[f] = "fetched" \/ node[f] = "fetched"
StillHas(f) ==
    /\ \/ content'[f] = "fetched"
       \/ node'[f] = "fetched"
       \/ pending'[f] < pending[f] /\ content'[f] \in {"none", "broken"}
    /\ pending'[f] <= pending[f]
    /\ open' = f => node'[f] # "placeholder"

THEOREM NeverFetchedAgain == PopupSpec => FetchedOnce
<1>1. PopupInv /\ [PopupNext]_popupVars =>
          [\A f \in Features : Has(f) => StillHas(f)]_popupVars
  <2> SUFFICES ASSUME PopupInv, PopupNext, NEW f \in Features, Has(f)
               PROVE  StillHas(f)
    OBVIOUS
  <2> USE DEF PopupInv, PopupTypeOK, NodeIsKept, Has, StillHas
  <2>1. ASSUME NEW g \in Features, Open(g)
        PROVE  StillHas(f)
    <3>1. CASE g = f
      <4>1. Written(f) = "fetched"
        BY <2>1, <3>1 DEF Open, Written
      <4>2. QED
        BY <2>1, <3>1, <4>1 DEF Open
    <3>2. CASE g # f
      BY <2>1, <3>2 DEF Open
    <3>3. QED
      BY <3>1, <3>2
  <2>2. ASSUME NEW g \in Features, Arrive(g)
        PROVE  StillHas(f)
    <3>1. CASE Done(g)
      BY <3>1 DEF Done, Answered
    <3>2. CASE DoneSettings(g)
      BY <3>2 DEF DoneSettings, Answered
    <3>3. CASE DoneAssets(g)
      BY <3>3 DEF DoneAssets, Answered
    <3>4. QED
      BY <2>2, <3>1, <3>2, <3>3 DEF Arrive
  <2>3. ASSUME NEW g \in Features, Fail(g)
        PROVE  StillHas(f)
    BY <2>3, PopupAssumption DEF Fail, Answered
  <2>4. CASE OpenSearch \/ Close
    BY <2>4, PopupAssumption DEF OpenSearch, Close
  <2>5. QED
    BY <2>1, <2>2, <2>3, <2>4 DEF PopupNext, Answer
<1>2. [\A f \in Features : Has(f) => StillHas(f)]_popupVars =>
      [\A f \in Features :
          LET Had == content[f] = "fetched" \/ node[f] = "fetched"
              Taken == pending'[f] < pending[f] /\ content'[f] \in {"none", "broken"}
          IN  Had =>
                 /\ content'[f] = "fetched" \/ node'[f] = "fetched" \/ Taken
                 /\ pending'[f] <= pending[f]
                 /\ open' = f => node'[f] # "placeholder"]_popupVars
  BY DEF Has, StillHas
<1>3. QED
  BY <1>1, <1>2, PopupInvariant, PTL DEF PopupSpec, FetchedOnce

-----------------------------------------------------------------------------
(* The vector layer (MaplibreLayer)                                        *)
(*                                                                         *)
(* FollowsAtRest says nothing of a map that is moving, and nothing of a    *)
(* layer that is off the map, so it is not inductive.  LayerInv says what  *)
(* the flag _zooming is at any moment: FALSE while nothing zooms (Resting) *)
(* and FALSE while the layer is away (Away), unless it was cut short.      *)

(* On a map that stands still the flag is down, and a canvas that lags     *)
(* behind has a call of the throttle to wait for.                          *)
Resting ==
    onMap /\ ~cutShort /\ phase = "still" =>
        ~layer.zooming /\ (layer.synced \/ layer.waiting)

(* A layer that was not cut short left the map with its flag down.         *)
Away == ~onMap /\ ~cutShort => ~layer.zooming

LayerInv == LayerTypeOK /\ Resting /\ Away

-----------------------------------------------------------------------------
(* The methods                                                             *)

(* _update(): the flag and the throttle stay; a layer that is not zooming  *)
(* has the position of the map.                                            *)
LEMMA UpdateFacts ==
    ASSUME NEW l \in Layer
    PROVE  /\ Update(l) \in Layer
           /\ Update(l).zooming = l.zooming
           /\ Update(l).waiting = l.waiting
           /\ Update(l).lock = l.lock
           /\ ~l.zooming => Update(l).synced
BY DEF Update, TransformGL, Layer

(* The throttled call: done now, or noted as waiting.                      *)
LEMMA ThrottledFacts ==
    ASSUME NEW l \in Layer
    PROVE  /\ ThrottledUpdate(l) \in Layer
           /\ ThrottledUpdate(l).zooming = l.zooming
           /\ ~l.zooming => \/ ThrottledUpdate(l).synced
                            \/ ThrottledUpdate(l).waiting
<1>1. CASE l.lock
  BY <1>1 DEF ThrottledUpdate, Layer
<1>2. CASE ~l.lock
  BY <1>2, UpdateFacts DEF ThrottledUpdate, Layer
<1> QED BY <1>1, <1>2

(* _zoomEnd(): whatever was before, the flag is down and the canvas is at  *)
(* the position of the map.                                                *)
LEMMA ZoomEndFacts ==
    ASSUME NEW l \in Layer
    PROVE  /\ ZoomEnd(l) \in Layer
           /\ ~ZoomEnd(l).zooming
           /\ ZoomEnd(l).synced
<1>1. /\ [l EXCEPT !.zooming = FALSE] \in Layer
      /\ ~[l EXCEPT !.zooming = FALSE].zooming
  BY DEF Layer
<1> QED BY <1>1, UpdateFacts DEF ZoomEnd

(* The moves of a map and what a zoom does to the canvas.                  *)
LEMMA MoveFacts ==
    ASSUME NEW l \in Layer
    PROVE  /\ Drift(l) \in Layer /\ Drift(l).zooming = l.zooming
           /\ TransformGL(l) \in Layer /\ TransformGL(l).zooming = l.zooming
           /\ TransformGL(l).synced
           /\ PinchZoom(l) \in Layer /\ PinchZoom(l).zooming = l.zooming
           /\ ZoomStart(l) \in Layer
BY DEF Drift, TransformGL, PinchZoom, ZoomStart, Layer

(* The end of an animation is the end of a zoom.                           *)
LEMMA LandedFacts ==
    ASSUME NEW l \in Layer
    PROVE  Landed(l) \in Layer /\ ~Landed(l).zooming /\ Landed(l).synced
<1>1. ThrottledUpdate(PinchZoom(l)) \in Layer
  BY MoveFacts, ThrottledFacts
<1> QED BY <1>1, ZoomEndFacts DEF Landed

-----------------------------------------------------------------------------
(* The invariant                                                           *)

LEMMA LayerInitial == LayerInit => LayerInv
<1> SUFFICES ASSUME LayerInit PROVE LayerInv
  OBVIOUS
<1>1. layer \in Layer
  BY DEF LayerInit, Layer
<1>2. frames \in 0 .. MaxFrames
  BY FrameAssumption DEF LayerInit
<1>3. LayerTypeOK
  BY <1>1, <1>2 DEF LayerInit, LayerTypeOK, Phases
<1>4. Resting /\ Away
  BY DEF LayerInit, Resting, Away
<1> QED BY <1>3, <1>4 DEF LayerInv

(* A zoom that has ended, by whichever event, leaves all in order.         *)
LEMMA EndedInOrder ==
    ASSUME LayerInv, Ended, UNCHANGED onMap, phase' \in Phases,
           frames' \in 0 .. MaxFrames, transition' \in BOOLEAN,
           NEW l \in Layer, ~l.zooming, l.synced, Handle(l)
    PROVE  LayerInv'
<1>1. CASE onMap
  BY <1>1 DEF LayerInv, LayerTypeOK, Resting, Away, Ended, Handle
<1>2. CASE ~onMap
  BY <1>2 DEF LayerInv, LayerTypeOK, Resting, Away, Ended, Handle
<1> QED BY <1>1, <1>2 DEF LayerInv, LayerTypeOK

(* A move that is followed as soon as the throttle allows.                 *)
LEMMA FollowedInOrder ==
    ASSUME LayerInv, UNCHANGED <<onMap, phase, cutShort>>,
           frames' \in 0 .. MaxFrames, transition' \in BOOLEAN,
           Handle(ThrottledUpdate(Drift(layer)))
    PROVE  LayerInv'
<1> DEFINE l == ThrottledUpdate(Drift(layer))
<1>1. /\ Drift(layer) \in Layer
      /\ Drift(layer).zooming = layer.zooming
  BY MoveFacts DEF LayerInv, LayerTypeOK
<1>2. /\ l \in Layer /\ l.zooming = layer.zooming
      /\ ~layer.zooming => l.synced \/ l.waiting
  BY <1>1, ThrottledFacts
<1>3. layer' = IF onMap THEN l ELSE layer
  BY DEF Handle
<1> HIDE DEF l
<1> QED BY <1>2, <1>3 DEF LayerInv, LayerTypeOK, Resting, Away

(* While the map moves by itself nothing is claimed but the types.         *)
LEMMA MovingInOrder ==
    ASSUME LayerInv, UNCHANGED <<onMap, frames, cutShort>>,
           phase' \in Phases \ {"still"}, transition' \in BOOLEAN,
           NEW l \in Layer, Handle(l)
    PROVE  LayerInv'
BY DEF LayerInv, LayerTypeOK, Resting, Away, Handle

LEMMA LayerStep == LayerInv /\ [LayerNext]_layerVars => LayerInv'
<1> SUFFICES ASSUME LayerInv, [LayerNext]_layerVars
             PROVE  LayerInv'
  OBVIOUS
<1> USE FrameAssumption
<1>0. layer \in Layer /\ frames \in 0 .. MaxFrames /\ phase \in Phases
      /\ transition \in BOOLEAN
  BY DEF LayerInv, LayerTypeOK
<1>1. CASE OnAdd
  <2>1. layer' \in Layer /\ layer'.synced /\ layer'.zooming = layer.zooming
    BY <1>0, <1>1, MoveFacts DEF OnAdd, InitGL
  <2> QED BY <1>1, <2>1 DEF OnAdd, LayerInv, LayerTypeOK, Resting, Away
<1>2. CASE OnRemove
  <2>1. layer' \in Layer /\ layer'.zooming = layer.zooming
    BY <1>0, <1>2, MoveFacts DEF OnRemove
  <2>2. cutShort' \in BOOLEAN
    BY <1>0, <1>2 DEF OnRemove, Layer
  <2> QED BY <1>2, <2>1, <2>2 DEF OnRemove, LayerInv, LayerTypeOK, Resting, Away
<1>3. CASE Pan
  BY <1>0, <1>3, FollowedInOrder DEF Pan
<1>4. CASE AnimateZoom
  <2>1. ZoomStart(Drift(layer)) \in Layer
    BY <1>0, MoveFacts
  <2>2. transition' \in BOOLEAN /\ phase' \in Phases \ {"still"}
    BY <1>0, <1>4 DEF AnimateZoom, Phases
  <2> QED BY <1>4, <2>1, <2>2, MovingInOrder DEF AnimateZoom
<1>5. CASE Pinch
  <2> DEFINE l == IF phase = "still" THEN ZoomStart(layer) ELSE layer
  <2>1. l \in Layer
    BY <1>0, MoveFacts
  <2>2. Drift(l) \in Layer
    BY <2>1, MoveFacts
  <2>3. PinchZoom(Drift(l)) \in Layer
    BY <2>2, MoveFacts
  <2>4. ThrottledUpdate(PinchZoom(Drift(l))) \in Layer
    BY <2>3, ThrottledFacts
  <2>5. transition' \in BOOLEAN /\ phase' \in Phases \ {"still"}
    BY <1>0, <1>5 DEF Pinch, Phases
  <2> QED BY <1>5, <2>4, <2>5, MovingInOrder DEF Pinch
<1>6. CASE PinchEnd
  <2>1. Drift(layer) \in Layer
    BY <1>0, MoveFacts
  <2>2. transition' \in BOOLEAN /\ phase' \in Phases \ {"still"}
    BY <1>0, <1>6 DEF PinchEnd, Phases
  <2> QED BY <1>6, <2>1, <2>2, MovingInOrder DEF PinchEnd
<1>7. CASE Jump
  <2> DEFINE l == PinchZoom(ZoomStart(Drift(layer)))
  <2>1. ThrottledUpdate(l) \in Layer
    BY <1>0, MoveFacts, ThrottledFacts
  <2>2. /\ ZoomEnd(ThrottledUpdate(l)) \in Layer
        /\ ~ZoomEnd(ThrottledUpdate(l)).zooming
        /\ ZoomEnd(ThrottledUpdate(l)).synced
    BY <2>1, ZoomEndFacts
  <2>3. Handle(ZoomEnd(ThrottledUpdate(l))) /\ Ended
    BY <1>7 DEF Jump
  <2> HIDE DEF l
  <2>4. UNCHANGED onMap /\ phase' \in Phases /\ frames' \in 0 .. MaxFrames
        /\ transition' \in BOOLEAN
    BY <1>0, <1>7 DEF Jump
  <2> QED BY <2>2, <2>3, <2>4, EndedInOrder
<1>8. CASE Resize
  <2>1. frames' \in 0 .. MaxFrames
    BY <1>0, <1>8 DEF Resize
  <2> QED BY <1>0, <1>8, <2>1, FollowedInOrder DEF Resize
<1>9. CASE Timer
  <2>1. phase' \in Phases
    BY <1>9 DEF Timer, Phases
  <2> QED BY <1>0, <1>9, <2>1, LandedFacts, EndedInOrder DEF Timer
<1>10. CASE TransitionEnd
  <2>1. frames' \in 0 .. MaxFrames /\ phase' \in Phases /\ transition' \in BOOLEAN
    <3>1. frames' \in 0 .. MaxFrames
      BY <1>0, <1>10 DEF TransitionEnd
    <3>2. phase' \in Phases
      BY <1>0, <1>10 DEF TransitionEnd, Phases
    <3> QED BY <1>10, <3>1, <3>2 DEF TransitionEnd
  <2>2. CASE phase = "animating"
    <3>1. Handle(Landed(layer)) /\ Ended /\ UNCHANGED onMap
      BY <1>10, <2>2 DEF TransitionEnd
    <3> QED BY <1>0, <2>1, <3>1, LandedFacts, EndedInOrder
  <2>3. CASE phase # "animating"
    <3>1. UNCHANGED <<layer, cutShort, onMap, phase>>
      BY <1>10, <2>3 DEF TransitionEnd
    <3> QED BY <2>1, <3>1 DEF LayerInv, LayerTypeOK, Resting, Away
  <2> QED BY <2>2, <2>3
<1>11. CASE Frame
  <2>1. TransformGL(layer) \in Layer
    BY <1>0, MoveFacts
  <2>2. frames' \in 0 .. MaxFrames
    BY <1>0, <1>11 DEF Frame
  <2>3. /\ ZoomEnd(TransformGL(layer)) \in Layer
        /\ ~ZoomEnd(TransformGL(layer)).zooming
        /\ ZoomEnd(TransformGL(layer)).synced
    BY <2>1, ZoomEndFacts
  <2>4. /\ Handle(ZoomEnd(TransformGL(layer))) /\ Ended /\ UNCHANGED onMap
        /\ phase' \in Phases /\ transition' \in BOOLEAN
    BY <1>0, <1>11 DEF Frame
  <2> QED BY <2>2, <2>3, <2>4, EndedInOrder
<1>12. CASE Later
  <2> DEFINE free == [layer EXCEPT !.lock = FALSE, !.waiting = FALSE]
  <2>1. free \in Layer /\ free.zooming = layer.zooming /\ free.synced = layer.synced
    BY <1>0 DEF Layer
  <2>2. /\ ThrottledUpdate(free) \in Layer
        /\ ThrottledUpdate(free).zooming = layer.zooming
        /\ ~layer.zooming => \/ ThrottledUpdate(free).synced
                             \/ ThrottledUpdate(free).waiting
    BY <2>1, ThrottledFacts
  <2>3. /\ [free EXCEPT !.lock = TRUE] \in Layer
        /\ [free EXCEPT !.lock = TRUE].zooming = layer.zooming
    BY <2>1 DEF Layer
  <2>4. layer' = IF ~layer.waiting THEN free
                 ELSE IF onMap THEN ThrottledUpdate(free)
                 ELSE [free EXCEPT !.lock = TRUE]
    BY <1>12 DEF Later
  <2>5. UNCHANGED <<onMap, frames, phase, transition, cutShort>>
    BY <1>12 DEF Later
  <2> HIDE DEF free
  <2>6. CASE ~layer.waiting
    BY <2>1, <2>4, <2>5, <2>6 DEF LayerInv, LayerTypeOK, Resting, Away
  <2>7. CASE layer.waiting /\ onMap
    BY <2>2, <2>4, <2>5, <2>7 DEF LayerInv, LayerTypeOK, Resting, Away
  <2>8. CASE layer.waiting /\ ~onMap
    BY <2>3, <2>4, <2>5, <2>8 DEF LayerInv, LayerTypeOK, Resting, Away
  <2> QED BY <2>6, <2>7, <2>8
<1>13. CASE UNCHANGED layerVars
  BY <1>13 DEF layerVars, LayerInv, LayerTypeOK, Resting, Away
<1> QED
  BY <1>1, <1>2, <1>3, <1>4, <1>5, <1>6, <1>7, <1>8, <1>9, <1>10, <1>11, <1>12, <1>13
  DEF LayerNext, Visitor, Browser

(* What the flag and the throttle are at any moment of any order of        *)
(* transitions, timers, frames and removals (the event handlers).          *)
THEOREM LayerInvariant == LayerSpec => []LayerInv
<1> QED BY LayerInitial, LayerStep, PTL DEF LayerSpec

(* The variables keep their types (the state of the layer).                *)
THEOREM LayerTypeCorrect == LayerSpec => []LayerTypeOK
<1>1. LayerInv => LayerTypeOK
  BY DEF LayerInv
<1> QED BY <1>1, LayerInvariant, PTL

(* At rest the canvas shows what the map shows and will follow the next    *)
(* panning, unless the layer was taken off in the middle of a zoom         *)
(* (_update, _zoomEnd, onRemove).                                          *)
THEOREM AlwaysFollowsAtRest == LayerSpec => []FollowsAtRest
<1>1. LayerInv => FollowsAtRest
  BY DEF LayerInv, Resting, FollowsAtRest
<1> QED BY <1>1, LayerInvariant, PTL

-----------------------------------------------------------------------------
(* The map and its parts                                                   *)
(*                                                                         *)
(* A whole map keeps what its parts promise: every step of LeafletMap is a *)
(* step of its popups, of its vector layer, or of none of them.            *)

(* Switching layers adds or removes the vector layer, or leaves it.        *)
LEMMA SwitchIsLayerStep ==
    ASSUME NEW shown, LayerFollows(shown)
    PROVE  [LayerNext]_layerVars
BY DEF LayerFollows, LayerNext

(* Building a map does nothing to its popups.                              *)
LEMMA LoadIsStep ==
    ASSUME LoadMap
    PROVE  [PopupNext]_popupVars /\ [LayerNext]_layerVars
<1>1. [PopupNext]_popupVars
  BY DEF LoadMap, popupVars
<1>2. \E shown : LayerFollows(shown)
  BY DEF LoadMap, Finish, FailAt
<1> QED BY <1>1, <1>2, SwitchIsLayerStep

(* Each step of a map, seen from its popups.                               *)
LEMMA PopupsStep == [LeafletNext]_leafletVars => [PopupNext]_popupVars
<1> SUFFICES ASSUME [LeafletNext]_leafletVars
             PROVE  [PopupNext]_popupVars
  OBVIOUS
<1>1. CASE Attach
  BY <1>1, LoadIsStep DEF Attach, popupVars
<1>2. CASE Intersect
  BY <1>2, LoadIsStep DEF Intersect
<1>3. CASE \E b \in lmap.bases : ChooseBase(b)
  BY <1>3 DEF ChooseBase, popupVars
<1>4. CASE \E o \in Overlays : ToggleOverlay(o)
  BY <1>4 DEF ToggleOverlay, PopupNext, popupVars
<1>5. CASE Move \/ ResetView
  BY <1>5 DEF Move, ResetView, popupVars
<1>6. CASE SelectAddress
  BY <1>6 DEF SelectAddress, PopupNext
<1>7. CASE OpenPopup
  BY <1>7 DEF OpenPopup, PopupNext
<1>8. CASE ClosePopup
  BY <1>8 DEF ClosePopup, PopupNext
<1>9. CASE PopupFails
  BY <1>9 DEF PopupFails, PopupNext, Answer
<1>10. CASE \E f \in Features : PopupArrives(f)
  BY <1>10 DEF PopupArrives, PopupNext, Answer
<1>11. CASE Background
  BY <1>11 DEF Background, popupVars
<1>12. CASE UNCHANGED leafletVars
  BY <1>12 DEF leafletVars, popupVars
<1> QED
  BY <1>1, <1>2, <1>3, <1>4, <1>5, <1>6, <1>7, <1>8, <1>9, <1>10, <1>11, <1>12
  DEF LeafletNext

(* Each step of a map, seen from its vector layer.                         *)
LEMMA LayersStep == [LeafletNext]_leafletVars => [LayerNext]_layerVars
<1> SUFFICES ASSUME [LeafletNext]_leafletVars
             PROVE  [LayerNext]_layerVars
  OBVIOUS
<1>1. CASE Attach
  BY <1>1, LoadIsStep DEF Attach, layerVars
<1>2. CASE Intersect
  BY <1>2, LoadIsStep DEF Intersect
<1>3. CASE \E b \in lmap.bases : ChooseBase(b)
  <2>1. PICK b \in lmap.bases : ChooseBase(b)
    BY <1>3
  <2>2. LayerFollows((lmap.shown \ lmap.control.bases) \union {b})
    BY <2>1 DEF ChooseBase, Switch
  <2> QED BY <2>2, SwitchIsLayerStep
<1>4. CASE \E o \in Overlays : ToggleOverlay(o)
  <2>1. PICK o \in Overlays : ToggleOverlay(o)
    BY <1>4
  <2>2. \/ LayerFollows(lmap.shown \ {o})
        \/ LayerFollows(lmap.shown \union {o})
    BY <2>1 DEF ToggleOverlay, Switch
  <2> QED BY <2>2, SwitchIsLayerStep
<1>5. CASE Move
  BY <1>5 DEF Move, Moves, LayerNext, layerVars
<1>6. CASE ResetView \/ SelectAddress
  BY <1>6 DEF ResetView, SelectAddress, Moves, LayerNext, Visitor, layerVars
<1>7. CASE OpenPopup \/ ClosePopup \/ PopupFails \/ \E f \in Features : PopupArrives(f)
  BY <1>7 DEF OpenPopup, ClosePopup, PopupFails, PopupArrives, layerVars
<1>8. CASE Background
  BY <1>8 DEF Background, LayerNext
<1>9. CASE UNCHANGED leafletVars
  BY <1>9 DEF leafletVars, layerVars
<1> QED
  BY <1>1, <1>2, <1>3, <1>4, <1>5, <1>6, <1>7, <1>8, <1>9 DEF LeafletNext

(* A map implements its popups.                                            *)
THEOREM MapImplementsPopups == LeafletSpec => PopupSpec
<1>1. LeafletInit => PopupInit
  BY DEF LeafletInit
<1> QED BY <1>1, PopupsStep, PTL DEF LeafletSpec, PopupSpec

(* A map implements its vector layer.                                      *)
THEOREM MapImplementsLayer == LeafletSpec => LayerSpec
<1>1. LeafletInit => LayerInit
  BY DEF LeafletInit
<1> QED BY <1>1, LayersStep, PTL DEF LeafletSpec, LayerSpec

(* On every map: the tooltips, the placeholders and the canvas are as the  *)
(* components promise (popupopen, popupclose, _update, _zoomEnd).          *)
THEOREM MapKeepsPromises ==
    LeafletSpec => [](TooltipGivesWay /\ PlaceholderIsAwaited /\ FollowsAtRest)
BY MapImplementsPopups, MapImplementsLayer, TooltipAlwaysGivesWay,
   PlaceholderAlwaysAwaited, AlwaysFollowsAtRest, PTL

-----------------------------------------------------------------------------
(* The start position                                                      *)
(*                                                                         *)
(* A call of setView() with no zoom under way ends where it was told to,   *)
(* however it gets there.  A second call ends there only if the first did  *)
(* not leave a frame waiting: so the fit, which is the first of two or     *)
(* three calls, must not be animated.                                      *)

Centers == {"world", "settings", "bounds", "projected", "elsewhere"}
Place == [center : Centers, zoom : Int]
Camera == [at : Place, pan : Centers, frames : Seq(Place)]

LEMMA SetViewFacts ==
    ASSUME NEW v \in Camera, NEW to \in Place
    PROVE  /\ SetView(v, to) \in Camera
           /\ v.frames = << >> => Rest(SetView(v, to)) = to
           /\ ~Near(v.at.center, to.center) =>
                  SetView(v, to).frames = v.frames /\ SetView(v, to).at = to
<1> DEFINE far == to.zoom - v.at.zoom
           stopped == [v EXCEPT !.pan = v.at.center]
           Reset == [stopped EXCEPT !.at = to, !.pan = to.center]
           panned == [stopped EXCEPT !.pan = to.center]
           zoomed == [stopped EXCEPT !.frames = Append(@, to)]
<1>1. far \in Int /\ to.center \in Centers /\ to.zoom \in Int
      /\ v.at \in Place /\ v.frames \in Seq(Place) /\ v.pan \in Centers
      /\ v.at.center \in Centers /\ v.at.zoom \in Int
      /\ to = [center |-> to.center, zoom |-> to.zoom]
  BY DEF Camera, Place
<1>2. /\ Reset \in Camera /\ Reset.at = to /\ Reset.frames = v.frames /\ Reset.pan = to.center
      /\ panned \in Camera /\ panned.at = v.at /\ panned.frames = v.frames /\ panned.pan = to.center
      /\ zoomed.frames = Append(v.frames, to)
  BY <1>1 DEF Camera
<1>3. zoomed \in Camera
  <2>1. Append(v.frames, to) \in Seq(Place)
    BY <1>1
  <2>2. QED
    BY <1>1, <2>1 DEF Camera
<1>4. /\ far = 0 => to.zoom = v.at.zoom
      /\ SetView(v, to) = IF ~Near(v.at.center, to.center) THEN Reset
                          ELSE IF far = 0 THEN panned
                          ELSE IF far \in -ZoomAnimationThreshold .. ZoomAnimationThreshold
                          THEN zoomed ELSE Reset
  BY <1>1 DEF SetView
<1>5. v.frames = << >> => zoomed.frames # << >> /\ Last(zoomed.frames) = to
  <2> SUFFICES ASSUME v.frames = << >>
               PROVE  zoomed.frames # << >> /\ Last(zoomed.frames) = to
    OBVIOUS
  <2>1. zoomed.frames = <<to>>
    BY <1>2
  <2>2. QED
    BY <2>1 DEF Last
<1> HIDE DEF Reset, panned, zoomed, far
<1>6. /\ v.frames = << >> => Rest(Reset) = to
      /\ v.frames = << >> /\ far = 0 => Rest(panned) = to
      /\ v.frames = << >> => Rest(zoomed) = to
  BY <1>1, <1>2, <1>4, <1>5 DEF Rest
<1>7. QED
  BY <1>2, <1>3, <1>4, <1>6

LEMMA FirstViewFacts ==
    ASSUME definition.zoom \in Int
    PROVE  /\ FirstView \in Camera /\ FirstView.frames = << >>
           /\ FirstView.at.center \in {"world", "settings"}
           /\ FirstView.at.center = "world" \/ FirstView.at = Settings
           /\ Settings \in Place /\ Settings.center = "settings"
<1>1. Settings \in Place /\ Settings.center = "settings"
  BY DEF Settings, Place, Centers
<1>2. World \in Place /\ World.center = "world"
  BY DEF World, Place, Centers
<1>3. ASSUME NEW place \in Place
      PROVE  At(place) \in Camera /\ At(place).frames = << >> /\ At(place).at = place
  BY DEF At, Camera, Place
<1>4. QED
  BY <1>1, <1>2, <1>3 DEF FirstView

(* What the branches of fitBounds() end with.                              *)
AsFitted(f) ==
    /\ f.v \in Camera /\ f.start \in Place
    /\ ~definition.near /\ definition.fitted = definition.fits /\ definition.middle =>
           Rest(f.v) = f.start

LEMMA FittedFacts ==
    ASSUME definition \in Definitions, NEW points \in Nat
    PROVE  /\ AsFitted(Fitted(points))
           /\ points # 1 /\ ~definition.near => Fitted(points).v.frames = << >>
           /\ points = 0 /\ ~definition.near =>
                  Rest(Fitted(points).v) = Fitted(points).start
<1> DEFINE bounds == [center |-> "bounds", zoom |-> definition.fits]
           target == [center |-> IF definition.middle THEN "bounds" ELSE "projected",
                      zoom |-> definition.fitted]
           fit == SetView(FirstView, target)
           one == [bounds EXCEPT !.zoom = definition.zoom]
<1>1. {definition.zoom, definition.fits, definition.fitted, definition.finer} \subseteq Int
  BY DefinitionsAssumption
<1>2. /\ bounds \in Place /\ one \in Place /\ target \in Place
      /\ target.center \in {"bounds", "projected"}
      /\ definition.fitted = definition.fits /\ definition.middle => target = bounds
      /\ definition.middle => [target EXCEPT !.zoom = definition.zoom] = one
  BY <1>1 DEF Place, Centers
<1>3. /\ FirstView \in Camera /\ FirstView.frames = << >> /\ Settings \in Place
      /\ Settings.center = "settings"
      /\ FirstView.at.center \in {"world", "settings"}
      /\ FirstView.at.center = "world" \/ FirstView.at = Settings
  BY <1>1, FirstViewFacts
<1>4. CASE points = 0
  <2>1. Fitted(points) = [v |-> SetView(FirstView, Settings), start |-> Settings]
    BY <1>4 DEF Fitted
  <2>2. SetView(FirstView, Settings) \in Camera /\ Rest(SetView(FirstView, Settings)) = Settings
    BY <1>3, SetViewFacts
  <2>3. ~definition.near => SetView(FirstView, Settings).frames = << >>
    <3>1. CASE FirstView.at.center = "world"
      BY <1>3, <3>1, SetViewFacts DEF Near
    <3>2. CASE FirstView.at = Settings
      <4>1. SetView(FirstView, Settings).frames = FirstView.frames
        BY <1>3, <3>2 DEF SetView, Near, Camera, Place
      <4>2. QED
        BY <1>3, <4>1
    <3>3. QED
      BY <1>3, <3>1, <3>2
  <2>4. QED
    BY <1>3, <2>1, <2>2, <2>3 DEF AsFitted
<1>5. fit \in Camera
  BY <1>2, <1>3, SetViewFacts
<1>6. Rest(fit) = target
  BY <1>2, <1>3, SetViewFacts
<1>7. ~definition.near => fit.frames = << >> /\ fit.at = target
  <2>1. ~definition.near => ~Near(FirstView.at.center, target.center)
    BY <1>2, <1>3 DEF Near
  <2>2. QED
    BY <1>2, <1>3, <2>1, SetViewFacts
<1> DEFINE again == [fit.at EXCEPT !.zoom = definition.zoom]
<1>8. again \in Place
  BY <1>1, <1>5 DEF Camera, Place
<1>9. /\ ~definition.near /\ definition.middle => again = one
      /\ Fitted(points) = IF points = 0
                          THEN [v |-> SetView(FirstView, Settings), start |-> Settings]
                          ELSE IF points = 1 THEN [v |-> SetView(fit, again), start |-> one]
                          ELSE [v |-> fit, start |-> bounds]
  BY <1>2, <1>7 DEF Fitted
<1> HIDE DEF fit, bounds, target, one, again
<1>10. CASE points = 1
  <2>1. Fitted(points) = [v |-> SetView(fit, again), start |-> one]
    BY <1>9, <1>10
  <2>2. SetView(fit, again) \in Camera
    BY <1>5, <1>8, SetViewFacts
  <2>3. ~definition.near /\ definition.middle => Rest(SetView(fit, again)) = one
    BY <1>5, <1>7, <1>8, <1>9, SetViewFacts
  <2>4. QED
    BY <1>2, <1>10, <2>1, <2>2, <2>3 DEF AsFitted
<1>11. CASE points \notin {0, 1}
  <2>1. Fitted(points) = [v |-> fit, start |-> bounds]
    BY <1>9, <1>11
  <2>2. QED
    BY <1>2, <1>11, <1>5, <1>6, <1>7, <2>1 DEF AsFitted
<1>12. QED
  BY <1>4, <1>10, <1>11

LEMMA FinedFacts ==
    ASSUME definition \in Definitions, NEW f, AsFitted(f)
    PROVE  /\ Fined(f).v \in Camera /\ Fined(f).start \in Place
           /\ ~definition.near /\ definition.fitted = definition.fits
              /\ \/ definition.finer # 0 /\ f.v.frames = << >>
                 \/ definition.finer = 0 /\ Rest(f.v) = f.start
              => Rest(Fined(f).v) = Fined(f).start
<1> DEFINE to == [f.start EXCEPT !.zoom = @ + definition.finer]
<1>1. definition.finer \in Int
  BY DefinitionsAssumption
<1>2. to \in Place
  BY <1>1 DEF AsFitted, Place
<1>3. Fined(f) = IF definition.finer = 0 THEN f ELSE [v |-> SetView(f.v, to), start |-> to]
  BY DEF Fined
<1> HIDE DEF to
<1>4. QED
  BY <1>2, <1>3, SetViewFacts DEF AsFitted

LEMMA FitBoundsFacts ==
    ASSUME definition \in Definitions, NEW points \in Nat
    PROVE  /\ FitBounds(points).v \in Camera /\ FitBounds(points).start \in Place
           /\ Rest(FitBounds(points).v) \in Place
           /\ \/ Rest(FitBounds(points).v) = FitBounds(points).start
              \/ definition.fitted # definition.fits
              \/ definition.near
              \/ points = 1 /\ definition.finer # 0
              \/ points > 0 /\ ~definition.middle /\ definition.finer = 0
<1>1. ASSUME NEW v \in Camera
      PROVE  Rest(v) \in Place
  <2>1. v.frames \in Seq(Place) /\ [center |-> v.pan, zoom |-> v.at.zoom] \in Place
    BY DEF Camera, Place
  <2>2. v.frames # << >> => Last(v.frames) \in Place
    BY <2>1 DEF Last
  <2>3. QED
    BY <2>1, <2>2 DEF Rest
<1>2. definition.zoom \in Int
  BY DefinitionsAssumption
<1>3. CASE definition.forced
  <2> DEFINE forced == SetView(FirstView, Settings)
  <2>1. FitBounds(points) = [v |-> forced, start |-> forced.at]
    BY <1>3 DEF FitBounds
  <2>2. forced \in Camera /\ Rest(forced) = Settings
    BY <1>2, FirstViewFacts, SetViewFacts
  <2>3. forced.at \in Place
    BY <2>2 DEF Camera
  <2>4. ~definition.near => forced.at = Settings
    <3>1. CASE FirstView.at.center = "world"
      BY <1>2, <3>1, FirstViewFacts, SetViewFacts DEF Near
    <3>2. CASE FirstView.at = Settings
      BY <1>2, <3>2, FirstViewFacts DEF SetView, Near, Camera, Place
    <3>3. QED
      BY <1>2, <3>1, <3>2, FirstViewFacts
  <2>5. QED
    BY <1>1, <2>1, <2>2, <2>3, <2>4
<1>4. CASE ~definition.forced
  <2>1. FitBounds(points) = Fined(Fitted(points))
    BY <1>4 DEF FitBounds
  <2>2. AsFitted(Fitted(points))
    BY FittedFacts
  <2>3. /\ points # 1 /\ ~definition.near => Fitted(points).v.frames = << >>
        /\ points = 0 /\ ~definition.near => Rest(Fitted(points).v) = Fitted(points).start
        /\ ~definition.near /\ definition.fitted = definition.fits /\ definition.middle =>
              Rest(Fitted(points).v) = Fitted(points).start
    BY <2>2, FittedFacts DEF AsFitted
  <2>4. points = 0 \/ points > 0
    OBVIOUS
  <2>5. QED
    BY <1>1, <2>1, <2>2, <2>3, <2>4, FinedFacts
<1>5. QED
  BY <1>3, <1>4

-----------------------------------------------------------------------------
(* What is built                                                           *)
(*                                                                         *)
(* CanBeSeen is about a finished map.  While it is built, a map without a  *)
(* switcher may have more base layers than it shows if no switcher is      *)
(* wanted: AddOverlay, which may bring one later, lists them all then.     *)

(* Layers are records, and so is a switcher.                               *)
IsBuilt(m) ==
    /\ m = [bases |-> m.bases, overlay |-> m.overlay, control |-> m.control,
            shown |-> m.shown, clustered |-> m.clustered,
            markers |-> m.markers, points |-> m.points]
    /\ m.overlay \in BOOLEAN /\ m.points \in Nat /\ IsFiniteSet(m.bases)
    /\ \/ m.control = NoControl
       \/ m.control = [bases |-> m.control.bases, overlays |-> m.control.overlays]

Listed(m) ==
    IF m.control = NoControl THEN {} ELSE m.control.bases \union m.control.overlays
Seen(m) == m.shown \union Listed(m)

BasesSeen(m) ==
    /\ m.control # NoControl => m.bases \subseteq Seen(m)
    /\ m.control = NoControl =>
          \/ m.bases \subseteq m.shown
          \/ Cardinality(m.bases) > 1 /\ ~definition.layerControl

(* The overlay layers of the settings.                                     *)
LayersSeen(m) ==
    \A l \in ToSet(definition.layers) : l.overlay => l.key \in Seen(m)

(* What a group or a single feature is promised.                           *)
EntrySeen(m, entry) ==
    \/ entry.name \in Seen(m)
    \/ entry.members = << >>
    \/ entry.disabled /\ entry.label = NoLabel

(* The features that may join the clusters.                                *)
Joining == {f.id : f \in {g \in Members : ~Unclustered(g)}}

(* From m to n nothing disappears.                                         *)
Kept(m, n) ==
    /\ IsBuilt(n) /\ BasesSeen(n) /\ n.clustered = m.clustered /\ n.markers = m.markers
    /\ n.bases = m.bases /\ Seen(m) \subseteq Seen(n)
    /\ m.control # NoControl => n.control # NoControl

LEMMA SwitcherIsControl ==
    ASSUME NEW b, NEW o
    PROVE  [bases |-> b, overlays |-> o] # NoControl
<1>1. "bases" \in DOMAIN [bases |-> b, overlays |-> o]
  OBVIOUS
<1>2. "bases" \notin DOMAIN NoControl
  BY DEF NoControl
<1>3. QED
  BY <1>1, <1>2

(* One more base layer is one that was there, or makes it one more.        *)
LEMMA OneMoreBase ==
    ASSUME NEW S, IsFiniteSet(S), NEW x
    PROVE  /\ IsFiniteSet(S \union {x})
           /\ Cardinality(S) > 1 => Cardinality(S \union {x}) > 1
           /\ S # {} /\ ~(Cardinality(S \union {x}) > 1) => x \in S
<1>1. IsFiniteSet(S \union {x}) /\ Cardinality(S) \in Nat
  BY FS_AddElement, FS_CardinalityType
<1>2. CASE x \in S
  <2>1. S \union {x} = S
    BY <1>2
  <2>2. QED
    BY <1>1, <1>2, <2>1
<1>3. CASE x \notin S
  <2>1. Cardinality(S \union {x}) = Cardinality(S) + 1
    BY <1>3, FS_AddElement
  <2>2. S # {} => Cardinality(S) # 0
    BY FS_EmptySet
  <2>3. QED
    BY <1>1, <2>1, <2>2
<1>4. QED
  BY <1>2, <1>3

LEMMA InitialiseControlFacts ==
    ASSUME NEW m, IsBuilt(m)
    PROVE  LET n == InitialiseLayersControl(m)
           IN  /\ IsBuilt(n) /\ n.shown = m.shown /\ n.bases = m.bases
               /\ n.clustered = m.clustered /\ n.markers = m.markers /\ n.overlay = m.overlay
               /\ Listed(m) \subseteq Listed(n)
               /\ m.overlay \/ m.control # NoControl => n.control # NoControl
               /\ m.control # NoControl => n = m
               /\ m.control = NoControl /\ n.control # NoControl /\ Cardinality(m.bases) > 1 =>
                     m.bases \subseteq Listed(n)
               /\ n.control = NoControl =>
                     ~(definition.layerControl /\ Cardinality(m.bases) > 1)
<1> DEFINE all == IF Cardinality(m.bases) > 1 THEN m.bases ELSE {}
           made == [m EXCEPT !.control = [bases |-> all, overlays |-> {}]]
           want == m.control = NoControl
                   /\ \/ definition.layerControl /\ Cardinality(m.bases) > 1
                      \/ m.overlay
<1>1. /\ made.control = [bases |-> all, overlays |-> {}]
      /\ made.control.bases = all /\ made.control.overlays = {}
      /\ made.shown = m.shown /\ made.bases = m.bases /\ made.clustered = m.clustered
      /\ made.overlay = m.overlay /\ made.points = m.points /\ made.markers = m.markers
  BY DEF IsBuilt
<1>2. made = [bases |-> made.bases, overlay |-> made.overlay, control |-> made.control,
              shown |-> made.shown, clustered |-> made.clustered,
              markers |-> made.markers, points |-> made.points]
  BY DEF IsBuilt
<1>3. InitialiseLayersControl(m) = IF want THEN made ELSE m
  BY DEF InitialiseLayersControl
<1>4. made.control # NoControl
  BY <1>1, SwitcherIsControl
<1> HIDE DEF made
<1>5. IsBuilt(made)
  BY <1>1, <1>2 DEF IsBuilt
<1>6. Cardinality(m.bases) > 1 => all = m.bases
  OBVIOUS
<1> HIDE DEF all
<1>7. CASE want
  BY <1>1, <1>3, <1>4, <1>5, <1>6, <1>7 DEF Listed
<1>8. CASE ~want
  BY <1>3, <1>8
<1>9. QED
  BY <1>7, <1>8

LEMMA ShowFacts ==
    ASSUME NEW m, IsBuilt(m), NEW name
    PROVE  LET n == Show(m, name)
           IN  /\ IsBuilt(n) /\ n.bases = m.bases /\ n.control = m.control
               /\ n.clustered = m.clustered /\ n.markers = m.markers
               /\ n.shown = m.shown \union {name}
BY DEF IsBuilt, Show

LEMMA WiderFacts ==
    ASSUME NEW m, IsBuilt(m), NEW names
    PROVE  LET n == [m EXCEPT !.shown = @ \union names]
           IN  /\ IsBuilt(n) /\ n.bases = m.bases /\ n.control = m.control
               /\ n.clustered = m.clustered /\ n.markers = m.markers
               /\ n.shown = m.shown \union names
<1> DEFINE wider == m.shown \union names
           n == [m EXCEPT !.shown = wider]
<1>1. [m EXCEPT !.shown = @ \union names] = n
  OBVIOUS
<1> HIDE DEF wider
<1>2. /\ IsBuilt(n) /\ n.bases = m.bases /\ n.control = m.control
      /\ n.clustered = m.clustered /\ n.markers = m.markers
               /\ n.shown = wider
  BY DEF IsBuilt
<1> HIDE DEF n
<1>3. QED
  BY <1>1, <1>2 DEF wider

LEMMA NotedFacts ==
    ASSUME NEW m, IsBuilt(m), NEW noted \in BOOLEAN
    PROVE  LET n == [m EXCEPT !.overlay = noted]
           IN  /\ IsBuilt(n) /\ n.bases = m.bases /\ n.control = m.control
               /\ n.clustered = m.clustered /\ n.markers = m.markers
               /\ n.shown = m.shown /\ n.overlay = noted
BY DEF IsBuilt

(* A base layer is shown, listed, or one of several that no switcher is    *)
(* wanted for.                                                             *)
LEMMA AddBaseLayerFacts ==
    ASSUME NEW m, IsBuilt(m), BasesSeen(m), NEW key, NEW first \in BOOLEAN,
           first \/ m.control # NoControl \/ m.bases # {}
    PROVE  LET n == AddBaseLayer(m, key, first)
           IN  /\ IsBuilt(n) /\ BasesSeen(n) /\ n.bases # {} /\ Seen(m) \subseteq Seen(n)
               /\ n.clustered = m.clustered /\ n.markers = m.markers
<1> DEFINE based == [m EXCEPT !.bases = @ \union {key}]
           added == IF first THEN Show(based, key) ELSE based
<1>1. IsFiniteSet(m.bases \union {key})
  BY OneMoreBase DEF IsBuilt
<1>2. /\ IsBuilt(added) /\ added.bases = m.bases \union {key} /\ added.control = m.control
      /\ added.clustered = m.clustered /\ added.markers = m.markers
      /\ added.shown = IF first THEN m.shown \union {key} ELSE m.shown
  BY <1>1 DEF IsBuilt, Show
<1>3. AddBaseLayer(m, key, first) =
        IF m.control = NoControl THEN InitialiseLayersControl(added)
        ELSE [added EXCEPT !.control.bases = @ \union {key}]
  BY DEF AddBaseLayer
<1> HIDE DEF added
<1>4. CASE m.control = NoControl
  <2> DEFINE n == InitialiseLayersControl(added)
  <2>1. /\ IsBuilt(n) /\ n.shown = added.shown /\ n.bases = added.bases
        /\ n.clustered = added.clustered /\ n.markers = added.markers /\ Listed(added) \subseteq Listed(n)
        /\ n.control # NoControl /\ Cardinality(added.bases) > 1 => added.bases \subseteq Listed(n)
        /\ n.control = NoControl => ~(definition.layerControl /\ Cardinality(added.bases) > 1)
    BY <1>2, <1>4, InitialiseControlFacts
  <2> HIDE DEF n
  <2>2. ~(Cardinality(added.bases) > 1) => added.bases \subseteq added.shown
    <3> SUFFICES ASSUME ~(Cardinality(added.bases) > 1)
                 PROVE  added.bases \subseteq added.shown
      OBVIOUS
    <3>1. /\ ~(Cardinality(m.bases) > 1)
          /\ m.bases # {} => key \in m.bases
      BY <1>2, OneMoreBase DEF IsBuilt
    <3>2. m.bases \subseteq m.shown
      BY <1>4, <3>1 DEF BasesSeen
    <3>3. QED
      BY <1>2, <1>4, <3>1, <3>2
  <2>3. BasesSeen(n)
    BY <2>1, <2>2 DEF BasesSeen, Seen
  <2>4. Seen(m) \subseteq Seen(n)
    BY <1>2, <1>4, <2>1 DEF Seen, Listed
  <2>5. QED
    BY <1>2, <1>3, <1>4, <2>1, <2>3, <2>4 DEF n
<1>5. CASE m.control # NoControl
  <2> DEFINE n == [added EXCEPT !.control.bases = @ \union {key}]
  <2>1. added.control = [bases |-> m.control.bases, overlays |-> m.control.overlays]
    BY <1>2, <1>5 DEF IsBuilt
  <2>2. n.control = [bases |-> m.control.bases \union {key}, overlays |-> m.control.overlays]
    BY <1>2, <2>1 DEF IsBuilt
  <2>3. n.control # NoControl
    BY <2>2, SwitcherIsControl
  <2>4. IsBuilt(n) /\ n.bases = added.bases /\ n.shown = added.shown
        /\ n.clustered = added.clustered /\ n.markers = added.markers
    BY <1>2, <2>2 DEF IsBuilt
  <2>5. n.control.bases = m.control.bases \union {key} /\ n.control.overlays = m.control.overlays
    BY <2>2
  <2> HIDE DEF n
  <2>6. Seen(n) = n.shown \union (m.control.bases \union {key}) \union m.control.overlays
    BY <2>3, <2>5 DEF Seen, Listed
  <2>7. m.bases \subseteq m.shown \union m.control.bases \union m.control.overlays
    BY <1>5 DEF BasesSeen, Seen, Listed
  <2>8. m.shown \subseteq n.shown
    BY <1>2, <2>4
  <2>9. BasesSeen(n)
    BY <1>2, <2>3, <2>4, <2>6, <2>7, <2>8 DEF BasesSeen
  <2>10. Seen(m) \subseteq Seen(n)
    BY <1>5, <2>6, <2>8 DEF Seen, Listed
  <2>11. QED
    BY <1>2, <1>3, <1>5, <2>4, <2>9, <2>10 DEF n
<1>6. QED
  BY <1>4, <1>5

(* An overlay is shown or listed, unless it is hidden and has no label; a  *)
(* switcher that it brings lists the base layers that are not shown.       *)
LEMMA AddOverlayFacts ==
    ASSUME NEW m, IsBuilt(m), BasesSeen(m), NEW label, NEW name, NEW hidden \in BOOLEAN
    PROVE  LET n == AddOverlay(m, label, name, hidden)
           IN  /\ Kept(m, n)
               /\ name \in Seen(n) \/ (hidden /\ label = NoLabel)
               /\ label # NoLabel => n.control # NoControl
<1> DEFINE b == IF hidden THEN m ELSE Show(m, name)
           kept == [b EXCEPT !.overlay = TRUE]
<1>1. /\ IsBuilt(b) /\ b.bases = m.bases /\ b.control = m.control
      /\ b.clustered = m.clustered /\ b.markers = m.markers
      /\ b.shown = IF hidden THEN m.shown ELSE m.shown \union {name}
  <2>1. CASE hidden
    BY <2>1
  <2>2. CASE ~hidden
    BY <2>2, ShowFacts
  <2>3. QED
    BY <2>1, <2>2
<1>2. AddOverlay(m, label, name, hidden) =
        IF label = NoLabel THEN kept
        ELSE [InitialiseLayersControl(kept) EXCEPT !.control.overlays = @ \union {name}]
  BY DEF AddOverlay
<1> HIDE DEF b
<1>3. /\ IsBuilt(kept) /\ kept.bases = m.bases /\ kept.control = m.control
      /\ kept.clustered = m.clustered /\ kept.markers = m.markers /\ kept.overlay = TRUE
      /\ kept.shown = IF hidden THEN m.shown ELSE m.shown \union {name}
  BY <1>1, NotedFacts
<1> HIDE DEF kept
<1>4. Listed(kept) = Listed(m) /\ Seen(m) \subseteq Seen(kept)
  BY <1>3 DEF Listed, Seen
<1>5. CASE label = NoLabel
  <2>1. BasesSeen(kept)
    BY <1>3, <1>4 DEF BasesSeen, Seen
  <2>2. ~hidden => name \in Seen(kept)
    BY <1>3 DEF Seen
  <2>3. QED
    BY <1>3, <1>2, <1>4, <1>5, <2>1, <2>2 DEF Kept
<1>6. CASE label # NoLabel
  <2> DEFINE c == InitialiseLayersControl(kept)
             n == [c EXCEPT !.control.overlays = @ \union {name}]
  <2>1. /\ IsBuilt(c) /\ c.shown = kept.shown /\ c.bases = m.bases
        /\ c.clustered = m.clustered /\ c.markers = m.markers /\ Listed(kept) \subseteq Listed(c)
        /\ c.control # NoControl
        /\ m.control # NoControl => c = kept
        /\ m.control = NoControl /\ Cardinality(m.bases) > 1 => m.bases \subseteq Listed(c)
    BY <1>3, InitialiseControlFacts
  <2> HIDE DEF c
  <2>2. c.control = [bases |-> c.control.bases, overlays |-> c.control.overlays]
    BY <2>1 DEF IsBuilt
  <2>3. n.control = [bases |-> c.control.bases, overlays |-> c.control.overlays \union {name}]
    BY <2>1, <2>2 DEF IsBuilt
  <2>4. n.control # NoControl
    BY <2>3, SwitcherIsControl
  <2>5. IsBuilt(n) /\ n.bases = m.bases /\ n.shown = kept.shown
        /\ n.clustered = m.clustered /\ n.markers = m.markers
    <3>1. n.bases = c.bases /\ n.shown = c.shown /\ n.clustered = c.clustered
          /\ n.markers = c.markers /\ n.overlay = c.overlay /\ n.points = c.points
      BY <2>1 DEF IsBuilt
    <3>2. n = [bases |-> n.bases, overlay |-> n.overlay, control |-> n.control,
               shown |-> n.shown, clustered |-> n.clustered,
               markers |-> n.markers, points |-> n.points]
      BY <2>1 DEF IsBuilt
    <3> HIDE DEF n
    <3>3. IsBuilt(n)
      BY <2>1, <2>3, <3>1, <3>2 DEF IsBuilt
    <3>4. QED
      BY <2>1, <3>1, <3>3
  <2>6. n.control.bases = c.control.bases /\ n.control.overlays = c.control.overlays \union {name}
    BY <2>3
  <2> HIDE DEF n
  <2>7. Listed(n) = Listed(c) \union {name}
    BY <2>1, <2>4, <2>6 DEF Listed
  <2>8. Seen(m) \subseteq Seen(n)
    BY <1>4, <2>1, <2>5, <2>7 DEF Seen
  <2>9. m.bases \subseteq Seen(n)
    <3>1. CASE m.control # NoControl
      BY <2>8, <3>1 DEF BasesSeen
    <3>2. CASE m.control = NoControl /\ Cardinality(m.bases) > 1
      BY <2>1, <2>7, <3>2 DEF Seen
    <3>3. CASE m.control = NoControl /\ ~(Cardinality(m.bases) > 1)
      BY <2>8, <3>3 DEF BasesSeen, Seen
    <3>4. QED
      BY <3>1, <3>2, <3>3
  <2>10. BasesSeen(n)
    BY <2>4, <2>5, <2>9 DEF BasesSeen
  <2>11. name \in Seen(n)
    BY <2>7 DEF Seen
  <2>12. QED
    BY <1>2, <1>6, <2>4, <2>5, <2>8, <2>10, <2>11 DEF Kept, n, c
<1>7. QED
  BY <1>5, <1>6

-----------------------------------------------------------------------------
(* The loops over layers and features                                      *)

PartsOp(e, m, f) == AddToMap(m, f)
MembersOp(e, m, f) == CreateFeature(m, f)
JoiningOp(e, m, f) == AddMember(m, f)
LayersOp(e, m, l) == AddLayer(m, l)
PlainOp(e, m, entry) == AddPlain(m, entry)
ClusteredOp(e, m, entry) == AddClustered(m, entry)

(* A feature adds its marker and extends the bounds.                       *)
SameLayers(m, n) ==
    /\ IsBuilt(n) /\ n.bases = m.bases /\ n.overlay = m.overlay
    /\ n.control = m.control /\ n.shown = m.shown
Alike(e, n, m) == SameLayers(e, m) /\ m.clustered = e.clustered
Joined(e, n, m) == SameLayers(e, m) /\ m.clustered \subseteq Joining

LayersDone(e, n, m) ==
    /\ IsBuilt(m) /\ BasesSeen(m) /\ m.clustered = {} /\ m.markers = << >>
    /\ n > 0 => m.control # NoControl \/ m.bases # {}
    /\ \A i \in 1 .. n : definition.layers[i].overlay => definition.layers[i].key \in Seen(m)

Sound(m) ==
    IsBuilt(m) /\ BasesSeen(m) /\ LayersSeen(m) /\ m.clustered \subseteq Joining
SoundStill(e, n, m) == Sound(m)
PlainDone(e, n, m) ==
    Sound(m) /\ \A i \in 1 .. n : EntrySeen(m, definition.features[i])
ClusteredDone(e, n, m) ==
    Sound(m) /\ \A i \in 1 .. n : definition.features[i].group =>
                                      EntrySeen(m, definition.features[i])

Parts == INSTANCE FoldTheorems WITH Op <- PartsOp, Inv <- Alike
Singles == INSTANCE FoldTheorems WITH Op <- MembersOp, Inv <- Alike
Joins == INSTANCE FoldTheorems WITH Op <- JoiningOp, Inv <- Joined
Layers == INSTANCE FoldTheorems WITH Op <- LayersOp, Inv <- LayersDone
Plain == INSTANCE FoldTheorems WITH Op <- PlainOp, Inv <- PlainDone
Clusters == INSTANCE FoldTheorems WITH Op <- ClusteredOp, Inv <- ClusteredDone
PlainUntil == INSTANCE FoldTheorems WITH Op <- PlainOp, Inv <- SoundStill
ClustersUntil == INSTANCE FoldTheorems WITH Op <- ClusteredOp, Inv <- SoundStill

LEMMA AddToMapFacts ==
    ASSUME NEW m, IsBuilt(m), NEW f
    PROVE  LET n == AddToMap(m, f)
           IN  SameLayers(m, n) /\ n.clustered = m.clustered
<1> DEFINE x == ExtendMapBounds(m, f)
<1>1. SameLayers(m, x) /\ x.clustered = m.clustered
  BY DEF ExtendMapBounds, SameLayers, IsBuilt
<1> HIDE DEF x
<1>2. ASSUME NEW value
      PROVE  LET n == [x EXCEPT !.markers = value]
             IN  SameLayers(x, n) /\ n.clustered = x.clustered
  BY <1>1 DEF SameLayers, IsBuilt
<1>3. AddToMap(m, f) = PushMarker(x, f)
  BY DEF AddToMap, x
<1>4. \/ PushMarker(x, f) = x
      \/ \E value : PushMarker(x, f) = [x EXCEPT !.markers = value]
  BY DEF PushMarker
<1>5. QED
  BY <1>1, <1>2, <1>3, <1>4 DEF SameLayers

LEMMA CreateFeatureFacts ==
    ASSUME NEW m, IsBuilt(m), NEW f, WellFormed(f)
    PROVE  LET n == CreateFeature(m, f)
           IN  SameLayers(m, n) /\ n.clustered = m.clustered
<1> DEFINE parts == Components(f)
<1>1. parts \in Seq(ToSet(parts))
  <2>1. DOMAIN f.parts = 1 .. Len(f.parts) /\ Len(f.parts) \in Nat
    BY DEF WellFormed, IsList
  <2>2. DOMAIN parts = 1 .. Len(f.parts) /\ parts = [i \in 1 .. Len(f.parts) |-> parts[i]]
    BY <2>1 DEF Components
  <2>3. \A i \in 1 .. Len(f.parts) : parts[i] \in ToSet(parts)
    BY <2>2 DEF ToSet
  <2> HIDE DEF parts
  <2>4. QED
    BY <2>1, <2>2, <2>3
<1> HIDE DEF parts
<1>2. Alike(m, 0, m)
  BY DEF Alike, SameLayers
<1>3. \A i \in 1 .. Len(parts) : \A x :
          Alike(m, i - 1, x) => Alike(m, i, PartsOp(m, x, parts[i]))
  BY AddToMapFacts DEF Alike, PartsOp, SameLayers
<1>4. Alike(m, Len(parts), Parts!Fold(m, m, parts))
  BY <1>1, <1>2, <1>3, Parts!FoldInvariant
<1>5. Parts!Fold(m, m, parts) = FoldLeft(AddToMap, m, parts)
  BY DEF Parts!Fold, Parts!FoldLeft, Parts!MapThenFoldSet, Parts!Max,
         FoldLeft, MapThenFoldSet, Max, PartsOp
<1>6. CreateFeature(m, f) = AddToMap(FoldLeft(AddToMap, m, parts), f)
  BY DEF CreateFeature, parts
<1> DEFINE created == FoldLeft(AddToMap, m, parts)
<1>7. SameLayers(m, created) /\ created.clustered = m.clustered
  BY <1>4, <1>5 DEF Alike
<1> HIDE DEF created
<1>8. SameLayers(created, AddToMap(created, f)) /\ AddToMap(created, f).clustered = created.clustered
  BY <1>7, AddToMapFacts DEF SameLayers
<1>9. QED
  BY <1>6, <1>7, <1>8 DEF SameLayers, created

LEMMA FeatureFacts ==
    ASSUME definition \in Definitions
    PROVE  /\ definition.layers \in Seq(ToSet(definition.layers))
           /\ definition.features \in Seq(Entries)
           /\ \A entry \in Entries :
                 /\ entry.members \in Seq(ToSet(entry.members)) /\ entry.disabled \in BOOLEAN
                 /\ ToSet(entry.members) \subseteq Members
           /\ \A f \in Members : WellFormed(f)
           /\ \A f, g \in Members : f.id = g.id => f = g
BY DefinitionsAssumption DEF IsList, Entries, Members

LEMMA EntryPlaces ==
    ASSUME definition \in Definitions
    PROVE  \A entry \in Entries :
              \E i \in 1 .. Len(definition.features) : definition.features[i] = entry
<1> DEFINE list == definition.features
<1>1. DOMAIN list = 1 .. Len(list)
  BY FeatureFacts
<1>2. Entries = {list[i] : i \in DOMAIN list}
  BY DEF Entries, ToSet
<1> HIDE DEF list
<1>3. \A entry \in Entries : \E i \in 1 .. Len(list) : list[i] = entry
  BY <1>1, <1>2
<1>4. QED
  BY <1>3 DEF list

(* The members of a group without clusters.                                *)
LEMMA MembersCreated ==
    ASSUME definition \in Definitions, NEW entry \in Entries, NEW m, IsBuilt(m)
    PROVE  LET n == FoldLeft(CreateFeature, m, entry.members)
           IN  SameLayers(m, n) /\ n.clustered = m.clustered
<1> DEFINE members == entry.members
<1>1. members \in Seq(ToSet(members)) /\ \A f \in ToSet(members) : WellFormed(f)
  BY FeatureFacts
<1>2. \A i \in 1 .. Len(members) : WellFormed(members[i])
  BY <1>1 DEF ToSet
<1> HIDE DEF members
<1>3. Alike(m, 0, m)
  BY DEF Alike, SameLayers
<1>4. \A i \in 1 .. Len(members) : \A x :
          Alike(m, i - 1, x) => Alike(m, i, MembersOp(m, x, members[i]))
  BY <1>2, CreateFeatureFacts DEF Alike, MembersOp, SameLayers
<1>5. Alike(m, Len(members), Singles!Fold(m, m, members))
  BY <1>1, <1>3, <1>4, Singles!FoldInvariant
<1>6. Singles!Fold(m, m, members) = FoldLeft(CreateFeature, m, members)
  BY DEF Singles!Fold, Singles!FoldLeft, Singles!MapThenFoldSet, Singles!Max,
         FoldLeft, MapThenFoldSet, Max, MembersOp
<1>7. QED
  BY <1>5, <1>6 DEF Alike, members

LEMMA AddMemberFacts ==
    ASSUME NEW f \in Members, WellFormed(f), NEW m, IsBuilt(m), m.clustered \subseteq Joining
    PROVE  SameLayers(m, AddMember(m, f)) /\ AddMember(m, f).clustered \subseteq Joining
<1> DEFINE c == CreateFeature(m, f)
           joined == IF Unclustered(f) THEN c.clustered ELSE c.clustered \union {f.id}
<1>1. SameLayers(m, c) /\ c.clustered = m.clustered
  BY CreateFeatureFacts
<1>2. joined \subseteq Joining
  BY <1>1 DEF Joining
<1>3. AddMember(m, f) = [c EXCEPT !.clustered = joined]
  BY DEF AddMember
<1> HIDE DEF c, joined
<1>4. QED
  BY <1>1, <1>2, <1>3 DEF SameLayers, IsBuilt

(* With clusters: some of the members join.                                *)
LEMMA MembersJoined ==
    ASSUME definition \in Definitions, NEW entry \in Entries, NEW m, IsBuilt(m),
           m.clustered \subseteq Joining
    PROVE  LET n == FoldLeft(AddMember, m, entry.members)
           IN  SameLayers(m, n) /\ n.clustered \subseteq Joining
<1> DEFINE members == entry.members
<1>1. members \in Seq(ToSet(members))
      /\ \A f \in ToSet(members) : WellFormed(f) /\ f \in Members
  BY FeatureFacts
<1>2. \A i \in 1 .. Len(members) : WellFormed(members[i]) /\ members[i] \in Members
  BY <1>1 DEF ToSet
<1> HIDE DEF members
<1>3. Joined(m, 0, m)
  BY DEF Joined, SameLayers
<1>4. \A i \in 1 .. Len(members) : \A x :
          Joined(m, i - 1, x) => Joined(m, i, JoiningOp(m, x, members[i]))
  BY <1>2, AddMemberFacts DEF Joined, JoiningOp, SameLayers
<1>5. Joined(m, Len(members), Joins!Fold(m, m, members))
  BY <1>1, <1>3, <1>4, Joins!FoldInvariant
<1>6. Joins!Fold(m, m, members) = FoldLeft(AddMember, m, members)
  BY DEF Joins!Fold, Joins!FoldLeft, Joins!MapThenFoldSet, Joins!Max,
         FoldLeft, MapThenFoldSet, Max, JoiningOp
<1>7. QED
  BY <1>5, <1>6 DEF Joined, members

(* The layers of the settings, the first of which is shown.                *)
LEMMA InitialiseFacts ==
    ASSUME definition \in Definitions
    PROVE  /\ IsBuilt(Initialise) /\ BasesSeen(Initialise) /\ LayersSeen(Initialise)
           /\ Initialise.clustered = {} /\ Initialise.markers = << >>
<1> DEFINE layers == definition.layers
<1>1. layers \in Seq(ToSet(layers))
  BY FeatureFacts
<1>2. \A i \in 1 .. Len(layers) : layers[i].key # NoLabel /\ layers[i].hidden \in BOOLEAN
  BY <1>1, DefinitionsAssumption DEF ToSet
<1>3. LayersDone(0, 0, Blank)
  <2>1. Cardinality({}) = 0 /\ IsFiniteSet({})
    BY FS_EmptySet
  <2>2. QED
    BY <2>1 DEF LayersDone, IsBuilt, BasesSeen, Blank, Listed, Seen
<1>4. ASSUME NEW i \in 1 .. Len(layers), NEW x, LayersDone(0, i - 1, x)
      PROVE  LayersDone(0, i, LayersOp(0, x, layers[i]))
  <2> DEFINE l == layers[i]
             first == (l = Head(layers))
  <2>1. i \in Int /\ i > 0 /\ (i - 1 > 0 \/ i = 1)
    BY <1>1
  <2>2. CASE l.overlay
    <3>1. LayersOp(0, x, l) = AddOverlay(x, l.key, l.key, l.hidden)
      BY <2>2 DEF LayersOp, AddLayer
    <3>2. l.key # NoLabel /\ l.hidden \in BOOLEAN
      BY <1>2
    <3> DEFINE n == AddOverlay(x, l.key, l.key, l.hidden)
    <3>3. Kept(x, n) /\ n.control # NoControl /\ l.key \in Seen(n)
      BY <1>4, <3>2, AddOverlayFacts DEF LayersDone
    <3>4. LayersOp(0, x, layers[i]) = n
      BY <3>1
    <3> HIDE DEF n
    <3>5. \A j \in 1 .. i : j = i \/ j \in 1 .. i - 1
      OBVIOUS
    <3>6. LayersDone(0, i, n)
      BY <1>4, <3>3, <3>5 DEF LayersDone, Kept
    <3>7. QED
      BY <3>4, <3>6
  <2>3. CASE ~l.overlay
    <3>1. LayersOp(0, x, l) = AddBaseLayer(x, l.key, first)
      BY <2>3 DEF LayersOp, AddLayer
    <3>2. i = 1 => first
      BY <1>1
    <3>3. first \in BOOLEAN
      OBVIOUS
    <3> HIDE DEF l, first
    <3>4. first \/ x.control # NoControl \/ x.bases # {}
      BY <1>4, <2>1, <3>2 DEF LayersDone
    <3> DEFINE n == AddBaseLayer(x, l.key, first)
    <3>5. /\ IsBuilt(n) /\ BasesSeen(n) /\ n.bases # {} /\ Seen(x) \subseteq Seen(n)
          /\ n.clustered = x.clustered /\ n.markers = x.markers
      BY <1>4, <3>3, <3>4, AddBaseLayerFacts DEF LayersDone
    <3>6. LayersOp(0, x, layers[i]) = n
      BY <3>1 DEF l
    <3> HIDE DEF n
    <3>7. \A j \in 1 .. i : j \in 1 .. i - 1 \/ (j = i /\ ~layers[j].overlay)
      BY <2>3 DEF l
    <3>8. LayersDone(0, i, n)
      BY <1>4, <3>5, <3>7 DEF LayersDone
    <3>9. QED
      BY <3>6, <3>8
  <2>4. QED
    BY <2>2, <2>3
<1> HIDE DEF layers
<1>5. LayersDone(0, Len(layers), Layers!Fold(0, Blank, layers))
  BY <1>1, <1>3, <1>4, Layers!FoldInvariant
<1>6. Layers!Fold(0, Blank, layers) = FoldLeft(AddLayer, Blank, layers)
  BY DEF Layers!Fold, Layers!FoldLeft, Layers!MapThenFoldSet, Layers!Max,
         FoldLeft, MapThenFoldSet, Max, LayersOp
<1>7. Initialise = FoldLeft(AddLayer, Blank, layers)
  BY DEF Initialise, layers
<1>8. ASSUME NEW m, LayersDone(0, Len(layers), m)
      PROVE  LayersSeen(m)
  BY <1>1, <1>8 DEF LayersDone, LayersSeen, ToSet, layers
<1>9. QED
  BY <1>5, <1>6, <1>7, <1>8 DEF LayersDone

(* What has been built stays, and what is added can be seen.               *)
LEMMA AddPlainFacts ==
    ASSUME definition \in Definitions, NEW entry \in Entries, NEW m, Sound(m)
    PROVE  LET n == AddPlain(m, entry)
           IN  Sound(n) /\ Seen(m) \subseteq Seen(n) /\ EntrySeen(n, entry)
<1> DEFINE c == FoldLeft(CreateFeature, m, entry.members)
<1>1. SameLayers(m, c) /\ c.clustered = m.clustered
  BY MembersCreated DEF Sound
<1>2. AddPlain(m, entry) = IF entry.group
                           THEN AddOverlay(c, entry.label, entry.name, entry.disabled)
                           ELSE Show(c, entry.name)
  BY DEF AddPlain
<1> HIDE DEF c
<1>3. IsBuilt(c) /\ BasesSeen(c) /\ c.clustered \subseteq Joining /\ Seen(c) = Seen(m)
      /\ LayersSeen(c)
  BY <1>1 DEF Sound, SameLayers, BasesSeen, Seen, Listed, LayersSeen
<1>4. CASE entry.group
  BY <1>2, <1>3, <1>4, FeatureFacts, AddOverlayFacts DEF Kept, Sound, EntrySeen, LayersSeen
<1>5. CASE ~entry.group
  <2> DEFINE n == Show(c, entry.name)
  <2>1. /\ IsBuilt(n) /\ n.bases = c.bases /\ n.control = c.control
        /\ n.clustered = c.clustered /\ n.shown = c.shown \union {entry.name}
    BY <1>3, ShowFacts
  <2> HIDE DEF n
  <2>2. BasesSeen(n) /\ Seen(c) \subseteq Seen(n) /\ entry.name \in Seen(n)
    BY <1>3, <2>1 DEF BasesSeen, Seen, Listed
  <2>3. QED
    BY <1>2, <1>3, <1>5, <2>1, <2>2 DEF Sound, EntrySeen, LayersSeen, n
<1>6. QED
  BY <1>4, <1>5

LEMMA AddClusteredFacts ==
    ASSUME definition \in Definitions, NEW entry \in Entries, NEW m, Sound(m)
    PROVE  LET n == AddClustered(m, entry)
           IN  Sound(n) /\ Seen(m) \subseteq Seen(n) /\ (entry.group => EntrySeen(n, entry))
<1> DEFINE c == FoldLeft(AddMember, m, entry.members)
<1>1. SameLayers(m, c) /\ c.clustered \subseteq Joining
  BY MembersJoined DEF Sound
<1>2. AddClustered(m, entry) = IF entry.group /\ entry.members # << >>
                               THEN AddOverlay(c, entry.label, entry.name, entry.disabled)
                               ELSE c
  BY DEF AddClustered
<1> HIDE DEF c
<1>3. Sound(c) /\ Seen(c) = Seen(m)
  BY <1>1 DEF Sound, SameLayers, BasesSeen, Seen, Listed, LayersSeen
<1>4. CASE entry.group /\ entry.members # << >>
  BY <1>2, <1>3, <1>4, FeatureFacts, AddOverlayFacts
     DEF Kept, Sound, EntrySeen, LayersSeen
<1>5. CASE ~(entry.group /\ entry.members # << >>)
  BY <1>2, <1>3, <1>5 DEF EntrySeen
<1>6. QED
  BY <1>4, <1>5

LEMMA PlainFacts ==
    ASSUME definition \in Definitions, NEW m, Sound(m)
    PROVE  LET n == FoldLeft(AddPlain, m, definition.features)
           IN  Sound(n) /\ \A entry \in Entries : EntrySeen(n, entry)
<1> DEFINE list == definition.features
<1>1. list \in Seq(Entries) /\ \A i \in 1 .. Len(list) : list[i] \in Entries
  BY FeatureFacts
<1>2. \A entry \in Entries : \E i \in 1 .. Len(list) : list[i] = entry
  BY EntryPlaces
<1>3. PlainDone(0, 0, m)
  BY DEF PlainDone
<1>4. ASSUME NEW i \in 1 .. Len(list), NEW x, PlainDone(0, i - 1, x)
      PROVE  PlainDone(0, i, PlainOp(0, x, list[i]))
  <2> DEFINE n == AddPlain(x, list[i])
  <2>1. Sound(n) /\ Seen(x) \subseteq Seen(n) /\ EntrySeen(n, list[i])
    BY <1>1, <1>4, AddPlainFacts DEF PlainDone
  <2> HIDE DEF n
  <2>2. ASSUME NEW j \in 1 .. i
        PROVE  EntrySeen(n, list[j])
    <3>1. j = i \/ j \in 1 .. i - 1
      OBVIOUS
    <3>2. CASE j \in 1 .. i - 1
      BY <1>4, <2>1, <3>2 DEF PlainDone, EntrySeen
    <3>3. QED
      BY <2>1, <3>1, <3>2
  <2>3. QED
    BY <2>1, <2>2 DEF PlainDone, PlainOp, n
<1>5. PlainDone(0, Len(list), Plain!Fold(0, m, list))
  BY <1>1, <1>3, <1>4, Plain!FoldInvariant
<1>6. Plain!Fold(0, m, list) = FoldLeft(AddPlain, m, list)
  BY DEF Plain!Fold, Plain!FoldLeft, Plain!MapThenFoldSet, Plain!Max,
         FoldLeft, MapThenFoldSet, Max, PlainOp
<1>7. QED
  BY <1>2, <1>5, <1>6 DEF PlainDone

LEMMA ClusteredFacts ==
    ASSUME definition \in Definitions, NEW m, Sound(m)
    PROVE  LET n == FoldLeft(AddClustered, m, definition.features)
           IN  Sound(n) /\ \A entry \in Entries : entry.group => EntrySeen(n, entry)
<1> DEFINE list == definition.features
<1>1. list \in Seq(Entries) /\ \A i \in 1 .. Len(list) : list[i] \in Entries
  BY FeatureFacts
<1>2. \A entry \in Entries : \E i \in 1 .. Len(list) : list[i] = entry
  BY EntryPlaces
<1>3. ClusteredDone(0, 0, m)
  BY DEF ClusteredDone
<1>4. ASSUME NEW i \in 1 .. Len(list), NEW x, ClusteredDone(0, i - 1, x)
      PROVE  ClusteredDone(0, i, ClusteredOp(0, x, list[i]))
  <2> DEFINE n == AddClustered(x, list[i])
  <2>1. Sound(n) /\ Seen(x) \subseteq Seen(n) /\ (list[i].group => EntrySeen(n, list[i]))
    BY <1>1, <1>4, AddClusteredFacts DEF ClusteredDone
  <2> HIDE DEF n
  <2>2. ASSUME NEW j \in 1 .. i, list[j].group
        PROVE  EntrySeen(n, list[j])
    <3>1. j = i \/ j \in 1 .. i - 1
      OBVIOUS
    <3>2. CASE j \in 1 .. i - 1
      BY <1>4, <2>1, <2>2, <3>2 DEF ClusteredDone, EntrySeen
    <3>3. QED
      BY <2>1, <2>2, <3>1, <3>2
  <2>3. QED
    BY <2>1, <2>2 DEF ClusteredDone, ClusteredOp, n
<1>5. ClusteredDone(0, Len(list), Clusters!Fold(0, m, list))
  BY <1>1, <1>3, <1>4, Clusters!FoldInvariant
<1>6. Clusters!Fold(0, m, list) = FoldLeft(AddClustered, m, list)
  BY DEF Clusters!Fold, Clusters!FoldLeft, Clusters!MapThenFoldSet, Clusters!Max,
         FoldLeft, MapThenFoldSet, Max, ClusteredOp
<1>7. QED
  BY <1>2, <1>5, <1>6 DEF ClusteredDone

(* The finished map.                                                       *)
LEMMA BuiltFacts ==
    ASSUME definition \in Definitions
    PROVE  LET n == AddFeatures(Initialise)
           IN  Sound(n) /\ \A entry \in Entries : EntrySeen(n, entry)
<1> DEFINE m == Initialise
           added == FoldLeft(AddClustered, m, definition.features)
           single == {entry.name : entry \in {x \in Entries : ~x.group}}
           marked == [added EXCEPT !.shown = @ \union single, !.overlay = TRUE]
<1>1. Sound(m)
  BY InitialiseFacts DEF Sound
<1>2. AddFeatures(m) = IF definition.features = << >> THEN m
                       ELSE IF definition.clusterLibrary THEN marked
                       ELSE FoldLeft(AddPlain, m, definition.features)
  BY DEF AddFeatures, AddEntries
<1> HIDE DEF m
<1>3. CASE definition.features = << >>
  <2>1. Entries = {}
    BY <1>3 DEF Entries, ToSet
  <2>2. QED
    BY <1>1, <1>2, <1>3, <2>1 DEF m
<1>4. CASE definition.features # << >> /\ definition.clusterLibrary
  <2>1. Sound(added) /\ \A entry \in Entries : entry.group => EntrySeen(added, entry)
    BY <1>1, ClusteredFacts
  <2>2. AddFeatures(m) = marked
    BY <1>2, <1>4
  <2> HIDE DEF added, single
  <2> DEFINE wider == [added EXCEPT !.shown = @ \union single]
             noted == [wider EXCEPT !.overlay = TRUE]
  <2>3. marked = noted
    OBVIOUS
  <2>4. /\ IsBuilt(wider) /\ wider.shown = added.shown \union single
        /\ wider.bases = added.bases /\ wider.control = added.control
        /\ wider.clustered = added.clustered
    BY <2>1, WiderFacts DEF Sound
  <2> HIDE DEF wider, marked
  <2>5. /\ IsBuilt(noted) /\ noted.shown = wider.shown
        /\ noted.bases = wider.bases /\ noted.control = wider.control
        /\ noted.clustered = wider.clustered
    BY <2>4, NotedFacts
  <2> HIDE DEF noted
  <2>6. Sound(marked) /\ Seen(added) \subseteq Seen(marked) /\ single \subseteq Seen(marked)
    BY <2>1, <2>3, <2>4, <2>5 DEF Sound, BasesSeen, Seen, Listed, LayersSeen
  <2>7. ASSUME NEW entry \in Entries
        PROVE  EntrySeen(marked, entry)
    <3>1. CASE entry.group
      BY <2>1, <2>6, <3>1 DEF EntrySeen
    <3>2. CASE ~entry.group
      BY <2>6, <3>2 DEF EntrySeen, single
    <3>3. QED
      BY <3>1, <3>2
  <2>8. QED
    BY <2>2, <2>6, <2>7 DEF m
<1>5. CASE definition.features # << >> /\ ~definition.clusterLibrary
  BY <1>1, <1>2, <1>5, PlainFacts DEF m
<1>6. QED
  BY <1>3, <1>4, <1>5

(* What stands when loadMap() fails.                                       *)
LEMMA UntilFacts ==
    ASSUME definition \in Definitions, NEW n \in DOMAIN definition.features
    PROVE  Sound(AddEntries(Initialise, SubSeq(definition.features, 1, n - 1)))
<1> DEFINE m == Initialise
           list == SubSeq(definition.features, 1, n - 1)
<1>1. Sound(m)
  BY InitialiseFacts DEF Sound
<1>2. list \in Seq(Entries)
  <2>1. definition.features \in Seq(Entries) /\ n \in 1 .. Len(definition.features)
    BY FeatureFacts
  <2>2. QED
    BY <2>1
<1> HIDE DEF m, list
<1>3. \A i \in 1 .. Len(list) : list[i] \in Entries
  BY <1>2
<1>4. Sound(FoldLeft(AddPlain, m, list))
  <2>1. SoundStill(0, 0, m)
    BY <1>1 DEF SoundStill
  <2>2. \A i \in 1 .. Len(list) : \A x :
           SoundStill(0, i - 1, x) => SoundStill(0, i, PlainOp(0, x, list[i]))
    BY <1>3, AddPlainFacts DEF SoundStill, PlainOp
  <2>3. SoundStill(0, Len(list), PlainUntil!Fold(0, m, list))
    BY <1>2, <2>1, <2>2, PlainUntil!FoldInvariant
  <2>4. PlainUntil!Fold(0, m, list) = FoldLeft(AddPlain, m, list)
    BY DEF PlainUntil!Fold, PlainUntil!FoldLeft, PlainUntil!MapThenFoldSet,
           PlainUntil!Max, FoldLeft, MapThenFoldSet, Max, PlainOp
  <2>5. QED
    BY <2>3, <2>4 DEF SoundStill
<1>5. Sound(FoldLeft(AddClustered, m, list))
  <2>1. SoundStill(0, 0, m)
    BY <1>1 DEF SoundStill
  <2>2. \A i \in 1 .. Len(list) : \A x :
           SoundStill(0, i - 1, x) => SoundStill(0, i, ClusteredOp(0, x, list[i]))
    BY <1>3, AddClusteredFacts DEF SoundStill, ClusteredOp
  <2>3. SoundStill(0, Len(list), ClustersUntil!Fold(0, m, list))
    BY <1>2, <2>1, <2>2, ClustersUntil!FoldInvariant
  <2>4. ClustersUntil!Fold(0, m, list) = FoldLeft(AddClustered, m, list)
    BY DEF ClustersUntil!Fold, ClustersUntil!FoldLeft, ClustersUntil!MapThenFoldSet,
           ClustersUntil!Max, FoldLeft, MapThenFoldSet, Max, ClusteredOp
  <2>5. QED
    BY <2>3, <2>4 DEF SoundStill
<1>6. QED
  BY <1>4, <1>5 DEF AddEntries, m, list

-----------------------------------------------------------------------------
(* Markers                                                                 *)
(*                                                                         *)
(* With several values the markers only grow: the first free number of an  *)
(* entity exists, because the markers are finitely many.  With a single    *)
(* value a marker gives way only to a later feature of its entity.         *)

(* The first number that is free is one.                                   *)
LEMMA FreeKey ==
    ASSUME NEW keys, IsFiniteSet(keys), NEW e
    PROVE  LET free == CHOOSE i \in 0 .. Cardinality(keys) :
                           <<e, i>> \notin keys /\ \A j \in 0 .. i - 1 : <<e, j>> \in keys
           IN  <<e, free>> \notin keys
<1> DEFINE N == 0 .. Cardinality(keys)
           T == {i \in Nat : i \in N /\ \E j \in 0 .. i : <<e, j>> \notin keys}
           First(i) == <<e, i>> \notin keys /\ \A j \in 0 .. i - 1 : <<e, j>> \in keys
<1>1. Cardinality(keys) \in Nat
  BY FS_CardinalityType
<1>2. \E i \in N : <<e, i>> \notin keys
  <2> SUFFICES ASSUME \A i \in N : <<e, i>> \in keys
               PROVE  FALSE
    OBVIOUS
  <2> DEFINE g == [i \in N |-> <<e, i>>]
  <2>1. g \in [N -> keys]
    OBVIOUS
  <2>2. IsFiniteSet(N) /\ Cardinality(N) = Cardinality(keys) + 1
    BY <1>1, FS_Interval
  <2>3. Cardinality(keys) < Cardinality(N)
    BY <1>1, <2>2
  <2> HIDE DEF N
  <2>4. PICK x, y \in N : x # y /\ g[x] = g[y]
    <3> HIDE DEF g
    <3> QED BY <2>1, <2>2, <2>3, FS_PigeonHole
  <2>5. QED
    BY <2>4
<1>3. \E i \in N : First(i)
  <2> SUFFICES ASSUME \A i \in N : ~First(i)
               PROVE  FALSE
    OBVIOUS
  <2>1. 0 \notin T
    <3>1. 0 \in N /\ ~First(0) /\ 0 .. 0 - 1 = {}
      BY <1>1
    <3>2. <<e, 0>> \in keys
      BY <3>1
    <3>3. \A j \in 0 .. 0 : j = 0
      OBVIOUS
    <3>4. QED
      BY <3>2, <3>3
  <2>2. ASSUME NEW n \in Nat, n + 1 \in T
        PROVE  n \in T
    <3>1. n + 1 \in N /\ n \in N /\ ~First(n + 1) /\ n + 1 - 1 = n
      BY <1>1, <2>2
    <3>2. CASE \E j \in 0 .. n : <<e, j>> \notin keys
      BY <1>1, <3>1, <3>2
    <3>3. CASE \A j \in 0 .. n : <<e, j>> \in keys
      <4>1. <<e, n + 1>> \in keys
        BY <3>1, <3>3
      <4>2. PICK j \in 0 .. n + 1 : <<e, j>> \notin keys
        BY <2>2
      <4>3. j = n + 1 \/ j \in 0 .. n
        BY <4>2
      <4>4. QED
        BY <3>3, <4>1, <4>2, <4>3
    <3>4. QED
      BY <3>2, <3>3
  <2>3. T \in SUBSET Nat
    OBVIOUS
  <2>4. T = {}
    <3> HIDE DEF T
    <3> QED BY <2>1, <2>2, <2>3, Parts!NoLeastElement
  <2>5. PICK i \in N : <<e, i>> \notin keys
    BY <1>2
  <2>6. i \in T
    BY <1>1, <2>5
  <2>7. QED
    BY <2>4, <2>6
<1>4. QED
  BY <1>3

(* What a map with many values, or with one, keeps of its markers.         *)
Holds(m, f) ==
    IF definition.multiple THEN f.id \in Range(m.markers)
    ELSE <<f.entity>> \in DOMAIN m.markers /\ m.markers[<<f.entity>>] = f.id
HoldsAll(m, f) ==
    /\ Holds(m, f)
    /\ definition.multiple => {p.id : p \in ToSet(f.parts)} \subseteq Range(m.markers)

(* From m to n only markers of the entities E change.                      *)
Untouched(m, n, E) ==
    /\ IsBuilt(n) /\ IsFiniteSet(DOMAIN n.markers)
    /\ definition.multiple => Range(m.markers) \subseteq Range(n.markers)
    /\ ~definition.multiple =>
          \A e : e \in E \/ <<e>> \notin DOMAIN m.markers
                 \/ (<<e>> \in DOMAIN n.markers /\ n.markers[<<e>>] = m.markers[<<e>>])

Marked(m) == IsBuilt(m) /\ IsFiniteSet(DOMAIN m.markers)

LEMMA UntouchedTwice ==
    ASSUME NEW a, NEW b, NEW c, NEW E, NEW F, Untouched(a, b, E), Untouched(b, c, F)
    PROVE  Untouched(a, c, E \union F)
<1>1. CASE definition.multiple
  BY <1>1 DEF Untouched
<1>2. CASE ~definition.multiple
  BY <1>2 DEF Untouched
<1>3. QED
  BY <1>1, <1>2

LEMMA HoldsStill ==
    ASSUME NEW m, NEW n, NEW E, Untouched(m, n, E), NEW f, HoldsAll(m, f),
           f.entity \notin E \/ definition.multiple
    PROVE  HoldsAll(n, f)
<1>1. CASE definition.multiple
  BY <1>1 DEF Untouched, HoldsAll, Holds
<1>2. CASE ~definition.multiple
  BY <1>2 DEF Untouched, HoldsAll, Holds
<1>3. QED
  BY <1>1, <1>2

LEMMA AddToMapKeeps ==
    ASSUME NEW m, Marked(m), NEW f
    PROVE  LET n == AddToMap(m, f)
           IN  Untouched(m, n, {f.entity}) /\ (f.entity # NoEntity => Holds(n, f))
<1> DEFINE x == ExtendMapBounds(m, f)
<1>1. IsBuilt(x) /\ x.markers = m.markers
  BY DEF ExtendMapBounds, IsBuilt, Marked
<1> HIDE DEF x
<1>2. AddToMap(m, f) = PushMarker(x, f)
  BY DEF AddToMap, x
<1> DEFINE free == CHOOSE i \in 0 .. Cardinality(DOMAIN x.markers) :
                       <<f.entity, i>> \notin DOMAIN x.markers
                       /\ \A j \in 0 .. i - 1 : <<f.entity, j>> \in DOMAIN x.markers
           key == IF definition.multiple THEN <<f.entity, free>> ELSE <<f.entity>>
           kept == Keep(x.markers, key, f.id)
           n == [x EXCEPT !.markers = kept]
<1>3. PushMarker(x, f) = IF f.entity = NoEntity THEN x ELSE n
  BY DEF PushMarker
<1>4. IsFiniteSet(DOMAIN m.markers)
  BY DEF Marked
<1>5. CASE f.entity = NoEntity
  BY <1>1, <1>2, <1>3, <1>4, <1>5 DEF Untouched
<1>6. CASE f.entity # NoEntity
  <2>1. <<f.entity, free>> \notin DOMAIN x.markers
    BY <1>1, <1>4, FreeKey
  <2> HIDE DEF free
  <2>2. definition.multiple => key \notin DOMAIN m.markers
    BY <1>1, <2>1
  <2>3. ~definition.multiple => key = <<f.entity>>
    OBVIOUS
  <2> HIDE DEF key
  <2>4. /\ DOMAIN kept = DOMAIN m.markers \union {key} /\ kept[key] = f.id
        /\ f.id \in Range(kept)
        /\ key \notin DOMAIN m.markers => Range(m.markers) \subseteq Range(kept)
        /\ \A k \in DOMAIN m.markers : k # key => kept[k] = m.markers[k]
    <3>1. kept = Keep(m.markers, key, f.id)
      BY <1>1
    <3> HIDE DEF kept
    <3>2. QED
      BY <3>1 DEF Keep, Range
  <2> HIDE DEF kept
  <2>5. IsBuilt(n) /\ n.markers = kept
    BY <1>1 DEF IsBuilt
  <2>6. IsFiniteSet(DOMAIN kept)
    BY <1>4, <2>4, FS_AddElement
  <2>7. AddToMap(m, f) = n
    BY <1>2, <1>3, <1>6
  <2> HIDE DEF n
  <2>8. CASE definition.multiple
    <3>1. Untouched(m, n, {f.entity})
      BY <2>2, <2>4, <2>5, <2>6, <2>8 DEF Untouched
    <3>2. Holds(n, f)
      BY <2>4, <2>5, <2>8 DEF Holds
    <3>3. QED
      BY <2>7, <3>1, <3>2
  <2>9. CASE ~definition.multiple
    <3>1. ASSUME NEW e, e # f.entity, <<e>> \in DOMAIN m.markers
          PROVE  <<e>> \in DOMAIN kept /\ kept[<<e>>] = m.markers[<<e>>]
      BY <2>3, <2>4, <2>9, <3>1
    <3>2. QED
      BY <2>3, <2>4, <2>5, <2>6, <2>7, <2>9, <3>1 DEF Untouched, Holds
  <2>10. QED
    BY <2>8, <2>9
<1>7. QED
  BY <1>5, <1>6

(* The loops once more, with what they keep of the markers; a context has  *)
(* the map before the loop, the list and, for parts, their entity.         *)
PartsKeep(c, n, m) ==
    /\ Untouched(c.from, m, {c.entity})
    /\ definition.multiple /\ c.entity # NoEntity =>
          \A i \in 1 .. n : c.list[i].id \in Range(m.markers)
MembersKeep(c, n, m) ==
    /\ Untouched(c.from, m, {c.list[i].entity : i \in 1 .. n})
    /\ \A j \in 1 .. n : c.list[j].entity # NoEntity =>
          \/ HoldsAll(m, c.list[j])
          \/ ~definition.multiple
             /\ \E k \in j + 1 .. n : c.list[k].entity = c.list[j].entity

KeptParts == INSTANCE FoldTheorems WITH Op <- PartsOp, Inv <- PartsKeep
KeptSingles == INSTANCE FoldTheorems WITH Op <- MembersOp, Inv <- MembersKeep
KeptJoins == INSTANCE FoldTheorems WITH Op <- JoiningOp, Inv <- MembersKeep

LEMMA NothingTouched ==
    ASSUME NEW m, Marked(m), NEW E
    PROVE  Untouched(m, m, E)
BY DEF Untouched, Marked

LEMMA UntouchedWider ==
    ASSUME NEW m, NEW n, NEW E, NEW F, Untouched(m, n, E), E \subseteq F
    PROVE  Untouched(m, n, F)
<1>1. CASE definition.multiple
  BY <1>1 DEF Untouched
<1>2. CASE ~definition.multiple
  BY <1>2 DEF Untouched
<1>3. QED
  BY <1>1, <1>2

(* A feature keeps its own marker and those of its parts.                  *)
LEMMA CreateFeatureKeeps ==
    ASSUME NEW m, Marked(m), NEW f, WellFormed(f)
    PROVE  LET n == CreateFeature(m, f)
           IN  Untouched(m, n, {f.entity}) /\ (f.entity # NoEntity => HoldsAll(n, f))
<1> DEFINE parts == Components(f)
           c == [from |-> m, list |-> parts, entity |-> f.entity]
<1>1. /\ parts \in Seq(ToSet(parts)) /\ Len(parts) = Len(f.parts)
      /\ f.parts \in Seq(ToSet(f.parts))
      /\ \A i \in 1 .. Len(parts) : parts[i].entity = f.entity /\ parts[i].id = f.parts[i].id
  <2>1. DOMAIN f.parts = 1 .. Len(f.parts) /\ Len(f.parts) \in Nat
    BY DEF WellFormed, IsList
  <2>2. DOMAIN parts = 1 .. Len(f.parts) /\ parts = [i \in 1 .. Len(f.parts) |-> parts[i]]
    BY <2>1 DEF Components
  <2>3. \A i \in 1 .. Len(f.parts) : parts[i] \in ToSet(parts)
    BY <2>2 DEF ToSet
  <2>4. ASSUME NEW i \in 1 .. Len(f.parts)
        PROVE  parts[i].entity = f.entity /\ parts[i].id = f.parts[i].id
    BY <2>1 DEF WellFormed, Components
  <2>5. f.parts \in Seq(ToSet(f.parts))
    BY DEF WellFormed, IsList
  <2> HIDE DEF parts
  <2>6. parts \in Seq(ToSet(parts)) /\ Len(parts) = Len(f.parts)
    BY <2>1, <2>2, <2>3
  <2>7. QED
    BY <2>4, <2>5, <2>6
<1> HIDE DEF parts
<1>2. PartsKeep(c, 0, m)
  BY NothingTouched DEF PartsKeep
<1>3. ASSUME NEW i \in 1 .. Len(parts), NEW x, PartsKeep(c, i - 1, x)
      PROVE  PartsKeep(c, i, PartsOp(c, x, parts[i]))
  <2> DEFINE y == AddToMap(x, parts[i])
  <2>1. Untouched(m, x, {f.entity}) /\ Marked(x)
    BY <1>3 DEF PartsKeep, Untouched, Marked
  <2>2. Untouched(x, y, {f.entity}) /\ (f.entity # NoEntity => Holds(y, parts[i]))
    BY <1>1, <2>1, AddToMapKeeps
  <2> HIDE DEF y
  <2>3. Untouched(m, y, {f.entity})
    BY <2>1, <2>2, UntouchedTwice, UntouchedWider
  <2>4. ASSUME definition.multiple, f.entity # NoEntity, NEW j \in 1 .. i
        PROVE  parts[j].id \in Range(y.markers)
    <3>1. j = i \/ j \in 1 .. i - 1
      BY <1>1
    <3>2. CASE j = i
      BY <2>2, <2>4, <3>2 DEF Holds
    <3>3. CASE j \in 1 .. i - 1
      BY <1>3, <2>2, <2>4, <3>3 DEF PartsKeep, Untouched
    <3>4. QED
      BY <3>1, <3>2, <3>3
  <2>5. QED
    BY <2>3, <2>4 DEF PartsKeep, PartsOp, y
<1>4. PartsKeep(c, Len(parts), KeptParts!Fold(c, m, parts))
  <2> HIDE DEF c
  <2>1. QED
    BY <1>1, <1>2, <1>3, KeptParts!FoldInvariant
<1>5. KeptParts!Fold(c, m, parts) = FoldLeft(AddToMap, m, parts)
  BY DEF KeptParts!Fold, KeptParts!FoldLeft, KeptParts!MapThenFoldSet, KeptParts!Max,
         FoldLeft, MapThenFoldSet, Max, PartsOp
<1>6. CreateFeature(m, f) = AddToMap(FoldLeft(AddToMap, m, parts), f)
  BY DEF CreateFeature, parts
<1> DEFINE created == FoldLeft(AddToMap, m, parts)
           n == AddToMap(created, f)
<1>7. /\ Untouched(m, created, {f.entity})
      /\ definition.multiple /\ f.entity # NoEntity =>
            \A i \in 1 .. Len(parts) : parts[i].id \in Range(created.markers)
  BY <1>4, <1>5 DEF PartsKeep
<1> HIDE DEF created
<1>8. Untouched(created, n, {f.entity}) /\ (f.entity # NoEntity => Holds(n, f))
  BY <1>7, AddToMapKeeps DEF Untouched, Marked
<1> HIDE DEF n
<1>9. Untouched(m, n, {f.entity})
  BY <1>7, <1>8, UntouchedTwice, UntouchedWider
<1>10. ASSUME definition.multiple, f.entity # NoEntity, NEW p \in ToSet(f.parts)
       PROVE  p.id \in Range(n.markers)
  <2>1. PICK i \in 1 .. Len(f.parts) : p = f.parts[i]
    BY <1>1, <1>10 DEF ToSet
  <2>2. parts[i].id \in Range(created.markers) /\ parts[i].id = p.id
    BY <1>1, <1>7, <1>10, <2>1
  <2>3. QED
    BY <1>8, <1>10, <2>2 DEF Untouched
<1>11. QED
  BY <1>6, <1>8, <1>9, <1>10 DEF HoldsAll, n, created

(* One more member: those before it are held, or it is of their entity.    *)
LEMMA OneMoreMember ==
    ASSUME NEW c, NEW i \in Nat \ {0}, NEW x, NEW y, MembersKeep(c, i - 1, x),
           Untouched(x, y, {c.list[i].entity}),
           c.list[i].entity # NoEntity => HoldsAll(y, c.list[i])
    PROVE  MembersKeep(c, i, y)
<1> DEFINE E(n) == {c.list[j].entity : j \in 1 .. n}
<1>1. E(i) = E(i - 1) \union {c.list[i].entity}
  OBVIOUS
<1>2. Untouched(c.from, y, E(i))
  <2>1. Untouched(c.from, x, E(i - 1))
    BY DEF MembersKeep
  <2> HIDE DEF E
  <2>2. QED
    BY <1>1, <2>1, UntouchedTwice
<1>3. ASSUME NEW j \in 1 .. i, c.list[j].entity # NoEntity
      PROVE  \/ HoldsAll(y, c.list[j])
             \/ ~definition.multiple
                /\ \E k \in j + 1 .. i : c.list[k].entity = c.list[j].entity
  <2>1. j = i \/ j \in 1 .. i - 1
    OBVIOUS
  <2>2. CASE j = i
    BY <1>3, <2>2
  <2>3. CASE j \in 1 .. i - 1
    <3>1. \/ HoldsAll(x, c.list[j])
          \/ ~definition.multiple
             /\ \E k \in j + 1 .. i - 1 : c.list[k].entity = c.list[j].entity
      BY <1>3, <2>3 DEF MembersKeep
    <3>2. CASE HoldsAll(x, c.list[j])
      <4>1. CASE c.list[j].entity \notin {c.list[i].entity} \/ definition.multiple
        BY <3>2, <4>1, HoldsStill
      <4>2. CASE c.list[j].entity = c.list[i].entity /\ ~definition.multiple
        <5>1. i \in j + 1 .. i
          BY <2>3
        <5>2. QED
          BY <4>2, <5>1
      <4>3. QED
        BY <4>1, <4>2
    <3>3. CASE ~definition.multiple
               /\ \E k \in j + 1 .. i - 1 : c.list[k].entity = c.list[j].entity
      <4>1. PICK k \in j + 1 .. i - 1 : c.list[k].entity = c.list[j].entity
        BY <3>3
      <4>2. k \in j + 1 .. i
        BY <4>1
      <4>3. QED
        BY <3>3, <4>1, <4>2
    <3>4. QED
      BY <3>1, <3>2, <3>3
  <2>4. QED
    BY <2>1, <2>2, <2>3
<1>4. QED
  BY <1>2, <1>3 DEF MembersKeep

(* The members of an entry, with and without clusters.                     *)
LEMMA SinglesKeep ==
    ASSUME definition \in Definitions, NEW entry \in Entries, NEW m, Marked(m)
    PROVE  LET members == entry.members
               c == [from |-> m, list |-> members]
           IN  MembersKeep(c, Len(members), FoldLeft(CreateFeature, m, members))
<1> DEFINE members == entry.members
           c == [from |-> m, list |-> members]
<1>1. members \in Seq(ToSet(members)) /\ \A f \in ToSet(members) : WellFormed(f)
  BY FeatureFacts
<1>2. \A i \in 1 .. Len(members) : WellFormed(members[i])
  BY <1>1 DEF ToSet
<1> HIDE DEF members
<1>3. MembersKeep(c, 0, m)
  BY NothingTouched DEF MembersKeep
<1>4. ASSUME NEW i \in 1 .. Len(members), NEW x, MembersKeep(c, i - 1, x)
      PROVE  MembersKeep(c, i, MembersOp(c, x, members[i]))
  <2> DEFINE y == CreateFeature(x, members[i])
  <2>1. Marked(x)
    BY <1>4 DEF MembersKeep, Untouched, Marked
  <2>2. /\ Untouched(x, y, {members[i].entity})
        /\ members[i].entity # NoEntity => HoldsAll(y, members[i])
    BY <1>2, <2>1, CreateFeatureKeeps
  <2>3. i \in Nat \ {0} /\ c.list[i] = members[i]
    BY <1>1
  <2> HIDE DEF c, y
  <2>4. MembersKeep(c, i, y)
    BY <1>4, <2>2, <2>3, OneMoreMember
  <2>5. QED
    BY <2>4 DEF MembersOp, y
<1>5. MembersKeep(c, Len(members), KeptSingles!Fold(c, m, members))
  <2> HIDE DEF c
  <2>1. QED
    BY <1>1, <1>3, <1>4, KeptSingles!FoldInvariant
<1>6. KeptSingles!Fold(c, m, members) = FoldLeft(CreateFeature, m, members)
  BY DEF KeptSingles!Fold, KeptSingles!FoldLeft, KeptSingles!MapThenFoldSet, KeptSingles!Max,
         FoldLeft, MapThenFoldSet, Max, MembersOp
<1>7. QED
  BY <1>5, <1>6 DEF members

(* Joining a cluster is no matter of markers.                              *)
LEMMA SameMarkers ==
    ASSUME NEW m, NEW n, NEW o, NEW E, Untouched(m, n, E), IsBuilt(o), o.markers = n.markers
    PROVE  /\ Untouched(m, o, E)
           /\ \A f : HoldsAll(n, f) => HoldsAll(o, f)
<1>1. CASE definition.multiple
  BY <1>1 DEF Untouched, HoldsAll, Holds
<1>2. CASE ~definition.multiple
  BY <1>2 DEF Untouched, HoldsAll, Holds
<1>3. QED
  BY <1>1, <1>2

LEMMA JoinsKeep ==
    ASSUME definition \in Definitions, NEW entry \in Entries, NEW m, Marked(m)
    PROVE  LET members == entry.members
               c == [from |-> m, list |-> members]
           IN  MembersKeep(c, Len(members), FoldLeft(AddMember, m, members))
<1> DEFINE members == entry.members
           c == [from |-> m, list |-> members]
<1>1. members \in Seq(ToSet(members)) /\ \A f \in ToSet(members) : WellFormed(f)
  BY FeatureFacts
<1>2. \A i \in 1 .. Len(members) : WellFormed(members[i])
  BY <1>1 DEF ToSet
<1> HIDE DEF members
<1>3. MembersKeep(c, 0, m)
  BY NothingTouched DEF MembersKeep
<1>4. ASSUME NEW i \in 1 .. Len(members), NEW x, MembersKeep(c, i - 1, x)
      PROVE  MembersKeep(c, i, JoiningOp(c, x, members[i]))
  <2> DEFINE f == members[i]
             y == CreateFeature(x, f)
             joined == IF Unclustered(f) THEN y.clustered ELSE y.clustered \union {f.id}
             z == [y EXCEPT !.clustered = joined]
  <2>1. Marked(x) /\ WellFormed(f)
    BY <1>2, <1>4 DEF MembersKeep, Untouched, Marked
  <2>2. /\ Untouched(x, y, {f.entity})
        /\ f.entity # NoEntity => HoldsAll(y, f)
    BY <2>1, CreateFeatureKeeps
  <2>3. i \in Nat \ {0} /\ c.list[i] = f
    BY <1>1
  <2>4. JoiningOp(c, x, f) = z
    BY DEF JoiningOp, AddMember
  <2> HIDE DEF c, f, y, joined
  <2>5. IsBuilt(z) /\ z.markers = y.markers
    BY <2>2 DEF Untouched, IsBuilt
  <2> HIDE DEF z
  <2>6. Untouched(x, z, {f.entity}) /\ (f.entity # NoEntity => HoldsAll(z, f))
    BY <2>2, <2>5, SameMarkers
  <2>7. MembersKeep(c, i, z)
    BY <1>4, <2>3, <2>6, OneMoreMember
  <2>8. QED
    BY <2>4, <2>7 DEF f
<1>5. MembersKeep(c, Len(members), KeptJoins!Fold(c, m, members))
  <2> HIDE DEF c
  <2>1. QED
    BY <1>1, <1>3, <1>4, KeptJoins!FoldInvariant
<1>6. KeptJoins!Fold(c, m, members) = FoldLeft(AddMember, m, members)
  BY DEF KeptJoins!Fold, KeptJoins!FoldLeft, KeptJoins!MapThenFoldSet, KeptJoins!Max,
         FoldLeft, MapThenFoldSet, Max, JoiningOp
<1>7. QED
  BY <1>5, <1>6 DEF members

(* The feature list: what an entry has marked stays, or is overtaken by    *)
(* a feature further down.                                                 *)
Of(i) == definition.features[i].members

EntriesKeep(n, m) ==
    /\ Marked(m)
    /\ \A i \in 1 .. n : \A j \in DOMAIN Of(i) :
          Of(i)[j].entity # NoEntity =>
              \/ HoldsAll(m, Of(i)[j])
              \/ /\ ~definition.multiple
                 /\ \/ \E k \in j + 1 .. Len(Of(i)) : Of(i)[k].entity = Of(i)[j].entity
                    \/ \E k \in i + 1 .. n :
                          \E g \in ToSet(Of(k)) : g.entity = Of(i)[j].entity
EntriesDone(e, n, m) == Sound(m) /\ EntriesKeep(n, m)

KeptPlain == INSTANCE FoldTheorems WITH Op <- PlainOp, Inv <- EntriesDone
KeptClusters == INSTANCE FoldTheorems WITH Op <- ClusteredOp, Inv <- EntriesDone

EntryKeeps(m, n, members) == MembersKeep([from |-> m, list |-> members], Len(members), n)

LEMMA SameMembers ==
    ASSUME NEW m, NEW n, NEW o, NEW members, EntryKeeps(m, n, members),
           IsBuilt(o), o.markers = n.markers
    PROVE  EntryKeeps(m, o, members)
<1> DEFINE c == [from |-> m, list |-> members]
<1>1. MembersKeep(c, Len(members), n)
  BY DEF EntryKeeps
<1>2. c.from = m
  OBVIOUS
<1> HIDE DEF c
<1> DEFINE E == {c.list[i].entity : i \in 1 .. Len(members)}
<1>3. Untouched(m, n, E)
  BY <1>1, <1>2 DEF MembersKeep
<1> HIDE DEF E
<1>4. IsBuilt(o) /\ o.markers = n.markers
  OBVIOUS
<1>5. Untouched(m, o, E) /\ \A f : HoldsAll(n, f) => HoldsAll(o, f)
  BY ONLY <1>3, <1>4, SameMarkers
<1>6. MembersKeep(c, Len(members), o)
  BY <1>1, <1>2, <1>5 DEF MembersKeep, E
<1>7. QED
  BY <1>6 DEF EntryKeeps, c

LEMMA PlainKeeps ==
    ASSUME definition \in Definitions, NEW entry \in Entries, NEW m, Sound(m), Marked(m)
    PROVE  EntryKeeps(m, AddPlain(m, entry), entry.members)
<1> DEFINE c == FoldLeft(CreateFeature, m, entry.members)
<1>1. SameLayers(m, c) /\ c.clustered = m.clustered
  BY MembersCreated DEF Sound
<1>2. AddPlain(m, entry) = IF entry.group
                           THEN AddOverlay(c, entry.label, entry.name, entry.disabled)
                           ELSE Show(c, entry.name)
  BY DEF AddPlain
<1>3. EntryKeeps(m, c, entry.members)
  BY SinglesKeep DEF EntryKeeps
<1> HIDE DEF c
<1>4. IsBuilt(c) /\ BasesSeen(c)
  BY <1>1 DEF Sound, SameLayers, BasesSeen, Seen, Listed
<1> DEFINE n == AddPlain(m, entry)
<1>5. IsBuilt(n) /\ n.markers = c.markers
  <2>1. CASE entry.group
    BY <1>2, <1>4, <2>1, FeatureFacts, AddOverlayFacts DEF Kept
  <2>2. CASE ~entry.group
    BY <1>2, <1>4, <2>2, ShowFacts
  <2>3. QED
    BY <2>1, <2>2
<1> HIDE DEF n
<1>6. EntryKeeps(m, n, entry.members)
  BY <1>3, <1>5, SameMembers
<1>7. QED
  BY <1>6 DEF n

LEMMA ClusteredKeeps ==
    ASSUME definition \in Definitions, NEW entry \in Entries, NEW m, Sound(m), Marked(m)
    PROVE  EntryKeeps(m, AddClustered(m, entry), entry.members)
<1> DEFINE c == FoldLeft(AddMember, m, entry.members)
<1>1. SameLayers(m, c)
  BY MembersJoined DEF Sound
<1>2. AddClustered(m, entry) = IF entry.group /\ entry.members # << >>
                               THEN AddOverlay(c, entry.label, entry.name, entry.disabled)
                               ELSE c
  BY DEF AddClustered
<1>3. EntryKeeps(m, c, entry.members)
  BY JoinsKeep DEF EntryKeeps
<1> HIDE DEF c
<1>4. IsBuilt(c) /\ BasesSeen(c)
  BY <1>1 DEF Sound, SameLayers, BasesSeen, Seen, Listed
<1> DEFINE n == AddClustered(m, entry)
<1>5. IsBuilt(n) /\ n.markers = c.markers
  <2>1. CASE entry.group /\ entry.members # << >>
    BY <1>2, <1>4, <2>1, FeatureFacts, AddOverlayFacts DEF Kept
  <2>2. CASE ~(entry.group /\ entry.members # << >>)
    BY <1>2, <1>4, <2>2
  <2>3. QED
    BY <2>1, <2>2
<1> HIDE DEF n
<1>6. EntryKeeps(m, n, entry.members)
  BY <1>3, <1>5, SameMembers
<1>7. QED
  BY <1>6 DEF n

LEMMA OneMoreEntry ==
    ASSUME definition \in Definitions, NEW i \in 1 .. Len(definition.features),
           NEW x, NEW y, EntriesKeep(i - 1, x), EntryKeeps(x, y, Of(i))
    PROVE  EntriesKeep(i, y)
<1> DEFINE c == [from |-> x, list |-> Of(i)]
           E == {c.list[j].entity : j \in 1 .. Len(c.list)}
<1>1. /\ i \in Nat \ {0}
      /\ \A k \in 1 .. i : Of(k) \in Seq(ToSet(Of(k)))
  <2>1. /\ definition.features \in Seq(Entries)
        /\ \A entry \in Entries : entry.members \in Seq(ToSet(entry.members))
    BY FeatureFacts
  <2>2. \A k \in 1 .. i : definition.features[k] \in Entries
    BY <2>1
  <2>3. QED
    BY <2>1, <2>2 DEF Of
<1>2. /\ Untouched(x, y, E)
      /\ \A j \in 1 .. Len(Of(i)) : Of(i)[j].entity # NoEntity =>
            \/ HoldsAll(y, Of(i)[j])
            \/ ~definition.multiple
               /\ \E k \in j + 1 .. Len(Of(i)) : Of(i)[k].entity = Of(i)[j].entity
  BY DEF EntryKeeps, MembersKeep
<1>3. ASSUME NEW e \in E
      PROVE  \E g \in ToSet(Of(i)) : g.entity = e
  BY <1>1 DEF ToSet
<1> HIDE DEF E
<1>4. Marked(y)
  BY <1>2 DEF Untouched, Marked
<1>5. ASSUME NEW h \in 1 .. i, NEW j \in DOMAIN Of(h), Of(h)[j].entity # NoEntity
      PROVE  \/ HoldsAll(y, Of(h)[j])
             \/ /\ ~definition.multiple
                /\ \/ \E k \in j + 1 .. Len(Of(h)) : Of(h)[k].entity = Of(h)[j].entity
                   \/ \E k \in h + 1 .. i :
                         \E g \in ToSet(Of(k)) : g.entity = Of(h)[j].entity
  <2>1. h = i \/ h \in 1 .. i - 1
    BY <1>1
  <2>2. CASE h = i
    <3>1. j \in 1 .. Len(Of(i))
      BY <1>1, <1>5, <2>2
    <3>2. QED
      BY <1>2, <1>5, <2>2, <3>1
  <2>3. CASE h \in 1 .. i - 1
    <3> DEFINE f == Of(h)[j]
               Below(n) == \E k \in h + 1 .. n : \E g \in ToSet(Of(k)) : g.entity = f.entity
               Beside == \E k \in j + 1 .. Len(Of(h)) : Of(h)[k].entity = f.entity
    <3>1. \/ HoldsAll(x, f)
          \/ ~definition.multiple /\ (Beside \/ Below(i - 1))
      BY <1>5, <2>3 DEF EntriesKeep
    <3>2. Below(i - 1) => Below(i)
      BY <1>1
    <3>3. f.entity \in E => Below(i)
      <4>1. i \in h + 1 .. i
        BY <1>1, <2>3
      <4>2. QED
        BY <1>3, <4>1
    <3> HIDE DEF f, Below, Beside
    <3>4. HoldsAll(x, f) => HoldsAll(y, f) \/ (~definition.multiple /\ f.entity \in E)
      BY <1>2, HoldsStill
    <3>5. HoldsAll(y, f) \/ (~definition.multiple /\ (Beside \/ Below(i)))
      BY <3>1, <3>2, <3>3, <3>4
    <3>6. QED
      BY <3>5 DEF f, Below, Beside
  <2>4. QED
    BY <2>1, <2>2, <2>3
<1>6. QED
  BY <1>4, <1>5 DEF EntriesKeep

(* The finished map again.                                                 *)
LEMMA MarkersFacts ==
    ASSUME definition \in Definitions
    PROVE  EntriesKeep(Len(definition.features), AddFeatures(Initialise))
<1> DEFINE m == Initialise
           list == definition.features
           added == FoldLeft(AddClustered, m, list)
           single == {entry.name : entry \in {x \in Entries : ~x.group}}
           marked == [added EXCEPT !.shown = @ \union single, !.overlay = TRUE]
<1>1. list \in Seq(Entries) /\ \A i \in 1 .. Len(list) : list[i] \in Entries
  BY FeatureFacts
<1>2. EntriesDone(0, 0, m)
  <2>1. IsFiniteSet(DOMAIN << >>)
    <3>1. DOMAIN << >> = {}
      OBVIOUS
    <3>2. QED
      BY <3>1, FS_EmptySet
  <2>2. QED
    BY <2>1, InitialiseFacts DEF EntriesDone, EntriesKeep, Sound, Marked
<1>3. AddFeatures(m) = IF list = << >> THEN m
                       ELSE IF definition.clusterLibrary THEN marked
                       ELSE FoldLeft(AddPlain, m, list)
  BY DEF AddFeatures, AddEntries
<1> HIDE DEF m
<1>4. EntriesDone(0, Len(list), FoldLeft(AddPlain, m, list))
  <2>1. ASSUME NEW i \in 1 .. Len(list), NEW x, EntriesDone(0, i - 1, x)
        PROVE  EntriesDone(0, i, PlainOp(0, x, list[i]))
    <3> DEFINE y == AddPlain(x, list[i])
    <3>1. Sound(x) /\ EntriesKeep(i - 1, x) /\ Marked(x)
      BY <2>1 DEF EntriesDone, EntriesKeep
    <3>2. Sound(y)
      BY <1>1, <3>1, AddPlainFacts
    <3>3. EntryKeeps(x, y, Of(i))
      BY <1>1, <3>1, PlainKeeps DEF Of
    <3> HIDE DEF y
    <3>4. EntriesKeep(i, y)
      BY <3>1, <3>3, OneMoreEntry
    <3>5. QED
      BY <3>2, <3>4 DEF EntriesDone, PlainOp, y
  <2>2. EntriesDone(0, Len(list), KeptPlain!Fold(0, m, list))
    BY <1>1, <1>2, <2>1, KeptPlain!FoldInvariant
  <2>3. KeptPlain!Fold(0, m, list) = FoldLeft(AddPlain, m, list)
    BY DEF KeptPlain!Fold, KeptPlain!FoldLeft, KeptPlain!MapThenFoldSet, KeptPlain!Max,
           FoldLeft, MapThenFoldSet, Max, PlainOp
  <2>4. QED
    BY <2>2, <2>3
<1>5. EntriesDone(0, Len(list), added)
  <2>1. ASSUME NEW i \in 1 .. Len(list), NEW x, EntriesDone(0, i - 1, x)
        PROVE  EntriesDone(0, i, ClusteredOp(0, x, list[i]))
    <3> DEFINE y == AddClustered(x, list[i])
    <3>1. Sound(x) /\ EntriesKeep(i - 1, x) /\ Marked(x)
      BY <2>1 DEF EntriesDone, EntriesKeep
    <3>2. Sound(y)
      BY <1>1, <3>1, AddClusteredFacts
    <3>3. EntryKeeps(x, y, Of(i))
      BY <1>1, <3>1, ClusteredKeeps DEF Of
    <3> HIDE DEF y
    <3>4. EntriesKeep(i, y)
      BY <3>1, <3>3, OneMoreEntry
    <3>5. QED
      BY <3>2, <3>4 DEF EntriesDone, ClusteredOp, y
  <2>2. EntriesDone(0, Len(list), KeptClusters!Fold(0, m, list))
    BY <1>1, <1>2, <2>1, KeptClusters!FoldInvariant
  <2>3. KeptClusters!Fold(0, m, list) = FoldLeft(AddClustered, m, list)
    BY DEF KeptClusters!Fold, KeptClusters!FoldLeft, KeptClusters!MapThenFoldSet,
           KeptClusters!Max, FoldLeft, MapThenFoldSet, Max, ClusteredOp
  <2>4. QED
    BY <2>2, <2>3
<1>6. EntriesKeep(Len(list), marked)
  <2> HIDE DEF added, single
  <2> DEFINE wider == [added EXCEPT !.shown = @ \union single]
             noted == [wider EXCEPT !.overlay = TRUE]
  <2>1. IsBuilt(wider) /\ wider.markers = added.markers
    BY <1>5, WiderFacts DEF EntriesDone, Sound
  <2>2. marked = noted
    OBVIOUS
  <2> HIDE DEF wider, marked
  <2>3. IsBuilt(noted) /\ noted.markers = wider.markers
    BY <2>1, NotedFacts
  <2> HIDE DEF noted
  <2>4. IsBuilt(marked) /\ marked.markers = added.markers
    BY <2>1, <2>2, <2>3
  <2>5. EntriesKeep(Len(list), added)
    BY <1>5 DEF EntriesDone
  <2>6. Marked(marked)
    BY <2>4, <2>5 DEF EntriesKeep, Marked
  <2>7. \A f : HoldsAll(added, f) => HoldsAll(marked, f)
    BY <2>4 DEF HoldsAll, Holds
  <2>8. QED
    BY <2>5, <2>6, <2>7 DEF EntriesKeep
<1>7. CASE list = << >>
  <2>1. Len(list) = 0
    BY <1>7
  <2>2. QED
    BY <1>2, <1>3, <1>7, <2>1 DEF EntriesDone, m
<1>8. CASE list # << >>
  BY <1>3, <1>4, <1>6, <1>8 DEF EntriesDone, m
<1>9. QED
  BY <1>7, <1>8

(* What the loops have kept is what is promised of the markers.            *)
KeptIn(d, markers) ==
    \A i \in DOMAIN d.features : \A j \in DOMAIN d.features[i].members :
        LET f == d.features[i].members[j]
        IN  f.entity # NoEntity =>
            IF d.multiple
            THEN {f.id} \union {p.id : p \in ToSet(f.parts)} \subseteq Range(markers)
            ELSE \/ markers[<<f.entity>>] = f.id
                 \/ \E k \in j + 1 .. Len(d.features[i].members) :
                        d.features[i].members[k].entity = f.entity
                 \/ \E k \in i + 1 .. Len(d.features) :
                        \E g \in ToSet(d.features[k].members) : g.entity = f.entity

LEMMA MarkersPromised ==
    ASSUME definition \in Definitions, NEW m,
           EntriesKeep(Len(definition.features), m),
           definition' = definition, lmap' = m
    PROVE  MarkersKept'
<1>1. DOMAIN definition.features = 1 .. Len(definition.features)
  BY FeatureFacts
<1>2. ASSUME NEW i \in DOMAIN definition.features, NEW j \in DOMAIN Of(i),
             Of(i)[j].entity # NoEntity
      PROVE  LET f == Of(i)[j]
             IN  IF definition.multiple
                 THEN {f.id} \union {p.id : p \in ToSet(f.parts)} \subseteq Range(m.markers)
                 ELSE \/ m.markers[<<f.entity>>] = f.id
                      \/ \E k \in j + 1 .. Len(Of(i)) : Of(i)[k].entity = f.entity
                      \/ \E k \in i + 1 .. Len(definition.features) :
                            \E g \in ToSet(Of(k)) : g.entity = f.entity
  BY <1>1, <1>2 DEF EntriesKeep, HoldsAll, Holds
<1>3. KeptIn(definition, m.markers)
  BY <1>2 DEF KeptIn, Of
<1>4. KeptIn(definition', lmap'.markers)
  BY <1>3
<1>5. KeptIn(definition', lmap'.markers) => MarkersKept'
  BY DEF KeptIn, MarkersKept
<1>6. QED
  BY <1>4, <1>5

LEMMA MarkersStay ==
    ASSUME MarkersKept, Loaded' => Loaded, definition' = definition,
           lmap'.markers = lmap.markers
    PROVE  MarkersKept'
BY DEF MarkersKept

-----------------------------------------------------------------------------
(* The map as long as it is used                                           *)
(*                                                                         *)
(* A map has the view it should have (StartsAtStart), and what it has      *)
(* built is shown or listed at every moment: a visitor takes away only     *)
(* what the switcher lists.                                                *)

Promised ==
    /\ StartsAtStart /\ MarkersKept
    /\ Loaded => /\ lmap.clustered \subseteq Joining
                 /\ \A entry \in Entries : EntrySeen(lmap, entry)
                 /\ LayersSeen(lmap)
                 /\ \A f \in Members : ~Refused(f)

MapInv ==
    /\ definition \in Definitions
    /\ inits \in 0 .. 1 /\ state \in {"new", "observed", "loaded", "failed"}
    /\ state = "new" => inits = 0
    /\ view \in Place /\ start \in Place
    /\ IsBuilt(lmap) /\ BasesSeen(lmap)
    /\ Promised

LEMMA SameDefinition ==
    ASSUME UNCHANGED definition
    PROVE  /\ Joining' = Joining /\ Entries' = Entries /\ Members' = Members
           /\ \A f : Refused(f)' = Refused(f)
BY DEF Joining, Members, Entries, Unclustered, CreateGeometry, CreatePoint, CreatePath,
       Refused, Components

LEMMA WorldFacts == World \in Place /\ Elsewhere \in Place
BY DEF World, Elsewhere, Place, Centers

LEMMA MapInitial == LeafletInit => MapInv
<1> SUFFICES ASSUME LeafletInit
             PROVE  MapInv
  OBVIOUS
<1>1. IsFiniteSet({}) /\ Cardinality({}) = 0
  BY FS_EmptySet
<1>2. IsBuilt(Blank) /\ BasesSeen(Blank)
  BY <1>1 DEF IsBuilt, BasesSeen, Blank
<1>3. Promised
  BY DEF LeafletInit, Promised, StartsAtStart, MarkersKept, Loaded
<1>4. QED
  BY <1>2, <1>3, WorldFacts DEF LeafletInit, MapInv

LEMMA FinishKeeps ==
    ASSUME MapInv, Unprocessed, Finish, inits' = inits + 1, definition' = definition
    PROVE  MapInv'
<1> DEFINE built == AddFeatures(Initialise)
           fit == FitBounds(built.points)
<1>1. definition \in Definitions /\ inits = 0
  BY DEF MapInv, Unprocessed
<1>2. Sound(built) /\ \A entry \in Entries : EntrySeen(built, entry)
  BY <1>1, BuiltFacts
<1>3. built.points \in Nat
  BY <1>2 DEF Sound, IsBuilt
<1>4. /\ fit.v \in Camera /\ fit.start \in Place /\ Rest(fit.v) \in Place
      /\ \/ Rest(fit.v) = fit.start
         \/ definition.fitted # definition.fits
         \/ definition.near
         \/ built.points = 1 /\ definition.finer # 0
         \/ built.points > 0 /\ ~definition.middle /\ definition.finer = 0
  BY <1>1, <1>3, FitBoundsFacts
<1>5. /\ state' = "loaded" /\ lmap' = built
      /\ view' = Rest(fit.v) /\ start' = fit.start
      /\ \A e \in Entries : \A f \in ToSet(e.members) : ~Refused(f)
  BY DEF Finish
<1> HIDE DEF built, fit
<1>6. /\ Joining' = Joining /\ Entries' = Entries /\ Members' = Members
      /\ \A f : Refused(f)' = Refused(f)
  BY SameDefinition
<1>7. IsBuilt(lmap)' /\ BasesSeen(lmap)' /\ lmap'.clustered \subseteq Joining
      /\ (\A entry \in Entries : EntrySeen(lmap, entry)') /\ LayersSeen(lmap)'
  <2>1. IsBuilt(lmap)'
    BY <1>2, <1>5 DEF Sound, IsBuilt
  <2>2. BasesSeen(lmap)'
    BY <1>2, <1>5 DEF Sound, BasesSeen, Seen, Listed
  <2>3. lmap'.clustered \subseteq Joining
    BY <1>2, <1>5 DEF Sound
  <2>4. ASSUME NEW entry \in Entries
        PROVE  EntrySeen(lmap, entry)'
    BY <1>2, <1>5 DEF EntrySeen, Seen, Listed
  <2>5. LayersSeen(lmap)'
    BY <1>2, <1>5 DEF Sound, LayersSeen, Seen, Listed
  <2>6. QED
    BY <2>1, <2>2, <2>3, <2>4, <2>5
<1>8. StartsAtStart'
  BY <1>4, <1>5 DEF StartsAtStart
<1>9. MarkersKept'
  <2>1. EntriesKeep(Len(definition.features), built)
    BY <1>1, MarkersFacts DEF built
  <2>2. QED
    BY <1>1, <1>5, <2>1, MarkersPromised
<1>10. \A f \in Members : ~Refused(f)'
  BY <1>5, <1>6 DEF Members
<1>11. QED
  BY <1>1, <1>4, <1>5, <1>6, <1>7, <1>8, <1>9, <1>10 DEF MapInv, Promised, Loaded

LEMMA FailAtKeeps ==
    ASSUME MapInv, Unprocessed, NEW n, n \in DOMAIN definition.features, FailAt(n),
           inits' = inits + 1, definition' = definition
    PROVE  MapInv'
<1> DEFINE built == AddEntries(Initialise, SubSeq(definition.features, 1, n - 1))
<1>1. definition \in Definitions /\ inits = 0
  BY DEF MapInv, Unprocessed
<1>2. Sound(built)
  BY <1>1, UntilFacts
<1>3. state' = "failed" /\ lmap' = built /\ view' = FirstView.at /\ start' = start
  BY DEF FailAt
<1> HIDE DEF built
<1>4. IsBuilt(lmap)' /\ BasesSeen(lmap)'
  BY <1>2, <1>3 DEF Sound, IsBuilt, BasesSeen, Seen, Listed
<1>5. Promised'
  BY <1>3 DEF Promised, StartsAtStart, MarkersKept, Loaded
<1>6. view' \in Place
  <2>1. definition.zoom \in Int
    BY <1>1, DefinitionsAssumption
  <2>2. FirstView.at \in Place
    BY <2>1, FirstViewFacts DEF Camera
  <2>3. QED
    BY <1>3, <2>2
<1>7. QED
  BY <1>1, <1>3, <1>4, <1>5, <1>6 DEF MapInv

LEMMA LoadMapKeeps ==
    ASSUME MapInv, Unprocessed, LoadMap
    PROVE  MapInv'
<1>1. inits' = inits + 1 /\ definition' = definition
  BY DEF LoadMap
<1>2. CASE Finish
  BY <1>1, <1>2, FinishKeeps
<1>3. CASE \E n \in DOMAIN definition.features : FailAt(n)
  <2>1. PICK n \in DOMAIN definition.features : FailAt(n)
    BY <1>3
  <2>2. QED
    BY <1>1, <2>1, FailAtKeeps
<1>4. QED
  BY <1>2, <1>3 DEF LoadMap

(* What leaves the map by the switcher is in the switcher.                 *)
LEMMA SwitchKeeps ==
    ASSUME MapInv, Loaded, NEW shown, Switch(shown), lmap.control # NoControl,
           lmap.shown \subseteq shown \union Listed(lmap)
    PROVE  MapInv'
<1>1. /\ lmap' = [lmap EXCEPT !.shown = shown]
      /\ UNCHANGED <<definition, inits, state, view, start>>
  BY DEF Switch
<1>2. /\ IsBuilt(lmap') /\ lmap'.shown = shown /\ lmap'.bases = lmap.bases
      /\ lmap'.control = lmap.control /\ lmap'.clustered = lmap.clustered
      /\ lmap'.points = lmap.points /\ lmap'.markers = lmap.markers
  BY <1>1 DEF MapInv, IsBuilt
<1>3. /\ Joining' = Joining /\ Entries' = Entries /\ Members' = Members
      /\ \A f : Refused(f)' = Refused(f)
  BY <1>1, SameDefinition
<1>4. Listed(lmap)' = Listed(lmap) /\ Seen(lmap) \subseteq Seen(lmap)'
  BY <1>2 DEF Listed, Seen
<1>5. IsBuilt(lmap)'
  BY <1>2 DEF IsBuilt
<1>6. BasesSeen(lmap)'
  BY <1>2, <1>4 DEF MapInv, BasesSeen
<1>7. StartsAtStart'
  BY <1>1, <1>2 DEF MapInv, Promised, StartsAtStart, Loaded
<1>8. ASSUME NEW entry \in Entries
      PROVE  EntrySeen(lmap, entry)'
  BY <1>4 DEF MapInv, Promised, EntrySeen
<1>9. MarkersKept'
  BY <1>1, <1>2, MarkersStay DEF MapInv, Promised, Loaded
<1>10. LayersSeen(lmap)'
  BY <1>1, <1>4 DEF MapInv, Promised, LayersSeen
<1>11. QED
  BY <1>1, <1>2, <1>3, <1>5, <1>6, <1>7, <1>8, <1>9, <1>10 DEF MapInv, Promised, Loaded

(* The visitor moves the map, or brings it back.                           *)
LEMMA MoveKeeps ==
    ASSUME MapInv, KeepMap, view' = Elsewhere \/ view' = start
    PROVE  MapInv'
<1>1. Joining' = Joining /\ Entries' = Entries /\ IsBuilt(lmap)' = IsBuilt(lmap)
      /\ Members' = Members /\ (\A f : Refused(f)' = Refused(f))
      /\ BasesSeen(lmap)' = BasesSeen(lmap) /\ LayersSeen(lmap)' = LayersSeen(lmap)
      /\ \A entry \in Entries : EntrySeen(lmap, entry)' = EntrySeen(lmap, entry)
  BY SameDefinition DEF KeepMap, IsBuilt, BasesSeen, EntrySeen, Seen, Listed, LayersSeen
<1>2. StartsAtStart'
  BY DEF KeepMap, StartsAtStart
<1>3. MarkersKept'
  BY MarkersStay DEF KeepMap, MapInv, Promised, Loaded
<1>4. QED
  BY <1>1, <1>2, <1>3, WorldFacts DEF KeepMap, MapInv, Promised, Loaded

LEMMA NothingKeeps ==
    ASSUME MapInv, UNCHANGED <<definition, inits, lmap, view, start>>,
           state' = state \/ state' = "observed"
    PROVE  MapInv'
<1>1. Joining' = Joining /\ Entries' = Entries /\ IsBuilt(lmap)' = IsBuilt(lmap)
      /\ Members' = Members /\ (\A f : Refused(f)' = Refused(f))
      /\ BasesSeen(lmap)' = BasesSeen(lmap) /\ LayersSeen(lmap)' = LayersSeen(lmap)
      /\ \A entry \in Entries : EntrySeen(lmap, entry)' = EntrySeen(lmap, entry)
  BY SameDefinition DEF IsBuilt, BasesSeen, EntrySeen, Seen, Listed, LayersSeen
<1>2. StartsAtStart'
  BY DEF StartsAtStart, MapInv, Promised, Loaded
<1>3. MarkersKept'
  BY MarkersStay DEF MapInv, Promised, Loaded
<1>4. QED
  BY <1>1, <1>2, <1>3 DEF MapInv, Promised, Loaded

LEMMA MapStep == MapInv /\ [LeafletNext]_leafletVars => MapInv'
<1> SUFFICES ASSUME MapInv, [LeafletNext]_leafletVars
             PROVE  MapInv'
  OBVIOUS
<1>1. CASE Attach
  <2>1. Unprocessed
    BY <1>1 DEF Attach, MapInv, Unprocessed
  <2>2. LoadMap \/ (state' = "observed" /\ UNCHANGED <<definition, inits, lmap, view, start>>)
    BY <1>1 DEF Attach
  <2>3. QED
    BY <2>1, <2>2, LoadMapKeeps, NothingKeeps
<1>2. CASE Intersect
  BY <1>2, LoadMapKeeps DEF Intersect
<1>3. ASSUME NEW b \in lmap.bases, ChooseBase(b)
      PROVE  MapInv'
  <2>1. /\ Loaded /\ lmap.control # NoControl
        /\ Switch((lmap.shown \ lmap.control.bases) \union {b})
    BY <1>3 DEF ChooseBase
  <2>2. lmap.shown \subseteq ((lmap.shown \ lmap.control.bases) \union {b}) \union Listed(lmap)
    BY <2>1 DEF Listed
  <2>3. QED
    BY <2>1, <2>2, SwitchKeeps
<1>4. ASSUME NEW o \in Overlays, ToggleOverlay(o)
      PROVE  MapInv'
  <2>1. Loaded /\ (Switch(lmap.shown \ {o}) \/ Switch(lmap.shown \union {o}))
    BY <1>4 DEF ToggleOverlay
  <2>2. lmap.control # NoControl /\ o \in Listed(lmap)
    BY <1>4 DEF Overlays, Listed
  <2>3. /\ lmap.shown \subseteq (lmap.shown \ {o}) \union Listed(lmap)
        /\ lmap.shown \subseteq (lmap.shown \union {o}) \union Listed(lmap)
    BY <2>2
  <2>4. QED
    BY <2>1, <2>2, <2>3, SwitchKeeps
<1>5. CASE Move \/ ResetView \/ SelectAddress
  BY <1>5, MoveKeeps DEF Move, ResetView, SelectAddress
<1>6. CASE OpenPopup \/ ClosePopup \/ PopupFails \/ (\E f \in Features : PopupArrives(f)) \/ Background
  <2>1. UNCHANGED mapVars
    BY <1>6 DEF OpenPopup, ClosePopup, PopupFails, PopupArrives, Background
  <2>2. QED
    BY <2>1, NothingKeeps DEF mapVars
<1>7. CASE UNCHANGED leafletVars
  BY <1>7, NothingKeeps DEF leafletVars, mapVars
<1>8. QED
  BY <1>1, <1>2, <1>3, <1>4, <1>5, <1>6, <1>7 DEF LeafletNext

THEOREM MapInvariant == LeafletSpec => []MapInv
BY MapInitial, MapStep, PTL DEF LeafletSpec

(* The variables of a map and of its parts keep their types (loadMap()     *)
(* runs once, and never before the map is visible if it is lazy).          *)
THEOREM MapTypeCorrect == LeafletSpec => []LeafletTypeOK
<1>1. MapInv /\ PopupTypeOK /\ LayerTypeOK => LeafletTypeOK
  BY DEF MapInv, LeafletTypeOK, IsBuilt, Place
<1>2. QED
  BY <1>1, MapInvariant, MapImplementsPopups, PopupTypeCorrect, MapImplementsLayer,
     LayerTypeCorrect, PTL

(* A map starts where the reset control brings it back, for any zooms and  *)
(* any features, but for the cases that StartsAtStart names (fitBounds()). *)
THEOREM AlwaysStartsAtStart == LeafletSpec => []StartsAtStart
<1>1. MapInv => StartsAtStart
  BY DEF MapInv, Promised
<1>2. QED
  BY <1>1, MapInvariant, PTL

(* For any number of entities, features and parts, no marker of a field of *)
(* several values is replaced, and that of a single value only by a later  *)
(* feature (push_markers_features, create_collection).                     *)
THEOREM AlwaysMarkersKept == LeafletSpec => []MarkersKept
<1>1. MapInv => MarkersKept
  BY DEF MapInv, Promised
<1>2. QED
  BY <1>1, MapInvariant, PTL

(* Whatever layers, groups and features the settings have, in any order,   *)
(* and whatever the visitor switches: all of it is shown or in the         *)
(* switcher, and the clusters hold only what has a position (add_overlay,  *)
(* add_base_layer, initialise_layers_control, add_features).               *)
THEOREM AlwaysCanBeSeen == LeafletSpec => []CanBeSeen
<1>1. ASSUME MapInv, Loaded
      PROVE  CanBeSeen
  <2>1. IsBuilt(lmap) /\ BasesSeen(lmap) /\ lmap.clustered \subseteq Joining
        /\ definition \in Definitions
        /\ (\A entry \in Entries : EntrySeen(lmap, entry)) /\ LayersSeen(lmap)
        /\ \A f \in Members : ~Refused(f)
    BY <1>1 DEF MapInv, Promised
  <2>2. ASSUME NEW f \in Members, f.id \in lmap.clustered,
               NEW g \in {f} \union ToSet(Components(f))
        PROVE  CreateGeometry(g).getLatLng \/ g.type \in {"collection", "json"}
    <3>1. PICK h \in Members : h.id = f.id /\ ~Unclustered(h)
      BY <2>1, <2>2 DEF Joining
    <3>2. ~Unclustered(f) /\ WellFormed(f)
      BY <2>1, <2>2, <3>1, FeatureFacts
    <3>3. f.type \in {"path", "collection"} => definition.includePath
      BY <3>2 DEF Unclustered, CreateGeometry, CreatePath, FeatureGroup, Polyline,
                  PolylineClusterable
    <3>4. g.type \in Types /\ (g.type = "path" => definition.includePath)
      <4>1. CASE g = f
        BY <3>2, <3>3, <4>1 DEF WellFormed
      <4>2. CASE g \in ToSet(Components(f))
        <5>1. PICK i \in DOMAIN f.parts : g = [f EXCEPT !.id = f.parts[i].id, !.type = f.parts[i].type]
          BY <4>2 DEF ToSet, Components
        <5>2. g.type = f.parts[i].type
          BY <3>2, <5>1 DEF WellFormed
        <5>3. f.parts[i].type \in Types /\ f.type = "collection"
          BY <3>2 DEF WellFormed, ToSet
        <5>4. QED
          BY <3>3, <5>2, <5>3
      <4>3. QED
        BY <2>2, <4>1, <4>2
    <3>5. CASE g.type = "point"
      BY <3>5 DEF CreateGeometry, CreatePoint, Marker, CircleMarker
    <3>6. CASE g.type = "path"
      BY <3>4, <3>6 DEF CreateGeometry, CreatePath, PolylineClusterable, Polyline
    <3>7. g.type # "unknown"
      BY <2>1, <2>2 DEF Refused, CreateGeometry
    <3>8. QED
      BY <3>4, <3>5, <3>6, <3>7 DEF Types
  <2>3. lmap.control # NoControl => lmap.bases \subseteq Seen(lmap)
    BY <2>1 DEF BasesSeen
  <2>4. lmap.control = NoControl /\ definition.layerControl => lmap.bases \subseteq lmap.shown
    BY <2>1 DEF BasesSeen
  <2>5. QED
    BY <2>1, <2>2, <2>3, <2>4 DEF CanBeSeen, Seen, Listed, EntrySeen, LayersSeen
<1>2. MapInv => CanBeSeen
  BY <1>1 DEF CanBeSeen
<1>3. QED
  BY <1>2, MapInvariant, PTL

=============================================================================
