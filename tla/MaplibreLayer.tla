--------------------------- MODULE MaplibreLayer ---------------------------
(***************************************************************************)
(* The vector layer of a map (leaflet-maplibre-gl.js): a MapLibre canvas   *)
(* inside a Leaflet map, which follows the map by listening to its events. *)
(*                                                                         *)
(* The events of a zoom come from several sources that do not wait for     *)
(* each other: a CSS transition, the timer that Leaflet sets in case the   *)
(* transition reports nothing, animation frames, the timer of the          *)
(* throttle; and a visitor may take the layer off at any of these moments. *)
(* Positions are abstracted to whether the canvas has that of the map.     *)
(***************************************************************************)
EXTENDS Naturals

CONSTANT MaxFrames   \* bound: animation frames asked for

ASSUME FrameAssumption == MaxFrames \in Nat \ {0}

VARIABLES
    onMap,       \* the layer is on the map
    layer,       \* its state, see Layer
    frames,      \* frames that _transitionEnd asked for
    phase,       \* what the Leaflet map is doing
    transition,  \* a CSS transition will report its end
    cutShort     \* history: taken off in a zoom, and not zoomed since

layerVars == <<onMap, layer, frames, phase, transition, cutShort>>

Layer == [zooming : BOOLEAN,  \* _zooming: panning is not followed
          synced  : BOOLEAN,  \* the canvas has the position of the map
          lock    : BOOLEAN,  \* throttle: called a moment ago
          waiting : BOOLEAN]  \* throttle: a call to make up for

Phases == {"still", "pinching", "animating"}

LayerTypeOK ==
    /\ onMap \in BOOLEAN /\ layer \in Layer /\ frames \in 0 .. MaxFrames
    /\ phase \in Phases /\ transition \in BOOLEAN /\ cutShort \in BOOLEAN

LayerInit ==
    /\ onMap = FALSE
    /\ layer = [zooming |-> FALSE, synced |-> FALSE,
                lock |-> FALSE, waiting |-> FALSE]
    /\ frames = 0 /\ phase = "still" /\ transition = FALSE
    /\ cutShort = FALSE

-----------------------------------------------------------------------------
(* Methods of the layer, as functions of its state                         *)

(* The map has moved away from the position of the canvas.                 *)
Drift(l) == [l EXCEPT !.synced = FALSE]

TransformGL(l) == [l EXCEPT !.synced = TRUE]

Update(l) == IF l.zooming THEN l ELSE TransformGL(l)

(* L.Util.throttle: the first call runs, a call within the interval waits. *)
ThrottledUpdate(l) ==
    IF l.lock THEN [l EXCEPT !.waiting = TRUE]
    ELSE [Update(l) EXCEPT !.lock = TRUE]

(* Mutant of ZoomEnd: the flag stays.                                      *)
ZoomEndWithFlag(l) == Update(l)

PinchZoom(l) == [l EXCEPT !.synced = TRUE]
ZoomStart(l) == [l EXCEPT !.zooming = TRUE]
ZoomEnd(l) == Update([l EXCEPT !.zooming = FALSE])

-----------------------------------------------------------------------------
(* The layer on the map: events reach it only there (getEvents)            *)

Handle(l) == layer' = IF onMap THEN l ELSE layer
Ended == cutShort' = (cutShort /\ ~onMap)

(* A new MapLibre map at the position of the Leaflet map.                  *)
InitGL(l) == TransformGL(l)

OnAdd ==
    /\ ~onMap /\ onMap' = TRUE
    /\ layer' = InitGL(layer)
    /\ UNCHANGED <<frames, phase, transition, cutShort>>

(* Neither the flag nor the throttle nor a frame is reset.                 *)
OnRemove ==
    /\ onMap /\ onMap' = FALSE
    /\ layer' = Drift(layer)
    /\ cutShort' = layer.zooming
    /\ UNCHANGED <<frames, phase, transition>>

-----------------------------------------------------------------------------
(* Events of the map                                                       *)

Pan ==
    /\ phase = "still"
    /\ Handle(ThrottledUpdate(Drift(layer)))
    /\ UNCHANGED <<onMap, frames, phase, transition, cutShort>>

(* setView() without an animation: zoomstart, zoom, move, zoomend at once. *)
Jump ==
    /\ phase = "still"
    /\ Handle(ZoomEnd(ThrottledUpdate(PinchZoom(ZoomStart(Drift(layer))))))
    /\ Ended
    /\ UNCHANGED <<onMap, frames, phase, transition>>

(* zoomstart and zoomanim; the transition may report its end or not.       *)
AnimateZoom ==
    /\ phase = "still" /\ phase' = "animating"
    /\ Handle(ZoomStart(Drift(layer)))
    /\ transition' \in {TRUE, transition}
    /\ UNCHANGED <<onMap, frames, cutShort>>

(* Two fingers: zoomstart, then zoom and move for every movement.          *)
Pinch ==
    /\ phase \in {"still", "pinching"} /\ phase' = "pinching"
    /\ Handle(ThrottledUpdate(PinchZoom(Drift(
                  IF phase = "still" THEN ZoomStart(layer) ELSE layer))))
    /\ UNCHANGED <<onMap, frames, transition, cutShort>>

(* The fingers leave: the map animates to a zoom it may stay at.           *)
PinchEnd ==
    /\ phase = "pinching" /\ phase' = "animating"
    /\ Handle(Drift(layer))
    /\ transition' \in {TRUE, transition}
    /\ UNCHANGED <<onMap, frames, cutShort>>

(* _onZoomTransitionEnd of the map: zoom, move, zoomend.                   *)
Landed(l) == ZoomEnd(ThrottledUpdate(PinchZoom(l)))

(* The timer of 250 ms ends the animation.                                 *)
Timer ==
    /\ phase = "animating" /\ phase' = "still"
    /\ Handle(Landed(layer))
    /\ Ended
    /\ UNCHANGED <<onMap, frames, transition>>

(* The transition reports its end, to the map and then to the layer.       *)
TransitionEnd ==
    /\ transition /\ transition' = FALSE
    /\ phase' = IF phase = "animating" THEN "still" ELSE phase
    /\ IF phase = "animating" THEN Handle(Landed(layer)) /\ Ended
       ELSE UNCHANGED <<layer, cutShort>>
    /\ onMap => frames < MaxFrames
    /\ frames' = IF onMap THEN frames + 1 ELSE frames
    /\ UNCHANGED onMap

(* invalidateSize(): move, resize.                                         *)
Resize ==
    /\ onMap => frames < MaxFrames
    /\ Handle(ThrottledUpdate(Drift(layer)))
    /\ frames' = IF onMap THEN frames + 1 ELSE frames
    /\ UNCHANGED <<onMap, phase, transition, cutShort>>

(* The frame: jumpTo() fires moveend at once, and that calls _zoomEnd().   *)
(* It throws when the layer has left the map.                              *)
Frame ==
    /\ frames > 0 /\ frames' = frames - 1
    /\ Handle(ZoomEnd(TransformGL(layer)))
    /\ Ended
    /\ UNCHANGED <<onMap, phase, transition>>

(* Mutant of Later: a call that waits is forgotten.                        *)
LaterForgets ==
    /\ layer.lock
    /\ layer' = [layer EXCEPT !.lock = FALSE, !.waiting = FALSE]
    /\ UNCHANGED <<onMap, frames, phase, transition, cutShort>>

(* The interval of the throttle is over; _update() returns without a map.  *)
Later ==
    /\ layer.lock
    /\ layer' = LET free == [layer EXCEPT !.lock = FALSE, !.waiting = FALSE]
                IN  IF ~layer.waiting THEN free
                    ELSE IF onMap THEN ThrottledUpdate(free)
                    ELSE [free EXCEPT !.lock = TRUE]
    /\ UNCHANGED <<onMap, frames, phase, transition, cutShort>>

Visitor == Pan \/ AnimateZoom \/ Pinch \/ PinchEnd
Browser == Timer \/ TransitionEnd \/ Frame \/ Later

LayerNext == OnAdd \/ OnRemove \/ Visitor \/ Jump \/ Resize \/ Browser

LayerSpec == LayerInit /\ [][LayerNext]_layerVars

(* Timers and frames come; the end of a transition need not.               *)
LayerFairness ==
    WF_layerVars(Timer) /\ WF_layerVars(Frame) /\ WF_layerVars(Later)

-----------------------------------------------------------------------------
(* Properties                                                              *)

(* When the map stands still and nothing is left to run, the canvas shows  *)
(* what the map shows and the next panning will be followed, whatever the  *)
(* order of transition, timer, frames and throttle was; unless the layer   *)
(* was taken off in the middle of a zoom, because onRemove() leaves        *)
(* _zooming as it is and a layer that returns does not follow any panning  *)
(* until the next zoom (onRemove, _update, _zoomEnd).                      *)
FollowsAtRest ==
    onMap /\ phase = "still" /\ frames = 0 /\ ~layer.waiting /\ ~cutShort
        => layer.synced /\ ~layer.zooming

(* A canvas that lags behind catches up, however long the visitor goes on  *)
(* panning (the throttle, _zoomEnd).                                       *)
CatchesUp == (onMap /\ ~layer.synced) ~> (layer.synced \/ ~onMap \/ cutShort)

=============================================================================
