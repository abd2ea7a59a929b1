--------------------------- MODULE LeafletPopups ---------------------------
(***************************************************************************)
(* The popups of a Leaflet map and the listeners that leaflet.drupal.js    *)
(* attaches to 'popupopen' and 'popupclose': the content of a popup may be *)
(* fetched when it opens, and the tooltip of the feature has to give way.  *)
(*                                                                         *)
(* A popup keeps its content and writes it into its node every time it     *)
(* opens; a new content is written at once only if the popup is open.      *)
(* Content that is undefined leaves the node as it is, and content that is *)
(* no text empties it with an exception.                                   *)
(* Opening a popup closes the open one first (autoClose, the default of    *)
(* Leaflet and of the settings form), so both listeners run in one step.   *)
(***************************************************************************)
EXTENDS Naturals

CONSTANTS
    Features,     \* features with a popup
    Ajax,         \* those whose content is a data-leaflet-ajax-popup
    WithTooltip,  \* those with a tooltip
    Search,       \* the popup of the geocoder control, which has no _source
    NoPopup,      \* no popup is open
    MaxRequests   \* bound: unanswered requests of a popup

ASSUME PopupAssumption ==
    /\ Ajax \subseteq Features
    /\ WithTooltip \subseteq Features
    /\ Search \notin Features
    /\ NoPopup \notin Features \union {Search}

ASSUME RequestAssumption == MaxRequests \in Nat \ {0}

VARIABLES
    open,     \* the open popup
    content,  \* _content of each popup; "none": undefined, "broken": no text
    node,     \* _contentNode: what was last written into it
    pending,  \* requests without an answer
    opacity   \* of each tooltip

popupVars == <<open, content, node, pending, opacity>>

Contents == {"own", "placeholder", "fetched", "none", "broken"}
Node == {"own", "placeholder", "fetched", "nothing"}

PopupTypeOK ==
    /\ open \in Features \union {Search, NoPopup}
    /\ content \in [Features -> Contents]
    /\ node \in [Features -> Node]
    /\ pending \in [Features -> 0 .. MaxRequests]
    /\ opacity \in [WithTooltip -> {"shown", "hidden"}]

PopupInit ==
    /\ open = NoPopup
    /\ content = [f \in Features |->
                     IF f \in Ajax THEN "placeholder" ELSE "own"]
    /\ node = [f \in Features |-> "nothing"]
    /\ pending = [f \in Features |-> 0]
    /\ opacity = [f \in WithTooltip |-> "shown"]

-----------------------------------------------------------------------------
(* Listeners                                                               *)

SetOpacity(all, f, value) ==
    IF f \in WithTooltip THEN [all EXCEPT ![f] = value] ELSE all

(* Mutant of OnPopupClose: only a close button brings the tooltip back.    *)
OnPopupCloseIgnored(all) == all

(* popupclose brings the tooltip of the popup that was open back, then     *)
(* popupopen makes that of the new one disappear.                          *)
OnPopupClose(all) == SetOpacity(all, open, "shown")
OnPopupOpen(all, f) == SetOpacity(all, f, "hidden")

-----------------------------------------------------------------------------
(* Actions                                                                 *)

(* _updateContent() of Leaflet, when the popup opens.                      *)
Written(f) == IF content[f] = "none" THEN node[f] ELSE content[f]

(* Mutant of Open: whether there is a placeholder is not looked at.        *)
OpenAgain(f) ==
    /\ open # f /\ content[f] # "broken" /\ pending[f] < MaxRequests
    /\ open' = f
    /\ node' = [node EXCEPT ![f] = Written(f)]
    /\ pending' = [pending EXCEPT ![f] = @ + 1]
    /\ opacity' = OnPopupOpen(OnPopupClose(opacity), f)
    /\ UNCHANGED content

(* A click on a feature whose popup is not open.  A placeholder sends a    *)
(* request, also when one is under way from an earlier opening.  A popup   *)
(* that cannot be written throws before it opens: a click on its feature   *)
(* only closes the open one, as Close does.                                *)
Open(f) ==
    /\ open # f /\ content[f] # "broken"
    /\ Written(f) = "placeholder" => pending[f] < MaxRequests
    /\ open' = f
    /\ node' = [node EXCEPT ![f] = Written(f)]
    /\ pending' = IF Written(f) = "placeholder"
                  THEN [pending EXCEPT ![f] = @ + 1] ELSE pending
    /\ opacity' = OnPopupOpen(OnPopupClose(opacity), f)
    /\ UNCHANGED content

(* An address is selected in the geocoder control: a popup of its own.     *)
OpenSearch ==
    /\ open' = Search
    /\ opacity' = OnPopupClose(opacity)
    /\ UNCHANGED <<content, node, pending>>

(* A click on the map, on the feature or on the button, or the layer of    *)
(* the feature leaves the map.                                             *)
Close ==
    /\ open # NoPopup
    /\ open' = NoPopup
    /\ opacity' = OnPopupClose(opacity)
    /\ UNCHANGED <<content, node, pending>>

Answered(f) ==
    /\ pending[f] > 0
    /\ pending' = [pending EXCEPT ![f] = @ - 1]

(* setContent() keeps data[0].data and writes it if the popup is open: the *)
(* html, if the command that replaces the placeholder is the first.        *)
Done(f) ==
    /\ Answered(f)
    /\ content' = [content EXCEPT ![f] = "fetched"]
    /\ node' = [node EXCEPT ![f] = IF open = f THEN "fetched" ELSE @]
    /\ UNCHANGED <<open, opacity>>

(* New settings are a command before it, one without data.  Nothing is     *)
(* written then, but the command that follows replaces the placeholder in  *)
(* the page, which has that of an open popup only.                         *)
DoneSettings(f) ==
    /\ Answered(f)
    /\ content' = [content EXCEPT ![f] = "none"]
    /\ node' = [node EXCEPT ![f] =
                   IF open = f /\ @ = "placeholder" THEN "fetched" ELSE @]
    /\ UNCHANGED <<open, opacity>>

(* New styles or scripts are commands before it as well, with lists as     *)
(* their data: an open popup is emptied, with its placeholder.             *)
DoneAssets(f) ==
    /\ Answered(f)
    /\ content' = [content EXCEPT ![f] = "broken"]
    /\ node' = [node EXCEPT ![f] = IF open = f THEN "nothing" ELSE @]
    /\ UNCHANGED <<open, opacity>>

Arrive(f) == Done(f) \/ DoneSettings(f) \/ DoneAssets(f)

(* Mutant of Fail: a failed request leaves the popup open.                 *)
FailSilently(f) ==
    /\ Answered(f)
    /\ UNCHANGED <<open, content, node, opacity>>

(* e.popup.close() does nothing to a popup that is not open.               *)
Fail(f) ==
    /\ Answered(f)
    /\ IF open = f
       THEN /\ open' = NoPopup
            /\ opacity' = OnPopupClose(opacity)
       ELSE UNCHANGED <<open, opacity>>
    /\ UNCHANGED <<content, node>>

Answer(f) == Arrive(f) \/ Fail(f)

PopupNext == (\E f \in Features : Open(f) \/ Answer(f)) \/ OpenSearch \/ Close

PopupSpec == PopupInit /\ [][PopupNext]_popupVars

-----------------------------------------------------------------------------
(* Properties                                                              *)

(* A tooltip is hidden exactly while the popup of its feature is open,     *)
(* whichever way the popup before it was closed: by the visitor, by the    *)
(* opening of another one, by a failed request (popupopen, popupclose).    *)
TooltipGivesWay == \A f \in WithTooltip : opacity[f] = "hidden" <=> open = f

(* A visitor who looks at a placeholder is waiting for an answer: no order *)
(* of late answers and failures of earlier openings leaves an open popup   *)
(* empty for good (.done, .fail and e.popup.close()).                      *)
PlaceholderIsAwaited ==
    \A f \in Features :
        open = f /\ node[f] = "placeholder" => pending[f] > 0

(* Once an answer brought the content, or the page wrote it, the popup is  *)
(* not asked for again and never shows its placeholder again ("so we won't *)
(* have to make another AJAX call"), however late the answers of earlier   *)
(* openings come.  Only an answer may take the content away again: one in  *)
(* which another command is the first (.done and data[0].data).            *)
FetchedOnce ==
    [][\A f \in Features :
          LET Has == content[f] = "fetched" \/ node[f] = "fetched"
              Taken == pending'[f] < pending[f] /\ content'[f] \in {"none", "broken"}
          IN  Has =>
                 /\ content'[f] = "fetched" \/ node'[f] = "fetched" \/ Taken
                 /\ pending'[f] <= pending[f]
                 /\ open' = f => node'[f] # "placeholder"]_popupVars

=============================================================================
