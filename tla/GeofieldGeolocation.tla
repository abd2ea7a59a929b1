------------------------- MODULE GeofieldGeolocation -------------------------
(***************************************************************************)
(* geolocation.js of geofield: the position of the browser as the default  *)
(* of coordinates in a form, on request of a visitor, and as the origin of *)
(* proximity filters.  Each attach call has variables of its own (fields,  *)
(* latitudeInput), which its callbacks read when the position comes, not   *)
(* when they asked for it.                                                 *)
(*                                                                         *)
(* A row is a latitude and a longitude; it is empty if both are, and it is *)
(* alone in its parent.  An Ajax answer replaces the elements of a part of *)
(* the page by new ones with the same values.  Pages with #edit-instance   *)
(* are not modelled.                                                       *)
(***************************************************************************)
EXTENDS Naturals, SequencesExt

CONSTANTS
    Rows, Origins,        \* .auto-geocode rows, .proximity-origin-client forms
    FieldOf,              \* the field that a row is a value of
    Contexts, Page,       \* what attach is called with: the page, its parts
    RowsIn, OriginsIn,    \* the elements of a context in document order
    NoOrigin,             \* latitudeInput before it is assigned, or detached
    MaxAttached,          \* bounds of the model: attach calls and
    MaxWaiting            \* requests of rows that one attach call waits for

Elements == Rows \union Origins
Calls == 1..MaxAttached

ASSUME ContextAssumption ==
    /\ MaxAttached \in Nat \ {0} /\ Page \in Contexts
    /\ RowsIn \in [Contexts -> Seq(Rows)] /\ OriginsIn \in [Contexts -> Seq(Origins)]
    /\ NoOrigin \notin Origins /\ "document" \notin Rows /\ Rows \intersect Origins = {}

VARIABLES
    attached,   \* the contexts of the attach calls so far
    value,      \* of each row
    handler,    \* the attach call that took an element with once()
    fields,     \* for each attach call, what the answer is written into
    input,      \* for each attach call, the origin of latitudeInput
    located,    \* the origins that hold the position
    waiting,    \* for each attach call, the requests without an answer
    native,     \* the browser has navigator.geolocation: no shim
    cache,      \* cache of the shim is set
    asked,      \* history: rows of which the button was pressed, until their
                \* attach call has all its answers,
    owed,       \* those that have no answer to it yet,
    blank,      \* attach calls that began with an empty row, as long,
    refused     \* whether a request failed

code == <<attached, value, handler, fields, input, located, waiting, native, cache>>
history == <<asked, owed, blank, refused>>
geolocationVars == <<code, history>>

Empty == "empty"
Here == "here"
Values == {Empty, "stored", "typed", Here}

(* The page is searched when the position comes, new elements included.    *)
Document == {"document"}
Found(f) == IF f = Document THEN Rows ELSE f

GeolocationInit ==
    /\ attached = << >> /\ value \in [Rows -> {Empty, "stored"}]
    /\ handler = [e \in Elements |-> 0] /\ fields = [c \in Calls |-> {}]
    /\ input = [c \in Calls |-> NoOrigin] /\ located = {}
    /\ waiting = [c \in Calls |-> [rows |-> 0, origins |-> 0]]
    /\ native \in BOOLEAN /\ cache = FALSE
    /\ asked = {} /\ owed = {} /\ blank = {} /\ refused = FALSE

-----------------------------------------------------------------------------

(* getCurrentPosition() of the shim answers at once from its cache, and    *)
(* once more when its script is loaded.                                    *)
AtOnce == ~native /\ cache

updateLocation(f) == [r \in Rows |-> IF r \in Found(f) THEN Here ELSE value[r]]

(* Mutant of Wanted: every row is filled that is empty, whichever it is.   *)
WantedAny(rows) == \E i \in DOMAIN rows : value[rows[i]] = Empty

(* .val() of several elements is that of the first.                        *)
Wanted(rows) == rows # << >> /\ value[Head(rows)] = Empty

(* Elements that an Ajax answer replaces are not in the page any more.     *)
Detached(f, gone) == IF f = Document THEN f ELSE f \ gone

(* The last origin of a call is the one its variables hold.                *)
OwnInput(c, origins) ==
    [d \in Calls |->
        IF d = c /\ origins # << >> THEN Last(origins)
        ELSE IF input[d] \in ToSet(origins) THEN NoOrigin ELSE input[d]]

(* The page first, then parts of it that are replaced.                     *)
AttachBehaviors(x) ==
    LET c == Len(attached) + 1
        rows == RowsIn[x]
        origins == OriginsIn[x]
        own == IF x = Page THEN Document ELSE ToSet(rows)
        auto == Wanted(rows)
    IN  /\ c \in Calls /\ (x = Page <=> attached = << >>)
        /\ attached' = Append(attached, x)
        /\ fields' = [d \in Calls |-> IF d = c THEN own
                                      ELSE Detached(fields[d], ToSet(rows))]
        /\ handler' = [e \in Elements |-> IF e \in ToSet(rows) \union ToSet(origins)
                                          THEN c ELSE handler[e]]
        /\ input' = OwnInput(c, origins)
        /\ value' = IF auto /\ AtOnce THEN updateLocation(own) ELSE value
        /\ located' = IF AtOnce THEN located \union ToSet(origins)
                      ELSE located \ ToSet(origins)
        /\ waiting' = [waiting EXCEPT ![c] = [rows |-> IF auto THEN 1 ELSE 0,
                                              origins |-> Len(origins)]]
        /\ owed' = owed \ ToSet(rows) /\ asked' = asked \ ToSet(rows)
        /\ blank' = IF rows # << >> /\ value[Head(rows)] = Empty
                    THEN blank \union {c} ELSE blank
        /\ UNCHANGED <<native, cache, refused>>

(* Mutant of Aimed: fields is a variable of the file.                      *)
AimedShared(r) == [c \in Calls |-> {r}]

Aimed(r) == [fields EXCEPT ![handler[r]] = {r}]

(* The button "Find my location".                                          *)
Press(r) ==
    LET c == handler[r]
        overtaken == {o \in Rows : handler[o] = c}
    IN  /\ c # 0 /\ waiting[c].rows < MaxWaiting
        /\ fields' = Aimed(r)
        /\ value' = IF AtOnce THEN updateLocation(Aimed(r)[c]) ELSE value
        /\ waiting' = [waiting EXCEPT ![c].rows = @ + 1]
        /\ asked' = asked \union {r}
        /\ owed' = (owed \ overtaken) \union (IF AtOnce THEN {} ELSE {r})
        /\ blank' = blank \ {c}
        /\ UNCHANGED <<attached, handler, input, located, native, cache, refused>>

(* One answer less; after the last one nothing of the call is asked for.   *)
LastAnswer(c) == waiting[c].rows = 1

OneLess(c) ==
    /\ waiting' = [waiting EXCEPT ![c].rows = @ - 1]
    /\ asked' = IF LastAnswer(c) THEN {r \in asked : handler[r] # c} ELSE asked
    /\ blank' = IF LastAnswer(c) THEN blank \ {c} ELSE blank

(* The position comes to a callback of a call; the shim keeps it.          *)
AnswerRows(c) ==
    /\ waiting[c].rows > 0
    /\ OneLess(c)
    /\ value' = updateLocation(fields[c])
    /\ cache' = ~native
    /\ owed' = owed \ Found(fields[c])
    /\ UNCHANGED <<attached, handler, fields, input, located, native, refused>>

Written(c) == (located \union {input[c]}) \ {NoOrigin}

getClientOrigin(c) ==
    /\ waiting[c].origins > 0
    /\ located' = Written(c)
    /\ waiting' = [waiting EXCEPT ![c].origins = @ - 1]
    /\ cache' = ~native
    /\ UNCHANGED <<attached, value, handler, fields, input, native, history>>

(* No permission, no position, no script: no callback is given for that.   *)
Fail(c) ==
    /\ \/ waiting[c].rows > 0 /\ OneLess(c)
       \/ waiting[c].origins > 0 /\ waiting' = [waiting EXCEPT ![c].origins = @ - 1]
          /\ UNCHANGED <<asked, blank>>
    /\ refused' = TRUE
    /\ owed' = {r \in owed : handler[r] # c}
    /\ UNCHANGED <<attached, value, handler, fields, input, located, native, cache>>

(* The visitor types coordinates, or clears them.                          *)
TypeRow(r, v) ==
    /\ handler[r] # 0 /\ value[r] # v
    /\ value' = [value EXCEPT ![r] = v]
    /\ UNCHANGED <<attached, handler, fields, input, located, waiting, native, cache,
                   history>>

GeolocationNext ==
    \/ \E x \in Contexts : AttachBehaviors(x)
    \/ \E r \in Rows : Press(r) \/ \E v \in {Empty, "typed"} : TypeRow(r, v)
    \/ \E c \in Calls : AnswerRows(c) \/ getClientOrigin(c) \/ Fail(c)

GeolocationSpec == GeolocationInit /\ [][GeolocationNext]_geolocationVars

-----------------------------------------------------------------------------
(* Properties                                                              *)

(* The variables keep their types (the state of geolocation.js).           *)
GeolocationTypeOK ==
    /\ attached \in Seq(Contexts) /\ Len(attached) <= MaxAttached
    /\ value \in [Rows -> Values]
    /\ handler \in [Elements -> 0..MaxAttached]
    /\ fields \in [Calls -> (SUBSET Rows) \union {Document}]
    /\ input \in [Calls -> Origins \union {NoOrigin}] /\ located \subseteq Origins
    /\ waiting \in [Calls -> [rows : Nat, origins : Nat]]
    /\ native \in BOOLEAN /\ cache \in BOOLEAN
    /\ asked \subseteq Rows /\ owed \subseteq asked
    /\ blank \subseteq Calls /\ refused \in BOOLEAN

(* A row whose button was pressed is filled by the next answer, whatever   *)
(* else is asked, answered or replaced meanwhile.  It is given up only     *)
(* where another button of the same attach call is pressed before the      *)
(* answer, its part of the page is replaced, or a request fails (fields,   *)
(* the handler of the button).                                             *)
PressIsAnswered ==
    \A r \in owed : /\ waiting[handler[r]].rows > 0
                    /\ r \in Found(fields[handler[r]])

(* What ReplacedWithReason speaks of.                                      *)
Replaced(r) == value[r] \in {"stored", "typed"} /\ value'[r] = Here

(* Calls that began with an empty row, wait for its position and still     *)
(* mean r, in the step that replaces r.                                    *)
Filling(r) == {c \in blank \union blank' : r \in Found(fields'[c])}
FieldOfFirst(c) == FieldOf[Head(RowsIn[attached'[c]])]

Pressed(r) == r \in asked \union asked'
OwnFieldEmpty(r) == \E c \in Filling(r) : FieldOfFirst(c) = FieldOf[r]
OtherFieldEmpty(r) == \E c \in Filling(r) : FieldOfFirst(c) # FieldOf[r]

(* Coordinates that were stored or typed are replaced by the position only *)
(* while an answer to the button of their row is out, or the one that an   *)
(* attach call asked for because the first row of their own field was      *)
(* empty, if no button of that call was pressed since ("check that we have *)
(* something to fill up, on multi values check only that the first one is  *)
(* empty").  Nothing is promised to the fields that follow the first one   *)
(* of an attach call: it fills them as well, though none of theirs may be  *)
(* empty (OtherFieldEmpty).                                                *)
ReplacedWithReason ==
    [][\A r \in Rows : Replaced(r) =>
           Pressed(r) \/ OwnFieldEmpty(r) \/ OtherFieldEmpty(r)]_geolocationVars

(* The origin that an attach call finds last is located or will be,        *)
(* whatever is replaced meanwhile, unless a request fails; those before it *)
(* are not promised anything, since each answer is written into the last   *)
(* one (latitudeInput).                                                    *)
LastOriginLocated ==
    ~refused =>
        \A c \in DOMAIN attached :
            LET origins == OriginsIn[attached[c]]
            IN  origins # << >> /\ handler[Last(origins)] = c =>
                    Last(origins) \in located \/ waiting[c].origins > 0

(* No answer is lost on its way: rows and origins.                         *)
AnswersArrive == PressIsAnswered /\ LastOriginLocated

=============================================================================
