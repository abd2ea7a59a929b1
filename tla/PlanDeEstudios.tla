--------------------------- MODULE PlanDeEstudios ---------------------------
(***************************************************************************)
(* The module plan_de_estudios: a visitor of the site of a study program   *)
(* sees the block with its plans, follows a link and gets the page (or the *)
(* PDF) of a plan.                                                         *)
(*                                                                         *)
(*   MiProgramaBlock::build()         asks /programas/<site>/planes        *)
(*   isValidPlanForCurrentProgram()   asks it again                        *)
(*   getProgramaCompleto()            asks /plan/<uid>                     *)
(*                                                                         *)
(* Every answer of the backend (backend/app.py) is computed from a fresh   *)
(* download of the university's catalogue, so the three answers can come   *)
(* from three catalogues.  The visitor's three requests are the only ones: *)
(* visits share no state.                                                  *)
(***************************************************************************)
EXTENDS PlanCursos, FiniteSets

CONSTANTS
    Parts,          \* what names are written with; a name is a sequence of them
    Dash,           \* the part "-"
    Sites,          \* names of the sites' folders
    Numeric,        \* those that is_numeric() accepts: the id of a program
    Zero,           \* the name "0": as a folder, PHP takes it for false
    Programs,       \* values of "programa" in the catalogue
    NoProgram,      \* the item has no "programa"
    Versions,       \* values of "version_curricula"
    NoVersion,      \* the item has no version
    FirstVersion,   \* the default of generateUid, '1'
    CourseLists,    \* lists of courses
    Durations,      \* values of duracion_semestres
    MaxItems,       \* bound: items in the catalogue
    MaxChanges,     \* bound: changes of the catalogue
    NoItem          \* nothing shown, nothing clicked

ASSUME SiteAssumption == Numeric \subseteq Sites /\ Zero \in Sites
ASSUME NameAssumption ==
    /\ Dash \in Parts
    /\ Sites \subseteq Seq(Parts) /\ Programs \subseteq Seq(Parts)
    /\ Versions \subseteq Seq(Parts) /\ FirstVersion \in Seq(Parts)
    /\ NoProgram \notin Seq(Parts) /\ NoVersion \notin Seq(Parts)
ASSUME CourseAssumption == CourseLists \subseteq Seq(Curso) /\ Durations \subseteq Nat
ASSUME BoundAssumption == MaxItems \in Nat /\ MaxChanges \in Nat
Item == [programa: Programs \union {NoProgram}, version: Versions \union {NoVersion},
         duracion: Durations, cursos: CourseLists]

ASSUME NoItemAssumption == NoItem \notin Item

VARIABLES
    catalogue,  \* the university's list of plans
    changes,    \* bound: how often it has changed
    site,       \* the site that the visitor is on
    stage,      \* "home", "block", "asked", "checked", and where it ends:
                \* "page", "denied", "front" or "error"
    listed,     \* the items of the block
    clicked,    \* the item whose link was followed, NoItem for a typed address
    uid,        \* the plan asked for
    shown,      \* the item of the page
    trouble,    \* ghost: a call to the backend failed in this visit
    moved       \* ghost: the catalogue changed since the block was built

visit == <<stage, listed, clicked, uid, shown, trouble>>
vars == <<catalogue, changes, site, visit, moved>>

-----------------------------------------------------------------------------
(* The backend                                                             *)

ProgramOf(item) == IF item.programa = NoProgram THEN Zero ELSE item.programa
VersionOf(item) == IF item.version = NoVersion THEN FirstVersion ELSE item.version

(* f"{prog_id}-{version}": names may have dashes of their own, and one uid *)
(* then stands for several pairs ("1-2" and "1", "1" and "2-1").           *)
UidOf(programa, version) == programa \o <<Dash>> \o version

(* Mutant of generateUid: the id of the program is left out.               *)
uid_of_version(item) == UidOf(Zero, VersionOf(item))

generateUid(item) == UidOf(ProgramOf(item), VersionOf(item))

Uids == {UidOf(p, v) : p \in Programs \union {Zero}, v \in Versions \union {FirstVersion}}

filter_by_programa(p) == {i \in Range(catalogue) : i.programa = p}

(* get_plan_completo: the first item of the catalogue with this uid.       *)
(* Mutants: only the first item is looked at; a later item replaces an     *)
(* earlier one.                                                            *)
HasPlan_first(u) == Len(catalogue) > 0 /\ generateUid(catalogue[1]) = u
HasPlan(u) == \E k \in 1 .. Len(catalogue) : generateUid(catalogue[k]) = u
PlanOf_last(u) ==
    catalogue[CHOOSE k \in 1 .. Len(catalogue) :
                /\ generateUid(catalogue[k]) = u
                /\ \A j \in k + 1 .. Len(catalogue) : generateUid(catalogue[j]) # u]
PlanOf(u) ==
    catalogue[CHOOSE k \in 1 .. Len(catalogue) :
                /\ generateUid(catalogue[k]) = u
                /\ \A j \in 1 .. k - 1 : generateUid(catalogue[j]) # u]

(* How a call ends.  The backend waits 15 s for the catalogue, Drupal 10 s *)
(* for a list of plans and 15 s for a plan: a slow catalogue is in time    *)
(* for the plan only.                                                      *)
Calls == {"fast", "slow", "offline"}
ListInTime(call) == call = "fast"
PlanInTime(call) == call # "offline"

-----------------------------------------------------------------------------
(* The visit                                                               *)

(* The block is only built on the site of a program.                       *)
BuildBlock ==
    /\ stage = "home" /\ site \in Numeric
    /\ \E call \in Calls :
        IF ListInTime(call)
        THEN /\ listed' = filter_by_programa(site)
             /\ stage' = "block"
             /\ UNCHANGED trouble
        ELSE /\ stage' = "error"
             /\ trouble' = TRUE
             /\ UNCHANGED listed
    /\ moved' = FALSE
    /\ UNCHANGED <<catalogue, changes, site, clicked, uid, shown>>

FollowLink ==
    /\ stage = "block"
    /\ \E i \in listed :
        /\ clicked' = i
        /\ uid' = generateUid(i)
    /\ stage' = "asked"
    /\ UNCHANGED <<catalogue, changes, site, listed, shown, trouble, moved>>

(* The address of a plan, from a bookmark or from another site.            *)
TypeAddress ==
    /\ stage = "home"
    /\ uid' \in Uids
    /\ stage' = "asked"
    /\ moved' = FALSE
    /\ UNCHANGED <<catalogue, changes, site, listed, clicked, shown, trouble>>

CurrentProgram == site \in Numeric /\ site # Zero

(* isValidPlanForCurrentProgram: whatever goes wrong denies the access.    *)
CheckPlan ==
    /\ stage = "asked"
    /\ \E call \in Calls :
        /\ trouble' = (trouble \/ (CurrentProgram /\ ~ListInTime(call)))
        /\ stage' = IF /\ CurrentProgram
                       /\ ListInTime(call)
                       /\ \E i \in filter_by_programa(site) : generateUid(i) = uid
                    THEN "checked" ELSE "denied"
    /\ UNCHANGED <<catalogue, changes, site, listed, clicked, uid, shown, moved>>

(* getProgramaCompleto and the page: the plan is fetched by its uid alone. *)
FetchPlan ==
    /\ stage = "checked"
    /\ \E call \in Calls :
        IF PlanInTime(call) /\ HasPlan(uid)
        THEN stage' = "page" /\ shown' = PlanOf(uid) /\ UNCHANGED trouble
        ELSE stage' = "front" /\ trouble' = (trouble \/ ~PlanInTime(call)) /\ UNCHANGED shown
    /\ UNCHANGED <<catalogue, changes, site, listed, clicked, uid, moved>>

(* A new visit.                                                            *)
Leave ==
    /\ stage \in {"page", "denied", "front", "error", "block"}
    /\ stage' = "home"
    /\ listed' = {} /\ clicked' = NoItem /\ shown' = NoItem
    /\ trouble' = FALSE /\ moved' = FALSE
    /\ UNCHANGED <<catalogue, changes, site, uid>>

(* The university adds a plan at either end or removes one.                *)
ChangeCatalogue ==
    /\ changes < MaxChanges
    /\ changes' = changes + 1
    /\ \/ /\ Len(catalogue) < MaxItems
          /\ \E i \in Item : catalogue' \in {<<i>> \o catalogue, catalogue \o <<i>>}
       \/ \E k \in 1 .. Len(catalogue) : catalogue' = RemoveAt(catalogue, k)
    /\ moved' = TRUE
    /\ UNCHANGED <<site, visit>>

Init ==
    /\ catalogue \in UNION {[1 .. n -> Item] : n \in 0 .. MaxItems}
    /\ changes = 0
    /\ site \in Sites
    /\ stage = "home" /\ listed = {} /\ clicked = NoItem
    /\ uid = UidOf(Zero, FirstVersion)
    /\ shown = NoItem
    /\ trouble = FALSE /\ moved = FALSE

Next ==
    \/ BuildBlock \/ FollowLink \/ TypeAddress \/ CheckPlan \/ FetchPlan \/ Leave
    \/ ChangeCatalogue

Spec == Init /\ [][Next]_vars

-----------------------------------------------------------------------------
(* Properties                                                              *)

(* One name goes on with a dash where the other ends.                      *)
Continues(longer, name) ==
    /\ Len(name) < Len(longer)
    /\ SubSeq(longer, 1, Len(name) + 1) = name \o <<Dash>>

(* A site shows the plan that was checked, and the plan is of its program: *)
(* although the check and the page use two downloads of the catalogue and  *)
(* the page looks for the uid in all programs.  The exception is a program *)
(* whose name goes on with a dash where that of the site ends, or ends     *)
(* where that of the site goes on: the uid of its plan can then be read as *)
(* that of a version of the site's own program.                            *)
ShownIsOfThisSite ==
    stage = "page" =>
        /\ generateUid(shown) = uid
        /\ \E v \in Versions \union {FirstVersion} : uid = UidOf(site, v)
        /\ \/ shown.programa = site
           \/ Continues(ProgramOf(shown), site)
           \/ Continues(site, ProgramOf(shown))

(* The page is the plan whose link was followed, unless the catalogue has  *)
(* changed in between or a plan in front of it has the same uid (the same  *)
(* version, none and version 1, or other names that are written alike).    *)
ShownIsTheClicked ==
    stage = "page" /\ clicked # NoItem /\ ~moved =>
        \/ shown = clicked
        \/ \E j, k \in 1 .. Len(catalogue) :
              /\ j < k /\ catalogue[j] = shown /\ catalogue[k] = clicked
              /\ generateUid(shown) = generateUid(clicked)

(* A link of the block opens its plan.  It fails when the backend fails,   *)
(* when the catalogue has changed and on the site "0", whose block lists   *)
(* plans that the controller refuses.                                      *)
LinksOpen ==
    stage \in {"denied", "front"} /\ clicked # NoItem =>
        trouble \/ moved \/ site = Zero

(* What the page adds up is what its tables show, but for the courses of   *)
(* semesters beyond the duration (an unread cycle is semester 99) and, in  *)
(* the summary by area, for the courses of an unknown area.                *)
TotalsExplained ==
    stage = "page" =>
        LET cursos == [k \in 1 .. Len(shown.cursos) |-> process_curso(shown.cursos[k])]
            stats == calculate_stats(cursos)
            page == Render(cursos, shown.duracion)
            Hidden(c) == c.semestre > shown.duracion
            Unknown(c) == c.area \notin Areas
        IN  /\ stats.total_cursos = page.rows + Number(cursos, Hidden)
            /\ stats.total_creditos = page.acumulado + Creditos(cursos, Hidden)
            /\ stats.total_creditos =
                  Creditos(cursos, Unknown) + stats.creditos["General"]
                  + stats.creditos["Especifico"] + stats.creditos["Especialidad"]

=============================================================================
