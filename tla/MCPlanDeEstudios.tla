-------------------------- MODULE MCPlanDeEstudios --------------------------
(* Small instances of PlanDeEstudios for TLC.                              *)
EXTENDS PlanDeEstudios

CONSTANTS zero, one, two, dash, default

(* Folders "0", "1" and "default"; programs "0", "1" and "1-2"; versions   *)
(* "1" and "2-1".                                                          *)
Folder0 == <<zero>>
MCSites == {Folder0, <<one>>, <<default>>}
MCNumeric == {Folder0, <<one>>}
MCPrograms == {Folder0, <<one>>, <<one, dash, two>>}
Version1 == <<one>>
MCVersions == {Version1, <<two, dash, one>>}

Taught(ciclo, creditos, area) == [ciclo |-> ciclo, creditos |-> creditos, area |-> area]

(* Cycles within and beyond two semesters, one that is not roman, an area  *)
(* that has no counter.                                                    *)
MCCourseLists ==
    { <<Taught(<<"I">>, 1, "G"), Taught(<<"I", "I">>, 2, "ESP"), Taught(<<"I", "I">>, 4, "")>>,
      <<Taught(<<"I", "I", "I">>, 1, "E"), Taught(<<"2">>, 2, "X"), Taught(<<"I">>, 4, "S")>> }

=============================================================================
