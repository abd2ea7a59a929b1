----------------------------- MODULE PlanCursos -----------------------------
(***************************************************************************)
(* What plan_de_estudios computes from the courses of one study plan:      *)
(* backend/app.py normalises them and adds them up, the controller renders *)
(* the semesters 1 .. duracion_semestres and accumulates their credits.    *)
(*                                                                         *)
(* The cycle of a course (curso_ciclo) is the sequence of its letters.     *)
(* Hours are added up like credits and left out.                           *)
(***************************************************************************)
EXTENDS Integers, Sequences, SequencesExt

(* A course of the catalogue; credits may be fractions, and count in units *)
(* that make them integers.                                                *)
Curso == [ciclo : Seq(STRING), creditos : Int, area : STRING]

SinCiclo == 99  \* the semester of a course whose cycle cannot be read

(* The table of app.py, in the order in which its keys are tried.          *)
romans ==
    << <<<<"M">>, 1000>>, <<<<"C", "M">>, 900>>, <<<<"D">>, 500>>, <<<<"C", "D">>, 400>>,
       <<<<"C">>, 100>>,  <<<<"X", "C">>, 90>>,  <<<<"L">>, 50>>,  <<<<"X", "L">>, 40>>,
       <<<<"X">>, 10>>,   <<<<"I", "X">>, 9>>,   <<<<"V">>, 5>>,   <<<<"I", "V">>, 4>>,
       <<<<"I">>, 1>> >>

(* Takes every occurrence of the key off the front and adds its value.     *)
Strip(state, entry) ==
    LET key == entry[1]
        w == Len(key)
        Repeats(n) == w * n <= Len(state.rest)
                      /\ \A i \in 1 .. w * n : state.rest[i] = key[((i - 1) % w) + 1]
        n == CHOOSE n \in 0 .. Len(state.rest) : Repeats(n) /\ ~Repeats(n + 1)
    IN  [result |-> state.result + n * entry[2],
         rest |-> SubSeq(state.rest, w * n + 1, Len(state.rest))]

(* Letters that no key matches end the reading: what was read counts.      *)
mapCiclo(ciclo) ==
    LET read == FoldLeft(Strip, [result |-> 0, rest |-> ciclo], romans)
    IN  IF read.result > 0 THEN read.result ELSE SinCiclo

Areas == {"General", "Especifico", "Especialidad"}

normalizeArea(area) ==
    CASE area \in {"G", "GENERAL"}             -> "General"
      [] area \in {"S", "ESP", "ESPECIALIDAD"} -> "Especialidad"
      [] area \in {"", "E", "ESPECIFICO"}      -> "Especifico"
      [] OTHER                                 -> area

process_curso(c) ==
    [semestre |-> mapCiclo(c.ciclo), creditos |-> c.creditos, area |-> normalizeArea(c.area)]

(* A loop that adds up numbers.                                            *)
Plus(sum, n) == sum + n
SumOf(numbers) == FoldLeft(Plus, 0, numbers)

(* How many courses a counter counts, and their credits.                   *)
Number(cursos, Counts(_)) ==
    SumOf([k \in DOMAIN cursos |-> IF Counts(cursos[k]) THEN 1 ELSE 0])
Creditos(cursos, Counts(_)) ==
    SumOf([k \in DOMAIN cursos |-> IF Counts(cursos[k]) THEN cursos[k].creditos ELSE 0])

(* calculate_stats: a course of another area is in no counter of areas.    *)
calculate_stats(cursos) ==
    [total_cursos |-> Number(cursos, LAMBDA c : TRUE),
     total_creditos |-> Creditos(cursos, LAMBDA c : TRUE),
     estudios |-> [a \in Areas |-> Number(cursos, LAMBDA c : c.area = a)],
     creditos |-> [a \in Areas |-> Creditos(cursos, LAMBDA c : c.area = a)]]

(* group_courses_by_semester: the courses of a semester and their credits. *)
OfSemester(cursos, s) ==
    [rows |-> Number(cursos, LAMBDA c : c.semestre = s),
     creditos |-> Creditos(cursos, LAMBDA c : c.semestre = s)]

(* A mutant of Semesters: the last semester is missed.                     *)
SemestersButLast(duracion) == 1 .. duracion - 1

(* The loop over the semesters, in the page and in the PDF.                *)
Semesters(duracion) == 1 .. duracion

(* The rows of the tables and the credits accumulated in the last footer.  *)
Render(cursos, duracion) ==
    [rows |-> SumOf([s \in Semesters(duracion) |-> OfSemester(cursos, s).rows]),
     acumulado |-> SumOf([s \in Semesters(duracion) |-> OfSemester(cursos, s).creditos])]

=============================================================================
