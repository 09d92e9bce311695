------------------------------- MODULE MCExams -------------------------------
(* The marks of an examination for TLC, and the files of pupils with their  *)
(* consents and erasures. The models share no table, so their steps commute: *)
(* each behaviour follows one of them.                                      *)
EXTENDS Exams, Pupils

VARIABLE part

\* The requests of both parts are the same model values, and so are the pupils.
Symmetric == Permutations(Clerk) \cup Permutations(Pupil)

SchoolInit ==
    /\ Init /\ PupilInit
    /\ part \in {"exams", "pupils"}
    /\ part = "pupils" \/ seats = {}

SchoolNext ==
    \/ part = "exams" /\ Next /\ UNCHANGED <<part, pupilVars>>
    \/ part = "pupils" /\ PupilNext /\ UNCHANGED <<part, vars>>

SchoolSpec == SchoolInit /\ [][SchoolNext]_<<part, vars, pupilVars>>
=============================================================================
