---------------------------- MODULE MCSchoolYear -----------------------------
(* A school's year for TLC: admissions and promotion, the academic-service  *)
(* and the timetable engine. The models share no table and no call, so      *)
(* their steps commute: each behaviour follows one of them, the part its    *)
(* initial state names.                                                     *)
EXTENDS Enrolment, Academics, TimetableEngine, TLC

VARIABLE part

\* The office's requests and the clerks' are the same model values.
Symmetric == Permutations(Clerk) \cup Permutations(Pupil)

\* A behaviour is followed until the enrolments are no longer promised anything.
Promised == ~raced /\ ~tangled

\* The default grid, of two periods, and one that a request brings.
TwoGrids == {1 :> 3 @@ 3 :> 5, 2 :> 4}

Rule(day, week, off, spaced) ==
    [maxPerDay |-> day, maxPerWeek |-> week, off |-> off, spaced |-> spaced]
Ask(section, subject, teacher, n, kind, doubles) ==
    [section |-> section, subject |-> subject, teacher |-> teacher, perWeek |-> n,
     maxPerDay |-> 1, doubles |-> doubles, kind |-> kind]
Lock(day, n, section, subject, teacher) ==
    [at |-> <<day, n>>, section |-> section, subject |-> subject, teacher |-> teacher,
     room |-> Unmanaged]

\* One teacher under each rule in turn, another who misses one hour.
Rules == {[t1 |-> rule, t2 |-> Rule(1, 0, {<<"mo", 1>>}, FALSE)] : rule \in
             {Rule(1, 2, {}, FALSE), Rule(2, 0, {}, TRUE), Rule(2, 3, {}, FALSE),
              Rule(2, 2, {<<"mo", 1>>, <<"mo", 2>>}, FALSE),
              Rule(2, 0, {<<"mo", 1>>, <<"mo", 2>>}, FALSE),
              Rule(2, 0, {<<"mo", 1>>, <<"tu", 2>>}, TRUE)}}

Demands == {<<Ask("A", "m", "t1", 2, "", doubles), Ask("A", "n", second, 1, "LAB", FALSE),
              Ask("B", "n", "t2", 2, "LAB", FALSE)>> :
                doubles \in BOOLEAN, second \in {"t1", "t2"}}

\* No lock, one, two, one of another teacher, more than are asked for, one of no
\* teacher.
Locks == {{}, {Lock("mo", 1, "A", "m", "t1")},
          {Lock("mo", 2, "A", "m", "t1"), Lock("mo", 1, "B", "n", "t2")},
          {Lock("tu", 1, "B", "n", "t1")},
          {Lock("tu", 1, "A", "n", "t2"), Lock("mo", 2, "A", "n", "t2")},
          {Lock("mo", 1, "B", "n", NoTeacher)}}

Rooms == {<<>>, <<[id |-> "hall", kind |-> "", capacity |-> 0],
                  [id |-> "lab", kind |-> "LAB", capacity |-> 30]>>}

SmallProblems ==
    {[teacher |-> rules, demands |-> ds, locked |-> k, rooms |-> rooms,
      strength |-> [A |-> 20, B |-> 30]] :
        rules \in Rules, ds \in Demands, k \in Locks, rooms \in Rooms}

\* A day of three periods; t1, or t1 and t2, are absent; t3 and t4 may cover.
Lesson(n, teacher, subject) == [period |-> n, teacher |-> teacher, subject |-> subject]
SmallAbsences ==
    {[table |-> <<Lesson(1, "t1", "m"), Lesson(1, "t2", "n"), Lesson(2, "t1", "n"),
                  Lesson(n, "t3", "m"), Lesson(3, "t2", "m")>>,
      absent |-> absent, cap |-> [t \in Teacher |-> cap],
      qualified |-> [m |-> able, n |-> {}]] :
        n \in {1, 3}, absent \in {{"t1"}, {"t1", "t2"}}, cap \in {1, 2, 3},
        able \in {{}, {"t1", "t4"}}}

YearInit ==
    /\ part \in {"enrolment", "academics", "engine"}
    /\ EnrolmentInit /\ AcademicsInit
    /\ IF part = "engine" THEN EngineInit ELSE EngineRests

YearNext ==
    \/ part = "enrolment" /\ EnrolmentNext /\ UNCHANGED <<part, academicsVars, engineVars>>
    \/ part = "academics" /\ AcademicsNext /\ UNCHANGED <<part, enrolmentVars, engineVars>>
    \/ part = "engine" /\ EngineNext /\ UNCHANGED <<part, enrolmentVars, academicsVars>>

YearSpec == YearInit /\ [][YearNext]_<<part, enrolmentVars, academicsVars, engineVars>>
=============================================================================
