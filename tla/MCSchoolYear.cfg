\* Enrolment: one application, two pupils, two years, two batches, two requests.
\* Academics: two requests at once, three in all, two sections and one elsewhere.
\* Engine: problems on two days of two periods, absences on a day of three;
\* of the four hours the search tries three at most.
CONSTANTS
    Clerk = {c1, c2}
    Applicant = {a1}
    Pupil = {s1, s2}
    LastYear = 2
    MaxBatches = 2
    Office = {c1, c2}
    Class = {"A", "B"}
    Elsewhere = {"X"}
    Start = {1, 2, 3}
    Finish = {4}
    Grids <- TwoGrids
    Staff = {"t1"}
    Copies = 1
    MaxWrites = 3
    Day = {"mo", "tu"}
    Periods = 2
    Teacher = {"t1", "t2", "t3", "t4"}
    Section = {"A", "B"}
    Subject = {"m", "n"}
    Room = {"hall", "lab"}
    Problems <- SmallProblems
    Absences <- SmallAbsences
    MaxRestarts = 2
    MaxCandidates = 3
SPECIFICATION YearSpec
CONSTRAINT Promised
SYMMETRY Symmetric
CHECK_DEADLOCK FALSE
INVARIANTS
    EnrolledOnce
    
    EngineTellsTruth
PROPERTIES
    ReversalRestores
