\* Exams: two requests at once on the rows of two pupils.
\* Pupils: five requests for two pupils, in an empty class and in one of eight.
CONSTANTS
    Clerk = {c1, c2}
    Pupil = {s1, s2}
    Score = {1}
    Child = {s1, s2}
    Desk = {c1, c2}
    Seated = {0, 8}
    MaxAsked = 5
SPECIFICATION SchoolSpec
SYMMETRY Symmetric
CHECK_DEADLOCK FALSE
INVARIANTS
    MarksAreReviewed
    PupilsAgree
PROPERTIES
    PublishedIsFrozen
