\* Attendance: two pupils, two statuses, two sessions, two requests at once; three
\* requests in all, two in the part that has the leaves and the staff row.
\* Outbox: two sheets, two saves, two passes at once.
\* Notices: two families that share a guardian, three scans, two at once.
\* The two workers w1, w2 stand for what runs at once in each part.
\* Chat: one pupil and two rooms on two instances, two posts, pages of one
\* message, two faults.
CONSTANTS
    Caller = {w1, w2}
    Pupil = {s1, s2}
    AttendanceStatus = {"PRESENT", "ON_LEAVE"}
    Slot = {"day", "first"}
    MaxSessions = 2
    MaxRequests = 3
    Sheet = {x, y}
    Pass = {w1, w2}
    GiveUpAt = 2
    Buttons = {"offline", "online"}
    MaxSaves = 2
    MaxBatches = 2
    Child = {"a", "b"}
    Guardian = {"g", "h"}
    Parents <- Siblings
    Exam = {"e"}
    Scanner = {w1, w2}
    MaxScans = 3
    MaxChanges = 2
    Member = {"p"}
    Student = {"p"}
    Room = {"A", "B"}
    Server = {x, y}
    Request = {w1, w2}
    PageSize = 1
    MaxPosts = 2
    MaxFaults = 2
SPECIFICATION DaySpec
SYMMETRY Symmetric
CHECK_DEADLOCK FALSE
INVARIANTS
    RecordsAgree
    SaveIsKept
    NoticesAreTold
    SeesTheRoom
