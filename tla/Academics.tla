------------------------------ MODULE Academics ------------------------------
(***************************************************************************)
(* What the academic-service keeps: the timetable of a branch, edited slot *)
(* by slot or generated by the engine around the sections that are kept,   *)
(* and the copies of a library book.                                       *)
(*                                                                         *)
(* A generated board is any board the engine may call solved: the solver   *)
(* is in TimetableEngine. The transaction that persists it is one step; a  *)
(* second one beside it may in fact also be refused or merged, and either  *)
(* way its problem was out of date. Subjects, rooms and days are left out; *)
(* times of day are numbers.                                               *)
(***************************************************************************)
EXTENDS Integers, FiniteSets, Sequences, Functions

CONSTANTS
    Office,       \* request handlers
    Class,        \* sections of the branch's current year
    Elsewhere,    \* sections of other years and branches with the same staff
    Start,        \* startTime of slots and periods
    Finish,       \* endTime of the slots entered by hand
    Grids,        \* period grids, the default and those requests bring: end by start
    Staff,
    Copies,       \* copies of the book
    MaxWrites     \* bound: slots added, boards generated, books lent

Vacant == "vacant"           \* no TimetableSlot row
Nobody == "nobody"           \* a row without staffId

ASSUME AcademicsAssumption ==
    /\ Class \cap Elsewhere = {} /\ Start \subseteq Nat /\ Finish \subseteq Nat
    /\ \A g \in Grids : DOMAIN g \subseteq Start /\ \A s \in DOMAIN g : g[s] \in Nat
    /\ {Vacant, Nobody} \cap Staff = {}
    /\ IsFiniteSet(Office) /\ Copies \in Nat /\ MaxWrites \in Nat

Place == (Class \cup Elsewhere) \X Start

VARIABLES
    grid,       \* TimetableSlot rows by section and startTime: the teacher
    till,       \* their endTime, 0 where there is no row
    available,  \* availableCopies of the book
    loans,      \* BookIssue rows: their status
    desk,       \* what each handler has read
    writes,     \* work begun so far
    behind,     \* handlers that others' insertions have overtaken
    crossed     \* what an overtaken handler, or a dead one, has written

books == <<available, loans>>
academicsVars == <<grid, till, books, desk, writes, behind, crossed>>

AtDesk(h, pc) == desk[h].pc = pc
Takes(h, s) == desk' = [desk EXCEPT ![h] = s]
NoWork == [pc |-> "free"]
Starts(h, s) ==
    /\ desk[h] = NoWork /\ writes < MaxWrites
    /\ writes' = writes + 1 /\ Takes(h, s)

AcademicsInit ==
    /\ grid = [p \in Place |-> Vacant] /\ till = [p \in Place |-> 0]
    /\ available = Copies /\ loans = <<>>
    /\ desk = [h \in Office |-> NoWork]
    /\ writes = 0 /\ behind = {} /\ crossed = {}

Filled == {p \in Place : grid[p] # Vacant}

\* Rows appear: whoever still works with the rows as they were before is behind.
Inserted(h) ==
    /\ behind' = (behind \cup {g \in Office : desk[g].pc \in {"add", "solve"}}) \ {h}
    /\ crossed' = IF h \in behind THEN crossed \cup {"grid"} ELSE crossed

-----------------------------------------------------------------------------
(* POST and DELETE /timetable/slots.                                        *)

\* Only the startTime is compared.
Clash(place, who) ==
    \E p \in Place : p[1] # place[1] /\ p[2] = place[2] /\ grid[p] = who

CheckSlot(h, place, who, end) ==
    /\ who = Nobody \/ ~Clash(place, who)
    /\ Starts(h, [pc |-> "add", place |-> place, who |-> who, end |-> end])
    /\ UNCHANGED <<grid, till, books, behind, crossed>>

\* One row per section, day and start time: a second one is refused.
AddSlot(h) ==
    LET r == desk[h]
    IN  /\ AtDesk(h, "add")
        /\ Takes(h, NoWork)
        /\ IF grid[r.place] = Vacant
           THEN /\ grid' = [grid EXCEPT ![r.place] = r.who]
                /\ till' = [till EXCEPT ![r.place] = r.end] /\ Inserted(h)
           ELSE behind' = behind \ {h} /\ UNCHANGED <<grid, till, crossed>>
        /\ UNCHANGED <<books, writes>>

DeleteSlot(place) ==
    /\ grid[place] # Vacant
    /\ grid' = [grid EXCEPT ![place] = Vacant] /\ till' = [till EXCEPT ![place] = 0]
    /\ UNCHANGED <<books, desk, writes, behind, crossed>>

-----------------------------------------------------------------------------
(* generateAndPersist.                                                      *)

\* Mutant: no row is locked.
LockedNone(keep, bells) == {}

\* The rows of the kept sections that start with a period and have a teacher.
Locked(keep, bells) ==
    {p \in Filled : p[1] \in keep /\ p[2] \in DOMAIN bells /\ grid[p] # Nobody}

BuildProblem(h, keep, bells) ==
    /\ Starts(h, [pc |-> "solve", keep |-> keep, bells |-> bells,
                  locks |-> Restrict(grid, Locked(keep, bells))])
    /\ UNCHANGED <<grid, till, books, behind, crossed>>

\* What the engine may call solved: locks in place, nobody twice at a time.
Solved(locks, bells) ==
    {b \in [Class \X DOMAIN bells -> Staff \cup {Vacant}] :
        /\ \A p \in DOMAIN locks : b[p] = locks[p]
        /\ \A p, q \in DOMAIN b :
              p # q /\ p[2] = q[2] /\ b[p] # Vacant => b[p] # b[q]}

\* The replaced sections lose every row and get the board's. With nothing solved
\* nothing is written.
Persist(h) ==
    LET r == desk[h]
        new == {p \in Place : p[1] \in Class \ r.keep}
    IN  /\ AtDesk(h, "solve")
        /\ Takes(h, NoWork)
        /\ \/ \E b \in Solved(r.locks, r.bells) :
                 LET taught == {p \in new \cap DOMAIN b : b[p] # Vacant}
                 IN  /\ grid' = [p \in Place |-> IF p \in taught THEN b[p]
                                                ELSE IF p \in new THEN Vacant ELSE grid[p]]
                     /\ till' = [p \in Place |-> IF p \in taught THEN r.bells[p[2]]
                                                ELSE IF p \in new THEN 0 ELSE till[p]]
                     /\ Inserted(h)
           \/ behind' = behind \ {h} /\ UNCHANGED <<grid, till, crossed>>
        /\ UNCHANGED <<books, writes>>

-----------------------------------------------------------------------------
(* POST /library/issue and /library/return.                                 *)

FindBook(h) ==
    /\ available > 0
    /\ Starts(h, [pc |-> "lend"])
    /\ crossed' = IF \E g \in Office : desk[g].pc \in {"lend", "decrement"}
                  THEN crossed \cup {"lend"} ELSE crossed
    /\ UNCHANGED <<grid, till, books, behind>>

CreateIssue(h) ==
    /\ AtDesk(h, "lend")
    /\ loans' = Append(loans, "ISSUED")
    /\ Takes(h, [pc |-> "decrement"])
    /\ UNCHANGED <<grid, till, available, writes, behind, crossed>>

Decrement(h) ==
    /\ AtDesk(h, "decrement")
    /\ available' = available - 1
    /\ Takes(h, NoWork)
    /\ UNCHANGED <<grid, till, loans, writes, behind, crossed>>

FindIssue(h, n) ==
    /\ desk[h] = NoWork
    /\ loans[n] # "RETURNED"
    /\ Takes(h, [pc |-> "return", n |-> n])
    /\ UNCHANGED <<grid, till, books, writes, behind, crossed>>

CloseIssue(h) ==
    LET n == desk[h].n
    IN  /\ AtDesk(h, "return")
        /\ loans' = [loans EXCEPT ![n] = "RETURNED"]
        /\ crossed' = IF loans[n] = "RETURNED" THEN crossed \cup {"return"} ELSE crossed
        /\ Takes(h, [pc |-> "increment"])
        /\ UNCHANGED <<grid, till, available, writes, behind>>

Increment(h) ==
    /\ AtDesk(h, "increment")
    /\ available' = available + 1
    /\ Takes(h, NoWork)
    /\ UNCHANGED <<grid, till, loans, writes, behind, crossed>>

\* The process dies, or a statement throws: a count may stay undone.
HandlerDies(h) ==
    /\ desk[h] # NoWork
    /\ Takes(h, NoWork)
    /\ behind' = behind \ {h}
    /\ crossed' = IF desk[h].pc \in {"decrement", "increment"}
                  THEN crossed \cup {"return"} ELSE crossed
    /\ UNCHANGED <<grid, till, books, writes>>

Schedule(h) ==
    \/ \E p \in Place, who \in Staff \cup {Nobody}, end \in Finish : CheckSlot(h, p, who, end)
    \/ AddSlot(h) \/ Persist(h)
    \/ \E keep \in SUBSET Class, bells \in Grids : BuildProblem(h, keep, bells)
Lend(h) == FindBook(h) \/ CreateIssue(h) \/ Decrement(h)
Return(h) == (\E n \in DOMAIN loans : FindIssue(h, n)) \/ CloseIssue(h) \/ Increment(h)

AcademicsNext ==
    \/ \E h \in Office : Schedule(h) \/ Lend(h) \/ Return(h) \/ HandlerDies(h)
    \/ \E p \in Filled : DeleteSlot(p)

AcademicsSpec == AcademicsInit /\ [][AcademicsNext]_academicsVars

-----------------------------------------------------------------------------
(* Properties.                                                              *)

Meet(p, q) == p[2] < till[q] /\ q[2] < till[p]
HoursOf(g, p) == p[2] \in DOMAIN g /\ till[p] = g[p[2]]
Orderly(g) == \A s, u \in DOMAIN g : s < u => g[s] <= u

\* What is left of "a teacher cannot be in two places at once" (index.ts:485) when
\* endTime is never looked at (index.ts:507-509): whatever is added, deleted and
\* generated around kept sections, a teacher has no two rows of the branch's year
\* that start together, and two that overlap all the same are not two periods of
\* one grid: one was entered by hand with other hours, or for another grid. A
\* request that wrote with rows it had not seen is exempt.
TeacherInOnePlace ==
    "grid" \notin crossed =>
        \A p, q \in {r \in Filled : r[1] \in Class} :
            p # q /\ grid[p] # Nobody /\ grid[p] = grid[q] =>
                /\ p[2] # q[2]
                /\ Meet(p, q) => ~\E g \in Grids : Orderly(g) /\ HoursOf(g, p) /\ HoursOf(g, q)

Doing(pc) == Cardinality({h \in Office : AtDesk(h, pc)})

\* Copies on the shelf, lent out and in a handler's hands add up, unless a return
\* was done twice at once or a handler died; and no more are lent than there are,
\* unless two were lent at once.
ShelfAgrees ==
    "return" \notin crossed =>
        /\ available + Cardinality({n \in DOMAIN loans : loans[n] = "ISSUED"})
              = Copies + Doing("decrement") - Doing("increment")
        /\ "lend" \notin crossed => available >= 0

\* The grid and the shelf, of one service and apart from each other
\* (timetable.ts:123-160, academic-service index.ts).
SchoolHouseAgrees == TeacherInOnePlace /\ ShelfAgrees
=============================================================================
