--------------------------- MODULE TimetableEngine ---------------------------
(***************************************************************************)
(* The timetable engine (apps/timetable-engine): the solver's backtracking *)
(* search over a weekly grid, with its restarts and the occupancy mirrors  *)
(* it keeps instead of looking at the board, and the cover suggested for   *)
(* absent teachers. CheckFull is the engine's own definition of a legal    *)
(* board; the search is compared with it.                                  *)
(*                                                                         *)
(* A shuffle of the candidates is a free choice of the next one, and any   *)
(* MaxCandidates of them may be the first in the order of the days. The    *)
(* defaults of the caps are filled in already, and no lock is listed       *)
(* twice. Ids, details of violations and the order a result is printed in  *)
(* are left out.                                                           *)
(***************************************************************************)
EXTENDS Naturals, FiniteSets, Sequences, Functions, FiniteSetsExt

CONSTANTS
    Day,
    Periods,        \* periods per day
    Teacher,
    Section,
    Subject,
    Room,           \* the rooms a spec may list
    Problems,       \* the problems posted to /timetable/generate
    Absences,       \* the days posted to /timetable/substitutions
    MaxRestarts,
    MaxCandidates   \* the hours search tries for a lesson, 64 in the code

Hour == Day \X (1 .. Periods)
Unmanaged == ""
NoFit == "none"
NoTeacher == ""
NoHour == <<>>
NoCover == [table |-> <<>>, todo |-> {}]
NoProblem == [teacher |-> <<>>, demands |-> <<>>, locked |-> {}, rooms |-> <<>>,
              strength |-> <<>>]

VARIABLES
    problem,    \* the spec: teachers, demands, locked lessons, rooms, strengths
    phase,      \* where Solve is
    mirror,     \* who is busy when, and the counts per day
    stack,      \* the lessons search has chosen, each with its untried hours
    attempt,    \* restarts so far
    gaveUp,     \* has the search left an hour untried, out of time or past the first?
    cover       \* a substitution request: lessons to cover, loads, suggestions

engineVars == <<problem, phase, mirror, stack, attempt, gaveUp, cover>>

-----------------------------------------------------------------------------
(* constraints.go: a board is a set of lessons.                             *)

Demand(p) == DOMAIN p.demands
Slot == [at : Hour, section : Section, subject : Subject,
         teacher : Teacher \cup {NoTeacher}, room : Room \cup {Unmanaged}]
Wants(d, l) == l.section = d.section /\ l.subject = d.subject
Held(d, board) == {l \in board : Wants(d, l)}
Taught(t, board) == {l \in board : l.teacher = t}
OnDay(board, wday) == {l \in board : l.at[1] = wday}

\* H1, H2, H3: nobody and nothing is in two places at once, and two lessons of
\* no teacher (locks) are one teacher's too.
NoClash(board) ==
    \A a, b \in board : a # b /\ a.at = b.at =>
        /\ a.teacher # b.teacher
        /\ a.section # b.section
        /\ a.room = Unmanaged \/ a.room # b.room

\* H4 to H7, for the teachers the spec lists.
TeachersKept(p, board) ==
    \A t \in DOMAIN p.teacher :
        LET rule == p.teacher[t]
            mine == Taught(t, board)
        IN  /\ \A l \in mine : l.at \notin rule.off
            /\ \A wday \in Day : Cardinality(OnDay(mine, wday)) <= rule.maxPerDay
            /\ rule.maxPerWeek > 0 => Cardinality(mine) <= rule.maxPerWeek
            /\ rule.spaced => \A a, b \in mine :
                  ~(a.at[1] = b.at[1] /\ a.at[2] = b.at[2] + 1)

\* H8.
SubjectsSpread(p, board) ==
    \A i \in Demand(p) : LET d == p.demands[i] IN
        d.doubles \/ \A wday \in Day :
            Cardinality(OnDay(Held(d, board), wday)) <= d.maxPerDay

RoomFits(p, d, room) ==
    /\ d.kind = "" \/ room.kind = d.kind
    /\ room.capacity = 0 \/ p.strength[d.section] <= room.capacity

\* H9, H10: a lesson no demand asks for has no kind.
RoomsFit(p, board) ==
    \A l \in board : l.room # Unmanaged /\ p.rooms # <<>> =>
        \E n \in DOMAIN p.rooms :
            /\ p.rooms[n].id = l.room
            /\ \A i \in Demand(p) :
                  Wants(p.demands[i], l) => RoomFits(p, p.demands[i], p.rooms[n])
            /\ p.rooms[n].capacity = 0 \/ p.strength[l.section] <= p.rooms[n].capacity

\* H11: a lock need not name a teacher.
LocksKept(p, board) ==
    \A k \in p.locked : \E l \in board :
        /\ l.at = k.at /\ l.section = k.section /\ l.subject = k.subject
        /\ k.teacher = NoTeacher \/ l.teacher = k.teacher

DemandMet(p, board) ==
    \A i \in Demand(p) :
        Cardinality(Held(p.demands[i], board)) = p.demands[i].perWeek

\* Every hard rule but the demand, which a board of locks alone cannot meet.
Lawful(p, board) ==
    NoClash(board) /\ TeachersKept(p, board) /\ SubjectsSpread(p, board)
    /\ RoomsFit(p, board) /\ LocksKept(p, board)
CheckFull(p, board) == Lawful(p, board) /\ DemandMet(p, board)

\* What validate() lets through, where caps, capacities and strengths are counts;
\* and the lists of a day.
ProblemOK(p) ==
    /\ DOMAIN p.teacher \subseteq Teacher
    /\ \A t \in DOMAIN p.teacher : p.teacher[t].maxPerDay \in Nat /\ p.teacher[t].maxPerWeek \in Nat
    /\ IsFiniteSet(Demand(p)) /\ Demand(p) \subseteq Nat
    /\ \A i \in Demand(p) :
          /\ p.demands[i].section \in Section /\ p.demands[i].subject \in Subject
          /\ p.demands[i].teacher \in DOMAIN p.teacher
          /\ p.demands[i].perWeek \in Nat /\ p.demands[i].maxPerDay \in Nat
          /\ \A j \in Demand(p) : Wants(p.demands[i], p.demands[j]) => i = j
    /\ IsFiniteSet(p.locked) /\ p.locked \subseteq Slot
    /\ IsFiniteSet(DOMAIN p.rooms) /\ DOMAIN p.rooms \subseteq Nat
    /\ \A n \in DOMAIN p.rooms :
          p.rooms[n].id \in Room /\ p.rooms[n].capacity \in Nat
    /\ p.strength \in [Section -> Nat]

AbsenceOK(a) ==
    /\ IsFiniteSet(DOMAIN a.table) /\ DOMAIN a.table \subseteq Nat
    /\ a.cap \in [Teacher -> Nat]

ASSUME EngineAssumption ==
    /\ IsFiniteSet(Day) /\ Periods \in Nat \ {0} /\ MaxRestarts \in Nat \ {0}
    /\ MaxCandidates \in Nat \ {0}
    /\ Unmanaged \notin Room /\ NoFit \notin Room /\ NoTeacher \notin Teacher
    /\ \A p \in Problems : ProblemOK(p)
    /\ \A a \in Absences : AbsenceOK(a)

-----------------------------------------------------------------------------
(* solver.go: what is decided before the search.                            *)

Load(p, wanted) == SumFunctionOnSet([i \in Demand(p) |-> p.demands[i].perWeek], wanted)

DayCap(rule) ==
    IF rule.spaced THEN Min({rule.maxPerDay, (Periods + 1) \div 2}) ELSE rule.maxPerDay

StaticFeasibility(p) ==
    /\ \A s \in Section : Load(p, {i \in Demand(p) : p.demands[i].section = s}) <= Cardinality(Hour)
    /\ \A t \in DOMAIN p.teacher :
          LET total == Load(p, {i \in Demand(p) : p.demands[i].teacher = t})
              rule == p.teacher[t]
          IN  /\ rule.maxPerWeek > 0 => total <= rule.maxPerWeek
              /\ total <= DayCap(rule) * Cardinality(Day)
    /\ \A i \in Demand(p) : LET d == p.demands[i] IN
          /\ d.doubles \/ d.perWeek <= d.maxPerDay * Cardinality(Day)
          /\ d.kind # "" /\ p.rooms # <<>> =>
                \E n \in DOMAIN p.rooms : RoomFits(p, d, p.rooms[n])

\* The lessons to place: <<i, n>> is the n-th of demand i. Locks use up theirs.
Left(p, i) ==
    LET locks == Cardinality(Held(p.demands[i], p.locked))
    IN  IF p.demands[i].perWeek > locks THEN p.demands[i].perWeek - locks ELSE 0
ExpandDemands(p) == UNION {{i} \X (1 .. Left(p, i)) : i \in Demand(p)}

Lessons == ExpandDemands(problem)
DemandOf(i) == problem.demands[i[1]]

\* The mirrors of a board.
MirrorOf(board) ==
    [section |-> {<<l.section, l.at>> : l \in board},
     teacher |-> {<<l.teacher, l.at>> : l \in {b \in board : b.teacher # NoTeacher}},
     room    |-> {<<l.room, l.at>> : l \in {b \in board : b.room # Unmanaged}},
     subjectDay |-> [k \in Section \X Subject \X Day |->
         Cardinality({l \in board : <<l.section, l.subject, l.at[1]>> = k})],
     teacherDay |-> [k \in Teacher \X Day |->
         Cardinality({l \in board : <<l.teacher, l.at[1]>> = k})]]

ResetDynamic(p) == MirrorOf(p.locked)

-----------------------------------------------------------------------------
(* solver.go: one lesson in one hour, judged by the mirrors.                *)

\* The first room of the list that fits and is free.
PickRoom(d, c) ==
    LET fits == {n \in DOMAIN problem.rooms :
                    /\ RoomFits(problem, d, problem.rooms[n])
                    /\ <<problem.rooms[n].id, c>> \notin mirror.room}
    IN  IF problem.rooms = <<>> THEN Unmanaged
        ELSE IF fits = {} THEN NoFit
        ELSE problem.rooms[Min(fits)].id

Beside(c) == {<<c[1], c[2] + 1>>} \cup {h \in Hour : h[1] = c[1] /\ h[2] + 1 = c[2]}

CanPlace(d, c, room) ==
    LET rule == problem.teacher[d.teacher]
    IN  /\ <<d.section, c>> \notin mirror.section
        /\ <<d.teacher, c>> \notin mirror.teacher
        /\ c \notin rule.off
        /\ mirror.teacherDay[<<d.teacher, c[1]>>] + 1 <= rule.maxPerDay
        /\ rule.spaced => \A h \in Beside(c) : <<d.teacher, h>> \notin mirror.teacher
        /\ d.doubles \/ mirror.subjectDay[<<d.section, d.subject, c[1]>>] + 1 <= d.maxPerDay
        /\ room = Unmanaged \/ <<room, c>> \notin mirror.room

Candidates(d) ==
    {c \in Hour :
        /\ ~\E k \in problem.locked : k.section = d.section /\ k.at = c
        /\ PickRoom(d, c) # NoFit
        /\ CanPlace(d, c, PickRoom(d, c))}

\* The candidates search goes on to try.
Shortlists(hours) ==
    {few \in SUBSET hours : IF Cardinality(hours) <= MaxCandidates THEN few = hours
                            ELSE Cardinality(few) = MaxCandidates}

Placed == {stack[n].lesson : n \in DOMAIN stack}
Open == Lessons \ Placed
Degree(i) == Cardinality({j \in Lessons : DemandOf(j).teacher = DemandOf(i).teacher})

\* Fewest candidates first, then the busiest teacher, then the list's order.
MostConstrained ==
    LET count  == [i \in Open |-> Cardinality(Candidates(DemandOf(i)))]
        fewest == {i \in Open : \A j \in Open : count[i] <= count[j]}
        degree == [i \in fewest |-> Degree(i)]
        shared == {i \in fewest : \A j \in fewest : degree[i] >= degree[j]}
    IN  CHOOSE i \in shared : \A j \in shared : i[1] < j[1] \/ (i[1] = j[1] /\ i[2] <= j[2])

Put(f, d) == [at |-> f.at, section |-> d.section, subject |-> d.subject,
              teacher |-> d.teacher, room |-> f.room]
Board == problem.locked \cup {Put(stack[n], DemandOf(stack[n].lesson)) : n \in DOMAIN stack}

-----------------------------------------------------------------------------
(* substitutions.go: one suggestion per lesson of an absent teacher.        *)

\* A day's table in order: lessons with a period, a teacher and a subject.
StartCover(a) ==
    [table |-> a.table, absent |-> a.absent, cap |-> a.cap, qualified |-> a.qualified,
     todo |-> {n \in DOMAIN a.table : a.table[n].teacher \in a.absent},
     busy |-> {<<a.table[n].teacher, a.table[n].period>> : n \in DOMAIN a.table},
     load |-> [t \in Teacher |-> Cardinality({n \in DOMAIN a.table : a.table[n].teacher = t})],
     given |-> {}, uncovered |-> {}]

CanCover(l) == {t \in Teacher \ cover.absent :
    <<t, l.period>> \notin cover.busy /\ cover.load[t] + 1 <= cover.cap[t]}
Qualified(l, t) == cover.qualified[l.subject] = {} \/ t \in cover.qualified[l.subject]

\* Qualified first, then the smaller load of the day; ids decide the rest.
Preferred(l) ==
    {t \in CanCover(l) : \A u \in CanCover(l) :
        \/ Qualified(l, t) /\ ~Qualified(l, u)
        \/ Qualified(l, t) = Qualified(l, u) /\ cover.load[t] <= cover.load[u]}

Suggest(n, l) ==
    IF CanCover(l) = {} THEN cover' = [cover EXCEPT !.todo = @ \ {n}, !.uncovered = @ \cup {l}]
    ELSE \E t \in Preferred(l) :
        cover' = [cover EXCEPT !.todo = @ \ {n}, !.given = @ \cup {<<l, t>>},
                               !.load[t] = @ + 1, !.busy = @ \cup {<<t, l.period>>}]

SuggestSubstitutions ==
    /\ cover.todo # {}
    /\ LET n == Min(cover.todo) IN Suggest(n, cover.table[n])
    /\ UNCHANGED <<problem, phase, mirror, stack, attempt, gaveUp>>

-----------------------------------------------------------------------------
(* Solve and search.                                                        *)

Top == stack[Len(stack)]
Pop == SubSeq(stack, 1, Len(stack) - 1)
Retop(f) == [stack EXCEPT ![Len(stack)] = f]
Goes(p) == phase' = p
Aside == UNCHANGED <<problem, cover>>

Fresh ==
    /\ mirror = ResetDynamic(problem)
    /\ stack = <<>> /\ attempt = 1 /\ gaveUp = FALSE

\* A problem to solve, or a day to cover. The engine keeps nothing in between.
EngineInit ==
    /\ \/ problem \in Problems /\ phase = "new" /\ cover = NoCover
       \/ /\ problem = NoProblem /\ phase = "none"
          /\ \E a \in Absences : cover = StartCover(a)
    /\ Fresh

EngineRests == problem = NoProblem /\ phase = "none" /\ cover = NoCover /\ Fresh

\* Locks that break a rule, or plain arithmetic, rule the search out.
StartSolve ==
    /\ phase = "new"
    /\ Goes(IF Lawful(problem, problem.locked) /\ StaticFeasibility(problem)
            THEN "select" ELSE "infeasible")
    /\ UNCHANGED <<mirror, stack, attempt, gaveUp>> /\ Aside

\* Choose a lesson, unless all are placed or one has nowhere to go.
SelectLesson ==
    /\ phase = "select"
    /\ IF Open = {} THEN Goes("check") /\ UNCHANGED <<stack, gaveUp>>
       ELSE IF \E i \in Open : Candidates(DemandOf(i)) = {}
            THEN Goes("back") /\ UNCHANGED <<stack, gaveUp>>
            ELSE LET i == MostConstrained
                 IN  \E few \in Shortlists(Candidates(DemandOf(i))) :
                        /\ stack' = Append(stack, [lesson |-> i, at |-> NoHour,
                                                   room |-> Unmanaged, todo |-> few])
                        /\ IF few = Candidates(DemandOf(i)) THEN gaveUp' = gaveUp ELSE gaveUp' = TRUE
                        /\ Goes("try")
    /\ UNCHANGED <<mirror, attempt>> /\ Aside

DoPlace(d, c, room) ==
    mirror' = [section |-> mirror.section \cup {<<d.section, c>>},
               teacher |-> mirror.teacher \cup {<<d.teacher, c>>},
               room |-> mirror.room \cup (IF room = Unmanaged THEN {} ELSE {<<room, c>>}),
               subjectDay |-> [mirror.subjectDay EXCEPT ![<<d.section, d.subject, c[1]>>] = @ + 1],
               teacherDay |-> [mirror.teacherDay EXCEPT ![<<d.teacher, c[1]>>] = @ + 1]]

TryHour(c) ==
    LET d == DemandOf(Top.lesson)
        room == PickRoom(d, c)
    IN  /\ phase = "try" /\ c \in Top.todo
        /\ IF room = NoFit
           THEN /\ stack' = Retop([Top EXCEPT !.todo = @ \ {c}])
                /\ UNCHANGED <<mirror, phase>>
           ELSE /\ stack' = Retop([Top EXCEPT !.todo = @ \ {c}, !.at = c, !.room = room])
                /\ DoPlace(d, c, room)
                /\ Goes("select")
        /\ UNCHANGED <<attempt, gaveUp>> /\ Aside

\* search returns false: nothing is left to try, or the slice is over.
NothingLeft ==
    /\ phase = "try" /\ Top.todo = {}
    /\ stack' = Pop /\ Goes("back")
    /\ UNCHANGED <<mirror, attempt, gaveUp>> /\ Aside

SliceIsOver ==
    /\ phase = "try" /\ Top.todo # {}
    /\ stack' = Pop /\ Goes("back") /\ gaveUp' = TRUE
    /\ UNCHANGED <<mirror, attempt>> /\ Aside

\* Mutant: the teacher's count for the day stays.
UndoPlaceHalf(d, f) ==
    mirror' = [section |-> mirror.section \ {<<d.section, f.at>>},
               teacher |-> mirror.teacher \ {<<d.teacher, f.at>>},
               room |-> mirror.room \ {<<f.room, f.at>>},
               subjectDay |-> [mirror.subjectDay EXCEPT ![<<d.section, d.subject, f.at[1]>>] = @ - 1],
               teacherDay |-> mirror.teacherDay]

UndoPlace(d, f) ==
    mirror' = [section |-> mirror.section \ {<<d.section, f.at>>},
               teacher |-> mirror.teacher \ {<<d.teacher, f.at>>},
               room |-> mirror.room \ {<<f.room, f.at>>},
               subjectDay |-> [mirror.subjectDay EXCEPT ![<<d.section, d.subject, f.at[1]>>] = @ - 1],
               teacherDay |-> [mirror.teacherDay EXCEPT ![<<d.teacher, f.at[1]>>] = @ - 1]]

Backtrack ==
    /\ phase = "back" /\ stack # <<>>
    /\ UndoPlace(DemandOf(Top.lesson), Top)
    /\ stack' = Retop([Top EXCEPT !.at = NoHour, !.room = Unmanaged])
    /\ Goes("try")
    /\ UNCHANGED <<attempt, gaveUp>> /\ Aside

Restarts ==
    /\ phase = "back" /\ stack = <<>>
    /\ IF attempt < MaxRestarts
       THEN attempt' = attempt + 1 /\ mirror' = ResetDynamic(problem) /\ Goes("select")
       ELSE Goes("infeasible") /\ UNCHANGED <<attempt, mirror>>
    /\ UNCHANGED <<stack, gaveUp>> /\ Aside

\* The full checker has the last word.
CheckResult ==
    /\ phase = "check"
    /\ Goes(IF CheckFull(problem, Board) THEN "solved" ELSE "refused")
    /\ UNCHANGED <<mirror, stack, attempt, gaveUp>> /\ Aside

Solve ==
    \/ StartSolve \/ SelectLesson \/ NothingLeft \/ SliceIsOver
    \/ Backtrack \/ Restarts \/ CheckResult
    \/ phase = "try" /\ \E c \in Top.todo : TryHour(c)

EngineNext == Solve \/ SuggestSubstitutions

EngineSpec == EngineInit /\ [][EngineNext]_engineVars

-----------------------------------------------------------------------------
(* Properties.                                                              *)

\* Every lock is one of the lessons its demand asks for.
LocksFit(p) ==
    \A k \in p.locked : \E i \in Demand(p) : LET d == p.demands[i] IN
        /\ Wants(d, k) /\ d.teacher = k.teacher
        /\ Cardinality(Held(d, p.locked)) <= d.perWeek

\* A board with every open lesson somewhere, rooms unmanaged.
BoardOf(p, hours) ==
    p.locked \cup {Put([at |-> hours[i], room |-> Unmanaged], p.demands[i[1]]) : i \in DOMAIN hours}

\* The mirrors never drift from the board. Where locks fit their demands, a
\* board the search completes passes the full check ("incremental checking must
\* agree", solver.go:133), and "infeasible" is true unless an hour was left untried:
\* with rooms unmanaged, as the academic-service asks, there is no legal board.
SearchTellsTruth ==
    /\ phase \in {"select", "check"} => mirror = MirrorOf(Board)
    /\ LocksFit(problem) =>
          /\ phase # "refused"
          /\ phase = "infeasible" /\ ~gaveUp /\ problem.rooms = <<>> =>
                \A hours \in [Lessons -> Hour] : ~CheckFull(problem, BoardOf(problem, hours))

\* Nobody is suggested for two lessons of a period, beside a lesson of their own
\* or over their cap, and a lesson is left to somebody unqualified, or to nobody,
\* only when everybody better is taken by the end. What substitutions.go:6-12 says
\* is more than its code keeps: it offers the unqualified too, after the others,
\* and ranks by the day's load alone, never by the total.
CoversHold ==
    cover # NoCover =>
        /\ \A g, h \in cover.given : g # h /\ g[1].period = h[1].period => g[2] # h[2]
        /\ \A g \in cover.given :
              /\ \A n \in DOMAIN cover.table :
                    cover.table[n].teacher = g[2] => cover.table[n].period # g[1].period
              /\ cover.load[g[2]] <= cover.cap[g[2]]
              /\ ~Qualified(g[1], g[2]) => \A t \in CanCover(g[1]) : ~Qualified(g[1], t)
        /\ \A l \in cover.uncovered : CanCover(l) = {}

EngineTellsTruth == SearchTellsTruth /\ CoversHold
=============================================================================
