---------------------------- MODULE SchoolSetup ----------------------------
(***************************************************************************)
(* The provision-service of one deployment: the set-up wizard, the branches *)
(* of the school and their admins; and the identity-service's switch of a   *)
(* user to another branch. Every statement commits on its own, and a        *)
(* request may fail or its process die before any of them.                  *)
(*                                                                          *)
(* A school's name, code and address stand and clash together. The 15       *)
(* classes of a ladder are one step, as are the upserts of a registration;  *)
(* hiring by the staff-service is left out, as is the deactivation of a     *)
(* branch, which refuses a switch. A file is always deleted.                *)
(***************************************************************************)
EXTENDS Naturals, FiniteSets

CONSTANTS
    Code,        \* codes of schools; a school's first branch has its code here
    Campus,      \* codes of further branches
    User,        \* addresses of users
    Setter,      \* requests under way
    MaxSet       \* bound: requests started

VARIABLES
    school,      \* the School row of each code: its logo, its owner
    branch,      \* how far each branch has come
    user,        \* login, staff row, assignments and active branch of each user
    logos,       \* logo files
    registry,    \* schools registered with the control plane
    setter,      \* each request
    sets,
    opened,      \* history: schools whose set-up was answered 201
    torn         \* history: what requests crossed on or left half way

setupVars == <<school, branch, user, logos, registry, setter, sets, opened, torn>>

Place == Code \cup Campus
Whole == "whole school"                    \* an assignment without a branch
Nowhere == "nowhere"

ASSUME SetupAssumption ==
    /\ MaxSet \in Nat /\ IsFiniteSet(User)
    /\ {Whole, Nowhere} \cap Place = {} /\ Nowhere \notin User

Free == [at |-> "idle"]
NoSchool == [row |-> FALSE, logo |-> 0]
NoUser == [login |-> FALSE, staff |-> <<Nowhere, 0>>, held |-> {}, points |-> Nowhere]

SetupInit ==
    /\ school = [k \in Code |-> NoSchool]
    /\ branch = [l \in Place |-> "none"]
    /\ user = [u \in User |-> NoUser]
    /\ logos = {}
    /\ registry = {}
    /\ setter = [s \in Setter |-> Free]
    /\ sets = 0
    /\ opened = {}
    /\ torn = {}

Founded == {k \in Code : school[k].row}
Awaits(s, pc) == setter[s].at = pc
Sets(kind) == {s \in Setter : ~Awaits(s, "idle") /\ setter[s].kind = kind}
OnUser(u) == {s \in Setter : ~Awaits(s, "idle") /\ setter[s].u = u}

\* A request begins; it crosses others at work on the same user, and a set-up
\* crosses any other.
Accepted(s, pc, kind, u, k, logo) ==
    /\ Awaits(s, "idle")
    /\ sets < MaxSet                                              \* bound
    /\ sets' = sets + 1
    /\ setter' = [setter EXCEPT ![s] = [at |-> pc, kind |-> kind, u |-> u, k |-> k, logo |-> logo,
                                       n |-> 0]]
    /\ torn' = torn \cup (IF OnUser(u) # {} THEN {<<"user", u>>} ELSE {})
                    \cup (IF kind = "setup" /\ Sets("setup") # {} THEN {<<"set-ups", 0>>} ELSE {})

Proceeds(s, pc) == setter' = [setter EXCEPT ![s].at = pc] /\ UNCHANGED <<sets, torn>>
Answered(s) == setter' = [setter EXCEPT ![s] = Free] /\ UNCHANGED <<sets, torn>>

\* It ends early; what it worked on is half done.
LeftHalf(s, what) ==
    /\ setter' = [setter EXCEPT ![s] = Free]
    /\ torn' = torn \cup {<<"user", setter[s].u>>, what}
    /\ UNCHANGED sets

----------------------------------------------------------------------------
(* POST /setup *)

\* Mutation of Provisioned: the flag is an owner's account.
ProvisionedByOwner == \E u \in User : user[u].login

\* A School row is the flag.
Provisioned == Founded # {}

\* The pre-check, then the file.
StartSetup(s, k, u, withLogo) ==
    /\ ~Provisioned
    /\ Accepted(s, "look", "setup", u, k, IF withLogo THEN sets + 1 ELSE 0)
    /\ logos' = logos \cup (IF withLogo THEN {sets + 1} ELSE {})
    /\ UNCHANGED <<school, branch, user, registry, opened>>

WithoutLogo(s) == logos' = logos \ {setter[s].logo}

\* bootstrapTenant: the same check, and those of the code and the address. A
\* refusal deletes the file.
LookAgain(s) ==
    /\ Awaits(s, "look")
    /\ IF Provisioned \/ user[setter[s].u].login
       THEN Answered(s) /\ WithoutLogo(s)
       ELSE Proceeds(s, "school") /\ UNCHANGED logos
    /\ UNCHANGED <<school, branch, user, registry, opened>>

\* The unique indexes decide whether a row is inserted, or the request fails.
CreateSchool(s) ==
    LET k == setter[s].k
    IN  /\ Awaits(s, "school") /\ ~school[k].row
        /\ school' = [school EXCEPT ![k] = [row |-> TRUE, logo |-> setter[s].logo]]
        /\ branch' = [branch EXCEPT ![k] = "bare"]
        /\ Proceeds(s, "year")
        /\ UNCHANGED <<user, logos, registry, opened>>

\* The academic year, then the classes; a branch added later ends here.
FillBranch(s) ==
    LET l == setter[s].k
        next == IF branch[l] = "bare" THEN "year"
                ELSE IF setter[s].kind = "setup" THEN "owner" ELSE "idle"
    IN  /\ Awaits(s, "year")
        /\ branch' = [branch EXCEPT ![l] = IF @ = "bare" THEN "year" ELSE "ready"]
        /\ IF next = "idle" THEN Answered(s) ELSE Proceeds(s, next)
        /\ UNCHANGED <<school, user, logos, registry, opened>>

CreateOwner(s) ==
    LET u == setter[s].u
    IN  /\ Awaits(s, "owner") /\ ~user[u].login
        /\ user' = [user EXCEPT ![u].login = TRUE, ![u].held = {Whole, setter[s].k}]
        /\ Proceeds(s, "owner's staff row")
        /\ UNCHANGED <<school, branch, logos, registry, opened>>

CreateOwnerStaff(s) ==
    /\ Awaits(s, "owner's staff row")
    /\ user' = [user EXCEPT ![setter[s].u].staff = <<setter[s].k, 0>>]
    /\ Proceeds(s, "register")
    /\ UNCHANGED <<school, branch, logos, registry, opened>>

\* Registration may fail; the answer is 201 all the same.
RegisterSchool(s) ==
    /\ Awaits(s, "register")
    /\ registry' \in {registry, registry \cup {setter[s].k}}
    /\ opened' = opened \cup {<<setter[s].k, setter[s].u>>}
    /\ Answered(s)
    /\ UNCHANGED <<school, branch, user, logos>>

\* Mutation of FailSetup: the file stays.
FailSetupKeepLogo(s) ==
    /\ setter[s].at \in {"look", "school", "year", "owner", "owner's staff row"}
    /\ setter[s].kind = "setup"
    /\ LeftHalf(s, <<"school", setter[s].k>>)
    /\ UNCHANGED <<school, branch, user, logos, registry, opened>>

\* A statement fails: the file is deleted, also when the School row names it.
FailSetup(s) ==
    /\ setter[s].at \in {"look", "school", "year", "owner", "owner's staff row"}
    /\ setter[s].kind = "setup"
    /\ WithoutLogo(s)
    /\ LeftHalf(s, <<"school", setter[s].k>>)
    /\ UNCHANGED <<school, branch, user, registry, opened>>

\* The process dies, or a statement of another request fails: nothing is undone.
BreakOff(s) ==
    /\ ~Awaits(s, "idle")
    /\ LeftHalf(s, IF setter[s].kind = "setup" THEN <<"file", setter[s].logo>> ELSE <<"user", setter[s].u>>)
    /\ UNCHANGED <<school, branch, user, logos, registry, opened>>

----------------------------------------------------------------------------
(* Branches: POST /branches *)

StartBranch(s, l) ==
    /\ Provisioned /\ branch[l] = "none"
    /\ Accepted(s, "branch", "branch", Nowhere, l, 0)
    /\ UNCHANGED <<school, branch, user, logos, registry, opened>>

\* The code is unique: of two requests one fails here.
CreateBranch(s) ==
    LET l == setter[s].k
        taken == branch[l] # "none"
    IN  /\ Awaits(s, "branch")
        /\ branch' = IF taken THEN branch
                     ELSE [branch EXCEPT ![l] = "bare"]
        /\ IF taken THEN Answered(s) ELSE Proceeds(s, "year")
        /\ UNCHANGED <<school, user, logos, registry, opened>>

----------------------------------------------------------------------------
(* Admins of a branch: POST and DELETE /branches/:id/admins *)

AttachAdmin(s, u, l) ==
    /\ branch[l] # "none" /\ user[u].login
    /\ Accepted(s, "assign", "attach", u, l, 0)
    /\ UNCHANGED <<school, branch, user, logos, registry, opened>>

StartAdmin(s, u, l) ==
    /\ branch[l] # "none" /\ ~user[u].login
    /\ Accepted(s, "account", "admin", u, l, 0)
    /\ UNCHANGED <<school, branch, user, logos, registry, opened>>

\* The account with its assignment; its address is unique.
CreateAccount(s) ==
    LET u == setter[s].u
    IN  /\ Awaits(s, "account") /\ ~user[u].login
        /\ user' = [user EXCEPT ![u].login = TRUE, ![u].held = {setter[s].k}]
        /\ Proceeds(s, "count")
        /\ UNCHANGED <<school, branch, logos, registry, opened>>

StaffOf(l) == {u \in User : user[u].staff[1] = l}

CountStaff(s) ==
    /\ Awaits(s, "count")
    /\ setter' = [setter EXCEPT ![s].at = "staff row",
                               ![s].n = Cardinality(StaffOf(setter[s].k)) + 1]
    /\ UNCHANGED <<school, branch, user, logos, registry, sets, opened, torn>>

\* Two requests that count the same get the same employee id, and one fails.
CreateAdminStaff(s) ==
    LET id == <<setter[s].k, setter[s].n>>
    IN  /\ Awaits(s, "staff row")
        /\ \A u \in User : user[u].staff # id
        /\ user' = [user EXCEPT ![setter[s].u].staff = id]
        /\ Proceeds(s, "assign")
        /\ UNCHANGED <<school, branch, logos, registry, opened>>

\* The upsert reactivates an assignment that was taken away.
Assign(s) ==
    /\ Awaits(s, "assign")
    /\ user' = [user EXCEPT ![setter[s].u].held = @ \cup {setter[s].k}]
    /\ IF setter[s].kind = "admin" THEN Proceeds(s, "land") ELSE Answered(s)
    /\ UNCHANGED <<school, branch, logos, registry, opened>>

\* A new admin lands in the branch; a user who switches is sent there.
PointAt(s) ==
    /\ setter[s].at \in {"land", "point"}
    /\ user' = [user EXCEPT ![setter[s].u].points = setter[s].k]
    /\ Answered(s)
    /\ UNCHANGED <<school, branch, logos, registry, opened>>

RemoveAdmin(s, u, l) ==
    /\ l \in user[u].held
    /\ Accepted(s, "forget", "remove", u, l, 0)
    /\ user' = [user EXCEPT ![u].held = @ \ {l}]
    /\ UNCHANGED <<school, branch, logos, registry, opened>>

\* Mutation of Forget: the pointer stays.
ForgetNothing(s) ==
    /\ Awaits(s, "forget")
    /\ Answered(s)
    /\ UNCHANGED <<school, branch, user, logos, registry, opened>>

Forget(s) ==
    /\ Awaits(s, "forget")
    /\ user' = [user EXCEPT ![setter[s].u].points = IF @ = setter[s].k THEN Nowhere ELSE @]
    /\ Answered(s)
    /\ UNCHANGED <<school, branch, logos, registry, opened>>

----------------------------------------------------------------------------
(* POST /auth/switch-branch *)

Entitled(u, l) == {l, Whole} \cap user[u].held # {}

StartSwitch(s, u, l) ==
    /\ branch[l] # "none" /\ user[u].login /\ Entitled(u, l)
    /\ Accepted(s, "point", "switch", u, l, 0)
    /\ UNCHANGED <<school, branch, user, logos, registry, opened>>

\* loadUser: the branches the next token may be for (the order of the
\* assignments is the database's). Any assignment for the whole school
\* honours the pointer.
LandsIn(u) ==
    IF user[u].points # Nowhere /\ Entitled(u, user[u].points) THEN {user[u].points}
    ELSE user[u].held \ {Whole}

----------------------------------------------------------------------------
Wizard(s) ==
    \/ \E k \in Code, u \in User, withLogo \in BOOLEAN : StartSetup(s, k, u, withLogo)
    \/ LookAgain(s) \/ CreateSchool(s) \/ FillBranch(s) \/ CreateOwner(s)
    \/ CreateOwnerStaff(s) \/ RegisterSchool(s) \/ FailSetup(s) \/ BreakOff(s)

Branches(s) ==
    \/ \E l \in Campus : StartBranch(s, l)
    \/ CreateBranch(s)
    \/ \E u \in User, l \in Place :
        AttachAdmin(s, u, l) \/ StartAdmin(s, u, l) \/ RemoveAdmin(s, u, l) \/ StartSwitch(s, u, l)
    \/ CreateAccount(s) \/ CountStaff(s) \/ CreateAdminStaff(s)
    \/ Assign(s) \/ PointAt(s) \/ Forget(s)

SetupNext == \E s \in Setter : Wizard(s) \/ Branches(s)

SetupSpec == SetupInit /\ [][SetupNext]_setupVars

----------------------------------------------------------------------------
(* Properties *)

\* "The empty-database check inside bootstrapTenant is the real lock"
\* (routes.ts:11-15): set-ups that do not overlap found one school, however
\* the earlier ones ended.
OneSchool == Cardinality(Founded) > 1 => <<"set-ups", 0>> \in torn

\* A school whose wizard answered 201 can be worked with: its first branch has
\* a year and classes, and its owner an account with a staff row.
OpenedIsComplete ==
    \A k \in Code, u \in User : <<k, u>> \in opened =>
        /\ school[k].row /\ branch[k] = "ready"
        /\ user[u].login /\ user[u].staff = <<k, 0>> /\ Whole \in user[u].held

\* A School row's logo is on the disk unless its set-up failed half way; each
\* file is a school's, but for a set-up under way or whose process died: "no
\* orphan uploads" (routes.ts:228).
LogosAreSchools ==
    /\ \A k \in Founded :
        school[k].logo \in logos \cup {0} \/ <<"school", k>> \in torn
    /\ \A f \in logos :
        \/ \E k \in Founded : school[k].logo = f
        \/ \E s \in Sets("setup") : setter[s].logo = f
        \/ <<"file", f>> \in torn

\* An account has a staff row, and the active branch decides where its user's
\* next token leads, unless requests for the user crossed, were cut short or
\* are under way.
UsersAreWhole ==
    \A u \in User :
        \/ <<"user", u>> \in torn \/ OnUser(u) # {}
        \/ /\ user[u].login => user[u].staff # <<Nowhere, 0>>
           /\ user[u].points # Nowhere => LandsIn(u) = {user[u].points}

\* What set-ups, changes of branches and of admins leave behind.
SetupAgrees == OneSchool /\ OpenedIsComplete /\ LogosAreSchools /\ UsersAreWhole
=============================================================================
