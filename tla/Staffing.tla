------------------------------ MODULE Staffing ------------------------------
(***************************************************************************)
(* The staff-service: accounts of the staff, their photos, leave and pay.  *)
(* No route but the hiring of the HR desk uses a transaction, so a request *)
(* is a row of statements, and any other may come between two of them.     *)
(* The process may stop, or a statement fail, between them too.            *)
(***************************************************************************)
EXTENDS Naturals, FiniteSets

CONSTANTS
    Person, Role,
    BaseRole,    \* the role of every account of POST /staff: sys_teacher
    Net,         \* net salaries a payroll run may work out
    Office,      \* requests under way
    MaxStaff     \* bound: requests started

VARIABLES
    account,     \* login, staff row, role assignments and photo of each person; history:
                 \* the roles last asked for, was the row's isActive written by itself
    files,       \* photos on the disk
    leave,       \* one leave request of each person
    salary,      \* the payroll row of each person for the month
    office,      \* each request
    begun,
    spoiled      \* history: rows that requests crossed on or left half way

ASSUME StaffingAssumption == Net \subseteq Nat /\ MaxStaff \in Nat /\ BaseRole \in Role

staffVars == <<account, files, leave, salary, office, begun, spoiled>>

Everyone == "everyone"
Nothing == "nothing"
Vacant == [at |-> "idle", table |-> "none", who |-> Everyone, with |-> Nothing]
NoAccount == [login |-> "none", post |-> "none", active |-> {}, held |-> {}, photo |-> 0,
              asked |-> {}, alone |-> FALSE]
NoLeave == [status |-> "none", first |-> "none", told |-> "none"]
NoSalary == [status |-> "none", net |-> 0, paid |-> 0]

StaffInit ==
    /\ account = [p \in Person |-> NoAccount]
    /\ files = {}
    /\ leave = [p \in Person |-> NoLeave]
    /\ salary = [p \in Person |-> NoSalary]
    /\ office = [o \in Office |-> Vacant]
    /\ begun = 0
    /\ spoiled = {}

Occupied(o, table, p) == office[o].at # "idle" /\ office[o].table = table /\ office[o].who = p

\* The statements for an account do not look at each other's.
Crossing(table, p) ==
    IF table = "account" /\ \E v \in Office : Occupied(v, table, p)
    THEN spoiled \cup {<<table, p>>} ELSE spoiled

\* A request starts on a row and has statements left, the next of them at `next`,
\* for which it keeps `with`.
Begins(o, next, table, p, with) ==
    /\ office[o].at = "idle"
    /\ begun < MaxStaff                                          \* bound
    /\ begun' = begun + 1
    /\ office' = [office EXCEPT ![o] = [at |-> next, table |-> table, who |-> p, with |-> with]]
    /\ spoiled' = Crossing(table, p)

\* A request of a single statement, or of one transaction.
AtOnce(table, p) ==
    /\ begun < MaxStaff                                          \* bound
    /\ begun' = begun + 1
    /\ spoiled' = Crossing(table, p)
    /\ UNCHANGED office

Doing(o, at) == office[o].at = at
Row(o) == office[o].who
Proceeds(o, at) == office' = [office EXCEPT ![o].at = at] /\ UNCHANGED <<begun, spoiled>>
Ends(o) == office' = [office EXCEPT ![o] = Vacant] /\ UNCHANGED <<begun, spoiled>>

\* It ends with a write of what another has written since it looked.
EndsStale(o, stale) ==
    /\ office' = [office EXCEPT ![o] = Vacant]
    /\ spoiled' = IF stale THEN spoiled \cup {<<office[o].table, Row(o)>>} ELSE spoiled
    /\ UNCHANGED begun

----------------------------------------------------------------------------
(* Accounts *)

NewUser(p, roles) ==
    [account[p] EXCEPT !.login = "active", !.active = roles, !.held = roles, !.asked = roles]

\* POST /hr: user, roles and staff row in one transaction; the address is unique.
\* The job's title gives one role, being a HOD or an Academic Head one more each.
Hire(p, roles) ==
    /\ AtOnce("account", p)
    /\ account[p].login = "none" /\ roles # {}
    /\ account' = [account EXCEPT ![p] = [NewUser(p, roles) EXCEPT !.post = "active"]]
    /\ UNCHANGED <<files, leave, salary>>

\* POST /staff: the user first, in a statement of its own.
CreateUser(o, p) ==
    /\ Begins(o, "staff row", "account", p, Nothing)
    /\ account[p].login = "none"
    /\ account' = [account EXCEPT ![p] = NewUser(p, {BaseRole})]
    /\ UNCHANGED <<files, leave, salary>>

CreateStaff(o) ==
    /\ Doing(o, "staff row")
    /\ account' = [account EXCEPT ![Row(o)].post = "active"]
    /\ Ends(o)
    /\ UNCHANGED <<files, leave, salary>>

\* PUT /staff/:id writes the fields it is given, isActive among them: the login
\* does not follow.
Fields(p, post) ==
    [account[p] EXCEPT !.post = post, !.alone = @ \/ post # account[p].post]

\* ...and with a role it goes on to swap the roles...
EditStaff(o, p, post, role) ==
    /\ Begins(o, "swap", "account", p, role)
    /\ account[p].post # "none"
    /\ account' = [account EXCEPT ![p] = [Fields(p, post) EXCEPT !.asked = {role}]]
    /\ UNCHANGED <<files, leave, salary>>

\* ...without one, or with one that does not exist, it ends there.
EditFields(p, post) ==
    /\ AtOnce("account", p)
    /\ account[p].post # "none"
    /\ account' = [account EXCEPT ![p] = Fields(p, post)]
    /\ UNCHANGED <<files, leave, salary>>

DropRoles(o) ==
    /\ Doing(o, "swap")
    /\ account' = [account EXCEPT ![Row(o)].active = {}]
    /\ Proceeds(o, "grant")
    /\ UNCHANGED <<files, leave, salary>>

\* A role the person has had is in the table already, inactive: the insert
\* breaks the unique index, and the person is left without a role.
GrantRole(o) ==
    LET p == Row(o)
        role == office[o].with
        again == role \in account[p].held
    IN  /\ Doing(o, "grant")
        /\ account' = IF again THEN account
                      ELSE [account EXCEPT ![p].active = @ \cup {role},
                                           ![p].held = @ \cup {role}]
        /\ EndsStale(o, again)
        /\ UNCHANGED <<files, leave, salary>>

\* DELETE /staff/:id: the staff row, then the login.
RemoveStaff(o, p) ==
    /\ Begins(o, "lock", "account", p, Nothing)
    /\ account[p].post # "none"
    /\ account' = [account EXCEPT ![p].post = "inactive"]
    /\ UNCHANGED <<files, leave, salary>>

LockLogin(o) ==
    /\ Doing(o, "lock")
    /\ account' = [account EXCEPT ![Row(o)].login = "inactive"]
    /\ Ends(o)
    /\ UNCHANGED <<files, leave, salary>>

----------------------------------------------------------------------------
(* Photos: of oneself, by the office, or by a guardian of a pupil *)

\* The row is read and the new file written; its name is new.
SavePhoto(o, p) ==
    /\ Begins(o, "photo row", "photo", p, [new |-> begun + 1, old |-> account[p].photo])
    /\ account[p].post # "none"
    /\ files' = files \cup {begun + 1}
    /\ UNCHANGED <<account, leave, salary>>

\* Mutation of MoveRow: the old file goes before the row has moved.
MoveRowLast(o) ==
    \/ /\ Doing(o, "photo row")
       /\ files' = files \ {office[o].with.old}
       /\ Proceeds(o, "moved late")
       /\ UNCHANGED <<account, leave, salary>>
    \/ /\ Doing(o, "moved late")
       /\ account' = [account EXCEPT ![Row(o)].photo = office[o].with.new]
       /\ Ends(o)
       /\ UNCHANGED <<files, leave, salary>>

MoveRow(o) ==
    /\ Doing(o, "photo row")
    /\ account' = [account EXCEPT ![Row(o)].photo = office[o].with.new]
    /\ Proceeds(o, "old photo")
    /\ UNCHANGED <<files, leave, salary>>

DropOldPhoto(o) ==
    /\ Doing(o, "old photo")
    /\ files' = files \ {office[o].with.old}
    /\ Ends(o)
    /\ UNCHANGED <<account, leave, salary>>

----------------------------------------------------------------------------
(* Leave *)

Decided(p, status) ==
    leave' = [leave EXCEPT ![p].status = status,
                           ![p].first = IF @ = "none" THEN status ELSE @]

FileLeave(p) ==
    /\ AtOnce("leave", p)
    /\ account[p].post # "none" /\ leave[p].status = "none"      \* bound: one request
    /\ leave' = [leave EXCEPT ![p].status = "PENDING"]
    /\ UNCHANGED <<account, files, salary>>

\* POST /teacher/leave-requests/:id/decision reads the row for its department...
ReadLeave(o, p, status) ==
    /\ Begins(o, "claim", "leave", p, status)
    /\ leave[p].status # "none"
    /\ UNCHANGED <<account, files, leave, salary>>

\* Mutation of ClaimLeave: the update is not scoped to PENDING rows.
ClaimLeaveAgain(o) ==
    /\ Doing(o, "claim")
    /\ Decided(Row(o), office[o].with)
    /\ Proceeds(o, "tell")
    /\ UNCHANGED <<account, files, salary>>

\* ...decides it only while it is PENDING...
ClaimLeave(o) ==
    /\ Doing(o, "claim")
    /\ IF leave[Row(o)].status = "PENDING"
       THEN Decided(Row(o), office[o].with) /\ Proceeds(o, "tell")
       ELSE Ends(o) /\ UNCHANGED leave
    /\ UNCHANGED <<account, files, salary>>

\* ...and tells the requester.
NotifyStaffUser(o) ==
    /\ Doing(o, "tell")
    /\ leave' = [leave EXCEPT ![Row(o)].told = office[o].with]
    /\ Ends(o)
    /\ UNCHANGED <<account, files, salary>>

\* POST /hr/leaves/:id/decision checks, then writes by the id.
CheckLeave(o, p, status) ==
    /\ Begins(o, "decide", "leave", p, status)
    /\ leave[p].status = "PENDING"
    /\ UNCHANGED <<account, files, leave, salary>>

DecideLeave(o) ==
    /\ Doing(o, "decide")
    /\ Decided(Row(o), office[o].with)
    /\ EndsStale(o, leave[Row(o)].status # "PENDING")
    /\ UNCHANGED <<account, files, salary>>

\* PATCH /leave-requests/:id writes what it is given.
OverwriteLeave(p, status) ==
    /\ leave[p].status # "none"
    /\ begun < MaxStaff                                          \* bound
    /\ begun' = begun + 1
    /\ leave' = [leave EXCEPT ![p].status = status]
    /\ spoiled' = spoiled \cup {<<"leave", p>>}
    /\ UNCHANGED <<account, files, salary, office>>

----------------------------------------------------------------------------
(* Payroll *)

\* POST /hr/payroll/run (`keep` FALSE) and POST /payroll/generate (TRUE): the
\* active staff, then one upsert each.
StartPayroll(o, net, keep) ==
    /\ office[o].at = "idle"
    /\ begun < MaxStaff                                          \* bound
    /\ begun' = begun + 1
    /\ LET left == {p \in Person : account[p].post = "active"}
       IN  /\ left # {}
           /\ office' = [office EXCEPT ![o] =
                  [at |-> "payroll", table |-> "payroll", who |-> Everyone,
                   with |-> [left |-> left, net |-> net, keep |-> keep]]]
    /\ UNCHANGED <<account, files, leave, salary, spoiled>>

\* Mutation of Upserted: a run asks for every salary anew.
UpsertedAnew(row, net, keep) == [row EXCEPT !.status = "PENDING", !.net = net]

\* The update leaves the status of the row alone, and its amounts if told so.
Upserted(row, net, keep) ==
    IF row.status = "none" THEN [row EXCEPT !.status = "PENDING", !.net = net]
    ELSE IF keep THEN row ELSE [row EXCEPT !.net = net]

UpsertSalary(o, p) ==
    LET run == office[o].with
    IN  /\ Doing(o, "payroll")
        /\ p \in run.left
        /\ salary' = [salary EXCEPT ![p] = Upserted(@, run.net, run.keep)]
        /\ office' = [office EXCEPT ![o] = IF run.left = {p} THEN Vacant
                          ELSE [@ EXCEPT !.with = [run EXCEPT !.left = @ \ {p}]]]
        /\ UNCHANGED <<account, files, leave, begun, spoiled>>

\* POST /hr/payroll/:id/pay checks, then writes by the id.
CheckSalary(o, p) ==
    /\ Begins(o, "pay", "salary", p, Nothing)
    /\ salary[p].status = "PENDING"
    /\ UNCHANGED <<account, files, leave, salary>>

PaySalary(o) ==
    /\ Doing(o, "pay")
    /\ salary' = [salary EXCEPT ![Row(o)].status = "PAID", ![Row(o)].paid = @ + 1]
    /\ EndsStale(o, salary[Row(o)].status = "PAID")
    /\ UNCHANGED <<account, files, leave>>

----------------------------------------------------------------------------
\* The process stops, or the next statement fails.
CutShort(o) ==
    /\ ~Doing(o, "idle")
    /\ spoiled' = IF office[o].table = "account" THEN spoiled \cup {<<"account", Row(o)>>}
                  ELSE spoiled
    /\ office' = [office EXCEPT ![o] = Vacant]
    /\ UNCHANGED <<account, files, leave, salary, begun>>

Decision == {"APPROVED", "REJECTED"}

Accounts(o, p) ==
    \/ \E roles \in SUBSET Role : Hire(p, roles)
    \/ CreateUser(o, p)
    \/ \E post \in {"active", "inactive"} :
          EditFields(p, post) \/ \E role \in Role : EditStaff(o, p, post, role)
    \/ RemoveStaff(o, p)
    \/ SavePhoto(o, p)

Leaves(o, p) ==
    \/ FileLeave(p)
    \/ \E d \in Decision : ReadLeave(o, p, d) \/ OverwriteLeave(p, d)
    \/ \E d \in Decision \cup {"CANCELLED"} : CheckLeave(o, p, d)

Statement(o) ==
    \/ CreateStaff(o) \/ DropRoles(o) \/ GrantRole(o) \/ LockLogin(o)
    \/ MoveRow(o) \/ DropOldPhoto(o)
    \/ ClaimLeave(o) \/ NotifyStaffUser(o) \/ DecideLeave(o)
    \/ \E p \in Person : UpsertSalary(o, p)
    \/ PaySalary(o)

StaffNext ==
    \E o \in Office :
        \/ \E p \in Person : Accounts(o, p) \/ Leaves(o, p) \/ CheckSalary(o, p)
        \/ \E net \in Net, keep \in BOOLEAN : StartPayroll(o, net, keep)
        \/ Statement(o)
        \/ CutShort(o)

StaffSpec == StaffInit /\ [][StaffNext]_staffVars

----------------------------------------------------------------------------
\* No request is at work on a row, none was cut short there, none crossed
\* another there, and none wrote what it had checked too early.
Settled(table, p) ==
    <<table, p>> \notin spoiled /\ \A o \in Office : ~Occupied(o, table, p)

\* A person has the roles last asked for, no more and no fewer; and whoever has left
\* cannot log in, whoever is on the staff can, unless PUT /staff/:id once wrote the
\* row's isActive by itself.
LoginFollowsPost ==
    \A p \in Person : Settled("account", p) =>
        /\ account[p].active = account[p].asked
        /\ account[p].alone \/ account[p].login = account[p].post

\* Whatever crosses or fails, the photo of a row is on the disk: "the old file
\* is unlinked only after the DB row is safely on the new one".
PhotoIsKept == \A p \in Person : account[p].photo \in files \cup {0}

\* "The first decision always stands", and it is the one the requester was told.
FirstDecisionStands ==
    \A p \in Person : <<"leave", p>> \notin spoiled =>
        leave[p].status \in {"none", "PENDING", leave[p].first}
            /\ leave[p].told \in {"none", leave[p].first}

\* A salary is paid once, however often the month is run.
PaidOnce ==
    \A p \in Person : <<"salary", p>> \notin spoiled =>
        salary[p].paid = IF salary[p].status = "PAID" THEN 1 ELSE 0

StaffAgrees == LoginFollowsPost /\ PhotoIsKept /\ FirstDecisionStands /\ PaidOnce
=============================================================================
