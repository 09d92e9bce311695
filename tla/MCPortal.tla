------------------------------ MODULE MCPortal ------------------------------
(* What people do through the portal, for TLC: any client that presents any *)
(* token at any time while users and grants change; the tabs of one browser *)
(* that refresh as the web client does; the staff-service's accounts, leave *)
(* and pay; the two importers of pupils; and how a request and a login find *)
(* their school. These share no row, so their steps commute: each behaviour *)
(* follows one of them.                                                     *)
EXTENDS WebSession, Imports, TenantGate, Staffing, TLC

VARIABLE part

\* The tabs, offices and uploads are the same model values as the requests,
\* the numbers of pupils the same as the families.
Sym == Permutations(Family) \cup Permutations(Request)

PortalInit ==
    /\ WebInit /\ ImportInit /\ GateInit /\ StaffInit
    /\ row.routed # row.here     \* a school's own database, or the one of the process
    /\ part \in {"service", "browser", "staff", "imports", "gate"}
    /\ part \in {"service", "browser"} \/ row.here
    /\ part = "imports" \/ pupil = [no \in Number |-> Absent]
    /\ part = "gate" \/ \A t \in Tenant : ~registry[t].row

PortalNext ==
    \/ /\ part = "service" /\ Next
       /\ UNCHANGED <<part, stored, flight, strained, staffVars, importVars, gateVars>>
    \/ part = "browser" /\ WebNext /\ UNCHANGED <<part, staffVars, importVars, gateVars>>
    \/ part = "staff" /\ StaffNext /\ UNCHANGED <<part, webVars, importVars, gateVars>>
    \/ part = "imports" /\ ImportNext /\ UNCHANGED <<part, webVars, staffVars, gateVars>>
    \/ part = "gate" /\ GateNext /\ UNCHANGED <<part, webVars, staffVars, importVars>>

PortalSpec ==
    PortalInit /\ [][PortalNext]_<<part, webVars, staffVars, importVars, gateVars>>
=============================================================================
