--------------------------- MODULE MCControlPlane ----------------------------
(* The billing engine, the provisioning of one slug and the set-up of one   *)
(* deployment for TLC. The models share no row, so their steps commute: each *)
(* behaviour follows one of them. Nor do a dispatcher and a dunning pass: a  *)
(* behaviour of the billing engine has dispatchers and clerks at once, or    *)
(* passes and one clerk at a time.                                          *)
(* The ladder 1/8/15/45 days with waits of 7/7/30 days is scaled so that     *)
(* each wait still ends on the day the next stage begins.                    *)
EXTENDS Billing, Provisioning, SchoolSetup, TLC

VARIABLE part

ShortAfter == <<1, 2, 3, 5>>
ShortWait == <<1, 1, 2, 0>>
\* The requests of each part are the same model values, and so are the users.
Symmetric ==
    Permutations(Clerk) \cup Permutations(Drainer) \cup Permutations(Worker)
    \cup Permutations(Code)

PlaneInit ==
    /\ Init /\ SlugInit /\ SetupInit
    /\ part \in {"spending", "dunning", "provisioning", "setup"}

PlaneNext ==
    \/ part = "spending" /\ Next /\ UNCHANGED <<day, worker, part, slugVars, setupVars>>
    \/ /\ part = "dunning" /\ Next /\ UNCHANGED <<drainer, part, slugVars, setupVars>>
       /\ Cardinality({c \in Clerk : clerk'[c] # Idle}) <= 1
    \/ part = "provisioning" /\ SlugNext /\ UNCHANGED <<part, vars, setupVars>>
    \/ part = "setup" /\ SetupNext /\ UNCHANGED <<part, vars, slugVars>>

PlaneSpec == PlaneInit /\ [][PlaneNext]_<<part, vars, slugVars, setupVars>>
=============================================================================
