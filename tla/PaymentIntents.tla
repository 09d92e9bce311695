---------------------------- MODULE PaymentIntents ----------------------------
(***************************************************************************)
(* What the school is promised about online payments, without a word about *)
(* webhooks, races or faults: an order is opened, the gateway takes the    *)
(* money, the money is booked once and only then, and what was booked can  *)
(* be given back. GatewayCapture implements this.                          *)
(***************************************************************************)
EXTENDS Naturals

CONSTANT Intent

VARIABLES
    stage,    \* how far each intent is
    taken,    \* has the gateway taken its exact amount?
    booked    \* how often its money was put in the books

intents == <<stage, taken, booked>>

Init ==
    /\ stage = [i \in Intent |-> "NONE"]
    /\ taken = [i \in Intent |-> FALSE]
    /\ booked = [i \in Intent |-> 0]

Open(i) ==
    /\ stage[i] = "NONE"
    /\ stage' = [stage EXCEPT ![i] = "OPEN"]
    /\ UNCHANGED <<taken, booked>>

Take(i) ==
    /\ stage[i] # "NONE"
    /\ taken' = [taken EXCEPT ![i] = TRUE]
    /\ UNCHANGED <<stage, booked>>

Book(i) ==
    /\ stage[i] = "OPEN" /\ taken[i]
    /\ stage' = [stage EXCEPT ![i] = "SUCCESS"]
    /\ booked' = [booked EXCEPT ![i] = @ + 1]
    /\ UNCHANGED taken

Return(i) ==
    /\ stage[i] = "SUCCESS"
    /\ stage' = [stage EXCEPT ![i] = "REFUNDED"]
    /\ UNCHANGED <<taken, booked>>

Next == \E i \in Intent : Open(i) \/ Take(i) \/ Book(i) \/ Return(i)

Spec == Init /\ [][Next]_intents
=============================================================================
