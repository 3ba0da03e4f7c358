---------------------------- MODULE PaymentPromise ----------------------------
(***************************************************************************)
(* What the service promises (README: "one operation corresponds to at     *)
(* most one payment of the provider, and the final status is determined    *)
(* only by the receipt"), with no outbox, no dispatcher and no faults.     *)
(*                                                                         *)
(* An operation is accepted, its processing starts, the provider is        *)
(* charged once and only then, and the report of that charge settles the   *)
(* operation for good.  The link to the charge is made once, by whichever  *)
(* of the provider's answer and its report comes first.                    *)
(***************************************************************************)
CONSTANTS OperationIds, PaymentIds, Null

VARIABLES
    stage,      \* the status of each operation
    charge,     \* the payment the provider has made for it
    link        \* the payment the service knows of

Init ==
    /\ stage = [o \in OperationIds |-> "ABSENT"]
    /\ charge = [o \in OperationIds |-> Null]
    /\ link = [o \in OperationIds |-> Null]

Accept(o) ==
    /\ stage[o] = "ABSENT"
    /\ stage' = [stage EXCEPT ![o] = "CREATED"]
    /\ UNCHANGED <<charge, link>>

Start(o) ==
    /\ stage[o] = "CREATED"
    /\ stage' = [stage EXCEPT ![o] = "PROCESSING"]
    /\ UNCHANGED <<charge, link>>

Charge(o, p) ==
    /\ stage[o] = "PROCESSING"
    /\ charge[o] = Null
    /\ \A other \in OperationIds : charge[other] # p
    /\ charge' = [charge EXCEPT ![o] = p]
    /\ UNCHANGED <<stage, link>>

Link(o) ==
    /\ stage[o] = "PROCESSING"
    /\ charge[o] # Null /\ link[o] = Null
    /\ link' = [link EXCEPT ![o] = charge[o]]
    /\ UNCHANGED <<stage, charge>>

Settle(o, outcome) ==
    /\ stage[o] = "PROCESSING"
    /\ charge[o] # Null
    /\ stage' = [stage EXCEPT ![o] = outcome]
    /\ link' = [link EXCEPT ![o] = charge[o]]
    /\ UNCHANGED charge

Next ==
    \E o \in OperationIds :
        \/ Accept(o) \/ Start(o) \/ Link(o)
        \/ \E p \in PaymentIds : Charge(o, p)
        \/ \E outcome \in {"COMPLETED", "REJECTED"} : Settle(o, outcome)

Spec == Init /\ [][Next]_<<stage, charge, link>>
===============================================================================
