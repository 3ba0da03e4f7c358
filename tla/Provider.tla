------------------------------- MODULE Provider -------------------------------
(***************************************************************************)
(* The payment provider and the network to it, as app/provider/base.py and *)
(* the dispatcher rely on them.  The provider is not part of this          *)
(* repository; tests/test_dispatcher.py fakes it the same way: a payment   *)
(* is created per Idempotency-Key, and a key seen before gives the same    *)
(* payment again.                                                          *)
(*                                                                         *)
(* A request that has been sent stays in "requests" for ever: it may reach *)
(* the provider late, more than once, after its sender has given up on it  *)
(* or has died, or never.                                                  *)
(***************************************************************************)
EXTENDS Domain

VARIABLES
    requests,       \* every request that has been put on the network
    payments        \* the payments the provider has created

provider == <<requests, payments>>

Request == [key : OperationIds, op : OperationIds]

Payment == [key : OperationIds, op : OperationIds, id : PaymentIds]

ProviderInit == requests = {} /\ payments = {}

ProviderTypeOK == requests \subseteq Request /\ payments \subseteq Payment

PaymentsOf(o) == {p \in payments : p.op = o}

\* The provider gets a request with a key it has not seen: a new payment.
CreatePayment(request, id) ==
    /\ request \in requests
    /\ \A p \in payments : p.key # request.key /\ p.id # id
    /\ payments' = payments \cup {[key |-> request.key, op |-> request.op, id |-> id]}
    /\ UNCHANGED requests
===============================================================================
