------------------------------ MODULE ProviderCall ------------------------------
(***************************************************************************)
(* One attempt after another at the payment of an operation, down to the   *)
(* HTTP response (app/provider/http_client.py) and to what                 *)
(* Dispatcher._process_one makes of each exception.  Module Dispatcher     *)
(* knows only the three outcomes of a call; this module derives them from  *)
(* what can come over the wire, and relates the one that is recorded to    *)
(* what the provider has really done.                                      *)
(*                                                                         *)
(* The provider is honest: it names a payment only when there is one, and  *)
(* its meaningful 4xx say that it makes no payment of this request, now or *)
(* later.  Anything else on the way (a proxy, a limiter, a broken          *)
(* connection) may answer or swallow either direction.                     *)
(***************************************************************************)
EXTENDS Naturals

CONSTANTS
    Operations,     \* operations whose intents are delivered
    Refused,        \* those whose request the provider finds invalid
    Unsendable,     \* those whose id no HTTP header can carry (not ASCII)
    MaxAttempts,    \* provider_max_attempts
    NetworkMayFail  \* whether connections may fail and answers be lost

ASSUME CallAssumption ==
    /\ Refused \subseteq Operations /\ Unsendable \subseteq Operations
    /\ MaxAttempts \in Nat \ {0}
    /\ NetworkMayFail \in BOOLEAN

VARIABLES
    call,       \* the call of each operation, or its outcome
    attempts,   \* attempts begun
    intent,     \* the state of the intent, as far as the call decides it
    linked,     \* the provider_payment_id recorded, or "none"
    sent,       \* operations with a request on the network, for ever
    paid        \* operations the provider has made the payment of

vars == <<call, attempts, intent, linked, sent, paid>>

Outcome == {"accepted", "rejected", "unavailable"}

\* What is left of a response once it is classified: the codes stand for
\* their class, the bodies for what response.json() and the checks make of them.
Code == {202, 302, 400, 408, 409, 425, 429, 500, 503}
Body == {"unreadable", "not_an_object", "no_id", "empty_id", "id"}
Response == [code : Code, body : Body]

RetryableStatuses == {408, 425, 429}

TypeOK ==
    /\ call \in [Operations -> {"idle", "connecting", "waiting"} \cup Outcome]
    /\ attempts \in [Operations -> 0 .. MaxAttempts]
    /\ intent \in [Operations -> {"PENDING", "DONE", "FAILED"}]
    /\ linked \in [Operations -> {"none", "", "id"}]
    /\ sent \subseteq Operations \ Unsendable
    /\ paid \subseteq sent

-----------------------------------------------------------------------------
(* http_client._interpret *)

RetryableCode(code) == code >= 500 \/ code \in RetryableStatuses

UsableBodyIfPresent(body) == body \in {"empty_id", "id"}

\* A JSON object whose providerPaymentId is a string that is not empty.
UsableBody(body) == body = "id"

InterpretStrictly(response) ==
    IF RetryableCode(response.code) THEN "unavailable"
    ELSE IF response.code < 400 /\ UsableBody(response.body) THEN "accepted"
    ELSE "rejected"

Interpret(response) ==
    IF RetryableCode(response.code) THEN "unavailable"
    ELSE IF response.code >= 400 THEN "rejected"
    ELSE IF ~ UsableBody(response.body) THEN "unavailable"
    ELSE "accepted"

\* What may come back for a request of o.
Honest(o, response) ==
    /\ (response.code < 400 /\ response.body = "id") => o \in paid
    /\ response.code \in {400, 409} => o \in Refused

-----------------------------------------------------------------------------
(* the client *)

Init ==
    /\ call = [o \in Operations |-> "idle"]
    /\ attempts = [o \in Operations |-> 0]
    /\ intent = [o \in Operations |-> "PENDING"]
    /\ linked = [o \in Operations |-> "none"]
    /\ sent = {}
    /\ paid = {}

Becomes(o, phase) == call' = [call EXCEPT ![o] = phase]

Begin(o) ==
    /\ intent[o] = "PENDING" /\ call[o] = "idle"
    /\ Becomes(o, "connecting")
    /\ attempts' = [attempts EXCEPT ![o] = @ + 1]
    /\ UNCHANGED <<intent, linked, sent, paid>>

\* The header cannot be built.  The exception is not one of httpx: it gets
\* past the client, and the last "except" of _process_one treats it as an
\* unknown outcome.
HeadersFail(o) ==
    /\ call[o] = "connecting"
    /\ o \in Unsendable
    /\ Becomes(o, "unavailable")
    /\ UNCHANGED <<attempts, intent, linked, sent, paid>>

\* No connection within the connect timeout, or none free in the pool.
ConnectFails(o) ==
    /\ NetworkMayFail
    /\ call[o] = "connecting"
    /\ o \notin Unsendable
    /\ Becomes(o, "unavailable")
    /\ UNCHANGED <<attempts, intent, linked, sent, paid>>

Send(o) ==
    /\ call[o] = "connecting"
    /\ o \notin Unsendable
    /\ Becomes(o, "waiting")
    /\ sent' = sent \cup {o}
    /\ UNCHANGED <<attempts, intent, linked, paid>>

Receive(o) ==
    /\ call[o] = "waiting"
    /\ \E response \in Response :
        /\ Honest(o, response)
        /\ Becomes(o, Interpret(response))
        /\ linked' = [linked EXCEPT ![o] =
            IF Interpret(response) # "accepted" THEN @
            ELSE IF response.body = "id" THEN "id" ELSE ""]
    /\ UNCHANGED <<attempts, intent, sent, paid>>

TimesOutUnsent(o) == call[o] = "connecting" /\ Becomes(o, "unavailable")

\* The read or write timeout, or a connection that breaks.
TimesOut(o) == call[o] = "waiting" /\ Becomes(o, "unavailable")

GetsNoAnswer(o) ==
    /\ NetworkMayFail
    /\ TimesOut(o)
    /\ UNCHANGED <<attempts, intent, linked, sent, paid>>

-----------------------------------------------------------------------------
(* the dispatcher and the provider *)

AttemptsLeftOneMore(o) == attempts[o] <= MaxAttempts

AttemptsLeft(o) == attempts[o] < MaxAttempts

\* _on_accepted, and _on_failure with and without attempts left.
Record(o) ==
    /\ \/ /\ call[o] = "accepted"
          /\ intent' = [intent EXCEPT ![o] = "DONE"]
       \/ /\ call[o] = "unavailable" /\ AttemptsLeft(o)
          /\ UNCHANGED intent
       \/ /\ call[o] = "rejected" \/ (call[o] = "unavailable" /\ ~ AttemptsLeft(o))
          /\ intent' = [intent EXCEPT ![o] = "FAILED"]
    /\ Becomes(o, "idle")
    /\ UNCHANGED <<attempts, linked, sent, paid>>

\* A request reaches the provider, perhaps late or again.
Pay(o) ==
    /\ o \in sent \ Refused
    /\ paid' = paid \cup {o}
    /\ UNCHANGED <<call, attempts, intent, linked, sent>>

Next ==
    \E o \in Operations :
        \/ Begin(o) \/ HeadersFail(o) \/ ConnectFails(o) \/ Send(o)
        \/ Receive(o) \/ GetsNoAnswer(o) \/ Record(o) \/ Pay(o)

Spec == Init /\ [][Next]_vars

\* The steps of the process itself; that an answer comes is nobody's promise.
FairSpec ==
    /\ Spec
    /\ \A o \in Operations :
        /\ WF_vars(Begin(o)) /\ WF_vars(HeadersFail(o)) /\ WF_vars(Send(o))
        /\ WF_vars(GetsNoAnswer(o)) /\ WF_vars(Record(o))

-----------------------------------------------------------------------------
\* A delivery that ended because the provider refused the request has no
\* payment behind it: whatever leaves the fate of the payment unknown is
\* retried (http_client.py, lines 7-12).
RefusalMeansNoPayment ==
    \A o \in Operations :
        (intent[o] = "FAILED" /\ attempts[o] < MaxAttempts) => o \in Refused \ paid

\* A closed delivery carries the id of a payment that exists (_interpret,
\* "В ответе провайдера нет providerPaymentId").
DoneNamesThePayment ==
    \A o \in Operations : intent[o] = "DONE" => linked[o] = "id" /\ o \in paid

\* Every delivery comes to an end although the provider may never answer: the
\* timeouts of the client end each call, the limit ends the attempts.
EveryDeliveryEnds ==
    \A o \in Operations : <>(intent[o] \in {"DONE", "FAILED"})

\* On a network without failures a delivery that was planned is sent at least
\* once before it is given up (README, "Надёжно запланировать отправку").
GivenUpWasSent ==
    \A o \in Operations : intent[o] = "FAILED" => o \in sent
===============================================================================
