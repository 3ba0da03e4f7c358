--------------------------- MODULE ProviderCallProofs ---------------------------
(***************************************************************************)
(* What the outcome of a delivery says about the payment, for any number   *)
(* of operations and attempts.                                             *)
(***************************************************************************)
EXTENDS ProviderCall, TLAPS

\* A call is only made for an intent that waits for it and has attempts left,
\* and an outcome is true of the provider already before it is recorded.
CallInv ==
    /\ TypeOK
    /\ \A o \in Operations :
        /\ call[o] # "idle" => intent[o] = "PENDING"
        /\ (call[o] = "idle" /\ intent[o] = "PENDING") => attempts[o] < MaxAttempts
        /\ o \in Refused => o \notin paid
        /\ call[o] = "rejected" => o \in Refused
        /\ call[o] = "accepted" => linked[o] = "id" /\ o \in paid
    /\ RefusalMeansNoPayment
    /\ DoneNamesThePayment

\* _interpret: rejected is only what the provider itself answers with a 4xx
\* that is not retryable, accepted only a response that names a payment.
LEMMA InterpretIsSound ==
    ASSUME NEW o \in Operations, NEW response \in Response, Honest(o, response)
    PROVE  /\ Interpret(response) \in Outcome
           /\ Interpret(response) = "rejected" => o \in Refused
           /\ Interpret(response) = "accepted" => response.body = "id" /\ o \in paid
<1>1. response.code \in Code /\ response.body \in Body
  BY DEF Response
<1>2. CASE response.code \in {202, 302}
  <2>1. ~ RetryableCode(response.code)
    BY <1>2 DEF RetryableCode, RetryableStatuses
  <2>2. CASE UsableBody(response.body)
    BY <1>2, <2>1, <2>2 DEF Interpret, UsableBody, Honest, Outcome
  <2>3. CASE ~ UsableBody(response.body)
    BY <1>2, <2>1, <2>3 DEF Interpret, Outcome
  <2> QED BY <2>2, <2>3
<1>3. CASE response.code \in {400, 409}
  <2>1. ~ RetryableCode(response.code)
    BY <1>3 DEF RetryableCode, RetryableStatuses
  <2> QED BY <1>3, <2>1 DEF Interpret, Honest, Outcome
<1>4. CASE response.code \in {408, 425, 429, 500, 503}
  <2>1. RetryableCode(response.code)
    BY <1>4 DEF RetryableCode, RetryableStatuses
  <2> QED BY <1>4, <2>1 DEF Interpret, Outcome
<1> QED BY <1>1, <1>2, <1>3, <1>4 DEF Code

LEMMA CallInit == Init => CallInv
BY CallAssumption
DEF Init, CallInv, TypeOK, RefusalMeansNoPayment, DoneNamesThePayment

\* One step of one operation keeps the invariant; what it says of the others
\* does not change.
LEMMA CallStep ==
    CallInv /\ [Next]_vars => CallInv'
<1> SUFFICES ASSUME CallInv, [Next]_vars PROVE CallInv'
  OBVIOUS
<1> USE CallAssumption
<1>1. ASSUME NEW o \in Operations, Begin(o) PROVE CallInv'
  <2>1. /\ intent[o] = "PENDING" /\ call[o] = "idle"
        /\ attempts[o] \in 0 .. MaxAttempts /\ attempts[o] < MaxAttempts
        /\ call' = [call EXCEPT ![o] = "connecting"]
        /\ attempts' = [attempts EXCEPT ![o] = attempts[o] + 1]
        /\ UNCHANGED <<intent, linked, sent, paid>>
    BY <1>1 DEF CallInv, Begin, Becomes, TypeOK
  <2>2. attempts[o] + 1 \in 0 .. MaxAttempts
    BY <2>1
  <2>3. TypeOK'
    BY <2>1, <2>2 DEF CallInv, TypeOK
  <2>4. \A q \in Operations : q # o => attempts'[q] = attempts[q] /\ call'[q] = call[q]
    BY <2>1 DEF CallInv, TypeOK
  <2>5. call'[o] = "connecting"
    BY <2>1 DEF CallInv, TypeOK
  <2> QED BY <2>1, <2>3, <2>4, <2>5 DEF CallInv, RefusalMeansNoPayment, DoneNamesThePayment
<1>2. ASSUME NEW o \in Operations, HeadersFail(o) PROVE CallInv'
  BY <1>2 DEF CallInv, HeadersFail, Becomes, TypeOK, Outcome, RefusalMeansNoPayment, DoneNamesThePayment
<1>3. ASSUME NEW o \in Operations, ConnectFails(o) PROVE CallInv'
  BY <1>3 DEF CallInv, ConnectFails, Becomes, TypeOK, Outcome, RefusalMeansNoPayment, DoneNamesThePayment
<1>4. ASSUME NEW o \in Operations, Send(o) PROVE CallInv'
  BY <1>4 DEF CallInv, Send, Becomes, TypeOK, Outcome, RefusalMeansNoPayment, DoneNamesThePayment
<1>5. ASSUME NEW o \in Operations, Receive(o) PROVE CallInv'
  <2>1. PICK response \in Response :
          /\ Honest(o, response)
          /\ call' = [call EXCEPT ![o] = Interpret(response)]
          /\ linked' = [linked EXCEPT ![o] =
                IF Interpret(response) # "accepted" THEN @
                ELSE IF response.body = "id" THEN "id" ELSE ""]
    BY <1>5 DEF Receive, Becomes
  <2> DEFINE r == Interpret(response)
  <2>2. /\ r \in Outcome
        /\ r = "rejected" => o \in Refused
        /\ r = "accepted" => response.body = "id" /\ o \in paid
    BY <2>1, InterpretIsSound
  <2>3. /\ call[o] = "waiting" /\ intent[o] = "PENDING"
        /\ UNCHANGED <<attempts, intent, sent, paid>>
    BY <1>5 DEF Receive, CallInv
  <2>4. /\ call' = [call EXCEPT ![o] = r]
        /\ linked' = [linked EXCEPT ![o] = IF r = "accepted" THEN "id" ELSE @]
    BY <2>1, <2>2
  <2> HIDE DEF r
  <2> QED BY <2>2, <2>3, <2>4
    DEF CallInv, TypeOK, Outcome, RefusalMeansNoPayment, DoneNamesThePayment
<1>6. ASSUME NEW o \in Operations, GetsNoAnswer(o) PROVE CallInv'
  BY <1>6 DEF CallInv, GetsNoAnswer, TimesOut, Becomes, TypeOK, Outcome, RefusalMeansNoPayment, DoneNamesThePayment
<1>7. ASSUME NEW o \in Operations, Record(o) PROVE CallInv'
  <2>1. /\ intent[o] = "PENDING"
        /\ call' = [call EXCEPT ![o] = "idle"]
        /\ UNCHANGED <<attempts, linked, sent, paid>>
    BY <1>7 DEF Record, Becomes, CallInv
  <2>2. CASE call[o] = "accepted" /\ intent' = [intent EXCEPT ![o] = "DONE"]
    BY <2>1, <2>2 DEF CallInv, TypeOK, Outcome, RefusalMeansNoPayment, DoneNamesThePayment
  <2>3. CASE call[o] = "unavailable" /\ attempts[o] < MaxAttempts /\ intent' = intent
    BY <2>1, <2>3 DEF CallInv, TypeOK, Outcome, RefusalMeansNoPayment, DoneNamesThePayment
  <2>4. CASE /\ call[o] = "rejected" \/ (call[o] = "unavailable" /\ ~ (attempts[o] < MaxAttempts))
             /\ intent' = [intent EXCEPT ![o] = "FAILED"]
    BY <2>1, <2>4 DEF CallInv, TypeOK, Outcome, RefusalMeansNoPayment, DoneNamesThePayment
  <2> QED BY <1>7, <2>2, <2>3, <2>4 DEF Record, AttemptsLeft
<1>8. ASSUME NEW o \in Operations, Pay(o) PROVE CallInv'
  BY <1>8 DEF CallInv, Pay, TypeOK, Outcome, RefusalMeansNoPayment, DoneNamesThePayment
<1>9. ASSUME UNCHANGED vars PROVE CallInv'
  BY <1>9 DEF CallInv, vars, TypeOK, Outcome, RefusalMeansNoPayment, DoneNamesThePayment
<1> QED BY <1>1, <1>2, <1>3, <1>4, <1>5, <1>6, <1>7, <1>8, <1>9 DEF Next

\* No call, outcome or count of attempts ever leaves its type, and nothing is
\* paid that was not sent.
THEOREM CallsAreTyped == Spec => []TypeOK
<1>1. CallInv => TypeOK
  BY DEF CallInv
<1> QED BY <1>1, CallInit, CallStep, PTL DEF Spec

\* A delivery that ends before its last attempt was refused, and nothing has
\* been paid for it (http_client.py, lines 7-12).
THEOREM RefusedIsUnpaid == Spec => []RefusalMeansNoPayment
<1>1. CallInv => RefusalMeansNoPayment
  BY DEF CallInv
<1> QED BY <1>1, CallInit, CallStep, PTL DEF Spec

\* An intent is closed with the id of a payment that has been made.
THEOREM DoneIsPaid == Spec => []DoneNamesThePayment
<1>1. CallInv => DoneNamesThePayment
  BY DEF CallInv
<1> QED BY <1>1, CallInit, CallStep, PTL DEF Spec
===============================================================================
