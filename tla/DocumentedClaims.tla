--------------------------- MODULE DocumentedClaims ---------------------------
(***************************************************************************)
(* Statements of the documentation and the comments that the code does not *)
(* keep.  Each is checked by a run that finds the behaviour breaking it.   *)
(***************************************************************************)
EXTENDS TaskPayments

\* app/domain/enums.py:44-46: an event that does not change the status records
\* a fact and moves nothing.  A late failure is recorded as
\* PROCESSING -> PROCESSING although a receipt has made the operation final.
HistoryEndsAtStatus ==
    \A o \in OperationIds :
        events[o] # <<>> => events[o][Len(events[o])].to = operations[o].status

\* README.md:179-181: a receipt that is not inserted is one that has been
\* processed.  A receipt posted before the submit is stored unprocessed, and
\* the provider's own report of the same outcome is then dropped as its copy.
NoReportIsDropped ==
    \A o \in OperationIds, result \in ReceiptResult :
        operations[o].status = "PROCESSING" =>
            \A p \in PaymentsOf(o) : ~ AlreadyRecorded(receipts, o, p.id, result)

===============================================================================
