-------------------------- MODULE TableInOutResult --------------------------
(***************************************************************************)
(* What a table-in-out call with a finalize stage promises, whatever       *)
(* carries it: every turn the worker answers is folded into the state      *)
(* finalize() sees exactly once, finalize() runs once, and its batches     *)
(* arrive once each and in order.                                          *)
(***************************************************************************)
EXTENDS Naturals, Sequences

CONSTANTS
    Turns,        \* one input batch or continuation tick of one substream
    MaxBatches    \* bound of the batches finalize() returns

VARIABLES
    answered,     \* turns whose reply the client has
    counted,      \* counted[t]: how often turn t is in the states of finalize()
    produced,     \* batches finalize() returned, or NotRun
    delivered,    \* the batches of finalize() the client has, in order
    status        \* of the query: running, done or failed

vars == <<answered, counted, produced, delivered, status>>

NotRun == MaxBatches + 1

Init ==
    /\ answered = {}
    /\ counted = [t \in Turns |-> 0]
    /\ produced = NotRun
    /\ delivered = <<>>
    /\ status = "running"

\* A turn of an input stream is answered.
Answer ==
    /\ status = "running" /\ produced = NotRun
    /\ \E t \in Turns \ answered : answered' = answered \cup {t}
    /\ UNCHANGED <<counted, produced, delivered, status>>

\* finalize() is handed every answered turn once, and returns n batches.
Finalize ==
    /\ status = "running" /\ produced = NotRun
    /\ counted' = [t \in Turns |-> IF t \in answered THEN 1 ELSE 0]
    /\ \E n \in 0..MaxBatches : produced' = n
    /\ UNCHANGED <<answered, delivered, status>>

\* Its next batch arrives.
Deliver ==
    /\ status = "running" /\ produced # NotRun
    /\ Len(delivered) < produced
    /\ delivered' = Append(delivered, Len(delivered) + 1)
    /\ UNCHANGED <<answered, counted, produced, status>>

Finish ==
    /\ status = "running" /\ produced = Len(delivered)
    /\ status' = "done"
    /\ UNCHANGED <<answered, counted, produced, delivered>>

\* A turn fails: so does the query, and nothing is retried.
Fail ==
    /\ status = "running"
    /\ status' = "failed"
    /\ UNCHANGED <<answered, counted, produced, delivered>>

Next == Answer \/ Finalize \/ Deliver \/ Finish \/ Fail

Spec == Init /\ [][Next]_vars

=============================================================================
