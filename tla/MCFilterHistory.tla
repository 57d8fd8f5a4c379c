--------------------------- MODULE MCFilterHistory ---------------------------
(* FilterHistory on small instances for TLC.                               *)
EXTENDS FilterHistory, TLC

CONSTANTS i1, i2, e1, e2

MCSnapshots ==
    {[preds |-> <<>>, required |-> {}],
     [preds |-> <<[id |-> i1, expr |-> e1]>>, required |-> {}],
     [preds |-> <<[id |-> i1, expr |-> e1]>>, required |-> {i1}],
     [preds |-> <<[id |-> i2, expr |-> e1], [id |-> i1, expr |-> e1]>>, required |-> {}]}

=============================================================================
