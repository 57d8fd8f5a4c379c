--------------------------- MODULE AggregateGroups ---------------------------
(***************************************************************************)
(* What the workers' group states promise the engine: one table of groups, *)
(* whichever processes serve it.  A call acts on it at once, and when it   *)
(* is answered what it did is kept.  A call that fails before that leaves  *)
(* each group it names as before the call or as after it, and the others   *)
(* alone, and the engine is told; only of a destructor it never is.        *)
(***************************************************************************)
EXTENDS AggregateFold

CONSTANTS
    Gids,      \* group ids
    Calls,     \* the calls the engine can make
    Asked      \* the groups aggregate_finalize is asked for

VARIABLES
    groups,    \* their states
    kept,      \* the states that outlive a failure
    acted,     \* calls that have acted and are not answered
    failed,    \* the engine was told of a failure
    answer     \* what aggregate_finalize answered, or {}

vars == <<groups, kept, acted, failed, answer>>

NoGroups == [g \in Gids |-> NoState]

Init == groups = NoGroups /\ kept = NoGroups /\ acted = {} /\ failed = FALSE /\ answer = {}

\* No other call is at work on the groups of c.
Alone(c) == \A d \in acted \ {c} : GidsOf(d) \cap GidsOf(c) = {}

\* A call acts, once.  The result is not asked for once something failed.
Call(c) ==
    /\ c \notin acted
    /\ acted' = acted \cup {c}
    /\ UNCHANGED <<kept, failed>>
    /\ Alone(c)
    /\ c.op = "finalize" => ~failed
    /\ groups' = Effect(groups, c)
    /\ answer' = IF c.op = "finalize" THEN {[g \in Asked |-> groups[g]]} ELSE answer

\* A group it named is kept as it now is.
Keep(c) ==
    /\ c \in acted
    /\ UNCHANGED <<groups, acted, failed, answer>>
    /\ \E g \in GidsOf(c) : kept' = [kept EXCEPT ![g] = groups[g]]

Reply(c) ==
    /\ c \in acted
    /\ acted' = acted \ {c}
    /\ \A g \in GidsOf(c) : kept[g] = groups[g]
    /\ UNCHANGED <<groups, kept, failed, answer>>

Fail(c) ==
    /\ failed' = (failed \/ c.op # "destroy")
    /\ acted' = acted \ {c}
    /\ UNCHANGED <<kept, answer>>
    /\ Alone(c)
    /\ groups' = [g \in Gids |-> IF g \in GidsOf(c) THEN kept[g] ELSE groups[g]]

Next == \E c \in Calls : Call(c) \/ Keep(c) \/ Reply(c) \/ Fail(c)

Spec == Init /\ [][Next]_vars

=============================================================================
