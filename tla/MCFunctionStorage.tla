-------------------------- MODULE MCFunctionStorage --------------------------
(***************************************************************************)
(* FunctionStorage on a small instance.                                    *)
(***************************************************************************)
EXTENDS FunctionStorage, TLC

CONSTANT b1

\* One item, or two of which the first has no bytes.
MCPushes == {<<b1>>, <<Empty, b1>>}

Symmetric == Permutations(Clients)
=============================================================================
