-------------------------- MODULE MCPartitionSession --------------------------
(* Constants for the runs of PartitionSession.                             *)
EXTENDS PartitionSession

\* A route each way between two workers and one that stays on the first.
MCRoutes == <<[producer |-> 1, consumer |-> 2, width |-> 33],
              [producer |-> 2, consumer |-> 1, width |-> 1],
              [producer |-> 1, consumer |-> 1, width |-> 1]>>
MCPayloads == {<<>>, <<1, 1>>}
MCMissing == {{}, {2}}
MCScripts == {<<>>, <<"EvalCombinational", "TickManyZero", "Tick">>}
=============================================================================
