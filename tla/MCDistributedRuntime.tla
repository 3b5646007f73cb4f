------------------------ MODULE MCDistributedRuntime ------------------------
(* Model-checking instance of DistributedRuntime: two workers, of one and  *)
(* of two lanes; the inputs tell all three lanes apart.                    *)
(* The foreign checkpoint has the same lanes in other ranges.              *)
EXTENDS DistributedRuntime

OneTwo == <<1, 2>>
OneTwoInputs == {<<1, 0, 2>>, <<1>>}
TwoOneCheckpoint ==
    [total |-> 3, infos |-> <<Info(0, 2), Info(2, 1)>>,
     storages |-> <<[in |-> <<1, 1>>, cnt |-> <<5, 5>>], [in |-> <<1>>, cnt |-> <<5>>]>>,
     trusted |-> FALSE]
OneTwoForeign == {TwoOneCheckpoint}

(* Three workers, for the serial order of their requests.                  *)
OneOneOne == <<1, 1, 1>>
OneOneOneInputs == {<<1, 2, 0>>}
NoForeign == {}
=============================================================================
