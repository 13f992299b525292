--------------------------- MODULE MCJobLifecycle ---------------------------
(***************************************************************************)
(* Small instances of JobLifecycle for TLC.  Workers are model values, so  *)
(* that they can be permuted; jobs and queues are numbers.                 *)
(***************************************************************************)
EXTENDS JobLifecycle, TLC

Same(S, v) == [x \in S |-> v]

OneQueue     == Same(Jobs, 1)
NoDeps       == Same(Jobs, {})
LastOnFirst  == [j \in Jobs |-> IF j = 3 THEN {1} ELSE {}]

OneAttempt   == Same(Jobs, 1)
TwoAttempts  == Same(Jobs, 2)
LimitOne     == Same(Queues, 1)
LimitTwo     == Same(Queues, 2)

DetectorSymmetry == Permutations(Detectors)     \* where no detector may crash
=============================================================================
