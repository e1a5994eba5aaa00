------------------------ MODULE MCRunningDeployments ------------------------
(* RunningDeployments with two Singularities, the first with all the        *)
(* requests but one.                                                        *)
EXTENDS RunningDeployments

CONSTANTS s1, s2, last

Uneven == [r \in Requests |-> IF r = last THEN s2 ELSE s1]
=============================================================================
