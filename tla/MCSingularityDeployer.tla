------------------------ MODULE MCSingularityDeployer ------------------------
(* Deployments that differ in the request, in the deploy, in both, and ones *)
(* that cannot settle.                                                      *)
EXTENDS SingularityDeployer

first == [version |-> 1, instances |-> 1, env |-> Empty, metadata |-> Empty,
          resources |-> [cpus |-> 100, memory |-> 100000, ports |-> Junk],
          volumes |-> <<>>, startup |-> [zeroStartup EXCEPT !.skip = TRUE, !.seconds = 5],
          schedule |-> "daily", owners |-> {1}, kind |-> Service]
MCWanted ==
    {first,
     [first EXCEPT !.version = 2, !.owners = {1, 2}, !.volumes = <<1, 2>>, !.env = "E" :> 1,
                   !.startup = [zeroStartup EXCEPT !.protocol = "HTTP", !.failures = {500}]],
     [first EXCEPT !.instances = 0, !.kind = Scheduled, !.metadata = "M" :> 1]}

(* From the first of them: the others are reached by changes.               *)
MCInitially == {first}
=============================================================================
