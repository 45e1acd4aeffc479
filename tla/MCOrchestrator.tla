---------------------------- MODULE MCOrchestrator ----------------------------
(* The command lines for the run of Orchestrator: every combination of the *)
(* pacing options below, valid or not.                                     *)
EXTENDS Orchestrator

\* -n 3 or none, -c 1 or 5, -m 0 or 1, -t 2 or 3, -r 2 or 4 or none, --qps 5 or none, -D 1 or none.
SmallOptions ==
    [nreqs : {0, 3}, nclients : {1, 5}, streams : {0, 1},
     nthreads : {2, 3}, rate : {0, 2, 4},
     qps : {0, 5}, duration : {0, 1}]
=============================================================================
