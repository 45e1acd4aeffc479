--------------------------- MODULE MCH2LoadWorker ---------------------------
(* Model-checking instance of H2LoadWorker: the values of its CONSTANTS    *)
(* that a .cfg cannot write, and the state constraint.                     *)
EXTENDS H2LoadWorker

\* qps_counts_ of a worker outside QPS mode: empty.
NoQpsSlots == <<>>

\* qps_counts_ with two slots per tick cycle: one token, then none.
TwoQpsSlots == <<1, 0>>

\* qps_counts_ with two slots per tick cycle: two tokens, then none.
BurstQpsSlots == <<2, 0>>

=============================================================================
