--------------------------- MODULE MCBenchWorker ---------------------------
(* Values for the constants of BenchWorker, for TLC. *)
EXTENDS BenchWorker

CONSTANT ours

MCTeam == {ours}

\* Requests of one team are what the worker tells apart; another team's rows
\* are not in the answer it reads.
OneTeam == [r \in Request |-> ours]
=============================================================================
