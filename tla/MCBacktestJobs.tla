--------------------------- MODULE MCBacktestJobs ---------------------------
(* Small instances of BacktestJobs for TLC. *)
EXTENDS BacktestJobs, TLC

\* Workers are interchangeable: safety runs only.
Symmetry == Permutations(Workers)
=============================================================================
