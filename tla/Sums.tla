-------------------------------- MODULE Sums ---------------------------------
(* Sums, as the SQL of the stores computes them: SUM(column) over some rows.  *)
EXTENDS FiniteSetsExt

\* The sum of f[x] over the x of S.
Total(f, S) == MapThenSumSet(LAMBDA x : f[x], S)
=============================================================================
