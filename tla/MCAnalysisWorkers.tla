-------------------------- MODULE MCAnalysisWorkers --------------------------
(* Two units with a database parser and one without, on one to three        *)
(* threads: one thread parses both databases, or one each.                  *)
EXTENDS AnalysisWorkers

MCDatabaseUnits == {1, 3}

\* At most one unit panics and at most two do not succeed.
MCFates ==
  {f \in [Units -> {"ok", "failed", "panicked"}] :
     /\ Cardinality({u \in Units : f[u] # "ok"}) <= 2
     /\ Cardinality({u \in Units : f[u] = "panicked"}) <= 1}
=============================================================================
