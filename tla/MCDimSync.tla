----------------------------- MODULE MCDimSync -----------------------------
(* Symmetry for the safety runs of DimSync: requests, runs, readings, fields *)
(* and known SKUs are interchangeable.                                       *)
EXTENDS DimSync, TLC

Interchangeable ==
    Permutations(Writers) \cup Permutations(Runs) \cup Permutations(Numbers)
      \cup Permutations(Fields) \cup Permutations(KnownSkus)
=============================================================================
