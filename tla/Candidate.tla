------------------------------ MODULE Candidate ------------------------------
(***************************************************************************)
(* A candidate as files: what candidate_files reads for both checkers.     *)
(* A file may come directly, or inside result.json (the worker's submit    *)
(* helper bundles them there); utf8 says whether model.c decodes.          *)
(***************************************************************************)

FILES == {"model.c", "params.json", "cases.json"}

Candidates == [direct : SUBSET FILES, bundle : SUBSET FILES,
               result : {"absent", "garbled", "json"}, utf8 : BOOLEAN]

Names(c) == c.direct \cup (IF c.result = "json" THEN c.bundle ELSE {})

\* result.json is not a JSON map of the known names to text, or it repeats a
\* file the candidate also carries directly.
Malformed(c) ==
  \/ c.result = "garbled"
  \/ c.result = "json" /\ c.direct \cap c.bundle # {}
=============================================================================
