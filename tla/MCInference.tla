---------------------------- MODULE MCInference ----------------------------
EXTENDS Inference

CONSTANTS t1, t2

(* One task ingests, the other classifies; both embed over the same pool.  *)
MCJobs == [t \in {t1, t2} |->
             IF t = t1 THEN {"extract", "embed"} ELSE {"classify", "relations", "judge", "consolidate", "embed"}]
=============================================================================
