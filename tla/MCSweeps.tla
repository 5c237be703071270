------------------------------ MODULE MCSweeps ------------------------------
(* Sweeps over two edges and two entities, one of them a tombstone.        *)
EXTENDS Sweeps, TLC

CONSTANTS p1, p2, e1, e2, works_for, owns, freetext, noisy

MCNameMeans == (e1 :> None @@ e2 :> works_for)
MCTextMeans == (freetext :> None @@ noisy :> Noise)
MCDerived == (e1 :> owns @@ e2 :> freetext)
MCBefore == (e1 :> Untyped @@ e2 :> noisy)
MCRequests ==
    (p1 :> ({"relations", "types"} \X {"untyped", "off_ontology", "all"})
           \cup {<<"canonicalize", None>>, <<"summaries", None>>})
    @@ (p2 :> {<<"backfill", None>>, <<"summaries", None>>})
MCKind == (1 :> "Person" @@ 2 :> "Person")
MCAncestors == ("Agent" :> {} @@ "Person" :> {"Agent"} )
=============================================================================
