------------------------------ MODULE MCGraph ------------------------------
(* Graph with two groups: a source with three entities of one kind, and a    *)
(* layer with an entity, a cross-group edge into the source and an episode.*)
EXTENDS Graph

CONSTANTS base, layer, n1, n2, n3, kind, ch1, ch2

Ent(g, n, i) == [op |-> "entity", id |-> i, row |-> NewEntity(g, kind, n, i)]
Episode(g, c, i) == [op |-> "episode", id |-> i, row |-> [group |-> g, chunk |-> c]]

Edge(i, a, b) ==
    <<[op |-> "edge", id |-> i, row |-> NewEdge(base, NoPointers)],
      [op |-> "direct", id |-> i, from |-> a, to |-> b],
      [op |-> "hops", id |-> i, from |-> a, to |-> b]>>

Pointer(g, n, i, seq) == [group |-> g, name |-> n, kind |-> None, uuid |-> i, seq |-> seq,
                          state |-> "bound"]

MCSeed ==
    (base :> <<Ent(base, n1, 1), Ent(base, n2, 2), Ent(base, n3, 4)>>
             \o Edge(1, 1, 4) \o Edge(3, 2, 4) \o <<Episode(base, ch1, 1)>>)
    @@
    (layer :> <<Ent(layer, n1, 3), Episode(layer, ch2, 2),
                [op |-> "edge", id |-> 2,
                 row |-> NewEdge(layer, ("src" :> None @@ "dst" :> Pointer(base, n1, 1, 9)))],
                [op |-> "direct", id |-> 2, from |-> 3, to |-> 1],
                hop(2, "src", 3), hop(2, "dst", 1)>>)

MCEdgeInputs ==
    {<<[uuid |-> 3], [group |-> base, name |-> n, kind |-> None]>> : n \in {n1, n2}}
    \cup {<<[group |-> base, name |-> n1, kind |-> kind],
            [group |-> base, name |-> n2, kind |-> kind]>>}
=============================================================================
