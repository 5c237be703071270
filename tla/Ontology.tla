------------------------------ MODULE Ontology ------------------------------
(***************************************************************************)
(* What the service makes of an ontology file: the type hierarchy with its *)
(* undeclared and cyclic parents removed, the ancestors of a type, the     *)
(* identity-bearing types, the relation aliases, the content hash, and the *)
(* reclassification of what a model extracted outside the vocabulary.      *)
(***************************************************************************)
EXTENDS Naturals, Sequences, FiniteSets, SequencesExt

CONSTANTS
    Norm,    \* Norm[s]: the normalized spelling of a label, "" when blank
    None

Reserved == {"Merged", "Unclassified"}
EntityUnclassified == "Unclassified"
RelUnclassified == "UNCLASSIFIED"
DefaultKind == "default"

-----------------------------------------------------------------------------
(* The hierarchy. A type is [name, parent, identity, extract].             *)

DropUndeclared(types) ==
    LET declared == {types[i].name : i \in DOMAIN types}
    IN [i \in DOMAIN types |->
           [types[i] EXCEPT !.parent = IF @ \in declared THEN @ ELSE None]]

(* Later entries of a name replace earlier ones in the index.              *)
index_of(types, name) ==
    CHOOSE i \in DOMAIN types :
        types[i].name = name /\ \A j \in DOMAIN types : types[j].name = name => j <= i

ClearParents(types, members) ==
    [i \in DOMAIN types |-> IF i \in members THEN [types[i] EXCEPT !.parent = None] ELSE types[i]]

(* The chain of parents from start, up to a type known safe, a root, or a  *)
(* type already on it.                                                     *)
Path(types, safe, start) ==
    LET path[k \in 0..Len(types)] ==
            IF k = 0 THEN <<start>>
            ELSE LET p == path[k - 1]
                 IN IF Last(p) \in safe \cup ToSet(Front(p)) \/ types[Last(p)].parent = None THEN p
                    ELSE Append(p, index_of(types, types[Last(p)].parent))
    IN path[Len(types)]

(* The members of a cycle lose their parents; those that led into it are   *)
(* safe, as is a chain that has no cycle.                                  *)
Follow(types, safe, start) ==
    LET path == Path(types, safe, start)
        before == Front(path)
        cur == Last(path)
    IN IF cur \notin safe /\ cur \in ToSet(before)
       THEN LET at == CHOOSE p \in DOMAIN before : before[p] = cur
            IN <<ClearParents(types, {before[p] : p \in at..Len(before)}),
                 safe \cup {before[p] : p \in 1..(at - 1)}>>
       ELSE <<types, safe \cup ToSet(path)>>

(* The types and the safe ones after each start in turn.                   *)
FollowAll(types) ==
    LET done[n \in 0..Len(types)] ==
            IF n = 0 THEN <<types, {}>>
            ELSE LET d == done[n - 1]
                 IN IF n \in d[2] THEN d ELSE Follow(d[1], d[2], n)
    IN done[Len(types)][1]

validate_and_clean_parents(types) == FollowAll(DropUndeclared(types))

(* The last entry of the name that has a parent.                           *)
parent_of(types, name) ==
    LET at == {i \in DOMAIN types : types[i].name = name /\ types[i].parent # None}
    IN IF at = {} THEN None ELSE types[CHOOSE i \in at : \A j \in at : j <= i].parent

(* The climb from a type to its root. "loop" stands for a climb that does  *)
(* not end.                                                                *)
Climb(types, name) ==
    LET climb[k \in 0..Len(types) + 1] ==
            IF k = 0 THEN <<>>
            ELSE LET above == climb[k - 1]
                     p == parent_of(types, IF above = <<>> THEN name ELSE Head(above))
                 IN IF p = None THEN above ELSE <<p>> \o above
        above == climb[Len(types) + 1]
    IN IF Len(above) > Len(types) THEN <<"loop">> ELSE above

compute_ancestor_map(types) == [n \in {types[i].name : i \in DOMAIN types} |-> Climb(types, n)]

-----------------------------------------------------------------------------
(* A file is [strict, types, rels]; a relation is [name, aliases, extract].*)

EntityTypes(raw) ==
    LET named == SelectSeq(raw, LAMBDA t : Norm[t.name] \notin {"", "Entity"})
    IN [i \in DOMAIN named |->
           [name |-> Norm[named[i].name],
            parent |-> IF named[i].parent = None THEN None ELSE Norm[named[i].parent],
            identity |-> named[i].identity /\ Norm[named[i].name] \notin Reserved,
            extract |-> named[i].extract]]

RelationTypes(raw) ==
    LET named == SelectSeq(raw, LAMBDA r : Norm[r.name] # "")
    IN [i \in DOMAIN named |->
           [name |-> Norm[named[i].name],
            aliases |-> {Norm[a] : a \in named[i].aliases} \ {""},
            extract |-> named[i].extract]]

(* A file that declares nothing is no ontology.                            *)
build_ontology(file) ==
    LET types == validate_and_clean_parents(EntityTypes(file.types))
        rels == RelationTypes(file.rels)
    IN IF types = <<>> /\ rels = <<>> THEN None
       ELSE [strict |-> file.strict, types |-> types, rels |-> rels,
             ancestor_map |-> compute_ancestor_map(types)]

(* Type and relation order, and the order within a list, do not count.     *)
content_hash(onto) ==
    IF onto = None THEN None
    ELSE [strict |-> onto.strict, types |-> ToSet(onto.types), rels |-> ToSet(onto.rels)]

identity_set(onto) ==
    IF onto = None THEN {} ELSE {t.name : t \in {u \in ToSet(onto.types) : u.identity}}

identity_kind(onto, label) ==
    IF onto # None /\ \E t \in ToSet(onto.types) : t.identity /\ t.extract /\ t.name = Norm[label]
    THEN Norm[label] ELSE DefaultKind

build_alias_map(onto) ==
    LET rels == SelectSeq(onto.rels, LAMBDA r : r.extract)
        names == UNION {{r.name} \cup r.aliases : r \in ToSet(rels)}
        last(n) == CHOOSE i \in DOMAIN rels :
            /\ n \in {rels[i].name} \cup rels[i].aliases
            /\ \A j \in DOMAIN rels : n \in {rels[j].name} \cup rels[j].aliases => j <= i
    IN [n \in names |-> rels[last(n)].name]

-----------------------------------------------------------------------------
(* Reclassification of what was extracted.                                 *)

Extractable(defs) == {d.name : d \in {e \in ToSet(defs) : e.extract}}
Hidden(defs) == {d.name : d \in {e \in ToSet(defs) : ~e.extract}}

EntityType(onto, type) ==
    IF onto = None THEN type
    ELSE IF onto.strict /\ Extractable(onto.types) # {}
    THEN IF Norm[type] \in {"", "Entity"} \cup Extractable(onto.types) THEN Norm[type]
         ELSE EntityUnclassified
    ELSE IF Norm[type] \in Hidden(onto.types) THEN EntityUnclassified ELSE type

RelationType(onto, rel) ==
    IF onto = None THEN rel
    ELSE IF onto.strict /\ Extractable(onto.rels) # {}
    THEN LET map == build_alias_map(onto)
         IN IF rel # None /\ Norm[rel] \in DOMAIN map THEN map[Norm[rel]] ELSE RelUnclassified
    ELSE IF rel # None /\ Norm[rel] \in Hidden(onto.rels) THEN RelUnclassified ELSE rel

(* The kind an extracted entity is stored under, and its labels.           *)
KindOf(onto, type) ==
    IF type = EntityUnclassified THEN DefaultKind ELSE identity_kind(onto, type)

LabelsOf(onto, type) ==
    LET label == IF KindOf(onto, type) # DefaultKind THEN KindOf(onto, type) ELSE type
    IN IF label \in {"", "Entity"} THEN {"Entity"}
       ELSE {"Entity", label} \cup
            (IF onto # None /\ label \in DOMAIN onto.ancestor_map THEN ToSet(onto.ancestor_map[label]) ELSE {})

=============================================================================
