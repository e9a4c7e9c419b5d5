------------------------------ MODULE Resolver -------------------------------
(***************************************************************************)
(* resolver.Memory (internal/resolver) as a value, and what its operations *)
(* compute under its lock.  A reference is a tag or the digest string of a *)
(* node, which is written as the node itself.                              *)
(***************************************************************************)
EXTENDS Graph

CONSTANT Tags

Refs == Tags \cup Nodes

\* NewMemory: index maps references to descriptors, tags a descriptor's digest
\* to its references.
EmptyResolver == [index |-> EmptyMap, tags |-> EmptyMap]

TagRef(m, n, ref) ==
    [index |-> [r \in DOMAIN m.index \cup {ref} |->
                    IF r = ref THEN n ELSE m.index[r]],
     tags |-> [k \in DOMAIN m.tags \cup {n} |->
                    IF k = n THEN Get(m.tags, n) \cup {ref} ELSE m.tags[k]]]

\* Untag of each of a set of references to the same node; a set of references
\* that becomes empty is deleted.
UntagRefs(m, n, refs) ==
    LET left == Get(m.tags, n) \ refs IN
    [index |-> [r \in DOMAIN m.index \ refs |-> m.index[r]],
     tags |-> [k \in DOMAIN m.tags \ (IF left = {} THEN {n} ELSE {}) |->
                    IF k = n THEN left ELSE m.tags[k]]]

\* Untag; nothing happens to an unknown reference.
UntagRef(m, ref) ==
    IF ref \in DOMAIN m.index THEN UntagRefs(m, m.index[ref], {ref}) ELSE m

TagSet(m, n) == Get(m.tags, n)

RefsTo(m, n) == {r \in DOMAIN m.index : m.index[r] = n}

IsResolver(m) ==
    /\ m = [index |-> m.index, tags |-> m.tags]
    /\ DOMAIN m.index \subseteq Refs
    /\ \A r \in DOMAIN m.index : m.index[r] \in Nodes
    /\ DOMAIN m.tags \subseteq Nodes
    /\ \A n \in DOMAIN m.tags : m.tags[n] \subseteq Refs
==============================================================================
