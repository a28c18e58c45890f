----------------------------- MODULE HashChains -----------------------------
(* The hash tables of hash.c: an array of buckets, each the head of a      *)
(* doubly linked chain of nodes.  The listener keeps its counts per        *)
(* address and its children per pid in two of them (Standalone); there a   *)
(* table is a function, and this module shows that the chains are one.     *)
EXTENDS Integers, FiniteSets

CONSTANTS
    Keys,        \* the keys: addresses or pids
    Values,      \* the values: counters or addresses
    Nodes,       \* the memory malloc() hands out nodes from
    NULL,        \* the null pointer
    buckets,     \* hash->buckets
    hash_func    \* hash->hash_func, a function from keys to bucket numbers

ASSUME HashAssumption ==
    /\ buckets \in Nat \ {0}
    /\ hash_func \in [Keys -> 0..(buckets - 1)]
    /\ NULL \notin Nodes \cup Values
    /\ IsFiniteSet(Nodes)

VARIABLES
    p_nodes,     \* bucket -> its first node
    nodes,       \* node -> struct hash_node, or Unallocated
    entries,     \* history: key -> the value it was given, or NULL
    hash_bug     \* a bug() call of hash.c was reached

hashVars == <<p_nodes, nodes, entries, hash_bug>>

Unallocated == [live |-> FALSE]

Live == {n \in Nodes : nodes[n].live}

(* hash_alloc: every bucket is cleared.                                    *)
HashInit ==
    /\ p_nodes = [b \in 0..(buckets - 1) |-> NULL]
    /\ nodes = [n \in Nodes |-> Unallocated]
    /\ entries = [k \in Keys |-> NULL]
    /\ hash_bug = FALSE

hash_get_bucket(k) == hash_func[k]

(* The loop of hash_get_node_by_key: it starts at the head of the bucket   *)
(* and goes on from every node whose key is another one.  The nodes it     *)
(* visits are the smallest set with these two; freed memory holds no chain *)
(* any more, so a walk into it ends.                                       *)
WalksOn(k, S) ==
    /\ p_nodes[hash_get_bucket(k)] \in Live => p_nodes[hash_get_bucket(k)] \in S
    /\ \A m \in S : nodes[m].p_key # k /\ nodes[m].p_next \in Live => nodes[m].p_next \in S

Visited(k) == {n \in Live : \A S \in SUBSET Live : WalksOn(k, S) => n \in S}

(* The node of the chain with this key, at which the walk ends, or NULL.   *)
hash_get_node_by_key(k) ==
    LET Found == {n \in Visited(k) : nodes[n].p_key = k}
    IN  IF Found = {} THEN NULL ELSE CHOOSE n \in Found : TRUE

hash_lookup_entry(k) ==
    LET n == hash_get_node_by_key(k)
    IN  IF n = NULL THEN NULL ELSE nodes[n].p_value

-----------------------------------------------------------------------------

(* hash_add_entry: bug() on a duplicate, else the new node becomes the     *)
(* head of its chain and the old head points back at it.                   *)
hash_add_entry(k, v) ==
    IF hash_lookup_entry(k) # NULL
    THEN hash_bug' = TRUE /\ UNCHANGED <<p_nodes, nodes, entries>>
    ELSE \E n \in Nodes \ Live :
            LET b == hash_get_bucket(k)
                head == p_nodes[b]
                new == [live |-> TRUE, p_key |-> k, p_value |-> v,
                        p_prev |-> NULL, p_next |-> head]
            IN  /\ nodes' = [m \in Nodes |->
                                IF m = n THEN new
                                ELSE IF m = head THEN [nodes[m] EXCEPT !.p_prev = n]
                                ELSE nodes[m]]
                /\ p_nodes' = [p_nodes EXCEPT ![b] = n]
                /\ entries' = [entries EXCEPT ![k] = v]
                /\ UNCHANGED hash_bug

(* Mutant: the node after the freed one keeps its pointer back.            *)
UnlinkForward(n) ==
    [m \in Nodes |->
        IF m = n THEN Unallocated
        ELSE IF m = nodes[n].p_prev THEN [nodes[m] EXCEPT !.p_next = nodes[n].p_next]
        ELSE nodes[m]]

(* The pointers around a freed node: the previous node's forward, the next *)
(* node's back.                                                            *)
Unlink(n) ==
    [m \in Nodes |->
        IF m = n THEN Unallocated
        ELSE IF m = nodes[n].p_prev THEN [nodes[m] EXCEPT !.p_next = nodes[n].p_next]
        ELSE IF m = nodes[n].p_next THEN [nodes[m] EXCEPT !.p_prev = nodes[n].p_prev]
        ELSE nodes[m]]

(* hash_free_entry: bug() if there is no such key; a node without a        *)
(* predecessor is the head of its bucket.                                  *)
hash_free_entry(k) ==
    LET n == hash_get_node_by_key(k)
    IN  IF n = NULL
        THEN hash_bug' = TRUE /\ UNCHANGED <<p_nodes, nodes, entries>>
        ELSE /\ nodes' = Unlink(n)
             /\ p_nodes' = IF nodes[n].p_prev # NULL THEN p_nodes
                           ELSE [p_nodes EXCEPT ![hash_get_bucket(k)] = nodes[n].p_next]
             /\ entries' = [entries EXCEPT ![k] = NULL]
             /\ UNCHANGED hash_bug

(* The callers of hash_lookup_entry count through the pointer it returns.  *)
UpdateEntry(k, v) ==
    LET n == hash_get_node_by_key(k)
    IN  /\ n # NULL
        /\ nodes' = [nodes EXCEPT ![n].p_value = v]
        /\ entries' = [entries EXCEPT ![k] = v]
        /\ UNCHANGED <<p_nodes, hash_bug>>

(* bug() ends the process.                                                 *)
HashNext ==
    /\ ~hash_bug
    /\ \E k \in Keys :
          \/ \E v \in Values : hash_add_entry(k, v)
          \/ hash_free_entry(k)
          \/ \E v \in Values : UpdateEntry(k, v)

HashSpec == HashInit /\ [][HashNext]_hashVars

-----------------------------------------------------------------------------
(* Through any sequence of insertions, removals and updates, with keys     *)
(* that share a bucket, the table is the map its callers take it for: a    *)
(* lookup finds exactly what was stored, no node is lost or reachable      *)
(* after it was freed, and both directions of every chain agree.           *)
HashIsMap ==
    /\ \A k \in Keys : hash_lookup_entry(k) = entries[k]
    /\ Cardinality(Live) = Cardinality({k \in Keys : entries[k] # NULL})
    /\ \A n \in Live :
          /\ nodes[n].p_next # NULL => /\ nodes[n].p_next \in Live
                                       /\ nodes[nodes[n].p_next].p_prev = n
          /\ nodes[n].p_prev # NULL => /\ nodes[n].p_prev \in Live
                                       /\ nodes[nodes[n].p_prev].p_next = n

=============================================================================
