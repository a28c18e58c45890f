--------------------------- MODULE LibraryProofs ----------------------------
(***************************************************************************)
(* Proofs about HashChains, for any keys, any hash function and any number *)
(* of nodes and buckets.  HashIInv is the inductive invariant: it adds to  *)
(* what is checked that every chain starts at the head of its bucket and   *)
(* stays in it, and that every live node is on the chain of its bucket.    *)
(*                                                                         *)
(* And about Filters, for any patterns, names and trees.  What its loops   *)
(* compute is proved by induction: LeastNumber and Induction put it as a   *)
(* statement about sets, and a recursive function is shown to exist, and   *)
(* so to satisfy its equation, by extending it one point at a time.        *)
(* LoopSound is what holds of the matcher by induction on its turns: in    *)
(* the states it gets into (StateOK), what it lets pass has the meaning of *)
(* what is left of the pattern (Good).                                     *)
(***************************************************************************)
EXTENDS HashChains, Filters, FunctionTheorems, FiniteSetTheorems, SequenceTheorems,
        WellFoundedInduction, TLAPS

-----------------------------------------------------------------------------
(* The inductive invariant.                                                *)

Pointers == Nodes \cup {NULL}
NodeRecords == [live : {TRUE}, p_key : Keys, p_value : Values,
                p_prev : Pointers, p_next : Pointers]

HashTypeOK ==
    /\ p_nodes \in [0..(buckets - 1) -> Pointers]
    /\ nodes \in [Nodes -> NodeRecords \cup {Unallocated}]
    /\ entries \in [Keys -> Values \cup {NULL}]

(* The live nodes are the entries, one node for each key that has one.     *)
NodesAreEntries ==
    /\ \A m, n \in Live : nodes[m].p_key = nodes[n].p_key => m = n
    /\ \A n \in Live : nodes[n].p_value = entries[nodes[n].p_key]
    /\ \A k \in Keys : entries[k] # NULL => \E n \in Live : nodes[n].p_key = k

(* The two directions of a chain agree, and a chain stays in its bucket.   *)
Linked ==
    \A n \in Live :
        /\ nodes[n].p_next # NULL =>
              /\ nodes[n].p_next \in Live
              /\ nodes[nodes[n].p_next].p_prev = n
              /\ hash_func[nodes[nodes[n].p_next].p_key] = hash_func[nodes[n].p_key]
        /\ nodes[n].p_prev # NULL =>
              /\ nodes[n].p_prev \in Live
              /\ nodes[nodes[n].p_prev].p_next = n

(* A node without a predecessor is the head of its bucket, and the other   *)
(* way round.                                                              *)
Heads ==
    /\ \A b \in 0..(buckets - 1) :
          p_nodes[b] # NULL => /\ p_nodes[b] \in Live
                               /\ nodes[p_nodes[b]].p_prev = NULL
                               /\ hash_func[nodes[p_nodes[b]].p_key] = b
    /\ \A n \in Live : nodes[n].p_prev = NULL => p_nodes[hash_func[nodes[n].p_key]] = n

(* A set of nodes that holds the head of a bucket and is closed under      *)
(* p_next; every live node is in all such sets of its bucket.              *)
Closed(b, S) ==
    /\ p_nodes[b] # NULL => p_nodes[b] \in S
    /\ \A m \in S : nodes[m].p_next # NULL => nodes[m].p_next \in S

Reached ==
    \A n \in Live : \A S \in SUBSET Live : Closed(hash_func[nodes[n].p_key], S) => n \in S

HashIInv == HashTypeOK /\ NodesAreEntries /\ Linked /\ Heads /\ Reached

-----------------------------------------------------------------------------
(* What a lookup finds.                                                    *)

(* The fields of a live node have their types.                             *)
LEMMA LiveNode ==
    ASSUME HashTypeOK, NEW n \in Live
    PROVE  /\ n \in Nodes /\ nodes[n] \in NodeRecords
           /\ nodes[n].p_key \in Keys /\ nodes[n].p_value \in Values
           /\ nodes[n].p_prev \in Pointers /\ nodes[n].p_next \in Pointers
           /\ hash_func[nodes[n].p_key] \in 0..(buckets - 1)
  <1>1. n \in Nodes /\ nodes[n] \in NodeRecords
    BY DEF Live, HashTypeOK, Unallocated
  <1>2. nodes[n].p_key \in Keys
    BY <1>1 DEF NodeRecords
  <1> QED
    BY <1>1, <1>2, HashAssumption DEF NodeRecords

(* The walk for the key of a live node comes to that node.                 *)
LEMMA WalkFinds ==
    ASSUME HashIInv, NEW n \in Live
    PROVE  n \in Visited(nodes[n].p_key)
  <1> DEFINE k == nodes[n].p_key
  <1> SUFFICES ASSUME NEW S \in SUBSET Live, WalksOn(k, S), n \notin S
               PROVE  FALSE
    BY DEF Visited
  <1>1. k \in Keys /\ hash_func[k] \in 0..(buckets - 1)
    BY LiveNode DEF HashIInv
  <1>2. \A m \in S : nodes[m].p_key # k
    BY DEF HashIInv, NodesAreEntries
  <1>3. p_nodes[hash_func[k]] # NULL => p_nodes[hash_func[k]] \in S
    BY <1>1 DEF HashIInv, Heads, WalksOn, hash_get_bucket
  <1>4. \A m \in S : nodes[m].p_next # NULL => nodes[m].p_next \in S
    BY <1>2 DEF HashIInv, Linked, WalksOn
  <1>5. Closed(hash_func[k], S)
    BY <1>3, <1>4 DEF Closed
  <1> QED
    BY <1>5 DEF HashIInv, Reached

(* A key with an entry has its one node.                                   *)
LEMMA NodeOfKey ==
    ASSUME HashIInv, NEW n \in Live
    PROVE  hash_get_node_by_key(nodes[n].p_key) = n
  <1>1. {m \in Visited(nodes[n].p_key) : nodes[m].p_key = nodes[n].p_key} = {n}
    BY WalkFinds DEF Visited, HashIInv, NodesAreEntries
  <1> QED
    BY <1>1 DEF hash_get_node_by_key

(* A key without an entry has none.                                        *)
LEMMA NoNodeOfKey ==
    ASSUME NEW k \in Keys, \A n \in Live : nodes[n].p_key # k
    PROVE  hash_get_node_by_key(k) = NULL
  BY DEF hash_get_node_by_key, Visited

(* A lookup returns what was stored.                                       *)
LEMMA LookupIsEntry ==
    ASSUME HashIInv, NEW k \in Keys
    PROVE  /\ hash_lookup_entry(k) = entries[k]
           /\ entries[k] = NULL => hash_get_node_by_key(k) = NULL
           /\ entries[k] # NULL => /\ hash_get_node_by_key(k) \in Live
                                   /\ nodes[hash_get_node_by_key(k)].p_key = k
  <1>1. CASE entries[k] # NULL
    <2>1. PICK n \in Live : nodes[n].p_key = k
      BY <1>1 DEF HashIInv, NodesAreEntries
    <2>2. hash_get_node_by_key(k) = n
      BY <2>1, NodeOfKey
    <2>3. n # NULL
      BY HashAssumption DEF Live
    <2> QED
      BY <1>1, <2>1, <2>2, <2>3 DEF hash_lookup_entry, HashIInv, NodesAreEntries
  <1>2. CASE entries[k] = NULL
    <2>1. \A n \in Live : nodes[n].p_key # k
      BY <1>2, LiveNode, HashAssumption DEF HashIInv, NodesAreEntries
    <2>2. hash_get_node_by_key(k) = NULL
      BY <2>1, NoNodeOfKey
    <2> QED
      BY <1>2, <2>2 DEF hash_lookup_entry
  <1> QED
    BY <1>1, <1>2

-----------------------------------------------------------------------------
(* Adding an entry.                                                        *)

(* The empty table satisfies the invariant.                                *)
LEMMA HashInitInv == HashInit => HashIInv
  <1> SUFFICES ASSUME HashInit PROVE HashIInv
    OBVIOUS
  <1>1. Live = {}
    BY DEF HashInit, Live, Unallocated
  <1>2. HashTypeOK
    BY HashAssumption DEF HashInit, HashTypeOK, Pointers
  <1> QED
    BY <1>1, <1>2 DEF HashInit, HashIInv, NodesAreEntries, Linked, Heads, Reached

(* hash_add_entry puts a node in front of its chain.                       *)
LEMMA AddInv ==
    ASSUME HashIInv, NEW k \in Keys, NEW v \in Values, hash_add_entry(k, v)
    PROVE  HashIInv'
  <1>1. CASE entries[k] # NULL
    <2>1. UNCHANGED <<p_nodes, nodes, entries>>
      BY <1>1, LookupIsEntry DEF hash_add_entry
    <2> QED
      BY <2>1 DEF HashIInv, HashTypeOK, NodesAreEntries, Linked, Heads, Reached, Closed, Live
  <1>2. CASE entries[k] = NULL
    <2> DEFINE b == hash_func[k]
               head == p_nodes[b]
               new(n) == [live |-> TRUE, p_key |-> k, p_value |-> v,
                          p_prev |-> NULL, p_next |-> head]
    <2>1. PICK n \in Nodes \ Live :
            /\ nodes' = [m \in Nodes |->
                            IF m = n THEN new(n)
                            ELSE IF m = head THEN [nodes[m] EXCEPT !.p_prev = n]
                            ELSE nodes[m]]
            /\ p_nodes' = [p_nodes EXCEPT ![b] = n]
            /\ entries' = [entries EXCEPT ![k] = v]
      BY <1>2, LookupIsEntry DEF hash_add_entry, hash_get_bucket
    <2>2. b \in 0..(buckets - 1) /\ head \in Pointers /\ n # NULL /\ v # NULL
      BY HashAssumption DEF HashIInv, HashTypeOK
    <2>3. head # NULL => head \in Live /\ nodes[head].p_prev = NULL
                         /\ hash_func[nodes[head].p_key] = b
      BY <2>2 DEF HashIInv, Heads
    <2>4. head # n
      BY <2>2, <2>3
    <2>5. nodes'[n] = new(n) /\ new(n) \in NodeRecords
      BY <2>1, <2>2 DEF NodeRecords, Pointers
    <2>6. ASSUME NEW m \in Live
          PROVE  /\ nodes'[m] \in NodeRecords
                 /\ nodes'[m].p_key = nodes[m].p_key
                 /\ nodes'[m].p_value = nodes[m].p_value
                 /\ nodes'[m].p_next = nodes[m].p_next
                 /\ nodes'[m].p_prev = IF m = head THEN n ELSE nodes[m].p_prev
      <3>1. m \in Nodes /\ nodes[m] \in NodeRecords /\ m # n
        BY LiveNode DEF HashIInv
      <3>2. CASE m = head
        BY <2>1, <3>1, <3>2 DEF NodeRecords, Pointers
      <3>3. CASE m # head
        BY <2>1, <3>1, <3>3
      <3> QED
        BY <3>2, <3>3
    <2>7. \A m \in Nodes : m \notin Live /\ m # n => nodes'[m] = nodes[m]
      BY <2>1, <2>3, HashAssumption
    <2>8. Live' = Live \cup {n}
      <3>1. n \in Live'
        BY <2>5 DEF Live
      <3>2. \A m \in Live : m \in Live'
        BY <2>6 DEF Live, NodeRecords
      <3>3. \A m \in Live' : m \in Live \cup {n}
        BY <2>7 DEF Live
      <3> QED
        BY <3>1, <3>2, <3>3
    <2>9. HashTypeOK'
      <3>1. nodes' \in [Nodes -> NodeRecords \cup {Unallocated}]
        BY <2>1, <2>5, <2>6, <2>7 DEF HashIInv, HashTypeOK
      <3> QED
        BY <3>1, <2>1, <2>2 DEF HashIInv, HashTypeOK, Pointers
    <2>10. \A m \in Live : nodes[m].p_key # k
      BY <1>2, LiveNode, HashAssumption DEF HashIInv, NodesAreEntries
    <2>11. /\ entries'[k] = v
           /\ \A j \in Keys : j # k => entries'[j] = entries[j]
           /\ p_nodes'[b] = n
           /\ \A a \in 0..(buckets - 1) : a # b => p_nodes'[a] = p_nodes[a]
      BY <2>1, <2>2 DEF HashIInv, HashTypeOK
    <2>12. \A m \in Live : nodes[m].p_key \in Keys
                           /\ hash_func[nodes[m].p_key] \in 0..(buckets - 1)
      BY LiveNode DEF HashIInv
    <2>13. nodes'[n].p_key = k /\ nodes'[n].p_value = v
           /\ nodes'[n].p_prev = NULL /\ nodes'[n].p_next = head
      BY <2>5
    <2> HIDE DEF b, head
    <2>14. NodesAreEntries'
      <3>1. \A m, l \in Live' : nodes'[m].p_key = nodes'[l].p_key => m = l
        BY <2>6, <2>8, <2>10, <2>13 DEF HashIInv, NodesAreEntries
      <3>2. \A m \in Live' : nodes'[m].p_value = entries'[nodes'[m].p_key]
        BY <2>6, <2>8, <2>10, <2>11, <2>12, <2>13 DEF HashIInv, NodesAreEntries
      <3>3. \A j \in Keys : entries'[j] # NULL => \E m \in Live' : nodes'[m].p_key = j
        BY <2>6, <2>8, <2>11, <2>13 DEF HashIInv, NodesAreEntries
      <3> QED
        BY <3>1, <3>2, <3>3 DEF NodesAreEntries
    <2>15. Linked'
      <3> SUFFICES ASSUME NEW m \in Live'
                   PROVE  /\ nodes'[m].p_next # NULL =>
                              /\ nodes'[m].p_next \in Live'
                              /\ nodes'[nodes'[m].p_next].p_prev = m
                              /\ hash_func[nodes'[nodes'[m].p_next].p_key]
                                    = hash_func[nodes'[m].p_key]
                          /\ nodes'[m].p_prev # NULL =>
                              /\ nodes'[m].p_prev \in Live'
                              /\ nodes'[nodes'[m].p_prev].p_next = m
        BY DEF Linked
      <3>1. CASE m = n
        BY <2>3, <2>6, <2>8, <2>13, <3>1 DEF b
      <3>2. CASE m \in Live
        <4>1. nodes[m].p_next # NULL => nodes[m].p_next \in Live /\ nodes[m].p_next # head
          BY <2>3, <3>2, HashAssumption DEF HashIInv, Linked, Live
        <4>2. nodes[m].p_prev # NULL => nodes[m].p_prev \in Live
                                        /\ nodes[nodes[m].p_prev].p_next = m
          BY <3>2 DEF HashIInv, Linked
        <4> QED
          BY <2>2, <2>6, <2>8, <2>13, <3>2, <4>1, <4>2 DEF HashIInv, Linked
      <3> QED
        BY <2>8, <3>1, <3>2
    <2>16. Heads'
      <3>1. \A a \in 0..(buckets - 1) :
              p_nodes'[a] # NULL => /\ p_nodes'[a] \in Live'
                                    /\ nodes'[p_nodes'[a]].p_prev = NULL
                                    /\ hash_func[nodes'[p_nodes'[a]].p_key] = a
        <4> SUFFICES ASSUME NEW a \in 0..(buckets - 1), a # b, p_nodes[a] # NULL
                     PROVE  /\ p_nodes[a] \in Live'
                            /\ nodes'[p_nodes[a]].p_prev = NULL
                            /\ hash_func[nodes'[p_nodes[a]].p_key] = a
          BY <2>8, <2>11, <2>13 DEF b
        <4>1. p_nodes[a] \in Live /\ nodes[p_nodes[a]].p_prev = NULL
              /\ hash_func[nodes[p_nodes[a]].p_key] = a
          BY DEF HashIInv, Heads
        <4>2. p_nodes[a] # head
          BY <2>3, <4>1
        <4> QED
          BY <2>6, <2>8, <4>1, <4>2
      <3>2. \A m \in Live' : nodes'[m].p_prev = NULL => p_nodes'[hash_func[nodes'[m].p_key]] = m
        <4> SUFFICES ASSUME NEW m \in Live, nodes'[m].p_prev = NULL
                     PROVE  p_nodes'[hash_func[nodes[m].p_key]] = m
          BY <2>6, <2>8, <2>11, <2>13 DEF b
        <4>1. m # head /\ nodes[m].p_prev = NULL
          BY <2>2, <2>6
        <4>2. p_nodes[hash_func[nodes[m].p_key]] = m
          BY <4>1 DEF HashIInv, Heads
        <4>3. hash_func[nodes[m].p_key] # b
          BY <4>1, <4>2 DEF head
        <4> QED
          BY <2>11, <2>12, <4>2, <4>3
      <3> QED
        BY <3>1, <3>2 DEF Heads
    <2>17. Reached'
      <3> SUFFICES ASSUME NEW m \in Live', NEW S \in SUBSET Live',
                          Closed(hash_func[nodes[m].p_key], S)'
                   PROVE  m \in S
        BY DEF Reached, Closed
      <3>1. /\ p_nodes'[hash_func[nodes'[m].p_key]] # NULL
                  => p_nodes'[hash_func[nodes'[m].p_key]] \in S
            /\ \A l \in S : nodes'[l].p_next # NULL => nodes'[l].p_next \in S
        BY DEF Closed
      <3>2. CASE m = n
        BY <2>2, <2>11, <2>13, <3>1, <3>2 DEF b
      <3>3. CASE m \in Live
        <4> DEFINE T == S \ {n}
                   a == hash_func[nodes[m].p_key]
        <4>1. T \in SUBSET Live /\ n \notin Live
          BY <2>8
        <4>2. p_nodes[a] # NULL => p_nodes[a] \in T
          <5>1. a \in 0..(buckets - 1) /\ a = hash_func[nodes'[m].p_key]
            BY <2>6, <2>12, <3>3
          <5>2. p_nodes[a] # NULL => p_nodes[a] \in Live
            BY <5>1 DEF HashIInv, Heads
          <5>3. CASE a = b
            BY <2>2, <2>11, <2>13, <3>1, <4>1, <5>1, <5>2, <5>3 DEF head
          <5>4. CASE a # b
            BY <2>11, <3>1, <4>1, <5>1, <5>2, <5>4
          <5> QED
            BY <5>3, <5>4
        <4>3. \A l \in T : nodes[l].p_next # NULL => nodes[l].p_next \in T
          BY <2>6, <3>1, <4>1 DEF HashIInv, Linked
        <4>4. Closed(a, T)
          BY <4>2, <4>3 DEF Closed
        <4> QED
          BY <3>3, <4>1, <4>4 DEF HashIInv, Reached
      <3> QED
        BY <2>8, <3>2, <3>3
    <2> QED
      BY <2>9, <2>14, <2>15, <2>16, <2>17 DEF HashIInv
  <1> QED
    BY <1>1, <1>2

-----------------------------------------------------------------------------
(* Removing an entry.                                                      *)

(* No chain is a ring of one or two nodes: its complement would be closed, *)
(* and its nodes would not be reached.                                     *)
LEMMA NoRing ==
    ASSUME HashIInv, NEW n \in Live
    PROVE  /\ nodes[n].p_next # n
           /\ nodes[n].p_prev # NULL => nodes[n].p_prev # nodes[n].p_next
           /\ nodes[n].p_prev # n
  <1> DEFINE b == hash_func[nodes[n].p_key]
             S == Live \ {n, nodes[n].p_prev}
  <1> SUFFICES ASSUME nodes[n].p_prev # NULL,
                      \/ nodes[n].p_prev = nodes[n].p_next
                      \/ nodes[n].p_prev = n
                      \/ nodes[n].p_next = n
               PROVE  FALSE
    BY HashAssumption DEF HashIInv, Linked, Live
  <1>1. b \in 0..(buckets - 1)
    BY LiveNode DEF HashIInv
  <1>2. /\ nodes[n].p_prev \in Live /\ nodes[nodes[n].p_prev].p_next = n
        /\ nodes[n].p_next = n => nodes[n].p_prev = n
        /\ nodes[n].p_prev = n => nodes[n].p_next = n
    BY HashAssumption DEF HashIInv, Linked, Live
  <1>3. nodes[nodes[n].p_prev].p_prev # NULL
    BY <1>2, HashAssumption DEF HashIInv, Linked, Live
  <1>4. p_nodes[b] # NULL => p_nodes[b] \in S
    BY <1>1, <1>3 DEF HashIInv, Heads
  <1>5. \A m \in S : nodes[m].p_next # NULL => nodes[m].p_next \in S
    BY <1>2 DEF HashIInv, Linked
  <1>6. Closed(b, S)
    BY <1>4, <1>5 DEF Closed
  <1> QED
    BY <1>6 DEF HashIInv, Reached

(* hash_free_entry unlinks a node from both its neighbours.                *)
LEMMA FreeInv ==
    ASSUME HashIInv, NEW k \in Keys, hash_free_entry(k)
    PROVE  HashIInv'
  <1>1. CASE entries[k] = NULL
    <2>1. UNCHANGED <<p_nodes, nodes, entries>>
      BY <1>1, LookupIsEntry DEF hash_free_entry
    <2> QED
      BY <2>1 DEF HashIInv, HashTypeOK, NodesAreEntries, Linked, Heads, Reached, Closed, Live
  <1>2. CASE entries[k] # NULL
    <2>1. PICK n \in Live : n = hash_get_node_by_key(k) /\ nodes[n].p_key = k
      BY <1>2, LookupIsEntry
    <2> DEFINE b == hash_func[k]
               prev == nodes[n].p_prev
               next == nodes[n].p_next
    <2>2. n \in Nodes /\ n # NULL /\ b \in 0..(buckets - 1)
          /\ prev \in Pointers /\ next \in Pointers
      BY <2>1, LiveNode, HashAssumption DEF HashIInv
    <2>3. /\ nodes' = Unlink(n)
          /\ p_nodes' = IF prev # NULL THEN p_nodes ELSE [p_nodes EXCEPT ![b] = next]
          /\ entries' = [entries EXCEPT ![k] = NULL]
      BY <2>1, <2>2 DEF hash_free_entry, hash_get_bucket
    <2>4. prev # n /\ next # n /\ (prev # NULL => prev # next)
      BY NoRing
    <2>5. /\ prev # NULL => prev \in Live /\ nodes[prev].p_next = n
          /\ next # NULL => next \in Live /\ nodes[next].p_prev = n
                            /\ hash_func[nodes[next].p_key] = b
      BY <2>1 DEF HashIInv, Linked
    <2>6. ASSUME NEW m \in Live, m # n
          PROVE  /\ nodes'[m] \in NodeRecords
                 /\ nodes'[m].p_key = nodes[m].p_key
                 /\ nodes'[m].p_value = nodes[m].p_value
                 /\ nodes'[m].p_next = IF m = prev THEN next ELSE nodes[m].p_next
                 /\ nodes'[m].p_prev = IF m = next THEN prev ELSE nodes[m].p_prev
      <3>1. m \in Nodes /\ nodes[m] \in NodeRecords /\ m # NULL
        BY LiveNode, HashAssumption DEF HashIInv
      <3>2. CASE m = prev
        <4>1. nodes'[m] = [nodes[m] EXCEPT !.p_next = next]
          BY <2>3, <2>6, <3>1, <3>2 DEF Unlink
        <4> QED
          BY <2>2, <2>4, <3>1, <3>2, <4>1 DEF NodeRecords
      <3>3. CASE m = next /\ m # prev
        <4>1. nodes'[m] = [nodes[m] EXCEPT !.p_prev = prev]
          BY <2>3, <2>6, <3>1, <3>3 DEF Unlink
        <4> QED
          BY <2>2, <3>1, <3>3, <4>1 DEF NodeRecords
      <3>4. CASE m # next /\ m # prev
        BY <2>3, <2>6, <3>1, <3>4 DEF Unlink
      <3> QED
        BY <3>2, <3>3, <3>4
    <2>7. \A m \in Nodes : m \notin Live => nodes'[m] = nodes[m]
      BY <2>1, <2>3, <2>5, HashAssumption DEF Unlink
    <2>8. nodes'[n] = Unallocated
      BY <2>2, <2>3 DEF Unlink
    <2>9. Live' = Live \ {n}
      <3>1. n \notin Live'
        BY <2>8 DEF Live, Unallocated
      <3>2. \A m \in Live : m # n => m \in Live'
        BY <2>6 DEF Live, NodeRecords
      <3>3. \A m \in Live' : m \in Live
        BY <2>7 DEF Live
      <3> QED
        BY <3>1, <3>2, <3>3
    <2>10. HashTypeOK'
      <3>1. \A m \in Nodes : nodes'[m] \in NodeRecords \cup {Unallocated}
        BY <2>6, <2>7, <2>8 DEF HashIInv, HashTypeOK
      <3>2. nodes' \in [Nodes -> NodeRecords \cup {Unallocated}]
        BY <2>3, <3>1 DEF Unlink
      <3> QED
        BY <3>2, <2>2, <2>3 DEF HashIInv, HashTypeOK
    <2>11. /\ entries'[k] = NULL
           /\ \A j \in Keys : j # k => entries'[j] = entries[j]
           /\ p_nodes'[b] = IF prev # NULL THEN p_nodes[b] ELSE next
           /\ \A a \in 0..(buckets - 1) : a # b => p_nodes'[a] = p_nodes[a]
      BY <2>2, <2>3 DEF HashIInv, HashTypeOK
    <2>12. \A m \in Live : nodes[m].p_key \in Keys
                           /\ hash_func[nodes[m].p_key] \in 0..(buckets - 1)
      BY LiveNode DEF HashIInv
    <2>13. prev = NULL => p_nodes[b] = n
      BY <2>1 DEF HashIInv, Heads
    <2>14. \A m \in Live : /\ nodes[m].p_next = n => m = prev
                           /\ nodes[m].p_prev = n => m = next
      BY <2>2 DEF HashIInv, Linked
    <2>15. \A m \in Live : m # n => nodes[m].p_key # k
      BY <2>1 DEF HashIInv, NodesAreEntries
    <2> HIDE DEF b, prev, next
    <2>16. NodesAreEntries'
      <3>1. \A m, l \in Live' : nodes'[m].p_key = nodes'[l].p_key => m = l
        BY <2>6, <2>9 DEF HashIInv, NodesAreEntries
      <3>2. \A m \in Live' : nodes'[m].p_value = entries'[nodes'[m].p_key]
        BY <2>6, <2>9, <2>11, <2>12, <2>15 DEF HashIInv, NodesAreEntries
      <3>3. \A j \in Keys : entries'[j] # NULL => \E m \in Live' : nodes'[m].p_key = j
        <4> SUFFICES ASSUME NEW j \in Keys, j # k, entries[j] # NULL
                     PROVE  \E m \in Live' : nodes'[m].p_key = j
          BY <2>11
        <4>1. PICK m \in Live : nodes[m].p_key = j
          BY DEF HashIInv, NodesAreEntries
        <4> QED
          BY <2>1, <2>6, <2>9, <4>1
      <3> QED
        BY <3>1, <3>2, <3>3 DEF NodesAreEntries
    <2>17. Linked'
      <3> SUFFICES ASSUME NEW m \in Live, m # n
                   PROVE  /\ nodes'[m].p_next # NULL =>
                              /\ nodes'[m].p_next \in Live'
                              /\ nodes'[nodes'[m].p_next].p_prev = m
                              /\ hash_func[nodes'[nodes'[m].p_next].p_key]
                                    = hash_func[nodes'[m].p_key]
                          /\ nodes'[m].p_prev # NULL =>
                              /\ nodes'[m].p_prev \in Live'
                              /\ nodes'[nodes'[m].p_prev].p_next = m
        BY <2>9 DEF Linked
      <3>1. nodes[m].p_next # NULL =>
              /\ nodes[m].p_next \in Live
              /\ nodes[nodes[m].p_next].p_prev = m
              /\ hash_func[nodes[nodes[m].p_next].p_key] = hash_func[nodes[m].p_key]
        BY DEF HashIInv, Linked
      <3>2. nodes[m].p_prev # NULL =>
              /\ nodes[m].p_prev \in Live
              /\ nodes[nodes[m].p_prev].p_next = m
        BY DEF HashIInv, Linked
      <3>3. m = prev => hash_func[nodes[m].p_key] = b
        BY <2>1, <2>2, <2>5, <3>1, HashAssumption DEF b, Live
      <3>4. nodes'[m].p_next # NULL =>
              /\ nodes'[m].p_next \in Live'
              /\ nodes'[nodes'[m].p_next].p_prev = m
              /\ hash_func[nodes'[nodes'[m].p_next].p_key] = hash_func[nodes'[m].p_key]
        <4>1. CASE m = prev
          BY <2>4, <2>5, <2>6, <2>9, <3>3, <4>1
        <4>2. CASE m # prev
          <5>1. nodes[m].p_next # NULL => nodes[m].p_next # n /\ nodes[m].p_next # next
            BY <2>5, <2>14, <3>1, <4>2
          <5> QED
            BY <2>6, <2>9, <3>1, <4>2, <5>1
        <4> QED
          BY <4>1, <4>2
      <3>5. nodes'[m].p_prev # NULL =>
              /\ nodes'[m].p_prev \in Live'
              /\ nodes'[nodes'[m].p_prev].p_next = m
        <4>1. CASE m = next
          BY <2>4, <2>5, <2>6, <2>9, <4>1
        <4>2. CASE m # next
          <5>1. nodes[m].p_prev # NULL => nodes[m].p_prev # n /\ nodes[m].p_prev # prev
            BY <2>5, <2>14, <3>2, <4>2
          <5> QED
            BY <2>6, <2>9, <3>2, <4>2, <5>1
        <4> QED
          BY <4>1, <4>2
      <3> QED
        BY <3>4, <3>5
    <2>18. Heads'
      <3>1. \A a \in 0..(buckets - 1) :
              p_nodes'[a] # NULL => /\ p_nodes'[a] \in Live'
                                    /\ nodes'[p_nodes'[a]].p_prev = NULL
                                    /\ hash_func[nodes'[p_nodes'[a]].p_key] = a
        <4> SUFFICES ASSUME NEW a \in 0..(buckets - 1), p_nodes'[a] # NULL
                     PROVE  /\ p_nodes'[a] \in Live'
                            /\ nodes'[p_nodes'[a]].p_prev = NULL
                            /\ hash_func[nodes'[p_nodes'[a]].p_key] = a
          OBVIOUS
        <4>1. CASE a = b /\ prev = NULL
          BY <2>4, <2>5, <2>6, <2>9, <2>11, <4>1
        <4>2. CASE ~(a = b /\ prev = NULL)
          <5>1. p_nodes'[a] = p_nodes[a]
            BY <2>11, <4>2
          <5>2. p_nodes[a] \in Live /\ nodes[p_nodes[a]].p_prev = NULL
                /\ hash_func[nodes[p_nodes[a]].p_key] = a
            BY <5>1 DEF HashIInv, Heads
          <5>3. p_nodes[a] # n
            BY <2>1, <4>2, <5>2 DEF b, prev
          <5>4. p_nodes[a] # next
            BY <2>2, <2>5, <5>2, HashAssumption DEF Live
          <5> QED
            BY <2>6, <2>9, <5>1, <5>2, <5>3, <5>4
        <4> QED
          BY <4>1, <4>2
      <3>2. \A m \in Live' : nodes'[m].p_prev = NULL => p_nodes'[hash_func[nodes'[m].p_key]] = m
        <4> SUFFICES ASSUME NEW m \in Live, m # n, nodes'[m].p_prev = NULL
                     PROVE  p_nodes'[hash_func[nodes[m].p_key]] = m
          BY <2>6, <2>9
        <4>1. CASE m = next
          BY <2>5, <2>6, <2>11, <4>1, HashAssumption DEF Live
        <4>2. CASE m # next
          <5>1. nodes[m].p_prev = NULL
            BY <2>6, <4>2
          <5>2. p_nodes[hash_func[nodes[m].p_key]] = m
            BY <5>1 DEF HashIInv, Heads
          <5>3. prev = NULL => hash_func[nodes[m].p_key] # b
            BY <2>13, <5>2
          <5> QED
            BY <2>11, <2>12, <5>2, <5>3
        <4> QED
          BY <4>1, <4>2
      <3> QED
        BY <3>1, <3>2 DEF Heads
    <2>19. Reached'
      <3> SUFFICES ASSUME NEW m \in Live', NEW S \in SUBSET Live',
                          Closed(hash_func[nodes[m].p_key], S)'
                   PROVE  m \in S
        BY DEF Reached, Closed
      <3> DEFINE a == hash_func[nodes[m].p_key]
      <3>1. m \in Live /\ m # n /\ a \in 0..(buckets - 1) /\ n \notin S /\ S \in SUBSET Live
        BY <2>9, <2>12
      <3>2. /\ p_nodes'[a] # NULL => p_nodes'[a] \in S
            /\ \A l \in S : nodes'[l].p_next # NULL => nodes'[l].p_next \in S
        BY <2>6, <3>1 DEF Closed
      <3>3. \A l \in S : l # prev => nodes'[l].p_next = nodes[l].p_next
        BY <2>6, <3>1
      <3>4. prev \in S /\ next # NULL => next \in S
        BY <2>6, <3>1, <3>2
      <3>5. a = b /\ prev = NULL /\ next # NULL => next \in S
        BY <2>11, <3>2
      <3>6. p_nodes[a] # NULL /\ p_nodes[a] # n => p_nodes[a] \in S
        <4>1. p_nodes[a] # n => ~(a = b /\ prev = NULL)
          BY <2>13
        <4> QED
          BY <2>11, <3>1, <3>2, <4>1
      <3>7. p_nodes[a] = n => a = b /\ prev = NULL
        BY <2>1, <2>2, <3>1 DEF HashIInv, Heads, b, prev
      <3> HIDE DEF a
      (* The freed node belongs to the set if what follows it does.        *)
      <3>8. CASE next = NULL \/ next \in S
        <4> DEFINE T == S \cup {n}
        <4>1. T \in SUBSET Live
          BY <2>1, <3>1
        <4>2. p_nodes[a] # NULL => p_nodes[a] \in T
          BY <3>6
        <4>3. \A l \in T : nodes[l].p_next # NULL => nodes[l].p_next \in T
          <5>1. nodes[n].p_next = next
            BY DEF next
          <5>2. \A l \in S : l = prev => nodes[l].p_next = n
            BY <2>5, <3>1, HashAssumption DEF Live
          <5> QED
            BY <3>2, <3>3, <3>8, <5>1, <5>2
        <4>4. Closed(a, T)
          BY <4>2, <4>3 DEF Closed
        <4> QED
          BY <3>1, <4>1, <4>4 DEF HashIInv, Reached, a
      <3>9. CASE next # NULL /\ next \notin S
        <4>1. p_nodes[a] # NULL => p_nodes[a] \in S
          BY <3>5, <3>6, <3>7, <3>9
        <4>2. \A l \in S : nodes[l].p_next # NULL => nodes[l].p_next \in S
          BY <3>2, <3>3, <3>4, <3>9
        <4>3. Closed(a, S)
          BY <4>1, <4>2 DEF Closed
        <4> QED
          BY <3>1, <4>3 DEF HashIInv, Reached, a
      <3> QED
        BY <3>8, <3>9
    <2> QED
      BY <2>10, <2>16, <2>17, <2>18, <2>19 DEF HashIInv
  <1> QED
    BY <1>1, <1>2

-----------------------------------------------------------------------------
(* Counting through the pointer a lookup returned.                         *)

(* Changing a value in place leaves the chains alone.                      *)
LEMMA UpdateInv ==
    ASSUME HashIInv, NEW k \in Keys, NEW v \in Values, UpdateEntry(k, v)
    PROVE  HashIInv'
  <1>1. entries[k] # NULL
    BY LookupIsEntry DEF UpdateEntry
  <1>2. PICK n \in Live : n = hash_get_node_by_key(k) /\ nodes[n].p_key = k
    BY <1>1, LookupIsEntry
  <1>3. /\ nodes' = [nodes EXCEPT ![n].p_value = v]
        /\ entries' = [entries EXCEPT ![k] = v]
        /\ p_nodes' = p_nodes
    BY <1>2 DEF UpdateEntry
  <1>4. ASSUME NEW m \in Live
        PROVE  /\ nodes'[m] \in NodeRecords
               /\ nodes'[m].p_key = nodes[m].p_key
               /\ nodes'[m].p_value = IF m = n THEN v ELSE nodes[m].p_value
               /\ nodes'[m].p_next = nodes[m].p_next
               /\ nodes'[m].p_prev = nodes[m].p_prev
    <2>1. m \in Nodes /\ nodes[m] \in NodeRecords
      BY LiveNode DEF HashIInv
    <2>2. CASE m = n
      BY <1>3, <2>1, <2>2 DEF NodeRecords, HashIInv, HashTypeOK
    <2>3. CASE m # n
      BY <1>3, <2>1, <2>3 DEF HashIInv, HashTypeOK
    <2> QED
      BY <2>2, <2>3
  <1>5. \A m \in Nodes : m \notin Live => nodes'[m] = nodes[m]
    BY <1>2, <1>3 DEF HashIInv, HashTypeOK
  <1>6. Live' = Live
    <2>1. \A m \in Live : m \in Live'
      BY <1>4 DEF Live, NodeRecords
    <2>2. \A m \in Live' : m \in Live
      BY <1>5 DEF Live
    <2> QED
      BY <2>1, <2>2
  <1>7. HashTypeOK'
    <2>1. \A m \in Nodes : nodes'[m] \in NodeRecords \cup {Unallocated}
      BY <1>4, <1>5 DEF HashIInv, HashTypeOK
    <2>2. nodes' \in [Nodes -> NodeRecords \cup {Unallocated}]
      BY <1>3, <2>1 DEF HashIInv, HashTypeOK
    <2> QED
      BY <1>3, <2>2 DEF HashIInv, HashTypeOK
  <1>8. entries'[k] = v /\ \A j \in Keys : j # k => entries'[j] = entries[j]
    BY <1>3 DEF HashIInv, HashTypeOK
  <1>9. NodesAreEntries'
    <2>1. \A m, l \in Live' : nodes'[m].p_key = nodes'[l].p_key => m = l
      BY <1>4, <1>6 DEF HashIInv, NodesAreEntries
    <2>2. \A m \in Live' : nodes'[m].p_value = entries'[nodes'[m].p_key]
      <3>1. \A m \in Live : nodes[m].p_key \in Keys
        BY LiveNode DEF HashIInv
      <3>2. \A m \in Live : m # n => nodes[m].p_key # k
        BY <1>2 DEF HashIInv, NodesAreEntries
      <3> QED
        BY <1>2, <1>4, <1>6, <1>8, <3>1, <3>2 DEF HashIInv, NodesAreEntries
    <2>3. \A j \in Keys : entries'[j] # NULL => \E m \in Live' : nodes'[m].p_key = j
      BY <1>1, <1>4, <1>6, <1>8 DEF HashIInv, NodesAreEntries
    <2> QED
      BY <2>1, <2>2, <2>3 DEF NodesAreEntries
  <1>10. Linked'
    BY <1>4, <1>6 DEF HashIInv, Linked
  <1>11. Heads'
    BY <1>3, <1>4, <1>6 DEF HashIInv, Heads
  <1>12. Reached'
    <2> SUFFICES ASSUME NEW m \in Live, NEW S \in SUBSET Live,
                        Closed(hash_func[nodes[m].p_key], S)'
                 PROVE  m \in S
      BY <1>6 DEF Reached, Closed
    <2>1. Closed(hash_func[nodes[m].p_key], S)
      BY <1>3, <1>4 DEF Closed
    <2> QED
      BY <2>1 DEF HashIInv, Reached
  <1> QED
    BY <1>7, <1>9, <1>10, <1>11, <1>12 DEF HashIInv

-----------------------------------------------------------------------------
(* The theorems.                                                           *)

(* Every operation of the table keeps the invariant.                       *)
LEMMA HashStepInv == HashIInv /\ [HashNext]_hashVars => HashIInv'
  <1> SUFFICES ASSUME HashIInv, [HashNext]_hashVars PROVE HashIInv'
    OBVIOUS
  <1>1. CASE HashNext
    BY <1>1, AddInv, FreeInv, UpdateInv DEF HashNext
  <1>2. CASE UNCHANGED hashVars
    BY <1>2 DEF hashVars, HashIInv, HashTypeOK, NodesAreEntries, Linked, Heads,
                Reached, Closed, Live
  <1> QED
    BY <1>1, <1>2

(* So the invariant always holds.                                          *)
LEMMA HashInvariant == HashSpec => []HashIInv
  BY HashInitInv, HashStepInv, PTL DEF HashSpec

(* There are as many live nodes as keys with an entry: p_key is one-to-one *)
(* between them.                                                           *)
LEMMA NoNodeLost ==
    ASSUME HashIInv
    PROVE  Cardinality(Live) = Cardinality({k \in Keys : entries[k] # NULL})
  <1> DEFINE Present == {k \in Keys : entries[k] # NULL}
             key == [n \in Live |-> nodes[n].p_key]
  <1>1. IsFiniteSet(Live)
    BY HashAssumption, FS_Subset DEF Live
  <1>2. \A n \in Live : nodes[n].p_key \in Present
    BY LiveNode, HashAssumption DEF HashIInv, NodesAreEntries
  <1>3. key \in [Live -> Present]
    BY <1>2
  <1>4. \A m, n \in Live : key[m] = key[n] => m = n
    BY DEF HashIInv, NodesAreEntries
  <1>5. \A k \in Present : \E n \in Live : key[n] = k
    BY DEF HashIInv, NodesAreEntries
  <1>6. key \in Bijection(Live, Present)
    BY <1>3, <1>4, <1>5, Fun_IsBij
  <1>7. ExistsBijection(Live, Present)
    BY <1>6 DEF ExistsBijection
  <1> QED
    BY <1>1, <1>7, FS_Bijection

(* The chains then stand for the map.                                      *)
LEMMA HashInvMap == HashIInv => HashIsMap
  <1> SUFFICES ASSUME HashIInv PROVE HashIsMap
    OBVIOUS
  <1>1. \A k \in Keys : hash_lookup_entry(k) = entries[k]
    BY LookupIsEntry
  <1> QED
    BY <1>1, NoNodeLost DEF HashIsMap, HashIInv, Linked

(* For every hash function and any number of keys in one bucket, hash.c is *)
(* a map: lookups find what was stored, no node is lost and no freed node  *)
(* is reached.                                                             *)
THEOREM ChainsAreMap == HashSpec => []HashIsMap
  BY HashInvariant, HashInvMap, PTL

(* The table as lookups see it, and what an operation does to it.          *)
Table == [k \in Keys |-> hash_lookup_entry(k)]

MapStep ==
    \E k \in Keys :
        \/ /\ Table[k] = NULL
           /\ \E v \in Values : Table' = [Table EXCEPT ![k] = v] /\ UNCHANGED hash_bug
        \/ /\ Table[k] # NULL
           /\ \E v \in Values \cup {NULL} :
                 Table' = [Table EXCEPT ![k] = v] /\ UNCHANGED hash_bug
        \/ hash_bug' = TRUE /\ UNCHANGED Table

(* What the look-ups say of all keys is the map.                           *)
LEMMA TableIsEntries == HashIInv => Table = entries
  <1> SUFFICES ASSUME HashIInv PROVE Table = entries
    OBVIOUS
  <1>1. \A k \in Keys : hash_lookup_entry(k) = entries[k]
    BY LookupIsEntry
  <1> QED
    BY <1>1 DEF Table, HashIInv, HashTypeOK

(* Each operation does to the table, as lookups see it, what a map does:   *)
(* a key that is absent is added, one that is present removed or changed,  *)
(* and no other key is affected; anything else is a bug() call that leaves *)
(* the table alone.                                                        *)
THEOREM OperationsOfMap == HashSpec => [][MapStep]_hashVars
  <1>1. /\ HashIInv /\ Table = entries /\ (Table = entries)'
        /\ [HashNext]_hashVars
        => [MapStep]_hashVars
    <2> SUFFICES ASSUME HashIInv, Table = entries, (Table = entries)', HashNext
                 PROVE  MapStep
      OBVIOUS
    <2>1. PICK k \in Keys :
            \/ \E v \in Values : hash_add_entry(k, v)
            \/ hash_free_entry(k)
            \/ \E v \in Values : UpdateEntry(k, v)
      BY DEF HashNext
    <2>2. ASSUME NEW v \in Values, hash_add_entry(k, v) PROVE MapStep
      BY <2>2, LookupIsEntry DEF MapStep, hash_add_entry
    <2>3. ASSUME hash_free_entry(k) PROVE MapStep
      BY <2>3, LookupIsEntry DEF MapStep, hash_free_entry
    <2>4. ASSUME NEW v \in Values, UpdateEntry(k, v) PROVE MapStep
      BY <2>4, LookupIsEntry DEF MapStep, UpdateEntry
    <2> QED
      BY <2>1, <2>2, <2>3, <2>4
  <1> QED
    BY <1>1, TableIsEntries, HashInvariant, PTL DEF HashSpec

-----------------------------------------------------------------------------
(* Every set of natural numbers has a least element.                       *)
LEMMA LeastNumber ==
    ASSUME NEW T \in SUBSET Nat, T # {}
    PROVE  \E m \in T : \A k \in T : m <= k
<1> DEFINE R == {ss \in Nat \X Nat : ss[1] < ss[2]}
<1>1. IsWellFoundedOn(R, Nat)
    BY NatLessThanWellFounded, Zenon DEF OpToRel
<1>2. \A x, y \in Nat : x < y => <<x, y>> \in R
    OBVIOUS
<1> HIDE DEF R
<1>3. PICK x \in T : \A y \in T : ~ (<<y, x>> \in R)
    BY <1>1, WFMin
<1>4. \A y \in T : ~ (y < x)
    BY <1>2, <1>3
<1> QED BY <1>4

(* Induction: a set that holds 0 and with every number up to a bound its   *)
(* successor holds all numbers up to the bound.                            *)
LEMMA Induction ==
    ASSUME NEW N \in Nat, NEW S,
           0 \in S, \A n \in 0..(N - 1) : n \in S => n + 1 \in S
    PROVE  0..N \subseteq S
<1>1. SUFFICES ASSUME 0..N \ S # {} PROVE FALSE
    OBVIOUS
<1>2. 0..N \ S \in SUBSET Nat
    OBVIOUS
<1>3. PICK m \in 0..N \ S : \A k \in 0..N \ S : m <= k
    BY <1>1, <1>2, LeastNumber
<1>4. m # 0 /\ m - 1 \in 0..(N - 1) /\ m - 1 \notin 0..N \ S
    BY <1>3
<1> QED BY <1>4

-----------------------------------------------------------------------------
(* The matcher's functions and the meaning's, and their equations.         *)

(* The scan to the last occurrence, as a function of its steps.            *)
ScanOf(s, needed, first, N, F) ==
    F = [k \in 0..N |-> IF k = 0 THEN first ELSE NextUse(s, needed, F[k - 1])]

(* There is such a function, built one step at a time.                     *)
LEMMA ScanExists ==
    ASSUME NEW s, NEW needed, NEW first, NEW N \in Nat
    PROVE  \E F : ScanOf(s, needed, first, N, F)
<1> DEFINE S == {n \in Nat : \E F : ScanOf(s, needed, first, n, F)}
<1>1. 0 \in S
  <2> DEFINE F == [k \in 0..0 |-> first]
  <2>1. ScanOf(s, needed, first, 0, F)
    BY DEF ScanOf
  <2> QED BY <2>1
<1>2. ASSUME NEW m \in 0..(N - 1), m \in S PROVE m + 1 \in S
  <2>1. PICK F : ScanOf(s, needed, first, m, F)
    BY <1>2
  <2> DEFINE v == NextUse(s, needed, F[m])
             G == [k \in 0..(m + 1) |-> IF k = m + 1 THEN v ELSE F[k]]
             H == [k \in 0..(m + 1) |-> IF k = 0 THEN first ELSE NextUse(s, needed, G[k - 1])]
  <2>2. DOMAIN F = 0..m /\ F[0] = first
    BY <2>1 DEF ScanOf
  <2>3. ASSUME NEW k \in 0..(m + 1) PROVE G[k] = H[k]
    <3>1. CASE k = 0
      BY <2>2, <3>1
    <3>2. CASE k = m + 1
      <4>1. G[k - 1] = F[m] /\ G[k] = v BY <3>2
      <4>2. H[k] = NextUse(s, needed, G[k - 1]) BY <3>2
      <4> QED BY <4>1, <4>2
    <3>3. CASE k \in 1..m
      <4>1. F[k] = NextUse(s, needed, F[k - 1]) BY <2>1, <3>3 DEF ScanOf
      <4>2. G[k] = F[k] /\ G[k - 1] = F[k - 1] BY <3>3
      <4>3. H[k] = NextUse(s, needed, G[k - 1]) BY <3>3
      <4> QED BY <4>1, <4>2, <4>3
    <3> QED BY <3>1, <3>2, <3>3
  <2>4. G = H
    BY <2>3
  <2>5. ScanOf(s, needed, first, m + 1, G)
    BY <2>4 DEF ScanOf
  <2> QED BY <2>5
<1> HIDE DEF S
<1>3. 0..N \subseteq S
    BY <1>1, <1>2, Induction
<1> QED BY <1>3 DEF S

(* The alternatives tried, as a function of their number.                  *)
TriedOf(loop, rest, remain, existing, first, N, F) ==
    F = [k \in 0..N |-> IF k = 0 THEN first ELSE Try(loop, F[k - 1], rest, remain, existing)]

(* There is such a function, built one alternative at a time.              *)
LEMMA TriedExists ==
    ASSUME NEW loop, NEW rest, NEW remain, NEW existing, NEW first, NEW N \in Nat
    PROVE  \E F : TriedOf(loop, rest, remain, existing, first, N, F)
<1> DEFINE S == {n \in Nat : \E F : TriedOf(loop, rest, remain, existing, first, n, F)}
<1>1. 0 \in S
  <2> DEFINE F == [k \in 0..0 |-> first]
  <2>1. TriedOf(loop, rest, remain, existing, first, 0, F)
    BY DEF TriedOf
  <2> QED BY <2>1
<1>2. ASSUME NEW m \in 0..(N - 1), m \in S PROVE m + 1 \in S
  <2>1. PICK F : TriedOf(loop, rest, remain, existing, first, m, F)
    BY <1>2
  <2> DEFINE v == Try(loop, F[m], rest, remain, existing)
             G == [k \in 0..(m + 1) |-> IF k = m + 1 THEN v ELSE F[k]]
             H == [k \in 0..(m + 1) |->
                     IF k = 0 THEN first ELSE Try(loop, G[k - 1], rest, remain, existing)]
  <2>2. DOMAIN F = 0..m /\ F[0] = first
    BY <2>1 DEF TriedOf
  <2>3. ASSUME NEW k \in 0..(m + 1) PROVE G[k] = H[k]
    <3>1. CASE k = 0
      BY <2>2, <3>1
    <3>2. CASE k = m + 1
      <4>1. G[k - 1] = F[m] /\ G[k] = v BY <3>2
      <4>2. H[k] = Try(loop, G[k - 1], rest, remain, existing) BY <3>2
      <4> QED BY <4>1, <4>2
    <3>3. CASE k \in 1..m
      <4>1. F[k] = Try(loop, F[k - 1], rest, remain, existing) BY <2>1, <3>3 DEF TriedOf
      <4>2. G[k] = F[k] /\ G[k - 1] = F[k - 1] BY <3>3
      <4>3. H[k] = Try(loop, G[k - 1], rest, remain, existing) BY <3>3
      <4> QED BY <4>1, <4>2, <4>3
    <3> QED BY <3>1, <3>2, <3>3
  <2>4. G = H
    BY <2>3
  <2>5. TriedOf(loop, rest, remain, existing, first, m + 1, G)
    BY <2>4 DEF TriedOf
  <2> QED BY <2>5
<1> HIDE DEF S
<1>3. 0..N \subseteq S
    BY <1>1, <1>2, Induction
<1> QED BY <1>3 DEF S

(* One turn of the loop, and of the meaning, for all there is to do.       *)
AllTurns(loop, existing) == [st \in MatchStates |-> MatchTurn(loop, st, existing)]
AllMeanings(match) == [q \in Text \X Text |-> MeansTurn(match, q[1], q[2])]

(* The loop, as a function of the turns left.                              *)
LoopOf(existing, first, N, F) ==
    F = [k \in 0..N |-> IF k = 0 THEN first ELSE AllTurns(F[k - 1], existing)]

(* There is such a function, built one turn at a time.                     *)
LEMMA LoopExists ==
    ASSUME NEW existing, NEW first, NEW N \in Nat
    PROVE  \E F : LoopOf(existing, first, N, F)
<1> DEFINE S == {n \in Nat : \E F : LoopOf(existing, first, n, F)}
<1>1. 0 \in S
  <2> DEFINE F == [k \in 0..0 |-> first]
  <2>1. LoopOf(existing, first, 0, F)
    BY DEF LoopOf
  <2> QED BY <2>1
<1>2. ASSUME NEW m \in 0..(N - 1), m \in S PROVE m + 1 \in S
  <2>1. PICK F : LoopOf(existing, first, m, F)
    BY <1>2
  <2> DEFINE v == AllTurns(F[m], existing)
             G == [k \in 0..(m + 1) |-> IF k = m + 1 THEN v ELSE F[k]]
             H == [k \in 0..(m + 1) |-> IF k = 0 THEN first ELSE AllTurns(G[k - 1], existing)]
  <2>2. DOMAIN F = 0..m /\ F[0] = first
    BY <2>1 DEF LoopOf
  <2>3. ASSUME NEW k \in 0..(m + 1) PROVE G[k] = H[k]
    <3>1. CASE k = 0
      BY <2>2, <3>1
    <3>2. CASE k = m + 1
      <4>1. G[k - 1] = F[m] /\ G[k] = v BY <3>2
      <4>2. H[k] = AllTurns(G[k - 1], existing) BY <3>2
      <4> QED BY <4>1, <4>2
    <3>3. CASE k \in 1..m
      <4>1. F[k] = AllTurns(F[k - 1], existing) BY <2>1, <3>3 DEF LoopOf
      <4>2. G[k] = F[k] /\ G[k - 1] = F[k - 1] BY <3>3
      <4>3. H[k] = AllTurns(G[k - 1], existing) BY <3>3
      <4> QED BY <4>1, <4>2, <4>3
    <3> QED BY <3>1, <3>2, <3>3
  <2>4. G = H
    BY <2>3
  <2>5. LoopOf(existing, first, m + 1, G)
    BY <2>4 DEF LoopOf
  <2> QED BY <2>5
<1> HIDE DEF S
<1>3. 0..N \subseteq S
    BY <1>1, <1>2, Induction
<1> QED BY <1>3 DEF S

(* The meaning, as a function of the length of the pattern.                *)
MatchOf(first, N, F) ==
    F = [k \in 0..N |-> IF k = 0 THEN first ELSE AllMeanings(F[k - 1])]

(* There is such a function, built one character at a time.                *)
LEMMA MatchExists ==
    ASSUME NEW first, NEW N \in Nat
    PROVE  \E F : MatchOf(first, N, F)
<1> DEFINE S == {n \in Nat : \E F : MatchOf(first, n, F)}
<1>1. 0 \in S
  <2> DEFINE F == [k \in 0..0 |-> first]
  <2>1. MatchOf(first, 0, F)
    BY DEF MatchOf
  <2> QED BY <2>1
<1>2. ASSUME NEW m \in 0..(N - 1), m \in S PROVE m + 1 \in S
  <2>1. PICK F : MatchOf(first, m, F)
    BY <1>2
  <2> DEFINE v == AllMeanings(F[m])
             G == [k \in 0..(m + 1) |-> IF k = m + 1 THEN v ELSE F[k]]
             H == [k \in 0..(m + 1) |-> IF k = 0 THEN first ELSE AllMeanings(G[k - 1])]
  <2>2. DOMAIN F = 0..m /\ F[0] = first
    BY <2>1 DEF MatchOf
  <2>3. ASSUME NEW k \in 0..(m + 1) PROVE G[k] = H[k]
    <3>1. CASE k = 0
      BY <2>2, <3>1
    <3>2. CASE k = m + 1
      <4>1. G[k - 1] = F[m] /\ G[k] = v BY <3>2
      <4>2. H[k] = AllMeanings(G[k - 1]) BY <3>2
      <4> QED BY <4>1, <4>2
    <3>3. CASE k \in 1..m
      <4>1. F[k] = AllMeanings(F[k - 1]) BY <2>1, <3>3 DEF MatchOf
      <4>2. G[k] = F[k] /\ G[k - 1] = F[k - 1] BY <3>3
      <4>3. H[k] = AllMeanings(G[k - 1]) BY <3>3
      <4> QED BY <4>1, <4>2, <4>3
    <3> QED BY <3>1, <3>2, <3>3
  <2>4. G = H
    BY <2>3
  <2>5. MatchOf(first, m + 1, G)
    BY <2>4 DEF MatchOf
  <2> QED BY <2>5
<1> HIDE DEF S
<1>3. 0..N \subseteq S
    BY <1>1, <1>2, Induction
<1> QED BY <1>3 DEF S

(* So ScanForward is the last of the steps of the scan.                    *)
LEMMA ScanEquation ==
    ASSUME NEW s, NEW needed, NEW used, Len(s) \in Nat
    PROVE  \E F : /\ ScanForward(s, needed, used) = F[Len(s)]
                  /\ F[0] = used
                  /\ \A k \in 1..Len(s) : F[k] = NextUse(s, needed, F[k - 1])
<1> DEFINE F == CHOOSE G : ScanOf(s, needed, used, Len(s), G)
<1>1. ScanOf(s, needed, used, Len(s), F)
    BY ScanExists
<1>2. ScanForward(s, needed, used) = F[Len(s)]
    BY DEF ScanForward, ScanOf
<1> HIDE DEF F
<1> QED BY <1>1, <1>2 DEF ScanOf

(* So Alternatives is what the last of its attempts says.                  *)
LEMMA TriedEquation ==
    ASSUME NEW loop, NEW list, NEW rest, NEW remain, NEW iters, NEW existing, Len(list) \in Nat
    PROVE  \E F : /\ Alternatives(loop, list, rest, remain, iters, existing)
                        = [ret |-> F[Len(list)].ret, iters |-> F[Len(list)].iters]
                  /\ F[0] = [list |-> list, ret |-> FALSE, iters |-> iters]
                  /\ \A k \in 1..Len(list) :
                        F[k] = Try(loop, F[k - 1], rest, remain, existing)
<1> DEFINE first == [list |-> list, ret |-> FALSE, iters |-> iters]
           F == CHOOSE G : TriedOf(loop, rest, remain, existing, first, Len(list), G)
<1>1. TriedOf(loop, rest, remain, existing, first, Len(list), F)
    BY TriedExists
<1>2. Alternatives(loop, list, rest, remain, iters, existing)
        = [ret |-> F[Len(list)].ret, iters |-> F[Len(list)].iters]
    BY DEF Alternatives, TriedOf
<1> HIDE DEF F, first
<1>3. F[0] = first
    BY <1>1 DEF TriedOf
<1>4. \A k \in 1..Len(list) : F[k] = Try(loop, F[k - 1], rest, remain, existing)
    BY <1>1 DEF TriedOf
<1> QED BY <1>2, <1>3, <1>4 DEF first

(* So MatchLoop has one turn more than a loop with one turn fewer left.    *)
LEMMA LoopEquation ==
    ASSUME NEW existing
    PROVE  \E F : /\ MatchLoop(existing) = F[VSFTP_MATCHITERS_MAX]
                  /\ F[0] = [st \in MatchStates |-> Ends(st)]
                  /\ \A n \in 1..VSFTP_MATCHITERS_MAX : F[n] = AllTurns(F[n - 1], existing)
<1> DEFINE first == [st \in MatchStates |-> Ends(st)]
           N == VSFTP_MATCHITERS_MAX
           F == CHOOSE G : LoopOf(existing, first, N, G)
<1>0. N \in Nat
    BY FilterConstants
<1>1. LoopOf(existing, first, N, F)
    BY <1>0, LoopExists
<1>2. MatchLoop(existing) = F[N]
    BY DEF MatchLoop, LoopOf, AllTurns
<1> HIDE DEF F
<1>3. F[0] = first
    BY <1>0, <1>1 DEF LoopOf
<1>4. \A n \in 1..N : F[n] = AllTurns(F[n - 1], existing)
    BY <1>0, <1>1 DEF LoopOf
<1> QED BY <1>2, <1>3, <1>4

(* So the meaning of a pattern is given by that of shorter ones.           *)
LEMMA MatchEquation ==
    ASSUME NEW N \in Nat
    PROVE  /\ Meanings(N)[0] = [q \in Text \X Text |-> q[1] = <<>> /\ q[2] = <<>>]
           /\ \A n \in 1..N : Meanings(N)[n] = AllMeanings(Meanings(N)[n - 1])
<1> DEFINE first == [q \in Text \X Text |-> q[1] = <<>> /\ q[2] = <<>>]
           F == Meanings(N)
<1>1. PICK G : MatchOf(first, N, G)
    BY MatchExists
<1>2. MatchOf(first, N, F)
    BY <1>1 DEF Meanings, MatchOf, AllMeanings
<1> HIDE DEF F
<1>3. F[0] = first /\ \A n \in 1..N : F[n] = AllMeanings(F[n - 1])
    BY <1>2 DEF MatchOf
<1> QED BY <1>3 DEF F

-----------------------------------------------------------------------------
(* Texts, and their parts character by character.                          *)
Signs == Characters \cup {"/"}

(* A text is a sequence of signs.                                          *)
LEMMA TextIsSeq == Text = Seq(Signs)
    BY DEF Text, Signs

(* The length of a text, and the positions in it.                          *)
LEMMA TextLen ==
    ASSUME NEW s \in Text
    PROVE  /\ Len(s) \in Nat
           /\ s = <<>> <=> Len(s) = 0
           /\ DOMAIN s = 1..Len(s)
    BY TextIsSeq, EmptySeq, LenProperties

(* The empty text.                                                         *)
LEMMA NothingIsText == <<>> \in Text /\ Len(<<>>) = 0
    BY TextIsSeq, EmptySeq

(* Texts of one length with the same characters are equal.                 *)
LEMMA TextEqual ==
    ASSUME NEW s \in Text, NEW t \in Text, Len(s) = Len(t),
           \A i \in 1..Len(s) : s[i] = t[i]
    PROVE  s = t
    BY TextIsSeq, SeqEqual

(* The characters of a part of a text.                                     *)
LEMMA Part ==
    ASSUME NEW s \in Text, NEW i \in Nat, NEW j \in 0..Len(s), i <= j
    PROVE  /\ SubSeq(s, i + 1, j) \in Text
           /\ Len(SubSeq(s, i + 1, j)) = j - i
           /\ \A k \in 1..(j - i) : SubSeq(s, i + 1, j)[k] = s[i + k]
<1>1. Len(s) \in Nat
    BY TextLen
<1>2. i + 1 \in Int /\ j \in Int
    BY <1>1
<1>3. \A k \in (i + 1)..j : s[k] \in Signs
  <2> TAKE k \in (i + 1)..j
  <2>1. k \in 1..Len(s)
    BY <1>1
  <2> QED BY <2>1, TextIsSeq, ElementOfSeq
<1> DEFINE t == SubSeq(s, i + 1, j)
<1>4. /\ t \in Seq(Signs)
      /\ Len(t) = IF i + 1 <= j THEN j - (i + 1) + 1 ELSE 0
      /\ \A k \in 1..(j - (i + 1) + 1) : t[k] = s[i + 1 + k - 1]
    BY <1>2, <1>3, SubSeqProperties
<1> HIDE DEF t
<1>5. Len(t) = j - i
    BY <1>1, <1>4
<1>6. ASSUME NEW k \in 1..(j - i) PROVE t[k] = s[i + k]
  <2>1. k \in 1..(j - (i + 1) + 1) /\ i + 1 + k - 1 = i + k
    BY <1>1
  <2> QED BY <1>4, <2>1
<1> QED BY <1>4, <1>5, <1>6, TextIsSeq DEF t

(* The characters of its beginning.                                        *)
LEMMA Prefix ==
    ASSUME NEW s \in Text, NEW k \in 0..Len(s)
    PROVE  /\ SubSeq(s, 1, k) \in Text
           /\ Len(SubSeq(s, 1, k)) = k
           /\ \A i \in 1..k : SubSeq(s, 1, k)[i] = s[i]
<1>1. Len(s) \in Nat
    BY TextLen
<1>2. /\ SubSeq(s, 0 + 1, k) \in Text
      /\ Len(SubSeq(s, 0 + 1, k)) = k - 0
      /\ \A i \in 1..(k - 0) : SubSeq(s, 0 + 1, k)[i] = s[0 + i]
    BY <1>1, Part
<1>3. 0 + 1 = 1 /\ k - 0 = k /\ \A i \in 1..k : 0 + i = i
    BY <1>1
<1> QED BY <1>2, <1>3

(* The characters of what is left of it.                                   *)
LEMMA Rest ==
    ASSUME NEW s \in Text, NEW i \in 0..Len(s)
    PROVE  /\ After(s, i) \in Text
           /\ Len(After(s, i)) = Len(s) - i
           /\ \A k \in 1..(Len(s) - i) : After(s, i)[k] = s[i + k]
<1>1. Len(s) \in Nat /\ Len(s) \in 0..Len(s)
    BY TextLen
<1> QED BY <1>1, Part DEF After

(* What is left behind nothing, and behind everything.                     *)
LEMMA RestOfAll ==
    ASSUME NEW s \in Text
    PROVE  /\ After(s, 0) = s
           /\ After(s, Len(s)) = <<>>
           /\ After(s, Len(s) + 1) = <<>>
<1>1. Len(s) \in Nat /\ 0 \in 0..Len(s) /\ Len(s) \in 0..Len(s)
    BY TextLen
<1>2. After(s, 0) = s
  <2>1. /\ After(s, 0) \in Text /\ Len(After(s, 0)) = Len(s) - 0
        /\ \A k \in 1..(Len(s) - 0) : After(s, 0)[k] = s[0 + k]
    BY <1>1, Rest
  <2>2. Len(s) - 0 = Len(s) /\ \A k \in 1..Len(s) : 0 + k = k
    BY <1>1
  <2> QED BY <2>1, <2>2, TextEqual
<1>3. After(s, Len(s)) = <<>>
  <2>1. Len(s) + 1 \in Int /\ Len(s) \in Int /\ Len(s) < Len(s) + 1
    BY <1>1
  <2> QED BY <2>1, SubSeqEmpty DEF After
<1>4. After(s, Len(s) + 1) = <<>>
  <2>1. Len(s) + 1 + 1 \in Int /\ Len(s) \in Int /\ Len(s) < Len(s) + 1 + 1
    BY <1>1
  <2> QED BY <2>1, SubSeqEmpty DEF After
<1> QED BY <1>2, <1>3, <1>4

(* What is left of what is left.                                           *)
LEMMA RestOfRest ==
    ASSUME NEW s \in Text, NEW i \in 0..Len(s), NEW j \in 0..(Len(s) - i)
    PROVE  After(After(s, i), j) = After(s, i + j)
<1> DEFINE r == After(s, i)
           t == After(r, j)
           v == After(s, i + j)
<1>1. Len(s) \in Nat /\ i + j \in 0..Len(s) /\ i \in Nat /\ j \in Nat
    BY TextLen
<1>2. /\ r \in Text /\ Len(r) = Len(s) - i
      /\ \A k \in 1..(Len(s) - i) : r[k] = s[i + k]
    BY Rest
<1>3. /\ v \in Text /\ Len(v) = Len(s) - (i + j)
      /\ \A k \in 1..(Len(s) - (i + j)) : v[k] = s[i + j + k]
    BY <1>1, Rest
<1> HIDE DEF r, v
<1>4. /\ t \in Text /\ Len(t) = Len(r) - j
      /\ \A k \in 1..(Len(r) - j) : t[k] = r[j + k]
    BY <1>1, <1>2, Rest
<1> HIDE DEF t
<1>5. Len(t) = Len(v)
    BY <1>1, <1>2, <1>3, <1>4
<1>6. ASSUME NEW k \in 1..Len(t) PROVE t[k] = v[k]
  <2>1. /\ k \in 1..(Len(r) - j) /\ j + k \in 1..(Len(s) - i)
        /\ k \in 1..(Len(s) - (i + j)) /\ i + (j + k) = i + j + k
    BY <1>1, <1>2, <1>4
  <2> QED BY <1>2, <1>3, <1>4, <2>1
<1>7. t = v
    BY <1>3, <1>4, <1>5, <1>6, TextEqual
<1> QED BY <1>7 DEF t, v, r

(* The tail is what is left behind one character.                          *)
LEMMA TailIsRest ==
    ASSUME NEW s \in Text, s # <<>>
    PROVE  Tail(s) = After(s, 1) /\ 1 \in 0..Len(s)
<1>1. Len(s) \in Nat /\ Len(s) # 0
    BY TextLen
<1>2. Tail(s) = SubSeq(s, 2, Len(s))
    BY TextIsSeq, TailIsSubSeq
<1>3. 1 + 1 = 2
    OBVIOUS
<1> QED BY <1>1, <1>2, <1>3 DEF After

(* One text behind another is a text.                                      *)
LEMMA TextsJoin ==
    ASSUME NEW s \in Text, NEW t \in Text
    PROVE  s \o t \in Text /\ Len(s \o t) = Len(s) + Len(t)
    BY TextIsSeq, ConcatProperties

(* The characters of one text behind another.                              *)
LEMMA ElementOfJoin ==
    ASSUME NEW s \in Text, NEW t \in Text, NEW i \in 1..(Len(s) + Len(t))
    PROVE  (s \o t)[i] = IF i <= Len(s) THEN s[i] ELSE t[i - Len(s)]
    BY TextIsSeq, ConcatProperties

(* First is the least number of a set that has one.                        *)
LEMMA FirstIsLeast ==
    ASSUME NEW S \in SUBSET Nat, S # {}
    PROVE  First(S) \in S /\ \A j \in S : First(S) <= j
<1>1. \E i \in S : \A j \in S : i <= j
    BY LeastNumber
<1> QED BY <1>1 DEF First

(* What str_locate_chars finds.                                            *)
LEMMA CharsLocated ==
    ASSUME NEW s \in Text, NEW chars
    PROVE  /\ LocateChars(s, chars) \in 1..(Len(s) + 1)
           /\ \A i \in 1..(LocateChars(s, chars) - 1) : s[i] \notin chars
           /\ LocateChars(s, chars) # Len(s) + 1 => s[LocateChars(s, chars)] \in chars
<1> DEFINE S == {i \in DOMAIN s : s[i] \in chars} \cup {Len(s) + 1}
           at == First(S)
<1>1. Len(s) \in Nat /\ DOMAIN s = 1..Len(s)
    BY TextLen
<1>2. S \in SUBSET Nat /\ S # {} /\ S \subseteq 1..(Len(s) + 1)
    BY <1>1
<1>3. at \in S /\ \A j \in S : at <= j
    BY <1>2, FirstIsLeast
<1>4. at = LocateChars(s, chars)
    BY DEF LocateChars
<1> HIDE DEF at
<1>5. at \in 1..(Len(s) + 1)
    BY <1>2, <1>3
<1>6. ASSUME NEW i \in 1..(at - 1) PROVE s[i] \notin chars
  <2>1. i \in 1..Len(s) /\ ~(at <= i)
    BY <1>1, <1>5
  <2>2. i \notin S
    BY <1>3, <2>1
  <2> QED BY <1>1, <2>1, <2>2
<1>7. at # Len(s) + 1 => s[at] \in chars
    BY <1>3
<1> QED BY <1>4, <1>5, <1>6, <1>7

(* t is in s behind i characters.                                          *)
Occurs(s, t, i) ==
    /\ i \in Nat /\ i + Len(t) <= Len(s)
    /\ \A k \in 1..Len(t) : s[i + k] = t[k]

(* Occurs says what the comparison of str_locate_text looks for.           *)
LEMMA OccursThere ==
    ASSUME NEW s \in Text, NEW t \in Text, NEW i \in Nat, i + Len(t) <= Len(s)
    PROVE  SubSeq(s, i + 1, i + Len(t)) = t <=> Occurs(s, t, i)
<1> DEFINE j == i + Len(t)
           r == SubSeq(s, i + 1, j)
<1>1. Len(s) \in Nat /\ Len(t) \in Nat /\ j \in 0..Len(s) /\ i <= j /\ j - i = Len(t)
    BY TextLen
<1>2. /\ r \in Text /\ Len(r) = j - i
      /\ \A k \in 1..(j - i) : r[k] = s[i + k]
    BY <1>1, Part
<1> HIDE DEF r
<1>3. r = t => \A k \in 1..Len(t) : s[i + k] = t[k]
    BY <1>1, <1>2
<1>4. ASSUME \A k \in 1..Len(t) : s[i + k] = t[k] PROVE r = t
  <2>1. Len(r) = Len(t) /\ \A k \in 1..Len(r) : r[k] = t[k]
    BY <1>1, <1>2, <1>4
  <2> QED BY <1>2, <2>1, TextEqual
<1>5. r = t <=> Occurs(s, t, i)
    BY <1>3, <1>4 DEF Occurs
<1> QED BY <1>5 DEF r

(* What str_locate_str finds.                                              *)
LEMMA StrLocated ==
    ASSUME NEW s \in Text, NEW t \in Text
    PROVE  \/ /\ LocateStr(s, t) = -1
              /\ \A j : ~Occurs(s, t, j)
           \/ /\ LocateStr(s, t) \in Nat
              /\ Occurs(s, t, LocateStr(s, t))
              /\ \A j : Occurs(s, t, j) => LocateStr(s, t) <= j
<1> DEFINE S == {i \in 0..(Len(s) - Len(t)) : SubSeq(s, i + 1, i + Len(t)) = t}
<1>1. Len(s) \in Nat /\ Len(t) \in Nat
    BY TextLen
<1>2. \A j : j \in S <=> Occurs(s, t, j)
  <2> TAKE j
  <2>1. j \in 0..(Len(s) - Len(t)) <=> j \in Nat /\ j + Len(t) <= Len(s)
    BY <1>1
  <2>2. CASE j \in Nat /\ j + Len(t) <= Len(s)
    BY <2>1, <2>2, OccursThere
  <2>3. CASE ~(j \in Nat /\ j + Len(t) <= Len(s))
    BY <2>1, <2>3 DEF Occurs
  <2> QED BY <2>2, <2>3
<1>3. S \in SUBSET Nat
    BY <1>1
<1>4. LocateStr(s, t) = IF S = {} THEN -1 ELSE First(S)
    BY DEF LocateStr
<1> HIDE DEF S
<1>5. CASE S = {}
    BY <1>2, <1>4, <1>5
<1>6. CASE S # {}
  <2>1. First(S) \in S /\ \A j \in S : First(S) <= j
    BY <1>3, <1>6, FirstIsLeast
  <2> QED BY <1>2, <1>3, <1>4, <1>6, <2>1
<1> QED BY <1>5, <1>6

-----------------------------------------------------------------------------
(* The meaning of a pattern, one character or brace of it at a time.       *)
Brace(p) == LocateChars(Tail(p), {"}"})
Inside(p) == SubSeq(Tail(p), 1, Brace(p) - 1)
Behind(p) == After(Tail(p), Brace(p))
Braced(p) == p[1] = "{" /\ Brace(p) \in DOMAIN Tail(p)

Cuts(l) == {i \in DOMAIN l : l[i] = ","} \cup {0, Len(l) + 1}
PartsOf(l) == {SubSeq(l, i + 1, j - 1) : i, j \in Cuts(l)}
Items(l) == {x \in PartsOf(l) : \A i \in DOMAIN x : x[i] # ","}

(* The patterns a brace in front of a pattern stands for.                  *)
Forms(p) == {a \o Behind(p) : a \in Items(Inside(p))}

(* An alternative is a text no longer than the list.                       *)
LEMMA ItemsAreParts ==
    ASSUME NEW l \in Text, NEW a \in Items(l)
    PROVE  a \in Text /\ Len(a) <= Len(l)
<1>1. Len(l) \in Nat /\ DOMAIN l = 1..Len(l)
    BY TextLen
<1>2. PICK i \in Cuts(l), j \in Cuts(l) : a = SubSeq(l, i + 1, j - 1)
  <2>1. a \in PartsOf(l)
    BY DEF Items
  <2> QED BY <2>1 DEF PartsOf
<1>3. i \in 0..(Len(l) + 1) /\ j \in 0..(Len(l) + 1)
  <2>1. 0 \in 0..(Len(l) + 1) /\ Len(l) + 1 \in 0..(Len(l) + 1)
        /\ \A k \in 1..Len(l) : k \in 0..(Len(l) + 1)
    BY <1>1
  <2>2. \A k \in Cuts(l) : k \in 1..Len(l) \/ k = 0 \/ k = Len(l) + 1
    BY <1>1 DEF Cuts
  <2> QED BY <1>2, <2>1, <2>2
<1>4. CASE i <= j - 1
  <2>1. i \in Nat /\ j - 1 \in 0..Len(l)
    BY <1>1, <1>3, <1>4
  <2>2. a \in Text /\ Len(a) = j - 1 - i
    BY <1>2, <1>4, <2>1, Part
  <2> QED BY <1>1, <1>3, <2>2
<1>5. CASE ~(i <= j - 1)
  <2>1. i + 1 \in Int /\ j - 1 \in Int /\ j - 1 < i + 1
    BY <1>1, <1>3, <1>5
  <2>2. a = <<>>
    BY <1>2, <2>1, SubSeqEmpty
  <2> QED BY <1>1, <2>2, NothingIsText
<1> QED BY <1>4, <1>5

(* What is inside a brace and behind it.                                   *)
LEMMA BraceParts ==
    ASSUME NEW p \in Text, p # <<>>, Braced(p)
    PROVE  /\ Tail(p) \in Text /\ Brace(p) \in 1..Len(Tail(p))
           /\ Inside(p) \in Text /\ Len(Inside(p)) = Brace(p) - 1
           /\ Behind(p) \in Text /\ Len(Behind(p)) = Len(Tail(p)) - Brace(p)
           /\ Len(Inside(p)) + Len(Behind(p)) + 2 = Len(p)
<1>1. Tail(p) = After(p, 1) /\ 1 \in 0..Len(p) /\ Len(p) \in Nat
    BY TailIsRest, TextLen
<1>2. Tail(p) \in Text /\ Len(Tail(p)) = Len(p) - 1
    BY <1>1, Rest
<1>3. Brace(p) \in 1..Len(Tail(p)) /\ Len(Tail(p)) \in Nat
    BY <1>2, TextLen DEF Braced
<1>4. Inside(p) \in Text /\ Len(Inside(p)) = Brace(p) - 1
  <2>1. Brace(p) - 1 \in 0..Len(Tail(p))
    BY <1>3
  <2> QED BY <1>2, <2>1, Prefix DEF Inside
<1>5. Behind(p) \in Text /\ Len(Behind(p)) = Len(Tail(p)) - Brace(p)
  <2>1. Brace(p) \in 0..Len(Tail(p))
    BY <1>3
  <2> QED BY <1>2, <2>1, Rest DEF Behind
<1>6. Len(Inside(p)) + Len(Behind(p)) + 2 = Len(p)
    BY <1>1, <1>2, <1>3, <1>4, <1>5
<1> QED BY <1>2, <1>3, <1>4, <1>5, <1>6

(* What a brace stands for is shorter than the pattern.                    *)
LEMMA FormsAreShorter ==
    ASSUME NEW p \in Text, p # <<>>, Braced(p), NEW e \in Forms(p)
    PROVE  e \in Text /\ Len(e) < Len(p)
<1>1. PICK a \in Items(Inside(p)) : e = a \o Behind(p)
    BY DEF Forms
<1>2. /\ Inside(p) \in Text /\ Behind(p) \in Text
      /\ Len(Inside(p)) + Len(Behind(p)) + 2 = Len(p)
    BY BraceParts
<1>3. a \in Text /\ Len(a) <= Len(Inside(p))
    BY <1>2, ItemsAreParts
<1>4. e \in Text /\ Len(e) = Len(a) + Len(Behind(p))
    BY <1>1, <1>2, <1>3, TextsJoin
<1> QED BY <1>2, <1>3, <1>4, TextLen

(* The cases of the meaning.                                               *)
LEMMA MeansCases ==
    ASSUME NEW m, NEW p, NEW s
    PROVE  MeansTurn(m, p, s) =
             IF p = <<>> THEN s = <<>>
             ELSE CASE p[1] = "*" -> \E i \in 0..Len(s) : m[<<Tail(p), After(s, i)>>]
                    [] p[1] = "?" -> s # <<>> /\ m[<<Tail(p), Tail(s)>>]
                    [] p[1] = "{" /\ Brace(p) \in DOMAIN Tail(p) ->
                         \E a \in Items(Inside(p)) : m[<<a \o Behind(p), s>>]
                    [] OTHER -> s # <<>> /\ s[1] = p[1] /\ m[<<Tail(p), Tail(s)>>]
    BY DEF MeansTurn, Items, PartsOf, Inside, Behind, Brace, Cuts

(* The empty pattern means the empty name.                                 *)
LEMMA MeansNothing ==
    ASSUME NEW m, NEW s
    PROVE  MeansTurn(m, <<>>, s) <=> s = <<>>
    BY DEF MeansTurn

(* A star means any beginning.                                             *)
LEMMA MeansStar ==
    ASSUME NEW m, NEW p, NEW s, p # <<>>, p[1] = "*"
    PROVE  MeansTurn(m, p, s) <=> \E i \in 0..Len(s) : m[<<Tail(p), After(s, i)>>]
    BY DEF MeansTurn

(* A question mark means any one character.                                *)
LEMMA MeansAny ==
    ASSUME NEW m, NEW p, NEW s, p # <<>>, p[1] = "?"
    PROVE  MeansTurn(m, p, s) <=> s # <<>> /\ m[<<Tail(p), Tail(s)>>]
    BY DEF MeansTurn

(* A brace means each of the patterns it stands for.                       *)
LEMMA MeansBrace ==
    ASSUME NEW m, NEW p, NEW s, p # <<>>, Braced(p)
    PROVE  MeansTurn(m, p, s) <=> \E e \in Forms(p) : m[<<e, s>>]
<1>1. p[1] = "{" /\ Brace(p) \in DOMAIN Tail(p)
    BY DEF Braced
<1>2. MeansTurn(m, p, s) <=> \E a \in Items(Inside(p)) : m[<<a \o Behind(p), s>>]
    BY <1>1, MeansCases
<1>3. (\E e \in Forms(p) : m[<<e, s>>]) <=> \E a \in Items(Inside(p)) : m[<<a \o Behind(p), s>>]
    BY DEF Forms
<1> QED BY <1>2, <1>3

(* Every other character means itself.                                     *)
LEMMA MeansItself ==
    ASSUME NEW m, NEW p, NEW s, p # <<>>, p[1] # "*", p[1] # "?", ~Braced(p)
    PROVE  MeansTurn(m, p, s) <=> s # <<>> /\ s[1] = p[1] /\ m[<<Tail(p), Tail(s)>>]
<1>1. ~(p[1] = "{" /\ Brace(p) \in DOMAIN Tail(p))
    BY DEF Braced
<1> QED BY <1>1, MeansCases

(* What a pattern means depends on shorter ones only.                      *)
LEMMA ShorterDecide ==
    ASSUME NEW p \in Text, NEW s \in Text, NEW m, NEW n,
           \A e, t \in Text : Len(e) < Len(p) => (m[<<e, t>>] <=> n[<<e, t>>])
    PROVE  MeansTurn(m, p, s) <=> MeansTurn(n, p, s)
<1>0. CASE p = <<>>
    BY <1>0, MeansNothing
<1>1. CASE p # <<>>
  <2>1. Tail(p) \in Text /\ Len(Tail(p)) < Len(p)
    <3>1. Tail(p) = After(p, 1) /\ 1 \in 0..Len(p) /\ Len(p) \in Nat
      BY <1>1, TailIsRest, TextLen
    <3>2. After(p, 1) \in Text /\ Len(After(p, 1)) = Len(p) - 1
      BY <3>1, Rest
    <3>3. Len(After(p, 1)) < Len(p)
      BY <3>1, <3>2
    <3> QED BY <3>1, <3>2, <3>3, Zenon
  <2>2. s # <<>> => Tail(s) \in Text
    BY TailIsRest, Rest
  <2>3. \A i \in 0..Len(s) : After(s, i) \in Text
    BY Rest
  <2>4. CASE p[1] = "*"
    <3>1. \A i \in 0..Len(s) : m[<<Tail(p), After(s, i)>>] <=> n[<<Tail(p), After(s, i)>>]
      BY <2>1, <2>3
    <3> QED BY <1>1, <2>4, <3>1, MeansStar
  <2>5. CASE p[1] = "?"
    <3>1. s # <<>> => (m[<<Tail(p), Tail(s)>>] <=> n[<<Tail(p), Tail(s)>>])
      BY <2>1, <2>2
    <3> QED BY <1>1, <2>5, <3>1, MeansAny, Zenon
  <2>6. CASE Braced(p)
    <3>1. \A e \in Forms(p) : m[<<e, s>>] <=> n[<<e, s>>]
      BY <1>1, <2>6, FormsAreShorter
    <3> QED BY <1>1, <2>6, <3>1, MeansBrace
  <2>7. CASE p[1] # "*" /\ p[1] # "?" /\ ~Braced(p)
    <3>1. s # <<>> => (m[<<Tail(p), Tail(s)>>] <=> n[<<Tail(p), Tail(s)>>])
      BY <2>1, <2>2
    <3>2. MeansTurn(m, p, s) <=> s # <<>> /\ s[1] = p[1] /\ m[<<Tail(p), Tail(s)>>]
      BY <1>1, <2>7, MeansItself, Zenon
    <3>3. MeansTurn(n, p, s) <=> s # <<>> /\ s[1] = p[1] /\ n[<<Tail(p), Tail(s)>>]
      BY <1>1, <2>7, MeansItself, Zenon
    <3> QED BY <3>1, <3>2, <3>3, Zenon
  <2> QED BY <2>4, <2>5, <2>6, <2>7
<1> QED BY <1>0, <1>1

(* The meaning of a pattern of at most N characters.                       *)
Sem(N, p, s) == Meanings(N)[Len(p)][<<p, s>>]

(* A level of the meaning is a turn over the level below it.               *)
LEMMA MeaningTurns ==
    ASSUME NEW N \in Nat, NEW n \in 1..N, NEW p \in Text, NEW s \in Text
    PROVE  Meanings(N)[n][<<p, s>>] <=> MeansTurn(Meanings(N)[n - 1], p, s)
<1> DEFINE m == Meanings(N)[n - 1]
<1>1. Meanings(N)[n] = AllMeanings(m)
    BY MatchEquation
<1> HIDE DEF m
<1>2. AllMeanings(m)[<<p, s>>] = MeansTurn(m, p, s)
    BY DEF AllMeanings
<1>3. Meanings(N)[n][<<p, s>>] = MeansTurn(m, p, s)
    BY <1>1, <1>2
<1> QED BY <1>3 DEF m

(* At level 0 there is the empty pattern only.                             *)
LEMMA NoMeaning ==
    ASSUME NEW N \in Nat, NEW p \in Text, NEW s \in Text
    PROVE  Meanings(N)[0][<<p, s>>] <=> p = <<>> /\ s = <<>>
<1>1. Meanings(N)[0] = [q \in Text \X Text |-> q[1] = <<>> /\ q[2] = <<>>]
    BY MatchEquation
<1>2. [q \in Text \X Text |-> q[1] = <<>> /\ q[2] = <<>>][<<p, s>>] = (p = <<>> /\ s = <<>>)
    OBVIOUS
<1> QED BY <1>1, <1>2

(* More turns than characters change nothing.                              *)
LEMMA EnoughTurns ==
    ASSUME NEW N \in Nat, NEW n \in 0..N
    PROVE  \A p, s \in Text : Len(p) <= n => (Meanings(N)[n][<<p, s>>] <=> Sem(N, p, s))
<1> DEFINE M == Meanings(N)
           Settled(k) == \A p, s \in Text : Len(p) <= k => (M[k][<<p, s>>] <=> Sem(N, p, s))
           S == {k \in Nat : \A i \in 0..k : Settled(i)}
<1>1. 0 \in S
  <2>1. Settled(0)
    <3> SUFFICES ASSUME NEW p \in Text, NEW s \in Text, Len(p) <= 0
                 PROVE  M[0][<<p, s>>] <=> Sem(N, p, s)
      OBVIOUS
    <3>1. Len(p) = 0
      BY TextLen
    <3> QED BY <3>1 DEF Sem
  <2> QED BY <2>1
<1>2. ASSUME NEW k \in 0..(N - 1), k \in S PROVE k + 1 \in S
  <2>1. \A i \in 0..k : Settled(i)
    BY <1>2
  <2>2. Settled(k + 1)
    <3> SUFFICES ASSUME NEW p \in Text, NEW s \in Text, Len(p) <= k + 1
                 PROVE  M[k + 1][<<p, s>>] <=> Sem(N, p, s)
      OBVIOUS
    <3>1. Len(p) \in Nat /\ k \in Nat /\ k + 1 \in 1..N /\ (k + 1) - 1 = k
      BY TextLen
    <3>2. CASE Len(p) = k + 1
      BY <3>2 DEF Sem
    <3>3. M[k + 1][<<p, s>>] <=> MeansTurn(M[k], p, s)
      BY <3>1, MeaningTurns
    <3>4. CASE Len(p) = 0
      <4>1. p = <<>>
        BY <3>4, TextLen
      <4>2. Sem(N, p, s) <=> p = <<>> /\ s = <<>>
        BY <3>4, NoMeaning DEF Sem
      <4> QED BY <3>3, <4>1, <4>2, MeansNothing
    <3>5. CASE Len(p) \in 1..k
      <4> DEFINE j == Len(p) - 1
      <4>1. Len(p) \in 1..N /\ j \in 0..k /\ k \in 0..k
        BY <3>1, <3>5
      <4>2. Sem(N, p, s) <=> MeansTurn(M[j], p, s)
        BY <4>1, MeaningTurns DEF Sem
      <4>3. Settled(j) /\ Settled(k)
        BY <2>1, <4>1
      <4>4. \A e \in Text : Len(e) < Len(p) => Len(e) <= j /\ Len(e) <= k
        BY <3>1, <3>5, TextLen
      <4>5. \A e, t \in Text : Len(e) < Len(p) => (M[k][<<e, t>>] <=> M[j][<<e, t>>])
        BY <4>3, <4>4
      <4> HIDE DEF M, j
      <4>6. MeansTurn(M[k], p, s) <=> MeansTurn(M[j], p, s)
        BY <4>5, ShorterDecide
      <4> QED BY <3>3, <4>2, <4>6
    <3> QED BY <3>1, <3>2, <3>4, <3>5
  <2> HIDE DEF Settled
  <2>3. \A i \in 0..(k + 1) : i \in 0..k \/ i = k + 1
    OBVIOUS
  <2> QED BY <2>1, <2>2, <2>3
<1> HIDE DEF S
<1>3. 0..N \subseteq S
    BY <1>1, <1>2, Induction
<1>4. n \in 0..n /\ n \in S
    BY <1>3
<1> HIDE DEF Settled
<1>5. Settled(n)
    BY <1>4 DEF S
<1> QED BY <1>5 DEF Settled, M

(* So the meaning satisfies its cases.                                     *)
LEMMA SemTurn ==
    ASSUME NEW N \in Nat, NEW p \in Text, NEW s \in Text, Len(p) <= N
    PROVE  \E m : /\ Sem(N, p, s) <=> MeansTurn(m, p, s)
                  /\ \A e, t \in Text : Len(e) < Len(p) => (m[<<e, t>>] <=> Sem(N, e, t))
<1>1. Len(p) \in Nat
    BY TextLen
<1>2. CASE Len(p) = 0
  <2>1. p = <<>>
    BY <1>2, TextLen
  <2>2. Sem(N, p, s) <=> s = <<>>
    BY <1>2, <2>1, NoMeaning DEF Sem
  <2>3. \A e \in Text : ~(Len(e) < Len(p))
    BY <1>2, TextLen
  <2> QED BY <2>1, <2>2, <2>3, MeansNothing
<1>3. CASE Len(p) # 0
  <2> DEFINE j == Len(p) - 1
             m == Meanings(N)[j]
  <2>1. Len(p) \in 1..N /\ j \in 0..N
    BY <1>1, <1>3
  <2>2. Sem(N, p, s) <=> MeansTurn(m, p, s)
    BY <2>1, MeaningTurns DEF Sem
  <2>3. \A e \in Text : Len(e) < Len(p) => Len(e) <= j
    BY <1>1, TextLen
  <2>4. \A e, t \in Text : Len(e) <= j => (m[<<e, t>>] <=> Sem(N, e, t))
    BY <2>1, EnoughTurns
  <2> HIDE DEF m, j
  <2> QED BY <2>2, <2>3, <2>4
<1> QED BY <1>2, <1>3

(* The tail of a pattern is one character shorter.                         *)
LEMMA TailShorter ==
    ASSUME NEW p \in Text, p # <<>>
    PROVE  Tail(p) \in Text /\ Len(Tail(p)) = Len(p) - 1 /\ Len(Tail(p)) < Len(p)
<1>1. Tail(p) = After(p, 1) /\ 1 \in 0..Len(p) /\ Len(p) \in Nat
    BY TailIsRest, TextLen
<1>2. After(p, 1) \in Text /\ Len(After(p, 1)) = Len(p) - 1
    BY <1>1, Rest
<1>3. Len(After(p, 1)) < Len(p)
    BY <1>1, <1>2
<1> QED BY <1>1, <1>2, <1>3, Zenon

(* The five cases again, for the meaning itself: the empty pattern,        *)
LEMMA SemNothing ==
    ASSUME NEW N \in Nat, NEW s \in Text
    PROVE  Sem(N, <<>>, s) <=> s = <<>>
    BY NoMeaning, NothingIsText DEF Sem

(* a star,                                                                 *)
LEMMA SemStar ==
    ASSUME NEW N \in Nat, NEW p \in Text, NEW s \in Text, Len(p) <= N, p # <<>>, p[1] = "*"
    PROVE  Sem(N, p, s) <=> \E i \in 0..Len(s) : Sem(N, Tail(p), After(s, i))
<1>1. PICK m : /\ Sem(N, p, s) <=> MeansTurn(m, p, s)
               /\ \A e, t \in Text : Len(e) < Len(p) => (m[<<e, t>>] <=> Sem(N, e, t))
    BY SemTurn
<1>2. \A i \in 0..Len(s) : m[<<Tail(p), After(s, i)>>] <=> Sem(N, Tail(p), After(s, i))
    BY <1>1, TailShorter, Rest
<1> QED BY <1>1, <1>2, MeansStar

(* a question mark,                                                        *)
LEMMA SemAny ==
    ASSUME NEW N \in Nat, NEW p \in Text, NEW s \in Text, Len(p) <= N, p # <<>>, p[1] = "?"
    PROVE  Sem(N, p, s) <=> s # <<>> /\ Sem(N, Tail(p), Tail(s))
<1>1. PICK m : /\ Sem(N, p, s) <=> MeansTurn(m, p, s)
               /\ \A e, t \in Text : Len(e) < Len(p) => (m[<<e, t>>] <=> Sem(N, e, t))
    BY SemTurn
<1>2. s # <<>> => (m[<<Tail(p), Tail(s)>>] <=> Sem(N, Tail(p), Tail(s)))
    BY <1>1, TailShorter
<1> QED BY <1>1, <1>2, MeansAny

(* a brace,                                                                *)
LEMMA SemBrace ==
    ASSUME NEW N \in Nat, NEW p \in Text, NEW s \in Text, Len(p) <= N, p # <<>>, Braced(p)
    PROVE  Sem(N, p, s) <=> \E e \in Forms(p) : Sem(N, e, s)
<1>1. PICK m : /\ Sem(N, p, s) <=> MeansTurn(m, p, s)
               /\ \A e, t \in Text : Len(e) < Len(p) => (m[<<e, t>>] <=> Sem(N, e, t))
    BY SemTurn
<1>2. \A e \in Forms(p) : m[<<e, s>>] <=> Sem(N, e, s)
    BY <1>1, FormsAreShorter
<1> QED BY <1>1, <1>2, MeansBrace

(* and every other character.                                              *)
LEMMA SemItself ==
    ASSUME NEW N \in Nat, NEW p \in Text, NEW s \in Text, Len(p) <= N, p # <<>>,
           p[1] # "*", p[1] # "?", ~Braced(p)
    PROVE  Sem(N, p, s) <=> s # <<>> /\ s[1] = p[1] /\ Sem(N, Tail(p), Tail(s))
<1>1. PICK m : /\ Sem(N, p, s) <=> MeansTurn(m, p, s)
               /\ \A e, t \in Text : Len(e) < Len(p) => (m[<<e, t>>] <=> Sem(N, e, t))
    BY SemTurn
<1>2. s # <<>> => (m[<<Tail(p), Tail(s)>>] <=> Sem(N, Tail(p), Tail(s)))
    BY <1>1, TailShorter
<1> QED BY <1>1, <1>2, MeansItself

-----------------------------------------------------------------------------
(* A pattern that begins with k characters and no token among them.        *)
LEMMA LiteralPrefix ==
    ASSUME NEW N \in Nat, NEW p \in Text, NEW s \in Text, Len(p) <= N,
           NEW k \in 0..Len(p), \A i \in 1..k : p[i] \notin Tokens
    PROVE  Sem(N, p, s) <=> /\ k <= Len(s)
                            /\ \A i \in 1..k : s[i] = p[i]
                            /\ Sem(N, After(p, k), After(s, k))
<1> DEFINE Upto(j) == Sem(N, p, s) <=> /\ j <= Len(s)
                                       /\ \A i \in 1..j : s[i] = p[i]
                                       /\ Sem(N, After(p, j), After(s, j))
           S == {j \in Nat : Upto(j)}
<1>0. Len(p) \in Nat /\ Len(s) \in Nat
    BY TextLen
<1>1. 0 \in S
  <2>1. After(p, 0) = p /\ After(s, 0) = s
    BY RestOfAll
  <2>2. 0 <= Len(s) /\ 1..0 = {}
    BY <1>0
  <2>3. Upto(0)
    BY <2>1, <2>2
  <2> QED BY <2>3
<1>2. ASSUME NEW j \in 0..(k - 1), j \in S PROVE j + 1 \in S
  <2> DEFINE q == After(p, j)
             t == After(s, j)
  <2>1. Upto(j) /\ j \in Nat /\ j \in 0..Len(p) /\ j + 1 \in 1..k
    BY <1>0, <1>2
  <2>2. /\ q \in Text /\ Len(q) = Len(p) - j /\ Len(q) <= N /\ q # <<>>
        /\ q[1] = p[j + 1]
    <3>1. q \in Text /\ Len(q) = Len(p) - j
          /\ \A i \in 1..(Len(p) - j) : q[i] = p[j + i]
      BY <2>1, Rest
    <3>2. 1 \in 1..(Len(p) - j) /\ Len(p) - j <= N /\ Len(p) - j # 0
      BY <1>0, <2>1
    <3> QED BY <3>1, <3>2, TextLen
  <2>3. q[1] # "*" /\ q[1] # "?" /\ ~Braced(q)
    BY <2>1, <2>2 DEF Tokens, Braced
  <2>4. Tail(q) = After(p, j + 1)
    <3>1. Tail(q) = After(q, 1) /\ 1 \in 0..Len(q)
      BY <2>2, TailIsRest
    <3>2. 1 \in 0..(Len(p) - j)
      BY <2>2, <3>1
    <3>3. After(q, 1) = After(p, j + 1)
      BY <2>1, <3>2, RestOfRest
    <3> QED BY <3>1, <3>3
  <2>5. CASE j + 1 <= Len(s)
    <3>1. j \in 0..Len(s) /\ 1 \in 0..(Len(s) - j) /\ 1 \in 1..(Len(s) - j) /\ Len(s) - j # 0
          /\ j <= Len(s)
      BY <1>0, <2>1, <2>5
    <3>2. /\ t \in Text /\ Len(t) = Len(s) - j
          /\ \A i \in 1..(Len(s) - j) : t[i] = s[j + i]
      BY <3>1, Rest
    <3>3. t # <<>> /\ t[1] = s[j + 1]
      BY <3>1, <3>2, TextLen
    <3>4. Tail(t) = After(t, 1)
      BY <3>2, <3>3, TailIsRest
    <3>5. After(t, 1) = After(s, j + 1)
      BY <3>1, RestOfRest
    <3> HIDE DEF q, t
    <3>6. Sem(N, q, t) <=> t # <<>> /\ t[1] = q[1] /\ Sem(N, Tail(q), Tail(t))
      BY <2>2, <2>3, <3>2, SemItself
    <3>7. Sem(N, q, t) <=> s[j + 1] = p[j + 1] /\ Sem(N, After(p, j + 1), After(s, j + 1))
      BY <2>2, <2>4, <3>3, <3>4, <3>5, <3>6, Zenon
    <3>8. Sem(N, p, s) <=> (\A i \in 1..j : s[i] = p[i]) /\ Sem(N, q, t)
      BY <2>1, <3>1 DEF q, t
    <3>9. (\A i \in 1..(j + 1) : s[i] = p[i])
            <=> (\A i \in 1..j : s[i] = p[i]) /\ s[j + 1] = p[j + 1]
      <4>1. j + 1 \in 1..(j + 1) /\ \A i \in 1..j : i \in 1..(j + 1)
        BY <2>1
      <4>2. \A i \in 1..(j + 1) : i \in 1..j \/ i = j + 1
        BY <2>1
      <4> QED BY <4>1, <4>2
    <3>10. Upto(j + 1)
      BY <2>5, <3>7, <3>8, <3>9
    <3> QED BY <2>1, <3>10
  <2>6. CASE ~(j + 1 <= Len(s))
    <3>1. ~Sem(N, p, s)
      <4>1. CASE j <= Len(s)
        <5>1. j = Len(s)
          BY <1>0, <2>1, <2>6, <4>1
        <5>2. t = <<>>
          BY <5>1, RestOfAll
        <5>3. ~Sem(N, q, <<>>)
          BY <2>2, <2>3, SemItself, NothingIsText
        <5> QED BY <2>1, <5>2, <5>3
      <4>2. CASE ~(j <= Len(s))
        BY <2>1, <4>2
      <4> QED BY <4>1, <4>2
    <3>2. Upto(j + 1)
      BY <2>6, <3>1
    <3> QED BY <2>1, <3>2
  <2> QED BY <2>5, <2>6
<1> HIDE DEF S
<1>3. k \in Nat /\ k \in 0..k
    BY <1>0
<1>4. k \in S
    BY <1>1, <1>2, <1>3, Induction
<1> QED BY <1>4 DEF S

-----------------------------------------------------------------------------
(* s holds t in front of its character number used + 1.                    *)
EndsAt(s, t, used) ==
    /\ used \in 0..Len(s) /\ Len(t) <= used
    /\ Occurs(s, t, used - Len(t))

(* One step of the scan reaches the end of the next occurrence.            *)
LEMMA NextUseFinds ==
    ASSUME NEW s \in Text, NEW t \in Text, NEW used \in 0..Len(s)
    PROVE  \/ /\ NextUse(s, t, used) = used
              /\ \A x : x >= used => ~Occurs(s, t, x)
           \/ /\ EndsAt(s, t, NextUse(s, t, used))
              /\ NextUse(s, t, used) - Len(t) \in Nat
              /\ NextUse(s, t, used) - Len(t) >= used
              /\ \A x : x >= used /\ Occurs(s, t, x) => NextUse(s, t, used) - Len(t) <= x
<1> DEFINE r == After(s, used)
           i == LocateStr(r, t)
           n == NextUse(s, t, used)
<1>1. Len(s) \in Nat /\ Len(t) \in Nat
    BY TextLen
<1>2. /\ r \in Text /\ Len(r) = Len(s) - used
      /\ \A k \in 1..(Len(s) - used) : r[k] = s[used + k]
    BY Rest
<1>3. n = IF i < 0 THEN used ELSE used + i + Len(t)
    BY DEF NextUse
<1> HIDE DEF r
<1>4. \/ i = -1 /\ \A j : ~Occurs(r, t, j)
      \/ i \in Nat /\ Occurs(r, t, i) /\ \A j : Occurs(r, t, j) => i <= j
    BY <1>2, StrLocated
<1> HIDE DEF i, n
<1>5. ASSUME NEW j \in Nat, j + Len(t) <= Len(s) - used
      PROVE  Occurs(r, t, j) <=> Occurs(s, t, used + j)
  <2>1. ASSUME NEW k \in 1..Len(t) PROVE r[j + k] = s[used + j + k]
    <3>1. j + k \in 1..(Len(s) - used) /\ used + (j + k) = used + j + k
      BY <1>1, <1>5
    <3> QED BY <1>2, <3>1
  <2>2. used + j \in Nat /\ used + j + Len(t) <= Len(s) /\ j + Len(t) <= Len(r)
    BY <1>1, <1>2, <1>5
  <2> QED BY <2>1, <2>2 DEF Occurs
<1>6. ASSUME NEW x, x >= used, Occurs(s, t, x) PROVE x - used \in Nat /\ Occurs(r, t, x - used)
  <2>1. x \in Nat /\ x + Len(t) <= Len(s)
    BY <1>6 DEF Occurs
  <2>2. x - used \in Nat /\ (x - used) + Len(t) <= Len(s) - used /\ used + (x - used) = x
    BY <1>1, <1>6, <2>1
  <2> QED BY <1>5, <1>6, <2>2
<1>7. CASE i = -1
  <2>1. n = used
    BY <1>3, <1>7
  <2>2. \A j : ~Occurs(r, t, j)
    BY <1>4, <1>7
  <2> QED BY <1>6, <2>1, <2>2 DEF n
<1>8. CASE i \in Nat
  <2>1. Occurs(r, t, i) /\ \A j : Occurs(r, t, j) => i <= j
    BY <1>4, <1>8
  <2>2. i + Len(t) <= Len(s) - used
    BY <1>2, <2>1 DEF Occurs
  <2>3. n = used + i + Len(t)
    BY <1>3, <1>8
  <2>4. Occurs(s, t, used + i)
    BY <1>5, <1>8, <2>1, <2>2
  <2>5. n \in 0..Len(s) /\ Len(t) <= n /\ n - Len(t) = used + i /\ used + i \in Nat
        /\ used + i >= used
    BY <1>1, <1>8, <2>2, <2>3
  <2>6. EndsAt(s, t, n)
    BY <2>4, <2>5 DEF EndsAt
  <2>7. ASSUME NEW x, x >= used, Occurs(s, t, x) PROVE n - Len(t) <= x
    <3>1. x - used \in Nat /\ i <= x - used
      BY <1>6, <2>1, <2>7
    <3>2. x \in Nat
      BY <2>7 DEF Occurs
    <3> QED BY <1>8, <2>5, <3>1, <3>2
  <2> QED BY <2>5, <2>6, <2>7 DEF n
<1> QED BY <1>4, <1>7, <1>8

(* What the matcher has used of a name is the needed text, at the current  *)
(* position if it must be.                                                 *)
LEMMA UsesFinds ==
    ASSUME NEW s \in Text, NEW t \in Text, NEW must \in BOOLEAN
    PROVE  \/ Uses(s, t, must) = -1
           \/ /\ EndsAt(s, t, Uses(s, t, must))
              /\ must \/ t = <<>> => Uses(s, t, must) = Len(t)
<1> DEFINE i == LocateStr(s, t)
           w == Uses(s, t, must)
<1>1. Len(s) \in Nat /\ Len(t) \in Nat /\ (t = <<>> <=> Len(t) = 0)
    BY TextLen
<1>2. w = IF t = <<>> THEN 0
          ELSE IF i < 0 \/ (must /\ i > 0) THEN -1
          ELSE IF must THEN Len(t)
          ELSE ScanForward(s, t, i + Len(t))
    BY DEF Uses
<1>3. \/ i = -1
      \/ i \in Nat /\ Occurs(s, t, i)
    BY StrLocated
<1> HIDE DEF i, w
<1>4. CASE t = <<>>
  <2>1. w = 0 /\ Len(t) = 0
    BY <1>1, <1>2, <1>4
  <2>2. EndsAt(s, t, 0)
    BY <1>1, <2>1 DEF EndsAt, Occurs
  <2> QED BY <2>1, <2>2 DEF w
<1>5. CASE t # <<>> /\ (i = -1 \/ (must /\ i # 0))
  <2>1. w = -1
    BY <1>2, <1>3, <1>5
  <2> QED BY <2>1 DEF w
<1>6. CASE t # <<>> /\ i \in Nat /\ Occurs(s, t, i) /\ (must => i = 0)
  <2>1. i + Len(t) \in 0..Len(s) /\ Len(t) <= i + Len(t) /\ i + Len(t) - Len(t) = i
    BY <1>1, <1>6 DEF Occurs
  <2>2. EndsAt(s, t, i + Len(t))
    BY <1>6, <2>1 DEF EndsAt
  <2>3. CASE must
    <3>1. w = Len(t) /\ i + Len(t) = Len(t)
      BY <1>1, <1>2, <1>6, <2>3
    <3> QED BY <2>2, <3>1 DEF w
  <2>4. CASE ~must
    <3>1. w = ScanForward(s, t, i + Len(t))
      BY <1>2, <1>6, <2>4
    <3>2. PICK F : /\ ScanForward(s, t, i + Len(t)) = F[Len(s)]
                   /\ F[0] = i + Len(t)
                   /\ \A k \in 1..Len(s) : F[k] = NextUse(s, t, F[k - 1])
      BY <1>1, ScanEquation
    <3> DEFINE S == {k \in Nat : EndsAt(s, t, F[k])}
    <3>3. 0 \in S
      BY <2>2, <3>2
    <3>4. ASSUME NEW k \in 0..(Len(s) - 1), k \in S PROVE k + 1 \in S
      <4>1. k \in Nat /\ k + 1 \in 1..Len(s) /\ (k + 1) - 1 = k
        BY <1>1
      <4>2. F[k + 1] = NextUse(s, t, F[k])
        BY <3>2, <4>1
      <4>3. EndsAt(s, t, F[k]) /\ F[k] \in 0..Len(s)
        BY <3>4 DEF EndsAt
      <4>4. F[k + 1] = F[k] \/ EndsAt(s, t, F[k + 1])
        BY <4>2, <4>3, NextUseFinds
      <4> QED BY <4>1, <4>3, <4>4
    <3> HIDE DEF S
    <3>5. Len(s) \in S
      <4>1. 0..Len(s) \subseteq S
        BY <1>1, <3>3, <3>4, Induction
      <4> QED BY <1>1, <4>1
    <3>6. EndsAt(s, t, w)
      BY <3>1, <3>2, <3>5 DEF S
    <3> QED BY <1>6, <2>4, <3>6 DEF w
  <2> QED BY <2>3, <2>4
<1> QED BY <1>3, <1>4, <1>5, <1>6

-----------------------------------------------------------------------------
(* What it takes for the matcher to be sound.                              *)
MAX == VSFTP_MATCHITERS_MAX
Stripped(s) == IF s # <<>> /\ s[1] = "/" THEN Tail(s) ELSE s
Plain(s) == \A i \in 1..Len(s) : s[i] # "/"

(* The states the loop gets into: the name it matches is plain, or it is a *)
(* path in front of an empty pattern or a brace, and where the needed text *)
(* may be found anywhere a "*" came before.                                *)
StateOK(N, st) ==
    /\ st \in MatchStates
    /\ Len(st.filter_remain) <= N
    /\ Plain(st.filter_remain)
    /\ Plain(Stripped(st.name_remain))
    /\ \/ Plain(st.name_remain)
       \/ /\ st.must /\ st.last_token # "*"
          /\ st.filter_remain = <<>> \/ st.filter_remain[1] = "{"
    /\ st.must \/ st.last_token = "*" \/ st.filter_remain = <<>>

(* What is left of the name has the meaning of what is left of the pattern.*)
Good(N, st) ==
    IF st.last_token = "*"
    THEN \E i \in 0..Len(st.name_remain) : Sem(N, st.filter_remain, After(st.name_remain, i))
    ELSE Sem(N, st.filter_remain, Stripped(st.name_remain))

(* The outcome r of a state or a call with some iterations done.           *)
Sound(r, iters, means) == r.iters \in iters..MAX /\ (r.ret => means)

LoopSound(N, loop, left) ==
    \A st : StateOK(N, st) /\ MAX - st.iters <= left => Sound(loop[st], st.iters, Good(N, st))

(* The limit on the iterations leaves room for two turns.                  *)
LEMMA MaxIsNumber == MAX \in Nat /\ MAX >= 3
    BY FilterConstants DEF MAX

(* What is left of a plain text is plain,                                  *)
LEMMA PlainRest ==
    ASSUME NEW s \in Text, Plain(s), NEW i \in 0..Len(s)
    PROVE  Plain(After(s, i))
<1>1. /\ Len(s) \in Nat /\ After(s, i) \in Text /\ Len(After(s, i)) = Len(s) - i
      /\ \A k \in 1..(Len(s) - i) : After(s, i)[k] = s[i + k]
    BY Rest, TextLen
<1>2. ASSUME NEW k \in 1..Len(After(s, i)) PROVE After(s, i)[k] # "/"
  <2>1. k \in 1..(Len(s) - i) /\ i + k \in 1..Len(s)
    BY <1>1
  <2> QED BY <1>1, <2>1 DEF Plain
<1> QED BY <1>2 DEF Plain

(* so is its beginning,                                                    *)
LEMMA PlainPrefix ==
    ASSUME NEW s \in Text, Plain(s), NEW i \in 0..Len(s)
    PROVE  Plain(SubSeq(s, 1, i))
<1>1. /\ Len(s) \in Nat /\ Len(SubSeq(s, 1, i)) = i
      /\ \A k \in 1..i : SubSeq(s, 1, i)[k] = s[k]
    BY Prefix, TextLen
<1>2. \A k \in 1..i : k \in 1..Len(s)
    BY <1>1
<1> QED BY <1>1, <1>2 DEF Plain

(* and one plain text behind another.                                      *)
LEMMA PlainJoin ==
    ASSUME NEW s \in Text, NEW t \in Text, Plain(s), Plain(t)
    PROVE  Plain(s \o t)
<1>1. Len(s) \in Nat /\ Len(t) \in Nat /\ Len(s \o t) = Len(s) + Len(t)
    BY TextsJoin, TextLen
<1>2. ASSUME NEW i \in 1..(Len(s) + Len(t)) PROVE (s \o t)[i] # "/"
  <2>1. (s \o t)[i] = IF i <= Len(s) THEN s[i] ELSE t[i - Len(s)]
    BY ElementOfJoin
  <2>2. IF i <= Len(s) THEN i \in 1..Len(s) ELSE i - Len(s) \in 1..Len(t)
    BY <1>1
  <2> QED BY <2>1, <2>2 DEF Plain
<1> QED BY <1>1, <1>2 DEF Plain

(* A plain text has no slash to lose.                                      *)
LEMMA PlainStripped ==
    ASSUME NEW s \in Text, Plain(s)
    PROVE  Stripped(s) = s
<1>1. s # <<>> => 1 \in 1..Len(s)
    BY TextLen
<1> QED BY <1>1 DEF Stripped, Plain

(* A path without its slash is a text.                                     *)
LEMMA StrippedText ==
    ASSUME NEW s \in Text
    PROVE  Stripped(s) \in Text
    BY TailShorter DEF Stripped

(* A path is the name behind a slash.                                      *)
LEMMA PathParts ==
    ASSUME NEW n \in Text, Plain(n)
    PROVE  /\ <<"/">> \o n \in Text /\ <<"/">> \o n # <<>>
           /\ (<<"/">> \o n)[1] = "/"
           /\ Stripped(<<"/">> \o n) = n
           /\ Basename(<<"/">> \o n) = n
<1> DEFINE c == <<"/">>
           p == c \o n
<1>1. c \in Text /\ Len(c) = 1 /\ c[1] = "/"
  <2>1. "/" \in Signs
    BY DEF Signs
  <2> QED BY <2>1, TextIsSeq
<1> HIDE DEF c
<1>2. p \in Text /\ Len(p) = 1 + Len(n) /\ Len(n) \in Nat
    BY <1>1, TextsJoin, TextLen
<1>3. ASSUME NEW i \in 1..(1 + Len(n)) PROVE p[i] = IF i <= 1 THEN c[i] ELSE n[i - 1]
  <2>1. c \in Text /\ i \in 1..(Len(c) + Len(n))
    BY <1>1
  <2>2. (c \o n)[i] = IF i <= Len(c) THEN c[i] ELSE n[i - Len(c)]
    BY <2>1, ElementOfJoin
  <2> QED BY <1>1, <2>2, Zenon
<1> HIDE DEF p
<1>4. p[1] = "/" /\ p # <<>>
    BY <1>1, <1>2, <1>3, TextLen
<1>5. After(p, 1) = n
  <2>1. 1 \in 0..Len(p)
    BY <1>2
  <2>2. /\ After(p, 1) \in Text /\ Len(After(p, 1)) = Len(p) - 1
        /\ \A k \in 1..(Len(p) - 1) : After(p, 1)[k] = p[1 + k]
    BY <1>2, <2>1, Rest
  <2>3. Len(After(p, 1)) = Len(n)
    BY <1>2, <2>2
  <2>4. ASSUME NEW k \in 1..Len(After(p, 1)) PROVE After(p, 1)[k] = n[k]
    <3>1. k \in 1..(Len(p) - 1) /\ 1 + k \in 1..(1 + Len(n)) /\ ~(1 + k <= 1) /\ 1 + k - 1 = k
      BY <1>2, <2>2
    <3> QED BY <1>3, <2>2, <3>1
  <2> QED BY <2>2, <2>3, <2>4, TextEqual
<1>6. Stripped(p) = n
  <2>1. Tail(p) = After(p, 1)
    BY <1>2, <1>4, TailIsRest
  <2> QED BY <1>4, <1>5, <2>1, Zenon DEF Stripped
<1>7. Basename(p) = n
  <2> DEFINE slashes == {i \in DOMAIN p : p[i] = "/"}
  <2>1. DOMAIN p = 1..(1 + Len(n))
    BY <1>2, TextLen
  <2>2. slashes = {1}
    <3>1. ASSUME NEW i \in 1..(1 + Len(n)), i # 1 PROVE p[i] # "/"
      <4>1. i - 1 \in 1..Len(n) /\ ~(i <= 1)
        BY <1>2, <3>1
      <4> QED BY <1>3, <4>1 DEF Plain
    <3>2. 1 \in 1..(1 + Len(n))
      BY <1>2
    <3> QED BY <1>4, <2>1, <3>1, <3>2
  <2>3. (CHOOSE i \in slashes : \A j \in slashes : j <= i) = 1
    BY <2>2
  <2> HIDE DEF slashes
  <2>4. slashes # {}
    BY <2>2
  <2> QED BY <1>5, <2>3, <2>4 DEF Basename, slashes
<1> QED BY <1>2, <1>4, <1>6, <1>7 DEF p, c

(* A call of the matcher is sound if its loop is.                          *)
LEMMA PassesSound ==
    ASSUME NEW N \in Nat, NEW loop, NEW left, LoopSound(N, loop, left),
           NEW filename \in Text, Plain(Stripped(filename)),
           NEW filter \in Text, Plain(filter), Len(filter) <= N,
           NEW iters \in 0..MAX, MAX - iters <= left, NEW existing
    PROVE  Sound(Passes(loop, filename, filter, iters, existing), iters,
                 Sem(N, filter, Stripped(filename)))
<1> DEFINE n == Stripped(filename)
           path == <<"/">> \o n
           sub == Subject(path, filter)
           st == [filter_remain |-> filter, name_remain |-> sub,
                  must |-> TRUE, last_token |-> "none", iters |-> iters]
           means == Sem(N, filter, n)
<1>1. n \in Text
    BY StrippedText
<1> HIDE DEF n
<1>2. /\ path \in Text /\ path # <<>> /\ path[1] = "/"
      /\ Stripped(path) = n /\ Basename(path) = n
    BY <1>1, PathParts DEF n
<1>3. realpath(filename, existing) = NULL_PATH \/ realpath(filename, existing) = path
    BY Zenon DEF realpath, n, Stripped
<1> HIDE DEF path
<1>4. CASE realpath(filename, existing) = NULL_PATH
  <2>1. Passes(loop, filename, filter, iters, existing) = [ret |-> FALSE, iters |-> iters]
    BY <1>4 DEF Passes, Fails
  <2>2. iters \in iters..MAX
    BY MaxIsNumber
  <2> QED BY <2>1, <2>2 DEF Sound
<1>5. CASE realpath(filename, existing) = path
  <2>1. Passes(loop, filename, filter, iters, existing) = loop[st]
    BY <1>2, <1>5 DEF Passes, NULL_PATH
  <2>2. \/ sub = n
        \/ sub = path /\ (filter = <<>> \/ filter[1] = "{")
    <3>1. filter # <<>> => filter[1] # "/"
      <4>1. filter # <<>> => 1 \in 1..Len(filter)
        BY TextLen
      <4> QED BY <4>1 DEF Plain
    <3> QED BY <1>2, <3>1 DEF Subject
  <2> HIDE DEF sub
  <2>3. Plain(n) /\ Stripped(n) = n
    BY <1>1, PlainStripped DEF n
  <2>4. sub \in Text /\ Stripped(sub) = n
    BY <1>1, <1>2, <2>2, <2>3
  <2>5. st \in MatchStates
    BY <2>4 DEF MatchStates, MAX
  <2>6. StateOK(N, st)
    <3>1. Plain(sub) \/ filter = <<>> \/ filter[1] = "{"
      BY <2>2, <2>3
    <3> QED BY <2>3, <2>4, <2>5, <3>1 DEF StateOK
  <2>7. Good(N, st) <=> means
    BY <2>4 DEF Good
  <2>8. st.iters = iters
    OBVIOUS
  <2> HIDE DEF st, means
  <2>9. Sound(loop[st], iters, Good(N, st))
    BY <2>6, <2>8 DEF LoopSound
  <2>10. Sound(loop[st], iters, means)
    BY <2>7, <2>9 DEF Sound
  <2> QED BY <2>1, <2>10 DEF means, n
<1> QED BY <1>3, <1>4, <1>5

Separator == ","
Comma(r) == LocateChars(r, {Separator})

Slice(l, i, j) == SubSeq(l, i + 1, j - 1)

(* Two cuts give a part.                                                   *)
LEMMA PartIsThere ==
    ASSUME NEW l, NEW i \in Cuts(l), NEW j \in Cuts(l)
    PROVE  SubSeq(l, i + 1, j - 1) \in PartsOf(l)
<1>1. PartsOf(l) = {Slice(l, x, y) : x, y \in Cuts(l)}
    BY DEF PartsOf, Slice
<1>2. Slice(l, i, j) \in PartsOf(l)
    BY <1>1
<1> QED BY <1>2 DEF Slice

(* The cuts of a list: its commas and its two ends.                        *)
LEMMA CutsAre ==
    ASSUME NEW l, NEW k
    PROVE  k \in Cuts(l) <=> (k \in DOMAIN l /\ l[k] = Separator) \/ k = 0 \/ k = Len(l) + 1
    BY Zenon DEF Cuts, Separator

(* The alternatives of a list: its parts without a comma.                  *)
LEMMA ItemsAre ==
    ASSUME NEW l, NEW a
    PROVE  a \in Items(l) <=> a \in PartsOf(l) /\ \A i \in DOMAIN a : a[i] # Separator
    BY Zenon DEF Items, Separator

(* Each alternative of a brace is an item of it in front of the rest.      *)
LEMMA NextItem ==
    ASSUME NEW l \in Text, NEW c \in Cuts(l), NEW r, r = After(l, c),
           Comma(r) # 1
    PROVE  /\ r \in Text /\ Comma(r) - 1 \in 0..Len(r)
           /\ SubSeq(r, 1, Comma(r) - 1) \in Items(l)
           /\ \E d \in Cuts(l) : After(r, Comma(r)) = After(l, d)
<1> DEFINE comma == Comma(r)
           a == SubSeq(r, 1, comma - 1)
<1>1. Len(l) \in Nat /\ DOMAIN l = 1..Len(l)
    BY TextLen
<1>2. c \in 0..(Len(l) + 1)
  <2>1. 0 \in 0..(Len(l) + 1) /\ Len(l) + 1 \in 0..(Len(l) + 1)
        /\ \A k \in 1..Len(l) : k \in 0..(Len(l) + 1)
    BY <1>1
  <2>2. \A k \in Cuts(l) : k \in 1..Len(l) \/ k = 0 \/ k = Len(l) + 1
    BY <1>1, CutsAre
  <2> QED BY <2>1, <2>2
<1>3. c \in 0..Len(l)
  <2>1. CASE c = Len(l) + 1
    <3>1. r = <<>>
      BY <2>1, RestOfAll
    <3>2. comma \in 1..1
      BY <3>1, NothingIsText, CharsLocated DEF Comma
    <3> QED BY <3>2
  <2> QED BY <1>1, <1>2, <2>1
<1>4. /\ r \in Text /\ Len(r) = Len(l) - c
      /\ \A k \in 1..(Len(l) - c) : r[k] = l[c + k]
    BY <1>3, Rest
<1>5. /\ comma \in 1..(Len(r) + 1)
      /\ \A i \in 1..(comma - 1) : r[i] # Separator
      /\ comma # Len(r) + 1 => r[comma] = Separator
  <2>1. /\ comma \in 1..(Len(r) + 1)
        /\ \A i \in 1..(comma - 1) : r[i] \notin {Separator}
        /\ comma # Len(r) + 1 => r[comma] \in {Separator}
    BY <1>4, CharsLocated DEF Comma
  <2> HIDE DEF comma
  <2> QED BY <2>1
<1> HIDE DEF comma
<1>0. Len(r) \in Nat /\ comma \in 1..(Len(r) + 1)
    BY <1>4, <1>5, TextLen
<1>6. comma - 1 \in 0..Len(r)
    BY <1>4, <1>5, TextLen
<1>7. /\ a \in Text /\ Len(a) = comma - 1
      /\ \A i \in 1..(comma - 1) : a[i] = r[i]
    BY <1>4, <1>6, Prefix
<1>d. PICK d \in Nat : d = c + comma
    BY <1>0, <1>3
<1>8. d \in Cuts(l)
  <2>1. CASE comma = Len(r) + 1
    <3>1. d = Len(l) + 1
      BY <1>d, <1>1, <1>3, <1>4, <2>1
    <3> QED BY <3>1, CutsAre
  <2>2. CASE comma # Len(r) + 1
    <3>1. comma \in 1..(Len(l) - c) /\ c + comma \in 1..Len(l)
      BY <1>0, <1>1, <1>3, <1>4, <2>2
    <3>2. l[c + comma] = Separator
      BY <1>4, <1>5, <2>2, <3>1
    <3> QED BY <1>1, <1>d, <3>1, <3>2, CutsAre
  <2> QED BY <2>1, <2>2
<1>9. a = SubSeq(l, c + 1, d - 1)
  <2> DEFINE j == d - 1
             b == SubSeq(l, c + 1, j)
  <2>1. c \in Nat /\ j \in 0..Len(l) /\ c <= j /\ j - c = comma - 1
    BY <1>d, <1>0, <1>1, <1>3, <1>4
  <2>2. b \in Text /\ Len(b) = j - c /\ \A k \in 1..(j - c) : b[k] = l[c + k]
    BY <2>1, Part
  <2> HIDE DEF b, a
  <2>3. Len(a) = Len(b)
    BY <1>7, <2>1, <2>2
  <2>4. ASSUME NEW k \in 1..Len(a) PROVE a[k] = b[k]
    <3>1. k \in 1..(comma - 1) /\ k \in 1..(j - c) /\ k \in 1..(Len(l) - c)
      BY <1>0, <1>d, <1>1, <1>3, <1>4, <1>7, <2>1
    <3> QED BY <1>4, <1>7, <2>2, <3>1
  <2>5. a = b
    BY <1>7, <2>2, <2>3, <2>4, TextEqual
  <2> QED BY <2>5 DEF b
<1>10. a \in Items(l)
  <2>1. a \in PartsOf(l)
    <3> HIDE DEF a
    <3> QED BY <1>8, <1>9, PartIsThere, Zenon
  <2>2. DOMAIN a = 1..(comma - 1)
    BY <1>7, TextLen
  <2>3. \A i \in DOMAIN a : a[i] # Separator
    BY <1>5, <1>7, <2>2
  <2> HIDE DEF a
  <2> QED BY <2>1, <2>3, ItemsAre
<1>11. After(r, comma) = After(l, d)
  <2>1. CASE comma = Len(r) + 1
    <3>1. d = Len(l) + 1
      BY <1>d, <1>1, <1>3, <1>4, <2>1
    <3>2. After(r, Len(r) + 1) = <<>> /\ After(l, Len(l) + 1) = <<>>
      BY <1>4, RestOfAll
    <3> QED BY <2>1, <3>1, <3>2
  <2>2. CASE comma # Len(r) + 1
    <3>1. comma \in 0..(Len(l) - c)
      BY <1>0, <1>1, <1>3, <1>4, <2>2
    <3>2. After(After(l, c), comma) = After(l, c + comma)
      BY <1>3, <3>1, RestOfRest
    <3> QED BY <1>d, <3>2
  <2> QED BY <2>1, <2>2
<1> QED BY <1>4, <1>6, <1>8, <1>10, <1>11 DEF comma, a

(* The parts of a plain pattern are plain.                                 *)
LEMMA FormsArePlain ==
    ASSUME NEW p \in Text, p # <<>>, Plain(p), Braced(p), NEW e \in Forms(p)
    PROVE  Plain(e)
<1>1. Tail(p) \in Text /\ Plain(Tail(p)) /\ Brace(p) \in 1..Len(Tail(p)) /\ Len(Tail(p)) \in Nat
  <2>1. Tail(p) = After(p, 1) /\ 1 \in 0..Len(p)
    BY TailIsRest
  <2>2. Plain(After(p, 1))
    BY <2>1, PlainRest
  <2>3. Tail(p) \in Text /\ Brace(p) \in 1..Len(Tail(p))
    BY BraceParts
  <2> QED BY <2>1, <2>2, <2>3, TextLen, Zenon
<1>2. Inside(p) \in Text /\ Plain(Inside(p))
  <2>1. Brace(p) - 1 \in 0..Len(Tail(p))
    BY <1>1
  <2> QED BY <1>1, <2>1, PlainPrefix, Prefix DEF Inside
<1>3. Behind(p) \in Text /\ Plain(Behind(p))
  <2>1. Brace(p) \in 0..Len(Tail(p))
    BY <1>1
  <2> QED BY <1>1, <2>1, PlainRest, Rest DEF Behind
<1>4. PICK a \in Items(Inside(p)) : e = a \o Behind(p)
    BY DEF Forms
<1>5. a \in Text /\ Plain(a)
  <2> DEFINE l == Inside(p)
  <2>0. l \in Text /\ Plain(l) /\ Len(l) \in Nat
    BY <1>2, TextLen
  <2>1. a \in Text
    BY <1>2, ItemsAreParts
  <2> HIDE DEF l
  <2>2. PICK i \in Cuts(l), j \in Cuts(l) : a = SubSeq(l, i + 1, j - 1)
    <3>1. a \in PartsOf(l)
      BY ItemsAre DEF l
    <3> QED BY <3>1 DEF PartsOf
  <2>3. i \in 0..(Len(l) + 1) /\ j \in 0..(Len(l) + 1)
    <3>1. 0 \in 0..(Len(l) + 1) /\ Len(l) + 1 \in 0..(Len(l) + 1)
          /\ \A k \in 1..Len(l) : k \in 0..(Len(l) + 1)
      BY <2>0
    <3>2. \A k \in Cuts(l) : k \in 1..Len(l) \/ k = 0 \/ k = Len(l) + 1
      BY <2>0, TextLen, CutsAre
    <3> QED BY <2>2, <3>1, <3>2
  <2>4. CASE i <= j - 1
    <3>1. i \in Nat /\ j - 1 \in 0..Len(l)
      BY <2>0, <2>3, <2>4
    <3>2. Len(a) = j - 1 - i /\ \A k \in 1..(j - 1 - i) : a[k] = l[i + k]
      BY <2>0, <2>2, <2>4, <3>1, Part
    <3>3. \A k \in 1..(j - 1 - i) : i + k \in 1..Len(l)
      BY <2>0, <2>3, <2>4
    <3>4. Plain(a)
      BY <2>0, <3>2, <3>3 DEF Plain
    <3> QED BY <2>1, <3>4
  <2>5. CASE ~(i <= j - 1)
    <3>1. i + 1 \in Int /\ j - 1 \in Int /\ j - 1 < i + 1
      BY <2>0, <2>3, <2>5
    <3>2. a = <<>>
      BY <2>2, <3>1, SubSeqEmpty
    <3>3. Plain(a)
      BY <3>2, NothingIsText DEF Plain
    <3> QED BY <2>1, <3>3
  <2> QED BY <2>4, <2>5
<1> QED BY <1>3, <1>4, <1>5, PlainJoin

(* The alternatives of a brace are sound if the loop is.                   *)
LEMMA AlternativesSound ==
    ASSUME NEW N \in Nat, NEW loop, NEW left \in Nat, LoopSound(N, loop, left),
           NEW p \in Text, p # <<>>, Plain(p), Braced(p), Len(p) <= N,
           NEW remain \in Text, Plain(Stripped(remain)),
           NEW iters \in 0..MAX, MAX - iters <= left, NEW existing
    PROVE  Sound(Alternatives(loop, Inside(p), Behind(p), remain, iters, existing), iters,
                 Sem(N, p, Stripped(remain)))
<1> DEFINE l == Inside(p)
           rest == Behind(p)
           n == Stripped(remain)
           T(t) == /\ t.iters \in iters..MAX
                   /\ t.ret => \E e \in Forms(p) : Sem(N, e, n)
                   /\ \E c \in Cuts(l) : t.list = After(l, c)
<1>1. l \in Text /\ rest \in Text /\ Len(l) \in Nat /\ n \in Text
    BY BraceParts, TextLen, StrippedText
<1>2. PICK F : /\ Alternatives(loop, l, rest, remain, iters, existing)
                    = [ret |-> F[Len(l)].ret, iters |-> F[Len(l)].iters]
               /\ F[0] = [list |-> l, ret |-> FALSE, iters |-> iters]
               /\ \A k \in 1..Len(l) : F[k] = Try(loop, F[k - 1], rest, remain, existing)
    BY <1>1, TriedEquation
<1>3. ASSUME NEW t, T(t) PROVE T(Try(loop, t, rest, remain, existing))
  <2> DEFINE comma == Comma(t.list)
             a == SubSeq(t.list, 1, comma - 1)
             r == Passes(loop, remain, a \o rest, t.iters, existing)
  <2>1. CASE t.ret \/ comma = 1
    <3>1. Try(loop, t, rest, remain, existing) = t
      BY <2>1, Zenon DEF Try, Comma, Separator
    <3> QED BY <1>3, <3>1
  <2>2. CASE ~(t.ret \/ comma = 1)
    <3>1. Try(loop, t, rest, remain, existing)
            = [list |-> After(t.list, comma), ret |-> r.ret, iters |-> r.iters]
      BY <2>2, Zenon DEF Try, Comma, Separator
    <3>2. PICK c \in Cuts(l) : t.list = After(l, c)
      BY <1>3
    <3>3. /\ a \in Items(l)
          /\ \E d \in Cuts(l) : After(t.list, comma) = After(l, d)
      BY <1>1, <2>2, <3>2, NextItem
    <3>4. a \o rest \in Forms(p)
      BY <3>3 DEF Forms
    <3> HIDE DEF rest, a, comma
    <3>5. a \o rest \in Text /\ Plain(a \o rest) /\ Len(a \o rest) <= N
      <4>1. a \o rest \in Text /\ Len(a \o rest) < Len(p)
        BY <3>4, FormsAreShorter
      <4>2. Plain(a \o rest)
        BY <3>4, FormsArePlain
      <4> QED BY <4>1, <4>2, TextLen
    <3>6. t.iters \in 0..MAX /\ t.iters \in iters..MAX /\ MAX - t.iters <= left
      BY <1>3, MaxIsNumber
    <3>7. Sound(r, t.iters, Sem(N, a \o rest, n))
      BY <3>5, <3>6, PassesSound
    <3> HIDE DEF r
    <3>8. r.iters \in iters..MAX
      BY <3>6, <3>7, MaxIsNumber DEF Sound
    <3>9. r.ret => \E e \in Forms(p) : Sem(N, e, n)
      BY <3>4, <3>7 DEF Sound
    <3> DEFINE v == [list |-> After(t.list, comma), ret |-> r.ret, iters |-> r.iters]
    <3>10. v.list = After(t.list, comma) /\ v.ret = r.ret /\ v.iters = r.iters
      OBVIOUS
    <3> HIDE DEF v
    <3>11. T(v)
      BY <3>3, <3>8, <3>9, <3>10
    <3> QED BY <3>1, <3>11 DEF v
  <2> QED BY <2>1, <2>2
<1> DEFINE S == {k \in Nat : T(F[k])}
<1>4. 0 \in S
  <2>1. F[0].list = l /\ F[0].ret = FALSE /\ F[0].iters = iters
    BY <1>2
  <2>2. After(l, 0) = l /\ 0 \in Cuts(l)
    BY <1>1, RestOfAll, CutsAre
  <2>3. iters \in iters..MAX
    BY MaxIsNumber
  <2> HIDE DEF l
  <2>4. T(F[0])
    BY <2>1, <2>2, <2>3
  <2> QED BY <2>4
<1>5. ASSUME NEW k \in 0..(Len(l) - 1), k \in S PROVE k + 1 \in S
  <2>1. k \in Nat /\ k + 1 \in 1..Len(l) /\ (k + 1) - 1 = k
    BY <1>1
  <2>2. F[k + 1] = Try(loop, F[k], rest, remain, existing)
    BY <1>2, <2>1
  <2>3. T(F[k])
    BY <1>5
  <2> HIDE DEF T
  <2>4. T(F[k + 1])
    BY <1>3, <2>2, <2>3
  <2> QED BY <2>1, <2>4
<1> HIDE DEF S
<1>6. Len(l) \in S
  <2>1. 0..Len(l) \subseteq S
    BY <1>1, <1>4, <1>5, Induction
  <2> QED BY <1>1, <2>1
<1>7. T(F[Len(l)])
    BY <1>6 DEF S
<1> DEFINE A == Alternatives(loop, l, rest, remain, iters, existing)
<1>8. A.ret = F[Len(l)].ret /\ A.iters = F[Len(l)].iters
    BY <1>2
<1>9. A.ret => Sem(N, p, n)
  <2>1. A.ret => \E e \in Forms(p) : Sem(N, e, n)
    BY <1>7, <1>8
  <2> HIDE DEF A, n
  <2> QED BY <1>1, <2>1, SemBrace
<1>10. A.iters \in iters..MAX
    BY <1>7, <1>8
<1> HIDE DEF A
<1>11. Sound(A, iters, Sem(N, p, n))
    BY <1>9, <1>10 DEF Sound
<1> QED BY <1>11 DEF A

-----------------------------------------------------------------------------
(* One turn of the loop.                                                   *)
TokenAt(f) == LocateChars(f, Tokens)
TokenOf(f) == IF TokenAt(f) \in DOMAIN f THEN f[TokenAt(f)] ELSE "none"
Needed(f) == SubSeq(f, 1, TokenAt(f) - 1)
Beyond(f) == After(f, TokenAt(f))
Used(st) == Uses(st.name_remain, Needed(st.filter_remain), st.must)
Remain(st) == After(st.name_remain, Used(st))
EndBrace(f) == LocateChars(Beyond(f), {"}"})

Next(st, n, must) ==
    [filter_remain |-> Beyond(st.filter_remain), name_remain |-> n, must |-> must,
     last_token |-> TokenOf(st.filter_remain), iters |-> st.iters + 1]

Tries(loop, st, existing) ==
    Alternatives(loop, SubSeq(Beyond(st.filter_remain), 1, EndBrace(st.filter_remain) - 1),
                 After(Beyond(st.filter_remain), EndBrace(st.filter_remain)), Remain(st),
                 st.iters + 1, existing)

(* The cases of a turn, by the token it finds.                             *)
LEMMA TurnCases ==
    ASSUME NEW loop, NEW st, NEW existing
    PROVE  MatchTurn(loop, st, existing) =
             IF st.filter_remain = <<>> \/ st.iters >= VSFTP_MATCHITERS_MAX THEN Ends(st)
             ELSE IF Used(st) < 0 THEN Fails(st.iters + 1)
             ELSE CASE TokenOf(st.filter_remain) = "?" ->
                         IF Remain(st) = <<>> THEN Fails(st.iters + 1)
                         ELSE loop[Next(st, Tail(Remain(st)), TRUE)]
                    [] TokenOf(st.filter_remain) = "{"
                       /\ EndBrace(st.filter_remain) \in DOMAIN Beyond(st.filter_remain) ->
                         Tries(loop, st, existing)
                    [] TokenOf(st.filter_remain) = "{"
                       /\ EndBrace(st.filter_remain) \notin DOMAIN Beyond(st.filter_remain) ->
                         IF Remain(st) = <<>> \/ Remain(st)[1] # "{" THEN Fails(st.iters + 1)
                         ELSE loop[Next(st, Tail(Remain(st)), TRUE)]
                    [] OTHER -> loop[Next(st, Remain(st), FALSE)]
    BY DEF MatchTurn, Next, Tries, EndBrace, Remain, Used, Beyond, Needed, TokenOf, TokenAt

(* The pattern from its first token on.                                    *)
FromToken(f) == After(f, TokenAt(f) - 1)

(* The parts of a pattern around its first token.                          *)
LEMMA TokenParts ==
    ASSUME NEW f \in Text
    PROVE  /\ TokenAt(f) - 1 \in 0..Len(f)
           /\ Needed(f) \in Text /\ Len(Needed(f)) = TokenAt(f) - 1
           /\ \A i \in 1..(TokenAt(f) - 1) : Needed(f)[i] = f[i] /\ f[i] \notin Tokens
           /\ Beyond(f) \in Text /\ Len(Beyond(f)) <= Len(f)
           /\ FromToken(f) \in Text /\ Len(FromToken(f)) <= Len(f)
           /\ TokenOf(f) \in Tokens \cup {"none"}
           /\ TokenOf(f) = "none" => Beyond(f) = <<>> /\ FromToken(f) = <<>>
           /\ TokenOf(f) # "none" =>
                 /\ FromToken(f) # <<>> /\ FromToken(f)[1] = TokenOf(f)
                 /\ Tail(FromToken(f)) = Beyond(f)
<1> DEFINE at == TokenAt(f)
<1>1. /\ at \in 1..(Len(f) + 1)
      /\ \A i \in 1..(at - 1) : f[i] \notin Tokens
      /\ at # Len(f) + 1 => f[at] \in Tokens
    BY CharsLocated DEF TokenAt
<1>2. Len(f) \in Nat /\ DOMAIN f = 1..Len(f)
    BY TextLen
<1> HIDE DEF at
<1>3. at - 1 \in 0..Len(f)
    BY <1>1, <1>2
<1>4. /\ Needed(f) \in Text /\ Len(Needed(f)) = at - 1
      /\ \A i \in 1..(at - 1) : Needed(f)[i] = f[i]
    BY <1>3, Prefix DEF Needed, at
<1>5. FromToken(f) \in Text /\ Len(FromToken(f)) = Len(f) - (at - 1)
      /\ \A k \in 1..(Len(f) - (at - 1)) : FromToken(f)[k] = f[at - 1 + k]
    BY <1>3, Rest DEF FromToken, at
<1>6. CASE at = Len(f) + 1
  <2>1. at \notin DOMAIN f /\ at - 1 = Len(f)
    BY <1>2, <1>6
  <2>2. TokenOf(f) = "none"
    BY <2>1 DEF TokenOf, at
  <2>3. Beyond(f) = <<>>
    BY <1>6, RestOfAll DEF Beyond, at
  <2>4. FromToken(f) = <<>>
    BY <2>1, RestOfAll DEF FromToken, at
  <2>5. Len(<<>>) <= Len(f) /\ <<>> \in Text
    BY <1>2, NothingIsText
  <2> QED BY <1>1, <1>3, <1>4, <2>2, <2>3, <2>4, <2>5 DEF at
<1>7. CASE at # Len(f) + 1
  <2>1. at \in 1..Len(f) /\ at \in 0..Len(f)
    BY <1>1, <1>2, <1>7
  <2>2. TokenOf(f) = f[at] /\ f[at] \in Tokens
    BY <1>1, <1>2, <1>7, <2>1 DEF TokenOf, at
  <2>3. TokenOf(f) # "none"
    BY <2>2 DEF Tokens
  <2>4. Beyond(f) \in Text /\ Len(Beyond(f)) = Len(f) - at
    BY <2>1, Rest DEF Beyond, at
  <2>5. FromToken(f) # <<>> /\ FromToken(f)[1] = f[at]
    <3>1. 1 \in 1..(Len(f) - (at - 1)) /\ at - 1 + 1 = at /\ Len(f) - (at - 1) # 0
      BY <1>2, <2>1
    <3> QED BY <1>5, <3>1, TextLen
  <2>6. Tail(FromToken(f)) = Beyond(f)
    <3>1. Tail(FromToken(f)) = After(FromToken(f), 1)
      BY <1>5, <2>5, TailIsRest
    <3>2. 1 \in 0..(Len(f) - (at - 1)) /\ at - 1 + 1 = at
      BY <1>2, <2>1
    <3>3. After(After(f, at - 1), 1) = After(f, at - 1 + 1)
      BY <1>3, <3>2, RestOfRest
    <3>4. After(FromToken(f), 1) = Beyond(f)
      BY <3>2, <3>3 DEF FromToken, Beyond, at
    <3> QED BY <3>1, <3>4, Zenon
  <2>7. Len(Beyond(f)) <= Len(f) /\ Len(FromToken(f)) <= Len(f)
    BY <1>2, <1>3, <1>5, <2>1, <2>4
  <2>8. TokenOf(f) # "none" => FromToken(f) # <<>> /\ FromToken(f)[1] = TokenOf(f)
                               /\ Tail(FromToken(f)) = Beyond(f)
    BY <2>2, <2>5, <2>6, Zenon
  <2> QED BY <1>1, <1>3, <1>4, <1>5, <2>2, <2>3, <2>4, <2>7, <2>8, Zenon DEF at
<1> QED BY <1>6, <1>7

(* A turn that found its text: what follows it decides.                    *)
LEMMA FoundText ==
    ASSUME NEW N \in Nat, NEW st, StateOK(N, st), st.filter_remain # <<>>,
           Plain(st.name_remain), ~(Used(st) < 0)
    PROVE  /\ Used(st) \in 0..Len(st.name_remain)
           /\ Remain(st) \in Text /\ Plain(Remain(st)) /\ Stripped(Remain(st)) = Remain(st)
           /\ Sem(N, FromToken(st.filter_remain), Remain(st)) => Good(N, st)
<1> DEFINE f == st.filter_remain
           n == st.name_remain
           t == Needed(f)
           w == Used(st)
           k == TokenAt(f) - 1
<1>1. /\ f \in Text /\ n \in Text /\ st.must \in BOOLEAN /\ Len(f) <= N
      /\ st.must \/ st.last_token = "*"
    BY DEF StateOK, MatchStates
<1>2. /\ k \in 0..Len(f) /\ t \in Text /\ Len(t) = k
      /\ \A i \in 1..k : t[i] = f[i] /\ f[i] \notin Tokens
    BY <1>1, TokenParts
<1>3. EndsAt(n, t, w) /\ (st.must \/ t = <<>> => w = Len(t))
  <2>1. w # -1
    OBVIOUS
  <2> QED BY <1>1, <1>2, <2>1, UsesFinds DEF Used
<1>4. w \in 0..Len(n) /\ k <= w /\ Occurs(n, t, w - k)
    BY <1>2, <1>3 DEF EndsAt
<1>5. Remain(st) \in Text /\ Plain(Remain(st)) /\ Stripped(Remain(st)) = Remain(st)
    BY <1>1, <1>4, Rest, PlainRest, PlainStripped DEF Remain
<1>6. ASSUME Sem(N, FromToken(f), Remain(st)) PROVE Good(N, st)
  <2> DEFINE i == w - k
             s == After(n, i)
  <2>1. Len(n) \in Nat /\ i \in 0..Len(n) /\ k \in 0..(Len(n) - i) /\ k <= Len(n) - i
        /\ i + k = w
    BY <1>1, <1>2, <1>4, TextLen
  <2>2. /\ s \in Text /\ Len(s) = Len(n) - i
        /\ \A j \in 1..(Len(n) - i) : s[j] = n[i + j]
    BY <1>1, <2>1, Rest
  <2>3. After(s, k) = Remain(st)
    <3>1. After(After(n, i), k) = After(n, i + k)
      BY <1>1, <2>1, RestOfRest
    <3> QED BY <2>1, <3>1 DEF Remain
  <2>4. \A j \in 1..k : n[i + j] = t[j]
    BY <1>2, <1>4 DEF Occurs
  <2>5. ASSUME NEW j \in 1..k PROVE s[j] = f[j]
    <3>1. j \in 1..(Len(n) - i)
      BY <2>1
    <3> QED BY <1>2, <2>2, <2>4, <3>1
  <2>6. Sem(N, f, s)
    <3>1. k <= Len(s) /\ \A j \in 1..k : f[j] \notin Tokens
      BY <1>2, <2>1, <2>2
    <3>2. Sem(N, After(f, k), After(s, k))
      BY <1>6, <2>3 DEF FromToken
    <3> HIDE DEF s, k, f
    <3> QED BY <1>1, <1>2, <2>2, <2>5, <3>1, <3>2, LiteralPrefix
  <2>7. CASE st.last_token = "*"
    <3>1. \E x \in 0..Len(n) : Sem(N, f, After(n, x))
      BY <2>1, <2>6
    <3> QED BY <2>7, <3>1 DEF Good
  <2>8. CASE st.last_token # "*"
    <3>1. i = 0
      BY <1>1, <1>2, <1>3, <1>4, <2>8
    <3>2. s = n /\ Stripped(n) = n
      BY <1>1, <3>1, RestOfAll, PlainStripped
    <3>3. Sem(N, f, Stripped(n))
      BY <2>6, <3>2
    <3> QED BY <2>8, <3>3 DEF Good
  <2> QED BY <2>7, <2>8
<1> QED BY <1>4, <1>5, <1>6


(* The next turn is sound if those with fewer turns left are.              *)
LEMMA NextSound ==
    ASSUME NEW N \in Nat, NEW loop, NEW left \in Nat, LoopSound(N, loop, left - 1),
           NEW st, StateOK(N, st), st.iters < MAX, MAX - st.iters <= left,
           NEW n \in Text, Plain(n), NEW must \in BOOLEAN,
           must \/ TokenOf(st.filter_remain) \in {"*", "none"}
    PROVE  Sound(loop[Next(st, n, must)], st.iters,
                 IF TokenOf(st.filter_remain) = "*"
                 THEN \E i \in 0..Len(n) : Sem(N, Beyond(st.filter_remain), After(n, i))
                 ELSE Sem(N, Beyond(st.filter_remain), n))
<1> DEFINE f == st.filter_remain
           token == TokenOf(f)
           g == Beyond(f)
           next == Next(st, n, must)
           means == IF token = "*" THEN \E i \in 0..Len(n) : Sem(N, g, After(n, i))
                    ELSE Sem(N, g, n)
<1>1. f \in Text /\ Len(f) <= N /\ Plain(f) /\ st.iters \in 0..MAX /\ MAX \in Nat
    BY MaxIsNumber DEF StateOK, MatchStates, MAX
<1>2. /\ g \in Text /\ Len(g) <= N /\ Plain(g)
      /\ token \in Tokens \cup {"none"} /\ (token = "none" => g = <<>>)
  <2>1. /\ g \in Text /\ Len(g) <= Len(f) /\ token \in Tokens \cup {"none"}
        /\ token = "none" => g = <<>>
    BY <1>1, TokenParts
  <2>2. Len(g) \in Nat /\ Len(f) \in Nat
    BY <1>1, <2>1, TextLen
  <2>3. Plain(g)
    <3>1. CASE token = "none"
      BY <2>1, <3>1, NothingIsText DEF Plain
    <3>2. CASE token # "none"
      <4>1. FromToken(f) \in Text /\ FromToken(f) # <<>> /\ Tail(FromToken(f)) = g
            /\ TokenAt(f) - 1 \in 0..Len(f)
        BY <1>1, <3>2, TokenParts
      <4>2. Plain(FromToken(f))
        BY <1>1, <4>1, PlainRest DEF FromToken
      <4>3. g = After(FromToken(f), 1) /\ 1 \in 0..Len(FromToken(f))
        BY <4>1, TailIsRest, Zenon
      <4> QED BY <4>1, <4>2, <4>3, PlainRest
    <3> QED BY <3>1, <3>2
  <2> QED BY <1>1, <2>1, <2>2, <2>3
<1>3. /\ next.filter_remain = g /\ next.name_remain = n /\ next.must = must
      /\ next.last_token = token /\ next.iters = st.iters + 1
    BY DEF Next
<1>4. st.iters + 1 \in 0..MAX /\ MAX - (st.iters + 1) <= left - 1
    BY <1>1
<1>5. next \in MatchStates
    BY <1>2, <1>4 DEF Next, MatchStates, MAX
<1>6. Stripped(n) = n
    BY PlainStripped
<1> HIDE DEF next, g, token
<1>7. StateOK(N, next)
  <2>1. must \/ token = "*" \/ g = <<>>
    BY <1>2 DEF token
  <2> QED BY <1>2, <1>3, <1>5, <1>6, <2>1 DEF StateOK
<1>8. Sound(loop[next], next.iters, Good(N, next))
    BY <1>3, <1>4, <1>7 DEF LoopSound
<1>9. Good(N, next) <=> means
    BY <1>3, <1>6 DEF Good
<1> HIDE DEF means
<1>10. loop[next].iters \in st.iters..MAX /\ (loop[next].ret => means)
    BY <1>1, <1>3, <1>8, <1>9 DEF Sound
<1> QED BY <1>10 DEF Sound, means, next, g, token

(* A turn that fails lets nothing pass.                                    *)
LEMMA FailsSound ==
    ASSUME NEW iters \in Nat, iters < MAX, NEW means
    PROVE  Sound(Fails(iters + 1), iters, means)
<1>1. iters + 1 \in iters..MAX
    BY MaxIsNumber
<1> QED BY <1>1 DEF Sound, Fails

(* What the loop says when it has ended.                                   *)
LEMMA EndsSound ==
    ASSUME NEW N \in Nat, NEW st, StateOK(N, st), st.filter_remain = <<>> \/ st.iters >= MAX
    PROVE  Sound(Ends(st), st.iters, Good(N, st))
<1>1. /\ st.filter_remain \in Text /\ st.name_remain \in Text
      /\ st.iters \in 0..MAX /\ MAX \in Nat
    BY MaxIsNumber DEF StateOK, MatchStates, MAX
<1>2. Ends(st).iters = st.iters
    BY DEF Ends
<1>3. ASSUME Ends(st).ret PROVE Good(N, st)
  <2>1. (st.name_remain = <<>> \/ st.last_token = "*") /\ st.iters # MAX
    BY <1>3 DEF Ends, MAX
  <2>2. st.filter_remain = <<>>
    BY <1>1, <2>1
  <2>3. CASE st.last_token = "*"
    <3>1. Len(st.name_remain) \in 0..Len(st.name_remain)
      BY <1>1, TextLen
    <3>2. After(st.name_remain, Len(st.name_remain)) = <<>>
      BY <1>1, RestOfAll
    <3>3. Sem(N, <<>>, <<>>)
      BY SemNothing, NothingIsText
    <3> QED BY <2>2, <2>3, <3>1, <3>2, <3>3 DEF Good
  <2>4. CASE st.last_token # "*"
    <3>1. st.name_remain = <<>>
      BY <2>1, <2>4
    <3>2. Stripped(<<>>) = <<>>
      BY DEF Stripped
    <3>3. Sem(N, <<>>, <<>>)
      BY SemNothing, NothingIsText
    <3> QED BY <2>2, <2>4, <3>1, <3>2, <3>3 DEF Good
  <2> QED BY <2>3, <2>4
<1>4. Ends(st).iters \in st.iters..MAX
    BY <1>1, <1>2
<1> QED BY <1>3, <1>4 DEF Sound

(* A pattern that begins with a token.                                     *)
LEMMA BeginsWithToken ==
    ASSUME NEW f \in Text, f # <<>>, f[1] \in Tokens
    PROVE  /\ TokenAt(f) = 1 /\ TokenOf(f) = f[1]
           /\ Needed(f) = <<>> /\ FromToken(f) = f
<1>1. Len(f) \in Nat /\ Len(f) # 0 /\ DOMAIN f = 1..Len(f)
    BY TextLen
<1>2. /\ TokenAt(f) \in 1..(Len(f) + 1)
      /\ \A i \in 1..(TokenAt(f) - 1) : f[i] \notin Tokens
    BY CharsLocated DEF TokenAt
<1>3. TokenAt(f) = 1
  <2>1. CASE 1 \in 1..(TokenAt(f) - 1)
    BY <1>2, <2>1
  <2> QED BY <1>1, <1>2, <2>1
<1>4. 1 \in DOMAIN f /\ 1 - 1 = 0
    BY <1>1
<1>5. TokenOf(f) = f[1]
    BY <1>3, <1>4 DEF TokenOf
<1>6. FromToken(f) = f
    BY <1>3, <1>4, RestOfAll DEF FromToken
<1>7. Needed(f) = <<>>
  <2>1. Needed(f) \in Text /\ Len(Needed(f)) = 0
    BY <1>3, <1>4, TokenParts
  <2> QED BY <2>1, TextLen
<1> QED BY <1>3, <1>5, <1>6, <1>7

(* A brace in a turn is the brace of the pattern from its token on.        *)
LEMMA TriesBrace ==
    ASSUME NEW loop, NEW st, NEW existing, NEW g, Tail(g) = Beyond(st.filter_remain)
    PROVE  /\ EndBrace(st.filter_remain) = Brace(g)
           /\ Tries(loop, st, existing)
                = Alternatives(loop, Inside(g), Behind(g), Remain(st), st.iters + 1, existing)
<1>1. EndBrace(st.filter_remain) = Brace(g)
    BY Zenon DEF EndBrace, Brace
<1> QED BY <1>1, Zenon DEF Tries, Inside, Behind


(* One turn of the loop is sound if the turns after it are: what it lets   *)
(* pass has the meaning of what was left of the pattern.                   *)
LEMMA TurnSound ==
    ASSUME NEW N \in Nat, NEW loop, NEW left \in Nat, LoopSound(N, loop, left - 1),
           NEW st, StateOK(N, st), MAX - st.iters <= left, NEW existing
    PROVE  Sound(MatchTurn(loop, st, existing), st.iters, Good(N, st))
<1> DEFINE f == st.filter_remain
           rest == st.name_remain
           token == TokenOf(f)
           g == FromToken(f)
           r == Remain(st)
           turn == MatchTurn(loop, st, existing)
<1>1. /\ f \in Text /\ Len(f) <= N /\ Plain(f) /\ rest \in Text
      /\ st.iters \in 0..MAX /\ MAX \in Nat /\ Len(f) \in Nat
  <2>1. f \in Text
    BY DEF StateOK, MatchStates
  <2> QED BY <2>1, TextLen, MaxIsNumber DEF StateOK, MatchStates, MAX
<1>2. CASE f = <<>> \/ st.iters >= MAX
  <2>1. turn = Ends(st)
    BY <1>2, TurnCases DEF MAX
  <2> QED BY <1>2, <2>1, EndsSound
<1>3. CASE f # <<>> /\ ~(st.iters >= MAX) /\ Used(st) < 0
  <2>1. turn = Fails(st.iters + 1)
    BY <1>3, TurnCases DEF MAX
  <2>2. st.iters \in Nat /\ st.iters < MAX
    BY <1>1, <1>3
  <2> QED BY <2>1, <2>2, FailsSound
<1>4. CASE f # <<>> /\ ~(st.iters >= MAX) /\ ~(Used(st) < 0)
  <2>0. st.iters \in Nat /\ st.iters < MAX /\ st.iters + 1 \in 0..MAX
        /\ MAX - (st.iters + 1) <= left - 1 /\ left - 1 \in Nat
    BY <1>1, <1>4
  <2>1. turn = CASE token = "?" ->
                      IF r = <<>> THEN Fails(st.iters + 1)
                      ELSE loop[Next(st, Tail(r), TRUE)]
                 [] token = "{" /\ EndBrace(f) \in DOMAIN Beyond(f) -> Tries(loop, st, existing)
                 [] token = "{" /\ EndBrace(f) \notin DOMAIN Beyond(f) ->
                      IF r = <<>> \/ r[1] # "{" THEN Fails(st.iters + 1)
                      ELSE loop[Next(st, Tail(r), TRUE)]
                 [] OTHER -> loop[Next(st, r, FALSE)]
    BY <1>4, TurnCases, Zenon DEF MAX
  <2>2. /\ g \in Text /\ Len(g) <= N /\ Plain(g)
        /\ token \in Tokens \cup {"none"}
        /\ token = "none" => Beyond(f) = <<>> /\ g = <<>>
        /\ token # "none" => g # <<>> /\ g[1] = token /\ Tail(g) = Beyond(f)
    <3>1. /\ g \in Text /\ Len(g) <= Len(f) /\ TokenAt(f) - 1 \in 0..Len(f)
          /\ token \in Tokens \cup {"none"}
          /\ token = "none" => Beyond(f) = <<>> /\ g = <<>>
          /\ token # "none" => g # <<>> /\ g[1] = token /\ Tail(g) = Beyond(f)
      BY <1>1, TokenParts
    <3>2. Len(g) <= N
      BY <1>1, <3>1, TextLen
    <3>3. Plain(g)
      BY <1>1, <3>1, PlainRest DEF FromToken
    <3> QED BY <3>1, <3>2, <3>3, Zenon
  <2> HIDE DEF turn, token, g, r
  <2>3. CASE ~Plain(rest)
    <3>1. /\ st.must /\ st.last_token # "*" /\ f[1] = "{"
          /\ rest # <<>> /\ rest[1] = "/"
      <4>1. st.must /\ st.last_token # "*" /\ f[1] = "{"
        BY <1>4, <2>3 DEF StateOK
      <4>2. rest # <<>> /\ rest[1] = "/"
        BY <2>3 DEF StateOK, Stripped
      <4> QED BY <4>1, <4>2
    <3>2. f[1] \in Tokens
      BY <3>1 DEF Tokens
    <3>3. token = "{" /\ Needed(f) = <<>> /\ g = f
      BY <1>1, <1>4, <3>1, <3>2, BeginsWithToken DEF token, g
    <3>4. r = rest
      <4>1. Used(st) = 0
        BY <3>3 DEF Used, Uses
      <4> QED BY <1>1, <4>1, RestOfAll DEF r, Remain
    <3>5. CASE EndBrace(f) \in DOMAIN Beyond(f)
      <4>1. turn = Tries(loop, st, existing)
        BY <2>1, <3>3, <3>5
      <4>2. Tail(g) = Beyond(f)
        BY <2>2, <3>3
      <4>3. /\ EndBrace(f) = Brace(g)
            /\ turn = Alternatives(loop, Inside(g), Behind(g), r, st.iters + 1, existing)
        BY <4>1, <4>2, TriesBrace, Zenon DEF r
      <4>4. Braced(g) /\ g # <<>>
        <5>1. g[1] = "{" /\ g # <<>>
          BY <2>2, <3>3
        <5>2. Brace(g) \in DOMAIN Tail(g)
          BY <3>5, <4>2, <4>3, Zenon
        <5> QED BY <5>1, <5>2 DEF Braced
      <4>5. Plain(Stripped(r))
        BY <3>4 DEF StateOK
      <4>6. r \in Text
        BY <1>1, <3>4
      <4>7. Sound(turn, st.iters + 1, Sem(N, g, Stripped(r)))
        BY <2>0, <2>2, <4>3, <4>4, <4>5, <4>6, AlternativesSound
      <4>8. Sem(N, g, Stripped(r)) <=> Good(N, st)
        BY <3>1, <3>3, <3>4 DEF Good
      <4> QED BY <2>0, <4>7, <4>8 DEF Sound, turn
    <3>6. CASE EndBrace(f) \notin DOMAIN Beyond(f)
      <4>1. r[1] # "{"
        BY <3>1, <3>4
      <4>2. turn = Fails(st.iters + 1)
        BY <2>1, <3>3, <3>6, <4>1
      <4> QED BY <2>0, <4>2, FailsSound DEF turn
    <3> QED BY <3>5, <3>6
  <2>4. CASE Plain(rest)
    <3>1. /\ r \in Text /\ Plain(r) /\ Stripped(r) = r
          /\ Sem(N, g, r) => Good(N, st)
      BY <1>4, <2>4, FoundText DEF r, g
    <3>2. r # <<>> => Tail(r) \in Text /\ Plain(Tail(r))
      <4>1. r # <<>> => Tail(r) = After(r, 1) /\ 1 \in 0..Len(r)
        BY <3>1, TailIsRest
      <4>2. r # <<>> => After(r, 1) \in Text /\ Plain(After(r, 1))
        BY <3>1, <4>1, Rest, PlainRest
      <4> QED BY <4>1, <4>2, Zenon
    <3> SUFFICES Sound(turn, st.iters, Sem(N, g, r))
      BY <3>1 DEF Sound, turn
    <3>3. CASE token = "?"
      <4>0. g # <<>> /\ g[1] = "?" /\ Tail(g) = Beyond(f)
        BY <2>2, <3>3
      <4>1. CASE r = <<>>
        <5>1. turn = Fails(st.iters + 1)
          BY <2>1, <3>3, <4>1
        <5> QED BY <2>0, <5>1, FailsSound
      <4>2. CASE r # <<>>
        <5>1. turn = loop[Next(st, Tail(r), TRUE)]
          BY <2>1, <3>3, <4>2, Zenon
        <5>2. Sound(turn, st.iters, Sem(N, Beyond(f), Tail(r)))
          <6>1. TokenOf(f) # "*"
            BY <3>3 DEF token
          <6> DEFINE q == Tail(r)
          <6>2. q \in Text /\ Plain(q)
            BY <3>2, <4>2
          <6> HIDE DEF q
          <6>3. Sound(loop[Next(st, q, TRUE)], st.iters,
                      IF TokenOf(f) = "*" THEN \E i \in 0..Len(q) : Sem(N, Beyond(f), After(q, i))
                      ELSE Sem(N, Beyond(f), q))
            BY <2>0, <6>2, NextSound
          <6>4. Sound(loop[Next(st, q, TRUE)], st.iters, Sem(N, Beyond(f), q))
            BY <6>1, <6>3, Zenon
          <6> QED BY <5>1, <6>4, Zenon DEF q
        <5>3. Sem(N, g, r) <=> Sem(N, Tail(g), Tail(r))
          BY <2>2, <3>1, <4>0, <4>2, SemAny, Zenon
        <5>4. Sem(N, g, r) <=> Sem(N, Beyond(f), Tail(r))
          BY <4>0, <5>3, Zenon
        <5> QED BY <5>2, <5>4, Zenon DEF Sound
      <4> QED BY <4>1, <4>2
    <3>4. CASE token = "{" /\ EndBrace(f) \in DOMAIN Beyond(f)
      <4>1. turn = Tries(loop, st, existing)
        BY <2>1, <3>4
      <4>2. Tail(g) = Beyond(f) /\ g # <<>> /\ g[1] = "{"
        BY <2>2, <3>4
      <4>3. /\ EndBrace(f) = Brace(g)
            /\ turn = Alternatives(loop, Inside(g), Behind(g), r, st.iters + 1, existing)
        BY <4>1, <4>2, TriesBrace, Zenon DEF r
      <4>4. Braced(g)
        <5>1. Brace(g) \in DOMAIN Tail(g)
          BY <3>4, <4>2, <4>3, Zenon
        <5> QED BY <4>2, <5>1 DEF Braced
      <4>5. Sound(turn, st.iters + 1, Sem(N, g, Stripped(r)))
        BY <2>0, <2>2, <3>1, <4>2, <4>3, <4>4, AlternativesSound
      <4> QED BY <2>0, <3>1, <4>5 DEF Sound
    <3>5. CASE token = "{" /\ EndBrace(f) \notin DOMAIN Beyond(f)
      <4>0. g # <<>> /\ g[1] = "{" /\ Tail(g) = Beyond(f)
        BY <2>2, <3>5
      <4>1. CASE r = <<>> \/ r[1] # "{"
        <5>1. turn = Fails(st.iters + 1)
          BY <2>1, <3>5, <4>1
        <5> QED BY <2>0, <5>1, FailsSound
      <4>2. CASE r # <<>> /\ r[1] = "{"
        <5>1. turn = loop[Next(st, Tail(r), TRUE)]
          BY <2>1, <3>5, <4>2, Zenon
        <5>2. Sound(turn, st.iters, Sem(N, Beyond(f), Tail(r)))
          <6>1. TokenOf(f) # "*"
            BY <3>5 DEF token
          <6> DEFINE q == Tail(r)
          <6>2. q \in Text /\ Plain(q)
            BY <3>2, <4>2
          <6> HIDE DEF q
          <6>3. Sound(loop[Next(st, q, TRUE)], st.iters,
                      IF TokenOf(f) = "*" THEN \E i \in 0..Len(q) : Sem(N, Beyond(f), After(q, i))
                      ELSE Sem(N, Beyond(f), q))
            BY <2>0, <6>2, NextSound
          <6>4. Sound(loop[Next(st, q, TRUE)], st.iters, Sem(N, Beyond(f), q))
            BY <6>1, <6>3, Zenon
          <6> QED BY <5>1, <6>4, Zenon DEF q
        <5>3. ~Braced(g)
          <6>1. Brace(g) = EndBrace(f)
            BY <4>0, Zenon DEF Brace, EndBrace
          <6> QED BY <3>5, <4>0, <6>1, Zenon DEF Braced
        <5>4. Sem(N, g, r) <=> Sem(N, Tail(g), Tail(r))
          <6>1. g[1] # "*" /\ g[1] # "?" /\ r[1] = g[1]
            BY <4>0, <4>2
          <6> QED BY <2>2, <3>1, <4>0, <4>2, <5>3, <6>1, SemItself, Zenon
        <5>5. Sem(N, g, r) <=> Sem(N, Beyond(f), Tail(r))
          BY <4>0, <5>4, Zenon
        <5> QED BY <5>2, <5>5, Zenon DEF Sound
      <4> QED BY <4>1, <4>2
    <3>6. CASE token = "*"
      <4>0. g # <<>> /\ g[1] = "*" /\ Tail(g) = Beyond(f)
        BY <2>2, <3>6
      <4>1. turn = loop[Next(st, r, FALSE)]
        BY <2>1, <3>6
      <4>2. Sound(turn, st.iters, \E i \in 0..Len(r) : Sem(N, Beyond(f), After(r, i)))
        <5>1. TokenOf(f) = "*" /\ TokenOf(f) \in {"*", "none"}
          BY <3>6 DEF token
        <5>2. Sound(loop[Next(st, r, FALSE)], st.iters,
                    IF TokenOf(f) = "*" THEN \E i \in 0..Len(r) : Sem(N, Beyond(f), After(r, i))
                    ELSE Sem(N, Beyond(f), r))
          BY <2>0, <3>1, <5>1, NextSound
        <5> QED BY <4>1, <5>1, <5>2, Zenon
      <4>3. Sem(N, g, r) <=> \E i \in 0..Len(r) : Sem(N, Tail(g), After(r, i))
        BY <2>2, <3>1, <4>0, SemStar, Zenon
      <4>4. Sem(N, g, r) <=> \E i \in 0..Len(r) : Sem(N, Beyond(f), After(r, i))
        BY <4>0, <4>3, Zenon
      <4> QED BY <4>2, <4>4, Zenon DEF Sound
    <3>7. CASE token = "none"
      <4>0. g = <<>> /\ Beyond(f) = <<>>
        BY <2>2, <3>7
      <4>1. turn = loop[Next(st, r, FALSE)]
        BY <2>1, <3>7
      <4>2. Sound(turn, st.iters, Sem(N, Beyond(f), r))
        <5>1. TokenOf(f) # "*" /\ TokenOf(f) \in {"*", "none"}
          BY <3>7 DEF token
        <5>2. Sound(loop[Next(st, r, FALSE)], st.iters,
                    IF TokenOf(f) = "*" THEN \E i \in 0..Len(r) : Sem(N, Beyond(f), After(r, i))
                    ELSE Sem(N, Beyond(f), r))
          BY <2>0, <3>1, <5>1, NextSound
        <5> QED BY <4>1, <5>1, <5>2, Zenon
      <4> QED BY <4>0, <4>2
    <3> QED BY <2>2, <3>3, <3>4, <3>5, <3>6, <3>7 DEF Tokens
  <2> QED BY <2>3, <2>4 DEF turn
<1> QED BY <1>2, <1>3, <1>4

(* So the loop is sound, however many turns it has.                        *)
LEMMA LoopIsSound ==
    ASSUME NEW N \in Nat, NEW existing
    PROVE  LoopSound(N, MatchLoop(existing), MAX)
<1>1. PICK F : /\ MatchLoop(existing) = F[MAX]
               /\ F[0] = [st \in MatchStates |-> Ends(st)]
               /\ \A n \in 1..MAX : F[n] = AllTurns(F[n - 1], existing)
    BY LoopEquation DEF MAX
<1> DEFINE S == {n \in Nat : LoopSound(N, F[n], n)}
<1>2. 0 \in S
  <2> SUFFICES ASSUME NEW st, StateOK(N, st), MAX - st.iters <= 0
               PROVE  Sound(F[0][st], st.iters, Good(N, st))
    BY DEF LoopSound
  <2>1. st \in MatchStates /\ st.iters \in 0..MAX /\ MAX \in Nat
    BY MaxIsNumber DEF StateOK, MatchStates, MAX
  <2>2. F[0][st] = Ends(st)
    BY <1>1, <2>1
  <2>3. st.iters >= MAX
    BY <2>1
  <2> QED BY <2>2, <2>3, EndsSound
<1>3. ASSUME NEW n \in 0..(MAX - 1), n \in S PROVE n + 1 \in S
  <2>1. LoopSound(N, F[n], n) /\ n \in Nat /\ n + 1 \in 1..MAX /\ (n + 1) - 1 = n
    BY <1>3, MaxIsNumber
  <2>2. LoopSound(N, F[n + 1], n + 1)
    <3> SUFFICES ASSUME NEW st, StateOK(N, st), MAX - st.iters <= n + 1
                 PROVE  Sound(F[n + 1][st], st.iters, Good(N, st))
      BY DEF LoopSound
    <3>1. F[n + 1] = AllTurns(F[n], existing)
      BY <1>1, <2>1
    <3>2. st \in MatchStates
      BY DEF StateOK
    <3>3. F[n + 1][st] = MatchTurn(F[n], st, existing)
      BY <3>1, <3>2 DEF AllTurns
    <3>4. n + 1 \in Nat /\ LoopSound(N, F[n], (n + 1) - 1)
      BY <2>1
    <3>5. Sound(MatchTurn(F[n], st, existing), st.iters, Good(N, st))
      BY <3>4, TurnSound
    <3> QED BY <3>3, <3>5
  <2> QED BY <2>1, <2>2
<1> HIDE DEF S
<1>4. MAX \in S
  <2>1. 0..MAX \subseteq S
    BY <1>2, <1>3, MaxIsNumber, Induction
  <2> QED BY <2>1, MaxIsNumber
<1> QED BY <1>1, <1>4 DEF S

(* The names and the patterns of the configuration.                        *)
LEMMA NamesAreText ==
    ASSUME NEW t \in Patterns \cup Names
    PROVE  t \in Text /\ Plain(t) /\ Stripped(t) = t
<1>1. t \in Seq(Characters) /\ "/" \notin Characters
    BY FilterConstants
<1>2. t \in Text /\ \A i \in 1..Len(t) : t[i] \in Characters
  <2>1. \A i \in 1..Len(t) : t[i] \in Characters
    BY <1>1, ElementOfSeq
  <2>2. Characters \subseteq Signs
    BY DEF Signs
  <2>3. t \in Seq(Signs)
    <3>1. Len(t) \in Nat /\ t = [i \in 1..Len(t) |-> t[i]]
      BY <1>1, LenProperties
    <3> QED BY <2>1, <2>2, <3>1, SeqDef
  <2> QED BY <2>1, <2>3, TextIsSeq
<1>3. Plain(t)
    BY <1>1, <1>2 DEF Plain
<1> QED BY <1>2, <1>3, PlainStripped

(* What the matcher lets pass has the meaning of its pattern.              *)
LEMMA MatcherSound ==
    ASSUME NEW p \in Patterns, NEW n \in Names, NEW existing,
           filename_passes_filter(n, p, 0, existing).ret
    PROVE  Means(p, n)
<1>1. p \in Text /\ Plain(p) /\ n \in Text /\ Plain(n) /\ Stripped(n) = n
    BY NamesAreText
<1>2. Len(p) \in Nat
    BY <1>1, TextLen
<1>3. LoopSound(Len(p), MatchLoop(existing), MAX)
    BY <1>2, LoopIsSound
<1>4. 0 \in 0..MAX /\ MAX - 0 <= MAX
    BY MaxIsNumber
<1>5. Sound(Passes(MatchLoop(existing), n, p, 0, existing), 0, Sem(Len(p), p, Stripped(n)))
    BY <1>1, <1>2, <1>3, <1>4, PassesSound
<1>6. Sem(Len(p), p, n)
    BY <1>1, <1>5 DEF Sound, filename_passes_filter
<1> QED BY <1>6 DEF Sem, Means


-----------------------------------------------------------------------------
(* What the matcher does not miss: existing names and simple patterns.     *)
Borderless(t) ==
    \A i \in 1..(Len(t) - 1) : SubSeq(t, 1, i) # SubSeq(t, Len(t) - i + 1, Len(t))

(* A text that does not overlap itself occurs at places that do not.       *)
LEMMA NoOverlap ==
    ASSUME NEW s \in Text, NEW t \in Text, Borderless(t),
           NEW x, NEW y, Occurs(s, t, x), Occurs(s, t, y), x < y
    PROVE  x + Len(t) <= y
<1>1. /\ x \in Nat /\ y \in Nat /\ Len(s) \in Nat /\ Len(t) \in Nat
      /\ \A k \in 1..Len(t) : s[x + k] = t[k]
      /\ \A k \in 1..Len(t) : s[y + k] = t[k]
    BY TextLen DEF Occurs
<1>2. SUFFICES ASSUME ~(x + Len(t) <= y) PROVE FALSE
    OBVIOUS
<1>0. x \in Nat /\ y \in Nat /\ Len(t) \in Nat /\ x < y /\ ~(x + Len(t) <= y)
    BY <1>1, <1>2
<1> DEFINE b == x + Len(t) - y
<1>4. /\ b \in 1..(Len(t) - 1) /\ Len(t) - b = y - x /\ Len(t) - b \in Nat
      /\ x + (Len(t) - b) = y
    BY <1>0
<1> HIDE DEF b
<1> DEFINE front == SubSeq(t, 1, b)
           back == SubSeq(t, Len(t) - b + 1, Len(t))
<1>5. /\ front \in Text /\ Len(front) = b
      /\ \A i \in 1..b : front[i] = t[i]
  <2>1. b \in 0..Len(t)
    BY <1>1, <1>4
  <2> QED BY <2>1, Prefix
<1>6. /\ back \in Text /\ Len(back) = b
      /\ \A k \in 1..b : back[k] = t[(Len(t) - b) + k]
  <2> DEFINE i == Len(t) - b
  <2>1. i \in Nat /\ Len(t) \in 0..Len(t) /\ i <= Len(t) /\ Len(t) - i = b
    BY <1>1, <1>4
  <2> HIDE DEF i
  <2>2. /\ SubSeq(t, i + 1, Len(t)) \in Text
        /\ Len(SubSeq(t, i + 1, Len(t))) = Len(t) - i
        /\ \A k \in 1..(Len(t) - i) : SubSeq(t, i + 1, Len(t))[k] = t[i + k]
    BY <2>1, Part
  <2> QED BY <2>1, <2>2 DEF i
<1> HIDE DEF front, back
<1>7. ASSUME NEW k \in 1..b PROVE front[k] = back[k]
  <2>0. k \in 1..b /\ b \in 1..(Len(t) - 1)
    BY <1>4
  <2>1. /\ k \in 1..Len(t) /\ (Len(t) - b) + k \in 1..Len(t)
        /\ x + ((Len(t) - b) + k) = y + k
    BY <1>0, <1>4, <2>0
  <2> QED BY <1>1, <1>5, <1>6, <2>1
<1>8. front = back
    BY <1>5, <1>6, <1>7, TextEqual
<1>9. front # back
    BY <1>4 DEF Borderless, front, back
<1> QED BY <1>8, <1>9

(* The scan gets to the end of the name if the needed text is there.       *)
LEMMA ScanReachesEnd ==
    ASSUME NEW s \in Text, NEW t \in Text, t # <<>>, Borderless(t),
           NEW end \in Nat, Occurs(s, t, end)
    PROVE  end + Len(t) = Len(s) => Uses(s, t, FALSE) = Len(s)
<1> DEFINE i == LocateStr(s, t)
           first == i + Len(t)
<1>0. Len(s) \in Nat
    BY TextLen
<1>2. i \in Nat /\ Occurs(s, t, i)
    BY StrLocated
<1>5. Uses(s, t, FALSE) = ScanForward(s, t, first)
    BY <1>2 DEF Uses
<1> HIDE DEF first, i
<1>6. PICK F : /\ ScanForward(s, t, first) = F[Len(s)]
               /\ F[0] = first
               /\ \A k \in 1..Len(s) : F[k] = NextUse(s, t, F[k - 1])
    BY <1>0, ScanEquation
<1> SUFFICES ASSUME end + Len(t) = Len(s) PROVE Uses(s, t, FALSE) = Len(s)
    OBVIOUS
<1>1. Len(s) \in Nat /\ Len(t) \in Nat /\ Len(t) # 0
    BY TextLen
<1>3. first \in 0..Len(s) /\ Len(t) <= first /\ first - Len(t) = i
    BY <1>1, <1>2 DEF Occurs, first
<1>4. EndsAt(s, t, first)
    BY <1>2, <1>3 DEF EndsAt
<1> DEFINE S == {k \in Nat : EndsAt(s, t, F[k]) /\ (F[k] = Len(s) \/ F[k] >= k)}
<1>7. 0 \in S
  <2>1. F[0] >= 0 /\ EndsAt(s, t, F[0])
    BY <1>3, <1>4, <1>6
  <2> QED BY <2>1
<1>8. ASSUME NEW k \in 0..(Len(s) - 1), k \in S PROVE k + 1 \in S
  <2>1. k \in Nat /\ k + 1 \in 1..Len(s) /\ k + 1 \in Nat /\ (k + 1) - 1 = k
    BY <1>1
  <2>2. F[k + 1] = NextUse(s, t, F[k])
    BY <1>6, <2>1
  <2> DEFINE x == F[k]
             n == NextUse(s, t, x)
  <2>3. /\ EndsAt(s, t, x) /\ (x = Len(s) \/ x >= k)
        /\ x \in 0..Len(s) /\ Len(t) <= x /\ Occurs(s, t, x - Len(t))
    BY <1>8 DEF EndsAt
  <2> HIDE DEF x
  <2>4. \/ n = x /\ \A y : y >= x => ~Occurs(s, t, y)
        \/ EndsAt(s, t, n) /\ n - Len(t) \in Nat /\ n - Len(t) >= x
    BY <2>3, NextUseFinds
  <2>5. EndsAt(s, t, n) => n \in 0..Len(s)
    BY DEF EndsAt
  <2> HIDE DEF n
  <2>6. CASE x = Len(s)
    <3>1. ~(EndsAt(s, t, n) /\ n - Len(t) \in Nat /\ n - Len(t) >= x)
      BY <1>1, <2>5, <2>6
    <3>2. n = Len(s) /\ EndsAt(s, t, n)
      BY <2>3, <2>4, <2>6, <3>1
    <3> QED BY <2>1, <2>2, <3>2 DEF n, x
  <2>7. CASE x # Len(s)
    <3>0. /\ x \in Nat /\ x < Len(s) /\ x >= k /\ Len(s) \in Nat /\ Len(t) \in Nat
          /\ Len(t) >= 1 /\ end \in Nat /\ end = Len(s) - Len(t)
      BY <1>1, <2>3, <2>7
    <3>1. x - Len(t) < end
      BY <3>0
    <3>2. x - Len(t) + Len(t) <= end
      BY <2>3, <3>1, NoOverlap
    <3>3. end >= x
      BY <3>0, <3>2
    <3>4. EndsAt(s, t, n) /\ n - Len(t) \in Nat /\ n - Len(t) >= x
      BY <2>4, <3>3
    <3>5. n >= k + 1
      <4>1. n \in Nat /\ n - Len(t) >= x
        BY <2>5, <3>0, <3>4
      <4> QED BY <2>1, <3>0, <4>1
    <3> QED BY <2>1, <2>2, <3>4, <3>5 DEF n, x
  <2> QED BY <2>6, <2>7
<1> HIDE DEF S
<1>9. Len(s) \in S
  <2>1. 0..Len(s) \subseteq S
    BY <1>1, <1>7, <1>8, Induction
  <2> QED BY <1>1, <2>1
<1> DEFINE last == F[Len(s)]
<1>10. last \in 0..Len(s) /\ (last = Len(s) \/ last >= Len(s))
    BY <1>9 DEF S, EndsAt
<1> HIDE DEF last
<1>11. last = Len(s)
    BY <1>1, <1>10
<1> QED BY <1>5, <1>6, <1>11, Zenon DEF last

(* What a pattern without tokens means.                                    *)
LEMMA LiteralMeans ==
    ASSUME NEW N \in Nat, NEW p \in Text, NEW s \in Text, Len(p) <= N,
           \A i \in 1..Len(p) : p[i] \notin Tokens, Sem(N, p, s)
    PROVE  Len(s) = Len(p) /\ \A i \in 1..Len(p) : s[i] = p[i]
<1> DEFINE k == Len(p)
<1>1. k \in Nat /\ Len(s) \in Nat /\ k \in 0..Len(p)
    BY TextLen
<1>2. After(p, k) = <<>>
    BY RestOfAll
<1> HIDE DEF k
<1>3. k <= Len(s) /\ (\A i \in 1..k : s[i] = p[i]) /\ Sem(N, After(p, k), After(s, k))
    BY <1>1, LiteralPrefix DEF k
<1>4. k \in 0..Len(s)
    BY <1>1, <1>3
<1>5. After(s, k) \in Text /\ Len(After(s, k)) = Len(s) - k
    BY <1>4, Rest
<1>6. After(s, k) = <<>>
    BY <1>2, <1>3, <1>5, SemNothing
<1>7. Len(s) - k = 0
    BY <1>5, <1>6, NothingIsText
<1>8. Len(s) = k
    BY <1>1, <1>7
<1> QED BY <1>3, <1>8 DEF k

(* The parts of a simple pattern.                                          *)
LEMMA SimpleParts ==
    ASSUME NEW p \in Text, Simple(p)
    PROVE  /\ p # <<>> /\ TokenAt(p) \in 1..Len(p) /\ TokenOf(p) = "*"
           /\ p[1] # "{"
           /\ \A i \in 1..Len(Beyond(p)) : Beyond(p)[i] \notin Tokens
           /\ Borderless(Beyond(p))
<1>1. /\ TokenAt(p) \in DOMAIN p /\ p[TokenAt(p)] = "*"
      /\ \A i \in DOMAIN Beyond(p) : Beyond(p)[i] \notin Tokens
      /\ Borderless(Beyond(p))
    BY Zenon DEF Simple, TokenAt, Beyond, Borderless
<1>2. Len(p) \in Nat /\ DOMAIN p = 1..Len(p) /\ (p = <<>> <=> Len(p) = 0)
      /\ Beyond(p) \in Text
    BY TextLen, TokenParts
<1>3. DOMAIN Beyond(p) = 1..Len(Beyond(p))
    BY <1>2, TextLen
<1>4. TokenOf(p) = "*"
    BY <1>1 DEF TokenOf
<1>5. p # <<>> /\ TokenAt(p) \in 1..Len(p)
    BY <1>1, <1>2
<1>6. p[1] # "{"
  <2>1. CASE p[1] = "{"
    <3>1. TokenOf(p) = p[1]
      BY <1>5, <2>1, BeginsWithToken DEF Tokens
    <3> QED BY <1>4, <2>1, <3>1
  <2> QED BY <2>1
<1> QED BY <1>1, <1>3, <1>4, <1>5, <1>6

(* What a simple pattern means: its beginning and its end.                 *)
LEMMA SimpleMeans ==
    ASSUME NEW N \in Nat, NEW p \in Text, NEW s \in Text, Len(p) <= N, Simple(p),
           Sem(N, p, s), NEW k, k = TokenAt(p) - 1, NEW r, r = After(s, k)
    PROVE  /\ k \in 0..Len(s) /\ Occurs(s, Needed(p), 0)
           /\ r \in Text
           /\ \E i \in Nat : i + Len(Beyond(p)) = Len(r) /\ Occurs(r, Beyond(p), i)
<1> DEFINE e == Beyond(p)
           g == FromToken(p)
<1>1. /\ k \in 0..Len(p) /\ k \in Nat /\ Len(Needed(p)) = k
      /\ \A i \in 1..k : Needed(p)[i] = p[i] /\ p[i] \notin Tokens
      /\ e \in Text /\ Len(e) <= N /\ Len(e) \in Nat
      /\ g \in Text /\ Len(g) <= N /\ g # <<>> /\ g[1] = "*" /\ Tail(g) = e
  <2>1. TokenOf(p) = "*"
    BY SimpleParts
  <2>2. "*" # "none"
    OBVIOUS
  <2>3. Len(p) \in Nat
    BY TextLen
  <2>4. /\ k \in 0..Len(p) /\ Len(Needed(p)) = k
        /\ \A i \in 1..k : Needed(p)[i] = p[i] /\ p[i] \notin Tokens
        /\ e \in Text /\ Len(e) <= Len(p) /\ g \in Text /\ Len(g) <= Len(p)
        /\ g # <<>> /\ g[1] = "*" /\ Tail(g) = e
    BY <2>1, <2>2, TokenParts
  <2>5. Len(e) \in Nat /\ Len(g) \in Nat
    BY <2>4, TextLen
  <2>6. k \in Nat /\ Len(e) <= N /\ Len(g) <= N
    BY <2>3, <2>4, <2>5
  <2> QED BY <2>4, <2>5, <2>6, Zenon
<1>2. /\ k <= Len(s) /\ \A i \in 1..k : s[i] = p[i]
      /\ Sem(N, g, r)
  <2>1. /\ k <= Len(s) /\ \A i \in 1..k : s[i] = p[i]
        /\ Sem(N, After(p, k), After(s, k))
    BY <1>1, LiteralPrefix
  <2> QED BY <2>1, Zenon DEF FromToken
<1>3. Len(s) \in Nat /\ k \in 0..Len(s)
    BY <1>1, <1>2, TextLen
<1>4. r \in Text /\ Len(r) \in Nat
    BY <1>3, Rest, TextLen
<1>5. Occurs(s, Needed(p), 0)
  <2>1. 0 + k <= Len(s) /\ \A i \in 1..k : 0 + i = i
    BY <1>1, <1>2
  <2> QED BY <1>1, <1>2, <2>1 DEF Occurs
<1> HIDE DEF g, e
<1>6. PICK i \in 0..Len(r) : Sem(N, e, After(r, i))
  <2>0. g \in Text /\ Len(g) <= N /\ g # <<>> /\ g[1] = "*"
    BY <1>1, Zenon
  <2>1. Sem(N, g, r) <=> \E i \in 0..Len(r) : Sem(N, Tail(g), After(r, i))
    BY <1>4, <2>0, SemStar
  <2> QED BY <1>1, <1>2, <2>1, Zenon
<1>7. /\ After(r, i) \in Text /\ Len(After(r, i)) = Len(r) - i
      /\ \A j \in 1..(Len(r) - i) : After(r, i)[j] = r[i + j]
    BY <1>4, Rest
<1>8. \A j \in 1..Len(e) : e[j] \notin Tokens
    BY SimpleParts DEF e
<1>9. Len(After(r, i)) = Len(e) /\ \A j \in 1..Len(e) : After(r, i)[j] = e[j]
    BY <1>1, <1>6, <1>7, <1>8, LiteralMeans
<1>10. i \in Nat /\ i + Len(e) = Len(r) /\ i + Len(e) <= Len(r)
    BY <1>1, <1>4, <1>7, <1>9
<1>11. Occurs(r, e, i)
  <2>1. \A j \in 1..Len(e) : j \in 1..(Len(r) - i)
    BY <1>7, <1>9
  <2> QED BY <1>7, <1>9, <1>10, <2>1 DEF Occurs
<1> QED BY <1>3, <1>4, <1>5, <1>10, <1>11 DEF e


(* A text without tokens is needed as a whole.                             *)
LEMMA NoToken ==
    ASSUME NEW f \in Text, \A i \in 1..Len(f) : f[i] \notin Tokens
    PROVE  TokenOf(f) = "none" /\ Needed(f) = f /\ Beyond(f) = <<>>
<1>1. Len(f) \in Nat /\ DOMAIN f = 1..Len(f)
    BY TextLen
<1>2. /\ TokenAt(f) \in 1..(Len(f) + 1)
      /\ TokenAt(f) # Len(f) + 1 => f[TokenAt(f)] \in Tokens
    BY CharsLocated DEF TokenAt
<1>3. TokenAt(f) = Len(f) + 1
  <2>1. TokenAt(f) # Len(f) + 1 => TokenAt(f) \in 1..Len(f)
    BY <1>1, <1>2
  <2> QED BY <1>2, <2>1
<1>4. TokenAt(f) \notin DOMAIN f /\ TokenAt(f) - 1 = Len(f)
    BY <1>1, <1>3
<1>5. TokenOf(f) = "none"
    BY <1>4 DEF TokenOf
<1>6. Beyond(f) = <<>>
    BY <1>3, RestOfAll DEF Beyond
<1>7. Needed(f) = f
  <2>1. /\ Needed(f) \in Text /\ Len(Needed(f)) = Len(f)
        /\ \A i \in 1..Len(f) : Needed(f)[i] = f[i]
    BY <1>4, TokenParts
  <2> QED BY <2>1, TextEqual
<1> QED BY <1>5, <1>6, <1>7

(* A plain text does not begin with a slash.                               *)
LEMMA FirstCharacter ==
    ASSUME NEW s \in Text, Plain(s), s # <<>>
    PROVE  s[1] # "/"
<1>1. Len(s) \in Nat /\ Len(s) # 0
    BY TextLen
<1>2. 1 \in 1..Len(s)
    BY <1>1
<1> QED BY <1>2 DEF Plain

(* What the matcher does first: it looks at the name behind the path.      *)
LEMMA ExistingName ==
    ASSUME NEW p \in Text, p # <<>>, Plain(p), p[1] # "{",
           NEW n \in Text, n # <<>>, Plain(n), NEW existing, n \in existing
    PROVE  filename_passes_filter(n, p, 0, existing)
             = MatchLoop(existing)[[filter_remain |-> p, name_remain |-> n, must |-> TRUE,
                                    last_token |-> "none", iters |-> 0]]
<1> DEFINE path == <<"/">> \o n
<1>1. path # <<>> /\ Basename(path) = n
    BY PathParts
<1>2. p[1] # "/" /\ n[1] # "/"
    BY FirstCharacter
<1>3. realpath(n, existing) = path
    BY <1>2, Zenon DEF realpath
<1> HIDE DEF path
<1>4. Subject(path, p) = n
    BY <1>1, <1>2 DEF Subject
<1>5. realpath(n, existing) # NULL_PATH
    BY <1>1, <1>3 DEF NULL_PATH
<1> QED BY <1>3, <1>4, <1>5, Zenon DEF filename_passes_filter, Passes

(* An existing name with the meaning of a simple pattern passes.           *)
LEMMA MatcherComplete ==
    ASSUME NEW p \in Patterns, NEW n \in Names, NEW existing, n \in existing, n # <<>>,
           Simple(p), Means(p, n)
    PROVE  filename_passes_filter(n, p, 0, existing).ret
<1> DEFINE e == Beyond(p)
           k == TokenAt(p) - 1
           r == After(n, k)
           one == [filter_remain |-> p, name_remain |-> n, must |-> TRUE,
                   last_token |-> "none", iters |-> 0]
           two == Next(one, r, FALSE)
           three == Next(two, <<>>, FALSE)
<1>1. p \in Text /\ Plain(p) /\ n \in Text /\ Plain(n) /\ Len(p) \in Nat
    BY NamesAreText, TextLen
<1>2. /\ p # <<>> /\ TokenOf(p) = "*" /\ p[1] # "{"
      /\ \A i \in 1..Len(e) : e[i] \notin Tokens
      /\ Borderless(e)
    BY <1>1, SimpleParts
<1>3. e \in Text /\ Len(Needed(p)) = k /\ Needed(p) \in Text /\ k \in 0..Len(p)
    BY <1>1, TokenParts
<1>4. /\ k \in 0..Len(n) /\ Occurs(n, Needed(p), 0) /\ r \in Text
      /\ \E i \in Nat : i + Len(e) = Len(r) /\ Occurs(r, e, i)
  <2>1. Sem(Len(p), p, n)
    BY DEF Means, Sem
  <2>2. Len(p) <= Len(p)
    BY <1>1
  <2> QED BY <1>1, <2>1, <2>2, SimpleMeans
<1>5. /\ one.filter_remain = p /\ one.name_remain = n /\ one.must = TRUE /\ one.iters = 0
      /\ one \in MatchStates
  <2>1. 0 \in 0..VSFTP_MATCHITERS_MAX
    BY FilterConstants
  <2> QED BY <1>1, <2>1 DEF MatchStates
<1>6. PICK F : /\ MatchLoop(existing) = F[MAX]
               /\ \A m \in 1..MAX : F[m] = AllTurns(F[m - 1], existing)
    BY LoopEquation DEF MAX
<1>7. ASSUME NEW m \in 1..MAX, NEW st \in MatchStates
      PROVE  F[m][st] = MatchTurn(F[m - 1], st, existing)
    BY <1>6 DEF AllTurns
<1>8. /\ MAX \in 1..MAX /\ MAX - 1 \in 1..MAX /\ MAX - 2 \in 1..MAX
      /\ MAX - 1 - 1 = MAX - 2 /\ ~(0 >= MAX) /\ ~(1 >= MAX)
      /\ 1 # MAX /\ 2 # MAX /\ 1 \in 0..MAX /\ 2 \in 0..MAX
    BY MaxIsNumber
<1>9. filename_passes_filter(n, p, 0, existing) = F[MAX][one]
  <2>1. filename_passes_filter(n, p, 0, existing) = MatchLoop(existing)[one]
    BY <1>1, <1>2, ExistingName
  <2> QED BY <1>6, <2>1, Zenon
<1> HIDE DEF one, e, k, r
<1>10. Used(one) = k
  <2> DEFINE i == LocateStr(n, Needed(p))
  <2>1. i = 0
    <3>1. i \in Nat /\ i <= 0
      BY <1>1, <1>3, <1>4, StrLocated
    <3> QED BY <3>1
  <2> HIDE DEF i
  <2>2. Uses(n, Needed(p), TRUE) = IF Needed(p) = <<>> THEN 0 ELSE Len(Needed(p))
    <3>1. Uses(n, Needed(p), TRUE) = IF Needed(p) = <<>> THEN 0
                                     ELSE IF i < 0 \/ i > 0 THEN -1 ELSE Len(Needed(p))
      BY Zenon DEF Uses, i
    <3>2. ~(i < 0 \/ i > 0)
      BY <2>1
    <3> QED BY <3>1, <3>2, Zenon
  <2>3. Needed(p) = <<>> => k = 0
    BY <1>3, TextLen
  <2>4. Uses(n, Needed(p), TRUE) = k
    BY <1>3, <2>2, <2>3
  <2> QED BY <1>5, <2>4, Zenon DEF Used
<1>11. Remain(one) = r
    BY <1>5, <1>10, Zenon DEF Remain, r
<1>12. F[MAX][one] = F[MAX - 1][two]
  <2>1. F[MAX][one] = MatchTurn(F[MAX - 1], one, existing)
    BY <1>5, <1>7, <1>8
  <2>2. one.filter_remain # <<>> /\ ~(one.iters >= VSFTP_MATCHITERS_MAX) /\ ~(Used(one) < 0)
    <3>1. ~(k < 0)
      BY <1>4
    <3>2. ~(Used(one) < 0)
      BY <1>10, <3>1
    <3>3. one.filter_remain # <<>> /\ ~(one.iters >= VSFTP_MATCHITERS_MAX)
      BY <1>2, <1>5, <1>8 DEF MAX
    <3> QED BY <3>2, <3>3
  <2>3. TokenOf(one.filter_remain) # "?" /\ TokenOf(one.filter_remain) # "{"
    BY <1>2, <1>5
  <2>4. MatchTurn(F[MAX - 1], one, existing) = F[MAX - 1][Next(one, Remain(one), FALSE)]
    BY <2>2, <2>3, TurnCases
  <2> QED BY <1>11, <2>1, <2>4
<1>14. /\ two = [filter_remain |-> e, name_remain |-> r, must |-> FALSE,
                   last_token |-> "*", iters |-> 1]
       /\ two \in MatchStates
  <2>1. two = [filter_remain |-> Beyond(one.filter_remain), name_remain |-> r,
               must |-> FALSE, last_token |-> TokenOf(one.filter_remain),
               iters |-> one.iters + 1]
    BY Zenon DEF Next
  <2>2. /\ Beyond(one.filter_remain) = e /\ TokenOf(one.filter_remain) = "*"
        /\ one.iters + 1 = 1
    <3>1. Beyond(one.filter_remain) = e /\ TokenOf(one.filter_remain) = "*"
      BY <1>2, <1>5, Zenon DEF e
    <3>2. one.iters + 1 = 1
      <4>1. one.iters = 0
        BY <1>5
      <4> HIDE DEF one
      <4> QED BY <4>1
    <3> QED BY <3>1, <3>2
  <2>3. two = [filter_remain |-> e, name_remain |-> r, must |-> FALSE,
               last_token |-> "*", iters |-> 1]
    BY <2>1, <2>2, Zenon
  <2>4. 1 \in 0..VSFTP_MATCHITERS_MAX
    BY <1>8 DEF MAX
  <2> HIDE DEF two
  <2>5. two \in MatchStates
    BY <1>3, <1>4, <2>3, <2>4 DEF MatchStates, Tokens, e
  <2> QED BY <2>3, <2>5
<1>13. /\ two.filter_remain = e /\ two.name_remain = r /\ two.must = FALSE
       /\ two.last_token = "*" /\ two.iters = 1
  <2> HIDE DEF two
  <2> QED BY <1>14
<1>15. F[MAX - 1][two] = MatchTurn(F[MAX - 2], two, existing)
    BY <1>7, <1>8, <1>14
<1> HIDE DEF two
<1>16. CASE e = <<>>
  <2>1. MatchTurn(F[MAX - 2], two, existing) = Ends(two)
    BY <1>13, <1>16, TurnCases
  <2>2. Ends(two).ret
    BY <1>8, <1>13 DEF Ends, MAX
  <2> QED BY <1>9, <1>12, <1>15, <2>1, <2>2
<1>17. CASE e # <<>>
  <2>1. TokenOf(e) = "none" /\ Needed(e) = e /\ Beyond(e) = <<>>
    BY <1>2, <1>3, NoToken
  <2>2. Used(two) = Len(r)
    <3>1. PICK i \in Nat : i + Len(e) = Len(r) /\ Occurs(r, e, i)
      BY <1>4
    <3>2. Uses(r, e, FALSE) = Len(r)
      BY <1>2, <1>3, <1>4, <1>17, <3>1, ScanReachesEnd
    <3> QED BY <1>13, <2>1, <3>2, Zenon DEF Used
  <2>3. Remain(two) = <<>>
    BY <1>4, <1>13, <2>2, RestOfAll DEF Remain
  <2>4. MatchTurn(F[MAX - 2], two, existing) = F[MAX - 2][three]
    <3>1. two.filter_remain # <<>> /\ ~(two.iters >= VSFTP_MATCHITERS_MAX) /\ ~(Used(two) < 0)
      <4>1. Len(r) \in Nat
        BY <1>4, TextLen
      <4>2. ~(Used(two) < 0)
        BY <2>2, <4>1
      <4> QED BY <1>8, <1>13, <1>17, <4>2 DEF MAX
    <3>2. TokenOf(two.filter_remain) # "?" /\ TokenOf(two.filter_remain) # "{"
      BY <1>13, <2>1
    <3>3. MatchTurn(F[MAX - 2], two, existing) = F[MAX - 2][Next(two, Remain(two), FALSE)]
      BY <3>1, <3>2, TurnCases
    <3> QED BY <2>3, <3>3
  <2>5. /\ three = [filter_remain |-> <<>>, name_remain |-> <<>>, must |-> FALSE,
                    last_token |-> "none", iters |-> 2]
        /\ three \in MatchStates
    <3>0. three = [filter_remain |-> Beyond(two.filter_remain), name_remain |-> <<>>,
                   must |-> FALSE, last_token |-> TokenOf(two.filter_remain),
                   iters |-> two.iters + 1]
      BY Zenon DEF Next
    <3>a. /\ Beyond(two.filter_remain) = <<>> /\ TokenOf(two.filter_remain) = "none"
          /\ two.iters + 1 = 2
      BY <1>13, <2>1
    <3>1. three = [filter_remain |-> <<>>, name_remain |-> <<>>, must |-> FALSE,
                   last_token |-> "none", iters |-> 2]
      BY <3>0, <3>a, Zenon
    <3>2. 2 \in 0..VSFTP_MATCHITERS_MAX
      BY <1>8 DEF MAX
    <3> HIDE DEF three
    <3> QED BY <3>1, <3>2, NothingIsText DEF MatchStates
  <2> HIDE DEF three
  <2>6. F[MAX - 2][three] = MatchTurn(F[MAX - 2 - 1], three, existing)
    BY <1>7, <1>8, <2>5
  <2>7. MatchTurn(F[MAX - 2 - 1], three, existing) = Ends(three)
    BY <2>5, TurnCases
  <2>8. Ends(three).ret
    BY <1>8, <2>5 DEF Ends, MAX
  <2> QED BY <1>9, <1>12, <1>15, <2>4, <2>6, <2>7, <2>8
<1> QED BY <1>16, <1>17

(* The answer is the matcher's about the name asked about.                 *)
FilterInv ==
    /\ access_str \in Patterns
    /\ \/ name = <<>>
       \/ /\ name \in Names
          /\ answer.passes = filename_passes_filter(name, access_str, 0, tree).ret

(* An answer of the matcher is right about the name.                       *)
LEMMA AnswerAdmits ==
    ASSUME FilterInv
    PROVE  FilterAdmits
<1> SUFFICES ASSUME name # <<>>
             PROVE  /\ answer.passes => Means(access_str, name)
                    /\ Simple(access_str) /\ name \in tree /\ Means(access_str, name)
                         => answer.passes
    BY DEF FilterAdmits
<1>1. /\ access_str \in Patterns /\ name \in Names
      /\ answer.passes = filename_passes_filter(name, access_str, 0, tree).ret
    BY DEF FilterInv
<1>2. answer.passes => Means(access_str, name)
    BY <1>1, MatcherSound
<1>3. Simple(access_str) /\ name \in tree /\ Means(access_str, name) => answer.passes
    BY <1>1, MatcherComplete
<1> QED BY <1>2, <1>3

(* For all patterns, names and file systems: what the matcher of ls.c lets *)
(* pass has the meaning of the pattern, and of the existing names it       *)
(* misses none that a simple pattern means.                                *)
THEOREM FilterAdmitsTheorem == FilterSpec => []FilterAdmits
<1>1. FilterInit => FilterInv
    BY DEF FilterInit, FilterInv
<1>2. FilterInv /\ [FilterNext]_filterVars => FilterInv'
  <2> SUFFICES ASSUME FilterInv, [FilterNext]_filterVars
               PROVE  FilterInv'
    OBVIOUS
  <2>1. CASE FilterNext
    <3>1. PICK n \in Names : access_check_file(n)
      BY <2>1 DEF FilterNext
    <3>2. /\ access_str' = access_str /\ tree' = tree /\ name' = n
          /\ answer'.passes = filename_passes_filter(n, access_str, 0, tree).ret
      BY <3>1 DEF access_check_file
    <3> QED BY <3>2 DEF FilterInv
  <2>2. CASE UNCHANGED filterVars
    BY <2>2 DEF FilterInv, filterVars
  <2> QED BY <2>1, <2>2
<1>3. FilterInv => FilterAdmits
    BY AnswerAdmits
<1> QED BY <1>1, <1>2, <1>3, PTL DEF FilterSpec

=============================================================================
