------------------------------- MODULE ListOps -------------------------------
(***************************************************************************)
(* The singly linked list of list.c, as operators on a record that holds   *)
(* the descriptor (head, tail, size) and the memory of the nodes.          *)
(***************************************************************************)
EXTENDS Integers, SequencesExt

CONSTANTS
  Nodes,  \* the addresses kheap_alloc may return for a node
  Items,  \* what a node's data may point to
  NULL

ASSUME NodesAssumption == IsFiniteSet(Nodes) /\ NULL \notin Nodes \union Items

Lists == [head : Nodes \union {NULL}, tail : Nodes \union {NULL}, size : Nat,
          next : [Nodes -> Nodes \union {NULL}],
          data : [Nodes -> Items \union {NULL}], live : SUBSET Nodes]

list_new ==
  [head |-> NULL, tail |-> NULL, size |-> 0, next |-> [n \in Nodes |-> NULL],
   data |-> [n \in Nodes |-> NULL], live |-> {}]

(***************************************************************************)
(* The nodes an iteration from list_begin along next visits, cut off after *)
(* as many as there are.                                                   *)
(***************************************************************************)
Visited(l) ==
  LET node[k \in 1 .. Cardinality(Nodes)] ==
        IF k = 1 THEN l.head
        ELSE IF node[k - 1] = NULL THEN NULL ELSE l.next[node[k - 1]]
  IN  RestrictValues(node, LAMBDA n : n # NULL)

\* The items of the list, in the order of an iteration.
Contents(l) == [i \in DOMAIN Visited(l) |-> l.data[Visited(l)[i]]]

\* Mutant of list_insert: the tail is not moved.
mut_insert_tail(l, node, item, new) ==
  [l EXCEPT !.live = @ \union {new}, !.size = @ + 1,
            !.data[new] = item,
            !.head = IF node = NULL THEN new ELSE @,
            !.tail = IF @ = NULL THEN new ELSE @,
            !.next = IF node = NULL THEN [@ EXCEPT ![new] = NULL]
                     ELSE [@ EXCEPT ![new] = l.next[node], ![node] = new]]

(***************************************************************************)
(* list_insert, new being the zeroed node that kheap_alloc returns.        *)
(***************************************************************************)
list_insert(l, node, item, new) ==
  LET made == [l EXCEPT !.live = @ \union {new}, !.size = @ + 1,
                        !.data[new] = item, !.next[new] = NULL]
  IN  IF node = NULL
      THEN [made EXCEPT !.head = new,
                        !.tail = IF @ = NULL THEN new ELSE @]
      ELSE IF l.tail = node
           THEN [made EXCEPT !.tail = new, !.next[node] = new]
           ELSE [made EXCEPT !.next = [@ EXCEPT ![new] = l.next[node],
                                                ![node] = new]]

list_add(l, item, new) == list_insert(l, l.tail, item, new)

(***************************************************************************)
(* list_remove: the first node that holds item is unlinked and freed; a    *)
(* warning is all that happens if none does.                               *)
(***************************************************************************)
list_remove(l, item) ==
  LET at   == Visited(l)
      Hit(j) == l.data[at[j]] = item
      i    == CHOOSE j \in DOMAIN at : Hit(j) /\ \A k \in 1 .. (j - 1) : ~Hit(k)
      node == at[i]
      head == IF i = 1 THEN l.next[node] ELSE l.head
  IN  IF ~\E j \in DOMAIN at : Hit(j) THEN l
      ELSE [l EXCEPT !.head = head,
                     !.next = IF i = 1 THEN @
                              ELSE [@ EXCEPT ![at[i - 1]] = l.next[node]],
                     !.tail = IF @ # node THEN @
                              ELSE IF i = 1 THEN head ELSE at[i - 1],
                     !.live = @ \ {node},
                     !.size = @ - 1]

\* Mutant of list_clear: the loop runs once too few.
mut_clear_short(l) ==
  LET rest[k \in 0 .. l.size] ==
        IF k <= 1 THEN l ELSE list_remove(rest[k - 1], rest[k - 1].data[rest[k - 1].head])
  IN  rest[l.size]

\* list_clear: the head's item is removed as long as size is above zero.
list_clear(l) ==
  LET rest[k \in 0 .. l.size] ==
        IF k = 0 THEN l ELSE list_remove(rest[k - 1], rest[k - 1].data[rest[k - 1].head])
  IN  rest[l.size]
=============================================================================
