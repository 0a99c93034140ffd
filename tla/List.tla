-------------------------------- MODULE List --------------------------------
(***************************************************************************)
(* A list of list.c in use: any sequence of its operations, on nodes that  *)
(* are allocated, freed and reused, with items that may occur twice.       *)
(***************************************************************************)
EXTENDS ListOps

VARIABLE list

Init == list = list_new

Add ==
  \E item \in Items, new \in Nodes \ list.live : list' = list_add(list, item, new)

\* list_insert behind a node of the list.
InsertAfter ==
  \E node \in list.live, item \in Items, new \in Nodes \ list.live :
    list' = list_insert(list, node, item, new)

RemoveItem == \E item \in Items : list' = list_remove(list, item)

Clear == list' = list_clear(list)

\* The operations the kernel's lists see: list_insert gets no NULL but from
\* list_add and the timer list while it is empty.
Next ==
  \/ Add
  \/ InsertAfter
  \/ RemoveItem
  \/ Clear

Spec == Init /\ [][Next]_list
-----------------------------------------------------------------------------
\* Links, items and the count of the list are of their types: links lead to
\* nodes or to NULL, and size does not wrap (list.h:8-25).
TypeOK == list \in Lists

(***************************************************************************)
(* Links lead to nodes or to NULL, and the descriptor and the nodes agree  *)
(* after any sequence of operations: an iteration visits each allocated    *)
(* node once, so none is leaked and none is visited after it was freed;    *)
(* size counts them, and tail is the last of them, which list_add relies   *)
(* on (list.c:33).                                                         *)
(***************************************************************************)
WellFormed ==
  LET at == Visited(list)
  IN  /\ TypeOK
      /\ \A i, j \in DOMAIN at : at[i] = at[j] => i = j
      /\ {at[i] : i \in DOMAIN at} = list.live
      /\ list.size = Len(at)
      /\ list.tail = IF at = <<>> THEN NULL ELSE at[Len(at)]
      /\ at # <<>> => list.next[list.tail] = NULL

(***************************************************************************)
(* What the list holds changes as list.h says, item by item and in order:  *)
(* the pointer operations implement the sequence operations, list_add the  *)
(* one at the end.                                                         *)
(***************************************************************************)
Abs == INSTANCE AbstractList WITH seq <- Contents(list)

Sequence ==
  /\ Abs!Spec
  /\ [][Add => \E item \in Items : Abs!Add(item)]_list
=============================================================================
