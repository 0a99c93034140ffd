---------------------------- MODULE AbstractList ----------------------------
(***************************************************************************)
(* What list.h promises: a sequence of items that grows at its end or      *)
(* after a given position, position 0 being the head, and shrinks by the   *)
(* first occurrence of an item.                                            *)
(***************************************************************************)
EXTENDS Integers, SequencesExt

CONSTANT Items

VARIABLE seq

Init == seq = <<>>

InsertAfter(i, item) == seq' = InsertAt(seq, i + 1, item)

Add(item) == InsertAfter(Len(seq), item)

RemoveItem(item) ==
  \E i \in 1 .. Len(seq) :
    /\ seq[i] = item
    /\ \A j \in 1 .. (i - 1) : seq[j] # item
    /\ seq' = RemoveAt(seq, i)

Clear == seq' = <<>>

Next ==
  \/ \E i \in 0 .. Len(seq), item \in Items : InsertAfter(i, item)
  \/ \E item \in Items : RemoveItem(item)
  \/ Clear

Spec == Init /\ [][Next]_seq
=============================================================================
