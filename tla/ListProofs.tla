----------------------------- MODULE ListProofs -----------------------------
(***************************************************************************)
(* The lists of list.c stay well formed and implement the sequences of     *)
(* AbstractList, for any nodes and items.                                  *)
(***************************************************************************)
EXTENDS List, ListLemmas

\* The inductive invariant: an iteration over the list runs along a chain.
Inv == list \in Lists /\ Chain(list, Visited(list))

(***************************************************************************)
(* Every operation keeps the chain: the new nodes come from outside it     *)
(* (kheap_alloc), and list_remove and list_clear unlink what they free.    *)
(***************************************************************************)
LEMMA InvHolds == Spec => []Inv
<1>1. Init => Inv
  <2> SUFFICES ASSUME Init
               PROVE  Inv
    OBVIOUS
  <2>1. list \in Lists
    BY DEF Init, list_new, Lists
  <2>2. Chain(list, <<>>)
    BY DEF Init, list_new, Chain
  <2>. QED BY <2>1, <2>2, VisitedChain, SMTT(20) DEF Inv
<1>2. Inv /\ [Next]_list => Inv'
  <2> SUFFICES ASSUME Inv, [Next]_list
               PROVE  Inv'
    OBVIOUS
  <2> DEFINE at == Visited(list)
  <2>1. list \in Lists /\ Chain(list, at)
    BY DEF Inv
  <2>2. SUFFICES \E to : list' \in Lists /\ Chain(list', to)
    BY VisitedChain, SMTT(20) DEF Inv
  <2> HIDE DEF at
  <2>3. CASE Add
    <3>1. PICK item \in Items, new \in Nodes \ list.live :
            list' = list_add(list, item, new)
      BY <2>3 DEF Add
    <3>. QED BY <2>1, <3>1, AddChain, Zenon
  <2>4. CASE InsertAfter
    <3>1. PICK node \in list.live, item \in Items, new \in Nodes \ list.live :
            list' = list_insert(list, node, item, new)
      BY <2>4 DEF InsertAfter
    <3>2. PICK k \in 1 .. Len(at) : at[k] = node
      BY <2>1, SMTT(20) DEF Chain
    <3>. QED BY <2>1, <3>1, <3>2, InsertChain, Zenon
  <2>5. CASE RemoveItem
    <3>1. PICK item \in Items : list' = list_remove(list, item)
      BY <2>5, SMTT(20) DEF RemoveItem
    <3>. QED BY <2>1, <3>1, RemoveCases
  <2>6. CASE Clear
    BY <2>1, <2>6, ClearChain, SMTT(20) DEF Clear
  <2>7. CASE UNCHANGED list
    BY <2>1, <2>7, SMTT(20)
  <2>. QED BY <2>3, <2>4, <2>5, <2>6, <2>7, SMTT(20) DEF Next
<1>. QED BY <1>1, <1>2, PTL DEF Spec

(***************************************************************************)
(* A list is well formed after any sequence of operations: an iteration    *)
(* visits every allocated node once, size counts them and tail is the last *)
(* of them (list.c:31-107).                                                *)
(***************************************************************************)
THEOREM ListsAreWellFormed == Spec => []WellFormed
<1>1. Inv => WellFormed
  <2> SUFFICES ASSUME Inv
               PROVE  WellFormed
    OBVIOUS
  <2> DEFINE at == Visited(list)
  <2>1. list \in Lists /\ Chain(list, at)
    BY DEF Inv
  <2>2. DOMAIN at = 1 .. Len(at) /\ Len(at) \in Nat /\ at \in Seq(Nodes)
    BY <2>1, LenProperties, SMTT(20) DEF Chain
  <2> HIDE DEF at
  <2>3. at = <<>> <=> Len(at) = 0
    BY <2>2, SMTT(20)
  <2>4. {at[i] : i \in DOMAIN at} = list.live
    <3>1. /\ \A i \in 1 .. Len(at) : at[i] \in list.live
          /\ \A n \in list.live : \E i \in 1 .. Len(at) : at[i] = n
      BY <2>1, SMTT(20) DEF Chain
    <3>. QED BY <2>2, <3>1, ZenonT(60)
  <2>5. at # <<>> => list.next[list.tail] = NULL
    <3>1. at # <<>> => Len(at) \in 1 .. Len(at) /\ list.tail = at[Len(at)]
      <4>1. at # <<>> => Len(at) # 0 /\ Len(at) \in 1 .. Len(at)
        BY <2>2, <2>3, SMTT(20)
      <4>. QED BY <2>1, <4>1, SMTT(20) DEF Chain
    <3>2. \A i \in 1 .. Len(at) :
            list.next[at[i]] = IF i = Len(at) THEN NULL ELSE at[i + 1]
      BY <2>1, SMTT(20) DEF Chain
    <3>. QED BY <3>1, <3>2, SMTT(20)
  <2>6. /\ \A i, j \in DOMAIN at : at[i] = at[j] => i = j
        /\ list.size = Len(at)
        /\ list.tail = IF at = <<>> THEN NULL ELSE at[Len(at)]
    BY <2>1, <2>2, <2>3, ZenonT(60) DEF Chain
  <2>. QED BY <2>1, <2>4, <2>5, <2>6, ZenonT(60) DEF WellFormed, TypeOK, at
<1>. QED BY <1>1, InvHolds, PTL
-----------------------------------------------------------------------------
(***************************************************************************)
(* Add is list_add's operation on the sequence: the item goes to the end.  *)
(***************************************************************************)
LEMMA AddAppends == Inv /\ Add => \E item \in Items : Abs!Add(item)
<1> SUFFICES ASSUME Inv, Add
             PROVE  \E item \in Items : Abs!Add(item)
  OBVIOUS
<1> DEFINE at == Visited(list)
<1>1. list \in Lists /\ Chain(list, at)
  BY DEF Inv
<1> HIDE DEF at
<1>2. PICK item \in Items, new \in Nodes \ list.live :
        list' = list_add(list, item, new)
  BY DEF Add
<1>3. Contents(list') = InsertAt(Contents(list), Len(Contents(list)) + 1, item)
  BY <1>1, <1>2, AddContents, SMTT(20)
<1>4. Abs!Add(item)
  BY <1>3, SMTT(20) DEF Abs!Add, Abs!InsertAfter, Abs!InsertAt, InsertAt
<1>. QED BY <1>2, <1>4, ZenonT(60)

\* Every step on the list is a step on the sequence or leaves it alone.
LEMMA StepRefines == Inv /\ [Next]_list => [Abs!Next]_(Contents(list))
<1> SUFFICES ASSUME Inv, [Next]_list
             PROVE  Abs!Next \/ Contents(list)' = Contents(list)
  OBVIOUS
<1> DEFINE at == Visited(list)
<1>1. list \in Lists /\ Chain(list, at)
  BY DEF Inv
<1> HIDE DEF at
<1>2. /\ Len(at) \in Nat /\ Len(Contents(list)) = Len(at)
      /\ \A i \in 1 .. Len(at) : Contents(list)[i] = list.data[at[i]]
  BY <1>1, LenProperties, ContentsSeq, SMTT(20) DEF Chain
<1>3. CASE Add
  <2>1. PICK item \in Items : Abs!Add(item)
    BY <1>3, AddAppends, SMTT(20)
  <2>2. Len(Contents(list)) \in 0 .. Len(Contents(list))
    BY <1>2, SMTT(20)
  <2>. QED BY <2>1, <2>2, ZenonT(60) DEF Abs!Add, Abs!Next
<1>4. CASE InsertAfter
  <2>1. PICK node \in list.live, item \in Items, new \in Nodes \ list.live :
          list' = list_insert(list, node, item, new)
    BY <1>4 DEF InsertAfter
  <2>2. PICK k \in 1 .. Len(at) : at[k] = node
    BY <1>1 DEF Chain
  <2>3. Contents(list') = InsertAt(Contents(list), k + 1, item)
    BY <1>1, <2>1, <2>2, InsertContents, SMTT(20)
  <2>4. k \in 0 .. Len(Contents(list))
    BY <1>2, SMTT(20)
  <2>5. Abs!InsertAfter(k, item)
    BY <2>3, SMTT(20) DEF Abs!InsertAfter, Abs!InsertAt, InsertAt
  <2>. QED BY <2>1, <2>4, <2>5, ZenonT(60) DEF Abs!Next
<1>5. CASE RemoveItem
  <2>1. PICK item \in Items : list' = list_remove(list, item)
    BY <1>5 DEF RemoveItem
  <2>2. CASE list' = list
    BY <2>2, SMTT(20)
  <2>3. CASE list' # list
    <3>1. PICK i \in 1 .. Len(at) :
            /\ list.data[at[i]] = item
            /\ \A j \in 1 .. (i - 1) : list.data[at[j]] # item
            /\ list' \in Lists /\ Chain(list', RemoveAt(at, i))
            /\ list'.data = list.data
      BY <1>1, <2>1, <2>3, RemoveCases, SMTT(20)
    <3>2. Contents(list') = RemoveAt(Contents(list), i)
      BY <1>1, <3>1, ContentsRemove, SMTT(20)
    <3>3. /\ i \in 1 .. Len(Contents(list)) /\ Contents(list)[i] = item
          /\ \A j \in 1 .. (i - 1) : Contents(list)[j] # item
      <4>1. \A j \in 1 .. (i - 1) : j \in 1 .. Len(at)
        BY <1>2, SMTT(20)
      <4>. QED BY <1>2, <3>1, <4>1, SMTT(20)
    <3>4. Contents(list)' = Abs!RemoveAt(Contents(list), i)
      BY <3>2, SMTT(20) DEF Abs!RemoveAt, RemoveAt
    <3>5. Abs!RemoveItem(item)
      BY <3>3, <3>4, ZenonT(60) DEF Abs!RemoveItem
    <3>. QED BY <2>1, <3>5, ZenonT(60) DEF Abs!Next
  <2>. QED BY <2>2, <2>3, SMTT(20)
<1>6. CASE Clear
  <2>1. list' \in Lists /\ Chain(list', <<>>)
    BY <1>1, <1>6, ClearChain, SMTT(20) DEF Clear
  <2>2. Len(Contents(list')) = 0 /\ Contents(list') \in Seq(Items \union {NULL})
    BY <2>1, ContentsSeq, SMTT(20)
  <2>3. Contents(list') = <<>>
    BY <2>2, SMTT(20)
  <2>. QED BY <2>3, ZenonT(60) DEF Abs!Clear, Abs!Next
<1>7. CASE UNCHANGED list
  BY <1>7, SMTT(20)
<1>. QED BY <1>3, <1>4, <1>5, <1>6, <1>7, SMTT(20) DEF Next

(***************************************************************************)
(* The pointers implement the sequence: what an iteration sees changes as  *)
(* list.h promises, item by item and in order, and list_add is the         *)
(* operation at the end.                                                   *)
(***************************************************************************)
THEOREM ListsImplementSequences == Spec => Sequence
<1>1. Init => Abs!Init
  <2> SUFFICES ASSUME Init
               PROVE  Abs!Init
    OBVIOUS
  <2>1. Chain(list, <<>>) /\ list \in Lists
    BY DEF Init, list_new, Chain, Lists
  <2>2. Len(Contents(list)) = 0 /\ Contents(list) \in Seq(Items \union {NULL})
    BY <2>1, ContentsSeq, SMTT(20)
  <2>3. Contents(list) = <<>>
    BY <2>2, SMTT(20)
  <2>. QED BY <2>3, ZenonT(60) DEF Abs!Init
<1>2. Inv /\ [Next]_list => [Abs!Next]_(Contents(list))
  BY StepRefines, SMTT(20)
<1>3. Inv /\ [Next]_list => [Add => \E item \in Items : Abs!Add(item)]_list
  BY AddAppends
<1>. QED BY <1>1, <1>2, <1>3, InvHolds, PTL DEF Spec, Sequence, Abs!Spec
=============================================================================
