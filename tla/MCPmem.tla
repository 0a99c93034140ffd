------------------------------- MODULE MCPmem -------------------------------
(***************************************************************************)
(* Fourteen pages, with int scaled to four bits: a region of four bits is  *)
(* what first_bmap's 32 are, one of eight fills a word of storage.         *)
(***************************************************************************)
EXTENDS Pmem

MCPages == 0 .. 13

\* Added behind a first region at 0 .. 3: cut to 4 .. 6, and inside the
\* first one.
SmallAdds == {<<2, 5>>, <<1, 2>>}

\* Across the two regions, inside the second, and outside both.
SmallReserves == {<<3, 2>>, <<5, 1>>, <<12, 2>>}

\* Nothing but the first region, whose words have an upper half if it has
\* eight bits.
NoRanges == {}
=============================================================================
