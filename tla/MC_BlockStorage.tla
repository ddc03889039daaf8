-------------------------- MODULE MC_BlockStorage --------------------------
(***************************************************************************)
(* Instances of BlockStorage for TLC.  Bytes are 0 and 1, with 0 also the *)
(* content of a freshly allocated buffer; blocks are two bytes long, so   *)
(* values of two and four bytes are whole chunks and values of one or     *)
(* three bytes end in a short chunk.                                      *)
(***************************************************************************)
EXTENDS BlockStorage

MCBytes == {0, 1}

\* whole-chunk values; two of them share the chunk <<0,1>>, one repeats <<1,1>>
MCAlignedValues == {<<0, 1>>, <<1, 1, 1, 1>>, <<0, 1, 1, 1>>}

\* values ending in a short chunk, next to the whole chunk they prefix
MCShortValues == {<<1>>, <<1, 0>>}

\* caller buffers that are whole multiples of the block size
MCAlignedReads == {2, 4}

\* a one-chunk value: a fault can hit its block write, its stat, the read
\* after it or its node write
MCFaultValues == {<<0, 1>>}

====
