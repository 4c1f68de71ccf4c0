------------------------------- MODULE MCSleep -------------------------------
EXTENDS Sleep

(* On a stack of 16 words: frames of the smallest size, of mixed sizes, and *)
(* such that the page is full to the last word.                            *)
MCLayouts == {<<26, 28, 30, 32>>, <<22, 24, 29, 32>>, <<18, 22, 26, 32>>}
=============================================================================
