--------------------------- MODULE MCHandleCache ---------------------------
(* Model checking HandleCache: two tables, their frames, and the artifact  *)
(* built from both.                                                        *)
EXTENDS HandleCache, TLC

CONSTANTS link, node, links_df, nodes_df, all

NeedsBoth == links_df :> {link} @@ nodes_df :> {node} @@ all :> {link, node}
Frames    == link :> links_df @@ node :> nodes_df
Symmetry  == Permutations(Readers)
=============================================================================
