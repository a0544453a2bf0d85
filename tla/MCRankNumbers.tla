--------------------------- MODULE MCRankNumbers ---------------------------
(***************************************************************************)
(* RankNumbers, and RankingPages within it, on three rows, two columns and *)
(* pages of one or two rows.  The columns stand for those of the list of   *)
(* users: each is ranked by itself.                                        *)
(***************************************************************************)
EXTENDS RankNumbers

EachByItself == [s \in Sorts |-> s]

\* Bound: one row at a time is not listed.
MCNext ==
  /\ RankNext
  /\ Cardinality({id \in Ids : unlisted'[id] # None}) <= 1

MCSpec == RankInit /\ [][MCNext]_rankVars
=============================================================================
