------------------------------ MODULE MCReviews ------------------------------
(* Two reviews of two customers, two staff pages. *)
EXTENDS Reviews, TLC
Alike == Permutations(ReviewIds) \cup Permutations(Pairs)
         \cup Permutations(Desks) \cup Permutations(Texts)
===============================================================================
