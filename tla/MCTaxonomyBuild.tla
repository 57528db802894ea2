-------------------------- MODULE MCTaxonomyBuild --------------------------
(* Instance of TaxonomyBuild for TLC: two contents, so that a taxonomy may   *)
(* match or not, one search at a time, and two jobs, so that a cancelled    *)
(* build may still be at work when the next one begins.                    *)
EXTENDS TaxonomyBuild

CONSTANTS c1, c2, t1, t2, s1, j1, j2

=============================================================================
