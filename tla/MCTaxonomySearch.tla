-------------------------- MODULE MCTaxonomySearch --------------------------
EXTENDS TaxonomySearch, TLC
Symmetry == Permutations(Service) \cup Permutations(Category) \cup Permutations(Searcher)
=============================================================================
