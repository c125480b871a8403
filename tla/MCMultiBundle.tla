-------------------------- MODULE MCMultiBundle --------------------------
\* MultiBundle with three of the six files, in the order of installation: the
\* workbench and product.json differ in every transaction, main.js does not.
EXTENDS MultiBundle, TLC

CONSTANTS workbench, main, product

ThreeFiles == {workbench, main, product}
InstallOrder == workbench :> 1 @@ main :> 2 @@ product :> 3
DifferentFiles == {workbench, product}

Symmetry == Permutations(Txns) \cup Permutations(Shells)
=============================================================================
