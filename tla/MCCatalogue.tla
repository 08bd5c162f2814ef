------------------------------ MODULE MCCatalogue ------------------------------
(* Catalogue's values for TLC.                                                   *)
EXTENDS Catalogue

\* A limit below zero is no limit.
PageSizes == {-1, 1, 2, 3, 4}

================================================================================
