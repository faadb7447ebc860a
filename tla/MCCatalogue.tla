---------------------------- MODULE MCCatalogue ----------------------------
(* Small instances of Catalogue for TLC. *)
EXTENDS Catalogue

CONSTANTS w1, w2, o1, o2, p1, p2, p3, t1, t2, lips, care

\* One product that names its type by id, and one from before types existed.
OneLegacyProduct ==
    << [id |-> p1, stock |-> 1, type |-> t1, sub |-> lips],
       [id |-> p2, stock |-> 0, type |-> None, sub |-> lips] >>
\* A product from before types existed.
LegacyProduct == << [id |-> p1, stock |-> 1, type |-> None, sub |-> lips] >>
SameItem == [o \in Orders |-> p1]
OneType == [t \in Types |-> IF t = t1 THEN lips ELSE None]
TwoTypes == [t \in Types |-> IF t = t1 THEN lips ELSE care]
\* Workers are interchangeable, and so are orders of one product.
CatalogueSymmetry == Permutations(Workers) \cup Permutations(Orders)
============================================================================
