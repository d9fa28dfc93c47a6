--------------------------- MODULE MCCompanyStore ---------------------------
EXTENDS CompanyStore, TLC

\* Companies and names are interchangeable in every action and property.
Symmetry == Permutations(Companies) \cup Permutations(Names)
=============================================================================
