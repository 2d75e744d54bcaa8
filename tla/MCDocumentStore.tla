--------------------------- MODULE MCDocumentStore ---------------------------
(* A process that restarts, with enough document ids for every request.    *)
EXTENDS DocumentStore, TLC

\* URLs, texts and ids are alike.  So are requests, but the permutations of
\* these too would cost more than they save.
Alike == Permutations(Urls) \cup Permutations(Texts)
             \cup Permutations(Ids)
=============================================================================
