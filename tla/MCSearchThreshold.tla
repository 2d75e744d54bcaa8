-------------------------- MODULE MCSearchThreshold -------------------------
(* A search with a credibility threshold after one without: the same entry *)
(* of the warm cache answers both.                                         *)
EXTENDS Search

\* One credible text, one that is not.
mcTexts == { [neural |-> 2, keyword |-> 1, cred |-> 0],
             [neural |-> 1, keyword |-> 1, cred |-> 1] }
=============================================================================
