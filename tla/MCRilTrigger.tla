---------------------------- MODULE MCRilTrigger ----------------------------
(* Small instances of the RIL wrapper.                                     *)
EXTENDS RilTrigger, TLC

\* The requests of the Java side are alike, and so are the local ones.
Alike == Permutations(Readers) \cup Permutations(Requests \ Local)

=============================================================================
