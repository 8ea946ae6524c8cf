----------------------------- MODULE MCBuckets -----------------------------
(* Instances of Buckets for TLC. *)
EXTENDS Buckets, TLC

\* The third and the fourth name have the same path; the second is filtered.
FourNames ==
    <<<<"a", "/", "b", "/", "c">>, <<"b">>, <<"d", "/", "e">>, <<"d", "\\x2f", "e">>>>
=============================================================================
