--------------------------- MODULE MCAuthSession ---------------------------
(* Two calls that may be a sign-in or a file operation, and one that may be  *)
(* anything but a sign-in; two identities.                                   *)
EXTENDS AuthSession, TLC

CONSTANTS call1, call2, call3

MCOffered == [c \in Calls |-> IF c = call3 THEN Kinds \ {"signin"} ELSE {"signin", "file"}]
MCAnswers ==
    {[who |-> "alice", form |-> "sealed", profile |-> "given"],
     [who |-> "bob", form |-> "sealed", profile |-> "url"],
     [who |-> "bob", form |-> "plain", profile |-> "given"],
     [who |-> "alice", form |-> "legacy", profile |-> "none"]}
MCSymmetry == Permutations({call1, call2})
=============================================================================
