----------------------------- MODULE MCBuilders -----------------------------
(* Instances of Builders for TLC. *)
EXTENDS Builders, TLC

CONSTANTS c1, c2, c3, c4, alice, bob, carol, dave, unset

\* Transfers, contract calls and deploys of one key.
One(payload, abi, sponsored, key, sign, fee, nonce) ==
    [payload |-> payload, abi |-> abi, sponsored |-> sponsored, multi |-> FALSE,
     publicKeys |-> <<key>>, numSignatures |-> 1,
     signerKeys |-> IF sign THEN <<key>> ELSE <<>>, fee |-> fee, nonce |-> nonce]

\* Two of three keys sign, in the order given.
Many(signers, sponsored, nonce) ==
    [payload |-> "transfer", abi |-> FALSE, sponsored |-> sponsored, multi |-> TRUE,
     publicKeys |-> <<alice, bob, dave>>, numSignatures |-> 2,
     signerKeys |-> signers, fee |-> 1, nonce |-> nonce]

\* The same with a key that is there twice.
Again == [Many(<<alice, bob>>, FALSE, 0) EXCEPT !.publicKeys = <<alice, bob, alice>>]

TransferOptions ==
    {One("transfer", FALSE, TRUE, alice, TRUE, unset, unset),
     One("call", TRUE, TRUE, alice, FALSE, 1, 0),
     One("deploy", FALSE, FALSE, alice, TRUE, unset, 0),
     Many(<<alice, bob>>, TRUE, 0), Many(<<bob, alice>>, FALSE, 0),
     Many(<<alice>>, FALSE, 0), Many(<<alice, dave>>, TRUE, 0),
     Many(<<alice, bob, dave>>, FALSE, 0), Again}

Sponsorships ==
    [key: {carol}, fee: {unset, 1}, nonce: {unset}] \cup [key: {bob}, fee: {unset}, nonce: {0}]

CallSymmetry == Permutations(Calls)
=============================================================================
