------------------------------- MODULE Signing -------------------------------
(***************************************************************************)
(* Signatures of a transaction: authorization.ts, transaction.ts and       *)
(* signer.ts of packages/transactions, as operators on values.             *)
(*                                                                         *)
(* A sighash is the sequence of everything that was hashed into it, so two *)
(* hashes are equal when, and only when, the same data went into them in   *)
(* the same order.  A signature is the key that made it and the hash it    *)
(* signs.                                                                  *)
(***************************************************************************)
EXTENDS Naturals, Sequences, FiniteSets

CONSTANTS
    Keys,         \* key pairs; a pair has a public key in one of two encodings
    Compressed,   \* those whose public key is compressed
    EndsIn01,     \* those whose private key ends in the byte 01
    NoKey         \* the public key 000...0 of a sponsor that is not known yet

\* A compressed private key is marked by a last byte 01 (createStacksPrivateKey).
ASSUME SigningAssumption ==
    /\ Compressed \subseteq EndsIn01
    /\ EndsIn01 \subseteq Keys
    /\ NoKey \notin Keys

AuthTypes == {"standard", "sponsored"}

\* A SpendingCondition.  owners are the public keys that `signer` is the hash
\* of, in order.  The signature of a single-sig condition is its only field.
NewCondition(multi, owners, required, nonce, fee) ==
    [multi |-> multi, owners |-> owners, required |-> required,
     nonce |-> nonce, fee |-> fee, fields |-> <<>>]

----------------------------------------------------------------------------
(* The running sighash. *)

\* signBegin, verifyBegin: the hash of the transaction with its conditions
\* cleared, which is the same for as long as the transaction lives.
SignBegin == << <<"cleared transaction">> >>

NoHash == <<>>    \* the string '' that verify returns for a multi-sig condition

PreSign(hash, auth, cond) == Append(hash, <<auth, cond.fee, cond.nonce>>)

PostSign(hash, key, compressed) == Append(hash, <<key, compressed>>)

Signature(key, compressed, hash) ==
    [kind |-> "signature", key |-> key, compressed |-> compressed, over |-> hash]

\* nextSignature and signAndAppend: the condition with one more signature, and
\* the next hash.  The hash takes the encoding of the key; the encoding written
\* into a multi-sig field is read off the last byte of the private key.
SignAndAppend(cond, hash, auth, key) ==
    LET pre == PreSign(hash, auth, cond) IN
    [cond |-> IF cond.multi
              THEN [cond EXCEPT !.fields =
                        Append(@, Signature(key, key \in EndsIn01, pre))]
              ELSE [cond EXCEPT !.fields =
                        <<Signature(key, key \in Compressed, pre)>>],
     hash |-> PostSign(pre, key, key \in Compressed)]

PublicKey(key) ==
    [kind |-> "publicKey", key |-> key, compressed |-> key \in Compressed, over |-> NoHash]

\* appendPubkey, for one key after the other.
AppendPubkeys(cond, keys) ==
    [cond EXCEPT !.fields = @ \o [i \in DOMAIN keys |-> PublicKey(keys[i])]]

\* (seeded fault: the origin is verified as part of a sponsored transaction)
VerifySponsoredOrigin(cond) ==
    IF cond.multi \/ cond.fields = <<>> THEN NoHash
    ELSE PostSign(PreSign(SignBegin, "sponsored", cond), cond.fields[1].key,
                  cond.fields[1].compressed)

\* verifyOrigin: the hash after the origin's signature.  It is '' for multi-sig
\* and cannot be had without a signature.
VerifyOrigin(cond) ==
    IF cond.multi \/ cond.fields = <<>> THEN NoHash
    ELSE PostSign(PreSign(SignBegin, "standard", cond), cond.fields[1].key,
                  cond.fields[1].compressed)

----------------------------------------------------------------------------
(* Signing for the origin: one signature for each signing key, then the    *)
(* public keys of those who did not sign.                                  *)

Oversigned(cond) == cond.multi /\ Len(cond.fields) >= cond.required

\* signOrigin on the state [cond, hash, ok] of a signer; ok is FALSE once it
\* has thrown.  (originDone is FALSE: nobody has signed as sponsor.)
SignOrigin(signer, key) ==
    IF ~signer.ok \/ Oversigned(signer.cond) THEN [signer EXCEPT !.ok = FALSE]
    ELSE LET next == SignAndAppend(signer.cond, signer.hash, "standard", key) IN
         [cond |-> next.cond, hash |-> next.hash, ok |-> TRUE]

SignedBy(cond, keys) ==
    LET after[n \in 0..Len(keys)] ==
            IF n = 0 THEN [cond |-> cond, hash |-> SignBegin, ok |-> TRUE]
            ELSE SignOrigin(after[n - 1], keys[n])
    IN  after[Len(keys)]

\* The public keys that are left when each signing key has filtered its own.
Unsigned(publicKeys, keys) ==
    LET signed == {keys[i] : i \in DOMAIN keys}
        left[n \in 0..Len(publicKeys)] ==
            IF n = 0 THEN <<>>
            ELSE IF publicKeys[n] \in signed THEN left[n - 1]
            ELSE Append(left[n - 1], publicKeys[n])
    IN  left[Len(publicKeys)]

\* The loops of makeSTXTokenTransfer and makeContractCall.
SignAll(cond, publicKeys, keys) ==
    LET signer == SignedBy(cond, keys) IN
    [ok |-> signer.ok,
     cond |-> IF cond.multi
              THEN AppendPubkeys(signer.cond, Unsigned(publicKeys, keys))
              ELSE signer.cond]

----------------------------------------------------------------------------
(* What a node does with a condition (stacks-blockchain, from the rules    *)
(* that authorization.ts follows): it recovers the keys from the fields,   *)
(* hashing along, and compares them with the address.                      *)

Recovered(hash, field, cond, auth) ==
    IF field.kind = "signature"
    THEN PostSign(PreSign(hash, auth, cond), field.key, field.compressed)
    ELSE hash

NodeVerifies(cond, hash, auth) ==
    LET fields == cond.fields
        hashes[n \in 0..Len(fields)] ==
            IF n = 0 THEN hash ELSE Recovered(hashes[n - 1], fields[n], cond, auth)
        signatures == {i \in DOMAIN fields : fields[i].kind = "signature"}
    IN  [ok |-> /\ \A i \in signatures : fields[i].over = PreSign(hashes[i - 1], auth, cond)
                /\ Cardinality(signatures) = cond.required
                /\ [i \in DOMAIN fields |-> <<fields[i].key, fields[i].compressed>>]
                     = [i \in DOMAIN cond.owners |->
                          <<cond.owners[i], cond.owners[i] \in Compressed>>],
         hash |-> hashes[Len(fields)]]

OriginVerifies(tx) == NodeVerifies(tx.origin, SignBegin, "standard").ok

SponsorVerifies(tx) ==
    LET origin == NodeVerifies(tx.origin, SignBegin, "standard") IN
    /\ tx.auth = "sponsored"
    /\ NodeVerifies(tx.sponsor, origin.hash, "sponsored").ok

NodeAccepts(tx) ==
    OriginVerifies(tx) /\ (tx.auth = "sponsored" => SponsorVerifies(tx))
=============================================================================
