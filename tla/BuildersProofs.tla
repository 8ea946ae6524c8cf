--------------------------- MODULE BuildersProofs ---------------------------
(***************************************************************************)
(* What the builders resolve with is signed as its options say, and what   *)
(* sponsorTransaction resolves with is signed by its caller: for every set *)
(* of calls, keys, options and fees.                                       *)
(***************************************************************************)
EXTENDS Builders, FiniteSetTheorems, SequenceTheorems, WellFoundedInduction, TLAPS

----------------------------------------------------------------------------
(* Induction along a sequence, and the recursive definitions of Signing.    *)

\* What holds at 0 and goes on from each number to the next holds up to n.
LEMMA Along ==
    ASSUME NEW n \in Nat, NEW T, 0 \in T, \A k \in 1..n : k - 1 \in T => k \in T
    PROVE  \A k \in 0..n : k \in T
  <1>1. PICK R : R = OpToRel(<, Nat)
    OBVIOUS
  <1>2. PICK U \in SUBSET Nat : U = {k \in 0..n : k \notin T}
    <2>1. PICK V : V = {k \in 0..n : k \notin T}
      OBVIOUS
    <2>2. \A k \in V : k \in Nat
      BY <2>1
    <2>3. QED
      BY <2>1, <2>2
  <1>3. SUFFICES ASSUME U # {} PROVE FALSE
    BY <1>2
  <1>4. PICK k \in U : \A m \in U : ~(<<m, k>> \in R)
    BY <1>1, <1>3, NatLessThanWellFounded, WFMin
  <1>5. k \in 1..n /\ k - 1 \in Nat /\ k - 1 \in 0..n /\ k - 1 < k /\ k \notin T
    BY <1>2
  <1>6. k - 1 \in U
    BY <1>2, <1>5
  <1>7. <<k - 1, k>> \in R
    <2>1. <<k - 1, k>> \in Nat \X Nat /\ <<k - 1, k>>[1] < <<k - 1, k>>[2]
      BY <1>5
    <2>2. <<k - 1, k>> \in OpToRel(<, Nat)
      BY <2>1 DEF OpToRel
    <2>3. QED
      BY <1>1, <2>2
  <1>8. QED
    BY <1>4, <1>6, <1>7

\* The signer after each of the signing keys.
Signers(cond, keys, after) ==
    /\ DOMAIN after = 0..Len(keys)
    /\ after[0] = [cond |-> cond, hash |-> SignBegin, ok |-> TRUE]
    /\ \A n \in 1..Len(keys) : after[n] = SignOrigin(after[n - 1], keys[n])

LEMMA SignersThere ==
    ASSUME NEW cond, NEW keys \in Seq(Keys)
    PROVE  \E after : Signers(cond, keys, after) /\ SignedBy(cond, keys) = after[Len(keys)]
  <1>1. PICK len \in Nat : len = Len(keys)
    OBVIOUS
  <1>2. PICK base : base = [cond |-> cond, hash |-> SignBegin, ok |-> TRUE]
    OBVIOUS
  <1>3. PICK T : T = {m \in 0..len : \E f : f = [n \in 0..m |->
                        IF n = 0 THEN base ELSE SignOrigin(f[n - 1], keys[n])]}
    OBVIOUS
  <1>4. 0 \in T
    <2>1. PICK f : f = [n \in 0..0 |-> base]
      OBVIOUS
    <2>2. f = [n \in 0..0 |-> IF n = 0 THEN base ELSE SignOrigin(f[n - 1], keys[n])]
      BY <2>1
    <2>3. 0 \in 0..len
      BY <1>1
    <2>4. QED
      BY <1>3, <2>2, <2>3
  <1>5. ASSUME NEW k \in 1..len, k - 1 \in T
        PROVE  k \in T
    <2>1. PICK f : f = [n \in 0..(k - 1) |->
                          IF n = 0 THEN base ELSE SignOrigin(f[n - 1], keys[n])]
      BY <1>3, <1>5
    <2>2. PICK g : g = [n \in 0..k |-> IF n = k THEN SignOrigin(f[k - 1], keys[k]) ELSE f[n]]
      OBVIOUS
    <2>3. ASSUME NEW n \in 0..k
          PROVE  g[n] = IF n = 0 THEN base ELSE SignOrigin(g[n - 1], keys[n])
      <3>1. CASE n = k
        <4>1. g[k - 1] = f[k - 1] /\ g[n] = SignOrigin(f[k - 1], keys[k]) /\ n # 0
          BY <2>2, <3>1
        <4>2. QED
          BY <3>1, <4>1
      <3>2. CASE n # k
        <4>1. n \in 0..(k - 1) /\ g[n] = f[n]
          BY <2>2, <3>2
        <4>2. n # 0 => n - 1 \in 0..(k - 1) /\ g[n - 1] = f[n - 1]
          BY <2>2, <3>2
        <4>3. f[n] = IF n = 0 THEN base ELSE SignOrigin(f[n - 1], keys[n])
          BY <2>1, <4>1
        <4>4. QED
          BY <4>1, <4>2, <4>3
      <3>3. QED
        BY <3>1, <3>2
    <2>4. g = [n \in 0..k |-> IF n = 0 THEN base ELSE SignOrigin(g[n - 1], keys[n])]
      BY <2>2, <2>3
    <2>5. k \in 0..len
      OBVIOUS
    <2>6. QED
      BY <1>3, <2>4, <2>5
  <1>6. len \in T
    <2>1. \A k \in 0..len : k \in T
      BY ONLY <1>4, <1>5, Along
    <2>2. QED
      BY <2>1
  <1>7. \E f : f = [n \in 0..Len(keys) |->
                      IF n = 0 THEN [cond |-> cond, hash |-> SignBegin, ok |-> TRUE]
                      ELSE SignOrigin(f[n - 1], keys[n])]
    BY <1>1, <1>2, <1>3, <1>6
  <1>8. PICK after : /\ after = [n \in 0..Len(keys) |->
                          IF n = 0 THEN [cond |-> cond, hash |-> SignBegin, ok |-> TRUE]
                          ELSE SignOrigin(after[n - 1], keys[n])]
                     /\ SignedBy(cond, keys) = after[Len(keys)]
    BY <1>7 DEF SignedBy
  <1>9. Signers(cond, keys, after)
    <2>1. 0 \in 0..Len(keys) /\ \A n \in 1..Len(keys) : n \in 0..Len(keys) /\ n # 0
      BY <1>1
    <2>2. DOMAIN after = 0..Len(keys)
      BY <1>8
    <2>3. /\ after[0] = [cond |-> cond, hash |-> SignBegin, ok |-> TRUE]
          /\ \A n \in 1..Len(keys) : after[n] = SignOrigin(after[n - 1], keys[n])
      BY ONLY <1>8, <2>1
    <2>4. QED
      BY <2>2, <2>3 DEF Signers
  <1>10. QED
    BY <1>8, <1>9

\* The public keys that are left, up to each of them.
Left(publicKeys, signed, left) ==
    /\ DOMAIN left = 0..Len(publicKeys)
    /\ left[0] = <<>>
    /\ \A n \in 1..Len(publicKeys) : left[n] = (IF publicKeys[n] \in signed THEN left[n - 1] ELSE Append(left[n - 1], publicKeys[n]))

LEMMA LeftThere ==
    ASSUME NEW publicKeys \in Seq(Keys), NEW keys \in Seq(Keys),
           NEW signed, signed = {keys[i] : i \in DOMAIN keys}
    PROVE  \E left : Left(publicKeys, signed, left) /\ Unsigned(publicKeys, keys) = left[Len(publicKeys)]
  <1>1. PICK len \in Nat : len = Len(publicKeys)
    OBVIOUS
  <1>2. PICK T : T = {m \in 0..len : \E f : f = [n \in 0..m |->
                        IF n = 0 THEN <<>> ELSE (IF publicKeys[n] \in signed THEN f[n - 1] ELSE Append(f[n - 1], publicKeys[n]))]}
    OBVIOUS
  <1>3. 0 \in T
    <2>1. PICK f : f = [n \in 0..0 |-> <<>>]
      OBVIOUS
    <2>2. f = [n \in 0..0 |-> IF n = 0 THEN <<>> ELSE (IF publicKeys[n] \in signed THEN f[n - 1] ELSE Append(f[n - 1], publicKeys[n]))]
      BY <2>1
    <2>3. 0 \in 0..len
      BY <1>1
    <2>4. QED
      BY <1>2, <2>2, <2>3
  <1>4. ASSUME NEW k \in 1..len, k - 1 \in T
        PROVE  k \in T
    <2>1. PICK f : f = [n \in 0..(k - 1) |->
                          IF n = 0 THEN <<>> ELSE (IF publicKeys[n] \in signed THEN f[n - 1] ELSE Append(f[n - 1], publicKeys[n]))]
      BY <1>2, <1>4
    <2>2. PICK g : g = [n \in 0..k |-> IF n = k THEN (IF publicKeys[k] \in signed THEN f[k - 1] ELSE Append(f[k - 1], publicKeys[k])) ELSE f[n]]
      OBVIOUS
    <2>3. ASSUME NEW n \in 0..k
          PROVE  g[n] = IF n = 0 THEN <<>> ELSE (IF publicKeys[n] \in signed THEN g[n - 1] ELSE Append(g[n - 1], publicKeys[n]))
      <3>1. CASE n = k
        <4>1. g[k - 1] = f[k - 1] /\ g[n] = ((IF publicKeys[k] \in signed THEN f[k - 1] ELSE Append(f[k - 1], publicKeys[k]))) /\ n # 0
          BY <2>2, <3>1
        <4>2. QED
          BY <3>1, <4>1
      <3>2. CASE n # k
        <4>1. n \in 0..(k - 1) /\ g[n] = f[n]
          BY <2>2, <3>2
        <4>2. n # 0 => n - 1 \in 0..(k - 1) /\ g[n - 1] = f[n - 1]
          BY <2>2, <3>2
        <4>3. f[n] = IF n = 0 THEN <<>> ELSE (IF publicKeys[n] \in signed THEN f[n - 1] ELSE Append(f[n - 1], publicKeys[n]))
          BY <2>1, <4>1
        <4>4. QED
          BY <4>1, <4>2, <4>3
      <3>3. QED
        BY <3>1, <3>2
    <2>4. g = [n \in 0..k |-> IF n = 0 THEN <<>> ELSE (IF publicKeys[n] \in signed THEN g[n - 1] ELSE Append(g[n - 1], publicKeys[n]))]
      BY <2>2, <2>3
    <2>5. k \in 0..len
      OBVIOUS
    <2>6. QED
      BY <1>2, <2>4, <2>5
  <1>5. len \in T
    <2>1. \A k \in 0..len : k \in T
      BY ONLY <1>3, <1>4, Along
    <2>2. QED
      BY <2>1
  <1>6. \E f : f = [n \in 0..Len(publicKeys) |->
                      IF n = 0 THEN <<>> ELSE (IF publicKeys[n] \in signed THEN f[n - 1] ELSE Append(f[n - 1], publicKeys[n]))]
    BY <1>1, <1>2, <1>5
  <1>7. PICK left : /\ left = [n \in 0..Len(publicKeys) |->
                          IF n = 0 THEN <<>> ELSE (IF publicKeys[n] \in signed THEN left[n - 1] ELSE Append(left[n - 1], publicKeys[n]))]
                     /\ Unsigned(publicKeys, keys) = left[Len(publicKeys)]
    BY <1>6 DEF Unsigned
  <1>8. Left(publicKeys, signed, left)
    <2>1. 0 \in 0..Len(publicKeys) /\ \A n \in 1..Len(publicKeys) : n \in 0..Len(publicKeys) /\ n # 0
      BY <1>1
    <2>2. DOMAIN left = 0..Len(publicKeys)
      BY <1>7
    <2>3. /\ left[0] = <<>>
          /\ \A n \in 1..Len(publicKeys) : left[n] = (IF publicKeys[n] \in signed THEN left[n - 1] ELSE Append(left[n - 1], publicKeys[n]))
      BY ONLY <1>7, <2>1
    <2>4. QED
      BY <2>2, <2>3 DEF Left
  <1>9. QED
    BY <1>7, <1>8

\* What a node finds of a condition.
Verified(fields, cond, hash, auth, hashes) ==
    LET signatures == {i \in DOMAIN fields : fields[i].kind = "signature"} IN
    /\ NodeVerifies(cond, hash, auth).ok <=>
         /\ \A i \in signatures : fields[i].over = PreSign(hashes[i - 1], auth, cond)
         /\ Cardinality(signatures) = cond.required
         /\ [i \in DOMAIN fields |-> <<fields[i].key, fields[i].compressed>>]
              = [i \in DOMAIN cond.owners |->
                   <<cond.owners[i], cond.owners[i] \in Compressed>>]
    /\ NodeVerifies(cond, hash, auth).hash = hashes[Len(fields)]

\* The hash of a node after each of the fields.
Hashed(fields, cond, hash, auth, hashes) ==
    /\ DOMAIN hashes = 0..Len(fields)
    /\ hashes[0] = hash
    /\ \A n \in 1..Len(fields) : hashes[n] = Recovered(hashes[n - 1], fields[n], cond, auth)

LEMMA HashesThere ==
    ASSUME NEW S, NEW fields \in Seq(S), NEW cond, fields = cond.fields,
           NEW hash, NEW auth
    PROVE  \E hashes : Hashed(fields, cond, hash, auth, hashes) /\ Verified(fields, cond, hash, auth, hashes)
  <1>1. PICK len \in Nat : len = Len(fields)
    OBVIOUS
  <1>2. PICK T : T = {m \in 0..len : \E f : f = [n \in 0..m |->
                        IF n = 0 THEN hash ELSE Recovered(f[n - 1], fields[n], cond, auth)]}
    OBVIOUS
  <1>3. 0 \in T
    <2>1. PICK f : f = [n \in 0..0 |-> hash]
      OBVIOUS
    <2>2. f = [n \in 0..0 |-> IF n = 0 THEN hash ELSE Recovered(f[n - 1], fields[n], cond, auth)]
      BY <2>1
    <2>3. 0 \in 0..len
      BY <1>1
    <2>4. QED
      BY <1>2, <2>2, <2>3
  <1>4. ASSUME NEW k \in 1..len, k - 1 \in T
        PROVE  k \in T
    <2>1. PICK f : f = [n \in 0..(k - 1) |->
                          IF n = 0 THEN hash ELSE Recovered(f[n - 1], fields[n], cond, auth)]
      BY <1>2, <1>4
    <2>2. PICK g : g = [n \in 0..k |-> IF n = k THEN Recovered(f[k - 1], fields[k], cond, auth) ELSE f[n]]
      OBVIOUS
    <2>3. ASSUME NEW n \in 0..k
          PROVE  g[n] = IF n = 0 THEN hash ELSE Recovered(g[n - 1], fields[n], cond, auth)
      <3>1. CASE n = k
        <4>1. g[k - 1] = f[k - 1] /\ g[n] = (Recovered(f[k - 1], fields[k], cond, auth)) /\ n # 0
          BY <2>2, <3>1
        <4>2. QED
          BY <3>1, <4>1
      <3>2. CASE n # k
        <4>1. n \in 0..(k - 1) /\ g[n] = f[n]
          BY <2>2, <3>2
        <4>2. n # 0 => n - 1 \in 0..(k - 1) /\ g[n - 1] = f[n - 1]
          BY <2>2, <3>2
        <4>3. f[n] = IF n = 0 THEN hash ELSE Recovered(f[n - 1], fields[n], cond, auth)
          BY <2>1, <4>1
        <4>4. QED
          BY <4>1, <4>2, <4>3
      <3>3. QED
        BY <3>1, <3>2
    <2>4. g = [n \in 0..k |-> IF n = 0 THEN hash ELSE Recovered(g[n - 1], fields[n], cond, auth)]
      BY <2>2, <2>3
    <2>5. k \in 0..len
      OBVIOUS
    <2>6. QED
      BY <1>2, <2>4, <2>5
  <1>5. len \in T
    <2>1. \A k \in 0..len : k \in T
      BY ONLY <1>3, <1>4, Along
    <2>2. QED
      BY <2>1
  <1>6. \E f : f = [n \in 0..Len(fields) |->
                      IF n = 0 THEN hash ELSE Recovered(f[n - 1], fields[n], cond, auth)]
    BY <1>1, <1>2, <1>5
  <1>7. PICK hashes : /\ hashes = [n \in 0..Len(fields) |->
                          IF n = 0 THEN hash ELSE Recovered(hashes[n - 1], fields[n], cond, auth)]
                     /\ Verified(fields, cond, hash, auth, hashes)
    BY <1>6 DEF NodeVerifies, Verified
  <1>8. Hashed(fields, cond, hash, auth, hashes)
    <2>1. 0 \in 0..Len(fields) /\ \A n \in 1..Len(fields) : n \in 0..Len(fields) /\ n # 0
      BY <1>1
    <2>2. DOMAIN hashes = 0..Len(fields)
      BY <1>7
    <2>3. /\ hashes[0] = hash
          /\ \A n \in 1..Len(fields) : hashes[n] = Recovered(hashes[n - 1], fields[n], cond, auth)
      BY ONLY <1>7, <2>1
    <2>4. QED
      BY <2>2, <2>3 DEF Hashed
  <1>9. QED
    BY <1>7, <1>8

----------------------------------------------------------------------------
(* The values of Signing. *)

Datum ==
    {<<"cleared transaction">>} \cup (AuthTypes \X Nat \X Nat)
        \cup ((Keys \cup {NoKey}) \X BOOLEAN)

Hash == Seq(Datum)

Field == [kind: {"signature", "publicKey"}, key: Keys, compressed: BOOLEAN, over: Hash]

Condition ==
    [multi: BOOLEAN, owners: Seq(Keys \cup {NoKey}), required: Nat, nonce: Nat, fee: Nat,
     fields: Seq(Field)]

\* What is hashed is a hash, and none of a signature is the empty one.
LEMMA Hashing ==
    /\ SignBegin \in Hash /\ NoHash \in Hash
    /\ \A hash \in Hash, auth \in AuthTypes, cond \in Condition : PreSign(hash, auth, cond) \in Hash
    /\ \A hash \in Hash, key \in Keys, compressed \in BOOLEAN :
         PostSign(hash, key, compressed) \in Hash /\ PostSign(hash, key, compressed) # NoHash
  <1>1. SignBegin \in Hash
    <2>1. PICK d \in Datum : d = <<"cleared transaction">>
      BY DEF Datum
    <2>2. <<d>> \in Seq(Datum)
      OBVIOUS
    <2>3. QED
      BY <2>1, <2>2 DEF SignBegin, Hash
  <1>2. NoHash \in Hash
    BY DEF NoHash, Hash
  <1>3. ASSUME NEW hash \in Hash, NEW auth \in AuthTypes, NEW cond \in Condition
        PROVE  PreSign(hash, auth, cond) \in Hash
    <2>1. cond.fee \in Nat /\ cond.nonce \in Nat
      BY DEF Condition
    <2>2. PICK d \in Datum : d = <<auth, cond.fee, cond.nonce>>
      BY <2>1 DEF Datum
    <2>3. Append(hash, d) \in Seq(Datum)
      BY DEF Hash
    <2>4. QED
      BY <2>2, <2>3 DEF PreSign, Hash
  <1>4. ASSUME NEW hash \in Hash, NEW key \in Keys, NEW compressed \in BOOLEAN
        PROVE  PostSign(hash, key, compressed) \in Hash /\ PostSign(hash, key, compressed) # NoHash
    <2>1. PICK d \in Datum : d = <<key, compressed>>
      BY DEF Datum
    <2>2. Append(hash, d) \in Seq(Datum) /\ Append(hash, d) # <<>>
      BY DEF Hash
    <2>3. QED
      BY <2>1, <2>2 DEF PostSign, Hash, NoHash
  <1>5. QED
    BY <1>1, <1>2, <1>3, <1>4

\* A signature is a field, and so is a public key.
LEMMA Fields ==
    /\ \A key \in Keys, compressed \in BOOLEAN, hash \in Hash :
         Signature(key, compressed, hash) \in Field
    /\ \A key \in Keys : PublicKey(key) \in Field
  BY Hashing DEF Signature, PublicKey, Field

\* A condition of one key, signed.
OneSigned(cond, key, hash, auth) ==
    [cond EXCEPT !.fields = <<Signature(key, key \in Compressed, PreSign(hash, auth, cond))>>]

\* What it is, and that it can be verified.
LEMMA OneVerifies ==
    ASSUME NEW cond \in Condition, ~cond.multi, NEW key \in Keys, cond.owners = <<key>>,
           cond.required = 1, NEW hash \in Hash, NEW auth \in AuthTypes,
           NEW signed, signed = OneSigned(cond, key, hash, auth)
    PROVE  /\ signed \in Condition /\ ~signed.multi /\ signed.owners = <<key>>
           /\ signed.required = 1 /\ signed.nonce = cond.nonce /\ signed.fee = cond.fee
           /\ Len(signed.fields) = 1 /\ signed.fields[1].kind = "signature"
           /\ NodeVerifies(signed, hash, auth).ok
           /\ NodeVerifies(signed, hash, auth).hash
                = PostSign(PreSign(hash, auth, signed), key, key \in Compressed)
           /\ signed.fields[1].key = key /\ signed.fields[1].compressed = (key \in Compressed)
  <1>1. PICK pre \in Hash : pre = PreSign(hash, auth, cond)
    BY Hashing
  <1>2. PICK field \in Field : field = Signature(key, key \in Compressed, pre)
    <2>1. (key \in Compressed) \in BOOLEAN
      OBVIOUS
    <2>2. Signature(key, key \in Compressed, pre) \in Field
      BY <2>1, Fields
    <2>3. QED
      BY <2>2
  <1>3. /\ field.kind = "signature" /\ field.key = key /\ field.compressed = (key \in Compressed)
        /\ field.over = pre
    BY <1>2 DEF Signature
  <1>4. PICK fields \in Seq(Field) : fields = <<field>>
    <2>1. <<field>> \in Seq(Field)
      OBVIOUS
    <2>2. QED
      BY <2>1
  <1>5. Len(fields) = 1 /\ DOMAIN fields = {1} /\ fields[1] = field
    BY <1>4
  <1>6. PICK c \in Condition : c = [cond EXCEPT !.fields = fields]
    <2>1. [cond EXCEPT !.fields = fields] \in Condition
      BY DEF Condition
    <2>2. QED
      BY <2>1
  <1>7. signed = c
    BY <1>1, <1>2, <1>4, <1>6 DEF OneSigned
  <1>8. /\ c.multi = cond.multi /\ c.owners = <<key>> /\ c.required = 1 /\ c.nonce = cond.nonce
        /\ c.fee = cond.fee /\ c.fields = fields
    BY <1>6 DEF Condition
  <1>9. PreSign(hash, auth, c) = pre
    BY <1>1, <1>8 DEF PreSign
  <1>10. PICK hashes : Hashed(fields, c, hash, auth, hashes) /\ Verified(fields, c, hash, auth, hashes)
    BY <1>8, HashesThere
  <1>11. /\ hashes[0] = hash
         /\ hashes[1] = PostSign(pre, key, key \in Compressed)
    <2>1. hashes[0] = hash /\ hashes[1] = Recovered(hashes[0], fields[1], c, auth)
      BY <1>5, <1>10 DEF Hashed
    <2>2. QED
      BY <1>3, <1>5, <1>9, <2>1 DEF Recovered
  <1>12. NodeVerifies(c, hash, auth).ok
    <2>1. PICK signatures : signatures = {i \in DOMAIN fields : fields[i].kind = "signature"}
      OBVIOUS
    <2>2. signatures = {1}
      BY <1>3, <1>5, <2>1
    <2>3. Cardinality(signatures) = c.required
      BY <1>8, <2>2, FS_Singleton
    <2>4. \A i \in signatures : fields[i].over = PreSign(hashes[i - 1], auth, c)
      BY <1>3, <1>5, <1>9, <1>11, <2>2
    <2>5. [i \in DOMAIN fields |-> <<fields[i].key, fields[i].compressed>>]
            = [i \in DOMAIN c.owners |-> <<c.owners[i], c.owners[i] \in Compressed>>]
      <3>1. DOMAIN c.owners = {1} /\ c.owners[1] = key
        BY <1>8
      <3>2. QED
        BY <1>3, <1>5, <3>1
    <2>6. QED
      BY <1>10, <2>1, <2>3, <2>4, <2>5 DEF Verified
  <1>13. NodeVerifies(c, hash, auth).hash = PostSign(pre, key, key \in Compressed)
    BY <1>5, <1>10, <1>11 DEF Verified
  <1>14. QED
    BY <1>3, <1>5, <1>7, <1>8, <1>9, <1>12, <1>13

\* A condition that is not signed does not verify.
LEMMA NoneVerifies ==
    ASSUME NEW cond \in Condition, cond.fields = <<>>, cond.owners # <<>>, NEW hash, NEW auth
    PROVE  ~NodeVerifies(cond, hash, auth).ok
  <1>1. PICK fields \in Seq(Field) : fields = cond.fields
    BY DEF Condition
  <1>2. PICK hashes : Verified(fields, cond, hash, auth, hashes)
    BY <1>1, HashesThere
  <1>3. DOMAIN [i \in DOMAIN fields |-> <<fields[i].key, fields[i].compressed>>] = {}
    BY <1>1
  <1>4. DOMAIN [i \in DOMAIN cond.owners |-> <<cond.owners[i], cond.owners[i] \in Compressed>>]
          # {}
    <2>1. PICK owners \in Seq(Keys \cup {NoKey}) : owners = cond.owners
      BY DEF Condition
    <2>2. DOMAIN owners # {}
      <3>1. Len(owners) \in Nat /\ Len(owners) # 0
        BY <2>1, EmptySeq
      <3>2. 1 \in DOMAIN owners
        BY <3>1
      <3>3. QED
        BY <3>2
    <2>3. QED
      BY <2>1, <2>2
  <1>5. QED
    BY <1>2, <1>3, <1>4 DEF Verified

\* The one key of a condition signs.
LEMMA SignAllOne ==
    ASSUME NEW cond \in Condition, ~cond.multi, NEW key \in Keys, NEW publicKeys
    PROVE  /\ SignAll(cond, publicKeys, <<key>>).ok
           /\ SignAll(cond, publicKeys, <<key>>).cond = OneSigned(cond, key, SignBegin, "standard")
  <1>1. PICK keys \in Seq(Keys) : keys = <<key>>
    <2>1. <<key>> \in Seq(Keys)
      OBVIOUS
    <2>2. QED
      BY <2>1
  <1>2. Len(keys) = 1 /\ keys[1] = key
    BY <1>1
  <1>3. PICK after : Signers(cond, keys, after) /\ SignedBy(cond, keys) = after[1]
    BY <1>2, SignersThere
  <1>4. after[0] = [cond |-> cond, hash |-> SignBegin, ok |-> TRUE]
        /\ after[1] = SignOrigin(after[0], key)
    <2>1. after[0] = [cond |-> cond, hash |-> SignBegin, ok |-> TRUE]
          /\ \A n \in 1..Len(keys) : after[n] = SignOrigin(after[n - 1], keys[n])
      BY <1>3 DEF Signers
    <2>2. 1 \in 1..Len(keys) /\ 1 - 1 = 0
      BY <1>2
    <2>3. QED
      BY <1>2, <2>1, <2>2
  <1>5. PICK next : next = SignAndAppend(cond, SignBegin, "standard", key)
    OBVIOUS
  <1>6. next.cond = OneSigned(cond, key, SignBegin, "standard")
    BY <1>5 DEF SignAndAppend, OneSigned
  <1>7. PICK signer : signer = SignOrigin(after[0], key)
    OBVIOUS
  <1>8. signer.ok /\ signer.cond = next.cond
    BY <1>4, <1>5, <1>7 DEF SignOrigin, Oversigned
  <1>9. SignedBy(cond, <<key>>) = signer /\ ~signer.cond.multi
    <2>1. PICK c \in Condition : c = cond
      OBVIOUS
    <2>2. next.cond.multi = c.multi
      BY <1>6, <2>1 DEF OneSigned, Condition
    <2>3. QED
      BY <1>1, <1>3, <1>4, <1>7, <1>8, <2>1, <2>2
  <1>10. QED
    BY <1>6, <1>8, <1>9 DEF SignAll

\* When those that have signed are the first public keys, the others are left.
TheRest(publicKeys, keys, rest) ==
    \A m \in 0..Len(publicKeys) :
        /\ \A i \in 1..m : \E j \in DOMAIN keys : publicKeys[i] = keys[j]
        /\ \A i \in (m + 1)..Len(publicKeys), j \in DOMAIN keys : publicKeys[i] # keys[j]
        => /\ Len(rest) = Len(publicKeys) - m
           /\ \A i \in 1..Len(rest) : rest[i] = publicKeys[m + i]

\* The public keys that are left are none of the signing keys'; if those come
\* first and no more, they are the others.
LEMMA UnsignedAre ==
    ASSUME NEW publicKeys \in Seq(Keys), NEW keys \in Seq(Keys),
           NEW rest, rest = Unsigned(publicKeys, keys)
    PROVE  /\ rest \in Seq(Keys)
           /\ \A i \in DOMAIN rest, j \in DOMAIN keys : rest[i] # keys[j]
           /\ TheRest(publicKeys, keys, rest)
  <1>1. PICK signed : signed = {keys[i] : i \in DOMAIN keys}
    OBVIOUS
  <1>2. PICK left : Left(publicKeys, signed, left) /\ rest = left[Len(publicKeys)]
    BY <1>1, LeftThere
  <1>3. PICK len \in Nat : len = Len(publicKeys)
    OBVIOUS
  <1>4. /\ left[0] = <<>>
        /\ \A n \in 1..len : left[n] = IF publicKeys[n] \in signed THEN left[n - 1]
                                       ELSE Append(left[n - 1], publicKeys[n])
    BY <1>2, <1>3 DEF Left
  <1>5. \A n \in 1..len : publicKeys[n] \in Keys
    BY <1>3
  <1>6. \A n \in 0..len : left[n] \in Seq(Keys) /\ \A i \in DOMAIN left[n] : left[n][i] \notin signed
    <2>1. PICK T : T = {n \in 0..len : left[n] \in Seq(Keys)
                                         /\ \A i \in DOMAIN left[n] : left[n][i] \notin signed}
      OBVIOUS
    <2>2. 0 \in T
      <3>1. left[0] \in Seq(Keys) /\ DOMAIN left[0] = {}
        BY <1>4
      <3>2. QED
        BY <1>3, <2>1, <3>1
    <2>3. ASSUME NEW k \in 1..len, k - 1 \in T
          PROVE  k \in T
      <3>1. PICK s \in Seq(Keys) : s = left[k - 1]
        BY <2>1, <2>3
      <3>2. \A i \in DOMAIN s : s[i] \notin signed
        BY <2>1, <2>3, <3>1
      <3>3. k \in 0..len
        OBVIOUS
      <3>4. CASE publicKeys[k] \in signed
        <4>1. left[k] = s
          BY <1>4, <3>1, <3>4
        <4>2. QED
          BY <2>1, <3>2, <3>3, <4>1
      <3>5. CASE publicKeys[k] \notin signed
        <4>1. PICK key \in Keys : key = publicKeys[k]
          BY <1>5
        <4>2. PICK t \in Seq(Keys) : t = Append(s, key)
          <5>1. Append(s, key) \in Seq(Keys)
            OBVIOUS
          <5>2. QED
            BY <5>1
        <4>3. left[k] = t
          BY <1>4, <3>1, <3>5, <4>1, <4>2
        <4>4. \A i \in DOMAIN t : t[i] \notin signed
          BY <3>2, <3>5, <4>1, <4>2
        <4>5. QED
          BY <2>1, <3>3, <4>3, <4>4
      <3>6. QED
        BY <3>4, <3>5
    <2>4. \A n \in 0..len : n \in T
      BY ONLY <1>3, <2>2, <2>3, Along
    <2>5. QED
      BY <2>1, <2>4
  <1>7. rest \in Seq(Keys) /\ \A i \in DOMAIN rest : rest[i] \notin signed
    BY <1>2, <1>3, <1>6
  <1>8. ASSUME NEW m \in 0..len,
               \A i \in 1..m : publicKeys[i] \in signed,
               \A i \in (m + 1)..len : publicKeys[i] \notin signed
        PROVE  Len(rest) = len - m /\ \A i \in 1..Len(rest) : rest[i] = publicKeys[m + i]
    <2>1. PICK T : T = {n \in 0..len :
                          IF n <= m THEN Len(left[n]) = 0
                          ELSE Len(left[n]) = n - m
                                /\ \A i \in 1..(n - m) : left[n][i] = publicKeys[m + i]}
      OBVIOUS
    <2>2. 0 \in T
      BY <1>3, <1>4, <2>1
    <2>3. ASSUME NEW k \in 1..len, k - 1 \in T
          PROVE  k \in T
      <3>1. k \in 0..len /\ k - 1 \in 0..len
        OBVIOUS
      <3>2. PICK s \in Seq(Keys) : s = left[k - 1]
        BY <1>6, <3>1
      <3>3. CASE k <= m
        <4>1. k \in 1..m
          BY <3>3
        <4>2. left[k] = s
          BY <1>4, <1>8, <3>2, <4>1
        <4>3. QED
          BY <2>1, <2>3, <3>1, <3>2, <3>3, <4>2
      <3>4. CASE ~(k <= m)
        <4>1. k \in (m + 1)..len
          BY <3>4
        <4>2. PICK key \in Keys : key = publicKeys[k]
          BY <1>5
        <4>3. PICK t \in Seq(Keys) : t = Append(s, key)
          <5>1. Append(s, key) \in Seq(Keys)
            OBVIOUS
          <5>2. QED
            BY <5>1
        <4>4. left[k] = t
          BY <1>4, <1>8, <3>2, <4>1, <4>2, <4>3
        <4>5. Len(s) = (k - 1) - m /\ \A i \in 1..((k - 1) - m) : s[i] = publicKeys[m + i]
          BY <2>1, <2>3, <3>1, <3>2, <3>4
        <4>6. Len(t) = k - m
          BY <4>3, <4>5
        <4>7. ASSUME NEW i \in 1..(k - m)
              PROVE  t[i] = publicKeys[m + i]
          <5>1. CASE i <= (k - 1) - m
            BY <4>3, <4>5, <5>1
          <5>2. CASE ~(i <= (k - 1) - m)
            <6>1. i = Len(s) + 1 /\ m + i = k
              BY <4>5, <5>2
            <6>2. QED
              BY <4>2, <4>3, <6>1
          <5>3. QED
            BY <5>1, <5>2
        <4>8. QED
          BY <2>1, <3>1, <3>4, <4>4, <4>6, <4>7
      <3>5. QED
        BY <3>3, <3>4
    <2>4. \A n \in 0..len : n \in T
      BY ONLY <1>3, <2>2, <2>3, Along
    <2>5. len \in T /\ rest = left[len]
      BY <1>2, <1>3, <2>4
    <2>6. CASE len = m
      BY <2>1, <2>5, <2>6
    <2>7. CASE len # m
      BY <2>1, <2>5, <2>7
    <2>8. QED
      BY <2>6, <2>7
  <1>9. \A k : k \in signed <=> \E j \in DOMAIN keys : k = keys[j]
    BY <1>1
  <1>10. ASSUME NEW m \in 0..Len(publicKeys),
                \A i \in 1..m : \E j \in DOMAIN keys : publicKeys[i] = keys[j],
                \A i \in (m + 1)..Len(publicKeys), j \in DOMAIN keys : publicKeys[i] # keys[j]
         PROVE  /\ Len(rest) = Len(publicKeys) - m
                /\ \A i \in 1..Len(rest) : rest[i] = publicKeys[m + i]
    <2>1. \A i \in 1..m : publicKeys[i] \in signed
      BY <1>9, <1>10
    <2>2. \A i \in (m + 1)..Len(publicKeys) : publicKeys[i] \notin signed
      BY <1>9, <1>10
    <2>3. QED
      BY <1>3, <1>8, <2>1, <2>2
  <1>11. \A i \in DOMAIN rest, j \in DOMAIN keys : rest[i] # keys[j]
    BY <1>7, <1>9
  <1>12. QED
    BY <1>7, <1>10, <1>11 DEF TheRest

\* The signer of several keys, after k of them, if none has thrown.
SignedUpTo(cond, keys, after, k) ==
    /\ after[k].cond.multi /\ after[k].cond.owners = cond.owners
    /\ after[k].cond.required = cond.required
    /\ after[k].cond.nonce = cond.nonce /\ after[k].cond.fee = cond.fee
    /\ Len(after[k].cond.fields) = k /\ k <= cond.required
    /\ \A i \in 1..k :
         /\ after[k].cond.fields[i]
              = Signature(keys[i], keys[i] \in EndsIn01, PreSign(after[i - 1].hash, "standard", cond))
         /\ after[i].hash
              = PostSign(PreSign(after[i - 1].hash, "standard", cond), keys[i], keys[i] \in Compressed)

SignerRecord == [cond: Condition, hash: Hash, ok: BOOLEAN]

\* A condition with one more field.
LEMMA OneMore ==
    ASSUME NEW cond \in Condition, NEW field \in Field, NEW c,
           c = [cond EXCEPT !.fields = Append(@, field)]
    PROVE  /\ c \in Condition /\ c.multi = cond.multi /\ c.owners = cond.owners
           /\ c.required = cond.required /\ c.nonce = cond.nonce /\ c.fee = cond.fee
           /\ Len(c.fields) = Len(cond.fields) + 1
           /\ \A i \in 1..Len(cond.fields) : c.fields[i] = cond.fields[i]
           /\ c.fields[Len(cond.fields) + 1] = field
  <1>1. PICK s \in Seq(Field) : s = cond.fields
    BY DEF Condition
  <1>2. PICK t \in Seq(Field) : t = Append(s, field)
    <2>1. Append(s, field) \in Seq(Field)
      OBVIOUS
    <2>2. QED
      BY <2>1
  <1>3. Len(t) = Len(s) + 1 /\ (\A i \in 1..Len(s) : t[i] = s[i]) /\ t[Len(s) + 1] = field
    BY <1>2
  <1>4. PICK d \in Condition : d = [cond EXCEPT !.fields = t]
    <2>1. [cond EXCEPT !.fields = t] \in Condition
      BY DEF Condition
    <2>2. QED
      BY <2>1
  <1>5. c = d
    BY <1>1, <1>2, <1>4
  <1>6. /\ d.multi = cond.multi /\ d.owners = cond.owners /\ d.required = cond.required
        /\ d.nonce = cond.nonce /\ d.fee = cond.fee /\ d.fields = t
    BY <1>4 DEF Condition
  <1>7. QED
    BY <1>1, <1>3, <1>5, <1>6

\* Several keys sign, one after the other.
LEMMA ManySign ==
    ASSUME NEW cond \in Condition, cond.multi, cond.fields = <<>>, NEW keys \in Seq(Keys),
           NEW after, Signers(cond, keys, after)
    PROVE  \A k \in 0..Len(keys) :
             after[k] \in SignerRecord /\ (after[k].ok => SignedUpTo(cond, keys, after, k))
  <1>1. PICK len \in Nat : len = Len(keys)
    OBVIOUS
  <1>2. /\ after[0] = [cond |-> cond, hash |-> SignBegin, ok |-> TRUE]
        /\ \A n \in 1..len : after[n] = SignOrigin(after[n - 1], keys[n])
    BY <1>1 DEF Signers
  <1>3. PICK T : T = {k \in 0..len :
            after[k] \in SignerRecord /\ (after[k].ok => SignedUpTo(cond, keys, after, k))}
    OBVIOUS
  <1>4. 0 \in T
    <2>1. after[0] \in SignerRecord
      BY <1>2, Hashing DEF SignerRecord
    <2>2. after[0].cond = cond /\ cond.required \in Nat /\ cond.multi \in BOOLEAN
      BY <1>2 DEF Condition
    <2>3. SignedUpTo(cond, keys, after, 0)
      <3>1. Len(cond.fields) = 0
        OBVIOUS
      <3>2. QED
        BY <2>2, <3>1 DEF SignedUpTo
    <2>4. 0 \in 0..len
      BY <1>1
    <2>5. QED
      BY <1>3, <2>1, <2>3, <2>4
  <1>5. ASSUME NEW k \in 1..len, k - 1 \in T
        PROVE  k \in T
    <2>1. k \in 0..len /\ k - 1 \in 0..len /\ k - 1 \in Nat
      OBVIOUS
    <2>2. PICK old \in SignerRecord : old = after[k - 1]
      BY <1>3, <1>5
    <2>3. old.ok => SignedUpTo(cond, keys, after, k - 1)
      BY <1>3, <1>5, <2>2
    <2>4. PICK key \in Keys : key = keys[k]
      BY <1>1
    <2>5. after[k] = SignOrigin(old, key)
      BY <1>2, <2>2, <2>4
    <2>6. old.cond \in Condition /\ old.hash \in Hash /\ old.ok \in BOOLEAN
      BY DEF SignerRecord
    <2>7. CASE ~old.ok \/ Oversigned(old.cond)
      <3>1. PICK new \in SignerRecord : new = [old EXCEPT !.ok = FALSE]
        <4>1. [old EXCEPT !.ok = FALSE] \in SignerRecord
          BY DEF SignerRecord
        <4>2. QED
          BY <4>1
      <3>2. after[k] = new /\ ~new.ok
        BY <2>5, <2>7, <3>1 DEF SignOrigin, SignerRecord
      <3>3. QED
        BY <1>3, <2>1, <3>2
    <2>8. CASE old.ok /\ ~Oversigned(old.cond)
      <3>1. SignedUpTo(cond, keys, after, k - 1)
        BY <2>3, <2>8
      <3>2. /\ old.cond.multi /\ old.cond.owners = cond.owners /\ old.cond.required = cond.required
            /\ old.cond.nonce = cond.nonce /\ old.cond.fee = cond.fee
            /\ Len(old.cond.fields) = k - 1 /\ k - 1 <= cond.required
            /\ \A i \in 1..(k - 1) :
                 /\ old.cond.fields[i] = Signature(keys[i], keys[i] \in EndsIn01,
                                            PreSign(after[i - 1].hash, "standard", cond))
                 /\ after[i].hash = PostSign(PreSign(after[i - 1].hash, "standard", cond), keys[i],
                                             keys[i] \in Compressed)
        BY <2>2, <3>1 DEF SignedUpTo
      <3>3. cond.required \in Nat /\ k - 1 < cond.required
        BY <2>8, <3>2 DEF Oversigned, Condition
      <3>4. PICK pre \in Hash : pre = PreSign(old.hash, "standard", old.cond)
        <4>1. "standard" \in AuthTypes
          BY DEF AuthTypes
        <4>2. QED
          BY <2>6, <4>1, Hashing
      <3>5. pre = PreSign(after[k - 1].hash, "standard", cond)
        BY <2>2, <3>2, <3>4 DEF PreSign
      <3>6. PICK field \in Field : field = Signature(key, key \in EndsIn01, pre)
        <4>1. (key \in EndsIn01) \in BOOLEAN
          OBVIOUS
        <4>2. Signature(key, key \in EndsIn01, pre) \in Field
          BY <4>1, Fields
        <4>3. QED
          BY <4>2
      <3>7. PICK next \in Hash : next = PostSign(pre, key, key \in Compressed)
        <4>1. (key \in Compressed) \in BOOLEAN
          OBVIOUS
        <4>2. PostSign(pre, key, key \in Compressed) \in Hash
          BY <4>1, Hashing
        <4>3. QED
          BY <4>2
      <3>8. PICK c \in Condition : c = [old.cond EXCEPT !.fields = Append(@, field)]
        BY <2>6, OneMore
      <3>9. /\ c.multi = old.cond.multi /\ c.owners = old.cond.owners
            /\ c.required = old.cond.required /\ c.nonce = old.cond.nonce /\ c.fee = old.cond.fee
            /\ Len(c.fields) = (k - 1) + 1
            /\ \A i \in 1..(k - 1) : c.fields[i] = old.cond.fields[i]
            /\ c.fields[(k - 1) + 1] = field
        <4>1. PICK o \in Condition : o = old.cond
          BY <2>6
        <4>2. c = [o EXCEPT !.fields = Append(@, field)]
          BY <3>8, <4>1
        <4>3. /\ c.multi = o.multi /\ c.owners = o.owners
              /\ c.required = o.required /\ c.nonce = o.nonce /\ c.fee = o.fee
              /\ Len(c.fields) = Len(o.fields) + 1
              /\ \A i \in 1..Len(o.fields) : c.fields[i] = o.fields[i]
              /\ c.fields[Len(o.fields) + 1] = field
          BY ONLY <4>2, OneMore
        <4>4. Len(o.fields) = k - 1
          BY <3>2, <4>1
        <4>5. QED
          BY <4>1, <4>3, <4>4
      <3>10. after[k] = [cond |-> c, hash |-> next, ok |-> TRUE]
        BY <2>5, <2>8, <3>2, <3>4, <3>6, <3>7, <3>8 DEF SignOrigin, SignAndAppend
      <3>11. after[k] \in SignerRecord /\ after[k].cond = c /\ after[k].hash = next
        BY <3>10 DEF SignerRecord
      <3>12. ASSUME NEW i \in 1..k
             PROVE  /\ c.fields[i] = Signature(keys[i], keys[i] \in EndsIn01,
                                        PreSign(after[i - 1].hash, "standard", cond))
                    /\ after[i].hash = PostSign(PreSign(after[i - 1].hash, "standard", cond),
                                                keys[i], keys[i] \in Compressed)
        <4>1. CASE i = k
          <5>1. (k - 1) + 1 = k
            OBVIOUS
          <5>2. QED
            BY <2>4, <3>5, <3>6, <3>7, <3>9, <3>11, <4>1, <5>1
        <4>2. CASE i # k
          <5>1. i \in 1..(k - 1)
            BY <4>2
          <5>2. QED
            BY <3>2, <3>9, <5>1
        <4>3. QED
          BY <4>1, <4>2
      <3>13. Len(c.fields) = k /\ k <= cond.required
        BY <3>3, <3>9
      <3>14. SignedUpTo(cond, keys, after, k)
        BY <3>2, <3>9, <3>11, <3>12, <3>13 DEF SignedUpTo
      <3>15. QED
        BY <1>3, <2>1, <3>11, <3>14
    <2>9. QED
      BY <2>7, <2>8
  <1>6. \A k \in 0..len : k \in T
    BY ONLY <1>1, <1>4, <1>5, Along
  <1>7. QED
    BY <1>1, <1>3, <1>6

\* The signing keys are those required, the first of the public keys.
WellOrdered(keys, publicKeys, required) ==
    /\ Len(keys) = required /\ Len(keys) <= Len(publicKeys)
    /\ \A i \in DOMAIN keys :
         /\ keys[i] = publicKeys[i] /\ (keys[i] \in EndsIn01 => keys[i] \in Compressed)
         /\ \A j \in (required + 1)..Len(publicKeys) : publicKeys[j] # keys[i]

\* What several keys have signed verifies when they are well ordered, and only then.
LEMMA ManyVerify ==
    ASSUME NEW cond \in Condition, cond.multi, cond.fields = <<>>, NEW keys \in Seq(Keys),
           NEW publicKeys \in Seq(Keys), cond.owners = publicKeys,
           NEW signed, signed = SignAll(cond, publicKeys, keys), signed.ok
    PROVE  /\ signed.cond \in Condition /\ signed.cond.multi /\ signed.cond.owners = cond.owners
           /\ signed.cond.required = cond.required /\ signed.cond.nonce = cond.nonce
           /\ signed.cond.fee = cond.fee
           /\ NodeVerifies(signed.cond, SignBegin, "standard").ok
                <=> WellOrdered(keys, publicKeys, cond.required)
  <1>1. PICK m \in Nat : m = Len(keys) /\ DOMAIN keys = 1..m
    OBVIOUS
  <1>2. PICK p \in Nat : p = Len(publicKeys) /\ DOMAIN publicKeys = 1..p
    OBVIOUS
  <1>3. PICK r \in Nat : r = cond.required
    BY DEF Condition
  <1>4. PICK after : Signers(cond, keys, after) /\ SignedBy(cond, keys) = after[m]
    BY <1>1, SignersThere
  <1>5. PICK rest \in Seq(Keys) : rest = Unsigned(publicKeys, keys)
    BY UnsignedAre
  <1>6. PICK u \in Nat : u = Len(rest) /\ DOMAIN rest = 1..u
    OBVIOUS
  <1>7. after[m].ok /\ signed.cond = AppendPubkeys(after[m].cond, rest)
    BY <1>4, <1>5 DEF SignAll
  <1>8. after[m] \in SignerRecord /\ SignedUpTo(cond, keys, after, m)
    <2>1. \A k \in 0..Len(keys) :
             after[k] \in SignerRecord /\ (after[k].ok => SignedUpTo(cond, keys, after, k))
      BY ONLY <1>4, ManySign, cond \in Condition, cond.multi, cond.fields = <<>>, keys \in Seq(Keys)
    <2>2. m \in 0..Len(keys)
      BY <1>1
    <2>3. QED
      BY <1>7, <2>1, <2>2
  <1>9. PICK c \in Condition : c = after[m].cond
    BY <1>8 DEF SignerRecord
  <1>10. /\ c.multi /\ c.owners = publicKeys /\ c.required = r /\ c.nonce = cond.nonce
         /\ c.fee = cond.fee /\ Len(c.fields) = m
         /\ \A i \in 1..m :
              /\ c.fields[i] = Signature(keys[i], keys[i] \in EndsIn01,
                                         PreSign(after[i - 1].hash, "standard", cond))
              /\ after[i].hash = PostSign(PreSign(after[i - 1].hash, "standard", cond), keys[i],
                                          keys[i] \in Compressed)
    BY <1>3, <1>8, <1>9 DEF SignedUpTo
  <1>11. PICK F \in Seq(Field) : F = c.fields
    BY DEF Condition
  <1>12. PICK P \in Seq(Field) :
            P = [i \in DOMAIN rest |-> PublicKey(rest[i])] /\ DOMAIN P = 1..u /\ Len(P) = u
    <2>1. \A i \in 1..u : rest[i] \in Keys /\ PublicKey(rest[i]) \in Field
      BY <1>6, Fields
    <2>2. PICK P : P = [i \in 1..u |-> PublicKey(rest[i])]
      OBVIOUS
    <2>3. P \in [1..u -> Field]
      BY <2>1, <2>2
    <2>4. P \in Seq(Field) /\ Len(P) = u /\ DOMAIN P = 1..u
      BY <2>3
    <2>5. QED
      BY <1>6, <2>2, <2>4
  <1>13. PICK G \in Seq(Field) : G = F \o P
    <2>1. F \o P \in Seq(Field)
      BY ConcatProperties
    <2>2. QED
      BY <2>1
  <1>14. /\ Len(G) = m + u /\ DOMAIN G = 1..(m + u)
         /\ \A i \in 1..m : G[i] = F[i]
         /\ \A i \in 1..u : G[m + i] = P[i]
    <2>1. Len(F) = m
      BY <1>10, <1>11
    <2>11. F \in Seq(Field) /\ P \in Seq(Field)
      OBVIOUS
    <2>12. /\ Len(F \o P) = Len(F) + Len(P)
          /\ \A i \in 1..(Len(F) + Len(P)) :
               (F \o P)[i] = IF i <= Len(F) THEN F[i] ELSE P[i - Len(F)]
      BY ONLY <2>11, ConcatProperties
    <2>2. /\ Len(G) = m + u
          /\ \A i \in 1..(m + u) : G[i] = IF i <= m THEN F[i] ELSE P[i - m]
      BY <1>12, <1>13, <2>1, <2>12
    <2>3. DOMAIN G = 1..(m + u)
      BY <2>2
    <2>4. \A i \in 1..m : G[i] = F[i]
      BY <2>2
    <2>5. ASSUME NEW i \in 1..u
          PROVE  G[m + i] = P[i]
      <3>1. m + i \in 1..(m + u) /\ ~(m + i <= m) /\ (m + i) - m = i
        OBVIOUS
      <3>2. QED
        BY <2>2, <3>1
    <2>6. QED
      BY <2>2, <2>3, <2>4, <2>5
  <1>15. PICK d \in Condition : d = [c EXCEPT !.fields = G]
    <2>1. [c EXCEPT !.fields = G] \in Condition
      BY DEF Condition
    <2>2. QED
      BY <2>1
  <1>16. signed.cond = d
    BY <1>7, <1>9, <1>11, <1>12, <1>13, <1>15 DEF AppendPubkeys
  <1>17. /\ d.multi /\ d.owners = publicKeys /\ d.required = r /\ d.nonce = cond.nonce
         /\ d.fee = cond.fee /\ d.fields = G
    BY <1>10, <1>15 DEF Condition
  <1>18. \A hash : PreSign(hash, "standard", d) = PreSign(hash, "standard", cond)
    BY <1>17 DEF PreSign
  <1>19. \A i \in 1..m :
           /\ G[i].kind = "signature" /\ G[i].key = keys[i]
           /\ G[i].compressed = (keys[i] \in EndsIn01)
           /\ G[i].over = PreSign(after[i - 1].hash, "standard", cond)
    <2>1. TAKE i \in 1..m
    <2>2. G[i] = Signature(keys[i], keys[i] \in EndsIn01,
                           PreSign(after[i - 1].hash, "standard", cond))
      BY <1>10, <1>11, <1>14
    <2>3. PICK over : over = PreSign(after[i - 1].hash, "standard", cond)
      OBVIOUS
    <2>4. PICK compressed : compressed = (keys[i] \in EndsIn01)
      OBVIOUS
    <2>5. G[i] = [kind |-> "signature", key |-> keys[i], compressed |-> compressed,
                  over |-> over]
      BY <2>2, <2>3, <2>4 DEF Signature
    <2>6. /\ G[i].kind = "signature" /\ G[i].key = keys[i]
          /\ G[i].compressed = compressed /\ G[i].over = over
      BY <2>5
    <2>7. QED
      BY <2>3, <2>4, <2>6
  <1>20. \A i \in 1..u :
           /\ G[m + i].kind = "publicKey" /\ G[m + i].key = rest[i]
           /\ G[m + i].compressed = (rest[i] \in Compressed)
    <2>1. TAKE i \in 1..u
    <2>2. G[m + i] = PublicKey(rest[i])
      BY <1>6, <1>12, <1>14
    <2>3. PICK compressed : compressed = (rest[i] \in Compressed)
      OBVIOUS
    <2>4. G[m + i] = [kind |-> "publicKey", key |-> rest[i], compressed |-> compressed,
                      over |-> NoHash]
      BY <2>2, <2>3 DEF PublicKey
    <2>5. /\ G[m + i].kind = "publicKey" /\ G[m + i].key = rest[i]
          /\ G[m + i].compressed = compressed
      BY <2>4
    <2>6. QED
      BY <2>3, <2>5
  <1>21. PICK hashes : Hashed(G, d, SignBegin, "standard", hashes)
                       /\ Verified(G, d, SignBegin, "standard", hashes)
    BY <1>17, HashesThere
  <1>22. PICK signatures : signatures = {i \in DOMAIN G : G[i].kind = "signature"}
    OBVIOUS
  <1>23. \A i \in 1..(m + u) : i \in 1..m \/ \E j \in 1..u : i = m + j
    <2>1. TAKE i \in 1..(m + u)
    <2>2. i \in 1..m \/ (i - m \in 1..u /\ i = m + (i - m))
      OBVIOUS
    <2>3. QED
      BY <2>2
  <1>24. signatures = 1..m /\ Cardinality(signatures) = m
    <2>1. \A i \in signatures : i \in 1..m
      <3>1. TAKE i \in signatures
      <3>2. i \in 1..(m + u) /\ G[i].kind = "signature"
        BY <1>14, <1>22
      <3>3. QED
        BY <1>20, <1>23, <3>2
    <2>2. \A i \in 1..m : i \in signatures
      <3>1. TAKE i \in 1..m
      <3>2. i \in 1..(m + u)
        OBVIOUS
      <3>3. QED
        BY <1>14, <1>19, <1>22, <3>2
    <2>3. signatures = 1..m
      BY <2>1, <2>2
    <2>4. QED
      BY <2>3, FS_Interval
  <1>25. PICK given : given = [i \in DOMAIN G |-> <<G[i].key, G[i].compressed>>]
    OBVIOUS
  <1>26. PICK owned : owned = [i \in DOMAIN d.owners |->
                                <<d.owners[i], d.owners[i] \in Compressed>>]
    OBVIOUS
  <1>27. NodeVerifies(d, SignBegin, "standard").ok <=>
           /\ \A i \in 1..m : G[i].over = PreSign(hashes[i - 1], "standard", d)
           /\ m = r /\ given = owned
    BY <1>17, <1>21, <1>22, <1>24, <1>25, <1>26 DEF Verified
  <1>28. ASSUME m = r, given = owned
         PROVE  WellOrdered(keys, publicKeys, r)
    <2>1. m + u = p
      <3>1. DOMAIN given = 1..(m + u) /\ DOMAIN owned = 1..p
        BY <1>2, <1>14, <1>17, <1>25, <1>26
      <3>2. 1..(m + u) = 1..p
        BY <1>28, <3>1
      <3>3. m + u \in Nat
        OBVIOUS
      <3>4. QED
        BY <3>2, <3>3
    <2>2. \A i \in 1..p : G[i].key = publicKeys[i]
                          /\ (G[i].compressed <=> publicKeys[i] \in Compressed)
      <3>1. TAKE i \in 1..p
      <3>2. given[i] = <<G[i].key, G[i].compressed>>
        BY <1>14, <1>25, <2>1
      <3>3. owned[i] = <<publicKeys[i], publicKeys[i] \in Compressed>>
        BY <1>2, <1>17, <1>26
      <3>4. G[i].key = publicKeys[i] /\ G[i].compressed = (publicKeys[i] \in Compressed)
        BY <1>28, <3>2, <3>3
      <3>5. QED
        BY <3>4
    <2>3. ASSUME NEW i \in 1..m
          PROVE  keys[i] = publicKeys[i] /\ (keys[i] \in EndsIn01 => keys[i] \in Compressed)
      <3>1. i \in 1..p
        BY <2>1
      <3>2. G[i].key = keys[i] /\ G[i].compressed = (keys[i] \in EndsIn01)
        BY <1>19
      <3>3. QED
        BY <2>2, <3>1, <3>2
    <2>4. ASSUME NEW i \in 1..m, NEW j \in (r + 1)..p
          PROVE  publicKeys[j] # keys[i]
      <3>1. PICK k \in 1..u : j = m + k
        <4>1. j - m \in 1..u /\ j = m + (j - m)
          BY <1>28, <2>1
        <4>2. QED
          BY <4>1
      <3>2. j \in 1..p
        BY <1>28
      <3>3. publicKeys[j] = rest[k]
        BY <1>20, <2>2, <3>1, <3>2
      <3>4. \A a \in DOMAIN rest, b \in DOMAIN keys : rest[a] # keys[b]
        BY <1>5, UnsignedAre
      <3>5. QED
        BY <1>1, <1>6, <3>3, <3>4
    <2>5. m <= p
      BY <2>1
    <2>6. QED
      BY <1>1, <1>2, <1>28, <2>3, <2>4, <2>5 DEF WellOrdered
  <1>29. ASSUME WellOrdered(keys, publicKeys, r)
         PROVE  /\ \A i \in 1..m : G[i].over = PreSign(hashes[i - 1], "standard", d)
                /\ m = r /\ given = owned
    <2>1. /\ m = r /\ m <= p
          /\ \A i \in 1..m :
               /\ keys[i] = publicKeys[i] /\ (keys[i] \in EndsIn01 => keys[i] \in Compressed)
               /\ \A j \in (r + 1)..p : publicKeys[j] # keys[i]
      BY <1>1, <1>2, <1>29 DEF WellOrdered
    <2>2. \A i \in 1..m : (keys[i] \in EndsIn01) = (keys[i] \in Compressed)
      BY <2>1, SigningAssumption
    <2>3. u = p - m /\ \A i \in 1..u : rest[i] = publicKeys[m + i]
      <3>1. m \in 0..Len(publicKeys)
        BY <1>2, <2>1
      <3>2. \A i \in 1..m : \E j \in DOMAIN keys : publicKeys[i] = keys[j]
        BY <1>1, <2>1
      <3>3. \A i \in (m + 1)..Len(publicKeys), j \in DOMAIN keys : publicKeys[i] # keys[j]
        BY <1>1, <1>2, <2>1
      <3>4. Len(rest) = Len(publicKeys) - m
            /\ \A i \in 1..Len(rest) : rest[i] = publicKeys[m + i]
        <4>1. TheRest(publicKeys, keys, rest)
          BY <1>5, UnsignedAre
        <4>2. QED
          BY <3>1, <3>2, <3>3, <4>1 DEF TheRest
      <3>5. QED
        BY <1>2, <1>6, <3>4
    <2>4. given = owned
      <3>1. m + u = p
        BY <2>1, <2>3
      <3>2. DOMAIN given = 1..p /\ DOMAIN owned = 1..p
        BY <1>2, <1>14, <1>17, <1>25, <1>26, <3>1
      <3>3. ASSUME NEW i \in 1..p
            PROVE  given[i] = owned[i]
        <4>1. given[i] = <<G[i].key, G[i].compressed>>
          BY <1>14, <1>25, <3>1
        <4>2. owned[i] = <<publicKeys[i], publicKeys[i] \in Compressed>>
          BY <1>2, <1>17, <1>26
        <4>3. CASE i \in 1..m
          <5>1. G[i].key = keys[i] /\ G[i].compressed = (keys[i] \in EndsIn01)
            BY <1>19, <4>3
          <5>2. keys[i] = publicKeys[i]
            BY <2>1, <4>3
          <5>3. G[i].compressed = (publicKeys[i] \in Compressed)
            BY <2>2, <4>3, <5>1, <5>2
          <5>4. QED
            BY ONLY <4>1, <4>2, <5>1, <5>2, <5>3
        <4>4. CASE i \notin 1..m
          <5>1. PICK j \in 1..u : i = m + j
            BY <1>23, <3>1, <4>4
          <5>2. G[i].key = rest[j] /\ G[i].compressed = (rest[j] \in Compressed)
            BY <1>20, <5>1
          <5>3. rest[j] = publicKeys[i]
            BY <2>3, <5>1
          <5>4. QED
            BY <4>1, <4>2, <5>2, <5>3
        <4>5. QED
          BY <4>3, <4>4
      <3>4. QED
        BY <1>25, <1>26, <3>2, <3>3
    <2>5. \A i \in 0..m : hashes[i] = after[i].hash
      <3>1. PICK T : T = {i \in 0..m : hashes[i] = after[i].hash}
        OBVIOUS
      <3>2. /\ hashes[0] = SignBegin
            /\ \A i \in 1..(m + u) : hashes[i] = Recovered(hashes[i - 1], G[i], d, "standard")
        BY <1>14, <1>21 DEF Hashed
      <3>3. 0 \in T
        <4>1. after[0].hash = SignBegin
          BY <1>4 DEF Signers
        <4>2. 0 \in 0..m
          OBVIOUS
        <4>3. QED
          BY <3>1, <3>2, <4>1, <4>2
      <3>4. ASSUME NEW k \in 1..m, k - 1 \in T
            PROVE  k \in T
        <4>1. k \in 1..(m + u) /\ k \in 0..m
          OBVIOUS
        <4>2. hashes[k - 1] = after[k - 1].hash
          BY <3>1, <3>4
        <4>3. hashes[k] = PostSign(PreSign(after[k - 1].hash, "standard", cond), keys[k],
                                   keys[k] \in EndsIn01)
          BY <1>18, <1>19, <3>2, <4>1, <4>2 DEF Recovered
        <4>4. hashes[k] = after[k].hash
          BY <1>10, <2>2, <4>3
        <4>5. QED
          BY <3>1, <4>1, <4>4
      <3>5. \A k \in 0..m : k \in T
        BY ONLY <3>3, <3>4, Along
      <3>6. QED
        BY <3>1, <3>5
    <2>6. ASSUME NEW i \in 1..m
          PROVE  G[i].over = PreSign(hashes[i - 1], "standard", d)
      <3>1. i - 1 \in 0..m
        OBVIOUS
      <3>2. QED
        BY <1>18, <1>19, <2>5, <3>1
    <2>7. QED
      BY <2>1, <2>4, <2>6
  <1>30. NodeVerifies(d, SignBegin, "standard").ok <=> WellOrdered(keys, publicKeys, r)
    BY <1>27, <1>28, <1>29
  <1>31. QED
    BY <1>3, <1>16, <1>17, <1>30

----------------------------------------------------------------------------
(* The inductive invariant.                                                *)

Transaction == [auth: AuthTypes, origin: Condition, sponsor: Condition]

Operation ==
    [kind: {"none", "make", "sponsor"}, phase: Phases,
     opt: MakeOptions \cup SponsorOptions \cup {Unset}, tx: Calls \cup {Unset},
     fee: Nat, nonce: Nat, used: Nat]

Asking == {"fee", "nonce", "answered"}

AuthOf(o) == IF o.sponsored THEN "sponsored" ELSE "standard"

\* A transaction made with the options o that nobody has signed yet.
Blank(o, tx) ==
    /\ tx \in Transaction /\ tx.auth = AuthOf(o)
    /\ tx.origin.multi = o.multi /\ tx.origin.owners = o.publicKeys
    /\ tx.origin.required = o.numSignatures /\ tx.origin.fields = <<>>

\* If verifyOrigin returns a hash, the origin verifies, and a node that has
\* verified it goes on with that hash.
Continues(tx) ==
    VerifyOrigin(tx.origin) # NoHash
    => LET node == NodeVerifies(tx.origin, SignBegin, "standard") IN
       node.ok /\ node.hash = VerifyOrigin(tx.origin)

\* What a make call `me` has resolved with, whoever sponsors it since.
Resolved(me, tx) ==
    /\ tx \in Transaction /\ tx.auth = AuthOf(me.opt)
    /\ tx.auth = "sponsored" => Continues(tx)
    /\ me.opt.nonce = Unset /\ ~me.opt.multi => tx.origin.nonce >= me.used

Making(c, me, tx) ==
    /\ me.opt \in MakeOptions /\ me.tx = c /\ me.phase # "idle"
    /\ me.used <= account[Payer(OriginCondition(me.opt, 0, 0))]
    /\ me.phase = "abi" => tx = NoTransaction
    /\ me.phase \in Asking => Blank(me.opt, tx)
    /\ me.phase = "answered" /\ ~me.opt.multi => me.nonce >= me.used
    /\ me.phase = "resolved" => Resolved(me, tx)

Sponsoring(me) ==
    /\ me.opt \in SponsorOptions /\ me.tx \in Calls /\ me.phase \notin {"idle", "abi"}
    /\ op[me.tx].kind = "make" /\ op[me.tx].phase = "resolved"
    /\ me.used <= account[Payer(SponsorCondition(me.opt.key, 0, 0))]
    /\ me.phase = "answered" => me.nonce >= me.used
    /\ me.phase = "resolved" /\ me.opt.nonce = Unset => me.nonce >= me.used

CallInv(c) ==
    /\ op[c].kind = "none" => op[c].phase = "idle" /\ txs[c] = NoTransaction
    /\ op[c].kind = "make" => Making(c, op[c], txs[c])
    /\ op[c].kind = "sponsor" => Sponsoring(op[c])

Typed ==
    /\ op \in [Calls -> Operation]
    /\ txs \in [Calls -> Transaction \cup {NoTransaction}]
    /\ account \in [Addresses -> Nat]

Kept ==
    /\ Typed
    /\ \A c \in Calls : CallInv(c)
    /\ \A tx \in pool : tx \in Transaction /\ NodeAccepts(tx)
    /\ OriginStaysValid
    /\ SponsoredStaysValid

----------------------------------------------------------------------------
(* The transactions that are made and sponsored.                           *)

LEMMA Options ==
    ASSUME NEW o \in MakeOptions
    PROVE  /\ o.sponsored \in BOOLEAN /\ o.multi \in BOOLEAN /\ o.abi \in BOOLEAN
           /\ o.publicKeys \in Seq(Keys) /\ o.publicKeys # <<>> /\ o.numSignatures \in Nat
           /\ o.signerKeys \in Seq(Keys) /\ OrZero(o.fee) \in Nat /\ OrZero(o.nonce) \in Nat
           /\ ~o.multi => /\ Len(o.publicKeys) = 1 /\ o.numSignatures = 1
                          /\ o.signerKeys \in {<<>>, o.publicKeys}
  <1>1. o \in MakeOption
    BY BuildersAssumption
  <1>2. /\ o.sponsored \in BOOLEAN /\ o.multi \in BOOLEAN /\ o.abi \in BOOLEAN
        /\ o.publicKeys \in Seq(Keys) /\ o.numSignatures \in Nat
        /\ o.signerKeys \in Seq(Keys) /\ o.fee \in Given /\ o.nonce \in Given
    BY <1>1 DEF MakeOption
  <1>3. OrZero(o.fee) \in Nat /\ OrZero(o.nonce) \in Nat
    BY <1>2 DEF OrZero, Given
  <1>4. /\ o.multi => o.publicKeys # <<>>
        /\ ~o.multi => /\ Len(o.publicKeys) = 1 /\ o.numSignatures = 1
                       /\ o.signerKeys \in {<<>>, o.publicKeys}
    BY BuildersAssumption
  <1>5. ASSUME ~o.multi PROVE o.publicKeys # <<>>
    <2>1. PICK keys \in Seq(Keys) : keys = o.publicKeys
      BY <1>2
    <2>2. Len(keys) = 1
      BY <1>4, <1>5, <2>1
    <2>3. keys # <<>>
      BY <2>2
    <2>4. QED
      BY <2>1, <2>3
  <1>6. QED
    BY <1>2, <1>3, <1>4, <1>5

\* What a sponsor starts from is a condition.
LEMMA SponsorConditions ==
    ASSUME NEW key \in Keys \cup {NoKey}, NEW nonce \in Nat, NEW fee \in Nat,
           NEW cond, cond = SponsorCondition(key, nonce, fee)
    PROVE  /\ cond \in Condition /\ ~cond.multi /\ cond.owners = <<key>> /\ cond.required = 1
           /\ cond.nonce = nonce /\ cond.fee = fee /\ cond.fields = <<>>
  <1>1. PICK owners \in Seq(Keys \cup {NoKey}) : owners = <<key>>
    <2>1. <<key>> \in Seq(Keys \cup {NoKey})
      OBVIOUS
    <2>2. QED
      BY <2>1
  <1>2. PICK fields \in Seq(Field) : fields = <<>>
    <2>1. <<>> \in Seq(Field)
      OBVIOUS
    <2>2. QED
      BY <2>1
  <1>3. cond = [multi |-> FALSE, owners |-> owners, required |-> 1, nonce |-> nonce,
                fee |-> fee, fields |-> fields]
    BY <1>1, <1>2 DEF SponsorCondition, NewCondition
  <1>4. QED
    BY <1>1, <1>2, <1>3 DEF Condition

\* A new transaction is one that nobody has signed.
LEMMA NewIsBlank ==
    ASSUME NEW o \in MakeOptions
    PROVE  Blank(o, NewTransaction(o))
  <1>1. PICK auth \in AuthTypes : auth = AuthOf(o)
    BY DEF AuthTypes, AuthOf
  <1>2. PICK sponsor \in Condition : sponsor = SponsorCondition(NoKey, 0, 0)
    BY SponsorConditions
  <1>3. PICK owners \in Seq(Keys \cup {NoKey}) : owners = o.publicKeys
    BY Options
  <1>4. PICK fields \in Seq(Field) : fields = <<>>
    <2>1. <<>> \in Seq(Field)
      OBVIOUS
    <2>2. QED
      BY <2>1
  <1>5. PICK nonce \in Nat : nonce = OrZero(o.nonce)
    BY Options
  <1>6. PICK fee \in Nat : fee = OrZero(o.fee)
    BY Options
  <1>7. PICK multi \in BOOLEAN : multi = o.multi
    BY Options
  <1>8. PICK required \in Nat : required = o.numSignatures
    BY Options
  <1>9. PICK origin \in Condition :
            origin = [multi |-> multi, owners |-> owners, required |-> required, nonce |-> nonce,
                      fee |-> fee, fields |-> fields]
    BY DEF Condition
  <1>10. NewTransaction(o) = [auth |-> auth, origin |-> origin, sponsor |-> sponsor]
    BY <1>1, <1>2, <1>3, <1>4, <1>5, <1>6, <1>7, <1>8, <1>9
       DEF NewTransaction, OriginCondition, NewCondition, AuthOf
  <1>11. /\ origin.multi = multi /\ origin.owners = owners
         /\ origin.required = required /\ origin.fields = fields
    BY <1>9
  <1>12. PICK tx \in Transaction : tx = NewTransaction(o)
    BY <1>10 DEF Transaction
  <1>13. tx.auth = auth /\ tx.origin = origin
    BY <1>10, <1>12
  <1>14. QED
    BY <1>1, <1>3, <1>4, <1>7, <1>8, <1>11, <1>12, <1>13 DEF Blank

\* A fee goes into the transaction of a make or of a sponsor.
LEMMA FeeSet ==
    ASSUME NEW tx \in Transaction, NEW fee \in Nat, NEW new, new = SetFee(tx, fee)
    PROVE  /\ new \in Transaction /\ new.auth = tx.auth /\ new.origin.nonce = tx.origin.nonce
           /\ tx.auth = "sponsored" => new.origin = tx.origin
           /\ \A o : Blank(o, tx) => Blank(o, new)
  <1>1. /\ tx.origin \in Condition /\ tx.sponsor \in Condition /\ tx.auth \in AuthTypes
        /\ tx = [auth |-> tx.auth, origin |-> tx.origin, sponsor |-> tx.sponsor]
    BY DEF Transaction
  <1>2. CASE tx.auth = "standard"
    <2>1. PICK origin : origin = [tx.origin EXCEPT !.fee = fee]
      OBVIOUS
    <2>2. /\ origin \in Condition /\ origin.nonce = tx.origin.nonce
          /\ origin.multi = tx.origin.multi /\ origin.owners = tx.origin.owners
          /\ origin.required = tx.origin.required /\ origin.fields = tx.origin.fields
      BY <1>1, <2>1 DEF Condition
    <2>3. new = [tx EXCEPT !.origin = origin]
      BY <1>1, <1>2, <2>1 DEF SetFee, Transaction
    <2>4. new \in Transaction /\ new.auth = tx.auth /\ new.origin = origin
      BY <1>1, <2>2, <2>3 DEF Transaction
    <2>5. QED
      BY <1>2, <2>2, <2>4 DEF Blank
  <1>3. CASE tx.auth # "standard"
    <2>1. PICK sponsor : sponsor = [tx.sponsor EXCEPT !.fee = fee]
      OBVIOUS
    <2>2. sponsor \in Condition
      BY <1>1, <2>1 DEF Condition
    <2>3. new = [tx EXCEPT !.sponsor = sponsor]
      BY <1>1, <1>3, <2>1 DEF SetFee, Transaction
    <2>4. new \in Transaction /\ new.auth = tx.auth /\ new.origin = tx.origin
      BY <1>1, <2>2, <2>3 DEF Transaction
    <2>5. QED
      BY <2>4 DEF Blank
  <1>4. QED
    BY <1>2, <1>3

\* So does a nonce.
LEMMA NonceSet ==
    ASSUME NEW tx \in Transaction, NEW nonce \in Nat, NEW new, new = SetNonce(tx, nonce)
    PROVE  /\ new \in Transaction /\ new.origin.nonce = nonce
           /\ \A o : Blank(o, tx) => Blank(o, new)
  <1>1. /\ tx.origin \in Condition /\ tx.sponsor \in Condition /\ tx.auth \in AuthTypes
        /\ tx = [auth |-> tx.auth, origin |-> tx.origin, sponsor |-> tx.sponsor]
    BY DEF Transaction
  <1>2. PICK origin : origin = [tx.origin EXCEPT !.nonce = nonce]
    OBVIOUS
  <1>3. /\ origin \in Condition /\ origin.nonce = nonce
        /\ origin.multi = tx.origin.multi /\ origin.owners = tx.origin.owners
        /\ origin.required = tx.origin.required /\ origin.fields = tx.origin.fields
    BY <1>1, <1>2 DEF Condition
  <1>4. new = [tx EXCEPT !.origin = origin]
    BY <1>1, <1>2 DEF SetNonce, Transaction
  <1>5. new \in Transaction /\ new.auth = tx.auth /\ new.origin = origin
    BY <1>1, <1>3, <1>4 DEF Transaction
  <1>6. QED
    BY <1>3, <1>5 DEF Blank

\* What a make function resolves with is signed as its options say.
LEMMA Finished ==
    ASSUME NEW o \in MakeOptions, NEW tx, Blank(o, tx), NEW new,
           NEW signed, signed = SignAll(tx.origin, o.publicKeys, o.signerKeys),
           \/ o.signerKeys = <<>> /\ new = tx
           \/ o.signerKeys # <<>> /\ signed.ok /\ new = [tx EXCEPT !.origin = signed.cond]
    PROVE  /\ new \in Transaction /\ new.auth = tx.auth /\ new.origin.nonce = tx.origin.nonce
           /\ Continues(new)
           /\ OriginVerifies(new) <=> InOrder(o)
  <1>1. /\ tx \in Transaction /\ tx.origin.multi = o.multi /\ tx.origin.owners = o.publicKeys
        /\ tx.origin.required = o.numSignatures /\ tx.origin.fields = <<>>
    BY DEF Blank
  <1>2. PICK origin \in Condition : origin = tx.origin
    BY <1>1 DEF Transaction
  <1>3. CASE o.signerKeys = <<>>
    <2>1. new = tx
      BY <1>3
    <2>2. Continues(new)
      BY <1>1, <2>1 DEF Continues, VerifyOrigin
    <2>3. ~NodeVerifies(origin, SignBegin, "standard").ok
      BY <1>1, <1>2, NoneVerifies, Options
    <2>4. ~OriginVerifies(new)
      BY <1>2, <2>1, <2>3 DEF OriginVerifies
    <2>5. QED
      BY <1>1, <1>3, <2>1, <2>2, <2>4 DEF InOrder
  <1>4. ASSUME o.signerKeys # <<>>, signed.cond \in Condition, signed.cond.nonce = origin.nonce
        PROVE  /\ new \in Transaction /\ new.auth = tx.auth
               /\ new.origin = signed.cond /\ new.origin.nonce = tx.origin.nonce
    <2>1. new = [tx EXCEPT !.origin = signed.cond]
      BY <1>4
    <2>2. QED
      BY <1>1, <1>2, <1>4, <2>1 DEF Transaction
  <1>5. CASE o.signerKeys # <<>> /\ ~o.multi
    <2>1. PICK key \in Keys : o.publicKeys = <<key>> /\ o.signerKeys = <<key>>
      <3>1. PICK keys \in Seq(Keys) : keys = o.publicKeys
        BY Options
      <3>2. Len(keys) = 1 /\ o.signerKeys = keys
        BY <1>5, <3>1, Options
      <3>3. PICK key \in Keys : key = keys[1]
        <4>1. 1 \in 1..Len(keys)
          BY <3>2
        <4>2. keys[1] \in Keys
          BY ONLY <4>1, keys \in Seq(Keys)
        <4>3. QED
          BY <4>2
      <3>4. PICK single \in Seq(Keys) : single = <<key>> /\ Len(single) = 1 /\ single[1] = key
        <4>1. <<key>> \in Seq(Keys)
          OBVIOUS
        <4>2. QED
          BY <4>1
      <3>5. keys = single
        <4>1. Len(keys) = Len(single) /\ \A i \in 1..Len(keys) : keys[i] = single[i]
          BY <3>2, <3>3, <3>4
        <4>2. QED
          BY <4>1, SeqEqual
      <3>6. QED
        BY <3>1, <3>2, <3>4, <3>5
    <2>2. o.numSignatures = 1
      BY <1>5, Options
    <2>3. PICK one : one = OneSigned(origin, key, SignBegin, "standard")
      OBVIOUS
    <2>4. ~origin.multi /\ origin.owners = <<key>> /\ origin.required = 1
      BY <1>1, <1>2, <1>5, <2>1, <2>2
    <2>5. signed.ok /\ signed.cond = one
      BY <1>2, <2>1, <2>3, <2>4, SignAllOne
    <2>6. SignBegin \in Hash /\ "standard" \in AuthTypes
      BY Hashing DEF AuthTypes
    <2>7. /\ one \in Condition /\ ~one.multi /\ one.owners = <<key>>
          /\ one.required = 1 /\ one.nonce = origin.nonce
          /\ Len(one.fields) = 1
          /\ NodeVerifies(one, SignBegin, "standard").ok
          /\ NodeVerifies(one, SignBegin, "standard").hash
               = PostSign(PreSign(SignBegin, "standard", one), key, key \in Compressed)
          /\ one.fields[1].key = key /\ one.fields[1].compressed = (key \in Compressed)
      BY ONLY <2>3, <2>4, <2>6, origin \in Condition, key \in Keys, OneVerifies
    <2>8. /\ new \in Transaction /\ new.auth = tx.auth
          /\ new.origin = one /\ new.origin.nonce = tx.origin.nonce
      BY <1>2, <1>4, <1>5, <2>5, <2>7
    <2>9. OriginVerifies(new)
      BY <2>7, <2>8 DEF OriginVerifies
    <2>10. VerifyOrigin(one) = NoHash \/ VerifyOrigin(one)
             = PostSign(PreSign(SignBegin, "standard", one), key, key \in Compressed)
      BY <2>7 DEF VerifyOrigin
    <2>11. Continues(new)
      BY <2>7, <2>8, <2>10 DEF Continues
    <2>12. QED
      BY <1>5, <2>8, <2>9, <2>11 DEF InOrder
  <1>6. CASE o.signerKeys # <<>> /\ o.multi
    <2>1. PICK keys \in Seq(Keys) : keys = o.signerKeys
      BY Options
    <2>2. PICK publicKeys \in Seq(Keys) : publicKeys = o.publicKeys
      BY Options
    <2>3. /\ origin.multi /\ origin.fields = <<>> /\ origin.owners = publicKeys
          /\ origin.required = o.numSignatures
      BY <1>1, <1>2, <1>6, <2>2
    <2>4. signed = SignAll(origin, publicKeys, keys) /\ signed.ok
      BY <1>2, <1>6, <2>1, <2>2
    <2>5. /\ signed.cond \in Condition /\ signed.cond.multi /\ signed.cond.nonce = origin.nonce
          /\ NodeVerifies(signed.cond, SignBegin, "standard").ok
               <=> WellOrdered(keys, publicKeys, origin.required)
      BY <2>3, <2>4, ManyVerify
    <2>6. /\ new \in Transaction /\ new.auth = tx.auth
          /\ new.origin = signed.cond /\ new.origin.nonce = tx.origin.nonce
      BY <1>2, <1>4, <1>6, <2>5
    <2>7. Continues(new)
      BY <2>5, <2>6 DEF Continues, VerifyOrigin
    <2>8. OriginVerifies(new) <=> WellOrdered(keys, publicKeys, o.numSignatures)
      BY <2>3, <2>5, <2>6 DEF OriginVerifies
    <2>9. InOrder(o) <=> WellOrdered(keys, publicKeys, o.numSignatures)
      BY <1>6, <2>1, <2>2 DEF InOrder, WellOrdered
    <2>10. QED
      BY <2>6, <2>7, <2>8, <2>9
  <1>7. QED
    BY <1>3, <1>5, <1>6

\* sponsorTransaction resolves, having made tx into new.
SponsorSigned(tx, key, nonce, fee, new) ==
    LET hash == VerifyOrigin(tx.origin)
        cond == SponsorCondition(key, nonce, fee)
    IN  /\ tx.auth = "sponsored" /\ Continues(tx) /\ hash # NoHash
        /\ new = SetSponsor(tx, SignAndAppend(cond, hash, "sponsored", key).cond)

\* What it resolves with is signed by both.
LEMMA Sponsored ==
    ASSUME NEW tx \in Transaction, NEW key \in Keys, NEW nonce \in Nat, NEW fee \in Nat,
           NEW new, SponsorSigned(tx, key, nonce, fee, new)
    PROVE  /\ new \in Transaction /\ new.auth = tx.auth /\ new.origin = tx.origin
           /\ NodeAccepts(new)
           /\ new.sponsor.owners = <<key>> /\ new.sponsor.nonce = nonce /\ new.sponsor.fee = fee
  <1>1. PICK hash, cond :
            /\ hash = VerifyOrigin(tx.origin) /\ cond = SponsorCondition(key, nonce, fee)
            /\ tx.auth = "sponsored" /\ Continues(tx) /\ hash # NoHash
            /\ new = SetSponsor(tx, SignAndAppend(cond, hash, "sponsored", key).cond)
    BY DEF SponsorSigned
  <1>2. /\ cond \in Condition /\ ~cond.multi /\ cond.owners = <<key>> /\ cond.required = 1
        /\ cond.nonce = nonce /\ cond.fee = fee
    BY <1>1, SponsorConditions
  <1>3. /\ NodeVerifies(tx.origin, SignBegin, "standard").ok
        /\ NodeVerifies(tx.origin, SignBegin, "standard").hash = hash
    BY <1>1 DEF Continues
  <1>4. hash \in Hash
    <2>1. PICK origin \in Condition : origin = tx.origin
      BY DEF Transaction
    <2>2. PICK fields \in Seq(Field) : fields = origin.fields
      BY DEF Condition
    <2>3. fields # <<>> /\ hash = PostSign(PreSign(SignBegin, "standard", origin),
                                           fields[1].key, fields[1].compressed)
      BY <1>1, <2>1, <2>2 DEF VerifyOrigin
    <2>4. fields[1] \in Field
      <3>1. Len(fields) \in Nat /\ Len(fields) # 0
        BY <2>2, <2>3, EmptySeq
      <3>2. 1 \in 1..Len(fields)
        BY <3>1
      <3>3. QED
        BY <2>2, <3>2
    <2>5. fields[1].key \in Keys /\ fields[1].compressed \in BOOLEAN
      BY <2>4 DEF Field
    <2>6. PreSign(SignBegin, "standard", origin) \in Hash
      BY <2>1, Hashing DEF AuthTypes
    <2>7. QED
      BY <2>3, <2>5, <2>6, Hashing
  <1>5. PICK one : one = OneSigned(cond, key, hash, "sponsored")
    OBVIOUS
  <1>6. SignAndAppend(cond, hash, "sponsored", key).cond = one
    BY <1>2, <1>5 DEF SignAndAppend, OneSigned
  <1>7. /\ one \in Condition /\ one.owners = <<key>> /\ one.nonce = nonce /\ one.fee = fee
        /\ NodeVerifies(one, hash, "sponsored").ok
    <2>1. PICK auth \in AuthTypes : auth = "sponsored"
      BY DEF AuthTypes
    <2>2. one = OneSigned(cond, key, hash, auth)
      BY <1>5, <2>1
    <2>3. cond \in Condition /\ ~cond.multi /\ cond.owners = <<key>> /\ cond.required = 1
      BY <1>2
    <2>4. /\ one \in Condition /\ ~one.multi /\ one.owners = <<key>>
          /\ one.required = 1 /\ one.nonce = cond.nonce /\ one.fee = cond.fee
          /\ Len(one.fields) = 1 /\ one.fields[1].kind = "signature"
          /\ NodeVerifies(one, hash, auth).ok
          /\ NodeVerifies(one, hash, auth).hash
               = PostSign(PreSign(hash, auth, one), key, key \in Compressed)
          /\ one.fields[1].key = key /\ one.fields[1].compressed = (key \in Compressed)
      BY ONLY <1>4, <2>2, <2>3, key \in Keys, auth \in AuthTypes, SMTT(60),
              OneVerifies
    <2>5. QED
      BY <1>2, <2>1, <2>4
  <1>8. new = [tx EXCEPT !.sponsor = one]
    BY <1>1, <1>6 DEF SetSponsor
  <1>9. /\ new \in Transaction /\ new.auth = tx.auth /\ new.origin = tx.origin
        /\ new.sponsor = one
    BY <1>7, <1>8 DEF Transaction
  <1>10. NodeAccepts(new)
    BY <1>1, <1>3, <1>7, <1>9 DEF NodeAccepts, OriginVerifies, SponsorVerifies
  <1>11. QED
    BY <1>7, <1>9, <1>10

----------------------------------------------------------------------------
(* A step of one call: of a make, which writes the transaction it makes,    *)
(* and of a sponsor, which writes the transaction it was handed.            *)

\* What SponsorSigns says of a step.
SponsorsSign ==
    \A c \in Calls :
        op[c].phase # "resolved" /\ op'[c].phase = "resolved" /\ op'[c].kind = "sponsor"
        => NodeAccepts(txs'[op'[c].tx]) /\ SponsoredBy(txs'[op'[c].tx], op'[c])

LEMMA MakeStep ==
    ASSUME Kept, NEW c \in Calls, NEW new \in Operation,
           NEW tx \in Transaction \cup {NoTransaction},
           new.kind = "make", op[c].kind \in {"none", "make"}, op[c].phase # "resolved",
           op' = [op EXCEPT ![c] = new], txs' = [txs EXCEPT ![c] = tx],
           pool' = pool, account' = account,
           Making(c, new, tx),
           new.phase = "resolved" => (OriginVerifies(tx) <=> InOrder(new.opt))
    PROVE  Kept' /\ SponsorsSign
  <1>1. Typed /\ \A d \in Calls : CallInv(d)
    BY DEF Kept
  <1>2. /\ op' \in [Calls -> Operation] /\ op'[c] = new
        /\ \A d \in Calls : d # c => op'[d] = op[d]
    BY <1>1 DEF Typed
  <1>3. /\ txs' \in [Calls -> Transaction \cup {NoTransaction}] /\ txs'[c] = tx
        /\ \A d \in Calls : d # c => txs'[d] = txs[d]
    BY <1>1 DEF Typed
  <1>4. Typed'
    BY <1>1, <1>2, <1>3 DEF Typed
  <1>6. ASSUME NEW d \in Calls
        PROVE  CallInv(d)'
    <2>1. CASE d = c
      <3>1. Making(c, op'[c], txs'[c])
        BY <1>2, <1>3
      <3>2. Making(c, op[c], txs[c])'
        BY <3>1 DEF Making, Blank, Resolved, Continues
      <3>3. QED
        BY <1>2, <2>1, <3>2 DEF CallInv
    <2>2. CASE d # c
      <3>1. op'[d] = op[d] /\ txs'[d] = txs[d] /\ CallInv(d)
        BY <1>1, <1>2, <1>3, <2>2
      <3>2. ASSUME op[d].kind = "sponsor"
            PROVE  Sponsoring(op[d])'
        <4>1. Sponsoring(op[d])
          BY <3>1, <3>2 DEF CallInv
        <4>2. op'[op[d].tx] = op[op[d].tx]
          BY <1>2, <4>1 DEF Sponsoring
        <4>3. QED
          BY <3>1, <4>1, <4>2 DEF Sponsoring
      <3>3. ASSUME op[d].kind = "make"
            PROVE  Making(d, op[d], txs[d])'
        <4>1. Making(d, op[d], txs[d])
          BY <3>1, <3>3 DEF CallInv
        <4>2. QED
          BY <3>1, <4>1 DEF Making, Blank, Resolved, Continues
      <3>4. QED
        BY <3>1, <3>2, <3>3 DEF CallInv
    <2>3. QED
      BY <2>1, <2>2
  <1>7. \A t \in Calls : SponsorsOf(t)' = SponsorsOf(t)
    BY <1>2 DEF SponsorsOf
  <1>8. OriginStaysValid'
    <2>1. SUFFICES ASSUME NEW t \in Calls, op'[t].kind = "make", op'[t].phase = "resolved",
                          op'[t].opt.sponsored \/ SponsorsOf(t)' = {}
                   PROVE  OriginVerifies(txs'[t]) <=> InOrder(op'[t].opt)
      BY DEF OriginStaysValid, OriginVerifies
    <2>2. CASE t = c
      BY <1>2, <1>3, <2>1, <2>2
    <2>3. CASE t # c
      BY <1>2, <1>3, <1>7, <2>1, <2>3 DEF Kept, OriginStaysValid
    <2>4. QED
      BY <2>2, <2>3
  <1>9. SponsoredStaysValid'
    <2>1. SUFFICES ASSUME NEW t \in Calls, SponsorsOf(t)' # {},
                          \A s \in SponsorsOf(t)' : op'[s].phase = "resolved"
                   PROVE  /\ NodeAccepts(txs'[t])
                          /\ \E s \in SponsorsOf(t)' : SponsoredBy(txs'[t], op'[s])
      BY DEF SponsoredStaysValid, NodeAccepts, OriginVerifies, SponsorVerifies, SponsoredBy
    <2>2. PICK all : all = SponsorsOf(t)
      OBVIOUS
    <2>3. all # {} /\ all \subseteq Calls
      BY <1>7, <2>1, <2>2 DEF SponsorsOf
    <2>4. \A s \in all : op[s].kind = "sponsor" /\ op[s].tx = t /\ s # c /\ op'[s] = op[s]
      BY <1>2, <2>2 DEF SponsorsOf
    <2>5. t # c
      BY <1>1, <2>3, <2>4 DEF CallInv, Sponsoring
    <2>6. \A s \in all : op[s].phase = "resolved"
      BY <1>7, <2>1, <2>2, <2>4
    <2>7. NodeAccepts(txs[t]) /\ \E s \in all : SponsoredBy(txs[t], op[s])
      BY <2>2, <2>3, <2>6 DEF Kept, SponsoredStaysValid
    <2>8. QED
      BY <1>3, <1>7, <2>2, <2>4, <2>5, <2>7
  <1>10. SponsorsSign
    BY <1>2 DEF SponsorsSign
  <1>11. QED
    BY <1>4, <1>6, <1>8, <1>9, <1>10 DEF Kept, NodeAccepts, OriginVerifies, SponsorVerifies

LEMMA SponsorStep ==
    ASSUME Kept, NEW c \in Calls, NEW new \in Operation,
           NEW t \in Calls, t = new.tx, NEW tx \in Transaction,
           new.kind = "sponsor", Sponsoring(new),
           op[c].kind = "none" \/ (op[c].kind = "sponsor" /\ op[c].tx = t),
           op[c].phase # "resolved",
           op' = [op EXCEPT ![c] = new], txs' = [txs EXCEPT ![t] = tx],
           pool' = pool, account' = account,
           tx.auth = txs[t].auth, tx.origin.nonce = txs[t].origin.nonce,
           tx.auth = "sponsored" => tx.origin = txs[t].origin,
           new.phase = "resolved" => NodeAccepts(tx) /\ SponsoredBy(tx, new)
    PROVE  Kept' /\ SponsorsSign
  <1>1. Typed /\ \A d \in Calls : CallInv(d)
    BY DEF Kept
  <1>2. /\ op' \in [Calls -> Operation] /\ op'[c] = new
        /\ \A d \in Calls : d # c => op'[d] = op[d]
    BY <1>1 DEF Typed
  <1>3. /\ txs' \in [Calls -> Transaction \cup {NoTransaction}] /\ txs'[t] = tx
        /\ \A d \in Calls : d # t => txs'[d] = txs[d]
    BY <1>1 DEF Typed
  <1>4. Typed'
    BY <1>1, <1>2, <1>3 DEF Typed
  <1>5. /\ t # c /\ op[t].kind = "make" /\ op[t].phase = "resolved"
        /\ Resolved(op[t], txs[t])
    BY <1>1 DEF Sponsoring, CallInv, Making
  <1>6. Resolved(op[t], tx)
    BY <1>5 DEF Resolved, Continues
  <1>7. ASSUME NEW d \in Calls
        PROVE  CallInv(d)'
    <2>1. CASE d = c
      <3>1. Sponsoring(new)'
        BY <1>2, <1>5 DEF Sponsoring
      <3>2. QED
        BY <1>2, <2>1, <3>1 DEF CallInv, Sponsoring
    <2>2. CASE d = t
      <3>1. op'[d] = op[d] /\ Making(d, op[d], txs[d])
        BY <1>1, <1>2, <1>5, <2>2 DEF CallInv
      <3>2. op[d].phase = "resolved" /\ op[d].kind = "make" /\ Resolved(op'[d], txs'[d])
        BY <1>3, <1>5, <1>6, <2>2, <3>1
      <3>3. Making(d, op'[d], txs'[d])
        BY <3>1, <3>2 DEF Making, Asking
      <3>4. QED
        BY <3>1, <3>2, <3>3 DEF CallInv, Making, Blank, Resolved, Continues
    <2>3. CASE d # c /\ d # t
      <3>1. op'[d] = op[d] /\ txs'[d] = txs[d] /\ CallInv(d)
        BY <1>1, <1>2, <1>3, <2>3
      <3>2. ASSUME op[d].kind = "sponsor"
            PROVE  Sponsoring(op[d])'
        <4>1. Sponsoring(op[d])
          BY <3>1, <3>2 DEF CallInv
        <4>2. op'[op[d].tx] = op[op[d].tx]
          BY <1>2, <4>1 DEF Sponsoring
        <4>3. QED
          BY <3>1, <4>1, <4>2 DEF Sponsoring
      <3>3. ASSUME op[d].kind = "make"
            PROVE  Making(d, op[d], txs[d])'
        <4>1. Making(d, op[d], txs[d])
          BY <3>1, <3>3 DEF CallInv
        <4>2. QED
          BY <3>1, <4>1 DEF Making, Blank, Resolved, Continues
      <3>4. QED
        BY <3>1, <3>2, <3>3 DEF CallInv
    <2>4. QED
      BY <2>1, <2>2, <2>3
  <1>8. c \in SponsorsOf(t)' /\ \A u \in Calls : u # t => SponsorsOf(u)' = SponsorsOf(u)
    BY <1>2 DEF SponsorsOf
  <1>9. OriginStaysValid'
    <2>1. SUFFICES ASSUME NEW u \in Calls, op'[u].kind = "make", op'[u].phase = "resolved",
                          op'[u].opt.sponsored \/ SponsorsOf(u)' = {}
                   PROVE  OriginVerifies(txs'[u]) <=> InOrder(op'[u].opt)
      BY DEF OriginStaysValid, OriginVerifies
    <2>2. op'[u] = op[u]
      BY <1>2, <2>1
    <2>3. CASE u = t
      <3>1. op[t].opt.sponsored
        BY <1>8, <2>1, <2>2, <2>3
      <3>2. tx.origin = txs[t].origin
        BY <1>5, <3>1 DEF Resolved, AuthOf
      <3>3. OriginVerifies(txs[t]) <=> InOrder(op[t].opt)
        BY <1>5, <3>1 DEF Kept, OriginStaysValid
      <3>4. QED
        BY <1>3, <2>2, <2>3, <3>2, <3>3 DEF OriginVerifies
    <2>4. CASE u # t
      BY <1>3, <1>8, <2>1, <2>2, <2>4 DEF Kept, OriginStaysValid
    <2>5. QED
      BY <2>3, <2>4
  <1>10. SponsoredStaysValid'
    <2>1. SUFFICES ASSUME NEW u \in Calls, SponsorsOf(u)' # {},
                          \A s \in SponsorsOf(u)' : op'[s].phase = "resolved"
                   PROVE  /\ NodeAccepts(txs'[u])
                          /\ \E s \in SponsorsOf(u)' : SponsoredBy(txs'[u], op'[s])
      BY DEF SponsoredStaysValid, NodeAccepts, OriginVerifies, SponsorVerifies, SponsoredBy
    <2>2. CASE u = t
      BY <1>2, <1>3, <1>8, <2>1, <2>2
    <2>3. CASE u # t
      <3>1. PICK all : all = SponsorsOf(u)
        OBVIOUS
      <3>2. all # {} /\ SponsorsOf(u)' = all
        BY <1>8, <2>1, <2>3, <3>1
      <3>3. \A s \in all : s \in Calls /\ s # c /\ op'[s] = op[s]
        BY <1>2, <2>3, <3>1 DEF SponsorsOf
      <3>4. \A s \in all : op[s].phase = "resolved"
        BY <2>1, <3>2, <3>3
      <3>5. NodeAccepts(txs[u]) /\ \E s \in all : SponsoredBy(txs[u], op[s])
        BY <3>1, <3>2, <3>4 DEF Kept, SponsoredStaysValid
      <3>6. QED
        BY <1>3, <2>3, <3>2, <3>3, <3>5
    <2>4. QED
      BY <2>2, <2>3
  <1>11. SponsorsSign
    BY <1>2, <1>3 DEF SponsorsSign
  <1>12. QED
    BY <1>4, <1>7, <1>9, <1>10, <1>11 DEF Kept, NodeAccepts, OriginVerifies, SponsorVerifies

\* The next phase of a call's record.
LEMMA PhaseSet ==
    ASSUME NEW me \in Operation, NEW phase \in Phases, NEW new, new = [me EXCEPT !.phase = phase]
    PROVE  /\ new \in Operation /\ new.phase = phase /\ new.kind = me.kind /\ new.opt = me.opt
           /\ new.tx = me.tx /\ new.fee = me.fee /\ new.nonce = me.nonce /\ new.used = me.used
  BY DEF Operation

\* How a make goes on.
LEMMA MakeGoesOnKeeps ==
    ASSUME Kept, NEW c \in Calls, NEW me \in Operation,
           me.kind = "make", me.opt \in MakeOptions, me.tx = c,
           me.used <= account[Payer(OriginCondition(me.opt, 0, 0))],
           op[c].kind \in {"none", "make"}, op[c].phase # "resolved",
           NEW tx, Blank(me.opt, tx), NEW asked,
           me.opt.nonce = Unset /\ ~me.opt.multi /\ "nonce" \in asked
             => tx.origin.nonce >= me.used,
           pool' = pool, account' = account,
           MakeGoesOn(c, me, tx, asked)
    PROVE  Kept' /\ SponsorsSign
  <1>1. tx \in Transaction /\ tx.auth = AuthOf(me.opt)
    BY DEF Blank
  <1>2. PICK next \in {"fee", "nonce", "none"} : next = NextRequest(me.opt, asked)
    BY DEF NextRequest
  <1>3. next = "none" /\ me.opt.nonce = Unset => "nonce" \in asked
    BY <1>2 DEF NextRequest
  <1>4. ASSUME NEW phase \in Phases \ {"idle", "abi", "answered"}, NEW final \in Transaction,
               op' = [op EXCEPT ![c] = [me EXCEPT !.phase = phase]],
               txs' = [txs EXCEPT ![c] = final],
               phase \in Asking => final = tx,
               phase = "resolved" => /\ Resolved(me, final)
                                     /\ OriginVerifies(final) <=> InOrder(me.opt)
        PROVE  Kept' /\ SponsorsSign
    <2>1. PICK new \in Operation :
             /\ new = [me EXCEPT !.phase = phase] /\ new.phase = phase /\ new.kind = me.kind
             /\ new.opt = me.opt /\ new.tx = me.tx /\ new.nonce = me.nonce /\ new.used = me.used
      <3>1. PICK new : new = [me EXCEPT !.phase = phase]
        OBVIOUS
      <3>2. phase \in Phases /\ me \in Operation
        BY <1>4
      <3>3. /\ new \in Operation /\ new.phase = phase /\ new.kind = me.kind /\ new.opt = me.opt
            /\ new.tx = me.tx /\ new.fee = me.fee /\ new.nonce = me.nonce /\ new.used = me.used
        BY ONLY <3>1, <3>2, PhaseSet
      <3>4. QED
        BY <3>1, <3>3
    <2>2. Making(c, new, final)
      BY <1>4, <2>1 DEF Making, Resolved
    <2>3. op' = [op EXCEPT ![c] = new]
      BY <1>4, <2>1
    <2>4. QED
      BY <1>4, <2>1, <2>2, <2>3, MakeStep
  <1>5. CASE next # "none"
    <2>1. op' = [op EXCEPT ![c] = [me EXCEPT !.phase = next]] /\ txs' = [txs EXCEPT ![c] = tx]
      BY <1>2, <1>5 DEF MakeGoesOn, Become, Holds
    <2>2. next \in Phases \ {"idle", "abi", "answered"} /\ next # "resolved"
      BY <1>5 DEF Phases
    <2>3. QED
      BY <1>1, <1>4, <2>1, <2>2
  <1>6. CASE next = "none"
    <2>1. PICK signed : signed = SignAll(tx.origin, me.opt.publicKeys, me.opt.signerKeys)
      OBVIOUS
    <2>2. MakeFinish(c, me, tx)
      BY <1>2, <1>6 DEF MakeGoesOn
    <2>3. PICK phase \in {"resolved", "rejected"}, final \in {tx, [tx EXCEPT !.origin = signed.cond]} :
             /\ op' = [op EXCEPT ![c] = [me EXCEPT !.phase = phase]]
             /\ txs' = [txs EXCEPT ![c] = final]
             /\ phase = "rejected" => final = tx
             /\ phase = "resolved"
                  => \/ me.opt.signerKeys = <<>> /\ final = tx
                     \/ /\ me.opt.signerKeys # <<>> /\ signed.ok
                        /\ final = [tx EXCEPT !.origin = signed.cond]
      BY <2>1, <2>2 DEF MakeFinish, Become, Holds
    <2>4. CASE phase = "rejected"
      <3>1. phase \in Phases \ {"idle", "abi", "answered"} /\ phase \notin Asking
        BY <2>4 DEF Phases, Asking
      <3>2. QED
        BY <1>1, <1>4, <2>3, <2>4, <3>1
    <2>5. CASE phase = "resolved"
      <3>1. PICK o \in MakeOptions : o = me.opt
        OBVIOUS
      <3>2. /\ final \in Transaction /\ final.auth = tx.auth
            /\ final.origin.nonce = tx.origin.nonce /\ Continues(final)
            /\ OriginVerifies(final) <=> InOrder(o)
        BY <2>1, <2>3, <2>5, <3>1, Finished
      <3>3. Resolved(me, final)
        BY <1>1, <1>3, <1>6, <3>2 DEF Resolved
      <3>4. phase \in Phases \ {"idle", "abi", "answered"} /\ phase \notin Asking
        BY <2>5 DEF Phases, Asking
      <3>5. QED
        BY <1>4, <2>3, <3>1, <3>2, <3>3, <3>4
    <2>6. QED
      BY <2>4, <2>5, <2>3
  <1>7. QED
    BY <1>5, <1>6

\* How a sponsor goes on, with the caller's transaction as it is now.
LEMMA SponsorGoesOnKeeps ==
    ASSUME Kept, NEW c \in Calls, NEW me \in Operation,
           me.kind = "sponsor", me.opt \in SponsorOptions, me.tx \in Calls,
           op[me.tx].kind = "make", op[me.tx].phase = "resolved",
           me.used <= account[Payer(SponsorCondition(me.opt.key, 0, 0))],
           op[c].kind = "none" \/ (op[c].kind = "sponsor" /\ op[c].tx = me.tx),
           op[c].phase # "resolved",
           NEW tx \in Transaction, tx.auth = txs[me.tx].auth,
           tx.origin.nonce = txs[me.tx].origin.nonce,
           tx.auth = "sponsored" => tx.origin = txs[me.tx].origin,
           NEW asked, me.opt.nonce = Unset /\ "nonce" \in asked => me.nonce >= me.used,
           pool' = pool, account' = account,
           SponsorGoesOn(c, me, tx, asked)
    PROVE  Kept' /\ SponsorsSign
  <1>1. PICK t \in Calls : t = me.tx
    OBVIOUS
  <1>2. PICK next \in {"fee", "nonce", "none"} : next = NextRequest(me.opt, asked)
    BY DEF NextRequest
  <1>3. next = "none" /\ me.opt.nonce = Unset => "nonce" \in asked
    BY <1>2 DEF NextRequest
  <1>4. ASSUME NEW phase \in Phases \ {"idle", "abi", "answered"}, NEW final \in Transaction,
               op' = [op EXCEPT ![c] = [me EXCEPT !.phase = phase]],
               txs' = [txs EXCEPT ![t] = final],
               final.auth = tx.auth, final.origin = tx.origin,
               phase = "resolved" => /\ me.opt.nonce = Unset => me.nonce >= me.used
                                     /\ NodeAccepts(final) /\ SponsoredBy(final, me)
        PROVE  Kept' /\ SponsorsSign
    <2>1. PICK new \in Operation :
             /\ new = [me EXCEPT !.phase = phase] /\ new.phase = phase /\ new.kind = me.kind
             /\ new.opt = me.opt /\ new.tx = me.tx /\ new.fee = me.fee /\ new.nonce = me.nonce
             /\ new.used = me.used
      <3>1. PICK new : new = [me EXCEPT !.phase = phase]
        OBVIOUS
      <3>2. phase \in Phases /\ me \in Operation
        BY <1>4
      <3>3. /\ new \in Operation /\ new.phase = phase /\ new.kind = me.kind /\ new.opt = me.opt
            /\ new.tx = me.tx /\ new.fee = me.fee /\ new.nonce = me.nonce /\ new.used = me.used
        BY ONLY <3>1, <3>2, PhaseSet
      <3>4. QED
        BY <3>1, <3>3
    <2>2. Sponsoring(new)
      BY <1>4, <2>1 DEF Sponsoring
    <2>3. op' = [op EXCEPT ![c] = new]
      BY <1>4, <2>1
    <2>4. SponsoredBy(final, me) => SponsoredBy(final, new)
      BY <2>1 DEF SponsoredBy
    <2>5. /\ final.auth = txs[t].auth /\ final.origin.nonce = txs[t].origin.nonce
          /\ final.auth = "sponsored" => final.origin = txs[t].origin
      BY <1>1, <1>4
    <2>6. t = new.tx /\ new.kind = "sponsor"
      BY <1>1, <2>1
    <2>7. op[c].kind = "none" \/ (op[c].kind = "sponsor" /\ op[c].tx = t)
      BY <1>1
    <2>8. new.phase = "resolved" => NodeAccepts(final) /\ SponsoredBy(final, new)
      BY <1>4, <2>1, <2>4
    <2>9. txs' = [txs EXCEPT ![t] = final]
      BY <1>4
    <2>10. QED
      BY <2>2, <2>3, <2>5, <2>6, <2>7, <2>8, <2>9, SponsorStep
  <1>5. CASE next # "none"
    <2>1. op' = [op EXCEPT ![c] = [me EXCEPT !.phase = next]] /\ txs' = [txs EXCEPT ![t] = tx]
      BY <1>1, <1>2, <1>5 DEF SponsorGoesOn, Become, Holds
    <2>2. next \in Phases \ {"idle", "abi", "answered"} /\ next # "resolved"
      BY <1>5 DEF Phases
    <2>3. QED
      BY <1>4, <2>1, <2>2
  <1>6. CASE next = "none"
    <2>1. PICK o \in SponsorOptions : o = me.opt
      OBVIOUS
    <2>2. PICK key \in Keys : key = o.key
      BY BuildersAssumption DEF SponsorOption
    <2>3. me.nonce \in Nat /\ me.fee \in Nat
      BY DEF Operation
    <2>4. PICK cond \in Condition : cond = SponsorCondition(key, me.nonce, me.fee)
      BY <2>3, SponsorConditions
    <2>5. PICK hash : hash = VerifyOrigin(tx.origin)
      OBVIOUS
    <2>6. SponsorFinish(c, me, tx)
      BY <1>2, <1>6 DEF SponsorGoesOn
    <2>7. PICK phase, final :
             /\ phase \in {"resolved", "rejected"}
             /\ op' = [op EXCEPT ![c] = [me EXCEPT !.phase = phase]]
             /\ txs' = [txs EXCEPT ![t] = final]
             /\ phase = "rejected" => final = tx \/ final = SetSponsor(tx, cond)
             /\ phase = "resolved"
                  => /\ tx.auth = "sponsored" /\ hash # NoHash
                     /\ final = SetSponsor(tx, SignAndAppend(cond, hash, "sponsored", key).cond)
      BY <1>1, <2>1, <2>2, <2>4, <2>5, <2>6 DEF SponsorFinish, Become, Holds
    <2>8. CASE phase = "rejected"
      <3>1. final \in Transaction /\ final.auth = tx.auth /\ final.origin = tx.origin
        BY <2>7, <2>8 DEF SetSponsor, Transaction
      <3>2. phase \in Phases \ {"idle", "abi", "answered"} /\ phase # "resolved"
        BY <2>8 DEF Phases
      <3>3. QED
        BY <1>4, <2>7, <3>1, <3>2
    <2>9. CASE phase = "resolved"
      <3>1. Resolved(op[t], txs[t])
        BY <1>1 DEF Kept, CallInv, Making
      <3>2. tx.auth = "sponsored" /\ hash # NoHash
        BY <2>7, <2>9
      <3>3. Continues(tx)
        BY <1>1, <3>1, <3>2 DEF Resolved, Continues
      <3>4. final = SetSponsor(tx, SignAndAppend(cond, hash, "sponsored", key).cond)
        BY <2>7, <2>9
      <3>5. PICK nonce \in Nat, fee \in Nat : nonce = me.nonce /\ fee = me.fee
        BY <2>3
      <3>6. SponsorSigned(tx, key, nonce, fee, final)
        BY <2>4, <2>5, <3>2, <3>3, <3>4, <3>5 DEF SponsorSigned
      <3>7. /\ final \in Transaction /\ final.auth = tx.auth /\ final.origin = tx.origin
            /\ NodeAccepts(final)
            /\ final.sponsor.owners = <<key>> /\ final.sponsor.nonce = nonce
            /\ final.sponsor.fee = fee
        BY <3>6, Sponsored
      <3>8. SponsoredBy(final, me)
        BY <2>1, <2>2, <3>5, <3>7 DEF SponsoredBy
      <3>9. phase \in Phases \ {"idle", "abi", "answered"}
        BY <2>9 DEF Phases
      <3>10. me.opt.nonce = Unset => me.nonce >= me.used
        BY <1>3, <1>6
      <3>11. QED
        BY <1>4, <2>7, <3>7, <3>8, <3>9, <3>10
    <2>10. QED
      BY <2>7, <2>8, <2>9
  <1>7. QED
    BY <1>5, <1>6

----------------------------------------------------------------------------
(* The actions keep the invariant.                                         *)

\* What an idle call is, and what any call is.
LEMMA AtWork ==
    ASSUME Kept, NEW c \in Calls
    PROVE  /\ op[c] \in Operation /\ op[c].kind \in {"none", "make", "sponsor"} /\ CallInv(c)
           /\ op[c].phase = "idle" => op[c].kind = "none"
           /\ op[c].phase = "abi" => op[c].kind = "make"
           /\ op[c].phase # "idle" => op[c].kind \in {"make", "sponsor"}
  <1>1. op[c] \in Operation /\ CallInv(c)
    BY DEF Kept, Typed
  <1>2. op[c].kind \in {"none", "make", "sponsor"}
    BY <1>1 DEF Operation
  <1>3. QED
    BY <1>1, <1>2 DEF CallInv, Making, Sponsoring

\* The transaction of a sponsor.
LEMMA Handed ==
    ASSUME Kept, NEW t \in Calls, op[t].kind = "make", op[t].phase = "resolved"
    PROVE  txs[t] \in Transaction
  BY DEF Kept, CallInv, Making, Resolved

LEMMA SponsorChoices ==
    ASSUME NEW o \in SponsorOptions
    PROVE  o.key \in Keys /\ OrZero(o.fee) \in Nat /\ OrZero(o.nonce) \in Nat
  <1>1. o \in SponsorOption
    BY BuildersAssumption
  <1>2. o.key \in Keys /\ o.fee \in Given /\ o.nonce \in Given
    BY <1>1 DEF SponsorOption
  <1>3. QED
    BY <1>2 DEF OrZero, Given

\* How a call starts.
LEMMA Starts ==
    ASSUME Kept, NEW kind \in {"make", "sponsor"}, NEW o \in MakeOptions \cup SponsorOptions,
           OrZero(o.fee) \in Nat, OrZero(o.nonce) \in Nat, NEW t \in Calls,
           NEW cond, Payer(cond) \in Addresses, NEW me, me = Start(kind, o, t, cond)
    PROVE  /\ me \in Operation /\ me.kind = kind /\ me.phase = "idle" /\ me.opt = o /\ me.tx = t
           /\ me.used <= account[Payer(cond)]
  <1>1. PICK used \in Nat : used = account[Payer(cond)]
    BY DEF Kept, Typed
  <1>2. PICK fee \in Nat : fee = OrZero(o.fee)
    OBVIOUS
  <1>3. PICK nonce \in Nat : nonce = OrZero(o.nonce)
    OBVIOUS
  <1>4. me = [kind |-> kind, phase |-> "idle", opt |-> o, tx |-> t, fee |-> fee,
              nonce |-> nonce, used |-> used]
    BY <1>1, <1>2, <1>3 DEF Start
  <1>5. me \in Operation
    BY <1>4 DEF Operation, Phases
  <1>6. QED
    BY <1>1, <1>4, <1>5

LEMMA MakeKeeps ==
    ASSUME Kept, NEW c \in Calls, Make(c)
    PROVE  Kept' /\ SponsorsSign
  <1>1. PICK o, me :
            /\ o \in MakeOptions
            /\ me = Start("make", o, c, OriginCondition(o, 0, 0))
            /\ op[c].phase = "idle"
            /\ \/ o.abi /\ Become(c, me, "abi") /\ txs' = txs
               \/ ~o.abi /\ MakeGoesOn(c, me, NewTransaction(o), {})
            /\ pool' = pool /\ account' = account
    BY DEF Make
  <1>2. op[c].kind = "none" /\ txs[c] = NoTransaction
    BY <1>1, AtWork DEF CallInv
  <1>3. Payer(OriginCondition(o, 0, 0)) \in Addresses
    BY <1>1 DEF Addresses
  <1>4. /\ me \in Operation /\ me.kind = "make" /\ me.phase = "idle" /\ me.opt = o /\ me.tx = c
        /\ me.used <= account[Payer(OriginCondition(o, 0, 0))]
    <2>1. OrZero(o.fee) \in Nat /\ OrZero(o.nonce) \in Nat
      BY <1>1, Options
    <2>2. QED
      BY <1>1, <1>3, <2>1, Starts
  <1>5. CASE Become(c, me, "abi") /\ txs' = txs
    <2>1. PICK new : new = [me EXCEPT !.phase = "abi"]
      OBVIOUS
    <2>2. /\ new \in Operation /\ new.phase = "abi" /\ new.kind = "make" /\ new.opt = o
          /\ new.tx = c /\ new.used = me.used
      BY <1>4, <2>1, PhaseSet DEF Phases
    <2>3. op' = [op EXCEPT ![c] = new]
      BY <1>5, <2>1 DEF Become
    <2>4. txs' = [txs EXCEPT ![c] = NoTransaction]
      BY <1>2, <1>5 DEF Kept, Typed
    <2>5. Making(c, new, NoTransaction)
      BY <1>1, <1>4, <2>2 DEF Making, Asking
    <2>6. QED
      BY <1>1, <1>2, <2>2, <2>3, <2>4, <2>5, MakeStep
  <1>6. CASE MakeGoesOn(c, me, NewTransaction(o), {})
    <2>1. PICK tx : tx = NewTransaction(o)
      OBVIOUS
    <2>2. Blank(me.opt, tx)
      BY <1>1, <1>4, <2>1, NewIsBlank
    <2>3. PICK asked : asked = {}
      OBVIOUS
    <2>4. "nonce" \notin asked /\ MakeGoesOn(c, me, tx, asked)
      BY <1>6, <2>1, <2>3
    <2>5. op[c].kind \in {"none", "make"} /\ op[c].phase # "resolved"
      BY <1>1, <1>2
    <2>6. QED
      BY <1>1, <1>4, <2>2, <2>4, <2>5, MakeGoesOnKeeps
  <1>7. QED
    BY <1>1, <1>5, <1>6

LEMMA AbiValidatedKeeps ==
    ASSUME Kept, NEW c \in Calls, AbiValidated(c)
    PROVE  Kept' /\ SponsorsSign
  <1>1. /\ op[c].phase = "abi" /\ MakeGoesOn(c, op[c], NewTransaction(op[c].opt), {})
        /\ pool' = pool /\ account' = account
    BY DEF AbiValidated
  <1>2. PICK me \in Operation : me = op[c]
    BY AtWork
  <1>3. me.kind = "make" /\ Making(c, me, txs[c])
    BY <1>1, <1>2, AtWork DEF CallInv
  <1>4. PICK tx : tx = NewTransaction(me.opt)
    OBVIOUS
  <1>5. Blank(me.opt, tx)
    BY <1>3, <1>4, NewIsBlank DEF Making
  <1>6. PICK asked : asked = {}
    OBVIOUS
  <1>7. "nonce" \notin asked /\ MakeGoesOn(c, me, tx, asked)
    BY <1>1, <1>2, <1>4, <1>6
  <1>8. op[c].kind \in {"none", "make"} /\ op[c].phase # "resolved"
    BY <1>1, <1>2, <1>3
  <1>9. /\ me.opt \in MakeOptions /\ me.tx = c
        /\ me.used <= account[Payer(OriginCondition(me.opt, 0, 0))]
    BY <1>3 DEF Making
  <1>10. QED
    BY <1>1, <1>3, <1>5, <1>7, <1>8, <1>9, MakeGoesOnKeeps

LEMMA SponsorKeeps ==
    ASSUME Kept, NEW c \in Calls, Sponsor(c)
    PROVE  Kept' /\ SponsorsSign
  <1>1. PICK o, t, me :
            /\ o \in SponsorOptions /\ t \in Calls
            /\ me = Start("sponsor", o, t, SponsorCondition(o.key, 0, 0))
            /\ op[c].phase = "idle"
            /\ op[t].kind = "make" /\ op[t].phase = "resolved"
            /\ SponsorGoesOn(c, me, txs[t], {})
            /\ pool' = pool /\ account' = account
    BY DEF Sponsor
  <1>2. op[c].kind = "none"
    BY <1>1, AtWork
  <1>3. Payer(SponsorCondition(o.key, 0, 0)) \in Addresses
    BY <1>1 DEF Addresses
  <1>4. /\ me \in Operation /\ me.kind = "sponsor" /\ me.opt = o /\ me.tx = t
        /\ me.used <= account[Payer(SponsorCondition(o.key, 0, 0))]
    <2>1. OrZero(o.fee) \in Nat /\ OrZero(o.nonce) \in Nat
      BY <1>1, SponsorChoices
    <2>2. QED
      BY <1>1, <1>3, <2>1, Starts
  <1>5. PICK tx \in Transaction : tx = txs[t]
    BY <1>1, Handed
  <1>6. PICK asked : asked = {}
    OBVIOUS
  <1>7. "nonce" \notin asked /\ SponsorGoesOn(c, me, tx, asked)
    BY <1>1, <1>5, <1>6
  <1>8. /\ me.opt \in SponsorOptions /\ me.tx \in Calls
        /\ op[me.tx].kind = "make" /\ op[me.tx].phase = "resolved"
        /\ me.used <= account[Payer(SponsorCondition(me.opt.key, 0, 0))]
        /\ op[c].phase # "resolved"
        /\ tx = txs[me.tx]
    BY <1>1, <1>4, <1>5
  <1>9. QED
    BY <1>1, <1>2, <1>4, <1>7, <1>8, SponsorGoesOnKeeps

\* An answer that the call goes on with.
LEMMA FeeEstimatedKeeps ==
    ASSUME Kept, NEW c \in Calls, FeeEstimated(c)
    PROVE  Kept' /\ SponsorsSign
  <1>1. PICK fee \in Fees :
            /\ op[c].phase = "fee"
            /\ GoesOn(c, [op[c] EXCEPT !.fee = fee], SetFee(txs[op[c].tx], fee), {"fee"})
            /\ pool' = pool /\ account' = account
    BY DEF FeeEstimated
  <1>2. PICK old \in Operation : old = op[c]
    BY AtWork
  <1>3. fee \in Nat
    BY BuildersAssumption
  <1>4. PICK me : me = [old EXCEPT !.fee = fee]
    OBVIOUS
  <1>5. /\ me \in Operation /\ me.kind = old.kind /\ me.opt = old.opt /\ me.tx = old.tx
        /\ me.used = old.used
    BY <1>3, <1>4 DEF Operation
  <1>6. PICK asked : asked = {"fee"}
    OBVIOUS
  <1>7. "nonce" \notin asked
    BY <1>6
  <1>8. PICK tx : tx = SetFee(txs[old.tx], fee)
    OBVIOUS
  <1>9. GoesOn(c, me, tx, asked)
    BY <1>1, <1>2, <1>4, <1>6, <1>8
  <1>10. op[c].phase # "resolved"
    BY <1>1
  <1>11. CASE old.kind = "make"
    <2>1. Making(c, old, txs[c])
      BY <1>2, <1>11, AtWork DEF CallInv
    <2>2. /\ me.opt \in MakeOptions /\ me.tx = c /\ me.kind = "make"
          /\ me.used <= account[Payer(OriginCondition(me.opt, 0, 0))]
      BY <1>5, <1>11, <2>1 DEF Making
    <2>3. Blank(me.opt, txs[c])
      BY <1>1, <1>2, <1>5, <2>1 DEF Making, Asking
    <2>4. PICK was \in Transaction : was = txs[c]
      BY <2>3 DEF Blank
    <2>5. tx = SetFee(was, fee)
      BY <1>5, <1>8, <2>2, <2>4
    <2>6. Blank(me.opt, tx)
      BY <1>3, <2>3, <2>4, <2>5, FeeSet
    <2>7. MakeGoesOn(c, me, tx, asked)
      BY <1>9, <2>2 DEF GoesOn
    <2>8. op[c].kind \in {"none", "make"}
      BY <1>2, <1>11
    <2>9. QED
      BY <1>1, <1>5, <1>7, <1>10, <2>2, <2>6, <2>7, <2>8, MakeGoesOnKeeps
  <1>12. CASE old.kind = "sponsor"
    <2>1. Sponsoring(old)
      BY <1>2, <1>12, AtWork DEF CallInv
    <2>2. /\ me.opt \in SponsorOptions /\ me.tx \in Calls /\ me.kind = "sponsor"
          /\ op[me.tx].kind = "make" /\ op[me.tx].phase = "resolved"
          /\ me.used <= account[Payer(SponsorCondition(me.opt.key, 0, 0))]
      BY <1>5, <1>12, <2>1 DEF Sponsoring
    <2>3. PICK was \in Transaction : was = txs[me.tx]
      BY <2>2, Handed
    <2>4. tx = SetFee(was, fee)
      BY <1>5, <1>8, <2>3
    <2>5. /\ tx \in Transaction /\ tx.auth = txs[me.tx].auth
          /\ tx.origin.nonce = txs[me.tx].origin.nonce
          /\ tx.auth = "sponsored" => tx.origin = txs[me.tx].origin
      BY <1>3, <2>3, <2>4, FeeSet
    <2>6. SponsorGoesOn(c, me, tx, asked)
      BY <1>9, <2>2 DEF GoesOn
    <2>7. op[c].kind = "sponsor" /\ op[c].tx = me.tx
      BY <1>2, <1>5, <1>12
    <2>8. QED
      BY <1>1, <1>5, <1>7, <1>10, <2>2, <2>5, <2>6, <2>7, SponsorGoesOnKeeps
  <1>13. QED
    BY <1>2, <1>10, <1>1, <1>11, <1>12, AtWork

\* The nonce of an account is read: that of the payer, if the payer has one key.
LEMMA NonceReadKeeps ==
    ASSUME Kept, NEW c \in Calls, NonceRead(c)
    PROVE  Kept' /\ SponsorsSign
  <1>1. PICK old \in Operation : old = op[c]
    BY AtWork
  <1>2. PICK nonce : nonce = GetNonce(LookupAddress(c))
    OBVIOUS
  <1>3. /\ old.phase = "nonce" /\ txs' = txs /\ pool' = pool /\ account' = account
        /\ op' = [op EXCEPT ![c] = [[old EXCEPT !.nonce = nonce] EXCEPT !.phase = "answered"]]
    BY <1>1, <1>2 DEF NonceRead, Become
  <1>4. nonce \in Nat
    BY <1>2 DEF GetNonce, Kept, Typed
  <1>5. PICK new : new = [[old EXCEPT !.nonce = nonce] EXCEPT !.phase = "answered"]
    OBVIOUS
  <1>6. /\ new \in Operation /\ new.phase = "answered" /\ new.kind = old.kind
        /\ new.opt = old.opt /\ new.tx = old.tx /\ new.nonce = nonce /\ new.used = old.used
    BY <1>4, <1>5 DEF Operation, Phases
  <1>7. op' = [op EXCEPT ![c] = new] /\ op[c].phase # "resolved" /\ new.phase # "resolved"
    BY <1>1, <1>3, <1>5, <1>6
  <1>8. CASE old.kind = "make"
    <2>1. Making(c, old, txs[c])
      BY <1>1, <1>8, AtWork DEF CallInv
    <2>2. Blank(old.opt, txs[c])
      BY <1>3, <2>1 DEF Making, Asking
    <2>3. PICK tx \in Transaction : tx = txs[c]
      BY <2>2 DEF Blank
    <2>4. ASSUME ~old.opt.multi
          PROVE  nonce >= old.used
      <3>1. LookupAddress(c) = Payer(OriginCondition(old.opt, 0, 0))
        BY <1>1, <1>8, <2>2, <2>4
           DEF LookupAddress, Blank, Payer, Address, OriginCondition, NewCondition
      <3>2. Payer(OriginCondition(old.opt, 0, 0)) \in Addresses
        BY <2>1 DEF Addresses, Making
      <3>3. nonce = account[Payer(OriginCondition(old.opt, 0, 0))]
        BY <1>2, <3>1, <3>2 DEF GetNonce
      <3>4. old.used <= nonce
        BY <2>1, <3>3 DEF Making
      <3>5. old.used \in Nat
        BY DEF Operation
      <3>6. QED
        BY <1>4, <3>4, <3>5
    <2>5. Making(c, new, tx)
      BY <1>6, <2>1, <2>2, <2>3, <2>4 DEF Making
    <2>6. txs' = [txs EXCEPT ![c] = tx]
      BY <1>3, <2>3 DEF Kept, Typed
    <2>7. new.kind = "make" /\ op[c].kind \in {"none", "make"}
      BY <1>1, <1>6, <1>8
    <2>8. tx \in Transaction \cup {NoTransaction}
      OBVIOUS
    <2>9. QED
      BY <1>3, <1>6, <1>7, <2>5, <2>6, <2>7, <2>8, MakeStep
  <1>9. CASE old.kind = "sponsor"
    <2>1. Sponsoring(old)
      BY <1>1, <1>9, AtWork DEF CallInv
    <2>2. PICK t \in Calls : t = old.tx
      BY <2>1 DEF Sponsoring
    <2>3. PICK tx \in Transaction : tx = txs[t]
      BY <2>1, <2>2, Handed DEF Sponsoring
    <2>4. nonce >= old.used
      <3>1. LookupAddress(c) = Payer(SponsorCondition(old.opt.key, 0, 0))
        BY <1>1, <1>9 DEF LookupAddress, Payer, SponsorCondition, NewCondition
      <3>2. Payer(SponsorCondition(old.opt.key, 0, 0)) \in Addresses
        BY <2>1 DEF Addresses, Sponsoring
      <3>3. nonce = account[Payer(SponsorCondition(old.opt.key, 0, 0))]
        BY <1>2, <3>1, <3>2 DEF GetNonce
      <3>4. old.used <= nonce
        BY <2>1, <3>3 DEF Sponsoring
      <3>5. old.used \in Nat
        BY DEF Operation
      <3>6. QED
        BY <1>4, <3>4, <3>5
    <2>5. Sponsoring(new)
      BY <1>6, <2>1, <2>4 DEF Sponsoring
    <2>6. txs' = [txs EXCEPT ![t] = tx]
      BY <1>3, <2>3 DEF Kept, Typed
    <2>7. t = new.tx /\ new.kind = "sponsor"
      BY <1>6, <1>9, <2>2
    <2>8. op[c].kind = "none" \/ (op[c].kind = "sponsor" /\ op[c].tx = t)
      BY <1>1, <1>9, <2>2
    <2>9. /\ tx.auth = txs[t].auth /\ tx.origin.nonce = txs[t].origin.nonce
          /\ tx.auth = "sponsored" => tx.origin = txs[t].origin
      BY <2>3
    <2>10. new.phase = "resolved" => NodeAccepts(tx) /\ SponsoredBy(tx, new)
      BY <1>7
    <2>11. pool' = pool /\ account' = account
      BY <1>3
    <2>12. QED
      BY <1>6, <1>7, <2>5, <2>6, <2>7, <2>8, <2>9, <2>10, <2>11, SponsorStep
  <1>10. QED
    BY <1>1, <1>3, <1>8, <1>9, AtWork

LEMMA NonceFetchedKeeps ==
    ASSUME Kept, NEW c \in Calls, NonceFetched(c)
    PROVE  Kept' /\ SponsorsSign
  <1>1. PICK me \in Operation : me = op[c]
    BY AtWork
  <1>2. PICK tx : tx = IF me.kind = "make" THEN SetNonce(txs[me.tx], me.nonce) ELSE txs[me.tx]
    OBVIOUS
  <1>3. PICK asked : asked = {"fee", "nonce"}
    OBVIOUS
  <1>4. /\ me.phase = "answered" /\ GoesOn(c, me, tx, asked)
        /\ pool' = pool /\ account' = account
    BY <1>1, <1>2, <1>3 DEF NonceFetched
  <1>5. me.nonce \in Nat /\ me.used \in Nat /\ op[c].phase # "resolved"
    BY <1>1, <1>4 DEF Operation
  <1>6. CASE me.kind = "make"
    <2>1. Making(c, me, txs[c])
      BY <1>1, <1>6, AtWork DEF CallInv
    <2>2. /\ me.opt \in MakeOptions /\ me.tx = c
          /\ me.used <= account[Payer(OriginCondition(me.opt, 0, 0))]
          /\ Blank(me.opt, txs[c]) /\ (~me.opt.multi => me.nonce >= me.used)
      BY <1>4, <2>1 DEF Making, Asking
    <2>3. PICK was \in Transaction : was = txs[c]
      BY <2>2 DEF Blank
    <2>4. tx = SetNonce(was, me.nonce)
      BY <1>2, <1>6, <2>2, <2>3
    <2>5. Blank(me.opt, tx) /\ tx.origin.nonce = me.nonce
      BY <1>5, <2>2, <2>3, <2>4, NonceSet
    <2>6. MakeGoesOn(c, me, tx, asked)
      BY <1>4, <1>6 DEF GoesOn
    <2>7. op[c].kind \in {"none", "make"}
      BY <1>1, <1>6
    <2>8. ~me.opt.multi => tx.origin.nonce >= me.used
      BY <2>2, <2>5
    <2>9. QED
      BY <1>4, <1>5, <1>6, <2>2, <2>5, <2>6, <2>7, <2>8, MakeGoesOnKeeps
  <1>7. CASE me.kind = "sponsor"
    <2>1. Sponsoring(me)
      BY <1>1, <1>7, AtWork DEF CallInv
    <2>2. /\ me.opt \in SponsorOptions /\ me.tx \in Calls
          /\ op[me.tx].kind = "make" /\ op[me.tx].phase = "resolved"
          /\ me.used <= account[Payer(SponsorCondition(me.opt.key, 0, 0))]
          /\ me.nonce >= me.used
      BY <1>4, <2>1 DEF Sponsoring
    <2>3. tx \in Transaction /\ tx = txs[me.tx]
      BY <1>2, <1>7, <2>2, Handed
    <2>4. SponsorGoesOn(c, me, tx, asked)
      BY <1>4, <1>7 DEF GoesOn
    <2>5. op[c].kind = "sponsor" /\ op[c].tx = me.tx
      BY <1>1, <1>7
    <2>6. /\ tx.auth = txs[me.tx].auth /\ tx.origin.nonce = txs[me.tx].origin.nonce
          /\ tx.origin = txs[me.tx].origin
      BY <2>3
    <2>7. QED
      BY <1>4, <1>5, <1>7, <2>2, <2>3, <2>4, <2>5, <2>6, SponsorGoesOnKeeps
  <1>8. QED
    BY <1>1, <1>4, <1>6, <1>7, AtWork

LEMMA RequestFailsKeeps ==
    ASSUME Kept, NEW c \in Calls, RequestFails(c)
    PROVE  Kept' /\ SponsorsSign
  <1>1. PICK old \in Operation : old = op[c]
    BY AtWork
  <1>2. /\ old.phase \in {"abi", "fee", "nonce", "answered"}
        /\ op' = [op EXCEPT ![c] = [old EXCEPT !.phase = "rejected"]]
        /\ txs' = txs /\ pool' = pool /\ account' = account
    BY <1>1 DEF RequestFails, Become
  <1>3. PICK new : new = [old EXCEPT !.phase = "rejected"]
    OBVIOUS
  <1>4. /\ new \in Operation /\ new.phase = "rejected" /\ new.kind = old.kind
        /\ new.opt = old.opt /\ new.tx = old.tx /\ new.nonce = old.nonce /\ new.used = old.used
    BY <1>3 DEF Operation, Phases
  <1>5. op' = [op EXCEPT ![c] = new] /\ op[c].phase # "resolved" /\ new.phase # "resolved"
    BY <1>1, <1>2, <1>3, <1>4
  <1>6. CASE old.kind = "make"
    <2>1. Making(c, old, txs[c])
      BY <1>1, <1>6, AtWork DEF CallInv
    <2>2. PICK tx \in Transaction \cup {NoTransaction} : tx = txs[c]
      BY DEF Kept, Typed
    <2>3. Making(c, new, tx)
      BY <1>4, <2>1 DEF Making, Asking
    <2>4. txs' = [txs EXCEPT ![c] = tx]
      BY <1>2, <2>2 DEF Kept, Typed
    <2>5. new.kind = "make" /\ op[c].kind \in {"none", "make"}
      BY <1>1, <1>4, <1>6
    <2>6. QED
      BY <1>2, <1>4, <1>5, <2>3, <2>4, <2>5, MakeStep
  <1>7. CASE old.kind = "sponsor"
    <2>1. Sponsoring(old)
      BY <1>1, <1>7, AtWork DEF CallInv
    <2>2. PICK t \in Calls : t = old.tx
      BY <2>1 DEF Sponsoring
    <2>3. PICK tx \in Transaction : tx = txs[t]
      BY <2>1, <2>2, Handed DEF Sponsoring
    <2>4. Sponsoring(new)
      BY <1>4, <2>1 DEF Sponsoring
    <2>5. txs' = [txs EXCEPT ![t] = tx]
      BY <1>2, <2>3 DEF Kept, Typed
    <2>6. t = new.tx /\ new.kind = "sponsor"
      BY <1>4, <1>7, <2>2
    <2>7. op[c].kind = "none" \/ (op[c].kind = "sponsor" /\ op[c].tx = t)
      BY <1>1, <1>7, <2>2
    <2>8. /\ tx.auth = txs[t].auth /\ tx.origin.nonce = txs[t].origin.nonce
          /\ tx.auth = "sponsored" => tx.origin = txs[t].origin
      BY <2>3
    <2>9. new.phase = "resolved" => NodeAccepts(tx) /\ SponsoredBy(tx, new)
      BY <1>5
    <2>10. pool' = pool /\ account' = account
      BY <1>2
    <2>11. QED
      BY <1>4, <1>5, <2>4, <2>5, <2>6, <2>7, <2>8, <2>9, <2>10, SponsorStep
  <1>8. QED
    BY <1>1, <1>2, <1>6, <1>7, AtWork

\* A step that leaves the calls, and the transactions that they have, alone.
LEMMA CallsAlone ==
    ASSUME Kept, op' = op, txs' = txs, account' \in [Addresses -> Nat],
           \A a \in Addresses : account'[a] >= account[a],
           \A tx \in pool' : tx \in Transaction /\ NodeAccepts(tx)
    PROVE  Kept' /\ SponsorsSign
  <1>1. Typed /\ \A d \in Calls : CallInv(d) /\ op[d] \in Operation
    BY DEF Kept, Typed
  <1>2. Typed'
    BY <1>1 DEF Typed
  <1>3. \A a \in Addresses, used \in Nat : used <= account[a] => used <= account'[a]
    BY <1>1 DEF Typed
  <1>4. ASSUME NEW d \in Calls
        PROVE  CallInv(d)'
    <2>1. PICK me \in Operation : me = op[d]
      BY <1>1
    <2>2. me.used \in Nat
      BY DEF Operation
    <2>3. ASSUME me.kind = "make"
          PROVE  Making(d, op[d], txs[d])'
      <3>1. Making(d, me, txs[d])
        BY <1>1, <2>1, <2>3 DEF CallInv
      <3>2. Payer(OriginCondition(me.opt, 0, 0)) \in Addresses
        BY <3>1 DEF Making, Addresses
      <3>3. me.used <= account'[Payer(OriginCondition(me.opt, 0, 0))]
        BY <1>3, <2>2, <3>1, <3>2 DEF Making
      <3>4. QED
        BY <2>1, <3>1, <3>3
           DEF Making, Blank, Resolved, Continues, Payer, Address, OriginCondition, NewCondition
    <2>4. ASSUME me.kind = "sponsor"
          PROVE  Sponsoring(op[d])'
      <3>1. Sponsoring(me)
        BY <1>1, <2>1, <2>4 DEF CallInv
      <3>2. Payer(SponsorCondition(me.opt.key, 0, 0)) \in Addresses
        BY <3>1 DEF Sponsoring, Addresses
      <3>3. me.used <= account'[Payer(SponsorCondition(me.opt.key, 0, 0))]
        BY <1>3, <2>2, <3>1, <3>2 DEF Sponsoring
      <3>4. QED
        BY <2>1, <3>1, <3>3 DEF Sponsoring, Payer, Address, SponsorCondition, NewCondition
    <2>5. QED
      BY <1>1, <2>1, <2>3, <2>4 DEF CallInv
  <1>5. \A tx \in pool' : tx \in Transaction /\ NodeAccepts(tx)'
    BY DEF NodeAccepts, OriginVerifies, SponsorVerifies
  <1>6. OriginStaysValid'
    BY DEF Kept, OriginStaysValid, OriginVerifies, SponsorsOf
  <1>7. SponsoredStaysValid'
    BY DEF Kept, SponsoredStaysValid, NodeAccepts, OriginVerifies, SponsorVerifies, SponsorsOf,
           SponsoredBy
  <1>8. SponsorsSign
    BY DEF SponsorsSign
  <1>9. QED
    BY <1>2, <1>4, <1>5, <1>6, <1>7, <1>8 DEF Kept, NodeAccepts, OriginVerifies, SponsorVerifies

LEMMA BroadcastKeeps ==
    ASSUME Kept, NEW t \in Calls, Broadcast(t)
    PROVE  Kept' /\ SponsorsSign
  <1>1. /\ op[t].kind = "make" /\ op[t].phase = "resolved" /\ NodeAccepts(txs[t])
        /\ pool' = pool \cup {txs[t]} /\ op' = op /\ txs' = txs /\ account' = account
    BY DEF Broadcast
  <1>2. txs[t] \in Transaction
    BY <1>1, Handed
  <1>3. account' \in [Addresses -> Nat] /\ \A a \in Addresses : account'[a] >= account[a]
    BY <1>1 DEF Kept, Typed
  <1>4. \A tx \in pool' : tx \in Transaction /\ NodeAccepts(tx)
    BY <1>1, <1>2 DEF Kept
  <1>5. QED
    BY <1>1, <1>3, <1>4, CallsAlone

LEMMA ConfirmKeeps ==
    ASSUME Kept, NEW tx \in pool, Confirm(tx)
    PROVE  Kept' /\ SponsorsSign
  <1>1. /\ pool' = pool \ {tx} /\ op' = op /\ txs' = txs
        /\ account' = [a \in Addresses |->
                         IF \E cond \in Conditions(tx) : Payer(cond) = a
                         THEN account[a] + 1 ELSE account[a]]
    BY DEF Confirm
  <1>2. account' \in [Addresses -> Nat] /\ \A a \in Addresses : account'[a] >= account[a]
    BY <1>1 DEF Kept, Typed
  <1>3. \A t \in pool' : t \in Transaction /\ NodeAccepts(t)
    BY <1>1 DEF Kept
  <1>4. QED
    BY <1>1, <1>2, <1>3, CallsAlone

LEMMA InitKept ==
    ASSUME Init
    PROVE  Kept
  <1>1. NoOperation \in Operation
    BY DEF NoOperation, Operation, Phases
  <1>2. Typed
    BY <1>1 DEF Init, Typed
  <1>3. \A c \in Calls : op[c].kind = "none" /\ op[c].phase = "idle" /\ txs[c] = NoTransaction
    BY DEF Init, NoOperation
  <1>4. \A t \in Calls : SponsorsOf(t) = {}
    BY <1>3 DEF SponsorsOf
  <1>5. QED
    BY <1>2, <1>3, <1>4 DEF Kept, Init, CallInv, OriginStaysValid, SponsoredStaysValid

\* No step breaks it, and a sponsor that resolves has signed.
LEMMA NextKept ==
    ASSUME Kept, [Next]_vars
    PROVE  Kept' /\ SponsorsSign
  <1>1. CASE UNCHANGED vars
    <2>1. op' = op /\ txs' = txs /\ pool' = pool /\ account' = account
      BY <1>1 DEF vars
    <2>2. account' \in [Addresses -> Nat] /\ \A a \in Addresses : account'[a] >= account[a]
      BY <2>1 DEF Kept, Typed
    <2>3. \A tx \in pool' : tx \in Transaction /\ NodeAccepts(tx)
      BY <2>1 DEF Kept
    <2>4. QED
      BY <2>1, <2>2, <2>3, CallsAlone
  <1>2. ASSUME NEW c \in Calls, Make(c)
        PROVE  Kept' /\ SponsorsSign
    BY <1>2, MakeKeeps
  <1>3. ASSUME NEW c \in Calls, AbiValidated(c)
        PROVE  Kept' /\ SponsorsSign
    BY <1>3, AbiValidatedKeeps
  <1>4. ASSUME NEW c \in Calls, Sponsor(c)
        PROVE  Kept' /\ SponsorsSign
    BY <1>4, SponsorKeeps
  <1>5. ASSUME NEW c \in Calls, FeeEstimated(c)
        PROVE  Kept' /\ SponsorsSign
    BY <1>5, FeeEstimatedKeeps
  <1>6. ASSUME NEW c \in Calls, NonceRead(c)
        PROVE  Kept' /\ SponsorsSign
    BY <1>6, NonceReadKeeps
  <1>7. ASSUME NEW c \in Calls, NonceFetched(c)
        PROVE  Kept' /\ SponsorsSign
    BY <1>7, NonceFetchedKeeps
  <1>8. ASSUME NEW c \in Calls, RequestFails(c)
        PROVE  Kept' /\ SponsorsSign
    BY <1>8, RequestFailsKeeps
  <1>9. ASSUME NEW c \in Calls, Broadcast(c)
        PROVE  Kept' /\ SponsorsSign
    BY <1>9, BroadcastKeeps
  <1>10. ASSUME NEW tx \in pool, Confirm(tx)
         PROVE  Kept' /\ SponsorsSign
    BY <1>10, ConfirmKeeps
  <1>11. QED
    BY <1>1, <1>2, <1>3, <1>4, <1>5, <1>6, <1>7, <1>8, <1>9, <1>10 DEF Next

----------------------------------------------------------------------------
(* The theorems.                                                           *)

\* Every call is where its phase says, and every transaction is signed as its
\* options and its sponsors say (makeSTXTokenTransfer, makeContractCall,
\* makeContractDeploy, sponsorTransaction).
THEOREM AlwaysKept == Spec => []Kept
  <1>1. Init => Kept
    BY InitKept
  <1>2. Kept /\ [Next]_vars => Kept'
    BY NextKept
  <1>3. QED
    BY <1>1, <1>2, PTL DEF Spec

\* The calls, the transactions, the node's pool and its accounts keep their types,
\* and the pool holds nothing that a node does not accept.
THEOREM Types == Spec => []TypeOK
  <1>1. ASSUME Kept
        PROVE  TypeOK
    <2>1. \A cond \in Condition : IsCondition(cond)
      <3>1. TAKE cond \in Condition
      <3>2. PICK fields \in Seq(Field) : fields = cond.fields
        BY DEF Condition
      <3>3. \A i \in DOMAIN fields : fields[i] \in Field
        BY <3>2
      <3>4. \A i \in DOMAIN fields :
               fields[i].kind \in {"signature", "publicKey"} /\ fields[i].key \in Keys
        BY <3>3 DEF Field
      <3>5. QED
        BY <3>2, <3>4 DEF IsCondition, Condition
    <2>2. \A tx \in Transaction : IsTransaction(tx)
      BY <2>1 DEF Transaction, IsTransaction
    <2>3. ASSUME NEW c \in Calls
          PROVE  /\ op[c].kind \in {"none", "make", "sponsor"}
                 /\ op[c].phase \in Phases
                 /\ op[c].kind = "make" => op[c].opt \in MakeOptions /\ op[c].tx = c
                 /\ op[c].kind = "sponsor" => op[c].opt \in SponsorOptions /\ op[c].tx \in Calls
                 /\ op[c].fee \in Nat /\ op[c].nonce \in Nat /\ op[c].used \in Nat
                 /\ \/ txs[c] = NoTransaction
                       /\ op[c].phase \notin {"fee", "nonce", "answered", "resolved"}
                    \/ IsTransaction(txs[c])
                    \/ op[c].kind = "sponsor"
      <3>1. op[c] \in Operation /\ CallInv(c) /\ txs[c] \in Transaction \cup {NoTransaction}
        BY <1>1 DEF Kept, Typed
      <3>2. /\ op[c].kind \in {"none", "make", "sponsor"} /\ op[c].phase \in Phases
            /\ op[c].fee \in Nat /\ op[c].nonce \in Nat /\ op[c].used \in Nat
        BY <3>1 DEF Operation
      <3>3. op[c].kind = "make" => op[c].opt \in MakeOptions /\ op[c].tx = c
        BY <3>1 DEF CallInv, Making
      <3>4. op[c].kind = "sponsor" => op[c].opt \in SponsorOptions /\ op[c].tx \in Calls
        BY <3>1 DEF CallInv, Sponsoring
      <3>5. CASE op[c].kind = "make"
        <4>1. op[c].phase \in {"fee", "nonce", "answered", "resolved"} => txs[c] \in Transaction
          BY <3>1, <3>5 DEF CallInv, Making, Asking, Blank, Resolved
        <4>2. QED
          BY <2>2, <3>1, <3>2, <3>3, <3>4, <4>1
      <3>6. CASE op[c].kind = "none"
        BY <3>1, <3>2, <3>3, <3>4, <3>6 DEF CallInv
      <3>7. QED
        BY <3>2, <3>3, <3>4, <3>5, <3>6
    <2>4. QED
      BY <1>1, <2>2, <2>3 DEF Kept, Typed, TypeOK
  <1>2. QED
    BY <1>1, AlwaysKept, PTL

\* The origin of what a make function resolved with verifies exactly when its
\* options are in order, whatever sponsorTransaction calls do with the object.
THEOREM OriginsStayValid == Spec => []OriginStaysValid
  <1>1. Kept => OriginStaysValid
    BY DEF Kept
  <1>2. QED
    BY <1>1, AlwaysKept, PTL

\* When all calls of sponsorTransaction on a transaction have resolved, nodes
\* accept it and it charges one of the callers.
THEOREM SponsorshipsStayValid == Spec => []SponsoredStaysValid
  <1>1. Kept => SponsoredStaysValid
    BY DEF Kept
  <1>2. QED
    BY <1>1, AlwaysKept, PTL

\* A nonce that is looked up for one key is beyond those of the transactions
\* that were confirmed when the call started.
THEOREM NoncesIncrease == Spec => []SingleSigNoncesIncrease
  <1>1. ASSUME Kept
        PROVE  SingleSigNoncesIncrease
    <2>1. SUFFICES ASSUME NEW c \in Calls, LookedUp(c), op[c].kind = "make" => ~op[c].opt.multi
                   PROVE  NonceOf(c) >= op[c].used
      BY DEF SingleSigNoncesIncrease
    <2>2. op[c].phase = "resolved" /\ op[c].opt.nonce = Unset
      BY <2>1 DEF LookedUp
    <2>3. CallInv(c) /\ op[c].kind \in {"make", "sponsor"}
      BY <1>1, <2>2, AtWork
    <2>4. CASE op[c].kind = "make"
      BY <2>1, <2>2, <2>3, <2>4 DEF CallInv, Making, Resolved, NonceOf
    <2>5. CASE op[c].kind = "sponsor"
      BY <2>2, <2>3, <2>5 DEF CallInv, Sponsoring, NonceOf
    <2>6. QED
      BY <2>3, <2>4, <2>5
  <1>2. QED
    BY <1>1, AlwaysKept, PTL

\* At the moment a call of sponsorTransaction resolves, the caller's object is
\* signed: nodes accept it, and it charges this call's key.
THEOREM SponsorsHaveSigned == Spec => SponsorSigns
  <1>1. Kept /\ [Next]_vars => [SponsorsSign]_vars
    BY NextKept
  <1>2. Spec => [][SponsorsSign]_vars
    BY <1>1, AlwaysKept, PTL DEF Spec
  <1>3. QED
    BY <1>2 DEF SponsorSigns, SponsorsSign
=============================================================================
