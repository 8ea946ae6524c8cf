-------------------------- MODULE TransactionCodec --------------------------
(***************************************************************************)
(* Transactions on the wire (transactions/src): their payloads, post       *)
(* conditions and spending conditions, with the constructors that make     *)
(* them, what is written for each and what is read back.  What has no      *)
(* structure of its own is short: amounts, keys, signatures and memos.     *)
(***************************************************************************)
EXTENDS ClarityCodec

TransactionVersion == [Mainnet |-> 0, Testnet |-> 128]
ChainID == [Mainnet |-> <<0, 0, 0, 1>>, Testnet |-> <<128, 0, 0, 0>>]
PayloadType ==
    [TokenTransfer |-> 0, SmartContract |-> 1, ContractCall |-> 2, PoisonMicroblock |-> 3,
     Coinbase |-> 4]
AnchorMode == [OnChainOnly |-> 1, OffChainOnly |-> 2, Any |-> 3]
PostConditionMode == [Allow |-> 1, Deny |-> 2]
PostConditionType == [STX |-> 0, Fungible |-> 1, NonFungible |-> 2]
PostConditionPrincipalID == [Origin |-> 1, Standard |-> 2, Contract |-> 3]
FungibleConditionCode ==
    [Equal |-> 1, Greater |-> 2, GreaterEqual |-> 3, Less |-> 4, LessEqual |-> 5]
NonFungibleConditionCode == [DoesNotOwn |-> 16, Owns |-> 17]
AuthType == [Standard |-> 4, Sponsored |-> 5]
AddressHashMode ==
    [SerializeP2PKH |-> 0, SerializeP2SH |-> 1, SerializeP2WPKH |-> 2, SerializeP2WSH |-> 3]
PubKeyEncoding == [Compressed |-> 0, Uncompressed |-> 1]
AuthFieldType ==
    [PublicKeyCompressed |-> 0, PublicKeyUncompressed |-> 1, SignatureCompressed |-> 2,
     SignatureUncompressed |-> 3]

AmountSize == 2         \* stands for 8
MemoSize == 3           \* stands for 34
CoinbaseSize == 2       \* stands for 32
SignatureSize == 2      \* stands for 65
KeySize == 1            \* a coordinate of a public key: stands for 32
MaxCode == 5            \* stands for 100000

----------------------------------------------------------------------------
(* Lists, memos, principals and assets (types.ts).                           *)

SerializeLPList(values, Serialize(_)) ==
    BigEndian(Len(values), 4) \o Concat([i \in DOMAIN values |-> Serialize(values[i])])

DeserializeLPList(bytes, ReadOne(_)) ==
    IF bytes = <<>> THEN Thrown
    ELSE ReadEach(Drop(bytes, 4), FromBigEndian(Take(bytes, 4)), ReadOne)

(* createLPString, createMemoString: a content that is too long throws.      *)
TooLong(contents, max) == \E content \in contents : ExceedsMaxLengthBytes(content, max)

(* The memo is as long as it can be, with zeros at its end.                  *)
Padded(bytes, n) == bytes \o [i \in 1..(n - Len(bytes)) |-> 0]
SerializeMemoString(memo) == Padded(Utf8Bytes(memo), MemoSize)
DeserializeMemoString(bytes) == Read(FromUtf8(Take(bytes, MemoSize)), Drop(bytes, MemoSize))

StandardPrincipal(address) == [prefix |-> "Standard", address |-> address]
ContractPrincipal(address, name) ==
    [prefix |-> "Contract", address |-> address, contractName |-> name]

SerializePrincipal(p) ==
    <<PostConditionPrincipalID[p.prefix]>> \o p.address
    \o (IF p.prefix = "Contract" THEN SerializeLPString(p.contractName, 1) ELSE <<>>)

(* The origin, which nothing here makes, is read as a contract is.           *)
DeserializePrincipal(bytes) ==
    Then(ReadEnum(bytes, PostConditionPrincipalID), LAMBDA prefix, some :
        Then(DeserializeAddress(some), LAMBDA address, rest :
            IF prefix = "Standard" THEN Read(StandardPrincipal(address), rest)
            ELSE Then(DeserializeLPString(rest, 1, MaxString), LAMBDA name, left :
                    Read([ContractPrincipal(address, name) EXCEPT !.prefix = prefix], left))))

CreateAssetInfo(address, contractName, assetName) ==
    IF TooLong({contractName, assetName}, MaxString) THEN Failed
    ELSE [address |-> address, contractName |-> contractName, assetName |-> assetName]

SerializeAssetInfo(info) ==
    info.address \o SerializeLPString(info.contractName, 1) \o SerializeLPString(info.assetName, 1)

DeserializeAssetInfo(bytes) ==
    Then(DeserializeAddress(bytes), LAMBDA address, some :
        Then(DeserializeLPString(some, 1, MaxString), LAMBDA contract, rest :
            Then(DeserializeLPString(rest, 1, MaxString), LAMBDA asset, left :
                Read(CreateAssetInfo(address, contract, asset), left))))

Amount(n) == BigEndian(n, AmountSize)
ReadAmount(bytes) == Read(FromBigEndian(Take(bytes, AmountSize)), Drop(bytes, AmountSize))

----------------------------------------------------------------------------
(* Post conditions.                                                          *)

CreateSTXPostCondition(principal, code, amount) ==
    [conditionType |-> "STX", principal |-> principal, conditionCode |-> code, amount |-> amount]

CreateFungiblePostCondition(principal, code, amount, info) ==
    [conditionType |-> "Fungible", principal |-> principal, conditionCode |-> code,
     amount |-> amount, assetInfo |-> info]

CreateNonFungiblePostCondition(principal, code, info, name) ==
    [conditionType |-> "NonFungible", principal |-> principal, conditionCode |-> code,
     assetInfo |-> info, assetName |-> name]

SerializePostCondition(pc) ==
    <<PostConditionType[pc.conditionType]>> \o SerializePrincipal(pc.principal)
    \o (CASE pc.conditionType = "STX" ->
                <<FungibleConditionCode[pc.conditionCode]>> \o Amount(pc.amount)
          [] pc.conditionType = "Fungible" ->
                SerializeAssetInfo(pc.assetInfo) \o <<FungibleConditionCode[pc.conditionCode]>>
                \o Amount(pc.amount)
          [] pc.conditionType = "NonFungible" ->
                SerializeAssetInfo(pc.assetInfo) \o SerializeCV(pc.assetName)
                \o <<NonFungibleConditionCode[pc.conditionCode]>>)

ReadCodeAndAmount(bytes, Make(_, _)) ==
    Then(ReadEnum(bytes, FungibleConditionCode), LAMBDA code, rest :
        Then(ReadAmount(rest), LAMBDA amount, left : Read(Make(code, amount), left)))

DeserializePostCondition(bytes) ==
    Then(ReadEnum(bytes, PostConditionType), LAMBDA type, some :
        Then(DeserializePrincipal(some), LAMBDA principal, rest :
            CASE type = "STX" ->
                    ReadCodeAndAmount(rest, LAMBDA code, amount :
                        CreateSTXPostCondition(principal, code, amount))
              [] type = "Fungible" ->
                    Then(DeserializeAssetInfo(rest), LAMBDA info, left :
                        ReadCodeAndAmount(left, LAMBDA code, amount :
                            CreateFungiblePostCondition(principal, code, amount, info)))
              [] type = "NonFungible" ->
                    Then(DeserializeAssetInfo(rest), LAMBDA info, more :
                        Then(DeserializeCV(more), LAMBDA name, last :
                            Then(ReadEnum(last, NonFungibleConditionCode), LAMBDA code, left :
                                Read(CreateNonFungiblePostCondition(principal, code, info, name),
                                     left))))))

----------------------------------------------------------------------------
(* Payloads.  Neither what is written nor what is read of a poison           *)
(* microblock is more than its type.                                         *)

CreateTokenTransferPayload(recipient, amount, memo) ==
    IF recipient = Failed \/ TooLong({memo}, MemoSize) THEN Failed
    ELSE [payloadType |-> "TokenTransfer", recipient |-> recipient, amount |-> amount,
          memo |-> memo]

CreateContractCallPayload(address, contractName, functionName, args) ==
    IF TooLong({contractName, functionName}, MaxString) THEN Failed
    ELSE [payloadType |-> "ContractCall", contractAddress |-> address,
          contractName |-> contractName, functionName |-> functionName, functionArgs |-> args]

CreateSmartContractPayload(contractName, codeBody) ==
    IF TooLong({contractName}, MaxString) \/ TooLong({codeBody}, MaxCode) THEN Failed
    ELSE [payloadType |-> "SmartContract", contractName |-> contractName, codeBody |-> codeBody]

CreatePoisonPayload == [payloadType |-> "PoisonMicroblock"]

CreateCoinbasePayload(buffer) ==
    IF Len(buffer) # CoinbaseSize THEN Failed
    ELSE [payloadType |-> "Coinbase", coinbaseBuffer |-> buffer]

SerializePayload(p) ==
    <<PayloadType[p.payloadType]>>
    \o (CASE p.payloadType = "TokenTransfer" ->
                SerializeCV(p.recipient) \o Amount(p.amount) \o SerializeMemoString(p.memo)
          [] p.payloadType = "ContractCall" ->
                p.contractAddress \o SerializeLPString(p.contractName, 1)
                \o SerializeLPString(p.functionName, 1)
                \o SerializeLPList(p.functionArgs, SerializeCV)
          [] p.payloadType = "SmartContract" ->
                SerializeLPString(p.contractName, 1) \o SerializeLPString(p.codeBody, 4)
          [] p.payloadType = "PoisonMicroblock" -> <<>>
          [] p.payloadType = "Coinbase" -> p.coinbaseBuffer)

DeserializeTokenTransfer(bytes) ==
    Then(DeserializeCV(bytes), LAMBDA recipient, some :
        Then(ReadAmount(some), LAMBDA amount, rest :
            Then(DeserializeMemoString(rest), LAMBDA memo, left :
                Read([payloadType |-> "TokenTransfer", recipient |-> recipient,
                      amount |-> amount, memo |-> memo], left))))

DeserializeContractCall(bytes) ==
    Then(DeserializeAddress(bytes), LAMBDA address, some :
        Then(DeserializeLPString(some, 1, MaxString), LAMBDA contract, more :
            Then(DeserializeLPString(more, 1, MaxString), LAMBDA function, rest :
                Then(ReadUInt(rest, 4), LAMBDA n, last :
                    Then(ReadEach(last, n, DeserializeCV), LAMBDA args, left :
                        Read(CreateContractCallPayload(address, contract, function, args),
                             left))))))

DeserializeSmartContract(bytes) ==
    Then(DeserializeLPString(bytes, 1, MaxString), LAMBDA contract, rest :
        Then(DeserializeLPString(rest, 4, MaxCode), LAMBDA code, left :
            Read(CreateSmartContractPayload(contract, code), left)))

DeserializePayload(bytes) ==
    Then(ReadEnum(bytes, PayloadType), LAMBDA type, rest :
        CASE type = "TokenTransfer" -> DeserializeTokenTransfer(rest)
          [] type = "ContractCall" -> DeserializeContractCall(rest)
          [] type = "SmartContract" -> DeserializeSmartContract(rest)
          [] type = "PoisonMicroblock" -> Read(CreatePoisonPayload, rest)
          [] type = "Coinbase" ->
                Checked(CreateCoinbasePayload(Take(rest, CoinbaseSize)), Drop(rest, CoinbaseSize)))

----------------------------------------------------------------------------
(* Keys, signatures and the fields of a multi-sig condition.  A public key   *)
(* is 4 and two coordinates, or 2 or 3 (by the second one) and the first.    *)

IsCompressed(key) == key[1] # 4
CompressPublicKey(key) ==
    IF IsCompressed(key) THEN key ELSE <<2 + (key[Len(key)] % 2)>> \o SubSeq(key, 2, 1 + KeySize)

DeserializePublicKey(bytes) ==
    Then(ReadUInt(bytes, 1), LAMBDA id, rest :
        LET length == IF id # 4 THEN KeySize ELSE 2 * KeySize IN
        Read(<<id>> \o Take(rest, length), Drop(rest, length)))

EmptyMessageSignature == [i \in 1..SignatureSize |-> 0]
DeserializeMessageSignature(bytes) ==
    IF Len(bytes) < SignatureSize THEN Thrown ELSE ReadBuffer(bytes, SignatureSize)

CreateTransactionAuthField(encoding, type, contents) ==
    [pubKeyEncoding |-> encoding, type |-> type, contents |-> contents]

(* The public key of an uncompressed field is written compressed.            *)
SerializeTransactionAuthField(f) ==
    CASE f.type = "PublicKey" /\ f.pubKeyEncoding = "Compressed" ->
            <<AuthFieldType.PublicKeyCompressed>> \o f.contents
      [] f.type = "PublicKey" /\ f.pubKeyEncoding = "Uncompressed" ->
            <<AuthFieldType.PublicKeyUncompressed>> \o CompressPublicKey(f.contents)
      [] f.type = "Signature" /\ f.pubKeyEncoding = "Compressed" ->
            <<AuthFieldType.SignatureCompressed>> \o f.contents
      [] f.type = "Signature" /\ f.pubKeyEncoding = "Uncompressed" ->
            <<AuthFieldType.SignatureUncompressed>> \o f.contents

DeserializeTransactionAuthField(bytes) ==
    Then(ReadEnum(bytes, AuthFieldType), LAMBDA field, rest :
        LET encoding == IF field \in {"PublicKeyCompressed", "SignatureCompressed"}
                        THEN "Compressed" ELSE "Uncompressed" IN
        IF field \in {"PublicKeyCompressed", "PublicKeyUncompressed"}
        THEN Then(DeserializePublicKey(rest), LAMBDA key, left :
                Read(CreateTransactionAuthField(encoding, "PublicKey", key), left))
        ELSE Then(DeserializeMessageSignature(rest), LAMBDA signature, left :
                Read(CreateTransactionAuthField(encoding, "Signature", signature), left)))

----------------------------------------------------------------------------
(* Spending conditions and authorizations.                                   *)

CreateSingleSigSpendingCondition(hashMode, key, signer, nonce, fee) ==
    [hashMode |-> hashMode, signer |-> signer, nonce |-> nonce, fee |-> fee,
     keyEncoding |-> IF IsCompressed(key) THEN "Compressed" ELSE "Uncompressed",
     signature |-> EmptyMessageSignature]

CreateMultiSigSpendingCondition(hashMode, numSigs, signer, nonce, fee) ==
    [hashMode |-> hashMode, signer |-> signer, nonce |-> nonce, fee |-> fee, fields |-> <<>>,
     signaturesRequired |-> numSigs]

IsSingleSig(condition) == "signature" \in DOMAIN condition

SerializeSpendingCondition(c) ==
    <<AddressHashMode[c.hashMode]>> \o c.signer \o Amount(c.nonce) \o Amount(c.fee)
    \o (IF IsSingleSig(c) THEN <<PubKeyEncoding[c.keyEncoding]>> \o c.signature
        ELSE SerializeLPList(c.fields, SerializeTransactionAuthField)
             \o BigEndian(c.signaturesRequired, 2))

DeserializeSingleSig(common, bytes) ==
    Then(ReadEnum(bytes, PubKeyEncoding), LAMBDA encoding, rest :
        Then(DeserializeMessageSignature(rest), LAMBDA signature, left :
            Read([hashMode |-> common.hashMode, signer |-> common.signer, nonce |-> common.nonce,
                  fee |-> common.fee, keyEncoding |-> encoding, signature |-> signature], left)))

DeserializeMultiSig(common, bytes) ==
    Then(DeserializeLPList(bytes, DeserializeTransactionAuthField), LAMBDA fields, rest :
        Then(ReadUInt(rest, 2), LAMBDA required, left :
            Read([hashMode |-> common.hashMode, signer |-> common.signer, nonce |-> common.nonce,
                  fee |-> common.fee, fields |-> fields, signaturesRequired |-> required], left)))

(* Which of the two it is follows from the hash mode.                        *)
DeserializeSpendingCondition(bytes) ==
    Then(ReadEnum(bytes, AddressHashMode), LAMBDA mode, some :
        Then(ReadBuffer(some, HashSize), LAMBDA signer, more :
            Then(ReadAmount(more), LAMBDA nonce, last :
                Then(ReadAmount(last), LAMBDA fee, rest :
                    LET common == [hashMode |-> mode, signer |-> signer, nonce |-> nonce,
                                   fee |-> fee] IN
                    IF mode \in {"SerializeP2PKH", "SerializeP2WPKH"}
                    THEN DeserializeSingleSig(common, rest)
                    ELSE DeserializeMultiSig(common, rest)))))

StandardAuthorization(condition) == [authType |-> "Standard", spendingCondition |-> condition]
SponsoredAuthorization(origin, sponsor) ==
    [authType |-> "Sponsored", spendingCondition |-> origin, sponsorSpendingCondition |-> sponsor]

ConditionsOf(auth) ==
    IF auth.authType = "Standard" THEN <<auth.spendingCondition>>
    ELSE <<auth.spendingCondition, auth.sponsorSpendingCondition>>

SerializeAuthorization(auth) ==
    <<AuthType[auth.authType]>>
    \o Concat([i \in DOMAIN ConditionsOf(auth) |->
                SerializeSpendingCondition(ConditionsOf(auth)[i])])

DeserializeAuthorization(bytes) ==
    Then(ReadEnum(bytes, AuthType), LAMBDA type, some :
        Then(DeserializeSpendingCondition(some), LAMBDA origin, rest :
            IF type = "Standard" THEN Read(StandardAuthorization(origin), rest)
            ELSE Then(DeserializeSpendingCondition(rest), LAMBDA sponsor, left :
                    Read(SponsoredAuthorization(origin, sponsor), left))))

----------------------------------------------------------------------------
(* StacksTransaction: an anchor mode that is not given follows the payload.  *)

Unset == "not given"

DefaultAnchorMode(payload) ==
    IF payload.payloadType \in {"Coinbase", "PoisonMicroblock"} THEN "OnChainOnly" ELSE "Any"

StacksTransaction(version, chainId, auth, anchorMode, mode, conditions, payload) ==
    [version |-> version, chainId |-> chainId, auth |-> auth,
     anchorMode |-> IF anchorMode = Unset THEN DefaultAnchorMode(payload) ELSE anchorMode,
     postConditionMode |-> IF mode = Unset THEN "Deny" ELSE mode,
     postConditions |-> conditions, payload |-> payload]

(* Every number the transaction holds in AmountSize bytes: one that is too   *)
(* large for them throws (BN.toArrayLike) where it is written.               *)
AmountsOf(tx) ==
    UNION {{c.nonce, c.fee} : c \in Range(ConditionsOf(tx.auth))}
    \cup {pc.amount : pc \in {q \in Range(tx.postConditions) : q.conditionType # "NonFungible"}}
    \cup (IF tx.payload.payloadType = "TokenTransfer" THEN {tx.payload.amount} ELSE {})

Serializable(tx) == \A n \in AmountsOf(tx) : n < 256 ^ AmountSize

SerializeTransaction(tx) ==
    <<TransactionVersion[tx.version]>> \o tx.chainId \o SerializeAuthorization(tx.auth)
    \o <<AnchorMode[tx.anchorMode], PostConditionMode[tx.postConditionMode]>>
    \o SerializeLPList(tx.postConditions, SerializePostCondition)
    \o SerializePayload(tx.payload)

DeserializeTransaction(bytes) ==
    Then(ReadEnum(bytes, TransactionVersion), LAMBDA version, rest1 :
        IF Len(rest1) < 4 THEN Thrown
        ELSE Then(DeserializeAuthorization(Drop(rest1, 4)), LAMBDA auth, rest2 :
            Then(ReadEnum(rest2, AnchorMode), LAMBDA anchor, rest3 :
                Then(ReadEnum(rest3, PostConditionMode), LAMBDA mode, rest4 :
                    Then(DeserializeLPList(rest4, DeserializePostCondition), LAMBDA pcs, rest5 :
                        Then(DeserializePayload(rest5), LAMBDA payload, left :
                            Read(StacksTransaction(version, Take(rest1, 4), auth, anchor, mode,
                                                   pcs, payload), left)))))))
=============================================================================
