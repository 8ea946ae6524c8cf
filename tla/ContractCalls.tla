--------------------------- MODULE ContractCalls ---------------------------
(***************************************************************************)
(* The contract calls that the name service and the stacking client build: *)
(* bns/src and the options of stacking/src.  A name is the sequence of the *)
(* labels between its dots, a string a sequence of characters.             *)
(***************************************************************************)
EXTENDS ClarityCodec

Dot == 46
Joined(labels) == FoldLeft(LAMBDA s, label : s \o <<Dot>> \o label, Head(labels), Tail(labels))

(* hash160, taken for one-to-one: the bytes that are hashed stand in it.     *)
Hash160(bytes) == <<160>> \o bytes

BufferCVFromString(string) == BufferCV(Utf8Bytes(string))
GetZonefileHash(zonefile) == Hash160(Utf8Bytes(zonefile))
SomeCV(v) == Of("OptionalSome", v)
NoneCV == Plain("OptionalNone")
NotGiven == <<>>

Call(function, args) ==
    IF \E i \in DOMAIN args : args[i] = Failed THEN Failed
    ELSE [type |-> "call", function |-> function, args |-> args]

----------------------------------------------------------------------------
(* bns/src/index.ts.                                                         *)

DecodeFQN(labels) ==
    IF Len(labels) > 2 THEN [subdomain |-> labels[1], name |-> labels[2], namespace |-> labels[3]]
    ELSE [subdomain |-> NotGiven, name |-> labels[1],
          namespace |-> IF Len(labels) = 2 THEN labels[2] ELSE NotGiven]

IsSubdomain(labels) == DecodeFQN(labels).subdomain # NotGiven

(* Buffer.from throws at a namespace that is undefined.                      *)
NameCall(function, labels, more) ==
    LET fqn == DecodeFQN(labels) IN
    IF IsSubdomain(labels) \/ Len(labels) = 1 THEN Failed
    ELSE Call(function, <<BufferCVFromString(fqn.namespace), BufferCVFromString(fqn.name)>> \o more)

OptionalHash(zonefile) ==
    IF zonefile = NotGiven THEN NoneCV ELSE SomeCV(BufferCV(GetZonefileHash(zonefile)))

BuildPreorderNamespaceTx(namespace, salt, burn) ==
    Call("namespace-preorder",
         <<BufferCV(Hash160(Utf8Bytes(namespace \o salt))), UIntCV(burn)>>)

(* The price function: base, coefficient, sixteen buckets and two discounts. *)
BuildRevealNamespaceTx(namespace, salt, prices, lifetime, importer) ==
    Call("namespace-reveal",
         <<BufferCVFromString(namespace), BufferCVFromString(salt)>>
         \o [i \in DOMAIN prices |-> UIntCV(prices[i])]
         \o <<UIntCV(lifetime), StandardPrincipalCV(importer)>>)

BuildImportNameTx(namespace, name, beneficiary, zonefile) ==
    Call("name-import",
         <<BufferCVFromString(namespace), BufferCVFromString(name),
           StandardPrincipalCV(beneficiary), BufferCV(GetZonefileHash(zonefile))>>)

BuildReadyNamespaceTx(namespace) == Call("namespace-ready", <<BufferCVFromString(namespace)>>)

\* (seeded fault: the salt is hashed before the name)
SaltFirst(labels, salt, burn) ==
    IF IsSubdomain(labels) THEN Failed
    ELSE Call("name-preorder",
              <<BufferCV(Hash160(Utf8Bytes(salt \o Joined(labels)))), UIntCV(burn)>>)

BuildPreorderNameTx(labels, salt, burn) ==
    IF IsSubdomain(labels) THEN Failed
    ELSE Call("name-preorder",
              <<BufferCV(Hash160(Utf8Bytes(Joined(labels) \o salt))), UIntCV(burn)>>)

BuildRegisterNameTx(labels, salt, zonefile) ==
    NameCall("name-register", labels,
             <<BufferCVFromString(salt), BufferCV(GetZonefileHash(zonefile))>>)

BuildUpdateNameTx(labels, zonefile) ==
    NameCall("name-update", labels, <<BufferCV(GetZonefileHash(zonefile))>>)

BuildTransferNameTx(labels, owner, zonefile) ==
    NameCall("name-transfer", labels, <<StandardPrincipalCV(owner), OptionalHash(zonefile)>>)

BuildRevokeNameTx(labels) == NameCall("name-revoke", labels, <<>>)

BuildRenewNameTx(labels, burn, owner, zonefile) ==
    NameCall("name-renewal", labels,
             <<UIntCV(burn),
               IF owner = NotGiven THEN NoneCV ELSE SomeCV(StandardPrincipalCV(owner)),
               OptionalHash(zonefile)>>)

CanRegisterName(labels) == NameCall("can-name-be-registered", labels, <<>>)
GetNamePrice(labels) == NameCall("get-name-price", labels, <<>>)
GetNamespacePrice(namespace) == Call("get-namespace-price", <<BufferCVFromString(namespace)>>)

(* What the answers of the three are taken for.                              *)
Registrable(answer) == answer.type = "ResponseOk" /\ answer.value.type = "BoolTrue"
Price(answer) ==
    IF answer.type = "ResponseOk" /\ answer.value.type \in {"Int", "UInt"}
    THEN answer.value.value ELSE Failed

----------------------------------------------------------------------------
(* stacking/src: a Bitcoin address is its version and its hash.              *)

BitcoinNetworkVersion ==
    [mainnet |-> [P2PKH |-> 0, P2SH |-> 5], testnet |-> [P2PKH |-> 111, P2SH |-> 196]]

HashbytesKey == <<104>>     \* hashbytes
VersionKey == <<118>>       \* version

HashModes == [P2PKH |-> 0, P2SH |-> 1]

BtcAddressVersionToHashMode(version) ==
    IF version \in {BitcoinNetworkVersion[n].P2PKH : n \in DOMAIN BitcoinNetworkVersion}
    THEN HashModes.P2PKH
    ELSE IF version \in {BitcoinNetworkVersion[n].P2SH : n \in DOMAIN BitcoinNetworkVersion}
    THEN HashModes.P2SH ELSE -1

HashModeToBtcAddressVersion(mode, network) ==
    IF mode = HashModes.P2PKH THEN BitcoinNetworkVersion[network].P2PKH
    ELSE IF mode = HashModes.P2SH THEN BitcoinNetworkVersion[network].P2SH ELSE -1

(* decodeBtcAddress and the tuple that is made of it.                        *)
PoxAddress(btc) ==
    LET mode == BtcAddressVersionToHashMode(btc.version) IN
    IF mode = -1 THEN Failed
    ELSE TupleCV(<<Entry(HashbytesKey, BufferCV(btc.hash)), Entry(VersionKey, BufferCV(<<mode>>))>>)

Field(tuple, key) ==
    tuple.value[CHOOSE i \in DOMAIN tuple.value : tuple.value[i].key = key].value.value

PoxAddressToBtcAddress(tuple, network) ==
    [version |-> HashModeToBtcAddressVersion(Field(tuple, VersionKey)[1], network),
     hash |-> Field(tuple, HashbytesKey)]

GetStackOptions(amount, btc, height, cycles) ==
    Call("stack-stx", <<UIntCV(amount), PoxAddress(btc), UIntCV(height), UIntCV(cycles)>>)

(* A height of 0 is not given, and an address may be left out.               *)
GetDelegateOptions(amount, delegate, until, btc) ==
    Call("delegate-stx",
         <<UIntCV(amount), StandardPrincipalCV(delegate),
           IF until = 0 THEN NoneCV ELSE SomeCV(UIntCV(until)),
           IF btc = Failed THEN NoneCV
           ELSE IF PoxAddress(btc) = Failed THEN Failed ELSE SomeCV(PoxAddress(btc))>>)

GetDelegateStackOptions(stacker, amount, btc, height, cycles) ==
    Call("delegate-stack-stx",
         <<StandardPrincipalCV(stacker), UIntCV(amount), PoxAddress(btc), UIntCV(height),
           UIntCV(cycles)>>)

GetStackAggregationCommitOptions(btc, cycle) ==
    Call("stack-aggregation-commit", <<PoxAddress(btc), UIntCV(cycle)>>)

GetRevokeDelegateStxOptions == Call("revoke-delegate-stx", <<>>)

(* The bytes of a difference say nothing of its sign.                        *)
ModifyLockTxFee(call, amount, fee) ==
    [call EXCEPT !.args[1] = UIntCV(IF amount < fee THEN fee - amount ELSE amount - fee)]
=============================================================================
