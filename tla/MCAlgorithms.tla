---------------------------- MODULE MCAlgorithms ----------------------------
(***************************************************************************)
(* The algorithms of the command line, of Clarity values and of contract   *)
(* calls, each compared with what it is for over all the inputs the        *)
(* actions below choose.                                                   *)
(***************************************************************************)
EXTENDS CommandLine, ContractCalls, TransactionCodec, TLC

vars == <<input>>

Init == input = [kind |-> "none"]

----------------------------------------------------------------------------
(* Clarity values: simple ones, and those that hold others.                  *)
Simple ==
    {IntCV(n) : n \in {0, 1, -1, -127}} \cup {UIntCV(0), UIntCV(255)}
    \cup {BufferCV(<<>>), BufferCV(<<0, 255>>)}
    \cup {Plain(type) : type \in {"BoolTrue", "BoolFalse", "OptionalNone"}}
    \cup {StandardPrincipalCV(<<22, 7>>), ContractPrincipalCV(<<22, 7>>, <<97, 233>>)}
    \cup {StringAsciiCV(<<>>), StringAsciiCV(<<65, 127>>)}
    \cup {StringUtf8CV(<<233>>), StringUtf8CV(<<65, 1000>>)}

Holding(v, values) ==
    {Of(type, w) : type \in {"ResponseOk", "ResponseErr", "OptionalSome"}, w \in {v}}
    \cup {ListCV(<<v, w>>) : w \in values}
    \cup {TupleCV(<<Entry(<<98>>, v), Entry(<<97, 49>>, w), Entry(<<97>>, v)>>) : w \in values}
Nested ==
    LET inner == {StringUtf8CV(<<233>>), ListCV(<<>>), TupleCV(<<>>),
                  TupleCV(<<Entry(<<98>>, UIntCV(1)), Entry(<<97>>, StringAsciiCV(<<66>>))>>)} IN
    UNION {Holding(v, inner) : v \in inner}

(* The command and the sort of an input come first.                          *)
Sort ==
    /\ input.kind = "none"
    /\ \/ \E name \in DOMAIN CLI_ARGS : input' = [kind |-> "command", command |-> name]
       \/ \E at \in 0..2 : input' = [kind |-> "options", at |-> at]
       \/ \E v \in Simple : input' = [kind |-> "values", first |-> v]

(* Command lines: of every command, its first arguments with up to two of    *)
(* them given by keyword, one argument too few to one too many, perhaps one  *)
(* that its pattern refuses, and the faults a keyword can have.              *)

Samples == Anything \ {"keyword", "option"}
Good(c, i) == Word(CHOOSE sample \in Samples : sample \in c.patterns[i], i)
Bad(c, i) ==
    Word(IF Samples \subseteq c.patterns[i] THEN "none of them"
             ELSE CHOOSE sample \in Samples : sample \notin c.patterns[i], i)

ByKeyword(c, keys) ==
    Concat([i \in DOMAIN c.names |->
              IF i \in keys THEN <<Keyword(c.names[i]), Good(c, i)>> ELSE <<>>])
InOrder(c, keys, count, bad) ==
    LET left == ThoseAt([i \in DOMAIN c.names |-> i], DOMAIN c.names \ keys) IN
    [k \in 1..count |-> IF k > Len(left) THEN Word("one", 90)
                        ELSE IF left[k] = bad THEN Bad(c, bad) ELSE Good(c, left[k])]
Faulty(c, fault) ==
    CASE fault = "none" -> <<>>
      [] fault = "unknown" -> <<Keyword("bogus"), Word("one", 91)>>
      [] fault = "no value" -> <<Keyword(c.names[1])>>
      [] fault = "keyword as value" -> <<Keyword(c.names[1]), Keyword("amount")>>

Line(name, words) ==
    input' = [kind |-> "line", argv |-> <<Word(name, 0)>> \o words]

KeywordsAround ==
    /\ input.kind = "command"
    /\ LET c == CLI_ARGS[input.command] IN
        \E keys \in {K \in SUBSET DOMAIN c.names : Cardinality(K) <= 2} :
            \E count \in 0..(Len(c.names) - Cardinality(keys) + 1),
               bad \in {0} \cup DOMAIN c.names, at \in 0..1 :
                LET words == InOrder(c, keys, count, bad) IN
                /\ at <= count
                /\ bad # 0 => \E k \in 1..count : words[k] = Bad(c, bad)
                /\ Line(input.command, Take(words, at) \o ByKeyword(c, keys) \o Drop(words, at))

KeywordFaults ==
    /\ input.kind = "command"
    /\ LET c == CLI_ARGS[input.command] IN
        \E fault \in {"unknown", "no value", "keyword as value"},
           keys \in {K \in SUBSET DOMAIN c.names : Cardinality(K) <= 1} :
            \E count \in 0..(Len(c.names) - Cardinality(keys)) :
                Line(input.command,
                     InOrder(c, keys, count, 0) \o ByKeyword(c, keys) \o Faulty(c, fault))

NoCommand ==
    /\ input.kind = "none"
    /\ Line("bogus", <<>>) \/ input' = [kind |-> "line", argv |-> <<>>]

(* Options before, after or among the words of a command.                    *)
OptionWords ==
    {Option("d"), Option("i"), Option("C"), Option("N"), Option("z"), DashDash,
     Word("file", 92)}
MaxOptionWords == 4

Options ==
    /\ input.kind = "options"
    /\ \E n \in 0..MaxOptionWords : \E words \in [1..n -> OptionWords] :
        LET line == <<Word("get_account_history", 0), Word("stx", 1),
                      Word("one", 2)>> IN
        input' = [kind |-> "line",
                  argv |-> Take(line, input.at) \o words \o Drop(line, input.at)]

----------------------------------------------------------------------------
(* Clarity values, inputs for typed arguments, and what calls are asked for. *)

Value ==
    /\ input.kind = "values"
    /\ \E v \in {input.first} \cup Holding(input.first, Simple)
                \cup Holding(input.first, Nested), tail \in {<<>>, <<3, 0>>} :
        input' = [kind |-> "value", value |-> v, tail |-> tail]

TypedInputs ==
    {[is |-> "number", n |-> n, text |-> <<49, 50, 51>>] :
        n \in {-256, -255, -1, 0, 1, 127, 200, 255, 256}}
    \cup {[is |-> "bool", on |-> on, lower |-> lower, text |-> <<116, 114>>] :
            on, lower \in BOOLEAN}
    \cup {[is |-> "address", address |-> <<22, 7>>, text |-> <<83, 80>>]}
    \cup {[is |-> "contract", address |-> <<22, 7>>, name |-> name, text |-> <<83>> \o name] :
            name \in {<<>>, <<97>>, <<97, 98, 99, 100>>}}
    \cup {[is |-> "text", text |-> text] : text \in UNION {[1..n -> {65, 233, 1000}] : n \in 0..3}}

Abi(id) == [id |-> id]
Types ==
    {Abi("uint128"), Abi("int128"), Abi("bool"), Abi("principal"), Abi("trait_reference"),
     Abi("none"), [id |-> "optional", of |-> Abi("bool")]}
    \cup {[id |-> id, length |-> n] : id \in {"buffer", "string-ascii", "string-utf8"}, n \in 0..4}

Typed ==
    /\ input.kind = "none"
    /\ \E typed \in TypedInputs, abi \in Types :
        input' = [kind |-> "typed", typed |-> typed, abi |-> abi]

(* Transactions: every sort of payload, post condition and spending          *)
(* condition, and numbers about the largest one that can be written.         *)
Numbers == {0, 256 ^ AmountSize - 1, 256 ^ AmountSize}
Somebody == <<22, 7>>

Payloads ==
    {CreateTokenTransferPayload(to, n, memo) :
        to \in {StandardPrincipalCV(Somebody), ContractPrincipalCV(Somebody, <<97>>)},
        n \in Numbers, memo \in {<<>>, <<65, 233>>, <<65, 66, 67>>}}
    \cup {CreateContractCallPayload(Somebody, <<97>>, <<98, 233>>, args) :
            args \in {<<>>, <<UIntCV(3), Of("OptionalSome", StringUtf8CV(<<233>>))>>,
                      <<TupleCV(<<Entry(<<98>>, IntCV(-1)), Entry(<<97>>, ListCV(<<>>))>>)>>}}
    \cup {CreateSmartContractPayload(<<97>>, code) : code \in {<<>>, <<65, 233, 66>>}}
    \cup {CreateCoinbasePayload(<<1, 2>>), CreatePoisonPayload}

Principals == {StandardPrincipal(Somebody), ContractPrincipal(Somebody, <<97, 98>>)}
Asset == CreateAssetInfo(Somebody, <<97>>, <<98, 233>>)
PostConditions ==
    {CreateSTXPostCondition(p, code, n) :
        p \in Principals, code \in DOMAIN FungibleConditionCode, n \in Numbers}
    \cup {CreateFungiblePostCondition(p, code, n, Asset) :
            p \in Principals, code \in {"Equal", "LessEqual"}, n \in Numbers}
    \cup {CreateNonFungiblePostCondition(p, code, Asset, BufferCV(<<7>>)) :
            p \in Principals, code \in DOMAIN NonFungibleConditionCode}

PublicKeys == {<<2, 9>>, <<4, 9, 5>>, <<4, 9, 6>>}
AuthFields ==
    {CreateTransactionAuthField(encoding, "Signature", <<1, 8>>) :
        encoding \in DOMAIN PubKeyEncoding}
    \cup {CreateTransactionAuthField(IF IsCompressed(key) THEN "Compressed" ELSE "Uncompressed",
                                    "PublicKey", key) : key \in PublicKeys}
SingleSigs ==
    {CreateSingleSigSpendingCondition(mode, key, <<7>>, nonce, fee) :
        mode \in {"SerializeP2PKH", "SerializeP2WPKH"}, key \in PublicKeys,
        nonce \in Numbers, fee \in {0, 300}}
MultiSigs ==
    {[CreateMultiSigSpendingCondition("SerializeP2SH", 2, <<7>>, 1, fee) EXCEPT !.fields = fields] :
        fee \in Numbers, fields \in {<<>>} \cup {<<f, g>> : f, g \in AuthFields}}
SpendingConditions == SingleSigs \cup MultiSigs

(* Each part of a transaction in turn takes all its forms.                   *)
PlainAuth ==
    StandardAuthorization(
        CreateSingleSigSpendingCondition("SerializeP2PKH", <<2, 9>>, <<7>>, 0, 300))
PlainPayload == CreateTokenTransferPayload(StandardPrincipalCV(Somebody), 5, <<65>>)

Transactions ==
    {StacksTransaction("Mainnet", ChainID.Mainnet, StandardAuthorization(c), Unset, Unset, <<>>, p) :
        c \in SpendingConditions, p \in {PlainPayload}}
    \cup {StacksTransaction("Testnet", ChainID.Testnet, SponsoredAuthorization(c, d), "Any",
                           "Allow", <<>>, PlainPayload) :
            c \in MultiSigs, d \in {e \in SingleSigs : e.fee = 300}}
    \cup {StacksTransaction("Mainnet", ChainID.Mainnet, PlainAuth, anchor, Unset, conditions, p) :
            anchor \in {Unset, "OffChainOnly"}, p \in Payloads,
            conditions \in {<<>>} \cup {<<pc>> : pc \in PostConditions}}
    \cup {StacksTransaction("Mainnet", ChainID.Mainnet, PlainAuth, "OnChainOnly", "Deny",
                           <<pc, qc>>, PlainPayload) : pc, qc \in PostConditions}

Transaction ==
    /\ input.kind = "none"
    /\ \E tx \in Transactions : input' = [kind |-> "transaction", tx |-> tx]

Labels == {<<97>>, <<98, 233>>, <<99, 100>>}

NameRequest ==
    /\ input.kind = "none"
    /\ \E labels \in UNION {[1..n -> Labels] : n \in 1..3}, salt \in {<<49>>, <<50, 51>>},
       zonefile \in {NotGiven, <<36>>}, burn \in {0, 3} :
        input' = [kind |-> "name", labels |-> labels, salt |-> salt, zonefile |-> zonefile,
                  burn |-> burn]

StackRequest ==
    /\ input.kind = "none"
    /\ \E network \in DOMAIN BitcoinNetworkVersion, of \in DOMAIN BitcoinNetworkVersion,
       hash \in {<<1, 2>>, <<9, 9>>}, mode \in {"P2PKH", "P2SH", "segwit"},
       amount \in {0, 5, 200}, fee \in {0, 5, 9} :
        input' = [kind |-> "stack", network |-> network, amount |-> amount, fee |-> fee, of |-> of,
                  btc |-> [hash |-> hash,
                           version |-> IF mode = "segwit" THEN 99
                                       ELSE BitcoinNetworkVersion[of][mode]]]

Next ==
    \/ Sort
    \/ KeywordsAround
    \/ KeywordFaults
    \/ NoCommand
    \/ Options
    \/ Value
    \/ Typed
    \/ Transaction
    \/ NameRequest
    \/ StackRequest

Spec == Init /\ [][Next]_vars

----------------------------------------------------------------------------
(* Values, typed arguments and calls.                                        *)

RECURSIVE Canonical(_)
Canonical(v) ==
    CASE v.type \in {"ResponseOk", "ResponseErr", "OptionalSome"} -> Of(v.type, Canonical(v.value))
      [] v.type = "List" -> ListCV([i \in DOMAIN v.value |-> Canonical(v.value[i])])
      [] v.type = "Tuple" ->
            LET entries == SortSeq(v.value, LAMBDA a, b : Before(a.key, b.key)) IN
            TupleCV([i \in DOMAIN entries |-> Entry(entries[i].key, Canonical(entries[i].value))])
      [] OTHER -> v

(* What a transaction is when it is read back: the memo has become longer,   *)
(* and the keys of its fields are compressed.                                *)
FieldAsRead(f) ==
    IF f.type = "PublicKey" THEN [f EXCEPT !.contents = CompressPublicKey(f.contents)] ELSE f
ConditionAsRead(c) ==
    IF IsSingleSig(c) THEN c
    ELSE [c EXCEPT !.fields = [i \in DOMAIN c.fields |-> FieldAsRead(c.fields[i])]]
AuthAsRead(auth) ==
    IF auth.authType = "Standard"
    THEN StandardAuthorization(ConditionAsRead(auth.spendingCondition))
    ELSE SponsoredAuthorization(ConditionAsRead(auth.spendingCondition),
                                ConditionAsRead(auth.sponsorSpendingCondition))
PayloadAsRead(p) ==
    CASE p.payloadType = "TokenTransfer" ->
            [p EXCEPT !.memo = p.memo \o [i \in 1..(MemoSize - Len(Utf8Bytes(p.memo))) |-> 0]]
      [] p.payloadType = "ContractCall" ->
            [p EXCEPT !.functionArgs = [i \in DOMAIN p.functionArgs |-> Canonical(p.functionArgs[i])]]
      [] OTHER -> p
AsRead(tx) == [tx EXCEPT !.auth = AuthAsRead(@), !.payload = PayloadAsRead(@)]

(* A value or a transaction comes back from its bytes as it was, but for the *)
(* order of a tuple's entries, the length of a memo and the compression of   *)
(* the public keys, and no byte of what follows it is read.                  *)
RoundTrip ==
    /\ input.kind = "value" =>
        DeserializeCV(SerializeCV(input.value) \o input.tail)
          = Read(Canonical(input.value), input.tail)
    /\ input.kind = "transaction" /\ Serializable(input.tx) =>
        DeserializeTransaction(SerializeTransaction(input.tx) \o <<4>>)
          = Read(AsRead(input.tx), <<4>>)

Longest(abi) ==
    IF abi.id \in {"buffer", "string-ascii", "string-utf8"} THEN [abi EXCEPT !.length = 99]
    ELSE abi

(* What parseToCV makes of an input for a type is of that type, lengths      *)
(* included; what encodeClarityValue makes is of it but for its length, and  *)
(* where both take an input for a type they make the same of it.             *)
AbiArgumentsFit ==
    input.kind = "typed" =>
        LET parsed == ParseToCV(input.typed, input.abi)
            encoded == EncodeClarityValue(input.abi, input.typed) IN
        /\ parsed # Failed => ValidateContractCall(<<parsed>>, <<input.abi>>)
        /\ encoded # Failed => MatchType(encoded, Longest(input.abi))
        /\ Failed \notin {parsed, encoded} => parsed = encoded

(* A call as the contract gets it.                                           *)
Wire(call) ==
    IF call = Failed THEN Failed
    ELSE [call EXCEPT !.args =
            [i \in DOMAIN call.args |-> DeserializeCV(SerializeCV(call.args[i])).value]]

NameCalls(r) ==
    {BuildImportNameTx(r.labels[1], r.labels[Len(r.labels)], <<22, 7>>, r.zonefile),
     BuildReadyNamespaceTx(r.labels[1]), BuildUpdateNameTx(r.labels, r.zonefile),
     BuildTransferNameTx(r.labels, <<22, 7>>, r.zonefile), BuildRevokeNameTx(r.labels),
     BuildRenewNameTx(r.labels, r.burn, <<22, 7>>, r.zonefile), CanRegisterName(r.labels),
     GetNamePrice(r.labels), GetNamespacePrice(r.labels[1])} \ {Failed}

NameCallsMeanWhatWasAsked(r) ==
    LET preorder == Wire(BuildPreorderNameTx(r.labels, r.salt, r.burn))
        register == Wire(BuildRegisterNameTx(r.labels, r.salt, r.zonefile))
        reserve == Wire(BuildPreorderNamespaceTx(r.labels[1], r.salt, r.burn))
        reveal == Wire(BuildRevealNamespaceTx(r.labels[1], r.salt, <<1, 2>>, r.burn, <<22, 7>>)) IN
    /\ register # Failed =>
        /\ preorder.args[1].value
             = Hash160(register.args[2].value \o <<Dot>> \o register.args[1].value
                       \o register.args[3].value)
        /\ register.args[4].value = GetZonefileHash(r.zonefile)
        /\ preorder.args[2].value = r.burn
    /\ reserve.args[1].value = Hash160(reveal.args[1].value \o reveal.args[2].value)
    /\ \A call \in NameCalls(r) : Wire(call) = call
    /\ IsSubdomain(r.labels) => register = Failed /\ preorder = Failed
    /\ Price(Wire(Call("price", <<Of("ResponseOk", UIntCV(r.burn))>>)).args[1]) = r.burn
    /\ \A b \in {"BoolTrue", "BoolFalse"} :
        Registrable(Wire(Call("can", <<Of("ResponseOk", Plain(b))>>)).args[1]) = (b = "BoolTrue")

StackCallsMeanWhatWasAsked(r) ==
    LET calls == {GetStackOptions(r.amount, r.btc, 7, 1),
                  GetDelegateOptions(r.amount, <<22, 7>>, 7, r.btc)}
        locked == Wire(GetStackOptions(r.amount, r.btc, 7, 1))
        delegated == Wire(GetDelegateStackOptions(<<22, 7>>, r.amount, r.btc, 7, 1))
        commit == Wire(GetStackAggregationCommitOptions(r.btc, 1)) IN
    /\ r.btc.version = 99 => calls = {Failed} /\ delegated = Failed /\ commit = Failed
    /\ locked # Failed =>
        /\ locked.args[2] = delegated.args[3] /\ locked.args[2] = commit.args[1]
        /\ locked.args[1].value = r.amount
        /\ r.of = r.network => PoxAddressToBtcAddress(locked.args[2], r.network) = r.btc
        /\ r.fee <= r.amount =>
            Wire(ModifyLockTxFee(locked, r.amount, r.fee)).args[1].value + r.fee = r.amount
    /\ \A call \in calls \cup {GetRevokeDelegateStxOptions} : Wire(call) = call

(* The contract reads from a call what the caller asked for: a preorder's    *)
(* hash is the one its registration must show, amounts and zone file hashes  *)
(* are the caller's, and the PoX address names the same Bitcoin address.     *)
CallsMeanWhatWasAsked ==
    /\ input.kind = "name" => NameCallsMeanWhatWasAsked(input)
    /\ input.kind = "stack" => StackCallsMeanWhatWasAsked(input)
=============================================================================
