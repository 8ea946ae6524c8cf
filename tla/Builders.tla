------------------------------ MODULE Builders ------------------------------
(***************************************************************************)
(* The transaction builders of packages/transactions/src/builders.ts: the  *)
(* make functions and sponsorTransaction as the continuations between the  *)
(* requests they make to a node, and the transactions they build.          *)
(*                                                                         *)
(* A transaction is an object.  The call that makes it has it for itself   *)
(* until it resolves; sponsorTransaction is handed the caller's object and *)
(* changes it, before and after its awaits, and so may several calls at    *)
(* the same time.                                                          *)
(***************************************************************************)
EXTENDS Signing

CONSTANTS
    Calls,        \* calls of a builder; a make names the transaction it makes
    MakeOptions,  \* the options the application passes to a make function
    SponsorOptions,
    Fees,         \* the fees a node may estimate
    Unset         \* an option that is not given

Given == Nat \cup {Unset}

MakeOption ==
    [payload: {"transfer", "deploy", "call"},
     abi: BOOLEAN,                  \* validateWithAbi: true
     sponsored: BOOLEAN,
     multi: BOOLEAN,                \* publicKeys rather than publicKey, senderKey
     publicKeys: Seq(Keys), numSignatures: Nat,
     signerKeys: Seq(Keys),         \* <<>>: one of the makeUnsigned functions
     fee: Given, nonce: Given]

SponsorOption == [key: Keys, fee: Given, nonce: Given]

ASSUME BuildersAssumption ==
    /\ MakeOptions \subseteq MakeOption
    /\ \A o \in MakeOptions :
         /\ o.abi => o.payload = "call"
         /\ o.multi => o.payload # "deploy" /\ o.publicKeys # <<>>
         /\ ~o.multi => /\ Len(o.publicKeys) = 1 /\ o.numSignatures = 1
                        /\ o.signerKeys \in {<<>>, o.publicKeys}
         /\ o.payload = "deploy" => o.signerKeys # <<>>
    /\ SponsorOptions \subseteq SponsorOption
    /\ Fees \subseteq Nat
    /\ Unset \notin Nat
    /\ IsFiniteSet(Calls)

VARIABLES
    op,           \* what each call is doing
    txs,          \* the transaction object each make has created
    pool,         \* the node: transactions it has admitted
    account       \* the node: the next nonce of each address

vars == <<op, txs, pool, account>>

\* An address is a version and a hash of public keys.
Address(version, cond) ==
    [version |-> version, owners |-> cond.owners, required |-> cond.required]

\* The address that a node charges for a condition.
Payer(cond) == Address(IF cond.multi THEN "multi" ELSE "single", cond)

SponsorCondition(key, nonce, fee) == NewCondition(FALSE, <<key>>, 1, nonce, fee)

OriginCondition(o, nonce, fee) ==
    NewCondition(o.multi, o.publicKeys, o.numSignatures, nonce, fee)

Addresses == {Payer(OriginCondition(o, 0, 0)) : o \in MakeOptions}
             \cup {Payer(SponsorCondition(o.key, 0, 0)) : o \in SponsorOptions}

Phases == {"idle", "abi", "fee", "nonce", "answered", "resolved", "rejected"}
    \* "abi", "fee", "nonce": waiting for that answer of a node;
    \* "answered": the node has read the nonce, the answer is on its way

NoTransaction == [auth |-> "none"]
NoOperation ==
    [kind |-> "none", phase |-> "idle", opt |-> Unset, tx |-> Unset,
     fee |-> 0, nonce |-> 0, used |-> 0]

Init ==
    /\ op = [c \in Calls |-> NoOperation]
    /\ txs = [c \in Calls |-> NoTransaction]
    /\ pool = {}
    /\ account = [a \in Addresses |-> 0]

----------------------------------------------------------------------------
(* Transactions. *)

\* BigNum(0) for an option that is not given
OrZero(given) == IF given = Unset THEN 0 ELSE given

\* StandardAuthorization and SponsoredAuthorization.
NewTransaction(o) ==
    [auth |-> IF o.sponsored THEN "sponsored" ELSE "standard",
     origin |-> OriginCondition(o, OrZero(o.nonce), OrZero(o.fee)),
     sponsor |-> SponsorCondition(NoKey, 0, 0)]

\* (seeded fault: the fee is always the origin's)
SetOriginFee(tx, fee) == [tx EXCEPT !.origin.fee = fee]

\* The fee is the sponsor's when there is one.
SetFee(tx, fee) ==
    IF tx.auth = "standard" THEN [tx EXCEPT !.origin.fee = fee]
    ELSE [tx EXCEPT !.sponsor.fee = fee]

\* (seeded fault: the nonce is set where the fee is)
SetPayerNonce(tx, nonce) ==
    IF tx.auth = "standard" THEN [tx EXCEPT !.origin.nonce = nonce]
    ELSE [tx EXCEPT !.sponsor.nonce = nonce]

\* The nonce is the origin's.
SetNonce(tx, nonce) == [tx EXCEPT !.origin.nonce = nonce]

\* (seeded fault: a transaction keeps the sponsor it has)
SetFirstSponsor(tx, cond) ==
    IF tx.sponsor.owners = <<NoKey>> THEN [tx EXCEPT !.sponsor = cond] ELSE tx

\* A sponsor replaces the one before, with its signature.
SetSponsor(tx, cond) == [tx EXCEPT !.sponsor = cond]

----------------------------------------------------------------------------
(* How a call goes on.  `me` is the call's record; the request it makes    *)
(* next, if any, is the first of fee and nonce that was neither given nor  *)
(* asked for.                                                              *)

NextRequest(o, asked) ==
    IF o.fee = Unset /\ "fee" \notin asked THEN "fee"
    ELSE IF o.nonce = Unset /\ "nonce" \notin asked THEN "nonce"
    ELSE "none"

Become(c, me, phase) == op' = [op EXCEPT ![c] = [me EXCEPT !.phase = phase]]

Holds(t, tx) == txs' = [txs EXCEPT ![t] = tx]

\* The signed half of makeSTXTokenTransfer, makeContractCall and
\* makeContractDeploy; without keys it is one of the makeUnsigned functions.
MakeFinish(c, me, tx) ==
    LET signed == SignAll(tx.origin, me.opt.publicKeys, me.opt.signerKeys) IN
    \/ /\ me.opt.signerKeys = <<>>
       /\ Become(c, me, "resolved")
       /\ Holds(c, tx)
    \/ /\ me.opt.signerKeys # <<>> /\ signed.ok
       /\ Become(c, me, "resolved")
       /\ Holds(c, [tx EXCEPT !.origin = signed.cond])
    \/ /\ me.opt.signerKeys # <<>> /\ ~signed.ok
       /\ Become(c, me, "rejected")
       /\ Holds(c, tx)

MakeGoesOn(c, me, tx, asked) ==
    LET next == NextRequest(me.opt, asked) IN
    \/ next # "none" /\ Become(c, me, next) /\ Holds(c, tx)
    \/ next = "none" /\ MakeFinish(c, me, tx)

\* The last step of sponsorTransaction: a new condition in the caller's
\* transaction, and a signer that works on a copy of the transaction and on
\* that very condition, which it continues with the hash of verifyOrigin.
SponsorFinish(c, me, tx) ==
    LET cond == SponsorCondition(me.opt.key, me.nonce, me.fee)
        hash == VerifyOrigin(tx.origin)
    IN  \/ /\ tx.auth # "sponsored"
           /\ Become(c, me, "rejected")
           /\ Holds(me.tx, tx)
        \/ /\ tx.auth = "sponsored" /\ hash = NoHash
           /\ Become(c, me, "rejected")
           /\ Holds(me.tx, SetSponsor(tx, cond))
        \/ /\ tx.auth = "sponsored" /\ hash # NoHash
           /\ Become(c, me, "resolved")
           /\ Holds(me.tx, SetSponsor(tx,
                    SignAndAppend(cond, hash, "sponsored", me.opt.key).cond))

SponsorGoesOn(c, me, tx, asked) ==
    LET next == NextRequest(me.opt, asked) IN
    \/ next # "none" /\ Become(c, me, next) /\ Holds(me.tx, tx)
    \/ next = "none" /\ SponsorFinish(c, me, tx)

GoesOn(c, me, tx, asked) ==
    \/ me.kind = "make" /\ MakeGoesOn(c, me, tx, asked)
    \/ me.kind = "sponsor" /\ SponsorGoesOn(c, me, tx, asked)

----------------------------------------------------------------------------
(* The actions of a call. *)

\* `used` is history: how many nonces of the payer were used at the start.
Start(kind, o, t, cond) ==
    [kind |-> kind, phase |-> "idle", opt |-> o, tx |-> t,
     fee |-> OrZero(o.fee), nonce |-> OrZero(o.nonce), used |-> account[Payer(cond)]]

Make(c) == \E o \in MakeOptions :
    LET me == Start("make", o, c, OriginCondition(o, 0, 0)) IN
    /\ op[c].phase = "idle"
    /\ \/ o.abi /\ Become(c, me, "abi") /\ UNCHANGED txs
       \/ ~o.abi /\ MakeGoesOn(c, me, NewTransaction(o), {})
    /\ UNCHANGED <<pool, account>>

\* getAbi has answered and validateContractCall has not thrown
AbiValidated(c) ==
    /\ op[c].phase = "abi"
    /\ MakeGoesOn(c, op[c], NewTransaction(op[c].opt), {})
    /\ UNCHANGED <<pool, account>>

Sponsor(c) == \E o \in SponsorOptions, t \in Calls :
    LET me == Start("sponsor", o, t, SponsorCondition(o.key, 0, 0)) IN
    /\ op[c].phase = "idle"
    /\ op[t].kind = "make" /\ op[t].phase = "resolved"
    /\ SponsorGoesOn(c, me, txs[t], {})
    /\ UNCHANGED <<pool, account>>

\* estimateTransfer, estimateContractDeploy, estimateContractFunctionCall:
\* the fee goes into the transaction, which for a sponsor is the caller's.
FeeEstimated(c) == \E fee \in Fees :
    LET t == op[c].tx IN
    /\ op[c].phase = "fee"
    /\ GoesOn(c, [op[c] EXCEPT !.fee = fee], SetFee(txs[t], fee), {"fee"})
    /\ UNCHANGED <<pool, account>>

\* The address the nonce is looked up for has the single-sig version.
LookupAddress(c) ==
    IF op[c].kind = "make" THEN Address("single", txs[c].origin)
    ELSE Address("single", SponsorCondition(op[c].opt.key, 0, 0))

\* getNonce: a node answers 0 for an address it does not know
GetNonce(address) == IF address \in Addresses THEN account[address] ELSE 0

NonceRead(c) ==
    /\ op[c].phase = "nonce"
    /\ Become(c, [op[c] EXCEPT !.nonce = GetNonce(LookupAddress(c))], "answered")
    /\ UNCHANGED <<txs, pool, account>>

\* The answer arrives; nonces may have been used in the meantime.
NonceFetched(c) ==
    LET tx == txs[op[c].tx] IN
    /\ op[c].phase = "answered"
    /\ GoesOn(c, op[c],
              IF op[c].kind = "make" THEN SetNonce(tx, op[c].nonce) ELSE tx,
              {"fee", "nonce"})
    /\ UNCHANGED <<pool, account>>

\* A request fails, or the call does not agree with the ABI: the promise is
\* rejected and what has been done to the transaction stays.
RequestFails(c) ==
    /\ op[c].phase \in {"abi", "fee", "nonce", "answered"}
    /\ Become(c, op[c], "rejected")
    /\ UNCHANGED <<txs, pool, account>>

\* broadcastTransaction: the node admits a copy of what is serialized.
Broadcast(t) ==
    /\ op[t].kind = "make" /\ op[t].phase = "resolved"
    /\ NodeAccepts(txs[t])
    /\ pool' = pool \cup {txs[t]}
    /\ UNCHANGED <<op, txs, account>>

----------------------------------------------------------------------------
(* The node. *)

Conditions(tx) == {tx.origin} \cup (IF tx.auth = "sponsored" THEN {tx.sponsor} ELSE {})

Confirm(tx) ==
    /\ \A cond \in Conditions(tx) : account[Payer(cond)] = cond.nonce
    /\ account' = [a \in Addresses |->
                     IF \E cond \in Conditions(tx) : Payer(cond) = a
                     THEN account[a] + 1 ELSE account[a]]
    /\ pool' = pool \ {tx}
    /\ UNCHANGED <<op, txs>>

Next ==
    \/ \E c \in Calls : \/ Make(c) \/ AbiValidated(c) \/ Sponsor(c)
                        \/ FeeEstimated(c) \/ NonceRead(c) \/ NonceFetched(c)
                        \/ RequestFails(c) \/ Broadcast(c)
    \/ \E tx \in pool : Confirm(tx)

Spec == Init /\ [][Next]_vars

----------------------------------------------------------------------------
(* Properties. *)

IsCondition(cond) ==
    /\ cond.multi \in BOOLEAN
    /\ cond.owners \in Seq(Keys \cup {NoKey})
    /\ cond.required \in Nat /\ cond.nonce \in Nat /\ cond.fee \in Nat
    /\ \A i \in DOMAIN cond.fields :
         /\ cond.fields[i].kind \in {"signature", "publicKey"}
         /\ cond.fields[i].key \in Keys

IsTransaction(tx) ==
    /\ tx.auth \in AuthTypes
    /\ IsCondition(tx.origin) /\ IsCondition(tx.sponsor)

\* Every call, transaction object and address has its type; a transaction
\* exists from the moment its make call asks the node for a fee or a nonce.
TypeOK ==
    /\ \A c \in Calls :
         /\ op[c].kind \in {"none", "make", "sponsor"}
         /\ op[c].phase \in Phases
         /\ op[c].kind = "make" => op[c].opt \in MakeOptions /\ op[c].tx = c
         /\ op[c].kind = "sponsor" => op[c].opt \in SponsorOptions /\ op[c].tx \in Calls
         /\ op[c].fee \in Nat /\ op[c].nonce \in Nat /\ op[c].used \in Nat
         /\ \/ txs[c] = NoTransaction /\ op[c].phase \notin {"fee", "nonce", "answered", "resolved"}
            \/ IsTransaction(txs[c])
            \/ op[c].kind = "sponsor"
    /\ \A tx \in pool : IsTransaction(tx) /\ NodeAccepts(tx)
    /\ account \in [Addresses -> Nat]

\* The multi-sig options that give a transaction a node accepts: as many
\* signing keys as are required, which are the first of the public keys and come
\* no more among the others, and no uncompressed private key that happens to
\* end in 01.
InOrder(o) ==
    /\ o.signerKeys # <<>>
    /\ o.multi => /\ Len(o.signerKeys) = o.numSignatures
                  /\ Len(o.signerKeys) <= Len(o.publicKeys)
                  /\ \A i \in DOMAIN o.signerKeys :
                       /\ o.signerKeys[i] = o.publicKeys[i]
                       /\ o.signerKeys[i] \in EndsIn01 => o.signerKeys[i] \in Compressed
                       /\ \A j \in (o.numSignatures + 1)..Len(o.publicKeys) :
                            o.publicKeys[j] # o.signerKeys[i]

SponsorsOf(t) == {c \in Calls : op[c].kind = "sponsor" /\ op[c].tx = t}

\* The origin of a transaction that a make function resolved with verifies
\* exactly when its options are in order, whatever sponsorTransaction calls do
\* with the object afterwards, at the same time or failing half-way.  A standard
\* transaction is not for sponsors: their fee would be its own.
OriginStaysValid ==
    \A t \in Calls :
        op[t].kind = "make" /\ op[t].phase = "resolved"
            /\ (op[t].opt.sponsored \/ SponsorsOf(t) = {})
        => (OriginVerifies(txs[t]) <=> InOrder(op[t].opt))

\* The sponsor of tx is the one of the call, with the fee and the nonce that
\* this call was given or has looked up.
SponsoredBy(tx, me) ==
    /\ tx.sponsor.owners = <<me.opt.key>>
    /\ tx.sponsor.fee = me.fee
    /\ tx.sponsor.nonce = me.nonce

\* When all calls of sponsorTransaction on a transaction have resolved, nodes
\* accept it, and it charges one of the callers what that call settled on,
\* however the calls overlapped.
SponsoredStaysValid ==
    \A t \in Calls :
        LET sponsors == SponsorsOf(t) IN
        sponsors # {} /\ (\A c \in sponsors : op[c].phase = "resolved")
        => NodeAccepts(txs[t]) /\ \E c \in sponsors : SponsoredBy(txs[t], op[c])

\* At the moment a call of sponsorTransaction resolves, the caller's object is
\* the signed transaction: nodes accept it and it charges this call's key, even
\* when another call has replaced the sponsor during the awaits.
SponsorSigns ==
    [][\A c \in Calls :
        op[c].phase # "resolved" /\ op'[c].phase = "resolved" /\ op'[c].kind = "sponsor"
        => NodeAccepts(txs'[op'[c].tx]) /\ SponsoredBy(txs'[op'[c].tx], op'[c])]_vars

\* The nonce a call has resolved with, and whether it looked it up.
NonceOf(c) == IF op[c].kind = "make" THEN txs[c].origin.nonce ELSE op[c].nonce

LookedUp(c) == op[c].phase = "resolved" /\ op[c].opt.nonce = Unset

\* A nonce that is looked up is beyond those of the payer's transactions that
\* were confirmed when the call started, if the payer has one key: of several
\* keys the nonce of another address is looked up (builders.ts:375).
SingleSigNoncesIncrease ==
    \A c \in Calls :
        LookedUp(c) /\ (op[c].kind = "make" => ~op[c].opt.multi)
        => NonceOf(c) >= op[c].used
=============================================================================
