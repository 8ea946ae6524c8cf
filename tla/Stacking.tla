------------------------------ MODULE Stacking ------------------------------
(***************************************************************************)
(* Stacking from the command line (cli/src/cli.ts: stack, canStack,        *)
(* stackingStatus) through StackingClient (stacking/src): every answer of  *)
(* the node is of the moment it is given, while blocks are mined, other    *)
(* transactions of the account confirmed, and the minimum amount changed.  *)
(* The PoX contract and the chain are external.                            *)
(***************************************************************************)
EXTENDS Integers

CONSTANTS
    Calls,          \* commands that run
    Offered,        \* call |-> which they may be: "stack", "can_stack", "status"
    Amounts,        \* amounts asked for, and what a transfer may take
    CycleChoices,   \* numbers of cycles asked for
    MinAmounts,     \* what min_amount_ustx may be
    Balance,        \* of the account at the start
    Fee,            \* of a transaction
    CycleLength,    \* reward_cycle_length
    FirstHeight,    \* first_burnchain_block_height
    MaxCycles,      \* cycles the contract locks for at most
    MaxHeight       \* bound on the blocks mined

Unread == -1
Heights == FirstHeight..MaxHeight
Kinds == {"stack", "can_stack", "status"}

ASSUME StackingAssumption ==
    /\ Offered \in [Calls -> SUBSET Kinds]
    /\ Amounts \subseteq Nat /\ MinAmounts \subseteq Nat /\ CycleChoices \subseteq Nat
    /\ Balance \in Nat /\ Fee \in Nat /\ MaxCycles \in Nat
    /\ CycleLength \in Nat \ {0} /\ FirstHeight \in Nat /\ MaxHeight \in Nat
    /\ FirstHeight <= MaxHeight

VARIABLES
    height,     \* burn_block_height
    min,        \* min_amount_ustx
    account,    \* balance, locked part of it, unlock height, nonce
    call,       \* the commands
    moved       \* history: call |-> what has changed since its first request

vars == <<height, min, account, call, moved>>

Account == [balance: Nat, locked: Nat, first: Nat, cycles: Nat, nonce: Nat]

NewCall ==
    [is |-> "none", phase |-> "idle", amount |-> 0, cycles |-> 0,
     balance |-> Unread, min |-> Unread, height |-> Unread,     \* CLI's own requests
     funds |-> Unread, eligible |-> Unread,                     \* StackingClient.canStack
     unlock |-> Unread, nonce |-> Unread, result |-> "none", at |-> Unread]

Change == {"cycle", "min", "balance", "lock", "nonce"}

TypeOK ==
    /\ height \in Heights /\ min \in MinAmounts
    /\ account \in Account /\ account.locked <= account.balance
    /\ DOMAIN call = Calls
    /\ \A c \in Calls :
        /\ call[c].is \in Kinds \cup {"none"}
        /\ call[c].phase \in {"idle", "reading", "making", "signed", "pool", "done"}
        /\ call[c].amount \in Amounts \cup {0} /\ call[c].cycles \in CycleChoices \cup {0}
        /\ {call[c].balance, call[c].min, call[c].height, call[c].funds, call[c].unlock,
            call[c].nonce, call[c].at} \subseteq Nat \cup {Unread}
        /\ call[c].eligible \in {Unread, 0, 1}
        /\ call[c].result \in {"none", "ok", "below", "exceeds", "ineligible", "refused",
                               "start", "already", "funds", "threshold", "period", "dropped",
                               "stacked", "unstacked"}
    /\ moved \in [Calls -> SUBSET Change]

Init ==
    /\ height = FirstHeight /\ min \in MinAmounts
    /\ \E locked \in {0} \cup Amounts :
        /\ locked < Balance
        /\ account = [balance |-> Balance, locked |-> locked, first |-> 0,
                      cycles |-> IF locked = 0 THEN 0 ELSE 1, nonce |-> 0]
    /\ call = [c \in Calls |-> NewCall]
    /\ moved = [c \in Calls |-> {}]

----------------------------------------------------------------------------
(* Burn blocks and reward cycles. *)

Cycle(h) == (h - FirstHeight) \div CycleLength
StartOf(cycle) == FirstHeight + cycle * CycleLength
UnlockHeight(a) == IF a.locked = 0 THEN 0 ELSE StartOf(a.first + a.cycles)

(* getSecondsUntilNextCycle, in blocks.                                      *)
BlocksToNextCycle(h) == CycleLength - ((h - FirstHeight) % CycleLength)

----------------------------------------------------------------------------
(* The chain. *)

Record(changes, others) ==
    moved' = [c \in Calls |-> IF c \in others /\ call[c].phase \notin {"idle", "done"}
                              THEN moved[c] \cup changes ELSE moved[c]]

(* stack-stx, evaluated in the block that is mined.                          *)
StackStx(c, a, h) ==
    IF Cycle(call[c].at) # Cycle(h) THEN "start"
    ELSE IF a.locked > 0 THEN "already"
    ELSE IF a.balance - a.locked < call[c].amount THEN "funds"
    ELSE IF call[c].amount < min THEN "threshold"
    ELSE IF call[c].cycles \notin 1..MaxCycles THEN "period" ELSE "ok"

(* A transaction pays its fee whatever the contract answers.                 *)
Confirmed(c, h) ==
    LET paid == [account EXCEPT !.balance = @ - Fee, !.nonce = @ + 1] IN
    IF StackStx(c, paid, h) = "ok"
    THEN [paid EXCEPT !.locked = call[c].amount, !.first = Cycle(h) + 1,
                      !.cycles = call[c].cycles]
    ELSE paid

(* Whatever else has this account's nonce can never be confirmed any more.   *)
Settled(c, result, nonce) ==
    [d \in Calls |->
        IF d = c THEN [call[d] EXCEPT !.phase = "done", !.result = result]
        ELSE IF call[d].phase = "pool" /\ call[d].nonce = nonce
        THEN [call[d] EXCEPT !.phase = "done", !.result = "dropped"] ELSE call[d]]

(* A block without a transaction of the account; the lock may end with it.   *)
Mine ==
    /\ height < MaxHeight
    /\ height' = height + 1
    /\ IF account.locked > 0 /\ UnlockHeight(account) = height'
       THEN account' = [account EXCEPT !.locked = 0, !.first = 0, !.cycles = 0] ELSE UNCHANGED account
    /\ Record((IF Cycle(height') # Cycle(height) THEN {"cycle"} ELSE {})
              \cup (IF account' # account THEN {"lock"} ELSE {}), Calls)
    /\ UNCHANGED <<min, call>>

ConfirmStack(c) ==
    /\ call[c].phase = "pool" /\ call[c].nonce = account.nonce
    /\ account.balance - account.locked >= Fee
    /\ account' = Confirmed(c, height)
    /\ call' = Settled(c, StackStx(c, [account EXCEPT !.balance = @ - Fee], height),
                       account.nonce)
    /\ Record({"balance", "nonce"} \cup (IF account'.locked # account.locked THEN {"lock"}
                                         ELSE {}), Calls \ {c})
    /\ UNCHANGED <<height, min>>

(* A transfer of the same account, made with another wallet.                 *)
Transfer(amount) ==
    /\ account.nonce = 0 /\ account.balance - account.locked >= amount + Fee
    /\ account' = [account EXCEPT !.balance = @ - amount - Fee, !.nonce = @ + 1]
    /\ call' = [d \in Calls |->
                    IF call[d].phase = "pool" /\ call[d].nonce = account.nonce
                    THEN [call[d] EXCEPT !.phase = "done", !.result = "dropped"] ELSE call[d]]
    /\ Record({"balance", "nonce"}, Calls)
    /\ UNCHANGED <<height, min>>

MinimumChanges ==
    /\ StartOf(Cycle(height)) = height     \* how often is not important
    /\ min' \in {m \in MinAmounts : m > min}     \* nor that it may fall
    /\ Record({"min"}, Calls)
    /\ UNCHANGED <<height, account, call>>

----------------------------------------------------------------------------
(* The requests of a command. *)

Become(c, changed) ==
    /\ call' = [call EXCEPT ![c] = changed]
    /\ UNCHANGED <<height, min, account, moved>>

Begin(c, is, amount, cycles) ==
    /\ call[c].phase = "idle" /\ is \in Offered[c]
    /\ Become(c, [NewCall EXCEPT !.is = is, !.phase = "reading", !.amount = amount,
                                 !.cycles = cycles])

Reading(c) == call[c].phase = "reading" /\ call[c].is # "status"

(* accounts.getAccountBalance, which counts what is locked.                  *)
ReadBalance(c) ==
    /\ Reading(c) /\ call[c].balance = Unread
    /\ Become(c, [call[c] EXCEPT !.balance = account.balance])

ReadPoxInfo(c) ==
    /\ Reading(c) /\ call[c].min = Unread
    /\ Become(c, [call[c] EXCEPT !.min = min])

ReadCoreInfo(c) ==
    /\ Reading(c) /\ call[c].is = "stack" /\ call[c].height = Unread
    /\ Become(c, [call[c] EXCEPT !.height = height])

(* StackingClient.getAccountBalance, what is not locked, in canStack; then   *)
(* the contract is asked whether all of it could be stacked.                 *)
ReadFunds(c) ==
    /\ Reading(c) /\ call[c].funds = Unread
    /\ Become(c, [call[c] EXCEPT !.funds = account.balance - account.locked])

ReadEligible(c) ==
    /\ Reading(c) /\ call[c].funds # Unread /\ call[c].eligible = Unread
    /\ Become(c, [call[c] EXCEPT
            !.eligible = IF call[c].funds >= min /\ call[c].cycles \in 1..MaxCycles
                         THEN 1 ELSE 0])

AllRead(c) ==
    /\ Reading(c) /\ Unread \notin {call[c].balance, call[c].min, call[c].eligible}
    /\ call[c].is = "stack" => call[c].height # Unread

\* (seeded fault: the minimum is compared with the balance)
BalanceBelow(c) ==
    IF call[c].min > call[c].balance THEN "below"
    ELSE IF call[c].amount > call[c].balance THEN "exceeds"
    ELSE IF call[c].eligible = 0 THEN "ineligible" ELSE "ok"

Verdict(c) ==
    IF call[c].min > call[c].amount THEN "below"
    ELSE IF call[c].amount > call[c].balance THEN "exceeds"
    ELSE IF call[c].eligible = 0 THEN "ineligible" ELSE "ok"

\* (seeded fault: one block too many)
StartFourAhead(c) == call[c].height + 4

StartBurnBlock(c) == call[c].height + 3

(* canStack answers; stack goes on to make the transaction.                  *)
Decide(c) ==
    /\ AllRead(c)
    /\ IF call[c].is = "stack" /\ Verdict(c) = "ok"
       THEN Become(c, [call[c] EXCEPT !.phase = "making", !.at = StartBurnBlock(c)])
       ELSE Become(c, [NewCall EXCEPT !.is = call[c].is, !.phase = "done",
                                      !.result = Verdict(c)])

\* (seeded fault: the nonce of the last transaction is taken)
LastNonce == IF account.nonce = 0 THEN 0 ELSE account.nonce - 1

(* getNonce, in makeContractCall.                                            *)
NextNonce == account.nonce

MakeContractCall(c) ==
    /\ call[c].phase = "making"
    /\ call' = [call EXCEPT ![c].phase = "signed", ![c].nonce = NextNonce]
    /\ moved' = [moved EXCEPT ![c] = @ \ {"nonce"}]
    /\ UNCHANGED <<height, min, account>>

(* The node refuses a nonce that is used up.                                 *)
Broadcast(c) ==
    /\ call[c].phase = "signed"
    /\ IF call[c].nonce < account.nonce
       THEN Become(c, [call[c] EXCEPT !.phase = "done", !.result = "refused"])
       ELSE Become(c, [call[c] EXCEPT !.phase = "pool"])

(* Any request may fail; the command answers with the error.                 *)
RequestFails(c) ==
    /\ call[c].phase \in {"reading", "making", "signed"}
    /\ Become(c, [NewCall EXCEPT !.is = call[c].is, !.phase = "done", !.result = "refused"])

----------------------------------------------------------------------------
(* stackingStatus: the account is read before the contract is asked.         *)

BeginStatus(c) ==
    /\ call[c].phase = "idle" /\ "status" \in Offered[c]
    /\ Become(c, [NewCall EXCEPT !.is = "status", !.phase = "reading"])

\* (seeded fault: the first reward cycle is taken for the unlock height)
ReadFirstCycle(c) ==
    /\ call[c].phase = "reading" /\ call[c].is = "status" /\ call[c].unlock = Unread
    /\ call' = [call EXCEPT ![c].unlock = account.first]
    /\ moved' = [moved EXCEPT ![c] = {}]
    /\ UNCHANGED <<height, min, account>>

ReadAccount(c) ==
    /\ call[c].phase = "reading" /\ call[c].is = "status" /\ call[c].unlock = Unread
    /\ call' = [call EXCEPT ![c].unlock = UnlockHeight(account)]
    /\ moved' = [moved EXCEPT ![c] = {}]
    /\ UNCHANGED <<height, min, account>>

Stacked(c) == account.locked > 0

ReadStackerInfo(c) ==
    /\ call[c].phase = "reading" /\ call[c].is = "status" /\ call[c].unlock # Unread
    /\ Become(c, IF Stacked(c)
                 THEN [call[c] EXCEPT !.phase = "done", !.result = "stacked", !.at = height,
                                      !.height = UnlockHeight(account)]
                 ELSE [call[c] EXCEPT !.phase = "done", !.result = "unstacked"])

----------------------------------------------------------------------------
Next ==
    \/ Mine \/ MinimumChanges
    \/ \E amount \in Amounts : Transfer(amount)
    \/ \E c \in Calls :
        \/ \E amount \in Amounts, cycles \in CycleChoices, is \in {"stack", "can_stack"} :
            Begin(c, is, amount, cycles)
        \/ ReadBalance(c) \/ ReadPoxInfo(c) \/ ReadCoreInfo(c) \/ ReadFunds(c)
        \/ ReadEligible(c) \/ Decide(c) \/ MakeContractCall(c) \/ Broadcast(c)
        \/ RequestFails(c) \/ ConfirmStack(c)
        \/ BeginStatus(c) \/ ReadAccount(c) \/ ReadStackerInfo(c)

Spec == Init /\ [][Next]_vars

----------------------------------------------------------------------------
(* A transaction that passed stack's checks is refused by the contract only  *)
(* for what changed after the answers it checked, but for two things no      *)
(* check is about: the fee, when nothing is left to pay it with, and a lock  *)
(* that the account has already, though the answers show it as the           *)
(* difference of the two balances (cli.ts:1607-1627).                        *)
AbortExplained ==
    \A c \in Calls :
        CASE call[c].result = "threshold" -> "min" \in moved[c]
          [] call[c].result = "funds" ->
                \/ moved[c] \cap {"balance", "lock"} # {}
                \/ call[c].amount + Fee > call[c].balance
          [] call[c].result = "already" ->
                \/ moved[c] \cap {"balance", "lock"} # {}
                \/ call[c].funds < call[c].balance
          [] call[c].result = "period" -> FALSE
          [] OTHER -> TRUE

(* The lock is asked to start three blocks ahead (cli.ts:1611): in the last  *)
(* three blocks of a cycle that is the next one, and then the transaction    *)
(* succeeds only if it is mined there; before them, only if it is not.       *)
StartInCycle ==
    \A c \in Calls :
        /\ call[c].result = "start" =>
            "cycle" \in moved[c] \/ BlocksToNextCycle(call[c].height) <= 3
        /\ (call[c].is = "stack" /\ call[c].result = "ok") =>
            ("cycle" \in moved[c] \/ BlocksToNextCycle(call[c].height) > 3)

(* A transaction is refused by the node, or dropped for another one with its *)
(* nonce, only if that other one was confirmed after it read its nonce: of   *)
(* two commands that overlap, one may fail (builders.ts:380).                *)
LostToAnother ==
    \A c \in Calls :
        (call[c].result \in {"dropped", "refused"} /\ call[c].nonce # Unread) =>
            "nonce" \in moved[c]

(* stackingStatus puts two answers together: they are of one stacking, and   *)
(* the unlock height is still to come, unless the lock changed in between.   *)
StatusOfOneLock ==
    \A c \in Calls :
        (call[c].result = "stacked" /\ "lock" \notin moved[c]) =>
            call[c].unlock = call[c].height /\ call[c].unlock > call[c].at
=============================================================================
