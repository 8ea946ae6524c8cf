--------------------------- MODULE StackingProofs ---------------------------
(***************************************************************************)
(* What a stacking command tells its user is accounted for: for every      *)
(* number of commands, every balance, fee and minimum, and every length    *)
(* and number of reward cycles.                                            *)
(***************************************************************************)
EXTENDS Stacking, TLAPS

----------------------------------------------------------------------------
(* The invariant.  A command keeps what it was answered; the history says   *)
(* what has changed since.  The invariant relates the two for a command     *)
(* that still runs, so that whatever settles it finds them related.         *)

Running(c) == call[c].phase \notin {"idle", "done"}
Posted(c) == call[c].phase \in {"signed", "pool"}

Results ==
    {"none", "ok", "below", "exceeds", "ineligible", "refused", "start", "already", "funds",
     "threshold", "period", "dropped", "stacked", "unstacked"}
Answer == Nat \cup {Unread}

Command ==
    [is : Kinds \cup {"none"},
     phase : {"idle", "reading", "making", "signed", "pool", "done"},
     amount : Amounts \cup {0}, cycles : CycleChoices \cup {0},
     balance : Answer, min : Answer, height : Answer, funds : Answer,
     eligible : {Unread, 0, 1}, unlock : Answer, nonce : Answer, result : Results,
     at : Answer]

\* TypeOK, with the commands as one set of records.
Typed ==
    /\ height \in Heights /\ min \in MinAmounts
    /\ account \in Account /\ account.locked <= account.balance
    /\ call \in [Calls -> Command]
    /\ moved \in [Calls -> SUBSET Change]

\* A lock ends after the block that is mined last.
LockAhead == account.locked > 0 => UnlockHeight(account) > height

\* Which command is in which phase, and that one that runs has no result; one
\* that asks for the status makes none of the other requests.
Staged(c) ==
    /\ call[c].is = "status" /\ Running(c) =>
        {call[c].balance, call[c].min, call[c].funds, call[c].height} = {Unread}
    /\ call[c].phase # "done" => call[c].result = "none"
    /\ call[c].phase \in {"making", "signed", "pool"} => call[c].is = "stack"
    /\ call[c].phase \in {"reading", "making"} => call[c].nonce = Unread
    /\ Posted(c) => call[c].nonce \in Nat

\* What stack checked before it made the transaction.
Passed(c) ==
    /\ call[c].eligible = 1 => call[c].cycles \in 1..MaxCycles
    /\ call[c].phase \in {"making", "signed", "pool"} =>
        /\ Unread \notin {call[c].balance, call[c].min, call[c].funds, call[c].height}
        /\ call[c].eligible = 1
        /\ call[c].min <= call[c].amount /\ call[c].amount <= call[c].balance
        /\ call[c].at = StartBurnBlock(c)
    /\ call[c].phase = "reading" /\ call[c].eligible # Unread => call[c].funds # Unread

\* The answers a running command holds are still true, or the history says
\* what made them stale.
Current(c) ==
    Running(c) =>
        /\ call[c].min # Unread => call[c].min = min \/ "min" \in moved[c]
        /\ call[c].balance # Unread =>
            call[c].balance = account.balance \/ "balance" \in moved[c]
        /\ call[c].funds # Unread =>
            \/ call[c].funds = account.balance - account.locked
            \/ moved[c] \cap {"balance", "lock"} # {}
        /\ call[c].unlock # Unread =>
            call[c].unlock = UnlockHeight(account) \/ "lock" \in moved[c]

\* So is the reward cycle it has seen.
InCycle(c) ==
    call[c].height # Unread /\ Running(c) =>
        /\ call[c].height >= FirstHeight
        /\ Cycle(call[c].height) = Cycle(height) \/ "cycle" \in moved[c]

\* The nonce of a signed transaction is the next one until it is used.
NonceHeld(c) ==
    Posted(c) =>
        \/ call[c].nonce = account.nonce
        \/ call[c].nonce < account.nonce /\ "nonce" \in moved[c]

\* What a settled command was told is accounted for by the history.
Outcome(c) ==
    LET told == call[c].result IN
    /\ told = "threshold" => "min" \in moved[c]
    /\ told = "funds" =>
        \/ moved[c] \cap {"balance", "lock"} # {}
        \/ call[c].amount + Fee > call[c].balance
    /\ told = "already" =>
        \/ moved[c] \cap {"balance", "lock"} # {}
        \/ call[c].funds < call[c].balance
    /\ told # "period"
    /\ told = "start" =>
        "cycle" \in moved[c] \/ BlocksToNextCycle(call[c].height) <= 3
    /\ call[c].is = "stack" /\ told = "ok" =>
        "cycle" \in moved[c] \/ BlocksToNextCycle(call[c].height) > 3
    /\ told \in {"dropped", "refused"} /\ call[c].nonce # Unread => "nonce" \in moved[c]
    /\ told = "stacked" /\ "lock" \notin moved[c] =>
        call[c].unlock = call[c].height /\ call[c].unlock > call[c].at

CallInv(c) ==
    Staged(c) /\ Passed(c) /\ Current(c) /\ InCycle(c) /\ NonceHeld(c) /\ Outcome(c)

Accounted == Typed /\ LockAhead /\ \A c \in Calls : CallInv(c)

----------------------------------------------------------------------------
(* Blocks and cycles. *)

\* Division with remainder, by a positive number.
LEMMA Divided ==
    ASSUME NEW x \in Nat, NEW n \in Nat \ {0}
    PROVE  /\ x \div n \in Nat /\ x % n \in 0..(n - 1)
           /\ x = n * (x \div n) + (x % n)
  BY SMT

\* A quotient is determined by its remainder being small.
LEMMA OneQuotient ==
    ASSUME NEW n \in Nat \ {0}, NEW p \in Nat, NEW q \in Nat,
           NEW r \in 0..(n - 1), NEW s \in 0..(n - 1), n * p + r = n * q + s
    PROVE  p = q
  <1>1. ASSUME NEW i \in Nat, NEW j \in Nat, i < j, NEW a \in 0..(n - 1), NEW b \in 0..(n - 1)
        PROVE  n * i + a # n * j + b
    <2>1. PICK d \in Nat : j = i + 1 + d
      <3>1. j - i - 1 \in Nat
        BY <1>1
      <3>2. j = i + 1 + (j - i - 1)
        BY <1>1
      <3>3. QED
        BY <3>1, <3>2
    <2>2. n * j = n * i + n + n * d
      BY <2>1
    <2>3. n * d >= 0
      BY <2>1
    <2>4. n * i \in Int /\ n * d \in Int
      BY <2>1
    <2>5. QED
      BY <2>2, <2>3, <2>4, <1>1
  <1>2. QED
    BY <1>1

\* Three blocks later it is another cycle exactly for the last three blocks of
\* one.
LEMMA ThreeAhead ==
    ASSUME NEW h \in Nat, h >= FirstHeight
    PROVE  Cycle(h + 3) # Cycle(h) <=> BlocksToNextCycle(h) <= 3
  <1> DEFINE x == h - FirstHeight
  <1> DEFINE n == CycleLength
  <1>1. x \in Nat /\ n \in Nat \ {0} /\ x + 3 \in Nat
    BY StackingAssumption
  <1> DEFINE q == x \div n
  <1> DEFINE r == x % n
  <1> DEFINE q3 == (x + 3) \div n
  <1> DEFINE r3 == (x + 3) % n
  <1>2. q \in Nat /\ r \in 0..(n - 1) /\ x = n * q + r
    BY <1>1, Divided
  <1>3. q3 \in Nat /\ r3 \in 0..(n - 1) /\ x + 3 = n * q3 + r3
    <2> HIDE DEF x, n
    <2>1. QED
      BY <1>1, Divided
  <1>4. Cycle(h) = q /\ BlocksToNextCycle(h) = n - r
    BY DEF Cycle, BlocksToNextCycle
  <1>5. Cycle(h + 3) = q3
    <2>1. (h + 3) - FirstHeight = x + 3
      BY StackingAssumption
    <2>2. QED
      BY <2>1 DEF Cycle
  <1> HIDE DEF x, n, q, r, q3, r3
  <1>6. n * q \in Int /\ n * q3 \in Int
    BY <1>1, <1>2, <1>3
  <1>7. CASE r + 3 < n
    <2>1. n * q3 + r3 = n * q + (r + 3) /\ r + 3 \in 0..(n - 1)
      BY <1>1, <1>2, <1>3, <1>6, <1>7
    <2>2. q3 = q
      BY <2>1, <1>1, <1>2, <1>3, OneQuotient
    <2>3. QED
      BY <2>2, <1>1, <1>2, <1>4, <1>5, <1>7
  <1>8. CASE ~(r + 3 < n)
    <2>1. q3 # q
      <3>1. SUFFICES ASSUME q3 = q PROVE FALSE
        OBVIOUS
      <3>2. n * q3 = n * q
        BY <3>1
      <3>3. QED
        BY <3>2, <1>1, <1>2, <1>3, <1>6, <1>8
    <2>2. QED
      BY <2>1, <1>1, <1>2, <1>4, <1>5, <1>8
  <1>9. QED
    BY <1>7, <1>8

\* A block is mined before the start of the next cycle, and of any later one.
LEMMA CycleAhead ==
    ASSUME NEW h \in Nat, h >= FirstHeight, NEW k \in Nat, k >= 1
    PROVE  /\ Cycle(h) \in Nat
           /\ StartOf(Cycle(h) + 1 + k) > h
  <1> DEFINE x == h - FirstHeight
  <1> DEFINE n == CycleLength
  <1>1. x \in Nat /\ n \in Nat \ {0} /\ FirstHeight \in Nat
    BY StackingAssumption
  <1> DEFINE q == x \div n
  <1> DEFINE r == x % n
  <1>2. q \in Nat /\ r \in 0..(n - 1) /\ x = n * q + r
    BY <1>1, Divided
  <1>3. Cycle(h) = q /\ StartOf(Cycle(h) + 1 + k) = FirstHeight + (q + 1 + k) * n
    BY DEF Cycle, StartOf
  <1>4. h = FirstHeight + x
    BY <1>1
  <1> HIDE DEF x, n, q, r
  <1>5. (q + 1 + k) * n = n * q + n + k * n
    BY <1>1, <1>2
  <1>6. n * q \in Int /\ k * n \in Nat
    BY <1>1, <1>2
  <1>7. QED
    BY <1>1, <1>2, <1>3, <1>4, <1>5, <1>6

----------------------------------------------------------------------------
(* Typing. *)

\* The constants are numbers, and the next cycles of a height are too.
LEMMA HeightsNat ==
    ASSUME Typed
    PROVE  /\ height \in Nat /\ height >= FirstHeight
           /\ account.balance \in Nat /\ account.locked \in Nat /\ account.first \in Nat
           /\ account.cycles \in Nat /\ account.nonce \in Nat
           /\ min \in Nat /\ Unread \notin Nat
           /\ Cycle(height) \in Nat
  <1>1. height \in Nat /\ height >= FirstHeight
    BY StackingAssumption DEF Typed, Heights
  <1>2. Cycle(height) \in Nat
    BY <1>1, CycleAhead
  <1>3. QED
    BY <1>1, <1>2, StackingAssumption DEF Typed, Account, Unread

\* The unlock height is a number.
LEMMA UnlockNat ==
    ASSUME NEW a \in Account
    PROVE  UnlockHeight(a) \in Nat
  <1>1. a.first + a.cycles \in Nat
    BY DEF Account
  <1>2. (a.first + a.cycles) * CycleLength \in Nat
    BY <1>1, StackingAssumption
  <1>3. QED
    BY <1>2, StackingAssumption DEF UnlockHeight, StartOf

\* A command that is put in the place of another one of its type is well typed.
LEMMA BecomeTyped ==
    ASSUME Typed, NEW c \in Calls, NEW x \in Command, Become(c, x)
    PROVE  /\ Typed' /\ call'[c] = x
           /\ \A d \in Calls : d # c => call'[d] = call[d]
  BY DEF Typed, Become

\* The parts of a command.
LEMMA CommandParts ==
    ASSUME NEW x \in Command
    PROVE  /\ x.amount \in Nat /\ x.cycles \in Nat
           /\ x.balance \in Answer /\ x.min \in Answer /\ x.height \in Answer
           /\ x.funds \in Answer /\ x.nonce \in Answer /\ x.unlock \in Answer
           /\ x.eligible \in {Unread, 0, 1}
  <1>1. x.amount \in Amounts \cup {0} /\ x.cycles \in CycleChoices \cup {0}
    BY DEF Command
  <1>2. Amounts \cup {0} \subseteq Nat /\ CycleChoices \cup {0} \subseteq Nat
    BY StackingAssumption
  <1>3. x.amount \in Nat /\ x.cycles \in Nat
    BY <1>1, <1>2
  <1>4. QED
    BY <1>3 DEF Command

\* A command that settles keeps its type.
LEMMA SettleTyped ==
    ASSUME NEW x \in Command, NEW told \in Results
    PROVE  [x EXCEPT !.phase = "done", !.result = told] \in Command
  <1> DEFINE y == [x EXCEPT !.phase = "done"]
  <1>1. y \in Command
    BY DEF Command
  <1>2. [y EXCEPT !.result = told] \in Command
    <2> HIDE DEF y
    <2>1. QED
      BY <1>1 DEF Command
  <1>3. [y EXCEPT !.result = told] = [x EXCEPT !.phase = "done", !.result = told]
    BY DEF Command
  <1>4. QED
    BY <1>2, <1>3

\* A new command has read nothing.
LEMMA NewCallTyped == NewCall \in Command
  BY DEF NewCall, Command, Results, Answer, Kinds

----------------------------------------------------------------------------
(* Commands that a step does not answer. *)

\* What changes is recorded for every command that runs.
LEMMA WorldMoves ==
    ASSUME Typed, Typed', NEW c \in Calls, CallInv(c), call'[c] = call[c],
           NEW changes \in SUBSET Change,
           moved'[c] = IF Running(c) THEN moved[c] \cup changes ELSE moved[c],
           min' = min \/ "min" \in changes,
           account'.balance = account.balance \/ "balance" \in changes,
           \/ account'.balance - account'.locked = account.balance - account.locked
           \/ changes \cap {"balance", "lock"} # {},
           UnlockHeight(account') = UnlockHeight(account) \/ "lock" \in changes,
           Cycle(height') = Cycle(height) \/ "cycle" \in changes,
           \/ account'.nonce = account.nonce
           \/ account'.nonce = account.nonce + 1 /\ "nonce" \in changes
    PROVE  CallInv(c)'
  <1>1. Staged(c)'
    BY DEF CallInv, Staged, Posted, Running
  <1>2. Passed(c)'
    BY DEF CallInv, Passed, StartBurnBlock
  <1>3. Current(c)'
    BY DEF CallInv, Current, Running
  <1>4. InCycle(c)'
    BY DEF CallInv, InCycle, Running
  <1>5. NonceHeld(c)'
    <2>1. account.nonce \in Nat /\ (Posted(c) => call[c].nonce \in Nat)
      BY HeightsNat DEF CallInv, Staged
    <2>2. Posted(c) => Running(c)
      BY DEF Posted, Running
    <2>3. Posted(c) => moved'[c] = moved[c] \cup changes
      BY <2>2
    <2>4. Posted(c) => (call[c].nonce = account.nonce \/ (call[c].nonce < account.nonce /\ "nonce" \in moved[c]))
      BY DEF CallInv, NonceHeld
    <2>5. Posted(c)' <=> Posted(c)
      BY DEF Posted
    <2>6. QED
      BY <2>1, <2>3, <2>4, <2>5 DEF NonceHeld
  <1>6. Outcome(c)'
    <2>1. CASE Running(c)
      <3>1. call[c].result = "none"
        BY <2>1 DEF CallInv, Staged, Running
      <3>2. QED
        BY <3>1 DEF Outcome
    <2>2. CASE ~Running(c)
      BY <2>2 DEF CallInv, Outcome
    <2>3. QED
      BY <2>1, <2>2
  <1>7. QED
    BY <1>1, <1>2, <1>3, <1>4, <1>5, <1>6 DEF CallInv

\* A step of one command leaves the others alone.
LEMMA Untouched ==
    ASSUME Typed, Typed', NEW c \in Calls, CallInv(c), call'[c] = call[c],
           moved'[c] = moved[c], UNCHANGED <<height, min, account>>
    PROVE  CallInv(c)'
  <1> DEFINE changes == {}
  <1>1. /\ changes \in SUBSET Change
        /\ moved'[c] = IF Running(c) THEN moved[c] \cup changes ELSE moved[c]
    OBVIOUS
  <1>2. /\ min' = min /\ account'.balance = account.balance
        /\ account'.balance - account'.locked = account.balance - account.locked
        /\ UnlockHeight(account') = UnlockHeight(account)
        /\ Cycle(height') = Cycle(height) /\ account'.nonce = account.nonce
    OBVIOUS
  <1> HIDE DEF changes
  <1>3. QED
    BY <1>1, <1>2, WorldMoves

\* A command that is dropped has lost to a transaction that was confirmed.
LEMMA Dropped ==
    ASSUME Typed, NEW c \in Calls, CallInv(c),
           call'[c] = [call[c] EXCEPT !.phase = "done", !.result = "dropped"],
           "nonce" \in moved'[c]
    PROVE  CallInv(c)'
  <1>1. /\ call'[c].phase = "done" /\ call'[c].result = "dropped"
        /\ call'[c].cycles = call[c].cycles /\ call'[c].eligible = call[c].eligible
    BY DEF Typed, Command
  <1>2. QED
    BY <1>1 DEF CallInv, Staged, Posted, Passed, Current, Running, InCycle, NonceHeld, Outcome

\* The invariant is about calls, so a step of one call keeps it if it keeps it
\* for that call.
LEMMA OneCall ==
    ASSUME Accounted, NEW c \in Calls, NEW x \in Command, Become(c, x), CallInv(c)'
    PROVE  Accounted'
  <1>1. Typed' /\ \A d \in Calls : d # c => call'[d] = call[d]
    BY BecomeTyped DEF Accounted
  <1>2. LockAhead'
    BY DEF Accounted, LockAhead, Become
  <1>3. \A d \in Calls : CallInv(d)'
    <2>1. SUFFICES ASSUME NEW d \in Calls, d # c PROVE CallInv(d)'
      OBVIOUS
    <2>2. /\ call'[d] = call[d] /\ moved'[d] = moved[d]
          /\ UNCHANGED <<height, min, account>>
      BY <1>1, <2>1 DEF Become
    <2>3. QED
      BY <1>1, <2>1, <2>2, Untouched DEF Accounted
  <1>4. QED
    BY <1>1, <1>2, <1>3 DEF Accounted

----------------------------------------------------------------------------
(* The chain moves. *)

(* At the start every call is idle and the chain is at its first height. *)
LEMMA InitAccounted == Init => Accounted
  <1> SUFFICES ASSUME Init PROVE Accounted
    OBVIOUS
  <1>1. Typed
    <2>1. height \in Heights /\ min \in MinAmounts
      BY StackingAssumption DEF Init, Heights
    <2>2. account \in Account /\ account.locked <= account.balance
      BY StackingAssumption DEF Init, Account
    <2>3. QED
      BY <2>1, <2>2, NewCallTyped DEF Init, Typed, Change
  <1>2. LockAhead
    <2>1. SUFFICES ASSUME account.locked > 0 PROVE UnlockHeight(account) > height
      BY DEF LockAhead
    <2>2. account.first = 0 /\ account.cycles = 1
      BY <2>1 DEF Init
    <2>3. UnlockHeight(account) = FirstHeight + (0 + 1) * CycleLength
      BY <2>1, <2>2 DEF UnlockHeight, StartOf
    <2>4. QED
      BY <2>3, StackingAssumption DEF Init
  <1>3. ASSUME NEW c \in Calls PROVE CallInv(c)
    <2>1. call[c] = NewCall
      BY DEF Init
    <2>2. /\ call[c].phase = "idle" /\ call[c].result = "none"
          /\ call[c].nonce = Unread /\ call[c].eligible = Unread
      BY <2>1 DEF NewCall
    <2>3. QED
      BY <2>2 DEF CallInv, Staged, Posted, Passed, Current, Running, InCycle,
                  NonceHeld, Outcome, Unread
  <1>4. QED
    BY <1>1, <1>2, <1>3 DEF Accounted

\* A block is mined; the lock may end with it.
LEMMA MineAccounted ==
    ASSUME Accounted, Mine
    PROVE  Accounted'
  <1> DEFINE ends == account.locked > 0 /\ UnlockHeight(account) = height'
  <1> DEFINE changes == (IF Cycle(height') # Cycle(height) THEN {"cycle"} ELSE {})
                        \cup (IF account' # account THEN {"lock"} ELSE {})
  <1>1. /\ height' = height + 1 /\ height' \in Heights
        /\ UNCHANGED <<min, call>>
        /\ moved' = [c \in Calls |-> IF Running(c) THEN moved[c] \cup changes ELSE moved[c]]
    <2>1. height' = height + 1 /\ UNCHANGED <<min, call>>
      BY DEF Mine
    <2>2. height' \in Heights
      BY <2>1, StackingAssumption DEF Mine, Heights, Accounted, Typed
    <2>3. QED
      BY <2>1, <2>2 DEF Mine, Record, Running
  <1>2. changes \in SUBSET Change
    BY DEF Change
  <1>3. CASE ends
    <2>1. account' = [account EXCEPT !.locked = 0, !.first = 0, !.cycles = 0]
      BY <1>3 DEF Mine
    <2>2. /\ account' \in Account /\ account'.balance = account.balance
          /\ account'.locked = 0 /\ account'.nonce = account.nonce
      BY <2>1 DEF Account, Accounted, Typed
    <2>3. account' # account
      BY <1>3, <2>2, HeightsNat DEF Accounted
    <2>4. Typed' /\ LockAhead'
      BY <1>1, <1>2, <2>2 DEF Accounted, Typed, LockAhead, Account
    <2>5. "lock" \in changes
      BY <2>3
    <2>6. Cycle(height') = Cycle(height) \/ "cycle" \in changes
      OBVIOUS
    <2> HIDE DEF changes
    <2>7. ASSUME NEW c \in Calls PROVE CallInv(c)'
      BY <1>1, <1>2, <2>2, <2>4, <2>5, <2>6, WorldMoves DEF Accounted
    <2>8. QED
      BY <2>4, <2>7 DEF Accounted
  <1>4. CASE ~ends
    <2>1. account' = account
      BY <1>4 DEF Mine
    <2>2. Typed'
      BY <1>1, <1>2, <2>1 DEF Accounted, Typed
    <2>3. LockAhead'
      <3>1. UnlockHeight(account) \in Nat /\ height \in Nat
        BY UnlockNat, HeightsNat DEF Accounted, Typed
      <3>2. QED
        BY <1>1, <1>4, <2>1, <3>1 DEF Accounted, LockAhead
    <2>4. Cycle(height') = Cycle(height) \/ "cycle" \in changes
      OBVIOUS
    <2>5. /\ account'.balance = account.balance /\ account'.nonce = account.nonce
          /\ account'.balance - account'.locked = account.balance - account.locked
          /\ UnlockHeight(account') = UnlockHeight(account)
      BY <2>1
    <2> HIDE DEF changes
    <2>6. ASSUME NEW c \in Calls PROVE CallInv(c)'
      BY <1>1, <1>2, <2>2, <2>4, <2>5, WorldMoves DEF Accounted
    <2>7. QED
      BY <2>2, <2>3, <2>6 DEF Accounted
  <1>5. QED
    BY <1>3, <1>4

\* The minimum amount changes.
LEMMA MinimumAccounted ==
    ASSUME Accounted, MinimumChanges
    PROVE  Accounted'
  <1> DEFINE changes == {"min"}
  <1>1. /\ min' \in MinAmounts /\ UNCHANGED <<height, account, call>>
        /\ moved' = [c \in Calls |-> IF Running(c) THEN moved[c] \cup changes ELSE moved[c]]
    BY DEF MinimumChanges, Record, Running
  <1>2. changes \in SUBSET Change /\ "min" \in changes
    BY DEF Change
  <1>3. Typed' /\ LockAhead'
    BY <1>1, <1>2 DEF Accounted, Typed, LockAhead
  <1>4. /\ account'.balance = account.balance /\ account'.nonce = account.nonce
        /\ account'.balance - account'.locked = account.balance - account.locked
        /\ UnlockHeight(account') = UnlockHeight(account)
        /\ Cycle(height') = Cycle(height)
    BY <1>1
  <1> HIDE DEF changes
  <1>5. ASSUME NEW c \in Calls PROVE CallInv(c)'
    BY <1>1, <1>2, <1>3, <1>4, WorldMoves DEF Accounted
  <1>6. QED
    BY <1>3, <1>5 DEF Accounted

\* Another transaction of the account takes its place.
LEMMA TransferAccounted ==
    ASSUME Accounted, NEW amount \in Amounts, Transfer(amount)
    PROVE  Accounted'
  <1> DEFINE changes == {"balance", "nonce"}
  <1>1. /\ UNCHANGED <<height, min>>
        /\ account' = [account EXCEPT !.balance = @ - amount - Fee, !.nonce = @ + 1]
        /\ moved' = [c \in Calls |-> IF Running(c) THEN moved[c] \cup changes ELSE moved[c]]
    BY DEF Transfer, Record, Running
  <1>2. changes \in SUBSET Change /\ {"balance", "nonce"} \subseteq changes
    BY DEF Change
  <1>3. /\ account'.balance = account.balance - amount - Fee
        /\ account'.locked = account.locked /\ account'.first = account.first
        /\ account'.cycles = account.cycles /\ account'.nonce = account.nonce + 1
    BY <1>1 DEF Accounted, Typed, Account
  <1>4. account' \in Account /\ account'.locked <= account'.balance
    <2>1. amount \in Nat /\ Fee \in Nat /\ account.balance - account.locked >= amount + Fee
      BY StackingAssumption DEF Transfer
    <2>2. account'.balance \in Nat /\ account'.locked <= account'.balance
      BY <1>3, <2>1, HeightsNat DEF Accounted
    <2>3. account'.nonce \in Nat
      BY <1>3, HeightsNat DEF Accounted
    <2>4. QED
      BY <1>1, <2>2, <2>3 DEF Accounted, Typed, Account
  <1>5. UnlockHeight(account') = UnlockHeight(account)
    BY <1>3 DEF UnlockHeight
  <1>6. ASSUME NEW d \in Calls
        PROVE  \/ call'[d] = call[d]
               \/ /\ call[d].phase = "pool"
                  /\ call'[d] = [call[d] EXCEPT !.phase = "done", !.result = "dropped"]
    BY DEF Transfer
  <1>7. call' \in [Calls -> Command]
    <2>1. DOMAIN call' = Calls /\ call' = [d \in Calls |-> call'[d]]
      BY DEF Transfer
    <2>2. ASSUME NEW d \in Calls PROVE call'[d] \in Command
      <3>1. call[d] \in Command /\ "dropped" \in Results
        BY DEF Accounted, Typed, Results
      <3>2. [call[d] EXCEPT !.phase = "done", !.result = "dropped"] \in Command
        BY <3>1, SettleTyped
      <3>3. QED
        BY <1>6, <3>1, <3>2
    <2>3. QED
      BY <2>1, <2>2
  <1>8. Typed' /\ LockAhead'
    BY <1>1, <1>2, <1>3, <1>4, <1>5, <1>7 DEF Accounted, Typed, LockAhead
  <1> HIDE DEF changes
  <1>9. ASSUME NEW d \in Calls PROVE CallInv(d)'
    <2>1. CASE call'[d] = call[d]
      BY <1>1, <1>2, <1>3, <1>5, <1>8, <2>1, WorldMoves DEF Accounted
    <2>2. CASE /\ call[d].phase = "pool"
               /\ call'[d] = [call[d] EXCEPT !.phase = "done", !.result = "dropped"]
      <3>1. "nonce" \in moved'[d]
        BY <1>1, <1>2, <2>2 DEF Running
      <3>2. QED
        BY <2>2, <3>1, Dropped DEF Accounted
    <2>3. QED
      BY <1>6, <2>1, <2>2
  <1>10. QED
    BY <1>8, <1>9 DEF Accounted

\* The node has confirmed a command's transaction: the contract has answered
\* it, and every other transaction with its nonce is dropped.
LEMMA ConfirmAccounted ==
    ASSUME Accounted, NEW c \in Calls, ConfirmStack(c)
    PROVE  Accounted'
  <1> DEFINE changes == {"balance", "nonce"} \cup (IF account'.locked # account.locked
                                                   THEN {"lock"} ELSE {})
  <1> DEFINE paid == [account EXCEPT !.balance = @ - Fee]
  <1> DEFINE told == StackStx(c, paid, height)
  <1> DEFINE locks == told = "ok"
  <1>1. /\ UNCHANGED <<height, min>>
        /\ account' = Confirmed(c, height)
        /\ call' = Settled(c, told, account.nonce)
        /\ moved' = [d \in Calls |-> IF d \in Calls \ {c} /\ call[d].phase \notin {"idle", "done"}
                                     THEN moved[d] \cup changes ELSE moved[d]]
    BY DEF ConfirmStack, Record
  <1>2. changes \in SUBSET Change /\ {"balance", "nonce"} \subseteq changes
    BY DEF Change
  <1>3. /\ call[c] \in Command /\ account \in Account
        /\ call[c].phase = "pool" /\ call[c].is = "stack" /\ call[c].result = "none"
        /\ account.balance - account.locked >= Fee /\ Fee \in Nat
        /\ call[c].nonce = account.nonce
    BY StackingAssumption DEF ConfirmStack, Accounted, Typed, CallInv, Staged
  <1>4. /\ paid.balance = account.balance - Fee /\ paid.locked = account.locked
        /\ paid.first = account.first /\ paid.cycles = account.cycles
        /\ paid.nonce = account.nonce
    BY <1>3 DEF Account
  <1>5. /\ told \in {"start", "already", "funds", "threshold", "period", "ok"}
        /\ told = "start" <=> Cycle(call[c].at) # Cycle(height)
        /\ told = "already" => account.locked > 0
        /\ told \in {"funds", "threshold", "period", "ok"} => ~(account.locked > 0)
        /\ told = "funds" => account.balance - Fee - account.locked < call[c].amount
        /\ told = "threshold" => call[c].amount < min
        /\ told = "period" => call[c].cycles \notin 1..MaxCycles
        /\ told = "ok" => /\ call[c].amount <= account.balance - Fee - account.locked
                          /\ call[c].cycles \in 1..MaxCycles
    <2>1. call[c].amount \in Nat /\ account.balance \in Nat /\ account.locked \in Nat
      BY <1>3, HeightsNat, CommandParts DEF Accounted
    <2> HIDE DEF paid
    <2>2. QED
      BY <1>3, <1>4, <2>1 DEF StackStx

  <1>6. /\ account' \in Account
        /\ account'.balance = account.balance - Fee /\ account'.nonce = account.nonce + 1
        /\ account'.locked = (IF locks THEN call[c].amount ELSE account.locked)
        /\ account'.first = (IF locks THEN Cycle(height) + 1 ELSE account.first)
        /\ account'.cycles = (IF locks THEN call[c].cycles ELSE account.cycles)
    <2> DEFINE next == [account EXCEPT !.balance = @ - Fee, !.nonce = @ + 1]
    <2>1. /\ next \in Account
          /\ next.balance = account.balance - Fee /\ next.nonce = account.nonce + 1
          /\ next.locked = account.locked /\ next.first = account.first
          /\ next.cycles = account.cycles
      <3>1. account.balance - Fee \in Nat /\ account.nonce + 1 \in Nat
        BY <1>3, HeightsNat DEF Accounted
      <3>2. QED
        BY <1>3, <3>1 DEF Account
    <2>2. StackStx(c, next, height) = told
      <3> HIDE DEF next, paid
      <3>1. QED
        BY <2>1, <1>4 DEF StackStx
    <2>3. account' = IF locks THEN [next EXCEPT !.locked = call[c].amount,
                                                !.first = Cycle(height) + 1,
                                                !.cycles = call[c].cycles] ELSE next
      BY <1>1, <2>2 DEF Confirmed
    <2>4. /\ call[c].amount \in Nat /\ call[c].cycles \in Nat
          /\ Cycle(height) + 1 \in Nat
      BY <1>3, HeightsNat, CommandParts DEF Accounted
    <2> HIDE DEF next, locks
    <2>5. QED
      BY <2>1, <2>3, <2>4 DEF Account
  <1>7. account'.locked <= account'.balance
    <2>1. call[c].amount \in Nat /\ account.balance \in Nat /\ account.locked \in Nat
      BY <1>3, HeightsNat, CommandParts DEF Accounted
    <2> HIDE DEF told, paid
    <2>2. QED
      BY <1>3, <1>5, <1>6, <2>1
  <1>8. LockAhead'
    <2>1. CASE locks
      <3>1. call[c].cycles \in Nat /\ call[c].cycles >= 1 /\ height \in Nat
            /\ height >= FirstHeight /\ Cycle(height) \in Nat
        BY <1>3, <1>5, <2>1, HeightsNat, CommandParts DEF Accounted
      <3>2. StartOf(Cycle(height) + 1 + call[c].cycles) > height
        BY <3>1, CycleAhead
      <3>3. QED
        BY <1>1, <1>6, <2>1, <3>2 DEF LockAhead, UnlockHeight
    <2>2. CASE ~locks
      BY <1>1, <1>6, <2>2 DEF Accounted, LockAhead, UnlockHeight
    <2>3. QED
      BY <2>1, <2>2
  <1>9. UnlockHeight(account') = UnlockHeight(account) \/ "lock" \in changes
    <2>1. CASE account'.locked # account.locked
      BY <2>1
    <2>2. CASE account'.locked = account.locked
      <3>1. account.locked \in Nat
        BY HeightsNat DEF Accounted
      <3>2. locks => account.locked = 0
        BY <1>5, <3>1
      <3>3. QED
        BY <1>6, <2>2, <3>2 DEF UnlockHeight
    <2>3. QED
      BY <2>1, <2>2
  <1>10. call'[c] = [call[c] EXCEPT !.phase = "done", !.result = told]
    BY <1>1 DEF Settled
  <1>11. ASSUME NEW d \in Calls, d # c
         PROVE  \/ call'[d] = call[d]
                \/ /\ call[d].phase = "pool"
                   /\ call'[d] = [call[d] EXCEPT !.phase = "done", !.result = "dropped"]
    BY <1>1, <1>11 DEF Settled
  <1>12. call' \in [Calls -> Command]
    <2>1. DOMAIN call' = Calls /\ call' = [d \in Calls |-> call'[d]]
      BY <1>1 DEF Settled
    <2>2. call'[c] \in Command
      <3>1. told \in Results
        BY <1>5 DEF Results
      <3> HIDE DEF told
      <3>2. QED
        BY <1>3, <1>10, <3>1, SettleTyped
    <2>3. ASSUME NEW d \in Calls, d # c PROVE call'[d] \in Command
      <3>1. call[d] \in Command /\ "dropped" \in Results
        BY DEF Accounted, Typed, Results
      <3>2. [call[d] EXCEPT !.phase = "done", !.result = "dropped"] \in Command
        BY <3>1, SettleTyped
      <3>3. QED
        BY <1>11, <2>3, <3>1, <3>2
    <2>4. QED
      BY <2>1, <2>2, <2>3
  <1>13. Typed'
    BY <1>1, <1>2, <1>6, <1>7, <1>12 DEF Accounted, Typed
  <1>14. CallInv(c)'
    <2>1. moved'[c] = moved[c]
      BY <1>1
    <2>2. /\ call'[c].phase = "done" /\ call'[c].result = told
          /\ call'[c].is = "stack" /\ call'[c].amount = call[c].amount
          /\ call'[c].cycles = call[c].cycles /\ call'[c].balance = call[c].balance
          /\ call'[c].height = call[c].height /\ call'[c].funds = call[c].funds
          /\ call'[c].eligible = call[c].eligible
      BY <1>3, <1>10 DEF Command
    <2>3. /\ Passed(c) /\ Current(c) /\ InCycle(c)
          /\ Unread \notin {call[c].balance, call[c].min, call[c].funds, call[c].height}
          /\ call[c].eligible = 1 /\ call[c].min <= call[c].amount
          /\ call[c].cycles \in 1..MaxCycles /\ call[c].at = call[c].height + 3
      BY <1>3 DEF Accounted, CallInv, Passed, StartBurnBlock
    <2>4. /\ call[c].amount \in Nat /\ call[c].balance \in Nat /\ call[c].min \in Nat
          /\ call[c].height \in Nat /\ min \in Nat
          /\ account.balance \in Nat /\ account.locked \in Nat
      BY <1>3, <2>3, HeightsNat, CommandParts DEF Answer, Accounted
    <2>5. /\ call[c].min = min \/ "min" \in moved[c]
          /\ call[c].balance = account.balance \/ "balance" \in moved[c]
          /\ \/ call[c].funds = account.balance - account.locked
             \/ moved[c] \cap {"balance", "lock"} # {}
      BY <1>3, <2>3 DEF Current, Running
    <2>6. /\ call[c].height >= FirstHeight
          /\ Cycle(call[c].height) = Cycle(height) \/ "cycle" \in moved[c]
      BY <1>3, <2>3 DEF InCycle, Running
    <2>7. Staged(c)' /\ Passed(c)' /\ Current(c)' /\ InCycle(c)' /\ NonceHeld(c)'
      BY <2>2, <2>3 DEF Staged, Passed, Current, InCycle, NonceHeld, Running, Posted
    <2>8. "cycle" \notin moved[c] =>
            (told = "start" <=> BlocksToNextCycle(call[c].height) <= 3)
      BY <1>5, <2>3, <2>4, <2>6, ThreeAhead
    <2>9. BlocksToNextCycle(call[c].height) \in Int
      BY <2>4, <2>6, StackingAssumption DEF BlocksToNextCycle
    <2> HIDE DEF told, changes, paid
    <2>10. told = "threshold" => "min" \in moved[c]
      BY <1>5, <2>3, <2>4, <2>5
    <2>11. told = "funds" => \/ moved[c] \cap {"balance", "lock"} # {}
                             \/ call[c].amount + Fee > call[c].balance
      <3>1. SUFFICES ASSUME told = "funds", "balance" \notin moved[c]
                     PROVE  call[c].amount + Fee > call[c].balance
        OBVIOUS
      <3>2. /\ account.locked = 0 /\ call[c].balance = account.balance
            /\ account.balance - Fee - account.locked < call[c].amount
        BY <1>5, <2>4, <2>5, <3>1
      <3>3. QED
        BY <1>3, <2>4, <3>2
    <2>12. told = "already" => \/ moved[c] \cap {"balance", "lock"} # {}
                               \/ call[c].funds < call[c].balance
      <3>1. SUFFICES ASSUME told = "already", moved[c] \cap {"balance", "lock"} = {}
                     PROVE  call[c].funds < call[c].balance
        OBVIOUS
      <3>2. /\ account.locked > 0 /\ call[c].balance = account.balance
            /\ call[c].funds = account.balance - account.locked
        BY <1>5, <2>5, <3>1
      <3>3. QED
        BY <2>4, <3>2
    <2>13. told # "period"
      BY <1>5, <2>3
    <2>14. told = "start" =>
            "cycle" \in moved[c] \/ BlocksToNextCycle(call[c].height) <= 3
      BY <2>8
    <2>15. told = "ok" =>
            "cycle" \in moved[c] \/ BlocksToNextCycle(call[c].height) > 3
      BY <2>8, <2>9
    <2>16. told \notin {"dropped", "refused", "stacked"}
      BY <1>5
    <2>17. Outcome(c)'
      BY <2>1, <2>2, <2>10, <2>11, <2>12, <2>13, <2>14, <2>15, <2>16 DEF Outcome
    <2>18. QED
      BY <2>7, <2>17 DEF CallInv
  <1>15. ASSUME NEW d \in Calls, d # c PROVE CallInv(d)'
    <2>1. moved'[d] = IF Running(d) THEN moved[d] \cup changes ELSE moved[d]
      BY <1>1, <1>15 DEF Running
    <2> HIDE DEF changes
    <2>2. CASE call'[d] = call[d]
      BY <1>1, <1>2, <1>6, <1>9, <1>13, <2>1, <2>2, WorldMoves DEF Accounted
    <2>3. CASE /\ call[d].phase = "pool"
               /\ call'[d] = [call[d] EXCEPT !.phase = "done", !.result = "dropped"]
      <3>1. "nonce" \in moved'[d]
        BY <1>2, <2>1, <2>3 DEF Running
      <3>2. QED
        BY <2>3, <3>1, Dropped DEF Accounted
    <2>4. QED
      BY <1>11, <1>15, <2>2, <2>3
  <1>16. QED
    BY <1>8, <1>13, <1>14, <1>15 DEF Accounted

----------------------------------------------------------------------------
(* The commands take their steps. *)

\* A command that gives up, or ends with an answer of its own, keeps nothing.
LEMMA Quits ==
    ASSUME Accounted, NEW c \in Calls,
           NEW is \in Kinds \cup {"none"}, NEW told \in {"ok", "below", "exceeds", "ineligible", "refused"},
           told = "ok" => is # "stack",
           Become(c, [NewCall EXCEPT !.is = is, !.phase = "done", !.result = told])
    PROVE  Accounted'
  <1> DEFINE x == [NewCall EXCEPT !.is = is, !.phase = "done", !.result = told]
  <1>1. x \in Command
    BY DEF NewCall, Command, Results, Answer
  <1>2. /\ x.is = is /\ x.phase = "done" /\ x.result = told
        /\ x.nonce = Unread /\ x.eligible = Unread
    BY DEF NewCall
  <1> HIDE DEF x
  <1>3. Become(c, x)
    BY DEF x
  <1>4. call'[c] = x
    BY <1>1, <1>3, BecomeTyped DEF Accounted
  <1>5. CallInv(c)'
    BY <1>2, <1>4 DEF CallInv, Staged, Posted, Passed, Current, Running, InCycle, NonceHeld,
                      Outcome, Unread
  <1>6. QED
    BY <1>1, <1>3, <1>5, OneCall

\* A command begins: it has read nothing.
LEMMA Begins ==
    ASSUME Accounted, NEW c \in Calls, NEW is \in Kinds,
           NEW amount \in Amounts \cup {0}, NEW cycles \in CycleChoices \cup {0},
           Become(c, [NewCall EXCEPT !.is = is, !.phase = "reading", !.amount = amount,
                                     !.cycles = cycles])
    PROVE  Accounted'
  <1> DEFINE x == [NewCall EXCEPT !.is = is, !.phase = "reading", !.amount = amount,
                                  !.cycles = cycles]
  <1>1. x \in Command
    BY DEF NewCall, Command, Results, Answer
  <1>2. /\ x.phase = "reading" /\ x.result = "none" /\ x.balance = Unread /\ x.min = Unread
        /\ x.height = Unread /\ x.funds = Unread /\ x.eligible = Unread
        /\ x.unlock = Unread /\ x.nonce = Unread
    BY DEF NewCall
  <1> HIDE DEF x
  <1>3. Become(c, x)
    BY DEF x
  <1>4. call'[c] = x
    BY <1>1, <1>3, BecomeTyped DEF Accounted
  <1>5. CallInv(c)'
    BY <1>2, <1>4 DEF CallInv, Staged, Posted, Passed, Current, Running, InCycle, NonceHeld,
                      Outcome, Unread
  <1>6. QED
    BY <1>1, <1>3, <1>5, OneCall

\* A running command has its result still to come.
LEMMA WhileRunning ==
    ASSUME Accounted, NEW c \in Calls, Running(c)
    PROVE  /\ call[c] \in Command /\ CallInv(c) /\ call[c].result = "none"
           /\ moved[c] \in SUBSET Change
  BY DEF Accounted, Typed, CallInv, Staged, Running

\* A request is answered: what it was answered is true.
LEMMA Reads ==
    ASSUME Accounted, NEW c \in Calls, call[c].phase = "reading", NEW x \in Command,
           Become(c, x), x.phase = "reading", x.result = "none", call[c].is # "status",
           x.is = call[c].is,
           x.cycles = call[c].cycles,
           x.nonce = call[c].nonce, x.unlock = call[c].unlock,
           x.min = call[c].min \/ x.min = min,
           x.balance = call[c].balance \/ x.balance = account.balance,
           x.funds = call[c].funds \/ x.funds = account.balance - account.locked,
           x.funds = Unread => call[c].funds = Unread,
           x.height = call[c].height \/ x.height = height,
           \/ x.eligible = call[c].eligible
           \/ x.funds # Unread /\ (x.eligible = 1 => x.cycles \in 1..MaxCycles)
    PROVE  Accounted'
  <1>1. call'[c] = x /\ UNCHANGED <<height, min, account, moved>>
    BY BecomeTyped DEF Accounted, Become
  <1>2. Running(c) /\ CallInv(c)
    BY DEF Running, Accounted
  <1>3. Staged(c)'
    BY <1>1, <1>2 DEF CallInv, Staged, Posted, Running
  <1>4. Passed(c)'
    BY <1>1, <1>2 DEF CallInv, Passed
  <1>5. Current(c)'
    BY <1>1, <1>2 DEF CallInv, Current
  <1>6. InCycle(c)'
    BY <1>1, <1>2, HeightsNat DEF CallInv, InCycle, Accounted
  <1>7. NonceHeld(c)' /\ Outcome(c)'
    BY <1>1 DEF NonceHeld, Posted, Outcome
  <1>8. CallInv(c)'
    BY <1>3, <1>4, <1>5, <1>6, <1>7 DEF CallInv
  <1>9. QED
    BY <1>8, OneCall

\* The five requests of stack and can-stack.
LEMMA ReadsAccounted ==
    ASSUME Accounted, NEW c \in Calls,
           \/ ReadBalance(c) \/ ReadPoxInfo(c) \/ ReadCoreInfo(c) \/ ReadFunds(c)
           \/ ReadEligible(c)
    PROVE  Accounted'
  <1>1. call[c].phase = "reading" /\ call[c] \in Command /\ call[c].result = "none"
        /\ call[c].is # "status"
    BY WhileRunning DEF Running, Reading, ReadBalance, ReadPoxInfo, ReadCoreInfo, ReadFunds,
                        ReadEligible
  <1>2. /\ height \in Nat /\ min \in Nat /\ account.balance \in Nat
        /\ account.balance - account.locked \in Nat
    BY HeightsNat DEF Accounted, Typed
  <1>3. Unread \notin Nat
    BY DEF Unread
  <1>4. CASE ReadBalance(c)
    <2> DEFINE x == [call[c] EXCEPT !.balance = account.balance]
    <2>1. /\ x \in Command /\ x.phase = "reading" /\ x.result = "none" /\ x.is = call[c].is
          /\ x.cycles = call[c].cycles /\ x.nonce = call[c].nonce
          /\ x.unlock = call[c].unlock /\ x.min = call[c].min
          /\ x.balance = account.balance /\ x.funds = call[c].funds
          /\ x.height = call[c].height /\ x.eligible = call[c].eligible
      BY <1>1, <1>2 DEF Command, Answer
    <2>2. Become(c, x)
      BY <1>4 DEF ReadBalance
    <2> HIDE DEF x
    <2>3. QED
      BY <1>1, <2>1, <2>2, Reads
  <1>5. CASE ReadPoxInfo(c)
    <2> DEFINE x == [call[c] EXCEPT !.min = min]
    <2>1. /\ x \in Command /\ x.phase = "reading" /\ x.result = "none" /\ x.is = call[c].is
          /\ x.cycles = call[c].cycles /\ x.nonce = call[c].nonce
          /\ x.unlock = call[c].unlock /\ x.min = min
          /\ x.balance = call[c].balance /\ x.funds = call[c].funds
          /\ x.height = call[c].height /\ x.eligible = call[c].eligible
      BY <1>1, <1>2 DEF Command, Answer
    <2>2. Become(c, x)
      BY <1>5 DEF ReadPoxInfo
    <2> HIDE DEF x
    <2>3. QED
      BY <1>1, <2>1, <2>2, Reads
  <1>6. CASE ReadCoreInfo(c)
    <2> DEFINE x == [call[c] EXCEPT !.height = height]
    <2>1. /\ x \in Command /\ x.phase = "reading" /\ x.result = "none" /\ x.is = call[c].is
          /\ x.cycles = call[c].cycles /\ x.nonce = call[c].nonce
          /\ x.unlock = call[c].unlock /\ x.min = call[c].min
          /\ x.balance = call[c].balance /\ x.funds = call[c].funds
          /\ x.height = height /\ x.eligible = call[c].eligible
      BY <1>1, <1>2 DEF Command, Answer
    <2>2. Become(c, x)
      BY <1>6 DEF ReadCoreInfo
    <2> HIDE DEF x
    <2>3. QED
      BY <1>1, <2>1, <2>2, Reads
  <1>7. CASE ReadFunds(c)
    <2> DEFINE x == [call[c] EXCEPT !.funds = account.balance - account.locked]
    <2>1. /\ x \in Command /\ x.phase = "reading" /\ x.result = "none" /\ x.is = call[c].is
          /\ x.cycles = call[c].cycles /\ x.nonce = call[c].nonce
          /\ x.unlock = call[c].unlock /\ x.min = call[c].min
          /\ x.balance = call[c].balance /\ x.funds = account.balance - account.locked
          /\ x.height = call[c].height /\ x.eligible = call[c].eligible
      BY <1>1, <1>2 DEF Command, Answer
    <2>2. Become(c, x) /\ x.funds # Unread
      BY <1>2, <1>3, <1>7, <2>1 DEF ReadFunds
    <2> HIDE DEF x
    <2>3. QED
      BY <1>1, <2>1, <2>2, Reads
  <1>8. CASE ReadEligible(c)
    <2> DEFINE granted == IF call[c].funds >= min /\ call[c].cycles \in 1..MaxCycles
                          THEN 1 ELSE 0
    <2> DEFINE x == [call[c] EXCEPT !.eligible = granted]
    <2>1. granted \in {0, 1} /\ (granted = 1 => call[c].cycles \in 1..MaxCycles)
      OBVIOUS
    <2>2. Become(c, x) /\ call[c].funds # Unread
      BY <1>8 DEF ReadEligible
    <2> HIDE DEF granted
    <2>3. /\ x \in Command /\ x.phase = "reading" /\ x.result = "none" /\ x.is = call[c].is
          /\ x.cycles = call[c].cycles /\ x.nonce = call[c].nonce
          /\ x.unlock = call[c].unlock /\ x.min = call[c].min
          /\ x.balance = call[c].balance /\ x.funds = call[c].funds
          /\ x.height = call[c].height /\ x.eligible = granted
      BY <1>1, <2>1 DEF Command
    <2> HIDE DEF x
    <2>4. QED
      BY <1>1, <2>1, <2>2, <2>3, Reads
  <1>9. QED
    BY <1>4, <1>5, <1>6, <1>7, <1>8

\* The answers are looked at: stack goes on only if none of them forbids it.
LEMMA DecideAccounted ==
    ASSUME Accounted, NEW c \in Calls, Decide(c)
    PROVE  Accounted'
  <1>1. call[c].phase = "reading" /\ call[c] \in Command /\ call[c].result = "none"
        /\ CallInv(c) /\ AllRead(c) /\ call[c].is \in Kinds \cup {"none"}
    BY WhileRunning DEF Running, Reading, Decide, AllRead, Command
  <1>2. Verdict(c) \in {"ok", "below", "exceeds", "ineligible"}
    BY DEF Verdict
  <1>3. CASE call[c].is = "stack" /\ Verdict(c) = "ok"
    <2> DEFINE x == [call[c] EXCEPT !.phase = "making", !.at = StartBurnBlock(c)]
    <2>1. /\ call[c].height \in Nat /\ call[c].min \in Nat /\ call[c].balance \in Nat
          /\ call[c].amount \in Nat /\ call[c].eligible \in {0, 1}
          /\ call[c].funds # Unread
      BY <1>1, <1>3, CommandParts DEF AllRead, Answer, CallInv, Passed
    <2>2. /\ call[c].min <= call[c].amount /\ call[c].amount <= call[c].balance
          /\ call[c].eligible = 1
      BY <1>3, <2>1 DEF Verdict
    <2>3. StartBurnBlock(c) \in Answer
      BY <2>1 DEF StartBurnBlock, Answer
    <2>4. /\ x \in Command /\ x.phase = "making" /\ x.is = "stack" /\ x.result = "none"
          /\ x.amount = call[c].amount /\ x.cycles = call[c].cycles
          /\ x.balance = call[c].balance /\ x.min = call[c].min
          /\ x.height = call[c].height /\ x.funds = call[c].funds
          /\ x.eligible = call[c].eligible /\ x.nonce = call[c].nonce
          /\ x.unlock = call[c].unlock /\ x.at = call[c].height + 3
      BY <1>1, <1>3, <2>3 DEF Command, StartBurnBlock
    <2>5. Become(c, x)
      BY <1>3 DEF Decide
    <2> HIDE DEF x
    <2>6. call'[c] = x /\ UNCHANGED <<height, min, account, moved>>
      BY <2>4, <2>5, BecomeTyped DEF Accounted, Become
    <2>7. Unread \notin Nat
      BY DEF Unread
    <2>8. Staged(c)' /\ NonceHeld(c)' /\ Outcome(c)'
      BY <1>1, <2>4, <2>6 DEF CallInv, Staged, Running, NonceHeld, Posted, Outcome
    <2>9. Passed(c)'
      BY <1>1, <2>1, <2>2, <2>4, <2>6, <2>7 DEF CallInv, Passed, StartBurnBlock
    <2>10. Current(c)' /\ InCycle(c)'
      BY <1>1, <2>4, <2>6 DEF CallInv, Current, InCycle, Running
    <2>11. CallInv(c)'
      BY <2>8, <2>9, <2>10 DEF CallInv
    <2>12. QED
      BY <2>4, <2>5, <2>11, OneCall
  <1>4. CASE ~(call[c].is = "stack" /\ Verdict(c) = "ok")
    <2>1. Become(c, [NewCall EXCEPT !.is = call[c].is, !.phase = "done",
                                    !.result = Verdict(c)])
      BY <1>4 DEF Decide
    <2>2. QED
      <3> DEFINE is == call[c].is
      <3> DEFINE told == Verdict(c)
      <3>1. /\ is \in Kinds \cup {"none"}
            /\ told \in {"ok", "below", "exceeds", "ineligible", "refused"}
            /\ told = "ok" => is # "stack"
            /\ Become(c, [NewCall EXCEPT !.is = is, !.phase = "done", !.result = told])
        BY <1>1, <1>2, <1>4, <2>1
      <3> HIDE DEF is, told
      <3>2. QED
        BY <3>1, Quits
  <1>5. QED
    BY <1>3, <1>4

\* The transaction is made with the next nonce.
LEMMA MakeAccounted ==
    ASSUME Accounted, NEW c \in Calls, MakeContractCall(c)
    PROVE  Accounted'
  <1> DEFINE x == [call[c] EXCEPT !.phase = "signed", !.nonce = account.nonce]
  <1>1. call[c].phase = "making" /\ call[c] \in Command /\ call[c].result = "none"
        /\ CallInv(c) /\ call[c].is = "stack"
    BY WhileRunning DEF Running, MakeContractCall, CallInv, Staged
  <1>2. /\ call' = [call EXCEPT ![c] = x]
        /\ moved' = [moved EXCEPT ![c] = @ \ {"nonce"}]
        /\ UNCHANGED <<height, min, account>>
    <2>1. DOMAIN call[c] = DOMAIN NewCall
      BY <1>1 DEF Command, NewCall
    <2>2. QED
      BY DEF MakeContractCall, NextNonce
  <1>3. account.nonce \in Nat
    BY HeightsNat DEF Accounted
  <1>4. /\ x \in Command /\ x.phase = "signed" /\ x.is = "stack" /\ x.result = "none"
        /\ x.amount = call[c].amount /\ x.cycles = call[c].cycles
        /\ x.balance = call[c].balance /\ x.min = call[c].min
        /\ x.height = call[c].height /\ x.funds = call[c].funds
        /\ x.eligible = call[c].eligible /\ x.nonce = account.nonce
        /\ x.unlock = call[c].unlock /\ x.at = call[c].at
    <2> DEFINE y == [call[c] EXCEPT !.phase = "signed"]
    <2>1. y \in Command
      BY <1>1 DEF Command
    <2>2. [y EXCEPT !.nonce = account.nonce] \in Command
      <3> HIDE DEF y
      <3>1. QED
        BY <1>3, <2>1 DEF Command, Answer
    <2>3. x = [y EXCEPT !.nonce = account.nonce]
      BY <1>1 DEF Command
    <2>4. QED
      BY <1>1, <2>2, <2>3 DEF Command
  <1> HIDE DEF x
  <1>5. call'[c] = x /\ moved'[c] = moved[c] \ {"nonce"}
    BY <1>2 DEF Accounted, Typed
  <1>6. Typed' /\ LockAhead'
    BY <1>2, <1>4 DEF Accounted, Typed, LockAhead
  <1>7. CallInv(c)'
    <2>1. Staged(c)' /\ NonceHeld(c)' /\ Outcome(c)'
      BY <1>2, <1>3, <1>4, <1>5 DEF Staged, Running, NonceHeld, Posted, Outcome
    <2>2. Passed(c)'
      BY <1>1, <1>4, <1>5 DEF CallInv, Passed, StartBurnBlock
    <2>3. Current(c)'
      BY <1>1, <1>2, <1>4, <1>5 DEF CallInv, Current, Running
    <2>4. InCycle(c)'
      BY <1>1, <1>2, <1>4, <1>5 DEF CallInv, InCycle, Running
    <2>5. QED
      BY <2>1, <2>2, <2>3, <2>4 DEF CallInv
  <1>8. ASSUME NEW d \in Calls, d # c PROVE CallInv(d)'
    <2>1. call'[d] = call[d] /\ moved'[d] = moved[d]
      BY <1>2, <1>8 DEF Accounted, Typed
    <2>2. QED
      BY <1>2, <1>6, <2>1, Untouched DEF Accounted
  <1>9. QED
    BY <1>6, <1>7, <1>8 DEF Accounted

\* The node refuses a transaction whose nonce another one has used up.
LEMMA BroadcastAccounted ==
    ASSUME Accounted, NEW c \in Calls, Broadcast(c)
    PROVE  Accounted'
  <1>1. call[c].phase = "signed" /\ call[c] \in Command /\ call[c].result = "none"
        /\ CallInv(c) /\ call[c].is = "stack" /\ call[c].nonce \in Nat
    BY WhileRunning DEF Running, Broadcast, CallInv, Staged, Posted
  <1>2. CASE call[c].nonce < account.nonce
    <2> DEFINE x == [call[c] EXCEPT !.phase = "done", !.result = "refused"]
    <2>1. x \in Command
      <3>1. "refused" \in Results
        BY DEF Results
      <3>2. QED
        BY <1>1, <3>1, SettleTyped
    <2>2. /\ x.phase = "done" /\ x.result = "refused" /\ x.nonce = call[c].nonce
          /\ x.eligible = call[c].eligible /\ x.cycles = call[c].cycles
      BY <1>1 DEF Command
    <2>3. Become(c, x)
      BY <1>2 DEF Broadcast
    <2> HIDE DEF x
    <2>4. call'[c] = x /\ UNCHANGED <<height, min, account, moved>>
      BY <2>1, <2>3, BecomeTyped DEF Accounted, Become
    <2>5. "nonce" \in moved[c]
      BY <1>1, <1>2, HeightsNat DEF CallInv, NonceHeld, Posted, Accounted
    <2>6. CallInv(c)'
      BY <1>1, <2>2, <2>4, <2>5 DEF CallInv, Staged, Posted, Passed, Current, Running, InCycle,
                                    NonceHeld, Outcome
    <2>7. QED
      BY <2>1, <2>3, <2>6, OneCall
  <1>3. CASE ~(call[c].nonce < account.nonce)
    <2> DEFINE x == [call[c] EXCEPT !.phase = "pool"]
    <2>1. /\ x \in Command /\ x.phase = "pool" /\ x.is = "stack" /\ x.result = "none"
          /\ x.amount = call[c].amount /\ x.cycles = call[c].cycles
          /\ x.balance = call[c].balance /\ x.min = call[c].min
          /\ x.height = call[c].height /\ x.funds = call[c].funds
          /\ x.eligible = call[c].eligible /\ x.nonce = call[c].nonce
          /\ x.unlock = call[c].unlock /\ x.at = call[c].at
      BY <1>1 DEF Command
    <2>2. Become(c, x)
      BY <1>3 DEF Broadcast
    <2> HIDE DEF x
    <2>3. call'[c] = x /\ UNCHANGED <<height, min, account, moved>>
      BY <2>1, <2>2, BecomeTyped DEF Accounted, Become
    <2>4. Staged(c)' /\ NonceHeld(c)' /\ Outcome(c)'
      BY <1>1, <2>1, <2>3 DEF CallInv, Staged, Running, NonceHeld, Posted, Outcome
    <2>5. Passed(c)'
      BY <1>1, <2>1, <2>3 DEF CallInv, Passed, StartBurnBlock
    <2>6. Current(c)' /\ InCycle(c)'
      BY <1>1, <2>1, <2>3 DEF CallInv, Current, InCycle, Running
    <2>7. CallInv(c)'
      BY <2>4, <2>5, <2>6 DEF CallInv
    <2>8. QED
      BY <2>1, <2>2, <2>7, OneCall
  <1>4. QED
    BY <1>2, <1>3

\* The account is read, which is the first of stackingStatus's two answers.
LEMMA ReadAccountAccounted ==
    ASSUME Accounted, NEW c \in Calls, ReadAccount(c)
    PROVE  Accounted'
  <1> DEFINE x == [call[c] EXCEPT !.unlock = UnlockHeight(account)]
  <1>1. call[c].phase = "reading" /\ call[c] \in Command /\ call[c].result = "none"
        /\ CallInv(c)
    BY WhileRunning DEF Running, ReadAccount
  <1>2. /\ call' = [call EXCEPT ![c] = x] /\ moved' = [moved EXCEPT ![c] = {}]
        /\ UNCHANGED <<height, min, account>>
    BY DEF ReadAccount
  <1>3. UnlockHeight(account) \in Nat
    BY UnlockNat DEF Accounted, Typed
  <1>4. /\ x \in Command /\ x.phase = "reading" /\ x.result = "none" /\ x.is = call[c].is
        /\ x.nonce = call[c].nonce /\ x.cycles = call[c].cycles
        /\ x.balance = call[c].balance /\ x.min = call[c].min
        /\ x.height = call[c].height /\ x.funds = call[c].funds
        /\ x.eligible = call[c].eligible /\ x.unlock = UnlockHeight(account)
    BY <1>1, <1>3 DEF Command, Answer
  <1> HIDE DEF x
  <1>5. call'[c] = x /\ moved'[c] = {}
    BY <1>2 DEF Accounted, Typed
  <1>6. Typed' /\ LockAhead'
    BY <1>2, <1>4 DEF Accounted, Typed, LockAhead
  <1>7. /\ x.balance = Unread /\ x.min = Unread /\ x.funds = Unread /\ x.height = Unread
        /\ call[c].is = "status"
    BY <1>1, <1>4 DEF CallInv, Staged, Running, ReadAccount
  <1>8. CallInv(c)'
    <2>1. Staged(c)' /\ NonceHeld(c)' /\ Outcome(c)'
      BY <1>1, <1>4, <1>5, <1>7 DEF CallInv, Staged, Running, NonceHeld, Posted, Outcome
    <2>2. Passed(c)'
      BY <1>1, <1>4, <1>5 DEF CallInv, Passed
    <2>3. Current(c)' /\ InCycle(c)'
      BY <1>2, <1>4, <1>5, <1>7 DEF Current, InCycle
    <2>4. QED
      BY <2>1, <2>2, <2>3 DEF CallInv
  <1>9. ASSUME NEW d \in Calls, d # c PROVE CallInv(d)'
    <2>1. call'[d] = call[d] /\ moved'[d] = moved[d]
      BY <1>2, <1>9 DEF Accounted, Typed
    <2>2. QED
      BY <1>2, <1>6, <2>1, Untouched DEF Accounted
  <1>10. QED
    BY <1>6, <1>8, <1>9 DEF Accounted

\* The contract is asked: the two answers are of one lock, whose end is still
\* to come, unless the lock has changed in between.
LEMMA ReadStackerAccounted ==
    ASSUME Accounted, NEW c \in Calls, ReadStackerInfo(c)
    PROVE  Accounted'
  <1>1. call[c].phase = "reading" /\ call[c] \in Command /\ call[c].unlock # Unread
        /\ CallInv(c) /\ call[c].is = "status" /\ call[c].nonce = Unread
    BY WhileRunning DEF Running, ReadStackerInfo, CallInv, Staged
  <1>2. UnlockHeight(account) \in Nat /\ height \in Nat
    BY UnlockNat, HeightsNat DEF Accounted, Typed
  <1>3. CASE Stacked(c)
    <2> DEFINE x == [call[c] EXCEPT !.phase = "done", !.result = "stacked", !.at = height,
                                    !.height = UnlockHeight(account)]
    <2>1. x \in Command
      <3> DEFINE y == [call[c] EXCEPT !.phase = "done", !.result = "stacked"]
      <3> DEFINE z == [y EXCEPT !.at = height]
      <3>1. y \in Command
        <4>1. "stacked" \in Results
          BY DEF Results
        <4>2. QED
          BY <1>1, <4>1, SettleTyped
      <3>2. z \in Command
        <4> HIDE DEF y
        <4>1. QED
          BY <1>2, <3>1 DEF Command, Answer
      <3>3. [z EXCEPT !.height = UnlockHeight(account)] \in Command
        <4> HIDE DEF z
        <4>1. QED
          BY <1>2, <3>2 DEF Command, Answer
      <3>4. x = [z EXCEPT !.height = UnlockHeight(account)]
        BY <1>1 DEF Command
      <3>5. QED
        BY <3>3, <3>4
    <2>2. /\ x.phase = "done" /\ x.result = "stacked" /\ x.is = "status"
          /\ x.nonce = Unread /\ x.unlock = call[c].unlock /\ x.at = height
          /\ x.height = UnlockHeight(account)
          /\ x.eligible = call[c].eligible /\ x.cycles = call[c].cycles
      BY <1>1 DEF Command
    <2>3. Become(c, x)
      BY <1>3 DEF ReadStackerInfo
    <2> HIDE DEF x
    <2>4. call'[c] = x /\ UNCHANGED <<height, min, account, moved>>
      BY <2>1, <2>3, BecomeTyped DEF Accounted, Become
    <2>5. UnlockHeight(account) > height
      BY <1>3 DEF Stacked, Accounted, LockAhead
    <2>6. "lock" \notin moved[c] => call[c].unlock = UnlockHeight(account)
      BY <1>1 DEF CallInv, Current, Running
    <2>7. CallInv(c)'
      BY <1>1, <1>2, <2>2, <2>4, <2>5, <2>6
         DEF CallInv, Staged, Posted, Passed, Current, Running, InCycle, NonceHeld, Outcome
    <2>8. QED
      BY <2>1, <2>3, <2>7, OneCall
  <1>4. CASE ~Stacked(c)
    <2> DEFINE x == [call[c] EXCEPT !.phase = "done", !.result = "unstacked"]
    <2>1. x \in Command
      <3>1. "unstacked" \in Results
        BY DEF Results
      <3>2. QED
        BY <1>1, <3>1, SettleTyped
    <2>2. /\ x.phase = "done" /\ x.result = "unstacked" /\ x.nonce = Unread
          /\ x.eligible = call[c].eligible /\ x.cycles = call[c].cycles
      BY <1>1 DEF Command
    <2>3. Become(c, x)
      BY <1>4 DEF ReadStackerInfo
    <2> HIDE DEF x
    <2>4. call'[c] = x
      BY <2>1, <2>3, BecomeTyped DEF Accounted
    <2>5. CallInv(c)'
      BY <1>1, <2>2, <2>4 DEF CallInv, Staged, Posted, Passed, Current, Running, InCycle,
                              NonceHeld, Outcome
    <2>6. QED
      BY <2>1, <2>3, <2>5, OneCall
  <1>5. QED
    BY <1>3, <1>4

----------------------------------------------------------------------------
(* Theorems. *)

(* Every step of a call, of the chain or of another stacker keeps the books. *)
LEMMA NextAccounted ==
    ASSUME Accounted, [Next]_vars
    PROVE  Accounted'
  <1>1. CASE UNCHANGED vars
    <2>1. Typed' /\ LockAhead'
      BY <1>1 DEF vars, Accounted, Typed, LockAhead
    <2>2. ASSUME NEW c \in Calls PROVE CallInv(c)'
      BY <1>1, <2>1, Untouched DEF vars, Accounted
    <2>3. QED
      BY <2>1, <2>2 DEF Accounted
  <1>2. CASE Mine
    BY <1>2, MineAccounted
  <1>3. CASE MinimumChanges
    BY <1>3, MinimumAccounted
  <1>4. ASSUME NEW amount \in Amounts, Transfer(amount) PROVE Accounted'
    BY <1>4, TransferAccounted
  <1>5. ASSUME NEW c \in Calls, NEW amount \in Amounts, NEW cycles \in CycleChoices,
               NEW is \in {"stack", "can_stack"}, Begin(c, is, amount, cycles)
        PROVE  Accounted'
    <2>1. is \in Kinds /\ amount \in Amounts \cup {0} /\ cycles \in CycleChoices \cup {0}
      BY DEF Kinds
    <2>2. QED
      BY <1>5, <2>1, Begins DEF Begin
  <1>6. ASSUME NEW c \in Calls,
               \/ ReadBalance(c) \/ ReadPoxInfo(c) \/ ReadCoreInfo(c) \/ ReadFunds(c)
               \/ ReadEligible(c)
        PROVE  Accounted'
    BY <1>6, ReadsAccounted
  <1>7. ASSUME NEW c \in Calls, RequestFails(c) PROVE Accounted'
    <2> DEFINE is == call[c].is
    <2>1. is \in Kinds \cup {"none"}
      BY DEF Accounted, Typed, Command
    <2>2. Become(c, [NewCall EXCEPT !.is = is, !.phase = "done", !.result = "refused"])
      BY <1>7 DEF RequestFails
    <2> HIDE DEF is
    <2>3. QED
      BY <2>1, <2>2, Quits
  <1>8. ASSUME NEW c \in Calls, BeginStatus(c) PROVE Accounted'
    <2> DEFINE x == [NewCall EXCEPT !.is = "status", !.phase = "reading"]
    <2>1. x.amount = 0 /\ x.cycles = 0 /\ DOMAIN x = DOMAIN NewCall
      BY DEF NewCall
    <2>2. [NewCall EXCEPT !.is = "status", !.phase = "reading", !.amount = 0, !.cycles = 0] = x
      BY <2>1 DEF NewCall
    <2>3. Become(c, [NewCall EXCEPT !.is = "status", !.phase = "reading", !.amount = 0,
                                    !.cycles = 0])
      BY <1>8, <2>2 DEF BeginStatus
    <2>4. "status" \in Kinds /\ 0 \in Amounts \cup {0} /\ 0 \in CycleChoices \cup {0}
      BY DEF Kinds
    <2>5. QED
      BY <2>3, <2>4, Begins
  <1>9. ASSUME NEW c \in Calls,
               \/ Decide(c) \/ MakeContractCall(c) \/ Broadcast(c) \/ ConfirmStack(c)
               \/ ReadAccount(c) \/ ReadStackerInfo(c)
        PROVE  Accounted'
    BY <1>9, DecideAccounted, MakeAccounted, BroadcastAccounted, ConfirmAccounted,
       ReadAccountAccounted, ReadStackerAccounted
  <1>10. QED
    BY <1>1, <1>2, <1>3, <1>4, <1>5, <1>6, <1>7, <1>8, <1>9 DEF Next

\* Whatever the node answers a command that still runs is true, or the history
\* says what has changed, and a command that has settled was told what its
\* history accounts for.
THEOREM EveryAnswerIsAccounted == Spec => []Accounted
  BY InitAccounted, NextAccounted, PTL DEF Spec

\* Account, minimum and commands keep their types, and the locked part of a
\* balance never exceeds it.
THEOREM TypeCorrectness == Spec => []TypeOK
  <1>1. ASSUME Accounted PROVE TypeOK
    <2>1. ASSUME NEW c \in Calls
          PROVE  /\ call[c].is \in Kinds \cup {"none"}
                 /\ call[c].phase \in {"idle", "reading", "making", "signed", "pool", "done"}
                 /\ call[c].amount \in Amounts \cup {0} /\ call[c].cycles \in CycleChoices \cup {0}
                 /\ {call[c].balance, call[c].min, call[c].height, call[c].funds, call[c].unlock,
                     call[c].nonce, call[c].at} \subseteq Nat \cup {Unread}
                 /\ call[c].eligible \in {Unread, 0, 1}
                 /\ call[c].result \in Results
      BY <1>1 DEF Accounted, Typed, Command, Answer
    <2>2. QED
      BY <1>1, <2>1 DEF Accounted, Typed, TypeOK, Results
  <1>2. QED
    BY <1>1, EveryAnswerIsAccounted, PTL

\* A transaction that passed stack's checks is refused by the contract only for
\* what changed after the answers, for the fee, or for a lock the answers show.
THEOREM RefusalsExplained == Spec => []AbortExplained
  <1>1. ASSUME Accounted PROVE AbortExplained
    <2>1. SUFFICES ASSUME NEW c \in Calls
                   PROVE  CASE call[c].result = "threshold" -> "min" \in moved[c]
                            [] call[c].result = "funds" ->
                                \/ moved[c] \cap {"balance", "lock"} # {}
                                \/ call[c].amount + Fee > call[c].balance
                            [] call[c].result = "already" ->
                                \/ moved[c] \cap {"balance", "lock"} # {}
                                \/ call[c].funds < call[c].balance
                            [] call[c].result = "period" -> FALSE
                            [] OTHER -> TRUE
      BY DEF AbortExplained
    <2>2. Outcome(c)
      BY <1>1 DEF Accounted, CallInv
    <2>3. QED
      BY <2>2 DEF Outcome
  <1>2. QED
    BY <1>1, EveryAnswerIsAccounted, PTL

\* A transaction asked for the last three blocks of a cycle succeeds only in the
\* next one, and one asked for before them only in its own.
THEOREM StartsInItsCycle == Spec => []StartInCycle
  <1>1. Accounted => StartInCycle
    BY DEF Accounted, CallInv, Outcome, StartInCycle
  <1>2. QED
    BY <1>1, EveryAnswerIsAccounted, PTL

\* A transaction is refused or dropped for its nonce only if another one of the
\* account was confirmed after it read its nonce.
THEOREM LostOnlyToAnother == Spec => []LostToAnother
  <1>1. Accounted => LostToAnother
    BY DEF Accounted, CallInv, Outcome, LostToAnother
  <1>2. QED
    BY <1>1, EveryAnswerIsAccounted, PTL

\* The two answers of stackingStatus are of one lock, and the unlock height it
\* tells is still to come, unless the lock has changed in between.
THEOREM StatusIsOfOneLock == Spec => []StatusOfOneLock
  <1>1. Accounted => StatusOfOneLock
    BY DEF Accounted, CallInv, Outcome, StatusOfOneLock
  <1>2. QED
    BY <1>1, EveryAnswerIsAccounted, PTL
=============================================================================
