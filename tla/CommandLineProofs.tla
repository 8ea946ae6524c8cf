------------------------- MODULE CommandLineProofs -------------------------
(***************************************************************************)
(* Every command line, of any length, is read as its words say, and no      *)
(* handler is called without an argument that it takes for given.           *)
(***************************************************************************)
EXTENDS CommandLine, FiniteSetTheorems, WellFoundedInduction, TLAPS

----------------------------------------------------------------------------
(* Recursion along a sequence. *)

\* What holds at 0 and goes on from each number to the next holds up to n.
LEMMA Along ==
    ASSUME NEW n \in Nat, NEW T, 0 \in T, \A k \in 1..n : k - 1 \in T => k \in T
    PROVE  \A k \in 0..n : k \in T
  <1>1. PICK R : R = OpToRel(<, Nat)
    OBVIOUS
  <1>2. PICK U \in SUBSET Nat : U = {k \in 0..n : k \notin T}
    <2>1. PICK V : V = {k \in 0..n : k \notin T}
      OBVIOUS
    <2>2. \A k \in V : k \in Nat
      BY <2>1
    <2>3. QED
      BY <2>1, <2>2
  <1>3. SUFFICES ASSUME U # {} PROVE FALSE
    BY <1>2
  <1>4. PICK k \in U : \A m \in U : ~(<<m, k>> \in R)
    BY <1>1, <1>3, NatLessThanWellFounded, WFMin
  <1>5. k \in 1..n /\ k - 1 \in Nat /\ k - 1 \in 0..n /\ k - 1 < k /\ k \notin T
    BY <1>2
  <1>6. k - 1 \in U
    BY <1>2, <1>5
  <1>7. <<k - 1, k>> \in R
    <2>1. <<k - 1, k>> \in Nat \X Nat /\ <<k - 1, k>>[1] < <<k - 1, k>>[2]
      BY <1>5
    <2>2. <<k - 1, k>> \in OpToRel(<, Nat)
      BY <2>1 DEF OpToRel
    <2>3. QED
      BY <1>1, <2>2
  <1>8. QED
    BY <1>4, <1>6, <1>7

\* A recursive function along a sequence is there, and of its type.
Steps(n, S, step) == \A i \in 1..n : \A s \in S : step[i][s] \in S

Runs(n, S, base, step, f) ==
    /\ f \in [0..n -> S] /\ f[0] = base
    /\ \A i \in 1..n : f[i] = step[i][f[i - 1]]

LEMMA Recursion ==
    ASSUME NEW n \in Nat, NEW S, NEW base \in S, NEW step, Steps(n, S, step)
    PROVE  \E f : Runs(n, S, base, step, f)
  <1>1. PICK T : T = {m \in 0..n : \E f : Runs(m, S, base, step, f)}
    OBVIOUS
  <1>2. 0 \in T
    <2>1. PICK f : f = [i \in 0..0 |-> base]
      OBVIOUS
    <2>2. Runs(0, S, base, step, f)
      BY <2>1 DEF Runs
    <2>3. QED
      BY <1>1, <2>2
  <1>3. ASSUME NEW k \in 1..n, k - 1 \in T
        PROVE  k \in T
    <2>1. PICK f : Runs(k - 1, S, base, step, f)
      BY <1>1, <1>3
    <2>2. PICK g : g = [i \in 0..k |-> IF i = k THEN step[k][f[k - 1]] ELSE f[i]]
      OBVIOUS
    <2>3. f \in [0..(k - 1) -> S] /\ f[0] = base /\ step[k][f[k - 1]] \in S
      BY <2>1 DEF Runs, Steps
    <2>4. g \in [0..k -> S]
      BY <2>2, <2>3
    <2>5. g[0] = base /\ g[k] = step[k][g[k - 1]]
      BY <2>2, <2>3
    <2>6. ASSUME NEW i \in 1..(k - 1) PROVE g[i] = step[i][g[i - 1]]
      <3>1. g[i] = f[i] /\ g[i - 1] = f[i - 1]
        BY <2>2, <2>6
      <3>2. QED
        BY <2>1, <2>6, <3>1 DEF Runs
    <2>7. \A i \in 1..k : g[i] = step[i][g[i - 1]]
      <3>1. \A i \in 1..k : i = k \/ i \in 1..(k - 1)
        OBVIOUS
      <3>2. QED
        BY <2>5, <2>6, <3>1
    <2>8. Runs(k, S, base, step, g)
      BY <2>4, <2>5, <2>7 DEF Runs
    <2>9. QED
      BY <1>1, <2>8
  <1>4. \A k \in 0..n : k \in T
    BY <1>2, <1>3, Along
  <1>5. QED
    BY <1>1, <1>4

\* The words at the chosen positions: they are picked from the first one on.
Picked(words, positions, picked) ==
    /\ picked[0] = <<>>
    /\ \A n \in 1..Len(words) :
        picked[n] = IF n \in positions THEN Append(picked[n - 1], words[n]) ELSE picked[n - 1]

LEMMA PickedThere ==
    ASSUME NEW T, NEW words \in Seq(T), NEW positions
    PROVE  \E picked \in [0..Len(words) -> Seq(T)] :
              Picked(words, positions, picked) /\ ThoseAt(words, positions) = picked[Len(words)]
  <1>1. PICK len \in Nat : len = Len(words)
    OBVIOUS
  <1>2. PICK S : S = Seq(T)
    OBVIOUS
  <1>3. ASSUME NEW n \in 1..len, NEW s \in S
        PROVE  (IF n \in positions THEN Append(s, words[n]) ELSE s) \in S
    BY <1>1, <1>2, <1>3
  <1>4. PICK step : step = [n \in 1..len |-> [s \in S |->
                               IF n \in positions THEN Append(s, words[n]) ELSE s]]
    OBVIOUS
  <1>5. PICK base : base = <<>> /\ base \in S
    <2>1. <<>> \in S
      BY <1>2
    <2>2. QED
      BY <2>1
  <1>6. PICK f \in [0..len -> S] : f[0] = base /\ \A n \in 1..len : f[n] = step[n][f[n - 1]]
    <2>1. Steps(len, S, step)
      BY <1>3, <1>4 DEF Steps
    <2>2. PICK f : Runs(len, S, base, step, f)
      BY <1>5, <2>1, Recursion
    <2>3. QED
      BY <2>2 DEF Runs
  <1>7. ASSUME NEW n \in 1..len
        PROVE  f[n] = IF n \in positions THEN Append(f[n - 1], words[n]) ELSE f[n - 1]
    <2>1. f[n - 1] \in S /\ f[n] = step[n][f[n - 1]]
      BY <1>6
    <2>2. QED
      BY <1>4, <2>1
  <1>8. f = [n \in 0..len |-> IF n = 0 THEN <<>>
                              ELSE IF n \in positions THEN Append(f[n - 1], words[n])
                              ELSE f[n - 1]]
    <2>1. PICK g : g = [n \in 0..len |-> IF n = 0 THEN <<>>
                              ELSE IF n \in positions THEN Append(f[n - 1], words[n])
                              ELSE f[n - 1]]
      OBVIOUS
    <2>2. ASSUME NEW n \in 0..len PROVE g[n] = f[n]
      <3>1. CASE n = 0
        BY <1>5, <1>6, <2>1, <3>1
      <3>2. CASE n # 0
        <4>1. n \in 1..len
          BY <3>2
        <4>2. g[n] = IF n \in positions THEN Append(f[n - 1], words[n]) ELSE f[n - 1]
          BY <2>1, <3>2
        <4>3. QED
          BY <1>7, <4>1, <4>2
      <3>3. QED
        BY <3>1, <3>2
    <2>3. f = g
      BY <1>6, <2>1, <2>2
    <2>4. QED
      BY <2>1, <2>3
  <1>9. PICK g : /\ g = [n \in 0..len |-> IF n = 0 THEN <<>>
                              ELSE IF n \in positions THEN Append(g[n - 1], words[n])
                              ELSE g[n - 1]]
                 /\ ThoseAt(words, positions) = g[len]
    BY <1>1, <1>8 DEF ThoseAt
  <1>10. PICK U : U = {n \in 0..len : g[n] = f[n]}
    OBVIOUS
  <1>11. 0 \in U
    BY <1>5, <1>6, <1>9, <1>10
  <1>12. ASSUME NEW k \in 1..len, k - 1 \in U
         PROVE  k \in U
    <2>1. g[k - 1] = f[k - 1]
      BY <1>10, <1>12
    <2>2. k \in 0..len /\ k # 0
      OBVIOUS
    <2>3. g[k] = IF k \in positions THEN Append(g[k - 1], words[k]) ELSE g[k - 1]
      BY <1>9, <2>2
    <2>4. QED
      BY <1>7, <1>10, <2>1, <2>2, <2>3
  <1>13. \A n \in 0..len : n \in U
    BY ONLY len \in Nat, <1>11, <1>12, Along
  <1>14. len \in 0..len /\ g[len] = f[len]
    BY <1>10, <1>13
  <1>15. QED
    BY <1>1, <1>2, <1>5, <1>6, <1>7, <1>9, <1>14 DEF Picked

\* What is picked depends on the words at the chosen positions alone.
LEMMA SamePicked ==
    ASSUME NEW T, NEW words \in Seq(T), NEW others \in Seq(T), Len(words) = Len(others),
           NEW positions, \A i \in DOMAIN words \cap positions : words[i] = others[i]
    PROVE  ThoseAt(words, positions) = ThoseAt(others, positions)
  <1>1. PICK len \in Nat : len = Len(words) /\ len = Len(others)
    OBVIOUS
  <1>2. PICK f : Picked(words, positions, f) /\ ThoseAt(words, positions) = f[len]
    BY <1>1, PickedThere
  <1>3. PICK g : Picked(others, positions, g) /\ ThoseAt(others, positions) = g[len]
    BY <1>1, PickedThere
  <1>4. PICK U : U = {n \in 0..len : g[n] = f[n]}
    OBVIOUS
  <1>5. 0 \in U
    BY <1>2, <1>3, <1>4 DEF Picked
  <1>6. ASSUME NEW k \in 1..len, k - 1 \in U
        PROVE  k \in U
    <2>1. g[k - 1] = f[k - 1]
      BY <1>4, <1>6
    <2>2. /\ f[k] = IF k \in positions THEN Append(f[k - 1], words[k]) ELSE f[k - 1]
          /\ g[k] = IF k \in positions THEN Append(g[k - 1], others[k]) ELSE g[k - 1]
      BY <1>1, <1>2, <1>3 DEF Picked
    <2>3. k \in positions => words[k] = others[k]
      BY <1>1
    <2>4. f[k] = g[k]
      BY <2>1, <2>2, <2>3
    <2>5. QED
      BY <1>4, <2>4
  <1>7. \A n \in 0..len : n \in U
    BY ONLY len \in Nat, <1>5, <1>6, Along
  <1>8. QED
    BY <1>2, <1>3, <1>4, <1>7

----------------------------------------------------------------------------
(* Merging the arguments. *)

\* The item of each name: its keyword's value, or the next of the other words.
Positional(found, names, k) == Cardinality({j \in 1..k : ~Found(found, names[j])})

Item(found, ordered, names, k) ==
    IF Found(found, names[k]) THEN ValueOf(found, names[k])
    ELSE At(ordered, Positional(found, names, k))

NextWord(found, ordered, names, k) ==
    1 + (IF Positional(found, names, k) <= Len(ordered) THEN Positional(found, names, k)
         ELSE Len(ordered))

\* Each item that is not given by its keyword is one more.
LEMMA OneMore ==
    ASSUME NEW found, NEW names
    PROVE  /\ Positional(found, names, 0) = 0
           /\ \A k \in Nat : Positional(found, names, k) \in 0..k
           /\ \A k \in Nat \ {0} : Positional(found, names, k) =
                 Positional(found, names, k - 1)
                 + (IF Found(found, names[k]) THEN 0 ELSE 1)
  <1> DEFINE P(k) == {j \in 1..k : ~Found(found, names[j])}
  <1>1. P(0) = {}
    OBVIOUS
  <1>2. ASSUME NEW k \in Nat
        PROVE  IsFiniteSet(P(k)) /\ Cardinality(P(k)) \in 0..k
    <2>1. P(k) \in SUBSET (1..k) /\ IsFiniteSet(1..k) /\ Cardinality(1..k) = k
      BY FS_Interval
    <2>2. IsFiniteSet(P(k)) /\ Cardinality(P(k)) <= k /\ Cardinality(P(k)) \in Nat
      BY <2>1, FS_Subset, FS_CardinalityType
    <2>3. QED
      BY <2>2
  <1>3. ASSUME NEW k \in Nat \ {0}
        PROVE  Cardinality(P(k)) = Cardinality(P(k - 1)) + (IF Found(found, names[k]) THEN 0 ELSE 1)
    <2>1. k - 1 \in Nat /\ k \notin P(k - 1)
      OBVIOUS
    <2>2. IsFiniteSet(P(k - 1)) /\ Cardinality(P(k - 1)) \in Nat
      BY <1>2, <2>1
    <2>3. CASE Found(found, names[k])
      <3>1. P(k) = P(k - 1)
        BY <2>3
      <3>2. QED
        BY <2>2, <2>3, <3>1
    <2>4. CASE ~Found(found, names[k])
      <3>1. P(k) = P(k - 1) \cup {k}
        BY <2>4
      <3>2. QED
        BY <2>1, <2>2, <2>4, <3>1, FS_AddElement
    <2>5. QED
      BY <2>3, <2>4
  <1>4. QED
    BY <1>1, <1>2, <1>3, FS_EmptySet DEF Positional

\* The state of the merging after k names.
MergedUpTo(found, ordered, names, k) ==
    [merged |-> [j \in 1..k |-> Item(found, ordered, names, j)],
     found |-> found, ordered |-> ordered, next |-> NextWord(found, ordered, names, k)]

\* One name more.
LEMMA MergeOne ==
    ASSUME NEW T, NEW ordered \in Seq(T), NEW found, NEW names, NEW k \in Nat \ {0}
    PROVE  MergedUpTo(found, ordered, names, k)
             = Merge(MergedUpTo(found, ordered, names, k - 1), names[k])
  <1>1. PICK s : s = MergedUpTo(found, ordered, names, k - 1)
    OBVIOUS
  <1>2. PICK p \in Nat : p = Positional(found, names, k - 1)
    <2>1. \A m \in Nat : Positional(found, names, m) \in 0..m
      BY OneMore
    <2>2. Positional(found, names, k - 1) \in 0..(k - 1)
      BY <2>1
    <2>3. Positional(found, names, k - 1) \in Nat
      BY <2>2
    <2>4. QED
      BY <2>3
  <1>3. PICK len \in Nat : len = Len(ordered) /\ DOMAIN ordered = 1..len
    OBVIOUS
  <1>4. PICK items : items = [j \in 1..k |-> Item(found, ordered, names, j)]
    OBVIOUS
  <1>5. /\ s.merged = [j \in 1..(k - 1) |-> Item(found, ordered, names, j)]
        /\ s.found = found /\ s.ordered = ordered
        /\ s.next = 1 + (IF p <= len THEN p ELSE len)
    BY <1>1, <1>2, <1>3 DEF MergedUpTo, NextWord
  <1>6. Append(s.merged, items[k]) = items
    <2>1. Len(s.merged) = k - 1 /\ s.merged \in Seq({Item(found, ordered, names, j) : j \in 1..k})
      BY <1>5
    <2>2. Append(s.merged, items[k]) = [j \in 1..k |-> IF j = k THEN items[k] ELSE s.merged[j]]
      BY <2>1
    <2>3. \A j \in 1..k : j # k => s.merged[j] = items[j]
      BY <1>4, <1>5
    <2>4. QED
      BY <1>4, <2>2, <2>3
  <1>7. CASE Found(found, names[k])
    <2>1. Positional(found, names, k) = p
      <3>1. Positional(found, names, k) = Positional(found, names, k - 1) + 0
        BY <1>7, OneMore
      <3>2. QED
        BY <1>2, <3>1
    <2>2. items[k] = ValueOf(found, names[k])
      BY <1>4, <1>7 DEF Item
    <2>3. Merge(s, names[k]) = [s EXCEPT !.merged = Append(@, ValueOf(found, names[k]))]
      BY <1>5, <1>7 DEF Merge
    <2>4. QED
      BY <1>1, <1>2, <1>3, <1>4, <1>6, <2>1, <2>2, <2>3 DEF MergedUpTo, NextWord
  <1>8. CASE ~Found(found, names[k])
    <2>1. Positional(found, names, k) = p + 1
      BY <1>2, <1>8, OneMore
    <2>2. items[k] = At(ordered, p + 1)
      BY <1>4, <1>8, <2>1 DEF Item
    <2>3. CASE p < len
      <3>1. s.next = p + 1 /\ items[k] = ordered[p + 1]
        BY <1>3, <1>5, <2>2, <2>3 DEF At
      <3>2. s.next <= Len(s.ordered) /\ ~Found(s.found, names[k])
        BY <1>3, <1>5, <1>8, <2>3, <3>1
      <3>3. Append(s.merged, s.ordered[s.next]) = items /\ s.next + 1 = p + 2
        <4>1. s.ordered[s.next] = items[k]
          BY <1>5, <3>1
        <4>2. s.next + 1 = p + 2
          BY <3>1
        <4>3. QED
          BY <1>6, <4>1, <4>2
      <3>4. Merge(s, names[k])
              = [merged |-> items, found |-> found, ordered |-> ordered, next |-> p + 2]
        BY <1>5, <3>2, <3>3 DEF Merge
      <3>5. NextWord(found, ordered, names, k) = p + 2
        BY <1>3, <2>1, <2>3 DEF NextWord
      <3>6. QED
        BY <1>1, <1>4, <3>4, <3>5 DEF MergedUpTo
    <2>4. CASE ~(p < len)
      <3>1. s.next = len + 1 /\ items[k] = Null
        BY <1>3, <1>5, <2>2, <2>4 DEF At
      <3>2. ValueOf(found, names[k]) = Null
        BY <1>8 DEF ValueOf
      <3>3. Merge(s, names[k]) = [s EXCEPT !.merged = Append(@, items[k])]
        BY <1>3, <1>5, <1>8, <3>1, <3>2 DEF Merge
      <3>4. NextWord(found, ordered, names, k) = len + 1
        BY <1>3, <2>1, <2>4 DEF NextWord
      <3>5. QED
        BY <1>1, <1>4, <1>6, <3>1, <3>3, <3>4 DEF MergedUpTo
    <2>5. QED
      BY <2>3, <2>4
  <1>9. QED
    BY <1>7, <1>8

\* What is merged has an item for each name.
LEMMA MergedWords ==
    ASSUME NEW T, NEW ordered \in Seq(T), NEW found, NEW names, Len(names) \in Nat
    PROVE  MergeAll(found, ordered, names)
             = [k \in 1..Len(names) |-> Item(found, ordered, names, k)]
  <1>1. PICK len \in Nat : len = Len(names)
    OBVIOUS
  <1>2. PICK base : base = [merged |-> <<>>, found |-> found, ordered |-> ordered, next |-> 1]
    OBVIOUS
  <1>3. PICK f : f = [k \in 0..len |-> MergedUpTo(found, ordered, names, k)]
    OBVIOUS
  <1>4. f[0] = base
    <2>1. [j \in 1..0 |-> Item(found, ordered, names, j)] = <<>>
      OBVIOUS
    <2>2. NextWord(found, ordered, names, 0) = 1
      BY OneMore DEF NextWord
    <2>3. QED
      BY <1>2, <1>3, <2>1, <2>2 DEF MergedUpTo
  <1>5. ASSUME NEW k \in 1..len PROVE f[k] = Merge(f[k - 1], names[k])
    <2>1. k \in Nat \ {0} /\ k \in 0..len /\ k - 1 \in 0..len
      OBVIOUS
    <2>2. QED
      BY <1>3, <2>1, MergeOne
  <1>6. f = [k \in 0..len |-> IF k = 0 THEN base ELSE Merge(f[k - 1], names[k])]
    <2>1. PICK g : g = [k \in 0..len |-> IF k = 0 THEN base ELSE Merge(f[k - 1], names[k])]
      OBVIOUS
    <2>2. ASSUME NEW k \in 0..len PROVE f[k] = g[k]
      <3>1. k = 0 \/ (k \in 1..len /\ k # 0)
        OBVIOUS
      <3>2. QED
        BY <1>4, <1>5, <2>1, <3>1
    <2>3. f = g
      BY <1>3, <2>1, <2>2
    <2>4. QED
      BY <2>1, <2>3
  <1>7. PICK g : /\ g = [k \in 0..len |-> IF k = 0 THEN base ELSE Merge(g[k - 1], names[k])]
                 /\ MergeAll(found, ordered, names) = g[len].merged
    BY <1>1, <1>2, <1>6 DEF MergeAll
  <1>8. PICK U : U = {k \in 0..len : g[k] = f[k]}
    OBVIOUS
  <1>9. 0 \in U
    BY <1>4, <1>7, <1>8
  <1>10. ASSUME NEW k \in 1..len, k - 1 \in U PROVE k \in U
    <2>1. g[k - 1] = f[k - 1] /\ k \in 0..len /\ k # 0
      BY <1>8, <1>10
    <2>2. g[k] = Merge(g[k - 1], names[k])
      BY <1>7, <2>1
    <2>3. g[k] = f[k]
      BY <1>5, <2>1, <2>2
    <2>4. QED
      BY <1>8, <2>1, <2>3
  <1>11. \A k \in 0..len : k \in U
    BY ONLY len \in Nat, <1>9, <1>10, Along
  <1>12. g[len] = MergedUpTo(found, ordered, names, len)
    BY <1>3, <1>8, <1>11
  <1>13. QED
    BY <1>1, <1>7, <1>12 DEF MergedUpTo

----------------------------------------------------------------------------
(* Looking for the options. *)

OptionLetter == ToSet(OptionLetters)
LineWord == CliWord \cup {Empty}
OptionValue == LineWord \cup {Null, Switch(TRUE), Switch(FALSE)}

\* What is known of the options and the words, with n words in the line.
OptionStates(n) == [opts: [OptionLetter -> OptionValue], words: [1..n -> LineWord]]

\* The letters, one by one.
LEMMA TheLetters ==
    /\ Len(OptionLetters) = 21 /\ OptionLetters \in Seq(OptionLetter)
    /\ Switches \subseteq OptionLetter
    /\ \A o \in OptionLetter : \E k \in 1..21 : OptionLetters[k] = o
    /\ \A k \in 1..21 : OptionLetters[k] \in OptionLetter
    /\ \A k, m \in 1..21 : OptionLetters[k] = OptionLetters[m] => k = m
  <1>1. Len(OptionLetters) = 21
    BY DEF OptionLetters
  <1>2. DOMAIN OptionLetters = 1..21
    BY DEF OptionLetters
  <1>3. OptionLetter = {OptionLetters[k] : k \in 1..21}
    BY <1>2 DEF OptionLetter, ToSet
  <1>4. OptionLetters \in Seq(OptionLetter)
    BY <1>2, <1>3 DEF OptionLetters
  <1>5. Switches \subseteq OptionLetter
    <2>1. /\ OptionLetters[1] = "d" /\ OptionLetters[2] = "e" /\ OptionLetters[3] = "i"
          /\ OptionLetters[4] = "t" /\ OptionLetters[5] = "U" /\ OptionLetters[6] = "x"
      BY DEF OptionLetters
    <2>2. QED
      BY <1>3, <2>1 DEF Switches
  <1>6. \A k, m \in 1..21 : OptionLetters[k] = OptionLetters[m] => k = m
    BY DEF OptionLetters
  <1>7. QED
    BY <1>1, <1>3, <1>4, <1>5, <1>6

LEMMA OptionState ==
    ASSUME NEW n, NEW opts \in [OptionLetter -> OptionValue], NEW words \in [1..n -> LineWord]
    PROVE  [opts |-> opts, words |-> words] \in OptionStates(n)
  BY DEF OptionStates

\* One look at one word keeps the types.
LEMMA LookAtTyped ==
    ASSUME NEW n \in Nat, NEW s \in OptionStates(n), NEW o \in OptionLetter, NEW i \in 1..n
    PROVE  LookAt(s, o, i) \in OptionStates(n)
  <1>1. s.opts \in [OptionLetter -> OptionValue] /\ s.words \in [1..n -> LineWord]
    BY DEF OptionStates
  <1>2. ASSUME NEW v \in OptionValue
        PROVE  [s.opts EXCEPT ![o] = v] \in [OptionLetter -> OptionValue]
    BY <1>1, <1>2
  <1>3. ASSUME NEW B PROVE Blank(s.words, B) \in [1..n -> LineWord]
    BY <1>1 DEF Blank, LineWord
  <1>4. At(s.words, i + 1) \in OptionValue
    BY <1>1 DEF At, OptionValue
  <1>5. Switch(TRUE) \in OptionValue
    BY DEF OptionValue
  <1>6. TakeOption(s, o, i) \in OptionStates(n)
    <2>1. CASE s.opts[o] = Switch(FALSE)
      <3>1. PICK opts \in [OptionLetter -> OptionValue] : opts = [s.opts EXCEPT ![o] = Switch(TRUE)]
        BY <1>2, <1>5
      <3>2. PICK words \in [1..n -> LineWord] : words = Blank(s.words, {i})
        BY <1>3
      <3>3. TakeOption(s, o, i) = [opts |-> opts, words |-> words]
        BY <2>1, <3>1, <3>2 DEF TakeOption
      <3>4. QED
        BY <3>3, OptionState
    <2>2. CASE s.opts[o] # Switch(FALSE)
      <3>1. PICK opts \in [OptionLetter -> OptionValue] :
               opts = [s.opts EXCEPT ![o] = At(s.words, i + 1)]
        BY <1>2, <1>4
      <3>2. PICK words \in [1..n -> LineWord] : words = Blank(s.words, {i, i + 1})
        BY <1>3
      <3>3. TakeOption(s, o, i) = [opts |-> opts, words |-> words]
        BY <2>2, <3>1, <3>2 DEF TakeOption
      <3>4. QED
        BY <3>3, OptionState
    <2>3. QED
      BY <2>1, <2>2
  <1>7. QED
    BY <1>6 DEF LookAt

\* One letter is looked for from word to word.
Looks(s, o, n, f) ==
    /\ f \in [0..n -> OptionStates(n)] /\ f[0] = s
    /\ \A i \in 1..n : f[i] = LookAt(f[i - 1], o, i)

LEMMA LookThere ==
    ASSUME NEW n \in Nat, NEW s \in OptionStates(n), NEW o \in OptionLetter
    PROVE  \E f : Looks(s, o, n, f) /\ Look(s, o) = f[n]
  <1>1. PICK S : S = OptionStates(n)
    OBVIOUS
  <1>2. Len(s.words) = n
    BY DEF OptionStates
  <1>3. PICK step : step = [i \in 1..n |-> [t \in S |-> LookAt(t, o, i)]]
    OBVIOUS
  <1>4. Steps(n, S, step)
    BY <1>1, <1>3, LookAtTyped DEF Steps
  <1>5. PICK f : Runs(n, S, s, step, f)
    BY <1>1, <1>4, Recursion
  <1>6. f \in [0..n -> S] /\ f[0] = s
    BY <1>5 DEF Runs
  <1>7. ASSUME NEW i \in 1..n PROVE f[i] = LookAt(f[i - 1], o, i)
    <2>1. f[i - 1] \in S /\ f[i] = step[i][f[i - 1]]
      BY <1>5 DEF Runs
    <2>2. QED
      BY <1>3, <2>1
  <1>8. f = [i \in 0..n |-> IF i = 0 THEN s ELSE LookAt(f[i - 1], o, i)]
    <2>1. PICK g : g = [i \in 0..n |-> IF i = 0 THEN s ELSE LookAt(f[i - 1], o, i)]
      OBVIOUS
    <2>2. ASSUME NEW i \in 0..n PROVE f[i] = g[i]
      <3>1. i = 0 \/ (i \in 1..n /\ i # 0)
        OBVIOUS
      <3>2. QED
        BY <1>6, <1>7, <2>1, <3>1
    <2>3. QED
      BY <1>6, <2>1, <2>2
  <1>9. PICK g : /\ g = [i \in 0..n |-> IF i = 0 THEN s ELSE LookAt(g[i - 1], o, i)]
                 /\ Look(s, o) = g[n]
    BY <1>2, <1>8 DEF Look
  <1>10. PICK U : U = {i \in 0..n : g[i] = f[i]}
    OBVIOUS
  <1>11. 0 \in U
    BY <1>6, <1>9, <1>10
  <1>12. ASSUME NEW k \in 1..n, k - 1 \in U PROVE k \in U
    <2>1. g[k - 1] = f[k - 1] /\ k \in 0..n /\ k # 0
      BY <1>10, <1>12
    <2>2. g[k] = LookAt(g[k - 1], o, k)
      BY <1>9, <2>1
    <2>3. QED
      BY <1>7, <1>10, <2>1, <2>2
  <1>13. \A k \in 0..n : k \in U
    BY ONLY n \in Nat, <1>11, <1>12, Along
  <1>14. Look(s, o) = f[n]
    BY <1>9, <1>10, <1>13
  <1>15. Looks(s, o, n, f)
    BY <1>1, <1>6, <1>7 DEF Looks
  <1>16. QED
    BY <1>14, <1>15

\* The letters are looked for one after the other.
LooksForAll(argv, n, f) ==
    /\ f \in [0..21 -> OptionStates(n)] /\ f[0] = [opts |-> OptsTable, words |-> argv]
    /\ \A k \in 1..21 : f[k] = Look(f[k - 1], OptionLetters[k])

LEMMA LookForAllThere ==
    ASSUME NEW argv \in Seq(CliWord)
    PROVE  \E f : LooksForAll(argv, Len(argv), f) /\ LookForAll(argv) = f[21]
  <1>1. PICK n \in Nat : n = Len(argv) /\ argv \in [1..n -> CliWord]
    OBVIOUS
  <1>2. PICK S : S = OptionStates(n)
    OBVIOUS
  <1>3. PICK base \in S : base = [opts |-> OptsTable, words |-> argv]
    <2>1. argv \in [1..n -> LineWord]
      BY <1>1 DEF LineWord
    <2>2. OptsTable \in [OptionLetter -> OptionValue]
      BY DEF OptsTable, OptionLetter, OptionValue
    <2>3. [opts |-> OptsTable, words |-> argv] \in S
      BY <1>2, <2>1, <2>2 DEF OptionStates
    <2>4. QED
      BY <2>3
  <1>4. ASSUME NEW k \in 1..21, NEW t \in S PROVE Look(t, OptionLetters[k]) \in S
    <2>1. OptionLetters[k] \in OptionLetter /\ t \in OptionStates(n)
      BY <1>2, TheLetters
    <2>2. PICK f : Looks(t, OptionLetters[k], n, f) /\ Look(t, OptionLetters[k]) = f[n]
      BY <2>1, LookThere
    <2>3. QED
      BY <1>2, <2>2 DEF Looks
  <1>5. PICK step : step = [k \in 1..21 |-> [t \in S |-> Look(t, OptionLetters[k])]]
    OBVIOUS
  <1>6. Steps(21, S, step)
    BY <1>4, <1>5 DEF Steps
  <1>7. PICK f : Runs(21, S, base, step, f)
    BY <1>6, Recursion
  <1>8. f \in [0..21 -> S] /\ f[0] = base
    BY <1>7 DEF Runs
  <1>9. ASSUME NEW k \in 1..21 PROVE f[k] = Look(f[k - 1], OptionLetters[k])
    <2>1. f[k - 1] \in S /\ f[k] = step[k][f[k - 1]]
      BY <1>7 DEF Runs
    <2>2. QED
      BY <1>5, <2>1
  <1>10. f = [k \in 0..21 |-> IF k = 0 THEN base ELSE Look(f[k - 1], OptionLetters[k])]
    <2>1. PICK g : g = [k \in 0..21 |-> IF k = 0 THEN base ELSE Look(f[k - 1], OptionLetters[k])]
      OBVIOUS
    <2>2. ASSUME NEW k \in 0..21 PROVE f[k] = g[k]
      <3>1. k = 0 \/ (k \in 1..21 /\ k # 0)
        OBVIOUS
      <3>2. QED
        BY <1>8, <1>9, <2>1, <3>1
    <2>3. QED
      BY <1>8, <2>1, <2>2
  <1>11. PICK g : /\ g = [k \in 0..21 |-> IF k = 0 THEN base
                                          ELSE Look(g[k - 1], OptionLetters[k])]
                  /\ LookForAll(argv) = g[21]
    <2>1. Len(OptionLetters) = 21
      BY TheLetters
    <2>2. QED
      BY <1>3, <1>10, <2>1 DEF LookForAll
  <1>12. PICK U : U = {k \in 0..21 : g[k] = f[k]}
    OBVIOUS
  <1>13. 0 \in U
    BY <1>8, <1>11, <1>12
  <1>14. ASSUME NEW k \in 1..21, k - 1 \in U PROVE k \in U
    <2>1. g[k - 1] = f[k - 1] /\ k \in 0..21 /\ k # 0
      BY <1>12, <1>14
    <2>2. g[k] = Look(g[k - 1], OptionLetters[k])
      BY <1>11, <2>1
    <2>3. QED
      BY <1>9, <1>12, <2>1, <2>2
  <1>15. \A k \in 0..21 : k \in U
    BY ONLY <1>13, <1>14, Along
  <1>16. LookForAll(argv) = f[21]
    BY <1>11, <1>12, <1>15
  <1>17. LooksForAll(argv, n, f)
    BY <1>2, <1>3, <1>8, <1>9 DEF LooksForAll
  <1>18. QED
    BY <1>1, <1>16, <1>17

\* What is left of the line is words of it.
LEMMA RestOfLine ==
    ASSUME NEW argv \in Seq(CliWord)
    PROVE  GetCLIOpts(argv).rest \in Seq(LineWord)
  <1>1. PICK f : LooksForAll(argv, Len(argv), f) /\ LookForAll(argv) = f[21]
    BY LookForAllThere
  <1>2. PICK n \in Nat : n = Len(argv)
    OBVIOUS
  <1>3. LookForAll(argv).words \in [1..n -> LineWord]
    BY <1>1, <1>2 DEF LooksForAll, OptionStates
  <1>4. LookForAll(argv).words \in Seq(LineWord)
    BY <1>3
  <1>5. \A positions : ThoseAt(LookForAll(argv).words, positions) \in Seq(LineWord)
    BY <1>4, PickedThere
  <1>6. QED
    BY <1>5 DEF GetCLIOpts

----------------------------------------------------------------------------
(* The tables of commands and of their handlers. *)

\* A command names its arguments in order, no more than it takes.
Fits(c) ==
    /\ Len(c.names) \in Nat /\ DOMAIN c.names = 1..Len(c.names)
    /\ DOMAIN c.patterns = 1..Len(c.names) /\ c.max \in Nat /\ Len(c.names) <= c.max

Sized(c, min, n) == Fits(c) /\ c.min = min /\ Len(c.names) = n

CommandsOf(min, max, n) == \A items : DOMAIN items = 1..n => Sized(Command(min, max, items), min, n)

LEMMA ArgumentsNamed == \A min, max, n \in Nat : n <= max => CommandsOf(min, max, n)
  <1>1. SUFFICES ASSUME NEW min \in Nat, NEW max \in Nat, NEW n \in Nat, n <= max,
                        NEW items, DOMAIN items = 1..n
                 PROVE  Sized(Command(min, max, items), min, n)
    BY DEF CommandsOf
  <1>2. PICK names : names = [i \in 1..n |-> items[i][1]]
    OBVIOUS
  <1>3. Len(names) = n /\ DOMAIN names = 1..n
    <2>1. names \in Seq({items[i][1] : i \in 1..n})
      BY <1>2
    <2>2. DOMAIN names = 1..n /\ DOMAIN names = 1..Len(names) /\ Len(names) \in Nat
      BY <1>2, <2>1
    <2>3. QED
      BY <2>2
  <1>4. /\ Command(min, max, items).names = names /\ Command(min, max, items).max = max
        /\ Command(min, max, items).min = min
        /\ DOMAIN Command(min, max, items).patterns = 1..n
    BY <1>1, <1>2 DEF Command
  <1>5. QED
    BY <1>1, <1>3, <1>4 DEF Fits, Sized

\* Every command, by the number of its arguments.
LEMMA CommandsSized ==
    /\ /\ Sized(args_docs, 0, 1) /\ Sized(args_help, 0, 1)
    /\ Sized(args_make_keychain, 0, 1)
    /\ /\ Sized(args_balance, 1, 1) /\ Sized(args_convert_address, 1, 1)
    /\ Sized(args_faucet, 1, 1) /\ Sized(args_get_address, 1, 1)
    /\ Sized(args_get_blockchain_record, 1, 1) /\ Sized(args_get_confirmations, 1, 1)
    /\ Sized(args_get_namespace_blockchain_record, 1, 1)
    /\ Sized(args_get_payment_key, 1, 1) /\ Sized(args_get_stacks_wallet_key, 1, 1)
    /\ Sized(args_get_zonefile, 1, 1) /\ Sized(args_lookup, 1, 1)
    /\ Sized(args_names, 1, 1) /\ Sized(args_price, 1, 1)
    /\ Sized(args_price_namespace, 1, 1) /\ Sized(args_stacking_status, 1, 1)
    /\ Sized(args_whois, 1, 1) /\ Sized(args_zonefile_push, 1, 1)
    /\ /\ Sized(args_decrypt_keychain, 1, 2) /\ Sized(args_encrypt_keychain, 1, 2)
    /\ Sized(args_get_blockchain_history, 1, 2) /\ Sized(args_get_owner_keys, 1, 2)
    /\ /\ Sized(args_announce, 2, 2) /\ Sized(args_get_account_history, 2, 2)
    /\ Sized(args_get_account_at, 2, 2) /\ Sized(args_namespace_ready, 2, 2)
    /\ Sized(args_profile_sign, 2, 2) /\ Sized(args_profile_verify, 2, 2)
    /\ /\ Sized(args_gaia_listfiles, 2, 2)
    /\ /\ Sized(args_authenticator, 2, 4)
    /\ /\ Sized(args_get_app_keys, 3, 3) /\ Sized(args_namespace_preorder, 3, 3)
    /\ Sized(args_revoke, 3, 3) /\ Sized(args_send_btc, 3, 3)
    /\ Sized(args_tx_preorder, 3, 3) /\ Sized(args_get_did_configuration, 3, 3)
    /\ /\ Sized(args_gaia_deletefile, 3, 4) /\ Sized(args_make_zonefile, 3, 4)
    /\ /\ Sized(args_tx_register, 3, 5)
    /\ /\ Sized(args_gaia_getfile, 3, 6) /\ Sized(args_renew, 3, 6)
    /\ /\ Sized(args_can_stack, 4, 4) /\ Sized(args_call_read_only_contract_func, 4, 4)
    /\ Sized(args_profile_store, 4, 4)
    /\ /\ Sized(args_register, 4, 5) /\ Sized(args_register_addr, 4, 5)
    /\ Sized(args_register_subdomain, 4, 5) /\ Sized(args_update, 4, 5)
    /\ /\ Sized(args_gaia_putfile, 4, 6) /\ Sized(args_name_import, 4, 6)
    /\ Sized(args_stack, 4, 6)
    /\ /\ Sized(args_deploy_contract, 5, 5) /\ Sized(args_gaia_dump_bucket, 5, 5)
    /\ Sized(args_gaia_restore_bucket, 5, 5) /\ Sized(args_gaia_sethub, 5, 5)
    /\ Sized(args_transfer, 5, 5)
    /\ /\ Sized(args_send_tokens, 5, 6)
    /\ /\ Sized(args_call_contract_func, 6, 6)
    /\ /\ Sized(args_namespace_reveal, 10, 10)
  <1>1. /\ Sized(args_docs, 0, 1) /\ Sized(args_help, 0, 1)
        /\ Sized(args_make_keychain, 0, 1)
    <2>1. CommandsOf(0, 1, 1)
      BY ArgumentsNamed
    <2>2. QED
      BY <2>1 DEF CommandsOf, args_docs, args_help, args_make_keychain
  <1>2. /\ Sized(args_balance, 1, 1) /\ Sized(args_convert_address, 1, 1)
        /\ Sized(args_faucet, 1, 1) /\ Sized(args_get_address, 1, 1)
        /\ Sized(args_get_blockchain_record, 1, 1)
        /\ Sized(args_get_confirmations, 1, 1)
        /\ Sized(args_get_namespace_blockchain_record, 1, 1)
        /\ Sized(args_get_payment_key, 1, 1) /\ Sized(args_get_stacks_wallet_key, 1, 1)
        /\ Sized(args_get_zonefile, 1, 1) /\ Sized(args_lookup, 1, 1)
        /\ Sized(args_names, 1, 1) /\ Sized(args_price, 1, 1)
        /\ Sized(args_price_namespace, 1, 1) /\ Sized(args_stacking_status, 1, 1)
        /\ Sized(args_whois, 1, 1) /\ Sized(args_zonefile_push, 1, 1)
    <2>1. CommandsOf(1, 1, 1)
      BY ArgumentsNamed
    <2>2. QED
      BY <2>1 DEF CommandsOf, args_balance, args_convert_address, args_faucet, args_get_address,
          args_get_blockchain_record, args_get_confirmations,
          args_get_namespace_blockchain_record, args_get_payment_key,
          args_get_stacks_wallet_key, args_get_zonefile, args_lookup, args_names,
          args_price, args_price_namespace, args_stacking_status, args_whois,
          args_zonefile_push
  <1>3. /\ Sized(args_decrypt_keychain, 1, 2) /\ Sized(args_encrypt_keychain, 1, 2)
        /\ Sized(args_get_blockchain_history, 1, 2) /\ Sized(args_get_owner_keys, 1, 2)
    <2>1. CommandsOf(1, 2, 2)
      BY ArgumentsNamed
    <2>2. QED
      BY <2>1 DEF CommandsOf, args_decrypt_keychain, args_encrypt_keychain, args_get_blockchain_history,
          args_get_owner_keys
  <1>4. /\ Sized(args_announce, 2, 2) /\ Sized(args_get_account_history, 2, 2)
        /\ Sized(args_get_account_at, 2, 2) /\ Sized(args_namespace_ready, 2, 2)
        /\ Sized(args_profile_sign, 2, 2) /\ Sized(args_profile_verify, 2, 2)
    <2>1. CommandsOf(2, 2, 2)
      BY ArgumentsNamed
    <2>2. QED
      BY <2>1 DEF CommandsOf, args_announce, args_get_account_history, args_get_account_at,
          args_namespace_ready, args_profile_sign, args_profile_verify
  <1>5. /\ Sized(args_gaia_listfiles, 2, 2)
    <2>1. CommandsOf(2, 3, 2)
      BY ArgumentsNamed
    <2>2. QED
      BY <2>1 DEF CommandsOf, args_gaia_listfiles
  <1>6. /\ Sized(args_authenticator, 2, 4)
    <2>1. CommandsOf(2, 4, 4)
      BY ArgumentsNamed
    <2>2. QED
      BY <2>1 DEF CommandsOf, args_authenticator
  <1>7. /\ Sized(args_get_app_keys, 3, 3) /\ Sized(args_namespace_preorder, 3, 3)
        /\ Sized(args_revoke, 3, 3) /\ Sized(args_send_btc, 3, 3)
        /\ Sized(args_tx_preorder, 3, 3) /\ Sized(args_get_did_configuration, 3, 3)
    <2>1. CommandsOf(3, 3, 3)
      BY ArgumentsNamed
    <2>2. QED
      BY <2>1 DEF CommandsOf, args_get_app_keys, args_namespace_preorder, args_revoke, args_send_btc,
          args_tx_preorder, args_get_did_configuration
  <1>8. /\ Sized(args_gaia_deletefile, 3, 4) /\ Sized(args_make_zonefile, 3, 4)
    <2>1. CommandsOf(3, 4, 4)
      BY ArgumentsNamed
    <2>2. QED
      BY <2>1 DEF CommandsOf, args_gaia_deletefile, args_make_zonefile
  <1>9. /\ Sized(args_tx_register, 3, 5)
    <2>1. CommandsOf(3, 5, 5)
      BY ArgumentsNamed
    <2>2. QED
      BY <2>1 DEF CommandsOf, args_tx_register
  <1>10. /\ Sized(args_gaia_getfile, 3, 6) /\ Sized(args_renew, 3, 6)
    <2>1. CommandsOf(3, 6, 6)
      BY ArgumentsNamed
    <2>2. QED
      BY <2>1 DEF CommandsOf, args_gaia_getfile, args_renew
  <1>11. /\ Sized(args_can_stack, 4, 4) /\ Sized(args_call_read_only_contract_func, 4, 4)
        /\ Sized(args_profile_store, 4, 4)
    <2>1. CommandsOf(4, 4, 4)
      BY ArgumentsNamed
    <2>2. QED
      BY <2>1 DEF CommandsOf, args_can_stack, args_call_read_only_contract_func, args_profile_store
  <1>12. /\ Sized(args_register, 4, 5) /\ Sized(args_register_addr, 4, 5)
        /\ Sized(args_register_subdomain, 4, 5) /\ Sized(args_update, 4, 5)
    <2>1. CommandsOf(4, 5, 5)
      BY ArgumentsNamed
    <2>2. QED
      BY <2>1 DEF CommandsOf, args_register, args_register_addr, args_register_subdomain, args_update
  <1>13. /\ Sized(args_gaia_putfile, 4, 6) /\ Sized(args_name_import, 4, 6)
        /\ Sized(args_stack, 4, 6)
    <2>1. CommandsOf(4, 6, 6)
      BY ArgumentsNamed
    <2>2. QED
      BY <2>1 DEF CommandsOf, args_gaia_putfile, args_name_import, args_stack
  <1>14. /\ Sized(args_deploy_contract, 5, 5) /\ Sized(args_gaia_dump_bucket, 5, 5)
        /\ Sized(args_gaia_restore_bucket, 5, 5) /\ Sized(args_gaia_sethub, 5, 5)
        /\ Sized(args_transfer, 5, 5)
    <2>1. CommandsOf(5, 5, 5)
      BY ArgumentsNamed
    <2>2. QED
      BY <2>1 DEF CommandsOf, args_deploy_contract, args_gaia_dump_bucket, args_gaia_restore_bucket,
          args_gaia_sethub, args_transfer
  <1>15. /\ Sized(args_send_tokens, 5, 6)
    <2>1. CommandsOf(5, 6, 6)
      BY ArgumentsNamed
    <2>2. QED
      BY <2>1 DEF CommandsOf, args_send_tokens
  <1>16. /\ Sized(args_call_contract_func, 6, 6)
    <2>1. CommandsOf(6, 6, 6)
      BY ArgumentsNamed
    <2>2. QED
      BY <2>1 DEF CommandsOf, args_call_contract_func
  <1>17. /\ Sized(args_namespace_reveal, 10, 10)
    <2>1. CommandsOf(10, 10, 10)
      BY ArgumentsNamed
    <2>2. QED
      BY <2>1 DEF CommandsOf, args_namespace_reveal
  <1>18. QED
    BY <1>1, <1>2, <1>3, <1>4, <1>5, <1>6, <1>7, <1>8, <1>9, <1>10, <1>11, <1>12, <1>13,
       <1>14, <1>15, <1>16, <1>17

LEMMA CommandsFit == \A c \in DOMAIN CLI_ARGS : Fits(CLI_ARGS[c])
  <1>1. /\ Fits(args_announce) /\ Fits(args_authenticator) /\ Fits(args_balance)
        /\ Fits(args_can_stack) /\ Fits(args_call_contract_func)
        /\ Fits(args_call_read_only_contract_func) /\ Fits(args_convert_address)
        /\ Fits(args_decrypt_keychain) /\ Fits(args_deploy_contract) /\ Fits(args_docs)
        /\ Fits(args_encrypt_keychain) /\ Fits(args_faucet)
        /\ Fits(args_gaia_dump_bucket) /\ Fits(args_gaia_getfile)
        /\ Fits(args_gaia_putfile) /\ Fits(args_gaia_deletefile)
        /\ Fits(args_gaia_listfiles) /\ Fits(args_gaia_restore_bucket)
        /\ Fits(args_gaia_sethub) /\ Fits(args_get_account_history)
        /\ Fits(args_get_account_at) /\ Fits(args_get_address)
        /\ Fits(args_get_blockchain_record) /\ Fits(args_get_blockchain_history)
        /\ Fits(args_get_confirmations) /\ Fits(args_get_namespace_blockchain_record)
        /\ Fits(args_get_app_keys) /\ Fits(args_get_owner_keys)
        /\ Fits(args_get_payment_key) /\ Fits(args_get_stacks_wallet_key)
        /\ Fits(args_get_zonefile) /\ Fits(args_help) /\ Fits(args_lookup)
        /\ Fits(args_names) /\ Fits(args_make_keychain) /\ Fits(args_make_zonefile)
        /\ Fits(args_name_import) /\ Fits(args_namespace_preorder)
        /\ Fits(args_namespace_reveal) /\ Fits(args_namespace_ready) /\ Fits(args_price)
        /\ Fits(args_price_namespace) /\ Fits(args_profile_sign)
        /\ Fits(args_profile_store) /\ Fits(args_profile_verify) /\ Fits(args_renew)
        /\ Fits(args_register) /\ Fits(args_register_addr)
        /\ Fits(args_register_subdomain) /\ Fits(args_revoke) /\ Fits(args_send_btc)
        /\ Fits(args_send_tokens) /\ Fits(args_stack) /\ Fits(args_stacking_status)
        /\ Fits(args_transfer) /\ Fits(args_tx_preorder) /\ Fits(args_tx_register)
        /\ Fits(args_update) /\ Fits(args_whois) /\ Fits(args_zonefile_push)
        /\ Fits(args_get_did_configuration)
    BY CommandsSized DEF Sized
  <1>2. QED
    BY <1>1 DEF CLI_ARGS

\* No handler takes more for given than its command always has.
Serves(c, h) ==
    h.given \in Nat /\ c.min \in Nat /\ h.given <= c.min /\ h.given <= Len(c.names)

LEMMA HandlersFit ==
    \A c \in DOMAIN COMMANDS : c \in DOMAIN CLI_ARGS /\ Serves(CLI_ARGS[c], COMMANDS[c])
  <1>1. /\ authDaemon.given = 2 /\ balance.given = 1 /\ canStack.given = 4
        /\ contractFunctionCall.given = 6 /\ readOnlyContractFunctionCall.given = 4
        /\ addressConvert.given = 1 /\ decryptMnemonic.given = 1
        /\ contractDeploy.given = 5 /\ printDocs.given = 0 /\ encryptMnemonic.given = 1
        /\ faucetCall.given = 1 /\ gaiaDeleteFile.given = 3 /\ gaiaDumpBucket.given = 5
        /\ gaiaGetFile.given = 3 /\ gaiaListFiles.given = 2 /\ gaiaPutFile.given = 4
        /\ gaiaRestoreBucket.given = 5 /\ gaiaSetHub.given = 5
        /\ getAccountHistory.given = 1 /\ getKeyAddress.given = 1
        /\ getAppKeys.given = 3 /\ getOwnerKeys.given = 1 /\ getPaymentKey.given = 1
        /\ getStacksWalletKey.given = 1 /\ makeKeychain.given = 0
        /\ profileSign.given = 2 /\ profileStore.given = 4 /\ profileVerify.given = 2
        /\ sendTokens.given = 5 /\ stack.given = 4 /\ stackingStatus.given = 1
    BY DEF Reads, authDaemon, balance, canStack, contractFunctionCall,
           readOnlyContractFunctionCall, addressConvert, decryptMnemonic,
           contractDeploy, printDocs, encryptMnemonic, faucetCall, gaiaDeleteFile,
           gaiaDumpBucket, gaiaGetFile, gaiaListFiles, gaiaPutFile, gaiaRestoreBucket,
           gaiaSetHub, getAccountHistory, getKeyAddress, getAppKeys, getOwnerKeys,
           getPaymentKey, getStacksWalletKey, makeKeychain, profileSign, profileStore,
           profileVerify, sendTokens, stack, stackingStatus
  <1>2. \A c, h, m, n, g : /\ Sized(c, m, n) /\ h.given = g /\ g \in Nat /\ m \in Nat /\ n \in Nat
                             /\ g <= m /\ g <= n
                             => Serves(c, h)
    BY DEF Sized, Serves
  <1>3. /\ Serves(args_authenticator, authDaemon) /\ Serves(args_balance, balance)
        /\ Serves(args_can_stack, canStack)
        /\ Serves(args_call_contract_func, contractFunctionCall)
        /\ Serves(args_call_read_only_contract_func, readOnlyContractFunctionCall)
        /\ Serves(args_convert_address, addressConvert)
        /\ Serves(args_decrypt_keychain, decryptMnemonic)
        /\ Serves(args_deploy_contract, contractDeploy) /\ Serves(args_docs, printDocs)
        /\ Serves(args_encrypt_keychain, encryptMnemonic)
        /\ Serves(args_faucet, faucetCall)
        /\ Serves(args_gaia_deletefile, gaiaDeleteFile)
        /\ Serves(args_gaia_dump_bucket, gaiaDumpBucket)
        /\ Serves(args_gaia_getfile, gaiaGetFile)
        /\ Serves(args_gaia_listfiles, gaiaListFiles)
        /\ Serves(args_gaia_putfile, gaiaPutFile)
        /\ Serves(args_gaia_restore_bucket, gaiaRestoreBucket)
        /\ Serves(args_gaia_sethub, gaiaSetHub)
        /\ Serves(args_get_account_history, getAccountHistory)
        /\ Serves(args_get_address, getKeyAddress)
        /\ Serves(args_get_app_keys, getAppKeys)
        /\ Serves(args_get_owner_keys, getOwnerKeys)
        /\ Serves(args_get_payment_key, getPaymentKey)
        /\ Serves(args_get_stacks_wallet_key, getStacksWalletKey)
        /\ Serves(args_make_keychain, makeKeychain)
        /\ Serves(args_profile_sign, profileSign)
        /\ Serves(args_profile_store, profileStore)
        /\ Serves(args_profile_verify, profileVerify)
        /\ Serves(args_send_tokens, sendTokens) /\ Serves(args_stack, stack)
        /\ Serves(args_stacking_status, stackingStatus)
    BY <1>1, <1>2, CommandsSized
  <1>4. DOMAIN COMMANDS \subseteq DOMAIN CLI_ARGS
    BY DEF COMMANDS, CLI_ARGS
  <1>5. \A c \in DOMAIN COMMANDS : Serves(CLI_ARGS[c], COMMANDS[c])
    BY <1>3 DEF COMMANDS, CLI_ARGS
  <1>6. QED
    BY <1>4, <1>5

----------------------------------------------------------------------------
(* Reading the arguments from left to right. *)

Pair(args, j) == [name |-> args[j].name, value |-> args[j + 1]]

Errors == {"none", "duplicate argument", "no such argument", "no value for argument"}

\* What is known after some of the words.
ScanStates(args, T) ==
    [found: SUBSET {Pair(args, j) : j \in DOMAIN args}, ordered: Seq(T),
     skip: Nat, error: Errors]

LEMMA ScanState ==
    ASSUME NEW T, NEW args, NEW found \in SUBSET {Pair(args, j) : j \in DOMAIN args},
           NEW ordered \in Seq(T), NEW skip \in Nat, NEW error \in Errors
    PROVE  [found |-> found, ordered |-> ordered, skip |-> skip, error |-> error]
             \in ScanStates(args, T)
  BY DEF ScanStates

LEMMA ScanWordTyped ==
    ASSUME NEW T, NEW args \in Seq(T), NEW names, NEW s \in ScanStates(args, T),
           NEW i \in DOMAIN args
    PROVE  ScanWord(s, i, args, names) \in ScanStates(args, T)
  <1>1. PICK found \in SUBSET {Pair(args, j) : j \in DOMAIN args}, ordered \in Seq(T),
             skip \in Nat, error \in Errors :
            s = [found |-> found, ordered |-> ordered, skip |-> skip, error |-> error]
    BY DEF ScanStates
  <1>2. PICK more \in Seq(T) : more = Append(ordered, args[i])
    <2>1. args[i] \in T
      OBVIOUS
    <2>2. Append(ordered, args[i]) \in Seq(T)
      BY <2>1
    <2>3. QED
      BY <2>2
  <1>3. PICK all \in SUBSET {Pair(args, j) : j \in DOMAIN args} : all = found \cup {Pair(args, i)}
    BY <1>1
  <1>4. PICK next \in Nat : next = i + 1
    OBVIOUS
  <1>5. ASSUME NEW e \in Errors
        PROVE  [s EXCEPT !.error = e]
                 = [found |-> found, ordered |-> ordered, skip |-> skip, error |-> e]
    BY <1>1
  <1>6. [s EXCEPT !.ordered = more]
          = [found |-> found, ordered |-> more, skip |-> skip, error |-> error]
    BY <1>1
  <1>7. \/ ScanWord(s, i, args, names) = s
        \/ ScanWord(s, i, args, names) = [s EXCEPT !.ordered = more]
        \/ \E e \in Errors : ScanWord(s, i, args, names) = [s EXCEPT !.error = e]
        \/ ScanWord(s, i, args, names)
             = [found |-> all, ordered |-> ordered, skip |-> next, error |-> error]
    BY <1>1, <1>2, <1>3, <1>4 DEF ScanWord, Pair, Errors
  <1>8. CASE ScanWord(s, i, args, names) = [s EXCEPT !.ordered = more]
    <2>1. ScanWord(s, i, args, names)
            = [found |-> found, ordered |-> more, skip |-> skip, error |-> error]
      BY <1>6, <1>8
    <2>2. QED
      BY <2>1, ScanState
  <1>9. CASE \E e \in Errors : ScanWord(s, i, args, names) = [s EXCEPT !.error = e]
    <2>1. PICK e \in Errors : ScanWord(s, i, args, names)
             = [found |-> found, ordered |-> ordered, skip |-> skip, error |-> e]
      BY <1>5, <1>9
    <2>2. QED
      BY <2>1, ScanState
  <1>10. CASE ScanWord(s, i, args, names)
                = [found |-> all, ordered |-> ordered, skip |-> next, error |-> error]
    BY <1>10, ScanState
  <1>11. QED
    BY <1>7, <1>8, <1>9, <1>10

\* The arguments are read word by word.
Scans(args, names, T, f) ==
    /\ f \in [0..Len(args) -> ScanStates(args, T)]
    /\ f[0] = [found |-> {}, ordered |-> <<>>, skip |-> 0, error |-> "none"]
    /\ \A i \in 1..Len(args) : f[i] = ScanWord(f[i - 1], i, args, names)

LEMMA ScanThere ==
    ASSUME NEW T, NEW args \in Seq(T), NEW names
    PROVE  \E f : Scans(args, names, T, f) /\ Scan(args, names) = f[Len(args)]
  <1>1. PICK n \in Nat : n = Len(args) /\ DOMAIN args = 1..n
    OBVIOUS
  <1>2. PICK S : S = ScanStates(args, T)
    OBVIOUS
  <1>3. PICK base \in S : base = [found |-> {}, ordered |-> <<>>, skip |-> 0, error |-> "none"]
    <2>1. <<>> \in Seq(T)
      OBVIOUS
    <2>2. PICK ordered \in Seq(T), error \in Errors : ordered = <<>> /\ error = "none"
      BY <2>1 DEF Errors
    <2>3. [found |-> {}, ordered |-> ordered, skip |-> 0, error |-> error] \in S
      BY <1>2, ScanState
    <2>4. QED
      BY <2>2, <2>3
  <1>4. PICK step : step = [i \in 1..n |-> [t \in S |-> ScanWord(t, i, args, names)]]
    OBVIOUS
  <1>5. Steps(n, S, step)
    BY <1>1, <1>2, <1>4, ScanWordTyped DEF Steps
  <1>6. PICK f : Runs(n, S, base, step, f)
    BY <1>5, Recursion
  <1>7. f \in [0..n -> S] /\ f[0] = base
    BY <1>6 DEF Runs
  <1>8. ASSUME NEW i \in 1..n PROVE f[i] = ScanWord(f[i - 1], i, args, names)
    <2>1. f[i - 1] \in S /\ f[i] = step[i][f[i - 1]]
      BY <1>6 DEF Runs
    <2>2. QED
      BY <1>4, <2>1
  <1>9. f = [i \in 0..n |-> IF i = 0 THEN base ELSE ScanWord(f[i - 1], i, args, names)]
    <2>1. PICK g : g = [i \in 0..n |-> IF i = 0 THEN base ELSE ScanWord(f[i - 1], i, args, names)]
      OBVIOUS
    <2>2. ASSUME NEW i \in 0..n PROVE f[i] = g[i]
      <3>1. i = 0 \/ (i \in 1..n /\ i # 0)
        OBVIOUS
      <3>2. QED
        BY <1>7, <1>8, <2>1, <3>1
    <2>3. QED
      BY <1>7, <2>1, <2>2
  <1>10. PICK g : /\ g = [i \in 0..n |-> IF i = 0 THEN base
                                         ELSE ScanWord(g[i - 1], i, args, names)]
                  /\ Scan(args, names) = g[n]
    BY <1>1, <1>3, <1>9 DEF Scan
  <1>11. PICK U : U = {i \in 0..n : g[i] = f[i]}
    OBVIOUS
  <1>12. 0 \in U
    BY <1>7, <1>10, <1>11
  <1>13. ASSUME NEW k \in 1..n, k - 1 \in U PROVE k \in U
    <2>1. g[k - 1] = f[k - 1] /\ k \in 0..n /\ k # 0
      BY <1>11, <1>13
    <2>2. g[k] = ScanWord(g[k - 1], k, args, names)
      BY <1>10, <2>1
    <2>3. QED
      BY <1>8, <1>11, <2>1, <2>2
  <1>14. \A k \in 0..n : k \in U
    BY ONLY n \in Nat, <1>12, <1>13, Along
  <1>15. Scan(args, names) = f[n]
    BY <1>10, <1>11, <1>14
  <1>16. Scans(args, names, T, f)
    BY <1>1, <1>2, <1>3, <1>7, <1>8 DEF Scans
  <1>17. QED
    BY <1>1, <1>15, <1>16

\* Arguments that are accepted have an item for each name.
LEMMA ArgumentForEachName ==
    ASSUME NEW T, NEW args \in Seq(T), NEW names, Len(names) \in Nat,
           GetCommandArgs(names, args).status = "ok"
    PROVE  GetCommandArgs(names, args).arguments
             = [k \in 1..Len(names) |->
                   Item(Scan(args, names).found, Scan(args, names).ordered, names, k)]
  <1>1. PICK f : Scans(args, names, T, f) /\ Scan(args, names) = f[Len(args)]
    BY ScanThere
  <1>2. Scan(args, names).ordered \in Seq(T)
    <2>1. Len(args) \in 0..Len(args)
      OBVIOUS
    <2>2. QED
      BY <1>1, <2>1 DEF Scans, ScanStates
  <1>3. GetCommandArgs(names, args)
          = [status |-> "ok",
             arguments |-> MergeAll(Scan(args, names).found, Scan(args, names).ordered, names)]
    BY DEF GetCommandArgs, Wrong
  <1>4. GetCommandArgs(names, args).arguments
          = MergeAll(Scan(args, names).found, Scan(args, names).ordered, names)
    BY <1>3
  <1>5. QED
    BY <1>2, <1>4, MergedWords

(* A handler that is called gets every argument that it takes for given:     *)
(* the merged arguments have an item for each name of the command's schema,  *)
(* checkArgs lets an item be missing only above the schema's minimum, and    *)
(* no handler takes more for given than that.                                *)
THEOREM HandlersServed == Lines => HandlersGetTheirArguments
  <1>1. SUFFICES ASSUME input.kind = "line", input.argv \in Seq(CliWord),
                        CLIMain(input.argv).status = "ok",
                        CLIMain(input.argv).command \in DOMAIN COMMANDS,
                        NEW i \in 1..COMMANDS[CLIMain(input.argv).command].given
                 PROVE  CLIMain(input.argv).args[i] # Null
    BY DEF Lines, HandlersGetTheirArguments
  <1>2. PICK rest \in Seq(LineWord) : rest = GetCLIOpts(input.argv).rest
    BY <1>1, RestOfLine
  <1>3. PICK checked, opts : checked = CheckArgs(rest) /\ opts = GetCLIOpts(input.argv).opts
    OBVIOUS
  <1>4. /\ checked.status # "error" /\ CLIMain(input.argv).args = checked.args
        /\ CLIMain(input.argv).command = checked.command
    <2>1. CLIMain(input.argv)
            = IF checked.status = "error" THEN checked
              ELSE IF Throws(opts) THEN Wrong("thrown")
              ELSE [status |-> "ok", command |-> checked.command, args |-> checked.args,
                    settings |-> Settings(opts),
                    handled |-> checked.command \in DOMAIN COMMANDS \cup {"help"}]
      BY <1>2, <1>3 DEF CLIMain
    <2>2. Wrong("thrown").status # "ok"
      BY DEF Wrong
    <2>3. checked.status # "error" /\ ~Throws(opts)
      BY <1>1, <2>1, <2>2
    <2>4. PICK settings, handled :
             CLIMain(input.argv) = [status |-> "ok", command |-> checked.command,
                                    args |-> checked.args, settings |-> settings,
                                    handled |-> handled]
      BY <2>1, <2>3
    <2>5. QED
      BY <2>3, <2>4
  <1>5. PICK name : name = Sample(rest[1])
    OBVIOUS
  <1>6. PICK parsed : parsed = GetCommandArgs(CLI_ARGS[name].names, Tail(rest))
    OBVIOUS
  <1>7. /\ rest # <<>> /\ name \in DOMAIN CLI_ARGS /\ parsed.status # "error"
        /\ Valid(CLI_ARGS[name], parsed.arguments)
        /\ checked.command = name /\ checked.args = parsed.arguments
    <2>1. \A error : Wrong(error).status = "error"
      BY DEF Wrong
    <2>2. checked = IF rest = <<>> THEN Wrong("No command given")
                    ELSE IF name \notin DOMAIN CLI_ARGS THEN Wrong("Unrecognized command")
                    ELSE IF parsed.status = "error" THEN parsed
                    ELSE IF Valid(CLI_ARGS[name], parsed.arguments)
                    THEN [status |-> "ok", command |-> name, args |-> parsed.arguments]
                    ELSE Wrong("Invalid command arguments")
      BY <1>3, <1>5, <1>6 DEF CheckArgs
    <2>3. /\ rest # <<>> /\ name \in DOMAIN CLI_ARGS /\ parsed.status # "error"
          /\ Valid(CLI_ARGS[name], parsed.arguments)
      BY <1>4, <2>1, <2>2
    <2>4. checked = [status |-> "ok", command |-> name, args |-> parsed.arguments]
      BY <2>2, <2>3
    <2>5. QED
      BY <2>3, <2>4
  <1>8. parsed.status = "ok" /\ Tail(rest) \in Seq(LineWord)
    <2>1. parsed.status = "ok"
      BY <1>6, <1>7 DEF GetCommandArgs, Wrong
    <2>2. Tail(rest) \in Seq(LineWord)
      BY <1>7
    <2>3. QED
      BY <2>1, <2>2
  <1>9. PICK c : c = CLI_ARGS[name]
    OBVIOUS
  <1>10. Fits(c) /\ Serves(c, COMMANDS[name])
    BY <1>1, <1>4, <1>7, <1>9, CommandsFit, HandlersFit
  <1>11. DOMAIN parsed.arguments = 1..Len(c.names)
    <2>1. PICK names, args : names = c.names /\ args = Tail(rest)
      OBVIOUS
    <2>2. Len(names) \in Nat /\ args \in Seq(LineWord) /\ parsed = GetCommandArgs(names, args)
      BY <1>6, <1>8, <1>9, <1>10, <2>1 DEF Fits
    <2>3. parsed.arguments
             = [k \in 1..Len(names) |->
                   Item(Scan(args, names).found, Scan(args, names).ordered, names, k)]
      BY <1>8, <2>2, ArgumentForEachName
    <2>4. QED
      BY <2>1, <2>3
  <1>12. i \in DOMAIN parsed.arguments /\ i <= c.min /\ i \in Nat /\ c.min \in Nat
    BY <1>1, <1>4, <1>7, <1>10, <1>11 DEF Serves, Fits
  <1>13. parsed.arguments[i] # Null
    BY <1>7, <1>9, <1>12 DEF Valid, MayBeMissing
  <1>14. QED
    BY <1>4, <1>7, <1>13

----------------------------------------------------------------------------
(* The options are what the words say. *)

\* The state after the options at some positions were taken.
Blanked(argv, D) == D \cup {d + 1 : d \in D \cap Valued(argv)}

OptionAt(argv, D, o) == {d \in D : argv[d].letter = o}

TakenAt(argv, D, o) ==
    IF o \in Switches THEN Switch(OptionAt(argv, D, o) # {})
    ELSE IF OptionAt(argv, D, o) = {} THEN Null
    ELSE At(argv, Max(OptionAt(argv, D, o)) + 1)

Taken(argv, D) ==
    [opts |-> [o \in OptionLetter |-> TakenAt(argv, D, o)],
     words |-> Blank(argv, Blanked(argv, D))]

\* The largest of some numbers.
LEMMA MaxIs ==
    ASSUME NEW S, NEW m \in S, S \subseteq Nat, \A x \in S : x <= m
    PROVE  Max(S) = m
  <1>1. \A y \in S : m >= y
    OBVIOUS
  <1>2. ASSUME NEW x \in S, \A y \in S : x >= y PROVE x = m
    BY <1>2
  <1>3. QED
    BY <1>1, <1>2 DEF Max

\* Where the options are, and what is at their positions.
LEMMA OptionsThere ==
    ASSUME NEW argv \in Seq(CliWord)
    PROVE  /\ OptionsIn(argv) \subseteq DOMAIN argv /\ DOMAIN argv \subseteq Nat \ {0}
           /\ \A i \in OptionsIn(argv) : argv[i] = Option(argv[i].letter)
           /\ \A i \in OptionsIn(argv) : argv[i].letter \in OptionLetter
           /\ \A i \in OptionsIn(argv) : i \notin Marks(argv)
           /\ \A i \in BeforeMarks(argv) : \A o \in OptionLetter :
                 argv[i] = Option(o) => i \in OptionsIn(argv) /\ argv[i].letter = o
           /\ \A i \in DOMAIN argv : argv[i] # Empty /\ argv[i] # Null
  <1>1. OptionsIn(argv) \subseteq BeforeMarks(argv) /\ BeforeMarks(argv) \subseteq DOMAIN argv
    BY DEF OptionsIn, BeforeMarks
  <1>2. DOMAIN argv \subseteq Nat \ {0}
    OBVIOUS
  <1>3. ASSUME NEW i \in DOMAIN argv
        PROVE  /\ argv[i].is = "option" => argv[i] = Option(argv[i].letter)
               /\ argv[i].is = "option" => argv[i] # DashDash
               /\ argv[i] # Empty /\ argv[i] # Null
    <2>1. argv[i] \in CliWord
      BY <1>3
    <2>2. QED
      BY <2>1 DEF CliWord, Option, DashDash, Empty, Null
  <1>4. ASSUME NEW i \in OptionsIn(argv)
        PROVE  /\ argv[i] = Option(argv[i].letter) /\ argv[i].letter \in OptionLetter
               /\ i \notin Marks(argv)
    <2>1. i \in DOMAIN argv /\ argv[i].is = "option"
      BY <1>1, <1>4 DEF OptionsIn
    <2>2. QED
      BY <1>3, <1>4, <2>1 DEF OptionsIn, Marks, OptionLetter
  <1>5. ASSUME NEW i \in BeforeMarks(argv), NEW o \in OptionLetter, argv[i] = Option(o)
        PROVE  i \in OptionsIn(argv) /\ argv[i].letter = o
    BY <1>5 DEF OptionsIn, Option, OptionLetter
  <1>6. QED
    BY <1>1, <1>2, <1>3, <1>4, <1>5

\* What the words are after some options were taken.
LEMMA WordsThen ==
    ASSUME NEW argv \in Seq(CliWord), Ordinary(argv), NEW D \in SUBSET OptionsIn(argv),
           NEW i \in DOMAIN argv
    PROVE  /\ Taken(argv, D).words[i] = IF i \in Blanked(argv, D) THEN Empty ELSE argv[i]
           /\ DOMAIN Taken(argv, D).words = DOMAIN argv
           /\ (Taken(argv, D).words[i] = DashDash) = (i \in Marks(argv))
           /\ i \in OptionsIn(argv) => (i \in Blanked(argv, D)) = (i \in D)
           /\ i \in ValuesOf(argv) =>
                 (i \in Blanked(argv, D)) = (i - 1 \in D \cap Valued(argv))
  <1>1. PICK words : words = Taken(argv, D).words /\ words = Blank(argv, Blanked(argv, D))
    BY DEF Taken
  <1>2. words[i] = (IF i \in Blanked(argv, D) THEN Empty ELSE argv[i]) /\ DOMAIN words = DOMAIN argv
    BY <1>1 DEF Blank
  <1>3. \A d \in D : d \in Nat /\ d \notin Marks(argv) /\ d \notin ValuesOf(argv)
    BY OptionsThere DEF Ordinary
  <1>4. i \in Nat
    OBVIOUS
  <1>5. ASSUME NEW d \in D \cap Valued(argv), i = d + 1 PROVE i \in ValuesOf(argv)
    BY <1>5 DEF ValuesOf
  <1>6. i \in OptionsIn(argv) => (i \in Blanked(argv, D)) = (i \in D)
    BY <1>5 DEF Ordinary, Blanked
  <1>7. i \in ValuesOf(argv) => (i \in Blanked(argv, D)) = (i - 1 \in D \cap Valued(argv))
    BY <1>3, <1>4 DEF Blanked
  <1>8. i \in Blanked(argv, D) => i \notin Marks(argv)
    BY <1>3, <1>5 DEF Blanked, Ordinary
  <1>9. (words[i] = DashDash) = (i \in Marks(argv))
    <2>1. Empty # DashDash
      BY DEF Empty, DashDash
    <2>2. QED
      BY <1>2, <1>8, <2>1 DEF Marks
  <1>10. QED
    BY <1>1, <1>2, <1>6, <1>7, <1>9

\* One option is taken with its value.
LEMMA TakeOne ==
    ASSUME NEW argv \in Seq(CliWord), Ordinary(argv), NEW D \in SUBSET OptionsIn(argv),
           NEW i \in OptionsIn(argv), i \notin D, \A d \in OptionAt(argv, D, argv[i].letter) : d < i
    PROVE  TakeOption(Taken(argv, D), argv[i].letter, i) = Taken(argv, D \cup {i})
  <1>1. PICK o \in OptionLetter : o = argv[i].letter
    BY OptionsThere
  <1>2. PICK opts, words : /\ opts = Taken(argv, D).opts /\ words = Taken(argv, D).words
                           /\ opts = [p \in OptionLetter |-> TakenAt(argv, D, p)]
                           /\ words = Blank(argv, Blanked(argv, D))
    BY DEF Taken
  <1>3. i \in DOMAIN argv /\ i \in Nat /\ D \subseteq Nat
    BY OptionsThere
  <1>4. ASSUME NEW p \in OptionLetter
        PROVE  OptionAt(argv, D \cup {i}, p) = OptionAt(argv, D, p) \cup (IF p = o THEN {i} ELSE {})
    BY <1>1 DEF OptionAt
  <1>5. ASSUME NEW p \in OptionLetter, p # o
        PROVE  TakenAt(argv, D \cup {i}, p) = TakenAt(argv, D, p)
    <2>1. OptionAt(argv, D \cup {i}, p) = OptionAt(argv, D, p)
      BY <1>4, <1>5
    <2>2. QED
      BY <2>1 DEF TakenAt
  <1>6. ASSUME NEW v, TakenAt(argv, D \cup {i}, o) = v
        PROVE  [opts EXCEPT ![o] = v] = Taken(argv, D \cup {i}).opts
    <2>1. PICK opts2 : opts2 = [p \in OptionLetter |-> TakenAt(argv, D \cup {i}, p)]
      OBVIOUS
    <2>2. [opts EXCEPT ![o] = v] = opts2
      BY <1>1, <1>2, <1>5, <1>6, <2>1
    <2>3. QED
      BY <2>1, <2>2 DEF Taken
  <1>7. ASSUME NEW C, Blanked(argv, D \cup {i}) = Blanked(argv, D) \cup C
        PROVE  Blank(words, C) = Blank(argv, Blanked(argv, D \cup {i}))
    <2>1. PICK B, E : B = Blanked(argv, D) /\ E = Blanked(argv, D \cup {i}) /\ E = B \cup C
      BY <1>7
    <2>2. words = [j \in DOMAIN argv |-> IF j \in B THEN Empty ELSE argv[j]]
      BY <1>2, <2>1 DEF Blank
    <2>3. Blank(words, C) = [j \in DOMAIN argv |-> IF j \in E THEN Empty ELSE argv[j]]
      BY <2>1, <2>2 DEF Blank
    <2>4. QED
      BY <2>1, <2>3 DEF Blank
  <1>8. Taken(argv, D \cup {i}).words = Blank(argv, Blanked(argv, D \cup {i}))
    BY DEF Taken
  <1>9. ASSUME NEW a, NEW b, a = Taken(argv, D \cup {i}).opts, b = Taken(argv, D \cup {i}).words
        PROVE  [opts |-> a, words |-> b] = Taken(argv, D \cup {i})
    BY <1>9 DEF Taken
  <1>10. CASE o \in Switches
    <2>1. OptionAt(argv, D, o) = {}
      <3>1. ASSUME NEW d \in OptionAt(argv, D, o) PROVE FALSE
        <4>1. d \in OptionsIn(argv) /\ argv[d].letter = o /\ d # i
          BY <3>1 DEF OptionAt
        <4>2. argv[d] = argv[i]
          BY <1>1, <4>1, OptionsThere
        <4>3. d \notin Valued(argv) /\ i \notin Valued(argv)
          BY <1>1, <1>10, <4>1 DEF Valued
        <4>4. QED
          BY <4>1, <4>2, <4>3 DEF Ordinary
      <3>2. QED
        BY <3>1
    <2>2. opts[o] = Switch(FALSE)
      BY <1>2, <1>10, <2>1 DEF TakenAt
    <2>3. TakenAt(argv, D \cup {i}, o) = Switch(TRUE)
      <3>1. OptionAt(argv, D \cup {i}, o) # {}
        BY <1>4
      <3>2. (OptionAt(argv, D \cup {i}, o) # {}) = TRUE
        BY <3>1
      <3>3. QED
        BY <1>10, <3>2 DEF TakenAt
    <2>4. Blanked(argv, D \cup {i}) = Blanked(argv, D) \cup {i}
      <3>1. i \notin Valued(argv)
        BY <1>1, <1>10 DEF Valued
      <3>2. QED
        BY <3>1 DEF Blanked
    <2>5. Blank(words, {i}) = Taken(argv, D \cup {i}).words
      BY <1>7, <1>8, <2>4
    <2>6. [opts EXCEPT ![o] = Switch(TRUE)] = Taken(argv, D \cup {i}).opts
      BY <1>6, <2>3
    <2>7. TakeOption(Taken(argv, D), o, i)
            = [opts |-> [opts EXCEPT ![o] = Switch(TRUE)], words |-> Blank(words, {i})]
      BY <1>2, <2>2 DEF TakeOption
    <2>8. QED
      BY <1>1, <1>9, <2>5, <2>6, <2>7
  <1>11. CASE o \notin Switches
    <2>1. i \in Valued(argv)
      BY <1>1, <1>11 DEF Valued
    <2>2. opts[o] # Switch(FALSE)
      <3>1. \A j : At(argv, j) # Switch(FALSE)
        <4>1. \A w \in CliWord : w # Switch(FALSE)
          BY DEF CliWord, Switch, DashDash
        <4>2. Null # Switch(FALSE)
          BY DEF Null, Switch
        <4>3. \A j \in DOMAIN argv : argv[j] \in CliWord
          OBVIOUS
        <4>4. QED
          BY <4>1, <4>2, <4>3 DEF At
      <3>2. Null # Switch(FALSE)
        BY DEF Null, Switch
      <3>3. QED
        BY <1>2, <1>11, <3>1, <3>2 DEF TakenAt
    <2>3. Max(OptionAt(argv, D \cup {i}, o)) = i
      <3>1. i \in OptionAt(argv, D \cup {i}, o)
        BY <1>4
      <3>2. OptionAt(argv, D \cup {i}, o) \subseteq Nat
        BY <1>3 DEF OptionAt
      <3>3. \A d \in OptionAt(argv, D \cup {i}, o) : d <= i
        BY <1>1, <1>3, <1>4 DEF OptionAt
      <3>4. QED
        BY <3>1, <3>2, <3>3, MaxIs
    <2>4. TakenAt(argv, D \cup {i}, o) = At(argv, i + 1)
      <3>1. OptionAt(argv, D \cup {i}, o) # {}
        BY <1>4
      <3>2. QED
        BY <1>11, <2>3, <3>1 DEF TakenAt
    <2>5. At(words, i + 1) = At(argv, i + 1)
      <3>1. CASE i + 1 \in DOMAIN argv
        <4>1. i + 1 \in ValuesOf(argv)
          BY <2>1, <3>1 DEF ValuesOf
        <4>2. (i + 1) - 1 = i
          BY <1>3
        <4>3. i + 1 \notin Blanked(argv, D)
          BY <3>1, <4>1, <4>2, WordsThen
        <4>4. words[i + 1] = argv[i + 1] /\ DOMAIN words = DOMAIN argv
          BY <1>2, <3>1, <4>3 DEF Blank
        <4>5. QED
          BY <3>1, <4>4 DEF At
      <3>2. CASE i + 1 \notin DOMAIN argv
        BY <1>2, <3>2 DEF At, Blank
      <3>3. QED
        BY <3>1, <3>2
    <2>6. Blanked(argv, D \cup {i}) = Blanked(argv, D) \cup {i, i + 1}
      BY <2>1 DEF Blanked
    <2>7. Blank(words, {i, i + 1}) = Taken(argv, D \cup {i}).words
      BY <1>7, <1>8, <2>6
    <2>8. [opts EXCEPT ![o] = At(words, i + 1)] = Taken(argv, D \cup {i}).opts
      BY <1>6, <2>4, <2>5
    <2>9. TakeOption(Taken(argv, D), o, i)
            = [opts |-> [opts EXCEPT ![o] = At(words, i + 1)], words |-> Blank(words, {i, i + 1})]
      BY <1>2, <2>2 DEF TakeOption
    <2>10. QED
      BY <1>1, <1>9, <2>7, <2>8, <2>9
  <1>12. QED
    BY <1>10, <1>11

\* One look takes the word if it is the option that is looked for.
LEMMA LookOnce ==
    ASSUME NEW argv \in Seq(CliWord), Ordinary(argv), NEW D \in SUBSET OptionsIn(argv),
           NEW o \in OptionLetter, NEW i \in DOMAIN argv, \A d \in OptionAt(argv, D, o) : d < i
    PROVE  LookAt(Taken(argv, D), o, i)
             = Taken(argv, D \cup (IF i \in OptionsIn(argv) /\ argv[i].letter = o THEN {i} ELSE {}))
  <1>1. PICK s : s = Taken(argv, D)
    OBVIOUS
  <1>2. 1..i \subseteq DOMAIN argv /\ i \in 1..i
    OBVIOUS
  <1>3. (\E j \in 1..i : s.words[j] = DashDash) = (\E j \in 1..i : j \in Marks(argv))
    <2>1. \A j \in 1..i : (s.words[j] = DashDash) = (j \in Marks(argv))
      BY <1>1, <1>2, WordsThen
    <2>2. QED
      BY <2>1
  <1>4. (\E j \in 1..i : j \in Marks(argv)) <=> i \notin BeforeMarks(argv)
    <2>1. Marks(argv) \subseteq DOMAIN argv /\ DOMAIN argv \subseteq Nat \ {0}
      BY OptionsThere DEF Marks
    <2>2. \A j \in DOMAIN argv : j \in 1..i <=> ~(i < j)
      BY <2>1
    <2>3. QED
      BY <1>2, <2>1, <2>2 DEF BeforeMarks
  <1>5. i \in D => argv[i].letter # o
    <2>1. i \in Nat
      OBVIOUS
    <2>2. QED
      BY <2>1 DEF OptionAt
  <1>6. CASE i \in OptionsIn(argv) /\ argv[i].letter = o
    <2>1. i \notin D /\ i \in BeforeMarks(argv)
      BY <1>5, <1>6 DEF OptionsIn
    <2>2. s.words[i] = Option(o)
      BY <1>1, <1>6, <2>1, WordsThen, OptionsThere
    <2>3. LookAt(s, o, i) = TakeOption(s, o, i)
      BY <1>3, <1>4, <2>1, <2>2 DEF LookAt
    <2>4. QED
      BY <1>1, <1>6, <2>1, <2>3, TakeOne
  <1>7. CASE ~(i \in OptionsIn(argv) /\ argv[i].letter = o)
    <2>1. i \in BeforeMarks(argv) => s.words[i] # Option(o)
      <3>1. Empty # Option(o)
        BY DEF Empty, Option
      <3>2. i \in BeforeMarks(argv) => argv[i] # Option(o)
        BY <1>7, OptionsThere
      <3>3. QED
        BY <1>1, <3>1, <3>2, WordsThen
    <2>2. LookAt(s, o, i) = s
      BY <1>3, <1>4, <2>1 DEF LookAt
    <2>3. D \cup (IF i \in OptionsIn(argv) /\ argv[i].letter = o THEN {i} ELSE {}) = D
      BY <1>7
    <2>4. QED
      BY <1>1, <2>2, <2>3
  <1>8. QED
    BY <1>6, <1>7

\* What is taken has the types of the options and the words.
LEMMA TakenTyped ==
    ASSUME NEW argv \in Seq(CliWord), NEW n \in Nat, n = Len(argv), NEW D
    PROVE  Taken(argv, D) \in OptionStates(n)
  <1>1. DOMAIN argv = 1..n /\ \A j \in DOMAIN argv : argv[j] \in CliWord
    OBVIOUS
  <1>2. \A j : At(argv, j) \in OptionValue
    BY <1>1 DEF At, OptionValue, LineWord
  <1>3. \A b \in {TRUE, FALSE} : Switch(b) \in OptionValue
    BY DEF OptionValue
  <1>4. Null \in OptionValue
    BY DEF OptionValue
  <1>5. ASSUME NEW o \in OptionLetter PROVE TakenAt(argv, D, o) \in OptionValue
    <2>1. CASE o \in Switches
      <3>1. PICK b \in {TRUE, FALSE} : b = (OptionAt(argv, D, o) # {})
        OBVIOUS
      <3>2. TakenAt(argv, D, o) = Switch(b)
        BY <2>1, <3>1 DEF TakenAt
      <3>3. QED
        BY <1>3, <3>2
    <2>2. CASE o \notin Switches
      BY <1>2, <1>4, <2>2 DEF TakenAt
    <2>3. QED
      BY <2>1, <2>2
  <1>6. PICK opts \in [OptionLetter -> OptionValue] :
           opts = [o \in OptionLetter |-> TakenAt(argv, D, o)]
    BY <1>5
  <1>7. PICK words \in [1..n -> LineWord] : words = Blank(argv, Blanked(argv, D))
    BY <1>1 DEF Blank, LineWord
  <1>8. Taken(argv, D) = [opts |-> opts, words |-> words]
    BY <1>6, <1>7 DEF Taken
  <1>9. QED
    BY <1>8, OptionState

\* The options of one letter, up to a position.
Upto(argv, o, i) == {d \in OptionsIn(argv) : argv[d].letter = o /\ d <= i}

LEMMA LookTakes ==
    ASSUME NEW argv \in Seq(CliWord), Ordinary(argv), NEW D \in SUBSET OptionsIn(argv),
           NEW o \in OptionLetter, OptionAt(argv, D, o) = {}
    PROVE  Look(Taken(argv, D), o) = Taken(argv, D \cup Upto(argv, o, Len(argv)))
  <1>1. PICK n \in Nat : n = Len(argv) /\ DOMAIN argv = 1..n
    OBVIOUS
  <1>2. PICK f : Looks(Taken(argv, D), o, n, f) /\ Look(Taken(argv, D), o) = f[n]
    BY <1>1, TakenTyped, LookThere
  <1>3. OptionsIn(argv) \subseteq 1..n
    BY <1>1, OptionsThere
  <1>4. PICK U : U = {i \in 0..n : f[i] = Taken(argv, D \cup Upto(argv, o, i))}
    OBVIOUS
  <1>5. 0 \in U
    <2>1. Upto(argv, o, 0) = {}
      BY <1>3 DEF Upto
    <2>2. D \cup Upto(argv, o, 0) = D
      BY <2>1
    <2>3. f[0] = Taken(argv, D \cup Upto(argv, o, 0))
      BY <1>2, <2>2 DEF Looks
    <2>4. QED
      BY <1>4, <2>3
  <1>6. ASSUME NEW k \in 1..n, k - 1 \in U PROVE k \in U
    <2>1. PICK E \in SUBSET OptionsIn(argv) : E = D \cup Upto(argv, o, k - 1)
      BY DEF Upto
    <2>2. f[k] = LookAt(Taken(argv, E), o, k)
      BY <1>2, <1>4, <1>6, <2>1 DEF Looks
    <2>3. \A d \in OptionAt(argv, E, o) : d < k
      <3>1. ASSUME NEW d \in OptionAt(argv, E, o) PROVE d \in Upto(argv, o, k - 1)
        BY <2>1, <3>1 DEF OptionAt
      <3>2. \A d \in Upto(argv, o, k - 1) : d \in 1..n /\ d <= k - 1
        BY <1>3 DEF Upto
      <3>3. QED
        BY <3>1, <3>2
    <2>4. f[k] = Taken(argv, E \cup (IF k \in OptionsIn(argv) /\ argv[k].letter = o
                                     THEN {k} ELSE {}))
      BY <1>1, <2>2, <2>3, LookOnce
    <2>5. E \cup (IF k \in OptionsIn(argv) /\ argv[k].letter = o THEN {k} ELSE {})
            = D \cup Upto(argv, o, k)
      <3>1. \A d \in 1..n : d <= k <=> (d <= k - 1 \/ d = k)
        OBVIOUS
      <3>2. Upto(argv, o, k) = Upto(argv, o, k - 1)
              \cup (IF k \in OptionsIn(argv) /\ argv[k].letter = o THEN {k} ELSE {})
        BY <1>3, <3>1 DEF Upto
      <3>3. QED
        BY <2>1, <3>2
    <2>6. f[k] = Taken(argv, D \cup Upto(argv, o, k))
      BY <2>4, <2>5, Zenon
    <2>7. QED
      BY <1>4, <2>6
  <1>7. \A k \in 0..n : k \in U
    BY ONLY n \in Nat, <1>5, <1>6, Along
  <1>8. f[n] = Taken(argv, D \cup Upto(argv, o, n))
    BY <1>4, <1>7
  <1>9. QED
    BY <1>1, <1>2, <1>8

\* The options of the first letters.
OfLetters(argv, k) == {d \in OptionsIn(argv) : \E m \in 1..k : argv[d].letter = OptionLetters[m]}

LEMMA AllTaken ==
    ASSUME NEW argv \in Seq(CliWord), Ordinary(argv)
    PROVE  LookForAll(argv) = Taken(argv, OptionsIn(argv))
  <1>1. PICK n \in Nat : n = Len(argv) /\ DOMAIN argv = 1..n
    OBVIOUS
  <1>2. PICK f : LooksForAll(argv, n, f) /\ LookForAll(argv) = f[21]
    BY <1>1, LookForAllThere
  <1>3. PICK U : U = {k \in 0..21 : f[k] = Taken(argv, OfLetters(argv, k))}
    OBVIOUS
  <1>4. 0 \in U
    <2>1. OfLetters(argv, 0) = {}
      BY DEF OfLetters
    <2>2. Blank(argv, Blanked(argv, {})) = argv
      <3>1. Blanked(argv, {}) = {}
        BY DEF Blanked
      <3>2. QED
        BY <3>1 DEF Blank
    <2>3. \A o \in OptionLetter :
             TakenAt(argv, {}, o) = IF o \in Switches THEN Switch(FALSE) ELSE Null
      <3>1. ASSUME NEW o \in OptionLetter
            PROVE  TakenAt(argv, {}, o) = IF o \in Switches THEN Switch(FALSE) ELSE Null
        <4>1. OptionAt(argv, {}, o) = {}
          BY DEF OptionAt
        <4>2. (OptionAt(argv, {}, o) # {}) = FALSE
          BY <4>1
        <4>3. QED
          BY <4>1, <4>2 DEF TakenAt
      <3>2. QED
        BY <3>1
    <2>4. [o \in OptionLetter |-> TakenAt(argv, {}, o)] = OptsTable
      BY <2>3 DEF OptsTable, OptionLetter
    <2>5. Taken(argv, {}) = [opts |-> OptsTable, words |-> argv]
      BY <2>2, <2>4 DEF Taken
    <2>6. f[0] = Taken(argv, OfLetters(argv, 0))
      BY <1>2, <2>1, <2>5 DEF LooksForAll
    <2>7. QED
      BY <1>3, <2>6
  <1>5. ASSUME NEW k \in 1..21, k - 1 \in U PROVE k \in U
    <2>1. PICK o \in OptionLetter : o = OptionLetters[k]
      BY TheLetters
    <2>2. PICK D \in SUBSET OptionsIn(argv) : D = OfLetters(argv, k - 1)
      BY DEF OfLetters
    <2>3. OptionAt(argv, D, o) = {}
      <3>1. \A m \in 1..(k - 1) : m \in 1..21 /\ m # k
        OBVIOUS
      <3>2. \A m \in 1..(k - 1) : OptionLetters[m] # o
        BY <2>1, <3>1, TheLetters
      <3>3. QED
        BY <2>2, <3>2 DEF OptionAt, OfLetters
    <2>4. f[k] = Look(Taken(argv, D), o)
      BY <1>2, <1>3, <1>5, <2>1, <2>2 DEF LooksForAll
    <2>5. f[k] = Taken(argv, D \cup Upto(argv, o, n))
      BY <1>1, <2>3, <2>4, LookTakes
    <2>6. D \cup Upto(argv, o, n) = OfLetters(argv, k)
      <3>1. \A m : m \in 1..k <=> m \in 1..(k - 1) \/ m = k
        OBVIOUS
      <3>2. \A d \in OptionsIn(argv) : d <= n
        BY <1>1, OptionsThere
      <3>3. QED
        BY <2>1, <2>2, <3>1, <3>2 DEF OfLetters, Upto
    <2>7. f[k] = Taken(argv, OfLetters(argv, k))
      BY <2>5, <2>6, Zenon
    <2>8. QED
      BY <1>3, <2>7
  <1>6. \A k \in 0..21 : k \in U
    BY ONLY <1>4, <1>5, Along
  <1>7. OfLetters(argv, 21) = OptionsIn(argv)
    BY OptionsThere, TheLetters DEF OfLetters
  <1>8. QED
    BY <1>2, <1>3, <1>6, <1>7

\* The options and what is left are what the words say.
LEMMA OptionsRead ==
    ASSUME NEW argv \in Seq(CliWord), Ordinary(argv)
    PROVE  /\ GetCLIOpts(argv) = [opts |-> OptionsSay(argv), rest |-> WordsLeft(argv)]
           /\ WordsLeft(argv) \in Seq(CliWord)
           /\ ~Throws(OptionsSay(argv))
  <1>1. PICK D : D = OptionsIn(argv)
    OBVIOUS
  <1>2. PICK opts, words : /\ LookForAll(argv) = [opts |-> opts, words |-> words]
                           /\ opts = [o \in OptionLetter |-> TakenAt(argv, D, o)]
                           /\ words = Blank(argv, Blanked(argv, D))
    BY <1>1, AllTaken DEF Taken
  <1>3. opts = OptionsSay(argv)
    <2>1. \A o \in OptionLetter :
             TakenAt(argv, D, o)
               = LET here == {i \in OptionsIn(argv) : argv[i].letter = o} IN
                 IF o \in Switches THEN Switch(here # {})
                 ELSE IF here = {} THEN Null ELSE At(argv, Max(here) + 1)
      BY <1>1 DEF TakenAt, OptionAt
    <2>2. QED
      BY <1>2, <2>1 DEF OptionsSay, OptionLetter
  <1>4. PICK left : left = DOMAIN argv \ (OptionsIn(argv) \cup ValuesOf(argv) \cup Marks(argv))
    OBVIOUS
  <1>5. DOMAIN words = DOMAIN argv
    BY <1>2 DEF Blank
  <1>6. ASSUME NEW i \in DOMAIN argv
        PROVE  /\ (words[i] \notin {Empty, DashDash}) <=> i \in left
               /\ i \in left => words[i] = argv[i]
    <2>1. words = Taken(argv, D).words
      BY <1>2 DEF Taken
    <2>2. i \in Blanked(argv, D) <=> i \in OptionsIn(argv) \cup ValuesOf(argv)
      BY <1>1, <1>6 DEF Blanked, ValuesOf, Valued
    <2>3. /\ words[i] = IF i \in Blanked(argv, D) THEN Empty ELSE argv[i]
          /\ (words[i] = DashDash) = (i \in Marks(argv))
          /\ argv[i] # Empty
      BY <1>1, <1>6, <2>1, WordsThen, OptionsThere
    <2>4. QED
      BY <1>4, <2>2, <2>3
  <1>7. {i \in DOMAIN words : words[i] \notin {Empty, DashDash}} = left
    BY <1>4, <1>5, <1>6
  <1>8. ThoseAt(words, left) = ThoseAt(argv, left)
    <2>1. argv \in Seq(LineWord)
      BY DEF LineWord
    <2>2. words \in Seq(LineWord) /\ Len(words) = Len(argv)
      <3>1. PICK n \in Nat : n = Len(argv) /\ DOMAIN argv = 1..n
        OBVIOUS
      <3>2. words \in [1..n -> LineWord]
        BY <1>2, <3>1 DEF Blank, LineWord
      <3>3. QED
        BY <3>1, <3>2
    <2>3. \A i \in DOMAIN words \cap left : words[i] = argv[i]
      BY <1>5, <1>6
    <2>4. QED
      BY <2>1, <2>2, <2>3, SamePicked
  <1>9. GetCLIOpts(argv) = [opts |-> opts, rest |-> ThoseAt(words, left)]
    <2>1. LookForAll(argv).opts = opts /\ LookForAll(argv).words = words
      BY <1>2
    <2>2. QED
      BY <1>7, <2>1 DEF GetCLIOpts
  <1>10. GetCLIOpts(argv) = [opts |-> OptionsSay(argv), rest |-> WordsLeft(argv)]
    BY <1>3, <1>4, <1>8, <1>9 DEF WordsLeft
  <1>11. WordsLeft(argv) \in Seq(CliWord)
    <2>1. \A positions : ThoseAt(argv, positions) \in Seq(CliWord)
      <3>1. ASSUME NEW positions PROVE ThoseAt(argv, positions) \in Seq(CliWord)
        <4>1. PICK picked \in [0..Len(argv) -> Seq(CliWord)] :
                 ThoseAt(argv, positions) = picked[Len(argv)]
          BY PickedThere
        <4>2. Len(argv) \in 0..Len(argv)
          OBVIOUS
        <4>3. QED
          BY <4>1, <4>2
      <3>2. QED
        BY <3>1
    <2>2. QED
      BY <2>1 DEF WordsLeft
  <1>12. ~Throws(OptionsSay(argv))
    <2>1. ASSUME NEW o \in Switches PROVE OptionsSay(argv)[o].is = "switch"
      <3>1. o \in OptionLetter
        BY TheLetters
      <3>2. opts[o] = Switch(OptionAt(argv, D, o) # {})
        BY <1>2, <3>1 DEF TakenAt
      <3>3. QED
        BY <1>3, <3>2 DEF Switch
    <2>2. QED
      BY <2>1 DEF Throws
  <1>13. QED
    BY <1>10, <1>11, <1>12

----------------------------------------------------------------------------
(* Which words are keywords. *)

\* The last word before one that cannot be a keyword.
LEMMA BeforeRowIs ==
    ASSUME NEW args, NEW i \in Nat
    PROVE  /\ BeforeRow(args, i + 1) \in 0..i
           /\ BeforeRow(args, 1) = 0
           /\ i # 0 => BeforeRow(args, i + 1)
                         = IF args[i].is # "keyword" THEN i ELSE BeforeRow(args, i)
  <1> DEFINE Others(k) == {0} \cup {j \in 1..k : args[j].is # "keyword"}
  <1>1. \A k \in Nat : BeforeRow(args, k + 1) = Max(Others(k))
    <2>1. \A k \in Nat : (k + 1) - 1 = k
      OBVIOUS
    <2>2. QED
      BY <2>1 DEF BeforeRow
  <1>2. \A k \in Nat : Others(k) \subseteq 0..k
    OBVIOUS
  <1>3. PICK V : V = {k \in 0..i : \E m \in Others(k) : \A x \in Others(k) : x <= m}
    OBVIOUS
  <1>4. 0 \in V
    BY <1>3
  <1>5. ASSUME NEW k \in 1..i, k - 1 \in V PROVE k \in V
    <2>1. PICK m \in Others(k - 1) : \A x \in Others(k - 1) : x <= m
      BY <1>3, <1>5
    <2>2. CASE args[k].is # "keyword"
      <3>1. k \in Others(k) /\ \A x \in Others(k) : x <= k
        BY <2>2
      <3>2. QED
        BY <1>3, <3>1
    <2>3. CASE args[k].is = "keyword"
      <3>1. Others(k) = Others(k - 1)
        <4>1. \A j : j \in 1..k <=> j \in 1..(k - 1) \/ j = k
          OBVIOUS
        <4>2. QED
          BY <2>3, <4>1
      <3>2. QED
        BY <1>3, <2>1, <3>1
    <2>4. QED
      BY <2>2, <2>3
  <1>6. \A k \in 0..i : k \in V
    BY ONLY i \in Nat, <1>4, <1>5, Along
  <1>7. ASSUME NEW k \in 0..i
        PROVE  Max(Others(k)) \in Others(k) /\ \A x \in Others(k) : x <= Max(Others(k))
    <2>1. PICK m \in Others(k) : \A x \in Others(k) : x <= m
      BY <1>3, <1>6
    <2>2. Others(k) \subseteq Nat
      OBVIOUS
    <2>3. Max(Others(k)) = m
      BY <2>1, <2>2, MaxIs
    <2>4. QED
      BY <2>1, <2>3
  <1>8. BeforeRow(args, i + 1) \in 0..i
    <2>1. Max(Others(i)) \in Others(i)
      BY <1>7
    <2>2. QED
      BY <1>1, <1>2, <2>1
  <1>9. BeforeRow(args, 1) = 0
    <2>1. BeforeRow(args, 0 + 1) = Max(Others(0))
      BY <1>1
    <2>2. Max(Others(0)) \in Others(0)
      BY <1>7
    <2>3. Others(0) = {0}
      OBVIOUS
    <2>4. QED
      BY <2>1, <2>2, <2>3
  <1>10. ASSUME i # 0
         PROVE  BeforeRow(args, i + 1) = IF args[i].is # "keyword" THEN i ELSE BeforeRow(args, i)
    <2>1. i - 1 \in Nat /\ (i - 1) + 1 = i /\ i - 1 \in 0..i
      BY <1>10
    <2>2. BeforeRow(args, i) = Max(Others(i - 1)) /\ BeforeRow(args, i + 1) = Max(Others(i))
      <3>1. BeforeRow(args, (i - 1) + 1) = Max(Others(i - 1))
        BY <1>1, <2>1
      <3>2. QED
        BY <1>1, <2>1, <3>1
    <2>3. \A j : j \in 1..i <=> j \in 1..(i - 1) \/ j = i
      BY <1>10
    <2>4. CASE args[i].is # "keyword"
      <3>1. i \in Others(i) /\ Others(i) \subseteq Nat /\ \A x \in Others(i) : x <= i
        BY <1>10, <2>4
      <3>2. QED
        BY <2>2, <2>4, <3>1, MaxIs
    <2>5. CASE args[i].is = "keyword"
      <3>1. Others(i) = Others(i - 1)
        BY <2>3, <2>5
      <3>2. QED
        BY <2>2, <2>5, <3>1
    <2>6. QED
      BY <2>4, <2>5
  <1>11. QED
    BY <1>8, <1>9, <1>10

\* A word is a keyword if it looks like one and is not the value of one.
LEMMA KeywordStep ==
    ASSUME NEW T, NEW args \in Seq(T), NEW i \in DOMAIN args
    PROVE  i \in Keywords(args) <=> args[i].is = "keyword" /\ i - 1 \notin Keywords(args)
  <1>1. i \in Nat \ {0} /\ 0 \notin DOMAIN args
    OBVIOUS
  <1>2. CASE i = 1
    <2>1. BeforeRow(args, 1) = 0
      BY BeforeRowIs
    <2>2. (i - BeforeRow(args, i)) % 2 = 1 /\ i - 1 \notin DOMAIN args
      BY <1>1, <1>2, <2>1
    <2>3. QED
      BY <2>2 DEF Keywords
  <1>3. CASE i # 1
    <2>1. PICK k \in Nat : k = i - 1 /\ k # 0 /\ k + 1 = i /\ k \in DOMAIN args
      BY <1>1, <1>3
    <2>2. PICK b \in Nat : b = BeforeRow(args, i)
      BY <2>1, BeforeRowIs
    <2>3. PICK c \in Nat : c = BeforeRow(args, k) /\ c < k
      <3>1. k - 1 \in Nat /\ (k - 1) + 1 = k
        BY <2>1
      <3>2. BeforeRow(args, (k - 1) + 1) \in 0..(k - 1)
        BY <3>1, BeforeRowIs
      <3>3. BeforeRow(args, k) \in Nat /\ BeforeRow(args, k) < k
        BY <3>1, <3>2
      <3>4. QED
        BY <3>3
    <2>4. b = IF args[k].is # "keyword" THEN k ELSE c
      BY <2>1, <2>2, <2>3, BeforeRowIs
    <2>5. CASE args[k].is # "keyword"
      <3>1. (i - b) % 2 = 1
        BY <2>1, <2>4, <2>5
      <3>2. k \notin Keywords(args)
        BY <2>5 DEF Keywords
      <3>3. QED
        BY <2>1, <2>2, <3>1, <3>2 DEF Keywords
    <2>6. CASE args[k].is = "keyword"
      <3>1. (i - b) % 2 = 1 <=> (k - c) % 2 # 1
        <4>1. PICK d \in Nat : d = k - c
          BY <2>3
        <4>2. i - b = d + 1
          BY <2>1, <2>3, <2>4, <2>6, <4>1
        <4>3. (d + 1) % 2 = 1 <=> d % 2 # 1
          OBVIOUS
        <4>4. QED
          BY <4>1, <4>2, <4>3
      <3>2. k \in Keywords(args) <=> (k - c) % 2 = 1
        BY <2>1, <2>3, <2>6 DEF Keywords
      <3>3. i \in Keywords(args) <=> args[i].is = "keyword" /\ (i - b) % 2 = 1
        BY <2>2 DEF Keywords
      <3>4. QED
        BY <2>1, <3>1, <3>2, <3>3
    <2>7. QED
      BY <2>5, <2>6
  <1>4. QED
    BY <1>2, <1>3

----------------------------------------------------------------------------
(* The arguments are what the words say. *)

KeysUpto(args, i) == Keywords(args) \cap 1..i

MisusedBy(names, args, i) ==
    \/ \E j \in KeysUpto(args, i) : args[j].name \notin ToSet(names) \/ j = Len(args)
    \/ \E j, k \in KeysUpto(args, i) : j # k /\ args[j].name = args[k].name

Free(args) == DOMAIN args \ (Keywords(args) \cup {i + 1 : i \in Keywords(args)})

\* What is known after i words: the error of a keyword that is misused, or
\* the keywords with their values and the other words.
ScannedTo(names, args, picked, i, s) ==
    /\ s.error = "none" <=> ~MisusedBy(names, args, i)
    /\ s.error = "none" =>
          /\ s.found = {Pair(args, j) : j \in KeysUpto(args, i)}
          /\ s.ordered = picked[i]
          /\ s.skip = i + 1 <=> i \in Keywords(args)
          /\ s.skip <= i + 1

LEMMA ScanOne ==
    ASSUME NEW T, NEW args \in Seq(T), NEW names, NEW picked, Picked(args, Free(args), picked),
           NEW s \in ScanStates(args, T), NEW i \in DOMAIN args,
           ScannedTo(names, args, picked, i - 1, s)
    PROVE  ScannedTo(names, args, picked, i, ScanWord(s, i, args, names))
  <1>1. i \in Nat \ {0} /\ i \in 1..Len(args) /\ s.skip \in Nat /\ i - 1 + 1 = i /\ Len(args) \in Nat
    BY DEF ScanStates
  <1>2. Keywords(args) \subseteq DOMAIN args /\ DOMAIN args \subseteq Nat \ {0}
    BY DEF Keywords
  <1>3. /\ i \in Keywords(args) => KeysUpto(args, i) = KeysUpto(args, i - 1) \cup {i}
        /\ i \notin Keywords(args) => KeysUpto(args, i) = KeysUpto(args, i - 1)
    <2>1. \A j \in Nat : j \in 1..i <=> j \in 1..(i - 1) \/ j = i
      BY <1>1
    <2>2. QED
      BY <1>1, <1>2, <2>1 DEF KeysUpto
  <1>4. i \in Keywords(args) <=> args[i].is = "keyword" /\ i - 1 \notin Keywords(args)
    BY KeywordStep
  <1>5. i \in Free(args) <=> i \notin Keywords(args) /\ i - 1 \notin Keywords(args)
    <2>1. \A k \in Keywords(args) : k + 1 = i <=> k = i - 1
      BY <1>1, <1>2
    <2>2. QED
      BY <1>1, <2>1 DEF Free
  <1>6. picked[i] = IF i \in Free(args) THEN Append(picked[i - 1], args[i]) ELSE picked[i - 1]
    BY <1>1 DEF Picked
  <1>7. PICK t : t = ScanWord(s, i, args, names)
    OBVIOUS
  <1>8. CASE s.error # "none"
    <2>1. t = s
      BY <1>7, <1>8 DEF ScanWord
    <2>2. MisusedBy(names, args, i - 1)
      BY <1>8 DEF ScannedTo
    <2>3. MisusedBy(names, args, i)
      BY <1>3, <2>2 DEF MisusedBy
    <2>4. QED
      BY <1>7, <1>8, <2>1, <2>3 DEF ScannedTo
  <1>9. ASSUME s.error = "none", i \notin Keywords(args), t.error = "none",
               t.found = s.found, t.skip = s.skip, t.ordered = picked[i]
        PROVE  ScannedTo(names, args, picked, i, t)
    <2>1. ~MisusedBy(names, args, i)
      BY <1>3, <1>9 DEF ScannedTo, MisusedBy
    <2>2. t.found = {Pair(args, j) : j \in KeysUpto(args, i)}
      BY <1>3, <1>9 DEF ScannedTo
    <2>3. t.skip <= i
      BY <1>1, <1>9 DEF ScannedTo
    <2>4. t.skip \in Nat /\ t.skip <= i + 1 /\ t.skip # i + 1
      BY <1>1, <1>9, <2>3
    <2>5. QED
      BY <1>9, <2>1, <2>2, <2>4 DEF ScannedTo
  <1>10. CASE s.error = "none" /\ s.skip = i
    <2>1. t = s
      BY <1>7, <1>10 DEF ScanWord
    <2>2. i - 1 \in Keywords(args)
      BY <1>1, <1>10 DEF ScannedTo
    <2>3. picked[i] = picked[i - 1] /\ i \notin Keywords(args)
      BY <1>4, <1>5, <1>6, <2>2
    <2>4. t.ordered = picked[i]
      BY <1>10, <2>1, <2>3 DEF ScannedTo
    <2>5. QED
      BY <1>7, <1>9, <1>10, <2>1, <2>3, <2>4
  <1>11. CASE s.error = "none" /\ s.skip # i /\ args[i].is # "keyword"
    <2>1. t = [s EXCEPT !.ordered = Append(s.ordered, args[i])]
      BY <1>7, <1>11 DEF ScanWord
    <2>2. /\ t.error = s.error /\ t.found = s.found /\ t.skip = s.skip
          /\ t.ordered = Append(s.ordered, args[i])
      BY <2>1 DEF ScanStates
    <2>3. i - 1 \notin Keywords(args) /\ i \notin Keywords(args)
      BY <1>1, <1>4, <1>11 DEF ScannedTo
    <2>4. picked[i] = Append(picked[i - 1], args[i])
      BY <1>5, <1>6, <2>3
    <2>5. t.ordered = picked[i]
      BY <1>11, <2>2, <2>4 DEF ScannedTo
    <2>6. QED
      BY <1>7, <1>9, <1>11, <2>2, <2>3, <2>5
  <1>12. CASE s.error = "none" /\ s.skip # i /\ args[i].is = "keyword"
    <2>1. i - 1 \notin Keywords(args) /\ i \in Keywords(args)
      BY <1>1, <1>4, <1>12 DEF ScannedTo
    <2>2. KeysUpto(args, i) = KeysUpto(args, i - 1) \cup {i} /\ i \notin KeysUpto(args, i - 1)
      <3>1. i \notin 1..(i - 1)
        BY <1>1
      <3>2. QED
        BY <1>3, <2>1, <3>1 DEF KeysUpto
    <2>3. Found(s.found, args[i].name)
            <=> \E j \in KeysUpto(args, i - 1) : args[j].name = args[i].name
      <3>1. s.found = {Pair(args, j) : j \in KeysUpto(args, i - 1)}
        BY <1>12 DEF ScannedTo
      <3>2. \A j : Pair(args, j).name = args[j].name
        BY DEF Pair
      <3>3. QED
        BY <3>1, <3>2 DEF Found
    <2>4. MisusedBy(names, args, i)
            <=> \/ Found(s.found, args[i].name)
                \/ args[i].name \notin ToSet(names) \/ i = Len(args)
      <3>1. ~MisusedBy(names, args, i - 1)
        BY <1>12 DEF ScannedTo
      <3>2. QED
        BY <2>2, <2>3, <3>1 DEF MisusedBy
    <2>5. CASE MisusedBy(names, args, i)
      <3>1. PICK e \in Errors \ {"none"} : t = [s EXCEPT !.error = e]
        <4>1. \/ t = [s EXCEPT !.error = "duplicate argument"]
              \/ t = [s EXCEPT !.error = "no such argument"]
              \/ t = [s EXCEPT !.error = "no value for argument"]
          BY <1>7, <1>12, <2>4, <2>5 DEF ScanWord
        <4>2. /\ "duplicate argument" \in Errors \ {"none"} /\ "no such argument" \in Errors \ {"none"}
              /\ "no value for argument" \in Errors \ {"none"}
          BY DEF Errors
        <4>3. QED
          BY <4>1, <4>2, Zenon
      <3>2. t.error = e
        BY <3>1 DEF ScanStates
      <3>3. QED
        BY <1>7, <2>5, <3>1, <3>2 DEF ScannedTo
    <2>6. CASE ~MisusedBy(names, args, i)
      <3>1. t = [found |-> s.found \cup {Pair(args, i)}, ordered |-> s.ordered,
                 skip |-> i + 1, error |-> s.error]
        BY <1>7, <1>12, <2>4, <2>6 DEF ScanWord, Pair
      <3>2. t.found = {Pair(args, j) : j \in KeysUpto(args, i)}
        <4>1. s.found = {Pair(args, j) : j \in KeysUpto(args, i - 1)}
          BY <1>12 DEF ScannedTo
        <4>2. QED
          BY <2>2, <3>1, <4>1
      <3>3. t.ordered = picked[i]
        <4>1. picked[i] = picked[i - 1] /\ s.ordered = picked[i - 1]
          BY <1>5, <1>6, <1>12, <2>1 DEF ScannedTo
        <4>2. QED
          BY <3>1, <4>1
      <3>4. t.error = "none" /\ t.skip = i + 1 /\ i + 1 <= i + 1
        BY <1>1, <1>12, <3>1
      <3>5. QED
        BY <1>7, <2>1, <2>6, <3>2, <3>3, <3>4 DEF ScannedTo
    <2>7. QED
      BY <2>5, <2>6
  <1>13. QED
    BY <1>8, <1>10, <1>11, <1>12

\* The whole row of arguments is read so.
LEMMA ScannedAll ==
    ASSUME NEW T, NEW args \in Seq(T), NEW names
    PROVE  /\ Scan(args, names).error = "none" <=> ~Misused(names, args)
           /\ ~Misused(names, args) =>
                 /\ Scan(args, names).found = {Pair(args, j) : j \in Keywords(args)}
                 /\ Scan(args, names).ordered = NotByKeyword(args)
           /\ NotByKeyword(args) \in Seq(T)
  <1>1. PICK n \in Nat : n = Len(args) /\ DOMAIN args = 1..n
    OBVIOUS
  <1>2. PICK f : Scans(args, names, T, f) /\ Scan(args, names) = f[n]
    BY <1>1, ScanThere
  <1>3. PICK picked \in [0..n -> Seq(T)] :
           Picked(args, Free(args), picked) /\ ThoseAt(args, Free(args)) = picked[n]
    BY <1>1, PickedThere
  <1>4. PICK U : U = {i \in 0..n : ScannedTo(names, args, picked, i, f[i])}
    OBVIOUS
  <1>5. 0 \in U
    <2>1. f[0] = [found |-> {}, ordered |-> <<>>, skip |-> 0, error |-> "none"]
      BY <1>2 DEF Scans
    <2>2. KeysUpto(args, 0) = {} /\ 0 \notin Keywords(args) /\ picked[0] = <<>>
      BY <1>1, <1>3 DEF KeysUpto, Keywords, Picked
    <2>3. ~MisusedBy(names, args, 0)
      BY <2>2 DEF MisusedBy
    <2>4. ScannedTo(names, args, picked, 0, f[0])
      BY <2>1, <2>2, <2>3 DEF ScannedTo
    <2>5. QED
      BY <1>4, <2>4
  <1>6. ASSUME NEW k \in 1..n, k - 1 \in U PROVE k \in U
    <2>1. f[k - 1] \in ScanStates(args, T) /\ f[k] = ScanWord(f[k - 1], k, args, names)
      <3>1. k \in 0..n /\ k - 1 \in 0..n
        OBVIOUS
      <3>2. f \in [0..n -> ScanStates(args, T)]
        BY <1>1, <1>2 DEF Scans
      <3>3. f[k] = ScanWord(f[k - 1], k, args, names)
        BY <1>1, <1>2 DEF Scans
      <3>4. QED
        BY <3>1, <3>2, <3>3
    <2>2. ScannedTo(names, args, picked, k - 1, f[k - 1]) /\ k \in DOMAIN args
      BY <1>1, <1>4, <1>6
    <2>3. ScannedTo(names, args, picked, k, f[k])
      BY <1>3, <2>1, <2>2, ScanOne
    <2>4. QED
      BY <1>4, <2>3
  <1>7. \A k \in 0..n : k \in U
    BY ONLY n \in Nat, <1>5, <1>6, Along
  <1>8. ScannedTo(names, args, picked, n, Scan(args, names))
    BY <1>2, <1>4, <1>7
  <1>9. KeysUpto(args, n) = Keywords(args)
    BY <1>1 DEF KeysUpto, Keywords
  <1>10. MisusedBy(names, args, n) <=> Misused(names, args)
    BY <1>9 DEF MisusedBy, Misused
  <1>11. NotByKeyword(args) = picked[n]
    BY <1>3 DEF NotByKeyword, Free
  <1>12. picked[n] \in Seq(T)
    BY <1>3
  <1>13. QED
    BY <1>8, <1>9, <1>10, <1>11, <1>12 DEF ScannedTo

\* The item of each name is what the words say of it.
LEMMA ItemSays ==
    ASSUME NEW args, NEW names, ~Misused(names, args), NEW k
    PROVE  Item({Pair(args, j) : j \in Keywords(args)}, NotByKeyword(args), names, k)
             = ArgumentSays(names, args, k)
  <1>1. PICK found : found = {Pair(args, j) : j \in Keywords(args)}
    OBVIOUS
  <1>2. \A j : Pair(args, j).name = args[j].name /\ Pair(args, j).value = args[j + 1]
    BY DEF Pair
  <1>3. \A name : Found(found, name) <=> KeywordsOf(args, name) # {}
    BY <1>1, <1>2 DEF Found, KeywordsOf
  <1>4. ASSUME NEW name, KeywordsOf(args, name) # {}
        PROVE  ValueOf(found, name) = args[(CHOOSE i \in KeywordsOf(args, name) : TRUE) + 1]
    <2>1. PICK i : i = CHOOSE j \in KeywordsOf(args, name) : TRUE
      OBVIOUS
    <2>2. i \in Keywords(args) /\ args[i].name = name
      BY <1>4, <2>1 DEF KeywordsOf
    <2>3. PICK f : f = CHOOSE g \in found : g.name = name
      OBVIOUS
    <2>4. f \in found /\ f.name = name
      BY <1>1, <1>2, <2>2, <2>3
    <2>5. PICK j \in Keywords(args) : f = Pair(args, j)
      BY <1>1, <2>4
    <2>6. j = i
      BY <1>2, <2>2, <2>4, <2>5 DEF Misused
    <2>7. f.value = args[i + 1]
      BY <1>2, <2>5, <2>6
    <2>8. ValueOf(found, name) = f.value
      BY <1>3, <1>4, <2>3 DEF ValueOf
    <2>9. QED
      BY <2>1, <2>7, <2>8
  <1>5. Positional(found, names, k) = Unnamed(names, args, k)
    <2>1. {j \in 1..k : ~Found(found, names[j])} = {j \in 1..k : KeywordsOf(args, names[j]) = {}}
      BY <1>3
    <2>2. QED
      BY <2>1 DEF Positional, Unnamed
  <1>6. CASE KeywordsOf(args, names[k]) # {}
    <2>1. Item(found, NotByKeyword(args), names, k) = ValueOf(found, names[k])
      BY <1>3, <1>6 DEF Item
    <2>2. QED
      BY <1>1, <1>4, <1>6, <2>1 DEF ArgumentSays
  <1>7. CASE KeywordsOf(args, names[k]) = {}
    <2>1. Item(found, NotByKeyword(args), names, k) = At(NotByKeyword(args), Unnamed(names, args, k))
      BY <1>3, <1>5, <1>7 DEF Item
    <2>2. QED
      BY <1>1, <1>7, <2>1 DEF ArgumentSays
  <1>8. QED
    BY <1>6, <1>7

\* The arguments come to what the words say, or are refused.
LEMMA ArgumentsRead ==
    ASSUME NEW T, NEW args \in Seq(T), NEW names, Len(names) \in Nat, DOMAIN names = 1..Len(names)
    PROVE  /\ Misused(names, args) =>
                 GetCommandArgs(names, args).status = "error" /\ ArgumentsSay(names, args) = Refused
           /\ ~Misused(names, args) =>
                 \E a : /\ a = [k \in 1..Len(names) |-> ArgumentSays(names, args, k)]
                        /\ GetCommandArgs(names, args) = [status |-> "ok", arguments |-> a]
                        /\ ArgumentsSay(names, args) = Accepted(a)
  <1>1. CASE Misused(names, args)
    <2>1. GetCommandArgs(names, args) = Wrong(Scan(args, names).error)
      BY <1>1, ScannedAll DEF GetCommandArgs
    <2>2. GetCommandArgs(names, args).status = "error"
      BY <2>1 DEF Wrong
    <2>3. QED
      BY <1>1, <2>2 DEF ArgumentsSay
  <1>2. CASE ~Misused(names, args)
    <2>1. PICK a : a = [k \in 1..Len(names) |-> ArgumentSays(names, args, k)]
      OBVIOUS
    <2>2. PICK found, ordered : found = {Pair(args, j) : j \in Keywords(args)}
                                /\ ordered = NotByKeyword(args)
      OBVIOUS
    <2>3. /\ Scan(args, names).error = "none" /\ Scan(args, names).found = found
          /\ Scan(args, names).ordered = ordered /\ ordered \in Seq(T)
      BY <1>2, <2>2, ScannedAll
    <2>4. MergeAll(found, ordered, names) = [k \in 1..Len(names) |-> Item(found, ordered, names, k)]
      BY <2>3, MergedWords
    <2>5. \A k \in 1..Len(names) : Item(found, ordered, names, k) = ArgumentSays(names, args, k)
      BY <1>2, <2>2, ItemSays
    <2>6. MergeAll(found, ordered, names) = a
      BY <2>1, <2>4, <2>5
    <2>7. GetCommandArgs(names, args) = [status |-> "ok", arguments |-> a]
      BY <2>3, <2>6 DEF GetCommandArgs
    <2>8. ArgumentsSay(names, args) = Accepted(a)
      BY <1>2, <2>1 DEF ArgumentsSay
    <2>9. QED
      BY <1>2, <2>1, <2>7, <2>8
  <1>3. QED
    BY <1>1, <1>2

\* What the schema says of the arguments, and what is acceptable, agree.
LEMMA ValidIfAcceptable ==
    ASSUME NEW c, Fits(c), NEW a, DOMAIN a = 1..Len(c.names)
    PROVE  Valid(c, a) <=> Acceptable(c, a)
  <1>1. \A i \in DOMAIN a : i <= c.max
    <2>1. Len(c.names) \in Nat /\ c.max \in Nat /\ Len(c.names) <= c.max
      BY DEF Fits
    <2>2. QED
      BY <2>1
  <1>2. \A i \in DOMAIN a : MayBeMissing(c, i) <=> i > c.min
    BY <1>1 DEF MayBeMissing
  <1>3. QED
    BY <1>2 DEF Valid, Acceptable

\* A line that is checked comes to what it says.
LEMMA LineChecked ==
    ASSUME NEW argv, WordsLeft(argv) \in Seq(CliWord)
    PROVE  \/ CheckArgs(WordsLeft(argv)).status = "error" /\ LineSays(argv) = Refused
           \/ \E a, name :
                 /\ CheckArgs(WordsLeft(argv)) = [status |-> "ok", command |-> name, args |-> a]
                 /\ LineSays(argv) = Accepted(a)
  <1>1. PICK words \in Seq(CliWord) : words = WordsLeft(argv)
    OBVIOUS
  <1>2. \A e : Wrong(e).status = "error"
    BY DEF Wrong
  <1>3. CASE words = <<>>
    <2>1. PICK e : CheckArgs(words) = Wrong(e) /\ LineSays(argv) = Refused
      BY <1>1, <1>3 DEF CheckArgs, LineSays
    <2>2. QED
      BY <1>1, <1>2, <2>1
  <1>4. PICK name : name = Sample(words[1])
    OBVIOUS
  <1>5. CASE words # <<>> /\ name \notin DOMAIN CLI_ARGS
    <2>1. PICK e : CheckArgs(words) = Wrong(e) /\ LineSays(argv) = Refused
      BY <1>1, <1>4, <1>5 DEF CheckArgs, LineSays
    <2>2. QED
      BY <1>1, <1>2, <2>1
  <1>6. CASE words # <<>> /\ name \in DOMAIN CLI_ARGS
    <2>1. PICK c, names, args : c = CLI_ARGS[name] /\ names = c.names /\ args = Tail(words)
      OBVIOUS
    <2>2. args \in Seq(CliWord)
      BY <1>6, <2>1
    <2>3. Fits(c) /\ Len(names) \in Nat /\ DOMAIN names = 1..Len(names)
      BY <1>6, <2>1, CommandsFit DEF Fits
    <2>4. PICK parsed, says : parsed = GetCommandArgs(names, args) /\ says = ArgumentsSay(names, args)
      OBVIOUS
    <2>5. CheckArgs(words) = IF parsed.status = "error" THEN parsed
                             ELSE IF Valid(c, parsed.arguments)
                             THEN [status |-> "ok", command |-> name, args |-> parsed.arguments]
                             ELSE Wrong("Invalid command arguments")
      BY <1>4, <1>6, <2>1, <2>4 DEF CheckArgs
    <2>6. LineSays(argv) = IF says = Refused THEN Refused
                           ELSE IF Acceptable(c, says.args) THEN says ELSE Refused
      BY <1>1, <1>4, <1>6, <2>1, <2>4 DEF LineSays
    <2>7. CASE Misused(names, args)
      BY <1>1, <2>2, <2>3, <2>4, <2>5, <2>6, <2>7, ArgumentsRead
    <2>8. CASE ~Misused(names, args)
      <3>1. PICK a : /\ a = [k \in 1..Len(names) |-> ArgumentSays(names, args, k)]
                     /\ parsed = [status |-> "ok", arguments |-> a] /\ says = Accepted(a)
        BY <2>2, <2>3, <2>4, <2>8, ArgumentsRead
      <3>2. parsed.status # "error" /\ parsed.arguments = a
        BY <3>1
      <3>3. says # Refused /\ says.args = a
        BY <3>1 DEF Accepted, Refused
      <3>4. Valid(c, a) <=> Acceptable(c, a)
        BY <2>1, <2>3, <3>1, ValidIfAcceptable
      <3>5. CASE Valid(c, a)
        BY <1>1, <2>5, <2>6, <3>1, <3>2, <3>3, <3>4, <3>5
      <3>6. CASE ~Valid(c, a)
        BY <1>1, <1>2, <2>5, <2>6, <3>2, <3>3, <3>4, <3>6
      <3>7. QED
        BY <3>5, <3>6
    <2>9. QED
      BY <2>7, <2>8
  <1>7. QED
    BY <1>3, <1>5, <1>6

(* What getCLIOpts, getCommandArgs and checkArgs make of a line, of any      *)
(* length, is what its words say from left to right: the value of every      *)
(* option, the words that are left, whether the line is refused, and every   *)
(* argument the handler gets.                                                *)
THEOREM LinesReadAsGiven == Lines => ReadAsGiven
  <1>1. SUFFICES ASSUME input.kind = "line", input.argv \in Seq(CliWord), Ordinary(input.argv)
                 PROVE  /\ GetCLIOpts(input.argv)
                             = [opts |-> OptionsSay(input.argv), rest |-> WordsLeft(input.argv)]
                        /\ CLIMain(input.argv).status = LineSays(input.argv).status
                        /\ CLIMain(input.argv).status = "ok" =>
                              CLIMain(input.argv).args = LineSays(input.argv).args
    BY DEF Lines, ReadAsGiven
  <1>2. PICK argv \in Seq(CliWord) : argv = input.argv /\ Ordinary(argv)
    BY <1>1
  <1>3. /\ GetCLIOpts(argv) = [opts |-> OptionsSay(argv), rest |-> WordsLeft(argv)]
        /\ WordsLeft(argv) \in Seq(CliWord) /\ ~Throws(OptionsSay(argv))
    BY <1>2, OptionsRead
  <1>4. PICK checked, opts, read : /\ checked = CheckArgs(WordsLeft(argv))
                                   /\ opts = OptionsSay(argv) /\ read = CLIMain(argv)
    OBVIOUS
  <1>5. read = IF checked.status = "error" THEN checked
               ELSE [status |-> "ok", command |-> checked.command, args |-> checked.args,
                     settings |-> Settings(opts),
                     handled |-> checked.command \in DOMAIN COMMANDS \cup {"help"}]
    <2>1. GetCLIOpts(argv).opts = opts /\ GetCLIOpts(argv).rest = WordsLeft(argv)
      BY <1>3, <1>4
    <2>2. QED
      BY <1>3, <1>4, <2>1 DEF CLIMain
  <1>6. /\ read.status = LineSays(argv).status
        /\ read.status = "ok" => read.args = LineSays(argv).args
    <2>1. CASE checked.status = "error" /\ LineSays(argv) = Refused
      BY <1>5, <2>1 DEF Refused
    <2>2. CASE \E a, name : /\ checked = [status |-> "ok", command |-> name, args |-> a]
                            /\ LineSays(argv) = Accepted(a)
      <3>1. PICK a, name : /\ checked = [status |-> "ok", command |-> name, args |-> a]
                           /\ LineSays(argv) = Accepted(a)
        BY <2>2
      <3>2. checked.status # "error" /\ checked.args = a
        BY <3>1
      <3>3. read.status = "ok" /\ read.args = a
        BY <1>5, <3>2
      <3>4. QED
        BY <3>1, <3>3 DEF Accepted
    <2>3. QED
      BY <1>3, <1>4, <2>1, <2>2, LineChecked
  <1>7. QED
    BY <1>2, <1>3, <1>4, <1>6
=============================================================================
