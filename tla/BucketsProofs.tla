---------------------------- MODULE BucketsProofs ----------------------------
(***************************************************************************)
(* A listing gives each file once, a dump holds what it listed and a        *)
(* restore gives it back: for every bucket, page, batch and number of       *)
(* commands, writes, expiries and failures.                                 *)
(***************************************************************************)
EXTENDS Buckets, FiniteSetTheorems, SequenceTheorems, WellFoundedInduction, TLAPS

----------------------------------------------------------------------------
(* Numbers and finite sets of them. *)

\* Of numbers there is a least one.
LEMMA Least ==
    ASSUME NEW T \in SUBSET Nat, T # {}
    PROVE  \E n \in T : \A m \in T : n <= m
  <1>1. PICK R : R = OpToRel(<, Nat)
    OBVIOUS
  <1>2. PICK n \in T : \A m \in T : ~(<<m, n>> \in R)
    BY <1>1, NatLessThanWellFounded, WFMin
  <1>3. ASSUME NEW m \in T, m < n PROVE FALSE
    <2>1. <<m, n>> \in Nat \X Nat
      OBVIOUS
    <2>2. <<m, n>>[1] < <<m, n>>[2]
      BY <1>3
    <2>3. <<m, n>> \in OpToRel(<, Nat)
      BY <2>1, <2>2 DEF OpToRel
    <2>4. QED
      BY <1>1, <1>2, <2>3
  <1>4. QED
    BY <1>3

\* What the assumptions say of the files and the bounds.
LEMMA Bounds ==
    /\ Files \in SUBSET Nat /\ 0 \notin Files /\ Filtered \subseteq Files
    /\ \E n \in Nat : Files = 1..n
    /\ PageSize \in Nat /\ PageSize >= 1 /\ MaxPages \in Nat /\ MaxCommands \in Nat
    /\ MaxWrites \in Nat /\ MaxExpiries \in Nat /\ MaxFaults \in Nat
  <1>1. PICK n \in Nat : n = Len(NameOf) /\ Files = 1..n
    BY BucketsAssumption DEF Files
  <1>2. PageSize \in Nat /\ PageSize # 0 /\ MaxPages \in Nat
    BY BucketsAssumption
  <1>3. MaxCommands \in Nat /\ MaxWrites \in Nat /\ MaxExpiries \in Nat /\ MaxFaults \in Nat
    BY BucketsAssumption
  <1>4. Filtered \subseteq Files
    BY BucketsAssumption
  <1>5. Files \in SUBSET Nat /\ 0 \notin Files /\ PageSize >= 1
    BY <1>1, <1>2
  <1>6. QED
    BY <1>1, <1>2, <1>3, <1>4, <1>5

\* Sets of files are finite, and one that is not empty has a last file.
LEMMA FileSets ==
    ASSUME NEW S \in SUBSET Files
    PROVE  /\ IsFiniteSet(S) /\ Cardinality(S) \in Nat
           /\ S # {} => Max(S) \in S /\ \A f \in S : f <= Max(S)
  <1>1. PICK n \in Nat : Files = 1..n
    BY Bounds
  <1>2. IsFiniteSet(S) /\ Cardinality(S) \in Nat
    <2>1. IsFiniteSet(1..n) /\ S \in SUBSET (1..n)
      BY <1>1, FS_Interval
    <2>2. IsFiniteSet(S)
      BY <2>1, FS_Subset
    <2>3. QED
      BY <2>2, FS_CardinalityType
  <1>3. ASSUME S # {}
        PROVE  \E x \in S : \A f \in S : f <= x
    <2>1. PICK B \in SUBSET Nat : B = {m \in Nat : \A f \in S : f <= m}
      OBVIOUS
    <2>2. n \in B
      BY <1>1, <2>1
    <2>3. PICK x \in B : \A m \in B : x <= m
      BY <2>2, Least
    <2>4. x \in Nat /\ \A f \in S : f <= x /\ f \in Nat
      BY <1>1, <2>1
    <2>5. x \in S
      <3>1. SUFFICES ASSUME x \notin S
                     PROVE  FALSE
        OBVIOUS
      <3>2. \A f \in S : f <= x - 1 /\ f >= 1
        BY <1>1, <2>4, <3>1
      <3>3. x - 1 \in Nat
        BY <1>3, <2>4, <3>2
      <3>4. x - 1 \in B
        BY <2>1, <3>2, <3>3
      <3>5. QED
        BY <2>3, <2>4, <3>3, <3>4
    <2>6. QED
      BY <2>4, <2>5
  <1>4. \A f \in S : f \in Nat
    BY <1>1
  <1>5. QED
    BY <1>2, <1>3, <1>4 DEF Max

\* The place of a file among those of a set.
Place(S, f) == Cardinality({g \in S : g <= f})

\* Places are numbered through, in the order of the files.
LEMMA Places ==
    ASSUME NEW S \in SUBSET Files
    PROVE  /\ \A f \in S : Place(S, f) \in 1..Cardinality(S)
           /\ \A f, g \in S : f < g => Place(S, f) < Place(S, g)
           /\ \A k \in 1..Cardinality(S) : \E f \in S : Place(S, f) = k
  <1>1. IsFiniteSet(S) /\ Cardinality(S) \in Nat /\ \A f \in S : f \in Nat
    BY FileSets, Bounds
  <1>2. ASSUME NEW f \in S
        PROVE  /\ Place(S, f) \in 1..Cardinality(S)
               /\ IsFiniteSet({g \in S : g <= f}) /\ Place(S, f) \in Nat
    <2>1. PICK below \in SUBSET S : below = {g \in S : g <= f}
      OBVIOUS
    <2>2. f \in below
      BY <1>1, <2>1
    <2>3. IsFiniteSet(below) /\ Cardinality(below) <= Cardinality(S)
      BY <1>1, FS_Subset
    <2>4. Cardinality(below) \in Nat /\ Cardinality(below) # 0
      BY <2>2, <2>3, FS_CardinalityType, FS_EmptySet
    <2>5. QED
      BY <1>1, <2>1, <2>3, <2>4 DEF Place
  <1>3. ASSUME NEW f \in S, NEW g \in S, f < g
        PROVE  Place(S, f) < Place(S, g)
    <2>1. PICK low : low = {h \in S : h <= f}
      OBVIOUS
    <2>2. PICK high : high = {h \in S : h <= g}
      OBVIOUS
    <2>3. IsFiniteSet(low) /\ IsFiniteSet(high) /\ Cardinality(low) \in Nat
          /\ Cardinality(high) \in Nat
      BY <1>2, <2>1, <2>2 DEF Place
    <2>4. g \notin low
      BY <1>1, <1>3, <2>1
    <2>5. IsFiniteSet(low \cup {g}) /\ Cardinality(low \cup {g}) = Cardinality(low) + 1
      BY <2>3, <2>4, FS_AddElement
    <2>6. low \cup {g} \in SUBSET high
      BY <1>1, <1>3, <2>1, <2>2
    <2>7. Cardinality(low \cup {g}) <= Cardinality(high)
      BY <2>3, <2>6, FS_Subset
    <2>8. QED
      BY <2>1, <2>2, <2>3, <2>5, <2>7 DEF Place
  <1>4. PICK n \in Nat : n = Cardinality(S)
    BY <1>1
  <1>5. PICK p : p = [f \in S |-> Place(S, f)]
    OBVIOUS
  <1>6. p \in [S -> 1..n] /\ \A f, g \in S : p[f] = p[g] => f = g
    <2>1. p \in [S -> 1..n]
      BY <1>2, <1>4, <1>5
    <2>2. ASSUME NEW f \in S, NEW g \in S, p[f] = p[g]
          PROVE  f = g
      <3>1. Place(S, f) = Place(S, g) /\ Place(S, f) \in Nat
        BY <1>2, <1>5, <2>2
      <3>2. f \in Nat /\ g \in Nat
        BY <1>1
      <3>3. ~(f < g) /\ ~(g < f)
        BY <1>3, <3>1
      <3>4. QED
        BY <3>2, <3>3
    <2>3. QED
      BY <2>1, <2>2
  <1>7. p \in Injection(S, 1..n)
    BY <1>6 DEF Injection, IsInjective
  <1>8. IsFiniteSet(1..n) /\ Cardinality(1..n) = n
    BY FS_Interval
  <1>9. p \in Surjection(S, 1..n)
    BY <1>4, <1>7, <1>8, FS_Injection
  <1>10. \A k \in 1..n : \E f \in S : p[f] = k
    BY <1>9 DEF Surjection
  <1>11. QED
    BY <1>2, <1>3, <1>4, <1>5, <1>10

\* What the callback is given of a page: its files that are not null, in order.
LEMMA NamedRight ==
    ASSUME NEW entries \in SUBSET Files, NEW s, s = Named(entries)
    PROVE  /\ s \in Seq(Files) /\ Len(s) = Cardinality(entries \ Filtered)
           /\ \A i, j \in DOMAIN s : s[i] = s[j] => i = j
           /\ \A i \in DOMAIN s : s[i] \in entries /\ s[i] \notin Filtered
           /\ \A f \in entries \ Filtered : \E i \in DOMAIN s : s[i] = f
  <1>1. PICK files \in SUBSET Files : files = entries \ Filtered
    OBVIOUS
  <1>2. PICK n \in Nat : n = Cardinality(files)
    BY FileSets
  <1>3. IsFiniteSet(files) /\ \A f \in files : f \in Nat
    BY FileSets, Bounds
  <1>4. \E t \in [1..n -> files] : \A i, j \in DOMAIN t : i < j => t[i] < t[j]
    <2>1. PICK t : t = [k \in 1..n |-> CHOOSE f \in files : Place(files, f) = k]
      OBVIOUS
    <2>2. \A k \in 1..n : t[k] \in files /\ Place(files, t[k]) = k
      BY <1>2, <2>1, Places
    <2>3. t \in [1..n -> files]
      BY <2>1, <2>2
    <2>4. ASSUME NEW i \in 1..n, NEW j \in 1..n, i < j
          PROVE  t[i] < t[j]
      <3>1. Place(files, t[i]) < Place(files, t[j])
        BY <2>2, <2>4
      <3>2. t[i] \in Nat /\ t[j] \in Nat
        BY <1>3, <2>2
      <3>3. i \in Nat /\ j \in Nat
        OBVIOUS
      <3>4. t[i] # t[j]
        BY <2>2, <2>4, <3>3
      <3>5. ~(t[j] < t[i])
        <4>1. SUFFICES ASSUME t[j] < t[i]
                       PROVE  FALSE
          OBVIOUS
        <4>2. Place(files, t[j]) < Place(files, t[i])
          BY <2>2, <4>1, Places
        <4>3. QED
          BY <2>2, <2>4, <3>3, <4>2
      <3>6. QED
        BY <3>2, <3>4, <3>5
    <2>5. QED
      BY <2>3, <2>4
  <1>5. s \in [1..n -> files] /\ \A i, j \in DOMAIN s : i < j => s[i] < s[j]
    BY <1>1, <1>2, <1>4 DEF Named
  <1>6. ASSUME NEW i \in 1..n, NEW j \in 1..n, s[i] = s[j]
        PROVE  i = j
    <2>1. i \in Nat /\ j \in Nat /\ s[i] \in Nat /\ s[j] \in Nat
      BY <1>3, <1>5
    <2>2. ~(i < j) /\ ~(j < i)
      BY <1>5, <1>6, <2>1
    <2>3. QED
      BY <2>1, <2>2
  <1>7. s \in Injection(1..n, files)
    BY <1>5, <1>6 DEF Injection, IsInjective
  <1>8. IsFiniteSet(1..n) /\ Cardinality(1..n) = n
    BY FS_Interval
  <1>9. s \in Surjection(1..n, files)
    BY <1>2, <1>3, <1>7, <1>8, FS_Injection
  <1>10. \A f \in files : \E i \in 1..n : s[i] = f
    BY <1>9 DEF Surjection
  <1>11. s \in Seq(Files) /\ Len(s) = n /\ DOMAIN s = 1..n
    <2>1. s \in [1..n -> Files]
      BY <1>5
    <2>2. QED
      BY <2>1
  <1>12. \A i \in DOMAIN s : s[i] \in files
    BY <1>5
  <1>13. \A i, j \in DOMAIN s : s[i] = s[j] => i = j
    BY <1>6, <1>11
  <1>14. QED
    BY <1>1, <1>2, <1>10, <1>11, <1>12, <1>13

\* A page skips none of the files after its marker, and is empty only if there
\* are none.
LEMMA ListedRight ==
    ASSUME bucket \in [Files -> Nat], NEW page \in Nat, NEW entries, entries = Listed(page)
    PROVE  /\ entries \in SUBSET Files /\ entries \subseteq After(page)
           /\ \A f \in entries : \A g \in After(page) : g <= f => g \in entries
           /\ entries = {} => After(page) = {}
  <1>1. PICK after \in SUBSET Files : after = After(page)
    BY DEF After
  <1>2. entries = {f \in after : Place(after, f) <= PageSize}
    BY <1>1 DEF Listed, Place
  <1>3. \A f \in after : f \in Nat /\ Place(after, f) \in Nat
    <2>1. Cardinality(after) \in Nat
      BY FileSets
    <2>2. QED
      BY <2>1, Places, Bounds
  <1>4. ASSUME NEW f \in entries, NEW g \in after, g <= f
        PROVE  g \in entries
    <2>1. f \in after /\ Place(after, f) <= PageSize
      BY <1>2
    <2>2. g = f \/ Place(after, g) < Place(after, f)
      BY <1>3, <1>4, <2>1, Places
    <2>3. QED
      BY <1>2, <1>3, <2>1, <2>2, Bounds
  <1>5. ASSUME after # {}
        PROVE  entries # {}
    <2>1. after \in SUBSET Nat
      BY Bounds
    <2>2. PICK f \in after : \A g \in after : f <= g
      BY <1>5, <2>1, Least
    <2>3. {g \in after : g <= f} = {f}
      BY <1>3, <2>2
    <2>4. Place(after, f) = 1
      BY <2>3, FS_Singleton DEF Place
    <2>5. QED
      BY <1>2, <2>4, Bounds
  <1>6. QED
    BY <1>1, <1>2, <1>4, <1>5

\* The separator of a name is the same in a name and in its path: a path has
\* one name, and a name one path.
LEMMA Names ==
    /\ \A f \in Files : Path(f) \in Paths /\ Unescaped(Path(f)) = Unescaped(NameOf[f])
    /\ \A path \in Paths : Escaped(Unescaped(path)) = path /\ Unescaped(path) \in RestoredNames
    /\ \A p, q \in Paths : Unescaped(p) = Unescaped(q) => p = q
    /\ \A f \in Files : NameOf[f] \in RestoredNames
  <1>1. ASSUME NEW name
        PROVE  /\ Unescaped(Escaped(name)) = Unescaped(name)
               /\ Escaped(Unescaped(Escaped(name))) = Escaped(name)
    BY DEF Escaped, Unescaped
  <1>2. \A f \in Files : Path(f) \in Paths /\ Unescaped(Path(f)) = Unescaped(NameOf[f])
    BY <1>1 DEF Path, Paths
  <1>3. \A path \in Paths : Escaped(Unescaped(path)) = path
    BY <1>1 DEF Path, Paths
  <1>4. \A path \in Paths : Unescaped(path) \in RestoredNames
    BY DEF RestoredNames
  <1>5. \A f \in Files : NameOf[f] \in RestoredNames
    BY DEF RestoredNames, Range, Files
  <1>6. QED
    BY <1>2, <1>3, <1>4, <1>5

----------------------------------------------------------------------------
(* The invariant.  x is the command that runs. *)

Phases == {"none", "authenticating", "connecting", "listing", "transferring", "resolved",
           "rejected"}

\* A listing and a dump are given files, a restore is given paths.
GivenTo(is) == IF is = "restore" THEN Paths ELSE Files

CommandRecord(G) ==
    [is: {"list", "dump", "restore"}, phase: Phases, token: Nat, stop: Nat, page: Nat,
     callCount: Nat, fileCount: Int, given: Seq(G), ended: BOOLEAN, nulls: Nat,
     fetched: Seq(Nat), written: SUBSET Nat, failed: SUBSET Nat]

Typed ==
    /\ bucket \in [Files -> Nat] /\ writes \in Nat /\ epoch \in Nat
    /\ run \in CommandRecord(GivenTo(run.is))
    /\ directory \in [Paths -> Nat] /\ restored \in [RestoredNames -> Nat]
    /\ touched \in SUBSET Files /\ backup \in [Paths -> Nat]

\* Each file is given once, and none that is null.
Once(s) ==
    /\ \A i, j \in DOMAIN s : s[i] = s[j] => i = j
    /\ \A i \in DOMAIN s : s[i] \notin Filtered

Gives(s, f) == \E i \in DOMAIN s : s[i] = f
Gave(x, f) == Gives(x.given, f)

\* What a command has before anything is listed, and before anything is transferred.
Fresh(x) ==
    /\ x.phase \in {"none", "authenticating", "connecting", "listing"} =>
         x.written = {} /\ ~x.ended
    /\ \/ x.phase \in {"none", "authenticating", "connecting"}
       \/ x.phase = "listing" /\ x.callCount = 0
       => x.given = <<>> /\ x.fileCount = 0 /\ x.page = 0
    /\ x.is = "restore" => x.phase \notin {"connecting", "listing"}
    /\ x.is = "list" => x.phase # "authenticating"
    /\ x.is = "dump" => x.stop = 0

\* Up to the marker of its page a listing has been given each file that is
\* there and nobody wrote to, and it has counted what it was given.
UpToPage(x) ==
    x.phase = "listing" =>
        /\ Once(x.given) /\ x.fileCount = Len(x.given)
        /\ \A i \in DOMAIN x.given : x.given[i] <= x.page
        /\ \A f \in Untouched : f <= x.page => (Gave(x, f) <=> bucket[f] # 0)

Whole(x) ==
    x.is # "restore" /\ x.phase \in {"transferring", "resolved"} =>
        /\ Once(x.given)
        /\ \A f \in Untouched : x.ended \/ f <= x.stop => (Gave(x, f) <=> bucket[f] # 0)
        /\ IF x.ended THEN x.fileCount = Len(x.given)
           ELSE x.nulls = 0 => x.fileCount = Len(x.given) - 1

\* What a dump has fetched is what the bucket has, and what it has written is
\* what it has fetched.
Dumped(x) ==
    x.is = "dump" /\ x.phase \in {"transferring", "resolved"} =>
        /\ x.ended /\ DOMAIN x.fetched = DOMAIN x.given
        /\ \A i \in DOMAIN x.given :
             x.fetched[i] # 0 /\ x.given[i] \notin touched => x.fetched[i] = bucket[x.given[i]]
        /\ \A i \in x.written :
             /\ i \in DOMAIN x.given /\ x.fetched[i] # 0
             /\ Alone(x.given[i]) => directory[Path(x.given[i])] = x.fetched[i]
        /\ x.phase = "resolved" => DOMAIN x.given \subseteq x.written

\* A restore is given the whole directory, and has put what is in it.
Restored(x) ==
    x.is = "restore" /\ x.phase \in {"transferring", "resolved"} =>
        /\ \A i, j \in DOMAIN x.given : x.given[i] = x.given[j] => i = j
        /\ \A path \in Paths : directory[path] # 0 => Gave(x, path)
        /\ \A i \in x.written :
             i \in DOMAIN x.given /\ restored[Unescaped(x.given[i])] = directory[x.given[i]]
        /\ x.phase = "resolved" => DOMAIN x.given \subseteq x.written

\* The last dump, if it resolved, is still in the directory.
Kept(x) ==
    /\ \A path \in Paths : backup[path] # 0 => directory[path] = backup[path]
    /\ x.is = "dump" /\ x.phase # "resolved" => \A path \in Paths : backup[path] = 0

RunInv(x) == Fresh(x) /\ UpToPage(x) /\ Whole(x) /\ Dumped(x) /\ Restored(x) /\ Kept(x)

Faithful == Typed /\ RunInv(run)

----------------------------------------------------------------------------
(* The steps: what happens around the command. *)

\* Only the command changes: what is left to show of it.
LEMMA Goes ==
    ASSUME Faithful, NEW x, x \in CommandRecord(GivenTo(x.is)), run' = x, RunInv(x),
           UNCHANGED <<bucket, writes, epoch, directory, restored, touched, backup>>
    PROVE  Faithful'
  <1>1. Typed'
    BY DEF Faithful, Typed
  <1>2. RunInv(x)'
    BY DEF RunInv, Fresh, UpToPage, Whole, Dumped, Restored, Kept, Untouched
  <1>3. RunInv(run)'
    BY <1>2 DEF RunInv, Fresh, UpToPage, Whole, Dumped, Restored, Kept, Gave, Gives
  <1>4. QED
    BY <1>1, <1>3 DEF Faithful

\* The command as a record of its kind.
LEMMA TheCommand ==
    ASSUME Faithful
    PROVE  \E G : G = GivenTo(run.is) /\ run \in CommandRecord(G)
  BY DEF Faithful, Typed

\* A command that fails or is killed keeps nothing of what it had.
LEMMA RejectedKeeps ==
    ASSUME Faithful, run.phase # "resolved", Become(Rejected)
    PROVE  Faithful'
  <1>1. PICK G : G = GivenTo(run.is) /\ run \in CommandRecord(G)
    BY TheCommand
  <1>2. PICK old \in CommandRecord(G) : old = run
    BY <1>1
  <1>3. PICK x \in CommandRecord(G) : x = [old EXCEPT !.phase = "rejected"]
    <2>1. "rejected" \in Phases
      BY DEF Phases
    <2>2. [old EXCEPT !.phase = "rejected"] \in CommandRecord(G)
      BY <2>1 DEF CommandRecord
    <2>3. QED
      BY <2>2
  <1>4. x.is = old.is /\ x.phase = "rejected" /\ x.stop = old.stop
    BY <1>3 DEF CommandRecord
  <1>5. Kept(x) /\ (old.is = "dump" => old.stop = 0)
    BY <1>2, <1>4 DEF Faithful, RunInv, Kept, Fresh
  <1>6. RunInv(x)
    BY <1>4, <1>5 DEF RunInv, Fresh, UpToPage, Whole, Dumped, Restored
  <1>7. QED
    BY <1>1, <1>2, <1>3, <1>4, <1>6, Goes DEF Become, Rejected

\* Another device writes to a file: nobody is asked to know that file any more.
LEMMA OthersWriteKeeps ==
    ASSUME Faithful, NEW f \in Files, OthersWrite(f)
    PROVE  Faithful'
  <1>1. /\ Typed /\ RunInv(run)
        /\ touched' = touched \cup {f} /\ writes' = writes + 1
        /\ UNCHANGED <<run, epoch, directory, restored, backup>>
    BY DEF Faithful, OthersWrite
  <1>2. PICK version \in {0, writes'} : bucket' = [bucket EXCEPT ![f] = version]
    BY DEF OthersWrite
  <1>3. version \in Nat /\ writes' \in Nat
    BY <1>1, <1>2 DEF Typed
  <1>4. /\ bucket' \in [Files -> Nat]
        /\ \A g \in Files \ touched' : bucket'[g] = bucket[g]
    BY <1>1, <1>2, <1>3 DEF Typed
  <1>5. Typed'
    BY <1>1, <1>3, <1>4 DEF Typed
  <1>6. touched \subseteq touched' /\ Untouched' \subseteq Untouched
        /\ \A g \in Untouched' : bucket'[g] = bucket[g]
    BY <1>1, <1>4 DEF Untouched
  <1>7. PICK x : x = run
    OBVIOUS
  <1>8. UpToPage(x)' /\ Whole(x)'
    BY <1>1, <1>6, <1>7 DEF RunInv, UpToPage, Whole
  <1>9. Dumped(x)'
    <2>1. SUFFICES ASSUME x.is = "dump", x.phase \in {"transferring", "resolved"}
                   PROVE  \A i \in DOMAIN x.given :
                            x.fetched[i] # 0 /\ x.given[i] \notin touched'
                              => x.fetched[i] = bucket'[x.given[i]]
      BY <1>1, <1>7 DEF RunInv, Dumped
    <2>2. \A i \in DOMAIN x.given : x.given[i] \in Files
      BY <1>1, <1>7, <2>1 DEF Typed, GivenTo, CommandRecord
    <2>3. \A i \in DOMAIN x.given :
            x.fetched[i] # 0 /\ x.given[i] \notin touched => x.fetched[i] = bucket[x.given[i]]
      BY <1>1, <1>7, <2>1 DEF RunInv, Dumped
    <2>4. QED
      BY <1>1, <1>4, <2>2, <2>3
  <1>10. Fresh(x)' /\ Restored(x)' /\ Kept(x)'
    BY <1>1, <1>7 DEF RunInv, Fresh, Restored, Kept
  <1>11. RunInv(run)'
    BY <1>1, <1>7, <1>8, <1>9, <1>10 DEF RunInv, Fresh, UpToPage, Whole, Dumped, Restored, Kept, Gave, Gives
  <1>12. QED
    BY <1>5, <1>11 DEF Faithful

\* A command is started: it has been given nothing, and no file has been
\* written to; a new dump forgets the last one.
LEMMA StartKeeps ==
    ASSUME Faithful, NEW is \in {"list", "dump", "restore"}, Start(is)
    PROVE  Faithful'
  <1>1. /\ Typed /\ RunInv(run) /\ touched' = {}
        /\ backup' = IF is = "dump" THEN [path \in Paths |-> 0] ELSE backup
        /\ UNCHANGED <<bucket, writes, epoch, directory, restored>>
    BY DEF Faithful, Start
  <1>2. PICK stop \in (IF is = "list" THEN {0} \cup Files ELSE {0}),
             phase \in (IF is = "list" THEN {"connecting", "listing"} ELSE {"authenticating"}),
             token \in 0..epoch :
            run' = Command(is, phase, token, stop)
    BY DEF Start
  <1>3. PICK x : x = Command(is, phase, token, stop) /\ run' = x
    BY <1>2
  <1>4. /\ x.is = is /\ x.phase = phase /\ x.given = <<>> /\ x.fileCount = 0 /\ x.page = 0
        /\ x.callCount = 0 /\ x.written = {} /\ x.ended = FALSE /\ x.stop = stop
    BY <1>3 DEF Command
  <1>5. x \in CommandRecord(GivenTo(x.is))
    <2>1. PICK G : G = GivenTo(x.is)
      OBVIOUS
    <2>2. /\ phase \in Phases /\ stop \in Nat /\ token \in Nat
          /\ <<>> \in Seq(G) /\ <<>> \in Seq(Nat) /\ {} \in SUBSET Nat
      BY <1>2, Bounds DEF Phases
    <2>3. x \in CommandRecord(G)
      BY <1>3, <2>2 DEF CommandRecord, Command
    <2>4. QED
      BY <2>1, <2>3
  <1>6. backup' \in [Paths -> Nat]
    BY <1>1 DEF Typed
  <1>7. Typed'
    BY <1>1, <1>3, <1>5, <1>6 DEF Typed
  <1>8. Fresh(x)' /\ Whole(x)' /\ Dumped(x)' /\ Restored(x)'
    BY <1>2, <1>4 DEF Fresh, Whole, Dumped, Restored
  <1>9. UpToPage(x)'
    <2>1. \A f \in Files : ~(f <= 0)
      BY Bounds
    <2>2. Untouched' \subseteq Files
      BY DEF Untouched
    <2>3. DOMAIN x.given = {} /\ Len(x.given) = 0
      BY <1>4
    <2>4. Once(x.given)
      BY <2>3 DEF Once
    <2>5. QED
      BY <1>4, <2>1, <2>2, <2>3, <2>4 DEF UpToPage
  <1>10. Kept(x)'
    BY <1>1, <1>4 DEF RunInv, Kept
  <1>11. RunInv(run)'
    BY <1>3, <1>8, <1>9, <1>10 DEF RunInv, Fresh, UpToPage, Whole, Dumped, Restored, Kept, Gave, Gives
  <1>12. QED
    BY <1>7, <1>11 DEF Faithful

\* The paths of a directory, one after the other.
LEMMA PathsInSequence ==
    ASSUME NEW S \in SUBSET Paths, NEW s, s = SetToSeq(S)
    PROVE  /\ s \in Seq(Paths)
           /\ \A i, j \in DOMAIN s : s[i] = s[j] => i = j
           /\ \A path \in S : \E i \in DOMAIN s : s[i] = path
  <1>1. IsFiniteSet(S)
    <2>1. PICK p : p = [f \in Files |-> Path(f)]
      OBVIOUS
    <2>2. p \in Surjection(Files, Paths)
      BY <2>1 DEF Paths, Surjection
    <2>3. IsFiniteSet(Files)
      BY FileSets
    <2>4. IsFiniteSet(Paths)
      BY <2>2, <2>3, FS_Surjection
    <2>5. QED
      BY <2>4, FS_Subset
  <1>2. PICK n \in Nat : n = Cardinality(S) /\ ExistsBijection(1..n, S)
    BY <1>1, FS_CardinalityType
  <1>3. \E t \in [1..n -> S] : IsInjective(t)
    BY <1>2 DEF ExistsBijection, Bijection, Injection
  <1>4. s \in [1..n -> S] /\ IsInjective(s)
    BY <1>2, <1>3 DEF SetToSeq
  <1>5. s \in Injection(1..n, S)
    BY <1>4 DEF Injection
  <1>6. s \in Surjection(1..n, S)
    <2>1. IsFiniteSet(1..n) /\ Cardinality(1..n) = n
      BY FS_Interval
    <2>2. QED
      BY <1>1, <1>2, <1>5, <2>1, FS_Injection
  <1>7. \A path \in S : \E i \in 1..n : s[i] = path
    BY <1>6 DEF Surjection
  <1>8. s \in Seq(Paths)
    <2>1. s \in [1..n -> Paths]
      BY <1>4
    <2>2. QED
      BY <2>1
  <1>9. QED
    BY <1>4, <1>7, <1>8 DEF IsInjective

\* A command goes on to connect; the files of a restore are read.
LEMMA AuthenticatedKeeps ==
    ASSUME Faithful, Authenticated
    PROVE  Faithful'
  <1>1. /\ Typed /\ RunInv(run) /\ run.phase = "authenticating"
        /\ UNCHANGED <<bucket, writes, epoch, directory, restored, touched, backup>>
    BY DEF Faithful, Authenticated, Become
  <1>2. PICK G : G = GivenTo(run.is) /\ run \in CommandRecord(G)
    BY TheCommand
  <1>3. PICK old \in CommandRecord(G) : old = run
    BY <1>2
  <1>4. /\ old.written = {} /\ ~old.ended /\ old.given = <<>> /\ old.fileCount = 0
        /\ old.page = 0 /\ (old.is = "dump" => old.stop = 0) /\ Kept(old)
        /\ old.phase = "authenticating"
    BY <1>1, <1>3 DEF RunInv, Fresh
  <1>5. CASE old.is = "dump"
    <2>1. PICK x \in CommandRecord(G) : x = [old EXCEPT !.phase = "connecting"]
      <3>1. "connecting" \in Phases
        BY DEF Phases
      <3>2. [old EXCEPT !.phase = "connecting"] \in CommandRecord(G)
        BY <3>1 DEF CommandRecord
      <3>3. QED
        BY <3>2
    <2>2. /\ x.phase = "connecting" /\ x.is = old.is /\ x.given = old.given /\ x.stop = old.stop
          /\ x.written = old.written /\ x.ended = old.ended /\ x.fileCount = old.fileCount
          /\ x.page = old.page
      BY <2>1 DEF CommandRecord
    <2>3. RunInv(x)
      BY <1>4, <1>5, <2>2 DEF RunInv, Fresh, UpToPage, Whole, Dumped, Restored, Kept
    <2>4. run' = x
      BY <1>3, <1>5, <2>1 DEF Authenticated, Become
    <2>5. QED
      BY <1>1, <1>2, <1>3, <2>2, <2>3, <2>4, Goes
  <1>6. CASE old.is # "dump"
    <2>1. old.is = "restore" /\ G = Paths
      BY <1>1, <1>2, <1>3, <1>6 DEF RunInv, Fresh, GivenTo, CommandRecord
    <2>2. PICK S \in SUBSET Paths : S = {path \in Paths : directory[path] # 0}
      OBVIOUS
    <2>3. PICK given \in Seq(Paths) : given = SetToSeq(S)
      BY PathsInSequence
    <2>4. /\ \A i, j \in DOMAIN given : given[i] = given[j] => i = j
          /\ \A path \in S : \E i \in DOMAIN given : given[i] = path
      BY <2>3, PathsInSequence
    <2>5. PICK x \in CommandRecord(G) : x = [old EXCEPT !.phase = "transferring", !.given = given]
      <3>1. "transferring" \in Phases
        BY DEF Phases
      <3>2. [old EXCEPT !.phase = "transferring", !.given = given] \in CommandRecord(G)
        BY <2>1, <3>1 DEF CommandRecord
      <3>3. QED
        BY <3>2
    <2>6. run' = x
      BY <1>3, <1>6, <2>2, <2>3, <2>5 DEF Authenticated, Become
    <2>7. x.phase = "transferring" /\ x.is = "restore" /\ x.given = given /\ x.written = {}
      BY <1>4, <2>1, <2>5 DEF CommandRecord
    <2>8. Restored(x)
      BY <2>2, <2>4, <2>7 DEF Restored, Gave, Gives
    <2>9. Kept(x)
      BY <1>4, <2>7 DEF Kept
    <2>10. Fresh(x) /\ UpToPage(x) /\ Whole(x) /\ Dumped(x)
      BY <2>7 DEF Fresh, UpToPage, Whole, Dumped
    <2>11. RunInv(x)
      BY <2>8, <2>9, <2>10 DEF RunInv
    <2>12. x \in CommandRecord(GivenTo(x.is))
      BY <2>1, <2>5, <2>7 DEF GivenTo
    <2>13. QED
      BY <1>1, <2>6, <2>11, <2>12, Goes
  <1>7. QED
    BY <1>5, <1>6

----------------------------------------------------------------------------
(* The steps: the listing. *)

\* Before the first page nothing is listed, and there is no file.
LEMMA NothingYet ==
    /\ Once(<<>>) /\ Len(<<>>) = 0 /\ DOMAIN <<>> = {}
    /\ \A f \in Untouched : ~(f <= 0)
  <1>1. Untouched \subseteq Files /\ \A f \in Files : ~(f <= 0)
    BY Bounds DEF Untouched
  <1>2. DOMAIN <<>> = {} /\ Len(<<>>) = 0
    OBVIOUS
  <1>3. QED
    BY <1>1, <1>2 DEF Once

\* A connection is there: the first page is asked for.
LEMMA ConnectedKeeps ==
    ASSUME Faithful, Connected
    PROVE  Faithful'
  <1>1. /\ Typed /\ RunInv(run) /\ run.phase = "connecting"
        /\ UNCHANGED <<bucket, writes, epoch, directory, restored, touched, backup>>
    BY DEF Faithful, Connected, Become
  <1>2. PICK G : G = GivenTo(run.is) /\ run \in CommandRecord(G)
    BY TheCommand
  <1>3. PICK old \in CommandRecord(G) : old = run
    BY <1>2
  <1>4. /\ old.written = {} /\ ~old.ended /\ old.given = <<>> /\ old.fileCount = 0
        /\ old.page = 0 /\ (old.is = "dump" => old.stop = 0) /\ old.is # "restore" /\ Kept(old)
        /\ old.phase = "connecting"
    BY <1>1, <1>3 DEF RunInv, Fresh
  <1>5. PICK x : x = [old EXCEPT !.phase = "listing", !.token = epoch]
    OBVIOUS
  <1>6. run' = x
    BY <1>3, <1>5 DEF Connected, Become
  <1>7. /\ x.phase = "listing" /\ x.is = old.is /\ x.given = <<>> /\ x.fileCount = 0
        /\ x.page = 0 /\ x.stop = old.stop /\ x.written = {} /\ ~x.ended
    BY <1>4, <1>5 DEF CommandRecord
  <1>8. x \in CommandRecord(G)
    <2>1. "listing" \in Phases
      BY DEF Phases
    <2>2. epoch \in Nat
      BY <1>1 DEF Typed
    <2>3. QED
      BY <1>5, <2>1, <2>2 DEF CommandRecord
  <1>9. UpToPage(x)
    BY <1>7, NothingYet DEF UpToPage, Gave, Gives
  <1>10. Fresh(x) /\ Whole(x) /\ Dumped(x) /\ Restored(x) /\ Kept(x)
    BY <1>4, <1>7 DEF Fresh, Whole, Dumped, Restored, Kept
  <1>11. QED
    BY <1>1, <1>2, <1>3, <1>6, <1>7, <1>8, <1>9, <1>10, Goes DEF RunInv

\* A page fails: the first call starts again with a new connection, before it
\* has given anything; any other one ends the listing.
LEMMA PageFailsKeeps ==
    ASSUME Faithful, NEW refused \in BOOLEAN, PageFails(refused)
    PROVE  Faithful'
  <1>1. /\ Typed /\ RunInv(run) /\ run.phase = "listing"
        /\ Become(IF run.callCount = 0
              THEN [run EXCEPT !.phase = "connecting", !.callCount = 1, !.fileCount = 0]
              ELSE Rejected)
    BY DEF Faithful, PageFails
  <1>2. CASE run.callCount # 0
    BY <1>1, <1>2, RejectedKeeps
  <1>3. CASE run.callCount = 0
    <2>1. PICK G : G = GivenTo(run.is) /\ run \in CommandRecord(G)
      BY TheCommand
    <2>2. PICK old \in CommandRecord(G) : old = run
      BY <2>1
    <2>3. /\ old.written = {} /\ ~old.ended /\ old.given = <<>> /\ old.page = 0
          /\ (old.is = "dump" => old.stop = 0) /\ old.is # "restore" /\ Kept(old)
          /\ old.phase = "listing"
      BY <1>1, <1>3, <2>2 DEF RunInv, Fresh
    <2>4. PICK x \in CommandRecord(G) :
            x = [old EXCEPT !.phase = "connecting", !.callCount = 1, !.fileCount = 0]
      <3>1. "connecting" \in Phases
        BY DEF Phases
      <3>2. PICK a \in CommandRecord(G) : a = [old EXCEPT !.phase = "connecting"]
        <4>1. [old EXCEPT !.phase = "connecting"] \in CommandRecord(G)
          BY <3>1 DEF CommandRecord
        <4>2. QED
          BY <4>1
      <3>3. PICK b \in CommandRecord(G) : b = [a EXCEPT !.callCount = 1]
        <4>1. [a EXCEPT !.callCount = 1] \in CommandRecord(G)
          BY DEF CommandRecord
        <4>2. QED
          BY <4>1
      <3>4. [b EXCEPT !.fileCount = 0] \in CommandRecord(G)
        <4>1. 0 \in Int
          OBVIOUS
        <4>2. PICK zero \in Int : zero = 0
          BY <4>1
        <4>3. [b EXCEPT !.fileCount = zero] \in CommandRecord(G)
          BY DEF CommandRecord
        <4>4. QED
          BY <4>2, <4>3
      <3>5. [b EXCEPT !.fileCount = 0]
              = [old EXCEPT !.phase = "connecting", !.callCount = 1, !.fileCount = 0]
        BY <3>2, <3>3 DEF CommandRecord
      <3>6. QED
        BY <3>4, <3>5
    <2>5. /\ x.phase = "connecting" /\ x.is = old.is /\ x.given = <<>> /\ x.fileCount = 0
          /\ x.page = 0 /\ x.stop = old.stop /\ x.written = {} /\ ~x.ended
      BY <2>3, <2>4 DEF CommandRecord
    <2>6. RunInv(x)
      BY <2>3, <2>5 DEF RunInv, Fresh, UpToPage, Whole, Dumped, Restored, Kept
    <2>7. run' = x /\ UNCHANGED <<bucket, writes, epoch, directory, restored, touched, backup>>
      BY <1>1, <1>3, <2>2, <2>4 DEF Become
    <2>8. QED
      BY <2>1, <2>2, <2>5, <2>6, <2>7, Goes
  <1>4. QED
    BY <1>2, <1>3

\* What a page gives comes after what was given up to its marker.
Follows(s, entries, given, page) ==
    /\ Once(given) /\ \A i \in DOMAIN given : given[i] <= page
    /\ Once(s) /\ \A i \in DOMAIN s : s[i] \in entries
    /\ entries \subseteq After(page)

\* What a page adds to what was given: its files, each of them once, and every
\* file up to the last one of them that is there and nobody wrote to.
LEMMA PageAdds ==
    ASSUME NEW given \in Seq(Files), NEW page \in Nat, NEW s \in Seq(Files),
           NEW entries \in SUBSET Files, Follows(s, entries, given, page),
           NEW t, t = given \o s
    PROVE  /\ t \in Seq(Files) /\ Len(t) = Len(given) + Len(s) /\ Once(t)
           /\ \A f : Gives(t, f) <=> Gives(given, f) \/ Gives(s, f)
  <1>0. Once(given) /\ Once(s)
    BY DEF Follows
  <1>1. PICK n \in Nat : n = Len(given) /\ DOMAIN given = 1..n
    OBVIOUS
  <1>2. PICK m \in Nat : m = Len(s) /\ DOMAIN s = 1..m
    OBVIOUS
  <1>3. t \in Seq(Files) /\ t = given \o s
    BY ConcatProperties
  <1>4. /\ Len(t) = n + m /\ DOMAIN t = 1..(n + m)
        /\ \A i \in 1..n : t[i] = given[i]
        /\ \A i \in 1..m : t[n + i] = s[i]
    <2>1. given \in Seq(Files) /\ s \in Seq(Files)
      OBVIOUS
    <2>2. /\ Len(t) = n + m
          /\ \A i \in 1..(n + m) : t[i] = IF i <= n THEN given[i] ELSE s[i - n]
      BY ONLY <1>1, <1>2, <1>3, <2>1, ConcatProperties
    <2>3. DOMAIN t = 1..(n + m)
      BY <1>3, <2>2
    <2>4. \A i \in 1..n : t[i] = given[i]
      BY <2>2
    <2>5. ASSUME NEW i \in 1..m
          PROVE  t[n + i] = s[i]
      <3>1. n + i \in 1..(n + m) /\ ~(n + i <= n) /\ (n + i) - n = i
        OBVIOUS
      <3>2. QED
        BY <2>2, <3>1
    <2>6. QED
      BY <2>2, <2>3, <2>4, <2>5
  <1>5. \A i \in 1..(n + m) : i \in 1..n \/ \E j \in 1..m : i = n + j
    <2>1. TAKE i \in 1..(n + m)
    <2>2. i \in 1..n \/ (i - n \in 1..m /\ i = n + (i - n))
      OBVIOUS
    <2>3. QED
      BY <2>2
  <1>6. \A i \in 1..n, j \in 1..m : given[i] # s[j]
    <2>1. TAKE i \in 1..n, j \in 1..m
    <2>2. given[i] <= page /\ s[j] \in After(page)
      BY <1>1, <1>2 DEF Follows
    <2>3. s[j] > page
      BY <2>2 DEF After
    <2>4. s[j] \in Nat /\ given[i] \in Nat
      <3>1. s[j] \in Files /\ given[i] \in Files
        BY <1>1, <1>2
      <3>2. QED
        BY <3>1, Bounds
    <2>5. QED
      BY <2>2, <2>3, <2>4
  <1>7. \A i, j \in DOMAIN t : t[i] = t[j] => i = j
    <2>1. SUFFICES ASSUME NEW i \in 1..(n + m), NEW j \in 1..(n + m), t[i] = t[j]
                   PROVE  i = j
      BY <1>4
    <2>2. CASE i \in 1..n /\ j \in 1..n
      BY <1>0, <1>1, <1>4, <2>1, <2>2 DEF Once
    <2>3. CASE i \in 1..n /\ j \notin 1..n
      <3>1. PICK k \in 1..m : j = n + k
        BY <1>5, <2>3
      <3>2. given[i] = s[k]
        BY <1>4, <2>1, <2>3, <3>1
      <3>3. QED
        BY <1>6, <2>3, <3>2
    <2>4. CASE i \notin 1..n /\ j \in 1..n
      <3>1. PICK k \in 1..m : i = n + k
        BY <1>5, <2>4
      <3>2. given[j] = s[k]
        BY <1>4, <2>1, <2>4, <3>1
      <3>3. QED
        BY <1>6, <2>4, <3>2
    <2>5. CASE i \notin 1..n /\ j \notin 1..n
      <3>1. PICK k \in 1..m : i = n + k
        BY <1>5, <2>5
      <3>2. PICK l \in 1..m : j = n + l
        BY <1>5, <2>5
      <3>3. s[k] = s[l]
        BY <1>4, <2>1, <3>1, <3>2
      <3>4. k = l
        BY <1>0, <1>2, <3>3 DEF Once
      <3>5. QED
        BY <3>1, <3>2, <3>4
    <2>6. QED
      BY <2>2, <2>3, <2>4, <2>5
  <1>8. \A i \in DOMAIN t : t[i] \notin Filtered
    <2>1. SUFFICES ASSUME NEW i \in 1..(n + m)
                   PROVE  t[i] \notin Filtered
      BY <1>4
    <2>2. CASE i \in 1..n
      BY <1>0, <1>1, <1>4, <2>2 DEF Once
    <2>3. CASE i \notin 1..n
      <3>1. PICK k \in 1..m : i = n + k
        BY <1>5, <2>3
      <3>2. t[i] = s[k]
        BY <1>4, <3>1
      <3>3. QED
        BY <1>0, <1>2, <3>2 DEF Once
    <2>4. QED
      BY <2>2, <2>3
  <1>9. ASSUME NEW f
        PROVE  (\E i \in DOMAIN t : t[i] = f)
                 <=> \/ \E i \in DOMAIN given : given[i] = f
                     \/ \E i \in DOMAIN s : s[i] = f
    <2>1. ASSUME NEW i \in 1..(n + m), t[i] = f
          PROVE  \/ \E k \in 1..n : given[k] = f
                 \/ \E k \in 1..m : s[k] = f
      BY <1>4, <1>5, <2>1
    <2>2. ASSUME NEW k \in 1..n, given[k] = f
          PROVE  \E i \in 1..(n + m) : t[i] = f
      <3>1. k \in 1..(n + m) /\ t[k] = f
        BY <1>4, <2>2
      <3>2. QED
        BY <3>1
    <2>3. ASSUME NEW k \in 1..m, s[k] = f
          PROVE  \E i \in 1..(n + m) : t[i] = f
      <3>1. n + k \in 1..(n + m) /\ t[n + k] = f
        BY <1>4, <2>3
      <3>2. QED
        BY <3>1
    <2>4. QED
      BY <1>1, <1>2, <1>4, <2>1, <2>2, <2>3
  <1>10. Once(t)
    BY <1>0, <1>7, <1>8 DEF Once
  <1>11. \A f : Gives(t, f) <=> Gives(given, f) \/ Gives(s, f)
    BY <1>9 DEF Gives
  <1>12. QED
    BY <1>1, <1>2, <1>3, <1>4, <1>10, <1>11

\* A file that nobody wrote to is told of by the listing with its page, if the
\* page has it in case it is there and after the marker.
LEMMA PageTells ==
    ASSUME NEW given \in Seq(Files), NEW page \in Nat, NEW entries \in SUBSET Files,
           NEW s, s = Named(entries), bucket \in [Files -> Nat],
           Once(given), \A i \in DOMAIN given : given[i] <= page,
           entries \subseteq After(page),
           NEW f \in Untouched,
           f <= page => (Gives(given, f) <=> bucket[f] # 0),
           f \in After(page) => f \in entries,
           NEW t, t = given \o s
    PROVE  Gives(t, f) <=> bucket[f] # 0
  <1>1. /\ s \in Seq(Files) /\ Once(s) /\ \A i \in DOMAIN s : s[i] \in entries
        /\ \A g \in entries \ Filtered : Gives(s, g)
    <2>1. entries \in SUBSET Files /\ s = Named(entries)
      OBVIOUS
    <2>2. /\ s \in Seq(Files)
          /\ \A i, j \in DOMAIN s : s[i] = s[j] => i = j
          /\ \A i \in DOMAIN s : s[i] \in entries /\ s[i] \notin Filtered
          /\ \A g \in entries \ Filtered : \E i \in DOMAIN s : s[i] = g
      BY ONLY <2>1, NamedRight
    <2>3. QED
      BY ONLY <2>2 DEF Once, Gives
  <1>2. Gives(t, f) <=> Gives(given, f) \/ Gives(s, f)
    <2>1. Follows(s, entries, given, page)
      BY <1>1 DEF Follows
    <2>2. QED
      BY <1>1, <2>1, PageAdds
  <1>3. f \in Files /\ f \notin Filtered /\ f \in Nat
    BY Bounds DEF Untouched
  <1>4. CASE f <= page
    <2>1. f \notin After(page)
      BY <1>3, <1>4 DEF After
    <2>2. ~Gives(s, f)
      BY <1>1, <2>1 DEF Gives
    <2>3. QED
      BY <1>2, <1>4, <2>2
  <1>5. CASE ~(f <= page)
    <2>1. ~Gives(given, f)
      BY <1>5 DEF Gives
    <2>2. f \in After(page) <=> bucket[f] # 0
      BY <1>3, <1>5 DEF After
    <2>3. f \in entries <=> bucket[f] # 0
      BY <2>2
    <2>4. Gives(s, f) <=> f \in entries
      BY <1>1, <1>3 DEF Gives
    <2>5. QED
      BY <1>2, <2>1, <2>3, <2>4
  <1>6. QED
    BY <1>4, <1>5

\* The callback ends the listing: every file up to the last one it was given has
\* been told of.
LEMMA PageStopsKeeps ==
    ASSUME Faithful, PageStops
    PROVE  Faithful'
  <1>1. /\ Typed /\ RunInv(run) /\ run.phase = "listing"
        /\ UNCHANGED <<bucket, writes, epoch, directory, restored, touched, backup>>
    BY DEF Faithful, PageStops, Become
  <1>2. PICK G : G = GivenTo(run.is) /\ run \in CommandRecord(G)
    BY TheCommand
  <1>3. PICK old \in CommandRecord(G) : old = run
    BY <1>2
  <1>4. /\ old.phase = "listing" /\ old.is # "restore" /\ old.written = {} /\ ~old.ended
        /\ (old.is = "dump" => old.stop = 0) /\ Kept(old)
        /\ Once(old.given) /\ old.fileCount = Len(old.given)
        /\ \A i \in DOMAIN old.given : old.given[i] <= old.page
        /\ \A f \in Untouched : f <= old.page => (Gave(old, f) <=> bucket[f] # 0)
    BY <1>1, <1>3 DEF RunInv, Fresh, UpToPage
  <1>5. /\ G = Files /\ old.given \in Seq(Files) /\ old.page \in Nat /\ old.stop \in Nat
        /\ bucket \in [Files -> Nat] /\ old.ended \in BOOLEAN /\ old.fileCount \in Int
    BY <1>1, <1>2, <1>3, <1>4 DEF CommandRecord, GivenTo, Typed
  <1>6. PICK entries : entries = Listed(old.page)
    OBVIOUS
  <1>7. /\ entries \in SUBSET Files /\ entries \subseteq After(old.page)
        /\ \A f \in entries : \A g \in After(old.page) : g <= f => g \in entries
    BY <1>5, <1>6, ListedRight
  <1>8. PICK upTo \in SUBSET Files : upTo = {f \in entries : f <= old.stop}
    BY <1>7
  <1>9. PICK s : s = Named(upTo)
    OBVIOUS
  <1>10. /\ old.stop \in entries
         /\ run' = [old EXCEPT !.phase = "resolved", !.given = @ \o s,
                               !.nulls = Cardinality(upTo \cap Filtered),
                               !.fileCount = @ + Cardinality(upTo) - 1]
    BY <1>3, <1>6, <1>8, <1>9 DEF PageStops, Stops, Become
  <1>11. old.is = "list"
    <2>1. old.stop # 0
      BY <1>7, <1>10, Bounds
    <2>2. old.is \in {"list", "dump", "restore"}
      BY DEF CommandRecord
    <2>3. QED
      BY <1>4, <2>1, <2>2
  <1>12. /\ s \in Seq(Files) /\ Len(s) = Cardinality(upTo \ Filtered) /\ Once(s)
         /\ \A i \in DOMAIN s : s[i] \in upTo
         /\ upTo \subseteq After(old.page)
    BY <1>7, <1>8, <1>9, NamedRight DEF Once
  <1>13. PICK given \in Seq(Files) :
            /\ given = old.given \o s /\ Len(given) = Len(old.given) + Len(s) /\ Once(given)
    <2>1. Follows(s, upTo, old.given, old.page)
      BY <1>4, <1>12 DEF Follows
    <2>2. PICK t : t = old.given \o s
      OBVIOUS
    <2>3. t \in Seq(Files) /\ Len(t) = Len(old.given) + Len(s) /\ Once(t)
      <3>1. PICK begun \in Seq(Files), page \in Nat : begun = old.given /\ page = old.page
        BY <1>5
      <3>2. Follows(s, upTo, begun, page) /\ t = begun \o s
        BY <2>1, <2>2, <3>1
      <3>3. t \in Seq(Files) /\ Len(t) = Len(begun) + Len(s) /\ Once(t)
        BY ONLY <1>12, <3>2, PageAdds
      <3>4. QED
        BY <3>1, <3>3
    <2>4. QED
      BY <2>2, <2>3
  <1>14. PICK nulls \in Nat, count \in Nat :
            nulls = Cardinality(upTo \cap Filtered) /\ count = Cardinality(upTo)
    <2>1. upTo \cap Filtered \in SUBSET Files
      BY <1>8
    <2>2. Cardinality(upTo) \in Nat /\ Cardinality(upTo \cap Filtered) \in Nat
      BY <1>8, <2>1, FileSets
    <2>3. QED
      BY <2>2
  <1>15. nulls = 0 => Len(s) = count
    <2>1. ASSUME nulls = 0
          PROVE  Len(s) = count
      <3>1. IsFiniteSet(upTo \cap Filtered)
        <4>1. upTo \cap Filtered \in SUBSET Files
          BY <1>8
        <4>2. QED
          BY <4>1, FileSets
      <3>2. upTo \cap Filtered = {}
        BY <1>14, <2>1, <3>1, FS_EmptySet
      <3>3. upTo \ Filtered = upTo
        BY <3>2
      <3>4. QED
        BY <1>12, <1>14, <3>3
    <2>2. QED
      BY <2>1
  <1>16. PICK fileCount \in Int : fileCount = old.fileCount + count - 1
    BY <1>5
  <1>17. PICK x \in CommandRecord(G) :
            x = [old EXCEPT !.phase = "resolved", !.given = given, !.nulls = nulls,
                            !.fileCount = fileCount]
    <2>1. "resolved" \in Phases
      BY DEF Phases
    <2>2. [old EXCEPT !.phase = "resolved", !.given = given, !.nulls = nulls,
                      !.fileCount = fileCount] \in CommandRecord(G)
      BY <1>5, <2>1 DEF CommandRecord
    <2>3. QED
      BY <2>2
  <1>18. /\ x.phase = "resolved" /\ x.is = "list" /\ x.given = given /\ x.nulls = nulls
         /\ x.fileCount = fileCount /\ x.ended = old.ended /\ x.stop = old.stop
    BY <1>11, <1>17 DEF CommandRecord
  <1>19. run' = x
    BY <1>10, <1>13, <1>14, <1>16, <1>17
  <1>20. \A f \in Untouched : f <= x.stop => (Gave(x, f) <=> bucket[f] # 0)
    <2>1. SUFFICES ASSUME NEW f \in Untouched, f <= old.stop
                   PROVE  Gives(given, f) <=> bucket[f] # 0
      BY <1>18 DEF Gave
    <2>2. f \in After(old.page) => f \in upTo
      BY <1>7, <1>8, <1>10, <2>1
    <2>3. f <= old.page => (Gives(old.given, f) <=> bucket[f] # 0)
      BY <1>4 DEF Gave
    <2>4. QED
      <3>1. PICK begun \in Seq(Files), page \in Nat : begun = old.given /\ page = old.page
        BY <1>5
      <3>2. /\ bucket \in [Files -> Nat] /\ Once(begun)
            /\ \A i \in DOMAIN begun : begun[i] <= page
            /\ upTo \subseteq After(page) /\ given = begun \o s
            /\ f <= page => (Gives(begun, f) <=> bucket[f] # 0)
            /\ f \in After(page) => f \in upTo
        BY <1>4, <1>5, <1>12, <1>13, <2>2, <2>3, <3>1
      <3>3. f \in Untouched
        BY <2>1
      <3>4. QED
        BY ONLY <1>9, <3>2, <3>3, PageTells
  <1>21. Whole(x)
    <2>1. nulls = 0 => fileCount = Len(given) - 1
      <3>1. PICK n \in Nat, m \in Nat : n = Len(old.given) /\ m = Len(s)
        BY <1>5, <1>12
      <3>2. Len(given) = n + m /\ fileCount = n + count - 1
        BY <1>4, <1>13, <1>16, <3>1
      <3>3. QED
        BY <1>14, <1>15, <3>1, <3>2
    <2>2. QED
      BY <1>4, <1>13, <1>18, <1>20, <2>1 DEF Whole
  <1>22. Fresh(x) /\ UpToPage(x) /\ Dumped(x) /\ Restored(x) /\ Kept(x)
    BY <1>4, <1>11, <1>18 DEF Fresh, UpToPage, Dumped, Restored, Kept
  <1>23. x \in CommandRecord(GivenTo(x.is))
    BY <1>5, <1>17, <1>18 DEF GivenTo
  <1>24. QED
    BY <1>1, <1>19, <1>21, <1>22, <1>23, Goes DEF RunInv

\* A page without an end, or the last page: with it each file up to the marker,
\* or each one that there is, has been told of.
LEMMA PageReadKeeps ==
    ASSUME Faithful, PageRead
    PROVE  Faithful'
  <1>1. /\ Typed /\ RunInv(run) /\ run.phase = "listing"
        /\ UNCHANGED <<bucket, writes, epoch, directory, restored, touched, backup>>
    BY DEF Faithful, PageRead, Become
  <1>2. PICK G : G = GivenTo(run.is) /\ run \in CommandRecord(G)
    BY TheCommand
  <1>3. PICK old \in CommandRecord(G) : old = run
    BY <1>2
  <1>4. /\ old.phase = "listing" /\ old.is # "restore" /\ old.written = {}
        /\ (old.is = "dump" => old.stop = 0) /\ Kept(old)
        /\ Once(old.given) /\ old.fileCount = Len(old.given) /\ ~old.ended
        /\ \A i \in DOMAIN old.given : old.given[i] <= old.page
        /\ \A f \in Untouched : f <= old.page => (Gave(old, f) <=> bucket[f] # 0)
    BY <1>1, <1>3 DEF RunInv, Fresh, UpToPage
  <1>5. /\ G = Files /\ old.given \in Seq(Files) /\ old.page \in Nat /\ old.fileCount \in Int
        /\ bucket \in [Files -> Nat] /\ old.is \in {"list", "dump", "restore"}
        /\ old.callCount \in Nat
    BY <1>1, <1>2, <1>3, <1>4 DEF CommandRecord, GivenTo, Typed
  <1>6. PICK begun \in Seq(Files), page \in Nat : begun = old.given /\ page = old.page
    BY <1>5
  <1>7. PICK entries : entries = Listed(old.page)
    OBVIOUS
  <1>8. /\ entries \in SUBSET Files /\ entries \subseteq After(page)
        /\ \A f \in entries : \A g \in After(page) : g <= f => g \in entries
        /\ entries = {} => After(page) = {}
    BY <1>5, <1>6, <1>7, ListedRight
  <1>9. PICK s : s = Named(entries)
    OBVIOUS
  <1>10. /\ s \in Seq(Files) /\ Len(s) = Cardinality(entries \ Filtered) /\ Once(s)
         /\ \A i \in DOMAIN s : s[i] \in entries
    BY <1>8, <1>9, NamedRight DEF Once
  <1>11. PICK t : t = begun \o s
    OBVIOUS
  <1>12. Follows(s, entries, begun, page)
    BY <1>4, <1>6, <1>8, <1>10 DEF Follows
  <1>13. t \in Seq(Files) /\ Len(t) = Len(begun) + Len(s) /\ Once(t)
         /\ \A f : Gives(t, f) <=> Gives(begun, f) \/ Gives(s, f)
    BY ONLY <1>8, <1>10, <1>11, <1>12, PageAdds
  <1>14. PICK given \in Seq(Files) : given = t
    BY <1>13
  <1>15. PICK fileCount \in Int :
            fileCount = old.fileCount + Counted(entries) /\ fileCount = Len(given)
    <2>1. PICK n \in Nat, m \in Nat : n = Len(begun) /\ m = Len(s)
      BY <1>10
    <2>2. Counted(entries) = m /\ old.fileCount = n
      BY <1>4, <1>6, <1>10, <2>1 DEF Counted
    <2>3. Len(given) = n + m
      BY <1>13, <1>14, <2>1
    <2>4. QED
      BY <2>2, <2>3
  <1>16. ASSUME NEW f \in Untouched, f \in After(page) => f \in entries
         PROVE  Gives(given, f) <=> bucket[f] # 0
    <2>1. f <= page => (Gives(begun, f) <=> bucket[f] # 0)
      BY <1>4, <1>6 DEF Gave
    <2>2. bucket \in [Files -> Nat] /\ Once(begun) /\ \A i \in DOMAIN begun : begun[i] <= page
      BY <1>4, <1>5, <1>6
    <2>3. f \in Untouched /\ (f \in After(page) => f \in entries) /\ given = begun \o s
      BY <1>11, <1>14, <1>16
    <2>4. QED
      BY ONLY <1>8, <1>9, <2>1, <2>2, <2>3, PageTells
  <1>17. PICK read \in CommandRecord(G) :
            read = [old EXCEPT !.given = given, !.fileCount = fileCount]
    <2>1. [old EXCEPT !.given = given, !.fileCount = fileCount] \in CommandRecord(G)
      BY <1>5 DEF CommandRecord
    <2>2. QED
      BY <2>1
  <1>18. read = [run EXCEPT !.given = @ \o Named(entries), !.fileCount = @ + Counted(entries)]
    BY <1>3, <1>6, <1>9, <1>11, <1>14, <1>15, <1>17
  <1>19. /\ read.is = old.is /\ read.given = given /\ read.fileCount = Len(given)
         /\ read.phase = "listing" /\ read.written = {} /\ ~read.ended /\ read.stop = old.stop
         /\ read.callCount = old.callCount
    BY <1>4, <1>15, <1>17 DEF CommandRecord
  <1>20. \/ /\ entries # {}
            /\ run' = [read EXCEPT !.page = Max(entries), !.callCount = @ + 1]
         \/ /\ ~MoreAfter(entries)
            /\ run' = [read EXCEPT !.ended = TRUE,
                         !.phase = IF run.is = "dump" THEN "transferring" ELSE "resolved",
                         !.fetched = [i \in DOMAIN read.given |-> 0]]
    BY <1>3, <1>7, <1>18 DEF PageRead, Become
  <1>21. CASE /\ entries # {}
              /\ run' = [read EXCEPT !.page = Max(entries), !.callCount = @ + 1]
    <2>1. PICK last \in Nat, count \in Nat : last = Max(entries) /\ count = old.callCount + 1
      <3>1. Max(entries) \in entries
        BY <1>8, <1>21, FileSets
      <3>2. Max(entries) \in Nat
        BY <1>8, <3>1, Bounds
      <3>3. QED
        BY <1>5, <3>2
    <2>2. last \in entries /\ \A f \in entries : f <= last
      BY <1>8, <1>21, <2>1, FileSets
    <2>3. PICK x \in CommandRecord(G) : x = [read EXCEPT !.page = last, !.callCount = count]
      <3>1. [read EXCEPT !.page = last, !.callCount = count] \in CommandRecord(G)
        BY DEF CommandRecord
      <3>2. QED
        BY <3>1
    <2>4. /\ x.is = old.is /\ x.given = given /\ x.fileCount = Len(given) /\ x.page = last
          /\ x.phase = "listing" /\ x.written = {} /\ ~x.ended /\ x.stop = old.stop
          /\ x.callCount = count
      BY <1>19, <2>3 DEF CommandRecord
    <2>5. run' = x
      BY <1>19, <1>21, <2>1, <2>3
    <2>6. \A i \in DOMAIN given : given[i] <= last
      <3>1. SUFFICES ASSUME NEW i \in DOMAIN given
                     PROVE  given[i] <= last
        OBVIOUS
      <3>2. PICK f \in Files : f = given[i]
        OBVIOUS
      <3>3. Gives(given, f)
        BY <3>2 DEF Gives
      <3>4. Gives(begun, f) \/ Gives(s, f)
        BY <1>13, <1>14, <3>3
      <3>5. f \in Nat /\ page < last
        <4>1. last > page
          BY <1>8, <2>2 DEF After
        <4>2. QED
          BY <4>1, Bounds
      <3>6. Gives(begun, f) => f <= page
        BY <1>4, <1>6 DEF Gives
      <3>7. Gives(s, f) => f <= last
        BY <1>10, <2>2 DEF Gives
      <3>8. QED
        BY <3>2, <3>4, <3>5, <3>6, <3>7
    <2>7. \A f \in Untouched : f <= last => (Gave(x, f) <=> bucket[f] # 0)
      <3>1. SUFFICES ASSUME NEW f \in Untouched, f <= last
                     PROVE  Gives(given, f) <=> bucket[f] # 0
        BY <2>4 DEF Gave
      <3>2. f \in After(page) => f \in entries
        BY <1>8, <2>2, <3>1
      <3>3. QED
        BY <1>16, <3>2
    <2>8. UpToPage(x)
      BY <1>13, <1>14, <2>4, <2>6, <2>7 DEF UpToPage
    <2>9. Fresh(x) /\ Whole(x) /\ Dumped(x) /\ Restored(x) /\ Kept(x)
      BY <1>4, <1>5, <2>1, <2>4 DEF Fresh, Whole, Dumped, Restored, Kept
    <2>10. x \in CommandRecord(GivenTo(x.is))
      BY <1>4, <1>5, <2>4 DEF GivenTo
    <2>11. QED
      BY <1>1, <2>5, <2>8, <2>9, <2>10, Goes DEF RunInv
  <1>22. CASE /\ ~MoreAfter(entries)
              /\ run' = [read EXCEPT !.ended = TRUE,
                           !.phase = IF run.is = "dump" THEN "transferring" ELSE "resolved",
                           !.fetched = [i \in DOMAIN read.given |-> 0]]
    <2>1. PICK phase \in Phases : phase = IF old.is = "dump" THEN "transferring" ELSE "resolved"
      BY DEF Phases
    <2>2. PICK fetched \in Seq(Nat) :
            fetched = [i \in DOMAIN given |-> 0] /\ DOMAIN fetched = DOMAIN given
      <3>1. PICK n \in Nat : n = Len(given) /\ DOMAIN given = 1..n
        OBVIOUS
      <3>2. [i \in 1..n |-> 0] \in Seq(Nat)
        OBVIOUS
      <3>3. QED
        BY <3>1, <3>2
    <2>3. PICK x \in CommandRecord(G) :
            x = [read EXCEPT !.ended = TRUE, !.phase = phase, !.fetched = fetched]
      <3>1. [read EXCEPT !.ended = TRUE, !.phase = phase, !.fetched = fetched]
              \in CommandRecord(G)
        BY DEF CommandRecord
      <3>2. QED
        BY <3>1
    <2>4. /\ x.is = old.is /\ x.given = given /\ x.fileCount = Len(given) /\ x.phase = phase
          /\ x.written = {} /\ x.ended /\ x.stop = old.stop /\ x.fetched = fetched
      BY <1>19, <2>3 DEF CommandRecord
    <2>5. run' = x
      BY <1>3, <1>19, <1>22, <2>1, <2>2, <2>3
    <2>6. \A g \in After(page) : g \in entries
      <3>1. CASE entries = {}
        BY <1>8, <3>1
      <3>2. CASE entries # {}
        <4>1. Max(entries) \in entries /\ After(Max(entries)) = {}
          BY <1>8, <1>22, <3>2, FileSets DEF MoreAfter
        <4>2. ASSUME NEW g \in After(page)
              PROVE  g <= Max(entries)
          <5>1. g \in Nat /\ Max(entries) \in Nat /\ g \in Files /\ bucket[g] # 0
            <6>1. g \in Files /\ Max(entries) \in Files /\ bucket[g] # 0
              BY <1>8, <4>1 DEF After
            <6>2. QED
              BY <6>1, Bounds
          <5>2. ~(g > Max(entries))
            BY <4>1, <5>1 DEF After
          <5>3. QED
            BY <5>1, <5>2
        <4>3. QED
          BY <1>8, <4>1, <4>2
      <3>3. QED
        BY <3>1, <3>2
    <2>7. \A f \in Untouched : Gave(x, f) <=> bucket[f] # 0
      BY <1>16, <2>4, <2>6 DEF Gave
    <2>8. Whole(x)
      BY <1>13, <1>14, <2>4, <2>7 DEF Whole
    <2>9. Dumped(x)
      <3>1. \A i \in DOMAIN given : fetched[i] = 0
        BY <2>2
      <3>2. QED
        BY <2>1, <2>2, <2>4, <3>1 DEF Dumped
    <2>10. Fresh(x) /\ UpToPage(x) /\ Restored(x) /\ Kept(x)
      BY <1>4, <1>5, <2>1, <2>4 DEF Fresh, UpToPage, Restored, Kept
    <2>11. x \in CommandRecord(GivenTo(x.is))
      BY <1>4, <1>5, <2>4 DEF GivenTo
    <2>12. QED
      BY <1>1, <2>5, <2>8, <2>9, <2>10, <2>11, Goes DEF RunInv
  <1>23. QED
    BY <1>20, <1>21, <1>22

----------------------------------------------------------------------------
(* The steps: the files of a dump. *)

\* A dump that transfers: what is known of it.
LEMMA TheDump ==
    ASSUME Faithful, run.phase = "transferring", run.is = "dump"
    PROVE  \E old \in CommandRecord(Files) :
             /\ old = run /\ old.phase = "transferring" /\ old.is = "dump" /\ old.stop = 0
             /\ old.given \in Seq(Files) /\ old.fetched \in Seq(Nat) /\ old.ended
             /\ DOMAIN old.fetched = DOMAIN old.given /\ Once(old.given)
             /\ Whole(old) /\ Dumped(old) /\ Kept(old)
  <1>1. PICK G : G = GivenTo(run.is) /\ run \in CommandRecord(G)
    BY TheCommand
  <1>2. PICK old \in CommandRecord(G) : old = run
    BY <1>1
  <1>3. G = Files
    BY <1>1 DEF GivenTo
  <1>4. old.given \in Seq(Files) /\ old.fetched \in Seq(Nat)
    BY <1>3 DEF CommandRecord
  <1>5. old.stop = 0 /\ Whole(old) /\ Dumped(old) /\ Kept(old)
    BY <1>2 DEF Faithful, RunInv, Fresh
  <1>6. old.ended /\ DOMAIN old.fetched = DOMAIN old.given /\ Once(old.given)
    BY <1>2, <1>5 DEF Dumped, Whole
  <1>7. QED
    BY <1>2, <1>3, <1>4, <1>5, <1>6

\* A download answers with what the bucket has.
LEMMA FetchKeeps ==
    ASSUME Faithful, NEW i, Fetch(i)
    PROVE  Faithful'
  <1>1. /\ run.phase = "transferring" /\ run.is = "dump" /\ i \in DOMAIN run.given
        /\ i \notin run.written /\ Typed
        /\ UNCHANGED <<bucket, writes, epoch, directory, restored, touched, backup>>
        /\ run' = IF bucket[run.given[i]] = 0 THEN [run EXCEPT !.failed = @ \cup {i}]
                  ELSE [run EXCEPT !.fetched[i] = bucket[run.given[i]]]
    BY DEF Fetch, Dumping, Become, Faithful
  <1>2. PICK old \in CommandRecord(Files) :
             /\ old = run /\ old.phase = "transferring" /\ old.is = "dump" /\ old.stop = 0
             /\ old.given \in Seq(Files) /\ old.fetched \in Seq(Nat) /\ old.ended
             /\ DOMAIN old.fetched = DOMAIN old.given /\ Once(old.given)
             /\ Whole(old) /\ Dumped(old) /\ Kept(old)
    BY <1>1, TheDump
  <1>3. i \in Nat /\ old.given[i] \in Files
    BY <1>1, <1>2
  <1>4. CASE bucket[old.given[i]] = 0
    <2>1. PICK failed \in SUBSET Nat : failed = old.failed \cup {i}
      BY <1>3 DEF CommandRecord
    <2>2. PICK x \in CommandRecord(Files) : x = [old EXCEPT !.failed = failed]
      <3>1. [old EXCEPT !.failed = failed] \in CommandRecord(Files)
        BY DEF CommandRecord
      <3>2. QED
        BY <3>1
    <2>3. /\ x.is = old.is /\ x.phase = old.phase /\ x.given = old.given /\ x.stop = old.stop
          /\ x.fetched = old.fetched /\ x.written = old.written /\ x.ended = old.ended
          /\ x.fileCount = old.fileCount /\ x.nulls = old.nulls
      BY <2>2 DEF CommandRecord
    <2>4. Whole(x) /\ Dumped(x) /\ Kept(x)
      BY <1>2, <2>3 DEF Whole, Dumped, Kept, Gave
    <2>5. RunInv(x)
      BY <1>2, <2>3, <2>4 DEF RunInv, Fresh, UpToPage, Restored
    <2>6. run' = x
      BY <1>1, <1>2, <1>4, <2>1, <2>2
    <2>7. x \in CommandRecord(GivenTo(x.is))
      BY <1>2, <2>3 DEF GivenTo
    <2>8. QED
      BY <1>1, <2>5, <2>6, <2>7, Goes
  <1>5. CASE bucket[old.given[i]] # 0
    <2>1. PICK version \in Nat : version = bucket[old.given[i]]
      BY <1>1, <1>3 DEF Typed
    <2>2. PICK fetched \in Seq(Nat) :
            /\ fetched = [old.fetched EXCEPT ![i] = version]
            /\ DOMAIN fetched = DOMAIN old.given /\ fetched[i] = version
            /\ \A j \in DOMAIN old.given : j # i => fetched[j] = old.fetched[j]
      <3>1. PICK s \in Seq(Nat) : s = old.fetched
        BY <1>2
      <3>2. [s EXCEPT ![i] = version] \in Seq(Nat)
        <4>1. PICK n \in Nat : n = Len(s) /\ s \in [1..n -> Nat]
          OBVIOUS
        <4>2. PICK r \in [1..n -> Nat] : r = [s EXCEPT ![i] = version]
          BY <4>1
        <4>3. r \in Seq(Nat)
          OBVIOUS
        <4>4. QED
          BY <4>2, <4>3
      <3>3. i \in DOMAIN s
        BY <1>1, <1>2, <3>1
      <3>4. QED
        BY <1>2, <3>1, <3>2, <3>3
    <2>3. PICK x \in CommandRecord(Files) : x = [old EXCEPT !.fetched = fetched]
      <3>1. [old EXCEPT !.fetched = fetched] \in CommandRecord(Files)
        BY DEF CommandRecord
      <3>2. QED
        BY <3>1
    <2>4. /\ x.is = old.is /\ x.phase = old.phase /\ x.given = old.given /\ x.stop = old.stop
          /\ x.fetched = fetched /\ x.written = old.written /\ x.ended = old.ended
          /\ x.fileCount = old.fileCount /\ x.nulls = old.nulls
      BY <2>3 DEF CommandRecord
    <2>5. Whole(x) /\ Kept(x)
      BY <1>2, <2>4 DEF Whole, Kept, Gave
    <2>6. Dumped(x)
      <3>1. \A j \in DOMAIN x.given :
              x.fetched[j] # 0 /\ x.given[j] \notin touched => x.fetched[j] = bucket[x.given[j]]
        BY <1>2, <2>1, <2>2, <2>4 DEF Dumped
      <3>2. \A j \in x.written :
              /\ j \in DOMAIN x.given /\ x.fetched[j] # 0
              /\ Alone(x.given[j]) => directory[Path(x.given[j])] = x.fetched[j]
        <4>1. \A j \in old.written : j # i
          BY <1>1, <1>2
        <4>2. QED
          BY <1>2, <2>2, <2>4, <4>1 DEF Dumped
      <3>3. QED
        BY <1>2, <2>2, <2>4, <3>1, <3>2 DEF Dumped
    <2>7. RunInv(x)
      BY <1>2, <2>4, <2>5, <2>6 DEF RunInv, Fresh, UpToPage, Restored
    <2>8. run' = x
      <3>1. run' = [old EXCEPT !.fetched[i] = version]
        BY <1>1, <1>2, <1>5, <2>1
      <3>2. QED
        BY <2>2, <2>3, <3>1
    <2>9. x \in CommandRecord(GivenTo(x.is))
      BY <1>2, <2>4 DEF GivenTo
    <2>10. QED
      BY <1>1, <2>7, <2>8, <2>9, Goes
  <1>6. QED
    BY <1>4, <1>5

\* A transfer fails: that is all that is known of it.
LEMMA FailureKeeps ==
    ASSUME Faithful, NEW i, i \in DOMAIN run.given, run.phase = "transferring",
           Become([run EXCEPT !.failed = @ \cup {i}])
    PROVE  Faithful'
  <1>1. /\ RunInv(run)
        /\ UNCHANGED <<bucket, writes, epoch, directory, restored, touched, backup>>
    BY DEF Become, Faithful
  <1>2. PICK G : G = GivenTo(run.is) /\ run \in CommandRecord(G)
    BY TheCommand
  <1>3. PICK old \in CommandRecord(G) : old = run
    BY <1>2
  <1>4. PICK failed \in SUBSET Nat : failed = old.failed \cup {i}
    <2>1. old.given \in Seq(G) /\ old.failed \in SUBSET Nat
      BY DEF CommandRecord
    <2>2. i \in Nat
      BY <1>3, <2>1
    <2>3. QED
      BY <2>1, <2>2
  <1>5. PICK x \in CommandRecord(G) : x = [old EXCEPT !.failed = failed]
    <2>1. [old EXCEPT !.failed = failed] \in CommandRecord(G)
      BY DEF CommandRecord
    <2>2. QED
      BY <2>1
  <1>6. /\ x.is = old.is /\ x.phase = old.phase /\ x.given = old.given /\ x.stop = old.stop
        /\ x.fetched = old.fetched /\ x.written = old.written /\ x.ended = old.ended
        /\ x.fileCount = old.fileCount /\ x.nulls = old.nulls /\ x.page = old.page
        /\ x.callCount = old.callCount
    BY <1>5 DEF CommandRecord
  <1>7. RunInv(old)
    BY <1>1, <1>3
  <1>8. RunInv(x)
    BY <1>6, <1>7 DEF RunInv, Fresh, UpToPage, Whole, Dumped, Restored, Kept, Gave
  <1>9. run' = x
    BY <1>3, <1>4, <1>5 DEF Become
  <1>10. QED
    BY <1>1, <1>2, <1>3, <1>6, <1>8, <1>9, Goes

\* A file of a dump is written: no other file that is alone on its path is
\* written over.
LEMMA WriteKeeps ==
    ASSUME Faithful, NEW i, Write(i)
    PROVE  Faithful'
  <1>1. /\ run.phase = "transferring" /\ run.is = "dump" /\ i \in DOMAIN run.given
        /\ i \notin run.written /\ run.fetched[i] # 0 /\ Typed
        /\ UNCHANGED <<bucket, writes, epoch, restored, touched, backup>>
        /\ run' = [run EXCEPT !.written = @ \cup {i}]
        /\ directory' = [directory EXCEPT ![Path(run.given[i])] = run.fetched[i]]
    BY DEF Write, Dumping, Faithful
  <1>2. PICK old \in CommandRecord(Files) :
             /\ old = run /\ old.phase = "transferring" /\ old.is = "dump" /\ old.stop = 0
             /\ old.given \in Seq(Files) /\ old.fetched \in Seq(Nat) /\ old.ended
             /\ DOMAIN old.fetched = DOMAIN old.given /\ Once(old.given)
             /\ Whole(old) /\ Dumped(old) /\ Kept(old)
    BY <1>1, TheDump
  <1>3. i \in Nat /\ old.given[i] \in Files /\ old.fetched[i] \in Nat
    BY <1>1, <1>2
  <1>4. PICK file \in Files, path \in Paths, version \in Nat :
            file = old.given[i] /\ path = Path(file) /\ version = old.fetched[i]
    BY <1>3, Names
  <1>5. /\ directory' = [directory EXCEPT ![path] = version]
        /\ directory' \in [Paths -> Nat] /\ directory'[path] = version
        /\ \A q \in Paths : q # path => directory'[q] = directory[q]
    BY <1>1, <1>2, <1>4 DEF Typed
  <1>6. PICK written \in SUBSET Nat : written = old.written \cup {i}
    BY <1>3 DEF CommandRecord
  <1>7. PICK x \in CommandRecord(Files) : x = [old EXCEPT !.written = written]
    <2>1. [old EXCEPT !.written = written] \in CommandRecord(Files)
      BY DEF CommandRecord
    <2>2. QED
      BY <2>1
  <1>8. /\ x.is = old.is /\ x.phase = old.phase /\ x.given = old.given /\ x.stop = old.stop
        /\ x.fetched = old.fetched /\ x.written = written /\ x.ended = old.ended
        /\ x.fileCount = old.fileCount /\ x.nulls = old.nulls
    BY <1>7 DEF CommandRecord
  <1>9. run' = x
    BY <1>1, <1>2, <1>6, <1>7
  <1>10. Typed'
    <2>1. x \in CommandRecord(GivenTo(x.is))
      BY <1>2, <1>8 DEF GivenTo
    <2>2. QED
      BY <1>1, <1>5, <1>9, <2>1 DEF Typed
  <1>11. Whole(x)'
    BY <1>1, <1>2, <1>8 DEF Whole, Gave, Untouched
  <1>12. Kept(x)'
    BY <1>1, <1>2, <1>8 DEF Kept
  <1>13. ASSUME NEW j \in written
         PROVE  /\ j \in DOMAIN old.given /\ old.fetched[j] # 0
                /\ Alone(old.given[j]) => directory'[Path(old.given[j])] = old.fetched[j]
    <2>1. CASE j = i
      BY <1>1, <1>2, <1>4, <1>5, <2>1
    <2>2. CASE j # i
      <3>1. /\ j \in DOMAIN old.given /\ old.fetched[j] # 0
            /\ Alone(old.given[j]) => directory[Path(old.given[j])] = old.fetched[j]
        BY <1>2, <1>6, <2>2 DEF Dumped
      <3>2. PICK other \in Files : other = old.given[j]
        BY <1>2, <3>1
      <3>3. other # file
        BY <1>1, <1>2, <1>4, <2>2, <3>1, <3>2 DEF Once
      <3>4. Alone(other) => Path(other) # path
        BY <1>4, <3>3 DEF Alone
      <3>5. Path(other) \in Paths
        BY Names
      <3>6. QED
        BY <1>5, <3>1, <3>2, <3>4, <3>5
    <2>3. QED
      BY <2>1, <2>2
  <1>14. Dumped(x)'
    <2>1. \A j \in DOMAIN x.given :
            x.fetched[j] # 0 /\ x.given[j] \notin touched' => x.fetched[j] = bucket'[x.given[j]]
      BY <1>1, <1>2, <1>8 DEF Dumped
    <2>2. \A j \in x.written :
            /\ j \in DOMAIN x.given /\ x.fetched[j] # 0
            /\ Alone(x.given[j]) => directory'[Path(x.given[j])] = x.fetched[j]
      BY <1>8, <1>13
    <2>3. x.ended /\ DOMAIN x.fetched = DOMAIN x.given /\ x.phase = "transferring"
      BY <1>2, <1>8
    <2>4. QED
      BY <2>1, <2>2, <2>3 DEF Dumped
  <1>15. Fresh(x)' /\ UpToPage(x)' /\ Restored(x)'
    BY <1>2, <1>8 DEF Fresh, UpToPage, Restored
  <1>16. RunInv(run)'
    BY <1>9, <1>11, <1>12, <1>14, <1>15
       DEF RunInv, Fresh, UpToPage, Whole, Dumped, Restored, Kept, Gave, Gives
  <1>17. QED
    BY <1>10, <1>16 DEF Faithful

\* A dump resolves: what it has written is the last backup.
LEMMA DumpResolvesKeeps ==
    ASSUME Faithful, DumpResolves
    PROVE  Faithful'
  <1>1. /\ run.phase = "transferring" /\ run.is = "dump" /\ AllWritten /\ Typed
        /\ UNCHANGED <<bucket, writes, epoch, directory, restored, touched>>
        /\ run' = [run EXCEPT !.phase = "resolved"]
        /\ backup' = [path \in Paths |->
                        IF \E i \in run.written : Path(run.given[i]) = path
                        THEN directory[path] ELSE 0]
    BY DEF DumpResolves, Faithful
  <1>2. PICK old \in CommandRecord(Files) :
             /\ old = run /\ old.phase = "transferring" /\ old.is = "dump" /\ old.stop = 0
             /\ old.given \in Seq(Files) /\ old.fetched \in Seq(Nat) /\ old.ended
             /\ DOMAIN old.fetched = DOMAIN old.given /\ Once(old.given)
             /\ Whole(old) /\ Dumped(old) /\ Kept(old)
    BY <1>1, TheDump
  <1>3. PICK x \in CommandRecord(Files) : x = [old EXCEPT !.phase = "resolved"]
    <2>1. "resolved" \in Phases
      BY DEF Phases
    <2>2. [old EXCEPT !.phase = "resolved"] \in CommandRecord(Files)
      BY <2>1 DEF CommandRecord
    <2>3. QED
      BY <2>2
  <1>4. /\ x.is = old.is /\ x.phase = "resolved" /\ x.given = old.given /\ x.stop = old.stop
        /\ x.fetched = old.fetched /\ x.written = old.written /\ x.ended = old.ended
        /\ x.fileCount = old.fileCount /\ x.nulls = old.nulls
    BY <1>3 DEF CommandRecord
  <1>5. run' = x
    BY <1>1, <1>2, <1>3
  <1>6. /\ backup' \in [Paths -> Nat]
        /\ \A path \in Paths : backup'[path] # 0 => directory[path] = backup'[path]
    BY <1>1 DEF Typed
  <1>7. Typed'
    <2>1. x \in CommandRecord(GivenTo(x.is))
      BY <1>2, <1>4 DEF GivenTo
    <2>2. QED
      BY <1>1, <1>5, <1>6, <2>1 DEF Typed
  <1>8. Whole(x)'
    BY <1>1, <1>2, <1>4 DEF Whole, Gave, Untouched
  <1>9. Dumped(x)'
    <2>1. DOMAIN old.given \subseteq old.written
      BY <1>1, <1>2 DEF AllWritten
    <2>2. QED
      BY <1>1, <1>2, <1>4, <2>1 DEF Dumped
  <1>10. Fresh(x)' /\ UpToPage(x)' /\ Restored(x)' /\ Kept(x)'
    BY <1>1, <1>2, <1>4, <1>6 DEF Fresh, UpToPage, Restored, Kept
  <1>11. RunInv(run)'
    BY <1>5, <1>8, <1>9, <1>10
       DEF RunInv, Fresh, UpToPage, Whole, Dumped, Restored, Kept, Gave, Gives
  <1>12. QED
    BY <1>7, <1>11 DEF Faithful

----------------------------------------------------------------------------
(* The steps: the files of a restore. *)

\* A restore that transfers: what is known of it.
LEMMA TheRestore ==
    ASSUME Faithful, run.phase = "transferring", run.is = "restore"
    PROVE  \E old \in CommandRecord(Paths) :
             /\ old = run /\ old.phase = "transferring" /\ old.is = "restore"
             /\ old.given \in Seq(Paths) /\ old.written \in SUBSET Nat
             /\ Restored(old) /\ Kept(old)
  <1>1. PICK G : G = GivenTo(run.is) /\ run \in CommandRecord(G)
    BY TheCommand
  <1>2. PICK old \in CommandRecord(G) : old = run
    BY <1>1
  <1>3. G = Paths
    BY <1>1 DEF GivenTo
  <1>4. old.given \in Seq(Paths) /\ old.written \in SUBSET Nat
    BY <1>3 DEF CommandRecord
  <1>5. Restored(old) /\ Kept(old)
    BY <1>2 DEF Faithful, RunInv
  <1>6. QED
    BY <1>2, <1>3, <1>4, <1>5

\* A file of a restore is put: no other path has its name.
LEMMA PutKeeps ==
    ASSUME Faithful, NEW i, Put(i)
    PROVE  Faithful'
  <1>1. /\ run.phase = "transferring" /\ run.is = "restore" /\ i \in DOMAIN run.given
        /\ i \notin run.written /\ Typed
        /\ UNCHANGED <<bucket, writes, epoch, directory, touched, backup>>
        /\ run' = [run EXCEPT !.written = @ \cup {i}]
        /\ restored' = [restored EXCEPT ![Unescaped(run.given[i])] = directory[run.given[i]]]
    BY DEF Put, Restoring, Faithful
  <1>2. PICK old \in CommandRecord(Paths) :
             /\ old = run /\ old.phase = "transferring" /\ old.is = "restore"
             /\ old.given \in Seq(Paths) /\ old.written \in SUBSET Nat
             /\ Restored(old) /\ Kept(old)
    BY <1>1, TheRestore
  <1>3. i \in Nat /\ old.given[i] \in Paths
    BY <1>1, <1>2
  <1>4. PICK path \in Paths, name \in RestoredNames, version \in Nat :
            path = old.given[i] /\ name = Unescaped(path) /\ version = directory[path]
    BY <1>1, <1>3, Names DEF Typed
  <1>5. /\ restored' = [restored EXCEPT ![name] = version]
        /\ restored' \in [RestoredNames -> Nat] /\ restored'[name] = version
        /\ \A n \in RestoredNames : n # name => restored'[n] = restored[n]
    BY <1>1, <1>2, <1>4 DEF Typed
  <1>6. PICK written \in SUBSET Nat : written = old.written \cup {i}
    BY <1>2, <1>3
  <1>7. PICK x \in CommandRecord(Paths) : x = [old EXCEPT !.written = written]
    <2>1. [old EXCEPT !.written = written] \in CommandRecord(Paths)
      BY DEF CommandRecord
    <2>2. QED
      BY <2>1
  <1>8. /\ x.is = "restore" /\ x.phase = "transferring" /\ x.given = old.given
        /\ x.written = written
    BY <1>2, <1>7 DEF CommandRecord
  <1>9. run' = x
    BY <1>1, <1>2, <1>6, <1>7
  <1>10. Typed'
    <2>1. x \in CommandRecord(GivenTo(x.is))
      BY <1>8 DEF GivenTo
    <2>2. QED
      BY <1>1, <1>5, <1>9, <2>1 DEF Typed
  <1>11. ASSUME NEW j \in written
         PROVE  /\ j \in DOMAIN old.given
                /\ restored'[Unescaped(old.given[j])] = directory[old.given[j]]
    <2>1. CASE j = i
      BY <1>1, <1>2, <1>4, <1>5, <2>1
    <2>2. CASE j # i
      <3>1. /\ j \in DOMAIN old.given
            /\ restored[Unescaped(old.given[j])] = directory[old.given[j]]
        BY <1>2, <1>6, <2>2 DEF Restored
      <3>2. PICK other \in Paths : other = old.given[j]
        BY <1>2, <3>1
      <3>3. other # path
        BY <1>1, <1>2, <1>4, <2>2, <3>1, <3>2 DEF Restored
      <3>4. Unescaped(other) # name /\ Unescaped(other) \in RestoredNames
        BY <1>4, <3>3, Names
      <3>5. QED
        BY <1>5, <3>1, <3>2, <3>4
    <2>3. QED
      BY <2>1, <2>2
  <1>12. Restored(x)'
    <2>1. /\ \A j, k \in DOMAIN x.given : x.given[j] = x.given[k] => j = k
          /\ \A p \in Paths : directory'[p] # 0 => Gave(x, p)
      BY <1>1, <1>2, <1>8 DEF Restored, Gave
    <2>2. \A j \in x.written :
            j \in DOMAIN x.given
              /\ restored'[Unescaped(x.given[j])] = directory'[x.given[j]]
      BY <1>1, <1>8, <1>11
    <2>3. QED
      BY <1>8, <2>1, <2>2 DEF Restored, Gave, Gives
  <1>13. Fresh(x)' /\ UpToPage(x)' /\ Whole(x)' /\ Dumped(x)' /\ Kept(x)'
    BY <1>1, <1>2, <1>8 DEF Fresh, UpToPage, Whole, Dumped, Kept
  <1>14. RunInv(run)'
    BY <1>9, <1>12, <1>13
       DEF RunInv, Fresh, UpToPage, Whole, Dumped, Restored, Kept, Gave, Gives
  <1>15. QED
    BY <1>10, <1>14 DEF Faithful

\* A restore resolves when it has put everything it was given.
LEMMA RestoreResolvesKeeps ==
    ASSUME Faithful, RestoreResolves
    PROVE  Faithful'
  <1>1. /\ run.phase = "transferring" /\ run.is = "restore" /\ AllWritten
        /\ UNCHANGED <<bucket, writes, epoch, directory, restored, touched, backup>>
        /\ run' = [run EXCEPT !.phase = "resolved"]
    BY DEF RestoreResolves, Become
  <1>2. PICK old \in CommandRecord(Paths) :
             /\ old = run /\ old.phase = "transferring" /\ old.is = "restore"
             /\ old.given \in Seq(Paths) /\ old.written \in SUBSET Nat
             /\ Restored(old) /\ Kept(old)
    BY <1>1, TheRestore
  <1>3. PICK x \in CommandRecord(Paths) : x = [old EXCEPT !.phase = "resolved"]
    <2>1. "resolved" \in Phases
      BY DEF Phases
    <2>2. [old EXCEPT !.phase = "resolved"] \in CommandRecord(Paths)
      BY <2>1 DEF CommandRecord
    <2>3. QED
      BY <2>2
  <1>4. /\ x.is = "restore" /\ x.phase = "resolved" /\ x.given = old.given
        /\ x.written = old.written
    BY <1>2, <1>3 DEF CommandRecord
  <1>5. DOMAIN old.given \subseteq old.written
    BY <1>1, <1>2 DEF AllWritten
  <1>6. Restored(x) /\ Kept(x)
    BY <1>2, <1>4, <1>5 DEF Restored, Kept, Gave
  <1>7. Fresh(x) /\ UpToPage(x) /\ Whole(x) /\ Dumped(x)
    BY <1>4 DEF Fresh, UpToPage, Whole, Dumped
  <1>8. x \in CommandRecord(GivenTo(x.is))
    BY <1>4 DEF GivenTo
  <1>9. run' = x
    BY <1>1, <1>2, <1>3
  <1>10. QED
    BY <1>1, <1>6, <1>7, <1>8, <1>9, Goes DEF RunInv

----------------------------------------------------------------------------
(* The specification. *)

\* Before any command nothing is given, written or kept.
LEMMA Starts == Init => Faithful
  <1>1. SUFFICES ASSUME Init PROVE Faithful
    OBVIOUS
  <1>2. PICK x : x = Command("list", "none", 0, 0) /\ run = x
    BY <1>1 DEF Init
  <1>3. /\ x.is = "list" /\ x.phase = "none" /\ x.given = <<>> /\ x.written = {}
        /\ x.ended = FALSE /\ x.fileCount = 0 /\ x.page = 0
    BY <1>2 DEF Command
  <1>4. x \in CommandRecord(GivenTo(x.is))
    <2>1. PICK G : G = GivenTo(x.is)
      OBVIOUS
    <2>2. "none" \in Phases /\ <<>> \in Seq(G) /\ <<>> \in Seq(Nat) /\ {} \in SUBSET Nat
      BY DEF Phases
    <2>3. x \in CommandRecord(G)
      BY <1>2, <2>2 DEF CommandRecord, Command
    <2>4. QED
      BY <2>1, <2>3
  <1>5. Typed
    BY <1>1, <1>2, <1>4 DEF Init, Typed
  <1>6. Kept(x)
    BY <1>1, <1>3 DEF Init, Kept
  <1>7. Fresh(x) /\ UpToPage(x) /\ Whole(x) /\ Dumped(x) /\ Restored(x)
    BY <1>3 DEF Fresh, UpToPage, Whole, Dumped, Restored
  <1>8. QED
    BY <1>2, <1>5, <1>6, <1>7 DEF Faithful, RunInv

\* No step disturbs it.
LEMMA Continues == Faithful /\ [Next]_vars => Faithful'
  <1>1. SUFFICES ASSUME Faithful, [Next]_vars PROVE Faithful'
    OBVIOUS
  <1>2. CASE \E f \in Files : OthersWrite(f)
    BY <1>1, <1>2, OthersWriteKeeps
  <1>3. CASE ExpireTokens
    <2>1. UNCHANGED <<bucket, writes, run, directory, restored, touched, backup>>
      BY <1>1, <1>3 DEF ExpireTokens
    <2>2. epoch' \in Nat
      BY <1>1, <1>3 DEF ExpireTokens, Faithful, Typed
    <2>3. Typed'
      BY <1>1, <2>1, <2>2 DEF Faithful, Typed
    <2>4. RunInv(run)'
      BY <1>1, <2>1
         DEF Faithful, RunInv, Fresh, UpToPage, Whole, Dumped, Restored, Kept, Gave, Untouched
    <2>5. QED
      BY <1>1, <2>3, <2>4 DEF Faithful
  <1>4. CASE \E is \in Kinds : Start(is)
    <2>1. Kinds \subseteq {"list", "dump", "restore"}
      BY BucketsAssumption
    <2>2. QED
      BY <1>1, <1>4, <2>1, StartKeeps
  <1>5. CASE Killed
    BY <1>1, <1>5, RejectedKeeps DEF Killed, Ended
  <1>6. CASE AuthenticationFails \/ ConnectFails
    BY <1>1, <1>6, RejectedKeeps DEF AuthenticationFails, ConnectFails
  <1>7. CASE TooMany \/ TransferFails
    BY <1>1, <1>7, RejectedKeeps DEF TooMany, TransferFails
  <1>8. CASE Authenticated \/ Connected
    BY <1>1, <1>8, AuthenticatedKeeps, ConnectedKeeps
  <1>9. CASE \E refused \in BOOLEAN : PageFails(refused)
    BY <1>1, <1>9, PageFailsKeeps
  <1>10. CASE PageStops \/ PageRead
    BY <1>1, <1>10, PageStopsKeeps, PageReadKeeps
  <1>11. ASSUME NEW i \in Files, Fetch(i) \/ Write(i) \/ Put(i)
         PROVE  Faithful'
    BY <1>1, <1>11, FetchKeeps, WriteKeeps, PutKeeps
  <1>12. ASSUME NEW i \in Files, FetchFails(i) \/ PutFails(i)
         PROVE  Faithful'
    BY <1>1, <1>12, FailureKeeps DEF FetchFails, PutFails, Dumping, Restoring
  <1>13. CASE DumpResolves \/ RestoreResolves
    BY <1>1, <1>13, DumpResolvesKeeps, RestoreResolvesKeeps
  <1>14. CASE UNCHANGED vars
    <2>1. UNCHANGED <<bucket, writes, epoch, run, directory, restored, touched, backup>>
      BY <1>1, <1>14 DEF vars
    <2>2. QED
      BY <1>1, <2>1 DEF Faithful, Typed, RunInv, Fresh, UpToPage, Whole, Dumped, Restored, Kept,
                  Gave, Untouched
  <1>15. QED
    BY <1>1, <1>2, <1>3, <1>4, <1>5, <1>6, <1>7, <1>8, <1>9, <1>10, <1>11, <1>12, <1>13,
       <1>14 DEF Next

\* The invariant holds always.
THEOREM AlwaysFaithful == Spec => []Faithful
  BY Starts, Continues, PTL DEF Spec

\* Every listing and dump that gets to its end has given each file once, and
\* exactly the files that are there of those nobody wrote to
\* (storage.ts:692-760), whatever fails, expires and is written between pages.
THEOREM ListsEachFileOnce == Spec => []ListedOnce
  <1>1. Faithful => ListedOnce
    <2>1. SUFFICES ASSUME Faithful, HasListed
                   PROVE  /\ IsInjective(run.given)
                          /\ Range(run.given) \cap Filtered = {}
                          /\ \A f \in Untouched :
                              run.ended \/ f <= run.stop =>
                                (f \in Range(run.given) <=> bucket[f] # 0)
      BY DEF ListedOnce
    <2>2. /\ Once(run.given)
          /\ \A f \in Untouched :
               run.ended \/ f <= run.stop => (Gave(run, f) <=> bucket[f] # 0)
      BY <2>1 DEF HasListed, Faithful, RunInv, Whole
    <2>3. \A f : Gave(run, f) <=> f \in Range(run.given)
      BY DEF Gave, Gives, Range
    <2>4. IsInjective(run.given) /\ Range(run.given) \cap Filtered = {}
      BY <2>2 DEF Once, IsInjective, Range
    <2>5. QED
      BY <2>2, <2>3, <2>4
  <1>2. QED
    BY <1>1, AlwaysFaithful, PTL

\* The count a listing resolves with is that of the files it gave, through new
\* connections and null entries (storage.ts:775).
THEOREM CountsRight == Spec => []CountTrue
  <1>1. Faithful => CountTrue
    BY DEF CountTrue, HasListed, Faithful, RunInv, Whole
  <1>2. QED
    BY <1>1, AlwaysFaithful, PTL

\* A dump that resolves holds every file nobody wrote to as it is, in whatever
\* order its downloads and writes are done (cli.ts:1099-1109).
THEOREM BackupComplete == Spec => []BackupHolds
  <1>1. Faithful => BackupHolds
    <2>1. SUFFICES ASSUME Faithful, run.is = "dump", run.phase = "resolved",
                          NEW f \in Untouched, bucket[f] # 0, Alone(f)
                   PROVE  directory[Path(f)] = bucket[f]
      BY DEF BackupHolds
    <2>2. Whole(run) /\ Dumped(run)
      BY <2>1 DEF Faithful, RunInv
    <2>3. PICK i \in DOMAIN run.given : run.given[i] = f
      BY <2>1, <2>2 DEF Whole, Dumped, Gave, Gives
    <2>4. i \in run.written /\ run.fetched[i] # 0 /\ directory[Path(f)] = run.fetched[i]
      BY <2>1, <2>2, <2>3 DEF Dumped
    <2>5. f \notin touched
      BY <2>1 DEF Untouched
    <2>6. QED
      BY <2>1, <2>2, <2>3, <2>4, <2>5 DEF Dumped
  <1>2. QED
    BY <1>1, AlwaysFaithful, PTL

\* A restore that resolves gives every file of the last dump that resolved its
\* version back under its own name, after any number of dumps and restores that
\* were not finished (cli.ts:1160).
THEOREM RestoresTheBackup == Spec => []RestoredAsBackedUp
  <1>1. Faithful => RestoredAsBackedUp
    <2>1. SUFFICES ASSUME Faithful, run.is = "restore", run.phase = "resolved",
                          NEW f \in Files, backup[Path(f)] # 0,
                          Unescaped(NameOf[f]) = NameOf[f]
                   PROVE  restored[NameOf[f]] = backup[Path(f)]
      BY DEF RestoredAsBackedUp
    <2>2. Restored(run) /\ Kept(run)
      BY <2>1 DEF Faithful, RunInv
    <2>3. Path(f) \in Paths /\ Unescaped(Path(f)) = NameOf[f]
      BY <2>1, Names
    <2>4. directory[Path(f)] = backup[Path(f)] /\ directory[Path(f)] # 0
      BY <2>1, <2>2, <2>3 DEF Kept
    <2>5. PICK i \in DOMAIN run.given : run.given[i] = Path(f)
      BY <2>1, <2>2, <2>3, <2>4 DEF Restored, Gave, Gives
    <2>6. i \in run.written /\ restored[Unescaped(run.given[i])] = directory[run.given[i]]
      BY <2>1, <2>2, <2>5 DEF Restored
    <2>7. QED
      BY <2>3, <2>4, <2>5, <2>6
  <1>2. QED
    BY <1>1, AlwaysFaithful, PTL
=============================================================================
