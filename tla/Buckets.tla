------------------------------ MODULE Buckets ------------------------------
(***************************************************************************)
(* A bucket read as a whole: Storage.listFiles (storage/src/storage.ts)    *)
(* page by page, gaia_dump_bucket and gaia_restore_bucket                  *)
(* (cli/src/cli.ts), while other devices write to the bucket, tokens       *)
(* expire, exchanges fail and the process is killed.  The commands call    *)
(* listFiles and putFile of the blockstack package, whose listing is taken *)
(* to be the one of storage.ts.  One command runs at a time.               *)
(***************************************************************************)
EXTENDS Integers, FiniteSets, SequencesExt

CONSTANTS
    NameOf,         \* the names there are, in the order of the hub: each a
                    \* sequence of characters, "\\x2f" and "/" among them
    Filtered,       \* the names (by place) the hub lists as null
    PageSize,       \* entries of a page
    BatchSize,      \* transfers of a batch
    MaxPages,       \* 65536 in the code
    Kinds,          \* commands that may be run: "list", "dump", "restore"
    MaxCommands, MaxWrites, MaxExpiries, MaxFaults   \* bounds

Files == DOMAIN NameOf

ASSUME BucketsAssumption ==
    /\ NameOf \in Seq(Seq(STRING)) /\ IsInjective(NameOf) /\ Filtered \subseteq Files
    /\ {PageSize, BatchSize, MaxPages} \subseteq Nat \ {0}
    /\ Kinds \subseteq {"list", "dump", "restore"}
    /\ {MaxCommands, MaxWrites, MaxExpiries, MaxFaults} \subseteq Nat

VARIABLES
    bucket,     \* file |-> its version, 0 when there is none
    writes,     \* the last version
    epoch,      \* tokens of another epoch are refused
    faults,     \* exchanges that failed
    run,        \* the command
    commands,   \* how many have been started
    directory,  \* path |-> the version written there, on disk
    restored,   \* name |-> its version in the new bucket
    touched,    \* history: files written since the command was started
    backup      \* history: what the last dump fetched, if it resolved

vars == <<bucket, writes, epoch, faults, run, commands, directory, restored, touched, backup>>

----------------------------------------------------------------------------
(* Names and paths: the separator of a name is escaped on disk.              *)

Escaped(name) == [i \in DOMAIN name |-> IF name[i] = "/" THEN "\\x2f" ELSE name[i]]

\* (seeded fault: only the first one is replaced)
UnescapedOnce(path) ==
    [i \in DOMAIN path |->
        IF path[i] = "\\x2f" /\ \A j \in 1..(i - 1) : path[j] # "\\x2f" THEN "/" ELSE path[i]]

Unescaped(path) == [i \in DOMAIN path |-> IF path[i] = "\\x2f" THEN "/" ELSE path[i]]

Path(f) == Escaped(NameOf[f])
Paths == {Path(f) : f \in Files}
RestoredNames == {Unescaped(path) : path \in Paths} \cup Range(NameOf)

----------------------------------------------------------------------------
Command(is, phase, token, stop) ==
    [is |-> is, phase |-> phase, token |-> token, stop |-> stop,
     page |-> 0, callCount |-> 0, fileCount |-> 0, given |-> <<>>, ended |-> FALSE, nulls |-> 0,
     fetched |-> <<>>, written |-> {}, failed |-> {}]

Init ==
    /\ bucket \in [Files -> {0, 1}] /\ writes = 1
    /\ epoch = 0 /\ faults = 0
    /\ run = Command("list", "none", 0, 0) /\ commands = 0
    /\ directory = [path \in Paths |-> 0]
    /\ restored = [name \in RestoredNames |-> 0]
    /\ touched = {} /\ backup = [path \in Paths |-> 0]

Ended == run.phase \in {"none", "resolved", "rejected"}

Become(changed) ==
    /\ run' = changed
    /\ UNCHANGED <<bucket, writes, epoch, commands, directory, restored, touched, backup>>

Fault == faults < MaxFaults /\ faults' = faults + 1
Rejected == [run EXCEPT !.phase = "rejected"]

----------------------------------------------------------------------------
(* What happens around the command. *)

OthersWrite(f) ==
    /\ writes <= MaxWrites
    /\ writes' = writes + 1
    /\ \E version \in {0, writes'} : bucket[f] # version /\ bucket' = [bucket EXCEPT ![f] = version]
    /\ touched' = touched \cup {f}
    /\ UNCHANGED <<epoch, faults, run, commands, directory, restored, backup>>

ExpireTokens ==
    /\ epoch < MaxExpiries /\ epoch' = epoch + 1
    /\ UNCHANGED <<bucket, writes, faults, run, commands, directory, restored, touched, backup>>

Killed == ~Ended /\ run.is # "list" /\ Fault /\ Become(Rejected)

(* An application lists with the connection of its session, if there is one, *)
(* and stops at a file or not; a command authenticates.                      *)
Start(is) ==
    /\ Ended /\ commands < MaxCommands /\ is \in Kinds
    /\ \E stop \in (IF is = "list" THEN {0} \cup Files ELSE {0}) :
       \E phase \in (IF is = "list" THEN {"connecting", "listing"} ELSE {"authenticating"}) :
       \E token \in 0..epoch :
           run' = Command(is, phase, token, stop)
    /\ commands' = commands + 1 /\ touched' = {}
    /\ backup' = IF is = "dump" THEN [path \in Paths |-> 0] ELSE backup
    /\ UNCHANGED <<bucket, writes, epoch, faults, directory, restored>>

(* gaiaAuth and, in a dump, gaiaConnect; the files of a restore were listed  *)
(* before and are read now, all of them.                                     *)
Authenticated ==
    /\ run.phase = "authenticating"
    /\ Become(IF run.is = "dump" THEN [run EXCEPT !.phase = "connecting"]
              ELSE [run EXCEPT !.phase = "transferring",
                    !.given = SetToSeq({path \in Paths : directory[path] # 0})])
    /\ UNCHANGED faults

AuthenticationFails == run.phase = "authenticating" /\ Fault /\ Become(Rejected)

----------------------------------------------------------------------------
(* Storage.listFilesLoop. *)

Connected ==
    /\ run.phase = "connecting"
    /\ Become([run EXCEPT !.phase = "listing", !.token = epoch])
    /\ UNCHANGED faults

ConnectFails == run.phase = "connecting" /\ Fault /\ Become(Rejected)

(* The hub: the files after a page's marker, as many as a page holds.        *)
After(page) == {f \in Files : f > page /\ bucket[f] # 0}
Listed(page) ==
    {f \in After(page) : Cardinality({g \in After(page) : g <= f}) <= PageSize}
MoreAfter(entries) == entries # {} /\ After(Max(entries)) # {}

(* The callback is given the entries that are not null, in their order.      *)
Named(entries) ==
    LET files == entries \ Filtered IN
    CHOOSE s \in [1..Cardinality(files) -> files] : \A i, j \in DOMAIN s : i < j => s[i] < s[j]

\* (seeded fault: filtered entries are counted)
CountedAll(entries) == Cardinality(entries)

Counted(entries) == Cardinality(entries \ Filtered)

\* (seeded fault: any page is retried from the first one on)
PageRetried(refused) ==
    /\ run.phase = "listing" /\ run.callCount <= MaxPages
    /\ IF refused THEN run.token # epoch /\ UNCHANGED faults ELSE Fault
    /\ Become([run EXCEPT !.phase = "connecting", !.callCount = @ + 1, !.page = 0])

(* Only the first call connects again, whatever has failed.                  *)
PageFails(refused) ==
    /\ run.phase = "listing" /\ run.callCount <= MaxPages
    /\ IF refused THEN run.token # epoch /\ UNCHANGED faults ELSE Fault
    /\ Become(IF run.callCount = 0
              THEN [run EXCEPT !.phase = "connecting", !.callCount = 1, !.fileCount = 0]
              ELSE Rejected)

TooMany == run.phase = "listing" /\ run.callCount > MaxPages /\ Become(Rejected) /\ UNCHANGED faults

Stops(entries) == run.stop \in entries \ Filtered

(* The callback ends the listing: what it was given counts but for the last, *)
(* and the entries of this page count that were filtered before it.          *)
PageStops ==
    /\ run.phase = "listing" /\ run.callCount <= MaxPages /\ run.token = epoch
    /\ LET entries == Listed(run.page)
           upTo == {f \in entries : f <= run.stop} IN
       /\ Stops(entries)
       /\ Become([run EXCEPT !.phase = "resolved", !.given = @ \o Named(upTo),
                             !.nulls = Cardinality(upTo \cap Filtered),
                             !.fileCount = @ + Cardinality(upTo) - 1])
    /\ UNCHANGED faults

(* A hub may give a marker with the last page too.                           *)
PageRead ==
    /\ run.phase = "listing" /\ run.callCount <= MaxPages /\ run.token = epoch
    /\ LET entries == Listed(run.page)
           read == [run EXCEPT !.given = @ \o Named(entries),
                               !.fileCount = @ + Counted(entries)] IN
       /\ ~Stops(entries)
       /\ \/ /\ entries # {}
             /\ Become([read EXCEPT !.page = Max(entries), !.callCount = @ + 1])
          \/ /\ ~MoreAfter(entries)
             /\ Become([read EXCEPT !.ended = TRUE,
                        !.phase = IF run.is = "dump" THEN "transferring" ELSE "resolved",
                        !.fetched = [i \in DOMAIN read.given |-> 0]])
    /\ UNCHANGED faults

----------------------------------------------------------------------------
(* gaia_dump_bucket.  The downloads of all batches are started together; the *)
(* batches only put their ends in order.                                     *)

Dumping(i) ==
    /\ run.phase = "transferring" /\ run.is = "dump"
    /\ i \in DOMAIN run.given /\ i \notin run.written \cup run.failed

Fetch(i) ==
    /\ Dumping(i) /\ run.fetched[i] = 0
    /\ Become(IF bucket[run.given[i]] = 0 THEN [run EXCEPT !.failed = @ \cup {i}]
              ELSE [run EXCEPT !.fetched[i] = bucket[run.given[i]]])
    /\ UNCHANGED faults

FetchFails(i) ==
    /\ Dumping(i) /\ run.fetched[i] = 0 /\ Fault
    /\ Become([run EXCEPT !.failed = @ \cup {i}])

Write(i) ==
    /\ Dumping(i) /\ run.fetched[i] # 0
    /\ run' = [run EXCEPT !.written = @ \cup {i}]
    /\ directory' = [directory EXCEPT ![Path(run.given[i])] = run.fetched[i]]
    /\ UNCHANGED <<bucket, writes, epoch, faults, commands, restored, touched, backup>>

BatchOf(i) == (i - 1) \div BatchSize

\* (seeded fault: the last batch is waited for, not the chain of all)
LastBatchWritten ==
    \A i \in DOMAIN run.given :
        BatchOf(i) = BatchOf(Len(run.given)) => i \in run.written

AllWritten == \A i \in DOMAIN run.given : i \in run.written

DumpResolves ==
    /\ run.phase = "transferring" /\ run.is = "dump" /\ AllWritten
    /\ run' = [run EXCEPT !.phase = "resolved"]
    /\ backup' = [path \in Paths |->
                    IF \E i \in run.written : Path(run.given[i]) = path
                    THEN directory[path] ELSE 0]
    /\ UNCHANGED <<bucket, writes, epoch, faults, commands, directory, restored, touched>>

----------------------------------------------------------------------------
(* gaia_restore_bucket: every file of the directory is put at once. *)

Restoring(i) ==
    /\ run.phase = "transferring" /\ run.is = "restore"
    /\ i \in DOMAIN run.given /\ i \notin run.written

Put(i) ==
    /\ Restoring(i)
    /\ run' = [run EXCEPT !.written = @ \cup {i}]
    /\ restored' = [restored EXCEPT ![Unescaped(run.given[i])] = directory[run.given[i]]]
    /\ UNCHANGED <<bucket, writes, epoch, faults, commands, directory, touched, backup>>

PutFails(i) == Restoring(i) /\ Fault /\ Become([run EXCEPT !.failed = @ \cup {i}])

RestoreResolves ==
    /\ run.phase = "transferring" /\ run.is = "restore" /\ AllWritten
    /\ Become([run EXCEPT !.phase = "resolved"]) /\ UNCHANGED faults

(* The process ends at the first error the chain of batches comes to; what   *)
(* is on its way is cut off.                                                 *)
TransferFails ==
    /\ run.phase = "transferring"
    /\ \E i \in run.failed : \A j \in DOMAIN run.given :
        BatchOf(j) < BatchOf(i) => j \in run.written
    /\ Become(Rejected) /\ UNCHANGED faults

----------------------------------------------------------------------------
Next ==
    \/ \E f \in Files : OthersWrite(f)
    \/ ExpireTokens \/ Killed
    \/ \E is \in Kinds : Start(is)
    \/ Authenticated \/ AuthenticationFails \/ Connected \/ ConnectFails
    \/ \E refused \in BOOLEAN : PageFails(refused)
    \/ TooMany \/ PageStops \/ PageRead
    \/ \E i \in Files : Fetch(i) \/ FetchFails(i) \/ Write(i) \/ Put(i) \/ PutFails(i)
    \/ DumpResolves \/ RestoreResolves \/ TransferFails

Spec == Init /\ [][Next]_vars

----------------------------------------------------------------------------
TypeOK ==
    /\ bucket \in [Files -> Nat] /\ directory \in [Paths -> Nat]
    /\ restored \in [RestoredNames -> Nat] /\ backup \in [Paths -> Nat]
    /\ writes \in Nat /\ epoch \in 0..MaxExpiries /\ faults \in 0..MaxFaults
    /\ commands \in 0..MaxCommands /\ touched \subseteq Files
    /\ run.is \in {"list", "dump", "restore"} /\ run.token \in 0..epoch
    /\ run.phase \in {"none", "authenticating", "connecting", "listing", "transferring",
                      "resolved", "rejected"}
    /\ run.page \in {0} \cup Files /\ run.callCount \in 0..(MaxPages + 1)
    /\ run.written \cup run.failed \subseteq DOMAIN run.given

HasListed == run.is # "restore" /\ run.phase \in {"transferring", "resolved"}
Untouched == Files \ (touched \cup Filtered)

(* A listing that ends, by itself or by its callback, has given each file    *)
(* once, and every file that nobody wrote to since it began: through new     *)
(* connections, empty last pages and writes between the pages                *)
(* (storage.ts:692-760).                                                     *)
ListedOnce ==
    HasListed =>
        /\ IsInjective(run.given)
        /\ Range(run.given) \cap Filtered = {}
        /\ \A f \in Untouched :
            run.ended \/ f <= run.stop => (f \in Range(run.given) <=> bucket[f] # 0)

(* The number a listing resolves with is that of the files it gave, the last *)
(* one excluded when the callback ended it (storage.ts:775), unless entries  *)
(* of the last page are filtered.                                            *)
CountTrue ==
    HasListed =>
        IF run.ended THEN run.fileCount = Len(run.given)
        ELSE run.nulls = 0 => run.fileCount = Len(run.given) - 1

Alone(f) == \A g \in Files : Path(g) = Path(f) => g = f

(* A dump that resolves holds every file nobody wrote to in the meantime, as *)
(* it is, unless another file has its path (cli.ts:1041, 1099-1109).         *)
BackupHolds ==
    run.is = "dump" /\ run.phase = "resolved" =>
        \A f \in Untouched : bucket[f] # 0 /\ Alone(f) => directory[Path(f)] = bucket[f]

(* A restore that resolves gives every file of the last dump, if that one    *)
(* resolved, its version back under its own name, whatever earlier dumps and *)
(* restores left behind (cli.ts:1160).                                       *)
RestoredAsBackedUp ==
    run.is = "restore" /\ run.phase = "resolved" =>
        \A f \in Files :
            (backup[Path(f)] # 0 /\ Alone(f) /\ Unescaped(NameOf[f]) = NameOf[f]) =>
                restored[NameOf[f]] = backup[Path(f)]
=============================================================================
