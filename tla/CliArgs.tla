------------------------------ MODULE CliArgs ------------------------------
(***************************************************************************)
(* How a command line becomes the arguments of a handler: getCLIOpts,      *)
(* getCommandArgs and checkArgs of cli/src/argparse.ts, and the options    *)
(* CLIMain of cli/src/cli.ts sets from them.  A word of the command line   *)
(* is a record; no two given values are the same.                          *)
(***************************************************************************)
EXTENDS CliSchema, SequencesExt

Word(of, no) == [is |-> "word", of |-> of, no |-> no]
Keyword(name) == [is |-> "keyword", name |-> name]      \* --name
Option(letter) == [is |-> "option", letter |-> letter]  \* -x
DashDash == [is |-> "--"]
Empty == [is |-> "empty"]
Null == [is |-> "null"]             \* null and undefined
Switch(on) == [is |-> "switch", on |-> on]

\* The words at some positions, in their order.
ThoseAt(words, positions) ==
    LET picked[n \in 0..Len(words)] ==
            IF n = 0 THEN <<>>
            ELSE IF n \in positions THEN Append(picked[n - 1], words[n])
            ELSE picked[n - 1] IN
    picked[Len(words)]

----------------------------------------------------------------------------
(* getCLIOpts: the option letters in their order, and those with a value.    *)

OptionLetters == <<"d", "e", "i", "t", "U", "x", "C", "F", "B", "P", "D", "G", "N", "H", "T",
                   "I", "m", "M", "X", "u", "p">>
Switches == {"d", "e", "i", "t", "U", "x"}

OptsTable == [o \in ToSet(OptionLetters) |-> IF o \in Switches THEN Switch(FALSE) ELSE Null]

At(words, i) == IF i \in DOMAIN words THEN words[i] ELSE Null

Blank(words, positions) ==
    [i \in DOMAIN words |-> IF i \in positions THEN Empty ELSE words[i]]

(* A switch that is on already takes a value, as the options do that have    *)
(* one.                                                                      *)
TakeOption(s, o, i) ==
    IF s.opts[o] = Switch(FALSE)
    THEN [opts |-> [s.opts EXCEPT ![o] = Switch(TRUE)], words |-> Blank(s.words, {i})]
    ELSE [opts |-> [s.opts EXCEPT ![o] = At(s.words, i + 1)],
          words |-> Blank(s.words, {i, i + 1})]

(* One letter is looked for from the first word on, up to a --.              *)
LookAt(s, o, i) ==
    IF \E j \in 1..i : s.words[j] = DashDash THEN s
    ELSE IF s.words[i] = Option(o) THEN TakeOption(s, o, i) ELSE s

Look(s, o) ==
    LET upTo[i \in 0..Len(s.words)] ==
            IF i = 0 THEN s ELSE LookAt(upTo[i - 1], o, i) IN
    upTo[Len(s.words)]

LookForAll(argv) ==
    LET after[k \in 0..Len(OptionLetters)] ==
            IF k = 0 THEN [opts |-> OptsTable, words |-> argv]
            ELSE Look(after[k - 1], OptionLetters[k]) IN
    after[Len(OptionLetters)]

GetCLIOpts(argv) ==
    LET s == LookForAll(argv) IN
    [opts |-> s.opts,
     rest |-> ThoseAt(s.words, {i \in DOMAIN s.words : s.words[i] \notin {Empty, DashDash}})]

----------------------------------------------------------------------------
(* getCommandArgs: keywords with their values, and the other words in order. *)

Wrong(error) == [status |-> "error", error |-> error]

Found(found, name) == \E f \in found : f.name = name
ValueOf(found, name) ==
    IF Found(found, name) THEN (CHOOSE f \in found : f.name = name).value ELSE Null

ScanWord(s, i, args, names) ==
    IF s.error # "none" \/ s.skip = i THEN s
    ELSE IF args[i].is # "keyword" THEN [s EXCEPT !.ordered = Append(@, args[i])]
    ELSE IF Found(s.found, args[i].name) THEN [s EXCEPT !.error = "duplicate argument"]
    ELSE IF args[i].name \notin ToSet(names) THEN [s EXCEPT !.error = "no such argument"]
    ELSE IF i = Len(args) THEN [s EXCEPT !.error = "no value for argument"]
    ELSE [found |-> s.found \cup {[name |-> args[i].name, value |-> args[i + 1]]},
          ordered |-> s.ordered, skip |-> i + 1, error |-> s.error]

Scan(args, names) ==
    LET upTo[i \in 0..Len(args)] ==
            IF i = 0 THEN [found |-> {}, ordered |-> <<>>, skip |-> 0, error |-> "none"]
            ELSE ScanWord(upTo[i - 1], i, args, names) IN
    upTo[Len(args)]

\* (seeded fault: an item given by its keyword uses an argument up)
MergeInStep(s, name) ==
    [merged |-> Append(s.merged, IF Found(s.found, name) THEN ValueOf(s.found, name)
                                 ELSE At(s.ordered, s.next)),
     found |-> s.found, ordered |-> s.ordered, next |-> s.next + 1]

(* The next item is its keyword's value or the next of the other words.      *)
Merge(s, name) ==
    IF s.next <= Len(s.ordered) /\ ~Found(s.found, name)
    THEN [merged |-> Append(s.merged, s.ordered[s.next]),
          found |-> s.found, ordered |-> s.ordered, next |-> s.next + 1]
    ELSE [s EXCEPT !.merged = Append(@, ValueOf(s.found, name))]

MergeAll(found, ordered, names) ==
    LET upTo[k \in 0..Len(names)] ==
            IF k = 0 THEN [merged |-> <<>>, found |-> found, ordered |-> ordered, next |-> 1]
            ELSE Merge(upTo[k - 1], names[k]) IN
    upTo[Len(names)].merged

GetCommandArgs(names, args) ==
    LET s == Scan(args, names) IN
    IF s.error # "none" THEN Wrong(s.error)
    ELSE [status |-> "ok", arguments |-> MergeAll(s.found, s.ordered, names)]

----------------------------------------------------------------------------
(* checkArgs: what the schema says of the merged arguments.                  *)

Sample(word) == IF word.is = "word" THEN word.of ELSE word.is

\* (seeded fault: the last argument that is required may be missing)
MissingOrRequired(schema, i) == i >= schema.min /\ i <= schema.max

MayBeMissing(schema, i) == i > schema.min /\ i <= schema.max

Valid(schema, arguments) ==
    \A i \in DOMAIN arguments :
        IF arguments[i] = Null THEN MayBeMissing(schema, i)
        ELSE Sample(arguments[i]) \in schema.patterns[i]

CheckArgs(argList) ==
    IF argList = <<>> THEN Wrong("No command given")
    ELSE LET name == Sample(argList[1]) IN
    IF name \notin DOMAIN CLI_ARGS THEN Wrong("Unrecognized command")
    ELSE LET parsed == GetCommandArgs(CLI_ARGS[name].names, Tail(argList)) IN
    IF parsed.status = "error" THEN parsed
    ELSE IF Valid(CLI_ARGS[name], parsed.arguments)
    THEN [status |-> "ok", command |-> name, args |-> parsed.arguments]
    ELSE Wrong("Invalid command arguments")

----------------------------------------------------------------------------
(* CLIMain: the settings it makes of the options; CLIOptAsString and         *)
(* CLIOptAsBool throw at an option of the other kind.                        *)

CLIOptAsString(opts, o) == IF o \in DOMAIN opts THEN opts[o] ELSE Null

Throws(opts) ==
    \E o \in Switches : opts[o].is # "switch"

Given(opts, o) == o \in DOMAIN opts /\ opts[o] \notin {Null, Empty, Switch(FALSE)}

Settings(opts) ==
    [d |-> Given(opts, "d"), e |-> Given(opts, "e"), U |-> Given(opts, "U"),
     x |-> Given(opts, "x"),
     N |-> CLIOptAsString(opts, "N"),
     G |-> IF Given(opts, "G") THEN CLIOptAsString(opts, "N") ELSE Null,
     M |-> CLIOptAsString(opts, "M"), C |-> CLIOptAsString(opts, "C"),
     H |-> CLIOptAsString(opts, "H"), T |-> CLIOptAsString(opts, "T"),
     I |-> CLIOptAsString(opts, "I"), X |-> CLIOptAsString(opts, "X"),
     B |-> CLIOptAsString(opts, "B"), F |-> CLIOptAsString(opts, "F"),
     P |-> CLIOptAsString(opts, "P"), D |-> CLIOptAsString(opts, "D"),
     u |-> CLIOptAsString(opts, "u"), p |-> CLIOptAsString(opts, "p"),
     c |-> CLIOptAsString(opts, "c"),
     network |-> IF Given(opts, "t") THEN "testnet"
                 ELSE IF Given(opts, "i") THEN "regtest" ELSE "mainnet"]

CLIMain(argv) ==
    LET o == GetCLIOpts(argv)
        checked == CheckArgs(o.rest) IN
    IF checked.status = "error" THEN checked
    ELSE IF Throws(o.opts) THEN Wrong("thrown")
    ELSE [status |-> "ok", command |-> checked.command, args |-> checked.args,
          settings |-> Settings(o.opts),
          handled |-> checked.command \in DOMAIN COMMANDS \cup {"help"}]
=============================================================================
