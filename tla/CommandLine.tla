---------------------------- MODULE CommandLine ----------------------------
(***************************************************************************)
(* What a line of words says to the command line interface, read from left *)
(* to right, and what CLIMain of cli/src/cli.ts must make of it.            *)
(***************************************************************************)
EXTENDS CliArgs, FiniteSetsExt

VARIABLE input      \* the line, [kind |-> "line", argv |-> words]

(* The words of a command line, of any length.                               *)
CliWord ==
    [is: {"word"}, of: STRING, no: Nat] \cup [is: {"keyword"}, name: STRING]
    \cup [is: {"option"}, letter: STRING] \cup {DashDash}

Lines == input.kind = "line" => input.argv \in Seq(CliWord)

----------------------------------------------------------------------------
(* Options: up to the first --, a letter that is known.  A word is none if   *)
(* it is the value of the one before it.                                     *)

Marks(argv) == {i \in DOMAIN argv : argv[i] = DashDash}
BeforeMarks(argv) == {i \in DOMAIN argv : \A j \in Marks(argv) : i < j}

OptionsIn(argv) ==
    {i \in BeforeMarks(argv) :
        argv[i].is = "option" /\ argv[i].letter \in ToSet(OptionLetters)}
Valued(argv) == {i \in OptionsIn(argv) : argv[i].letter \notin Switches}
ValuesOf(argv) == {i + 1 : i \in Valued(argv)} \cap DOMAIN argv

Ordinary(argv) ==
    /\ \A i \in ValuesOf(argv) : i \notin OptionsIn(argv) \cup Marks(argv)
    /\ \A i, j \in OptionsIn(argv) \ Valued(argv) : argv[i] = argv[j] => i = j

OptionsSay(argv) ==
    [o \in ToSet(OptionLetters) |->
        LET here == {i \in OptionsIn(argv) : argv[i].letter = o} IN
        IF o \in Switches THEN Switch(here # {})
        ELSE IF here = {} THEN Null ELSE At(argv, Max(here) + 1)]

WordsLeft(argv) ==
    ThoseAt(argv, DOMAIN argv \ (OptionsIn(argv) \cup ValuesOf(argv) \cup Marks(argv)))

----------------------------------------------------------------------------
(* Arguments.  In a row of keywords every other one is the value of the one  *)
(* before it.                                                                *)

BeforeRow(args, i) == Max({0} \cup {j \in 1..(i - 1) : args[j].is # "keyword"})
Keywords(args) ==
    {i \in DOMAIN args : args[i].is = "keyword" /\ (i - BeforeRow(args, i)) % 2 = 1}

KeywordsOf(args, name) == {i \in Keywords(args) : args[i].name = name}
NotByKeyword(args) == ThoseAt(args, DOMAIN args \ (Keywords(args) \cup {i + 1 : i \in Keywords(args)}))

Misused(names, args) ==
    \/ \E i \in Keywords(args) : args[i].name \notin ToSet(names) \/ i = Len(args)
    \/ \E i, j \in Keywords(args) : i # j /\ args[i].name = args[j].name

(* How many of the first k items are not given by keyword.                   *)
Unnamed(names, args, k) == Cardinality({j \in 1..k : KeywordsOf(args, names[j]) = {}})

ArgumentSays(names, args, k) ==
    IF KeywordsOf(args, names[k]) # {}
    THEN args[(CHOOSE i \in KeywordsOf(args, names[k]) : TRUE) + 1]
    ELSE At(NotByKeyword(args), Unnamed(names, args, k))

Refused == [status |-> "error"]
Accepted(args) == [status |-> "ok", args |-> args]

ArgumentsSay(names, args) ==
    IF Misused(names, args) THEN Refused
    ELSE Accepted([k \in DOMAIN names |-> ArgumentSays(names, args, k)])

Acceptable(c, arguments) ==
    \A k \in DOMAIN arguments :
        IF arguments[k] = Null THEN k > c.min ELSE Sample(arguments[k]) \in c.patterns[k]

LineSays(argv) ==
    LET words == WordsLeft(argv) IN
    IF words = <<>> THEN Refused
    ELSE IF Sample(words[1]) \notin DOMAIN CLI_ARGS THEN Refused
    ELSE LET c == CLI_ARGS[Sample(words[1])]
             says == ArgumentsSay(c.names, Tail(words)) IN
         IF says = Refused THEN Refused
         ELSE IF Acceptable(c, says.args) THEN says ELSE Refused

----------------------------------------------------------------------------
(* Properties *)

(* The reading of options, one letter at a time over the whole line, and of  *)
(* arguments, keywords first, comes to what the words say from left to right *)
(* in every line with no switch twice and no option where a value should be: *)
(* the options' values, which lines are refused, and what each argument is.  *)
ReadAsGiven ==
    input.kind = "line" /\ Ordinary(input.argv) =>
        LET says == LineSays(input.argv)
            read == CLIMain(input.argv) IN
        /\ GetCLIOpts(input.argv)
             = [opts |-> OptionsSay(input.argv), rest |-> WordsLeft(input.argv)]
        /\ read.status = says.status
        /\ read.status = "ok" => read.args = says.args

(* A handler of cli.ts is never called without an argument it takes for      *)
(* given: the schema that lets optional ones be missing is kept apart from   *)
(* the handlers, in another file and under another name.                     *)
HandlersGetTheirArguments ==
    input.kind = "line" =>
        LET read == CLIMain(input.argv) IN
        read.status = "ok" /\ read.command \in DOMAIN COMMANDS =>
            \A i \in 1..COMMANDS[read.command].given : read.args[i] # Null
=============================================================================
