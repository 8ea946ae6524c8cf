---------------------------- MODULE ClarityCodec ----------------------------
(***************************************************************************)
(* Clarity values on the wire (transactions/src/clarity), the length       *)
(* prefixed strings they are made of (types.ts), and the ABI a contract    *)
(* call's arguments are made and checked with (contract-abi.ts).  A byte   *)
(* is a number below 256, a character its code point below 2048.           *)
(***************************************************************************)
EXTENDS Integers, SequencesExt, FiniteSetsExt

CONSTANTS
    IntSize,        \* CLARITY_INT_SIZE, in bits: a multiple of 8
    MaxString       \* MAX_STRING_LENGTH_BYTES

ASSUME CodecAssumption ==
    /\ IntSize \in Nat \ {0} /\ IntSize % 8 = 0
    /\ MaxString \in 1..255

Failed == [type |-> "error"]

ClarityType ==
    [Int |-> 0, UInt |-> 1, Buffer |-> 2, BoolTrue |-> 3, BoolFalse |-> 4,
     PrincipalStandard |-> 5, PrincipalContract |-> 6, ResponseOk |-> 7, ResponseErr |-> 8,
     OptionalNone |-> 9, OptionalSome |-> 10, List |-> 11, Tuple |-> 12, StringASCII |-> 13,
     StringUTF8 |-> 14]

----------------------------------------------------------------------------
(* Numbers and strings as bytes.                                             *)

BigEndian(n, width) == [i \in 1..width |-> (n \div (256 ^ (width - i))) % 256]
FromBigEndian(bytes) == FoldLeft(LAMBDA n, b : 256 * n + b, 0, bytes)

Concat(seqs) == FoldLeft(LAMBDA a, b : a \o b, <<>>, seqs)

Utf8(char) == IF char < 128 THEN <<char>> ELSE <<192 + (char \div 64), 128 + (char % 64)>>
Utf8Bytes(string) == Concat([i \in DOMAIN string |-> Utf8(string[i])])

(* Buffer.toString; a string is encoded as it is decoded here.               *)
FromUtf8(bytes) ==
    LET starts == SelectSeq([i \in DOMAIN bytes |-> i], LAMBDA i : bytes[i] \notin 128..191) IN
    [k \in DOMAIN starts |->
        IF bytes[starts[k]] < 128 THEN bytes[starts[k]]
        ELSE IF starts[k] + 1 \notin DOMAIN bytes THEN 65533     \* cut off
        ELSE (bytes[starts[k]] - 192) * 64 + bytes[starts[k] + 1] - 128]

AsciiBytes(string) == [i \in DOMAIN string |-> string[i] % 256]
FromAscii(bytes) == [i \in DOMAIN bytes |-> bytes[i] % 128]

(* Length prefixed strings: the limit is in bytes.                           *)
ExceedsMaxLengthBytes(string, max) == Len(Utf8Bytes(string)) > max

SerializeLPString(string, prefixBytes) ==
    BigEndian(Len(Utf8Bytes(string)), prefixBytes) \o Utf8Bytes(string)

----------------------------------------------------------------------------
(* The values, as their constructors make them.                              *)

Plain(type) == [type |-> type]
Of(type, value) == [type |-> type, value |-> value]

(* bn.js: a number that is not negative is left alone, and of one that is    *)
(* (above -2^(IntSize + 2)) the low bits count; when they are all 0, a bit   *)
(* too many comes out.                                                       *)
ToTwos(n) ==
    IF n >= 0 THEN n
    ELSE IF n % 2 ^ IntSize = 0 THEN 2 ^ IntSize ELSE n % 2 ^ IntSize

(* Any number of IntSize bits is taken, one above the greatest int as well.  *)
IntCV(n) == IF ToTwos(n) >= 2 ^ IntSize THEN Failed ELSE Of("Int", ToTwos(n))

UIntCV(n) ==
    IF ToTwos(n) < 0 \/ ToTwos(n) >= 2 ^ IntSize THEN Failed ELSE Of("UInt", ToTwos(n))

BufferCV(bytes) == Of("Buffer", bytes)
StandardPrincipalCV(address) == Of("PrincipalStandard", address)

ContractPrincipalCV(address, name) ==
    IF Len(Utf8Bytes(name)) >= MaxString THEN Failed
    ELSE [type |-> "PrincipalContract", value |-> address, name |-> name]

StringAsciiCV(string) == Of("StringASCII", string)
StringUtf8CV(string) == Of("StringUTF8", string)
ListCV(values) == Of("List", values)

Letters == (65..90) \cup (97..122)
NameChars == Letters \cup (48..57) \cup {33, 42, 43, 45, 47, 60, 61, 62, 63, 95}  \* !*+-/<=>?_
Operators == {<<45>>, <<43>>, <<61>>, <<47>>, <<42>>, <<60>>, <<62>>, <<60, 61>>, <<62, 61>>}

IsClarityName(string) ==
    /\ \/ string # <<>> /\ string[1] \in Letters /\ Range(string) \subseteq NameChars
       \/ string \in Operators
    /\ Len(string) < MaxString

(* The entries of a tuple, in the order its keys were put in.                *)
TupleCV(entries) ==
    IF \A i \in DOMAIN entries : IsClarityName(entries[i].key) THEN Of("Tuple", entries)
    ELSE Failed
Entry(key, value) == [key |-> key, value |-> value]

----------------------------------------------------------------------------
(* serializeCV.                                                              *)

Before(s, t) ==
    \/ Len(s) < Len(t) /\ s = SubSeq(t, 1, Len(s))
    \/ \E i \in 1..(IF Len(s) < Len(t) THEN Len(s) ELSE Len(t)) :
        /\ SubSeq(s, 1, i - 1) = SubSeq(t, 1, i - 1)
        /\ s[i] < t[i]

LexicographicOrder(entries) ==
    SortSeq(entries, LAMBDA a, b : Before(Utf8Bytes(a.key), Utf8Bytes(b.key)))

\* (seeded fault: the characters are counted, not the bytes)
SerializeCharacters(v) ==
    LET bytes == IF v.type = "StringUTF8" THEN Utf8Bytes(v.value) ELSE AsciiBytes(v.value) IN
    BigEndian(Len(v.value), 4) \o bytes

SerializeString(v) ==
    LET bytes == IF v.type = "StringUTF8" THEN Utf8Bytes(v.value) ELSE AsciiBytes(v.value) IN
    BigEndian(Len(bytes), 4) \o bytes

RECURSIVE SerializeCV(_)
SerializeCV(v) ==
    <<ClarityType[v.type]>> \o
    (CASE v.type \in {"Int", "UInt"} -> BigEndian(v.value, IntSize \div 8)
       [] v.type = "Buffer" -> BigEndian(Len(v.value), 4) \o v.value
       [] v.type \in {"BoolTrue", "BoolFalse", "OptionalNone"} -> <<>>
       [] v.type = "PrincipalStandard" -> v.value
       [] v.type = "PrincipalContract" -> v.value \o SerializeLPString(v.name, 1)
       [] v.type \in {"ResponseOk", "ResponseErr", "OptionalSome"} -> SerializeCV(v.value)
       [] v.type = "List" ->
            BigEndian(Len(v.value), 4)
            \o Concat([i \in DOMAIN v.value |-> SerializeCV(v.value[i])])
       [] v.type = "Tuple" ->
            LET entries == LexicographicOrder(v.value) IN
            BigEndian(Len(entries), 4)
            \o Concat([i \in DOMAIN entries |->
                        SerializeLPString(entries[i].key, 1) \o SerializeCV(entries[i].value)])
       [] v.type \in {"StringASCII", "StringUTF8"} -> SerializeString(v))

----------------------------------------------------------------------------
(* Reading: a value and the bytes after it.  A number that is not all there  *)
(* throws; a buffer that is not all there is as short as what is left.       *)

Read(value, rest) == [ok |-> TRUE, value |-> value, rest |-> rest]
Thrown == [ok |-> FALSE]
Then(read, Continue(_, _)) == IF read.ok THEN Continue(read.value, read.rest) ELSE Thrown

Take(bytes, n) == SubSeq(bytes, 1, IF n < Len(bytes) THEN n ELSE Len(bytes))
Drop(bytes, n) == SubSeq(bytes, n + 1, Len(bytes))

ReadBuffer(bytes, n) == Read(Take(bytes, n), Drop(bytes, n))
ReadUInt(bytes, width) ==
    IF Len(bytes) < width THEN Thrown
    ELSE Read(FromBigEndian(Take(bytes, width)), Drop(bytes, width))

(* An enumeration is a function from names to numbers.                       *)
ReadEnum(bytes, enum) ==
    IF bytes = <<>> \/ bytes[1] \notin Range(enum) THEN Thrown
    ELSE Read(CHOOSE name \in DOMAIN enum : enum[name] = bytes[1], Tail(bytes))

(* An address is its version and its hash.                                   *)
HashSize == 1           \* stands for 20
AddressSize == 1 + HashSize
DeserializeAddress(bytes) == ReadBuffer(bytes, AddressSize)

(* A prefix of which nothing is left is not a number; one cut off is shorter. *)
DeserializeLPString(bytes, prefixBytes, max) ==
    LET length == FromBigEndian(Take(bytes, prefixBytes))
        content == FromUtf8(Take(Drop(bytes, prefixBytes), length)) IN
    IF bytes = <<>> \/ ExceedsMaxLengthBytes(content, max) THEN Thrown
    ELSE Read(content, Drop(bytes, prefixBytes + length))

(* n values, one after the other.                                            *)
ReadEach(bytes, n, ReadOne(_)) ==
    FoldLeft(LAMBDA read, i :
                Then(read, LAMBDA values, rest :
                    Then(ReadOne(rest), LAMBDA one, left : Read(Append(values, one), left))),
             Read(<<>>, bytes), [i \in 1..n |-> i])

----------------------------------------------------------------------------
(* deserializeCV.                                                            *)

Checked(value, rest) == IF value = Failed THEN Thrown ELSE Read(value, rest)

DeserializeNumber(bytes, Make(_)) ==
    Checked(Make(FromBigEndian(Take(bytes, IntSize \div 8))), Drop(bytes, IntSize \div 8))

DeserializeSized(bytes, Make(_)) ==
    Then(ReadUInt(bytes, 4), LAMBDA n, rest : Read(Make(Take(rest, n)), Drop(rest, n)))

DeserializeContract(bytes) ==
    Then(DeserializeAddress(bytes), LAMBDA address, rest :
        Then(DeserializeLPString(rest, 1, MaxString), LAMBDA name, left :
            Checked(ContractPrincipalCV(address, name), left)))

(* tupleContents: a key that comes again replaces the value, not its place.  *)
WithEntry(entries, entry) ==
    IF \E i \in DOMAIN entries : entries[i].key = entry.key
    THEN [i \in DOMAIN entries |-> IF entries[i].key = entry.key THEN entry ELSE entries[i]]
    ELSE Append(entries, entry)

RECURSIVE DeserializeCV(_)

DeserializeEntry(bytes) ==
    Then(DeserializeLPString(bytes, 1, MaxString), LAMBDA key, rest :
        Then(DeserializeCV(rest), LAMBDA value, left : Read(Entry(key, value), left)))

DeserializeCV(bytes) ==
    Then(ReadEnum(bytes, ClarityType), LAMBDA type, rest :
        CASE type = "Int" -> DeserializeNumber(rest, IntCV)
          [] type = "UInt" -> DeserializeNumber(rest, UIntCV)
          [] type = "Buffer" -> DeserializeSized(rest, BufferCV)
          [] type \in {"BoolTrue", "BoolFalse", "OptionalNone"} -> Read(Plain(type), rest)
          [] type = "PrincipalStandard" ->
                Then(DeserializeAddress(rest), LAMBDA address, left :
                    Read(StandardPrincipalCV(address), left))
          [] type = "PrincipalContract" -> DeserializeContract(rest)
          [] type \in {"ResponseOk", "ResponseErr", "OptionalSome"} ->
                Then(DeserializeCV(rest), LAMBDA value, left : Read(Of(type, value), left))
          [] type = "List" ->
                Then(ReadUInt(rest, 4), LAMBDA n, some :
                    Then(ReadEach(some, n, DeserializeCV), LAMBDA values, left :
                        Read(ListCV(values), left)))
          [] type = "Tuple" ->
                Then(ReadUInt(rest, 4), LAMBDA n, some :
                    Then(ReadEach(some, n, DeserializeEntry), LAMBDA entries, left :
                        Checked(TupleCV(FoldLeft(WithEntry, <<>>, entries)), left)))
          [] type = "StringASCII" ->
                DeserializeSized(rest, LAMBDA text : StringAsciiCV(FromAscii(text)))
          [] type = "StringUTF8" ->
                DeserializeSized(rest, LAMBDA text : StringUtf8CV(FromUtf8(text))))

----------------------------------------------------------------------------
(* contract-abi.ts.  A type is a record; what is typed in is a text that is  *)
(* a number, a truth value (in lower case or not), a principal with or       *)
(* without a contract, or none of them.                                      *)

RECURSIVE MatchType(_, _)
MatchType(v, abi) ==
    CASE v.type \in {"BoolTrue", "BoolFalse"} -> abi.id = "bool"
      [] v.type = "Int" -> abi.id = "int128"
      [] v.type = "UInt" -> abi.id = "uint128"
      [] v.type = "Buffer" -> abi.id = "buffer" /\ abi.length >= Len(v.value)
      [] v.type = "StringASCII" -> abi.id = "string-ascii" /\ abi.length >= Len(v.value)
      [] v.type = "StringUTF8" -> abi.id = "string-utf8" /\ abi.length >= Len(v.value)
      [] v.type = "OptionalNone" -> abi.id \in {"none", "optional"}
      [] v.type = "OptionalSome" -> abi.id = "optional" /\ MatchType(v.value, abi.of)
      [] v.type = "ResponseErr" -> abi.id = "response" /\ MatchType(v.value, abi.error)
      [] v.type = "ResponseOk" -> abi.id = "response" /\ MatchType(v.value, abi.ok)
      [] v.type = "PrincipalContract" -> abi.id \in {"principal", "trait_reference"}
      [] v.type = "PrincipalStandard" -> abi.id = "principal"
      [] v.type = "List" ->
            /\ abi.id = "list" /\ abi.length = Len(v.value)
            /\ \A i \in DOMAIN v.value : MatchType(v.value[i], abi.of)
      [] v.type = "Tuple" ->
            /\ abi.id = "tuple"
            /\ \A name \in DOMAIN abi.of : \E i \in DOMAIN v.value :
                v.value[i].key = name /\ MatchType(v.value[i].value, abi.of[name])

ParsePrincipal(input) ==
    CASE input.is = "contract" -> ContractPrincipalCV(input.address, input.name)
      [] input.is = "address" -> StandardPrincipalCV(input.address)
      [] OTHER -> Failed

ParseNumber(input, Make(_)) == IF input.is = "number" THEN Make(input.n) ELSE Failed

ParseBool(input) ==
    IF input.is # "bool" THEN Failed ELSE Plain(IF input.on THEN "BoolTrue" ELSE "BoolFalse")

\* (seeded fault: characters are counted, not bytes)
ParseCharacters(input, abi) ==
    IF Len(input.text) > abi.length THEN Failed ELSE BufferCV(Utf8Bytes(input.text))

ParseBuffer(input, abi) ==
    IF Len(Utf8Bytes(input.text)) > abi.length THEN Failed
    ELSE BufferCV(Utf8Bytes(input.text))

ParseToCV(input, abi) ==
    CASE abi.id = "uint128" -> ParseNumber(input, UIntCV)
      [] abi.id = "int128" -> ParseNumber(input, IntCV)
      [] abi.id = "bool" -> ParseBool(input)
      [] abi.id = "principal" -> ParsePrincipal(input)
      [] abi.id = "buffer" -> ParseBuffer(input, abi)
      [] OTHER -> Failed

(* 0 and 1 are truth values too here, but TRUE is none.                      *)
EncodeBool(input) ==
    CASE input.is = "bool" /\ input.lower -> ParseBool(input)
      [] input.is = "number" /\ input.n \in {0, 1} ->
            Plain(IF input.n = 1 THEN "BoolTrue" ELSE "BoolFalse")
      [] OTHER -> Failed

(* No length is looked at here.                                              *)
EncodeClarityValue(abi, input) ==
    CASE abi.id \in {"uint128", "int128", "principal"} -> ParseToCV(input, abi)
      [] abi.id = "bool" -> EncodeBool(input)
      [] abi.id = "trait_reference" ->
            IF input.is = "contract" THEN ParsePrincipal(input) ELSE Failed
      [] abi.id = "none" -> Plain("OptionalNone")
      [] abi.id = "buffer" -> BufferCV(Utf8Bytes(input.text))
      [] abi.id = "string-ascii" -> StringAsciiCV(input.text)
      [] abi.id = "string-utf8" -> StringUtf8CV(input.text)
      [] OTHER -> Failed

ValidateContractCall(args, abiArgs) ==
    /\ Len(args) = Len(abiArgs)
    /\ \A i \in DOMAIN args : MatchType(args[i], abiArgs[i])
=============================================================================
