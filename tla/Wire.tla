-------------------------------- MODULE Wire --------------------------------
(***************************************************************************)
(* The protobuf wire format, as far as the generated code of the two sides *)
(* relies on it: a message is a sequence of tokens, each a field number, a *)
(* wire type and either a varint or something with a length. libprotobuf   *)
(* itself is outside the repository.                                       *)
(***************************************************************************)
EXTENDS Integers, Sequences, SequencesExt

CONSTANTS
    Word32, Word64, \* values of 32 and of 64 bits (2^32 and 2^64 in the code)
    BadText         \* a text that is not UTF-8

ASSUME WordsAssumption ==
    /\ Word32 \in Nat \ {0} /\ Word64 \in Nat \ {0}
    /\ Word32 % 2 = 0 /\ Word32 > 4 /\ Word64 % Word32 = 0 /\ Word64 > Word32

ASSUME TextAssumption == BadText # ""

\* Bug: a number that may be negative is decoded without its sign.
Unsigned(n, word) == n

\* Two's complement.
Signed(n, word) == IF 2 * n < word THEN n ELSE n - word

IsVarint(type) == type \in {"int32", "int64", "bool"}
IsNested(type) == type \in {"message", "repeated"}

\* A nested message is a pointer: no object or one; a repeated one, a sequence.
Default(type) ==
    IF type = "bool" THEN FALSE
    ELSE IF type = "string" THEN ""
    ELSE IF IsNested(type) THEN <<>> ELSE 0

\* A token holds a varint or what has a length.
Token(num, type, val) == [num |-> num, varint |-> IsVarint(type), val |-> val]

\* WriteInt32ToArray and its kin: an int32 is extended to 64 bits.
Varint(type, v) == IF type = "bool" THEN (IF v THEN 1 ELSE 0) ELSE v % Word64

\* ReadVarint64, assigned to the field.
Number(type, n) ==
    IF type = "bool" THEN n # 0
    ELSE IF type = "int32" THEN Signed(n % Word32, Word32) ELSE Signed(n, Word64)

Scalar(num, type, v) == Token(num, type, IF IsVarint(type) THEN Varint(type, v) ELSE v)

\* VerifyUTF8 and the strict string parsers of the tables.
Readable(type, val) == type # "string" \/ val # BadText

Valued(type, val) == IF IsVarint(type) THEN Number(type, val) ELSE val

\* The field a token is for: another wire type makes it an unknown field.
FieldsFor(fields, t) ==
    {i \in DOMAIN fields : fields[i].num = t.num /\ IsVarint(fields[i].type) = t.varint}

FieldFor(fields, t) == fields[CHOOSE i \in FieldsFor(fields, t) : TRUE]

Names(fields) == {fields[i].name : i \in DOMAIN fields}
FieldNamed(fields, n) == fields[CHOOSE i \in DOMAIN fields : fields[i].name = n]

\* What a parse that failed has made.
Failed == [failed |-> TRUE]

\* After a failure nothing more is read, and unknown fields are set aside.
Skips(fields, o, t) == o = Failed \/ FieldsFor(fields, t) = {}
=============================================================================
