----------------------------- MODULE Transforms -----------------------------
(***************************************************************************)
(* apply_transforms of src/matcher.rs: the modifiers base64, base64offset, *)
(* wide and windash replace the values a condition compares with, one      *)
(* modifier after another, in the order the rule writes them.  A value is  *)
(* a SigmaValue: its kind and the text as_str_lossy gives.                 *)
(***************************************************************************)
EXTENDS Tokens, Integers, SequencesExt

CONSTANT Utf8(_)     \* the bytes of a character

Kinds       == {"string", "int", "float", "bool", "null"}
SigmaValues == [kind : Kinds, text : Seq(Chars)]

Str(text) == [kind |-> "string", text |-> text]

CeilDiv(a, b) == (a + b - 1) \div b

-----------------------------------------------------------------------------
(* Base 64.                                                                 *)

Alphabet == <<
    "A", "B", "C", "D", "E", "F", "G", "H", "I", "J", "K", "L", "M", "N", "O", "P",
    "Q", "R", "S", "T", "U", "V", "W", "X", "Y", "Z", "a", "b", "c", "d", "e", "f",
    "g", "h", "i", "j", "k", "l", "m", "n", "o", "p", "q", "r", "s", "t", "u", "v",
    "w", "x", "y", "z", "0", "1", "2", "3", "4", "5", "6", "7", "8", "9", "+", "/" >>

ASSUME AlphabetAssumption == ToSet(Alphabet) \union {"=", " "} \subseteq Chars
ASSUME Utf8Assumption == /\ \A c \in Chars : Utf8(c) \in Seq(0..255)
                         /\ Len(Utf8(" ")) = 1

Bytes(text) == FlattenSeq([i \in DOMAIN text |-> Utf8(text[i])])

\* Up to three bytes give four characters, of which the last stand for the missing.
EncodeChunk(chunk) ==
    LET Byte(i) == IF i <= Len(chunk) THEN chunk[i] ELSE 0
        triple  == Byte(1) * 65536 + Byte(2) * 256 + Byte(3)
        shift   == <<262144, 4096, 64, 1>>
    IN [i \in 1..4 |-> IF i > Len(chunk) + 1 THEN "="
                       ELSE Alphabet[((triple \div shift[i]) % 64) + 1]]

base64_encode(text) ==
    LET bytes == Bytes(text)
        Chunk(k) == SubSeq(bytes, 3 * k - 2, Min({3 * k, Len(bytes)}))
    IN FlattenSeq([k \in 1..CeilDiv(Len(bytes), 3) |-> EncodeChunk(Chunk(k))])

\* Mutant of LeadingTrim: a character that mixes in a preceding byte is kept.
LeadingTrim_Floor(offset) == (offset * 4) \div 3

\* Characters that hold bits of the bytes before the value.
LeadingTrim(offset) == CeilDiv(offset * 4, 3)

\* Characters that hold bits of the bytes after it, and the padding.
TrailingTrim(len) == IF len % 3 = 1 THEN 3 ELSE IF len % 3 = 2 THEN 2 ELSE 0

\* The value as it looks `offset` bytes after the start of a group of three.
OffsetVariant(text, offset) ==
    LET padded  == [i \in 1..offset |-> " "] \o text
        encoded == base64_encode(padded)
    IN SubSeq(encoded, LeadingTrim(offset) + 1,
              Len(encoded) - TrailingTrim(Len(Bytes(padded))))

\* The variants at the three offsets, but for empty ones.
OffsetVariants(text) ==
    LET Variant(offset) ==
            LET t == OffsetVariant(text, offset) IN IF t = <<>> THEN <<>> ELSE <<t>>
    IN FlattenSeq([i \in 1..3 |-> Variant(i - 1)])

-----------------------------------------------------------------------------
(* Wide and windash.                                                        *)

Nul == "nul"

\* Every character is followed by a NUL: UTF-16LE as long as it is ASCII.
WideOf(text) ==
    [i \in 1..(2 * Len(text)) |-> IF i % 2 = 1 THEN text[(i + 1) \div 2] ELSE Nul]

DashVariants == <<"-", "/", "endash", "emdash", "bar">>

ASSUME DashAssumption == ToSet(DashVariants) \subseteq Chars

WithDash(text, dash) ==
    [i \in DOMAIN text |-> IF text[i] \in ToSet(DashVariants) THEN dash ELSE text[i]]

\* A spelling that is not among the variants yet becomes one.
AddVariant(variants, text) ==
    IF \E i \in DOMAIN variants : variants[i].text = text THEN variants
    ELSE Append(variants, Str(text))

\* The value, then its spellings with one dash throughout, each once.
WindashVariants(v) ==
    LET upTo[d \in 0..Len(DashVariants)] ==
            IF d = 0 THEN <<v>> ELSE AddVariant(upTo[d - 1], WithDash(v.text, DashVariants[d]))
    IN upTo[Len(DashVariants)]

-----------------------------------------------------------------------------
is_transform(modifier) == modifier \in {"base64", "base64offset", "wide", "windash"}

StrAll(texts) == [i \in DOMAIN texts |-> Str(texts[i])]

\* What one modifier makes of one value; an empty one is left alone.
Transformed(v, modifier) ==
    IF modifier = "windash" THEN WindashVariants(v)
    ELSE IF v.text = <<>> \/ ~is_transform(modifier) THEN <<v>>
    ELSE StrAll(CASE modifier = "base64"       -> <<base64_encode(v.text)>>
                  [] modifier = "base64offset" -> OffsetVariants(v.text)
                  [] modifier = "wide"         -> <<WideOf(v.text)>>)

\* One modifier after another, as the rule writes them.
TransformedAll(values, modifier) ==
    FlattenSeq([i \in DOMAIN values |-> Transformed(values[i], modifier)])

apply_transforms(values, modifiers) ==
    LET after[n \in 0..Len(modifiers)] ==
            IF n = 0 THEN values ELSE TransformedAll(after[n - 1], modifiers[n])
    IN after[Len(modifiers)]
=============================================================================
