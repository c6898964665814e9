----------------------------- MODULE SignalCodec ----------------------------
(***************************************************************************)
(* The wire format of a telemetry value: protocol/signal_codec.py and      *)
(* protocol/telemetry_codec.py, with the rounding of Python's binary64     *)
(* arithmetic and of the binary32 of a 4-byte float field.                 *)
(*                                                                         *)
(* A number is an integer count of parts, One parts to the unit; a payload *)
(* is a sequence of bytes.  scale and shift (offset_value) are in parts.   *)
(* The numbers of a binary format are the m * 2^k * least with m smaller   *)
(* than its precision: with 2^1074 parts to the unit Double has precision  *)
(* 2^53 and least 1, Single 2^24 and 2^925.  No number here is infinite.   *)
(***************************************************************************)
EXTENDS Integers, Sequences, SequencesExt

CONSTANTS
  One,
  Tolerance,       (* abs_tol of the conversion to an integer              *)
  Single, Double,  (* binary32 and binary64                                *)
  Largest          (* the largest number of Single                         *)

Format == [precision : Nat \ {0}, least : Nat \ {0}]

ASSUME CodecAssumption ==
  /\ One \in Nat \ {0} /\ Tolerance \in Nat /\ Largest \in Nat
  /\ \A F \in {Single, Double} : F \in Format /\ F.precision % 2 = 0

Magnitude(n) == IF n < 0 THEN -n ELSE n

Two[k \in Nat] == IF k = 0 THEN 1 ELSE 2 * Two[k - 1]

-----------------------------------------------------------------------------
(* Rounding.  The pair <<p, q>> is the number p / q.                         *)
Ratio == Int \X (Nat \ {0})

(* round: to the nearest integer, of two to the even one.                    *)
Nearest[r \in Ratio] ==
  LET low == r[1] \div r[2]
      rest == r[1] % r[2]
  IN  IF 2 * rest < r[2] \/ (2 * rest = r[2] /\ low % 2 = 0) THEN low ELSE low + 1

(* The distance between neighbouring numbers of the format F at p / q.       *)
Exponent(F, p, q) ==
  CHOOSE k \in 0..p :
    /\ p < q * (F.precision * (F.least * Two[k]))
    /\ k = 0 \/ q * (F.precision * (F.least * Two[k - 1])) <= p

Spacing(F, p, q) == F.least * Two[Exponent(F, Magnitude(p), q)]

(* The number of the format F nearest to a ratio.                            *)
Rounded(F) == [r \in Ratio |->
  LET space == Spacing(F, r[1], r[2]) IN space * Nearest[<<r[1], r[2] * space>>]]

Float(n) == Rounded(Double)[<<n, 1>>]
Plus(a, b) == Float(a + b)
Times(a, b) == Rounded(Double)[<<a * b, One>>]
Over(a, b) ==
  Rounded(Double)[<<IF b < 0 THEN -(a * One) ELSE a * One, Magnitude(b)>>]

-----------------------------------------------------------------------------
(* A field and its raw values.                                               *)

Field == {f \in [offset : Nat, length : Nat \ {0}, type : {"uint", "int", "float"},
                 endian : {"big", "little"}, scale : Int \ {0}, shift : Int] :
            f.type = "float" => f.length \in {4, 8}}

IsFloat(field) == field.type = "float"
IsPlain(field) == ~IsFloat(field) /\ field.scale = One /\ field.shift = 0

(* _integer_raw_range                                                        *)
Span(length) == Two[8 * length]

RawRange(field) ==
  IF field.type = "uint" THEN 0 .. Span(field.length) - 1
  ELSE -Two[8 * field.length - 1] .. Two[8 * field.length - 1] - 1

-----------------------------------------------------------------------------
(* A raw value and its bytes: to_bytes and from_bytes.  The bytes of a float *)
(* are pieces of a number of its format that are not told apart.             *)

Ordered(field, bytes) == IF field.endian = "big" THEN bytes ELSE Reverse(bytes)

RawBytes(field, raw) ==
  LET n == field.length
  IN  IF IsFloat(field) THEN [i \in 1..n |-> raw]
      ELSE Ordered(field, [i \in 1..n |-> (raw \div Span(n - i)) % 256])

RawValue(field, bytes) ==
  LET n == field.length
      sum[i \in 0..n] == IF i = 0 THEN 0 ELSE 256 * sum[i - 1] + Ordered(field, bytes)[i]
  IN  IF IsFloat(field) THEN bytes[1]
      ELSE IF sum[n] \in RawRange(field) THEN sum[n] ELSE sum[n] - Span(n)

-----------------------------------------------------------------------------
(* A number and its raw value: raw_value * scale + offset.                   *)

Unscaled(field, value) == Over(Plus(Float(value), -field.shift), field.scale)

ToRaw(field, value) ==
  IF IsFloat(field)
    THEN IF field.length = 4 THEN Rounded(Single)[<<Unscaled(field, value), 1>>]
         ELSE Unscaled(field, value)
  ELSE IF IsPlain(field) THEN value \div One
  ELSE Nearest[<<Unscaled(field, value), One>>]

(* A raw value as the number that is scaled back.                            *)
Number(field, raw) == IF IsFloat(field) THEN raw ELSE Float(raw * One)

FromRaw(field, raw) ==
  IF IsPlain(field) THEN raw * One
  ELSE Plus(Times(Number(field, raw), field.scale), field.shift)

(* _physical_to_raw_integer: with neither scale nor offset only a Python int *)
(* is taken; otherwise the conversion must come out even, but for Tolerance. *)
Converts(field, value, isInt) ==
  \/ IsFloat(field)
  \/ IsPlain(field) /\ isInt
  \/ /\ ~IsFloat(field) /\ ~IsPlain(field)
     /\ \E x \in {Unscaled(field, value)} : Magnitude(x - Nearest[<<x, One>>] * One) <= Tolerance

(* What has a place in the field: struct packs any number as a binary64.     *)
InRange(field, raw) ==
  IF IsFloat(field) THEN field.length = 4 => Magnitude(raw) <= Largest
  ELSE raw \in RawRange(field)

(* Mutant: the range of the field is not checked.                            *)
Encodable_NoRange(field, value, isInt) == Converts(field, value, isInt)

Encodable(field, value, isInt) ==
  Converts(field, value, isInt) /\ \E raw \in {ToRaw(field, value)} : InRange(field, raw)

(* SignalLayout of one field: the bytes before it are zero.                  *)
Pack(field, raw) == [i \in 1..field.offset |-> 0] \o RawBytes(field, raw)
Unpack(field, payload) ==
  RawValue(field, SubSeq(payload, field.offset + 1, field.offset + field.length))

EncodeNumber(field, value) == Pack(field, ToRaw(field, value))
DecodeNumber(field, payload) == FromRaw(field, Unpack(field, payload))

(* _to_raw and _from_raw: enum maps integers to labels, one to one.          *)
Truncated(n) == IF n < 0 THEN -((-n) \div One) ELSE n \div One

EncodeLabel(field, enum, label) ==
  EncodeNumber(field, One * (CHOOSE key \in DOMAIN enum : enum[key] = label))
DecodeLabel(field, enum, payload) == enum[Truncated(DecodeNumber(field, payload))]

-----------------------------------------------------------------------------
(* What becomes of a number on its way.                                      *)
Carried(field, value) == FromRaw(field, ToRaw(field, value))

(* The roundings on that way: half of this is what they may add up to, in    *)
(* parts of a part.                                                          *)
Blur(field, value) ==
  LET moved == Plus(Float(value), -field.shift)
      raw == ToRaw(field, value)
      number == Number(field, raw)
      scaled == Times(number, field.scale)
      wire == IF IsFloat(field)
                THEN IF field.length = 4 THEN Spacing(Single, Unscaled(field, value), 1) ELSE 0
                ELSE 2 * Tolerance + Spacing(Double, raw * One, 1)
  IN  IF IsPlain(field) THEN 0
      ELSE Magnitude(field.scale)
             * (Spacing(Double, moved * One, Magnitude(field.scale)) + wire)
           + One * (Spacing(Double, value, 1)
                    + Spacing(Double, Float(value) - field.shift, 1)
                    + Spacing(Double, number * field.scale, One)
                    + Spacing(Double, scaled + field.shift, 1))
=============================================================================
