-------------------------------- MODULE Utf8 --------------------------------
(***************************************************************************)
(* Texts in UTF-8 (src/el/text/utf8.cc): read from any of their bytes, and *)
(* walked forwards and backwards.  A text is given byte by byte, or        *)
(* encoded character by character.  Indices count from 0, as in the code.  *)
(***************************************************************************)
EXTENDS Integers, Sequences, FiniteSetsExt, SequencesExt

CONSTANTS Bytes, MaxBytes,  \* texts of any bytes
          Chars, MaxChars   \* texts of characters

(* Assumed of the constants where they get their values *)
Utf8Assumption ==
  /\ Bytes \subseteq 1 .. 255 /\ Chars \subseteq 1 .. 1114111 /\ {MaxBytes, MaxChars} \subseteq Nat

VARIABLES text,     \* the bytes
          encoded,  \* whether they are characters encoded, and
          written   \* auxiliary: which

vars == <<text, encoded, written>>

Invalid == 65535

Continues(byte) == byte \in 128 .. 191
(* The n bytes before the last of a sequence carry six bits each. *)
Joined(lead, rest) == FoldLeft(LAMBDA rv, byte : (rv * 64) + (byte % 64), lead, rest)

-----------------------------------------------------------------------------
(* decode reads at index i of bytes s; NULL terminates them. *)
Decoded(ch, length) == [ch |-> ch, length |-> length]
decode(s, i) ==
  LET lead == s[i + 1]
      Has(n) == i + n <= Len(s) /\ \A k \in 2 .. n : Continues(s[i + k])
      Rest(n) == SubSeq(s, i + 2, i + n)
      Sequence(n, modulus, least) ==
        LET rv == Joined(lead % modulus, Rest(n)) IN IF rv >= least THEN Decoded(rv, n) ELSE Decoded(Invalid, 0)
  IN  IF i = Len(s) THEN Decoded(0, 0)
      ELSE IF lead < 128 THEN Decoded(lead, 1)
      ELSE IF ~Continues(lead) /\ lead < 224 /\ Has(2) THEN Sequence(2, 32, 128)
      ELSE IF lead \in 224 .. 239 /\ Has(3) THEN Sequence(3, 16, 2049)
      ELSE IF lead >= 240 /\ Has(4) THEN Sequence(4, 8, 65536)
      ELSE Decoded(Invalid, 0)

encode(ch) ==
  LET Tail6(shift) == 128 + ((ch \div shift) % 64)
  IN  IF ch < 128 THEN <<ch>>
      ELSE IF ch < 2048 THEN <<192 + ch \div 64, Tail6(1)>>
      ELSE IF ch < 65536 THEN <<224 + ch \div 4096, Tail6(64), Tail6(1)>>
      ELSE IF ch <= 1114111 THEN <<240 + ch \div 262144, Tail6(4096), Tail6(64), Tail6(1)>>
      ELSE <<239, 191, 191>>

(* What is not a character is passed byte by byte. *)
decode_next(s, i) == LET d == decode(s, i) IN [ch |-> d.ch, i |-> i + IF d.ch = Invalid THEN 1 ELSE d.length]

Starts(s, i) == i = Len(s) \/ ~Continues(s[i + 1])
move_inc(s, i) ==
  LET near == {k \in i + 1 .. Min({i + 3, Len(s)}) : Starts(s, k)}
  IN  IF i = Len(s) THEN i ELSE IF near # {} THEN Min(near) ELSE i + 4
move_dec(s, i) ==
  LET near == {k \in Max({0, i - 3}) .. i - 1 : Starts(s, k)}
  IN  IF near # {} THEN Max(near) ELSE Max({0, i - 4})

count_characters(s) ==
  LET after[i \in 0 .. Len(s)] ==
        IF i = Len(s) THEN 0 ELSE LET next == decode_next(s, i) IN IF next.ch = 0 THEN 0 ELSE 1 + after[next.i]
  IN  after[0]

-----------------------------------------------------------------------------
InitText == text = <<>> /\ encoded \in BOOLEAN /\ written = <<>>

AddByte(byte) == ~encoded /\ Len(text) < MaxBytes /\ text' = Append(text, byte) /\ UNCHANGED <<encoded, written>>
AddChar(ch) ==
  /\ encoded /\ Len(written) < MaxChars
  /\ text' = text \o encode(ch) /\ written' = Append(written, ch) /\ UNCHANGED encoded

TextNext == (\E byte \in Bytes : AddByte(byte)) \/ (\E ch \in Chars : AddChar(ch))

-----------------------------------------------------------------------------
(* Properties *)

(* What is read anywhere as a character is the encoding of that character, so
   that nothing is read that has a shorter form or is none. *)
ReadsWhatIsWritten ==
  \A i \in 0 .. Len(text) - 1 :
    LET d == decode(text, i) IN d.ch # Invalid => encode(d.ch) = SubSeq(text, i + 1, i + d.length)

(* Decoding, walking forwards and walking backwards meet the same characters,
   of which there are as many as were written. *)
WalksAgree ==
  LET at[k \in 0 .. Len(written)] == IF k = 0 THEN 0 ELSE at[k - 1] + Len(encode(written[k]))
  IN  /\ count_characters(text) = Len(written)
      /\ \A k \in 1 .. Len(written) :
           /\ decode_next(text, at[k - 1]) = [ch |-> written[k], i |-> at[k]]
           /\ move_inc(text, at[k - 1]) = at[k] /\ move_dec(text, at[k]) = at[k - 1]

(* Bytes are read as characters only when they are written like that, and
   texts of characters are read as they were written in both directions
   (utf8.cc). *)
TextReadBack == ReadsWhatIsWritten /\ (encoded => WalksAgree)
=============================================================================
