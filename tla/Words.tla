------------------------------- MODULE Words --------------------------------
(***************************************************************************)
(* The characters of a line of a resource file                             *)
(* (src/el/parsing/text_parser.cc): its token, its values in and out of    *)
(* quotes, their escapes, and whether the last goes on in the next line.   *)
(* What the parser makes of the words is in Parsing.  A line is given byte *)
(* by byte, from 1 on, without the NUL that ends it.                       *)
(***************************************************************************)
EXTENDS Utf8

CONSTANTS Indents,    \* of lines
          Pieces,     \* of quoted texts: [bytes, means, short: further digits would belong to it]
          Bare,       \* values without quotes: numbers, colors and references
          Endings,    \* [bytes, more] after the last value
          MaxPieces, MaxValues   \* bounds of a line

VARIABLE line         \* auxiliary: what is written, [indent, values: each [quote: 0 for none, named:
                      \*  a child, means, short: of its last piece], pieces: so many]

Tab == 9
Blank == 32
Quote == 34
Hash == 35
Apostrophe == 39
Comma == 44
Colon == 58
At == 64
Bracket == 91
Backslash == 92
Digits == 48 .. 57

(* The byte at i, or the NUL *)
ByteAt(s, i) == IF i \in DOMAIN s THEN s[i] ELSE 0
From(s, i) == SubSeq(s, i, Len(s))
(* The first index from i on that is in S, or that of the NUL *)
FirstFrom(s, i, S) == Min({k \in i .. Len(s) : k \in S} \cup {Max({i, Len(s) + 1})})

-----------------------------------------------------------------------------
is_hex(c) == c \in Digits \cup 65 .. 70 \cup 97 .. 102

HexDigit(c) == IF c \in Digits THEN c - 48 ELSE (c % 32) + 9

(* Up to four digits, also of \xXX: the letter is looked for after src has
   passed it. *)
parse_hex(s) ==
  LET count == Max({n \in 0 .. Min({4, Len(s)}) : \A k \in 1 .. n : is_hex(s[k])})
  IN  [hex |-> FoldLeft(LAMBDA hex, c : 16 * hex + HexDigit(c), 0, SubSeq(s, 1, count)), count |-> count]

(* The letters of escapes and the characters they are for *)
Escapes ==
  LET letters == <<97, 98, 102, 110, 114, 116, 118, 48, Quote, Apostrophe, Backslash>>
      codes   == <<7, 8, 12, 10, 13, 9, 11, 0, Quote, Apostrophe, Backslash>>
  IN  [c \in Range(letters) |-> codes[CHOOSE i \in DOMAIN letters : letters[i] = c]]

(* A NUL ends the string. *)
UnescapeString(s) ==
  LET unescaped[i \in 1 .. Len(s) + 1] ==
        LET next == ByteAt(s, i + 1)
            code == parse_hex(From(s, i + 2))
        IN  IF i > Len(s) THEN <<>>
            ELSE IF s[i] = Backslash /\ next \in DOMAIN Escapes
            THEN IF Escapes[next] = 0 THEN <<>> ELSE <<Escapes[next]>> \o unescaped[i + 2]
            ELSE IF s[i] = Backslash /\ next \in {117, 120}
            THEN (IF code.hex = 0 THEN <<>> ELSE encode(code.hex)) \o unescaped[i + 2 + code.count]
            ELSE <<s[i]>> \o unescaped[i + 1]
  IN  unescaped[1]

-----------------------------------------------------------------------------
is_white_space(c) == c \in {Blank, Tab}

SkipWhite(s, i) == FirstFrom(s, i, {k \in DOMAIN s : ~is_white_space(s[k])})

is_start_of_color(s) ==
  LET end == FirstFrom(s, 2, {k \in DOMAIN s : ~is_hex(s[k])})
  IN  ByteAt(s, 1) = Hash /\ end - 2 \in {3, 4, 6, 8}

(* A token that ends with a colon is a key. *)
is_start_of_reference(s) ==
  LET end == FirstFrom(s, 2, {k \in DOMAIN s : s[k] = Blank})
  IN  ByteAt(s, 1) = At /\ \A k \in 2 .. end - 1 : s[k] # Colon

is_start_of_number(s) ==
  LET minus == IF ByteAt(s, 1) = 45 THEN 2 ELSE 1
  IN  ByteAt(s, IF ByteAt(s, minus) = 46 THEN minus + 1 ELSE minus) \in Digits

is_space_or_comment(s) == ByteAt(s, SkipWhite(s, 1)) \in {Hash, 0}

is_pending_multiline(s) == From(s, SkipWhite(s, 1)) = <<Backslash>>

(* An even number of backslashes before it, from start on *)
IsEndQuote(s, start, i, quote_type) ==
  /\ s[i] = quote_type
  /\ LET first == Max({k \in start .. i : k = start \/ s[k - 1] # Backslash}) IN (i - first) % 2 = 0

-----------------------------------------------------------------------------
(* [value, at: where the line goes on, more: in the next line] *)
ConsumeValue(s, i) ==
  LET Consumed(value, at) == [value |-> UnescapeString(value), at |-> at, more |-> is_pending_multiline(From(s, at))]
      quoted == ByteAt(s, i) \in {Quote, Apostrophe}
      end    == FirstFrom(s, i + 1, {k \in i + 1 .. Len(s) :
                                      IF quoted THEN IsEndQuote(s, i + 1, k, s[i]) ELSE s[k] = Comma})
      after  == Min({end, Len(s)}) + 1
      white  == SkipWhite(s, after)
  IN  Consumed(SubSeq(s, IF quoted THEN i + 1 ELSE i, end - 1),
               IF ~quoted THEN after ELSE IF ByteAt(s, white) = Comma THEN white + 1 ELSE white)

(* [values, more]: of the children from i on; without a colon, nothing is read. *)
OnCompactLine(s, i) ==
  LET read[k \in 1 .. Len(s) + 1] ==
        LET colon == FirstFrom(s, SkipWhite(s, k), {n \in DOMAIN s : s[n] = Colon})
            v     == ConsumeValue(s, SkipWhite(s, colon + 1))
        IN  IF colon > Len(s) THEN [values |-> <<>>, more |-> FALSE]
            ELSE IF v.more THEN [values |-> <<v.value>>, more |-> TRUE]
            ELSE [values |-> <<v.value>> \o read[v.at].values, more |-> read[v.at].more]
  IN  read[Min({i, Len(s) + 1})]

(* [indent, values, more, own: the first is that of the line itself]; without a
   colon the rest of the line is its value. *)
Nothing == [indent |-> 0, values |-> <<>>, more |-> FALSE, own |-> FALSE]

OnLine(s) ==
  LET indent == FirstFrom(s, 1, {k \in DOMAIN s : s[k] # Tab}) - 1
      token  == FirstFrom(s, indent + 1, {k \in DOMAIN s : is_white_space(s[k])})
      at     == SkipWhite(s, token)
      rest   == From(s, at)
      own    == \/ ByteAt(s, at) \in {Bracket, Quote, Apostrophe}
                \/ is_start_of_number(rest) \/ is_start_of_color(rest) \/ is_start_of_reference(rest)
      v      == ConsumeValue(s, at)
      kids   == OnCompactLine(s, IF own THEN v.at ELSE at)
      Read(values, more, its) == [indent |-> indent, values |-> values, more |-> more, own |-> its]
  IN  IF is_space_or_comment(s) THEN Nothing
      ELSE IF s[token - 1] # Colon THEN Read(IF token > Len(s) THEN <<>> ELSE <<UnescapeString(rest)>>, FALSE, TRUE)
      ELSE IF own /\ v.more THEN Read(<<v.value>>, TRUE, TRUE)
      ELSE Read((IF own THEN <<v.value>> ELSE <<>>) \o kids.values, kids.more, own)

-----------------------------------------------------------------------------
(* A line is written: its token, perhaps its own value, and children. *)
InitWords == line = [indent |-> 0, values |-> <<>>, pieces |-> 0]

Closed == IF line.values # <<>> /\ Last(line.values).quote # 0 THEN Append(text, Last(line.values).quote) ELSE text

AddToken(indent) ==
  /\ text = <<>>
  /\ text' = [i \in 1 .. indent |-> Tab] \o <<97, Colon, Blank>>
  /\ line' = [line EXCEPT !.indent = indent]

(* Only the first value may be that of the line.  After a value without quotes
   there is a comma and a blank: "@a,b: 1" is taken for a child called "@a,b",
   its colon being before the first blank. *)
Began(quote, named, means, separator) ==
  /\ text # <<>> /\ Len(line.values) < MaxValues
  /\ ~named => line.values = <<>>
  /\ line.values # <<>> /\ Last(line.values).quote = 0 => separator = <<Comma, Blank>>
  /\ text' = Closed \o (IF line.values = <<>> THEN <<>> ELSE separator)
                     \o (IF named THEN <<98, Colon, Blank>> ELSE <<>>)
                     \o (IF quote = 0 THEN means ELSE <<quote>>)
  /\ line' = [line EXCEPT !.values = Append(@, [quote |-> quote, named |-> named, means |-> means, short |-> FALSE])]

AddQuoted(quote, named, separator) == Began(quote, named, <<>>, separator)
AddBare(bare, named, separator) == Began(0, named, bare, separator)

AddPiece(piece) ==
  /\ line.values # <<>> /\ line.pieces < MaxPieces
  /\ LET v == Last(line.values)
     IN  /\ v.quote # 0 /\ piece.bytes[1] # v.quote
         /\ v.short => ~is_hex(piece.bytes[1])
         /\ line' = [line EXCEPT !.pieces = @ + 1,
                                !.values[Len(line.values)] = [v EXCEPT !.means = @ \o piece.means, !.short = piece.short]]
  /\ text' = text \o piece.bytes

WordsNext ==
  /\ \/ \E indent \in Indents : AddToken(indent)
     \/ \E named \in BOOLEAN, separator \in {<<Comma>>, <<Comma, Blank>>, <<Blank>>} :
          \/ \E quote \in {Quote, Apostrophe} : AddQuoted(quote, named, separator)
          \/ \E bare \in Bare : AddBare(bare, named, separator)
     \/ \E piece \in Pieces : AddPiece(piece)
  /\ UNCHANGED <<encoded, written>>

-----------------------------------------------------------------------------
(* Properties *)

WrittenIn(more) ==
  [indent |-> line.indent, values |-> [i \in DOMAIN line.values |-> line.values[i].means], more |-> more,
   own |-> line.values # <<>> /\ ~line.values[1].named]

(* Whatever quotes, commas, colons, backslashes and codes are in the texts of a
   line, each is read as it was written, and what follows it with the next; the
   last goes on exactly if the line ends with a backslash, or ends with the line
   when its quote is missing; and in a comment all that is nothing
   (text_parser.cc). *)
LineReadBack ==
  text # <<>> =>
    LET Ended == {[bytes |-> Closed \o e.bytes, read |-> WrittenIn(e.more)] : e \in
                    {e \in Endings : /\ line.values # <<>>
                                     /\ Last(line.values).quote # 0 \/ e.bytes = <<>> \/ Head(e.bytes) = Comma}}
    IN  \A l \in Ended \cup {[bytes |-> text, read |-> WrittenIn(FALSE)],
                             [bytes |-> <<Blank, Hash>> \o text, read |-> Nothing]} : OnLine(l.bytes) = l.read
=============================================================================
