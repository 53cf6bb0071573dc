------------------------------- MODULE Values -------------------------------
(***************************************************************************)
(* Values of changing type, and who frees what they hold (src/el/value.cc, *)
(* value.h).  Built without assertions.                                    *)
(*                                                                         *)
(* What is allocated is a block of the heap: a string, an array, whose     *)
(* values are in it, or an object.  A string is the sequence of its words, *)
(* numbers among them, in halves.                                          *)
(***************************************************************************)
EXTENDS Integers, Sequences, SequencesExt, FiniteSets

CONSTANTS Cell,        \* the values of the program
          Strings, Numbers,
          TakesObjects \* whether values that hold an object are copied and taken over

(* Assumed of the constants where they get their values *)
ValuesAssumption ==
  /\ \A s \in Strings : Len(s) > 0 /\ \A i \in DOMAIN s : s[i].kind \in {"int", "float", "word"} /\ s[i].n \in Int
  /\ Numbers \subseteq Int /\ TakesObjects \in BOOLEAN

VARIABLES memory,    \* [cell: [Cell -> value], heap: Seq of [kind, content, live, keeper], wrong: a block
                     \*  was freed twice or read when it was not there]
          means      \* what the program made of each value: [type, text]

Value(type, allocated, at) == [type |-> type, allocated |-> allocated, at |-> at]
Held == {"string", "array", "object"}
(* The block of a value, 0 if it has none *)
BlockOf(v) == IF v.type \in Held THEN v.at ELSE 0
Owns(v) == v.allocated /\ BlockOf(v) # 0

Alloc(m, kind, content) == [m EXCEPT !.heap = Append(@, [kind |-> kind, content |-> content, live |-> TRUE, keeper |-> "values"])]
Newest(m) == Len(m.heap)
(* What a block holds, when it is read *)
Read(m, at) == [m EXCEPT !.wrong = @ \/ ~m.heap[at].live]

RECURSIVE Free(_, _)
Freed(m, v) == IF Owns(v) THEN Free(m, v.at) ELSE m
Free(m, at) ==
  LET freed == [Read(m, at) EXCEPT !.heap[at].live = FALSE]
  IN  IF m.heap[at].kind # "array" \/ ~m.heap[at].live THEN freed
      ELSE FoldLeft(LAMBDA n, v : Freed(n, v), freed, m.heap[at].content)

(* The flag stays as it is. *)
set_null(m, c) == [Freed(m, m.cell[c]) EXCEPT !.cell[c].type = "null"]
set_number(m, c, type, n) == [set_null(m, c) EXCEPT !.cell[c].type = type, !.cell[c].at = n]

-----------------------------------------------------------------------------
(* Copies: of what is in the block `at`, or of a value as part of an array *)

(* Mutant: the new array has the values of the other *)
CloneShared(m, at) == Alloc(m, "array", m.heap[at].content)

RECURSIVE Clone(_, _)
(* [m, v]: Value::Copy into a value that is new *)
Copied(m, v) ==
  CASE v.type = "string" -> LET n == Alloc(Read(m, v.at), "string", m.heap[v.at].content)
                            IN  [m |-> n, v |-> Value("string", TRUE, Newest(n))]
    [] v.type = "array" -> LET n == Clone(Read(m, v.at), v.at) IN [m |-> n, v |-> Value("array", TRUE, Newest(n))]
    [] v.type = "object" -> [m |-> m, v |-> Value("object", TRUE, 0)]
    [] OTHER -> [m |-> m, v |-> v]
Clone(m, at) ==
  LET all == FoldLeft(LAMBDA acc, v : [m |-> Copied(acc.m, v).m, vs |-> Append(acc.vs, Copied(acc.m, v).v)],
                      [m |-> m, vs |-> <<>>], m.heap[at].content)
  IN  Alloc(all.m, "array", all.vs)

Put(m, c, v) == [m EXCEPT !.cell[c] = v]

(* set_string, set_array: what the value held is freed first. *)
SetHeld(m, c, type, at, set) ==
  LET empty == set_null(m, c)
      copy == Copied(empty, Value(type, TRUE, at))
  IN  IF set = "copy" THEN Put(copy.m, c, copy.v) ELSE Put(empty, c, Value(type, set = "take", at))
set_string(m, c, at, set) == SetHeld(m, c, "string", at, set)
set_array(m, c, at, set) == SetHeld(m, c, "array", at, set)
(* strdup of what is no block *)
set_new(m, c, content) ==
  LET n == Alloc(set_null(m, c), "string", content) IN Put(n, c, Value("string", TRUE, Newest(n)))
(* The object may be none. *)
set_object(m, c, at) == Put(set_null(m, c), c, Value("object", TRUE, at))

Copy(m, c, v) ==
  CASE v.type = "string" -> set_string(m, c, v.at, "copy")
    [] v.type = "array" -> set_array(m, c, v.at, "copy")
    [] v.type = "object" -> set_object(m, c, 0)
    [] OTHER -> Put(set_null(m, c), c, v)

TakeOver(m, c, d) ==
  LET v == m.cell[d]
      set == IF v.allocated THEN "take" ELSE "copy"
      taken == CASE v.type = "string" -> set_string(m, c, v.at, set)
                 [] v.type = "array" -> set_array(m, c, v.at, set)
                 [] OTHER -> Copy(m, c, v)
  IN  [taken EXCEPT !.cell[d].type = "null"]

-----------------------------------------------------------------------------
(* Strings and numbers *)

Number(kind, n) == [kind |-> kind, n |-> n]
is_number_only(s) == Len(s) = 1 /\ s[1].kind # "word"
(* One that begins with a number and goes on is a list. *)
IsList(s) == Len(s) > 1 /\ s[1].kind # "word"

(* What a token is as part of an array *)
Parsed(m, token) ==
  IF token.kind # "word" THEN [m |-> m, v |-> Value(token.kind, FALSE, token.n)]
  ELSE LET n == Alloc(m, "string", <<token>>) IN [m |-> n, v |-> Value("string", TRUE, Newest(n))]
ParsedList(m, s) ==
  LET all == FoldLeft(LAMBDA acc, token : [m |-> Parsed(acc.m, token).m, vs |-> Append(acc.vs, Parsed(acc.m, token).v)],
                      [m |-> m, vs |-> <<>>], s)
  IN  Alloc(all.m, "array", all.vs)

(* The string `at` is kept only if it is neither a number nor a list. *)
parse_string(m, c, at, set) ==
  LET s == m.heap[at].content
      items == ParsedList(set_null(m, c), s)
      parsed == IF is_number_only(s) THEN set_number(m, c, s[1].kind, s[1].n)
                ELSE set_array(items, c, Newest(items), "take")
  IN  IF ~is_number_only(s) /\ ~IsList(s) THEN set_string(m, c, at, set)
      ELSE IF set = "take" THEN Free(parsed, at) ELSE parsed

(* atoi and atof read what the string begins with, casts round towards zero. *)
Whole(n) == IF n < 0 THEN -((-n) \div 2) ELSE n \div 2
Halves(m, v) ==
  CASE v.type = "string" -> IF m.heap[v.at].content[1].kind = "word" THEN 0 ELSE m.heap[v.at].content[1].n
    [] v.type \in {"int", "float"} -> v.at
    [] OTHER -> 0
as_integer(m, v) == Whole(Halves(m, v))
as_float(m, v) == Halves(m, v)
(* Reading a number as a string makes it one. *)
as_string(m, c) ==
  IF m.cell[c].type \in {"int", "float"} THEN set_new(m, c, <<Number(m.cell[c].type, m.cell[c].at)>>) ELSE m

RECURSIVE to_string(_, _)
to_string(m, v) ==
  CASE v.type = "string" -> m.heap[v.at].content
    [] v.type = "array" -> FoldLeft(LAMBDA s, w : s \o to_string(m, w), <<>>, m.heap[v.at].content)
    [] v.type \in {"int", "float"} -> <<Number(v.type, v.at)>>
    [] OTHER -> <<>>

-----------------------------------------------------------------------------
Meaning(type, text) == [type |-> type, text |-> text]
Nothing == Meaning("null", <<>>)

InitValues ==
  /\ memory = [cell |-> [c \in Cell |-> Value("null", FALSE, 0)], heap |-> <<>>, wrong |-> FALSE]
  /\ means = [c \in Cell |-> Nothing]

Become(c, m, meaning) == memory' = m /\ means' = [means EXCEPT ![c] = meaning]

(* What the program passes is a block of its own: it leaves it to the value,
   or keeps it for ever. *)
Pass(kind, content, set) ==
  LET m == Alloc(memory, kind, content) IN IF set = "take" THEN m ELSE [m EXCEPT !.heap[Newest(m)].keeper = "program"]

SetNull(c) == Become(c, set_null(memory, c), Nothing)
SetNumber(c, type, n) == Become(c, set_number(memory, c, type, n), Meaning(type, <<Number(type, n)>>))
SetString(c, s, set) ==
  LET m == Pass("string", s, set) IN Become(c, set_string(m, c, Newest(m), set), Meaning("string", s))
SetArray(c, n, set) ==
  LET m == Pass("array", <<Value("int", FALSE, n)>>, set)
  IN  Become(c, set_array(m, c, Newest(m), set), Meaning("array", <<Number("int", n)>>))
SetObject(c) == LET m == Alloc(memory, "object", <<>>) IN Become(c, set_object(m, c, Newest(m)), Meaning("object", <<>>))
ParseString(c, s, set) ==
  LET m == Pass("string", s, set)
  IN  Become(c, parse_string(m, c, Newest(m), set),
             Meaning(IF is_number_only(s) THEN s[1].kind ELSE IF IsList(s) THEN "array" ELSE "string", s))
AsString(c) ==
  Become(c, as_string(memory, c), IF means[c].type \in {"int", "float"} THEN Meaning("string", means[c].text) ELSE means[c])
CopyValue(c, d) == Become(c, Copy(memory, c, memory.cell[d]), means[d])
TakeOverValue(c, d) ==
  /\ memory' = TakeOver(memory, c, d)
  /\ means' = [means EXCEPT ![c] = means[d], ![d] = Nothing]

ValueNext ==
  \E c \in Cell :
    \/ SetNull(c) \/ SetObject(c) \/ AsString(c)
    \/ \E n \in Numbers, type \in {"int", "float"} : (type = "int" => n % 2 = 0) /\ SetNumber(c, type, n)
    \/ \E set \in {"copy", "take", "static"} :
         \/ \E s \in Strings : SetString(c, s, set) \/ ParseString(c, s, set)
         \/ SetArray(c, 2, set)
    \/ \E d \in Cell \ {c} : (TakesObjects \/ memory.cell[d].type # "object") /\ (CopyValue(c, d) \/ TakeOverValue(c, d))

-----------------------------------------------------------------------------
(* Properties *)

Live == {i \in DOMAIN memory.heap : memory.heap[i].live}
InArray(i) == IF memory.heap[i].kind = "array" THEN DOMAIN memory.heap[i].content ELSE {}
(* How many values own a block *)
Owners(i) ==
  Cardinality({c \in Cell : Owns(memory.cell[c]) /\ memory.cell[c].at = i})
    + Cardinality({<<j, k>> \in UNION {{j} \X InArray(j) : j \in Live} :
                     Owns(memory.heap[j].content[k]) /\ memory.heap[j].content[k].at = i})

(* After any sequence of calls what is allocated has one value that will free
   it, or the program that keeps it, and nothing was freed twice or used after
   it was freed: the flag that says so outlives the type that it is about
   (set_null), and moves with memcpy (Copy). *)
BlocksOwned ==
  /\ ~memory.wrong
  /\ \A i \in DOMAIN memory.heap : Owners(i) = IF memory.heap[i].live /\ memory.heap[i].keeper = "values" THEN 1 ELSE 0
  /\ \A c \in Cell : BlockOf(memory.cell[c]) \in Live \cup {0}

(* A value is what was written to it, copied, taken over and parsed, also as
   a string, and reading it as one leaves the number that it stands for. *)
ValuesKept ==
  \A c \in Cell :
    LET v == memory.cell[c]
        text == as_string(memory, c)
    IN  /\ means[c] = Meaning(v.type, to_string(memory, v))
        /\ as_integer(text, text.cell[c]) = as_integer(memory, v) /\ as_float(text, text.cell[c]) = as_float(memory, v)
ValuesOwned == BlocksOwned /\ ValuesKept
=============================================================================
