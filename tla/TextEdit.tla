------------------------------ MODULE TextEdit ------------------------------
(***************************************************************************)
(* The editor behind a text box: blocks of text, one for each line, their  *)
(* fragments and layout, the caret, the selection and the undo stack       *)
(* (src/el/text/text_view.cc, text_fragment.cc, caret.cc,                  *)
(* text_selection.cc, undo_stack.cc, src/el/elements/text_box.cc).         *)
(*                                                                         *)
(* Every character is one column wide and every line one row high.  A      *)
(* pointer to a block is its place in the list, Gone when it was deleted.  *)
(***************************************************************************)
EXTENDS Integers, Sequences
LOCAL S == INSTANCE SequencesExt
LOCAL F == INSTANCE FiniteSetsExt

CONSTANTS Texts,      \* what is pasted or set
          Keys,       \* the characters that are typed
          Breaks,     \* the line breaks of the Enter key: LF or CRLF, the only one
          Modes,      \* sets of flags: "multiline", "wrapping"
          Widths, LayoutHeight,   \* the size of the text box
          Points,     \* what the mouse and the vertical keys hit: <<x, y>>
          MaxSteps    \* bound: operations

SP == " "
TAB == "\t"
CR == "\r"
LF == "\n"
TAB_SPACE == 4

ASSUME TextEditAssumption ==
  /\ Texts \subseteq Seq({"a", SP, TAB, CR, LF}) /\ Keys \subseteq {"a", SP, TAB}
  /\ Breaks \subseteq {<<LF>>, <<CR, LF>>}
  /\ Modes \subseteq SUBSET {"multiline", "wrapping"}
  /\ Points \subseteq Int \X Int
  /\ Widths \subseteq Nat \ {0} /\ LayoutHeight \in Nat \ {0} /\ MaxSteps \in Nat

VARIABLES ed,      \* the TextView: [blocks: the lines as [str, ypos, height, line_width_max],
                   \*  pos, prefer_first, x, y: the caret, start, stop: the selection,
                   \*  undos, redos, content_width, content_height,
                   \*  calculate_content_width_needed, layout_width, scroll_x, scroll_y]
          mode,    \* the flags that are set
          origin,  \* auxiliary: the text when the undo stack was last cleared
          steps

vars == <<ed, mode, origin, steps>>

Gone == -1
Nothing == [b |-> 0, ofs |-> 0]
Least(set) == CHOOSE i \in set : \A j \in set : i <= j
Greatest(set) == CHOOSE i \in set : \A j \in set : i >= j
SmallerOf(i, j) == IF i < j THEN i ELSE j
LargerOf(i, j) == IF i > j THEN i ELSE j

multiline == "multiline" \in mode
wrapping == "wrapping" \in mode

-----------------------------------------------------------------------------
(* Fragments: words, single spaces and tabs, and the break that ends a line *)

is_linebreak(c) == c \in {CR, LF}
is_wordbreak(c) == c \in {CR, LF, TAB, SP}

BreakLen(s, o) == IF s[o + 1] = CR /\ o + 2 <= Len(s) /\ s[o + 2] = LF THEN 2 ELSE 1

GetNextFragment(s, o) ==
  IF o = Len(s) THEN 0
  ELSE IF is_linebreak(s[o + 1]) THEN BreakLen(s, o)
  ELSE IF is_wordbreak(s[o + 1]) THEN 1
  ELSE Least({i \in 1 .. Len(s) - o : o + i = Len(s) \/ is_wordbreak(s[o + i + 1])})

(* Nothing follows a break. *)
Fragments(s) ==
  LET from[o \in 0 .. Len(s)] ==
        LET len == GetNextFragment(s, o)
        IN  <<[ofs |-> o, len |-> len]>>
            \o (IF o + len >= Len(s) \/ is_linebreak(s[o + 1]) THEN <<>> ELSE from[o + len])
  IN  from[0]

Is(s, f, c) == f.len > 0 /\ s[f.ofs + 1] \in c
IsBreak(s, f) == Is(s, f, {CR, LF})
GetAllowBreakBefore(s, f) == f.len > 0 /\ ~Is(s, f, {CR, LF, SP})
GetAllowBreakAfter(f) == f.len > 0

GetWidth(s, f, xpos) ==
  IF IsBreak(s, f) THEN 0
  ELSE IF Is(s, f, {TAB}) THEN TAB_SPACE - (xpos % TAB_SPACE)
  ELSE f.len

FragmentAt(fs, ofs, prefer_first) ==
  fs[Least({i \in DOMAIN fs : \/ i = Len(fs) \/ ofs < fs[i].ofs + fs[i].len
                              \/ prefer_first /\ ofs = fs[i].ofs + fs[i].len})]
FindFragment(s, ofs, prefer_first) == FragmentAt(Fragments(s), ofs, prefer_first)

-----------------------------------------------------------------------------
(* Layout of a block: its fragments in lines, each with its xpos *)

(* Fragments from i on a row that begins at indentation *)
Measured(s, fs, i, indentation) ==
  LET at[j \in i .. Len(fs)] ==
        IF j = i THEN indentation ELSE LET x == at[j - 1] IN x + GetWidth(s, fs[j - 1], x)
  IN  at

(* The last fragment of the line that begins with i, its fragments measured as
   at: the last allowed break before what is too wide *)
LastOnLine(s, fs, i, at, width) ==
  LET allowed == {j \in i .. Len(fs) : /\ GetAllowBreakAfter(fs[j])
                                       /\ j = Len(fs) \/ GetAllowBreakBefore(s, fs[j + 1])}
      Overflows(j) == at[j] + GetWidth(s, fs[j], at[j]) > width
      over == {j \in i .. Len(fs) : Overflows(j) /\ \E k \in allowed : k < j}
  IN  IF ~wrapping \/ over = {} THEN Len(fs)
      ELSE Greatest({k \in allowed : k < Least(over)})

(* Lines after the first begin below the text of the first. *)
GetStartIndentation(s, len) ==
  LET upto[i \in 0 .. len] ==   \* as long as there is white space
        IF i = 0 THEN 0
        ELSE LET x == upto[i - 1] IN IF s[i] = TAB THEN x + TAB_SPACE - (x % TAB_SPACE) ELSE x + 1
      blank == Greatest({n \in 0 .. len : \A i \in 1 .. n : s[i] \in {SP, TAB}})
  IN  upto[blank]

(* A line from i to last; the lines after the first begin indented. *)
Line(fs, i, last, at) ==
  [j \in 1 .. last - i + 1 |-> [ofs |-> fs[i + j - 1].ofs, len |-> fs[i + j - 1].len, xpos |-> at[i + j - 1]]]
LineFrom(s, fs, i, at, width) == Line(fs, i, LastOnLine(s, fs, i, at, width), at)
Indentation(s, first) ==
  IF wrapping THEN LET last == first[Len(first)] IN GetStartIndentation(s, last.ofs + last.len) ELSE 0
LinesFrom(s, fs, first, indentation, width) ==
  LET from[i \in 1 .. Len(fs) + 1] ==
        IF i > Len(fs) THEN <<>>
        ELSE LET line == LineFrom(s, fs, i, Measured(s, fs, i, indentation), width) IN <<line>> \o from[i + Len(line)]
  IN  <<first>> \o from[Len(first) + 1]
LinesAfter(s, fs, first, width) == LinesFrom(s, fs, first, Indentation(s, first), width)
LinesOf(s, fs, width) == LinesAfter(s, fs, LineFrom(s, fs, 1, Measured(s, fs, 1, 0), width), width)
Lines(s, width) == LinesOf(s, Fragments(s), width)

LineWidth(s, line) == LET f == line[Len(line)] IN f.xpos + GetWidth(s, f, f.xpos)

-----------------------------------------------------------------------------
(* The list of blocks; everything from here on maps the view v to the next. *)

Last(v) == Len(v.blocks)
Block(v, b) == v.blocks[b]
StrLen(v, b) == Len(v.blocks[b].str)
text(v) == S!FlattenSeq([b \in DOMAIN v.blocks |-> v.blocks[b].str])

NewBlock(str) == [str |-> str, ypos |-> 0, height |-> 0, line_width_max |-> 0]

(* Pointers to blocks follow the list. *)
Renumbered(v, To(_)) ==
  LET moved(p) == IF p.b <= 0 THEN p ELSE [p EXCEPT !.b = To(p.b)]
  IN  [v EXCEPT !.pos = moved(@), !.start = moved(@), !.stop = moved(@)]
AddAfter(v, b, str) ==
  Renumbered([v EXCEPT !.blocks = S!InsertAt(@, b + 1, NewBlock(str))], LAMBDA i : IF i > b THEN i + 1 ELSE i)
DeleteBlock(v, b) ==
  Renumbered([v EXCEPT !.blocks = S!RemoveAt(@, b)],
             LAMBDA i : IF i = b THEN Gone ELSE IF i > b THEN i - 1 ELSE i)

GetContentWidth(v) ==
  IF v.calculate_content_width_needed
  THEN Greatest({0} \cup {v.blocks[b].line_width_max : b \in DOMAIN v.blocks}) ELSE v.content_width

(* SetScrollPos, and what the scroll bars do when their limits change *)
SetScrollPos(v, x, y) ==
  LET Within(i, content, size) == LargerOf(SmallerOf(i, content - size), 0)
  IN  [v EXCEPT !.content_width = GetContentWidth(v), !.calculate_content_width_needed = FALSE,
                !.scroll_x = Within(x, GetContentWidth(v), v.layout_width),
                !.scroll_y = IF multiline THEN Within(y, v.content_height, LayoutHeight) ELSE 0]
UpdateScrollbars(v) == SetScrollPos(v, v.scroll_x, v.scroll_y)

(* Blocks below b move when its height changed. *)
Stacked(blocks, b) ==
  LET below[i \in b .. Len(blocks)] ==
        IF i = b THEN blocks[b].ypos + blocks[b].height ELSE below[i - 1] + blocks[i].height
  IN  SubSeq(blocks, 1, b) \o [i \in 1 .. Len(blocks) - b |-> [blocks[b + i] EXCEPT !.ypos = below[b + i - 1]]]

SetSize(v, b, new_w, new_h, propagate_height) ==
  LET old_w == Block(v, b).line_width_max
      sized == [v.blocks EXCEPT ![b].line_width_max = new_w, ![b].height = new_h]
      blocks == IF new_h # Block(v, b).height /\ propagate_height THEN Stacked(sized, b) ELSE sized
      last == blocks[Len(blocks)]
      fixed == ~wrapping /\ ~multiline
  IN  [v EXCEPT !.blocks = blocks,
                !.content_width = IF fixed \/ new_w > @ THEN new_w ELSE @,
                !.calculate_content_width_needed =
                   @ \/ (~fixed /\ new_w <= v.content_width /\ new_w < old_w /\ old_w = v.content_width),
                !.content_height = last.ypos + last.height]

(* Mutant: what is below keeps its place *)
LayoutInPlace(v, b, lines, propagate_height) ==
  SetSize([v EXCEPT !.blocks[b].ypos = IF b = 1 THEN 0 ELSE Block(v, b - 1).ypos + Block(v, b - 1).height],
          b, Greatest({LineWidth(Block(v, b).str, lines[i]) : i \in DOMAIN lines}), Len(lines), FALSE)

(* The lines in their places *)
SetLines(v, b, lines, propagate_height) ==
  SetSize([v EXCEPT !.blocks[b].ypos = IF b = 1 THEN 0 ELSE Block(v, b - 1).ypos + Block(v, b - 1).height],
          b, Greatest({LineWidth(Block(v, b).str, lines[i]) : i \in DOMAIN lines}), Len(lines), propagate_height)

Layout(v, b, propagate_height) == SetLines(v, b, Lines(Block(v, b).str, v.layout_width), propagate_height)

Reformat(v) ==
  UpdateScrollbars(S!FoldLeft(LAMBDA u, b : Layout(u, b, FALSE), v, [b \in DOMAIN v.blocks |-> b]))

(* A text as lines, each with its break *)
Split(s) ==
  LET ends == {i \in 1 .. Len(s) : s[i] = LF \/ (s[i] = CR /\ BreakLen(s, i - 1) = 1)}
      from[i \in 0 .. Len(s)] ==
        LET e == IF {j \in ends : j > i} = {} THEN Len(s) ELSE Least({j \in ends : j > i})
        IN  <<SubSeq(s, i + 1, e)>> \o (IF e = Len(s) THEN <<>> ELSE from[e])
  IN  from[0]

(* The part of TextBlock::InsertText for one line of the text: the block is
   split if it now has more than one. *)
InsertLine(v, b, ofs, line) ==
  LET str == Block(v, b).str
      pieces == Split(SubSeq(str, 1, ofs) \o line \o SubSeq(str, ofs + 1, Len(str)))
      split == S!FoldRight(LAMBDA piece, u : Layout(AddAfter(u, b, piece), b + 1, TRUE), Tail(pieces),
                           [v EXCEPT !.blocks[b].str = pieces[1]])
  IN  Layout(split, b, TRUE)

(* How much of the text a view takes: one without lines takes the first. *)
Taken(s) ==
  IF multiline THEN s
  ELSE SubSeq(s, 1, Least({i \in 0 .. Len(s) : i = Len(s) \/ is_linebreak(s[i + 1])}))

(* TextBlock::InsertText: the lines after the first go to the beginning of the
   blocks that follow, new ones when there are none left. *)
InsertIntoBlock(v, b, ofs, s) ==
  LET lines == Split(Taken(s))
      insert[i \in 0 .. Len(lines) - 1] ==
        IF i = 0 THEN InsertLine(v, b, ofs, lines[1])
        ELSE LET u == insert[i - 1]
             IN  InsertLine(IF b + i > Last(u) THEN AddAfter(u, Last(u), <<>>) ELSE u, b + i, 0, lines[i + 1])
  IN  UpdateScrollbars(insert[Len(lines) - 1])

RemoveFromBlock(v, b, ofs, len) ==
  IF len = 0 THEN v
  ELSE Layout([v EXCEPT !.blocks[b].str = SubSeq(@, 1, ofs) \o SubSeq(@, ofs + len + 1, Len(@))], b, TRUE)

(* A block that lost its break takes the next one in. *)
Merge(v, b) ==
  LET str == Block(v, b).str
      fs == Fragments(str)
  IN  IF b = Last(v) \/ IsBreak(str, fs[Len(fs)]) THEN v
      ELSE Layout([DeleteBlock(v, b + 1) EXCEPT !.blocks[b].str = str \o Block(v, b + 1).str,
                                               !.blocks[b].height = 0], b, TRUE)

-----------------------------------------------------------------------------
(* The caret *)

Fragment(v) == FindFragment(Block(v, v.pos.b).str, v.pos.ofs, v.prefer_first)

(* Line and xpos of the fragment that begins at ofs *)
Placed(lines, ofs) ==
  LET at == CHOOSE ij \in UNION {{i} \X DOMAIN lines[i] : i \in DOMAIN lines} : lines[ij[1]][ij[2]].ofs = ofs
  IN  [row |-> at[1] - 1, xpos |-> lines[at[1]][at[2]].xpos]

GetCharX(s, f, xpos, ofs) ==
  IF IsBreak(s, f) \/ ofs = 0 THEN 0 ELSE IF Is(s, f, {TAB}) THEN GetWidth(s, f, xpos) ELSE ofs

CaretAt(v, f, place) ==
  <<place.xpos + GetCharX(Block(v, v.pos.b).str, f, place.xpos, v.pos.ofs - f.ofs), Block(v, v.pos.b).ypos + place.row>>
CaretOn(v, f) == CaretAt(v, f, Placed(Lines(Block(v, v.pos.b).str, v.layout_width), f.ofs))
At(v, xy) == [v EXCEPT !.x = xy[1], !.y = xy[2]]
UpdatePos(v) == At(v, CaretOn(v, Fragment(v)))

GetGlobalOffset(v, p) == Len(S!FlattenSeq([b \in 1 .. p.b - 1 |-> v.blocks[b].str])) + p.ofs

(* The first block whose end is not before it *)
SetGlobalOffset(v, gofs) ==
  LET before[b \in DOMAIN v.blocks] == IF b = 1 THEN 0 ELSE before[b - 1] + StrLen(v, b - 1)
      fits == {b \in DOMAIN v.blocks : gofs <= before[b] + StrLen(v, b)}
  IN  IF fits = {} THEN Nothing ELSE [b |-> Least(fits), ofs |-> gofs - before[Least(fits)]]

(* Caret::Place goes back to the first block whatever the offset, and is not
   left within a break when it snaps. *)
Snapped(v, o, f, allow_snap, snap_forward) ==
  IF ~(allow_snap /\ o > f.ofs /\ IsBreak(Block(v, 1).str, f)) THEN [b |-> 1, ofs |-> o]
  ELSE IF snap_forward /\ Last(v) > 1 THEN [b |-> 2, ofs |-> 0] ELSE [b |-> 1, ofs |-> f.ofs]
PlaceIn(v, o, allow_snap, snap_forward) ==
  UpdatePos([v EXCEPT !.pos = Snapped(v, o, FindFragment(Block(v, 1).str, o, FALSE), allow_snap, snap_forward)])
Place(v, b, ofs, allow_snap, snap_forward) ==
  PlaceIn(v, SmallerOf(GetGlobalOffset(v, [b |-> b, ofs |-> ofs]), StrLen(v, 1)), allow_snap, snap_forward)

OutOf(v, f) == IF v.pos.ofs > f.ofs /\ IsBreak(Block(v, v.pos.b).str, f) THEN [v EXCEPT !.pos.ofs = f.ofs] ELSE v
AvoidLineBreak(v) == UpdatePos(OutOf(v, Fragment(v)))

WordForward(s, ofs) ==
  LET upto(o, Skips(_)) == Least({i \in o .. Len(s) : i = Len(s) \/ ~Skips(s[i + 1])})
  IN  IF is_linebreak(s[ofs + 1]) THEN ofs + 1
      ELSE IF is_wordbreak(s[ofs + 1]) THEN upto(ofs, LAMBDA c : is_wordbreak(c) /\ ~is_linebreak(c))
      ELSE upto(upto(ofs, LAMBDA c : ~is_wordbreak(c)), LAMBDA c : c = SP)

WordBack(s, ofs) ==
  LET upto(o, Skips(_)) == Greatest({i \in 0 .. o : i = 0 \/ ~Skips(s[i])})
      o == upto(ofs, LAMBDA c : c = SP)
  IN  IF o > 0 /\ is_wordbreak(s[o]) THEN upto(o, is_wordbreak) ELSE upto(o, LAMBDA c : ~is_wordbreak(c))

Stepped(v, forward, word) ==
  LET b == v.pos.b
      ofs == v.pos.ofs
      len == StrLen(v, b)
  IN  IF word /\ forward /\ ofs < len THEN [b |-> b, ofs |-> WordForward(Block(v, b).str, ofs)]
      ELSE IF word /\ ~forward /\ ofs > 0 THEN [b |-> b, ofs |-> WordBack(Block(v, b).str, ofs)]
      ELSE IF forward /\ ofs >= len /\ b < Last(v) THEN [b |-> b + 1, ofs |-> 0]
      ELSE IF ~forward /\ ofs = 0 /\ b > 1 THEN [b |-> b - 1, ofs |-> StrLen(v, b - 1)]
      ELSE [b |-> b, ofs |-> IF forward THEN SmallerOf(ofs + 1, len) ELSE LargerOf(ofs - 1, 0)]
MoveTo(v, p, forward) == Place([v EXCEPT !.prefer_first = forward, !.pos = p], p.b, p.ofs, TRUE, forward)
Move(v, forward, word) == MoveTo(v, Stepped(v, forward, word), forward)

(* The block at y, the line in it and the fragment on that at x, the character
   in that *)
FindBlock(v, y) ==
  Least({b \in DOMAIN v.blocks : b = Last(v) \/ y < Block(v, b).ypos + Block(v, b).height})
FragmentOn(s, lines, x, row) ==
  LET line == lines[LargerOf(1, SmallerOf(row + 1, Len(lines)))]
  IN  line[Least({j \in DOMAIN line : \/ j = Len(line)
                                      \/ row < Len(lines) /\ x < line[j].xpos + GetWidth(s, line[j], line[j].xpos)})]
GetCharOfs(s, f, x) ==
  IF IsBreak(s, f) THEN 0
  ELSE IF Is(s, f, {TAB}) THEN (IF x - f.xpos > GetWidth(s, f, f.xpos) \div 2 THEN 1 ELSE 0)
  ELSE SmallerOf(LargerOf(x - f.xpos, 0), f.len)

(* The end of a fragment is shown there, not at the beginning of the next. *)
Preferring(v, u, b, f) ==
  IF u.pos # v.pos /\ (u.pos.b # b \/ Fragment(u).ofs # f.ofs)
  THEN UpdatePos([u EXCEPT !.prefer_first = ~@]) ELSE u
PlaceOn(v, b, f, x) ==
  Preferring(v, Place(v, b, f.ofs + GetCharOfs(Block(v, b).str, f, x), TRUE, FALSE), b, f)
PlaceRow(v, b, p) ==
  PlaceOn(v, b, FragmentOn(Block(v, b).str, Lines(Block(v, b).str, v.layout_width), p[1], p[2] - Block(v, b).ypos),
          p[1])
PlacePoint(v, p) == PlaceRow(v, FindBlock(v, p[2]), p)

ScrollIfNeeded(v) ==
  SetScrollPos(v,
    IF v.x > v.scroll_x + v.layout_width THEN v.x - v.layout_width ELSE SmallerOf(v.scroll_x, v.x),
    IF v.y + 1 > v.scroll_y + LayoutHeight THEN v.y + 1 - LayoutHeight ELSE SmallerOf(v.scroll_y, v.y))

-----------------------------------------------------------------------------
(* The selection *)

IsSelected(v) == v.start.b # 0
SelectNothing(v) == [v EXCEPT !.start = Nothing, !.stop = Nothing]

CorrectOrder(v) ==
  IF v.start = v.stop THEN SelectNothing(v)
  ELSE IF \/ v.start.b = v.stop.b /\ v.start.ofs > v.stop.ofs
          \/ v.start.b # v.stop.b /\ Block(v, v.start.b).ypos > Block(v, v.stop.b).ypos
  THEN [v EXCEPT !.start = v.stop, !.stop = v.start] ELSE v

Select(v, from, to) == CorrectOrder([v EXCEPT !.start = from, !.stop = to])

SelectToCaret(v, old) ==
  IF ~IsSelected(v) THEN Select(v, old, v.pos)
  ELSE IF v.start = old THEN Select(v, v.pos, v.stop) ELSE Select(v, v.start, v.pos)

SelectedText(v) ==
  SubSeq(text(v), GetGlobalOffset(v, v.start) + 1, GetGlobalOffset(v, v.stop))

-----------------------------------------------------------------------------
(* The undo stack *)

Has(s, cs) == \E i \in DOMAIN s : s[i] \in cs

(* Mutant: typing is joined wherever it is typed *)
CommitAnywhere(v, gofs, s, insert) ==
  LET e == v.undos[Len(v.undos)]
  IN  [v EXCEPT !.redos = <<>>,
                !.undos = IF insert /\ @ # <<>> /\ Len(s) = 1 /\ e.insert
                             /\ ~Has(e.text, {CR, LF} \cup (IF s[1] = SP THEN {} ELSE {SP}))
                          THEN [@ EXCEPT ![Len(@)].text = @ \o s]
                          ELSE Append(@, [gofs |-> gofs, text |-> s, insert |-> insert])]

(* Typed characters join the last event, up to the end of the word. *)
Commit(v, gofs, s, insert) ==
  LET e == v.undos[Len(v.undos)]
  IN  [v EXCEPT !.redos = <<>>,
                !.undos = IF /\ insert /\ @ # <<>> /\ Len(s) = 1 /\ e.insert /\ e.gofs + Len(e.text) = gofs
                             /\ ~Has(e.text, {CR, LF} \cup (IF s[1] = SP THEN {} ELSE {SP}))
                          THEN [@ EXCEPT ![Len(@)].text = @ \o s]
                          ELSE Append(@, [gofs |-> gofs, text |-> s, insert |-> insert])]

(* What is between from and to, out of the blocks they are in and those between *)
RemoveRange(v, from, to) ==
  LET within == from.b = to.b
      first == RemoveFromBlock(v, from.b, from.ofs, (IF within THEN to.ofs ELSE StrLen(v, from.b)) - from.ofs)
      between == S!FoldLeft(LAMBDA u, i : DeleteBlock(u, from.b + 1), first, [i \in 1 .. to.b - from.b - 1 |-> i])
  IN  Merge(IF within THEN first ELSE Merge(RemoveFromBlock(between, from.b + 1, 0, to.ofs), from.b + 1), from.b)

RemoveContent(v, applying) ==
  IF ~IsSelected(v) THEN v
  ELSE UpdateScrollbars(SelectNothing(
         Place(RemoveRange(IF applying THEN v ELSE Commit(v, GetGlobalOffset(v, v.start), SelectedText(v), FALSE),
                           v.start, v.stop),
               v.start.b, v.start.ofs, TRUE, FALSE)))

Committed(v, s, applying) == IF applying THEN v ELSE Commit(v, GetGlobalOffset(v, v.pos), Taken(s), TRUE)
Behind(v, len) == Place(v, v.pos.b, v.pos.ofs + len, FALSE, FALSE)
AtEnd(v, after_last, snap) == IF after_last THEN Place(v, Last(v), StrLen(v, Last(v)), snap, FALSE) ELSE v
InsertAtCaret(v, s, applying) == Behind(Committed(InsertIntoBlock(v, v.pos.b, v.pos.ofs, s), s, applying), Len(s))
InsertText(v, s, after_last, applying) ==
  InsertAtCaret(AtEnd(RemoveContent(v, applying), after_last, FALSE), s, applying)

(* UndoStack::Apply, without its assertions *)
PlaceAt(v, p, snap) == IF p.b = 0 THEN v ELSE Place(v, p.b, p.ofs, snap, snap)
PlaceGlobal(v, gofs, snap) == PlaceAt(v, SetGlobalOffset(v, gofs), snap)
SelectedFrom(v, from, len) ==
  IF len > 1 THEN Select(v, SetGlobalOffset(v, from), SetGlobalOffset(v, from + len)) ELSE v
CaretsApart(v, gofs) == LET u == PlaceGlobal(v, gofs, FALSE) IN Select(u, v.pos, u.pos)
Apply(v, e, reverse) ==
  ScrollIfNeeded(
    IF e.insert = reverse
    THEN RemoveContent(CaretsApart(PlaceGlobal(SelectNothing(v), e.gofs, FALSE), e.gofs + Len(e.text)), TRUE)
    ELSE SelectedFrom(InsertText(PlaceGlobal(SelectNothing(v), e.gofs, TRUE), e.text, FALSE, TRUE), e.gofs, Len(e.text)))

-----------------------------------------------------------------------------
(* Operations *)

Does(v) ==
  /\ steps' = steps + 1
  /\ ed' = v
  /\ UNCHANGED <<mode, origin>>

(* KeyDown with a key that moves the caret, to v; shift selects. *)
Moved(v, shift) ==
  Does(ScrollIfNeeded(IF shift THEN SelectToCaret(v, ed.pos) ELSE v))
Deselected(shift) == IF shift THEN ed ELSE SelectNothing(ed)

(* Left and right *)
KeyMove(forward, word, shift) == Moved(Move(Deselected(shift), forward, word), shift)

(* Up, down, home, end, page up and down: some x, as wanted_x is, on some row *)
KeyMoveTo(p, shift) == Moved(PlacePoint(Deselected(shift), p), shift)

(* Delete and backspace *)
KeyErase(forward, word) ==
  LET selected == IF IsSelected(ed) THEN ed ELSE SelectToCaret(Move(ed, forward, word), ed.pos)
  IN  Does(ScrollIfNeeded(RemoveContent(selected, FALSE)))

KeyChar(c) ==
  /\ c = TAB => multiline
  /\ Does(ScrollIfNeeded(InsertText(ed, <<c>>, FALSE, FALSE)))

(* InsertBreak: at the end of a text without a final break it takes two. *)
KeyEnter(br) ==
  /\ multiline
  /\ LET str == Block(ed, ed.pos.b).str
         at_end == ed.pos.ofs = Len(str) /\ (str = <<>> \/ ~is_linebreak(str[Len(str)]))
         Down(v) == IF v.pos.b < Last(v) THEN Place(v, v.pos.b + 1, 0, TRUE, FALSE) ELSE v
     IN  Does(ScrollIfNeeded(Down(AvoidLineBreak(InsertText(ed, IF at_end THEN br \o br ELSE br, FALSE, FALSE)))))

(* MouseMove with the button down selects from where it went down, whole words
   after two clicks. *)
SelectWords(v) ==
  LET Onto(u, p) == IF IsSelected(v) THEN Place(u, p.b, p.ofs, TRUE, FALSE) ELSE u
      first == Move(Onto(v, v.start), FALSE, TRUE)
      second == Move(Onto(first, v.stop), TRUE, TRUE)
  IN  Select(second, first.pos, second.pos)
DragFrom(v, up) == LET to == PlacePoint(v, up) IN Select(to, v.pos, to.pos)
Drag(v, down, up, words) ==
  LET drag == DragFrom(PlacePoint(v, down), up) IN IF words THEN SelectWords(drag) ELSE drag

(* MouseDown, MouseMove and MouseUp: a drag from one point to another *)
Mouse(down, up, double) == Does(Drag(SelectNothing(ed), down, up, double))

(* A touch places the caret when it is lifted. *)
Touch(p) == Does(PlacePoint(SelectNothing(ed), p))

(* The scroll bars and the wheel *)
ScrollTo(p) == Does(SetScrollPos(ed, p[1], p[2]))

Paste(s) == Does(ScrollIfNeeded(InsertText(ed, s, FALSE, FALSE)))
AppendText(s) == Does(InsertText(ed, s, TRUE, FALSE))

(* Cut and the menu's delete *)
Delete == IsSelected(ed) /\ Does(RemoveContent(ed, FALSE))

SelectAll == Does([ed EXCEPT !.start = [b |-> 1, ofs |-> 0], !.stop = [b |-> Last(ed), ofs |-> StrLen(ed, Last(ed))]])

(* The stacks exchange their last event, which is applied. *)
Undone(v) == [v EXCEPT !.undos = S!Front(@), !.redos = Append(@, S!Last(v.undos))]
Redone(v) == [v EXCEPT !.redos = S!Front(@), !.undos = Append(@, S!Last(v.redos))]
UndoRedo(undo) ==
  LET from == IF undo THEN ed.undos ELSE ed.redos
  IN  /\ from # <<>>
      /\ Does(Apply(IF undo THEN Undone(ed) ELSE Redone(ed), S!Last(from), undo))

(* Clear *)
Emptied(v) ==
  IF Len(v.blocks) = 1 /\ v.blocks[1].str = <<>> THEN v
  ELSE Place(UpdateScrollbars(Layout([v EXCEPT !.blocks = <<NewBlock(<<>>)>>, !.pos = Nothing], 1, TRUE)), 1, 0, TRUE, FALSE)

(* Mutant: the selection is kept *)
ClearedSelected(v) == Emptied([v EXCEPT !.undos = <<>>, !.redos = <<>>])
Cleared(v) == Emptied(SelectNothing([v EXCEPT !.undos = <<>>, !.redos = <<>>]))

(* set_text with the caret at the beginning or the end *)
WithText(v, s, end) ==
  LET u == Cleared(v)
  IN  IF s = <<>> THEN ScrollIfNeeded(u)
      ELSE AtEnd(ScrollIfNeeded(Place(InsertIntoBlock(u, 1, 0, s), 1, 0, TRUE, FALSE)), end, TRUE)

SetText(s, end) ==
  /\ steps' = steps + 1
  /\ ed' = WithText(ed, s, end)
  /\ origin' = text(ed')
  /\ UNCHANGED mode

(* SetLayoutSize; a virtual one is left again before anybody sees it. *)
Reformatted(v) == UpdatePos(IF wrapping THEN Reformat(v) ELSE v)
LaidOutIn(v, width, virtual) ==
  IF width = v.layout_width THEN v
  ELSE LET w == Reformatted([v EXCEPT !.layout_width = width]) IN IF virtual THEN w ELSE UpdateScrollbars(w)

(* OnResized *)
SetLayoutSize(width) == width # ed.layout_width /\ Does(UpdateScrollbars(LaidOutIn(ed, width, FALSE)))

(* A text box that adapts to its content is laid out in some width for its
   preferred size, and back. *)
CalculatePreferredSize(width) ==
  /\ wrapping /\ width # ed.layout_width
  /\ Does(LaidOutIn(LaidOutIn(ed, width, TRUE), ed.layout_width, TRUE))

-----------------------------------------------------------------------------
Init ==
  /\ mode \in Modes
  /\ \E width \in Widths :
       ed = [blocks |-> <<[NewBlock(<<>>) EXCEPT !.height = 1]>>, pos |-> [b |-> 1, ofs |-> 0],
             prefer_first |-> TRUE, x |-> 0, y |-> 0, start |-> Nothing, stop |-> Nothing,
             undos |-> <<>>, redos |-> <<>>, content_width |-> 0, content_height |-> 1,
             calculate_content_width_needed |-> FALSE, layout_width |-> width, scroll_x |-> 0, scroll_y |-> 0]
  /\ origin = <<>>
  /\ steps = 0

Bounded == steps < MaxSteps

Next ==
  \/ Bounded /\ \E forward, word, shift \in BOOLEAN : KeyMove(forward, word, shift)
  \/ Bounded /\ \E forward, word \in BOOLEAN : KeyErase(forward, word)
  \/ Bounded /\ \E p \in Points, shift \in BOOLEAN : KeyMoveTo(p, shift)
  \/ Bounded /\ \E c \in Keys : KeyChar(c)
  \/ Bounded /\ \E br \in Breaks : KeyEnter(br)
  \/ Bounded /\ \E down, up \in Points, double \in BOOLEAN : Mouse(down, up, double)
  \/ Bounded /\ \E p \in Points : Touch(p)
  \/ Bounded /\ \E p \in Points : ScrollTo(p)
  \/ Bounded /\ \E s \in Texts : Paste(s)
  \/ Bounded /\ \E s \in Texts : AppendText(s)
  \/ Bounded /\ \E s \in Texts \cup {<<>>}, end \in BOOLEAN : SetText(s, end)
  \/ Bounded /\ (Delete \/ SelectAll)
  \/ Bounded /\ \E undo \in BOOLEAN : UndoRedo(undo)
  \/ Bounded /\ \E width \in Widths : SetLayoutSize(width)
  \/ Bounded /\ \E width \in Widths : CalculatePreferredSize(width)

Spec == Init /\ [][Next]_vars

-----------------------------------------------------------------------------
(* Properties *)

(* Blocks are stacked without gap or overlap, the content is as high as they
   are and at least as wide, and the caret is where its offset was laid out
   (Layout, SetSize, Reformat, UpdatePos). *)
LayoutAgrees ==
  /\ \A b \in DOMAIN ed.blocks :
       LET lines == Lines(Block(ed, b).str, ed.layout_width)
       IN  /\ Block(ed, b).height = Len(lines)
           /\ Block(ed, b).ypos = IF b = 1 THEN 0 ELSE Block(ed, b - 1).ypos + Block(ed, b - 1).height
           /\ \A i \in DOMAIN lines : LineWidth(Block(ed, b).str, lines[i]) <= GetContentWidth(ed)
  /\ ed.content_height = Block(ed, Last(ed)).ypos + Block(ed, Last(ed)).height
  /\ <<ed.x, ed.y>> = CaretOn(ed, Fragment(ed))

(* BuildSelectionRegion: offsets of a block that are painted as selected *)
IsFragmentSelected(b, f) ==
  LET ypos == Block(ed, b).ypos
      from == Block(ed, ed.start.b).ypos
      upto == Block(ed, ed.stop.b).ypos
  IN  IF ed.start.b = ed.stop.b
      THEN b = ed.start.b /\ ed.start.ofs < f.ofs + f.len /\ ed.stop.ofs >= f.ofs
      ELSE \/ ypos > from /\ ypos < upto
           \/ ypos = from /\ f.ofs + f.len > ed.start.ofs
           \/ ypos = upto /\ f.ofs < ed.stop.ofs
Painted(b) ==
  LET fs == Fragments(Block(ed, b).str)
      first == IF ed.start.b = b THEN ed.start.ofs ELSE 0
      end == IF ed.stop.b = b THEN ed.stop.ofs ELSE StrLen(ed, b)
  IN  UNION {LargerOf(first, fs[i].ofs) .. SmallerOf(end, fs[i].ofs + fs[i].len) - 1 :
             i \in {j \in DOMAIN fs : IsFragmentSelected(b, fs[j])}}

(* The selection and the caret are in blocks that exist, the start before the
   stop, and what is painted as selected is what a copy or a deletion takes. *)
SelectionPainted ==
  LET InText(p) == p.b \in DOMAIN ed.blocks /\ p.ofs \in 0 .. StrLen(ed, p.b)
  IN  /\ InText(ed.pos)
      /\ IsSelected(ed) =>
           /\ InText(ed.start) /\ InText(ed.stop)
           /\ GetGlobalOffset(ed, ed.start) <= GetGlobalOffset(ed, ed.stop)
           /\ \A b \in DOMAIN ed.blocks : \A o \in 0 .. StrLen(ed, b) - 1 :
                o \in Painted(b) <=> GetGlobalOffset(ed, [b |-> b, ofs |-> o])
                                     \in GetGlobalOffset(ed, ed.start) .. GetGlobalOffset(ed, ed.stop) - 1

(* Undone one by one, the events take the text back to what it was when the
   stack was cleared, and redone from here they all apply (Commit, Apply). *)
Reverted(s, e) ==
  IF e.insert THEN SubSeq(s, 1, e.gofs) \o SubSeq(s, e.gofs + Len(e.text) + 1, Len(s))
  ELSE SubSeq(s, 1, e.gofs) \o e.text \o SubSeq(s, e.gofs + 1, Len(s))
Applies(s, e) == e.insert => SubSeq(s, e.gofs + 1, e.gofs + Len(e.text)) = e.text
UndosReplay ==
  LET n == Len(ed.undos)
      before[i \in 0 .. n] == IF i = n THEN text(ed) ELSE Reverted(before[i + 1], ed.undos[i + 1])
      m == Len(ed.redos)
      again(e) == [e EXCEPT !.insert = ~@]
      after[i \in 0 .. m] == IF i = m THEN text(ed) ELSE Reverted(after[i + 1], again(ed.redos[i + 1]))
  IN  /\ before[0] = origin
      /\ \A i \in 1 .. n : Applies(before[i], ed.undos[i])
      /\ \A i \in 1 .. m : Applies(after[i], again(ed.redos[i]))
UndosReplayOneLine == ~multiline => UndosReplay
=============================================================================
