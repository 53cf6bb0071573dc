---------------------------- MODULE MCAlgorithms ----------------------------
(* Calculations that no other part of the state has to do with, each alone: `part` is chosen at first,
   `steps` bounds what would go on: changes of a layout, of the state and of the looks of elements,
   each followed by a process or not, and rectangles put into a region and taken out of it. *)
EXTENDS Integers, Sequences, TLC

CONSTANTS box1, box2, leaf1, leaf2, leaf3,     \* of Layout: boxes and leaves
          form, child, leaf, none    \* of Skins

VARIABLES part, steps,
          window, el, box, lay,      \* Layout
          parser, doc, ghost,        \* Parsing
          use, skins,                \* Skins
          region, patched, popup,    \* Geometry
          ui, screen,                \* Painting
          text, encoded, written,    \* Utf8
          line,                      \* Words, whose lines are texts
          manager, cache, drawn      \* Fonts

Size(x, y) == [x |-> x, y |-> y]

(* An outer box along x or y with a box and a leaf in it, and three leaves, one of which wraps *)
LayoutChildren == box1 :> <<box2, leaf3>> @@ box2 :> <<leaf1, leaf2>>
Small == [min |-> Size(1, 1), pref |-> Size(2, 2), max |-> Size(4, 3), area |-> 0]
Wrapping == [min |-> Size(0, 1), pref |-> Size(3, 1), max |-> Size(10000, 10000), area |-> 6]
Measures == leaf1 :> Small @@ leaf2 :> Wrapping @@ leaf3 :> Small
Skin(padding, max, intrinsic, spacing) ==
  [padding |-> padding, min |-> -1, least |-> 0, pref |-> -1, max |-> max, intrinsic |-> intrinsic,
   spacing |-> spacing]
LayoutSkins == [n \in {box1, box2, leaf1, leaf2, leaf3} |->
                  IF n = box2 THEN Skin(1, -1, -1, 2) ELSE IF n = leaf3 THEN Skin(0, 5, 2, -1) ELSE Skin(0, -1, -1, -1)]
Settings == {[axis |-> "x", size |-> "gravity", pos |-> "center", dist |-> "preferred", distpos |-> "center",
              reversed |-> FALSE, spacing |-> 1, overflow |-> "clip"],
             [axis |-> "y", size |-> "available", pos |-> "gravity", dist |-> "available",
              distpos |-> "right-bottom", reversed |-> TRUE, spacing |-> -1, overflow |-> "clip"]}
Changes == {<<"axis", "x">>, <<"dist", "gravity">>, <<"distpos", "right-bottom">>, <<"pos", "right-bottom">>,
            <<"reversed", TRUE>>, <<"spacing", -1>>, <<"overflow", "scroll">>,
            <<"size", "available">>, <<"size", "preferred">>}

Boxes == INSTANCE Layout WITH
  Outer <- box1, Inner <- box2, Leaf <- {leaf1, leaf2, leaf3}, Children <- LayoutChildren,
  Windows <- {Size(5, 6), Size(9, 4)}, Contents <- {Small, Wrapping}, Measures <- Measures,
  Params <- {[min |-> 2, pref |-> 3, max |-> -1]}, Skins <- LayoutSkins, DefaultSpacing <- 0,
  Gravities <- {{"left", "right", "top", "bottom"}, {"right", "bottom"}}, Settings <- Settings,
  Changes <- Changes

(* Lines of a resource file: nested, compact, over several lines, conditions and includes *)
Line(indent, name, value) ==
  [indent |-> indent, name |-> name, compact |-> FALSE, value |-> value, more |-> FALSE, children |-> <<>>]
Child(name, value, more) == [name |-> name, value |-> value, more |-> more]
Compact(indent, name, value, more, children) ==
  [indent |-> indent, name |-> name, compact |-> TRUE, value |-> value, more |-> more, children |-> children]
Lines ==
  {Line(0, "a", "1"), Line(1, "b", "0"), Line(2, "c", "1"), Line(0, "@if", "@>a"), Line(1, "@if", "@env>on"),
   Line(0, "@else", "0"), Line(1, "@else", "0"), Line(1, "@include", "a"), Line(0, "@include", "a>b"),
   Line(1, "@file", "part"), Compact(1, "b", "0", FALSE, <<Child("c", "1", FALSE), Child("d", "x", TRUE)>>),
   Compact(1, "b", "0", FALSE, <<Child("@include", "@env>", FALSE), Child("d", "x", FALSE)>>),
   Compact(0, "a", "@>b", FALSE, <<Child("b", "1", FALSE)>>), Compact(0, "b", "0", FALSE, <<Child("d", "x", TRUE)>>),
   Compact(0, "b", "x", TRUE, <<>>)}
Continuations == {[value |-> "x", more |-> TRUE], [value |-> "y", more |-> FALSE]}
Request == "a" :> <<"a">> @@ "a>b" :> <<"a", "b">>
Reference == "@env>" :> [tree |-> "env", request |-> <<>>] @@ "@env>on" :> [tree |-> "env", request |-> <<"on">>]
             @@ "@>a" :> [tree |-> "", request |-> <<"a">>] @@ "@>b" :> [tree |-> "", request |-> <<"b">>]
FileNode(depth, name, value) == [depth |-> depth, name |-> name, value |-> <<value>>]
RefTrees == <<[names |-> {"env"}, nodes |-> <<FileNode(1, "on", "1")>>]>>
Files == "part" :> <<FileNode(1, "c", "0"), FileNode(2, "b", "1"), FileNode(1, "d", "1")>>

Parser == INSTANCE Parsing WITH
  Lines <- Lines, Continuations <- Continuations, Request <- Request, Reference <- Reference,
  RefTrees <- RefTrees, Files <- Files, Truthy <- {"1"}, MaxLines <- 4

(* Skins that override each other, and are loaded again in another resolution or extended *)
Condition(target, prop, value, equal) == [target |-> target, prop |-> prop, value |-> value, equal |-> equal]
Override(state, conditions, id) == [state |-> state, conditions |-> conditions, id |-> id]
SkinNode(id, clone, fields) == [id |-> id, clone |-> clone, fields |-> fields]
FirstFile == [dpi |-> <<96, 192>>, nodes |-> <<
  SkinNode("tab", "box", "strong" :> <<
    Override({"all"}, {Condition("prev sibling", "state", "selected", TRUE)}, "tab.first"),
    Override({"all"}, {Condition("parent", "align", "right", TRUE), Condition("this", "custom", "readonly", FALSE)}, "hot"),
    Override({"all"}, {Condition("parent", "value", "1", TRUE), Condition("parent", "axis", "x", FALSE)}, "tab.first"),
    Override({"all"}, {Condition("ancestors", "skin", "tab", TRUE), Condition("this", "capture", "", FALSE)}, "box")>>),
  SkinNode("box", "none", "cut" :> 3 @@ "bitmap" :> "box" @@ "strong" :> <<
    Override({"hovered", "pressed"}, {}, "tab"),
    Override({"selected"}, {Condition("next sibling", "id", "x", TRUE)}, "tab.first"),
    Override({"pressed", "hovered", "selected"}, {Condition("this", "focus", "", TRUE)}, "hot"),
    Override({"focused"}, {Condition("parent", "form active", "", TRUE)}, "hot")>>),
  SkinNode("hot", "box", "bitmap" :> "hot"),
  SkinNode("tab.first", "none", "cut" :> 2 @@ "strong" :>
    <<Override({"all"}, {Condition("this", "hover", "", TRUE)}, "missing")>>)>>]
SkinFiles ==
  {[dpi |-> <<>>, nodes |-> <<SkinNode("tab", "none", "cut" :> 5),
                              SkinNode("menu", "tab", "bitmap" :> "menu" @@ "cut" :> 1)>>],
   [FirstFile EXCEPT !.dpi = <<96, 96>>]}
Initial == form :> "box" @@ child :> "box" @@ leaf :> "tab"
SkinChildren == form :> <<child>> @@ child :> <<leaf>> @@ leaf :> <<>>
Images == {<<"box", 0>>, <<"box", 192>>, <<"hot", 0>>, <<"menu", 0>>, <<"menu", 192>>}

(* The child is a tab container, in it a text box. *)
SkinFields == [k \in {form, child, leaf} \X {"axis", "align", "value", "custom"} |->
                 CASE k[2] = "axis" -> "y" [] k[2] = "align" -> IF k[1] = child THEN "left" ELSE "none"
                   [] k[2] = "value" -> "0" [] OTHER -> "none"]

Skinned == INSTANCE Skins WITH
  Element <- {form, child, leaf}, Root <- form, None <- none, Ids <- {"x", "y"}, Backgrounds <- {"box", "tab"},
  Changes <- {"selected"}, Initial <- Initial, Children <- SkinChildren, FirstFile <- FirstFile,
  SkinFiles <- SkinFiles, Images <- Images, Answers <- SkinFields,
  Values <- "axis" :> {"x", "y"} @@ "align" :> {"right"} @@ "value" :> {"1"} @@ "custom" :> {"readonly"},
  Told <- {<<child, "axis">>, <<child, "value">>, <<leaf, "custom">>}, Silent <- {<<child, "align">>}

(* Rectangles that lie beside, across and in each other *)
Rect(x, y, w, h) == [x |-> x, y |-> y, w |-> w, h |-> h]
Included == {r \in {Rect(x, y, w, h) : x \in 0 .. 2, y \in 0 .. 2, w \in 1 .. 3, h \in 1 .. 2} : r.x + r.w <= 4}
Excluded == {r \in Included : r.w <= 2 /\ r.h = 2}
Roots == {[w |-> 6, h |-> 7], [w |-> 4, h |-> 4]}
PopupSizes == {[w |-> w, h |-> h] : w \in {1, 3, 8}, h \in {1, 2, 3, 9}}

Rects == INSTANCE Geometry WITH
  Width <- 7, Height <- 6, Included <- Included, Excluded <- Excluded, Cuts <- {0, 1, 2, 3}, Roots <- Roots,
  Popups <- PopupSizes

(* A box that scrolls what is in it beside an element that lies over it, and skins that refer to each other *)
EntryWhen(state, when, id) == [state |-> state, when |-> when, id |-> id]
Entry(state, id) == EntryWhen({state}, {}, id)
StateOf(target, state, equal) == [target |-> target, state |-> state, equal |-> equal]
Paint(opacity, ofs, kind, override, children, overlay) ==
  [opacity |-> opacity, ofs |-> ofs, fill |-> kind = "image", kind |-> kind, size |-> Rect(0, 0, 1, 1), expand |-> 1,
   override |-> override, child |-> children, overlay |-> overlay]
Paints ==
  "plain" :> Paint(100, 0, "tile", <<>>, <<>>, <<EntryWhen({"all"}, {StateOf("parent", "focused", TRUE)}, "half")>>)
  @@ "half" :> Paint(50, 0, "stretch",
       <<EntryWhen({"disabled", "focused"}, {StateOf("this", "focused", FALSE)}, "clear"), Entry("disabled", "plain"),
         EntryWhen({"disabled", "focused"}, {}, "clear")>>,
       <<Entry("focused", "half"), Entry("all", "plain")>>, <<Entry("all", "clear")>>)
  @@ "clear" :> Paint(0, 1, "image", <<Entry("focused", "half"), Entry("disabled", "half")>>, <<>>,
                     <<Entry("disabled", "clear")>>)
  @@ "focus" :> Paint(100, 0, "none", <<>>, <<Entry("focused", "plain")>>, <<>>)
Painted(rect, id, padding, overflow) ==
  [rect |-> rect, visibility |-> "visible", opacity |-> 100, disabled |-> FALSE, ignoring |-> FALSE, skin |-> id,
   padding |-> padding, overflow |-> overflow, scroll |-> 0]
PaintedChildren ==
  form :> <<box2, leaf3>> @@ box2 :> <<leaf1, leaf2>> @@ leaf1 :> <<child>>
  @@ [n \in {leaf2, leaf3, child} |-> <<>>]
PaintedFields ==
  form :> Painted(Rect(0, 0, 6, 7), "none", 0, 0) @@ box2 :> Painted(Rect(0, 1, 5, 5), "plain", 1, 2)
  @@ leaf1 :> Painted(Rect(0, 0, 5, 3), "none", 0, 0) @@ leaf2 :> Painted(Rect(2, 2, 3, 4), "plain", 0, 0)
  @@ child :> Painted(Rect(1, 0, 2, 3), "half", 0, 0) @@ leaf3 :> Painted(Rect(3, 3, 3, 3), "half", 0, 0)

Painter == INSTANCE Painting WITH
  Element <- DOMAIN PaintedFields, Root <- form, None <- none, Box <- {box2}, Fluff <- 2, Skins <- Paints,
  FocusSkin <- "focus", FadeSize <- 1, DisabledOpacity <- 30, Places <- {Rect(1, 1, 3, 2), Rect(0, 0, 0, 2)},
  Opacities <- {0, 50, 100}, Backgrounds <- {"none", "half", "clear"}, Points <- {0, 2, 4} \X {0, 1, 3, 5}

(* Texts of any bytes, the lengths of which are at the limits, and of characters *)
Piece(bytes, means, short) == [bytes |-> bytes, means |-> means, short |-> short]
Pieces ==
  {Piece(<<c>>, <<c>>, FALSE) : c \in {97, 58, 44, 34, 39}}
  \cup {Piece(<<92, 92>>, <<92>>, FALSE), Piece(<<92, 34>>, <<34>>, FALSE),
        Piece(<<92, 120, 69, 57>>, <<195, 169>>, TRUE), Piece(<<92, 117, 50, 48, 97, 67>>, <<226, 130, 172>>, FALSE)}

Texts == INSTANCE Words WITH
  Bytes <- {65, 129, 161, 191, 193, 194, 224, 238, 240, 243}, MaxBytes <- 4,
  Chars <- {65, 127, 128, 2047, 2049, 65534, 65536, 1114111}, MaxChars <- 3,
  Indents <- {0, 2}, Pieces <- Pieces, Bare <- {<<45, 52>>, <<35, 102, 100, 48>>, <<64, 97, 62, 98>>},
  Endings <- {[bytes |-> <<>>, more |-> FALSE], [bytes |-> <<44>>, more |-> FALSE], [bytes |-> <<32, 92>>, more |-> TRUE],
              [bytes |-> <<44, 9, 92>>, more |-> TRUE]},
  MaxPieces <- 2, MaxValues <- 2

(* Two fonts, one of which has two sizes, that hold a character twice, end in ink, lack the question mark,
   or have colors of their own *)
FontNode(size, ascent, x_ofs, advance_delta, columns) ==
  [size |-> size, ascent |-> ascent, x_ofs |-> x_ofs, advance_delta |-> advance_delta, space_advance |-> 2,
   columns |-> [x \in DOMAIN columns |-> columns[x] = 1]]
FontFile(gray, rgb, nodes, glyph_str) ==
  [loads |-> TRUE, gray |-> gray, rgb |-> rgb, nodes |-> nodes, glyph_str |-> glyph_str]
SmallSize == FontNode(9, 3, 1, 1, <<0, 1, 1, 0, 0, 1, 0, 1>>)
LargeSize == FontNode(14, 4, -1, 0, <<1, 0, 1, 1, 0, 1, 1, 1, 1, 1, 1, 0>>)
GraySize == FontNode(8, 2, 0, 1, <<1, 0, 1, 1, 0>>)
Libraries ==
  {1000 :> FontFile(FALSE, FALSE, <<SmallSize, LargeSize>>, <<97, 98, 97, 63>>)
     @@ 2000 :> FontFile(TRUE, FALSE, <<GraySize>>, <<97, 98>>),
   1000 :> FontFile(FALSE, TRUE, <<SmallSize>>, <<63, 98, 122>>)
     @@ 2000 :> FontFile(FALSE, FALSE, <<LargeSize>>, <<98, 97, 98, 63>>)}
Descriptions == {[id |-> 1000, size |-> 9], [id |-> 1000, size |-> 12], [id |-> 2000, size |-> 8]}

Faces == INSTANCE Fonts WITH
  Libraries <- Libraries, Descriptions <- Descriptions, Strings <- {<<97, 98>>, <<65535, 98, 32, 122>>},
  MapWidth <- 5, Radii <- {0, 1}, Offsets <- {-1}, Question <- 63, Space <- 32, Invalid <- 65535

ASSUME AlgorithmsAssumption ==
  /\ Boxes!LayoutAssumption /\ Parser!ParsingAssumption /\ Skinned!SkinsAssumption /\ Rects!GeometryAssumption
  /\ Painter!PaintingAssumption /\ Texts!Utf8Assumption /\ Faces!FontsAssumption

layoutVars == <<window, el, box, lay>>
parsingVars == <<parser, doc, ghost>>
skinVars == <<use, skins>>
rectVars == <<region, patched, popup>>
paintVars == <<ui, screen>>
textVars == <<text, encoded, written, line>>
fontVars == <<manager, cache, drawn>>
vars == <<part, steps, layoutVars, parsingVars, skinVars, rectVars, paintVars, textVars, fontVars>>

Parts == {"layout", "parsing", "skins", "region", "box", "popup", "painting", "text", "words", "fonts"}

Init ==
  /\ part \in Parts /\ steps = 0
  /\ Boxes!Init /\ Parser!Init /\ Skinned!Init /\ Rects!Init /\ Painter!InitFrom(PaintedChildren, PaintedFields)
  /\ Texts!InitText /\ Texts!InitWords /\ Faces!InitFonts
  /\ part # "layout" => window.x = 5 /\ box[box1].axis = "x" /\ el[leaf3].gravity = {"right", "bottom"}
  /\ part # "painting" => ~ui.show_focus_state
  /\ part # "text" => ~encoded
  /\ part # "fonts" => manager.files[1000].rgb

Only(chosen) == part = chosen /\ UNCHANGED part
(* Bound: so many steps of a part *)
Step(most) == steps' = steps + 1 /\ steps < most

Next ==
  \/ Only("layout") /\ UNCHANGED <<parsingVars, skinVars, rectVars, paintVars, textVars, fontVars>>
       /\ \/ Step(2) /\ Boxes!Change
          \/ UNCHANGED steps /\ Boxes!InvokeProcess
  \/ Only("parsing") /\ UNCHANGED <<steps, layoutVars, skinVars, rectVars, paintVars, textVars, fontVars>>
       /\ Parser!Next
  \/ Only("skins") /\ UNCHANGED <<layoutVars, parsingVars, rectVars, paintVars, textVars, fontVars>>
       /\ \/ Step(4) /\ (Skinned!StateNext \/ Skinned!TreeNext \/ Skinned!LoadNext)
          \/ UNCHANGED steps /\ Skinned!InvokeSkinUpdatesInternal
  \/ /\ UNCHANGED <<layoutVars, parsingVars, skinVars, paintVars, textVars, fontVars>>
     /\ \/ Only("region") /\ Step(3) /\ UNCHANGED <<patched, popup>> /\ Rects!RegionNext
        \/ Only("box") /\ Step(1) /\ UNCHANGED <<region, popup>> /\ Rects!BoxNext
        \/ Only("popup") /\ Step(1) /\ UNCHANGED <<region, patched>> /\ Rects!PopupNext
  \/ Only("painting") /\ UNCHANGED <<layoutVars, parsingVars, skinVars, rectVars, textVars, fontVars>>
       /\ \/ Step(2) /\ Painter!Change
          \/ UNCHANGED steps /\ screen.dirty /\ Painter!Repaint
  \/ Only("text") /\ UNCHANGED <<steps, layoutVars, parsingVars, skinVars, rectVars, paintVars, fontVars>>
       /\ Texts!TextNext /\ UNCHANGED line
  \/ Only("words") /\ UNCHANGED <<steps, layoutVars, parsingVars, skinVars, rectVars, paintVars, fontVars>>
       /\ Texts!WordsNext
  \/ Only("fonts") /\ Step(5) /\ UNCHANGED <<layoutVars, parsingVars, skinVars, rectVars, paintVars, textVars>>
       /\ Faces!FontsNext

Spec == Init /\ [][Next]_vars

-----------------------------------------------------------------------------
(* After a process elements are where a layout from nothing would put them; what a box has missing
   is taken from its children, down to their minimum, and what goes to the far end ends there
   (Layout). *)
LaidOut == part = "layout" => Boxes!LayoutFresh /\ Boxes!SpaceShared /\ Boxes!EndsAtEdge
(* Tokens are read at the depth of their line, with their own text, and branches that were taken are
   there, and nothing else of a condition (Parsing). *)
DocumentAsWritten == part = "parsing" => Parser!ParsedAsWritten /\ Parser!ConditionsResolved
(* Elements were told of the skin that they get, and cuts are in the resolution of the bitmap
   (Skins). *)
SkinsAgree == part = "skins" => Skinned!SkinsCurrent /\ Skinned!CutFitsBitmap
(* Rectangles cover what they should, once: a region what was included and not excluded since, nine
   patches an element, a pop-up nothing of its target (Geometry). *)
RectsExact ==
  /\ part = "region" => Rects!RegionExact
  /\ part = "box" => Rects!PatchesTile
  /\ part = "popup" => Rects!PopupBeside
(* What is on the screen is what painting would show, nothing that is hidden is painted, and what is
   hit at a point is painted there (Painting). *)
PictureAgrees == part = "painting" => Painter!PictureAgrees
(* Texts are read as they were written, forwards and backwards, lines with all the values in them,
   and faces have the glyphs of their picture, with which they draw and measure strings (Utf8,
   Words, Fonts). *)
TextsAgree ==
  /\ part = "text" => Texts!TextReadBack
  /\ part = "words" => Texts!LineReadBack
  /\ part = "fonts" => Faces!FontsAgree
=============================================================================
