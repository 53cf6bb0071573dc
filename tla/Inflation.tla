----------------------------- MODULE Inflation ------------------------------
(***************************************************************************)
(* Elements made from a resource (src/el/parsing/element_factory.cc,       *)
(* Element::OnInflate in element.cc and the OnInflate of the elements):    *)
(* what is read in which order, where the new element goes, which font and *)
(* place it gets, what a connection makes of its value, and what is        *)
(* focused.  Places are those along one axis.                              *)
(***************************************************************************)
EXTENDS Integers, Sequences, SequencesExt, FiniteSets

CONSTANTS Form,          \* [at, len]: of the form that is there at first
          Fonts,         \* the names that there is a font for
          DefaultFont, Pref,       \* of elements whose resource says nothing
          First, Later   \* the resources loaded: sequences of nodes
                         \*  [class, props: [name -> what is written], nodes, tabs]

(* Assumed of the constants where they get their values *)
InflationAssumption ==
  /\ Form.len \in Nat /\ Pref \in Nat /\ DefaultFont.name \in Fonts

VARIABLES ui,      \* [els, values: of connections [text, is], syncing, last: the form's last focus]
          loads    \* what was loaded: [target, nodes, before: the shapes that were there]

vars == <<ui, loads>>

Limited == {"Slider", "SpinBox"}
Valued == Limited \cup {"RadioButton", "ToggleContainer"}
Focusable == {"Button", "Slider", "RadioButton", "TextBox"}
Known == Valued \cup Focusable \cup {"Element", "LayoutBox", "ScrollContainer", "SplitContainer", "TabContainer"}

Written(node, name) == name \in DOMAIN node.props
Get(node, name, default) == IF Written(node, name) THEN node.props[name] ELSE default
Least(i, j) == IF i < j THEN i ELSE j
Most(i, j) == IF i > j THEN i ELSE j

(* An element's content_root, or the tab bar of a tab container *)
Slot(e, name) == [of |-> e, name |-> name]
Nowhere == Slot(0, "content")
Put(u, e, field, x) == [u EXCEPT !.els[e] = [@ EXCEPT ![field] = x]]

RECURSIVE Above(_, _)
(* An element and what it is in, from inside out *)
Above(u, e) == IF e = 0 THEN <<>> ELSE <<e>> \o Above(u, u.els[e].parent.of)
Is(u, e, P) == \A i \in DOMAIN Above(u, e) : u.els[Above(u, e)[i]][P[1]] = P[2]
is_enabled(u, e) == Is(u, e, <<"disabled", FALSE>>)
computed_visibility(u, e) == Is(u, e, <<"visible", TRUE>>) /\ \A i \in DOMAIN Above(u, e) : u.els[Above(u, e)[i]].opacity # 0

-----------------------------------------------------------------------------
(* Values *)

Clamp(el, v) == IF el.class \in Limited THEN Least(Most(v, el.min), el.max) ELSE v

(* The elements under the root of its group *)
Grouped(u, e) ==
  LET up == Above(u, e)
      roots == SelectInSeq(up, LAMBDA d : u.els[d].root)
      group == up[IF roots = 0 THEN Len(up) ELSE roots]
  IN  SelectSeq([i \in DOMAIN u.els |-> i],
                LAMBDA d : d # e /\ u.els[d].group = u.els[e].group /\ Contains(Above(u, d), group))

(* UpdateInternal of a toggle container *)
Toggled(el) ==
  LET on == (el.value # 0) # el.set["invert"]
  IN  CASE el.class # "ToggleContainer" \/ el.set["toggle"] = "nothing" -> el
        [] el.set["toggle"] = "enabled" -> [el EXCEPT !.disabled = ~on]
        [] el.set["toggle"] = "opacity" -> [el EXCEPT !.opacity = IF on THEN 1 ELSE 0]
        [] el.set["toggle"] = "expanded" -> [el EXCEPT !.disabled = ~on, !.visible = on]

(* A text box of one line keeps the first. *)
ReadText(el, text) == IF el.class = "TextBox" /\ text = "two lines" /\ ~el.set["multiline"] THEN "one line" ELSE text
SetText(u, e, text) ==
  IF u.els[e].class \in {"TextBox", "Button"} THEN Put(u, e, "text", ReadText(u.els[e], text)) ELSE u

RECURSIVE SetValue(_, _, _)
(* What a connection's value is taken from, and set to *)
ValueFrom(el, text) == [text |-> text, is |-> IF text THEN el.text ELSE el.value]
Shown(u, e, v) == IF v.text THEN SetText(u, e, v.is) ELSE SetValue(u, e, v.is)
(* SyncToElement *)
Synced(u, e) ==
  IF u.els[e].conn \in u.syncing THEN u
  ELSE [Shown([u EXCEPT !.syncing = @ \cup {u.els[e].conn}], e, u.values[u.els[e].conn])
          EXCEPT !.syncing = @ \ {u.els[e].conn}]
Connected(u, conn) == SelectSeq([i \in DOMAIN u.els |-> i], LAMBDA d : u.els[d].conn = conn)
(* SetFromElement, out of the event kChanged *)
SetFromElement(u, e) ==
  LET conn == u.els[e].conn
  IN  IF conn = "" \/ conn \in u.syncing THEN u
      ELSE FoldLeft(LAMBDA w, d : IF d = e THEN w ELSE Synced(w, d),
                    [u EXCEPT !.values[conn] = ValueFrom(u.els[e], @.text)], Connected(u, conn))
(* A radio button that is on turns those of its group off. *)
UpdateGroupElements(u, e) ==
  IF u.els[e].class # "RadioButton" \/ u.els[e].value = 0 \/ u.els[e].group = "" THEN u
  ELSE FoldLeft(LAMBDA w, d : SetValue(w, d, 0), u, Grouped(u, e))
SetValue(u, e, v) ==
  LET to == Clamp(u.els[e], v)
  IN  IF u.els[e].class \notin Valued \/ to = u.els[e].value THEN u
      ELSE UpdateGroupElements(SetFromElement([u EXCEPT !.els[e] = Toggled([@ EXCEPT !.value = to])], e), e)

(* The value of that name, or a new one that is what the element shows *)
Connect(u, e, conn) ==
  IF conn = "" THEN u
  ELSE LET known == IF conn \in DOMAIN u.values THEN u
                    ELSE [u EXCEPT !.values = conn :> ValueFrom(u.els[e], u.els[e].class = "TextBox") @@ @]
       IN  Synced(Put(known, e, "conn", conn), e)

-----------------------------------------------------------------------------
(* OnInflate, in the order in which it reads *)

ClassGravity(class, axis) ==
  CASE class \in {"LayoutBox", "ScrollContainer", "SplitContainer"} -> {"left", "right"}
    [] class = "Slider" -> IF axis = "x" THEN {"left", "right"} ELSE {}
    [] OTHER -> {"left"}

(* What it is when nothing is written, what may be, and what all else stands for *)
Setting(default, known, other) == [default |-> default, known |-> known, other |-> other]
Flag(default) == Setting(default, BOOLEAN, default)
(* from_string, GetValueInt *)
Reads(node, name, setting) ==
  IF ~Written(node, name) THEN setting.default
  ELSE IF node.props[name] \in setting.known THEN node.props[name] ELSE setting.other
ReadAll(node, settings) == [name \in DOMAIN settings |-> Reads(node, name, settings[name])]

LayoutSettings ==
  "size" :> Setting("gravity", {"gravity", "preferred", "available"}, "preferred")
  @@ "position" :> Setting("center", {"left top", "right bottom", "gravity"}, "center")
  @@ "overflow" :> Setting("clip", {"clip", "scroll"}, "clip")
  @@ "distribution" :> Setting("preferred", {"preferred", "available", "gravity"}, "preferred")
  @@ "distribution-position" :> Setting("center", {"left top", "right bottom"}, "center")
OnInflateLayoutBox(el, node) == [el EXCEPT !.gravity = {"left", "right"}, !.set = ReadAll(node, LayoutSettings)]

OnInflateScrollContainer(el, node) ==
  [el EXCEPT !.gravity = {"left", "right"},
             !.set = ReadAll(node, "adapt-content" :> Flag(FALSE) @@ "adapt-to-content" :> Flag(FALSE)
                                   @@ "scroll-mode" :> Setting("xy", {"xy", "y", "y-auto", "auto", "off"}, "xy"))]

(* Its value is set when it gets its size. *)
OnInflateSplitContainer(el, node) ==
  [el EXCEPT !.gravity = {"left", "right"}, !.axis = Get(node, "axis", @),
             !.set = "fixed" :> Reads(node, "fixed", Setting("first", {"first", "second"}, "first"))
                     @@ "initial" :> Get(node, "value", -1)]

(* One that has several lines wraps them unless it is written otherwise. *)
OnInflateTextBox(el, node) ==
  [el EXCEPT !.set = ReadAll(node, "multiline" :> Flag(FALSE) @@ "styling" :> Flag(FALSE) @@ "readonly" :> Flag(FALSE)
                                   @@ "wrap" :> Flag(Get(node, "multiline", FALSE))
                                   @@ "adapt-to-content" :> Flag(FALSE)
                                   @@ "type" :> Setting("text", {"text", "password", "number"}, "text"))]

OnInflateToggleContainer(el, node) ==
  Toggled([el EXCEPT !.set = "toggle" :> Reads(node, "toggle", Setting("nothing", {"enabled", "opacity", "expanded"}, "nothing"))
                             @@ "invert" :> Get(node, "invert", FALSE)])

(* The limits before the value, which is clamped to them *)
OnInflateSlider(el, node) ==
  LET min == Get(node, "min", el.min)
      max == Get(node, "max", el.max)
      axis == Get(node, "axis", "x")
  IN  [el EXCEPT !.min = Least(min, max), !.max = max, !.axis = axis, !.gravity = ClassGravity("Slider", axis)]
OnInflateSpinBox(el, node) == [el EXCEPT !.min = Get(node, "min", @), !.max = Get(node, "max", @)]

OnInflateClass(el, node) ==
  CASE el.class = "LayoutBox" -> OnInflateLayoutBox(el, node)
    [] el.class = "ScrollContainer" -> OnInflateScrollContainer(el, node)
    [] el.class = "SplitContainer" -> OnInflateSplitContainer(el, node)
    [] el.class = "TextBox" -> OnInflateTextBox(el, node)
    [] el.class = "ToggleContainer" -> OnInflateToggleContainer(el, node)
    [] el.class = "Slider" -> OnInflateSlider(el, node)
    [] el.class = "SpinBox" -> OnInflateSpinBox(el, node)
    [] OTHER -> el

New(node) ==
  [class |-> node.class, written |-> node.props, load |-> Len(loads) + 1, parent |-> Nowhere, content |-> <<>>,
   tabs |-> <<>>, value |-> 0, min |-> 0, max |-> IF node.class = "SpinBox" THEN 100 ELSE 1, group |-> "", root |-> FALSE,
   conn |-> "", focusable |-> node.class \in Focusable, disabled |-> FALSE, visible |-> TRUE, opacity |-> 1, text |-> "",
   axis |-> "x", gravity |-> {"left"}, lp |-> [min |-> -1, max |-> -1, pref |-> -1],
   font |-> [name |-> "", size |-> 0], at |-> 0, len |-> 0, set |-> "" :> 0]

(* Mutant: its value when it is connected already *)
ReadValueConnected(u, e, node) ==
  SetValue(Connect([u EXCEPT !.els[e].group = Get(node, "group-id", @)], e, Get(node, "connection", "")),
           e, Get(node, "value", 0))

(* All that a connection may change is read before it is made, and before the
   element is in the tree. *)
ReadValue(u, e, node) ==
  LET el == u.els[e]
      valued == SetValue(Put(u, e, "group", Get(node, "group-id", el.group)), e, Get(node, "value", 0))
      flags == [valued.els[e] EXCEPT !.root = Get(node, "is-group-root", @), !.focusable = Get(node, "is-focusable", @),
                                     !.opacity = Get(node, "opacity", @)]
  IN  Connect(SetText([valued EXCEPT !.els[e] = flags], e, Get(node, "text", el.text)), e, Get(node, "connection", ""))

ReadGravity(gravity) == IF gravity = {} THEN {"left"} ELSE gravity
ReadFlags(el, node) ==
  [el EXCEPT !.axis = Get(node, "axis", @),
             !.gravity = IF Written(node, "gravity") THEN ReadGravity(node.props.gravity) ELSE @,
             !.visible = Get(node, "visibility", @), !.disabled = @ \/ Get(node, "disabled", FALSE)]

(* "width" first, and then each by itself *)
ReadLayoutParams(el, node) ==
  LET width == Get(node, "width", -1)
      all == IF Written(node, "width") THEN [min |-> width, max |-> width, pref |-> width] ELSE el.lp
  IN  [el EXCEPT !.lp = [min |-> Get(node, "min-width", all.min), max |-> Get(node, "max-width", all.max),
                         pref |-> Get(node, "pref-width", all.pref)]]

(* A child whose container adds at the bottom goes under those that are there. *)
AddChild(u, e, target) ==
  LET bottom == target.name = "content" /\ u.els[target.of].class = "Button"
      added == [u.els[target.of] EXCEPT ![target.name] = IF bottom THEN <<e>> \o @ ELSE Append(@, e)]
  IN  [u EXCEPT !.els[e].parent = target, !.els[target.of] = added]

computed_font(u, e) ==
  LET own == SelectSeq(Above(u, e), LAMBDA d : u.els[d].font.name # "")
  IN  IF own = <<>> THEN DefaultFont ELSE u.els[own[1]].font
(* What is not written is inherited; a font that there is not is not set. *)
ReadFont(u, e, node) ==
  LET font == [name |-> Get(node, "font-name", computed_font(u, e).name), size |-> Get(node, "font-size", computed_font(u, e).size)]
  IN  IF (Written(node, "font-name") \/ Written(node, "font-size")) /\ font.name \in Fonts
      THEN Put(u, e, "font", font) ELSE u

GetPreferredSize(el) ==
  LET min == Most(el.lp.min, 0) IN Most(min, IF el.lp.pref = -1 THEN Pref ELSE el.lp.pref)
(* The extent of what holds the children of a slot, if that leaves their place to them *)
Inside(u, target) ==
  LET el == u.els[target.of] IN IF el.class = "TabContainer" THEN 0 ELSE el.len
LaysOut(u, target) == u.els[target.of].class \in {"LayoutBox", "Button"} \/ target.name = "tabs"

(* Between both edges, or at one in its preferred size *)
OnInflateChild(u, e, target) ==
  LET el == u.els[e]
      room == Inside(u, target)
      fill == {"left", "right"} \subseteq el.gravity
      len == IF fill THEN room ELSE GetPreferredSize(el)
      at == IF ~fill /\ "right" \in el.gravity THEN room - len ELSE 0
  IN  IF LaysOut(u, target) \/ ~el.visible THEN u ELSE [u EXCEPT !.els[e].at = at, !.els[e].len = len]
ReadRect(u, e, node) ==
  IF Written(node, "rect") THEN [u EXCEPT !.els[e].at = node.props.rect[1], !.els[e].len = node.props.rect[2]] ELSE u

OnInflateElement(u, e, node) ==
  LET valued == ReadValue([u EXCEPT !.els[e] = OnInflateClass(@, node)], e, node)
  IN  [valued EXCEPT !.els[e] = ReadLayoutParams(ReadFlags(@, node), node)]
OnInflate(u, e, target, node) ==
  ReadRect(OnInflateChild(ReadFont(AddChild(OnInflateElement(u, e, node), e, target), e, node), e, target), e, node)

-----------------------------------------------------------------------------
(* ElementFactory *)

SetFocus(u, e) ==
  IF is_enabled(u, e) /\ u.els[e].focusable /\ computed_visibility(u, e) THEN [u EXCEPT !.last = e] ELSE u

RECURSIVE CreateElement(_, _, _)
LoadNodeTree(u, target, nodes) == FoldLeft(LAMBDA w, node : CreateElement(w, target, node), u, nodes)
(* The tabs of a tab container are part of its OnInflate. *)
CreateElement(u, target, node) ==
  LET e == Len(u.els) + 1
      made == OnInflate([u EXCEPT !.els = Append(@, New(node))], e, target, node)
      filled == LoadNodeTree(LoadNodeTree(made, Slot(e, "tabs"), node.tabs), Slot(e, "content"), node.nodes)
  IN  IF node.class \notin Known THEN u
      ELSE IF Get(node, "autofocus", FALSE) THEN SetFocus(filled, e) ELSE filled

-----------------------------------------------------------------------------
(* What the elements of a slot are, with what is in them *)
RECURSIVE Shape(_, _)
Shape(u, e) ==
  [written |-> u.els[e].written, class |-> u.els[e].class,
   tabs |-> [i \in DOMAIN u.els[e].tabs |-> Shape(u, u.els[e].tabs[i])],
   content |-> [i \in DOMAIN u.els[e].content |-> Shape(u, u.els[e].content[i])]]

Load(target, nodes) ==
  /\ ui' = LoadNodeTree(ui, target, nodes)
  /\ loads' = Append(loads, [target |-> target, nodes |-> nodes, before |-> Shape(ui, target.of)])

Blank(class) == [class |-> class, props |-> [n \in {} |-> 0], nodes |-> <<>>, tabs |-> <<>>]
InitInflation ==
  /\ loads = <<>>
  /\ ui = [els |-> <<[New(Blank("Element")) EXCEPT !.len = Form.len, !.at = Form.at]>>, values |-> [c \in {} |-> 0],
           syncing |-> {}, last |-> 0]

InflationNext ==
  \/ \E nodes \in First : loads = <<>> /\ Load(Slot(1, "content"), nodes)
  \/ \E nodes \in Later, e \in DOMAIN ui.els : Len(loads) = 1 /\ ui.els[e].class \notin Valued /\ Load(Slot(e, "content"), nodes)

-----------------------------------------------------------------------------
(* Properties *)

RECURSIVE ShapesOf(_)
(* What nodes describe: those of a class that is known, and of a button's the last one first *)
ShapesOf(nodes) ==
  LET shapes == [i \in DOMAIN nodes |->
                   [written |-> nodes[i].props, class |-> nodes[i].class, tabs |-> ShapesOf(nodes[i].tabs),
                    content |-> IF nodes[i].class = "Button" THEN Reverse(ShapesOf(nodes[i].nodes))
                                ELSE ShapesOf(nodes[i].nodes)]]
  IN  SelectSeq(shapes, LAMBDA s : s.class \in Known)

(* The new elements stand in the order of their nodes, after those that were
   there, but under them in a button. *)
StructureAsWritten ==
  loads = <<>> \/ LET load == Last(loads)
                      new == ShapesOf(load.nodes)
                  IN  Shape(ui, load.target.of) =
                        [load.before EXCEPT !.content = IF load.before.class = "Button" THEN Reverse(new) \o @ ELSE @ \o new]

Els == 2 .. Len(ui.els)
Says(e, name, x) == name \in DOMAIN ui.els[e].written /\ ui.els[e].written[name] = x
Asked(e, name, default) == IF name \in DOMAIN ui.els[e].written THEN ui.els[e].written[name] ELSE default
Members(e) == {d \in Els : ui.els[e].group # "" /\ d # e /\ Contains(Grouped(ui, e), d)} \cup {e}

(* An element shows the value that its resource gives it, within its own
   limits, a connected one that of the first element of that connection; of a
   group of radio buttons that is on that is written so.  A text box shows the
   text of its connection, as far as it takes it. *)
ValuesAsWritten ==
  /\ \A e \in Els : LET el == ui.els[e]
                        leader == Connected(ui, el.conn)[1]
                        written == Asked(IF el.conn = "" THEN e ELSE leader, "value", 0)
                    IN  el.class \in Limited /\ (el.conn = "" \/ ui.els[leader].class \in Limited) =>
                          el.value = Clamp(el, IF el.conn = "" THEN written ELSE Clamp(ui.els[leader], written))
  /\ \A e \in Els :
       LET el == ui.els[e]
           value == ui.values[el.conn]
       IN  el.conn # "" =>
             /\ (value.text /\ el.class = "TextBox") => el.text = ReadText(el, value.is)
             /\ (~value.text /\ el.class \in Valued) => el.value = Clamp(el, value.is)
(* What settings depend on each other are in agreement, whichever is read
   first: limits, the lines of a text box, and what a container toggles.  A
   written opacity stands as long as the value is the written one too, for both
   are read before the connection; a written visibility stands in any case. *)
SettingsAgree ==
  \A e \in Els :
    LET el == ui.els[e] IN
      /\ el.class \in Limited => el.value \in el.min .. el.max
      /\ el.class = "TextBox" =>
           /\ el.text = "two lines" => Says(e, "multiline", TRUE)
           /\ el.conn = "" => el.text = ReadText(el, Asked(e, "text", ""))
           /\ el.set["wrap"] <=> Asked(e, "wrap", Asked(e, "multiline", FALSE))
      /\ el.class = "ToggleContainer" =>
           LET on == (el.value # 0) # el.set["invert"]
               written == "opacity" \in DOMAIN el.written /\ el.value = Asked(e, "value", 0)
           IN  /\ el.set["toggle"] \in {"enabled", "expanded"} => el.disabled = ~on \/ Says(e, "disabled", TRUE)
               /\ el.set["toggle"] = "expanded" => el.visible = Asked(e, "visibility", on)
               /\ el.set["toggle"] = "opacity" => el.opacity = IF written THEN Asked(e, "opacity", 1) ELSE IF on THEN 1 ELSE 0

(* Of a group at most one is on. *)
AtMostOneOn == \A e \in Els : Cardinality({d \in Members(e) : ui.els[d].class = "RadioButton" /\ ui.els[d].value = 1}) <= 1
GroupsAsWritten ==
  (\A e \in Els : Cardinality({d \in Members(e) : Says(d, "value", 1)}) <= 1) =>
    /\ AtMostOneOn
    /\ \A e \in Els : ui.els[e].class = "RadioButton" /\ ui.els[e].conn = "" /\ Says(e, "value", 1) => ui.els[e].value = 1

(* Fonts come from above, but for the part that is written. *)
FontsAsWritten ==
  \A e \in Els :
    LET inherited == computed_font(ui, ui.els[e].parent.of)
        font == [name |-> Asked(e, "font-name", inherited.name), size |-> Asked(e, "font-size", inherited.size)]
    IN  computed_font(ui, e) = IF font.name \in Fonts THEN font ELSE inherited

(* Where no layout places them, elements keep to the edges they pull to in
   what they are in. *)
PlacesAsWritten ==
  \A e \in Els :
    LET el == ui.els[e]
        pulls == IF "gravity" \in DOMAIN el.written THEN el.written.gravity \cap {"left", "right"}
                 ELSE ClassGravity(el.class, el.axis)
    IN  "rect" \notin DOMAIN el.written /\ el.visible /\ ~LaysOut(ui, el.parent) =>
          /\ "right" \notin pulls => el.at = 0
          /\ "right" \in pulls => el.at + el.len = Inside(ui, el.parent)
          /\ {"left", "right"} \subseteq pulls => el.at = 0

(* d's end is after e's in the resources. *)
After(d, e) ==
  \/ ui.els[d].load > ui.els[e].load
  \/ ui.els[d].load = ui.els[e].load /\ IF d < e THEN Contains(Above(ui, e), d) ELSE ~Contains(Above(ui, d), e)
(* The focus is where the last of the elements asks for it that can take it. *)
FocusAsWritten ==
  LET asking == {e \in Els : Says(e, "autofocus", TRUE) /\ is_enabled(ui, e) /\ ui.els[e].focusable /\ computed_visibility(ui, e)}
  IN  IF asking = {} THEN ui.last = 0 ELSE ui.last \in asking /\ \A d \in asking \ {ui.last} : After(ui.last, d)

(* Elements are what their resources say, though properties are read before
   and after they are in the tree, connected, and filled with others, which
   depend on them (Element::OnInflate, ElementFactory::CreateElement). *)
InflatedAsWritten ==
  StructureAsWritten /\ ValuesAsWritten /\ SettingsAgree /\ GroupsAsWritten /\ FontsAsWritten /\ PlacesAsWritten
  /\ FocusAsWritten
=============================================================================
