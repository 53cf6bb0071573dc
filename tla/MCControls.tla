----------------------------- MODULE MCControls -----------------------------
(* The elements with a value, items, pages, panes or a scroll position, each alone: `part` is chosen
   at first, `steps` bounds the parts that would go on. *)
EXTENDS ElementListeners, Images, ListBoxes, ElementValues, Panels, TextBoxes, TLC

CONSTANTS radio1, radio2, slider,        \* of ElementValues: two radio buttons and a slider
          inner, outer,                  \* of Scrolling
          root, child, weak, listener, handler, event,   \* of ElementListeners
          MaxSteps,                      \* bound: steps of lists, scrolling and dragging, calls of listeners,
          MaxValueSteps, MaxTextSteps    \*  steps of values, and of a text box

VARIABLES part, steps,
          c, scroller, goal, pan,                                    \* Scrolling
          form, bar, drag,                                           \* Handles
          ui, loads,                                                 \* Inflation
          memory, means                                              \* Values

Point(x, y) == [x |-> x, y |-> y]
Extent(w, h) == [w |-> w, h |-> h]

Scroll == INSTANCE Scrolling WITH
  Chain <- <<inner, outer>>, Size <- inner :> Point(3, 3) @@ outer :> Point(4, 4),
  Modes <- {"auto", "y-auto"}, Contents <- {Point(3, 3), Point(3, 5)}, Bar <- 1,
  Requests <- {Point(0, -1), Point(0, 2)}, Parts <- {[at |-> Point(0, 3), size |-> Point(1, 1)]},
  Positions <- 0 .. 3, Axes <- {"y"}, Threshold <- 2, MaxGoal <- 3

(* Forms of 3 to 10 pixels, and tracks of 5 and 6 with ranges of 0 to 4 *)
Setting(kind, axis, length, thickness, handle) ==
  [kind |-> kind, axis |-> axis, length |-> length, thickness |-> thickness, handle |-> handle]
ScrollRange(max, visible) == [min |-> 0, max |-> max, visible |-> visible]
Large == {"title bar", "resizable", "close button"}
Dragging == INSTANCE Handles WITH
  Parents <- {Extent(9, 8), Extent(6, 7)}, Settings <- {Large, {"title bar", "full screen"}, {"resizable", "design button"}},
  Preferred <- {[min |-> Extent(3, 3), pref |-> Extent(5, 4), max |-> Extent(10, 6)]},
  TitleHeight <- 2, CornerSize <- 2, TitlePadding <- 0, MinSize <- 3,
  Grabs <- {Point(0, 0), Point(1, 1), Point(4, 3)}, Pointers <- {Point(-1, 2), Point(3, 4), Point(4, 1), Point(9, 9)},
  Unit <- 300, Bars <- {Setting(k, a, 6, 1, 2) : k \in {"slider", "scroll bar"}, a \in {"x", "y"}}
                       \cup {Setting("scroll bar", "x", 5, 2, 3)},
  Limits <- {ScrollRange(600, 300), ScrollRange(300, 600), ScrollRange(0, 300), ScrollRange(300, 0), ScrollRange(1200, 300)}, Amounts <- {0, 150, 475}

(* Resources: a container with up to two elements, or an element before them; then another one *)
Node(class, props, nodes) == [class |-> class, props |-> props, nodes |-> nodes, tabs |-> <<>>]
Leaf(class, props) == Node(class, props, <<>>)
Nothing == [n \in {} |-> 0]
Leaves ==
  {Leaf("Slider", "connection" :> "c" @@ "value" :> 7 @@ "max" :> 5 @@ "axis" :> "y"),
   Leaf("Slider", "connection" :> "c" @@ "min" :> 2 @@ "max" :> 9 @@ "value" :> 1 @@ "autofocus" :> TRUE),
   Leaf("Slider", "value" :> 3 @@ "min" :> 6 @@ "max" :> 2 @@ "gravity" :> {"right"} @@ "pref-width" :> 3),
   Leaf("SpinBox", "min" :> 3 @@ "connection" :> "c" @@ "gravity" :> {}), Leaf("Unknown", Nothing),
   Leaf("RadioButton", "group-id" :> "g" @@ "value" :> 1 @@ "connection" :> "c"),
   Leaf("RadioButton", "group-id" :> "g" @@ "autofocus" :> TRUE @@ "font-name" :> "big"),
   Leaf("RadioButton", "group-id" :> "g" @@ "value" :> 1 @@ "width" :> 4 @@ "min-width" :> 6 @@ "gravity" :> {"right", "left"}),
   Leaf("TextBox", "text" :> "two lines" @@ "connection" :> "t"), Leaf("TextBox", "connection" :> "t"),
   Leaf("Element", "visibility" :> FALSE @@ "gravity" :> {"right"} @@ "autofocus" :> TRUE @@ "is-focusable" :> TRUE),
   Leaf("ToggleContainer", "toggle" :> "opacity" @@ "opacity" :> 0 @@ "connection" :> "c" @@ "value" :> 1),
   Leaf("TextBox", "text" :> "two lines" @@ "multiline" :> TRUE @@ "autofocus" :> TRUE),
   Leaf("Element", "font-size" :> 9 @@ "rect" :> <<1, 4>> @@ "autofocus" :> TRUE @@ "is-focusable" :> TRUE)}
Containers(nodes) ==
  {Node("ToggleContainer", "toggle" :> "expanded" @@ "connection" :> "c" @@ "value" :> 1, nodes),
   Node("ToggleContainer", "toggle" :> "expanded" @@ "visibility" :> TRUE, nodes),
   Node("ToggleContainer", "toggle" :> "opacity" @@ "opacity" :> 1 @@ "autofocus" :> TRUE @@ "is-focusable" :> TRUE, nodes),
   Node("ToggleContainer", "toggle" :> "opacity" @@ "invert" :> TRUE @@ "autofocus" :> TRUE @@ "is-focusable" :> TRUE, nodes),
   Node("Element", "rect" :> <<2, 8>> @@ "font-name" :> "big" @@ "autofocus" :> TRUE @@ "is-focusable" :> TRUE, nodes),
   Node("LayoutBox", "position" :> "odd" @@ "is-group-root" :> TRUE @@ "font-name" :> "none" @@ "font-size" :> 3, nodes),
   Node("Button", "font-size" :> 5 @@ "autofocus" :> TRUE @@ "gravity" :> {}, nodes), Node("Unknown", Nothing, nodes),
   Node("Element", "disabled" :> TRUE @@ "gravity" :> {"right"}, nodes),
   [Node("TabContainer", "gravity" :> {"left", "right"}, nodes)
      EXCEPT !.tabs = <<Leaf("Button", "autofocus" :> TRUE @@ "visibility" :> TRUE)>>]}
Single ==
  {Node("ToggleContainer", "toggle" :> "enabled", <<Leaf("Button", "autofocus" :> TRUE)>>),
   Node("ScrollContainer", "scroll-mode" :> "off", <<>>), Node("SplitContainer", "value" :> 3 @@ "axis" :> "y", <<>>)}
Pairs == {<<>>} \cup {<<a>> : a \in Leaves} \cup {<<a, b>> : a, b \in Leaves}
Resources ==
  UNION {{<<n>> : n \in Containers(nodes)} : nodes \in Pairs} \cup Pairs
    \cup {<<n>> : n \in Single}
MoreResources ==
  {<<Node("LayoutBox", "is-group-root" :> TRUE, <<Leaf("RadioButton", "group-id" :> "g" @@ "value" :> 1)>>)>>,
   <<Leaf("SpinBox", "value" :> 2 @@ "connection" :> "c"), Leaf("Button", "autofocus" :> TRUE @@ "font-size" :> 7)>>}

Inflating == INSTANCE Inflation WITH
  Form <- [at |-> 0, len |-> 10], Fonts <- {"plain", "big"}, DefaultFont <- [name |-> "plain", size |-> 4], Pref <- 2,
  First <- Resources, Later <- MoreResources

(* Two values *)
Token(kind, n) == [kind |-> kind, n |-> n]
Strings ==
  {<<Token("int", -2)>>, <<Token("float", 3)>>, <<Token("word", 1)>>, <<Token("int", 2), Token("float", 1), Token("word", 1)>>}
Variants == INSTANCE Values WITH Cell <- {1, 2}, Strings <- Strings, Numbers <- {-3, 2}, TakesObjects <- FALSE

ASSUME ControlsAssumption ==
  /\ ValuesAssumption /\ Scroll!ScrollingAssumption
  /\ PanelsAssumption /\ Dragging!HandlesAssumption /\ Inflating!InflationAssumption
  /\ Variants!ValuesAssumption /\ TextBoxesAssumption

MCParent == root :> nullptr @@ child :> root
MCHash == "photo" :> 1 @@ "photo@192" :> 2 @@ "icon" :> 3 @@ "sign" :> 3    \* two names, one hash
MCDst == "photo" :> "photo@192" @@ "icon" :> "icon" @@ "sign" :> "sign"
MCNodes == <<[name |-> "item", text |-> 2], [name |-> "group", text |-> 1], [name |-> "item", text |-> 1]>>
MCLimits == slider :> <<0, 1>>
MCGroup == radio1 :> <<radio1, radio2>> @@ radio2 :> <<radio1, radio2>> @@ slider :> <<>>
MCPlaces == 0 .. 3
MCSpinLimits == [min |-> -1, max |-> 2]
MCTyped == -2 .. 3
(* A text box of two lines and a half, or of one in which each line is wrapped *)
MCRects == {Extent(20, 20), Extent(14, 10)}
MCPointers == {-20, 8, 40}
MCId == root :> 1 @@ child :> 2

scrollVars == <<c, scroller, goal, pan>>
dragVars == <<form, bar, drag>>
loadVars == <<ui, loads>>
heldVars == <<memory, means>>
vars == <<part, steps, listsVars, elementValuesVars, scrollVars, panelsVars, dragVars, loadVars, heldVars, textBoxVars, listenersVars, im>>

Parts == {"lists", "values", "scroll", "tabs", "split", "group", "spin", "form", "bar", "inflation", "variants", "text box", "listeners",
          "images"}
Bounded == {"lists", "scroll", "form", "bar", "variants", "text box", "listeners"}
Limit == CASE part = "variants" -> MaxValueSteps [] part = "text box" -> MaxTextSteps [] OTHER -> MaxSteps

Init ==
  /\ part \in Parts /\ steps = 0
  /\ InitLists /\ InitElementValues /\ Scroll!Init /\ InitPanels /\ Dragging!Init /\ Inflating!InitInflation /\ Variants!InitValues
  /\ InitTextBox /\ InitListeners /\ InitImages
  /\ part # "form" => form.parent = Extent(9, 8) /\ form.settings = Large
  /\ part # "scroll" => \A k \in DOMAIN c : c[k].mode = "auto" /\ c[k].content = Point(3, 3)
  /\ part # "bar" => bar.set = Setting("slider", "x", 6, 1, 2)

Only(chosen) ==
  /\ part = chosen /\ UNCHANGED part
  /\ steps' = IF part \in Bounded THEN steps + 1 ELSE steps
  /\ steps' <= Limit

Next ==
  \/ Only("lists") /\ ListsNext
       /\ UNCHANGED <<elementValuesVars, scrollVars, panelsVars, dragVars, loadVars, heldVars, textBoxVars, listenersVars, im>>
  \/ Only("values") /\ ElementValuesNext
       /\ UNCHANGED <<listsVars, scrollVars, panelsVars, dragVars, loadVars, heldVars, textBoxVars, listenersVars, im>>
  \/ Only("scroll") /\ Scroll!Next
       /\ UNCHANGED <<listsVars, elementValuesVars, panelsVars, dragVars, loadVars, heldVars, textBoxVars, listenersVars, im>>
  \/ Only("tabs") /\ TabsNext
       /\ UNCHANGED <<listsVars, elementValuesVars, scrollVars, split, group, spin, dragVars, loadVars, heldVars, textBoxVars, listenersVars, im>>
  \/ Only("split") /\ SplitNext
       /\ UNCHANGED <<listsVars, elementValuesVars, scrollVars, tabs, group, spin, dragVars, loadVars, heldVars, textBoxVars, listenersVars, im>>
  \/ Only("group") /\ GroupNext
       /\ UNCHANGED <<listsVars, elementValuesVars, scrollVars, tabs, split, spin, dragVars, loadVars, heldVars, textBoxVars, listenersVars, im>>
  \/ Only("spin") /\ SpinNext
       /\ UNCHANGED <<listsVars, elementValuesVars, scrollVars, tabs, split, group, dragVars, loadVars, heldVars, textBoxVars, listenersVars, im>>
  \/ Only("form") /\ (Dragging!FormNext \/ Dragging!PointerNext)
       /\ UNCHANGED <<listsVars, elementValuesVars, scrollVars, panelsVars, bar, loadVars, heldVars, textBoxVars, listenersVars, im>>
  \/ Only("bar") /\ (Dragging!BarNext \/ Dragging!PointerNext)
       /\ UNCHANGED <<listsVars, elementValuesVars, scrollVars, panelsVars, form, loadVars, heldVars, textBoxVars, listenersVars, im>>
  \/ Only("inflation") /\ Inflating!InflationNext
       /\ UNCHANGED <<listsVars, elementValuesVars, scrollVars, panelsVars, dragVars, heldVars, textBoxVars, listenersVars, im>>
  \/ Only("variants") /\ Variants!ValueNext
       /\ UNCHANGED <<listsVars, elementValuesVars, scrollVars, panelsVars, dragVars, loadVars, textBoxVars, listenersVars, im>>
  \/ Only("text box") /\ TextBoxNext
       /\ UNCHANGED <<listsVars, elementValuesVars, scrollVars, panelsVars, dragVars, loadVars, heldVars, listenersVars, im>>
  \/ Only("listeners") /\ Calls
       /\ UNCHANGED <<listsVars, elementValuesVars, scrollVars, panelsVars, dragVars, loadVars, heldVars, textBoxVars, im>>
  \/ part = "listeners" /\ ListenersGoOn /\ UNCHANGED <<part, steps>>
       /\ UNCHANGED <<listsVars, elementValuesVars, scrollVars, panelsVars, dragVars, loadVars, heldVars, textBoxVars, im>>
  \/ Only("images") /\ ImagesNext
       /\ UNCHANGED <<listsVars, elementValuesVars, scrollVars, panelsVars, dragVars, loadVars, heldVars, textBoxVars, listenersVars>>

Spec == Init /\ [][Next]_vars

-----------------------------------------------------------------------------
(* Smooth scrolls asked for while others are under way add up, bars show for the content, and what is
   dragged stays under the pointer: panned content, through both containers, and forms, sliders and
   scroll bars, also when they change under it (Scrolling, Handles). *)
ScrollsFollow ==
  Scroll!ScrollsAddUp /\ Scroll!PanFollowsPointer /\ Scroll!BarsAgree /\ Dragging!HandlesFollow
(* Elements are what their resources say they are (Inflation). *)
InflatedAsWritten == part = "inflation" => Inflating!InflatedAsWritten
(* Values are what they were set to, and what they hold is freed once (Values). *)
ValuesOwned == part = "variants" => Variants!ValuesOwned
=============================================================================
