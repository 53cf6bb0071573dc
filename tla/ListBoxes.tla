----------------------------- MODULE ListBoxes ------------------------------
(***************************************************************************)
(* Lists of items and what shows them: a source of items, the list boxes   *)
(* that observe it, and a drop-down button with its menu                   *)
(* (src/el/list_item.h, list_item.cc, elements/list_box.cc,                *)
(* elements/drop_down_button.cc, elements/menu_form.cc).                   *)
(*                                                                         *)
(* A list box shows one element for each item that passes its filter, and  *)
(* makes them anew in the next OnProcess after the list became invalid.    *)
(* Until then the program and the user still see the elements of before.   *)
(* Indices count from 1 here, and 0 is the code's -1: no item, or the      *)
(* header of a filtered list.                                              *)
(***************************************************************************)
EXTENDS Lists

CONSTANTS Box,          \* the list boxes
          Menu,         \* the one of them in the menu of the drop-down button
          Text,         \* strings of items, as numbers in the order of strcmp
          Separators,   \* strings that begin with '-'
          Passing,      \* strings that hold the text of the filter
          Nodes,        \* the children of "items" in the resource file: [name, text]
          MaxItems      \* bound: the items in the source

ASSUME ListBoxesAssumption ==
  /\ Menu \in Box /\ Text \subseteq Nat
  /\ Separators \subseteq Text /\ Passing \subseteq Text
  /\ Nodes \in Seq([name : STRING, text : Text])
  /\ MaxItems \in Nat

VARIABLES items,   \* the strings of the source's items
          sort,    \* its m_sort
          box,     \* of each list box: [source: BOOLEAN, shown: its elements,
                   \*  value, filter: BOOLEAN, invalid, scroll: m_scroll_to_current,
                   \*  view: the index it scrolled to, 0 the top]
          button   \* the drop-down button: [value: m_value, text: what it shows, 0 nothing]

listsVars == <<items, sort, box, button>>

-----------------------------------------------------------------------------
(* Elements *)

(* CreateItemElement: a separator is disabled. *)
CreateItemElement(source, i) ==
  [index |-> i, text |-> source[i], selected |-> FALSE, disabled |-> source[i] \in Separators]
Header == [index |-> 0, text |-> 0, selected |-> FALSE, disabled |-> TRUE]

(* The place of the element of item i, 0 if it has none *)
GetItemElement(b, i) ==
  LET found == {k \in DOMAIN b.shown : b.shown[k].index = i}
  IN  IF i = 0 \/ found = {} THEN 0 ELSE Min(found)

ListItem(b, i, selected) ==
  LET k == GetItemElement(b, i)
  IN  IF k = 0 THEN b ELSE [b EXCEPT !.shown[k].selected = selected]

ScrollToSelectedItem(b) ==
  IF b.invalid THEN [b EXCEPT !.scroll = TRUE]
  ELSE [b EXCEPT !.scroll = FALSE]

InvalidateList(b) == [b EXCEPT !.invalid = TRUE]

(* ListBox::set_value *)
BoxValue(b, v) ==
  IF v = b.value THEN b
  ELSE ScrollToSelectedItem(ListItem([ListItem(b, b.value, FALSE) EXCEPT !.value = v], v, TRUE))

(* ListItemSource::Filter *)
Filter(text) == text \in Passing

(* The orders std::sort may leave the items in that pass the filter *)
Sorted(source, order, filter) ==
  LET passing == {i \in DOMAIN source : filter => Filter(source[i])}
      before(i, j) == CASE order = "ascending" -> source[i] < source[j]
                        [] order = "descending" -> source[i] > source[j]
                        [] OTHER -> i < j
  IN  {p \in SetToSeqs(passing) : \A j \in DOMAIN p : \A i \in 1 .. j - 1 : ~before(p[j], p[i])}

(* ValidateList, with the items in the order p *)
ValidateList(b, p) ==
  IF ~b.invalid THEN b
  ELSE LET empty == [b EXCEPT !.invalid = FALSE, !.shown = <<>>]
           elements == (IF b.filter THEN <<Header>> ELSE <<>>)
                       \o [k \in DOMAIN p |-> CreateItemElement(items, p[k])]
       IN  IF ~b.source \/ items = <<>> THEN empty
           ELSE [ListItem([empty EXCEPT !.shown = elements], b.value, TRUE) EXCEPT !.scroll = TRUE]

-----------------------------------------------------------------------------
(* Observers are told of every change of the source. *)

(* The boxes with what they do when they are told, if they watch the source
   (InvokeItemAdded, InvokeItemRemoved, InvokeAllItemsRemoved) *)
Tell(told) == box' = [x \in Box |-> IF box[x].source THEN told[x] ELSE box[x]]

(* A new element takes the place and the state of the old one. *)
OnItemChanged(b, i, source) ==
  LET k == GetItemElement(b, i)
  IN  IF b.invalid \/ k = 0 THEN b
      ELSE [b EXCEPT !.shown[k] = [CreateItemElement(source, i) EXCEPT
                                     !.selected = b.shown[k].selected, !.disabled = b.shown[k].disabled]]

OnItemAdded(b) == InvalidateList(b)

(* Mutant: the element of the item is removed, and the others keep their index *)
OnItemRemovedOne(b, i) ==
  IF b.invalid THEN b ELSE [b EXCEPT !.shown = SelectSeq(@, LAMBDA e : e.index # i)]

OnItemRemoved(b, i) == InvalidateList(b)
OnAllItemsRemoved(b) == [InvalidateList(b) EXCEPT !.value = 0]

PushBack(t) ==
  /\ Len(items) < MaxItems
  /\ items' = Append(items, t) /\ Tell([x \in Box |-> OnItemAdded(box[x])])
  /\ UNCHANGED <<sort, button>>

Erase(i) ==
  /\ items' = RemoveAt(items, i) /\ Tell([x \in Box |-> OnItemRemoved(box[x], i)])
  /\ UNCHANGED <<sort, button>>

Clear ==
  /\ items # <<>>
  /\ items' = <<>> /\ Tell([x \in Box |-> OnAllItemsRemoved(box[x])])
  /\ UNCHANGED <<sort, button>>

(* The program changes an item and tells the observers but the one, if any,
   whose own element made the change, and shows it already. *)
InvokeItemChanged(i, t, exclude) ==
  /\ t # items[i]
  /\ exclude \subseteq {x \in Box : GetItemElement(box[x], i) # 0 /\ ~box[x].invalid}
  /\ items' = [items EXCEPT ![i] = t]
  /\ box' = [x \in Box |->
       IF x \in exclude
       THEN [box[x] EXCEPT !.shown[GetItemElement(box[x], i)].text = t]
       ELSE IF box[x].source THEN OnItemChanged(box[x], i, items') ELSE box[x]]
  /\ UNCHANGED <<sort, button>>

(* set_sort tells no one. *)
SetSort(order) == sort' = order /\ UNCHANGED <<items, box, button>>

-----------------------------------------------------------------------------
(* A list box *)

Sets(x, b) == box' = [box EXCEPT ![x] = b] /\ UNCHANGED <<items, sort>>

SetFilter(x, on) ==
  Sets(x, IF box[x].filter = on THEN box[x] ELSE InvalidateList([box[x] EXCEPT !.filter = on])) /\ UNCHANGED button
SetSource(x, on) ==
  Sets(x, IF box[x].source = on THEN box[x] ELSE InvalidateList([box[x] EXCEPT !.source = on])) /\ UNCHANGED button
SetValue(x, v) == Sets(x, BoxValue(box[x], v)) /\ UNCHANGED button

OnProcess(x) ==
  /\ \E p \in Sorted(items, sort, box[x].filter) : Sets(x, ValidateList(box[x], p))
  /\ UNCHANGED button

OnProcessAfterChildren(x) == box[x].scroll /\ Sets(x, ScrollToSelectedItem(box[x])) /\ UNCHANGED button

(* Home, End, and down and up from the current element *)
ChangeValue(b, key) ==
  LET current == GetItemElement(b, b.value)
      n == Len(b.shown)
      forward == key \in {"home", "down"}
      from == IF key \in {"home", "end"} \/ current = 0 THEN (IF forward THEN 1 ELSE n) ELSE current
      found == {k \in 1 .. n : /\ IF forward THEN k >= from ELSE k <= from
                               /\ from = current /\ key \in {"down", "up"} => k # current
                               /\ ~b.shown[k].disabled}
  IN  IF found = {} THEN b
      ELSE BoxValue(b, b.shown[IF forward THEN Min(found) ELSE Max(found)].index)

KeyDown(x, key) == box[x].source /\ Sets(x, ChangeValue(box[x], key)) /\ UNCHANGED button

-----------------------------------------------------------------------------
(* The drop-down button and its menu *)

ButtonValue(v) ==
  IF v = button.value THEN button
  ELSE [value |-> v, text |-> IF v = 0 THEN 0 ELSE IF v <= Len(items) THEN items[v] ELSE button.text]

(* A click on an enabled item sets the value; the click the list box then
   invokes reaches the button, if the list is in its menu, and closes it. *)
Click(x, k) ==
  LET b == BoxValue(box[x], box[x].shown[k].index)
  IN  /\ ~box[x].shown[k].disabled
      /\ IF x = Menu THEN Sets(x, InvalidateList([b EXCEPT !.source = FALSE])) /\ button' = ButtonValue(b.value)
         ELSE Sets(x, b) /\ UNCHANGED button

(* OpenForm (which Popups has the windows of) makes a new menu and shows it. *)
OpenMenu ==
  /\ ~box[Menu].source /\ items # <<>>
  /\ \E p \in Sorted(items, sort, FALSE) :
       Sets(Menu, ValidateList([source |-> TRUE, shown |-> <<>>, value |-> button.value, filter |-> FALSE,
                                invalid |-> TRUE, scroll |-> button.value # 0], p))
  /\ UNCHANGED button

(* set_source: the first item is chosen. *)
OnSourceChanged ==
  /\ button' = IF items = <<>> THEN [button EXCEPT !.value = 0] ELSE [value |-> 1, text |-> items[1]]
  /\ UNCHANGED <<items, sort, box>>

-----------------------------------------------------------------------------
(* The items of a button in the resource file, in their order; other nodes are
   passed over. *)
ReadItemNodes ==
  LET read[i \in 0 .. Len(Nodes)] ==
        IF i = 0 THEN <<>> ELSE IF Nodes[i].name = "item" THEN Append(read[i - 1], Nodes[i].text) ELSE read[i - 1]
  IN  read[Len(Nodes)]

InitLists ==
  /\ items = ReadItemNodes /\ sort = "none"
  /\ box = [x \in Box |-> [source |-> x # Menu, shown |-> <<>>, value |-> 0, filter |-> FALSE,
                           invalid |-> x # Menu, scroll |-> FALSE]]
  /\ button = [value |-> 0, text |-> 0]

ListsNext ==
  \/ \E t \in Text : PushBack(t)
  \/ \E i \in DOMAIN items : Erase(i)
  \/ Clear
  \/ \E i \in DOMAIN items, t \in Text, exclude \in {{}} \cup {{x} : x \in Box} : InvokeItemChanged(i, t, exclude)
  \/ \E order \in {"none", "ascending", "descending"} : SetSort(order)
  \/ \E x \in Box \ {Menu}, on \in BOOLEAN : SetFilter(x, on) \/ SetSource(x, on)
  \/ \E x \in Box \ {Menu}, v \in 0 .. Len(items) : SetValue(x, v)
  \/ \E x \in Box : OnProcess(x) \/ OnProcessAfterChildren(x)
  \/ \E x \in Box, key \in {"home", "end", "up", "down"} : KeyDown(x, key)
  \/ \E x \in Box : \E k \in DOMAIN box[x].shown : Click(x, k)
  \/ OpenMenu \/ OnSourceChanged

ListsSpec == InitLists /\ [][ListsNext]_listsVars

-----------------------------------------------------------------------------
(* A valid list shows items that exist, each once and as it is now, and all of
   them if it has no filter, whatever came and went, and in whichever order the
   observers were told: the elements find their items by index only
   (list_box.cc OnItemChanged, OnItemRemoved, ValidateList). *)
ItemsShown ==
  \A x \in {y \in Box : ~box[y].invalid /\ box[y].source} :
    LET b == box[x]
        Of(k) == b.shown[k].index
        shown == {k \in DOMAIN b.shown : Of(k) # 0}
    IN  /\ \A k \in shown : Of(k) \in DOMAIN items /\ b.shown[k].text = items[Of(k)]
        /\ \A j, k \in shown : Of(j) = Of(k) => j = k
        /\ ~b.filter => {Of(k) : k \in shown} = DOMAIN items

(* In a valid list the element of m_value is the selected one, and the only
   one, though values are set while other elements are shown, and elements are
   replaced under the selection (list_box.cc set_value, OnItemChanged). *)
SelectionAgrees ==
  \A x \in {y \in Box : ~box[y].invalid} : \A k \in DOMAIN box[x].shown :
    box[x].shown[k].selected = (box[x].shown[k].index # 0 /\ box[x].shown[k].index = box[x].value)

(* The list boxes show the items of their source, and what is selected in them
   is what their value says. *)
ListsAgree == ItemsShown /\ SelectionAgrees
=============================================================================
