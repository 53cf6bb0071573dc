------------------------------ MODULE MCPopups ------------------------------
(***************************************************************************)
(* An instance for TLC: a field that holds a drop-down button with a       *)
(* tooltip text; the menu of the button, a sub menu of that menu's list, a *)
(* message form about the field, and a tooltip.                            *)
(***************************************************************************)
EXTENDS Popups, TLC
CONSTANTS field, button, menu, submenu, message, tip1, main, list, sublist, ok, text1

MCParent == (field :> NULL @@ button :> field @@ list :> menu @@ sublist :> submenu
             @@ ok :> message @@ text1 :> tip1)
MCTarget == (menu :> button @@ submenu :> list @@ message :> field)
MCContents == (menu :> list @@ submenu :> sublist @@ message :> ok @@ tip1 :> text1)
MCFields == (main :> <<field, button>> @@ message :> <<ok>> @@ menu :> <<>> @@ submenu :> <<>> @@ tip1 :> <<>>)
=============================================================================
