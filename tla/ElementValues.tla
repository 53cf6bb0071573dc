--------------------------- MODULE ElementValues ----------------------------
(***************************************************************************)
(* An ElementValue, the elements connected to it, and radio buttons and    *)
(* check boxes in groups (src/el/element_value.cc,                         *)
(* elements/parts/base_radio_check_box.cc, InvokeEvent in element.cc, the  *)
(* setters of slider.cc, scroll_bar.cc and spin_box.cc).                   *)
(*                                                                         *)
(* Setting an element invokes a kChanged event, that sets the value, that  *)
(* tells its listeners and sets the other elements, whose events are then  *)
(* kept from going around by m_syncing.  Handlers of the event and         *)
(* listeners may set, connect and disconnect in the middle of all this, so *)
(* the calls under way are a stack; what they ask for while an element is  *)
(* being synchronised is dropped.                                          *)
(***************************************************************************)
EXTENDS Lists

CONSTANTS Widget, no_element,
          Ranged,       \* sliders, scroll bars and spin boxes
          Limits,       \* their least and greatest value
          Group,        \* the radio and check boxes an element shares its group with, itself among
                        \* them, in document order; <<>> if it has no group
          Connectable,  \* the elements that may be connected: at most one of a group, as another
                        \* one could not show the same value
          NewValue,     \* values the program and the user set
          MaxCalls      \* bound: how often handlers and listeners call back

(* Assumed of the constants where they get their values *)
ValuesAssumption ==
  /\ no_element \notin Widget /\ Ranged \subseteq Widget
  /\ Limits \in [Ranged -> Int \X Int] /\ \A e \in Ranged : Limits[e][1] <= Limits[e][2]
  /\ Group \in [Widget -> Seq(Widget)] /\ \A e \in Ranged : Group[e] = <<>>
  /\ \A e \in Widget : Group[e] # <<>> => IsInjective(Group[e]) /\ e \in ToSet(Group[e])
  /\ \A e \in Widget : \A d \in ToSet(Group[e]) : Group[d] = Group[e]
  /\ Connectable \subseteq Widget /\ \A d, e \in Connectable : d \in ToSet(Group[e]) => d = e
  /\ NewValue \subseteq Int /\ MaxCalls \in Nat

VARIABLES shows,        \* m_value of each element
          value,        \* m_value and m_syncing of the ElementValue
          syncing,
          connections,  \* m_connections, as the elements connected
          stack,        \* the calls under way, the innermost last
          calls,
          missed,       \* elements whose last synchronisation, either way, was dropped, and that
                        \* did not show the value then
          unled         \* an assertion of UpdateGroupElements failed

elementValuesVars == <<shows, value, syncing, connections, stack, calls, missed, unled>>

-----------------------------------------------------------------------------
Clamp(e, v) == IF e \notin Ranged THEN v
               ELSE IF v < Limits[e][1] THEN Limits[e][1] ELSE IF v > Limits[e][2] THEN Limits[e][2] ELSE v

Call(op, el, at) == [op |-> op, el |-> el, at |-> at]
Innermost == Last(stack)
In(op) == stack # <<>> /\ Innermost.op = op
Outer == Front(stack)
Idle == stack = <<>>

(* set_value, set_double_value, SetValueInternal: a box of a group that is on
   then turns the others off. *)
SetElement(base, e, v) ==
  IF Clamp(e, v) = shows[e] THEN stack' = base /\ UNCHANGED shows
  ELSE LET led == IF v # 0 /\ Group[e] # <<>> THEN Append(base, Call("lead", e, no_element)) ELSE base
       IN  shows' = [shows EXCEPT ![e] = Clamp(e, v)] /\ stack' = Append(led, Call("changed", e, no_element))

(* A synchronisation is dropped while there is another one. *)
Missed(e) == IF shows[e] = Clamp(e, value) THEN missed \ {e} ELSE missed \cup {e}

SyncToElement(base, e) ==
  IF syncing THEN stack' = base /\ missed' = Missed(e) /\ UNCHANGED <<shows, syncing>>
  ELSE syncing' = TRUE /\ missed' = missed \ {e} /\ SetElement(Append(base, Call("synced", no_element, no_element)), e, value)

(* The elements that are to be set next move on when their connection goes. *)
Unlinked(e) ==
  [i \in DOMAIN stack |-> IF stack[i].op = "sync" /\ stack[i].at = e
                          THEN [stack[i] EXCEPT !.at = After(connections, e, no_element)] ELSE stack[i]]

-----------------------------------------------------------------------------
(* What the program does, at any time when it has control: outside of the
   library, in a handler, or in a listener *)

Control ==
  \/ Idle /\ UNCHANGED calls
  \/ /\ In("handle") \/ In("listen")
     /\ calls < MaxCalls /\ calls' = calls + 1

set_value(e, v) == Control /\ SetElement(stack, e, v) /\ UNCHANGED <<value, syncing, connections, missed, unled>>

set_integer(v) ==
  /\ Control
  /\ value' = v /\ stack' = Append(stack, Call("listen", no_element, no_element))
  /\ UNCHANGED <<shows, syncing, connections, missed, unled>>

(* Mutant: the element is not set at once *)
ConnectUnset(e) ==
  /\ Control /\ e \in Connectable
  /\ connections' = Append(Without(connections, {e}), e) /\ stack' = Unlinked(e)
  /\ UNCHANGED <<shows, value, syncing, missed, unled>>

Connect(e) ==
  /\ Control /\ e \in Connectable
  /\ connections' = Append(Without(connections, {e}), e)
  /\ SyncToElement(Unlinked(e), e)
  /\ UNCHANGED <<value, unled>>

Disconnect(e) ==
  /\ Control /\ e \in ToSet(connections)
  /\ connections' = Without(connections, {e}) /\ stack' = Unlinked(e) /\ missed' = missed \ {e}
  /\ UNCHANGED <<shows, value, syncing, unled>>

(* A click on a box: one of a group that is on stays on. *)
ClickBox(e) ==
  /\ Idle /\ e \notin Ranged /\ ~(Group[e] # <<>> /\ shows[e] # 0)
  /\ SetElement(stack, e, IF shows[e] = 0 THEN 1 ELSE 0)
  /\ UNCHANGED <<value, syncing, connections, calls, missed, unled>>

-----------------------------------------------------------------------------
(* kChanged: SetFromElement, and then the handlers *)

SyncFromElement ==
  /\ In("changed")
  /\ LET e == Innermost.el
         handle == Append(Outer, Call("handle", e, no_element))
     IN  IF e \in ToSet(connections) /\ ~syncing
         THEN value' = shows[e] /\ missed' = missed \ {e} /\ stack' = Append(handle, Call("listen", e, no_element))
         ELSE stack' = handle /\ missed' = (IF e \in ToSet(connections) THEN Missed(e) ELSE missed) /\ UNCHANGED value
  /\ UNCHANGED <<shows, syncing, connections, calls, unled>>

HandlersReturn ==
  In("handle") /\ stack' = Outer /\ UNCHANGED <<shows, value, syncing, connections, calls, missed, unled>>

(* SyncToElements: after the listeners the elements, but the one the value
   comes from *)
InvokeOnValueChanged ==
  /\ In("listen") /\ stack' = Append(Outer, Call("sync", Innermost.el, FirstOf(connections, no_element)))
  /\ UNCHANGED <<shows, value, syncing, connections, calls, missed, unled>>

SyncToElements ==
  /\ In("sync")
  /\ LET e == Innermost.at
         rest == Append(Outer, Call("sync", Innermost.el, After(connections, e, no_element)))
     IN  IF e = no_element THEN stack' = Outer /\ UNCHANGED <<shows, syncing, missed>>
         ELSE IF e = Innermost.el THEN stack' = rest /\ UNCHANGED <<shows, syncing, missed>>
         ELSE SyncToElement(rest, e)
  /\ UNCHANGED <<value, connections, calls, unled>>

Synced ==
  /\ In("synced") /\ syncing' = FALSE /\ stack' = Outer
  /\ UNCHANGED <<shows, value, connections, calls, missed, unled>>

-----------------------------------------------------------------------------
(* UpdateGroupElements: the leader must be on. *)

Lead ==
  /\ In("lead")
  /\ unled' = (unled \/ shows[Innermost.el] = 0)
  /\ stack' = Append(Outer, Call("group", Innermost.el, FirstOf(Group[Innermost.el], no_element)))
  /\ UNCHANGED <<shows, value, syncing, connections, calls, missed>>

UpdateGroupElements ==
  /\ In("group")
  /\ LET e == Innermost.at
         rest == Append(Outer, Call("group", Innermost.el, After(Group[Innermost.el], e, no_element)))
     IN  IF e = no_element THEN stack' = Outer /\ UNCHANGED shows
         ELSE IF e = Innermost.el THEN stack' = rest /\ UNCHANGED shows
         ELSE SetElement(rest, e, 0)
  /\ UNCHANGED <<value, syncing, connections, calls, missed, unled>>

-----------------------------------------------------------------------------
InitElementValues ==
  /\ shows = [e \in Widget |-> 0] /\ value = 0 /\ syncing = FALSE
  /\ connections = <<>> /\ stack = <<>> /\ calls = 0 /\ missed = {} /\ unled = FALSE

ElementValuesNext ==
  \/ \E e \in Widget, v \in NewValue : set_value(e, v)
  \/ \E v \in NewValue : set_integer(v)
  \/ \E e \in Widget : Connect(e) \/ Disconnect(e) \/ ClickBox(e)
  \/ SyncFromElement \/ HandlersReturn \/ InvokeOnValueChanged \/ SyncToElements \/ Synced
  \/ Lead \/ UpdateGroupElements

ElementValuesSpec == InitElementValues /\ [][ElementValuesNext]_elementValuesVars

-----------------------------------------------------------------------------
Connected == ToSet(connections)

(* When all calls have returned every connected element shows the value, as
   far as its limits allow, whatever listeners and handlers set, connected and
   disconnected meanwhile, but for those whose last synchronisation was dropped
   because another one was under way: all others are told by a later one
   (SetFromElement, SyncToElements, m_syncing). *)
ElementsAgree == Idle => \A e \in Connected \ missed : shows[e] = Clamp(e, value)

(* element_value.h:54-57 says of a value that it "will synchronize with elements
   when any of the connected elements change and triggers the EventType::kChanged
   event, and when the value is changed with any of the setters here." *)
InSync == Idle => \A e \in Connected : shows[e] = Clamp(e, value)

(* When all calls have returned at most one box of a group is on, though the
   events of the others call the program back in the middle of the update
   (base_radio_check_box.cc set_value, UpdateGroupElements). *)
AtMostOneOn ==
  Idle => \A e \in Widget : \A d \in ToSet(Group[e]) : shows[e] # 0 /\ shows[d] # 0 => d = e

(* Both, in one statement about the end of every call: an element that is
   connected, set and switched off by others of its group at once must come to
   rest on the value (element_value.cc, base_radio_check_box.cc). *)
ValuesAgree == ElementsAgree /\ AtMostOneOn

(* element_value.h:115 says of OnValueChanged: "Called when a value has changed
   and all elements connected to it has been updated." *)
ListenersToldLast == In("listen") /\ ~syncing => \A e \in Connected : shows[e] = Clamp(e, value)

(* base_radio_check_box.cc:24 asserts that the new leader of the group is on. *)
LeaderOn == ~unled
=============================================================================
