-------------------------- MODULE ElementListeners --------------------------
(***************************************************************************)
(* Who hears what of an element: its listeners and the global ones, weak   *)
(* pointers, which are listeners, and event handlers with the functions    *)
(* they call (src/el/element_listener.cc, event_handler.cc, and element.cc *)
(* where it dies, is deleted and is sent events).                          *)
(*                                                                         *)
(* Notifications and events under way are a stack: whoever is called may   *)
(* add and remove listeners and handlers, let go of weak pointers, send    *)
(* events, and let elements die or delete them, also the one it is called  *)
(* for.                                                                    *)
(***************************************************************************)
EXTENDS Lists

CONSTANTS Element, nullptr,
          Parent,          \* the parent of each element, or nullptr
          Id,              \* the id of each element
          Weak,            \* weak pointers of the program
          Listener,        \* listeners of the program, local or global
          Handler,         \* event handlers
          Event,
          MaxFunctions,    \* bound: functions of a handler
          MaxNesting       \* bound: what the program starts in a callback

ASSUME ListenersAssumption ==
  /\ nullptr \notin Element \cup Weak \cup Listener \cup Handler
  /\ Weak \cap Listener = {} /\ Weak \cap Handler = {} /\ Listener \cap Handler = {}
  /\ Parent \in [Element -> Element \cup {nullptr}]
  /\ MaxFunctions \in Nat /\ MaxNesting \in Nat

VARIABLES life,             \* "none", "alive", "dying" or, in its destructor, "deleting"
          m_listeners,      \* of each element
          g_listeners,
          m_element,        \* of each weak pointer, also that of a handler, its scope_element_
          event_handlers_,  \* of each element
          handlers,         \* the handlers that exist
          functions,        \* listeners_ of each handler
          notifying         \* the calls under way

linked == <<m_listeners, m_element, event_handlers_, handlers, functions>>
listenersVars == <<life, linked, g_listeners, notifying>>

Pointer == Weak \cup Handler
Local == Pointer \cup Listener
Exists(e) == e # nullptr /\ life[e] # "none"

-----------------------------------------------------------------------------
(* The calls under way.  ElementListener::Invoke...: both iterators are taken first. *)

Invoke(call, e, event) ==
  [call |-> call, element |-> e, event |-> event, handled |-> FALSE, in |-> nullptr,
   local |-> FirstOf(m_listeners[e], nullptr), global |-> FirstOf(g_listeners, nullptr),
   locals |-> ToSet(m_listeners[e]), globals |-> ToSet(g_listeners)]   \* those still to be told

(* EventHandler::Listener::Matches, for an event sent to target *)
Matches(function, event, target) ==
  /\ function.event = event
  /\ \/ function.filter = "kAll"
     \/ function.filter = "kTargetElement" /\ function.of = target
     \/ function.filter = "kTargetElementId" /\ function.of = Id[target]

Matching(h, event, target) == {i \in DOMAIN functions[h] : Matches(functions[h][i], event, target)}

(* Element::OnEvent of e *)
OnEvent(e, event, target) ==
  [call |-> "OnEvent", element |-> e, event |-> event, target |-> target, in |-> nullptr, at |-> 0,
   handler |-> FirstOf(event_handlers_[e], nullptr),
   owed |-> UNION {{<<h, i>> : i \in Matching(h, event, target)} : h \in ToSet(event_handlers_[e])}]

Function ==
  [event : Event, filter : {"kAll", "kTargetElement", "kTargetElementId"},
   of : Element \cup {nullptr} \cup {Id[e] : e \in Element}]

TellingFrame ==
  [call : {"Notify", "InvokeEvent", "Dying", "Delete"}, element : Element \cup {nullptr},
   event : Event \cup {nullptr}, handled : BOOLEAN, in : Listener \cup {nullptr},
   local : Local \cup {nullptr}, global : Listener \cup {nullptr},
   locals : SUBSET Local, globals : SUBSET Listener]

AskingFrame ==
  [call : {"OnEvent"}, element : Element \cup {nullptr}, event : Event \cup {nullptr},
   target : Element \cup {nullptr}, in : Handler \cup {nullptr}, at : Nat,
   handler : Handler \cup {nullptr}, owed : SUBSET (Handler \X Nat)]

Frame == TellingFrame \cup AskingFrame

Top == notifying[Len(notifying)]
Below == SubSeq(notifying, 1, Len(notifying) - 1)
Under(frame) == Append(Below, frame)
Telling == notifying # <<>> /\ Top.call # "OnEvent"
Asking == notifying # <<>> /\ Top.call = "OnEvent"

(* The program runs, in a callback or of itself. *)
Runs == ~(notifying # <<>> /\ Top.in = nullptr)
Starts == Runs /\ Len(notifying) < MaxNesting

-----------------------------------------------------------------------------
(* Lists change under the calls that walk them. *)

(* Safe iterators step past what is removed. *)
LocalsLeft(frame, e, gone) ==
  IF frame.call = "OnEvent" \/ frame.element # e THEN frame
  ELSE [frame EXCEPT !.locals = @ \ gone,
                     !.local = IF @ = nullptr THEN nullptr ELSE Stepped(m_listeners[e], @, gone, nullptr)]

GlobalsLeft(frame, gone) ==
  IF frame.call = "OnEvent" THEN frame
  ELSE [frame EXCEPT !.globals = @ \ gone,
                     !.global = IF @ = nullptr THEN nullptr ELSE Stepped(g_listeners, @, gone, nullptr)]

HandlersLeft(frame, e, gone) ==
  IF frame.call # "OnEvent" \/ frame.element # e THEN frame
  ELSE [frame EXCEPT !.owed = {o \in @ : o[1] \notin gone},
                     !.handler = IF @ = nullptr THEN nullptr ELSE Stepped(event_handlers_[e], @, gone, nullptr)]

(* Element::RemoveListener, RemoveEventHandler *)
RemoveLocal(frames, e, gone) ==
  /\ m_listeners' = [m_listeners EXCEPT ![e] = Without(@, gone)]
  /\ notifying' = [i \in DOMAIN frames |-> LocalsLeft(frames[i], e, gone)]

(* Mutant: the pointer stays in the list *)
ReleaseKept(p, frames) ==
  /\ m_element' = [m_element EXCEPT ![p] = nullptr]
  /\ notifying' = frames /\ UNCHANGED m_listeners

(* WeakElementPointer::reset to nullptr, in the course of frames *)
Release(p, frames) ==
  /\ m_element' = [m_element EXCEPT ![p] = nullptr]
  /\ IF m_element[p] = nullptr THEN notifying' = frames /\ UNCHANGED m_listeners
     ELSE RemoveLocal(frames, m_element[p], {p})

-----------------------------------------------------------------------------
(* Calls of the program *)

Unheard(l) == \A e \in Element : l \notin ToSet(m_listeners[e])

(* "It should be removed again with RemoveListener before the element is
   deleted" (element.h 617): none is added in the destructor. *)
AddListener(e, l) ==
  /\ Runs /\ life[e] \in {"alive", "dying"} /\ Unheard(l)
  /\ m_listeners' = [m_listeners EXCEPT ![e] = Append(@, l)]
  /\ UNCHANGED <<life, g_listeners, m_element, event_handlers_, handlers, functions, notifying>>

RemoveListener(e, l) ==
  /\ Runs /\ l \in ToSet(m_listeners[e])
  /\ RemoveLocal(notifying, e, {l})
  /\ UNCHANGED <<life, g_listeners, m_element, event_handlers_, handlers, functions>>

AddGlobalListener(l) ==
  /\ Runs /\ l \notin ToSet(g_listeners)
  /\ g_listeners' = Append(g_listeners, l)
  /\ UNCHANGED <<life, linked, notifying>>

RemoveGlobalListener(l) ==
  /\ Runs /\ l \in ToSet(g_listeners)
  /\ g_listeners' = Without(g_listeners, {l})
  /\ notifying' = [i \in DOMAIN notifying |-> GlobalsLeft(notifying[i], {l})]
  /\ UNCHANGED <<life, linked>>

(* WeakElementPointer::reset to e: off the list of the old element, and on that
   of e *)
ResetTo(w, e) ==
  /\ Runs /\ life[e] \in {"alive", "dying"} /\ m_element[w] # e
  /\ m_element' = [m_element EXCEPT ![w] = e]
  /\ LET old == m_element[w] IN
       IF old = nullptr
       THEN /\ m_listeners' = [m_listeners EXCEPT ![e] = Append(@, w)]
            /\ UNCHANGED notifying
       ELSE /\ m_listeners' = [m_listeners EXCEPT ![old] = Without(@, {w}), ![e] = Append(@, w)]
            /\ notifying' = [i \in DOMAIN notifying |-> LocalsLeft(notifying[i], old, {w})]
  /\ UNCHANGED <<life, g_listeners, event_handlers_, handlers, functions>>

ResetToNull(w) ==
  /\ Runs /\ m_element[w] # nullptr
  /\ Release(w, notifying)
  /\ UNCHANGED <<life, g_listeners, event_handlers_, handlers, functions>>

NewHandler(h, e) ==
  /\ Runs /\ h \notin handlers /\ life[e] \in {"alive", "dying"}
  /\ handlers' = handlers \cup {h}
  /\ m_element' = [m_element EXCEPT ![h] = e]
  /\ m_listeners' = [m_listeners EXCEPT ![e] = Append(@, h)]
  /\ event_handlers_' = [event_handlers_ EXCEPT ![e] = Append(@, h)]
  /\ functions' = [functions EXCEPT ![h] = <<>>]
  /\ UNCHANGED <<life, g_listeners, notifying>>

(* ~EventHandler, of one that calls none of its functions, and not between the
   notification that its element is deleted and the end of the element: its
   scope is nullptr by then, and it would be left in the list. *)
DeleteHandler(h) ==
  /\ Runs /\ h \in handlers
  /\ \A i \in DOMAIN notifying : notifying[i].in # h
  /\ \A e \in Element : h \in ToSet(event_handlers_[e]) => m_element[h] = e
  /\ handlers' = handlers \ {h}
  /\ LET e == m_element[h] IN
       IF e = nullptr THEN UNCHANGED <<event_handlers_, m_element, m_listeners, notifying>>
       ELSE /\ event_handlers_' = [event_handlers_ EXCEPT ![e] = Without(@, {h})]
            /\ Release(h, [i \in DOMAIN notifying |-> HandlersLeft(notifying[i], e, {h})])
  /\ UNCHANGED <<life, g_listeners, functions>>

Listen(h, event, filter, of) ==
  /\ Runs /\ h \in handlers /\ Len(functions[h]) < MaxFunctions
  /\ functions' = [functions EXCEPT ![h] = Append(@, [event |-> event, filter |-> filter, of |-> of])]
  /\ UNCHANGED <<life, g_listeners, m_listeners, m_element, event_handlers_, handlers, notifying>>

(* InvokeElementAdded, InvokeElementRemove, InvokeElementFocusChanged *)
Notify(e) ==
  /\ Starts /\ Exists(e)
  /\ notifying' = Append(notifying, Invoke("Notify", e, nullptr))
  /\ UNCHANGED <<life, linked, g_listeners>>

InvokeEvent(e, event) ==
  /\ Starts /\ life[e] \in {"alive", "dying"}
  /\ notifying' = Append(notifying, Invoke("InvokeEvent", e, event))
  /\ UNCHANGED <<life, linked, g_listeners>>

Die(e) ==
  /\ Starts /\ life[e] = "alive"
  /\ life' = [life EXCEPT ![e] = "dying"]
  /\ notifying' = Append(notifying, Invoke("Dying", e, nullptr))
  /\ UNCHANGED <<linked, g_listeners>>

(* ~Element, once it is out of its parent *)
DeleteOver(frames, e) ==
  /\ life' = [life EXCEPT ![e] = "deleting"]
  /\ notifying' = Append(frames, Invoke("Delete", e, nullptr))
  /\ UNCHANGED <<linked, g_listeners>>

Delete(e) == Starts /\ life[e] \in {"alive", "dying"} /\ DeleteOver(notifying, e)

Create(e) ==
  /\ Runs /\ life[e] = "none" /\ (Parent[e] # nullptr => life[Parent[e]] \in {"alive", "dying"})
  /\ life' = [life EXCEPT ![e] = "alive"]
  /\ UNCHANGED <<linked, g_listeners, notifying>>

-----------------------------------------------------------------------------
(* A notification goes on: first the local listeners, then the global ones. *)

(* WeakElementPointer::OnElementDelete *)
TellPointer(p, told) ==
  IF Top.call = "Delete" /\ m_element[p] = Top.element THEN Release(p, told)
  ELSE notifying' = told /\ UNCHANGED <<m_listeners, m_element>>

TellLocal ==
  /\ Telling /\ Top.in = nullptr
  /\ \E l \in Local :
       /\ l = Top.local
       /\ LET next == [Top EXCEPT !.local = After(m_listeners[Top.element], l, nullptr), !.locals = @ \ {l}]
          IN  \/ l \in Pointer /\ TellPointer(l, Under(next))
              \/ /\ l \in Listener
                 /\ notifying' = Under([next EXCEPT !.in = l])
                 /\ UNCHANGED <<m_listeners, m_element>>
  /\ UNCHANGED <<life, g_listeners, event_handlers_, handlers, functions>>

TellGlobal ==
  /\ Telling /\ Top.in = nullptr /\ Top.local = nullptr
  /\ \E l \in Listener :
       /\ l = Top.global
       /\ notifying' = Under([Top EXCEPT !.global = After(g_listeners, l, nullptr), !.globals = @ \ {l}, !.in = l])
  /\ UNCHANGED <<life, linked, g_listeners>>

(* A listener returns.  By then one of the element that is deleted has removed
   itself, and one that deleted the element that dies says so. *)
Return(handled) ==
  /\ Telling /\ Top.in # nullptr
  /\ Top.call = "Delete" => Top.in \notin ToSet(m_listeners[Top.element])
  /\ Top.call = "Dying" /\ Top.element = nullptr => handled
  /\ notifying' = Under([Top EXCEPT !.in = nullptr, !.handled = @ \/ handled])
  /\ UNCHANGED <<life, linked, g_listeners>>

Told == Telling /\ Top.in = nullptr /\ Top.local = nullptr /\ Top.global = nullptr

Notified ==
  /\ Told /\ Top.call = "Notify"
  /\ notifying' = Below
  /\ UNCHANGED <<life, linked, g_listeners>>

(* Element::Die from line 315 *)
Died ==
  /\ Told /\ Top.call = "Dying"
  /\ \/ ~Top.handled /\ DeleteOver(Below, Top.element)
     \/ Top.handled /\ notifying' = Below /\ UNCHANGED <<life, linked, g_listeners>>

(* Element::InvokeEvent from line 1458: nobody blocked the event, and the
   element is still there. *)
Invoked ==
  /\ Told /\ Top.call = "InvokeEvent"
  /\ notifying' = IF Top.handled \/ Top.element = nullptr THEN Below
                  ELSE Under(OnEvent(Top.element, Top.event, Top.element))
  /\ UNCHANGED <<life, linked, g_listeners>>

(* What a call under way has left of a deleted element: iterators of its lists
   are cleared, and weak pointers to it. *)
Forget(frame, e) ==
  LET frame1 == IF frame.element # e THEN frame
                ELSE IF frame.call = "OnEvent" THEN [frame EXCEPT !.element = nullptr, !.handler = nullptr, !.owed = {}]
                ELSE [frame EXCEPT !.element = nullptr, !.local = nullptr, !.locals = {}]
  IN  IF frame.call = "OnEvent" /\ frame.target = e THEN [frame1 EXCEPT !.target = nullptr] ELSE frame1

(* The rest of ~Element: the children are deleted, and then the lists. *)
Deleted ==
  /\ Told /\ Top.call = "Delete"
  /\ \/ \E c \in Element :
          /\ Parent[c] = Top.element /\ life[c] \in {"alive", "dying"}
          /\ DeleteOver(notifying, c)
     \/ /\ \A c \in Element : Parent[c] = Top.element => life[c] \notin {"alive", "dying"}
        /\ life' = [life EXCEPT ![Top.element] = "none"]
        /\ event_handlers_' = [event_handlers_ EXCEPT ![Top.element] = <<>>]
        /\ notifying' = [i \in DOMAIN Below |-> Forget(Below[i], Top.element)]
        /\ UNCHANGED <<m_listeners, m_element, handlers, functions, g_listeners>>

-----------------------------------------------------------------------------
(* An event goes on: EventHandler::OnEvent of each handler, in order. *)

(* The function of h after the one at n that is called next, or 0 *)
NextMatch(h, n) ==
  LET ahead == {i \in Matching(h, Top.event, Top.target) : i > n}
  IN  IF ahead = {} THEN 0 ELSE CHOOSE i \in ahead : \A j \in ahead : i <= j

(* h goes on to its function at n; with none left the handler is done. *)
Ask(frame, h, n) ==
  notifying' = Under([frame EXCEPT !.in = IF n = 0 THEN nullptr ELSE h, !.at = n, !.owed = @ \ {<<h, n>>}])

AskHandler ==
  /\ Asking /\ Top.in = nullptr
  /\ \E h \in Handler :
       /\ h = Top.handler
       /\ Ask([Top EXCEPT !.handler = After(event_handlers_[Top.element], h, nullptr)], h, NextMatch(h, 0))
  /\ UNCHANGED <<life, linked, g_listeners>>

(* A function returns; if it deleted the target of the event or the element it
   was sent to, it says that the event is handled. *)
Unhandled ==
  /\ Asking /\ Top.in # nullptr /\ Top.element # nullptr /\ Top.target # nullptr
  /\ Ask(Top, Top.in, NextMatch(Top.in, Top.at))
  /\ UNCHANGED <<life, linked, g_listeners>>

Handled ==
  /\ Asking /\ Top.in # nullptr
  /\ notifying' = Below
  /\ UNCHANGED <<life, linked, g_listeners>>

Asked == Asking /\ Top.in = nullptr /\ Top.handler = nullptr

(* The parent; an element in its destructor has none any more. *)
EventDestination(e) == IF life[e] = "deleting" THEN nullptr ELSE Parent[e]

(* No handler of the element took the event. *)
Propagate ==
  /\ Asked
  /\ notifying' = IF EventDestination(Top.element) = nullptr THEN Below
                  ELSE Under(OnEvent(EventDestination(Top.element), Top.event, Top.target))
  /\ UNCHANGED <<life, linked, g_listeners>>

-----------------------------------------------------------------------------
InitListeners ==
  /\ life = [e \in Element |-> "alive"]
  /\ m_listeners = [e \in Element |-> <<>>]
  /\ g_listeners = <<>>
  /\ m_element = [p \in Pointer |-> nullptr]
  /\ event_handlers_ = [e \in Element |-> <<>>]
  /\ handlers = {}
  /\ functions = [h \in Handler |-> <<>>]
  /\ notifying = <<>>

Calls ==
  \/ \E l \in Listener : AddGlobalListener(l) \/ RemoveGlobalListener(l)
  \/ \E e \in Element :
       \/ \E l \in Listener : AddListener(e, l) \/ RemoveListener(e, l)
       \/ \E w \in Weak : ResetTo(w, e)
       \/ \E h \in Handler : NewHandler(h, e)
       \/ \E event \in Event : InvokeEvent(e, event)
       \/ Notify(e) \/ Die(e) \/ Delete(e) \/ Create(e)
  \/ \E w \in Weak : ResetToNull(w)
  \/ \E h \in Handler :
       \/ DeleteHandler(h)
       \/ \E event \in Event :
            \/ Listen(h, event, "kAll", nullptr)
            \/ \E e \in Element : Listen(h, event, "kTargetElement", e) \/ Listen(h, event, "kTargetElementId", Id[e])

ListenersGoOn ==
  \/ TellLocal \/ TellGlobal \/ Return(TRUE) \/ Return(FALSE)
  \/ Notified \/ Died \/ Invoked \/ Deleted
  \/ AskHandler \/ Unhandled \/ Handled \/ Propagate

ListenersNext == Calls \/ ListenersGoOn

ListenersSpec == InitListeners /\ [][ListenersNext]_listenersVars

-----------------------------------------------------------------------------
(* Properties *)

(* Every variable has its type, and nothing is in a list twice. *)
ListenersTypeOK ==
  /\ life \in [Element -> {"none", "alive", "dying", "deleting"}]
  /\ m_listeners \in [Element -> Seq(Local)] /\ g_listeners \in Seq(Listener)
  /\ m_element \in [Pointer -> Element \cup {nullptr}]
  /\ event_handlers_ \in [Element -> Seq(Handler)] /\ handlers \subseteq Handler
  /\ functions \in [Handler -> Seq(Function)]
  /\ notifying \in Seq(Frame)
  /\ IsInjective(g_listeners)
  /\ \A e \in Element : IsInjective(m_listeners[e]) /\ IsInjective(event_handlers_[e])

(* A weak pointer points to an element that exists, whose listener it is. *)
PointersListed ==
  \A p \in Pointer, e \in Element : p \in ToSet(m_listeners[e]) <=> m_element[p] = e

(* An element that is deleted leaves no listener (the assertion at element.cc
   97), and no weak pointer. *)
NoneLeft == \A e \in Element : life[e] = "none" => m_listeners[e] = <<>> /\ event_handlers_[e] = <<>>

(* The handlers of an element exist, and those whose scope it is are among
   them. *)
HandlersListed ==
  \A h \in Handler, e \in Element :
    /\ m_element[h] = e => h \in ToSet(event_handlers_[e])
    /\ h \in ToSet(event_handlers_[e]) => h \in handlers /\ (m_element[h] = e \/ life[e] = "deleting")

(* Whoever was there when a notification or an event began and was not removed
   has heard of it when it ends. *)
AllTold ==
  /\ Told => Top.locals = {} /\ Top.globals = {}
  /\ Asked => Top.owed = {}

ListenersAgree == ListenersTypeOK /\ PointersListed /\ NoneLeft /\ HandlersListed /\ AllTold
=============================================================================
