--------------------------- MODULE MessageHandler ---------------------------
(***************************************************************************)
(* Message posting and delivery (src/el/message_handler.cc) together       *)
(* with the platform timer that calls ProcessMessages.  Everything runs on *)
(* one thread; the interleavings are those of callbacks: while a message   *)
(* is delivered its handler may post and delete messages, and create and   *)
(* destroy handlers, itself included, and the clock goes on.               *)
(*                                                                         *)
(* The intrusive lists are sequences (Lists), and the safe iterator of     *)
(* ProcessMessages the message it stands at, stepped past removed ones as  *)
(* IterableList specifies.                                                 *)
(***************************************************************************)
EXTENDS PlatformTimer, Lists

CONSTANTS Handler, Message, NULL,
          Delays,         \* the delays messages are posted with
          PassPosts       \* bound: posts by the callbacks of one pass

ASSUME MessageAssumption ==
  /\ NULL \notin Message \cup Handler
  /\ Delays \subseteq Nat
  /\ PassPosts \in Nat

VARIABLES delayed, normal,       \* g_all_delayed_messages, g_all_normal_messages
          m_messages,            \* of each handler
          message_handler,       \* of each message, NULL when it is deleted
          fire_time,             \* of each message
          alive,                 \* the handlers that exist
          pc,                    \* where timer_callback is
          iter, current,         \* ProcessMessages' iter and msg
          posted,                \* posts in this pass, for the bound
          owed                   \* ghost: what this pass has to deliver

queueVars == <<delayed, normal, m_messages, message_handler, fire_time>>
passVars == <<pc, iter, current, owed>>
vars == <<now, timerVars, queueVars, alive, passVars, posted>>

-----------------------------------------------------------------------------
Init ==
  /\ TimerInit
  /\ delayed = <<>> /\ normal = <<>>
  /\ m_messages = [h \in Handler |-> <<>>]
  /\ message_handler = [m \in Message |-> NULL]
  /\ fire_time = [m \in Message |-> 0]
  /\ alive = Handler
  /\ pc = "idle"
  /\ iter = NULL /\ current = NULL
  /\ posted = 0 /\ owed = {}

(* Application code runs between timer callbacks and inside OnMessageReceived *)
Receiving == pc \in {"receive_delayed", "receive_normal"}
AppCode == pc = "idle" \/ Receiving

-----------------------------------------------------------------------------
(* Posting *)

(* new Message: any object that is not in use *)
NewMessage(h, m, t) ==
  /\ AppCode
  /\ h \in alive /\ message_handler[m] = NULL
  /\ posted' = IF Receiving /\ posted < PassPosts THEN posted + 1 ELSE posted
  /\ message_handler' = [message_handler EXCEPT ![m] = h]
  /\ fire_time' = [fire_time EXCEPT ![m] = t]
  /\ m_messages' = [m_messages EXCEPT ![h] = Append(@, m)]
  /\ UNCHANGED <<now, alive, passVars>>

(* Mutant: stops at a message with the same fire time too *)
SameOrLaterMessage(i, t) ==
  /\ i \in 1..Len(delayed) + 1
  /\ \A j \in 1..i - 1 : fire_time[delayed[j]] < t
  /\ i <= Len(delayed) => fire_time[delayed[i]] >= t

(* Where PostMessageOnTime's scan stops: before the first message that fires
   strictly later, or at the end *)
LaterMessage(i, t) ==
  /\ i \in 1..Len(delayed) + 1
  /\ \A j \in 1..i - 1 : fire_time[delayed[j]] <= t
  /\ i <= Len(delayed) => fire_time[delayed[i]] > t

(* Mutant: the timer is only set when there is no other message *)
PostMessageOnTimeLate(h, m, t) ==
  /\ NewMessage(h, m, t)
  /\ \E i \in 1..Len(delayed) + 1 :
       /\ LaterMessage(i, t)
       /\ delayed' = InsertAt(delayed, i, m)
  /\ IF normal \o delayed = <<>> THEN RescheduleTimer(t) ELSE UNCHANGED timerVars
  /\ UNCHANGED normal

PostMessageOnTime(h, m, t) ==
  /\ NewMessage(h, m, t)
  /\ \E i \in 1..Len(delayed) + 1 :
       /\ LaterMessage(i, t)
       /\ delayed' = InsertAt(delayed, i, m)
       /\ IF normal = <<>> /\ i = 1 THEN RescheduleTimer(t) ELSE UNCHANGED timerVars
  /\ UNCHANGED normal

PostMessageDelayed(h, m, delay) ==
  /\ now + delay <= MaxTime
  /\ PostMessageOnTime(h, m, now + delay)

PostMessage(h, m) ==
  /\ NewMessage(h, m, 0)
  /\ normal' = Append(normal, m)
  /\ IF normal = <<>> THEN RescheduleTimer(0) ELSE UNCHANGED timerVars
  /\ UNCHANGED delayed

-----------------------------------------------------------------------------
(* Deleting *)

(* Mutant: an iterator whose message goes ends its walk *)
EndedIter(list, gone) == IF iter \in gone THEN NULL ELSE iter

(* Where the iterator is once the messages in gone are out of its list *)
SteppedIter(list, gone) == IF iter = NULL THEN NULL ELSE Stepped(list, iter, gone, NULL)

(* Take messages off the lists they are in and delete them *)
Deleted(gone) ==
  /\ delayed' = Without(delayed, gone)
  /\ normal' = Without(normal, gone)
  /\ m_messages' = [h \in Handler |-> Without(m_messages[h], gone)]
  /\ message_handler' =
       [m \in Message |-> IF m \in gone THEN NULL ELSE message_handler[m]]
  /\ fire_time' = [m \in Message |-> IF m \in gone THEN 0 ELSE fire_time[m]]
  /\ iter' = SteppedIter(IF pc = "receive_delayed" THEN delayed ELSE normal, gone)
  /\ owed' = owed \ gone
  /\ UNCHANGED <<now, timerVars, pc, current, posted>>

(* Found with GetMessageById, which only finds pending messages *)
DeleteMessage(m) ==
  /\ AppCode
  /\ message_handler[m] # NULL /\ m # current
  /\ Deleted({m})
  /\ UNCHANGED alive

(* ~MessageHandler: DeleteAllMessages *)
DestroyHandler(h) ==
  /\ AppCode /\ h \in alive
  /\ Deleted(ToSet(m_messages[h]))
  /\ alive' = alive \ {h}

CreateHandler(h) ==
  /\ AppCode /\ h \notin alive
  /\ alive' = alive \cup {h}
  /\ UNCHANGED <<now, timerVars, queueVars, passVars, posted>>

-----------------------------------------------------------------------------
(* The timer callback *)

GetNextMessageFireTime ==
  IF normal # <<>> THEN 0
  ELSE IF delayed # <<>> THEN fire_time[Head(delayed)]
  ELSE kNotSoon

Dispatch(message) ==
  /\ pc = "idle" /\ message
  /\ pc' = "callback"
  /\ UNCHANGED <<now, queueVars, alive, iter, current, posted, owed>>

DispatchFake == Dispatch(FakeMessage)
DispatchTimer == Dispatch(TimerMessage)

(* Called too early: ask for the same time again. *)
CalledEarly ==
  /\ pc = "callback" /\ now < GetNextMessageFireTime
  /\ ReschedulePlatformTimer(GetNextMessageFireTime, TRUE)
  /\ pc' = "idle"
  /\ UNCHANGED <<now, queueVars, alive, iter, current, posted, owed>>

ProcessMessages ==
  /\ pc = "callback" /\ now >= GetNextMessageFireTime
  /\ pc' = "delayed"
  /\ iter' = FirstOf(delayed, NULL)
  /\ owed' = {m \in ToSet(delayed) : fire_time[m] <= now}
  /\ UNCHANGED <<now, timerVars, queueVars, alive, current, posted>>

(* GetAndStep, remove from the global and the local list, call the handler *)
Deliver(list) ==
  /\ current' = iter
  /\ iter' = After(list, iter, NULL)
  /\ m_messages' = [m_messages EXCEPT ![message_handler[iter]] = Without(@, {iter})]
  /\ owed' = owed \ {iter}
  /\ UNCHANGED <<now, timerVars, message_handler, fire_time, alive, posted>>

DeliverDelayed ==
  /\ pc = "delayed" /\ iter # NULL /\ now >= fire_time[iter]
  /\ Deliver(delayed)
  /\ delayed' = Without(delayed, {iter})
  /\ pc' = "receive_delayed"
  /\ UNCHANGED normal

(* None left, or the rest fire later: on to the normal messages. *)
DelayedDone ==
  /\ pc = "delayed"
  /\ iter # NULL => now < fire_time[iter]
  /\ pc' = "normal"
  /\ iter' = FirstOf(normal, NULL)
  /\ owed' = owed \cup ToSet(normal)
  /\ UNCHANGED <<now, timerVars, queueVars, alive, current, posted>>

DeliverNormal ==
  /\ pc = "normal" /\ iter # NULL
  /\ Deliver(normal)
  /\ normal' = Without(normal, {iter})
  /\ pc' = "receive_normal"
  /\ UNCHANGED delayed

(* OnMessageReceived returns, the message is deleted. *)
Received ==
  /\ Receiving
  /\ pc' = IF pc = "receive_delayed" THEN "delayed" ELSE "normal"
  /\ message_handler' = [message_handler EXCEPT ![current] = NULL]
  /\ fire_time' = [fire_time EXCEPT ![current] = 0]
  /\ current' = NULL
  /\ UNCHANGED <<now, timerVars, delayed, normal, m_messages, alive, iter, posted, owed>>

(* Mutant: the timer is not set again *)
CallbackDoneUnscheduled ==
  /\ pc = "normal" /\ iter = NULL
  /\ pc' = "idle"
  /\ posted' = 0
  /\ UNCHANGED <<now, timerVars, queueVars, alive, iter, current, owed>>

(* ProcessMessages has returned; the timer is set for what is left. *)
CallbackDone ==
  /\ pc = "normal" /\ iter = NULL
  /\ RescheduleTimer(GetNextMessageFireTime)
  /\ pc' = "idle"
  /\ posted' = 0
  /\ UNCHANGED <<now, queueVars, alive, iter, current, owed>>

-----------------------------------------------------------------------------
App ==
  \/ \E h \in Handler, m \in Message :
       /\ Receiving => posted < PassPosts
       /\ \/ \E delay \in Delays : PostMessageDelayed(h, m, delay)
          \/ PostMessage(h, m)
  \/ \E m \in Message : DeleteMessage(m)
  \/ \E h \in Handler : DestroyHandler(h) \/ CreateHandler(h)

Loop == ProcessMessages \/ CalledEarly \/ DeliverDelayed \/ DelayedDone
          \/ DeliverNormal \/ Received \/ CallbackDone

Clock == Tick /\ UNCHANGED <<timerVars, queueVars, alive, passVars, posted>>

Next == App \/ Loop \/ DispatchFake \/ DispatchTimer \/ Clock

Spec == Init /\ [][Next]_vars

(* The thread goes on through the callback, handlers return, the window
   message queue is served once a timer message is in it, time passes. *)
FairSpec ==
  /\ Spec
  /\ WF_vars(Loop)
  /\ WF_vars(DispatchFake)
  /\ WF_vars(DispatchTimer /\ TimerElapsed)
  /\ WF_vars(Clock)

-----------------------------------------------------------------------------
(* Properties *)

Pending(m) == message_handler[m] # NULL /\ m # current

(* Every variable has its type. *)
TypeOK ==
  /\ TimerTypeOK
  /\ delayed \in Seq(Message) /\ normal \in Seq(Message)
  /\ m_messages \in [Handler -> Seq(Message)]
  /\ message_handler \in [Message -> Handler \cup {NULL}]
  /\ fire_time \in [Message -> 0..MaxTime]
  /\ alive \subseteq Handler
  /\ pc \in {"idle", "callback", "delayed", "receive_delayed", "normal", "receive_normal"}
  /\ iter \in Message \cup {NULL} /\ current \in Message \cup {NULL}
  /\ posted \in 0..PassPosts /\ owed \subseteq Message

(* A pending message is once in one global list and once in the list of its
   handler, which exists; a delivered or deleted one is in none.  (A message
   left in either list is delivered to, or deleted by, a destroyed handler.) *)
ListsAgree ==
  /\ \A m \in Message :
       /\ Pending(m) <=> m \in ToSet(delayed \o normal)
       /\ \A h \in Handler : m \in ToSet(m_messages[h]) <=> Pending(m) /\ message_handler[m] = h
       /\ Pending(m) => message_handler[m] \in alive
  /\ IsInjective(delayed \o normal)
  /\ \A h \in Handler : IsInjective(m_messages[h])

(* Delayed messages are kept in the order of their fire times, and messages of
   one handler that fire at the same time, like its normal messages, in the
   order in which it posted them (its own list is in that order). *)
DeliveryOrder ==
  \A h \in Handler : \A a, b \in Message :
    /\ Before(delayed, a, b) => fire_time[a] <= fire_time[b]
    /\ Before(m_messages[h], a, b) =>
         /\ ~Before(normal, b, a)
         /\ fire_time[a] = fire_time[b] => ~Before(delayed, b, a)

(* The types, and the lists of messages: what is in them and in which order. *)
QueuesAgree == TypeOK /\ ListsAgree /\ DeliveryOrder

(* ProcessMessages leaves behind no message that was due when it began its
   list, whatever the handlers it called posted and deleted meanwhile. *)
PassComplete == pc = "idle" => owed = {}

(* Between callbacks, while messages are pending, a timer message is queued or
   the timer elapses no later than the first of them fires (the smallest delay
   later when that time has come). *)
WakeupScheduled ==
  LET next == GetNextMessageFireTime
  IN  pc = "idle" /\ next # kNotSoon =>
        \/ fake
        \/ timer_period > 0 /\ timer_due <= (IF next > now THEN next ELSE now + 1)

(* Every posted message is at last delivered, or deleted by its poster. *)
EventuallyDelivered == \A m \in Message : Pending(m) ~> ~Pending(m)

(* While there are messages, the timer is running when the callback returns:
   "If we still have things to do (because we didn't process all messages, or
   because there are new messages), we need to rescedule" (port_glfw.cc 445). *)
StillScheduled ==
  pc = "idle" /\ GetNextMessageFireTime # kNotSoon => fake \/ timer_period > 0
=============================================================================
