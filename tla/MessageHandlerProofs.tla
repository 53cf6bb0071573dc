------------------------ MODULE MessageHandlerProofs ------------------------
(***************************************************************************)
(* What MessageHandler promises for any handlers and messages, any delays  *)
(* and any end of time: the lists agree and are in order, a pass leaves    *)
(* nothing behind, and a wake-up is scheduled.                             *)
(***************************************************************************)
EXTENDS MessageHandler, ListLemmas

(* ListsAgree, list by list *)
Separate ==
  /\ \A m \in Message :
       /\ Pending(m) <=> m \in ToSet(delayed) \/ m \in ToSet(normal)
       /\ \A h \in Handler : m \in ToSet(m_messages[h]) <=> Pending(m) /\ message_handler[m] = h
       /\ Pending(m) => message_handler[m] \in alive
  /\ IsInjective(delayed) /\ IsInjective(normal)
  /\ ToSet(delayed) \cap ToSet(normal) = {}
  /\ \A h \in Handler : IsInjective(m_messages[h])

(* The iterator has not gone past the message *)
Ahead(list, m) == iter # NULL /\ (m = iter \/ Before(list, iter, m))

(* The iterator stands in the list that is walked, and what the pass still
   has to deliver is ahead of it: of the delayed messages while these are
   walked, of the normal ones afterwards. *)
WalkAgrees ==
  /\ pc \in {"idle", "callback"} => iter = NULL /\ owed = {}
  /\ pc \in {"delayed", "receive_delayed"} =>
       /\ iter \in ToSet(delayed) \cup {NULL}
       /\ \A m \in owed : Ahead(delayed, m) /\ fire_time[m] <= now
  /\ pc \in {"normal", "receive_normal"} =>
       /\ iter \in ToSet(normal) \cup {NULL}
       /\ \A m \in owed : Ahead(normal, m)
  /\ current # NULL <=> Receiving
  /\ current # NULL => message_handler[current] # NULL

(* The inductive invariant *)
IInv == TypeOK /\ Separate /\ DeliveryOrder /\ WalkAgrees

(* The lists agree when each of them does. *)
LEMMA SeparateAgrees ==
  ASSUME TypeOK
  PROVE  Separate <=> ListsAgree
<1>1. delayed \in Seq(Message) /\ normal \in Seq(Message)
  BY DEF TypeOK
<1>2. /\ ToSet(delayed \o normal) = ToSet(delayed) \cup ToSet(normal)
      /\ IsInjective(delayed \o normal) <=>
           IsInjective(delayed) /\ IsInjective(normal) /\ ToSet(delayed) \cap ToSet(normal) = {}
  BY <1>1, JoinedProperties
<1> QED
  BY <1>2 DEF Separate, ListsAgree

(* Setting the timer keeps the types of the timer. *)
LEMMA RescheduleTypes ==
  ASSUME TimerTypeOK, NEW t \in 0..kNotSoon, RescheduleTimer(t) \/ ReschedulePlatformTimer(t, TRUE), now' = now
  PROVE  TimerTypeOK'
<1>1. MaxTime \in Nat \ {0} /\ now \in 1..MaxTime
  BY MaxTimeAssumption DEF TimerTypeOK
<1>2. PICK force \in BOOLEAN : ReschedulePlatformTimer(t, force)
  BY DEF RescheduleTimer
<1>3. CASE t = kNotSoon /\ set_fire_time' = kNotSoon /\ glfwKillTimer /\ UNCHANGED fake
  BY <1>1, <1>3 DEF TimerTypeOK, glfwKillTimer, kNotSoon
<1>4. CASE /\ t # kNotSoon
           /\ set_fire_time' = t
           /\ glfwRescheduleTimer(IF t < now THEN 0 ELSE t - now)
  <2> DEFINE d == IF t < now THEN 0 ELSE t - now
  <2>1. d \in 0..MaxTime - 1
    BY <1>1, <1>4 DEF kNotSoon
  <2> HIDE DEF d
  <2>2. glfwRescheduleTimer(d)
    BY <1>4 DEF d
  <2>3. CASE glfwKillTimer /\ fake' = TRUE
    BY <1>1, <1>4, <2>3 DEF TimerTypeOK, glfwKillTimer, kNotSoon
  <2>4. CASE SetTimer(d) /\ UNCHANGED fake
    <3> DEFINE period == IF d = 0 THEN 1 ELSE d
    <3>1. period \in 1..MaxTime
      BY <1>1, <2>1
    <3>2. timer_period' = period /\ timer_due' = now + period
      BY <2>4 DEF SetTimer
    <3> HIDE DEF period
    <3>3. now + period \in 0..2 * MaxTime
      BY <1>1, <3>1
    <3> QED
      BY <1>1, <1>4, <2>4, <3>1, <3>2, <3>3 DEF TimerTypeOK, kNotSoon
  <2> QED
    BY <2>2, <2>3, <2>4 DEF glfwRescheduleTimer
<1>5. CASE UNCHANGED timerVars
  BY <1>5 DEF TimerTypeOK, timerVars
<1> QED
  BY <1>2, <1>3, <1>4, <1>5 DEF ReschedulePlatformTimer

(* The fire time of the next message is a time, or kNotSoon. *)
LEMMA NextTyped ==
  TypeOK => GetNextMessageFireTime \in 0..kNotSoon
<1> SUFFICES ASSUME TypeOK PROVE GetNextMessageFireTime \in 0..kNotSoon
  OBVIOUS
<1>1. MaxTime \in Nat
  BY MaxTimeAssumption
<1>2. delayed # <<>> => fire_time[Head(delayed)] \in 0..MaxTime
  BY DEF TypeOK
<1> QED
  BY <1>1, <1>2 DEF GetNextMessageFireTime, kNotSoon

-----------------------------------------------------------------------------
(* Posting *)

(* A new message is in no list, and goes to the end of that of its handler. *)
Adds(h, m, t) ==
  /\ m \notin ToSet(delayed) /\ m \notin ToSet(normal) /\ m # current
  /\ \A k \in Handler :
       /\ m \notin ToSet(m_messages[k])
       /\ IsInjective(m_messages'[k])
       /\ ToSet(m_messages'[k]) = IF k = h THEN ToSet(m_messages[k]) \cup {m} ELSE ToSet(m_messages[k])
       /\ \A a, b : Before(m_messages'[k], a, b) <=>
                      Before(m_messages[k], a, b) \/ (k = h /\ a \in ToSet(m_messages[h]) /\ b = m)
  /\ \A a \in Message :
       /\ Pending(a)' <=> Pending(a) \/ a = m
       /\ a # m => message_handler'[a] = message_handler[a] /\ fire_time'[a] = fire_time[a]
  /\ message_handler'[m] = h /\ fire_time'[m] = t /\ h # NULL

(* Of the lists, a new message only changes its handler's. *)
LEMMA NewMessageAdds ==
  ASSUME IInv, NEW h \in Handler, NEW m \in Message, NEW t \in 0..MaxTime, NewMessage(h, m, t)
  PROVE  Adds(h, m, t) /\ m_messages' \in [Handler -> Seq(Message)]
<1>1. /\ m_messages \in [Handler -> Seq(Message)]
      /\ message_handler \in [Message -> Handler \cup {NULL}]
      /\ fire_time \in [Message -> 0..MaxTime]
  BY DEF IInv, TypeOK
<1>2. /\ message_handler[m] = NULL /\ h # NULL
      /\ message_handler' = [message_handler EXCEPT ![m] = h]
      /\ fire_time' = [fire_time EXCEPT ![m] = t]
      /\ m_messages' = [m_messages EXCEPT ![h] = Append(@, m)]
      /\ current' = current
  BY MessageAssumption DEF NewMessage, passVars
<1>3. m # current /\ ~Pending(m)
  BY <1>2, MessageAssumption DEF IInv, WalkAgrees, Pending
<1>4. /\ m \notin ToSet(delayed) /\ m \notin ToSet(normal)
      /\ \A k \in Handler : m \notin ToSet(m_messages[k]) /\ IsInjective(m_messages[k])
  BY <1>3 DEF IInv, Separate
<1>5. m_messages' \in [Handler -> Seq(Message)]
  BY <1>1, <1>2
<1>6. ASSUME NEW k \in Handler
      PROVE  /\ IsInjective(m_messages'[k])
             /\ ToSet(m_messages'[k]) = IF k = h THEN ToSet(m_messages[k]) \cup {m} ELSE ToSet(m_messages[k])
             /\ \A a, b : Before(m_messages'[k], a, b) <=>
                            Before(m_messages[k], a, b) \/ (k = h /\ a \in ToSet(m_messages[h]) /\ b = m)
  <2>1. CASE k = h
    <3>1. m_messages'[k] = Append(m_messages[h], m) /\ m_messages[h] \in Seq(Message)
      BY <1>1, <1>2, <2>1
    <3> QED
      BY <1>4, <2>1, <3>1, AppendedProperties
  <2>2. CASE k # h
    <3>1. m_messages'[k] = m_messages[k]
      BY <1>1, <1>2, <2>2
    <3> QED
      BY <1>4, <2>2, <3>1
  <2> QED
    BY <2>1, <2>2
<1>7. \A a \in Message : a # m => message_handler'[a] = message_handler[a] /\ fire_time'[a] = fire_time[a]
  BY <1>1, <1>2
<1>8. message_handler'[m] = h /\ fire_time'[m] = t
  BY <1>1, <1>2
<1>9. \A a \in Message : Pending(a)' <=> Pending(a) \/ a = m
  BY <1>2, <1>3, <1>7, <1>8 DEF Pending
<1> QED
  BY <1>2, <1>3, <1>4, <1>5, <1>6, <1>7, <1>8, <1>9 DEF Adds

(* Posting keeps the types that it does not change lists by. *)
LEMMA NewMessageTypes ==
  ASSUME IInv, NEW h \in Handler, NEW m \in Message, NEW t \in 0..MaxTime, NewMessage(h, m, t),
         RescheduleTimer(t) \/ UNCHANGED timerVars,
         delayed' \in Seq(Message), normal' \in Seq(Message)
  PROVE  TypeOK'
<1>1. TypeOK /\ TimerTypeOK /\ now' = now
  BY DEF IInv, TypeOK, NewMessage
<1>2. t \in 0..kNotSoon
  BY MaxTimeAssumption DEF kNotSoon
<1>3. TimerTypeOK'
  BY <1>1, <1>2, RescheduleTypes DEF TimerTypeOK, timerVars
<1>4. m_messages' \in [Handler -> Seq(Message)]
  BY NewMessageAdds
<1>5. /\ message_handler' \in [Message -> Handler \cup {NULL}]
      /\ fire_time' \in [Message -> 0..MaxTime]
      /\ posted' \in 0..PassPosts
  BY <1>1, MessageAssumption DEF TypeOK, NewMessage
<1>6. UNCHANGED <<alive, pc, iter, current, owed>>
  BY DEF NewMessage, passVars
<1> QED
  BY <1>1, <1>3, <1>4, <1>5, <1>6 DEF TypeOK

(* A delayed message goes before the first that is due later, and so never
   between the ones a pass has been through. *)
LEMMA PostMessageOnTimeKeeps ==
  ASSUME IInv, NEW h \in Handler, NEW m \in Message, NEW t \in 0..MaxTime, PostMessageOnTime(h, m, t)
  PROVE  IInv'
<1>1. NewMessage(h, m, t) /\ normal' = normal
  BY DEF PostMessageOnTime
<1>2. /\ m \notin ToSet(delayed) /\ m \notin ToSet(normal) /\ m # current
      /\ \A k \in Handler :
           /\ m \notin ToSet(m_messages[k])
           /\ IsInjective(m_messages'[k])
           /\ ToSet(m_messages'[k]) = IF k = h THEN ToSet(m_messages[k]) \cup {m} ELSE ToSet(m_messages[k])
           /\ \A a, b : Before(m_messages'[k], a, b) <=>
                          Before(m_messages[k], a, b) \/ (k = h /\ a \in ToSet(m_messages[h]) /\ b = m)
      /\ \A a \in Message : /\ Pending(a)' <=> Pending(a) \/ a = m
                            /\ a # m => message_handler'[a] = message_handler[a] /\ fire_time'[a] = fire_time[a]
      /\ message_handler'[m] = h /\ fire_time'[m] = t /\ h # NULL
  <2>1. Adds(h, m, t)
    BY <1>1, NewMessageAdds
  <2> QED
    BY <2>1 DEF Adds
<1>3. /\ h \in alive
      /\ UNCHANGED <<now, alive, pc, iter, current, owed>>
  BY <1>1 DEF NewMessage, passVars
<1>4. TypeOK /\ Separate /\ DeliveryOrder /\ WalkAgrees
  BY DEF IInv
<1>5. delayed \in Seq(Message) /\ normal \in Seq(Message) /\ m_messages \in [Handler -> Seq(Message)]
      /\ fire_time \in [Message -> 0..MaxTime] /\ owed \subseteq Message
  BY <1>4 DEF TypeOK
<1>6. PICK i \in 1..Len(delayed) + 1 : LaterMessage(i, t) /\ delayed' = InsertAt(delayed, i, m)
  BY DEF PostMessageOnTime
<1>7. IsInjective(delayed)
  BY <1>4 DEF Separate
<1>8. /\ delayed' \in Seq(Message)
      /\ ToSet(delayed') = ToSet(delayed) \cup {m}
      /\ IsInjective(delayed')
      /\ \A a, b : Before(delayed', a, b) <=>
                     \/ Before(delayed, a, b)
                     \/ a = m /\ \E j \in i..Len(delayed) : delayed[j] = b
                     \/ b = m /\ \E j \in 1..i - 1 : delayed[j] = a
  BY <1>2, <1>5, <1>6, <1>7, InsertedProperties, SMTT(30)
<1>9. ToSet(delayed) \subseteq Message /\ ToSet(normal) \subseteq Message
      /\ \A k \in Handler : ToSet(m_messages[k]) \subseteq Message
  <2>1. \A s \in Seq(Message) : ToSet(s) \subseteq Message
    BY DEF ToSet
  <2> QED
    BY <1>5, <2>1
<1>10. TypeOK'
  <2>1. RescheduleTimer(t) \/ UNCHANGED timerVars
    BY DEF PostMessageOnTime
  <2> QED
    BY <1>1, <1>5, <1>8, <2>1, NewMessageTypes
<1>11. Separate'
  <2>1. ASSUME NEW a \in Message
        PROVE  /\ Pending(a)' <=> a \in ToSet(delayed') \/ a \in ToSet(normal')
               /\ Pending(a)' => message_handler'[a] \in alive'
    BY <1>1, <1>2, <1>3, <1>4, <1>8 DEF Separate
  <2>2. ASSUME NEW a \in Message, NEW k \in Handler
        PROVE  a \in ToSet(m_messages'[k]) <=> Pending(a)' /\ message_handler'[a] = k
    <3>1. a \in ToSet(m_messages[k]) <=> Pending(a) /\ message_handler[a] = k
      BY <1>4 DEF Separate
    <3>2. CASE a = m
      BY <1>2, <3>2
    <3>3. CASE a # m
      BY <1>2, <3>1, <3>3, ZenonT(60)
    <3> QED
      BY <3>2, <3>3
  <2>3. ToSet(delayed') \cap ToSet(normal') = {} /\ IsInjective(normal')
    BY <1>1, <1>2, <1>4, <1>8 DEF Separate
  <2> QED
    BY <1>2, <1>8, <2>1, <2>2, <2>3 DEF Separate
<1>12. DeliveryOrder'
  <2>1. /\ \A j \in i..Len(delayed) : fire_time[delayed[j]] > t
        /\ \A j \in 1..i - 1 : fire_time[delayed[j]] <= t
    <3>1. /\ \A j \in 1..i - 1 : fire_time[delayed[j]] <= t
          /\ i <= Len(delayed) => fire_time[delayed[i]] > t
      BY <1>6 DEF LaterMessage
    <3>2. ASSUME NEW j \in i..Len(delayed), j # i
          PROVE  fire_time[delayed[j]] > t
      <4>1. i \in 1..Len(delayed) /\ j \in 1..Len(delayed) /\ i < j
        BY <3>2
      <4>2. Before(delayed, delayed[i], delayed[j])
        BY <4>1 DEF Before
      <4>3. delayed[i] \in Message /\ delayed[j] \in Message
        BY <1>5, <4>1
      <4>4. fire_time[delayed[i]] <= fire_time[delayed[j]]
        BY <1>2, <1>4, <4>2, <4>3 DEF DeliveryOrder
      <4>5. fire_time[delayed[i]] \in Nat /\ fire_time[delayed[j]] \in Nat /\ t \in Nat
        BY <1>5, <4>3
      <4>6. fire_time[delayed[i]] > t
        BY <3>1, <4>1
      <4> QED
        BY <4>4, <4>5, <4>6
    <3> QED
      BY <3>1, <3>2
  <2>2. /\ \A j \in i..Len(delayed) : delayed[j] \in Message /\ delayed[j] # m
        /\ \A j \in 1..i - 1 : delayed[j] \in Message /\ delayed[j] # m
    BY <1>2, <1>5 DEF ToSet
  <2>3. ASSUME NEW a \in Message, NEW b \in Message, Before(delayed', a, b)
        PROVE  fire_time'[a] <= fire_time'[b]
    <3>1. CASE Before(delayed, a, b)
      <4>1. a # m /\ b # m
        BY <1>2, <1>5, <1>7, <3>1, OrderProperties
      <4> QED
        BY <1>2, <1>4, <3>1, <4>1 DEF DeliveryOrder
    <3>2. CASE a = m /\ \E j \in i..Len(delayed) : delayed[j] = b
      BY <1>2, <1>5, <2>1, <2>2, <3>2
    <3>3. CASE b = m /\ \E j \in 1..i - 1 : delayed[j] = a
      BY <1>2, <1>5, <2>1, <2>2, <3>3
    <3> QED
      BY <1>8, <2>3, <3>1, <3>2, <3>3
  <2>4. ASSUME NEW k \in Handler, NEW a \in Message, NEW b \in Message, Before(m_messages'[k], a, b)
        PROVE  /\ ~Before(normal', b, a)
               /\ fire_time'[a] = fire_time'[b] => ~Before(delayed', b, a)
    <3>1. CASE Before(m_messages[k], a, b)
      <4>1. a # m /\ b # m
        <5>1. m_messages[k] \in Seq(Message) /\ IsInjective(m_messages[k])
          BY <1>4, <1>5 DEF Separate
        <5> QED
          BY <1>2, <3>1, <5>1, OrderProperties, SMTT(30)
      <4> QED
        BY <1>1, <1>2, <1>4, <1>8, <3>1, <4>1 DEF DeliveryOrder
    <3>2. CASE k = h /\ a \in ToSet(m_messages[h]) /\ b = m
      <4>1. a # m
        BY <1>2, <3>2
      <4>2. ~Before(normal, m, a)
        <5>1. IsInjective(normal)
          BY <1>4 DEF Separate
        <5> QED
          BY <1>2, <1>5, <5>1, OrderProperties
      <4>3. ASSUME Before(delayed', m, a) PROVE fire_time'[a] # fire_time'[m]
        <5>1. ~Before(delayed, m, a)
          BY <1>2, <1>5, <1>7, OrderProperties
        <5>2. PICK j \in i..Len(delayed) : delayed[j] = a
          BY <1>8, <4>1, <4>3, <5>1
        <5>3. fire_time[a] > t
          BY <2>1, <5>2
        <5> QED
          BY <1>2, <1>5, <4>1, <5>3
      <4> QED
        BY <1>1, <3>2, <4>2, <4>3
    <3> QED
      BY <1>2, <2>4, <3>1, <3>2
  <2> QED
    BY <2>3, <2>4 DEF DeliveryOrder
<1>13. WalkAgrees'
  <2>1. ASSUME NEW x \in owed, pc \in {"delayed", "receive_delayed"}
        PROVE  Ahead(delayed, x)' /\ fire_time'[x] <= now'
    <3>1. Ahead(delayed, x) /\ fire_time[x] <= now
      BY <1>4, <2>1 DEF WalkAgrees
    <3>2. x \in ToSet(delayed)
      BY <1>4, <1>5, <1>7, <2>1, <3>1, OrderProperties DEF WalkAgrees, Ahead
    <3>3. x \in Message /\ x # m
      BY <1>2, <1>9, <3>2
    <3> QED
      BY <1>2, <1>3, <1>8, <3>1, <3>3 DEF Ahead
  <2>2. ASSUME NEW x \in owed, pc \in {"normal", "receive_normal"}
        PROVE  Ahead(normal, x)'
    BY <1>1, <1>3, <1>4, <2>2 DEF WalkAgrees, Ahead
  <2>3. current # NULL => current \in Message /\ message_handler'[current] = message_handler[current]
    BY <1>2, <1>4 DEF TypeOK
  <2> QED
    BY <1>1, <1>3, <1>4, <1>8, <2>1, <2>2, <2>3 DEF WalkAgrees, Receiving
<1> QED
  BY <1>10, <1>11, <1>12, <1>13 DEF IInv

(* A normal message goes last. *)
LEMMA PostMessageKeeps ==
  ASSUME IInv, NEW h \in Handler, NEW m \in Message, PostMessage(h, m)
  PROVE  IInv'
<1>1. NewMessage(h, m, 0) /\ normal' = Append(normal, m) /\ delayed' = delayed /\ 0 \in 0..MaxTime
  BY MaxTimeAssumption DEF PostMessage
<1>2. /\ m \notin ToSet(delayed) /\ m \notin ToSet(normal) /\ m # current
      /\ \A k \in Handler :
           /\ m \notin ToSet(m_messages[k])
           /\ IsInjective(m_messages'[k])
           /\ ToSet(m_messages'[k]) = IF k = h THEN ToSet(m_messages[k]) \cup {m} ELSE ToSet(m_messages[k])
           /\ \A a, b : Before(m_messages'[k], a, b) <=>
                          Before(m_messages[k], a, b) \/ (k = h /\ a \in ToSet(m_messages[h]) /\ b = m)
      /\ \A a \in Message : /\ Pending(a)' <=> Pending(a) \/ a = m
                            /\ a # m => message_handler'[a] = message_handler[a] /\ fire_time'[a] = fire_time[a]
      /\ message_handler'[m] = h /\ h # NULL
  <2>1. Adds(h, m, 0)
    BY <1>1, NewMessageAdds
  <2> QED
    BY <2>1 DEF Adds
<1>3. h \in alive /\ UNCHANGED <<now, alive, pc, iter, current, owed>>
  BY <1>1 DEF NewMessage, passVars
<1>4. TypeOK /\ Separate /\ DeliveryOrder /\ WalkAgrees
  BY DEF IInv
<1>5. /\ delayed \in Seq(Message) /\ normal \in Seq(Message) /\ m_messages \in [Handler -> Seq(Message)]
      /\ fire_time \in [Message -> 0..MaxTime] /\ owed \subseteq Message
  BY <1>4 DEF TypeOK
<1>6. IsInjective(delayed) /\ IsInjective(normal)
  BY <1>4 DEF Separate
<1>7. /\ normal' \in Seq(Message)
      /\ ToSet(normal') = ToSet(normal) \cup {m}
      /\ IsInjective(normal')
      /\ \A a, b : Before(normal', a, b) <=> Before(normal, a, b) \/ (a \in ToSet(normal) /\ b = m)
  BY <1>1, <1>2, <1>5, <1>6, AppendedProperties
<1>8. \A s \in Seq(Message) : ToSet(s) \subseteq Message
  BY DEF ToSet
<1>9. TypeOK'
  <2>1. RescheduleTimer(0) \/ UNCHANGED timerVars
    BY DEF PostMessage
  <2> QED
    BY <1>1, <1>5, <1>7, <2>1, NewMessageTypes
<1>10. Separate'
  <2>1. ASSUME NEW a \in Message
        PROVE  /\ Pending(a)' <=> a \in ToSet(delayed') \/ a \in ToSet(normal')
               /\ Pending(a)' => message_handler'[a] \in alive'
    BY <1>1, <1>2, <1>3, <1>4, <1>7 DEF Separate
  <2>2. ASSUME NEW a \in Message, NEW k \in Handler
        PROVE  a \in ToSet(m_messages'[k]) <=> Pending(a)' /\ message_handler'[a] = k
    <3>1. a \in ToSet(m_messages[k]) <=> Pending(a) /\ message_handler[a] = k
      BY <1>4 DEF Separate
    <3>2. CASE a = m
      BY <1>2, <3>2
    <3>3. CASE a # m
      BY <1>2, <3>1, <3>3, ZenonT(60)
    <3> QED
      BY <3>2, <3>3
  <2>3. ToSet(delayed') \cap ToSet(normal') = {} /\ IsInjective(delayed')
    BY <1>1, <1>2, <1>4, <1>7 DEF Separate
  <2> QED
    BY <1>2, <1>7, <2>1, <2>2, <2>3 DEF Separate
<1>11. DeliveryOrder'
  <2>1. ASSUME NEW a \in Message, NEW b \in Message, Before(delayed', a, b)
        PROVE  fire_time'[a] <= fire_time'[b]
    <3>1. a # m /\ b # m
      BY <1>1, <1>2, <1>5, <1>6, <2>1, OrderProperties
    <3> QED
      BY <1>1, <1>2, <1>4, <2>1, <3>1 DEF DeliveryOrder
  <2>2. ASSUME NEW k \in Handler, NEW a \in Message, NEW b \in Message, Before(m_messages'[k], a, b)
        PROVE  /\ ~Before(normal', b, a)
               /\ fire_time'[a] = fire_time'[b] => ~Before(delayed', b, a)
    <3>1. m_messages[k] \in Seq(Message) /\ IsInjective(m_messages[k])
      BY <1>4, <1>5 DEF Separate
    <3>2. \A c, d : Before(m_messages[k], c, d) => c \in ToSet(m_messages[k]) /\ d \in ToSet(m_messages[k])
      BY <3>1, OrderProperties
    <3>3. m \notin ToSet(m_messages[k]) /\ m \notin ToSet(m_messages[h])
      BY <1>2
    <3>4. Before(m_messages[k], a, b) \/ (a \in ToSet(m_messages[h]) /\ b = m)
      BY <1>2, <2>2
    <3>5. a # m
      BY <3>2, <3>3, <3>4
    <3>6. CASE Before(m_messages[k], a, b)
      <4>1. b # m
        BY <3>6, <3>2, <3>3
      <4> QED
        BY <1>1, <1>2, <1>4, <1>7, <3>5, <3>6, <4>1 DEF DeliveryOrder
    <3>7. CASE b = m
      <4>1. ~Before(normal, m, a) /\ ~Before(delayed, m, a)
        BY <1>2, <1>5, <1>6, OrderProperties
      <4> QED
        BY <1>1, <1>2, <1>7, <3>5, <3>7, <4>1
    <3> QED
      BY <1>2, <2>2, <3>6, <3>7
  <2> QED
    BY <2>1, <2>2 DEF DeliveryOrder
<1>12. WalkAgrees'
  <2>1. ASSUME NEW x \in owed, pc \in {"delayed", "receive_delayed"}
        PROVE  Ahead(delayed, x)' /\ fire_time'[x] <= now'
    <3>1. Ahead(delayed, x) /\ fire_time[x] <= now
      BY <1>4, <2>1 DEF WalkAgrees
    <3>2. x \in ToSet(delayed)
      BY <1>4, <1>5, <1>6, <2>1, <3>1, OrderProperties DEF WalkAgrees, Ahead
    <3>3. x \in Message /\ x # m
      BY <1>2, <1>5, <1>8, <3>2
    <3> QED
      BY <1>1, <1>2, <1>3, <3>1, <3>3 DEF Ahead
  <2>2. ASSUME NEW x \in owed, pc \in {"normal", "receive_normal"}
        PROVE  Ahead(normal, x)'
    BY <1>3, <1>4, <1>7, <2>2 DEF WalkAgrees, Ahead
  <2>3. current # NULL => current \in Message /\ message_handler'[current] = message_handler[current]
    BY <1>2, <1>4 DEF TypeOK
  <2> QED
    BY <1>1, <1>3, <1>4, <1>7, <2>1, <2>2, <2>3 DEF WalkAgrees, Receiving
<1> QED
  BY <1>9, <1>10, <1>11, <1>12 DEF IInv

-----------------------------------------------------------------------------
(* Deleting *)

(* What is deleted, a message or all those of a handler, is out of every list,
   and the iterator of the pass steps on to what is left. *)
LEMMA DeletedKeeps ==
  ASSUME IInv, AppCode, NEW gone \in SUBSET Message, \A m \in gone : Pending(m),
         Deleted(gone), alive' \subseteq alive,
         \A m \in Message : Pending(m) /\ m \notin gone => message_handler[m] \in alive'
  PROVE  IInv'
<1>1. /\ delayed' = Without(delayed, gone)
      /\ normal' = Without(normal, gone)
      /\ m_messages' = [h \in Handler |-> Without(m_messages[h], gone)]
      /\ message_handler' = [m \in Message |-> IF m \in gone THEN NULL ELSE message_handler[m]]
      /\ fire_time' = [m \in Message |-> IF m \in gone THEN 0 ELSE fire_time[m]]
      /\ iter' = SteppedIter(IF pc = "receive_delayed" THEN delayed ELSE normal, gone)
      /\ owed' = owed \ gone
      /\ UNCHANGED <<now, timerVars, pc, current, posted>>
  BY DEF Deleted
<1>2. TypeOK /\ Separate /\ DeliveryOrder /\ WalkAgrees
  BY DEF IInv
<1>3. /\ delayed \in Seq(Message) /\ normal \in Seq(Message) /\ m_messages \in [Handler -> Seq(Message)]
      /\ fire_time \in [Message -> 0..MaxTime] /\ owed \subseteq Message
      /\ message_handler \in [Message -> Handler \cup {NULL}]
      /\ NULL \notin Message /\ current \in Message \cup {NULL} /\ iter \in Message \cup {NULL}
      /\ alive \subseteq Handler
  BY <1>2, MessageAssumption DEF TypeOK
<1>4. /\ delayed' \in Seq(Message)
      /\ ToSet(delayed') = ToSet(delayed) \ gone
      /\ IsInjective(delayed')
      /\ \A a, b : Before(delayed', a, b) <=> Before(delayed, a, b) /\ a \notin gone /\ b \notin gone
  BY <1>1, <1>2, <1>3, WithoutProperties DEF Separate
<1>5. /\ normal' \in Seq(Message)
      /\ ToSet(normal') = ToSet(normal) \ gone
      /\ IsInjective(normal')
      /\ \A a, b : Before(normal', a, b) <=> Before(normal, a, b) /\ a \notin gone /\ b \notin gone
  BY <1>1, <1>2, <1>3, WithoutProperties DEF Separate
<1>6. ASSUME NEW k \in Handler
      PROVE  /\ m_messages'[k] \in Seq(Message)
             /\ ToSet(m_messages'[k]) = ToSet(m_messages[k]) \ gone
             /\ IsInjective(m_messages'[k])
             /\ \A a, b : Before(m_messages'[k], a, b) <=>
                            Before(m_messages[k], a, b) /\ a \notin gone /\ b \notin gone
  <2>1. m_messages'[k] = Without(m_messages[k], gone) /\ m_messages[k] \in Seq(Message)
        /\ IsInjective(m_messages[k])
    BY <1>1, <1>2, <1>3 DEF Separate
  <2> QED
    BY <2>1, WithoutProperties
<1>7. \A m \in Message :
        /\ m \notin gone => message_handler'[m] = message_handler[m] /\ fire_time'[m] = fire_time[m]
        /\ m \in gone => message_handler'[m] = NULL
        /\ Pending(m)' <=> Pending(m) /\ m \notin gone
  BY <1>1, <1>3 DEF Pending
<1>8. current \notin gone
  BY DEF Pending
<1>9. ASSUME iter # NULL
      PROVE  LET list == IF pc = "receive_delayed" THEN delayed ELSE normal
             IN  /\ iter' \in (ToSet(list) \ gone) \cup {NULL}
                 /\ iter' = NULL => \A m : Ahead(list, m) => m \in gone
                 /\ iter' # NULL => \A m : Ahead(list, m) => m \in gone \/ m = iter' \/ Before(list, iter', m)
  <2> DEFINE list == IF pc = "receive_delayed" THEN delayed ELSE normal
  <2>1. iter \in ToSet(list)
    BY <1>2, <1>9 DEF WalkAgrees, AppCode, Receiving
  <2>2. list \in Seq(Message) /\ IsInjective(list)
    BY <1>2, <1>3 DEF Separate
  <2>3. iter' = Stepped(list, iter, gone, NULL)
    BY <1>1, <1>9 DEF SteppedIter
  <2> HIDE DEF list
  <2>4. /\ iter' \in (ToSet(list) \ gone) \cup {NULL}
        /\ iter' = NULL => \A m : m = iter \/ Before(list, iter, m) => m \in gone
        /\ iter' # NULL => \A m : m = iter \/ Before(list, iter, m) =>
                                    m \in gone \/ m = iter' \/ Before(list, iter', m)
    BY <1>3, <2>1, <2>2, <2>3, SteppedProperties
  <2>5. /\ iter' \in (ToSet(list) \ gone) \cup {NULL}
        /\ iter' = NULL => \A m : Ahead(list, m) => m \in gone
        /\ iter' # NULL => \A m : Ahead(list, m) => m \in gone \/ m = iter' \/ Before(list, iter', m)
    BY <1>9, <2>4 DEF Ahead
  <2> QED
    BY <2>5 DEF list
<1>10. iter = NULL => iter' = NULL
  BY <1>1 DEF SteppedIter
<1>11. TypeOK'
  <2>1. m_messages' \in [Handler -> Seq(Message)]
    <3>1. DOMAIN m_messages' = Handler /\ m_messages' = [k \in Handler |-> m_messages'[k]]
      BY <1>1
    <3> QED
      BY <1>6, <3>1
  <2>2. /\ message_handler' \in [Message -> Handler \cup {NULL}]
        /\ fire_time' \in [Message -> 0..MaxTime]
    BY <1>1, <1>3, MaxTimeAssumption
  <2>3. iter' \in Message \cup {NULL}
    <3>1. \A s \in Seq(Message) : ToSet(s) \subseteq Message
      BY DEF ToSet
    <3> QED
      BY <1>3, <1>9, <1>10, <3>1
  <2>4. TimerTypeOK'
    BY <1>1, <1>2 DEF TypeOK, TimerTypeOK, timerVars
  <2> QED
    BY <1>1, <1>2, <1>3, <1>4, <1>5, <2>1, <2>2, <2>3, <2>4 DEF TypeOK
<1>12. Separate'
  <2>1. ASSUME NEW a \in Message
        PROVE  /\ Pending(a)' <=> a \in ToSet(delayed') \/ a \in ToSet(normal')
               /\ Pending(a)' => message_handler'[a] \in alive'
    BY <1>2, <1>4, <1>5, <1>7 DEF Separate
  <2>2. ASSUME NEW a \in Message, NEW k \in Handler
        PROVE  a \in ToSet(m_messages'[k]) <=> Pending(a)' /\ message_handler'[a] = k
    BY <1>2, <1>6, <1>7 DEF Separate
  <2>3. ToSet(delayed') \cap ToSet(normal') = {}
    BY <1>2, <1>4, <1>5 DEF Separate
  <2> QED
    BY <1>4, <1>5, <1>6, <2>1, <2>2, <2>3 DEF Separate
<1>13. DeliveryOrder'
  BY <1>2, <1>4, <1>5, <1>6, <1>7 DEF DeliveryOrder
<1>14. WalkAgrees'
  <2>1. CASE pc = "idle"
    BY <1>1, <1>2, <1>10, <2>1 DEF WalkAgrees, Receiving
  <2>2. CASE pc = "receive_delayed"
    <3>1. /\ iter \in ToSet(delayed) \cup {NULL}
          /\ \A m \in owed : Ahead(delayed, m) /\ fire_time[m] <= now
      BY <1>2, <2>2 DEF WalkAgrees
    <3>2. iter' \in ToSet(delayed') \cup {NULL}
      BY <1>4, <1>9, <1>10, <2>2
    <3>3. ASSUME NEW m \in owed'
          PROVE  Ahead(delayed, m)' /\ fire_time'[m] <= now'
      <4>1. m \in owed /\ m \notin gone /\ m \in Message
        BY <1>1, <1>3
      <4>2. Ahead(delayed, m) /\ iter # NULL
        BY <3>1, <4>1 DEF Ahead
      <4>3. iter' # NULL /\ (m = iter' \/ Before(delayed, iter', m)) /\ iter' \notin gone
        BY <1>9, <2>2, <4>1, <4>2
      <4> QED
        BY <1>1, <1>4, <1>7, <3>1, <4>1, <4>3 DEF Ahead
    <3> QED
      BY <1>1, <1>2, <1>3, <1>7, <1>8, <2>2, <3>2, <3>3 DEF WalkAgrees, Receiving
  <2>3. CASE pc = "receive_normal"
    <3>1. /\ iter \in ToSet(normal) \cup {NULL}
          /\ \A m \in owed : Ahead(normal, m)
      BY <1>2, <2>3 DEF WalkAgrees
    <3>2. iter' \in ToSet(normal') \cup {NULL}
      BY <1>5, <1>9, <1>10, <2>3
    <3>3. ASSUME NEW m \in owed'
          PROVE  Ahead(normal, m)'
      <4>1. m \in owed /\ m \notin gone /\ m \in Message
        BY <1>1, <1>3
      <4>2. Ahead(normal, m) /\ iter # NULL
        BY <3>1, <4>1 DEF Ahead
      <4>3. iter' # NULL /\ (m = iter' \/ Before(normal, iter', m)) /\ iter' \notin gone
        BY <1>9, <2>3, <4>1, <4>2
      <4> QED
        BY <1>1, <1>5, <1>7, <3>1, <4>1, <4>3 DEF Ahead
    <3> QED
      BY <1>1, <1>2, <1>3, <1>7, <1>8, <2>3, <3>2, <3>3 DEF WalkAgrees, Receiving
  <2> QED
    BY <2>1, <2>2, <2>3 DEF AppCode, Receiving
<1> QED
  BY <1>11, <1>12, <1>13, <1>14 DEF IInv

(* One message is deleted. *)
LEMMA DeleteMessageKeeps ==
  ASSUME IInv, NEW m \in Message, DeleteMessage(m)
  PROVE  IInv'
<1>1. AppCode /\ Deleted({m}) /\ Pending(m) /\ alive' = alive
  BY DEF DeleteMessage, Pending
<1>2. \A a \in Message : Pending(a) => message_handler[a] \in alive'
  BY <1>1 DEF IInv, Separate
<1> QED
  BY <1>1, <1>2, DeletedKeeps

(* A handler goes, and its messages with it. *)
LEMMA DestroyHandlerKeeps ==
  ASSUME IInv, NEW h \in Handler, DestroyHandler(h)
  PROVE  IInv'
<1> DEFINE gone == ToSet(m_messages[h])
<1>1. AppCode /\ Deleted(gone) /\ alive' = alive \ {h}
  BY DEF DestroyHandler
<1>2. gone \in SUBSET Message
  <2>1. m_messages[h] \in Seq(Message)
    BY DEF IInv, TypeOK
  <2> QED
    BY <2>1 DEF ToSet
<1>3. \A m \in Message : m \in gone <=> Pending(m) /\ message_handler[m] = h
  BY DEF IInv, Separate
<1>4. \A m \in Message : Pending(m) /\ m \notin gone => message_handler[m] \in alive'
  BY <1>1, <1>3 DEF IInv, Separate
<1> HIDE DEF gone
<1> QED
  BY <1>1, <1>2, <1>3, <1>4, DeletedKeeps

-----------------------------------------------------------------------------
(* Delivery *)

(* The message the iterator stands at is delivered, from the delayed messages
   or from the normal ones. *)
LEMMA DeliverKeeps ==
  ASSUME IInv, DeliverDelayed \/ DeliverNormal
  PROVE  IInv'
<1> DEFINE list == IF pc = "delayed" THEN delayed ELSE normal
           x == iter
           k == message_handler[iter]
<1>1. /\ pc \in {"delayed", "normal"} /\ iter # NULL
      /\ current' = iter
      /\ iter' = After(list, iter, NULL)
      /\ m_messages' = [m_messages EXCEPT ![k] = Without(@, {iter})]
      /\ owed' = owed \ {iter}
      /\ UNCHANGED <<now, timerVars, message_handler, fire_time, alive, posted>>
      /\ delayed' = IF pc = "delayed" THEN Without(delayed, {iter}) ELSE delayed
      /\ normal' = IF pc = "normal" THEN Without(normal, {iter}) ELSE normal
      /\ pc' = IF pc = "delayed" THEN "receive_delayed" ELSE "receive_normal"
  BY DEF DeliverDelayed, DeliverNormal, Deliver
<1>2. TypeOK /\ Separate /\ DeliveryOrder /\ WalkAgrees
  BY DEF IInv
<1>3. /\ delayed \in Seq(Message) /\ normal \in Seq(Message) /\ m_messages \in [Handler -> Seq(Message)]
      /\ fire_time \in [Message -> 0..MaxTime] /\ owed \subseteq Message
      /\ message_handler \in [Message -> Handler \cup {NULL}]
      /\ NULL \notin Message /\ iter \in Message
      /\ IsInjective(delayed) /\ IsInjective(normal) /\ ToSet(delayed) \cap ToSet(normal) = {}
  BY <1>1, <1>2, MessageAssumption DEF TypeOK, Separate
<1>4. current = NULL /\ iter \in ToSet(list)
  BY <1>1, <1>2 DEF WalkAgrees, Receiving
<1>5. /\ Pending(iter) /\ k \in Handler /\ message_handler[iter] # NULL
      /\ \A h \in Handler : iter \in ToSet(m_messages[h]) <=> h = k
  <2>1. Pending(iter)
    BY <1>2, <1>3, <1>4 DEF Separate
  <2> QED
    BY <1>2, <1>3, <2>1 DEF Separate, Pending
<1>6. list \in Seq(Message) /\ IsInjective(list)
  BY <1>3
<1>7. /\ iter' \in ToSet(list) \cup {NULL}
      /\ iter' = NULL => \A b : ~Before(list, iter, b)
      /\ iter' # NULL => /\ Before(list, iter, iter')
                         /\ \A b : Before(list, iter, b) => b = iter' \/ Before(list, iter', b)
  <2> HIDE DEF list
  <2> QED
    BY <1>1, <1>3, <1>4, <1>6, AfterProperties
<1>8. /\ delayed' \in Seq(Message)
      /\ ToSet(delayed') = ToSet(delayed) \ {iter}
      /\ IsInjective(delayed')
      /\ \A a, b : Before(delayed', a, b) => Before(delayed, a, b)
      /\ pc = "delayed" => \A a, b : Before(delayed', a, b) <=> Before(delayed, a, b) /\ a # iter /\ b # iter
  <2>1. CASE pc = "delayed"
    BY <1>1, <1>3, <2>1, WithoutProperties
  <2>2. CASE pc = "normal"
    <3>1. iter \notin ToSet(delayed)
      BY <1>3, <1>4, <2>2
    <3> QED
      BY <1>1, <1>3, <2>2, <3>1
  <2> QED
    BY <1>1, <2>1, <2>2
<1>9. /\ normal' \in Seq(Message)
      /\ ToSet(normal') = ToSet(normal) \ {iter}
      /\ IsInjective(normal')
      /\ \A a, b : Before(normal', a, b) => Before(normal, a, b)
      /\ pc = "normal" => \A a, b : Before(normal', a, b) <=> Before(normal, a, b) /\ a # iter /\ b # iter
  <2>1. CASE pc = "normal"
    BY <1>1, <1>3, <2>1, WithoutProperties
  <2>2. CASE pc = "delayed"
    <3>1. iter \notin ToSet(normal)
      BY <1>3, <1>4, <2>2
    <3> QED
      BY <1>1, <1>3, <2>2, <3>1
  <2> QED
    BY <1>1, <2>1, <2>2
<1> HIDE DEF list, k
<1>10. m_messages' \in [Handler -> Seq(Message)]
       /\ \A h \in Handler : /\ ToSet(m_messages'[h]) = ToSet(m_messages[h]) \ {iter}
                             /\ IsInjective(m_messages'[h])
                             /\ \A a, b : Before(m_messages'[h], a, b) => Before(m_messages[h], a, b)
  <2>1. m_messages[k] \in Seq(Message) /\ IsInjective(m_messages[k])
    BY <1>2, <1>3, <1>5 DEF Separate
  <2>2. /\ Without(m_messages[k], {iter}) \in Seq(Message)
        /\ ToSet(Without(m_messages[k], {iter})) = ToSet(m_messages[k]) \ {iter}
        /\ IsInjective(Without(m_messages[k], {iter}))
        /\ \A a, b : Before(Without(m_messages[k], {iter}), a, b) => Before(m_messages[k], a, b)
    BY <2>1, WithoutProperties
  <2>3. m_messages'[k] = Without(m_messages[k], {iter}) /\ \A h \in Handler : h # k => m_messages'[h] = m_messages[h]
    BY <1>1, <1>3, <1>5
  <2>4. m_messages' \in [Handler -> Seq(Message)]
    BY <1>1, <1>3, <2>2
  <2>5. ASSUME NEW h \in Handler
        PROVE  /\ ToSet(m_messages'[h]) = ToSet(m_messages[h]) \ {iter}
               /\ IsInjective(m_messages'[h])
               /\ \A a, b : Before(m_messages'[h], a, b) => Before(m_messages[h], a, b)
    <3>1. CASE h = k
      BY <2>2, <2>3, <3>1
    <3>2. CASE h # k
      <4>1. iter \notin ToSet(m_messages[h]) /\ IsInjective(m_messages[h])
        BY <1>2, <1>5, <3>2 DEF Separate
      <4> QED
        BY <2>3, <3>2, <4>1
    <3> QED
      BY <3>1, <3>2
  <2> QED
    BY <2>4, <2>5
<1>11. \A a \in Message : Pending(a)' <=> Pending(a) /\ a # iter
  BY <1>1, <1>3, <1>4 DEF Pending
<1>12. TypeOK'
  <2>1. iter' \in Message \cup {NULL}
    <3>1. ToSet(list) \subseteq Message
      BY <1>6 DEF ToSet
    <3> QED
      BY <1>7, <3>1
  <2>2. TimerTypeOK'
    BY <1>1, <1>2 DEF TypeOK, TimerTypeOK, timerVars
  <2> QED
    BY <1>1, <1>2, <1>3, <1>8, <1>9, <1>10, <2>1, <2>2 DEF TypeOK
<1>13. Separate'
  <2>1. ASSUME NEW a \in Message
        PROVE  /\ Pending(a)' <=> a \in ToSet(delayed') \/ a \in ToSet(normal')
               /\ Pending(a)' => message_handler'[a] \in alive'
    BY <1>1, <1>2, <1>8, <1>9, <1>11 DEF Separate
  <2>2. ASSUME NEW a \in Message, NEW h \in Handler
        PROVE  a \in ToSet(m_messages'[h]) <=> Pending(a)' /\ message_handler'[a] = h
    <3>1. a \in ToSet(m_messages[h]) <=> Pending(a) /\ message_handler[a] = h
      BY <1>2 DEF Separate
    <3> QED
      BY <1>1, <1>10, <1>11, <3>1
  <2>3. ToSet(delayed') \cap ToSet(normal') = {}
    BY <1>3, <1>8, <1>9
  <2> QED
    BY <1>8, <1>9, <1>10, <2>1, <2>2, <2>3 DEF Separate
<1>14. DeliveryOrder'
  BY <1>1, <1>2, <1>8, <1>9, <1>10 DEF DeliveryOrder
<1>15. WalkAgrees'
  <2>1. iter' # iter
    BY <1>3, <1>6, <1>7, OrderProperties
  <2>2. ASSUME NEW m \in owed', Ahead(list, m)
        PROVE  m # iter /\ iter' # NULL /\ (m = iter' \/ Before(list, iter', m))
    BY <1>1, <1>7, <2>2 DEF Ahead
  <2>3. CASE pc = "delayed"
    <3>1. iter' \in ToSet(delayed') \cup {NULL}
      BY <1>7, <1>8, <2>1, <2>3 DEF list
    <3>2. ASSUME NEW m \in owed'
          PROVE  Ahead(delayed, m)' /\ fire_time'[m] <= now'
      <4>1. Ahead(delayed, m) /\ fire_time[m] <= now
        BY <1>1, <1>2, <2>3 DEF WalkAgrees
      <4>2. m # iter /\ iter' # NULL /\ (m = iter' \/ Before(delayed, iter', m))
        BY <2>2, <2>3, <4>1 DEF list
      <4> QED
        BY <1>1, <1>8, <2>1, <2>3, <4>1, <4>2 DEF Ahead
    <3> QED
      BY <1>1, <1>3, <1>5, <2>3, <3>1, <3>2 DEF WalkAgrees, Receiving
  <2>4. CASE pc = "normal"
    <3>1. iter' \in ToSet(normal') \cup {NULL}
      BY <1>7, <1>9, <2>1, <2>4 DEF list
    <3>2. ASSUME NEW m \in owed'
          PROVE  Ahead(normal, m)'
      <4>1. Ahead(normal, m)
        BY <1>1, <1>2, <2>4 DEF WalkAgrees
      <4>2. m # iter /\ iter' # NULL /\ (m = iter' \/ Before(normal, iter', m))
        BY <2>2, <2>4, <4>1 DEF list
      <4> QED
        BY <1>1, <1>9, <2>1, <2>4, <4>2 DEF Ahead
    <3> QED
      BY <1>1, <1>3, <1>5, <2>4, <3>1, <3>2 DEF WalkAgrees, Receiving
  <2> QED
    BY <1>1, <2>3, <2>4
<1> QED
  BY <1>12, <1>13, <1>14, <1>15 DEF IInv

(* The message that was delivered is deleted. *)
LEMMA ReceivedKeeps ==
  ASSUME IInv, Received
  PROVE  IInv'
<1>1. /\ Receiving
      /\ pc' = IF pc = "receive_delayed" THEN "delayed" ELSE "normal"
      /\ message_handler' = [message_handler EXCEPT ![current] = NULL]
      /\ fire_time' = [fire_time EXCEPT ![current] = 0]
      /\ current' = NULL
      /\ UNCHANGED <<now, timerVars, delayed, normal, m_messages, alive, iter, posted, owed>>
  BY DEF Received
<1>2. TypeOK /\ Separate /\ DeliveryOrder /\ WalkAgrees
  BY DEF IInv
<1>3. /\ delayed \in Seq(Message) /\ normal \in Seq(Message) /\ m_messages \in [Handler -> Seq(Message)]
      /\ fire_time \in [Message -> 0..MaxTime] /\ owed \subseteq Message
      /\ message_handler \in [Message -> Handler \cup {NULL}]
      /\ NULL \notin Message /\ current \in Message
      /\ IsInjective(delayed) /\ IsInjective(normal)
  BY <1>1, <1>2, MessageAssumption DEF TypeOK, Separate, WalkAgrees
<1>4. \A a \in Message : /\ Pending(a)' <=> Pending(a)
                         /\ a # current => message_handler'[a] = message_handler[a] /\ fire_time'[a] = fire_time[a]
  BY <1>1, <1>3 DEF Pending
<1>5. /\ current \notin ToSet(delayed) /\ current \notin ToSet(normal)
      /\ \A h \in Handler : current \notin ToSet(m_messages[h])
  BY <1>2, <1>3 DEF Separate, Pending
<1>6. TypeOK'
  <2>1. TimerTypeOK'
    BY <1>1, <1>2 DEF TypeOK, TimerTypeOK, timerVars
  <2>2. message_handler' \in [Message -> Handler \cup {NULL}] /\ fire_time' \in [Message -> 0..MaxTime]
    BY <1>1, <1>3, MaxTimeAssumption
  <2> QED
    BY <1>1, <1>2, <2>1, <2>2 DEF TypeOK, Receiving
<1>7. Separate'
  <2>1. ASSUME NEW a \in Message
        PROVE  Pending(a)' => a # current
    BY <1>1, <1>3, <1>4 DEF Pending
  <2> QED
    BY <1>1, <1>2, <1>4, <1>5, <2>1 DEF Separate
<1>8. DeliveryOrder'
  <2>1. ASSUME NEW a, NEW b, Before(delayed, a, b)
        PROVE  a # current /\ b # current
    BY <1>3, <1>5, <2>1, OrderProperties
  <2>2. ASSUME NEW h \in Handler, NEW a, NEW b, Before(m_messages[h], a, b)
        PROVE  a # current /\ b # current
    <3>1. m_messages[h] \in Seq(Message) /\ IsInjective(m_messages[h]) /\ current \notin ToSet(m_messages[h])
      BY <1>2, <1>3, <1>5 DEF Separate
    <3>2. a \in ToSet(m_messages[h]) /\ b \in ToSet(m_messages[h])
      BY <2>2, <3>1, OrderProperties
    <3> QED
      BY <3>1, <3>2
  <2> QED
    BY <1>1, <1>2, <1>4, <2>1, <2>2 DEF DeliveryOrder
<1>9. WalkAgrees'
  <2>1. CASE pc = "receive_delayed"
    <3>1. ASSUME NEW m \in owed
          PROVE  m # current /\ Ahead(delayed, m)' /\ fire_time[m] <= now
      <4>1. Ahead(delayed, m) /\ fire_time[m] <= now /\ iter \in ToSet(delayed) \cup {NULL}
        BY <1>2, <2>1 DEF WalkAgrees
      <4>2. m \in ToSet(delayed)
        BY <1>3, <4>1, OrderProperties DEF Ahead
      <4> QED
        BY <1>1, <1>5, <4>1, <4>2 DEF Ahead
    <3> QED
      BY <1>1, <1>2, <1>3, <1>4, <2>1, <3>1 DEF WalkAgrees, Receiving
  <2>2. CASE pc = "receive_normal"
    BY <1>1, <1>2, <2>2 DEF WalkAgrees, Receiving, Ahead
  <2> QED
    BY <1>1, <2>1, <2>2 DEF Receiving
<1> QED
  BY <1>6, <1>7, <1>8, <1>9 DEF IInv

(* What leaves the lists alone keeps what is said of them. *)
LEMMA ListsUntouched ==
  ASSUME IInv, UNCHANGED <<delayed, normal, m_messages, message_handler, fire_time, alive, current>>
  PROVE  Separate' /\ DeliveryOrder'
<1>1. Separate /\ DeliveryOrder
  BY DEF IInv
<1>2. \A m \in Message : Pending(m)' <=> Pending(m)
  BY DEF Pending
<1>3. Separate'
  BY <1>1, <1>2 DEF Separate
<1>4. DeliveryOrder'
  BY <1>1 DEF DeliveryOrder
<1> QED
  BY <1>3, <1>4

(* A pass begins at the first delayed message. *)
LEMMA ProcessMessagesKeeps ==
  ASSUME IInv, ProcessMessages
  PROVE  IInv'
<1>1. /\ pc = "callback" /\ pc' = "delayed"
      /\ iter' = FirstOf(delayed, NULL)
      /\ owed' = {m \in ToSet(delayed) : fire_time[m] <= now}
      /\ UNCHANGED <<now, timerVars, delayed, normal, m_messages, message_handler, fire_time, alive, current, posted>>
  BY DEF ProcessMessages, queueVars
<1>2. TypeOK /\ WalkAgrees /\ delayed \in Seq(Message) /\ NULL \notin Message
  BY MessageAssumption DEF IInv, TypeOK
<1>3. Separate' /\ DeliveryOrder'
  BY <1>1, ListsUntouched
<1>4. /\ ToSet(delayed) \subseteq Message
      /\ iter' \in ToSet(delayed) \cup {NULL}
      /\ iter' = NULL => ToSet(delayed) = {}
      /\ \A m \in ToSet(delayed) : m = iter' \/ Before(delayed, iter', m)
  BY <1>1, <1>2, FirstProperties
<1>5. TypeOK'
  BY <1>1, <1>2, <1>4 DEF TypeOK, TimerTypeOK, timerVars
<1>6. WalkAgrees'
  <2>1. ASSUME NEW m \in owed'
        PROVE  Ahead(delayed, m)' /\ fire_time'[m] <= now'
    BY <1>1, <1>4 DEF Ahead
  <2> QED
    BY <1>1, <1>2, <1>4, <2>1 DEF WalkAgrees, Receiving
<1> QED
  BY <1>3, <1>5, <1>6 DEF IInv

(* When the delayed messages are done none of them is owed any more: they are
   in the order of their fire times. *)
LEMMA DelayedDoneKeeps ==
  ASSUME IInv, DelayedDone
  PROVE  IInv'
<1>1. /\ pc = "delayed" /\ pc' = "normal"
      /\ iter # NULL => now < fire_time[iter]
      /\ iter' = FirstOf(normal, NULL)
      /\ owed' = owed \cup ToSet(normal)
      /\ UNCHANGED <<now, timerVars, delayed, normal, m_messages, message_handler, fire_time, alive, current, posted>>
  BY DEF DelayedDone, queueVars
<1>2. /\ TypeOK /\ WalkAgrees /\ Separate /\ DeliveryOrder /\ normal \in Seq(Message) /\ NULL \notin Message
      /\ fire_time \in [Message -> 0..MaxTime] /\ MaxTime \in Nat /\ now \in Nat
      /\ iter \in Message \cup {NULL} /\ owed \subseteq Message
  BY MessageAssumption, MaxTimeAssumption DEF IInv, TypeOK, TimerTypeOK
<1>3. owed = {}
  <2> SUFFICES ASSUME NEW m \in owed PROVE FALSE
    OBVIOUS
  <2>1. Ahead(delayed, m) /\ fire_time[m] <= now
    BY <1>1, <1>2 DEF WalkAgrees
  <2>2. iter # NULL /\ iter \in Message /\ m \in Message
    BY <1>2, <2>1 DEF Ahead
  <2>3. fire_time[iter] \in Nat /\ fire_time[m] \in Nat
    BY <1>2, <2>2
  <2>4. PICK h \in Handler : message_handler[iter] = h
    <3>1. iter \in ToSet(delayed)
      BY <1>1, <1>2, <2>2 DEF WalkAgrees
    <3>2. Pending(iter)
      BY <1>2, <2>2, <3>1 DEF Separate
    <3> QED
      BY <1>2, <2>2, <3>2 DEF Pending, TypeOK
  <2>5. fire_time[iter] <= fire_time[m]
    BY <1>2, <2>1, <2>2, <2>3, <2>4 DEF Ahead, DeliveryOrder
  <2> QED
    BY <1>1, <1>2, <2>1, <2>2, <2>3, <2>5
<1>4. Separate' /\ DeliveryOrder'
  BY <1>1, ListsUntouched
<1>5. /\ ToSet(normal) \subseteq Message
      /\ iter' \in ToSet(normal) \cup {NULL}
      /\ iter' = NULL => ToSet(normal) = {}
      /\ \A m \in ToSet(normal) : m = iter' \/ Before(normal, iter', m)
  BY <1>1, <1>2, FirstProperties
<1>6. TypeOK'
  BY <1>1, <1>2, <1>5 DEF TypeOK, TimerTypeOK, timerVars
<1>7. WalkAgrees'
  <2>1. ASSUME NEW m \in owed'
        PROVE  Ahead(normal, m)'
    BY <1>1, <1>3, <1>5 DEF Ahead
  <2> QED
    BY <1>1, <1>2, <1>5, <2>1 DEF WalkAgrees, Receiving
<1> QED
  BY <1>4, <1>6, <1>7 DEF IInv

(* The steps that deliver nothing and walk nowhere *)
LEMMA OtherStepsKeep ==
  ASSUME IInv,
         \/ DispatchFake \/ DispatchTimer \/ CalledEarly \/ CallbackDone \/ Clock
         \/ \E h \in Handler : CreateHandler(h)
         \/ UNCHANGED vars
  PROVE  IInv'
<1> USE DEF queueVars, passVars, timerVars, vars
<1>1. /\ TypeOK /\ TimerTypeOK /\ WalkAgrees /\ Separate /\ DeliveryOrder
      /\ MaxTime \in Nat \ {0} /\ PassPosts \in Nat
  BY MessageAssumption, MaxTimeAssumption DEF IInv, TypeOK
<1>2. CASE DispatchFake
  <2>1. Separate' /\ DeliveryOrder'
    BY <1>2, ListsUntouched DEF DispatchFake, Dispatch
  <2>2. TypeOK'
    BY <1>1, <1>2 DEF DispatchFake, Dispatch, FakeMessage, TypeOK, TimerTypeOK
  <2>3. WalkAgrees'
    BY <1>1, <1>2 DEF DispatchFake, Dispatch, WalkAgrees, Receiving
  <2> QED
    BY <2>1, <2>2, <2>3 DEF IInv
<1>3. CASE DispatchTimer
  <2>1. Separate' /\ DeliveryOrder'
    BY <1>3, ListsUntouched DEF DispatchTimer, Dispatch
  <2>2. TypeOK'
    BY <1>1, <1>3 DEF DispatchTimer, Dispatch, TimerMessage, TypeOK, TimerTypeOK
  <2>3. WalkAgrees'
    BY <1>1, <1>3 DEF DispatchTimer, Dispatch, WalkAgrees, Receiving
  <2> QED
    BY <2>1, <2>2, <2>3 DEF IInv
<1>4. CASE CalledEarly
  <2>1. Separate' /\ DeliveryOrder'
    BY <1>4, ListsUntouched DEF CalledEarly
  <2>2. TimerTypeOK'
    BY <1>1, <1>4, NextTyped, RescheduleTypes DEF CalledEarly
  <2>3. TypeOK'
    BY <1>1, <1>4, <2>2 DEF CalledEarly, TypeOK
  <2>4. WalkAgrees'
    BY <1>1, <1>4 DEF CalledEarly, WalkAgrees, Receiving
  <2> QED
    BY <2>1, <2>3, <2>4 DEF IInv
<1>5. CASE CallbackDone
  <2>1. Separate' /\ DeliveryOrder'
    BY <1>5, ListsUntouched DEF CallbackDone
  <2>2. TimerTypeOK'
    BY <1>1, <1>5, NextTyped, RescheduleTypes DEF CallbackDone
  <2>3. TypeOK'
    BY <1>1, <1>5, <2>2 DEF CallbackDone, TypeOK
  <2>4. owed = {}
    BY <1>1, <1>5 DEF CallbackDone, WalkAgrees, Ahead
  <2>5. WalkAgrees'
    BY <1>1, <1>5, <2>4 DEF CallbackDone, WalkAgrees, Receiving
  <2> QED
    BY <2>1, <2>3, <2>5 DEF IInv
<1>6. CASE Clock
  <2>1. Separate' /\ DeliveryOrder'
    BY <1>6, ListsUntouched DEF Clock, Tick
  <2>2. TypeOK'
    BY <1>1, <1>6 DEF Clock, Tick, TypeOK, TimerTypeOK
  <2>3. WalkAgrees'
    <3>1. ASSUME NEW m \in owed, fire_time[m] <= now
          PROVE  fire_time[m] <= now'
      <4>1. m \in Message /\ fire_time \in [Message -> 0..MaxTime] /\ now \in Nat /\ now' = now + 1
        BY <1>1, <1>6 DEF Clock, Tick, TypeOK, TimerTypeOK
      <4>2. fire_time[m] \in Nat
        BY <1>1, <4>1
      <4> QED
        BY <3>1, <4>1, <4>2
    <3> QED
      BY <1>1, <1>6, <3>1 DEF Clock, WalkAgrees, Receiving, Ahead
  <2> QED
    BY <2>1, <2>2, <2>3 DEF IInv
<1>7. CASE \E h \in Handler : CreateHandler(h)
  <2>1. PICK h \in Handler : CreateHandler(h)
    BY <1>7
  <2>2. \A m \in Message : Pending(m)' <=> Pending(m)
    BY <2>1 DEF CreateHandler, Pending
  <2>3. Separate'
    BY <1>1, <2>1, <2>2 DEF CreateHandler, Separate
  <2>4. DeliveryOrder'
    BY <1>1, <2>1 DEF CreateHandler, DeliveryOrder
  <2>5. TypeOK'
    BY <1>1, <2>1 DEF CreateHandler, TypeOK, TimerTypeOK
  <2>6. WalkAgrees'
    BY <1>1, <2>1 DEF CreateHandler, WalkAgrees, Receiving, Ahead
  <2> QED
    BY <2>3, <2>4, <2>5, <2>6 DEF IInv
<1>8. CASE UNCHANGED vars
  <2>1. Separate' /\ DeliveryOrder'
    BY <1>8, ListsUntouched
  <2>2. TypeOK'
    BY <1>1, <1>8 DEF TypeOK, TimerTypeOK
  <2>3. WalkAgrees'
    BY <1>1, <1>8 DEF WalkAgrees, Receiving, Ahead
  <2> QED
    BY <2>1, <2>2, <2>3 DEF IInv
<1> QED
  BY <1>2, <1>3, <1>4, <1>5, <1>6, <1>7, <1>8

-----------------------------------------------------------------------------
(* Nothing is queued at first. *)
LEMMA InitKeeps == Init => IInv
<1> SUFFICES ASSUME Init PROVE IInv
  OBVIOUS
<1>1. /\ TimerInit /\ delayed = <<>> /\ normal = <<>>
      /\ m_messages = [h \in Handler |-> <<>>]
      /\ message_handler = [m \in Message |-> NULL]
      /\ fire_time = [m \in Message |-> 0]
      /\ alive = Handler /\ pc = "idle" /\ iter = NULL /\ current = NULL /\ posted = 0 /\ owed = {}
      /\ MaxTime \in Nat \ {0} /\ PassPosts \in Nat
  BY MessageAssumption, MaxTimeAssumption DEF Init
<1>2. TypeOK
  <2>1. TimerTypeOK
    <3>1. now = 1 /\ set_fire_time = MaxTime + 1 /\ timer_period = 0 /\ timer_due = 0 /\ fake = FALSE
      BY <1>1 DEF TimerInit, kNotSoon
    <3>2. 1 \in 1..MaxTime /\ MaxTime + 1 \in 0..MaxTime + 1 /\ 0 \in 0..MaxTime /\ 0 \in 0..2 * MaxTime
      BY <1>1
    <3> QED
      BY <3>1, <3>2 DEF TimerTypeOK, kNotSoon
  <2>2. <<>> \in Seq(Message) /\ m_messages \in [Handler -> Seq(Message)]
    BY <1>1
  <2>3. fire_time \in [Message -> 0..MaxTime]
    BY <1>1
  <2> QED
    BY <1>1, <2>1, <2>2, <2>3 DEF TypeOK
<1>3. ToSet(<<>>) = {} /\ IsInjective(<<>>) /\ \A a, b : ~Before(<<>>, a, b)
  BY DEF ToSet, IsInjective, Before
<1>4. Separate
  BY <1>1, <1>3 DEF Separate, Pending
<1>5. DeliveryOrder
  BY <1>1, <1>3 DEF DeliveryOrder
<1>6. WalkAgrees
  BY <1>1 DEF WalkAgrees, Receiving
<1> QED
  BY <1>2, <1>4, <1>5, <1>6 DEF IInv

(* Every step keeps the invariant. *)
LEMMA NextKeeps == IInv /\ [Next]_vars => IInv'
<1> SUFFICES ASSUME IInv, [Next]_vars PROVE IInv'
  OBVIOUS
<1>1. ASSUME NEW h \in Handler, NEW m \in Message, NEW delay \in Delays, PostMessageDelayed(h, m, delay)
      PROVE  IInv'
  <2>1. now + delay \in 0..MaxTime
    BY <1>1, MessageAssumption, MaxTimeAssumption DEF PostMessageDelayed, IInv, TypeOK, TimerTypeOK
  <2> QED
    BY <1>1, <2>1, PostMessageOnTimeKeeps DEF PostMessageDelayed
<1>2. ASSUME NEW h \in Handler, NEW m \in Message, PostMessage(h, m)
      PROVE  IInv'
  BY <1>2, PostMessageKeeps
<1>3. ASSUME NEW m \in Message, DeleteMessage(m)
      PROVE  IInv'
  BY <1>3, DeleteMessageKeeps
<1>4. ASSUME NEW h \in Handler, DestroyHandler(h)
      PROVE  IInv'
  BY <1>4, DestroyHandlerKeeps
<1>5. CASE Loop
  BY <1>5, ProcessMessagesKeeps, DelayedDoneKeeps, DeliverKeeps, ReceivedKeeps, OtherStepsKeep DEF Loop
<1>6. CASE \/ DispatchFake \/ DispatchTimer \/ Clock \/ UNCHANGED vars
           \/ \E h \in Handler : CreateHandler(h)
  BY <1>6, OtherStepsKeep
<1>7. CASE App
  BY <1>1, <1>2, <1>3, <1>4, <1>6, <1>7 DEF App
<1> QED
  BY <1>5, <1>6, <1>7 DEF Next

(* The invariant holds in every reachable state. *)
THEOREM Invariance == Spec => []IInv
BY InitKeeps, NextKeeps, PTL DEF Spec

(* The lists agree and messages are in order, whatever handlers, messages and
   delays there are. *)
THEOREM QueuesSafe == Spec => []QueuesAgree
<1>1. IInv => QueuesAgree
  BY SeparateAgrees DEF IInv, QueuesAgree
<1> QED
  BY <1>1, Invariance, PTL

(* No pass leaves behind a message that was due when it began. *)
THEOREM PassesComplete == Spec => []PassComplete
<1>1. IInv => PassComplete
  BY DEF IInv, WalkAgrees, PassComplete
<1> QED
  BY <1>1, Invariance, PTL

-----------------------------------------------------------------------------
(* The timer *)

Wakes(time) == fake \/ (timer_period > 0 /\ timer_due <= time)

(* What the platform was asked for is never later than the first message;
   except while timer_callback decides what to do, the timer elapses by then if
   that is still to come, and whenever a message that this pass will not deliver
   has that very fire time, since ReschedulePlatformTimer does nothing when it
   is asked for it again. *)
TimerInv ==
  /\ set_fire_time <= GetNextMessageFireTime
  /\ pc # "callback" /\ now < set_fire_time /\ set_fire_time <= MaxTime => Wakes(set_fire_time)
  /\ pc \notin {"idle", "callback"} /\ set_fire_time >= 1 =>
       \A m \in ToSet(delayed) \ owed : fire_time[m] = set_fire_time => Wakes(set_fire_time)
  /\ WakeupScheduled

(* The later of the two: the next message's fire time, or at once *)
Soonest(time) == IF time > now THEN time ELSE now + 1

(* The timer is set for t, unless it was already asked for t. *)
LEMMA RescheduleWakes ==
  ASSUME TimerTypeOK, NEW t \in 0..MaxTime, NEW force \in BOOLEAN, ReschedulePlatformTimer(t, force), now' = now
  PROVE  /\ set_fire_time' = t
         /\ \/ ~force /\ t # 0 /\ t = set_fire_time /\ UNCHANGED timerVars
            \/ fake' \/ (timer_period' > 0 /\ timer_due' <= Soonest(t))
<1>1. MaxTime \in Nat \ {0} /\ now \in Nat /\ t # kNotSoon /\ t \in Nat
  BY MaxTimeAssumption DEF TimerTypeOK, kNotSoon
<1>2. CASE /\ set_fire_time' = t
           /\ glfwRescheduleTimer(IF t < now THEN 0 ELSE t - now)
  <2> DEFINE d == IF t < now THEN 0 ELSE t - now
             period == IF d = 0 THEN 1 ELSE d
  <2>1. period > 0 /\ now + period <= Soonest(t)
    BY <1>1 DEF Soonest
  <2>2. \/ fake' = TRUE
        \/ timer_period' = period /\ timer_due' = now + period
    BY <1>2 DEF glfwRescheduleTimer, SetTimer
  <2> HIDE DEF period
  <2> QED
    BY <1>2, <2>1, <2>2
<1>3. CASE ~(t # set_fire_time \/ force \/ t = 0) /\ UNCHANGED timerVars
  BY <1>3 DEF timerVars
<1> QED
  BY <1>1, <1>2, <1>3 DEF ReschedulePlatformTimer

(* GetNextMessageFireTime is the least of the fire times. *)
LEMMA NextLeast ==
  ASSUME IInv
  PROVE  /\ GetNextMessageFireTime \in 0..kNotSoon /\ MaxTime \in Nat \ {0}
         /\ \A m \in ToSet(delayed) : m \in Message /\ fire_time[m] \in Nat /\ GetNextMessageFireTime <= fire_time[m]
         /\ ToSet(normal) # {} => GetNextMessageFireTime = 0
<1>1. /\ TypeOK /\ Separate /\ DeliveryOrder /\ MaxTime \in Nat \ {0} /\ NULL \notin Message
      /\ delayed \in Seq(Message) /\ normal \in Seq(Message) /\ fire_time \in [Message -> 0..MaxTime]
  BY MessageAssumption, MaxTimeAssumption DEF IInv, TypeOK
<1>2. GetNextMessageFireTime \in 0..kNotSoon
  BY <1>1, NextTyped
<1>3. ToSet(delayed) \subseteq Message /\ (normal = <<>> <=> ToSet(normal) = {})
      /\ (delayed = <<>> <=> ToSet(delayed) = {})
      /\ (delayed # <<>> => /\ Head(delayed) \in ToSet(delayed)
                            /\ \A b \in ToSet(delayed) : b = Head(delayed) \/ Before(delayed, Head(delayed), b))
  BY <1>1, FirstProperties
<1>4. ToSet(normal) # {} => GetNextMessageFireTime = 0
  BY <1>3 DEF GetNextMessageFireTime
<1>5. ASSUME NEW m \in ToSet(delayed)
      PROVE  m \in Message /\ fire_time[m] \in Nat /\ GetNextMessageFireTime <= fire_time[m]
  <2>1. m \in Message /\ fire_time[m] \in Nat
    BY <1>1, <1>3
  <2>2. PICK h \in Handler : message_handler[m] = h
    BY <1>1, <2>1 DEF Separate, Pending, TypeOK
  <2>3. CASE normal # <<>>
    BY <2>1, <2>3 DEF GetNextMessageFireTime
  <2>4. CASE normal = <<>>
    <3>1. delayed # <<>> /\ GetNextMessageFireTime = fire_time[Head(delayed)]
      BY <1>3, <2>4 DEF GetNextMessageFireTime
    <3>2. Head(delayed) \in Message /\ (m = Head(delayed) \/ Before(delayed, Head(delayed), m))
      BY <1>3, <3>1
    <3>3. fire_time[Head(delayed)] \in Nat
      BY <1>1, <3>2
    <3> QED
      BY <1>1, <2>1, <2>2, <3>1, <3>2, <3>3 DEF DeliveryOrder
  <2> QED
    BY <2>1, <2>3, <2>4
<1> QED
  BY <1>1, <1>2, <1>4, <1>5

(* Taking messages away does not make the next fire time earlier. *)
LEMMA NextGrows ==
  ASSUME IInv, IInv', ToSet(delayed') \subseteq ToSet(delayed), ToSet(normal') \subseteq ToSet(normal),
         \A m \in ToSet(delayed') : fire_time'[m] = fire_time[m]
  PROVE  GetNextMessageFireTime <= GetNextMessageFireTime'
<1>1. /\ GetNextMessageFireTime \in 0..kNotSoon /\ MaxTime \in Nat
      /\ \A m \in ToSet(delayed) : fire_time[m] \in Nat /\ GetNextMessageFireTime <= fire_time[m]
      /\ ToSet(normal) # {} => GetNextMessageFireTime = 0
  BY NextLeast
<1>2. /\ delayed' \in Seq(Message) /\ normal' \in Seq(Message) /\ NULL \notin Message
  BY MessageAssumption DEF IInv, TypeOK
<1>3. /\ normal' = <<>> <=> ToSet(normal') = {}
      /\ delayed' # <<>> => Head(delayed') \in ToSet(delayed')
  BY <1>2, FirstProperties
<1>4. CASE normal' # <<>>
  BY <1>1, <1>3, <1>4 DEF GetNextMessageFireTime
<1>5. CASE normal' = <<>> /\ delayed' # <<>>
  BY <1>1, <1>3, <1>5 DEF GetNextMessageFireTime
<1>6. CASE normal' = <<>> /\ delayed' = <<>>
  BY <1>1, <1>6 DEF GetNextMessageFireTime, kNotSoon
<1> QED
  BY <1>4, <1>5, <1>6

(* The steps that leave the timer and the clock alone and take messages away,
   or none, outside timer_callback's own decision *)
LEMMA QuietKeepsTimer ==
  ASSUME IInv, IInv', TimerInv, UNCHANGED <<now, timerVars>>,
         ToSet(delayed') \subseteq ToSet(delayed), ToSet(normal') \subseteq ToSet(normal),
         \A m \in ToSet(delayed') : fire_time'[m] = fire_time[m],
         pc # "callback", pc = "idle" <=> pc' = "idle",
         pc # "idle" => ToSet(delayed') \ owed' \subseteq ToSet(delayed) \ owed
  PROVE  TimerInv'
<1>1. /\ GetNextMessageFireTime <= GetNextMessageFireTime'
      /\ GetNextMessageFireTime \in Nat /\ GetNextMessageFireTime' \in 0..kNotSoon
      /\ MaxTime \in Nat /\ now \in Nat /\ set_fire_time \in Nat
      /\ timer_period \in Nat /\ timer_due \in Nat
  <2>1. GetNextMessageFireTime \in 0..kNotSoon /\ GetNextMessageFireTime' \in 0..kNotSoon /\ MaxTime \in Nat
    <3>1. (TypeOK => GetNextMessageFireTime \in 0..kNotSoon)'
      BY NextTyped, PTL
    <3> QED
      BY <3>1, NextTyped, MaxTimeAssumption DEF IInv, kNotSoon
  <2>2. now \in Nat /\ set_fire_time \in Nat /\ timer_period \in Nat /\ timer_due \in Nat
    BY <2>1 DEF IInv, TypeOK, TimerTypeOK, kNotSoon
  <2> QED
    BY <2>1, <2>2, NextGrows DEF kNotSoon
<1> DEFINE next == GetNextMessageFireTime
<1>2. \A time : Wakes(time)' <=> Wakes(time)
  BY DEF Wakes, timerVars
<1>3. set_fire_time' <= GetNextMessageFireTime'
  BY <1>1 DEF TimerInv, timerVars
<1>4. pc' # "callback" /\ now' < set_fire_time' /\ set_fire_time' <= MaxTime => Wakes(set_fire_time)'
  BY <1>2 DEF TimerInv, timerVars, Wakes
<1>5. ASSUME pc' \notin {"idle", "callback"}, set_fire_time' >= 1, NEW m \in ToSet(delayed') \ owed',
             fire_time'[m] = set_fire_time'
      PROVE  Wakes(set_fire_time)'
  BY <1>5 DEF TimerInv, timerVars, Wakes
<1>6. WakeupScheduled'
  <2> SUFFICES ASSUME pc' = "idle", GetNextMessageFireTime' # kNotSoon
               PROVE  Wakes(Soonest(GetNextMessageFireTime))'
    BY DEF WakeupScheduled, Wakes, Soonest
  <2>1. pc = "idle" /\ GetNextMessageFireTime # kNotSoon
    BY <1>1 DEF kNotSoon
  <2>2. Wakes(Soonest(GetNextMessageFireTime))
    BY <2>1 DEF TimerInv, WakeupScheduled, Wakes, Soonest
  <2>3. Soonest(GetNextMessageFireTime) <= Soonest(GetNextMessageFireTime)' /\ Soonest(GetNextMessageFireTime) \in Nat
        /\ Soonest(GetNextMessageFireTime)' \in Nat
    BY <1>1 DEF Soonest, kNotSoon
  <2> QED
    BY <1>1, <2>2, <2>3 DEF Wakes, timerVars
<1> QED
  BY <1>3, <1>4, <1>5, <1>6 DEF TimerInv

(* With messages gone the next one can only be later. *)
LEMMA DeletingKeepsTimer ==
  ASSUME IInv, TimerInv,
         \/ \E m \in Message : DeleteMessage(m)
         \/ \E h \in Handler : DestroyHandler(h)
  PROVE  TimerInv'
<1>1. PICK gone \in SUBSET Message : AppCode /\ Deleted(gone)
  <2>1. \A h \in Handler : ToSet(m_messages[h]) \subseteq Message
    <3>1. \A h \in Handler : m_messages[h] \in Seq(Message)
      BY DEF IInv, TypeOK
    <3> QED
      BY <3>1 DEF ToSet
  <2> QED
    BY <2>1 DEF DeleteMessage, DestroyHandler
<1>2. IInv'
  BY DeleteMessageKeeps, DestroyHandlerKeeps
<1>3. delayed \in Seq(Message) /\ normal \in Seq(Message) /\ fire_time \in [Message -> 0..MaxTime]
  BY DEF IInv, TypeOK
<1>4. ToSet(delayed') = ToSet(delayed) \ gone /\ ToSet(normal') = ToSet(normal) \ gone
  BY <1>1, <1>3, WithoutProperties DEF Deleted
<1>5. \A m \in ToSet(delayed') : fire_time'[m] = fire_time[m]
  <2>1. ToSet(delayed) \subseteq Message
    BY <1>3 DEF ToSet
  <2> QED
    BY <1>1, <1>4, <2>1 DEF Deleted
<1>6. UNCHANGED <<now, timerVars>> /\ pc # "callback" /\ pc' = pc /\ owed' = owed \ gone
  BY <1>1 DEF Deleted, AppCode, Receiving
<1> QED
  BY <1>2, <1>4, <1>5, <1>6, QuietKeepsTimer

(* A delivery takes messages off the lists and leaves the timer, which the
   callback that runs the pass sets when it ends. *)
LEMMA DeliveringKeepsTimer ==
  ASSUME IInv, TimerInv, DeliverDelayed \/ DeliverNormal \/ Received \/ DelayedDone
  PROVE  TimerInv'
<1>1. IInv'
  BY DeliverKeeps, ReceivedKeeps, DelayedDoneKeeps
<1>2. /\ delayed \in Seq(Message) /\ normal \in Seq(Message) /\ fire_time \in [Message -> 0..MaxTime]
      /\ Separate /\ WalkAgrees /\ ToSet(delayed) \subseteq Message
  BY DEF IInv, TypeOK, ToSet
<1>3. CASE DeliverDelayed
  <2>1. ToSet(delayed') = ToSet(delayed) \ {iter} /\ normal' = normal
    BY <1>2, <1>3, WithoutProperties DEF DeliverDelayed
  <2>2. UNCHANGED <<now, timerVars, fire_time>> /\ pc = "delayed" /\ pc' = "receive_delayed" /\ owed' = owed \ {iter}
    BY <1>3 DEF DeliverDelayed, Deliver
  <2> QED
    BY <1>1, <2>1, <2>2, QuietKeepsTimer
<1>4. CASE DeliverNormal
  <2>1. ToSet(normal') = ToSet(normal) \ {iter} /\ delayed' = delayed
    BY <1>2, <1>4, WithoutProperties DEF DeliverNormal
  <2>2. UNCHANGED <<now, timerVars, fire_time>> /\ pc = "normal" /\ pc' = "receive_normal" /\ owed' = owed \ {iter}
    BY <1>4 DEF DeliverNormal, Deliver
  <2>3. iter \notin ToSet(delayed)
    BY <1>2, <1>4 DEF DeliverNormal, Separate, WalkAgrees
  <2>4. ToSet(delayed') \ owed' \subseteq ToSet(delayed) \ owed
    BY <2>1, <2>2, <2>3
  <2> QED
    BY <1>1, <2>1, <2>2, <2>4, QuietKeepsTimer
<1>5. CASE Received
  <2>1. UNCHANGED <<now, timerVars, delayed, normal, owed>> /\ pc \notin {"idle", "callback"} /\ pc' \notin {"idle", "callback"}
    BY <1>5 DEF Received, Receiving
  <2>2. ASSUME NEW m \in ToSet(delayed)
        PROVE  fire_time'[m] = fire_time[m]
    <3>1. m \in Message /\ m # current
      BY <1>2 DEF Separate, Pending
    <3> QED
      BY <1>2, <1>5, <3>1 DEF Received
  <2> QED
    BY <1>1, <2>1, <2>2, QuietKeepsTimer
<1>6. CASE DelayedDone
  <2>1. UNCHANGED <<now, timerVars, delayed, normal, fire_time>> /\ owed' = owed \cup ToSet(normal)
        /\ pc = "delayed" /\ pc' = "normal"
    BY <1>6 DEF DelayedDone, queueVars
  <2> QED
    BY <1>1, <2>1, QuietKeepsTimer
<1> QED
  BY <1>3, <1>4, <1>5, <1>6

(* When the callback goes on to ProcessMessages the time it asked for has
   come. *)
LEMMA ProcessMessagesKeepsTimer ==
  ASSUME IInv, TimerInv, ProcessMessages
  PROVE  TimerInv'
<1>1. /\ pc = "callback" /\ pc' = "delayed" /\ now >= GetNextMessageFireTime
      /\ owed' = {m \in ToSet(delayed) : fire_time[m] <= now}
      /\ UNCHANGED <<now, timerVars, delayed, normal, fire_time>>
  BY DEF ProcessMessages, queueVars
<1>2. /\ GetNextMessageFireTime \in 0..kNotSoon /\ MaxTime \in Nat \ {0}
      /\ \A m \in ToSet(delayed) : fire_time[m] \in Nat
  BY NextLeast
<1>3. now \in Nat /\ set_fire_time \in Nat /\ set_fire_time <= GetNextMessageFireTime
  BY <1>2 DEF IInv, TypeOK, TimerTypeOK, kNotSoon, TimerInv
<1>4. set_fire_time <= now
  BY <1>1, <1>2, <1>3 DEF kNotSoon
<1>5. GetNextMessageFireTime' = GetNextMessageFireTime
  BY <1>1 DEF GetNextMessageFireTime, kNotSoon
<1>6. \A m \in ToSet(delayed') \ owed' : fire_time'[m] # set_fire_time'
  BY <1>1, <1>2, <1>3, <1>4 DEF timerVars
<1> QED
  BY <1>1, <1>3, <1>4, <1>5, <1>6 DEF TimerInv, WakeupScheduled, timerVars

(* A timer message leads to timer_callback, whose decision is still to come. *)
LEMMA DispatchKeepsTimer ==
  ASSUME IInv, TimerInv, DispatchFake \/ DispatchTimer
  PROVE  TimerInv'
<1>1. pc' = "callback" /\ UNCHANGED <<queueVars, set_fire_time>>
  BY DEF DispatchFake, DispatchTimer, Dispatch, FakeMessage, TimerMessage
<1>2. GetNextMessageFireTime' = GetNextMessageFireTime
  BY <1>1 DEF GetNextMessageFireTime, queueVars, kNotSoon
<1> QED
  BY <1>1, <1>2 DEF TimerInv, WakeupScheduled

(* timer_callback sets the timer again when it was called too early. *)
LEMMA CalledEarlyKeepsTimer ==
  ASSUME IInv, TimerInv, CalledEarly
  PROVE  TimerInv'
<1>1. /\ now < GetNextMessageFireTime /\ ReschedulePlatformTimer(GetNextMessageFireTime, TRUE)
      /\ pc' = "idle" /\ UNCHANGED <<now, queueVars>>
  BY DEF CalledEarly
<1>2. /\ GetNextMessageFireTime' = GetNextMessageFireTime
      /\ GetNextMessageFireTime \in 0..kNotSoon /\ MaxTime \in Nat \ {0} /\ TimerTypeOK /\ now \in Nat
  BY <1>1, NextLeast, MaxTimeAssumption DEF GetNextMessageFireTime, queueVars, kNotSoon, IInv, TypeOK, TimerTypeOK
<1>3. CASE GetNextMessageFireTime = kNotSoon
  <2>1. set_fire_time' = kNotSoon
    BY <1>1, <1>3 DEF ReschedulePlatformTimer
  <2> QED
    BY <1>1, <1>2, <1>3, <2>1 DEF TimerInv, WakeupScheduled, kNotSoon
<1>4. CASE GetNextMessageFireTime # kNotSoon
  <2>1. GetNextMessageFireTime \in 0..MaxTime
    BY <1>2, <1>4 DEF kNotSoon
  <2>2. /\ set_fire_time' = GetNextMessageFireTime
        /\ fake' \/ (timer_period' > 0 /\ timer_due' <= Soonest(GetNextMessageFireTime))
    BY <1>1, <1>2, <2>1, RescheduleWakes
  <2>3. Soonest(GetNextMessageFireTime) = GetNextMessageFireTime
    BY <1>1 DEF Soonest
  <2> QED
    BY <1>1, <1>2, <2>1, <2>2, <2>3 DEF TimerInv, WakeupScheduled, Wakes
<1> QED
  BY <1>3, <1>4

(* At the end of the callback the timer is set for what is left. *)
LEMMA CallbackDoneKeepsTimer ==
  ASSUME IInv, TimerInv, CallbackDone
  PROVE  TimerInv'
<1>1. /\ pc = "normal" /\ iter = NULL /\ ReschedulePlatformTimer(GetNextMessageFireTime, FALSE)
      /\ pc' = "idle" /\ UNCHANGED <<now, queueVars>>
  BY DEF CallbackDone, RescheduleTimer
<1>2. /\ GetNextMessageFireTime' = GetNextMessageFireTime
      /\ GetNextMessageFireTime \in 0..kNotSoon /\ MaxTime \in Nat \ {0} /\ TimerTypeOK /\ now \in Nat
      /\ timer_due \in Nat
  BY <1>1, NextLeast, MaxTimeAssumption DEF GetNextMessageFireTime, queueVars, kNotSoon, IInv, TypeOK, TimerTypeOK
<1>3. CASE GetNextMessageFireTime = kNotSoon
  <2>1. set_fire_time' = kNotSoon
    BY <1>1, <1>3 DEF ReschedulePlatformTimer
  <2> QED
    BY <1>1, <1>2, <1>3, <2>1 DEF TimerInv, WakeupScheduled, kNotSoon
<1>4. CASE GetNextMessageFireTime # kNotSoon
  <2>1. GetNextMessageFireTime \in 0..MaxTime
    BY <1>2, <1>4 DEF kNotSoon
  <2>2. /\ set_fire_time' = GetNextMessageFireTime
        /\ \/ /\ GetNextMessageFireTime # 0 /\ GetNextMessageFireTime = set_fire_time /\ UNCHANGED timerVars
           \/ fake' \/ (timer_period' > 0 /\ timer_due' <= Soonest(GetNextMessageFireTime))
    BY <1>1, <1>2, <2>1, RescheduleWakes
  <2>3. CASE fake' \/ (timer_period' > 0 /\ timer_due' <= Soonest(GetNextMessageFireTime))
    BY <1>1, <1>2, <2>1, <2>2, <2>3 DEF TimerInv, WakeupScheduled, Wakes, Soonest
  <2>4. CASE GetNextMessageFireTime # 0 /\ GetNextMessageFireTime = set_fire_time /\ UNCHANGED timerVars
    <3>1. owed = {}
      BY <1>1 DEF IInv, WalkAgrees, Ahead
    <3>2. normal = <<>> /\ delayed # <<>> /\ GetNextMessageFireTime = fire_time[Head(delayed)]
      BY <1>4, <2>4 DEF GetNextMessageFireTime
    <3>3. Head(delayed) \in ToSet(delayed) \ owed
      BY <3>1, <3>2, MessageAssumption, FirstProperties DEF IInv, TypeOK
    <3>4. Wakes(set_fire_time)
      BY <1>1, <2>1, <2>4, <3>2, <3>3 DEF TimerInv
    <3>5. Wakes(set_fire_time)' /\ set_fire_time' = set_fire_time
      BY <2>4, <3>4 DEF Wakes, timerVars
    <3>6. set_fire_time <= Soonest(GetNextMessageFireTime) /\ Soonest(GetNextMessageFireTime) \in Nat
      BY <1>2, <2>1, <2>4 DEF Soonest
    <3>7. WakeupScheduled'
      BY <1>1, <1>2, <2>1, <2>4, <3>4, <3>6 DEF WakeupScheduled, Wakes, Soonest, timerVars
    <3> QED
      BY <1>1, <1>2, <2>1, <2>4, <3>5, <3>7 DEF TimerInv
  <2> QED
    BY <2>2, <2>3, <2>4
<1> QED
  BY <1>3, <1>4

(* The clock does not pass the time of a timer that is due. *)
LEMMA ClockKeepsTimer ==
  ASSUME IInv, TimerInv, Clock
  PROVE  TimerInv'
<1>1. /\ now \in Nat /\ now' = now + 1
      /\ UNCHANGED <<timerVars, queueVars, passVars>>
  BY MaxTimeAssumption DEF Clock, Tick, IInv, TypeOK, TimerTypeOK
<1>2. /\ GetNextMessageFireTime' = GetNextMessageFireTime
      /\ GetNextMessageFireTime \in Nat /\ set_fire_time \in Nat /\ timer_due \in Nat
  <2>1. GetNextMessageFireTime \in 0..kNotSoon /\ MaxTime \in Nat
    BY NextLeast
  <2> QED
    BY <1>1, <2>1 DEF GetNextMessageFireTime, queueVars, kNotSoon, IInv, TypeOK, TimerTypeOK
<1>3. \A time : Wakes(time)' <=> Wakes(time)
  BY <1>1 DEF Wakes, timerVars
<1>4. Soonest(GetNextMessageFireTime) <= Soonest(GetNextMessageFireTime)'
      /\ Soonest(GetNextMessageFireTime) \in Nat /\ Soonest(GetNextMessageFireTime)' \in Nat
  BY <1>1, <1>2 DEF Soonest
<1>5. WakeupScheduled'
  <2> SUFFICES ASSUME pc' = "idle", GetNextMessageFireTime' # kNotSoon
               PROVE  Wakes(Soonest(GetNextMessageFireTime))'
    BY DEF WakeupScheduled, Wakes, Soonest
  <2>1. Wakes(Soonest(GetNextMessageFireTime))
    BY <1>1, <1>2 DEF TimerInv, WakeupScheduled, Wakes, Soonest, passVars
  <2> QED
    BY <1>1, <1>2, <1>4, <2>1 DEF Wakes, timerVars
<1>6. pc' # "callback" /\ now' < set_fire_time' /\ set_fire_time' <= MaxTime => Wakes(set_fire_time)'
  BY <1>1, <1>2 DEF TimerInv, Wakes, timerVars, passVars
<1> QED
  BY <1>1, <1>2, <1>5, <1>6 DEF TimerInv, Wakes, timerVars, queueVars, passVars

(* A message posted with a delay fires after now; it is the next one when it is
   put first. *)
LEMMA PostMessageOnTimeKeepsTimer ==
  ASSUME IInv, TimerInv, NEW h \in Handler, NEW m \in Message, NEW t \in 0..MaxTime, now < t,
         PostMessageOnTime(h, m, t)
  PROVE  TimerInv'
<1>1. /\ NewMessage(h, m, t) /\ normal' = normal /\ AppCode
      /\ UNCHANGED <<now, pc, iter, owed>>
  BY DEF PostMessageOnTime, NewMessage, passVars
<1>2. PICK i \in 1..Len(delayed) + 1 :
        /\ delayed' = InsertAt(delayed, i, m)
        /\ IF normal = <<>> /\ i = 1 THEN RescheduleTimer(t) ELSE UNCHANGED timerVars
  BY DEF PostMessageOnTime
<1>3. /\ delayed \in Seq(Message) /\ fire_time \in [Message -> 0..MaxTime] /\ TimerTypeOK /\ now \in Nat
      /\ set_fire_time \in Nat /\ timer_due \in Nat /\ TypeOK /\ MaxTime \in Nat /\ owed \subseteq Message
  BY MaxTimeAssumption DEF IInv, TypeOK, TimerTypeOK, kNotSoon
<1>4. /\ m \notin ToSet(delayed) /\ fire_time'[m] = t
      /\ \A a \in Message : a # m => fire_time'[a] = fire_time[a]
  <2>1. Adds(h, m, t)
    BY <1>1, NewMessageAdds
  <2> QED
    BY <2>1 DEF Adds
<1>5. /\ ToSet(delayed') = ToSet(delayed) \cup {m} /\ ToSet(delayed) \subseteq Message
      /\ Len(delayed') = Len(delayed) + 1
      /\ Head(delayed') = IF i = 1 THEN m ELSE Head(delayed)
      /\ i # 1 => delayed # <<>>
      /\ delayed' # <<>>
  <2>1. /\ delayed' \in Seq(Message) /\ Len(delayed') = Len(delayed) + 1
        /\ \A j \in 1..Len(delayed) + 1 :
             delayed'[j] = IF j < i THEN delayed[j] ELSE IF j = i THEN m ELSE delayed[j - 1]
    <3>1. InsertAt(delayed, i, m) \in Seq(Message) /\ IsInserted(InsertAt(delayed, i, m), delayed, i, m)
      BY <1>3, InsertedAt
    <3>2. delayed' \in Seq(Message) /\ IsInserted(delayed', delayed, i, m)
      BY <1>2, <3>1
    <3> QED
      BY <3>2 DEF IsInserted
  <2>2. ToSet(delayed') = ToSet(delayed) \cup {m}
    BY <1>2, <1>3, InsertedProperties
  <2>3. delayed' # <<>> /\ Head(delayed') = delayed'[1]
    BY <1>3, <2>1
  <2>4. i # 1 => delayed # <<>> /\ Head(delayed) = delayed[1] /\ 1 < i
    BY <1>3
  <2>5. 1 \in 1..Len(delayed) + 1
    BY <1>3
  <2>6. Head(delayed') = IF i = 1 THEN m ELSE Head(delayed)
    BY <2>1, <2>3, <2>4, <2>5
  <2>7. ToSet(delayed) \subseteq Message
    BY <1>3 DEF ToSet
  <2> QED
    BY <2>1, <2>2, <2>3, <2>4, <2>6, <2>7
<1>6. delayed # <<>> => Head(delayed) \in ToSet(delayed)
  BY <1>3, MessageAssumption, FirstProperties
<1>7. GetNextMessageFireTime' = IF normal # <<>> THEN 0 ELSE IF i = 1 THEN t ELSE GetNextMessageFireTime
  BY <1>1, <1>4, <1>5, <1>6 DEF GetNextMessageFireTime
<1>8. pc # "callback" /\ t \in Nat /\ GetNextMessageFireTime \in Nat
  <2>1. GetNextMessageFireTime \in 0..kNotSoon
    BY NextLeast
  <2> QED
    BY <1>1, <1>3, <2>1 DEF AppCode, Receiving, kNotSoon
<1>9. ASSUME pc # "idle", set_fire_time' = t => Wakes(t)', set_fire_time' # t => UNCHANGED timerVars
      PROVE  set_fire_time' >= 1 =>
               \A a \in ToSet(delayed') \ owed' : fire_time'[a] = set_fire_time' => Wakes(set_fire_time)'
  <2> SUFFICES ASSUME NEW a \in ToSet(delayed') \ owed', fire_time'[a] = set_fire_time',
                      set_fire_time' >= 1, set_fire_time' # t
               PROVE  Wakes(set_fire_time)'
    BY <1>9 DEF Wakes
  <2>1. a # m
    BY <1>4
  <2>2. a \in ToSet(delayed) \ owed /\ fire_time[a] = set_fire_time
    BY <1>1, <1>4, <1>5, <1>9, <2>1 DEF timerVars
  <2>3. Wakes(set_fire_time)
    BY <1>8, <1>9, <2>2 DEF TimerInv, timerVars
  <2> QED
    BY <1>9, <2>3 DEF Wakes, timerVars
<1>10. CASE normal = <<>> /\ i = 1
  <2>1. ReschedulePlatformTimer(t, FALSE)
    BY <1>2, <1>10 DEF RescheduleTimer
  <2>2. /\ set_fire_time' = t
        /\ \/ t = set_fire_time /\ UNCHANGED timerVars
           \/ fake' \/ (timer_period' > 0 /\ timer_due' <= Soonest(t))
    BY <1>1, <1>3, <2>1, RescheduleWakes
  <2>3. Soonest(t) = t
    BY DEF Soonest
  <2>4. Wakes(t)'
    <3>1. CASE t = set_fire_time /\ UNCHANGED timerVars
      <4>1. Wakes(t)
        BY <1>3, <1>8, <3>1 DEF TimerInv
      <4> QED
        BY <3>1, <4>1 DEF Wakes, timerVars
    <3>2. CASE fake' \/ (timer_period' > 0 /\ timer_due' <= t)
      BY <3>2 DEF Wakes
    <3> QED
      BY <2>2, <2>3, <3>1, <3>2
  <2>5. GetNextMessageFireTime' = t
    BY <1>7, <1>10
  <2>6. WakeupScheduled'
    BY <1>1, <2>4, <2>5 DEF WakeupScheduled, Wakes
  <2>7. pc' # "idle" => (set_fire_time' >= 1 =>
          \A a \in ToSet(delayed') \ owed' : fire_time'[a] = set_fire_time' => Wakes(set_fire_time)')
    BY <1>1, <1>9, <2>2, <2>4
  <2> QED
    BY <1>1, <1>8, <2>2, <2>4, <2>5, <2>6, <2>7 DEF TimerInv, Wakes
<1>11. CASE ~(normal = <<>> /\ i = 1)
  <2>1. UNCHANGED timerVars
    BY <1>2, <1>11
  <2>2. GetNextMessageFireTime' = GetNextMessageFireTime
    BY <1>7, <1>11 DEF GetNextMessageFireTime
  <2>3. set_fire_time = t => Wakes(t)
    BY <1>3, <1>8 DEF TimerInv
  <2>4. set_fire_time' = t => Wakes(t)'
    BY <2>1, <2>3 DEF Wakes, timerVars
  <2>5. pc' # "idle" => (set_fire_time' >= 1 =>
          \A a \in ToSet(delayed') \ owed' : fire_time'[a] = set_fire_time' => Wakes(set_fire_time)')
    BY <1>1, <1>9, <2>1, <2>4
  <2>6. WakeupScheduled'
    BY <1>1, <2>1, <2>2 DEF TimerInv, WakeupScheduled, timerVars, kNotSoon
  <2> QED
    BY <1>1, <1>8, <2>1, <2>2, <2>5, <2>6 DEF TimerInv, Wakes, timerVars
<1> QED
  BY <1>10, <1>11

(* The first normal message has the loop called at once. *)
LEMMA PostMessageKeepsTimer ==
  ASSUME IInv, TimerInv, NEW h \in Handler, NEW m \in Message, PostMessage(h, m)
  PROVE  TimerInv'
<1>1. /\ NewMessage(h, m, 0) /\ delayed' = delayed /\ normal' = Append(normal, m) /\ AppCode
      /\ IF normal = <<>> THEN RescheduleTimer(0) ELSE UNCHANGED timerVars
      /\ UNCHANGED <<now, pc, iter, owed>> /\ 0 \in 0..MaxTime
  BY MaxTimeAssumption DEF PostMessage, NewMessage, passVars
<1>2. /\ delayed \in Seq(Message) /\ normal \in Seq(Message) /\ fire_time \in [Message -> 0..MaxTime]
      /\ TimerTypeOK /\ now \in Nat /\ set_fire_time \in Nat /\ MaxTime \in Nat
  BY MaxTimeAssumption DEF IInv, TypeOK, TimerTypeOK, kNotSoon
<1>3. GetNextMessageFireTime' = 0
  <2>1. normal' # <<>>
    BY <1>1, <1>2
  <2> QED
    BY <2>1 DEF GetNextMessageFireTime
<1>4. CASE normal = <<>>
  <2>1. /\ set_fire_time' = 0
        /\ fake' \/ (timer_period' > 0 /\ timer_due' <= Soonest(0))
    BY <1>1, <1>2, <1>4, RescheduleWakes DEF RescheduleTimer
  <2>2. WakeupScheduled'
    BY <1>1, <1>2, <1>3, <2>1 DEF WakeupScheduled, Soonest
  <2> QED
    BY <1>1, <1>2, <1>3, <2>1, <2>2 DEF TimerInv
<1>5. CASE normal # <<>>
  <2>1. UNCHANGED timerVars /\ GetNextMessageFireTime = 0
    BY <1>1, <1>5 DEF GetNextMessageFireTime
  <2>2. set_fire_time = 0 /\ set_fire_time' = 0
    BY <1>2, <2>1 DEF TimerInv, timerVars
  <2>3. WakeupScheduled'
    BY <1>1, <1>2, <1>3, <2>1 DEF TimerInv, WakeupScheduled, timerVars, kNotSoon
  <2> QED
    BY <1>1, <1>2, <1>3, <2>2, <2>3 DEF TimerInv
<1> QED
  BY <1>4, <1>5

(* The steps that change neither the timer nor what it is set for *)
LEMMA OthersKeepTimer ==
  ASSUME IInv, TimerInv, \/ \E h \in Handler : CreateHandler(h)
                         \/ UNCHANGED vars
  PROVE  TimerInv'
<1>1. UNCHANGED <<now, timerVars, queueVars, passVars>>
  BY DEF CreateHandler, vars
<1>2. GetNextMessageFireTime' = GetNextMessageFireTime
  BY <1>1 DEF GetNextMessageFireTime, queueVars, kNotSoon
<1> QED
  BY <1>1, <1>2 DEF TimerInv, WakeupScheduled, Wakes, timerVars, queueVars, passVars, kNotSoon

(* As long as messages are not posted with delay 0, a wake-up is scheduled
   between callbacks, no later than the next message's fire time or at once.
   (With delay 0 it is not: a message posted for the millisecond that the
   platform was last asked for sets no timer.) *)
THEOREM WakeupsScheduled ==
  ASSUME 0 \notin Delays
  PROVE  Spec => []WakeupScheduled
<1>1. Init => TimerInv
  <2> SUFFICES ASSUME Init PROVE TimerInv
    OBVIOUS
  <2>1. GetNextMessageFireTime = kNotSoon /\ set_fire_time = kNotSoon /\ MaxTime \in Nat /\ pc = "idle"
    BY MaxTimeAssumption DEF Init, TimerInit, GetNextMessageFireTime
  <2> QED
    BY <2>1 DEF TimerInv, WakeupScheduled, kNotSoon
<1>2. IInv /\ TimerInv /\ [Next]_vars => TimerInv'
  <2> SUFFICES ASSUME IInv, TimerInv, [Next]_vars PROVE TimerInv'
    OBVIOUS
  <2>1. ASSUME NEW h \in Handler, NEW m \in Message, NEW delay \in Delays, PostMessageDelayed(h, m, delay)
        PROVE  TimerInv'
    <3>1. now + delay \in 0..MaxTime /\ now < now + delay
      BY <2>1, MessageAssumption, MaxTimeAssumption DEF PostMessageDelayed, IInv, TypeOK, TimerTypeOK
    <3> QED
      BY <2>1, <3>1, PostMessageOnTimeKeepsTimer DEF PostMessageDelayed
  <2>2. CASE Loop
    BY <2>2, ProcessMessagesKeepsTimer, CalledEarlyKeepsTimer, DeliveringKeepsTimer, CallbackDoneKeepsTimer DEF Loop
  <2>3. CASE DispatchFake \/ DispatchTimer \/ Clock \/ UNCHANGED vars
    BY <2>3, DispatchKeepsTimer, ClockKeepsTimer, OthersKeepTimer
  <2>4. CASE App
    BY <2>1, <2>4, PostMessageKeepsTimer, DeletingKeepsTimer, OthersKeepTimer DEF App
  <2> QED
    BY <2>2, <2>3, <2>4 DEF Next
<1>3. TimerInv => WakeupScheduled
  BY DEF TimerInv
<1> QED
  BY <1>1, <1>2, <1>3, Invariance, PTL DEF Spec
=============================================================================
