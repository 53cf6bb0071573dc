----------------------- MODULE AnimationManagerProofs -----------------------
(***************************************************************************)
(* What AnimationManager promises for any animations, durations and number *)
(* of calls by callbacks: nothing that is deleted stays on the list, every *)
(* Update completes what is due, and animations complete neither early nor *)
(* without their last update.                                              *)
(***************************************************************************)
EXTENDS AnimationManager, ListLemmas

-----------------------------------------------------------------------------
(* The stack of callbacks under way *)

(* The animations that are being stopped *)
Stopped(s) == {s[i].obj : i \in {j \in 1..Len(s) : s[j].in = "OnAnimationStop"}}

(* Update calls OnAnimationUpdate with nothing else under way; each animation
   is stopped once at a time, and then exists and is not on the list. *)
FramesAgreeOn(s, exist, listed, busy) ==
  /\ \A i \in 1..Len(s) : s[i].in = "OnAnimationUpdate" => i = 1 /\ busy
  /\ Stopped(s) \subseteq exist \ listed
  /\ \A i, j \in 1..Len(s) :
       /\ s[i].in = "OnAnimationStop" /\ s[j].in = "OnAnimationStop"
       /\ s[i].obj = s[j].obj
       => i = j

(* When a callback returns, the frames below it are as they were. *)
LEMMA PoppedFrames ==
  ASSUME NEW F, NEW s \in Seq(F), s # <<>>, NEW exist, NEW listed, NEW busy,
         FramesAgreeOn(s, exist, listed, busy)
  PROVE  LET t == SubSeq(s, 1, Len(s) - 1)
         IN  /\ FramesAgreeOn(t, exist, listed, busy)
             /\ Stopped(t) \subseteq Stopped(s)
             /\ s[Len(s)].in = "OnAnimationStop" => s[Len(s)].obj \in Stopped(s) \ Stopped(t)
<1> DEFINE t == SubSeq(s, 1, Len(s) - 1)
<1>1. /\ Len(s) \in Nat /\ Len(s) \in 1..Len(s) /\ Len(t) = Len(s) - 1
      /\ \A i \in 1..Len(t) : i \in 1..Len(s) /\ t[i] = s[i] /\ i # Len(s)
  BY PopProperties
<1> HIDE DEF t
<1>2. Stopped(t) \subseteq Stopped(s)
  BY <1>1 DEF Stopped
<1>3. FramesAgreeOn(t, exist, listed, busy)
  BY <1>1, <1>2 DEF FramesAgreeOn
<1>4. ASSUME s[Len(s)].in = "OnAnimationStop"
      PROVE  s[Len(s)].obj \in Stopped(s) \ Stopped(t)
  BY <1>1, <1>4 DEF FramesAgreeOn, Stopped
<1> QED
  BY <1>2, <1>3, <1>4 DEF t

(* A callback is called. *)
LEMMA PushedFrames ==
  ASSUME NEW F, NEW s \in Seq(F), NEW f \in F, NEW exist, NEW listed, NEW busy,
         FramesAgreeOn(s, exist, listed, busy),
         f.in = "OnAnimationUpdate" => s = <<>> /\ busy,
         f.in = "OnAnimationStop" => f.obj \in (exist \ listed) \ Stopped(s)
  PROVE  /\ FramesAgreeOn(Append(s, f), exist, listed, busy)
         /\ Append(s, f) \in Seq(F) /\ Append(s, f)[Len(Append(s, f))] = f
         /\ Len(Append(s, f)) = Len(s) + 1
         /\ \A i \in 1..Len(s) : Append(s, f)[i] = s[i]
<1> DEFINE t == Append(s, f)
<1>1. /\ t \in Seq(F) /\ Len(t) = Len(s) + 1 /\ Len(s) \in Nat /\ t[Len(s) + 1] = f
      /\ \A i \in 1..Len(s) : t[i] = s[i]
  BY AppendProperties
<1> HIDE DEF t
<1>2. \A i \in 1..Len(t) : i \in 1..Len(s) \/ i = Len(s) + 1
  BY <1>1
<1>3. \A i \in 1..Len(t) : t[i].in = "OnAnimationUpdate" => i = 1 /\ busy
  <2> TAKE i \in 1..Len(t)
  <2>1. CASE i \in 1..Len(s)
    BY <1>1, <2>1 DEF FramesAgreeOn
  <2>2. CASE i = Len(s) + 1
    BY <1>1, <2>2
  <2> QED
    BY <1>2, <2>1, <2>2
<1>4. Stopped(t) \subseteq exist \ listed
  <2> SUFFICES ASSUME NEW i \in 1..Len(t), t[i].in = "OnAnimationStop" PROVE t[i].obj \in exist \ listed
    BY DEF Stopped
  <2>1. CASE i \in 1..Len(s)
    BY <1>1, <2>1 DEF FramesAgreeOn, Stopped
  <2>2. CASE i = Len(s) + 1
    BY <1>1, <2>2
  <2> QED
    BY <1>2, <2>1, <2>2
<1>5. ASSUME NEW i \in 1..Len(t), NEW j \in 1..Len(t),
             t[i].in = "OnAnimationStop", t[j].in = "OnAnimationStop", t[i].obj = t[j].obj
      PROVE  i = j
  <2>1. \A k \in 1..Len(s) : s[k].in = "OnAnimationStop" => s[k].obj \in Stopped(s)
    BY DEF Stopped
  <2>2. CASE i \in 1..Len(s) /\ j \in 1..Len(s)
    BY <1>1, <1>5, <2>2 DEF FramesAgreeOn
  <2>3. CASE i \in 1..Len(s) /\ j = Len(s) + 1
    BY <1>1, <1>5, <2>1, <2>3
  <2>4. CASE i = Len(s) + 1 /\ j \in 1..Len(s)
    BY <1>1, <1>5, <2>1, <2>4
  <2> QED
    BY <1>2, <2>2, <2>3, <2>4
<1>6. FramesAgreeOn(t, exist, listed, busy)
  BY <1>3, <1>4, <1>5 DEF FramesAgreeOn
<1> QED
  BY <1>1, <1>6 DEF t

(* The frames agree as well with other sets of animations. *)
LEMMA SameFrames ==
  ASSUME NEW s, NEW exist, NEW listed, NEW busy, FramesAgreeOn(s, exist, listed, busy),
         NEW others, NEW onlist, Stopped(s) \subseteq others \ onlist
  PROVE  FramesAgreeOn(s, others, onlist, busy)
BY DEF FramesAgreeOn

(* The frames have their types. *)
LEMMA FrameTypes ==
  /\ \A a \in Animation : Starting(a) \in Frame
  /\ \A a \in Animation : \A last \in BOOLEAN : Updating(a, last) \in Frame
  /\ \A a \in Animation : \A aborted \in BOOLEAN : \A then \in {"delete", "keep"} :
       Stopping(a, aborted, then, <<>>) \in Frame
  /\ \A a \in Animation : \A d \in Durations : \A t \in Times :
       Stopping(a, TRUE, "start", <<d, t>>) \in Frame
  /\ AbortingAll \in Frame
  /\ \A f \in Frame :
       /\ f.in \in {"OnAnimationStart", "OnAnimationUpdate", "OnAnimationStop", "AbortAllAnimations"}
       /\ f.in # "AbortAllAnimations" => f.obj \in Animation
       /\ f.in = "AbortAllAnimations" => f = AbortingAll
       /\ f.in = "OnAnimationUpdate" => f.last \in BOOLEAN
       /\ f.in = "OnAnimationStop" /\ f.then = "start" => f.args \in Durations \X Times
<1>1. \A a \in Animation : Starting(a) \in Frame
  BY DEF Frame, Starting
<1>2. \A a \in Animation : \A last \in BOOLEAN : Updating(a, last) \in Frame
  BY DEF Frame, Updating
<1>3. \A a \in Animation : \A aborted \in BOOLEAN : \A then \in {"delete", "keep"} :
        Stopping(a, aborted, then, <<>>) \in Frame
  BY DEF Frame, Stopping
<1>4. \A a \in Animation : \A d \in Durations : \A t \in Times :
        Stopping(a, TRUE, "start", <<d, t>>) \in Frame
  BY DEF Frame, Stopping
<1>5. AbortingAll \in Frame
  BY DEF Frame
<1>6. ASSUME NEW f \in Frame
      PROVE  /\ f.in \in {"OnAnimationStart", "OnAnimationUpdate", "OnAnimationStop", "AbortAllAnimations"}
             /\ f.in # "AbortAllAnimations" => f.obj \in Animation
             /\ f.in = "AbortAllAnimations" => f = AbortingAll
             /\ f.in = "OnAnimationUpdate" => f.last \in BOOLEAN
             /\ f.in = "OnAnimationStop" /\ f.then = "start" => f.args \in Durations \X Times
  <2>1. CASE f \in [in : {"OnAnimationStart"}, obj : Animation]
    BY <2>1
  <2>2. CASE f \in [in : {"OnAnimationUpdate"}, obj : Animation, last : BOOLEAN]
    BY <2>2
  <2>3. CASE f \in [in : {"OnAnimationStop"}, obj : Animation, aborted : BOOLEAN,
                     then : {"delete", "keep"}, args : {<<>>}]
    BY <2>3
  <2>4. CASE f \in [in : {"OnAnimationStop"}, obj : Animation, aborted : {TRUE},
                     then : {"start"}, args : Durations \X Times]
    BY <2>4
  <2>5. CASE f = AbortingAll
    BY <2>5 DEF AbortingAll
  <2> QED
    BY <2>1, <2>2, <2>3, <2>4, <2>5 DEF Frame
<1> QED
  BY <1>1, <1>2, <1>3, <1>4, <1>5, <1>6

-----------------------------------------------------------------------------
(* The inductive invariant *)

Ahead(a) == iter # NULL /\ (a = iter \/ Before(animating_objects, iter, a))

(* a completes when Update gets to it. *)
Complete(a) ==
  \/ run[a] = "blocked" /\ animation_duration[a] = 0
  \/ ~adjust_start_time[a] /\ age[a] >= animation_duration[a] + lag

(* a completes when the callback that Update called returns. *)
Completing(a) ==
  /\ stack # <<>> /\ stack[1].in = "OnAnimationUpdate" /\ stack[1].obj = a /\ stack[1].last
  /\ Animating(a)

ListAgrees ==
  /\ IsInjective(animating_objects)
  /\ ToSet(animating_objects) \subseteq allocated
  /\ iter # NULL => Animating(iter)

FramesAgree == FramesAgreeOn(stack, allocated, ToSet(animating_objects), updating)

BlockedAgree == \A a \in Animation : run[a] = "blocked" => animation_duration[a] = 0

(* What Update has to complete is ahead of it and due, or completes next. *)
OwedAgree ==
  /\ ~updating => owed = {} /\ iter = NULL /\ lag = 0
  /\ \A a \in owed : (Ahead(a) /\ Complete(a)) \/ Completing(a)

IInv == TypeOK /\ ListAgrees /\ FramesAgree /\ BlockedAgree /\ OwedAgree

-----------------------------------------------------------------------------
(* The constants *)

(* The bounds are numbers, and no difference of two ages wraps around. *)
LEMMA Numbers ==
  /\ MaxLag \in Nat /\ MaxCalls \in Nat /\ TimeRange \in Nat /\ NULL \notin Animation
  /\ MaxDuration \in Nat /\ MaxAge \in Nat
  /\ \A d \in Durations \cup {0} : d \in Nat /\ d <= MaxDuration
<1>1. \E d \in Durations : \A e \in Durations : e <= d
  BY AnimationAssumption
<1>2. MaxDuration \in Durations /\ \A d \in Durations : d <= MaxDuration
  BY <1>1 DEF MaxDuration
<1>3. MaxDuration \in Nat /\ MaxLag \in Nat
  BY <1>2, AnimationAssumption
<1>4. MaxAge \in Nat
  BY <1>3 DEF MaxAge
<1>5. ASSUME NEW d \in Durations \cup {0}
      PROVE  d \in Nat /\ d <= MaxDuration
  <2>1. CASE d \in Durations
    BY <1>2, <2>1, AnimationAssumption
  <2>2. CASE d = 0
    BY <1>3, <2>2
  <2> QED
    BY <2>1, <2>2
<1> QED
  BY <1>3, <1>4, <1>5, AnimationAssumption

(* Durations are numbers. *)
LEMMA DurationTypes ==
  ASSUME TypeOK, NEW a \in Animation
  PROVE  animation_duration[a] \in Nat /\ animation_duration[a] <= MaxDuration
<1>1. animation_duration[a] \in Durations \cup {0}
  BY DEF TypeOK
<1> QED
  BY <1>1, Numbers

-----------------------------------------------------------------------------
(* What the operations do *)

(* The order of the other animations stays when one is removed, and Update's
   iterator with it. *)
LEMMA RemovedList ==
  ASSUME TypeOK, ListAgrees, NEW a \in Animation, Animating(a), NEW how, Removed(a, how)
  PROVE  /\ animating_objects' \in Seq(Animation)
         /\ ToSet(animating_objects') = ToSet(animating_objects) \ {a}
         /\ IsInjective(animating_objects')
         /\ iter' \in Animation \cup {NULL}
         /\ iter' # NULL => iter' \in ToSet(animating_objects')
         /\ iter = NULL => iter' = NULL
         /\ \A b : b # a /\ Ahead(b) => Ahead(b)'
<1> DEFINE list == animating_objects
<1>1. /\ list \in Seq(Animation) /\ IsInjective(list) /\ a \in ToSet(list)
      /\ iter \in Animation \cup {NULL} /\ (iter # NULL => iter \in ToSet(list))
      /\ NULL \notin Animation
  BY Numbers DEF TypeOK, ListAgrees, Animating
<1>2. list' = Without(list, {a}) /\ iter' = IF iter = a THEN After(list, a, NULL) ELSE iter
  BY DEF Removed
<1>3. /\ list' \in Seq(Animation)
      /\ ToSet(list') = ToSet(list) \ {a}
      /\ IsInjective(list')
      /\ \A b, c : Before(list', b, c) <=> Before(list, b, c) /\ b # a /\ c # a
  BY <1>1, <1>2, WithoutProperties
<1>4. ToSet(list) \subseteq Animation
  BY <1>1, FirstProperties
<1>5. /\ After(list, a, NULL) \in ToSet(list) \cup {NULL}
      /\ After(list, a, NULL) = NULL => \A b : ~Before(list, a, b)
      /\ After(list, a, NULL) # NULL =>
           /\ Before(list, a, After(list, a, NULL))
           /\ \A b : Before(list, a, b) =>
                 b = After(list, a, NULL) \/ Before(list, After(list, a, NULL), b)
  BY <1>1, AfterProperties
<1>6. \A b, c : Before(list, b, c) => b # c
  BY <1>1, OrderProperties
<1>7. iter' \in Animation \cup {NULL} /\ (iter' # NULL => iter' \in ToSet(list'))
  BY <1>1, <1>2, <1>3, <1>4, <1>5, <1>6
<1>8. ASSUME NEW b, b # a, Ahead(b)
      PROVE  iter' # NULL /\ (b = iter' \/ Before(list', iter', b))
  BY <1>1, <1>2, <1>3, <1>5, <1>6, <1>8 DEF Ahead
<1> QED
  BY <1>1, <1>2, <1>3, <1>7, <1>8 DEF Ahead

(* An animation that begins is the last, and begins blocked or not. *)
LEMMA BegunList ==
  ASSUME TypeOK, ListAgrees, BlockedAgree, NEW a \in Animation, ~Animating(a),
         NEW duration \in Durations, NEW time, NEW frames, Begin(a, duration, time, frames)
  PROVE  /\ animating_objects' \in Seq(Animation)
         /\ ToSet(animating_objects') = ToSet(animating_objects) \cup {a}
         /\ IsInjective(animating_objects')
         /\ \A b : Ahead(b) => Ahead(b)'
         /\ BlockedAgree'
         /\ adjust_start_time' \in [Animation -> BOOLEAN]
         /\ animation_duration' \in [Animation -> Durations \cup {0}]
         /\ age' \in [Animation -> 0..MaxAge]
         /\ run' \in [Animation -> {"none", "blocked", "running", "last", "aborted", "completed"}]
         /\ adjust_start_time'[a] = (time = "kFirstUpdate")
         /\ \A b \in Animation \ {a} :
              /\ adjust_start_time'[b] = adjust_start_time[b]
              /\ animation_duration'[b] = animation_duration[b]
              /\ age'[b] = age[b] /\ run'[b] = run[b]
<1> DEFINE list == animating_objects
<1>1. list \in Seq(Animation) /\ IsInjective(list) /\ a \notin ToSet(list) /\ list' = Append(list, a)
  BY DEF TypeOK, ListAgrees, Animating, Begin
<1>2. /\ list' \in Seq(Animation)
      /\ ToSet(list') = ToSet(list) \cup {a}
      /\ IsInjective(list')
      /\ \A b, c : Before(list, b, c) => Before(list', b, c)
  BY <1>1, AppendedProperties
<1>3. iter' = iter
  BY DEF Begin
<1>4. \A b : Ahead(b) => Ahead(b)'
  BY <1>2, <1>3 DEF Ahead
<1>5. 0 \in 0..MaxAge
  BY Numbers
<1>6. /\ adjust_start_time' \in [Animation -> BOOLEAN]
      /\ adjust_start_time'[a] = (time = "kFirstUpdate")
      /\ \A b \in Animation \ {a} : adjust_start_time'[b] = adjust_start_time[b]
  BY Zenon DEF TypeOK, Begin
<1>7. /\ animation_duration' \in [Animation -> Durations \cup {0}]
      /\ block_animations_counter > 0 => animation_duration'[a] = 0
      /\ \A b \in Animation \ {a} : animation_duration'[b] = animation_duration[b]
  BY DEF TypeOK, Begin
<1>8. age' \in [Animation -> 0..MaxAge] /\ \A b \in Animation \ {a} : age'[b] = age[b]
  BY <1>5 DEF TypeOK, Begin
<1>9. /\ run' \in [Animation -> {"none", "blocked", "running", "last", "aborted", "completed"}]
      /\ run'[a] = "blocked" => block_animations_counter > 0
      /\ \A b \in Animation \ {a} : run'[b] = run[b]
  BY DEF TypeOK, Begin
<1>10. BlockedAgree'
  BY <1>7, <1>9 DEF BlockedAgree
<1> QED
  BY <1>2, <1>4, <1>6, <1>7, <1>8, <1>9, <1>10

(* What Update owes is left as it was, but for the animations that are taken
   off the list. *)
LEMMA OwedKept ==
  ASSUME TypeOK, OwedAgree, updating' = updating, lag' = lag, iter = NULL => iter' = NULL,
         owed' \subseteq owed,
         \A b \in owed' :
           /\ Ahead(b) => Ahead(b)'
           /\ Ahead(b) => /\ run'[b] = run[b] /\ age'[b] = age[b]
                          /\ animation_duration'[b] = animation_duration[b]
                          /\ adjust_start_time'[b] = adjust_start_time[b]
           /\ Completing(b) => Completing(b)'
  PROVE  OwedAgree'
<1>1. ~updating' => owed' = {} /\ iter' = NULL /\ lag' = 0
  BY DEF OwedAgree
<1>2. ASSUME NEW b \in owed'
      PROVE  (Ahead(b)' /\ Complete(b)') \/ Completing(b)'
  <2>1. CASE Ahead(b) /\ Complete(b)
    BY <1>2, <2>1 DEF Complete
  <2>2. CASE Completing(b)
    BY <1>2, <2>2
  <2> QED
    BY <2>1, <2>2 DEF OwedAgree
<1> QED
  BY <1>1, <1>2 DEF OwedAgree

-----------------------------------------------------------------------------
(* Calls *)

(* In the state in which the application or a callback calls, nothing is owed
   that is not reported on the stack's bottom, which stays. *)
LEMMA CallFacts ==
  ASSUME TypeOK, OwedAgree, Call
  PROVE  /\ calls' \in 0..MaxCalls /\ updating' = updating /\ lag' = lag
         /\ stack = <<>> => owed = {} /\ ~updating
<1>1. calls \in 0..MaxCalls /\ MaxCalls \in Nat
  BY Numbers DEF TypeOK
<1>2. calls' \in 0..MaxCalls
  BY <1>1 DEF Call
<1> QED
  BY <1>2 DEF Call, Idle, OwedAgree

(* A call that pushes a callback, or none, keeps the stack's bottom. *)
LEMMA BottomStays ==
  ASSUME TypeOK, stack # <<>>, NEW f \in Frame,
         stack' = stack \/ stack' = Append(stack, f)
  PROVE  stack' # <<>> /\ stack'[1] = stack[1]
<1>1. stack \in Seq(Frame) /\ Len(stack) \in Nat /\ Len(stack) # 0
  BY DEF TypeOK
<1>2. CASE stack' = stack
  BY <1>2
<1>3. CASE stack' = Append(stack, f)
  <2>1. Len(stack') = Len(stack) + 1 /\ \A i \in 1..Len(stack) : stack'[i] = stack[i]
    BY <1>1, <1>3, AppendProperties
  <2>2. 1 \in 1..Len(stack) /\ Len(stack') # 0
    BY <1>1, <2>1
  <2> QED
    BY <2>1, <2>2
<1> QED
  BY <1>2, <1>3

(* An animation is taken off the list and its OnAnimationStop called. *)
LEMMA RemovedKeeps ==
  ASSUME IInv, NEW a \in Animation, Animating(a), NEW how \in {"aborted", "completed"}, Removed(a, how),
         NEW f \in Frame, f.in = "OnAnimationStop", f.obj = a, stack' = Append(stack, f),
         stack = <<>> => owed = {},
         UNCHANGED <<fields, block_animations_counter, updating, lag>>,
         calls' \in 0..MaxCalls, allocated' = allocated \cup {a}
  PROVE  IInv'
<1> USE DEF IInv
<1>1. /\ animating_objects' \in Seq(Animation)
      /\ ToSet(animating_objects') = ToSet(animating_objects) \ {a}
      /\ IsInjective(animating_objects')
      /\ iter' \in Animation \cup {NULL}
      /\ iter' # NULL => iter' \in ToSet(animating_objects')
      /\ iter = NULL => iter' = NULL
      /\ \A b : b # a /\ Ahead(b) => Ahead(b)'
  BY RemovedList
<1>2. /\ run' = [run EXCEPT ![a] = how] /\ owed' = owed \ {a}
      /\ run' \in [Animation -> {"none", "blocked", "running", "last", "aborted", "completed"}]
      /\ run'[a] = how /\ \A b \in Animation \ {a} : run'[b] = run[b]
  BY DEF Removed, TypeOK
<1>3. stack' \in Seq(Frame)
  BY AppendProperties DEF TypeOK
<1>4. TypeOK'
  BY <1>1, <1>2, <1>3 DEF TypeOK, fields
<1>5. ListAgrees'
  BY <1>1 DEF ListAgrees, Animating
<1>6. FramesAgree'
  <2>1. Stopped(stack) \subseteq allocated \ ToSet(animating_objects)
    BY DEF FramesAgree, FramesAgreeOn
  <2>2. FramesAgreeOn(stack, allocated', ToSet(animating_objects'), updating')
    BY <1>1, <2>1, SameFrames DEF FramesAgree
  <2>3. f.obj \in (allocated' \ ToSet(animating_objects')) \ Stopped(stack)
    BY <1>1, <2>1 DEF Animating
  <2> QED
    BY <2>2, <2>3, PushedFrames DEF FramesAgree, TypeOK
<1>7. BlockedAgree'
  BY <1>2 DEF BlockedAgree, fields
<1>8. OwedAgree'
  <2>1. ASSUME NEW b \in owed', Completing(b)
        PROVE  Completing(b)'
    <3>1. stack # <<>>
      BY <2>1 DEF Completing
    <3>2. stack' # <<>> /\ stack'[1] = stack[1]
      BY <3>1, BottomStays
    <3> QED
      BY <1>1, <1>2, <2>1, <3>2 DEF Completing, Animating
  <2>2. \A b \in owed' : b \in owed /\ b # a /\ b \in Animation
    BY <1>2 DEF TypeOK
  <2>3. UNCHANGED fields /\ updating' = updating /\ lag' = lag
    OBVIOUS
  <2> QED
    BY <1>1, <1>2, <2>1, <2>2, <2>3, OwedKept DEF fields
<1> QED
  BY <1>4, <1>5, <1>6, <1>7, <1>8

(* An animation begins, on a stack of callbacks that left out the one that
   stopped it before. *)
LEMMA BegunKeeps ==
  ASSUME IInv, NEW a \in Animation, ~Animating(a), NEW duration \in Durations, NEW time,
         NEW frames \in Seq(Frame), Begin(a, duration, time, frames),
         FramesAgreeOn(frames, allocated, ToSet(animating_objects), updating), a \notin Stopped(frames),
         \A b \in owed : Completing(b) => frames # <<>> /\ frames[1] = stack[1],
         UNCHANGED <<block_animations_counter, updating, lag>>,
         calls' \in 0..MaxCalls, allocated' = allocated \cup {a}
  PROVE  IInv'
<1> USE DEF IInv
<1>1. /\ animating_objects' \in Seq(Animation)
      /\ ToSet(animating_objects') = ToSet(animating_objects) \cup {a}
      /\ IsInjective(animating_objects')
      /\ \A b : Ahead(b) => Ahead(b)'
      /\ BlockedAgree'
      /\ adjust_start_time' \in [Animation -> BOOLEAN]
      /\ animation_duration' \in [Animation -> Durations \cup {0}]
      /\ age' \in [Animation -> 0..MaxAge]
      /\ run' \in [Animation -> {"none", "blocked", "running", "last", "aborted", "completed"}]
      /\ \A b \in Animation \ {a} :
           /\ adjust_start_time'[b] = adjust_start_time[b]
           /\ animation_duration'[b] = animation_duration[b]
           /\ age'[b] = age[b] /\ run'[b] = run[b]
  BY BegunList
<1>2. iter' = iter /\ owed' = owed /\ stack' = Append(frames, Starting(a)) /\ Starting(a) \in Frame
  BY FrameTypes DEF Begin
<1>3. stack' \in Seq(Frame)
  BY <1>2, AppendProperties
<1>4. TypeOK'
  BY <1>1, <1>2, <1>3 DEF TypeOK
<1>5. ListAgrees'
  BY <1>1, <1>2 DEF ListAgrees, Animating
<1>6. FramesAgree'
  <2>1. Stopped(frames) \subseteq allocated' \ ToSet(animating_objects')
    BY <1>1 DEF FramesAgreeOn
  <2>2. FramesAgreeOn(frames, allocated', ToSet(animating_objects'), updating')
    BY <2>1, SameFrames
  <2>3. Starting(a).in = "OnAnimationStart"
    BY DEF Starting
  <2> QED
    BY <1>2, <2>2, <2>3, PushedFrames DEF FramesAgree
<1>7. \A b \in owed' : Ahead(b) \/ Completing(b)
  BY <1>2 DEF OwedAgree
<1>8. \A b \in owed' : b \in Animation /\ b # a
  <2>1. \A b : Ahead(b) => Animating(b)
    <3>1. \A b, c : Before(animating_objects, b, c) => c \in ToSet(animating_objects)
      BY OrderProperties DEF TypeOK, ListAgrees
    <3> QED
      BY <3>1 DEF Ahead, ListAgrees, Animating
  <2> QED
    BY <1>2, <1>7, <2>1 DEF TypeOK, Completing
<1>9. OwedAgree'
  <2>1. ASSUME NEW b \in owed', Completing(b)
        PROVE  Completing(b)'
    <3>1. frames # <<>> /\ frames[1] = stack[1]
      BY <1>2, <2>1
    <3>2. stack' # <<>> /\ stack'[1] = stack[1]
      <4>1. /\ Len(stack') = Len(frames) + 1 /\ Len(frames) \in Nat /\ Len(frames) # 0
            /\ \A i \in 1..Len(frames) : stack'[i] = frames[i]
        BY <1>2, <3>1, AppendProperties
      <4>2. 1 \in 1..Len(frames) /\ Len(stack') # 0
        BY <4>1
      <4> QED
        BY <3>1, <4>1, <4>2
    <3> QED
      BY <1>1, <1>2, <2>1, <3>2 DEF Completing, Animating
  <2>2. updating' = updating /\ lag' = lag
    OBVIOUS
  <2> QED
    BY <1>1, <1>2, <1>8, <2>1, <2>2, OwedKept
<1> QED
  BY <1>1, <1>4, <1>5, <1>6, <1>9

(* An animation begins, or is stopped first when it is animating. *)
LEMMA StartAnimationKeeps ==
  ASSUME IInv, NEW a \in Animation, NEW duration \in Durations, NEW time \in Times,
         StartAnimation(a, duration, time)
  PROVE  IInv'
<1>1. /\ calls' \in 0..MaxCalls /\ updating' = updating /\ lag' = lag
      /\ stack = <<>> => owed = {} /\ ~updating
  BY CallFacts DEF IInv, StartAnimation
<1>2. allocated' = allocated \cup {a} /\ UNCHANGED block_animations_counter
  BY DEF StartAnimation
<1>3. CASE ~Animating(a) /\ Begin(a, duration, time, stack)
  <2>1. a \notin Stopped(stack)
    BY DEF StartAnimation, MayStart, InCallOf, Stopped
  <2>2. \A b \in owed : Completing(b) => stack # <<>> /\ stack[1] = stack[1]
    BY DEF Completing
  <2>3. stack \in Seq(Frame) /\ FramesAgreeOn(stack, allocated, ToSet(animating_objects), updating)
    BY DEF IInv, TypeOK, FramesAgree
  <2> QED
    BY <1>1, <1>2, <1>3, <2>1, <2>2, <2>3, BegunKeeps
<1>4. CASE /\ Animating(a) /\ Removed(a, "aborted")
           /\ stack' = Append(stack, Stopping(a, TRUE, "start", <<duration, time>>))
           /\ UNCHANGED fields
  <2> DEFINE f == Stopping(a, TRUE, "start", <<duration, time>>)
  <2>1. f \in Frame /\ f.in = "OnAnimationStop" /\ f.obj = a
    BY FrameTypes DEF Stopping
  <2> HIDE DEF f
  <2>2. stack' = Append(stack, f)
    BY <1>4 DEF f
  <2> QED
    BY <1>1, <1>2, <1>4, <2>1, <2>2, RemovedKeeps
<1> QED
  BY <1>3, <1>4 DEF StartAnimation

(* An animation is aborted. *)
LEMMA AbortAnimationKeeps ==
  ASSUME IInv, NEW a \in Animation, NEW then \in {"delete", "keep"}, AbortAnimation(a, then)
  PROVE  IInv'
<1>1. /\ calls' \in 0..MaxCalls /\ updating' = updating /\ lag' = lag
      /\ stack = <<>> => owed = {} /\ ~updating
  BY CallFacts DEF IInv, AbortAnimation
<1>2. a \in allocated
  BY DEF IInv, ListAgrees, Animating, AbortAnimation
<1> DEFINE f == Stopping(a, TRUE, then, <<>>)
<1>3. f \in Frame /\ f.in = "OnAnimationStop" /\ f.obj = a
  BY FrameTypes DEF Stopping
<1> HIDE DEF f
<1>4. /\ stack' = Append(stack, f) /\ Animating(a) /\ Removed(a, "aborted")
      /\ UNCHANGED <<allocated, fields, block_animations_counter>>
  BY DEF f, AbortAnimation
<1>5. allocated' = allocated \cup {a}
  BY <1>2, <1>4
<1> QED
  BY <1>1, <1>3, <1>4, <1>5, RemovedKeeps

(* A callback is called and nothing else happens. *)
LEMMA AbortAllAnimationsKeeps ==
  ASSUME IInv, AbortAllAnimations
  PROVE  IInv'
<1> USE DEF IInv
<1>1. /\ calls' \in 0..MaxCalls /\ updating' = updating /\ lag' = lag
      /\ stack = <<>> => owed = {} /\ ~updating
  BY CallFacts DEF AbortAllAnimations
<1>2. /\ stack' = Append(stack, AbortingAll)
      /\ UNCHANGED <<animating_objects, allocated, fields, block_animations_counter, iter, run, owed>>
  BY DEF AbortAllAnimations
<1>3. AbortingAll \in Frame /\ AbortingAll.in = "AbortAllAnimations" /\ stack \in Seq(Frame)
  BY FrameTypes DEF AbortingAll, TypeOK
<1>4. FramesAgreeOn(stack', allocated, ToSet(animating_objects), updating) /\ stack' \in Seq(Frame)
  BY <1>2, <1>3, PushedFrames DEF FramesAgree
<1>5. TypeOK' /\ FramesAgree'
  BY <1>1, <1>2, <1>4 DEF TypeOK, FramesAgree, fields
<1>6. ListAgrees' /\ BlockedAgree'
  BY <1>2 DEF ListAgrees, BlockedAgree, Animating, fields
<1>7. OwedAgree'
  <2>1. ASSUME NEW b \in owed', Completing(b)
        PROVE  Completing(b)'
    <3>1. stack # <<>>
      BY <2>1 DEF Completing
    <3>2. stack' # <<>> /\ stack'[1] = stack[1]
      BY <1>2, <1>3, <3>1, BottomStays
    <3> QED
      BY <1>2, <2>1, <3>2 DEF Completing, Animating
  <2>2. \A b \in owed' : Ahead(b) => Ahead(b)'
    BY <1>2 DEF Ahead
  <2> QED
    BY <1>1, <1>2, <2>1, <2>2, OwedKept DEF fields
<1> QED
  BY <1>5, <1>6, <1>7

(* What neither calls back nor touches the list keeps what is owed. *)
LEMMA QuietKeeps ==
  ASSUME IInv, UNCHANGED <<animating_objects, fields, iter, stack, owed, updating, lag>>,
         calls' \in 0..MaxCalls, block_animations_counter' \in {0, 1},
         allocated' \subseteq Animation, ToSet(animating_objects) \cup Stopped(stack) \subseteq allocated',
         run' \in [Animation -> {"none", "blocked", "running", "last", "aborted", "completed"}],
         \A b \in Animation : run'[b] = run[b] \/ (run'[b] = "none" /\ ~Animating(b))
  PROVE  IInv'
<1> USE DEF IInv
<1>1. TypeOK' /\ ListAgrees' /\ BlockedAgree'
  BY DEF TypeOK, ListAgrees, BlockedAgree, Animating, fields
<1>2. FramesAgree'
  <2>1. Stopped(stack) \subseteq allocated' \ ToSet(animating_objects)
    BY DEF FramesAgree, FramesAgreeOn
  <2>2. FramesAgreeOn(stack, allocated', ToSet(animating_objects), updating)
    BY <2>1, SameFrames DEF FramesAgree
  <2> QED
    BY <2>2 DEF FramesAgree
<1>3. OwedAgree'
  <2>1. \A b : Ahead(b) => Animating(b)
    <3>1. \A b, c : Before(animating_objects, b, c) => c \in ToSet(animating_objects)
      BY OrderProperties DEF TypeOK, ListAgrees
    <3> QED
      BY <3>1 DEF Ahead, ListAgrees, Animating
  <2>2. \A b \in owed' : b \in Animation
    BY DEF TypeOK
  <2>3. /\ \A b \in owed' : Ahead(b) => Ahead(b)'
        /\ \A b \in owed' : Completing(b) => Completing(b)'
    BY DEF Ahead, Completing, Animating
  <2>4. \A b \in owed' : Ahead(b) => /\ run'[b] = run[b] /\ age'[b] = age[b]
                                     /\ animation_duration'[b] = animation_duration[b]
                                     /\ adjust_start_time'[b] = adjust_start_time[b]
    BY <2>1, <2>2 DEF fields
  <2>5. updating' = updating /\ lag' = lag /\ iter' = iter /\ owed' = owed
    OBVIOUS
  <2> QED
    BY <2>3, <2>4, <2>5, OwedKept
<1> QED
  BY <1>1, <1>2, <1>3

(* What an owner deletes is neither on the list nor being stopped. *)
LEMMA DeleteAnimationKeeps ==
  ASSUME IInv, NEW a \in Animation, DeleteAnimation(a)
  PROVE  IInv'
<1>1. calls' \in 0..MaxCalls /\ updating' = updating /\ lag' = lag
  BY CallFacts DEF IInv, DeleteAnimation
<1>2. /\ allocated' = allocated \ {a} /\ run' = [run EXCEPT ![a] = "none"]
      /\ ~Animating(a) /\ ~InCallOf(a, {"OnAnimationStop"})
      /\ UNCHANGED <<animating_objects, fields, block_animations_counter, iter, stack, owed>>
  BY DEF DeleteAnimation
<1>3. a \notin Stopped(stack) /\ a \notin ToSet(animating_objects)
  BY <1>2 DEF Stopped, InCallOf, Animating
<1>4. ToSet(animating_objects) \cup Stopped(stack) \subseteq allocated'
  BY <1>2, <1>3 DEF IInv, ListAgrees, FramesAgree, FramesAgreeOn
<1>5. /\ run' \in [Animation -> {"none", "blocked", "running", "last", "aborted", "completed"}]
      /\ \A b \in Animation : run'[b] = run[b] \/ (run'[b] = "none" /\ ~Animating(b))
  BY <1>2 DEF IInv, TypeOK
<1>6. allocated' \subseteq Animation /\ block_animations_counter' \in {0, 1}
  BY <1>2 DEF IInv, TypeOK
<1> QED
  BY <1>1, <1>2, <1>4, <1>5, <1>6, QuietKeeps

(* Blocking and what it ends *)
LEMMA BlockingKeeps ==
  ASSUME IInv, BeginBlockAnimations \/ EndBlockAnimations
  PROVE  IInv'
<1>1. Call
  BY DEF BeginBlockAnimations, EndBlockAnimations
<1>2. calls' \in 0..MaxCalls /\ updating' = updating /\ lag' = lag
  BY <1>1, CallFacts DEF IInv
<1>3. UNCHANGED <<animating_objects, allocated, fields, iter, stack, run, owed>>
  BY DEF BeginBlockAnimations, EndBlockAnimations
<1>4. block_animations_counter' \in {0, 1}
  BY DEF IInv, TypeOK, BeginBlockAnimations, EndBlockAnimations
<1>5. /\ run' \in [Animation -> {"none", "blocked", "running", "last", "aborted", "completed"}]
      /\ allocated' \subseteq Animation
      /\ ToSet(animating_objects) \cup Stopped(stack) \subseteq allocated'
  BY <1>3 DEF IInv, TypeOK, ListAgrees, FramesAgree, FramesAgreeOn
<1> QED
  BY <1>2, <1>3, <1>4, <1>5, QuietKeeps

-----------------------------------------------------------------------------
(* Callbacks return *)

(* When a callback returns that is not Update's, the stack's bottom stays as
   long as it is Update's. *)
LEMMA Popped ==
  ASSUME IInv, stack # <<>>
  PROVE  /\ Top \in Frame /\ Below \in Seq(Frame)
         /\ FramesAgreeOn(Below, allocated, ToSet(animating_objects), updating)
         /\ Stopped(Below) \subseteq Stopped(stack)
         /\ Top.in = "OnAnimationStop" => Top.obj \in Stopped(stack) \ Stopped(Below)
         /\ Top.in # "OnAnimationUpdate" =>
              \A b \in owed : Completing(b) => Below # <<>> /\ Below[1] = stack[1]
         /\ Top.in = "OnAnimationUpdate" => Below = <<>> /\ Top = stack[1] /\ updating
<1>1. stack \in Seq(Frame) /\ FramesAgreeOn(stack, allocated, ToSet(animating_objects), updating)
  BY DEF IInv, TypeOK, FramesAgree
<1>2. /\ Len(stack) \in Nat /\ Len(stack) \in 1..Len(stack) /\ Top \in Frame
      /\ Below \in Seq(Frame) /\ Len(Below) = Len(stack) - 1
      /\ \A i \in 1..Len(stack) - 1 : i \in 1..Len(stack) /\ Below[i] = stack[i]
  BY <1>1, PopProperties DEF Top, Below
<1>3. /\ FramesAgreeOn(Below, allocated, ToSet(animating_objects), updating)
      /\ Stopped(Below) \subseteq Stopped(stack)
      /\ Top.in = "OnAnimationStop" => Top.obj \in Stopped(stack) \ Stopped(Below)
  BY <1>1, PoppedFrames DEF Top, Below
<1>4. ASSUME Top.in # "OnAnimationUpdate", NEW b \in owed, Completing(b)
      PROVE  Below # <<>> /\ Below[1] = stack[1]
  <2>1. Len(stack) # 1
    BY <1>4 DEF Completing, Top
  <2>2. 1 \in 1..Len(stack) - 1 /\ Len(Below) # 0
    BY <1>2, <2>1
  <2> QED
    BY <1>2, <2>2
<1>5. ASSUME Top.in = "OnAnimationUpdate"
      PROVE  Below = <<>> /\ Top = stack[1] /\ updating
  <2>1. Len(stack) = 1 /\ updating
    BY <1>1, <1>2, <1>5 DEF FramesAgreeOn, Top
  <2>2. Len(Below) = 0
    BY <1>2, <2>1
  <2> QED
    BY <1>2, <2>1, <2>2, EmptySeq DEF Top
<1> QED
  BY <1>2, <1>3, <1>4, <1>5

(* What returns without touching the list keeps what is owed. *)
LEMMA PoppedKeeps ==
  ASSUME IInv, stack # <<>>, stack' = Below,
         UNCHANGED <<animating_objects, fields, iter, run, owed, calls,
                     block_animations_counter, updating, lag>>,
         allocated' \subseteq allocated,
         ToSet(animating_objects) \cup Stopped(Below) \subseteq allocated',
         Top.in # "OnAnimationUpdate" \/ ~Animating(Top.obj) \/ ~Top.last
  PROVE  IInv'
<1> USE DEF IInv
<1>1. /\ Below \in Seq(Frame) /\ FramesAgreeOn(Below, allocated, ToSet(animating_objects), updating)
      /\ Top.in # "OnAnimationUpdate" =>
           \A b \in owed : Completing(b) => Below # <<>> /\ Below[1] = stack[1]
      /\ Top.in = "OnAnimationUpdate" => Top = stack[1]
  BY Popped
<1>2. TypeOK' /\ ListAgrees' /\ BlockedAgree'
  BY <1>1 DEF TypeOK, ListAgrees, BlockedAgree, Animating, fields
<1>3. FramesAgree'
  <2>1. Stopped(Below) \subseteq allocated' \ ToSet(animating_objects)
    BY <1>1 DEF FramesAgreeOn
  <2>2. FramesAgreeOn(Below, allocated', ToSet(animating_objects), updating)
    BY <1>1, <2>1, SameFrames
  <2> QED
    BY <2>2 DEF FramesAgree
<1>4. OwedAgree'
  <2>1. ASSUME NEW b \in owed', Completing(b)
        PROVE  Completing(b)'
    <3>1. Top.in # "OnAnimationUpdate"
      BY <1>1, <2>1 DEF Completing
    <3>2. stack' # <<>> /\ stack'[1] = stack[1]
      BY <1>1, <2>1, <3>1
    <3> QED
      BY <2>1, <3>2 DEF Completing, Animating
  <2>2. \A b \in owed' : Ahead(b) => Ahead(b)'
    BY DEF Ahead
  <2> QED
    BY <2>1, <2>2, OwedKept DEF fields
<1> QED
  BY <1>2, <1>3, <1>4

(* OnAnimationStart has nothing to do when it returns. *)
LEMMA ReturnStartKeeps ==
  ASSUME IInv, ReturnStart, UNCHANGED <<block_animations_counter, updating, lag>>
  PROVE  IInv'
<1>1. stack # <<>> /\ Top.in = "OnAnimationStart" /\ stack' = Below
  BY DEF ReturnStart, In
<1>2. Stopped(Below) \subseteq Stopped(stack)
  BY <1>1, Popped
<1>3. ToSet(animating_objects) \cup Stopped(Below) \subseteq allocated
  BY <1>2 DEF IInv, ListAgrees, FramesAgree, FramesAgreeOn
<1>4. UNCHANGED <<animating_objects, allocated, fields, iter, run, owed, calls>>
  BY DEF ReturnStart
<1>5. allocated' \subseteq allocated /\ ToSet(animating_objects) \cup Stopped(Below) \subseteq allocated'
  BY <1>3, <1>4
<1> QED
  BY <1>1, <1>4, <1>5, PoppedKeeps

(* OnAnimationStop returned: the animation is deleted, kept or begins anew. *)
LEMMA ReturnStopKeeps ==
  ASSUME IInv, ReturnStop, UNCHANGED <<block_animations_counter, updating, lag>>
  PROVE  IInv'
<1>1. stack # <<>> /\ Top.in = "OnAnimationStop" /\ calls' = calls
  BY DEF ReturnStop, In
<1>2. /\ Top \in Frame /\ Below \in Seq(Frame)
      /\ FramesAgreeOn(Below, allocated, ToSet(animating_objects), updating)
      /\ Stopped(Below) \subseteq Stopped(stack)
      /\ Top.obj \in Stopped(stack) \ Stopped(Below)
      /\ \A b \in owed : Completing(b) => Below # <<>> /\ Below[1] = stack[1]
  BY <1>1, Popped
<1>3. Stopped(stack) \subseteq allocated \ ToSet(animating_objects)
  BY DEF IInv, FramesAgree, FramesAgreeOn
<1>4. CASE Top.then = "start" /\ Begin(Top.obj, Top.args[1], Top.args[2], Below) /\ UNCHANGED allocated
  <2>1. Top.obj \in Animation /\ Top.args \in Durations \X Times
    BY <1>1, <1>2, <1>4, FrameTypes
  <2>2. Top.args[1] \in Durations
    BY <2>1
  <2>3. ~Animating(Top.obj) /\ allocated' = allocated \cup {Top.obj}
    BY <1>2, <1>3, <1>4 DEF Animating
  <2>4. calls' \in 0..MaxCalls
    BY <1>1 DEF IInv, TypeOK
  <2>5. Top.obj \notin Stopped(Below)
    BY <1>2
  <2> DEFINE a == Top.obj
             duration == Top.args[1]
             time == Top.args[2]
             frames == Below
  <2>6. a \in Animation /\ duration \in Durations /\ Begin(a, duration, time, frames)
    BY <1>4, <2>1, <2>2
  <2>7. /\ ~Animating(a) /\ a \notin Stopped(frames) /\ allocated' = allocated \cup {a}
        /\ frames \in Seq(Frame) /\ FramesAgreeOn(frames, allocated, ToSet(animating_objects), updating)
        /\ \A b \in owed : Completing(b) => frames # <<>> /\ frames[1] = stack[1]
    BY <1>2, <2>3, <2>5
  <2> HIDE DEF a, duration, time, frames
  <2> QED
    BY <2>4, <2>6, <2>7, BegunKeeps
<1>5. CASE /\ Top.then # "start"
           /\ allocated' = IF Top.then = "delete" THEN allocated \ {Top.obj} ELSE allocated
           /\ stack' = Below
           /\ UNCHANGED <<animating_objects, fields, iter, run, owed>>
  <2>1. allocated' \subseteq allocated
    BY <1>5
  <2>2. ToSet(animating_objects) \cup Stopped(Below) \subseteq allocated \ {Top.obj}
    BY <1>2, <1>3 DEF IInv, ListAgrees
  <2>3. ToSet(animating_objects) \cup Stopped(Below) \subseteq allocated'
    BY <1>5, <2>2
  <2> QED
    BY <1>1, <1>5, <2>1, <2>3, PoppedKeeps
<1> QED
  BY <1>4, <1>5 DEF ReturnStop

(* OnAnimationUpdate returned to Update, which completes the animation. *)
LEMMA ReturnUpdateKeeps ==
  ASSUME IInv, ReturnUpdate, UNCHANGED <<block_animations_counter, updating, lag>>
  PROVE  IInv'
<1>1. /\ stack # <<>> /\ Top.in = "OnAnimationUpdate"
      /\ UNCHANGED <<allocated, fields, calls>>
  BY DEF ReturnUpdate, In
<1>2. /\ Top \in Frame /\ Below = <<>> /\ Top = stack[1] /\ updating
      /\ Below \in Seq(Frame)
      /\ FramesAgreeOn(Below, allocated, ToSet(animating_objects), updating)
      /\ Stopped(Below) \subseteq Stopped(stack)
  BY <1>1, Popped
<1>3. CASE /\ ~Animating(Top.obj) \/ ~Top.last
           /\ stack' = Below
           /\ UNCHANGED <<animating_objects, iter, run, owed>>
  <2>1. ToSet(animating_objects) \cup Stopped(Below) \subseteq allocated'
    BY <1>1, <1>2 DEF IInv, ListAgrees, FramesAgree, FramesAgreeOn
  <2> QED
    BY <1>1, <1>3, <2>1, PoppedKeeps
<1>4. CASE /\ Animating(Top.obj) /\ Top.last
           /\ Removed(Top.obj, "completed")
           /\ stack' = Append(Below, Stopping(Top.obj, FALSE, "delete", <<>>))
  <2> DEFINE a == Top.obj
             f == Stopping(a, FALSE, "delete", <<>>)
  <2>1. a \in Animation
    BY <1>1, <1>2, FrameTypes
  <2>2. f \in Frame /\ f.in = "OnAnimationStop" /\ f.obj = a
    BY <2>1, FrameTypes DEF Stopping
  <2>3. Animating(a) /\ Removed(a, "completed") /\ stack' = Append(Below, f) /\ stack[1].obj = a
    BY <1>2, <1>4
  <2> HIDE DEF a, f
  <2> USE DEF IInv
  <2>4. /\ animating_objects' \in Seq(Animation)
        /\ ToSet(animating_objects') = ToSet(animating_objects) \ {a}
        /\ IsInjective(animating_objects')
        /\ iter' \in Animation \cup {NULL}
        /\ iter' # NULL => iter' \in ToSet(animating_objects')
        /\ iter = NULL => iter' = NULL
        /\ \A b : b # a /\ Ahead(b) => Ahead(b)'
    BY <2>1, <2>3, RemovedList
  <2>5. /\ owed' = owed \ {a}
        /\ run' \in [Animation -> {"none", "blocked", "running", "last", "aborted", "completed"}]
        /\ run'[a] = "completed" /\ \A b \in Animation \ {a} : run'[b] = run[b]
    BY <2>1, <2>3 DEF Removed, TypeOK
  <2>6. stack' \in Seq(Frame)
    BY <1>2, <2>2, <2>3, AppendProperties
  <2>7. TypeOK' /\ ListAgrees' /\ BlockedAgree'
    BY <1>1, <2>1, <2>4, <2>5, <2>6 DEF TypeOK, ListAgrees, BlockedAgree, Animating, fields
  <2>8. FramesAgree'
    <3>1. Stopped(Below) = {}
      BY <1>2 DEF Stopped
    <3>2. FramesAgreeOn(Below, allocated', ToSet(animating_objects'), updating')
      BY <1>2, <3>1, SameFrames
    <3>3. f.obj \in (allocated' \ ToSet(animating_objects')) \ Stopped(Below)
      BY <1>1, <2>2, <2>3, <2>4, <3>1 DEF ListAgrees, Animating
    <3> QED
      BY <1>2, <2>2, <2>3, <3>2, <3>3, PushedFrames DEF FramesAgree
  <2>9. OwedAgree'
    <3>1. \A b \in owed' : b # a /\ b \in Animation /\ ~Completing(b)
      BY <2>3, <2>5 DEF Completing, TypeOK
    <3>2. \A b \in owed' : Ahead(b) => Ahead(b)'
      BY <2>4, <3>1
    <3>3. \A b \in owed' : Ahead(b) => /\ run'[b] = run[b] /\ age'[b] = age[b]
                                       /\ animation_duration'[b] = animation_duration[b]
                                       /\ adjust_start_time'[b] = adjust_start_time[b]
      BY <1>1, <2>5, <3>1 DEF fields
    <3>4. updating' = updating /\ lag' = lag /\ (iter = NULL => iter' = NULL) /\ owed' \subseteq owed
      BY <2>4, <2>5
    <3> QED
      BY <3>1, <3>2, <3>3, <3>4, OwedKept
  <2> QED
    BY <2>7, <2>8, <2>9
<1> QED
  BY <1>3, <1>4 DEF ReturnUpdate

(* AbortAllAnimations aborts the first that is left, or returns. *)
LEMMA AbortNextKeeps ==
  ASSUME IInv, AbortNext, UNCHANGED <<block_animations_counter, updating, lag>>
  PROVE  IInv'
<1>1. stack # <<>> /\ Top = AbortingAll /\ UNCHANGED <<allocated, fields, calls>>
  BY DEF AbortNext
<1>2. Top.in # "OnAnimationUpdate"
  BY <1>1 DEF AbortingAll
<1>3. CASE stack' = Below /\ UNCHANGED <<animating_objects, iter, run, owed>>
  <2>1. Stopped(Below) \subseteq Stopped(stack)
    BY <1>1, Popped
  <2>2. ToSet(animating_objects) \cup Stopped(Below) \subseteq allocated'
    BY <1>1, <2>1 DEF IInv, ListAgrees, FramesAgree, FramesAgreeOn
  <2> QED
    BY <1>1, <1>2, <1>3, <2>2, PoppedKeeps
<1>4. CASE /\ animating_objects # <<>>
           /\ Removed(Head(animating_objects), "aborted")
           /\ stack' = Append(stack, Stopping(Head(animating_objects), TRUE, "delete", <<>>))
  <2> DEFINE a == Head(animating_objects)
             f == Stopping(a, TRUE, "delete", <<>>)
  <2>1. a \in ToSet(animating_objects) /\ ToSet(animating_objects) \subseteq Animation
    BY <1>4, FirstProperties, Numbers DEF IInv, TypeOK
  <2>2. f \in Frame /\ f.in = "OnAnimationStop" /\ f.obj = a
    BY <2>1, FrameTypes DEF Stopping
  <2>3. Animating(a) /\ Removed(a, "aborted") /\ stack' = Append(stack, f) /\ a \in Animation
    BY <1>4, <2>1 DEF Animating
  <2>4. allocated' = allocated \cup {a}
    BY <1>1, <2>1 DEF IInv, ListAgrees
  <2>5. calls' \in 0..MaxCalls
    BY <1>1 DEF IInv, TypeOK
  <2> HIDE DEF a, f
  <2> QED
    BY <1>1, <2>2, <2>3, <2>4, <2>5, RemovedKeeps
<1> QED
  BY <1>3, <1>4 DEF AbortNext

-----------------------------------------------------------------------------
(* Update *)

(* Update owes what is due and is ahead of its iterator, at the first
   animation. *)
LEMMA UpdateKeeps ==
  ASSUME IInv, Update
  PROVE  IInv'
<1> USE DEF IInv
<1>1. /\ ~updating /\ stack = <<>> /\ updating' = TRUE /\ lag' = 0 /\ calls' = 0
      /\ iter' = FirstOf(animating_objects, NULL)
      /\ owed' = {a \in ToSet(animating_objects) : Due(a)}
      /\ UNCHANGED <<animating_objects, allocated, fields, block_animations_counter, stack, run>>
  BY DEF Update, Idle
<1> DEFINE list == animating_objects
<1>2. /\ ToSet(list) \subseteq Animation
      /\ list = <<>> <=> ToSet(list) = {}
      /\ FirstOf(list, NULL) = NULL <=> list = <<>>
      /\ list # <<>> => /\ FirstOf(list, NULL) = Head(list)
                        /\ Head(list) \in ToSet(list)
                        /\ \A b \in ToSet(list) : b = Head(list) \/ Before(list, Head(list), b)
  BY FirstProperties, Numbers DEF TypeOK
<1>3. 0 \in 0..MaxLag /\ 0 \in 0..MaxCalls
  BY Numbers
<1>4. TypeOK'
  BY <1>1, <1>2, <1>3 DEF TypeOK, fields
<1>5. ListAgrees' /\ BlockedAgree'
  BY <1>1, <1>2 DEF ListAgrees, BlockedAgree, Animating, fields
<1>6. FramesAgree'
  BY <1>1 DEF FramesAgree, FramesAgreeOn
<1>7. ASSUME NEW a \in owed'
      PROVE  Ahead(a)' /\ Complete(a)'
  <2>1. a \in ToSet(list) /\ Due(a) /\ a \in Animation
    BY <1>1, <1>2, <1>7
  <2>2. Ahead(a)'
    BY <1>1, <1>2, <2>1 DEF Ahead
  <2>3. animation_duration[a] \in Nat
    BY <2>1, DurationTypes
  <2>4. run[a] = "blocked" => animation_duration[a] = 0
    BY <2>1 DEF BlockedAgree
  <2>5. animation_duration[a] + 0 = animation_duration[a]
    BY <2>3
  <2>6. Complete(a)'
    BY <1>1, <2>1, <2>4, <2>5 DEF Due, Complete, fields
  <2> QED
    BY <2>2, <2>6
<1>8. OwedAgree'
  BY <1>1, <1>7 DEF OwedAgree
<1> QED
  BY <1>4, <1>5, <1>6, <1>8

(* The time an animation ran when Update began, and its last update *)
LEMMA ElapsedWithin ==
  ASSUME NEW x \in 0..MaxAge, NEW y \in 0..MaxLag, y <= x
  PROVE  (x - y) % TimeRange = x - y
<1>1. MaxAge \in Nat /\ TimeRange \in Nat /\ TimeRange > MaxAge
  BY Numbers, AnimationAssumption
<1>2. x - y \in Nat /\ x - y < TimeRange
  BY <1>1, Numbers
<1> QED
  BY <1>1, <1>2

(* The iterator steps on, the animation's start time is adjusted and it is
   called; if it was owed, this is its last update. *)
LEMMA UpdateNextKeeps ==
  ASSUME IInv, UpdateNext
  PROVE  IInv'
<1> USE DEF IInv
<1>1. PICK a \in Animation :
        /\ updating /\ stack = <<>> /\ iter = a
        /\ iter' = After(animating_objects, a, NULL)
        /\ Adjusted(a)
        /\ UNCHANGED lag
        /\ Progress(a)
        /\ UNCHANGED <<animating_objects, allocated, animation_duration,
                       block_animations_counter, updating, calls, owed>>
  BY DEF UpdateNext
<1> DEFINE list == animating_objects
           last == animation_duration[a] = 0 \/ Elapsed(a)' >= animation_duration[a]
<1>2. stack' = <<Updating(a, last)>> /\ run' = [run EXCEPT ![a] = IF last THEN "last" ELSE @]
  BY <1>1 DEF Progress
<1>3. last \in BOOLEAN
  OBVIOUS
<1>4. last <=> animation_duration[a] = 0 \/ Elapsed(a)' >= animation_duration[a]
  OBVIOUS
<1> HIDE DEF last
<1>5. /\ list \in Seq(Animation) /\ IsInjective(list) /\ a \in ToSet(list)
      /\ NULL \notin Animation /\ iter # NULL
  BY <1>1, Numbers DEF TypeOK, ListAgrees, Animating
<1>6. ToSet(list) \subseteq Animation
  BY <1>5, FirstProperties
<1>7. /\ After(list, a, NULL) \in ToSet(list) \cup {NULL}
      /\ After(list, a, NULL) = NULL => \A b : ~Before(list, a, b)
      /\ After(list, a, NULL) # NULL =>
           \A b : Before(list, a, b) =>
             b = After(list, a, NULL) \/ Before(list, After(list, a, NULL), b)
  BY <1>5, AfterProperties
<1>8. /\ Updating(a, last) \in Frame /\ Updating(a, last).in = "OnAnimationUpdate"
      /\ Updating(a, last).obj = a /\ Updating(a, last).last = last
  BY <1>3, FrameTypes DEF Updating
<1>9. /\ age' \in [Animation -> 0..MaxAge] /\ adjust_start_time' \in [Animation -> BOOLEAN]
      /\ ~adjust_start_time[a] => age'[a] = age[a]
      /\ \A b \in Animation \ {a} : age'[b] = age[b] /\ adjust_start_time'[b] = adjust_start_time[b]
  <2>1. lag \in 0..MaxAge
    BY Numbers DEF TypeOK, MaxAge
  <2>2. age' = [age EXCEPT ![a] = IF adjust_start_time[a] THEN lag ELSE @]
    BY <1>1 DEF Adjusted
  <2>3. adjust_start_time' = [adjust_start_time EXCEPT ![a] = FALSE]
    BY <1>1 DEF Adjusted
  <2>4. age' \in [Animation -> 0..MaxAge]
    BY <2>1, <2>2 DEF TypeOK
  <2>5. adjust_start_time' \in [Animation -> BOOLEAN]
    BY <2>3 DEF TypeOK
  <2>6. ~adjust_start_time[a] => age'[a] = age[a]
    BY <2>2 DEF TypeOK
  <2>7. \A b \in Animation \ {a} : age'[b] = age[b] /\ adjust_start_time'[b] = adjust_start_time[b]
    BY <2>2, <2>3 DEF TypeOK
  <2> QED
    BY <2>4, <2>5, <2>6, <2>7
<1>10. /\ run' \in [Animation -> {"none", "blocked", "running", "last", "aborted", "completed"}]
       /\ run'[a] = "blocked" => run[a] = "blocked"
       /\ \A b \in Animation \ {a} : run'[b] = run[b]
  BY <1>2 DEF TypeOK
<1>11. TypeOK'
  <2>1. stack' \in Seq(Frame)
    BY <1>2, <1>8
  <2> QED
    BY <1>1, <1>6, <1>7, <1>9, <1>10, <2>1 DEF TypeOK
<1>12. ListAgrees' /\ BlockedAgree'
  BY <1>1, <1>7, <1>10 DEF ListAgrees, BlockedAgree, Animating
<1>13. FramesAgree'
  <2>1. FramesAgreeOn(<<>>, allocated, ToSet(list), updating) /\ <<>> \in Seq(Frame)
    BY <1>1 DEF FramesAgree, FramesAgreeOn, TypeOK
  <2>2. FramesAgreeOn(Append(<<>>, Updating(a, last)), allocated, ToSet(list), updating)
    BY <1>1, <1>8, <2>1, PushedFrames
  <2>3. Append(<<>>, Updating(a, last)) = <<Updating(a, last)>>
    OBVIOUS
  <2> QED
    BY <1>1, <1>2, <2>2, <2>3 DEF FramesAgree
<1>14. ASSUME NEW b \in owed'
       PROVE  (Ahead(b)' /\ Complete(b)') \/ Completing(b)'
  <2>1. b \in owed /\ b \in Animation /\ Ahead(b) /\ Complete(b)
    BY <1>1, <1>14 DEF OwedAgree, TypeOK, Completing
  <2>2. CASE b = a
    <3>1. ASSUME ~adjust_start_time[a], age[a] >= animation_duration[a] + lag
          PROVE  last
      <4>1. /\ age[a] \in 0..MaxAge /\ lag \in 0..MaxLag
            /\ animation_duration[a] \in Nat /\ age'[a] = age[a] /\ lag' = lag
        BY <1>1, <1>9, <3>1, DurationTypes DEF TypeOK
      <4>2. lag <= age[a] /\ age[a] - lag >= animation_duration[a]
        BY <3>1, <4>1, Numbers
      <4>3. (age[a] - lag) % TimeRange = age[a] - lag
        BY <4>1, <4>2, ElapsedWithin
      <4>4. Elapsed(a)' = (age[a] - lag) % TimeRange
        BY <4>1 DEF Elapsed
      <4> QED
        BY <1>4, <4>2, <4>3, <4>4
    <3>2. last
      BY <1>4, <2>1, <2>2, <3>1 DEF Complete
    <3>3. Completing(b)'
      <4>1. stack' # <<>> /\ stack'[1] = Updating(a, last)
        BY <1>2
      <4> QED
        BY <1>1, <1>5, <1>8, <2>2, <3>2, <4>1 DEF Completing, Animating
    <3> QED
      BY <3>3
  <2>3. CASE b # a
    <3>1. Ahead(b)'
      BY <1>1, <1>7, <2>1, <2>3 DEF Ahead
    <3>2. Complete(b)'
      BY <1>1, <1>9, <1>10, <2>1, <2>3 DEF Complete
    <3> QED
      BY <3>1, <3>2
  <2> QED
    BY <2>2, <2>3
<1>15. OwedAgree'
  BY <1>1, <1>14 DEF OwedAgree
<1> QED
  BY <1>11, <1>12, <1>13, <1>15

(* Nothing is ahead of Update when it ends, and so nothing is owed. *)
LEMMA UpdateDoneKeeps ==
  ASSUME IInv, UpdateDone
  PROVE  IInv'
<1> USE DEF IInv
<1>1. /\ updating /\ stack = <<>> /\ iter = NULL /\ updating' = FALSE /\ lag' = 0
      /\ UNCHANGED <<animating_objects, allocated, fields, block_animations_counter,
                     iter, stack, calls, run, owed>>
  BY DEF UpdateDone
<1>2. 0 \in 0..MaxLag
  BY Numbers
<1>3. TypeOK' /\ ListAgrees' /\ BlockedAgree'
  BY <1>1, <1>2 DEF TypeOK, ListAgrees, BlockedAgree, Animating, fields
<1>4. FramesAgree'
  BY <1>1 DEF FramesAgree, FramesAgreeOn
<1>5. owed = {}
  BY <1>1 DEF OwedAgree, Ahead, Completing
<1>6. OwedAgree'
  BY <1>1, <1>5 DEF OwedAgree
<1> QED
  BY <1>3, <1>4, <1>6

(* Update's time and the animations' ages advance together. *)
LEMMA ClockKeeps ==
  ASSUME IInv, Clock
  PROVE  IInv'
<1> USE DEF IInv
<1>1. /\ updating => lag < MaxLag
      /\ lag' = IF updating THEN lag + 1 ELSE 0
      /\ age' = [a \in Animation |->
                   IF ~Animating(a) THEN age[a] ELSE IF age[a] = MaxAge THEN MaxAge ELSE age[a] + 1]
      /\ UNCHANGED <<animating_objects, allocated, adjust_start_time, animation_duration,
                     block_animations_counter, updating, iter, stack, calls, run, owed>>
  BY DEF Clock
<1>2. lag' \in 0..MaxLag
  BY <1>1, Numbers DEF TypeOK
<1>3. age' \in [Animation -> 0..MaxAge]
  BY <1>1, Numbers DEF TypeOK
<1>4. TypeOK' /\ ListAgrees' /\ BlockedAgree'
  BY <1>1, <1>2, <1>3 DEF TypeOK, ListAgrees, BlockedAgree, Animating
<1>5. FramesAgree'
  BY <1>1 DEF FramesAgree
<1>6. ~updating' => owed' = {} /\ iter' = NULL /\ lag' = 0
  BY <1>1 DEF OwedAgree
<1>7. ASSUME NEW b \in owed'
      PROVE  (Ahead(b)' /\ Complete(b)') \/ Completing(b)'
  <2>1. b \in Animation /\ b \in owed /\ updating
    BY <1>1, <1>7 DEF TypeOK, OwedAgree
  <2>2. CASE Ahead(b) /\ Complete(b)
    <3>1. Animating(b)
      <4>1. \A d, c : Before(animating_objects, d, c) => c \in ToSet(animating_objects)
        BY OrderProperties DEF TypeOK, ListAgrees
      <4> QED
        BY <2>2, <4>1 DEF Ahead, ListAgrees, Animating
    <3>2. Ahead(b)'
      BY <1>1, <2>2 DEF Ahead
    <3>3. ASSUME age[b] >= animation_duration[b] + lag
          PROVE  age'[b] >= animation_duration[b] + lag'
      <4>1. /\ age[b] \in 0..MaxAge /\ lag \in 0..MaxLag /\ lag' = lag + 1 /\ lag < MaxLag
            /\ age'[b] = IF age[b] = MaxAge THEN MaxAge ELSE age[b] + 1
        BY <1>1, <2>1, <3>1 DEF TypeOK
      <4>2. animation_duration[b] \in Nat /\ animation_duration[b] <= MaxDuration
        BY <2>1, DurationTypes
      <4>3. MaxAge = MaxDuration + MaxLag /\ MaxDuration \in Nat /\ MaxLag \in Nat
        BY Numbers DEF MaxAge
      <4> QED
        BY <3>3, <4>1, <4>2, <4>3
    <3>4. Complete(b)'
      BY <1>1, <2>2, <3>3 DEF Complete
    <3> QED
      BY <3>2, <3>4
  <2>3. CASE Completing(b)
    BY <1>1, <2>3 DEF Completing, Animating
  <2> QED
    BY <2>1, <2>2, <2>3 DEF OwedAgree
<1>8. OwedAgree'
  BY <1>6, <1>7 DEF OwedAgree
<1> QED
  BY <1>4, <1>5, <1>8

-----------------------------------------------------------------------------
(* The theorems *)

(* Nothing runs at first. *)
LEMMA InitKeeps == Init => IInv
<1> SUFFICES ASSUME Init PROVE IInv
  OBVIOUS
<1>1. 0 \in 0..MaxAge /\ 0 \in 0..MaxLag /\ 0 \in 0..MaxCalls
  BY Numbers
<1>2. TypeOK
  <2>1. <<>> \in Seq(Animation) /\ <<>> \in Seq(Frame)
    OBVIOUS
  <2>2. /\ [a \in Animation |-> FALSE] \in [Animation -> BOOLEAN]
        /\ [a \in Animation |-> 0] \in [Animation -> Durations \cup {0}]
        /\ [a \in Animation |-> 0] \in [Animation -> 0..MaxAge]
        /\ [a \in Animation |-> "none"] \in
             [Animation -> {"none", "blocked", "running", "last", "aborted", "completed"}]
    BY <1>1
  <2> QED
    BY <1>1, <2>1, <2>2 DEF Init, TypeOK
<1>3. ToSet(<<>>) = {} /\ IsInjective(<<>>)
  BY DEF ToSet, IsInjective
<1>4. ListAgrees /\ BlockedAgree /\ OwedAgree
  BY <1>3 DEF Init, ListAgrees, BlockedAgree, OwedAgree
<1>5. FramesAgree
  BY <1>3 DEF Init, FramesAgree, FramesAgreeOn, Stopped
<1> QED
  BY <1>2, <1>4, <1>5 DEF IInv

(* Every step keeps the invariant. *)
LEMMA NextKeeps == IInv /\ [Next]_vars => IInv'
<1> SUFFICES ASSUME IInv, [Next]_vars PROVE IInv'
  OBVIOUS
<1>1. CASE App
  <2>1. ASSUME NEW a \in Animation, NEW duration \in Durations, NEW time \in Times,
               StartAnimation(a, duration, time)
        PROVE  IInv'
    BY <2>1, StartAnimationKeeps
  <2>2. ASSUME NEW a \in Animation, NEW then \in {"delete", "keep"}, AbortAnimation(a, then)
        PROVE  IInv'
    BY <2>2, AbortAnimationKeeps
  <2>3. ASSUME NEW a \in Animation, DeleteAnimation(a)
        PROVE  IInv'
    BY <2>3, DeleteAnimationKeeps
  <2> QED
    BY <1>1, <2>1, <2>2, <2>3, AbortAllAnimationsKeeps, BlockingKeeps DEF App
<1>2. CASE Return
  BY <1>2, ReturnStartKeeps, ReturnStopKeeps, ReturnUpdateKeeps, AbortNextKeeps DEF Return
<1>3. CASE UNCHANGED vars
  BY <1>3 DEF vars, fields, IInv, TypeOK, ListAgrees, FramesAgree, BlockedAgree, OwedAgree,
              Ahead, Complete, Completing, Animating
<1> QED
  BY <1>1, <1>2, <1>3, UpdateKeeps, UpdateNextKeeps, UpdateDoneKeeps, ClockKeeps DEF Next

(* The invariant holds of every run. *)
THEOREM Invariance == Spec => []IInv
<1> QED
  BY InitKeeps, NextKeeps, PTL DEF Spec

(* For every set of animations and durations, whatever the callbacks start,
   abort and delete, also (Restarts) their own animation or a new one in its
   memory while Update still has it, and however time passes:
   what is on the list, under Update's iterator or being stopped exists, and
   Update leaves nothing undone that was due when it began. *)
THEOREM UpdatesComplete == Spec => [](TypeOK /\ NoDanglingAnimation /\ UpdateComplete)
<1>1. IInv => TypeOK /\ NoDanglingAnimation /\ UpdateComplete
  <2> SUFFICES ASSUME IInv PROVE TypeOK /\ NoDanglingAnimation /\ UpdateComplete
    OBVIOUS
  <2>1. Stopped(stack) \subseteq allocated \ ToSet(animating_objects)
    BY DEF IInv, FramesAgree, FramesAgreeOn
  <2>2. NoDanglingAnimation
    BY <2>1 DEF IInv, ListAgrees, NoDanglingAnimation, Stopped, Animating
  <2> QED
    BY <2>2 DEF IInv, OwedAgree, UpdateComplete
<1> QED
  BY <1>1, Invariance, PTL

-----------------------------------------------------------------------------
(* When no callback starts its own animation again *)

(* Update's own callback is under way *)
Called == stack # <<>> /\ stack[1].in = "OnAnimationUpdate"

(* The animation Update called has had its last update if that is what the
   call is, and is not about to be started. *)
LastAgrees ==
  Called =>
    /\ stack[1].last /\ Animating(stack[1].obj) => run[stack[1].obj] = "last"
    /\ \A i \in 1..Len(stack) :
         stack[i].in = "OnAnimationStop" /\ stack[i].obj = stack[1].obj => stack[i].then # "start"

(* Update's time never gets ahead of an animation's, so that no age less than
   the lag, which would wrap around, is taken for a long one; and a last update
   comes when the duration has passed. *)
AgeAgrees ==
  /\ updating => \A a \in Animation : Animating(a) => adjust_start_time[a] \/ age[a] >= lag
  /\ Called /\ stack[1].last => age[stack[1].obj] >= animation_duration[stack[1].obj]

(* How calls and returns change the stack; f is the frame pushed, if any. *)
Pushes(f) ==
  \/ stack' = stack \/ stack' = Append(stack, f)
  \/ stack # <<>> /\ (stack' = Below \/ stack' = Append(Below, f))

(* What calls and returns leave alone: the animation that Update called, unless
   it goes off the list, and the start time of those that run *)
Respects(f) ==
  /\ f \in Frame /\ f.in # "OnAnimationUpdate" /\ Pushes(f)
  /\ updating' = updating /\ lag' = lag
  /\ Called =>
       /\ f.in = "OnAnimationStop" /\ f.then = "start" => f.obj # stack[1].obj
       /\ stack[1].obj \in ToSet(animating_objects') =>
            Animating(stack[1].obj) /\ run'[stack[1].obj] = run[stack[1].obj]
       /\ age'[stack[1].obj] = age[stack[1].obj]
       /\ animation_duration'[stack[1].obj] = animation_duration[stack[1].obj]
  /\ \A a \in Animation : Animating(a)' =>
       \/ /\ Animating(a)
          /\ adjust_start_time'[a] = adjust_start_time[a] /\ age'[a] = age[a]
       \/ Times \subseteq {"kFirstUpdate"} => adjust_start_time'[a]

(* Every frame was there before or is the one that was pushed. *)
LEMMA FrameSources ==
  ASSUME TypeOK, NEW f \in Frame, Pushes(f)
  PROVE  \A i \in 1..Len(stack') : (i \in 1..Len(stack) /\ stack'[i] = stack[i]) \/ stack'[i] = f
<1>1. stack \in Seq(Frame) /\ Len(stack) \in Nat
  BY DEF TypeOK
<1>2. CASE stack' = stack
  BY <1>2
<1>3. CASE stack' = Append(stack, f)
  <2>1. /\ Len(stack') = Len(stack) + 1 /\ stack'[Len(stack) + 1] = f
        /\ \A i \in 1..Len(stack) : stack'[i] = stack[i]
    BY <1>1, <1>3, AppendProperties
  <2>2. \A i \in 1..Len(stack') : i \in 1..Len(stack) \/ i = Len(stack) + 1
    BY <1>1, <2>1
  <2> QED
    BY <2>1, <2>2
<1>4. ASSUME stack # <<>>
      PROVE  /\ Below \in Seq(Frame) /\ Len(Below) = Len(stack) - 1 /\ Len(Below) \in Nat
             /\ \A i \in 1..Len(Below) : i \in 1..Len(stack) /\ Below[i] = stack[i]
  <2>1. /\ Below \in Seq(Frame) /\ Len(Below) = Len(stack) - 1
        /\ \A i \in 1..Len(stack) - 1 : i \in 1..Len(stack) /\ Below[i] = stack[i]
    BY <1>1, <1>4, PopProperties DEF Below
  <2> QED
    BY <2>1
<1>5. CASE stack # <<>> /\ stack' = Below
  BY <1>4, <1>5
<1>6. CASE stack # <<>> /\ stack' = Append(Below, f)
  <2>1. /\ Len(stack') = Len(Below) + 1 /\ stack'[Len(Below) + 1] = f
        /\ \A i \in 1..Len(Below) : stack'[i] = Below[i]
    BY <1>4, <1>6, AppendProperties
  <2>2. \A i \in 1..Len(stack') : i \in 1..Len(Below) \/ i = Len(Below) + 1
    BY <1>4, <1>6, <2>1
  <2> QED
    BY <1>4, <1>6, <2>1, <2>2
<1> QED
  BY <1>2, <1>3, <1>5, <1>6 DEF Pushes

(* Calls and returns keep what is said of the animation that Update called. *)
LEMMA RespectsKeeps ==
  ASSUME IInv, LastAgrees, NEW f, Respects(f)
  PROVE  /\ LastAgrees'
         /\ AgeAgrees /\ Times \subseteq {"kFirstUpdate"} => AgeAgrees'
<1>1. \A i \in 1..Len(stack') : (i \in 1..Len(stack) /\ stack'[i] = stack[i]) \/ stack'[i] = f
  BY FrameSources DEF IInv, Respects
<1>2. ASSUME Called'
      PROVE  Called /\ stack'[1] = stack[1]
  <2>1. stack # <<>>
    <3>1. CASE stack = <<>>
      <4>1. stack' = stack \/ stack' = Append(stack, f)
        BY <3>1 DEF Respects, Pushes
      <4>2. stack' = <<>> \/ stack' = <<f>>
        BY <3>1, <4>1
      <4> QED
        BY <1>2, <4>2 DEF Respects, Called
    <3> QED
      BY <3>1
  <2>2. 1 \in 1..Len(stack')
    <3>1. stack' \in Seq(Frame)
      <4>1. stack \in Seq(Frame) /\ Below \in Seq(Frame) /\ f \in Frame
        BY <2>1, Popped DEF Respects, IInv, TypeOK
      <4>2. Append(stack, f) \in Seq(Frame) /\ Append(Below, f) \in Seq(Frame)
        BY <4>1, AppendProperties
      <4> QED
        BY <4>1, <4>2 DEF Respects, Pushes
    <3> QED
      BY <1>2, <3>1 DEF Called
  <2>3. stack'[1] = stack[1]
    BY <1>1, <1>2, <2>2 DEF Called, Respects
  <2> QED
    BY <1>2, <2>1, <2>3 DEF Called
<1>3. LastAgrees'
  <2> SUFFICES ASSUME Called'
               PROVE  /\ stack'[1].last /\ stack[1].obj \in ToSet(animating_objects') => run'[stack'[1].obj] = "last"
                      /\ \A i \in 1..Len(stack') :
                           stack'[i].in = "OnAnimationStop" /\ stack'[i].obj = stack'[1].obj
                             => stack'[i].then # "start"
    BY <1>2 DEF LastAgrees, Animating
  <2>1. Called /\ stack'[1] = stack[1]
    BY <1>2
  <2>2. stack'[1].last /\ stack[1].obj \in ToSet(animating_objects') => run'[stack'[1].obj] = "last"
    BY <2>1 DEF LastAgrees, Respects
  <2>3. ASSUME NEW i \in 1..Len(stack'), stack'[i].in = "OnAnimationStop",
               stack'[i].obj = stack'[1].obj
        PROVE  stack'[i].then # "start"
    <3>1. CASE i \in 1..Len(stack) /\ stack'[i] = stack[i]
      BY <2>1, <2>3, <3>1 DEF LastAgrees
    <3>2. CASE stack'[i] = f
      BY <2>1, <2>3, <3>2 DEF Respects
    <3> QED
      BY <1>1, <3>1, <3>2
  <2> QED
    BY <2>2, <2>3
<1>4. ASSUME AgeAgrees, Times \subseteq {"kFirstUpdate"}
      PROVE  AgeAgrees'
  <2>1. ASSUME updating', NEW a \in Animation, Animating(a)'
        PROVE  adjust_start_time'[a] \/ age'[a] >= lag'
    BY <1>4, <2>1 DEF Respects, AgeAgrees
  <2>2. ASSUME Called', stack'[1].last
        PROVE  age'[stack'[1].obj] >= animation_duration'[stack'[1].obj]
    BY <1>2, <1>4, <2>2 DEF Respects, AgeAgrees
  <2> QED
    BY <2>1, <2>2 DEF AgeAgrees
<1> QED
  BY <1>3, <1>4

(* An animation that is taken off the list is not one that Update's callback
   finds again. *)
LEMMA RemovedRespects ==
  ASSUME IInv, NEW a \in Animation, Animating(a), NEW how, Removed(a, how), NEW f \in Frame,
         f.in # "OnAnimationUpdate", Pushes(f), UNCHANGED <<fields, updating, lag>>,
         Called /\ f.in = "OnAnimationStop" /\ f.then = "start" => f.obj # stack[1].obj
  PROVE  Respects(f)
<1> USE DEF IInv
<1>1. ToSet(animating_objects') = ToSet(animating_objects) \ {a}
  BY RemovedList
<1>2. \A b \in Animation \ {a} : run'[b] = run[b]
  BY DEF Removed, TypeOK
<1>3. ASSUME Called
      PROVE  /\ stack[1].obj \in ToSet(animating_objects') =>
                  Animating(stack[1].obj) /\ run'[stack[1].obj] = run[stack[1].obj]
             /\ age'[stack[1].obj] = age[stack[1].obj]
             /\ animation_duration'[stack[1].obj] = animation_duration[stack[1].obj]
  <2>1. ToSet(animating_objects) \subseteq Animation
    BY FirstProperties, Numbers DEF TypeOK
  <2>2. \A b : b \in ToSet(animating_objects') =>
                  b \in ToSet(animating_objects) /\ b \in Animation \ {a}
    BY <1>1, <2>1
  <2> QED
    BY <1>2, <2>2 DEF Animating, fields
<1>4. \A b \in Animation : Animating(b)' =>
        Animating(b) /\ adjust_start_time'[b] = adjust_start_time[b] /\ age'[b] = age[b]
  BY <1>1 DEF Animating, fields
<1> QED
  BY <1>3, <1>4 DEF Respects

(* Nor is one that begins, as long as it is another. *)
LEMMA BegunRespects ==
  ASSUME IInv, NEW a \in Animation, ~Animating(a), NEW duration \in Durations, NEW time \in Times,
         NEW frames, Begin(a, duration, time, frames),
         Called => a # stack[1].obj,
         frames = stack \/ (stack # <<>> /\ frames = Below),
         UNCHANGED <<updating, lag>>
  PROVE  Respects(Starting(a))
<1> USE DEF IInv
<1>1. /\ ToSet(animating_objects') = ToSet(animating_objects) \cup {a}
      /\ adjust_start_time'[a] = (time = "kFirstUpdate")
      /\ \A b \in Animation \ {a} :
           /\ adjust_start_time'[b] = adjust_start_time[b]
           /\ animation_duration'[b] = animation_duration[b]
           /\ age'[b] = age[b] /\ run'[b] = run[b]
  BY BegunList
<1>2. Starting(a) \in Frame /\ Starting(a).in = "OnAnimationStart" /\ Pushes(Starting(a))
  BY FrameTypes DEF Starting, Begin, Pushes
<1>3. ASSUME Called
      PROVE  /\ stack[1].obj \in ToSet(animating_objects') =>
                  Animating(stack[1].obj) /\ run'[stack[1].obj] = run[stack[1].obj]
             /\ age'[stack[1].obj] = age[stack[1].obj]
             /\ animation_duration'[stack[1].obj] = animation_duration[stack[1].obj]
  <2>1. stack[1] \in Frame
    BY <1>3 DEF Called, TypeOK
  <2>2. stack[1].obj \in Animation \ {a}
    BY <1>3, <2>1, FrameTypes DEF Called
  <2> QED
    BY <1>1, <2>2 DEF Animating
<1>4. \A b \in Animation : Animating(b)' =>
        \/ Animating(b) /\ adjust_start_time'[b] = adjust_start_time[b] /\ age'[b] = age[b]
        \/ Times \subseteq {"kFirstUpdate"} => adjust_start_time'[b]
  <2> TAKE b \in Animation
  <2>1. CASE b = a
    BY <1>1, <2>1
  <2>2. CASE b # a
    BY <1>1, <2>2 DEF Animating
  <2> QED
    BY <2>1, <2>2
<1> QED
  BY <1>2, <1>3, <1>4 DEF Respects

(* Nor does anything else but the list's operations and time change. *)
LEMMA QuietRespects ==
  ASSUME IInv, NEW f \in Frame, f.in # "OnAnimationUpdate", f.in # "OnAnimationStop", Pushes(f),
         UNCHANGED <<animating_objects, fields, updating, lag>>,
         Called /\ Animating(stack[1].obj) => run'[stack[1].obj] = run[stack[1].obj]
  PROVE  Respects(f)
BY DEF Respects, Animating, fields

(* Unless callbacks start their own animations again, what they call and what
   happens when they return is of these kinds. *)
LEMMA CallsRespect ==
  ASSUME IInv, LastAgrees, ~Restarts, App
  PROVE  \E f : Respects(f)
<1>1. AbortingAll \in Frame /\ AbortingAll.in = "AbortAllAnimations"
  BY FrameTypes DEF AbortingAll
<1>2. Called => stack[1] \in Frame /\ stack[1].obj \in Animation /\ InCallOf(stack[1].obj, {"OnAnimationUpdate"})
  <2> SUFFICES ASSUME Called
               PROVE  stack[1] \in Frame /\ stack[1].obj \in Animation /\ InCallOf(stack[1].obj, {"OnAnimationUpdate"})
    OBVIOUS
  <2>1. stack \in Seq(Frame) /\ 1 \in 1..Len(stack)
    BY DEF IInv, TypeOK, Called
  <2> QED
    BY <2>1, FrameTypes DEF InCallOf, Called
<1>3. ASSUME NEW a \in Animation, NEW duration \in Durations, NEW time \in Times,
             StartAnimation(a, duration, time)
      PROVE  \E f : Respects(f)
  <2>1. Called => a # stack[1].obj
    BY <1>2, <1>3 DEF StartAnimation, MayStart, InCallOf
  <2>2. UNCHANGED <<updating, lag>>
    BY <1>3 DEF StartAnimation, Call
  <2>3. CASE ~Animating(a) /\ Begin(a, duration, time, stack)
    BY <2>1, <2>2, <2>3, BegunRespects
  <2>4. CASE /\ Animating(a) /\ Removed(a, "aborted")
             /\ stack' = Append(stack, Stopping(a, TRUE, "start", <<duration, time>>))
             /\ UNCHANGED fields
    <3> DEFINE f == Stopping(a, TRUE, "start", <<duration, time>>)
    <3>1. f \in Frame /\ f.in = "OnAnimationStop" /\ f.obj = a
      BY FrameTypes DEF Stopping
    <3>2. Pushes(f)
      BY <2>4 DEF Pushes
    <3> HIDE DEF f
    <3>3. Respects(f)
      BY <2>1, <2>2, <2>4, <3>1, <3>2, RemovedRespects
    <3> QED
      BY <3>3
  <2> QED
    BY <1>3, <2>3, <2>4 DEF StartAnimation
<1>4. ASSUME NEW a \in Animation, NEW then \in {"delete", "keep"}, AbortAnimation(a, then)
      PROVE  \E f : Respects(f)
  <2> DEFINE f == Stopping(a, TRUE, then, <<>>)
  <2>1. f \in Frame /\ f.in = "OnAnimationStop" /\ f.then # "start"
    BY FrameTypes DEF Stopping
  <2>2. Pushes(f) /\ Animating(a) /\ Removed(a, "aborted") /\ UNCHANGED <<fields, updating, lag>>
    BY <1>4 DEF Pushes, AbortAnimation, Call
  <2> HIDE DEF f
  <2>3. Respects(f)
    BY <2>1, <2>2, RemovedRespects
  <2> QED
    BY <2>3
<1>5. ASSUME NEW a \in Animation, DeleteAnimation(a)
      PROVE  \E f : Respects(f)
  <2>1. /\ run' = [run EXCEPT ![a] = "none"] /\ ~Animating(a)
        /\ UNCHANGED <<animating_objects, fields, stack, updating, lag>>
    BY <1>5 DEF DeleteAnimation, Call
  <2>2. Called /\ Animating(stack[1].obj) => run'[stack[1].obj] = run[stack[1].obj]
    BY <1>2, <2>1 DEF IInv, TypeOK
  <2>3. Pushes(AbortingAll)
    BY <2>1 DEF Pushes
  <2>4. Respects(AbortingAll)
    BY <1>1, <2>1, <2>2, <2>3, QuietRespects
  <2> QED
    BY <2>4
<1>6. ASSUME AbortAllAnimations \/ BeginBlockAnimations \/ EndBlockAnimations
      PROVE  \E f : Respects(f)
  <2>1. /\ UNCHANGED <<animating_objects, fields, run, updating, lag>>
        /\ stack' = stack \/ stack' = Append(stack, AbortingAll)
    BY <1>6 DEF AbortAllAnimations, BeginBlockAnimations, EndBlockAnimations, Call
  <2>2. Pushes(AbortingAll)
    BY <2>1 DEF Pushes
  <2>3. Called => run'[stack[1].obj] = run[stack[1].obj]
    BY <2>1
  <2>4. Respects(AbortingAll)
    BY <1>1, <2>1, <2>2, <2>3, QuietRespects
  <2> QED
    BY <2>4
<1> QED
  BY <1>3, <1>4, <1>5, <1>6 DEF App

(* So it is with what happens when callbacks return. *)
LEMMA ReturnsRespect ==
  ASSUME IInv, LastAgrees, Return
  PROVE  \E f : Respects(f)
<1>1. AbortingAll \in Frame /\ AbortingAll.in = "AbortAllAnimations"
  BY FrameTypes DEF AbortingAll
<1>2. stack # <<>> /\ UNCHANGED <<updating, lag>>
  BY DEF Return, ReturnStart, ReturnStop, ReturnUpdate, AbortNext, In
<1>3. /\ Top \in Frame
      /\ Top.in = "OnAnimationStop" => Top.obj \in Stopped(stack)
      /\ Top.in = "OnAnimationUpdate" => Top = stack[1]
  BY <1>2, Popped DEF IInv
<1>4. ASSUME stack' = Below, UNCHANGED <<animating_objects, fields, run>>
      PROVE  \E f : Respects(f)
  <2>1. Pushes(AbortingAll)
    BY <1>2, <1>4 DEF Pushes
  <2>2. Called => run'[stack[1].obj] = run[stack[1].obj]
    BY <1>4
  <2>3. Respects(AbortingAll)
    BY <1>1, <1>2, <1>4, <2>1, <2>2, QuietRespects
  <2> QED
    BY <2>3
<1>5. ASSUME NEW a \in Animation, NEW how, Animating(a), Removed(a, how), UNCHANGED fields,
             NEW aborted \in BOOLEAN,
             \/ stack' = Append(stack, Stopping(a, aborted, "delete", <<>>))
             \/ stack' = Append(Below, Stopping(a, aborted, "delete", <<>>))
      PROVE  \E f : Respects(f)
  <2> DEFINE f == Stopping(a, aborted, "delete", <<>>)
  <2>1. f \in Frame /\ f.in = "OnAnimationStop" /\ f.then # "start"
    BY FrameTypes DEF Stopping
  <2>2. Pushes(f)
    BY <1>2, <1>5 DEF Pushes
  <2> HIDE DEF f
  <2>3. Respects(f)
    BY <1>2, <1>5, <2>1, <2>2, RemovedRespects
  <2> QED
    BY <2>3
<1>6. CASE ReturnStart
  BY <1>4, <1>6 DEF ReturnStart
<1>7. CASE ReturnStop
  <2>1. CASE Top.then = "start" /\ Begin(Top.obj, Top.args[1], Top.args[2], Below)
    <3>1. Top.in = "OnAnimationStop" /\ Top.obj \in Animation /\ Top.args \in Durations \X Times
      BY <1>3, <1>7, <2>1, FrameTypes DEF ReturnStop, In
    <3>2. Top.args[1] \in Durations /\ Top.args[2] \in Times
      BY <3>1
    <3>3. ~Animating(Top.obj)
      BY <1>3, <3>1 DEF IInv, FramesAgree, FramesAgreeOn, Animating
    <3>4. Called => Top.obj # stack[1].obj
      <4>1. Len(stack) \in 1..Len(stack) /\ Top = stack[Len(stack)]
        BY <1>2 DEF Top, IInv, TypeOK
      <4> QED
        BY <2>1, <3>1, <4>1 DEF LastAgrees
    <3> DEFINE a == Top.obj
               duration == Top.args[1]
               time == Top.args[2]
               frames == Below
    <3>5. /\ a \in Animation /\ duration \in Durations /\ time \in Times
          /\ Begin(a, duration, time, frames) /\ ~Animating(a) /\ (Called => a # stack[1].obj)
          /\ stack # <<>> /\ frames = Below
      BY <1>2, <2>1, <3>1, <3>2, <3>3, <3>4
    <3> HIDE DEF a, duration, time, frames
    <3>6. Respects(Starting(a))
      BY <1>2, <3>5, BegunRespects
    <3> QED
      BY <3>6
  <2>2. CASE stack' = Below /\ UNCHANGED <<animating_objects, fields, iter, run, owed>>
    BY <1>4, <2>2
  <2> QED
    BY <1>7, <2>1, <2>2 DEF ReturnStop
<1>8. CASE ReturnUpdate
  <2>1. UNCHANGED fields /\ Top.in = "OnAnimationUpdate"
    BY <1>8 DEF ReturnUpdate, In
  <2>2. CASE stack' = Below /\ UNCHANGED <<animating_objects, iter, run, owed>>
    BY <1>4, <2>1, <2>2
  <2>3. CASE /\ Animating(Top.obj) /\ Removed(Top.obj, "completed")
             /\ stack' = Append(Below, Stopping(Top.obj, FALSE, "delete", <<>>))
    <3>1. Top.obj \in Animation
      BY <1>3, <2>1, FrameTypes
    <3> QED
      BY <1>5, <2>1, <2>3, <3>1
  <2> QED
    BY <1>8, <2>2, <2>3 DEF ReturnUpdate
<1>9. CASE AbortNext
  <2>1. UNCHANGED fields
    BY <1>9 DEF AbortNext
  <2>2. CASE stack' = Below /\ UNCHANGED <<animating_objects, iter, run, owed>>
    BY <1>4, <2>1, <2>2
  <2>3. CASE /\ animating_objects # <<>> /\ Removed(Head(animating_objects), "aborted")
             /\ stack' = Append(stack, Stopping(Head(animating_objects), TRUE, "delete", <<>>))
    <3>1. Head(animating_objects) \in Animation /\ Animating(Head(animating_objects))
      BY <2>3, FirstProperties, Numbers DEF IInv, TypeOK, Animating
    <3> QED
      BY <1>5, <2>1, <2>3, <3>1
  <2> QED
    BY <1>9, <2>2, <2>3 DEF AbortNext
<1> QED
  BY <1>6, <1>7, <1>8, <1>9 DEF Return

(* Update calls the animation, and its last update is one that its duration
   has passed for. *)
LEMMA UpdateNextRespects ==
  ASSUME IInv, UpdateNext
  PROVE  LastAgrees' /\ (AgeAgrees => AgeAgrees')
<1> USE DEF IInv
<1>1. PICK a \in Animation :
        /\ updating /\ stack = <<>> /\ iter = a
        /\ Adjusted(a)
        /\ UNCHANGED lag
        /\ Progress(a)
        /\ UNCHANGED <<animating_objects, animation_duration, updating>>
  BY DEF UpdateNext
<1> DEFINE last == animation_duration[a] = 0 \/ Elapsed(a)' >= animation_duration[a]
<1>2. stack' = <<Updating(a, last)>> /\ run' = [run EXCEPT ![a] = IF last THEN "last" ELSE @]
  BY <1>1 DEF Progress
<1>3. last \in BOOLEAN /\ (last <=> animation_duration[a] = 0 \/ Elapsed(a)' >= animation_duration[a])
  OBVIOUS
<1> HIDE DEF last
<1>4. /\ Len(stack') = 1 /\ stack'[1] = Updating(a, last) /\ Animating(a)
      /\ Updating(a, last).in = "OnAnimationUpdate" /\ Updating(a, last).obj = a
      /\ Updating(a, last).last = last
  BY <1>1, <1>2, Numbers DEF Updating, ListAgrees
<1>5. LastAgrees'
  <2>1. last => run'[a] = "last"
    BY <1>2 DEF TypeOK
  <2>2. \A i \in 1..Len(stack') : stack'[i].in = "OnAnimationUpdate"
    BY <1>4
  <2> QED
    BY <1>4, <2>1, <2>2 DEF LastAgrees
<1>6. ASSUME AgeAgrees
      PROVE  AgeAgrees'
  <2>1. /\ age' = [age EXCEPT ![a] = IF adjust_start_time[a] THEN lag ELSE @]
        /\ adjust_start_time' = [adjust_start_time EXCEPT ![a] = FALSE]
    BY <1>1 DEF Adjusted
  <2>2. age'[a] >= lag /\ age'[a] \in 0..MaxAge /\ lag \in 0..MaxLag
    <3>1. age[a] \in 0..MaxAge /\ lag \in 0..MaxLag /\ age'[a] = IF adjust_start_time[a] THEN lag ELSE age[a]
      BY <2>1 DEF TypeOK
    <3>2. MaxLag <= MaxAge /\ MaxLag \in Nat /\ MaxAge \in Nat
      BY Numbers DEF MaxAge
    <3>3. adjust_start_time[a] \/ age[a] >= lag
      BY <1>1, <1>4, <1>6 DEF AgeAgrees
    <3> QED
      BY <3>1, <3>2, <3>3
  <2>3. ASSUME NEW b \in Animation, Animating(b)
        PROVE  adjust_start_time'[b] \/ age'[b] >= lag'
    <3>1. CASE b = a
      BY <1>1, <2>2, <3>1
    <3>2. CASE b # a
      BY <1>1, <1>6, <2>1, <2>3, <3>2 DEF AgeAgrees, TypeOK
    <3> QED
      BY <3>1, <3>2
  <2>4. ASSUME last
        PROVE  age'[a] >= animation_duration[a]
    <3>1. Elapsed(a)' = (age'[a] - lag) % TimeRange
      BY <1>1 DEF Elapsed
    <3>2. (age'[a] - lag) % TimeRange = age'[a] - lag
      BY <2>2, ElapsedWithin
    <3>3. animation_duration[a] \in Nat /\ age'[a] \in Int /\ lag \in Nat
      BY <2>2, DurationTypes, Numbers
    <3>4. animation_duration[a] = 0 \/ age'[a] - lag >= animation_duration[a]
      BY <1>3, <2>4, <3>1, <3>2
    <3>5. age'[a] >= 0
      BY <2>2, Numbers
    <3> QED
      BY <3>3, <3>4, <3>5
  <2>5. Called' /\ stack'[1].last => age'[stack'[1].obj] >= animation_duration'[stack'[1].obj]
    BY <1>1, <1>4, <2>4
  <2> QED
    BY <1>1, <2>3, <2>5 DEF AgeAgrees, Animating
<1> QED
  BY <1>5, <1>6

(* The clock adds to both times. *)
LEMMA ClockRespects ==
  ASSUME IInv, Clock
  PROVE  /\ LastAgrees => LastAgrees'
         /\ AgeAgrees => AgeAgrees'
<1> USE DEF IInv
<1>1. /\ lag' = IF updating THEN lag + 1 ELSE 0
      /\ age' = [a \in Animation |->
                   IF ~Animating(a) THEN age[a] ELSE IF age[a] = MaxAge THEN MaxAge ELSE age[a] + 1]
      /\ UNCHANGED <<animating_objects, adjust_start_time, animation_duration, updating, stack, run>>
      /\ updating => lag < MaxLag
  BY DEF Clock
<1>2. LastAgrees => LastAgrees'
  BY <1>1 DEF LastAgrees, Called, Animating
<1>3. \A a \in Animation : /\ age[a] \in 0..MaxAge
                            /\ age'[a] = IF ~Animating(a) THEN age[a]
                                         ELSE IF age[a] = MaxAge THEN MaxAge ELSE age[a] + 1
  BY <1>1 DEF TypeOK
<1>4. MaxLag \in Nat /\ MaxAge \in Nat /\ MaxLag <= MaxAge /\ lag \in 0..MaxLag
  BY Numbers DEF MaxAge, TypeOK
<1>5. ASSUME AgeAgrees
      PROVE  AgeAgrees'
  <2>1. ASSUME updating, NEW a \in Animation, Animating(a)
        PROVE  adjust_start_time[a] \/ age'[a] >= lag'
    <3>1. adjust_start_time[a] \/ age[a] >= lag
      BY <1>5, <2>1 DEF AgeAgrees
    <3> QED
      BY <1>1, <1>3, <1>4, <2>1, <3>1
  <2>2. ASSUME Called, stack[1].last
        PROVE  age'[stack[1].obj] >= animation_duration[stack[1].obj]
    <3>1. stack[1].obj \in Animation
      <4>1. stack \in Seq(Frame) /\ 1 \in 1..Len(stack)
        BY <2>2 DEF TypeOK, Called
      <4> QED
        BY <2>2, <4>1, FrameTypes DEF Called
    <3>2. age[stack[1].obj] >= animation_duration[stack[1].obj]
      BY <1>5, <2>2 DEF AgeAgrees
    <3>3. animation_duration[stack[1].obj] \in Nat
      BY <3>1, DurationTypes
    <3>4. \A x, y \in Nat : x <= MaxAge /\ y <= x =>
            x + 1 >= y /\ MaxAge >= y
      BY <1>4
    <3> QED
      BY <1>3, <1>4, <3>1, <3>2, <3>3, <3>4
  <2> QED
    BY <1>1, <2>1, <2>2 DEF AgeAgrees, Called, Animating
<1> QED
  BY <1>2, <1>5

(* Every step keeps what is said of the animation that Update called. *)
LEMMA StepsRespect ==
  ASSUME ~Restarts
  PROVE  /\ IInv /\ LastAgrees /\ [Next]_vars => LastAgrees'
         /\ Times \subseteq {"kFirstUpdate"} =>
              (IInv /\ LastAgrees /\ AgeAgrees /\ [Next]_vars => AgeAgrees')
<1> SUFFICES ASSUME IInv, LastAgrees, [Next]_vars
             PROVE  /\ LastAgrees'
                    /\ Times \subseteq {"kFirstUpdate"} /\ AgeAgrees => AgeAgrees'
  OBVIOUS
<1>1. CASE App \/ Return
  <2>1. PICK f : Respects(f)
    BY <1>1, CallsRespect, ReturnsRespect
  <2> QED
    BY <2>1, RespectsKeeps
<1>2. CASE Update
  <2>1. /\ stack' = <<>> /\ lag' = 0 /\ stack = <<>>
        /\ UNCHANGED <<animating_objects, fields>>
    BY <1>2 DEF Update, Idle
  <2>2. \A a \in Animation : age[a] >= 0
    BY Numbers DEF IInv, TypeOK
  <2> QED
    BY <2>1, <2>2 DEF LastAgrees, AgeAgrees, Called, Animating, fields
<1>3. CASE UpdateDone
  BY <1>3 DEF UpdateDone, LastAgrees, AgeAgrees, Called
<1>4. CASE UNCHANGED vars
  BY <1>4 DEF vars, fields, LastAgrees, AgeAgrees, Called, Animating
<1> QED
  BY <1>1, <1>2, <1>3, <1>4, UpdateNextRespects, ClockRespects DEF Next

(* An animation is only completed when its last update was called. *)
LEMMA CompletedAfterLast ==
  ASSUME IInv, LastAgrees, [Next]_vars, NEW a \in Animation, run'[a] = "completed"
  PROVE  run[a] \in {"last", "completed"}
<1> USE DEF IInv
<1>1. ASSUME NEW b \in Animation, NEW how, run' = [run EXCEPT ![b] = how], how # "completed"
      PROVE  run[a] = "completed"
  BY <1>1 DEF TypeOK
<1>2. CASE App
  <2>1. ASSUME NEW b \in Animation, NEW duration \in Durations, NEW time \in Times,
               StartAnimation(b, duration, time)
        PROVE  run[a] = "completed"
    BY <1>1, <2>1 DEF StartAnimation, Begin, Removed
  <2>2. ASSUME NEW b \in Animation, NEW then \in {"delete", "keep"}, AbortAnimation(b, then)
        PROVE  run[a] = "completed"
    BY <1>1, <2>2 DEF AbortAnimation, Removed
  <2>3. ASSUME NEW b \in Animation, DeleteAnimation(b)
        PROVE  run[a] = "completed"
    BY <1>1, <2>3 DEF DeleteAnimation
  <2>4. CASE AbortAllAnimations \/ BeginBlockAnimations \/ EndBlockAnimations
    BY <2>4 DEF AbortAllAnimations, BeginBlockAnimations, EndBlockAnimations
  <2> QED
    BY <1>2, <2>1, <2>2, <2>3, <2>4 DEF App
<1>3. CASE ReturnStart
  BY <1>3 DEF ReturnStart
<1>4. CASE ReturnStop
  <2>1. CASE Top.then = "start" /\ Begin(Top.obj, Top.args[1], Top.args[2], Below)
    <3>1. Top \in Frame
      BY <1>4, Popped DEF ReturnStop, In
    <3>2. Top.obj \in Animation
      BY <1>4, <3>1, FrameTypes DEF ReturnStop, In
    <3> QED
      BY <1>1, <2>1, <3>2 DEF Begin
  <2>2. CASE UNCHANGED run
    BY <2>2
  <2> QED
    BY <1>4, <2>1, <2>2 DEF ReturnStop
<1>5. CASE ReturnUpdate
  <2>1. CASE Animating(Top.obj) /\ Top.last /\ Removed(Top.obj, "completed")
    <3>1. stack # <<>> /\ Top.in = "OnAnimationUpdate" /\ Top = stack[1]
      BY <1>5, Popped DEF ReturnUpdate, In
    <3>2. run[Top.obj] = "last"
      BY <2>1, <3>1 DEF LastAgrees, Called
    <3> QED
      BY <2>1, <3>2 DEF Removed, TypeOK
  <2>2. CASE UNCHANGED run
    BY <2>2
  <2> QED
    BY <1>5, <2>1, <2>2 DEF ReturnUpdate
<1>6. CASE AbortNext
  <2>1. CASE animating_objects # <<>> /\ Removed(Head(animating_objects), "aborted")
    <3>1. Head(animating_objects) \in Animation
      BY <2>1, FirstProperties, Numbers DEF TypeOK
    <3> QED
      BY <1>1, <2>1, <3>1 DEF Removed
  <2>2. CASE UNCHANGED run
    BY <2>2
  <2> QED
    BY <1>6, <2>1, <2>2 DEF AbortNext
<1>7. CASE UpdateNext
  <2>1. PICK b \in Animation : Progress(b)
    BY <1>7 DEF UpdateNext
  <2> QED
    BY <2>1 DEF Progress, TypeOK
<1>8. CASE Update \/ UpdateDone \/ Clock \/ UNCHANGED vars
  BY <1>8 DEF Update, UpdateDone, Clock, vars
<1> QED
  BY <1>2, <1>3, <1>4, <1>5, <1>6, <1>7, <1>8 DEF Next, Return

(* Nothing is called at first. *)
LEMMA InitRespects == Init => LastAgrees /\ AgeAgrees
BY DEF Init, LastAgrees, AgeAgrees, Called

(* As long as no OnAnimationUpdate starts its own animation again, for any
   animations and durations no animation is completed but after the update
   with progress 1 that animation.h promises. *)
THEOREM LastUpdates ==
  ASSUME ~Restarts
  PROVE  Spec => CompletesAfterLast
<1>1. Init => LastAgrees
  BY InitRespects
<1>2. IInv /\ LastAgrees /\ [Next]_vars => LastAgrees'
  BY StepsRespect
<1>3. IInv /\ LastAgrees /\ [Next]_vars =>
        [\A a \in Animation : run'[a] = "completed" => run[a] \in {"last", "completed"}]_vars
  BY CompletedAfterLast
<1> QED
  BY <1>1, <1>2, <1>3, Invariance, PTL DEF Spec, CompletesAfterLast

(* If besides every start is at the first update, no animation completes
   early either: with UpdatesComplete, an Update completes exactly what is
   due. *)
THEOREM UpdatesSafe ==
  ASSUME ~Restarts, Times \subseteq {"kFirstUpdate"}
  PROVE  Spec => []UpdatesAgree
<1>1. Init => LastAgrees /\ AgeAgrees
  BY InitRespects
<1>2. IInv /\ LastAgrees /\ AgeAgrees /\ [Next]_vars => LastAgrees' /\ AgeAgrees'
  BY StepsRespect
<1>3. IInv /\ AgeAgrees => NoEarlyCompletion
  <2> SUFFICES ASSUME IInv, AgeAgrees, In("OnAnimationUpdate"), Top.last
               PROVE  age[Top.obj] >= animation_duration[Top.obj]
    BY DEF NoEarlyCompletion
  <2>1. stack # <<>> /\ Top.in = "OnAnimationUpdate" /\ Top = stack[1]
    BY Popped DEF In
  <2> QED
    BY <2>1 DEF AgeAgrees, Called
<1>4. TypeOK /\ NoDanglingAnimation /\ UpdateComplete /\ NoEarlyCompletion => UpdatesAgree
  BY DEF UpdatesAgree
<1> QED
  BY <1>1, <1>2, <1>3, <1>4, Invariance, UpdatesComplete, PTL DEF Spec
=============================================================================
