-------------------------- MODULE AnimationManager --------------------------
(***************************************************************************)
(* Running animations (src/el/animation_manager.cc, animation.cc).  All on *)
(* one thread: Update walks the list of running animations with a safe     *)
(* iterator and calls each of them; these callbacks may themselves start,  *)
(* abort and delete animations, their own included, and the clock goes on. *)
(* The calls under way are a stack of frames, one for each callback.       *)
(*                                                                         *)
(* Time is kept relative: age is GetTimeMS() - animation_start_time, lag   *)
(* is GetTimeMS() - time_now while Update runs.                            *)
(***************************************************************************)
EXTENDS Lists

CONSTANTS Animation, NULL,
          Durations,     \* the durations animations are started with
          Times,         \* of AnimationTime: "kFirstUpdate", "kImmediately"
          Restarts,      \* whether an animation, or a new one in its memory, may start
                         \*  before its OnAnimationUpdate returns
          TimeRange,     \* 2^64 in the code
          MaxLag,        \* bound: the time one Update takes
          MaxCalls       \* bound: calls by callbacks before the thread is idle

MaxDuration == CHOOSE d \in Durations : \A e \in Durations : e <= d
MaxAge == MaxDuration + MaxLag

ASSUME AnimationAssumption ==
  /\ NULL \notin Animation
  /\ Durations \subseteq Nat \ {0} /\ \E d \in Durations : \A e \in Durations : e <= d
  /\ Times \subseteq {"kFirstUpdate", "kImmediately"}
  /\ Restarts \in BOOLEAN
  /\ MaxLag \in Nat /\ MaxCalls \in Nat
  /\ TimeRange \in Nat /\ TimeRange > 2 * MaxAge

VARIABLES animating_objects,         \* the running animations
          allocated,                 \* the animations that exist
          adjust_start_time, animation_duration,
          age,
          block_animations_counter,
          updating, iter, lag,       \* Update: running, its iterator, its time
          stack,                     \* callbacks under way, the last on top
          calls,                     \* calls by callbacks, for the bound
          run,                       \* ghost: how far each animation got
          owed                       \* ghost: what this Update has to complete

fields == <<adjust_start_time, animation_duration, age>>
vars == <<animating_objects, allocated, fields, block_animations_counter,
          updating, iter, lag, stack, calls, run, owed>>

Animating(a) == a \in ToSet(animating_objects)

-----------------------------------------------------------------------------
(* Frames *)

Starting(a) == [in |-> "OnAnimationStart", obj |-> a]
Updating(a, last) == [in |-> "OnAnimationUpdate", obj |-> a, last |-> last]
Stopping(a, aborted, then, args) ==
  [in |-> "OnAnimationStop", obj |-> a, aborted |-> aborted, then |-> then, args |-> args]
AbortingAll == [in |-> "AbortAllAnimations", obj |-> NULL]

Frame ==
  [in : {"OnAnimationStart"}, obj : Animation]
    \cup [in : {"OnAnimationUpdate"}, obj : Animation, last : BOOLEAN]
    \cup [in : {"OnAnimationStop"}, obj : Animation, aborted : BOOLEAN,
          then : {"delete", "keep"}, args : {<<>>}]
    \cup [in : {"OnAnimationStop"}, obj : Animation, aborted : {TRUE},
          then : {"start"}, args : Durations \X Times]
    \cup {AbortingAll}

Top == stack[Len(stack)]
Below == SubSeq(stack, 1, Len(stack) - 1)
In(callback) == stack # <<>> /\ Top.in = callback
InCallOf(a, callbacks) == \E i \in 1..Len(stack) : stack[i].in \in callbacks /\ stack[i].obj = a

Idle == ~updating /\ stack = <<>>

Init ==
  /\ animating_objects = <<>>
  /\ allocated = {}
  /\ adjust_start_time = [a \in Animation |-> FALSE]
  /\ animation_duration = [a \in Animation |-> 0]
  /\ age = [a \in Animation |-> 0]
  /\ block_animations_counter = 0
  /\ updating = FALSE /\ iter = NULL /\ lag = 0
  /\ stack = <<>> /\ calls = 0
  /\ run = [a \in Animation |-> "none"] /\ owed = {}

-----------------------------------------------------------------------------
(* Calls, by the application or by a callback *)

Call ==
  /\ \/ Idle
     \/ stack # <<>> /\ Top # AbortingAll /\ calls < MaxCalls
  /\ calls' = IF Idle THEN 0 ELSE calls + 1
  /\ UNCHANGED <<updating, lag>>

(* Off the list; how it ended is "aborted" or "completed". *)
Removed(a, how) ==
  /\ animating_objects' = Without(animating_objects, {a})
  /\ iter' = IF iter = a THEN After(animating_objects, a, NULL) ELSE iter
  /\ run' = [run EXCEPT ![a] = how]
  /\ owed' = owed \ {a}

(* Mutant: blocking does not matter *)
BeginUnblocked(a, duration, time, frames) ==
  /\ adjust_start_time' = [adjust_start_time EXCEPT ![a] = time = "kFirstUpdate"]
  /\ age' = [age EXCEPT ![a] = 0]
  /\ animation_duration' = [animation_duration EXCEPT ![a] = duration]
  /\ animating_objects' = Append(animating_objects, a)
  /\ stack' = Append(frames, Starting(a))
  /\ run' = [run EXCEPT ![a] = IF block_animations_counter > 0 THEN "blocked" ELSE "running"]
  /\ UNCHANGED <<iter, owed>>

(* StartAnimation from line 111, once a is not animating *)
Begin(a, duration, time, frames) ==
  /\ adjust_start_time' = [adjust_start_time EXCEPT ![a] = time = "kFirstUpdate"]
  /\ age' = [age EXCEPT ![a] = 0]
  /\ animation_duration' =
       [animation_duration EXCEPT ![a] = IF block_animations_counter > 0 THEN 0 ELSE duration]
  /\ animating_objects' = Append(animating_objects, a)
  /\ stack' = Append(frames, Starting(a))
  /\ run' = [run EXCEPT ![a] = IF block_animations_counter > 0 THEN "blocked" ELSE "running"]
  /\ UNCHANGED <<iter, owed>>

(* What is being stopped is deleted or started when its OnAnimationStop returns,
   and not started meanwhile: the list would keep it when it is deleted. *)
MayStart(a) == ~InCallOf(a, {"OnAnimationStop"} \cup IF Restarts THEN {} ELSE {"OnAnimationUpdate"})

StartAnimation(a, duration, time) ==
  /\ Call /\ MayStart(a)
  /\ allocated' = allocated \cup {a}
  /\ \/ /\ ~Animating(a)
        /\ Begin(a, duration, time, stack)
     \/ /\ Animating(a)
        /\ Removed(a, "aborted")
        /\ stack' = Append(stack, Stopping(a, TRUE, "start", <<duration, time>>))
        /\ UNCHANGED fields
  /\ UNCHANGED block_animations_counter

AbortAnimation(a, then) ==
  /\ Call
  /\ Animating(a)
  /\ Removed(a, "aborted")
  /\ stack' = Append(stack, Stopping(a, TRUE, then, <<>>))
  /\ UNCHANGED <<allocated, fields, block_animations_counter>>

AbortAllAnimations ==
  /\ Call
  /\ stack' = Append(stack, AbortingAll)
  /\ UNCHANGED <<animating_objects, allocated, fields, block_animations_counter, iter, run, owed>>

(* The owner of an animation that was aborted and kept deletes it. *)
DeleteAnimation(a) ==
  /\ Call
  /\ a \in allocated /\ ~Animating(a) /\ ~InCallOf(a, {"OnAnimationStop"})
  /\ allocated' = allocated \ {a}
  /\ run' = [run EXCEPT ![a] = "none"]
  /\ UNCHANGED <<animating_objects, fields, block_animations_counter, iter, stack, owed>>

(* AnimationBlocker; one level of blocking *)
BeginBlockAnimations ==
  /\ Call /\ block_animations_counter = 0
  /\ block_animations_counter' = block_animations_counter + 1
  /\ UNCHANGED <<animating_objects, allocated, fields, iter, stack, run, owed>>

EndBlockAnimations ==
  /\ Call /\ block_animations_counter > 0
  /\ block_animations_counter' = block_animations_counter - 1
  /\ UNCHANGED <<animating_objects, allocated, fields, iter, stack, run, owed>>

-----------------------------------------------------------------------------
(* Callbacks return *)

ReturnStart ==
  /\ In("OnAnimationStart")
  /\ stack' = Below
  /\ UNCHANGED <<animating_objects, allocated, fields, iter, run, owed, calls>>

(* To AbortAnimation, or to Update, which delete the animation, or to
   StartAnimation, which goes on *)
ReturnStop ==
  /\ In("OnAnimationStop")
  /\ UNCHANGED calls
  /\ \/ /\ Top.then = "start"
        /\ Begin(Top.obj, Top.args[1], Top.args[2], Below)
        /\ UNCHANGED allocated
     \/ /\ Top.then # "start"
        /\ allocated' = IF Top.then = "delete" THEN allocated \ {Top.obj} ELSE allocated
        /\ stack' = Below
        /\ UNCHANGED <<animating_objects, fields, iter, run, owed>>

(* Mutant: an animation that the callback took off the list is not told apart *)
ReturnUpdateUnchecked ==
  /\ In("OnAnimationUpdate")
  /\ UNCHANGED <<allocated, fields, calls>>
  /\ \/ /\ ~Top.last
        /\ stack' = Below
        /\ UNCHANGED <<animating_objects, iter, run, owed>>
     \/ /\ Top.last
        /\ Removed(Top.obj, "completed")
        /\ stack' = Append(Below, Stopping(Top.obj, FALSE, "delete", <<>>))

(* To Update: unless the callback took the animation off the list, it is
   complete when its progress was 1.  (A deleted animation is off the list: its
   memory, which the check reads, says so until it holds another, which is then
   taken for the one that was called.) *)
ReturnUpdate ==
  /\ In("OnAnimationUpdate")
  /\ UNCHANGED <<allocated, fields, calls>>
  /\ \/ /\ ~Animating(Top.obj) \/ ~Top.last
        /\ stack' = Below
        /\ UNCHANGED <<animating_objects, iter, run, owed>>
     \/ /\ Animating(Top.obj) /\ Top.last
        /\ Removed(Top.obj, "completed")
        /\ stack' = Append(Below, Stopping(Top.obj, FALSE, "delete", <<>>))

AbortNext ==
  /\ stack # <<>> /\ Top = AbortingAll
  /\ UNCHANGED <<allocated, fields, calls>>
  /\ \/ /\ animating_objects = <<>>
        /\ stack' = Below
        /\ UNCHANGED <<animating_objects, iter, run, owed>>
     \/ /\ animating_objects # <<>>
        /\ Removed(Head(animating_objects), "aborted")
        /\ stack' = Append(stack, Stopping(Head(animating_objects), TRUE, "delete", <<>>))

Return ==
  /\ ReturnStart \/ ReturnStop \/ ReturnUpdate \/ AbortNext
  /\ UNCHANGED <<block_animations_counter, updating, lag>>

-----------------------------------------------------------------------------
(* Update *)

(* time_now - animation_start_time, unsigned *)
Elapsed(a) == (age[a] - lag) % TimeRange

(* Due to complete: started while blocked, or run for its duration *)
Due(a) == run[a] = "blocked" \/ (~adjust_start_time[a] /\ age[a] >= animation_duration[a])

Update ==
  /\ Idle
  /\ updating' = TRUE
  /\ lag' = 0 /\ calls' = 0
  /\ iter' = FirstOf(animating_objects, NULL)
  /\ owed' = {a \in ToSet(animating_objects) : Due(a)}
  /\ UNCHANGED <<animating_objects, allocated, fields, block_animations_counter, stack, run>>

Progress(a) ==
  LET last == animation_duration[a] = 0 \/ Elapsed(a)' >= animation_duration[a]
  IN  /\ stack' = <<Updating(a, last)>>
      /\ run' = [run EXCEPT ![a] = IF last THEN "last" ELSE @]

(* Mutant: the start time is set at every update *)
AdjustedAlways(a) ==
  /\ age' = [age EXCEPT ![a] = IF adjust_start_time[a] THEN lag ELSE @]
  /\ UNCHANGED adjust_start_time

(* At its first update the animation starts, at time_now. *)
Adjusted(a) ==
  /\ age' = [age EXCEPT ![a] = IF adjust_start_time[a] THEN lag ELSE @]
  /\ adjust_start_time' = [adjust_start_time EXCEPT ![a] = FALSE]

(* The iterator steps on before the animation is called. *)
UpdateNext ==
  \E a \in Animation :
    /\ updating /\ stack = <<>> /\ iter = a
    /\ iter' = After(animating_objects, a, NULL)
    /\ Adjusted(a)
    /\ UNCHANGED lag
    /\ Progress(a)
    /\ UNCHANGED <<animating_objects, allocated, animation_duration,
                   block_animations_counter, updating, calls, owed>>

UpdateDone ==
  /\ updating /\ stack = <<>> /\ iter = NULL
  /\ updating' = FALSE
  /\ lag' = 0
  /\ UNCHANGED <<animating_objects, allocated, fields, block_animations_counter,
                 iter, stack, calls, run, owed>>

-----------------------------------------------------------------------------
App ==
  \/ \E a \in Animation :
       \/ \E duration \in Durations, time \in Times : StartAnimation(a, duration, time)
       \/ \E then \in {"delete", "keep"} : AbortAnimation(a, then)
       \/ DeleteAnimation(a)
  \/ AbortAllAnimations
  \/ BeginBlockAnimations \/ EndBlockAnimations

Clock ==
  /\ updating => lag < MaxLag
  /\ lag' = IF updating THEN lag + 1 ELSE 0
  /\ age' = [a \in Animation |->
               IF ~Animating(a) THEN age[a] ELSE IF age[a] = MaxAge THEN MaxAge ELSE age[a] + 1]
  /\ UNCHANGED <<animating_objects, allocated, adjust_start_time, animation_duration,
                 block_animations_counter, updating, iter, stack, calls, run, owed>>

Next == App \/ Return \/ Update \/ UpdateNext \/ UpdateDone \/ Clock

Spec == Init /\ [][Next]_vars

(* Callbacks return; while animations run the root element is invalidated
   after every frame, so that the next one calls Update; time passes. *)
FairSpec ==
  /\ Spec
  /\ WF_vars(Return \/ UpdateNext \/ UpdateDone)
  /\ SF_vars(Update)
  /\ SF_vars(Clock)

-----------------------------------------------------------------------------
(* Properties *)

(* Every variable has its type. *)
TypeOK ==
  /\ animating_objects \in Seq(Animation)
  /\ allocated \subseteq Animation
  /\ adjust_start_time \in [Animation -> BOOLEAN]
  /\ animation_duration \in [Animation -> Durations \cup {0}]
  /\ age \in [Animation -> 0..MaxAge]
  /\ block_animations_counter \in {0, 1}
  /\ updating \in BOOLEAN /\ iter \in Animation \cup {NULL} /\ lag \in 0..MaxLag
  /\ stack \in Seq(Frame) /\ calls \in 0..MaxCalls
  /\ run \in [Animation -> {"none", "blocked", "running", "last", "aborted", "completed"}]
  /\ owed \subseteq Animation

(* The running animations are distinct and exist, Update's iterator is at one
   of them, and so is neither any animation being stopped, which is deleted or
   started again next: it exists and is off the list. *)
NoDanglingAnimation ==
  /\ IsInjective(animating_objects)
  /\ ToSet(animating_objects) \subseteq allocated
  /\ iter # NULL => Animating(iter)
  /\ \A i \in 1..Len(stack) :
       stack[i].in = "OnAnimationStop" =>
         stack[i].obj \in allocated /\ ~Animating(stack[i].obj)

(* An animation only gets progress 1 once its duration has passed since its
   start time. *)
NoEarlyCompletion ==
  In("OnAnimationUpdate") /\ Top.last => age[Top.obj] >= animation_duration[Top.obj]

(* An animation "will be called with progress 1 before the animation is
   completed normally (not aborted)" (animation.h 96), in the same run. *)
CompletesAfterLast ==
  [][\A a \in Animation : run'[a] = "completed" => run[a] \in {"last", "completed"}]_vars

(* What was due when Update began, because it ran for its duration or was
   started while animations were blocked, has been stopped when Update ends,
   whatever the callbacks started and aborted meanwhile. *)
UpdateComplete == ~updating => owed = {}

(* The types, what is on the list while it is walked, and what completes when:
   neither early nor late. *)
UpdatesAgree == TypeOK /\ NoDanglingAnimation /\ NoEarlyCompletion /\ UpdateComplete

(* Every animation that is started is at last stopped. *)
EventuallyStopped == \A a \in Animation : Animating(a) ~> ~Animating(a)
=============================================================================
