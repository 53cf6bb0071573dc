--------------------------- MODULE PlatformTimer ----------------------------
(***************************************************************************)
(* The one timer that wakes the message loop (src/testbed/platform:        *)
(* ReschedulePlatformTimer and timer_callback of port_glfw.cc over         *)
(* glfwRescheduleTimer of glfw_extra_win.cc).  Windows repeats a timer     *)
(* set with SetTimer every period until it is killed, whereas the message  *)
(* FAKE_WM_TIMER, posted when the timer should fire at once, comes once.   *)
(* Time 0 is "as soon as possible"; the clock starts at 1.                 *)
(***************************************************************************)
EXTENDS Naturals

CONSTANT MaxTime      \* bound: the clock stops at MaxTime, which stands for
                      \* every later time
ASSUME MaxTimeAssumption == MaxTime \in Nat \ {0}

VARIABLES now,             \* GetTimeMS
          set_fire_time,   \* the fire time last passed on to the platform
          timer_period,    \* of the timer SetTimer started, 0 when killed
          timer_due,       \* the next time that timer elapses
          fake             \* a FAKE_WM_TIMER is in the window message queue

timerVars == <<set_fire_time, timer_period, timer_due, fake>>

(* ~0ull: later than every time *)
kNotSoon == MaxTime + 1

TimerInit ==
  /\ now = 1
  /\ set_fire_time = kNotSoon
  /\ timer_period = 0
  /\ timer_due = 0
  /\ fake = FALSE

Tick ==
  /\ now < MaxTime
  /\ now' = now + 1

-----------------------------------------------------------------------------
TimerElapsed == timer_period > 0 /\ (now >= timer_due \/ now = MaxTime)

glfwKillTimer == timer_period' = 0 /\ timer_due' = 0

(* SetTimer has a smallest period, one unit of time here *)
SetTimer(delay) ==
  LET period == IF delay = 0 THEN 1 ELSE delay
  IN  timer_period' = period /\ timer_due' = now + period

(* With no delay the fake message is posted in place of the timer, unless the
   queue holds a message: the fake one, that of an elapsed timer, or any
   other the platform has queued. *)
glfwRescheduleTimer(delay) ==
  \/ /\ delay = 0 /\ ~fake /\ ~TimerElapsed
     /\ glfwKillTimer
     /\ fake' = TRUE
  \/ /\ SetTimer(delay)
     /\ UNCHANGED fake

ReschedulePlatformTimer(fire_time, force) ==
  \/ /\ fire_time = kNotSoon
     /\ set_fire_time' = kNotSoon
     /\ glfwKillTimer
     /\ UNCHANGED fake
  \/ /\ fire_time # kNotSoon
     /\ fire_time # set_fire_time \/ force \/ fire_time = 0
     /\ set_fire_time' = fire_time
     /\ glfwRescheduleTimer(IF fire_time < now THEN 0 ELSE fire_time - now)
  \/ /\ fire_time # kNotSoon
     /\ ~(fire_time # set_fire_time \/ force \/ fire_time = 0)
     /\ UNCHANGED timerVars

RescheduleTimer(fire_time) == ReschedulePlatformTimer(fire_time, FALSE)

-----------------------------------------------------------------------------
(* The window procedure takes a timer message off the queue.  The timer may
   fire before it is due: "the OS is not playing nice". *)
FakeMessage ==
  /\ fake
  /\ fake' = FALSE
  /\ UNCHANGED <<timer_period, timer_due, set_fire_time>>

TimerMessage ==
  /\ timer_period > 0
  /\ timer_due' = now + timer_period
  /\ UNCHANGED <<timer_period, fake, set_fire_time>>

TimerTypeOK ==
  /\ now \in 1..MaxTime
  /\ set_fire_time \in 0..kNotSoon
  /\ timer_period \in 0..MaxTime
  /\ timer_due \in 0..2 * MaxTime
  /\ fake \in BOOLEAN
=============================================================================
