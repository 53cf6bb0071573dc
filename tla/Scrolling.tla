----------------------------- MODULE Scrolling ------------------------------
(***************************************************************************)
(* A scroll container in another one, its scroll bars, and the scroller    *)
(* that pans it and lets it go on by itself                                *)
(* (src/el/elements/scroll_container.cc, scroll_bar.cc, parts/scroller.cc, *)
(* and ScrollByRecursive, ScrollBySmooth and HandlePanningOnMove of        *)
(* element.cc).                                                            *)
(*                                                                         *)
(* Both axes are records [x, y].  A scroll that slows down is abstracted   *)
(* to one pixel for each unit of time, until its distance is reached: the  *)
(* speed stands for the distance it reaches.                               *)
(***************************************************************************)
EXTENDS Integers, Sequences
LOCAL S == INSTANCE SequencesExt

CONSTANTS Chain,      \* the containers, the inner one first
          Size,       \* [x, y]: the width and height of each
          Modes,      \* the scroll modes of the inner one
          Contents,   \* sizes of its content
          Bar,        \* the thickness of the bars
          Requests,   \* [x, y]: what the program and keys scroll it by
          Parts,      \* [at, size]: elements in its content
          Positions,  \* positions of the pointer, along y
          Axes,       \* the axes every request scrolls along
          Threshold,  \* GetPanThreshold
          MaxGoal     \* bound: how far a scroll may aim beyond where it is

(* Assumed of the constants where they get their values *)
ScrollingAssumption ==
  /\ Size \in [S!ToSet(Chain) -> [x : Nat, y : Nat]]
  /\ Modes \subseteq {"xy", "y", "y-auto", "auto", "off"}
  /\ Contents \subseteq [x : Nat, y : Nat] /\ Bar \in Nat
  /\ Requests \subseteq [x : Int, y : Int]
  /\ Parts \subseteq [at : [x : Nat, y : Nat], size : [x : Nat, y : Nat]] /\ Positions \subseteq Int
  /\ Axes \subseteq {"x", "y"} /\ Threshold \in Nat \ {0} /\ MaxGoal \in Nat

VARIABLES c,          \* of each container [content, mode, invalid: its layout, on: the bars that
                      \* show, visible: the size of its root, max: the limits, pos: the values]
          scroller,   \* of the inner one: [started, start, dist, elapsed, pending: the message,
                      \*  expected: the translation it left]
          goal,       \* ghost [x, y, sure]: where the scrolls that were asked for add up to, and
                      \*  whether nothing else has moved the content meanwhile
          pan         \* the pointer: [at: its position, what is captured, down: pointer_down_element_y,
                      \*  panning; ghosts: from: where it went down, zero: the scroll it began at,
                      \*  clean: whether only the pan has scrolled since, and hit no limit]

vars == <<c, scroller, goal, pan>>

Inner == Chain[1]
None == [x |-> 0, y |-> 0]
Both(Op(_)) == [x |-> Op("x"), y |-> Op("y")]
Least(a, b) == IF a < b THEN a ELSE b
Most(a, b) == IF a < b THEN b ELSE a
Clamp(v, low, high) == Most(low, Least(v, high))
Abs(v) == IF v < 0 THEN -v ELSE v

-----------------------------------------------------------------------------
(* Scroll bars *)

(* ScrollBarVisibility::Solve: one bar takes room that may call for the other. *)
Solve(mode, content, size) ==
  CASE mode = "xy" -> [x |-> TRUE, y |-> TRUE]
    [] mode = "y" -> [x |-> FALSE, y |-> TRUE]
    [] mode = "y-auto" -> [x |-> FALSE, y |-> content.y > size.y]
    [] mode = "auto" -> LET x == content.x > size.x
                            y == content.y > size.y - (IF x THEN Bar ELSE 0)
                        IN  [x |-> x \/ (y /\ content.x > size.x - Bar), y |-> y]
    [] mode = "off" -> [x |-> FALSE, y |-> FALSE]

padding_rect(on, size) ==
  [x |-> size.x - (IF on.y THEN Bar ELSE 0), y |-> size.y - (IF on.x THEN Bar ELSE 0)]

(* ValidateLayout sets the limits of the bars, and what is beyond them is
   clamped; the content adapts to what is visible. *)
ValidateLayout(k, size) ==
  LET on == Solve(k.mode, k.content, size)
      visible == padding_rect(on, size)
      width == IF on.x THEN Most(k.content.x, visible.x) ELSE visible.x
      height == Most(k.content.y, visible.y)
      max == [x |-> Most(0, width - visible.x), y |-> Most(0, height - visible.y)]
  IN  [k EXCEPT !.invalid = FALSE, !.on = on, !.visible = visible, !.max = max,
                !.pos = Both(LAMBDA a : Clamp(k.pos[a], 0, max[a]))]

ScrollTo(k, to) == [k EXCEPT !.pos = Both(LAMBDA a : Clamp(to[a], 0, k.max[a]))]
Plus(p, d) == [x |-> p.x + d.x, y |-> p.y + d.y]
Minus(p, d) == [x |-> p.x - d.x, y |-> p.y - d.y]

(* ScrollByRecursive: what one container leaves of d goes to the next. *)
ScrollByRecursive(cs, d) ==
  LET by[i \in 0 .. Len(Chain)] ==
        IF i = 0 THEN [cs |-> cs, d |-> d]
        ELSE LET last == by[i - 1]
                 k == last.cs[Chain[i]]
                 scrolled == ScrollTo(k, Plus(k.pos, last.d))
             IN  [cs |-> [last.cs EXCEPT ![Chain[i]] = scrolled],
                  d |-> Minus(last.d, Minus(scrolled.pos, k.pos))]
  IN  by[Len(Chain)]

(* As little as brings e into view, or its start if it is larger than that *)
ScrollIntoView(k, e) ==
  ScrollTo(k, Both(LAMBDA a : IF e.at[a] <= k.pos[a] THEN e.at[a]
                              ELSE Most(k.pos[a], e.at[a] + e.size[a] - k.visible[a])))

(* GetTargetScrollXY; the translation of what is scrolled is its negative. *)
Total(cs) == LET sum[i \in 0 .. Len(Chain)] == IF i = 0 THEN None ELSE Plus(sum[i - 1], cs[Chain[i]].pos)
             IN  sum[Len(Chain)]

-----------------------------------------------------------------------------
(* The scroller *)

Reset == [started |-> FALSE, start |-> None, dist |-> None, elapsed |-> 0, pending |-> FALSE, expected |-> None]

(* GetDistanceAtTimeInt *)
DistanceAt(d, t) == IF Abs(d) <= t THEN d ELSE IF d < 0 THEN -t ELSE t
StopIfAlmostStill(s) == s.elapsed > Abs(s.dist.x) /\ s.elapsed > Abs(s.dist.y)

(* Scroll: what is expected is only noted when no message is pending. *)
Scroll(s, d) ==
  [s EXCEPT !.start = Total(c), !.dist = d, !.elapsed = 0, !.pending = TRUE,
            !.expected = IF s.pending THEN s.expected ELSE Total(c)]

(* What is left of an ongoing scroll is added, if it has the same direction. *)
Remaining(s, d) ==
  Both(LAMBDA a : IF (d[a] < 0) = (s.dist[a] < 0) THEN s.start[a] + s.dist[a] - Total(c)[a] + d[a] ELSE d[a])

(* How fast the scroll after a pan becomes is left out. *)
Start(s) == [s EXCEPT !.started = TRUE]

OnScrollBy(s, d, accumulative) ==
  Scroll(Start(s), IF accumulative /\ s.pending THEN Remaining(s, d) ELSE d)

(* What was asked for: a scroll that is added to one under way leaves an axis it
   does not name alone, and in the other direction it starts where the content
   is. *)
Asked(d) ==
  Both(LAMBDA a : IF scroller.pending /\ (d[a] = 0 \/ (d[a] < 0) = (goal[a] - Total(c)[a] < 0))
                  THEN goal[a] + d[a] ELSE Total(c)[a] + d[a])
Aims(p) == goal' = [x |-> p.x, y |-> p.y, sure |-> goal.sure \/ ~scroller.pending]

Near(p) == Abs(p.x - Total(c).x) <= MaxGoal /\ Abs(p.y - Total(c).y) <= MaxGoal
CanScroll(d) == \E i \in DOMAIN Chain : \E a \in {"x", "y"} : d[a] # 0 /\ c[Chain[i]].max[a] > 0
GetReadyScroller(d) == scroller.started \/ CanScroll(d)

ScrollBySmooth(d) ==
  /\ d # None /\ GetReadyScroller(d) /\ Near(Asked(d))
  /\ scroller' = OnScrollBy(scroller, d, TRUE) /\ Aims(Asked(d))
  /\ UNCHANGED <<c, pan>>

ScrollToSmooth(to) ==
  LET d == Minus(to, c[Inner].pos)
  IN  /\ GetReadyScroller(d)
      /\ scroller' = OnScrollBy(scroller, d, FALSE) /\ Aims(Plus(Total(c), d))
      /\ UNCHANGED <<c, pan>>

(* OnMessageReceived: time has passed, and the content is moved to where it
   should be by now, unless something else has moved it. *)
OnMessageReceived(time) ==
  LET s == [scroller EXCEPT !.elapsed = @ + time]
      to == Both(LAMBDA a : s.start[a] + DistanceAt(s.dist[a], s.elapsed))
      d == Minus(to, Total(c))
      moved == ScrollByRecursive(c, d).cs
      stuck == \A a \in {"x", "y"} : d[a] # 0 /\ Total(moved)[a] = Total(c)[a]
  IN  /\ scroller.pending
      /\ IF Total(c) # s.expected THEN scroller' = Reset /\ UNCHANGED <<c, pan>>
         ELSE /\ c' = moved
              /\ scroller' = IF stuck \/ StopIfAlmostStill(s) THEN Reset
                             ELSE [s EXCEPT !.expected = Total(moved)]
              /\ pan' = [pan EXCEPT !.clean = FALSE]
      /\ UNCHANGED goal

-----------------------------------------------------------------------------
(* Layout, and what scrolls at once: the wheel, the bars and the program *)

Changes(cs) ==
  /\ c' = cs /\ pan' = [pan EXCEPT !.clean = FALSE]
  /\ goal' = [goal EXCEPT !.sure = @ /\ Total(cs) = Total(c)]
  /\ UNCHANGED scroller

InvalidateLayout(content) == Changes([c EXCEPT ![Inner].content = content, ![Inner].invalid = TRUE])
SetScrollMode(mode) ==
  c[Inner].mode # mode /\ Changes([c EXCEPT ![Inner].mode = mode, ![Inner].invalid = TRUE])
OnProcess == c[Inner].invalid /\ Changes([c EXCEPT ![Inner] = ValidateLayout(@, Size[Inner])])
ScrollAtOnce(k, d) == Changes([c EXCEPT ![k] = ScrollTo(@, Plus(@.pos, d))])
(* The inner container is at the start of the outer one's content; that it has scrolled is not taken
   into account there. *)
ScrollIntoViewRecursive(e) == Changes([k \in DOMAIN c |-> ScrollIntoView(c[k], e)])

-----------------------------------------------------------------------------
(* Panning, along y: what is captured is the inner container, or a child of its
   content that moves along *)

Outside(cs) == Total(cs).y - cs[Inner].pos.y
Coordinate(cs, captured, at) == at + (IF captured = "child" THEN Total(cs).y ELSE Outside(cs))

InvokePointerDown(captured) ==
  /\ pan.captured = "none"
  /\ pan' = [pan EXCEPT !.captured = captured, !.down = Coordinate(c, captured, pan.at), !.panning = FALSE,
                        !.from = pan.at, !.zero = Total(c).y, !.clean = TRUE]
  /\ UNCHANGED <<c, scroller, goal>>

(* Mutant: the pointer's coordinate is not compensated for what was scrolled *)
CompensatedNot(before, after, start) == start

(* What the coordinate the pointer went down at changes by *)
Compensated(before, after, start) ==
  (IF pan.captured = "child" THEN 0 ELSE before[Inner].pos.y - after[Inner].pos.y) + start

OnPan(d) ==
  LET by == ScrollByRecursive(c, d)
  IN  [cs |-> by.cs, left |-> by.d, pans |-> by.d # d, scroller |-> Start(scroller)]

(* InvokePointerMove and HandlePanningOnMove *)
InvokePointerMove(at) ==
  LET dy == pan.down - Coordinate(c, pan.captured, at)
      start == IF pan.panning \/ Abs(dy) < Threshold THEN 0
               ELSE IF dy < 0 THEN Threshold - 1 ELSE 1 - Threshold
      by == OnPan([x |-> 0, y |-> dy + start])
  IN  /\ at # pan.at
      /\ IF pan.captured = "none" \/ ~(pan.panning \/ Abs(dy) >= Threshold)
            \/ ~GetReadyScroller([x |-> 0, y |-> dy])
         THEN pan' = [pan EXCEPT !.at = at] /\ UNCHANGED <<c, scroller>>
         ELSE /\ c' = by.cs /\ scroller' = by.scroller
              /\ pan' = [pan EXCEPT !.at = at, !.panning = @ \/ by.pans, !.clean = @ /\ by.left.y = 0,
                                    !.down = IF by.pans THEN @ + Compensated(c, by.cs, start) ELSE @]
      /\ goal' = [goal EXCEPT !.sure = @ /\ Total(c') = Total(c)]

(* OnPanReleased: fast pans go on in their direction; slow ones stop, at once
   or when the message comes.  Without a pan the scroller stops. *)
InvokePointerUp(d) ==
  /\ pan.captured # "none"
  /\ \/ /\ scroller.started /\ pan.panning /\ Near(Plus(Total(c), d))
        /\ scroller' = Scroll(scroller, d) /\ Aims(Plus(Total(c), d))
     \/ d = None /\ scroller' = (IF scroller.started THEN Reset ELSE scroller) /\ UNCHANGED goal
  /\ pan' = [pan EXCEPT !.captured = "none", !.panning = FALSE, !.clean = FALSE]
  /\ UNCHANGED c

-----------------------------------------------------------------------------
Init ==
  /\ \E content \in Contents, mode \in Modes :
       c = [k \in S!ToSet(Chain) |->
             ValidateLayout([content |-> content, mode |-> mode, invalid |-> FALSE, on |-> None, visible |-> None,
                             max |-> None, pos |-> None], Size[k])]
  /\ scroller = Reset /\ goal = [x |-> 0, y |-> 0, sure |-> FALSE]
  /\ pan = [at |-> 0, captured |-> "none", down |-> 0, panning |-> FALSE, from |-> 0, zero |-> 0, clean |-> FALSE]

Next ==
  \/ \E d \in Requests : ScrollBySmooth(d) \/ InvokePointerUp(d)
  \/ \E to \in {None, c[Inner].max} : ScrollToSmooth(to)
  \/ \E time \in 1 .. 2 : OnMessageReceived(time)
  \/ \E content \in Contents : InvalidateLayout(content)
  \/ \E mode \in Modes : SetScrollMode(mode)
  \/ OnProcess
  \/ \E k \in S!ToSet(Chain), d \in Requests : ScrollAtOnce(k, d)
  \/ \E e \in Parts : ScrollIntoViewRecursive(e)
  \/ \E captured \in {"child", "container"} : InvokePointerDown(captured)
  \/ \E at \in Positions : InvokePointerMove(at)
  \/ InvokePointerUp(None)

Spec == Init /\ [][Next]_vars

-----------------------------------------------------------------------------
(* scroller.h says of OnScrollBy: "If accumulative is true, the given delta
   will be added to any on going scroll." However far the scroll has come, and
   through however many containers, it aims at the sum, along the axes it is
   told of (scroller.cc OnScrollBy, Scroll, OnMessageReceived). *)
ScrollsAddUp ==
  scroller.pending /\ goal.sure =>
    \A a \in Axes : scroller.start[a] + scroller.dist[a] = goal[a]

(* While the pointer pans, and hits no limit, the content stays under it, but
   for the threshold: the coordinate it went down at is kept right though it is
   relative to an element that may be scrolled by it or with it (element.cc
   HandlePanningOnMove). *)
PanFollowsPointer ==
  pan.panning /\ pan.clean =>
    Abs(pan.from - pan.at - (Total(c).y - pan.zero)) <= Threshold - 1

(* A bar shows exactly when the content does not fit beside the other bar, and
   what does not fit can be scrolled (scroll_container.cc Solve, ValidateLayout). *)
BarsAgree ==
  LET k == c[Inner]
  IN  ~k.invalid /\ k.mode = "auto" =>
        \A a \in {"x", "y"} : /\ k.on[a] <=> k.content[a] > k.visible[a]
                              /\ k.max[a] = Most(0, k.content[a] - k.visible[a])
=============================================================================
