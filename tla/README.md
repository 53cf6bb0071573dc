# Elemental Forms: a verification development

TLA+ models of Elemental Forms, a retained-mode C++ UI toolkit on OpenGL, with the
TLC configurations that check them and proofs that TLAPS checks. Source paths below
are relative to the root of the repository. `PROJECT.json` holds the same
information for tools: components, runs, mutants, the source lines of every
definition, hazards, findings and theorems.

    tlc -config MCForms.cfg MCForms          # one run
    tlapm MessageHandlerProofs.tla           # the proofs of one module

The toolkit runs on one thread. There are no locks, and nothing is persisted;
what is concurrent are *callbacks*. An event, a message, an animation step, a
listener call or a destructor runs application code in the middle of a loop of
the toolkit, and that code may add, remove and delete the very objects the loop
is walking. Only the platform timer and the clock go on by themselves. So the
models take as their steps the pieces between two points at which foreign code
can run. What is computed in one go (layout, parsing, painting) is modelled by
operators, and the hard part is what is *cached* of it.

## 1. Inventory

`src/el/` is left out of the paths in this table.

| Component | State | Operations | Modules |
|---|---|---|---|
| Intrusive lists, safe iterators (`util/intrusive_list`) | links of entries, heads of lists, chains of iterators | add at either end or beside an entry, remove, clear, destroy; iterate, copy, reset, step | `IntrusiveList`, `IterableList` |
| Message handler (`message_handler`) | two global queues, a list per handler | post (delayed, at a time, now), delete, destroy the handler, deliver | `MessageHandler` |
| Platform timer (`testbed/platform/port_glfw.cc`, `glfw_extra_win.cc`) | the timer, the time last asked for, the fake timer message | reschedule, kill, callback | `PlatformTimer` |
| Animation manager (`animation_manager`, `animation`) | running animations, block count | start, abort, block, update | `AnimationManager` |
| Focus traversal (`element.cc`) | the tree, the focused element | `MoveFocus`, `set_focus_recursive` | `FocusTraversal` |
| Forms and keyboard focus (`elements/form`, `modal_form`) | stacking order, active form, remembered and focused field | show, click, close, remove, Tab, focus, disable, delete a field | `Forms` |
| Element tree, event dispatch, capture (`element.cc`, `event.h`, `elements/button.cc`) | the tree; hovered, captured and focused element; long-click and auto-repeat timers | pointer, wheel and key events; what handlers do in them | `ElementEvents` |
| Listeners, weak pointers, event handlers (`element_listener`, `event_handler`) | local and global lists, the functions of a handler | every notification, as the calls it makes; an event that is asked about | `ElementListeners` |
| Pop-ups, menus, message and modal forms, dimmer, tooltips, element animations | windows, their targets, what fades | open, click, escape, lose the target, fade out | `Popups` |
| Bitmap fragments, renderer batch, glyph cache (`graphics/`, `util/space_allocator`, `text/font_manager`) | free spaces in rows in maps; the pending quads; glyphs in order of use | create, free, lose the context, validate, draw, drop | `BitmapFragments` |
| Image manager (`graphics/image_manager`) | images, counted reps, the table by hash, the fragments | get, load, copy, empty, destroy the manager | `Images` |
| Text view, caret, selection, undo stack (`text/`) | blocks, fragments, lines, events | keys, mouse, clipboard, resizing, undo and redo | `TextEdit` |
| Text box (`elements/text_box`) | blink and selection-scroll messages, scroll bar, size | focus, pointer, wheel, kind, text | `TextBoxes` |
| UTF-8 (`text/utf8`) | none | encode, decode, step, count | `Utf8` |
| Fonts (`text/font_face`, `font_effect`, `font_manager`, `font_renderer_tbbf`) | files, faces, cached glyphs | add, create, draw, measure | `Fonts` |
| List boxes, drop-down button (`list_item`, `elements/list_box`, `drop_down_button`) | items, elements shown, selection, filter, sort | every change of the source, selection, opening | `ListBoxes` |
| Element values, radio buttons (`element_value`, `parts/base_radio_check_box`) | the value, its connections, a syncing flag | set from either side, with callbacks | `ElementValues` |
| Values (`value`) | type, flag, what is held | set, copy, take over, parse, read | `Values` |
| Scroller, scroll container (`parts/scroller`, `scroll_container`) | positions, one scroll under way, a pan | scroll, pan, fling, resize, scroll into view | `Scrolling` |
| Tab, split and toggle containers, spin box, toggling buttons | pages, panes, header | add, remove, select, drag, set | `Panels` |
| Movers, resizers, sliders, scroll bars, form decoration | places and sizes, what is dragged | drag, while everything may change | `Handles` |
| Layout box (`elements/layout_box`, the layout of `element.cc`) | cached sizes, rectangles, overflow | every setting, process, resize | `Layout` |
| Skin (`skin`) | skins, states, overrides, resolutions | load, patch, change state, update | `Skins` |
| Painting and hit testing (`element.cc`, `skin.cc`) | the tree, the picture on the screen | changes, repaint, hit test | `Painting` |
| Regions, nine patches, placing of pop-ups (`util/rect_region`, `rect`, `skin.cc`, `popup_form.cc`) | a region | include, exclude | `Geometry` |
| Parser, node tree (`parsing/text_parser`, `parse_node`, `parse_node_tree`) | the document | lines, includes, conditions, references | `Parsing` |
| Inflation (`parsing/element_factory`, `element.cc`, `elements/*`) | elements being made | read one resource after the other | `Inflation` |

How they meet: every manager keeps its objects in intrusive lists and walks them
with safe iterators. The platform timer calls `ProcessMessages`, which calls
handlers, which post, and posting reschedules the timer. A frame processes states
and layout, calls `AnimationManager::Update`, whose animations delete the elements
that faded out, and paints. An element that is deleted moves the focus on; a form
that is removed activates the form below it, and that gives the focus to one of
its fields. Pop-ups listen to the elements they hang on. Text asks the glyph cache
for fragments, images and the skin have managers of their own; what they draw
waits in the one batch of the renderer.

What is hard is the list of hazards in `PROJECT.json`, each at its line with the
properties about it. In short: objects deleted or moved by a callback in a loop
over them; what was read before a callback and is used after it; timers and
messages that come late, twice or not at all; caches of sizes, layouts, skins,
pictures, glyphs and images that a change should have invalidated; and order, of
what a resource says, of what listeners are told, and of who is asked.

### Not modelled

| Component | Why |
|---|---|
| Progress spinner, passive elements | one property set in one step |
| Image loader, files, initialisation | plain input and output, or done once |
| Dimension converter, strings, ids, colours | plain data, covered by the repository's tests |
| Debug, metrics, object types, small headers | no state |
| Designer form, tests, testbed, vendored code, resources, build files | a stub; not the toolkit's own logic; the testbed's message loop is in `PlatformTimer` |

## 2. The modules and the code

In each module the variables are the fields of the classes, or a record of them
with the fields' names, and each action is one function that the application, the
user, the platform or the frame calls, with everything it calls in turn up to the
next callback. Definitions keep the source's names. Those whose comment begins
with "Mutant" belong to no specification: each is a definition of the module with
a plausible mistake, and the property it is listed with in `PROJECT.json` fails
when it takes its place.

**`IntrusiveList`** has the pointers of the three structs as functions, and one
action for each function of the class. `IterableList` says what the class
promises, in sequences; `Abstract`, at the end of `IntrusiveList`, maps the one to
the other by walking the links.

**`PlatformTimer`**, **`MessageHandler`**: `pc` says where `timer_callback` and
`ProcessMessages` are; in `receive_*` a handler is running and the actions of the
application are enabled, as they are when the thread is idle. Lists are sequences
(`Lists` has what removing does to them and to a safe iterator).

**`AnimationManager`**: `stack` holds the callbacks under way. `StartAnimation`
aborts first when the animation is running, which calls back before the rest of it
runs. With `Restarts` a callback of `Update` may also start the animation that is
being updated, or a new one in the memory of that one when it has deleted it. Time is kept as ages; `TimeRange` is the width of the clock.

**`FocusTraversal`**, **`Forms`**: the walk takes one action per step of the loop,
over trees that are parent functions; the forms take one per call, what
`Activate`, `EnsureFocus`, `set_focus`, `OnAdded` and `OnRemove` do being
operators on the record `ui`.

**`ElementEvents`**: the calls of a dispatch as a stack of what is still to be
done; at every call the program may delete, remove, disable, hide, raise or focus
an element, or release the capture, none of which any header forbids. Where a call of
the library uses what is gone by then, or its assertion fails, `crashed` gets its name
and the run stops there; the properties say which these are. **`ElementListeners`** has the lists
themselves, and every notification as a walk with a safe iterator.

**`Popups`**: windows as objects whose memory is used again, in one order with their
dimmers and the form of the application (`Main`). What hangs on what is
closed by the focus, the pointer, the target's death or its deletion; closing
starts a fade-out, whose end removes the window and deletes it. Removing one that can be
active activates the form below, which moves the focus (`OnRemove`, `Activate`,
`EnsureFocus`), and a move of the focus closes the pop-ups it does not lead to, the
tooltip among them. The tooltip manager hears of events only: `m_tooltip`, a plain
pointer, is kept when that happens outside of one, and `crashed` is its next use.

**`BitmapFragments`** has the rows and spaces of a map as pure operators, as those
classes are data structures, and the calls on the managers, the batch and the glyph
cache as actions. Pixels are the sets of images that are whole in the buffer and in
the texture. `wrong` collects quads drawn from a
texture that does not hold their image. One turn of the loop in
`FontGlyphCache::CreateFragment` is one action, so that one that does not end is
seen. **`Images`** has the reps at addresses that are used again; each operation
is made of `Hold` and `Drop` of a reference.

**`TextEdit`**, **`TextBoxes`**, **`Utf8`**, **`Fonts`**: text from bytes to the
box. Characters are of the kinds that layout tells apart. The first has the
contents, the second the box around a number of lines.

**`ListBoxes`**, **`ElementValues`**, **`Values`**, **`Scrolling`**, **`Panels`**,
**`Handles`**, **`Inflation`**, **`Layout`**, **`Skins`**, **`Painting`**,
**`Geometry`**, **`Parsing`**: one each for the components above. `Parsing` takes the
lines of a resource as the words they are made of; **`Words`** has those words, byte
by byte, with their quotes and escapes. Where a result is
cached (sizes, skins, the picture, the region) the property compares it with one
computed from nothing. `TextBoxes` measures as the code does, by laying the text out
in another width and back, with what that does to the bar and the scroll position.
`Painting` looks for skins as `PaintSkin` does: conditions, an exact match first,
and for the mark of the focus all three lists of the element's own skin.

Auxiliary variables and fields record where the code is known to leave something as it
was: `missed` (`ElementValues`), `untold` (`Layout`), `seen` (`Skins`), `late`
(`ElementEvents`), `moved` (`Popups`), `torn`, `turned`, `stray`, `hurried`, `untold` and
`unasked` (`TextBoxes`). No guard reads them; the safety properties except
exactly what they name, and the finding of each is the property without the exception.

What each leaves out is in the `note` of its component in `PROJECT.json`, and in
the comment at the head of the module.

### The drivers

`MCForms`, `MCAnimationManager`, `MCBitmapFragments`,
`MCElementEvents`, `MCPopups` and `MCTextEdit` give the constants their values;
`IntrusiveList` and `MessageHandler` get them from their `.cfg` alone.
`MCControls` and `MCAlgorithms` extend or instantiate many small modules that have nothing to
do with each other: `part`, chosen in the initial state, says which of them moves,
and the others stay as they were, so that the states add up and do not multiply.
Each property of these two is the conjunction of what its modules promise.

## 3. The runs

| Run | What it asks |
|---|---|
| `lists` | pointers consistent, iterators on their lists, no skip, `IterableList` implemented |
| `messages` | lists agree, order, complete passes, a wake-up scheduled; every message delivered or deleted in the end |
| `animations` | no dangling animation, none completed early or without its last update, none that was due left by an update |
| `animation_liveness` | every animation that is started is stopped in the end |
| `forms` | the top form is active, the focus follows, survives deletion and disabling; the traversal stays inside, asks everything once, finds the nearest and ends |
| `fragments` | fragments apart, space tiled, right pixels, a valid batch, a place for every glyph |
| `events` | no call on what is gone, and timers end with the capture, but in the places the findings name; clicks go where the pointer went down; the focus is told to the one that has it |
| `popups` | open only while the target is there; no dimmer, animation or tooltip left behind, but the tooltip of the finding |
| `text` | layout as from nothing, what is selected is painted so, undo and redo replay a text of one line |
| `text_undo` | finding: in a text of several lines undo does not |
| `controls` | lists, values, scrolling, panels, dragging, inflation, text box, listeners, images |
| `algorithms` | layout, parsing, words, skins, regions, painting, UTF-8, fonts |

Bounds, and why they are enough:

* `lists`: three entries (a middle one has neighbours on both sides), two lists
  (entries and iterators change lists), two iterators (one hides behind the other
  in the chain). The proofs lift this to any number.
* `messages`: three messages and two handlers: one being delivered, one ahead,
  one behind, of the same handler or of the other. `MaxTime` 3 and delays 1 and
  2: due, due later, and last; the clock stops at the bound, which stands for all
  later times. `PassPosts` bounds what the handlers of one pass post: without it
  a pass need not end, as each normal message posted is delivered in the same
  pass. (The testbed does this with its busy box: with two such windows
  `ProcessMessages` never returns.) The safety is proved for any values.
* `animations`: three animations, one to call back, one ahead and one behind; two
  calls by callbacks before the thread is idle; an update that lasts one unit
  longer than a duration of one. Proved for any values.
* `forms`: three forms, since with one closing and one active there is one to
  activate; one cannot be activated; one has two fields. All trees of five
  elements for the traversal.
* `fragments`: four glyphs, two of which fit into a row side by side, the others
  forcing rows to be cut, merged, and glyphs to be dropped, by size and by age;
  one image that is freed and loaded again; one skin bitmap with a border; two
  quads in a batch.
* `events`: a root with a check box, and above it a scrollable panel with a button
  that repeats; the pointer over all of them or none; one call by the program
  within each dispatch, any number between them.
* `popups`: a menu, its sub menu, a message form and a tooltip, which is one of
  each kind that can hang on another; and the form of the program, which is
  activated when the last of them goes and moves the focus.
* `text`: two modes, words, spaces, tabs and breaks, two widths, four operations.
* `controls`: five steps where a part would go on without end (`MaxSteps`; three for
  values, seven for the text box, whose messages take steps of their own). The
  listeners have two elements, one listener, one weak pointer and a handler with
  one function, and two notifications nested; the images three variables, three
  addresses and three files two of which have one hash: these are proved for any.
* `algorithms`: two changes of a layout or a picture, four of the states of skins,
  three of a region, texts of four lines, lines of two values of two pieces, four
  bytes or three characters, five calls on fonts. A cache is wrong after one change that does not invalidate it;
  the second change makes it matter.

Deadlock is checked except in `text`, `text_undo`, `controls` and `algorithms`,
where the bound on the steps, or the end of an algorithm, stops the part.

**Fairness.** `messages`: the thread goes on through a callback and handlers
return (weak fairness of the loop); the message pump takes out a timer message
that is in its queue and that of a timer that elapsed; time passes. Nothing is
assumed of the application, which may post and delete for ever.
`animation_liveness`: callbacks return, updates and the clock recur. The testbed
invalidates its root element after every frame while animations run
(`testbed/testbed_application.cc` 206), so that frames come again and again;
strong fairness, because application calls come between. That the traversal ends
needs no fairness: each of its steps asks a new element.

## 4. Findings

`text_undo` is a run that violates `UndosReplay`: `Caret::Place` goes back to the
first block whatever the offset, so that what is typed after a break is recorded
at a place it is not. The others are in `PROJECT.json` with the line they quote;
each is a property of a module that a run would violate with the constant below,
which the passing runs exclude:

| Property | What to change | Where the code differs |
|---|---|---|
| `StillScheduled` (`MessageHandler`) | `Delays = {0, 1}` | a message posted with delay 0 by its handler leaves the queue without a timer |
| `CompletesAfterLast` (`AnimationManager`) | `Restarts = TRUE` | an animation that restarts itself in its last update is completed at once |
| `TraversalEnds` (`FocusTraversal`) | `Unfocused = TRUE`, `FairWalk` | without a focused element the walk may go round for ever |
| `TopFormActive` (`Forms`) | `Modal <- MCModal`, `CanActivate <- MCAllActivate` | after a modal form is removed no form is active |
| `MapsInUse` (`BitmapFragments`) | `Dedicated <- MCTile`, `Size <- MCTileSize` | an empty map is kept when the border does not fit |
| `CallersLookAgain`, `RepeatsWhileCaptured` (`ElementEvents`) | check them | a long click and a repeated click go on after their handler deleted the button or ended the capture; the next click is posted all the same |
| `TooltipAlive` (`Popups`) | check it | a tooltip that the focus closed without an event is used after it was deleted |
| `SourceOutlivesMenu` (`Popups`) | check it | a deleted drop-down button leaves its fading menu on a deleted source |
| `InSync` (`ElementValues`) | check it | what a handler sets while an element is set from the value reaches no other element |
| `ListenersToldLast`, `LeaderOn` (`ElementValues`) | check them | listeners are told before the elements are set; a group is updated by an element that is off |
| `SizeTold` (`Layout`) | check it | `set_layout_size` of a box in a box does not tell the outer one |
| `MinimumKept` (`Layout`) | check it | sizes across the axis go below the minimum |
| `AllAnnounced` (`Skins`) | check it | panning, the automatic focus state, an alignment and a new skin file change skins that nobody looks up again |
| `ExcludesAll` (`Geometry`) | check it | excluding while coalescing leaves parts in |
| `HandleFollowsPointer` (`Handles`) | without its exception | limits that clamp the value of a dragged scroll bar make it jump |
| `FrameClean`, `FrameFresh` (`Painting`) | without the exception | the mark of the focus is painted for elements that are hidden |
| `AtMostOneOn` (`Inflation`) | check it | two radio buttons on in one resource stay on |
| `BlocksOwned`, `ValuesKept` (`Values`) | `TakesObjects <- TRUE` | taking over an object loses it |
| `SelectedToPointer` (`TextBoxes`) | `Padding <- 3` | selection while scrolling is off by the padding |
| `ViewAtBar`, `KindTakesEffect`, `AllHeard`, `MeasuringKeepsScroll` (`TextBoxes`) | check them | a wrapped single line has a bar the view ignores; another kind is not laid out; an empty text is not told; measuring scrolls |
| `LineReadBack` (`Words`) | check it for pieces that are `short` | `\x` reads four digits where its comment has two |
| `WalksAgree`, `ReadsWhatIsWritten` (`Utf8`) | `Chars` with 2048 or 65535; `Bytes` with 244 or 248 | U+0800 and U+FFFF are stepped over byte by byte; invalid leads are read |
| `PlacesKept`, `FontsAgree` (`Fonts`) | check it; sizes 9 and 40 | a blurred glyph moves each time it is rendered again; faces share numbers |
| `ImagesAgree` (`Images`) | `Dst` with `"photo" :> "icon"` | files that share a fragment take it from each other; `Image::empty` says the opposite |

Observations the models have built in, as the code has them, and that no property
refutes:

* *Focus, events.* A dying form keeps the focus and receives keys until it is
  removed. `RemoveChild` may move the focus into the subtree that goes, and calls
  through a null parent for children of the root (`element.cc` 524). The statics of
  a key press are kept while elements come and go (1719).
* *Listeners.* A handler destroyed while its element is in its destructor stays in
  the list; what is added to an element there dangles, as `element.h` 617 warns; a
  function of a handler may not delete it.
* *Animations.* One started with `kImmediately` by a callback of `Update` has a
  start time after `time_now`, and the unsigned difference completes it at once.
* *Pop-ups.* A click on the button while its menu fades out does not reopen it; a
  target higher than half the root gives a negative height.
* *Lists, values.* `set_sort` tells no one; a replaced element keeps its state; the
  value survives the removal of its item. `Value` assigned to itself reads what it
  freed.
* *Scrolling, dragging.* `ScrollIntoViewRecursive` does not count what the inner
  container scrolled; two axes end together only when both do; slider limits do not
  convert the grab; a fixed second pane jumps when dragged; a resize does not clamp
  the divider.
* *Layout, painting.* `layout_overflow` is set and read by nothing; changes of the
  distribution are not told to the parents; content offset, padding and opacity of
  skins matter to painting and not to hits; buttons inflate their children in
  reverse.
* *Parsing, skins.* A reference followed by a comma without a blank (`@a,b: 1`) is
  taken for a child. A failed `@include` as the first child drops the rest of the
  file; includes with `@` have no cycle check; the rest of a compact line after a
  text of several lines is dropped. Loops of clones do
  not end.
* *Text.* A box that cannot be focused blinks for ever after a press; two presses
  within 33 ms leave two chains of scroll messages; `Cut` with nothing selected
  erases the next character.

## 5. Proofs

Eight modules hold proofs: `ListLemmas` of sequences, and seven of components. Each
of these proves inductive invariants of one or two specifications, for every value of
the constants that its `ASSUME` admits; TLC evaluates these assumptions in the runs.

**Lists** (`IntrusiveListProofs`; assumed: nullptr is no object).
`TypeCorrect`; `ListSafe`, which is `PointersAgree`; `SafeIteration`, which is
`NoSkipNoRevisit`. The invariant is the type, `EntriesLinked`, `IteratorsLinked` and
`IteratorsOnList`; none is inductive without the others. `Remove` moves only the
iterators it finds in the chain, so that `IteratorsOnList` needs the chain complete;
both directions of the links need each other, because a removal writes the one
through the other. `Linked` describes one direction of a linked structure, of
entries or of iterators, so that each insertion and removal is proved once and
cited for both. Walks are least sets (`Reach`), so that what a change does to them
follows from instantiating a definition. For `SafeIteration` what an iterator has
ahead of it is such a walk, and every change is shown to alter it by the added and
removed entries only.

**Refinement** (the end of `IntrusiveListProofs`; assumed besides: finitely many
entries). `Refines`, which is `RefinesIterableList`: initial states map to the
initial state and every step to a step of `IterableList` or a stutter. The walk of
a list is now a sequence, unique if it exists (`WalkIs`); the invariant is
strengthened by `Walks`, that each list has one, which is carried along by lemmas
for what an insertion or a removal does to the sequence.

**`ListLemmas`**: what removing, inserting and stepping do to sequences.
`WithoutProperties` and `SteppedProperties` are about operators defined by
recursion over a sequence. The library's induction theorems cannot be used, as they
take an operator; but a least counterexample exists by well-foundedness of `<` on
the naturals (`LeastNatural`), and from it induction on the length of a sequence is
proved as a lemma about a *set* of numbers (`Induction`).

**Messages** (`MessageHandlerProofs`). `QueuesSafe` (`QueuesAgree`), `PassesComplete`
(`PassComplete`) and, assuming 0 is no delay, `WakeupsScheduled`
(`WakeupScheduled`). The finding `StillScheduled` is why delay 0 is excluded.
`WalkAgrees` says what the safe iterator has left: all messages still owed in this
pass are at or after it, though handlers delete and post before it and behind it.
Without it nothing says that the pass is complete; with it the lists have to agree,
since deleting steps the iterator through them. `TimerInv` adds that the time last
asked for is never later than the first message, and that the platform will wake
then, except while `timer_callback` decides, and then for what this pass leaves.

**Animations** (`AnimationManagerProofs`). `UpdatesComplete`, for every program, also
one that starts the animation being updated again, or another one in its memory;
`LastUpdates` (`CompletesAfterLast`), when no callback restarts its own animation;
`UpdatesSafe` (`UpdatesAgree`), when besides animations start with `kFirstUpdate`.
The two hypotheses are the finding on restarts and the hazard of the unsigned
difference. The invariant has the stack: every callback under way is about an
animation that is not deleted, at most one of them is an update's and it is at the
bottom, and what the update owes is ahead of its iterator or the one it is about to
complete. `AgeAgrees` keeps differences of times from wrapping around.

**Listeners** (the second part of `FormsListenersProofs`). `ListenersSafe` (`ListenersAgree`). The
invariant says of every call under way, at any depth of nesting, what it knows of
the list it walks: who has listened throughout has been told or is ahead of the
iterator, and where the iterator stands is in the list (`Knows`). Two parts are
peculiar to deletion. Who still listens to an element in its destructor is ahead of
the iterator of that very notification or is being told (`Deletes`), so that none is
left when it ends, which is the assertion at `element.cc` 97. And the notification
of a death that outlives the element has the deletion above it on the stack
(`Nested`).

**Images** (the second half of `GraphicsProofs`; assumed: finitely many images, and files asked for that
share no fragment). `ImagesSafe` (`ImagesAgree`). Every operation is a sequence of
`Hold` and `Drop`, each of which keeps the invariant, with `Almost` for the rep that
`GetImage` has made and nothing refers to yet. The part that TLC did not need and
the proof did is `RepsNamed`: the fragment of a rep is one of its own file's, so that
freeing it takes it from no one else; the finding shows a state without it.

**Forms** (the first part of `FormsListenersProofs`). `FormsSafe` (`FormsAgree`) and `FocusFollowed`
(`FocusFollows`, an action property), on the hypothesis that no form is modal: with
modal forms the first is false, which is the finding `TopFormActive`. The invariant is
about the record `ui`: a form remembers none but its own fields (`Remembers`), the
focus is in a form that is shown or in one that cannot be activated (`Held`), the
active form is the top one that can be, and no other is (`Alone`), and what was deleted
is neither focused nor remembered (`Existing`). `Alone` is carried through removals and
additions by lemmas about the top of what is left of a sequence (`TopOfWithout`,
`TopOfAppend`). What `set_focus`, `EnsureFocus` and `Activate` do is stated for any
`ui` (`Moved`, `Activated`), because `OnRemoved` composes them in states in which the
active form is not yet the top one.

**The traversal** (the end of `FormsListenersProofs`; assumed: at least one element, the
root, and with `~Unfocused` a focused element to start from, without which the walk
may go round for ever, the finding `TraversalEnds`). `TraversalSafe`
(`TraversalAgrees`, with its action property `AsksOnce`), for any tree. Elements are
numbered in document order and parents come first, so what is above an element is a
recursive function, shown to exist (`ClimbsExists`) and to be an order by least
counterexamples (`TreeInduction`). From that: what is inside an element is a range of
numbers (`InsideRange`), `GetNextDeep` is the next number and `GetPrevDeep` the
previous (`NextDeep`, `PrevDeep`; the latter climbs down to the last leaf of a
sibling, which `LastLeaf` finds to be the last number inside it). A walk is then steps
around a range, and the invariant counts them: `Moving`, that exactly the elements
fewer steps from the origin have been asked, and refused; `Searching`, the same from
the first element of a form. TLC checked it with six elements before it was proved.

**Bitmap fragments** (the first half of `GraphicsProofs`; assumed: sizes are positive,
a bordered skin fragment may be larger than its new map). `SpaceSafe`: fragments are
apart and the space of every map is tiled by rows and spaces; `MapsSafe`
(`MapsAgree`) adds that no map is kept in vain, with the hypothesis `NewMapsFit`,
without which it is the finding `MapsInUse`; `BatchesSafe` (`BatchesAgree`): what is
drawn is what was asked for; `GlyphsFit` (`GlyphFits`): a glyph gets its place. The
invariant is built as the data is. Of a row (`AllocatorOK`): used spaces are apart,
the free ones are in order *with a gap between them*, and have exactly the pixels
that no used one has. The gap is what `MergeSpaces` is for: without it a row that is
used for nothing would not have one free space of all its width, and a row or map
that is empty could not be told by its width. Of a map (`Maps`): rows lie one below
the other, no two unused ones side by side (`NoPairs`), and `allocated_pixels` is the
number of pixels taken, so that 0 means empty. Of all of them (`SpaceOK`): what is
taken is taken by exactly one fragment. Of the batch (`BatchOK`): each quad is of a
fragment that is there, where it was when the quad was added, and *known to be in the
batch*; this is why freeing a fragment, which flushes when it is in the batch,
leaves no quad behind. A quad whose fragment is validated in between stays right as
`Steady` says, which every flush and every draw satisfies: rows, places and buffers
are left alone. Of the glyph cache: its list has each glyph that exists once, and
when `DropGlyphFragment` has found one that is large enough *there is room* for the
new one (`CacheHasRoom`), in the place that became free or in a map made anew, since
none is left; this is what ends the loop of `CreateFragment`. Passes over spaces and rows (`MergeSpaces`,
`MergeRows`) are recursive functions; each is shown to keep an invariant of what it
has passed (`Passed`, `PassedRows`) by least counterexamples, and `Recursion` shows
that the functions exist at all.

**Popups** (`ControlsProofs`; assumed: what `PopupsAssumption` says of the windows and the
elements they hang on, among it that nothing hangs on a tooltip or takes the focus in
one). `PopupsOpen` (`OpenOnTarget`) and `PopupsClean` (`NothingLeftBehind`). Closing a
window closes what hangs on it, and so on; `Hanging` is a least set (`Reached`), and what
is needed of it, that it is closed and no larger than need be, follows from instantiating
its definition. The invariant `Sound` has a part on what dies and what fades (`Fades`),
one on targets (`Targets`), and `OpenBut`, which allows for the windows whose target has
just gone and which the operator under way is going to close. Every operator, the moves
of the focus and the activation of forms among them, is proved to keep a `ui` sound, for
any `ui`, as an action applies several in turn. `TipAgrees` ties the tooltip manager to
the windows: `m_tooltip` is open as long as its target is there and the focus has not
moved since an event came (`moved`). That a press activates a form, focuses a field and
closes pop-ups, before the manager kills its tooltip, is why the operators have to
say what they leave of `moved`.

**Lists of items** (`ControlsProofs`; assumed: that the strings are
numbers, and the children of "items" a sequence of names and strings). `ListsSafe`
(`ListsAgree`). The invariant is one list box's (`BoxOK`), for the items there are
now: no item has two elements, *also while the list is invalid*, so that `set_value`
on an element of before finds the only one it has to unselect; and in a valid list
the elements have the items they name, all of them unless there is a filter, and are
selected as the value says. A list without a source that is valid is empty, which is
why items may change unseen by it. That `ValidateList` makes each element once rests
on `Sorted` being the ways to write down a finite set (`SortedCovers`), and the items
a button reads from its resource are a recursive function, whose existence `Recursion`
in `ListLemmas` gives.

**Element values** (`ControlsProofs` too; assumed, as `ValuesAssumption`: limits are
pairs of integers in order, the boxes of a group all have the same group and each is in
it once, and at most one of a group is connected). `ValuesSafe`
(`ValuesAgree`), whatever handlers and listeners set, connect and disconnect. A
synchronisation that comes while one is under way is dropped by the code; `missed` has
the elements whose last one was, and it is of the invariant that all others are told. Between two calls of the library nothing agrees, so the invariant
`ValuesIInv` says what the calls under way still owe. `Relies`: of the calls that tell
elements the innermost counts, and the elements it has passed, and the one its value is
from, show the value; the outer ones owe nothing, as the inner one tells everybody
before they go on. `Led` is the same for a group: of the boxes that the innermost
update has passed, its leader among them, at most one is on. `Shape` says which call is
inside which: what is under way while `m_syncing` is set began in one call of
`SyncToElement`, so no handler has acted in it and the flag is still right when that
call takes it back. All three are of a stack, and the lemmas on pushing and popping
serve every action. An element that is connected again while it is being told moves in
the list, and with it the iterators (`Unlinked`); that they have passed no one they
have not told rests on `Before` and `After` (`ListLemmas`).

**Panels** (the end of `ControlsProofs`; assumed, as `PanelsAssumption`: sizes and
minima are natural numbers, a divider has a width, the limits of a spin box are in
order). `PanelsSafe` (`PanelsFollow`), from `PanelsIInv`, which has one part for each
control. `TabsOK`: there is one tab for each page, and until a page is removed those that were
updated last are still there. `SplitOK`: before it is laid out for the first time
(`m_initial_value` is still kept) a divider has no room, so that nobody can have dragged
it, which is the case that makes the invariant necessary; later it is laid out where
`m_value` says unless it is invalid, and what the pointer moved last was set to where
the pointer has it. `GroupOK`: what calls of `set_value` under way have still to set is
what the header shows, unless a handler has set the group in between (`disturbed`).
`SpinOK`: what was told last is the value, so that text set by the box itself is not
told again.

**Text boxes** (the end of `ControlsProofs`; assumed: `TextBoxesAssumption`, and
`HasRoom`: the rects the box gets have a height). `TextBoxSafe` (`TextBoxAgrees`) is for no
padding, and `TextBoxNearlySafe` for any, with `SelectedNearPointer`: that the selection
is off by the padding is a finding. The kind of the box may change at any time, and it may
be measured in any width. The invariant `TextBoxIInv` has what makes bar and view agree
(`BoxFits`): each tells the other and stops where nothing changes, so they agree only
because both are within the same limits before and after. That is not so while a resize
or a measuring is under way, when the limits are those of another width; that the
position has only gone down by then is what lets the bar follow.
A box of one line is in it because its view stays at 0, whatever the bar says (`torn`).

**Events** (`ElementEventsProofs`; assumed: the elements are in no two places of the
tree and the root is nobody's child). `CallsReach` (`CallsReachElements`),
`TimersFollow` (`TimersFollowCapture`), `FocusTold` (`FocusToldAgrees`) and `ClicksFollow`
(`ClickFollowsPress`, an action property) hold for any handlers: none is assumed to say
that it handled an event when it deleted its element, or to leave the capture alone. What
goes wrong then ends the behaviour in one of the places that `CallsReachElements` names.
The invariant has the tree, which is one
(`TreeAgrees`, `Rooted`: a child that exists has a parent that does, so that an event
that goes to the parent finds it); what the library remembers (`Remembers`), with the
timers of the capture (`Timed`), of which the buttons in `late` are excepted: they posted
the next click after the capture had ended; who was
told of the focus or is about to be (`Tells`); and the press (`Pressing`). `Holds` is what
the repeated click relies on. That a crash in `OnMessageReceived` is of such a late
message and of no other (`CrashKnown`) is proved beside it. The lemmas `Popped` and
`Pushed` say once, for all actions, what a return and a call do to all this.
Ancestors and hit testing are least sets.

### What is not proved

* Liveness (`EventuallyDelivered`, `EventuallyStopped`) and anything under
  fairness or with `ENABLED`: out of the prover's reach.
* Modules whose operators are RECURSIVE (`Values`), or that state properties
  against a computation from nothing over trees and texts (`Layout`, `Parsing`,
  `Skins`, `Painting`, `TextEdit`): these stay with TLC.
* Of what `MCControls` checks: scrolling and dragging, inflation, and what values own.

## 6. What the models leave out

* The data of messages, the values animations compute, what elements look like.
* Reads of freed memory. Where the code reads a field of an object that a callback
  has deleted (`Update` asks an animation for its list after `OnAnimationUpdate`),
  the model has the outcome while the memory holds no other object; with `Restarts`,
  in the proof of `UpdatesComplete` and in the liveness run, also that of a new one there.
* `PeekMessage` inside `RescheduleTimer` dispatching window messages: the models
  let timer messages be dispatched only by the pump.
* Failing allocations, assertions (the models are of a build without them), limits
  of the fragment managers that change while in use, rounding of doubles.
* Two parts of `MCControls` or `MCAlgorithms` acting on each other; `ElementEvents`,
  `Popups` and `Forms` overlap on purpose where the focus moves.

## 7. Plan

Modelled, checked and proved as above. What could follow: the scrolling of
`MCControls`, as far as it can be stated without recursion.
