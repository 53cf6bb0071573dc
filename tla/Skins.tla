------------------------------- MODULE Skins --------------------------------
(***************************************************************************)
(* Which skin an element has (src/el/skin.cc; background_skin_element,     *)
(* computed_state, InvokeSkinUpdatesInternal and the setters that announce *)
(* a change of state, in src/el/element.cc), and the loading of skins.     *)
(*                                                                         *)
(* A skin has strong overrides: other skins, for states and conditions on  *)
(* the element, those around it, and what is hovered, captured and focused.*)
(* Elements remember which skin they got, and are told at the next process *)
(* when it is another one, provided that someone announced a change.       *)
(***************************************************************************)
EXTENDS Integers, Sequences, FiniteSets
LOCAL S == INSTANCE SequencesExt

CONSTANTS Element, Root, None,
          Ids,       \* ids that elements are given
          Backgrounds, \* skins that elements are given
          Changes,   \* flags of m_state that the program and the elements set
          Initial,   \* elements -> their first skin
          Children,  \* and their first children
          FirstFile, \* what is loaded before elements are made
          SkinFiles, \* and later: [dpi: what "description" sets, or <<>>, nodes: <<[id, clone, fields]>>]
          Images,    \* <<bitmap file, dpi>> that exist; dpi 0: the file itself
          Answers,   \* <<element, property>> -> what conditions find at first: axis, align, value, custom
          Values,    \* property -> values it is set to
          Told,      \* <<element, property>> whose setter announces the change
          Silent     \* those whose setter does not: alignment, the axis of a split container

(* Assumed of the constants where they get their values *)
SkinsAssumption ==
  /\ Root \in Element /\ None \notin Element
  /\ DOMAIN Answers = Element \X {"axis", "align", "value", "custom"}
  /\ Told \cup Silent \subseteq DOMAIN Answers /\ Told \cap Silent = {}

VARIABLES use,   \* [children, skin: m_skin_bg, expected: m_skin_bg_expected, id, state: m_state,
                 \*  hovered, captured, focused, touched: no_automatic_hover_state, cancel_click,
                 \*  show_focus_state, field, update_skin_states; ghost: seen: of what may change without
                 \*  an announcement what the last process found: [cancel_click, show_focus_state, field,
                 \*  strong]]
          skins  \* [dpi: source and destination, loaded: id -> [cut, file, dpi: bitmap_dpi, bitmap,
                 \*  strong; ghosts: raw: the cut that was read last, again: it, or the resolution,
                 \*  changed after a bitmap was there]]

vars == <<use, skins>>

-----------------------------------------------------------------------------
(* The tree *)

Parents(u, e) == {p \in Element : S!Contains(u.children[p], e)}
Tree(u) == LET under[n \in 0 .. Cardinality(Element)] ==
                 IF n = 0 THEN {Root} ELSE under[n - 1] \cup UNION {S!ToSet(u.children[e]) : e \in under[n - 1]}
           IN  under[Cardinality(Element)]
Ancestors(u, e) ==
  LET above[n \in 0 .. Cardinality(Element)] ==
        IF n = 0 THEN {e} ELSE above[n - 1] \cup UNION {Parents(u, a) : a \in above[n - 1]}
  IN  above[Cardinality(Element)] \ {e}
IsAncestorOf(u, e, other) == other # None /\ e \in {other} \cup Ancestors(u, other)

(* GetPrev and GetNext: at most one *)
Sibling(u, e, distance) ==
  {s \in Element : \E p \in Parents(u, e) : \E i, j \in DOMAIN u.children[p] :
                     u.children[p][i] = e /\ u.children[p][j] = s /\ j = i + distance}

-----------------------------------------------------------------------------
(* The skin an element gets *)

computed_state(u, e) ==
  LET pressed == ~u.cancel_click /\ e = u.captured /\ e = u.hovered
  IN  u.state[e] \cup (IF pressed THEN {"pressed"} ELSE {})
      \cup (IF e = u.hovered /\ (e \notin u.touched \/ pressed) THEN {"hovered"} ELSE {})
      \cup (IF e = u.focused /\ u.show_focus_state THEN {"focused"} ELSE {})

Property(u, e, c) ==
  CASE c.prop = "skin" -> u.skin[e] = c.value
    [] c.prop = "form active" -> "selected" \in u.state[Root]
    [] c.prop = "id" -> u.id[e] = c.value
    [] c.prop = "state" -> c.value \in computed_state(u, e)
    [] c.prop = "hover" -> IsAncestorOf(u, e, u.hovered)
    [] c.prop = "capture" -> IsAncestorOf(u, e, u.captured)
    [] c.prop = "focus" -> IsAncestorOf(u, e, u.focused)
    [] OTHER -> u.field[<<e, c.prop>>] = c.value

(* No ancestor that matches: the previous sibling is asked, the code falls through. *)
Targets(u, e, target) ==
  CASE target = "this" -> {e}
    [] target = "parent" -> Parents(u, e)
    [] target = "ancestors" -> Ancestors(u, e) \cup Sibling(u, e, -1)
    [] target = "prev sibling" -> Sibling(u, e, -1)
    [] target = "next sibling" -> Sibling(u, e, 1)

GetCondition(u, e, c) == (\E t \in Targets(u, e, c.target) : Property(u, t, c)) = c.equal

(* An entry of a list of overrides: [state: a set of flags, "all" for any, conditions, id] *)
Fits(u, e, entry, exact) ==
  LET state == computed_state(u, e)
  IN  /\ "all" \in entry.state \/ (IF exact THEN state = entry.state ELSE state \cap entry.state # {})
      /\ \A c \in entry.conditions : GetCondition(u, e, c)

GetStateElement(u, e, list) ==
  LET exact == SelectSeq(list, LAMBDA entry : Fits(u, e, entry, TRUE))
      partly == SelectSeq(list, LAMBDA entry : Fits(u, e, entry, FALSE))
  IN  exact \o partly

(* Overrides of overrides, of these lists, until one is not there or was met before. *)
RECURSIVE GetSkinElementStrongOverride(_, _, _, _, _)
GetSkinElementStrongOverride(u, strong, e, id, getting) ==
  IF id \notin DOMAIN strong \/ id \in getting THEN None
  ELSE LET found == GetStateElement(u, e, strong[id])
           override == IF found = <<>> THEN None
                       ELSE GetSkinElementStrongOverride(u, strong, e, Head(found).id, getting \cup {id})
       IN  IF override = None THEN id ELSE override

Strong(sk) == [id \in DOMAIN sk.loaded |-> sk.loaded[id].strong]
background_skin_element(u, strong, e) == GetSkinElementStrongOverride(u, strong, e, u.skin[e], {})

-----------------------------------------------------------------------------
(* Changes of what the skin depends on *)

(* Mutant: a setter that does not announce the change *)
AnnouncedNot(u) == u

Announced(u) == [u EXCEPT !.update_skin_states = TRUE]

SetHoveredElement(e, touch) ==
  /\ e # use.hovered /\ (e # None => "disabled" \notin use.state[e])
  /\ use' = Announced([use EXCEPT !.hovered = e,
                                  !.touched = IF e = None THEN @ ELSE IF touch THEN @ \cup {e} ELSE @ \ {e}])
  /\ UNCHANGED skins

SetCapturedElement(e) ==
  /\ e # use.captured /\ (e # None => "disabled" \notin use.state[e])
  /\ use' = Announced([use EXCEPT !.captured = e, !.cancel_click = FALSE])
  /\ UNCHANGED skins

set_focus(e) ==
  /\ e # use.focused /\ "disabled" \notin use.state[e]
  /\ use' = Announced([use EXCEPT !.focused = e])
  /\ UNCHANGED skins

set_state(e, flag, on) ==
  /\ on # (flag \in use.state[e])
  /\ use' = Announced([use EXCEPT !.state[e] = IF on THEN @ \cup {flag} ELSE @ \ {flag}])
  /\ UNCHANGED skins

set_id(e, id) == use' = Announced([use EXCEPT !.id[e] = id]) /\ UNCHANGED skins

set_background_skin(e, id) ==
  /\ id # use.skin[e]
  /\ use' = Announced([use EXCEPT !.skin[e] = id, !.expected[e] = id])
  /\ UNCHANGED skins

AddChild(p, e, first) ==
  /\ Parents(use, e) = {} /\ e # Root /\ ~IsAncestorOf(use, e, p)
  /\ use' = Announced([use EXCEPT !.children[p] = IF first THEN <<e>> \o @ ELSE Append(@, e)])
  /\ UNCHANGED skins

(* The focus moves on from the removed element, if another one takes it; what is deleted is no
   longer hovered, captured or focused. *)
RemoveChild(p, e, focus, delete) ==
  LET gone == IF delete THEN {x \in Element : IsAncestorOf(use, e, x)} ELSE {}
      Kept(x) == IF x \in gone THEN None ELSE x
  IN  /\ S!Contains(use.children[p], e)
      /\ focus = use.focused \/ (e = use.focused /\ focus \in Tree(use))
      /\ use' = Announced([use EXCEPT !.children[p] = S!Remove(@, e), !.focused = Kept(focus),
                                      !.hovered = Kept(@), !.captured = Kept(@)])
      /\ UNCHANGED skins

(* set_axis, set_alignment, set_value and what conditions of its own ask an element *)
SetField(k, to) ==
  /\ k \in Told \cup Silent /\ to # use.field[k]
  /\ LET set == [use EXCEPT !.field[k] = to] IN use' = IF k \in Told THEN Announced(set) ELSE set
  /\ UNCHANGED skins

(* A long click, panning or a press on a moving scroller: the click is off.  Nothing is announced. *)
CancelClick ==
  /\ use.captured # None /\ ~use.cancel_click
  /\ use' = [use EXCEPT !.cancel_click = TRUE]
  /\ UNCHANGED skins

set_auto_focus_state(on) ==
  /\ on # use.show_focus_state
  /\ use' = [use EXCEPT !.show_focus_state = on]
  /\ UNCHANGED skins

(* What is not announced, as it is now *)
Now(u, sk) ==
  [cancel_click |-> u.cancel_click, show_focus_state |-> u.show_focus_state, strong |-> Strong(sk),
   field |-> [k \in Silent |-> u.field[k]]]

(* InvokeProcess of the root *)
InvokeSkinUpdatesInternal ==
  /\ use.update_skin_states
  /\ use' = [use EXCEPT !.update_skin_states = FALSE,
       !.expected = [e \in Element |->
         LET got == background_skin_element(use, Strong(skins), e)
         IN  IF e \in Tree(use) /\ got # None THEN got ELSE use.expected[e]],
       !.seen = Now(use, skins)]
  /\ UNCHANGED skins

-----------------------------------------------------------------------------
(* Loading *)

(* A node has the fields of the one it clones, except those it has itself. *)
Fields(file, i) ==
  LET fields[n \in 0 .. Len(file.nodes), k \in DOMAIN file.nodes] ==
        LET node == file.nodes[k]
            cloned == {j \in DOMAIN file.nodes : file.nodes[j].id = node.clone}
            source == IF n = 0 \/ cloned = {} THEN [f \in {} |-> 0]
                      ELSE fields[n - 1, CHOOSE j \in cloned : \A l \in cloned : j <= l]
        IN  [f \in DOMAIN node.fields \cup DOMAIN source |->
              IF f \in DOMAIN node.fields THEN node.fields[f] ELSE source[f]]
  IN  fields[Len(file.nodes), i]

NoSkin == [cut |-> 0, file |-> None, dpi |-> 0, bitmap |-> None, strong |-> <<>>, raw |-> 0, again |-> FALSE]

(* SkinElement::Load patches what was loaded; its overrides come after those that are there. *)
LoadSkinElement(element, fields) ==
  LET Field(name, default) == IF name \in DOMAIN fields THEN fields[name] ELSE default
  IN  [element EXCEPT !.cut = Field("cut", @), !.raw = Field("cut", @), !.file = Field("bitmap", @),
                      !.strong = @ \o Field("strong", <<>>), !.again = @ \/ element.dpi # 0]

LoadInternal(sk, file) ==
  LET dpi == IF file.dpi = <<>> THEN sk.dpi ELSE file.dpi
      start == [id \in DOMAIN sk.loaded |->
                 [sk.loaded[id] EXCEPT !.again = @ \/ (sk.loaded[id].dpi # 0 /\ dpi # sk.dpi)]]
      loaded == S!FoldLeft(LAMBDA all, i :
                    LET id == file.nodes[i].id
                        old == IF id \in DOMAIN all THEN all[id] ELSE NoSkin
                    IN  [d \in DOMAIN all \cup {id} |->
                          IF d = id THEN LoadSkinElement(old, Fields(file, i)) ELSE all[d]],
                  start, [i \in DOMAIN file.nodes |-> i])
  IN  [dpi |-> dpi, loaded |-> loaded]

SetBitmapDPI(element, dpi, used) ==
  IF element.dpi # 0 THEN element
  ELSE [element EXCEPT !.cut = IF used = dpi[2] THEN (@ * dpi[2]) \div dpi[1] ELSE @, !.dpi = used]

UnloadBitmaps(sk) == [sk EXCEPT !.loaded = [id \in DOMAIN @ |-> [@[id] EXCEPT !.bitmap = None]]]

ReloadBitmap(element, dpi) ==
  LET better == dpi[1] # dpi[2] /\ <<element.file, dpi[2]>> \in Images
      used == IF better THEN dpi[2] ELSE dpi[1]
      bitmap == IF better THEN <<element.file, dpi[2]>>
                ELSE IF <<element.file, 0>> \in Images THEN <<element.file, 0>> ELSE None
  IN  IF element.file = None THEN element ELSE [SetBitmapDPI(element, dpi, used) EXCEPT !.bitmap = bitmap]

ReloadBitmaps(sk) == [sk EXCEPT !.loaded = [id \in DOMAIN @ |-> ReloadBitmap(@[id], sk.dpi)]]

Load(file) ==
  /\ skins' = ReloadBitmaps(UnloadBitmaps(LoadInternal(skins, file)))
  /\ UNCHANGED use

OnContextLost == skins' = UnloadBitmaps(skins) /\ UNCHANGED use
OnContextRestored == skins' = ReloadBitmaps(UnloadBitmaps(skins)) /\ UNCHANGED use

-----------------------------------------------------------------------------
Init ==
  LET loaded == ReloadBitmaps(LoadInternal([dpi |-> <<96, 96>>, loaded |-> [id \in {} |-> NoSkin]], FirstFile))
      first == [children |-> Children, skin |-> Initial, expected |-> Initial,
                id |-> [e \in Element |-> CHOOSE id \in Ids : TRUE], state |-> [e \in Element |-> {}],
                hovered |-> None, captured |-> None, focused |-> None, touched |-> {}, cancel_click |-> FALSE,
                show_focus_state |-> FALSE, field |-> Answers, update_skin_states |-> TRUE]
  IN  /\ skins = loaded
      /\ use = [f \in DOMAIN first \cup {"seen"} |-> IF f = "seen" THEN Now(first, loaded) ELSE first[f]]

StateNext ==
  \/ \E e \in Element \cup {None} : SetCapturedElement(e) \/ \E touch \in BOOLEAN : SetHoveredElement(e, touch)
  \/ \E e \in Element : \/ set_focus(e)
                        \/ \E flag \in Changes, on \in BOOLEAN : set_state(e, flag, on)
                        \/ \E id \in Ids : set_id(e, id)
                        \/ \E id \in Backgrounds : set_background_skin(e, id)
  \/ \E k \in Told \cup Silent : \E to \in Values[k[2]] : SetField(k, to)
  \/ CancelClick \/ \E on \in BOOLEAN : set_auto_focus_state(on)

TreeNext ==
  \E p, e \in Element : \/ \E first \in BOOLEAN : AddChild(p, e, first)
                        \/ \E focus \in Element \cup {None}, delete \in BOOLEAN : RemoveChild(p, e, focus, delete)

LoadNext == (\E file \in SkinFiles : Load(file)) \/ OnContextLost \/ OnContextRestored

Next == StateNext \/ TreeNext \/ LoadNext \/ InvokeSkinUpdatesInternal

Spec == Init /\ [][Next]_vars

-----------------------------------------------------------------------------
(* Properties *)

(* The state with what is not announced as the last process found it *)
Seen == [use EXCEPT !.cancel_click = use.seen.cancel_click, !.show_focus_state = use.seen.show_focus_state,
                    !.field = [k \in DOMAIN @ |-> IF k \in Silent THEN use.seen.field[k] ELSE @[k]]]

(* Whatever a skin depends on, in the element, around it or in what is hovered, captured and
   focused: when it changed, a process has it looked up again.  While nothing is announced, each
   element in the tree has been told of the skin that it gets now, and has its padding, but for
   what a click that was taken back, the automatic focus state, an alignment or a skin file have
   changed since that process (the finding AllAnnounced). *)
SkinsCurrent ==
  ~use.update_skin_states =>
    \A e \in Tree(use) : background_skin_element(Seen, use.seen.strong, e) \in {use.expected[e], None}

(* element.h:325 says of the announcement "Call if something changes that might cause any skin to
   change due to different state or conditions. This is called automatically [...] in various other
   situations.": not by these. *)
AllAnnounced ==
  ~use.update_skin_states =>
    \A e \in Tree(use) : background_skin_element(use, Strong(skins), e) \in {use.expected[e], None}

(* The cut of a skin is that of its file, in the resolution of its bitmap, however often the
   context is lost and restored and other skins are loaded. *)
CutFitsBitmap ==
  \A id \in DOMAIN skins.loaded :
    LET s == skins.loaded[id]
    IN  ~s.again /\ s.bitmap # None =>
          s.cut = IF s.bitmap[2] = 0 THEN s.raw ELSE (s.raw * skins.dpi[2]) \div skins.dpi[1]
=============================================================================
