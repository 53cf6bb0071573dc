-------------------------- MODULE BitmapFragments ---------------------------
(***************************************************************************)
(* Bitmap fragments and the batch that draws them                          *)
(* (src/el/graphics/bitmap_fragment_manager.cc, renderer.cc and the glyph  *)
(* cache of src/el/text/font_manager.cc).  Several managers pack images    *)
(* into maps; the renderer collects quads of one bitmap in a batch and     *)
(* draws them later, when fragments may have been freed and their space    *)
(* given to others.  The glyph cache frees the glyphs used least recently  *)
(* when its only map is full.                                              *)
(*                                                                         *)
(* Every action is one call, but for the loop of CreateFragment in the     *)
(* glyph cache, whose every turn is one.  gfx is what the functions these  *)
(* call change one after the other.                                        *)
(*                                                                         *)
(* A map (graphics/bitmap_fragment_map.cc) is one bitmap, cut into rows    *)
(* from top to bottom, with an allocator (util/space_allocator.cc) for     *)
(* each row.  Pixels are abstracted to images, [id, rect]: the pixels of   *)
(* a fragment at a place.  Two fragments with one id hold the same pixels. *)
(***************************************************************************)
EXTENDS Lists

CONSTANTS NULL,
          Manager,
          Cache,         \* the manager of the glyph cache
          Skin,          \* the manager of the skin, whose fragments have a border
          Fragment,      \* ids
          ManagerOf,
          Size,          \* of an id, [w, h]
          Dedicated,     \* ids loaded into a dedicated map
          DefaultSize,   \* of a manager's maps
          MapsLimit,     \* of a manager, 0 for none
          MaxQuads,      \* quads that fit into a batch
          CheckLimit     \* 20 in the code

Glyph == {id \in Fragment : ManagerOf[id] = Cache}

ASSUME FragmentsAssumption ==
  /\ Cache \in Manager /\ Skin \in Manager \ {Cache} /\ NULL \notin Fragment \cup Manager
  /\ ManagerOf \in [Fragment -> Manager]
  /\ Size \in [Fragment -> [w : Nat \ {0}, h : Nat \ {0}]]
  /\ DefaultSize \in [Manager -> [w : Nat \ {0}, h : Nat \ {0}]]
  /\ Dedicated \subseteq Fragment \ Glyph
  /\ MapsLimit \in [Manager -> Nat] /\ MapsLimit[Cache] = 1
  /\ MaxQuads \in Nat \ {0} /\ CheckLimit \in Nat

Rect == [x : Nat, y : Nat, w : Nat, h : Nat]
Name == [mgr : Manager, n : Nat]                        \* of a map
Pixels == [id : Fragment, rect : Rect]                  \* images
Bitmap == [pixels : SUBSET Pixels]
Record == [map : Name, y : Nat, space : [x : Nat, width : Nat \ {0}], rect : Rect,
           row_height : Nat \ {0}, in_batch : BOOLEAN]  \* of a fragment
Call == [glyph : Glyph, try_drop_largest : BOOLEAN, dropped : BOOLEAN]

(* The null pointer is no object. *)
ASSUME NullAssumption == NULL \notin Bitmap \cup Record \cup Call

VARIABLES gfx,         \* [maps: the maps of each manager, in the order made;
                       \*  frags: m_fragments, NULL where there is none;
                       \*  batch: the quads, the bitmap by its map's name, the
                       \*  fragment used last;
                       \*  wrong: ghost, images drawn from pixels not theirs]
          rendered,    \* m_all_rendered_glyphs, the oldest first
          creating     \* the call of CreateFragment under way

vars == <<gfx, rendered, creating>>

-----------------------------------------------------------------------------
(* util::SpaceAllocator: a width handed out in spaces.  available is
   m_available_space, free the list of free spaces from left to right, used the
   set of spaces handed out. *)

Space(x, width) == [x |-> x, width |-> width]
NoSpace == Space(0, 0)    \* nullptr

NewAllocator(width) == [available |-> width, free |-> <<>>, used |-> {}]

empty(a) == a.used = {}

HasSpace(a, w) ==
  /\ w <= a.available
  /\ empty(a) \/ \E i \in DOMAIN a.free : w <= a.free[i].width

(* The list of an unused allocator is only filled when it is needed. *)
Filled(a) ==
  IF a.free = <<>> /\ empty(a) THEN [a EXCEPT !.free = <<Space(0, a.available)>>] ELSE a

(* The first of the smallest free spaces that are wide enough, 0 for none *)
GetSmallestAvailableSpace(free, w) ==
  LET fits == {i \in DOMAIN free : w <= free[i].width}
  IN  IF fits = {} THEN 0
      ELSE Min({i \in fits : \A j \in fits : free[i].width <= free[j].width})

(* Consumed from the left; a free space with nothing left goes. *)
AllocSpace(allocator, w) ==
  LET a    == Filled(allocator)
      i    == GetSmallestAvailableSpace(a.free, w)
      from == a.free[i]
      left == IF from.width = w THEN RemoveAt(a.free, i)
              ELSE [a.free EXCEPT ![i] = Space(from.x + w, from.width - w)]
  IN  IF i = 0 THEN [allocator |-> a, space |-> NoSpace]
      ELSE [allocator |-> [available |-> a.available - w, free |-> left,
                           used |-> a.used \cup {Space(from.x, w)}],
            space |-> Space(from.x, w)]

Touch(s, t) == s.x + s.width = t.x
Joined(s, t) == Space(s.x, s.width + t.width)

(* Where the first free space right of s is, or would be *)
Succeeding(free, s) ==
  LET right == {i \in DOMAIN free : free[i].x > s.x}
  IN  IF right = {} THEN Len(free) + 1 ELSE Min(right)

(* The free space left of it is extended, else the one right of it, else it is
   put between them. *)
Inserted(free, s) ==
  LET i == Succeeding(free, s)
  IN  IF i > 1 /\ Touch(free[i - 1], s) THEN [free EXCEPT ![i - 1] = Joined(@, s)]
      ELSE IF i <= Len(free) /\ Touch(s, free[i]) THEN [free EXCEPT ![i] = Joined(s, @)]
      ELSE InsertAt(free, i, s)

(* Mutant: the pass over the list is left out *)
MergedNot(free) == free

(* From left to right, a free space is joined to the one it touches. *)
JoinedLast(list, s) ==
  IF list # <<>> /\ Touch(Last(list), s) THEN Append(Front(list), Joined(Last(list), s))
  ELSE Append(list, s)

Merged(free) ==
  LET upto[i \in 0..Len(free)] == IF i = 0 THEN <<>> ELSE JoinedLast(upto[i - 1], free[i])
  IN  upto[Len(free)]

FreeSpace(a, s) ==
  [available |-> a.available + s.width,
   free |-> Merged(Inserted(a.free, s)),
   used |-> a.used \ {s}]

-----------------------------------------------------------------------------
(* buffer: the images whole in m_bitmap_data; bitmap: those in the texture *)
NewMap(name, w, h) ==
  [name |-> name, w |-> w, h |-> h, rows |-> <<>>, allocated |-> 0,
   buffer |-> {}, bitmap |-> NULL, need_update |-> FALSE]

Row(y, height, width) == [y |-> y, height |-> height, spaces |-> NewAllocator(width)]

ImageAt(id, rect) == [id |-> id, rect |-> rect]

Border(m, size, add_border) ==
  IF add_border /\ (size.w # m.w \/ size.h # m.h) THEN 1 ELSE 0

(* The first of the lowest rows that have room, 0 for none *)
BestRow(rows, w, h) ==
  LET fits == {i \in DOMAIN rows : h <= rows[i].height /\ HasSpace(rows[i].spaces, w)}
  IN  IF fits = {} THEN 0
      ELSE Min({i \in fits : \A j \in fits : rows[i].height <= rows[j].height})

(* An unused row is cut down to the needed height. *)
Sliced(rows, i, h, width) ==
  IF empty(rows[i].spaces) /\ h < rows[i].height
  THEN InsertAt([rows EXCEPT ![i].height = h], i + 1, Row(rows[i].y + h, rows[i].height - h, width))
  ELSE rows

(* Two rectangles share no pixel. *)
Apart(p, q) ==
  p.x + p.w <= q.x \/ q.x + q.w <= p.x \/ p.y + p.h <= q.y \/ q.y + q.h <= p.y

(* The first row is made when it is needed. *)
Base(map) == IF map.rows = <<>> THEN [map EXCEPT !.rows = <<Row(0, map.h, map.w)>>] ELSE map

(* The map afterwards and the fragment, NULL when the map is full.  Images the
   copy overwrites are no longer whole. *)
CreateInMap(map, id, size, add_border) ==
  LET border == Border(map, size, add_border)
      w == size.w + 2 * border
      h == size.h + 2 * border
      m == Base(map)
      i == BestRow(m.rows, w, h)
      rows == Sliced(m.rows, i, h, m.w)
      got == AllocSpace(rows[i].spaces, w)
      area == [x |-> got.space.x, y |-> rows[i].y, w |-> w, h |-> h]
      rect == [x |-> got.space.x + border, y |-> rows[i].y + border, w |-> size.w, h |-> size.h]
  IN  IF i = 0 THEN [map |-> m, frag |-> NULL]
      ELSE IF got.space = NoSpace THEN [map |-> [m EXCEPT !.rows = rows], frag |-> NULL]
      ELSE [map |-> [m EXCEPT !.rows = [rows EXCEPT ![i].spaces = got.allocator],
                              !.buffer = {p \in m.buffer : Apart(p.rect, area)}
                                           \cup {ImageAt(id, rect)},
                              !.need_update = TRUE,
                              !.allocated = m.allocated + w * rows[i].height],
            frag |-> [map |-> m.name, y |-> rows[i].y, space |-> got.space, rect |-> rect,
                      row_height |-> rows[i].height, in_batch |-> FALSE]]

(* From top to bottom, an unused row is joined to an unused one above it. *)
JoinedRow(list, r) ==
  IF list # <<>> /\ empty(Last(list).spaces) /\ empty(r.spaces)
  THEN Append(Front(list), [Last(list) EXCEPT !.height = @ + r.height])
  ELSE Append(list, r)

MergedRows(rows) ==
  LET upto[i \in 0..Len(rows)] == IF i = 0 THEN <<>> ELSE JoinedRow(upto[i - 1], rows[i])
  IN  upto[Len(rows)]

(* The row that frag->m_row points to *)
RowOf(m, frag) == CHOOSE i \in DOMAIN m.rows : m.rows[i].y = frag.y

(* What was the fragment's image may be overwritten from now on. *)
FreeFragmentSpace(m, id, frag) ==
  LET i == RowOf(m, frag)
      rows == [m.rows EXCEPT ![i].spaces = FreeSpace(m.rows[i].spaces, frag.space)]
  IN  [m EXCEPT !.rows = IF empty(rows[i].spaces) THEN MergedRows(rows) ELSE rows,
                !.buffer = m.buffer \ {ImageAt(id, frag.rect)},
                !.allocated = m.allocated - frag.space.width * m.rows[i].height]

-----------------------------------------------------------------------------
(* Maps by name, which is the manager and a number *)

Named(mgr, n) == [mgr |-> mgr, n |-> n]
Names(g) == {m.name : m \in UNION {ToSet(g.maps[mgr]) : mgr \in Manager}}
NewName(g, mgr) == Named(mgr, Min({n \in 1..Len(g.maps[mgr]) + 1 : Named(mgr, n) \notin Names(g)}))

Place(g, name) == CHOOSE i \in DOMAIN g.maps[name.mgr] : g.maps[name.mgr][i].name = name
MapNamed(g, name) == g.maps[name.mgr][Place(g, name)]
SetMap(g, m) == [g EXCEPT !.maps[m.name.mgr][Place(g, m.name)] = m]

-----------------------------------------------------------------------------
(* Renderer *)

(* Bitmap::set_data or CreateBitmap *)
Uploaded(m) ==
  IF m.need_update THEN [m EXCEPT !.bitmap = [pixels |-> m.buffer], !.need_update = FALSE] ELSE m

Drawable(g, name) == name \in Names(g) /\ MapNamed(g, name).bitmap # NULL

(* Images drawn from a bitmap whose pixels there are not theirs *)
WrongIn(g) ==
  IF g.batch.bitmap = NULL THEN {}
  ELSE IF Drawable(g, g.batch.bitmap)
  THEN ToSet(g.batch.quads) \ MapNamed(g, g.batch.bitmap).bitmap.pixels
  ELSE ToSet(g.batch.quads)

(* in_batch: m_batch_id = batch_.batch_id.  Flushing increments the latter; an
   id that has wrapped around only makes for one more flush. *)
InBatch(f, in) == [map |-> f.map, y |-> f.y, space |-> f.space, rect |-> f.rect,
                   row_height |-> f.row_height, in_batch |-> in]
NotInBatch(f) == IF f = NULL THEN NULL ELSE InBatch(f, FALSE)

NoBatch == [quads |-> <<>>, bitmap |-> NULL, fragment |-> NULL]

(* The quads are drawn, from a bitmap brought up to date.  The fragment used
   last must exist.  The bitmap and the fragment the code leaves in the empty
   batch change nothing before the next quad sets them: NULL here. *)
FlushBatch(g) ==
  LET last  == g.batch.fragment
      valid == IF last = NULL \/ g.frags[last] = NULL THEN g
               ELSE SetMap(g, Uploaded(MapNamed(g, g.frags[last].map)))
  IN  IF g.batch.quads = <<>> THEN g
      ELSE [valid EXCEPT !.batch = NoBatch,
                         !.frags = [id \in Fragment |-> NotInBatch(g.frags[id])],
                         !.wrong = g.wrong \cup WrongIn(valid)]

(* Before a bitmap is changed or deleted *)
FlushBitmap(g, name) == IF g.batch.bitmap = name THEN FlushBatch(g) ELSE g

(* Mutant: only if the batch used it last *)
FlushLastBitmapFragment(g, id) == IF g.batch.fragment = id THEN FlushBatch(g) ELSE g

FlushBitmapFragment(g, id) ==
  IF g.frags[id].in_batch THEN FlushBatch(g) ELSE g

ValidateBitmap(g, name) ==
  IF MapNamed(g, name).need_update
  THEN LET flushed == FlushBitmap(g, name) IN SetMap(flushed, Uploaded(MapNamed(flushed, name)))
  ELSE g

(* GetBitmap(Validate::kFirstTime) *)
EnsureBitmap(g, name) ==
  IF MapNamed(g, name).bitmap = NULL THEN ValidateBitmap(g, name) ELSE g

(* AddQuadInternal up to its reservation: a batch of another bitmap and a full
   one are flushed. *)
Reserved(g, name) ==
  LET other == IF g.batch.bitmap # name THEN FlushBatch(g) ELSE g
  IN  IF Len(other.batch.quads) = MaxQuads THEN FlushBatch(other) ELSE other

AddQuad(g, name, id) ==
  LET r == Reserved(g, name)
  IN  [r EXCEPT !.batch = [quads |-> Append(r.batch.quads, ImageAt(id, g.frags[id].rect)),
                           bitmap |-> name, fragment |-> id],
                !.frags[id] = InBatch(r.frags[id], TRUE)]

-----------------------------------------------------------------------------
(* Manager *)

(* 1 << (i + 1), where bit i is the highest in val - 1 *)
GetNearestPowerOfTwo(val) ==
  LET above[i \in 0..val] == IF i = 0 THEN 1 ELSE IF above[i - 1] < val THEN 2 * above[i - 1] ELSE above[i - 1]
  IN  above[val]

Larger(a, b) == IF a > b THEN a ELSE b

NewMapSize(mgr, id) ==
  LET least == IF id \in Dedicated THEN [w |-> 1, h |-> 1] ELSE DefaultSize[mgr]
  IN  [w |-> GetNearestPowerOfTwo(Larger(Size[id].w, least.w)),
       h |-> GetNearestPowerOfTwo(Larger(Size[id].h, least.h))]

Created(g, mgr, id, maps, frag) ==
  [g EXCEPT !.maps[mgr] = maps, !.frags[id] = frag]

(* In the first map that has room, else in a new one, kept even if the
   fragment does not fit into it *)
CreateNewFragment(g, mgr, id) ==
  LET maps  == g.maps[mgr]
      In(m) == CreateInMap(m, id, Size[id], mgr = Skin)
      room  == IF id \in Dedicated THEN {} ELSE {i \in DOMAIN maps : In(maps[i]).frag # NULL}
      first == Min(room)
      size  == NewMapSize(mgr, id)
      new   == In(NewMap(NewName(g, mgr), size.w, size.h))
  IN  IF room # {}
      THEN Created(g, mgr, id, [maps EXCEPT ![first] = In(maps[first]).map], In(maps[first]).frag)
      ELSE IF MapsLimit[mgr] = 0 \/ Len(maps) < MapsLimit[mgr]
      THEN Created(g, mgr, id, Append(maps, new.map), new.frag)
      ELSE g

(* Erased with its bitmap, whose destructor flushes *)
MapDeleted(g, m) ==
  LET flushed == FlushBitmap(g, m.name)
  IN  [flushed EXCEPT !.maps[m.name.mgr] = RemoveAt(flushed.maps[m.name.mgr], Place(flushed, m.name))]

FreeFragment(g, id) ==
  LET flushed == FlushBitmapFragment(g, id)
      frag    == flushed.frags[id]
      m       == FreeFragmentSpace(MapNamed(flushed, frag.map), id, frag)
      erased  == [SetMap(flushed, m) EXCEPT !.frags[id] = NULL]
  IN  IF m.allocated = 0 THEN MapDeleted(erased, m) ELSE erased

-----------------------------------------------------------------------------
Init ==
  /\ gfx = [maps |-> [mgr \in Manager |-> <<>>],
            frags |-> [id \in Fragment |-> NULL],
            batch |-> NoBatch,
            wrong |-> {}]
  /\ rendered = <<>>
  /\ creating = NULL

Idle == creating = NULL
Painting == gfx.batch.quads # <<>>

(* By the image manager, and by the skin when it is loaded *)
GetFragmentFromFile(id) ==
  /\ Idle /\ id \notin Glyph /\ gfx.frags[id] = NULL
  /\ Painting => ManagerOf[id] # Skin
  /\ gfx' = CreateNewFragment(gfx, ManagerOf[id], id)
  /\ UNCHANGED <<rendered, creating>>

(* RemoveImageRep, when the last reference goes *)
RemoveImageRep(id) ==
  /\ Idle /\ ManagerOf[id] \notin {Cache, Skin} /\ gfx.frags[id] # NULL
  /\ gfx' = FreeFragment(gfx, id)
  /\ UNCHANGED <<rendered, creating>>

(* A glyph that is asked for and has no fragment is rendered. *)
RenderGlyph(id) ==
  /\ Idle /\ id \in Glyph /\ gfx.frags[id] = NULL
  /\ Size[id].w <= DefaultSize[Cache].w /\ Size[id].h <= DefaultSize[Cache].h
  /\ creating' = [glyph |-> id, try_drop_largest |-> TRUE, dropped |-> FALSE]
  /\ UNCHANGED <<gfx, rendered>>

Attempt == CreateNewFragment(gfx, Cache, creating.glyph)
Fits == Attempt.frags[creating.glyph] # NULL

CreateFragmentDone ==
  /\ ~Idle /\ Fits
  /\ gfx' = Attempt
  /\ rendered' = Append(rendered, creating.glyph)
  /\ creating' = NULL

(* Mutant: the fragment's own height is not compared *)
LargeEnoughWide(id) == gfx.frags[id].rect.w >= Size[creating.glyph].w

LargeEnough(id) ==
  /\ gfx.frags[id].rect.w >= Size[creating.glyph].w
  /\ gfx.frags[id].row_height >= Size[creating.glyph].h

Checked == SubSeq(rendered, 1, IF Len(rendered) < CheckLimit THEN Len(rendered) ELSE CheckLimit)

(* The glyph to drop: once the oldest that is large enough, else the oldest,
   until there is none.  After a large one nothing more is dropped. *)
Large == {i \in 1..Len(Checked) : LargeEnough(Checked[i])}
DropsLarge == creating.try_drop_largest /\ Large # {}

Victim ==
  IF DropsLarge THEN Checked[Min(Large)]
  ELSE IF ~creating.dropped /\ rendered # <<>> THEN Head(rendered)
  ELSE NULL

(* One turn of the loop, which gives up when there is nothing to drop. *)
CreateFragmentRetry ==
  /\ ~Idle /\ ~Fits
  /\ gfx' = IF Victim = NULL THEN Attempt ELSE FreeFragment(Attempt, Victim)
  /\ rendered' = Without(rendered, {Victim})
  /\ creating' =
       IF Victim = NULL /\ ~creating.dropped THEN NULL
       ELSE [creating EXCEPT !.try_drop_largest = FALSE,
                             !.dropped = creating.dropped \/ DropsLarge]

(* DrawBitmap; a glyph that is asked for becomes the newest. *)
DrawBitmap(id) ==
  /\ Idle /\ gfx.frags[id] # NULL
  /\ LET name == gfx.frags[id].map IN gfx' = AddQuad(EnsureBitmap(gfx, name), name, id)
  /\ rendered' = IF id \in Glyph
                 THEN Append(Without(rendered, {id}), id) ELSE rendered
  /\ UNCHANGED creating

(* EndPaint, set_clip_rect and quads without a bitmap *)
FlushAll ==
  /\ Idle /\ Painting
  /\ gfx' = FlushBatch(gfx)
  /\ UNCHANGED <<rendered, creating>>

DeleteBitmaps(m) == [m EXCEPT !.bitmap = NULL, !.need_update = TRUE]

Clear(g, mgr) ==
  [g EXCEPT !.maps[mgr] = <<>>,
            !.frags = [id \in Fragment |-> IF ManagerOf[id] = mgr THEN NULL ELSE g.frags[id]]]

(* The skin unloads everything, the others keep their data.  Contexts are lost
   and skins loaded between two paints. *)
OnContextLost ==
  /\ Idle /\ ~Painting
  /\ gfx' = Clear([gfx EXCEPT !.maps = [mgr \in Manager |->
                     [i \in DOMAIN gfx.maps[mgr] |-> DeleteBitmaps(gfx.maps[mgr][i])]]], Skin)
  /\ UNCHANGED <<rendered, creating>>

(* By ReloadBitmaps, before the files are loaded anew *)
UnloadBitmaps ==
  /\ Idle /\ ~Painting
  /\ gfx' = Clear(gfx, Skin)
  /\ UNCHANGED <<rendered, creating>>

Next ==
  \/ \E id \in Fragment :
       GetFragmentFromFile(id) \/ RemoveImageRep(id) \/ RenderGlyph(id) \/ DrawBitmap(id)
  \/ CreateFragmentDone \/ CreateFragmentRetry
  \/ FlushAll \/ OnContextLost \/ UnloadBitmaps

Spec == Init /\ [][Next]_vars

-----------------------------------------------------------------------------
(* Properties *)

AllMaps == UNION {ToSet(gfx.maps[mgr]) : mgr \in Manager}
Live == {id \in Fragment : gfx.frags[id] # NULL}

(* Every variable has its type, a fragment is in a map of its manager, and no
   manager has more maps than its limit. *)
TypeOK ==
  /\ \A id \in Live :
       /\ gfx.frags[id].rect \in Rect /\ gfx.frags[id].in_batch \in BOOLEAN
       /\ gfx.frags[id].map \in {m.name : m \in ToSet(gfx.maps[ManagerOf[id]])}
  /\ \A mgr \in Manager : MapsLimit[mgr] = 0 \/ Len(gfx.maps[mgr]) <= MapsLimit[mgr]
  /\ Len(gfx.batch.quads) <= MaxQuads
  /\ ToSet(rendered) = Live \cap Glyph /\ IsInjective(rendered)
  /\ creating # NULL => creating.glyph \in Glyph

(* The area of a fragment with its border *)
Area(id) ==
  LET f == gfx.frags[id]
      border == f.rect.x - f.space.x
  IN  [x |-> f.space.x, y |-> f.y, w |-> f.space.width, h |-> f.rect.h + 2 * border]

(* Fragments of one map lie apart, borders included, and inside the map. *)
FragmentsApart ==
  \A id \in Live :
    LET f == gfx.frags[id]
        m == MapNamed(gfx, f.map)
    IN  /\ Area(id).x + Area(id).w <= m.w /\ Area(id).y + Area(id).h <= m.h
        /\ \A other \in Live \ {id} :
             gfx.frags[other].map = f.map => Apart(Area(id), Area(other))

Columns(spaces) == UNION {s.x .. s.x + s.width - 1 : s \in spaces}

(* The spaces of a row lie apart, the free ones in order and whole, and together
   they are all its width. *)
SpacesTile(a, width) ==
  /\ \A s, t \in a.used \cup ToSet(a.free) : s # t => Columns({s}) \cap Columns({t}) = {}
  /\ Columns(a.used) \subseteq 0..width - 1
  /\ a.available = Cardinality((0..width - 1) \ Columns(a.used))
  /\ (a.free = <<>> /\ empty(a)) \/ Columns(ToSet(a.free)) = (0..width - 1) \ Columns(a.used)
  /\ \A i \in 1..(Len(a.free) - 1) : a.free[i].x + a.free[i].width < a.free[i + 1].x

(* The pixels of a map that the rows of its fragments take *)
Allocated(m) ==
  {p \in (0..m.w - 1) \X (0..m.h - 1) : \E i \in DOMAIN m.rows :
     p[2] \in m.rows[i].y .. m.rows[i].y + m.rows[i].height - 1 /\ p[1] \in Columns(m.rows[i].spaces.used)}

(* The rows of a map tile it from top to bottom, no two unused ones follow one
   another, and a map counts as allocated what its fragments take. *)
MapsTile ==
  \A m \in AllMaps :
    /\ m.rows # <<>> /\ m.rows[1].y = 0 /\ Last(m.rows).y + Last(m.rows).height = m.h
    /\ \A i \in 1..(Len(m.rows) - 1) :
         /\ m.rows[i + 1].y = m.rows[i].y + m.rows[i].height
         /\ ~(empty(m.rows[i].spaces) /\ empty(m.rows[i + 1].spaces))
    /\ \A i \in DOMAIN m.rows : m.rows[i].height > 0 /\ SpacesTile(m.rows[i].spaces, m.w)
    /\ m.allocated = Cardinality(Allocated(m))

(* No manager keeps a map without a fragment: "If the map is now empty, delete
   it", and a new map is made "where we know it will fit"
   (bitmap_fragment_manager.cc 103, 67). *)
MapsInUse ==
  \A m \in AllMaps : m.allocated > 0 /\ \E id \in Live : gfx.frags[id].map = m.name

(* What that takes: where the code knows it, it leaves out the border of the
   skin's fragments, which may make one larger than the map made for it. *)
NewMapsFit ==
  \A id \in Fragment : ManagerOf[id] = Skin =>
    LET s == NewMapSize(Skin, id)
    IN  (Size[id].w = s.w /\ Size[id].h = s.h) \/ (Size[id].w + 2 <= s.w /\ Size[id].h + 2 <= s.h)

(* The types, and how rows and spaces divide the maps among fragments. *)
MapsAgree == TypeOK /\ FragmentsApart /\ MapsTile /\ MapsInUse

(* Every quad shows the image it was added for, though fragments were freed
   and their space reused before the batch was drawn. *)
DrawnRight == gfx.wrong = {}

(* A pending batch knows a fragment that exists, in the map of its bitmap
   (the assert at renderer.cc 250). *)
BatchValid ==
  Painting => /\ gfx.batch.fragment \in Live
              /\ gfx.frags[gfx.batch.fragment].map = gfx.batch.bitmap
              /\ MapNamed(gfx, gfx.batch.bitmap).bitmap # NULL

(* A batch is drawn from what its quads were added for, and is always drawable. *)
BatchesAgree == DrawnRight /\ BatchValid

(* Every glyph no larger than the map gets its fragment; dropping one that is
   large enough makes room at once, else the loop of CreateFragment would go
   round for ever. *)
GlyphFits ==
  ~Idle => /\ creating.dropped => Fits
           /\ rendered = <<>> => Fits
=============================================================================
