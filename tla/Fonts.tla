------------------------------- MODULE Fonts --------------------------------
(***************************************************************************)
(* Fonts (src/el/text/font_manager.cc, font_face.cc, font_effect.cc and    *)
(* font_renderer_tbbf.cc): files that are added by name, faces created of  *)
(* them in a size, the glyphs found in a picture, the cache of the glyphs  *)
(* of all faces, and strings drawn and measured with them.                 *)
(*                                                                         *)
(* A picture is a sequence of columns that are inked or not.  Where the    *)
(* fragments of glyphs are in their bitmap is in BitmapFragments; here     *)
(* they have a row of MapWidth for themselves.                             *)
(***************************************************************************)
EXTENDS Integers, Sequences, FiniteSetsExt, SequencesExt, Functions

CONSTANTS Libraries,  \* each: id of a name -> what is in the file that is added with it, [loads, gray, rgb,
                      \*  nodes: of sizes, glyph_str]
          Descriptions,  \* [id, size] of the faces asked for
          Strings, MapWidth, Radii, Offsets,
          Question, Space, Invalid   \* code points

TestFont == 0
TestDescription == [id |-> TestFont, size |-> 16]

(* Assumed of the constants where they get their values *)
FontsAssumption ==
  /\ \A files \in Libraries : TestFont \notin DOMAIN files
  /\ MapWidth \in Nat /\ Radii \subseteq Nat /\ Offsets \subseteq Int
  /\ \A d \in Descriptions : d.id \in Nat /\ d.size \in Nat

VARIABLES manager,  \* [files, added: names, faces: face id -> face, default: description]
          cache,    \* [glyphs: hash id -> glyph, order: of the hash ids of those with a fragment, the oldest
                    \*  first, spoilt: auxiliary, the glyphs rendered again]
          drawn     \* auxiliary: the string last drawn or measured, [desc, string, painted, glyphs, end], since the
                    \*  manager changed

vars == <<manager, cache, drawn>>

None == [none |-> TRUE]
Distance(a, b) == IF a > b THEN a - b ELSE b - a

-----------------------------------------------------------------------------
(* A font of bitmaps (TBBFRenderer) *)

(* The first of the sizes that are nearest *)
SizeNode(nodes, size) ==
  nodes[Min({k \in DOMAIN nodes :
               \A j \in DOMAIN nodes : Distance(size, nodes[k].size) <= Distance(size, nodes[j].size)})]

(* The next run of inked columns, unless it goes on to the end *)
FindNext(columns, x) ==
  LET inked == {i \in x .. Len(columns) : columns[i]}
      clear == {i \in Min(inked) .. Len(columns) : ~columns[i]}
  IN  IF inked = {} \/ clear = {} THEN None ELSE [x |-> Min(inked), w |-> Min(clear) - Min(inked)]

(* A character that is there already keeps its run. *)
FindGlyphs(columns, glyph_str) ==
  LET Found(s, cp, next) ==
        IF next = None THEN [s EXCEPT !.x = Len(columns) + 1]
        ELSE [x |-> next.x + next.w + 1,
              table |-> [c \in DOMAIN s.table \cup {cp} |-> IF c \in DOMAIN s.table THEN s.table[c] ELSE next]]
  IN  FoldLeft(LAMBDA s, cp : Found(s, cp, FindNext(columns, s.x)), [x |-> 1, table |-> [c \in {} |-> None]], glyph_str).table

(* A face, of a file that is no picture too: its renderer is external and gives
   gray glyphs of the widths of the runs. *)
Load(file, desc) ==
  LET node == SizeNode(file.nodes, desc.size)
  IN  [desc |-> desc, test |-> FALSE, node |-> node, gray |-> file.gray, rgb |-> file.rgb,
       table |-> FindGlyphs(node.columns, file.glyph_str), blur |-> 0, back |-> None]
TestFace(desc) ==
  [desc |-> desc, test |-> TRUE, node |-> None, gray |-> FALSE, rgb |-> FALSE,
   table |-> [c \in {} |-> None], blur |-> 0, back |-> None]

(* The character that is shown for one *)
Shown(face, cp) ==
  IF cp \in DOMAIN face.table THEN cp ELSE IF Question \in DOMAIN face.table THEN Question ELSE Invalid

GetGlyphMetrics(face, cp) ==
  [advance |-> IF cp = Space THEN face.node.space_advance
               ELSE IF Shown(face, cp) = Invalid THEN 0
               ELSE face.table[Shown(face, cp)].w + face.node.advance_delta,
   x |-> face.node.x_ofs, y |-> -face.node.ascent]

-----------------------------------------------------------------------------
(* The glyph cache *)

(* Mutant: faces of a font share their glyphs *)
HashOfFont(desc, cp) == cp * 31 + desc.id
HashOf(desc, cp) == cp * 31 + desc.id + desc.size
GetHashId(face, cp) == HashOf(face.desc, cp)

Latest(order, hash) == Append(SelectSeq(order, LAMBDA h : h # hash), hash)
Used(c, order) == FoldLeft(LAMBDA n, h : n + c.glyphs[h].frag.w, 0, order)
Drop(c, hashes) ==
  [c EXCEPT !.glyphs = [h \in DOMAIN @ |-> IF h \in hashes THEN [@[h] EXCEPT !.frag = None] ELSE @[h]],
            !.order = SelectSeq(@, LAMBDA h : h \notin hashes)]

(* For a fragment that is no wider than the map the first that is wide enough
   is dropped, or else as many as it takes, the oldest first. *)
CreateFragment(c, hash, frag) ==
  LET wide == {k \in DOMAIN c.order : k <= 20 /\ c.glyphs[c.order[k]].frag.w >= frag.w}
      Room(n) == Used(c, SubSeq(c.order, n + 1, Len(c.order))) + frag.w <= MapWidth
      dropped == IF Room(0) THEN {}
                 ELSE IF wide # {} THEN {c.order[Min(wide)]}
                 ELSE ToSet(SubSeq(c.order, 1, Min({n \in 1 .. Len(c.order) : Room(n)})))
      room == Drop(c, dropped)
  IN  IF frag.w > MapWidth THEN c
      ELSE [room EXCEPT !.glyphs[hash].frag = frag, !.order = Append(@, hash)]

(* FontEffect.Render: for gray glyphs, whose place it changes too *)
Blurred(face, frag) ==
  IF face.gray /\ face.blur > 0 THEN [frag EXCEPT !.w = @ + 2 * face.blur, !.blur = face.blur] ELSE frag

RenderGlyph(c, face, hash) ==
  LET glyph == c.glyphs[hash]
      cp == Shown(face, glyph.cp)
      frag == Blurred(face, [node |-> face.node, x |-> face.table[cp].x, w |-> face.table[cp].w, blur |-> 0])
      placed == [c EXCEPT !.glyphs[hash].x = @ - frag.blur, !.glyphs[hash].y = @ - frag.blur,
                          !.spoilt = IF glyph.x # face.node.x_ofs THEN @ \cup {hash} ELSE @]
  IN  IF glyph.cp = Space \/ cp = Invalid THEN c ELSE CreateFragment(placed, hash, frag)

CreateAndCacheGlyph(c, face, cp) ==
  LET metrics == GetGlyphMetrics(face, cp)
      glyph == [cp |-> cp, advance |-> metrics.advance, x |-> metrics.x, y |-> metrics.y, frag |-> None]
  IN  [c EXCEPT !.glyphs = [h \in DOMAIN @ \cup {GetHashId(face, cp)} |-> IF h = GetHashId(face, cp) THEN glyph ELSE @[h]]]

(* The glyph is then cache.glyphs[GetHashId(face, cp)]. *)
GetGlyph(c, face, cp, render) ==
  LET hash == GetHashId(face, cp)
      known == IF hash \in ToSet(c.order) THEN [c EXCEPT !.order = Latest(@, hash)]
               ELSE IF hash \in DOMAIN c.glyphs THEN c ELSE CreateAndCacheGlyph(c, face, cp)
  IN  IF render /\ known.glyphs[hash].frag = None THEN RenderGlyph(known, face, hash) ELSE known

-----------------------------------------------------------------------------
(* Strings *)

(* s is the cache, the pen, and what was drawn. *)
TestAdvance(face) == face.desc.size \div 3 + 1
DrawTest(s, face, color) ==
  [s EXCEPT !.glyphs = Append(@, [x |-> s.pen, y |-> 0, frag |-> None, color |-> color]), !.pen = @ + TestAdvance(face)]
DrawGlyph(s, face, glyph, dy, color) ==
  [s EXCEPT !.pen = @ + glyph.advance,
            !.glyphs = IF glyph.frag = None THEN @
                       ELSE Append(@, [x |-> s.pen + glyph.x, y |-> glyph.y + face.node.ascent + dy,
                                       frag |-> glyph.frag, color |-> IF face.rgb THEN "own" ELSE color])]
DrawOne(s, face, cp, dy, color) ==
  LET got == [s EXCEPT !.cache = GetGlyph(@, face, cp, TRUE)]
  IN  IF cp = Invalid THEN s
      ELSE IF face.test THEN DrawTest(s, face, color)
      ELSE DrawGlyph(got, face, got.cache.glyphs[GetHashId(face, cp)], dy, color)
DrawRow(s, face, string, dy, color) == FoldLeft(LAMBDA r, cp : DrawOne(r, face, cp, dy, color), s, string)

(* The font behind is drawn first, with its own color. *)
DrawStringWith(c, faces, face, string) ==
  LET start == [cache |-> c, pen |-> 0, glyphs |-> <<>>]
      behind == DrawRow([start EXCEPT !.pen = face.back.x], faces[face.back.face], string, 0, "shadow")
  IN  DrawRow(IF face.back = None THEN start ELSE [behind EXCEPT !.pen = 0], face, string, 0, "text")

(* GetStringWidth: the cache and the width *)
MeasureOne(m, face, cp) ==
  LET got == GetGlyph(m.cache, face, cp, FALSE)
  IN  IF cp = Invalid THEN m
      ELSE IF face.test THEN [m EXCEPT !.width = @ + TestAdvance(face)]
      ELSE [cache |-> got, width |-> m.width + got.glyphs[GetHashId(face, cp)].advance]
GetStringWidthWith(c, face, string) ==
  FoldLeft(LAMBDA m, cp : MeasureOne(m, face, cp), [cache |-> c, width |-> 0], string)

-----------------------------------------------------------------------------
(* The manager *)

font_face_id(desc) == desc.id + desc.size

GetFontFace(desc) ==
  LET known == DOMAIN manager.faces
      id == IF font_face_id(desc) \in known THEN font_face_id(desc)
            ELSE IF font_face_id(manager.default) \in known THEN font_face_id(manager.default)
            ELSE font_face_id(TestDescription)
  IN  manager.faces[id]

AddFontInfo(id) ==
  /\ id \notin manager.added
  /\ manager' = [manager EXCEPT !.added = @ \cup {id}]
  /\ drawn' = None /\ UNCHANGED cache

CreateFontFace(desc) ==
  LET face == IF desc.id = TestFont THEN TestFace(desc) ELSE Load(manager.files[desc.id], desc)
  IN  /\ font_face_id(desc) \notin DOMAIN manager.faces
      /\ desc.id # TestFont => desc.id \in manager.added /\ manager.files[desc.id].loads
      /\ manager' = [manager EXCEPT !.faces =
                       [id \in DOMAIN @ \cup {font_face_id(desc)} |-> IF id = font_face_id(desc) THEN face ELSE @[id]]]
      /\ drawn' = None /\ UNCHANGED cache

set_default_font_description(desc) ==
  /\ manager.default # desc /\ manager' = [manager EXCEPT !.default = desc]
  /\ drawn' = None /\ UNCHANGED cache

SetBackgroundFont(id, behind, x) ==
  /\ id # behind /\ manager.faces[id].back = None /\ manager.faces[behind].back = None
  /\ \A other \in DOMAIN manager.faces : manager.faces[other].back = None
  /\ manager' = [manager EXCEPT !.faces[id].back = [face |-> behind, x |-> x]]
  /\ drawn' = None /\ UNCHANGED cache

SetBlurRadius(id, radius) ==
  /\ manager.faces[id].gray /\ manager.faces[id].blur # radius
  /\ manager' = [manager EXCEPT !.faces[id].blur = radius]
  /\ drawn' = None /\ UNCHANGED cache

RenderGlyphs(desc, string) ==
  /\ ~GetFontFace(desc).test /\ Invalid \notin ToSet(string)
  /\ cache' = FoldLeft(LAMBDA c, cp : GetGlyph(c, GetFontFace(desc), cp, TRUE), cache, string)
  /\ UNCHANGED <<manager, drawn>>

GetStringWidth(desc, string) ==
  LET measured == GetStringWidthWith(cache, GetFontFace(desc), string)
  IN  /\ cache' = measured.cache
      /\ drawn' = [desc |-> desc, string |-> string, painted |-> FALSE, glyphs |-> <<>>, end |-> measured.width]
      /\ UNCHANGED manager

DrawString(desc, string) ==
  LET after == DrawStringWith(cache, manager.faces, GetFontFace(desc), string)
  IN  /\ cache' = after.cache
      /\ drawn' = [desc |-> desc, string |-> string, painted |-> TRUE, glyphs |-> after.glyphs, end |-> after.pen]
      /\ UNCHANGED manager

InitFonts ==
  /\ manager \in {[files |-> files, added |-> {TestFont}, default |-> TestDescription,
                   faces |-> [id \in {font_face_id(TestDescription)} |-> TestFace(TestDescription)]] : files \in Libraries}
  /\ cache = [glyphs |-> [h \in {} |-> None], order |-> <<>>, spoilt |-> {}]
  /\ drawn = None

FontsNext ==
  \/ \E id \in DOMAIN manager.files : AddFontInfo(id)
  \/ \E desc \in Descriptions : CreateFontFace(desc) \/ set_default_font_description(desc)
  \/ \E id, behind \in DOMAIN manager.faces, x \in Offsets : SetBackgroundFont(id, behind, x)
  \/ \E id \in DOMAIN manager.faces, radius \in Radii : SetBlurRadius(id, radius)
  \/ \E desc \in Descriptions, string \in Strings :
       RenderGlyphs(desc, string) \/ GetStringWidth(desc, string) \/ DrawString(desc, string)

-----------------------------------------------------------------------------
(* Properties *)

(* The runs of inked columns of a picture but one at its end, and which of
   them shows a character: as many are before it as characters are. *)
Runs(columns) ==
  {[x |-> a, w |-> b - a] : a, b \in DOMAIN columns} \cap
  {run \in [x : DOMAIN columns, w : DOMAIN columns] :
     /\ \A i \in run.x .. run.x + run.w - 1 : columns[i]
     /\ ~columns[run.x + run.w] /\ (run.x > 1 => ~columns[run.x - 1])}
RunsOf(columns, glyph_str, cp) ==
  {run \in Runs(columns) :
     Cardinality({before \in Runs(columns) : before.x < run.x}) + 1 = Min({k \in DOMAIN glyph_str : glyph_str[k] = cp})}
FoundAsWritten(face) ==
  LET file == manager.files[face.desc.id]
  IN  \A cp \in ToSet(file.glyph_str) :
        RunsOf(face.node.columns, file.glyph_str, cp) = IF cp \in DOMAIN face.table THEN {face.table[cp]} ELSE {}

(* What a string is shown as in a face: how far each character goes, and what
   of the picture is where, but what is wider than the map. *)
Advance(face, cp) ==
  IF cp = Invalid THEN 0 ELSE IF face.test THEN TestAdvance(face) ELSE GetGlyphMetrics(face, cp).advance
PenAt(face, string, k) == FoldLeft(LAMBDA x, cp : x + Advance(face, cp), 0, SubSeq(string, 1, k - 1))
IsDrawn(face, cp) ==
  /\ cp # Invalid
  /\ face.test \/ (cp # Space /\ Shown(face, cp) # Invalid /\ (face.gray \/ face.table[Shown(face, cp)].w <= MapWidth))
Row(face, string, from, color) ==
  LET Item(k) == [x |-> from + PenAt(face, string, k) + IF face.test THEN 0 ELSE face.node.x_ofs,
                  run |-> IF face.test THEN None ELSE face.table[Shown(face, string[k])],
                  color |-> IF face.rgb THEN "own" ELSE color]
      all == SelectSeq([k \in DOMAIN string |-> k], LAMBDA k : IsDrawn(face, string[k]))
  IN  [n \in DOMAIN all |-> Item(all[n])]
AsDrawn(glyph) ==
  IF glyph.frag = None THEN [x |-> glyph.x, run |-> None, color |-> glyph.color]
  ELSE [x |-> glyph.x + glyph.frag.blur, run |-> [x |-> glyph.frag.x, w |-> glyph.frag.w - 2 * glyph.frag.blur], color |-> glyph.color]

(* Strings are drawn with the glyphs of their face, whatever was dropped from
   the cache and drawn with other faces, each where those before it end, and
   are as wide as they were measured. *)
DrawnAsMeasured ==
  LET face == GetFontFace(drawn.desc)
      back == Row(manager.faces[face.back.face], drawn.string, face.back.x, "shadow")
      own == Row(face, drawn.string, 0, "text")
  IN  drawn # None =>
        /\ drawn.end = PenAt(face, drawn.string, Len(drawn.string) + 1)
        /\ drawn.painted /\ cache.spoilt = {} =>
             [k \in DOMAIN drawn.glyphs |-> AsDrawn(drawn.glyphs[k])] = IF face.back = None THEN own ELSE back \o own

(* The fragments of the cache have room, and are in its list once. *)
CacheAgrees ==
  /\ IsInjective(cache.order) /\ Used(cache, cache.order) <= MapWidth
  /\ ToSet(cache.order) = {h \in DOMAIN cache.glyphs : cache.glyphs[h].frag # None}

(* Glyphs stay where their face has them (violated: each time a blurred glyph
   is rendered it moves). *)
PlacesKept == cache.spoilt = {}

(* Faces have the glyphs of their picture, strings are drawn and measured with
   them, and the cache shows what it holds (font_face.cc, font_manager.cc). *)
FontsAgree ==
  (\A id \in DOMAIN manager.faces : manager.faces[id].test \/ FoundAsWritten(manager.faces[id]))
    /\ DrawnAsMeasured /\ CacheAgrees
=============================================================================
