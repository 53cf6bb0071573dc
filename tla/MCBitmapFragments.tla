------------------------- MODULE MCBitmapFragments --------------------------
(***************************************************************************)
(* Instance for TLC: the glyph cache with a map of 4 x 4 and four glyphs,  *)
(* two of which share a row while the others leave little or no room for   *)
(* them; one image; one skin element, with a border in a map of 4 x 4, or  *)
(* tiled, which has a dedicated map.                                       *)
(***************************************************************************)
EXTENDS BitmapFragments, TLC

CONSTANTS glyphs, images, skin, g1, g2, g3, g4, p1, s1

MCManager == {glyphs, images, skin}
MCFragment == {g1, g2, g3, g4, p1, s1}
MCManagerOf == p1 :> images @@ s1 :> skin @@ [id \in {g1, g2, g3, g4} |-> glyphs]
Of(w, h) == [w |-> w, h |-> h]
MCSize == g1 :> Of(1, 2) @@ g2 :> Of(2, 1) @@ g3 :> Of(3, 2) @@ g4 :> Of(4, 3)
            @@ p1 :> Of(2, 1) @@ s1 :> Of(1, 2)
MCTileSize == s1 :> Of(3, 2) @@ MCSize
MCNoTile == {}
MCTile == {s1}
MCDefaultSize == glyphs :> Of(4, 4) @@ images :> Of(2, 1) @@ skin :> Of(4, 4)
MCMapsLimit == glyphs :> 1 @@ images :> 0 @@ skin :> 0
=============================================================================
