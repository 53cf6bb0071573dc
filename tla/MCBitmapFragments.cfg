SPECIFICATION Spec
CONSTANTS
  glyphs = glyphs
  images = images
  skin = skin
  g1 = g1
  g2 = g2
  g3 = g3
  g4 = g4
  p1 = p1
  s1 = s1
  NULL = NULL
  Manager <- MCManager
  Cache = glyphs
  Skin = skin
  Fragment <- MCFragment
  ManagerOf <- MCManagerOf
  Size <- MCSize
  Dedicated <- MCNoTile
  DefaultSize <- MCDefaultSize
  MapsLimit <- MCMapsLimit
  MaxQuads = 2
  CheckLimit = 2
INVARIANTS
  MapsAgree
  BatchesAgree
  GlyphFits
