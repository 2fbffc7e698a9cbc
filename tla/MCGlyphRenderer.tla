--------------------------- MODULE MCGlyphRenderer ---------------------------
(***************************************************************************)
(* Two cells, one glyph in any two of two colours, over three frames.      *)
(***************************************************************************)
EXTENDS GlyphRenderer

(* The pixel of the example: the glyph in the top byte, the two colours     *)
(* laid over each other below it, so that swapping them shows the same.     *)
MCPixel(glyph, fg, bg) == <<glyph, IF fg > bg THEN fg ELSE bg>>
=============================================================================
