------------------------- MODULE GlyphRendererProofs -------------------------
(***************************************************************************)
(* For any number of cells, glyphs, colours and frames: what the tracker   *)
(* takes as seen is on the screen, frames end with the right picture as    *)
(* long as there is a tracker, the summary adds up, and main runs out of   *)
(* things to do.  The proof uses of the two tables nothing but what        *)
(* LossyStore and ChangeDetector promise.                                  *)
(***************************************************************************)
EXTENDS GlyphRenderer, TLAPS

InLoop   == {"cells", "lookup", "store", "blit"}
Drawing  == {"lookup", "store", "blit"}

(* Where the loop is.                                                       *)
LoopInBounds ==
  /\ pc \in {"start", "artifacts configured"} => frame = 0
  /\ pc \in InLoop => frame > 0 /\ cell > 0
  /\ pc \in Drawing => cell \in Cells
  /\ pc = "frame" /\ frame > 0 => cell = CellCount + 1

(* The store holds pictures of what they are stored under, and so does the  *)
(* block that is about to be stored or drawn.                               *)
PicturesAreRight ==
  /\ \A l \in Look : content[l] \in {NULL, rasterize_glyph(l)}
  /\ pc \in {"store", "blit"} => block = rasterize_glyph(cells[cell])

(* The cell being drawn is one the tracker has just seen.                   *)
DrawingWhatIsSeen ==
  pc \in Drawing => observed[CellId(cell)] = CellState(cell, cells[cell])

(* The cells before the current one show their look already.                *)
PassedCellsAreShown ==
  /\ pc \in InLoop /\ trackerReady =>
       \A c \in Cells : c < cell => screen[c] = rasterize_glyph(cells[c])
  /\ FramesShowTheCells

IInv ==
  /\ TypeOK
  /\ LoopInBounds
  /\ PicturesAreRight
  /\ DrawingWhatIsSeen
  /\ WhatIsSeenIsShown
  /\ PassedCellsAreShown

-----------------------------------------------------------------------------
(* A look is its own key in the cache.                                      *)
LEMMA LookFields ==
  ASSUME NEW l \in Look
  PROVE  /\ GlyphKey(l) = l
         /\ Len(l) = 3
  BY DEF Look, GlyphKey

(* Identifiers and states tell cells and looks apart.                       *)
LEMMA StatesDiffer ==
  ASSUME NEW c \in Cells, NEW k \in Look, NEW l \in Look,
         CellState(c, k) = CellState(c, l)
  PROVE  k = l
  BY DEF CellState, Look

LEMMA IdsDiffer ==
  ASSUME NEW c \in Cells, NEW d \in Cells, CellId(c) = CellId(d)
  PROVE  c = d
  BY DEF CellId

(* The checks of the renderer are never refused by a tracker in place.      *)
LEMMA ChecksAreInOrder ==
  ASSUME trackerReady, NEW c \in Cells, NEW l \in Look
  PROVE  Tracker!Refusal(CellId(c), CellState(c, l), TRUE) = "OK"
  BY RendererAssumption DEF Tracker!Refusal, CellId, CellState

(* What a check leaves in the tracker.                                      *)
LEMMA CheckEffect ==
  ASSUME NEW c \in Cells, NEW l \in Look,
         Tracker!Check(CellId(c), CellState(c, l), TRUE)
  PROVE  /\ trackerReady' = trackerReady
         /\ \/ /\ checked'.rc # "OK" /\ ~trackerReady
               /\ observed' = observed
            \/ /\ checked'.rc = "OK" /\ checked'.changed = 0
               /\ observed[CellId(c)] = CellState(c, l)
               /\ observed' = observed
            \/ /\ checked'.rc = "OK" /\ checked'.changed = 1
               /\ observed'[CellId(c)] = CellState(c, l)
               /\ \A d \in Cells \ {c} :
                    observed'[CellId(d)] \in {NULL, observed[CellId(d)]}
<1>1. CASE Tracker!Refusal(CellId(c), CellState(c, l), TRUE) # "OK"
  <2>1. ~trackerReady
    BY <1>1, ChecksAreInOrder
  <2>2. /\ checked'.rc # "OK"
        /\ trackerReady' = trackerReady /\ observed' = observed
    BY <1>1 DEF Tracker!Check, Tracker!Refuse, Tracker!Reply, Tracker!Refusal,
                Tracker!Unchanged, Tracker!Changed
  <2>. QED  BY <2>1, <2>2
<1>2. CASE Tracker!Refusal(CellId(c), CellState(c, l), TRUE) = "OK"
  <2>1. CASE Tracker!Unchanged(CellId(c), CellState(c, l))
    BY <2>1 DEF Tracker!Unchanged, Tracker!Reply
  <2>2. CASE Tracker!Changed(CellId(c), CellState(c, l))
    <3>1. CellId(c) \in {CellId(d) : d \in Cells}
      OBVIOUS
    <3>2. observed'[CellId(c)] = CellState(c, l)
      BY <2>2, <3>1 DEF Tracker!Changed
    <3>3. ASSUME NEW d \in Cells \ {c}
          PROVE  observed'[CellId(d)] \in {NULL, observed[CellId(d)]}
      <4>1. CellId(d) # CellId(c) /\ CellId(d) \in {CellId(e) : e \in Cells}
        BY IdsDiffer
      <4>. QED  BY <2>2, <4>1 DEF Tracker!Changed
    <3>. QED  BY <2>2, <3>2, <3>3 DEF Tracker!Changed, Tracker!Reply
  <2>. QED  BY <1>2, <2>1, <2>2 DEF Tracker!Check
<1>. QED  BY <1>1, <1>2

(* What a lookup answers.                                                   *)
LEMMA LookupEffect ==
  ASSUME NEW l \in Look, Artifacts!Lookup(l, 1)
  PROVE  /\ storeReady' = storeReady /\ content' = content
         /\ answered'.rc = "OK" => content[l] # NULL /\ answered'.value = content[l]
<1>1. CASE /\ answered' = IF content[l] = NULL
                            THEN Artifacts!Reply("lookup", "NOT_FOUND", NULL, 0)
                          ELSE IF 1 < Len(content[l])
                            THEN Artifacts!Reply("lookup", "SIZE", NULL, Len(content[l]))
                          ELSE Artifacts!Reply("lookup", "OK", content[l], Len(content[l]))
           /\ UNCHANGED <<storeReady, content>>
  <2>1. CASE content[l] = NULL
    BY <1>1, <2>1 DEF Artifacts!Reply
  <2>2. CASE content[l] # NULL /\ 1 < Len(content[l])
    BY <1>1, <2>2 DEF Artifacts!Reply
  <2>3. CASE content[l] # NULL /\ ~(1 < Len(content[l]))
    BY <1>1, <2>3 DEF Artifacts!Reply
  <2>. QED  BY <2>1, <2>2, <2>3
<1>2. CASE \E rc \in {"INIT", "INVALID", "SIZE"} : Artifacts!Refuse("lookup", rc)
  BY <1>2 DEF Artifacts!Refuse, Artifacts!Reply
<1>3. Artifacts!KeyRefusal(l) \in {"OK", "INIT", "INVALID", "SIZE"}
  BY DEF Artifacts!KeyRefusal
<1>. QED  BY <1>1, <1>2, <1>3 DEF Artifacts!Lookup

(* What a store leaves in the cache.                                        *)
LEMMA StoreEffect ==
  ASSUME NEW l \in Look, NEW b \in Blocks, Artifacts!Store(l, b),
         content \in [Look -> Blocks \cup {NULL}]
  PROVE  /\ storeReady' = storeReady
         /\ content' \in [Look -> Blocks \cup {NULL}]
         /\ \A k \in Look : content'[k] \in {NULL, content[k]} \/ (k = l /\ content'[k] = b)
<1>1. CASE Artifacts!Remember(l, b)
  BY <1>1 DEF Artifacts!Remember
<1>2. CASE \E rc \in {"INIT", "INVALID", "SIZE"} : Artifacts!Refuse("store", rc)
  BY <1>2 DEF Artifacts!Refuse
<1>3. Artifacts!KeyRefusal(l) \in {"OK", "INIT", "INVALID", "SIZE"}
  BY DEF Artifacts!KeyRefusal
<1>. QED  BY <1>1, <1>2, <1>3 DEF Artifacts!Store

-----------------------------------------------------------------------------
LEMMA InitInv == Init => IInv
<1> SUFFICES ASSUME Init PROVE IInv
  OBVIOUS
<1>1. \A c \in Cells : observed[CellId(c)] = NULL
  BY DEF Init, Tracker!Init
<1>2. TypeOK
  <2>1. content \in [Look -> Blocks \cup {NULL}]
    BY DEF Init, Artifacts!Init
  <2>2. cells \in [Cells -> Look] /\ screen \in [Cells -> Blocks \cup {NULL}]
    BY DEF Init
  <2>3. frame \in 0 .. Frames /\ cell \in 0 .. CellCount + 1
    BY RendererAssumption DEF Init
  <2>4. trackerReady \in BOOLEAN /\ storeReady \in BOOLEAN
    BY DEF Init, Tracker!Init, Artifacts!Init
  <2>. QED  BY <1>1, <2>1, <2>2, <2>3, <2>4 DEF Init, TypeOK, Pcs
<1>3. LoopInBounds
  BY DEF Init, LoopInBounds, InLoop, Drawing
<1>4. PicturesAreRight
  BY DEF Init, PicturesAreRight, Artifacts!Init
<1>5. DrawingWhatIsSeen
  BY DEF Init, DrawingWhatIsSeen, Drawing
<1>6. WhatIsSeenIsShown
  BY <1>1 DEF WhatIsSeenIsShown
<1>7. PassedCellsAreShown
  BY DEF Init, PassedCellsAreShown, FramesShowTheCells, InLoop
<1>. QED  BY <1>2, <1>3, <1>4, <1>5, <1>6, <1>7 DEF IInv

(* Getting ready: nothing has been seen, nothing drawn.                     *)
LEMMA SetUpInv ==
  ASSUME IInv, GiveUp \/ ConfigureArtifacts \/ ConfigureTracker
  PROVE  IInv'
<1> USE DEF IInv
<1>1. /\ pc' \in Pcs
      /\ pc' \notin InLoop
      /\ UNCHANGED <<frame, cell, cells, block, screen, work>>
      /\ frame = 0
      /\ observed' = observed
      /\ content' = content
      /\ trackerReady' \in BOOLEAN /\ storeReady' \in BOOLEAN
  BY DEF GiveUp, ConfigureArtifacts, ConfigureTracker, loop, tracker, store, TypeOK,
         LoopInBounds, InLoop, Pcs,
         Tracker!Configure, Tracker!Refuse, Artifacts!Configure, Artifacts!Refuse
<1>2. TypeOK'
  BY <1>1 DEF TypeOK, work
<1>3. LoopInBounds'
  BY <1>1 DEF LoopInBounds, InLoop, Drawing
<1>4. PicturesAreRight'
  BY <1>1 DEF PicturesAreRight, InLoop
<1>5. DrawingWhatIsSeen'
  BY <1>1 DEF DrawingWhatIsSeen, InLoop, Drawing
<1>6. WhatIsSeenIsShown'
  BY <1>1 DEF WhatIsSeenIsShown, BeingDrawn, GiveUp, ConfigureArtifacts, ConfigureTracker
<1>7. PassedCellsAreShown'
  BY <1>1 DEF PassedCellsAreShown, FramesShowTheCells
<1>. QED  BY <1>2, <1>3, <1>4, <1>5, <1>6, <1>7

(* Between frames.                                                          *)
LEMMA BeginFrameInv ==
  ASSUME IInv, BeginFrame
  PROVE  IInv'
<1> USE DEF IInv, BeginFrame, tracker, store, work
<1>1. cells' \in [Cells -> Look]
  BY DEF TypeOK
<1>2. TypeOK'
  BY <1>1, RendererAssumption DEF TypeOK, Pcs
<1>3. LoopInBounds'
  BY DEF LoopInBounds, TypeOK, InLoop, Drawing
<1>4. PicturesAreRight'
  BY DEF PicturesAreRight
<1>5. DrawingWhatIsSeen'
  BY DEF DrawingWhatIsSeen, Drawing
<1>6. WhatIsSeenIsShown'
  BY DEF WhatIsSeenIsShown, BeingDrawn
<1>7. PassedCellsAreShown'
  BY DEF PassedCellsAreShown, FramesShowTheCells, Cells
<1>. QED  BY <1>2, <1>3, <1>4, <1>5, <1>6, <1>7

LEMMA EndFrameInv ==
  ASSUME IInv, EndFrame
  PROVE  IInv'
<1> USE DEF IInv, EndFrame, tracker, store, work
<1>2. TypeOK'
  BY DEF TypeOK, Pcs
<1>3. LoopInBounds'
  BY RendererAssumption DEF LoopInBounds, TypeOK, InLoop, Drawing
<1>4. PicturesAreRight'
  BY DEF PicturesAreRight
<1>5. DrawingWhatIsSeen'
  BY DEF DrawingWhatIsSeen, Drawing
<1>6. WhatIsSeenIsShown'
  BY DEF WhatIsSeenIsShown, BeingDrawn
<1>7. PassedCellsAreShown'
  BY RendererAssumption DEF PassedCellsAreShown, FramesShowTheCells, InLoop, Cells, TypeOK
<1>. QED  BY <1>2, <1>3, <1>4, <1>5, <1>6, <1>7

LEMMA FinishInv ==
  ASSUME IInv, Finish
  PROVE  IInv'
<1> USE DEF IInv, Finish, tracker, store, work
<1>2. TypeOK'
  BY DEF TypeOK, Pcs
<1>3. LoopInBounds'
  BY DEF LoopInBounds, InLoop, Drawing
<1>4. PicturesAreRight'
  BY DEF PicturesAreRight
<1>5. DrawingWhatIsSeen'
  BY DEF DrawingWhatIsSeen, Drawing
<1>6. WhatIsSeenIsShown'
  BY DEF WhatIsSeenIsShown, BeingDrawn
<1>7. PassedCellsAreShown'
  BY DEF PassedCellsAreShown, FramesShowTheCells, InLoop
<1>. QED  BY <1>2, <1>3, <1>4, <1>5, <1>6, <1>7

(* A cell is checked: seen from now on, and skipped only if it was shown    *)
(* already or there is no tracker.                                          *)
LEMMA CheckCellInv ==
  ASSUME IInv, CheckCell
  PROVE  IInv'
<1> USE DEF IInv
<1>1. /\ cell \in Cells
      /\ cells[cell] \in Look
      /\ UNCHANGED <<frame, cells, block, screen, storeReady, content,
                     cache_hits, rasterizations>>
  BY RendererAssumption DEF CheckCell, LoopInBounds, InLoop, TypeOK, Cells, store
<1>2. /\ trackerReady' = trackerReady
      /\ \/ /\ checked'.rc # "OK" /\ ~trackerReady
            /\ observed' = observed
         \/ /\ checked'.rc = "OK" /\ checked'.changed = 0
            /\ observed[CellId(cell)] = CellState(cell, cells[cell])
            /\ observed' = observed
         \/ /\ checked'.rc = "OK" /\ checked'.changed = 1
            /\ observed'[CellId(cell)] = CellState(cell, cells[cell])
            /\ \A d \in Cells \ {cell} :
                 observed'[CellId(d)] \in {NULL, observed[CellId(d)]}
  BY <1>1, CheckEffect DEF CheckCell
<1>3. CASE ToSkip(checked')
  <2>1. /\ pc = "cells" /\ pc' = pc
        /\ cell' = cell + 1
        /\ skipped_state' = skipped_state + 1
        /\ observed' = observed
        /\ trackerReady => observed[CellId(cell)] = CellState(cell, cells[cell])
    BY <1>2, <1>3 DEF CheckCell, ToSkip
  <2>2. TypeOK'
    BY <1>1, <1>2, <2>1, RendererAssumption DEF TypeOK, Cells
  <2>3. LoopInBounds'
    BY <1>1, <2>1 DEF LoopInBounds, InLoop, Drawing, Cells
  <2>4. PicturesAreRight'
    BY <1>1, <2>1 DEF PicturesAreRight
  <2>5. DrawingWhatIsSeen'
    BY <2>1 DEF DrawingWhatIsSeen, Drawing
  <2>6. WhatIsSeenIsShown'
    BY <1>1, <2>1 DEF WhatIsSeenIsShown, BeingDrawn
  <2>7. PassedCellsAreShown'
    <3>1. trackerReady => screen[cell] = rasterize_glyph(cells[cell])
      <4> SUFFICES ASSUME trackerReady
                   PROVE  screen[cell] = rasterize_glyph(cells[cell])
        OBVIOUS
      <4>1. observed[CellId(cell)] # NULL
        BY <1>1, <2>1, RendererAssumption
      <4>2. PICK l \in Look : /\ observed[CellId(cell)] = CellState(cell, l)
                              /\ screen[cell] = rasterize_glyph(l)
        BY <1>1, <2>1, <4>1 DEF WhatIsSeenIsShown, BeingDrawn
      <4>3. l = cells[cell]
        BY <1>1, <2>1, <4>2, StatesDiffer
      <4>. QED  BY <4>2, <4>3
    <3>2. \A c \in Cells : c < cell' => c < cell \/ c = cell
      BY <1>1, <2>1 DEF Cells
    <3>. QED  BY <1>1, <1>2, <2>1, <3>1, <3>2
              DEF PassedCellsAreShown, FramesShowTheCells, InLoop
  <2>. QED  BY <2>2, <2>3, <2>4, <2>5, <2>6, <2>7
<1>4. CASE ~ToSkip(checked')
  <2>1. /\ pc = "cells" /\ pc' = "lookup"
        /\ UNCHANGED <<cell, skipped_state>>
        /\ observed'[CellId(cell)] = CellState(cell, cells[cell])
        /\ \A d \in Cells \ {cell} :
             observed'[CellId(d)] \in {NULL, observed[CellId(d)]}
    BY <1>2, <1>4 DEF CheckCell, ToSkip
  <2>2. TypeOK'
    <3>1. \A c \in Cells : observed'[CellId(c)] \in {NULL} \cup {CellState(c, l) : l \in Look}
      BY <1>1, <2>1 DEF TypeOK
    <3>. QED  BY <1>1, <1>2, <2>1, <3>1 DEF TypeOK, Pcs
  <2>3. LoopInBounds'
    BY <1>1, <2>1 DEF LoopInBounds, InLoop, Drawing
  <2>4. PicturesAreRight'
    BY <1>1, <2>1 DEF PicturesAreRight
  <2>5. DrawingWhatIsSeen'
    BY <1>1, <2>1 DEF DrawingWhatIsSeen
  <2>6. WhatIsSeenIsShown'
    <3> SUFFICES ASSUME NEW c \in Cells, observed'[CellId(c)] # NULL, ~BeingDrawn(c)'
                 PROVE  \E l \in Look : /\ observed'[CellId(c)] = CellState(c, l)
                                        /\ screen'[c] = rasterize_glyph(l)
      BY DEF WhatIsSeenIsShown
    <3>1. c # cell
      BY <2>1 DEF BeingDrawn
    <3>. QED  BY <1>1, <2>1, <3>1 DEF WhatIsSeenIsShown, BeingDrawn
  <2>7. PassedCellsAreShown'
    BY <1>1, <1>2, <2>1 DEF PassedCellsAreShown, FramesShowTheCells, InLoop
  <2>. QED  BY <2>2, <2>3, <2>4, <2>5, <2>6, <2>7
<1>. QED  BY <1>3, <1>4

(* The block becomes the picture of the cell, from either source.           *)
LEMMA LookupGlyphInv ==
  ASSUME IInv, LookupGlyph
  PROVE  IInv'
<1> USE DEF IInv
<1>1. /\ cell \in Cells
      /\ cells[cell] \in Look
      /\ pc = "lookup"
      /\ UNCHANGED <<frame, cell, cells, screen, trackerReady, observed, skipped_state>>
  BY DEF LookupGlyph, LoopInBounds, Drawing, TypeOK, tracker
<1>2. /\ storeReady' = storeReady /\ content' = content
      /\ answered'.rc = "OK" =>
           content[cells[cell]] # NULL /\ answered'.value = content[cells[cell]]
  BY <1>1, LookFields, LookupEffect DEF LookupGlyph
<1>3. block' = rasterize_glyph(cells[cell]) /\ pc' \in {"store", "blit"}
  <2>1. CASE answered'.rc = "OK"
    <3>1. content[cells[cell]] = rasterize_glyph(cells[cell])
      BY <1>1, <1>2, <2>1 DEF PicturesAreRight
    <3>. QED  BY <1>2, <2>1, <3>1 DEF LookupGlyph
  <2>2. CASE answered'.rc # "OK"
    BY <2>2 DEF LookupGlyph
  <2>. QED  BY <2>1, <2>2
<1>4. {cache_hits', rasterizations'} \subseteq Nat
  BY DEF LookupGlyph, TypeOK
<1>5. TypeOK'
  BY <1>1, <1>2, <1>3, <1>4 DEF TypeOK, Pcs, Blocks
<1>6. LoopInBounds'
  BY <1>1, <1>3 DEF LoopInBounds, InLoop, Drawing
<1>7. PicturesAreRight'
  BY <1>1, <1>2, <1>3 DEF PicturesAreRight
<1>8. DrawingWhatIsSeen'
  BY <1>1, <1>3 DEF DrawingWhatIsSeen, Drawing
<1>9. WhatIsSeenIsShown'
  BY <1>1, <1>3 DEF WhatIsSeenIsShown, BeingDrawn
<1>10. PassedCellsAreShown'
  BY <1>1, <1>3 DEF PassedCellsAreShown, FramesShowTheCells, InLoop
<1>. QED  BY <1>5, <1>6, <1>7, <1>8, <1>9, <1>10

LEMMA StoreGlyphInv ==
  ASSUME IInv, StoreGlyph
  PROVE  IInv'
<1> USE DEF IInv
<1>1. /\ cell \in Cells
      /\ cells[cell] \in Look
      /\ pc = "store" /\ pc' = "blit"
      /\ block = rasterize_glyph(cells[cell])
      /\ UNCHANGED <<frame, cell, cells, block, screen, trackerReady, observed,
                     skipped_state, cache_hits, rasterizations>>
  BY DEF StoreGlyph, LoopInBounds, Drawing, TypeOK, tracker, work, PicturesAreRight
<1>2. block \in Blocks
  BY <1>1 DEF Blocks
<1>3. /\ storeReady' = storeReady
      /\ content' \in [Look -> Blocks \cup {NULL}]
      /\ \A k \in Look : \/ content'[k] \in {NULL, content[k]}
                         \/ k = cells[cell] /\ content'[k] = block
  BY <1>1, <1>2, LookFields, StoreEffect DEF StoreGlyph, TypeOK
<1>5. TypeOK'
  BY <1>1, <1>3 DEF TypeOK, Pcs
<1>6. LoopInBounds'
  BY <1>1 DEF LoopInBounds, InLoop, Drawing
<1>7. PicturesAreRight'
  BY <1>1, <1>3 DEF PicturesAreRight
<1>8. DrawingWhatIsSeen'
  BY <1>1 DEF DrawingWhatIsSeen, Drawing
<1>9. WhatIsSeenIsShown'
  BY <1>1 DEF WhatIsSeenIsShown, BeingDrawn
<1>10. PassedCellsAreShown'
  BY <1>1 DEF PassedCellsAreShown, FramesShowTheCells, InLoop
<1>. QED  BY <1>5, <1>6, <1>7, <1>8, <1>9, <1>10

(* What the tracker saw three calls ago reaches the screen.                 *)
LEMMA BlitBlockInv ==
  ASSUME IInv, BlitBlock
  PROVE  IInv'
<1> USE DEF IInv
<1>1. /\ cell \in Cells
      /\ cells[cell] \in Look
      /\ pc = "blit" /\ pc' = "cells"
      /\ cell' = cell + 1
      /\ screen' = [screen EXCEPT ![cell] = rasterize_glyph(cells[cell])]
      /\ observed[CellId(cell)] = CellState(cell, cells[cell])
      /\ UNCHANGED <<frame, cells, block, trackerReady, observed, storeReady, content,
                     skipped_state, cache_hits, rasterizations>>
  BY DEF BlitBlock, LoopInBounds, Drawing, TypeOK, tracker, store, work,
         PicturesAreRight, DrawingWhatIsSeen
<1>2. /\ screen' \in [Cells -> Blocks \cup {NULL}]
      /\ screen'[cell] = rasterize_glyph(cells[cell])
      /\ \A c \in Cells \ {cell} : screen'[c] = screen[c]
  BY <1>1 DEF TypeOK, Blocks
<1>5. TypeOK'
  BY <1>1, <1>2, RendererAssumption DEF TypeOK, Pcs, Cells
<1>6. LoopInBounds'
  BY <1>1 DEF LoopInBounds, InLoop, Drawing, Cells
<1>7. PicturesAreRight'
  BY <1>1 DEF PicturesAreRight
<1>8. DrawingWhatIsSeen'
  BY <1>1 DEF DrawingWhatIsSeen, Drawing
<1>9. WhatIsSeenIsShown'
  <2> SUFFICES ASSUME NEW c \in Cells, observed'[CellId(c)] # NULL
               PROVE  \E l \in Look : /\ observed'[CellId(c)] = CellState(c, l)
                                      /\ screen'[c] = rasterize_glyph(l)
    BY DEF WhatIsSeenIsShown
  <2>1. CASE c = cell
    BY <1>1, <1>2, <2>1
  <2>2. CASE c # cell
    BY <1>1, <1>2, <2>2 DEF WhatIsSeenIsShown, BeingDrawn
  <2>. QED  BY <2>1, <2>2
<1>10. PassedCellsAreShown'
  <2>1. \A c \in Cells : c < cell' => c < cell \/ c = cell
    BY <1>1 DEF Cells
  <2>2. ASSUME trackerReady, NEW c \in Cells, c < cell'
        PROVE  screen'[c] = rasterize_glyph(cells[c])
    <3>1. CASE c = cell
      BY <1>2, <3>1
    <3>2. CASE c # cell
      BY <1>1, <1>2, <2>1, <2>2, <3>2 DEF PassedCellsAreShown, InLoop
    <3>. QED  BY <3>1, <3>2
  <2>. QED  BY <1>1, <2>2 DEF PassedCellsAreShown, FramesShowTheCells
<1>. QED  BY <1>5, <1>6, <1>7, <1>8, <1>9, <1>10

LEMMA StutterInv ==
  ASSUME IInv, UNCHANGED vars
  PROVE  IInv'
BY DEF IInv, vars, loop, tracker, store, work, TypeOK, LoopInBounds, PicturesAreRight,
       DrawingWhatIsSeen, WhatIsSeenIsShown, BeingDrawn, PassedCellsAreShown,
       FramesShowTheCells

LEMMA NextInv == IInv /\ [Next]_vars => IInv'
BY SetUpInv, BeginFrameInv, EndFrameInv, FinishInv, CheckCellInv, LookupGlyphInv,
   StoreGlyphInv, BlitBlockInv, StutterInv DEF Next, Exited

(* Types.                                                                   *)
THEOREM RendererTypes == Spec => []TypeOK
<1>1. IInv => TypeOK
  BY DEF IInv
<1>. QED  BY <1>1, InitInv, NextInv, PTL DEF Spec

(* What the tracker takes as seen is on the screen, but for the one cell    *)
(* between its check and its drawing.                                       *)
THEOREM SeenStatesAreShown == Spec => []WhatIsSeenIsShown
<1>1. IInv => WhatIsSeenIsShown
  BY DEF IInv
<1>. QED  BY <1>1, InitInv, NextInv, PTL DEF Spec

(* As long as there is a tracker, frames end with every cell up to date.    *)
THEOREM FramesEndUpToDate == Spec => []FramesShowTheCells
<1>1. IInv => FramesShowTheCells
  BY DEF IInv, PassedCellsAreShown
<1>. QED  BY <1>1, InitInv, NextInv, PTL DEF Spec

-----------------------------------------------------------------------------
(* The summary.  A cell being stored or drawn has been counted already.     *)
Accounted == skipped_state + cache_hits + rasterizations

WorkSoFar ==
  /\ frame = 0 => Accounted = 0
  /\ pc \in InLoop \cup {"frame"} /\ frame > 0 =>
       Accounted = (frame - 1) * CellCount + (cell - 1)
                     + (IF pc \in {"store", "blit"} THEN 1 ELSE 0)

LEMMA AnotherFrame ==
  ASSUME NEW f \in Nat, NEW n \in Nat, f > 0
  PROVE  (f - 1) * n + n = ((f + 1) - 1) * n
OBVIOUS

LEMMA Product ==
  ASSUME NEW f \in Nat, NEW n \in Nat
  PROVE  (f - 1) * n \in Int
OBVIOUS

LEMMA WorkStep ==
  ASSUME IInv, WorkSoFar, [Next]_vars
  PROVE  WorkSoFar'
<1> DEFINE done == (frame - 1) * CellCount
<1> USE DEF work, tracker, store
<1>1. /\ done \in Int /\ frame \in Nat /\ cell \in Nat /\ CellCount \in Nat
      /\ skipped_state \in Nat /\ cache_hits \in Nat /\ rasterizations \in Nat
  BY RendererAssumption, Product DEF IInv, TypeOK
<1>2. CASE BeginFrame
  <2>1. /\ frame' = frame + 1 /\ cell' = 1 /\ pc' = "cells"
        /\ Accounted' = Accounted
    BY <1>2 DEF BeginFrame, Accounted
  <2>2. CASE frame = 0
    <3>1. (frame' - 1) * CellCount = 0
      BY <1>1, <2>1, <2>2
    <3>. QED  BY <2>1, <2>2, <3>1 DEF WorkSoFar
  <2>3. CASE frame > 0
    <3>1. Accounted = done + (cell - 1) /\ cell = CellCount + 1
      BY <1>1, <1>2, <2>3 DEF WorkSoFar, BeginFrame, IInv, LoopInBounds
    <3>2. (frame' - 1) * CellCount = done + CellCount
      BY <1>1, <2>1, <2>3, AnotherFrame
    <3> HIDE DEF done
    <3>3. Accounted' = (frame' - 1) * CellCount
      BY <1>1, <2>1, <3>1, <3>2
    <3>. QED  BY <1>1, <2>1, <3>2, <3>3 DEF WorkSoFar
  <2>. QED  BY <1>1, <2>2, <2>3
<1>3. CASE ~BeginFrame
  <2>1. frame' = frame /\ (frame' - 1) * CellCount = done
    BY <1>3 DEF Next, GiveUp, ConfigureArtifacts, ConfigureTracker, EndFrame, Finish,
                CheckCell, LookupGlyph, StoreGlyph, BlitBlock, Exited, vars, loop
  <2>2. /\ frame = 0 => Accounted = 0
        /\ pc \in InLoop \cup {"frame"} /\ frame > 0 =>
             Accounted = done + (cell - 1)
                           + (IF pc \in {"store", "blit"} THEN 1 ELSE 0)
    BY DEF WorkSoFar
  <2>3. pc \in InLoop => frame > 0
    BY DEF IInv, LoopInBounds
  <2> HIDE DEF done
  <2>4. CASE GiveUp \/ ConfigureArtifacts \/ ConfigureTracker
    <3>1. frame = 0 /\ Accounted' = Accounted
      BY <2>4 DEF GiveUp, ConfigureArtifacts, ConfigureTracker, IInv, LoopInBounds, Accounted
    <3>. QED  BY <2>1, <2>2, <3>1 DEF WorkSoFar
  <2>5. CASE EndFrame \/ Finish
    <3>1. UNCHANGED <<cell, skipped_state, cache_hits, rasterizations>>
      BY <2>5 DEF EndFrame, Finish
    <3>2. pc \in {"cells", "frame"} /\ pc' \in {"frame", "exit"}
      BY <2>5 DEF EndFrame, Finish
    <3>. QED  BY <2>1, <2>2, <3>1, <3>2 DEF WorkSoFar, Accounted, InLoop
  <2>6. CASE CheckCell
    <3>1. /\ pc = "cells" /\ UNCHANGED <<cache_hits, rasterizations>>
          /\ \/ skipped_state' = skipped_state + 1 /\ cell' = cell + 1 /\ pc' = "cells"
             \/ skipped_state' = skipped_state /\ cell' = cell /\ pc' = "lookup"
      BY <2>6 DEF CheckCell
    <3>. QED  BY <1>1, <2>1, <2>2, <2>3, <3>1 DEF WorkSoFar, Accounted, InLoop
  <2>7. CASE LookupGlyph
    <3>1. /\ pc = "lookup" /\ UNCHANGED <<cell, skipped_state>>
          /\ pc' \in {"store", "blit"}
          /\ \/ cache_hits' = cache_hits + 1 /\ rasterizations' = rasterizations
             \/ cache_hits' = cache_hits /\ rasterizations' = rasterizations + 1
      BY <2>7 DEF LookupGlyph
    <3>. QED  BY <1>1, <2>1, <2>2, <2>3, <3>1 DEF WorkSoFar, Accounted, InLoop
  <2>8. CASE StoreGlyph
    <3>1. /\ pc = "store" /\ pc' = "blit"
          /\ UNCHANGED <<cell, skipped_state, cache_hits, rasterizations>>
      BY <2>8 DEF StoreGlyph
    <3>. QED  BY <1>1, <2>1, <2>2, <2>3, <3>1 DEF WorkSoFar, Accounted, InLoop
  <2>9. CASE BlitBlock
    <3>1. /\ pc = "blit" /\ pc' = "cells" /\ cell' = cell + 1
          /\ UNCHANGED <<skipped_state, cache_hits, rasterizations>>
      BY <2>9 DEF BlitBlock
    <3>. QED  BY <1>1, <2>1, <2>2, <2>3, <3>1 DEF WorkSoFar, Accounted, InLoop
  <2>10. CASE UNCHANGED vars
    <3>1. UNCHANGED <<pc, cell, skipped_state, cache_hits, rasterizations>>
      BY <2>10 DEF vars, loop
    <3>. QED  BY <2>1, <2>2, <3>1 DEF WorkSoFar, Accounted
  <2>. QED  BY <1>3, <2>4, <2>5, <2>6, <2>7, <2>8, <2>9, <2>10 DEF Next, Exited
<1>. QED  BY <1>2, <1>3

(* The summary accounts for every cell of every frame.                      *)
THEOREM SummaryAddsUp == Spec => []WorkAddsUp
<1>1. Init => WorkSoFar
  BY DEF Init, WorkSoFar, Accounted
<1>2. WorkSoFar /\ IInv => WorkAddsUp
  <2> SUFFICES ASSUME WorkSoFar, IInv, pc \in {"cells", "frame"}, frame > 0
               PROVE  Accounted = (frame - 1) * CellCount + (cell - 1)
    BY DEF WorkAddsUp, Accounted
  <2>1. (frame - 1) * CellCount \in Int /\ cell \in Nat
    BY Product, RendererAssumption DEF IInv, TypeOK
  <2>. QED  BY <2>1 DEF WorkSoFar, InLoop
<1>. QED  BY <1>1, <1>2, InitInv, NextInv, WorkStep, PTL DEF Spec

-----------------------------------------------------------------------------
(* Main returns because it runs out of things to do: each statement brings  *)
(* the end nearer, whatever the tables answer.                              *)

(* A frame is begun and ended, and a cell takes four calls or fewer.        *)
FrameSteps == 4 * CellCount + 2

FramesToGo == (Frames - frame) * FrameSteps

CellSteps == 4 * (CellCount + 1 - cell)

(* No more statements than these are left to execute.                       *)
StepsLeft ==
  CASE pc = "start"                -> FramesToGo + 3
    [] pc = "artifacts configured" -> FramesToGo + 2
    [] pc = "frame"                -> FramesToGo + 1
    [] pc = "cells"                -> FramesToGo + 2 + CellSteps
    [] pc = "lookup"               -> FramesToGo + 1 + CellSteps
    [] pc = "store"                -> FramesToGo + CellSteps
    [] pc = "blit"                 -> FramesToGo + CellSteps - 1
    [] pc = "exit"                 -> 0

LEMMA OneFrameLess ==
  ASSUME NEW f \in Nat, NEW g \in Nat, NEW n \in Nat
  PROVE  /\ (f - (g + 1)) * n = (f - g) * n - n
         /\ g <= f => (f - g) * n \in Nat
         /\ (f - g) * n \in Int
<1>1. (f - (g + 1)) * n = (f - g) * n - n
  OBVIOUS
<1>2. (f - g) * n \in Int
  OBVIOUS
<1>3. ASSUME g <= f PROVE (f - g) * n \in Nat
  <2>1. f - g \in Nat
    BY <1>3
  <2>. DEFINE d == f - g
  <2>. HIDE DEF d
  <2>2. d \in Nat => d * n \in Nat
    OBVIOUS
  <2>. QED  BY <2>1, <2>2 DEF d
<1>. QED  BY <1>1, <1>2, <1>3

LEMMA StepsInRange ==
  ASSUME IInv
  PROVE  /\ StepsLeft \in Nat
         /\ StepsLeft = 0 <=> pc = "exit"
         /\ FramesToGo \in Nat
<1>1. /\ frame \in Nat /\ frame <= Frames /\ Frames \in Nat /\ CellCount \in Nat
      /\ cell \in Nat /\ cell <= CellCount + 1 /\ pc \in Pcs
      /\ (pc \in Drawing => cell <= CellCount)
  <2>1. /\ frame \in 0 .. Frames /\ Frames \in Nat /\ CellCount \in Nat
        /\ cell \in 0 .. CellCount + 1 /\ pc \in Pcs
    BY RendererAssumption DEF IInv, TypeOK
  <2>2. pc \in Drawing => cell \in 1 .. CellCount
    BY DEF IInv, LoopInBounds, Cells
  <2>. QED  BY <2>1, <2>2
<1>2. FrameSteps \in Nat
  BY <1>1 DEF FrameSteps
<1>3. FramesToGo \in Nat
  BY <1>1, <1>2, OneFrameLess DEF FramesToGo
<1>. DEFINE togo == FramesToGo
<1>. HIDE DEF togo
<1>4. CellSteps \in Nat /\ (pc \in Drawing => CellSteps >= 4)
  BY <1>1 DEF CellSteps
<1>5. togo \in Nat
  BY <1>3 DEF togo
<1>6. /\ pc = "start" => StepsLeft = togo + 3
      /\ pc = "artifacts configured" => StepsLeft = togo + 2
      /\ pc = "frame" => StepsLeft = togo + 1
      /\ pc = "cells" => StepsLeft = togo + 2 + CellSteps
      /\ pc = "lookup" => StepsLeft = togo + 1 + CellSteps
      /\ pc = "store" => StepsLeft = togo + CellSteps
      /\ pc = "blit" => StepsLeft = togo + CellSteps - 1
      /\ pc = "exit" => StepsLeft = 0
  BY DEF StepsLeft, togo
<1>7. CASE pc \in Drawing
  <2>1. CellSteps \in Nat /\ CellSteps >= 4
    BY <1>4, <1>7
  <2>2. StepsLeft = togo + 1 + CellSteps \/ StepsLeft = togo + CellSteps
          \/ StepsLeft = togo + CellSteps - 1
    BY <1>6, <1>7 DEF Drawing
  <2>3. StepsLeft \in Nat /\ StepsLeft # 0
    BY <1>5, <2>1, <2>2
  <2>4. pc # "exit"
    BY <1>7 DEF Drawing
  <2>. QED  BY <1>3, <2>3, <2>4
<1>8. CASE pc \in {"start", "artifacts configured", "frame", "cells"}
  <2>1. StepsLeft = togo + 3 \/ StepsLeft = togo + 2 \/ StepsLeft = togo + 1
          \/ StepsLeft = togo + 2 + CellSteps
    BY <1>6, <1>8
  <2>2. StepsLeft \in Nat /\ StepsLeft # 0
    BY <1>4, <1>5, <2>1
  <2>3. pc # "exit"
    BY <1>8
  <2>. QED  BY <1>3, <2>2, <2>3
<1>9. CASE pc = "exit"
  BY <1>3, <1>6, <1>9
<1>. QED  BY <1>1, <1>7, <1>8, <1>9 DEF Pcs, Drawing

(* Every statement but the last leaves fewer.                               *)
LEMMA StepsDecrease ==
  ASSUME IInv, IInv', Next
  PROVE  UNCHANGED vars \/ StepsLeft' < StepsLeft
<1>. DEFINE togo == FramesToGo
<1>1. /\ frame \in Nat /\ Frames \in Nat /\ CellCount \in Nat /\ cell \in Nat
      /\ CellSteps \in Int /\ FrameSteps \in Nat
  BY RendererAssumption DEF IInv, TypeOK, CellSteps, FrameSteps
<1>2. togo \in Nat
  BY StepsInRange
<1>3. CASE BeginFrame
  <2>1. pc = "frame" /\ pc' = "cells" /\ frame' = frame + 1 /\ cell' = 1
    BY <1>3 DEF BeginFrame
  <2>2. FramesToGo' = togo - FrameSteps
    <3>1. FrameSteps' = FrameSteps
      BY DEF FrameSteps
    <3>2. (Frames - frame') * FrameSteps' = (Frames - (frame + 1)) * FrameSteps
      BY <2>1, <3>1
    <3>3. (Frames - (frame + 1)) * FrameSteps = (Frames - frame) * FrameSteps - FrameSteps
      BY <1>1, OneFrameLess
    <3>. QED  BY <3>2, <3>3 DEF FramesToGo
  <2>3. CellSteps' = 4 * CellCount
    BY <1>1, <2>1 DEF CellSteps
  <2>4. StepsLeft = togo + 1 /\ StepsLeft' = FramesToGo' + 2 + CellSteps'
    BY <2>1 DEF StepsLeft
  <2>. HIDE DEF togo
  <2>. QED  BY <1>1, <1>2, <2>2, <2>3, <2>4 DEF FrameSteps
<1>4. CASE ~BeginFrame
  <2>1. CASE UNCHANGED vars
    BY <2>1
  <2>2. CASE GiveUp \/ Finish
    <3>1. pc # "exit" /\ pc' = "exit"
      BY <2>2 DEF GiveUp, Finish
    <3>2. StepsLeft \in Nat /\ StepsLeft # 0 /\ StepsLeft' = 0
      BY <3>1, StepsInRange DEF StepsLeft
    <3>. QED  BY <3>2
  <2>3. CASE ~(GiveUp \/ Finish \/ UNCHANGED vars)
    <3>1. FramesToGo' = togo
      BY <1>4, <2>3 DEF FramesToGo, Next, ConfigureArtifacts, ConfigureTracker, EndFrame,
         CheckCell, LookupGlyph, StoreGlyph, BlitBlock, Exited
    <3>. HIDE DEF togo
    <3>2. cell' = cell => CellSteps' = CellSteps
      BY DEF CellSteps
    <3>3. cell' = cell + 1 => CellSteps' = CellSteps - 4
      BY <1>1 DEF CellSteps
    <3>4. CASE ConfigureArtifacts
      <4>1. pc = "start" /\ pc' = "artifacts configured"
        BY <3>4 DEF ConfigureArtifacts
      <4>2. StepsLeft = togo + 3 /\ StepsLeft' = togo + 2
        BY <3>1, <4>1 DEF StepsLeft, togo
      <4>. QED  BY <1>2, <4>2
    <3>5. CASE ConfigureTracker
      <4>1. pc = "artifacts configured" /\ pc' = "frame"
        BY <3>5 DEF ConfigureTracker
      <4>2. StepsLeft = togo + 2 /\ StepsLeft' = togo + 1
        BY <3>1, <4>1 DEF StepsLeft, togo
      <4>. QED  BY <1>2, <4>2
    <3>6. CASE EndFrame
      <4>1. pc = "cells" /\ pc' = "frame" /\ cell > CellCount
        BY <3>6 DEF EndFrame
      <4>2. StepsLeft = togo + 2 + CellSteps /\ StepsLeft' = togo + 1
        BY <3>1, <4>1 DEF StepsLeft, togo
      <4>3. cell <= CellCount + 1
        BY <1>1 DEF IInv, TypeOK
      <4>4. CellSteps >= 0
        BY <1>1, <4>3 DEF CellSteps
      <4>. QED  BY <1>1, <1>2, <4>2, <4>4
    <3>7. CASE CheckCell
      <4>1. /\ pc = "cells"
            /\ (cell' = cell + 1 /\ pc' = "cells") \/ (cell' = cell /\ pc' = "lookup")
        BY <3>7 DEF CheckCell
      <4>2. /\ StepsLeft = togo + 2 + CellSteps
            /\ pc' = "cells" => StepsLeft' = togo + 2 + CellSteps'
            /\ pc' = "lookup" => StepsLeft' = togo + 1 + CellSteps'
        BY <3>1, <4>1 DEF StepsLeft, togo
      <4>. QED  BY <1>1, <1>2, <3>2, <3>3, <4>1, <4>2
    <3>8. CASE LookupGlyph
      <4>1. pc = "lookup" /\ cell' = cell /\ pc' \in {"blit", "store"}
        BY <3>8 DEF LookupGlyph
      <4>2. /\ StepsLeft = togo + 1 + CellSteps
            /\ pc' = "store" => StepsLeft' = togo + CellSteps'
            /\ pc' = "blit" => StepsLeft' = togo + CellSteps' - 1
        BY <3>1, <4>1 DEF StepsLeft, togo
      <4>. QED  BY <1>1, <1>2, <3>2, <4>1, <4>2
    <3>9. CASE StoreGlyph
      <4>1. pc = "store" /\ cell' = cell /\ pc' = "blit"
        BY <3>9 DEF StoreGlyph
      <4>2. StepsLeft = togo + CellSteps /\ StepsLeft' = togo + CellSteps' - 1
        BY <3>1, <4>1 DEF StepsLeft, togo
      <4>. QED  BY <1>1, <1>2, <3>2, <4>1, <4>2
    <3>10. CASE BlitBlock
      <4>1. pc = "blit" /\ cell' = cell + 1 /\ pc' = "cells"
        BY <3>10 DEF BlitBlock
      <4>2. StepsLeft = togo + CellSteps - 1 /\ StepsLeft' = togo + 2 + CellSteps'
        BY <3>1, <4>1 DEF StepsLeft, togo
      <4>. QED  BY <1>1, <1>2, <3>3, <4>1, <4>2
    <3>. QED  BY <1>4, <2>3, <3>4, <3>5, <3>6, <3>7, <3>8, <3>9, <3>10 DEF Next, Exited
  <2>. QED  BY <2>1, <2>2, <2>3
<1>. QED  BY <1>3, <1>4

(* Of the statements left, whose number the size of the screen and the      *)
(* frames to render give at the start, every step takes one or more, and    *)
(* none are left exactly when main has returned.                            *)
StepsCountDown ==
  /\ StepsLeft \in Nat
  /\ StepsLeft = 0 <=> pc = "exit"

THEOREM MainRunsDown ==
  Spec => /\ StepsLeft = Frames * FrameSteps + 3
          /\ []StepsCountDown
          /\ [][StepsLeft' < StepsLeft]_vars
<1>1. Init => StepsLeft = Frames * FrameSteps + 3
  <2>1. Init => Frames - frame = Frames
    BY RendererAssumption DEF Init
  <2>. QED  BY <2>1 DEF Init, StepsLeft, FramesToGo
<1>2. IInv => StepsCountDown
  BY StepsInRange DEF StepsCountDown
<1>3. IInv /\ IInv' /\ [Next]_vars => [StepsLeft' < StepsLeft]_vars
  BY StepsDecrease
<1>4. Spec => []IInv
  BY InitInv, NextInv, PTL DEF Spec
<1>. DEFINE Start == StepsLeft = Frames * FrameSteps + 3
            Less == StepsLeft' < StepsLeft
<1>. HIDE DEF Start, Less
<1>5. Spec => Start /\ []StepsCountDown /\ [][Less]_vars
  <2>1. Init => Start
    BY <1>1 DEF Start
  <2>2. IInv /\ IInv' /\ [Next]_vars => [Less]_vars
    BY <1>3 DEF Less
  <2>. QED  BY <1>2, <1>4, <2>1, <2>2, PTL DEF Spec
<1>. QED  BY <1>5 DEF Start, Less
=============================================================================
