---------------------------- MODULE GlyphRenderer ----------------------------
(***************************************************************************)
(* The renderer of examples/c/glyph_block_cache.c: the two keyed tables of *)
(* one context working for one client.  In every frame each cell is shown  *)
(* to the dirty-state tracker; a cell that changed is drawn from the       *)
(* artifact cache or, on a miss, rasterized, stored and drawn.             *)
(*                                                                         *)
(* The tables are taken at their word: a tracker that may raise a false    *)
(* alarm but never misses a change, and a store that may forget but never  *)
(* lies, which is what the tables themselves are shown to implement.  What *)
(* is asked here is whether their client may rely on just that.  A word of *)
(* four bytes (an identifier, a glyph, a colour, a pixel) is one element   *)
(* of a sequence.                                                          *)
(***************************************************************************)
EXTENDS Integers, Sequences

CONSTANTS
  CellCount,    \* total_cells
  Glyphs, Colors,
  Frames,       \* how many frames are rendered
  Pixel(_, _, _),  \* the pixel a glyph in two colours is filled with
  NULL

Cells == 1 .. CellCount

(* What a cell shows: its glyph, foreground and background.  It is the key  *)
(* of its picture in the artifact cache.                                    *)
Look == {<<glyph, fg, bg>> : glyph \in Glyphs, fg \in Colors, bg \in Colors}

(* The struct CellState: the identifier and the look.                       *)
CellState(c, l) == <<c, l[1], l[2], l[3]>>

(* Faulty: the background left out of the key.                              *)
GlyphKeyWithoutBackground(l) == <<l[1], l[2], l[2]>>

GlyphKey(l) == <<l[1], l[2], l[3]>>

(* The 64 pixels of a block are all alike: one stands for them.             *)
rasterize_glyph(l) == <<Pixel(l[1], l[2], l[3])>>

Blocks == {rasterize_glyph(l) : l \in Look}

ASSUME RendererAssumption ==
  /\ CellCount \in Nat
  /\ Frames \in Nat
  /\ \A l \in Look : NULL # l /\ NULL # rasterize_glyph(l)
  /\ \A c \in Cells : NULL # <<c>> /\ \A l \in Look : NULL # CellState(c, l)

VARIABLES
  pc,       \* the next statement of main
  frame,    \* the frames begun
  cell,     \* the cell the loop is at
  cells,    \* the look of every cell
  block,    \* the local GlyphBlock
  screen,   \* the block last drawn in every cell
  trackerReady, observed, checked,   \* the dirty-state tracker
  storeReady, content, answered,     \* the artifact cache
  skipped_state, cache_hits, rasterizations

loop    == <<pc, frame, cell, cells, block, screen>>
tracker == <<trackerReady, observed, checked>>
store   == <<storeReady, content, answered>>
work    == <<skipped_state, cache_hits, rasterizations>>
vars    == <<loop, tracker, store, work>>

(* The key under which a cell is checked.                                   *)
CellId(c) == <<c>>

(* Keys of 64 and states of 256 bytes, the defaults {0} asks for.           *)
Tracker ==
  INSTANCE ChangeDetector WITH
    Keys <- {CellId(c) : c \in Cells},
    States <- {CellState(c, l) : c \in Cells, l \in Look},
    MaxKeySize <- 16, MaxPayloadSize <- 64,
    ready <- trackerReady, reply <- checked

(* Keys of 16 bytes, and values of one block.                               *)
Artifacts ==
  INSTANCE LossyStore WITH
    Keys <- Look, Values <- Blocks, Capacities <- {1},
    MaxKeySize <- 4, MaxPayloadSize <- 1,
    ready <- storeReady, reply <- answered

Init ==
  /\ pc = "start"
  /\ frame = 0
  /\ cell = 0
  /\ cells \in [Cells -> Look]
  /\ block = NULL
  /\ screen = [c \in Cells |-> NULL]
  /\ Tracker!Init
  /\ Artifacts!Init
  /\ skipped_state = 0 /\ cache_hits = 0 /\ rasterizations = 0

-----------------------------------------------------------------------------
(* Without the library or a context there is nothing to do.                 *)
GiveUp ==
  /\ pc = "start"
  /\ pc' = "exit"
  /\ UNCHANGED <<frame, cell, cells, block, screen, tracker, store, work>>

(* Both tables are configured; what the calls return is not looked at.      *)
ConfigureArtifacts ==
  /\ pc = "start"
  /\ Artifacts!Configure
  /\ pc' = "artifacts configured"
  /\ UNCHANGED <<frame, cell, cells, block, screen, tracker, work>>

ConfigureTracker ==
  /\ pc = "artifacts configured"
  /\ Tracker!Configure
  /\ pc' = "frame"
  /\ UNCHANGED <<frame, cell, cells, block, screen, store, work>>

(* The cells change between frames, and never within one.                   *)
BeginFrame ==
  /\ pc = "frame"
  /\ frame < Frames
  /\ frame' = frame + 1
  /\ cells' \in IF frame = 0 THEN {cells} ELSE [Cells -> Look]
  /\ cell' = 1
  /\ pc' = "cells"
  /\ UNCHANGED <<block, screen, tracker, store, work>>

EndFrame ==
  /\ pc = "cells"
  /\ cell > CellCount
  /\ pc' = "frame"
  /\ UNCHANGED <<frame, cell, cells, block, screen, tracker, store, work>>

Finish ==
  /\ pc = "frame"
  /\ frame = Frames
  /\ pc' = "exit"
  /\ UNCHANGED <<frame, cell, cells, block, screen, tracker, store, work>>

-----------------------------------------------------------------------------
(* One cell.                                                                *)

(* A cell is skipped when its check failed, and when it says "unchanged".   *)
ToSkip(answer) == answer.rc # "OK" \/ answer.changed = 0

(* The tracker has seen the state from here on, drawn or not.               *)
CheckCell ==
  /\ pc = "cells"
  /\ cell <= CellCount
  /\ Tracker!Check(CellId(cell), CellState(cell, cells[cell]), TRUE)
  /\ IF ToSkip(checked')
       THEN /\ skipped_state' = skipped_state + 1
            /\ cell' = cell + 1
            /\ UNCHANGED pc
       ELSE /\ pc' = "lookup"
            /\ UNCHANGED <<skipped_state, cell>>
  /\ UNCHANGED <<frame, cells, block, screen, store, cache_hits, rasterizations>>

(* Faulty: hits are counted before the answer is looked at.                 *)
LookupCountedEarly ==
  /\ pc = "lookup"
  /\ Artifacts!Lookup(GlyphKey(cells[cell]), 1)
  /\ cache_hits' = cache_hits + 1
  /\ IF answered'.rc = "OK"
       THEN /\ block' = answered'.value
            /\ pc' = "blit"
            /\ UNCHANGED rasterizations
       ELSE /\ block' = rasterize_glyph(cells[cell])
            /\ rasterizations' = rasterizations + 1
            /\ pc' = "store"
  /\ UNCHANGED <<frame, cell, cells, screen, tracker, skipped_state>>

(* A hit fills the block; anything else rasterizes into it.                 *)
LookupGlyph ==
  /\ pc = "lookup"
  /\ Artifacts!Lookup(GlyphKey(cells[cell]), 1)
  /\ IF answered'.rc = "OK"
       THEN /\ block' = answered'.value
            /\ cache_hits' = cache_hits + 1
            /\ pc' = "blit"
            /\ UNCHANGED rasterizations
       ELSE /\ block' = rasterize_glyph(cells[cell])
            /\ rasterizations' = rasterizations + 1
            /\ pc' = "store"
            /\ UNCHANGED cache_hits
  /\ UNCHANGED <<frame, cell, cells, screen, tracker, skipped_state>>

(* Faulty: a block that could not be stored is not drawn.                   *)
StoreOrSkip ==
  /\ pc = "store"
  /\ Artifacts!Store(GlyphKey(cells[cell]), block)
  /\ IF answered'.rc = "OK" THEN pc' = "blit" /\ UNCHANGED cell
     ELSE pc' = "cells" /\ cell' = cell + 1
  /\ UNCHANGED <<frame, cells, block, screen, tracker, work>>

(* Faulty: the store is tried until it succeeds.                            *)
StoreInsistently ==
  /\ pc = "store"
  /\ Artifacts!Store(GlyphKey(cells[cell]), block)
  /\ pc' = IF answered'.rc = "OK" THEN "blit" ELSE "store"
  /\ UNCHANGED <<frame, cell, cells, block, screen, tracker, work>>

(* Whether the block was stored is not looked at either.                    *)
StoreGlyph ==
  /\ pc = "store"
  /\ Artifacts!Store(GlyphKey(cells[cell]), block)
  /\ pc' = "blit"
  /\ UNCHANGED <<frame, cell, cells, block, screen, tracker, work>>

(* Faulty: the cell is advanced by the body and by the loop.                *)
BlitAndAdvanceTwice ==
  /\ pc = "blit"
  /\ screen' = [screen EXCEPT ![cell] = block]
  /\ cell' = cell + 2
  /\ pc' = "cells"
  /\ UNCHANGED <<frame, cells, block, tracker, store, work>>

BlitBlock ==
  /\ pc = "blit"
  /\ screen' = [screen EXCEPT ![cell] = block]
  /\ cell' = cell + 1
  /\ pc' = "cells"
  /\ UNCHANGED <<frame, cells, block, tracker, store, work>>

Exited == pc = "exit" /\ UNCHANGED vars

Next ==
  \/ GiveUp \/ ConfigureArtifacts \/ ConfigureTracker
  \/ BeginFrame \/ EndFrame \/ Finish
  \/ CheckCell \/ LookupGlyph \/ StoreGlyph \/ BlitBlock
  \/ Exited

(* One thread that waits for nothing: as long as there is a statement to    *)
(* execute, it is executed.                                                 *)
Spec == Init /\ [][Next]_vars /\ WF_vars(Next)

-----------------------------------------------------------------------------
Pcs == {"start", "artifacts configured", "frame", "cells", "lookup", "store",
        "blit", "exit"}

TypeOK ==
  /\ pc \in Pcs
  /\ frame \in 0 .. Frames
  /\ cell \in 0 .. CellCount + 1
  /\ cells \in [Cells -> Look]
  /\ block \in Blocks \cup {NULL}
  /\ screen \in [Cells -> Blocks \cup {NULL}]
  /\ trackerReady \in BOOLEAN
  /\ \A c \in Cells : observed[CellId(c)] \in {NULL} \cup {CellState(c, l) : l \in Look}
  /\ storeReady \in BOOLEAN
  /\ content \in [Look -> Blocks \cup {NULL}]
  /\ {skipped_state, cache_hits, rasterizations} \subseteq Nat

(* The cell is between its check and its drawing.                           *)
BeingDrawn(c) == c = cell /\ pc \in {"lookup", "store", "blit"}

(* The tracker takes a state as seen when it is checked, and the cell is    *)
(* drawn three calls later.  Whatever happens in between, to this cell and  *)
(* to those whose memory it costs, a state the tracker remembers is the one *)
(* on the screen: otherwise the cell would be skipped from then on, with an *)
(* old picture.                                                             *)
WhatIsSeenIsShown ==
  \A c \in Cells :
    observed[CellId(c)] # NULL /\ ~BeingDrawn(c) =>
      \E l \in Look : /\ observed[CellId(c)] = CellState(c, l)
                      /\ screen[c] = rasterize_glyph(l)

(* At the end of a frame every cell shows its look, those that were skipped *)
(* and those drawn with a picture made for another cell included, as long   *)
(* as the tracker could be configured.  (Otherwise every check fails and    *)
(* the screen stays as it is.)                                              *)
FramesShowTheCells ==
  pc = "frame" /\ frame > 0 /\ trackerReady =>
    \A c \in Cells : screen[c] = rasterize_glyph(cells[c])

(* The three figures of the summary account for every cell of every frame.  *)
WorkAddsUp ==
  pc \in {"cells", "frame"} /\ frame > 0 =>
    skipped_state + cache_hits + rasterizations
      = (frame - 1) * CellCount + (cell - 1)

(* Whatever the tables answer, main returns.                                *)
MainReturns == <>(pc = "exit")
=============================================================================
