------------------------------ MODULE Display ------------------------------
(***************************************************************************)
(* What reaches the screen: kernel/gfx/surface.cpp, kernel/gfx/buffer.cpp  *)
(* and terminal_putentryat of kernel/tty.cpp.                              *)
(*                                                                         *)
(* The terminal thread draws glyphs into the surface, pixel by pixel, and  *)
(* scrolls it; the thread surface_update copies it to the frame buffer,    *)
(* row by row where Graphics::dirty_buffer is set.  The two share no lock: *)
(* surface_update turns interrupts off, so its copy is one step, and it    *)
(* may come between any two stores of the terminal thread.                 *)
(*                                                                         *)
(* The back buffer is left out: each update overwrites all of it with the  *)
(* surface (apply(true)) before it copies rows of it to the screen.  So is *)
(* the dirty buffer of the surface, which only apply(false) would read.    *)
(*                                                                         *)
(* Behind dirty_buffer lie the header of the next heap block, first its    *)
(* size, which vmalloc only asks the last block for, and then that block,  *)
(* the BaseSurface with the address of the pixels: a mark of a row far     *)
(* below the frame lands there.                                            *)
(***************************************************************************)
EXTENDS Naturals

CONSTANTS
  Height, Width,     \* of the frame, and of the one surface, in pixels
  FontHeight,        \* Y_FONTWIDTH (16)
  FontWidth,         \* X_FONTWIDTH (8)
  Above,             \* the 12 of drawchar_transparent
  Glyphs,            \* per glyph the pixels <<cx, cy>> that it sets
  Columns,           \* the text columns the terminal uses
  MaxRow,            \* terminal_row has no limit (Terminal): bound on it
  SizeField,         \* the bytes of the size in BlockHeader (4)
  Colour, Blank      \* colours, and the content of fresh memory

ASSUME DisplayAssumption ==
  /\ Height \in Nat /\ Width \in Nat
  /\ FontHeight \in Nat \ {0} /\ FontWidth \in Nat \ {0}
  /\ Above \in 0 .. FontHeight
  /\ Glyphs \subseteq SUBSET ((0 .. FontWidth - 1) \X (0 .. FontHeight - 1))
  /\ Columns \subseteq Nat
  /\ MaxRow \in Nat
  /\ SizeField \in Nat
  /\ FontHeight <= Above + SizeField
  /\ Blank \in Colour
  /\ Height >= FontHeight    \* a frame of at least one row of text

Rows == 0 .. Height - 1
Cols == 0 .. Width - 1

VARIABLES
  surface,      \* BaseSurface::buff_loc of screen_surfaces[0]
  front_buffer, \* the frame buffer, which is on the screen
  dirty,        \* the rows whose dirty_buffer is set
  drawer,       \* the terminal thread: "idle", "pixel", "mark" or "scroll",
                \* or "astray" once it has stored into the BaseSurface
  todo,         \* the pixels of the glyph that are still to be drawn
  drawing,      \* the pixel that is being drawn, as <<x, y>>
  colour,       \* fgcolor
  moving,       \* the next row that memcpy moves in scrollUp
  scrolled,     \* history: rows that scrollUp wrote after their last copy
  outside,      \* history: a store behind dirty_buffer or the surface
  lowest        \* history: the lowest text row in which a glyph was drawn

frame == <<surface, front_buffer, dirty>>
displayVars == <<surface, front_buffer, dirty, drawer, todo, drawing, colour,
                 moving, scrolled, outside, lowest>>

\* A screen that is used to its last row.
AllTextRows == Height \div FontHeight

\* VGA_HEIGHT, set by init_screens: the number of text rows.
TextRows == Height \div FontHeight - 1

\* start_display_driver has run: the surface is on the screen, whole.
DisplayInit ==
  /\ surface = [y \in Rows |-> [x \in Cols |-> Blank]]
  /\ front_buffer = surface
  /\ dirty = {}
  /\ drawer = "idle"
  /\ todo = {}
  /\ drawing = <<0, 0>>
  /\ colour = Blank
  /\ moving = 0
  /\ scrolled = {}
  /\ outside = FALSE
  /\ lowest = 0

\* Where drawchar_transparent draws the pixel of a glyph whose character
\* terminal_putentryat puts at text column and row.
PixelAt(column, row, p) ==
  <<column * FontWidth + p[1], (row + 1) * FontHeight + p[2] - Above>>

\* terminal_putentryat; terminal_row may lie below the last text row.
PutEntryAt(column, row, glyph, ink) ==
  /\ drawer = "idle"
  /\ todo' = {PixelAt(column, row, p) : p \in glyph}
  /\ colour' = ink
  /\ lowest' = IF row > lowest THEN row ELSE lowest
  /\ drawer' = "pixel"
  /\ UNCHANGED <<frame, drawing, moving, scrolled, outside>>

\* The loop takes the rows of a glyph from the top, each from the left.
Before(p, q) == p[2] < q[2] \/ (p[2] = q[2] /\ p[1] <= q[1])

\* setPixel: a pixel outside of the surface is dropped.
SetPixel ==
  /\ drawer = "pixel"
  /\ \E p \in todo :
       /\ \A q \in todo : Before(p, q)
       /\ drawing' = p
       /\ todo' = todo \ {p}
       /\ surface' = IF p[1] \in Cols /\ p[2] \in Rows
                     THEN [surface EXCEPT ![p[2]][p[1]] = colour]
                     ELSE surface
  /\ drawer' = "mark"
  /\ UNCHANGED <<front_buffer, dirty, colour, moving, scrolled, outside, lowest>>

\* A drawchar_transparent that leaves the marking to setPixel, which only
\* knows the dirty buffer of the surface.
MarkSurfaceOnly ==
  /\ drawer = "mark"
  /\ drawer' = "pixel"
  /\ UNCHANGED <<frame, todo, drawing, colour, moving, scrolled, outside, lowest>>

\* dirty_buffer[y_coord] = true, with no test of y_coord.
MarkDirty ==
  /\ drawer = "mark"
  /\ dirty' = (dirty \cup {drawing[2]}) \cap Rows
  /\ outside' = (outside \/ drawing[2] \notin Rows)
  /\ drawer' = IF drawing[2] < Height + SizeField THEN "pixel" ELSE "astray"
  /\ UNCHANGED <<surface, front_buffer, todo, drawing, colour, moving, scrolled, lowest>>

\* The chain of the heap, or the address or the size of the surface, is no longer
\* what it was: rows of what is now taken for the surface, and of
\* dirty_buffer, change in any way, until an access faults, if one does.
GoAstray ==
  /\ drawer = "astray"
  /\ \E y \in Rows, bytes \in [Cols -> Colour], marked \in BOOLEAN :
       /\ surface' = [surface EXCEPT ![y] = bytes]
       /\ dirty' = IF marked THEN dirty \cup {y} ELSE dirty
  /\ UNCHANGED <<front_buffer, drawer, todo, drawing, colour, moving, scrolled,
                 outside, lowest>>

GlyphDone ==
  /\ drawer = "pixel"
  /\ todo = {}
  /\ drawer' = "idle"
  /\ drawing' = <<0, 0>>
  /\ colour' = Blank
  /\ UNCHANGED <<frame, todo, moving, scrolled, outside, lowest>>

\* scrollUp(Y_FONTWIDTH) has print_mutex, which nobody else waits for, and
\* calls memcpy with interrupts on.
ScrollUp ==
  /\ drawer = "idle"
  /\ moving' = 0
  /\ drawer' = "scroll"
  /\ UNCHANGED <<frame, todo, drawing, colour, scrolled, outside, lowest>>

\* The rows that scrollUp moves.
MovedRows == TextRows * FontHeight

\* memcpy takes the bytes from the front; no row is marked.
MoveRow ==
  /\ drawer = "scroll"
  /\ moving < MovedRows
  /\ IF moving + FontHeight \in Rows
     THEN surface' = [surface EXCEPT ![moving] = surface[moving + FontHeight]]
     ELSE \E bytes \in [Cols -> Colour] :
             surface' = [surface EXCEPT ![moving] = bytes]
  /\ outside' = (outside \/ moving + FontHeight \notin Rows)
  /\ scrolled' = scrolled \cup {moving}
  /\ moving' = moving + 1
  /\ UNCHANGED <<front_buffer, dirty, drawer, todo, drawing, colour, lowest>>

ScrollDone ==
  /\ drawer = "scroll"
  /\ moving >= MovedRows
  /\ drawer' = "idle"
  /\ moving' = 0
  /\ UNCHANGED <<frame, todo, drawing, colour, scrolled, outside, lowest>>

\* A CopyFrom that stops before the last row.
CopyFromAllButLast ==
  [y \in Rows |-> IF y \in dirty /\ y < Height - 1 THEN surface[y]
                                                   ELSE front_buffer[y]]

\* front_buffer.CopyFrom(back_buffer, DELTA_REFRESH)
CopyFrom ==
  [y \in Rows |-> IF y \in dirty THEN surface[y] ELSE front_buffer[y]]

\* surface_update: UpdateBuffers with interrupts off.
UpdateBuffers ==
  /\ front_buffer' = CopyFrom
  /\ dirty' = {}
  /\ scrolled' = scrolled \ dirty
  /\ UNCHANGED <<surface, drawer, todo, drawing, colour, moving, outside, lowest>>

Terminal ==
  \/ \E column \in Columns, row \in 0 .. MaxRow, glyph \in Glyphs,
        ink \in Colour : PutEntryAt(column, row, glyph, ink)
  \/ SetPixel \/ MarkDirty \/ GoAstray \/ GlyphDone
  \/ ScrollUp \/ MoveRow \/ ScrollDone

DisplayNext == Terminal \/ UpdateBuffers

DisplaySpec == DisplayInit /\ [][DisplayNext]_displayVars

\* Both threads get the CPU again and again (Scheduler, NoStarvation).  The
\* terminal thread need not draw or scroll, but ends what it has begun.
FairSpec ==
  /\ DisplaySpec
  /\ WF_displayVars(UpdateBuffers)
  /\ WF_displayVars(SetPixel \/ MarkDirty \/ GlyphDone \/ MoveRow \/ ScrollDone)

-----------------------------------------------------------------------------
(* Properties *)

DisplayTypeOK ==
  /\ surface \in [Rows -> [Cols -> Colour]]
  /\ front_buffer \in [Rows -> [Cols -> Colour]]
  /\ dirty \subseteq Rows
  /\ drawer \in {"idle", "pixel", "mark", "scroll", "astray"}
  /\ todo \subseteq Nat \X Nat
  /\ drawing \in Nat \X Nat
  /\ colour \in Colour
  /\ moving \in Nat
  /\ scrolled \subseteq Rows
  /\ outside \in BOOLEAN
  /\ lowest \in Nat

\* A row that waits for its mark: setPixel has stored, dirty_buffer not yet.
Unmarked(y) == drawer = "mark" /\ drawing[2] = y

\* Whenever surface_update comes, no drawn pixel is lost: a row that is not
\* (about to be) marked is on the screen as it is in the surface, unless
\* scrollUp, which marks nothing, moved it.  Nothing is said of a surface
\* that was overwritten.
CleanRowsShown ==
  drawer # "astray" =>
    \A y \in Rows : \/ front_buffer[y] = surface[y]
                    \/ y \in dirty
                    \/ Unmarked(y)
                    \/ y \in scrolled

\* What was drawn is shown: a row that is marked or about to be marked is on
\* the screen in the end, also the rows that scrollUp moved, unless the surface
\* is overwritten first.
DrawnIsShown ==
  \A y \in Rows : (Unmarked(y) \/ y \in dirty)
                    ~> front_buffer[y] = surface[y] \/ drawer = "astray"

\* The text rows of the terminal, and the rows that scrollUp reads, lie inside
\* the frame, whatever its height: drawchar_transparent does not test the row
\* it marks.  A glyph one row below the last text row at most marks bytes
\* that nobody reads; it takes one still lower to overwrite more.
StoresInside ==
  /\ DisplayTypeOK
  /\ outside => lowest >= TextRows
  /\ drawer = "astray" => lowest > TextRows
=============================================================================
