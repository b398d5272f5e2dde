-------------------------- MODULE FramebufferTest --------------------------
(***************************************************************************)
(* framebuffer_test_pattern of framebuffer_display.c, with the steps of    *)
(* framebuffer_display_open and framebuffer_display_close.                 *)
(***************************************************************************)
EXTENDS FramebufferPixels

CONSTANT Panels   \* the displays there may be, of any depth; WellFormed if they can be drawn on

VARIABLES
    pc,
    panel,     \* what the driver told of the display
    memory,    \* the mapping
    holds,     \* what is allocated: "struct", "fd", "mapping"
    drawn      \* what the function returns: TRUE is 0

vars == <<pc, panel, memory, holds, drawn>>

NoPanel == <<>>

Init ==
    /\ pc = "calloc"
    /\ panel = NoPanel /\ memory = <<>>
    /\ holds = {} /\ drawn = FALSE

\* A call of framebuffer_display_open that gains something and goes on.
Acquire(here, what, next) ==
    /\ pc = here
    /\ holds' = holds \cup {what}
    /\ pc' = next
    /\ UNCHANGED drawn

Calloc == Acquire("calloc", "struct", "open") /\ UNCHANGED <<panel, memory>>
OpenDevice == Acquire("open", "fd", "info") /\ UNCHANGED <<panel, memory>>

\* FBIOGET_FSCREENINFO and FBIOGET_VSCREENINFO.
ReadInfo ==
    /\ pc = "info"
    /\ panel' \in Panels
    /\ pc' = "mmap"
    /\ UNCHANGED <<memory, holds, drawn>>

\* The mapping shows what was there before.
Mmap ==
    /\ Acquire("mmap", "mapping", "clear")
    /\ memory' = [a \in 0..panel.mem-1 |-> 85]
    /\ UNCHANGED panel

\* Each call may fail; then close and free give back what there is.
OpenFails ==
    /\ pc \in {"calloc", "open", "info", "mmap"}
    /\ holds' = {}
    /\ pc' = "done"
    /\ UNCHANGED <<panel, memory, drawn>>

\* Mutant of Clear: only the visible lines are cleared.
ClearScreen ==
    /\ pc = "clear"
    /\ memory' = [a \in DOMAIN memory |->
                     IF a < panel.yres * panel.line THEN 0 ELSE memory[a]]
    /\ pc' = "draw"
    /\ UNCHANGED <<panel, holds, drawn>>

\* memset of the whole mapping.
Clear ==
    /\ pc = "clear"
    /\ memory' = [a \in DOMAIN memory |-> 0]
    /\ pc' = "draw"
    /\ UNCHANGED <<panel, holds, drawn>>

\* draw_color_bars and msync, or a depth that is not supported.
DrawBars ==
    /\ pc = "draw"
    /\ drawn' = (panel.bytes \in {2, 4})
    /\ memory' = IF drawn' THEN DrawColorBars(panel, memory) ELSE memory
    /\ pc' = "close"
    /\ UNCHANGED <<panel, holds>>

\* framebuffer_display_close
CloseDisplay ==
    /\ pc = "close"
    /\ holds' = {}
    /\ pc' = "done"
    /\ UNCHANGED <<panel, memory, drawn>>

Next ==
    \/ Calloc \/ OpenDevice \/ ReadInfo \/ Mmap \/ OpenFails
    \/ Clear \/ DrawBars \/ CloseDisplay

(***************************************************************************)
(* When the test pattern is said to be written, the screen shows it, in a  *)
(* mapping of any shape, and what is not on the screen is black.           *)
(***************************************************************************)
BarsFillTheScreen ==
    drawn => /\ ShowsBars(panel, memory)
             /\ \A a \in Unseen(panel) : memory[a] = 0
=============================================================================
