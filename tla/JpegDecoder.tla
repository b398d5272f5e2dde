---------------------------- MODULE JpegDecoder ----------------------------
(***************************************************************************)
(* jpeg_decode_to_rgb565 of jpeg_decoder.c: what it allocates, how far the *)
(* picture is filled and which of its ways out gives what back.  libjpeg   *)
(* reports an error by error_exit, which jumps out of whatever call is     *)
(* running to the setjmp at the start of the function.                     *)
(*                                                                         *)
(* A JPEG is the height its header tells and the number of lines there is  *)
(* data for; a line of the picture is one value, "image" or, when the data *)
(* has ended, "gray".                                                      *)
(***************************************************************************)
EXTENDS Naturals, Sequences

CONSTANT Jpegs   \* what the camera may deliver: records of a height and the lines of data

VARIABLES
    pc,
    jpeg,     \* the frame
    heap,     \* what is allocated: "codec" (cinfo's memory), "pixels"
    pixels,   \* the local pixels # NULL
    picture,  \* the lines stored in it so far
    out       \* *out_pixels # NULL, and the function returned 0

vars == <<pc, jpeg, heap, pixels, picture, out>>

NoJpeg == [height |-> 0, lines |-> 0]

Init ==
    /\ pc = "idle" /\ jpeg = NoJpeg
    /\ heap = {} /\ pixels = FALSE /\ picture = <<>> /\ out = FALSE

-----------------------------------------------------------------------------

\* The call, up to jpeg_memory_source.  A build without libjpeg fails here.
Call ==
    /\ pc = "idle"
    /\ jpeg' \in Jpegs
    /\ \/ heap' = {"codec"} /\ pc' = "header"
       \/ heap' = heap /\ pc' = "return"
    /\ UNCHANGED <<pixels, picture, out>>

\* jpeg_read_header, jpeg_start_decompress: the size is known.
ReadHeader ==
    /\ pc = "header"
    /\ pc' = "malloc"
    /\ UNCHANGED <<jpeg, heap, pixels, picture, out>>

Malloc ==
    /\ pc = "malloc"
    /\ heap' = heap \cup {"pixels"} /\ pixels' = TRUE
    /\ pc' = "lines"
    /\ UNCHANGED <<jpeg, picture, out>>

MallocFails ==
    /\ pc = "malloc"
    /\ heap' = heap \ {"codec"}
    /\ pc' = "return"
    /\ UNCHANGED <<jpeg, pixels, picture, out>>

\* jpeg_read_scanlines and the conversion of the line.  When the data has
\* ended memory_fill_input_buffer supplies an end-of-image marker, never
\* nothing: libjpeg goes on and fills the rest with gray.
ReadLine ==
    /\ pc = "lines" /\ Len(picture) < jpeg.height
    /\ picture' = Append(picture,
                         IF Len(picture) < jpeg.lines THEN "image" ELSE "gray")
    /\ UNCHANGED <<pc, jpeg, heap, pixels, out>>

Finish ==
    /\ pc = "lines" /\ Len(picture) = jpeg.height
    /\ heap' = heap \ {"codec"} /\ out' = TRUE
    /\ pc' = "return"
    /\ UNCHANGED <<jpeg, pixels, picture>>

\* Mutant of ErrorExit: without volatile the jump may restore the value
\* pixels had at setjmp.
ErrorExitForgetsPixels ==
    /\ pc \in {"header", "lines"}
    /\ heap' = heap \ {"codec"}
    /\ pc' = "return"
    /\ UNCHANGED <<jpeg, pixels, picture, out>>

\* An error in any libjpeg call, jpeg_finish_decompress included: longjmp.
ErrorExit ==
    /\ pc \in {"header", "lines"}
    /\ heap' = heap \ ({"codec"} \cup { p \in {"pixels"} : pixels })
    /\ pc' = "return"
    /\ UNCHANGED <<jpeg, pixels, picture, out>>

\* The caller is done with what it was given and frees it; the locals end.
Free ==
    /\ pc = "return"
    /\ heap' = heap \ { p \in {"pixels"} : out }
    /\ pc' = "idle" /\ jpeg' = NoJpeg
    /\ pixels' = FALSE /\ picture' = <<>> /\ out' = FALSE

\* The function's own steps.
Next == ReadHeader \/ Malloc \/ MallocFails \/ ReadLine \/ Finish \/ ErrorExit

-----------------------------------------------------------------------------

(***************************************************************************)
(* A whole picture or nothing (jpeg_decoder.c:125-171): wherever libjpeg   *)
(* fails, even in a jump out of the middle of a picture, the caller gets   *)
(* either a buffer of which every line is stored, which is then its own to *)
(* free, or nothing at all; of the decoder's memory nothing is left, and   *)
(* between two frames nothing is allocated.  Of a truncated JPEG all that  *)
(* came is shown.                                                          *)
(***************************************************************************)
WholePictureOrNothing ==
    /\ pc = "idle" => heap = {}
    /\ pc = "return" => heap = IF out THEN {"pixels"} ELSE {}
    /\ pc = "return" /\ out =>
          /\ Len(picture) = jpeg.height
          /\ \A i \in DOMAIN picture : picture[i] = "gray" <=> i > jpeg.lines
=============================================================================
