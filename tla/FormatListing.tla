--------------------------- MODULE FormatListing ---------------------------
(***************************************************************************)
(* camera_list_formats of camera_device.c: three nested enumerations of    *)
(* what a camera's driver offers (formats, their sizes, the frame          *)
(* intervals of a size), each a loop that asks for index 0, 1, 2, ...      *)
(* until an ioctl fails.  Any failure is taken for the end of the list.    *)
(*                                                                         *)
(* A camera is a sequence of formats, a format a sequence of sizes, a size *)
(* a record of its type and the sequence of the types of its intervals.    *)
(* What is printed is the sequence of the index paths of its lines.        *)
(***************************************************************************)
EXTENDS Naturals, Sequences

CONSTANT Cameras   \* what the drivers may offer, made of the types below

\* "norate" is a discrete interval with numerator 0.
SizeTypes == {"discrete", "range", "unknown"}
IntervalTypes == {"discrete", "norate", "range", "unknown"}

VARIABLES
    camera,    \* what the camera offers that was opened
    pc,
    opened,    \* fd # -1 and not closed
    fmt, size, interval,   \* the index fields of the three structures
    printed,
    disturbed, \* history: an ioctl failed before the end of its list
    listed     \* what the function returns: TRUE is 0

loops == <<fmt, size, interval>>
vars == <<camera, pc, opened, loops, printed, disturbed, listed>>

Init ==
    /\ camera = <<>>
    /\ pc = "open" /\ opened = FALSE
    /\ fmt = 0 /\ size = 0 /\ interval = 0
    /\ printed = <<>> /\ disturbed = FALSE /\ listed = FALSE

PutLine(path) == printed' = Append(printed, path)

-----------------------------------------------------------------------------

\* stat, S_ISCHR and open.
Open ==
    /\ pc = "open"
    /\ \/ opened' = TRUE /\ pc' = "query" /\ camera' \in Cameras
       \/ pc' = "done" /\ UNCHANGED <<opened, camera>>
    /\ UNCHANGED <<loops, printed, disturbed, listed>>

\* VIDIOC_QUERYCAP, and a device that captures video.
QueryCapabilities ==
    /\ pc = "query"
    /\ \/ pc' = "format" /\ UNCHANGED opened
       \/ pc' = "done" /\ opened' = FALSE
    /\ UNCHANGED <<camera, loops, printed, disturbed, listed>>

\* VIDIOC_ENUM_FMT succeeds; list_frame_sizes starts at index 0.
NextFormat ==
    /\ pc = "format" /\ fmt < Len(camera)
    /\ PutLine(<<fmt>>)
    /\ size' = 0
    /\ pc' = "size"
    /\ UNCHANGED <<camera, opened, fmt, interval, disturbed, listed>>

\* Mutant of FormatsEnd: the descriptor stays open if there was no format.
FormatsEndLeavesOpen ==
    /\ pc = "format"
    /\ disturbed' = (disturbed \/ fmt < Len(camera))
    /\ opened' = (fmt = 0) /\ listed' = (fmt > 0)
    /\ pc' = "done"
    /\ UNCHANGED <<camera, loops, printed>>

\* VIDIOC_ENUM_FMT fails, at the end of the list or before.
FormatsEnd ==
    /\ pc = "format"
    /\ disturbed' = (disturbed \/ fmt < Len(camera))
    /\ opened' = FALSE /\ listed' = (fmt > 0)
    /\ pc' = "done"
    /\ UNCHANGED <<camera, loops, printed>>

Sizes == camera[fmt + 1]
Intervals == Sizes[size + 1].intervals

\* Mutant of NextSize: a range does not end the list.
NextSizeGoesOn ==
    /\ pc = "size" /\ size < Len(Sizes)
    /\ CASE Sizes[size + 1].type = "discrete" ->
              PutLine(<<fmt, size>>) /\ interval' = 0 /\ pc' = "interval"
              /\ UNCHANGED size
         [] Sizes[size + 1].type = "range" ->
              PutLine(<<fmt, size>>) /\ size' = size + 1 /\ UNCHANGED <<pc, interval>>
         [] OTHER ->
              size' = size + 1 /\ UNCHANGED <<pc, interval, printed>>
    /\ UNCHANGED <<camera, opened, fmt, disturbed, listed>>

\* VIDIOC_ENUM_FRAMESIZES succeeds: a discrete size has intervals, a range is
\* the only entry, and a type that is not known is passed over.
NextSize ==
    /\ pc = "size" /\ size < Len(Sizes)
    /\ CASE Sizes[size + 1].type = "discrete" ->
              PutLine(<<fmt, size>>) /\ interval' = 0 /\ pc' = "interval"
              /\ UNCHANGED <<fmt, size>>
         [] Sizes[size + 1].type = "range" ->
              PutLine(<<fmt, size>>) /\ fmt' = fmt + 1 /\ pc' = "format"
              /\ UNCHANGED <<size, interval>>
         [] OTHER ->
              size' = size + 1 /\ UNCHANGED <<pc, fmt, interval, printed>>
    /\ UNCHANGED <<camera, opened, disturbed, listed>>

SizesEnd ==
    /\ pc = "size"
    /\ disturbed' = (disturbed \/ size < Len(Sizes))
    /\ fmt' = fmt + 1
    /\ pc' = "format"
    /\ UNCHANGED <<camera, opened, size, interval, printed, listed>>

\* print_interval: no line for a rate that would divide by zero, nor for a type
\* that is not known.
PrintInterval(type) ==
    IF type \in {"discrete", "range"} THEN PutLine(<<fmt, size, interval>>)
                                     ELSE UNCHANGED printed

\* VIDIOC_ENUM_FRAMEINTERVALS succeeds: what is not discrete ends the list.
NextInterval ==
    /\ pc = "interval" /\ interval < Len(Intervals)
    /\ PrintInterval(Intervals[interval + 1])
    /\ IF Intervals[interval + 1] \in {"discrete", "norate"}
       THEN interval' = interval + 1 /\ UNCHANGED <<pc, size>>
       ELSE size' = size + 1 /\ pc' = "size" /\ UNCHANGED interval
    /\ UNCHANGED <<camera, opened, fmt, disturbed, listed>>

IntervalsEnd ==
    /\ pc = "interval"
    /\ disturbed' = (disturbed \/ interval < Len(Intervals))
    /\ size' = size + 1
    /\ pc' = "size"
    /\ UNCHANGED <<camera, opened, fmt, interval, printed, listed>>

Next ==
    \/ Open \/ QueryCapabilities
    \/ NextFormat \/ FormatsEnd
    \/ NextSize \/ SizesEnd
    \/ NextInterval \/ IntervalsEnd

-----------------------------------------------------------------------------
(* What the lines of a camera should be                                    *)

\* Entries of a list with the given types that are asked for: those with none
\* of the types before them that end the list.
Reached(types, last) ==
    { i \in DOMAIN types : \A j \in 1..i-1 : types[j] \notin last }

SizeLines(f) ==
    { s \in Reached([k \in DOMAIN camera[f] |-> camera[f][k].type], {"range"}) :
        camera[f][s].type # "unknown" }

IntervalLines(f, s) ==
    { i \in Reached(camera[f][s].intervals, {"range", "unknown"}) :
        /\ camera[f][s].type = "discrete"
        /\ camera[f][s].intervals[i] \in {"discrete", "range"} }

Lines ==
    UNION { {<<f - 1>>} \cup UNION
              { {<<f - 1, s - 1>>} \cup
                { <<f - 1, s - 1, i - 1>> : i \in IntervalLines(f, s) } :
                s \in SizeLines(f) } :
            f \in DOMAIN camera }

\* A line comes before the lines of its parts and those of later entries.
Before(p, q) ==
    \/ Len(p) < Len(q) /\ \A k \in DOMAIN p : p[k] = q[k]
    \/ \E k \in DOMAIN p \cap DOMAIN q :
          p[k] < q[k] /\ \A j \in 1..k-1 : p[j] = q[j]

(***************************************************************************)
(* The three indexes are reset and advanced together: whatever fails,      *)
(* every line printed is one of the camera's, none is printed twice or out *)
(* of order, and if no ioctl failed early a successful listing is complete *)
(* (camera_device.c:67, 84 and 153).  An entry of a type that is not known *)
(* and an interval that is no rate have no line, but they take their index *)
(* like the others; a range of sizes or intervals is the last of its list, *)
(* and so is an interval, but not a size, of a type that is not known.     *)
(***************************************************************************)
PrintsWhatTheCameraOffers ==
    /\ \A i \in DOMAIN printed : printed[i] \in Lines
    /\ \A i, j \in DOMAIN printed : i < j => Before(printed[i], printed[j])
    /\ listed /\ ~disturbed => Lines = { printed[i] : i \in DOMAIN printed }
=============================================================================
