---------------------------- MODULE CommandLine ----------------------------
(***************************************************************************)
(* parse_args of main.c, one option at a time, its checks, and what main   *)
(* starts with the result.                                                 *)
(*                                                                         *)
(* An option is a record of its name and its argument.  An argument is     *)
(* what the program makes of it: a number for -w, -h, -r, -n and           *)
(* --motion-threshold (what atoi returns), a format or "bad" for -f,       *)
(* whether the port is one for --http-mjpeg, whether the device name is    *)
(* not empty for --fb-test.  Texts that are only stored are left out.      *)
(***************************************************************************)
EXTENDS Integers, Sequences

CONSTANT DefaultCount   \* frame_count without -n, 10 in camera_config_init

ASSUME CommandLineAssumption == DefaultCount \in Nat

\* camera_config_init, list_formats and fb_test_device; result says how the
\* loop over the options goes on.
Defaults ==
    [result |-> "run", w |-> 1024, h |-> 600, r |-> 30, n |-> DefaultCount,
     format |-> "YUYV", threshold |-> 20, list |-> FALSE, test |-> FALSE,
     noSave |-> FALSE, saveFrames |-> FALSE, http |-> FALSE,
     preview |-> FALSE, detect |-> FALSE, snapshots |-> FALSE]

\* One turn of the getopt_long loop: the switch over the options.
Effect(c, o) ==
    CASE o.name = "w" -> [c EXCEPT !.w = o.arg]
      [] o.name = "h" -> [c EXCEPT !.h = o.arg]
      [] o.name = "r" -> [c EXCEPT !.r = o.arg]
      [] o.name = "n" -> [c EXCEPT !.n = o.arg]
      [] o.name = "f" /\ o.arg # "bad" -> [c EXCEPT !.format = o.arg]
      [] o.name = "motion-threshold" -> [c EXCEPT !.threshold = o.arg]
      [] o.name = "L" -> [c EXCEPT !.list = TRUE]
      [] o.name = "fb-test" -> [c EXCEPT !.test = o.arg]
      [] o.name = "no-save" -> [c EXCEPT !.noSave = TRUE]
      [] o.name = "save-frames" -> [c EXCEPT !.saveFrames = TRUE]
      [] o.name = "http-mjpeg" /\ o.arg -> [c EXCEPT !.http = TRUE]
      [] o.name = "fb-preview" -> [c EXCEPT !.preview = TRUE]
      [] o.name = "motion-detect" -> [c EXCEPT !.detect = TRUE]
      [] o.name = "motion-dir" -> [c EXCEPT !.detect = TRUE, !.snapshots = TRUE]
      [] o.name = "help" -> [c EXCEPT !.result = "help"]
      [] OTHER -> [c EXCEPT !.result = "error"]

\* The checks after the loop.
Acceptable(c) ==
    /\ c.w > 0 /\ c.h > 0 /\ c.r > 0 /\ c.n >= 0
    /\ ~(c.noSave /\ c.saveFrames)
    /\ ~(c.http /\ (c.noSave \/ c.saveFrames))
    /\ ~(c.preview /\ (c.noSave \/ c.saveFrames))
    /\ c.threshold > 0
    /\ c.detect => c.format = "MJPG" /\ c.http

\* What parse_args returns for the configuration its loop leaves.
Checked(c) ==
    IF c.result = "run" /\ ~Acceptable(c) THEN [c EXCEPT !.result = "error"] ELSE c

\* What main does with a configuration.
Selected(c) ==
    CASE c.result # "run" -> "exit"
      [] c.result = "run" /\ c.list -> "list"
      [] c.result = "run" /\ ~c.list /\ c.test -> "test"
      [] OTHER -> "capture"

\* The capture camera_capture_to_file dispatches to, or its own three kinds.
ModeOf(c) ==
    CASE c.http -> "http"
      [] ~c.http /\ c.preview -> "preview"
      [] ~c.http /\ ~c.preview /\ c.saveFrames -> "frames"
      [] ~c.http /\ ~c.preview /\ ~c.saveFrames /\ c.noSave -> "nosave"
      [] OTHER -> "file"

-----------------------------------------------------------------------------
(* What a command line means, said of the set of its options               *)

Given(opts, name) == \E o \in opts : o.name = name

\* The argument of the option of that name, if there is one.
Argument(opts, name, default) ==
    IF Given(opts, name) THEN (CHOOSE o \in opts : o.name = name).arg ELSE default

\* An option that ends the parsing, and how: the usage, or an error.
Settings == {"w", "h", "r", "n", "f", "motion-threshold", "L", "fb-test", "no-save",
             "save-frames", "http-mjpeg", "fb-preview", "motion-detect", "motion-dir"}

Ends(o) ==
    \/ o.name \notin Settings
    \/ o.name = "f" /\ o.arg = "bad"
    \/ o.name = "http-mjpeg" /\ ~o.arg

Verdict(o) == IF o.name = "help" THEN "help" ELSE "error"

\* The usage text: each option sets its own part of the configuration.
Asked(opts) ==
    [result |-> "run",
     w |-> Argument(opts, "w", Defaults.w), h |-> Argument(opts, "h", Defaults.h),
     r |-> Argument(opts, "r", Defaults.r), n |-> Argument(opts, "n", Defaults.n),
     format |-> Argument(opts, "f", Defaults.format),
     threshold |-> Argument(opts, "motion-threshold", Defaults.threshold),
     test |-> Argument(opts, "fb-test", Defaults.test),
     list |-> Given(opts, "L"), noSave |-> Given(opts, "no-save"),
     saveFrames |-> Given(opts, "save-frames"), http |-> Given(opts, "http-mjpeg"),
     preview |-> Given(opts, "fb-preview"),
     detect |-> Given(opts, "motion-detect") \/ Given(opts, "motion-dir"),
     snapshots |-> Given(opts, "motion-dir")]

\* What the rest of the program can tell of a configuration.
Outcome(c) == IF c.result = "run" THEN c ELSE [Defaults EXCEPT !.result = c.result]

Meaning(opts) ==
    IF \E o \in opts : Ends(o)
    THEN [Defaults EXCEPT !.result = Verdict(CHOOSE o \in opts : Ends(o))]
    ELSE Outcome(Checked(Asked(opts)))

\* Options given once each, of which at most one ends the parsing.
Plain(options) ==
    \A i, j \in DOMAIN options :
        /\ options[i].name = options[j].name => i = j
        /\ Ends(options[i]) /\ Ends(options[j]) => i = j

(***************************************************************************)
(* The command line is not ambiguous (main.c:75-181).  The outcome of      *)
(* options given once each is a function of their set: their order does    *)
(* not matter, and each has the effect the usage text gives it.  And in a  *)
(* capture that is started no option that chooses what is captured is      *)
(* dropped in silence, however often options are given, and motion         *)
(* detection has its JPEGs and its viewers.                                *)
(***************************************************************************)
Unambiguous(options, c) ==
    LET opts == { options[i] : i \in DOMAIN options }
    IN  /\ Plain(options) => Outcome(c) = Meaning(opts)
        /\ Selected(c) = "capture" =>
              /\ Given(opts, "no-save") => ModeOf(c) = "nosave"
              /\ Given(opts, "save-frames") => ModeOf(c) = "frames"
              /\ Given(opts, "http-mjpeg") => ModeOf(c) = "http"
              /\ Given(opts, "fb-preview") => ModeOf(c) \in {"preview", "http"}
              /\ Given(opts, "motion-detect") => c.detect
              /\ Given(opts, "motion-dir") => c.snapshots
              /\ c.detect => ModeOf(c) = "http" /\ c.format = "MJPG"
=============================================================================
