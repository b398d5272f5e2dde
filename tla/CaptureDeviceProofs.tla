------------------------- MODULE CaptureDeviceProofs -------------------------
(***************************************************************************)
(* Proofs about CaptureDevice for every number of buffers, every frame     *)
(* count and every failure of a system call.                               *)
(***************************************************************************)
EXTENDS CaptureDevice, TLAPS

-----------------------------------------------------------------------------
(* The inductive invariant                                                 *)

\* What camera_context_t and the driver hold at each step of main().
DeviceShape ==
    /\ pc \in {"open", "configure"} => mapped = {} /\ granted = 0
    /\ pc = "open" => ~device
    /\ pc \in {"open", "configure", "map", "queue", "streamon"} =>
          ~streaming /\ open = {}
    /\ pc \in {"map", "queue"} => index < granted
    /\ pc \in {"open", "configure"} => index = 0
    /\ pc = "map" => mapped = 0..(index - 1) /\ queued = {}
    /\ pc = "queue" => mapped = All /\ queued = 0..(index - 1)
    /\ pc \in {"streamon", "prepare", "loop"} => queued = All
    /\ pc \in {"streamon", "prepare", "loop", "handle", "giveback", "requeue"}
          => mapped = All
    /\ pc \in {"prepare", "loop", "handle", "giveback", "requeue"} => streaming
    /\ pc \in {"handle", "giveback", "requeue"} =>
          held \in All /\ queued = All \ {held}
    /\ pc \in {"prepare", "stop", "close", "exit"} => open = {}
    /\ pc = "exit" => mapped = {} /\ ~device /\ ~streaming

\* How far the output and the counts are.
TallyShape ==
    /\ pc \in {"open", "configure"} => written = <<>>
    /\ pc \notin {"requeue", "cleanup", "stop", "close", "exit"} =>
          count = Len(written)
    /\ pc = "requeue" =>
          /\ Len(written) = count + 1
          /\ written[count + 1] = bytesused
          /\ bytesused # 0
    /\ pc \in {"handle", "requeue"} => More
    /\ pc \notin {"handle", "requeue"} => wanted = 0 \/ count <= wanted
    /\ status => pc \in {"cleanup", "stop", "close", "exit"}
    /\ mode = "http" => pc \notin {"loop", "handle", "giveback", "requeue"}

\* What is said of the frames that were stored.
Account ==
    /\ TallyShape
    /\ ReportsWhatItStored
    /\ SuccessIsComplete
    /\ PreviewsWholePictures

DInv == TypeOK /\ DeviceShape /\ Account

-----------------------------------------------------------------------------
(* Every step keeps it                                                     *)

\* A sequence and one more frame.
LEMMA AppendFrame ==
    ASSUME NEW S, NEW seq \in Seq(S), NEW x \in S
    PROVE  /\ Append(seq, x) \in Seq(S)
           /\ Len(Append(seq, x)) = Len(seq) + 1
           /\ Append(seq, x)[Len(seq) + 1] = x
           /\ \A i \in 1..Len(seq) : Append(seq, x)[i] = seq[i]
OBVIOUS

\* The types.
LEMMA TypeStep == DInv /\ [Next]_vars => TypeOK'
<1> SUFFICES ASSUME DInv, [Next]_vars PROVE TypeOK'
  OBVIOUS
<1> USE DeviceAssumption DEF DInv, TypeOK, All, Modes, Formats, Sizes,
        vars, setting, deviceVars, driverVars, loopVars, outVars
<1>1. CASE Open
  <2>1. device' \in BOOLEAN /\ pc' \in {"configure", "exit"}
    BY <1>1 DEF Open
  <2>2. QED
    BY <1>1, <2>1 DEF Open
<1>2. CASE Configure
  BY <1>2 DEF DeviceShape, Configure
<1>3. CASE ConfigureFails
  BY <1>3 DEF ConfigureFails
<1>4. CASE MapBuffer
  <2>1. /\ index \in All /\ granted \in Nat /\ index \in Nat
        /\ index + 1 < granted => index + 1 \in 0..MaxBuffers
    BY <1>4 DEF DeviceShape, MapBuffer
  <2>2. /\ mapped' \subseteq All' /\ index' \in 0..MaxBuffers
        /\ pc' \in {"map", "queue"}
    BY <1>4, <2>1 DEF MapBuffer, Advance
  <2>3. QED
    BY <1>4, <2>2 DEF MapBuffer
<1>5. CASE MapFails
  BY <1>5 DEF MapFails
<1>6. CASE QueueBuffer
  BY <1>6 DEF DeviceShape, QueueBuffer, Advance
<1>7. CASE StreamOn
  BY <1>7 DEF StreamOn
<1>8. CASE StartFails
  BY <1>8 DEF StartFails
<1>9. CASE Prepare
  BY <1>9 DEF Prepare, Needs
<1>10. CASE PrepareFails
  BY <1>10 DEF PrepareFails, Needs
<1>11. CASE Skip
  BY <1>11 DEF Skip, Skipped
<1>12. CASE Store
  <2>1. bytesused \in {1, 2}
    BY <1>12 DEF Store, Skipped
  <2>2. written' \in Seq({1, 2})
    BY <1>12, <2>1 DEF Store
  <2>3. CASE mode = "preview"
    <3>1. /\ reported' = Append(reported, bytesused)
          /\ count' = count + 1
      BY <1>12, <2>3 DEF Store
    <3>2. reported' \in Seq({1, 2}) /\ count' \in Nat
      BY <2>1, <3>1, AppendFrame
    <3>3. QED
      BY <1>12, <2>2, <2>3, <3>2 DEF Store
  <2>4. CASE mode # "preview"
    BY <1>12, <2>2, <2>4 DEF Store
  <2>5. QED
    BY <2>3, <2>4
<1>13. CASE StoreFails
  BY <1>13 DEF DeviceShape, StoreFails, Skipped
<1>14. CASE Return
  BY <1>14 DEF DeviceShape, Return, GiveBack
<1>15. CASE ReturnAndCount
  <2>1. bytesused \in {1, 2}
    BY <1>15 DEF Account, TallyShape, ReturnAndCount
  <2>2. /\ reported' \in Seq({1, 2}) /\ count' \in Nat
        /\ buf' \in Sizes /\ queued' \subseteq All
    BY <1>15, <2>1 DEF DeviceShape, ReturnAndCount, GiveBack, Counted, Printed
  <2>3. QED
    BY <1>15, <2>2 DEF ReturnAndCount, GiveBack
<1>16. CASE ReturnFails
  BY <1>16 DEF ReturnFails
<1>17. CASE Finished
  BY <1>17 DEF Finished, More
<1>18. CASE Cleanup
  BY <1>18 DEF Cleanup
<1>19. CASE Stop
  <2>1. streaming' \in BOOLEAN /\ queued' \subseteq All
    BY <1>19 DEF Stop
  <2>2. QED
    BY <1>19, <2>1 DEF Stop
<1>20. CASE Close
  <2>1. device' \in BOOLEAN /\ mapped' \subseteq All /\ granted' \in 0..MaxBuffers
        /\ pc' = "exit"
    BY <1>20 DEF Close
  <2>2. QED
    BY <1>20, <2>1 DEF Close
<1>21. ASSUME NEW size \in Sizes, Dequeue(size) PROVE TypeOK'
  BY <1>21 DEF Dequeue, More
<1>22. CASE Timeout
  BY <1>22 DEF Timeout, More
<1>23. CASE CameraFails
  BY <1>23 DEF CameraFails, More
<1>24. CASE Exited
  BY <1>24 DEF Exited
<1>25. CASE UNCHANGED vars
  BY <1>25
<1>26. CASE Serve
  <2>1. queued' \subseteq All
    BY <1>26 DEF Serve
  <2>2. status' \in {FALSE, wanted > 0}
    BY <1>26 DEF Serve
  <2>3. (wanted > 0) \in BOOLEAN
    OBVIOUS
  <2>4. status' \in BOOLEAN
    BY <2>2, <2>3, Zenon
  <2>5. QED
    BY <1>26, <2>1, <2>4 DEF Serve
<1>27. QED
  BY <1>1, <1>2, <1>3, <1>4, <1>5, <1>6, <1>7, <1>8, <1>9, <1>10, <1>11, <1>12, <1>13, <1>14, <1>15, <1>16, <1>17, <1>18, <1>19, <1>20, <1>21, <1>22, <1>23, <1>24, <1>25, <1>26 DEF Next, Step

\* Mappings, buffers and the stream.
LEMMA DeviceStep == DInv /\ [Next]_vars => DeviceShape'
<1> SUFFICES ASSUME DInv, [Next]_vars PROVE DeviceShape'
  OBVIOUS
<1> USE DeviceAssumption DEF DInv, TypeOK, DeviceShape, All,
        vars, setting, deviceVars, driverVars, loopVars, outVars
<1>1. CASE Open
  BY <1>1 DEF Open
<1>2. CASE Configure
  BY <1>2 DEF Configure
<1>3. CASE ConfigureFails
  BY <1>3 DEF ConfigureFails
<1>4. CASE MapBuffer
  <2>1. /\ pc = "map" /\ index \in Nat /\ granted \in Nat /\ index < granted
        /\ mapped' = 0..index /\ queued' = {} /\ granted' = granted
    BY <1>4 DEF MapBuffer
  <2>2. CASE index + 1 < granted
    BY <1>4, <2>1, <2>2 DEF MapBuffer, Advance
  <2>3. CASE ~(index + 1 < granted)
    <3>1. mapped' = All' /\ index' = 0 /\ pc' = "queue"
      BY <1>4, <2>1, <2>3 DEF MapBuffer, Advance
    <3>2. QED
      BY <1>4, <2>1, <3>1 DEF MapBuffer
  <2>4. QED
    BY <2>2, <2>3
<1>5. CASE MapFails
  BY <1>5 DEF MapFails
<1>6. CASE QueueBuffer
  BY <1>6 DEF QueueBuffer, Advance
<1>7. CASE StreamOn
  BY <1>7 DEF StreamOn
<1>8. CASE StartFails
  BY <1>8 DEF StartFails
<1>9. CASE Prepare
  BY <1>9 DEF Prepare, Needs
<1>10. CASE PrepareFails
  BY <1>10 DEF PrepareFails, Needs
<1>11. CASE Skip
  BY <1>11 DEF Skip, Skipped
<1>12. CASE Store
  BY <1>12 DEF Store, Skipped
<1>13. CASE StoreFails
  BY <1>13 DEF StoreFails, Skipped
<1>14. CASE Return
  BY <1>14 DEF Return, GiveBack
<1>15. CASE ReturnAndCount
  BY <1>15 DEF ReturnAndCount, GiveBack, Counted, Printed
<1>16. CASE ReturnFails
  BY <1>16 DEF ReturnFails
<1>17. CASE Finished
  BY <1>17 DEF Finished, More
<1>18. CASE Cleanup
  BY <1>18 DEF Cleanup
<1>19. CASE Stop
  BY <1>19 DEF Stop
<1>20. CASE Close
  BY <1>20 DEF Close
<1>21. ASSUME NEW size \in Sizes, Dequeue(size) PROVE DeviceShape'
  BY <1>21 DEF Dequeue, More
<1>22. CASE Timeout
  BY <1>22 DEF Timeout, More
<1>23. CASE CameraFails
  BY <1>23 DEF CameraFails, More
<1>24. CASE Exited
  BY <1>24 DEF Exited
<1>25. CASE UNCHANGED vars
  BY <1>25
<1>26. CASE Serve
  BY <1>26 DEF Serve
<1>27. QED
  BY <1>1, <1>2, <1>3, <1>4, <1>5, <1>6, <1>7, <1>8, <1>9, <1>10, <1>11, <1>12, <1>13, <1>14, <1>15, <1>16, <1>17, <1>18, <1>19, <1>20, <1>21, <1>22, <1>23, <1>24, <1>25, <1>26 DEF Next, Step

\* The counts, the output and the report.
LEMMA AccountStep == DInv /\ [Next]_vars => Account'
<1> SUFFICES ASSUME DInv, [Next]_vars PROVE Account'
  OBVIOUS
<1> USE DeviceAssumption DEF DInv, TypeOK, Account, TallyShape, More,
        ReportsWhatItStored, SuccessIsComplete, PreviewsWholePictures, Sizes,
        vars, setting, deviceVars, driverVars, loopVars, outVars
<1>1. CASE Open \/ Configure \/ ConfigureFails
  BY <1>1 DEF Open, Configure, ConfigureFails
<1>2. CASE MapBuffer \/ MapFails \/ QueueBuffer \/ StreamOn \/ StartFails
  BY <1>2 DEF MapBuffer, MapFails, QueueBuffer, StreamOn, StartFails, Advance
<1>3. CASE Prepare \/ PrepareFails
  BY <1>3 DEF Prepare, PrepareFails
<1>4. ASSUME NEW size \in Sizes, Dequeue(size) PROVE Account'
  BY <1>4 DEF Dequeue
<1>5. CASE Timeout \/ CameraFails \/ Exited \/ UNCHANGED vars
  BY <1>5 DEF Timeout, CameraFails, Exited
<1>6. CASE Skip \/ StoreFails \/ ReturnFails
  BY <1>6 DEF Skip, StoreFails, ReturnFails
<1>7. CASE Store
  <2>1. /\ pc = "handle" /\ count = Len(written) /\ ~status /\ status' = status
        /\ mode' = mode /\ mode # "http" /\ format' = format
        /\ written' = Append(written, bytesused) /\ bytesused # 0
        /\ Len(written') = count + 1 /\ written'[count + 1] = bytesused
        /\ \A i \in 1..count : written'[i] = written[i]
    BY <1>7 DEF Store, Skipped
  <2>2. PreviewsWholePictures'
    BY <1>7, <2>1 DEF Store, Skipped
  <2>3. CASE mode = "preview"
    <3>1. /\ count' = count + 1 /\ pc' = "giveback" /\ wanted' = wanted
          /\ reported' = Append(reported, bytesused)
      BY <1>7, <2>3 DEF Store
    <3>2. /\ Len(reported') = count + 1 /\ reported'[count + 1] = bytesused
          /\ \A i \in 1..count : reported'[i] = reported[i]
      <4>1. count = Len(reported) /\ bytesused \in {1, 2}
        BY <2>1
      <4>2. QED
        BY <3>1, <4>1, AppendFrame
    <3>3. \A i \in 1..(count + 1) : reported'[i] = written'[i]
      BY <2>1, <3>2
    <3>4. ReportsWhatItStored'
      BY <2>1, <3>1, <3>2, <3>3
    <3>5. TallyShape' /\ SuccessIsComplete'
      BY <2>1, <3>1
    <3>6. QED
      BY <2>2, <3>4, <3>5
  <2>4. CASE mode # "preview"
    <3>1. /\ count' = count /\ pc' = "requeue" /\ wanted' = wanted
          /\ reported' = reported /\ bytesused' = bytesused
      BY <1>7, <2>4 DEF Store
    <3>2. \A i \in 1..count : reported'[i] = written'[i]
      BY <2>1, <3>1
    <3>3. ReportsWhatItStored'
      <4>1. count' = Len(reported') /\ Len(written') - count' = 1
        <5>1. count = Len(reported) /\ count \in Nat
          OBVIOUS
        <5>2. Len(written') - count = 1
          BY <2>1, <5>1
        <5>3. QED
          BY <3>1, <5>1, <5>2
      <4>2. \A i \in 1..count' : reported'[i] = written'[i]
        BY <3>1, <3>2
      <4>3. QED
        BY <3>1, <4>1, <4>2
    <3>4. TallyShape' /\ SuccessIsComplete'
      BY <2>1, <3>1
    <3>5. QED
      BY <2>2, <3>3, <3>4
  <2>5. QED
    BY <2>3, <2>4
<1>8. CASE Return
  BY <1>8 DEF Return, GiveBack
<1>9. CASE ReturnAndCount
  BY <1>9 DEF ReturnAndCount, GiveBack, Counted, Printed
<1>10. CASE Finished
  BY <1>10 DEF Finished
<1>11. CASE Cleanup \/ Stop \/ Close
  BY <1>11 DEF Cleanup, Stop, Close
<1>12. CASE Serve
  BY <1>12 DEF Serve, Supported
<1>13. QED
  BY <1>1, <1>2, <1>3, <1>4, <1>5, <1>6, <1>7, <1>8, <1>9, <1>10, <1>11, <1>12
     DEF Next, Step

\* A capture begins in the invariant.
LEMMA CaptureInit == Init => DInv
<1> SUFFICES ASSUME Init PROVE DInv
  OBVIOUS
<1> USE DeviceAssumption DEF Init
<1>1. TypeOK
  <2>1. written \in Seq({1, 2}) /\ reported \in Seq({1, 2})
    OBVIOUS
  <2>2. granted \in 0..MaxBuffers /\ index \in 0..MaxBuffers
    OBVIOUS
  <2>3. QED
    BY <2>1, <2>2 DEF TypeOK, Sizes
<1>2. DeviceShape
  BY DEF DeviceShape, All
<1>3. Account
  BY DEF Account, TallyShape, More, ReportsWhatItStored, SuccessIsComplete,
     PreviewsWholePictures
<1>4. QED
  BY <1>1, <1>2, <1>3 DEF DInv

\* Types, what is mapped, queued and open at each step, and the counts of a
\* capture hold in all its states.
THEOREM Invariance == Spec => []DInv
<1>1. DInv /\ [Next]_vars => DInv'
  BY TypeStep, DeviceStep, AccountStep DEF DInv
<1>2. QED
  BY CaptureInit, <1>1, PTL DEF Spec

(***************************************************************************)
(* Every variable of a capture keeps its type (CaptureDevice!TypeOK): no   *)
(* buffer number leaves the array, whatever the driver grants within it.   *)
(***************************************************************************)
THEOREM TypeCorrect == Spec => []TypeOK
<1>1. DInv => TypeOK
  BY DEF DInv
<1>2. QED
  BY <1>1, Invariance, PTL

(***************************************************************************)
(* Neither empty nor short frames nor failures starve the camera, and the  *)
(* loop works only on a mapped buffer that the driver does not fill.       *)
(***************************************************************************)
THEOREM BuffersReturned == Spec => []BuffersGoRound
<1>1. DInv => BuffersGoRound
  BY DEF DInv, BuffersGoRound, DeviceShape
<1>2. QED
  BY <1>1, Invariance, PTL

(***************************************************************************)
(* Success means exactly frame_count frames, all of them stored, or a      *)
(* service that was given JPEGs and a count.                               *)
(***************************************************************************)
THEOREM CompleteSuccess == Spec => []SuccessIsComplete
<1>1. DInv => SuccessIsComplete
  BY DEF DInv, Account
<1>2. QED
  BY <1>1, Invariance, PTL

(***************************************************************************)
(* The sizes printed are those stored, in order and without a gap.         *)
(***************************************************************************)
THEOREM HonestReport == Spec => []ReportsWhatItStored
<1>1. DInv => ReportsWhatItStored
  BY DEF DInv, Account
<1>2. QED
  BY <1>1, Invariance, PTL

(***************************************************************************)
(* yuyv_to_rgb565 is given whole pictures only.                            *)
(***************************************************************************)
THEOREM WholePictures == Spec => []PreviewsWholePictures
<1>1. DInv => PreviewsWholePictures
  BY DEF DInv, Account
<1>2. QED
  BY <1>1, Invariance, PTL
=============================================================================
