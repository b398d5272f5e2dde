--------------------------- MODULE HttpServiceProofs ---------------------------
(***************************************************************************)
(* Proofs about HttpService for every number of connections, buffers and   *)
(* heap blocks, in both modes and under every kind of failure.             *)
(***************************************************************************)
EXTENDS HttpServiceProperties, FiniteSetTheorems, TLAPS

-----------------------------------------------------------------------------
(* The inductive invariant                                                 *)

\* Where main is tells which connection it handles and what already exists.
MainShape ==
    /\ serving # None <=>
          mainPc \in {"recv", "count", "create", "uncount", "join"}
    /\ mainPc \in {"count", "create", "uncount", "join"} => path[serving] # None
    /\ mainPc = "setup" => svc = "uninit"
    /\ mainPc \in {"spawn", "listen", "accept", "recv", "count", "create",
                   "uncount", "join"} => svc = "live"
    /\ mainPc \in {"setup", "spawn"} => capPc = "none"
    /\ svc = "uninit" =>
          /\ capPc = "none" /\ latest = None /\ connected = 0
          /\ \A c \in Clients : pc[c] = "none"
    /\ svc = "destroyed" =>
          latest = None /\ mainPc \in {"release", "exit", "crashed"}
    /\ mainPc \in {"release", "exit"} => svc # "live"
    /\ mainPc \in {"destroy", "release", "exit", "crashed"} =>
          capPc \in {"none", "done"}

\* The capture thread holds a buffer from DQBUF to QBUF, a copy until it is
\* published.
CaptureShape ==
    /\ capPc \in {"copy", "publish", "tally", "qbuf"} =>
          held # None /\ nextSeq > 0
    /\ capPc = "none" => held = None
    /\ capCopy # None <=> capPc = "publish"

\* A client thread serves the request of its connection, and has a frame copy
\* only while it sends.
ClientShape ==
    \A c \in Clients :
        /\ pc[c] = "send" => copy[c] # None
        /\ copy[c] # None => pc[c] \in {"send", "reply"}
        /\ pc[c] # "none" => path[c] # None
        /\ pc[c] \in {"header", "wait", "asleep", "woken", "timedout", "check",
                      "send"} => path[c] = "stream"
        /\ pc[c] \in {"copy", "read", "text", "reply"} => path[c] # "stream"

IInv ==
    /\ TypeOK
    /\ MainShape
    /\ CaptureShape
    /\ ClientShape
    /\ EveryCopyHasOneOwner
    /\ EverySocketHasOneOwner

-----------------------------------------------------------------------------
(* Lemmas about the operators                                              *)

\* Where a client thread starts, for each kind of request.
LEMMA FirstPcValues ==
    ASSUME NEW r \in RequestKinds
    PROVE  /\ FirstPc[r] \in {"header", "copy", "read", "reply"}
           /\ r = "stream" <=> FirstPc[r] = "header"
<1>1. CASE r = "stream"
  BY <1>1 DEF FirstPc
<1>2. CASE r = "snapshot"
  BY <1>2 DEF FirstPc
<1>3. CASE r = "metrics"
  BY <1>3 DEF FirstPc
<1>4. CASE r = "other"
  BY <1>4 DEF FirstPc
<1>5. QED
  BY <1>1, <1>2, <1>3, <1>4 DEF RequestKinds

\* frame_copy_alloc of service->latest into the copy of client c: the block was
\* nobody's, so ownership is kept.
LEMMA CopyingLatest ==
    ASSUME IInv, NEW c \in Clients, copy[c] = None, latest # None,
           NEW b \in Block, Malloc(b),
           mem' = [mem EXCEPT ![b] = mem[latest]],
           copy' = [copy EXCEPT ![c] = b],
           UNCHANGED <<latest, capCopy>>
    PROVE  /\ mem[latest] \in Sequence
           /\ mem' \in [Block -> Sequence \cup {None}]
           /\ copy' \in [Clients -> Block \cup {None}]
           /\ mem'[latest] = mem[latest] /\ mem'[copy'[c]] = mem[latest]
           /\ \A a \in Block : mem[a] # None => mem'[a] = mem[a]
           /\ EveryCopyHasOneOwner'
<1> USE HttpAssumption DEF IInv, TypeOK, Block, Malloc
<1>1. mem[latest] \in Sequence
  BY DEF EveryCopyHasOneOwner
<1>2. b # latest /\ b # capCopy /\ \A d \in Clients : copy[d] # b
  BY DEF EveryCopyHasOneOwner
<1>3. /\ mem' \in [Block -> Sequence \cup {None}]
      /\ copy' \in [Clients -> Block \cup {None}]
  BY <1>1
<1>4. /\ mem'[latest] = mem[latest] /\ mem'[copy'[c]] = mem[latest]
      /\ \A a \in Block : mem[a] # None => mem'[a] = mem[a]
  BY <1>2
<1>5. ASSUME NEW a \in Block
      PROVE  mem'[a] # None <=> a = latest' \/ a = capCopy'
                                  \/ \E d \in Clients : copy'[d] = a
  <2>1. CASE a = b
    BY <1>1, <2>1 DEF Sequence
  <2>2. CASE a # b
    <3>1. (\E d \in Clients : copy'[d] = a) <=> (\E d \in Clients : copy[d] = a)
      BY <2>2
    <3>2. mem'[a] = mem[a]
      BY <2>2
    <3>3. QED
      BY <3>1, <3>2 DEF EveryCopyHasOneOwner
  <2>3. QED
    BY <2>1, <2>2
<1>6. latest' # None => latest' # capCopy'
  BY DEF EveryCopyHasOneOwner
<1>7. ASSUME NEW d \in Clients, copy'[d] # None
      PROVE  /\ copy'[d] # latest' /\ copy'[d] # capCopy'
             /\ \A e \in Clients \ {d} : copy'[d] # copy'[e]
  BY <1>2, <1>7 DEF EveryCopyHasOneOwner
<1>8. QED
  BY <1>1, <1>3, <1>4, <1>5, <1>6, <1>7 DEF EveryCopyHasOneOwner

\* http_service_wait_latest has nothing to take and sleeps.
LEMMA WaitSleeps ==
    ASSUME NEW c, WaitLatest(c), ~(stop \/ HasNew(c))
    PROVE  /\ pc' = [pc EXCEPT ![c] = "asleep"]
           /\ UNCHANGED <<mem, copy, lastSeq, mainVars, svcVars, capVars, netVars>>
BY DEF WaitLatest

\* Whatever it finds, it moves one client and leaves main alone.
LEMMA WaitMovesOne ==
    ASSUME pc \in [Clients -> ClientPcs], NEW c \in Clients, WaitLatest(c)
    PROVE  /\ pc[c] \in {"wait", "woken"} /\ UNCHANGED <<mainPc, serving>>
           /\ \A d \in Clients \ {c} : pc'[d] = pc[d]
BY DEF WaitLatest, TakeLatest, mainVars

\* The check of service->stop and service->failed touches no frame.
LEMMA CheckStopKeeps ==
    ASSUME NEW c, CheckStop(c)
    PROVE  UNCHANGED <<mem, copy, latest, capCopy>>
BY DEF CheckStop, svcVars, capVars

\* The two ends of http_service_wait_latest.
LEMMA TakeLatestCases ==
    ASSUME IInv, NEW c \in Clients, TakeLatest(c),
           pc[c] \in {"wait", "woken", "timedout"},
           UNCHANGED <<latest, capCopy>>
    PROVE  /\ \/ /\ ~stop /\ HasNew(c)
                 /\ mem[latest] \in Sequence
                 /\ pc' = [pc EXCEPT ![c] = "send"]
                 /\ lastSeq' = [lastSeq EXCEPT ![c] = mem[latest]]
                 /\ copy'[c] # None
                 /\ mem'[latest] = mem[latest] /\ mem'[copy'[c]] = mem[latest]
                 /\ \A d \in Clients \ {c} : copy'[d] = copy[d]
              \/ /\ pc' = [pc EXCEPT ![c] = "check"]
                 /\ UNCHANGED <<mem, copy, lastSeq>>
           /\ mem' \in [Block -> Sequence \cup {None}]
           /\ copy' \in [Clients -> Block \cup {None}]
           /\ lastSeq' \in [Clients -> Sequence]
           /\ pc' \in [Clients -> ClientPcs]
           /\ \A a \in Block : mem[a] # None => mem'[a] = mem[a]
           /\ EveryCopyHasOneOwner'
<1> USE HttpAssumption DEF ClientPcs
<1>1. copy[c] = None
  BY DEF IInv, ClientShape
<1>2. CASE UNCHANGED <<mem, copy, lastSeq>> /\ pc' = [pc EXCEPT ![c] = "check"]
  BY <1>2 DEF IInv, TypeOK, EveryCopyHasOneOwner
<1>3. ASSUME ~stop, HasNew(c), NEW b \in Block, Malloc(b),
             mem' = [mem EXCEPT ![b] = mem[latest]],
             copy' = [copy EXCEPT ![c] = b],
             lastSeq' = [lastSeq EXCEPT ![c] = mem[latest]],
             pc' = [pc EXCEPT ![c] = "send"]
      PROVE  /\ mem[latest] \in Sequence
             /\ copy'[c] # None
             /\ mem'[latest] = mem[latest] /\ mem'[copy'[c]] = mem[latest]
             /\ \A d \in Clients \ {c} : copy'[d] = copy[d]
             /\ mem' \in [Block -> Sequence \cup {None}]
             /\ copy' \in [Clients -> Block \cup {None}]
             /\ lastSeq' \in [Clients -> Sequence]
             /\ pc' \in [Clients -> ClientPcs]
             /\ \A a \in Block : mem[a] # None => mem'[a] = mem[a]
             /\ EveryCopyHasOneOwner'
  <2>1. latest # None
    BY <1>3 DEF HasNew
  <2>2. copy'[c] # None /\ \A d \in Clients \ {c} : copy'[d] = copy[d]
    BY <1>3 DEF IInv, TypeOK, Block
  <2>3. /\ mem[latest] \in Sequence
        /\ mem' \in [Block -> Sequence \cup {None}]
        /\ copy' \in [Clients -> Block \cup {None}]
        /\ mem'[latest] = mem[latest] /\ mem'[copy'[c]] = mem[latest]
        /\ \A a \in Block : mem[a] # None => mem'[a] = mem[a]
        /\ EveryCopyHasOneOwner'
    BY <1>1, <1>3, <2>1, CopyingLatest
  <2>4. lastSeq' \in [Clients -> Sequence] /\ pc' \in [Clients -> ClientPcs]
    BY <1>3, <2>3 DEF IInv, TypeOK
  <2>5. QED
    BY <2>2, <2>3, <2>4
<1>4. QED
  BY <1>2, <1>3 DEF TakeLatest

\* The types, in the groups of variables that a step changes together.
MainTypes ==
    /\ mainPc \in MainPcs /\ serving \in Clients \cup {None}
    /\ listening \in BOOLEAN /\ display \in BOOLEAN

ServiceTypes ==
    /\ svc \in {"uninit", "live", "destroyed"}
    /\ stop \in BOOLEAN /\ failed \in BOOLEAN
    /\ latest \in Block \cup {None} /\ connected \in Nat

CaptureTypes ==
    /\ capPc \in CapturePcs /\ queued \subseteq Buffers
    /\ held \in Buffers \cup {None} /\ nextSeq \in 0..(MaxSeq + 1)
    /\ capCopy \in Block \cup {None}
    /\ captured \in Nat /\ empties \in Nat /\ dropped \in Nat

ClientTypes ==
    /\ pc \in [Clients -> ClientPcs] /\ lastSeq \in [Clients -> Sequence]
    /\ copy \in [Clients -> Block \cup {None}]

SocketTypes ==
    /\ fd \in [Clients -> {"none", "pending", "open", "closed"}]
    /\ path \in [Clients -> RequestKinds \cup {None}] /\ gone \subseteq Clients

HeapTypes == mem \in [Block -> Sequence \cup {None}]

LEMMA TypesInParts ==
    /\ TypeOK <=> /\ MainTypes /\ ServiceTypes /\ CaptureTypes
                  /\ ClientTypes /\ SocketTypes /\ HeapTypes
    /\ TypeOK' <=> /\ MainTypes' /\ ServiceTypes' /\ CaptureTypes'
                   /\ ClientTypes' /\ SocketTypes' /\ HeapTypes'
BY DEF TypeOK, MainTypes, ServiceTypes, CaptureTypes, ClientTypes, SocketTypes,
   HeapTypes

\* What is left alone keeps its type.
LEMMA TypesStay ==
    ASSUME TypeOK
    PROVE  /\ UNCHANGED mainVars => MainTypes'
           /\ UNCHANGED svcVars => ServiceTypes'
           /\ UNCHANGED capVars => CaptureTypes'
           /\ UNCHANGED clientVars => ClientTypes'
           /\ UNCHANGED netVars => SocketTypes'
           /\ UNCHANGED mem => HeapTypes'
<1>1. UNCHANGED mainVars => MainTypes'
  BY TypesInParts DEF MainTypes, mainVars
<1>2. UNCHANGED svcVars => ServiceTypes'
  BY TypesInParts DEF ServiceTypes, svcVars
<1>3. UNCHANGED capVars => CaptureTypes'
  BY TypesInParts DEF CaptureTypes, capVars
<1>4. UNCHANGED clientVars => ClientTypes'
  BY TypesInParts DEF ClientTypes, clientVars
<1>5. UNCHANGED netVars => SocketTypes'
  BY TypesInParts DEF SocketTypes, netVars
<1>6. UNCHANGED mem => HeapTypes'
  BY TypesInParts DEF HeapTypes
<1>7. QED
  BY <1>1, <1>2, <1>3, <1>4, <1>5, <1>6

(***************************************************************************)
(* Types are preserved.                                                    *)
(***************************************************************************)
LEMMA TypeStep == IInv /\ [Next]_vars => TypeOK'
<1> SUFFICES ASSUME IInv, [Next]_vars PROVE TypeOK'
  OBVIOUS
<1> USE HttpAssumption DEF Block, Sequence
<1>0. /\ TypeOK /\ MainTypes /\ ServiceTypes /\ CaptureTypes
      /\ ClientTypes /\ SocketTypes /\ HeapTypes
  BY TypesInParts DEF IInv
<1>1. CASE CaptureCheck
  <2>1. CaptureTypes'
    BY <1>0, <1>1 DEF CaptureCheck, CaptureTypes, CapturePcs
  <2>2. QED
    BY <1>0, <1>1, <2>1, TypesStay, TypesInParts DEF CaptureCheck
<1>2. CASE SelectTimeout
  <2>1. CaptureTypes'
    BY <1>0, <1>2 DEF SelectTimeout, CaptureTypes, CapturePcs
  <2>2. QED
    BY <1>0, <1>2, <2>1, TypesStay, TypesInParts DEF SelectTimeout
<1>3. CASE Dequeue
  <2>1. CaptureTypes'
    BY <1>0, <1>3 DEF Dequeue, CaptureTypes, CapturePcs
  <2>2. QED
    BY <1>0, <1>3, <2>1, TypesStay, TypesInParts DEF Dequeue
<1>4. CASE DriverFails
  <2>1. ServiceTypes'
    BY <1>0, <1>4 DEF DriverFails, ServiceTypes
  <2>2. CaptureTypes'
    BY <1>0, <1>4 DEF DriverFails, CaptureTypes, CapturePcs
  <2>3. ClientTypes'
    BY <1>0, <1>4 DEF DriverFails, ClientTypes, ClientPcs, Broadcast
  <2>4. QED
    BY <1>0, <1>4, <2>1, <2>2, <2>3, TypesStay, TypesInParts DEF DriverFails
<1>5. CASE CopyFrame
  <2>1. CaptureTypes'
    BY <1>0, <1>5 DEF CopyFrame, CaptureTypes, CapturePcs, CaptureShape, IInv
  <2>2. HeapTypes'
    BY <1>0, <1>5 DEF CopyFrame, HeapTypes, Malloc, HeldSeq, CaptureShape,
       IInv, CaptureTypes
  <2>3. QED
    BY <1>0, <1>5, <2>1, <2>2, TypesStay, TypesInParts DEF CopyFrame
<1>6. CASE CopyFrameFails
  <2>1. ServiceTypes'
    BY <1>0, <1>6 DEF CopyFrameFails, ServiceTypes
  <2>2. CaptureTypes'
    BY <1>0, <1>6 DEF CopyFrameFails, CaptureTypes, CapturePcs
  <2>3. ClientTypes'
    BY <1>0, <1>6 DEF CopyFrameFails, ClientTypes, ClientPcs, Broadcast
  <2>4. QED
    BY <1>0, <1>6, <2>1, <2>2, <2>3, TypesStay, TypesInParts DEF CopyFrameFails
<1>7. CASE Publish
  <2>1. ServiceTypes'
    BY <1>0, <1>7 DEF Publish, ServiceTypes, CaptureTypes
  <2>2. CaptureTypes'
    BY <1>0, <1>7 DEF Publish, CaptureTypes, CapturePcs
  <2>3. ClientTypes'
    BY <1>0, <1>7 DEF Publish, ClientTypes, ClientPcs, Broadcast
  <2>4. HeapTypes'
    BY <1>0, <1>7 DEF Publish, HeapTypes
  <2>5. QED
    BY <1>0, <1>7, <2>1, <2>2, <2>3, <2>4, TypesStay, TypesInParts DEF Publish
<1>8. CASE CountFrame
  <2>1. CaptureTypes'
    BY <1>0, <1>8 DEF CountFrame, CaptureTypes, CapturePcs
  <2>2. QED
    BY <1>0, <1>8, <2>1, TypesStay, TypesInParts DEF CountFrame
<1>9. CASE Requeue
  <2>1. CaptureTypes'
    BY <1>0, <1>9 DEF Requeue, CaptureTypes, CapturePcs, CaptureShape, IInv
  <2>2. QED
    BY <1>0, <1>9, <2>1, TypesStay, TypesInParts DEF Requeue
<1>10. CASE CaptureLeaves
  <2>1. ServiceTypes'
    BY <1>0, <1>10 DEF CaptureLeaves, ServiceTypes
  <2>2. CaptureTypes'
    BY <1>0, <1>10 DEF CaptureLeaves, CaptureTypes, CapturePcs
  <2>3. ClientTypes'
    BY <1>0, <1>10 DEF CaptureLeaves, ClientTypes, ClientPcs, Broadcast
  <2>4. QED
    BY <1>0, <1>10, <2>1, <2>2, <2>3, TypesStay, TypesInParts DEF CaptureLeaves
<1>11. CASE Setup
  <2>1. MainTypes'
    BY <1>0, <1>11 DEF Setup, MainTypes, MainPcs, MainGoes
  <2>2. ServiceTypes'
    BY <1>0, <1>11 DEF Setup, ServiceTypes
  <2>3. QED
    BY <1>0, <1>11, <2>1, <2>2, TypesStay, TypesInParts DEF Setup
<1>12. CASE SpawnCapture
  <2>1. MainTypes'
    BY <1>0, <1>12 DEF SpawnCapture, MainTypes, MainPcs, MainGoes
  <2>2. CaptureTypes'
    BY <1>0, <1>12 DEF SpawnCapture, CaptureTypes, CapturePcs
  <2>3. QED
    BY <1>0, <1>12, <2>1, <2>2, TypesStay, TypesInParts DEF SpawnCapture
<1>13. CASE Listen
  <2>1. MainTypes'
    BY <1>0, <1>13 DEF Listen, MainTypes, MainPcs, MainGoes
  <2>2. QED
    BY <1>0, <1>13, <2>1, TypesStay, TypesInParts DEF Listen
<1>14. CASE Accept
  <2>1. MainTypes'
    BY <1>0, <1>14 DEF Accept, MainTypes, MainPcs, MainGoes
  <2>2. SocketTypes'
    BY <1>0, <1>14 DEF Accept, SocketTypes, RequestKinds
  <2>3. QED
    BY <1>0, <1>14, <2>1, <2>2, TypesStay, TypesInParts DEF Accept
<1>15. CASE AcceptFails
  <2>1. MainTypes'
    BY <1>0, <1>15 DEF AcceptFails, MainTypes, MainPcs, MainGoes
  <2>2. QED
    BY <1>0, <1>15, <2>1, TypesStay, TypesInParts DEF AcceptFails
<1>16. CASE Receive
  <2>1. MainTypes'
    BY <1>0, <1>16 DEF Receive, MainTypes, MainPcs, MainGoes
  <2>2. QED
    BY <1>0, <1>16, <2>1, TypesStay, TypesInParts DEF Receive
<1>17. CASE ReceiveFails
  <2>1. MainTypes'
    BY <1>0, <1>17 DEF ReceiveFails, MainTypes, MainPcs, MainGoes,
       CloseServing
  <2>2. SocketTypes'
    BY <1>0, <1>17 DEF ReceiveFails, SocketTypes, RequestKinds, CloseServing
  <2>3. QED
    BY <1>0, <1>17, <2>1, <2>2, TypesStay, TypesInParts DEF ReceiveFails
<1>18. CASE CountClient
  <2>1. MainTypes'
    BY <1>0, <1>18 DEF CountClient, MainTypes, MainPcs, MainGoes
  <2>2. ServiceTypes'
    BY <1>0, <1>18 DEF CountClient, ServiceTypes
  <2>3. QED
    BY <1>0, <1>18, <2>1, <2>2, TypesStay, TypesInParts DEF CountClient
<1>19. CASE CreateClient
  <2>1. MainTypes'
    BY <1>0, <1>19 DEF CreateClient, MainTypes, MainPcs, MainGoes
  <2>2. serving \in Clients /\ path[serving] \in RequestKinds
    BY <1>0, <1>19 DEF CreateClient, MainTypes, SocketTypes, IInv, MainShape
  <2>3. FirstPc[path[serving]] \in {"header", "copy", "read", "reply"}
    BY <2>2, FirstPcValues
  <2>4. ClientTypes'
    BY <1>0, <1>19, <2>2, <2>3 DEF CreateClient, ClientTypes, ClientPcs
  <2>5. QED
    BY <1>0, <1>19, <2>1, <2>4, TypesStay, TypesInParts DEF CreateClient
<1>20. CASE CreateClientFails
  <2>1. MainTypes'
    BY <1>0, <1>20 DEF CreateClientFails, MainTypes, MainPcs, MainGoes
  <2>2. QED
    BY <1>0, <1>20, <2>1, TypesStay, TypesInParts DEF CreateClientFails
<1>21. CASE UncountClient
  <2>1. MainTypes'
    BY <1>0, <1>21 DEF UncountClient, MainTypes, MainPcs, MainGoes,
       CloseServing
  <2>2. ServiceTypes'
    BY <1>0, <1>21 DEF UncountClient, ServiceTypes, Decremented
  <2>3. SocketTypes'
    BY <1>0, <1>21 DEF UncountClient, SocketTypes, RequestKinds, CloseServing
  <2>4. QED
    BY <1>0, <1>21, <2>1, <2>2, <2>3, TypesStay, TypesInParts DEF UncountClient
<1>22. CASE JoinClient
  <2>1. MainTypes'
    BY <1>0, <1>22 DEF JoinClient, MainTypes, MainPcs, MainGoes
  <2>2. QED
    BY <1>0, <1>22, <2>1, TypesStay, TypesInParts DEF JoinClient
<1>23. CASE StopService
  <2>1. MainTypes'
    BY <1>0, <1>23 DEF StopService, MainTypes, MainPcs, MainGoes
  <2>2. ServiceTypes'
    BY <1>0, <1>23 DEF StopService, ServiceTypes
  <2>3. ClientTypes'
    BY <1>0, <1>23 DEF StopService, ClientTypes, ClientPcs, Broadcast
  <2>4. QED
    BY <1>0, <1>23, <2>1, <2>2, <2>3, TypesStay, TypesInParts DEF StopService
<1>24. CASE JoinCapture
  <2>1. MainTypes'
    BY <1>0, <1>24 DEF JoinCapture, MainTypes, MainPcs, MainGoes
  <2>2. SocketTypes'
    BY <1>0, <1>24 DEF JoinCapture, SocketTypes, RequestKinds
  <2>3. QED
    BY <1>0, <1>24, <2>1, <2>2, TypesStay, TypesInParts DEF JoinCapture
<1>25. CASE DestroyService
  <2>1. MainTypes'
    BY <1>0, <1>25 DEF DestroyService, MainTypes, MainPcs, MainGoes
  <2>2. ServiceTypes'
    <3>1. /\ svc' \in {svc, "destroyed"} /\ latest' \in {latest, None}
          /\ UNCHANGED <<stop, failed, connected>>
      BY <1>25 DEF DestroyService
    <3>2. QED
      BY <1>0, <3>1 DEF ServiceTypes
  <2>3. HeapTypes'
    BY <1>0, <1>25 DEF DestroyService, HeapTypes
  <2>4. QED
    BY <1>0, <1>25, <2>1, <2>2, <2>3, TypesStay, TypesInParts DEF DestroyService
<1>26. CASE ReleaseCamera
  <2>1. MainTypes'
    BY <1>0, <1>26 DEF ReleaseCamera, MainTypes, MainPcs, MainGoes
  <2>2. CaptureTypes'
    BY <1>0, <1>26 DEF ReleaseCamera, CaptureTypes, CapturePcs
  <2>3. QED
    BY <1>0, <1>26, <2>1, <2>2, TypesStay, TypesInParts DEF ReleaseCamera
<1>27. ASSUME NEW c \in Clients, WaitLatest(c) PROVE TypeOK'
  <2>1. ClientTypes' /\ HeapTypes'
    <3>1. CASE stop \/ HasNew(c)
      BY <1>27, <3>1, TakeLatestCases
         DEF WaitLatest, ClientTypes, HeapTypes, svcVars, capVars
    <3>2. CASE ~(stop \/ HasNew(c))
      BY <1>0, <1>27, <3>2, WaitSleeps DEF ClientTypes, HeapTypes, ClientPcs
    <3>3. QED
      BY <3>1, <3>2
  <2>2. QED
    BY <1>0, <1>27, <2>1, TypesStay, TypesInParts DEF WaitLatest
<1>28. ASSUME NEW c \in Clients, DeadlinePasses(c) PROVE TypeOK'
  <2>1. ClientTypes'
    BY <1>0, <1>28 DEF DeadlinePasses, ClientTypes, ClientPcs
  <2>2. QED
    BY <1>0, <1>28, <2>1, TypesStay, TypesInParts DEF DeadlinePasses
<1>29. ASSUME NEW c \in Clients, TimedOut(c) PROVE TypeOK'
  <2>1. ClientTypes' /\ HeapTypes'
    BY <1>29, TakeLatestCases
       DEF TimedOut, ClientTypes, HeapTypes, svcVars, capVars
  <2>2. QED
    BY <1>0, <1>29, <2>1, TypesStay, TypesInParts DEF TimedOut
<1>30. ASSUME NEW c \in Clients, CheckStop(c) PROVE TypeOK'
  <2>1. ClientTypes'
    BY <1>0, <1>30 DEF CheckStop, ClientTypes, ClientPcs
  <2>2. QED
    BY <1>0, <1>30, <2>1, TypesStay, TypesInParts DEF CheckStop
<1>31. ASSUME NEW c \in Clients, CopyLatest(c) PROVE TypeOK'
  <2>1. copy[c] = None
    BY <1>31 DEF IInv, ClientShape, CopyLatest
  <2>2. /\ mem' \in [Block -> Sequence \cup {None}]
        /\ copy' \in [Clients -> Block \cup {None}]
    <3>1. CASE UNCHANGED <<mem, copy>>
      BY <1>0, <3>1 DEF ClientTypes, HeapTypes
    <3>2. ASSUME latest # None, NEW b \in Block, Malloc(b),
                 mem' = [mem EXCEPT ![b] = mem[latest]],
                 copy' = [copy EXCEPT ![c] = b]
          PROVE  /\ mem' \in [Block -> Sequence \cup {None}]
                 /\ copy' \in [Clients -> Block \cup {None}]
      BY <1>31, <2>1, <3>2, CopyingLatest DEF CopyLatest, svcVars, capVars
    <3>3. QED
      BY <1>31, <3>1, <3>2 DEF CopyLatest
  <2>3. pc' \in [Clients -> ClientPcs] /\ UNCHANGED lastSeq
    BY <1>0, <1>31 DEF CopyLatest, ClientTypes, ClientPcs
  <2>4. ClientTypes' /\ HeapTypes'
    BY <1>0, <2>2, <2>3 DEF ClientTypes, HeapTypes
  <2>5. QED
    BY <1>0, <1>31, <2>4, TypesStay, TypesInParts DEF CopyLatest
<1>32. ASSUME NEW c \in Clients, ReadMetrics(c) PROVE TypeOK'
  <2>1. ClientTypes'
    BY <1>0, <1>32 DEF ReadMetrics, ClientTypes, ClientPcs
  <2>2. QED
    BY <1>0, <1>32, <2>1, TypesStay, TypesInParts DEF ReadMetrics
<1>33. ASSUME NEW c \in Clients, FormatMetrics(c) PROVE TypeOK'
  <2>1. ClientTypes'
    BY <1>0, <1>33 DEF FormatMetrics, ClientTypes, ClientPcs
  <2>2. QED
    BY <1>0, <1>33, <2>1, TypesStay, TypesInParts DEF FormatMetrics
<1>34. ASSUME NEW c \in Clients, Finish(c) PROVE TypeOK'
  <2>1. ServiceTypes'
    BY <1>0, <1>34 DEF Finish, ServiceTypes, Decremented
  <2>2. ClientTypes'
    BY <1>0, <1>34 DEF Finish, ClientTypes, ClientPcs
  <2>3. QED
    BY <1>0, <1>34, <2>1, <2>2, TypesStay, TypesInParts DEF Finish
<1>35. ASSUME NEW c \in Clients, CloseClient(c) PROVE TypeOK'
  <2>1. ClientTypes'
    BY <1>0, <1>35 DEF CloseClient, ClientTypes, ClientPcs
  <2>2. SocketTypes'
    BY <1>0, <1>35 DEF CloseClient, SocketTypes, RequestKinds
  <2>3. QED
    BY <1>0, <1>35, <2>1, <2>2, TypesStay, TypesInParts DEF CloseClient
<1>36. ASSUME NEW c \in Clients, UseDestroyed(c) PROVE TypeOK'
  <2>1. MainTypes'
    BY <1>0, <1>36 DEF UseDestroyed, MainTypes, MainPcs
  <2>2. ClientTypes'
    BY <1>0, <1>36 DEF UseDestroyed, ClientTypes, ClientPcs
  <2>3. QED
    BY <1>0, <1>36, <2>1, <2>2, TypesStay, TypesInParts DEF UseDestroyed
<1>37. ASSUME NEW c \in Clients, SendHeader(c) PROVE TypeOK'
  <2>1. ClientTypes'
    BY <1>0, <1>37 DEF SendHeader, ClientTypes, ClientPcs
  <2>2. QED
    BY <1>0, <1>37, <2>1, TypesStay, TypesInParts DEF SendHeader
<1>38. ASSUME NEW c \in Clients, SendFrame(c) PROVE TypeOK'
  <2>1. copy[c] \in Block
    BY <1>0, <1>38 DEF IInv, ClientShape, ClientTypes, SendFrame
  <2>2. ClientTypes'
    BY <1>0, <1>38 DEF SendFrame, ClientTypes, ClientPcs
  <2>3. HeapTypes'
    BY <1>0, <1>38, <2>1 DEF SendFrame, HeapTypes
  <2>4. QED
    BY <1>0, <1>38, <2>2, <2>3, TypesStay, TypesInParts DEF SendFrame
<1>39. ASSUME NEW c \in Clients, Reply(c) PROVE TypeOK'
  <2>1. ClientTypes'
    BY <1>0, <1>39 DEF Reply, ClientTypes, ClientPcs
  <2>2. HeapTypes'
    BY <1>0, <1>39 DEF Reply, HeapTypes
  <2>3. QED
    BY <1>0, <1>39, <2>1, <2>2, TypesStay, TypesInParts DEF Reply
<1>40. ASSUME NEW c \in Clients, Connect(c) PROVE TypeOK'
  <2>1. SocketTypes'
    BY <1>0, <1>40 DEF Connect, SocketTypes, RequestKinds
  <2>2. QED
    BY <1>0, <1>40, <2>1, TypesStay, TypesInParts DEF Connect
<1>41. ASSUME NEW c \in Clients, SendRequest(c) PROVE TypeOK'
  <2>1. SocketTypes'
    BY <1>0, <1>41 DEF SendRequest, SocketTypes, RequestKinds
  <2>2. QED
    BY <1>0, <1>41, <2>1, TypesStay, TypesInParts DEF SendRequest
<1>42. ASSUME NEW c \in Clients, HangUp(c) PROVE TypeOK'
  <2>1. SocketTypes'
    BY <1>0, <1>42 DEF HangUp, SocketTypes, RequestKinds
  <2>2. QED
    BY <1>0, <1>42, <2>1, TypesStay, TypesInParts DEF HangUp
<1>43. CASE UNCHANGED vars
  BY <1>0, <1>43, TypesStay, TypesInParts DEF vars
<1>44. QED
  BY <1>1, <1>2, <1>3, <1>4, <1>5, <1>6, <1>7, <1>8, <1>9, <1>10, <1>11,
     <1>12, <1>13, <1>14, <1>15, <1>16, <1>17, <1>18, <1>19, <1>20, <1>21,
     <1>22, <1>23, <1>24, <1>25, <1>26, <1>27, <1>28, <1>29, <1>30, <1>31,
     <1>32, <1>33, <1>34, <1>35, <1>36, <1>37, <1>38, <1>39, <1>40, <1>41,
     <1>42, <1>43 DEF Next, Main, Capture, Local, Send, Peer

(***************************************************************************)
(* Main's place still tells what exists.                                   *)
(***************************************************************************)
LEMMA MainStep == IInv /\ [Next]_vars => MainShape'
<1> SUFFICES ASSUME IInv, [Next]_vars PROVE MainShape'
  OBVIOUS
<1> USE HttpAssumption, FirstPcValues DEF IInv, TypeOK, MainShape,
     CaptureShape, ClientShape, Block, Sequence, MainPcs, CapturePcs,
     ClientPcs, RequestKinds, vars, mainVars, svcVars, capVars, clientVars,
     netVars
<1>1. CASE CaptureCheck
  BY <1>1 DEF CaptureCheck
<1>2. CASE SelectTimeout
  BY <1>2 DEF SelectTimeout
<1>3. CASE Dequeue
  BY <1>3 DEF Dequeue
<1>4. CASE DriverFails
  BY <1>4 DEF DriverFails, Broadcast
<1>5. CASE CopyFrame
  BY <1>5 DEF CopyFrame, Malloc, MallocFails, HeldSeq
<1>6. CASE CopyFrameFails
  BY <1>6 DEF CopyFrameFails, MallocFails, Broadcast
<1>7. CASE Publish
  BY <1>7 DEF Publish, Broadcast
<1>8. CASE CountFrame
  BY <1>8 DEF CountFrame
<1>9. CASE Requeue
  BY <1>9 DEF Requeue
<1>10. CASE CaptureLeaves
  BY <1>10 DEF CaptureLeaves, Broadcast
<1>11. CASE Setup
  BY <1>11 DEF Setup, MainGoes
<1>12. CASE SpawnCapture
  BY <1>12 DEF SpawnCapture, MainGoes
<1>13. CASE Listen
  BY <1>13 DEF Listen, MainGoes
<1>14. CASE Accept
  BY <1>14 DEF Accept, MainGoes
<1>15. CASE AcceptFails
  BY <1>15 DEF AcceptFails, MainGoes
<1>16. CASE Receive
  BY <1>16 DEF Receive, MainGoes
<1>17. CASE ReceiveFails
  BY <1>17 DEF ReceiveFails, CloseServing, MainGoes
<1>18. CASE CountClient
  BY <1>18 DEF CountClient, MainGoes
<1>19. CASE CreateClient
  BY <1>19 DEF CreateClient, MainGoes
<1>20. CASE CreateClientFails
  BY <1>20 DEF CreateClientFails, MainGoes
<1>21. CASE UncountClient
  BY <1>21 DEF UncountClient, CloseServing, MainGoes, Decremented
<1>22. CASE JoinClient
  BY <1>22 DEF JoinClient, MainGoes
<1>23. CASE StopService
  BY <1>23 DEF StopService, Broadcast, MainGoes
<1>24. CASE JoinCapture
  BY <1>24 DEF JoinCapture, MainGoes
<1>25. CASE DestroyService
  BY <1>25 DEF DestroyService, MainGoes
<1>26. CASE ReleaseCamera
  BY <1>26 DEF ReleaseCamera, MainGoes
<1>27. ASSUME NEW c \in Clients, WaitLatest(c) PROVE MainShape'
  BY <1>27 DEF WaitLatest, HasNew, TakeLatest, Malloc, MallocFails
<1>28. ASSUME NEW c \in Clients, DeadlinePasses(c) PROVE MainShape'
  BY <1>28 DEF DeadlinePasses
<1>29. ASSUME NEW c \in Clients, TimedOut(c) PROVE MainShape'
  BY <1>29 DEF TimedOut, TakeLatest, Malloc, MallocFails, HasNew
<1>30. ASSUME NEW c \in Clients, CheckStop(c) PROVE MainShape'
  BY <1>30 DEF CheckStop
<1>31. ASSUME NEW c \in Clients, CopyLatest(c) PROVE MainShape'
  BY <1>31 DEF CopyLatest, Malloc, MallocFails
<1>32. ASSUME NEW c \in Clients, ReadMetrics(c) \/ FormatMetrics(c)
       PROVE  MainShape'
  <2>1. CASE ReadMetrics(c)
    BY <2>1 DEF ReadMetrics
  <2>2. CASE FormatMetrics(c)
    BY <2>2 DEF FormatMetrics
  <2>3. QED
    BY <1>32, <2>1, <2>2
<1>33. ASSUME NEW c \in Clients, Finish(c) PROVE MainShape'
  BY <1>33 DEF Finish, Decremented
<1>34. ASSUME NEW c \in Clients, CloseClient(c) PROVE MainShape'
  BY <1>34 DEF CloseClient
<1>35. ASSUME NEW c \in Clients, UseDestroyed(c) PROVE MainShape'
  BY <1>35 DEF UseDestroyed, UsesService
<1>36. ASSUME NEW c \in Clients, SendHeader(c) PROVE MainShape'
  BY <1>36 DEF SendHeader
<1>37. ASSUME NEW c \in Clients, SendFrame(c) PROVE MainShape'
  BY <1>37 DEF SendFrame
<1>38. ASSUME NEW c \in Clients, Reply(c) PROVE MainShape'
  BY <1>38 DEF Reply
<1>39. ASSUME NEW c \in Clients, Connect(c) PROVE MainShape'
  BY <1>39 DEF Connect
<1>40. ASSUME NEW c \in Clients, SendRequest(c) PROVE MainShape'
  BY <1>40 DEF SendRequest
<1>41. ASSUME NEW c \in Clients, HangUp(c) PROVE MainShape'
  BY <1>41 DEF HangUp
<1>42. CASE UNCHANGED vars
  BY <1>42
<1>43. QED
  BY <1>1, <1>2, <1>3, <1>4, <1>5, <1>6, <1>7, <1>8, <1>9, <1>10, <1>11, <1>12,
     <1>13, <1>14, <1>15, <1>16, <1>17, <1>18, <1>19, <1>20, <1>21, <1>22,
     <1>23, <1>24, <1>25, <1>26, <1>27, <1>28, <1>29, <1>30, <1>31, <1>32,
     <1>33, <1>34, <1>35, <1>36, <1>37, <1>38, <1>39, <1>40, <1>41, <1>42
     DEF Next, Main, Capture, Local, Send, Peer

(***************************************************************************)
(* The capture thread still holds what its place says.                     *)
(***************************************************************************)
LEMMA CaptureStep == IInv /\ [Next]_vars => CaptureShape'
<1> SUFFICES ASSUME IInv, [Next]_vars PROVE CaptureShape'
  OBVIOUS
<1> USE HttpAssumption DEF IInv, TypeOK, MainShape, CaptureShape, Block,
     Sequence, MainPcs, CapturePcs, ClientPcs, RequestKinds, vars, mainVars,
     svcVars, capVars, clientVars, netVars
<1>1. CASE CaptureCheck
  BY <1>1 DEF CaptureCheck
<1>2. CASE SelectTimeout
  BY <1>2 DEF SelectTimeout
<1>3. CASE Dequeue
  BY <1>3 DEF Dequeue
<1>4. CASE DriverFails
  BY <1>4 DEF DriverFails, Broadcast
<1>5. CASE CopyFrame
  BY <1>5 DEF CopyFrame, Malloc, MallocFails, HeldSeq
<1>6. CASE CopyFrameFails
  BY <1>6 DEF CopyFrameFails, MallocFails, Broadcast
<1>7. CASE Publish
  BY <1>7 DEF Publish, Broadcast
<1>8. CASE CountFrame
  BY <1>8 DEF CountFrame
<1>9. CASE Requeue
  BY <1>9 DEF Requeue
<1>10. CASE CaptureLeaves
  BY <1>10 DEF CaptureLeaves, Broadcast
<1>11. CASE Setup
  BY <1>11 DEF Setup, MainGoes
<1>12. CASE SpawnCapture
  BY <1>12 DEF SpawnCapture, MainGoes
<1>13. CASE Listen
  BY <1>13 DEF Listen, MainGoes
<1>14. CASE Accept
  BY <1>14 DEF Accept, MainGoes
<1>15. CASE AcceptFails
  BY <1>15 DEF AcceptFails, MainGoes
<1>16. CASE Receive
  BY <1>16 DEF Receive, MainGoes
<1>17. CASE ReceiveFails
  BY <1>17 DEF ReceiveFails, CloseServing, MainGoes
<1>18. CASE CountClient
  BY <1>18 DEF CountClient, MainGoes
<1>19. CASE CreateClient
  BY <1>19 DEF CreateClient, MainGoes
<1>20. CASE CreateClientFails
  BY <1>20 DEF CreateClientFails, MainGoes
<1>21. CASE UncountClient
  BY <1>21 DEF UncountClient, CloseServing, MainGoes, Decremented
<1>22. CASE JoinClient
  BY <1>22 DEF JoinClient, MainGoes
<1>23. CASE StopService
  BY <1>23 DEF StopService, Broadcast, MainGoes
<1>24. CASE JoinCapture
  BY <1>24 DEF JoinCapture, MainGoes
<1>25. CASE DestroyService
  BY <1>25 DEF DestroyService, MainGoes
<1>26. CASE ReleaseCamera
  BY <1>26 DEF ReleaseCamera, MainGoes
<1>27. ASSUME NEW c \in Clients, WaitLatest(c) PROVE CaptureShape'
  BY <1>27 DEF WaitLatest, HasNew, TakeLatest, Malloc, MallocFails
<1>28. ASSUME NEW c \in Clients, DeadlinePasses(c) PROVE CaptureShape'
  BY <1>28 DEF DeadlinePasses
<1>29. ASSUME NEW c \in Clients, TimedOut(c) PROVE CaptureShape'
  BY <1>29 DEF TimedOut, TakeLatest, Malloc, MallocFails, HasNew
<1>30. ASSUME NEW c \in Clients, CheckStop(c) PROVE CaptureShape'
  BY <1>30 DEF CheckStop
<1>31. ASSUME NEW c \in Clients, CopyLatest(c) PROVE CaptureShape'
  BY <1>31 DEF CopyLatest, Malloc, MallocFails
<1>32. ASSUME NEW c \in Clients, ReadMetrics(c) \/ FormatMetrics(c)
       PROVE  CaptureShape'
  <2>1. CASE ReadMetrics(c)
    BY <2>1 DEF ReadMetrics
  <2>2. CASE FormatMetrics(c)
    BY <2>2 DEF FormatMetrics
  <2>3. QED
    BY <1>32, <2>1, <2>2
<1>33. ASSUME NEW c \in Clients, Finish(c) PROVE CaptureShape'
  BY <1>33 DEF Finish, Decremented
<1>34. ASSUME NEW c \in Clients, CloseClient(c) PROVE CaptureShape'
  BY <1>34 DEF CloseClient
<1>35. ASSUME NEW c \in Clients, UseDestroyed(c) PROVE CaptureShape'
  BY <1>35 DEF UseDestroyed, UsesService
<1>36. ASSUME NEW c \in Clients, SendHeader(c) PROVE CaptureShape'
  BY <1>36 DEF SendHeader
<1>37. ASSUME NEW c \in Clients, SendFrame(c) PROVE CaptureShape'
  BY <1>37 DEF SendFrame
<1>38. ASSUME NEW c \in Clients, Reply(c) PROVE CaptureShape'
  BY <1>38 DEF Reply
<1>39. ASSUME NEW c \in Clients, Connect(c) PROVE CaptureShape'
  BY <1>39 DEF Connect
<1>40. ASSUME NEW c \in Clients, SendRequest(c) PROVE CaptureShape'
  BY <1>40 DEF SendRequest
<1>41. ASSUME NEW c \in Clients, HangUp(c) PROVE CaptureShape'
  BY <1>41 DEF HangUp
<1>42. CASE UNCHANGED vars
  BY <1>42
<1>43. QED
  BY <1>1, <1>2, <1>3, <1>4, <1>5, <1>6, <1>7, <1>8, <1>9, <1>10, <1>11, <1>12,
     <1>13, <1>14, <1>15, <1>16, <1>17, <1>18, <1>19, <1>20, <1>21, <1>22,
     <1>23, <1>24, <1>25, <1>26, <1>27, <1>28, <1>29, <1>30, <1>31, <1>32,
     <1>33, <1>34, <1>35, <1>36, <1>37, <1>38, <1>39, <1>40, <1>41, <1>42
     DEF Next, Main, Capture, Local, Send, Peer

(***************************************************************************)
(* Client threads still hold what their place says.                        *)
(***************************************************************************)
LEMMA ClientStep == IInv /\ [Next]_vars => ClientShape'
<1> SUFFICES ASSUME IInv, [Next]_vars PROVE ClientShape'
  OBVIOUS
<1> USE HttpAssumption DEF IInv, TypeOK, MainShape, CaptureShape, ClientShape,
     Block, Sequence, MainPcs, CapturePcs, ClientPcs, RequestKinds, vars,
     mainVars, svcVars, capVars, clientVars, netVars
<1>1. CASE CaptureCheck
  BY <1>1 DEF CaptureCheck
<1>2. CASE SelectTimeout
  BY <1>2 DEF SelectTimeout
<1>3. CASE Dequeue
  BY <1>3 DEF Dequeue
<1>4. CASE DriverFails
  BY <1>4 DEF DriverFails, Broadcast
<1>5. CASE CopyFrame
  BY <1>5 DEF CopyFrame, Malloc, MallocFails, HeldSeq
<1>6. CASE CopyFrameFails
  BY <1>6 DEF CopyFrameFails, MallocFails, Broadcast
<1>7. CASE Publish
  BY <1>7 DEF Publish, Broadcast
<1>8. CASE CountFrame
  BY <1>8 DEF CountFrame
<1>9. CASE Requeue
  BY <1>9 DEF Requeue
<1>10. CASE CaptureLeaves
  BY <1>10 DEF CaptureLeaves, Broadcast
<1>11. CASE Setup
  BY <1>11 DEF Setup, MainGoes
<1>12. CASE SpawnCapture
  BY <1>12 DEF SpawnCapture, MainGoes
<1>13. CASE Listen
  BY <1>13 DEF Listen, MainGoes
<1>14. CASE Accept
  BY <1>14 DEF Accept, MainGoes
<1>15. CASE AcceptFails
  BY <1>15 DEF AcceptFails, MainGoes
<1>16. CASE Receive
  BY <1>16 DEF Receive, MainGoes
<1>17. CASE ReceiveFails
  BY <1>17 DEF ReceiveFails, CloseServing, MainGoes
<1>18. CASE CountClient
  BY <1>18 DEF CountClient, MainGoes
<1>19. CASE CreateClient
  <2>1. serving \in Clients /\ path[serving] \in RequestKinds
    BY <1>19 DEF CreateClient
  <2>2. FirstPc[path[serving]] \in {"header", "copy", "read", "reply"}
    BY <2>1, FirstPcValues
  <2>3. path[serving] = "stream" <=> FirstPc[path[serving]] = "header"
    BY <2>1, FirstPcValues
  <2>4. copy[serving] = None
    BY <2>1, <1>19 DEF CreateClient, EverySocketHasOneOwner, MainOwns, ThreadOwns
  <2>5. QED
    BY <1>19, <2>1, <2>2, <2>3, <2>4 DEF CreateClient, MainGoes
<1>20. CASE CreateClientFails
  BY <1>20 DEF CreateClientFails, MainGoes
<1>21. CASE UncountClient
  BY <1>21 DEF UncountClient, CloseServing, MainGoes, Decremented
<1>22. CASE JoinClient
  BY <1>22 DEF JoinClient, MainGoes
<1>23. CASE StopService
  BY <1>23 DEF StopService, Broadcast, MainGoes
<1>24. CASE JoinCapture
  BY <1>24 DEF JoinCapture, MainGoes
<1>25. CASE DestroyService
  BY <1>25 DEF DestroyService, MainGoes
<1>26. CASE ReleaseCamera
  BY <1>26 DEF ReleaseCamera, MainGoes
<1>27. ASSUME NEW c \in Clients, WaitLatest(c) PROVE ClientShape'
  BY <1>27 DEF WaitLatest, HasNew, TakeLatest, Malloc, MallocFails
<1>28. ASSUME NEW c \in Clients, DeadlinePasses(c) PROVE ClientShape'
  BY <1>28 DEF DeadlinePasses
<1>29. ASSUME NEW c \in Clients, TimedOut(c) PROVE ClientShape'
  BY <1>29 DEF TimedOut, TakeLatest, Malloc, MallocFails, HasNew
<1>30. ASSUME NEW c \in Clients, CheckStop(c) PROVE ClientShape'
  BY <1>30 DEF CheckStop
<1>31. ASSUME NEW c \in Clients, CopyLatest(c) PROVE ClientShape'
  BY <1>31 DEF CopyLatest, Malloc, MallocFails
<1>32. ASSUME NEW c \in Clients, ReadMetrics(c) \/ FormatMetrics(c)
       PROVE  ClientShape'
  <2>1. CASE ReadMetrics(c)
    BY <2>1 DEF ReadMetrics
  <2>2. CASE FormatMetrics(c)
    BY <2>2 DEF FormatMetrics
  <2>3. QED
    BY <1>32, <2>1, <2>2
<1>33. ASSUME NEW c \in Clients, Finish(c) PROVE ClientShape'
  BY <1>33 DEF Finish, Decremented
<1>34. ASSUME NEW c \in Clients, CloseClient(c) PROVE ClientShape'
  BY <1>34 DEF CloseClient
<1>35. ASSUME NEW c \in Clients, UseDestroyed(c) PROVE ClientShape'
  BY <1>35 DEF UseDestroyed, UsesService
<1>36. ASSUME NEW c \in Clients, SendHeader(c) PROVE ClientShape'
  BY <1>36 DEF SendHeader
<1>37. ASSUME NEW c \in Clients, SendFrame(c) PROVE ClientShape'
  BY <1>37 DEF SendFrame
<1>38. ASSUME NEW c \in Clients, Reply(c) PROVE ClientShape'
  BY <1>38 DEF Reply
<1>39. ASSUME NEW c \in Clients, Connect(c) PROVE ClientShape'
  BY <1>39 DEF Connect
<1>40. ASSUME NEW c \in Clients, SendRequest(c) PROVE ClientShape'
  BY <1>40 DEF SendRequest
<1>41. ASSUME NEW c \in Clients, HangUp(c) PROVE ClientShape'
  BY <1>41 DEF HangUp
<1>42. CASE UNCHANGED vars
  BY <1>42
<1>43. QED
  BY <1>1, <1>2, <1>3, <1>4, <1>5, <1>6, <1>7, <1>8, <1>9, <1>10, <1>11, <1>12,
     <1>13, <1>14, <1>15, <1>16, <1>17, <1>18, <1>19, <1>20, <1>21, <1>22,
     <1>23, <1>24, <1>25, <1>26, <1>27, <1>28, <1>29, <1>30, <1>31, <1>32,
     <1>33, <1>34, <1>35, <1>36, <1>37, <1>38, <1>39, <1>40, <1>41, <1>42
     DEF Next, Main, Capture, Local, Send, Peer

(***************************************************************************)
(* Every frame copy still has one owner.                                   *)
(***************************************************************************)
LEMMA OwnerStep == IInv /\ [Next]_vars => EveryCopyHasOneOwner'
<1> SUFFICES ASSUME IInv, [Next]_vars PROVE EveryCopyHasOneOwner'
  OBVIOUS
<1> USE HttpAssumption DEF IInv, TypeOK, MainShape, CaptureShape, ClientShape,
     EveryCopyHasOneOwner, Block, Sequence, MainPcs, CapturePcs, ClientPcs,
     RequestKinds, vars, mainVars, svcVars, capVars, clientVars, netVars
<1>1. CASE CaptureCheck
  BY <1>1 DEF CaptureCheck
<1>2. CASE SelectTimeout
  BY <1>2 DEF SelectTimeout
<1>3. CASE Dequeue
  BY <1>3 DEF Dequeue
<1>4. CASE DriverFails
  BY <1>4 DEF DriverFails, Broadcast
<1>5. CASE CopyFrame
  BY <1>5 DEF CopyFrame, Malloc, MallocFails, HeldSeq
<1>6. CASE CopyFrameFails
  BY <1>6 DEF CopyFrameFails, MallocFails, Broadcast
<1>7. CASE Publish
  BY <1>7 DEF Publish, Broadcast
<1>8. CASE CountFrame
  BY <1>8 DEF CountFrame
<1>9. CASE Requeue
  BY <1>9 DEF Requeue
<1>10. CASE CaptureLeaves
  BY <1>10 DEF CaptureLeaves, Broadcast
<1>11. CASE Setup
  BY <1>11 DEF Setup, MainGoes
<1>12. CASE SpawnCapture
  BY <1>12 DEF SpawnCapture, MainGoes
<1>13. CASE Listen
  BY <1>13 DEF Listen, MainGoes
<1>14. CASE Accept
  BY <1>14 DEF Accept, MainGoes
<1>15. CASE AcceptFails
  BY <1>15 DEF AcceptFails, MainGoes
<1>16. CASE Receive
  BY <1>16 DEF Receive, MainGoes
<1>17. CASE ReceiveFails
  BY <1>17 DEF ReceiveFails, CloseServing, MainGoes
<1>18. CASE CountClient
  BY <1>18 DEF CountClient, MainGoes
<1>19. CASE CreateClient
  BY <1>19 DEF CreateClient, MainGoes
<1>20. CASE CreateClientFails
  BY <1>20 DEF CreateClientFails, MainGoes
<1>21. CASE UncountClient
  BY <1>21 DEF UncountClient, CloseServing, MainGoes, Decremented
<1>22. CASE JoinClient
  BY <1>22 DEF JoinClient, MainGoes
<1>23. CASE StopService
  BY <1>23 DEF StopService, Broadcast, MainGoes
<1>24. CASE JoinCapture
  BY <1>24 DEF JoinCapture, MainGoes
<1>25. CASE DestroyService
  BY <1>25 DEF DestroyService, MainGoes
<1>26. CASE ReleaseCamera
  BY <1>26 DEF ReleaseCamera, MainGoes
<1>27. ASSUME NEW c \in Clients, WaitLatest(c) PROVE EveryCopyHasOneOwner'
  <2>1. CASE TakeLatest(c)
    BY <1>27, <2>1, TakeLatestCases DEF WaitLatest
  <2>2. CASE UNCHANGED <<mem, copy>>
    BY <1>27, <2>2 DEF WaitLatest, EveryCopyHasOneOwner
  <2>3. QED
    BY <1>27, <2>1, <2>2 DEF WaitLatest
<1>28. ASSUME NEW c \in Clients, DeadlinePasses(c) PROVE EveryCopyHasOneOwner'
  BY <1>28 DEF DeadlinePasses
<1>29. ASSUME NEW c \in Clients, TimedOut(c) PROVE EveryCopyHasOneOwner'
  BY <1>29, TakeLatestCases DEF TimedOut
<1>30. ASSUME NEW c \in Clients, CheckStop(c) PROVE EveryCopyHasOneOwner'
  <2>1. UNCHANGED <<mem, copy, latest, capCopy>>
    BY <1>30, CheckStopKeeps
  <2>2. QED
    BY <2>1
<1>31. ASSUME NEW c \in Clients, CopyLatest(c) PROVE EveryCopyHasOneOwner'
  <2>1. copy[c] = None
    BY <1>31 DEF CopyLatest
  <2>2. CASE UNCHANGED <<mem, copy>>
    BY <1>31, <2>2 DEF CopyLatest, EveryCopyHasOneOwner
  <2>3. CASE ~UNCHANGED <<mem, copy>>
    BY <1>31, <2>1, <2>3, CopyingLatest DEF CopyLatest
  <2>4. QED
    BY <2>2, <2>3
<1>32. ASSUME NEW c \in Clients, ReadMetrics(c) \/ FormatMetrics(c)
       PROVE  EveryCopyHasOneOwner'
  <2>1. CASE ReadMetrics(c)
    BY <2>1 DEF ReadMetrics
  <2>2. CASE FormatMetrics(c)
    BY <2>2 DEF FormatMetrics
  <2>3. QED
    BY <1>32, <2>1, <2>2
<1>33. ASSUME NEW c \in Clients, Finish(c) PROVE EveryCopyHasOneOwner'
  BY <1>33 DEF Finish, Decremented
<1>34. ASSUME NEW c \in Clients, CloseClient(c) PROVE EveryCopyHasOneOwner'
  BY <1>34 DEF CloseClient
<1>35. ASSUME NEW c \in Clients, UseDestroyed(c) PROVE EveryCopyHasOneOwner'
  BY <1>35 DEF UseDestroyed, UsesService
<1>36. ASSUME NEW c \in Clients, SendHeader(c) PROVE EveryCopyHasOneOwner'
  BY <1>36 DEF SendHeader
<1>37. ASSUME NEW c \in Clients, SendFrame(c) PROVE EveryCopyHasOneOwner'
  BY <1>37 DEF SendFrame
<1>38. ASSUME NEW c \in Clients, Reply(c) PROVE EveryCopyHasOneOwner'
  BY <1>38 DEF Reply
<1>39. ASSUME NEW c \in Clients, Connect(c) PROVE EveryCopyHasOneOwner'
  BY <1>39 DEF Connect
<1>40. ASSUME NEW c \in Clients, SendRequest(c) PROVE EveryCopyHasOneOwner'
  BY <1>40 DEF SendRequest
<1>41. ASSUME NEW c \in Clients, HangUp(c) PROVE EveryCopyHasOneOwner'
  BY <1>41 DEF HangUp
<1>42. CASE UNCHANGED vars
  BY <1>42
<1>43. QED
  BY <1>1, <1>2, <1>3, <1>4, <1>5, <1>6, <1>7, <1>8, <1>9, <1>10, <1>11, <1>12,
     <1>13, <1>14, <1>15, <1>16, <1>17, <1>18, <1>19, <1>20, <1>21, <1>22,
     <1>23, <1>24, <1>25, <1>26, <1>27, <1>28, <1>29, <1>30, <1>31, <1>32,
     <1>33, <1>34, <1>35, <1>36, <1>37, <1>38, <1>39, <1>40, <1>41, <1>42
     DEF Next, Main, Capture, Local, Send, Peer

(***************************************************************************)
(* Every socket still has one owner.                                       *)
(***************************************************************************)
LEMMA SocketStep == IInv /\ [Next]_vars => EverySocketHasOneOwner'
<1> SUFFICES ASSUME IInv, [Next]_vars PROVE EverySocketHasOneOwner'
  OBVIOUS
<1> USE HttpAssumption DEF IInv, TypeOK, MainShape, CaptureShape, ClientShape,
     EverySocketHasOneOwner, MainOwns, ThreadOwns, Block, Sequence, MainPcs,
     CapturePcs, ClientPcs, RequestKinds, vars, mainVars, svcVars, capVars,
     clientVars, netVars
<1>1. CASE CaptureCheck
  BY <1>1 DEF CaptureCheck
<1>2. CASE SelectTimeout
  BY <1>2 DEF SelectTimeout
<1>3. CASE Dequeue
  BY <1>3 DEF Dequeue
<1>4. CASE DriverFails
  BY <1>4 DEF DriverFails, Broadcast
<1>5. CASE CopyFrame
  BY <1>5 DEF CopyFrame, Malloc, MallocFails, HeldSeq
<1>6. CASE CopyFrameFails
  BY <1>6 DEF CopyFrameFails, MallocFails, Broadcast
<1>7. CASE Publish
  BY <1>7 DEF Publish, Broadcast
<1>8. CASE CountFrame
  BY <1>8 DEF CountFrame
<1>9. CASE Requeue
  BY <1>9 DEF Requeue
<1>10. CASE CaptureLeaves
  BY <1>10 DEF CaptureLeaves, Broadcast
<1>11. CASE Setup
  BY <1>11 DEF Setup, MainGoes
<1>12. CASE SpawnCapture
  BY <1>12 DEF SpawnCapture, MainGoes
<1>13. CASE Listen
  BY <1>13 DEF Listen, MainGoes
<1>14. CASE Accept
  BY <1>14 DEF Accept, MainGoes
<1>15. CASE AcceptFails
  BY <1>15 DEF AcceptFails, MainGoes
<1>16. CASE Receive
  BY <1>16 DEF Receive, MainGoes
<1>17. CASE ReceiveFails
  BY <1>17 DEF ReceiveFails, CloseServing, MainGoes
<1>18. CASE CountClient
  BY <1>18 DEF CountClient, MainGoes
<1>19. CASE CreateClient
  <2>1. /\ serving \in Clients /\ path[serving] \in RequestKinds
        /\ mainPc = "create"
    BY <1>19 DEF CreateClient
  <2>2. FirstPc[path[serving]] \notin {"none", "done"}
    BY <2>1, FirstPcValues
  <2>3. fd[serving] = "open"
    BY <2>1
  <2>4. /\ pc' = [pc EXCEPT ![serving] = FirstPc[path[serving]]]
        /\ mainPc' \in {"accept", "join"} /\ UNCHANGED fd
    BY <1>19 DEF CreateClient, MainGoes
  <2>5. QED
    BY <2>1, <2>2, <2>3, <2>4
<1>20. CASE CreateClientFails
  BY <1>20 DEF CreateClientFails, MainGoes
<1>21. CASE UncountClient
  BY <1>21 DEF UncountClient, CloseServing, MainGoes, Decremented
<1>22. CASE JoinClient
  BY <1>22 DEF JoinClient, MainGoes
<1>23. CASE StopService
  <2>1. CASE svc = "live"
    BY <1>23, <2>1 DEF StopService, Broadcast, MainGoes
  <2>2. CASE svc # "live"
    BY <1>23, <2>2 DEF StopService, MainGoes
  <2>3. QED
    BY <2>1, <2>2
<1>24. CASE JoinCapture
  BY <1>24 DEF JoinCapture, MainGoes
<1>25. CASE DestroyService
  BY <1>25 DEF DestroyService, MainGoes
<1>26. CASE ReleaseCamera
  BY <1>26 DEF ReleaseCamera, MainGoes
<1>27. ASSUME NEW c \in Clients, WaitLatest(c) PROVE EverySocketHasOneOwner'
  BY <1>27 DEF WaitLatest, HasNew, TakeLatest, Malloc, MallocFails
<1>28. ASSUME NEW c \in Clients, DeadlinePasses(c) PROVE EverySocketHasOneOwner'
  BY <1>28 DEF DeadlinePasses
<1>29. ASSUME NEW c \in Clients, TimedOut(c) PROVE EverySocketHasOneOwner'
  BY <1>29 DEF TimedOut, TakeLatest, Malloc, MallocFails, HasNew
<1>30. ASSUME NEW c \in Clients, CheckStop(c) PROVE EverySocketHasOneOwner'
  BY <1>30 DEF CheckStop
<1>31. ASSUME NEW c \in Clients, CopyLatest(c) PROVE EverySocketHasOneOwner'
  BY <1>31 DEF CopyLatest, Malloc, MallocFails
<1>32. ASSUME NEW c \in Clients, ReadMetrics(c) \/ FormatMetrics(c)
       PROVE  EverySocketHasOneOwner'
  <2>1. CASE ReadMetrics(c)
    BY <2>1 DEF ReadMetrics
  <2>2. CASE FormatMetrics(c)
    BY <2>2 DEF FormatMetrics
  <2>3. QED
    BY <1>32, <2>1, <2>2
<1>33. ASSUME NEW c \in Clients, Finish(c) PROVE EverySocketHasOneOwner'
  BY <1>33 DEF Finish, Decremented
<1>34. ASSUME NEW c \in Clients, CloseClient(c) PROVE EverySocketHasOneOwner'
  BY <1>34 DEF CloseClient
<1>35. ASSUME NEW c \in Clients, UseDestroyed(c) PROVE EverySocketHasOneOwner'
  BY <1>35 DEF UseDestroyed, UsesService
<1>36. ASSUME NEW c \in Clients, SendHeader(c) PROVE EverySocketHasOneOwner'
  BY <1>36 DEF SendHeader
<1>37. ASSUME NEW c \in Clients, SendFrame(c) PROVE EverySocketHasOneOwner'
  BY <1>37 DEF SendFrame
<1>38. ASSUME NEW c \in Clients, Reply(c) PROVE EverySocketHasOneOwner'
  BY <1>38 DEF Reply
<1>39. ASSUME NEW c \in Clients, Connect(c) PROVE EverySocketHasOneOwner'
  BY <1>39 DEF Connect
<1>40. ASSUME NEW c \in Clients, SendRequest(c) PROVE EverySocketHasOneOwner'
  BY <1>40 DEF SendRequest
<1>41. ASSUME NEW c \in Clients, HangUp(c) PROVE EverySocketHasOneOwner'
  BY <1>41 DEF HangUp
<1>42. CASE UNCHANGED vars
  BY <1>42
<1>43. QED
  BY <1>1, <1>2, <1>3, <1>4, <1>5, <1>6, <1>7, <1>8, <1>9, <1>10, <1>11, <1>12,
     <1>13, <1>14, <1>15, <1>16, <1>17, <1>18, <1>19, <1>20, <1>21, <1>22,
     <1>23, <1>24, <1>25, <1>26, <1>27, <1>28, <1>29, <1>30, <1>31, <1>32,
     <1>33, <1>34, <1>35, <1>36, <1>37, <1>38, <1>39, <1>40, <1>41, <1>42
     DEF Next, Main, Capture, Local, Send, Peer

(***************************************************************************)
(* Types are right, and frame copies and sockets always have exactly one   *)
(* owner: the inductive invariant holds of every behaviour.                *)
(***************************************************************************)
THEOREM Invariance == Spec => []IInv
<1>1. Init => IInv
  <2> SUFFICES ASSUME Init PROVE IInv
    OBVIOUS
  <2> USE HttpAssumption DEF Init
  <2>1. TypeOK
    <3>1. /\ mem \in [Block -> Sequence \cup {None}]
          /\ lastSeq \in [Clients -> Sequence]
          /\ nextSeq \in 0..(MaxSeq + 1)
      BY DEF Sequence
    <3>2. /\ pc \in [Clients -> ClientPcs]
          /\ mainPc \in MainPcs /\ capPc \in CapturePcs
      BY DEF ClientPcs, MainPcs, CapturePcs
    <3>3. QED
      BY <3>1, <3>2 DEF TypeOK
  <2>2. MainShape /\ CaptureShape /\ ClientShape
    BY DEF MainShape, CaptureShape, ClientShape
  <2>3. EveryCopyHasOneOwner /\ EverySocketHasOneOwner
    BY DEF EveryCopyHasOneOwner, EverySocketHasOneOwner, MainOwns, ThreadOwns,
       Block
  <2>4. QED
    BY <2>1, <2>2, <2>3 DEF IInv
<1>2. IInv /\ [Next]_vars => IInv'
  BY TypeStep, MainStep, CaptureStep, ClientStep, OwnerStep, SocketStep DEF IInv
<1>3. QED
  BY <1>1, <1>2, PTL DEF Spec

(***************************************************************************)
(* Every variable keeps its type.                                          *)
(***************************************************************************)
THEOREM TypeCorrect == Spec => []TypeOK
<1>1. IInv => TypeOK
  BY DEF IInv
<1>2. QED
  BY <1>1, Invariance, PTL

(***************************************************************************)
(* No frame copy is leaked, shared or used after free, however many        *)
(* connections come and go and whichever malloc fails.                     *)
(***************************************************************************)
THEOREM CopiesOwned == Spec => []EveryCopyHasOneOwner
<1>1. IInv => EveryCopyHasOneOwner
  BY DEF IInv
<1>2. QED
  BY <1>1, Invariance, PTL

(***************************************************************************)
(* Every accepted socket is closed by exactly one thread.                  *)
(***************************************************************************)
THEOREM SocketsOwned == Spec => []EverySocketHasOneOwner
<1>1. IInv => EverySocketHasOneOwner
  BY DEF IInv
<1>2. QED
  BY <1>1, Invariance, PTL

(***************************************************************************)
(* No buffer is lost in a step.                                            *)
(***************************************************************************)
LEMMA BufferStep == IInv /\ NoBufferLost /\ [Next]_vars => NoBufferLost'
<1> SUFFICES ASSUME IInv, NoBufferLost, [Next]_vars PROVE NoBufferLost'
  OBVIOUS
<1> USE HttpAssumption DEF IInv, TypeOK, MainShape, CaptureShape, NoBufferLost,
     Block, Sequence, MainPcs, CapturePcs, ClientPcs, RequestKinds, vars,
     mainVars, svcVars, capVars, clientVars, netVars
<1>1. CASE CaptureCheck
  BY <1>1 DEF CaptureCheck
<1>2. CASE SelectTimeout
  BY <1>2 DEF SelectTimeout
<1>3. CASE Dequeue
  BY <1>3 DEF Dequeue
<1>4. CASE DriverFails
  BY <1>4 DEF DriverFails, Broadcast
<1>5. CASE CopyFrame
  BY <1>5 DEF CopyFrame, Malloc, MallocFails, HeldSeq
<1>6. CASE CopyFrameFails
  BY <1>6 DEF CopyFrameFails, MallocFails, Broadcast
<1>7. CASE Publish
  BY <1>7 DEF Publish, Broadcast
<1>8. CASE CountFrame
  BY <1>8 DEF CountFrame
<1>9. CASE Requeue
  BY <1>9 DEF Requeue
<1>10. CASE CaptureLeaves
  BY <1>10 DEF CaptureLeaves, Broadcast
<1>11. CASE Setup
  BY <1>11 DEF Setup, MainGoes
<1>12. CASE SpawnCapture
  BY <1>12 DEF SpawnCapture, MainGoes
<1>13. CASE Listen
  BY <1>13 DEF Listen, MainGoes
<1>14. CASE Accept
  BY <1>14 DEF Accept, MainGoes
<1>15. CASE AcceptFails
  BY <1>15 DEF AcceptFails, MainGoes
<1>16. CASE Receive
  BY <1>16 DEF Receive, MainGoes
<1>17. CASE ReceiveFails
  BY <1>17 DEF ReceiveFails, CloseServing, MainGoes
<1>18. CASE CountClient
  BY <1>18 DEF CountClient, MainGoes
<1>19. CASE CreateClient
  BY <1>19 DEF CreateClient, MainGoes
<1>20. CASE CreateClientFails
  BY <1>20 DEF CreateClientFails, MainGoes
<1>21. CASE UncountClient
  BY <1>21 DEF UncountClient, CloseServing, MainGoes, Decremented
<1>22. CASE JoinClient
  BY <1>22 DEF JoinClient, MainGoes
<1>23. CASE StopService
  BY <1>23 DEF StopService, Broadcast, MainGoes
<1>24. CASE JoinCapture
  BY <1>24 DEF JoinCapture, MainGoes
<1>25. CASE DestroyService
  BY <1>25 DEF DestroyService, MainGoes
<1>26. CASE ReleaseCamera
  BY <1>26 DEF ReleaseCamera, MainGoes
<1>27. ASSUME NEW c \in Clients, WaitLatest(c) PROVE NoBufferLost'
  BY <1>27 DEF WaitLatest, HasNew, TakeLatest, Malloc, MallocFails
<1>28. ASSUME NEW c \in Clients, DeadlinePasses(c) PROVE NoBufferLost'
  BY <1>28 DEF DeadlinePasses
<1>29. ASSUME NEW c \in Clients, TimedOut(c) PROVE NoBufferLost'
  BY <1>29 DEF TimedOut, TakeLatest, Malloc, MallocFails, HasNew
<1>30. ASSUME NEW c \in Clients, CheckStop(c) PROVE NoBufferLost'
  BY <1>30 DEF CheckStop
<1>31. ASSUME NEW c \in Clients, CopyLatest(c) PROVE NoBufferLost'
  BY <1>31 DEF CopyLatest, Malloc, MallocFails
<1>32. ASSUME NEW c \in Clients, ReadMetrics(c) \/ FormatMetrics(c)
       PROVE  NoBufferLost'
  <2>1. CASE ReadMetrics(c)
    BY <2>1 DEF ReadMetrics
  <2>2. CASE FormatMetrics(c)
    BY <2>2 DEF FormatMetrics
  <2>3. QED
    BY <1>32, <2>1, <2>2
<1>33. ASSUME NEW c \in Clients, Finish(c) PROVE NoBufferLost'
  BY <1>33 DEF Finish, Decremented
<1>34. ASSUME NEW c \in Clients, CloseClient(c) PROVE NoBufferLost'
  BY <1>34 DEF CloseClient
<1>35. ASSUME NEW c \in Clients, UseDestroyed(c) PROVE NoBufferLost'
  BY <1>35 DEF UseDestroyed, UsesService
<1>36. ASSUME NEW c \in Clients, SendHeader(c) PROVE NoBufferLost'
  BY <1>36 DEF SendHeader
<1>37. ASSUME NEW c \in Clients, SendFrame(c) PROVE NoBufferLost'
  BY <1>37 DEF SendFrame
<1>38. ASSUME NEW c \in Clients, Reply(c) PROVE NoBufferLost'
  BY <1>38 DEF Reply
<1>39. ASSUME NEW c \in Clients, Connect(c) PROVE NoBufferLost'
  BY <1>39 DEF Connect
<1>40. ASSUME NEW c \in Clients, SendRequest(c) PROVE NoBufferLost'
  BY <1>40 DEF SendRequest
<1>41. ASSUME NEW c \in Clients, HangUp(c) PROVE NoBufferLost'
  BY <1>41 DEF HangUp
<1>42. CASE UNCHANGED vars
  BY <1>42
<1>43. QED
  BY <1>1, <1>2, <1>3, <1>4, <1>5, <1>6, <1>7, <1>8, <1>9, <1>10, <1>11, <1>12,
     <1>13, <1>14, <1>15, <1>16, <1>17, <1>18, <1>19, <1>20, <1>21, <1>22,
     <1>23, <1>24, <1>25, <1>26, <1>27, <1>28, <1>29, <1>30, <1>31, <1>32,
     <1>33, <1>34, <1>35, <1>36, <1>37, <1>38, <1>39, <1>40, <1>41, <1>42
     DEF Next, Main, Capture, Local, Send, Peer

(***************************************************************************)
(* No V4L2 buffer is lost while the camera streams, whatever fails.        *)
(***************************************************************************)
THEOREM BuffersAccounted == Spec => []NoBufferLost
<1>1. Init => NoBufferLost
  BY HttpAssumption DEF Init, NoBufferLost
<1>2. IInv /\ NoBufferLost /\ [Next]_vars => NoBufferLost'
  BY BufferStep
<1>3. QED
  BY <1>1, <1>2, Invariance, PTL DEF Spec

(***************************************************************************)
(* Whoever still sleeps has nothing to see: stop and a new frame wake      *)
(* everyone, and the newest frame's block is never written to.             *)
(***************************************************************************)
LEMMA SleepStep == IInv /\ SleepsOnlyIfNothingNew /\ [Next]_vars => SleepsOnlyIfNothingNew'
<1> SUFFICES ASSUME IInv, SleepsOnlyIfNothingNew, [Next]_vars PROVE SleepsOnlyIfNothingNew'
  OBVIOUS
<1> USE HttpAssumption DEF IInv, TypeOK, MainShape, CaptureShape, ClientShape,
     EveryCopyHasOneOwner, SleepsOnlyIfNothingNew, HasNew, Block, Sequence,
     MainPcs, CapturePcs, ClientPcs, RequestKinds, vars, mainVars, svcVars,
     capVars, clientVars, netVars
<1>1. CASE CaptureCheck
  BY <1>1 DEF CaptureCheck
<1>2. CASE SelectTimeout
  BY <1>2 DEF SelectTimeout
<1>3. CASE Dequeue
  BY <1>3 DEF Dequeue
<1>4. CASE DriverFails
  BY <1>4 DEF DriverFails, Broadcast
<1>5. CASE CopyFrame
  BY <1>5 DEF CopyFrame, Malloc, MallocFails, HeldSeq
<1>6. CASE CopyFrameFails
  BY <1>6 DEF CopyFrameFails, MallocFails, Broadcast
<1>7. CASE Publish
  BY <1>7 DEF Publish, Broadcast
<1>8. CASE CountFrame
  BY <1>8 DEF CountFrame
<1>9. CASE Requeue
  BY <1>9 DEF Requeue
<1>10. CASE CaptureLeaves
  BY <1>10 DEF CaptureLeaves, Broadcast
<1>11. CASE Setup
  BY <1>11 DEF Setup, MainGoes
<1>12. CASE SpawnCapture
  BY <1>12 DEF SpawnCapture, MainGoes
<1>13. CASE Listen
  BY <1>13 DEF Listen, MainGoes
<1>14. CASE Accept
  BY <1>14 DEF Accept, MainGoes
<1>15. CASE AcceptFails
  BY <1>15 DEF AcceptFails, MainGoes
<1>16. CASE Receive
  BY <1>16 DEF Receive, MainGoes
<1>17. CASE ReceiveFails
  BY <1>17 DEF ReceiveFails, CloseServing, MainGoes
<1>18. CASE CountClient
  BY <1>18 DEF CountClient, MainGoes
<1>19. CASE CreateClient
  <2>1. serving \in Clients /\ path[serving] \in RequestKinds
    BY <1>19 DEF CreateClient
  <2>2. FirstPc[path[serving]] \in {"header", "copy", "read", "reply"}
    BY <2>1, FirstPcValues
  <2>3. /\ pc' = [pc EXCEPT ![serving] = FirstPc[path[serving]]]
        /\ UNCHANGED <<svc, stop, latest, lastSeq, mem>>
    BY <1>19 DEF CreateClient
  <2>4. QED
    BY <2>1, <2>2, <2>3
<1>20. CASE CreateClientFails
  BY <1>20 DEF CreateClientFails, MainGoes
<1>21. CASE UncountClient
  BY <1>21 DEF UncountClient, CloseServing, MainGoes, Decremented
<1>22. CASE JoinClient
  BY <1>22 DEF JoinClient, MainGoes
<1>23. CASE StopService
  BY <1>23 DEF StopService, Broadcast, MainGoes
<1>24. CASE JoinCapture
  BY <1>24 DEF JoinCapture, MainGoes
<1>25. CASE DestroyService
  BY <1>25 DEF DestroyService, MainGoes
<1>26. CASE ReleaseCamera
  BY <1>26 DEF ReleaseCamera, MainGoes
<1>27. ASSUME NEW c \in Clients, WaitLatest(c) PROVE SleepsOnlyIfNothingNew'
  BY <1>27 DEF WaitLatest, HasNew, TakeLatest, Malloc, MallocFails
<1>28. ASSUME NEW c \in Clients, DeadlinePasses(c) PROVE SleepsOnlyIfNothingNew'
  BY <1>28 DEF DeadlinePasses
<1>29. ASSUME NEW c \in Clients, TimedOut(c) PROVE SleepsOnlyIfNothingNew'
  BY <1>29 DEF TimedOut, TakeLatest, Malloc, MallocFails, HasNew
<1>30. ASSUME NEW c \in Clients, CheckStop(c) PROVE SleepsOnlyIfNothingNew'
  BY <1>30 DEF CheckStop
<1>31. ASSUME NEW c \in Clients, CopyLatest(c) PROVE SleepsOnlyIfNothingNew'
  BY <1>31 DEF CopyLatest, Malloc, MallocFails
<1>32. ASSUME NEW c \in Clients, ReadMetrics(c) \/ FormatMetrics(c)
       PROVE  SleepsOnlyIfNothingNew'
  <2>1. CASE ReadMetrics(c)
    BY <2>1 DEF ReadMetrics
  <2>2. CASE FormatMetrics(c)
    BY <2>2 DEF FormatMetrics
  <2>3. QED
    BY <1>32, <2>1, <2>2
<1>33. ASSUME NEW c \in Clients, Finish(c) PROVE SleepsOnlyIfNothingNew'
  BY <1>33 DEF Finish, Decremented
<1>34. ASSUME NEW c \in Clients, CloseClient(c) PROVE SleepsOnlyIfNothingNew'
  BY <1>34 DEF CloseClient
<1>35. ASSUME NEW c \in Clients, UseDestroyed(c) PROVE SleepsOnlyIfNothingNew'
  BY <1>35 DEF UseDestroyed, UsesService
<1>36. ASSUME NEW c \in Clients, SendHeader(c) PROVE SleepsOnlyIfNothingNew'
  BY <1>36 DEF SendHeader
<1>37. ASSUME NEW c \in Clients, SendFrame(c) PROVE SleepsOnlyIfNothingNew'
  BY <1>37 DEF SendFrame
<1>38. ASSUME NEW c \in Clients, Reply(c) PROVE SleepsOnlyIfNothingNew'
  BY <1>38 DEF Reply
<1>39. ASSUME NEW c \in Clients, Connect(c) PROVE SleepsOnlyIfNothingNew'
  BY <1>39 DEF Connect
<1>40. ASSUME NEW c \in Clients, SendRequest(c) PROVE SleepsOnlyIfNothingNew'
  BY <1>40 DEF SendRequest
<1>41. ASSUME NEW c \in Clients, HangUp(c) PROVE SleepsOnlyIfNothingNew'
  BY <1>41 DEF HangUp
<1>42. CASE UNCHANGED vars
  BY <1>42
<1>43. QED
  BY <1>1, <1>2, <1>3, <1>4, <1>5, <1>6, <1>7, <1>8, <1>9, <1>10, <1>11, <1>12,
     <1>13, <1>14, <1>15, <1>16, <1>17, <1>18, <1>19, <1>20, <1>21, <1>22,
     <1>23, <1>24, <1>25, <1>26, <1>27, <1>28, <1>29, <1>30, <1>31, <1>32,
     <1>33, <1>34, <1>35, <1>36, <1>37, <1>38, <1>39, <1>40, <1>41, <1>42
     DEF Next, Main, Capture, Local, Send, Peer

(***************************************************************************)
(* No wakeup is lost: a client sleeps only while there is neither a stop   *)
(* nor a new frame for it.                                                 *)
(***************************************************************************)
THEOREM NoWakeupLost == Spec => []SleepsOnlyIfNothingNew
<1>1. Init => SleepsOnlyIfNothingNew
  BY HttpAssumption DEF Init, SleepsOnlyIfNothingNew
<1>2. IInv /\ SleepsOnlyIfNothingNew /\ [Next]_vars => SleepsOnlyIfNothingNew'
  BY SleepStep
<1>3. QED
  BY <1>1, <1>2, Invariance, PTL DEF Spec

(***************************************************************************)
(* A stream thread leaves its loop only for one of the three reasons,      *)
(* which do not go away again.                                             *)
(***************************************************************************)
LEMMA ReasonStep == IInv /\ StreamEndsForAReason /\ [Next]_vars => StreamEndsForAReason'
<1> SUFFICES ASSUME IInv, StreamEndsForAReason, [Next]_vars PROVE StreamEndsForAReason'
  OBVIOUS
<1> USE HttpAssumption DEF IInv, TypeOK, MainShape, CaptureShape, ClientShape,
     StreamEndsForAReason, Block, Sequence, MainPcs, CapturePcs, ClientPcs,
     RequestKinds, vars, mainVars, svcVars, capVars, clientVars, netVars
<1>1. CASE CaptureCheck
  BY <1>1 DEF CaptureCheck
<1>2. CASE SelectTimeout
  BY <1>2 DEF SelectTimeout
<1>3. CASE Dequeue
  BY <1>3 DEF Dequeue
<1>4. CASE DriverFails
  BY <1>4 DEF DriverFails, Broadcast
<1>5. CASE CopyFrame
  BY <1>5 DEF CopyFrame, Malloc, MallocFails, HeldSeq
<1>6. CASE CopyFrameFails
  BY <1>6 DEF CopyFrameFails, MallocFails, Broadcast
<1>7. CASE Publish
  BY <1>7 DEF Publish, Broadcast
<1>8. CASE CountFrame
  BY <1>8 DEF CountFrame
<1>9. CASE Requeue
  BY <1>9 DEF Requeue
<1>10. CASE CaptureLeaves
  BY <1>10 DEF CaptureLeaves, Broadcast
<1>11. CASE Setup
  BY <1>11 DEF Setup, MainGoes
<1>12. CASE SpawnCapture
  BY <1>12 DEF SpawnCapture, MainGoes
<1>13. CASE Listen
  BY <1>13 DEF Listen, MainGoes
<1>14. CASE Accept
  BY <1>14 DEF Accept, MainGoes
<1>15. CASE AcceptFails
  BY <1>15 DEF AcceptFails, MainGoes
<1>16. CASE Receive
  BY <1>16 DEF Receive, MainGoes
<1>17. CASE ReceiveFails
  BY <1>17 DEF ReceiveFails, CloseServing, MainGoes
<1>18. CASE CountClient
  BY <1>18 DEF CountClient, MainGoes
<1>19. CASE CreateClient
  <2>1. serving \in Clients /\ path[serving] \in RequestKinds
    BY <1>19 DEF CreateClient
  <2>2. FirstPc[path[serving]] \in {"header", "copy", "read", "reply"}
    BY <2>1, FirstPcValues
  <2>3. /\ pc' = [pc EXCEPT ![serving] = FirstPc[path[serving]]]
        /\ UNCHANGED <<path, stop, failed, gone>>
    BY <1>19 DEF CreateClient
  <2>4. QED
    BY <2>1, <2>2, <2>3
<1>20. CASE CreateClientFails
  BY <1>20 DEF CreateClientFails, MainGoes
<1>21. CASE UncountClient
  BY <1>21 DEF UncountClient, CloseServing, MainGoes, Decremented
<1>22. CASE JoinClient
  BY <1>22 DEF JoinClient, MainGoes
<1>23. CASE StopService
  BY <1>23 DEF StopService, Broadcast, MainGoes
<1>24. CASE JoinCapture
  BY <1>24 DEF JoinCapture, MainGoes
<1>25. CASE DestroyService
  BY <1>25 DEF DestroyService, MainGoes
<1>26. CASE ReleaseCamera
  BY <1>26 DEF ReleaseCamera, MainGoes
<1>27. ASSUME NEW c \in Clients, WaitLatest(c) PROVE StreamEndsForAReason'
  BY <1>27 DEF WaitLatest, HasNew, TakeLatest, Malloc, MallocFails
<1>28. ASSUME NEW c \in Clients, DeadlinePasses(c) PROVE StreamEndsForAReason'
  BY <1>28 DEF DeadlinePasses
<1>29. ASSUME NEW c \in Clients, TimedOut(c) PROVE StreamEndsForAReason'
  BY <1>29 DEF TimedOut, TakeLatest, Malloc, MallocFails, HasNew
<1>30. ASSUME NEW c \in Clients, CheckStop(c) PROVE StreamEndsForAReason'
  BY <1>30 DEF CheckStop
<1>31. ASSUME NEW c \in Clients, CopyLatest(c) PROVE StreamEndsForAReason'
  BY <1>31 DEF CopyLatest, Malloc, MallocFails
<1>32. ASSUME NEW c \in Clients, ReadMetrics(c) \/ FormatMetrics(c)
       PROVE  StreamEndsForAReason'
  <2>1. CASE ReadMetrics(c)
    BY <2>1 DEF ReadMetrics
  <2>2. CASE FormatMetrics(c)
    BY <2>2 DEF FormatMetrics
  <2>3. QED
    BY <1>32, <2>1, <2>2
<1>33. ASSUME NEW c \in Clients, Finish(c) PROVE StreamEndsForAReason'
  BY <1>33 DEF Finish, Decremented
<1>34. ASSUME NEW c \in Clients, CloseClient(c) PROVE StreamEndsForAReason'
  BY <1>34 DEF CloseClient
<1>35. ASSUME NEW c \in Clients, UseDestroyed(c) PROVE StreamEndsForAReason'
  BY <1>35 DEF UseDestroyed, UsesService
<1>36. ASSUME NEW c \in Clients, SendHeader(c) PROVE StreamEndsForAReason'
  BY <1>36 DEF SendHeader
<1>37. ASSUME NEW c \in Clients, SendFrame(c) PROVE StreamEndsForAReason'
  BY <1>37 DEF SendFrame
<1>38. ASSUME NEW c \in Clients, Reply(c) PROVE StreamEndsForAReason'
  BY <1>38 DEF Reply
<1>39. ASSUME NEW c \in Clients, Connect(c) PROVE StreamEndsForAReason'
  BY <1>39 DEF Connect
<1>40. ASSUME NEW c \in Clients, SendRequest(c) PROVE StreamEndsForAReason'
  BY <1>40 DEF SendRequest
<1>41. ASSUME NEW c \in Clients, HangUp(c) PROVE StreamEndsForAReason'
  BY <1>41 DEF HangUp
<1>42. CASE UNCHANGED vars
  BY <1>42
<1>43. QED
  BY <1>1, <1>2, <1>3, <1>4, <1>5, <1>6, <1>7, <1>8, <1>9, <1>10, <1>11, <1>12,
     <1>13, <1>14, <1>15, <1>16, <1>17, <1>18, <1>19, <1>20, <1>21, <1>22,
     <1>23, <1>24, <1>25, <1>26, <1>27, <1>28, <1>29, <1>30, <1>31, <1>32,
     <1>33, <1>34, <1>35, <1>36, <1>37, <1>38, <1>39, <1>40, <1>41, <1>42
     DEF Next, Main, Capture, Local, Send, Peer

(***************************************************************************)
(* A stream ends only because the service stops, the camera failed or the  *)
(* viewer is gone.                                                         *)
(***************************************************************************)
THEOREM StreamsEndForAReason == Spec => []StreamEndsForAReason
<1>1. Init => StreamEndsForAReason
  BY HttpAssumption DEF Init, StreamEndsForAReason
<1>2. IInv /\ StreamEndsForAReason /\ [Next]_vars => StreamEndsForAReason'
  BY ReasonStep
<1>3. QED
  BY <1>1, <1>2, Invariance, PTL DEF Spec

(***************************************************************************)
(* A frame that is being sent is not touched.                              *)
(***************************************************************************)
LEMMA SendStep == IInv /\ SendsWhatItTook /\ [Next]_vars => SendsWhatItTook'
<1> SUFFICES ASSUME IInv, SendsWhatItTook, [Next]_vars PROVE SendsWhatItTook'
  OBVIOUS
<1> USE HttpAssumption DEF IInv, TypeOK, MainShape, CaptureShape, ClientShape,
     EveryCopyHasOneOwner, SendsWhatItTook, Block, Sequence, MainPcs,
     CapturePcs, ClientPcs, RequestKinds, vars, mainVars, svcVars, capVars,
     clientVars, netVars
<1>1. CASE CaptureCheck
  BY <1>1 DEF CaptureCheck
<1>2. CASE SelectTimeout
  BY <1>2 DEF SelectTimeout
<1>3. CASE Dequeue
  BY <1>3 DEF Dequeue
<1>4. CASE DriverFails
  BY <1>4 DEF DriverFails, Broadcast
<1>5. CASE CopyFrame
  BY <1>5 DEF CopyFrame, Malloc, MallocFails, HeldSeq
<1>6. CASE CopyFrameFails
  BY <1>6 DEF CopyFrameFails, MallocFails, Broadcast
<1>7. CASE Publish
  BY <1>7 DEF Publish, Broadcast
<1>8. CASE CountFrame
  BY <1>8 DEF CountFrame
<1>9. CASE Requeue
  BY <1>9 DEF Requeue
<1>10. CASE CaptureLeaves
  BY <1>10 DEF CaptureLeaves, Broadcast
<1>11. CASE Setup
  BY <1>11 DEF Setup, MainGoes
<1>12. CASE SpawnCapture
  BY <1>12 DEF SpawnCapture, MainGoes
<1>13. CASE Listen
  BY <1>13 DEF Listen, MainGoes
<1>14. CASE Accept
  BY <1>14 DEF Accept, MainGoes
<1>15. CASE AcceptFails
  BY <1>15 DEF AcceptFails, MainGoes
<1>16. CASE Receive
  BY <1>16 DEF Receive, MainGoes
<1>17. CASE ReceiveFails
  BY <1>17 DEF ReceiveFails, CloseServing, MainGoes
<1>18. CASE CountClient
  BY <1>18 DEF CountClient, MainGoes
<1>19. CASE CreateClient
  <2>1. serving \in Clients /\ path[serving] \in RequestKinds
    BY <1>19 DEF CreateClient
  <2>2. FirstPc[path[serving]] \in {"header", "copy", "read", "reply"}
    BY <2>1, FirstPcValues
  <2>3. /\ pc' = [pc EXCEPT ![serving] = FirstPc[path[serving]]]
        /\ UNCHANGED <<copy, lastSeq, mem>>
    BY <1>19 DEF CreateClient
  <2>4. QED
    BY <2>1, <2>2, <2>3
<1>20. CASE CreateClientFails
  BY <1>20 DEF CreateClientFails, MainGoes
<1>21. CASE UncountClient
  BY <1>21 DEF UncountClient, CloseServing, MainGoes, Decremented
<1>22. CASE JoinClient
  BY <1>22 DEF JoinClient, MainGoes
<1>23. CASE StopService
  BY <1>23 DEF StopService, Broadcast, MainGoes
<1>24. CASE JoinCapture
  BY <1>24 DEF JoinCapture, MainGoes
<1>25. CASE DestroyService
  BY <1>25 DEF DestroyService, MainGoes
<1>26. CASE ReleaseCamera
  BY <1>26 DEF ReleaseCamera, MainGoes
<1>27. ASSUME NEW c \in Clients, WaitLatest(c) PROVE SendsWhatItTook'
  BY <1>27 DEF WaitLatest, HasNew, TakeLatest, Malloc, MallocFails
<1>28. ASSUME NEW c \in Clients, DeadlinePasses(c) PROVE SendsWhatItTook'
  BY <1>28 DEF DeadlinePasses
<1>29. ASSUME NEW c \in Clients, TimedOut(c) PROVE SendsWhatItTook'
  <2>1. UNCHANGED <<latest, capCopy>>
    BY <1>29 DEF TimedOut
  <2>2. ASSUME NEW d \in Clients \ {c}, pc'[d] = "send"
        PROVE  mem'[copy'[d]] = lastSeq'[d]
    <3>1. pc[d] = "send" /\ lastSeq'[d] = lastSeq[d] /\ copy'[d] = copy[d]
      BY <1>29, <2>1, <2>2, TakeLatestCases DEF TimedOut
    <3>2. copy[d] \in Block /\ mem[copy[d]] # None
      BY <3>1
    <3>3. mem'[copy[d]] = mem[copy[d]]
      BY <1>29, <2>1, <3>2, TakeLatestCases DEF TimedOut
    <3>4. QED
      BY <3>1, <3>3
  <2>3. \/ /\ lastSeq' = [lastSeq EXCEPT ![c] = mem[latest]]
           /\ mem'[copy'[c]] = mem[latest]
        \/ pc' = [pc EXCEPT ![c] = "check"]
    BY <1>29, <2>1, TakeLatestCases DEF TimedOut
  <2>4. pc'[c] = "send" => mem'[copy'[c]] = lastSeq'[c]
    BY <2>3
  <2>5. QED
    BY <2>2, <2>4
<1>30. ASSUME NEW c \in Clients, CheckStop(c) PROVE SendsWhatItTook'
  BY <1>30 DEF CheckStop
<1>31. ASSUME NEW c \in Clients, CopyLatest(c) PROVE SendsWhatItTook'
  BY <1>31 DEF CopyLatest, Malloc, MallocFails
<1>32. ASSUME NEW c \in Clients, ReadMetrics(c) \/ FormatMetrics(c)
       PROVE  SendsWhatItTook'
  <2>1. CASE ReadMetrics(c)
    BY <2>1 DEF ReadMetrics
  <2>2. CASE FormatMetrics(c)
    BY <2>2 DEF FormatMetrics
  <2>3. QED
    BY <1>32, <2>1, <2>2
<1>33. ASSUME NEW c \in Clients, Finish(c) PROVE SendsWhatItTook'
  BY <1>33 DEF Finish, Decremented
<1>34. ASSUME NEW c \in Clients, CloseClient(c) PROVE SendsWhatItTook'
  BY <1>34 DEF CloseClient
<1>35. ASSUME NEW c \in Clients, UseDestroyed(c) PROVE SendsWhatItTook'
  BY <1>35 DEF UseDestroyed, UsesService
<1>36. ASSUME NEW c \in Clients, SendHeader(c) PROVE SendsWhatItTook'
  BY <1>36 DEF SendHeader
<1>37. ASSUME NEW c \in Clients, SendFrame(c) PROVE SendsWhatItTook'
  BY <1>37 DEF SendFrame
<1>38. ASSUME NEW c \in Clients, Reply(c) PROVE SendsWhatItTook'
  BY <1>38 DEF Reply
<1>39. ASSUME NEW c \in Clients, Connect(c) PROVE SendsWhatItTook'
  BY <1>39 DEF Connect
<1>40. ASSUME NEW c \in Clients, SendRequest(c) PROVE SendsWhatItTook'
  BY <1>40 DEF SendRequest
<1>41. ASSUME NEW c \in Clients, HangUp(c) PROVE SendsWhatItTook'
  BY <1>41 DEF HangUp
<1>42. CASE UNCHANGED vars
  BY <1>42
<1>43. QED
  BY <1>1, <1>2, <1>3, <1>4, <1>5, <1>6, <1>7, <1>8, <1>9, <1>10, <1>11, <1>12,
     <1>13, <1>14, <1>15, <1>16, <1>17, <1>18, <1>19, <1>20, <1>21, <1>22,
     <1>23, <1>24, <1>25, <1>26, <1>27, <1>28, <1>29, <1>30, <1>31, <1>32,
     <1>33, <1>34, <1>35, <1>36, <1>37, <1>38, <1>39, <1>40, <1>41, <1>42
     DEF Next, Main, Capture, Local, Send, Peer

(***************************************************************************)
(* A stream client sends the frame it took.                                *)
(***************************************************************************)
THEOREM SentFramesIntact == Spec => []SendsWhatItTook
<1>1. Init => SendsWhatItTook
  BY HttpAssumption DEF Init, SendsWhatItTook
<1>2. IInv /\ SendsWhatItTook /\ [Next]_vars => SendsWhatItTook'
  BY SendStep
<1>3. QED
  BY <1>1, <1>2, Invariance, PTL DEF Spec

(* With a frame count main waits for the one client thread it creates.      *)
OneAtATime ==
    ~Continuous =>
        \A c \in Clients :
            pc[c] \notin {"none", "done"} => mainPc = "join" /\ serving = c

(***************************************************************************)
(* With a frame count, only the client main is joining runs.               *)
(***************************************************************************)
LEMMA OneStep == IInv /\ OneAtATime /\ [Next]_vars => OneAtATime'
<1> SUFFICES ASSUME IInv, OneAtATime, [Next]_vars PROVE OneAtATime'
  OBVIOUS
<1> USE HttpAssumption DEF IInv, TypeOK, MainShape, OneAtATime, vars, mainVars,
     svcVars, capVars, clientVars, netVars
<1>1. CASE CaptureCheck
  BY <1>1 DEF CaptureCheck
<1>2. CASE SelectTimeout
  BY <1>2 DEF SelectTimeout
<1>3. CASE Dequeue
  BY <1>3 DEF Dequeue
<1>4. CASE DriverFails
  BY <1>4 DEF DriverFails, Broadcast
<1>5. CASE CopyFrame
  BY <1>5 DEF CopyFrame, Malloc, MallocFails, HeldSeq
<1>6. CASE CopyFrameFails
  BY <1>6 DEF CopyFrameFails, MallocFails, Broadcast
<1>7. CASE Publish
  BY <1>7 DEF Publish, Broadcast
<1>8. CASE CountFrame
  BY <1>8 DEF CountFrame
<1>9. CASE Requeue
  BY <1>9 DEF Requeue
<1>10. CASE CaptureLeaves
  BY <1>10 DEF CaptureLeaves, Broadcast
<1>11. CASE Setup
  BY <1>11 DEF Setup, MainGoes
<1>12. CASE SpawnCapture
  BY <1>12 DEF SpawnCapture, MainGoes
<1>13. CASE Listen
  BY <1>13 DEF Listen, MainGoes
<1>14. CASE Accept
  BY <1>14 DEF Accept, MainGoes
<1>15. CASE AcceptFails
  BY <1>15 DEF AcceptFails, MainGoes
<1>16. CASE Receive
  BY <1>16 DEF Receive, MainGoes
<1>17. CASE ReceiveFails
  BY <1>17 DEF ReceiveFails, CloseServing, MainGoes
<1>18. CASE CountClient
  BY <1>18 DEF CountClient, MainGoes
<1>19. CASE CreateClient
  BY <1>19 DEF CreateClient, MainGoes
<1>20. CASE CreateClientFails
  BY <1>20 DEF CreateClientFails, MainGoes
<1>21. CASE UncountClient
  BY <1>21 DEF UncountClient, CloseServing, MainGoes, Decremented
<1>22. CASE JoinClient
  BY <1>22 DEF JoinClient, MainGoes
<1>23. CASE StopService
  <2>1. CASE svc = "live"
    BY <1>23, <2>1 DEF StopService, Broadcast, MainGoes
  <2>2. CASE svc # "live"
    BY <1>23, <2>2 DEF StopService, MainGoes
  <2>3. QED
    BY <2>1, <2>2
<1>24. CASE JoinCapture
  BY <1>24 DEF JoinCapture, MainGoes
<1>25. CASE DestroyService
  BY <1>25 DEF DestroyService, MainGoes
<1>26. CASE ReleaseCamera
  BY <1>26 DEF ReleaseCamera, MainGoes
<1>27. ASSUME NEW c \in Clients, WaitLatest(c) PROVE OneAtATime'
  <2>1. /\ pc[c] \in {"wait", "woken"} /\ UNCHANGED <<mainPc, serving>>
        /\ \A d \in Clients \ {c} : pc'[d] = pc[d]
    BY <1>27, WaitMovesOne
  <2>2. QED
    BY <2>1
<1>28. ASSUME NEW c \in Clients, DeadlinePasses(c) PROVE OneAtATime'
  BY <1>28 DEF DeadlinePasses
<1>29. ASSUME NEW c \in Clients, TimedOut(c) PROVE OneAtATime'
  BY <1>29 DEF TimedOut, TakeLatest, Malloc, MallocFails, HasNew
<1>30. ASSUME NEW c \in Clients, CheckStop(c) PROVE OneAtATime'
  BY <1>30 DEF CheckStop
<1>31. ASSUME NEW c \in Clients, CopyLatest(c) PROVE OneAtATime'
  BY <1>31 DEF CopyLatest, Malloc, MallocFails
<1>32. ASSUME NEW c \in Clients, ReadMetrics(c) \/ FormatMetrics(c)
       PROVE  OneAtATime'
  <2>1. CASE ReadMetrics(c)
    BY <2>1 DEF ReadMetrics
  <2>2. CASE FormatMetrics(c)
    BY <2>2 DEF FormatMetrics
  <2>3. QED
    BY <1>32, <2>1, <2>2
<1>33. ASSUME NEW c \in Clients, Finish(c) PROVE OneAtATime'
  BY <1>33 DEF Finish, Decremented
<1>34. ASSUME NEW c \in Clients, CloseClient(c) PROVE OneAtATime'
  BY <1>34 DEF CloseClient
<1>35. ASSUME NEW c \in Clients, UseDestroyed(c) PROVE OneAtATime'
  BY <1>35 DEF UseDestroyed, UsesService
<1>36. ASSUME NEW c \in Clients, SendHeader(c) PROVE OneAtATime'
  BY <1>36 DEF SendHeader
<1>37. ASSUME NEW c \in Clients, SendFrame(c) PROVE OneAtATime'
  BY <1>37 DEF SendFrame
<1>38. ASSUME NEW c \in Clients, Reply(c) PROVE OneAtATime'
  BY <1>38 DEF Reply
<1>39. ASSUME NEW c \in Clients, Connect(c) PROVE OneAtATime'
  BY <1>39 DEF Connect
<1>40. ASSUME NEW c \in Clients, SendRequest(c) PROVE OneAtATime'
  BY <1>40 DEF SendRequest
<1>41. ASSUME NEW c \in Clients, HangUp(c) PROVE OneAtATime'
  BY <1>41 DEF HangUp
<1>42. CASE UNCHANGED vars
  BY <1>42
<1>43. QED
  BY <1>1, <1>2, <1>3, <1>4, <1>5, <1>6, <1>7, <1>8, <1>9, <1>10, <1>11, <1>12,
     <1>13, <1>14, <1>15, <1>16, <1>17, <1>18, <1>19, <1>20, <1>21, <1>22,
     <1>23, <1>24, <1>25, <1>26, <1>27, <1>28, <1>29, <1>30, <1>31, <1>32,
     <1>33, <1>34, <1>35, <1>36, <1>37, <1>38, <1>39, <1>40, <1>41, <1>42
     DEF Next, Main, Capture, Local, Send, Peer

LEMMA OneAtATimeHolds == Spec => []OneAtATime
<1>1. Init => OneAtATime
  BY HttpAssumption DEF Init, OneAtATime
<1>2. IInv /\ OneAtATime /\ [Next]_vars => OneAtATime'
  BY OneStep
<1>3. QED
  BY <1>1, <1>2, Invariance, PTL DEF Spec

(***************************************************************************)
(* With a frame count (config.frame_count > 0) no client thread outlives   *)
(* the service.  In continuous mode this is false, see the run             *)
(* HttpUseAfterDestroy.                                                    *)
(***************************************************************************)
THEOREM ClientsJoined == ~Continuous => (Spec => []ServiceOutlivesClients)
<1> SUFFICES ASSUME ~Continuous PROVE Spec => []ServiceOutlivesClients
  OBVIOUS
<1>1. IInv /\ OneAtATime => ServiceOutlivesClients
  BY DEF IInv, TypeOK, MainShape, OneAtATime, ServiceOutlivesClients
<1>2. QED
  BY <1>1, OneAtATimeHolds, Invariance, PTL

-----------------------------------------------------------------------------
(* What the steps of each thread leave alone                               *)

\* The capture thread touches no connection; it may wake the sleeping clients.
LEMMA CaptureLeavesClients ==
    ASSUME Capture
    PROVE  /\ UNCHANGED <<mainVars, svc, connected, lastSeq, copy, netVars>>
           /\ UNCHANGED pc \/ Broadcast
<1> USE DEF svcVars, clientVars
<1>1. CASE CaptureCheck \/ SelectTimeout \/ Dequeue \/ CopyFrame \/ CountFrame
             \/ Requeue
  BY <1>1 DEF CaptureCheck, SelectTimeout, Dequeue, CopyFrame, CountFrame,
     Requeue
<1>2. CASE DriverFails \/ CopyFrameFails \/ Publish \/ CaptureLeaves
  BY <1>2 DEF DriverFails, CopyFrameFails, Publish, CaptureLeaves
<1>3. QED
  BY <1>1, <1>2 DEF Capture

\* A client thread leaves the camera, the frame it did not copy and, unless it
\* brings the program down, main alone.
LEMMA ClientLeavesCapture ==
    ASSUME NEW c \in Clients, Local(c) \/ Send(c)
    PROVE  /\ UNCHANGED <<serving, listening, display, svc, stop, failed, latest,
                          capVars, path, gone>>
           /\ mainPc' \in {mainPc, "crashed"}
<1> USE DEF svcVars, mainVars, netVars
<1>1. CASE WaitLatest(c) \/ DeadlinePasses(c) \/ TimedOut(c) \/ CheckStop(c)
  BY <1>1 DEF WaitLatest, DeadlinePasses, TimedOut, CheckStop
<1>2. CASE CopyLatest(c) \/ ReadMetrics(c) \/ FormatMetrics(c) \/ Finish(c)
             \/ CloseClient(c) \/ UseDestroyed(c)
  BY <1>2 DEF CopyLatest, ReadMetrics, FormatMetrics, Finish, CloseClient,
     UseDestroyed
<1>3. CASE Send(c)
  BY <1>3 DEF Send, SendHeader, SendFrame, Reply
<1>4. QED
  BY <1>1, <1>2, <1>3 DEF Local

\* A peer changes nothing inside the program.
LEMMA PeerLeavesProgram ==
    ASSUME NEW c \in Clients, Peer(c)
    PROVE  UNCHANGED <<mainVars, svcVars, capVars, clientVars, mem>>
BY DEF Peer, Connect, SendRequest, HangUp

\* Main neither dequeues nor counts a frame, and only it starts the thread
\* that does.
LEMMA MainLeavesFrames ==
    ASSUME Main
    PROVE  /\ UNCHANGED <<failed, nextSeq, captured, empties, dropped, capCopy,
                          lastSeq, copy>>
           /\ UNCHANGED capPc \/ capPc' = "check"
<1> USE DEF svcVars, capVars, clientVars
<1>1. CASE Setup \/ SpawnCapture \/ Listen \/ Accept \/ AcceptFails
  BY <1>1 DEF Setup, SpawnCapture, Listen, Accept, AcceptFails
<1>2. CASE Receive \/ ReceiveFails \/ CountClient \/ CreateClient
             \/ CreateClientFails \/ UncountClient
  BY <1>2 DEF Receive, ReceiveFails, CountClient, CreateClient,
     CreateClientFails, UncountClient
<1>3. CASE JoinClient \/ StopService \/ JoinCapture \/ DestroyService
             \/ ReleaseCamera
  BY <1>3 DEF JoinClient, StopService, JoinCapture, DestroyService,
     ReleaseCamera
<1>4. QED
  BY <1>1, <1>2, <1>3 DEF Main

-----------------------------------------------------------------------------
(* What is left at the end                                                 *)

\* The listening socket exists between Listen and JoinCapture only.
ListeningShape ==
    mainPc \in {"setup", "spawn", "listen", "destroy", "release", "exit"} =>
        listening = FALSE

LEMMA ListeningStep == IInv /\ ListeningShape /\ [Next]_vars => ListeningShape'
<1> SUFFICES ASSUME IInv, ListeningShape, [Next]_vars PROVE ListeningShape'
  OBVIOUS
<1> USE DEF ListeningShape
<1>1. CASE Main
  <2> USE DEF MainGoes
  <2>1. CASE Setup \/ SpawnCapture \/ Listen \/ AcceptFails
    BY <2>1 DEF Setup, SpawnCapture, Listen, AcceptFails
  <2>2. CASE Accept \/ Receive \/ CountClient \/ CreateClientFails
               \/ JoinClient
    BY <2>2 DEF Accept, Receive, CountClient, CreateClientFails, JoinClient
  <2>3. CASE ReceiveFails \/ UncountClient
    BY <2>3 DEF ReceiveFails, UncountClient, CloseServing
  <2>4. CASE CreateClient
    BY <2>4 DEF CreateClient
  <2>5. CASE StopService \/ JoinCapture \/ DestroyService \/ ReleaseCamera
    BY <2>5 DEF StopService, JoinCapture, DestroyService, ReleaseCamera
  <2>6. QED
    BY <1>1, <2>1, <2>2, <2>3, <2>4, <2>5 DEF Main
<1>2. CASE Capture
  BY <1>2, CaptureLeavesClients DEF mainVars
<1>3. ASSUME NEW c \in Clients, Local(c) \/ Send(c) PROVE ListeningShape'
  BY <1>3, ClientLeavesCapture
<1>4. ASSUME NEW c \in Clients, Peer(c) PROVE ListeningShape'
  BY <1>4, PeerLeavesProgram DEF mainVars
<1>5. CASE UNCHANGED vars
  BY <1>5 DEF vars, mainVars
<1>6. QED
  BY <1>1, <1>2, <1>3, <1>4, <1>5 DEF Next

\* The display is open while the capture thread runs, and closed at the end.
DisplayShape ==
    /\ mainPc = "spawn" \/ capPc \notin {"none", "done"} => display = FbPreview
    /\ mainPc \in {"release", "exit"} => display = FALSE

LEMMA DisplayStep == IInv /\ DisplayShape /\ [Next]_vars => DisplayShape'
<1> SUFFICES ASSUME IInv, DisplayShape, [Next]_vars PROVE DisplayShape'
  OBVIOUS
<1> USE DEF DisplayShape
<1>1. CASE Main
  <2> USE DEF MainGoes, IInv, MainShape
  <2>1. CASE Setup
    BY <2>1 DEF Setup, capVars
  <2>2. CASE SpawnCapture \/ Listen \/ AcceptFails
    BY <2>2 DEF SpawnCapture, Listen, AcceptFails, capVars
  <2>3. CASE Accept \/ Receive \/ CountClient \/ CreateClientFails
               \/ JoinClient
    BY <2>3 DEF Accept, Receive, CountClient, CreateClientFails, JoinClient,
       capVars
  <2>4. CASE ReceiveFails \/ UncountClient
    BY <2>4 DEF ReceiveFails, UncountClient, CloseServing, capVars
  <2>5. CASE CreateClient
    BY <2>5 DEF CreateClient, capVars
  <2>6. CASE StopService \/ JoinCapture
    BY <2>6 DEF StopService, JoinCapture, capVars
  <2>7. CASE DestroyService \/ ReleaseCamera
    BY <2>7 DEF DestroyService, ReleaseCamera, capVars
  <2>8. QED
    BY <1>1, <2>1, <2>2, <2>3, <2>4, <2>5, <2>6, <2>7 DEF Main
<1>2. CASE Capture
  <2>1. capPc \notin {"none", "done"}
    BY <1>2 DEF Capture, CaptureCheck, SelectTimeout, Dequeue, DriverFails,
       CopyFrame, CopyFrameFails, Publish, CountFrame, Requeue, CaptureLeaves
  <2>2. UNCHANGED <<mainPc, display>>
    BY <1>2, CaptureLeavesClients DEF mainVars
  <2>3. QED
    BY <2>1, <2>2
<1>3. ASSUME NEW c \in Clients, Local(c) \/ Send(c) PROVE DisplayShape'
  BY <1>3, ClientLeavesCapture DEF capVars
<1>4. ASSUME NEW c \in Clients, Peer(c) PROVE DisplayShape'
  BY <1>4, PeerLeavesProgram DEF mainVars, capVars
<1>5. CASE UNCHANGED vars
  BY <1>5 DEF vars, mainVars, capVars
<1>6. QED
  BY <1>1, <1>2, <1>3, <1>4, <1>5 DEF Next

LEMMA DisplayHolds == Spec => []DisplayShape
<1>1. Init => DisplayShape
  BY DEF Init, DisplayShape
<1>2. QED
  BY <1>1, DisplayStep, Invariance, PTL DEF Spec

(***************************************************************************)
(* Whatever the mode and the failure, the service is destroyed, the        *)
(* display closed and the camera released only after the capture thread.   *)
(***************************************************************************)
THEOREM CaptureJoined == Spec => []ServiceOutlivesCapture
<1>1. IInv /\ DisplayShape => ServiceOutlivesCapture
  BY DEF IInv, TypeOK, MainShape, DisplayShape, ServiceOutlivesCapture
<1>2. QED
  BY <1>1, DisplayHolds, Invariance, PTL

(***************************************************************************)
(* With a frame count main gives everything back: when it returns, by      *)
(* whatever path, every frame copy is freed and every socket closed.  The  *)
(* one client thread has been joined, the capture thread has published     *)
(* what it copied before its join, and the destroy frees the last frame.   *)
(***************************************************************************)
THEOREM CleanAtExit == Spec => []CleanExit
<1>1. Init => ListeningShape
  BY DEF Init, ListeningShape
<1>2. IInv /\ OneAtATime /\ ListeningShape /\ DisplayShape => CleanExit
  <2> SUFFICES ASSUME IInv, OneAtATime, ListeningShape, DisplayShape,
                      mainPc = "exit", ~Continuous
               PROVE  /\ \A b \in Block : mem[b] = None
                      /\ \A c \in Clients : fd[c] # "open"
                      /\ ~listening /\ ~display /\ serving = None
    BY DEF CleanExit
  <2> USE HttpAssumption DEF IInv, TypeOK
  <2>1. latest = None /\ capCopy = None
    BY DEF MainShape, CaptureShape
  <2>2. \A c \in Clients : pc[c] \in {"none", "done"}
    BY DEF OneAtATime
  <2>3. \A c \in Clients : copy[c] = None
    BY <2>2 DEF ClientShape
  <2>4. \A b \in Block : mem[b] = None
    BY <2>1, <2>3 DEF EveryCopyHasOneOwner, Block
  <2>5. \A c \in Clients : fd[c] # "open"
    BY <2>2 DEF EverySocketHasOneOwner, MainOwns, ThreadOwns
  <2>6. ~listening /\ ~display /\ serving = None
    BY DEF ListeningShape, DisplayShape, MainShape
  <2>7. QED
    BY <2>4, <2>5, <2>6
<1>3. QED
  BY <1>1, <1>2, ListeningStep, DisplayHolds, OneAtATimeHolds, Invariance, PTL
     DEF Spec

-----------------------------------------------------------------------------
(* The counters                                                            *)

FramesExact ==
    nextSeq = captured + empties + dropped
                + (IF capPc \in {"copy", "publish", "tally"} THEN 1 ELSE 0)

ClientsExact == svc = "live" => connected = Cardinality(CountedClients)

LEMMA CountersInParts == CountersAreExact <=> FramesExact /\ ClientsExact
BY DEF CountersAreExact, FramesExact, ClientsExact

(***************************************************************************)
(* A dequeued frame is counted once, unless it could not be copied.        *)
(***************************************************************************)
LEMMA FramesStep == IInv /\ FramesExact /\ [Next]_vars => FramesExact'
<1> SUFFICES ASSUME IInv, FramesExact, [Next]_vars PROVE FramesExact'
  OBVIOUS
<1> USE DEF FramesExact, IInv, TypeOK
<1>1. CASE Main
  <2>1. capPc' = "check" => capPc \in {"none", "check"}
    <3>1. CASE SpawnCapture
      BY <3>1 DEF SpawnCapture, MainShape
    <3>2. CASE ~SpawnCapture
      <4>1. CASE Setup \/ Listen \/ Accept \/ AcceptFails \/ Receive
        BY <4>1 DEF Setup, Listen, Accept, AcceptFails, Receive, capVars
      <4>2. CASE ReceiveFails \/ CountClient \/ CreateClient
                   \/ CreateClientFails \/ UncountClient \/ JoinClient
        BY <4>2 DEF ReceiveFails, CountClient, CreateClient,
           CreateClientFails, UncountClient, JoinClient, capVars
      <4>3. CASE StopService \/ JoinCapture \/ DestroyService \/ ReleaseCamera
        BY <4>3 DEF StopService, JoinCapture, DestroyService, ReleaseCamera,
           capVars
      <4>4. QED
        BY <1>1, <3>2, <4>1, <4>2, <4>3 DEF Main
    <3>3. QED
      BY <3>1, <3>2
  <2>2. QED
    BY <1>1, <2>1, MainLeavesFrames
<1>2. CASE Capture
  <2> USE DEF svcVars
  <2>1. CASE CaptureCheck \/ SelectTimeout
    BY <2>1 DEF CaptureCheck, SelectTimeout
  <2>2. CASE Dequeue
    BY <2>2 DEF Dequeue
  <2>3. CASE DriverFails \/ CopyFrameFails
    BY <2>3 DEF DriverFails, CopyFrameFails
  <2>4. CASE CopyFrame
    BY <2>4 DEF CopyFrame
  <2>5. CASE Publish
    BY <2>5 DEF Publish
  <2>6. CASE CountFrame
    BY <2>6 DEF CountFrame
  <2>7. CASE Requeue \/ CaptureLeaves
    BY <2>7 DEF Requeue, CaptureLeaves
  <2>8. QED
    BY <1>2, <2>1, <2>2, <2>3, <2>4, <2>5, <2>6, <2>7 DEF Capture
<1>3. ASSUME NEW c \in Clients, Local(c) \/ Send(c) PROVE FramesExact'
  BY <1>3, ClientLeavesCapture DEF capVars
<1>4. ASSUME NEW c \in Clients, Peer(c) PROVE FramesExact'
  BY <1>4, PeerLeavesProgram DEF svcVars, capVars
<1>5. CASE UNCHANGED vars
  BY <1>5 DEF vars, svcVars, capVars
<1>6. QED
  BY <1>1, <1>2, <1>3, <1>4, <1>5 DEF Next

\* The counted connections, however they change.
LEMMA CountedFinite ==
    /\ IsFiniteSet(CountedClients)
    /\ Cardinality(CountedClients) \in Nat
<1>1. CountedClients \in SUBSET Clients
  BY DEF CountedClients
<1>2. IsFiniteSet(CountedClients)
  BY <1>1, HttpAssumption, FS_Subset
<1>3. QED
  BY <1>2, FS_CardinalityType

LEMMA CountedSame ==
    ASSUME ClientsExact, svc' = "live" => svc = "live",
           connected' = connected,
           \A d \in Clients : Counted(d)' <=> Counted(d)
    PROVE  ClientsExact'
<1>1. CountedClients' = CountedClients
  BY DEF CountedClients
<1>2. QED
  BY <1>1 DEF ClientsExact

LEMMA CountedOneMore ==
    ASSUME ClientsExact, svc' = "live" => svc = "live",
           NEW c \in Clients, ~Counted(c), Counted(c)',
           connected' = connected + 1,
           \A d \in Clients \ {c} : Counted(d)' <=> Counted(d)
    PROVE  ClientsExact'
<1>1. CountedClients' = CountedClients \cup {c} /\ c \notin CountedClients
  BY DEF CountedClients
<1>2. Cardinality(CountedClients \cup {c}) = Cardinality(CountedClients) + 1
  BY <1>1, CountedFinite, FS_AddElement
<1>3. QED
  BY <1>1, <1>2 DEF ClientsExact

LEMMA CountedOneLess ==
    ASSUME ClientsExact, svc' = "live" => svc = "live",
           NEW c \in Clients, Counted(c), ~Counted(c)',
           connected' = Decremented,
           \A d \in Clients \ {c} : Counted(d)' <=> Counted(d)
    PROVE  ClientsExact'
<1>1. CountedClients' = CountedClients \ {c} /\ c \in CountedClients
  BY DEF CountedClients
<1>2. Cardinality(CountedClients \ {c}) = Cardinality(CountedClients) - 1
  BY <1>1, CountedFinite, FS_RemoveElement
<1>3. Cardinality(CountedClients) # 0
  BY <1>1, CountedFinite, FS_EmptySet
<1>4. QED
  BY <1>1, <1>2, <1>3, CountedFinite DEF ClientsExact, Decremented

(***************************************************************************)
(* connected_clients goes up when a connection begins to be counted and    *)
(* down when it ends, on every path, and never when it is 0.               *)
(***************************************************************************)
LEMMA ClientsStep == IInv /\ ClientsExact /\ [Next]_vars => ClientsExact'
<1> SUFFICES ASSUME IInv, ClientsExact, [Next]_vars PROVE ClientsExact'
  OBVIOUS
<1> USE DEF IInv, TypeOK, Counted
<1>1. CASE Main
  <2> USE DEF MainGoes, svcVars, clientVars
  <2>1. CASE Setup
    <3>1. serving = None /\ \A d \in Clients : pc[d] = "none"
      BY <2>1 DEF Setup, MainShape
    <3>2. UNCHANGED <<serving, pc, connected>> /\ connected = 0
      BY <2>1 DEF Setup, MainShape
    <3>3. CountedClients' = {}
      BY <3>1, <3>2, HttpAssumption DEF CountedClients
    <3>4. QED
      BY <3>2, <3>3, FS_EmptySet DEF ClientsExact
  <2>2. CASE SpawnCapture \/ Listen \/ AcceptFails \/ Receive
               \/ CreateClientFails \/ JoinClient
    BY <2>2, CountedSame DEF SpawnCapture, Listen, AcceptFails, Receive,
       CreateClientFails, JoinClient
  <2>3. CASE Accept
    BY <2>3, CountedSame DEF Accept
  <2>4. CASE ReceiveFails
    BY <2>4, CountedSame DEF ReceiveFails, CloseServing
  <2>5. CASE CountClient
    <3>1. serving \in Clients
      BY <2>5 DEF CountClient, MainShape
    <3>2. PICK c \in Clients : c = serving
      BY <3>1
    <3>3. pc[c] \in {"none", "done"}
      BY <2>5, <3>2 DEF CountClient, EverySocketHasOneOwner, MainOwns,
         ThreadOwns
    <3>4. ~Counted(c) /\ Counted(c)'
      BY <2>5, <3>2, <3>3 DEF CountClient
    <3>5. \A d \in Clients \ {c} : Counted(d)' <=> Counted(d)
      BY <2>5, <3>2 DEF CountClient
    <3>6. connected' = connected + 1 /\ UNCHANGED svc
      BY <2>5 DEF CountClient
    <3>7. QED
      BY <3>4, <3>5, <3>6, CountedOneMore
  <2>6. CASE CreateClient
    <3>1. serving \in Clients /\ path[serving] \in RequestKinds
      BY <2>6 DEF CreateClient, MainShape
    <3>2. FirstPc[path[serving]] \in {"header", "copy", "read", "reply"}
      BY <3>1, FirstPcValues
    <3>3. /\ pc' = [pc EXCEPT ![serving] = FirstPc[path[serving]]]
          /\ mainPc' \in {"accept", "join"} /\ mainPc = "create"
          /\ UNCHANGED <<svc, connected>>
      BY <2>6 DEF CreateClient
    <3>4. \A d \in Clients : Counted(d)' <=> Counted(d)
      BY <3>1, <3>2, <3>3
    <3>5. QED
      BY <3>3, <3>4, CountedSame
  <2>7. CASE UncountClient
    <3>1. serving \in Clients
      BY <2>7 DEF UncountClient, MainShape
    <3>2. PICK c \in Clients : c = serving
      BY <3>1
    <3>3. pc[c] \in {"none", "done"}
      BY <2>7, <3>2 DEF UncountClient, EverySocketHasOneOwner, MainOwns,
         ThreadOwns
    <3>4. Counted(c) /\ ~Counted(c)'
      BY <2>7, <3>2, <3>3 DEF UncountClient, CloseServing
    <3>5. \A d \in Clients \ {c} : Counted(d)' <=> Counted(d)
      BY <2>7, <3>2 DEF UncountClient, CloseServing
    <3>6. connected' = Decremented /\ UNCHANGED svc
      BY <2>7 DEF UncountClient
    <3>7. QED
      BY <3>4, <3>5, <3>6, CountedOneLess
  <2>8. CASE StopService
    <3>1. \A d \in Clients : Counted(d)' <=> Counted(d)
      BY <2>8 DEF StopService, Broadcast
    <3>2. QED
      BY <2>8, <3>1, CountedSame DEF StopService
  <2>9. CASE JoinCapture
    BY <2>9, CountedSame DEF JoinCapture
  <2>10. CASE DestroyService
    <3>1. svc' # "live"
      BY <2>10 DEF DestroyService
    <3>2. QED
      BY <3>1 DEF ClientsExact
  <2>11. CASE ReleaseCamera
    BY <2>11, CountedSame DEF ReleaseCamera
  <2>12. QED
    BY <1>1, <2>1, <2>2, <2>3, <2>4, <2>5, <2>6, <2>7, <2>8, <2>9, <2>10, <2>11
       DEF Main
<1>2. CASE Capture
  <2>1. /\ UNCHANGED <<mainPc, serving, svc, connected>>
        /\ UNCHANGED pc \/ Broadcast
    BY <1>2, CaptureLeavesClients DEF mainVars
  <2>2. \A d \in Clients : Counted(d)' <=> Counted(d)
    BY <2>1 DEF Broadcast
  <2>3. QED
    BY <2>1, <2>2, CountedSame
<1>3. ASSUME NEW c \in Clients, Local(c) \/ Send(c) PROVE ClientsExact'
  <2>1. CASE svc # "live"
    BY <1>3, <2>1, ClientLeavesCapture DEF ClientsExact
  <2>2. CASE svc = "live"
    <3>1. UNCHANGED <<serving, svc>>
      BY <1>3, ClientLeavesCapture
    <3> USE DEF mainVars, svcVars
    <3>2. CASE Finish(c)
      <4>1. Counted(c) /\ ~(serving = c /\ mainPc \in {"create", "uncount"})
        BY <3>2 DEF Finish, EverySocketHasOneOwner, MainOwns, ThreadOwns
      <4>2. ~Counted(c)'
        BY <3>2, <4>1 DEF Finish
      <4>3. \A d \in Clients \ {c} : Counted(d)' <=> Counted(d)
        BY <3>2 DEF Finish
      <4>4. QED
        BY <3>1, <3>2, <4>1, <4>2, <4>3, CountedOneLess DEF Finish
    <3>3. CASE ~Finish(c)
      <4>1. UNCHANGED <<mainPc, connected>>
        BY <1>3, <2>2, <3>3 DEF Local, Send, WaitLatest, DeadlinePasses,
           TimedOut, CheckStop, CopyLatest, ReadMetrics, FormatMetrics,
           CloseClient, UseDestroyed, SendHeader, SendFrame, Reply
      <4>2. /\ pc[c] \in {"none", "close", "done"} <=>
                 pc'[c] \in {"none", "close", "done"}
            /\ \A d \in Clients \ {c} : pc'[d] = pc[d]
        <5>1. CASE WaitLatest(c)
          BY <5>1 DEF WaitLatest, TakeLatest
        <5>2. CASE TimedOut(c)
          BY <5>2 DEF TimedOut, TakeLatest
        <5>3. CASE DeadlinePasses(c) \/ CheckStop(c) \/ CopyLatest(c)
                     \/ ReadMetrics(c) \/ FormatMetrics(c) \/ CloseClient(c)
          BY <5>3 DEF DeadlinePasses, CheckStop, CopyLatest, ReadMetrics,
             FormatMetrics, CloseClient
        <5>4. CASE SendHeader(c) \/ SendFrame(c) \/ Reply(c)
          BY <5>4 DEF SendHeader, SendFrame, Reply
        <5>5. ~UseDestroyed(c)
          BY <2>2 DEF UseDestroyed
        <5>6. QED
          BY <1>3, <3>3, <5>1, <5>2, <5>3, <5>4, <5>5 DEF Local, Send
      <4>3. \A d \in Clients : Counted(d)' <=> Counted(d)
        BY <3>1, <4>1, <4>2
      <4>4. QED
        BY <3>1, <4>1, <4>3, CountedSame
    <3>4. QED
      BY <3>2, <3>3
  <2>3. QED
    BY <2>1, <2>2
<1>4. ASSUME NEW c \in Clients, Peer(c) PROVE ClientsExact'
  BY <1>4, PeerLeavesProgram, CountedSame DEF mainVars, svcVars, clientVars
<1>5. CASE UNCHANGED vars
  BY <1>5, CountedSame DEF vars, mainVars, svcVars, clientVars
<1>6. QED
  BY <1>1, <1>2, <1>3, <1>4, <1>5 DEF Next

(***************************************************************************)
(* The counters are exact for every number of connections and frames: the  *)
(* test connected_clients > 0 never hides a lost update, and captured and  *)
(* empty frames and those that could not be copied add up to what the      *)
(* driver handed out.                                                      *)
(***************************************************************************)
THEOREM CountersExact == Spec => []CountersAreExact
<1>1. Init => FramesExact /\ ClientsExact
  BY DEF Init, FramesExact, ClientsExact
<1>2. QED
  BY <1>1, FramesStep, ClientsStep, CountersInParts, Invariance, PTL DEF Spec

-----------------------------------------------------------------------------
(* The service implements LatestFeed                                       *)

\* Frames get to the viewers in the order of their numbers: nobody has seen a
\* frame newer than the latest, and the one to be published is newer still.
FeedOrder ==
    /\ svc # "destroyed" => \A c \in Clients : lastSeq[c] <= Newest
    /\ latest # None => mem[latest] < nextSeq
    /\ capPc \in {"copy", "publish"} /\ latest # None => mem[latest] < HeldSeq
    /\ capCopy # None => mem[capCopy] = HeldSeq

\* The blocks of the service and of the capture thread are allocated.
LEMMA FramesAllocated ==
    ASSUME IInv
    PROVE  /\ latest # None => latest \in Block /\ mem[latest] \in Sequence
           /\ capCopy # None => capCopy \in Block /\ mem[capCopy] \in Sequence
           /\ Newest \in Sequence
<1> USE HttpAssumption DEF IInv, TypeOK
<1>1. latest # None => latest \in Block /\ mem[latest] \in Sequence
  BY DEF EveryCopyHasOneOwner
<1>2. capCopy # None => capCopy \in Block /\ mem[capCopy] \in Sequence
  BY DEF EveryCopyHasOneOwner
<1>3. 0 \in Sequence
  BY DEF Sequence
<1>4. QED
  BY <1>1, <1>2, <1>3 DEF Newest

\* A client thread allocates and frees blocks of its own only.
LEMMA ClientKeepsFrames ==
    ASSUME IInv, NEW c \in Clients, Local(c) \/ Send(c)
    PROVE  /\ latest # None => mem'[latest] = mem[latest]
           /\ capCopy # None => mem'[capCopy] = mem[capCopy]
<1> USE HttpAssumption DEF IInv, TypeOK
<1>1. UNCHANGED <<latest, capCopy>>
  BY ClientLeavesCapture DEF capVars
<1>2. CASE WaitLatest(c) \/ TimedOut(c)
  <2>1. CASE TakeLatest(c)
    <3>1. \A a \in Block : mem[a] # None => mem'[a] = mem[a]
      BY <1>1, <1>2, <2>1, TakeLatestCases DEF WaitLatest, TimedOut
    <3>2. QED
      BY <3>1 DEF EveryCopyHasOneOwner
  <2>2. CASE ~TakeLatest(c)
    BY <1>2, <2>2 DEF WaitLatest, TimedOut
  <2>3. QED
    BY <2>1, <2>2
<1>3. CASE CopyLatest(c)
  <2>1. ASSUME NEW b \in Block, mem[b] = None,
               mem' = [mem EXCEPT ![b] = mem[latest]]
        PROVE  \A a \in Block : mem[a] # None => mem'[a] = mem[a]
    BY <2>1
  <2>2. \A a \in Block : mem[a] # None => mem'[a] = mem[a]
    BY <1>3, <2>1 DEF CopyLatest, Malloc
  <2>3. QED
    BY <2>2 DEF EveryCopyHasOneOwner
<1>4. CASE SendFrame(c) \/ Reply(c)
  <2>1. copy[c] # None => copy[c] # latest /\ copy[c] # capCopy
    BY DEF EveryCopyHasOneOwner
  <2>2. latest # None => copy[c] # latest
    BY <2>1
  <2>3. capCopy # None => copy[c] # capCopy
    BY <2>1
  <2>4. ASSUME NEW a \in Block, a # copy[c] PROVE mem'[a] = mem[a]
    BY <1>4, <2>4 DEF SendFrame, Reply
  <2>5. QED
    BY <2>2, <2>3, <2>4
<1>5. CASE DeadlinePasses(c) \/ CheckStop(c) \/ ReadMetrics(c)
             \/ FormatMetrics(c) \/ Finish(c) \/ CloseClient(c)
             \/ UseDestroyed(c) \/ SendHeader(c)
  <2>1. UNCHANGED mem
    BY <1>5 DEF DeadlinePasses, CheckStop, ReadMetrics, FormatMetrics, Finish,
       CloseClient, UseDestroyed, SendHeader
  <2>2. QED
    BY <2>1
<1>6. QED
  BY <1>2, <1>3, <1>4, <1>5 DEF Local, Send

\* What http_service_wait_latest does to a viewer's last_sequence: nothing,
\* or it takes the newest frame, newer than the one before, and sends it.
LEMMA ClientTakesNewest ==
    ASSUME IInv, FeedOrder, NEW c \in Clients, Local(c) \/ Send(c)
    PROVE  \/ /\ svc = "live" /\ pc[c] # "send"
              /\ Newest > lastSeq[c]
              /\ lastSeq' = [lastSeq EXCEPT ![c] = Newest]
              /\ pc' = [pc EXCEPT ![c] = "send"]
           \/ /\ UNCHANGED lastSeq
              /\ pc'[c] # "send"
              /\ \A d \in Clients \ {c} : pc'[d] = pc[d]
<1> USE HttpAssumption DEF IInv, TypeOK
<1>1. UNCHANGED <<latest, capCopy>>
  BY ClientLeavesCapture DEF capVars
<1>2. CASE WaitLatest(c) \/ TimedOut(c)
  <2>1. pc[c] \in {"wait", "woken", "timedout"} /\ svc = "live"
    BY <1>2 DEF WaitLatest, TimedOut
  <2>2. CASE TakeLatest(c)
    <3>1. \/ /\ HasNew(c)
             /\ pc' = [pc EXCEPT ![c] = "send"]
             /\ lastSeq' = [lastSeq EXCEPT ![c] = mem[latest]]
          \/ /\ pc' = [pc EXCEPT ![c] = "check"]
             /\ UNCHANGED lastSeq
      BY <1>1, <2>1, <2>2, TakeLatestCases
    <3>2. HasNew(c) => Newest > lastSeq[c] /\ Newest = mem[latest]
      <4>1. lastSeq[c] <= Newest
        BY <2>1 DEF FeedOrder
      <4>2. HasNew(c) => Newest = mem[latest] /\ Newest # lastSeq[c]
        BY DEF HasNew, Newest
      <4>3. Newest \in Nat /\ lastSeq[c] \in Nat
        BY FramesAllocated DEF Sequence
      <4>4. QED
        BY <4>1, <4>2, <4>3
    <3>3. QED
      BY <2>1, <3>1, <3>2
  <2>3. CASE ~TakeLatest(c)
    BY <1>2, <2>3 DEF WaitLatest, TimedOut
  <2>4. QED
    BY <2>2, <2>3
<1>3. CASE DeadlinePasses(c) \/ CheckStop(c) \/ CopyLatest(c)
             \/ ReadMetrics(c) \/ FormatMetrics(c)
  BY <1>3 DEF DeadlinePasses, CheckStop, CopyLatest, ReadMetrics, FormatMetrics
<1>4. CASE Finish(c) \/ CloseClient(c) \/ UseDestroyed(c)
  BY <1>4 DEF Finish, CloseClient, UseDestroyed
<1>5. CASE Send(c)
  BY <1>5 DEF Send, SendHeader, SendFrame, Reply
<1>6. QED
  BY <1>2, <1>3, <1>4, <1>5 DEF Local

\* http_service_update_latest under the lock replaces the latest frame by a
\* newer one.
LEMMA PublishIsNewer ==
    ASSUME IInv, FeedOrder, Publish
    PROVE  /\ svc = "live" /\ UNCHANGED <<svc, lastSeq, nextSeq>>
           /\ Newest' = HeldSeq /\ Newest' \in Sequence
           /\ Newest <= HeldSeq
           /\ capCopy' = None /\ capPc' = "tally"
           /\ latest' # None /\ mem'[latest'] = HeldSeq
           /\ Sending' = Sending
<1> USE HttpAssumption DEF IInv, TypeOK
<1>1. capPc = "publish" /\ capCopy # None
  BY DEF Publish, CaptureShape
<1>2. svc = "live"
  BY <1>1 DEF MainShape
<1>3. capCopy \in Block /\ mem[capCopy] = HeldSeq /\ capCopy # latest
  BY <1>1, FramesAllocated DEF FeedOrder, EveryCopyHasOneOwner
<1>4. latest' = capCopy /\ mem'[capCopy] = HeldSeq
  BY <1>3 DEF Publish
<1>5. HeldSeq \in Nat /\ HeldSeq \in Sequence
  BY <1>1, <1>3, FramesAllocated DEF Sequence
<1>6. Newest' = HeldSeq
  BY <1>1, <1>4 DEF Newest
<1>7. Newest <= HeldSeq
  BY <1>1, <1>5, FramesAllocated DEF FeedOrder, Newest, Sequence
<1>8. Sending' = Sending
  BY DEF Publish, Broadcast, Sending
<1>9. UNCHANGED <<svc, lastSeq, nextSeq>> /\ capCopy' = None /\ capPc' = "tally"
  BY DEF Publish
<1>10. QED
  BY <1>1, <1>2, <1>4, <1>5, <1>6, <1>7, <1>8, <1>9

\* The other steps of the capture thread publish nothing.
LEMMA OtherCaptureSteps ==
    ASSUME IInv, Capture, ~Publish
    PROVE  /\ UNCHANGED latest
           /\ latest # None => mem'[latest] = mem[latest]
           /\ UNCHANGED <<svc, lastSeq, Sending>>
<1> USE HttpAssumption DEF IInv, TypeOK, svcVars, clientVars
<1>1. UNCHANGED latest /\ (UNCHANGED mem \/ CopyFrame)
  BY DEF Capture, CaptureCheck, SelectTimeout, Dequeue, DriverFails, CopyFrame,
     CopyFrameFails, CountFrame, Requeue, CaptureLeaves
<1>2. latest # None => mem'[latest] = mem[latest]
  <2>1. CASE UNCHANGED mem
    BY <2>1
  <2>2. CASE CopyFrame
    <3>1. PICK b \in Block : mem[b] = None /\ mem' = [mem EXCEPT ![b] = HeldSeq]
      BY <2>2 DEF CopyFrame, Malloc
    <3>2. latest # None => latest \in Block /\ latest # b
      BY <3>1 DEF EveryCopyHasOneOwner
    <3>3. QED
      BY <3>1, <3>2
  <2>3. QED
    BY <1>1, <2>1, <2>2
<1>3. Sending' = Sending
  <2>1. UNCHANGED pc \/ Broadcast
    BY CaptureLeavesClients
  <2>2. QED
    BY <2>1 DEF Broadcast, Sending
<1>4. QED
  BY <1>1, <1>2, <1>3, CaptureLeavesClients

\* Of main's steps only the destroy touches what the viewers are given.
LEMMA MainKeepsFeed ==
    ASSUME IInv, Main
    PROVE  /\ UNCHANGED <<lastSeq, nextSeq, capCopy, Sending>>
           /\ UNCHANGED capPc \/ capPc' = "check"
           /\ \/ UNCHANGED <<latest, mem>> /\ svc # "destroyed" /\ svc' # "destroyed"
              \/ UNCHANGED <<latest, mem, svc>>
              \/ svc = "live" /\ svc' = "destroyed" /\ latest' = None
<1> USE HttpAssumption DEF IInv, TypeOK, svcVars, clientVars
<1>1. /\ UNCHANGED <<lastSeq, nextSeq, capCopy>>
      /\ UNCHANGED capPc \/ capPc' = "check"
  BY MainLeavesFrames
<1>2. \/ UNCHANGED <<latest, mem>> /\ svc # "destroyed" /\ svc' # "destroyed"
      \/ UNCHANGED <<latest, mem, svc>>
      \/ svc = "live" /\ svc' = "destroyed" /\ latest' = None
  <2>1. CASE Setup
    BY <2>1 DEF Setup, MainShape
  <2>2. CASE DestroyService
    BY <2>2 DEF DestroyService
  <2>3. CASE ~Setup /\ ~DestroyService
    <3>1. CASE SpawnCapture \/ Listen \/ Accept \/ AcceptFails \/ Receive
      BY <3>1 DEF SpawnCapture, Listen, Accept, AcceptFails, Receive
    <3>2. CASE ReceiveFails \/ CountClient \/ CreateClient
                 \/ CreateClientFails \/ UncountClient \/ JoinClient
      BY <3>2 DEF ReceiveFails, CountClient, CreateClient, CreateClientFails,
         UncountClient, JoinClient
    <3>3. CASE StopService \/ JoinCapture \/ ReleaseCamera
      BY <3>3 DEF StopService, JoinCapture, ReleaseCamera
    <3>4. QED
      BY <2>3, <3>1, <3>2, <3>3 DEF Main
  <2>4. QED
    BY <2>1, <2>2, <2>3
<1>3. Sending' = Sending
  <2>1. CASE CreateClient
    <3>1. /\ serving \in Clients /\ path[serving] \in RequestKinds
          /\ pc[serving] \in {"none", "done"}
      BY <2>1 DEF CreateClient, MainShape, EverySocketHasOneOwner, MainOwns,
         ThreadOwns
    <3>2. FirstPc[path[serving]] # "send"
      BY <3>1, FirstPcValues
    <3>3. pc' = [pc EXCEPT ![serving] = FirstPc[path[serving]]]
      BY <2>1 DEF CreateClient
    <3>4. \A d \in Clients : pc'[d] = "send" <=> pc[d] = "send"
      BY <3>1, <3>2, <3>3
    <3>5. QED
      BY <3>4 DEF Sending
  <2>2. CASE StopService
    <3>1. UNCHANGED pc \/ Broadcast
      BY <2>2 DEF StopService
    <3>2. QED
      BY <3>1 DEF Broadcast, Sending
  <2>3. CASE ~CreateClient /\ ~StopService
    <3>1. UNCHANGED pc
      <4>1. CASE Setup \/ SpawnCapture \/ Listen \/ Accept \/ AcceptFails
                   \/ Receive
        BY <4>1 DEF Setup, SpawnCapture, Listen, Accept, AcceptFails, Receive
      <4>2. CASE ReceiveFails \/ CountClient \/ CreateClientFails
                   \/ UncountClient \/ JoinClient
        BY <4>2 DEF ReceiveFails, CountClient, CreateClientFails,
           UncountClient, JoinClient
      <4>3. CASE JoinCapture \/ DestroyService \/ ReleaseCamera
        BY <4>3 DEF JoinCapture, DestroyService, ReleaseCamera
      <4>4. QED
        BY <2>3, <4>1, <4>2, <4>3 DEF Main
    <3>2. QED
      BY <3>1 DEF Sending
  <2>4. QED
    BY <2>1, <2>2, <2>3
<1>4. QED
  BY <1>1, <1>2, <1>3

(***************************************************************************)
(* The frames keep their order, whoever moves.                             *)
(***************************************************************************)
LEMMA OrderStep == IInv /\ FeedOrder /\ [Next]_vars => FeedOrder'
<1> SUFFICES ASSUME IInv, FeedOrder, [Next]_vars PROVE FeedOrder'
  OBVIOUS
<1> USE HttpAssumption DEF IInv, TypeOK
<1>1. CASE Main
  <2>1. /\ UNCHANGED <<lastSeq, nextSeq, capCopy>>
        /\ UNCHANGED capPc \/ capPc' = "check"
    BY <1>1, MainKeepsFeed
  <2>2. CASE UNCHANGED <<latest, mem>> /\ (svc' # "destroyed" => svc # "destroyed")
    BY <2>1, <2>2 DEF FeedOrder, Newest, HeldSeq
  <2>3. CASE svc = "live" /\ svc' = "destroyed" /\ latest' = None
    <3>1. capCopy = None
      <4>1. mainPc = "destroy"
        BY <1>1, <2>3 DEF Main, Setup, SpawnCapture, Listen, Accept,
           AcceptFails, Receive, ReceiveFails, CountClient, CreateClient,
           CreateClientFails, UncountClient, JoinClient, StopService,
           JoinCapture, DestroyService, ReleaseCamera, svcVars
      <4>2. QED
        BY <4>1 DEF MainShape, CaptureShape
    <3>2. QED
      BY <2>1, <2>3, <3>1 DEF FeedOrder
  <2>4. QED
    BY <1>1, <2>2, <2>3, MainKeepsFeed
<1>2. CASE Publish
  <2>1. \A c \in Clients : lastSeq'[c] <= Newest'
    <3>1. ASSUME NEW c \in Clients PROVE lastSeq[c] <= HeldSeq
      <4>1. lastSeq[c] <= Newest /\ Newest <= HeldSeq
        BY <1>2, PublishIsNewer DEF FeedOrder
      <4>2. lastSeq[c] \in Int /\ Newest \in Int /\ HeldSeq \in Int
        BY FramesAllocated DEF Sequence, HeldSeq
      <4>3. QED
        BY <4>1, <4>2
    <3>2. QED
      BY <1>2, <3>1, PublishIsNewer
  <2>2. mem'[latest'] < nextSeq'
    BY <1>2, PublishIsNewer DEF HeldSeq
  <2>3. capCopy' = None /\ capPc' = "tally"
    BY <1>2, PublishIsNewer
  <2>4. QED
    BY <2>1, <2>2, <2>3 DEF FeedOrder
<1>3. CASE Capture /\ ~Publish
  <2>1. /\ UNCHANGED <<latest, svc, lastSeq>>
        /\ latest # None => mem'[latest] = mem[latest]
    BY <1>3, OtherCaptureSteps
  <2>2. Newest' = Newest
    BY <2>1 DEF Newest
  <2>3. CASE Dequeue
    <3>1. /\ capPc = "select" /\ nextSeq' = nextSeq + 1
          /\ UNCHANGED <<capCopy, mem>>
      BY <2>3 DEF Dequeue
    <3>2. capCopy = None
      BY <3>1 DEF CaptureShape
    <3>3. latest # None => mem[latest] < nextSeq /\ mem[latest] \in Nat
      BY FramesAllocated DEF FeedOrder, Sequence
    <3>4. QED
      BY <2>1, <2>2, <3>1, <3>2, <3>3 DEF FeedOrder, HeldSeq
  <2>4. CASE CopyFrame
    <3>1. PICK b \in Block : mem' = [mem EXCEPT ![b] = HeldSeq] /\ capCopy' = b
      BY <2>4 DEF CopyFrame
    <3>2. capPc = "copy" /\ UNCHANGED nextSeq
      BY <2>4 DEF CopyFrame
    <3>3. mem'[capCopy'] = HeldSeq
      BY <3>1
    <3>4. QED
      BY <2>1, <2>2, <3>2, <3>3 DEF FeedOrder, HeldSeq
  <2>5. CASE CaptureCheck \/ SelectTimeout \/ DriverFails \/ CopyFrameFails
               \/ CountFrame \/ Requeue \/ CaptureLeaves
    <3>1. /\ UNCHANGED <<nextSeq, capCopy, mem>>
          /\ capPc' \notin {"copy", "publish"}
      BY <2>5 DEF CaptureCheck, SelectTimeout, DriverFails, CopyFrameFails,
         CountFrame, Requeue, CaptureLeaves
    <3>2. QED
      BY <2>1, <2>2, <3>1 DEF FeedOrder, HeldSeq
  <2>6. QED
    BY <1>3, <2>3, <2>4, <2>5 DEF Capture
<1>4. ASSUME NEW c \in Clients, Local(c) \/ Send(c) PROVE FeedOrder'
  <2>1. UNCHANGED <<svc, latest, nextSeq, capCopy, capPc>>
    BY <1>4, ClientLeavesCapture DEF capVars
  <2>2. Newest' = Newest
    BY <1>4, <2>1, ClientKeepsFrames DEF Newest
  <2>3. \A d \in Clients : lastSeq'[d] \in {lastSeq[d], Newest}
    BY <1>4, ClientTakesNewest
  <2>4. Newest <= Newest
    BY FramesAllocated DEF Sequence
  <2>5. QED
    BY <1>4, <2>1, <2>2, <2>3, <2>4, ClientKeepsFrames DEF FeedOrder, HeldSeq
<1>5. ASSUME NEW c \in Clients, Peer(c) PROVE FeedOrder'
  BY <1>5, PeerLeavesProgram DEF svcVars, capVars, clientVars, FeedOrder,
     Newest, HeldSeq
<1>6. CASE UNCHANGED vars
  BY <1>6 DEF vars, svcVars, capVars, clientVars, FeedOrder, Newest, HeldSeq
<1>7. QED
  BY <1>1, <1>2, <1>3, <1>4, <1>5, <1>6 DEF Next

(***************************************************************************)
(* Every step of the service is a step of the feed or invisible in it: the *)
(* update is Publish (unless the very first frame has number 0), the end   *)
(* of a successful wait is Hand, a send that returns is Sent, the destroy  *)
(* is Shut.                                                                *)
(***************************************************************************)
LEMMA FeedStep == IInv /\ FeedOrder /\ [Next]_vars => [Feed!Next]_(Feed!feedVars)
<1> SUFFICES ASSUME IInv, FeedOrder, [Next]_vars
             PROVE  \/ Feed!Next
                    \/ UNCHANGED <<Newest, lastSeq, Sending, svc # "destroyed">>
  BY DEF Feed!feedVars
<1> USE HttpAssumption DEF IInv, TypeOK
<1>1. CASE Main
  <2>1. UNCHANGED <<lastSeq, Sending>>
    BY <1>1, MainKeepsFeed
  <2>2. CASE UNCHANGED <<latest, mem>> /\ (svc' = "destroyed" <=> svc = "destroyed")
    BY <2>1, <2>2 DEF Newest
  <2>3. CASE svc = "live" /\ svc' = "destroyed" /\ latest' = None
    <3>1. Newest' = 0
      BY <2>3 DEF Newest
    <3>2. Feed!Shut
      BY <2>1, <2>3, <3>1 DEF Feed!Shut
    <3>3. QED
      BY <3>2 DEF Feed!Next
  <2>4. QED
    BY <1>1, <2>2, <2>3, MainKeepsFeed
<1>2. CASE Publish
  <2>1. /\ svc = "live" /\ UNCHANGED <<svc, lastSeq, Sending>>
        /\ Newest' = HeldSeq /\ Newest' \in Sequence /\ Newest <= Newest'
    BY <1>2, PublishIsNewer
  <2>2. Newest \in Nat /\ Newest' \in Nat
    BY <2>1, FramesAllocated DEF Sequence
  <2>3. CASE Newest' = Newest
    BY <2>1, <2>3
  <2>4. CASE Newest' # Newest
    <3>1. Newest' > Newest
      BY <2>1, <2>2, <2>4
    <3>2. Feed!Publish
      BY <2>1, <3>1 DEF Feed!Publish
    <3>3. QED
      BY <3>2 DEF Feed!Next
  <2>5. QED
    BY <2>3, <2>4
<1>3. CASE Capture /\ ~Publish
  BY <1>3, OtherCaptureSteps DEF Newest
<1>4. ASSUME NEW c \in Clients, Local(c) \/ Send(c)
      PROVE  \/ Feed!Next
             \/ UNCHANGED <<Newest, lastSeq, Sending, svc # "destroyed">>
  <2>1. UNCHANGED <<svc, latest, Newest>>
    BY <1>4, ClientLeavesCapture, ClientKeepsFrames DEF Newest
  <2>2. CASE /\ svc = "live" /\ pc[c] # "send"
             /\ Newest > lastSeq[c]
             /\ lastSeq' = [lastSeq EXCEPT ![c] = Newest]
             /\ pc' = [pc EXCEPT ![c] = "send"]
    <3>1. Sending' = Sending \cup {c} /\ c \notin Sending
      BY <2>2 DEF Sending
    <3>2. Feed!Hand(c)
      BY <2>1, <2>2, <3>1 DEF Feed!Hand
    <3>3. QED
      BY <3>2 DEF Feed!Next
  <2>3. CASE /\ UNCHANGED lastSeq
             /\ pc'[c] # "send"
             /\ \A d \in Clients \ {c} : pc'[d] = pc[d]
    <3>1. Sending' = Sending \ {c}
      BY <2>3 DEF Sending
    <3>2. Feed!Sent(c)
      BY <2>1, <2>3, <3>1 DEF Feed!Sent
    <3>3. QED
      BY <3>2 DEF Feed!Next
  <2>4. QED
    BY <1>4, <2>2, <2>3, ClientTakesNewest
<1>5. ASSUME NEW c \in Clients, Peer(c)
      PROVE  UNCHANGED <<Newest, lastSeq, Sending, svc # "destroyed">>
  BY <1>5, PeerLeavesProgram DEF svcVars, clientVars, Newest, Sending
<1>6. CASE UNCHANGED vars
  BY <1>6 DEF vars, svcVars, clientVars, Newest, Sending
<1>7. QED
  BY <1>1, <1>2, <1>3, <1>4, <1>5, <1>6 DEF Next

(***************************************************************************)
(* The service implements the feed, for any number of viewers and frames   *)
(* and under every failure: a viewer is only ever handed the newest frame, *)
(* each one newer than what it was handed before, and none after the       *)
(* shutdown.                                                               *)
(***************************************************************************)
THEOREM ServiceImplementsFeed == Spec => ImplementsFeed
<1>1. Init => Feed!Init /\ FeedOrder
  <2> SUFFICES ASSUME Init PROVE Feed!Init /\ FeedOrder
    OBVIOUS
  <2>1. Newest = 0 /\ Sending = {}
    BY DEF Init, Newest, Sending
  <2>2. Feed!Init
    BY <2>1 DEF Init, Feed!Init
  <2>3. FeedOrder
    BY <2>1 DEF Init, FeedOrder
  <2>4. QED
    BY <2>2, <2>3
<1>2. QED
  BY <1>1, OrderStep, FeedStep, Invariance, PTL
     DEF Spec, ImplementsFeed, Feed!Spec
===============================================================================
