--------------------------- MODULE HttpWireProofs ---------------------------
(***************************************************************************)
(* Proofs about HttpWire for every window, every size of the parts and     *)
(* every number of messages.                                               *)
(***************************************************************************)
EXTENDS HttpWire, TLAPS

-----------------------------------------------------------------------------
(* The inductive invariant                                                 *)

Positive == Nat \ {0}
Byte == Nat \X Nat \X Nat

\* A byte of a message that has been begun.
Belongs(b) ==
    /\ b[1] \in 1..Len(messages)
    /\ b[2] \in 1..Len(messages[b[1]])
    /\ b[3] \in 1..messages[b[1]][b[2]]

\* The types, and what a connection is at each step of the thread.
WireShape ==
    /\ kind \in {"stream", "single"} /\ unread \in BOOLEAN
    /\ detached \in BOOLEAN /\ error \in BOOLEAN /\ gone \in BOOLEAN
    /\ pc \in {"begin", "send", "wait", "close", "closed", "killed"}
    /\ messages \in Seq(Seq(Positive))
    /\ \A m \in 1..Len(messages) : Len(messages[m]) > 0
    /\ out \in Seq(Byte) /\ arrived \in Nat /\ lost \in Nat /\ arrived + lost <= Len(out)
    /\ part \in Positive /\ sent \in Nat
    /\ pc = "begin" => messages = <<>> /\ out = <<>>
    /\ pc \notin {"begin", "killed"} =>
          /\ Len(messages) > 0
          /\ part <= Len(messages[Len(messages)])
          /\ sent <= messages[Len(messages)][part]
    /\ pc \in {"wait", "close", "closed"} /\ ~error =>
          /\ part = Len(messages[Len(messages)])
          /\ sent = messages[Len(messages)][part]
    /\ error => pc \in {"close", "closed", "killed"}
    /\ pc = "killed" => detached

\* Where the answer is, as the last byte tells.
Position ==
    /\ sent > 0 => out # <<>> /\ Last(out) = <<Len(messages), part, sent>>
    /\ sent = 0 /\ out = <<>> => Len(messages) <= 1 /\ part = 1
    /\ sent = 0 /\ out # <<>> => After(Last(out)) = <<Len(messages), part, 1>>

WInv ==
    /\ WireShape
    /\ \A i \in 1..Len(out) : Belongs(out[i])
    /\ BytesInOrder
    /\ pc \notin {"begin", "killed"} => Position

-----------------------------------------------------------------------------
(* Sequences                                                               *)

\* Some elements more.
LEMMA Concatenation ==
    ASSUME NEW S, NEW seq \in Seq(S), NEW n \in Positive, NEW f \in [1..n -> S]
    PROVE  /\ seq \o f \in Seq(S)
           /\ Len(seq \o f) = Len(seq) + n
           /\ \A i \in 1..Len(seq) : (seq \o f)[i] = seq[i]
           /\ \A i \in 1..n : (seq \o f)[Len(seq) + i] = f[i]
BY DEF Positive

\* One element more.
LEMMA AppendMessage ==
    ASSUME NEW S, NEW seq \in Seq(S), NEW x \in S
    PROVE  /\ Append(seq, x) \in Seq(S)
           /\ Len(Append(seq, x)) = Len(seq) + 1
           /\ Append(seq, x)[Len(seq) + 1] = x
           /\ \A i \in 1..Len(seq) : Append(seq, x)[i] = seq[i]
OBVIOUS

\* Where n bytes go that follow the first x of y.
LEMMA Offsets ==
    ASSUME NEW x \in Nat, NEW y \in Positive, NEW n \in Positive, n <= y - x,
           NEW j \in 1..n
    PROVE  /\ x < y /\ x + j \in Positive /\ x + j \in 1..y
           /\ j + 1 \in 1..n => x + j < y
BY DEF Positive

LEMMA AtMostOne == ASSUME NEW n \in Positive, n <= 1 PROVE n = 1
BY DEF Positive

\* A sequence with an element is not empty, and the other way round.
LEMMA NotEmpty ==
    ASSUME NEW S, NEW seq \in Seq(S)
    PROVE  seq # <<>> <=> Len(seq) > 0
OBVIOUS

-----------------------------------------------------------------------------
(* Bytes and messages                                                      *)

\* What follows a byte does not change when a message is begun after it.
LEMMA AfterStays ==
    ASSUME WireShape, NEW b, Belongs(b), NEW parts \in Seq(Positive), Len(parts) > 0,
           messages' = Append(messages, parts)
    PROVE  After(b)' = After(b) /\ Belongs(b)'
<1>1. /\ Len(messages') = Len(messages) + 1
      /\ \A m \in 1..Len(messages) : messages'[m] = messages[m]
  BY AppendMessage DEF WireShape
<1>2. messages'[b[1]] = messages[b[1]]
  BY <1>1 DEF Belongs
<1>3. QED
  BY <1>1, <1>2 DEF Belongs, After, WireShape

\* The part that is being sent.
LEMMA LastPart ==
    ASSUME WireShape, pc \notin {"begin", "killed"}
    PROVE  /\ Len(messages) \in Positive /\ messages[Len(messages)] \in Seq(Positive)
           /\ part \in 1..Len(messages[Len(messages)])
           /\ PartSize = messages[Len(messages)][part]
           /\ PartSize \in Positive
<1>1. Len(messages) \in Positive
  BY DEF WireShape, Positive
<1>2. messages[Len(messages)] \in Seq(Positive)
  BY <1>1 DEF WireShape, Positive
<1>3. part \in 1..Len(messages[Len(messages)])
  BY <1>2 DEF WireShape, Positive
<1>4. messages[Len(messages)][part] \in Positive
  BY <1>2, <1>3
<1>5. QED
  BY <1>1, <1>2, <1>3, <1>4 DEF PartSize, Last

\* A message more, at whose beginning the answer is.
LEMMA MessageStep ==
    ASSUME WInv, NEW parts \in Seq(Positive), Len(parts) > 0, Message(parts),
           pc \in {"begin", "wait"}, UNCHANGED <<requestVars, error, wireVars>>
    PROVE  WInv'
<1> USE WireAssumption DEF WInv, Message, requestVars, wireVars
<1>1. /\ messages' \in Seq(Seq(Positive)) /\ Len(messages') = Len(messages) + 1
      /\ messages'[Len(messages) + 1] = parts
      /\ \A m \in 1..Len(messages) : messages'[m] = messages[m]
  BY AppendMessage DEF WireShape
<1>2. parts[1] \in Positive /\ Len(parts) \in Nat /\ Len(messages) \in Nat
  BY DEF WireShape
<1>3. WireShape'
  <2>1. \A m \in 1..Len(messages') : Len(messages'[m]) > 0
    <3> SUFFICES ASSUME NEW m \in 1..Len(messages') PROVE Len(messages'[m]) > 0
      OBVIOUS
    <3>1. CASE m = Len(messages) + 1
      BY <1>1, <3>1
    <3>2. CASE m # Len(messages) + 1
      <4>1. m \in 1..Len(messages)
        BY <1>1, <1>2, <3>2
      <4>2. QED
        BY <1>1, <4>1 DEF WireShape
    <3>3. QED
      BY <3>1, <3>2
  <2>2. QED
    BY <1>1, <1>2, <2>1 DEF WireShape, Positive
<1>4. \A i \in 1..Len(out) : Belongs(out[i])' /\ After(out[i])' = After(out[i])
  BY AfterStays
<1>5. BytesInOrder'
  BY <1>4 DEF BytesInOrder, WireShape
<1>6. Position'
  <2>1. sent' = 0 /\ part' = 1 /\ Len(messages') = Len(messages) + 1
    BY <1>1
  <2>2. CASE out = <<>>
    <3>1. Len(messages) = 0
      <4>1. CASE pc = "begin"
        BY <4>1 DEF WireShape
      <4>2. CASE pc = "wait"
        <5>1. sent > 0
          <6>1. ~error
            BY <4>2 DEF WireShape
          <6>2. sent = PartSize /\ PartSize \in Positive
            BY <4>2, <6>1, LastPart DEF WireShape
          <6>3. QED
            BY <6>2 DEF Positive
        <5>2. QED
          BY <2>2, <4>2, <5>1 DEF Position
      <4>3. QED
        BY <4>1, <4>2
    <3>2. QED
      BY <2>1, <2>2, <3>1 DEF Position
  <2>3. CASE out # <<>>
    <3>1. /\ pc = "wait" /\ ~error /\ Len(out) \in 1..Len(out)
          /\ part = Len(messages[Len(messages)])
          /\ sent = messages[Len(messages)][part] /\ sent > 0
      <4>1. pc = "wait" /\ ~error /\ Len(out) \in 1..Len(out)
        BY <2>3, NotEmpty DEF WireShape
      <4>2. QED
        BY <4>1, LastPart DEF WireShape, Positive
    <3>2. Last(out) = <<Len(messages), part, sent>>
      BY <3>1 DEF Position
    <3>3. After(Last(out)) = <<Len(messages) + 1, 1, 1>>
      <4>1. /\ ~(sent < messages[Len(messages)][part])
            /\ ~(part < Len(messages[Len(messages)]))
        BY <3>1, LastPart DEF Positive
      <4>2. QED
        BY <3>2, <4>1 DEF After
    <3>4. After(Last(out))' = After(Last(out))
      <4>1. Belongs(Last(out))
        BY <3>1 DEF Last
      <4>2. After(Last(out))' = After(Last(out))
        BY <4>1, AfterStays DEF Last, WireShape
      <4>3. QED
        BY <4>2
    <3>5. QED
      BY <2>1, <2>3, <3>3, <3>4 DEF Position
  <2>4. QED
    BY <2>2, <2>3
<1>7. QED
  BY <1>3, <1>4, <1>5, <1>6

\* What was sent of the answer stays when nothing is sent.
LEMMA AnswerStays ==
    ASSUME WInv, UNCHANGED <<messages, out>>
    PROVE  (\A i \in 1..Len(out) : Belongs(out[i]))' /\ BytesInOrder'
BY DEF WInv, Belongs, BytesInOrder, After

\* Some bytes of the part.
LEMMA SendStep ==
    ASSUME WInv, NEW n \in 1..Window, Send(n)
    PROVE  WInv'
<1> DEFINE sending == [i \in 1..n |-> <<Len(messages), part, sent + i>>]
<1>1. /\ pc = "send" /\ n <= PartSize - sent /\ out' = out \o sending
      /\ sent' = sent + n /\ n \in Positive
      /\ UNCHANGED <<requestVars, pc, error, messages, part, arrived, lost, gone>>
  BY WireAssumption DEF Send, Took, Positive
<1>2. /\ Len(messages) \in Positive /\ messages[Len(messages)] \in Seq(Positive)
      /\ part \in 1..Len(messages[Len(messages)])
      /\ PartSize = messages[Len(messages)][part]
      /\ PartSize \in Positive
  BY <1>1, LastPart DEF WInv
<1>3. /\ sent \in Nat /\ out \in Seq(Byte) /\ Len(out) \in Nat
      /\ arrived \in Nat /\ lost \in Nat /\ arrived + lost <= Len(out)
  BY DEF WInv, WireShape
<1>4. sending \in [1..n -> Byte]
  <2>1. ASSUME NEW i \in 1..n PROVE <<Len(messages), part, sent + i>> \in Byte
    <3>1. sent + i \in Nat /\ Len(messages) \in Nat
      BY <1>2, <1>3 DEF Positive
    <3>2. part \in Nat
      BY DEF WInv, WireShape, Positive
    <3>3. QED
      BY <3>1, <3>2 DEF Byte
  <2>2. QED
    BY <2>1
<1>5. /\ out' \in Seq(Byte) /\ Len(out') = Len(out) + n
      /\ \A i \in 1..Len(out) : out'[i] = out[i]
      /\ \A i \in 1..n : out'[Len(out) + i] = <<Len(messages), part, sent + i>>
  <2> HIDE DEF sending
  <2>1. /\ out' \in Seq(Byte) /\ Len(out') = Len(out) + n
        /\ \A i \in 1..Len(out) : out'[i] = out[i]
        /\ \A i \in 1..n : out'[Len(out) + i] = sending[i]
    BY <1>1, <1>3, <1>4, Concatenation
  <2>2. QED
    BY <2>1 DEF sending
<1>6. WireShape'
  <2>1. pc' = "send" /\ ~error'
    BY <1>1 DEF WInv, WireShape
  <2>2. sent' \in Nat /\ sent' <= messages'[Len(messages')][part']
    BY <1>1, <1>2, <1>3 DEF Positive
  <2>3. arrived' \in Nat /\ lost' \in Nat /\ arrived' + lost' <= Len(out')
    BY <1>1, <1>3, <1>5 DEF Positive
  <2>4. QED
    BY <1>1, <1>5, <2>1, <2>2, <2>3 DEF WInv, WireShape, requestVars
<1>7. \A i \in 1..Len(out') : Belongs(out'[i])
  <2> SUFFICES ASSUME NEW i \in 1..Len(out') PROVE Belongs(out'[i])
    OBVIOUS
  <2>1. CASE i \in 1..Len(out)
    BY <1>5, <2>1 DEF WInv
  <2>2. CASE i \notin 1..Len(out)
    <3>1. PICK j \in 1..n : i = Len(out) + j
      <4>1. i - Len(out) \in 1..n
        BY <1>1, <1>3, <1>5, <2>2 DEF Positive
      <4>2. QED
        BY <1>3, <4>1
    <3>2. out'[i] = <<Len(messages), part, sent + j>>
      BY <1>5, <3>1
    <3>3. sent + j \in 1..PartSize
      BY <1>1, <1>2, <1>3, Offsets
    <3>4. QED
      BY <1>2, <3>2, <3>3 DEF Belongs, Positive
  <2>3. QED
    BY <2>1, <2>2
<1>8. out'[Len(out) + 1] = <<Len(messages), part, sent + 1>>
  BY <1>1, <1>5 DEF Positive
<1>9. Position
  BY <1>1 DEF WInv
<1>11. BytesInOrder'
  <2>1. out'[1] = <<1, 1, 1>>
    <3>1. CASE out = <<>>
      <4>1. sent = 0 /\ Len(messages) = 1 /\ part = 1 /\ Len(out) = 0
        <5>1. sent = 0
          BY <1>3, <1>9, <3>1 DEF Position
        <5>2. Len(out) = 0
          BY <3>1
        <5>3. Len(messages) <= 1 /\ part = 1
          BY <1>9, <3>1, <5>1, Zenon DEF Position
        <5>4. Len(messages) = 1
          <6>1. Len(messages) \in Positive /\ Len(messages) <= 1
            BY <1>2, <5>3
          <6>2. QED
            BY <6>1, AtMostOne
        <5>5. QED
          BY <5>1, <5>2, <5>3, <5>4
      <4>2. QED
        BY <1>8, <4>1
    <3>2. CASE out # <<>>
      <4>1. Len(out) > 0
        BY <1>3, <3>2, NotEmpty
      <4>2. QED
        BY <1>3, <1>5, <3>2, <4>1 DEF WInv, BytesInOrder
    <3>3. QED
      BY <3>1, <3>2
  <2>2. ASSUME NEW i \in 1..Len(out')-1 PROVE out'[i + 1] = After(out'[i])
    <3>1. CASE i < Len(out)
      <4>1. i \in 1..Len(out)-1 /\ i + 1 \in 1..Len(out) /\ i \in 1..Len(out)
        BY <1>3, <3>1
      <4>2. out # <<>>
        BY <1>3, <4>1, NotEmpty
      <4>3. out[i + 1] = After(out[i])
        BY <4>1, <4>2 DEF WInv, BytesInOrder
      <4>4. out'[i + 1] = out[i + 1] /\ out'[i] = out[i]
        BY <1>5, <4>1
      <4>5. QED
        BY <4>3, <4>4
    <3>2. CASE i = Len(out)
      <4>1. i \in 1..Len(out) /\ out # <<>> /\ out'[i] = Last(out)
        BY <1>3, <1>5, <3>2, NotEmpty DEF Last
      <4>2. After(Last(out)) = <<Len(messages), part, sent + 1>>
        <5>1. CASE sent = 0
          BY <1>9, <4>1, <5>1 DEF Position
        <5>2. CASE sent > 0
          <6>1. sent < messages[Len(messages)][part]
            <7>1. 1 \in 1..n
              BY <1>1 DEF Positive
            <7>2. QED
              BY <1>1, <1>2, <1>3, <7>1, Offsets
          <6>2. QED
            BY <1>9, <5>2, <6>1 DEF Position, After
        <5>3. QED
          BY <1>3, <5>1, <5>2
      <4>3. QED
        BY <1>8, <3>2, <4>1, <4>2
    <3>3. CASE i > Len(out)
      <4>1. PICK j \in 1..n : i = Len(out) + j
        <5>1. i - Len(out) \in 1..n
          BY <1>1, <1>3, <1>5, <3>3 DEF Positive
        <5>2. QED
          BY <1>3, <5>1
      <4>2. j + 1 \in 1..n /\ i + 1 = Len(out) + (j + 1)
        BY <1>1, <1>3, <1>5, <4>1 DEF Positive
      <4>3. /\ out'[i] = <<Len(messages), part, sent + j>>
            /\ out'[i + 1] = <<Len(messages), part, sent + (j + 1)>>
        BY <1>5, <4>1, <4>2
      <4>4. sent + j < messages[Len(messages)][part]
        <5>1. sent + j < PartSize
          BY <1>1, <1>2, <1>3, <4>2, Offsets
        <5>2. QED
          BY <1>2, <5>1
      <4>5. sent + (j + 1) = sent + j + 1
        BY <1>3, <4>1
      <4>6. QED
        BY <4>3, <4>4, <4>5 DEF After
    <3>4. QED
      BY <1>3, <3>1, <3>2, <3>3
  <2>3. messages' = messages
    BY <1>1
  <2>4. QED
    BY <2>1, <2>2, <2>3 DEF BytesInOrder, After
<1>12. Position'
  <2>1. sent' > 0 /\ sent' = sent + n
    BY <1>1, <1>3 DEF Positive
  <2>2. out' # <<>>
    <3>1. Len(out') > 0
      BY <1>1, <1>3, <1>5 DEF Positive
    <3>2. QED
      BY <1>5, <3>1, NotEmpty
  <2>3. Last(out)' = <<Len(messages), part, sent + n>>
    <3>1. n \in 1..n
      BY <1>1 DEF Positive
    <3>2. out'[Len(out')] = <<Len(messages), part, sent + n>>
      BY <1>5, <3>1
    <3>3. QED
      BY <3>2 DEF Last
  <2>4. Len(messages)' = Len(messages) /\ part' = part /\ sent' \in Nat
    BY <1>1, <1>3 DEF Positive
  <2>5. sent' # 0
    BY <2>1, <2>4
  <2>6. QED
    BY <2>1, <2>2, <2>3, <2>4, <2>5, Zenon DEF Position
<1>13. (\A i \in 1..Len(out) : Belongs(out[i]))'
  BY <1>1, <1>7 DEF Belongs
<1>14. QED
  BY <1>6, <1>11, <1>12, <1>13 DEF WInv

-----------------------------------------------------------------------------
(* The other steps                                                         *)

\* The next part of the message.
LEMMA NextPartStep ==
    ASSUME WInv, NextPart
    PROVE  WInv'
<1>1. /\ pc = "send" /\ sent = PartSize /\ part < Len(messages[Len(messages)])
      /\ part' = part + 1 /\ sent' = 0
      /\ UNCHANGED <<requestVars, pc, error, messages, out, arrived, lost, gone>>
  BY DEF NextPart, Last, wireVars
<1>2. /\ Len(messages) \in Positive /\ messages[Len(messages)] \in Seq(Positive)
      /\ part \in 1..Len(messages[Len(messages)])
      /\ PartSize = messages[Len(messages)][part]
      /\ PartSize \in Positive
  BY <1>1, LastPart DEF WInv
<1>3. part' \in Positive /\ part' <= Len(messages[Len(messages)])
  BY <1>1, <1>2 DEF Positive
<1>4. messages[Len(messages)][part'] \in Positive
  BY <1>2, <1>3 DEF Positive
<1>5. WireShape'
  <2>1. pc' = "send" /\ error' = FALSE
    BY <1>1 DEF WInv, WireShape
  <2>2. sent' \in Nat /\ sent' <= messages'[Len(messages')][part']
    BY <1>1, <1>4 DEF Positive
  <2>3. QED
    BY <1>1, <1>3, <2>1, <2>2 DEF WInv, WireShape, requestVars
<1>6. Last(out) = <<Len(messages), part, sent>> /\ out # <<>>
  BY <1>1, <1>2 DEF WInv, Position, Positive
<1>7. After(Last(out)) = <<Len(messages), part + 1, 1>>
  <2>1. ~(sent < messages[Len(messages)][part])
    BY <1>1, <1>2 DEF Positive
  <2>2. QED
    BY <1>1, <1>6, <2>1 DEF After
<1>8. Position'
  BY <1>1, <1>6, <1>7 DEF Position, After, Last
<1>9. QED
  BY <1>1, <1>5, <1>8, AnswerStays DEF WInv

\* A step that leaves the answer alone.
LEMMA QuietStep ==
    ASSUME WInv, UNCHANGED <<messages, part, sent, out>>, WireShape',
           pc' \notin {"begin", "killed"} => pc \notin {"begin", "killed"}
    PROVE  WInv'
<1>1. Position => Position'
  BY DEF Position, After, Last
<1>2. QED
  BY <1>1, AnswerStays DEF WInv

LEMMA MessageSentStep ==
    ASSUME WInv, MessageSent
    PROVE  WInv'
<1>1. WireShape'
  BY DEF WInv, WireShape, MessageSent, requestVars, answerVars, wireVars, PartSize, Last
<1>2. QED
  BY <1>1, QuietStep DEF MessageSent, answerVars, wireVars

LEMMA SendFailsStep ==
    ASSUME WInv, SendFails
    PROVE  WInv'
<1>1. WireShape'
  BY DEF WInv, WireShape, SendFails, requestVars, answerVars, wireVars
<1>2. QED
  BY <1>1, QuietStep DEF SendFails, answerVars, wireVars

LEMMA StreamEndsStep ==
    ASSUME WInv, StreamEnds
    PROVE  WInv'
<1>1. WireShape'
  BY DEF WInv, WireShape, StreamEnds, requestVars, answerVars, wireVars
<1>2. QED
  BY <1>1, QuietStep DEF StreamEnds, answerVars, wireVars

\* The connection is closed, by the thread or by the end of the process; a reset
\* may take what the peer has not read.
LEMMA CloseStep ==
    ASSUME WInv, Close \/ ProcessEnds
    PROVE  WInv'
<1>1. /\ pc \notin {"closed", "killed"}
      /\ \/ pc = "close" /\ pc' = "closed"
         \/ pc' = "killed" /\ detached
      /\ Closes
      /\ UNCHANGED <<requestVars, error, messages, part, sent, out, arrived, gone>>
  BY DEF Close, ProcessEnds, answerVars
<1>2. /\ Len(out) \in Nat /\ arrived \in Nat /\ lost \in Nat
      /\ arrived + lost <= Len(out)
  BY DEF WInv, WireShape
<1>3. lost' \in Nat /\ arrived + lost' <= Len(out)
  <2>1. CASE unread
    <3>1. PICK n \in arrived..Len(out) : lost' = Len(out) - n
      BY <1>1, <2>1 DEF Closes
    <3>2. QED
      BY <1>2, <3>1
  <2>2. CASE ~unread
    BY <1>1, <1>2, <2>2 DEF Closes
  <2>3. QED
    BY <2>1, <2>2
<1>4. WireShape'
  BY <1>1, <1>2, <1>3 DEF WInv, WireShape, requestVars
<1>5. QED
  BY <1>1, <1>4, QuietStep

\* What the peer does.
LEMMA PeerStep ==
    ASSUME WInv, PeerReads \/ PeerLeaves
    PROVE  WInv'
<1>1. /\ UNCHANGED <<requestVars, pc, error, messages, part, sent, out, lost>>
      /\ arrived' \in Nat /\ arrived' + lost <= Len(out) /\ gone' \in BOOLEAN
  <2>1. CASE PeerReads
    <3>1. PICK n \in arrived+1..Len(out)-lost : arrived' = n
      BY <2>1 DEF PeerReads
    <3>2. arrived' \in Nat /\ arrived' + lost <= Len(out)
      BY <3>1 DEF WInv, WireShape
    <3>3. QED
      BY <2>1, <3>2 DEF WInv, WireShape, PeerReads, answerVars
  <2>2. CASE PeerLeaves
    BY <2>2 DEF WInv, WireShape, PeerLeaves, answerVars
  <2>3. QED
    BY <2>1, <2>2
<1>2. WireShape'
  BY <1>1 DEF WInv, WireShape, requestVars
<1>3. QED
  BY <1>1, <1>2, QuietStep

\* A message begins.
LEMMA BeginStep ==
    ASSUME WInv, BeginAnswer \/ NextFrame
    PROVE  WInv'
<1>1. /\ pc \in {"begin", "wait"} /\ UNCHANGED <<requestVars, error, wireVars>>
      /\ \/ Message(<<HeaderSize>>)
         \/ \E size \in BodySizes : Message(<<HeaderSize, size>>)
         \/ \E size \in BodySizes : Message(<<PartHeaderSize, size, TrailerSize>>)
  BY DEF BeginAnswer, NextFrame
<1>2. /\ HeaderSize \in Positive /\ PartHeaderSize \in Positive /\ TrailerSize \in Positive
      /\ \A size \in BodySizes : size \in Positive
  BY WireAssumption DEF Positive
<1>3. PICK parts \in Seq(Positive) : Len(parts) > 0 /\ Message(parts)
  <2>1. CASE Message(<<HeaderSize>>)
    <3>1. <<HeaderSize>> \in Seq(Positive) /\ Len(<<HeaderSize>>) > 0
      BY <1>2
    <3>2. QED
      BY <2>1, <3>1
  <2>2. CASE \E size \in BodySizes : Message(<<HeaderSize, size>>)
    <3>1. PICK size \in BodySizes : Message(<<HeaderSize, size>>)
      BY <2>2
    <3>2. <<HeaderSize, size>> \in Seq(Positive) /\ Len(<<HeaderSize, size>>) > 0
      BY <1>2
    <3>3. QED
      BY <3>1, <3>2
  <2>3. CASE \E size \in BodySizes : Message(<<PartHeaderSize, size, TrailerSize>>)
    <3>1. PICK size \in BodySizes : Message(<<PartHeaderSize, size, TrailerSize>>)
      BY <2>3
    <3>2. /\ <<PartHeaderSize, size, TrailerSize>> \in Seq(Positive)
          /\ Len(<<PartHeaderSize, size, TrailerSize>>) > 0
      BY <1>2
    <3>3. QED
      BY <3>1, <3>2
  <2>4. QED
    BY <1>1, <2>1, <2>2, <2>3
<1>4. QED
  BY <1>1, <1>3, MessageStep

-----------------------------------------------------------------------------
(* The theorems                                                            *)

LEMMA WireInit == ASSUME Init PROVE WInv
<1>1. out = <<>> /\ messages = <<>> /\ pc = "begin" /\ Len(out) = 0 /\ Len(messages) = 0
  BY DEF Init
<1>2. WireShape
  <2>1. messages \in Seq(Seq(Positive)) /\ out \in Seq(Byte)
    BY <1>1
  <2>2. part \in Positive /\ sent \in Nat /\ arrived = 0 /\ lost = 0
        /\ arrived \in Nat /\ lost \in Nat /\ arrived + lost <= Len(out)
    BY <1>1 DEF Init, Positive
  <2>3. error = FALSE /\ gone = FALSE
    BY DEF Init
  <2>4. \A m \in 1..Len(messages) : Len(messages[m]) > 0
    <3> HIDE DEF Positive
    <3>1. 1..Len(messages) = {}
      BY <1>1
    <3>2. QED
      BY <3>1
  <2>5. kind \in {"stream", "single"} /\ unread \in BOOLEAN /\ detached \in BOOLEAN
    BY DEF Init
  <2>6. QED
    BY <1>1, <2>1, <2>2, <2>3, <2>4, <2>5, Zenon DEF WireShape
<1>3. QED
  BY <1>1, <1>2 DEF WInv, BytesInOrder

\* The connection is what WInv says, whatever it has sent.
THEOREM WireInvariance == Spec => []WInv
<1>1. ASSUME WInv, [Next]_vars PROVE WInv'
  <2>1. CASE BeginAnswer \/ NextFrame
    BY <1>1, <2>1, BeginStep
  <2>2. CASE Sends
    BY <1>1, <2>2, SendStep DEF Sends
  <2>3. CASE Interrupted \/ Ended \/ UNCHANGED vars
    <3>1. UNCHANGED <<kind, unread, detached, pc, error, messages, part, sent,
                      out, arrived, lost, gone>>
      BY <2>3 DEF Interrupted, Ended, vars, requestVars, answerVars, wireVars
    <3>2. WireShape'
      BY <1>1, <3>1 DEF WInv, WireShape
    <3>3. QED
      BY <1>1, <3>1, <3>2, QuietStep
  <2>4. CASE SendFails
    BY <1>1, <2>4, SendFailsStep
  <2>5. CASE NextPart
    BY <1>1, <2>5, NextPartStep
  <2>6. CASE MessageSent
    BY <1>1, <2>6, MessageSentStep
  <2>7. CASE Close \/ ProcessEnds
    BY <1>1, <2>7, CloseStep
  <2>8. CASE StreamEnds
    BY <1>1, <2>8, StreamEndsStep
  <2>9. CASE PeerReads \/ PeerLeaves
    BY <1>1, <2>9, PeerStep
  <2>10. QED
    BY <1>1, <2>1, <2>2, <2>3, <2>4, <2>5, <2>6, <2>7, <2>8, <2>9 DEF Next, Server
<1>2. QED
  BY <1>1, WireInit, PTL DEF Spec

\* Every byte of the messages is sent once and in order, for every window and
\* size: send_all keeps its place over short sends and interruptions.
THEOREM SentInOrder == Spec => []BytesInOrder
<1>1. WInv => BytesInOrder
  BY DEF WInv
<1>2. QED
  BY <1>1, WireInvariance, PTL

\* Whatever the window, the sizes and the peer, a connection that its thread
\* closes without a failed send ends with a whole message, a request longer than
\* one recv or not; only the end of the process cuts another, and only if main
\* does not wait for the thread.
THEOREM WholeAnswers == Spec => []CutShortForAReason
<1>1. ASSUME WInv PROVE CutShortForAReason
  <2>1. CASE pc = "killed"
    BY <1>1, <2>1 DEF WInv, WireShape, CutShortForAReason
  <2>2. CASE error \/ pc \notin {"closed", "killed"}
    BY <2>2 DEF CutShortForAReason
  <2>3. CASE pc = "closed" /\ ~error
    <3>1. /\ part = Len(messages[Len(messages)])
          /\ sent = messages[Len(messages)][part]
      BY <1>1, <2>3 DEF WInv, WireShape
    <3>2. sent > 0
      BY <1>1, <2>3, <3>1, LastPart DEF WInv, Positive
    <3>3. out # <<>> /\ Last(out) = <<Len(messages), part, sent>>
      BY <1>1, <2>3, <3>2 DEF WInv, Position
    <3>4. ~Cut
      BY <3>1, <3>3 DEF Cut, LastByte, Last
    <3>5. QED
      BY <3>4 DEF CutShortForAReason
  <2>4. QED
    BY <2>1, <2>2, <2>3
<1>2. QED
  BY <1>1, WireInvariance, PTL
=============================================================================
