------------------------- MODULE XConnection_proofs -------------------------
(***************************************************************************)
(* Proofs about XConnection, for every size of messages and every bound.   *)
(***************************************************************************)
EXTENDS XConnectionProps, SequenceTheorems, TLAPS

\* What a stack is after a push and a pop.
LEMMA Push ==
    ASSUME NEW S, NEW s \in Seq(S), NEW x \in S
    PROVE  /\ <<x>> \o s \in Seq(S)
           /\ Len(<<x>> \o s) = Len(s) + 1
           /\ \A i \in 1..(Len(s) + 1) : (<<x>> \o s)[i] = IF i = 1 THEN x ELSE s[i - 1]
<1>1. <<x>> \in Seq(S) /\ Len(<<x>>) = 1 /\ <<x>>[1] = x
  OBVIOUS
<1>2. /\ <<x>> \o s \in Seq(S)
      /\ Len(<<x>> \o s) = 1 + Len(s)
      /\ \A i \in 1..(1 + Len(s)) : (<<x>> \o s)[i] = IF i <= 1 THEN <<x>>[i] ELSE s[i - 1]
  BY <1>1, ConcatProperties
<1> QED
  BY <1>1, <1>2, LenProperties

LEMMA Pop ==
    ASSUME NEW S, NEW s \in Seq(S), s # <<>>
    PROVE  /\ Tail(s) \in Seq(S)
           /\ Len(Tail(s)) = Len(s) - 1
           /\ \A i \in 1..(Len(s) - 1) : Tail(s)[i] = s[i + 1]
           /\ Head(s) = s[1] /\ Head(s) \in S
           /\ Len(s) = 1 => Tail(s) = <<>>
<1>1. Len(s) \in Nat \ {0} /\ Head(s) = s[1]
  BY EmptySeq
<1>2. /\ Tail(s) \in Seq(S) /\ Head(s) \in S
      /\ Len(Tail(s)) = Len(s) - 1
      /\ \A i \in 1..Len(Tail(s)) : Tail(s)[i] = s[i + 1]
  BY HeadTailProperties
<1>3. Tail(s) # <<>> => Len(Tail(s)) \in Nat \ {0}
  BY <1>2, EmptySeq
<1>4. Len(s) = 1 => Tail(s) = <<>>
  <2>1. Len(s) = 1 => Len(Tail(s)) = 0
    BY <1>2
  <2> QED
    BY <1>3, <2>1
<1> QED
  BY <1>1, <1>2, <1>4

-----------------------------------------------------------------------------
(* The stack                                                               *)

\* The writable part of HandleEvent is the last frame, and a callback of parseProtocol
\* is not.
Stacked(s) ==
    /\ s \in Seq(Frames)
    /\ \A i \in DOMAIN s : (s[i] = "write" => i = Len(s)) /\ (s[i] = "commit" => i < Len(s))

LEMMA StackPush ==
    ASSUME NEW s, Stacked(s), NEW x \in Frames \ {"write"}, x = "commit" => s # <<>>
    PROVE  Stacked(<<x>> \o s)
<1>1. s \in Seq(Frames) /\ Len(s) \in Nat /\ DOMAIN s = 1..Len(s)
  BY LenProperties DEF Stacked
<1>2. /\ <<x>> \o s \in Seq(Frames)
      /\ Len(<<x>> \o s) = Len(s) + 1
      /\ \A i \in 1..(Len(s) + 1) : (<<x>> \o s)[i] = IF i = 1 THEN x ELSE s[i - 1]
  BY <1>1, Push
<1>3. DOMAIN (<<x>> \o s) = 1..(Len(s) + 1)
  BY <1>2, LenProperties
<1>4. s # <<>> => Len(s) > 0
  BY <1>1, EmptySeq
<1>5. ASSUME NEW i \in 1..(Len(s) + 1)
      PROVE  /\ (<<x>> \o s)[i] = "write" => i = Len(s) + 1
             /\ (<<x>> \o s)[i] = "commit" => i < Len(s) + 1
  <2>1. CASE i = 1
    BY <1>1, <1>2, <1>4, <2>1
  <2>2. CASE i # 1
    <3>1. (<<x>> \o s)[i] = s[i - 1] /\ i - 1 \in 1..Len(s)
      BY <1>1, <1>2, <2>2
    <3>2. (s[i - 1] = "write" => i - 1 = Len(s)) /\ (s[i - 1] = "commit" => i - 1 < Len(s))
      BY <1>1, <3>1 DEF Stacked
    <3> QED
      BY <1>1, <3>1, <3>2
  <2> QED
    BY <2>1, <2>2
<1> QED
  BY <1>2, <1>3, <1>5 DEF Stacked

LEMMA StackPop ==
    ASSUME NEW s, Stacked(s), s # <<>>
    PROVE  /\ Stacked(Tail(s))
           /\ Head(s) = "write" => Tail(s) = <<>>
           /\ Head(s) = "commit" => Tail(s) # <<>>
           /\ Head(s) \in Frames
<1>1. s \in Seq(Frames) /\ Len(s) \in Nat /\ DOMAIN s = 1..Len(s) /\ Len(s) > 0
  BY LenProperties, EmptySeq DEF Stacked
<1>2. /\ Tail(s) \in Seq(Frames)
      /\ Len(Tail(s)) = Len(s) - 1
      /\ \A i \in 1..(Len(s) - 1) : Tail(s)[i] = s[i + 1]
      /\ Head(s) = s[1] /\ Head(s) \in Frames
      /\ Len(s) = 1 => Tail(s) = <<>>
  BY <1>1, Pop
<1>3. DOMAIN Tail(s) = 1..(Len(s) - 1)
  BY <1>2, LenProperties
<1>4. ASSUME NEW i \in 1..(Len(s) - 1)
      PROVE  /\ Tail(s)[i] = "write" => i = Len(s) - 1
             /\ Tail(s)[i] = "commit" => i < Len(s) - 1
  <2>1. Tail(s)[i] = s[i + 1] /\ i + 1 \in DOMAIN s
    BY <1>1, <1>2
  <2>2. (s[i + 1] = "write" => i + 1 = Len(s)) /\ (s[i + 1] = "commit" => i + 1 < Len(s))
    BY <2>1 DEF Stacked
  <2>3. i \in Int /\ Len(s) \in Int
    BY <1>1
  <2> QED
    BY <2>1, <2>2, <2>3
<1>5. (Head(s) = "write" => Len(s) = 1) /\ (Head(s) = "commit" => Len(s) > 1)
  <2>1. 1 \in DOMAIN s
    BY <1>1
  <2> QED
    BY <1>2, <2>1 DEF Stacked
<1>6. Tail(s) = <<>> => Len(s) = 1
  <2>1. Len(<<>>) = 0
    BY EmptySeq
  <2>2. Tail(s) = <<>> => Len(s) - 1 = 0
    BY <1>2, <2>1
  <2> QED
    BY <1>1, <2>2
<1>7. Stacked(Tail(s))
  BY <1>2, <1>3, <1>4 DEF Stacked
<1>8. (Head(s) = "write" => Tail(s) = <<>>) /\ (Head(s) = "commit" => Tail(s) # <<>>)
  <2>1. Head(s) = "write" => Tail(s) = <<>>
    BY <1>2, <1>5
  <2>2. Len(s) > 1 => Len(s) # 1
    BY <1>1
  <2>3. Head(s) = "commit" => Tail(s) # <<>>
    BY <1>5, <1>6, <2>2
  <2> QED
    BY <2>1, <2>3
<1> QED
  BY <1>2, <1>7, <1>8

LEMMA ShortStacks ==
    /\ Stacked(<<>>)
    /\ Stacked(<<"write">>)
    /\ \A x \in Frames \ {"write", "commit"} : Stacked(<<x>>) /\ Stacked(<<x>> \o <<"write">>)
    /\ <<"functor">> # <<>> /\ Tail(<<"functor">>) = <<>> /\ Head(<<"functor">>) = "functor"
<1>1. Stacked(<<>>)
  BY DEF Stacked
<1>2. Stacked(<<"write">>)
  BY DEF Stacked, Frames, Methods
<1>3. ASSUME NEW x \in Frames \ {"write", "commit"}
      PROVE  Stacked(<<x>>) /\ Stacked(<<x>> \o <<"write">>)
  <2>1. <<x>> \in Seq(Frames) /\ Len(<<x>>) = 1 /\ DOMAIN <<x>> = 1..1 /\ <<x>>[1] = x
    OBVIOUS
  <2> QED
    BY <1>2, <2>1, StackPush DEF Stacked
<1> QED
  BY <1>1, <1>2, <1>3

-----------------------------------------------------------------------------
(* The inductive invariant, in parts that the actions disturb separately   *)

CloseOK ==
    /\ connStatus_ \in {"CONNECTING", "CONNECTED", "DISCONNECTING"}
    /\ mask \subseteq AllEvents
    /\ mask # {} <=> isConnected
    /\ listed \in BOOLEAN
    /\ closedIn \in {"none", "event", "functor", "callback"}
    /\ closedIn = "none" => listed
    /\ connStatus_ = "DISCONNECTING" <=> closedIn # "none"

SendOK ==
    /\ writeEnabled_ \in BOOLEAN
    /\ writeBuff_ \in Seq(Bytes) /\ wire \in Seq(Bytes)
    /\ given \in 0..MaxGiven /\ shorts \in 0..MaxShort

ReadOK ==
    /\ came \in 0..MaxNet
    /\ net \in Seq(1..MaxNet) /\ readBuff_ \in Seq(1..MaxNet) /\ committed \in Seq(1..MaxNet)
    /\ fin \in {"open", "eof", "reset"} /\ empties \in 0..MaxEmpty

UserOK == functors \in Seq(Functor) /\ closeTimer \in BOOLEAN /\ held \in BOOLEAN

StackOK ==
    /\ Stacked(stack)
    /\ closedIn \in {"event", "functor"} => stack = <<>> \/ stack = <<"functor">>

EndOK == undefined \in BOOLEAN /\ FreedOnlyByCallBack

Inv == CloseOK /\ SendOK /\ ReadOK /\ UserOK /\ StackOK /\ EndOK

\* The parts make up the invariants of XConnectionProps.
LEMMA InvIs == Inv <=> TypeOK /\ ClosingInv
BY DEF Inv, CloseOK, SendOK, ReadOK, UserOK, StackOK, EndOK, TypeOK, ClosingInv,
       Stacked, FreedOnlyByCallBack

\* Whoever closes, the connection leaves the tables and says so.
LEMMA Closing ==
    ASSUME CloseOK, NEW where \in {"event", "functor", "callback"}, closeConn(where)
    PROVE  /\ CloseOK' /\ mask' = {} /\ connStatus_' = "DISCONNECTING"
           /\ connStatus_ # "DISCONNECTING" => closedIn' = where
           /\ connStatus_ = "DISCONNECTING" => closedIn' = closedIn
BY DEF CloseOK, closeConn, closeVars, isConnected

\* The end of sendMsg changes the mask only of a registered descriptor.
LEMMA SendTail ==
    ASSUME CloseOK, writeEnabled_ \in BOOLEAN, NEW below, sendTail(below),
           UNCHANGED <<connStatus_, listed, closedIn>>
    PROVE  CloseOK' /\ writeEnabled_' \in BOOLEAN /\ stack' = below
BY DEF CloseOK, sendTail, addEvent, removeEvent, Modify, AllEvents, isConnected

\* sendMsg adds a callback to the stack at most, and none to a closed connection.
LEMMA SendMsg ==
    ASSUME CloseOK, SendOK, NEW buff \in Seq(Bytes), NEW below, Stacked(below),
           NEW inEvent \in BOOLEAN, sendMsg(buff, below, inEvent)
    PROVE  /\ CloseOK'
           /\ writeEnabled_' \in BOOLEAN /\ writeBuff_' \in Seq(Bytes) /\ wire' \in Seq(Bytes)
           /\ shorts' \in 0..MaxShort
           /\ Stacked(stack')
           /\ stack' = below \/ (stack' = <<"sent">> \o below /\ UNCHANGED closeVars)
           /\ ~isConnected => (stack' = below /\ UNCHANGED closeVars)
           /\ ~inEvent => UNCHANGED closeVars
           /\ closedIn' = closedIn \/ (closedIn' = "event" /\ stack' = below)
<1> USE BoundsAssumption
<1>1. CASE ~isConnected
  BY <1>1 DEF sendMsg, closeVars, CloseOK, SendOK, isConnected
<1>2. CASE isConnected /\ sentAll(buff, below)
  <2>1. Stacked(<<"sent">> \o below)
    BY StackPush DEF Frames, CallBacks
  <2>2. wire \o buff \in Seq(Bytes) /\ <<>> \in Seq(Bytes)
    BY ConcatProperties, EmptySeq DEF SendOK
  <2>3. UNCHANGED closeVars /\ CloseOK'
    BY <1>2 DEF sentAll, closeVars, CloseOK, isConnected
  <2>4. UNCHANGED <<shorts, writeEnabled_>> /\ writeBuff_' \in Seq(Bytes) /\ wire' \in Seq(Bytes)
    BY <1>2, <2>2 DEF sentAll
  <2>5. stack' = <<"sent">> \o below
    BY <1>2 DEF sentAll
  <2>6. closedIn' = closedIn
    BY <2>3 DEF closeVars
  <2>7. writeEnabled_' \in BOOLEAN /\ shorts' \in 0..MaxShort
    BY <2>4 DEF SendOK
  <2> QED
    BY <1>2, <2>1, <2>3, <2>4, <2>5, <2>6, <2>7
<1>3. CASE isConnected /\ sentPart(buff, below)
  <2>1. \A k \in 0..(Len(buff) - 1) : wire \o SubSeq(buff, 1, k) \in Seq(Bytes)
    <3>1. ASSUME NEW k \in 0..(Len(buff) - 1)
          PROVE  wire \o SubSeq(buff, 1, k) \in Seq(Bytes)
      <4>1. Len(buff) \in Nat
        BY LenProperties
      <4>2. \A i \in 1..k : buff[i] \in Bytes
        BY <4>1, ElementOfSeq
      <4>3. SubSeq(buff, 1, k) \in Seq(Bytes)
        BY <4>1, <4>2, SubSeqProperties
      <4> QED
        BY <4>3, ConcatProperties DEF SendOK
    <3> QED
      BY <3>1
  <2>2. UNCHANGED closeVars /\ CloseOK'
    BY <1>3 DEF sentPart, closeVars, CloseOK, isConnected
  <2>3. writeBuff_' = buff /\ wire' \in Seq(Bytes) /\ stack' = below /\ UNCHANGED writeEnabled_
    BY <1>3, <2>1 DEF sentPart
  <2>4. shorts' \in 0..MaxShort
    BY <1>3 DEF sentPart, SendOK
  <2>5. closedIn' = closedIn
    BY <2>2 DEF closeVars
  <2>6. writeEnabled_' \in BOOLEAN
    BY <2>3 DEF SendOK
  <2> QED
    BY <1>3, <2>2, <2>3, <2>4, <2>5, <2>6
<1>4. CASE isConnected /\ sendError(buff, below, inEvent)
  <2>1. CASE inEvent
    BY <1>4, <2>1, Closing DEF sendError, SendOK, isConnected, CloseOK
  <2>2. CASE ~inEvent
    BY <1>4, <2>2 DEF sendError, closeVars, CloseOK, SendOK, isConnected
  <2> QED
    BY <2>1, <2>2
<1> QED
  BY <1>1, <1>2, <1>3, <1>4 DEF sendMsg

LEMMA SendMsgToBuffer ==
    ASSUME CloseOK, SendOK, NEW n \in Sizes, NEW below, Stacked(below),
           sendMsgToBuffer(n, below)
    PROVE  /\ CloseOK' /\ SendOK'
           /\ Stacked(stack')
           /\ stack' = below \/ stack' = <<"sent">> \o below
           /\ ~isConnected => stack' = below
           /\ UNCHANGED closeVars
<1> DEFINE buff == writeBuff_ \o [i \in 1..n |-> given + i]
<1> USE BoundsAssumption, SizesAssumption
<1>1. given' \in 0..MaxGiven
  BY DEF sendMsgToBuffer, SendOK
<1>2. [i \in 1..n |-> given + i] \in Seq(Bytes)
  <2>1. \A i \in 1..n : given + i \in Bytes
    BY DEF sendMsgToBuffer, SendOK, Bytes
  <2>2. n \in Nat /\ [i \in 1..n |-> given + i] \in [1..n -> Bytes]
    BY <2>1
  <2> QED
    BY <2>2
<1>3. buff \in Seq(Bytes)
  BY <1>2, ConcatProperties DEF SendOK
<1>4. sendMsg(buff, below, FALSE)
  BY DEF sendMsgToBuffer
<1> HIDE DEF buff
<1> QED
  BY <1>1, <1>3, <1>4, SendMsg DEF SendOK

-----------------------------------------------------------------------------
(* One lemma per kind of step                                              *)

\* Steps of the peer, of other threads and of user code that touch neither the bytes
\* in the buffers nor the stack.
LEMMA OutsideStep ==
    ASSUME Inv, ~undefined,
           keepPointer \/ closeConnectionAfter \/ schedule \/ letGo \/ peerStep
    PROVE  Inv'
<1> USE BoundsAssumption DEF Inv
<1>1. UNCHANGED <<closeVars, sendVars, readBuff_, committed, empties, stack, undefined>>
  BY DEF keepPointer, closeConnectionAfter, schedule, letGo, peerStep, peerSends, peerEnds,
         readVars
<1>2. CloseOK' /\ SendOK' /\ StackOK' /\ EndOK'
  <2>1. CloseOK'
    BY <1>1 DEF closeVars, CloseOK, isConnected
  <2>2. SendOK'
    BY <1>1 DEF sendVars, SendOK
  <2>3. StackOK'
    BY <1>1 DEF closeVars, StackOK, Stacked
  <2>4. EndOK'
    BY <1>1 DEF closeVars, EndOK, FreedOnlyByCallBack
  <2> QED
    BY <2>1, <2>2, <2>3, <2>4
<1>3. ReadOK'
  <2>1. CASE peerSends
    <3>1. came + 1 \in 1..MaxNet /\ Append(net, came + 1) \in Seq(1..MaxNet)
      BY <2>1, AppendProperties DEF peerSends, ReadOK
    <3> QED
      BY <1>1, <2>1, <3>1 DEF peerSends, ReadOK
  <2>2. CASE peerEnds
    BY <1>1, <2>2 DEF peerEnds, ReadOK
  <2>3. CASE keepPointer \/ closeConnectionAfter \/ schedule \/ letGo
    BY <1>1, <2>3 DEF keepPointer, closeConnectionAfter, schedule, letGo, netVars, ReadOK
  <2> QED
    BY <2>1, <2>2, <2>3 DEF peerStep
<1>4. UserOK'
  <2>1. CASE schedule
    <3>1. \A f \in Functor : Append(functors, f) \in Seq(Functor)
      BY AppendProperties DEF UserOK
    <3> QED
      BY <2>1, <3>1 DEF schedule, UserOK
  <2>2. CASE keepPointer \/ closeConnectionAfter \/ letGo
    BY <2>2 DEF keepPointer, closeConnectionAfter, letGo, UserOK
  <2>3. CASE peerStep
    BY <2>3 DEF peerStep, peerSends, peerEnds, userVars, UserOK
  <2> QED
    BY <2>1, <2>2, <2>3
<1> QED
  BY <1>2, <1>3, <1>4

\* The connection is made: the stack was empty and nothing has closed it.
LEMMA MakeConnectedStep ==
    ASSUME Inv, ~undefined, makeConnected
    PROVE  Inv'
<1> USE DEF Inv
<1>1. CloseOK' /\ closedIn = "none"
  BY DEF CloseOK, makeConnected, isConnected, AllEvents
<1>2. StackOK'
  BY <1>1, ShortStacks DEF makeConnected, StackOK, Frames, CallBacks
<1>3. SendOK' /\ ReadOK' /\ UserOK'
  BY DEF makeConnected, SendOK, ReadOK, UserOK, sendVars, netVars, readVars, userVars
<1>4. EndOK'
  BY DEF makeConnected, EndOK, FreedOnlyByCallBack
<1> QED
  BY <1>1, <1>2, <1>3, <1>4

\* Closing between events leaves an empty stack.
LEMMA IdleCloseStep ==
    ASSUME Inv, ~undefined, HandleError \/ runClose \/ timerCloses
    PROVE  Inv'
<1> USE DEF Inv
<1>1. PICK where \in {"event", "functor"} : closeConn(where)
  BY DEF HandleError, runClose, timerCloses
<1>2. CloseOK'
  BY <1>1, Closing
<1>3. UNCHANGED <<sendVars, netVars, readVars, stack, undefined>> /\ stack = <<>>
  BY DEF HandleError, runClose, timerCloses, idle
<1>4. SendOK' /\ ReadOK'
  BY <1>3 DEF SendOK, ReadOK, sendVars, netVars, readVars
<1>5. StackOK'
  BY <1>3, ShortStacks DEF StackOK
<1>6. EndOK'
  BY <1>3 DEF EndOK, FreedOnlyByCallBack
<1>7. UserOK'
  <2>1. functors # <<>> => Tail(functors) \in Seq(Functor)
    BY Pop DEF UserOK
  <2> QED
    BY <2>1 DEF HandleError, runClose, timerCloses, UserOK, userVars
<1> QED
  BY <1>2, <1>4, <1>5, <1>6, <1>7

\* While a callback or a method is on top, nothing but a callback has closed.
LEMMA Busy ==
    ASSUME Inv, NEW frames, frames \subseteq CallBacks \cup Methods, top(frames)
    PROVE  /\ stack # <<>> /\ Head(stack) \in frames
           /\ Stacked(Tail(stack))
           /\ Head(stack) = "write" => Tail(stack) = <<>>
           /\ Head(stack) = "commit" => Tail(stack) # <<>>
           /\ closedIn \notin {"event", "functor"}
<1>1. stack # <<>> /\ Head(stack) \in frames
  BY DEF top, idle
<1>2. stack # <<"functor">>
  BY <1>1, ShortStacks DEF CallBacks, Methods
<1> QED
  BY <1>1, <1>2, StackPop DEF Inv, StackOK

\* An event is handled when nothing has closed the connection yet.
LEMMA HandleEventStep ==
    ASSUME Inv, ~undefined, NEW events \in SUBSET AllEvents, HandleEvent(events)
    PROVE  Inv'
<1> USE DEF Inv
<1> DEFINE rest == IF XE_WRITABLE \in events THEN <<"write">> ELSE <<>>
           parsed == (IF net # <<>> THEN <<"parse">> ELSE <<>>) \o rest
<1>1. closedIn = "none"
  BY DEF HandleEvent, CloseOK, isConnected
<1>2. SendOK' /\ UserOK' /\ UNCHANGED <<came, fin, committed, empties, undefined>>
  BY DEF HandleEvent, SendOK, UserOK, sendVars, userVars
<1>3. EndOK'
  BY <1>2 DEF EndOK, FreedOnlyByCallBack
<1>4. Stacked(rest) /\ Stacked(parsed)
  <2>1. Stacked(rest)
    BY ShortStacks
  <2>2. <<>> \o rest = rest
    BY <2>1, ConcatEmptySeq DEF Stacked
  <2>3. Stacked(<<"parse">> \o rest)
    BY <2>1, StackPush DEF Frames, Methods
  <2> QED
    BY <2>1, <2>2, <2>3
<1> HIDE DEF rest, parsed
<1>5. ReadOK'
  <2>1. readBuff_ \o net \in Seq(1..MaxNet) /\ <<>> \in Seq(1..MaxNet)
    BY ConcatProperties, EmptySeq DEF ReadOK
  <2>2. CASE XE_READABLE \in events
    BY <1>2, <2>1, <2>2 DEF HandleEvent, readMsg, ReadOK
  <2>3. CASE XE_READABLE \notin events
    BY <1>2, <2>3 DEF HandleEvent, ReadOK
  <2> QED
    BY <2>2, <2>3
<1>6. CASE XE_READABLE \in events /\ fin # "open"
  <2>1. closeConn("event") /\ stack' = <<>>
    BY <1>6 DEF HandleEvent, readMsg
  <2>2. CloseOK'
    BY <2>1, Closing
  <2>3. StackOK'
    BY <2>1, ShortStacks DEF StackOK
  <2> QED
    BY <1>2, <1>3, <1>5, <2>2, <2>3
<1>7. CASE ~(XE_READABLE \in events /\ fin # "open")
  <2>1. UNCHANGED closeVars /\ (stack' = parsed \/ stack' = <<"write">>)
    BY <1>7 DEF HandleEvent, readMsg, parsed, rest
  <2>2. CloseOK'
    BY <2>1 DEF closeVars, CloseOK, isConnected
  <2>3. StackOK'
    BY <1>1, <1>4, <2>1, ShortStacks DEF StackOK, closeVars
  <2> QED
    BY <1>2, <1>3, <1>5, <2>2, <2>3
<1> QED
  BY <1>6, <1>7

\* The end of sendMsg, after the callback and in an event.
LEMMA SendingStep ==
    ASSUME Inv, ~undefined, tail \/ write
    PROVE  Inv'
<1> USE DEF Inv
<1>1. /\ stack # <<>> /\ Stacked(Tail(stack))
      /\ Head(stack) = "write" => Tail(stack) = <<>>
      /\ closedIn \notin {"event", "functor"}
  <2>1. top({"tail"}) \/ top({"write"})
    BY DEF tail, write
  <2> QED
    BY <2>1, Busy DEF Methods
<1>2. ReadOK' /\ UserOK' /\ UNCHANGED <<given, undefined>>
  BY DEF tail, write, ReadOK, UserOK, netVars, readVars, userVars
<1>3. EndOK'
  BY <1>2 DEF EndOK, FreedOnlyByCallBack
<1>4. ASSUME sendTail(Tail(stack)), UNCHANGED <<connStatus_, listed, closedIn, writeBuff_, wire, shorts>>
      PROVE  Inv'
  <2>1. CloseOK' /\ writeEnabled_' \in BOOLEAN /\ stack' = Tail(stack)
    BY <1>4, SendTail DEF SendOK
  <2>2. SendOK'
    BY <1>2, <1>4, <2>1 DEF SendOK
  <2>3. StackOK'
    BY <1>1, <1>4, <2>1 DEF StackOK
  <2> QED
    BY <1>2, <1>3, <2>1, <2>2, <2>3
<1>5. ASSUME top({"write"}), sendMsg(writeBuff_, Tail(stack), TRUE)
      PROVE  Inv'
  <2>1. Tail(stack) = <<>>
    BY <1>1, <1>5 DEF top
  <2>2. /\ CloseOK'
        /\ writeEnabled_' \in BOOLEAN /\ writeBuff_' \in Seq(Bytes) /\ wire' \in Seq(Bytes)
        /\ shorts' \in 0..MaxShort
        /\ Stacked(stack')
        /\ closedIn' = closedIn \/ (closedIn' = "event" /\ stack' = Tail(stack))
    BY <1>1, <1>5, SendMsg DEF SendOK
  <2>3. SendOK'
    BY <1>2, <2>2 DEF SendOK
  <2>4. StackOK'
    BY <1>1, <2>1, <2>2 DEF StackOK
  <2> QED
    BY <1>2, <1>3, <2>2, <2>3, <2>4
<1> QED
  BY <1>4, <1>5 DEF tail, write

\* parseProtocol moves bytes from readBuff_ to the messages it commits.
LEMMA ParsingStep ==
    ASSUME Inv, ~undefined, parseEnd \/ parseError \/ catch \/ parseCommit
    PROVE  Inv'
<1> USE BoundsAssumption DEF Inv
<1>1. /\ stack # <<>> /\ Stacked(Tail(stack))
      /\ closedIn \notin {"event", "functor"}
  <2>1. top({"parse"}) \/ top({"catch"})
    BY DEF parseEnd, parseError, catch, parseCommit
  <2> QED
    BY <2>1, Busy DEF Methods
<1>2. UNCHANGED <<closeVars, sendVars, netVars, userVars, undefined>>
  BY DEF parseEnd, parseError, catch, parseCommit
<1>3. CloseOK'
  BY <1>2 DEF closeVars, CloseOK, isConnected
<1>4. SendOK' /\ UserOK'
  BY <1>2 DEF sendVars, SendOK, userVars, UserOK
<1>5. EndOK'
  BY <1>2 DEF closeVars, EndOK, FreedOnlyByCallBack
<1>6. StackOK'
  <2>1. Stacked(<<"commit">> \o stack)
    BY <1>1, StackPush DEF StackOK, Frames, CallBacks
  <2>2. stack' = Tail(stack) \/ stack' = <<"commit">> \o stack
    BY DEF parseEnd, parseError, catch, parseCommit
  <2> QED
    BY <1>1, <1>2, <2>1, <2>2 DEF StackOK, closeVars
<1>7. ReadOK'
  <2>1. CASE parseEnd
    BY <2>1 DEF parseEnd, ReadOK, netVars, readVars
  <2>2. CASE parseError \/ catch
    BY <2>2, EmptySeq DEF parseError, catch, ReadOK, netVars
  <2>3. CASE parseCommit
    <3>1. PICK n \in 0..Len(readBuff_) :
             /\ n = 0 => empties < MaxEmpty
             /\ empties' = IF n = 0 THEN empties + 1 ELSE empties
             /\ commit(n)
      BY <2>3 DEF parseCommit
    <3>2. Len(readBuff_) \in Nat /\ n \in Nat /\ n <= Len(readBuff_)
      BY LenProperties DEF ReadOK
    <3>3. SubSeq(readBuff_, 1, n) \in Seq(1..MaxNet)
      <4>1. \A i \in 1..n : readBuff_[i] \in 1..MaxNet
        BY <3>2, ElementOfSeq DEF ReadOK
      <4> QED
        BY <3>2, <4>1, SubSeqProperties
    <3>4. SubSeq(readBuff_, n + 1, Len(readBuff_)) \in Seq(1..MaxNet)
      <4>1. \A i \in (n + 1)..Len(readBuff_) : readBuff_[i] \in 1..MaxNet
        BY <3>2, ElementOfSeq DEF ReadOK
      <4> QED
        BY <3>2, <4>1, SubSeqProperties
    <3>5. committed \o SubSeq(readBuff_, 1, n) \in Seq(1..MaxNet)
      BY <3>3, ConcatProperties DEF ReadOK
    <3>6. empties' \in 0..MaxEmpty
      BY <3>1 DEF ReadOK
    <3> QED
      BY <1>2, <3>1, <3>4, <3>5, <3>6 DEF commit, ReadOK, netVars
  <2> QED
    BY <2>1, <2>2, <2>3
<1> QED
  BY <1>3, <1>4, <1>5, <1>6, <1>7

\* User code in a callback sends, closes, returns or throws.
LEMMA CallBackStep ==
    ASSUME Inv, ~undefined,
           callBackSends \/ callBackCloses \/ callBackReturns \/ callBackThrows
    PROVE  Inv'
<1> USE DEF Inv
<1>1. /\ stack # <<>> /\ Stacked(Tail(stack)) /\ Stacked(stack)
      /\ closedIn \notin {"event", "functor"}
  <2>1. top(CallBacks) \/ top({"commit"})
    BY DEF callBackSends, callBackCloses, callBackReturns, callBackThrows
  <2> QED
    BY <2>1, Busy DEF CallBacks, StackOK
<1>2. ReadOK' /\ UserOK' /\ UNCHANGED undefined
  BY DEF callBackSends, callBackCloses, callBackReturns, callBackThrows, ReadOK, UserOK,
         netVars, readVars, userVars
<1>3. EndOK'
  BY <1>2 DEF EndOK, FreedOnlyByCallBack
<1>4. CASE callBackSends
  <2>1. PICK n \in Sizes : sendMsgToBuffer(n, stack)
    BY <1>4 DEF callBackSends
  <2>2. CloseOK' /\ SendOK' /\ Stacked(stack') /\ UNCHANGED closeVars
    BY <1>1, <2>1, SendMsgToBuffer
  <2>3. StackOK'
    BY <1>1, <2>2 DEF StackOK, closeVars
  <2> QED
    BY <1>2, <1>3, <2>2, <2>3
<1>5. CASE callBackCloses
  <2>1. CloseOK' /\ closedIn' \notin {"event", "functor"}
    BY <1>1, <1>5, Closing DEF callBackCloses
  <2>2. SendOK' /\ stack' = stack
    BY <1>5 DEF callBackCloses, SendOK, sendVars
  <2>3. StackOK'
    BY <1>1, <2>1, <2>2 DEF StackOK
  <2> QED
    BY <1>2, <1>3, <2>1, <2>2, <2>3
<1>6. CASE callBackReturns \/ callBackThrows
  <2>1. CloseOK' /\ SendOK' /\ closedIn' = closedIn
    BY <1>6 DEF callBackReturns, callBackThrows, CloseOK, SendOK, isConnected, closeVars, sendVars
  <2>2. Stacked(stack')
    <3>1. CASE callBackReturns
      <4>1. Stacked(<<"tail">> \o Tail(stack))
        BY <1>1, StackPush DEF Frames, Methods
      <4>2. <<>> \o Tail(stack) = Tail(stack)
        BY <1>1, ConcatEmptySeq DEF Stacked
      <4> QED
        BY <1>1, <3>1, <4>1, <4>2 DEF callBackReturns
    <3>2. CASE callBackThrows
      <4>1. Tail(stack) # <<>>
        BY <3>2, <1>1, StackPop DEF callBackThrows, top
      <4>2. Stacked(Tail(Tail(stack)))
        BY <1>1, <4>1, StackPop
      <4>3. Stacked(<<"catch">> \o Tail(Tail(stack)))
        BY <4>2, StackPush DEF Frames, Methods
      <4> QED
        BY <3>2, <4>3 DEF callBackThrows
    <3> QED
      BY <1>6, <3>1, <3>2
  <2>3. StackOK'
    BY <1>1, <2>1, <2>2 DEF StackOK
  <2> QED
    BY <1>2, <1>3, <2>1, <2>3
<1> QED
  BY <1>4, <1>5, <1>6

\* Functors run on an empty stack.
LEMMA FunctorStep ==
    ASSUME Inv, ~undefined, runSend \/ runResponse \/ functorEnd
    PROVE  Inv'
<1> USE DEF Inv
<1>1. ReadOK' /\ UNCHANGED undefined
  BY DEF runSend, runResponse, functorEnd, ReadOK, netVars, readVars
<1>2. EndOK' \/ ~UNCHANGED closeVars
  BY <1>1 DEF EndOK, FreedOnlyByCallBack, closeVars
<1>3. CASE functorEnd
  <2>1. UNCHANGED <<closeVars, sendVars, userVars>> /\ stack' = Tail(stack)
    BY <1>3 DEF functorEnd
  <2>2. CloseOK' /\ SendOK' /\ UserOK'
    BY <2>1 DEF closeVars, sendVars, userVars, CloseOK, SendOK, UserOK, isConnected
  <2>3. StackOK'
    <3>1. stack # <<>> /\ Stacked(Tail(stack))
      BY <1>3, StackPop DEF functorEnd, top, idle, StackOK
    <3>2. closedIn \in {"event", "functor"} => Tail(stack) = <<>>
      BY <3>1, ShortStacks DEF StackOK
    <3> QED
      BY <2>1, <3>1, <3>2 DEF StackOK, closeVars
  <2> QED
    BY <1>1, <1>2, <2>1, <2>2, <2>3
<1>4. CASE runSend \/ runResponse
  <2>1. functors # <<>> /\ functors \in Seq(Functor) /\ Head(functors) \in Functor
    BY <1>4, Pop DEF runSend, runResponse, UserOK
  <2>2. UserOK'
    BY <1>4, <2>1, Pop DEF runSend, runResponse, UserOK
  <2>3. CASE runSend
    <3>1. Head(functors).size \in Sizes
      BY <2>1, <2>3 DEF Functor, runSend
    <3>2. sendMsgToBuffer(Head(functors).size, <<"functor">>) /\ Stacked(<<"functor">>)
      BY <2>3, ShortStacks DEF runSend, Frames
    <3>3. /\ CloseOK' /\ SendOK' /\ Stacked(stack') /\ UNCHANGED closeVars
          /\ ~isConnected => stack' = <<"functor">>
      BY <3>1, <3>2, SendMsgToBuffer
    <3>4. StackOK'
      BY <3>3 DEF StackOK, CloseOK, isConnected, closeVars
    <3> QED
      BY <1>1, <1>2, <2>2, <3>3, <3>4
  <2>4. CASE runResponse /\ listed /\ isConnected
    <3>1. Head(functors).size \in Sizes
      BY <2>1, <2>4 DEF Functor, runResponse
    <3>2. sendMsgToBuffer(Head(functors).size, <<>>) /\ Stacked(<<>>)
      BY <2>4, ShortStacks DEF runResponse
    <3>3. CloseOK' /\ SendOK' /\ Stacked(stack') /\ UNCHANGED closeVars
      BY <3>1, <3>2, SendMsgToBuffer
    <3>4. StackOK'
      BY <2>4, <3>3 DEF StackOK, CloseOK, isConnected, closeVars
    <3> QED
      BY <1>1, <1>2, <2>2, <3>3, <3>4
  <2>5. CASE runResponse /\ ~(listed /\ isConnected)
    <3>1. UNCHANGED <<closeVars, sendVars, stack>>
      BY <2>5 DEF runResponse
    <3>2. CloseOK' /\ SendOK' /\ StackOK'
      BY <3>1 DEF closeVars, sendVars, CloseOK, SendOK, StackOK, Stacked, isConnected
    <3> QED
      BY <1>1, <1>2, <2>2, <3>1, <3>2
  <2> QED
    BY <1>4, <2>3, <2>4, <2>5
<1> QED
  BY <1>3, <1>4

\* A method goes on without a pointer: the owner's is gone, so somebody closed the
\* connection; nobody but a callback does while there is a method on the stack.
LEMMA UseAfterFreeStep ==
    ASSUME Inv, ~undefined, useAfterFree
    PROVE  Inv'
<1> USE DEF Inv
<1>1. closedIn \notin {"event", "functor"}
  BY Busy DEF useAfterFree
<1>2. closedIn = "callback"
  BY <1>1 DEF useAfterFree, alive, CloseOK
<1>3. UNCHANGED <<closeVars, sendVars, netVars, readVars, userVars, stack>> /\ undefined' = TRUE
  BY DEF useAfterFree
<1>4. CloseOK' /\ SendOK' /\ StackOK'
  BY <1>3 DEF closeVars, sendVars, CloseOK, SendOK, StackOK, Stacked, isConnected
<1>5. ReadOK' /\ UserOK'
  BY <1>3 DEF netVars, readVars, userVars, ReadOK, UserOK
<1>6. EndOK'
  BY <1>2, <1>3 DEF closeVars, EndOK, FreedOnlyByCallBack
<1> QED
  BY <1>4, <1>5, <1>6

-----------------------------------------------------------------------------
(* The theorems                                                            *)

LEMMA InvInit == Init => Inv
<1> USE BoundsAssumption
<1> SUFFICES ASSUME Init PROVE Inv
  OBVIOUS
<1>1. CloseOK /\ SendOK /\ ReadOK /\ UserOK
  <2>1. CloseOK
    <3>1. mask = {} /\ ~isConnected /\ listed = TRUE /\ closedIn = "none"
      BY DEF Init, isConnected
    <3> QED
      BY <3>1 DEF Init, CloseOK
  <2>2. <<>> \in Seq(Bytes) /\ <<>> \in Seq(1..MaxNet) /\ <<>> \in Seq(Functor)
    BY EmptySeq
  <2>3. SendOK
    <3>1. writeBuff_ \in Seq(Bytes) /\ wire \in Seq(Bytes)
      BY <2>2 DEF Init
    <3>2. writeEnabled_ = FALSE /\ given = 0 /\ shorts = 0
      BY DEF Init
    <3>3. 0 \in 0..MaxGiven /\ 0 \in 0..MaxShort
      OBVIOUS
    <3> QED
      BY <3>1, <3>2, <3>3 DEF SendOK
  <2>4. ReadOK
    BY <2>2 DEF Init, ReadOK
  <2>5. UserOK
    BY <2>2 DEF Init, UserOK
  <2> QED
    BY <2>1, <2>3, <2>4, <2>5
<1>2. StackOK /\ EndOK
  BY ShortStacks DEF Init, StackOK, EndOK, FreedOnlyByCallBack
<1> QED
  BY <1>1, <1>2 DEF Inv

LEMMA InvNext == Inv /\ [Next]_vars => Inv'
<1> SUFFICES ASSUME Inv, [Next]_vars PROVE Inv'
  OBVIOUS
<1>1. CASE UNCHANGED vars
  <2>1. CloseOK' /\ SendOK' /\ StackOK'
    BY <1>1 DEF Inv, vars, closeVars, sendVars, CloseOK, SendOK, StackOK, Stacked, isConnected
  <2>2. ReadOK' /\ UserOK' /\ EndOK'
    BY <1>1 DEF Inv, vars, closeVars, netVars, readVars, userVars, ReadOK, UserOK, EndOK,
                FreedOnlyByCallBack
  <2> QED
    BY <2>1, <2>2 DEF Inv
<1>2. CASE Next
  <2>1. ~undefined
    BY <1>2 DEF Next
  <2>2. CASE loopStep
    BY <2>1, <2>2, MakeConnectedStep, IdleCloseStep, HandleEventStep, SendingStep,
       ParsingStep, CallBackStep, FunctorStep DEF loopStep, methodStep
  <2>3. CASE userStep \/ schedule \/ letGo \/ peerStep
    BY <2>1, <2>3, OutsideStep, CallBackStep DEF userStep
  <2>4. CASE useAfterFree
    BY <2>1, <2>4, UseAfterFreeStep
  <2> QED
    BY <1>2, <2>2, <2>3, <2>4 DEF Next
<1> QED
  BY <1>1, <1>2

\* The variables keep their types, and a connection is registered with the loop exactly
\* while it is connected.
THEOREM TypeInvariant == Spec => []TypeOK
<1>1. Inv => TypeOK
  BY InvIs
<1> QED
  BY <1>1, InvInit, InvNext, PTL DEF Spec

\* A method is left in a destroyed connection only when user code closed it in one of
\* its callbacks.
THEOREM FreedByCallBack == Spec => []FreedOnlyByCallBack
<1>1. Inv => FreedOnlyByCallBack
  BY DEF Inv, EndOK
<1> QED
  BY <1>1, InvInit, InvNext, PTL DEF Spec

-----------------------------------------------------------------------------
(* What is on the wire                                                     *)

\* b contains the n bytes after the first base.
Following(b, base, n) ==
    b \in Seq(Nat) /\ Len(b) = n /\ \A i \in 1..n : b[i] = base + i

\* No byte comes before the one that precedes it, and the first base are there.
NoGap(w, base) ==
    /\ w \in Seq(Nat)
    /\ \A i \in DOMAIN w : w[i] = 1 \/ \E j \in 1..(i - 1) : w[j] = w[i] - 1
    /\ 1..base \subseteq Range(w)

LEMMA InSequenceIs ==
    ASSUME NEW b \in Seq(Bytes), NEW w \in Seq(Bytes), NEW g \in Nat
    PROVE  InSequence(b, w, g) <=>
              \E m \in Nat : m <= g /\ Following(b, g - m, m) /\ NoGap(w, g - m)
<1>1. b \in Seq(Nat) /\ w \in Seq(Nat) /\ Len(b) \in Nat
  <2>1. Bytes \subseteq Nat
    BY DEF Bytes
  <2>2. ASSUME NEW s \in Seq(Bytes)
        PROVE  s \in Seq(Nat) /\ Len(s) \in Nat
    <3>1. Len(s) \in Nat /\ DOMAIN s = 1..Len(s) /\ s \in [1..Len(s) -> Bytes]
      BY LenProperties
    <3>2. s \in [1..Len(s) -> Nat]
      BY <2>1, <3>1
    <3> QED
      BY <3>1, <3>2
  <2> QED
    BY <2>2
<1>2. ASSUME InSequence(b, w, g)
      PROVE  Len(b) <= g /\ Following(b, g - Len(b), Len(b)) /\ NoGap(w, g - Len(b))
  BY <1>1, <1>2 DEF InSequence, Following, NoGap
<1>3. ASSUME NEW m \in Nat, m <= g, Following(b, g - m, m), NoGap(w, g - m)
      PROVE  InSequence(b, w, g)
  <2>1. Len(b) = m
    BY <1>3 DEF Following
  <2> QED
    BY <1>3, <2>1 DEF InSequence, Following, NoGap
<1> QED
  BY <1>1, <1>2, <1>3

\* Writing bytes that follow keeps the wire free of gaps.
LEMMA WireGrows ==
    ASSUME NEW w, NEW base \in Nat, NoGap(w, base),
           NEW part, NEW n \in Nat, Following(part, base, n)
    PROVE  NoGap(w \o part, base + n)
<1> DEFINE u == w \o part
<1>1. Len(w) \in Nat /\ DOMAIN w = 1..Len(w) /\ \A i \in 1..Len(w) : w[i] \in Nat
  BY LenProperties, ElementOfSeq DEF NoGap
<1>2. /\ u \in Seq(Nat) /\ Len(u) = Len(w) + n
      /\ \A i \in 1..(Len(w) + n) : u[i] = IF i <= Len(w) THEN w[i] ELSE part[i - Len(w)]
  BY ConcatProperties DEF NoGap, Following
<1>3. DOMAIN u = 1..(Len(w) + n)
  BY <1>2, LenProperties
<1>4. \A i \in 1..Len(w) : u[i] = w[i]
  BY <1>1, <1>2
<1>5. \A q \in 1..n : Len(w) + q \in 1..(Len(w) + n) /\ u[Len(w) + q] = base + q
  <2>1. ASSUME NEW q \in 1..n
        PROVE  Len(w) + q \in 1..(Len(w) + n) /\ u[Len(w) + q] = base + q
    <3>1. Len(w) + q \in 1..(Len(w) + n) /\ ~(Len(w) + q <= Len(w)) /\ (Len(w) + q) - Len(w) = q
      BY <1>1
    <3>2. u[Len(w) + q] = part[q]
      BY <1>2, <3>1
    <3> QED
      BY <3>1, <3>2 DEF Following
  <2> QED
    BY <2>1
<1> HIDE DEF u
<1>6. ASSUME NEW b \in 1..base
      PROVE  b \in Range(u)
  <2>1. PICK i \in DOMAIN w : w[i] = b
    BY DEF NoGap, Range
  <2>2. i \in DOMAIN u /\ u[i] = b
    BY <1>1, <1>3, <1>4, <2>1
  <2> QED
    BY <2>2 DEF Range
<1>7. ASSUME NEW b \in 1..(base + n)
      PROVE  b \in Range(u)
  <2>1. CASE b <= base
    BY <1>6, <2>1
  <2>2. CASE ~(b <= base)
    <3>1. b - base \in 1..n /\ base + (b - base) = b
      BY <2>2
    <3> QED
      BY <1>3, <1>5, <3>1 DEF Range
  <2> QED
    BY <2>1, <2>2
<1>8. ASSUME NEW i \in 1..(Len(w) + n)
      PROVE  u[i] = 1 \/ \E j \in 1..(i - 1) : u[j] = u[i] - 1
  <2>1. CASE i <= Len(w)
    <3>1. i \in DOMAIN w /\ u[i] = w[i] /\ \A j \in 1..(i - 1) : u[j] = w[j]
      BY <1>1, <1>4, <2>1
    <3> QED
      BY <3>1 DEF NoGap
  <2>2. CASE i = Len(w) + 1
    <3>1. u[i] = base + 1
      BY <1>1, <1>5, <2>2
    <3>2. CASE base = 0
      BY <3>1, <3>2
    <3>3. CASE base # 0
      <4>1. PICK j \in 1..Len(w) : w[j] = base
        BY <1>1, <3>3 DEF NoGap, Range
      <4>2. j \in 1..(i - 1) /\ u[j] = base
        BY <1>1, <1>4, <2>2, <4>1
      <4> QED
        BY <3>1, <4>2
    <3> QED
      BY <3>2, <3>3
  <2>3. CASE i > Len(w) + 1
    <3>1. /\ i - Len(w) \in 1..n /\ i - Len(w) - 1 \in 1..n
          /\ Len(w) + (i - Len(w)) = i /\ Len(w) + (i - Len(w) - 1) = i - 1
      BY <1>1, <2>3
    <3>2. u[i] = base + (i - Len(w)) /\ u[i - 1] = base + (i - Len(w) - 1)
      BY <1>5, <3>1
    <3>3. i - 1 \in 1..(i - 1) /\ u[i - 1] = u[i] - 1
      BY <1>1, <2>3, <3>2
    <3> QED
      BY <3>3
  <2> QED
    BY <1>1, <2>1, <2>2, <2>3
<1>9. u \in Seq(Nat) /\ 1..(base + n) \subseteq Range(u)
  BY <1>2, <1>7
<1>10. NoGap(u, base + n)
  BY <1>3, <1>8, <1>9 DEF NoGap
<1> QED
  BY <1>10 DEF u

\* The first bytes of a buffer, and what a short write adds to it.
LEMMA FollowingPart ==
    ASSUME NEW b, NEW base \in Nat, NEW n \in Nat, Following(b, base, n), NEW k \in 0..n
    PROVE  Following(SubSeq(b, 1, k), base, k)
<1>1. \A i \in 1..k : b[i] \in Nat /\ b[i] = base + i
  BY DEF Following
<1>2. /\ SubSeq(b, 1, k) \in Seq(Nat) /\ Len(SubSeq(b, 1, k)) = k
      /\ \A i \in 1..k : SubSeq(b, 1, k)[i] = b[1 + i - 1]
  BY <1>1, SubSeqProperties DEF Following
<1>3. \A i \in 1..k : 1 + i - 1 = i
  OBVIOUS
<1> QED
  BY <1>1, <1>2, <1>3 DEF Following

\* A gap-free wire stays so when fewer bytes are asked for.
LEMMA NoGapLess ==
    ASSUME NEW w, NEW base \in Nat, NEW n \in Nat, NoGap(w, base + n)
    PROVE  NoGap(w, base)
<1>1. 1..base \subseteq 1..(base + n)
  OBVIOUS
<1> QED
  BY <1>1 DEF NoGap

\* Whatever part of the buffer the kernel takes, the invariant holds again.
LEMMA SendMsgKeeps ==
    ASSUME NEW buff, NEW base \in Nat, NEW n \in Nat, Following(buff, base, n),
           NoGap(wire, base), given' = base + n, SendOK',
           NEW below, NEW inEvent \in BOOLEAN, sendMsg(buff, below, inEvent)
    PROVE  SendingInv'
<1>1. \E m \in Nat : m <= given' /\ Following(writeBuff_', given' - m, m) /\ NoGap(wire', given' - m)
  <2>1. base + n \in Nat /\ n <= base + n /\ (base + n) - n = base /\ (base + n) - 0 = base + n
    OBVIOUS
  <2>2. CASE writeBuff_' = buff /\ wire' = wire
    BY <2>1, <2>2
  <2>3. CASE sentAll(buff, below)
    <3>1. NoGap(wire \o buff, base + n)
      BY WireGrows
    <3>2. Following(<<>>, base + n, 0)
      BY EmptySeq DEF Following
    <3> QED
      BY <2>1, <2>3, <3>1, <3>2 DEF sentAll
  <2>4. CASE \E k \in 0..(Len(buff) - 1) : wire' = wire \o SubSeq(buff, 1, k) /\ writeBuff_' = buff
    <3>1. PICK k \in 0..(n - 1) : wire' = wire \o SubSeq(buff, 1, k) /\ writeBuff_' = buff
      BY <2>4 DEF Following
    <3>2. k \in Nat /\ k \in 0..n
      BY <3>1
    <3>3. NoGap(wire', base + k)
      BY <3>1, <3>2, FollowingPart, WireGrows
    <3>4. NoGap(wire', base)
      BY <3>2, <3>3, NoGapLess
    <3> QED
      BY <2>1, <3>1, <3>4
  <2> QED
    BY <2>2, <2>3, <2>4 DEF sendMsg, sentPart, sendError
<1>2. given' \in Nat /\ writeBuff_' \in Seq(Bytes) /\ wire' \in Seq(Bytes)
  BY DEF SendOK
<1> QED
  BY <1>1, <1>2, InSequenceIs DEF SendingInv

\* The steps that send, and the others.
LEMMA SendingNext ==
    ASSUME Inv, Inv', SendingInv, Next
    PROVE  SendingInv'
<1>1. PICK m \in Nat : /\ m <= given
                       /\ Following(writeBuff_, given - m, m)
                       /\ NoGap(wire, given - m)
  BY InSequenceIs DEF Inv, SendOK, SendingInv
<1>2. given \in Nat /\ given - m \in Nat /\ (given - m) + m = given /\ SendOK /\ SendOK'
  BY <1>1 DEF Inv, SendOK
<1>3. CASE UNCHANGED <<writeBuff_, wire, given>>
  BY <1>3 DEF SendingInv
<1>4. CASE \E n \in Sizes, below \in {stack, <<"functor">>, <<>>} : sendMsgToBuffer(n, below)
  <2>1. PICK n \in Sizes, below \in {stack, <<"functor">>, <<>>} : sendMsgToBuffer(n, below)
    BY <1>4
  <2> DEFINE new == [i \in 1..n |-> given + i]
  <2>2. n \in Nat
    BY SizesAssumption
  <2>3. /\ new \in Seq(Nat) /\ Len(new) = n
        /\ \A i \in 1..n : new[i] = given + i
    <3>1. new \in [1..n -> Nat]
      BY <1>2
    <3> QED
      BY <2>2, <3>1
  <2>4. Following(writeBuff_ \o new, given - m, m + n)
    <3>1. /\ writeBuff_ \in Seq(Nat) /\ Len(writeBuff_) = m
          /\ \A i \in 1..m : writeBuff_[i] = given - m + i
      BY <1>1 DEF Following
    <3> HIDE DEF new
    <3>2. /\ writeBuff_ \o new \in Seq(Nat) /\ Len(writeBuff_ \o new) = m + n
          /\ \A i \in 1..(m + n) :
                (writeBuff_ \o new)[i] = IF i <= m THEN writeBuff_[i] ELSE new[i - m]
      BY <2>3, <3>1, ConcatProperties
    <3>3. ASSUME NEW i \in 1..(m + n)
          PROVE  (writeBuff_ \o new)[i] = given - m + i
      <4>1. CASE i <= m
        BY <2>2, <3>1, <3>2, <4>1
      <4>2. CASE ~(i <= m)
        <5>1. i - m \in 1..n /\ given + (i - m) = given - m + i
          BY <1>2, <2>2, <4>2
        <5> QED
          BY <2>3, <3>2, <4>2, <5>1
      <4> QED
        BY <4>1, <4>2
    <3> QED
      BY <3>2, <3>3 DEF Following
  <2>5. given' = (given - m) + (m + n) /\ sendMsg(writeBuff_ \o new, below, FALSE)
    <3>1. given' = given + n /\ sendMsg(writeBuff_ \o new, below, FALSE)
      BY <2>1 DEF sendMsgToBuffer
    <3>2. given + n = (given - m) + (m + n)
      BY <1>2, <2>2
    <3> QED
      BY <3>1, <3>2
  <2> HIDE DEF new
  <2>6. m + n \in Nat
    BY <2>2
  <2> QED
    BY <1>1, <1>2, <2>4, <2>5, <2>6, SendMsgKeeps
<1>5. CASE write /\ ~(isConnected /\ writeBuff_ = <<>>)
  <2>1. sendMsg(writeBuff_, Tail(stack), TRUE) /\ given' = (given - m) + m
    BY <1>2, <1>5 DEF write
  <2> QED
    BY <1>1, <1>2, <2>1, SendMsgKeeps
<1>6. CASE write /\ isConnected /\ writeBuff_ = <<>>
  BY <1>3, <1>6 DEF write
<1>7. CASE loopStep /\ ~write
  <2>1. CASE makeConnected \/ HandleError \/ \E events \in SUBSET AllEvents : HandleEvent(events)
    BY <1>3, <2>1 DEF makeConnected, HandleError, HandleEvent, sendVars
  <2>2. CASE tail \/ parseEnd \/ parseError \/ parseCommit \/ catch
    BY <1>3, <2>2 DEF tail, parseEnd, parseError, parseCommit, catch, sendVars
  <2>3. CASE callBackReturns \/ callBackThrows \/ runClose \/ timerCloses \/ functorEnd
    BY <1>3, <2>3 DEF callBackReturns, callBackThrows, runClose, timerCloses, functorEnd, sendVars
  <2>4. CASE runSend \/ runResponse
    <3>1. CASE UNCHANGED sendVars
      BY <1>3, <3>1 DEF sendVars
    <3>2. CASE ~UNCHANGED sendVars
      <4>1. functors \in Seq(Functor) /\ functors # <<>>
        BY <2>4 DEF runSend, runResponse, Inv, UserOK
      <4>2. PICK f \in Functor : f = Head(functors)
        BY <4>1
      <4>3. f.op \in {"send", "response"}
        BY <2>4, <4>2 DEF runSend, runResponse
      <4>4. f.size \in Sizes
        BY <4>3 DEF Functor
      <4>5. \/ sendMsgToBuffer(f.size, <<"functor">>)
            \/ sendMsgToBuffer(f.size, <<>>)
        BY <2>4, <3>2, <4>2 DEF runSend, runResponse
      <4> QED
        BY <1>4, <4>4, <4>5
    <3> QED
      BY <3>1, <3>2
  <2> QED
    BY <1>7, <2>1, <2>2, <2>3, <2>4 DEF loopStep, methodStep
<1>8. CASE userStep \/ schedule \/ letGo \/ peerStep \/ useAfterFree
  BY <1>3, <1>4, <1>8
  DEF userStep, callBackSends, callBackCloses, keepPointer, closeConnectionAfter, schedule, letGo,
      peerStep, peerSends, peerEnds, useAfterFree, sendVars
<1> QED
  BY <1>5, <1>6, <1>7, <1>8 DEF Next

LEMMA SendingImplies == Inv /\ SendingInv => NothingSkipped
<1> SUFFICES ASSUME Inv, SendingInv PROVE NothingSkipped
  OBVIOUS
<1>1. writeBuff_ \in Seq(Bytes) /\ given \in Nat
  BY DEF Inv, SendOK
<1>2. Len(writeBuff_) \in Nat /\ DOMAIN writeBuff_ = 1..Len(writeBuff_)
  BY <1>1, LenProperties
<1>3. ASSUME NEW b \in 1..given, b \notin Range(wire)
      PROVE  b \in Range(writeBuff_)
  <2> DEFINE m == Len(writeBuff_)
  <2>1. ~(b <= given - m) /\ m <= given
    BY <1>1, <1>2, <1>3 DEF SendingInv, InSequence
  <2>2. b - (given - m) \in 1..m /\ given - m + (b - (given - m)) = b
    BY <1>1, <1>2, <2>1
  <2>3. writeBuff_[b - (given - m)] = b
    BY <2>2 DEF SendingInv, InSequence
  <2> QED
    BY <1>2, <2>2, <2>3 DEF Range
<1> QED
  BY <1>3 DEF NothingSkipped, SendingInv, InSequence

\* Every byte handed over is on the wire or in the buffer, and on the wire none comes
\* before the one that precedes it, whatever the writes take.
THEOREM NothingIsSkipped == Spec => []NothingSkipped
<1>1. Init => SendingInv
  <2> SUFFICES ASSUME Init PROVE SendingInv
    OBVIOUS
  <2>1. writeBuff_ = <<>> /\ wire = <<>> /\ given = 0
    BY DEF Init
  <2>2. Len(<<>>) = 0 /\ DOMAIN <<>> = {} /\ 1..(0 - 0) = {}
    BY EmptySeq
  <2> QED
    BY <2>1, <2>2 DEF SendingInv, InSequence
<1>2. Inv /\ Inv' /\ SendingInv /\ [Next]_vars => SendingInv'
  <2>1. ASSUME UNCHANGED vars, SendingInv
        PROVE  SendingInv'
    BY <2>1 DEF vars, sendVars, SendingInv
  <2> QED
    BY <2>1, SendingNext
<1> QED
  BY <1>1, <1>2, InvInit, InvNext, SendingImplies, PTL DEF Spec

-----------------------------------------------------------------------------
(* What is read                                                            *)

\* The bytes of s come in the order of the peer, and none is above last.
Ordered(s, last) ==
    /\ s \in Seq(Nat)
    /\ \A i, j \in DOMAIN s : i < j => s[i] < s[j]
    /\ \A i \in DOMAIN s : s[i] <= last

\* The next byte of the peer goes to the end.
LEMMA OrderedAppend ==
    ASSUME NEW s, NEW last \in Nat, Ordered(s, last)
    PROVE  Ordered(Append(s, last + 1), last + 1)
<1> DEFINE t == Append(s, last + 1)
<1>1. Len(s) \in Nat /\ DOMAIN s = 1..Len(s) /\ \A i \in 1..Len(s) : s[i] \in Nat
  BY LenProperties, ElementOfSeq DEF Ordered
<1>2. /\ t \in Seq(Nat) /\ Len(t) = Len(s) + 1
      /\ \A i \in 1..Len(s) : t[i] = s[i]
      /\ t[Len(s) + 1] = last + 1
  BY AppendProperties DEF Ordered
<1>3. DOMAIN t = 1..(Len(s) + 1)
  BY <1>2, LenProperties
<1> HIDE DEF t
<1>4. ASSUME NEW i \in DOMAIN t, NEW j \in DOMAIN t, i < j
      PROVE  t[i] < t[j]
  <2>1. i \in DOMAIN s /\ t[i] = s[i] /\ s[i] <= last /\ s[i] \in Nat
    BY <1>1, <1>2, <1>3, <1>4 DEF Ordered
  <2>2. CASE j = Len(s) + 1
    BY <1>2, <2>1, <2>2
  <2>3. CASE j # Len(s) + 1
    <3>1. j \in DOMAIN s /\ t[j] = s[j]
      BY <1>1, <1>2, <1>3, <2>3
    <3> QED
      BY <1>4, <2>1, <3>1 DEF Ordered
  <2> QED
    BY <2>2, <2>3
<1>5. ASSUME NEW i \in DOMAIN t
      PROVE  t[i] <= last + 1
  <2>1. CASE i = Len(s) + 1
    BY <1>2, <2>1
  <2>2. CASE i # Len(s) + 1
    <3>1. i \in DOMAIN s /\ t[i] = s[i] /\ s[i] \in Nat /\ s[i] <= last
      BY <1>1, <1>2, <1>3, <2>2 DEF Ordered
    <3> QED
      BY <3>1
  <2> QED
    BY <2>1, <2>2
<1>6. Ordered(t, last + 1)
  BY <1>2, <1>4, <1>5 DEF Ordered
<1> QED
  BY <1>6 DEF t

\* A discarded buffer is taken out of the middle.
LEMMA OrderedWithout ==
    ASSUME NEW a \in Seq(Nat), NEW b \in Seq(Nat), NEW c \in Seq(Nat), NEW last \in Nat,
           Ordered(a \o (b \o c), last)
    PROVE  Ordered(a \o c, last)
<1> DEFINE s == a \o (b \o c)
           t == a \o c
           place(i) == IF i <= Len(a) THEN i ELSE i + Len(b)
<1>1. Len(a) \in Nat /\ Len(b) \in Nat /\ Len(c) \in Nat
  BY LenProperties
<1>2. /\ t \in Seq(Nat) /\ Len(t) = Len(a) + Len(c)
      /\ \A i \in 1..(Len(a) + Len(c)) : t[i] = IF i <= Len(a) THEN a[i] ELSE c[i - Len(a)]
  BY ConcatProperties
<1>3. /\ b \o c \in Seq(Nat) /\ Len(b \o c) = Len(b) + Len(c)
      /\ \A i \in 1..(Len(b) + Len(c)) :
            (b \o c)[i] = IF i <= Len(b) THEN b[i] ELSE c[i - Len(b)]
  BY ConcatProperties
<1>4. /\ s \in Seq(Nat) /\ Len(s) = Len(a) + Len(b \o c)
      /\ \A i \in 1..(Len(a) + Len(b \o c)) :
            s[i] = IF i <= Len(a) THEN a[i] ELSE (b \o c)[i - Len(a)]
  BY <1>3, ConcatProperties
<1>5. DOMAIN s = 1..(Len(a) + (Len(b) + Len(c))) /\ DOMAIN t = 1..(Len(a) + Len(c))
  BY <1>2, <1>3, <1>4, LenProperties
<1> HIDE DEF s, t
<1>6. ASSUME NEW i \in DOMAIN t
      PROVE  place(i) \in DOMAIN s /\ t[i] = s[place(i)]
  <2>1. i \in 1..(Len(a) + Len(c)) /\ i \in Nat
    BY <1>1, <1>5
  <2>2. CASE i <= Len(a)
    <3>1. i \in 1..(Len(a) + Len(b \o c))
      BY <1>1, <1>3, <2>1, <2>2
    <3> QED
      BY <1>2, <1>3, <1>4, <1>5, <2>1, <2>2, <3>1
  <2>3. CASE ~(i <= Len(a))
    <3> DEFINE m == i + Len(b)
    <3>1. /\ m \in 1..(Len(a) + (Len(b) + Len(c))) /\ ~(m <= Len(a))
          /\ m - Len(a) \in 1..(Len(b) + Len(c)) /\ ~(m - Len(a) <= Len(b))
          /\ m - Len(a) - Len(b) = i - Len(a)
      BY <1>1, <2>1, <2>3
    <3>2. place(i) = m
      BY <2>3
    <3> HIDE DEF m, place
    <3>3. s[m] = (b \o c)[m - Len(a)]
      BY <1>3, <1>4, <3>1
    <3>4. (b \o c)[m - Len(a)] = c[i - Len(a)]
      BY <1>3, <3>1
    <3>5. t[i] = c[i - Len(a)]
      BY <1>2, <2>1, <2>3
    <3> QED
      BY <1>5, <3>1, <3>2, <3>3, <3>4, <3>5
  <2> QED
    BY <2>2, <2>3
<1>7. \A i, j \in DOMAIN t : i < j => place(i) < place(j)
  BY <1>1, <1>5
<1> HIDE DEF place
<1>8. Ordered(t, last)
  BY <1>2, <1>6, <1>7 DEF Ordered, s
<1> QED
  BY <1>8 DEF t

LEMMA WiderSeq ==
    ASSUME NEW S, S \subseteq Nat, NEW s \in Seq(S)
    PROVE  s \in Seq(Nat)
<1>1. Len(s) \in Nat /\ DOMAIN s = 1..Len(s) /\ s \in [1..Len(s) -> S]
  BY LenProperties
<1>2. s \in [1..Len(s) -> Nat]
  BY <1>1
<1> QED
  BY <1>1, <1>2

\* Sequences of bytes are joined in any grouping.
LEMMA Regroup == \A a, b, c \in Seq(Nat) : (a \o b) \o c = a \o (b \o c)
<1> SUFFICES ASSUME NEW a \in Seq(Nat), NEW b \in Seq(Nat), NEW c \in Seq(Nat)
             PROVE  (a \o b) \o c = a \o (b \o c)
  OBVIOUS
<1> QED
  BY ConcatAssociative

LEMMA Joined == \A a, b \in Seq(Nat) : a \o b \in Seq(Nat)
BY ConcatProperties

\* A message is cut off the front of b and added to a.
LEMMA Cut ==
    ASSUME NEW a \in Seq(Nat), NEW b \in Seq(Nat), NEW c \in Seq(Nat), NEW n \in 0..Len(b)
    PROVE  (a \o SubSeq(b, 1, n)) \o (SubSeq(b, n + 1, Len(b)) \o c) = a \o (b \o c)
<1>1. Len(b) \in Nat /\ \A i \in 1..Len(b) : b[i] \in Nat
  BY LenProperties, ElementOfSeq
<1>2. SubSeq(b, 1, n) \in Seq(Nat)
  BY <1>1, SubSeqProperties
<1>3. SubSeq(b, n + 1, Len(b)) \in Seq(Nat)
  BY <1>1, SubSeqProperties
<1>4. SubSeq(b, 1, n) \o SubSeq(b, n + 1, Len(b)) = b
  <2>1. 1 \in 1..(Len(b) + 1) /\ n \in (1 - 1)..Len(b) /\ Len(b) \in n..Len(b)
    BY <1>1
  <2>2. SubSeq(b, 1, n) \o SubSeq(b, n + 1, Len(b)) = SubSeq(b, 1, Len(b))
    BY <2>1, ConcatAdjacentSubSeq
  <2> QED
    BY <2>2, SubSeqFull
<1>5. ASSUME NEW f \in Seq(Nat), NEW r \in Seq(Nat)
      PROVE  (a \o f) \o (r \o c) = a \o ((f \o r) \o c)
  <2>1. PICK rest \in Seq(Nat) : rest = r \o c
    BY Joined
  <2>2. (a \o f) \o rest = a \o (f \o rest)
    BY Regroup
  <2>3. (f \o r) \o c = f \o (r \o c)
    BY Regroup
  <2> QED
    BY <2>1, <2>2, <2>3
<1> QED
  BY <1>2, <1>3, <1>4, <1>5

\* The bytes that came, with the types of the buffers; constant, to be used before and
\* after a step.
LEMMA ReadingIs ==
    ASSUME NEW a \in Seq(1..MaxNet), NEW b \in Seq(1..MaxNet), NEW c \in Seq(1..MaxNet),
           NEW last \in 0..MaxNet
    PROVE  /\ a \in Seq(Nat) /\ b \in Seq(Nat) /\ c \in Seq(Nat) /\ last \in Nat
           /\ Ordered(a \o (b \o c), last) <=>
                 /\ \A i, j \in DOMAIN (a \o b \o c) :
                       i < j => (a \o b \o c)[i] < (a \o b \o c)[j]
                 /\ \A i \in DOMAIN (a \o b \o c) : (a \o b \o c)[i] <= last
<1>1. 1..MaxNet \subseteq Nat
  OBVIOUS
<1>2. a \in Seq(Nat) /\ b \in Seq(Nat) /\ c \in Seq(Nat)
  BY <1>1, WiderSeq
<1>3. (a \o b) \o c = a \o (b \o c)
  BY <1>2, Regroup
<1>4. a \o (b \o c) \in Seq(Nat)
  BY <1>2, Joined
<1>5. last \in Nat
  BY BoundsAssumption
<1> QED
  BY <1>2, <1>3, <1>4, <1>5 DEF Ordered

\* Only reading, parsing and the peer move these bytes.
LEMMA ReadingNext ==
    ASSUME Inv, Inv', ReadingInv, Next
    PROVE  ReadingInv'
<1>1. /\ committed \in Seq(1..MaxNet) /\ readBuff_ \in Seq(1..MaxNet)
      /\ net \in Seq(1..MaxNet) /\ came \in 0..MaxNet
      /\ committed' \in Seq(1..MaxNet) /\ readBuff_' \in Seq(1..MaxNet)
      /\ net' \in Seq(1..MaxNet) /\ came' \in 0..MaxNet
  BY DEF Inv, ReadOK
<1>2. /\ committed \in Seq(Nat) /\ readBuff_ \in Seq(Nat) /\ net \in Seq(Nat) /\ came \in Nat
      /\ Ordered(committed \o (readBuff_ \o net), came)
  BY <1>1, ReadingIs DEF ReadingInv, CommittedInOrder, incoming
<1>3. Ordered(committed' \o (readBuff_' \o net'), came') => ReadingInv'
  BY <1>1, ReadingIs DEF ReadingInv, CommittedInOrder, incoming
<1>4. CASE UNCHANGED <<committed, readBuff_, net, came>>
  BY <1>4 DEF ReadingInv, CommittedInOrder, incoming
<1>5. ASSUME UNCHANGED committed, readBuff_' = <<>>, UNCHANGED <<net, came>>
      PROVE  ReadingInv'
  <2>1. Ordered(committed \o net, came)
    BY <1>2, OrderedWithout
  <2>2. readBuff_' \o net' = net
    BY <1>2, <1>5, ConcatEmptySeq
  <2> QED
    BY <1>3, <1>5, <2>1, <2>2
<1>6. ASSUME NEW events, HandleEvent(events)
      PROVE  ReadingInv'
  <2>1. CASE readMsg(events)
    <3>1. readBuff_' = readBuff_ \o net /\ net' = <<>> /\ UNCHANGED <<came, committed>>
      BY <1>6, <2>1 DEF HandleEvent, readMsg
    <3>2. readBuff_ \o net \in Seq(Nat)
      BY <1>2, Joined
    <3>3. readBuff_' \o net' = readBuff_ \o net
      BY <3>1, <3>2, ConcatEmptySeq
    <3> QED
      BY <1>2, <1>3, <3>1, <3>3
  <2>2. CASE ~readMsg(events)
    BY <1>4, <1>6, <2>2 DEF HandleEvent
  <2> QED
    BY <2>1, <2>2
<1>7. CASE parseCommit
  <2>1. PICK n \in 0..Len(readBuff_) : commit(n)
    BY <1>7 DEF parseCommit
  <2>2. UNCHANGED <<net, came>>
    BY <1>7 DEF parseCommit, netVars
  <2>3. /\ committed' = committed \o SubSeq(readBuff_, 1, n)
        /\ readBuff_' = SubSeq(readBuff_, n + 1, Len(readBuff_))
    BY <2>1 DEF commit
  <2>4. committed' \o (readBuff_' \o net) = committed \o (readBuff_ \o net)
    BY <1>2, <2>3, Cut
  <2> QED
    BY <1>2, <1>3, <2>2, <2>4
<1>8. CASE peerSends
  <2>1. PICK last \in Nat : last = came
    BY <1>2
  <2>2. came' = last + 1 /\ net' = Append(net, last + 1) /\ UNCHANGED <<committed, readBuff_>>
    BY <1>8, <2>1 DEF peerSends, readVars
  <2> DEFINE s == committed \o (readBuff_ \o net)
  <2>3. readBuff_ \o net \in Seq(Nat) /\ <<last + 1>> \in Seq(Nat) /\ last + 1 \in Nat
    BY <1>2, <2>1, Joined
  <2>4. s \in Seq(Nat)
    BY <1>2, <2>3, Joined
  <2>5. Append(s, last + 1) = committed \o (readBuff_ \o Append(net, last + 1))
    <3>1. Append(s, last + 1) = s \o <<last + 1>>
      BY <2>3, <2>4, AppendIsConcat
    <3>2. s \o <<last + 1>> = committed \o ((readBuff_ \o net) \o <<last + 1>>)
      BY <1>2, <2>3, Regroup
    <3>3. (readBuff_ \o net) \o <<last + 1>> = readBuff_ \o (net \o <<last + 1>>)
      BY <1>2, <2>3, Regroup
    <3>4. net \o <<last + 1>> = Append(net, last + 1)
      BY <1>2, <2>3, AppendIsConcat
    <3> QED
      BY <3>1, <3>2, <3>3, <3>4
  <2>6. Ordered(s, last)
    BY <1>2, <2>1
  <2> HIDE DEF s
  <2>7. Ordered(Append(s, last + 1), last + 1)
    BY <2>6, OrderedAppend
  <2> QED
    BY <1>3, <2>2, <2>5, <2>7
<1>9. CASE parseError \/ catch
  BY <1>5, <1>9 DEF parseError, catch, netVars
<1>10. CASE loopStep /\ ~(parseCommit \/ parseError \/ catch)
  <2>1. CASE \E events \in SUBSET AllEvents : HandleEvent(events)
    BY <1>6, <2>1
  <2>2. CASE makeConnected \/ HandleError \/ tail \/ write \/ parseEnd
    BY <1>4, <2>2 DEF makeConnected, HandleError, tail, write, parseEnd, readVars, netVars
  <2>3. CASE callBackReturns \/ callBackThrows \/ runClose \/ timerCloses \/ functorEnd
             \/ runSend \/ runResponse
    BY <1>4, <2>3 DEF callBackReturns, callBackThrows, runClose, timerCloses, functorEnd,
                      runSend, runResponse, readVars, netVars
  <2> QED
    BY <1>10, <2>1, <2>2, <2>3 DEF loopStep, methodStep
<1>11. CASE userStep \/ schedule \/ letGo \/ peerEnds \/ useAfterFree
  BY <1>4, <1>11
  DEF userStep, callBackSends, callBackCloses, keepPointer, closeConnectionAfter, schedule, letGo,
      peerEnds, useAfterFree, readVars, netVars
<1> QED
  BY <1>7, <1>8, <1>9, <1>10, <1>11 DEF Next, peerStep

\* However decodeCb_ cuts the bytes into messages, and whichever buffers an error throws
\* away, msgCommitCb_ gets the bytes of the peer in order, and none twice.
THEOREM CommitsInOrder == Spec => []CommittedInOrder
<1>1. Init => ReadingInv
  <2> SUFFICES ASSUME Init PROVE ReadingInv
    OBVIOUS
  <2>1. incoming = <<>>
    BY DEF Init, incoming
  <2>2. DOMAIN incoming = {}
    BY <2>1, EmptySeq
  <2> QED
    BY <2>2 DEF ReadingInv, CommittedInOrder
<1>2. Inv /\ Inv' /\ ReadingInv /\ [Next]_vars => ReadingInv'
  <2>1. ASSUME UNCHANGED vars, ReadingInv
        PROVE  ReadingInv'
    BY <2>1 DEF vars, readVars, netVars, ReadingInv, CommittedInOrder, incoming
  <2> QED
    BY <2>1, ReadingNext
<1>3. ReadingInv => CommittedInOrder
  BY DEF ReadingInv
<1> QED
  BY <1>1, <1>2, <1>3, InvInit, InvNext, PTL DEF Spec
=============================================================================
