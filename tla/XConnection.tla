---------------------------- MODULE XConnection -----------------------------
(***************************************************************************)
(* xConnection (net/connection.cpp, net/include/connection.h): one         *)
(* connection, the loop thread that reads, parses, sends and closes, the   *)
(* user code it calls on the way, and other threads that send and close    *)
(* through functors.                                                       *)
(*                                                                         *)
(* The loop thread is its call stack.  "parse", "catch", "write" and       *)
(* "tail" are places inside the methods of the connection, "finish",       *)
(* "commit" and "sent" are callbacks, in which user code may call the      *)
(* connection again, and "functor" is a functor that holds a shared        *)
(* pointer.  A callback gets shared_from_this(), so it holds one as well.  *)
(*                                                                         *)
(* Bytes are numbered in the order they are appended (out) or sent by the  *)
(* peer (in).  Any step may be the last one of a connection whose last     *)
(* shared pointer goes: what uses it afterwards is undefined.              *)
(***************************************************************************)
EXTENDS Integers, Sequences, FiniteSets, SequencesExt

CONSTANTS Sizes,        \* bytes in a message
          MaxGiven,     \* bound: bytes handed over to be sent
          MaxNet,       \* bound: bytes the peer sends
          MaxShort,     \* bound: writes the kernel does not take in full
          MaxEmpty,     \* bound: messages of length zero (XF_MSG_DECODE_OK)
          MaxFunctors   \* bound: functors that wait

ASSUME SizesAssumption == Sizes \subseteq Nat \ {0}
ASSUME BoundsAssumption ==
    {MaxGiven, MaxNet, MaxShort, MaxEmpty, MaxFunctors} \subseteq Nat

XE_READABLE == "readable"
XE_WRITABLE == "writable"
XE_ERROR == "error"
XE_HUP == "hup"
AllEvents == {XE_READABLE, XE_WRITABLE}     \* what can be asked of epoll

CallBacks == {"finish", "commit", "sent"}
Methods == {"parse", "catch", "write", "tail"}
Frames == CallBacks \cup Methods \cup {"functor"}

VARIABLES connStatus_,      \* DISCONNECTED does what DISCONNECTING does
          mask,             \* registered events, {} when not in register_
          listed,           \* the server's or client's shared pointer
          closedIn,         \* history: what closed the connection
          writeEnabled_, writeBuff_,
          given,            \* bytes appended to writeBuff_ so far
          wire,             \* bytes the kernel took
          shorts,           \* writes it did not take in full
          came,             \* bytes the peer sent
          net, fin,         \* those on the way in, and what follows them
          readBuff_, committed, empties,
          functors, closeTimer, held,   \* of user code, also in other threads
          stack, undefined

closeVars == <<connStatus_, mask, listed, closedIn>>
sendVars == <<writeEnabled_, writeBuff_, given, wire, shorts>>
netVars == <<came, net, fin>>
readVars == <<readBuff_, committed, empties>>
userVars == <<functors, closeTimer, held>>
vars == <<closeVars, sendVars, netVars, readVars, userVars, stack, undefined>>

\* Functors that were bound with shared_from_this(), and the answer of a handler.
Functor == [op : {"send", "response"}, size : Sizes] \cup [op : {"close"}]

Init ==
    /\ connStatus_ = "CONNECTING" /\ mask = {} /\ listed = TRUE /\ closedIn = "none"
    /\ writeEnabled_ = FALSE /\ writeBuff_ = <<>> /\ given = 0 /\ wire = <<>> /\ shorts = 0
    /\ came = 0 /\ net = <<>> /\ fin = "open"
    /\ readBuff_ = <<>> /\ committed = <<>> /\ empties = 0
    /\ functors = <<>> /\ closeTimer = FALSE /\ held = FALSE
    /\ stack = <<>> /\ undefined = FALSE

isConnected == connStatus_ = "CONNECTED"
idle == stack = <<>>
top(frames) == ~idle /\ Head(stack) \in frames

\* There is a shared pointer to the connection.
alive ==
    \/ listed \/ held \/ closeTimer \/ mask # {}
    \/ \E i \in DOMAIN stack : stack[i] \in CallBacks \cup {"functor"}
    \/ \E i \in DOMAIN functors : functors[i].op # "response"

-----------------------------------------------------------------------------
(* Closing                                                                 *)

\* closeConn: on the loop thread the owner drops its pointer at once, since
\* scheduleToLoopThread runs doCloseConnection before it returns.
closeConn(where) ==
    IF connStatus_ = "DISCONNECTING" THEN UNCHANGED closeVars
    ELSE /\ connStatus_' = "DISCONNECTING"
         /\ mask' = {}
         /\ listed' = FALSE
         /\ closedIn' = where

makeConnected ==
    /\ idle
    /\ connStatus_ = "CONNECTING"
    /\ connStatus_' = "CONNECTED"
    /\ mask' = {XE_READABLE}
    /\ stack' = <<"finish">>
    /\ UNCHANGED <<listed, closedIn, sendVars, netVars, readVars, userVars, undefined>>

-----------------------------------------------------------------------------
(* Sending                                                                 *)

\* Mutant: the mask is changed, epoll is not told.
addEventUntold(m) == m

\* Mutant: whether the descriptor is registered is not asked.
addEventAnyway(m) == m \cup {XE_WRITABLE}

\* epoll is told the two bits that can be asked of it.
Modify(m) == m \cap AllEvents

\* xLoop::addEvent for XE_WRITABLE, without effect on what is not registered
addEvent(m) == IF m = {} THEN m ELSE Modify(m \cup {XE_WRITABLE})

\* xLoop::removeEvent: mask |= ~mask sets all the other bits.
removeEvent(m) ==
    IF XE_WRITABLE \in m THEN Modify(m \cup {XE_READABLE, XE_ERROR, XE_HUP}) ELSE m

\* The end of sendMsg: is the writable event wanted?
sendTail(below) ==
    /\ stack' = below
    /\ CASE writeBuff_ # <<>> /\ ~writeEnabled_ ->
              mask' = addEvent(mask) /\ writeEnabled_' = TRUE
         [] writeBuff_ = <<>> /\ writeEnabled_ ->
              mask' = removeEvent(mask) /\ writeEnabled_' = FALSE
         [] OTHER -> UNCHANGED <<mask, writeEnabled_>>

\* writeFd wrote everything; the callback is next.
sentAll(buff, below) ==
    /\ buff # <<>>
    /\ wire' = wire \o buff
    /\ writeBuff_' = <<>>
    /\ stack' = <<"sent">> \o below
    /\ UNCHANGED <<closeVars, writeEnabled_, shorts>>

\* Mutant: what was written is passed over, and as much again.
sentPartTwice(buff, below) ==
    /\ shorts < MaxShort
    /\ \E k \in 0..(Len(buff) - 1) :
          /\ wire' = wire \o SubSeq(buff, 1, k)
          /\ writeBuff_' = SubSeq(buff, 2 * k + 1, Len(buff))
    /\ shorts' = shorts + 1
    /\ stack' = below
    /\ UNCHANGED <<closeVars, writeEnabled_>>

\* EAGAIN, after a part or at once: writeFd returns -1, sendMsg 0, and the buffer
\* keeps what was written.
sentPart(buff, below) ==
    /\ shorts < MaxShort
    /\ \E k \in 0..(Len(buff) - 1) : wire' = wire \o SubSeq(buff, 1, k)
    /\ writeBuff_' = buff
    /\ shorts' = shorts + 1
    /\ stack' = below
    /\ UNCHANGED <<closeVars, writeEnabled_>>

\* Another error: sendMsg returns -1, which only HandleEvent heeds.
sendError(buff, below, inEvent) ==
    /\ buff # <<>> /\ fin = "reset"
    /\ writeBuff_' = buff
    /\ stack' = below
    /\ IF inEvent THEN closeConn("event") ELSE UNCHANGED closeVars
    /\ UNCHANGED <<wire, shorts, writeEnabled_>>

\* sendMsg() once buff is in writeBuff_
sendMsg(buff, below, inEvent) ==
    IF isConnected
    THEN sentAll(buff, below) \/ sentPart(buff, below) \/ sendError(buff, below, inEvent)
    ELSE writeBuff_' = buff /\ stack' = below
         /\ UNCHANGED <<closeVars, wire, shorts, writeEnabled_>>

sendMsgToBuffer(n, below) ==
    /\ given + n <= MaxGiven
    /\ given' = given + n
    /\ sendMsg(writeBuff_ \o [i \in 1..n |-> given + i], below, FALSE)

\* sentBytesCb_ has returned
tail ==
    /\ top({"tail"}) /\ alive
    /\ sendTail(Tail(stack))
    /\ UNCHANGED <<connStatus_, listed, closedIn, writeBuff_, given, wire, shorts,
                   netVars, readVars, userVars, undefined>>

\* HandleEvent, the writable part
write ==
    /\ top({"write"}) /\ alive
    /\ IF isConnected /\ writeBuff_ = <<>>
       THEN sendTail(Tail(stack))
            /\ UNCHANGED <<connStatus_, listed, closedIn, writeBuff_, wire, shorts>>
       ELSE sendMsg(writeBuff_, Tail(stack), TRUE)
    /\ UNCHANGED <<given, netVars, readVars, userVars, undefined>>

-----------------------------------------------------------------------------
(* Receiving                                                               *)

readable == net # <<>> \/ fin # "open"

\* Mutant: no return after closeConn, a writable event is handled all the same.
readThenWrite(events) ==
    LET rest == IF XE_WRITABLE \in events THEN <<"write">> ELSE <<>>
    IN  /\ readBuff_' = readBuff_ \o net
        /\ net' = <<>>
        /\ IF fin = "open"
           THEN stack' = (IF net # <<>> THEN <<"parse">> ELSE <<>>) \o rest
                /\ UNCHANGED closeVars
           ELSE stack' = rest /\ closeConn("event")

\* readMsg reads what there is.  An end of file or an error after it makes it
\* return -1 without parsing.
readMsg(events) ==
    LET rest == IF XE_WRITABLE \in events THEN <<"write">> ELSE <<>>
    IN  /\ readBuff_' = readBuff_ \o net
        /\ net' = <<>>
        /\ IF fin = "open"
           THEN stack' = (IF net # <<>> THEN <<"parse">> ELSE <<>>) \o rest
                /\ UNCHANGED closeVars
           ELSE stack' = <<>> /\ closeConn("event")

\* epoll is level-triggered; it reports what is registered, errors always.
HandleEvent(events) ==
    /\ idle /\ mask # {}
    /\ events # {} /\ events \subseteq mask
    /\ XE_READABLE \in events <=> readable
    /\ IF XE_READABLE \in events
       THEN readMsg(events)
       ELSE stack' = <<"write">> /\ UNCHANGED <<closeVars, readBuff_, net>>
    /\ UNCHANGED <<sendVars, came, fin, committed, empties, userVars, undefined>>

\* XE_ERROR, XE_HUP
HandleError ==
    /\ idle /\ mask # {} /\ fin = "reset"
    /\ closeConn("event")
    /\ UNCHANGED <<sendVars, netVars, readVars, userVars, stack, undefined>>

\* The loop of parseProtocol ends: nothing left, or not enough.
parseEnd ==
    /\ top({"parse"}) /\ alive
    /\ stack' = Tail(stack)
    /\ UNCHANGED <<closeVars, sendVars, netVars, readVars, userVars, undefined>>

\* XF_MSG_DECODE_ERR, an exception from decodeCb_, or a length below -2, of which
\* no buffer can be made
parseError ==
    /\ top({"parse"}) /\ alive /\ readBuff_ # <<>>
    /\ readBuff_' = <<>>
    /\ stack' = Tail(stack)
    /\ UNCHANGED <<closeVars, sendVars, netVars, committed, empties, userVars, undefined>>

\* Mutant: the length passed over is the one decodeCb_ returned, less one.
commitShortOfOne(n) ==
    /\ committed' = committed \o SubSeq(readBuff_, 1, n)
    /\ readBuff_' = SubSeq(readBuff_, IF n = 0 THEN 1 ELSE n, Len(readBuff_))

\* commitBuffer.append, moveOver
commit(n) ==
    /\ committed' = committed \o SubSeq(readBuff_, 1, n)
    /\ readBuff_' = SubSeq(readBuff_, n + 1, Len(readBuff_))

\* decodeCb_ returned n, or more than there is.
parseCommit ==
    /\ top({"parse"}) /\ alive /\ readBuff_ # <<>>
    /\ \E n \in 0..Len(readBuff_) :
          /\ n = 0 => empties < MaxEmpty
          /\ empties' = IF n = 0 THEN empties + 1 ELSE empties
          /\ commit(n)
    /\ stack' = <<"commit">> \o stack
    /\ UNCHANGED <<closeVars, sendVars, netVars, userVars, undefined>>

-----------------------------------------------------------------------------
(* User code on the loop thread, in a callback                             *)

callBackSends ==
    /\ top(CallBacks) /\ isConnected
    /\ \E n \in Sizes : sendMsgToBuffer(n, stack)
    /\ UNCHANGED <<netVars, readVars, userVars, undefined>>

callBackCloses ==
    /\ top(CallBacks) /\ isConnected
    /\ closeConn("callback")
    /\ UNCHANGED <<sendVars, netVars, readVars, userVars, stack, undefined>>

keepPointer ==
    /\ top(CallBacks)
    /\ held' = TRUE
    /\ UNCHANGED <<closeVars, sendVars, netVars, readVars, functors, closeTimer, stack, undefined>>

callBackReturns ==
    /\ top(CallBacks)
    /\ stack' = (IF Head(stack) = "sent" THEN <<"tail">> ELSE <<>>) \o Tail(stack)
    /\ UNCHANGED <<closeVars, sendVars, netVars, readVars, userVars, undefined>>

\* An exception from msgCommitCb_ ends parseProtocol; one from sentBytesCb_ is
\* caught like a return.
callBackThrows ==
    /\ top({"commit"})
    /\ stack' = <<"catch">> \o Tail(Tail(stack))
    /\ UNCHANGED <<closeVars, sendVars, netVars, readVars, userVars, undefined>>

catch ==
    /\ top({"catch"}) /\ alive
    /\ readBuff_' = <<>>
    /\ stack' = Tail(stack)
    /\ UNCHANGED <<closeVars, sendVars, netVars, committed, empties, userVars, undefined>>

-----------------------------------------------------------------------------
(* Other threads: the status is read before the functor is appended, which *)
(* is one step, since the functor may wait as long as it likes anyway      *)

\* A thread that holds a pointer calls sendMsg or closeConnection; a handler
\* answers, without a pointer.
schedule ==
    /\ Len(functors) < MaxFunctors
    /\ \E f \in Functor :
          /\ f.op # "response" => held /\ isConnected
          /\ functors' = Append(functors, f)
    /\ UNCHANGED <<closeVars, sendVars, netVars, readVars, closeTimer, held, stack, undefined>>

closeConnectionAfter ==
    /\ held \/ top(CallBacks)
    /\ isConnected
    /\ closeTimer' = TRUE
    /\ UNCHANGED <<closeVars, sendVars, netVars, readVars, functors, held, stack, undefined>>

letGo ==
    /\ held' = FALSE
    /\ UNCHANGED <<closeVars, sendVars, netVars, readVars, functors, closeTimer, stack, undefined>>

-----------------------------------------------------------------------------
(* The loop thread between events                                          *)

\* sendMsgToBuffer bound to the connection: its status was read long ago.
runSend ==
    /\ idle /\ functors # <<>>
    /\ Head(functors).op = "send"
    /\ functors' = Tail(functors)
    /\ sendMsgToBuffer(Head(functors).size, <<"functor">>)
    /\ UNCHANGED <<netVars, readVars, closeTimer, held, undefined>>

\* xServer::doSendResponse
runResponse ==
    /\ idle /\ functors # <<>>
    /\ Head(functors).op = "response"
    /\ functors' = Tail(functors)
    /\ IF listed /\ isConnected
       THEN sendMsgToBuffer(Head(functors).size, <<>>)
       ELSE UNCHANGED <<closeVars, sendVars, stack>>
    /\ UNCHANGED <<netVars, readVars, closeTimer, held, undefined>>

runClose ==
    /\ idle /\ functors # <<>>
    /\ Head(functors).op = "close"
    /\ functors' = Tail(functors)
    /\ closeConn("functor")
    /\ UNCHANGED <<sendVars, netVars, readVars, closeTimer, held, stack, undefined>>

timerCloses ==
    /\ idle /\ closeTimer
    /\ closeTimer' = FALSE
    /\ closeConn("functor")
    /\ UNCHANGED <<sendVars, netVars, readVars, functors, held, stack, undefined>>

functorEnd ==
    /\ top({"functor"})
    /\ stack' = Tail(stack)
    /\ UNCHANGED <<closeVars, sendVars, netVars, readVars, userVars, undefined>>

\* A method goes on in a connection that was destroyed.
useAfterFree ==
    /\ top(Methods) /\ ~alive
    /\ undefined' = TRUE
    /\ UNCHANGED <<closeVars, sendVars, netVars, readVars, userVars, stack>>

-----------------------------------------------------------------------------
(* The peer                                                                *)

peerSends ==
    /\ fin = "open"
    /\ came < MaxNet
    /\ came' = came + 1
    /\ net' = Append(net, came + 1)
    /\ UNCHANGED <<closeVars, sendVars, fin, readVars, userVars, stack, undefined>>

peerEnds ==
    /\ fin = "open"
    /\ fin' \in {"eof", "reset"}
    /\ UNCHANGED <<closeVars, sendVars, came, net, readVars, userVars, stack, undefined>>

-----------------------------------------------------------------------------
userStep == callBackSends \/ callBackCloses \/ keepPointer \/ closeConnectionAfter
methodStep == tail \/ write \/ parseEnd \/ parseError \/ parseCommit \/ catch
loopStep ==
    \/ makeConnected \/ HandleError \/ \E events \in SUBSET AllEvents : HandleEvent(events)
    \/ methodStep \/ callBackReturns \/ callBackThrows
    \/ runSend \/ runResponse \/ runClose \/ timerCloses \/ functorEnd
peerStep == peerSends \/ peerEnds

Next ==
    /\ ~undefined
    /\ loopStep \/ userStep \/ schedule \/ letGo \/ peerStep \/ useAfterFree

writableEvent ==
    /\ ~undefined
    /\ \E events \in SUBSET AllEvents : XE_WRITABLE \in events /\ HandleEvent(events)

\* The loop thread runs and user code returns; and the peer takes what it is sent,
\* so that the socket is writable again.
Fairness ==
    /\ WF_vars(~undefined /\ loopStep)
    /\ SF_vars(writableEvent)

Spec == Init /\ [][Next]_vars /\ Fairness
=============================================================================
