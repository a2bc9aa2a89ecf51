-------------------------- MODULE XConnectionProps --------------------------
(***************************************************************************)
(* What a connection is to guarantee.                                      *)
(***************************************************************************)
EXTENDS XConnection

Bytes == 1..MaxGiven

\* Types of the variables; and the connection is registered while it is connected,
\* whoever closes it and wherever (connection.cpp:87-95, xloop.cpp:99, 116).
TypeOK ==
    /\ connStatus_ \in {"CONNECTING", "CONNECTED", "DISCONNECTING"}
    /\ mask \subseteq AllEvents
    /\ mask # {} <=> isConnected
    /\ closedIn \in {"none", "event", "functor", "callback"}
    /\ {listed, writeEnabled_, closeTimer, held, undefined} \subseteq BOOLEAN
    /\ writeBuff_ \in Seq(Bytes) /\ wire \in Seq(Bytes)
    /\ given \in 0..MaxGiven /\ shorts \in 0..MaxShort
    /\ came \in 0..MaxNet
    /\ {net, readBuff_, committed} \subseteq Seq(1..MaxNet)
    /\ fin \in {"open", "eof", "reset"} /\ empties \in 0..MaxEmpty
    /\ functors \in Seq(Functor)
    /\ stack \in Seq(Frames)

\* writeFd hides how much it wrote (file_api.cpp:42), so the peer can get bytes
\* twice; but none before the one that precedes it, and none is passed over.
NothingSkipped ==
    /\ \A i \in DOMAIN wire : wire[i] = 1 \/ \E j \in 1..(i - 1) : wire[j] = wire[i] - 1
    /\ 1..given \subseteq Range(wire) \cup Range(writeBuff_)

\* Why: writeBuff_ holds the last bytes given, and those before it were written.
InSequence(buff, written, n) ==
    LET m == Len(buff)
    IN  /\ m <= n
        /\ \A i \in 1..m : buff[i] = n - m + i
        /\ \A i \in DOMAIN written :
              written[i] = 1 \/ \E j \in 1..(i - 1) : written[j] = written[i] - 1
        /\ 1..(n - m) \subseteq Range(written)

SendingInv == InSequence(writeBuff_, wire, given)

\* What the peer sent: handed to msgCommitCb_, still to be parsed, and on the way.
incoming == committed \o readBuff_ \o net

\* Whatever decodeCb_ returns and however callbacks end, parseProtocol commits bytes
\* in the order of the peer and none twice (connection.cpp:141-164).
CommittedInOrder == \A i, j \in DOMAIN incoming : i < j => incoming[i] < incoming[j]

\* Why: nothing that came is numbered higher than the last byte of the peer.
ReadingInv ==
    /\ CommittedInOrder
    /\ \A i \in DOMAIN incoming : incoming[i] <= came

\* Closing for an end of file, an error, a functor or a timer never leaves a method
\* in a destroyed connection (the returns of HandleEvent, connection.cpp:114-130):
\* only user code that closes the connection in a callback can.
FreedOnlyByCallBack == undefined => closedIn = "callback"

\* Why: closeConn takes the owner's pointer away, and where the code calls it outside
\* of callbacks no method is left on the stack: the writable part is the last frame, and
\* only parseProtocol calls msgCommitCb_.
ClosingInv ==
    /\ \A i \in DOMAIN stack :
          /\ stack[i] = "write" => i = Len(stack)
          /\ stack[i] = "commit" => i < Len(stack)
    /\ closedIn = "none" => listed
    /\ connStatus_ = "DISCONNECTING" <=> closedIn # "none"
    /\ closedIn \in {"event", "functor"} => stack = <<>> \/ stack = <<"functor">>
    /\ FreedOnlyByCallBack

\* Once the writable event is wanted, what is in the buffer goes out
\* (connection.cpp:40-43, 125).
ArmedDrains ==
    writeEnabled_ /\ writeBuff_ # <<>> ~> writeBuff_ = <<>> \/ ~isConnected \/ undefined

\* "the write buffer is pull, it will notify again" (connection.cpp:23): while bytes
\* wait for the socket the writable event is registered.
WillNotifyAgain ==
    idle /\ isConnected /\ writeBuff_ # <<>> => XE_WRITABLE \in mask
=============================================================================
