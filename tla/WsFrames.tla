------------------------------ MODULE WsFrames ------------------------------
(***************************************************************************)
(* The receiving side of a WebSocket connection of the server:             *)
(* AbstractWebSocketConnection::onRawDataIncome                            *)
(* (httpserver/abstractWebSockets.tcc), called by                          *)
(* AbstractWebSocketsHandler::onData (webSockets.cpp) from the event loop  *)
(* of ConnHandler::processEvent.                                           *)
(*                                                                         *)
(* The peer (external) sends a log of frames, keeps to the rules of        *)
(* fragmentation, may break the protocol by an unknown opcode, and may     *)
(* hang up. Bytes are not modelled but how far they have come: the frames  *)
(* log[1 .. done] are processed, those up to "read" are whole in the       *)
(* buffer "frame" of the connection, the next one begun if "partial".      *)
(* Everything else of the log is on the way.                               *)
(*                                                                         *)
(* Left out: the size limits (naturalNull unless a derived class sets      *)
(* them), masking, what control frames carry, and fragments that continue  *)
(* nothing.                                                                *)
(***************************************************************************)
EXTENDS Naturals, Sequences

CONSTANTS
    MaxFrames,  \* bound on the frames that the peer sends
    Unasked     \* do other threads close the connection?

ASSUME WsFramesAssumption == MaxFrames \in Nat /\ Unasked \in BOOLEAN

VARIABLES
    \* the peer
    log,        \* the frames it has sent
    begun,      \* the message it has sent in part, or None
    hungUp,
    \* the bytes of the connection
    done, read, partial,
    \* the connection object
    fragmentedMsgType, fragmentBuffer, requestClose,
    stage,      \* where the connection's thread is
    \* history
    completed,  \* messages sent to the end
    delivered,  \* messages handed to onTextMessage and onBinaryMessage
    controls,   \* control frames written by the connection
    closing     \* is another thread inside closeConnection?

peer == <<log, begun, hungUp, completed>>
bytes == <<done, read, partial>>
conn == <<fragmentedMsgType, fragmentBuffer, requestClose>>
frameVars == <<peer, bytes, conn, stage, delivered, controls, closing>>

DataOps == {"text", "binary"}
Frames == [op : DataOps \cup {"cont", "ping", "pong", "close", "other"}, fin : BOOLEAN]

(* The payload of a frame is its number in the log. *)
DataMessages == [type : DataOps, payload : Seq(Nat)]
None == [type |-> "none", payload |-> <<>>]

(* fragmentedMsgType is 0, an opcode, or whatever the constructor finds. *)
FragmentTypes == DataOps \cup {"none", "garbage"}

FramesTypeOK ==
    /\ log \in Seq(Frames) /\ begun \in DataMessages \cup {None} /\ hungUp \in BOOLEAN
    /\ done \in 0 .. read /\ read \in 0 .. Len(log)
    /\ partial \in BOOLEAN /\ (partial => read < Len(log))
    /\ fragmentedMsgType \in FragmentTypes /\ fragmentBuffer \in Seq(Nat)
    /\ requestClose \in BOOLEAN
    /\ stage \in {"parked", "loop", "read", "frame", "ended"}
    /\ completed \in Seq(DataMessages) /\ delivered \in Seq(DataMessages)
    /\ controls \in Seq({"pong", "close"}) /\ closing \in BOOLEAN

FramesInit ==
    /\ log = <<>> /\ begun = None /\ hungUp = FALSE
    /\ done = 0 /\ read = 0 /\ partial = FALSE
    /\ fragmentedMsgType \in {"none", "garbage"} /\ fragmentBuffer = <<>>
    /\ requestClose = FALSE
    /\ stage = "parked"
    /\ completed = <<>> /\ delivered = <<>> /\ controls = <<>> /\ closing = FALSE

-----------------------------------------------------------------------------
(* The peer. *)

HasClosed == \E i \in DOMAIN log : log[i].op = "close"

PeerSendsFrame(op, fin) ==
    /\ ~hungUp /\ ~HasClosed /\ Len(log) < MaxFrames
    /\ log' = Append(log, [op |-> op, fin |-> fin])
    /\ UNCHANGED <<hungUp, bytes, conn, stage, delivered, controls, closing>>

(* A fragment; the last one completes the message. *)
PeerSendsPart(m, op, fin) ==
    /\ PeerSendsFrame(op, fin)
    /\ IF fin THEN completed' = Append(completed, m) /\ begun' = None
       ELSE begun' = m /\ UNCHANGED completed

PeerBegins ==
    /\ begun = None
    /\ \E op \in DataOps, fin \in BOOLEAN :
         PeerSendsPart([type |-> op, payload |-> <<Len(log) + 1>>], op, fin)

PeerContinues ==
    /\ begun # None
    /\ \E fin \in BOOLEAN :
         PeerSendsPart([type |-> begun.type, payload |-> Append(begun.payload, Len(log) + 1)],
                       "cont", fin)

PeerControls ==
    /\ \E op \in {"ping", "pong", "close", "other"} : PeerSendsFrame(op, TRUE)
    /\ UNCHANGED <<begun, completed>>

PeerHangsUp ==
    /\ ~hungUp /\ hungUp' = TRUE
    /\ UNCHANGED <<log, begun, completed, bytes, conn, stage, delivered, controls, closing>>

-----------------------------------------------------------------------------
(* Some bytes are on the way. *)
Arrived == read < Len(log)

DataReady ==
    /\ stage = "parked" /\ (Arrived \/ hungUp)
    /\ stage' = "read"
    /\ UNCHANGED <<peer, bytes, conn, delivered, controls, closing>>

(* stContinue: processEvent calls again while the stream has data. *)
LoopAgain ==
    /\ stage = "loop" /\ Arrived
    /\ stage' = "read"
    /\ UNCHANGED <<peer, bytes, conn, delivered, controls, closing>>

LoopEnds ==
    /\ stage = "loop" /\ ~Arrived
    /\ stage' = "parked"
    /\ UNCHANGED <<peer, bytes, conn, delivered, controls, closing>>

(* onRawDataIncome begins with a read of any number of bytes (a frame that *)
(* comes in many pieces is no different from one in two), and ends for now *)
(* unless the first frame in the buffer is whole.                          *)
Read ==
    /\ stage = "read" /\ ~requestClose /\ Arrived
    /\ \E r \in read .. Len(log), p \in BOOLEAN :
         /\ r > read \/ (p /\ ~partial)
         /\ p => r < Len(log)
         /\ read' = r /\ partial' = p
         /\ stage' = IF r > done THEN "frame" ELSE "loop"
    /\ UNCHANGED <<peer, done, conn, delivered, controls, closing>>

(* onData: the context is destroyed, and with it the buffer. *)
ReadNothing ==
    /\ stage = "read" /\ (requestClose \/ ~Arrived)
    /\ stage' = "ended"
    /\ UNCHANGED <<peer, bytes, conn, delivered, controls, closing>>

-----------------------------------------------------------------------------
(* The first frame of the buffer. FrameCommit removes it, on every path.   *)

First == log[done + 1]

(* Mutant: the buffer is cleared instead. *)
CommitAll == done' = read
Commit == done' = done + 1

Process == stage = "frame" /\ Commit /\ UNCHANGED <<peer, read, partial, closing>>

(* "return !requestClose", stContinue or the end. Mutant: "return true".    *)
ContinueAlways == stage' = "loop"
Continue == stage' = IF requestClose THEN "ended" ELSE "loop"

CloseAndEnd ==
    /\ requestClose' = TRUE /\ controls' = Append(controls, "close")
    /\ stage' = "ended"

(* deliverPayload: the handler returns, closes the connection or throws;   *)
(* onData answers an exception by a close frame. (What an exception leaves *)
(* in the fields of fragments nobody reads.)                               *)
Deliver(m) ==
    /\ delivered' = Append(delivered, m)
    /\ \/ Continue /\ UNCHANGED <<requestClose, controls>>
       \/ CloseAndEnd

WholeMessage ==
    /\ Process
    /\ First.op \in DataOps /\ First.fin
    /\ Deliver([type |-> First.op, payload |-> <<done + 1>>])
    /\ UNCHANGED <<fragmentedMsgType, fragmentBuffer>>

FirstFragment ==
    /\ Process
    /\ First.op \in DataOps /\ ~First.fin
    /\ fragmentedMsgType' = First.op /\ fragmentBuffer' = <<done + 1>>
    /\ Continue
    /\ UNCHANGED <<requestClose, delivered, controls>>

(* Mutant: the last fragment is taken for one in the middle.               *)
FragmentNeverLast ==
    /\ Process
    /\ First.op = "cont" /\ fragmentedMsgType # "none"
    /\ fragmentBuffer' = Append(fragmentBuffer, done + 1) /\ Continue
    /\ UNCHANGED <<fragmentedMsgType, requestClose, delivered, controls>>

Fragment ==
    /\ Process
    /\ First.op = "cont" /\ fragmentedMsgType # "none"
    /\ LET fragments == Append(fragmentBuffer, done + 1)
       IN  IF First.fin
           THEN /\ Deliver([type |-> IF fragmentedMsgType = "binary" THEN "binary" ELSE "text",
                            payload |-> fragments])
                /\ fragmentedMsgType' = "none" /\ fragmentBuffer' = <<>>
           ELSE /\ fragmentBuffer' = fragments /\ Continue
                /\ UNCHANGED <<fragmentedMsgType, requestClose, delivered, controls>>

Ping ==
    /\ Process
    /\ First.op = "ping"
    /\ controls' = Append(controls, "pong") /\ Continue
    /\ UNCHANGED <<conn, delivered>>

Pong ==
    /\ Process
    /\ First.op = "pong"
    /\ Continue
    /\ UNCHANGED <<conn, delivered, controls>>

(* A close frame is answered by one; so is an unknown opcode. Mutant: they *)
(* are not.                                                                *)
CloseSilently ==
    /\ Process
    /\ First.op \in {"close", "other"}
    /\ stage' = "ended"
    /\ UNCHANGED <<conn, delivered, controls>>

Close ==
    /\ Process
    /\ First.op \in {"close", "other"}
    /\ CloseAndEnd
    /\ UNCHANGED <<fragmentedMsgType, fragmentBuffer, delivered>>

(* Another thread calls closeConnection: it sets requestClose, which the    *)
(* reader may see at once, and writes the close frame later.               *)
OthersClose ==
    /\ Unasked /\ stage # "ended" /\ ~requestClose
    /\ requestClose' = TRUE /\ closing' = TRUE
    /\ UNCHANGED <<peer, bytes, fragmentedMsgType, fragmentBuffer, stage, delivered, controls>>

OthersCloseWrites ==
    /\ closing /\ closing' = FALSE
    /\ controls' = Append(controls, "close")
    /\ UNCHANGED <<peer, bytes, conn, stage, delivered>>

-----------------------------------------------------------------------------
Peer == PeerBegins \/ PeerContinues \/ PeerControls \/ PeerHangsUp

FrameReader == DataReady \/ LoopAgain \/ LoopEnds \/ Read \/ ReadNothing
          \/ WholeMessage \/ FirstFragment \/ Fragment \/ Ping \/ Pong \/ Close

FramesNext == Peer \/ FrameReader \/ OthersClose \/ OthersCloseWrites

FramesSpec == FramesInit /\ [][FramesNext]_frameVars

(* The server's threads run. Nothing is assumed of the peer. *)
FramesFairness == WF_frameVars(FrameReader)
FramesFairSpec == FramesSpec /\ FramesFairness

-----------------------------------------------------------------------------
(* Messages are delivered whole, in order, once and with their type,       *)
(* however they are fragmented, mixed with control frames and cut into     *)
(* reads.                                                                  *)
Channel == INSTANCE MessageChannel WITH Messages <- DataMessages, sent <- completed
InOrder == Channel!Spec

(* When this side has begun to close, at most the frame under way is still *)
(* handled, and the connection ends with it.                               *)
NothingAfterClose ==
    [][requestClose /\ delivered' # delivered => stage' = "ended"]_frameVars

(* This side ends the connection only after a close frame of its own, with *)
(* another thread about to write one, or when the peer is gone.            *)
EndAnnounced ==
    stage = "ended" => hungUp \/ closing \/ \E i \in DOMAIN controls : controls[i] = "close"

(* Types and the end of a connection together.                             *)
FramesConsistent == FramesTypeOK /\ EndAnnounced

(* A message in the buffer, which the reader has left there.               *)
LeftBehind == stage = "parked" /\ done < read

(* Every message is delivered, if the connection lasts; the only thing     *)
(* that can keep it back is a frame left behind in the buffer.             *)
EveryDelivered ==
    Len(delivered) < Len(completed) ~>
      Len(delivered) = Len(completed) \/ stage = "ended" \/ LeftBehind
=============================================================================
