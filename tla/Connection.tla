------------------------------ MODULE Connection ------------------------------
(***************************************************************************)
(* What the two kinds of WebSocket connection share (internal/adapters/    *)
(* websocket/connection.go): a goroutine that reads and handles messages,  *)
(* a writePump that writes what the first puts into the outbound queue,    *)
(* and the socket, which either of them finds broken.                      *)
(*                                                                         *)
(* The reader starts the pump after the handshake.  It ends by closing the *)
(* queue and then the socket, without waiting for the pump.                *)
(***************************************************************************)
EXTENDS Naturals, Sequences

CONSTANTS
    Connections,  \* the accepted connections
    OutboundSize, \* the capacity of the outbound queue
    NoMessage,    \* what an idle pump writes
    ErrorMessage  \* the answer to what is no message of the protocol

\* newConnection replaces a queue size that is not positive.
ASSUME ConnectionAssumption ==
    /\ OutboundSize \in Nat \ {0}
    /\ NoMessage # ErrorMessage

VARIABLES
    reader,         \* where the reading goroutine is
    outbound,       \* the queue of messages
    outboundClosed, \* whether it is closed
    pump,           \* where the writePump is
    writing,        \* the message it has taken
    socket,         \* "open", "closeSent", "closed" (on the server's side)
    gone,           \* whether the client is gone or does not read any more
    wire            \* the messages that reached the client, in order

connectionVars == <<reader, outbound, outboundClosed, pump, writing, socket,
                    gone, wire>>
pumpVars == <<pump, writing, wire>>

ConnectionInit ==
    /\ reader = [c \in Connections |-> "handshake"]
    /\ outbound = [c \in Connections |-> <<>>]
    /\ outboundClosed = [c \in Connections |-> FALSE]
    /\ pump = [c \in Connections |-> "off"]
    /\ writing = [c \in Connections |-> NoMessage]
    /\ socket = [c \in Connections |-> "open"]
    /\ gone = [c \in Connections |-> FALSE]
    /\ wire = [c \in Connections |-> <<>>]

\* One more step of the reading goroutine of c.
ReaderGoes(c, from, to) ==
    /\ reader[c] = from
    /\ reader' = [reader EXCEPT ![c] = to]
-------------------------------------------------------------------------------
(***************************************************************************)
(* The reading goroutine.                                                  *)
(***************************************************************************)
\* performHandshake: a valid hello is answered on the socket itself, and the
\* pump is started; otherwise run closes the socket.  The hello has no deadline.
Handshake(c) ==
    /\ \/ /\ ReaderGoes(c, "handshake", "reading")
          /\ pump' = [pump EXCEPT ![c] = "waiting"]
       \/ ReaderGoes(c, "handshake", "closeSocket") /\ UNCHANGED pump
    /\ UNCHANGED <<outbound, outboundClosed, writing, socket, gone, wire>>

\* Faulty variant: one message more than the queue may hold.
HasRoomOffByOne(c) == Len(outbound[c]) <= OutboundSize

HasRoom(c) == Len(outbound[c]) < OutboundSize

\* send: a full queue makes the reader send a close frame instead.
Send(c, message, sent, full) ==
    /\ reader' = [reader EXCEPT ![c] = IF HasRoom(c) THEN sent ELSE full]
    /\ outbound' = IF HasRoom(c)
                     THEN [outbound EXCEPT ![c] = Append(@, message)]
                     ELSE outbound
    /\ UNCHANGED <<outboundClosed, pump, writing, socket, gone, wire>>

\* Faulty variant: the message is dropped and no close frame is sent.
WriteControlForgotten(c, from, to) ==
    /\ ReaderGoes(c, from, to)
    /\ UNCHANGED <<outbound, outboundClosed, pump, writing, socket, gone, wire>>

\* WriteControl: after the close frame every write of the library fails, and
\* so does WriteControl after a failed write.
WriteControl(c, from, to) ==
    /\ ReaderGoes(c, from, to)
    /\ socket' = [socket EXCEPT ![c] =
                     IF @ = "open" /\ pump[c] # "stopped" THEN "closeSent" ELSE @]
    /\ UNCHANGED <<outbound, outboundClosed, pump, writing, gone, wire>>

\* ReadMessage fails, or a message is not what the mode expects: the client
\* left or sent something else, or no pong came before the read deadline.
ReadFails(c) ==
    /\ reader[c] = "reading"
    /\ Send(c, ErrorMessage, "returning", "lastControl")

\* The close frame when there was no room for that error.
LastControl(c) == WriteControl(c, "lastControl", "returning")

\* The deferred close of the queue, and the one of the socket in run.
CloseOutbound(c) ==
    /\ ReaderGoes(c, "returning", "closeSocket")
    /\ outboundClosed' = [outboundClosed EXCEPT ![c] = TRUE]
    /\ UNCHANGED <<outbound, pump, writing, socket, gone, wire>>

CloseSocket(c) ==
    /\ ReaderGoes(c, "closeSocket", "ended")
    /\ socket' = [socket EXCEPT ![c] = "closed"]
    /\ UNCHANGED <<outbound, outboundClosed, pump, writing, gone, wire>>

ReturnStep(c) == LastControl(c) \/ CloseOutbound(c) \/ CloseSocket(c)
-------------------------------------------------------------------------------
(***************************************************************************)
(* writePump and the client.                                               *)
(***************************************************************************)
PumpTakes(c) ==
    /\ pump[c] = "waiting"
    /\ outbound[c] # <<>>
    /\ pump' = [pump EXCEPT ![c] = "writing"]
    /\ writing' = [writing EXCEPT ![c] = Head(outbound[c])]
    /\ outbound' = [outbound EXCEPT ![c] = Tail(@)]
    /\ UNCHANGED <<reader, outboundClosed, socket, gone, wire>>

\* The queue is closed and empty.
PumpReturns(c) ==
    /\ pump[c] = "waiting"
    /\ outbound[c] = <<>> /\ outboundClosed[c]
    /\ pump' = [pump EXCEPT ![c] = "stopped"]
    /\ UNCHANGED <<reader, outbound, outboundClosed, writing, socket, gone, wire>>

\* A write may succeed after the client left; it reaches nobody then.
PumpWrites(c) ==
    /\ pump[c] = "writing"
    /\ socket[c] = "open"
    /\ pump' = [pump EXCEPT ![c] = "waiting"]
    /\ writing' = [writing EXCEPT ![c] = NoMessage]
    /\ wire' = IF gone[c] THEN wire
               ELSE [wire EXCEPT ![c] = Append(@, writing[c])]
    /\ UNCHANGED <<reader, outbound, outboundClosed, socket, gone>>

\* A message or a ping cannot be written before the write deadline.  The pump
\* returns and leaves the queue and the socket as they are.
PumpFails(c) ==
    /\ pump[c] \in {"waiting", "writing"}
    /\ socket[c] # "open" \/ gone[c]
    /\ pump' = [pump EXCEPT ![c] = "stopped"]
    /\ writing' = [writing EXCEPT ![c] = NoMessage]
    /\ UNCHANGED <<reader, outbound, outboundClosed, socket, gone, wire>>

PumpStep(c) == PumpTakes(c) \/ PumpReturns(c) \/ PumpWrites(c) \/ PumpFails(c)

ClientLeaves(c) ==
    /\ ~gone[c]
    /\ gone' = [gone EXCEPT ![c] = TRUE]
    /\ UNCHANGED <<reader, outbound, outboundClosed, pump, writing, socket, wire>>

\* The Go scheduler runs both goroutines.  Every write has a deadline, and the
\* pings, one in 54 seconds, fail at last when the client is gone.
PumpFairness ==
    \A c \in Connections :
       /\ WF_connectionVars(PumpTakes(c))
       /\ WF_connectionVars(PumpReturns(c))
       /\ WF_connectionVars(PumpWrites(c) \/ PumpFails(c))
       /\ WF_connectionVars(PumpFails(c))

\* Both goroutines of the connection are gone.
Over(c) == reader[c] = "ended" /\ pump[c] \in {"off", "stopped"}
===============================================================================
