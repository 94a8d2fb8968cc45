------------------------- MODULE FrontendConnection -------------------------
(***************************************************************************)
(* A client connection: the bytes a client writes reach handleRaw of       *)
(* src/src/proxy/session.ts in chunks of any size, WireFraming cuts them   *)
(* into frames and ExtendedProtocol handles the frames in order.  Chunks   *)
(* are chained: the next one is looked at when all frames of the one       *)
(* before are handled.  A client that disconnects may connect again, to a  *)
(* new session.                                                            *)
(***************************************************************************)
EXTENDS ExtendedProtocol, WireFraming

CONSTANTS Frames,       \* what clients write
          MaxInFlight   \* bound on the frames written but not handled

\* A frame has the bytes its length declares, unless no frame may have that
\* length.
ASSUME FramesAssumption ==
    \A f \in Frames :
        /\ f = Frame(f.type, f.length, f.body)
        /\ f.length \in Nat /\ f.body \in Nat
        /\ WellFormed(f) \/ f.length < LengthBytes \/ 1 + f.length > MaxFrame

VARIABLES
    sent,     \* the frames written and not handled
    wire,     \* the bytes that have not reached handleRaw
    buffer,   \* this.frontendBuffer
    inbox     \* the frames of the current chunk that are to be handled

stream == <<sent, wire, buffer, inbox>>
vars == <<prepared, portals, extendedError, tx, pinned, closed, last, out,
          sent, wire, buffer, inbox>>

EmptyStream == sent = <<>> /\ wire = <<>> /\ buffer = <<>> /\ inbox = <<>>

Init == InitSession /\ EmptyStream

\* The reply to the message handled last was read: forgets it.
Read == last' = "none" /\ out' = <<>>
Idle == UNCHANGED <<prepared, portals, extendedError, tx, pinned, closed>>

\* The client writes a frame.
Write(f) ==
    /\ ~closed
    /\ Len(sent) < MaxInFlight
    /\ sent' = Append(sent, f)
    /\ wire' = wire \o Encode(f)
    /\ Read /\ Idle
    /\ UNCHANGED <<buffer, inbox>>

\* handleRaw gets the next n bytes.  When consumeFrontendMessages throws, the
\* buffer keeps all it had and the frames before the bad one are not handled.
Receive(n) ==
    /\ inbox = <<>>
    /\ n \in 1 .. Len(wire)
    /\ wire' = SubSeq(wire, n + 1, Len(wire))
    /\ LET b == buffer \o SubSeq(wire, 1, n)
           parsed == Consume(b)
       IN \/ /\ parsed.ok
             /\ buffer' = parsed.remainder
             /\ inbox' = parsed.messages
             /\ Read
          \/ /\ ~parsed.ok
             /\ buffer' = b
             /\ inbox' = <<>>
             /\ last' = "framing"
             /\ out' = <<ErrorResponse("error")>>
    /\ Idle
    /\ UNCHANGED sent

\* The loop of handleRaw takes the next frame.
Dispatch ==
    /\ inbox # <<>>
    /\ inbox' = Tail(inbox)
    /\ sent' = Tail(sent)
    /\ HandleMessage(Head(inbox).type)
    /\ UNCHANGED <<wire, buffer>>

\* The socket ends; frames that are already in the chain are still looked at.
Disconnect ==
    /\ ~closed
    /\ Shut("none")
    /\ UNCHANGED stream

Connect ==
    /\ closed
    /\ prepared' = [n \in Names |-> "none"]
    /\ portals' = [p \in PortalNames |-> NoPortal]
    /\ extendedError' = FALSE
    /\ tx' = "I"
    /\ pinned' = FALSE
    /\ closed' = FALSE
    /\ last' = "none" /\ out' = <<>>
    /\ sent' = <<>> /\ wire' = <<>> /\ buffer' = <<>> /\ inbox' = <<>>

ReceiveSome == \E n \in 1 .. Len(wire) : Receive(n)

Next ==
    \/ \E f \in Frames : Write(f)
    \/ ReceiveSome
    \/ Dispatch
    \/ Disconnect
    \/ Connect

\* Node delivers what arrived, and a handler ends when Db2 has answered it.
Spec == Init /\ [][Next]_vars /\ WF_vars(ReceiveSome) /\ WF_vars(Dispatch)
-----------------------------------------------------------------------------
(* Properties.                                                             *)

\* However the stream is cut into chunks, the frames handled are those the
\* client wrote, whole and in order: the frames to handle are the oldest ones
\* written, and the bytes buffered and under way are exactly those of the rest.
FramesInOrder ==
    /\ IsPrefix(inbox, sent)
    /\ buffer \o wire = EncodeAll(SubSeq(sent, Len(inbox) + 1, Len(sent)))

\* A frame that cannot be read is still at hand: nothing after it is handled.
Stuck == ~Consume(buffer).ok

\* What waits in the buffer is part of one frame: a frame that arrived whole is
\* never left there, where only another chunk, which a client that waits for its
\* answer does not send, would bring it up, and the part is no longer than a frame
\* may be.  Once a frame could not be read nothing is left to be handled.
OnlyPartOfAFrameWaits ==
    IF Stuck THEN inbox = <<>>
    ELSE Consume(buffer).messages = <<>> /\ Len(buffer) <= MaxFrame

\* A stream that could not be read is not taken up again at some later byte: until
\* the client connects anew, whatever arrives, no more frames are found in it.
BadStreamStaysBad ==
    [][Stuck => (Stuck' /\ inbox' = <<>>) \/ (closed /\ ~closed')]_vars

\* A Sync is answered by ReadyForQuery unless the client goes away or a frame
\* could not be read: no error before it, of the protocol, of a statement or of
\* a checkout, leaves the session deaf to it.
SyncIsAnswered ==
    (\E i \in 1 .. Len(sent) : sent[i].type = "S") ~>
        ((last = "S" /\ out = <<ReadyForQuery>>) \/ closed \/ Stuck)
=============================================================================
