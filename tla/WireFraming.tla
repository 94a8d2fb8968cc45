---------------------------- MODULE WireFraming ----------------------------
(***************************************************************************)
(* How the byte stream of a client is cut into frontend frames,            *)
(* consumeFrontendMessages of src/src/postgres/wire.ts.                    *)
(*                                                                         *)
(* A frame is a type byte, a length field of LengthBytes bytes (four in    *)
(* PostgreSQL) and a body; the length counts its own field and the body.   *)
(* A byte is a record: "type" is the type a type byte stands for, "value"  *)
(* the number a length field holds (on its first byte).  A body byte reads *)
(* as the type "body" and the length 0, so a stream cut at a wrong place   *)
(* gives frames that nobody sent.                                          *)
(***************************************************************************)
EXTENDS Naturals, Sequences, SequencesExt

CONSTANTS LengthBytes,  \* bytes of the length field
          MaxFrame      \* PG_MAX_FRONTEND_MESSAGE_BYTES

ASSUME FramingAssumption ==
    /\ LengthBytes \in Nat \ {0}
    /\ MaxFrame \in Nat

\* What a client writes: the length it declares and the bytes of its body.
Frame(type, length, body) == [type |-> type, length |-> length, body |-> body]
Byte(type, value) == [type |-> type, value |-> value]
BodyByte == Byte("body", 0)

\* A frame whose declared length is that of its body.
WellFormed(f) == f.length = LengthBytes + f.body

Encode(f) ==
    <<Byte(f.type, 0), Byte("length", f.length)>>
        \o [i \in 1 .. LengthBytes - 1 + f.body |-> BodyByte]

EncodeAll(frames) == FlattenSeq([i \in 1 .. Len(frames) |-> Encode(frames[i])])

-----------------------------------------------------------------------------
\* The frame whose type byte follows the first o bytes of b.
HeaderAt(b, o) == o + 1 + LengthBytes <= Len(b)
LengthAt(b, o) == b[o + 2].value
BadLength(b, o) == LengthAt(b, o) < LengthBytes \/ 1 + LengthAt(b, o) > MaxFrame
FrameAt(b, o) == Frame(b[o + 1].type, LengthAt(b, o), LengthAt(b, o) - LengthBytes)

\* The loop of consumeFrontendMessages from offset o: the frames it collects,
\* where it stops, and whether it stops by throwing.
Scan(b) ==
    LET scan[o \in 0 .. Len(b)] ==
          IF ~HeaderAt(b, o)
          THEN [frames |-> <<>>, offset |-> o, ok |-> TRUE]
          ELSE IF BadLength(b, o)
          THEN [frames |-> <<>>, offset |-> o, ok |-> FALSE]
          ELSE IF o + 1 + LengthAt(b, o) > Len(b)
          THEN [frames |-> <<>>, offset |-> o, ok |-> TRUE]
          ELSE LET rest == scan[o + 1 + LengthAt(b, o)]
               IN [rest EXCEPT !.frames = <<FrameAt(b, o)>> \o @]
    IN scan[0]

\* The variant takes every scanned byte for consumed, one too many when a
\* frame is still incomplete.
ConsumeOneMore(b) ==
    LET s == Scan(b)
        from == IF s.offset < Len(b) THEN s.offset + 2 ELSE s.offset + 1
    IN [ok |-> s.ok, messages |-> s.frames, remainder |-> SubSeq(b, from, Len(b))]

\* Variants that look at one frame only, and that throw when the last frame is
\* incomplete as splitFrontendMessages does.
ConsumeFirst(b) ==
    LET s == Scan(b)
    IN IF s.frames = <<>>
       THEN [ok |-> s.ok, messages |-> <<>>, remainder |-> SubSeq(b, s.offset + 1, Len(b))]
       ELSE [ok |-> s.ok, messages |-> <<Head(s.frames)>>,
             remainder |-> SubSeq(b, 2 + Head(s.frames).length, Len(b))]
ConsumeStrict(b) ==
    LET s == Scan(b)
    IN [ok |-> s.ok /\ s.offset = Len(b), messages |-> s.frames, remainder |-> <<>>]

\* consumeFrontendMessages: the complete frames and the bytes kept for the next
\* chunk.  When it throws, both are lost to the caller.
Consume(b) ==
    LET s == Scan(b)
    IN [ok |-> s.ok /\ ~(Len(b) > MaxFrame /\ s.offset = 0),
        messages |-> s.frames,
        remainder |-> SubSeq(b, s.offset + 1, Len(b))]
=============================================================================
