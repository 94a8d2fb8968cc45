------------------------ MODULE MCFrontendConnection ------------------------
(***************************************************************************)
(* Instances of FrontendConnection for TLC.                                *)
(***************************************************************************)
EXTENDS FrontendConnection

\* A Query, a message of the extended protocol, Sync and Terminate; a frame
\* whose length field does not count itself and one above the limit.
MCFrames == {Frame("Q", LengthBytes + 1, 1), Frame("M", LengthBytes, 0),
             Frame("S", LengthBytes, 0), Frame("X", LengthBytes, 0),
             Frame("M", 0, 0), Frame("M", MaxFrame, 0)}

\* Every kind of simple query.
MCQueries == StatementKinds \cup Batches \cup {"empty"}
=============================================================================
