---------------------------- MODULE MCChatService ----------------------------
(***************************************************************************)
(* Finite instances of ChatService for TLC: one or two of three requests   *)
(* ask for a stream.                                                       *)
(***************************************************************************)
EXTENDS ChatService

CONSTANTS r1, r2, r3

ThreeRequests == {r1, r2, r3}
OneStream == {r1}
TwoStreams == {r1, r2}

=============================================================================
