--------------------------- MODULE MCP2PIdExtract ---------------------------
(* extractP2PID with a deadline of a few ticks and two lines of other     *)
(* processes' output.                                                     *)
EXTENDS P2PIdExtract

(* Every position between two tokens of the address line.                 *)
AnyCut == 1..(Len(Msg) - 1)

(* Cuts inside the address before /p2p/, and between the ID and the text  *)
(* after it.                                                              *)
CutsOutsideId == {1, 4}

(* The cut between /p2p/ and the ID.                                       *)
CutBeforeId == {2}
=============================================================================
