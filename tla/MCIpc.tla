-------------------------------- MODULE MCIpc --------------------------------
(* Instances of Ipc for TLC. *)
EXTENDS Ipc

CONSTANTS a, b

(* With IdWrap = 4 the identifier 4 is cast to channel 0, as 65536 is. *)
MCChannelId == {-1, 0, 1, 3, 4}
MCTid == {0, 1}
=============================================================================
