------------------------- MODULE MCSerializedRelay --------------------------
(* The instance of SerializedRelay for TLC. *)
EXTENDS SerializedRelay
=============================================================================
