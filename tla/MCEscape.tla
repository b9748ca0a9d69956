------------------------------ MODULE MCEscape ------------------------------
(* The instance of EscapeGauge for TLC: every byte may come. *)
EXTENDS EscapeGauge

AnyByte == Bytes
=============================================================================
