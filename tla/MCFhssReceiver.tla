--------------------------- MODULE MCFhssReceiver ---------------------------
(***************************************************************************)
(* FhssReceiver with the thresholds of the product (fhss_audio_adapter.c). *)
(* syncMisses stays below LossCount without a constraint, so the state     *)
(* space is finite as it stands.                                           *)
(***************************************************************************)
EXTENDS FhssReceiver
=============================================================================
