----------------------------- MODULE MCOtaClient -----------------------------
(* Two images, of one full batch and a short one, and of a single chunk    *)
(* whose digest is wrong; the queue holds one packet more than is handled. *)
EXTENDS OtaClient

CONSTANTS s1, s2, none

MCSessions == { s1, s2 }
MCChunks   == [s \in MCSessions |-> IF s = s1 THEN 3 ELSE 1]
MCSound    == { s1 }
=============================================================================
