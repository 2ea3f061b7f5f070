----------------------------- MODULE MCJsonStorage -----------------------------
(* Instance of JsonStorage: one device, two saves at once, one stop. *)
EXTENDS JsonStorage
=============================================================================
