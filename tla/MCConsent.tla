------------------------------ MODULE MCConsent -----------------------------
(* Small instances of Consent: one daemon and one one-shot process. *)
EXTENDS Consent

CONSTANTS Revokes, Starts, Faults, Kills

MCUses == [revoke |-> Revokes, start |-> Starts, fault |-> Faults, kill |-> Kills]
=============================================================================
