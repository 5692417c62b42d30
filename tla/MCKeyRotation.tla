---------------------------- MODULE MCKeyRotation ----------------------------
(***************************************************************************)
(* KeyRotation, when the operator follows the procedure at the head of the *)
(* script: its commands, in a maintenance window.                          *)
(***************************************************************************)
EXTENDS KeyRotation

\* "Dry-run : node scripts/rekey-encryption.mjs", then "--apply".
AsWritten == script # Idle => ~script.public

ProcedureSpec == Init /\ [][Next /\ (Window /\ AsWritten)']_vars

\* The procedure re-encrypts the whole: once a dry run found nothing left and the
\* outgoing key is dropped, what is stored still opens (docs/security.md:45-46,
\* scripts/rekey-encryption.mjs:30-36).
ProcedureKeepsAll == EveryRowOpens
=============================================================================
