----------------------------- MODULE MCMailSync -----------------------------
(***************************************************************************)
(* A small account for model-checking MailSync.                            *)
(***************************************************************************)
EXTENDS MailSync

\* NoLostChange of MailSync, with the type invariant: no change escapes a
\* client that follows the change logs.
MCNoLostChange == TypeOK /\ NoLostChange
=============================================================================
