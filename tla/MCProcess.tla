----------------------------- MODULE MCProcess -------------------------------
(* The connector alone, and with the two services that react to its stop. *)
EXTENDS Process

MCConfigured == {{}, {"metrics", "observation"}}
=============================================================================
