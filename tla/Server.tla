------------------------------- MODULE Server --------------------------------
(***************************************************************************)
(* The process: the services of Services over the storage of Observation,  *)
(* which a request of the connector writes while the services stop.        *)
(***************************************************************************)
EXTENDS Services

ServerInit == ObservationInit /\ ServicesInit

ServerSpec == ServerInit /\ [][ServicesNext]_lifeVars /\ ServicesFairness
=============================================================================
