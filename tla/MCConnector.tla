------------------------------ MODULE MCConnector ------------------------------
(* Two hosts, one of which need not answer, and the kills of the user.     *)
EXTENDS Connector
================================================================================
