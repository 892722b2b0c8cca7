------------------------ MODULE MCPersistentProtocol ------------------------
(* Constants for model checking PersistentProtocol. *)
EXTENDS PersistentProtocol

ClientSendsTwo == [s \in Sides |-> IF s = Client THEN 2 ELSE 0]
\* Both ends send, so that acknowledgements ride on messages both ways.
ClientSendsMore == [s \in Sides |-> IF s = Client THEN 2 ELSE 1]
=============================================================================
