-------------------------- MODULE MCRabbitClient --------------------------
(* Instances of RabbitClient for TLC. *)
EXTENDS RabbitClient

CONSTANTS p1, c1, c2

OnePublisher == {p1}
OneConsumer == {c1}
TwoConsumers == {c1, c2}
=============================================================================
