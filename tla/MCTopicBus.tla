----------------------------- MODULE MCTopicBus -----------------------------
(* TopicBus for TLC: the constants are given in the configuration.          *)
EXTENDS TopicBus

=============================================================================
