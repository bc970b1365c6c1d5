------------------------- MODULE MCMessageDispatcher -------------------------
(* Two client threads, four actions, the dispatcher executed twice. *)
EXTENDS MessageDispatcher, FiniteSets

(* The two clients must be distinct threads for Queue to race with Queue. *)
ASSUME TwoClients == Cardinality(Clients) = 2
=============================================================================
