---------------------------- MODULE MCDispatcher ----------------------------
(* Dispatcher for TLC: the events are of one kind and about one workload, so *)
(* that they share messages and throttle each other; a channel takes all or  *)
(* none of them.                                                             *)
EXTENDS Dispatcher

MCKindOf == [r \in Refs |-> "powered_down"]
MCIdentityOf == [r \in Refs |-> "powered_down/api"]
MCFilters == {{}, Refs}
=============================================================================
