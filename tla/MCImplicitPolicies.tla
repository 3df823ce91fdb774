------------------------ MODULE MCImplicitPolicies ------------------------
(* ImplicitPolicies for TLC: one built-in schedule and one that people      *)
(* write, perhaps with windows that the validator refuses.                  *)
EXTENDS ImplicitPolicies

MCBuiltInSpec == [s \in BuiltIns |-> "hours"]

MCInitialAnnotations ==
    {[ns \in Namespaces |->
         IF ns = "team" THEN [schedule |-> "builtin", priority |-> 3]
         ELSE [schedule |-> "custom", priority |-> 1]]}

\* One policy of the loop from before, and nothing yet.
MCInitialKinds ==
    {[ns \in Namespaces |-> IF ns = "team" THEN "own" ELSE "none"]}
=============================================================================
