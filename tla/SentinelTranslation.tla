------------------------- MODULE SentinelTranslation -------------------------
(***************************************************************************)
(* How basics.py turns the integer an engine entry point returns into the  *)
(* value a method returns or the ValueError it raises.  Every method has   *)
(* its own elif chain over the sentinels it expects; a sentinel missing    *)
(* from a chain is returned to the caller as if it were a value.  Outcomes *)
(* are records: [val |-> n], [err |-> kind], [flag |-> b], [none |-> TRUE].*)
(* The wording of the messages is left out; each becomes an error kind.    *)
(***************************************************************************)
EXTENDS Integers

ErrorKinds == {"NotInitialized", "DynamicModeDisabled", "UnsupportedController",
               "UnknownProcessSet", "NotAMember", "GlobalSetImmutable",
               "ConfigurationError", "MpiNotEnabled", "TimelineNotDynamic",
               "NoMatchingSet", "TypeError"}
Err(e)  == [err |-> e]
Val(v)  == [val |-> v]
Flag(b) == [flag |-> b]
NoneValue == [none |-> TRUE]

\* The messages of basics.py for each sentinel, by entry point.
\* Mutant: the elif for -10 (Gloo controller) left out.
AddOutcomeNoGlooCheck(r) ==
  CASE r = -1 -> Err("NotInitialized") [] r = -2 -> Err("DynamicModeDisabled")
    [] OTHER -> Val(r)
AddOutcome(r) ==
  CASE r = -1 -> Err("NotInitialized") [] r = -2 -> Err("DynamicModeDisabled")
    [] r = -10 -> Err("UnsupportedController") [] OTHER -> Val(r)
RemoveOutcome(r) ==
  CASE r = -1 -> Err("NotInitialized") [] r = -2 -> Err("DynamicModeDisabled")
    [] r = -3 -> Err("UnknownProcessSet") [] r = -10 -> Err("UnsupportedController")
    [] OTHER -> Val(r)
ScopedOutcome(r) ==
  CASE r = -1 -> Err("NotInitialized") [] r = -2 -> Err("NotAMember")
    [] r = -3 -> Err("UnknownProcessSet") [] r = -10 -> Err("UnsupportedController")
    [] OTHER -> Val(r)
QueryOutcome(r) == IF r = -1 THEN Err("NotInitialized") ELSE Val(r)
=============================================================================
