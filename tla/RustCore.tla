------------------------------ MODULE RustCore ------------------------------
(***************************************************************************)
(* The parts of the Rust crates that share no state: the request guard,    *)
(* the approval desk, signed requests, lead scoring, the JSON bridge, the  *)
(* ledger, and the two tables of the Python application whose arithmetic   *)
(* is theirs, tool breakers and revenue signals.  BusinessOS::new          *)
(* (rust/src/pipeline.rs) makes one of each; no call of one reads or       *)
(* writes another.  So their interleavings say nothing new, and a          *)
(* behaviour exercises one part of them.                                   *)
(***************************************************************************)
EXTENDS RequestGuard, ApprovalDesk, RequestAuth, CoreBridge, ToolBreaker, DepartmentSignals

VARIABLE part  \* the part this behaviour exercises

coreVars == <<part, vars, deskVars, authVars, leadVars, bridgeVars, ledgerVars, breakerVars, signalsVars>>

CoreInit ==
  /\ Init /\ DeskInit /\ AuthInit /\ LeadInit /\ LedgerInit /\ BreakerInit
  /\ part \in {"guard", "desk", "auth", "lead", "bridge", "ledger", "breaker", "signals"}
  /\ IF part = "bridge" THEN BridgeInit ELSE asked = [command |-> "unknown"] /\ answer = None
  /\ SignalsInit /\ (part # "signals" => kind = "other") /\ (part # "breaker" => zoned)

(* A step of the part; the others keep their initial values.                *)
CoreNext ==
  /\ UNCHANGED part
  /\ \/ part = "guard" /\ Next
     \/ part # "guard" /\ UNCHANGED vars
  /\ \/ part = "desk" /\ DeskNext
     \/ part # "desk" /\ UNCHANGED deskVars
  /\ \/ part = "auth" /\ AuthNext
     \/ part # "auth" /\ UNCHANGED authVars
  /\ \/ part = "lead" /\ LeadNext
     \/ part # "lead" /\ UNCHANGED leadVars
  /\ \/ part = "bridge" /\ BridgeNext
     \/ part # "bridge" /\ UNCHANGED bridgeVars
  /\ \/ part = "ledger" /\ LedgerNext
     \/ part # "ledger" /\ UNCHANGED ledgerVars
  /\ \/ part = "breaker" /\ BreakerNext
     \/ part # "breaker" /\ UNCHANGED breakerVars
  /\ \/ part = "signals" /\ SignalsNext
     \/ part # "signals" /\ UNCHANGED signalsVars

CoreSpec == CoreInit /\ [][CoreNext]_coreVars
=============================================================================
