----------------------------- MODULE MCServing -----------------------------
(***************************************************************************)
(* Serving for TLC.  Counters are bounded by the number of turns, and the  *)
(* turns share nothing but the counters, the ledger and the configuration, *)
(* so two turns of a few shapes show every interleaving that matters, and  *)
(* one turn of any shape shows every path through the handler.             *)
(***************************************************************************)
EXTENDS Serving, TLC

\* One turn for the engine and one for a Codex path.
EngineAndCodex == {[endpoint |-> "messages", tier |-> "deepseek", auth |-> "api_key"],
                   [endpoint |-> "responses", tier |-> "codex", auth |-> "oauth"]}

Symmetry == Permutations(Requests)
=============================================================================
