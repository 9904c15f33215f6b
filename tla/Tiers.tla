------------------------------- MODULE Tiers -------------------------------
(***************************************************************************)
(* Which tier serves a turn (routing/tier_selection.py, the topology it    *)
(* reads and resolve_tier_config).  Pure operators over a configuration    *)
(*                                                                         *)
(*   [tools, wellformed, precedence, aliases, served]                      *)
(*                                                                         *)
(* tools       the tool map of the agent group in the order of the file,   *)
(*             entries [stem, glob, tier]; a glob is a trailing "*"        *)
(* wellformed  whether every value of that map is a string                 *)
(* precedence  tier names, most demanding first                            *)
(* aliases     other spellings of the configured premium tools             *)
(* served      the tiers with a configuration and a credential             *)
(*                                                                         *)
(* A tool name is a sequence of parts, so that a pattern can be a prefix.  *)
(***************************************************************************)
EXTENDS Naturals, Sequences, FiniteSetsExt, SequencesExt

CONSTANT DefaultTools    \* the built-in map of the agent group

Unknown == <<"<unknown>">>    \* stands for a result nobody can name
Unmapped == "unmapped"        \* lookup_tool returns None

AgentTools(config) == IF config.wellformed THEN config.tools ELSE DefaultTools

Canonical(config, name) ==
  IF name \in DOMAIN config.aliases THEN config.aliases[name] ELSE name

\* The entries a name falls under: its own, and the patterns it begins with.
Exact(tools, name) == {i \in DOMAIN tools : ~tools[i].glob /\ tools[i].stem = name}
Patterns(tools, name) == {i \in DOMAIN tools : tools[i].glob /\ IsPrefix(tools[i].stem, name)}

LookupTool(config, raw) ==
  LET tools == AgentTools(config)
      name == Canonical(config, raw)
  IN IF Exact(tools, name) # {} THEN tools[Min(Exact(tools, name))].tier
     ELSE IF Patterns(tools, name) # {} THEN tools[Min(Patterns(tools, name))].tier
     ELSE Unmapped

\* The tiers a batch needs, and those of them the precedence names.
Needed(config, names) == {LookupTool(config, n) : n \in ToSet(names)}
Ranked(config, tiers) == {i \in DOMAIN config.precedence : config.precedence[i] \in tiers}

\* Mutation: the batch goes to the last tier of the precedence it needs.
TierForLast(config, names) ==
  LET needed == Needed(config, names)
  IN IF needed \cap {Unmapped, "premium"} # {} \/ Ranked(config, needed) = {} THEN "premium"
     ELSE config.precedence[Max(Ranked(config, needed))]

(***************************************************************************)
(* A tool that is unmapped or premium settles the batch; otherwise the     *)
(* first tier of the precedence that some tool of the batch maps to.       *)
(***************************************************************************)
TierFor(config, names) ==
  LET needed == Needed(config, names)
  IN IF needed \cap {Unmapped, "premium"} # {} \/ Ranked(config, needed) = {} THEN "premium"
     ELSE config.precedence[Min(Ranked(config, needed))]

\* resolve_tier_config and the exits of prepare_route that depend on it.
Decide(config, names) ==
  LET tier == TierFor(config, names)
  IN IF names = <<>> THEN "no_pending_tools"
     ELSE IF tier = "premium" THEN "request_premium_guard"
     ELSE IF tier \notin config.served THEN "tier_unavailable"
     ELSE "route"

\* Ordered and without repetitions; one result nobody can name stands for all.
Names(ids, nameOf) ==
  IF \E i \in ToSet(ids) : i \notin DOMAIN nameOf THEN <<Unknown>>
  ELSE FoldLeft(LAMBDA seen, i : IF nameOf[i] \in ToSet(seen) THEN seen
                                 ELSE Append(seen, nameOf[i]), <<>>, ids)
=============================================================================
