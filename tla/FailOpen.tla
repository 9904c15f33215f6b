------------------------------ MODULE FailOpen ------------------------------
(***************************************************************************)
(* What the proxy promises the client of a chat turn, whatever happens on  *)
(* the routing path: a turn is answered once; the cheap tier may answer    *)
(* it only while it is being tried there; a turn the tier does not answer  *)
(* is handed to the client's own upstream and never back; and the proxy    *)
(* speaks in its own name only to refuse a turn it has tried nowhere or to *)
(* report that the upstream could not be used.                             *)
(***************************************************************************)

CONSTANT Requests

VARIABLES
  stage,    \* stage[r]: where the turn is, in the client's eyes
  by        \* by[r]: who answered it

vars == <<stage, by>>

Stages == {"waiting", "trying", "upstream", "answered"}
Speakers == {"nobody", "tier", "upstream", "proxy"}

TypeOK ==
  /\ stage \in [Requests -> Stages]
  /\ by \in [Requests -> Speakers]

Init ==
  /\ stage = [r \in Requests |-> "waiting"]
  /\ by = [r \in Requests |-> "nobody"]

Answer(r, who) ==
  /\ stage' = [stage EXCEPT ![r] = "answered"]
  /\ by' = [by EXCEPT ![r] = who]

\* The proxy refuses the turn before trying anything.
Refuse(r) ==
  /\ stage[r] = "waiting"
  /\ Answer(r, "proxy")

\* The turn is tried on a cheap tier.
Try(r) ==
  /\ stage[r] = "waiting"
  /\ stage' = [stage EXCEPT ![r] = "trying"]
  /\ UNCHANGED by

\* The turn goes to the upstream, tried on a tier before or not.
FallBack(r) ==
  /\ stage[r] \in {"waiting", "trying"}
  /\ stage' = [stage EXCEPT ![r] = "upstream"]
  /\ UNCHANGED by

AnswerByTier(r) ==
  /\ stage[r] = "trying"
  /\ Answer(r, "tier")

AnswerByUpstream(r) ==
  /\ stage[r] = "upstream"
  /\ Answer(r, "upstream")

\* The upstream cannot be used: the proxy says so.
GiveUp(r) ==
  /\ stage[r] = "upstream"
  /\ Answer(r, "proxy")

Next ==
  \E r \in Requests :
    \/ Refuse(r)
    \/ Try(r)
    \/ FallBack(r)
    \/ AnswerByTier(r)
    \/ AnswerByUpstream(r)
    \/ GiveUp(r)

Spec == Init /\ [][Next]_vars
=============================================================================
