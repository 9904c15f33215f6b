------------------------------- MODULE Serving -------------------------------
(***************************************************************************)
(* One chat turn after another through the proxy: orchestrator.handle, the *)
(* attempt on a cheap tier (route_dispatch.try_route and the engine), the  *)
(* accounting of a routed turn, and the relay to the client's own upstream *)
(* (passthrough.forward).                                                  *)
(*                                                                         *)
(* The server is one asyncio loop: what a handler does between two awaits  *)
(* is one action, except that the hand-over to the upstream is two, for it *)
(* reads the configuration again, which other processes edit at any time.  *)
(* The savings ledger is written by a worker thread, whose steps           *)
(* interleave with everything.  The server builds no order between turns.  *)
(***************************************************************************)
EXTENDS Naturals, Sequences, FiniteSets

CONSTANTS
  Requests,   \* the turns the server receives
  Shapes      \* the turns agents and configuration can pair: the endpoint
              \* called, the kind of tier resolved, its credential's mode

Endpoints == {"messages", "chat", "responses"}
Tiers == {"codex", "anthropic", "deepseek", "other"}
Auths == {"api_key", "oauth"}
AllShapes == [endpoint : Endpoints, tier : Tiers, auth : Auths]

ASSUME RequestsAssumption == IsFiniteSet(Requests)
ASSUME ShapesAssumption == Shapes \subseteq AllShapes

VARIABLES
  pc,         \* pc[r]: the await the turn is at
  path,       \* path[r]: the serving path try_route chose
  auth,       \* auth[r]: the auth mode of the tier's credential
  guard,      \* guard[r]: settings.escalate_on_premium_tools
  reply,      \* reply[r]: what the provider replied
  reason,     \* reason[r]: why the turn went to the upstream
  seen,       \* seen[r]: the upstream the handler read when the turn arrived
  relay,      \* relay[r]: the upstream the body went to, whether compressed,
              \* and whether reading the usage of its answer failed
  conn,       \* conn[r]: the upstream response
  answer,     \* answer[r]: what the client got
  rows,       \* rows[r]: the request rows recorded for the turn
  ledger,     \* ledger[r]: the turn's lines in savings.jsonl
  saved,      \* saved[r]: the turn's additions to the cost totals
  count,      \* the live counters
  upstream    \* the upstream the configuration names now

route == <<path, auth, guard, seen>>
books == <<ledger, saved>>
wire == <<relay, conn>>
vars == <<pc, path, auth, guard, reply, reason, seen, relay, conn, answer,
          rows, ledger, saved, count, upstream>>

-----------------------------------------------------------------------------

Upstreams == {"default", "deepseek"}

CodexPaths == {"codex_direct", "oauth_responses"}
EnginePaths == {"direct", "litellm"}
Paths == {"anthropic_oauth"} \cup CodexPaths \cup EnginePaths

Replies == {"plain", "premium_tool"}

DeclineReasons == {"non_object_body", "no_pending_tools", "request_premium_guard",
                   "tier_unavailable", "routing_error"}
FallbackReasons == {"routing_error", "routed_fallback", "tier_unavailable"}
GuardReasons == {"request_premium_guard", "response_premium_guard"}
Reasons == DeclineReasons \cup FallbackReasons \cup GuardReasons

\* "config_error" is the 500 of a turn whose routes could not be loaded,
\* "server_error" any other.
ProxyAnswers == {"refused", "bad_gateway", "server_error", "config_error"}
Answers == {"none", "tier", "upstream", "truncated"} \cup ProxyAnswers

Counters == {"total", "routed", "passthrough", "error", "escalated", "fallback",
             "routed_model", "premium_usage"}

PremiumRoutes == {"premium_guard", "passthrough"}
Row == [route : Paths \cup PremiumRoutes, keyed : BOOLEAN, status : {"answered", "open", "closed"}]

\* "unknown": the routes naming the upstream could not be loaded again.
Relay == [to : Upstreams \cup {"nowhere", "unknown"}, compressed : BOOLEAN, unread : BOOLEAN]

PCs == {"idle", "calling", "booking", "appended", "booked", "premium", "sending",
        "relaying", "closing", "done"}

TypeOK ==
  /\ pc \in [Requests -> PCs]
  /\ path \in [Requests -> Paths \cup {"none"}]
  /\ auth \in [Requests -> Auths]
  /\ guard \in [Requests -> BOOLEAN]
  /\ reply \in [Requests -> Replies \cup {"none"}]
  /\ reason \in [Requests -> Reasons \cup {"none"}]
  /\ seen \in [Requests -> Upstreams]
  /\ relay \in [Requests -> Relay]
  /\ conn \in [Requests -> {"none", "open", "closed"}]
  /\ answer \in [Requests -> Answers]
  /\ rows \in [Requests -> Seq(Row)]
  /\ ledger \in [Requests -> Nat]
  /\ saved \in [Requests -> Nat]
  /\ count \in [Counters -> Nat]
  /\ upstream \in Upstreams

Init ==
  /\ pc = [r \in Requests |-> "idle"]
  /\ path = [r \in Requests |-> "none"]
  /\ auth = [r \in Requests |-> "api_key"]
  /\ guard = [r \in Requests |-> TRUE]
  /\ reply = [r \in Requests |-> "none"]
  /\ reason = [r \in Requests |-> "none"]
  /\ seen = [r \in Requests |-> "default"]
  /\ relay = [r \in Requests |-> [to |-> "nowhere", compressed |-> FALSE, unread |-> FALSE]]
  /\ conn = [r \in Requests |-> "none"]
  /\ answer = [r \in Requests |-> "none"]
  /\ rows = [r \in Requests |-> << >>]
  /\ ledger = [r \in Requests |-> 0]
  /\ saved = [r \in Requests |-> 0]
  /\ count = [c \in Counters |-> 0]
  /\ upstream \in Upstreams

-----------------------------------------------------------------------------

Goto(r, label) == pc' = [pc EXCEPT ![r] = label]

\* Metrics.incr_*: one lock-protected increment per named counter.
Incr(names) == count' = [c \in Counters |-> IF c \in names THEN count[c] + 1 ELSE count[c]]

\* Mutation: the OAuth Responses path declines a tier it cannot serve, and the
\* turn falls through to the engine.
PathOfFallThrough(shape) ==
  IF shape = [endpoint |-> "messages", tier |-> "anthropic", auth |-> "oauth"]
    THEN "anthropic_oauth"
  ELSE IF shape.endpoint = "responses" /\ shape.tier = "codex" THEN "codex_direct"
  ELSE IF shape.auth = "oauth" /\ shape.tier = "codex" THEN "oauth_responses"
  ELSE IF shape.tier = "deepseek" THEN "direct"
  ELSE "litellm"

\* The first of the serving paths that accepts the turn, in dispatch order.
PathOf(shape) ==
  IF shape = [endpoint |-> "messages", tier |-> "anthropic", auth |-> "oauth"]
    THEN "anthropic_oauth"
  ELSE IF shape.endpoint = "responses" /\ shape.tier = "codex" THEN "codex_direct"
  ELSE IF shape.auth = "oauth" THEN "oauth_responses"
  ELSE IF shape.tier = "deepseek" THEN "direct"
  ELSE "litellm"

\* responses_call gives up before any request: no Codex tier, no ChatGPT
\* headers, or a function call whose output the body does not carry.
Unready(shape, ready) ==
  PathOf(shape) \in CodexPaths /\ (shape.tier # "codex" \/ ~ready)

\* Mutation: only the engine's replies are guarded.
GuardRejectsEngineOnly(p, enabled, got) == got = "premium_tool" /\ p \in EnginePaths /\ enabled

\* The guard on what a routed reply invokes.  The Codex paths pass empty
\* settings, so there the guard cannot be turned off.
GuardRejects(p, enabled, got) == got = "premium_tool" /\ (p \in CodexPaths \/ enabled)

\* Mutation: a guarded reply counts as a fallback too.
PremiumCountersBoth(why) ==
  {"passthrough"} \cup (IF why = "response_premium_guard" THEN {"escalated"} ELSE {})
                  \cup (IF why \in FallbackReasons \cup GuardReasons THEN {"fallback"} ELSE {})

\* The counters a turn handed to the premium path for `why` adds to.
PremiumCounters(why) ==
  {"passthrough"} \cup (IF why = "response_premium_guard" THEN {"escalated"}
                        ELSE IF why \in FallbackReasons THEN {"fallback"} ELSE {})

\* The attempt declined: its reason is counted and the premium path begins.
EnterPremium(r, why, alsoCounted) ==
  /\ reason' = [reason EXCEPT ![r] = why]
  /\ Incr(alsoCounted \cup PremiumCounters(why))
  /\ Goto(r, "premium")

\* Row of a routed turn; the engine gives record_route_outcome no request id.
RoutedRow(p) ==
  [route |-> IF p = "codex_direct" THEN "direct" ELSE p,
   keyed |-> p \notin EnginePaths, status |-> "answered"]

\* Mutation: the row's route is the reason.
PremiumRowByReason(why) == [route |-> why, keyed |-> TRUE, status |-> "open"]

PremiumRow(why) ==
  [route |-> IF why \in GuardReasons THEN "premium_guard" ELSE "passthrough",
   keyed |-> TRUE, status |-> "open"]

\* Mutation: the oldest row with the turn's request id.
CloseRowOldest(log) ==
  LET mine == {i \in DOMAIN log : log[i].keyed}
  IN  [i \in DOMAIN log |->
        IF i \in mine /\ \A j \in mine : i <= j
        THEN [log[i] EXCEPT !.status = "closed"] ELSE log[i]]

\* update_request_usage: the newest row with the turn's request id.
CloseRow(log) ==
  LET mine == {i \in DOMAIN log : log[i].keyed}
  IN  [i \in DOMAIN log |->
        IF i \in mine /\ \A j \in mine : j <= i
        THEN [log[i] EXCEPT !.status = "closed"] ELSE log[i]]

-----------------------------------------------------------------------------
(* Arrival. *)

\* Blank blocks were stripped but the body no longer encodes as UTF-8.
RepairFails(r) ==
  /\ pc[r] = "idle"
  /\ answer' = [answer EXCEPT ![r] = "server_error"]
  /\ Goto(r, "done")
  /\ UNCHANGED <<route, reply, reason, wire, rows, books, count, upstream>>

\* The turn is counted, then loading the routes raises: a provider file that
\* _assemble_routes_fail_open cannot drop.
RoutesFail(r) ==
  /\ pc[r] = "idle"
  /\ Incr({"total"})
  /\ answer' = [answer EXCEPT ![r] = "config_error"]
  /\ Goto(r, "done")
  /\ UNCHANGED <<route, reply, reason, wire, rows, books, upstream>>

\* No agent group: the turn is refused before anything is tried.
Refuse(r) ==
  /\ pc[r] = "idle"
  /\ Incr({"total", "error"})
  /\ answer' = [answer EXCEPT ![r] = "refused"]
  /\ Goto(r, "done")
  /\ UNCHANGED <<route, reply, reason, wire, rows, books, upstream>>

\* prepare_route declines: the turn goes straight to the upstream.
Decline(r, why) ==
  /\ pc[r] = "idle"
  /\ seen' = [seen EXCEPT ![r] = upstream]
  /\ EnterPremium(r, why, {"total"})
  /\ UNCHANGED <<path, auth, guard, reply, wire, answer, rows, books, upstream>>

\* try_route dispatches the turn to a serving path, which sends the provider
\* a request or declines without one.
Dispatch(r, shape, enabled, ready) ==
  /\ pc[r] = "idle"
  /\ path' = [path EXCEPT ![r] = PathOf(shape)]
  /\ auth' = [auth EXCEPT ![r] = shape.auth]
  /\ guard' = [guard EXCEPT ![r] = enabled]
  /\ seen' = [seen EXCEPT ![r] = upstream]
  /\ \/ /\ Unready(shape, ready)
        /\ EnterPremium(r, "routed_fallback", {"total"})
     \/ /\ ~Unready(shape, ready)
        /\ Incr({"total"})
        /\ Goto(r, "calling")
        /\ UNCHANGED reason
  /\ UNCHANGED <<reply, wire, answer, rows, books, upstream>>

-----------------------------------------------------------------------------
(* The attempt on a tier. *)

\* The provider timed out, refused, or sent a body that is not a reply
\* ("routed_fallback"), or handling it raised ("routing_error").
CallFails(r, why) ==
  /\ pc[r] = "calling"
  /\ EnterPremium(r, why, {})
  /\ UNCHANGED <<route, reply, wire, answer, rows, books, upstream>>

\* Mutation: the turn is handed to the premium path and booked as well.
CallRepliesBooksRejected(r, got) ==
  /\ pc[r] = "calling"
  /\ reply' = [reply EXCEPT ![r] = got]
  /\ IF GuardRejects(path[r], guard[r], got)
     THEN /\ reason' = [reason EXCEPT ![r] = "response_premium_guard"]
          /\ Incr(PremiumCounters("response_premium_guard"))
     ELSE UNCHANGED <<reason, count>>
  /\ Goto(r, "booking")
  /\ UNCHANGED <<route, wire, answer, rows, books, upstream>>

\* A reply arrived; the guard discards one that invokes a premium tool.
CallReplies(r, got) ==
  /\ pc[r] = "calling"
  /\ reply' = [reply EXCEPT ![r] = got]
  /\ \/ /\ GuardRejects(path[r], guard[r], got)
        /\ EnterPremium(r, "response_premium_guard", {})
     \/ /\ ~GuardRejects(path[r], guard[r], got)
        /\ Goto(r, "booking")
        /\ UNCHANGED <<reason, count>>
  /\ UNCHANGED <<route, wire, answer, rows, books, upstream>>

\* record_routing_savings, in a worker thread: nothing to price, or the
\* ledger cannot be opened or written.
SkipLedger(r) ==
  /\ pc[r] = "booking"
  /\ Goto(r, "booked")
  /\ UNCHANGED <<route, reply, reason, wire, answer, rows, books, count, upstream>>

AppendLedger(r) ==
  /\ pc[r] = "booking"
  /\ ledger' = [ledger EXCEPT ![r] = @ + 1]
  /\ Goto(r, "appended")
  /\ UNCHANGED <<route, reply, reason, wire, answer, rows, saved, count, upstream>>

AddSavings(r) ==
  /\ pc[r] = "appended"
  /\ saved' = [saved EXCEPT ![r] = @ + 1]
  /\ Goto(r, "booked")
  /\ UNCHANGED <<route, reply, reason, wire, answer, rows, ledger, count, upstream>>

\* Mutation: the failed write is tried again from the start.
ChmodFailsRetried(r) ==
  /\ pc[r] = "appended"
  /\ Goto(r, "booking")
  /\ UNCHANGED <<route, reply, reason, wire, answer, rows, books, count, upstream>>

\* chmod raised after the line was written: the totals are not touched.
ChmodFails(r) ==
  /\ pc[r] = "appended"
  /\ Goto(r, "booked")
  /\ UNCHANGED <<route, reply, reason, wire, answer, rows, books, count, upstream>>

\* Mutation: the handler forgets incr_routed.
ServeRoutedUncounted(r) ==
  /\ pc[r] = "booked"
  /\ rows' = [rows EXCEPT ![r] = Append(@, RoutedRow(path[r]))]
  /\ Incr({"routed_model"})
  /\ answer' = [answer EXCEPT ![r] = "tier"]
  /\ Goto(r, "done")
  /\ UNCHANGED <<route, reply, reason, wire, books, upstream>>

\* Back on the loop: the live counters and the row, then the reply in the
\* client's wire format.
ServeRouted(r) ==
  /\ pc[r] = "booked"
  /\ rows' = [rows EXCEPT ![r] = Append(@, RoutedRow(path[r]))]
  /\ Incr({"routed_model", "routed"})
  /\ answer' = [answer EXCEPT ![r] = "tier"]
  /\ Goto(r, "done")
  /\ UNCHANGED <<route, reply, reason, wire, books, upstream>>

\* Mutation: the exception reaches the server, which answers 500.
ShapeFailsClosed(r) ==
  /\ pc[r] = "booked"
  /\ rows' = [rows EXCEPT ![r] = Append(@, RoutedRow(path[r]))]
  /\ Incr({"routed_model"})
  /\ answer' = [answer EXCEPT ![r] = "server_error"]
  /\ Goto(r, "done")
  /\ UNCHANGED <<route, reply, reason, wire, books, upstream>>

\* The turn is recorded, then shaping its reply raises: fail open.
ShapeFails(r) ==
  /\ pc[r] = "booked"
  /\ rows' = [rows EXCEPT ![r] = Append(@, RoutedRow(path[r]))]
  /\ EnterPremium(r, "routing_error", {"routed_model"})
  /\ UNCHANGED <<route, reply, wire, answer, books, upstream>>

-----------------------------------------------------------------------------
(* The premium path. *)

\* Mutation: the failure is swallowed and nothing is sent.
StripFailsSilently(r) ==
  /\ pc[r] = "premium"
  /\ Goto(r, "done")
  /\ UNCHANGED <<route, reply, reason, wire, answer, rows, books, count, upstream>>

\* The long-context opt-in was stripped but the body no longer encodes.
StripFails(r) ==
  /\ pc[r] = "premium"
  /\ answer' = [answer EXCEPT ![r] = "server_error"]
  /\ Goto(r, "done")
  /\ UNCHANGED <<route, reply, reason, wire, rows, books, count, upstream>>

\* The body is compressed for the upstream read on arrival, the row recorded,
\* and the routes are loaded again for the upstream to send to.
Forward(r) ==
  /\ pc[r] = "premium"
  /\ rows' = [rows EXCEPT ![r] = Append(@, PremiumRow(reason[r]))]
  /\ relay' = [relay EXCEPT ![r].to = upstream, ![r].compressed = seen[r] # "deepseek"]
  /\ Goto(r, "sending")
  /\ UNCHANGED <<route, reply, reason, conn, answer, books, count, upstream>>

\* The row is recorded, but the routes do not load again (or the database
\* cannot encode the row): nothing is sent.
ForwardFails(r) ==
  /\ pc[r] = "premium"
  /\ rows' = [rows EXCEPT ![r] = Append(@, PremiumRow(reason[r]))]
  /\ relay' = [relay EXCEPT ![r].to = "unknown"]
  /\ answer' = [answer EXCEPT ![r] = "server_error"]
  /\ Goto(r, "done")
  /\ UNCHANGED <<route, reply, reason, conn, books, count, upstream>>

\* The upstream is unreachable (502), or its URL is unusable (500).
SendFails(r, outcome) ==
  /\ pc[r] = "sending"
  /\ answer' = [answer EXCEPT ![r] = outcome]
  /\ Goto(r, "done")
  /\ UNCHANGED <<route, reply, reason, wire, rows, books, count, upstream>>

SendOk(r) ==
  /\ pc[r] = "sending"
  /\ conn' = [conn EXCEPT ![r] = "open"]
  /\ answer' = [answer EXCEPT ![r] = "upstream"]
  /\ Goto(r, "relaying")
  /\ UNCHANGED <<route, reply, reason, relay, rows, books, count, upstream>>

\* Every chunk was relayed: the usage callback runs, then the response closes.
RelayCompletes(r, usage) ==
  /\ pc[r] = "relaying"
  /\ Incr(IF usage THEN {"premium_usage"} ELSE {})
  /\ rows' = [rows EXCEPT ![r] = CloseRow(@)]
  /\ Goto(r, "closing")
  /\ UNCHANGED <<route, reply, reason, wire, answer, books, upstream>>

\* Every chunk was relayed, but reading the usage raises and _finish_capture
\* swallows it: the callback does not run and the row stays open.
CaptureFails(r) ==
  /\ pc[r] = "relaying"
  /\ relay' = [relay EXCEPT ![r].unread = TRUE]
  /\ Goto(r, "closing")
  /\ UNCHANGED <<route, reply, reason, conn, answer, rows, books, count, upstream>>

\* Mutation: a broken relay does not close the upstream response.
RelayBreaksUnclosed(r) ==
  /\ pc[r] = "relaying"
  /\ answer' = [answer EXCEPT ![r] = "truncated"]
  /\ Goto(r, "done")
  /\ UNCHANGED <<route, reply, reason, wire, rows, books, count, upstream>>

\* The client went away or the upstream broke off: no callback.
RelayBreaks(r) ==
  /\ pc[r] = "relaying"
  /\ answer' = [answer EXCEPT ![r] = "truncated"]
  /\ Goto(r, "closing")
  /\ UNCHANGED <<route, reply, reason, wire, rows, books, count, upstream>>

CloseUpstream(r) ==
  /\ pc[r] = "closing"
  /\ conn' = [conn EXCEPT ![r] = "closed"]
  /\ Goto(r, "done")
  /\ UNCHANGED <<route, reply, reason, relay, answer, rows, books, count, upstream>>

-----------------------------------------------------------------------------

\* Someone edits the provider file's upstream.
EditUpstream ==
  /\ \E u \in Upstreams : u # upstream /\ upstream' = u
  /\ UNCHANGED <<pc, route, reply, reason, wire, answer, rows, books, count>>

Arrive(r) ==
  \/ RepairFails(r)
  \/ RoutesFail(r)
  \/ Refuse(r)
  \/ \E why \in DeclineReasons : Decline(r, why)
  \/ \E shape \in Shapes, enabled, ready \in BOOLEAN : Dispatch(r, shape, enabled, ready)

Attempt(r) ==
  \/ \E why \in {"routed_fallback", "routing_error"} : CallFails(r, why)
  \/ \E got \in Replies : CallReplies(r, got)
  \/ SkipLedger(r) \/ AppendLedger(r) \/ AddSavings(r) \/ ChmodFails(r)
  \/ ServeRouted(r) \/ ShapeFails(r)

PassThrough(r) ==
  \/ StripFails(r) \/ Forward(r) \/ ForwardFails(r)
  \/ \E outcome \in {"bad_gateway", "server_error"} : SendFails(r, outcome)
  \/ SendOk(r)
  \/ \E usage \in BOOLEAN : RelayCompletes(r, usage)
  \/ CaptureFails(r) \/ RelayBreaks(r) \/ CloseUpstream(r)

Next == EditUpstream \/ \E r \in Requests : Arrive(r) \/ Attempt(r) \/ PassThrough(r)

Spec == Init /\ [][Next]_vars

\* Every await of a turn ends: provider calls and the relay have timeouts, the
\* worker thread and the loop run.  Nothing obliges a client to send a turn.
FairSpec == Spec /\ \A r \in Requests : WF_vars(Attempt(r) \/ PassThrough(r))

-----------------------------------------------------------------------------
(* What must hold. *)

InAttempt == {r \in Requests : pc[r] \in {"calling", "booking", "appended", "booked"}}

\* The counters of turns, and the turns each one counts.
TurnCounters == {"total", "routed", "passthrough", "error", "escalated", "fallback"}

Counts(c, r) ==
  \/ c = "total" /\ (\/ reason[r] # "none"
                     \/ answer[r] \in {"refused", "config_error", "tier"}
                     \/ r \in InAttempt)
  \/ c = "routed" /\ answer[r] = "tier"
  \/ c = "passthrough" /\ reason[r] # "none"
  \/ c = "error" /\ answer[r] = "refused"
  \/ c = "escalated" /\ reason[r] = "response_premium_guard"
  \/ c = "fallback" /\ reason[r] \in FallbackReasons

\* The dashboard's request counters tell what happened to the turns: each is
\* the number of turns it names (orchestrator.handle and
\* _serve_premium_passthrough increment them on separate branches, some after
\* an await).
CountersTellTheTurns ==
  \A c \in TurnCounters : count[c] = Cardinality({r \in Requests : Counts(c, r)})

\* Turns counted on arrival whose routes could not be loaded.
Unrouted == {r \in Requests : answer[r] = "config_error"}

\* Every turn counted on arrival is classified exactly once, except the ones
\* still being tried on a tier and the ones whose routes could not be loaded:
\* Metrics.snapshot's total, a sum of the three classes, never runs ahead of
\* the turns received and misses no others.
EveryTurnClassifiedOnce ==
  count["total"] = count["routed"] + count["passthrough"] + count["error"]
                   + Cardinality(InAttempt) + Cardinality(Unrouted)

\* With the guard enabled, a reply that invokes a premium tool is neither
\* served to the client nor booked as savings, on any serving path.
GuardHonoured ==
  \A r \in Requests :
    guard[r] /\ reply[r] = "premium_tool" => answer[r] # "tier" /\ ledger[r] = 0

\* A turn whose tier has an OAuth credential never reaches the engine, which
\* would send the OAuth sentinel to a provider as its API key.
OauthStaysOutOfEngine ==
  \A r \in Requests : path[r] \in EnginePaths => auth[r] = "api_key"

Premiums(log) == {i \in DOMAIN log : log[i].route \in PremiumRoutes}

\* Once a turn is over, the dashboard's newest row for it names who was asked
\* last: the only row of a turn the tier answered is its routed row, the newest
\* of a turn handed to the upstream is its only premium row, and that row is
\* closed exactly when the client got all of the upstream's answer and its
\* usage could be read (_finish_capture swallows a failure to read it).
RowsTellTheOutcome ==
  \A r \in Requests : pc[r] = "done" =>
    LET log == rows[r]
        closed == {i \in DOMAIN log : log[i].status = "closed"}
    IN  /\ answer[r] = "tier" => log = <<RoutedRow(path[r])>>
        /\ Premiums(log) = IF relay[r].to = "nowhere" THEN {} ELSE {Len(log)}
        /\ answer[r] = "upstream" /\ ~relay[r].unread <=> closed # {}
        /\ closed \subseteq Premiums(log)

\* An upstream response that was opened is open only while the turn relays it
\* or closes it: none is left behind, however the relay ended.
NoResponseLeaks ==
  \A r \in Requests : (conn[r] = "open") <=> (pc[r] \in {"relaying", "closing"})

\* The provider's reply passed the guard.
Accepted(r) == reply[r] # "none" /\ ~GuardRejects(path[r], guard[r], reply[r])

\* A turn is booked at most once, its savings only after its ledger line, and
\* nothing is booked for a turn whose reply the proxy did not accept.
BookedOnce ==
  \A r \in Requests :
    /\ saved[r] <= ledger[r] /\ ledger[r] <= 1
    /\ ledger[r] = 1 => Accepted(r)

\* A turn handed to the premium path is out of the tier's reach: no late step
\* of the attempt books it, answers it or gives it another reason, and the row
\* of a routed reply is never overwritten with the upstream's usage.
PremiumIsFinal ==
  [][\A r \in Requests : reason[r] # "none" =>
       /\ reason'[r] = reason[r]
       /\ UNCHANGED <<ledger[r], saved[r], path[r], reply[r]>>
       /\ answer'[r] # "tier"
       /\ \A i \in DOMAIN rows[r] :
            rows[r][i].route \in Paths => rows'[r][i] = rows[r][i]]_vars

\* What the await a turn is at says of the rest of its state: with TypeOK, the
\* inductive invariant behind GuardHonoured, NoResponseLeaks, BookedOnce and
\* the counters.
Phases ==
  \A r \in Requests :
    /\ pc[r] \in {"idle", "calling"} => reply[r] = "none" /\ ledger[r] = 0
    /\ pc[r] \in {"idle", "calling", "booking", "appended", "booked"} =>
         answer[r] = "none" /\ reason[r] = "none"
    /\ pc[r] \in {"calling", "booking", "appended", "booked"} => path[r] \in Paths
    /\ pc[r] \in {"booking", "appended", "booked"} => Accepted(r)
    /\ pc[r] = "booking" => ledger[r] = 0
    /\ pc[r] = "appended" => ledger[r] = 1 /\ saved[r] = 0
    /\ pc[r] \in {"premium", "sending"} => answer[r] = "none" /\ reason[r] # "none"
    /\ pc[r] \in {"relaying", "closing"} =>
         answer[r] \in {"upstream", "truncated"} /\ reason[r] # "none"
    /\ pc[r] = "done" => answer[r] # "none"
    /\ answer[r] = "tier" => reason[r] = "none" /\ Accepted(r)
    /\ answer[r] \in {"refused", "config_error"} => pc[r] = "done" /\ reason[r] = "none"
    /\ saved[r] <= ledger[r] /\ ledger[r] <= 1
    /\ ledger[r] = 1 => Accepted(r)
    /\ (conn[r] = "open") <=> (pc[r] \in {"relaying", "closing"})

\* The rows an attempt can leave, and whether an answer was relayed and read.
TriedRows(r) == {<< >>} \cup IF path[r] \in Paths THEN {<<RoutedRow(path[r])>>} ELSE {}
AllRelayed(r) == answer[r] = "upstream" /\ pc[r] \in {"closing", "done"} /\ ~relay[r].unread

\* A turn's rows: none while it is tried, its routed row, then its premium row,
\* the newest with its request id, which closes with the relay.  With Phases,
\* the inductive invariant behind RowsTellTheOutcome and PremiumIsFinal.
TurnRows(r) ==
  /\ IF relay[r].to = "nowhere" THEN rows[r] \in TriedRows(r)
     ELSE \E before \in TriedRows(r), row \in Row :
            /\ rows[r] = Append(before, row)
            /\ row.route \in PremiumRoutes /\ row.keyed
            /\ row.status = IF AllRelayed(r) THEN "closed" ELSE "open"
  /\ pc[r] \in {"idle", "calling", "booking", "appended", "booked"} => rows[r] = << >>
  /\ pc[r] \in {"idle", "calling", "booking", "appended", "booked", "premium"} =>
       relay[r].to = "nowhere"
  /\ pc[r] \in {"sending", "relaying", "closing"} => relay[r].to # "nowhere"
  /\ pc[r] = "relaying" => answer[r] = "upstream" /\ ~relay[r].unread
  /\ relay[r].unread => pc[r] \in {"closing", "done"} /\ answer[r] = "upstream"
  /\ answer[r] = "upstream" => relay[r].to # "nowhere" /\ pc[r] \in {"relaying", "closing", "done"}
  /\ answer[r] = "tier" =>
       pc[r] = "done" /\ rows[r] = <<RoutedRow(path[r])>> /\ relay[r].to = "nowhere"

RowsSoFar == \A r \in Requests : TurnRows(r)

\* The turn in the client's eyes, for the promise FailOpen states.
Stage(r) ==
  IF answer[r] # "none" THEN "answered"
  ELSE IF pc[r] \in {"premium", "sending"} THEN "upstream"
  ELSE IF pc[r] = "idle" THEN "waiting" ELSE "trying"

By(r) ==
  IF answer[r] = "none" THEN "nobody"
  ELSE IF answer[r] = "tier" THEN "tier"
  ELSE IF answer[r] \in ProxyAnswers THEN "proxy" ELSE "upstream"

Promise == INSTANCE FailOpen WITH
  stage <- [r \in Requests |-> Stage(r)],
  by <- [r \in Requests |-> By(r)]

\* Any failure on the routing path falls back to passthrough.
FailsOpen == Promise!Spec

\* A turn that arrived is answered, and an opened response is closed.
EveryTurnEnds ==
  \A r \in Requests :
    /\ (pc[r] # "idle") ~> (answer[r] # "none")
    /\ (conn[r] = "open") ~> (conn[r] = "closed")

-----------------------------------------------------------------------------
(* What the documentation says and the code does not do. *)

\* README: "Savings you see are savings that actually happened": a turn the
\* upstream answered to the end is not booked as a saving.
SavingsHappened ==
  \A r \in Requests : pc[r] = "done" /\ answer[r] = "upstream" => ledger[r] = 0

\* config.example.yaml: with escalate_on_premium_tools false, "routed responses
\* are served as-is".
DisabledGuardServes ==
  \A r \in Requests : ~guard[r] => reason[r] # "response_premium_guard"
=============================================================================
