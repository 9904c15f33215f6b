---------------------------- MODULE ServingProofs ----------------------------
(***************************************************************************)
(* Proofs about Serving, for any finite set of turns and any shapes.       *)
(***************************************************************************)
EXTENDS Serving, FiniteSetTheorems, SequenceTheorems, TLAPS

\* The initial state has the variables' types.
LEMMA InitTyped == Init => TypeOK
BY DEF Init, TypeOK, Counters, PCs, Auths, Upstreams, Answers, Relay

\* Incrementing counters leaves them natural numbers.
LEMMA IncrTyped ==
  ASSUME count \in [Counters -> Nat], NEW names, Incr(names)
  PROVE  count' \in [Counters -> Nat]
BY DEF Incr

\* Handing a turn to the premium path keeps the types it touches.
LEMMA PremiumTyped ==
  ASSUME TypeOK, NEW r \in Requests, NEW why \in Reasons, NEW also,
         EnterPremium(r, why, also)
  PROVE  /\ pc' \in [Requests -> PCs]
         /\ reason' \in [Requests -> Reasons \cup {"none"}]
         /\ count' \in [Counters -> Nat]
<1>1. count' \in [Counters -> Nat]
  BY IncrTyped DEF TypeOK, EnterPremium
<1> QED BY <1>1 DEF TypeOK, EnterPremium, Goto, PCs

\* Every turn has a serving path.
LEMMA PathTyped ==
  ASSUME NEW shape \in AllShapes
  PROVE  PathOf(shape) \in Paths /\ shape.auth \in Auths
BY DEF PathOf, Paths, AllShapes, CodexPaths, EnginePaths

\* A turn's rows stay rows when one is appended or closed.
LEMMA RowsTyped ==
  ASSUME NEW log \in Seq(Row), NEW p \in Paths, NEW why \in Reasons
  PROVE  /\ Append(log, RoutedRow(p)) \in Seq(Row)
         /\ Append(log, PremiumRow(why)) \in Seq(Row)
         /\ CloseRow(log) \in Seq(Row)
<1>1. RoutedRow(p) \in Row /\ PremiumRow(why) \in Row
  BY DEF RoutedRow, PremiumRow, Row, PremiumRoutes, Paths, EnginePaths
<1>2. CloseRow(log) \in Seq(Row)
  <2>1. \A x \in Row : [x EXCEPT !.status = "closed"] \in Row
    BY DEF Row
  <2>2. Len(log) \in Nat /\ DOMAIN log = 1..Len(log) /\ \A i \in 1..Len(log) : log[i] \in Row
    OBVIOUS
  <2>3. CloseRow(log) \in [1..Len(log) -> Row]
    BY <2>1, <2>2 DEF CloseRow
  <2> QED BY <2>2, <2>3, SeqDef
<1> QED BY <1>1, <1>2

-----------------------------------------------------------------------------

\* The handler's first step keeps the types.
LEMMA ArriveTyped ==
  ASSUME TypeOK, NEW r \in Requests, Arrive(r)
  PROVE  TypeOK'
<1>1. CASE RepairFails(r)
  BY <1>1 DEF RepairFails, Goto, TypeOK, PCs, Answers, ProxyAnswers, route, wire, books
<1>2. CASE Refuse(r)
  BY <1>2, IncrTyped DEF Refuse, Goto, TypeOK, PCs, Answers, ProxyAnswers, route, wire, books
<1>5. CASE RoutesFail(r)
  BY <1>5, IncrTyped DEF RoutesFail, Goto, TypeOK, PCs, Answers, ProxyAnswers, route, wire, books
<1>3. ASSUME NEW why \in DeclineReasons, Decline(r, why)
      PROVE  TypeOK'
  BY <1>3, PremiumTyped DEF Decline, TypeOK, Reasons, wire, books
<1>4. ASSUME NEW shape \in Shapes, NEW enabled \in BOOLEAN, NEW ready \in BOOLEAN,
             Dispatch(r, shape, enabled, ready)
      PROVE  TypeOK'
  <2>1. PathOf(shape) \in Paths /\ shape.auth \in Auths
    BY PathTyped, ShapesAssumption
  <2>2. /\ pc' \in [Requests -> PCs]
        /\ reason' \in [Requests -> Reasons \cup {"none"}]
        /\ count' \in [Counters -> Nat]
    <3>1. CASE EnterPremium(r, "routed_fallback", {"total"})
      BY <3>1, PremiumTyped DEF Reasons, FallbackReasons
    <3>2. CASE Incr({"total"}) /\ Goto(r, "calling") /\ UNCHANGED reason
      BY <3>2, IncrTyped DEF Goto, TypeOK, PCs
    <3> QED BY <1>4, <3>1, <3>2 DEF Dispatch
  <2> QED BY <1>4, <2>1, <2>2 DEF Dispatch, TypeOK, wire, books
<1> QED BY <1>1, <1>2, <1>3, <1>4, <1>5 DEF Arrive

\* A step of the attempt on a tier keeps the types.
LEMMA AttemptTyped ==
  ASSUME TypeOK, NEW r \in Requests, path[r] \in Paths, Attempt(r)
  PROVE  TypeOK'
<1>1. ASSUME NEW why \in {"routed_fallback", "routing_error"}, CallFails(r, why)
      PROVE  TypeOK'
  BY <1>1, PremiumTyped DEF CallFails, TypeOK, Reasons, FallbackReasons, route, wire, books
<1>2. ASSUME NEW got \in Replies, CallReplies(r, got)
      PROVE  TypeOK'
  <2>1. /\ pc' \in [Requests -> PCs]
        /\ reason' \in [Requests -> Reasons \cup {"none"}]
        /\ count' \in [Counters -> Nat]
    <3>1. CASE EnterPremium(r, "response_premium_guard", {})
      BY <3>1, PremiumTyped DEF Reasons, GuardReasons
    <3>2. CASE Goto(r, "booking") /\ UNCHANGED <<reason, count>>
      BY <3>2 DEF Goto, TypeOK, PCs
    <3> QED BY <1>2, <3>1, <3>2 DEF CallReplies
  <2> QED BY <1>2, <2>1 DEF CallReplies, TypeOK, route, wire, books
<1>3. CASE SkipLedger(r)
  BY <1>3 DEF SkipLedger, Goto, TypeOK, PCs, route, wire, books
<1>6. CASE AppendLedger(r)
  BY <1>6 DEF AppendLedger, Goto, TypeOK, PCs, route, wire, books
<1>7. CASE AddSavings(r)
  BY <1>7 DEF AddSavings, Goto, TypeOK, PCs, route, wire, books
<1>8. CASE ChmodFails(r)
  BY <1>8 DEF ChmodFails, Goto, TypeOK, PCs, route, wire, books
<1>4. CASE ServeRouted(r)
  <2>1. Append(rows[r], RoutedRow(path[r])) \in Seq(Row)
    BY RowsTyped DEF TypeOK, Reasons, GuardReasons
  <2> QED BY <1>4, <2>1, IncrTyped
          DEF ServeRouted, Goto, TypeOK, PCs, Answers, route, wire, books
<1>5. CASE ShapeFails(r)
  <2>1. Append(rows[r], RoutedRow(path[r])) \in Seq(Row)
    BY RowsTyped DEF TypeOK, Reasons, GuardReasons
  <2>2. EnterPremium(r, "routing_error", {"routed_model"}) /\ "routing_error" \in Reasons
    BY <1>5 DEF ShapeFails, Reasons, FallbackReasons
  <2> QED BY <1>5, <2>1, <2>2, PremiumTyped DEF ShapeFails, TypeOK, route, wire, books
<1> QED BY <1>1, <1>2, <1>3, <1>4, <1>5, <1>6, <1>7, <1>8 DEF Attempt

\* A step of the premium path keeps the types.
LEMMA PassThroughTyped ==
  ASSUME TypeOK, NEW r \in Requests, pc[r] = "premium" => reason[r] # "none", PassThrough(r)
  PROVE  TypeOK'
<1>1. CASE StripFails(r)
  BY <1>1 DEF StripFails, Goto, TypeOK, PCs, Answers, ProxyAnswers, route, wire, books
<1>2. CASE Forward(r)
  <2>1. Append(rows[r], PremiumRow(reason[r])) \in Seq(Row)
    BY <1>2, RowsTyped DEF Forward, TypeOK, Paths
  <2>2. [relay[r] EXCEPT !.to = upstream, !.compressed = seen[r] # "deepseek"] \in Relay
    <3>1. (seen[r] # "deepseek") \in BOOLEAN
      OBVIOUS
    <3>2. relay[r] \in Relay /\ upstream \in Upstreams
      BY DEF TypeOK
    <3> DEFINE zip == seen[r] # "deepseek"
    <3> HIDE DEF zip
    <3>3. zip \in BOOLEAN
      BY <3>1 DEF zip
    <3>4. [relay[r] EXCEPT !.to = upstream, !.compressed = zip] \in Relay
      BY <3>2, <3>3 DEF Relay
    <3> QED BY <3>4 DEF zip
  <2>3. relay' \in [Requests -> Relay]
    BY <1>2, <2>2 DEF Forward, TypeOK
  <2> QED BY <1>2, <2>1, <2>3 DEF Forward, Goto, TypeOK, PCs, route, books
<1>6. CASE ForwardFails(r)
  <2>1. Append(rows[r], PremiumRow(reason[r])) \in Seq(Row)
    BY <1>6, RowsTyped DEF ForwardFails, TypeOK, Paths
  <2>2. relay' \in [Requests -> Relay]
    <3>1. relay[r] \in Relay
      BY DEF TypeOK
    <3>2. [relay[r] EXCEPT !.to = "unknown"] \in Relay
      BY <3>1 DEF Relay
    <3> QED BY <1>6, <3>2 DEF ForwardFails, TypeOK
  <2> QED BY <1>6, <2>1, <2>2
          DEF ForwardFails, Goto, TypeOK, PCs, Answers, ProxyAnswers, route, books
<1>7. CASE CaptureFails(r)
  BY <1>7 DEF CaptureFails, Goto, TypeOK, PCs, Relay, route, books
<1>3. ASSUME NEW outcome \in {"bad_gateway", "server_error"}, SendFails(r, outcome)
      PROVE  TypeOK'
  BY <1>3 DEF SendFails, Goto, TypeOK, PCs, Answers, ProxyAnswers, route, wire, books
<1>4. CASE SendOk(r) \/ RelayBreaks(r) \/ CloseUpstream(r)
  <2>1. CASE SendOk(r)
    BY <2>1 DEF SendOk, Goto, TypeOK, PCs, Answers, route, wire, books
  <2>2. CASE RelayBreaks(r)
    BY <2>2 DEF RelayBreaks, Goto, TypeOK, PCs, Answers, route, wire, books
  <2>3. CASE CloseUpstream(r)
    BY <2>3 DEF CloseUpstream, Goto, TypeOK, PCs, route, wire, books
  <2> QED BY <1>4, <2>1, <2>2, <2>3
<1>5. ASSUME NEW usage \in BOOLEAN, RelayCompletes(r, usage)
      PROVE  TypeOK'
  <2>1. CloseRow(rows[r]) \in Seq(Row)
    BY RowsTyped DEF TypeOK, Paths, Reasons, GuardReasons
  <2> QED BY <1>5, <2>1, IncrTyped DEF RelayCompletes, Goto, TypeOK, PCs, route, wire, books
<1> QED BY <1>1, <1>2, <1>3, <1>4, <1>5, <1>6, <1>7 DEF PassThrough

\* Editing the configuration keeps the types.
LEMMA EditTyped == TypeOK /\ EditUpstream => TypeOK'
BY DEF EditUpstream, TypeOK, route, wire, books

-----------------------------------------------------------------------------

\* No turn has left its first await.
LEMMA PhasesInit == Init => Phases
BY DEF Init, Phases

\* The handler's first step keeps what each await says of the turn.
LEMMA ArrivePhases ==
  ASSUME TypeOK, Phases, NEW r \in Requests, Arrive(r)
  PROVE  Phases'
<1>1. CASE RepairFails(r)
  BY <1>1 DEF RepairFails, Goto, TypeOK, Phases, Accepted, route, wire, books
<1>2. CASE Refuse(r)
  BY <1>2 DEF Refuse, Goto, TypeOK, Phases, Accepted, route, wire, books
<1>5. CASE RoutesFail(r)
  BY <1>5 DEF RoutesFail, Goto, TypeOK, Phases, Accepted, route, wire, books
<1>3. ASSUME NEW why \in DeclineReasons, Decline(r, why)
      PROVE  Phases'
  <2>1. why # "none"
    BY DEF DeclineReasons
  <2> QED BY <1>3, <2>1 DEF Decline, EnterPremium, Goto, TypeOK, Phases, Accepted, wire, books
<1>4. ASSUME NEW shape \in Shapes, NEW enabled \in BOOLEAN, NEW ready \in BOOLEAN,
             Dispatch(r, shape, enabled, ready)
      PROVE  Phases'
  <2>1. PathOf(shape) \in Paths
    BY PathTyped, ShapesAssumption
  <2> QED BY <1>4, <2>1 DEF Dispatch, EnterPremium, Goto, TypeOK, Phases, Accepted, wire, books
<1> QED BY <1>1, <1>2, <1>3, <1>4, <1>5 DEF Arrive

\* A step of the attempt keeps what each await says of the turn.
LEMMA AttemptPhases ==
  ASSUME TypeOK, Phases, NEW r \in Requests, Attempt(r)
  PROVE  Phases'
<1>1. ASSUME NEW why \in {"routed_fallback", "routing_error"}, CallFails(r, why)
      PROVE  Phases'
  BY <1>1 DEF CallFails, EnterPremium, Goto, TypeOK, Phases, Accepted, route, wire, books
<1>2. ASSUME NEW got \in Replies, CallReplies(r, got)
      PROVE  Phases'
  <2>1. got # "none"
    BY DEF Replies
  <2>2. CASE GuardRejects(path[r], guard[r], got)
    BY <1>2, <2>1, <2>2
       DEF CallReplies, EnterPremium, Goto, TypeOK, Phases, Accepted, route, wire, books
  <2>3. CASE ~GuardRejects(path[r], guard[r], got)
    BY <1>2, <2>1, <2>3
       DEF CallReplies, EnterPremium, Goto, TypeOK, Phases, Accepted, route, wire, books
  <2> QED BY <2>2, <2>3
<1>3. CASE SkipLedger(r)
  BY <1>3 DEF SkipLedger, Goto, TypeOK, Phases, Accepted, route, wire, books
<1>4. CASE AppendLedger(r)
  BY <1>4 DEF AppendLedger, Goto, TypeOK, Phases, Accepted, route, wire, books
<1>5. CASE AddSavings(r)
  BY <1>5 DEF AddSavings, Goto, TypeOK, Phases, Accepted, route, wire, books
<1>6. CASE ChmodFails(r)
  BY <1>6 DEF ChmodFails, Goto, TypeOK, Phases, Accepted, route, wire, books
<1>7. CASE ServeRouted(r)
  BY <1>7 DEF ServeRouted, Goto, TypeOK, Phases, Accepted, route, wire, books
<1>8. CASE ShapeFails(r)
  BY <1>8 DEF ShapeFails, EnterPremium, Goto, TypeOK, Phases, Accepted, route, wire, books
<1> QED BY <1>1, <1>2, <1>3, <1>4, <1>5, <1>6, <1>7, <1>8 DEF Attempt

\* A step of the premium path keeps what each await says of the turn.
LEMMA PassThroughPhases ==
  ASSUME TypeOK, Phases, NEW r \in Requests, PassThrough(r)
  PROVE  Phases'
<1>1. CASE StripFails(r)
  BY <1>1 DEF StripFails, Goto, TypeOK, Phases, Accepted, route, wire, books
<1>2. CASE Forward(r)
  BY <1>2 DEF Forward, Goto, TypeOK, Phases, Accepted, route, wire, books
<1>3. ASSUME NEW outcome \in {"bad_gateway", "server_error"}, SendFails(r, outcome)
      PROVE  Phases'
  BY <1>3 DEF SendFails, Goto, TypeOK, Phases, Accepted, route, wire, books
<1>4. CASE SendOk(r)
  BY <1>4 DEF SendOk, Goto, TypeOK, Phases, Accepted, route, wire, books
<1>5. ASSUME NEW usage \in BOOLEAN, RelayCompletes(r, usage)
      PROVE  Phases'
  BY <1>5 DEF RelayCompletes, Goto, TypeOK, Phases, Accepted, route, wire, books
<1>6. CASE RelayBreaks(r)
  BY <1>6 DEF RelayBreaks, Goto, TypeOK, Phases, Accepted, route, wire, books
<1>7. CASE CloseUpstream(r)
  BY <1>7 DEF CloseUpstream, Goto, TypeOK, Phases, Accepted, route, wire, books
<1>8. CASE ForwardFails(r)
  BY <1>8 DEF ForwardFails, Goto, TypeOK, Phases, Accepted, route, wire, books
<1>9. CASE CaptureFails(r)
  BY <1>9 DEF CaptureFails, Goto, TypeOK, Phases, Accepted, route, wire, books
<1> QED BY <1>1, <1>2, <1>3, <1>4, <1>5, <1>6, <1>7, <1>8, <1>9 DEF PassThrough

\* Editing the configuration moves no turn.
LEMMA EditPhases == Phases /\ EditUpstream => Phases'
BY DEF EditUpstream, Phases, Accepted, route, wire, books

-----------------------------------------------------------------------------

\* A step of one turn changes the outcome of no other.
LEMMA StepIsLocal ==
  ASSUME NEW r \in Requests, Arrive(r) \/ Attempt(r) \/ PassThrough(r), TypeOK,
         NEW s \in Requests, s # r
  PROVE  pc'[s] = pc[s] /\ reason'[s] = reason[s] /\ answer'[s] = answer[s]
<1>1. CASE Arrive(r)
  <2>1. CASE RepairFails(r) \/ RoutesFail(r) \/ Refuse(r)
    BY <2>1 DEF RepairFails, RoutesFail, Refuse, Goto, TypeOK
  <2>2. ASSUME NEW why \in DeclineReasons, Decline(r, why)
        PROVE  pc'[s] = pc[s] /\ reason'[s] = reason[s] /\ answer'[s] = answer[s]
    BY <2>2 DEF Decline, EnterPremium, Goto, TypeOK
  <2>3. ASSUME NEW shape \in Shapes, NEW enabled \in BOOLEAN, NEW ready \in BOOLEAN,
               Dispatch(r, shape, enabled, ready)
        PROVE  pc'[s] = pc[s] /\ reason'[s] = reason[s] /\ answer'[s] = answer[s]
    BY <2>3 DEF Dispatch, EnterPremium, Goto, TypeOK
  <2> QED BY <1>1, <2>1, <2>2, <2>3 DEF Arrive
<1>2. CASE Attempt(r)
  BY <1>2 DEF Attempt, CallFails, CallReplies, SkipLedger, AppendLedger, AddSavings,
              ChmodFails, ServeRouted, ShapeFails, EnterPremium, Goto, TypeOK
<1>3. CASE PassThrough(r)
  BY <1>3 DEF PassThrough, StripFails, Forward, ForwardFails, SendFails, SendOk,
              RelayCompletes, CaptureFails, RelayBreaks, CloseUpstream, Goto, TypeOK
<1> QED BY <1>1, <1>2, <1>3

\* Counter c rose by one exactly when the step made it count the turn, and the
\* step did not make it stop counting the turn.
Tallied(c, r) ==
  /\ Counts(c, r) => Counts(c, r)'
  /\ count'[c] = IF Counts(c, r)' /\ ~Counts(c, r) THEN count[c] + 1 ELSE count[c]

\* Arrival tallies every counter of turns.
LEMMA ArriveTallied ==
  ASSUME TypeOK, Phases, NEW r \in Requests, Arrive(r), NEW c \in TurnCounters
  PROVE  Tallied(c, r)
<1>1. CASE RepairFails(r)
  BY <1>1 DEF RepairFails, Goto, TypeOK, Phases, Tallied, Counts, TurnCounters, InAttempt
<1>2. CASE Refuse(r)
  BY <1>2 DEF Refuse, Incr, Counters, Goto, TypeOK, Phases, Tallied, Counts, TurnCounters,
              InAttempt
<1>5. CASE RoutesFail(r)
  BY <1>5 DEF RoutesFail, Incr, Counters, Goto, TypeOK, Phases, Tallied, Counts, TurnCounters,
              InAttempt
<1>3. ASSUME NEW why \in DeclineReasons, Decline(r, why)
      PROVE  Tallied(c, r)
  BY <1>3 DEF Decline, DeclineReasons, EnterPremium, PremiumCounters, FallbackReasons, Incr,
              Counters, Goto, TypeOK, Phases, Tallied, Counts, TurnCounters, InAttempt
<1>4. ASSUME NEW shape \in Shapes, NEW enabled \in BOOLEAN, NEW ready \in BOOLEAN,
             Dispatch(r, shape, enabled, ready)
      PROVE  Tallied(c, r)
  BY <1>4 DEF Dispatch, EnterPremium, PremiumCounters, FallbackReasons, Incr,
              Counters, Goto, TypeOK, Phases, Tallied, Counts, TurnCounters, InAttempt
<1> QED BY <1>1, <1>2, <1>3, <1>4, <1>5 DEF Arrive

\* A step of the attempt tallies every counter of turns.
LEMMA AttemptTallied ==
  ASSUME TypeOK, Phases, NEW r \in Requests, Attempt(r), NEW c \in TurnCounters
  PROVE  Tallied(c, r)
<1>1. ASSUME NEW why \in {"routed_fallback", "routing_error"}, CallFails(r, why)
      PROVE  Tallied(c, r)
  BY <1>1 DEF CallFails, EnterPremium, PremiumCounters, FallbackReasons, Incr, Counters,
              Goto, TypeOK, Phases, Tallied, Counts, TurnCounters, InAttempt
<1>2. ASSUME NEW got \in Replies, CallReplies(r, got)
      PROVE  Tallied(c, r)
  BY <1>2 DEF CallReplies, EnterPremium, PremiumCounters, FallbackReasons, Incr, Counters,
              Goto, TypeOK, Phases, Tallied, Counts, TurnCounters, InAttempt
<1>3. CASE SkipLedger(r)
  BY <1>3 DEF SkipLedger,
              Goto, TypeOK, Phases, Tallied, Counts, TurnCounters, InAttempt
<1>4. CASE AppendLedger(r)
  BY <1>4 DEF AppendLedger,
              Goto, TypeOK, Phases, Tallied, Counts, TurnCounters, InAttempt
<1>5. CASE AddSavings(r)
  BY <1>5 DEF AddSavings,
              Goto, TypeOK, Phases, Tallied, Counts, TurnCounters, InAttempt
<1>6. CASE ChmodFails(r)
  BY <1>6 DEF ChmodFails,
              Goto, TypeOK, Phases, Tallied, Counts, TurnCounters, InAttempt
<1>7. CASE ServeRouted(r)
  BY <1>7 DEF ServeRouted, Incr, Counters,
              Goto, TypeOK, Phases, Tallied, Counts, TurnCounters, InAttempt
<1>8. CASE ShapeFails(r)
  BY <1>8 DEF ShapeFails, EnterPremium, PremiumCounters, FallbackReasons, Incr, Counters,
              Goto, TypeOK, Phases, Tallied, Counts, TurnCounters, InAttempt
<1> QED BY <1>1, <1>2, <1>3, <1>4, <1>5, <1>6, <1>7, <1>8 DEF Attempt

\* A step of the premium path tallies every counter of turns.
LEMMA PassThroughTallied ==
  ASSUME TypeOK, Phases, NEW r \in Requests, PassThrough(r), NEW c \in TurnCounters
  PROVE  Tallied(c, r)
<1>1. CASE StripFails(r)
  BY <1>1 DEF StripFails,
              Goto, TypeOK, Phases, Tallied, Counts, TurnCounters, InAttempt
<1>2. CASE Forward(r)
  BY <1>2 DEF Forward,
              Goto, TypeOK, Phases, Tallied, Counts, TurnCounters, InAttempt
<1>3. ASSUME NEW outcome \in {"bad_gateway", "server_error"}, SendFails(r, outcome)
      PROVE  Tallied(c, r)
  BY <1>3 DEF SendFails, Goto, TypeOK, Phases, Tallied, Counts, TurnCounters, InAttempt
<1>4. CASE SendOk(r)
  BY <1>4 DEF SendOk,
              Goto, TypeOK, Phases, Tallied, Counts, TurnCounters, InAttempt
<1>5. ASSUME NEW usage \in BOOLEAN, RelayCompletes(r, usage)
      PROVE  Tallied(c, r)
  BY <1>5 DEF RelayCompletes, Incr, Counters, Goto, TypeOK, Phases, Tallied, Counts, TurnCounters, InAttempt
<1>6. CASE RelayBreaks(r)
  BY <1>6 DEF RelayBreaks,
              Goto, TypeOK, Phases, Tallied, Counts, TurnCounters, InAttempt
<1>7. CASE CloseUpstream(r)
  BY <1>7 DEF CloseUpstream,
              Goto, TypeOK, Phases, Tallied, Counts, TurnCounters, InAttempt
<1>8. CASE ForwardFails(r)
  BY <1>8 DEF ForwardFails,
              Goto, TypeOK, Phases, Tallied, Counts, TurnCounters, InAttempt
<1>9. CASE CaptureFails(r)
  BY <1>9 DEF CaptureFails,
              Goto, TypeOK, Phases, Tallied, Counts, TurnCounters, InAttempt
<1> QED BY <1>1, <1>2, <1>3, <1>4, <1>5, <1>6, <1>7, <1>8, <1>9 DEF PassThrough

\* A counter that is tallied keeps naming a number of turns.
LEMMA TalliedKeepsCount ==
  ASSUME NEW c \in TurnCounters, NEW r \in Requests, Tallied(c, r),
         \A s \in Requests : s # r => (Counts(c, s)' <=> Counts(c, s)),
         count[c] = Cardinality({s \in Requests : Counts(c, s)})
  PROVE  count'[c] = Cardinality({s \in Requests : Counts(c, s)}')
<1> DEFINE Before == {s \in Requests : Counts(c, s)}
           After == {s \in Requests : Counts(c, s)'}
<1>1. IsFiniteSet(Before)
  BY RequestsAssumption, FS_Subset
<1>2. CASE Counts(c, r)' /\ ~Counts(c, r)
  <2>1. After = Before \cup {r} /\ r \notin Before
    BY <1>2
  <2>2. Cardinality(Before \cup {r}) = Cardinality(Before) + 1
    BY <1>1, <2>1, FS_AddElement
  <2> QED BY <1>2, <2>1, <2>2 DEF Tallied
<1>3. CASE ~(Counts(c, r)' /\ ~Counts(c, r))
  <2>1. After = Before
    BY <1>3 DEF Tallied
  <2> QED BY <1>3, <2>1 DEF Tallied
<1> QED BY <1>2, <1>3

-----------------------------------------------------------------------------

\* The inductive invariant holds when the server starts.
LEMMA InvInit == Init => TypeOK /\ Phases /\ CountersTellTheTurns
<1> SUFFICES ASSUME Init PROVE CountersTellTheTurns
  BY InitTyped, PhasesInit
<1>1. \A c \in TurnCounters : {r \in Requests : Counts(c, r)} = {}
  BY DEF Init, Counts, TurnCounters, InAttempt, FallbackReasons
<1> QED BY <1>1, FS_EmptySet DEF CountersTellTheTurns, Init, Counters, TurnCounters

\* Every step keeps the inductive invariant.
LEMMA InvStep ==
  TypeOK /\ Phases /\ CountersTellTheTurns /\ [Next]_vars
    => TypeOK' /\ Phases' /\ CountersTellTheTurns'
<1> SUFFICES ASSUME TypeOK, Phases, CountersTellTheTurns, [Next]_vars
             PROVE  TypeOK' /\ Phases' /\ CountersTellTheTurns'
  OBVIOUS
<1>1. ASSUME NEW r \in Requests, Arrive(r) \/ Attempt(r) \/ PassThrough(r)
      PROVE  TypeOK' /\ Phases' /\ CountersTellTheTurns'
  <2>1. TypeOK'
    <3>1. Attempt(r) => path[r] \in Paths
      BY DEF Attempt, CallFails, CallReplies, SkipLedger, AppendLedger, AddSavings,
             ChmodFails, ServeRouted, ShapeFails, Phases
    <3>2. pc[r] = "premium" => reason[r] # "none"
      BY DEF Phases
    <3> QED BY <1>1, <3>1, <3>2, ArriveTyped, AttemptTyped, PassThroughTyped
  <2>2. Phases'
    BY <1>1, ArrivePhases, AttemptPhases, PassThroughPhases
  <2>3. ASSUME NEW c \in TurnCounters
        PROVE  count'[c] = Cardinality({s \in Requests : Counts(c, s)}')
    <3>1. Tallied(c, r)
      BY <1>1, ArriveTallied, AttemptTallied, PassThroughTallied
    <3>2. ASSUME NEW s \in Requests, s # r
          PROVE  Counts(c, s)' <=> Counts(c, s)
      BY <1>1, <3>2, StepIsLocal DEF Counts, InAttempt
    <3>3. count[c] = Cardinality({s \in Requests : Counts(c, s)})
      BY DEF CountersTellTheTurns
    <3> QED BY <3>1, <3>2, <3>3, TalliedKeepsCount
  <2> QED BY <2>1, <2>2, <2>3 DEF CountersTellTheTurns
<1>2. CASE EditUpstream \/ UNCHANGED vars
  <2>1. UNCHANGED <<pc, reason, answer, count>>
    BY <1>2 DEF EditUpstream, vars
  <2>2. \A c : {s \in Requests : Counts(c, s)}' = {s \in Requests : Counts(c, s)}
    BY <2>1 DEF Counts, InAttempt
  <2>3. CountersTellTheTurns'
    BY <2>1, <2>2 DEF CountersTellTheTurns
  <2>4. TypeOK' /\ Phases'
    <3>1. CASE EditUpstream
      BY <3>1, EditTyped, EditPhases
    <3>2. CASE UNCHANGED vars
      BY <3>2 DEF vars, TypeOK, Phases, Accepted
    <3> QED BY <1>2, <3>1, <3>2
  <2> QED BY <2>3, <2>4
<1> QED BY <1>1, <1>2 DEF Next

\* The inductive invariant: types, what each await says, and the counters.
THEOREM Invariance == Spec => [](TypeOK /\ Phases /\ CountersTellTheTurns)
BY InvInit, InvStep, PTL DEF Spec

-----------------------------------------------------------------------------

\* Every variable keeps its type, for any number of turns of any shapes.
THEOREM TypeCorrect == Spec => []TypeOK
BY Invariance, PTL

\* The dashboard's request counters are the numbers of turns they name.
THEOREM CountersCorrect == Spec => []CountersTellTheTurns
BY Invariance, PTL

\* Sizes of disjoint finite sets add up.
LEMMA DisjointUnion ==
  ASSUME NEW S, NEW T, IsFiniteSet(S), IsFiniteSet(T), S \cap T = {}
  PROVE  IsFiniteSet(S \cup T) /\ Cardinality(S \cup T) = Cardinality(S) + Cardinality(T)
<1>1. Cardinality({}) = 0
  BY FS_EmptySet
<1>2. Cardinality(S) \in Nat /\ Cardinality(T) \in Nat
  BY FS_CardinalityType
<1>3. /\ IsFiniteSet(S \cup T)
      /\ Cardinality(S \cup T) = Cardinality(S) + Cardinality(T) - Cardinality(S \cap T)
  BY FS_Union
<1>4. Cardinality(S \cap T) = 0
  BY <1>1
<1> QED BY <1>2, <1>3, <1>4

\* Every turn received is classified once, or still being tried on a tier, or
\* lost its routes.
THEOREM ClassifiedOnce == Spec => []EveryTurnClassifiedOnce
<1>1. TypeOK /\ Phases /\ CountersTellTheTurns => EveryTurnClassifiedOnce
  <2> SUFFICES ASSUME TypeOK, Phases, CountersTellTheTurns
               PROVE  EveryTurnClassifiedOnce
    OBVIOUS
  <2> DEFINE Set(c) == {r \in Requests : Counts(c, r)}
  <2>1. \A c \in TurnCounters : count[c] = Cardinality(Set(c)) /\ IsFiniteSet(Set(c))
    BY RequestsAssumption, FS_Subset DEF CountersTellTheTurns
  <2>2. IsFiniteSet(InAttempt) /\ IsFiniteSet(Unrouted)
    BY RequestsAssumption, FS_Subset DEF InAttempt, Unrouted
  <2>3. /\ Set("total") = (((Set("routed") \cup Set("passthrough")) \cup Set("error"))
                            \cup InAttempt) \cup Unrouted
        /\ Set("routed") \cap Set("passthrough") = {}
        /\ (Set("routed") \cup Set("passthrough")) \cap Set("error") = {}
        /\ ((Set("routed") \cup Set("passthrough")) \cup Set("error")) \cap InAttempt = {}
        /\ (((Set("routed") \cup Set("passthrough")) \cup Set("error")) \cup InAttempt)
             \cap Unrouted = {}
    BY DEF Counts, InAttempt, Unrouted, Phases
  <2> HIDE DEF Set
  <2>4. /\ IsFiniteSet(Set("routed")) /\ IsFiniteSet(Set("passthrough"))
        /\ IsFiniteSet(Set("error"))
    BY <2>1 DEF TurnCounters
  <2>5. Cardinality(Set("total")) = Cardinality(Set("routed")) + Cardinality(Set("passthrough"))
                                    + Cardinality(Set("error")) + Cardinality(InAttempt)
                                    + Cardinality(Unrouted)
    <3> DEFINE RP == Set("routed") \cup Set("passthrough")
               RPE == RP \cup Set("error")
               RPEA == RPE \cup InAttempt
    <3>1. IsFiniteSet(RP)
          /\ Cardinality(RP) = Cardinality(Set("routed")) + Cardinality(Set("passthrough"))
      BY <2>3, <2>4, DisjointUnion
    <3>2. IsFiniteSet(RPE) /\ Cardinality(RPE) = Cardinality(RP) + Cardinality(Set("error"))
      BY <2>3, <2>4, <3>1, DisjointUnion
    <3>3. IsFiniteSet(RPEA) /\ Cardinality(RPEA) = Cardinality(RPE) + Cardinality(InAttempt)
      BY <2>2, <2>3, <3>2, DisjointUnion
    <3>4. Cardinality(RPEA \cup Unrouted) = Cardinality(RPEA) + Cardinality(Unrouted)
      BY <2>2, <2>3, <3>3, DisjointUnion
    <3> QED BY <2>3, <3>1, <3>2, <3>3, <3>4
  <2> QED BY <2>1, <2>5 DEF EveryTurnClassifiedOnce, TurnCounters
<1> QED BY <1>1, Invariance, PTL

\* With the guard on, no reply that invokes a premium tool is served or booked.
THEOREM GuardIsHonoured == Spec => []GuardHonoured
<1>1. TypeOK /\ Phases => GuardHonoured
  <2> SUFFICES ASSUME TypeOK, Phases, NEW r \in Requests, guard[r], reply[r] = "premium_tool"
               PROVE  answer[r] # "tier" /\ ledger[r] = 0
    BY DEF GuardHonoured
  <2>1. ~Accepted(r)
    BY DEF Accepted, GuardRejects
  <2>2. ledger[r] \in Nat /\ ledger[r] <= 1 /\ ledger[r] # 1
    BY <2>1 DEF Phases, TypeOK
  <2> QED BY <2>1, <2>2 DEF Phases
<1> QED BY <1>1, Invariance, PTL

\* A turn is booked at most once, and only for a reply the guard accepted.
THEOREM BookedAtMostOnce == Spec => []BookedOnce
<1>1. Phases => BookedOnce
  BY DEF Phases, BookedOnce
<1> QED BY <1>1, Invariance, PTL

\* No upstream response outlives the relay of its turn.
THEOREM NoLeak == Spec => []NoResponseLeaks
<1>1. Phases => NoResponseLeaks
  BY DEF Phases, NoResponseLeaks
<1> QED BY <1>1, Invariance, PTL

\* A turn whose tier has an OAuth credential is never handed to the engine.
THEOREM OauthNeverInEngine == Spec => []OauthStaysOutOfEngine
<1>1. Init => OauthStaysOutOfEngine
  BY DEF Init, OauthStaysOutOfEngine, EnginePaths
<1>2. ASSUME TypeOK, OauthStaysOutOfEngine, [Next]_vars
      PROVE  OauthStaysOutOfEngine'
  <2>1. ASSUME NEW r \in Requests, NEW shape \in Shapes, NEW enabled \in BOOLEAN,
               NEW ready \in BOOLEAN, Dispatch(r, shape, enabled, ready)
        PROVE  OauthStaysOutOfEngine'
    <3>1. PathOf(shape) \in EnginePaths => shape.auth = "api_key"
      BY ShapesAssumption DEF PathOf, EnginePaths, AllShapes, Auths
    <3> QED BY <1>2, <2>1, <3>1 DEF Dispatch, OauthStaysOutOfEngine, TypeOK
  <2>2. CASE UNCHANGED <<path, auth>>
    BY <1>2, <2>2 DEF OauthStaysOutOfEngine
  <2> QED BY <1>2, <2>1, <2>2
          DEF Next, Arrive, Attempt, PassThrough, EditUpstream, RepairFails, RoutesFail, Refuse,
              Decline, CallFails, CallReplies, SkipLedger, AppendLedger, AddSavings, ChmodFails,
              ServeRouted, ShapeFails, StripFails, Forward, ForwardFails, SendFails, SendOk,
              RelayCompletes, CaptureFails, RelayBreaks, CloseUpstream, route, vars
<1> QED BY <1>1, <1>2, TypeCorrect, PTL DEF Spec

-----------------------------------------------------------------------------
(* The rows of a turn. *)

\* Closing the newest row with the request id closes the premium row, if it is the
\* last, and no other.
LEMMA CloseNewest ==
  ASSUME NEW before \in Seq(Row), NEW row \in Row, row.keyed
  PROVE  CloseRow(Append(before, row)) = Append(before, [row EXCEPT !.status = "closed"])
<1> DEFINE log == Append(before, row)
           mine == {i \in DOMAIN log : log[i].keyed}
           n == Len(before) + 1
<1>1. /\ log \in Seq(Row) /\ DOMAIN log = 1..n /\ n \in Nat /\ log[n] = row
      /\ \A i \in 1..Len(before) : log[i] = before[i]
  OBVIOUS
<1>2. n \in mine /\ \A i \in mine : i <= n
  BY <1>1
<1>3. CloseRow(log) = [i \in 1..n |->
        IF i \in mine /\ \A j \in mine : j <= i THEN [log[i] EXCEPT !.status = "closed"] ELSE log[i]]
  BY <1>1 DEF CloseRow
<1> HIDE DEF mine, log
<1>4. ASSUME NEW i \in 1..n
      PROVE  (i \in mine /\ \A j \in mine : j <= i) <=> i = n
  BY <1>1, <1>2
<1> DEFINE closed == [row EXCEPT !.status = "closed"]
<1>5. CloseRow(log) = [i \in 1..n |-> IF i = n THEN closed ELSE before[i]]
  BY <1>1, <1>3, <1>4
<1>6. closed \in Row
  BY DEF Row
<1> HIDE DEF closed
<1>7. Append(before, closed) = [i \in 1..n |-> IF i = n THEN closed ELSE before[i]]
  <2>1. /\ Append(before, closed) \in Seq(Row) /\ Len(Append(before, closed)) = n
        /\ \A i \in 1..Len(before) : Append(before, closed)[i] = before[i]
        /\ Append(before, closed)[n] = closed
    BY <1>6, AppendProperties
  <2>2. Append(before, closed) = [i \in 1..n |-> Append(before, closed)[i]]
    <3>1. Append(before, closed) \in [1..n -> Row]
      BY <2>1, LenProperties
    <3> HIDE DEF n
    <3> QED BY <3>1, Zenon
  <2>3. \A i \in 1..n : i # n => i \in 1..Len(before)
    BY <1>1
  <2> QED BY <2>1, <2>2, <2>3
<1> QED BY <1>5, <1>7 DEF log, closed

\* What the rows of a turn depend on.
LEMMA RowsApart ==
  ASSUME NEW r \in Requests, TurnRows(r),
         pc'[r] = pc[r], answer'[r] = answer[r], path'[r] = path[r],
         relay'[r] = relay[r], rows'[r] = rows[r]
  PROVE  TurnRows(r)'
BY DEF TurnRows, TriedRows, AllRelayed

\* A step of one turn touches the rows of no other.
LEMMA RowsAreLocal ==
  ASSUME TypeOK, NEW r \in Requests, Arrive(r) \/ Attempt(r) \/ PassThrough(r),
         NEW s \in Requests, s # r
  PROVE  path'[s] = path[s] /\ relay'[s] = relay[s] /\ rows'[s] = rows[s]
<1>1. CASE Arrive(r)
  BY <1>1 DEF Arrive, RepairFails, RoutesFail, Refuse, Decline, Dispatch, TypeOK, route, wire
<1>2. CASE Attempt(r)
  BY <1>2 DEF Attempt, CallFails, CallReplies, SkipLedger, AppendLedger, AddSavings,
              ChmodFails, ServeRouted, ShapeFails, TypeOK, route, wire
<1>3. CASE PassThrough(r)
  BY <1>3 DEF PassThrough, StripFails, Forward, ForwardFails, SendFails, SendOk,
              RelayCompletes, CaptureFails, RelayBreaks, CloseUpstream, TypeOK, route, wire
<1> QED BY <1>1, <1>2, <1>3

\* The rows an attempt leaves are rows, of the attempt.
LEMMA TriedTyped ==
  ASSUME NEW r \in Requests, NEW before \in TriedRows(r)
  PROVE  /\ before \in Seq(Row)
         /\ \A i \in DOMAIN before : before[i].route \in Paths /\ before[i].status = "answered"
         /\ before = << >> \/ (path[r] \in Paths /\ before = <<RoutedRow(path[r])>>)
<1>1. ASSUME path[r] \in Paths
      PROVE  /\ RoutedRow(path[r]) \in Row /\ RoutedRow(path[r]).route \in Paths
             /\ RoutedRow(path[r]).status = "answered"
  BY <1>1 DEF RoutedRow, Row, PremiumRoutes, Paths, EnginePaths
<1>2. CASE before = << >>
  BY <1>2
<1>3. CASE path[r] \in Paths /\ before = <<RoutedRow(path[r])>>
  BY <1>1, <1>3
<1> QED BY <1>2, <1>3 DEF TriedRows

LEMMA PremiumRowTyped ==
  ASSUME NEW why
  PROVE  /\ PremiumRow(why) \in Row /\ PremiumRow(why).route \in PremiumRoutes
         /\ PremiumRow(why).keyed /\ PremiumRow(why).status = "open"
BY DEF PremiumRow, Row, PremiumRoutes

\* A step of a turn keeps what is known of its rows.
LEMMA TurnRowsKept ==
  ASSUME TypeOK, Phases, NEW r \in Requests, TurnRows(r),
         Arrive(r) \/ Attempt(r) \/ PassThrough(r)
  PROVE  TurnRows(r)'
<1> USE DEF Goto, route, wire
<1>1. CASE RepairFails(r) \/ RoutesFail(r) \/ Refuse(r)
  <2>1. /\ pc[r] = "idle" /\ pc'[r] = "done" /\ answer'[r] \in ProxyAnswers
        /\ UNCHANGED <<relay, rows, path>>
    BY <1>1 DEF RepairFails, RoutesFail, Refuse, TypeOK, ProxyAnswers
  <2> QED BY <2>1 DEF TurnRows, TriedRows, ProxyAnswers
<1>2. ASSUME NEW why \in DeclineReasons, Decline(r, why)
      PROVE  TurnRows(r)'
  BY <1>2 DEF Decline, EnterPremium, TypeOK, Phases, TurnRows, TriedRows
<1>3. ASSUME NEW shape \in Shapes, NEW enabled \in BOOLEAN, NEW ready \in BOOLEAN,
             Dispatch(r, shape, enabled, ready)
      PROVE  TurnRows(r)'
  <2>1. /\ pc[r] = "idle" /\ pc'[r] \in {"calling", "premium"} /\ answer[r] = "none"
        /\ UNCHANGED <<answer, relay, rows>>
    BY <1>3 DEF Dispatch, EnterPremium, TypeOK, Phases
  <2> QED BY <2>1 DEF TurnRows, TriedRows
<1>4. CASE \/ \E why \in {"routed_fallback", "routing_error"} : CallFails(r, why)
           \/ \E got \in Replies : CallReplies(r, got)
           \/ SkipLedger(r) \/ AppendLedger(r) \/ AddSavings(r) \/ ChmodFails(r)
  <2>1. /\ pc[r] \in {"calling", "booking", "appended"} /\ answer[r] = "none"
        /\ pc'[r] \in {"premium", "booking", "appended", "booked"}
        /\ UNCHANGED <<answer, relay, rows, path>>
    BY <1>4 DEF CallFails, CallReplies, SkipLedger, AppendLedger, AddSavings, ChmodFails,
                EnterPremium, TypeOK, Phases
  <2> QED BY <2>1 DEF TurnRows, TriedRows
<1>5. CASE ServeRouted(r) \/ ShapeFails(r)
  <2>1. /\ pc[r] = "booked" /\ rows'[r] = Append(rows[r], RoutedRow(path[r]))
        /\ UNCHANGED <<relay, path>> /\ path[r] \in Paths /\ answer[r] = "none"
        /\ \/ pc'[r] = "done" /\ answer'[r] = "tier"
           \/ pc'[r] = "premium" /\ answer'[r] = "none"
    BY <1>5 DEF ServeRouted, ShapeFails, EnterPremium, TypeOK, Phases
  <2>2. rows'[r] = <<RoutedRow(path[r])>> /\ relay[r].to = "nowhere"
    <3>1. rows[r] = << >> /\ relay[r].to = "nowhere"
      BY <2>1 DEF TurnRows
    <3>2. RoutedRow(path[r]) \in Row
      BY <2>1 DEF RoutedRow, Row, PremiumRoutes, Paths, EnginePaths
    <3>3. << >> \in Seq(Row) /\ Len(<< >>) = 0
      OBVIOUS
    <3>4. Append(<< >>, RoutedRow(path[r])) = <<RoutedRow(path[r])>>
      BY <3>2, <3>3, AppendIsConcat
    <3> QED BY <2>1, <3>1, <3>4
  <2> QED BY <2>1, <2>2 DEF TurnRows, TriedRows
<1>6. CASE StripFails(r)
  BY <1>6 DEF StripFails, TypeOK, Phases, TurnRows, TriedRows
<1>7. CASE Forward(r)
  <2>1. /\ pc[r] = "premium" /\ pc'[r] = "sending" /\ answer[r] = "none" /\ answer' = answer
        /\ rows'[r] = Append(rows[r], PremiumRow(reason[r])) /\ path' = path
        /\ relay'[r].to \in Upstreams /\ relay'[r].unread = relay[r].unread
    BY <1>7 DEF Forward, TypeOK, Relay, Phases
  <2>2. rows[r] \in TriedRows(r) /\ TriedRows(r)' = TriedRows(r) /\ relay'[r].to # "nowhere"
    BY <2>1 DEF TurnRows, TriedRows, Upstreams
  <2>3. ~AllRelayed(r)'
    BY <2>1 DEF AllRelayed
  <2> QED BY <2>1, <2>2, <2>3, PremiumRowTyped DEF TurnRows
<1>13. CASE ForwardFails(r)
  <2>1. /\ pc[r] = "premium" /\ pc'[r] = "done" /\ answer'[r] = "server_error"
        /\ rows'[r] = Append(rows[r], PremiumRow(reason[r])) /\ path' = path
        /\ relay'[r].to = "unknown" /\ relay'[r].unread = relay[r].unread
    BY <1>13 DEF ForwardFails, TypeOK, Relay, Phases
  <2>2. rows[r] \in TriedRows(r) /\ TriedRows(r)' = TriedRows(r)
    BY <2>1 DEF TurnRows, TriedRows
  <2>3. ~AllRelayed(r)' /\ ~relay[r].unread
    BY <2>1 DEF AllRelayed, TurnRows
  <2> QED BY <2>1, <2>2, <2>3, PremiumRowTyped DEF TurnRows
<1>14. CASE CaptureFails(r)
  <2>1. /\ pc[r] = "relaying" /\ pc'[r] = "closing" /\ UNCHANGED <<rows, path, answer>>
        /\ relay'[r].to = relay[r].to /\ relay'[r].unread
    BY <1>14 DEF CaptureFails, TypeOK, Relay
  <2>2. ~AllRelayed(r) /\ ~AllRelayed(r)' /\ answer[r] = "upstream"
    BY <2>1 DEF AllRelayed, TurnRows
  <2> QED BY <2>1, <2>2 DEF TurnRows, TriedRows
<1>8. ASSUME NEW outcome \in {"bad_gateway", "server_error"}, SendFails(r, outcome)
      PROVE  TurnRows(r)'
  <2>1. /\ pc[r] = "sending" /\ pc'[r] = "done" /\ answer[r] = "none" /\ answer'[r] = outcome
        /\ UNCHANGED <<relay, rows, path>>
    BY <1>8 DEF SendFails, TypeOK, Phases
  <2> QED BY <2>1 DEF TurnRows, TriedRows, AllRelayed
<1>9. CASE SendOk(r)
  <2>1. /\ pc[r] = "sending" /\ pc'[r] = "relaying" /\ answer[r] = "none" /\ answer'[r] = "upstream"
        /\ UNCHANGED <<relay, rows, path>>
    BY <1>9 DEF SendOk, TypeOK, Phases
  <2> QED BY <2>1 DEF TurnRows, TriedRows, AllRelayed
<1>10. ASSUME NEW usage \in BOOLEAN, RelayCompletes(r, usage)
       PROVE  TurnRows(r)'
  <2>1. /\ pc[r] = "relaying" /\ pc'[r] = "closing" /\ answer' = answer
        /\ answer[r] \in {"upstream", "truncated"}
        /\ rows'[r] = CloseRow(rows[r]) /\ UNCHANGED <<relay, path>>
    BY <1>10 DEF RelayCompletes, TypeOK, Phases
  <2>2. PICK before \in TriedRows(r), row \in Row :
          /\ rows[r] = Append(before, row)
          /\ row.route \in PremiumRoutes /\ row.keyed
          /\ row.status = IF AllRelayed(r) THEN "closed" ELSE "open"
    BY <2>1 DEF TurnRows
  <2> DEFINE closed == [row EXCEPT !.status = "closed"]
  <2>3. rows'[r] = Append(before, closed)
    BY <2>1, <2>2, CloseNewest, TriedTyped
  <2>4. closed \in Row /\ closed.route = row.route /\ closed.keyed = row.keyed /\ closed.status = "closed"
    BY DEF Row
  <2>5. /\ answer[r] = "upstream" /\ relay[r].to # "nowhere" /\ ~relay[r].unread
        /\ TriedRows(r)' = TriedRows(r)
    BY <2>1 DEF TurnRows, TriedRows
  <2>6. AllRelayed(r)'
    BY <2>1, <2>5 DEF AllRelayed
  <2> HIDE DEF closed
  <2>7. \E b \in TriedRows(r)', x \in Row :
          /\ rows'[r] = Append(b, x)
          /\ x.route \in PremiumRoutes /\ x.keyed /\ x.status = "closed"
    BY <2>2, <2>3, <2>4, <2>5
  <2> QED BY <2>1, <2>5, <2>6, <2>7 DEF TurnRows
<1>11. CASE RelayBreaks(r)
  <2>1. /\ pc[r] = "relaying" /\ pc'[r] = "closing" /\ answer'[r] = "truncated"
        /\ UNCHANGED <<relay, rows, path>>
    BY <1>11 DEF RelayBreaks, TypeOK
  <2> QED BY <2>1 DEF TurnRows, TriedRows, AllRelayed
<1>12. CASE CloseUpstream(r)
  <2>1. /\ pc[r] = "closing" /\ pc'[r] = "done" /\ UNCHANGED <<relay, rows, path, answer>>
        /\ answer[r] \in {"upstream", "truncated"}
    BY <1>12 DEF CloseUpstream, TypeOK, Phases
  <2> QED BY <2>1 DEF TurnRows, TriedRows, AllRelayed
<1> QED
  BY <1>1, <1>2, <1>3, <1>4, <1>5, <1>6, <1>7, <1>8, <1>9, <1>10, <1>11, <1>12, <1>13, <1>14
     DEF Arrive, Attempt, PassThrough

\* A turn's rows, types and awaits, at every step of any turn.
LEMMA RowsInvariance == Spec => [](TypeOK /\ Phases /\ RowsSoFar)
<1>1. Init => RowsSoFar
  BY DEF Init, RowsSoFar, TurnRows, TriedRows
<1>2. TypeOK /\ Phases /\ RowsSoFar /\ [Next]_vars => RowsSoFar'
  <2> SUFFICES ASSUME TypeOK, Phases, RowsSoFar, [Next]_vars, NEW s \in Requests
               PROVE  TurnRows(s)'
    BY DEF RowsSoFar
  <2>1. TurnRows(s)
    BY DEF RowsSoFar
  <2>2. ASSUME NEW r \in Requests, Arrive(r) \/ Attempt(r) \/ PassThrough(r)
        PROVE  TurnRows(s)'
    <3>1. CASE s = r
      BY <2>1, <2>2, <3>1, TurnRowsKept
    <3>2. CASE s # r
      BY <2>1, <2>2, <3>2, StepIsLocal, RowsAreLocal, RowsApart
    <3> QED BY <3>1, <3>2
  <2>3. CASE EditUpstream \/ UNCHANGED vars
    BY <2>1, <2>3, RowsApart DEF EditUpstream, route, wire, vars
  <2> QED BY <2>2, <2>3 DEF Next
<1>3. Spec => [](TypeOK /\ Phases)
  BY Invariance, PTL
<1> QED BY <1>1, <1>2, <1>3, PTL DEF Spec

\* Once a turn is over, the newest of its rows names who was asked last, and it is
\* closed exactly when the client got all of the upstream's answer and its usage
\* could be read.
THEOREM RowsAreTrue == Spec => []RowsTellTheOutcome
<1>1. TypeOK /\ Phases /\ RowsSoFar => RowsTellTheOutcome
  <2> SUFFICES ASSUME TypeOK, Phases, RowsSoFar, NEW r \in Requests, pc[r] = "done"
               PROVE  LET log == rows[r]
                          closed == {i \in DOMAIN log : log[i].status = "closed"}
                      IN  /\ answer[r] = "tier" => log = <<RoutedRow(path[r])>>
                          /\ Premiums(log) = IF relay[r].to = "nowhere" THEN {} ELSE {Len(log)}
                          /\ answer[r] = "upstream" /\ ~relay[r].unread <=> closed # {}
                          /\ closed \subseteq Premiums(log)
    BY DEF RowsTellTheOutcome
  <2> DEFINE log == rows[r]
             closed == {i \in DOMAIN log : log[i].status = "closed"}
  <2>1. TurnRows(r)
    BY DEF RowsSoFar
  <2>2. answer[r] = "tier" => log = <<RoutedRow(path[r])>>
    BY <2>1 DEF TurnRows
  <2>3. CASE relay[r].to = "nowhere"
    <3>1. log \in TriedRows(r) /\ answer[r] # "upstream"
      BY <2>1, <2>3 DEF TurnRows
    <3>2. \A i \in DOMAIN log : log[i].route \in Paths /\ log[i].status = "answered"
      BY <3>1, TriedTyped
    <3>3. closed = {} /\ Premiums(log) = {}
      BY <3>2 DEF Premiums, PremiumRoutes, Paths, CodexPaths, EnginePaths
    <3> QED BY <2>2, <2>3, <3>1, <3>3
  <2>4. CASE relay[r].to # "nowhere"
    <3>1. PICK before \in TriedRows(r), row \in Row :
            /\ log = Append(before, row)
            /\ row.route \in PremiumRoutes /\ row.keyed
            /\ row.status = IF AllRelayed(r) THEN "closed" ELSE "open"
      BY <2>1, <2>4 DEF TurnRows
    <3>2. /\ before \in Seq(Row)
          /\ \A i \in DOMAIN before : before[i].route \in Paths /\ before[i].status = "answered"
      BY TriedTyped
    <3> DEFINE n == Len(before) + 1
    <3>3. /\ DOMAIN log = 1..n /\ Len(log) = n /\ n \in Nat /\ n \in 1..n /\ log[n] = row
          /\ \A i \in 1..n : i # n => i \in DOMAIN before /\ log[i] = before[i]
      BY <3>1, <3>2
    <3>4. Paths \cap PremiumRoutes = {}
      BY DEF PremiumRoutes, Paths, CodexPaths, EnginePaths
    <3>5. AllRelayed(r) <=> answer[r] = "upstream" /\ ~relay[r].unread
      BY DEF AllRelayed
    <3> HIDE DEF log, n
    <3>6. Premiums(log) = {n}
      BY <3>1, <3>2, <3>3, <3>4 DEF Premiums
    <3>7. \A i \in 1..n : log[i].status = "closed" <=> i = n /\ AllRelayed(r)
      BY <3>1, <3>2, <3>3
    <3>8. closed = {i \in 1..n : i = n /\ AllRelayed(r)}
      BY <3>3, <3>7
    <3> QED BY <2>2, <2>4, <3>3, <3>5, <3>6, <3>8 DEF log
  <2> QED BY <2>3, <2>4
<1> QED BY <1>1, RowsInvariance, PTL

\* A turn handed to the premium path is final: no later step books it, answers it
\* from the tier, changes its reason, or overwrites the row of a routed reply.
THEOREM PremiumStays == Spec => PremiumIsFinal
<1> DEFINE Final(r) ==
             reason[r] # "none" =>
               /\ reason'[r] = reason[r]
               /\ UNCHANGED <<ledger[r], saved[r], path[r], reply[r]>>
               /\ answer'[r] # "tier"
               /\ \A i \in DOMAIN rows[r] :
                    rows[r][i].route \in Paths => rows'[r][i] = rows[r][i]
<1>1. ASSUME TypeOK, Phases, RowsSoFar, [Next]_vars, NEW r \in Requests, reason[r] # "none"
      PROVE  /\ reason'[r] = reason[r]
             /\ UNCHANGED <<ledger[r], saved[r], path[r], reply[r]>>
             /\ answer'[r] # "tier"
             /\ \A i \in DOMAIN rows[r] :
                  rows[r][i].route \in Paths => rows'[r][i] = rows[r][i]
  <2>1. /\ pc[r] \in {"premium", "sending", "relaying", "closing", "done"} /\ answer[r] # "tier"
        /\ TurnRows(r) /\ rows[r] \in Seq(Row)
    BY <1>1 DEF Phases, TypeOK, PCs, RowsSoFar
  <2>2. ASSUME NEW s \in Requests, Arrive(s) \/ Attempt(s)
        PROVE  /\ UNCHANGED <<reason[r], ledger[r], saved[r], path[r], reply[r], answer[r], rows[r]>>
    <3>1. pc[s] \in {"idle", "calling", "booking", "appended", "booked"}
      BY <2>2 DEF Arrive, RepairFails, RoutesFail, Refuse, Decline, Dispatch, Attempt, CallFails, CallReplies,
                  SkipLedger, AppendLedger, AddSavings, ChmodFails, ServeRouted, ShapeFails
    <3>2. s # r
      BY <2>1, <3>1
    <3>3. CASE Arrive(s)
      <4>1. CASE RepairFails(s) \/ RoutesFail(s) \/ Refuse(s)
        BY <1>1, <3>2, <4>1 DEF RepairFails, RoutesFail, Refuse, TypeOK, route, books
      <4>2. ASSUME NEW why \in DeclineReasons, Decline(s, why)
            PROVE  UNCHANGED <<reason[r], ledger[r], saved[r], path[r], reply[r], answer[r], rows[r]>>
        BY <1>1, <3>2, <4>2 DEF Decline, EnterPremium, TypeOK, route, books
      <4>3. ASSUME NEW shape \in Shapes, NEW enabled \in BOOLEAN, NEW ready \in BOOLEAN,
                   Dispatch(s, shape, enabled, ready)
            PROVE  UNCHANGED <<reason[r], ledger[r], saved[r], path[r], reply[r], answer[r], rows[r]>>
        BY <1>1, <3>2, <4>3 DEF Dispatch, EnterPremium, TypeOK, route, books
      <4> QED BY <3>3, <4>1, <4>2, <4>3 DEF Arrive
    <3>4. CASE Attempt(s)
      <4>1. CASE \/ \E why \in {"routed_fallback", "routing_error"} : CallFails(s, why)
                 \/ \E got \in Replies : CallReplies(s, got)
        BY <1>1, <3>2, <4>1 DEF CallFails, CallReplies, EnterPremium, TypeOK, route, books
      <4>2. CASE SkipLedger(s) \/ AppendLedger(s) \/ AddSavings(s) \/ ChmodFails(s)
        BY <1>1, <3>2, <4>2
           DEF SkipLedger, AppendLedger, AddSavings, ChmodFails, TypeOK, route, books, wire
      <4>3. CASE ServeRouted(s) \/ ShapeFails(s)
        BY <1>1, <3>2, <4>3 DEF ServeRouted, ShapeFails, EnterPremium, TypeOK, route, books, wire
      <4> QED BY <3>4, <4>1, <4>2, <4>3 DEF Attempt
    <3> QED BY <2>2, <3>3, <3>4
  <2>3. ASSUME NEW s \in Requests, PassThrough(s)
        PROVE  /\ UNCHANGED <<reason[r], ledger[r], saved[r], path[r], reply[r]>>
               /\ answer'[r] # "tier"
               /\ \/ rows'[r] = rows[r] \/ rows'[r] = Append(rows[r], PremiumRow(reason[r]))
                  \/ pc[r] = "relaying" /\ rows'[r] = CloseRow(rows[r])
    <3> DEFINE Goal == /\ UNCHANGED <<reason[r], ledger[r], saved[r], path[r], reply[r]>>
                       /\ answer'[r] # "tier"
                       /\ \/ rows'[r] = rows[r] \/ rows'[r] = Append(rows[r], PremiumRow(reason[r]))
                          \/ pc[r] = "relaying" /\ rows'[r] = CloseRow(rows[r])
    <3>1. CASE StripFails(s) \/ \E outcome \in {"bad_gateway", "server_error"} : SendFails(s, outcome)
      BY <1>1, <2>1, <3>1 DEF StripFails, SendFails, ProxyAnswers, TypeOK, route, books, wire
    <3>2. CASE Forward(s) \/ ForwardFails(s)
      BY <1>1, <2>1, <3>2 DEF Forward, ForwardFails, TypeOK, route, books, wire
    <3>3. CASE SendOk(s) \/ CaptureFails(s) \/ RelayBreaks(s) \/ CloseUpstream(s)
      BY <1>1, <2>1, <3>3 DEF SendOk, CaptureFails, RelayBreaks, CloseUpstream, TypeOK, route, books, wire
    <3>4. ASSUME NEW usage \in BOOLEAN, RelayCompletes(s, usage)
          PROVE  Goal
      BY <1>1, <2>1, <3>4 DEF RelayCompletes, TypeOK, route, books, wire
    <3> QED BY <2>3, <3>1, <3>2, <3>3, <3>4 DEF PassThrough
  <2>4. ASSUME rows'[r] = rows[r] \/ rows'[r] = Append(rows[r], PremiumRow(reason[r]))
        PROVE  \A i \in DOMAIN rows[r] : rows[r][i].route \in Paths => rows'[r][i] = rows[r][i]
    BY <2>1, <2>4, PremiumRowTyped
  <2>5. ASSUME pc[r] = "relaying", rows'[r] = CloseRow(rows[r])
        PROVE  \A i \in DOMAIN rows[r] : rows[r][i].route \in Paths => rows'[r][i] = rows[r][i]
    <3>1. PICK before \in TriedRows(r), row \in Row :
            rows[r] = Append(before, row) /\ row.route \in PremiumRoutes /\ row.keyed
      BY <2>1, <2>5 DEF TurnRows
    <3> DEFINE shut == [row EXCEPT !.status = "closed"]
    <3>2. before \in Seq(Row) /\ rows'[r] = Append(before, shut) /\ shut \in Row
      <4>1. before \in Seq(Row)
        BY TriedTyped
      <4>2. CloseRow(Append(before, row)) = Append(before, shut)
        BY <3>1, <4>1, CloseNewest
      <4>3. shut \in Row
        BY DEF Row
      <4> HIDE DEF shut
      <4> QED BY <2>5, <3>1, <4>1, <4>2, <4>3
    <3>3. row.route \notin Paths
      BY <3>1 DEF PremiumRoutes, Paths, CodexPaths, EnginePaths
    <3> HIDE DEF shut
    <3> QED BY <3>1, <3>2, <3>3
  <2>6. CASE EditUpstream \/ UNCHANGED vars
    BY <2>1, <2>6 DEF EditUpstream, vars, route, books
  <2>7. CASE \E s \in Requests : Arrive(s) \/ Attempt(s)
    BY <2>1, <2>2, <2>7
  <2>8. CASE \E s \in Requests : PassThrough(s)
    BY <2>3, <2>4, <2>5, <2>8
  <2> QED BY <1>1, <2>6, <2>7, <2>8 DEF Next
<1>2. TypeOK /\ Phases /\ RowsSoFar /\ [Next]_vars => [\A r \in Requests : Final(r)]_vars
  BY <1>1
<1> QED BY <1>2, RowsInvariance, PTL DEF Spec, PremiumIsFinal

-----------------------------------------------------------------------------
(* Serving implements FailOpen. *)

\* In FailOpen's terms a turn that does not move stays put.
LEMMA StillSame ==
  ASSUME UNCHANGED <<pc, answer>>
  PROVE  UNCHANGED Promise!vars
BY DEF Promise!vars, Stage, By

\* A step that moves only turn r moves FailOpen's functions at r alone.
LEMMA MappedStep ==
  ASSUME NEW r \in Requests, NEW st, NEW who, Stage(r)' = st, By(r)' = who,
         \A s \in Requests : s # r => pc'[s] = pc[s] /\ answer'[s] = answer[s]
  PROVE  /\ [s \in Requests |-> Stage(s)]' = [[s \in Requests |-> Stage(s)] EXCEPT ![r] = st]
         /\ [s \in Requests |-> By(s)]' = [[s \in Requests |-> By(s)] EXCEPT ![r] = who]
<1>1. \A s \in Requests : s # r => Stage(s)' = Stage(s) /\ By(s)' = By(s)
  BY DEF Stage, By
<1>2. \A s \in Requests : Stage(s)' = IF s = r THEN st ELSE Stage(s)
  BY <1>1
<1>3. \A s \in Requests : By(s)' = IF s = r THEN who ELSE By(s)
  BY <1>1
<1> DEFINE St == [s \in Requests |-> Stage(s)]
           Sp == [s \in Requests |-> By(s)]
<1>4. St' = [St EXCEPT ![r] = st]
  BY <1>2, Zenon
<1>5. Sp' = [Sp EXCEPT ![r] = who]
  BY <1>3, Zenon
<1> QED BY <1>4, <1>5

\* What a turn's stage and speaker are, one await and answer at a time.
LEMMA StageValues ==
  ASSUME NEW r \in Requests
  PROVE  /\ answer[r] # "none" => Stage(r) = "answered"
         /\ answer[r] = "none" =>
              /\ By(r) = "nobody"
              /\ pc[r] \in {"premium", "sending"} => Stage(r) = "upstream"
              /\ pc[r] = "idle" => Stage(r) = "waiting"
              /\ pc[r] \notin {"premium", "sending", "idle"} => Stage(r) = "trying"
         /\ answer[r] = "tier" => By(r) = "tier"
         /\ answer[r] \in {"upstream", "truncated"} => By(r) = "upstream"
         /\ answer[r] \in ProxyAnswers => By(r) = "proxy"
BY DEF Stage, By, ProxyAnswers

\* A step of turn r that leaves its stage and speaker alone is a stutter.
LEMMA Stutters ==
  ASSUME NEW r \in Requests, Stage(r)' = Stage(r), By(r)' = By(r),
         \A s \in Requests : s # r => pc'[s] = pc[s] /\ answer'[s] = answer[s]
  PROVE  UNCHANGED Promise!vars
<1>1. \A s \in Requests : Stage(s)' = Stage(s) /\ By(s)' = By(s)
  BY DEF Stage, By
<1> QED BY <1>1 DEF Promise!vars

\* A step of the handler on arrival refuses, tries or hands over the turn.
LEMMA ArriveMaps ==
  ASSUME TypeOK, Phases, NEW r \in Requests, Arrive(r)
  PROVE  Promise!Next \/ UNCHANGED Promise!vars
<1> DEFINE St == [s \in Requests |-> Stage(s)]
           Sp == [s \in Requests |-> By(s)]
<1>1. \A s \in Requests : s # r => pc'[s] = pc[s] /\ answer'[s] = answer[s]
  BY StepIsLocal
<1>2. pc[r] = "idle" /\ answer[r] = "none" /\ Stage(r) = "waiting" /\ By(r) = "nobody"
  BY StageValues DEF Arrive, RepairFails, RoutesFail, Refuse, Decline, Dispatch, Phases
<1>3. CASE RepairFails(r) \/ RoutesFail(r) \/ Refuse(r)
  <2>1. answer'[r] \in ProxyAnswers /\ answer'[r] # "none"
    BY <1>3 DEF RepairFails, RoutesFail, Refuse, TypeOK, ProxyAnswers
  <2>2. Stage(r)' = "answered" /\ By(r)' = "proxy"
    BY <2>1 DEF Stage, By, ProxyAnswers
  <2>3. St' = [St EXCEPT ![r] = "answered"] /\ Sp' = [Sp EXCEPT ![r] = "proxy"]
    BY <1>1, <2>2, MappedStep
  <2>4. Promise!Refuse(r)
    BY <1>2, <2>3 DEF Promise!Refuse, Promise!Answer
  <2> QED BY <2>4 DEF Promise!Next
<1>4. CASE pc'[r] \in {"premium", "calling"} /\ answer'[r] = "none"
  <2>1. By(r)' = "nobody" /\ Stage(r)' = IF pc'[r] = "premium" THEN "upstream" ELSE "trying"
    BY <1>4 DEF Stage, By
  <2>2. Sp' = Sp
    <3>1. \A s \in Requests : By(s)' = By(s)
      BY <1>1, <1>2, <2>1 DEF By
    <3> QED BY <3>1
  <2>3. CASE pc'[r] = "premium"
    <3>1. St' = [St EXCEPT ![r] = "upstream"]
      BY <1>1, <2>1, <2>3, MappedStep
    <3>2. Promise!FallBack(r)
      BY <1>2, <2>2, <3>1 DEF Promise!FallBack
    <3> QED BY <3>2 DEF Promise!Next
  <2>4. CASE pc'[r] = "calling"
    <3>1. St' = [St EXCEPT ![r] = "trying"]
      BY <1>1, <2>1, <2>4, MappedStep
    <3>2. Promise!Try(r)
      BY <1>2, <2>2, <3>1 DEF Promise!Try
    <3> QED BY <3>2 DEF Promise!Next
  <2> QED BY <1>4, <2>3, <2>4
<1> QED BY <1>2, <1>3, <1>4 DEF Arrive, Decline, Dispatch, EnterPremium, Goto, TypeOK

\* A step of the attempt has the tier answer, hands the turn over, or is
\* nothing the client can tell.
LEMMA AttemptMaps ==
  ASSUME TypeOK, Phases, NEW r \in Requests, Attempt(r)
  PROVE  Promise!Next \/ UNCHANGED Promise!vars
<1> DEFINE St == [s \in Requests |-> Stage(s)]
           Sp == [s \in Requests |-> By(s)]
<1>1. \A s \in Requests : s # r => pc'[s] = pc[s] /\ answer'[s] = answer[s]
  BY StepIsLocal
<1>2. /\ pc[r] \in {"calling", "booking", "appended", "booked"} /\ answer[r] = "none"
      /\ Stage(r) = "trying" /\ By(r) = "nobody"
  BY StageValues DEF Attempt, CallFails, CallReplies, SkipLedger, AppendLedger, AddSavings,
                     ChmodFails, ServeRouted, ShapeFails, Phases
<1>3. CASE ServeRouted(r)
  <2>1. answer'[r] = "tier"
    BY <1>3 DEF ServeRouted, TypeOK
  <2>2. Stage(r)' = "answered" /\ By(r)' = "tier"
    BY <2>1 DEF Stage, By
  <2>3. St' = [St EXCEPT ![r] = "answered"] /\ Sp' = [Sp EXCEPT ![r] = "tier"]
    BY <1>1, <2>2, MappedStep
  <2>4. Promise!AnswerByTier(r)
    BY <1>2, <2>3 DEF Promise!AnswerByTier, Promise!Answer
  <2> QED BY <2>4 DEF Promise!Next
<1>4. CASE pc'[r] = "premium" /\ answer'[r] = "none"
  <2>1. By(r)' = "nobody" /\ Stage(r)' = "upstream"
    BY <1>4 DEF Stage, By
  <2>2. St' = [St EXCEPT ![r] = "upstream"] /\ Sp' = [Sp EXCEPT ![r] = "nobody"]
    BY <1>1, <2>1, MappedStep
  <2>3. Sp' = Sp
    BY <1>2, <2>2
  <2>4. Promise!FallBack(r)
    BY <1>2, <2>2, <2>3 DEF Promise!FallBack
  <2> QED BY <2>4 DEF Promise!Next
<1>5. CASE pc'[r] \in {"booking", "appended", "booked"} /\ answer'[r] = "none"
  <2>1. Stage(r)' = Stage(r) /\ By(r)' = By(r)
    BY <1>2, <1>5 DEF Stage, By
  <2> QED BY <1>1, <2>1, Stutters
<1> QED BY <1>2, <1>3, <1>4, <1>5
        DEF Attempt, CallFails, CallReplies, SkipLedger, AppendLedger, AddSavings,
            ChmodFails, ShapeFails, EnterPremium, Goto, TypeOK

\* A step of the premium path has the upstream answer, gives up, or is
\* nothing the client can tell.
LEMMA PassThroughMaps ==
  ASSUME TypeOK, Phases, NEW r \in Requests, PassThrough(r)
  PROVE  Promise!Next \/ UNCHANGED Promise!vars
<1> DEFINE St == [s \in Requests |-> Stage(s)]
           Sp == [s \in Requests |-> By(s)]
<1>1. \A s \in Requests : s # r => pc'[s] = pc[s] /\ answer'[s] = answer[s]
  BY StepIsLocal
<1>2. pc[r] \in {"premium", "sending"} => Stage(r) = "upstream" /\ By(r) = "nobody"
  BY StageValues DEF Phases
<1>3. CASE pc[r] \in {"premium", "sending"} /\ answer'[r] \in ProxyAnswers
  <2>1. Stage(r)' = "answered" /\ By(r)' = "proxy"
    BY <1>3 DEF Stage, By, ProxyAnswers
  <2>2. St' = [St EXCEPT ![r] = "answered"] /\ Sp' = [Sp EXCEPT ![r] = "proxy"]
    BY <1>1, <2>1, MappedStep
  <2>3. Promise!GiveUp(r)
    BY <1>2, <1>3, <2>2 DEF Promise!GiveUp, Promise!Answer
  <2> QED BY <2>3 DEF Promise!Next
<1>4. CASE SendOk(r)
  <2>1. pc[r] = "sending" /\ answer'[r] = "upstream"
    BY <1>4 DEF SendOk, TypeOK
  <2>2. Stage(r)' = "answered" /\ By(r)' = "upstream"
    BY <2>1 DEF Stage, By, ProxyAnswers
  <2>3. St' = [St EXCEPT ![r] = "answered"] /\ Sp' = [Sp EXCEPT ![r] = "upstream"]
    BY <1>1, <2>2, MappedStep
  <2>4. Promise!AnswerByUpstream(r)
    BY <1>2, <2>1, <2>3 DEF Promise!AnswerByUpstream, Promise!Answer
  <2> QED BY <2>4 DEF Promise!Next
<1>5. CASE Forward(r)
  <2>1. pc[r] = "premium" /\ pc'[r] = "sending" /\ answer'[r] = answer[r]
    BY <1>5 DEF Forward, Goto, TypeOK
  <2>2. Stage(r)' = Stage(r) /\ By(r)' = By(r)
    BY <2>1 DEF Stage, By
  <2> QED BY <1>1, <2>2, Stutters
<1>6. CASE /\ pc[r] \in {"relaying", "closing"}
           /\ answer'[r] \in {answer[r], "truncated"}
  <2>1. answer[r] \in {"upstream", "truncated"}
    BY <1>6 DEF Phases
  <2>2. Stage(r)' = Stage(r) /\ By(r)' = By(r)
    BY <1>6, <2>1 DEF Stage, By, ProxyAnswers
  <2> QED BY <1>1, <2>2, Stutters
<1> QED BY <1>3, <1>4, <1>5, <1>6
        DEF PassThrough, StripFails, ForwardFails, SendFails, RelayCompletes, CaptureFails,
            RelayBreaks, CloseUpstream, ProxyAnswers, TypeOK

\* Any failure on the routing path falls back to passthrough: the handler, with
\* every failure it can meet, implements the promise made to the client.
THEOREM Refinement == Spec => FailsOpen
<1>1. Init => Promise!Init
  BY DEF Init, Promise!Init, Stage, By
<1>2. TypeOK /\ Phases /\ [Next]_vars => [Promise!Next]_(Promise!vars)
  <2> SUFFICES ASSUME TypeOK, Phases, [Next]_vars
               PROVE  Promise!Next \/ UNCHANGED Promise!vars
    OBVIOUS
  <2>1. CASE \E r \in Requests : Arrive(r) \/ Attempt(r) \/ PassThrough(r)
    BY <2>1, ArriveMaps, AttemptMaps, PassThroughMaps
  <2>2. CASE EditUpstream \/ UNCHANGED vars
    <3>1. UNCHANGED <<pc, answer>>
      BY <2>2 DEF EditUpstream, vars
    <3> QED BY <3>1, StillSame
  <2> QED BY <2>1, <2>2 DEF Next
<1>3. Spec => [](TypeOK /\ Phases)
  BY Invariance, PTL
<1> QED BY <1>1, <1>2, <1>3, PTL DEF Spec, FailsOpen, Promise!Spec
=============================================================================
