----------------------------- MODULE Accounting -----------------------------
(***************************************************************************)
(* The three books of the proxy, and what a restart makes of them:         *)
(*   - savings.jsonl, one line per priced routed turn (accounting.savings  *)
(*     appends, accounting.ledger reads);                                  *)
(*   - request_events in SQLite, one row per turn (accounting.metrics);    *)
(*   - the live totals and the newest rows in memory, rebuilt from the     *)
(*     other two by Metrics.bootstrap when the server starts.              *)
(*                                                                         *)
(* The server may die between any two steps, a write to the ledger may     *)
(* fail half way, and the database may refuse a read or a write.  SQLite   *)
(* commits are atomic; time never runs backwards between two rows.         *)
(***************************************************************************)
EXTENDS Naturals, Sequences, SequencesExt, FiniteSets

CONSTANTS
  Turns,       \* the turns served
  MaxRecent,   \* rows kept in memory: 100 in the code
  MaxCrashes   \* bound on the number of crashes explored

ASSUME BoundsAssumption == MaxRecent \in Nat \ {0} /\ MaxCrashes \in Nat

VARIABLES
  server,    \* the proxy process
  crashes,   \* how often it died
  boot,      \* what the last bootstrap could read
  failed,    \* some write to the database failed
  stage,     \* stage[t]: how far the turn is
  keyed,     \* keyed[t]: its routed row carries the request id; the engine's does not
  ledger,    \* the lines of savings.jsonl
  history,   \* the rows of request_events, oldest first
  recent,    \* Metrics._last_requests, newest first
  live       \* live[g][t]: what the turn contributes to live total g

process == <<server, crashes, boot>>
vars == <<server, crashes, boot, failed, stage, keyed, ledger, history, recent, live>>

-----------------------------------------------------------------------------

Gauges == {"cost", "routed", "by_model", "premium"}
Zero == [g \in Gauges |-> [t \in Turns |-> 0]]

\* An entry as written: complete, complete with a character at which
\* str.splitlines breaks it, cut inside its JSON, cut inside a character.
Texts == {"whole", "split", "cut", "char"}
Line == [texts : SUBSET [turn : Turns, text : Texts], ended : BOOLEAN]

\* own: the usage the tier reported; upstream: the relayed response's.
Row == [turn : Turns, route : {"routed", "premium"}, keyed : BOOLEAN,
        usage : {"none", "own", "upstream"}, source : {"live", "ledger"}]

Stages == {"new", "booking", "appended", "booked", "premium", "relaying", "over"}

TypeOK ==
  /\ server \in {"down", "up", "failed"}
  /\ crashes \in 0..MaxCrashes
  /\ boot \in {"full", "ledger_unread", "history_unread"}
  /\ failed \in BOOLEAN
  /\ stage \in [Turns -> Stages]
  /\ keyed \in [Turns -> BOOLEAN]
  /\ ledger \in Seq(Line)
  /\ history \in Seq(Row) /\ recent \in Seq(Row)
  /\ Len(recent) <= MaxRecent
  /\ live \in [Gauges -> [Turns -> Nat]]

Init ==
  /\ server = "down" /\ crashes = 0 /\ boot = "full" /\ failed = FALSE
  /\ stage = [t \in Turns |-> "new"]
  /\ keyed = [t \in Turns |-> FALSE]
  /\ ledger = << >> /\ history = << >> /\ recent = << >>
  /\ live = Zero

-----------------------------------------------------------------------------
(* The books. *)

\* Mutation: every entry is written behind the last one.
AppendTextGlued(log, t, text, ended) ==
  IF log # << >>
    THEN Front(log) \o <<[texts |-> Last(log).texts \cup {[turn |-> t, text |-> text]},
                          ended |-> ended]>>
    ELSE Append(log, [texts |-> {[turn |-> t, text |-> text]}, ended |-> ended])

\* Opened for appending: a last line that has no end is written on.
AppendText(log, t, text, ended) ==
  LET entry == [turn |-> t, text |-> text]
  IN  IF log # << >> /\ ~Last(log).ended
        THEN Front(log) \o <<[texts |-> Last(log).texts \cup {entry}, ended |-> ended]>>
        ELSE Append(log, [texts |-> {entry}, ended |-> ended])

\* The turn whose entry load_entries gets from a line, if it parses.
Parsed(line) == {t \in Turns : line.texts = {[turn |-> t, text |-> "whole"]}}

\* read_text decodes the file as a whole: one broken character and it raises.
Undecodable(log) == \E line \in Range(log) : \E e \in line.texts : e.text = "char"

Entries(log, t) == Cardinality({i \in DOMAIN log : t \in Parsed(log[i])})

\* Mutation: the oldest row falls off only when the list is one too long.
NewestOffByOne(rows) == SubSeq(rows, 1, IF Len(rows) <= MaxRecent + 1 THEN Len(rows) ELSE MaxRecent)

Newest(rows) == SubSeq(rows, 1, IF Len(rows) <= MaxRecent THEN Len(rows) ELSE MaxRecent)

\* Mutation: the order of the rows is taken for the order of insertion.
CloseUsageOldest(rows, t, usage, newestFirst) ==
  LET mine == {i \in DOMAIN rows : rows[i].turn = t /\ rows[i].keyed}
      pick == {i \in mine : \A j \in mine : IF newestFirst THEN j <= i ELSE i <= j}
  IN  [i \in DOMAIN rows |-> IF i \in pick THEN [rows[i] EXCEPT !.usage = usage] ELSE rows[i]]

\* update_request_usage: the newest row with the request id, if there is one.
CloseUsage(rows, t, usage, newestFirst) ==
  LET mine == {i \in DOMAIN rows : rows[i].turn = t /\ rows[i].keyed}
      pick == {i \in mine : \A j \in mine : IF newestFirst THEN i <= j ELSE j <= i}
  IN  [i \in DOMAIN rows |-> IF i \in pick THEN [rows[i] EXCEPT !.usage = usage] ELSE rows[i]]

\* Mutation: the usage of every row, whatever its route.
PremiumSumAllRoutes(t) ==
  Cardinality({i \in DOMAIN history : history[i].turn = t /\ history[i].usage # "none"})

\* _load_premium_token_totals: the usage of the premium rows.
PremiumSum(t) ==
  Cardinality({i \in DOMAIN history :
                 /\ history[i].turn = t /\ history[i].route = "premium"
                 /\ history[i].usage # "none"})

LedgerRow(t) ==
  [turn |-> t, route |-> "routed", keyed |-> FALSE, usage |-> "own", source |-> "ledger"]

\* The rows a ledger without history stands for, newest first.
LedgerRows(log) ==
  LET good == {i \in DOMAIN log : Parsed(log[i]) # {}}
      nth(k) == CHOOSE i \in good : Cardinality({j \in good : i <= j}) = k
  IN  [k \in 1..Cardinality(good) |-> LedgerRow(CHOOSE t \in Parsed(log[nth(k)]) : TRUE)]

\* Mutation: the row is put at the wrong end of the list.
RecordLast(row, accepted) ==
  /\ recent' = Newest(Append(recent, row))
  /\ history' = IF accepted THEN Append(history, row) ELSE history
  /\ failed' = (failed \/ ~accepted)

\* record_request: in memory first, then in the database if it accepts it.
Record(row, accepted) ==
  /\ recent' = Newest(<<row>> \o recent)
  /\ history' = IF accepted THEN Append(history, row) ELSE history
  /\ failed' = (failed \/ ~accepted)

Add(amount) == live' = [g \in Gauges |-> [t \in Turns |-> live[g][t] + amount[g][t]]]

\* What turn t adds to the totals `gauges`.
One(t, gauges) ==
  [g \in Gauges |-> [s \in Turns |-> IF s = t /\ g \in gauges THEN 1 ELSE 0]]

-----------------------------------------------------------------------------
(* The life of the server. *)

\* Metrics.bootstrap with a ledger that decodes and can be read.
Start(historyRead) ==
  LET saved == IF historyRead THEN Newest(Reverse(history)) ELSE << >>
  IN  /\ server # "up" /\ ~Undecodable(ledger)
      /\ server' = "up"
      /\ boot' = IF historyRead THEN "full" ELSE "history_unread"
      /\ live' = [g \in Gauges |-> [t \in Turns |->
                   IF g # "premium" THEN Entries(ledger, t)
                   ELSE IF historyRead THEN PremiumSum(t) ELSE 0]]
      /\ recent' = IF saved # << >> THEN saved ELSE Newest(LedgerRows(ledger))
      /\ UNCHANGED <<crashes, failed, stage, keyed, ledger, history>>

\* OSError on the ledger: bootstrap returns with nothing restored.
StartWithoutLedger ==
  /\ server # "up" /\ ledger # << >>
  /\ server' = "up"
  /\ boot' = "ledger_unread"
  /\ UNCHANGED <<crashes, failed, stage, keyed, ledger, history, recent, live>>

\* UnicodeDecodeError is no OSError: it ends the start-up.
StartFails ==
  /\ server # "up" /\ Undecodable(ledger)
  /\ server' = "failed"
  /\ UNCHANGED <<crashes, boot, failed, stage, keyed, ledger, history, recent, live>>

\* The process dies with the memory it held and the turns it was serving.
Crash ==
  /\ server = "up" /\ crashes < MaxCrashes
  /\ server' = "down"
  /\ crashes' = crashes + 1
  /\ stage' = [t \in Turns |-> IF stage[t] = "new" THEN "new" ELSE "over"]
  /\ recent' = << >> /\ live' = Zero
  /\ UNCHANGED <<boot, failed, keyed, ledger, history>>

-----------------------------------------------------------------------------
(* The turns. *)

Move(t, from, to) ==
  /\ server = "up" /\ stage[t] = from
  /\ stage' = [stage EXCEPT ![t] = to]

Route(t, withId) ==
  /\ Move(t, "new", "booking")
  /\ keyed' = [keyed EXCEPT ![t] = withId]
  /\ UNCHANGED <<process, failed, ledger, history, recent, live>>

Decline(t) ==
  /\ Move(t, "new", "premium")
  /\ UNCHANGED <<process, failed, keyed, ledger, history, recent, live>>

\* The models are the same or have no price, or the ledger cannot be opened.
SkipLedger(t) ==
  /\ Move(t, "booking", "booked")
  /\ UNCHANGED <<process, failed, keyed, ledger, history, recent, live>>

AppendLine(t, text) ==
  /\ Move(t, "booking", "appended")
  /\ ledger' = AppendText(ledger, t, text, TRUE)
  /\ UNCHANGED <<process, failed, keyed, history, recent, live>>

\* Mutation: the failed write is taken for a good one.
TearLineBooked(t, text) ==
  /\ Move(t, "booking", "appended")
  /\ ledger' = AppendText(ledger, t, text, FALSE)
  /\ UNCHANGED <<process, failed, keyed, history, recent, live>>

\* The write fails half way: only its start, without an end of line, remains.
TearLine(t, text) ==
  /\ Move(t, "booking", "booked")
  /\ ledger' = AppendText(ledger, t, text, FALSE)
  /\ UNCHANGED <<process, failed, keyed, history, recent, live>>

AddSavings(t) ==
  /\ Move(t, "appended", "booked")
  /\ Add(One(t, {"cost"}))
  /\ UNCHANGED <<process, failed, keyed, ledger, history, recent>>

\* Mutation: the entry is written again.
ChmodFailsRetried(t) ==
  /\ Move(t, "appended", "booking")
  /\ UNCHANGED <<process, failed, keyed, ledger, history, recent, live>>

ChmodFails(t) ==
  /\ Move(t, "appended", "booked")
  /\ UNCHANGED <<process, failed, keyed, ledger, history, recent, live>>

\* record_route_outcome back on the loop; the turn is served, or shaping its
\* reply raises and it goes to the upstream.
RecordRouted(t, accepted, shaped) ==
  /\ Move(t, "booked", IF shaped THEN "over" ELSE "premium")
  /\ Record([turn |-> t, route |-> "routed", keyed |-> keyed[t],
             usage |-> "own", source |-> "live"], accepted)
  /\ Add(One(t, {"by_model"} \cup (IF shaped THEN {"routed"} ELSE {})))
  /\ UNCHANGED <<process, keyed, ledger>>

RecordPremium(t, accepted) ==
  /\ Move(t, "premium", "relaying")
  /\ Record([turn |-> t, route |-> "premium", keyed |-> TRUE,
             usage |-> "none", source |-> "live"], accepted)
  /\ UNCHANGED <<process, keyed, ledger, live>>

\* The relay is over: its usage, if the response told any, is added to the
\* totals and written to the turn's row, in memory and in the database.
RecordUsage(t, told, accepted) ==
  LET usage == IF told THEN "upstream" ELSE "none"
  IN  /\ Move(t, "relaying", "over")
      /\ Add(One(t, IF told THEN {"premium"} ELSE {}))
      /\ recent' = CloseUsage(recent, t, usage, TRUE)
      /\ history' = IF accepted THEN CloseUsage(history, t, usage, FALSE) ELSE history
      /\ failed' = (failed \/ ~accepted)
      /\ UNCHANGED <<process, keyed, ledger>>

\* The upstream could not be reached, or the relay broke off.
EndWithoutUsage(t) ==
  /\ Move(t, "relaying", "over")
  /\ UNCHANGED <<process, failed, keyed, ledger, history, recent, live>>

-----------------------------------------------------------------------------

Process == (\E read \in BOOLEAN : Start(read)) \/ StartWithoutLedger \/ StartFails \/ Crash

Turn(t) ==
  \/ \E withId \in BOOLEAN : Route(t, withId)
  \/ Decline(t) \/ SkipLedger(t)
  \/ \E text \in {"whole", "split"} : AppendLine(t, text)
  \/ \E text \in Texts : TearLine(t, text)
  \/ AddSavings(t) \/ ChmodFails(t)
  \/ \E accepted, shaped \in BOOLEAN : RecordRouted(t, accepted, shaped)
  \/ \E accepted \in BOOLEAN : RecordPremium(t, accepted)
  \/ \E told, accepted \in BOOLEAN : RecordUsage(t, told, accepted)
  \/ EndWithoutUsage(t)

Next == Process \/ \E t \in Turns : Turn(t)

Spec == Init /\ [][Next]_vars

-----------------------------------------------------------------------------
(* What must hold. *)

\* However often the server dies and starts again, a turn is in each total of
\* money and calls at most once: what bootstrap restores and what the process
\* adds to it do not overlap.
CountedOnce ==
  \A t \in Turns, g \in Gauges : live[g][t] <= 1

\* An entry of the turn was written completely.
Backed(t) ==
  \E line \in Range(ledger) : \E e \in line.texts : e.turn = t /\ e.text \in {"whole", "split"}

\* No saved dollar is shown whose entry was not written completely.
CostsBacked ==
  \A t \in Turns : live["cost"][t] > 0 => Backed(t)

\* The premium token totals are those of the persisted rows, across restarts,
\* unless a write to the database failed or the last start could not read a
\* book.
PremiumTotalsMatchHistory ==
  server = "up" /\ boot = "full" /\ ~failed =>
    \A t \in Turns : live["premium"][t] = PremiumSum(t)

\* The rows in memory are the newest persisted ones, usage included, and after
\* the last of them at most rows made from the ledger: eviction, late usage and
\* restarts change both lists alike.
RecentShowsHistory ==
  server = "up" /\ boot = "full" /\ ~failed =>
    \E k \in 0..Len(recent) :
      /\ k <= Len(history)
      /\ \A i \in 1..k : recent[i].source = "live" /\ recent[i] = history[Len(history) - i + 1]
      /\ \A i \in k+1..Len(recent) : recent[i].source = "ledger"
      /\ k = Len(history) \/ Len(recent) = MaxRecent

\* The usage of the upstream's response never overwrites that of the tier's
\* reply to the same turn, whose row carries the same request id.
UsageKeepsItsRow ==
  ~failed => \A row \in Range(recent) \cup Range(history) :
               row.route = "routed" => row.usage = "own"

\* A line that was ended is never written on: what one start read from it
\* every later start reads.
LinesStay ==
  [][\A i \in DOMAIN ledger : ledger[i].ended =>
       i \in DOMAIN ledger' /\ ledger'[i] = ledger[i]]_vars

-----------------------------------------------------------------------------
(* Why it holds. *)

Mentions(t) == {i \in DOMAIN ledger : \E e \in ledger[i].texts : e.turn = t}
PremiumRows(t) == {i \in DOMAIN history : history[i].turn = t /\ history[i].route = "premium"}

\* Only a process has a memory and turns under way.
OnlyWhileUp ==
  server # "up" => /\ live = Zero /\ recent = << >>
                   /\ \A t \in Turns : stage[t] \in {"new", "over"}

\* A turn is written in one line at most, and in none before it is booked.
WrittenOnce ==
  \A t \in Turns :
    /\ \A i, j \in Mentions(t) : i = j
    /\ stage[t] \in {"new", "booking"} => Mentions(t) = {}
    /\ stage[t] = "appended" => Backed(t)

\* A total waits for the step that adds the turn to it.
NotYetCounted ==
  \A t \in Turns :
    /\ stage[t] \in {"new", "booking", "appended"} => live["cost"][t] = 0
    /\ stage[t] \in {"new", "booking", "appended", "booked"} => live["by_model"][t] = 0
    /\ stage[t] # "over" => live["routed"][t] = 0 /\ live["premium"][t] = 0

\* A turn has one premium row at most.  While it is relayed that row is without
\* usage and the newest of the turn, in the database and in memory.
PremiumRowIsNewest ==
  \A t \in Turns :
    /\ \A i, j \in PremiumRows(t) : i = j
    /\ stage[t] \notin {"relaying", "over"} => PremiumRows(t) = {}
    /\ stage[t] = "relaying" =>
         /\ \A i \in PremiumRows(t) : history[i].usage = "none"
         /\ ~failed => \E i \in PremiumRows(t) :
              history[i].keyed /\ \A j \in DOMAIN history : history[j].turn = t => j <= i
         /\ \A j \in DOMAIN recent :
              recent[j].turn = t /\ recent[j].keyed /\ recent[j].route = "routed" =>
                \E i \in 1..j-1 :
                  recent[i].turn = t /\ recent[i].keyed /\ recent[i].route = "premium"

Sources ==
  /\ \A row \in Range(history) : row.source = "live"
  /\ \A row \in Range(recent) : row.source = "ledger" => ~row.keyed

IInv ==
  /\ TypeOK /\ OnlyWhileUp /\ WrittenOnce /\ NotYetCounted /\ PremiumRowIsNewest /\ Sources
  /\ CountedOnce /\ CostsBacked /\ PremiumTotalsMatchHistory
  /\ RecentShowsHistory /\ UsageKeepsItsRow

-----------------------------------------------------------------------------
(* What the documentation says and the code does not do. *)

\* ledger: "corrupt lines are skipped, never fatal".
CorruptLinesNeverFatal == server # "failed"
=============================================================================
