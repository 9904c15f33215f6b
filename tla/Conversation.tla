---------------------------- MODULE Conversation ----------------------------
(***************************************************************************)
(* A client, the proxy and whoever answers, over a whole conversation.     *)
(* The client keeps the history, in blocks, and sends it with every turn   *)
(* on its own wire; the proxy decides, converts, repairs and compresses;   *)
(* the reply comes back through the proxy and joins the history, so that   *)
(* what one turn emits is what later turns replay.                         *)
(*                                                                         *)
(* One action is one turn of the handler: what it awaits and how it fails  *)
(* is the subject of Serving, a failure here is a turn that goes upstream. *)
(***************************************************************************)
EXTENDS Tiers, Replies

CONSTANTS
  Calls,          \* ids of the calls that can be made, in the order they are made
  NameOf,         \* the name of the tool of each call
  Freeform,       \* the calls of custom tools, where the format has them
  Configs,        \* the configurations of tools and tiers, and the premium tools
  MaxMessages     \* bound on the history

Entries == [stem : Seq(STRING), glob : BOOLEAN, tier : STRING]

\* No id is given twice; the maps and the precedence are lists.
ASSUME ConversationAssumption ==
  /\ Calls \in Seq(STRING) /\ IsInjective(Calls)
  /\ ToSet(Calls) \subseteq DOMAIN NameOf
  /\ Freeform \subseteq ToSet(Calls)
  /\ DefaultTools \in Seq(Entries)
  /\ \A c \in Configs : c.tools \in Seq(Entries) /\ c.precedence \in Seq(STRING)
  /\ MaxMessages \in Nat

VARIABLES
  wire,     \* the client's wire format
  kind,     \* the kind of every tier
  config,   \* the configuration
  hist,     \* the history, the client's last message or the reply to it last
  turn      \* the turn just answered, until the client speaks again

vars == <<wire, kind, config, hist, turn>>

Wires == {"anthropic", "chat", "responses"}

\* The paths a wire can take (try_native_or_oauth_route, routed_call).
Kinds(w) ==
  {"direct", "litellm"}
  \cup (CASE w = "anthropic" -> {"anthropic_oauth", "oauth_responses"}
          [] w = "chat" -> {"oauth_responses"}
          [] w = "responses" -> {"codex"})

NoTurn == [asked |-> 0, by |-> "nobody"]

Init ==
  /\ wire \in Wires
  /\ kind \in Kinds(wire)
  /\ config \in Configs
  /\ hist = <<>>
  /\ turn = NoTurn

---------------------------------------------------------------------------
(* The client.                                                             *)

CallsOf(messages) == UNION {ToSet(Ids(Uses(messages[i].content))) : i \in DOMAIN messages}
Unused ==
  LET made == CallsOf(hist) IN At(Calls, {i \in DOMAIN Calls : Calls[i] \notin made})

\* A prompt, results of the calls just made, or both; calls may be left open.
ClientSpeaks ==
  /\ Len(hist) < MaxMessages
  /\ hist # <<>> => Last(hist).role = "assistant"
  /\ LET open == IF hist = <<>> THEN <<>> ELSE Ids(Uses(Last(hist).content))
     IN \E answered \in SUBSET ToSet(open), words \in {<<>>, <<Text("words")>>} :
          \E forms \in [answered -> {"long", "rich"}] :
            LET ids == At(open, {i \in DOMAIN open : open[i] \in answered})
                content == [i \in DOMAIN ids |-> Result(ids[i], forms[ids[i]])] \o words
            IN /\ content # <<>>
               /\ hist' = Append(hist, Message("user", content))
  /\ turn' = NoTurn
  /\ UNCHANGED <<wire, kind, config>>

\* A reply with nothing in it leaves the history as it was; the client asks again.
ClientRepeats ==
  /\ turn # NoTurn /\ Last(hist).role = "user"
  /\ turn' = NoTurn
  /\ UNCHANGED <<wire, kind, config, hist>>

\* A Responses client may send only what is new and refer to the rest by id.
Starts ==
  {1} \cup IF wire # "responses" THEN {}
           ELSE {i + 1 : i \in {j \in 1..(Len(hist) - 1) :
                                  /\ hist[j].role = "assistant"
                                  /\ \A k \in (j + 1)..Len(hist) : hist[k].role = "user"}}

---------------------------------------------------------------------------
(* The proxy.                                                              *)

\* The body as it is routed and forwarded, and the tools whose results it brings.
Inbound(w, messages) == Clean(w, Body(w, messages))
Pending(w, body) == Names(PendingIds(w, body), [c \in NamedIds(w, body) |-> NameOf[c]])

\* The format a kind of tier speaks, and the body it is sent.
FormatOf(k) ==
  CASE k \in {"direct", "anthropic_oauth"} -> "anthropic"
    [] k = "litellm" -> "chat"
    [] k \in {"codex", "oauth_responses"} -> "responses"

Routed(w, k, body) ==
  LET canonical == ToAnthropic(w, body)
  IN CASE k \in {"direct", "anthropic_oauth"} -> StripThinking(canonical)
       [] k = "litellm" -> ConvertForLitellm(StripThinking(canonical))
       [] k = "codex" -> body
       [] k = "oauth_responses" -> AnthropicToItems(canonical)

\* A direct tier is never compressed; what a Codex backend would refuse is not sent.
SentToTier(w, k, body, shrinks) ==
  IF k = "direct" THEN Routed(w, k, body) ELSE Compress(FormatOf(k), Routed(w, k, body), shrinks)

Accepts(k, payload) == FormatOf(k) = "responses" => UnpairedCalls(payload) = {}

\* What the proxy has of the provider's answer, and whether that is a reply.
Provided(k, said, ending) ==
  IF FormatOf(k) = "responses" THEN FromStream(CodexStream(said, ending)) ELSE said

Answers(provided) == provided # NoOutput

\* The blocks of a reply, those of the provider and those the client reads.
Received(k, provided) ==
  CASE k \in {"direct", "anthropic_oauth"} -> provided
    [] k = "litellm" -> FromCompletion(provided)
    [] k \in {"codex", "oauth_responses"} -> FromOutput(provided)

Got(w, k, provided, streaming) ==
  IF k = "codex" THEN Passed(streaming, provided)
  ELSE Adapted(w, streaming, Received(k, provided))

\* The guard reads the names as the provider gave them, not their canonical forms.
Guarded(said) == \E c \in ToSet(Ids(Uses(said))) : NameOf[c] \in config.premium

\* Some thinking first or none, a text or none, then calls in their order.
Sayings(thoughts, texts, format) ==
  LET args(c) == IF format = "responses" /\ c \in Freeform THEN "free" ELSE "given"
      calls == {[i \in DOMAIN us |-> Use(us[i], args(us[i]))] :
                us \in {At(Unused, s) : s \in SUBSET DOMAIN Unused}}
      texted == {<<>>} \cup {<<Text(t)>> : t \in texts}
  IN {th \o tx \o us : th \in thoughts, tx \in texted, us \in calls} \ {<<>>}

Thoughts(k) ==
  IF k \in {"anthropic_oauth", "codex", "oauth_responses"} THEN {<<>>, <<Thinking>>} ELSE {<<>>}

\* The upstream thinks on every wire that shows it.
UpstreamThoughts == IF wire = "chat" THEN {<<>>} ELSE {<<Thinking>>}

Endings(k) == IF FormatOf(k) = "responses" THEN {"full", "hollow", "cut"} ELSE {"full"}

Keep(messages, got) ==
  IF got = <<>> THEN messages ELSE Append(messages, Message("assistant", got))

\* The tier serves the turn (prepare_route, then one of the serving paths).
TierServes ==
  /\ turn = NoTurn /\ hist # <<>> /\ Len(hist) < MaxMessages /\ Last(hist).role = "user"
  /\ \E from \in Starts :
       LET body == Inbound(wire, SubSeq(hist, from, Len(hist)))
           names == Pending(wire, body)
       IN /\ Decide(config, names) = "route"
          /\ Accepts(kind, Routed(wire, kind, body))
          /\ \E said \in Sayings(Thoughts(kind), {"words", "blank"}, FormatOf(kind)),
                ending \in Endings(kind) :
               LET provided == Provided(kind, said, ending)
               IN /\ Answers(provided)
                  /\ ~Guarded(said)
                  /\ \E sent \in {SentToTier(wire, kind, body, shrinks) : shrinks \in Shrinks},
                        streaming \in BOOLEAN :
                       LET got == Got(wire, kind, provided, streaming)
                       IN /\ hist' = Keep(hist, got)
                          /\ turn' = [asked |-> Len(hist), by |-> "tier", from |-> from,
                                      tier |-> TierFor(config, names), sent |-> sent,
                                      said |-> said, ending |-> ending,
                                      streamed |-> streaming, got |-> got]
  /\ UNCHANGED <<wire, kind, config>>

\* The upstream serves it: not routed, or the tier declined, failed or was guarded.
UpstreamServes ==
  /\ turn = NoTurn /\ hist # <<>> /\ Len(hist) < MaxMessages /\ Last(hist).role = "user"
  /\ \E from \in Starts :
       LET body == Inbound(wire, SubSeq(hist, from, Len(hist)))
       IN \E sent \in {Compress(wire, body, shrinks) : shrinks \in Shrinks},
             said \in Sayings(UpstreamThoughts, {"words"}, wire) :
            /\ hist' = Keep(hist, said)
            /\ turn' = [asked |-> Len(hist), by |-> "upstream", from |-> from,
                        sent |-> sent, said |-> said, got |-> said]
  /\ UNCHANGED <<wire, kind, config>>

Next == ClientSpeaks \/ ClientRepeats \/ TierServes \/ UpstreamServes

Spec == Init /\ [][Next]_vars

---------------------------------------------------------------------------
(* Properties.                                                             *)

Asked == SubSeq(hist, 1, turn.asked)
Brought == Results(Last(Asked).content)
Format == IF turn.by = "tier" THEN FormatOf(kind) ELSE wire

Block(b) ==
  \/ b = Thinking
  \/ \E t \in {"words", "blank", "empty"} : b = Text(t)
  \/ \E c \in ToSet(Calls), args \in {"given", "none", "free", "void"} : b = Use(c, args)
  \/ \E c \in ToSet(Calls), form \in {"long", "rich"} : b = Result(c, form)

(***************************************************************************)
(* Types.  The history is what a client of the wire can replay: user and   *)
(* assistant messages of known blocks, no call made twice.                 *)
(***************************************************************************)
TypeOK ==
  /\ wire \in Wires /\ kind \in Kinds(wire) /\ config \in Configs
  /\ \A i \in DOMAIN hist :
       /\ hist[i].role \in {"user", "assistant"} /\ hist[i].content # <<>>
       /\ \A j \in DOMAIN hist[i].content : Block(hist[i].content[j])
  /\ Len(hist) <= MaxMessages /\ turn.asked \in 0..Len(hist)
  /\ turn.by \in {"nobody", "tier", "upstream"}

\* The map has an entry for a name: the name itself or a pattern it begins with.
Covers(c, name) ==
  \E e \in ToSet(AgentTools(c)) : IF e.glob THEN IsPrefix(e.stem, name) ELSE e.stem = name

\* The precedence never has a tier without the other before it.
AsDemanding(c, high, low) ==
  \A l \in Ranked(c, {low}) : \E h \in Ranked(c, {high}) : h <= l

(***************************************************************************)
(* A tier serves a turn only if the client's own history proves it cheap:  *)
(* the turn brings results, each answers a call whose tool maps to a tier  *)
(* below premium, and the tier chosen is as demanding as any of those.     *)
(* The proxy decides from the body of one wire, which may refer to earlier *)
(* turns by id; a pattern for everything then covers the placeholder for   *)
(* what cannot be named, and such turns are the exception (tier_for_tools, *)
(* extract_pending_tools of the three adapters).                           *)
(***************************************************************************)
CheapOnlyWhenProved ==
  turn.by = "tier" =>
    /\ Brought # <<>>
    /\ turn.from > 1 => Covers(config, Canonical(config, Unknown))
    /\ turn.from = 1 =>
         \A c \in ToSet(Ids(Brought)) :
           LET own == LookupTool(config, NameOf[c])
           IN own \notin {Unmapped, "premium"} /\ AsDemanding(config, turn.tier, own)

(***************************************************************************)
(* The three parsers agree: a turn that only brings results has the same   *)
(* pending tools on every wire.  (With a text beside the results the       *)
(* Anthropic parser still finds them, the other two do not.)               *)
(***************************************************************************)
PendingAgrees ==
  (hist # <<>> /\ Last(hist).role = "user" /\ Texts(Last(hist).content) = <<>>) =>
    \A w \in Wires : Pending(w, Inbound(w, hist)) = Pending("anthropic", Inbound("anthropic", hist))

\* What compression leaves of a string, or of the texts of a list.
Short == {"crushed", "digest"}

\* The path that drops results which do not follow their call at once.
Sanitized == turn.by = "tier" /\ wire = "responses" /\ kind \in {"direct", "litellm"}

(***************************************************************************)
(* Whoever answers gets each result the turn brings, once and its own: a   *)
(* string as it is or shorter, never shorter for a direct tier.  A list    *)
(* keeps its image at a tier that is sent the client's own blocks, and at  *)
(* the upstream unless compression made something shorter: that sends      *)
(* every list as a text, if the texts of the list got shorter or another   *)
(* result did.  A Chat client's lists are always left alone there.  Beyond *)
(* the first, the results of calls made together are lost on the sanitized *)
(* path, and a client that sends only what is new loses them there too     *)
(* (responses_inbound, conversion, forward_compression).                   *)
(***************************************************************************)
ResultsArrive ==
  turn.by # "nobody" =>
    \A i \in DOMAIN Brought :
      LET r == Brought[i]
          there == {d \in Delivered(Format, turn.sent) : d.id = r.id}
      IN \/ Sanitized /\ (i > 1 \/ turn.from > 1) /\ there = {}
         \/ \E d \in there :
              /\ there = {d}
              /\ r.form = "long" => d.form \in {"long", "crushed"}
              /\ r.form = "rich" => d.form \in {"rich", "texts", "repr", "digest"}
              /\ (turn.by = "tier" /\ kind = "direct") => d.form \notin Short
              /\ (turn.by = "tier" /\ wire = "anthropic" /\ kind = "direct") => d.form = r.form
              /\ (turn.by = "upstream" /\ d.form # r.form) =>
                   \E x \in Delivered(wire, turn.sent) : x.form \in Short
              /\ (turn.by = "upstream" /\ wire = "chat" /\ r.form = "rich") => d.form = "rich"

\* The tool messages that follow message k of a Chat body.
AnswersAfter(body, k) ==
  {body[j].id : j \in {i \in (k + 1)..Len(body) : \A h \in (k + 1)..i : body[h].role = "tool"}}

(***************************************************************************)
(* A provider that is sent a Responses conversation in another format gets *)
(* no call without its result directly behind it and no result without its *)
(* call directly before, however the client was interrupted; a Codex       *)
(* backend gets no call without a result (_sanitize_tool_adjacency,        *)
(* convert_messages_for_litellm, unpaired_function_call_ids).              *)
(***************************************************************************)
PairedForTheTier ==
  (turn.by = "tier" /\ wire = "responses") =>
    CASE kind = "direct" ->
           \A k \in DOMAIN turn.sent :
             LET m == turn.sent[k]
             IN /\ m.role = "assistant" =>
                     ToSet(Ids(Uses(m.content))) = Matched(turn.sent, k)
                /\ Results(m.content) # <<>> =>
                     k > 1 /\ ToSet(Ids(Results(m.content))) \subseteq Matched(turn.sent, k - 1)
      [] kind = "litellm" ->
           \A k \in DOMAIN turn.sent :
             LET m == turn.sent[k]
             IN /\ m.role = "assistant" => ToSet(Ids(m.calls)) = AnswersAfter(turn.sent, k)
                /\ m.role = "tool" =>
                     \E j \in 1..(k - 1) : turn.sent[j].role = "assistant"
                                        /\ m.id \in AnswersAfter(turn.sent, j)
      [] kind = "codex" -> UnpairedCalls(turn.sent) = {}

Visible(b) == b.type = "text" => b.text = "words"

\* The calls a reply tells the client of: of the custom ones a reply that is
\* converted or made a stream has none.
CallsTold ==
  LET calls == Uses(turn.said)
  IN IF kind = "codex" /\ ~turn.streamed THEN calls
     ELSE At(calls, {i \in DOMAIN calls : ~Custom(calls[i])})

(***************************************************************************)
(* The client reads what the tier said: the same calls in the same order,  *)
(* words if there were words, thinking only if there was any, whole or     *)
(* streamed, on any wire.  Custom calls are the exception: they reach the  *)
(* client only in a whole reply of a Codex tier, and in the last event of  *)
(* a stream.  So are the arguments when a Codex stream ends without its    *)
(* output: the reply is then put together from what was announced.  On the *)
(* Anthropic wire, where a blank text would be refused when it is replayed,*)
(* none is emitted but the empty one that the stream made up for the       *)
(* client tells in place of thinking at the front (synthesize_sse and its  *)
(* kin, _response_from_sse, clean_response_content).                       *)
(***************************************************************************)
ReplyArrives ==
  turn.by = "tier" =>
    /\ Ids(Uses(turn.got)) = Ids(CallsTold)
    /\ turn.ending # "hollow" => Uses(turn.got) = CallsTold
    /\ Text("words") \in ToSet(turn.got) <=> Text("words") \in ToSet(turn.said)
    /\ Thinking \in ToSet(turn.got) => Thinking \in ToSet(turn.said)
    /\ wire = "anthropic" =>
         \A j \in DOMAIN turn.got :
           \/ Visible(turn.got[j])
           \/ kind = "anthropic_oauth" /\ turn.streamed /\ j = 1 /\ turn.said[1] = Thinking

Nameless(b) == IF b.type = "tool_result" THEN Result(b.id, "any") ELSE b
Essence(blocks) ==
  LET seen == At(blocks, {i \in DOMAIN blocks : Visible(blocks[i])}) IN [i \in DOMAIN seen |-> Nameless(seen[i])]

(***************************************************************************)
(* What is repaired and compressed on its way to the Anthropic upstream is *)
(* still the conversation: every message with its blocks in their order,   *)
(* up to the form of the results, and no blank text beside anything else,  *)
(* whatever a tier left in the history before                              *)
(* (_repair_inbound_body, compress_forward_body).                          *)
(***************************************************************************)
ForwardIsTheHistory ==
  (turn.by = "upstream" /\ wire = "anthropic") =>
    /\ Len(turn.sent) = turn.asked
    /\ \A k \in DOMAIN turn.sent :
         /\ turn.sent[k].role = hist[k].role
         /\ Essence(turn.sent[k].content) = Essence(hist[k].content)
         /\ \/ \A j \in DOMAIN turn.sent[k].content : Visible(turn.sent[k].content[j])
            \/ \A j \in DOMAIN hist[k].content : ~Visible(hist[k].content[j])

---------------------------------------------------------------------------
(* What the documentation says and the code does not do.                   *)

(***************************************************************************)
(* Every result a self-contained turn brings reaches the tier.  It does    *)
(* not: of calls made together only the first keeps its result when a      *)
(* Responses conversation is converted, because the results arrive as      *)
(* messages of their own (_sanitize_tool_adjacency).                       *)
(***************************************************************************)
OnlyOrphansDropped ==
  (turn.by = "tier" /\ turn.from = 1) =>
    \A c \in ToSet(Ids(Brought)) : \E d \in Delivered(Format, turn.sent) : d.id = c
=============================================================================
