------------------------------ MODULE Requests ------------------------------
(***************************************************************************)
(* A request on its way to whoever answers it: the three wire formats, the *)
(* conversion to Anthropic messages and from there to the provider, the    *)
(* repair of blank texts, the pairing of calls and results, and the        *)
(* compression of tool results.                                            *)
(*                                                                         *)
(* A text is "words", "blank" (white space) or "empty".  The content of a  *)
(* tool result has a form: "long" (a string), "rich" (a list with texts    *)
(* and an image), and what becomes of those: "crushed" (a string, shorter),*)
(* "texts" (the texts of the list, without the image), "repr" (the list as *)
(* Python prints it) and "digest" (either of these, shorter).  The         *)
(* arguments of a call are "given" or "none"; those of a custom call are   *)
(* "free" (its input, any text) or "void" (the call without its input).    *)
(***************************************************************************)
EXTENDS Naturals, Sequences, SequencesExt, Selection

\* The items of a type.
OfType(items, type) == At(items, {i \in DOMAIN items : items[i].type = type})

---------------------------------------------------------------------------
(* Blocks of an Anthropic message, and the three kinds of message.         *)

Text(t) == [type |-> "text", text |-> t]
Thinking == [type |-> "thinking"]
Use(id, args) == [type |-> "tool_use", id |-> id, args |-> args]
Result(id, form) == [type |-> "tool_result", id |-> id, form |-> form]

Texts(blocks) == OfType(blocks, "text")
Uses(blocks) == OfType(blocks, "tool_use")
Results(blocks) == OfType(blocks, "tool_result")
Others(blocks) == At(blocks, {i \in DOMAIN blocks : blocks[i].type # "tool_result"})
Ids(blocks) == [i \in DOMAIN blocks |-> blocks[i].id]

\* Texts joined by line ends.
Joined(blocks) ==
  LET texts == Texts(blocks)
  IN IF texts = <<>> THEN "empty"
     ELSE IF Len(texts) = 1 THEN texts[1].text
     ELSE IF Text("words") \in ToSet(texts) THEN "words" ELSE "blank"

Message(role, content) == [role |-> role, content |-> content]
ChatMessage(role, text, calls) == [role |-> role, text |-> text, calls |-> calls]
ToolMessage(id, form) == [role |-> "tool", id |-> id, form |-> form]
MessageItem(role, text) == [type |-> "message", role |-> role, text |-> text]
CallItem(id, args) == [type |-> "function_call", id |-> id, args |-> args]
OutputItem(id, form) == [type |-> "function_call_output", id |-> id, form |-> form]
ReasoningItem == [type |-> "reasoning"]

\* The items of a custom call and of its output differ from those of a function
\* call in name only, except where Custom is asked.
Custom(call) == call.args \in {"free", "void"}
IsOutput(item) == item.type = "function_call_output"

---------------------------------------------------------------------------
(* What a client of each wire makes of a conversation it keeps as messages *)
(* with blocks: results come before the text of their message.             *)

ToChat(m) ==
  IF m.role = "assistant" THEN <<ChatMessage("assistant", Joined(m.content), Uses(m.content))>>
  ELSE LET results == Results(m.content)
           texts == Texts(m.content)
       IN [i \in DOMAIN results |-> ToolMessage(results[i].id, results[i].form)]
          \o [i \in DOMAIN texts |-> ChatMessage("user", texts[i].text, <<>>)]

ToResponses(m) ==
  [i \in DOMAIN m.content |->
     LET b == m.content[i]
     IN CASE b.type = "text" -> MessageItem(m.role, b.text)
          [] b.type = "thinking" -> ReasoningItem
          [] b.type = "tool_use" -> CallItem(b.id, b.args)
          [] b.type = "tool_result" -> OutputItem(b.id, b.form)]

Spread(Encode(_), messages) == FlattenSeq([i \in DOMAIN messages |-> Encode(messages[i])])

Body(wire, messages) ==
  CASE wire = "anthropic" -> messages
    [] wire = "chat" -> Spread(ToChat, messages)
    [] wire = "responses" -> Spread(ToResponses, messages)

---------------------------------------------------------------------------
(* The repair of blank texts, inbound (_repair_inbound_body) and of a      *)
(* routed reply (_adapter_response).  A message is never emptied by it.    *)

StripBlank(blocks) ==
  At(blocks, {i \in DOMAIN blocks : blocks[i].type # "text" \/ blocks[i].text = "words"})

CleanMessage(m) ==
  IF StripBlank(m.content) = <<>> THEN m ELSE Message(m.role, StripBlank(m.content))

\* Mutation: only the first message is looked at.
CleanFirst(wire, body) ==
  IF wire = "anthropic" THEN [body EXCEPT ![1] = CleanMessage(@)] ELSE body

\* The texts of the other wires are strings, which the repair leaves alone.
Clean(wire, body) ==
  IF wire = "anthropic" THEN [i \in DOMAIN body |-> CleanMessage(body[i])] ELSE body

---------------------------------------------------------------------------
(* The calls whose results a request brings, and the names they have.      *)

\* The places of the tool outputs in a Chat or a Responses body.
Outputs(wire, body) ==
  {i \in DOMAIN body : IF wire = "chat" THEN body[i].role = "tool" ELSE IsOutput(body[i])}

\* Where the final run of tool outputs starts.
RunStart(wire, body) ==
  CHOOSE i \in 1..(Len(body) + 1) :
    i..Len(body) \subseteq Outputs(wire, body) /\ i - 1 \notin Outputs(wire, body)

\* Mutation: a Chat body is searched for results from its start.
PendingIdsAll(wire, body) ==
  IF wire = "chat" THEN Ids(At(body, {i \in DOMAIN body : body[i].role = "tool"}))
  ELSE IF wire = "responses" THEN Ids(SubSeq(body, RunStart(wire, body), Len(body)))
  ELSE IF Last(body).role = "user" THEN Ids(Results(Last(body).content)) ELSE <<>>

PendingIds(wire, body) ==
  IF wire # "anthropic" THEN Ids(SubSeq(body, RunStart(wire, body), Len(body)))
  ELSE IF Last(body).role = "user" THEN Ids(Results(Last(body).content)) ELSE <<>>

\* The calls that can be named: those of the assistant before the results.
NamedIds(wire, body) ==
  CASE wire = "anthropic" ->
         UNION {ToSet(Ids(Uses(body[i].content))) :
                i \in {j \in 1..(Len(body) - 1) : body[j].role = "assistant"}}
    [] wire = "chat" ->
         UNION {ToSet(Ids(body[i].calls)) :
                i \in {j \in 1..(RunStart(wire, body) - 1) : body[j].role = "assistant"}}
    [] wire = "responses" ->
         {body[i].id : i \in {j \in 1..(RunStart(wire, body) - 1) :
                              body[j].type = "function_call"}}

---------------------------------------------------------------------------
(* To Anthropic messages.                                                  *)

Flattened(form) == IF form = "rich" THEN "texts" ELSE form
Printed(form) == IF form = "rich" THEN "repr" ELSE form

TextAndUses(text, calls) ==
  LET content == (IF text = "empty" THEN <<>> ELSE <<Text(text)>>) \o calls
  IN IF content = <<>> THEN <<Text("empty")>> ELSE content

FromChat(m) ==
  IF m.role = "tool" THEN Message("user", <<Result(m.id, Flattened(m.form))>>)
  ELSE Message(m.role, TextAndUses(m.text, m.calls))

\* The arguments of a custom call are an object with its input.
Plain(args) == IF args = "free" THEN "given" ELSE IF args = "void" THEN "none" ELSE args

FromItem(item) ==
  CASE item.type = "message" -> <<Message(item.role, <<Text(item.text)>>)>>
    [] item.type = "function_call" -> <<Message("assistant", <<Use(item.id, Plain(item.args))>>)>>
    [] item.type = "function_call_output" ->
         <<Message("user", <<Result(item.id, Printed(item.form))>>)>>
    [] item.type = "reasoning" -> <<>>

OnlyUses(m) ==
  m.role = "assistant" /\ m.content # <<>> /\ Uses(m.content) = m.content

\* Adjacent messages of calls become one.
Coalesce(messages) ==
  FoldLeft(LAMBDA done, m :
             IF OnlyUses(m) /\ done # <<>> /\ OnlyUses(Last(done))
             THEN Append(Front(done), Message("assistant", Last(done).content \o m.content))
             ELSE Append(done, m),
           <<>>, messages)

\* The calls of a message that the next message answers.
Matched(messages, k) ==
  IF messages[k].role = "assistant" /\ k < Len(messages) /\ messages[k + 1].role = "user"
  THEN ToSet(Ids(Uses(messages[k].content))) \cap ToSet(Ids(Results(messages[k + 1].content)))
  ELSE {}

(***************************************************************************)
(* Calls without an answer in the next message are dropped, and results    *)
(* that answer no call of the message before; so is a message this leaves  *)
(* empty.  The results that stay come first in theirs.                     *)
(***************************************************************************)
Safe(messages, k) ==
  LET m == messages[k]
      answers == IF k = 1 THEN {} ELSE Matched(messages, k - 1)
  IN IF m.role = "assistant"
     THEN Message(m.role, At(m.content, {i \in DOMAIN m.content :
            m.content[i].type = "tool_use" => m.content[i].id \in Matched(messages, k)}))
     ELSE Message(m.role, At(m.content, {i \in DOMAIN m.content :
            m.content[i].type = "tool_result" /\ m.content[i].id \in answers}) \o Others(m.content))

\* Mutation: the results that answer no call are left where they are.
SanitizeCallsOnly(messages) ==
  LET merged == Coalesce(messages)
      safe == [k \in DOMAIN merged |->
                 IF merged[k].role = "assistant" THEN Safe(merged, k) ELSE merged[k]]
  IN At(safe, {k \in DOMAIN safe : safe[k].content # <<>>})

Sanitize(messages) ==
  LET merged == Coalesce(messages)
      safe == [k \in DOMAIN merged |-> Safe(merged, k)]
  IN At(safe, {k \in DOMAIN safe : safe[k].content # <<>>})

FromResponses(items) ==
  LET messages == Spread(FromItem, items)
  IN IF \E i \in DOMAIN items : IsOutput(items[i]) THEN Sanitize(messages) ELSE messages

ToAnthropic(wire, body) ==
  CASE wire = "anthropic" -> body
    [] wire = "chat" -> [i \in DOMAIN body |-> FromChat(body[i])]
    [] wire = "responses" -> FromResponses(body)

---------------------------------------------------------------------------
(* From Anthropic messages to the provider of the tier.                    *)

\* prepare_routed_body: without thinking, and without messages it empties.
StripThinking(messages) ==
  LET silent(blocks) == At(blocks, {i \in DOMAIN blocks : blocks[i].type # "thinking"})
      stripped == [k \in DOMAIN messages |-> Message(messages[k].role, silent(messages[k].content))]
  IN At(stripped, {k \in DOMAIN stripped : stripped[k].content # <<>> \/ stripped[k].role # "assistant"})

\* Results leave out everything beside them, calls keep the text.
ConvertSingle(m) ==
  LET results == Results(m.content)
      calls == Uses(m.content)
  IN IF results # <<>>
     THEN [i \in DOMAIN results |-> ToolMessage(results[i].id, Flattened(results[i].form))]
     ELSE IF calls # <<>> THEN <<ChatMessage("assistant", Joined(m.content), calls)>>
     ELSE <<ChatMessage(m.role, Joined(m.content), <<>>)>>

ConvertForLitellm(messages) == Spread(ConvertSingle, messages)

\* A text is held back until a block that is none, or the end, follows it.
ContentToItems(m) ==
  LET Flush(acc) == IF acc.texts = <<>> THEN acc.items
                    ELSE Append(acc.items, MessageItem(m.role, Joined(acc.texts)))
      Item(b) == CASE b.type = "tool_use" -> <<CallItem(b.id, b.args)>>
                   [] b.type = "tool_result" -> <<OutputItem(b.id, Flattened(b.form))>>
                   [] OTHER -> <<>>
      Step(acc, b) == IF b.type = "text" THEN [items |-> acc.items, texts |-> Append(acc.texts, b)]
                      ELSE [items |-> Flush(acc) \o Item(b), texts |-> <<>>]
  IN Flush(FoldLeft(Step, [items |-> <<>>, texts |-> <<>>], m.content))

AnthropicToItems(messages) == Spread(ContentToItems, messages)

UnpairedCalls(items) ==
  {items[i].id : i \in {j \in DOMAIN items : items[j].type = "function_call"}}
  \ {items[i].id : i \in {j \in DOMAIN items : IsOutput(items[j])}}

---------------------------------------------------------------------------
(* Compression.  The compressor is given strings.  Those of an Anthropic   *)
(* or a Responses body are its results, lists flattened to their texts; if *)
(* any comes back shorter, what came back for a call replaces each of its  *)
(* results.  The messages of a Chat body are the compressor's own, and a   *)
(* list in them it leaves as it is.  Whether a string gets any shorter is  *)
(* open, for strings and for the texts of lists; on a Responses body only  *)
(* the parts of a list with the type "text" are counted as saved, so that  *)
(* it may also be sent as it was when its lists got shorter.               *)

Shrinks == SUBSET {"strings", "lists"}

Crushed(form, shrinks) ==
  IF form = "long" /\ "strings" \in shrinks THEN "crushed"
  ELSE IF form \in {"texts", "repr"} /\ "lists" \in shrinks THEN "digest"
  ELSE form

\* Mutation: the content of some other call's result is written back.
SwapAny(forms, id, form) ==
  IF id \in DOMAIN forms THEN forms[CHOOSE i \in DOMAIN forms : TRUE] ELSE form

Swap(forms, id, form) == IF id \in DOMAIN forms THEN forms[id] ELSE form

\* What the compressor returns for each call, the last message of it counting.
FormsById(toolMessages, shrinks) ==
  LET ids == ToSet(Ids(toolMessages))
      last(id) == SelectLastInSeq(toolMessages, LAMBDA t : t.id = id)
  IN [id \in ids |-> Crushed(Flattened(toolMessages[last(id)].form), shrinks)]

CompressAnthropic(messages, shrinks) ==
  LET chat == ConvertForLitellm(messages)
      forms == FormsById(At(chat, {i \in DOMAIN chat : chat[i].role = "tool"}), shrinks)
      block(b) == IF b.type = "tool_result" THEN Result(b.id, Swap(forms, b.id, b.form)) ELSE b
      blocks(content) == [j \in DOMAIN content |-> block(content[j])]
  IN [i \in DOMAIN messages |-> Message(messages[i].role, blocks(messages[i].content))]

CompressResponses(items, shrinks) ==
  LET forms == FormsById(At(items, {i \in DOMAIN items : IsOutput(items[i])}), shrinks)
      item(i) == IF IsOutput(i) THEN OutputItem(i.id, Swap(forms, i.id, i.form)) ELSE i
  IN [i \in DOMAIN items |-> item(items[i])]

CompressChat(messages, shrinks) ==
  [i \in DOMAIN messages |->
     IF messages[i].role = "tool"
     THEN ToolMessage(messages[i].id, Crushed(messages[i].form, shrinks))
     ELSE messages[i]]

\* The results in a body, whatever its format.
Delivered(format, body) ==
  CASE format = "anthropic" ->
         UNION {ToSet(Results(body[i].content)) : i \in DOMAIN body}
    [] format = "chat" ->
         {Result(body[i].id, body[i].form) : i \in {j \in DOMAIN body : body[j].role = "tool"}}
    [] format = "responses" ->
         {Result(body[i].id, body[i].form) : i \in {j \in DOMAIN body : IsOutput(body[j])}}

\* The string of a result that the compressor is given.
TextOf(format, form) == IF format = "chat" THEN form ELSE Flattened(form)

\* As it was, unless some result got shorter.
Compress(format, body, shrinks) ==
  IF \A r \in Delivered(format, body) :
       Crushed(TextOf(format, r.form), shrinks) = TextOf(format, r.form)
  THEN body
  ELSE CASE format = "anthropic" -> CompressAnthropic(body, shrinks)
         [] format = "chat" -> CompressChat(body, shrinks)
         [] format = "responses" -> CompressResponses(body, shrinks)
=============================================================================
