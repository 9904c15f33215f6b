------------------------------- MODULE Replies ------------------------------
(***************************************************************************)
(* A reply on its way back: from the provider's format to Anthropic blocks,*)
(* to the client's wire, and through the event stream the proxy makes up   *)
(* for a client that asked for one.  A Codex provider answers with such a  *)
(* stream itself, from which the proxy puts the reply together.            *)
(***************************************************************************)
EXTENDS Requests, FiniteSets, TLC

---------------------------------------------------------------------------
(* What a provider says, in its own format.  A Codex stream ends with the  *)
(* whole output ("full"), without it ("hollow"), or never ("cut").         *)

OutputOf(said) == ToResponses(Message("assistant", said))

Event(type, index, item, text) == [type |-> type, index |-> index, item |-> item, text |-> text]
NoItem == [type |-> "none"]
NoOutput == <<[type |-> "no output"]>>

\* The item as it is announced: without text, without arguments or input.
Announced(item) ==
  CASE item.type = "message" -> MessageItem(item.role, "empty")
    [] item.type = "function_call" -> CallItem(item.id, IF Custom(item) THEN "void" ELSE "none")
    [] OTHER -> item

ItemEvents(index, item) ==
  <<Event("output_item.added", index, Announced(item), "empty")>>
  \o (CASE item.type = "message" ->
             <<Event("content_part.added", index, NoItem, "empty"),
               Event("output_text.delta", index, NoItem, item.text),
               Event("output_text.done", index, NoItem, item.text),
               Event("content_part.done", index, NoItem, item.text)>>
        [] item.type = "function_call" ->
             <<Event("arguments.done", index, item, "empty")>>
        [] OTHER -> <<>>)
  \o <<Event("output_item.done", index, item, "empty")>>

CodexStream(said, ending) ==
  LET output == OutputOf(said)
      events == FlattenSeq([i \in DOMAIN output |-> ItemEvents(i, output[i])])
      final == IF ending = "full" THEN output ELSE <<>>
  IN [events |-> events, completed |-> ending # "cut", output |-> final]

---------------------------------------------------------------------------
(* The reply put together from a Codex stream (_response_from_sse).        *)

Appended(old, delta) ==
  IF "words" \in {old, delta} THEN "words"
  ELSE IF "blank" \in {old, delta} THEN "blank" ELSE "empty"

\* The text of the message at an index, which is made if it is not there.
TextAt(output, index) ==
  IF index \in DOMAIN output /\ output[index].type = "message" THEN output[index].text ELSE "empty"

Put(output, index, item) ==
  [i \in DOMAIN output \cup {index} |-> IF i = index THEN item ELSE output[i]]

PutText(output, index, text) == Put(output, index, MessageItem("assistant", text))

\* Mutation: the event that finishes a part empties it.
ApplyEventEmpties(output, e) ==
  CASE e.type = "output_item.added" -> Put(output, e.index, e.item)
    [] e.type \in {"content_part.added", "content_part.done"} -> PutText(output, e.index, "empty")
    [] e.type = "output_text.delta" ->
         PutText(output, e.index, Appended(TextAt(output, e.index), e.text))
    [] e.type = "output_text.done" -> PutText(output, e.index, e.text)
    [] OTHER -> output

\* Events that finish a call or an item leave what was announced.
ApplyEvent(output, e) ==
  CASE e.type = "output_item.added" -> Put(output, e.index, e.item)
    [] e.type \in {"content_part.added", "content_part.done", "output_text.done"} ->
         PutText(output, e.index, e.text)
    [] e.type = "output_text.delta" ->
         PutText(output, e.index, Appended(TextAt(output, e.index), e.text))
    [] OTHER -> output

\* A completion with output is taken as it is; NoOutput if there is none.
FromStream(stream) ==
  LET outputs[n \in 0..Len(stream.events)] ==
        IF n = 0 THEN <<>> ELSE ApplyEvent(outputs[n - 1], stream.events[n])
      built == outputs[Len(stream.events)]
      rebuilt == [i \in 1..Cardinality(DOMAIN built) |-> built[i]]
  IN IF ~stream.completed THEN NoOutput
     ELSE IF stream.output # <<>> THEN stream.output
     ELSE IF rebuilt = <<>> THEN NoOutput
     ELSE rebuilt

---------------------------------------------------------------------------
(* To Anthropic blocks.                                                    *)

\* A completion of LiteLLM: a text if it says anything, then the calls.
FromCompletion(said) ==
  LET text == Joined(said)
  IN (IF text = "empty" THEN <<>> ELSE <<Text(text)>>) \o Uses(said)

\* Mutation: reasoning is kept as it is.
FromOutputRaw(output) ==
  LET block(item) == CASE item.type = "message" -> <<Text(item.text)>>
                       [] item.type = "function_call" ->
                            IF Custom(item) THEN <<>> ELSE <<Use(item.id, item.args)>>
                       [] OTHER -> <<item>>
  IN Spread(block, output)

\* Custom calls are passed over like reasoning.
FromOutput(output) ==
  LET block(item) == CASE item.type = "message" -> <<Text(item.text)>>
                       [] item.type = "function_call" /\ ~Custom(item) -> <<Use(item.id, item.args)>>
                       [] OTHER -> <<>>
  IN Spread(block, output)

---------------------------------------------------------------------------
(* To the client's wire, whole or as a stream, and what the client reads.  *)

\* Mutation: only calls are told.
SynthesizedCalls(blocks) == Uses(blocks)

\* synthesize_sse: a block that is no call is told as a text.
Synthesized(blocks) ==
  [i \in DOMAIN blocks |->
     CASE blocks[i].type = "tool_use" -> blocks[i]
       [] blocks[i].type = "text" -> blocks[i]
       [] OTHER -> Text("empty")]

ToChatReply(blocks) == ChatMessage("assistant", Joined(blocks), Uses(blocks))

\* anthropic_to_responses: the items, texts joined up to the next block.
ToOutput(blocks) ==
  LET items == ContentToItems(Message("assistant", blocks))
  IN At(items, {i \in DOMAIN items : items[i].type # "reasoning"})

\* The items a stream tells of, event by event, which is what its reader keeps;
\* custom calls and reasoning are in its last event only.
Streamed(output) ==
  At(output, {i \in DOMAIN output :
                output[i].type = "message" \/ (output[i].type = "function_call" /\ ~Custom(output[i]))})

ReadChat(message) ==
  (IF message.text = "empty" THEN <<>> ELSE <<Text(message.text)>>) \o message.calls

ReadOutput(output) ==
  LET block(item) == CASE item.type = "message" -> <<Text(item.text)>>
                       [] item.type = "function_call" -> <<Use(item.id, item.args)>>
                       [] OTHER -> <<Thinking>>
  IN Spread(block, output)

\* The adapters' way, from Anthropic blocks (_adapter_response).
Adapted(wire, streaming, blocks) ==
  LET clean == StripBlank(blocks)
  IN CASE wire = "anthropic" -> IF streaming THEN Synthesized(clean) ELSE clean
       [] wire = "chat" -> ReadChat(ToChatReply(clean))
       [] wire = "responses" -> ReadOutput(ToOutput(clean))

\* The Codex way, from the provider's own items.
Passed(streaming, output) == ReadOutput(IF streaming THEN Streamed(output) ELSE output)
=============================================================================
