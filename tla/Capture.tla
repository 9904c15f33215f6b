------------------------------- MODULE Capture ------------------------------
(***************************************************************************)
(* The relay of an upstream response and the usage it reads on the way     *)
(* (_relay and _UsageCapture of proxy/passthrough.py).  The response comes *)
(* in chunks cut anywhere; the relay feeds each to the capture and then    *)
(* yields it to the client, and reports the usage when the response ended. *)
(*                                                                         *)
(* A byte is CR or LF, Data (the name of the field with its colon), Word   *)
(* (any other text), Lead or Trail (the two bytes of one character, Char   *)
(* once they are decoded), or a half of a JSON object that carries usage.  *)
(***************************************************************************)
EXTENDS Naturals, Sequences, FiniteSets, TLC, SequencesExt, Selection

CONSTANTS
  Keys,          \* the keys of a usage object that are captured
  Usages,        \* the usage objects that a response may carry
  Raising,       \* those whose reading raises something no handler expects
  Responses      \* what the upstream may answer, see Script

---------------------------------------------------------------------------
(* What the upstream says.                                                 *)

Byte(name) == [is |-> name]
CR == Byte("cr")
LF == Byte("lf")
Data == Byte("data")
Word == Byte("word")
Lead == Byte("lead")
Trail == Byte("trail")
Char == Byte("char")
Half(u, part) == [is |-> "half", usage |-> u, part |-> part]

\* What a line is made of.
Alphabet == {Data, Word, Lead, Trail} \cup [is : {"half"}, usage : Usages, part : {1, 2}]
Lines == Seq(Alphabet) \ {<<>>}
Events == Seq(Lines) \ {<<>>}

\* What follows the field name on the data lines of an event.
DataLines(lines) == At(lines, {i \in DOMAIN lines : lines[i][1] = Data})
Said(lines) == FlattenSeq([i \in DOMAIN DataLines(lines) |-> Tail(DataLines(lines)[i])])

\* An event stream: each line with its end, and an empty one after each event,
\* but for the last event if the stream was cut.  A body is the data alone.
EventBytes(lines, eol) == FlattenSeq([i \in DOMAIN lines |-> lines[i] \o eol]) \o eol
Bytes(resp) ==
  LET all == FlattenSeq([i \in DOMAIN resp.events |-> EventBytes(resp.events[i], resp.eol)])
  IN IF resp.type = "json" THEN Said(resp.events[1])
     ELSE IF resp.closed THEN all
     ELSE SubSeq(all, 1, Len(all) - 2 * Len(resp.eol))

\* An event stream has one kind of line end and ends behind an event or inside its
\* last one; a body is one text.  No event and no line is empty.  A usage object
\* counts some of the keys; the text of a raising one has a number no int holds, an
\* integer of too many digits, or too many brackets, and its counts are never read.
ASSUME CaptureAssumption ==
  /\ \A u \in Usages : DOMAIN u \subseteq Keys /\ u \in [DOMAIN u -> Nat]
  /\ Raising \subseteq Usages \ {[k \in {} |-> 0]}
  /\ \A resp \in Responses :
       /\ resp \in [type : {"sse", "json", "other"}, events : Seq(Events) \ {<<>>},
                    eol : {<<>>, <<LF>>, <<CR>>, <<CR, LF>>}, closed : BOOLEAN]
       /\ resp.type = "sse" => resp.eol # <<>>
       /\ resp.type = "json" => Len(resp.events) = 1

NoUsage == [k \in {} |-> 0]

\* The usage of a JSON text; a text cut short, or with anything beside, has none.
Parts(text) == At(text, {i \in DOMAIN text : text[i] \notin {Lead, Trail, Char}})
UsageOf(parts) ==
  IF Len(parts) = 2 /\ (\A i \in 1..2 : parts[i].is = "half" /\ parts[i].part = i)
     /\ parts[1].usage = parts[2].usage
  THEN parts[1].usage ELSE NoUsage
UsageIn(text) == UsageOf(Parts(text))

\* The data of an event is one text: no other usage object is a part of it.
ASSUME OneTextAssumption ==
  \A resp \in Responses : \A i \in DOMAIN resp.events :
    LET parts == Parts(Said(resp.events[i]))
    IN \A m, n \in DOMAIN parts : UsageOf(SubSeq(parts, m, n)) \in {NoUsage, UsageOf(parts)}

\* Counts in which those that a usage object has are replaced.
Over(u, counts) == [k \in Keys |-> IF k \in DOMAIN u THEN u[k] ELSE counts[k]]

\* What a response says it used: of each key, the last value.
Nothing == [k \in Keys |-> 0]
Stated(used, lines) == Over(UsageIn(Said(lines)), used)
Truth(resp) ==
  FoldLeft(Stated, Nothing, resp.events)

---------------------------------------------------------------------------
VARIABLES
  response,   \* what the upstream says in this run
  taken,      \* bytes read from the upstream
  yielded,    \* bytes given to the client
  held,       \* the decoder waits for the rest of a character
  buffer,     \* text behind the last complete event, or the body so far
  usage,      \* usage so far
  status,     \* "relaying", then how the relay ended
  reported    \* the usage given to on_complete, NoUsage until then

vars == <<response, taken, yielded, held, buffer, usage, status, reported>>

Init ==
  /\ response \in Responses
  /\ taken = 0 /\ yielded = 0
  /\ held = FALSE
  /\ buffer = <<>>
  /\ usage = Nothing
  /\ status = "relaying"
  /\ reported = NoUsage

---------------------------------------------------------------------------
(* The capture.                                                            *)

\* The text of bytes: a character comes out where its second byte is.
Decoded(bytes) ==
  LET ends == At(bytes, {i \in DOMAIN bytes : bytes[i] # Lead})
  IN [i \in DOMAIN ends |-> IF ends[i] = Trail THEN Char ELSE ends[i]]

\* The strict incremental decoder: the second byte of a character comes behind the
\* first and nowhere else, and a first byte at the end waits for it.
Decode(waiting, bytes) ==
  [text |-> Decoded(bytes),
   held |-> IF bytes = <<>> THEN waiting ELSE bytes[Len(bytes)] = Lead,
   ok |-> \A i \in DOMAIN bytes :
            bytes[i] = Trail <=> IF i = 1 THEN waiting ELSE bytes[i - 1] = Lead]

\* Line ends become LF: the pair first, then every CR that is left.
Normal(text) ==
  LET kept == At(text, {i \in DOMAIN text : ~(text[i] = LF /\ i > 1 /\ text[i - 1] = CR)})
  IN [i \in DOMAIN kept |-> IF kept[i] = CR THEN LF ELSE kept[i]]

\* Mutation: one event is cut off, the others stay behind it.
SplitOnce(text) ==
  FoldLeft(LAMBDA s, b :
             IF b = LF /\ s.left # <<>> /\ Last(s.left) = LF /\ s.events = <<>>
             THEN [events |-> Append(s.events, Front(s.left)), left |-> <<>>]
             ELSE [events |-> s.events, left |-> Append(s.left, b)],
           [events |-> <<>>, left |-> <<>>], text)

\* Cut at the empty lines: the complete events, and what is left.
EventEnds(left, b) == b = LF /\ left # <<>> /\ Last(left) = LF
Cut(s, b) ==
  IF EventEnds(s.left, b)
  THEN [events |-> Append(s.events, Front(s.left)), left |-> <<>>]
  ELSE [events |-> s.events, left |-> Append(s.left, b)]
Uncut == [events |-> <<>>, left |-> <<>>]
Split(text) == FoldLeft(Cut, Uncut, text)

\* The data of an event, line by line.
Scan(e, b) ==
  CASE b = LF -> [fresh |-> TRUE, inside |-> FALSE, data |-> e.data]
    [] b # LF /\ e.fresh -> [fresh |-> FALSE, inside |-> (b = Data), data |-> e.data]
    [] OTHER -> [e EXCEPT !.data = IF e.inside THEN Append(@, b) ELSE @]
Unscanned == [fresh |-> TRUE, inside |-> FALSE, data |-> <<>>]
Scanned(event) == FoldLeft(Scan, Unscanned, event)
EventData(event) == Scanned(event).data

\* Mutation: what an event states is added.
ApplyAdds(used, event) ==
  LET u == UsageIn(EventData(event))
  IN [k \in Keys |-> used[k] + IF k \in DOMAIN u THEN u[k] ELSE 0]

Apply(used, event) == Over(UsageIn(EventData(event)), used)

\* Only text that is no JSON is passed over.
Raises(event) == UsageIn(EventData(event)) \in Raising

Left == Len(Bytes(response)) - taken

---------------------------------------------------------------------------
(* The relay.                                                              *)

\* Bytes that are no text raise in the feed, and so does an event that is complete
\* with this chunk and has such a number in its usage.
FeedRaises(chunk) ==
  \/ ~Decode(held, chunk).ok
  \/ \E e \in ToSet(Split(Normal(buffer \o Decode(held, chunk).text)).events) : Raises(e)

\* Mutation: a chunk is searched for events by itself.
FeedSseAlone(chunk) ==
  LET decoded == Decode(held, chunk)
      split == Split(Normal(decoded.text))
  IN /\ ~FeedRaises(chunk)
     /\ held' = decoded.held
     /\ buffer' = split.left
     /\ usage' = FoldLeft(Apply, usage, split.events)

FeedSse(chunk) ==
  LET decoded == Decode(held, chunk)
      split == Split(Normal(buffer \o decoded.text))
  IN /\ ~FeedRaises(chunk)
     /\ held' = decoded.held
     /\ buffer' = split.left
     /\ usage' = FoldLeft(Apply, usage, split.events)

\* A body is kept as bytes until it is whole; of other types nothing is kept.
FeedBody(chunk) ==
  /\ buffer' = IF response.type = "json" THEN buffer \o chunk ELSE buffer
  /\ UNCHANGED <<held, usage>>

\* A chunk comes, is fed, and is yielded to the client.
Relay ==
  /\ status = "relaying"
  /\ \E n \in 1..Left :
       LET chunk == SubSeq(Bytes(response), taken + 1, taken + n)
       IN /\ IF response.type = "sse" THEN FeedSse(chunk) ELSE FeedBody(chunk)
          /\ taken' = taken + n
          /\ yielded' = taken + n
  /\ UNCHANGED <<response, status, reported>>

\* Mutation: every type of response is decoded as it comes.
FeedFailsAnyType ==
  /\ status = "relaying"
  /\ \E n \in 1..Left :
       /\ FeedRaises(SubSeq(Bytes(response), taken + 1, taken + n))
       /\ taken' = taken + n
  /\ status' = "broken"
  /\ UNCHANGED <<response, yielded, held, buffer, usage, reported>>

\* What is raised in the feed ends the relay before the chunk is yielded, and the
\* capture with it.
FeedFails ==
  /\ status = "relaying" /\ response.type = "sse"
  /\ \E n \in 1..Left :
       /\ FeedRaises(SubSeq(Bytes(response), taken + 1, taken + n))
       /\ taken' = taken + n
  /\ status' = "broken"
  /\ UNCHANGED <<response, yielded, held, buffer, usage, reported>>

\* The usage as it is reported: what is left in the buffer counts as an event.
Final ==
  CASE response.type = "sse" -> Apply(usage, buffer)
    [] response.type = "json" -> Over(UsageIn(buffer), usage)
    [] OTHER -> usage

\* Text cut inside a character, or a usage that raises: once all is yielded the report
\* is given up, the relay is not.
Unreadable ==
  CASE response.type = "sse" -> held \/ Raises(buffer)
    [] response.type = "json" ->
         LET d == Decode(FALSE, buffer) IN ~d.ok \/ d.held \/ UsageIn(buffer) \in Raising
    [] OTHER -> FALSE

Complete ==
  /\ status = "relaying" /\ Left = 0
  /\ status' = "complete"
  /\ reported' = IF Unreadable THEN NoUsage ELSE Final
  /\ UNCHANGED <<response, taken, yielded, held, buffer, usage>>

\* The client leaves, or the upstream breaks off: nothing is reported.
Abandon ==
  /\ status = "relaying"
  /\ status' = "abandoned"
  /\ UNCHANGED <<response, taken, yielded, held, buffer, usage, reported>>

Next == Relay \/ FeedFails \/ Complete \/ Abandon

Spec == Init /\ [][Next]_vars

---------------------------------------------------------------------------
(* Properties.                                                             *)

(***************************************************************************)
(* Types; the client never has more than was read, and the buffer never    *)
(* keeps a complete event.                                                 *)
(***************************************************************************)
TypeOK ==
  /\ response \in Responses
  /\ taken \in 0..Len(Bytes(response)) /\ yielded \in 0..taken
  /\ held \in BOOLEAN
  /\ usage \in [Keys -> Nat]
  /\ status \in {"relaying", "complete", "broken", "abandoned"}
  /\ reported = NoUsage \/ reported \in [Keys -> Nat]
  /\ response.type = "sse" => Split(buffer).events = <<>>

\* An event whose data is on one line, which no cut can take apart.
OneLine(lines) == Len(DataLines(lines)) <= 1

(***************************************************************************)
(* However the response is cut into chunks, inside a character, a field    *)
(* name or a line end, the usage reported is the one the response states:  *)
(* of a body, of a stream without CR LF, and of any stream whose events    *)
(* have their data on one line.  (A CR that ends a chunk is taken for a    *)
(* whole line end; its LF then ends an event early, which takes apart data *)
(* that is on several lines.)                                              *)
(***************************************************************************)
UsageWhateverTheChunks ==
  (status = "complete" /\ reported # NoUsage
   /\ \/ response.type = "json" \/ response.eol # <<CR, LF>>
      \/ \A i \in DOMAIN response.events : OneLine(response.events[i])) =>
    reported = IF response.type = "other" THEN Nothing ELSE Truth(response)

UsagesIn(resp) == {UsageIn(Said(resp.events[i])) : i \in DOMAIN resp.events}

(***************************************************************************)
(* Nothing is invented: every count reported is one that the response      *)
(* states for that key, or none, wherever the data of an event is cut.     *)
(***************************************************************************)
UsageIsStated ==
  \A k \in DOMAIN reported :
    \/ reported[k] = 0
    \/ \E u \in UsagesIn(response) : k \in DOMAIN u /\ u[k] = reported[k]

(***************************************************************************)
(* The capture costs the client nothing but this: it ends the relay of an  *)
(* event stream whose bytes are no text, or one of whose events states a   *)
(* usage whose reading raises, wherever the chunks are cut, and of no      *)
(* other response.  A relay that ends by itself has yielded every byte.    *)
(***************************************************************************)
OnlyUnreadableBreaks ==
  /\ status = "broken" =>
       /\ response.type = "sse"
       /\ \/ ~Decode(FALSE, SubSeq(Bytes(response), 1, taken)).ok
          \/ UsagesIn(response) \cap Raising # {}
  /\ status = "complete" => yielded = Len(Bytes(response))

---------------------------------------------------------------------------
(* Why it holds.                                                           *)

\* The bytes read so far, as the decoder has seen them.
Read == Decode(FALSE, SubSeq(Bytes(response), 1, taken))

\* The decoder of an event stream, fed chunk by chunk, is where it would be had the
\* bytes come at once, and a chunk that it accepts is yielded.
IInv ==
  /\ response \in Responses
  /\ taken \in 0..Len(Bytes(response))
  /\ held \in BOOLEAN
  /\ status \in {"relaying", "complete", "abandoned"} => yielded = taken
  /\ status = "complete" => Left = 0
  /\ (status = "relaying" /\ response.type = "sse") => Read.ok /\ held = Read.held
  /\ status = "broken" => response.type = "sse"
=============================================================================
