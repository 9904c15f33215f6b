------------------------------ MODULE MCCapture -----------------------------
EXTENDS Capture

MCKeys == {"input", "output"}

\* What a message starts with, and what it ends with.
First == [input |-> 3, output |-> 1]
Closing == "output" :> 7
\* One with a number that no int holds.
Endless == "input" :> 5
MCUsages == {First, Closing, Endless}
MCRaising == {Endless}

Other == <<Word>>
Told(u) == <<Data, Half(u, 1), Half(u, 2)>>
ToldWithChar(u) == <<Data, Half(u, 1), Lead, Trail, Half(u, 2)>>
Done == <<Data, Word>>

Response(type, events, eol, closed) ==
  [type |-> type, events |-> events, eol |-> eol, closed |-> closed]

Ends == {<<LF>>, <<CR>>, <<CR, LF>>}

\* Event streams as the providers write them, complete or cut before the last empty
\* line; one with data on two lines; one with a usage that raises, and one whose parts
\* are on two lines; one cut inside a character, one with a byte that is none; a body,
\* whole, not text, and with a usage that raises; a type that is not looked at.
MCResponses ==
  {Response("sse", events, eol, closed) :
     events \in {<<<<Other, ToldWithChar(First)>>, <<Other>>, <<Told(Closing)>>, <<Done>>>>,
                <<<<Other, <<Data, Half(First, 1)>>, <<Data, Half(First, 2)>>>>, <<Told(Closing)>>>>},
     eol \in Ends, closed \in BOOLEAN}
  \cup {Response("sse", events, <<CR, LF>>, closed) :
          events \in {<<<<Told(First)>>, <<Told(Endless)>>>>,
                     <<<<<<Data, Half(Endless, 1)>>, <<Data, Half(Endless, 2)>>>>, <<Done>>>>},
          closed \in BOOLEAN}
  \cup {Response("sse", <<<<Told(First)>>, <<<<Data, Lead>>>>>>, <<LF>>, FALSE),
        Response("sse", <<<<Told(First)>>, <<<<Word, Trail>>>>, <<Told(Closing)>>>>, <<LF>>, TRUE),
        Response("json", <<<<ToldWithChar(First)>>>>, <<>>, TRUE),
        Response("json", <<<<<<Data, Half(First, 1), Trail>>>>>>, <<>>, TRUE),
        Response("json", <<<<Told(Endless)>>>>, <<>>, TRUE),
        Response("other", <<<<Told(First)>>>>, <<LF>>, TRUE)}
=============================================================================
