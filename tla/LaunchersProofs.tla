--------------------------- MODULE LaunchersProofs ---------------------------
(***************************************************************************)
(* Proofs about Launchers, for any settings files and any contents that a  *)
(* user may write.                                                         *)
(***************************************************************************)
EXTENDS Launchers, TLAPS

\* A content is missing, half, broken, or a record with its four fields.
LEMMA WholeContents ==
  ASSUME NEW c \in Contents, c.is = "whole"
  PROVE  /\ c = Whole(c.url, c.env, c.rest, c.marked)
         /\ c.url \in {"none", "mine", "proxy"} /\ c.env \in {"none", "bare", "used"}
         /\ c.rest \in Rests /\ c.marked \in BOOLEAN
         /\ c.env = "none" => c.url = "none"
BY DEF Contents, Wholes, Missing, Half, Broken, Whole

\* A record whose object is not lost with a URL in it is a content.
LEMMA WholeIsContent ==
  ASSUME NEW url \in {"none", "mine", "proxy"}, NEW env \in {"none", "bare", "used"},
         NEW rest \in Rests, NEW marked \in BOOLEAN, env = "none" => url = "none"
  PROVE  Whole(url, env, rest, marked) \in Contents
BY DEF Contents, Wholes, Whole

\* What is read from a file is a whole content.
LEMMA ParsedIsWhole ==
  ASSUME NEW c \in Contents
  PROVE  Parsed(c) \in Contents /\ Parsed(c).is = "whole"
BY WholeIsContent DEF Parsed, Blank, Whole, Rests, Contents

\* What acr writes keeps what is not its own.
LEMMA RoutedIsContent ==
  ASSUME NEW c \in Contents, c.is = "whole"
  PROVE  /\ Routed(c) \in Contents /\ Routed(c).is = "whole"
         /\ Routed(c).rest = c.rest /\ Routed(c).url = "proxy"
BY WholeContents, WholeIsContent DEF Routed, Whole

LEMMA WrappedIsContent ==
  ASSUME NEW c \in Contents, c.is = "whole"
  PROVE  Wrapped(c) \in Contents /\ Marked(Wrapped(c))
BY WholeContents, WholeIsContent DEF Wrapped, Whole, Marked

LEMMA RestoredIsContent ==
  ASSUME NEW c \in Contents, c.is = "whole", NEW b \in Sidecars
  PROVE  /\ Restored(c, b) \in Contents
         /\ Restored(c, b) = Missing \/ Restored(c, b).is = "whole"
         /\ RestOf(Restored(c, b)) = c.rest
         /\ b.previous # "proxy" => ~Proxied(Restored(c, b))
<1> DEFINE env == IF c.env = "none" THEN "bare" ELSE c.env
           kept == IF b.previous = "none" /\ ~b.env /\ env = "bare" THEN "none" ELSE env
           back == Whole(b.previous, kept, c.rest, c.marked)
<1>1. back \in Contents
  BY WholeContents, WholeIsContent DEF Sidecars
<1>2. back.is = "whole" /\ back.rest = c.rest /\ back.url = b.previous
  BY DEF Whole
<1>3. Restored(c, b) = IF ~b.file /\ back = Blank THEN Missing ELSE back
  BY DEF Restored
<1>4. Blank.rest = "none" /\ RestOf(Missing) = "none" /\ Missing.is # "whole" /\ Missing \in Contents
  BY DEF Blank, Whole, RestOf, Missing, Contents
<1> HIDE DEF back
<1> QED BY <1>1, <1>2, <1>3, <1>4 DEF RestOf, Proxied

\* A user may change the rest of a file and nothing else of it.
LEMMA WithRestIsContent ==
  ASSUME NEW c \in Contents, c.is = "whole", NEW r \in Rests
  PROVE  /\ WithRest(c, r) \in Contents
         /\ Marked(WithRest(c, r)) <=> Marked(c)
         /\ Proxied(WithRest(c, r)) <=> Proxied(c)
BY WholeContents, WholeIsContent DEF WithRest, Whole, Marked, Proxied

\* `off` undoes `on`: what the sidecar of a content makes of it, with or without the
\* URL, is that content (disable of ops/desktop.py).
LEMMA OffUndoesOn ==
  ASSUME NEW w \in Contents, w.is \in {"missing", "whole"}, ~Proxied(w), NEW p \in Paths,
         NEW c \in {w, Routed(Parsed(w))}
  PROVE  Restored(Parsed(c), SidecarOf(p, w)) = w
<1>1. CASE w.is = "missing"
  <2>1. w = Missing
    BY <1>1 DEF Contents, Wholes, Half, Broken
  <2>2. Parsed(w) = Blank /\ w # Blank
    BY <2>1 DEF Parsed, Missing, Blank, Whole
  <2>3. Routed(Blank) = Whole("proxy", "bare", "none", FALSE)
    BY DEF Routed, Blank, Whole
  <2> DEFINE x == Parsed(c)
             b == SidecarOf(p, w)
             env == IF x.env = "none" THEN "bare" ELSE x.env
             kept == IF b.previous = "none" /\ ~b.env /\ env = "bare" THEN "none" ELSE env
             back == Whole(b.previous, kept, x.rest, x.marked)
  <2>4. x.env \in {"none", "bare"} /\ x.rest = "none" /\ x.marked = FALSE
    BY <2>2, <2>3 DEF Parsed, Blank, Whole
  <2>5. b.previous = "none" /\ b.env = ("none" # "none") /\ b.file = (Missing # Missing)
    <3>1. Blank.url = "none" /\ Blank.env = "none"
      BY DEF Blank, Whole
    <3> QED BY <2>1, <2>2, <3>1 DEF SidecarOf, Saved
  <2>6. Restored(x, b) = IF ~b.file /\ back = Blank THEN Missing ELSE back
    BY DEF Restored
  <2> HIDE DEF x, b
  <2>7. back = Blank
    BY <2>4, <2>5 DEF Blank
  <2>8. ~b.file
    BY <2>5
  <2>9. Restored(x, b) = Missing
    BY <2>6, <2>7, <2>8
  <2> QED BY <2>1, <2>9 DEF x, b
<1>2. CASE w.is = "whole"
  <2> DEFINE x == Parsed(c)
             b == SidecarOf(p, w)
             env == IF x.env = "none" THEN "bare" ELSE x.env
             kept == IF b.previous = "none" /\ ~b.env /\ env = "bare" THEN "none" ELSE env
  <2>1. w # Missing /\ Parsed(w) = w
    BY <1>2 DEF Missing, Parsed
  <2>2. b.previous = w.url /\ b.env = (w.env # "none") /\ b.file = TRUE
    BY <2>1 DEF SidecarOf, Saved
  <2>3. /\ x.rest = w.rest /\ x.marked = w.marked
        /\ x.env = w.env \/ (w.env = "none" /\ x.env = "bare")
    BY <1>2, <2>1 DEF Parsed, Routed, Whole
  <2>4. w.env \in {"none", "bare", "used"} /\ (w.env = "none" => w.url = "none")
    BY <1>2, WholeContents
  <2>5. Restored(x, b) = Whole(b.previous, kept, x.rest, x.marked)
    BY <2>2 DEF Restored
  <2> HIDE DEF x, b
  <2>6. kept = w.env
    BY <2>2, <2>3, <2>4
  <2>7. Restored(x, b) = Whole(w.url, w.env, w.rest, w.marked)
    BY <2>2, <2>3, <2>5, <2>6
  <2> QED BY <1>2, <2>7, WholeContents DEF x, b
<1> QED BY <1>1, <1>2

\* The kinds of contents are apart from each other and from what `wish` has besides.
LEMMA Kinds ==
  /\ {Missing, Half, Broken, Blank} \subseteq Contents
  /\ Missing.is = "missing" /\ Half.is = "half" /\ Broken.is = "broken"
  /\ Blank.is = "whole" /\ Blank.rest = "none" /\ ~Marked(Blank) /\ ~Proxied(Blank)
  /\ \A c \in Contents :
       /\ c.is \in {"missing", "half", "broken", "whole"}
       /\ c.is = "missing" => c = Missing
       /\ c.is = "half" => c = Half
       /\ c.is = "broken" => c = Broken
       /\ RestOf(c) \in Rests
       /\ c # Spoilt
       /\ Edited(c) \notin Contents /\ Edited(c) # Spoilt /\ RestOf(Edited(c)) = RestOf(c)
<1>1. {Missing, Half, Broken, Blank} \subseteq Contents
  BY WholeIsContent DEF Contents, Blank, Rests
<1>2. Missing.is = "missing" /\ Half.is = "half" /\ Broken.is = "broken" /\ Spoilt.is = "spoilt"
  BY DEF Missing, Half, Broken, Spoilt
<1>3. Blank.is = "whole" /\ Blank.rest = "none" /\ ~Marked(Blank) /\ ~Proxied(Blank)
  BY DEF Blank, Whole, Marked, Proxied
<1>4. ASSUME NEW c \in Contents
      PROVE  /\ c.is \in {"missing", "half", "broken", "whole"}
             /\ c.is = "missing" => c = Missing
             /\ c.is = "half" => c = Half
             /\ c.is = "broken" => c = Broken
             /\ RestOf(c) \in Rests
  <2>1. c \in {Missing, Half, Broken} \/ c.is = "whole"
    BY DEF Contents, Wholes
  <2>2. c.is = "whole" => c.rest \in Rests
    BY WholeContents
  <2> QED BY <2>1, <2>2, <1>2 DEF RestOf, Rests
<1>5. ASSUME NEW c \in Contents
      PROVE  c # Spoilt
  BY <1>2, <1>4
<1>6. ASSUME NEW c
      PROVE  /\ Edited(c).is = "edited" /\ RestOf(Edited(c)) = RestOf(c)
             /\ Edited(c) \notin Contents /\ Edited(c) # Spoilt
  <2>1. Edited(c).is = "edited" /\ Edited(c).rest = RestOf(c)
    BY DEF Edited
  <2> QED BY <2>1, <1>2, <1>4 DEF RestOf
<1> QED BY <1>1, <1>2, <1>3, <1>4, <1>5, <1>6

\* A sidecar is one, and a content or a part of one is not.
LEMMA SidecarTyped ==
  ASSUME NEW q \in Paths, NEW c \in Contents
  PROVE  /\ SidecarOf(q, c) \in Sidecars
         /\ SidecarOf(q, c).previous = Parsed(c).url
BY ParsedIsWhole, WholeContents DEF SidecarOf, Saved, Sidecars

LEMMA SidecarKinds ==
  ASSUME NEW b \in Sidecars
  PROVE  b.is = "saved" /\ b # Missing /\ b # Half /\ b.path \in Paths
BY DEF Sidecars, Missing, Half

-----------------------------------------------------------------------------

\* A command is one, and has read a content.
LEMMA CommandTyped ==
  ASSUME NEW op \in {"on", "off"}, NEW q \in Paths, NEW c \in Contents
  PROVE  /\ Command(op, q, c) \in [op : {"on", "off"}, path : Paths, saw : Contents]
         /\ Command(op, q, c).op = op /\ Command(op, q, c).path = q /\ Command(op, q, c).saw = c
BY DEF Command

\* What the user may write.
LEMMA UsersEdit ==
  ASSUME NEW c \in Written
  PROVE  c \in Contents /\ ~Marked(c) /\ ~Proxied(c)
BY WrittenAssumption

\* Nothing was edited, and no command runs.
LEMMA InitHolds == Init => IInv
<1> SUFFICES ASSUME Init PROVE IInv
  OBVIOUS
<1>1. TypeOK
  BY CommandTyped, LaunchersAssumption, Kinds, UsersEdit DEF Init, TypeOK, NoCommand, Agents
<1>2. OwnWish
  BY UsersEdit DEF Init, OwnWish
<1>3. Progress
  BY DEF Init, Progress, StepsOf, Agents
<1>4. agent = "claude" => ClaudeCommand /\ ClaudeFiles
  BY Kinds, UsersEdit DEF Init, ClaudeCommand, ClaudeFiles, ClaudeFile, Held
<1>5. agent = "hermes" => HermesFile
  BY DEF Init, HermesFile
<1> QED BY <1>1, <1>2, <1>3, <1>4, <1>5 DEF IInv

-----------------------------------------------------------------------------
(* Types. *)

\* The content that `on` and `off` write.
LEMMA NewTyped ==
  ASSUME TypeOK, agent = "claude", Held(cmd.path)
  PROVE  /\ New \in Contents
         /\ New = Missing \/ New.is = "whole"
         /\ RestOf(New) = RestOf(Parsed(cmd.saw))
         /\ cmd.op = "off" /\ backup.previous # "proxy" => ~Proxied(New)
         /\ cmd.op = "on" => New = Routed(Parsed(cmd.saw))
<1>1. backup \in Sidecars
  BY Kinds DEF TypeOK, Held
<1>2. Parsed(cmd.saw) \in Contents /\ Parsed(cmd.saw).is = "whole"
  BY ParsedIsWhole DEF TypeOK
<1>3. CASE cmd.op = "on"
  BY <1>2, <1>3, RoutedIsContent DEF New, RestOf
<1>4. CASE cmd.op = "off"
  <2>1. New = Restored(Parsed(cmd.saw), backup)
    BY <1>4 DEF New
  <2>2. RestOf(Parsed(cmd.saw)) = Parsed(cmd.saw).rest
    BY <1>2 DEF RestOf
  <2> QED BY <1>1, <1>2, <1>4, <2>1, <2>2, RestoredIsContent
<1> QED BY <1>3, <1>4 DEF TypeOK

\* What an edit writes, and what becomes of the file the user is entitled to.
EditedWish(q, c) ==
  IF at # "idle" /\ cmd.path = q THEN Spoilt
  ELSE IF ~Held(q) THEN c
  ELSE IF wish[q] = Spoilt THEN Spoilt ELSE Edited(c)

Edits(q, c) ==
  /\ target' = [target EXCEPT ![q] = c]
  /\ wish' = [wish EXCEPT ![q] = EditedWish(q, c)]
  /\ Marked(c) => Marked(target[q])
  /\ Proxied(c) => Proxied(target[q])
  /\ UNCHANGED <<agent, backup, at, cmd>>
  /\ agent = "hermes" => q = HermesPath

\* An edit never brings in the marker or the URL of the proxy.
LEMMA EditStep ==
  ASSUME TypeOK, NEW q \in Paths, Edit(q)
  PROVE  \E c \in Contents : Edits(q, c)
<1>1. PICK c \in Written \cup IF target[q].is # "whole" THEN {}
                               ELSE {WithRest(target[q], r) : r \in Rests} :
        /\ target' = [target EXCEPT ![q] = c]
        /\ wish' = [wish EXCEPT ![q] = EditedWish(q, c)]
  <2>1. wish[q] = wish[q] /\ wish \in [Paths -> Contents \cup {Spoilt} \cup [is : {"edited"}, rest : Rests]]
    BY DEF TypeOK
  <2> QED BY <2>1 DEF Edit, EditedWish
<1>2. c \in Contents /\ (Marked(c) => Marked(target[q])) /\ (Proxied(c) => Proxied(target[q]))
  <2>1. CASE c \in Written
    BY <2>1, UsersEdit
  <2>2. CASE c \notin Written
    <3>1. PICK r \in Rests : c = WithRest(target[q], r) /\ target[q].is = "whole"
      BY <1>1, <2>2
    <3>2. target[q] \in Contents
      BY DEF TypeOK
    <3> QED BY <3>1, <3>2, WithRestIsContent
  <2> QED BY <2>1, <2>2
<1> QED BY <1>1, <1>2 DEF Edit, Edits

\* Every step keeps the types.
LEMMA Typed ==
  ASSUME TypeOK, agent = "claude" => ClaudeCommand, [Next]_vars
  PROVE  TypeOK'
<1> USE DEF TypeOK, Goto
<1>1. NoCommand \in [op : {"on", "off"}, path : Paths, saw : Contents]
  BY CommandTyped, LaunchersAssumption, Kinds DEF NoCommand
<1>2. File \in Contents /\ cmd.path \in Paths
  BY DEF File
<1>3. ASSUME NEW op \in {"on", "off"}, NEW q \in Paths, Begin(op, q)
      PROVE  TypeOK'
  BY <1>3, CommandTyped, Kinds DEF Begin
<1>4. ASSUME NEW q \in Paths, Edit(q)
      PROVE  TypeOK'
  <2>1. PICK c \in Contents : Edits(q, c)
    BY <1>4, EditStep
  <2>2. Edited(c) \in [is : {"edited"}, rest : Rests]
    BY Kinds DEF Edited
  <2>3. EditedWish(q, c) \in Contents \cup {Spoilt} \cup [is : {"edited"}, rest : Rests]
    BY <2>2 DEF EditedWish
  <2> QED BY <2>1, <2>3 DEF Edits
<1>5. CASE DeleteSidecar
  BY <1>5 DEF DeleteSidecar
<1>6. CASE Interrupt
  BY <1>6, <1>1 DEF Interrupt
<1>7. CASE ReadSettings \/ Look \/ Save \/ DropSidecar
  BY <1>7, <1>1, <1>2, CommandTyped DEF ReadSettings, Look, Save, DropSidecar, Claude, Keep
<1>8. CASE FillSidecar
  BY <1>8, SidecarTyped DEF FillSidecar, Claude
<1>9. CASE WriteSettings \/ FillSettings
  <2>1. agent = "claude" /\ Held(cmd.path)
    BY <1>9 DEF WriteSettings, FillSettings, Claude, ClaudeCommand
  <2>2. New \in Contents
    BY <2>1, NewTyped
  <2> QED BY <1>9, <1>1, <2>2, Kinds DEF WriteSettings, FillSettings, Claude
<1>10. CASE Snapshot \/ Copy \/ FillCopy
  BY <1>10, <1>1, <1>2, Kinds DEF Snapshot, Copy, FillCopy, Hermes
<1>11. CASE Load \/ WriteConfig
  BY <1>11, <1>1, <1>2, CommandTyped, Kinds DEF Load, Keep, WriteConfig, Hermes
<1>12. CASE FillConfig
  BY <1>12, <1>1, ParsedIsWhole, WrappedIsContent DEF FillConfig
<1>13. CASE MoveBack \/ LookForMarker \/ Unlink
  BY <1>13, <1>1, Kinds DEF MoveBack, LookForMarker, Unlink, Hermes
<1>14. CASE UNCHANGED vars
  BY <1>14 DEF vars
<1> QED
  BY <1>3, <1>4, <1>5, <1>6, <1>7, <1>8, <1>9, <1>10, <1>11, <1>12, <1>13, <1>14
     DEF Next, Desktop, Wrap

-----------------------------------------------------------------------------
(* The files of Claude. *)

\* What `on` writes does not depend on whether it was on already.
LEMMA RoutedTwice ==
  ASSUME NEW w \in Contents, NEW c \in {w, Routed(Parsed(w))}
  PROVE  /\ Routed(Parsed(c)) = Routed(Parsed(w))
         /\ c.is \in {"missing", "whole"} => RestOf(Parsed(c)) = RestOf(c)
<1>1. Parsed(w).is = "whole"
  BY ParsedIsWhole
<1>2. ASSUME NEW x, x.is = "whole" PROVE Routed(Routed(x)) = Routed(x) /\ Parsed(Routed(x)) = Routed(x)
  BY DEF Routed, Whole, Parsed
<1>3. Routed(Parsed(c)) = Routed(Parsed(w))
  BY <1>1, <1>2
<1>4. c.is = "whole" => RestOf(Parsed(c)) = RestOf(c)
  BY DEF Parsed, RestOf
<1>5. c.is = "missing" => RestOf(Parsed(c)) = RestOf(c)
  BY Kinds DEF Parsed, RestOf
<1> QED BY <1>3, <1>4, <1>5

\* The rest of what was read is the rest of its settings.
LEMMA ParsedRest ==
  ASSUME NEW c \in Contents, c.is \in {"missing", "whole"}
  PROVE  RestOf(Parsed(c)) = RestOf(c)
BY Kinds DEF Parsed, RestOf

\* Nothing an `off` or `on` writes is what the user did not have.
LEMMA NewIsTheUsers ==
  ASSUME IInv, agent = "claude", at \in {"write", "filling"}
  PROVE  /\ Held(cmd.path) /\ backup.previous # "proxy" /\ cmd.path \in Paths
         /\ New \in Contents /\ (New = Missing \/ New.is = "whole")
         /\ cmd.op = "on" => New # Missing
         /\ cmd.op = "off" => ~Proxied(New)
         /\ wish[cmd.path] # Spoilt => RestOf(New) = RestOf(wish[cmd.path])
         /\ wish[cmd.path] \in Contents =>
              New = IF cmd.op = "on" THEN Routed(Parsed(wish[cmd.path])) ELSE wish[cmd.path]
<1> DEFINE q == cmd.path
<1>1. /\ Held(q) /\ q \in Paths /\ cmd.saw \in Contents /\ cmd.saw.is \in {"missing", "whole"}
      /\ wish[q] # Spoilt => RestOf(cmd.saw) = RestOf(wish[q])
      /\ wish[q] \in Contents => cmd.saw \in {wish[q], Routed(Parsed(wish[q]))}
  BY DEF IInv, TypeOK, ClaudeCommand
<1>2. backup.previous # "proxy" /\ ClaudeFile(q)
  BY <1>1 DEF IInv, ClaudeFiles, ClaudeFile
<1>3. RestOf(Parsed(cmd.saw)) = RestOf(cmd.saw)
  BY <1>1, ParsedRest
<1>4. Parsed(cmd.saw) \in Contents /\ Parsed(cmd.saw).is = "whole"
  BY <1>1, ParsedIsWhole
<1>5. cmd.op = "on" => New = Routed(Parsed(cmd.saw)) /\ New.is = "whole"
  BY <1>4, RoutedIsContent DEF New
<1>6. /\ New \in Contents /\ (New = Missing \/ New.is = "whole")
      /\ RestOf(New) = RestOf(Parsed(cmd.saw))
      /\ cmd.op = "off" => ~Proxied(New)
  BY <1>1, <1>2, NewTyped DEF IInv
<1>7. ASSUME wish[q] \in Contents
      PROVE  New = IF cmd.op = "on" THEN Routed(Parsed(wish[q])) ELSE wish[q]
  <2>1. CASE cmd.op = "on"
    BY <1>1, <1>5, <1>7, <2>1, RoutedTwice
  <2>2. CASE cmd.op = "off"
    <3>1. backup = SidecarOf(q, wish[q]) /\ wish[q].is \in {"missing", "whole"}
      BY <1>1, <1>2, <1>7 DEF ClaudeFile
    <3>2. ~Proxied(wish[q])
      BY <1>1, <1>7 DEF IInv, OwnWish
    <3>3. New = Restored(Parsed(cmd.saw), backup)
      BY <2>2 DEF New
    <3>4. Restored(Parsed(cmd.saw), SidecarOf(q, wish[q])) = wish[q]
      BY <1>1, <1>7, <3>1, <3>2, OffUndoesOn
    <3> QED BY <2>2, <3>1, <3>3, <3>4
  <2> QED BY <2>1, <2>2 DEF IInv, TypeOK
<1> QED BY <1>1, <1>2, <1>3, <1>5, <1>6, <1>7, Kinds

\* Every step of a command keeps what is known of it.
LEMMA CommandKept ==
  ASSUME IInv, agent = "claude", [Next]_vars
  PROVE  ClaudeCommand'
<1> USE DEF Goto, Claude, Hermes
<1>1. TypeOK /\ ClaudeCommand /\ ClaudeFiles /\ cmd.path \in Paths /\ File \in Contents
  BY DEF IInv, TypeOK, File
<1>2. ASSUME NEW op \in {"on", "off"}, NEW q \in Paths, Begin(op, q)
      PROVE  ClaudeCommand'
  BY <1>2 DEF Begin, ClaudeCommand
<1>3. ASSUME NEW q \in Paths, Edit(q)
      PROVE  ClaudeCommand'
  <2>1. PICK c \in Contents : Edits(q, c)
    BY <1>1, <1>3, EditStep
  <2>2. CASE at = "idle"
    BY <2>1, <2>2 DEF Edits, ClaudeCommand
  <2>3. CASE at # "idle" /\ cmd.path = q
    <3>1. wish'[cmd.path] = Spoilt
      BY <1>1, <2>1, <2>3 DEF Edits, EditedWish, TypeOK
    <3>2. Spoilt \notin Contents
      BY Kinds
    <3> QED BY <1>1, <2>1, <3>1, <3>2 DEF Edits, ClaudeCommand, Held
  <2>4. CASE at # "idle" /\ cmd.path # q
    <3>1. wish'[cmd.path] = wish[cmd.path]
      BY <1>1, <2>1, <2>4 DEF Edits, TypeOK
    <3> QED BY <1>1, <2>1, <3>1 DEF Edits, ClaudeCommand, Held
  <2> QED BY <2>2, <2>3, <2>4
<1>4. CASE DeleteSidecar \/ Interrupt \/ DropSidecar
  BY <1>1, <1>4 DEF DeleteSidecar, Interrupt, DropSidecar, ClaudeCommand
<1>5. CASE ReadSettings
  <2>1. CASE File.is \in {"half", "broken"}
    BY <1>5, <2>1 DEF ReadSettings, ClaudeCommand
  <2>2. CASE File.is \notin {"half", "broken"}
    <3>1. /\ at' = "look" /\ cmd'.op = cmd.op /\ cmd'.path = cmd.path /\ cmd'.saw = File
          /\ agent' = agent
      BY <1>5, <2>2 DEF ReadSettings, Keep, Command
    <3>2. File.is \in {"missing", "whole"}
      BY <1>1, <2>2, Kinds
    <3>3. File = target[cmd.path] /\ ClaudeFile(cmd.path) /\ ~Filling(cmd.path)
      BY <1>1, <1>5 DEF File, ClaudeFiles, Filling, ReadSettings
    <3>4. /\ wish[cmd.path] # Spoilt => RestOf(File) = RestOf(wish[cmd.path])
          /\ Proxied(File) => Held(cmd.path)
          /\ wish[cmd.path] \in Contents => File \in {wish[cmd.path], Routed(Parsed(wish[cmd.path]))}
      BY <3>3 DEF ClaudeFile
    <3>5. UNCHANGED <<target, backup, wish>>
      BY <1>5 DEF ReadSettings
    <3> QED BY <3>1, <3>2, <3>4, <3>5 DEF ClaudeCommand, Held
  <2> QED BY <2>1, <2>2
<1>6. CASE Look
  <2>1. backup = Missing \/ (backup.is = "saved" /\ backup.path = cmd.path) \/ at' = "idle"
    BY <1>6 DEF Look
  <2> QED BY <1>1, <1>6, <2>1, Kinds DEF Look, ClaudeCommand, Held
<1>7. CASE Save
  BY <1>1, <1>7, Kinds DEF Save, ClaudeCommand, Held
<1>8. CASE FillSidecar
  <2>1. backup'.is = "saved" /\ backup'.path = cmd.path
    BY <1>8 DEF FillSidecar, SidecarOf, Saved
  <2> QED BY <1>1, <1>8, <2>1 DEF FillSidecar, ClaudeCommand, Held
<1>9. CASE WriteSettings \/ FillSettings
  <2>1. cmd.op = "on" => New # Missing
    BY <1>9, NewIsTheUsers DEF WriteSettings, FillSettings
  <2> QED BY <1>1, <1>9, <2>1 DEF WriteSettings, FillSettings, ClaudeCommand, Held, TypeOK
<1>10. CASE UNCHANGED vars
  BY <1>1, <1>10 DEF vars, ClaudeCommand, Held
<1>11. CASE Wrap
  BY <1>11 DEF Wrap, Snapshot, Copy, FillCopy, Load, WriteConfig, FillConfig, MoveBack,
              LookForMarker, Unlink
<1> QED
  BY <1>2, <1>3, <1>4, <1>5, <1>6, <1>7, <1>8, <1>9, <1>10, <1>11 DEF Next, Desktop

\* Every step keeps what is known of a file.
LEMMA FilesKept ==
  ASSUME IInv, agent = "claude", [Next]_vars
  PROVE  ClaudeFiles'
<1> SUFFICES ASSUME NEW p \in Paths PROVE ClaudeFile(p)'
  BY DEF ClaudeFiles
<1> USE DEF Goto, Claude, Hermes
<1>1. /\ TypeOK /\ ClaudeCommand /\ ClaudeFile(p) /\ cmd.path \in Paths
      /\ wish[p] \in Contents => ~Proxied(wish[p])
      /\ target[p] \in Contents /\ target \in [Paths -> Contents]
      /\ \A q \in Paths : ClaudeFile(q)
  BY DEF IInv, TypeOK, ClaudeFiles, OwnWish
<1> DEFINE Quiet == UNCHANGED <<agent, target, backup, wish>> /\ ~Filling(p)
                      /\ ~(at' = "drop" /\ cmd'.path = p)
<1>2. ASSUME Quiet PROVE ClaudeFile(p)'
  BY <1>1, <1>2 DEF ClaudeFile, Held, Filling
<1>3. ASSUME NEW op \in {"on", "off"}, NEW q \in Paths, Begin(op, q)
      PROVE  ClaudeFile(p)'
  BY <1>2, <1>3 DEF Begin, Filling
<1>4. ASSUME NEW q \in Paths, Edit(q)
      PROVE  ClaudeFile(p)'
  <2>1. PICK c \in Contents : Edits(q, c)
    BY <1>1, <1>4, EditStep
  <2>2. UNCHANGED <<agent, backup, at, cmd>> /\ (Held(p)' <=> Held(p))
    BY <1>1, <2>1 DEF Edits, Held
  <2>3. CASE q # p
    <3>1. target'[p] = target[p] /\ wish'[p] = wish[p]
      BY <1>1, <2>1, <2>3 DEF Edits, TypeOK
    <3> QED BY <1>1, <2>2, <3>1 DEF ClaudeFile, Filling
  <2>4. CASE q = p
    <3>1. target'[p] = c /\ wish'[p] = EditedWish(p, c) /\ (Proxied(c) => Proxied(target[p]))
      BY <1>1, <2>1, <2>4 DEF Edits, TypeOK
    <3>2. c # Spoilt /\ Spoilt \notin Contents /\ Edited(c) \notin Contents
            /\ RestOf(Edited(c)) = RestOf(c)
      BY Kinds
    <3>3. Proxied(c) => Held(p)
      BY <1>1, <3>1 DEF ClaudeFile
    <3>4. at = "drop" /\ cmd.path = p => ~Proxied(c) /\ wish'[p] = Spoilt
      BY <1>1, <3>1 DEF ClaudeFile, EditedWish
    <3>5. \/ wish'[p] = Spoilt
          \/ wish'[p] = c /\ ~Held(p)
          \/ wish'[p] = Edited(c) /\ Held(p)
      BY <3>1 DEF EditedWish
    <3> QED BY <1>1, <2>2, <3>1, <3>2, <3>3, <3>4, <3>5 DEF ClaudeFile
  <2> QED BY <2>3, <2>4
<1>5. CASE DeleteSidecar
  <2>1. ~Held(p) /\ ~Held(p)'
    BY <1>5, Kinds DEF DeleteSidecar, Held
  <2> QED BY <1>1, <1>5, <2>1 DEF DeleteSidecar, ClaudeFile, Filling
<1>6. CASE Interrupt
  <2>1. CASE at = "filling"
    <3>1. UNCHANGED <<agent, target, backup>> /\ at' = "idle" /\ (Held(p)' <=> Held(p))
      BY <1>6 DEF Interrupt, Held
    <3>2. CASE p = cmd.path
      <4>1. wish'[p] = Spoilt
        BY <1>1, <1>6, <2>1, <3>2 DEF Interrupt, TypeOK
      <4> QED BY <1>1, <3>1, <4>1, Kinds DEF ClaudeFile
    <3>3. CASE p # cmd.path
      <4>1. wish'[p] = wish[p] /\ ~Filling(p)
        BY <1>1, <1>6, <3>3 DEF Interrupt, TypeOK, Filling
      <4> QED BY <1>1, <3>1, <4>1 DEF ClaudeFile
    <3> QED BY <3>2, <3>3
  <2>2. CASE at # "filling"
    <3>1. at # "copying"
      BY DEF IInv, Progress, StepsOf
    <3> QED BY <1>2, <1>6, <2>2, <3>1 DEF Interrupt, Filling
  <2> QED BY <2>1, <2>2
<1>7. CASE ReadSettings \/ Look
  BY <1>2, <1>7 DEF ReadSettings, Look, Keep, Filling
<1>8. CASE Save
  <2>1. ~Held(p) /\ ~Held(p)' /\ ~Filling(p)
    BY <1>1, <1>8, Kinds DEF Save, Held, ClaudeCommand, Filling
  <2> QED BY <1>1, <1>8, <2>1 DEF Save, ClaudeFile
<1>9. CASE FillSidecar
  <2>1. /\ ~Held(p) /\ ~Filling(p) /\ ~Held(cmd.path)
        /\ cmd.saw \in Contents /\ ~Proxied(cmd.saw)
        /\ cmd.saw.is \in {"missing", "whole"}
        /\ wish[cmd.path] \in Contents => cmd.saw \in {wish[cmd.path], Routed(Parsed(wish[cmd.path]))}
    BY <1>1, <1>9, Kinds DEF FillSidecar, Held, ClaudeCommand, Filling, TypeOK
  <2>2. /\ backup' = SidecarOf(cmd.path, cmd.saw) /\ backup'.is = "saved"
        /\ backup'.path = cmd.path /\ backup'.previous = Parsed(cmd.saw).url
        /\ UNCHANGED <<agent, target, wish>> /\ at' = "write"
    BY <1>9 DEF FillSidecar, SidecarOf, Saved
  <2>3. Parsed(cmd.saw).url # "proxy"
    BY <2>1 DEF Proxied, Parsed, Blank, Whole
  <2>4. wish[cmd.path] \in Contents => cmd.saw = wish[cmd.path]
    BY <2>1, ParsedIsWhole, RoutedIsContent DEF Proxied
  <2>5. Held(p)' <=> p = cmd.path
    BY <1>9, <2>2 DEF Held
  <2> QED BY <1>1, <2>1, <2>2, <2>3, <2>4, <2>5 DEF ClaudeFile
<1>10. CASE WriteSettings \/ FillSettings
  <2>1. /\ at \in {"write", "filling"} /\ UNCHANGED <<agent, backup, wish>>
        /\ Held(p)' <=> Held(p)
    BY <1>10 DEF WriteSettings, FillSettings, Held
  <2>2. CASE p # cmd.path
    <3>1. target'[p] = target[p] /\ ~Filling(p) /\ ~(at' = "drop" /\ cmd'.path = p)
      BY <1>1, <1>10, <2>2 DEF WriteSettings, FillSettings, Filling, TypeOK
    <3> QED BY <1>1, <2>1, <3>1 DEF ClaudeFile
  <2>3. CASE p = cmd.path
    <3>1. /\ Held(p) /\ backup.previous # "proxy"
          /\ New \in Contents /\ (New = Missing \/ New.is = "whole")
          /\ cmd.op = "on" => New # Missing
          /\ cmd.op = "off" => ~Proxied(New)
          /\ wish[p] # Spoilt => RestOf(New) = RestOf(wish[p])
          /\ wish[p] \in Contents =>
              New = IF cmd.op = "on" THEN Routed(Parsed(wish[p])) ELSE wish[p]
      BY <2>1, <2>3, NewIsTheUsers
    <3>2. \/ target'[p] = New /\ (at' = "drop" => cmd.op = "off")
          \/ target'[p] = Half /\ at' = "filling" /\ cmd' = cmd
      BY <1>1, <1>10, <2>3, <3>1 DEF WriteSettings, FillSettings, TypeOK
    <3>3. CASE target'[p] = New /\ (at' = "drop" => cmd.op = "off")
      BY <1>1, <2>1, <3>1, <3>3 DEF ClaudeFile, TypeOK
    <3>4. CASE target'[p] = Half /\ at' = "filling" /\ cmd' = cmd
      <4>1. Filling(p)' /\ ~Proxied(Half)
        BY <2>3, <3>4, Kinds DEF Filling, Proxied
      <4> QED BY <1>1, <2>1, <3>1, <3>4, <4>1 DEF ClaudeFile
    <3> QED BY <3>2, <3>3, <3>4
  <2> QED BY <2>2, <2>3
<1>11. CASE DropSidecar
  <2>1. /\ Held(p) => p = cmd.path
        /\ ~Held(p)' /\ ~Filling(p) /\ at = "drop"
        /\ UNCHANGED <<agent, target, wish>> /\ at' = "idle"
    BY <1>1, <1>11, Kinds DEF DropSidecar, Held, ClaudeCommand, Filling
  <2> QED BY <1>1, <2>1 DEF ClaudeFile
<1>12. CASE UNCHANGED vars
  BY <1>1, <1>12 DEF vars, ClaudeFile, Held, Filling
<1>13. CASE Wrap
  BY <1>13 DEF Wrap, Snapshot, Copy, FillCopy, Load, WriteConfig, FillConfig, MoveBack,
              LookForMarker, Unlink
<1> QED
  BY <1>3, <1>4, <1>5, <1>6, <1>7, <1>8, <1>9, <1>10, <1>11, <1>12, <1>13 DEF Next, Desktop

-----------------------------------------------------------------------------
(* The file of Hermes, and the parts that both have. *)

LEMMA ProgressKept ==
  ASSUME IInv, [Next]_vars
  PROVE  Progress'
<1> USE DEF Goto, Claude, Hermes, StepsOf, Progress
<1>1. TypeOK /\ Progress /\ cmd.path \in Paths
  BY DEF IInv, TypeOK
<1>2. ASSUME NEW op \in {"on", "off"}, NEW q \in Paths, Begin(op, q)
      PROVE  Progress'
  BY <1>1, <1>2 DEF Begin, Command
<1>3. ASSUME NEW q \in Paths, Edit(q)
      PROVE  Progress'
  <2>1. PICK c \in Contents : Edits(q, c)
    BY <1>1, <1>3, EditStep
  <2>2. agent = "hermes" => \A p \in Paths \ {HermesPath} :
           target'[p] = target[p] /\ wish'[p] = wish[p]
    BY <1>1, <2>1 DEF Edits, TypeOK
  <2> QED BY <1>1, <2>1, <2>2 DEF Edits
<1>4. CASE DeleteSidecar
  BY <1>1, <1>4 DEF DeleteSidecar
<1>5. CASE Interrupt
  BY <1>1, <1>5 DEF Interrupt, TypeOK
<1>6. CASE Desktop
  BY <1>1, <1>6 DEF Desktop, ReadSettings, Look, Save, FillSidecar, WriteSettings, FillSettings,
                    DropSidecar, Keep
<1>7. CASE Snapshot \/ Copy \/ FillCopy \/ Load
  BY <1>1, <1>7 DEF Snapshot, Copy, FillCopy, Load, Keep, Command
<1>8. CASE WriteConfig \/ FillConfig \/ MoveBack \/ LookForMarker \/ Unlink
  BY <1>1, <1>8 DEF WriteConfig, FillConfig, MoveBack, LookForMarker, Unlink, TypeOK
<1>9. CASE UNCHANGED vars
  BY <1>1, <1>9 DEF vars
<1> QED BY <1>2, <1>3, <1>4, <1>5, <1>6, <1>7, <1>8, <1>9 DEF Next, Wrap

\* What the user is entitled to changes with an edit and when a file is spoilt only;
\* an edit counts when nothing of acr's is in the file.
LEMMA OwnWishKept ==
  ASSUME IInv, [Next]_vars
  PROVE  OwnWish'
<1> SUFFICES ASSUME NEW p \in Paths, wish'[p] \in Contents
             PROVE  /\ agent' = "claude" => ~Proxied(wish'[p])
                    /\ agent' = "hermes" => ~Marked(wish'[p])
  BY DEF OwnWish
<1> USE DEF Goto, Claude, Hermes
<1>1. /\ TypeOK /\ Spoilt \notin Contents
      /\ wish[p] \in Contents => /\ agent = "claude" => ~Proxied(wish[p])
                                 /\ agent = "hermes" => ~Marked(wish[p])
  BY Kinds DEF IInv, OwnWish
<1>2. agent' = agent
  BY DEF Next, Begin, Edit, DeleteSidecar, Interrupt, Desktop, ReadSettings, Look, Save, FillSidecar,
         WriteSettings, FillSettings, DropSidecar, Keep, Wrap, Snapshot, Copy, FillCopy, Load,
         WriteConfig, FillConfig, MoveBack, LookForMarker, Unlink, vars
<1>3. ASSUME NEW q \in Paths, Edit(q)
      PROVE  \/ wish'[p] = wish[p]
             \/ /\ agent = "claude" => ~Proxied(wish'[p])
                /\ agent = "hermes" => ~Marked(wish'[p])
  <2>1. PICK c \in Contents : Edits(q, c)
    BY <1>1, <1>3, EditStep
  <2>2. CASE p # q
    BY <1>1, <2>1, <2>2 DEF Edits, TypeOK
  <2>3. CASE p = q
    <3>1. wish'[p] = EditedWish(p, c)
      BY <1>1, <2>1, <2>3 DEF Edits, TypeOK
    <3>2. wish'[p] = c /\ ~Held(p)
      BY <1>1, <3>1, Kinds DEF EditedWish
    <3>3. agent = "claude" => ~Proxied(target[p])
      BY <3>2 DEF IInv, ClaudeFiles, ClaudeFile
    <3>4. agent = "hermes" => ~Marked(target[p])
      BY <3>2 DEF Held, Marked
    <3> QED BY <2>1, <2>3, <3>2, <3>3, <3>4 DEF Edits
  <2> QED BY <2>2, <2>3
<1>4. CASE Interrupt \/ MoveBack
  BY <1>1, <1>2, <1>4 DEF Interrupt, MoveBack, TypeOK
<1>5. CASE UNCHANGED wish
  BY <1>1, <1>2, <1>5
<1>6. \/ Interrupt \/ MoveBack \/ UNCHANGED wish
      \/ \E q \in Paths : Edit(q)
  BY DEF Next, Begin, DeleteSidecar, Desktop, ReadSettings, Look, Save, FillSidecar,
         WriteSettings, FillSettings, DropSidecar, Wrap, Snapshot, Copy, FillCopy, Load,
         WriteConfig, FillConfig, LookForMarker, Unlink, vars
<1> QED BY <1>1, <1>2, <1>3, <1>4, <1>5, <1>6

\* Every step keeps what is known of Hermes's file and its copy.
LEMMA HermesKept ==
  ASSUME IInv, agent = "hermes", [Next]_vars
  PROVE  HermesFile'
<1> DEFINE p == HermesPath
<1> USE DEF Goto, Claude, Hermes
<1>1. /\ TypeOK /\ HermesFile /\ p \in Paths /\ target[p] \in Contents
      /\ at # "idle" => cmd.path = p
      /\ at \in StepsOf("hermes")
      /\ wish[p] \in Contents => ~Marked(wish[p])
  BY LaunchersAssumption DEF IInv, TypeOK, Progress, OwnWish
<1>2. Spoilt \notin Contents /\ ~Marked(Missing) /\ Half # Missing
  BY Kinds DEF Marked
<1>3. ASSUME NEW op \in {"on", "off"}, NEW q \in Paths, Begin(op, q)
      PROVE  HermesFile'
  BY <1>1, <1>3 DEF Begin, HermesFile
<1>4. ASSUME NEW q \in Paths, Edit(q)
      PROVE  HermesFile'
  <2>1. PICK c \in Contents : Edits(q, c)
    BY <1>1, <1>4, EditStep
  <2>2. /\ target'[p] = c /\ wish'[p] = EditedWish(p, c)
        /\ UNCHANGED <<agent, backup, at, cmd>>
    BY <1>1, <2>1 DEF Edits, TypeOK
  <2>3. \/ wish'[p] \notin Contents
        \/ wish'[p] = c /\ at = "idle" /\ backup = Missing
    BY <1>1, <1>2, <2>2, Kinds DEF EditedWish, Held
  <2> QED BY <1>1, <2>2, <2>3 DEF HermesFile
<1>5. CASE Interrupt
  <2>1. CASE at = "filling" /\ backup = Missing
    BY <1>1, <1>2, <1>5, <2>1 DEF Interrupt, HermesFile, TypeOK
  <2>2. CASE ~(at = "filling" /\ backup = Missing)
    BY <1>1, <1>5, <2>2 DEF Interrupt, HermesFile
  <2> QED BY <2>1, <2>2
<1>6. CASE Snapshot
  <2>1. CASE backup # Missing \/ File = Missing \/ Marked(File)
    BY <1>1, <1>2, <1>6, <2>1 DEF Snapshot, HermesFile, File
  <2>2. CASE ~(backup # Missing \/ File = Missing \/ Marked(File))
    BY <1>1, <1>6, <2>2 DEF Snapshot, HermesFile, File
  <2> QED BY <2>1, <2>2
<1>7. CASE Copy
  BY <1>1, <1>2, <1>7 DEF Copy, HermesFile, File
<1>8. CASE FillCopy
  BY <1>1, <1>8, Kinds DEF FillCopy, HermesFile, File
<1>9. CASE Load
  BY <1>1, <1>9 DEF Load, Keep, HermesFile
<1>10. CASE WriteConfig
  BY <1>1, <1>2, <1>10 DEF WriteConfig, HermesFile, TypeOK
<1>11. CASE FillConfig
  <2>1. Marked(Wrapped(Parsed(cmd.saw)))
    BY <1>1, ParsedIsWhole, WrappedIsContent DEF TypeOK
  <2> QED BY <1>1, <1>2, <1>11, <2>1 DEF FillConfig, HermesFile, TypeOK
<1>12. CASE MoveBack
  <2>1. CASE backup = Half
    BY <1>1, <1>2, <1>12, <2>1 DEF MoveBack, HermesFile, TypeOK
  <2>2. CASE backup # Half
    BY <1>1, <1>12, <2>2 DEF MoveBack, HermesFile, TypeOK
  <2> QED BY <2>1, <2>2
<1>13. CASE LookForMarker
  BY <1>1, <1>13 DEF LookForMarker, HermesFile, File
<1>14. CASE Unlink
  BY <1>1, <1>14 DEF Unlink, HermesFile, TypeOK
<1>15. CASE UNCHANGED vars
  BY <1>1, <1>15 DEF vars, HermesFile
<1>16. CASE DeleteSidecar \/ Desktop
  BY <1>16 DEF DeleteSidecar, Desktop, ReadSettings, Look, Save, FillSidecar,
         WriteSettings, FillSettings, DropSidecar
<1> QED
  BY <1>3, <1>4, <1>5, <1>6, <1>7, <1>8, <1>9, <1>10, <1>11, <1>12, <1>13, <1>14, <1>15, <1>16
     DEF Next, Wrap

-----------------------------------------------------------------------------
(* The theorems. *)

\* The agent whose files they are does not change.
LEMMA AgentStays == [Next]_vars => agent' = agent
BY DEF Next, Begin, Edit, DeleteSidecar, Interrupt, Desktop, ReadSettings, Look, Save, FillSidecar,
       WriteSettings, FillSettings, DropSidecar, Keep, Wrap, Snapshot, Copy, FillCopy, Load,
       WriteConfig, FillConfig, MoveBack, LookForMarker, Unlink, vars, Goto

LEMMA Invariance == Spec => []IInv
<1>1. Init => IInv
  BY InitHolds
<1>2. IInv /\ [Next]_vars => IInv'
  <2> SUFFICES ASSUME IInv, [Next]_vars PROVE IInv'
    OBVIOUS
  <2>1. TypeOK'
    BY Typed DEF IInv
  <2>2. OwnWish' /\ Progress'
    BY OwnWishKept, ProgressKept
  <2>3. agent' = "claude" => ClaudeCommand' /\ ClaudeFiles'
    BY AgentStays, CommandKept, FilesKept
  <2>4. agent' = "hermes" => HermesFile'
    BY AgentStays, HermesKept
  <2> QED BY <2>1, <2>2, <2>3, <2>4 DEF IInv
<1> QED BY <1>1, <1>2, PTL DEF Spec

\* The settings files, the backups and the commands are what the code can make of
\* them, whatever the user writes.
THEOREM TypeCorrect == Spec => []TypeOK
<1>1. IInv => TypeOK
  BY DEF IInv
<1> QED BY <1>1, Invariance, PTL

\* Between two commands a file for which nothing is held is exactly what the user
\* had (disable of ops/desktop.py, disable_hermes_config of ops/wrap.py).
THEOREM Restores == Spec => []OffRestores
<1>1. IInv => OffRestores
  <2> SUFFICES ASSUME IInv, at = "idle", NEW p \in Paths, ~Held(p), wish[p] \in Contents
               PROVE  target[p] = wish[p]
    BY DEF OffRestores
  <2>1. CASE agent = "claude"
    BY <2>1 DEF IInv, ClaudeFiles, ClaudeFile
  <2>2. CASE agent = "hermes"
    <3>1. CASE p = HermesPath
      BY <2>2, <3>1 DEF IInv, HermesFile, Held, Marked
    <3>2. CASE p # HermesPath
      BY <2>2, <3>2 DEF IInv, Progress
    <3> QED BY <3>1, <3>2
  <2> QED BY <2>1, <2>2 DEF IInv, TypeOK, Agents
<1> QED BY <1>1, Invariance, PTL

\* What the user last had in a file besides the URL is in it, whether acr is on or
\* not (_write_settings of ops/desktop.py).
THEOREM SettingsStay == Spec => []OtherSettingsStay
<1>1. IInv => OtherSettingsStay
  <2> SUFFICES ASSUME IInv, agent = "claude", NEW p \in Paths,
                      wish[p] # Spoilt, target[p].is = "whole"
               PROVE  target[p].rest = RestOf(wish[p])
    BY DEF OtherSettingsStay
  <2>1. RestOf(target[p]) = target[p].rest /\ ~Filling(p)
    BY Kinds DEF RestOf, Filling
  <2> QED BY <2>1 DEF IInv, ClaudeFiles, ClaudeFile
<1> QED BY <1>1, Invariance, PTL

\* A file that points at the proxy has the backup of what the user had, at every
\* step of every command, or half a copy that an interrupted `wrap` left.
THEOREM Stranded == Spec => []NeverStranded
<1>1. IInv => NeverStranded
  <2> SUFFICES ASSUME IInv, NEW p \in Paths, target[p].is = "whole", target[p].url = "proxy",
                      wish[p] \in Contents \ {target[p]}
               PROVE  IF agent = "claude"
                      THEN Held(p) /\ backup.previous = Parsed(wish[p]).url
                      ELSE IF wish[p] = Missing THEN backup = Missing /\ target[p].marked
                                                ELSE backup \in {wish[p], Half}
    BY DEF NeverStranded
  <2>1. CASE agent = "claude"
    <3>1. Held(p)
      BY <2>1 DEF IInv, ClaudeFiles, ClaudeFile, Proxied
    <3>2. backup = SidecarOf(p, wish[p])
      BY <2>1, <3>1 DEF IInv, ClaudeFiles, ClaudeFile
    <3> QED BY <2>1, <3>1, <3>2, SidecarTyped
  <2>2. CASE agent = "hermes"
    <3>1. p = HermesPath
      BY <2>2 DEF IInv, Progress
    <3>2. target[p] # Half
      BY Kinds
    <3> QED BY <2>2, <3>1, <3>2 DEF IInv, HermesFile, Marked
  <2> QED BY <2>1, <2>2 DEF IInv, TypeOK, Agents
<1> QED BY <1>1, Invariance, PTL
=============================================================================
