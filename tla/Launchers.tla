------------------------------ MODULE Launchers ------------------------------
(***************************************************************************)
(* The settings files of other programs that acr points at itself, and the *)
(* backups it takes to undo that: `acr desktop on/off` for Claude          *)
(* (ops/desktop.py) and `acr wrap/unwrap` for Hermes (ops/wrap.py).        *)
(*                                                                         *)
(* A command is a sequence of file operations without a lock; it may be    *)
(* interrupted between any two, by a signal or by a disk that is full, and *)
(* the user and the agent edit the file whenever they like.  A file that   *)
(* is written in place is first truncated.  One command runs at a time.    *)
(***************************************************************************)
EXTENDS Naturals

CONSTANTS
  Paths,      \* settings files of Claude (--config); Hermes has one of them
  HermesPath,
  Written     \* what a user writes in such a file

ASSUME LaunchersAssumption == HermesPath \in Paths

Agents == {"claude", "hermes"}

(***************************************************************************)
(* A settings file: the URL, the object it is in ("bare" if nothing else   *)
(* is in it), the rest, and whether acr's marker is on it.                 *)
(***************************************************************************)
Missing == [is |-> "missing"]
Half == [is |-> "half"]          \* truncated, not filled
Broken == [is |-> "broken"]      \* does not parse, or not to a mapping
Whole(url, env, rest, marked) ==
  [is |-> "whole", url |-> url, env |-> env, rest |-> rest, marked |-> marked]
Blank == Whole("none", "none", "none", FALSE)

Rests == {"none", "some", "more"}
Wholes == [is : {"whole"}, url : {"none", "mine", "proxy"}, env : {"none", "bare", "used"},
           rest : Rests, marked : BOOLEAN]
Contents == {Missing, Half, Broken} \cup {c \in Wholes : c.env = "none" => c.url = "none"}

Marked(c) == c.is = "whole" /\ c.marked
Proxied(c) == c.is = "whole" /\ c.url = "proxy"

\* The marker and the URL of the proxy are acr's own.
ASSUME WrittenAssumption ==
  Written \subseteq {c \in Contents : ~Marked(c) /\ ~Proxied(c)}

\* The sidecar of Claude's file; Hermes's backup is a copy of the file.
Saved(path, previous, env, file) ==
  [is |-> "saved", path |-> path, previous |-> previous, env |-> env, file |-> file]
Sidecars == [is : {"saved"}, path : Paths, previous : {"none", "mine", "proxy"},
             env : BOOLEAN, file : BOOLEAN]

VARIABLES
  agent,     \* whose settings
  target,    \* target[p]: the settings file
  backup,    \* the sidecar or the copy
  at,        \* the next step of the command under way
  cmd,       \* the command, "on" (wrap) or "off" (unwrap), its path, what it read
  wish       \* history: wish[p], the file as the user left it before acr came

vars == <<agent, target, backup, at, cmd, wish>>

Command(op, p, saw) == [op |-> op, path |-> p, saw |-> saw]
NoCommand == Command("off", HermesPath, Blank)

RestOf(c) == IF c.is \in {"whole", "edited"} THEN c.rest ELSE "none"

\* The user edited it since (and what is to stay of that), or it is spoilt.
Edited(c) == [is |-> "edited", rest |-> RestOf(c)]
Spoilt == [is |-> "spoilt"]

Init ==
  /\ agent \in Agents
  /\ target \in [Paths -> Written]
  /\ backup = Missing
  /\ at = "idle" /\ cmd = NoCommand
  /\ wish = target

-----------------------------------------------------------------------------
(* Between two commands. *)

Goto(step) ==
  /\ at' = step
  /\ cmd' = IF step = "idle" THEN NoCommand ELSE cmd
  /\ UNCHANGED agent

Begin(op, p) ==
  /\ at = "idle"
  /\ agent = "hermes" => p = HermesPath
  /\ cmd' = Command(op, p, Blank)
  /\ at' = "read"
  /\ UNCHANGED <<agent, target, backup, wish>>

\* What `off` would still write to a file: there is a backup, or the marker.
Held(p) ==
  IF agent = "claude" THEN backup.is = "saved" /\ backup.path = p
  ELSE backup # Missing \/ (target[p].is = "whole" /\ target[p].marked)

WithRest(c, rest) == Whole(c.url, c.env, rest, c.marked)

\* The user, or the agent, writes the file anew, or changes the rest of it.
Edit(p) ==
  /\ agent = "hermes" => p = HermesPath
  /\ \E c \in Written \cup IF target[p].is # "whole" THEN {}
                           ELSE {WithRest(target[p], r) : r \in Rests} :
       /\ c # target[p]
       /\ target' = [target EXCEPT ![p] = c]
       /\ wish' = [wish EXCEPT ![p] =
                     IF at # "idle" /\ cmd.path = p THEN Spoilt
                     ELSE IF ~Held(p) THEN c
                     ELSE IF @ = Spoilt THEN Spoilt ELSE Edited(c)]
  /\ UNCHANGED <<agent, backup, at, cmd>>

\* A sidecar that does not parse stops every command until it is deleted.
DeleteSidecar ==
  /\ agent = "claude" /\ at = "idle" /\ backup = Half
  /\ backup' = Missing
  /\ UNCHANGED <<agent, target, at, cmd, wish>>

\* Settings cut short are the user's loss, unless there is a copy of them.  A copy
\* cut short is there like any other: what the user had is known until it is put back.
Interrupt ==
  /\ at # "idle"
  /\ wish' = IF at = "filling" /\ ~(agent = "hermes" /\ backup # Missing)
             THEN [wish EXCEPT ![cmd.path] = Spoilt] ELSE wish
  /\ Goto("idle")
  /\ UNCHANGED <<target, backup>>

\* The file of the command, and reading it on the way to the next step.
File == target[cmd.path]
Keep(step) == at' = step /\ cmd' = Command(cmd.op, cmd.path, File) /\ UNCHANGED agent

-----------------------------------------------------------------------------
(* acr desktop on/off. *)

Claude(step) == agent = "claude" /\ at = step

\* _read_settings: a file that is missing is empty, one that does not parse ends it.
ReadSettings ==
  /\ Claude("read")
  /\ IF File.is \in {"half", "broken"} THEN Goto("idle") ELSE Keep("look")
  /\ UNCHANGED <<target, backup, wish>>

\* _read_backup and _ensure_backup_matches: a sidecar that does not parse or is
\* of another file ends the command; `on` keeps the one there is.
Look ==
  /\ Claude("look")
  /\ Goto(CASE backup = Missing /\ cmd.op = "on" -> "save"
            [] backup.is = "saved" /\ backup.path = cmd.path -> "write"
            [] OTHER -> "idle")
  /\ UNCHANGED <<target, backup, wish>>

\* _write_backup, in two steps.
Save ==
  /\ Claude("save")
  /\ backup' = Half
  /\ Goto("saving")
  /\ UNCHANGED <<target, wish>>

Parsed(c) == IF c.is = "whole" THEN c ELSE Blank

\* Mutation: a file without the object is remembered as one that had it.
SidecarOfAnyEnv(path, c) == Saved(path, Parsed(c).url, TRUE, c # Missing)

SidecarOf(path, c) == Saved(path, Parsed(c).url, Parsed(c).env # "none", c # Missing)

FillSidecar ==
  /\ Claude("saving")
  /\ backup' = SidecarOf(cmd.path, cmd.saw)
  /\ Goto("write")
  /\ UNCHANGED <<target, wish>>

\* Mutation: the URL is written without the object it belongs in.
RoutedBare(c) == [c EXCEPT !.url = "proxy"]

\* The settings with the URL of the proxy.
Routed(c) == Whole("proxy", IF c.env = "none" THEN "bare" ELSE c.env, c.rest, c.marked)

\* Mutation: the settings are put back as the sidecar has them, and nothing else.
RestoredOnly(c, b) ==
  IF b.previous = "none" /\ ~b.file THEN Missing
  ELSE [Blank EXCEPT !.url = b.previous, !.env = IF b.env THEN "bare" ELSE "none"]

\* What `off` leaves of the settings it read: the former URL or none, without an
\* object that acr added and that is empty, and no file if acr made it.
Restored(c, b) ==
  LET env == IF c.env = "none" THEN "bare" ELSE c.env
      kept == IF b.previous = "none" /\ ~b.env /\ env = "bare" THEN "none" ELSE env
      back == Whole(b.previous, kept, c.rest, c.marked)
  IN IF ~b.file /\ back = Blank THEN Missing ELSE back

New == IF cmd.op = "on" THEN Routed(Parsed(cmd.saw)) ELSE Restored(Parsed(cmd.saw), backup)

\* _write_settings, in two steps; or the file acr made is removed.
WriteSettings ==
  /\ Claude("write")
  /\ target' = [target EXCEPT ![cmd.path] = IF New = Missing THEN Missing ELSE Half]
  /\ Goto(IF New = Missing THEN "drop" ELSE "filling")
  /\ UNCHANGED <<backup, wish>>

FillSettings ==
  /\ Claude("filling")
  /\ target' = [target EXCEPT ![cmd.path] = New]
  /\ Goto(IF cmd.op = "on" THEN "idle" ELSE "drop")
  /\ UNCHANGED <<backup, wish>>

DropSidecar ==
  /\ Claude("drop")
  /\ backup' = Missing
  /\ Goto("idle")
  /\ UNCHANGED <<target, wish>>

Desktop ==
  \/ ReadSettings \/ Look \/ Save \/ FillSidecar
  \/ WriteSettings \/ FillSettings \/ DropSidecar

-----------------------------------------------------------------------------
(* acr wrap and unwrap. *)

Hermes(step) == agent = "hermes" /\ at = step

\* Mutation: what is already routed is copied too.
SnapshotMarked ==
  /\ Hermes("read") /\ cmd.op = "on"
  /\ Goto(IF backup # Missing \/ File = Missing THEN "load" ELSE "copy")
  /\ UNCHANGED <<target, backup, wish>>

\* _snapshot_original: a copy is taken once, and never of acr's own file.
Snapshot ==
  /\ Hermes("read") /\ cmd.op = "on"
  /\ Goto(IF backup # Missing \/ File = Missing \/ Marked(File) THEN "load" ELSE "copy")
  /\ UNCHANGED <<target, backup, wish>>

\* shutil.copy2, in two steps.
Copy ==
  /\ Hermes("copy") /\ File # Missing
  /\ backup' = Half
  /\ Goto("copying")
  /\ UNCHANGED <<target, wish>>

FillCopy ==
  /\ Hermes("copying")
  /\ backup' = IF File = Missing THEN Half ELSE File
  /\ Goto("load")
  /\ UNCHANGED <<target, wish>>

\* _read_yaml_mapping: a missing or an empty file is an empty mapping.
Load ==
  /\ Hermes("load")
  /\ IF File = Broken THEN Goto("idle") ELSE Keep("write")
  /\ UNCHANGED <<target, backup, wish>>

\* _hermes_config_content
Wrapped(c) == Whole("proxy", "used", c.rest, TRUE)

WriteConfig ==
  /\ Hermes("write")
  /\ target' = [target EXCEPT ![cmd.path] = Half]
  /\ Goto("filling")
  /\ UNCHANGED <<backup, wish>>

FillConfig ==
  /\ Hermes("filling")
  /\ target' = [target EXCEPT ![cmd.path] = Wrapped(Parsed(cmd.saw))]
  /\ Goto("idle")
  /\ UNCHANGED <<backup, wish>>

\* disable_hermes_config: the copy is renamed over the file, whole or cut short ...
MoveBack ==
  /\ Hermes("read") /\ cmd.op = "off" /\ backup # Missing
  /\ target' = [target EXCEPT ![cmd.path] = backup]
  /\ wish' = IF backup = Half THEN [wish EXCEPT ![cmd.path] = Spoilt] ELSE wish
  /\ backup' = Missing
  /\ Goto("idle")

\* ... or, without one, a file with the marker is removed.
LookForMarker ==
  /\ Hermes("read") /\ cmd.op = "off" /\ backup = Missing
  /\ Goto(IF Marked(File) THEN "unlink" ELSE "idle")
  /\ UNCHANGED <<target, backup, wish>>

Unlink ==
  /\ Hermes("unlink")
  /\ target' = [target EXCEPT ![cmd.path] = Missing]
  /\ Goto("idle")
  /\ UNCHANGED <<backup, wish>>

Wrap ==
  \/ Snapshot \/ Copy \/ FillCopy \/ Load \/ WriteConfig \/ FillConfig
  \/ MoveBack \/ LookForMarker \/ Unlink

-----------------------------------------------------------------------------

Next ==
  \/ \E op \in {"on", "off"}, p \in Paths : Begin(op, p)
  \/ \E p \in Paths : Edit(p)
  \/ DeleteSidecar \/ Interrupt
  \/ Desktop \/ Wrap

Spec == Init /\ [][Next]_vars

-----------------------------------------------------------------------------
(* What must hold. *)

(***************************************************************************)
(* Types; a URL is always in its object, and what comes back from a backup *)
(* is something such a file can be.                                        *)
(***************************************************************************)
TypeOK ==
  /\ agent \in Agents
  /\ target \in [Paths -> Contents]
  /\ backup \in {Missing, Half} \cup IF agent = "claude" THEN Sidecars ELSE Contents
  /\ at \in {"idle", "read", "look", "save", "saving", "copy", "copying", "load", "write",
             "filling", "drop", "unlink"}
  /\ cmd \in [op : {"on", "off"}, path : Paths, saw : Contents]
  /\ wish \in [Paths -> Contents \cup {Spoilt} \cup [is : {"edited"}, rest : Rests]]

(***************************************************************************)
(* Once nothing is held for a file any more, it is again exactly what the  *)
(* user had, whatever commands ran, failed or were interrupted in between, *)
(* on this file or another: the object acr added is gone, the file acr     *)
(* made is gone, and a first `on` that is repeated does not take its own   *)
(* URL for the user's.  Excepted are edits made while something was held   *)
(* or a command ran, settings cut short without a copy of them, and half a *)
(* copy of Hermes's file, once `unwrap` has put it back.                   *)
(***************************************************************************)
OffRestores ==
  at = "idle" => \A p \in Paths : ~Held(p) /\ wish[p] \in Contents => target[p] = wish[p]

(***************************************************************************)
(* Claude's other settings are the user's: those last edited are there,    *)
(* while acr is on and after, unless the file was cut short or edited in   *)
(* the middle of a command.  (Hermes gets its copy back byte for byte, and *)
(* with it the settings from before.)                                      *)
(***************************************************************************)
OtherSettingsStay ==
  agent = "claude" =>
    \A p \in Paths : wish[p] # Spoilt /\ target[p].is = "whole" => target[p].rest = RestOf(wish[p])

(***************************************************************************)
(* No file is left pointing at the proxy, which may not be running, with   *)
(* no way back: at every step of every command, and wherever it is cut     *)
(* off, the backup that `off` needs belongs to the file and holds what the *)
(* user had.  There is one case in which it does not, and no other: a copy *)
(* of Hermes's file that was cut short is taken for whole by the next      *)
(* `wrap`, which points the file at the proxy with half of what the user   *)
(* had to go back to (_snapshot_original asks only if the copy exists).    *)
(***************************************************************************)
NeverStranded ==
  \A p \in Paths :
    LET c == target[p]
    IN (c.is = "whole" /\ c.url = "proxy" /\ wish[p] \in Contents \ {c}) =>
         IF agent = "claude"
         THEN Held(p) /\ backup.previous = Parsed(wish[p]).url
         ELSE IF wish[p] = Missing THEN backup = Missing /\ c.marked
              ELSE backup \in {wish[p], Half}

-----------------------------------------------------------------------------
(* The inductive invariant behind the four above. *)

StepsOf(a) ==
  IF a = "claude"
  THEN {"idle", "read", "look", "save", "saving", "write", "filling", "drop"}
  ELSE {"idle", "read", "copy", "copying", "load", "write", "filling", "unlink"}

\* What the user is entitled to never has the mark of acr.
OwnWish ==
  \A p \in Paths : wish[p] \in Contents =>
    /\ agent = "claude" => ~Proxied(wish[p])
    /\ agent = "hermes" => ~Marked(wish[p])

\* Where a command is, and that Hermes has one file.
Progress ==
  /\ at \in StepsOf(agent)
  /\ agent = "hermes" =>
       /\ at # "idle" => cmd.path = HermesPath
       /\ \A p \in Paths \ {HermesPath} : target[p] = wish[p]

\* A command of Claude's has a sidecar of its own file when it writes, and what it
\* read is what it will write, with or without the URL.
ClaudeCommand ==
  /\ at = "save" => cmd.op = "on" /\ backup = Missing
  /\ at = "saving" => cmd.op = "on" /\ backup = Half
  /\ at = "drop" => cmd.op = "off"
  /\ at \in {"write", "filling", "drop"} => Held(cmd.path)
  /\ at \in {"look", "save", "saving"} => (Proxied(cmd.saw) => Held(cmd.path))
  /\ at \in {"look", "save", "saving", "write", "filling"} =>
       /\ cmd.saw.is \in {"missing", "whole"}
       /\ wish[cmd.path] # Spoilt => RestOf(cmd.saw) = RestOf(wish[cmd.path])
       /\ wish[cmd.path] \in Contents =>
            cmd.saw \in {wish[cmd.path], Routed(Parsed(wish[cmd.path]))}

Filling(p) == at = "filling" /\ cmd.path = p /\ target[p] = Half

\* A file without a sidecar is the user's; with one it is the user's or the user's
\* with the URL, the rest is kept, and the sidecar is of what the user had.
ClaudeFile(p) ==
  /\ Proxied(target[p]) => Held(p)
  /\ ~Held(p) /\ wish[p] \in Contents => target[p] = wish[p]
  /\ Held(p) => backup.previous # "proxy"
  /\ Held(p) /\ wish[p] \in Contents =>
       /\ backup = SidecarOf(p, wish[p]) /\ wish[p].is \in {"missing", "whole"}
       /\ target[p] \in {wish[p], Routed(Parsed(wish[p]))} \/ Filling(p)
  /\ wish[p] # Spoilt => RestOf(target[p]) = RestOf(wish[p]) \/ Filling(p)
  /\ at = "drop" /\ cmd.path = p =>
       ~Proxied(target[p]) /\ (wish[p] \in Contents => target[p] = wish[p])

ClaudeFiles == \A p \in Paths : ClaudeFile(p)

\* Hermes's file is the user's, or the copy is, if it was not cut short; without a
\* copy the user had none.
HermesFile ==
  LET p == HermesPath
  IN  /\ at \in {"copy", "unlink"} => backup = Missing
      /\ at = "copying" => backup = Half
      /\ wish[p] \in Contents =>
           /\ backup = Missing =>
                \/ target[p] = wish[p]
                \/ wish[p] = Missing /\ (Marked(target[p]) \/ (at = "filling" /\ target[p] = Half))
           /\ at = "copy" => target[p] = wish[p]
           /\ at = "copying" => target[p] = wish[p] /\ wish[p] # Missing
           /\ backup # Missing => backup \in {wish[p], Half} /\ wish[p] # Missing
           /\ at \in {"load", "write", "filling"} => backup \in {wish[p], Half}
           /\ at = "unlink" => wish[p] = Missing

IInv ==
  /\ TypeOK /\ OwnWish /\ Progress
  /\ agent = "claude" => ClaudeCommand /\ ClaudeFiles
  /\ agent = "hermes" => HermesFile
==========
