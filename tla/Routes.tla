-------------------------------- MODULE Routes --------------------------------
(***************************************************************************)
(* The routes a request is decided by: config.yaml and one provider file   *)
(* per agent group, read through two caches while other processes write    *)
(* them.                                                                   *)
(*   - server._load_assembled_routes keeps the assembled routes under the  *)
(*     signature (mtime, size, inode) of all the files;                    *)
(*   - decide.load_routes, below it, keeps the parsed config.yaml under    *)
(*     its mtime alone.                                                    *)
(*                                                                         *)
(* Loading runs on the event loop, one load at a time; every stat and      *)
(* every read is a step, and a writer may come between any two.  A file is *)
(* written in place (truncated, then filled) or replaced by a rename.      *)
(***************************************************************************)
EXTENDS Naturals, FiniteSets

CONSTANTS
  Groups,      \* the agent groups that have a provider file
  Tick,        \* writes that can get the same mtime: 1 when all differ
  ReadsFail,   \* an open or a read may fail for a reason of its own
  MaxWrites    \* bound on the number of writes explored

ASSUME RoutesAssumption ==
  /\ IsFiniteSet(Groups) /\ "config" \notin Groups
  /\ Tick \in Nat \ {0} /\ ReadsFail \in BOOLEAN /\ MaxWrites \in Nat

Files == {"config"} \cup Groups

\* What a file holds, told apart by what loading makes of it: "half" is a file
\* being filled, "bad" fails to parse or to validate, "raising" makes validation
\* itself fail (an upstream that urlsplit refuses), "flat" is a configuration
\* without a router block, which provider files do not apply to.
Contents == {"missing", "half", "bad", "raising", "flat", "routed", "new"}
Writable(f) ==
  {"bad", "new", "routed"} \cup (IF f = "config" THEN {"flat"} ELSE {"raising"})

VARIABLES
  file,      \* file[f]: its content and the stat fields that tell writes apart
  writes,    \* how many writes there were
  phase,     \* where the load under way is
  todo,      \* the files this phase has still to look at
  sig,       \* the signature taken
  base,      \* the base configuration of this load
  got,       \* got[g]: the provider payload read
  stamp,     \* the mtime load_routes took
  inner,     \* decide._cache
  outer,     \* server._ROUTES_CACHE; its "failed" is history: the files whose read failed then
  served,    \* what the last load returned
  held,      \* history: held[f], what f held since the load began
  failed     \* history: the files whose read failed in the load under way

disk == <<file, writes>>
work == <<sig, base, got, stamp>>
vars == <<file, writes, phase, todo, sig, base, got, stamp, inner, outer, served, held, failed>>

-----------------------------------------------------------------------------

File == [content : Contents, mtime : Nat, ino : {0, 1}]
Bases == {"none", "flat", "routed", "new"}
Payloads == {"default", "half", "bad", "raising", "routed", "new"}
RoutesSet == [base : Bases, group : [Groups -> {"default", "routed", "new"}]]
Nothing == [base |-> "none", group |-> [g \in Groups |-> "default"]]
Stat == [mtime : Nat, size : {0, 1}, ino : {0, 1}]
NoStat == [mtime |-> 0, size |-> 0, ino |-> 0]

TypeOK ==
  /\ file \in [Files -> File] /\ writes \in 0..MaxWrites
  /\ phase \in {"idle", "stat", "check", "base", "open", "providers", "store", "raised"}
  /\ todo \subseteq Files
  /\ sig \in [Files -> Stat] /\ stamp \in Nat /\ base \in Bases
  /\ got \in [Groups -> Payloads]
  /\ inner \in [mtime : Nat, base : Bases]
  /\ outer \in [known : BOOLEAN, sig : [Files -> Stat], routes : RoutesSet,
                failed : SUBSET Files]
  /\ served \in RoutesSet
  /\ held \in [Files -> SUBSET Contents] /\ failed \subseteq Files

Init ==
  /\ file \in [Files -> {[content |-> "missing", mtime |-> 0, ino |-> 0],
                         [content |-> "routed", mtime |-> 1, ino |-> 0]}]
  /\ writes = 0
  /\ phase = "idle" /\ todo = {}
  /\ sig = [f \in Files |-> NoStat] /\ stamp = 0 /\ base = "none"
  /\ got = [g \in Groups |-> "default"]
  /\ inner = [mtime |-> 0, base |-> "none"]
  /\ outer = [known |-> FALSE, sig |-> [f \in Files |-> NoStat], routes |-> Nothing,
              failed |-> {}]
  /\ served = Nothing
  /\ held = [f \in Files |-> {}] /\ failed = {}

-----------------------------------------------------------------------------
(* The writers. *)

\* The file system's clock: it ticks once in so many writes.
Now(n) == 1 + n \div Tick

\* No load is under way: the last one returned, or ended in an exception.
Between == phase \in {"idle", "raised"}

\* Every write stamps the file.
Write(f, content, ino) ==
  /\ writes < MaxWrites
  /\ writes' = writes + 1
  /\ file' = [file EXCEPT ![f] = [content |-> content, mtime |-> Now(writes'), ino |-> ino]]
  /\ held' = IF Between THEN held ELSE [held EXCEPT ![f] = @ \cup {content}]
  /\ UNCHANGED <<phase, todo, work, inner, outer, served, failed>>

\* Path.write_text opens the file, which empties it ...
Truncate(f) == file[f].content # "half" /\ Write(f, "half", file[f].ino)

\* ... and fills it.
Fill(f, content) == file[f].content = "half" /\ Write(f, content, file[f].ino)

\* An editor writes a new file and renames it over the old one.
Replace(f, content) == Write(f, content, 1 - file[f].ino)

Remove(f) == file[f].content # "missing" /\ Write(f, "missing", file[f].ino)

Edit(f) ==
  \/ Truncate(f) \/ Remove(f)
  \/ \E content \in Writable(f) : Fill(f, content) \/ Replace(f, content)

-----------------------------------------------------------------------------
(* One load. *)

\* A file's entry in the signature; files differ in size only from a file that
\* is being filled.
StatOf(f) ==
  IF file[f].content = "missing" THEN NoStat
  ELSE [mtime |-> file[f].mtime, size |-> IF file[f].content = "half" THEN 0 ELSE 1,
        ino |-> file[f].ino]

\* Mutation: what was read is taken without being validated.
ParsedUnvalidated(content) == IF content \in {"flat", "routed", "new", "bad"} THEN content ELSE "none"

\* load_routes: what a content that was read parses to; an empty file is {}.
Parsed(content) == IF content \in {"flat", "routed", "new"} THEN content ELSE "none"

Valid(payload) == payload \in {"routed", "new"}

\* _assemble_routes_fail_open: assembling stops at the first group, in order,
\* whose payload is at fault.  An invalid one is dropped and the rest tried again;
\* an exception that is no ProviderConfigError is not caught.  Which of several is
\* first makes no difference to how the loop ends.
Tried(b, payloads) ==
  LET Loop[S \in SUBSET Groups] ==
        IF \A g \in S : Valid(payloads[g]) THEN [ends |-> "assembled", kept |-> S]
        ELSE LET first == CHOOSE g \in S : ~Valid(payloads[g])
             IN  IF payloads[first] = "raising" THEN [ends |-> "raised", kept |-> {}]
                 ELSE Loop[S \ {first}]
  IN  Loop[IF b \in {"routed", "new"} THEN {g \in Groups : payloads[g] # "default"} ELSE {}]

Raises(b, payloads) == Tried(b, payloads).ends = "raised"

\* Mutation: the first invalid payload drops them all.
AssembledAllOrNone(b, payloads) ==
  [base |-> b,
   group |-> [g \in Groups |->
     IF b \in {"routed", "new"} /\ \A h \in Groups : payloads[h] = "default" \/ Valid(payloads[h])
     THEN payloads[g] ELSE "default"]]

Assembled(b, payloads) ==
  [base |-> b,
   group |-> [g \in Groups |-> IF g \in Tried(b, payloads).kept THEN payloads[g] ELSE "default"]]

\* What a load keeps in locals is gone when it ends.
Forget == base' = "none" /\ got' = [g \in Groups |-> "default"] /\ stamp' = 0

Begin ==
  /\ Between
  /\ phase' = "stat"
  /\ todo' = Files
  /\ held' = [f \in Files |-> {file[f].content}]
  /\ failed' = {}
  /\ UNCHANGED <<disk, work, inner, outer, served>>

\* _assembled_routes_signature, one stat after the other.
TakeStat(f) ==
  /\ phase = "stat" /\ f \in todo
  /\ sig' = [sig EXCEPT ![f] = StatOf(f)]
  /\ todo' = todo \ {f}
  /\ phase' = IF todo' = {} THEN "check" ELSE "stat"
  /\ UNCHANGED <<disk, base, got, stamp, inner, outer, served, held, failed>>

\* The outer cache answers if it was filled under this signature.
Hit ==
  /\ phase = "check" /\ outer.known /\ outer.sig = sig
  /\ served' = outer.routes
  /\ phase' = "idle"
  /\ UNCHANGED <<disk, todo, work, inner, outer, held, failed>>

Miss ==
  /\ phase = "check" /\ ~(outer.known /\ outer.sig = sig)
  /\ phase' = "base"
  /\ UNCHANGED <<disk, todo, work, inner, outer, served, held, failed>>

\* load_routes: stat, then the inner cache.
StatBase ==
  /\ phase = "base"
  /\ stamp' = file["config"].mtime
  /\ \/ /\ file["config"].content = "missing"
        /\ base' = "none" /\ phase' = "providers" /\ todo' = Groups
     \/ /\ file["config"].content # "missing" /\ inner.mtime = file["config"].mtime
        /\ base' = inner.base /\ phase' = "providers" /\ todo' = Groups
     \/ /\ file["config"].content # "missing" /\ inner.mtime # file["config"].mtime
        /\ phase' = "open"
        /\ UNCHANGED <<base, todo>>
  /\ UNCHANGED <<disk, sig, got, inner, outer, served, held, failed>>

\* Read, parse, validate; only a mapping that validates is kept.
OpenBase ==
  /\ phase = "open"
  /\ LET content == file["config"].content
     IN  /\ base' = Parsed(content)
         /\ inner' = IF content \in {"missing", "bad"} THEN inner
                     ELSE [mtime |-> stamp, base |-> Parsed(content)]
  /\ phase' = "providers" /\ todo' = Groups
  /\ UNCHANGED <<disk, sig, got, stamp, outer, served, held, failed>>

\* The stat, the open or the read fails.
OpenBaseFails ==
  /\ phase \in {"base", "open"} /\ ReadsFail
  /\ base' = "none"
  /\ failed' = failed \cup {"config"}
  /\ phase' = "providers" /\ todo' = Groups
  /\ UNCHANGED <<disk, sig, got, stamp, inner, outer, served, held>>

\* load_provider_files: a missing file or one that does not parse is left out.
ReadProvider(g) ==
  /\ phase = "providers" /\ g \in todo
  /\ got' = [got EXCEPT ![g] = IF file[g].content = "missing" THEN "default" ELSE file[g].content]
  /\ todo' = todo \ {g}
  /\ phase' = IF todo' = {} THEN "store" ELSE "providers"
  /\ UNCHANGED <<disk, sig, base, stamp, inner, outer, served, held, failed>>

ReadProviderFails(g) ==
  /\ phase = "providers" /\ g \in todo /\ ReadsFail
  /\ got' = [got EXCEPT ![g] = "default"]
  /\ failed' = failed \cup {g}
  /\ todo' = todo \ {g}
  /\ phase' = IF todo' = {} THEN "store" ELSE "providers"
  /\ UNCHANGED <<disk, sig, base, stamp, inner, outer, served, held>>

\* Whether the file exists is asked outside the try: an error ends the load.
ExistsRaises(g) ==
  /\ phase = "providers" /\ g \in todo /\ ReadsFail
  /\ failed' = failed \cup {g}
  /\ phase' = "raised" /\ todo' = {}
  /\ Forget
  /\ UNCHANGED <<disk, sig, inner, outer, served, held>>

Store ==
  /\ phase = "store" /\ ~Raises(base, got)
  /\ served' = Assembled(base, got)
  /\ outer' = [known |-> TRUE, sig |-> sig, routes |-> served', failed |-> failed]
  /\ phase' = "idle"
  /\ failed' = {}
  /\ Forget
  /\ UNCHANGED <<disk, todo, sig, inner, held>>

\* The exception goes up to the handler of the request; nothing is cached.
AssemblyRaises ==
  /\ phase = "store" /\ Raises(base, got)
  /\ phase' = "raised"
  /\ Forget
  /\ UNCHANGED <<disk, todo, sig, inner, outer, served, held, failed>>

Load ==
  \/ Begin \/ (\E f \in Files : TakeStat(f)) \/ Hit \/ Miss
  \/ StatBase \/ OpenBase \/ OpenBaseFails
  \/ (\E g \in Groups : ReadProvider(g) \/ ReadProviderFails(g) \/ ExistsRaises(g))
  \/ Store \/ AssemblyRaises

Next == Load \/ \E f \in Files : Edit(f)

Spec == Init /\ [][Next]_vars

-----------------------------------------------------------------------------
(* What must hold. *)

\* The part of the routes a provider file's content stands for: none if it ends
\* the load.
Means(content) ==
  IF Valid(content) THEN content ELSE IF content = "raising" THEN "none" ELSE "default"

\* Whatever the caches hold and whenever the files are written, a load returns,
\* for each file whose read did not fail, what that file held at some time
\* during the load: two caches with different keys never bring an older version
\* back, and an invalid provider file takes nothing from the others.  A load that
\* ends in an exception instead does so for a provider file that could not be
\* looked at or held, during the load, what the loader cannot drop, and never
\* with such a file's routes in the cache.  The exception is a file the load
\* finds missing: all absences have one signature, so a file created in mid-load
\* and deleted later can be served from the cache.
ServesWhatWasThere ==
  /\ phase = "idle" /\ outer.known =>
       /\ "config" \notin outer.failed /\ sig["config"] # NoStat =>
            \E c \in held["config"] : served.base = Parsed(c)
       /\ \A g \in Groups :
            IF served.base \in {"none", "flat"} THEN served.group[g] = "default"
            ELSE g \notin outer.failed /\ sig[g] # NoStat =>
                   \E c \in held[g] : served.group[g] = Means(c)
  /\ phase = "raised" => \E g \in Groups : g \in failed \/ "raising" \in held[g]

-----------------------------------------------------------------------------
(* The inductive invariant behind it, for files whose writes all differ in *)
(* mtime.                                                                  *)

\* Only config.yaml can be without a router block; a provider file is bad then.
NoFlatProvider == \A g \in Groups : file[g].content # "flat"

\* Every stamp is of a write that was, so the next write has a new one.
Stamps ==
  /\ stamp <= Now(writes) /\ inner.mtime <= Now(writes)
  /\ \A f \in Files :
       /\ file[f].mtime <= Now(writes) /\ sig[f].mtime <= Now(writes)
       /\ outer.sig[f].mtime <= Now(writes)
       /\ file[f].content # "missing" => file[f].mtime > 0

\* What is still to be done, and that a load sees what its files hold.
Progress ==
  /\ phase \in {"check", "base", "open", "store"} => todo = {}
  /\ phase \notin {"providers", "store", "raised"} => failed = {}
  /\ phase = "providers" => todo \subseteq Groups
  /\ ~Between => \A f \in Files : file[f].content \in held[f]

\* The file is there and was not written since its mtime was taken.
Since(f, mtime) == file[f].content # "missing" /\ file[f].mtime = mtime

\* What routes, or the load under way, have of a file that held content.
Shows(routes, f, content) ==
  IF f = "config" THEN routes.base = Parsed(content)
  ELSE routes.base \in {"routed", "new"} => routes.group[f] = Means(content)

Read(f, content) ==
  IF f = "config" THEN base = Parsed(content)
  ELSE got[f] = IF content = "missing" THEN "default" ELSE content

InnerIsFresh == Since("config", inner.mtime) => inner.base = Parsed(file["config"].content)

\* The outer cache has of a file what it holds as long as its signature is the
\* file's, and what it held during the load once this one's signature agrees.
OuterIsFresh ==
  outer.known =>
    \A f \in Files \ outer.failed :
      /\ Since(f, outer.sig[f].mtime) => Shows(outer.routes, f, file[f].content)
      /\ phase \in {"stat", "check"} /\ f \notin todo /\ sig[f] # NoStat /\ sig[f] = outer.sig[f] =>
           \E c \in held[f] : Shows(outer.routes, f, c)

\* So has the load under way, of the files it has read.
WorkIsFresh ==
  phase \in {"providers", "store"} =>
    \A f \in Files \ (failed \cup todo) :
      /\ \E c \in held[f] : Read(f, c)
      /\ Since(f, sig[f].mtime) => Read(f, file[f].content)

FlatHasDefaults ==
  outer.routes.base \in {"none", "flat"} => \A g \in Groups : outer.routes.group[g] = "default"

IInv ==
  /\ TypeOK /\ NoFlatProvider /\ Stamps /\ Progress
  /\ InnerIsFresh /\ OuterIsFresh /\ WorkIsFresh /\ FlatHasDefaults
  /\ ServesWhatWasThere
=============================================================================
