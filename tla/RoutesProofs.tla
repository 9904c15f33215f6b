----------------------------- MODULE RoutesProofs -----------------------------
(***************************************************************************)
(* Proofs about Routes, for any number of agent groups.                    *)
(***************************************************************************)
EXTENDS Routes, FiniteSetTheorems, WellFoundedInduction, TLAPS

\* One round of the loop over the payloads of a set of groups.
Round(payloads, L) ==
  [S \in SUBSET Groups |->
    IF \A g \in S : Valid(payloads[g]) THEN [ends |-> "assembled", kept |-> S]
    ELSE LET first == CHOOSE g \in S : ~Valid(payloads[g])
         IN  IF payloads[first] = "raising" THEN [ends |-> "raised", kept |-> {}]
             ELSE L[S \ {first}]]

\* How the loop ends: with the valid payloads, unless one of them all raises.
Ending(payloads, S) ==
  IF \E g \in S : payloads[g] = "raising" THEN [ends |-> "raised", kept |-> {}]
  ELSE [ends |-> "assembled", kept |-> {g \in S : Valid(payloads[g])}]

\* One round from an invalid payload leads to the same end.
LEMMA RoundEnds ==
  ASSUME NEW payloads, NEW S \in SUBSET Groups, NEW g \in S, ~Valid(payloads[g]),
         payloads[g] # "raising"
  PROVE  Ending(payloads, S \ {g}) = Ending(payloads, S)
BY DEF Ending

\* A valid payload does not raise.
LEMMA ValidNeverRaises == ASSUME NEW c, Valid(c) PROVE c # "raising" /\ c # "default"
BY DEF Valid

\* Dropping the invalid payloads one at a time leaves the valid ones.
LEMMA LoopEnds ==
  ASSUME NEW payloads, NEW L, L = Round(payloads, L), NEW T \in SUBSET Groups
  PROVE  L[T] = Ending(payloads, T)
<1> DEFINE wrong == {S \in SUBSET Groups : L[S] # Ending(payloads, S)}
<1> SUFFICES ASSUME wrong # {} PROVE FALSE
  OBVIOUS
<1>1. PICK S \in wrong : \A R \in wrong : ~(R \subseteq S /\ R # S)
  <2>1. IsWellFoundedOn(StrictSubsetOrdering(Groups), SUBSET Groups)
    <3>1. IsWellFoundedOn(StrictSubsetOrdering(Groups), FiniteSubsetsOf(Groups))
      BY FS_StrictSubsetOrderingWellFounded
    <3>2. FiniteSubsetsOf(Groups) = SUBSET Groups
      BY FS_FiniteSubsetsOfFinite, RoutesAssumption
    <3> QED BY <3>1, <3>2
  <2>2. wrong \subseteq SUBSET Groups
    OBVIOUS
  <2> HIDE DEF wrong
  <2>3. PICK S \in wrong : \A R \in wrong : <<R, S>> \notin StrictSubsetOrdering(Groups)
    BY <2>1, <2>2, WFMin, Zenon
  <2>4. ASSUME NEW R \in wrong, R \subseteq S, R # S PROVE FALSE
    BY <2>2, <2>3, <2>4 DEF StrictSubsetOrdering
  <2> QED BY <2>4
<1>2. S \in SUBSET Groups /\ L[S] # Ending(payloads, S)
  OBVIOUS
<1> DEFINE first == CHOOSE g \in S : ~Valid(payloads[g])
<1>3. L[S] = IF \A g \in S : Valid(payloads[g]) THEN [ends |-> "assembled", kept |-> S]
             ELSE IF payloads[first] = "raising" THEN [ends |-> "raised", kept |-> {}]
             ELSE L[S \ {first}]
  BY <1>2 DEF Round
<1>4. CASE \A g \in S : Valid(payloads[g])
  <2>1. L[S] = [ends |-> "assembled", kept |-> S]
    BY <1>3, <1>4
  <2>2. {g \in S : Valid(payloads[g])} = S /\ ~\E g \in S : payloads[g] = "raising"
    BY <1>4, ValidNeverRaises
  <2> QED BY <1>2, <2>1, <2>2 DEF Ending
<1>5. CASE ~\A g \in S : Valid(payloads[g])
  <2>1. first \in S /\ ~Valid(payloads[first])
    BY <1>5
  <2> HIDE DEF first
  <2>2. CASE payloads[first] = "raising"
    BY <1>2, <1>3, <1>5, <2>1, <2>2 DEF Ending
  <2>3. CASE payloads[first] # "raising"
    <3>1. L[S] = L[S \ {first}]
      BY <1>3, <1>5, <2>3
    <3>2. S \ {first} \in SUBSET Groups /\ S \ {first} \subseteq S /\ S \ {first} # S
      BY <1>2, <2>1
    <3>3. L[S \ {first}] = Ending(payloads, S \ {first})
      BY <1>1, <3>2
    <3> QED BY <1>2, <2>1, <2>3, <3>1, <3>3, RoundEnds
  <2> QED BY <2>2, <2>3
<1> QED BY <1>4, <1>5

(***************************************************************************)
(* What one provider file's fault does to the others                       *)
(* (_assemble_routes_fail_open, which drops the first invalid payload and  *)
(* tries again): the load ends in an exception just if there is a router   *)
(* block and some payload's validation raises, whatever the other payloads *)
(* are; otherwise the routes have every payload that is valid on its own,  *)
(* and the default for every other one.                                    *)
(***************************************************************************)
THEOREM FaultsStayApart ==
  ASSUME NEW b, NEW payloads
  PROVE  /\ Raises(b, payloads) <=>
              b \in {"routed", "new"} /\ \E g \in Groups : payloads[g] = "raising"
         /\ ~Raises(b, payloads) =>
              Assembled(b, payloads) =
                [base |-> b,
                 group |-> [g \in Groups |->
                   IF b \in {"routed", "new"} /\ Valid(payloads[g]) THEN payloads[g] ELSE "default"]]
<1> DEFINE Is == [S \in SUBSET Groups |-> Ending(payloads, S)]
           Loop == CHOOSE L : L = Round(payloads, L)
           given == IF b \in {"routed", "new"} THEN {g \in Groups : payloads[g] # "default"} ELSE {}
<1>1. Is = Round(payloads, Is)
  <2>1. ASSUME NEW S \in SUBSET Groups PROVE Is[S] = Round(payloads, Is)[S]
    <3>1. CASE \A g \in S : Valid(payloads[g])
      <4>1. {g \in S : Valid(payloads[g])} = S /\ ~\E g \in S : payloads[g] = "raising"
        BY <3>1, ValidNeverRaises
      <4> QED BY <3>1, <4>1 DEF Round, Ending
    <3>2. CASE ~\A g \in S : Valid(payloads[g])
      <4> DEFINE first == CHOOSE g \in S : ~Valid(payloads[g])
      <4>1. first \in S /\ ~Valid(payloads[first])
        BY <3>2
      <4>2. Round(payloads, Is)[S] = IF payloads[first] = "raising" THEN [ends |-> "raised", kept |-> {}]
                                     ELSE Is[S \ {first}]
        BY <3>2 DEF Round
      <4>3. Is[S \ {first}] = Ending(payloads, S \ {first}) /\ Is[S] = Ending(payloads, S)
        OBVIOUS
      <4> HIDE DEF first, Is
      <4>4. CASE payloads[first] = "raising"
        BY <4>1, <4>2, <4>3, <4>4 DEF Ending
      <4>5. CASE payloads[first] # "raising"
        BY <4>1, <4>2, <4>3, <4>5, RoundEnds
      <4> QED BY <4>4, <4>5
    <3> QED BY <3>1, <3>2
  <2> QED BY <2>1 DEF Round
<1>2. Loop = Round(payloads, Loop)
  <2> HIDE DEF Is
  <2> QED BY <1>1, Zenon
<1>3. Loop[given] = Ending(payloads, given)
  <2>1. given \in SUBSET Groups
    OBVIOUS
  <2> HIDE DEF Loop, given
  <2> QED BY <1>2, <2>1, LoopEnds
<1>4. Tried(b, payloads) = Loop[given]
  BY DEF Tried, Round
<1>5. Tried(b, payloads) = Ending(payloads, given)
  BY <1>3, <1>4
<1> HIDE DEF Loop
<1>6. "raising" # "default" /\ ~Valid("default")
  BY DEF Valid
<1>7. Raises(b, payloads) <=> \E g \in given : payloads[g] = "raising"
  BY <1>5 DEF Raises, Ending
<1>8. Raises(b, payloads) <=> b \in {"routed", "new"} /\ \E g \in Groups : payloads[g] = "raising"
  BY <1>6, <1>7
<1>9. ASSUME ~Raises(b, payloads), NEW g \in Groups
      PROVE  g \in Tried(b, payloads).kept <=> b \in {"routed", "new"} /\ Valid(payloads[g])
  BY <1>5, <1>6, <1>7, <1>9 DEF Ending
<1> QED BY <1>8, <1>9 DEF Assembled

-----------------------------------------------------------------------------
(* Types. *)

\* The clock is a natural number.
LEMMA NowTyped == ASSUME NEW n \in Nat PROVE Now(n) \in Nat
<1>1. Tick \in Nat /\ Tick > 0
  BY RoutesAssumption
<1>2. n \div Tick \in Int /\ n \div Tick >= 0
  BY <1>1, SMTT(30)
<1> QED BY <1>2 DEF Now

LEMMA StatTyped == ASSUME TypeOK, NEW f \in Files PROVE StatOf(f) \in Stat
BY DEF TypeOK, StatOf, Stat, NoStat, File, Contents

\* What is assembled are routes.
LEMMA AssembledTyped ==
  ASSUME NEW b \in Bases, NEW payloads \in [Groups -> Payloads], ~Raises(b, payloads)
  PROVE  /\ Assembled(b, payloads) \in RoutesSet
         /\ Assembled(b, payloads).base = b
         /\ \A g \in Groups : Assembled(b, payloads).group[g] =
               IF b \in {"routed", "new"} /\ Valid(payloads[g]) THEN payloads[g] ELSE "default"
BY FaultsStayApart DEF RoutesSet, Valid

\* One write changes one file and its stamp, and what a load under way saw.
Wrote(f, content, ino) ==
  /\ writes' = writes + 1 /\ writes' <= MaxWrites
  /\ file' = [file EXCEPT ![f] = [content |-> content, mtime |-> Now(writes'), ino |-> ino]]
  /\ held' = IF Between THEN held ELSE [held EXCEPT ![f] = @ \cup {content}]
  /\ UNCHANGED <<phase, todo, sig, base, got, stamp, inner, outer, served, failed>>

LEMMA EditStep ==
  ASSUME TypeOK, NEW f \in Files, Edit(f)
  PROVE  \E content \in Contents, ino \in {0, 1} :
           Wrote(f, content, ino) /\ (content = "flat" => f = "config")
<1>1. file[f].ino \in {0, 1} /\ 1 - file[f].ino \in {0, 1}
  BY DEF TypeOK, File
<1>2. PICK content \in Contents, ino \in {0, 1} :
        Write(f, content, ino) /\ (content = "flat" => f = "config")
  BY <1>1 DEF Edit, Truncate, Remove, Fill, Replace, Writable, Contents
<1>3. writes \in 0..MaxWrites /\ MaxWrites \in Nat
  BY RoutesAssumption DEF TypeOK
<1>4. writes + 1 <= MaxWrites
  BY <1>2, <1>3 DEF Write
<1>5. Wrote(f, content, ino)
  BY <1>2, <1>4 DEF Write, Wrote, work
<1> QED BY <1>2, <1>5

LEMMA InitTyped == Init => TypeOK /\ NoFlatProvider
<1> SUFFICES ASSUME Init PROVE TypeOK /\ NoFlatProvider
  OBVIOUS
<1>1. file \in [Files -> File]
  BY DEF Init, File, Contents
<1>2. NoStat \in Stat /\ Nothing \in RoutesSet
  BY DEF NoStat, Stat, Nothing, RoutesSet, Bases
<1>3. held \in [Files -> SUBSET Contents] /\ got \in [Groups -> Payloads]
  BY DEF Init, Payloads
<1>4. NoFlatProvider
  BY DEF Init, NoFlatProvider, Files
<1> QED BY <1>1, <1>2, <1>3, <1>4, RoutesAssumption DEF Init, TypeOK, Bases

\* What a load leaves behind of its locals.
LEMMA ForgetTyped ==
  ASSUME Forget
  PROVE  base' \in Bases /\ got' \in [Groups -> Payloads] /\ stamp' = 0
BY DEF Forget, Bases, Payloads

\* Every step keeps the types.
LEMMA Typed ==
  ASSUME TypeOK, NoFlatProvider, [Next]_vars
  PROVE  TypeOK'
<1> USE DEF TypeOK, disk, work
<1>1. ASSUME NEW f \in Files, Edit(f)
      PROVE  TypeOK'
  <2>1. PICK content \in Contents, ino \in {0, 1} : Wrote(f, content, ino)
    BY <1>1, EditStep
  <2>2. writes' \in 0..MaxWrites /\ Now(writes') \in Nat
    BY <2>1, NowTyped, RoutesAssumption DEF Wrote
  <2>3. [content |-> content, mtime |-> Now(writes'), ino |-> ino] \in File
    BY <2>2 DEF File
  <2>4. file' \in [Files -> File] /\ held' \in [Files -> SUBSET Contents]
    BY <2>1, <2>3 DEF Wrote
  <2> QED BY <2>1, <2>2, <2>4 DEF Wrote
<1>2. CASE Begin
  <2>1. held' \in [Files -> SUBSET Contents]
    BY <1>2 DEF Begin, File
  <2> QED BY <1>2, <2>1 DEF Begin
<1>3. ASSUME NEW f \in Files, TakeStat(f)
      PROVE  TypeOK'
  <2>1. sig' \in [Files -> Stat]
    BY <1>3, StatTyped DEF TakeStat
  <2> QED BY <1>3, <2>1 DEF TakeStat
<1>4. CASE Hit
  BY <1>4 DEF Hit
<1>5. CASE Miss
  BY <1>5 DEF Miss
<1>6. CASE StatBase
  <2>1. file["config"] \in File /\ Groups \subseteq Files
    BY DEF Files
  <2>2. stamp' \in Nat /\ base' \in Bases
    BY <1>6, <2>1 DEF StatBase, File, Bases
  <2> QED BY <1>6, <2>1, <2>2 DEF StatBase
<1>7. CASE OpenBase
  <2>1. ASSUME NEW c PROVE Parsed(c) \in Bases
    BY DEF Parsed, Bases
  <2>2. inner' \in [mtime : Nat, base : Bases] /\ base' \in Bases
    BY <1>7, <2>1 DEF OpenBase
  <2> QED BY <1>7, <2>2 DEF OpenBase, Files
<1>8. CASE OpenBaseFails
  BY <1>8 DEF OpenBaseFails, Bases, Files
<1>9. ASSUME NEW g \in Groups, ReadProvider(g) \/ ReadProviderFails(g)
      PROVE  TypeOK'
  <2>1. g \in Files /\ file[g].content \in Contents \ {"flat"}
    BY DEF Files, File, NoFlatProvider
  <2>2. CASE ReadProviderFails(g)
    <3>1. got' \in [Groups -> Payloads]
      BY <2>2 DEF ReadProviderFails, Payloads
    <3> QED BY <2>1, <2>2, <3>1 DEF ReadProviderFails
  <2>3. CASE ReadProvider(g)
    <3>1. got' \in [Groups -> Payloads]
      BY <2>1, <2>3 DEF ReadProvider, Payloads, Contents
    <3> QED BY <2>1, <2>3, <3>1 DEF ReadProvider
  <2> QED BY <1>9, <2>2, <2>3
<1>10. CASE Store
  <2>1. served' \in RoutesSet
    BY <1>10, AssembledTyped DEF Store
  <2> QED BY <1>10, <2>1, ForgetTyped DEF Store
<1>11. CASE UNCHANGED vars
  BY <1>11 DEF vars
<1>12. ASSUME NEW g \in Groups, ExistsRaises(g)
       PROVE  TypeOK'
  BY <1>12, ForgetTyped DEF ExistsRaises, Files
<1>13. CASE AssemblyRaises
  BY <1>13, ForgetTyped DEF AssemblyRaises
<1> QED
  BY <1>1, <1>2, <1>3, <1>4, <1>5, <1>6, <1>7, <1>8, <1>9, <1>10, <1>11, <1>12, <1>13 DEF Next, Load

LEMMA NoFlatKept ==
  ASSUME TypeOK, NoFlatProvider, [Next]_vars
  PROVE  NoFlatProvider'
<1>1. ASSUME NEW f \in Files, Edit(f)
      PROVE  NoFlatProvider'
  <2>1. PICK content \in Contents, ino \in {0, 1} :
          Wrote(f, content, ino) /\ (content = "flat" => f = "config")
    BY <1>1, EditStep
  <2>2. "config" \notin Groups /\ Groups \subseteq Files
    BY RoutesAssumption DEF Files
  <2> QED BY <2>1, <2>2 DEF Wrote, NoFlatProvider, TypeOK
<1>2. CASE Load \/ UNCHANGED vars
  BY <1>2 DEF Load, Begin, TakeStat, Hit, Miss, StatBase, OpenBase, OpenBaseFails, ReadProvider,
              ReadProviderFails, ExistsRaises, Store, AssemblyRaises, vars, disk, NoFlatProvider
<1> QED BY <1>1, <1>2 DEF Next

(***************************************************************************)
(* The caches, the routes and the load are what they can be, whatever the  *)
(* other processes write and however coarse the clock is.                  *)
(***************************************************************************)
THEOREM TypeCorrect == Spec => []TypeOK
<1>1. TypeOK /\ NoFlatProvider /\ [Next]_vars => TypeOK' /\ NoFlatProvider'
  BY Typed, NoFlatKept
<1> QED BY <1>1, InitTyped, PTL DEF Spec

-----------------------------------------------------------------------------
(* Freshness, when no two writes get the same mtime. *)

\* A write gets an mtime that nothing has seen.
LEMMA WriteIsNew ==
  ASSUME Tick = 1, TypeOK, NEW f \in Files, NEW content \in Contents, NEW ino \in {0, 1},
         Wrote(f, content, ino)
  PROVE  /\ Now(writes) \in Nat /\ Now(writes') = Now(writes) + 1
         /\ file'[f].mtime = Now(writes) + 1 /\ file'[f].content = content
         /\ \A h \in Files \ {f} : file'[h] = file[h]
<1>1. writes \in Nat /\ \A n \in Nat : Now(n) = 1 + n
  <2>1. \A n \in Nat : n \div 1 = n
    OBVIOUS
  <2> QED BY <2>1, RoutesAssumption DEF TypeOK, Now
<1>2. writes' \in Nat /\ writes' = writes + 1
  BY <1>1 DEF Wrote
<1>3. Now(writes') = Now(writes) + 1 /\ Now(writes) \in Nat
  BY <1>1, <1>2
<1> QED BY <1>3 DEF Wrote, TypeOK

LEMMA InitHolds == Init => IInv
<1> SUFFICES ASSUME Init PROVE IInv
  OBVIOUS
<1>1. TypeOK /\ NoFlatProvider
  BY InitTyped
<1>2. Now(0) \in Nat /\ Now(0) >= 1
  BY RoutesAssumption, NowTyped DEF Now
<1>3. Stamps
  BY <1>1, <1>2 DEF Init, Stamps, NoStat, TypeOK
<1>4. Progress /\ OuterIsFresh /\ WorkIsFresh /\ ServesWhatWasThere
  BY DEF Init, Progress, OuterIsFresh, WorkIsFresh, ServesWhatWasThere, Between
<1>5. InnerIsFresh /\ FlatHasDefaults
  BY DEF Init, InnerIsFresh, Since, FlatHasDefaults, Nothing, Files
<1> QED BY <1>1, <1>3, <1>4, <1>5 DEF IInv

\* Every step keeps the stamps behind the clock.
LEMMA StampsKept ==
  ASSUME Tick = 1, TypeOK, Stamps, [Next]_vars
  PROVE  Stamps'
<1>1. ASSUME NEW f \in Files, Edit(f)
      PROVE  Stamps'
  <2>1. PICK content \in Contents, ino \in {0, 1} : Wrote(f, content, ino)
    BY <1>1, EditStep
  <2>2. /\ Now(writes) \in Nat /\ Now(writes') = Now(writes) + 1
        /\ file'[f].mtime = Now(writes) + 1
        /\ \A h \in Files \ {f} : file'[h] = file[h]
    BY <2>1, WriteIsNew
  <2>3. \A h \in Files : file[h].mtime \in Nat /\ sig[h].mtime \in Nat /\ outer.sig[h].mtime \in Nat
    BY DEF TypeOK, File, Stat
  <2>4. stamp \in Nat /\ inner.mtime \in Nat
    BY DEF TypeOK
  <2>5. UNCHANGED <<sig, stamp, inner, outer>>
    BY <2>1 DEF Wrote
  <2> QED BY <2>2, <2>3, <2>4, <2>5 DEF Stamps
<1>2. ASSUME NEW f \in Files, TakeStat(f)
      PROVE  Stamps'
  <2>1. writes \in Nat /\ Now(writes) \in Nat
    BY RoutesAssumption, NowTyped DEF TypeOK
  <2>2. StatOf(f).mtime <= Now(writes)
    BY <2>1 DEF StatOf, NoStat, Stamps, TypeOK
  <2> QED BY <1>2, <2>2 DEF TakeStat, Stamps, TypeOK, disk
<1>3. CASE StatBase
  BY <1>3 DEF StatBase, Stamps, disk, Files
<1>4. CASE OpenBase
  BY <1>4 DEF OpenBase, Stamps, disk
<1>5. ASSUME Store \/ AssemblyRaises \/ \E g \in Groups : ExistsRaises(g)
      PROVE  Stamps'
  <2>1. /\ stamp' = 0 /\ UNCHANGED <<disk, sig, inner>>
        /\ outer'.sig = sig \/ outer' = outer
    BY <1>5 DEF Store, AssemblyRaises, ExistsRaises, Forget
  <2>2. 0 <= Now(writes)
    <3>1. inner.mtime \in Nat /\ Now(writes) \in Nat
      BY RoutesAssumption, NowTyped DEF TypeOK
    <3> QED BY <3>1
  <2> QED BY <2>1, <2>2 DEF Stamps, disk
<1>6. CASE UNCHANGED <<disk, sig, stamp, inner, outer>>
  BY <1>6 DEF Stamps, disk
<1>7. CASE \/ Begin \/ Hit \/ Miss \/ OpenBaseFails \/ UNCHANGED vars
           \/ \E g \in Groups : ReadProvider(g) \/ ReadProviderFails(g)
  BY <1>6, <1>7 DEF Begin, Hit, Miss, OpenBaseFails, ReadProvider, ReadProviderFails, work, vars, disk
<1> QED BY <1>1, <1>2, <1>3, <1>4, <1>5, <1>7 DEF Next, Load

\* Every step keeps what is still to be done, and what a load has seen.
LEMMA ProgressKept ==
  ASSUME TypeOK, Progress, [Next]_vars
  PROVE  Progress'
<1> USE DEF Progress
<1>1. ASSUME NEW f \in Files, Edit(f)
      PROVE  Progress'
  <2>1. PICK content \in Contents, ino \in {0, 1} : Wrote(f, content, ino)
    BY <1>1, EditStep
  <2>2. ~Between => \A h \in Files : file'[h].content \in held'[h]
    <3>1. SUFFICES ASSUME ~Between, NEW h \in Files PROVE file'[h].content \in held'[h]
      OBVIOUS
    <3>2. CASE h = f
      BY <2>1, <3>1, <3>2 DEF Wrote, TypeOK
    <3>3. CASE h # f
      BY <2>1, <3>1, <3>3 DEF Wrote, TypeOK
    <3> QED BY <3>2, <3>3
  <2> QED BY <2>1, <2>2 DEF Wrote, Between
<1>2. CASE Begin
  BY <1>2 DEF Begin, disk, Between
<1>3. ASSUME NEW f \in Files, TakeStat(f)
      PROVE  Progress'
  BY <1>3 DEF TakeStat, disk, Between
<1>4. CASE Hit \/ Miss \/ Store \/ AssemblyRaises
  BY <1>4 DEF Hit, Miss, Store, AssemblyRaises, disk, Between
<1>5. CASE StatBase \/ OpenBase \/ OpenBaseFails
  BY <1>5 DEF StatBase, OpenBase, OpenBaseFails, disk, Between
<1>6. ASSUME NEW g \in Groups, ReadProvider(g) \/ ReadProviderFails(g) \/ ExistsRaises(g)
      PROVE  Progress'
  BY <1>6 DEF ReadProvider, ReadProviderFails, ExistsRaises, disk, Between
<1>7. CASE UNCHANGED vars
  BY <1>7 DEF vars, Between
<1> QED BY <1>1, <1>2, <1>3, <1>4, <1>5, <1>6, <1>7 DEF Next, Load

\* Every step keeps the inner cache: what was read after the stat is of a later mtime.
LEMMA InnerKept ==
  ASSUME Tick = 1, TypeOK, Stamps, InnerIsFresh, [Next]_vars
  PROVE  InnerIsFresh'
<1> USE DEF InnerIsFresh, Since
<1>1. ASSUME NEW f \in Files, Edit(f)
      PROVE  InnerIsFresh'
  <2>1. PICK content \in Contents, ino \in {0, 1} : Wrote(f, content, ino)
    BY <1>1, EditStep
  <2>2. /\ Now(writes) \in Nat /\ file'[f].mtime = Now(writes) + 1
        /\ \A h \in Files \ {f} : file'[h] = file[h]
    BY <2>1, WriteIsNew
  <2>3. inner' = inner /\ inner.mtime \in Nat /\ inner.mtime <= Now(writes)
    BY <2>1 DEF Wrote, TypeOK, Stamps
  <2> QED BY <2>2, <2>3 DEF Files
<1>2. CASE OpenBase
  BY <1>2 DEF OpenBase, disk
<1>3. CASE UNCHANGED <<disk, inner>>
  BY <1>3 DEF disk
<1>4. CASE \/ Begin \/ Hit \/ Miss \/ StatBase \/ OpenBaseFails \/ Store \/ UNCHANGED vars
           \/ AssemblyRaises \/ \E f \in Files : TakeStat(f)
           \/ \E g \in Groups : ReadProvider(g) \/ ReadProviderFails(g) \/ ExistsRaises(g)
  BY <1>3, <1>4 DEF Begin, TakeStat, Hit, Miss, StatBase, OpenBaseFails, Store, AssemblyRaises,
                    ReadProvider, ReadProviderFails, ExistsRaises, vars, disk
<1> QED BY <1>1, <1>2, <1>4 DEF Next, Load

\* What was read of a file is what the assembled routes have of it.
LEMMA AssembledShows ==
  ASSUME TypeOK, ~Raises(base, got), NEW f \in Files, NEW c \in Contents, Read(f, c)
  PROVE  Shows(Assembled(base, got), f, c)
<1>1. CASE f = "config"
  BY <1>1, AssembledTyped DEF TypeOK, Read, Shows
<1>2. CASE f # "config"
  <2>1. f \in Groups /\ got[f] = IF c = "missing" THEN "default" ELSE c
    BY <1>2 DEF Files, Read
  <2>2. base \in {"routed", "new"} =>
          Assembled(base, got).group[f] = IF Valid(got[f]) THEN got[f] ELSE "default"
    BY <2>1, AssembledTyped DEF TypeOK
  <2>3. Assembled(base, got).base = base
    BY AssembledTyped DEF TypeOK
  <2>4. base \in {"routed", "new"} => (IF Valid(got[f]) THEN got[f] ELSE "default") = Means(c)
    <3>1. base \in {"routed", "new"} => c # "raising"
      BY <2>1, FaultsStayApart
    <3> QED BY <2>1, <3>1 DEF Valid, Means
  <2> QED BY <1>2, <2>2, <2>3, <2>4 DEF Shows
<1> QED BY <1>1, <1>2

\* Every step keeps the outer cache.
LEMMA OuterKept ==
  ASSUME Tick = 1, IInv, [Next]_vars
  PROVE  OuterIsFresh'
<1>1. TypeOK /\ Stamps /\ Progress /\ OuterIsFresh /\ WorkIsFresh
  BY DEF IInv
<1>2. ASSUME NEW f \in Files, Edit(f)
      PROVE  OuterIsFresh'
  <2>1. PICK content \in Contents, ino \in {0, 1} : Wrote(f, content, ino)
    BY <1>1, <1>2, EditStep
  <2>2. /\ Now(writes) \in Nat /\ file'[f].mtime = Now(writes) + 1
        /\ \A h \in Files \ {f} : file'[h] = file[h]
    BY <1>1, <2>1, WriteIsNew
  <2>3. outer.sig[f].mtime \in Nat /\ outer.sig[f].mtime <= Now(writes)
    BY <1>1 DEF TypeOK, Stat, Stamps
  <2>4. UNCHANGED <<outer, phase, todo, sig>> /\ \A h \in Files : held[h] \subseteq held'[h]
    BY <1>1, <2>1 DEF Wrote, TypeOK
  <2>5. \A h \in Files : Since(h, outer.sig[h].mtime)' => Since(h, outer.sig[h].mtime) /\ file'[h] = file[h]
    BY <2>2, <2>3, <2>4 DEF Since
  <2> QED BY <1>1, <2>4, <2>5 DEF OuterIsFresh, Shows
<1>3. CASE Begin
  BY <1>1, <1>3 DEF Begin, OuterIsFresh, Since, disk
<1>4. ASSUME NEW f \in Files, TakeStat(f)
      PROVE  OuterIsFresh'
  <2>1. /\ UNCHANGED <<outer, held, file>> /\ sig' = [sig EXCEPT ![f] = StatOf(f)]
        /\ todo' = todo \ {f} /\ phase = "stat"
    BY <1>4 DEF TakeStat, disk
  <2>2. ASSUME outer.known, NEW h \in Files \ outer.failed
        PROVE  Since(h, outer.sig[h].mtime) => Shows(outer.routes, h, file[h].content)
    BY <1>1, <2>1, <2>2 DEF OuterIsFresh
  <2>3. ASSUME outer.known, NEW h \in Files \ outer.failed, h \notin todo', sig'[h] # NoStat,
               sig'[h] = outer.sig[h]
        PROVE  \E c \in held[h] : Shows(outer.routes, h, c)
    <3>1. CASE h = f
      <4>1. sig'[h] = StatOf(f)
        BY <1>1, <2>1, <3>1 DEF TypeOK
      <4>2. Since(h, outer.sig[h].mtime)
        BY <2>3, <3>1, <4>1 DEF StatOf, Since
      <4>3. file[h].content \in held[h]
        BY <1>1, <2>1 DEF Progress, Between
      <4> QED BY <2>2, <2>3, <4>2, <4>3
    <3>2. CASE h # f
      <4>1. sig'[h] = sig[h] /\ h \notin todo
        BY <1>1, <2>1, <2>3, <3>2 DEF TypeOK
      <4> QED BY <1>1, <2>1, <2>3, <4>1 DEF OuterIsFresh
    <3> QED BY <3>1, <3>2
  <2> QED BY <2>1, <2>2, <2>3 DEF OuterIsFresh, Since, Shows
<1>5. CASE Hit
  BY <1>1, <1>5 DEF Hit, OuterIsFresh, Since, disk
<1>6. CASE Miss \/ StatBase \/ OpenBase \/ OpenBaseFails \/ AssemblyRaises
  <2>1. UNCHANGED <<file, outer>> /\ phase' \notin {"stat", "check"}
    BY <1>6 DEF Miss, StatBase, OpenBase, OpenBaseFails, AssemblyRaises, disk
  <2> QED BY <1>1, <2>1 DEF OuterIsFresh, Since, Shows
<1>7. ASSUME NEW g \in Groups, ReadProvider(g) \/ ReadProviderFails(g) \/ ExistsRaises(g)
      PROVE  OuterIsFresh'
  <2>1. UNCHANGED <<file, outer>> /\ phase' \notin {"stat", "check"}
    BY <1>7 DEF ReadProvider, ReadProviderFails, ExistsRaises, disk
  <2> QED BY <1>1, <2>1 DEF OuterIsFresh, Since, Shows
<1>8. CASE Store
  <2>1. /\ outer'.routes = Assembled(base, got) /\ outer'.sig = sig
        /\ outer'.failed = failed /\ ~Raises(base, got)
        /\ phase = "store" /\ phase' = "idle" /\ UNCHANGED file
    BY <1>8 DEF Store, disk
  <2>2. ASSUME NEW h \in Files \ failed, Since(h, sig[h].mtime)
        PROVE  Shows(Assembled(base, got), h, file[h].content)
    <3>1. Read(h, file[h].content)
      BY <1>1, <2>1, <2>2 DEF WorkIsFresh, Progress
    <3>2. file[h].content \in Contents
      BY <1>1 DEF TypeOK, File
    <3> QED BY <1>1, <2>1, <3>1, <3>2, AssembledShows
  <2>3. phase' \notin {"stat", "check"}
    BY <2>1
  <2> QED BY <2>1, <2>2, <2>3 DEF OuterIsFresh, Since, Shows
<1>9. CASE UNCHANGED vars
  BY <1>1, <1>9 DEF vars, OuterIsFresh, Since, Shows
<1> QED BY <1>2, <1>3, <1>4, <1>5, <1>6, <1>7, <1>8, <1>9 DEF Next, Load

\* Every step keeps what a load has read.
LEMMA WorkKept ==
  ASSUME Tick = 1, IInv, [Next]_vars
  PROVE  WorkIsFresh'
<1>1. TypeOK /\ Stamps /\ Progress /\ InnerIsFresh /\ WorkIsFresh
  BY DEF IInv
<1>2. ASSUME NEW f \in Files, Edit(f)
      PROVE  WorkIsFresh'
  <2>1. PICK content \in Contents, ino \in {0, 1} : Wrote(f, content, ino)
    BY <1>1, <1>2, EditStep
  <2>2. /\ Now(writes) \in Nat /\ file'[f].mtime = Now(writes) + 1
        /\ \A h \in Files \ {f} : file'[h] = file[h]
    BY <1>1, <2>1, WriteIsNew
  <2>3. sig[f].mtime \in Nat /\ sig[f].mtime <= Now(writes)
    BY <1>1 DEF TypeOK, Stat, Stamps
  <2>4. UNCHANGED <<phase, todo, sig, base, got, failed>> /\ \A h \in Files : held[h] \subseteq held'[h]
    BY <1>1, <2>1 DEF Wrote, TypeOK
  <2>5. \A h \in Files : Since(h, sig[h].mtime)' => Since(h, sig[h].mtime) /\ file'[h] = file[h]
    BY <2>2, <2>3, <2>4 DEF Since
  <2> QED BY <1>1, <2>4, <2>5 DEF WorkIsFresh, Read
<1>3. CASE StatBase \/ OpenBase
  <2>1. CASE phase' = "open"
    BY <2>1 DEF WorkIsFresh
  <2>2. CASE phase' # "open"
    <3>1. base' = Parsed(file["config"].content)
      BY <1>1, <1>3, <2>2 DEF StatBase, OpenBase, InnerIsFresh, Since, Parsed
    <3>2. /\ todo' = Groups /\ UNCHANGED <<file, held, failed>>
          /\ file["config"].content \in held["config"]
      BY <1>1, <1>3, <2>2 DEF StatBase, OpenBase, Progress, Between, disk, Files
    <3> QED BY <3>1, <3>2 DEF WorkIsFresh, Read, Files
  <2> QED BY <2>1, <2>2
<1>4. CASE OpenBaseFails
  BY <1>1, <1>4 DEF OpenBaseFails, WorkIsFresh, Files
<1>5. ASSUME NEW g \in Groups, ReadProvider(g) \/ ReadProviderFails(g)
      PROVE  WorkIsFresh'
  <2>1. /\ phase = "providers" /\ todo' = todo \ {g} /\ UNCHANGED <<file, held, base, sig>>
        /\ got' = [got EXCEPT ![g] = got'[g]] /\ g \in Files /\ g # "config"
        /\ file[g].content \in held[g] /\ failed \subseteq failed'
    BY <1>1, <1>5, RoutesAssumption DEF ReadProvider, ReadProviderFails, disk, TypeOK, Files, Progress, Between
  <2>2. \/ g \in failed'
        \/ got'[g] = IF file[g].content = "missing" THEN "default" ELSE file[g].content
    BY <1>1, <1>5 DEF ReadProvider, ReadProviderFails, TypeOK
  <2>3. ASSUME NEW h \in Files \ (failed' \cup todo')
        PROVE  /\ \E c \in held[h] : Read(h, c)'
               /\ Since(h, sig[h].mtime) => Read(h, file[h].content)'
    <3>1. CASE h = g
      BY <2>1, <2>2, <2>3, <3>1 DEF Read
    <3>2. CASE h # g
      <4>1. h = "config" \/ got'[h] = got[h]
        BY <1>1, <2>1, <3>2 DEF TypeOK, Files
      <4> QED BY <1>1, <2>1, <2>3, <3>2, <4>1 DEF WorkIsFresh, Read
    <3> QED BY <3>1, <3>2
  <2> QED BY <2>1, <2>3 DEF WorkIsFresh, Since, Read
<1>6. CASE UNCHANGED vars
  BY <1>1, <1>6 DEF vars, WorkIsFresh, Since, Read
<1>7. CASE \/ Begin \/ Hit \/ Miss \/ Store \/ AssemblyRaises
           \/ (\E f \in Files : TakeStat(f)) \/ \E g \in Groups : ExistsRaises(g)
  BY <1>7 DEF Begin, Hit, Miss, Store, AssemblyRaises, ExistsRaises, TakeStat, WorkIsFresh
<1> QED BY <1>2, <1>3, <1>4, <1>5, <1>6, <1>7 DEF Next, Load

LEMMA FlatKept ==
  ASSUME TypeOK, FlatHasDefaults, [Next]_vars
  PROVE  FlatHasDefaults'
<1>1. CASE Store
  <2>1. /\ outer'.routes.base = base
        /\ \A g \in Groups : base \in {"none", "flat"} => outer'.routes.group[g] = "default"
    BY <1>1, AssembledTyped DEF Store, TypeOK
  <2> QED BY <2>1 DEF FlatHasDefaults
<1>2. CASE UNCHANGED outer
  BY <1>2 DEF FlatHasDefaults
<1>3. Store \/ UNCHANGED outer
  BY DEF Next, Load, Begin, TakeStat, Hit, Miss, StatBase, OpenBase, OpenBaseFails, ReadProvider,
         ReadProviderFails, ExistsRaises, AssemblyRaises, vars, Edit, Truncate, Fill, Replace, Remove, Write
<1> QED BY <1>1, <1>2, <1>3

\* A load ends with what was there, from the cache or from the files.
LEMMA ServesKept ==
  ASSUME IInv, [Next]_vars
  PROVE  ServesWhatWasThere'
<1>1. /\ TypeOK /\ Progress /\ OuterIsFresh /\ WorkIsFresh /\ FlatHasDefaults /\ ServesWhatWasThere
      /\ "config" \in Files /\ Groups \subseteq Files /\ "config" \notin Groups
  BY RoutesAssumption DEF IInv, Files
<1>2. CASE Hit
  <2>1. /\ served' = outer.routes /\ outer.known /\ sig = outer.sig /\ phase = "check" /\ todo = {}
        /\ phase' = "idle" /\ UNCHANGED <<sig, held, outer>>
    BY <1>1, <1>2 DEF Hit, work, Progress
  <2>2. ASSUME NEW f \in Files \ outer.failed, sig[f] # NoStat
        PROVE  \E c \in held[f] : Shows(served', f, c)
    BY <1>1, <2>1, <2>2 DEF OuterIsFresh
  <2>3. served'.base \in {"none", "flat"} => \A g \in Groups : served'.group[g] = "default"
    BY <1>1, <2>1 DEF FlatHasDefaults
  <2>4. served'.base \in {"none", "flat", "routed", "new"}
    BY <1>1, <2>1 DEF TypeOK, RoutesSet, Bases
  <2> QED BY <1>1, <2>1, <2>2, <2>3, <2>4 DEF ServesWhatWasThere, Shows
<1>3. CASE Store
  <2>1. /\ served' = Assembled(base, got) /\ phase = "store" /\ todo = {}
        /\ outer'.failed = failed /\ ~Raises(base, got)
        /\ phase' = "idle" /\ UNCHANGED <<sig, held>>
    BY <1>1, <1>3 DEF Store, Progress
  <2>2. ASSUME NEW f \in Files \ failed
        PROVE  \E c \in held[f] : Shows(served', f, c)
    <3>1. PICK c \in held[f] : Read(f, c)
      BY <1>1, <2>1 DEF WorkIsFresh
    <3>2. c \in Contents
      BY <1>1 DEF TypeOK
    <3> QED BY <1>1, <2>1, <3>1, <3>2, AssembledShows
  <2>3. /\ served'.base \in {"none", "flat", "routed", "new"}
        /\ served'.base \in {"none", "flat"} => \A g \in Groups : served'.group[g] = "default"
    BY <1>1, <2>1, AssembledTyped DEF TypeOK, Bases
  <2> QED BY <1>1, <2>1, <2>2, <2>3 DEF ServesWhatWasThere, Shows
<1>4. ASSUME NEW f \in Files, Edit(f)
      PROVE  ServesWhatWasThere'
  BY <1>1, <1>4 DEF Edit, Truncate, Fill, Replace, Remove, Write, work, Between, ServesWhatWasThere
<1>5. CASE UNCHANGED vars
  BY <1>1, <1>5 DEF vars, ServesWhatWasThere
<1>6. CASE \/ Begin \/ Miss \/ StatBase \/ OpenBase \/ OpenBaseFails
           \/ \E f \in Files : TakeStat(f)
           \/ \E g \in Groups : ReadProvider(g) \/ ReadProviderFails(g)
  <2>1. phase' # "idle" /\ phase' # "raised"
    BY <1>6 DEF Begin, Miss, StatBase, OpenBase, OpenBaseFails, TakeStat, ReadProvider, ReadProviderFails
  <2> QED BY <2>1 DEF ServesWhatWasThere
<1>7. ASSUME NEW g \in Groups, ExistsRaises(g)
      PROVE  ServesWhatWasThere'
  BY <1>7 DEF ExistsRaises, ServesWhatWasThere
<1>8. CASE AssemblyRaises
  <2>1. PICK g \in Groups : got[g] = "raising"
    BY <1>8, FaultsStayApart DEF AssemblyRaises
  <2>2. g \in failed \/ \E c \in held[g] : Read(g, c)
    BY <1>1, <1>8 DEF AssemblyRaises, WorkIsFresh, Progress
  <2>3. g \in failed \/ "raising" \in held[g]
    BY <1>1, <2>1, <2>2 DEF Read
  <2> QED BY <1>8, <2>3 DEF AssemblyRaises, ServesWhatWasThere
<1> QED BY <1>2, <1>3, <1>4, <1>5, <1>6, <1>7, <1>8 DEF Next, Load

(***************************************************************************)
(* When no two writes get the same mtime, a load returns for each file     *)
(* what it held at some time during the load, from whichever cache: two    *)
(* caches with different keys never bring an older version back            *)
(* (_load_assembled_routes, load_routes).  A load that ends in an          *)
(* exception does so for a provider file that could not be looked at, or   *)
(* held what assembling does not drop.                                     *)
(***************************************************************************)
THEOREM Serves == Tick = 1 => (Spec => []ServesWhatWasThere)
<1> SUFFICES ASSUME Tick = 1 PROVE Spec => []ServesWhatWasThere
  OBVIOUS
<1>1. IInv /\ [Next]_vars => IInv'
  <2> SUFFICES ASSUME IInv, [Next]_vars PROVE IInv'
    OBVIOUS
  <2>1. /\ TypeOK /\ NoFlatProvider /\ Stamps /\ Progress /\ InnerIsFresh /\ FlatHasDefaults
    BY DEF IInv
  <2>2. TypeOK' /\ NoFlatProvider' /\ Progress' /\ FlatHasDefaults'
    BY <2>1, Typed, NoFlatKept, ProgressKept, FlatKept
  <2>3. Stamps' /\ InnerIsFresh'
    BY <2>1, StampsKept, InnerKept
  <2>4. OuterIsFresh' /\ WorkIsFresh' /\ ServesWhatWasThere'
    BY OuterKept, WorkKept, ServesKept
  <2> QED BY <2>2, <2>3, <2>4 DEF IInv
<1>2. IInv => ServesWhatWasThere
  BY DEF IInv
<1> QED BY <1>1, <1>2, InitHolds, PTL DEF Spec
=============================================================================
