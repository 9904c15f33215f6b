------------------------- MODULE ConversationProofs -------------------------
(***************************************************************************)
(* Proofs about Conversation, for all calls, tools, configurations and     *)
(* bounds on the history, and before them about the operators of Tiers,    *)
(* Requests and Replies, for every tool map, precedence, batch, request    *)
(* and reply: how a batch is ranked, and what repair, conversion and the   *)
(* two event streams keep of a message.                                    *)
(***************************************************************************)
EXTENDS Conversation, SequenceProofs

\* The positions of a precedence are natural numbers.
LEMMA RankedAreNumbers ==
  ASSUME NEW conf, conf.precedence \in Seq(STRING), NEW tiers
  PROVE  Ranked(conf, tiers) \in SUBSET Nat
BY DEF Ranked

\* A batch that is cheap has only mapped tools below premium, and a ranked one.
LEMMA CheapBatch ==
  ASSUME NEW conf, NEW names, TierFor(conf, names) # "premium"
  PROVE  /\ \A n \in ToSet(names) : LookupTool(conf, n) \notin {Unmapped, "premium"}
         /\ Ranked(conf, Needed(conf, names)) # {}
         /\ TierFor(conf, names) =
              conf.precedence[Min(Ranked(conf, Needed(conf, names)))]
BY DEF TierFor, Needed

(***************************************************************************)
(* A turn is routed only if it brings results, every one of them from a    *)
(* tool that the map gives a tier below premium, to a tier that can serve  *)
(* (resolve_tier_config, tier_for_tools).                                  *)
(***************************************************************************)
THEOREM RoutedIsProved ==
  ASSUME NEW conf, NEW names, Decide(conf, names) = "route"
  PROVE  /\ names # <<>>
         /\ \A n \in ToSet(names) : LookupTool(conf, n) \notin {Unmapped, "premium"}
         /\ TierFor(conf, names) \in conf.served \ {"premium"}
<1>1. names # <<>> /\ TierFor(conf, names) # "premium" /\ TierFor(conf, names) \in conf.served
  BY DEF Decide
<1> QED BY <1>1, CheapBatch

(***************************************************************************)
(* The tier chosen is one that a tool of the batch maps to, and no tool of *)
(* the batch maps to a tier that comes before it in the precedence         *)
(* (tier_for_tools: "mixed batches resolve to the highest tier").          *)
(***************************************************************************)
THEOREM MostDemanding ==
  ASSUME NEW conf, conf.precedence \in Seq(STRING), NEW names,
         TierFor(conf, names) # "premium"
  PROVE  \E i \in DOMAIN conf.precedence :
           /\ conf.precedence[i] = TierFor(conf, names)
           /\ \E n \in ToSet(names) : LookupTool(conf, n) = conf.precedence[i]
           /\ \A j \in DOMAIN conf.precedence, n \in ToSet(names) :
                conf.precedence[j] = LookupTool(conf, n) => i <= j
<1> DEFINE R == Ranked(conf, Needed(conf, names))
<1>1. Min(R) \in R /\ \A j \in R : Min(R) <= j
  BY CheapBatch, RankedAreNumbers, LeastOfSome
<1>2. conf.precedence[Min(R)] = TierFor(conf, names)
  BY CheapBatch
<1>3. \A j \in DOMAIN conf.precedence, n \in ToSet(names) :
        conf.precedence[j] = LookupTool(conf, n) => j \in R
  BY DEF Ranked, Needed
<1>4. Min(R) \in DOMAIN conf.precedence /\ conf.precedence[Min(R)] \in Needed(conf, names)
  BY <1>1 DEF Ranked
<1>5. \E n \in ToSet(names) : LookupTool(conf, n) = conf.precedence[Min(R)]
  BY <1>4 DEF Needed
<1> HIDE DEF R
<1> QED BY <1>1, <1>2, <1>3, <1>4, <1>5

(***************************************************************************)
(* More results never make a batch cheaper: a tool that is unmapped or     *)
(* premium settles every batch it is in, and the tier of a batch comes no  *)
(* later in the precedence than that of a part that is cheap by itself.    *)
(***************************************************************************)
THEOREM MoreIsNoCheaper ==
  ASSUME NEW conf, conf.precedence \in Seq(STRING), NEW names, NEW more,
         ToSet(names) \subseteq ToSet(more), TierFor(conf, more) # "premium"
  PROVE  /\ \A n \in ToSet(names) : LookupTool(conf, n) \notin {Unmapped, "premium"}
         /\ TierFor(conf, names) # "premium" =>
              \E i, j \in DOMAIN conf.precedence :
                /\ i <= j
                /\ conf.precedence[i] = TierFor(conf, more)
                /\ conf.precedence[j] = TierFor(conf, names)
<1>1. \A n \in ToSet(names) : LookupTool(conf, n) \notin {Unmapped, "premium"}
  BY CheapBatch
<1>2. ASSUME TierFor(conf, names) # "premium"
      PROVE  \E i, j \in DOMAIN conf.precedence :
               /\ i <= j
               /\ conf.precedence[i] = TierFor(conf, more)
               /\ conf.precedence[j] = TierFor(conf, names)
  <2>1. PICK j \in DOMAIN conf.precedence :
          /\ conf.precedence[j] = TierFor(conf, names)
          /\ \E n \in ToSet(names) : LookupTool(conf, n) = conf.precedence[j]
    BY <1>2, MostDemanding
  <2>2. PICK i \in DOMAIN conf.precedence :
          /\ conf.precedence[i] = TierFor(conf, more)
          /\ \A k \in DOMAIN conf.precedence, n \in ToSet(more) :
               conf.precedence[k] = LookupTool(conf, n) => i <= k
    BY MostDemanding
  <2> QED BY <2>1, <2>2
<1> QED BY <1>1, <1>2

(***************************************************************************)
(* A result nobody can name keeps its turn on the premium path unless the  *)
(* tool map names the placeholder or has a pattern for everything          *)
(* (pending_tool_names: "treat the whole batch as premium via the unknown  *)
(* path").                                                                 *)
(***************************************************************************)
THEOREM UnknownIsPremium ==
  ASSUME NEW conf, NEW names, Unknown \in ToSet(names), Unknown \notin DOMAIN conf.aliases,
         \A i \in DOMAIN AgentTools(conf) :
           LET e == AgentTools(conf)[i]
           IN IF e.glob THEN ~IsPrefix(e.stem, Unknown) ELSE e.stem # Unknown
  PROVE  Decide(conf, names) # "route"
<1>1. Canonical(conf, Unknown) = Unknown
  BY DEF Canonical
<1>2. Exact(AgentTools(conf), Unknown) = {} /\ Patterns(AgentTools(conf), Unknown) = {}
  BY DEF Exact, Patterns
<1>3. LookupTool(conf, Unknown) = Unmapped
  BY <1>1, <1>2 DEF LookupTool
<1> QED BY <1>3, RoutedIsProved

---------------------------------------------------------------------------
(* The names of a batch.                                                   *)

\* The step of Names: a name that was not seen yet is added.
Fresh(g, D, N) ==
  [i \in D |-> [seen \in Seq(N) |-> IF g[i] \in ToSet(seen) THEN seen ELSE Append(seen, g[i])]]

\* The names met so far, with one more unless it was met.
LEMMA FreshStep ==
  ASSUME NEW D, NEW N, NEW g, \A i \in D : g[i] \in N
  PROVE  Step(Fresh(g, D, N), D, Seq(N))
<1>1. \A i \in D, seen \in Seq(N) : Append(seen, g[i]) \in Seq(N)
  OBVIOUS
<1> QED BY <1>1 DEF Fresh, Step

\* The names of calls are folded from the calls one by one.
LEMMA NamesFold ==
  ASSUME NEW D, NEW N, NEW g, NEW ids \in Seq(D), NEW nameOf,
         \A i \in D : i \in DOMAIN nameOf /\ nameOf[i] = g[i] /\ g[i] \in N
  PROVE  Names(ids, nameOf) = FoldOf(Seq(N), Fresh(g, D, N), <<>>, ids)
<1> DEFINE A == Seq(N)
           base == <<>>
           f == Fresh(g, D, N)
           n == Len(ids)
           Is(h) == h = [T \in SUBSET DOMAIN ids |->
                           IF T = {} THEN <<>>
                           ELSE IF nameOf[ids[Max(T)]] \in ToSet(h[T \ {Max(T)}])
                                THEN h[T \ {Max(T)}]
                                ELSE Append(h[T \ {Max(T)}], nameOf[ids[Max(T)]])]
           iter == CHOOSE h : Is(h)
<1>1. base \in A /\ n \in Nat /\ DOMAIN ids = 1..n /\ \A i \in 1..n : ids[i] \in D
  OBVIOUS
<1>2. Step(f, D, A)
  BY FreshStep
<1>3. \A i \in ToSet(ids) : i \in DOMAIN nameOf
  <2>1. \A i \in ToSet(ids) : i \in D
    BY <1>1 DEF ToSet
  <2> QED BY <2>1
<1>4. Names(ids, nameOf) = iter[DOMAIN ids]
  BY <1>3 DEF Names, FoldLeft, MapThenFoldSet
<1>5. PICK h \in [SUBSET (1..Len(ids)) -> A] : SetsOf(h, f, base, ids)
  <2> HIDE DEF A, base, f, Is, iter
  <2> QED BY <1>1, <1>2, SetsOfFold
<1>6. Is(h)
  <2> SUFFICES ASSUME NEW T \in SUBSET (1..n)
               PROVE  h[T] = IF T = {} THEN <<>>
                             ELSE IF nameOf[ids[Max(T)]] \in ToSet(h[T \ {Max(T)}])
                                  THEN h[T \ {Max(T)}]
                                  ELSE Append(h[T \ {Max(T)}], nameOf[ids[Max(T)]])
    BY <1>1
  <2>1. CASE T = {}
    BY <1>5, <2>1 DEF SetsOf
  <2>2. CASE T # {}
    <3>1. Max(T) \in 1..n /\ h[T \ {Max(T)}] \in A /\ h[T] = f[ids[Max(T)]][h[T \ {Max(T)}]]
      BY <1>5, <2>2 DEF SetsOf
    <3>2. ids[Max(T)] \in D
      BY <1>1, <3>1
    <3> QED BY <2>2, <3>1, <3>2 DEF Fresh
  <2> QED BY <2>1, <2>2
<1>7. Is(iter)
  BY <1>6
<1>8. SetSteps(iter, A, f, base, ids)
  <2> DEFINE k == iter
  <2>1. Is(k)
    BY <1>7
  <2> HIDE DEF k
  <2>2. k[{}] = base
    BY <2>1
  <2>3. ASSUME NEW T \in SUBSET (1..n), T # {}, k[T \ {Max(T)}] \in A
        PROVE  k[T] = f[ids[Max(T)]][k[T \ {Max(T)}]]
    <3>1. k[T] = IF nameOf[ids[Max(T)]] \in ToSet(k[T \ {Max(T)}])
                 THEN k[T \ {Max(T)}]
                 ELSE Append(k[T \ {Max(T)}], nameOf[ids[Max(T)]])
      BY <1>1, <2>1, <2>3
    <3>2. Max(T) \in 1..n
      BY <1>1, <2>3, LastOfSome
    <3>3. ids[Max(T)] \in D
      BY <1>1, <3>2
    <3> HIDE DEF Is
    <3> QED BY <2>3, <3>1, <3>3 DEF Fresh
  <2>4. SetSteps(k, A, f, base, ids)
    BY <2>2, <2>3 DEF SetSteps
  <2> QED BY <2>4 DEF k
<1> HIDE DEF A, base, f, iter
<1>9. iter[1..n] = FoldOf(A, f, base, ids)
  BY <1>1, <1>2, <1>8, FoldOfSets
<1> QED BY <1>1, <1>4, <1>9 DEF A, base, f

\* Names that were given another way are the same.
LEMMA NamesSame ==
  ASSUME NEW D, NEW N, NEW ids \in Seq(D), NEW nameOf, NEW other,
         \A i \in D : i \in DOMAIN nameOf /\ i \in DOMAIN other /\ nameOf[i] = other[i] /\ nameOf[i] \in N
  PROVE  Names(ids, nameOf) = Names(ids, other)
<1>1. Names(ids, nameOf) = FoldOf(Seq(N), Fresh(nameOf, D, N), <<>>, ids)
  BY NamesFold
<1>2. Names(ids, other) = FoldOf(Seq(N), Fresh(nameOf, D, N), <<>>, ids)
  BY NamesFold
<1> QED BY <1>1, <1>2

\* The names of calls that all have one.
LEMMA NamesSet ==
  ASSUME NEW D, NEW N, NEW ids \in Seq(D), NEW nameOf,
         \A i \in D : i \in DOMAIN nameOf /\ nameOf[i] \in N
  PROVE  \A n : n \in ToSet(Names(ids, nameOf)) <=> \E i \in ToSet(ids) : n = nameOf[i]
<1> DEFINE A == Seq(N)
           base == <<>>
           f == Fresh(nameOf, D, N)
           F(s) == FoldOf(A, f, base, s)
           S == {s \in Seq(D) : ToSet(F(s)) = {nameOf[i] : i \in ToSet(s)}}
<1>0. Step(f, D, A) /\ base \in A
  BY FreshStep
<1>1. \A s \in Seq(D) : F(s) \in A
  <2> HIDE DEF A, base, f
  <2> QED BY <1>0, FoldOfType
<1>2. \A s \in Seq(D), x \in D : F(Append(s, x)) = f[x][F(s)]
  <2> HIDE DEF A, base, f
  <2> QED BY <1>0, FoldOfAppend
<1>3. F(<<>>) = base
  <2> HIDE DEF A, base, f
  <2> QED BY <1>0, FoldOfNone
<1>4. \A s \in Seq(D), x \in D : f[x][F(s)] = IF nameOf[x] \in ToSet(F(s)) THEN F(s) ELSE Append(F(s), nameOf[x])
  <2> HIDE DEF F
  <2> QED BY <1>1 DEF Fresh
<1> HIDE DEF F, f
<1>5. <<>> \in S
  BY <1>3 DEF ToSet
<1>6. ASSUME NEW s \in S, NEW x \in D PROVE Append(s, x) \in S
  <2>1. s \in Seq(D) /\ Append(s, x) \in Seq(D) /\ ToSet(F(s)) = {nameOf[i] : i \in ToSet(s)}
    OBVIOUS
  <2> HIDE DEF S
  <2>2. ToSet(Append(s, x)) = ToSet(s) \cup {x}
    BY <2>1, AppendSet
  <2>3. \A t \in Seq(N), y \in N : ToSet(Append(t, y)) = ToSet(t) \cup {y}
    BY AppendSet
  <2>4. F(Append(s, x)) = IF nameOf[x] \in ToSet(F(s)) THEN F(s) ELSE Append(F(s), nameOf[x])
    BY <1>2, <1>4, <2>1
  <2>5. ToSet(F(Append(s, x))) = ToSet(F(s)) \cup {nameOf[x]}
    BY <1>1, <2>1, <2>3, <2>4
  <2>6. {nameOf[i] : i \in ToSet(Append(s, x))} = {nameOf[i] : i \in ToSet(s)} \cup {nameOf[x]}
    BY <2>2
  <2> QED BY <2>1, <2>5, <2>6 DEF S
<1>7. S = Seq(D)
  <2> HIDE DEF S
  <2>1. S \in SUBSET Seq(D)
    BY DEF S
  <2> QED BY <1>5, <1>6, <2>1, SeqInd
<1>8. Names(ids, nameOf) = F(ids)
  BY NamesFold DEF F, f
<1>9. ToSet(F(ids)) = {nameOf[i] : i \in ToSet(ids)}
  BY <1>7
<1> QED BY <1>8, <1>9

---------------------------------------------------------------------------
(* What is at some places of a sequence, and ids.                          *)

\* The ids of calls, or of results.
LEMMA IdsAre ==
  ASSUME NEW s \in Seq(UseBlocks \cup ResultBlocks)
  PROVE  /\ Ids(s) \in Seq(STRING) /\ Len(Ids(s)) = Len(s) /\ DOMAIN Ids(s) = DOMAIN s
         /\ \A i \in DOMAIN s : Ids(s)[i] = s[i].id
         /\ ToSet(Ids(s)) = {b.id : b \in ToSet(s)}
<1>1. DOMAIN s = 1..Len(s) /\ Len(s) \in Nat /\ \A i \in 1..Len(s) : s[i] \in UseBlocks \cup ResultBlocks
  OBVIOUS
<1>2. \A i \in 1..Len(s) : s[i].id \in STRING
  BY <1>1, BlockShapes
<1>3. Ids(s) = [i \in 1..Len(s) |-> s[i].id]
  BY <1>1 DEF Ids
<1> DEFINE t == Ids(s)
<1>4. t \in Seq(STRING) /\ Len(t) = Len(s) /\ DOMAIN t = DOMAIN s /\ \A i \in DOMAIN s : t[i] = s[i].id
  BY <1>1, <1>2, <1>3
<1> HIDE DEF t
<1>5. ToSet(t) = {b.id : b \in ToSet(s)}
  BY <1>4 DEF ToSet
<1> QED BY <1>4, <1>5 DEF t

\* The ids of a concatenation.
LEMMA IdsConcat ==
  ASSUME NEW s \in Seq(UseBlocks \cup ResultBlocks), NEW t \in Seq(UseBlocks \cup ResultBlocks)
  PROVE  Ids(s \o t) = Ids(s) \o Ids(t)
<1> DEFINE D == UseBlocks \cup ResultBlocks
           f == [b \in D |-> b.id]
<1>1. Maps(f, D, STRING)
  BY BlockShapes DEF Maps
<1>2. \A u \in Seq(D) : Ids(u) = Each(f, u)
  <2> TAKE u \in Seq(D)
  <2>1. \A i \in DOMAIN u : u[i] \in D
    BY PlacesOf
  <2> QED BY <2>1 DEF Ids, Each
<1> HIDE DEF f
<1>3. s \o t \in Seq(D) /\ s \in Seq(D) /\ t \in Seq(D)
  OBVIOUS
<1> HIDE DEF D
<1>4. Each(f, s \o t) = Each(f, s) \o Each(f, t)
  BY <1>1, <1>3, EachConcat
<1>5. Ids(s \o t) = Each(f, s \o t) /\ Ids(s) = Each(f, s) /\ Ids(t) = Each(f, t)
  BY <1>2, <1>3
<1> QED BY <1>4, <1>5

---------------------------------------------------------------------------
(* The conversion of a Responses body to Anthropic messages.               *)

\* The messages of one item, and what is put together from them.
Spoken(role) == IF role = "assistant" THEN Told ELSE TextBlocks \cup ResultBlocks
Simple == {m \in Messages : m.content # <<>> /\ ToSet(m.content) \subseteq Spoken(m.role)}

\* The messages of an item.
ItemMessage == [item \in Items |-> FromItem(item)]

\* The block is one of its role.
LEMMA OneSimple ==
  ASSUME NEW role \in {"user", "assistant"}, NEW b \in Spoken(role)
  PROVE  /\ Message(role, <<b>>) \in Simple /\ <<Message(role, <<b>>)>> \in Seq(Simple)
         /\ Message(role, <<b>>).role = role /\ Message(role, <<b>>).content = <<b>>
<1>1. b \in Blocks
  BY DEF Spoken, Told, Blocks
<1>2. <<b>> \in Seq(Blocks) /\ <<b>> # <<>> /\ ToSet(<<b>>) = {b}
  BY <1>1 DEF ToSet
<1>3. /\ Message(role, <<b>>) \in Messages
      /\ Message(role, <<b>>).role = role /\ Message(role, <<b>>).content = <<b>>
  BY <1>2, MessageParts
<1>4. Message(role, <<b>>) \in Simple
  BY <1>2, <1>3 DEF Simple
<1> QED BY <1>3, <1>4

\* A call as the conversion of an item puts it.
Recast(b) == Use(b.id, Plain(b.args))

\* It is a call of the same id.
LEMMA RecastCall ==
  ASSUME NEW b, b.id \in STRING, b.args \in Args
  PROVE  Recast(b) \in UseBlocks /\ Recast(b).id = b.id
<1>1. Plain(b.args) \in Args
  BY DEF Plain, Args
<1> QED BY <1>1 DEF Recast, Use, UseBlocks

\* What each item becomes.
LEMMA ItemMessages ==
  /\ Maps(ItemMessage, Items, Seq(Simple))
  /\ \A i \in MessageItems : ItemMessage[i] = <<Message(i.role, <<Text(i.text)>>)>>
  /\ \A i \in CallItems : ItemMessage[i] = <<Message("assistant", <<Recast(i)>>)>>
  /\ \A i \in OutputItems : ItemMessage[i] = <<Message("user", <<Result(i.id, Printed(i.form))>>)>>
  /\ ItemMessage[ReasoningItem] = <<>>
<1>1. /\ MessageItems \subseteq Items /\ CallItems \subseteq Items /\ OutputItems \subseteq Items
      /\ ReasoningItem \in Items
  BY DEF Items
<1>2. \A i \in MessageItems : i.type = "message" /\ FromItem(i) = <<Message(i.role, <<Text(i.text)>>)>>
  BY DEF MessageItems, FromItem
<1>3. \A i \in CallItems : i.type = "function_call" /\ FromItem(i) = <<Message("assistant", <<Recast(i)>>)>>
  BY DEF CallItems, FromItem, Recast
<1>4. \A i \in OutputItems : FromItem(i) = <<Message("user", <<Result(i.id, Printed(i.form))>>)>>
  BY DEF OutputItems, FromItem
<1>5. FromItem(ReasoningItem) = <<>>
  BY DEF ReasoningItem, FromItem
<1>6. ASSUME NEW i \in MessageItems PROVE <<Message(i.role, <<Text(i.text)>>)>> \in Seq(Simple)
  <2>1. i.role \in {"user", "assistant"} /\ i.text \in Says
    BY ItemShapes
  <2>2. Text(i.text) \in Spoken(i.role)
    BY <2>1, BlockForms DEF Spoken, Told
  <2> QED BY <2>1, <2>2, OneSimple
<1>7. ASSUME NEW i \in CallItems PROVE <<Message("assistant", <<Recast(i)>>)>> \in Seq(Simple)
  <2>1. i.id \in STRING /\ i.args \in Args
    BY ItemShapes
  <2>2. Recast(i) \in Spoken("assistant")
    BY <2>1, RecastCall DEF Spoken, Told
  <2> QED BY <2>2, OneSimple
<1>8. ASSUME NEW i \in OutputItems PROVE <<Message("user", <<Result(i.id, Printed(i.form))>>)>> \in Seq(Simple)
  <2>1. i.id \in STRING /\ i.form \in Forms
    BY ItemShapes
  <2>2. Printed(i.form) \in Forms
    BY <2>1, FlattenedForm
  <2>3. Result(i.id, Printed(i.form)) \in Spoken("user")
    BY <2>1, <2>2, BlockForms DEF Spoken
  <2> QED BY <2>3, OneSimple
<1>9. <<>> \in Seq(Simple)
  OBVIOUS
<1> DEFINE g == ItemMessage
<1>10. \A i \in Items : g[i] = FromItem(i)
  BY DEF ItemMessage
<1>11. g = [i \in Items |-> g[i]]
  BY DEF ItemMessage
<1> HIDE DEF g
<1>12. \A i \in Items : g[i] \in Seq(Simple)
  <2> TAKE i \in Items
  <2>1. i \in MessageItems \/ i \in CallItems \/ i \in OutputItems \/ i = ReasoningItem
    BY DEF Items
  <2>2. g[i] = FromItem(i)
    BY <1>10
  <2>3. CASE i \in MessageItems
    BY <1>2, <1>6, <2>2, <2>3
  <2>4. CASE i \in CallItems
    BY <1>3, <1>7, <2>2, <2>4
  <2>5. CASE i \in OutputItems
    BY <1>4, <1>8, <2>2, <2>5
  <2>6. CASE i = ReasoningItem
    BY <1>5, <1>9, <2>2, <2>6
  <2> QED BY <2>1, <2>3, <2>4, <2>5, <2>6
<1>13. Maps(g, Items, Seq(Simple))
  BY <1>11, <1>12 DEF Maps
<1> QED BY <1>1, <1>2, <1>3, <1>4, <1>5, <1>10, <1>13 DEF g

---------------------------------------------------------------------------
(* Coalesce, message by message.                                           *)

\* The message that two messages of calls make together.
Both(m, n) == Message("assistant", m.content \o n.content)
Joins(done, m) == OnlyUses(m) /\ done # <<>> /\ OnlyUses(Last(done))
Merged(done, m) == IF Joins(done, m) THEN Append(Front(done), Both(Last(done), m)) ELSE Append(done, m)
Merge == [m \in Simple |-> [done \in Seq(Simple) |-> Merged(done, m)]]

\* A message is only calls if its blocks are.
LEMMA OnlyUsesIs ==
  ASSUME NEW m \in Messages
  PROVE  OnlyUses(m) <=> m.role = "assistant" /\ m.content # <<>> /\ ToSet(m.content) \subseteq UseBlocks
<1>1. m.content \in Seq(Blocks)
  BY MessageShape
<1>2. Uses(m.content) = Only(m.content, UseBlocks)
  BY <1>1, OfTypeIs
<1>3. ASSUME ToSet(m.content) \subseteq UseBlocks PROVE Only(m.content, UseBlocks) = m.content
  BY <1>1, <1>3, OnlyAll
<1>4. ASSUME Only(m.content, UseBlocks) = m.content PROVE ToSet(m.content) \subseteq UseBlocks
  <2>1. ToSet(Only(m.content, UseBlocks)) = ToSet(m.content) \cap UseBlocks
    BY <1>1, OnlySet
  <2> QED BY <1>4, <2>1
<1> QED BY <1>2, <1>3, <1>4 DEF OnlyUses

\* Two messages of calls make a message of calls.
LEMMA BothSimple ==
  ASSUME NEW m \in Simple, NEW n \in Simple, OnlyUses(m), OnlyUses(n)
  PROVE  /\ Both(m, n) \in Simple /\ OnlyUses(Both(m, n)) /\ Both(m, n).role = "assistant"
         /\ Both(m, n).content = m.content \o n.content
<1>1. m \in Messages /\ n \in Messages /\ m.content # <<>>
  BY DEF Simple
<1>2. m.content \in Seq(Blocks) /\ n.content \in Seq(Blocks)
  BY <1>1, MessageShape
<1>3. ToSet(m.content) \subseteq UseBlocks /\ ToSet(n.content) \subseteq UseBlocks
  BY <1>1, OnlyUsesIs
<1> DEFINE c == m.content \o n.content
<1>4. c \in Seq(Blocks) /\ c # <<>> /\ ToSet(c) = ToSet(m.content) \cup ToSet(n.content)
  BY <1>1, <1>2, ConcatSet
<1> HIDE DEF c
<1>5. Message("assistant", c) \in Messages /\ Message("assistant", c).role = "assistant" /\ Message("assistant", c).content = c
  BY <1>4, MessageParts
<1>6. Message("assistant", c) \in Simple
  BY <1>3, <1>4, <1>5 DEF Simple, Spoken, Told
<1>7. OnlyUses(Message("assistant", c))
  BY <1>3, <1>4, <1>5, OnlyUsesIs
<1> QED BY <1>5, <1>6, <1>7 DEF Both, c

\* What is put together is a sequence of simple messages.
LEMMA MergeStep ==
  /\ Step(Merge, Simple, Seq(Simple))
  /\ \A m \in Simple, done \in Seq(Simple) : Merge[m][done] = Merged(done, m)
<1>1. ASSUME NEW m \in Simple, NEW done \in Seq(Simple) PROVE Merged(done, m) \in Seq(Simple)
  <2>1. Append(done, m) \in Seq(Simple)
    OBVIOUS
  <2>2. ASSUME Joins(done, m) PROVE Append(Front(done), Both(Last(done), m)) \in Seq(Simple)
    <3>1. Front(done) \in Seq(Simple) /\ Last(done) \in Simple
      BY <2>2, FrontAndLast DEF Joins
    <3>2. Both(Last(done), m) \in Simple
      BY <2>2, <3>1, BothSimple DEF Joins
    <3> QED BY <3>1, <3>2
  <2> QED BY <2>1, <2>2 DEF Merged
<1> QED BY <1>1 DEF Merge, Step

\* Messages are put together one by one.
LEMMA CoalesceFold ==
  ASSUME NEW s \in Seq(Simple)
  PROVE  Coalesce(s) = FoldOf(Seq(Simple), Merge, <<>>, s)
<1> DEFINE A == Seq(Simple)
           base == <<>>
           f == Merge
           n == Len(s)
           Is(h) == h = [T \in SUBSET DOMAIN s |->
                           IF T = {} THEN <<>> ELSE Merged(h[T \ {Max(T)}], s[Max(T)])]
           iter == CHOOSE h : Is(h)
<1>1. base \in A /\ n \in Nat /\ DOMAIN s = 1..n /\ \A i \in 1..n : s[i] \in Simple
  OBVIOUS
<1>2. Step(f, Simple, A) /\ \A m \in Simple, done \in A : f[m][done] = Merged(done, m)
  BY MergeStep
<1>4. Coalesce(s) = iter[DOMAIN s]
  BY DEF Coalesce, FoldLeft, MapThenFoldSet, Merged, Joins, Both
<1>5. PICK h \in [SUBSET (1..Len(s)) -> A] : SetsOf(h, f, base, s)
  <2> HIDE DEF A, base, f, Is, iter
  <2> QED BY <1>1, <1>2, SetsOfFold
<1>6. Is(h)
  <2> SUFFICES ASSUME NEW T \in SUBSET (1..n)
               PROVE  h[T] = IF T = {} THEN <<>> ELSE Merged(h[T \ {Max(T)}], s[Max(T)])
    BY <1>1
  <2>1. CASE T = {}
    BY <1>5, <2>1 DEF SetsOf
  <2>2. CASE T # {}
    <3>1. Max(T) \in 1..n /\ T \ {Max(T)} \in SUBSET (1..n) /\ h[T] = f[s[Max(T)]][h[T \ {Max(T)}]]
      BY <1>5, <2>2 DEF SetsOf
    <3> DEFINE U == T \ {Max(T)}
               x == s[Max(T)]
    <3>2. x \in Simple /\ h[U] \in A
      BY <1>1, <3>1
    <3>3. h[T] = f[x][h[U]]
      BY <3>1
    <3> HIDE DEF U, x, f, A
    <3>4. h[T] = Merged(h[U], x)
      BY <1>2, <3>2, <3>3
    <3> QED BY <2>2, <3>4 DEF U, x
  <2> QED BY <2>1, <2>2
<1>7. Is(iter)
  BY <1>6
<1>8. SetSteps(iter, A, f, base, s)
  <2> DEFINE k == iter
  <2>1. Is(k)
    BY <1>7
  <2> HIDE DEF k
  <2>2. k[{}] = base
    BY <2>1
  <2>3. ASSUME NEW T \in SUBSET (1..n), T # {}, k[T \ {Max(T)}] \in A
        PROVE  k[T] = f[s[Max(T)]][k[T \ {Max(T)}]]
    <3>1. k[T] = Merged(k[T \ {Max(T)}], s[Max(T)])
      BY <1>1, <2>1, <2>3
    <3>2. Max(T) \in 1..n
      BY <1>1, <2>3, LastOfSome
    <3> DEFINE u == k[T \ {Max(T)}]
               x == s[Max(T)]
    <3>3. x \in Simple /\ u \in A
      BY <1>1, <2>3, <3>2
    <3>4. k[T] = Merged(u, x)
      BY <3>1
    <3> HIDE DEF Is, u, x, f, A
    <3>5. k[T] = f[x][u]
      BY <1>2, <3>3, <3>4
    <3> QED BY <3>5 DEF u, x
  <2>4. SetSteps(k, A, f, base, s)
    BY <2>2, <2>3 DEF SetSteps
  <2> QED BY <2>4 DEF k
<1> HIDE DEF A, base, f, iter
<1>9. iter[1..n] = FoldOf(A, f, base, s)
  BY <1>1, <1>2, <1>8, FoldOfSets
<1> QED BY <1>1, <1>4, <1>9 DEF A, base, f

\* What is put together of a conversation, and of one with a message more.
LEMMA CoalesceIs ==
  /\ Coalesce(<<>>) = <<>>
  /\ \A s \in Seq(Simple) : Coalesce(s) \in Seq(Simple)
  /\ \A s \in Seq(Simple), m \in Simple : Coalesce(Append(s, m)) = Merged(Coalesce(s), m)
<1> DEFINE A == Seq(Simple)
           base == <<>>
           f == Merge
<1>1. Step(f, Simple, A) /\ base \in A
  BY MergeStep
<1>2. \A s \in Seq(Simple) : Coalesce(s) = FoldOf(A, f, base, s)
  BY CoalesceFold
<1>3. <<>> \in Seq(Simple)
  OBVIOUS
<1> HIDE DEF A, base, f
<1>4. FoldOf(A, f, base, <<>>) = base
  BY <1>1, FoldOfNone
<1>5. \A s \in Seq(Simple) : FoldOf(A, f, base, s) \in A
  BY <1>1, FoldOfType
<1>6. ASSUME NEW s \in Seq(Simple), NEW m \in Simple
      PROVE  Coalesce(Append(s, m)) = Merged(Coalesce(s), m)
  <2>1. FoldOf(A, f, base, Append(s, m)) = f[m][FoldOf(A, f, base, s)]
    BY <1>1, FoldOfAppend
  <2>2. Append(s, m) \in Seq(Simple)
    OBVIOUS
  <2>3. Coalesce(s) \in Seq(Simple)
    BY <1>2, <1>5 DEF A
  <2>4. f[m][Coalesce(s)] = Merged(Coalesce(s), m)
    BY <2>3, MergeStep DEF f
  <2> QED BY <1>2, <2>1, <2>2, <2>4
<1> QED BY <1>2, <1>3, <1>4, <1>5, <1>6 DEF A, base

---------------------------------------------------------------------------
(* What stays of calls and results when a conversation is sanitized.       *)

\* The calls and the results of a content.
UseIds(content) == ToSet(Ids(Uses(content)))
ResultIds(content) == ToSet(Ids(Results(content)))

\* They are the ids of its blocks.
LEMMA IdsOfContent ==
  ASSUME NEW s \in Seq(Blocks)
  PROVE  /\ \A id : id \in UseIds(s) <=> \E b \in ToSet(s) : b \in UseBlocks /\ b.id = id
         /\ \A id : id \in ResultIds(s) <=> \E b \in ToSet(s) : b \in ResultBlocks /\ b.id = id
         /\ Results(s) = <<>> <=> \A id : id \notin ResultIds(s)
         /\ Uses(s) = <<>> <=> \A id : id \notin UseIds(s)
<1> DEFINE us == Uses(s)
           rs == Results(s)
<1>1. us = Only(s, UseBlocks) /\ rs = Only(s, ResultBlocks)
  BY OfTypeIs
<1>2. /\ us \in Seq(Blocks) /\ ToSet(us) = ToSet(s) \cap UseBlocks
      /\ rs \in Seq(Blocks) /\ ToSet(rs) = ToSet(s) \cap ResultBlocks
  BY <1>1, OnlySet, OnlyType
<1> HIDE DEF us, rs
<1>3. us \in Seq(UseBlocks \cup ResultBlocks) /\ rs \in Seq(UseBlocks \cup ResultBlocks)
  <2>1. ToSet(us) \subseteq UseBlocks \cup ResultBlocks /\ ToSet(rs) \subseteq UseBlocks \cup ResultBlocks
    BY <1>2
  <2> QED BY <1>2, <2>1, ElementsIn
<1>4. ToSet(Ids(us)) = {b.id : b \in ToSet(us)} /\ ToSet(Ids(rs)) = {b.id : b \in ToSet(rs)}
  BY <1>3, IdsAre
<1>5. (us = <<>> <=> \A b : b \notin ToSet(us)) /\ (rs = <<>> <=> \A b : b \notin ToSet(rs))
  <2>1. (us = <<>> <=> ToSet(us) = {}) /\ (rs = <<>> <=> ToSet(rs) = {})
    BY <1>2, SetOfNone
  <2>2. \A T : T = {} <=> \A b : b \notin T
    OBVIOUS
  <2> QED BY <2>1, <2>2
<1>6. /\ \A id : id \in ToSet(Ids(us)) <=> \E b \in ToSet(us) : b.id = id
      /\ \A id : id \in ToSet(Ids(rs)) <=> \E b \in ToSet(rs) : b.id = id
  BY <1>4
<1>7. /\ UseIds(s) = ToSet(Ids(us)) /\ ResultIds(s) = ToSet(Ids(rs))
      /\ Uses(s) = us /\ Results(s) = rs
  BY DEF UseIds, ResultIds, us, rs
<1> HIDE DEF Ids
<1>8. /\ \A id : id \in UseIds(s) <=> \E b \in ToSet(s) : b \in UseBlocks /\ b.id = id
      /\ \A id : id \in ResultIds(s) <=> \E b \in ToSet(s) : b \in ResultBlocks /\ b.id = id
  BY <1>2, <1>6, <1>7
<1>9. (us = <<>> <=> \A id : id \notin UseIds(s)) /\ (rs = <<>> <=> \A id : id \notin ResultIds(s))
  <2> DEFINE U == UseIds(s)
             R == ResultIds(s)
             some(t) == \E b : b \in ToSet(t)
  <2>1. /\ \A id : id \in U <=> \E b \in ToSet(us) : b.id = id
        /\ \A id : id \in R <=> \E b \in ToSet(rs) : b.id = id
    BY <1>6, <1>7
  <2>2. (us = <<>> <=> ~some(us)) /\ (rs = <<>> <=> ~some(rs))
    BY <1>5
  <2> HIDE DEF U, R
  <2>3. (some(us) <=> \E id : id \in U) /\ (some(rs) <=> \E id : id \in R)
    BY <2>1
  <2> HIDE DEF some
  <2> QED BY <2>2, <2>3 DEF U, R
<1> QED BY <1>7, <1>8, <1>9

\* The calls of a message that the next one answers, id by id.
LEMMA MatchedIs ==
  ASSUME NEW ms, NEW k, NEW id
  PROVE  id \in Matched(ms, k) <=>
           /\ ms[k].role = "assistant" /\ k < Len(ms) /\ ms[k + 1].role = "user"
           /\ id \in UseIds(ms[k].content) /\ id \in ResultIds(ms[k + 1].content)
BY DEF Matched, UseIds, ResultIds

\* The calls before message k that it answers.
Answerable(ms, k) == IF k = 1 THEN {} ELSE Matched(ms, k - 1)

\* What stays of a message of calls, and of one of results.
LEMMA SafeIs ==
  ASSUME NEW ms \in Seq(Simple), NEW k \in DOMAIN ms
  PROVE  /\ Safe(ms, k) \in Messages /\ Safe(ms, k).role = ms[k].role
         /\ ToSet(Safe(ms, k).content) \subseteq ToSet(ms[k].content)
         /\ ms[k].role = "assistant" =>
              /\ \A id : id \in UseIds(Safe(ms, k).content) <=> id \in Matched(ms, k)
              /\ \A id : id \notin ResultIds(Safe(ms, k).content)
         /\ ms[k].role = "user" =>
              /\ \A id : id \in ResultIds(Safe(ms, k).content) <=>
                           id \in ResultIds(ms[k].content) /\ id \in Answerable(ms, k)
              /\ \A id : id \notin UseIds(Safe(ms, k).content)
<1> DEFINE m == ms[k]
           c == m.content
           M == Matched(ms, k)
           A == Answerable(ms, k)
           P == {i \in DOMAIN c : c[i].type = "tool_use" => c[i].id \in M}
           Q == {i \in DOMAIN c : c[i].type = "tool_result" /\ c[i].id \in A}
           S == {b \in Blocks : b \in UseBlocks => b.id \in M}
           R == {b \in Blocks : b \in ResultBlocks /\ b.id \in A}
           O == Blocks \ ResultBlocks
<1>1. m \in Messages /\ ToSet(c) \subseteq Spoken(m.role)
  BY DEF Simple
<1>2. c \in Seq(Blocks) /\ m.role \in {"user", "assistant"}
  BY <1>1, MessageShape
<1>3. \A id : id \in M => id \in UseIds(c)
  BY MatchedIs
<1>4. Safe(ms, k) = IF m.role = "assistant" THEN Message(m.role, At(c, P))
                    ELSE Message(m.role, At(c, Q) \o Others(c))
  BY DEF Safe, Answerable
<1>5. (m.role = "assistant" => ToSet(c) \cap ResultBlocks = {}) /\ (m.role = "user" => ToSet(c) \cap UseBlocks = {})
  <2>1. ResultBlocks \cap TextBlocks = {} /\ TextBlocks \cap UseBlocks = {} /\ UseBlocks \cap ResultBlocks = {}
    BY QuietBlocks DEF Quiet
  <2> QED BY <1>1, <2>1 DEF Spoken, Told
<1> HIDE DEF m, M, A
<1>6. \A i \in DOMAIN c : (i \in P <=> c[i] \in S) /\ (i \in Q <=> c[i] \in R)
  <2> TAKE i \in DOMAIN c
  <2>1. c[i] \in Blocks
    BY <1>2, PlacesOf
  <2> DEFINE b == c[i]
  <2>2. (b.type = "tool_use" <=> b \in UseBlocks) /\ (b.type = "tool_result" <=> b \in ResultBlocks)
    BY <2>1, BlockTypes
  <2> QED BY <2>1, <2>2
<1> HIDE DEF c, P, Q, S, R, O
<1>7. At(c, P) = Only(c, S) /\ At(c, Q) = Only(c, R) /\ Others(c) = Only(c, O)
  BY <1>2, <1>6, OnlyIs, OfTypeIs DEF O
<1>8. /\ Only(c, S) \in Seq(Blocks) /\ Only(c, R) \in Seq(Blocks) /\ Only(c, O) \in Seq(Blocks)
      /\ ToSet(Only(c, S)) = ToSet(c) \cap S /\ ToSet(Only(c, R)) = ToSet(c) \cap R
      /\ ToSet(Only(c, O)) = ToSet(c) \cap O
  BY <1>2, OnlyType, OnlySet
<1> DEFINE x == Only(c, S)
           y == Only(c, R) \o Only(c, O)
<1>9. y \in Seq(Blocks) /\ ToSet(y) = (ToSet(c) \cap R) \cup (ToSet(c) \cap O)
  BY <1>8, ConcatType, ConcatSet
<1>10. x \in Seq(Blocks) /\ ToSet(x) = ToSet(c) \cap S
  BY <1>8
<1>11. Safe(ms, k) = IF m.role = "assistant" THEN Message(m.role, x) ELSE Message(m.role, y)
  BY <1>4, <1>7
<1> HIDE DEF x, y
<1>12. CASE m.role = "assistant"
  <2>1. Safe(ms, k) \in Messages /\ Safe(ms, k).role = m.role /\ Safe(ms, k).content = x
    BY <1>10, <1>11, <1>12, MessageParts
  <2>2. \A id : id \in UseIds(x) <=> \E b \in ToSet(x) : b \in UseBlocks /\ b.id = id
    BY <1>10, IdsOfContent
  <2>3. \A id : id \in UseIds(c) <=> \E b \in ToSet(c) : b \in UseBlocks /\ b.id = id
    BY <1>2, IdsOfContent
  <2>4. \A id : id \in ResultIds(x) <=> \E b \in ToSet(x) : b \in ResultBlocks /\ b.id = id
    BY <1>10, IdsOfContent
  <2>5. \A id : id \in UseIds(x) <=> id \in M
    <3>1. \A b \in ToSet(x) : b \in UseBlocks => b.id \in M
      BY <1>10 DEF S
    <3>2. \A b \in ToSet(c) : b \in UseBlocks /\ b.id \in M => b \in ToSet(x)
      BY <1>10, QuietBlocks DEF S
    <3> QED BY <1>3, <2>2, <2>3, <3>1, <3>2
  <2>6. \A id : id \notin ResultIds(x)
    BY <1>5, <1>10, <1>12, <2>4
  <2> QED BY <1>10, <1>12, <2>1, <2>5, <2>6 DEF m, M, c
<1>13. CASE m.role = "user"
  <2>1. Safe(ms, k) \in Messages /\ Safe(ms, k).role = m.role /\ Safe(ms, k).content = y
    BY <1>9, <1>11, <1>13, MessageParts
  <2>2. \A id : id \in UseIds(y) <=> \E b \in ToSet(y) : b \in UseBlocks /\ b.id = id
    BY <1>9, IdsOfContent
  <2>3. \A id : id \in ResultIds(c) <=> \E b \in ToSet(c) : b \in ResultBlocks /\ b.id = id
    BY <1>2, IdsOfContent
  <2>4. \A id : id \in ResultIds(y) <=> \E b \in ToSet(y) : b \in ResultBlocks /\ b.id = id
    BY <1>9, IdsOfContent
  <2>5. \A id : id \in ResultIds(y) <=> id \in ResultIds(c) /\ id \in A
    <3>1. \A b \in ToSet(y) : b \in ResultBlocks => b \in ToSet(c) /\ b.id \in A
      BY <1>9 DEF R, O
    <3>2. ResultBlocks \subseteq Blocks
      BY DEF Blocks
    <3>3. \A b \in ToSet(c) : b \in ResultBlocks /\ b.id \in A => b \in ToSet(y)
      BY <1>9, <3>2 DEF R
    <3> QED BY <2>3, <2>4, <3>1, <3>3
  <2>6. \A id : id \notin UseIds(y)
    BY <1>5, <1>9, <1>13, <2>2
  <2>7. ToSet(y) \subseteq ToSet(c)
    BY <1>9
  <2> QED BY <1>13, <2>1, <2>5, <2>6, <2>7 DEF m, A, c
<1> QED BY <1>2, <1>12, <1>13

\* Calls with a result directly behind them, results with their call directly before.
Paired(t, k) ==
  /\ t[k].role = "assistant" => UseIds(t[k].content) = Matched(t, k)
  /\ Results(t[k].content) # <<>> => k > 1 /\ ResultIds(t[k].content) \subseteq Matched(t, k - 1)

\* A sanitized conversation is paired, and of the same kind.
LEMMA SanitizePairs ==
  ASSUME NEW s \in Seq(Simple)
  PROVE  Sanitize(s) \in Seq(Simple) /\ \A k \in DOMAIN Sanitize(s) : Paired(Sanitize(s), k)
<1> DEFINE ms == Coalesce(s)
           safe == [k \in DOMAIN ms |-> Safe(ms, k)]
           P == {k \in DOMAIN safe : safe[k].content # <<>>}
           t == At(safe, P)
           n == Len(t)
<1>1. ms \in Seq(Simple)
  BY CoalesceIs
<1>2. t = Sanitize(s)
  BY DEF Sanitize
<1> HIDE DEF ms
<1>3. DOMAIN ms = 1..Len(ms) /\ Len(ms) \in Nat /\ \A k \in 1..Len(ms) : ms[k] \in Simple
  BY <1>1
<1>4. \A k \in 1..Len(ms) : Safe(ms, k) \in Messages
  BY <1>1, <1>3, SafeIs
<1>5. /\ safe \in Seq(Messages) /\ Len(safe) = Len(ms) /\ DOMAIN safe = 1..Len(ms)
      /\ \A k \in 1..Len(ms) : safe[k] = Safe(ms, k)
  BY <1>3, <1>4
<1>6. \A k \in 1..Len(ms) : k \in P <=> safe[k].content # <<>>
  BY <1>5
<1> HIDE DEF safe, P
<1>7. t \in Seq(Messages)
  BY <1>5, AtType
<1>8. PICK p : Places(p, Len(At(safe, P)), safe, P) /\ \A j \in 1..Len(At(safe, P)) : At(safe, P)[j] = safe[p[j]]
  BY <1>5, AtPlaces
<1>9. Places(p, n, safe, P) /\ \A j \in 1..n : t[j] = safe[p[j]]
  BY <1>8
<1> HIDE DEF t
<1>10. n \in Nat /\ DOMAIN t = 1..n
  BY <1>7
<1> HIDE DEF n
<1>11. \A j \in 1..n : p[j] \in 1..Len(ms) /\ p[j] \in P
  BY <1>5, <1>9 DEF Places
<1>12. \A j \in 1..n : t[j] \in Messages /\ t[j] = Safe(ms, p[j]) /\ t[j].role = ms[p[j]].role /\ t[j].content # <<>>
                       /\ ToSet(t[j].content) \subseteq ToSet(ms[p[j]].content)
  <2> TAKE j \in 1..n
  <2>1. t[j] = Safe(ms, p[j]) /\ t[j].content # <<>>
    BY <1>5, <1>6, <1>9, <1>11
  <2> DEFINE k == p[j]
  <2>2. k \in DOMAIN ms
    BY <1>3, <1>11
  <2> HIDE DEF k
  <2>3. Safe(ms, k) \in Messages /\ Safe(ms, k).role = ms[k].role /\ ToSet(Safe(ms, k).content) \subseteq ToSet(ms[k].content)
    BY <1>1, <2>2, SafeIs
  <2> QED BY <2>1, <2>3 DEF k
<1>19. \A j \in 1..n : /\ (p[j] + 1 \in P /\ p[j] < Len(ms)) => j < n /\ p[j + 1] = p[j] + 1
                       /\ (p[j] - 1 \in P /\ p[j] # 1) => j # 1 /\ p[j - 1] = p[j] - 1
  <2> TAKE j \in 1..n
  <2>1. Len(safe) \in Nat /\ Len(safe) = Len(ms) /\ Places(p, n, safe, P)
    BY <1>3, <1>5, <1>9
  <2>2. Neighbours(p, n, safe, P, j)
    BY <1>10, <2>1, NextPlace
  <2> QED BY <2>1, <2>2 DEF Neighbours
<1>13. \A j \in 1..n : t[j] \in Simple
  <2> TAKE j \in 1..n
  <2>1. ToSet(ms[p[j]].content) \subseteq Spoken(ms[p[j]].role)
    BY <1>3, <1>11 DEF Simple
  <2> QED BY <1>12, <2>1 DEF Simple
<1>14. t \in Seq(Simple)
  BY <1>7, <1>10, <1>13 DEF n
<1>15. ASSUME NEW j \in 1..n, t[j].role = "assistant", NEW id \in UseIds(t[j].content)
       PROVE  id \in Matched(t, j)
  <2>1. ms[p[j]].role = "assistant" /\ id \in UseIds(Safe(ms, p[j]).content) /\ p[j] \in DOMAIN ms
    BY <1>3, <1>11, <1>12, <1>15
  <2>2. id \in Matched(ms, p[j])
    BY <1>1, <2>1, SafeIs
  <2>3. p[j] < Len(ms) /\ ms[p[j] + 1].role = "user" /\ id \in ResultIds(ms[p[j] + 1].content)
    BY <2>2, MatchedIs
  <2>4. p[j] + 1 \in DOMAIN ms /\ p[j] + 1 # 1 /\ (p[j] + 1) - 1 = p[j]
    BY <1>3, <1>11, <2>3
  <2> DEFINE q == p[j] + 1
  <2>5. q \in DOMAIN ms /\ id \in Answerable(ms, q) /\ ms[q].role = "user" /\ id \in ResultIds(ms[q].content)
    BY <2>2, <2>3, <2>4 DEF Answerable
  <2> HIDE DEF q
  <2>6. id \in ResultIds(Safe(ms, q).content) /\ Safe(ms, q) \in Messages
    BY <1>1, <2>5, SafeIs
  <2>7. Safe(ms, q).content # <<>>
    <3>1. Safe(ms, q).content \in Seq(Blocks)
      BY <2>6, MessageShape
    <3> DEFINE c == Safe(ms, q).content
    <3>2. \E b \in ToSet(c) : b \in ResultBlocks /\ b.id = id
      <4> HIDE DEF c
      <4>1. c \in Seq(Blocks)
        BY <3>1 DEF c
      <4> QED BY <2>6, <4>1, IdsOfContent DEF c
    <3> HIDE DEF c
    <3>3. c # <<>>
      BY <3>2, SetOfNone, <3>1 DEF c, ToSet
    <3> QED BY <3>3 DEF c
  <2>8. q \in P
    BY <1>3, <1>5, <1>6, <2>5, <2>7
  <2>9. j < n /\ p[j + 1] = p[j] + 1
    BY <1>19, <2>3, <2>8 DEF q
  <2>10. j + 1 \in 1..n
    BY <1>10, <2>9
  <2>11. t[j + 1].role = "user" /\ id \in ResultIds(t[j + 1].content)
    BY <1>12, <2>5, <2>6, <2>9, <2>10 DEF q
  <2> QED BY <1>15, <2>9, <2>11, MatchedIs DEF n
<1>16. ASSUME NEW j \in 1..n, Results(t[j].content) # <<>>
       PROVE  j > 1 /\ \A id \in ResultIds(t[j].content) : id \in Matched(t, j - 1)
  <2> DEFINE q == p[j]
             c == t[j].content
  <2>1. q \in DOMAIN ms /\ t[j] = Safe(ms, q) /\ t[j].role = ms[q].role /\ t[j] \in Messages
    BY <1>3, <1>11, <1>12
  <2>2. c \in Seq(Blocks) /\ ms[q].role \in {"user", "assistant"}
    BY <2>1, MessageShape
  <2>3. PICK id : id \in ResultIds(c)
    <3>1. Results(c) # <<>>
      BY <1>16
    <3> HIDE DEF c
    <3> QED BY <2>2, <3>1, IdsOfContent
  <2>4. id \in ResultIds(Safe(ms, q).content)
    BY <2>1, <2>3
  <2>5. ms[q].role = "user"
    BY <1>1, <2>1, <2>2, <2>4, SafeIs
  <2>6. \A i \in ResultIds(c) : i \in Answerable(ms, q)
    <3> TAKE i \in ResultIds(c)
    <3>1. i \in ResultIds(Safe(ms, q).content)
      BY <2>1
    <3> QED BY <1>1, <2>1, <2>5, <3>1, SafeIs
  <2>7. q # 1 /\ \A i \in ResultIds(c) : i \in Matched(ms, q - 1)
    BY <2>3, <2>6 DEF Answerable
  <2> DEFINE r == q - 1
  <2>8. r \in DOMAIN ms /\ r + 1 = q
    BY <1>3, <2>1, <2>7
  <2> HIDE DEF r
  <2>9. \A i \in ResultIds(c) : i \in Matched(ms, r)
    BY <2>7 DEF r
  <2>10. ms[r].role = "assistant"
    BY <2>3, <2>9, MatchedIs
  <2>11. /\ Safe(ms, r) \in Messages /\ Safe(ms, r).role = "assistant"
         /\ \A i \in ResultIds(c) : i \in UseIds(Safe(ms, r).content)
    BY <1>1, <2>8, <2>9, <2>10, SafeIs
  <2>12. Safe(ms, r).content # <<>>
    <3> DEFINE d == Safe(ms, r).content
    <3>1. d \in Seq(Blocks) /\ id \in UseIds(d)
      BY <2>3, <2>11, MessageShape
    <3> HIDE DEF d
    <3>2. \E b \in ToSet(d) : b \in UseBlocks /\ b.id = id
      BY <3>1, IdsOfContent
    <3>3. d # <<>>
      BY <3>2, SetOfNone, <3>1 DEF ToSet
    <3> QED BY <3>3 DEF d
  <2>13. r \in P
    BY <1>3, <1>5, <1>6, <2>8, <2>12
  <2>14. j # 1 /\ p[j - 1] = p[j] - 1
    <3>1. p[j] - 1 \in P /\ p[j] # 1
      BY <2>7, <2>13 DEF r
    <3> QED BY <1>19, <3>1
  <2>15. j - 1 \in 1..n /\ (j - 1) + 1 = j
    BY <1>10, <2>14
  <2> DEFINE h == j - 1
  <2>16. h \in 1..n /\ h + 1 = j /\ p[h] = r
    BY <2>14, <2>15 DEF r
  <2> HIDE DEF h
  <2>17. t[h] = Safe(ms, r)
    BY <1>12, <2>16
  <2>18. h < n
    BY <1>10, <2>16
  <2>19. \A i \in ResultIds(c) : i \in Matched(t, h)
    <3> TAKE i \in ResultIds(c)
    <3>1. t[h].role = "assistant" /\ i \in UseIds(t[h].content)
      BY <2>11, <2>17
    <3>2. t[h + 1].role = "user" /\ i \in ResultIds(t[h + 1].content)
      BY <2>1, <2>5, <2>16
    <3> QED BY <2>18, <3>1, <3>2, MatchedIs DEF n
  <2> QED BY <1>10, <2>14, <2>19 DEF h
<1>17. ASSUME NEW j \in 1..n PROVE Paired(t, j)
  <2>1. \A id : id \in Matched(t, j) => id \in UseIds(t[j].content)
    BY MatchedIs
  <2>2. t[j].role = "assistant" => UseIds(t[j].content) = Matched(t, j)
    BY <1>15, <2>1
  <2> QED BY <1>16, <2>2 DEF Paired
<1> QED BY <1>2, <1>10, <1>14, <1>17

---------------------------------------------------------------------------
(* Where the elements of a map to sequences are.                           *)

---------------------------------------------------------------------------
(* From sanitized messages to the provider.                                *)

\* There is no thinking in a sanitized conversation to strip.
LEMMA SilentStays ==
  ASSUME NEW t \in Seq(Simple)
  PROVE  StripThinking(t) = t
<1> DEFINE silent(blocks) == At(blocks, {i \in DOMAIN blocks : blocks[i].type # "thinking"})
           stripped == [k \in DOMAIN t |-> Message(t[k].role, silent(t[k].content))]
           P == {k \in DOMAIN stripped : stripped[k].content # <<>> \/ stripped[k].role # "assistant"}
<1>1. DOMAIN t = 1..Len(t) /\ Len(t) \in Nat /\ \A k \in 1..Len(t) : t[k] \in Simple
  OBVIOUS
<1>2. ASSUME NEW m \in Simple PROVE Message(m.role, silent(m.content)) = m
  <2> DEFINE c == m.content
             Q == {i \in DOMAIN c : c[i].type # "thinking"}
  <2>1. m \in Messages /\ ToSet(c) \subseteq Spoken(m.role)
    BY DEF Simple
  <2>2. c \in Seq(Blocks) /\ m = Message(m.role, c)
    BY <2>1, MessageShape
  <2>3. ToSet(c) \subseteq Blocks \ {Thinking}
    <3>1. Thinking \notin TextBlocks /\ Thinking \notin UseBlocks /\ Thinking \notin ResultBlocks
      BY QuietBlocks DEF Quiet
    <3> QED BY <2>1, <3>1 DEF Spoken, Told, Blocks
  <2> HIDE DEF c
  <2>4. \A i \in DOMAIN c : c[i] \in Blocks
    BY <2>2
  <2>5. \A i \in DOMAIN c : i \in Q <=> c[i] \in Blocks \ {Thinking}
    BY <2>4, BlockTypes
  <2> HIDE DEF Q
  <2>6. At(c, Q) = Only(c, Blocks \ {Thinking})
    BY <2>2, <2>5, OnlyIs
  <2>7. Only(c, Blocks \ {Thinking}) = c
    BY <2>2, <2>3, OnlyAll
  <2> QED BY <2>2, <2>6, <2>7 DEF c, Q
<1>3. stripped = t
  <2>1. \A k \in 1..Len(t) : Message(t[k].role, silent(t[k].content)) = t[k]
    BY <1>1, <1>2
  <2> HIDE DEF silent
  <2>2. stripped = [k \in 1..Len(t) |-> t[k]]
    BY <1>1, <2>1
  <2>3. t = [k \in 1..Len(t) |-> t[k]]
    BY <1>1
  <2> QED BY <2>2, <2>3
<1>4. StripThinking(t) = At(stripped, P)
  BY DEF StripThinking
<1>5. \A k \in 1..Len(t) : k \in P <=> t[k] \in Simple
  <2> HIDE DEF stripped
  <2>1. \A k \in 1..Len(t) : t[k].content # <<>>
    BY <1>1 DEF Simple
  <2> QED BY <1>1, <1>3, <2>1
<1> HIDE DEF stripped, P
<1>6. At(t, P) = Only(t, Simple)
  BY <1>1, <1>5, OnlyIs
<1>7. Only(t, Simple) = t
  <2>1. ToSet(t) \subseteq Simple
    BY ElementsOf
  <2> QED BY <2>1, OnlyAll
<1> QED BY <1>3, <1>4, <1>6, <1>7

---------------------------------------------------------------------------
(* What goes upstream on the Anthropic wire.                               *)

\* What is seen of a content, and what stays of it under a function of the blocks.
LEMMA EssenceOf ==
  ASSUME NEW s \in Seq(Blocks), NEW E, NEW f, Maps(f, Blocks, E),
         \A b \in Blocks : Visible(f[b]) = Visible(b) /\ Nameless(f[b]) = Nameless(b)
  PROVE  Essence(Each(f, s)) = [i \in DOMAIN Only(s, Seen) |-> Nameless(Only(s, Seen)[i])]
<1> DEFINE V == {e \in E : Visible(e)}
           t == Each(f, s)
           P == {i \in DOMAIN t : Visible(t[i])}
           seen == At(t, P)
           o == Only(s, Seen)
<1>1. t \in Seq(E) /\ \A i \in DOMAIN t : t[i] \in E
  <2>1. t \in Seq(E)
    BY EachType
  <2> HIDE DEF t
  <2> QED BY <2>1, PlacesOf
<1>2. seen = Only(t, V)
  <2>1. \A i \in DOMAIN t : i \in P <=> t[i] \in V
    <3> HIDE DEF t
    <3> QED BY <1>1
  <2> HIDE DEF t, P, V
  <2> QED BY <1>1, <2>1, OnlyIs
<1>3. \A b \in Blocks : f[b] \in V <=> b \in Seen
  BY DEF Maps, Visible, Seen
<1>4. Only(t, V) = Each(f, o)
  <2> HIDE DEF V
  <2> QED BY <1>3, OnlyEach
<1>5. o \in Seq(Blocks) /\ DOMAIN Each(f, o) = DOMAIN o
      /\ \A i \in DOMAIN o : o[i] \in Blocks /\ Each(f, o)[i] = f[o[i]]
  <2>1. o \in Seq(Blocks)
    BY OnlyType
  <2> HIDE DEF o
  <2> QED BY <2>1, EachType
<1>6. Essence(t) = [i \in DOMAIN seen |-> Nameless(seen[i])]
  BY DEF Essence
<1> HIDE DEF t, P, V, o, seen
<1>7. Essence(t) = [i \in DOMAIN o |-> Nameless(o[i])]
  BY <1>2, <1>4, <1>5, <1>6
<1> QED BY <1>7 DEF t, o

\* A map of the blocks that keeps what is seen of each keeps what is seen of all.
LEMMA EssenceKept ==
  ASSUME NEW s \in Seq(Blocks), NEW E, NEW f, Maps(f, Blocks, E),
         \A b \in Blocks : Visible(f[b]) = Visible(b) /\ Nameless(f[b]) = Nameless(b)
  PROVE  Essence(Each(f, s)) = Essence(s)
<1> DEFINE same == [b \in Blocks |-> b]
<1>1. Maps(same, Blocks, Blocks) /\ \A b \in Blocks : same[b] = b
  BY DEF Maps
<1>2. Each(same, s) = s
  <2>1. DOMAIN s = 1..Len(s) /\ \A i \in DOMAIN s : s[i] \in Blocks
    BY PlacesOf
  <2> QED BY <2>1 DEF Each
<1> HIDE DEF same
<1>3. Essence(s) = [i \in DOMAIN Only(s, Seen) |-> Nameless(Only(s, Seen)[i])]
  BY <1>1, <1>2, EssenceOf
<1> QED BY <1>3, EssenceOf

\* The repair of a message keeps what is seen of it, and leaves no blank text beside it.
LEMMA EssenceOfClean ==
  ASSUME NEW m \in Messages
  PROVE  /\ Essence(CleanMessage(m).content) = Essence(m.content)
         /\ \/ \A j \in DOMAIN CleanMessage(m).content : Visible(CleanMessage(m).content[j])
            \/ \A j \in DOMAIN m.content : ~Visible(m.content[j])
<1> DEFINE c == m.content
           d == CleanMessage(m).content
           same == [b \in Blocks |-> b]
<1>1. c \in Seq(Blocks) /\ d \in Seq(Blocks)
  BY MessageShape, CleanedMessage
<1>2. Maps(same, Blocks, Blocks) /\ \A b \in Blocks : same[b] = b
  BY DEF Maps
<1>3. \A s \in Seq(Blocks) : Each(same, s) = s
  <2> TAKE s \in Seq(Blocks)
  <2>1. DOMAIN s = 1..Len(s) /\ \A i \in DOMAIN s : s[i] \in Blocks
    BY PlacesOf
  <2> QED BY <2>1 DEF Each
<1> HIDE DEF same
<1>4. \A s \in Seq(Blocks) : Essence(s) = [i \in DOMAIN Only(s, Seen) |-> Nameless(Only(s, Seen)[i])]
  BY <1>2, <1>3, EssenceOf
<1>5. (d = Only(c, Seen)) \/ (d = c /\ ToSet(c) \cap Seen = {})
  BY CleanedMessage
<1>6. CASE d = Only(c, Seen)
  <2> HIDE DEF c, d
  <2>1. Only(d, Seen) = Only(c, Seen)
    <3>1. Only(Only(c, Seen), Seen) = Only(c, Seen \cap Seen)
      BY <1>1, OnlyTwice
    <3> QED BY <1>6, <3>1
  <2>2. Essence(d) = Essence(c)
    BY <1>1, <1>4, <2>1
  <2>3. ToSet(d) \subseteq Seen
    <3>1. ToSet(Only(c, Seen)) = ToSet(c) \cap Seen
      BY <1>1, OnlySet
    <3> QED BY <1>6, <3>1
  <2>4. \A j \in DOMAIN d : Visible(d[j])
    BY <1>1, <2>3, ElementsOf DEF Visible, Seen
  <2> QED BY <2>2, <2>4 DEF c, d
<1>7. CASE d = c /\ ToSet(c) \cap Seen = {}
  <2>1. \A j \in DOMAIN c : c[j] \in Blocks /\ c[j] \notin Seen
    <3> HIDE DEF c
    <3> QED BY <1>1, <1>7, ElementsOf
  <2>2. \A j \in DOMAIN c : ~Visible(c[j])
    BY <2>1 DEF Seen, Visible
  <2> QED BY <1>7, <2>2
<1> QED BY <1>5, <1>6, <1>7

\* Compression keeps every message and what is seen of it.
LEMMA EssenceOfCompressed ==
  ASSUME NEW messages \in Seq(Messages), NEW shrinks, NEW sent,
         sent = Compress("anthropic", messages, shrinks)
  PROVE  /\ DOMAIN sent = DOMAIN messages
         /\ \A k \in DOMAIN messages :
              /\ sent[k].role = messages[k].role
              /\ Essence(sent[k].content) = Essence(messages[k].content)
              /\ (\A j \in DOMAIN messages[k].content : Visible(messages[k].content[j])) =>
                    \A j \in DOMAIN sent[k].content : Visible(sent[k].content[j])
<1>1. CASE sent = messages
  BY <1>1
<1>2. CASE sent = CompressAnthropic(messages, shrinks)
  <2> DEFINE chat == ConvertForLitellm(messages)
             forms == FormsById(At(chat, {i \in DOMAIN chat : chat[i].role = "tool"}), shrinks)
             f == [b \in Blocks |-> IF b.type = "tool_result" THEN Result(b.id, Swap(forms, b.id, b.form)) ELSE b]
             E == {f[b] : b \in Blocks}
  <2> HIDE DEF forms
  <2>1. Maps(f, Blocks, E)
    BY DEF Maps
  <2>2. \A b \in Blocks : Visible(f[b]) = Visible(b) /\ Nameless(f[b]) = Nameless(b)
    <3> TAKE b \in Blocks
    <3>1. CASE b.type = "tool_result"
      <4>1. f[b] = Result(b.id, Swap(forms, b.id, b.form))
        BY <3>1
      <4>2. f[b].type = "tool_result" /\ f[b].id = b.id
        BY <4>1 DEF Result
      <4> HIDE DEF f
      <4> QED BY <3>1, <4>2 DEF Visible, Nameless
    <3>2. CASE b.type # "tool_result"
      <4>1. f[b] = b
        BY <3>2
      <4> QED BY <4>1
    <3> QED BY <3>1, <3>2
  <2>3. \A k \in DOMAIN messages : messages[k] \in Messages
    BY PlacesOf
  <2>4. /\ DOMAIN sent = DOMAIN messages
        /\ \A k \in DOMAIN messages :
             sent[k] = Message(messages[k].role,
                               [j \in DOMAIN messages[k].content |->
                                  IF messages[k].content[j].type = "tool_result"
                                  THEN Result(messages[k].content[j].id,
                                              Swap(forms, messages[k].content[j].id, messages[k].content[j].form))
                                  ELSE messages[k].content[j]])
    BY <1>2 DEF CompressAnthropic, forms
  <2>5. ASSUME NEW k \in DOMAIN messages
        PROVE  sent[k].role = messages[k].role /\ sent[k].content = Each(f, messages[k].content)
    <3> DEFINE c == messages[k].content
    <3>1. c \in Seq(Blocks)
      BY <2>3, MessageShape
    <3>2. \A j \in DOMAIN c : c[j] \in Blocks
      <4> HIDE DEF c
      <4> QED BY <3>1, PlacesOf
    <3>3. Each(f, c) = [j \in DOMAIN c |-> IF c[j].type = "tool_result"
                                           THEN Result(c[j].id, Swap(forms, c[j].id, c[j].form)) ELSE c[j]]
      <4> HIDE DEF c
      <4> QED BY <3>2 DEF Each
    <3>4. sent[k] = Message(messages[k].role, Each(f, c))
      BY <2>4, <3>3
    <3> HIDE DEF f, c
    <3>5. sent[k].role = messages[k].role /\ sent[k].content = Each(f, c)
      BY <3>4 DEF Message
    <3> QED BY <3>5 DEF c
  <2> HIDE DEF f, E
  <2>6. ASSUME NEW k \in DOMAIN messages
        PROVE  /\ Essence(sent[k].content) = Essence(messages[k].content)
               /\ (\A j \in DOMAIN messages[k].content : Visible(messages[k].content[j])) =>
                     \A j \in DOMAIN sent[k].content : Visible(sent[k].content[j])
    <3> DEFINE c == messages[k].content
    <3>1. c \in Seq(Blocks) /\ sent[k].content = Each(f, c)
      BY <2>3, <2>5, MessageShape
    <3> HIDE DEF c
    <3>2. Essence(Each(f, c)) = Essence(c)
      BY <2>1, <2>2, <3>1, EssenceKept
    <3>3. DOMAIN Each(f, c) = DOMAIN c /\ \A j \in DOMAIN c : c[j] \in Blocks /\ Each(f, c)[j] = f[c[j]]
      BY <2>1, <3>1, EachType
    <3>4. (\A j \in DOMAIN c : Visible(c[j])) => \A j \in DOMAIN Each(f, c) : Visible(Each(f, c)[j])
      BY <2>2, <3>3
    <3> QED BY <3>1, <3>2, <3>4 DEF c
  <2> QED BY <2>4, <2>5, <2>6
<1> QED BY <1>1, <1>2 DEF Compress

---------------------------------------------------------------------------
(* What the client reads of a tier's reply.                                *)

\* A stream that ends without its output leaves calls without their arguments.
Emptied(ending, us) == IF ending = "hollow" THEN Each(BareBlock, us) ELSE us

\* They are still the same calls.
LEMMA EmptiedCalls ==
  ASSUME NEW us \in Seq(UseBlocks), NEW ending
  PROVE  /\ Emptied(ending, us) \in Seq(UseBlocks) /\ Ids(Emptied(ending, us)) = Ids(us)
         /\ Ids(Only(Emptied(ending, us), PlainUses)) = Ids(Only(us, PlainUses))
BY BareCalls DEF Emptied

\* What the proxy has of an answer in the Responses format.
LEMMA ProvidedAre ==
  ASSUME NEW k, FormatOf(k) = "responses", NEW pre \in Seq(Quiet), NEW us \in Seq(UseBlocks), pre \o us # <<>>,
         NEW ending \in {"full", "hollow", "cut"}, Answers(Provided(k, pre \o us, ending))
  PROVE  Provided(k, pre \o us, ending) = OutputOf(pre \o Emptied(ending, us))
<1> DEFINE said == pre \o us
<1>1. said \in Seq(SaidBlocks) /\ said # <<>>
  BY ToldReply
<1>2. Provided(k, said, ending) = FromStream(CodexStream(said, ending)) /\ Provided(k, said, ending) # NoOutput
  BY DEF Provided, Answers
<1>3. Each(BareBlock, said) = pre \o Each(BareBlock, us)
  BY BareReply
<1> HIDE DEF said
<1>4. /\ FromStream(CodexStream(said, "full")) = OutputOf(said)
      /\ FromStream(CodexStream(said, "hollow")) = OutputOf(Each(BareBlock, said))
      /\ FromStream(CodexStream(said, "cut")) = NoOutput
  BY <1>1, CodexReply
<1>5. CASE ending = "full"
  BY <1>2, <1>4, <1>5 DEF Emptied, said
<1>6. CASE ending = "hollow"
  BY <1>2, <1>3, <1>4, <1>6 DEF Emptied, said
<1>7. CASE ending = "cut"
  BY <1>2, <1>4, <1>7
<1> QED BY <1>5, <1>6, <1>7

\* The kinds of tier, and the format each speaks.
LEMMA KindsAre ==
  ASSUME NEW w \in Wires, NEW k \in Kinds(w)
  PROVE  /\ k \in {"direct", "litellm", "anthropic_oauth", "oauth_responses", "codex"}
         /\ k = "codex" <=> w = "responses" /\ k \notin {"direct", "litellm"}
         /\ k = "oauth_responses" => w \in {"anthropic", "chat"}
         /\ k = "anthropic_oauth" => w = "anthropic"
         /\ FormatOf(k) = "anthropic" <=> k \in {"direct", "anthropic_oauth"}
         /\ FormatOf(k) = "chat" <=> k = "litellm"
         /\ FormatOf(k) = "responses" <=> k \in {"codex", "oauth_responses"}
<1>1. CASE w = "anthropic"
  <2>1. k \in {"direct", "litellm", "anthropic_oauth", "oauth_responses"}
    BY <1>1 DEF Kinds
  <2> QED BY <1>1, <2>1 DEF FormatOf
<1>2. CASE w = "chat"
  <2>1. k \in {"direct", "litellm", "oauth_responses"}
    BY <1>2 DEF Kinds
  <2> QED BY <1>2, <2>1 DEF FormatOf
<1>3. CASE w = "responses"
  <2>1. k \in {"direct", "litellm", "codex"}
    BY <1>3 DEF Kinds
  <2> QED BY <1>3, <2>1 DEF FormatOf
<1> QED BY <1>1, <1>2, <1>3 DEF Wires

\* The calls that are passed on: custom ones only whole, by a Codex tier.
Passing(k, streaming, us) == IF k = "codex" /\ ~streaming THEN us ELSE Only(us, PlainUses)

\* Whatever the wire and the tier, the client reads the words and the calls of the provider.
LEMMA GotReply ==
  ASSUME NEW w \in Wires, NEW k \in Kinds(w), NEW pre \in Seq(Quiet), NEW us \in Seq(UseBlocks), pre \o us # <<>>,
         NEW ending \in Endings(k), NEW streaming, Answers(Provided(k, pre \o us, ending)),
         Opens(pre), Thinking \in ToSet(pre) => k \notin {"direct", "litellm"},
         FormatOf(k) # "responses" => ToSet(us) \subseteq PlainUses
  PROVE  Reads(w, streaming /\ k = "anthropic_oauth", Got(w, k, Provided(k, pre \o us, ending), streaming),
               pre, Passing(k, streaming, Emptied(ending, us)))
<1> DEFINE said == pre \o us
           u == Emptied(ending, us)
           v == Passing(k, streaming, u)
           prov == Provided(k, said, ending)
           got == Got(w, k, prov, streaming)
           shown == streaming /\ k = "anthropic_oauth"
<1>0. /\ k \in {"direct", "litellm", "anthropic_oauth", "oauth_responses", "codex"}
      /\ k = "codex" => w # "anthropic"
      /\ FormatOf(k) = "responses" <=> k \in {"codex", "oauth_responses"}
  BY KindsAre
<1>1. u \in Seq(UseBlocks)
  BY EmptiedCalls
<1>2. ending \in {"full", "hollow", "cut"} /\ (FormatOf(k) # "responses" => prov = said /\ u = us)
  BY DEF Endings, Provided, Emptied
<1>3. FormatOf(k) = "responses" => prov = OutputOf(pre \o u)
  BY <1>2, ProvidedAre
<1>4. k # "codex" => got = Adapted(w, streaming, Received(k, prov))
  BY DEF Got
<1>5. k = "codex" => got = ReadOutput(IF streaming THEN Streamed(prov) ELSE prov)
  BY DEF Got, Passed
<1>12. k \in {"direct", "anthropic_oauth", "litellm"} => u = us /\ v = us
  <2>1. ToSet(us) \subseteq PlainUses => Only(us, PlainUses) = us
    BY OnlyAll
  <2> QED BY <1>0, <1>2, <2>1 DEF Passing
<1>13. v \in Seq(UseBlocks)
  <2> HIDE DEF u
  <2> QED BY <1>1, OnlyType DEF Passing
<1>14. (k = "oauth_responses" \/ (k = "codex" /\ streaming)) => v = Only(u, PlainUses)
  BY DEF Passing
<1>15. k = "codex" /\ ~streaming => v = u
  BY DEF Passing
<1> HIDE DEF u, v, prov, got
\* From what is received: a reply of the same shape, that heard the first.
<1>6. ASSUME NEW p \in Seq(Quiet), Heard(p, pre), Opens(p), k # "codex", Received(k, prov) = p \o v,
             Thinking \in ToSet(p) => p = pre /\ k = "anthropic_oauth"
      PROVE  Reads(w, shown, got, pre, v)
  <2>1. Reads(w, streaming, Adapted(w, streaming, p \o v), p, v)
    <3>1. w \in {"anthropic", "chat", "responses"}
      BY DEF Wires
    <3> QED BY <1>6, <1>13, <3>1, AdaptedReply
  <2>2. got = Adapted(w, streaming, p \o v)
    BY <1>4, <1>6
  <2>3. PICK t \in Seq(Quiet) :
           /\ got = t \o v
           /\ Heard(t, p)
           /\ w = "anthropic" => \A j \in DOMAIN t : t[j] \in Seen \/ (streaming /\ j = 1 /\ p # <<>> /\ p[1] = Thinking)
    BY <2>1, <2>2 DEF Reads
  <2>4. Heard(t, pre)
    BY <1>6, <2>3 DEF Heard
  <2>5. p # <<>> /\ p[1] = Thinking => p = pre /\ k = "anthropic_oauth"
    <3>1. p # <<>> => 1 \in DOMAIN p
      OBVIOUS
    <3>2. p # <<>> /\ p[1] = Thinking => Thinking \in ToSet(p)
      BY <3>1 DEF ToSet
    <3> QED BY <1>6, <3>2
  <2>6. ASSUME w = "anthropic", NEW j \in DOMAIN t
        PROVE  t[j] \in Seen \/ (shown /\ j = 1 /\ pre # <<>> /\ pre[1] = Thinking)
    BY <2>3, <2>5, <2>6
  <2> HIDE DEF shown
  <2> QED BY <2>3, <2>4, <2>6 DEF Reads
<1>7. Heard(pre, pre)
  BY DEF Heard
<1>16. \A p \in Seq(TextBlocks) : p \in Seq(Quiet) /\ Opens(p) /\ Thinking \notin ToSet(p)
  <2> TAKE p \in Seq(TextBlocks)
  <2>1. p \in Seq(Quiet) /\ Thinking \notin ToSet(p)
    BY TextsHeard
  <2>2. p = <<>> \o p
    BY ConcatNone
  <2> QED BY <2>1, <2>2 DEF Opens
<1>8. CASE k \in {"direct", "anthropic_oauth"}
  <2>1. Received(k, prov) = pre \o v
    BY <1>0, <1>2, <1>8, <1>12 DEF Received, said
  <2>2. k # "codex" /\ (Thinking \in ToSet(pre) => pre = pre /\ k = "anthropic_oauth")
    BY <1>8
  <2>3. Reads(w, shown, got, pre, v)
    BY <1>6, <1>7, <2>1, <2>2
  <2> QED BY <2>3 DEF shown, got, prov, u, v
<1>9. CASE k = "litellm"
  <2>1. Received(k, prov) = FromCompletion(said) /\ v = us
    BY <1>0, <1>2, <1>9, <1>12 DEF Received
  <2>2. PICK p \in Seq(TextBlocks) :
           /\ (IF Joined(pre \o us) = "empty" THEN <<>> ELSE <<Text(Joined(pre \o us))>>) \o Uses(pre \o us) = p \o us
           /\ QuietWords(p) <=> QuietWords(pre)
    BY JoinedReply
  <2>3. FromCompletion(said) = p \o us
    BY <2>2 DEF FromCompletion, said
  <2>4. p \in Seq(Quiet) /\ Heard(p, pre) /\ Opens(p) /\ Thinking \notin ToSet(p)
    BY <1>16, <2>2 DEF Heard
  <2>5. Received(k, prov) = p \o v
    BY <2>1, <2>3
  <2>6. Reads(w, shown, got, pre, v)
    BY <1>6, <1>9, <2>4, <2>5
  <2> QED BY <2>6 DEF shown, got, prov, u, v
<1>17. /\ pre \o u \in Seq(SaidBlocks) /\ Only(pre \o u, Shown) = Only(pre, Shown) \o Only(u, PlainUses)
       /\ Only(pre, Shown) \in Seq(TextBlocks) /\ Heard(Only(pre, Shown), pre)
  BY <1>1, ToldReply
<1>10. CASE k = "oauth_responses"
  <2>1. Received(k, prov) = FromOutput(OutputOf(pre \o u))
    BY <1>0, <1>3, <1>10 DEF Received
  <2>2. FromOutput(OutputOf(pre \o u)) = Only(pre \o u, Shown)
    BY <1>17, ReplyAsItems
  <2>3. Received(k, prov) = Only(pre, Shown) \o v
    BY <1>10, <1>14, <1>17, <2>1, <2>2
  <2> DEFINE p == Only(pre, Shown)
  <2>4. p \in Seq(Quiet) /\ Heard(p, pre) /\ Opens(p) /\ Thinking \notin ToSet(p) /\ Received(k, prov) = p \o v
    BY <1>16, <1>17, <2>3
  <2> HIDE DEF p
  <2>5. Reads(w, shown, got, pre, v)
    BY <1>6, <1>10, <2>4
  <2> QED BY <2>5 DEF shown, got, prov, u, v
<1>11. CASE k = "codex"
  <2>1. got = ReadOutput(IF streaming THEN Streamed(OutputOf(pre \o u)) ELSE OutputOf(pre \o u)) /\ w # "anthropic"
    BY <1>0, <1>3, <1>5, <1>11
  <2>2. /\ ReadOutput(OutputOf(pre \o u)) = pre \o u
        /\ ReadOutput(Streamed(OutputOf(pre \o u))) = Only(pre \o u, Shown)
    BY <1>17, ReplyAsItems
  <2>3. \E t \in Seq(Quiet) : got = t \o v /\ Heard(t, pre)
    <3>1. CASE streaming
      <4>1. got = Only(pre, Shown) \o v
        BY <1>11, <1>14, <1>17, <2>1, <2>2, <3>1
      <4> QED BY <1>16, <1>17, <4>1
    <3>2. CASE ~streaming
      BY <1>7, <1>11, <1>15, <2>1, <2>2, <3>2
    <3> QED BY <3>1, <3>2
  <2>4. Reads(w, shown, got, pre, v)
    BY <2>1, <2>3 DEF Reads
  <2> QED BY <2>4 DEF shown, got, prov, u, v
<1> QED BY <1>0, <1>8, <1>9, <1>10, <1>11

---------------------------------------------------------------------------
(* What is said.                                                           *)

\* What is said opens with thinking or texts and ends with calls that were not made before.
FreshCalls(said, thoughts, format) ==
  \E pre \in Seq(Quiet), us \in Seq(UseBlocks) :
    /\ said = pre \o us /\ said # <<>>
    /\ Opens(pre) /\ (Thinking \in ToSet(pre) => <<Thinking>> \in thoughts)
    /\ format # "responses" => ToSet(us) \subseteq PlainUses
    /\ IsInjective(Ids(us)) /\ ToSet(Ids(us)) \subseteq ToSet(Calls) \ CallsOf(hist)

\* Thinking or none, a text or none, and calls that were not made before.
LEMMA SayingsAre ==
  ASSUME ConversationAssumption, NEW thoughts \in SUBSET {<<>>, <<Thinking>>}, NEW texts \in SUBSET Says,
         NEW format, NEW said \in Sayings(thoughts, texts, format)
  PROVE  FreshCalls(said, thoughts, format)
<1> DEFINE made == CallsOf(hist)
           P == {i \in DOMAIN Calls : Calls[i] \notin made}
<1>1. Calls \in Seq(STRING) /\ IsInjective(Calls)
  BY DEF ConversationAssumption
<1>2. Unused = At(Calls, P)
  BY DEF Unused
<1> HIDE DEF made
<1>3. /\ Unused \in Seq(STRING) /\ IsInjective(Unused)
      /\ ToSet(Unused) = {Calls[i] : i \in P \cap DOMAIN Calls}
  <2> HIDE DEF P
  <2> QED BY <1>1, <1>2, AtType, AtInjective, AtSet
<1>4. ToSet(Unused) \subseteq ToSet(Calls) \ made
  BY <1>3 DEF ToSet
<1> DEFINE texted == {<<>>} \cup {<<Text(t)>> : t \in texts}
           args(c) == IF format = "responses" /\ c \in Freeform THEN "free" ELSE "given"
           calls == {[i \in DOMAIN us |-> Use(us[i], args(us[i]))] : us \in {At(Unused, s) : s \in SUBSET DOMAIN Unused}}
<1>5. PICK th \in thoughts, tx \in texted, us \in calls : said = th \o tx \o us /\ said # <<>>
  <2> DEFINE S == {th \o tx \o us : th \in thoughts, tx \in texted, us \in calls}
  <2>1. Sayings(thoughts, texts, format) = S \ {<<>>}
    BY DEF Sayings
  <2> HIDE DEF S
  <2>2. said # <<>>
    BY <2>1
  <2>3. said \in S
    BY <2>1
  <2> HIDE DEF texted, calls
  <2>4. \E th \in thoughts, tx \in texted, us \in calls : said = th \o tx \o us
    BY <2>3 DEF S
  <2> QED BY <2>2, <2>4
<1>6. PICK s \in SUBSET DOMAIN Unused : us = [i \in DOMAIN At(Unused, s) |-> Use(At(Unused, s)[i], args(At(Unused, s)[i]))]
  BY <1>5
<1> DEFINE ids == At(Unused, s)
<1>7. ids \in Seq(STRING) /\ IsInjective(ids) /\ ToSet(ids) \subseteq ToSet(Unused)
  <2>1. ids \in Seq(STRING) /\ IsInjective(ids) /\ ToSet(ids) = {Unused[i] : i \in s \cap DOMAIN Unused}
    BY <1>3, AtType, AtInjective, AtSet
  <2> HIDE DEF ids
  <2> QED BY <2>1 DEF ToSet
<1> HIDE DEF ids
<1>8. us \in Seq(UseBlocks) /\ Ids(us) = ids /\ (format # "responses" => ToSet(us) \subseteq PlainUses)
  <2>1. DOMAIN ids = 1..Len(ids) /\ Len(ids) \in Nat /\ \A i \in 1..Len(ids) : ids[i] \in STRING
    BY <1>7
  <2>2. /\ \A i \in 1..Len(ids) : Use(ids[i], args(ids[i])) \in UseBlocks /\ Use(ids[i], args(ids[i])).id = ids[i]
        /\ format # "responses" => \A i \in 1..Len(ids) : Use(ids[i], args(ids[i])) \in PlainUses
    <3>1. \A i \in 1..Len(ids) : args(ids[i]) \in Args /\ (format # "responses" => args(ids[i]) = "given")
      BY DEF Args
    <3> HIDE DEF args
    <3>2. \A i \in 1..Len(ids) :
            /\ Use(ids[i], args(ids[i])) \in UseBlocks
            /\ Use(ids[i], args(ids[i])).id = ids[i]
            /\ Use(ids[i], args(ids[i])).args = args(ids[i])
      <4> TAKE i \in 1..Len(ids)
      <4>1. ids[i] \in STRING /\ args(ids[i]) \in Args
        BY <2>1, <3>1
      <4> QED BY <4>1, BlockForms
    <3>3. \A b \in UseBlocks : b.args = "given" => b \in PlainUses
      BY DEF PlainUses, Custom
    <3>4. format # "responses" => \A i \in 1..Len(ids) : Use(ids[i], args(ids[i])) \in PlainUses
      BY <3>1, <3>2, <3>3
    <3> QED BY <3>2, <3>4
  <2>3. us = [i \in 1..Len(ids) |-> Use(ids[i], args(ids[i]))]
    BY <1>6, <2>1 DEF ids
  <2> HIDE DEF args
  <2>4. us \in Seq(UseBlocks) /\ (format # "responses" => ToSet(us) \subseteq PlainUses)
    BY <2>1, <2>2, <2>3 DEF ToSet
  <2>5. Ids(us) = [i \in 1..Len(ids) |-> ids[i]]
    BY <2>1, <2>2, <2>3 DEF Ids
  <2> QED BY <1>7, <2>1, <2>4, <2>5
<1>12. th \in {<<>>, <<Thinking>>} /\ tx \in Seq(TextBlocks)
  <2>1. \A t \in texts : Text(t) \in TextBlocks
    BY BlockForms
  <2>2. <<>> \in Seq(TextBlocks) /\ \A b \in TextBlocks : <<b>> \in Seq(TextBlocks)
    OBVIOUS
  <2>3. tx = <<>> \/ \E t \in texts : tx = <<Text(t)>>
    BY <1>5
  <2> QED BY <2>1, <2>2, <2>3
<1>9. th \o tx \in Seq(Quiet) /\ (Thinking \in ToSet(th \o tx) => <<Thinking>> \in thoughts)
  <2>1. th \in Seq(Quiet) /\ tx \in Seq(Quiet) /\ Thinking \notin ToSet(tx)
    <3>1. <<>> \in Seq(Quiet) /\ <<Thinking>> \in Seq(Quiet)
      BY QuietBlocks
    <3> QED BY <1>12, <3>1, TextsHeard
  <2>2. th \o tx \in Seq(Quiet) /\ ToSet(th \o tx) = ToSet(th) \cup ToSet(tx)
    BY <2>1, ConcatType, ConcatSet
  <2>3. Thinking \in ToSet(th) => th = <<Thinking>>
    BY <1>12 DEF ToSet
  <2> QED BY <2>1, <2>2, <2>3
<1>10. ToSet(Ids(us)) \subseteq ToSet(Calls) \ CallsOf(hist)
  BY <1>4, <1>7, <1>8 DEF made
<1> DEFINE pre == th \o tx
<1> HIDE DEF pre
<1>11. /\ pre \in Seq(Quiet) /\ said = pre \o us /\ IsInjective(Ids(us)) /\ Opens(pre)
       /\ Thinking \in ToSet(pre) => <<Thinking>> \in thoughts
  BY <1>5, <1>7, <1>8, <1>9, <1>12 DEF pre, Opens
<1> QED BY <1>5, <1>8, <1>10, <1>11 DEF FreshCalls

---------------------------------------------------------------------------
(* One turn, with everything it chose.                                     *)

\* What a tier and the upstream can say.
TierSays == Sayings(Thoughts(kind), {"words", "blank"}, FormatOf(kind))
UpstreamSays == Sayings(UpstreamThoughts, {"words"}, wire)

\* The parts of a turn: its body, its tools, what is sent and what comes back.
BodyFrom(from) == Inbound(wire, SubSeq(hist, from, Len(hist)))
NamesFrom(from) == Pending(wire, BodyFrom(from))
SentFrom(from, shrinks) == SentToTier(wire, kind, BodyFrom(from), shrinks)
GotOf(said, ending, streaming) == Got(wire, kind, Provided(kind, said, ending), streaming)

\* A turn that a tier serves.
TierTurn(from, shrinks, said, ending, streaming) ==
  /\ Decide(config, NamesFrom(from)) = "route"
  /\ Accepts(kind, Routed(wire, kind, BodyFrom(from)))
  /\ Answers(Provided(kind, said, ending))
  /\ ~Guarded(said)
  /\ hist' = Keep(hist, GotOf(said, ending, streaming))
  /\ turn' = [asked |-> Len(hist), by |-> "tier", from |-> from,
              tier |-> TierFor(config, NamesFrom(from)), sent |-> SentFrom(from, shrinks),
              said |-> said, ending |-> ending, streamed |-> streaming, got |-> GotOf(said, ending, streaming)]

\* A turn that the upstream serves.
UpstreamTurn(from, shrinks, said) ==
  /\ hist' = Keep(hist, said)
  /\ turn' = [asked |-> Len(hist), by |-> "upstream", from |-> from,
              sent |-> Compress(wire, BodyFrom(from), shrinks), said |-> said, got |-> said]

\* TierServes is such a turn for some choice of its parts.
LEMMA TierTurns ==
  ASSUME TierServes
  PROVE  /\ hist # <<>> /\ Len(hist) < MaxMessages /\ Last(hist).role = "user"
         /\ wire' = wire /\ kind' = kind /\ config' = config
         /\ \E from \in Starts, shrinks \in Shrinks, said \in TierSays, ending \in Endings(kind), streaming \in BOOLEAN :
              TierTurn(from, shrinks, said, ending, streaming)
<1>1. hist # <<>> /\ Len(hist) < MaxMessages /\ Last(hist).role = "user"
      /\ wire' = wire /\ kind' = kind /\ config' = config
  BY DEF TierServes
<1> DEFINE Chosen(from, said, ending, sent, streaming) ==
             /\ hist' = Keep(hist, GotOf(said, ending, streaming))
             /\ turn' = [asked |-> Len(hist), by |-> "tier", from |-> from,
                         tier |-> TierFor(config, NamesFrom(from)), sent |-> sent,
                         said |-> said, ending |-> ending, streamed |-> streaming,
                         got |-> GotOf(said, ending, streaming)]
           Sendings(from) == {SentFrom(from, shrinks) : shrinks \in Shrinks}
<1>2. PICK from \in Starts :
        /\ Decide(config, NamesFrom(from)) = "route"
        /\ Accepts(kind, Routed(wire, kind, BodyFrom(from)))
        /\ \E said \in TierSays, ending \in Endings(kind) :
             /\ Answers(Provided(kind, said, ending))
             /\ ~Guarded(said)
             /\ \E sent \in Sendings(from), streaming \in BOOLEAN : Chosen(from, said, ending, sent, streaming)
  BY DEF TierServes, NamesFrom, BodyFrom, SentFrom, GotOf, TierSays
<1> HIDE DEF Chosen, Sendings
<1>3. PICK said \in TierSays, ending \in Endings(kind) :
        /\ Answers(Provided(kind, said, ending))
        /\ ~Guarded(said)
        /\ \E sent \in Sendings(from), streaming \in BOOLEAN : Chosen(from, said, ending, sent, streaming)
  BY <1>2
<1>4. PICK sent \in Sendings(from), streaming \in BOOLEAN : Chosen(from, said, ending, sent, streaming)
  BY <1>3
<1>5. PICK shrinks \in Shrinks : sent = SentFrom(from, shrinks)
  BY <1>4 DEF Sendings
<1>6. TierTurn(from, shrinks, said, ending, streaming)
  BY <1>2, <1>3, <1>4, <1>5 DEF TierTurn, Chosen
<1> QED BY <1>1, <1>6

\* UpstreamServes is such a turn for some choice of its parts.
LEMMA UpstreamTurns ==
  ASSUME UpstreamServes
  PROVE  /\ hist # <<>> /\ Len(hist) < MaxMessages /\ Last(hist).role = "user"
         /\ wire' = wire /\ kind' = kind /\ config' = config
         /\ \E from \in Starts, shrinks \in Shrinks, said \in UpstreamSays : UpstreamTurn(from, shrinks, said)
<1> DEFINE Sendings(from) == {Compress(wire, BodyFrom(from), shrinks) : shrinks \in Shrinks}
<1>1. PICK from \in Starts : \E sent \in Sendings(from), said \in UpstreamSays :
        /\ hist' = Keep(hist, said)
        /\ turn' = [asked |-> Len(hist), by |-> "upstream", from |-> from, sent |-> sent, said |-> said, got |-> said]
  BY DEF UpstreamServes, BodyFrom, UpstreamSays
<1>2. PICK sent \in Sendings(from), said \in UpstreamSays :
        /\ hist' = Keep(hist, said)
        /\ turn' = [asked |-> Len(hist), by |-> "upstream", from |-> from, sent |-> sent, said |-> said, got |-> said]
  BY <1>1
<1>3. PICK shrinks \in Shrinks : sent = Compress(wire, BodyFrom(from), shrinks)
  BY <1>2
<1>4. UpstreamTurn(from, shrinks, said)
  BY <1>2, <1>3 DEF UpstreamTurn
<1> QED BY <1>4 DEF UpstreamServes

---------------------------------------------------------------------------
(* The history: whose turn it is, results of the calls just made before a  *)
(* text, calls behind what else was said, and no call made twice.          *)

\* The calls of a message, and the results a client gives.
CallsIn(m) == ToSet(Ids(Uses(m.content)))
Given == [type : {"tool_result"}, id : STRING, form : {"long", "rich"}]

\* What a client says: results of different calls, then words or none.
Brings(content) ==
  \E rs \in Seq(Given), ts \in {<<>>, <<Text("words")>>} : content = rs \o ts /\ IsInjective(Ids(rs))

\* What it is answered: quiet blocks, then different calls.
Replies(content) ==
  \E pre \in Seq(Quiet), us \in Seq(UseBlocks) :
    content = pre \o us /\ IsInjective(Ids(us)) /\ ToSet(Ids(us)) \subseteq ToSet(Calls)

\* The calls a message may bring results of.
OpenAt(h, i) == IF i = 1 THEN {} ELSE CallsIn(h[i - 1])

\* A message of a history: roles alternate, results answer the message before.
GoodMessage(h, i) ==
  /\ h[i].content # <<>>
  /\ IF i = 1 THEN h[i].role = "user" ELSE h[i].role # h[i - 1].role
  /\ h[i].role = "user" =>
       Brings(h[i].content) /\ ToSet(Ids(Results(h[i].content))) \subseteq OpenAt(h, i)
  /\ h[i].role = "assistant" => Replies(h[i].content)

\* A history: good messages, and no call is made twice.
GoodHistory(h) ==
  /\ h \in Seq(Messages) /\ Len(h) <= MaxMessages
  /\ \A i \in DOMAIN h : GoodMessage(h, i)
  /\ \A i, j \in DOMAIN h : i # j => CallsIn(h[i]) \cap CallsIn(h[j]) = {}

\* What a user message consists of.
LEMMA BringsAre ==
  ASSUME NEW rs \in Seq(Given), NEW ts \in {<<>>, <<Text("words")>>}
  PROVE  /\ rs \in Seq(ResultBlocks) /\ ts \in Seq(TextBlocks)
         /\ rs \in Seq(Blocks) /\ ts \in Seq(Blocks) /\ rs \o ts \in Seq(Blocks)
         /\ Results(rs \o ts) = rs /\ Texts(rs \o ts) = ts /\ Uses(rs \o ts) = <<>>
         /\ ToSet(rs \o ts) = ToSet(rs) \cup ToSet(ts)
<1>1. Given \subseteq ResultBlocks /\ ResultBlocks \subseteq Blocks /\ TextBlocks \subseteq Blocks
  BY DEF Given, ResultBlocks, Blocks, Forms
<1>2. rs \in Seq(ResultBlocks) /\ rs \in Seq(Blocks) /\ ToSet(rs) \subseteq ResultBlocks
  <2>1. rs \in Seq(ResultBlocks)
    BY <1>1, WiderSeq
  <2> QED BY <1>1, <2>1, WiderSeq, ElementsOf
<1>3. ts \in Seq(TextBlocks) /\ ts \in Seq(Blocks) /\ ToSet(ts) \subseteq TextBlocks
  <2>1. Text("words") \in TextBlocks
    BY BlockForms DEF Says
  <2>2. <<>> \in Seq(TextBlocks) /\ \A b \in TextBlocks : <<b>> \in Seq(TextBlocks)
    OBVIOUS
  <2>3. ts = <<>> \/ ts = <<Text("words")>>
    OBVIOUS
  <2>4. ts \in Seq(TextBlocks)
    BY <2>1, <2>2, <2>3
  <2> QED BY <1>1, <2>4, WiderSeq, ElementsOf
<1>4. rs \o ts \in Seq(Blocks) /\ ToSet(rs \o ts) = ToSet(rs) \cup ToSet(ts)
  BY <1>2, <1>3, ConcatType, ConcatSet
<1>5. \A S : Only(rs \o ts, S) = Only(rs, S) \o Only(ts, S)
  BY <1>2, <1>3, OnlyConcat
<1>6. /\ Only(rs, ResultBlocks) = rs /\ Only(ts, ResultBlocks) = <<>>
      /\ Only(rs, TextBlocks) = <<>> /\ Only(ts, TextBlocks) = ts
      /\ Only(rs, UseBlocks) = <<>> /\ Only(ts, UseBlocks) = <<>>
  <2>1. ResultBlocks \cap TextBlocks = {} /\ ResultBlocks \cap UseBlocks = {} /\ TextBlocks \cap UseBlocks = {}
    BY QuietBlocks
  <2>3. \A s \in Seq(Blocks) : \A S : (ToSet(s) \subseteq S => Only(s, S) = s) /\ (ToSet(s) \cap S = {} => Only(s, S) = <<>>)
    BY OnlyAll, OnlyNothing
  <2> QED BY <1>2, <1>3, <2>1, <2>3
<1>7. rs \o <<>> = rs /\ <<>> \o ts = ts /\ <<>> \o <<>> = <<>>
  BY <1>2, <1>3
<1> DEFINE u == rs \o ts
<1>8. Results(u) = Only(u, ResultBlocks) /\ Texts(u) = Only(u, TextBlocks) /\ Uses(u) = Only(u, UseBlocks)
  <2>1. u \in Seq(Blocks)
    BY <1>4
  <2> HIDE DEF u
  <2> QED BY <2>1, OfTypeIs
<1>9. Results(u) = rs /\ Texts(u) = ts /\ Uses(u) = <<>>
  <2>1. \A S : Only(u, S) = Only(rs, S) \o Only(ts, S)
    BY <1>5
  <2> HIDE DEF u
  <2> QED BY <1>6, <1>7, <1>8, <2>1
<1> QED BY <1>2, <1>3, <1>4, <1>9

\* A conversation starts with a good history.
LEMMA NoHistory ==
  ASSUME MaxMessages \in Nat
  PROVE  GoodHistory(<<>>)
<1>1. <<>> \in Seq(Messages) /\ Len(<<>>) <= MaxMessages /\ DOMAIN <<>> = {}
  OBVIOUS
<1> QED BY <1>1 DEF GoodHistory

\* A message that is good behind a good history.
LEMMA LongerHistory ==
  ASSUME NEW h, GoodHistory(h), NEW m \in Messages, Len(h) < MaxMessages, MaxMessages \in Nat,
         m.content # <<>>,
         IF h = <<>> THEN m.role = "user" ELSE m.role # Last(h).role,
         m.role = "user" =>
           /\ Brings(m.content)
           /\ ToSet(Ids(Results(m.content))) \subseteq IF h = <<>> THEN {} ELSE CallsIn(Last(h)),
         m.role = "assistant" => Replies(m.content),
         \A i \in DOMAIN h : CallsIn(h[i]) \cap CallsIn(m) = {}
  PROVE  GoodHistory(Append(h, m))
<1> DEFINE n == Len(h)
           g == Append(h, m)
<1>1. h \in Seq(Messages) /\ n \in Nat /\ DOMAIN h = 1..n
  BY DEF GoodHistory
<1>2. /\ g \in Seq(Messages) /\ Len(g) = n + 1 /\ DOMAIN g = 1..(n + 1)
      /\ \A i \in 1..n : g[i] = h[i]
      /\ g[n + 1] = m
  BY <1>1, AppendAt
<1>3. h # <<>> => Last(h) = h[n] /\ n # 0
  BY <1>1 DEF Last
<1>4. h = <<>> => n = 0
  OBVIOUS
<1> HIDE DEF g
<1>5. ASSUME NEW i \in 1..n PROVE GoodMessage(g, i)
  <2>1. GoodMessage(h, i) /\ g[i] = h[i] /\ (i # 1 => g[i - 1] = h[i - 1])
    BY <1>1, <1>2 DEF GoodHistory
  <2>2. OpenAt(g, i) = OpenAt(h, i)
    BY <2>1 DEF OpenAt
  <2> QED BY <2>1, <2>2 DEF GoodMessage
<1>6. GoodMessage(g, n + 1)
  <2>1. CASE h = <<>>
    <3>1. n + 1 = 1 /\ OpenAt(g, n + 1) = {}
      BY <1>4, <2>1 DEF OpenAt
    <3> QED BY <1>2, <2>1, <3>1 DEF GoodMessage
  <2>2. CASE h # <<>>
    <3>1. n + 1 # 1 /\ (n + 1) - 1 = n /\ g[n] = Last(h)
      BY <1>1, <1>2, <1>3, <2>2
    <3>2. OpenAt(g, n + 1) = CallsIn(Last(h))
      BY <3>1 DEF OpenAt
    <3> QED BY <1>2, <2>2, <3>1, <3>2 DEF GoodMessage
  <2> QED BY <2>1, <2>2
<1>7. ASSUME NEW i \in 1..(n + 1), NEW j \in 1..(n + 1), i # j
      PROVE  CallsIn(g[i]) \cap CallsIn(g[j]) = {}
  <2>1. CASE i \in 1..n /\ j \in 1..n
    <3>1. CallsIn(h[i]) \cap CallsIn(h[j]) = {}
      BY <1>1, <1>7, <2>1 DEF GoodHistory
    <3> QED BY <1>2, <2>1, <3>1
  <2>2. CASE i \in 1..n /\ j = n + 1
    BY <1>1, <1>2, <2>2
  <2>3. CASE i = n + 1 /\ j \in 1..n
    BY <1>1, <1>2, <2>3
  <2> QED BY <1>1, <1>7, <2>1, <2>2, <2>3
<1>8. \A i \in 1..(n + 1) : GoodMessage(g, i)
  BY <1>1, <1>5, <1>6
<1>9. n + 1 <= MaxMessages
  BY <1>1
<1> QED BY <1>2, <1>7, <1>8, <1>9 DEF GoodHistory, g

---------------------------------------------------------------------------
(* The inductive invariant, and that every action preserves it.            *)

\* The inductive invariant: the client's own history is good.
Inv ==
  /\ wire \in Wires /\ kind \in Kinds(wire) /\ config \in Configs
  /\ GoodHistory(hist)

\* The calls of an assistant message, and their order.
LEMMA RepliesAre ==
  ASSUME NEW content, Replies(content)
  PROVE  /\ content \in Seq(Blocks)
         /\ Ids(Uses(content)) \in Seq(STRING) /\ IsInjective(Ids(Uses(content)))
         /\ ToSet(Ids(Uses(content))) \subseteq ToSet(Calls)
<1>1. PICK pre \in Seq(Quiet), us \in Seq(UseBlocks) :
        content = pre \o us /\ IsInjective(Ids(us)) /\ ToSet(Ids(us)) \subseteq ToSet(Calls)
  BY DEF Replies
<1>2. content \in Seq(Blocks) /\ Uses(content) = us
  BY <1>1, ReplyParts
<1>3. us \in Seq(UseBlocks \cup ResultBlocks)
  BY WiderSeq
<1>4. Ids(us) \in Seq(STRING)
  BY <1>3, IdsAre
<1> QED BY <1>1, <1>2, <1>4

\* The results a client sends of calls it was told of.
Picked(open, answered) == At(open, {i \in DOMAIN open : open[i] \in answered})
\* The results given for some ids.
Sent(ids, forms) == [i \in DOMAIN ids |-> Result(ids[i], forms[ids[i]])]

\* The client gives results of different calls it was asked to make.
LEMMA GivenResults ==
  ASSUME NEW open \in Seq(STRING), IsInjective(open), NEW answered \in SUBSET ToSet(open),
         NEW forms \in [answered -> {"long", "rich"}]
  PROVE  LET ids == Picked(open, answered)
             rs == Sent(ids, forms)
         IN rs \in Seq(Given) /\ Ids(rs) = ids /\ IsInjective(ids) /\ ToSet(ids) \subseteq ToSet(open)
<1> DEFINE ids == Picked(open, answered)
           rs == Sent(ids, forms)
<1>1. ids = Only(open, answered)
  BY DEF Only, Picked
<1>2. ids \in Seq(STRING) /\ ToSet(ids) = ToSet(open) \cap answered
  <2>1. Only(open, answered) \in Seq(STRING) /\ ToSet(Only(open, answered)) = ToSet(open) \cap answered
    BY OnlyType, OnlySet
  <2> QED BY <1>1, <2>1
<1>3. IsInjective(ids)
  BY AtInjective DEF Picked
<1> HIDE DEF ids
<1>4. DOMAIN ids = 1..Len(ids) /\ Len(ids) \in Nat /\ \A i \in DOMAIN ids : ids[i] \in STRING /\ ids[i] \in answered
  <2>1. DOMAIN ids = 1..Len(ids) /\ Len(ids) \in Nat /\ \A i \in DOMAIN ids : ids[i] \in STRING
    BY <1>2, PlacesOf
  <2>2. \A i \in DOMAIN ids : ids[i] \in ToSet(ids)
    BY <1>2, ElementsOf
  <2> QED BY <1>2, <2>1, <2>2
<1>5. \A i \in DOMAIN ids : Result(ids[i], forms[ids[i]]) \in Given /\ Result(ids[i], forms[ids[i]]).id = ids[i]
  BY <1>4 DEF Result, Given
<1>6. rs = [i \in 1..Len(ids) |-> Result(ids[i], forms[ids[i]])]
  BY <1>4 DEF Sent
<1> HIDE DEF rs
<1>7. rs \in Seq(Given)
  BY <1>4, <1>5, <1>6
<1>8. Ids(rs) = ids
  <2>1. Ids(rs) = [i \in 1..Len(ids) |-> ids[i]]
    BY <1>4, <1>5, <1>6 DEF Ids
  <2>2. ids = [i \in 1..Len(ids) |-> ids[i]]
    BY <1>2, SameSeq
  <2> QED BY <2>1, <2>2
<1> QED BY <1>2, <1>3, <1>7, <1>8 DEF ids, rs

\* The client speaks: its history stays good.
LEMMA SpeakingGood ==
  ASSUME ConversationAssumption, Inv, ClientSpeaks
  PROVE  Inv' /\ turn' = NoTurn
<1>1. /\ Len(hist) < MaxMessages
      /\ hist # <<>> => Last(hist).role = "assistant"
      /\ turn' = NoTurn /\ wire' = wire /\ kind' = kind /\ config' = config
  BY DEF ClientSpeaks
<1> DEFINE open == IF hist = <<>> THEN <<>> ELSE Ids(Uses(Last(hist).content))
<1>2. PICK answered \in SUBSET ToSet(open), words \in {<<>>, <<Text("words")>>} :
        \E forms \in [answered -> {"long", "rich"}] :
          LET content == Sent(Picked(open, answered), forms) \o words
          IN content # <<>> /\ hist' = Append(hist, Message("user", content))
  BY DEF ClientSpeaks, Sent, Picked
<1>20. PICK forms \in [answered -> {"long", "rich"}] :
          LET content == Sent(Picked(open, answered), forms) \o words
          IN content # <<>> /\ hist' = Append(hist, Message("user", content))
  BY <1>2
<1> DEFINE ids == Picked(open, answered)
           rs == Sent(ids, forms)
           content == rs \o words
           m == Message("user", content)
<1>3. content # <<>> /\ hist' = Append(hist, m)
  BY <1>20
<1>4. hist \in Seq(Messages) /\ Len(hist) \in Nat
  BY DEF Inv, GoodHistory
<1>5. hist # <<>> => GoodMessage(hist, Len(hist)) /\ Last(hist) = hist[Len(hist)]
  BY <1>4, LastOf DEF Inv, GoodHistory
<1>6. open \in Seq(STRING) /\ IsInjective(open) /\ ToSet(open) = IF hist = <<>> THEN {} ELSE CallsIn(Last(hist))
  <2>1. CASE hist = <<>>
    <3>1. <<>> \in Seq(STRING) /\ IsInjective(<<>>) /\ ToSet(<<>>) = {}
      BY DEF IsInjective, ToSet
    <3> QED BY <2>1, <3>1
  <2>2. CASE hist # <<>>
    <3>1. Replies(Last(hist).content)
      BY <1>1, <1>5, <2>2 DEF GoodMessage
    <3> QED BY <2>2, <3>1, RepliesAre DEF CallsIn
  <2> QED BY <2>1, <2>2
<1> HIDE DEF open
<1>7. rs \in Seq(Given) /\ Ids(rs) = ids /\ IsInjective(ids) /\ ToSet(ids) \subseteq ToSet(open)
  BY <1>6, GivenResults
<1> HIDE DEF ids, rs
<1>8. content \in Seq(Blocks) /\ Results(content) = rs /\ Uses(content) = <<>>
  BY <1>7, BringsAre
<1>9. Brings(content)
  BY <1>7 DEF Brings
<1> HIDE DEF content
<1>10. m \in Messages /\ m.role = "user" /\ m.content = content
  BY <1>8, MessageParts
<1> HIDE DEF m
<1>11. CallsIn(m) = {}
  <2>1. Ids(<<>>) = <<>> /\ ToSet(<<>>) = {}
    BY DEF Ids, ToSet
  <2> QED BY <1>8, <1>10, <2>1 DEF CallsIn
<1>12. GoodHistory(hist')
  <2>1. IF hist = <<>> THEN m.role = "user" ELSE m.role # Last(hist).role
    BY <1>1, <1>10
  <2>2. m.role = "user" =>
          /\ Brings(m.content)
          /\ ToSet(Ids(Results(m.content))) \subseteq IF hist = <<>> THEN {} ELSE CallsIn(Last(hist))
    BY <1>6, <1>7, <1>8, <1>9, <1>10
  <2>3. m.role = "assistant" => Replies(m.content)
    BY <1>10
  <2>4. m.content # <<>> /\ GoodHistory(hist) /\ MaxMessages \in Nat
    BY <1>3, <1>10 DEF Inv, ConversationAssumption
  <2> QED BY <1>1, <1>3, <1>10, <1>11, <2>1, <2>2, <2>3, <2>4, LongerHistory
<1> QED BY <1>1, <1>12 DEF Inv

\* The client's turn, to speak or to ask again.
ClientTurn == ClientSpeaks \/ ClientRepeats

\* Whichever it does, its history stays good, and nobody has answered.
LEMMA ClientGood ==
  ASSUME ConversationAssumption, Inv, ClientTurn
  PROVE  Inv' /\ turn' = NoTurn
<1>1. CASE ClientRepeats
  BY <1>1 DEF ClientRepeats, Inv
<1> QED BY <1>1, SpeakingGood DEF ClientTurn

\* A reply that joins the history, or is empty.
LEMMA KeptGood ==
  ASSUME ConversationAssumption, GoodHistory(hist), hist # <<>>, Len(hist) < MaxMessages, Last(hist).role = "user",
         NEW got, Replies(got), ToSet(Ids(Uses(got))) \cap CallsOf(hist) = {}
  PROVE  /\ GoodHistory(Keep(hist, got))
         /\ Len(hist) <= Len(Keep(hist, got))
         /\ \A i \in 1..Len(hist) : Keep(hist, got)[i] = hist[i]
<1>1. hist \in Seq(Messages) /\ Len(hist) \in Nat /\ DOMAIN hist = 1..Len(hist) /\ MaxMessages \in Nat
  BY DEF GoodHistory, ConversationAssumption
<1>2. CASE got = <<>>
  BY <1>1, <1>2 DEF Keep
<1>3. CASE got # <<>>
  <2> DEFINE m == Message("assistant", got)
  <2>1. m \in Messages /\ m.role = "assistant" /\ m.content = got
    BY RepliesAre, MessageParts
  <2> HIDE DEF m
  <2>2. \A i \in DOMAIN hist : CallsIn(hist[i]) \cap CallsIn(m) = {}
    <3>1. \A i \in DOMAIN hist : CallsIn(hist[i]) \subseteq CallsOf(hist)
      BY DEF CallsIn, CallsOf
    <3> QED BY <2>1, <3>1 DEF CallsIn
  <2>3. GoodHistory(Append(hist, m))
    BY <1>1, <1>3, <2>1, <2>2, LongerHistory
  <2>4. Len(Append(hist, m)) = Len(hist) + 1 /\ \A i \in 1..Len(hist) : Append(hist, m)[i] = hist[i]
    BY <1>1, <2>1, AppendAt
  <2>5. Keep(hist, got) = Append(hist, m)
    BY <1>3 DEF Keep, m
  <2> QED BY <1>1, <2>3, <2>4, <2>5
<1> QED BY <1>2, <1>3

\* The calls that are passed on are some of those that were made.
LEMMA PassedCalls ==
  ASSUME NEW k, NEW streaming, NEW us \in Seq(UseBlocks), IsInjective(Ids(us)), NEW ending
  PROVE  LET v == Passing(k, streaming, Emptied(ending, us))
         IN v \in Seq(UseBlocks) /\ IsInjective(Ids(v)) /\ ToSet(Ids(v)) \subseteq ToSet(Ids(us))
<1> DEFINE u == Emptied(ending, us)
           f == [b \in UseBlocks |-> b.id]
<1>1. u \in Seq(UseBlocks) /\ Ids(u) = Ids(us)
  BY EmptiedCalls
<1> HIDE DEF u
<1>2. Maps(f, UseBlocks, STRING)
  BY BlockShapes DEF Maps
<1>3. \A s \in Seq(UseBlocks) : Ids(s) = Each(f, s)
  <2> TAKE s \in Seq(UseBlocks)
  <2>1. \A i \in DOMAIN s : s[i] \in UseBlocks
    BY PlacesOf
  <2> QED BY <2>1 DEF Ids, Each
<1> HIDE DEF f
<1>4. Only(u, PlainUses) \in Seq(UseBlocks)
  BY <1>1, OnlyType
<1>5. IsInjective(Ids(Only(u, PlainUses))) /\ ToSet(Ids(Only(u, PlainUses))) \subseteq ToSet(Ids(u))
  <2>1. IsInjective(Each(f, u))
    BY <1>1, <1>3
  <2>2. IsInjective(Each(f, Only(u, PlainUses))) /\ ToSet(Each(f, Only(u, PlainUses))) \subseteq ToSet(Each(f, u))
    BY <1>1, <1>2, <2>1, OnlyInjective
  <2> QED BY <1>1, <1>3, <1>4, <2>2
<1> QED BY <1>1, <1>4, <1>5 DEF Passing, u

\* Fresh calls behind something seen, and what the client reads of them.
TierReply(said, ending, streaming) ==
  \E pre \in Seq(Quiet), us \in Seq(UseBlocks) :
    /\ said = pre \o us /\ said # <<>>
    /\ IsInjective(Ids(us)) /\ ToSet(Ids(us)) \subseteq ToSet(Calls) \ CallsOf(hist)
    /\ Reads(wire, streaming /\ kind = "anthropic_oauth", GotOf(said, ending, streaming), pre,
             Passing(kind, streaming, Emptied(ending, us)))

\* What the tier said and the client reads of it.
LEMMA TierSaid ==
  ASSUME ConversationAssumption, Inv, NEW said \in TierSays,
         NEW ending \in Endings(kind), NEW streaming, Answers(Provided(kind, said, ending))
  PROVE  TierReply(said, ending, streaming)
<1>1. Thoughts(kind) \in SUBSET {<<>>, <<Thinking>>} /\ {"words", "blank"} \in SUBSET Says
  BY DEF Thoughts, Says
<1> DEFINE thoughts == Thoughts(kind)
           texts == {"words", "blank"}
           format == FormatOf(kind)
<1>0. /\ thoughts \in SUBSET {<<>>, <<Thinking>>} /\ texts \in SUBSET Says
      /\ said \in Sayings(thoughts, texts, format)
  BY <1>1 DEF TierSays
<1> HIDE DEF thoughts, texts, format
<1>5. FreshCalls(said, thoughts, format)
  BY <1>0, SayingsAre
<1>2. PICK pre \in Seq(Quiet), us \in Seq(UseBlocks) :
        /\ said = pre \o us /\ said # <<>>
        /\ Opens(pre) /\ (Thinking \in ToSet(pre) => <<Thinking>> \in Thoughts(kind))
        /\ FormatOf(kind) # "responses" => ToSet(us) \subseteq PlainUses
        /\ IsInjective(Ids(us)) /\ ToSet(Ids(us)) \subseteq ToSet(Calls) \ CallsOf(hist)
  BY <1>5 DEF FreshCalls, thoughts, format
<1>3. <<Thinking>> \in Thoughts(kind) => kind \notin {"direct", "litellm"}
  <2>1. <<Thinking>> # <<>>
    OBVIOUS
  <2> QED BY <2>1 DEF Thoughts
<1>4. Reads(wire, streaming /\ kind = "anthropic_oauth", GotOf(said, ending, streaming), pre,
            Passing(kind, streaming, Emptied(ending, us)))
  BY <1>2, <1>3, GotReply DEF Inv, GotOf
<1> QED BY <1>2, <1>4 DEF TierReply

\* The upstream makes calls that were not made before.
LEMMA UpstreamSaid ==
  ASSUME ConversationAssumption, NEW said \in UpstreamSays
  PROVE  \E pre \in Seq(Quiet), us \in Seq(UseBlocks) :
           /\ said = pre \o us /\ said # <<>>
           /\ IsInjective(Ids(us)) /\ ToSet(Ids(us)) \subseteq ToSet(Calls) \ CallsOf(hist)
<1>1. UpstreamThoughts \in SUBSET {<<>>, <<Thinking>>}
  BY DEF UpstreamThoughts
<1>2. {"words"} \in SUBSET Says
  BY DEF Says
<1> DEFINE thoughts == UpstreamThoughts
           texts == {"words"}
           format == wire
<1>3. /\ thoughts \in SUBSET {<<>>, <<Thinking>>} /\ texts \in SUBSET Says
      /\ said \in Sayings(thoughts, texts, format)
  BY <1>1, <1>2 DEF UpstreamSays
<1> HIDE DEF thoughts, texts, format
<1>4. FreshCalls(said, thoughts, format)
  BY <1>3, SayingsAre
<1> QED BY <1>4 DEF FreshCalls

\* A turn is served: the reply, if any, joins a history that stays good.
LEMMA ServedGood ==
  ASSUME ConversationAssumption, Inv, TierServes \/ UpstreamServes
  PROVE  /\ Inv'
         /\ wire' = wire /\ kind' = kind /\ config' = config
         /\ hist # <<>> /\ Last(hist).role = "user"
         /\ turn'.asked = Len(hist) /\ turn'.by \in {"tier", "upstream"}
         /\ Len(hist) <= Len(hist')
         /\ \A i \in 1..Len(hist) : hist'[i] = hist[i]
<1>1. CASE TierServes
  <2>1. /\ hist # <<>> /\ Len(hist) < MaxMessages /\ Last(hist).role = "user"
        /\ wire' = wire /\ kind' = kind /\ config' = config
    BY <1>1, TierTurns
  <2>2. PICK from \in Starts, shrinks \in Shrinks, said \in TierSays,
             ending \in Endings(kind), streaming \in BOOLEAN :
               TierTurn(from, shrinks, said, ending, streaming)
    BY <1>1, TierTurns
  <2> DEFINE got == GotOf(said, ending, streaming)
  <2>3. Answers(Provided(kind, said, ending)) /\ hist' = Keep(hist, got)
        /\ turn'.asked = Len(hist) /\ turn'.by = "tier"
    BY <2>2 DEF TierTurn
  <2>4. PICK pre \in Seq(Quiet), us \in Seq(UseBlocks) :
          /\ IsInjective(Ids(us)) /\ ToSet(Ids(us)) \subseteq ToSet(Calls) \ CallsOf(hist)
          /\ Reads(wire, streaming /\ kind = "anthropic_oauth", got, pre,
                   Passing(kind, streaming, Emptied(ending, us)))
    <3>1. TierReply(said, ending, streaming)
      BY <2>3, TierSaid
    <3> QED BY <3>1 DEF TierReply
  <2> DEFINE v == Passing(kind, streaming, Emptied(ending, us))
  <2>6. v \in Seq(UseBlocks) /\ IsInjective(Ids(v)) /\ ToSet(Ids(v)) \subseteq ToSet(Ids(us))
    BY <2>4, PassedCalls
  <2> HIDE DEF got, v
  <2>5. PICK t \in Seq(Quiet) : got = t \o v
    BY <2>4 DEF Reads, v
  <2>7. Uses(got) = v
    BY <2>5, <2>6, ReplyParts
  <2>8. Replies(got)
    BY <2>4, <2>5, <2>6 DEF Replies
  <2>9. ToSet(Ids(Uses(got))) \cap CallsOf(hist) = {}
    BY <2>4, <2>6, <2>7
  <2>10. /\ GoodHistory(Keep(hist, got)) /\ Len(hist) <= Len(Keep(hist, got))
         /\ \A i \in 1..Len(hist) : Keep(hist, got)[i] = hist[i]
    BY <2>1, <2>8, <2>9, KeptGood DEF Inv
  <2> QED BY <2>1, <2>3, <2>10 DEF Inv
<1>2. CASE UpstreamServes
  <2>1. /\ hist # <<>> /\ Len(hist) < MaxMessages /\ Last(hist).role = "user"
        /\ wire' = wire /\ kind' = kind /\ config' = config
    BY <1>2, UpstreamTurns
  <2>2. PICK from \in Starts, shrinks \in Shrinks, said \in UpstreamSays :
          UpstreamTurn(from, shrinks, said)
    BY <1>2, UpstreamTurns
  <2>3. hist' = Keep(hist, said) /\ turn'.asked = Len(hist) /\ turn'.by = "upstream"
    BY <2>2 DEF UpstreamTurn
  <2>5. PICK pre \in Seq(Quiet), us \in Seq(UseBlocks) :
          /\ said = pre \o us
          /\ IsInjective(Ids(us)) /\ ToSet(Ids(us)) \subseteq ToSet(Calls) \ CallsOf(hist)
    BY UpstreamSaid
  <2>6. Uses(said) = us
    BY <2>5, ReplyParts
  <2>7. Replies(said) /\ ToSet(Ids(Uses(said))) \cap CallsOf(hist) = {}
    BY <2>5, <2>6 DEF Replies
  <2>8. /\ GoodHistory(Keep(hist, said)) /\ Len(hist) <= Len(Keep(hist, said))
        /\ \A i \in 1..Len(hist) : Keep(hist, said)[i] = hist[i]
    BY <2>1, <2>7, KeptGood DEF Inv
  <2> QED BY <2>1, <2>3, <2>8 DEF Inv
<1> QED BY <1>1, <1>2

\* Inv holds at the start.
LEMMA InvInit == ASSUME ConversationAssumption, Init PROVE Inv
<1>1. MaxMessages \in Nat
  BY DEF ConversationAssumption
<1> QED BY <1>1, NoHistory DEF Init, Inv

\* Every step keeps Inv.
LEMMA InvNext ==
  ASSUME ConversationAssumption, Inv, [Next]_vars
  PROVE  Inv'
<1>1. CASE ClientTurn
  BY <1>1, ClientGood
<1>2. CASE TierServes \/ UpstreamServes
  BY <1>2, ServedGood
<1>3. CASE UNCHANGED vars
  BY <1>3 DEF vars, Inv
<1> QED BY <1>1, <1>2, <1>3 DEF Next, ClientTurn

---------------------------------------------------------------------------
(* Types.                                                                  *)

\* What a good history says of one message and the one before it.
LEMMA Alternation ==
  ASSUME NEW h, GoodHistory(h), NEW i \in DOMAIN h
  PROVE  /\ h \in Seq(Messages) /\ Len(h) \in Nat /\ DOMAIN h = 1..Len(h)
         /\ h[i] \in Messages /\ GoodMessage(h, i)
         /\ i # 1 => i - 1 \in DOMAIN h /\ (h[i].role = "user" <=> h[i - 1].role = "assistant")
         /\ h[i].role = "assistant" => i # 1
         /\ h[i].role = "user" => OpenAt(h, i) \subseteq ToSet(Calls)
<1>1. h \in Seq(Messages) /\ GoodMessage(h, i)
  BY DEF GoodHistory
<1>2. Len(h) \in Nat /\ DOMAIN h = 1..Len(h) /\ \A k \in DOMAIN h : h[k] \in Messages
  BY <1>1, PlacesOf
<1>3. \A k \in DOMAIN h : h[k].role \in {"user", "assistant"}
  BY <1>2, MessageShape
<1>4. i # 1 => i - 1 \in DOMAIN h
  BY <1>2
<1>5. i # 1 => (h[i].role = "user" <=> h[i - 1].role = "assistant")
  BY <1>1, <1>3, <1>4 DEF GoodMessage
<1>6. h[i].role = "assistant" => i # 1
  BY <1>1 DEF GoodMessage
<1>7. h[i].role = "user" => OpenAt(h, i) \subseteq ToSet(Calls)
  <2>1. CASE i = 1
    BY <2>1 DEF OpenAt
  <2>2. CASE i # 1
    <3>1. h[i].role = "user" => Replies(h[i - 1].content)
      BY <1>4, <1>5, <2>2 DEF GoodHistory, GoodMessage
    <3> QED BY <2>2, <3>1, RepliesAre DEF OpenAt, CallsIn
  <2> QED BY <2>1, <2>2
<1> QED BY <1>1, <1>2, <1>4, <1>5, <1>6, <1>7

\* A quiet block is a known block.
LEMMA QuietTyped ==
  ASSUME NEW b \in Quiet
  PROVE  Block(b)
<1>1. CASE b = Thinking
  BY <1>1 DEF Block
<1>2. CASE b \in TextBlocks
  <2>1. b = Text(b.text) /\ b.text \in {"words", "blank", "empty"}
    BY <1>2, BlockShapes DEF Says
  <2> QED BY <2>1 DEF Block
<1> QED BY <1>1, <1>2 DEF Quiet

\* A reply has known blocks.
LEMMA RepliesTyped ==
  ASSUME NEW content, Replies(content), NEW b \in ToSet(content)
  PROVE  Block(b)
<1>1. PICK pre \in Seq(Quiet), us \in Seq(UseBlocks) :
        content = pre \o us /\ ToSet(Ids(us)) \subseteq ToSet(Calls)
  BY DEF Replies
<1>2. b \in Quiet \/ (b \in ToSet(us) /\ ToSet(us) \subseteq UseBlocks)
  BY <1>1, ReplyParts
<1>3. CASE b \in ToSet(us) /\ ToSet(us) \subseteq UseBlocks
  <2>1. us \in Seq(UseBlocks \cup ResultBlocks)
    BY WiderSeq
  <2>2. b.id \in ToSet(Calls)
    BY <1>1, <1>3, <2>1, IdsAre
  <2>3. b = Use(b.id, b.args) /\ b.args \in {"given", "none", "free", "void"}
    BY <1>3, BlockShapes DEF Args
  <2> QED BY <2>2, <2>3 DEF Block
<1> QED BY <1>2, <1>3, QuietTyped

\* What a client says has known blocks.
LEMMA BringsTyped ==
  ASSUME NEW content, Brings(content), ToSet(Ids(Results(content))) \subseteq ToSet(Calls), NEW b \in ToSet(content)
  PROVE  Block(b)
<1>1. PICK rs \in Seq(Given), ts \in {<<>>, <<Text("words")>>} : content = rs \o ts
  BY DEF Brings
<1>2. /\ rs \in Seq(ResultBlocks) /\ ts \in Seq(TextBlocks) /\ Results(content) = rs
      /\ ToSet(content) = ToSet(rs) \cup ToSet(ts)
  BY <1>1, BringsAre
<1>3. CASE b \in ToSet(ts)
  <2>1. b \in TextBlocks
    BY <1>2, <1>3, ElementsOf
  <2> QED BY <2>1, QuietTyped, QuietBlocks
<1>4. CASE b \in ToSet(rs)
  <2>1. rs \in Seq(UseBlocks \cup ResultBlocks)
    BY <1>2, WiderSeq
  <2>2. b.id \in ToSet(Calls)
    BY <1>2, <1>4, <2>1, IdsAre
  <2>3. b \in Given
    BY <1>4, ElementsOf
  <2>4. b \in ResultBlocks /\ b.form \in {"long", "rich"}
    BY <2>3 DEF Given, ResultBlocks, Forms
  <2>5. b = Result(b.id, b.form)
    BY <2>4, BlockShapes
  <2> QED BY <2>2, <2>4, <2>5 DEF Block
<1> QED BY <1>2, <1>3, <1>4

\* A good history has the types TypeOK asks for.
LEMMA HistoryTyped ==
  ASSUME NEW h, GoodHistory(h), NEW i \in DOMAIN h
  PROVE  /\ h[i].role \in {"user", "assistant"} /\ h[i].content # <<>>
         /\ \A j \in DOMAIN h[i].content : Block(h[i].content[j])
<1>1. h[i] \in Messages /\ GoodMessage(h, i) /\ (h[i].role = "user" => OpenAt(h, i) \subseteq ToSet(Calls))
  BY Alternation
<1>2. h[i].role \in {"user", "assistant"} /\ h[i].content \in Seq(Blocks)
  BY <1>1, MessageShape
<1>3. \A j \in DOMAIN h[i].content : h[i].content[j] \in ToSet(h[i].content)
  BY <1>2, ElementsOf
<1>4. \A b \in ToSet(h[i].content) : Block(b)
  <2>1. CASE h[i].role = "user"
    BY <1>1, <2>1, BringsTyped DEF GoodMessage
  <2>2. CASE h[i].role = "assistant"
    BY <1>1, <2>2, RepliesTyped DEF GoodMessage
  <2> QED BY <1>2, <2>1, <2>2
<1> QED BY <1>1, <1>2, <1>3, <1>4 DEF GoodMessage

\* The part of TypeOK about the turn.
TurnTyped == turn.asked \in 0..Len(hist) /\ turn.by \in {"nobody", "tier", "upstream"}

\* There is no turn at the start.
LEMMA NobodysTurn == NoTurn.asked = 0 /\ NoTurn.by = "nobody"
BY DEF NoTurn

\* What the invariant and the last turn make of TypeOK.
LEMMA Typed ==
  ASSUME Inv, TurnTyped
  PROVE  TypeOK
<1>1. GoodHistory(hist) /\ Len(hist) <= MaxMessages
  BY DEF Inv, GoodHistory
<1>2. \A i \in DOMAIN hist :
         /\ hist[i].role \in {"user", "assistant"} /\ hist[i].content # <<>>
         /\ \A j \in DOMAIN hist[i].content : Block(hist[i].content[j])
  BY <1>1, HistoryTyped
<1> QED BY <1>1, <1>2 DEF TypeOK, Inv, TurnTyped

\* Every step keeps the turn typed.
LEMMA TurnTypedNext ==
  ASSUME ConversationAssumption, Inv, TurnTyped, [Next]_vars
  PROVE  TurnTyped'
<1>1. Len(hist) \in Nat /\ Len(hist') \in Nat
  <2>1. Inv'
    BY InvNext
  <2>2. hist \in Seq(Messages) /\ hist' \in Seq(Messages)
    BY <2>1 DEF Inv, GoodHistory
  <2> QED BY <2>2
<1>2. CASE ClientTurn
  BY <1>1, <1>2, ClientGood, NobodysTurn DEF TurnTyped
<1>3. CASE TierServes \/ UpstreamServes
  <2>1. turn'.asked = Len(hist) /\ turn'.by \in {"tier", "upstream"} /\ Len(hist) <= Len(hist')
    BY <1>3, ServedGood
  <2> QED BY <1>1, <2>1 DEF TurnTyped
<1>4. CASE UNCHANGED vars
  BY <1>4 DEF vars, TurnTyped
<1> QED BY <1>2, <1>3, <1>4 DEF Next, ClientTurn

(***************************************************************************)
(* The history is what a client of the wire can replay, in every reachable *)
(* state and for any number of calls, tools and messages.                  *)
(***************************************************************************)
THEOREM ConversationTyped == Spec => []TypeOK
<1>1. ConversationAssumption
  BY ConversationAssumption
<1>2. Init => Inv /\ TurnTyped
  <2> SUFFICES ASSUME Init PROVE Inv /\ TurnTyped
    OBVIOUS
  <2>1. Inv
    BY <1>1, InvInit
  <2>2. hist \in Seq(Messages)
    BY <2>1 DEF Inv, GoodHistory
  <2>3. TurnTyped
    BY <2>2, NobodysTurn DEF Init, TurnTyped
  <2> QED BY <2>1, <2>3
<1>3. Inv /\ TurnTyped /\ [Next]_vars => (Inv /\ TurnTyped)'
  BY <1>1, InvNext, TurnTypedNext
<1>4. Inv /\ TurnTyped => TypeOK
  BY Typed
<1> QED BY <1>2, <1>3, <1>4, PTL DEF Spec

---------------------------------------------------------------------------
(* What the client reads.                                                  *)

\* Of the blocks of a reply, without and with its calls.
LEMMA QuietThings ==
  ASSUME NEW pre \in Seq(Quiet), NEW us \in Seq(UseBlocks)
  PROVE  /\ Text("words") \in ToSet(pre \o us) <=> QuietWords(pre)
         /\ Thinking \in ToSet(pre \o us) <=> Thinking \in ToSet(pre)
<1>1. ToSet(pre \o us) = ToSet(pre) \cup ToSet(us) /\ ToSet(us) \subseteq UseBlocks
  BY ReplyParts
<1>2. Text("words") \in TextBlocks
  BY BlockForms DEF Says
<1>3. Text("words") \notin UseBlocks /\ Thinking \notin UseBlocks
  BY <1>2, QuietBlocks
<1> QED BY <1>1, <1>3 DEF QuietWords

\* A turn that a tier serves brings the client what was said.
LEMMA ReplyNext ==
  ASSUME ConversationAssumption, Inv, TierServes
  PROVE  ReplyArrives'
<1>1. PICK from \in Starts, shrinks \in Shrinks, said \in TierSays, ending \in Endings(kind), streaming \in BOOLEAN :
        TierTurn(from, shrinks, said, ending, streaming)
  BY TierTurns
<1> DEFINE got == GotOf(said, ending, streaming)
           shown == streaming /\ kind = "anthropic_oauth"
<1>2. /\ Answers(Provided(kind, said, ending))
      /\ turn'.said = said /\ turn'.ending = ending /\ turn'.got = got /\ (turn'.streamed <=> streaming)
      /\ wire' = wire /\ kind' = kind
  BY <1>1, TierTurns DEF TierTurn
<1>3. PICK pre \in Seq(Quiet), us \in Seq(UseBlocks) :
        /\ said = pre \o us /\ said # <<>>
        /\ IsInjective(Ids(us)) /\ ToSet(Ids(us)) \subseteq ToSet(Calls) \ CallsOf(hist)
        /\ Reads(wire, shown, got, pre, Passing(kind, streaming, Emptied(ending, us)))
  <2>1. TierReply(said, ending, streaming)
    BY <1>1, <1>2, TierSaid
  <2> QED BY <2>1 DEF TierReply
<1> DEFINE u == Emptied(ending, us)
           v == Passing(kind, streaming, u)
           told == Passing(kind, streaming, us)
<1>4. v \in Seq(UseBlocks) /\ Ids(v) = Ids(told) /\ (ending # "hollow" => v = told)
  <2>1. u \in Seq(UseBlocks) /\ Ids(u) = Ids(us) /\ Ids(Only(u, PlainUses)) = Ids(Only(us, PlainUses))
        /\ (ending # "hollow" => u = us)
    BY EmptiedCalls DEF Emptied
  <2>2. v \in Seq(UseBlocks)
    BY <1>3, PassedCalls
  <2> HIDE DEF u
  <2> QED BY <2>1, <2>2 DEF Passing
<1> HIDE DEF got
<1>5. PICK t \in Seq(Quiet) :
        /\ got = t \o v
        /\ Heard(t, pre)
        /\ wire = "anthropic" =>
             \A j \in DOMAIN t : t[j] \in Seen \/ (shown /\ j = 1 /\ pre # <<>> /\ pre[1] = Thinking)
  BY <1>3 DEF Reads
<1> HIDE DEF u, v, told
<1>6. Uses(got) = v /\ Uses(said) = us
  BY <1>3, <1>4, <1>5, ReplyParts
<1>7. Text("words") \in ToSet(got) <=> Text("words") \in ToSet(said)
  BY <1>3, <1>4, <1>5, QuietThings DEF Heard
<1>8. Thinking \in ToSet(got) => Thinking \in ToSet(said)
  BY <1>3, <1>4, <1>5, QuietThings DEF Heard
<1>9. CallsTold' = told
  <2>1. Uses(turn'.said) = us
    BY <1>2, <1>6
  <2>2. At(us, {i \in DOMAIN us : ~Custom(us[i])}) = Only(us, PlainUses)
    <3> DEFINE P == {i \in DOMAIN us : ~Custom(us[i])}
    <3>1. \A i \in DOMAIN us : us[i] \in UseBlocks
      BY PlacesOf
    <3>2. \A i \in DOMAIN us : i \in P <=> us[i] \in PlainUses
      BY <3>1 DEF PlainUses
    <3> HIDE DEF P
    <3>3. At(us, P) = Only(us, PlainUses)
      BY <3>2, OnlyIs
    <3> QED BY <3>3 DEF P
  <2>3. CallsTold' = IF kind = "codex" /\ ~streaming THEN us ELSE At(us, {i \in DOMAIN us : ~Custom(us[i])})
    BY <1>2, <2>1 DEF CallsTold
  <2> QED BY <2>2, <2>3 DEF told, Passing
<1>10. ASSUME wire = "anthropic", NEW j \in DOMAIN got
       PROVE  Visible(got[j]) \/ (shown /\ j = 1 /\ said[1] = Thinking)
  <2>1. DOMAIN t = 1..Len(t) /\ Len(t) \in Nat /\ DOMAIN v = 1..Len(v) /\ Len(v) \in Nat
    BY <1>4
  <2>2. DOMAIN got = 1..(Len(t) + Len(v)) /\ \A i \in DOMAIN got :
          got[i] = IF i <= Len(t) THEN t[i] ELSE v[i - Len(t)]
    BY <1>4, <1>5
  <2>3. CASE j \in DOMAIN t
    <3>1. got[j] = t[j]
      BY <2>1, <2>2, <2>3
    <3>2. CASE t[j] \in Seen
      BY <3>1, <3>2 DEF Seen, Visible
    <3>3. CASE shown /\ j = 1 /\ pre # <<>> /\ pre[1] = Thinking
      <4>1. said[1] = pre[1]
        BY <1>3, <3>3
      <4> QED BY <3>3, <4>1
    <3> QED BY <1>5, <1>10, <2>3, <3>2, <3>3
  <2>4. CASE j \notin DOMAIN t
    <3>1. got[j] = v[j - Len(t)] /\ j - Len(t) \in DOMAIN v
      BY <2>1, <2>2, <2>4
    <3>2. got[j] \in UseBlocks
      BY <1>4, <3>1, PlacesOf
    <3> QED BY <3>2, QuietBlocks DEF Seen, Visible
  <2> QED BY <2>3, <2>4
<1>11. turn'.ending = ending /\ Ids(Uses(got)) = Ids(told) /\ (ending # "hollow" => Uses(got) = told)
  BY <1>2, <1>4, <1>6
<1> QED BY <1>2, <1>7, <1>8, <1>9, <1>10, <1>11 DEF ReplyArrives

\* No other turn is a tier's.
LEMMA NobodyReplies ==
  ASSUME turn' = NoTurn \/ turn'.by # "tier"
  PROVE  ReplyArrives'
<1>1. turn'.by # "tier"
  BY NobodysTurn
<1> QED BY <1>1 DEF ReplyArrives

(***************************************************************************)
(* The client reads what the tier said, whatever the wire, the kind of the *)
(* tier, the way its answer ends and the calls it makes.                   *)
(***************************************************************************)
THEOREM RepliesArrive == Spec => []ReplyArrives
<1>1. ConversationAssumption
  BY ConversationAssumption
<1>2. Init => Inv /\ ReplyArrives
  <2>1. Init => ReplyArrives
    BY NobodysTurn DEF Init, ReplyArrives
  <2> QED BY <1>1, <2>1, InvInit
<1>3. Inv /\ ReplyArrives /\ [Next]_vars => (Inv /\ ReplyArrives)'
  <2> SUFFICES ASSUME Inv, ReplyArrives, [Next]_vars PROVE ReplyArrives'
    BY <1>1, InvNext
  <2>1. CASE ClientTurn
    BY <1>1, <2>1, ClientGood, NobodyReplies
  <2>2. CASE TierServes
    BY <1>1, <2>2, ReplyNext
  <2>3. CASE UpstreamServes
    <3>1. turn'.by # "tier"
      BY <2>3, UpstreamTurns DEF UpstreamTurn
    <3> QED BY <3>1, NobodyReplies
  <2>4. CASE UNCHANGED vars
    BY <2>4 DEF vars, ReplyArrives, CallsTold
  <2> QED BY <2>1, <2>2, <2>3, <2>4 DEF Next, ClientTurn
<1> QED BY <1>2, <1>3, PTL DEF Spec

---------------------------------------------------------------------------
(* What the upstream reads.                                                *)

\* A history that is repaired and compressed is still the history.
LEMMA ForwardedAre ==
  ASSUME NEW messages \in Seq(Messages), NEW shrinks, NEW sent,
         sent = Compress("anthropic", Clean("anthropic", messages), shrinks)
  PROVE  /\ DOMAIN sent = DOMAIN messages
         /\ \A k \in DOMAIN messages :
              /\ sent[k].role = messages[k].role
              /\ Essence(sent[k].content) = Essence(messages[k].content)
              /\ \/ \A j \in DOMAIN sent[k].content : Visible(sent[k].content[j])
                 \/ \A j \in DOMAIN messages[k].content : ~Visible(messages[k].content[j])
<1> DEFINE body == Clean("anthropic", messages)
<1>1. DOMAIN messages = 1..Len(messages) /\ Len(messages) \in Nat /\ \A k \in DOMAIN messages : messages[k] \in Messages
  BY PlacesOf
<1>2. body = [k \in 1..Len(messages) |-> CleanMessage(messages[k])]
  BY <1>1 DEF Clean
<1>3. body \in Seq(Messages) /\ DOMAIN body = DOMAIN messages
      /\ \A k \in DOMAIN messages : body[k] = CleanMessage(messages[k])
  BY <1>1, <1>2, CleanedMessage
<1> HIDE DEF body
<1>4. sent = Compress("anthropic", body, shrinks)
  BY DEF body
<1>5. /\ DOMAIN sent = DOMAIN body
      /\ \A k \in DOMAIN body :
           /\ sent[k].role = body[k].role
           /\ Essence(sent[k].content) = Essence(body[k].content)
           /\ (\A j \in DOMAIN body[k].content : Visible(body[k].content[j])) =>
                 \A j \in DOMAIN sent[k].content : Visible(sent[k].content[j])
  BY <1>3, <1>4, EssenceOfCompressed
<1>6. ASSUME NEW k \in DOMAIN messages
      PROVE  /\ body[k].role = messages[k].role
             /\ Essence(body[k].content) = Essence(messages[k].content)
             /\ \/ \A j \in DOMAIN body[k].content : Visible(body[k].content[j])
                \/ \A j \in DOMAIN messages[k].content : ~Visible(messages[k].content[j])
  <2>1. messages[k] \in Messages
    BY <1>1
  <2> QED BY <1>3, <2>1, EssenceOfClean, CleanedMessage
<1> QED BY <1>3, <1>5, <1>6

\* A turn that the upstream serves forwards the history.
LEMMA ForwardNext ==
  ASSUME ConversationAssumption, Inv, UpstreamServes
  PROVE  ForwardIsTheHistory'
<1>1. PICK from \in Starts, shrinks \in Shrinks, said \in UpstreamSays :
        UpstreamTurn(from, shrinks, said)
  BY UpstreamTurns
<1>2. /\ turn'.sent = Compress(wire, BodyFrom(from), shrinks) /\ turn'.asked = Len(hist)
  BY <1>1 DEF UpstreamTurn
<1>3. hist \in Seq(Messages) /\ DOMAIN hist = 1..Len(hist) /\ Len(hist) \in Nat
  BY PlacesOf DEF Inv, GoodHistory
<1>4. wire' = wire /\ \A k \in 1..Len(hist) : hist'[k] = hist[k]
  BY ServedGood
<1>5. ASSUME wire = "anthropic"
      PROVE  turn'.sent = Compress("anthropic", Clean("anthropic", hist), shrinks)
  <2>1. from = 1
    BY <1>5 DEF Starts
  <2>2. SubSeq(hist, 1, Len(hist)) = hist
    BY <1>3
  <2>3. BodyFrom(from) = Clean("anthropic", hist)
    BY <1>5, <2>1, <2>2 DEF BodyFrom, Inbound, Body
  <2> QED BY <1>2, <1>5, <2>3
<1>6. ASSUME wire = "anthropic"
      PROVE  /\ DOMAIN turn'.sent = 1..Len(hist)
             /\ \A k \in 1..Len(hist) :
                  /\ turn'.sent[k].role = hist[k].role
                  /\ Essence(turn'.sent[k].content) = Essence(hist[k].content)
                  /\ \/ \A j \in DOMAIN turn'.sent[k].content : Visible(turn'.sent[k].content[j])
                     \/ \A j \in DOMAIN hist[k].content : ~Visible(hist[k].content[j])
  BY <1>3, <1>5, <1>6, ForwardedAre
<1>7. wire = "anthropic" => Len(turn'.sent) = Len(hist)
  BY <1>3, <1>6
<1> QED BY <1>2, <1>4, <1>6, <1>7 DEF ForwardIsTheHistory

(***************************************************************************)
(* What the Anthropic upstream is sent is the conversation, of any length  *)
(* and whatever the tiers left in it.                                      *)
(***************************************************************************)
THEOREM ForwardIsFaithful == Spec => []ForwardIsTheHistory
<1>1. ConversationAssumption
  BY ConversationAssumption
<1>2. Init => Inv /\ ForwardIsTheHistory
  <2>1. Init => ForwardIsTheHistory
    BY NobodysTurn DEF Init, ForwardIsTheHistory
  <2> QED BY <1>1, <2>1, InvInit
<1>3. Inv /\ ForwardIsTheHistory /\ [Next]_vars => (Inv /\ ForwardIsTheHistory)'
  <2> SUFFICES ASSUME Inv, ForwardIsTheHistory, [Next]_vars PROVE ForwardIsTheHistory'
    BY <1>1, InvNext
  <2>1. CASE ClientTurn
    <3>1. turn'.by # "upstream"
      BY <1>1, <2>1, ClientGood, NobodysTurn
    <3> QED BY <3>1 DEF ForwardIsTheHistory
  <2>2. CASE TierServes
    <3>1. turn'.by # "upstream"
      BY <2>2, TierTurns DEF TierTurn
    <3> QED BY <3>1 DEF ForwardIsTheHistory
  <2>3. CASE UpstreamServes
    BY <1>1, <2>3, ForwardNext
  <2>4. CASE UNCHANGED vars
    BY <2>4 DEF vars, ForwardIsTheHistory
  <2> QED BY <2>1, <2>2, <2>3, <2>4 DEF Next, ClientTurn
<1> QED BY <1>2, <1>3, PTL DEF Spec

---------------------------------------------------------------------------
(* The bodies of the Chat and the Responses wire.                          *)

\* The messages of a Chat body.
ChatMessages == [role : {"user", "assistant"}, text : Says, calls : Seq(UseBlocks)]
ToolMessages == [role : {"tool"}, id : STRING, form : Forms]
ChatThings == ChatMessages \cup ToolMessages

\* The constructors make messages of a Chat body.
LEMMA ChatForms ==
  /\ \A role \in {"user", "assistant"}, t \in Says, us \in Seq(UseBlocks) :
       /\ ChatMessage(role, t, us) \in ChatMessages
       /\ ChatMessage(role, t, us).role = role /\ ChatMessage(role, t, us).text = t
       /\ ChatMessage(role, t, us).calls = us
  /\ \A c \in STRING, form \in Forms :
       /\ ToolMessage(c, form) \in ToolMessages
       /\ ToolMessage(c, form).role = "tool" /\ ToolMessage(c, form).id = c /\ ToolMessage(c, form).form = form
BY DEF ChatMessage, ToolMessage, ChatMessages, ToolMessages

\* The Chat messages of one result and of one text.
ToolOf == [b \in ResultBlocks |-> ToolMessage(b.id, b.form)]
SayOf == [b \in TextBlocks |-> ChatMessage("user", b.text, <<>>)]

\* What those messages are.
LEMMA ToolsAndSays ==
  /\ Maps(ToolOf, ResultBlocks, ChatThings) /\ Maps(SayOf, TextBlocks, ChatThings)
  /\ \A b \in ResultBlocks : /\ ToolOf[b] = ToolMessage(b.id, b.form) /\ ToolOf[b] \in ToolMessages
                             /\ ToolOf[b].role = "tool" /\ ToolOf[b].id = b.id /\ ToolOf[b].form = b.form
  /\ \A b \in TextBlocks : SayOf[b] = ChatMessage("user", b.text, <<>>) /\ SayOf[b].role = "user"
<1>1. \A b \in ResultBlocks : /\ ToolMessage(b.id, b.form) \in ToolMessages
                              /\ ToolMessage(b.id, b.form).role = "tool" /\ ToolMessage(b.id, b.form).id = b.id
                              /\ ToolMessage(b.id, b.form).form = b.form
  <2> TAKE b \in ResultBlocks
  <2>1. b.id \in STRING /\ b.form \in Forms
    BY DEF ResultBlocks
  <2> QED BY <2>1 DEF ToolMessage, ToolMessages
<1>2. <<>> \in Seq(UseBlocks)
  OBVIOUS
<1>3. \A b \in TextBlocks : ChatMessage("user", b.text, <<>>) \in ChatMessages /\ ChatMessage("user", b.text, <<>>).role = "user"
  <2> TAKE b \in TextBlocks
  <2>1. b.text \in Says
    BY DEF TextBlocks
  <2> QED BY <1>2, <2>1 DEF ChatMessage, ChatMessages
<1> QED BY <1>1, <1>3 DEF Maps, ToolOf, SayOf, ChatThings

\* Blocks by type are blocks of that type.
LEMMA ResultsAndTexts ==
  ASSUME NEW s \in Seq(Blocks)
  PROVE  Results(s) \in Seq(ResultBlocks) /\ Texts(s) \in Seq(TextBlocks) /\ Uses(s) \in Seq(UseBlocks)
BY OfTypeTypes, ElementsIn

\* What a message is on the Chat wire.
ChatOf == [m \in Messages |-> ToChat(m)]

\* What a message becomes in a Chat body.
LEMMA ChatOfMessage ==
  ASSUME NEW m \in Messages
  PROVE  /\ ChatOf[m] = ToChat(m)
         /\ ChatOf[m] \in Seq(ChatThings)
         /\ m.role = "assistant" => ChatOf[m] = <<ChatMessage("assistant", Joined(m.content), Uses(m.content))>>
         /\ m.role = "user" => ChatOf[m] = Each(ToolOf, Results(m.content)) \o Each(SayOf, Texts(m.content))
<1>1. m.role \in {"user", "assistant"} /\ m.content \in Seq(Blocks)
  BY MessageShape
<1>2. ChatOf[m] = ToChat(m)
  BY DEF ChatOf
<1>3. m.role = "assistant" => ToChat(m) = <<ChatMessage("assistant", Joined(m.content), Uses(m.content))>>
  BY DEF ToChat
<1> DEFINE rs == Results(m.content)
           ts == Texts(m.content)
<1>4. rs \in Seq(ResultBlocks) /\ ts \in Seq(TextBlocks) /\ Uses(m.content) \in Seq(UseBlocks)
  BY <1>1, ResultsAndTexts, OfTypeTypes
<1>5. m.role = "user" => ToChat(m) = [i \in DOMAIN rs |-> ToolMessage(rs[i].id, rs[i].form)]
                                     \o [i \in DOMAIN ts |-> ChatMessage("user", ts[i].text, <<>>)]
  BY DEF ToChat
<1> HIDE DEF rs, ts
<1>6. /\ DOMAIN rs = 1..Len(rs) /\ \A i \in DOMAIN rs : rs[i] \in ResultBlocks
      /\ DOMAIN ts = 1..Len(ts) /\ \A i \in DOMAIN ts : ts[i] \in TextBlocks
  BY <1>4, PlacesOf
<1>7. [i \in DOMAIN rs |-> ToolMessage(rs[i].id, rs[i].form)] = Each(ToolOf, rs)
  BY <1>6, ToolsAndSays DEF Each
<1>8. [i \in DOMAIN ts |-> ChatMessage("user", ts[i].text, <<>>)] = Each(SayOf, ts)
  BY <1>6, ToolsAndSays DEF Each
<1>9. Each(ToolOf, rs) \in Seq(ChatThings) /\ Each(SayOf, ts) \in Seq(ChatThings)
  BY <1>4, ToolsAndSays, EachType
<1>10. Each(ToolOf, rs) \o Each(SayOf, ts) \in Seq(ChatThings)
  BY <1>9, ConcatType
<1>11. ChatMessage("assistant", Joined(m.content), Uses(m.content)) \in ChatThings
  BY <1>1, <1>4, JoinedIs, ChatForms DEF ChatThings
<1>12. \A x \in ChatThings : <<x>> \in Seq(ChatThings)
  OBVIOUS
<1>13. ChatOf[m] \in Seq(ChatThings)
  BY <1>1, <1>2, <1>3, <1>5, <1>7, <1>8, <1>10, <1>11, <1>12
<1> QED BY <1>2, <1>3, <1>5, <1>7, <1>8, <1>13 DEF rs, ts

\* What a message is on the Responses wire.
RespOf == [m \in Messages |-> ToResponses(m)]

\* What a message becomes in a Responses body.
LEMMA RespOfMessage ==
  ASSUME NEW m \in Messages
  PROVE  /\ RespOf[m] = ToResponses(m) /\ RespOf[m] = Each(RespItem(m.role), m.content)
         /\ RespOf[m] \in Seq(Items)
<1>1. m.role \in {"user", "assistant"} /\ m.content \in Seq(Blocks)
  BY MessageShape
<1>2. RespOf[m] = ToResponses(m) /\ ToResponses(m) = Each(RespItem(m.role), m.content)
  BY ToResponsesIs DEF RespOf
<1>3. Each(RespItem(m.role), m.content) \in Seq(Items)
  BY <1>1, RespItems, EachType
<1> QED BY <1>2, <1>3

\* Both are maps from messages to sequences.
LEMMA MapsOfMessages ==
  Maps(ChatOf, Messages, Seq(ChatThings)) /\ Maps(RespOf, Messages, Seq(Items))
BY ChatOfMessage, RespOfMessage DEF Maps, ChatOf, RespOf

\* The bodies of the two wires, message by message.
LEMMA BodiesAre ==
  ASSUME NEW h \in Seq(Messages)
  PROVE  /\ Inbound("chat", h) = Flat(ChatOf, h)
         /\ Inbound("responses", h) = Flat(RespOf, h)
         /\ Flat(ChatOf, h) \in Seq(ChatThings) /\ Flat(RespOf, h) \in Seq(Items)
<1>1. \A i \in DOMAIN h : h[i] \in Messages
  BY PlacesOf
<1>2. [i \in DOMAIN h |-> ToChat(h[i])] = Each(ChatOf, h)
  BY <1>1, ChatOfMessage DEF Each
<1>3. [i \in DOMAIN h |-> ToResponses(h[i])] = Each(RespOf, h)
  BY <1>1, RespOfMessage DEF Each
<1>4. Inbound("chat", h) = Spread(ToChat, h) /\ Inbound("responses", h) = Spread(ToResponses, h)
  BY DEF Inbound, Body, Clean
<1>5. Spread(ToChat, h) = FlattenSeq([i \in DOMAIN h |-> ToChat(h[i])])
  BY DEF Spread
<1>6. Spread(ToResponses, h) = FlattenSeq([i \in DOMAIN h |-> ToResponses(h[i])])
  BY DEF Spread
<1>7. Flat(ChatOf, h) \in Seq(ChatThings) /\ Flat(RespOf, h) \in Seq(Items)
  BY MapsOfMessages, FlatType
<1> QED BY <1>2, <1>3, <1>4, <1>5, <1>6, <1>7 DEF Flat

---------------------------------------------------------------------------
(* The final run of tool outputs.                                          *)

\* A body whose last places are outputs, and the one before them is not.
LEMMA RunStartIs ==
  ASSUME NEW w, NEW D, NEW body \in Seq(D), NEW p \in 0..Len(body),
         p \notin Outputs(w, body), \A i \in (p + 1)..Len(body) : i \in Outputs(w, body)
  PROVE  RunStart(w, body) = p + 1
<1> DEFINE n == Len(body)
           O == Outputs(w, body)
           Run(i) == i..n \subseteq O /\ i - 1 \notin O
<1>1. n \in Nat /\ p \in Nat /\ p <= n
  OBVIOUS
<1>2. RunStart(w, body) = CHOOSE i \in 1..(n + 1) : Run(i)
  BY DEF RunStart
<1> HIDE DEF O
<1>3. p + 1 \in 1..(n + 1) /\ Run(p + 1)
  BY <1>1 DEF O
<1>4. ASSUME NEW i \in 1..(n + 1), Run(i) PROVE i = p + 1
  <2>1. ~(i <= p)
    <3>1. i <= p => p \in i..n
      BY <1>1
    <3> QED BY <1>4, <3>1 DEF O
  <2>2. ~(i > p + 1)
    <3>1. i > p + 1 => i - 1 \in (p + 1)..n
      BY <1>1
    <3> QED BY <1>4, <3>1 DEF O
  <2> QED BY <1>1, <2>1, <2>2
<1> HIDE DEF Run
<1>5. \E i \in 1..(n + 1) : Run(i)
  BY <1>3
<1> QED BY <1>2, <1>4, <1>5

\* Outputs that follow something else, or end before something else.
TellsOutput(w, x) == IF w = "chat" THEN x.role = "tool" ELSE IsOutput(x)

\* Every element is the output of a tool.
Outputting(w, t) == \A i \in 1..Len(t) : TellsOutput(w, t[i])

\* The run of outputs at the end of a body.
LEMMA RunIs ==
  ASSUME NEW w, NEW D, NEW s \in Seq(D), NEW t \in Seq(D),
         s # <<>> => ~TellsOutput(w, s[Len(s)])
  PROVE  /\ Outputting(w, t) =>
              /\ RunStart(w, s \o t) = Len(s) + 1
              /\ SubSeq(s \o t, RunStart(w, s \o t), Len(s \o t)) = t
         /\ t # <<>> /\ ~TellsOutput(w, t[Len(t)]) =>
              SubSeq(s \o t, RunStart(w, s \o t), Len(s \o t)) = <<>>
<1> DEFINE u == s \o t
<1>1. /\ u \in Seq(D) /\ Len(u) = Len(s) + Len(t) /\ Len(s) \in Nat /\ Len(t) \in Nat
      /\ DOMAIN u = 1..(Len(s) + Len(t))
      /\ \A i \in 1..Len(s) : u[i] = s[i]
      /\ \A i \in 1..Len(t) : u[Len(s) + i] = t[i]
      /\ SubSeq(u, Len(s) + 1, Len(u)) = t
      /\ SubSeq(u, Len(u) + 1, Len(u)) = <<>>
  BY ConcatPlaces
<1>2. (s = <<>> => Len(s) = 0) /\ (s # <<>> => Len(s) # 0) /\ (t # <<>> => Len(t) # 0)
  OBVIOUS
<1> HIDE DEF u
<1>3. \A i : i \in Outputs(w, u) <=> i \in 1..(Len(s) + Len(t)) /\ TellsOutput(w, u[i])
  BY <1>1 DEF Outputs, TellsOutput
<1>4. ASSUME Outputting(w, t)
      PROVE  RunStart(w, u) = Len(s) + 1
  <2>1. Len(s) \in 0..Len(u)
    BY <1>1
  <2>2. Len(s) \notin Outputs(w, u)
    <3>1. CASE s = <<>>
      <4>1. Len(s) \notin 1..(Len(s) + Len(t))
        BY <1>1, <1>2, <3>1
      <4> QED BY <1>3, <4>1
    <3>2. CASE s # <<>>
      <4>1. Len(s) \in 1..Len(s)
        BY <1>1, <1>2, <3>2
      <4>2. u[Len(s)] = s[Len(s)]
        BY <1>1, <4>1
      <4> QED BY <1>3, <3>2, <4>2
    <3> QED BY <3>1, <3>2
  <2>3. \A i \in (Len(s) + 1)..Len(u) : i \in Outputs(w, u)
    <3> TAKE i \in (Len(s) + 1)..Len(u)
    <3>1. i - Len(s) \in 1..Len(t) /\ Len(s) + (i - Len(s)) = i /\ i \in 1..(Len(s) + Len(t))
      BY <1>1
    <3>2. u[i] = t[i - Len(s)]
      BY <1>1, <3>1
    <3> QED BY <1>3, <1>4, <3>1, <3>2 DEF Outputting
  <2> QED BY <1>1, <2>1, <2>2, <2>3, RunStartIs
<1>5. ASSUME t # <<>>, ~TellsOutput(w, t[Len(t)])
      PROVE  RunStart(w, u) = Len(u) + 1
  <2>1. Len(u) \in 0..Len(u) /\ Len(t) \in 1..Len(t)
    BY <1>1, <1>2, <1>5
  <2>2. Len(u) \notin Outputs(w, u)
    BY <1>1, <1>3, <1>5, <2>1
  <2>3. \A i \in (Len(u) + 1)..Len(u) : i \in Outputs(w, u)
    BY <1>1
  <2> QED BY <1>1, <2>1, <2>2, <2>3, RunStartIs
<1> QED BY <1>1, <1>4, <1>5 DEF u

---------------------------------------------------------------------------
(* What the proxy finds pending.                                           *)

\* What the client sends, up to its last message: replies in between.
Before(prev) ==
  /\ prev \in Seq(Messages)
  /\ \A x \in ToSet(prev) : x.role = "user" => Brings(x.content)
  /\ prev # <<>> => /\ Last(prev).role = "assistant" /\ Last(prev).content # <<>>
                    /\ Replies(Last(prev).content)

\* What a client said last: results, then words or none.
Latest(m, rs, ts) ==
  /\ m = Message("user", rs \o ts)
  /\ rs \in Seq(Given) /\ ts \in {<<>>, <<Text("words")>>} /\ rs \o ts # <<>>

\* The calls of the messages before.
CallsBefore(prev) == UNION {CallsIn(x) : x \in ToSet(prev)}

\* A function of the messages, flattened, ends like the last of them.
LEMMA FlatEnds ==
  ASSUME NEW E, NEW f, Maps(f, Messages, Seq(E)), NEW prev \in Seq(Messages), prev # <<>>,
         f[Last(prev)] # <<>>
  PROVE  Flat(f, prev) # <<>> /\ Flat(f, prev)[Len(Flat(f, prev))] = f[Last(prev)][Len(f[Last(prev)])]
<1>1. PICK front \in Seq(Messages), m \in Messages : prev = Append(front, m)
  <2> DEFINE front == SubSeq(prev, 1, Len(prev) - 1)
  <2>1. front \in Seq(Messages) /\ prev[Len(prev)] \in Messages /\ prev = Append(front, prev[Len(prev)])
    OBVIOUS
  <2> QED BY <2>1
<1>2. Last(prev) = m
  BY <1>1 DEF Last
<1>3. Flat(f, prev) = Flat(f, front) \o f[m]
  BY <1>1, FlatAppend
<1>4. Flat(f, front) \in Seq(E) /\ f[m] \in Seq(E) /\ f[m] # <<>>
  BY <1>2, FlatType DEF Maps
<1> DEFINE s == Flat(f, front)
           t == f[m]
<1> HIDE DEF s, t
<1>5. Len(t) \in 1..Len(t)
  BY <1>4 DEF t
<1>6. (s \o t)[Len(s) + Len(t)] = t[Len(t)] /\ Len(s \o t) = Len(s) + Len(t) /\ Len(s) \in Nat /\ Len(t) \in Nat
  BY <1>4, <1>5, ConcatPlaces DEF s, t
<1>7. s \o t # <<>>
  BY <1>5, <1>6
<1> QED BY <1>2, <1>3, <1>6, <1>7 DEF s, t

\* A reply does not end with an output, on either wire.
LEMMA ReplyEnds ==
  ASSUME NEW m \in Messages, m.role = "assistant", m.content # <<>>, Replies(m.content)
  PROVE  /\ ChatOf[m] # <<>> /\ ~TellsOutput("chat", ChatOf[m][Len(ChatOf[m])])
         /\ RespOf[m] # <<>> /\ ~TellsOutput("responses", RespOf[m][Len(RespOf[m])])
<1>1. ChatOf[m] # <<>> /\ ~TellsOutput("chat", ChatOf[m][Len(ChatOf[m])])
  <2>1. ChatOf[m] = <<ChatMessage("assistant", Joined(m.content), Uses(m.content))>>
    BY ChatOfMessage
  <2>2. ChatMessage("assistant", Joined(m.content), Uses(m.content)).role = "assistant"
    BY DEF ChatMessage
  <2> DEFINE x == ChatMessage("assistant", Joined(m.content), Uses(m.content))
  <2> HIDE DEF x
  <2>3. <<x>> # <<>> /\ Len(<<x>>) = 1 /\ <<x>>[1] = x
    OBVIOUS
  <2> QED BY <2>1, <2>2, <2>3 DEF x, TellsOutput
<1>2. RespOf[m] # <<>> /\ ~TellsOutput("responses", RespOf[m][Len(RespOf[m])])
  <2> DEFINE c == m.content
  <2>1. PICK pre \in Seq(Quiet), us \in Seq(UseBlocks) : c = pre \o us
    BY DEF Replies
  <2>2. c \in Seq(Blocks) /\ ToSet(c) \subseteq Quiet \cup UseBlocks /\ c # <<>>
    BY <2>1, ReplyParts
  <2>3. RespOf[m] = Each(RespItem("assistant"), c)
    BY RespOfMessage
  <2> HIDE DEF c
  <2>4. Len(c) \in DOMAIN c /\ Len(c) \in Nat /\ c[Len(c)] \in Quiet \cup UseBlocks
    <3>1. Len(c) \in DOMAIN c /\ Len(c) \in Nat
      BY <2>2
    <3> QED BY <2>2, <3>1, ElementsOf
  <2>5. /\ Each(RespItem("assistant"), c) \in Seq(Items) /\ Len(Each(RespItem("assistant"), c)) = Len(c)
        /\ Each(RespItem("assistant"), c)[Len(c)] = RespItem("assistant")[c[Len(c)]]
    BY <2>2, <2>4, EachType, RespItems
  <2>6. \A b \in Quiet \cup UseBlocks : ~IsOutput(RespItem("assistant")[b])
    <3> TAKE b \in Quiet \cup UseBlocks
    <3>1. RespItem("assistant")[b] \in MessageItems \cup CallItems \cup {ReasoningItem}
      BY RespItems DEF Quiet
    <3> QED BY <3>1 DEF IsOutput, MessageItems, CallItems, ReasoningItem
  <2>7. Len(c) # 0
    BY <2>2
  <2>8. Each(RespItem("assistant"), c) # <<>>
    BY <2>5, <2>7
  <2> QED BY <2>3, <2>4, <2>5, <2>6, <2>8 DEF TellsOutput
<1> QED BY <1>1, <1>2

\* A history that ends with a reply ends in no output.
LEMMA BeforeEnds ==
  ASSUME NEW prev, Before(prev)
  PROVE  LET c == Flat(ChatOf, prev)
             r == Flat(RespOf, prev)
         IN /\ c # <<>> => ~TellsOutput("chat", c[Len(c)])
            /\ r # <<>> => ~TellsOutput("responses", r[Len(r)])
<1>1. CASE prev = <<>>
  BY <1>1, FlatNone
<1>2. CASE prev # <<>>
  <2>1. prev \in Seq(Messages) /\ Last(prev) \in Messages
    BY <1>2, LastOf DEF Before
  <2>2. /\ ChatOf[Last(prev)] # <<>> /\ ~TellsOutput("chat", ChatOf[Last(prev)][Len(ChatOf[Last(prev)])])
        /\ RespOf[Last(prev)] # <<>> /\ ~TellsOutput("responses", RespOf[Last(prev)][Len(RespOf[Last(prev)])])
    BY <1>2, <2>1, ReplyEnds DEF Before
  <2>3. Flat(ChatOf, prev)[Len(Flat(ChatOf, prev))] = ChatOf[Last(prev)][Len(ChatOf[Last(prev)])]
    BY <1>2, <2>1, <2>2, FlatEnds, MapsOfMessages
  <2>4. Flat(RespOf, prev)[Len(Flat(RespOf, prev))] = RespOf[Last(prev)][Len(RespOf[Last(prev)])]
    BY <1>2, <2>1, <2>2, FlatEnds, MapsOfMessages
  <2> QED BY <2>2, <2>3, <2>4
<1> QED BY <1>1, <1>2

\* The client's message: its results are outputs, its text is none.
LEMMA LatestIs ==
  ASSUME NEW m, NEW rs, NEW ts, Latest(m, rs, ts)
  PROVE  /\ m \in Messages /\ m.role = "user" /\ m.content = rs \o ts
         /\ Results(m.content) = rs /\ Texts(m.content) = ts /\ Uses(m.content) = <<>>
         /\ rs \in Seq(ResultBlocks) /\ ts \in Seq(TextBlocks)
         /\ ChatOf[m] = Each(ToolOf, rs) \o Each(SayOf, ts)
         /\ RespOf[m] = Each(RespItem("user"), rs) \o Each(RespItem("user"), ts)
<1>1. rs \in Seq(Given) /\ ts \in {<<>>, <<Text("words")>>}
  BY DEF Latest
<1>2. /\ rs \in Seq(ResultBlocks) /\ ts \in Seq(TextBlocks) /\ rs \in Seq(Blocks) /\ ts \in Seq(Blocks)
      /\ rs \o ts \in Seq(Blocks)
      /\ Results(rs \o ts) = rs /\ Texts(rs \o ts) = ts /\ Uses(rs \o ts) = <<>>
  BY <1>1, BringsAre
<1>3. m \in Messages /\ m.role = "user" /\ m.content = rs \o ts
  BY <1>2, MessageParts DEF Latest
<1>4. ChatOf[m] = Each(ToolOf, rs) \o Each(SayOf, ts)
  BY <1>2, <1>3, ChatOfMessage
<1>5. RespOf[m] = Each(RespItem("user"), rs \o ts)
  BY <1>3, RespOfMessage
<1>6. Each(RespItem("user"), rs \o ts) = Each(RespItem("user"), rs) \o Each(RespItem("user"), ts)
  BY <1>2, RespItems, EachConcat
<1> QED BY <1>2, <1>3, <1>4, <1>5, <1>6

\* Outputs carry the ids of their results, in order.
LEMMA OutputsOfResults ==
  ASSUME NEW rs \in Seq(ResultBlocks)
  PROVE  /\ Each(ToolOf, rs) \in Seq(ChatThings) /\ Each(RespItem("user"), rs) \in Seq(Items)
         /\ \A i \in 1..Len(Each(ToolOf, rs)) : TellsOutput("chat", Each(ToolOf, rs)[i])
         /\ \A i \in 1..Len(Each(RespItem("user"), rs)) : TellsOutput("responses", Each(RespItem("user"), rs)[i])
         /\ Ids(Each(ToolOf, rs)) = Ids(rs) /\ Ids(Each(RespItem("user"), rs)) = Ids(rs)
<1>1. rs \in Seq(Blocks) /\ Maps(RespItem("user"), Blocks, Items)
  BY WiderSeq, RespItems DEF Blocks
<1>2. /\ Each(ToolOf, rs) \in Seq(ChatThings) /\ DOMAIN Each(ToolOf, rs) = DOMAIN rs
      /\ Len(Each(ToolOf, rs)) = Len(rs)
      /\ \A i \in DOMAIN rs : rs[i] \in ResultBlocks /\ Each(ToolOf, rs)[i] = ToolOf[rs[i]]
  BY ToolsAndSays, EachType
<1>3. /\ Each(RespItem("user"), rs) \in Seq(Items) /\ DOMAIN Each(RespItem("user"), rs) = DOMAIN rs
      /\ Len(Each(RespItem("user"), rs)) = Len(rs)
      /\ \A i \in DOMAIN rs : Each(RespItem("user"), rs)[i] = RespItem("user")[rs[i]]
  BY <1>1, EachType
<1>4. \A b \in ResultBlocks : ToolOf[b].role = "tool" /\ ToolOf[b].id = b.id
  BY ToolsAndSays
<1>5. \A b \in ResultBlocks : IsOutput(RespItem("user")[b]) /\ RespItem("user")[b].id = b.id
  <2> TAKE b \in ResultBlocks
  <2>1. RespItem("user")[b] = OutputItem(b.id, b.form)
    BY RespItems
  <2> QED BY <2>1 DEF OutputItem, IsOutput
<1>6. DOMAIN rs = 1..Len(rs)
  OBVIOUS
<1> DEFINE c == Each(ToolOf, rs)
           r == Each(RespItem("user"), rs)
<1> HIDE DEF c, r
<1>7. \A i \in DOMAIN rs : c[i].role = "tool" /\ c[i].id = rs[i].id /\ IsOutput(r[i]) /\ r[i].id = rs[i].id
  BY <1>2, <1>3, <1>4, <1>5 DEF c, r
<1>8. Ids(c) = Ids(rs) /\ Ids(r) = Ids(rs)
  BY <1>2, <1>3, <1>7 DEF Ids, c, r
<1>9. (\A i \in 1..Len(c) : TellsOutput("chat", c[i])) /\ (\A i \in 1..Len(r) : TellsOutput("responses", r[i]))
  BY <1>2, <1>3, <1>6, <1>7 DEF TellsOutput, c, r
<1> QED BY <1>2, <1>3, <1>8, <1>9 DEF c, r

\* What follows what came before, on both wires.
LEMMA BodyOfLatest ==
  ASSUME NEW prev, Before(prev), NEW m, NEW rs, NEW ts, Latest(m, rs, ts)
  PROVE  /\ Inbound("chat", Append(prev, m)) = Flat(ChatOf, prev) \o ChatOf[m]
         /\ Inbound("responses", Append(prev, m)) = Flat(RespOf, prev) \o RespOf[m]
         /\ Flat(ChatOf, prev) \in Seq(ChatThings) /\ ChatOf[m] \in Seq(ChatThings)
         /\ Flat(RespOf, prev) \in Seq(Items) /\ RespOf[m] \in Seq(Items)
<1>1. prev \in Seq(Messages) /\ m \in Messages
  BY LatestIs DEF Before
<1>2. Append(prev, m) \in Seq(Messages)
  BY <1>1, AppendAt
<1>3. /\ Inbound("chat", Append(prev, m)) = Flat(ChatOf, Append(prev, m))
      /\ Inbound("responses", Append(prev, m)) = Flat(RespOf, Append(prev, m))
  BY <1>2, BodiesAre
<1>4. /\ Flat(ChatOf, Append(prev, m)) = Flat(ChatOf, prev) \o ChatOf[m]
      /\ Flat(RespOf, Append(prev, m)) = Flat(RespOf, prev) \o RespOf[m]
  BY <1>1, MapsOfMessages, FlatAppend
<1>5. Flat(ChatOf, prev) \in Seq(ChatThings) /\ Flat(RespOf, prev) \in Seq(Items)
  BY <1>1, BodiesAre
<1>6. ChatOf[m] \in Seq(ChatThings) /\ RespOf[m] \in Seq(Items)
  BY <1>1, ChatOfMessage, RespOfMessage
<1> QED BY <1>3, <1>4, <1>5, <1>6

\* With a text behind them, the results are not the final run.
LEMMA TextIsLast ==
  ASSUME NEW m, NEW rs, NEW ts, Latest(m, rs, ts), ts # <<>>
  PROVE  /\ ChatOf[m] # <<>> /\ ~TellsOutput("chat", ChatOf[m][Len(ChatOf[m])])
         /\ RespOf[m] # <<>> /\ ~TellsOutput("responses", RespOf[m][Len(RespOf[m])])
<1> DEFINE b == Text("words")
<1>1. ts = <<b>> /\ b \in TextBlocks /\ b \in Blocks
  <2>1. ts = <<b>>
    BY DEF Latest
  <2>2. b \in TextBlocks
    BY BlockForms DEF Says
  <2> QED BY <2>1, <2>2 DEF Blocks
<1> HIDE DEF b
<1>2. Each(SayOf, ts) = <<SayOf[b]>> /\ Each(RespItem("user"), ts) = <<RespItem("user")[b]>>
  <2>1. \A f : Each(f, <<b>>) = <<f[b]>>
    BY DEF Each
  <2> QED BY <1>1, <2>1
<1>3. SayOf[b].role = "user" /\ SayOf[b] \in ChatThings /\ RespItem("user")[b] \in MessageItems /\ RespItem("user")[b] \in Items
  BY <1>1, ToolsAndSays, RespItems DEF Maps, Items
<1>4. ~TellsOutput("chat", SayOf[b]) /\ ~TellsOutput("responses", RespItem("user")[b])
  BY <1>3 DEF TellsOutput, IsOutput, MessageItems
<1>5. /\ ChatOf[m] = Each(ToolOf, rs) \o <<SayOf[b]>> /\ RespOf[m] = Each(RespItem("user"), rs) \o <<RespItem("user")[b]>>
      /\ rs \in Seq(ResultBlocks)
  BY <1>2, LatestIs
<1>6. Each(ToolOf, rs) \in Seq(ChatThings) /\ Each(RespItem("user"), rs) \in Seq(Items)
  BY <1>5, OutputsOfResults
<1>7. ASSUME NEW D, NEW s \in Seq(D), NEW x \in D
      PROVE  s \o <<x>> # <<>> /\ (s \o <<x>>)[Len(s \o <<x>>)] = x
  OBVIOUS
<1> QED BY <1>3, <1>4, <1>5, <1>6, <1>7

\* The repair leaves the calls and the results of every message.
LEMMA CleanedBody ==
  ASSUME NEW h \in Seq(Messages)
  PROVE  LET body == Inbound("anthropic", h)
         IN /\ body \in Seq(Messages) /\ Len(body) = Len(h) /\ DOMAIN body = DOMAIN h
            /\ \A i \in DOMAIN h : /\ body[i] = CleanMessage(h[i]) /\ body[i].role = h[i].role
                                   /\ Results(body[i].content) = Results(h[i].content)
                                   /\ Uses(body[i].content) = Uses(h[i].content)
<1> DEFINE body == Inbound("anthropic", h)
<1>1. DOMAIN h = 1..Len(h) /\ Len(h) \in Nat /\ \A k \in DOMAIN h : h[k] \in Messages
  BY PlacesOf
<1>2. body = [k \in 1..Len(h) |-> CleanMessage(h[k])]
  BY <1>1 DEF Inbound, Body, Clean
<1>3. body \in Seq(Messages) /\ Len(body) = Len(h) /\ DOMAIN body = DOMAIN h
      /\ \A k \in DOMAIN h : body[k] = CleanMessage(h[k])
  BY <1>1, <1>2, CleanedMessage
<1> HIDE DEF body
<1>4. ASSUME NEW m \in Messages
      PROVE  /\ CleanMessage(m).role = m.role
             /\ Results(CleanMessage(m).content) = Results(m.content) /\ Uses(CleanMessage(m).content) = Uses(m.content)
  <2> DEFINE c == m.content
             d == CleanMessage(m).content
  <2>1. c \in Seq(Blocks) /\ d \in Seq(Blocks) /\ CleanMessage(m).role = m.role
    BY MessageShape, CleanedMessage
  <2>2. d = c \/ d = Only(c, Seen)
    BY CleanedMessage
  <2> HIDE DEF c, d
  <2>3. Only(Only(c, Seen), ResultBlocks) = Only(c, ResultBlocks) /\ Only(Only(c, Seen), UseBlocks) = Only(c, UseBlocks)
    <3>1. Only(Only(c, Seen), ResultBlocks) = Only(c, Seen \cap ResultBlocks) /\ Only(Only(c, Seen), UseBlocks) = Only(c, Seen \cap UseBlocks)
      BY <2>1, OnlyTwice
    <3>2. ResultBlocks \subseteq Seen
      BY DEF Seen, Blocks, ResultBlocks
    <3>3. Seen \cap ResultBlocks = ResultBlocks /\ Seen \cap UseBlocks = UseBlocks
      BY <3>2, QuietBlocks
    <3> QED BY <3>1, <3>3
  <2>4. Results(d) = Only(d, ResultBlocks) /\ Uses(d) = Only(d, UseBlocks) /\ Results(c) = Only(c, ResultBlocks) /\ Uses(c) = Only(c, UseBlocks)
    BY <2>1, OfTypeIs
  <2>5. Results(d) = Results(c) /\ Uses(d) = Uses(c)
    BY <2>2, <2>3, <2>4
  <2> QED BY <2>1, <2>5 DEF c, d
<1> QED BY <1>1, <1>3, <1>4 DEF body

\* The ids of the results a turn brings, unless a text hides them.
LEMMA PendingIdsAre ==
  ASSUME NEW prev, Before(prev), NEW m, NEW rs, NEW ts, Latest(m, rs, ts), NEW w \in Wires
  PROVE  PendingIds(w, Inbound(w, Append(prev, m))) = IF w = "anthropic" \/ ts = <<>> THEN Ids(rs) ELSE <<>>
<1> DEFINE h == Append(prev, m)
           body == Inbound(w, h)
<1>1. prev \in Seq(Messages) /\ m \in Messages /\ m.role = "user" /\ Results(m.content) = rs /\ rs \in Seq(ResultBlocks)
  BY LatestIs DEF Before
<1>2. CASE w = "anthropic"
  <2>1. h \in Seq(Messages) /\ Len(h) \in DOMAIN h /\ h[Len(h)] = m
    BY <1>1, AppendAt
  <2> HIDE DEF h
  <2>2. /\ body \in Seq(Messages) /\ Len(body) = Len(h)
        /\ body[Len(h)].role = "user" /\ Results(body[Len(h)].content) = rs
    BY <1>1, <1>2, <2>1, CleanedBody
  <2>3. Last(body) = body[Len(h)]
    BY <2>2 DEF Last
  <2> HIDE DEF body
  <2>4. PendingIds(w, body) = Ids(rs)
    BY <1>2, <2>2, <2>3 DEF PendingIds
  <2> QED BY <1>2, <2>4 DEF body, h
<1>3. CASE w # "anthropic"
  <2> DEFINE s == IF w = "chat" THEN Flat(ChatOf, prev) ELSE Flat(RespOf, prev)
             t == IF w = "chat" THEN ChatOf[m] ELSE RespOf[m]
             D == IF w = "chat" THEN ChatThings ELSE Items
  <2>1. w \in {"chat", "responses"}
    BY <1>3 DEF Wires
  <2>2. body = s \o t /\ s \in Seq(D) /\ t \in Seq(D)
    BY <2>1, BodyOfLatest
  <2>3. s # <<>> => ~TellsOutput(w, s[Len(s)])
    BY <2>1, BeforeEnds
  <2>4. ts # <<>> => t # <<>> /\ ~TellsOutput(w, t[Len(t)])
    BY <2>1, TextIsLast
  <2>5. ts = <<>> => Ids(t) = Ids(rs) /\ \A i \in 1..Len(t) : TellsOutput(w, t[i])
    <3> SUFFICES ASSUME ts = <<>> PROVE Ids(t) = Ids(rs) /\ \A i \in 1..Len(t) : TellsOutput(w, t[i])
      OBVIOUS
    <3>1. /\ ChatOf[m] = Each(ToolOf, rs) \o Each(SayOf, <<>>)
          /\ RespOf[m] = Each(RespItem("user"), rs) \o Each(RespItem("user"), <<>>)
      BY LatestIs
    <3>2. Each(SayOf, <<>>) = <<>> /\ Each(RespItem("user"), <<>>) = <<>>
      BY EachNone
    <3>3. Each(ToolOf, rs) \in Seq(ChatThings) /\ Each(RespItem("user"), rs) \in Seq(Items)
      BY <1>1, OutputsOfResults
    <3>4. ChatOf[m] = Each(ToolOf, rs) /\ RespOf[m] = Each(RespItem("user"), rs)
      BY <3>1, <3>2, <3>3, ConcatNone
    <3> QED BY <1>1, <2>1, <3>4, OutputsOfResults
  <2> HIDE DEF s, t, D, body
  <2>6. PendingIds(w, body) = Ids(SubSeq(body, RunStart(w, body), Len(body)))
    BY <1>3 DEF PendingIds
  <2>7. ASSUME ts = <<>>
        PROVE  SubSeq(s \o t, RunStart(w, s \o t), Len(s \o t)) = t
    <3>1. Outputting(w, t)
      BY <2>5, <2>7 DEF Outputting
    <3>2. RunStart(w, s \o t) = Len(s) + 1
      BY <2>2, <2>3, <3>1, RunIs
    <3>3. SubSeq(s \o t, Len(s) + 1, Len(s \o t)) = t
      BY <2>2, ConcatPlaces
    <3> QED BY <3>2, <3>3
  <2>8. ts # <<>> => SubSeq(s \o t, RunStart(w, s \o t), Len(s \o t)) = <<>>
    BY <2>2, <2>3, <2>4, RunIs
  <2>9. Ids(<<>>) = <<>>
    BY DEF Ids
  <2> QED BY <1>3, <2>2, <2>5, <2>6, <2>7, <2>8, <2>9 DEF body
<1> QED BY <1>2, <1>3

\* The ids of the calls of a body, on every wire.
LEMMA CallsOfChat ==
  ASSUME NEW x \in Messages, x.role = "user" => Uses(x.content) = <<>>
  PROVE  UNION {ToSet(Ids(y.calls)) : y \in {z \in ToSet(ChatOf[x]) : z.role = "assistant"}} = CallsIn(x)
<1> DEFINE Y == {z \in ToSet(ChatOf[x]) : z.role = "assistant"}
<1>1. x.role \in {"user", "assistant"} /\ x.content \in Seq(Blocks)
  BY MessageShape
<1>2. CASE x.role = "assistant"
  <2> DEFINE a == ChatMessage("assistant", Joined(x.content), Uses(x.content))
  <2>1. a.role = "assistant" /\ a.calls = Uses(x.content)
    BY DEF ChatMessage
  <2>2. ChatOf[x] = <<a>>
    BY <1>2, ChatOfMessage
  <2> HIDE DEF a
  <2>3. ToSet(<<a>>) = {a}
    BY DEF ToSet
  <2>4. Y = {a}
    BY <2>1, <2>2, <2>3
  <2> HIDE DEF Y
  <2>5. UNION {ToSet(Ids(y.calls)) : y \in Y} = ToSet(Ids(a.calls))
    BY <2>4
  <2> QED BY <2>1, <2>5 DEF CallsIn, Y
<1>3. CASE x.role = "user"
  <2>1. ChatOf[x] = Each(ToolOf, Results(x.content)) \o Each(SayOf, Texts(x.content))
    BY <1>3, ChatOfMessage
  <2>2. Results(x.content) \in Seq(ResultBlocks) /\ Texts(x.content) \in Seq(TextBlocks)
    BY <1>1, ResultsAndTexts
  <2> DEFINE s == Each(ToolOf, Results(x.content))
             t == Each(SayOf, Texts(x.content))
  <2>3. /\ s \in Seq(ChatThings) /\ t \in Seq(ChatThings)
        /\ ToSet(s) = {ToolOf[b] : b \in ToSet(Results(x.content))}
        /\ ToSet(t) = {SayOf[b] : b \in ToSet(Texts(x.content))}
    BY <2>2, ToolsAndSays, EachType, EachSet
  <2>4. ToSet(Results(x.content)) \subseteq ResultBlocks /\ ToSet(Texts(x.content)) \subseteq TextBlocks
    BY <2>2, ElementsOf
  <2>5. ToSet(s \o t) = ToSet(s) \cup ToSet(t)
    BY <2>3, ConcatSet
  <2>6. \A z \in ToSet(s \o t) : z.role # "assistant"
    BY <2>3, <2>4, <2>5, ToolsAndSays
  <2> HIDE DEF s, t
  <2>7. Y = {}
    BY <2>1, <2>6 DEF s, t
  <2>8. CallsIn(x) = {}
    BY <1>3 DEF CallsIn, Ids, ToSet
  <2> HIDE DEF Y
  <2> QED BY <2>7, <2>8 DEF Y
<1> QED BY <1>1, <1>2, <1>3

\* The calls of a message in a Responses body.
LEMMA CallsOfResponses ==
  ASSUME NEW x \in Messages
  PROVE  {y.id : y \in {z \in ToSet(RespOf[x]) : z.type = "function_call"}} = CallsIn(x)
<1> DEFINE c == x.content
           f == RespItem(x.role)
           us == Uses(c)
<1>1. x.role \in {"user", "assistant"} /\ c \in Seq(Blocks)
  BY MessageShape
<1>2. RespOf[x] = Each(f, c)
  BY RespOfMessage
<1> HIDE DEF c
<1>3. ToSet(us) = ToSet(c) \cap UseBlocks /\ us \in Seq(UseBlocks) /\ ToSet(c) \subseteq Blocks
  BY <1>1, OfTypeTypes, ResultsAndTexts, ElementsOf
<1>4. us \in Seq(UseBlocks \cup ResultBlocks)
  BY <1>3, WiderSeq
<1>5. ToSet(Ids(us)) = {b.id : b \in ToSet(us)}
  BY <1>4, IdsAre
<1>6. ToSet(Each(f, c)) = {f[b] : b \in ToSet(c)}
  BY <1>1, RespItems, EachSet
<1>7. \A b \in Blocks : /\ b \in UseBlocks => f[b].type = "function_call" /\ f[b].id = b.id
                        /\ b \notin UseBlocks => f[b].type # "function_call"
  <2>1. \A b \in UseBlocks : f[b] = CallItem(b.id, b.args)
    BY <1>1, RespItems
  <2>2. \A b \in UseBlocks : f[b].type = "function_call" /\ f[b].id = b.id
    <3> HIDE DEF f
    <3> TAKE b \in UseBlocks
    <3>1. f[b] = CallItem(b.id, b.args)
      BY <2>1
    <3>2. CallItem(b.id, b.args).type = "function_call" /\ CallItem(b.id, b.args).id = b.id
      BY DEF CallItem
    <3> QED BY <3>1, <3>2
  <2>3. \A b \in Blocks \ UseBlocks : f[b] \in MessageItems \cup OutputItems \cup {ReasoningItem}
    BY <1>1, RespItems DEF Blocks
  <2> HIDE DEF f
  <2>4. \A b \in Blocks \ UseBlocks : f[b].type # "function_call"
    BY <2>3 DEF MessageItems, OutputItems, ReasoningItem
  <2> QED BY <2>2, <2>4
<1> HIDE DEF f, us
<1>8. {y.id : y \in {z \in ToSet(RespOf[x]) : z.type = "function_call"}} = {b.id : b \in ToSet(us)}
  BY <1>2, <1>3, <1>6, <1>7
<1> QED BY <1>5, <1>8 DEF CallsIn, us, c

\* The calls that can be named are those of the history, on every wire.
LEMMA NamedIdsAre ==
  ASSUME NEW prev, Before(prev), NEW m, NEW rs, NEW ts, Latest(m, rs, ts), NEW w \in Wires,
         w = "anthropic" \/ ts = <<>>
  PROVE  NamedIds(w, Inbound(w, Append(prev, m))) = CallsBefore(prev)
<1> DEFINE h == Append(prev, m)
           body == Inbound(w, h)
<1>1. /\ prev \in Seq(Messages) /\ m \in Messages /\ rs \in Seq(ResultBlocks)
      /\ \A x \in ToSet(prev) : x \in Messages /\ (x.role = "user" => Uses(x.content) = <<>>)
  <2>1. prev \in Seq(Messages) /\ m \in Messages /\ rs \in Seq(ResultBlocks)
    BY LatestIs DEF Before
  <2>2. \A x \in ToSet(prev) : x \in Messages
    BY <2>1, ElementsOf
  <2>3. ASSUME NEW content, Brings(content) PROVE Uses(content) = <<>>
    BY <2>3, BringsAre DEF Brings
  <2> QED BY <2>1, <2>2, <2>3 DEF Before
<1>2. /\ h \in Seq(Messages) /\ Len(h) = Len(prev) + 1 /\ Len(prev) \in Nat /\ DOMAIN prev = 1..Len(prev)
      /\ \A i \in DOMAIN prev : h[i] = prev[i] /\ i \in DOMAIN h
  BY <1>1, AppendAt
<1> HIDE DEF h
<1>3. CASE w = "anthropic"
  <2>1. /\ Len(body) = Len(h)
        /\ \A i \in DOMAIN h : body[i].role = h[i].role /\ Uses(body[i].content) = Uses(h[i].content)
    BY <1>2, <1>3, CleanedBody
  <2> DEFINE J == {j \in 1..(Len(body) - 1) : body[j].role = "assistant"}
  <2>2. NamedIds(w, body) = UNION {ToSet(Ids(Uses(body[i].content))) : i \in J}
    BY <1>3 DEF NamedIds
  <2>3. \A i : i \in J <=> i \in DOMAIN prev /\ prev[i].role = "assistant"
    <3> HIDE DEF body
    <3>1. Len(body) - 1 = Len(prev)
      BY <1>2, <2>1
    <3> QED BY <1>2, <2>1, <3>1
  <2>4. \A i \in J : Uses(body[i].content) = Uses(prev[i].content)
    BY <1>2, <2>1, <2>3
  <2> HIDE DEF J, body
  <2>5. \A i \in DOMAIN prev : i \notin J => CallsIn(prev[i]) = {}
    <3> TAKE i \in DOMAIN prev
    <3> HAVE i \notin J
    <3>1. prev[i] \in ToSet(prev) /\ prev[i].role # "assistant"
      BY <2>3 DEF ToSet
    <3>2. prev[i].role = "user"
      BY <1>1, <3>1, MessageShape
    <3> QED BY <1>1, <3>1, <3>2 DEF CallsIn, Ids, ToSet
  <2>6. UNION {ToSet(Ids(Uses(body[i].content))) : i \in J} = UNION {CallsIn(prev[i]) : i \in J}
    BY <2>4 DEF CallsIn
  <2>7. CallsBefore(prev) = UNION {CallsIn(prev[i]) : i \in DOMAIN prev}
    BY DEF CallsBefore, ToSet
  <2>8. UNION {CallsIn(prev[i]) : i \in J} = UNION {CallsIn(prev[i]) : i \in DOMAIN prev}
    BY <2>3, <2>5
  <2> QED BY <2>2, <2>6, <2>7, <2>8 DEF body, h
<1>4. CASE w \in {"chat", "responses"}
  <2> DEFINE D == IF w = "chat" THEN ChatThings ELSE Items
             f == IF w = "chat" THEN ChatOf ELSE RespOf
             s == Flat(f, prev)
             t == f[m]
  <2>1. body = s \o t /\ s \in Seq(D) /\ t \in Seq(D)
    BY <1>4, BodyOfLatest DEF h
  <2>2. s # <<>> => ~TellsOutput(w, s[Len(s)])
    BY <1>4, BeforeEnds
  <2>3. Outputting(w, t)
    <3>1. ts = <<>>
      BY <1>4
    <3>2. /\ ChatOf[m] = Each(ToolOf, rs) \o Each(SayOf, <<>>)
          /\ RespOf[m] = Each(RespItem("user"), rs) \o Each(RespItem("user"), <<>>)
      BY <3>1, LatestIs
    <3>3. Each(SayOf, <<>>) = <<>> /\ Each(RespItem("user"), <<>>) = <<>>
      BY EachNone
    <3>4. Each(ToolOf, rs) \in Seq(ChatThings) /\ Each(RespItem("user"), rs) \in Seq(Items)
      BY <1>1, OutputsOfResults
    <3>5. ChatOf[m] = Each(ToolOf, rs) /\ RespOf[m] = Each(RespItem("user"), rs)
      BY <3>2, <3>3, <3>4, ConcatNone
    <3> QED BY <1>1, <1>4, <3>5, OutputsOfResults DEF Outputting
  <2>4. ToSet(s) = UNION {ToSet(f[x]) : x \in ToSet(prev)}
    BY <1>1, <1>4, MapsOfMessages, FlatSet
  <2> HIDE DEF s, t, D, body
  <2>5. RunStart(w, body) - 1 = Len(s) /\ \A i \in 1..Len(s) : body[i] = s[i]
    <3>1. RunStart(w, s \o t) = Len(s) + 1
      BY <2>1, <2>2, <2>3, RunIs
    <3>2. Len(s) \in Nat /\ \A i \in 1..Len(s) : (s \o t)[i] = s[i]
      BY <2>1, ConcatPlaces
    <3> QED BY <2>1, <3>1, <3>2
  <2>6. ToSet(s) = {s[i] : i \in 1..Len(s)}
    BY <2>1 DEF ToSet
  <2>7. CASE w = "chat"
    <3>1. NamedIds(w, body) = UNION {ToSet(Ids(body[i].calls)) : i \in {j \in 1..Len(s) : body[j].role = "assistant"}}
      BY <2>5, <2>7 DEF NamedIds
    <3>2. NamedIds(w, body) = UNION {ToSet(Ids(y.calls)) : y \in {z \in ToSet(s) : z.role = "assistant"}}
      BY <2>5, <2>6, <3>1
    <3>3. \A x \in ToSet(prev) :
            UNION {ToSet(Ids(y.calls)) : y \in {z \in ToSet(f[x]) : z.role = "assistant"}} = CallsIn(x)
      BY <1>1, <2>7, CallsOfChat
    <3> HIDE DEF f
    <3>4. UNION {ToSet(Ids(y.calls)) : y \in {z \in ToSet(s) : z.role = "assistant"}}
            = UNION {UNION {ToSet(Ids(y.calls)) : y \in {z \in ToSet(f[x]) : z.role = "assistant"}} : x \in ToSet(prev)}
      BY <2>4
    <3> QED BY <3>2, <3>3, <3>4 DEF CallsBefore, body, h
  <2>8. CASE w = "responses"
    <3>1. NamedIds(w, body) = {body[i].id : i \in {j \in 1..Len(s) : body[j].type = "function_call"}}
      BY <2>5, <2>8 DEF NamedIds
    <3>2. NamedIds(w, body) = {y.id : y \in {z \in ToSet(s) : z.type = "function_call"}}
      BY <2>5, <2>6, <3>1
    <3>3. \A x \in ToSet(prev) : {y.id : y \in {z \in ToSet(f[x]) : z.type = "function_call"}} = CallsIn(x)
      BY <1>1, <2>8, CallsOfResponses
    <3> HIDE DEF f
    <3>4. {y.id : y \in {z \in ToSet(s) : z.type = "function_call"}}
            = UNION {{y.id : y \in {z \in ToSet(f[x]) : z.type = "function_call"}} : x \in ToSet(prev)}
      BY <2>4
    <3> QED BY <3>2, <3>3, <3>4 DEF CallsBefore, body, h
  <2> QED BY <1>4, <2>7, <2>8
<1> QED BY <1>3, <1>4 DEF Wires, h

\* No calls have no names.
LEMMA NoNames ==
  ASSUME NEW nameOf
  PROVE  Names(<<>>, nameOf) = <<>>
<1> DEFINE g == <<>>
<1>1. <<>> \in Seq({}) /\ <<>> \in Seq(Seq({}))
  OBVIOUS
<1>2. Names(<<>>, nameOf) = FoldOf(Seq({}), Fresh(g, {}, {}), <<>>, <<>>)
  <2> HIDE DEF g
  <2>1. \A i \in {} : i \in DOMAIN nameOf /\ nameOf[i] = g[i] /\ g[i] \in {}
    OBVIOUS
  <2>2. \A ids \in Seq({}) : Names(ids, nameOf) = FoldOf(Seq({}), Fresh(g, {}, {}), <<>>, ids)
    <3> TAKE ids \in Seq({})
    <3> QED BY <2>1, NamesFold
  <2> QED BY <1>1, <2>2
<1>3. Step(Fresh(g, {}, {}), {}, Seq({}))
  BY FreshStep
<1> HIDE DEF g
<1>4. FoldOf(Seq({}), Fresh(g, {}, {}), <<>>, <<>>) = <<>>
  BY <1>1, <1>3, FoldOfNone
<1> QED BY <1>2, <1>4

\* The pending tools of a self-contained body, on every wire.
LEMMA PendingIs ==
  ASSUME NEW prev, Before(prev), NEW m, NEW rs, NEW ts, Latest(m, rs, ts), NEW w \in Wires
  PROVE  Pending(w, Inbound(w, Append(prev, m))) =
           IF w = "anthropic" \/ ts = <<>> THEN Names(Ids(rs), [c \in CallsBefore(prev) |-> NameOf[c]]) ELSE <<>>
<1> DEFINE body == Inbound(w, Append(prev, m))
<1>1. Pending(w, body) = Names(PendingIds(w, body), [c \in NamedIds(w, body) |-> NameOf[c]])
  BY DEF Pending
<1>2. PendingIds(w, body) = IF w = "anthropic" \/ ts = <<>> THEN Ids(rs) ELSE <<>>
  BY PendingIdsAre
<1>3. w = "anthropic" \/ ts = <<>> => NamedIds(w, body) = CallsBefore(prev)
  BY NamedIdsAre
<1> HIDE DEF body
<1> QED BY <1>1, <1>2, <1>3, NoNames DEF body

\* A history that ends with the client's message.
LEMMA LatestOfHistory ==
  ASSUME NEW h, GoodHistory(h), h # <<>>, Last(h).role = "user"
  PROVE  \E prev, rs, ts :
           /\ h = Append(prev, Last(h)) /\ Before(prev) /\ Latest(Last(h), rs, ts)
           /\ IsInjective(Ids(rs)) /\ ToSet(Ids(rs)) \subseteq CallsBefore(prev)
<1> DEFINE n == Len(h)
           m == Last(h)
           prev == SubSeq(h, 1, n - 1)
<1>1. h \in Seq(Messages) /\ n \in Nat /\ DOMAIN h = 1..n /\ n \in 1..n /\ m = h[n] /\ m \in Messages
  BY LastOf DEF GoodHistory
<1>2. /\ prev \in Seq(Messages) /\ Len(prev) = n - 1 /\ \A i \in 1..(n - 1) : prev[i] = h[i]
      /\ h = Append(prev, h[n])
  BY <1>1
<1> HIDE DEF prev, m
<1>3. GoodMessage(h, n) /\ \A i \in 1..(n - 1) : GoodMessage(h, i)
  BY <1>1 DEF GoodHistory
<1>4. Brings(m.content) /\ ToSet(Ids(Results(m.content))) \subseteq OpenAt(h, n)
  BY <1>1, <1>3 DEF GoodMessage, m
<1>5. PICK rs \in Seq(Given), ts \in {<<>>, <<Text("words")>>} : m.content = rs \o ts /\ IsInjective(Ids(rs))
  BY <1>4 DEF Brings
<1>6. Latest(m, rs, ts)
  <2>1. m = Message("user", rs \o ts)
    BY <1>1, <1>5, MessageShape DEF m
  <2>2. rs \o ts # <<>>
    BY <1>1, <1>3, <1>5 DEF GoodMessage
  <2> QED BY <1>5, <2>1, <2>2 DEF Latest
<1>7. Results(m.content) = rs
  BY <1>6, LatestIs
<1>8. Before(prev)
  <2>1. \A x \in ToSet(prev) : x.role = "user" => Brings(x.content)
    <3>1. \A x \in ToSet(prev) : \E i \in 1..(n - 1) : x = h[i]
      BY <1>1, <1>2 DEF ToSet
    <3> QED BY <1>3, <3>1 DEF GoodMessage
  <2>2. ASSUME prev # <<>>
        PROVE  Last(prev).role = "assistant" /\ Last(prev).content # <<>> /\ Replies(Last(prev).content)
    <3>1. n # 1 /\ n - 1 \in 1..(n - 1) /\ n - 1 \in DOMAIN h
      BY <1>1, <1>2, <2>2
    <3>2. Last(prev) = h[n - 1]
      BY <1>2, <3>1 DEF Last
    <3>3. h[n].role = "user" <=> h[n - 1].role = "assistant"
      BY <1>1, <3>1, Alternation
    <3>4. h[n - 1].role = "assistant"
      BY <1>1, <3>3 DEF m
    <3> QED BY <1>3, <3>1, <3>2, <3>4 DEF GoodMessage
  <2> QED BY <1>2, <2>1, <2>2 DEF Before
<1>9. OpenAt(h, n) \subseteq CallsBefore(prev)
  <2>1. CASE n = 1
    BY <2>1 DEF OpenAt
  <2>2. CASE n # 1
    <3>1. n - 1 \in 1..(n - 1)
      BY <1>1, <2>2
    <3>2. h[n - 1] \in ToSet(prev)
      BY <1>1, <1>2, <3>1 DEF ToSet
    <3> QED BY <2>2, <3>2 DEF OpenAt, CallsBefore
  <2> QED BY <2>1, <2>2
<1>10. h = Append(prev, m) /\ ToSet(Ids(rs)) \subseteq CallsBefore(prev)
  BY <1>1, <1>2, <1>4, <1>7, <1>9
<1> QED BY <1>5, <1>6, <1>8, <1>10 DEF m

\* A good history is all the agreement needs.
LEMMA Agreement ==
  ASSUME Inv
  PROVE  PendingAgrees
<1> SUFFICES ASSUME hist # <<>>, Last(hist).role = "user", Texts(Last(hist).content) = <<>>, NEW w \in Wires
             PROVE  Pending(w, Inbound(w, hist)) = Pending("anthropic", Inbound("anthropic", hist))
  BY DEF PendingAgrees
<1>1. PICK prev, rs, ts : hist = Append(prev, Last(hist)) /\ Before(prev) /\ Latest(Last(hist), rs, ts)
  BY LatestOfHistory DEF Inv
<1> DEFINE m == Last(hist)
<1>2. ts = <<>>
  BY <1>1, LatestIs
<1>3. "anthropic" \in Wires
  BY DEF Wires
<1> HIDE DEF m
<1>4. hist = Append(prev, m) /\ Latest(m, rs, ts)
  BY <1>1 DEF m
<1>5. \A v \in Wires : Pending(v, Inbound(v, Append(prev, m))) = Names(Ids(rs), [c \in CallsBefore(prev) |-> NameOf[c]])
  BY <1>1, <1>2, <1>4, PendingIs
<1> QED BY <1>3, <1>4, <1>5

(***************************************************************************)
(* The three parsers agree on what is pending, for any history.            *)
(***************************************************************************)
THEOREM ParsersAgree == Spec => []PendingAgrees
<1>1. ConversationAssumption
  BY ConversationAssumption
<1>2. Init => Inv
  BY <1>1, InvInit
<1>3. Inv /\ [Next]_vars => Inv'
  BY <1>1, InvNext
<1>4. Inv => PendingAgrees
  BY Agreement
<1> QED BY <1>2, <1>3, <1>4, PTL DEF Spec

---------------------------------------------------------------------------
(* Only what is proved cheap is served by a tier.                          *)

\* What was asked stays at the front of the history.
LEMMA AskedNext ==
  ASSUME ConversationAssumption, Inv, TierServes \/ UpstreamServes
  PROVE  /\ Asked' = hist
         /\ Brought' = Results(Last(hist).content)
<1>1. /\ Inv' /\ turn'.asked = Len(hist) /\ Len(hist) <= Len(hist')
      /\ \A i \in 1..Len(hist) : hist'[i] = hist[i]
  BY ServedGood
<1>2. hist \in Seq(Messages) /\ hist' \in Seq(Messages)
  BY <1>1 DEF Inv, GoodHistory
<1>3. ASSUME NEW s \in Seq(Messages), NEW t \in Seq(Messages), Len(s) <= Len(t), \A i \in 1..Len(s) : t[i] = s[i]
      PROVE  SubSeq(t, 1, Len(s)) = s
  <2> DEFINE v == SubSeq(t, 1, Len(s))
  <2>1. v \in Seq(Messages) /\ Len(v) = Len(s) /\ \A i \in 1..Len(s) : v[i] = t[i]
    BY <1>3
  <2> HIDE DEF v
  <2>2. v = s
    BY <1>3, <2>1
  <2> QED BY <2>2 DEF v
<1>4. Asked' = SubSeq(hist', 1, Len(hist))
  BY <1>1 DEF Asked
<1>5. Asked' = hist
  BY <1>1, <1>2, <1>3, <1>4
<1> QED BY <1>5 DEF Brought

\* A client that leaves out what came before leaves out everything.
LEMMA StartsAre ==
  ASSUME Inv, hist # <<>>, NEW from \in Starts
  PROVE  from = 1 \/ (wire = "responses" /\ from = Len(hist) /\ from > 1)
<1>1. hist \in Seq(Messages) /\ Len(hist) \in Nat /\ DOMAIN hist = 1..Len(hist) /\ GoodHistory(hist)
  BY DEF Inv, GoodHistory
<1>2. CASE from = 1
  BY <1>2
<1>3. CASE from # 1
  <2>1. wire = "responses"
    BY <1>3 DEF Starts
  <2>2. PICK j \in 1..(Len(hist) - 1) :
          /\ from = j + 1 /\ hist[j].role = "assistant"
          /\ \A k \in (j + 1)..Len(hist) : hist[k].role = "user"
    BY <1>3 DEF Starts
  <2>3. j + 1 \in 1..Len(hist) /\ hist[j + 1].role = "user"
    BY <1>1, <2>2
  <2>4. ~(j + 2 <= Len(hist))
    <3> SUFFICES ASSUME j + 2 <= Len(hist) PROVE FALSE
      OBVIOUS
    <3>1. j + 2 \in DOMAIN hist /\ j + 2 # 1 /\ (j + 2) - 1 = j + 1 /\ j + 2 \in (j + 1)..Len(hist)
      BY <1>1
    <3>2. hist[j + 2].role = "user" <=> hist[j + 1].role = "assistant"
      BY <1>1, <3>1, Alternation
    <3> QED BY <2>2, <2>3, <3>1, <3>2
  <2>5. j \in Nat /\ j >= 1 /\ j <= Len(hist) - 1
    BY <1>1
  <2>6. j + 1 = Len(hist)
    <3>1. ASSUME NEW a \in Nat, NEW b \in Nat, a <= b - 1, ~(a + 2 <= b) PROVE a + 1 = b
      BY <3>1
    <3> QED BY <1>1, <2>4, <2>5, <3>1
  <2> QED BY <2>1, <2>2, <2>5, <2>6
<1> QED BY <1>2, <1>3

\* What the body of a turn is made of, whole or from the last message on.
LEMMA TurnBody ==
  ASSUME Inv, hist # <<>>, Last(hist).role = "user", NEW from \in Starts
  PROVE  \E prev, rs, ts :
           /\ SubSeq(hist, from, Len(hist)) = Append(prev, Last(hist))
           /\ Before(prev) /\ Latest(Last(hist), rs, ts) /\ IsInjective(Ids(rs))
           /\ from = 1 => ToSet(Ids(rs)) \subseteq CallsBefore(prev)
           /\ from > 1 => prev = <<>> /\ wire = "responses"
<1>1. hist \in Seq(Messages) /\ Len(hist) \in DOMAIN hist /\ Last(hist) = hist[Len(hist)] /\ Last(hist) \in Messages
  BY LastOf DEF Inv, GoodHistory
<1>2. PICK prev, rs, ts :
        /\ hist = Append(prev, Last(hist)) /\ Before(prev) /\ Latest(Last(hist), rs, ts)
        /\ IsInjective(Ids(rs)) /\ ToSet(Ids(rs)) \subseteq CallsBefore(prev)
  BY LatestOfHistory DEF Inv
<1>3. CASE from = 1
  <2>1. SubSeq(hist, 1, Len(hist)) = hist
    BY <1>1
  <2> QED BY <1>2, <1>3, <2>1
<1>4. CASE wire = "responses" /\ from = Len(hist) /\ from > 1
  <2>1. SubSeq(hist, Len(hist), Len(hist)) = <<Last(hist)>>
    <3> DEFINE v == SubSeq(hist, Len(hist), Len(hist))
    <3>1. v \in Seq(Messages) /\ Len(v) = 1 /\ v[1] = hist[Len(hist)]
      BY <1>1
    <3> HIDE DEF v
    <3>2. v = <<v[1]>>
      BY <3>1
    <3> QED BY <1>1, <3>1, <3>2 DEF v
  <2>2. <<Last(hist)>> = Append(<<>>, Last(hist))
    OBVIOUS
  <2>3. Before(<<>>)
    BY DEF Before, ToSet
  <2> QED BY <1>2, <1>4, <2>1, <2>2, <2>3
<1> QED BY <1>3, <1>4, StartsAre

\* A name that is looked up has an entry.
LEMMA LookedUp ==
  ASSUME NEW c, AgentTools(c) \in Seq(Entries), NEW raw, LookupTool(c, raw) # Unmapped
  PROVE  Covers(c, Canonical(c, raw))
<1> DEFINE tools == AgentTools(c)
           name == Canonical(c, raw)
<1>1. \A i \in DOMAIN tools : tools[i] \in ToSet(tools) /\ tools[i].glob \in BOOLEAN
  <2>1. tools \in Seq(Entries)
    OBVIOUS
  <2> HIDE DEF tools
  <2>2. \A i \in DOMAIN tools : tools[i] \in Entries
    BY <2>1, PlacesOf
  <2>3. \A i \in DOMAIN tools : tools[i] \in ToSet(tools)
    BY <2>1, ElementsOf
  <2> QED BY <2>2, <2>3 DEF Entries
<1>2. Exact(tools, name) # {} \/ Patterns(tools, name) # {}
  BY DEF LookupTool
<1> HIDE DEF tools, name
<1>3. \E i \in DOMAIN tools : (~tools[i].glob /\ tools[i].stem = name) \/ (tools[i].glob /\ IsPrefix(tools[i].stem, name))
  BY <1>2 DEF Exact, Patterns
<1>4. \E e \in ToSet(tools) : IF e.glob THEN IsPrefix(e.stem, name) ELSE e.stem = name
  BY <1>1, <1>3
<1> QED BY <1>4 DEF Covers, tools, name

\* The tool map of a configuration is a list of entries.
LEMMA ConfigsAre ==
  ASSUME ConversationAssumption, NEW c \in Configs
  PROVE  AgentTools(c) \in Seq(Entries) /\ c.precedence \in Seq(STRING)
BY DEF ConversationAssumption, AgentTools

\* The name of each call is among the names.
LEMMA NamedOf ==
  ASSUME NEW D, NEW N, NEW ids \in Seq(D), NEW nameOf,
         \A i \in D : i \in DOMAIN nameOf /\ nameOf[i] \in N, NEW c \in ToSet(ids)
  PROVE  nameOf[c] \in ToSet(Names(ids, nameOf))
BY NamesSet

\* A tier only serves what the history proves cheap.
LEMMA CheapNext ==
  ASSUME ConversationAssumption, Inv, TierServes
  PROVE  CheapOnlyWhenProved'
<1>1. hist # <<>> /\ Last(hist).role = "user" /\ wire' = wire /\ config' = config
  BY TierTurns
<1>2. PICK from \in Starts, shrinks \in Shrinks, said \in TierSays,
           ending \in Endings(kind), streaming \in BOOLEAN :
             TierTurn(from, shrinks, said, ending, streaming)
  BY TierTurns
<1> DEFINE names == NamesFrom(from)
<1>3. Decide(config, names) = "route" /\ turn'.from = from /\ turn'.tier = TierFor(config, names)
  BY <1>2 DEF TierTurn
<1>4. PICK prev, rs, ts :
        /\ SubSeq(hist, from, Len(hist)) = Append(prev, Last(hist))
        /\ Before(prev) /\ Latest(Last(hist), rs, ts) /\ IsInjective(Ids(rs))
        /\ from = 1 => ToSet(Ids(rs)) \subseteq CallsBefore(prev)
        /\ from > 1 => prev = <<>> /\ wire = "responses"
  BY <1>1, TurnBody
<1> DEFINE nameOf == [c \in CallsBefore(prev) |-> NameOf[c]]
<1>5. names = IF wire = "anthropic" \/ ts = <<>> THEN Names(Ids(rs), nameOf) ELSE <<>>
  <2>1. Pending(wire, Inbound(wire, Append(prev, Last(hist)))) =
          IF wire = "anthropic" \/ ts = <<>> THEN Names(Ids(rs), nameOf) ELSE <<>>
    BY <1>4, PendingIs DEF Inv
  <2> QED BY <1>4, <2>1 DEF NamesFrom, BodyFrom
<1> HIDE DEF names, nameOf
<1>6. /\ names # <<>>
      /\ \A n \in ToSet(names) : LookupTool(config, n) \notin {Unmapped, "premium"}
      /\ TierFor(config, names) # "premium"
  BY <1>3, RoutedIsProved
<1>7. names = Names(Ids(rs), nameOf)
  BY <1>5, <1>6
<1>8. rs \in Seq(ResultBlocks) /\ Results(Last(hist).content) = rs
  BY <1>4, LatestIs
<1>9. Ids(rs) \in Seq(STRING) /\ Ids(rs) # <<>> /\ rs # <<>>
  <2>1. rs \in Seq(UseBlocks \cup ResultBlocks)
    BY <1>8, WiderSeq
  <2>2. Ids(rs) # <<>>
    BY <1>6, <1>7, NoNames
  <2>3. rs # <<>>
    BY <2>2 DEF Ids
  <2> QED BY <2>1, <2>2, <2>3, IdsAre
<1>10. Brought' = rs
  BY <1>8, AskedNext
<1>11. config \in Configs
  BY DEF Inv
<1>12. ASSUME from > 1 PROVE Covers(config, Canonical(config, Unknown))
  <2>1. CallsBefore(prev) = {}
    BY <1>4, <1>12 DEF CallsBefore, ToSet
  <2>2. DOMAIN nameOf = {}
    BY <2>1 DEF nameOf
  <2>3. \E i \in ToSet(Ids(rs)) : i \notin DOMAIN nameOf
    BY <1>9, <2>2, SetOfNone
  <2>4. names = <<Unknown>>
    BY <1>7, <2>3 DEF Names
  <2>5. Unknown \in ToSet(names)
    BY <2>4 DEF ToSet
  <2>6. LookupTool(config, Unknown) # Unmapped
    BY <1>6, <2>5
  <2> QED BY <1>11, <2>6, ConfigsAre, LookedUp
<1>13. ASSUME from = 1, NEW c \in ToSet(Ids(rs))
       PROVE  /\ LookupTool(config, NameOf[c]) \notin {Unmapped, "premium"}
              /\ AsDemanding(config, TierFor(config, names), LookupTool(config, NameOf[c]))
  <2> DEFINE CB == CallsBefore(prev)
             N == {nameOf[i] : i \in CB}
  <2>1. Ids(rs) \in Seq(CB)
    BY <1>4, <1>9, <1>13, ElementsIn
  <2>2. \A i \in CB : i \in DOMAIN nameOf /\ nameOf[i] \in N /\ nameOf[i] = NameOf[i]
    BY DEF nameOf
  <2>3. c \in CB
    BY <1>4, <1>13
  <2> HIDE DEF CB, N
  <2>4. nameOf[c] \in ToSet(Names(Ids(rs), nameOf))
    <3>1. \A i \in CB : i \in DOMAIN nameOf /\ nameOf[i] \in N
      BY <2>2
    <3> QED BY <1>13, <2>1, <3>1, NamedOf
  <2>5. NameOf[c] \in ToSet(names)
    BY <1>7, <1>13, <2>2, <2>3, <2>4
  <2>6. config.precedence \in Seq(STRING)
    BY <1>11, ConfigsAre
  <2>7. PICK i \in DOMAIN config.precedence :
          /\ config.precedence[i] = TierFor(config, names)
          /\ \A j \in DOMAIN config.precedence, n \in ToSet(names) :
               config.precedence[j] = LookupTool(config, n) => i <= j
    BY <1>6, <2>6, MostDemanding
  <2>8. \A l \in Ranked(config, {LookupTool(config, NameOf[c])}) :
          \E h \in Ranked(config, {TierFor(config, names)}) : h <= l
    BY <2>5, <2>7 DEF Ranked
  <2> QED BY <1>6, <2>5, <2>8 DEF AsDemanding
<1> QED BY <1>1, <1>3, <1>9, <1>10, <1>12, <1>13 DEF CheapOnlyWhenProved

(***************************************************************************)
(* A tier serves a turn only if the client's own history proves it cheap,  *)
(* whatever the history, the tool map and the precedence.                  *)
(***************************************************************************)
THEOREM OnlyProvedIsCheap == Spec => []CheapOnlyWhenProved
<1>1. ConversationAssumption
  BY ConversationAssumption
<1>2. Init => Inv /\ CheapOnlyWhenProved
  <2>1. Init => CheapOnlyWhenProved
    BY NobodysTurn DEF Init, CheapOnlyWhenProved
  <2> QED BY <1>1, <2>1, InvInit
<1>3. Inv /\ CheapOnlyWhenProved /\ [Next]_vars => (Inv /\ CheapOnlyWhenProved)'
  <2> SUFFICES ASSUME Inv, CheapOnlyWhenProved, [Next]_vars PROVE CheapOnlyWhenProved'
    BY <1>1, InvNext
  <2>1. CASE ClientTurn
    <3>1. turn'.by # "tier"
      BY <1>1, <2>1, ClientGood, NobodysTurn
    <3> QED BY <3>1 DEF CheapOnlyWhenProved
  <2>2. CASE TierServes
    BY <1>1, <2>2, CheapNext
  <2>3. CASE UpstreamServes
    <3>1. turn'.by # "tier"
      BY <2>3, UpstreamTurns DEF UpstreamTurn
    <3> QED BY <3>1 DEF CheapOnlyWhenProved
  <2>4. CASE UNCHANGED vars
    BY <2>4 DEF vars, CheapOnlyWhenProved, Brought, Asked
  <2> QED BY <2>1, <2>2, <2>3, <2>4 DEF Next, ClientTurn
<1> QED BY <1>2, <1>3, PTL DEF Spec

---------------------------------------------------------------------------
(* What a Chat provider is sent of a sanitized conversation.               *)

\* The ids of the results of a message, in their order.
ResultsOf(m) == Ids(Results(m.content))

\* Results alone become tool messages, anything else one message.
Converted(m, c) ==
  /\ c \in Seq(ChatThings)
  /\ m.role = "assistant" => Len(c) = 1 /\ c[1] \in ChatMessages /\ c[1].role = "assistant" /\ c[1].calls = Uses(m.content)
  /\ (m.role = "user" /\ Results(m.content) # <<>>) =>
       /\ Len(c) = Len(ResultsOf(m)) /\ Len(c) # 0
       /\ \A j \in 1..Len(c) : c[j].role = "tool" /\ c[j].id = ResultsOf(m)[j]
  /\ (m.role = "user" /\ Results(m.content) = <<>>) => Len(c) = 1 /\ c[1].role = "user"

\* What one message becomes.
LEMMA ConvertedOne ==
  ASSUME NEW m \in Simple
  PROVE  Converted(m, ConvertSingle(m))
<1> DEFINE c == m.content
           rs == Results(c)
           us == Uses(c)
           tools == [i \in DOMAIN rs |-> ToolMessage(rs[i].id, Flattened(rs[i].form))]
<1>1. m \in Messages /\ ToSet(c) \subseteq Spoken(m.role)
  BY DEF Simple
<1>2. c \in Seq(Blocks) /\ m.role \in {"user", "assistant"}
  BY <1>1, MessageShape
<1>3. ConvertSingle(m) = IF rs # <<>> THEN tools
                         ELSE IF us # <<>> THEN <<ChatMessage("assistant", Joined(c), us)>>
                         ELSE <<ChatMessage(m.role, Joined(c), <<>>)>>
  BY DEF ConvertSingle
<1> HIDE DEF c
<1>4. rs \in Seq(ResultBlocks) /\ us \in Seq(UseBlocks) /\ ToSet(rs) = ToSet(c) \cap ResultBlocks /\ ToSet(us) = ToSet(c) \cap UseBlocks
  BY <1>2, ResultsAndTexts, OfTypeTypes
<1>5. (m.role = "assistant" => rs = <<>>) /\ (m.role = "user" => us = <<>>)
  <2>1. ResultBlocks \cap TextBlocks = {} /\ TextBlocks \cap UseBlocks = {} /\ UseBlocks \cap ResultBlocks = {}
    BY QuietBlocks DEF Quiet
  <2>2. (m.role = "assistant" => ToSet(c) \cap ResultBlocks = {}) /\ (m.role = "user" => ToSet(c) \cap UseBlocks = {})
    BY <1>1, <2>1 DEF Spoken, Told, c
  <2> HIDE DEF rs, us
  <2>3. (ToSet(rs) = {} => rs = <<>>) /\ (ToSet(us) = {} => us = <<>>)
    BY <1>4, SetOfNone
  <2> QED BY <1>4, <2>2, <2>3
<1>6. Joined(c) \in Says
  BY <1>2, JoinedIs
<1> HIDE DEF rs, us
<1>7. us \in Seq(UseBlocks) /\ <<>> \in Seq(UseBlocks)
  BY <1>4
<1>8. /\ DOMAIN rs = 1..Len(rs) /\ Len(rs) \in Nat
      /\ \A i \in 1..Len(rs) : /\ ToolMessage(rs[i].id, Flattened(rs[i].form)) \in ToolMessages
                               /\ ToolMessage(rs[i].id, Flattened(rs[i].form)).role = "tool"
                               /\ ToolMessage(rs[i].id, Flattened(rs[i].form)).id = rs[i].id
  <2>1. DOMAIN rs = 1..Len(rs) /\ Len(rs) \in Nat /\ \A i \in 1..Len(rs) : rs[i] \in ResultBlocks
    BY <1>4
  <2>2. ASSUME NEW b \in ResultBlocks
        PROVE  /\ ToolMessage(b.id, Flattened(b.form)) \in ToolMessages
               /\ ToolMessage(b.id, Flattened(b.form)).role = "tool" /\ ToolMessage(b.id, Flattened(b.form)).id = b.id
    <3>1. b.id \in STRING /\ b.form \in Forms
      BY BlockShapes
    <3>2. Flattened(b.form) \in Forms
      BY <3>1, FlattenedForm
    <3> QED BY <3>1, <3>2 DEF ToolMessage, ToolMessages
  <2> QED BY <2>1, <2>2
<1>9. Len(ResultsOf(m)) = Len(rs) /\ \A i \in 1..Len(rs) : ResultsOf(m)[i] = rs[i].id
  <2>1. ResultsOf(m) = [i \in 1..Len(rs) |-> rs[i].id]
    BY <1>8 DEF ResultsOf, Ids, rs, c
  <2> QED BY <1>8, <2>1
<1>10. /\ tools \in Seq(ChatThings) /\ Len(tools) = Len(rs)
       /\ \A j \in 1..Len(rs) : tools[j].role = "tool" /\ tools[j].id = rs[j].id
  BY <1>8 DEF ChatThings
<1> HIDE DEF tools
<1>11. CASE m.role = "user" /\ rs # <<>>
  <2>1. Len(rs) # 0
    BY <1>4, <1>11
  <2>2. Converted(m, tools)
    BY <1>9, <1>10, <1>11, <2>1 DEF Converted, rs, c
  <2> QED BY <1>3, <1>11, <2>2
<1>12. CASE m.role = "user" /\ rs = <<>>
  <2> DEFINE x == ChatMessage(m.role, Joined(c), <<>>)
  <2>1. x \in ChatMessages /\ x.role = "user"
    BY <1>6, <1>7, <1>12 DEF ChatMessage, ChatMessages
  <2> HIDE DEF x
  <2>2. Converted(m, <<x>>)
    BY <1>12, <2>1 DEF Converted, rs, c, ChatThings
  <2> QED BY <1>3, <1>5, <1>12, <2>2 DEF x
<1>13. CASE m.role = "assistant"
  <2> DEFINE x == ChatMessage("assistant", Joined(c), us)
  <2>1. x \in ChatMessages /\ x.role = "assistant" /\ x.calls = us
    BY <1>6, <1>7 DEF ChatMessage, ChatMessages
  <2>2. ConvertSingle(m) = <<x>>
    <3>1. us = <<>> => <<ChatMessage(m.role, Joined(c), <<>>)>> = <<x>>
      BY <1>13
    <3> HIDE DEF x
    <3> QED BY <1>3, <1>5, <1>13, <3>1 DEF x
  <2> HIDE DEF x
  <2>3. Converted(m, <<x>>)
    BY <1>13, <2>1 DEF Converted, us, c, ChatThings
  <2> QED BY <2>2, <2>3
<1> QED BY <1>2, <1>11, <1>12, <1>13

\* One message of a sanitized conversation, to a provider of the Chat format.
ConvertOf == [m \in Simple |-> ConvertSingle(m)]

\* What is sent of each message, behind its place.
Conversed(sent, t, at) ==
  LET n == Len(t)
  IN /\ at \in [1..(n + 1) -> Nat] /\ at[1] = 0 /\ Len(sent) = at[n + 1]
     /\ DOMAIN sent = 1..Len(sent) /\ \A i \in 1..(n + 1) : at[i] <= Len(sent)
     /\ \A i \in 1..n : t[i].role = "assistant" =>
          /\ at[i + 1] = at[i] + 1 /\ sent[at[i] + 1].role = "assistant"
          /\ sent[at[i] + 1].calls = Uses(t[i].content)
     /\ \A i \in 1..n : (t[i].role = "user" /\ Results(t[i].content) # <<>>) =>
          /\ at[i + 1] = at[i] + Len(ResultsOf(t[i])) /\ Len(ResultsOf(t[i])) \in Nat \ {0}
          /\ \A j \in 1..Len(ResultsOf(t[i])) : sent[at[i] + j].role = "tool" /\ sent[at[i] + j].id = ResultsOf(t[i])[j]
     /\ \A i \in 1..n : (t[i].role = "user" /\ Results(t[i].content) = <<>>) =>
          at[i + 1] = at[i] + 1 /\ sent[at[i] + 1].role = "user"
     /\ \A k \in 1..Len(sent) : \E i \in 1..n : k > at[i] /\ k <= at[i + 1]

\* A compressor changes the form of tool messages only.
Shrunk(sent, body) ==
  /\ DOMAIN sent = DOMAIN body /\ Len(sent) = Len(body)
  /\ \A k \in DOMAIN body : /\ sent[k].role = body[k].role
                            /\ body[k].role = "tool" => sent[k].id = body[k].id
                            /\ body[k].role # "tool" => sent[k] = body[k]

\* What is left of a Chat body is such a body.
LEMMA ShrunkChat ==
  ASSUME NEW body \in Seq(ChatThings), NEW shrinks
  PROVE  Shrunk(Compress("chat", body, shrinks), body)
<1>1. DOMAIN body = 1..Len(body) /\ Len(body) \in Nat
  OBVIOUS
<1>2. Shrunk(body, body)
  BY DEF Shrunk
<1>3. Shrunk(CompressChat(body, shrinks), body)
  <2> DEFINE c == CompressChat(body, shrinks)
  <2>1. c = [i \in DOMAIN body |-> IF body[i].role = "tool" THEN ToolMessage(body[i].id, Crushed(body[i].form, shrinks)) ELSE body[i]]
    BY DEF CompressChat
  <2> HIDE DEF c
  <2>2. DOMAIN c = DOMAIN body /\ Len(c) = Len(body)
    BY <1>1, <2>1
  <2>3. ASSUME NEW k \in DOMAIN body
        PROVE  /\ c[k].role = body[k].role
               /\ body[k].role = "tool" => c[k].id = body[k].id
               /\ body[k].role # "tool" => c[k] = body[k]
    <3>1. body[k].role = "tool" => c[k] = ToolMessage(body[k].id, Crushed(body[k].form, shrinks))
      BY <2>1
    <3>2. body[k].role # "tool" => c[k] = body[k]
      BY <2>1
    <3> QED BY <3>1, <3>2 DEF ToolMessage
  <2>4. Shrunk(c, body)
    BY <2>2, <2>3 DEF Shrunk
  <2> QED BY <2>4 DEF c
<1> QED BY <1>2, <1>3 DEF Compress

\* Message by message.
LEMMA ConvertIs ==
  ASSUME NEW t \in Seq(Simple)
  PROVE  /\ Maps(ConvertOf, Simple, Seq(ChatThings))
         /\ ConvertForLitellm(t) = Flat(ConvertOf, t)
         /\ \A m \in Simple : Converted(m, ConvertOf[m])
<1>1. \A m \in Simple : ConvertOf[m] = ConvertSingle(m)
  BY DEF ConvertOf
<1>2. \A m \in Simple : Converted(m, ConvertOf[m])
  BY <1>1, ConvertedOne
<1>3. \A m \in Simple : ConvertOf[m] \in Seq(ChatThings)
  BY <1>2 DEF Converted
<1>4. Maps(ConvertOf, Simple, Seq(ChatThings))
  BY <1>3 DEF Maps, ConvertOf
<1>5. ConvertForLitellm(t) = Flat(ConvertOf, t)
  <2>1. \A i \in DOMAIN t : t[i] \in Simple
    BY PlacesOf
  <2>2. [i \in DOMAIN t |-> ConvertSingle(t[i])] = [i \in DOMAIN t |-> ConvertOf[t[i]]]
    BY <1>1, <2>1
  <2> QED BY <2>2 DEF ConvertForLitellm, Spread, Flat, Each
<1> QED BY <1>2, <1>4, <1>5

\* A sanitized conversation as a Chat provider is sent it.
LEMMA SentToChat ==
  ASSUME NEW t \in Seq(Simple), NEW shrinks
  PROVE  \E at : Conversed(Compress("chat", ConvertForLitellm(t), shrinks), t, at)
<1> DEFINE f == ConvertOf
           u == Flat(f, t)
           sent == Compress("chat", ConvertForLitellm(t), shrinks)
           n == Len(t)
<1>1. Maps(f, Simple, Seq(ChatThings)) /\ ConvertForLitellm(t) = u /\ \A m \in Simple : Converted(m, f[m])
  BY ConvertIs
<1> HIDE DEF f
<1>2. u \in Seq(ChatThings)
  BY <1>1, FlatType
<1>3. Shrunk(sent, u)
  BY <1>1, <1>2, ShrunkChat
<1>4. PICK at : Laid(at, f, t)
  BY <1>1, Layout
<1> HIDE DEF sent
<1>5. n \in Nat /\ \A i \in 1..n : t[i] \in Simple
  OBVIOUS
<1>6. /\ at \in [1..(n + 1) -> Nat] /\ at[1] = 0 /\ Len(u) = at[n + 1]
      /\ \A i \in 1..n : at[i + 1] = at[i] + Len(f[t[i]])
      /\ \A i \in 1..(n + 1) : at[i] <= Len(u)
      /\ \A i \in 1..n : \A j \in 1..Len(f[t[i]]) : u[at[i] + j] = f[t[i]][j]
      /\ \A k \in 1..Len(u) : \E i \in 1..n : \E j \in 1..Len(f[t[i]]) : k = at[i] + j
  BY <1>4 DEF Laid
<1>7. DOMAIN u = 1..Len(u) /\ Len(u) \in Nat
  BY <1>2
<1>8. Len(sent) = Len(u) /\ DOMAIN sent = 1..Len(u)
  BY <1>3, <1>7 DEF Shrunk
<1> HIDE DEF u, n
<1>9. ASSUME NEW i \in 1..n PROVE f[t[i]] \in Seq(ChatThings) /\ Len(f[t[i]]) \in Nat /\ Converted(t[i], f[t[i]]) /\ at[i] \in Nat
  <2>1. f[t[i]] \in Seq(ChatThings) /\ Converted(t[i], f[t[i]])
    BY <1>1, <1>5 DEF Converted
  <2>2. at[i] \in Nat
    BY <1>5, <1>6
  <2> QED BY <2>1, <2>2
<1>10. ASSUME NEW i \in 1..n, NEW j \in 1..Len(f[t[i]])
       PROVE  /\ sent[at[i] + j].role = f[t[i]][j].role
              /\ f[t[i]][j].role = "tool" => sent[at[i] + j].id = f[t[i]][j].id
              /\ f[t[i]][j].role # "tool" => sent[at[i] + j] = f[t[i]][j]
  <2> DEFINE k == at[i] + j
  <2>1. u[k] = f[t[i]][j]
    BY <1>6
  <2>2. k \in DOMAIN u
    <3>1. at[i + 1] = at[i] + Len(f[t[i]]) /\ at[i + 1] <= Len(u)
      BY <1>5, <1>6
    <3> QED BY <1>7, <1>9, <3>1
  <2> HIDE DEF k
  <2>3. /\ sent[k].role = u[k].role
        /\ u[k].role = "tool" => sent[k].id = u[k].id
        /\ u[k].role # "tool" => sent[k] = u[k]
    BY <1>3, <2>2 DEF Shrunk
  <2> QED BY <2>1, <2>3 DEF k
<1>11. ASSUME NEW i \in 1..n, t[i].role = "assistant"
       PROVE  at[i + 1] = at[i] + 1 /\ sent[at[i] + 1].role = "assistant" /\ sent[at[i] + 1].calls = Uses(t[i].content)
  <2>1. Len(f[t[i]]) = 1 /\ f[t[i]][1].role = "assistant" /\ f[t[i]][1].calls = Uses(t[i].content)
    BY <1>9, <1>11 DEF Converted
  <2>2. sent[at[i] + 1].role = f[t[i]][1].role /\ sent[at[i] + 1] = f[t[i]][1]
    BY <1>10, <2>1
  <2> QED BY <1>6, <2>1, <2>2
<1>12. ASSUME NEW i \in 1..n, t[i].role = "user", Results(t[i].content) # <<>>
       PROVE  /\ at[i + 1] = at[i] + Len(ResultsOf(t[i])) /\ Len(ResultsOf(t[i])) \in Nat \ {0}
              /\ \A j \in 1..Len(ResultsOf(t[i])) :
                   sent[at[i] + j].role = "tool" /\ sent[at[i] + j].id = ResultsOf(t[i])[j]
  <2>1. /\ Len(f[t[i]]) = Len(ResultsOf(t[i])) /\ Len(f[t[i]]) # 0
        /\ \A j \in 1..Len(f[t[i]]) : f[t[i]][j].role = "tool" /\ f[t[i]][j].id = ResultsOf(t[i])[j]
    BY <1>9, <1>12 DEF Converted
  <2>2. \A j \in 1..Len(f[t[i]]) : sent[at[i] + j].role = "tool" /\ sent[at[i] + j].id = ResultsOf(t[i])[j]
    BY <1>10, <2>1
  <2>3. at[i + 1] = at[i] + Len(f[t[i]]) /\ Len(f[t[i]]) \in Nat
    BY <1>6, <1>9
  <2> QED BY <2>1, <2>2, <2>3
<1>13. ASSUME NEW i \in 1..n, t[i].role = "user", Results(t[i].content) = <<>>
       PROVE  at[i + 1] = at[i] + 1 /\ sent[at[i] + 1].role = "user"
  <2>1. Len(f[t[i]]) = 1 /\ f[t[i]][1].role = "user"
    BY <1>9, <1>13 DEF Converted
  <2>2. sent[at[i] + 1].role = f[t[i]][1].role
    BY <1>10, <2>1
  <2> QED BY <1>6, <2>1, <2>2
<1>14. ASSUME NEW k \in 1..Len(u) PROVE \E i \in 1..n : k > at[i] /\ k <= at[i + 1]
  <2>1. PICK i \in 1..n : \E j \in 1..Len(f[t[i]]) : k = at[i] + j
    BY <1>6
  <2>2. PICK j \in 1..Len(f[t[i]]) : k = at[i] + j
    BY <2>1
  <2>3. at[i + 1] = at[i] + Len(f[t[i]]) /\ at[i] \in Nat /\ Len(f[t[i]]) \in Nat
    BY <1>6, <1>9
  <2>4. k > at[i] /\ k <= at[i + 1]
    BY <2>2, <2>3
  <2> QED BY <2>4
<1>15. Conversed(sent, t, at)
  BY <1>6, <1>8, <1>11, <1>12, <1>13, <1>14 DEF Conversed, n
<1> QED BY <1>15 DEF sent

\* The ids a body answers behind place k: those of an unbroken run of tool messages.
LEMMA AnswersAre ==
  ASSUME NEW body, NEW k, NEW l, RunBehind(body, k, l)
  PROVE  AnswersAfter(body, k) = {body[k + j].id : j \in 1..l}
<1> DEFINE n == Len(body)
<1>0. /\ n \in Nat /\ k \in Nat /\ l \in Nat /\ k + l <= n
      /\ \A j \in 1..l : body[k + j].role = "tool"
      /\ k + l < n => body[k + l + 1].role # "tool"
  BY DEF RunBehind
<1> HIDE DEF n
<1> DEFINE run == {i \in (k + 1)..n : \A h \in (k + 1)..i : body[h].role = "tool"}
<1>1. \A i \in (k + 1)..(k + l) : body[i].role = "tool"
  <2> TAKE i \in (k + 1)..(k + l)
  <2> DEFINE j == i - k
  <2>1. j \in 1..l /\ k + j = i
    BY <1>0
  <2> HIDE DEF j
  <2> QED BY <1>0, <2>1
<1>2. ASSUME NEW i \in (k + 1)..(k + l) PROVE i \in run
  <2>1. i \in (k + 1)..n /\ \A h \in (k + 1)..i : h \in (k + 1)..(k + l)
    BY <1>0
  <2> QED BY <1>1, <2>1
<1>3. ASSUME NEW i \in run PROVE i \in (k + 1)..(k + l)
  <2>1. i \in (k + 1)..n /\ \A h \in (k + 1)..i : body[h].role = "tool"
    OBVIOUS
  <2>2. ASSUME i > k + l PROVE FALSE
    <3>1. k + l + 1 \in (k + 1)..i /\ k + l < n
      BY <1>0, <2>1, <2>2
    <3> QED BY <1>0, <2>1, <3>1
  <2> QED BY <1>0, <2>1, <2>2
<1>4. AnswersAfter(body, k) = {body[i].id : i \in run}
  BY DEF AnswersAfter, n
<1>5. \A i : i \in run <=> i \in (k + 1)..(k + l)
  BY <1>2, <1>3
<1> HIDE DEF run
<1>6. \A i \in (k + 1)..(k + l) : \E j \in 1..l : i = k + j
  <2> TAKE i \in (k + 1)..(k + l)
  <2>1. i - k \in 1..l /\ i = k + (i - k)
    BY <1>0
  <2> QED BY <2>1
<1>7. \A j \in 1..l : k + j \in (k + 1)..(k + l)
  BY <1>0
<1>8. \A x : x \in {body[i].id : i \in run} <=> x \in {body[k + j].id : j \in 1..l}
  <2> TAKE x
  <2>1. ASSUME x \in {body[i].id : i \in run} PROVE \E j \in 1..l : x = body[k + j].id
    <3>1. PICK i \in run : x = body[i].id
      BY <2>1
    <3>2. PICK j \in 1..l : i = k + j
      BY <1>5, <1>6
    <3> QED BY <3>1, <3>2
  <2>2. ASSUME NEW j \in 1..l, x = body[k + j].id PROVE \E i \in run : x = body[i].id
    <3>1. k + j \in run
      BY <1>5, <1>7
    <3> QED BY <2>2, <3>1
  <2> QED BY <2>1, <2>2
<1>9. {body[i].id : i \in run} = {body[k + j].id : j \in 1..l}
  BY <1>8
<1> QED BY <1>4, <1>9

\* Calls are answered where they are made, answers follow their calls.
ChatPaired(sent, k) ==
  /\ sent[k].role = "assistant" => ToSet(Ids(sent[k].calls)) = AnswersAfter(sent, k)
  /\ sent[k].role = "tool" =>
       \E j \in 1..(k - 1) : sent[j].role = "assistant" /\ sent[k].id \in AnswersAfter(sent, j)

\* The results of a message by their places.
LEMMA ResultsOfIds ==
  ASSUME NEW m \in Messages
  PROVE  /\ ResultIds(m.content) = {ResultsOf(m)[j] : j \in 1..Len(ResultsOf(m))}
         /\ Len(ResultsOf(m)) = Len(Results(m.content)) /\ Len(ResultsOf(m)) \in Nat
<1> DEFINE rs == Results(m.content)
<1>1. m.content \in Seq(Blocks)
  BY MessageShape
<1>2. rs \in Seq(ResultBlocks)
  BY <1>1, ResultsAndTexts
<1> HIDE DEF rs
<1>3. rs \in Seq(UseBlocks \cup ResultBlocks)
  BY <1>2, WiderSeq
<1>4. Ids(rs) \in Seq(STRING) /\ Len(Ids(rs)) = Len(rs)
  BY <1>3, IdsAre
<1>5. ResultsOf(m) = Ids(rs) /\ ResultIds(m.content) = ToSet(Ids(rs))
  BY DEF ResultsOf, ResultIds, rs
<1> DEFINE ids == Ids(rs)
<1>6. ids \in Seq(STRING) /\ Len(ids) = Len(rs) /\ ResultsOf(m) = ids /\ ResultIds(m.content) = ToSet(ids)
  BY <1>4, <1>5
<1> HIDE DEF ids
<1>7. ToSet(ids) = {ids[j] : j \in 1..Len(ids)} /\ Len(ids) \in Nat
  BY <1>6 DEF ToSet
<1> QED BY <1>6, <1>7 DEF rs

\* The message before one with results that a sanitized conversation keeps.
LEMMA PairedBefore ==
  ASSUME NEW t \in Seq(Simple), NEW i \in 1..Len(t), Paired(t, i), Results(t[i].content) # <<>>
  PROVE  /\ i > 1 /\ t[i - 1].role = "assistant" /\ t[i].role = "user"
         /\ ResultIds(t[i].content) \subseteq UseIds(t[i - 1].content)
<1>1. t[i] \in Messages /\ t[i].content \in Seq(Blocks)
  <2>1. t[i] \in Simple
    OBVIOUS
  <2> QED BY <2>1, MessageShape DEF Simple
<1>2. PICK id : id \in ResultIds(t[i].content)
  <2> DEFINE c == t[i].content
  <2>1. c \in Seq(Blocks) /\ Results(c) # <<>>
    BY <1>1
  <2> HIDE DEF c
  <2>2. \E id : id \in ResultIds(c)
    BY <2>1, IdsOfContent
  <2> QED BY <2>2 DEF c
<1>3. i > 1 /\ ResultIds(t[i].content) \subseteq Matched(t, i - 1)
  BY DEF Paired
<1> DEFINE h == i - 1
<1>4. h + 1 = i
  BY <1>3
<1> HIDE DEF h
<1>5. \A x \in ResultIds(t[i].content) : x \in Matched(t, h)
  BY <1>3 DEF h
<1>6. \A x \in Matched(t, h) : t[h].role = "assistant" /\ t[h + 1].role = "user" /\ x \in UseIds(t[h].content)
  BY MatchedIs
<1>7. \A x \in ResultIds(t[i].content) : t[h].role = "assistant" /\ t[i].role = "user" /\ x \in UseIds(t[h].content)
  BY <1>4, <1>5, <1>6
<1>8. t[h].role = "assistant" /\ t[i].role = "user" /\ ResultIds(t[i].content) \subseteq UseIds(t[h].content)
  BY <1>2, <1>7
<1> QED BY <1>3, <1>8 DEF h

\* The first message sent of a message shows what that one is.
LEMMA FirstSent ==
  ASSUME NEW t \in Seq(Simple), NEW sent, NEW at, Conversed(sent, t, at), NEW i \in 1..Len(t)
  PROVE  /\ sent[at[i] + 1].role = "tool" => t[i].role = "user" /\ Results(t[i].content) # <<>>
         /\ at[i] \in Nat /\ at[i + 1] \in Nat /\ at[i] < at[i + 1] /\ at[i + 1] <= Len(sent)
         /\ t[i].role \in {"user", "assistant"}
<1>1. t[i].role \in {"user", "assistant"}
  <2>1. t[i] \in Simple
    OBVIOUS
  <2> QED BY <2>1, MessageShape DEF Simple
<1>2. at[i] \in Nat /\ at[i + 1] \in Nat /\ at[i + 1] <= Len(sent)
  BY DEF Conversed
<1>3. CASE t[i].role = "assistant"
  BY <1>2, <1>3 DEF Conversed
<1>4. CASE t[i].role = "user" /\ Results(t[i].content) = <<>>
  BY <1>2, <1>4 DEF Conversed
<1>5. CASE t[i].role = "user" /\ Results(t[i].content) # <<>>
  <2>1. at[i + 1] = at[i] + Len(ResultsOf(t[i])) /\ Len(ResultsOf(t[i])) \in Nat \ {0}
    BY <1>5 DEF Conversed
  <2> QED BY <1>2, <1>5, <2>1
<1> QED BY <1>1, <1>2, <1>3, <1>4, <1>5

\* A whole conversation is paired.
AllPaired(t) == \A i \in 1..Len(t) : Paired(t, i)

\* Behind a message with results there is a message without.
LEMMA ResultsEnd ==
  ASSUME NEW t \in Seq(Simple), AllPaired(t), NEW i \in 1..Len(t), t[i].role = "user", i < Len(t)
  PROVE  Results(t[i + 1].content) = <<>>
<1> SUFFICES ASSUME Results(t[i + 1].content) # <<>> PROVE FALSE
  OBVIOUS
<1> DEFINE j == i + 1
<1>1. j \in 1..Len(t) /\ j - 1 = i
  OBVIOUS
<1>2. Results(t[j].content) # <<>>
  OBVIOUS
<1> HIDE DEF j
<1>3. Paired(t, j)
  BY <1>1 DEF AllPaired
<1>4. t[j - 1].role = "assistant"
  BY <1>1, <1>2, <1>3, PairedBefore
<1> QED BY <1>1, <1>4

\* The calls of a message are answered directly behind it, and nothing else is.
LEMMA CallsAnswered ==
  ASSUME NEW t \in Seq(Simple), AllPaired(t), NEW sent, NEW at, Conversed(sent, t, at),
         NEW i \in 1..Len(t), t[i].role = "assistant"
  PROVE  AnswersAfter(sent, at[i] + 1) = UseIds(t[i].content)
<1> DEFINE k == at[i] + 1
           n == Len(t)
<1>1. n \in Nat /\ i \in 1..n /\ at[n + 1] = Len(sent) /\ Len(sent) \in Nat
  BY DEF Conversed
<1>2. at[i + 1] = k /\ k \in Nat /\ k <= Len(sent)
  <2>1. at[i] \in Nat /\ at[i + 1] = at[i] + 1 /\ at[i + 1] <= Len(sent)
    BY FirstSent DEF Conversed
  <2> QED BY <2>1
<1> HIDE DEF k
<1>3. UseIds(t[i].content) = Matched(t, i)
  BY DEF AllPaired, Paired
<1>4. ASSUME Matched(t, i) = {}, k < Len(sent) => sent[k + 1].role # "tool"
      PROVE  AnswersAfter(sent, k) = UseIds(t[i].content)
  <2>1. RunBehind(sent, k, 0)
    BY <1>1, <1>2, <1>4 DEF RunBehind
  <2>2. AnswersAfter(sent, k) = {sent[k + j].id : j \in 1..0}
    BY <2>1, AnswersAre
  <2>3. {sent[k + j].id : j \in 1..0} = {}
    OBVIOUS
  <2> QED BY <1>3, <1>4, <2>2, <2>3
<1>5. CASE i = n
  <2>1. Matched(t, i) = {}
    BY <1>1, <1>5 DEF Matched, n
  <2>2. k = Len(sent)
    BY <1>1, <1>2, <1>5
  <2> QED BY <1>1, <1>4, <2>1, <2>2 DEF k
<1>6. CASE i # n
  <2> DEFINE h == i + 1
             l == Len(ResultsOf(t[h]))
  <2>1. h \in 1..n /\ h - 1 = i /\ at[h] = k
    BY <1>1, <1>2, <1>6
  <2>2. t[h] \in Messages
    BY <2>1 DEF Simple, n
  <2> HIDE DEF n
  <2>3. /\ sent[k + 1].role = "tool" => t[h].role = "user" /\ Results(t[h].content) # <<>>
        /\ t[h].role \in {"user", "assistant"}
    BY <2>1, FirstSent DEF n
  <2>4. CASE ~(t[h].role = "user" /\ Results(t[h].content) # <<>>)
    <3>1. Matched(t, i) = {}
      <4>1. t[h].content \in Seq(Blocks)
        BY <2>2, MessageShape
      <4>2. Results(t[h].content) = <<>> => \A id : id \notin ResultIds(t[h].content)
        BY <4>1, IdsOfContent
      <4>3. \A id : id \notin Matched(t, i)
        BY <2>4, <4>2, MatchedIs
      <4> QED BY <4>3
    <3> QED BY <1>4, <2>3, <2>4, <3>1 DEF k
  <2>5. CASE t[h].role = "user" /\ Results(t[h].content) # <<>>
    <3>1. /\ at[h + 1] = k + l /\ l \in Nat
          /\ \A j \in 1..l : sent[k + j].role = "tool" /\ sent[k + j].id = ResultsOf(t[h])[j]
      BY <2>1, <2>5 DEF Conversed, n
    <3> HIDE DEF l
    <3>2. at[h + 1] <= Len(sent)
      BY <2>1, FirstSent DEF n
    <3>3. k + l < Len(sent) => sent[k + l + 1].role # "tool"
      <4> SUFFICES ASSUME k + l < Len(sent) PROVE sent[k + l + 1].role # "tool"
        OBVIOUS
      <4>1. h # n
        BY <1>1, <3>1
      <4> DEFINE g == h + 1
      <4>2. g \in 1..n /\ at[g] = k + l /\ h < n
        BY <1>1, <2>1, <3>1, <4>1
      <4>3. Results(t[g].content) = <<>>
        BY <2>1, <2>5, <4>2, ResultsEnd DEF n
      <4> HIDE DEF g
      <4>4. sent[at[g] + 1].role # "tool"
        BY <4>2, <4>3, FirstSent DEF n
      <4> QED BY <4>2, <4>4
    <3>4. RunBehind(sent, k, l)
      BY <1>1, <1>2, <3>1, <3>2, <3>3 DEF RunBehind
    <3>5. AnswersAfter(sent, k) = {sent[k + j].id : j \in 1..l}
      BY <3>4, AnswersAre
    <3>6. ResultIds(t[h].content) = {ResultsOf(t[h])[j] : j \in 1..l}
      BY <2>2, ResultsOfIds DEF l
    <3>7. \A id : id \in AnswersAfter(sent, k) <=> id \in ResultIds(t[h].content)
      BY <3>1, <3>5, <3>6
    <3>8. \A id : id \in ResultIds(t[h].content) => id \in Matched(t, i)
      <4>1. ResultIds(t[h].content) \subseteq Matched(t, h - 1)
        BY <2>1, <2>5 DEF AllPaired, Paired, n
      <4> QED BY <2>1, <4>1
    <3>9. \A id : id \in Matched(t, i) => id \in ResultIds(t[h].content)
      BY MatchedIs
    <3>10. AnswersAfter(sent, k) = Matched(t, i)
      BY <3>7, <3>8, <3>9
    <3> QED BY <1>3, <3>10 DEF k
  <2> QED BY <2>4, <2>5
<1> QED BY <1>5, <1>6

\* So is the conversation that a Chat provider is sent.
LEMMA ChatIsPaired ==
  ASSUME NEW t \in Seq(Simple), AllPaired(t), NEW sent, NEW at, Conversed(sent, t, at), NEW k \in 1..Len(sent)
  PROVE  ChatPaired(sent, k)
<1>1. PICK i \in 1..Len(t) : k > at[i] /\ k <= at[i + 1]
  BY DEF Conversed
<1>2. at[i] \in Nat /\ at[i + 1] \in Nat /\ t[i].role \in {"user", "assistant"}
  BY FirstSent
<1>3. CASE t[i].role = "assistant"
  <2>1. at[i + 1] = at[i] + 1 /\ sent[at[i] + 1].role = "assistant" /\ sent[at[i] + 1].calls = Uses(t[i].content)
    BY <1>3 DEF Conversed
  <2>2. k = at[i] + 1
    BY <1>1, <1>2, <2>1
  <2>3. AnswersAfter(sent, at[i] + 1) = UseIds(t[i].content)
    BY <1>3, CallsAnswered
  <2> QED BY <2>1, <2>2, <2>3 DEF ChatPaired, UseIds
<1>4. CASE t[i].role = "user" /\ Results(t[i].content) = <<>>
  <2>1. at[i + 1] = at[i] + 1 /\ sent[at[i] + 1].role = "user"
    BY <1>4 DEF Conversed
  <2>2. k = at[i] + 1
    BY <1>1, <1>2, <2>1
  <2> QED BY <2>1, <2>2 DEF ChatPaired
<1>5. CASE t[i].role = "user" /\ Results(t[i].content) # <<>>
  <2> DEFINE l == Len(ResultsOf(t[i]))
             j == k - at[i]
  <2>1. /\ at[i + 1] = at[i] + l /\ l \in Nat
        /\ \A x \in 1..l : sent[at[i] + x].role = "tool" /\ sent[at[i] + x].id = ResultsOf(t[i])[x]
    BY <1>5 DEF Conversed
  <2> HIDE DEF l
  <2>2. j \in 1..l /\ at[i] + j = k
    BY <1>1, <1>2, <2>1
  <2> HIDE DEF j
  <2>3. sent[k].role = "tool" /\ sent[k].id = ResultsOf(t[i])[j]
    BY <2>1, <2>2
  <2>4. i > 1 /\ t[i - 1].role = "assistant" /\ ResultIds(t[i].content) \subseteq UseIds(t[i - 1].content)
    BY <1>5, PairedBefore DEF AllPaired
  <2>5. t[i] \in Messages
    BY DEF Simple
  <2>6. ResultIds(t[i].content) = {ResultsOf(t[i])[x] : x \in 1..l}
    BY <2>5, ResultsOfIds DEF l
  <2>7. sent[k].id \in UseIds(t[i - 1].content)
    BY <2>2, <2>3, <2>4, <2>6
  <2> DEFINE h == i - 1
  <2>8. h \in 1..Len(t) /\ h + 1 = i
    BY <2>4
  <2>9. t[h].role = "assistant" /\ sent[k].id \in UseIds(t[h].content)
    BY <2>4, <2>7
  <2> HIDE DEF h
  <2>10. at[i] = at[h] + 1 /\ sent[at[h] + 1].role = "assistant" /\ at[h] \in Nat
    <3>1. at[h + 1] = at[h] + 1 /\ sent[at[h] + 1].role = "assistant"
      BY <2>8, <2>9 DEF Conversed
    <3>2. at[h] \in Nat
      BY <2>8, FirstSent
    <3> QED BY <2>8, <3>1, <3>2
  <2>11. sent[k].id \in AnswersAfter(sent, at[h] + 1)
    BY <2>8, <2>9, CallsAnswered
  <2>12. at[h] + 1 \in 1..(k - 1)
    BY <1>1, <1>2, <2>10
  <2> QED BY <2>3, <2>10, <2>11, <2>12 DEF ChatPaired
<1> QED BY <1>2, <1>3, <1>4, <1>5

\* Compression changes no call and no id of a Responses body.
LEMMA CompressedCalls ==
  ASSUME NEW items \in Seq(Items), NEW shrinks
  PROVE  UnpairedCalls(Compress("responses", items, shrinks)) = UnpairedCalls(items)
<1> DEFINE c == CompressResponses(items, shrinks)
           forms == FormsById(At(items, {i \in DOMAIN items : IsOutput(items[i])}), shrinks)
           item(i) == IF IsOutput(i) THEN OutputItem(i.id, Swap(forms, i.id, i.form)) ELSE i
<1>1. c = [i \in DOMAIN items |-> item(items[i])]
  BY DEF CompressResponses
<1> HIDE DEF c, forms
<1>2. ASSUME NEW i \in DOMAIN items
      PROVE  /\ c[i].type = items[i].type
             /\ items[i].type \in {"function_call", "function_call_output"} => c[i].id = items[i].id
  <2>1. CASE IsOutput(items[i])
    <3>1. c[i] = OutputItem(items[i].id, Swap(forms, items[i].id, items[i].form))
      BY <1>1, <2>1
    <3> QED BY <2>1, <3>1 DEF OutputItem, IsOutput
  <2>2. CASE ~IsOutput(items[i])
    BY <1>1, <2>2
  <2> QED BY <2>1, <2>2
<1>3. DOMAIN c = DOMAIN items
  BY <1>1
<1> HIDE DEF item
<1>4. \A x : x \in UnpairedCalls(c) <=> x \in UnpairedCalls(items)
  <2> TAKE x
  <2> DEFINE called(s) == \E i \in DOMAIN s : s[i].type = "function_call" /\ x = s[i].id
             answered(s) == \E i \in DOMAIN s : s[i].type = "function_call_output" /\ x = s[i].id
  <2>1. ASSUME NEW s PROVE x \in UnpairedCalls(s) <=> called(s) /\ ~answered(s)
    BY DEF UnpairedCalls, IsOutput
  <2>2. called(c) <=> called(items)
    BY <1>2, <1>3
  <2>3. answered(c) <=> answered(items)
    BY <1>2, <1>3
  <2> HIDE DEF called, answered
  <2> QED BY <2>1, <2>2, <2>3
<1>5. UnpairedCalls(c) = UnpairedCalls(items)
  BY <1>4
<1> QED BY <1>5 DEF Compress, c

\* A Responses turn that is routed has an output in its body.
LEMMA RoutedBody ==
  ASSUME Inv, wire = "responses", hist # <<>>, Last(hist).role = "user", NEW from \in Starts,
         Decide(config, NamesFrom(from)) = "route"
  PROVE  BodyFrom(from) \in Seq(Items) /\ \E i \in DOMAIN BodyFrom(from) : IsOutput(BodyFrom(from)[i])
<1>1. PICK prev, rs, ts :
        /\ SubSeq(hist, from, Len(hist)) = Append(prev, Last(hist))
        /\ Before(prev) /\ Latest(Last(hist), rs, ts)
  BY TurnBody
<1> DEFINE nameOf == [c \in CallsBefore(prev) |-> NameOf[c]]
           m == Last(hist)
<1>2. wire \in Wires /\ wire # "anthropic"
  BY DEF Inv
<1>3. NamesFrom(from) = IF ts = <<>> THEN Names(Ids(rs), nameOf) ELSE <<>>
  <2>1. Pending(wire, Inbound(wire, Append(prev, Last(hist)))) =
          IF wire = "anthropic" \/ ts = <<>> THEN Names(Ids(rs), nameOf) ELSE <<>>
    BY <1>1, <1>2, PendingIs
  <2> QED BY <1>1, <1>2, <2>1 DEF NamesFrom, BodyFrom
<1> HIDE DEF nameOf
<1>4. NamesFrom(from) # <<>>
  BY RoutedIsProved
<1>5. rs # <<>>
  <2>1. Names(Ids(rs), nameOf) # <<>>
    BY <1>3, <1>4
  <2>2. Ids(rs) # <<>>
    BY <2>1, NoNames
  <2> QED BY <2>2 DEF Ids
<1>6. BodyFrom(from) = Flat(RespOf, prev) \o RespOf[m]
      /\ Flat(RespOf, prev) \in Seq(Items) /\ RespOf[m] \in Seq(Items)
  BY <1>1, BodyOfLatest DEF BodyFrom
<1>7. rs \in Seq(ResultBlocks) /\ ts \in Seq(TextBlocks)
      /\ RespOf[m] = Each(RespItem("user"), rs) \o Each(RespItem("user"), ts)
  BY <1>1, LatestIs
<1> HIDE DEF m
<1> DEFINE os == Each(RespItem("user"), rs)
           tx == Each(RespItem("user"), ts)
           fp == Flat(RespOf, prev)
<1>8. os \in Seq(Items) /\ \A i \in 1..Len(os) : TellsOutput("responses", os[i])
  BY <1>7, OutputsOfResults
<1>9. Len(os) = Len(rs) /\ Len(rs) \in Nat \ {0}
  <2>1. DOMAIN os = DOMAIN rs
    BY DEF Each
  <2> HIDE DEF os
  <2> QED BY <1>5, <1>7, <1>8, <2>1
<1>10. tx \in Seq(Items)
  <2>1. ts \in Seq(Blocks)
    BY <1>7, WiderSeq DEF Blocks
  <2> QED BY <2>1, RespItems, EachType
<1> HIDE DEF os, tx, fp
<1>11. BodyFrom(from) = fp \o (os \o tx) /\ fp \in Seq(Items)
  BY <1>6, <1>7 DEF os, tx, fp
<1> DEFINE b == fp \o (os \o tx)
<1>12. b \in Seq(Items) /\ Len(fp) + 1 \in DOMAIN b /\ b[Len(fp) + 1] = os[1]
  BY <1>8, <1>9, <1>10, <1>11
<1>13. TellsOutput("responses", os[1])
  BY <1>8, <1>9
<1>14. IsOutput(os[1])
  BY <1>13 DEF TellsOutput
<1> HIDE DEF b
<1> QED BY <1>11, <1>12, <1>14 DEF b

\* It is sanitized, which leaves a paired conversation.
LEMMA RoutedMessages ==
  ASSUME NEW body \in Seq(Items), \E i \in DOMAIN body : IsOutput(body[i])
  PROVE  FromResponses(body) \in Seq(Simple) /\ AllPaired(FromResponses(body))
<1> DEFINE s == Flat(ItemMessage, body)
           t == Sanitize(s)
<1>1. s \in Seq(Simple)
  BY ItemMessages, FlatType
<1>2. Spread(FromItem, body) = s
  <2>1. \A i \in DOMAIN body : body[i] \in Items
    BY PlacesOf
  <2>2. [i \in DOMAIN body |-> FromItem(body[i])] = [i \in DOMAIN body |-> ItemMessage[body[i]]]
    BY <2>1 DEF ItemMessage
  <2> QED BY <2>2 DEF Spread, Flat, Each
<1>3. FromResponses(body) = t
  BY <1>2 DEF FromResponses
<1> HIDE DEF s
<1>4. t \in Seq(Simple) /\ \A k \in DOMAIN t : Paired(t, k)
  BY <1>1, SanitizePairs
<1> HIDE DEF t
<1>5. AllPaired(t)
  BY <1>4 DEF AllPaired
<1> QED BY <1>3, <1>4, <1>5

\* Every turn a tier serves is paired for its wire.
LEMMA PairedNext ==
  ASSUME ConversationAssumption, Inv, TierServes
  PROVE  PairedForTheTier'
<1>1. hist # <<>> /\ Last(hist).role = "user" /\ wire' = wire /\ kind' = kind
  BY TierTurns
<1> SUFFICES ASSUME wire = "responses" PROVE PairedForTheTier'
  BY <1>1 DEF PairedForTheTier
<1>2. PICK from \in Starts, shrinks \in Shrinks, said \in TierSays,
           ending \in Endings(kind), streaming \in BOOLEAN :
             TierTurn(from, shrinks, said, ending, streaming)
  BY TierTurns
<1> DEFINE body == BodyFrom(from)
           t == FromResponses(body)
           sent == turn'.sent
<1>3. /\ sent = SentToTier("responses", kind, body, shrinks)
      /\ Accepts(kind, Routed("responses", kind, body))
      /\ Decide(config, NamesFrom(from)) = "route"
  BY <1>2 DEF TierTurn, SentFrom
<1>4. body \in Seq(Items) /\ \E i \in DOMAIN body : IsOutput(body[i])
  BY <1>1, <1>3, RoutedBody
<1>5. t \in Seq(Simple) /\ AllPaired(t)
  BY <1>4, RoutedMessages
<1>6. StripThinking(t) = t
  BY <1>5, SilentStays
<1>7. ToAnthropic("responses", body) = t
  BY DEF ToAnthropic
<1> HIDE DEF body, t, sent
<1>8. ASSUME kind = "direct"
      PROVE  \A k \in DOMAIN sent :
               /\ sent[k].role = "assistant" => ToSet(Ids(Uses(sent[k].content))) = Matched(sent, k)
               /\ Results(sent[k].content) # <<>> =>
                    k > 1 /\ ToSet(Ids(Results(sent[k].content))) \subseteq Matched(sent, k - 1)
  <2>1. sent = t
    BY <1>3, <1>6, <1>7, <1>8 DEF SentToTier, Routed
  <2>2. \A k \in DOMAIN t : Paired(t, k)
    BY <1>5 DEF AllPaired
  <2> QED BY <2>1, <2>2 DEF Paired, UseIds, ResultIds
<1>9. ASSUME kind = "litellm"
      PROVE  \A k \in DOMAIN sent : ChatPaired(sent, k)
  <2>1. sent = Compress("chat", ConvertForLitellm(t), shrinks)
    BY <1>3, <1>6, <1>7, <1>9 DEF SentToTier, Routed, FormatOf
  <2>2. PICK at : Conversed(Compress("chat", ConvertForLitellm(t), shrinks), t, at)
    BY <1>5, SentToChat
  <2>3. Conversed(sent, t, at)
    BY <2>1, <2>2
  <2>4. DOMAIN sent = 1..Len(sent)
    BY <2>3 DEF Conversed
  <2> QED BY <1>5, <2>3, <2>4, ChatIsPaired
<1>10. ASSUME kind = "codex"
       PROVE  UnpairedCalls(sent) = {}
  <2>1. sent = Compress("responses", body, shrinks) /\ UnpairedCalls(body) = {}
    BY <1>3, <1>10 DEF SentToTier, Routed, FormatOf, Accepts
  <2> QED BY <1>4, <2>1, CompressedCalls
<1>11. kind \in {"direct", "litellm", "codex"}
  BY DEF Inv, Kinds
<1>12. CASE kind = "direct"
  BY <1>1, <1>8, <1>12 DEF PairedForTheTier, sent
<1>13. CASE kind = "litellm"
  BY <1>1, <1>9, <1>13 DEF PairedForTheTier, ChatPaired, sent
<1>14. CASE kind = "codex"
  BY <1>1, <1>10, <1>14 DEF PairedForTheTier, sent
<1> QED BY <1>11, <1>12, <1>13, <1>14

(***************************************************************************)
(* A Responses conversation reaches a provider of any format with each     *)
(* call beside its result, of any length and however it was interrupted.   *)
(***************************************************************************)
THEOREM ConversationsArePaired == Spec => []PairedForTheTier
<1>1. ConversationAssumption
  BY ConversationAssumption
<1>2. Init => Inv /\ PairedForTheTier
  <2>1. Init => PairedForTheTier
    BY NobodysTurn DEF Init, PairedForTheTier
  <2> QED BY <1>1, <2>1, InvInit
<1>3. Inv /\ PairedForTheTier /\ [Next]_vars => (Inv /\ PairedForTheTier)'
  <2> SUFFICES ASSUME Inv, PairedForTheTier, [Next]_vars PROVE PairedForTheTier'
    BY <1>1, InvNext
  <2>1. CASE ClientTurn
    <3>1. turn'.by # "tier"
      BY <1>1, <2>1, ClientGood, NobodysTurn
    <3> QED BY <3>1 DEF PairedForTheTier
  <2>2. CASE TierServes
    BY <1>1, <2>2, PairedNext
  <2>3. CASE UpstreamServes
    <3>1. turn'.by # "tier"
      BY <2>3, UpstreamTurns DEF UpstreamTurn
    <3> QED BY <3>1 DEF PairedForTheTier
  <2>4. CASE UNCHANGED vars
    BY <2>4 DEF vars, PairedForTheTier
  <2> QED BY <2>1, <2>2, <2>3, <2>4 DEF Next, ClientTurn
<1> QED BY <1>2, <1>3, PTL DEF Spec

---------------------------------------------------------------------------
(* Results from one format to the next.                                    *)

\* What becomes of the forms: a string may get shorter, a list stays one or its texts,
\* which may get shorter too.
Lists == {"rich", "texts", "repr"}
Tame(g, squeezed) ==
  /\ Maps(g, Forms, Forms)
  /\ \A form \in Lists : g[form] \in IF squeezed THEN Lists \cup {"digest"} ELSE Lists
  /\ g["crushed"] = "crushed" /\ g["digest"] = "digest"
  /\ g["long"] \in IF squeezed THEN {"long", "crushed"} ELSE {"long"}

\* The results of D are those of R, their forms changed by g.
As(r, g) == Result(r.id, g[r.form])
Carries(D, R, g) == \A x : x \in D <=> \E r \in R : x = As(r, g)
Carried(D, R, squeezed) == \E g : Tame(g, squeezed) /\ Carries(D, R, g)

\* One result of each call.
OneOfEach(R) == R \in SUBSET ResultBlocks /\ \A a, b \in R : a.id = b.id => a = b

\* The parts of a result that is carried.
LEMMA AsParts ==
  ASSUME NEW g, Maps(g, Forms, Forms), NEW r \in ResultBlocks
  PROVE  /\ As(r, g) \in ResultBlocks /\ As(r, g).id = r.id /\ As(r, g).form = g[r.form]
         /\ r.form \in Forms /\ g[r.form] \in Forms /\ r.id \in STRING
<1>1. r.id \in STRING /\ r.form \in Forms
  BY BlockShapes
<1>2. g[r.form] \in Forms
  BY <1>1 DEF Maps
<1> DEFINE form == g[r.form]
<1> HIDE DEF form
<1>3. /\ Result(r.id, form) \in ResultBlocks
      /\ Result(r.id, form).id = r.id /\ Result(r.id, form).form = form
  BY <1>1, <1>2 DEF form, Result, ResultBlocks
<1> QED BY <1>1, <1>2, <1>3 DEF As, form

\* Nothing changes, or one change follows another.
LEMMA CarriedSame ==
  ASSUME NEW R \in SUBSET ResultBlocks
  PROVE  Carried(R, R, FALSE)
<1> DEFINE g == [form \in Forms |-> form]
<1>1. Tame(g, FALSE)
  BY DEF Tame, Maps, Lists, Forms
<1>2. \A form \in Forms : g[form] = form
  OBVIOUS
<1> HIDE DEF g
<1>3. \A r \in R : As(r, g) = r
  <2> TAKE r \in R
  <2>1. r = Result(r.id, r.form) /\ r.form \in Forms
    BY BlockShapes
  <2> QED BY <1>2, <2>1 DEF As
<1>4. Carries(R, R, g)
  BY <1>3 DEF Carries
<1> QED BY <1>1, <1>4 DEF Carried

\* What is carried on is carried, squeezed if either step squeezes.
LEMMA CarriedOn ==
  ASSUME NEW R \in SUBSET ResultBlocks, NEW D, NEW E, NEW a \in BOOLEAN, NEW b \in BOOLEAN,
         Carried(D, R, a), Carried(E, D, b)
  PROVE  Carried(E, R, a \/ b)
<1>1. PICK g : Tame(g, a) /\ Carries(D, R, g)
  BY DEF Carried
<1>2. PICK h : Tame(h, b) /\ Carries(E, D, h)
  BY DEF Carried
<1> DEFINE k == [form \in Forms |-> h[g[form]]]
<1>3. Maps(g, Forms, Forms) /\ Maps(h, Forms, Forms)
  BY <1>1, <1>2 DEF Tame
<1>4. \A form \in Forms : k[form] = h[g[form]] /\ g[form] \in Forms /\ k[form] \in Forms
  BY <1>3 DEF Maps
<1>5. Maps(k, Forms, Forms)
  BY <1>4 DEF Maps
<1> HIDE DEF k
<1>6. Tame(k, a \/ b)
  <2>1. \A form \in Lists : k[form] \in IF a \/ b THEN Lists \cup {"digest"} ELSE Lists
    <3> TAKE form \in Lists
    <3>1. k[form] = h[g[form]]
      BY <1>4 DEF Lists, Forms
    <3>2. /\ g[form] \in IF a THEN Lists \cup {"digest"} ELSE Lists
          /\ \A p \in Lists : h[p] \in IF b THEN Lists \cup {"digest"} ELSE Lists
          /\ h["digest"] = "digest"
      BY <1>1, <1>2 DEF Tame
    <3> QED BY <3>1, <3>2
  <2>2. "crushed" \in Forms /\ "digest" \in Forms /\ "long" \in Forms
    BY DEF Forms
  <2>3. k["crushed"] = "crushed" /\ k["digest"] = "digest"
    BY <1>1, <1>2, <1>4, <2>2 DEF Tame
  <2>4. k["long"] \in IF a \/ b THEN {"long", "crushed"} ELSE {"long"}
    <3>1. k["long"] = h[g["long"]]
      BY <1>4, <2>2
    <3>2. /\ g["long"] \in IF a THEN {"long", "crushed"} ELSE {"long"}
          /\ h["long"] \in IF b THEN {"long", "crushed"} ELSE {"long"}
          /\ h["crushed"] = "crushed"
      BY <1>1, <1>2 DEF Tame
    <3> QED BY <3>1, <3>2
  <2> QED BY <1>5, <2>1, <2>3, <2>4 DEF Tame
<1>7. \A r \in R : As(r, g) \in ResultBlocks /\ As(As(r, g), h) = As(r, k)
  <2> TAKE r \in R
  <2>1. As(r, g) \in ResultBlocks /\ As(r, g).id = r.id /\ As(r, g).form = g[r.form] /\ r.form \in Forms
    BY <1>3, AsParts
  <2>2. h[g[r.form]] = k[r.form]
    BY <1>4, <2>1
  <2> QED BY <2>1, <2>2 DEF As
<1>8. Carries(E, R, k)
  <2> SUFFICES ASSUME NEW x PROVE x \in E <=> \E r \in R : x = As(r, k)
    BY DEF Carries
  <2>1. ASSUME x \in E PROVE \E r \in R : x = As(r, k)
    <3>1. PICK d \in D : x = As(d, h)
      BY <1>2, <2>1 DEF Carries
    <3>2. PICK r \in R : d = As(r, g)
      BY <1>1 DEF Carries
    <3> QED BY <1>7, <3>1, <3>2
  <2>2. ASSUME NEW r \in R, x = As(r, k) PROVE x \in E
    <3>1. As(r, g) \in D
      BY <1>1 DEF Carries
    <3>2. As(As(r, g), h) \in E
      BY <1>2, <3>1 DEF Carries
    <3> QED BY <1>7, <2>2, <3>2
  <2> QED BY <2>1, <2>2
<1> QED BY <1>6, <1>8 DEF Carried

\* Whoever carries one result of each call delivers one of each.
LEMMA CarriedOne ==
  ASSUME NEW R, OneOfEach(R), NEW D, NEW a, Carried(D, R, a)
  PROVE  OneOfEach(D)
<1>1. PICK g : Tame(g, a) /\ Carries(D, R, g)
  BY DEF Carried
<1>2. Maps(g, Forms, Forms)
  BY <1>1 DEF Tame
<1>3. \A r \in R : As(r, g) \in ResultBlocks /\ As(r, g).id = r.id
  BY <1>2, AsParts DEF OneOfEach
<1>4. \A x \in D : \E r \in R : x = As(r, g)
  BY <1>1 DEF Carries
<1> QED BY <1>3, <1>4 DEF OneOfEach

\* What is said of a result that is among those kept, and of one that is not.
LEMMA Arrived ==
  ASSUME NEW R, OneOfEach(R), NEW S \in SUBSET R, NEW D, NEW a \in BOOLEAN, Carried(D, S, a),
         NEW r \in R, r.form \in {"long", "rich"},
         NEW there, there = {d \in D : d.id = r.id}
  PROVE  /\ r \notin S => there = {}
         /\ r \in S => \E d \in there : /\ there = {d}
                                        /\ r.form = "long" => d.form \in {"long", "crushed"}
                                        /\ r.form = "rich" => d.form \in {"rich", "texts", "repr", "digest"}
                                        /\ ~a => d.form \notin Short
<1>1. PICK g : Tame(g, a) /\ Carries(D, S, g)
  BY DEF Carried
<1>2. Maps(g, Forms, Forms)
  BY <1>1 DEF Tame
<1>3. \A s \in S : As(s, g) \in ResultBlocks /\ As(s, g).id = s.id /\ As(s, g).form = g[s.form]
  BY <1>2, AsParts DEF OneOfEach
<1>4. \A x \in there : x = As(r, g) /\ r \in S
  <2> TAKE x \in there
  <2>1. x \in D /\ x.id = r.id
    OBVIOUS
  <2>2. PICK s \in S : x = As(s, g)
    BY <1>1, <2>1 DEF Carries
  <2>3. s = r
    BY <1>3, <2>1, <2>2 DEF OneOfEach
  <2> QED BY <2>2, <2>3
<1>5. ASSUME r \in S PROVE As(r, g) \in there
  BY <1>1, <1>3, <1>5 DEF Carries
<1>6. r \in S => there = {As(r, g)}
  BY <1>4, <1>5
<1>7. /\ r.form = "long" => g[r.form] \in {"long", "crushed"}
      /\ r.form = "rich" => g[r.form] \in {"rich", "texts", "repr", "digest"}
      /\ ~a => g[r.form] \notin Short
  BY <1>1 DEF Tame, Lists, Short
<1> QED BY <1>3, <1>4, <1>5, <1>6, <1>7

\* An element of a body has a result.
Tells(format, y, x) ==
  CASE format = "anthropic" -> x \in ToSet(Results(y.content))
    [] format = "chat" -> y.role = "tool" /\ x = Result(y.id, y.form)
    [] format = "responses" -> IsOutput(y) /\ x = Result(y.id, y.form)

\* What an element of each format tells.
LEMMA TellsIs ==
  ASSUME NEW y, NEW x
  PROVE  /\ Tells("anthropic", y, x) <=> x \in ToSet(Results(y.content))
         /\ Tells("chat", y, x) <=> y.role = "tool" /\ x = Result(y.id, y.form)
         /\ Tells("responses", y, x) <=> IsOutput(y) /\ x = Result(y.id, y.form)
BY DEF Tells

\* The results of a body are those of its elements.
LEMMA DeliveredIs ==
  ASSUME NEW D, NEW body \in Seq(D), NEW format \in Wires, NEW x
  PROVE  x \in Delivered(format, body) <=> \E y \in ToSet(body) : Tells(format, y, x)
<1>1. \A i \in DOMAIN body : body[i] \in ToSet(body)
  BY ElementsOf
<1>2. \A y \in ToSet(body) : \E i \in DOMAIN body : y = body[i]
  BY DEF ToSet
<1>3. (\E y \in ToSet(body) : Tells(format, y, x)) <=> \E i \in DOMAIN body : Tells(format, body[i], x)
  BY <1>1, <1>2
<1>4. CASE format = "anthropic"
  <2>1. x \in Delivered("anthropic", body) <=> \E i \in DOMAIN body : x \in ToSet(Results(body[i].content))
    BY DEF Delivered
  <2> QED BY <1>3, <1>4, <2>1, TellsIs
<1>5. CASE format = "chat"
  <2>1. x \in Delivered("chat", body) <=>
          \E i \in DOMAIN body : body[i].role = "tool" /\ x = Result(body[i].id, body[i].form)
    BY DEF Delivered
  <2> QED BY <1>3, <1>5, <2>1, TellsIs
<1>6. CASE format = "responses"
  <2>1. x \in Delivered("responses", body) <=>
          \E i \in DOMAIN body : IsOutput(body[i]) /\ x = Result(body[i].id, body[i].form)
    BY DEF Delivered
  <2> QED BY <1>3, <1>6, <2>1, TellsIs
<1> QED BY <1>4, <1>5, <1>6 DEF Wires

\* What one element of a format becomes in another.
Turns(to, ys, from, m, g) ==
  \A x : (\E y \in ToSet(ys) : Tells(to, y, x)) <=> \E r : Tells(from, m, r) /\ x = As(r, g)

\* Element by element, a body carries the results of another.
LEMMA FlatTurns ==
  ASSUME NEW D, NEW E, NEW f, Maps(f, D, Seq(E)), NEW s \in Seq(D), NEW to \in Wires, NEW from \in Wires,
         NEW g, \A m \in ToSet(s) : Turns(to, f[m], from, m, g)
  PROVE  Carries(Delivered(to, Flat(f, s)), Delivered(from, s), g)
<1> DEFINE u == Flat(f, s)
<1>1. u \in Seq(E) /\ ToSet(u) = UNION {ToSet(f[m]) : m \in ToSet(s)}
  BY FlatType, FlatSet
<1> HIDE DEF u
<1> SUFFICES ASSUME NEW x PROVE x \in Delivered(to, u) <=> \E r \in Delivered(from, s) : x = As(r, g)
  BY DEF Carries, u
<1>2. x \in Delivered(to, u) <=> \E y \in ToSet(u) : Tells(to, y, x)
  BY <1>1, DeliveredIs
<1>3. \A r : r \in Delivered(from, s) <=> \E m \in ToSet(s) : Tells(from, m, r)
  BY DeliveredIs
<1>4. (\E y \in ToSet(u) : Tells(to, y, x)) <=> \E m \in ToSet(s) : \E y \in ToSet(f[m]) : Tells(to, y, x)
  BY <1>1
<1>5. \A m \in ToSet(s) : (\E y \in ToSet(f[m]) : Tells(to, y, x)) <=> \E r : Tells(from, m, r) /\ x = As(r, g)
  BY DEF Turns
<1> QED BY <1>2, <1>3, <1>4, <1>5

\* A body changed element by element carries what its elements carry.
LEMMA EachTurns ==
  ASSUME NEW D, NEW E, NEW f, Maps(f, D, E), NEW s \in Seq(D), NEW to \in Wires, NEW from \in Wires,
         NEW g, \A m \in ToSet(s) : \A x : Tells(to, f[m], x) <=> \E r : Tells(from, m, r) /\ x = As(r, g)
  PROVE  Carries(Delivered(to, Each(f, s)), Delivered(from, s), g)
<1> DEFINE u == Each(f, s)
<1>1. u \in Seq(E) /\ ToSet(u) = {f[m] : m \in ToSet(s)}
  BY EachType, EachSet
<1> HIDE DEF u
<1> SUFFICES ASSUME NEW x PROVE x \in Delivered(to, u) <=> \E r \in Delivered(from, s) : x = As(r, g)
  BY DEF Carries, u
<1>2. x \in Delivered(to, u) <=> \E y \in ToSet(u) : Tells(to, y, x)
  BY <1>1, DeliveredIs
<1>3. \A r : r \in Delivered(from, s) <=> \E m \in ToSet(s) : Tells(from, m, r)
  BY DeliveredIs
<1>4. (\E y \in ToSet(u) : Tells(to, y, x)) <=> \E m \in ToSet(s) : Tells(to, f[m], x)
  BY <1>1
<1> QED BY <1>2, <1>3, <1>4

\* Three changes of form: none, a list as its texts, a list as it is printed.
Alike == [form \in Forms |-> form]
Flatter == [form \in Forms |-> Flattened(form)]
Printer == [form \in Forms |-> Printed(form)]

\* The three ways a form changes without compression are tame.
LEMMA TameOnes ==
  /\ Tame(Alike, FALSE) /\ Tame(Flatter, FALSE) /\ Tame(Printer, FALSE)
  /\ \A r \in ResultBlocks : /\ As(r, Alike) = r
                             /\ As(r, Flatter) = Result(r.id, Flattened(r.form))
                             /\ As(r, Printer) = Result(r.id, Printed(r.form))
<1>1. Maps(Alike, Forms, Forms) /\ Maps(Flatter, Forms, Forms) /\ Maps(Printer, Forms, Forms)
  BY FlattenedForm DEF Maps, Alike, Flatter, Printer
<1>2. \A form \in Forms : Alike[form] = form /\ Flatter[form] = Flattened(form) /\ Printer[form] = Printed(form)
  BY DEF Alike, Flatter, Printer
<1>3. Lists \subseteq Forms /\ "long" \in Forms /\ "crushed" \in Forms /\ "digest" \in Forms
  BY DEF Lists, Forms
<1>4. /\ \A form \in Lists : Flattened(form) \in Lists /\ Printed(form) \in Lists
      /\ \A form \in {"long", "crushed", "digest"} : Flattened(form) = form /\ Printed(form) = form
  BY DEF Lists, Flattened, Printed
<1>5. Tame(Alike, FALSE) /\ Tame(Flatter, FALSE) /\ Tame(Printer, FALSE)
  BY <1>1, <1>2, <1>3, <1>4 DEF Tame
<1>6. \A r \in ResultBlocks : r = Result(r.id, r.form) /\ r.form \in Forms
  BY BlockShapes
<1> QED BY <1>2, <1>5, <1>6 DEF As

\* Those who reply bring no results.
Speaks(h) == \A m \in ToSet(h) : m.role = "assistant" => Results(m.content) = <<>>

\* The results a message has on the Chat and on the Responses wire.
LEMMA MessageTurns ==
  ASSUME NEW m \in Messages, m.role = "assistant" => Results(m.content) = <<>>
  PROVE  Turns("chat", ChatOf[m], "anthropic", m, Alike) /\ Turns("responses", RespOf[m], "anthropic", m, Alike)
<1> DEFINE c == m.content
           rs == Results(c)
           ts == Texts(c)
           us == Uses(c)
<1>1. c \in Seq(Blocks) /\ m.role \in {"user", "assistant"}
  BY MessageShape
<1>2. /\ m.role = "assistant" => ChatOf[m] = <<ChatMessage("assistant", Joined(c), us)>>
      /\ m.role = "user" => ChatOf[m] = Each(ToolOf, rs) \o Each(SayOf, ts)
      /\ RespOf[m] = Each(RespItem(m.role), c)
  BY ChatOfMessage, RespOfMessage
<1>3. \A x : (\E r : Tells("anthropic", m, r) /\ x = As(r, Alike)) <=> x \in ToSet(rs)
  <2>1. \A r : Tells("anthropic", m, r) <=> r \in ToSet(rs)
    BY TellsIs
  <2>2. ToSet(rs) \subseteq ResultBlocks
    BY <1>1, OfTypeTypes
  <2> HIDE DEF rs
  <2> QED BY <2>1, <2>2, TameOnes
<1> HIDE DEF c
<1>4. /\ rs \in Seq(ResultBlocks) /\ ts \in Seq(TextBlocks)
      /\ ToSet(rs) = ToSet(c) \cap ResultBlocks
  BY <1>1, ResultsAndTexts, OfTypeTypes
<1> HIDE DEF rs, ts, us
<1>5. ASSUME NEW x PROVE (\E y \in ToSet(ChatOf[m]) : Tells("chat", y, x)) <=> x \in ToSet(rs)
  <2>1. CASE m.role = "assistant"
    <3> DEFINE y == ChatMessage("assistant", Joined(c), us)
    <3>1. ToSet(ChatOf[m]) = {y}
      BY <1>2, <2>1 DEF ToSet
    <3>2. y.role # "tool"
      BY DEF ChatMessage
    <3> HIDE DEF y
    <3>3. ~Tells("chat", y, x)
      BY <3>2, TellsIs
    <3>4. rs = <<>>
      BY <2>1 DEF rs, c
    <3>5. x \notin ToSet(rs)
      BY <3>4 DEF ToSet
    <3> QED BY <3>1, <3>3, <3>5
  <2>2. CASE m.role = "user"
    <3> DEFINE tools == Each(ToolOf, rs)
               says == Each(SayOf, ts)
    <3>1. tools \in Seq(ChatThings) /\ says \in Seq(ChatThings)
      BY <1>4, ToolsAndSays, EachType
    <3>2. ToSet(tools) = {ToolOf[b] : b \in ToSet(rs)} /\ ToSet(says) = {SayOf[b] : b \in ToSet(ts)}
      BY <1>4, ToolsAndSays, EachSet
    <3>3. ToSet(rs) \subseteq ResultBlocks /\ ToSet(ts) \subseteq TextBlocks
      BY <1>4, ElementsOf
    <3> HIDE DEF tools, says
    <3>4. ToSet(ChatOf[m]) = ToSet(tools) \cup ToSet(says)
      <4>1. ChatOf[m] = tools \o says
        BY <1>2, <2>2 DEF tools, says
      <4> QED BY <3>1, <4>1, ConcatSet
    <3>5. \A y \in ToSet(says) : ~Tells("chat", y, x)
      <4>1. \A b \in TextBlocks : SayOf[b].role = "user"
        BY ToolsAndSays
      <4>2. \A y \in ToSet(says) : y.role = "user"
        BY <3>2, <3>3, <4>1
      <4> QED BY <4>2, TellsIs
    <3>6. \A b \in ResultBlocks : Tells("chat", ToolOf[b], x) <=> x = b
      <4> TAKE b \in ResultBlocks
      <4>1. ToolOf[b].role = "tool" /\ ToolOf[b].id = b.id /\ ToolOf[b].form = b.form
        BY ToolsAndSays
      <4>2. b = Result(b.id, b.form)
        BY BlockShapes
      <4> QED BY <4>1, <4>2, TellsIs
    <3> QED BY <3>2, <3>3, <3>4, <3>5, <3>6
  <2> QED BY <1>1, <2>1, <2>2
<1>6. ASSUME NEW x PROVE (\E y \in ToSet(RespOf[m]) : Tells("responses", y, x)) <=> x \in ToSet(rs)
  <2> DEFINE f == RespItem(m.role)
  <2>1. /\ Maps(f, Blocks, Items)
        /\ \A b \in TextBlocks : f[b] \in MessageItems
        /\ f[Thinking] = ReasoningItem
        /\ \A b \in UseBlocks : f[b] \in CallItems
        /\ \A b \in ResultBlocks : f[b] = OutputItem(b.id, b.form)
    BY <1>1, RespItems
  <2>2. RespOf[m] = Each(f, c)
    BY <1>2
  <2> HIDE DEF f
  <2>3. ToSet(RespOf[m]) = {f[b] : b \in ToSet(c)}
    BY <1>1, <2>1, <2>2, EachSet
  <2>4. \A b \in ResultBlocks : Tells("responses", f[b], x) <=> x = b
    <3> TAKE b \in ResultBlocks
    <3>1. f[b] = OutputItem(b.id, b.form)
      BY <2>1
    <3>2. IsOutput(f[b]) /\ f[b].id = b.id /\ f[b].form = b.form
      BY <3>1 DEF OutputItem, IsOutput
    <3>3. b = Result(b.id, b.form)
      BY BlockShapes
    <3> QED BY <3>2, <3>3, TellsIs
  <2>5. \A b \in Blocks \ ResultBlocks : ~Tells("responses", f[b], x)
    <3> TAKE b \in Blocks \ ResultBlocks
    <3>1. f[b] \in MessageItems \/ f[b] \in CallItems \/ f[b] = ReasoningItem
      BY <2>1 DEF Blocks
    <3>2. ~IsOutput(f[b])
      BY <3>1 DEF IsOutput, MessageItems, CallItems, ReasoningItem
    <3> QED BY <3>2, TellsIs
  <2>6. ToSet(c) \subseteq Blocks
    BY <1>1, ElementsOf
  <2> QED BY <1>4, <2>3, <2>4, <2>5, <2>6
<1> QED BY <1>3, <1>5, <1>6 DEF Turns, rs, c

\* What is carried unchanged is the same.
LEMMA AlikeIs ==
  ASSUME NEW R \in SUBSET ResultBlocks, NEW D, Carries(D, R, Alike)
  PROVE  D = R
<1>1. \A r \in R : As(r, Alike) = r
  BY TameOnes
<1> QED BY <1>1 DEF Carries

\* The results of messages are results.
LEMMA ResultsDelivered ==
  ASSUME NEW h \in Seq(Messages)
  PROVE  Delivered("anthropic", h) \in SUBSET ResultBlocks
<1>1. "anthropic" \in Wires
  BY DEF Wires
<1>2. ASSUME NEW x \in Delivered("anthropic", h) PROVE x \in ResultBlocks
  <2>1. PICK m \in ToSet(h) : x \in ToSet(Results(m.content))
    BY <1>1, DeliveredIs, TellsIs
  <2>2. m \in Messages
    BY ElementsOf
  <2>3. m.content \in Seq(Blocks)
    BY <2>2, MessageShape
  <2> QED BY <2>1, <2>3, OfTypeTypes
<1> QED BY <1>2

\* A body has the results of the conversation it tells.
LEMMA BodyResults ==
  ASSUME NEW h \in Seq(Messages), Speaks(h), NEW w \in Wires
  PROVE  Delivered(w, Inbound(w, h)) = Delivered("anthropic", h)
<1> DEFINE R == Delivered("anthropic", h)
<1>1. R \in SUBSET ResultBlocks /\ "anthropic" \in Wires /\ "chat" \in Wires /\ "responses" \in Wires
  BY ResultsDelivered DEF Wires
<1>2. \A m \in ToSet(h) : /\ Turns("chat", ChatOf[m], "anthropic", m, Alike)
                          /\ Turns("responses", RespOf[m], "anthropic", m, Alike)
  <2> TAKE m \in ToSet(h)
  <2>1. m \in Messages
    BY ElementsOf
  <2> QED BY <2>1, MessageTurns DEF Speaks
<1>3. CASE w = "chat"
  <2>1. Carries(Delivered("chat", Flat(ChatOf, h)), R, Alike)
    BY <1>1, <1>2, MapsOfMessages, FlatTurns
  <2> HIDE DEF R
  <2>2. Delivered("chat", Flat(ChatOf, h)) = R
    BY <1>1, <2>1, AlikeIs
  <2> QED BY <1>3, <2>2, BodiesAre DEF R
<1>4. CASE w = "responses"
  <2>1. Carries(Delivered("responses", Flat(RespOf, h)), R, Alike)
    BY <1>1, <1>2, MapsOfMessages, FlatTurns
  <2> HIDE DEF R
  <2>2. Delivered("responses", Flat(RespOf, h)) = R
    BY <1>1, <2>1, AlikeIs
  <2> QED BY <1>4, <2>2, BodiesAre DEF R
<1>5. CASE w = "anthropic"
  <2> DEFINE body == Inbound("anthropic", h)
  <2>1. /\ DOMAIN body = DOMAIN h
        /\ \A i \in DOMAIN h : Results(body[i].content) = Results(h[i].content)
    BY CleanedBody
  <2> HIDE DEF body
  <2>2. Delivered("anthropic", body) = UNION {ToSet(Results(body[i].content)) : i \in DOMAIN body}
    BY DEF Delivered
  <2>3. Delivered("anthropic", h) = UNION {ToSet(Results(h[i].content)) : i \in DOMAIN h}
    BY DEF Delivered
  <2>4. {ToSet(Results(body[i].content)) : i \in DOMAIN body} = {ToSet(Results(h[i].content)) : i \in DOMAIN h}
    BY <2>1
  <2> QED BY <1>5, <2>2, <2>3, <2>4 DEF body
<1> QED BY <1>3, <1>4, <1>5 DEF Wires

\* The results of one block, and of none.
LEMMA ResultsOfOne ==
  ASSUME NEW b \in ResultBlocks, NEW role \in {"user", "assistant"}
  PROVE  Message(role, <<b>>) \in Messages /\ \A x : x \in ToSet(Results(Message(role, <<b>>).content)) <=> x = b
<1> DEFINE s == <<b>>
<1>1. s \in Seq(Blocks) /\ ToSet(s) = {b}
  BY DEF ToSet, Blocks
<1> HIDE DEF s
<1>2. Message(role, s) \in Messages /\ Message(role, s).content = s
  BY <1>1, MessageParts
<1>3. ToSet(Results(s)) = ToSet(s) \cap ResultBlocks
  BY <1>1, OfTypeTypes
<1> QED BY <1>1, <1>2, <1>3 DEF s

\* A message of what is said tells no result.
LEMMA ResultsOfNone ==
  ASSUME NEW s \in Seq(SaidBlocks), NEW role \in {"user", "assistant"}
  PROVE  Message(role, s) \in Messages /\ \A x : x \notin ToSet(Results(Message(role, s).content))
<1>1. SaidBlocks \subseteq Blocks /\ SaidBlocks \cap ResultBlocks = {}
  BY QuietBlocks DEF SaidBlocks
<1>2. s \in Seq(Blocks) /\ ToSet(s) \subseteq SaidBlocks
  BY <1>1, WiderSeq, ElementsOf
<1>3. Message(role, s) \in Messages /\ Message(role, s).content = s
  BY <1>2, MessageParts
<1>4. ToSet(Results(s)) = ToSet(s) \cap ResultBlocks
  BY <1>2, OfTypeTypes
<1> QED BY <1>1, <1>2, <1>3, <1>4

\* A Chat message as an Anthropic one.
FromChatOf == [y \in ChatThings |-> FromChat(y)]

\* A Chat message told as an Anthropic one, result by result.
LEMMA FromChatTurns ==
  /\ Maps(FromChatOf, ChatThings, Messages)
  /\ \A y \in ChatThings : \A x :
       Tells("anthropic", FromChatOf[y], x) <=> \E r : Tells("chat", y, r) /\ x = As(r, Flatter)
<1>1. ASSUME NEW y \in ToolMessages
      PROVE  /\ FromChat(y) \in Messages
             /\ \A x : Tells("anthropic", FromChat(y), x) <=> \E r : Tells("chat", y, r) /\ x = As(r, Flatter)
  <2> DEFINE r == Result(y.id, y.form)
             b == Result(y.id, Flattened(y.form))
  <2>1. y.id \in STRING /\ y.form \in Forms /\ y.role = "tool"
    BY DEF ToolMessages
  <2>2. Flattened(y.form) \in Forms
    BY <2>1, FlattenedForm
  <2>3. r \in ResultBlocks /\ b \in ResultBlocks /\ r.id = y.id /\ r.form = y.form
    BY <2>1, <2>2 DEF Result, ResultBlocks
  <2>4. FromChat(y) = Message("user", <<b>>)
    BY <2>1 DEF FromChat
  <2>5. \A z : Tells("chat", y, z) <=> z = r
    BY <2>1, TellsIs
  <2>6. As(r, Flatter) = Result(r.id, Flattened(r.form))
    BY <2>3, TameOnes
  <2>7. As(r, Flatter) = b
    BY <2>3, <2>6
  <2> HIDE DEF r, b
  <2>8. FromChat(y) \in Messages /\ \A x : x \in ToSet(Results(FromChat(y).content)) <=> x = b
    BY <2>3, <2>4, ResultsOfOne
  <2> QED BY <2>5, <2>7, <2>8, TellsIs
<1>2. ASSUME NEW y \in ChatMessages
      PROVE  /\ FromChat(y) \in Messages
             /\ \A x : Tells("anthropic", FromChat(y), x) <=> \E r : Tells("chat", y, r) /\ x = As(r, Flatter)
  <2> DEFINE s == TextAndUses(y.text, y.calls)
  <2>1. y.role \in {"user", "assistant"} /\ y.text \in Says /\ y.calls \in Seq(UseBlocks) /\ y.role # "tool"
    BY DEF ChatMessages
  <2>2. FromChat(y) = Message(y.role, s)
    BY <2>1 DEF FromChat
  <2>3. s \in Seq(SaidBlocks)
    <3>1. UseBlocks \subseteq SaidBlocks /\ TextBlocks \subseteq SaidBlocks
      BY QuietBlocks DEF SaidBlocks
    <3>2. y.calls \in Seq(SaidBlocks)
      BY <2>1, <3>1, WiderSeq
    <3>3. \A t \in Says : Text(t) \in SaidBlocks
      BY <3>1 DEF Text, TextBlocks
    <3>4. \A t \in Says : <<Text(t)>> \in Seq(SaidBlocks)
      BY <3>3
    <3> DEFINE pre == IF y.text = "empty" THEN <<>> ELSE <<Text(y.text)>>
    <3>5. pre \in Seq(SaidBlocks)
      <4>1. <<>> \in Seq(SaidBlocks)
        OBVIOUS
      <4> QED BY <2>1, <3>4, <4>1
    <3>6. s = IF pre \o y.calls = <<>> THEN <<Text("empty")>> ELSE pre \o y.calls
      BY DEF TextAndUses
    <3> HIDE DEF pre
    <3>7. "empty" \in Says
      BY DEF Says
    <3> QED BY <3>2, <3>4, <3>5, <3>6, <3>7, ConcatType
  <2> HIDE DEF s
  <2>4. FromChat(y) \in Messages /\ \A x : x \notin ToSet(Results(FromChat(y).content))
    BY <2>1, <2>2, <2>3, ResultsOfNone
  <2> QED BY <2>1, <2>4, TellsIs
<1>3. \A y \in ChatThings : FromChatOf[y] = FromChat(y)
  BY DEF FromChatOf
<1>4. FromChatOf = [y \in ChatThings |-> FromChatOf[y]]
  BY DEF FromChatOf
<1>5. \A y \in ChatThings : FromChatOf[y] \in Messages
  BY <1>1, <1>2, <1>3 DEF ChatThings
<1>6. Maps(FromChatOf, ChatThings, Messages)
  <2> DEFINE f == FromChatOf
  <2>1. f = [y \in ChatThings |-> f[y]] /\ \A y \in ChatThings : f[y] \in Messages
    BY <1>4, <1>5
  <2> HIDE DEF f
  <2>2. Maps(f, ChatThings, Messages)
    BY <2>1 DEF Maps
  <2> QED BY <2>2 DEF f
<1>7. ASSUME NEW y \in ChatThings, NEW x
      PROVE  Tells("anthropic", FromChatOf[y], x) <=> \E r : Tells("chat", y, r) /\ x = As(r, Flatter)
  <2>1. y \in ToolMessages \/ y \in ChatMessages
    BY DEF ChatThings
  <2>2. Tells("anthropic", FromChat(y), x) <=> \E r : Tells("chat", y, r) /\ x = As(r, Flatter)
    BY <1>1, <1>2, <2>1
  <2> QED BY <1>3, <2>2
<1> QED BY <1>6, <1>7

\* A Chat body as Anthropic messages.
LEMMA FromChatResults ==
  ASSUME NEW body \in Seq(ChatThings)
  PROVE  LET ms == ToAnthropic("chat", body)
         IN ms \in Seq(Messages) /\ Carried(Delivered("anthropic", ms), Delivered("chat", body), FALSE)
<1> DEFINE f == FromChatOf
           ms == ToAnthropic("chat", body)
<1>1. ms = Each(f, body)
  <2>1. \A i \in DOMAIN body : body[i] \in ChatThings
    BY PlacesOf
  <2> QED BY <2>1 DEF ToAnthropic, FromChatOf, Each
<1>2. Maps(f, ChatThings, Messages) /\ ToSet(body) \subseteq ChatThings /\ "chat" \in Wires /\ "anthropic" \in Wires
  BY FromChatTurns, ElementsOf DEF Wires
<1>3. \A y \in ToSet(body) : \A x :
        Tells("anthropic", f[y], x) <=> \E r : Tells("chat", y, r) /\ x = As(r, Flatter)
  BY <1>2, FromChatTurns
<1> HIDE DEF f
<1>4. Carries(Delivered("anthropic", Each(f, body)), Delivered("chat", body), Flatter)
  BY <1>2, <1>3, EachTurns
<1>5. ms \in Seq(Messages)
  BY <1>1, <1>2, EachType
<1> HIDE DEF ms
<1>6. Carried(Delivered("anthropic", ms), Delivered("chat", body), FALSE)
  BY <1>1, <1>4, TameOnes DEF Carried
<1> QED BY <1>5, <1>6 DEF ms

\* Thinking is left out, and no result with it.
StripOf == [m \in Messages |-> Message(m.role, Only(m.content, Blocks \ {Thinking}))]
Kept == {m \in Messages : m.content # <<>> \/ m.role # "assistant"}

\* Stripping the thinking of a message leaves its results.
LEMMA StripOfMessage ==
  ASSUME NEW m \in Messages
  PROVE  /\ StripOf[m] \in Messages
         /\ Message(m.role, At(m.content, {i \in DOMAIN m.content : m.content[i].type # "thinking"})) = StripOf[m]
         /\ \A x : x \in ToSet(Results(StripOf[m].content)) <=> x \in ToSet(Results(m.content))
         /\ \A x : x \in ToSet(Results(StripOf[m].content)) => StripOf[m] \in Kept
<1> DEFINE c == m.content
           Q == {i \in DOMAIN c : c[i].type # "thinking"}
           d == Only(c, Blocks \ {Thinking})
<1>1. c \in Seq(Blocks) /\ m.role \in {"user", "assistant"}
  BY MessageShape
<1>2. StripOf[m] = Message(m.role, d)
  BY DEF StripOf
<1> HIDE DEF c
<1>3. \A i \in DOMAIN c : i \in Q <=> c[i] \in Blocks \ {Thinking}
  <2>1. \A i \in DOMAIN c : c[i] \in Blocks
    BY <1>1
  <2> QED BY <2>1, BlockTypes
<1> HIDE DEF Q
<1>4. At(c, Q) = d
  BY <1>1, <1>3, OnlyIs
<1>5. d \in Seq(Blocks) /\ ToSet(d) = ToSet(c) \cap (Blocks \ {Thinking})
  BY <1>1, OnlyType, OnlySet
<1> HIDE DEF d
<1>6. Message(m.role, d) \in Messages /\ Message(m.role, d).content = d /\ Message(m.role, d).role = m.role
  BY <1>1, <1>5, MessageParts
<1>7. ToSet(Results(d)) = ToSet(d) \cap ResultBlocks /\ ToSet(Results(c)) = ToSet(c) \cap ResultBlocks
  BY <1>1, <1>5, OfTypeTypes
<1>8. Thinking \notin ResultBlocks /\ ResultBlocks \subseteq Blocks
  BY QuietBlocks DEF Blocks
<1>9. ToSet(Results(d)) = ToSet(Results(c))
  BY <1>5, <1>7, <1>8
<1>10. \A x : x \in ToSet(Results(d)) => d # <<>>
  <2>1. ToSet(d) # {} => d # <<>>
    BY <1>5, SetOfNone
  <2> QED BY <1>7, <2>1
<1> QED BY <1>2, <1>4, <1>6, <1>9, <1>10 DEF Kept, c, Q

\* Stripping a conversation of its thinking leaves its results.
LEMMA Stripped ==
  ASSUME NEW ms \in Seq(Messages)
  PROVE  /\ StripThinking(ms) \in Seq(Messages)
         /\ Delivered("anthropic", StripThinking(ms)) = Delivered("anthropic", ms)
<1> DEFINE silent(blocks) == At(blocks, {i \in DOMAIN blocks : blocks[i].type # "thinking"})
           stripped == [k \in DOMAIN ms |-> Message(ms[k].role, silent(ms[k].content))]
           P == {k \in DOMAIN stripped : stripped[k].content # <<>> \/ stripped[k].role # "assistant"}
           f == StripOf
           u == Each(f, ms)
           v == Only(u, Kept)
<1>1. StripThinking(ms) = At(stripped, P)
  BY DEF StripThinking
<1>2. \A k \in DOMAIN ms : Message(ms[k].role, silent(ms[k].content)) = f[ms[k]]
  <2>1. \A k \in DOMAIN ms : ms[k] \in Messages
    BY PlacesOf
  <2> QED BY <2>1, StripOfMessage
<1> HIDE DEF silent
<1>3. stripped = u
  BY <1>2 DEF Each
<1>4. Maps(f, Messages, Messages)
  <2>1. \A m \in Messages : f[m] \in Messages
    BY StripOfMessage
  <2> QED BY <2>1 DEF Maps, StripOf
<1> HIDE DEF stripped, f
<1>5. u \in Seq(Messages) /\ ToSet(u) = {f[m] : m \in ToSet(ms)}
  BY <1>4, EachType, EachSet
<1>6. \A k \in DOMAIN u : k \in P <=> u[k] \in Kept
  <2>1. \A k \in DOMAIN u : u[k] \in Messages
    BY <1>5, PlacesOf
  <2> HIDE DEF u
  <2> QED BY <1>3, <2>1 DEF Kept
<1> HIDE DEF u, P
<1>7. At(u, P) = v
  BY <1>5, <1>6, OnlyIs
<1>8. v \in Seq(Messages) /\ ToSet(v) = ToSet(u) \cap Kept
  BY <1>5, OnlyType, OnlySet
<1> HIDE DEF v
<1>9. StripThinking(ms) = v
  BY <1>1, <1>3, <1>7
<1>10. ToSet(ms) \subseteq Messages /\ "anthropic" \in Wires
  BY ElementsOf DEF Wires
<1>11. \A m \in ToSet(ms) : /\ \A x : x \in ToSet(Results(f[m].content)) <=> x \in ToSet(Results(m.content))
                            /\ \A x : x \in ToSet(Results(f[m].content)) => f[m] \in Kept
  BY <1>10, StripOfMessage DEF f
<1>12. ASSUME NEW x PROVE x \in Delivered("anthropic", v) <=> x \in Delivered("anthropic", ms)
  <2>1. x \in Delivered("anthropic", v) <=> \E y \in ToSet(v) : x \in ToSet(Results(y.content))
    BY <1>8, <1>10, DeliveredIs, TellsIs
  <2>2. x \in Delivered("anthropic", ms) <=> \E y \in ToSet(ms) : x \in ToSet(Results(y.content))
    BY <1>10, DeliveredIs, TellsIs
  <2>3. ASSUME NEW y \in ToSet(v), x \in ToSet(Results(y.content)) PROVE \E m \in ToSet(ms) : x \in ToSet(Results(m.content))
    <3>1. PICK m \in ToSet(ms) : y = f[m]
      BY <1>5, <1>8
    <3> QED BY <1>11, <2>3, <3>1
  <2>4. ASSUME NEW m \in ToSet(ms), x \in ToSet(Results(m.content)) PROVE \E y \in ToSet(v) : x \in ToSet(Results(y.content))
    <3>1. f[m] \in ToSet(v)
      <4>1. f[m] \in ToSet(u)
        BY <1>5
      <4>2. f[m] \in Kept
        BY <1>11, <2>4
      <4> QED BY <1>8, <4>1, <4>2
    <3> QED BY <1>11, <2>4, <3>1
  <2> QED BY <2>1, <2>2, <2>3, <2>4
<1> QED BY <1>8, <1>9, <1>12

\* One message of any, to a provider of the Chat format.
ConvertAny == [m \in Messages |-> ConvertSingle(m)]

\* A message converted for LiteLLM, result by result.
LEMMA ConvertTurns ==
  ASSUME NEW m \in Messages
  PROVE  ConvertSingle(m) \in Seq(ChatThings) /\ Turns("chat", ConvertSingle(m), "anthropic", m, Flatter)
<1> DEFINE c == m.content
           rs == Results(c)
           us == Uses(c)
           tools == [i \in DOMAIN rs |-> ToolMessage(rs[i].id, Flattened(rs[i].form))]
<1>1. c \in Seq(Blocks) /\ m.role \in {"user", "assistant"}
  BY MessageShape
<1>2. ConvertSingle(m) = IF rs # <<>> THEN tools
                         ELSE IF us # <<>> THEN <<ChatMessage("assistant", Joined(c), us)>>
                         ELSE <<ChatMessage(m.role, Joined(c), <<>>)>>
  BY DEF ConvertSingle
<1>3. \A x : (\E r : Tells("anthropic", m, r) /\ x = As(r, Flatter)) <=> \E r \in ToSet(rs) : x = As(r, Flatter)
  BY TellsIs
<1> HIDE DEF c
<1>4. rs \in Seq(ResultBlocks) /\ us \in Seq(UseBlocks) /\ Joined(c) \in Says
  BY <1>1, ResultsAndTexts, JoinedIs
<1> HIDE DEF rs, us
<1>5. CASE rs # <<>>
  <2> DEFINE f == [b \in ResultBlocks |-> ToolMessage(b.id, Flattened(b.form))]
  <2>1. \A b \in ResultBlocks : /\ f[b] \in ToolMessages
                                /\ \A x : Tells("chat", f[b], x) <=> x = As(b, Flatter)
    <3> TAKE b \in ResultBlocks
    <3>1. b.id \in STRING /\ b.form \in Forms
      BY BlockShapes
    <3>2. Flattened(b.form) \in Forms
      BY <3>1, FlattenedForm
    <3>3. f[b] = ToolMessage(b.id, Flattened(b.form))
      OBVIOUS
    <3>4. f[b] \in ToolMessages /\ f[b].role = "tool" /\ f[b].id = b.id /\ f[b].form = Flattened(b.form)
      BY <3>1, <3>2, <3>3 DEF ToolMessage, ToolMessages
    <3> HIDE DEF f
    <3>5. As(b, Flatter) = Result(b.id, Flattened(b.form))
      BY TameOnes
    <3>6. \A x : Tells("chat", f[b], x) <=> x = Result(b.id, Flattened(b.form))
      BY <3>4, TellsIs
    <3> QED BY <3>4, <3>5, <3>6
  <2>2. Maps(f, ResultBlocks, ChatThings)
    BY <2>1 DEF Maps, ChatThings
  <2>3. tools = Each(f, rs)
    <3>1. \A i \in DOMAIN rs : rs[i] \in ResultBlocks
      BY <1>4, PlacesOf
    <3> QED BY <3>1 DEF Each
  <2> HIDE DEF f, tools
  <2>4. Each(f, rs) \in Seq(ChatThings) /\ ToSet(Each(f, rs)) = {f[b] : b \in ToSet(rs)}
    BY <1>4, <2>2, EachType, EachSet
  <2>5. ToSet(rs) \subseteq ResultBlocks
    BY <1>4, ElementsOf
  <2>6. \A x : (\E y \in ToSet(tools) : Tells("chat", y, x)) <=> \E r \in ToSet(rs) : x = As(r, Flatter)
    BY <2>1, <2>3, <2>4, <2>5
  <2> QED BY <1>2, <1>3, <1>5, <2>3, <2>4, <2>6 DEF Turns
<1>6. CASE rs = <<>>
  <2>1. \E y \in ChatMessages : ConvertSingle(m) = <<y>>
    <3>1. /\ ChatMessage("assistant", Joined(c), us) \in ChatMessages
          /\ ChatMessage(m.role, Joined(c), <<>>) \in ChatMessages
      <4>1. <<>> \in Seq(UseBlocks)
        OBVIOUS
      <4> QED BY <1>1, <1>4, <4>1 DEF ChatMessage, ChatMessages
    <3> QED BY <1>2, <1>6, <3>1
  <2>2. PICK y \in ChatMessages : ConvertSingle(m) = <<y>>
    BY <2>1
  <2>3. ToSet(<<y>>) = {y} /\ <<y>> \in Seq(ChatThings) /\ y.role # "tool"
    BY DEF ToSet, ChatThings, ChatMessages
  <2>4. \A x : ~Tells("chat", y, x)
    BY <2>3, TellsIs
  <2>5. ToSet(rs) = {}
    BY <1>6 DEF ToSet
  <2> QED BY <1>3, <2>2, <2>3, <2>4, <2>5 DEF Turns
<1> QED BY <1>5, <1>6

\* A conversation converted for LiteLLM carries its results, lists flattened.
LEMMA ConvertResults ==
  ASSUME NEW ms \in Seq(Messages)
  PROVE  /\ ConvertForLitellm(ms) \in Seq(ChatThings)
         /\ Carries(Delivered("chat", ConvertForLitellm(ms)), Delivered("anthropic", ms), Flatter)
<1> DEFINE f == ConvertAny
<1>1. \A m \in Messages : f[m] = ConvertSingle(m)
  BY DEF ConvertAny
<1>2. Maps(f, Messages, Seq(ChatThings))
  <2>1. \A m \in Messages : f[m] \in Seq(ChatThings)
    BY <1>1, ConvertTurns
  <2> QED BY <2>1 DEF Maps, ConvertAny
<1>3. \A m \in ToSet(ms) : Turns("chat", f[m], "anthropic", m, Flatter)
  <2>1. ToSet(ms) \subseteq Messages
    BY ElementsOf
  <2> QED BY <1>1, <2>1, ConvertTurns
<1> HIDE DEF f
<1>4. ConvertForLitellm(ms) = Flat(f, ms)
  <2>1. \A i \in DOMAIN ms : ms[i] \in Messages
    BY PlacesOf
  <2>2. [i \in DOMAIN ms |-> ConvertSingle(ms[i])] = [i \in DOMAIN ms |-> f[ms[i]]]
    BY <1>1, <2>1
  <2> QED BY <2>2 DEF ConvertForLitellm, Spread, Flat, Each
<1>5. "chat" \in Wires /\ "anthropic" \in Wires
  BY DEF Wires
<1> QED BY <1>2, <1>3, <1>4, <1>5, FlatType, FlatTurns

\* What the outputs among some items tell.
TellsAny(items, x) == \E y \in ToSet(items) : Tells("responses", y, x)

\* Two bodies tell what each of them tells.
LEMMA TellsMore ==
  ASSUME NEW s \in Seq(Items), NEW t \in Seq(Items), NEW x
  PROVE  TellsAny(s \o t, x) <=> TellsAny(s, x) \/ TellsAny(t, x)
BY ConcatSet DEF TellsAny

\* An empty body tells nothing, a body of one item what the item tells.
LEMMA TellsNone ==
  ASSUME NEW x
  PROVE  ~TellsAny(<<>>, x) /\ \A y : TellsAny(<<y>>, x) <=> Tells("responses", y, x)
BY DEF TellsAny, ToSet

\* The words held back tell nothing.
LEMMA FlushTells ==
  ASSUME NEW role \in {"user", "assistant"}, NEW acc \in Holding, NEW x
  PROVE  TellsAny(Flushed(role, acc), x) <=> TellsAny(acc.items, x)
<1> DEFINE y == MessageItem(role, Joined(acc.texts))
<1>1. acc.items \in Seq(Items) /\ acc.texts \in Seq(Blocks)
  BY HoldingParts
<1>2. Joined(acc.texts) \in Says
  BY <1>1, JoinedIs
<1>3. y \in MessageItems /\ y \in Items /\ ~IsOutput(y)
  BY <1>2 DEF MessageItem, MessageItems, Items, IsOutput
<1>4. Flushed(role, acc) = acc.items \/ Flushed(role, acc) = Append(acc.items, y)
  BY DEF Flushed
<1> HIDE DEF y
<1>5. ~Tells("responses", y, x)
  BY <1>3, TellsIs
<1>6. ToSet(Append(acc.items, y)) = ToSet(acc.items) \cup {y}
  BY <1>1, <1>3, AppendSet
<1> QED BY <1>4, <1>5, <1>6 DEF TellsAny

\* The items of a block tell its result, if it is one.
LEMMA BlockTells ==
  ASSUME NEW b \in Blocks, NEW x
  PROVE  /\ ItemsOf(b) \in Seq(Items)
         /\ TellsAny(ItemsOf(b), x) <=> b \in ResultBlocks /\ x = As(b, Flatter)
<1>1. /\ ItemsOf(b) \in Seq(Items)
      /\ b \in UseBlocks => ItemsOf(b) = <<CallItem(b.id, b.args)>>
      /\ b \in ResultBlocks => ItemsOf(b) = <<OutputItem(b.id, Flattened(b.form))>>
      /\ b \notin UseBlocks \cup ResultBlocks => ItemsOf(b) = <<>>
  BY ItemsOfBlock
<1>2. CASE b \in ResultBlocks
  <2> DEFINE y == OutputItem(b.id, Flattened(b.form))
  <2>1. IsOutput(y) /\ y.id = b.id /\ y.form = Flattened(b.form)
    BY DEF OutputItem, IsOutput
  <2>2. As(b, Flatter) = Result(b.id, Flattened(b.form))
    BY <1>2, TameOnes
  <2> HIDE DEF y
  <2>3. ItemsOf(b) = <<y>>
    BY <1>1, <1>2 DEF y
  <2>4. Tells("responses", y, x) <=> x = Result(b.id, Flattened(b.form))
    BY <2>1, TellsIs
  <2> QED BY <1>1, <1>2, <2>2, <2>3, <2>4, TellsNone
<1>3. CASE b \in UseBlocks
  <2> DEFINE y == CallItem(b.id, b.args)
  <2>1. ~IsOutput(y)
    BY DEF CallItem, IsOutput
  <2> HIDE DEF y
  <2>2. ItemsOf(b) = <<y>>
    BY <1>1, <1>3 DEF y
  <2>3. ~Tells("responses", y, x)
    BY <2>1, TellsIs
  <2>4. b \notin ResultBlocks
    BY <1>3, QuietBlocks
  <2> QED BY <1>1, <2>2, <2>3, <2>4, TellsNone
<1>4. CASE b \notin UseBlocks \cup ResultBlocks
  BY <1>1, <1>4, TellsNone
<1> QED BY <1>2, <1>3, <1>4

\* The items of a content tell its results.
LEMMA ItemsTell ==
  ASSUME NEW role \in {"user", "assistant"}, NEW s \in Seq(Blocks), NEW x
  PROVE  TellsAny(Flushed(role, Holds(role, s)), x) <=> \E r \in ToSet(s) : r \in ResultBlocks /\ x = As(r, Flatter)
<1> DEFINE told(t) == \E r \in ToSet(t) : r \in ResultBlocks /\ x = As(r, Flatter)
           S == {t \in Seq(Blocks) : TellsAny(Flushed(role, Holds(role, t)), x) <=> told(t)}
<1>1. /\ Holds(role, <<>>) = Held(<<>>, <<>>)
      /\ \A t \in Seq(Blocks) : Holds(role, t) \in Holding
      /\ \A t \in Seq(Blocks), b \in Blocks :
           Holds(role, Append(t, b)) =
             IF b.type = "text" THEN Held(Holds(role, t).items, Append(Holds(role, t).texts, b))
             ELSE Held(Flushed(role, Holds(role, t)) \o ItemsOf(b), <<>>)
  BY HoldsSteps
<1>2. <<>> \in S
  <2>1. TellsAny(Flushed(role, Holds(role, <<>>)), x) <=> TellsAny(Holds(role, <<>>).items, x)
    <3> DEFINE acc == Holds(role, <<>>)
    <3>1. <<>> \in Seq(Blocks)
      OBVIOUS
    <3>2. acc \in Holding
      BY <1>1, <3>1
    <3> HIDE DEF acc
    <3>3. TellsAny(Flushed(role, acc), x) <=> TellsAny(acc.items, x)
      BY <3>2, FlushTells
    <3> QED BY <3>3 DEF acc
  <2>2. Holds(role, <<>>).items = <<>>
    BY <1>1, HeldParts
  <2>3. ~told(<<>>)
    BY DEF ToSet
  <2> QED BY <2>1, <2>2, <2>3, TellsNone
<1>3. ASSUME NEW t \in S, NEW b \in Blocks PROVE Append(t, b) \in S
  <2>1. Append(t, b) \in Seq(Blocks) /\ ToSet(Append(t, b)) = ToSet(t) \cup {b} /\ t \in Seq(Blocks)
    BY AppendSet
  <2>2. told(Append(t, b)) <=> told(t) \/ (b \in ResultBlocks /\ x = As(b, Flatter))
    BY <2>1
  <2>3. TellsAny(Flushed(role, Holds(role, t)), x) <=> told(t)
    OBVIOUS
  <2> HIDE DEF told
  <2>4. CASE b \in TextBlocks
    <3>1. b.type = "text" /\ b \notin ResultBlocks
      BY <2>4, BlockTypes, QuietBlocks
    <3>2. Holds(role, Append(t, b)) = Held(Holds(role, t).items, Append(Holds(role, t).texts, b))
      BY <1>1, <2>1, <3>1
    <3>3. Holds(role, Append(t, b)).items = Holds(role, t).items
      BY <3>2, HeldParts
    <3>4. /\ TellsAny(Flushed(role, Holds(role, t)), x) <=> TellsAny(Holds(role, t).items, x)
          /\ TellsAny(Flushed(role, Holds(role, Append(t, b))), x) <=> TellsAny(Holds(role, Append(t, b)).items, x)
      BY <1>1, <2>1, FlushTells
    <3> QED BY <2>1, <2>2, <2>3, <3>1, <3>3, <3>4
  <2>5. CASE b \notin TextBlocks
    <3>1. Flushed(role, Holds(role, Append(t, b))) = Flushed(role, Holds(role, t)) \o ItemsOf(b)
      BY <2>1, <2>5, ItemsNext
    <3>2. Flushed(role, Holds(role, t)) \in Seq(Items)
      BY <1>1, <2>1, FlushedType
    <3>3. ItemsOf(b) \in Seq(Items) /\ (TellsAny(ItemsOf(b), x) <=> b \in ResultBlocks /\ x = As(b, Flatter))
      BY BlockTells
    <3>4. TellsAny(Flushed(role, Holds(role, Append(t, b))), x) <=>
            TellsAny(Flushed(role, Holds(role, t)), x) \/ TellsAny(ItemsOf(b), x)
      BY <3>1, <3>2, <3>3, TellsMore
    <3> QED BY <2>1, <2>2, <2>3, <3>3, <3>4
  <2> QED BY <2>4, <2>5
<1> HIDE DEF told
<1>4. S \in SUBSET Seq(Blocks)
  OBVIOUS
<1> HIDE DEF S
<1>5. S = Seq(Blocks)
  BY <1>2, <1>3, <1>4, SeqInd
<1>6. s \in S
  BY <1>5
<1> QED BY <1>6 DEF S, told

\* One message of any, to a provider of the Responses format.
ItemsAny == [m \in Messages |-> ContentToItems(m)]

\* A conversation told as items carries its results, lists flattened.
LEMMA ItemsResults ==
  ASSUME NEW ms \in Seq(Messages)
  PROVE  /\ AnthropicToItems(ms) \in Seq(Items)
         /\ Carries(Delivered("responses", AnthropicToItems(ms)), Delivered("anthropic", ms), Flatter)
<1> DEFINE f == ItemsAny
<1>1. \A m \in Messages : f[m] = ContentToItems(m)
  BY DEF ItemsAny
<1>2. ASSUME NEW m \in Messages
      PROVE  f[m] \in Seq(Items) /\ Turns("responses", f[m], "anthropic", m, Flatter)
  <2>1. m.role \in {"user", "assistant"} /\ m.content \in Seq(Blocks)
    BY MessageShape
  <2>2. f[m] = Flushed(m.role, Holds(m.role, m.content))
    BY <1>1, ContentToItemsFold
  <2>3. f[m] \in Seq(Items)
    BY <2>1, <2>2, HoldsSteps, FlushedType
  <2>4. \A x : TellsAny(f[m], x) <=> \E r \in ToSet(m.content) : r \in ResultBlocks /\ x = As(r, Flatter)
    BY <2>1, <2>2, ItemsTell
  <2>5. ToSet(Results(m.content)) = ToSet(m.content) \cap ResultBlocks
    BY <2>1, OfTypeTypes
  <2>6. \A r : Tells("anthropic", m, r) <=> r \in ToSet(m.content) /\ r \in ResultBlocks
    BY <2>5, TellsIs
  <2> QED BY <2>3, <2>4, <2>6 DEF Turns, TellsAny
<1>3. Maps(f, Messages, Seq(Items))
  <2>1. \A m \in Messages : f[m] \in Seq(Items)
    BY <1>2
  <2> QED BY <2>1 DEF Maps, ItemsAny
<1> HIDE DEF f
<1>4. \A m \in ToSet(ms) : Turns("responses", f[m], "anthropic", m, Flatter)
  <2>1. ToSet(ms) \subseteq Messages
    BY ElementsOf
  <2> QED BY <1>2, <2>1
<1>5. AnthropicToItems(ms) = Flat(f, ms)
  <2>1. \A i \in DOMAIN ms : ms[i] \in Messages
    BY PlacesOf
  <2>2. [i \in DOMAIN ms |-> ContentToItems(ms[i])] = [i \in DOMAIN ms |-> f[ms[i]]]
    BY <1>1, <2>1
  <2> QED BY <2>2 DEF AnthropicToItems, Spread, Flat, Each
<1>6. "responses" \in Wires /\ "anthropic" \in Wires
  BY DEF Wires
<1> QED BY <1>3, <1>4, <1>5, <1>6, FlatType, FlatTurns

\* What a compressor makes of a form, of the client's own blocks or of Chat messages.
Squeeze(shrinks) == [form \in Forms |-> Crushed(Flattened(form), shrinks)]
Crush(shrinks) == [form \in Forms |-> Crushed(form, shrinks)]

\* The two ways a form changes by compression are tame.
LEMMA TameSqueezes ==
  ASSUME NEW shrinks
  PROVE  /\ Tame(Squeeze(shrinks), TRUE) /\ Tame(Crush(shrinks), TRUE)
         /\ \A form \in Forms : /\ Squeeze(shrinks)[form] = Crushed(Flattened(form), shrinks)
                               /\ Crush(shrinks)[form] = Crushed(form, shrinks)
                               /\ Crushed(Flattened(form), shrinks) \in Forms /\ Crushed(form, shrinks) \in Forms
         /\ \A r \in ResultBlocks : /\ As(r, Squeeze(shrinks)) = Result(r.id, Crushed(Flattened(r.form), shrinks))
                                    /\ As(r, Crush(shrinks)) = Result(r.id, Crushed(r.form, shrinks))
<1>1. \A form \in Forms : Crushed(form, shrinks) \in Forms /\ Crushed(Flattened(form), shrinks) \in Forms
  BY DEF Crushed, Flattened, Forms
<1>2. Maps(Squeeze(shrinks), Forms, Forms) /\ Maps(Crush(shrinks), Forms, Forms)
  BY <1>1 DEF Maps, Squeeze, Crush
<1>3. \A form \in Forms : /\ Squeeze(shrinks)[form] = Crushed(Flattened(form), shrinks)
                         /\ Crush(shrinks)[form] = Crushed(form, shrinks)
  BY DEF Squeeze, Crush
<1>4. Lists \subseteq Forms /\ "long" \in Forms /\ "crushed" \in Forms /\ "digest" \in Forms
  BY DEF Lists, Forms
<1>5. /\ \A form \in Lists : /\ Crushed(Flattened(form), shrinks) \in Lists \cup {"digest"}
                             /\ Crushed(form, shrinks) \in Lists \cup {"digest"}
      /\ \A form \in {"crushed", "digest"} : /\ Crushed(Flattened(form), shrinks) = form
                                            /\ Crushed(form, shrinks) = form
      /\ Crushed(Flattened("long"), shrinks) \in {"long", "crushed"} /\ Crushed("long", shrinks) \in {"long", "crushed"}
  BY DEF Lists, Flattened, Crushed
<1>6. Tame(Squeeze(shrinks), TRUE) /\ Tame(Crush(shrinks), TRUE)
  BY <1>2, <1>3, <1>4, <1>5 DEF Tame
<1>7. \A r \in ResultBlocks : r.form \in Forms
  BY BlockShapes
<1> QED BY <1>1, <1>3, <1>6, <1>7 DEF As

\* The tool messages a compressor is given for some results.
Returned(ts, R) ==
  /\ \A t \in ToSet(ts) : \E r \in R : t.id = r.id /\ Flattened(t.form) = Flattened(r.form)
  /\ \A r \in R : \E t \in ToSet(ts) : t.id = r.id

\* What is written back over a result is its own, if it is the only one of its call.
LEMMA SwappedOwn ==
  ASSUME NEW D, NEW ts \in Seq(D), NEW R, OneOfEach(R), Returned(ts, R), NEW r \in R, NEW shrinks
  PROVE  Swap(FormsById(ts, shrinks), r.id, r.form) = Crushed(Flattened(r.form), shrinks)
<1> DEFINE id == r.id
           last(c) == SelectLastInSeq(ts, LAMBDA t : t.id = c)
           I == {i \in 1..Len(ts) : ts[i].id = id}
           forms == FormsById(ts, shrinks)
<1>1. Len(ts) \in Nat /\ DOMAIN ts = 1..Len(ts)
  OBVIOUS
<1>2. I # {}
  BY <1>1 DEF Returned, ToSet
<1>3. Max(I) \in I
  BY <1>1, <1>2, LastOfSome
<1>4. last(id) = Max(I)
  BY <1>2 DEF SelectLastInSeq
<1>5. id \in ToSet(Ids(ts))
  <2>1. PICK i \in 1..Len(ts) : ts[i].id = id
    BY <1>2
  <2>2. DOMAIN Ids(ts) = 1..Len(ts) /\ Ids(ts)[i] = id
    BY <1>1, <2>1 DEF Ids
  <2> QED BY <2>2 DEF ToSet
<1>6. forms = [c \in ToSet(Ids(ts)) |-> Crushed(Flattened(ts[last(c)].form), shrinks)]
  BY DEF FormsById
<1> DEFINE k == Max(I)
<1>7. DOMAIN forms = ToSet(Ids(ts)) /\ forms[id] = Crushed(Flattened(ts[last(id)].form), shrinks)
  BY <1>5, <1>6
<1> HIDE DEF forms, last
<1>8. ts[k] \in ToSet(ts) /\ ts[k].id = id
  <2>1. k \in DOMAIN ts /\ ts[k].id = id
    BY <1>1, <1>3
  <2> HIDE DEF k
  <2> QED BY <2>1 DEF ToSet
<1> HIDE DEF k
<1>9. PICK s \in R : ts[k].id = s.id /\ Flattened(ts[k].form) = Flattened(s.form)
  BY <1>8 DEF Returned
<1>10. s = r
  BY <1>8, <1>9 DEF OneOfEach
<1> QED BY <1>4, <1>5, <1>7, <1>9, <1>10 DEF Swap, forms, k

\* Flattening twice is flattening.
LEMMA FlatTwice == \A form : Flattened(Flattened(form)) = Flattened(form)
BY DEF Flattened

\* The compressed body of each format.
LEMMA CrushedChat ==
  ASSUME NEW body \in Seq(ChatThings), NEW shrinks
  PROVE  Carries(Delivered("chat", CompressChat(body, shrinks)), Delivered("chat", body), Crush(shrinks))
<1> DEFINE f == [y \in ChatThings |-> IF y.role = "tool" THEN ToolMessage(y.id, Crushed(y.form, shrinks)) ELSE y]
<1>1. ASSUME NEW y \in ChatThings
      PROVE  /\ f[y] \in ChatThings
             /\ \A x : Tells("chat", f[y], x) <=> \E r : Tells("chat", y, r) /\ x = As(r, Crush(shrinks))
  <2>1. CASE y \in ToolMessages
    <3> DEFINE r == Result(y.id, y.form)
               b == Result(y.id, Crushed(y.form, shrinks))
               z == ToolMessage(y.id, Crushed(y.form, shrinks))
    <3>1. y.id \in STRING /\ y.form \in Forms /\ y.role = "tool"
      BY <2>1 DEF ToolMessages
    <3>2. Crushed(y.form, shrinks) \in Forms
      BY <3>1, TameSqueezes
    <3>3. f[y] = z
      BY <3>1
    <3>4. z \in ChatThings /\ z.role = "tool" /\ z.id = y.id /\ z.form = Crushed(y.form, shrinks)
      BY <3>1, <3>2 DEF ToolMessage, ToolMessages, ChatThings
    <3>5. r \in ResultBlocks /\ r.id = y.id /\ r.form = y.form
      BY <3>1 DEF Result, ResultBlocks
    <3>6. As(r, Crush(shrinks)) = b
      BY <3>5, TameSqueezes
    <3> HIDE DEF r, b, z, f
    <3>7. \A x : Tells("chat", f[y], x) <=> x = b
      BY <3>3, <3>4, TellsIs DEF b
    <3>8. \A x : Tells("chat", y, x) <=> x = r
      BY <3>1, TellsIs DEF r
    <3> QED BY <3>3, <3>4, <3>6, <3>7, <3>8
  <2>2. CASE y \in ChatMessages
    <3>1. y.role # "tool"
      BY <2>2 DEF ChatMessages
    <3>2. f[y] = y
      BY <3>1
    <3> HIDE DEF f
    <3> QED BY <3>1, <3>2, TellsIs
  <2> QED BY <2>1, <2>2 DEF ChatThings
<1>2. Maps(f, ChatThings, ChatThings)
  BY <1>1 DEF Maps
<1>3. CompressChat(body, shrinks) = Each(f, body)
  <2>1. \A i \in DOMAIN body : body[i] \in ChatThings
    BY PlacesOf
  <2> QED BY <2>1 DEF CompressChat, Each
<1> HIDE DEF f
<1>4. ToSet(body) \subseteq ChatThings /\ "chat" \in Wires
  BY ElementsOf DEF Wires
<1>5. \A y \in ToSet(body) : \A x : Tells("chat", f[y], x) <=> \E r : Tells("chat", y, r) /\ x = As(r, Crush(shrinks))
  BY <1>1, <1>4
<1> QED BY <1>2, <1>3, <1>4, <1>5, EachTurns

\* A compressed Responses body carries its results.
LEMMA CrushedItems ==
  ASSUME NEW items \in Seq(Items), OneOfEach(Delivered("responses", items)), NEW shrinks
  PROVE  Carries(Delivered("responses", CompressResponses(items, shrinks)), Delivered("responses", items), Squeeze(shrinks))
<1> DEFINE R == Delivered("responses", items)
           P == {i \in DOMAIN items : IsOutput(items[i])}
           ts == At(items, P)
           forms == FormsById(ts, shrinks)
           f == [y \in Items |-> IF y \in OutputItems THEN OutputItem(y.id, Crushed(Flattened(y.form), shrinks)) ELSE y]
<1>1. "responses" \in Wires
  BY DEF Wires
<1>2. \A y \in Items : IsOutput(y) <=> y \in OutputItems
  BY ItemTypes DEF IsOutput
<1>3. ts = Only(items, OutputItems)
  <2>1. \A i \in DOMAIN items : i \in P <=> items[i] \in OutputItems
    <3>1. \A i \in DOMAIN items : items[i] \in Items
      BY PlacesOf
    <3> QED BY <1>2, <3>1
  <2> HIDE DEF P
  <2> QED BY <2>1, OnlyIs
<1> HIDE DEF P, ts
<1>4. ts \in Seq(Items) /\ ToSet(ts) = ToSet(items) \cap OutputItems
  BY <1>3, OnlyType, OnlySet
<1>5. ToSet(items) \subseteq Items
  BY ElementsOf
<1>6. \A x : x \in R <=> \E y \in ToSet(ts) : x = Result(y.id, y.form)
  <2>1. \A x : x \in R <=> \E y \in ToSet(items) : IsOutput(y) /\ x = Result(y.id, y.form)
    BY <1>1, DeliveredIs, TellsIs
  <2> HIDE DEF R
  <2> QED BY <1>2, <1>4, <1>5, <2>1
<1>7. OneOfEach(R)
  OBVIOUS
<1> HIDE DEF R
<1>8. \A y \in ToSet(ts) : /\ Result(y.id, y.form) \in R /\ Result(y.id, y.form).id = y.id
                           /\ Result(y.id, y.form).form = y.form
  BY <1>6 DEF Result
<1>9. Returned(ts, R)
  <2>1. \A t \in ToSet(ts) : \E r \in R : t.id = r.id /\ Flattened(t.form) = Flattened(r.form)
    <3> TAKE t \in ToSet(ts)
    <3> DEFINE r == Result(t.id, t.form)
    <3>1. r \in R /\ r.id = t.id /\ r.form = t.form
      BY <1>8
    <3> HIDE DEF r
    <3> QED BY <3>1
  <2>2. \A r \in R : \E t \in ToSet(ts) : t.id = r.id
    BY <1>6, <1>8
  <2> QED BY <2>1, <2>2 DEF Returned
<1>10. \A y \in ToSet(ts) : Swap(forms, y.id, y.form) = Crushed(Flattened(y.form), shrinks)
  <2> TAKE y \in ToSet(ts)
  <2> DEFINE r == Result(y.id, y.form)
  <2>1. r \in R /\ r.id = y.id /\ r.form = y.form
    BY <1>8
  <2> HIDE DEF r
  <2>2. Swap(forms, r.id, r.form) = Crushed(Flattened(r.form), shrinks)
    BY <1>4, <1>7, <1>9, <2>1, SwappedOwn
  <2> QED BY <2>1, <2>2
<1>11. CompressResponses(items, shrinks) = [i \in DOMAIN items |->
         IF IsOutput(items[i]) THEN OutputItem(items[i].id, Swap(forms, items[i].id, items[i].form)) ELSE items[i]]
  BY DEF CompressResponses, ts, P
<1> HIDE DEF forms
<1>12. CompressResponses(items, shrinks) = Each(f, items)
  <2>1. ASSUME NEW i \in DOMAIN items
        PROVE  f[items[i]] = IF IsOutput(items[i])
                             THEN OutputItem(items[i].id, Swap(forms, items[i].id, items[i].form)) ELSE items[i]
    <3> DEFINE y == items[i]
    <3>1. y \in Items /\ y \in ToSet(items)
      BY PlacesOf, ElementsOf
    <3> HIDE DEF y
    <3>2. CASE y \in OutputItems
      <4>1. Swap(forms, y.id, y.form) = Crushed(Flattened(y.form), shrinks)
        BY <1>4, <1>10, <3>1, <3>2
      <4> QED BY <1>2, <3>1, <3>2, <4>1 DEF y
    <3>3. CASE y \notin OutputItems
      BY <1>2, <3>1, <3>3 DEF y
    <3> QED BY <3>2, <3>3
  <2> HIDE DEF f
  <2> QED BY <1>11, <2>1 DEF Each
<1>13. ASSUME NEW y \in Items
       PROVE  /\ f[y] \in Items
              /\ \A x : Tells("responses", f[y], x) <=> \E r : Tells("responses", y, r) /\ x = As(r, Squeeze(shrinks))
  <2>1. CASE y \in OutputItems
    <3> DEFINE r == Result(y.id, y.form)
               b == Result(y.id, Crushed(Flattened(y.form), shrinks))
               z == OutputItem(y.id, Crushed(Flattened(y.form), shrinks))
    <3>1. y.id \in STRING /\ y.form \in Forms /\ IsOutput(y)
      BY <1>2, <2>1 DEF OutputItems
    <3>2. Crushed(Flattened(y.form), shrinks) \in Forms
      BY <3>1, TameSqueezes
    <3>3. f[y] = z
      BY <2>1
    <3>4. z \in Items /\ IsOutput(z) /\ z.id = y.id /\ z.form = Crushed(Flattened(y.form), shrinks)
      BY <3>1, <3>2 DEF OutputItem, OutputItems, Items, IsOutput
    <3>5. r \in ResultBlocks /\ r.id = y.id /\ r.form = y.form
      BY <3>1 DEF Result, ResultBlocks
    <3>6. As(r, Squeeze(shrinks)) = b
      BY <3>5, TameSqueezes
    <3> HIDE DEF r, b, z, f
    <3>7. \A x : Tells("responses", f[y], x) <=> x = b
      BY <3>3, <3>4, TellsIs DEF b
    <3>8. \A x : Tells("responses", y, x) <=> x = r
      BY <3>1, TellsIs DEF r
    <3> QED BY <3>3, <3>4, <3>6, <3>7, <3>8
  <2>2. CASE y \notin OutputItems
    <3>1. ~IsOutput(y)
      BY <1>2, <2>2
    <3>2. f[y] = y
      BY <2>2
    <3> HIDE DEF f
    <3> QED BY <3>1, <3>2, TellsIs
  <2> QED BY <2>1, <2>2
<1>14. Maps(f, Items, Items)
  BY <1>13 DEF Maps
<1> HIDE DEF f
<1>15. \A y \in ToSet(items) : \A x :
         Tells("responses", f[y], x) <=> \E r : Tells("responses", y, r) /\ x = As(r, Squeeze(shrinks))
  BY <1>5, <1>13
<1> QED BY <1>1, <1>12, <1>14, <1>15, EachTurns

\* The compressed blocks of a client.
LEMMA CrushedMessages ==
  ASSUME NEW ms \in Seq(Messages), OneOfEach(Delivered("anthropic", ms)), NEW shrinks
  PROVE  Carries(Delivered("anthropic", CompressAnthropic(ms, shrinks)), Delivered("anthropic", ms), Squeeze(shrinks))
<1> DEFINE R == Delivered("anthropic", ms)
           chat == ConvertForLitellm(ms)
           P == {i \in DOMAIN chat : chat[i].role = "tool"}
           ts == At(chat, P)
           forms == FormsById(ts, shrinks)
           f == [b \in Blocks |-> IF b \in ResultBlocks THEN As(b, Squeeze(shrinks)) ELSE b]
           F == [m \in Messages |-> Message(m.role, Each(f, m.content))]
<1>1. "chat" \in Wires /\ "anthropic" \in Wires
  BY DEF Wires
<1>2. chat \in Seq(ChatThings) /\ Carries(Delivered("chat", chat), R, Flatter)
  BY ConvertResults
<1>3. OneOfEach(R)
  OBVIOUS
<1>4. \A x : x \in R <=> \E m \in ToSet(ms) : x \in ToSet(Results(m.content))
  BY <1>1, DeliveredIs, TellsIs
<1> HIDE DEF R, chat
<1>5. ts = Only(chat, ToolMessages)
  <2>1. \A y \in ChatThings : y.role = "tool" <=> y \in ToolMessages
    BY DEF ChatThings, ChatMessages, ToolMessages
  <2>2. \A i \in DOMAIN chat : chat[i] \in ChatThings
    BY <1>2, PlacesOf
  <2>3. \A i \in DOMAIN chat : i \in P <=> chat[i] \in ToolMessages
    BY <2>1, <2>2
  <2> HIDE DEF P
  <2> QED BY <1>2, <2>3, OnlyIs
<1> HIDE DEF ts, P
<1>6. ts \in Seq(ChatThings) /\ ToSet(ts) = ToSet(chat) \cap ToolMessages
  BY <1>2, <1>5, OnlyType, OnlySet
<1>7. \A x : x \in Delivered("chat", chat) <=> \E y \in ToSet(ts) : x = Result(y.id, y.form)
  <2>1. \A x : x \in Delivered("chat", chat) <=> \E y \in ToSet(chat) : y.role = "tool" /\ x = Result(y.id, y.form)
    BY <1>1, <1>2, DeliveredIs, TellsIs
  <2>2. \A y \in ToSet(chat) : y.role = "tool" <=> y \in ToolMessages
    <3>1. ToSet(chat) \subseteq ChatThings
      BY <1>2, ElementsOf
    <3>2. \A y \in ChatThings : y.role = "tool" <=> y \in ToolMessages
      BY DEF ChatThings, ChatMessages, ToolMessages
    <3> QED BY <3>1, <3>2
  <2> QED BY <1>6, <2>1, <2>2
<1>8. \A r \in R : r \in ResultBlocks /\ As(r, Flatter) = Result(r.id, Flattened(r.form))
  BY <1>3, TameOnes DEF OneOfEach
<1>9. \A y \in ToSet(ts) : Result(y.id, y.form).id = y.id /\ Result(y.id, y.form).form = y.form
  BY DEF Result
<1>10. \A r \in R : As(r, Flatter).id = r.id /\ As(r, Flatter).form = Flattened(r.form)
  BY <1>8 DEF Result
<1>11. \A t \in ToSet(ts) : \E r \in R : t.id = r.id /\ Flattened(t.form) = Flattened(r.form)
  <2> TAKE t \in ToSet(ts)
  <2>1. Result(t.id, t.form) \in Delivered("chat", chat)
    BY <1>7
  <2>2. PICK r \in R : Result(t.id, t.form) = As(r, Flatter)
    BY <1>2, <2>1 DEF Carries
  <2>3. t.id = r.id /\ t.form = Flattened(r.form)
    BY <1>9, <1>10, <2>2
  <2> QED BY <2>3, FlatTwice
<1>12. \A r \in R : \E t \in ToSet(ts) : t.id = r.id
  <2> TAKE r \in R
  <2>1. As(r, Flatter) \in Delivered("chat", chat)
    BY <1>2 DEF Carries
  <2>2. PICK t \in ToSet(ts) : As(r, Flatter) = Result(t.id, t.form)
    BY <1>7, <2>1
  <2> QED BY <1>9, <1>10, <2>2
<1>13. Returned(ts, R)
  BY <1>11, <1>12 DEF Returned
<1>14. \A r \in R : Swap(forms, r.id, r.form) = Crushed(Flattened(r.form), shrinks)
  BY <1>3, <1>6, <1>13, SwappedOwn
<1>15. CompressAnthropic(ms, shrinks) =
         [i \in DOMAIN ms |-> Message(ms[i].role, [j \in DOMAIN ms[i].content |->
            IF ms[i].content[j].type = "tool_result"
            THEN Result(ms[i].content[j].id, Swap(forms, ms[i].content[j].id, ms[i].content[j].form))
            ELSE ms[i].content[j]])]
  BY DEF CompressAnthropic, ts, P, chat
<1> HIDE DEF forms
<1>16. /\ Maps(f, Blocks, Blocks)
       /\ \A b \in ResultBlocks : f[b] = As(b, Squeeze(shrinks)) /\ f[b] \in ResultBlocks
       /\ \A b \in Blocks \ ResultBlocks : f[b] = b /\ f[b] \notin ResultBlocks
  <2>1. Maps(Squeeze(shrinks), Forms, Forms)
    BY TameSqueezes DEF Tame
  <2>2. \A b \in ResultBlocks : As(b, Squeeze(shrinks)) \in ResultBlocks
    BY <2>1, AsParts
  <2>3. ResultBlocks \subseteq Blocks
    BY DEF Blocks
  <2>4. \A b \in Blocks : f[b] \in Blocks
    BY <2>2, <2>3
  <2> QED BY <2>2, <2>3, <2>4 DEF Maps
<1> HIDE DEF f
<1>17. ASSUME NEW m \in Messages
       PROVE  /\ F[m] = Message(m.role, Each(f, m.content)) /\ F[m] \in Messages
              /\ ToSet(Results(F[m].content)) = {As(r, Squeeze(shrinks)) : r \in ToSet(Results(m.content))}
  <2> DEFINE c == m.content
             d == Each(f, c)
  <2>1. c \in Seq(Blocks) /\ m.role \in {"user", "assistant"}
    BY MessageShape
  <2>2. F[m] = Message(m.role, d)
    OBVIOUS
  <2> HIDE DEF c
  <2>3. d \in Seq(Blocks) /\ ToSet(d) = {f[b] : b \in ToSet(c)}
    BY <1>16, <2>1, EachType, EachSet
  <2> HIDE DEF d
  <2>4. Message(m.role, d) \in Messages /\ Message(m.role, d).content = d
    BY <2>1, <2>3, MessageParts
  <2>5. ToSet(Results(d)) = ToSet(d) \cap ResultBlocks /\ ToSet(Results(c)) = ToSet(c) \cap ResultBlocks
    BY <2>1, <2>3, OfTypeTypes
  <2>6. ToSet(c) \subseteq Blocks
    BY <2>1, ElementsOf
  <2>7. ToSet(d) \cap ResultBlocks = {f[b] : b \in ToSet(c) \cap ResultBlocks}
    BY <1>16, <2>3, <2>6
  <2>8. {f[b] : b \in ToSet(c) \cap ResultBlocks} = {As(b, Squeeze(shrinks)) : b \in ToSet(c) \cap ResultBlocks}
    BY <1>16
  <2> QED BY <2>2, <2>4, <2>5, <2>7, <2>8 DEF c, d
<1>18. Maps(F, Messages, Messages)
  BY <1>17 DEF Maps
<1>19. CompressAnthropic(ms, shrinks) = Each(F, ms)
  <2>1. ASSUME NEW i \in DOMAIN ms
        PROVE  F[ms[i]] = Message(ms[i].role, [j \in DOMAIN ms[i].content |->
                 IF ms[i].content[j].type = "tool_result"
                 THEN Result(ms[i].content[j].id, Swap(forms, ms[i].content[j].id, ms[i].content[j].form))
                 ELSE ms[i].content[j]])
    <3> DEFINE m == ms[i]
               c == m.content
    <3>1. m \in Messages /\ m \in ToSet(ms)
      BY PlacesOf, ElementsOf
    <3>2. c \in Seq(Blocks)
      BY <3>1, MessageShape
    <3>3. F[m] = Message(m.role, Each(f, c))
      BY <1>17, <3>1
    <3>4. \A b \in ToSet(c) : b \in ResultBlocks => b \in R
      <4>1. ToSet(Results(c)) = ToSet(c) \cap ResultBlocks
        BY <3>2, OfTypeTypes
      <4> QED BY <1>4, <3>1, <4>1
    <3> HIDE DEF m, F
    <3>5. ASSUME NEW j \in DOMAIN c
          PROVE  f[c[j]] = IF c[j].type = "tool_result" THEN Result(c[j].id, Swap(forms, c[j].id, c[j].form)) ELSE c[j]
      <4> DEFINE b == c[j]
      <4> HIDE DEF c
      <4>1. b \in Blocks /\ b \in ToSet(c)
        BY <3>2, PlacesOf, ElementsOf
      <4>2. b.type = "tool_result" <=> b \in ResultBlocks
        BY <4>1, BlockTypes
      <4> HIDE DEF b
      <4>3. CASE b \in ResultBlocks
        <5>1. Swap(forms, b.id, b.form) = Crushed(Flattened(b.form), shrinks)
          BY <1>14, <3>4, <4>1, <4>3
        <5>2. f[b] = Result(b.id, Crushed(Flattened(b.form), shrinks))
          BY <1>16, <4>3, TameSqueezes
        <5> QED BY <4>2, <4>3, <5>1, <5>2 DEF b
      <4>4. CASE b \notin ResultBlocks
        BY <1>16, <4>1, <4>2, <4>4 DEF b
      <4> QED BY <4>3, <4>4
    <3> HIDE DEF c
    <3>6. Each(f, c) = [j \in DOMAIN c |->
            IF c[j].type = "tool_result" THEN Result(c[j].id, Swap(forms, c[j].id, c[j].form)) ELSE c[j]]
      BY <3>5 DEF Each
    <3> QED BY <3>3, <3>6 DEF c, m
  <2> HIDE DEF F
  <2> QED BY <1>15, <2>1 DEF Each
<1> HIDE DEF F
<1>20. \A m \in ToSet(ms) : \A x :
         Tells("anthropic", F[m], x) <=> \E r : Tells("anthropic", m, r) /\ x = As(r, Squeeze(shrinks))
  <2> TAKE m \in ToSet(ms)
  <2>1. m \in Messages
    BY ElementsOf
  <2>2. ToSet(Results(F[m].content)) = {As(r, Squeeze(shrinks)) : r \in ToSet(Results(m.content))}
    BY <1>17, <2>1
  <2>3. \A x : x \in ToSet(Results(F[m].content)) <=> \E r \in ToSet(Results(m.content)) : x = As(r, Squeeze(shrinks))
    BY <2>2
  <2> QED BY <2>3, TellsIs
<1>21. Carries(Delivered("anthropic", Each(F, ms)), Delivered("anthropic", ms), Squeeze(shrinks))
  BY <1>1, <1>18, <1>20, EachTurns
<1> QED BY <1>19, <1>21 DEF R

\* The bodies of each format.
BodiesOf(format) ==
  CASE format = "anthropic" -> Seq(Messages)
    [] format = "chat" -> Seq(ChatThings)
    [] format = "responses" -> Seq(Items)

\* A compressor may be one that changes nothing.
LEMMA CarriedMore ==
  ASSUME NEW R, NEW D, NEW a \in BOOLEAN, Carried(D, R, a)
  PROVE  Carried(D, R, TRUE)
<1>1. PICK g : Tame(g, a) /\ Carries(D, R, g)
  BY DEF Carried
<1>2. Tame(g, TRUE)
  BY <1>1 DEF Tame
<1> QED BY <1>1, <1>2 DEF Carried

\* What is compressed is the body itself, or carries each result as the compressor leaves it.
Change(format, shrinks) == IF format = "chat" THEN Crush(shrinks) ELSE Squeeze(shrinks)
LEMMA CompressChanges ==
  ASSUME NEW format \in Wires, NEW body \in BodiesOf(format), OneOfEach(Delivered(format, body)), NEW shrinks
  PROVE  \/ Compress(format, body, shrinks) = body
         \/ /\ \E r \in Delivered(format, body) :
                 Crushed(TextOf(format, r.form), shrinks) # TextOf(format, r.form)
            /\ Carries(Delivered(format, Compress(format, body, shrinks)), Delivered(format, body),
                       Change(format, shrinks))
<1> DEFINE R == Delivered(format, body)
           sent == Compress(format, body, shrinks)
           changed == \E r \in R : Crushed(TextOf(format, r.form), shrinks) # TextOf(format, r.form)
<1>1. \/ sent = body
      \/ changed /\ format = "anthropic" /\ sent = CompressAnthropic(body, shrinks)
      \/ changed /\ format = "chat" /\ sent = CompressChat(body, shrinks)
      \/ changed /\ format = "responses" /\ sent = CompressResponses(body, shrinks)
  BY DEF Compress, Wires
<1>2. OneOfEach(R)
  OBVIOUS
<1> HIDE DEF sent, changed
<1>4. CASE changed /\ format = "anthropic" /\ sent = CompressAnthropic(body, shrinks)
  <2>1. body \in Seq(Messages)
    BY <1>4 DEF BodiesOf
  <2>2. Carries(Delivered(format, sent), R, Squeeze(shrinks))
    BY <1>2, <1>4, <2>1, CrushedMessages
  <2> QED BY <1>4, <2>2 DEF Change, changed, sent
<1>5. CASE changed /\ format = "chat" /\ sent = CompressChat(body, shrinks)
  <2>1. body \in Seq(ChatThings)
    BY <1>5 DEF BodiesOf
  <2>2. Carries(Delivered(format, sent), R, Crush(shrinks))
    BY <1>5, <2>1, CrushedChat
  <2> QED BY <1>5, <2>2 DEF Change, changed, sent
<1>6. CASE changed /\ format = "responses" /\ sent = CompressResponses(body, shrinks)
  <2>1. body \in Seq(Items)
    BY <1>6 DEF BodiesOf
  <2>2. Carries(Delivered(format, sent), R, Squeeze(shrinks))
    BY <1>2, <1>6, <2>1, CrushedItems
  <2> QED BY <1>6, <2>2 DEF Change, changed, sent
<1> QED BY <1>1, <1>4, <1>5, <1>6 DEF sent

\* A compressed body of any format carries its results.
LEMMA CompressCarries ==
  ASSUME NEW format \in Wires, NEW body \in BodiesOf(format), OneOfEach(Delivered(format, body)), NEW shrinks
  PROVE  Carried(Delivered(format, Compress(format, body, shrinks)), Delivered(format, body), TRUE)
<1> DEFINE R == Delivered(format, body)
           sent == Compress(format, body, shrinks)
<1>1. R \in SUBSET ResultBlocks
  BY DEF OneOfEach
<1>2. sent = body \/ Carries(Delivered(format, sent), R, Change(format, shrinks))
  BY CompressChanges
<1>3. Tame(Change(format, shrinks), TRUE)
  BY TameSqueezes DEF Change
<1> HIDE DEF sent
<1>4. CASE sent = body
  <2> HIDE DEF R
  <2>1. Carried(R, R, FALSE)
    BY <1>1, CarriedSame
  <2>2. Carried(R, R, TRUE)
    BY <2>1, CarriedMore
  <2> QED BY <1>4, <2>2 DEF R, sent
<1>5. CASE Carries(Delivered(format, sent), R, Change(format, shrinks))
  BY <1>3, <1>5 DEF Carried, sent
<1> QED BY <1>2, <1>4, <1>5

\* A body is sent as it was unless some result got shorter; then one of them is.
LEMMA CompressShortens ==
  ASSUME NEW format \in Wires, NEW body \in BodiesOf(format), OneOfEach(Delivered(format, body)), NEW shrinks
  PROVE  \/ Compress(format, body, shrinks) = body
         \/ \E x \in Delivered(format, Compress(format, body, shrinks)) : x.form \in Short
<1> DEFINE R == Delivered(format, body)
           D == Delivered(format, Compress(format, body, shrinks))
           g == Change(format, shrinks)
<1>1. SUFFICES ASSUME Compress(format, body, shrinks) # body PROVE \E x \in D : x.form \in Short
  OBVIOUS
<1>2. Carries(D, R, g)
  BY <1>1, CompressChanges
<1>3. PICK r \in R : Crushed(TextOf(format, r.form), shrinks) # TextOf(format, r.form)
  BY <1>1, CompressChanges
<1>4. r \in ResultBlocks
  BY <1>3 DEF OneOfEach
<1>5. r.form \in Forms
  BY <1>4, BlockShapes
<1>6. g[r.form] = Crushed(TextOf(format, r.form), shrinks)
  BY <1>5, TameSqueezes DEF Change, TextOf
<1>7. g[r.form] \in Short
  BY <1>3, <1>6 DEF Crushed, Short
<1>8. Maps(g, Forms, Forms)
  BY TameSqueezes DEF Tame, Change
<1> HIDE DEF D, R, g
<1>9. As(r, g) \in D
  BY <1>2, <1>3 DEF Carries
<1>10. As(r, g).form = g[r.form]
  BY <1>4, <1>8, AsParts
<1> QED BY <1>7, <1>9, <1>10

\* The compressor leaves the lists of a Chat body as they are.
LEMMA ChatKeepsLists ==
  ASSUME NEW body \in BodiesOf("chat"), OneOfEach(Delivered("chat", body)), NEW shrinks,
         NEW r \in Delivered("chat", body), r.form = "rich",
         NEW d \in Delivered("chat", Compress("chat", body, shrinks)), d.id = r.id
  PROVE  d.form = "rich"
<1> DEFINE R == Delivered("chat", body)
           D == Delivered("chat", Compress("chat", body, shrinks))
           g == Change("chat", shrinks)
<1>1. D = R \/ Carries(D, R, g)
  <2>1. "chat" \in Wires
    BY DEF Wires
  <2> QED BY <2>1, CompressChanges
<1>2. Maps(g, Forms, Forms) /\ g["rich"] = "rich"
  <2>1. "rich" \in Forms /\ Crushed("rich", shrinks) = "rich"
    BY DEF Forms, Crushed
  <2> QED BY <2>1, TameSqueezes DEF Tame, Change
<1>3. OneOfEach(R) /\ r \in R /\ d \in D /\ R \in SUBSET ResultBlocks
  BY DEF OneOfEach
<1> HIDE DEF D, R, g
<1>4. CASE D = R
  BY <1>3, <1>4 DEF OneOfEach
<1>5. CASE Carries(D, R, g)
  <2>1. PICK q \in R : d = As(q, g)
    BY <1>3, <1>5 DEF Carries
  <2>2. d.id = q.id /\ d.form = g[q.form]
    BY <1>2, <1>3, <2>1, AsParts
  <2>3. q = r
    BY <1>3, <2>2 DEF OneOfEach
  <2> QED BY <1>2, <2>2, <2>3
<1> QED BY <1>1, <1>4, <1>5

\* A history brings a result of a call once, as a string or a list, and no reply brings any.
LEMMA BroughtOnce ==
  ASSUME NEW h, GoodHistory(h)
  PROVE  /\ Speaks(h) /\ OneOfEach(Delivered("anthropic", h))
         /\ \A x \in Delivered("anthropic", h) : x.form \in {"long", "rich"}
<1> DEFINE R == Delivered("anthropic", h)
<1>1. h \in Seq(Messages) /\ DOMAIN h = 1..Len(h) /\ Len(h) \in Nat
  BY PlacesOf DEF GoodHistory
<1>2. \A x : x \in R <=> \E i \in DOMAIN h : x \in ToSet(Results(h[i].content))
  BY DEF Delivered
<1> HIDE DEF R
<1>3. ASSUME NEW i \in DOMAIN h, h[i].role = "assistant" PROVE Results(h[i].content) = <<>>
  <2> DEFINE c == h[i].content
  <2>1. Replies(c) /\ h[i] \in Messages
    BY <1>3, Alternation DEF GoodMessage
  <2>2. PICK pre \in Seq(Quiet), us \in Seq(UseBlocks) : c = pre \o us
    BY <2>1 DEF Replies
  <2> HIDE DEF c
  <2>3. c \in Seq(Blocks) /\ ToSet(c) \subseteq Quiet \cup UseBlocks
    BY <2>2, ReplyParts
  <2>4. ToSet(Results(c)) = ToSet(c) \cap ResultBlocks /\ Results(c) \in Seq(Blocks)
    BY <2>3, OfTypeTypes
  <2>5. ToSet(Results(c)) = {}
    BY <2>3, <2>4, QuietBlocks
  <2> HIDE DEF c
  <2>6. Results(c) = <<>>
    BY <2>4, <2>5, SetOfNone
  <2> QED BY <2>6 DEF c
<1>4. Speaks(h)
  <2>1. ASSUME NEW m \in ToSet(h), m.role = "assistant" PROVE Results(m.content) = <<>>
    <3>1. PICK i \in DOMAIN h : m = h[i]
      BY DEF ToSet
    <3> QED BY <1>3, <2>1, <3>1
  <2> QED BY <2>1 DEF Speaks
<1>5. ASSUME NEW i \in DOMAIN h, NEW x \in ToSet(Results(h[i].content))
      PROVE  /\ x \in ResultBlocks /\ x.form \in {"long", "rich"}
             /\ i # 1 /\ x.id \in CallsIn(h[i - 1]) /\ i - 1 \in DOMAIN h
             /\ \A y \in ToSet(Results(h[i].content)) : x.id = y.id => x = y
  <2>1. /\ h[i] \in Messages /\ GoodMessage(h, i)
        /\ i # 1 => i - 1 \in DOMAIN h
    BY Alternation
  <2>2. h[i].role = "user"
    <3>1. h[i].role \in {"user", "assistant"}
      BY <2>1, MessageShape
    <3>2. ToSet(<<>>) = {}
      BY DEF ToSet
    <3>3. h[i].role # "assistant"
      BY <1>3, <1>5, <3>2
    <3> QED BY <3>1, <3>3
  <2>3. Brings(h[i].content) /\ ToSet(Ids(Results(h[i].content))) \subseteq OpenAt(h, i)
    BY <2>1, <2>2 DEF GoodMessage
  <2>4. PICK rs \in Seq(Given), ts \in {<<>>, <<Text("words")>>} : h[i].content = rs \o ts /\ IsInjective(Ids(rs))
    BY <2>3 DEF Brings
  <2>5. Results(h[i].content) = rs /\ rs \in Seq(ResultBlocks)
    BY <2>4, BringsAre
  <2>6. \A p \in DOMAIN rs : rs[p] \in Given /\ rs[p] \in ResultBlocks
    BY <2>5, PlacesOf
  <2>7. DOMAIN Ids(rs) = DOMAIN rs /\ \A p \in DOMAIN rs : Ids(rs)[p] = rs[p].id
    BY DEF Ids
  <2>8. PICK p \in DOMAIN rs : x = rs[p]
    BY <1>5, <2>5 DEF ToSet
  <2>9. x.id \in ToSet(Ids(rs))
    BY <2>7, <2>8 DEF ToSet
  <2>10. x.id \in OpenAt(h, i)
    BY <2>3, <2>5, <2>9
  <2>11. i # 1 /\ x.id \in CallsIn(h[i - 1])
    BY <2>10 DEF OpenAt
  <2>12. \A y \in ToSet(rs) : x.id = y.id => x = y
    <3> TAKE y \in ToSet(rs)
    <3>1. PICK q \in DOMAIN rs : y = rs[q]
      BY DEF ToSet
    <3>2. x.id = y.id => Ids(rs)[p] = Ids(rs)[q]
      BY <2>7, <2>8, <3>1
    <3>3. Ids(rs)[p] = Ids(rs)[q] => p = q
      BY <2>4, <2>7 DEF IsInjective
    <3> QED BY <2>8, <3>1, <3>2, <3>3
  <2>13. x \in ResultBlocks /\ x.form \in {"long", "rich"}
    BY <2>6, <2>8 DEF Given
  <2> QED BY <2>1, <2>5, <2>11, <2>12, <2>13
<1>6. \A x \in R : x \in ResultBlocks /\ x.form \in {"long", "rich"}
  BY <1>2, <1>5
<1>7. ASSUME NEW a \in R, NEW b \in R, a.id = b.id PROVE a = b
  <2>1. PICK i \in DOMAIN h : a \in ToSet(Results(h[i].content))
    BY <1>2
  <2>2. PICK j \in DOMAIN h : b \in ToSet(Results(h[j].content))
    BY <1>2
  <2>3. /\ a.id \in CallsIn(h[i - 1]) /\ i - 1 \in DOMAIN h
        /\ b.id \in CallsIn(h[j - 1]) /\ j - 1 \in DOMAIN h
    BY <1>5, <2>1, <2>2
  <2>4. i - 1 # j - 1 => CallsIn(h[i - 1]) \cap CallsIn(h[j - 1]) = {}
    BY <2>3 DEF GoodHistory
  <2>5. i - 1 = j - 1
    BY <1>7, <2>3, <2>4
  <2>6. i = j
    BY <1>1, <2>5
  <2> QED BY <1>5, <1>7, <2>1, <2>2, <2>6
<1> QED BY <1>4, <1>6, <1>7 DEF OneOfEach, R

\* The conversation of a turn, as its body tells it.
TurnOf(from) == SubSeq(hist, from, Len(hist))

\* What the body of a turn delivers: once each, the results brought last among them.
LEMMA TurnResults ==
  ASSUME Inv, hist # <<>>, Last(hist).role = "user", NEW from \in Starts
  PROVE  LET h == TurnOf(from)
             R == Delivered("anthropic", h)
         IN /\ h \in Seq(Messages) /\ Speaks(h) /\ OneOfEach(R)
            /\ R \subseteq Delivered("anthropic", hist)
            /\ BodyFrom(from) \in BodiesOf(wire) /\ Delivered(wire, BodyFrom(from)) = R
            /\ \A r \in ToSet(Results(Last(hist).content)) : r \in R /\ r.form \in {"long", "rich"}
<1> DEFINE h == TurnOf(from)
           R == Delivered("anthropic", h)
           S == Delivered("anthropic", hist)
<1>1. GoodHistory(hist) /\ hist \in Seq(Messages) /\ wire \in Wires
  BY DEF Inv, GoodHistory
<1>2. from \in 1..Len(hist)
  <2>1. from = 1 \/ from = Len(hist)
    BY StartsAre
  <2>2. Len(hist) \in Nat \ {0}
    BY <1>1, LastOf
  <2> QED BY <2>1, <2>2
<1>3. h \in Seq(Messages) /\ ToSet(h) \subseteq ToSet(hist) /\ Last(hist) \in ToSet(h)
  BY <1>1, <1>2, Suffix DEF TurnOf
<1>4. Speaks(hist) /\ OneOfEach(S) /\ \A x \in S : x.form \in {"long", "rich"}
  BY <1>1, BroughtOnce
<1> HIDE DEF h
<1>5. Speaks(h)
  BY <1>3, <1>4 DEF Speaks
<1>6. /\ \A x : x \in R <=> \E m \in ToSet(h) : x \in ToSet(Results(m.content))
      /\ \A x : x \in S <=> \E m \in ToSet(hist) : x \in ToSet(Results(m.content))
  <2>1. "anthropic" \in Wires
    BY DEF Wires
  <2> QED BY <1>1, <1>3, <2>1, DeliveredIs, TellsIs
<1> HIDE DEF R, S
<1>7. R \subseteq S
  BY <1>3, <1>6
<1>8. OneOfEach(R)
  BY <1>4, <1>7 DEF OneOfEach
<1>9. \A r \in ToSet(Results(Last(hist).content)) : r \in R /\ r.form \in {"long", "rich"}
  BY <1>3, <1>4, <1>6, <1>7
<1>10. Delivered(wire, Inbound(wire, h)) = R
  BY <1>1, <1>3, <1>5, BodyResults DEF R
<1>11. Inbound(wire, h) \in BodiesOf(wire)
  <2>1. Inbound("chat", h) \in Seq(ChatThings) /\ Inbound("responses", h) \in Seq(Items)
    BY <1>3, BodiesAre
  <2>2. Inbound("anthropic", h) \in Seq(Messages)
    BY <1>3, CleanedBody
  <2> QED BY <1>1, <2>1, <2>2 DEF Wires, BodiesOf
<1>12. BodyFrom(from) = Inbound(wire, h)
  BY DEF BodyFrom, TurnOf, h
<1> QED BY <1>3, <1>5, <1>7, <1>8, <1>9, <1>10, <1>11, <1>12 DEF h, R, S

\* What a tier is sent of the client's blocks or of a Chat body.
LEMMA RoutedCarries ==
  ASSUME NEW w \in {"anthropic", "chat"}, NEW k \in Kinds(w), NEW body \in BodiesOf(w),
         Delivered(w, body) \in SUBSET ResultBlocks
  PROVE  /\ Routed(w, k, body) \in BodiesOf(FormatOf(k)) /\ FormatOf(k) \in Wires
         /\ Carried(Delivered(FormatOf(k), Routed(w, k, body)), Delivered(w, body), FALSE)
         /\ w = "anthropic" /\ k = "direct" =>
              Delivered(FormatOf(k), Routed(w, k, body)) = Delivered(w, body)
<1> DEFINE R == Delivered(w, body)
           ms == ToAnthropic(w, body)
           T == Delivered("anthropic", ms)
           silent == StripThinking(ms)
<1>1. ms \in Seq(Messages) /\ Carried(T, R, FALSE) /\ (w = "anthropic" => T = R)
  <2>1. CASE w = "anthropic"
    <3>1. ms = body /\ body \in Seq(Messages)
      BY <2>1 DEF ToAnthropic, BodiesOf
    <3>2. T = R
      BY <2>1, <3>1
    <3> HIDE DEF R
    <3>3. Carried(R, R, FALSE)
      BY CarriedSame DEF R
    <3> QED BY <3>1, <3>2, <3>3
  <2>2. CASE w = "chat"
    <3>1. body \in Seq(ChatThings)
      BY <2>2 DEF BodiesOf
    <3> QED BY <2>2, <3>1, FromChatResults
  <2> QED BY <2>1, <2>2
<1>2. w \in Wires /\ k \in {"direct", "litellm", "anthropic_oauth", "oauth_responses"}
  BY DEF Wires, Kinds
<1>3. R \in SUBSET ResultBlocks
  OBVIOUS
<1> HIDE DEF R, ms
<1>4. silent \in Seq(Messages) /\ Delivered("anthropic", silent) = T
  BY <1>1, Stripped
<1> HIDE DEF T
<1>5. CASE k \in {"direct", "anthropic_oauth"}
  <2>1. Routed(w, k, body) = silent /\ FormatOf(k) = "anthropic"
    BY <1>5 DEF Routed, FormatOf, ms
  <2> QED BY <1>1, <1>4, <2>1 DEF BodiesOf, Wires, R
<1>6. CASE k = "litellm"
  <2>1. Routed(w, k, body) = ConvertForLitellm(silent) /\ FormatOf(k) = "chat"
    BY <1>6 DEF Routed, FormatOf, ms
  <2> HIDE DEF silent
  <2>2. ConvertForLitellm(silent) \in Seq(ChatThings) /\ Carries(Delivered("chat", ConvertForLitellm(silent)), T, Flatter)
    BY <1>4, ConvertResults
  <2>3. Carried(Delivered("chat", ConvertForLitellm(silent)), T, FALSE)
    BY <2>2, TameOnes DEF Carried
  <2>4. Carried(Delivered("chat", ConvertForLitellm(silent)), R, FALSE)
    BY <1>1, <1>3, <2>3, CarriedOn
  <2> QED BY <1>6, <2>1, <2>2, <2>4 DEF BodiesOf, Wires, R
<1>7. CASE k = "oauth_responses"
  <2>1. Routed(w, k, body) = AnthropicToItems(ms) /\ FormatOf(k) = "responses"
    BY <1>7 DEF Routed, FormatOf, ms
  <2>2. AnthropicToItems(ms) \in Seq(Items) /\ Carries(Delivered("responses", AnthropicToItems(ms)), T, Flatter)
    BY <1>1, ItemsResults DEF T
  <2>3. Carried(Delivered("responses", AnthropicToItems(ms)), T, FALSE)
    BY <2>2, TameOnes DEF Carried
  <2>4. Carried(Delivered("responses", AnthropicToItems(ms)), R, FALSE)
    BY <1>1, <1>3, <2>3, CarriedOn
  <2> QED BY <1>7, <2>1, <2>2, <2>4 DEF BodiesOf, Wires, R
<1> QED BY <1>2, <1>5, <1>6, <1>7

\* A result has arrived, alone, in a form that may follow from its own.
Arrives(there, r, squeezed, same) ==
  \E d \in there : /\ there = {d}
                   /\ r.form = "long" => d.form \in {"long", "crushed"}
                   /\ r.form = "rich" => d.form \in {"rich", "texts", "repr", "digest"}
                   /\ ~squeezed => d.form \notin Short
                   /\ same => d.form = r.form

\* The results of a call.
Of(D, id) == {d \in D : d.id = id}

\* D has some of the results of R.
Fits(D, S, R, a) == OneOfEach(R) /\ S \in SUBSET R /\ a \in BOOLEAN /\ Carried(D, S, a)

\* A result that is carried arrives, one that is not is gone.
LEMMA ArrivesChanged ==
  ASSUME NEW R, NEW S, NEW D, NEW a, Fits(D, S, R, a), NEW r \in R, r.form \in {"long", "rich"}
  PROVE  /\ r \notin S => Of(D, r.id) = {}
         /\ r \in S => Arrives(Of(D, r.id), r, a, FALSE)
<1> DEFINE there == Of(D, r.id)
<1>1. there = {d \in D : d.id = r.id}
  BY DEF Of
<1> HIDE DEF there
<1>2. /\ r \notin S => there = {}
      /\ r \in S => \E d \in there : /\ there = {d}
                                     /\ r.form = "long" => d.form \in {"long", "crushed"}
                                     /\ r.form = "rich" => d.form \in {"rich", "texts", "repr", "digest"}
                                     /\ ~a => d.form \notin Short
  BY <1>1, Arrived DEF Fits
<1> QED BY <1>2 DEF Arrives, there

\* A result that is delivered as it is arrives as it is.
LEMMA ArrivesSame ==
  ASSUME NEW R, OneOfEach(R), NEW r \in R, r.form \in {"long", "rich"}
  PROVE  Arrives(Of(R, r.id), r, FALSE, TRUE)
<1>1. Of(R, r.id) = {r}
  BY DEF OneOfEach, Of
<1> QED BY <1>1 DEF Arrives, Short

---------------------------------------------------------------------------
(* The results of a Responses conversation that is sanitized.              *)

\* The results a message has.
Has(m, x) == x \in ToSet(Results(m.content))

\* An item as a message: a list is printed.
LEMMA ItemMessageTurns ==
  ASSUME NEW i \in Items
  PROVE  Turns("anthropic", ItemMessage[i], "responses", i, Printer)
<1>1. /\ \A j \in MessageItems : ItemMessage[j] = <<Message(j.role, <<Text(j.text)>>)>>
      /\ \A j \in CallItems : ItemMessage[j] = <<Message("assistant", <<Recast(j)>>)>>
      /\ \A j \in OutputItems : ItemMessage[j] = <<Message("user", <<Result(j.id, Printed(j.form))>>)>>
      /\ ItemMessage[ReasoningItem] = <<>>
  BY ItemMessages
<1>2. ASSUME NEW m, ItemMessage[i] = <<m>>
      PROVE  ToSet(ItemMessage[i]) = {m}
  BY <1>2 DEF ToSet
<1>3. CASE i \in OutputItems
  <2> DEFINE b == Result(i.id, Printed(i.form))
             r == Result(i.id, i.form)
             m == Message("user", <<b>>)
  <2>1. i.id \in STRING /\ i.form \in Forms
    BY <1>3 DEF OutputItems
  <2>2. IsOutput(i)
    BY <1>3 DEF OutputItems, IsOutput
  <2>3. Printed(i.form) \in Forms
    BY <2>1, FlattenedForm
  <2>4. b \in ResultBlocks /\ r \in ResultBlocks /\ r.id = i.id /\ r.form = i.form
    BY <2>1, <2>3 DEF Result, ResultBlocks
  <2>5. As(r, Printer) = b
    BY <2>4, TameOnes
  <2>6. ItemMessage[i] = <<m>>
    BY <1>1, <1>3
  <2> HIDE DEF b
  <2>7. \A x : x \in ToSet(Results(m.content)) <=> x = b
    BY <2>4, ResultsOfOne
  <2>8. \A x : Tells("responses", i, x) <=> x = r
    BY <2>2, TellsIs
  <2> HIDE DEF r, m
  <2>9. ToSet(ItemMessage[i]) = {m}
    BY <1>2, <2>6
  <2>10. \A x : Tells("anthropic", m, x) <=> x = b
    BY <2>7, TellsIs
  <2> QED BY <2>5, <2>8, <2>9, <2>10 DEF Turns
<1>4. CASE i \notin OutputItems
  <2>1. \A x : ~Tells("responses", i, x)
    <3>1. ~IsOutput(i)
      BY <1>4, ItemTypes DEF IsOutput
    <3> QED BY <3>1, TellsIs
  <2>2. ASSUME NEW b \in SaidBlocks, NEW role \in {"user", "assistant"}, ItemMessage[i] = <<Message(role, <<b>>)>>
        PROVE  Turns("anthropic", ItemMessage[i], "responses", i, Printer)
    <3> DEFINE m == Message(role, <<b>>)
    <3>1. <<b>> \in Seq(SaidBlocks)
      OBVIOUS
    <3>2. \A x : x \notin ToSet(Results(m.content))
      BY <3>1, ResultsOfNone
    <3> HIDE DEF m
    <3>3. ToSet(ItemMessage[i]) = {m}
      BY <1>2, <2>2 DEF m
    <3> QED BY <2>1, <3>2, <3>3, TellsIs DEF Turns
  <2>3. UseBlocks \subseteq SaidBlocks /\ TextBlocks \subseteq SaidBlocks
    BY QuietBlocks DEF SaidBlocks
  <2>4. CASE i \in MessageItems
    <3>1. Text(i.text) \in SaidBlocks /\ i.role \in {"user", "assistant"}
      BY <2>3, <2>4 DEF MessageItems, Text, TextBlocks
    <3>2. ItemMessage[i] = <<Message(i.role, <<Text(i.text)>>)>>
      BY <1>1, <2>4
    <3> QED BY <2>2, <3>1, <3>2
  <2>5. CASE i \in CallItems
    <3>1. Recast(i) \in SaidBlocks
      BY <2>3, <2>5, RecastCall DEF CallItems
    <3>2. ItemMessage[i] = <<Message("assistant", <<Recast(i)>>)>>
      BY <1>1, <2>5
    <3> QED BY <2>2, <3>1, <3>2
  <2>6. CASE i = ReasoningItem
    <3>1. ItemMessage[i] = <<>> /\ ToSet(<<>>) = {}
      BY <1>1, <2>6 DEF ToSet
    <3> QED BY <2>1, <3>1 DEF Turns
  <2> QED BY <1>4, <2>4, <2>5, <2>6 DEF Items
<1> QED BY <1>3, <1>4

\* The messages of items carry the results of the items, lists printed.
LEMMA ItemMessageResults ==
  ASSUME NEW items \in Seq(Items)
  PROVE  /\ Flat(ItemMessage, items) \in Seq(Simple)
         /\ Carries(Delivered("anthropic", Flat(ItemMessage, items)), Delivered("responses", items), Printer)
<1>1. Maps(ItemMessage, Items, Seq(Simple)) /\ "anthropic" \in Wires /\ "responses" \in Wires
  BY ItemMessages DEF Wires
<1>2. \A i \in ToSet(items) : Turns("anthropic", ItemMessage[i], "responses", i, Printer)
  <2>1. ToSet(items) \subseteq Items
    BY ElementsOf
  <2> QED BY <2>1, ItemMessageTurns
<1> QED BY <1>1, <1>2, FlatType, FlatTurns

\* Messages of calls have no results.
LEMMA UsesHaveNone ==
  ASSUME NEW m \in Messages, OnlyUses(m)
  PROVE  m.role = "assistant" /\ \A x : ~Has(m, x)
<1>1. m.content \in Seq(Blocks) /\ m.role = "assistant" /\ ToSet(m.content) \subseteq UseBlocks
  BY OnlyUsesIs, MessageShape
<1>2. ToSet(Results(m.content)) = ToSet(m.content) \cap ResultBlocks
  BY <1>1, OfTypeTypes
<1> QED BY <1>1, <1>2, QuietBlocks DEF Has

\* Putting calls together neither makes nor loses a result.
LEMMA CoalesceHas ==
  ASSUME NEW s \in Seq(Simple), NEW x
  PROVE  (\E y \in ToSet(Coalesce(s)) : Has(y, x)) <=> \E y \in ToSet(s) : Has(y, x)
<1> DEFINE any(t) == \E y \in ToSet(t) : Has(y, x)
           S == {t \in Seq(Simple) : any(Coalesce(t)) <=> any(t)}
<1>1. <<>> \in S
  <2>1. Coalesce(<<>>) = <<>> /\ <<>> \in Seq(Simple)
    BY CoalesceIs
  <2> HIDE DEF any
  <2> QED BY <2>1
<1>2. ASSUME NEW t \in S, NEW m \in Simple PROVE Append(t, m) \in S
  <2> DEFINE done == Coalesce(t)
  <2>1. Coalesce(Append(t, m)) = Merged(done, m) /\ done \in Seq(Simple)
    BY CoalesceIs
  <2>2. Append(t, m) \in Seq(Simple) /\ ToSet(Append(t, m)) = ToSet(t) \cup {m}
    BY AppendSet
  <2>3. any(Append(t, m)) <=> any(t) \/ Has(m, x)
    BY <2>2
  <2>4. any(done) <=> any(t)
    OBVIOUS
  <2> HIDE DEF done
  <2>5. any(Merged(done, m)) <=> any(done) \/ Has(m, x)
    <3>1. CASE ~Joins(done, m)
      <4>1. Merged(done, m) = Append(done, m) /\ ToSet(Append(done, m)) = ToSet(done) \cup {m}
        BY <2>1, <3>1, AppendSet DEF Merged
      <4> QED BY <4>1
    <3>2. CASE Joins(done, m)
      <4> DEFINE u == Front(done)
                 l == Last(done)
                 b == Both(l, m)
      <4>1. OnlyUses(m) /\ done # <<>> /\ OnlyUses(l)
        BY <3>2 DEF Joins
      <4>2. u \in Seq(Simple) /\ l \in Simple /\ done = Append(u, l)
        BY <2>1, <4>1, FrontAndLast
      <4>3. b \in Simple /\ OnlyUses(b)
        BY <4>1, <4>2, BothSimple
      <4>4. Merged(done, m) = Append(u, b)
        BY <3>2 DEF Merged
      <4> HIDE DEF u, l, b
      <4>5. ToSet(done) = ToSet(u) \cup {l} /\ ToSet(Append(u, b)) = ToSet(u) \cup {b}
        BY <4>2, <4>3, AppendSet
      <4>6. Simple \subseteq Messages
        BY DEF Simple
      <4>7. ~Has(m, x) /\ ~Has(l, x) /\ ~Has(b, x)
        BY <4>1, <4>2, <4>3, <4>6, UsesHaveNone DEF l
      <4> QED BY <4>4, <4>5, <4>7
    <3> QED BY <3>1, <3>2
  <2> HIDE DEF any
  <2> QED BY <2>1, <2>2, <2>3, <2>4, <2>5
<1>3. S \in SUBSET Seq(Simple)
  OBVIOUS
<1> HIDE DEF S
<1>4. S = Seq(Simple)
  BY <1>1, <1>2, <1>3, SeqInd
<1>5. s \in S
  BY <1>4
<1> QED BY <1>5 DEF S

\* The messages of a sanitized conversation.
LEMMA SanitizedSet ==
  ASSUME NEW s \in Seq(Simple), NEW y
  PROVE  y \in ToSet(Sanitize(s)) <=>
           \E k \in 1..Len(Coalesce(s)) : y = Safe(Coalesce(s), k) /\ y.content # <<>>
<1> DEFINE ms == Coalesce(s)
           safe == [k \in DOMAIN ms |-> Safe(ms, k)]
           P == {k \in DOMAIN safe : safe[k].content # <<>>}
<1>1. ms \in Seq(Simple)
  BY CoalesceIs
<1>2. Sanitize(s) = At(safe, P)
  BY DEF Sanitize
<1> HIDE DEF ms
<1>3. DOMAIN ms = 1..Len(ms) /\ Len(ms) \in Nat
  BY <1>1
<1>4. \A k \in 1..Len(ms) : Safe(ms, k) \in Messages
  BY <1>1, <1>3, SafeIs
<1>5. safe \in Seq(Messages) /\ DOMAIN safe = 1..Len(ms) /\ \A k \in 1..Len(ms) : safe[k] = Safe(ms, k)
  BY <1>3, <1>4
<1>6. \A k \in 1..Len(ms) : k \in P <=> safe[k].content # <<>>
  BY <1>5
<1> HIDE DEF safe, P
<1>7. ToSet(At(safe, P)) = {safe[i] : i \in P \cap DOMAIN safe}
  BY <1>5, AtSet
<1> QED BY <1>2, <1>5, <1>6, <1>7 DEF ms

\* Sanitizing makes no result.
LEMMA SanitizedHas ==
  ASSUME NEW s \in Seq(Simple)
  PROVE  Delivered("anthropic", Sanitize(s)) \subseteq Delivered("anthropic", s)
<1> DEFINE ms == Coalesce(s)
<1>1. ms \in Seq(Simple) /\ Sanitize(s) \in Seq(Simple) /\ "anthropic" \in Wires
  BY CoalesceIs, SanitizePairs DEF Wires
<1>2. SUFFICES ASSUME NEW x \in Delivered("anthropic", Sanitize(s)) PROVE x \in Delivered("anthropic", s)
  OBVIOUS
<1>3. PICK y \in ToSet(Sanitize(s)) : Has(y, x)
  BY <1>1, <1>2, DeliveredIs, TellsIs DEF Has
<1>4. PICK k \in 1..Len(ms) : y = Safe(ms, k)
  BY <1>3, SanitizedSet
<1> HIDE DEF ms
<1>5. k \in DOMAIN ms /\ ms[k] \in Messages /\ ms[k] \in ToSet(ms)
  <2>1. DOMAIN ms = 1..Len(ms) /\ \A i \in 1..Len(ms) : ms[i] \in Simple
    BY <1>1
  <2>2. Simple \subseteq Messages
    BY DEF Simple
  <2> QED BY <1>1, <2>1, <2>2, ElementsOf
<1>6. y \in Messages /\ ToSet(y.content) \subseteq ToSet(ms[k].content)
  BY <1>1, <1>4, <1>5, SafeIs
<1>7. Has(ms[k], x)
  <2>1. y.content \in Seq(Blocks) /\ ms[k].content \in Seq(Blocks)
    BY <1>5, <1>6, MessageShape
  <2>2. /\ ToSet(Results(y.content)) = ToSet(y.content) \cap ResultBlocks
        /\ ToSet(Results(ms[k].content)) = ToSet(ms[k].content) \cap ResultBlocks
    BY <2>1, OfTypeTypes
  <2> QED BY <1>3, <1>6, <2>2 DEF Has
<1>8. \E z \in ToSet(s) : Has(z, x)
  BY <1>5, <1>7, CoalesceHas DEF ms
<1> QED BY <1>1, <1>8, DeliveredIs, TellsIs DEF Has

---------------------------------------------------------------------------
(* The first result of a turn survives when its conversation is sanitized. *)

\* A call as an item is a message of its own.
LEMMA CallMessage ==
  ASSUME NEW b \in UseBlocks
  PROVE  LET m == Message("assistant", <<Recast(b)>>)
         IN /\ m \in Simple /\ OnlyUses(m) /\ m.content = <<Recast(b)>> /\ ToSet(m.content) = {Recast(b)}
            /\ RespItem("assistant")[b] \in Items /\ ItemMessage[RespItem("assistant")[b]] = <<m>>
<1> DEFINE m == Message("assistant", <<Recast(b)>>)
           i == RespItem("assistant")[b]
<1>1. i = CallItem(b.id, b.args) /\ i \in CallItems /\ CallItems \subseteq Items
  BY RespItems DEF Items
<1>2. b.id \in STRING /\ b.args \in Args /\ Recast(i) = Recast(b)
  BY <1>1 DEF UseBlocks, CallItem, Recast
<1>3. ItemMessage[i] = <<m>>
  BY <1>1, <1>2, ItemMessages
<1>4. Recast(b) \in UseBlocks /\ Recast(b) \in Spoken("assistant")
  BY <1>2, RecastCall DEF Spoken, Told
<1>5. m \in Simple /\ m.role = "assistant" /\ m.content = <<Recast(b)>>
  BY <1>4, OneSimple
<1>6. ToSet(<<Recast(b)>>) = {Recast(b)}
  BY DEF ToSet
<1> HIDE DEF m, i
<1>7. OnlyUses(m)
  <2>1. m \in Messages /\ m.content # <<>>
    BY <1>5 DEF Simple
  <2> QED BY <1>4, <1>5, <1>6, <2>1, OnlyUsesIs
<1> QED BY <1>1, <1>3, <1>5, <1>6, <1>7 DEF m, i

\* The calls are together in the last message.
Joint(c, us) ==
  us # <<>> =>
    c # <<>> /\ OnlyUses(Last(c)) /\ {Recast(b) : b \in ToSet(us)} \subseteq ToSet(Last(c).content)

\* One call more joins the calls before it.
LEMMA JointMore ==
  ASSUME NEW c \in Seq(Simple), NEW us \in Seq(UseBlocks), Joint(c, us), NEW b \in UseBlocks
  PROVE  Joint(Merged(c, Message("assistant", <<Recast(b)>>)), Append(us, b))
<1> DEFINE m == Message("assistant", <<Recast(b)>>)
           d == Merged(c, m)
<1>1. m \in Simple /\ OnlyUses(m) /\ m.content = <<Recast(b)>> /\ ToSet(m.content) = {Recast(b)}
  BY CallMessage
<1> DEFINE C(us_) == {Recast(x) : x \in ToSet(us_)}
<1>2. C(Append(us, b)) = C(us) \cup {Recast(b)}
  <2>1. ToSet(Append(us, b)) = ToSet(us) \cup {b}
    BY AppendSet
  <2> QED BY <2>1
<1> HIDE DEF m
<1>3. ASSUME NEW e \in Seq(Simple), NEW l \in Simple
      PROVE  Append(e, l) # <<>> /\ Last(Append(e, l)) = l
  BY DEF Last
<1>4. CASE Joins(c, m)
  <2> DEFINE u == Front(c)
             l == Last(c)
             n == Both(l, m)
  <2>1. c # <<>> /\ OnlyUses(l) /\ d = Append(u, n)
    BY <1>4 DEF Joins, Merged
  <2>2. u \in Seq(Simple) /\ l \in Simple
    BY <2>1, FrontAndLast
  <2>3. n \in Simple /\ OnlyUses(n) /\ n.content = l.content \o m.content
    BY <1>1, <2>1, <2>2, BothSimple
  <2>4. l.content \in Seq(Blocks) /\ m.content \in Seq(Blocks)
    BY <1>1, <2>2, MessageShape DEF Simple
  <2> HIDE DEF u, l, n
  <2>5. ToSet(n.content) = ToSet(l.content) \cup {Recast(b)}
    <3>1. ToSet(l.content \o m.content) = ToSet(l.content) \cup ToSet(m.content)
      BY <2>4, ConcatSet
    <3> QED BY <1>1, <2>3, <3>1
  <2>6. C(us) \subseteq ToSet(l.content)
    <3>1. CASE us = <<>>
      <4>1. ToSet(us) = {}
        BY <3>1 DEF ToSet
      <4> QED BY <4>1
    <3>2. CASE us # <<>>
      BY <3>2 DEF Joint, l
    <3> QED BY <3>1, <3>2
  <2>7. d # <<>> /\ Last(d) = n
    BY <1>3, <2>1, <2>2, <2>3
  <2> HIDE DEF d
  <2> QED BY <1>2, <2>3, <2>5, <2>6, <2>7 DEF Joint, d, m
<1>5. CASE ~Joins(c, m)
  <2>1. d = Append(c, m)
    BY <1>5 DEF Merged
  <2>2. us = <<>>
    BY <1>1, <1>5 DEF Joins, Joint
  <2>3. d # <<>> /\ Last(d) = m
    BY <1>1, <1>3, <2>1
  <2>4. C(us) = {}
    BY <2>2 DEF ToSet
  <2> HIDE DEF d
  <2> QED BY <1>1, <1>2, <2>3, <2>4 DEF Joint, d, m
<1> QED BY <1>4, <1>5

\* Calls in a row end up in one message.
LEMMA CallsJoin ==
  ASSUME NEW x \in Seq(Simple), NEW us \in Seq(UseBlocks)
  PROVE  LET s == x \o Flat(ItemMessage, Each(RespItem("assistant"), us))
         IN s \in Seq(Simple) /\ Joint(Coalesce(s), us)
<1> DEFINE g == RespItem("assistant")
           F(t) == Flat(ItemMessage, Each(g, t))
           S == {t \in Seq(UseBlocks) : F(t) \in Seq(Simple) /\ Joint(Coalesce(x \o F(t)), t)}
<1>1. <<>> \in S
  <2>1. F(<<>>) = <<>>
    BY EachNone, FlatNone
  <2>2. Joint(Coalesce(x \o F(<<>>)), <<>>)
    BY DEF Joint
  <2>3. <<>> \in Seq(UseBlocks) /\ <<>> \in Seq(Simple)
    OBVIOUS
  <2> HIDE DEF F
  <2>4. F(<<>>) \in Seq(Simple)
    BY <2>1, <2>3
  <2> QED BY <2>2, <2>3, <2>4
<1>2. ASSUME NEW t \in S, NEW b \in UseBlocks PROVE Append(t, b) \in S
  <2> DEFINE m == Message("assistant", <<Recast(b)>>)
  <2>1. m \in Simple /\ g[b] \in Items /\ ItemMessage[g[b]] = <<m>>
    BY CallMessage
  <2>2. t \in Seq(UseBlocks) /\ F(t) \in Seq(Simple) /\ Joint(Coalesce(x \o F(t)), t) /\ Append(t, b) \in Seq(UseBlocks)
    OBVIOUS
  <2>3. Maps(g, Blocks, Items) /\ UseBlocks \subseteq Blocks /\ Maps(ItemMessage, Items, Seq(Simple))
    BY RespItems, QuietBlocks, ItemMessages
  <2>4. t \in Seq(Blocks) /\ b \in Blocks
    BY <2>2, <2>3, WiderSeq
  <2>5. Each(g, t) \in Seq(Items) /\ Each(g, Append(t, b)) = Append(Each(g, t), g[b])
    BY <2>3, <2>4, EachType, EachAppend
  <2>6. F(Append(t, b)) = F(t) \o <<m>>
    <3> DEFINE is == Each(g, t)
               i == g[b]
    <3>1. is \in Seq(Items) /\ i \in Items /\ Each(g, Append(t, b)) = Append(is, i) /\ ItemMessage[i] = <<m>>
      BY <2>1, <2>5
    <3>2. F(t) = Flat(ItemMessage, is) /\ F(Append(t, b)) = Flat(ItemMessage, Each(g, Append(t, b)))
      OBVIOUS
    <3> HIDE DEF is, i, m, g, F
    <3>3. Flat(ItemMessage, Append(is, i)) = Flat(ItemMessage, is) \o ItemMessage[i]
      <4>1. Maps(ItemMessage, Items, Seq(Simple)) /\ is \in Seq(Items) /\ i \in Items
        BY <3>1, ItemMessages
      <4> QED BY <4>1, FlatAppend
    <3> QED BY <3>1, <3>2, <3>3
  <2> HIDE DEF F, g, m
  <2>7. F(t) \o <<m>> = Append(F(t), m) /\ Append(F(t), m) \in Seq(Simple)
    BY <2>1, <2>2
  <2>8. x \o F(t) \in Seq(Simple) /\ x \o Append(F(t), m) = Append(x \o F(t), m)
    BY <2>1, <2>2
  <2> DEFINE c == x \o F(t)
  <2>9. Coalesce(Append(c, m)) = Merged(Coalesce(c), m) /\ Coalesce(c) \in Seq(Simple)
    BY <2>1, <2>8, CoalesceIs
  <2>10. Joint(Merged(Coalesce(c), m), Append(t, b))
    BY <2>2, <2>9, JointMore DEF m
  <2> QED BY <2>2, <2>6, <2>7, <2>8, <2>9, <2>10
<1>3. S \in SUBSET Seq(UseBlocks)
  OBVIOUS
<1> HIDE DEF S
<1>4. S = Seq(UseBlocks)
  BY <1>1, <1>2, <1>3, SeqInd
<1>5. us \in S
  BY <1>4
<1>6. F(us) \in Seq(Simple) /\ Joint(Coalesce(x \o F(us)), us)
  BY <1>5 DEF S
<1> HIDE DEF F
<1>7. x \o F(us) \in Seq(Simple)
  BY <1>6
<1> QED BY <1>6, <1>7 DEF F

\* Messages of the user are left apart.
Users == {m \in Simple : m.role = "user"}

\* They follow what is put together before them, as they are.
LEMMA UsersApart ==
  ASSUME NEW s \in Seq(Simple), NEW y \in Seq(Users)
  PROVE  s \o y \in Seq(Simple) /\ Coalesce(s \o y) = Coalesce(s) \o y
<1> DEFINE S == {t \in Seq(Users) : s \o t \in Seq(Simple) /\ Coalesce(s \o t) = Coalesce(s) \o t}
<1>0. Coalesce(s) \in Seq(Simple) /\ \A u \in Seq(Simple) : u \o <<>> = u
  BY CoalesceIs
<1>1. <<>> \in S
  <2>1. <<>> \in Seq(Users)
    OBVIOUS
  <2> QED BY <1>0, <2>1
<1>2. ASSUME NEW t \in S, NEW m \in Users PROVE Append(t, m) \in S
  <2>1. m \in Simple /\ m.role = "user" /\ t \in Seq(Users) /\ Append(t, m) \in Seq(Users)
    BY DEF Users
  <2> DEFINE c == s \o t
             k == Coalesce(s)
  <2>2. c \in Seq(Simple) /\ Coalesce(c) = k \o t /\ k \in Seq(Simple)
    BY <1>0
  <2>3. t \in Seq(Simple)
    BY <2>1, WiderSeq DEF Users
  <2>4. ~Joins(Coalesce(c), m)
    BY <2>1 DEF Joins, OnlyUses
  <2>5. Coalesce(Append(c, m)) = Append(Coalesce(c), m)
    BY <2>1, <2>2, <2>4, CoalesceIs DEF Merged
  <2>6. s \o Append(t, m) = Append(c, m)
    BY <2>1, <2>3
  <2> HIDE DEF k
  <2>7. k \o Append(t, m) = Append(k \o t, m)
    BY <2>1, <2>2, <2>3
  <2> HIDE DEF c
  <2>8. Append(c, m) \in Seq(Simple)
    BY <2>1, <2>2
  <2> QED BY <2>1, <2>2, <2>5, <2>6, <2>7, <2>8 DEF k
<1>3. S \in SUBSET Seq(Users)
  OBVIOUS
<1> HIDE DEF S
<1>4. S = Seq(Users)
  BY <1>1, <1>2, <1>3, SeqInd
<1>5. y \in S
  BY <1>4
<1> QED BY <1>5 DEF S

\* A result of the call is left.
Still(s, id) == \E d \in Delivered("anthropic", Sanitize(s)) : d.id = id

\* A result directly behind the message with its call stays.
LEMMA ResultKept ==
  ASSUME NEW s \in Seq(Simple), NEW c \in Seq(Simple), NEW y \in Seq(Users), Coalesce(s) = c \o y,
         c # <<>>, OnlyUses(Last(c)), y # <<>>,
         NEW b \in UseBlocks, b \in ToSet(Last(c).content),
         NEW r \in ResultBlocks, r \in ToSet(y[1].content), r.id = b.id
  PROVE  Still(s, b.id)
<1> DEFINE ms == Coalesce(s)
           k == Len(c)
           m == Safe(ms, k + 1)
           id == b.id
<1>1. y \in Seq(Simple)
  BY WiderSeq DEF Users
<1>2. ms \in Seq(Simple) /\ ms = c \o y
  BY CoalesceIs
<1>3. /\ k \in Nat \ {0} /\ Len(ms) = k + Len(y) /\ Len(y) \in Nat \ {0}
      /\ ms[k] = Last(c) /\ ms[k + 1] = y[1]
      /\ DOMAIN ms = 1..Len(ms) /\ Last(c) \in Simple /\ y[1] \in Users
  <2>1. k \in Nat \ {0} /\ Len(y) \in Nat \ {0} /\ Last(c) = c[k] /\ Last(c) \in Simple /\ y[1] \in Users
    BY LastOf
  <2>2. /\ Len(c \o y) = k + Len(y) /\ DOMAIN (c \o y) = 1..(k + Len(y))
        /\ (c \o y)[k] = c[k] /\ (c \o y)[k + 1] = y[1]
    BY <1>1, <2>1, ConcatPlaces
  <2> HIDE DEF ms, k
  <2> QED BY <1>2, <2>1, <2>2
<1> HIDE DEF ms, k
<1>4. /\ k + 1 \in DOMAIN ms /\ k + 1 \in 1..Len(ms) /\ k < Len(ms) /\ k + 1 # 1 /\ (k + 1) - 1 = k
  BY <1>3
<1>5. ms[k].role = "assistant" /\ ms[k + 1].role = "user" /\ ms[k].content \in Seq(Blocks) /\ ms[k + 1].content \in Seq(Blocks)
  BY <1>3, OnlyUsesIs, MessageShape DEF Users, Simple
<1>6. id \in UseIds(ms[k].content) /\ id \in ResultIds(ms[k + 1].content)
  BY <1>3, <1>5, IdsOfContent
<1>7. id \in Matched(ms, k)
  BY <1>4, <1>5, <1>6, MatchedIs
<1>8. id \in Answerable(ms, k + 1)
  BY <1>4, <1>7 DEF Answerable
<1>9. m \in Messages /\ id \in ResultIds(m.content)
  BY <1>2, <1>4, <1>5, <1>6, <1>8, SafeIs
<1> HIDE DEF m
<1>10. m.content \in Seq(Blocks)
  BY <1>9, MessageShape
<1>11. PICK d \in ToSet(m.content) : d \in ResultBlocks /\ d.id = id
  BY <1>9, <1>10, IdsOfContent
<1>12. d \in ToSet(Results(m.content)) /\ m.content # <<>>
  <2>1. ToSet(Results(m.content)) = ToSet(m.content) \cap ResultBlocks
    BY <1>10, OfTypeTypes
  <2>2. ToSet(<<>>) = {}
    BY DEF ToSet
  <2> QED BY <1>11, <2>1, <2>2
<1>13. m \in ToSet(Sanitize(s))
  BY <1>4, <1>12, SanitizedSet DEF m, ms
<1>14. d \in Delivered("anthropic", Sanitize(s))
  <2>1. Sanitize(s) \in Seq(Simple) /\ "anthropic" \in Wires
    BY SanitizePairs DEF Wires
  <2> QED BY <1>12, <1>13, <2>1, DeliveredIs, TellsIs
<1> QED BY <1>11, <1>14 DEF Still

\* The messages of the latest message: results and texts of the user.
LEMMA LatestAsUsers ==
  ASSUME NEW m, NEW rs, NEW ts, Latest(m, rs, ts), rs # <<>>
  PROVE  LET y == Flat(ItemMessage, RespOf[m])
             r == Result(rs[1].id, Printed(rs[1].form))
         IN y \in Seq(Users) /\ y # <<>> /\ r \in ToSet(y[1].content) /\ r \in ResultBlocks /\ r.id = rs[1].id
<1> DEFINE g == RespItem("user")
           c == m.content
           is == RespOf[m]
           y == Flat(ItemMessage, is)
           b == rs[1]
           r == Result(b.id, Printed(b.form))
<1>1. /\ m \in Messages /\ m.role = "user" /\ c = rs \o ts /\ rs \in Seq(ResultBlocks) /\ ts \in Seq(TextBlocks)
      /\ is = Each(g, c) /\ is \in Seq(Items)
  BY LatestIs, RespOfMessage
<1>2. b \in ResultBlocks /\ c # <<>> /\ c[1] = b
  <2>1. rs # <<>> => rs[1] \in ResultBlocks /\ rs \o ts # <<>> /\ (rs \o ts)[1] = rs[1]
    BY <1>1
  <2> QED BY <1>1, <2>1
<1>3. c \in Seq(Blocks) /\ ToSet(c) \subseteq ResultBlocks \cup TextBlocks
  <2>1. rs \in Seq(Blocks) /\ ts \in Seq(Blocks) /\ ToSet(rs) \subseteq ResultBlocks /\ ToSet(ts) \subseteq TextBlocks
    BY <1>1, WiderSeq, ElementsOf DEF Blocks
  <2>2. ToSet(rs \o ts) = ToSet(rs) \cup ToSet(ts)
    BY <2>1, ConcatSet
  <2> QED BY <1>1, <2>1, <2>2, MessageShape
<1> HIDE DEF c, is, b
<1>4. /\ Maps(g, Blocks, Items) /\ ToSet(Each(g, c)) = {g[x] : x \in ToSet(c)}
      /\ Maps(ItemMessage, Items, Seq(Simple))
  BY <1>3, RespItems, EachSet, ItemMessages
<1>5. ASSUME NEW i \in ToSet(is) PROVE ToSet(ItemMessage[i]) \subseteq Users
  <2>1. PICK x \in ToSet(c) : i = g[x]
    BY <1>1, <1>4
  <2>2. x \in ResultBlocks \cup TextBlocks
    BY <1>3
  <2>3. i \in MessageItems \cup OutputItems /\ (i \in MessageItems => i.role = "user")
    <3>1. CASE x \in TextBlocks
      <4>1. i = MessageItem("user", x.text) /\ i \in MessageItems
        BY <2>1, <3>1, RespItems
      <4> QED BY <4>1 DEF MessageItem
    <3>2. CASE x \in ResultBlocks
      <4>1. i \in OutputItems
        BY <2>1, <3>2, RespItems
      <4> QED BY <4>1 DEF OutputItems, MessageItems
    <3> QED BY <2>2, <3>1, <3>2
  <2>4. i \in Items
    BY <1>1, ElementsOf
  <2>5. ItemMessage[i] \in Seq(Simple)
    BY <1>4, <2>4 DEF Maps
  <2>6. PICK bs : ItemMessage[i] = <<Message("user", bs)>>
    BY <2>3, ItemMessages
  <2>7. ToSet(<<Message("user", bs)>>) = {Message("user", bs)} /\ Message("user", bs).role = "user"
    BY DEF ToSet, Message
  <2>8. Message("user", bs) \in Simple
    BY <2>5, <2>6, <2>7, ElementsOf
  <2> QED BY <2>6, <2>7, <2>8 DEF Users
<1>6. y \in Seq(Simple) /\ ToSet(y) = UNION {ToSet(ItemMessage[i]) : i \in ToSet(is)}
  BY <1>1, <1>4, FlatType, FlatSet
<1> HIDE DEF y
<1>7. y \in Seq(Users)
  <2>1. ToSet(y) \subseteq Users
    BY <1>5, <1>6
  <2> QED BY <1>6, <2>1, ElementsIn
<1>8. is # <<>> /\ is[1] = g[b]
  <2>1. DOMAIN is = DOMAIN c /\ 1 \in DOMAIN c
    <3>1. DOMAIN Each(g, c) = DOMAIN c
      BY DEF Each
    <3>2. c # <<>> => 1 \in DOMAIN c
      BY <1>3
    <3> QED BY <1>1, <1>2, <3>1, <3>2
  <2>2. is[1] = g[c[1]]
    BY <1>1, <2>1 DEF Each
  <2> QED BY <1>2, <2>1, <2>2
<1>9. g[b] = OutputItem(b.id, b.form) /\ g[b] \in OutputItems /\ g[b].id = b.id /\ g[b].form = b.form
  BY <1>2, RespItems DEF OutputItem
<1> HIDE DEF g
<1>10. ItemMessage[is[1]] = <<Message("user", <<r>>)>>
  BY <1>8, <1>9, ItemMessages
<1>11. y # <<>> /\ y[1] = Message("user", <<r>>)
  <2>1. ItemMessage[is[1]] # <<>>
    BY <1>10
  <2>2. Flat(ItemMessage, is) # <<>> /\ Flat(ItemMessage, is)[1] = ItemMessage[is[1]][1]
    <3>1. is \in Seq(Items) /\ is # <<>> /\ Maps(ItemMessage, Items, Seq(Simple))
      BY <1>1, <1>4, <1>8
    <3> HIDE DEF r
    <3> QED BY <2>1, <3>1, FlatFirst
  <2> QED BY <1>10, <2>2 DEF y
<1>12. r \in ResultBlocks /\ r.id = b.id
  <2>1. b.id \in STRING /\ b.form \in Forms
    BY <1>2 DEF ResultBlocks
  <2>2. Printed(b.form) \in Forms
    BY <2>1, FlattenedForm
  <2> QED BY <2>1, <2>2 DEF Result, ResultBlocks
<1> HIDE DEF r
<1>13. r \in ToSet(y[1].content)
  BY <1>11 DEF Message, ToSet
<1> QED BY <1>7, <1>11, <1>12, <1>13 DEF y, is, b, r

\* The first result a whole conversation brings last is still there.
LEMMA FirstStays ==
  ASSUME NEW h, GoodHistory(h), h # <<>>, Last(h).role = "user", Results(Last(h).content) # <<>>
  PROVE  Still(Flat(ItemMessage, Inbound("responses", h)), Results(Last(h).content)[1].id)
<1> DEFINE m == Last(h)
           n == Len(h)
           g == RespItem("assistant")
<1>1. PICK prev, rs, ts : h = Append(prev, m) /\ Before(prev) /\ Latest(m, rs, ts)
  BY LatestOfHistory
<1>2. Results(m.content) = rs /\ rs \in Seq(ResultBlocks) /\ m \in Messages /\ rs # <<>>
  BY <1>1, LatestIs
<1>3. rs[1] \in ResultBlocks /\ rs[1] \in ToSet(rs)
  <2>1. rs # <<>> => rs[1] \in ResultBlocks /\ 1 \in DOMAIN rs
    BY <1>2
  <2> QED BY <1>2, <2>1 DEF ToSet
<1> DEFINE id == rs[1].id
<1>4. h \in Seq(Messages) /\ n \in DOMAIN h /\ m = h[n] /\ prev \in Seq(Messages)
  BY <1>1, LastOf DEF GoodHistory, Before
<1>5. id \in OpenAt(h, n)
  <2>1. ToSet(Ids(Results(h[n].content))) \subseteq OpenAt(h, n)
    BY <1>4, Alternation DEF GoodMessage
  <2>2. id \in ToSet(Ids(rs))
    <3>1. PICK i \in DOMAIN rs : rs[i] = rs[1]
      BY <1>3 DEF ToSet
    <3> QED BY <3>1 DEF Ids, ToSet
  <2> QED BY <1>2, <1>4, <2>1, <2>2
<1> HIDE DEF id
<1>6. prev # <<>> /\ id \in CallsIn(Last(prev))
  <2>1. n # 1 /\ id \in CallsIn(h[n - 1])
    BY <1>5 DEF OpenAt
  <2>2. Len(prev) \in Nat /\ Len(Append(prev, m)) = Len(prev) + 1
    BY <1>2, <1>4
  <2>3. n = Len(prev) + 1 /\ Len(prev) # 0
    BY <1>1, <2>1, <2>2
  <2>4. Len(prev) \in 1..Len(prev) /\ n - 1 = Len(prev)
    BY <2>2, <2>3
  <2>5. Append(prev, m)[Len(prev)] = prev[Len(prev)]
    BY <1>2, <1>4, <2>4
  <2>6. h[n - 1] = Last(prev)
    BY <1>1, <2>4, <2>5 DEF Last
  <2>7. Len(<<>>) = 0
    OBVIOUS
  <2> QED BY <2>1, <2>3, <2>6, <2>7
<1> DEFINE a == Last(prev)
           hp == Front(prev)
<1>7. a \in Messages /\ hp \in Seq(Messages) /\ prev = Append(hp, a) /\ a.role = "assistant" /\ Replies(a.content)
  BY <1>4, <1>6, FrontAndLast, <1>1 DEF Before
<1> HIDE DEF a, hp, n
<1>8. PICK pre \in Seq(Quiet), us \in Seq(UseBlocks) : a.content = pre \o us
  BY <1>7 DEF Replies
<1>9. /\ pre \in Seq(Blocks) /\ us \in Seq(Blocks) /\ Uses(pre \o us) = us
  BY ReplyParts
<1>10. PICK b \in ToSet(us) : b.id = id
  <2>1. id \in ToSet(Ids(us))
    BY <1>6, <1>8, <1>9 DEF CallsIn, a
  <2>2. PICK i \in DOMAIN us : id = us[i].id
    BY <2>1 DEF Ids, ToSet
  <2> QED BY <2>2 DEF ToSet
<1>11. b \in UseBlocks /\ us # <<>>
  <2>1. ToSet(<<>>) = {} /\ ToSet(us) \subseteq UseBlocks
    BY ElementsOf DEF ToSet
  <2> QED BY <2>1
<1> DEFINE p == Flat(RespOf, hp)
           x == Flat(ItemMessage, p \o Each(g, pre))
           u == Flat(ItemMessage, Each(g, us))
           y == Flat(ItemMessage, RespOf[m])
           s == Flat(ItemMessage, Inbound("responses", h))
<1>12. s = (x \o u) \o y /\ x \in Seq(Simple) /\ u \in Seq(Simple) /\ y \in Seq(Simple)
  <2>1. Inbound("responses", h) = Flat(RespOf, prev) \o RespOf[m]
    BY <1>1, BodyOfLatest
  <2>2. Flat(RespOf, prev) = p \o RespOf[a] /\ p \in Seq(Items)
    <3>1. Maps(RespOf, Messages, Seq(Items))
      BY MapsOfMessages
    <3> QED BY <1>7, <3>1, FlatAppend, FlatType
  <2>3. RespOf[a] = Each(g, pre) \o Each(g, us) /\ Each(g, pre) \in Seq(Items) /\ Each(g, us) \in Seq(Items)
    <3>1. RespOf[a] = Each(g, pre \o us)
      BY <1>7, <1>8, RespOfMessage
    <3>2. Maps(g, Blocks, Items)
      BY RespItems
    <3> HIDE DEF g
    <3> QED BY <1>9, <3>1, <3>2, EachConcat, EachType
  <2>4. RespOf[m] \in Seq(Items)
    BY <1>2, RespOfMessage
  <2> DEFINE e == Each(g, pre)
             f == Each(g, us)
             i == RespOf[m]
  <2>5. e \in Seq(Items) /\ f \in Seq(Items) /\ i \in Seq(Items) /\ p \in Seq(Items)
    BY <2>2, <2>3, <2>4
  <2>6. Inbound("responses", h) = (p \o (e \o f)) \o i
    BY <2>1, <2>2, <2>3
  <2> HIDE DEF e, f, i, p, g
  <2> DEFINE pe == p \o e
             pef == pe \o f
             F(t) == Flat(ItemMessage, t)
  <2>7. p \o (e \o f) = pef /\ pe \in Seq(Items) /\ pef \in Seq(Items)
    BY <2>5
  <2>8. Maps(ItemMessage, Items, Seq(Simple))
    BY ItemMessages
  <2>9. Flat(ItemMessage, pe) = x /\ Flat(ItemMessage, f) = u /\ Flat(ItemMessage, i) = y
    BY DEF e, f, i
  <2> HIDE DEF pe, x, u, y, s, F
  <2>10. Flat(ItemMessage, pef \o i) = Flat(ItemMessage, pef) \o Flat(ItemMessage, i)
    <3>1. pef \in Seq(Items) /\ i \in Seq(Items) /\ Maps(ItemMessage, Items, Seq(Simple))
      BY <2>5, <2>7, <2>8
    <3> HIDE DEF pef
    <3> QED BY <3>1, FlatConcat
  <2>11. Flat(ItemMessage, pef) = Flat(ItemMessage, pe) \o Flat(ItemMessage, f)
    <3>1. pe \in Seq(Items) /\ f \in Seq(Items) /\ Maps(ItemMessage, Items, Seq(Simple))
      BY <2>5, <2>7, <2>8
    <3> QED BY <3>1, FlatConcat
  <2>12. Flat(ItemMessage, pe) \in Seq(Simple) /\ Flat(ItemMessage, f) \in Seq(Simple) /\ Flat(ItemMessage, i) \in Seq(Simple)
    BY <2>5, <2>7, <2>8, FlatType
  <2>13. s = Flat(ItemMessage, pef \o i)
    BY <2>6, <2>7 DEF s
  <2> HIDE DEF pef
  <2> QED BY <2>9, <2>10, <2>11, <2>12, <2>13
<1>13. x \o u \in Seq(Simple) /\ Joint(Coalesce(x \o u), us)
  BY <1>12, CallsJoin
<1> DEFINE r == Result(rs[1].id, Printed(rs[1].form))
<1>14. y \in Seq(Users) /\ y # <<>> /\ r \in ToSet(y[1].content) /\ r \in ResultBlocks /\ r.id = id
  BY <1>1, <1>2, LatestAsUsers DEF id
<1> HIDE DEF x, u, y, s, r
<1> DEFINE c == Coalesce(x \o u)
<1>15. s \in Seq(Simple) /\ Coalesce(s) = c \o y /\ c \in Seq(Simple)
  BY <1>12, <1>13, <1>14, UsersApart, CoalesceIs
<1>16. c # <<>> /\ OnlyUses(Last(c)) /\ Recast(b) \in ToSet(Last(c).content)
  BY <1>10, <1>11, <1>13 DEF Joint
<1>18. Recast(b) \in UseBlocks /\ Recast(b).id = b.id
  <2>1. b.id \in STRING /\ b.args \in Args
    BY <1>11 DEF UseBlocks
  <2> QED BY <2>1, RecastCall
<1> HIDE DEF c
<1>17. Still(s, b.id)
  <2>1. r \in ResultBlocks /\ r \in ToSet(y[1].content) /\ r.id = b.id
    BY <1>10, <1>14
  <2> HIDE DEF g, p
  <2> DEFINE d == Recast(b)
  <2>2. d \in UseBlocks /\ d \in ToSet(Last(c).content) /\ r.id = d.id /\ d.id = b.id
    BY <1>16, <1>18, <2>1
  <2> HIDE DEF d
  <2> QED BY <1>14, <1>15, <1>16, <2>1, <2>2, ResultKept
<1> QED BY <1>2, <1>10, <1>17 DEF s, id, m

\* What reaches a provider of the results R, once the messages s are sanitized.
Survive(D, R, s, squeezed) ==
  \E S \in SUBSET R : Carried(D, S, squeezed) /\ \A r \in R : r \notin S => ~Still(s, r.id)

\* A provider of either format is sent just what the sanitized conversation keeps.
LEMMA SanitizedSurvive ==
  ASSUME NEW body \in Seq(Items), \E i \in DOMAIN body : IsOutput(body[i]),
         OneOfEach(Delivered("responses", body)),
         NEW k \in {"direct", "litellm"}, NEW shrinks
  PROVE  Survive(Delivered(FormatOf(k), SentToTier("responses", k, body, shrinks)),
                 Delivered("responses", body), Flat(ItemMessage, body), k = "litellm")
<1> DEFINE R == Delivered("responses", body)
           ms == Flat(ItemMessage, body)
           T == Delivered("anthropic", ms)
           t == Sanitize(ms)
           U == Delivered("anthropic", t)
           S == {r \in R : As(r, Printer) \in U}
           sent == SentToTier("responses", k, body, shrinks)
<1>1. ms \in Seq(Simple) /\ Carries(T, R, Printer)
  BY ItemMessageResults
<1>2. FromResponses(body) = t
  <2>1. \A i \in DOMAIN body : body[i] \in Items
    BY PlacesOf
  <2>2. [i \in DOMAIN body |-> FromItem(body[i])] = [i \in DOMAIN body |-> ItemMessage[body[i]]]
    BY <2>1 DEF ItemMessage
  <2>3. Spread(FromItem, body) = ms
    BY <2>2 DEF Spread, Flat, Each
  <2> QED BY <2>3 DEF FromResponses
<1>3. OneOfEach(R) /\ R \in SUBSET ResultBlocks
  BY DEF OneOfEach
<1> HIDE DEF R, ms
<1>4. U \subseteq T /\ t \in Seq(Simple) /\ t \in Seq(Messages)
  <2>1. U \subseteq T /\ t \in Seq(Simple)
    BY <1>1, SanitizedHas, SanitizePairs
  <2>2. Simple \subseteq Messages
    BY DEF Simple
  <2> HIDE DEF t
  <2> QED BY <2>1, <2>2, WiderSeq
<1>5. StripThinking(t) = t
  BY <1>4, SilentStays
<1>6. \A r \in R : r \notin S => ~Still(ms, r.id)
  <2> SUFFICES ASSUME NEW r \in R, Still(ms, r.id) PROVE r \in S
    OBVIOUS
  <2>1. PICK d \in U : d.id = r.id
    BY DEF Still
  <2>2. PICK q \in R : d = As(q, Printer)
    BY <1>1, <1>4, <2>1 DEF Carries
  <2>3. q.id = r.id
    BY <1>3, <2>1, <2>2 DEF As, Result
  <2>4. q = r
    BY <1>3, <2>3 DEF OneOfEach
  <2> QED BY <2>1, <2>2, <2>4
<1> HIDE DEF T, t, U
<1>7. S \in SUBSET R /\ S \in SUBSET ResultBlocks
  BY <1>3
<1>8. Carries(U, S, Printer)
  <2>1. \A x : x \in U <=> \E r \in S : x = As(r, Printer)
    <3> TAKE x
    <3>1. x \in U => \E r \in R : x = As(r, Printer)
      BY <1>1, <1>4 DEF Carries
    <3> QED BY <3>1
  <2> QED BY <2>1 DEF Carries
<1> HIDE DEF S
<1>9. Carried(U, S, FALSE)
  BY <1>8, TameOnes DEF Carried
<1>10. CASE k = "direct"
  <2>1. sent = t /\ FormatOf(k) = "anthropic"
    BY <1>2, <1>5, <1>10 DEF SentToTier, Routed, ToAnthropic, FormatOf
  <2>2. Delivered(FormatOf(k), sent) = U
    BY <2>1 DEF U
  <2>3. (k = "litellm") = FALSE
    BY <1>10
  <2> HIDE DEF sent
  <2> QED BY <1>6, <1>7, <1>9, <2>2, <2>3 DEF Survive, R, ms, sent
<1>11. CASE k = "litellm"
  <2> DEFINE chat == ConvertForLitellm(t)
             D == Delivered("chat", chat)
             E == Delivered("chat", Compress("chat", chat, shrinks))
  <2>1. sent = Compress("chat", chat, shrinks) /\ FormatOf(k) = "chat"
    BY <1>2, <1>5, <1>11 DEF SentToTier, Routed, ToAnthropic, FormatOf
  <2>2. chat \in Seq(ChatThings) /\ Carries(D, U, Flatter)
    BY <1>4, ConvertResults DEF U
  <2>3. Carried(D, U, FALSE)
    BY <2>2, TameOnes DEF Carried
  <2> HIDE DEF chat, D
  <2>4. Carried(D, S, FALSE)
    BY <1>7, <1>9, <2>3, CarriedOn
  <2>5. OneOfEach(S)
    BY <1>3, <1>7 DEF OneOfEach
  <2>6. OneOfEach(D)
    BY <2>4, <2>5, CarriedOne
  <2>7. Carried(E, D, TRUE)
    <3>1. chat \in BodiesOf("chat") /\ "chat" \in Wires
      BY <2>2 DEF BodiesOf, Wires
    <3> QED BY <2>6, <3>1, CompressCarries DEF D
  <2> HIDE DEF E
  <2>8. Carried(E, S, FALSE \/ TRUE)
    BY <1>7, <2>4, <2>7, CarriedOn
  <2>9. Delivered(FormatOf(k), sent) = E /\ (k = "litellm") = TRUE
    BY <1>11, <2>1 DEF E
  <2>10. Carried(E, S, TRUE)
    BY <2>8
  <2> HIDE DEF sent
  <2> QED BY <1>6, <1>7, <2>9, <2>10 DEF Survive, R, ms, sent
<1> QED BY <1>10, <1>11

\* What a tier is sent on every other path.
LEMMA SentCarries ==
  ASSUME NEW w \in Wires, NEW k \in Kinds(w), ~(w = "responses" /\ k \in {"direct", "litellm"}),
         NEW body \in BodiesOf(w), OneOfEach(Delivered(w, body)), NEW shrinks
  PROVE  LET D == Delivered(FormatOf(k), SentToTier(w, k, body, shrinks))
         IN /\ Carried(D, Delivered(w, body), k # "direct")
            /\ w = "anthropic" /\ k = "direct" => D = Delivered(w, body)
<1> DEFINE R == Delivered(w, body)
           f == FormatOf(k)
           routed == Routed(w, k, body)
           T == Delivered(f, routed)
           sent == SentToTier(w, k, body, shrinks)
           D == Delivered(f, sent)
<1>1. R \in SUBSET ResultBlocks /\ OneOfEach(R)
  BY DEF OneOfEach
<1>2. /\ routed \in BodiesOf(f) /\ f \in Wires /\ Carried(T, R, FALSE)
      /\ w = "anthropic" /\ k = "direct" => T = R
  <2>1. CASE w \in {"anthropic", "chat"}
    BY <1>1, <2>1, RoutedCarries
  <2>2. CASE w = "responses"
    <3>1. k = "codex"
      BY <2>2 DEF Kinds
    <3>2. f = "responses" /\ routed = body
      BY <3>1 DEF FormatOf, Routed
    <3>3. T = R /\ routed \in BodiesOf(f) /\ f \in Wires
      BY <2>2, <3>2
    <3> HIDE DEF R, T
    <3>4. Carried(R, R, FALSE)
      BY <1>1, CarriedSame
    <3> QED BY <2>2, <3>3, <3>4
  <2> QED BY <2>1, <2>2 DEF Wires
<1>3. CASE k = "direct"
  <2>1. sent = routed
    BY <1>3 DEF SentToTier
  <2>2. D = T
    BY <2>1
  <2>3. (k # "direct") = FALSE
    BY <1>3
  <2> HIDE DEF R, T, D
  <2>4. Carried(D, R, k # "direct") /\ (w = "anthropic" /\ k = "direct" => D = R)
    BY <1>2, <2>2, <2>3
  <2> QED BY <2>4 DEF R, D
<1>4. CASE k # "direct"
  <2>1. sent = Compress(f, routed, shrinks)
    BY <1>4 DEF SentToTier
  <2>2. OneOfEach(T)
    <3> HIDE DEF R, T
    <3> QED BY <1>1, <1>2, CarriedOne
  <2>3. Carried(D, T, TRUE)
    <3> HIDE DEF f, routed
    <3>1. Carried(Delivered(f, Compress(f, routed, shrinks)), Delivered(f, routed), TRUE)
      BY <1>2, <2>2, CompressCarries
    <3> QED BY <2>1, <3>1
  <2> HIDE DEF R, T, D
  <2>4. Carried(D, R, FALSE \/ TRUE)
    BY <1>1, <1>2, <2>3, CarriedOn
  <2>5. (k # "direct") = TRUE
    BY <1>4
  <2>6. Carried(D, R, TRUE)
    BY <2>4
  <2>7. Carried(D, R, k # "direct") /\ (w = "anthropic" /\ k = "direct" => D = R)
    BY <1>4, <2>5, <2>6
  <2> QED BY <2>7 DEF R, D
<1> QED BY <1>3, <1>4

\* The results of a turn in what is sent to a tier.
LEMMA TierGets ==
  ASSUME Inv, hist # <<>>, Last(hist).role = "user", NEW from \in Starts, NEW shrinks,
         Decide(config, NamesFrom(from)) = "route",
         NEW rs, rs = Results(Last(hist).content), NEW i \in DOMAIN rs,
         NEW there, there = Of(Delivered(FormatOf(kind), SentFrom(from, shrinks)), rs[i].id)
  PROVE  \/ /\ wire = "responses" /\ kind \in {"direct", "litellm"}
            /\ (i > 1 \/ from > 1) /\ there = {}
         \/ Arrives(there, rs[i], kind # "direct", wire = "anthropic" /\ kind = "direct")
<1> DEFINE h == TurnOf(from)
           R == Delivered("anthropic", h)
           body == BodyFrom(from)
           sent == SentFrom(from, shrinks)
           D == Delivered(FormatOf(kind), sent)
           r == rs[i]
           through == wire = "responses" /\ kind \in {"direct", "litellm"}
<1>1. /\ OneOfEach(R) /\ body \in BodiesOf(wire) /\ Delivered(wire, body) = R
      /\ r \in R /\ r.form \in {"long", "rich"}
  <2>1. r \in ToSet(Results(Last(hist).content))
    BY DEF ToSet
  <2> QED BY <2>1, TurnResults
<1>2. wire \in Wires /\ kind \in Kinds(wire) /\ hist \in Seq(Messages) /\ GoodHistory(hist)
  BY DEF Inv, GoodHistory
<1>3. sent = SentToTier(wire, kind, body, shrinks)
  BY DEF SentFrom
<1>4. there = Of(D, r.id)
  OBVIOUS
<1>5. R \in SUBSET R
  OBVIOUS
<1>6. from = 1 \/ from > 1
  BY StartsAre
<1>7. i \in Nat \ {0}
  <2>1. rs \in Seq(ResultBlocks)
    <3>1. Last(hist) \in Messages
      BY <1>2, LastOf
    <3>2. Last(hist).content \in Seq(Blocks)
      BY <3>1, MessageShape
    <3> QED BY <3>2, ResultsAndTexts
  <2> QED BY <2>1, PlacesOf
<1> HIDE DEF R, body, sent, D, r
<1>10. ASSUME NEW S \in SUBSET R, NEW a \in BOOLEAN, Carried(D, S, a)
       PROVE  (r \notin S => there = {}) /\ (r \in S => Arrives(there, r, a, FALSE))
  <2>1. Fits(D, S, R, a)
    BY <1>1, <1>10 DEF Fits
  <2>2. r \in R /\ r.form \in {"long", "rich"}
    BY <1>1
  <2>3. r \notin S => Of(D, r.id) = {}
    BY <2>1, <2>2, ArrivesChanged
  <2>4. r \in S => Arrives(Of(D, r.id), r, a, FALSE)
    BY <2>1, <2>2, ArrivesChanged
  <2> QED BY <1>4, <2>3, <2>4
<1>8. CASE ~through
  <2>1. D = Delivered(FormatOf(kind), SentToTier(wire, kind, body, shrinks))
    BY <1>3 DEF D
  <2>2. Carried(D, R, kind # "direct") /\ (wire = "anthropic" /\ kind = "direct" => D = R)
    BY <1>1, <1>2, <1>8, <2>1, SentCarries
  <2>3. CASE wire = "anthropic" /\ kind = "direct"
    <3>1. Arrives(Of(R, r.id), r, FALSE, TRUE)
      BY <1>1, ArrivesSame
    <3>2. there = Of(R, r.id)
      BY <1>4, <2>2, <2>3
    <3>3. Arrives(there, r, FALSE, TRUE)
      BY <3>1, <3>2
    <3> QED BY <2>3, <3>3 DEF Arrives, r
  <2>4. CASE ~(wire = "anthropic" /\ kind = "direct")
    <3> DEFINE a == kind # "direct"
    <3>1. a \in BOOLEAN /\ Carried(D, R, a)
      BY <2>2
    <3> HIDE DEF a
    <3>2. Arrives(there, r, a, FALSE)
      BY <1>1, <1>5, <1>10, <3>1
    <3> QED BY <2>4, <3>2 DEF Arrives, a, r
  <2> QED BY <2>3, <2>4
<1>9. CASE through
  <2> DEFINE ms == Flat(ItemMessage, body)
             a == kind = "litellm"
  <2>1. body \in Seq(Items) /\ \E j \in DOMAIN body : IsOutput(body[j])
    BY <1>9, RoutedBody DEF body
  <2>2. Survive(D, R, ms, a)
    <3>1. Survive(Delivered(FormatOf(kind), SentToTier("responses", kind, body, shrinks)),
                  Delivered("responses", body), ms, a)
      BY <1>1, <1>9, <2>1, SanitizedSurvive
    <3> QED BY <1>1, <1>3, <1>9, <3>1 DEF D
  <2> HIDE DEF ms, a
  <2>3. PICK S \in SUBSET R : Carried(D, S, a) /\ \A q \in R : q \notin S => ~Still(ms, q.id)
    BY <2>2 DEF Survive
  <2>4. a \in BOOLEAN /\ (kind = "direct" => ~a)
    BY <1>9 DEF a
  <2>5. CASE r \in S
    <3>1. Arrives(there, r, a, FALSE)
      BY <1>10, <2>3, <2>4, <2>5
    <3>2. wire # "anthropic"
      BY <1>9
    <3> QED BY <2>4, <3>1, <3>2 DEF Arrives, r
  <2>6. CASE r \notin S
    <3>1. there = {}
      BY <1>10, <2>3, <2>4, <2>6
    <3>2. ~Still(ms, r.id)
      BY <1>1, <2>3, <2>6
    <3>3. ASSUME from = 1, i = 1 PROVE FALSE
      <4>1. h = hist
        BY <1>2, <3>3 DEF TurnOf
      <4>2. rs # <<>>
        BY <3>3
      <4>3. Still(Flat(ItemMessage, Inbound("responses", hist)), rs[1].id)
        BY <1>2, <4>2, FirstStays
      <4>4. ms = Flat(ItemMessage, Inbound("responses", hist))
        BY <1>9, <4>1 DEF ms, body, BodyFrom, TurnOf
      <4> QED BY <3>2, <3>3, <4>3, <4>4 DEF r
    <3>4. i > 1 \/ from > 1
      BY <1>6, <1>7, <3>3
    <3> QED BY <1>9, <3>1, <3>4
  <2> QED BY <2>5, <2>6
<1> QED BY <1>8, <1>9

\* A result reaches the upstream, where D is delivered.
Reaches(there, D, r) ==
  /\ Arrives(there, r, TRUE, FALSE)
  /\ (\E x \in D : x.form \in Short) \/ Arrives(there, r, FALSE, TRUE)
  /\ (wire = "chat" /\ r.form = "rich") => \A d \in there : d.form = "rich"

\* The results of a turn in what is sent to the upstream.
LEMMA UpstreamGets ==
  ASSUME Inv, hist # <<>>, Last(hist).role = "user", NEW from \in Starts, NEW shrinks,
         NEW rs, rs = Results(Last(hist).content), NEW i \in DOMAIN rs,
         NEW sent, sent = Compress(wire, BodyFrom(from), shrinks),
         NEW there, there = Of(Delivered(wire, sent), rs[i].id)
  PROVE  Reaches(there, Delivered(wire, sent), rs[i])
<1> DEFINE h == TurnOf(from)
           R == Delivered("anthropic", h)
           body == BodyFrom(from)
           D == Delivered(wire, sent)
           r == rs[i]
<1>1. /\ OneOfEach(R) /\ body \in BodiesOf(wire) /\ Delivered(wire, body) = R
      /\ r \in R /\ r.form \in {"long", "rich"} /\ R \subseteq Delivered("anthropic", hist)
  <2>1. r \in ToSet(Results(Last(hist).content))
    BY DEF ToSet
  <2> QED BY <2>1, TurnResults
<1>2. wire \in Wires
  BY DEF Inv
<1>3. there = Of(D, r.id) /\ R \in SUBSET R /\ sent = Compress(wire, body, shrinks)
  OBVIOUS
<1>4. Carried(D, R, TRUE)
  BY <1>1, <1>2, CompressCarries
<1>5. D = R \/ \E x \in D : x.form \in Short
  <2>1. sent = body \/ \E x \in D : x.form \in Short
    BY <1>1, <1>2, CompressShortens
  <2> QED BY <1>1, <2>1
<1>9. ASSUME wire = "chat", r.form = "rich", NEW d \in there PROVE d.form = "rich"
  <2>1. d \in D /\ d.id = r.id
    BY <1>3, <1>9 DEF Of
  <2>2. body \in BodiesOf("chat") /\ Delivered("chat", body) = R
    BY <1>1, <1>9
  <2>3. d \in Delivered("chat", Compress("chat", body, shrinks))
    BY <1>3, <1>9, <2>1
  <2> HIDE DEF R, body, D, r
  <2> QED BY <1>1, <1>9, <2>1, <2>2, <2>3, ChatKeepsLists
<1> HIDE DEF R, body, D, r
<1>6. ASSUME NEW a \in BOOLEAN, Carried(D, R, a) PROVE Arrives(there, r, a, FALSE)
  <2>1. Fits(D, R, R, a)
    BY <1>1, <1>3, <1>6 DEF Fits
  <2>2. r \in R /\ r.form \in {"long", "rich"}
    BY <1>1
  <2>3. Arrives(Of(D, r.id), r, a, FALSE)
    BY <2>1, <2>2, ArrivesChanged
  <2> QED BY <1>3, <2>3
<1>7. Arrives(there, r, TRUE, FALSE)
  BY <1>4, <1>6 DEF Arrives
<1>8. ASSUME D = R PROVE Arrives(there, r, FALSE, TRUE)
  <2>1. Arrives(Of(R, r.id), r, FALSE, TRUE)
    BY <1>1, ArrivesSame
  <2>2. there = Of(R, r.id)
    BY <1>3, <1>8
  <2> QED BY <2>1, <2>2
<1> QED BY <1>5, <1>7, <1>8, <1>9 DEF Reaches, r, D

\* Every turn that is served brings its results to whoever serves it.
LEMMA ResultsNext ==
  ASSUME ConversationAssumption, Inv, TierServes \/ UpstreamServes
  PROVE  ResultsArrive'
<1> DEFINE rs == Results(Last(hist).content)
<1>1. Brought' = rs /\ wire' = wire /\ kind' = kind
  BY AskedNext, ServedGood
<1>2. CASE TierServes
  <2>1. hist # <<>> /\ Last(hist).role = "user"
    BY <1>2, TierTurns
  <2>2. PICK from \in Starts, shrinks \in Shrinks, said \in TierSays,
             ending \in Endings(kind), streaming \in BOOLEAN :
               TierTurn(from, shrinks, said, ending, streaming)
    BY <1>2, TierTurns
  <2>3. /\ turn'.by = "tier" /\ turn'.from = from /\ turn'.sent = SentFrom(from, shrinks)
        /\ Decide(config, NamesFrom(from)) = "route"
    BY <2>2 DEF TierTurn
  <2>4. Format' = FormatOf(kind) /\ (Sanitized' <=> wire = "responses" /\ kind \in {"direct", "litellm"})
    BY <1>1, <2>3 DEF Format, Sanitized
  <2> HIDE DEF rs
  <2>5. ASSUME NEW i \in DOMAIN rs
        PROVE  LET there == Of(Delivered(Format', turn'.sent), rs[i].id)
               IN \/ Sanitized' /\ (i > 1 \/ turn'.from > 1) /\ there = {}
                  \/ Arrives(there, rs[i], kind # "direct", wire = "anthropic" /\ kind = "direct")
    <3> DEFINE there == Of(Delivered(FormatOf(kind), SentFrom(from, shrinks)), rs[i].id)
    <3>1. \/ /\ wire = "responses" /\ kind \in {"direct", "litellm"}
             /\ (i > 1 \/ from > 1) /\ there = {}
          \/ Arrives(there, rs[i], kind # "direct", wire = "anthropic" /\ kind = "direct")
      BY <2>1, <2>3, TierGets DEF rs
    <3>2. there = Of(Delivered(Format', turn'.sent), rs[i].id)
      BY <2>3, <2>4
    <3> HIDE DEF there
    <3> QED BY <2>3, <2>4, <3>1, <3>2
  <2> QED BY <1>1, <2>3, <2>5 DEF ResultsArrive, Arrives, Of
<1>3. CASE UpstreamServes
  <2>1. hist # <<>> /\ Last(hist).role = "user"
    BY <1>3, UpstreamTurns
  <2>2. PICK from \in Starts, shrinks \in Shrinks, said \in UpstreamSays :
          UpstreamTurn(from, shrinks, said)
    BY <1>3, UpstreamTurns
  <2>3. /\ turn'.by = "upstream" /\ turn'.sent = Compress(wire, BodyFrom(from), shrinks)
        /\ Format' = wire
    BY <1>1, <2>2 DEF UpstreamTurn, Format
  <2> DEFINE D == Delivered(wire, turn'.sent)
             short == \E x \in D : x.form \in Short
  <2> HIDE DEF rs
  <2>5. ASSUME NEW i \in DOMAIN rs PROVE Reaches(Of(D, rs[i].id), D, rs[i])
    <3> DEFINE sent == Compress(wire, BodyFrom(from), shrinks)
               there == Of(Delivered(wire, sent), rs[i].id)
    <3>1. Inv /\ from \in Starts /\ rs = Results(Last(hist).content)
      BY <2>2 DEF rs
    <3>2. D = Delivered(wire, sent)
      BY <2>3
    <3> HIDE DEF D
    <3>3. Reaches(there, Delivered(wire, sent), rs[i])
      BY <2>1, <2>5, <3>1, UpstreamGets
    <3> QED BY <3>2, <3>3
  <2>6. Delivered(Format', turn'.sent) = D /\ wire' = wire
    BY <1>1, <2>3
  <2> HIDE DEF D
  <2>7. ASSUME NEW i \in DOMAIN rs
        PROVE  LET there == {d \in D : d.id = rs[i].id}
               IN \E d \in there :
                    /\ there = {d}
                    /\ rs[i].form = "long" => d.form \in {"long", "crushed"}
                    /\ rs[i].form = "rich" => d.form \in {"rich", "texts", "repr", "digest"}
                    /\ d.form # rs[i].form => short
                    /\ (wire = "chat" /\ rs[i].form = "rich") => d.form = "rich"
    <3> DEFINE there == Of(D, rs[i].id)
    <3>1. /\ Arrives(there, rs[i], TRUE, FALSE)
          /\ short \/ Arrives(there, rs[i], FALSE, TRUE)
          /\ (wire = "chat" /\ rs[i].form = "rich") => \A d \in there : d.form = "rich"
      BY <2>5 DEF Reaches
    <3>2. there = {d \in D : d.id = rs[i].id}
      BY DEF Of
    <3> HIDE DEF there, short
    <3> QED BY <3>1, <3>2 DEF Arrives
  <2> QED BY <1>1, <2>3, <2>6, <2>7 DEF ResultsArrive, D
<1> QED BY <1>2, <1>3

(***************************************************************************)
(* Whoever answers gets each result a turn brings, once, its own, and in a *)
(* form that follows from its own: on every path, in a conversation of any *)
(* length, whatever is compressed.  What the sanitized path loses is never *)
(* the first result of a conversation sent whole.                          *)
(***************************************************************************)
THEOREM EveryResultArrives == Spec => []ResultsArrive
<1>1. ConversationAssumption
  BY ConversationAssumption
<1>2. Init => Inv /\ ResultsArrive
  <2>1. Init => ResultsArrive
    BY NobodysTurn DEF Init, ResultsArrive
  <2> QED BY <1>1, <2>1, InvInit
<1>3. Inv /\ ResultsArrive /\ [Next]_vars => (Inv /\ ResultsArrive)'
  <2> SUFFICES ASSUME Inv, ResultsArrive, [Next]_vars PROVE ResultsArrive'
    BY <1>1, InvNext
  <2>1. CASE ClientTurn
    <3>1. turn'.by = "nobody"
      BY <1>1, <2>1, ClientGood, NobodysTurn
    <3> QED BY <3>1 DEF ResultsArrive
  <2>2. CASE TierServes \/ UpstreamServes
    BY <1>1, <2>2, ResultsNext
  <2>3. CASE UNCHANGED vars
    BY <2>3 DEF vars, ResultsArrive, Brought, Asked, Format, Sanitized
  <2> QED BY <2>1, <2>2, <2>3 DEF Next, ClientTurn
<1> QED BY <1>2, <1>3, PTL DEF Spec
=============================================================================
