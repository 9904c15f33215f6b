-------------------------- MODULE AccountingProofs --------------------------
(***************************************************************************)
(* Proofs about Accounting, for any set of turns, any number of rows kept  *)
(* in memory and any number of crashes.                                    *)
(***************************************************************************)
EXTENDS Accounting, FiniteSetTheorems, SequenceTheorems, TLAPS

\* The beginning of a sequence.
LEMMA PrefixOfSeq ==
  ASSUME NEW S, NEW s \in Seq(S), NEW n \in Nat, n <= Len(s)
  PROVE  /\ SubSeq(s, 1, n) \in Seq(S) /\ Len(SubSeq(s, 1, n)) = n
         /\ \A i \in 1..n : SubSeq(s, 1, n)[i] = s[i]
<1>1. 1 \in Int /\ n \in Int /\ \A i \in 1..n : s[i] \in S
  BY LenProperties, ElementOfSeq
<1> QED BY <1>1, SubSeqProperties

\* What the books are left with when an entry is written: the lines before the
\* last one, and the entry at the end, behind an unended line if there is one.
LEMMA EntryIsLast ==
  ASSUME NEW log \in Seq(Line), NEW t \in Turns, NEW text \in Texts, NEW ended \in BOOLEAN,
         NEW new, new = AppendText(log, t, text, ended)
  PROVE  /\ new \in Seq(Line) /\ Len(new) >= 1
         /\ \A i \in 1..(Len(new) - 1) : i \in 1..Len(log) /\ new[i] = log[i]
         /\ \/ /\ Len(new) = Len(log) + 1
               /\ new[Len(new)].texts = {[turn |-> t, text |-> text]}
            \/ /\ Len(new) = Len(log) /\ ~log[Len(log)].ended
               /\ new[Len(new)].texts = log[Len(log)].texts \cup {[turn |-> t, text |-> text]}
<1> DEFINE entry == [turn |-> t, text |-> text]
           first == [texts |-> {entry}, ended |-> ended]
           glued == [texts |-> Last(log).texts \cup {entry}, ended |-> ended]
<1>1. entry \in [turn : Turns, text : Texts]
  OBVIOUS
<1>2. CASE log # << >> /\ ~Last(log).ended
  <2>1. Len(log) \in Nat /\ Len(log) >= 1 /\ Last(log) = log[Len(log)] /\ Last(log) \in Line
    BY <1>2, EmptySeq DEF Last
  <2>2. glued \in Line
    BY <1>1, <2>1 DEF Line
  <2>3. /\ Front(log) \in Seq(Line) /\ Len(Front(log)) = Len(log) - 1
        /\ \A i \in 1..(Len(log) - 1) : Front(log)[i] = log[i]
    <3> DEFINE m == Len(log) - 1
    <3>1. m \in Nat /\ m <= Len(log)
      BY <2>1
    <3>2. Front(log) = SubSeq(log, 1, m)
      BY DEF Front
    <3> HIDE DEF m
    <3>3. /\ SubSeq(log, 1, m) \in Seq(Line) /\ Len(SubSeq(log, 1, m)) = m
          /\ \A i \in 1..m : SubSeq(log, 1, m)[i] = log[i]
      BY <3>1, PrefixOfSeq
    <3>4. /\ Front(log) \in Seq(Line) /\ Len(Front(log)) = m
          /\ \A i \in 1..m : Front(log)[i] = log[i]
      BY <3>2, <3>3
    <3> QED BY <3>4 DEF m
  <2>4. new = Front(log) \o <<glued>>
    BY <1>2 DEF AppendText
  <2>5. <<glued>> \in Seq(Line) /\ Len(<<glued>>) = 1 /\ <<glued>>[1] = glued
    BY <2>2
  <2> HIDE DEF glued
  <2>6. /\ new \in Seq(Line) /\ Len(new) = Len(log)
        /\ \A i \in 1..(Len(log) - 1) : new[i] = log[i]
        /\ new[Len(log)] = glued
    BY <2>1, <2>3, <2>4, <2>5, ConcatProperties
  <2>7. new[Len(new)].texts = log[Len(log)].texts \cup {entry}
    BY <2>1, <2>6 DEF glued
  <2> QED BY <1>2, <2>1, <2>6, <2>7
<1>3. CASE ~(log # << >> /\ ~Last(log).ended)
  <2>1. first \in Line
    BY <1>1 DEF Line
  <2>2. new = Append(log, first)
    BY <1>3 DEF AppendText
  <2> HIDE DEF first
  <2>3. /\ new \in Seq(Line) /\ Len(new) = Len(log) + 1
        /\ \A i \in 1..Len(log) : new[i] = log[i]
        /\ new[Len(log) + 1] = first
    BY <2>1, <2>2, AppendProperties
  <2>4. new[Len(new)].texts = {entry}
    BY <2>3 DEF first
  <2> QED BY <2>3, <2>4, LenProperties
<1> QED BY <1>2, <1>3

\* The newest rows are the first ones.
LEMMA NewestAreFirst ==
  ASSUME NEW S, NEW rows \in Seq(S)
  PROVE  /\ Newest(rows) \in Seq(S)
         /\ Len(Newest(rows)) = IF Len(rows) <= MaxRecent THEN Len(rows) ELSE MaxRecent
         /\ \A i \in 1..Len(Newest(rows)) : i \in 1..Len(rows) /\ Newest(rows)[i] = rows[i]
<1> DEFINE n == IF Len(rows) <= MaxRecent THEN Len(rows) ELSE MaxRecent
<1>1. n \in Nat /\ n <= Len(rows) /\ Len(rows) \in Nat
  BY BoundsAssumption, LenProperties
<1>2. Newest(rows) = SubSeq(rows, 1, n)
  BY DEF Newest
<1> HIDE DEF n
<1>3. /\ SubSeq(rows, 1, n) \in Seq(S) /\ Len(SubSeq(rows, 1, n)) = n
      /\ \A i \in 1..n : SubSeq(rows, 1, n)[i] = rows[i]
  BY <1>1, PrefixOfSeq
<1> QED BY <1>1, <1>2, <1>3 DEF n

\* A list read backwards.
LEMMA Reversed ==
  ASSUME NEW S, NEW rows \in Seq(S)
  PROVE  /\ Reverse(rows) \in Seq(S) /\ Len(Reverse(rows)) = Len(rows)
         /\ \A i \in 1..Len(rows) : Reverse(rows)[i] = rows[Len(rows) - i + 1]
<1>1. Len(rows) \in Nat /\ \A i \in 1..Len(rows) : rows[(Len(rows) - i) + 1] \in S
  BY LenProperties, ElementOfSeq
<1> DEFINE n == Len(rows)
           f == [i \in 1..n |-> rows[(n - i) + 1]]
<1>2. Reverse(rows) = f
  BY DEF Reverse
<1>3. f \in [1..n -> S] /\ \A i \in 1..n : f[i] = rows[(n - i) + 1]
  BY <1>1
<1> HIDE DEF f
<1>4. f \in Seq(S) /\ Len(f) = n
  BY <1>1, <1>3, LenProperties
<1> QED BY <1>1, <1>2, <1>3, <1>4

\* The row that is closed: the first or the last one of the turn with its id.
Picked(rows, t, newestFirst) ==
  LET mine == {i \in DOMAIN rows : rows[i].turn = t /\ rows[i].keyed}
  IN  {i \in mine : \A j \in mine : IF newestFirst THEN i <= j ELSE j <= i}

\* The row as it was, with this usage.
SameButUsage(row, old, usage) ==
  /\ row \in Row /\ row.turn = old.turn /\ row.route = old.route
  /\ row.keyed = old.keyed /\ row.source = old.source /\ row.usage = usage
  /\ usage = old.usage => row = old

\* What closing a row changes, and in which row.
LEMMA OneRowClosed ==
  ASSUME NEW rows \in Seq(Row), NEW t \in Turns, NEW usage \in {"none", "upstream"},
         NEW newestFirst
  PROVE  /\ CloseUsage(rows, t, usage, newestFirst) \in Seq(Row)
         /\ Len(CloseUsage(rows, t, usage, newestFirst)) = Len(rows)
         /\ \A i \in 1..Len(rows) :
              SameButUsage(CloseUsage(rows, t, usage, newestFirst)[i], rows[i],
                           IF i \in Picked(rows, t, newestFirst) THEN usage ELSE rows[i].usage)
<1> DEFINE new == CloseUsage(rows, t, usage, newestFirst)
           pick == Picked(rows, t, newestFirst)
<1> DEFINE n == Len(rows)
<1>1. n \in Nat /\ DOMAIN rows = 1..n /\ \A i \in 1..n : rows[i] \in Row
  BY LenProperties, ElementOfSeq
<1>2. new = [i \in 1..n |-> IF i \in pick THEN [rows[i] EXCEPT !.usage = usage] ELSE rows[i]]
  BY <1>1 DEF CloseUsage, Picked
<1> HIDE DEF new, pick
<1>3. \A row \in Row :
        /\ SameButUsage([row EXCEPT !.usage = usage], row, usage)
        /\ SameButUsage(row, row, row.usage)
  BY DEF Row, SameButUsage
<1>4. new \in [1..n -> Row]
  BY <1>1, <1>2, <1>3 DEF SameButUsage
<1>5. new \in Seq(Row) /\ Len(new) = n
  BY <1>1, <1>4, LenProperties
<1>6. \A i \in 1..n : new[i] = IF i \in pick THEN [rows[i] EXCEPT !.usage = usage] ELSE rows[i]
  BY <1>2
<1>7. ASSUME NEW i \in 1..n
      PROVE  SameButUsage(new[i], rows[i], IF i \in pick THEN usage ELSE rows[i].usage)
  BY <1>1, <1>3, <1>6
<1> QED BY <1>5, <1>7 DEF new, pick

\* Counted from the largest, a finite set of numbers has a k-th element for
\* every k up to its size.
LEMMA KthLargest ==
  ASSUME NEW m \in Nat, NEW good \in SUBSET (1..m)
  PROVE  /\ Cardinality(good) \in Nat
         /\ \A k \in 1..Cardinality(good) :
              \E i \in good : Cardinality({j \in good : i <= j}) = k
<1> DEFINE n == Cardinality(good)
           upward(i) == {j \in good : i <= j}
           rank == [i \in good |-> Cardinality(upward(i))]
<1>1. IsFiniteSet(good) /\ n \in Nat
  <2>1. 1 \in Int /\ m \in Int /\ IsFiniteSet(1..m)
    BY FS_Interval
  <2>2. IsFiniteSet(good)
    BY <2>1, FS_Subset
  <2> QED BY <2>2, FS_CardinalityType
<1>8. \A i \in good : i \in Int
  OBVIOUS
<1>2. \A i \in good : upward(i) \in SUBSET good /\ IsFiniteSet(upward(i)) /\ i \in upward(i)
  <2>1. \A i \in good : upward(i) \in SUBSET good /\ i \in upward(i)
    OBVIOUS
  <2> QED BY <1>1, <2>1, FS_Subset
<1>3. rank \in [good -> 1..n]
  <2>1. \A i \in good : Cardinality(upward(i)) \in Nat /\ Cardinality(upward(i)) <= n
    BY <1>1, <1>2, FS_Subset, FS_CardinalityType
  <2>2. \A i \in good : Cardinality(upward(i)) # 0
    <3>1. \A i \in good : upward(i) # {}
      BY <1>2
    <3> QED BY <1>2, <3>1, FS_EmptySet
  <2> HIDE DEF upward, n
  <2>3. \A i \in good : Cardinality(upward(i)) \in 1..n
    BY <1>1, <2>1, <2>2 DEF n
  <2> QED BY <2>3
<1>4. \A i, j \in good : i < j => rank[i] # rank[j]
  <2> SUFFICES ASSUME NEW i \in good, NEW j \in good, i < j
               PROVE  Cardinality(upward(i)) # Cardinality(upward(j))
    OBVIOUS
  <2>1. upward(j) \in SUBSET upward(i) /\ i \notin upward(j)
    <3>1. /\ \A x \in good : j <= x => i <= x
          /\ ~(j <= i)
      BY <1>8
    <3> QED BY <3>1
  <2>2. upward(i) # upward(j)
    BY <1>2, <2>1
  <2> HIDE DEF upward
  <2> QED BY <1>2, <2>1, <2>2, FS_Subset
<1>5. rank \in Injection(good, 1..n)
  <2>1. \A i, j \in good : rank[i] = rank[j] => i = j
    BY <1>4
  <2> HIDE DEF rank, n
  <2> QED BY <1>3, <2>1 DEF Injection, IsInjective
<1>6. IsFiniteSet(1..n) /\ Cardinality(1..n) = n
  <2>1. 1 \in Int /\ n \in Int /\ (n < 1 => n = 0)
    BY <1>1
  <2> HIDE DEF n
  <2> QED BY <2>1, FS_Interval
<1>7. rank \in Surjection(good, 1..n)
  BY <1>5, <1>6, FS_Injection
<1> QED BY <1>1, <1>7 DEF Surjection

\* The rows made from a ledger are rows of the engine's kind.
LEMMA LedgerRowsTyped ==
  ASSUME NEW log \in Seq(Line)
  PROVE  /\ LedgerRows(log) \in Seq(Row)
         /\ \A i \in 1..Len(LedgerRows(log)) :
              \E t \in Turns : LedgerRows(log)[i] = LedgerRow(t)
<1> DEFINE good == {i \in DOMAIN log : Parsed(log[i]) # {}}
           n == Cardinality(good)
           nth(k) == CHOOSE i \in good : Cardinality({j \in good : i <= j}) = k
           turn(k) == CHOOSE t \in Parsed(log[nth(k)]) : TRUE
<1>1. Len(log) \in Nat /\ good \in SUBSET (1..Len(log))
  BY LenProperties
<1>2. n \in Nat /\ \A k \in 1..n : nth(k) \in good
  <2> HIDE DEF good
  <2>1. n \in Nat /\ \A k \in 1..n : \E i \in good : Cardinality({j \in good : i <= j}) = k
    BY <1>1, KthLargest
  <2> QED BY <2>1
<1>3. \A k \in 1..n : turn(k) \in Turns
  <2>1. \A i \in good : Parsed(log[i]) # {} /\ Parsed(log[i]) \subseteq Turns
    BY DEF Parsed
  <2> HIDE DEF nth, good
  <2>2. \A k \in 1..n : Parsed(log[nth(k)]) # {} /\ Parsed(log[nth(k)]) \subseteq Turns
    BY <1>2, <2>1
  <2> QED BY <2>2
<1>4. \A t \in Turns : LedgerRow(t) \in Row
  BY DEF LedgerRow, Row
<1>5. LedgerRows(log) = [k \in 1..n |-> LedgerRow(turn(k))]
  BY DEF LedgerRows
<1> HIDE DEF turn, n
<1>6. /\ LedgerRows(log) \in [1..n -> Row]
      /\ \A k \in 1..n : LedgerRows(log)[k] = LedgerRow(turn(k))
  BY <1>3, <1>4, <1>5
<1>7. LedgerRows(log) \in Seq(Row) /\ Len(LedgerRows(log)) = n
  BY <1>2, <1>6, LenProperties
<1> QED BY <1>3, <1>6, <1>7
-----------------------------------------------------------------------------
(* Types. *)

\* The initial state has the variables' types.
LEMMA InitTyped == Init => TypeOK
<1> SUFFICES ASSUME Init
             PROVE  TypeOK
  OBVIOUS
<1>1. << >> \in Seq(Line) /\ << >> \in Seq(Row) /\ Len(<< >>) = 0 /\ 0 <= MaxRecent
  BY BoundsAssumption, EmptySeq
<1>2. Zero \in [Gauges -> [Turns -> Nat]]
  BY DEF Zero
<1>3. /\ server \in {"down", "up", "failed"} /\ crashes \in 0..MaxCrashes
      /\ boot \in {"full", "ledger_unread", "history_unread"}
      /\ stage \in [Turns -> Stages] /\ keyed \in [Turns -> BOOLEAN]
  BY BoundsAssumption DEF Init, Stages
<1>4. failed \in BOOLEAN
  BY DEF Init
<1> QED BY <1>1, <1>2, <1>3, <1>4 DEF Init, TypeOK

\* What recording a row does: it is put before the others, of which the oldest
\* may fall off, and is appended to the database if that accepts it.
LEMMA Recorded ==
  ASSUME recent \in Seq(Row), Len(recent) <= MaxRecent, history \in Seq(Row),
         failed \in BOOLEAN, NEW row \in Row, NEW accepted \in BOOLEAN, Record(row, accepted)
  PROVE  /\ recent' \in Seq(Row) /\ Len(recent') <= MaxRecent
         /\ Len(recent') = IF Len(recent) < MaxRecent THEN Len(recent) + 1 ELSE MaxRecent
         /\ Len(recent') >= 1 /\ recent'[1] = row
         /\ \A i \in 2..Len(recent') : i - 1 \in 1..Len(recent) /\ recent'[i] = recent[i-1]
         /\ history' \in Seq(Row) /\ failed' \in BOOLEAN
         /\ accepted => /\ Len(history') = Len(history) + 1
                        /\ history'[Len(history) + 1] = row
                        /\ \A i \in 1..Len(history) : history'[i] = history[i]
         /\ ~accepted => history' = history /\ failed'
         /\ ~failed' => ~failed /\ accepted
<1> DEFINE all == <<row>> \o recent
<1>1. <<row>> \in Seq(Row) /\ Len(<<row>>) = 1 /\ <<row>>[1] = row
  OBVIOUS
<1>2. Len(recent) \in Nat /\ MaxRecent \in Nat /\ MaxRecent >= 1
  BY BoundsAssumption, LenProperties
<1>3. /\ all \in Seq(Row) /\ Len(all) = Len(recent) + 1 /\ all[1] = row
      /\ \A i \in 2..Len(all) : all[i] = recent[i-1]
  BY <1>1, <1>2, ConcatProperties
<1> HIDE DEF all
<1>4. recent' = Newest(all)
  BY DEF Record, all
<1>5. /\ recent' \in Seq(Row)
      /\ Len(recent') = IF Len(all) <= MaxRecent THEN Len(all) ELSE MaxRecent
      /\ \A i \in 1..Len(recent') : recent'[i] = all[i]
  BY <1>3, <1>4, NewestAreFirst
<1>6. /\ Len(recent') <= MaxRecent
      /\ Len(recent') = IF Len(recent) < MaxRecent THEN Len(recent) + 1 ELSE MaxRecent
      /\ Len(recent') >= 1 /\ recent'[1] = row
      /\ \A i \in 2..Len(recent') : i - 1 \in 1..Len(recent) /\ recent'[i] = recent[i-1]
  BY <1>2, <1>3, <1>5
<1>7. /\ history' \in Seq(Row) /\ failed' \in BOOLEAN
      /\ accepted => /\ Len(history') = Len(history) + 1
                     /\ history'[Len(history) + 1] = row
                     /\ \A i \in 1..Len(history) : history'[i] = history[i]
      /\ ~accepted => history' = history /\ failed'
      /\ ~failed' => ~failed /\ accepted
  <2>1. /\ Append(history, row) \in Seq(Row) /\ Len(Append(history, row)) = Len(history) + 1
        /\ Append(history, row)[Len(history) + 1] = row
        /\ \A i \in 1..Len(history) : Append(history, row)[i] = history[i]
    BY AppendProperties
  <2> QED BY <2>1 DEF Record
<1> QED BY <1>5, <1>6, <1>7

First(rows, t, i) ==
  /\ i \in DOMAIN rows /\ rows[i].turn = t /\ rows[i].keyed
  /\ \A j \in DOMAIN rows : rows[j].turn = t /\ rows[j].keyed => i <= j

Latest(rows, t, i) ==
  /\ i \in DOMAIN rows /\ rows[i].turn = t /\ rows[i].keyed
  /\ \A j \in DOMAIN rows : rows[j].turn = t /\ rows[j].keyed => j <= i

\* What the end of a relay does to the rows: the newest of the turn is closed
\* in memory and, if the database accepts it, there.
LEMMA UsageClosed ==
  ASSUME recent \in Seq(Row), history \in Seq(Row), NEW t \in Turns,
         NEW told \in BOOLEAN, NEW accepted \in BOOLEAN, RecordUsage(t, told, accepted),
         NEW usage, usage = IF told THEN "upstream" ELSE "none"
  PROVE  /\ recent' \in Seq(Row) /\ Len(recent') = Len(recent)
         /\ \A i \in 1..Len(recent) :
              SameButUsage(recent'[i], recent[i],
                           IF First(recent, t, i) THEN usage ELSE recent[i].usage)
         /\ history' \in Seq(Row) /\ Len(history') = Len(history)
         /\ accepted => \A i \in 1..Len(history) :
              SameButUsage(history'[i], history[i],
                           IF Latest(history, t, i) THEN usage ELSE history[i].usage)
         /\ ~accepted => history' = history
<1>1. usage \in {"none", "upstream"}
  OBVIOUS
<1>2. /\ recent' = CloseUsage(recent, t, usage, TRUE)
      /\ history' = IF accepted THEN CloseUsage(history, t, usage, FALSE) ELSE history
  BY DEF RecordUsage
<1>3. \A f : \A rows \in Seq(Row) :
        /\ CloseUsage(rows, t, usage, f) \in Seq(Row)
        /\ Len(CloseUsage(rows, t, usage, f)) = Len(rows)
        /\ \A i \in 1..Len(rows) :
             SameButUsage(CloseUsage(rows, t, usage, f)[i], rows[i],
                          IF i \in Picked(rows, t, f) THEN usage ELSE rows[i].usage)
  BY <1>1, OneRowClosed
<1>4. \A i : /\ i \in Picked(recent, t, TRUE) <=> First(recent, t, i)
             /\ i \in Picked(history, t, FALSE) <=> Latest(history, t, i)
  BY DEF Picked, First, Latest
<1>5. /\ recent' \in Seq(Row) /\ Len(recent') = Len(recent)
      /\ \A i \in 1..Len(recent) :
           SameButUsage(recent'[i], recent[i],
                        IF First(recent, t, i) THEN usage ELSE recent[i].usage)
  BY <1>2, <1>3, <1>4
<1>6. CASE accepted
  <2>1. history' = CloseUsage(history, t, usage, FALSE)
    BY <1>2, <1>6
  <2> QED BY <1>3, <1>4, <1>5, <1>6, <2>1
<1>7. CASE ~accepted
  BY <1>2, <1>5, <1>7
<1> QED BY <1>6, <1>7

\* The cardinalities that are restored are numbers.
LEMMA CountsTyped ==
  ASSUME ledger \in Seq(Line), history \in Seq(Row), NEW t \in Turns
  PROVE  Entries(ledger, t) \in Nat /\ PremiumSum(t) \in Nat
<1>1. DOMAIN ledger = 1..Len(ledger) /\ DOMAIN history = 1..Len(history)
  BY LenProperties
<1>2. IsFiniteSet(DOMAIN ledger) /\ IsFiniteSet(DOMAIN history)
  BY <1>1, LenProperties, FS_Interval
<1> DEFINE e == {i \in DOMAIN ledger : t \in Parsed(ledger[i])}
           p == {i \in DOMAIN history :
                   /\ history[i].turn = t /\ history[i].route = "premium"
                   /\ history[i].usage # "none"}
<1>3. IsFiniteSet(e) /\ IsFiniteSet(p)
  BY <1>2, FS_Subset
<1> QED BY <1>3, FS_CardinalityType DEF Entries, PremiumSum

\* Adding amounts to the totals leaves them numbers.
LEMMA AddTyped ==
  ASSUME live \in [Gauges -> [Turns -> Nat]], NEW t \in Turns, NEW gauges, Add(One(t, gauges))
  PROVE  /\ live' \in [Gauges -> [Turns -> Nat]]
         /\ \A g \in Gauges, s \in Turns :
              /\ live'[g][s] = live[g][s] + (IF s = t /\ g \in gauges THEN 1 ELSE 0)
              /\ s # t \/ g \notin gauges => live'[g][s] = live[g][s]
<1>1. live' = [g \in Gauges |-> [s \in Turns |->
                 live[g][s] + (IF s = t /\ g \in gauges THEN 1 ELSE 0)]]
  BY DEF Add, One
<1> QED BY <1>1

\* Starting, failing to start and dying keep the types.
LEMMA ProcessTyped ==
  ASSUME TypeOK, Process
  PROVE  TypeOK'
<1>1. ASSUME NEW read \in BOOLEAN, Start(read)
      PROVE  TypeOK'
  <2> DEFINE saved == IF read THEN Newest(Reverse(history)) ELSE << >>
  <2>1. saved \in Seq(Row) /\ Len(saved) <= MaxRecent
    BY Reversed, NewestAreFirst, EmptySeq, LenProperties, BoundsAssumption DEF TypeOK
  <2>2. Newest(LedgerRows(ledger)) \in Seq(Row) /\ Len(Newest(LedgerRows(ledger))) <= MaxRecent
    BY LedgerRowsTyped, NewestAreFirst, LenProperties, BoundsAssumption DEF TypeOK
  <2>3. recent' \in Seq(Row) /\ Len(recent') <= MaxRecent
    BY <1>1, <2>1, <2>2 DEF Start
  <2>4. live' \in [Gauges -> [Turns -> Nat]]
    BY <1>1, CountsTyped DEF Start, TypeOK
  <2> QED BY <1>1, <2>3, <2>4 DEF Start, TypeOK
<1>2. CASE StartWithoutLedger \/ StartFails
  BY <1>2 DEF StartWithoutLedger, StartFails, TypeOK
<1>3. CASE Crash
  <2>1. << >> \in Seq(Row) /\ Len(<< >>) <= MaxRecent
    BY BoundsAssumption, EmptySeq
  <2>2. Zero \in [Gauges -> [Turns -> Nat]]
    BY DEF Zero
  <2>3. stage' \in [Turns -> Stages] /\ crashes' \in 0..MaxCrashes
    BY <1>3, BoundsAssumption DEF Crash, TypeOK, Stages
  <2> QED BY <1>3, <2>1, <2>2, <2>3 DEF Crash, TypeOK
<1> QED BY <1>1, <1>2, <1>3 DEF Process

\* A step of a turn keeps the types.
LEMMA TurnTyped ==
  ASSUME TypeOK, NEW t \in Turns, Turn(t)
  PROVE  TypeOK'
<1>1. ASSUME NEW withId \in BOOLEAN, Route(t, withId)
      PROVE  TypeOK'
  BY <1>1 DEF Route, Move, TypeOK, Stages, process
<1>2. CASE Decline(t) \/ SkipLedger(t) \/ ChmodFails(t) \/ EndWithoutUsage(t)
  BY <1>2 DEF Decline, SkipLedger, ChmodFails, EndWithoutUsage, Move, TypeOK, Stages, process
<1>3. ASSUME NEW text \in Texts, AppendLine(t, text) \/ TearLine(t, text)
      PROVE  TypeOK'
  <2>1. ledger' \in Seq(Line)
    BY <1>3, EntryIsLast DEF AppendLine, TearLine, TypeOK
  <2> QED BY <1>3, <2>1 DEF AppendLine, TearLine, Move, TypeOK, Stages, process
<1>4. CASE AddSavings(t)
  <2>1. live' \in [Gauges -> [Turns -> Nat]]
    BY <1>4, AddTyped DEF AddSavings, TypeOK
  <2> QED BY <1>4, <2>1 DEF AddSavings, Move, TypeOK, Stages, process
<1>5. ASSUME NEW accepted \in BOOLEAN, NEW shaped \in BOOLEAN, RecordRouted(t, accepted, shaped)
      PROVE  TypeOK'
  <2> DEFINE row == [turn |-> t, route |-> "routed", keyed |-> keyed[t],
                     usage |-> "own", source |-> "live"]
  <2>1. row \in Row
    BY DEF Row, TypeOK
  <2>2. Record(row, accepted)
    BY <1>5 DEF RecordRouted
  <2> HIDE DEF row
  <2>3. /\ recent' \in Seq(Row) /\ Len(recent') <= MaxRecent
        /\ history' \in Seq(Row) /\ failed' \in BOOLEAN
    BY <2>1, <2>2, Recorded DEF TypeOK
  <2>4. live' \in [Gauges -> [Turns -> Nat]]
    BY <1>5, AddTyped DEF RecordRouted, TypeOK
  <2> QED BY <1>5, <2>3, <2>4 DEF RecordRouted, Move, TypeOK, Stages, process
<1>6. ASSUME NEW accepted \in BOOLEAN, RecordPremium(t, accepted)
      PROVE  TypeOK'
  <2> DEFINE row == [turn |-> t, route |-> "premium", keyed |-> TRUE,
                     usage |-> "none", source |-> "live"]
  <2>1. row \in Row
    BY DEF Row
  <2>2. Record(row, accepted)
    BY <1>6 DEF RecordPremium
  <2> HIDE DEF row
  <2>3. /\ recent' \in Seq(Row) /\ Len(recent') <= MaxRecent
        /\ history' \in Seq(Row) /\ failed' \in BOOLEAN
    BY <2>1, <2>2, Recorded DEF TypeOK
  <2> QED BY <1>6, <2>3 DEF RecordPremium, Move, TypeOK, Stages, process
<1>7. ASSUME NEW told \in BOOLEAN, NEW accepted \in BOOLEAN, RecordUsage(t, told, accepted)
      PROVE  TypeOK'
  <2>1. /\ recent' \in Seq(Row) /\ Len(recent') = Len(recent)
        /\ history' \in Seq(Row)
    BY <1>7, UsageClosed DEF TypeOK
  <2>2. live' \in [Gauges -> [Turns -> Nat]]
    BY <1>7, AddTyped DEF RecordUsage, TypeOK
  <2> QED BY <1>7, <2>1, <2>2 DEF RecordUsage, Move, TypeOK, Stages, process
<1> QED BY <1>1, <1>2, <1>3, <1>4, <1>5, <1>6, <1>7 DEF Turn, Texts
\* Every step keeps the types.
LEMMA StepTyped == TypeOK /\ [Next]_vars => TypeOK'
<1> SUFFICES ASSUME TypeOK, [Next]_vars
             PROVE  TypeOK'
  OBVIOUS
<1>1. CASE Process
  BY <1>1, ProcessTyped
<1>2. ASSUME NEW t \in Turns, Turn(t)
      PROVE  TypeOK'
  BY <1>2, TurnTyped
<1>3. CASE UNCHANGED vars
  BY <1>3 DEF TypeOK, vars
<1> QED BY <1>1, <1>2, <1>3 DEF Next

\* Type correctness: every reachable state of the books is well typed.
THEOREM TypeCorrect == Spec => []TypeOK
BY InitTyped, StepTyped, PTL DEF Spec

-----------------------------------------------------------------------------
(* The ledger. *)

\* A turn is backed by an entry of some line.
LEMMA BackedAt ==
  ASSUME ledger \in Seq(Line), NEW t
  PROVE  Backed(t) <=> \E i \in 1..Len(ledger) : \E e \in ledger[i].texts :
                          e.turn = t /\ e.text \in {"whole", "split"}
BY LenProperties DEF Backed, Range

\* What writing an entry does to the lines: it adds one of that turn, loses none
\* of the others and leaves an ended line alone.
LEMMA EntryWritten ==
  ASSUME ledger \in Seq(Line), NEW t \in Turns, NEW text \in Texts, NEW ended \in BOOLEAN,
         ledger' = AppendText(ledger, t, text, ended)
  PROVE  /\ \A s \in Turns : s # t => Mentions(s)' = Mentions(s)
         /\ Mentions(t) = {} => \A i, j \in Mentions(t)' : i = j
         /\ \A s \in Turns : Backed(s) => Backed(s)'
         /\ text \in {"whole", "split"} => Backed(t)'
         /\ \A i \in DOMAIN ledger : ledger[i].ended =>
              i \in DOMAIN ledger' /\ ledger'[i] = ledger[i]
<1> DEFINE n == Len(ledger')
           entry == [turn |-> t, text |-> text]
<1>1. /\ ledger' \in Seq(Line) /\ n >= 1
      /\ \A i \in 1..(n - 1) : i \in 1..Len(ledger) /\ ledger'[i] = ledger[i]
      /\ \/ n = Len(ledger) + 1 /\ ledger'[n].texts = {entry}
         \/ /\ n = Len(ledger) /\ ~ledger[Len(ledger)].ended
            /\ ledger'[n].texts = ledger[Len(ledger)].texts \cup {entry}
  BY EntryIsLast
<1>2. n \in Nat /\ DOMAIN ledger' = 1..n
  BY <1>1, LenProperties
<1>12. Len(ledger) \in Nat /\ DOMAIN ledger = 1..Len(ledger)
  BY LenProperties
<1>3. entry.turn = t /\ entry.text = text
  OBVIOUS
<1> HIDE DEF n, entry
<1> DEFINE old == DOMAIN ledger
           new == DOMAIN ledger'
<1>6. /\ n \in new /\ old \subseteq new
      /\ \A i \in new : i # n => i \in old /\ ledger'[i] = ledger[i]
      /\ \/ n \notin old /\ ledger'[n].texts = {entry}
         \/ n \in old /\ ~ledger[n].ended /\ ledger'[n].texts = ledger[n].texts \cup {entry}
  <2>1. n \in 1..n /\ \A i \in 1..n : i # n => i \in 1..(n - 1)
    <3>1. n \in Nat /\ n >= 1
      BY <1>1, <1>2
    <3> QED BY <3>1
  <2>2. CASE n = Len(ledger) + 1 /\ ledger'[n].texts = {entry}
    <3>1. n \notin 1..Len(ledger) /\ 1..Len(ledger) \subseteq 1..n
      BY <1>2, <1>12, <2>2
    <3> QED BY <1>1, <1>2, <1>12, <2>1, <2>2, <3>1
  <2>3. CASE /\ n = Len(ledger) /\ ~ledger[Len(ledger)].ended
             /\ ledger'[n].texts = ledger[Len(ledger)].texts \cup {entry}
    BY <1>1, <1>2, <1>12, <2>1, <2>3
  <2> QED BY <1>1, <2>2, <2>3
<1>4. \A s : Mentions(s) = {i \in old : \E e \in ledger[i].texts : e.turn = s}
  BY DEF Mentions
<1>5. \A s : Mentions(s)' = {i \in new : \E e \in ledger'[i].texts : e.turn = s}
  BY DEF Mentions
<1> HIDE DEF old, new
<1>7. ASSUME NEW s \in Turns, s # t
      PROVE  Mentions(s)' = Mentions(s)
  <2>1. \A i \in new : i # n => (i \in Mentions(s)' <=> i \in Mentions(s))
    BY <1>4, <1>5, <1>6
  <2>2. n \in Mentions(s)' <=> n \in Mentions(s)
    BY <1>3, <1>4, <1>5, <1>6, <1>7
  <2>3. Mentions(s)' \subseteq new /\ Mentions(s) \subseteq new
    BY <1>4, <1>5, <1>6
  <2>4. \A i : i \in Mentions(s)' <=> i \in Mentions(s)
    BY <2>1, <2>2, <2>3
  <2> QED BY <2>4, Zenon
<1>8. ASSUME Mentions(t) = {}, NEW i \in Mentions(t)'
      PROVE  i = n
  BY <1>4, <1>5, <1>6, <1>8
<1>9. ASSUME NEW s \in Turns, Backed(s)
      PROVE  Backed(s)'
  <2>3. PICK i \in 1..Len(ledger) :
          \E e \in ledger[i].texts : e.turn = s /\ e.text \in {"whole", "split"}
    BY <1>9, BackedAt
  <2>1. PICK e \in ledger[i].texts : e.turn = s /\ e.text \in {"whole", "split"}
    BY <2>3
  <2>2. i \in new /\ e \in ledger'[i].texts
    BY <1>6, <1>12, <2>1 DEF old
  <2> QED BY <2>1, <2>2 DEF Backed, Range, new
<1>10. ASSUME text \in {"whole", "split"}
       PROVE  Backed(t)'
  <2>1. entry \in ledger'[n].texts /\ n \in DOMAIN ledger'
    BY <1>6 DEF new
  <2> QED BY <1>3, <1>10, <2>1 DEF Backed, Range
<1>11. ASSUME NEW i \in DOMAIN ledger, ledger[i].ended
       PROVE  i \in DOMAIN ledger' /\ ledger'[i] = ledger[i]
  BY <1>6, <1>11 DEF old, new
<1> QED BY <1>7, <1>8, <1>9, <1>10, <1>11

\* A line of the ledger that was ended stays as it is, whatever is written
\* behind it and however often the proxy dies.
THEOREM LinesAreFinal == Spec => LinesStay
<1> DEFINE Stay == \A i \in DOMAIN ledger : ledger[i].ended =>
                     i \in DOMAIN ledger' /\ ledger'[i] = ledger[i]
<1>1. TypeOK /\ [Next]_vars => [Stay]_vars
  <2> SUFFICES ASSUME TypeOK, Next
               PROVE  Stay
    OBVIOUS
  <2>1. ASSUME NEW t \in Turns, NEW text \in Texts, AppendLine(t, text) \/ TearLine(t, text)
        PROVE  Stay
    BY <2>1, EntryWritten DEF TypeOK, AppendLine, TearLine
  <2>2. CASE UNCHANGED ledger
    BY <2>2
  <2> QED BY <2>1, <2>2 DEF Next, Process, Turn, Start, StartWithoutLedger, StartFails, Crash,
             Route, Decline, SkipLedger, AddSavings, ChmodFails, RecordRouted, RecordPremium,
             RecordUsage, EndWithoutUsage, Texts
<1> QED BY <1>1, TypeCorrect, PTL DEF Spec, LinesStay
-----------------------------------------------------------------------------
(* A turn is counted once. *)

\* A turn moves only while the server is up, and moves no other turn.
LEMMA TurnMoves ==
  ASSUME TypeOK, NEW t \in Turns, Turn(t)
  PROVE  /\ server = "up" /\ UNCHANGED process
         /\ \A s \in Turns : s # t => stage'[s] = stage[s]
<1>1. server = "up" /\ \E from, to \in Stages : Move(t, from, to)
  BY DEF Turn, Route, Decline, SkipLedger, AppendLine, TearLine, AddSavings, ChmodFails,
         RecordRouted, RecordPremium, RecordUsage, EndWithoutUsage, Move, Stages
<1>2. UNCHANGED process
  BY DEF Turn, Route, Decline, SkipLedger, AppendLine, TearLine, AddSavings, ChmodFails,
         RecordRouted, RecordPremium, RecordUsage, EndWithoutUsage
<1> QED BY <1>1, <1>2 DEF Move, TypeOK

\* The books stay what they say as long as nothing is written to them.
LEMMA BooksUnchanged ==
  /\ UNCHANGED ledger => \A t : Mentions(t)' = Mentions(t) /\ (Backed(t)' <=> Backed(t))
  /\ UNCHANGED history =>
       \A t : PremiumRows(t)' = PremiumRows(t) /\ PremiumSum(t)' = PremiumSum(t)
BY DEF Mentions, Backed, PremiumRows, PremiumSum

\* Of a set with one member at most the number of members is 0 or 1.
LEMMA AtMostOne ==
  ASSUME NEW n \in Nat, NEW S \in SUBSET (1..n), \A i, j \in S : i = j
  PROVE  /\ Cardinality(S) \in {0, 1}
         /\ Cardinality(S) = 0 <=> S = {}
<1>1. 1 \in Int /\ n \in Int /\ IsFiniteSet(1..n)
  BY FS_Interval
<1>2. IsFiniteSet(S)
  BY <1>1, FS_Subset
<1>3. CASE S = {}
  BY <1>3, FS_EmptySet
<1>4. ASSUME NEW x \in S
      PROVE  Cardinality(S) = 1 /\ S # {}
  <2>1. S = {x}
    OBVIOUS
  <2> QED BY <2>1, FS_Singleton
<1> QED BY <1>3, <1>4

\* What a start reads from the books: each turn once at most, and only turns whose
\* entry or row is there.
LEMMA RestoredOnce ==
  ASSUME TypeOK, WrittenOnce, PremiumRowIsNewest, NEW t \in Turns
  PROVE  /\ Entries(ledger, t) \in {0, 1} /\ PremiumSum(t) \in {0, 1}
         /\ Mentions(t) = {} => Entries(ledger, t) = 0
         /\ Entries(ledger, t) = 1 => Backed(t)
         /\ PremiumRows(t) = {} => PremiumSum(t) = 0
         /\ (\A i \in PremiumRows(t) : history[i].usage = "none") => PremiumSum(t) = 0
<1>1. /\ Len(ledger) \in Nat /\ DOMAIN ledger = 1..Len(ledger)
      /\ Len(history) \in Nat /\ DOMAIN history = 1..Len(history)
  BY LenProperties DEF TypeOK
<1> DEFINE e == {i \in DOMAIN ledger : t \in Parsed(ledger[i])}
           p == {i \in DOMAIN history :
                   /\ history[i].turn = t /\ history[i].route = "premium"
                   /\ history[i].usage # "none"}
<1>2. e \subseteq Mentions(t) /\ \A i \in e : i \in DOMAIN ledger /\
        [turn |-> t, text |-> "whole"] \in ledger[i].texts
  BY DEF Mentions, Parsed
<1>3. p \subseteq PremiumRows(t) /\ \A i \in p : history[i].usage # "none"
  BY DEF PremiumRows
<1>4. (\A i, j \in e : i = j) /\ e \in SUBSET (1..Len(ledger))
  BY <1>1, <1>2 DEF WrittenOnce
<1>5. (\A i, j \in p : i = j) /\ p \in SUBSET (1..Len(history))
  BY <1>1, <1>3 DEF PremiumRowIsNewest
<1>6. Entries(ledger, t) = Cardinality(e) /\ PremiumSum(t) = Cardinality(p)
  BY DEF Entries, PremiumSum
<1>7. e # {} => Backed(t)
  BY <1>2 DEF Backed, Range
<1> HIDE DEF e, p
<1>8. /\ Cardinality(e) \in {0, 1} /\ (Cardinality(e) = 0 <=> e = {})
      /\ Cardinality(p) \in {0, 1} /\ (Cardinality(p) = 0 <=> p = {})
  BY <1>1, <1>4, <1>5, AtMostOne
<1> QED BY <1>2, <1>3, <1>6, <1>7, <1>8

\* Memory and turns under way are those of a living process.
LEMMA OnlyWhileUpKept ==
  ASSUME TypeOK, OnlyWhileUp, [Next]_vars
  PROVE  OnlyWhileUp'
<1>1. CASE UNCHANGED vars
  BY <1>1 DEF OnlyWhileUp, vars, Zero
<1>2. CASE Process
  BY <1>2 DEF Process, Start, StartWithoutLedger, StartFails, Crash, OnlyWhileUp, TypeOK, Zero
<1>3. ASSUME NEW t \in Turns, Turn(t)
      PROVE  OnlyWhileUp'
  BY <1>3, TurnMoves DEF OnlyWhileUp, process
<1> QED BY <1>1, <1>2, <1>3 DEF Next

\* A turn is written once: its one write is behind it when it may be written.
LEMMA WrittenOnceKept ==
  ASSUME TypeOK, WrittenOnce, [Next]_vars
  PROVE  WrittenOnce'
<1>1. CASE UNCHANGED vars
  BY <1>1, BooksUnchanged DEF WrittenOnce, vars
<1>2. CASE Process
  <2>1. /\ UNCHANGED ledger
        /\ \A s \in Turns : stage'[s] = stage[s] \/ stage'[s] = "over"
    BY <1>2 DEF Process, Start, StartWithoutLedger, StartFails, Crash
  <2> QED BY <2>1, BooksUnchanged DEF WrittenOnce
<1>3. ASSUME NEW t \in Turns, NEW text \in Texts, AppendLine(t, text) \/ TearLine(t, text),
             TearLine(t, text) \/ text \in {"whole", "split"}
      PROVE  WrittenOnce'
  <2>1. /\ stage[t] = "booking" /\ stage'[t] \in {"appended", "booked"}
        /\ stage'[t] = "appended" => text \in {"whole", "split"}
        /\ \A s \in Turns : s # t => stage'[s] = stage[s]
    BY <1>3 DEF AppendLine, TearLine, Move, TypeOK
  <2>2. /\ \A s \in Turns : s # t => Mentions(s)' = Mentions(s)
        /\ Mentions(t) = {} => \A i, j \in Mentions(t)' : i = j
        /\ \A s \in Turns : Backed(s) => Backed(s)'
        /\ text \in {"whole", "split"} => Backed(t)'
    <3>1. \/ ledger' = AppendText(ledger, t, text, TRUE)
          \/ ledger' = AppendText(ledger, t, text, FALSE)
      BY <1>3 DEF AppendLine, TearLine
    <3> QED BY <3>1, EntryWritten DEF TypeOK
  <2>3. Mentions(t) = {}
    BY <2>1 DEF WrittenOnce
  <2> QED BY <2>1, <2>2, <2>3 DEF WrittenOnce
<1>4. ASSUME NEW t \in Turns,
             \/ \E withId \in BOOLEAN : Route(t, withId)
             \/ Decline(t) \/ SkipLedger(t) \/ AddSavings(t) \/ ChmodFails(t)
             \/ \E accepted, shaped \in BOOLEAN : RecordRouted(t, accepted, shaped)
             \/ \E accepted \in BOOLEAN : RecordPremium(t, accepted)
             \/ \E told, accepted \in BOOLEAN : RecordUsage(t, told, accepted)
             \/ EndWithoutUsage(t)
      PROVE  WrittenOnce'
  <2>1. /\ stage'[t] \in {"new", "booking"} => stage[t] \in {"new", "booking"}
        /\ stage'[t] # "appended"
        /\ \A s \in Turns : s # t => stage'[s] = stage[s]
        /\ UNCHANGED ledger
    BY <1>4
    DEF Route, Decline, SkipLedger, AddSavings, ChmodFails, RecordRouted, RecordPremium,
        RecordUsage, EndWithoutUsage, Move, TypeOK
  <2> QED BY <2>1, BooksUnchanged DEF WrittenOnce
<1> QED BY <1>1, <1>2, <1>3, <1>4 DEF Next, Turn, Texts
\* The totals hold each turn once at most, and its savings only if it is backed.
LEMMA TotalsKept ==
  ASSUME TypeOK, OnlyWhileUp, WrittenOnce, PremiumRowIsNewest,
         NotYetCounted, CountedOnce, CostsBacked, [Next]_vars
  PROVE  NotYetCounted' /\ CountedOnce' /\ CostsBacked'
<1>1. CASE UNCHANGED <<live, stage, ledger>>
  BY <1>1, BooksUnchanged DEF NotYetCounted, CountedOnce, CostsBacked
<1>2. ASSUME NEW read \in BOOLEAN, Start(read)
      PROVE  NotYetCounted' /\ CountedOnce' /\ CostsBacked'
  <2>1. /\ UNCHANGED <<stage, ledger>>
        /\ \A s \in Turns : stage[s] \in {"new", "over"}
    BY <1>2 DEF Start, OnlyWhileUp
  <2>2. \A s \in Turns : /\ live'["cost"][s] = Entries(ledger, s)
                        /\ live'["routed"][s] = Entries(ledger, s)
                        /\ live'["by_model"][s] = Entries(ledger, s)
                        /\ live'["premium"][s] \in {PremiumSum(s), 0}
    BY <1>2 DEF Start, Gauges
  <2>3. \A s \in Turns : stage[s] = "new" => Entries(ledger, s) = 0 /\ PremiumSum(s) = 0
    BY RestoredOnce DEF WrittenOnce, PremiumRowIsNewest
  <2>4. \A s \in Turns : Entries(ledger, s) \in {0, 1} /\ PremiumSum(s) \in {0, 1}
    BY RestoredOnce
  <2>5. \A s \in Turns : Entries(ledger, s) = 1 => Backed(s)'
    BY <2>1, RestoredOnce, BooksUnchanged
  <2>6. CountedOnce'
    BY <2>2, <2>4 DEF CountedOnce, Gauges
  <2>7. CostsBacked'
    BY <2>2, <2>4, <2>5 DEF CostsBacked
  <2>8. NotYetCounted'
    BY <2>1, <2>2, <2>3 DEF NotYetCounted
  <2> QED BY <2>6, <2>7, <2>8
<1>3. CASE Crash
  <2>1. /\ \A g \in Gauges, s \in Turns : live'[g][s] = 0
    BY <1>3 DEF Crash, Zero
  <2> QED BY <2>1 DEF NotYetCounted, CountedOnce, CostsBacked, Gauges
<1>4. ASSUME NEW t \in Turns, UNCHANGED <<live, ledger>>,
             \/ \E withId \in BOOLEAN : Route(t, withId)
             \/ Decline(t) \/ SkipLedger(t) \/ ChmodFails(t) \/ EndWithoutUsage(t)
             \/ \E accepted \in BOOLEAN : RecordPremium(t, accepted)
      PROVE  NotYetCounted' /\ CountedOnce' /\ CostsBacked'
  <2>1. /\ \A s \in Turns : s # t => stage'[s] = stage[s]
        /\ \/ stage[t] = "new" /\ stage'[t] \in {"booking", "premium"}
           \/ stage[t] \in {"booking", "appended"} /\ stage'[t] = "booked"
           \/ stage[t] \in {"premium", "relaying"} /\ stage'[t] \in {"relaying", "over"}
    BY <1>4 DEF Route, Decline, SkipLedger, ChmodFails, EndWithoutUsage, RecordPremium, Move, TypeOK
  <2>2. CountedOnce' /\ CostsBacked'
    BY <1>4, BooksUnchanged DEF CountedOnce, CostsBacked
  <2> QED BY <1>4, <2>1, <2>2 DEF NotYetCounted
<1>5. ASSUME NEW t \in Turns, NEW text \in Texts, AppendLine(t, text) \/ TearLine(t, text)
      PROVE  NotYetCounted' /\ CountedOnce' /\ CostsBacked'
  <2>1. /\ \A s \in Turns : s # t => stage'[s] = stage[s]
        /\ stage[t] = "booking" /\ stage'[t] \in {"appended", "booked"}
        /\ UNCHANGED live
    BY <1>5 DEF AppendLine, TearLine, Move, TypeOK
  <2>2. \A s \in Turns : Backed(s) => Backed(s)'
    <3>1. \/ ledger' = AppendText(ledger, t, text, TRUE)
          \/ ledger' = AppendText(ledger, t, text, FALSE)
      BY <1>5 DEF AppendLine, TearLine
    <3> QED BY <3>1, EntryWritten DEF TypeOK
  <2> QED BY <2>1, <2>2 DEF NotYetCounted, CountedOnce, CostsBacked
<1>6. ASSUME NEW t \in Turns, NEW gauges, Add(One(t, gauges)), UNCHANGED ledger,
             \A s \in Turns : s # t => stage'[s] = stage[s],
             \A g \in Gauges : g \in gauges => live[g][t] = 0,
             "cost" \in gauges => Backed(t),
             \/ stage'[t] = "over"
             \/ stage'[t] = "booked" /\ stage[t] = "appended" /\ gauges = {"cost"}
             \/ stage'[t] = "premium" /\ stage[t] = "booked" /\ gauges = {"by_model"}
      PROVE  NotYetCounted' /\ CountedOnce' /\ CostsBacked'
  <2>1. \A g \in Gauges, s \in Turns :
          live'[g][s] = live[g][s] + (IF s = t /\ g \in gauges THEN 1 ELSE 0)
    BY <1>6, AddTyped DEF TypeOK
  <2>2. live \in [Gauges -> [Turns -> Nat]]
    BY DEF TypeOK
  <2>3. \A g \in Gauges, s \in Turns :
          /\ s # t \/ g \notin gauges => live'[g][s] = live[g][s]
          /\ s = t /\ g \in gauges => live'[g][s] = 1
    BY <1>6, <2>1, <2>2
  <2>4. CountedOnce'
    BY <2>2, <2>3 DEF CountedOnce
  <2>5. CostsBacked'
    BY <1>6, <2>3, BooksUnchanged DEF CostsBacked, Gauges
  <2>6. NotYetCounted'
    <3>1. ASSUME NEW s \in Turns, s # t
          PROVE  /\ \A g \in Gauges : live'[g][s] = live[g][s]
                 /\ stage'[s] = stage[s]
      BY <1>6, <2>3, <3>1
    <3>2. /\ stage'[t] \notin {"new", "booking", "appended"}
          /\ stage'[t] = "booked" => live'["by_model"][t] = 0
          /\ stage'[t] # "over" => live'["routed"][t] = 0 /\ live'["premium"][t] = 0
      BY <1>6, <2>3 DEF NotYetCounted, Gauges
    <3> QED BY <3>1, <3>2 DEF NotYetCounted, Gauges
  <2> QED BY <2>4, <2>5, <2>6
<1>7. ASSUME NEW t \in Turns,
             \/ AddSavings(t)
             \/ \E accepted, shaped \in BOOLEAN : RecordRouted(t, accepted, shaped)
             \/ \E told, accepted \in BOOLEAN : RecordUsage(t, told, accepted)
      PROVE  NotYetCounted' /\ CountedOnce' /\ CostsBacked'
  <2>1. CASE AddSavings(t)
    <3>1. Add(One(t, {"cost"})) /\ UNCHANGED ledger /\ stage[t] = "appended" /\ stage'[t] = "booked"
      BY <2>1 DEF AddSavings, Move, TypeOK
    <3>2. /\ \A s \in Turns : s # t => stage'[s] = stage[s]
          /\ live["cost"][t] = 0 /\ Backed(t)
      BY <2>1, <3>1 DEF AddSavings, Move, TypeOK, NotYetCounted, WrittenOnce
    <3> QED BY <1>6, <3>1, <3>2
  <2>2. ASSUME NEW accepted \in BOOLEAN, NEW shaped \in BOOLEAN, RecordRouted(t, accepted, shaped)
        PROVE  NotYetCounted' /\ CountedOnce' /\ CostsBacked'
    <3> DEFINE gauges == {"by_model"} \cup (IF shaped THEN {"routed"} ELSE {})
    <3>1. /\ Add(One(t, gauges)) /\ UNCHANGED ledger
          /\ stage[t] = "booked" /\ stage'[t] = IF shaped THEN "over" ELSE "premium"
          /\ \A s \in Turns : s # t => stage'[s] = stage[s]
      BY <2>2 DEF RecordRouted, Move, TypeOK
    <3>2. live["by_model"][t] = 0 /\ live["routed"][t] = 0
      BY <3>1 DEF NotYetCounted
    <3>3. /\ \A g \in Gauges : g \in gauges => live[g][t] = 0
          /\ "cost" \notin gauges /\ (~shaped => gauges = {"by_model"})
      BY <3>2
    <3> HIDE DEF gauges
    <3> QED BY <1>6, <3>1, <3>3
  <2>3. ASSUME NEW told \in BOOLEAN, NEW accepted \in BOOLEAN, RecordUsage(t, told, accepted)
        PROVE  NotYetCounted' /\ CountedOnce' /\ CostsBacked'
    <3> DEFINE gauges == IF told THEN {"premium"} ELSE {}
    <3>1. /\ Add(One(t, gauges)) /\ UNCHANGED ledger
          /\ stage[t] = "relaying" /\ stage'[t] = "over"
          /\ \A s \in Turns : s # t => stage'[s] = stage[s]
      BY <2>3 DEF RecordUsage, Move, TypeOK
    <3>2. live["premium"][t] = 0
      BY <3>1 DEF NotYetCounted
    <3>3. "cost" \notin gauges /\ \A g \in Gauges : g \in gauges => live[g][t] = 0
      BY <3>2
    <3> HIDE DEF gauges
    <3> QED BY <1>6, <3>1, <3>3
  <2> QED BY <1>7, <2>1, <2>2, <2>3
<1> QED BY <1>1, <1>2, <1>3, <1>4, <1>5, <1>7
       DEF Next, Process, StartWithoutLedger, StartFails, Turn, Texts, vars, Route, Decline,
           SkipLedger, ChmodFails, EndWithoutUsage, RecordPremium
-----------------------------------------------------------------------------
(* The rows. *)

\* What is said of the rows of a turn that is being relayed.
RelayedRow(t) ==
  /\ \A i \in PremiumRows(t) : history[i].usage = "none"
  /\ ~failed => \E i \in PremiumRows(t) :
       history[i].keyed /\ \A j \in DOMAIN history : history[j].turn = t => j <= i
  /\ \A j \in DOMAIN recent :
       recent[j].turn = t /\ recent[j].keyed /\ recent[j].route = "routed" =>
         \E i \in 1..j-1 :
           recent[i].turn = t /\ recent[i].keyed /\ recent[i].route = "premium"

\* A row recorded for a turn changes nothing that is said of the others.
LEMMA OthersKept ==
  ASSUME TypeOK, NEW t \in Turns, NEW row \in Row, row.turn = t, NEW accepted \in BOOLEAN,
         Record(row, accepted), NEW s \in Turns, s # t \/ row.route = "routed"
  PROVE  /\ PremiumRows(s)' = PremiumRows(s)
         /\ s # t /\ RelayedRow(s) => RelayedRow(s)'
<1>1. /\ recent' \in Seq(Row) /\ Len(recent') <= MaxRecent
      /\ Len(recent') >= 1 /\ recent'[1] = row
      /\ \A i \in 2..Len(recent') : i - 1 \in 1..Len(recent) /\ recent'[i] = recent[i-1]
      /\ history' \in Seq(Row)
      /\ accepted => /\ Len(history') = Len(history) + 1
                     /\ history'[Len(history) + 1] = row
                     /\ \A i \in 1..Len(history) : history'[i] = history[i]
      /\ ~accepted => history' = history
      /\ ~failed' => ~failed
  BY Recorded DEF TypeOK
<1>2. /\ Len(history) \in Nat /\ DOMAIN history = 1..Len(history)
      /\ Len(recent) \in Nat /\ DOMAIN recent = 1..Len(recent)
      /\ Len(recent') \in Nat /\ DOMAIN recent' = 1..Len(recent')
      /\ Len(history') \in Nat /\ DOMAIN history' = 1..Len(history')
  BY <1>1, LenProperties DEF TypeOK
<1>3. /\ \A i \in DOMAIN history : i \in DOMAIN history' /\ history'[i] = history[i]
      /\ \A i \in DOMAIN history' : i \in DOMAIN history \/ history'[i] = row
  <2>1. CASE accepted
    BY <1>1, <1>2, <2>1
  <2>2. CASE ~accepted
    BY <1>1, <2>2
  <2> QED BY <2>1, <2>2
<1>4. PremiumRows(s)' = PremiumRows(s)
  <2>1. PremiumRows(s)' =
          {i \in DOMAIN history' : history'[i].turn = s /\ history'[i].route = "premium"}
    BY DEF PremiumRows
  <2>2. \A i : i \in PremiumRows(s)' <=> i \in PremiumRows(s)
    BY <1>3, <2>1 DEF PremiumRows
  <2> QED BY <2>2, Zenon
<1>5. ASSUME s # t, RelayedRow(s)
      PROVE  RelayedRow(s)'
  <2>1. \A i \in PremiumRows(s)' : history'[i].usage = "none"
    BY <1>3, <1>4, <1>5 DEF RelayedRow, PremiumRows
  <2>2. ASSUME ~failed'
        PROVE  \E i \in PremiumRows(s)' :
                 history'[i].keyed /\ \A j \in DOMAIN history' : history'[j].turn = s => j <= i
    <3>1. PICK i \in PremiumRows(s) :
            history[i].keyed /\ \A j \in DOMAIN history : history[j].turn = s => j <= i
      BY <1>1, <1>5, <2>2 DEF RelayedRow
    <3>2. i \in DOMAIN history
      BY DEF PremiumRows
    <3>3. \A j \in DOMAIN history' : history'[j].turn = s => j <= i
      BY <1>3, <1>5, <3>1
    <3> QED BY <1>3, <1>4, <3>1, <3>2, <3>3
  <2>3. ASSUME NEW j \in DOMAIN recent',
               recent'[j].turn = s, recent'[j].keyed, recent'[j].route = "routed"
        PROVE  \E i \in 1..j-1 :
                 recent'[i].turn = s /\ recent'[i].keyed /\ recent'[i].route = "premium"
    <3>1. j \in 2..Len(recent')
      <4>1. j # 1 /\ j \in 1..Len(recent')
        BY <1>1, <1>2, <1>5, <2>3
      <4> QED BY <1>2, <4>1
    <3>2. j - 1 \in DOMAIN recent /\ recent'[j] = recent[j-1]
      BY <1>1, <1>2, <3>1
    <3>3. PICK i \in 1..(j-1)-1 :
            recent[i].turn = s /\ recent[i].keyed /\ recent[i].route = "premium"
      BY <1>5, <2>3, <3>2 DEF RelayedRow
    <3>4. i + 1 \in 1..j-1 /\ i + 1 \in 2..Len(recent') /\ (i + 1) - 1 = i
      BY <1>2, <3>1, <3>3
    <3>5. recent'[i + 1] = recent[i]
      BY <1>1, <3>4
    <3> QED BY <3>3, <3>4, <3>5
  <2> QED BY <2>1, <2>2, <2>3 DEF RelayedRow
<1> QED BY <1>4, <1>5

\* The premium row of a turn is its only one, and its newest.
LEMMA PremiumRecorded ==
  ASSUME TypeOK, NEW t \in Turns, NEW accepted \in BOOLEAN, RecordPremium(t, accepted),
         PremiumRows(t) = {}
  PROVE  /\ \A i, j \in PremiumRows(t)' : i = j
         /\ RelayedRow(t)'
<1> DEFINE row == [turn |-> t, route |-> "premium", keyed |-> TRUE,
                   usage |-> "none", source |-> "live"]
           n == Len(history) + 1
<1>1. row \in Row /\ row.turn = t /\ row.route = "premium" /\ row.keyed /\ row.usage = "none"
  BY DEF Row
<1>2. Record(row, accepted)
  BY DEF RecordPremium
<1> HIDE DEF row
<1>3. /\ recent' \in Seq(Row) /\ Len(recent') >= 1 /\ recent'[1] = row
      /\ history' \in Seq(Row)
      /\ accepted => /\ Len(history') = n /\ history'[n] = row
                     /\ \A i \in 1..Len(history) : history'[i] = history[i]
      /\ ~accepted => history' = history
      /\ ~failed' => accepted
  BY <1>1, <1>2, Recorded DEF TypeOK
<1>4. /\ Len(history) \in Nat /\ DOMAIN history = 1..Len(history)
      /\ Len(recent') \in Nat /\ DOMAIN recent' = 1..Len(recent')
      /\ Len(history') \in Nat /\ DOMAIN history' = 1..Len(history')
  BY <1>3, LenProperties DEF TypeOK
<1>5. PremiumRows(t)' =
        {i \in DOMAIN history' : history'[i].turn = t /\ history'[i].route = "premium"}
  BY DEF PremiumRows
<1>6. \A i \in PremiumRows(t)' : accepted /\ i = n
  <2>1. \A i \in DOMAIN history : ~(history[i].turn = t /\ history[i].route = "premium")
    BY DEF PremiumRows
  <2>2. \A i \in 1..n : i = n \/ i \in 1..Len(history)
    BY <1>4
  <2>3. accepted => \A i \in DOMAIN history' : i = n \/ (i \in DOMAIN history /\ history'[i] = history[i])
    BY <1>3, <1>4, <2>2
  <2> HIDE DEF n
  <2> QED BY <1>3, <1>5, <2>1, <2>3
<1>7. accepted => n \in PremiumRows(t)' /\ \A j \in DOMAIN history' : j <= n
  BY <1>1, <1>3, <1>4, <1>5
<1>8. \A i \in PremiumRows(t)' : history'[i].usage = "none"
  BY <1>1, <1>3, <1>6
<1>9. ~failed' => \E i \in PremiumRows(t)' :
        history'[i].keyed /\ \A j \in DOMAIN history' : history'[j].turn = t => j <= i
  BY <1>1, <1>3, <1>7
<1>10. ASSUME NEW j \in DOMAIN recent', recent'[j].route = "routed"
       PROVE  \E i \in 1..j-1 :
                recent'[i].turn = t /\ recent'[i].keyed /\ recent'[i].route = "premium"
  <2>1. j # 1 /\ j \in 1..Len(recent')
    BY <1>1, <1>3, <1>4, <1>10
  <2>2. 1 \in 1..j-1
    BY <1>4, <2>1
  <2> QED BY <1>1, <1>3, <2>2
<1> QED BY <1>6, <1>8, <1>9, <1>10 DEF RelayedRow
\* The end of a relay touches the rows of its own turn, and only their usage.
LEMMA OthersKeptByUsage ==
  ASSUME TypeOK, NEW t \in Turns, NEW told \in BOOLEAN, NEW accepted \in BOOLEAN,
         RecordUsage(t, told, accepted), NEW s \in Turns
  PROVE  /\ PremiumRows(s)' = PremiumRows(s)
         /\ s # t /\ RelayedRow(s) => RelayedRow(s)'
         /\ DOMAIN history' = DOMAIN history /\ DOMAIN recent' = DOMAIN recent
         /\ \A i \in DOMAIN history :
              /\ history'[i].turn = history[i].turn /\ history'[i].route = history[i].route
              /\ history[i].turn # t => history'[i] = history[i]
         /\ \A i \in DOMAIN recent :
              /\ recent'[i].turn = recent[i].turn /\ recent'[i].route = recent[i].route
              /\ recent[i].turn # t => recent'[i] = recent[i]
<1> DEFINE usage == IF told THEN "upstream" ELSE "none"
<1>1. /\ recent' \in Seq(Row) /\ Len(recent') = Len(recent)
      /\ \A i \in 1..Len(recent) :
           SameButUsage(recent'[i], recent[i],
                        IF First(recent, t, i) THEN usage ELSE recent[i].usage)
      /\ history' \in Seq(Row) /\ Len(history') = Len(history)
      /\ accepted => \A i \in 1..Len(history) :
           SameButUsage(history'[i], history[i],
                        IF Latest(history, t, i) THEN usage ELSE history[i].usage)
      /\ ~accepted => history' = history
  BY UsageClosed DEF TypeOK
<1> HIDE DEF usage
<1>2. /\ DOMAIN history = 1..Len(history) /\ DOMAIN recent = 1..Len(recent)
      /\ DOMAIN history' = DOMAIN history /\ DOMAIN recent' = DOMAIN recent
  BY <1>1, LenProperties DEF TypeOK
<1>3. \A i \in DOMAIN history :
        /\ history'[i].turn = history[i].turn /\ history'[i].route = history[i].route
        /\ history[i].turn # t => history'[i] = history[i]
  <2>1. CASE accepted
    BY <1>1, <1>2, <2>1 DEF SameButUsage, Latest
  <2>2. CASE ~accepted
    BY <1>1, <2>2
  <2> QED BY <2>1, <2>2
<1>4. \A i \in DOMAIN recent :
        /\ recent'[i].turn = recent[i].turn /\ recent'[i].route = recent[i].route
        /\ recent[i].turn # t => recent'[i] = recent[i]
  BY <1>1, <1>2 DEF SameButUsage, First
<1>5. PremiumRows(s)' = PremiumRows(s)
  <2>1. PremiumRows(s)' =
          {i \in DOMAIN history' : history'[i].turn = s /\ history'[i].route = "premium"}
    BY DEF PremiumRows
  <2>2. \A i : i \in PremiumRows(s)' <=> i \in PremiumRows(s)
    BY <1>2, <1>3, <2>1 DEF PremiumRows
  <2> QED BY <2>2, Zenon
<1>6. ASSUME s # t, RelayedRow(s)
      PROVE  RelayedRow(s)'
  <2>1. \A i \in PremiumRows(s)' : history'[i].usage = "none"
    BY <1>3, <1>5, <1>6 DEF RelayedRow, PremiumRows
  <2>2. ASSUME ~failed'
        PROVE  \E i \in PremiumRows(s)' :
                 history'[i].keyed /\ \A j \in DOMAIN history' : history'[j].turn = s => j <= i
    <3>1. ~failed
      BY <2>2 DEF RecordUsage
    <3>2. PICK i \in PremiumRows(s) :
            history[i].keyed /\ \A j \in DOMAIN history : history[j].turn = s => j <= i
      BY <1>6, <3>1 DEF RelayedRow
    <3>3. i \in DOMAIN history /\ history'[i] = history[i]
      BY <1>3, <1>6 DEF PremiumRows
    <3> QED BY <1>2, <1>3, <1>5, <3>2, <3>3
  <2>3. ASSUME NEW j \in DOMAIN recent',
               recent'[j].turn = s, recent'[j].keyed, recent'[j].route = "routed"
        PROVE  \E i \in 1..j-1 :
                 recent'[i].turn = s /\ recent'[i].keyed /\ recent'[i].route = "premium"
    <3>1. j \in 1..Len(recent) /\ recent'[j] = recent[j]
      BY <1>2, <1>4, <1>6, <2>3
    <3>2. PICK i \in 1..j-1 :
            recent[i].turn = s /\ recent[i].keyed /\ recent[i].route = "premium"
      BY <1>2, <1>6, <2>3, <3>1 DEF RelayedRow
    <3>3. i \in 1..Len(recent)
      <4>1. Len(recent) \in Nat
        BY LenProperties DEF TypeOK
      <4> QED BY <3>1, <4>1
    <3>4. recent'[i] = recent[i]
      BY <1>2, <1>4, <1>6, <3>2, <3>3
    <3> QED BY <3>2, <3>4
  <2> QED BY <2>1, <2>2, <2>3 DEF RelayedRow
<1> QED BY <1>2, <1>3, <1>4, <1>5, <1>6

\* A step that touches no row and no turn that is relayed changes nothing that is
\* said of its rows.
LEMMA RowsUnchanged ==
  ASSUME UNCHANGED <<recent, history, failed>>, NEW s
  PROVE  PremiumRows(s)' = PremiumRows(s) /\ (RelayedRow(s) => RelayedRow(s)')
BY DEF PremiumRows, RelayedRow

\* Each turn has one premium row, the newest of its rows while it is relayed.
LEMMA PremiumRowKept ==
  ASSUME TypeOK, OnlyWhileUp, PremiumRowIsNewest, [Next]_vars
  PROVE  PremiumRowIsNewest'
<1> DEFINE Lone(s) ==
             /\ \A i, j \in PremiumRows(s) : i = j
             /\ stage[s] \notin {"relaying", "over"} => PremiumRows(s) = {}
             /\ stage[s] = "relaying" => RelayedRow(s)
<1>1. PremiumRowIsNewest <=> \A s \in Turns : Lone(s)
  BY DEF PremiumRowIsNewest, RelayedRow
<1>2. PremiumRowIsNewest' <=> \A s \in Turns : Lone(s)'
  BY DEF PremiumRowIsNewest, RelayedRow
<1>6. ASSUME NEW s \in Turns, PremiumRows(s)' = PremiumRows(s), Lone(s),
             \/ stage'[s] = stage[s] /\ (RelayedRow(s) => RelayedRow(s)')
             \/ stage'[s] # "relaying" /\ stage[s] \notin {"relaying", "over"}
             \/ stage'[s] = "over"
      PROVE  Lone(s)'
  <2>1. (\A i, j \in PremiumRows(s) : i = j) => (\A i, j \in PremiumRows(s)' : i = j)
    BY <1>6, Zenon
  <2> QED BY <1>6, <2>1
<1>3. CASE UNCHANGED <<recent, history, failed, stage>>
  BY <1>1, <1>2, <1>3, RowsUnchanged
<1>4. CASE Process
  <2>1. CASE \/ \E read \in BOOLEAN : Start(read)
             \/ Crash
    <3>1. /\ UNCHANGED history
          /\ \A s \in Turns : /\ stage'[s] \in {"new", "over"}
                              /\ stage'[s] = "new" => stage[s] = "new"
      BY <2>1 DEF Start, Crash, OnlyWhileUp, TypeOK
    <3> QED BY <1>1, <1>2, <3>1, BooksUnchanged
  <2>2. CASE StartWithoutLedger \/ StartFails
    BY <1>3, <2>2 DEF StartWithoutLedger, StartFails
  <2> QED BY <1>4, <2>1, <2>2 DEF Process
<1>5. ASSUME NEW t \in Turns, Turn(t)
      PROVE  PremiumRowIsNewest'
  <2>1. /\ \A s \in Turns : s # t => stage'[s] = stage[s]
    BY <1>5, TurnMoves
  <2>2. CASE \/ \E withId \in BOOLEAN : Route(t, withId)
             \/ Decline(t) \/ SkipLedger(t) \/ AddSavings(t) \/ ChmodFails(t) \/ EndWithoutUsage(t)
             \/ \E text \in Texts : AppendLine(t, text) \/ TearLine(t, text)
    <3>1. /\ UNCHANGED <<recent, history, failed>>
          /\ stage'[t] # "relaying"
          /\ stage'[t] = "over" \/ stage[t] \notin {"relaying", "over"}
      BY <2>2 DEF Route, Decline, SkipLedger, AddSavings, ChmodFails, EndWithoutUsage,
                  AppendLine, TearLine, Move, TypeOK
    <3> QED BY <1>1, <1>2, <2>1, <3>1, RowsUnchanged
  <2>3. ASSUME NEW accepted \in BOOLEAN, NEW shaped \in BOOLEAN, RecordRouted(t, accepted, shaped)
        PROVE  PremiumRowIsNewest'
    <3> DEFINE row == [turn |-> t, route |-> "routed", keyed |-> keyed[t],
                       usage |-> "own", source |-> "live"]
    <3>1. row \in Row /\ row.turn = t /\ row.route = "routed" /\ Record(row, accepted)
      BY <2>3 DEF Row, TypeOK, RecordRouted
    <3>2. stage[t] = "booked" /\ stage'[t] \in {"over", "premium"}
      BY <2>3 DEF RecordRouted, Move, TypeOK
    <3> HIDE DEF row
    <3>4. \A s \in Turns : Lone(s)'
      <4> SUFFICES ASSUME NEW s \in Turns
                   PROVE  Lone(s)'
        OBVIOUS
      <4>1. Lone(s)
        BY <1>1
      <4>2. PremiumRows(s)' = PremiumRows(s)
        BY <3>1, OthersKept
      <4>3. \/ stage'[s] = stage[s] /\ (RelayedRow(s) => RelayedRow(s)')
            \/ stage'[s] # "relaying" /\ stage[s] \notin {"relaying", "over"}
            \/ stage'[s] = "over"
        BY <2>1, <3>1, <3>2, OthersKept
      <4> HIDE DEF Lone
      <4> QED BY <1>6, <4>1, <4>2, <4>3
    <3> QED BY <1>2, <3>4
  <2>4. ASSUME NEW accepted \in BOOLEAN, RecordPremium(t, accepted)
        PROVE  PremiumRowIsNewest'
    <3> DEFINE row == [turn |-> t, route |-> "premium", keyed |-> TRUE,
                       usage |-> "none", source |-> "live"]
    <3>1. row \in Row /\ row.turn = t /\ Record(row, accepted)
      BY <2>4 DEF Row, RecordPremium
    <3>2. stage[t] = "premium" /\ stage'[t] = "relaying"
      BY <2>4 DEF RecordPremium, Move, TypeOK
    <3> HIDE DEF row
    <3>4. PremiumRows(t) = {}
      BY <1>1, <3>2
    <3>5. (\A i, j \in PremiumRows(t)' : i = j) /\ RelayedRow(t)'
      BY <2>4, <3>4, PremiumRecorded
    <3>6. Lone(t)'
      BY <3>2, <3>5
    <3>7. ASSUME NEW s \in Turns, s # t
          PROVE  Lone(s)'
      <4>1. Lone(s)
        BY <1>1
      <4>2. PremiumRows(s)' = PremiumRows(s)
        BY <3>1, <3>7, OthersKept
      <4>3. \/ stage'[s] = stage[s] /\ (RelayedRow(s) => RelayedRow(s)')
            \/ stage'[s] # "relaying" /\ stage[s] \notin {"relaying", "over"}
            \/ stage'[s] = "over"
        BY <2>1, <3>1, <3>7, OthersKept
      <4> HIDE DEF Lone
      <4> QED BY <1>6, <4>1, <4>2, <4>3
    <3> HIDE DEF Lone
    <3> QED BY <1>2, <3>6, <3>7
  <2>5. ASSUME NEW told \in BOOLEAN, NEW accepted \in BOOLEAN, RecordUsage(t, told, accepted)
        PROVE  PremiumRowIsNewest'
    <3>1. stage'[t] = "over"
      BY <2>5 DEF RecordUsage, Move, TypeOK
    <3>3. \A s \in Turns : Lone(s)'
      <4> SUFFICES ASSUME NEW s \in Turns
                   PROVE  Lone(s)'
        OBVIOUS
      <4>1. Lone(s)
        BY <1>1
      <4>2. PremiumRows(s)' = PremiumRows(s)
        BY <2>5, OthersKeptByUsage
      <4>3. \/ stage'[s] = stage[s] /\ (RelayedRow(s) => RelayedRow(s)')
            \/ stage'[s] # "relaying" /\ stage[s] \notin {"relaying", "over"}
            \/ stage'[s] = "over"
        BY <2>1, <2>5, <3>1, OthersKeptByUsage
      <4> HIDE DEF Lone
      <4> QED BY <1>6, <4>1, <4>2, <4>3
    <3> QED BY <1>2, <3>3
  <2> QED BY <1>5, <2>2, <2>3, <2>4, <2>5 DEF Turn, Texts
<1> QED BY <1>3, <1>4, <1>5 DEF Next, vars
\* The rows a premium total is the number of.
PaidRows(t) ==
  {i \in DOMAIN history :
     /\ history[i].turn = t /\ history[i].route = "premium"
     /\ history[i].usage # "none"}

\* Recording a row that brings no premium usage leaves the sums as they are.
LEMMA RecordedUnpaid ==
  ASSUME TypeOK, NEW row \in Row, NEW accepted \in BOOLEAN, Record(row, accepted),
         row.route = "routed" \/ row.usage = "none", NEW s \in Turns
  PROVE  PremiumSum(s)' = PremiumSum(s)
<1>1. /\ history' \in Seq(Row)
      /\ accepted => /\ Len(history') = Len(history) + 1
                     /\ history'[Len(history) + 1] = row
                     /\ \A i \in 1..Len(history) : history'[i] = history[i]
      /\ ~accepted => history' = history
  BY Recorded DEF TypeOK
<1>2. /\ Len(history) \in Nat /\ DOMAIN history = 1..Len(history)
      /\ DOMAIN history' = 1..Len(history')
  BY <1>1, LenProperties DEF TypeOK
<1>3. /\ \A i \in DOMAIN history : i \in DOMAIN history' /\ history'[i] = history[i]
      /\ \A i \in DOMAIN history' : i \in DOMAIN history \/ history'[i] = row
  <2>1. CASE accepted
    BY <1>1, <1>2, <2>1
  <2>2. CASE ~accepted
    BY <1>1, <2>2
  <2> QED BY <2>1, <2>2
<1>4. PaidRows(s)' = {i \in DOMAIN history' :
                       /\ history'[i].turn = s /\ history'[i].route = "premium"
                       /\ history'[i].usage # "none"}
  BY DEF PaidRows
<1>5. \A i : i \in PaidRows(s)' <=> i \in PaidRows(s)
  BY <1>3, <1>4 DEF PaidRows
<1>6. PaidRows(s)' = PaidRows(s)
  BY <1>5, Zenon
<1>7. PremiumSum(s) = Cardinality(PaidRows(s)) /\ PremiumSum(s)' = Cardinality(PaidRows(s)')
  BY DEF PremiumSum, PaidRows
<1> QED BY <1>6, <1>7

\* The usage of a response, if it reaches the database, is in the sum of its turn
\* and in that of no other.
LEMMA PaidByUsage ==
  ASSUME TypeOK, PremiumRowIsNewest, NEW t \in Turns, NEW told \in BOOLEAN,
         NEW accepted \in BOOLEAN, RecordUsage(t, told, accepted), ~failed',
         NEW s \in Turns
  PROVE  PremiumSum(s)' = IF s = t THEN (IF told THEN 1 ELSE 0) ELSE PremiumSum(s)
<1>1. accepted /\ ~failed /\ stage[t] = "relaying"
  BY DEF RecordUsage, Move
<1>2. PICK i \in PremiumRows(t) :
        history[i].keyed /\ \A j \in DOMAIN history : history[j].turn = t => j <= i
  BY <1>1 DEF PremiumRowIsNewest
<1>3. /\ \A j \in PremiumRows(t) : j = i /\ history[j].usage = "none"
      /\ i \in DOMAIN history /\ history[i].turn = t /\ history[i].route = "premium"
  BY <1>1, <1>2 DEF PremiumRowIsNewest, PremiumRows
<1>4. Latest(history, t, i)
  BY <1>2, <1>3 DEF Latest
<1>5. /\ DOMAIN history' = DOMAIN history
      /\ \A j \in DOMAIN history :
           /\ history'[j].turn = history[j].turn /\ history'[j].route = history[j].route
           /\ history[j].turn # t => history'[j] = history[j]
  BY OthersKeptByUsage
<1>6. PaidRows(s)' = {j \in DOMAIN history' :
                       /\ history'[j].turn = s /\ history'[j].route = "premium"
                       /\ history'[j].usage # "none"}
  BY DEF PaidRows
<1>7. PremiumSum(s) = Cardinality(PaidRows(s)) /\ PremiumSum(s)' = Cardinality(PaidRows(s)')
  BY DEF PremiumSum, PaidRows
<1>8. CASE s # t
  <2>1. \A j : j \in PaidRows(s)' <=> j \in PaidRows(s)
    BY <1>5, <1>6, <1>8 DEF PaidRows
  <2>2. PaidRows(s)' = PaidRows(s)
    BY <2>1, Zenon
  <2> QED BY <1>7, <1>8, <2>2
<1>9. CASE s = t
  <2>1. history'[i].usage = IF told THEN "upstream" ELSE "none"
    <3> DEFINE usage == IF told THEN "upstream" ELSE "none"
    <3>1. \A j \in 1..Len(history) :
            SameButUsage(history'[j], history[j],
                         IF Latest(history, t, j) THEN usage ELSE history[j].usage)
      BY <1>1, UsageClosed DEF TypeOK
    <3>2. i \in 1..Len(history)
      BY <1>3, LenProperties DEF TypeOK
    <3> HIDE DEF usage
    <3>3. SameButUsage(history'[i], history[i], usage)
      BY <1>4, <3>1, <3>2
    <3> QED BY <3>3 DEF SameButUsage, usage
  <2>2. \A j \in PaidRows(s)' : j = i
    BY <1>3, <1>5, <1>6, <1>9 DEF PremiumRows
  <2>3. i \in PaidRows(s)' <=> told
    BY <1>3, <1>5, <1>6, <1>9, <2>1
  <2>4. CASE told
    <3>1. PaidRows(s)' = {i}
      BY <2>2, <2>3, <2>4
    <3> QED BY <1>7, <1>9, <2>4, <3>1, FS_Singleton
  <2>5. CASE ~told
    <3>1. PaidRows(s)' = {}
      BY <2>2, <2>3, <2>5
    <3> QED BY <1>7, <1>9, <2>5, <3>1, FS_EmptySet
  <2> QED BY <2>4, <2>5
<1> QED BY <1>8, <1>9

\* The premium totals in memory are those of the database.
LEMMA PremiumTotalsKept ==
  ASSUME TypeOK, TypeOK', NotYetCounted, PremiumRowIsNewest, PremiumTotalsMatchHistory, [Next]_vars
  PROVE  PremiumTotalsMatchHistory'
<1> SUFFICES ASSUME server' = "up", boot' = "full", ~failed', NEW s \in Turns
             PROVE  live'["premium"][s] = PremiumSum(s)'
  BY DEF PremiumTotalsMatchHistory
<1>1. CASE UNCHANGED <<process, failed, history, live>>
  BY <1>1, BooksUnchanged DEF PremiumTotalsMatchHistory, process
<1>2. CASE Process
  <2>1. ASSUME NEW read \in BOOLEAN, Start(read)
        PROVE  live'["premium"][s] = PremiumSum(s)'
    <3>1. read /\ UNCHANGED history
      BY <2>1 DEF Start
    <3>2. live'["premium"][s] = PremiumSum(s)
      BY <2>1, <3>1 DEF Start, Gauges
    <3> QED BY <3>1, <3>2, BooksUnchanged
  <2> QED BY <1>2, <2>1 DEF Process, StartWithoutLedger, StartFails, Crash, TypeOK
<1>3. ASSUME NEW t \in Turns, Turn(t)
      PROVE  live'["premium"][s] = PremiumSum(s)'
  <2>1. server = "up" /\ boot = "full"
    BY <1>3, TurnMoves DEF process
  <2>2. CASE \/ \E withId \in BOOLEAN : Route(t, withId)
             \/ Decline(t) \/ SkipLedger(t) \/ ChmodFails(t) \/ EndWithoutUsage(t)
             \/ \E text \in Texts : AppendLine(t, text) \/ TearLine(t, text)
    <3>1. UNCHANGED <<live, history, failed>>
      <4>1. ASSUME NEW withId \in BOOLEAN, Route(t, withId)
            PROVE  UNCHANGED <<live, history, failed>>
        BY <4>1 DEF Route
      <4>2. ASSUME NEW text \in Texts, AppendLine(t, text) \/ TearLine(t, text)
            PROVE  UNCHANGED <<live, history, failed>>
        BY <4>2 DEF AppendLine, TearLine
      <4>3. CASE Decline(t) \/ SkipLedger(t) \/ ChmodFails(t) \/ EndWithoutUsage(t)
        BY <4>3 DEF Decline, SkipLedger, ChmodFails, EndWithoutUsage
      <4> QED BY <2>2, <4>1, <4>2, <4>3
    <3> QED BY <2>1, <3>1, BooksUnchanged DEF PremiumTotalsMatchHistory
  <2>3. CASE AddSavings(t)
    <3> DEFINE gauges == {"cost"}
    <3>1. UNCHANGED <<failed, history>> /\ Add(One(t, gauges)) /\ "premium" \notin gauges
      BY <2>3 DEF AddSavings
    <3> HIDE DEF gauges
    <3>2. live'["premium"][s] = live["premium"][s]
      BY <3>1, AddTyped DEF TypeOK, Gauges
    <3> QED BY <2>1, <3>1, <3>2, BooksUnchanged DEF PremiumTotalsMatchHistory
  <2>4. ASSUME NEW accepted \in BOOLEAN, NEW shaped \in BOOLEAN, RecordRouted(t, accepted, shaped)
        PROVE  live'["premium"][s] = PremiumSum(s)'
    <3> DEFINE row == [turn |-> t, route |-> "routed", keyed |-> keyed[t],
                       usage |-> "own", source |-> "live"]
               gauges == {"by_model"} \cup (IF shaped THEN {"routed"} ELSE {})
    <3>1. row \in Row /\ row.route = "routed" /\ Record(row, accepted)
      BY <2>4 DEF Row, TypeOK, RecordRouted
    <3>2. Add(One(t, gauges)) /\ "premium" \notin gauges
      BY <2>4 DEF RecordRouted
    <3> HIDE DEF row, gauges
    <3>3. live'["premium"][s] = live["premium"][s]
      BY <3>2, AddTyped DEF TypeOK, Gauges
    <3>4. ~failed
      BY <3>1 DEF Record
    <3>5. PremiumSum(s)' = PremiumSum(s)
      BY <3>1, RecordedUnpaid
    <3> QED BY <2>1, <3>3, <3>4, <3>5 DEF PremiumTotalsMatchHistory
  <2>5. ASSUME NEW accepted \in BOOLEAN, RecordPremium(t, accepted)
        PROVE  live'["premium"][s] = PremiumSum(s)'
    <3> DEFINE row == [turn |-> t, route |-> "premium", keyed |-> TRUE,
                       usage |-> "none", source |-> "live"]
    <3>1. row \in Row /\ row.usage = "none" /\ Record(row, accepted)
      BY <2>5 DEF Row, RecordPremium
    <3> HIDE DEF row
    <3>2. ~failed /\ UNCHANGED live
      BY <2>5, <3>1 DEF Record, RecordPremium
    <3>3. PremiumSum(s)' = PremiumSum(s)
      BY <3>1, RecordedUnpaid
    <3> QED BY <2>1, <3>2, <3>3 DEF PremiumTotalsMatchHistory
  <2>6. ASSUME NEW told \in BOOLEAN, NEW accepted \in BOOLEAN, RecordUsage(t, told, accepted)
        PROVE  live'["premium"][s] = PremiumSum(s)'
    <3> DEFINE gauges == IF told THEN {"premium"} ELSE {}
    <3>1. Add(One(t, gauges)) /\ ~failed /\ stage[t] = "relaying"
      BY <2>6 DEF RecordUsage, Move
    <3>2. PremiumSum(s)' = IF s = t THEN (IF told THEN 1 ELSE 0) ELSE PremiumSum(s)
      BY <2>6, PaidByUsage
    <3>3. live["premium"][t] = 0 /\ live["premium"][s] = PremiumSum(s)
      BY <2>1, <3>1 DEF NotYetCounted, PremiumTotalsMatchHistory
    <3>4. "premium" \in gauges <=> told
      OBVIOUS
    <3> HIDE DEF gauges
    <3>5. live'["premium"][s] = live["premium"][s] + (IF s = t /\ "premium" \in gauges THEN 1 ELSE 0)
      BY <3>1, AddTyped DEF TypeOK, Gauges
    <3>6. live["premium"][s] \in Nat
      BY DEF TypeOK, Gauges
    <3> QED BY <3>2, <3>3, <3>4, <3>5, <3>6
  <2> QED BY <1>3, <2>2, <2>3, <2>4, <2>5, <2>6 DEF Turn, Texts
<1> QED BY <1>1, <1>2, <1>3 DEF Next, vars, process
\* What a start shows: the newest rows of the database, or, if it has none to read,
\* rows made from the ledger.
LEMMA Restored ==
  ASSUME TypeOK, NEW read \in BOOLEAN, Start(read)
  PROVE  \/ /\ read
            /\ Len(recent') = IF Len(history) <= MaxRecent THEN Len(history) ELSE MaxRecent
            /\ \A i \in DOMAIN recent' :
                 /\ i \in 1..Len(recent') /\ Len(history) - i + 1 \in DOMAIN history
                 /\ recent'[i] = history[Len(history) - i + 1]
         \/ /\ read => Len(history) = 0
            /\ \A i \in DOMAIN recent' : \E t \in Turns : recent'[i] = LedgerRow(t)
<1> DEFINE kept == Newest(Reverse(history))
           made == Newest(LedgerRows(ledger))
<1>1. /\ Len(history) \in Nat /\ DOMAIN history = 1..Len(history)
      /\ MaxRecent \in Nat /\ MaxRecent >= 1
  BY LenProperties, BoundsAssumption DEF TypeOK
<1>2. /\ kept \in Seq(Row)
      /\ Len(kept) = IF Len(history) <= MaxRecent THEN Len(history) ELSE MaxRecent
      /\ \A i \in 1..Len(kept) : i \in 1..Len(history) /\ kept[i] = history[Len(history) - i + 1]
  BY Reversed, NewestAreFirst DEF TypeOK
<1>3. made \in Seq(Row) /\ \A i \in 1..Len(made) : \E t \in Turns : made[i] = LedgerRow(t)
  <2>1. /\ LedgerRows(ledger) \in Seq(Row)
        /\ \A i \in 1..Len(LedgerRows(ledger)) :
             \E t \in Turns : LedgerRows(ledger)[i] = LedgerRow(t)
    BY LedgerRowsTyped DEF TypeOK
  <2>2. /\ made \in Seq(Row)
        /\ \A i \in 1..Len(made) : i \in 1..Len(LedgerRows(ledger)) /\ made[i] = LedgerRows(ledger)[i]
    BY <2>1, NewestAreFirst
  <2> QED BY <2>1, <2>2
<1>4. /\ recent' = IF (IF read THEN kept ELSE << >>) # << >>
                     THEN (IF read THEN kept ELSE << >>) ELSE made
  BY DEF Start
<1>5. DOMAIN kept = 1..Len(kept) /\ DOMAIN made = 1..Len(made)
  BY <1>2, <1>3, LenProperties
<1> HIDE DEF kept, made
<1>6. CASE read /\ kept # << >>
  <2>1. \A i \in 1..Len(history) : Len(history) - i + 1 \in 1..Len(history)
    BY <1>1
  <2>2. recent' = kept
    BY <1>4, <1>6
  <2> QED BY <1>1, <1>2, <1>5, <1>6, <2>1, <2>2
<1>7. CASE ~(read /\ kept # << >>)
  <2>1. recent' = made
    BY <1>4, <1>7
  <2>2. read => Len(history) = 0
    <3>1. ASSUME read
          PROVE  Len(kept) = 0
      BY <1>7, <3>1, EmptySeq
    <3> QED BY <1>1, <1>2, <3>1
  <2> QED BY <1>3, <1>5, <2>1, <2>2
<1> QED BY <1>6, <1>7

\* What is said of every row, said of the places of the lists.
LEMMA RowsByPlace ==
  /\ Sources <=> /\ \A i \in DOMAIN history : history[i].source = "live"
                 /\ \A i \in DOMAIN recent : recent[i].source = "ledger" => ~recent[i].keyed
  /\ UsageKeepsItsRow <=>
       (~failed => /\ \A i \in DOMAIN history :
                        history[i].route = "routed" => history[i].usage = "own"
                   /\ \A i \in DOMAIN recent :
                        recent[i].route = "routed" => recent[i].usage = "own")
BY DEF Sources, UsageKeepsItsRow, Range

\* Rows from the database are live and those made from the ledger have no id; a
\* routed row keeps its own usage.
LEMMA RowsKept ==
  ASSUME TypeOK, PremiumRowIsNewest, Sources, UsageKeepsItsRow, [Next]_vars
  PROVE  Sources' /\ UsageKeepsItsRow'
<1> DEFINE Own(rows) == \A i \in DOMAIN rows : rows[i].route = "routed" => rows[i].usage = "own"
           Live(rows) == \A i \in DOMAIN rows : rows[i].source = "live"
           Anonymous(rows) == \A i \in DOMAIN rows : rows[i].source = "ledger" => ~rows[i].keyed
<1>1. Live(history) /\ Anonymous(recent) /\ (~failed => Own(history) /\ Own(recent))
  BY RowsByPlace
<1>2. /\ Sources' <=> Live(history') /\ Anonymous(recent')
      /\ UsageKeepsItsRow' <=> (~failed' => Own(history') /\ Own(recent'))
  BY DEF Sources, UsageKeepsItsRow, Range
<1> SUFFICES Live(history') /\ Anonymous(recent') /\ (~failed' => Own(history') /\ Own(recent'))
  BY <1>2
<1>3. CASE UNCHANGED <<recent, history, failed>>
  BY <1>1, <1>3
<1>4. CASE Process
  <2>1. ASSUME NEW read \in BOOLEAN, Start(read)
        PROVE  Live(history') /\ Anonymous(recent') /\ (~failed' => Own(history') /\ Own(recent'))
    <3>1. UNCHANGED <<history, failed>>
      BY <2>1 DEF Start
    <3>2. \A i \in DOMAIN recent' :
            \/ \E j \in DOMAIN history : recent'[i] = history[j]
            \/ \E t \in Turns : recent'[i] = LedgerRow(t)
      BY <2>1, Restored
    <3>3. \A t \in Turns : /\ ~LedgerRow(t).keyed /\ LedgerRow(t).usage = "own"
      BY DEF LedgerRow
    <3> QED BY <1>1, <3>1, <3>2, <3>3
  <2>2. CASE Crash
    <3>1. DOMAIN << >> = {}
      OBVIOUS
    <3> QED BY <1>1, <2>2, <3>1 DEF Crash
  <2>3. CASE StartWithoutLedger \/ StartFails
    BY <1>3, <2>3 DEF StartWithoutLedger, StartFails
  <2> QED BY <1>4, <2>1, <2>2, <2>3 DEF Process
<1>5. ASSUME NEW row \in Row, NEW accepted \in BOOLEAN, Record(row, accepted),
             row.source = "live", row.route = "routed" => row.usage = "own"
      PROVE  Live(history') /\ Anonymous(recent') /\ (~failed' => Own(history') /\ Own(recent'))
  <2>1. /\ recent' \in Seq(Row) /\ recent'[1] = row
        /\ \A i \in 2..Len(recent') : i - 1 \in 1..Len(recent) /\ recent'[i] = recent[i-1]
        /\ history' \in Seq(Row)
        /\ accepted => /\ Len(history') = Len(history) + 1
                       /\ history'[Len(history) + 1] = row
                       /\ \A i \in 1..Len(history) : history'[i] = history[i]
        /\ ~accepted => history' = history
        /\ ~failed' => ~failed
    BY <1>5, Recorded DEF TypeOK
  <2>2. /\ Len(history) \in Nat /\ DOMAIN history = 1..Len(history)
        /\ DOMAIN recent = 1..Len(recent)
        /\ Len(recent') \in Nat /\ DOMAIN recent' = 1..Len(recent')
        /\ DOMAIN history' = 1..Len(history')
    BY <2>1, LenProperties DEF TypeOK
  <2>3. \A i \in DOMAIN history' :
          history'[i] = row \/ (i \in DOMAIN history /\ history'[i] = history[i])
    <3>1. CASE accepted
      BY <2>1, <2>2, <3>1
    <3>2. CASE ~accepted
      BY <2>1, <3>2
    <3> QED BY <3>1, <3>2
  <2>4. \A i \in DOMAIN recent' :
          recent'[i] = row \/ \E j \in DOMAIN recent : recent'[i] = recent[j]
    <3>1. \A i \in DOMAIN recent' : i = 1 \/ i \in 2..Len(recent')
      BY <2>2
    <3> QED BY <2>1, <2>2, <3>1
  <2>5. row.source = "live" /\ (row.route = "routed" => row.usage = "own")
    BY <1>5
  <2>6. Live(history')
    BY <1>1, <2>3, <2>5
  <2>7. Anonymous(recent')
    BY <1>1, <2>4, <2>5
  <2>8. ASSUME ~failed'
        PROVE  Own(history') /\ Own(recent')
    <3>1. Own(history) /\ Own(recent)
      BY <1>1, <2>1, <2>8
    <3>2. Own(history')
      BY <2>3, <2>5, <3>1
    <3>3. Own(recent')
      BY <2>4, <2>5, <3>1
    <3> QED BY <3>2, <3>3
  <2> HIDE DEF Live, Anonymous, Own
  <2> QED BY <2>6, <2>7, <2>8
<1>6. ASSUME NEW t \in Turns, NEW told \in BOOLEAN, NEW accepted \in BOOLEAN,
             RecordUsage(t, told, accepted)
      PROVE  Live(history') /\ Anonymous(recent') /\ (~failed' => Own(history') /\ Own(recent'))
  <2> DEFINE usage == IF told THEN "upstream" ELSE "none"
  <2>1. /\ recent' \in Seq(Row) /\ Len(recent') = Len(recent)
        /\ \A i \in 1..Len(recent) :
             SameButUsage(recent'[i], recent[i],
                          IF First(recent, t, i) THEN usage ELSE recent[i].usage)
        /\ history' \in Seq(Row) /\ Len(history') = Len(history)
        /\ accepted => \A i \in 1..Len(history) :
             SameButUsage(history'[i], history[i],
                          IF Latest(history, t, i) THEN usage ELSE history[i].usage)
        /\ ~accepted => history' = history
    BY <1>6, UsageClosed DEF TypeOK
  <2> HIDE DEF usage
  <2>2. /\ DOMAIN history = 1..Len(history) /\ DOMAIN recent = 1..Len(recent)
        /\ DOMAIN history' = DOMAIN history /\ DOMAIN recent' = DOMAIN recent
    BY <2>1, LenProperties DEF TypeOK
  <2>3. Live(history')
    <3>1. CASE accepted
      BY <1>1, <2>1, <2>2, <3>1 DEF SameButUsage
    <3>2. CASE ~accepted
      BY <1>1, <2>1, <3>2
    <3> QED BY <3>1, <3>2
  <2>4. Anonymous(recent')
    BY <1>1, <2>1, <2>2 DEF SameButUsage
  <2>5. ASSUME ~failed'
        PROVE  Own(history') /\ Own(recent')
    <3>1. accepted /\ ~failed /\ stage[t] = "relaying"
      BY <1>6, <2>5 DEF RecordUsage, Move
    <3>2. \A i \in DOMAIN recent : First(recent, t, i) => recent[i].route # "routed"
      <4> SUFFICES ASSUME NEW i \in DOMAIN recent, First(recent, t, i), recent[i].route = "routed"
                   PROVE  FALSE
        OBVIOUS
      <4>1. PICK j \in 1..i-1 : recent[j].turn = t /\ recent[j].keyed
        BY <3>1 DEF First, PremiumRowIsNewest
      <4>2. Len(recent) \in Nat /\ i \in 1..Len(recent)
        BY <2>2, LenProperties DEF TypeOK
      <4>3. j \in DOMAIN recent /\ ~(i <= j)
        BY <2>2, <4>2
      <4> QED BY <4>1, <4>3 DEF First
    <3>3. \A i \in DOMAIN history : Latest(history, t, i) => history[i].route # "routed"
      <4> SUFFICES ASSUME NEW i \in DOMAIN history, Latest(history, t, i)
                   PROVE  history[i].route # "routed"
        OBVIOUS
      <4>1. PICK m \in PremiumRows(t) :
              history[m].keyed /\ \A j \in DOMAIN history : history[j].turn = t => j <= m
        BY <3>1 DEF PremiumRowIsNewest
      <4>2. m \in DOMAIN history /\ history[m].turn = t /\ history[m].route = "premium"
        BY DEF PremiumRows
      <4>3. m <= i /\ i <= m
        BY <4>1, <4>2 DEF Latest
      <4>4. m = i
        <5>1. Len(history) \in Nat /\ m \in 1..Len(history) /\ i \in 1..Len(history)
          BY <2>2, <4>2, LenProperties DEF TypeOK
        <5> QED BY <4>3, <5>1
      <4> QED BY <4>2, <4>4
    <3>4. Own(recent')
      BY <1>1, <2>1, <2>2, <3>1, <3>2 DEF SameButUsage
    <3>5. Own(history')
      BY <1>1, <2>1, <2>2, <3>1, <3>3 DEF SameButUsage
    <3> QED BY <3>4, <3>5
  <2> QED BY <2>3, <2>4, <2>5
<1>7. ASSUME NEW t \in Turns, Turn(t)
      PROVE  Live(history') /\ Anonymous(recent') /\ (~failed' => Own(history') /\ Own(recent'))
  <2>1. CASE UNCHANGED <<recent, history, failed>>
    BY <1>3, <2>1
  <2>2. ASSUME NEW accepted \in BOOLEAN, NEW shaped \in BOOLEAN, RecordRouted(t, accepted, shaped)
        PROVE  \E row \in Row : Record(row, accepted) /\ row.source = "live" /\ row.usage = "own"
    <3> DEFINE row == [turn |-> t, route |-> "routed", keyed |-> keyed[t],
                       usage |-> "own", source |-> "live"]
    <3>1. row \in Row /\ row.source = "live" /\ row.usage = "own" /\ Record(row, accepted)
      BY <2>2 DEF Row, TypeOK, RecordRouted
    <3> HIDE DEF row
    <3> QED BY <3>1
  <2>3. ASSUME NEW accepted \in BOOLEAN, RecordPremium(t, accepted)
        PROVE  \E row \in Row : Record(row, accepted) /\ row.source = "live" /\ row.route = "premium"
    <3> DEFINE row == [turn |-> t, route |-> "premium", keyed |-> TRUE,
                       usage |-> "none", source |-> "live"]
    <3>1. row \in Row /\ row.source = "live" /\ row.route = "premium" /\ Record(row, accepted)
      BY <2>3 DEF Row, RecordPremium
    <3> HIDE DEF row
    <3> QED BY <3>1
  <2> HIDE DEF Own, Live, Anonymous
  <2>4. CASE \E accepted, shaped \in BOOLEAN : RecordRouted(t, accepted, shaped)
    BY <1>5, <2>2, <2>4
  <2>5. CASE \E accepted \in BOOLEAN : RecordPremium(t, accepted)
    BY <1>5, <2>3, <2>5
  <2>6. CASE \E told, accepted \in BOOLEAN : RecordUsage(t, told, accepted)
    BY <1>6, <2>6
  <2> QED BY <1>7, <2>1, <2>4, <2>5, <2>6 DEF Turn, Route, Decline, SkipLedger, AppendLine,
             TearLine, AddSavings, ChmodFails, EndWithoutUsage
<1> QED BY <1>3, <1>4, <1>7 DEF Next, vars
\* The first k rows in memory are the newest k of the database, the others are made
\* from the ledger, and a row is missing only if the list is full.
Shows(k) ==
  /\ k \in 0..Len(recent) /\ k <= Len(history)
  /\ \A i \in 1..k : recent[i].source = "live" /\ recent[i] = history[Len(history) - i + 1]
  /\ \A i \in k+1..Len(recent) : recent[i].source = "ledger"
  /\ k = Len(history) \/ Len(recent) = MaxRecent

\* A row that is recorded in both places is shown before the others.
LEMMA RecordedShows ==
  ASSUME TypeOK, NEW row \in Row, row.source = "live", NEW accepted \in BOOLEAN,
         Record(row, accepted), ~failed', NEW k, Shows(k)
  PROVE  \E m : Shows(m)'
<1> DEFINE n == Len(history)
           len == Len(recent)
           max == Len(recent')
<1>1. /\ recent' \in Seq(Row) /\ max = IF len < MaxRecent THEN len + 1 ELSE MaxRecent
      /\ recent'[1] = row
      /\ \A i \in 2..max : i - 1 \in 1..len /\ recent'[i] = recent[i-1]
      /\ Len(history') = n + 1 /\ history'[n + 1] = row
      /\ \A i \in 1..n : history'[i] = history[i]
  BY Recorded DEF TypeOK
<1>2. n \in Nat /\ len \in Nat /\ len <= MaxRecent /\ MaxRecent \in Nat /\ MaxRecent >= 1
  BY LenProperties, BoundsAssumption DEF TypeOK
<1>3. /\ k \in 0..len /\ k <= n
      /\ \A i \in 1..k : recent[i].source = "live" /\ recent[i] = history[n - i + 1]
      /\ \A i \in k+1..len : recent[i].source = "ledger"
      /\ k = n \/ len = MaxRecent
  BY DEF Shows
<1> HIDE DEF n, len, max
<1>4. max \in Nat /\ k \in Nat /\ max >= 1
  BY <1>1, <1>2, <1>3
<1>5. PICK m \in 0..max : m <= n + 1 /\ m <= k + 1 /\ (m # k + 1 => m = max)
                          /\ (k + 1 <= max => m = k + 1)
  <2>1. CASE k < max
    <3>1. k + 1 \in 0..max /\ k + 1 <= n + 1
      BY <1>2, <1>3, <1>4, <2>1
    <3> QED BY <3>1
  <2>2. CASE ~(k < max)
    <3>1. max \in 0..max /\ max <= n + 1 /\ max <= k + 1 /\ ~(k + 1 <= max)
      BY <1>2, <1>3, <1>4, <2>2
    <3> QED BY <3>1
  <2> QED BY <2>1, <2>2
<1>6. m = n + 1 \/ max = MaxRecent
  BY <1>1, <1>2, <1>3, <1>4, <1>5
<1>7. ASSUME NEW i \in 1..m
      PROVE  recent'[i].source = "live" /\ recent'[i] = history'[(n + 1) - i + 1]
  <2>1. CASE i = 1
    BY <1>1, <1>2, <2>1
  <2>2. CASE i # 1
    <3>1. /\ i \in 2..max /\ i - 1 \in 1..k
          /\ n - (i - 1) + 1 \in 1..n /\ n - (i - 1) + 1 = (n + 1) - i + 1
      BY <1>2, <1>3, <1>4, <1>5, <2>2
    <3>2. recent'[i] = recent[i-1] /\ recent[i-1].source = "live"
      BY <1>1, <1>3, <3>1
    <3>3. recent[i-1] = history[n - (i - 1) + 1]
      BY <1>3, <3>1
    <3>4. history'[n - (i - 1) + 1] = history[n - (i - 1) + 1]
      BY <1>1, <3>1
    <3>5. history'[(n + 1) - i + 1] = history'[n - (i - 1) + 1]
      BY <3>1
    <3> QED BY <3>2, <3>3, <3>4, <3>5
  <2> QED BY <2>1, <2>2
<1>8. ASSUME NEW i \in m+1..max
      PROVE  recent'[i].source = "ledger"
  <2>1. i \in 2..max /\ i - 1 \in k+1..max /\ m = k + 1
    BY <1>4, <1>5
  <2>2. i - 1 \in 1..len /\ recent'[i] = recent[i-1]
    BY <1>1, <2>1
  <2>3. i - 1 \in k+1..len
    BY <1>2, <1>4, <2>1, <2>2
  <2> QED BY <1>3, <2>2, <2>3
<1>9. Shows(m)'
  BY <1>1, <1>5, <1>6, <1>7, <1>8 DEF Shows, max
<1> QED BY <1>9

\* Places behind the first k are places.
LEMMA BehindFirst ==
  ASSUME NEW k \in Nat, NEW len \in Nat
  PROVE  \A i \in k+1..len : i \in 1..len
OBVIOUS

\* Usage that reaches both places reaches the same row of both.
LEMMA UsageShows ==
  ASSUME TypeOK, Sources, NEW t \in Turns, NEW told \in BOOLEAN, NEW accepted \in BOOLEAN,
         RecordUsage(t, told, accepted), ~failed', NEW k, Shows(k)
  PROVE  Shows(k)'
<1> DEFINE n == Len(history)
           len == Len(recent)
           usage == IF told THEN "upstream" ELSE "none"
<1>0. accepted
  BY DEF RecordUsage
<1>1. /\ recent' \in Seq(Row) /\ Len(recent') = len
      /\ \A i \in 1..len :
           SameButUsage(recent'[i], recent[i],
                        IF First(recent, t, i) THEN usage ELSE recent[i].usage)
      /\ history' \in Seq(Row) /\ Len(history') = n
      /\ \A i \in 1..n :
           SameButUsage(history'[i], history[i],
                        IF Latest(history, t, i) THEN usage ELSE history[i].usage)
  BY <1>0, UsageClosed DEF TypeOK
<1>2. n \in Nat /\ len \in Nat /\ DOMAIN history = 1..n /\ DOMAIN recent = 1..len
  BY LenProperties DEF TypeOK
<1>3. /\ k \in 0..len /\ k <= n
      /\ \A i \in 1..k : recent[i].source = "live" /\ recent[i] = history[n - i + 1]
      /\ \A i \in k+1..len : recent[i].source = "ledger"
      /\ k = n \/ len = MaxRecent
  BY DEF Shows
<1> HIDE DEF n, len, usage
<1>4. \A i \in k+1..len : ~recent[i].keyed
  <2>1. \A i \in DOMAIN recent : recent[i].source = "ledger" => ~recent[i].keyed
    BY RowsByPlace
  <2>2. k \in Nat /\ len \in Nat
    BY <1>2, <1>3
  <2>3. \A i \in k+1..len : i \in 1..len
    BY <2>2, BehindFirst
  <2> QED BY <1>2, <1>3, <2>1, <2>3
<1>5. ASSUME NEW i \in 1..k
      PROVE  First(recent, t, i) <=> Latest(history, t, n - i + 1)
  <2>1. /\ i \in 1..len /\ n - i + 1 \in 1..n /\ recent[i] = history[n - i + 1]
    BY <1>2, <1>3
  <2>2. ASSUME First(recent, t, i), NEW j \in 1..n, history[j].turn = t, history[j].keyed
        PROVE  j <= n - i + 1
    <3> SUFFICES ASSUME ~(j <= n - i + 1)
                 PROVE  FALSE
      OBVIOUS
    <3>1. n - j + 1 \in 1..k /\ n - (n - j + 1) + 1 = j /\ ~(i <= n - j + 1) /\ n - j + 1 \in 1..len
      BY <1>2, <1>3
    <3>2. recent[n - j + 1] = history[j]
      BY <1>3, <3>1
    <3> QED BY <1>2, <2>2, <3>1, <3>2 DEF First
  <2>3. ASSUME Latest(history, t, n - i + 1), NEW j \in 1..len, recent[j].turn = t, recent[j].keyed
        PROVE  i <= j
    <3> SUFFICES ASSUME ~(i <= j)
                 PROVE  FALSE
      OBVIOUS
    <3>1. j \in 1..k /\ n - j + 1 \in 1..n /\ ~(n - j + 1 <= n - i + 1)
      BY <1>2, <1>3
    <3>2. recent[j] = history[n - j + 1]
      BY <1>3, <3>1
    <3> QED BY <1>2, <2>3, <3>1, <3>2 DEF Latest
  <2>4. ASSUME First(recent, t, i)
        PROVE  Latest(history, t, n - i + 1)
    BY <1>2, <2>1, <2>2, <2>4 DEF First, Latest
  <2>5. ASSUME Latest(history, t, n - i + 1)
        PROVE  First(recent, t, i)
    BY <1>2, <2>1, <2>3, <2>5 DEF First, Latest
  <2> QED BY <2>4, <2>5
<1>6. ASSUME NEW i \in 1..k
      PROVE  recent'[i].source = "live" /\ recent'[i] = history'[n - i + 1]
  <2>1. i \in 1..len /\ n - i + 1 \in 1..n /\ recent[i] = history[n - i + 1]
    BY <1>2, <1>3
  <2> DEFINE new == IF First(recent, t, i) THEN usage ELSE recent[i].usage
             a == recent'[i]
             b == history'[n - i + 1]
  <2>2. SameButUsage(a, recent[i], new) /\ SameButUsage(b, recent[i], new)
    BY <1>1, <1>5, <2>1
  <2> HIDE DEF new, a, b
  <2>3. a = b
    BY <2>2 DEF SameButUsage, Row
  <2>4. a.source = "live"
    BY <1>3, <2>2 DEF SameButUsage
  <2> QED BY <2>3, <2>4 DEF a, b
<1>7. ASSUME NEW i \in k+1..len
      PROVE  recent'[i].source = "ledger"
  <2>1. i \in 1..len
    BY <1>2, <1>3
  <2> QED BY <1>1, <1>3, <2>1 DEF SameButUsage
<1> QED BY <1>1, <1>3, <1>6, <1>7 DEF Shows

\* The rows in memory are those of the database, as far as the list reaches.
LEMMA RecentKept ==
  ASSUME TypeOK, TypeOK', Sources, RecentShowsHistory, [Next]_vars
  PROVE  RecentShowsHistory'
<1>1. /\ RecentShowsHistory <=> (server = "up" /\ boot = "full" /\ ~failed => \E k : Shows(k))
      /\ RecentShowsHistory' <=> (server' = "up" /\ boot' = "full" /\ ~failed' => \E k : Shows(k)')
  BY DEF RecentShowsHistory, Shows
<1> SUFFICES ASSUME server' = "up", boot' = "full", ~failed'
             PROVE  \E k : Shows(k)'
  BY <1>1
<1>2. CASE UNCHANGED <<process, failed, history, recent>>
  BY <1>1, <1>2 DEF process, Shows
<1>3. CASE Process
  <2>1. ASSUME NEW read \in BOOLEAN, Start(read)
        PROVE  \E k : Shows(k)'
    <3>1. read /\ UNCHANGED history /\ Len(history) \in Nat
      BY <2>1, LenProperties DEF Start, TypeOK
    <3>2. recent' \in Seq(Row) /\ Len(recent') \in Nat /\ DOMAIN recent' = 1..Len(recent')
      BY LenProperties DEF TypeOK
    <3>3. CASE /\ Len(recent') = IF Len(history) <= MaxRecent THEN Len(history) ELSE MaxRecent
               /\ \A i \in DOMAIN recent' :
                    /\ Len(history) - i + 1 \in DOMAIN history
                    /\ recent'[i] = history[Len(history) - i + 1]
      <4>5. PICK k : k = Len(recent')
        OBVIOUS
      <4>1. k \in 0..k /\ k <= Len(history) /\ (k = Len(history) \/ k = MaxRecent)
        BY <3>1, <3>2, <3>3, <4>5, BoundsAssumption
      <4>2. \A i \in 1..k : recent'[i].source = "live" /\ recent'[i] = history[Len(history) - i + 1]
        BY <3>2, <3>3, <4>5, RowsByPlace
      <4>3. \A i \in k+1..k : FALSE
        BY <3>2, <4>5
      <4>4. Shows(k)'
        BY <3>1, <4>1, <4>2, <4>3, <4>5 DEF Shows
      <4> QED BY <4>4
    <3>4. CASE /\ Len(history) = 0
               /\ \A i \in DOMAIN recent' : \E t \in Turns : recent'[i] = LedgerRow(t)
      <4>1. \A i \in 0+1..Len(recent') : recent'[i].source = "ledger"
        BY <3>2, <3>4 DEF LedgerRow
      <4>2. 0 \in 0..Len(recent') /\ \A i \in 1..0 : FALSE
        BY <3>2
      <4>3. Shows(0)'
        BY <3>1, <3>4, <4>1, <4>2 DEF Shows
      <4> QED BY <4>3
    <3> QED BY <2>1, <3>1, <3>3, <3>4, Restored
  <2> QED BY <1>3, <2>1 DEF Process, StartWithoutLedger, StartFails, Crash, TypeOK
<1>4. ASSUME NEW t \in Turns, Turn(t)
      PROVE  \E k : Shows(k)'
  <2>1. server = "up" /\ UNCHANGED process
    BY <1>4, TurnMoves
  <2>2. CASE UNCHANGED <<failed, history, recent>>
    BY <1>2, <2>1, <2>2
  <2>3. ~failed => \E k : Shows(k)
    BY <1>1, <2>1 DEF process
  <2>4. ASSUME NEW row \in Row, row.source = "live", NEW accepted \in BOOLEAN, Record(row, accepted)
        PROVE  \E k : Shows(k)'
    <3>1. ~failed
      BY <2>4 DEF Record
    <3> QED BY <2>3, <2>4, <3>1, RecordedShows
  <2>5. CASE \E accepted, shaped \in BOOLEAN : RecordRouted(t, accepted, shaped)
    <3>1. PICK accepted \in BOOLEAN, shaped \in BOOLEAN : RecordRouted(t, accepted, shaped)
      BY <2>5
    <3> DEFINE row == [turn |-> t, route |-> "routed", keyed |-> keyed[t],
                       usage |-> "own", source |-> "live"]
    <3>2. row \in Row /\ row.source = "live" /\ Record(row, accepted)
      BY <3>1 DEF Row, TypeOK, RecordRouted
    <3> HIDE DEF row
    <3> QED BY <2>4, <3>2
  <2>6. CASE \E accepted \in BOOLEAN : RecordPremium(t, accepted)
    <3>1. PICK accepted \in BOOLEAN : RecordPremium(t, accepted)
      BY <2>6
    <3> DEFINE row == [turn |-> t, route |-> "premium", keyed |-> TRUE,
                       usage |-> "none", source |-> "live"]
    <3>2. row \in Row /\ row.source = "live" /\ Record(row, accepted)
      BY <3>1 DEF Row, RecordPremium
    <3> HIDE DEF row
    <3> QED BY <2>4, <3>2
  <2>7. ASSUME NEW told \in BOOLEAN, NEW accepted \in BOOLEAN, RecordUsage(t, told, accepted)
        PROVE  \E k : Shows(k)'
    <3>1. ~failed
      BY <2>7 DEF RecordUsage
    <3>2. PICK k : Shows(k)
      BY <2>3, <3>1
    <3>3. Shows(k)'
      BY <2>7, <3>2, UsageShows
    <3> QED BY <3>3
  <2> QED BY <1>4, <2>2, <2>5, <2>6, <2>7 DEF Turn, Route, Decline, SkipLedger, AppendLine,
             TearLine, AddSavings, ChmodFails, EndWithoutUsage
<1> QED BY <1>2, <1>3, <1>4 DEF Next, vars, process
-----------------------------------------------------------------------------
(* The theorems. *)

\* The inductive invariant holds at first.
LEMMA InitInvariant == Init => IInv
<1> SUFFICES ASSUME Init
             PROVE  IInv
  OBVIOUS
<1>1. TypeOK
  BY InitTyped
<1>2. DOMAIN << >> = {} /\ server = "down"
  BY DEF Init
<1>3. Range(<< >>) = {}
  BY DEF Range
<1>4. /\ \A t \in Turns : Mentions(t) = {} /\ PremiumRows(t) = {} /\ stage[t] = "new"
      /\ \A t \in Turns, g \in Gauges : live[g][t] = 0
  BY <1>2 DEF Init, Mentions, PremiumRows, Zero
<1>5. OnlyWhileUp
  BY <1>4 DEF Init, OnlyWhileUp
<1>6. WrittenOnce /\ NotYetCounted /\ PremiumRowIsNewest /\ CountedOnce /\ CostsBacked
  BY <1>4 DEF WrittenOnce, NotYetCounted, PremiumRowIsNewest, CountedOnce, CostsBacked, Gauges
<1>7. Sources /\ UsageKeepsItsRow
  BY <1>2, <1>3 DEF Init, Sources, UsageKeepsItsRow
<1>8. PremiumTotalsMatchHistory /\ RecentShowsHistory
  BY <1>2 DEF PremiumTotalsMatchHistory, RecentShowsHistory
<1> QED BY <1>1, <1>5, <1>6, <1>7, <1>8 DEF IInv

\* Every step keeps it: a step of one book is answered for by what the invariant
\* says of the others.
LEMMA StepInvariant == IInv /\ [Next]_vars => IInv'
<1> SUFFICES ASSUME IInv, [Next]_vars
             PROVE  IInv'
  OBVIOUS
<1> USE DEF IInv
<1>1. TypeOK'
  BY StepTyped
<1>2. OnlyWhileUp' /\ WrittenOnce' /\ PremiumRowIsNewest'
  BY OnlyWhileUpKept, WrittenOnceKept, PremiumRowKept
<1>3. NotYetCounted' /\ CountedOnce' /\ CostsBacked'
  BY TotalsKept
<1>4. Sources' /\ UsageKeepsItsRow'
  BY RowsKept
<1>5. PremiumTotalsMatchHistory'
  BY <1>1, PremiumTotalsKept
<1>6. RecentShowsHistory'
  BY <1>1, RecentKept
<1> QED BY <1>1, <1>2, <1>3, <1>4, <1>5, <1>6

\* The inductive invariant of the books.
LEMMA Invariance == Spec => []IInv
BY InitInvariant, StepInvariant, PTL DEF Spec

\* No turn is twice in a total, however often the proxy dies: what a start restores
\* and what the process adds do not overlap.
THEOREM TurnsCountOnce == Spec => []CountedOnce
<1>1. IInv => CountedOnce
  BY DEF IInv
<1> QED BY Invariance, <1>1, PTL

\* Savings are shown only of a turn whose entry was written completely.
THEOREM SavingsAreBacked == Spec => []CostsBacked
<1>1. IInv => CostsBacked
  BY DEF IInv
<1> QED BY Invariance, <1>1, PTL

\* Unless a book could not be read or written, the premium totals in memory are those
\* of the rows in the database.
THEOREM PremiumTotalsAgree == Spec => []PremiumTotalsMatchHistory
<1>1. IInv => PremiumTotalsMatchHistory
  BY DEF IInv
<1> QED BY Invariance, <1>1, PTL

\* Under the same condition the rows in memory are the newest of the database, for
\* any number of rows kept.
THEOREM RecentAgrees == Spec => []RecentShowsHistory
<1>1. IInv => RecentShowsHistory
  BY DEF IInv
<1> QED BY Invariance, <1>1, PTL

\* The usage of an upstream's response is never written over that of the tier's reply
\* to the same turn.
THEOREM UsageStaysApart == Spec => []UsageKeepsItsRow
<1>1. IInv => UsageKeepsItsRow
  BY DEF IInv
<1> QED BY Invariance, <1>1, PTL
=============================================================================
