---------------------------- MODULE CaptureProofs ---------------------------
(***************************************************************************)
(* Proofs about Capture, for any set of responses, of any length and cut   *)
(* into chunks anywhere.                                                   *)
(*                                                                         *)
(* Feeding a chunk is feeding its bytes one by one (FedSteps).  A reader   *)
(* takes the same bytes with no buffer, no decoder and no chunks (Reader), *)
(* and it reads from a whole response what the response states             *)
(* (ResponseIsRead).  Capture and reader agree after every byte            *)
(* (AgreeByte), between two chunks (AgreeBetween), and so at the end       *)
(* (AgreeLast), but for an event whose end came early.                     *)
(***************************************************************************)
EXTENDS Capture, SequenceProofs

---------------------------------------------------------------------------
(* Letters, and the usage of a text.                                       *)

\* The bytes of a response, and the letters of its text.
Octets == Alphabet \cup {CR, LF}
Letters == Octets \cup {Char}
Counts == [Keys -> Nat]

\* The letters differ.
LEMMA LettersDiffer ==
  /\ CR # LF /\ CR # Data /\ CR # Lead /\ CR # Trail /\ CR # Char /\ CR # Word
  /\ LF # Data /\ LF # Lead /\ LF # Trail /\ LF # Char /\ LF # Word
  /\ Data # Lead /\ Data # Trail /\ Data # Char /\ Lead # Trail /\ Lead # Char /\ Trail # Char
  /\ Word # Data /\ Word # Lead /\ Word # Trail /\ Word # Char
  /\ CR \notin Alphabet /\ LF \notin Alphabet /\ Char \notin Octets
<1> DEFINE H == [is : {"half"}, usage : Usages, part : {1, 2}]
<1>1. \A x \in H : x.is = "half"
  OBVIOUS
<1>2. /\ CR.is = "cr" /\ LF.is = "lf" /\ Data.is = "data" /\ Word.is = "word" /\ Lead.is = "lead"
      /\ Trail.is = "trail" /\ Char.is = "char"
  BY DEF CR, LF, Data, Word, Lead, Trail, Char, Byte
<1>3. Alphabet = {Data, Word, Lead, Trail} \cup H
  BY DEF Alphabet
<1> HIDE DEF H
<1>4. CR \notin H /\ LF \notin H /\ Char \notin H
  BY <1>1, <1>2
<1> QED BY <1>2, <1>3, <1>4 DEF Octets

\* Which letters a text is made of.
LEMMA LettersAre ==
  /\ Alphabet \subseteq Octets /\ Octets \subseteq Letters
  /\ CR \in Octets /\ LF \in Octets /\ Lead \in Octets /\ Trail \in Octets /\ Data \in Octets
  /\ CR \in Letters /\ LF \in Letters /\ Char \in Letters
  /\ Lead \in Letters /\ Trail \in Letters /\ Data \in Letters
BY DEF Octets, Letters, Alphabet

\* Bytes, and letters, in three pieces.
LEMMA InPieces ==
  /\ \A a, b, c \in Seq(Octets) : (a \o b) \o c = a \o (b \o c)
  /\ \A a, b, c \in Seq(Letters) : (a \o b) \o c = a \o (b \o c)
<1>1. ASSUME NEW a \in Seq(Octets), NEW b \in Seq(Octets), NEW c \in Seq(Octets)
      PROVE  (a \o b) \o c = a \o (b \o c)
  BY ConcatConcat
<1>2. ASSUME NEW a \in Seq(Letters), NEW b \in Seq(Letters), NEW c \in Seq(Letters)
      PROVE  (a \o b) \o c = a \o (b \o c)
  BY ConcatConcat
<1> QED BY <1>1, <1>2

\* What carries usage: everything but the bytes of a character.
Telling == Letters \ {Lead, Trail, Char}

\* The parts of a text, letter by letter.
LEMMA PartsAre ==
  ASSUME NEW t \in Seq(Letters)
  PROVE  Parts(t) = Only(t, Telling) /\ Parts(t) \in Seq(Letters)
<1>1. \A i \in DOMAIN t : t[i] \in Letters
  OBVIOUS
<1> DEFINE P == {i \in DOMAIN t : t[i] \notin {Lead, Trail, Char}}
<1>2. \A i \in DOMAIN t : i \in P <=> t[i] \in Telling
  BY <1>1 DEF Telling
<1>3. Parts(t) = At(t, P)
  BY DEF Parts
<1> HIDE DEF P
<1>4. At(t, P) = Only(t, Telling)
  BY <1>2, OnlyIs
<1> QED BY <1>3, <1>4, OnlyType

\* Nothing has no parts.
LEMMA PartsNone == Parts(<<>>) = <<>>
<1>1. <<>> \in Seq(Letters)
  OBVIOUS
<1> QED BY <1>1, PartsAre, OnlyNone

\* The parts of a letter more.
LEMMA PartsAppend ==
  ASSUME NEW t \in Seq(Letters), NEW b \in Letters
  PROVE  Parts(Append(t, b)) = IF b \in Telling THEN Append(Parts(t), b) ELSE Parts(t)
<1>1. Append(t, b) \in Seq(Letters)
  OBVIOUS
<1>2. Parts(Append(t, b)) = Only(Append(t, b), Telling) /\ Parts(t) = Only(t, Telling)
  BY <1>1, PartsAre
<1>3. Only(Append(t, b), Telling) = IF b \in Telling THEN Append(Only(t, Telling), b) ELSE Only(t, Telling)
  BY OnlyAppend
<1> QED BY <1>2, <1>3

\* What some usage is over other counts.
LEMMA UsageOver ==
  ASSUME NEW u, u \in Usages \/ u = NoUsage, NEW counts \in Counts
  PROVE  /\ Over(u, counts) \in Counts
         /\ \A k \in Keys : Over(u, counts)[k] = IF k \in DOMAIN u THEN u[k] ELSE counts[k]
         /\ DOMAIN u \subseteq Keys
<1>1. DOMAIN u \subseteq Keys /\ \A k \in DOMAIN u : u[k] \in Nat
  <2>1. CASE u \in Usages
    <3>1. DOMAIN u \subseteq Keys /\ u \in [DOMAIN u -> Nat]
      BY <2>1, CaptureAssumption
    <3> QED BY <3>1
  <2>2. CASE u = NoUsage
    BY <2>2 DEF NoUsage
  <2> QED BY <2>1, <2>2
<1>2. DOMAIN counts = Keys /\ \A k \in Keys : counts[k] \in Nat
  BY DEF Counts
<1>3. \A k \in Keys : (IF k \in DOMAIN u THEN u[k] ELSE counts[k]) \in Nat
  BY <1>1, <1>2
<1> QED BY <1>1, <1>3 DEF Counts, Over

\* No usage changes nothing, and the same usage again changes nothing more.
LEMMA UsageAgain ==
  ASSUME NEW u, u \in Usages \/ u = NoUsage, NEW counts \in Counts
  PROVE  Over(NoUsage, counts) = counts /\ Over(u, Over(u, counts)) = Over(u, counts)
<1>1. Over(u, counts) \in Counts /\ Over(NoUsage, counts) \in Counts /\ Over(u, Over(u, counts)) \in Counts
  BY UsageOver
<1>2. \A k \in Keys : Over(NoUsage, counts)[k] = counts[k]
  <2>1. \A k \in Keys : Over(NoUsage, counts)[k] = IF k \in DOMAIN NoUsage THEN NoUsage[k] ELSE counts[k]
    BY UsageOver
  <2> QED BY <2>1 DEF NoUsage
<1>3. \A k \in Keys : Over(u, counts)[k] = IF k \in DOMAIN u THEN u[k] ELSE counts[k]
  BY UsageOver
<1>4. \A k \in Keys : Over(u, Over(u, counts))[k] = IF k \in DOMAIN u THEN u[k] ELSE Over(u, counts)[k]
  BY <1>1, UsageOver
<1> DEFINE c1 == Over(u, counts)
           c0 == Over(NoUsage, counts)
           c2 == Over(u, c1)
<1>5. \A k \in Keys : c2[k] = c1[k] /\ c0[k] = counts[k]
  BY <1>2, <1>3, <1>4
<1>6. c1 \in [Keys -> Nat] /\ c0 \in [Keys -> Nat] /\ c2 \in [Keys -> Nat] /\ counts \in [Keys -> Nat]
  BY <1>1 DEF Counts
<1> HIDE DEF c0, c1, c2
<1>7. c2 = c1 /\ c0 = counts
  BY <1>5, <1>6
<1> QED BY <1>7 DEF c0, c1, c2

\* What a text states is a usage object, or none.
LEMMA UsageOfType ==
  ASSUME NEW p \in Seq(Letters)
  PROVE  UsageOf(p) \in Usages \/ UsageOf(p) = NoUsage
<1>1. CASE Len(p) = 2 /\ \A i \in 1..2 : p[i].is = "half" /\ p[i].part = i
  <2>1. p[1] \in Letters /\ p[1].is = "half"
    <3>1. 1 \in 1..Len(p)
      BY <1>1
    <3>2. \A i \in 1..Len(p) : p[i] \in Letters
      OBVIOUS
    <3> QED BY <1>1, <3>1, <3>2
  <2>2. p[1] \in [is : {"half"}, usage : Usages, part : {1, 2}]
    <3>1. /\ CR.is # "half" /\ LF.is # "half" /\ Data.is # "half" /\ Word.is # "half" /\ Lead.is # "half"
          /\ Trail.is # "half" /\ Char.is # "half"
      BY DEF CR, LF, Data, Word, Lead, Trail, Char, Byte
    <3> QED BY <2>1, <3>1 DEF Letters, Octets, Alphabet
  <2>3. p[1].usage \in Usages
    BY <2>2
  <2> QED BY <2>3 DEF UsageOf
<1>2. CASE ~(Len(p) = 2 /\ \A i \in 1..2 : p[i].is = "half" /\ p[i].part = i)
  BY <1>2 DEF UsageOf
<1> QED BY <1>1, <1>2

\* Nothing states nothing.
LEMMA UsageOfNone == UsageOf(<<>>) = NoUsage
BY DEF UsageOf

---------------------------------------------------------------------------
(* The folds of the capture, letter by letter and event by event.          *)

\* A text so far: the events cut off, and what is left.
Splits == [events : Seq(Seq(Letters)), left : Seq(Letters)]
Cuts == [b \in Letters |-> [s \in Splits |-> Cut(s, b)]]

\* What comes before the last letter of a text.
LEMMA FrontIs ==
  ASSUME NEW D, NEW t \in Seq(D), t # <<>>
  PROVE  Front(t) \in Seq(D) /\ Last(t) \in D /\ t = Append(Front(t), Last(t))
<1>1. PICK s \in Seq(D), x \in D : t = Append(s, x)
  BY SequenceEmptyOrAppend
<1>2. Len(t) = Len(s) + 1 /\ Len(s) \in Nat /\ t[Len(t)] = x /\ SubSeq(t, 1, Len(t) - 1) = s
  BY <1>1
<1> QED BY <1>1, <1>2 DEF Front, Last

\* The end of a text one letter longer.
LEMMA LastIs ==
  ASSUME NEW D, NEW t \in Seq(D), NEW x \in D
  PROVE  /\ Append(t, x) \in Seq(D) /\ Append(t, x) # <<>>
         /\ Last(Append(t, x)) = x /\ Front(Append(t, x)) = t
<1>1. Append(t, x) \in Seq(D) /\ Append(t, x) # <<>> /\ Len(Append(t, x)) = Len(t) + 1 /\ Len(t) \in Nat
  OBVIOUS
<1>2. Append(t, x)[Len(t) + 1] = x /\ SubSeq(Append(t, x), 1, Len(t)) = t
  OBVIOUS
<1>3. Len(t) + 1 - 1 = Len(t)
  BY <1>1
<1> QED BY <1>1, <1>2, <1>3 DEF Last, Front

\* A letter more in a text that is cut.
LEMMA CutStep ==
  /\ Step(Cuts, Letters, Splits) /\ Uncut \in Splits
  /\ \A b \in Letters, s \in Splits : Cuts[b][s] = Cut(s, b)
<1>1. ASSUME NEW s \in Splits, NEW b \in Letters PROVE Cut(s, b) \in Splits
  <2>1. s.events \in Seq(Seq(Letters)) /\ s.left \in Seq(Letters)
    BY DEF Splits
  <2>2. CASE EventEnds(s.left, b)
    <3>1. s.left # <<>>
      BY <2>2 DEF EventEnds
    <3>2. Front(s.left) \in Seq(Letters)
      BY <2>1, <3>1, FrontIs
    <3>3. Append(s.events, Front(s.left)) \in Seq(Seq(Letters)) /\ <<>> \in Seq(Letters)
      BY <2>1, <3>2
    <3> QED BY <2>2, <3>3 DEF Cut, Splits
  <2>3. CASE ~EventEnds(s.left, b)
    <3>1. Append(s.left, b) \in Seq(Letters)
      BY <2>1
    <3> QED BY <2>1, <2>3, <3>1 DEF Cut, Splits
  <2> QED BY <2>2, <2>3
<1>2. Uncut \in Splits
  BY DEF Uncut, Splits
<1> QED BY <1>1, <1>2 DEF Cuts, Step

\* The state of the reading of an event.
Scans == [fresh : BOOLEAN, inside : BOOLEAN, data : Seq(Letters)]
Scanning == [b \in Letters |-> [e \in Scans |-> Scan(e, b)]]

\* A letter more in an event.
LEMMA ScanStep ==
  /\ Step(Scanning, Letters, Scans) /\ Unscanned \in Scans
  /\ \A b \in Letters, e \in Scans : Scanning[b][e] = Scan(e, b)
<1>1. ASSUME NEW e \in Scans, NEW b \in Letters PROVE Scan(e, b) \in Scans
  <2>1. e.data \in Seq(Letters) /\ Append(e.data, b) \in Seq(Letters)
    BY DEF Scans
  <2>2. CASE b = LF
    BY <2>1, <2>2 DEF Scan, Scans
  <2>3. CASE b # LF /\ e.fresh
    BY <2>1, <2>3 DEF Scan, Scans
  <2>4. CASE b # LF /\ ~e.fresh
    <3>1. Scan(e, b) = [e EXCEPT !.data = IF e.inside THEN Append(@, b) ELSE @]
      BY <2>4 DEF Scan
    <3>2. (IF e.inside THEN Append(e.data, b) ELSE e.data) \in Seq(Letters)
      BY <2>1
    <3> QED BY <3>1, <3>2 DEF Scans
  <2> QED BY <2>2, <2>3, <2>4
<1>2. Unscanned \in Scans
  BY DEF Unscanned, Scans
<1> QED BY <1>1, <1>2 DEF Scanning, Step

\* A text is cut letter by letter.
LEMMA SplitFolds ==
  ASSUME NEW s \in Seq(Letters)
  PROVE  Split(s) = FoldOf(Splits, Cuts, Uncut, s)
<1> DEFINE n == Len(s)
           Is(h) == h = [T \in SUBSET DOMAIN s |->
                           IF T = {} THEN Uncut ELSE Cut(h[T \ {Max(T)}], s[Max(T)])]
           iter == CHOOSE h : Is(h)
           A == Splits
           f == Cuts
           base == Uncut
<1>1. Split(s) = iter[DOMAIN s]
  BY DEF Split, FoldLeft, MapThenFoldSet
<1>2. n \in Nat /\ DOMAIN s = 1..n /\ \A i \in 1..n : s[i] \in Letters
  OBVIOUS
<1>3. Step(f, Letters, A) /\ base \in A /\ \A x \in Letters, v \in A : f[x][v] = Cut(v, x)
  BY CutStep
<1> HIDE DEF A, f, base, n
<1>4. PICK h \in [SUBSET (1..Len(s)) -> A] : SetsOf(h, f, base, s)
  BY <1>3, SetsOfFold
<1>5. Is(h)
  <2> SUFFICES ASSUME NEW T \in SUBSET (1..n)
               PROVE  h[T] = IF T = {} THEN base ELSE Cut(h[T \ {Max(T)}], s[Max(T)])
    BY <1>2, <1>4 DEF base, n
  <2>1. CASE T = {}
    BY <1>4, <2>1 DEF SetsOf
  <2>2. CASE T # {}
    <3>1. Max(T) \in 1..n /\ h[T \ {Max(T)}] \in A /\ h[T] = f[s[Max(T)]][h[T \ {Max(T)}]]
      BY <1>4, <2>2 DEF SetsOf, n
    <3>2. s[Max(T)] \in Letters
      BY <1>2, <3>1
    <3> QED BY <1>3, <2>2, <3>1, <3>2
  <2> QED BY <2>1, <2>2
<1>6. Is(iter)
  BY <1>5
<1>7. SetSteps(iter, A, f, base, s)
  <2> DEFINE k == iter
  <2>1. Is(k)
    BY <1>6
  <2> HIDE DEF k
  <2>2. k[{}] = base
    BY <2>1 DEF base
  <2>3. ASSUME NEW T \in SUBSET (1..n), T # {}, k[T \ {Max(T)}] \in A
        PROVE  k[T] = f[s[Max(T)]][k[T \ {Max(T)}]]
    <3>1. k[T] = Cut(k[T \ {Max(T)}], s[Max(T)])
      BY <1>2, <2>1, <2>3
    <3>2. Max(T) \in 1..n
      BY <1>2, <2>3, LastOfSome
    <3>3. s[Max(T)] \in Letters
      BY <1>2, <3>2
    <3> HIDE DEF Is
    <3> QED BY <1>3, <2>3, <3>1, <3>3
  <2>4. SetSteps(k, A, f, base, s)
    BY <2>2, <2>3 DEF SetSteps, n
  <2> QED BY <2>4 DEF k
<1> HIDE DEF iter
<1>8. iter[1..Len(s)] = FoldOf(A, f, base, s)
  BY <1>3, <1>7, FoldOfSets
<1> QED BY <1>1, <1>2, <1>8 DEF A, f, base, n

\* Nothing cut, and a letter more.
LEMMA SplitSteps ==
         /\ Split(<<>>) = Uncut
         /\ \A s \in Seq(Letters) : Split(s) \in Splits
         /\ \A s \in Seq(Letters), x \in Letters : Split(Append(s, x)) = Cut(Split(s), x)
<1>1. Step(Cuts, Letters, Splits) /\ Uncut \in Splits
      /\ \A x \in Letters, v \in Splits : Cuts[x][v] = Cut(v, x)
  BY CutStep
<1>2. FoldOf(Splits, Cuts, Uncut, <<>>) = Uncut
  BY <1>1, FoldOfNone
<1>3. \A s \in Seq(Letters) : FoldOf(Splits, Cuts, Uncut, s) \in Splits
  BY <1>1, FoldOfType
<1>4. \A s \in Seq(Letters), x \in Letters :
        FoldOf(Splits, Cuts, Uncut, Append(s, x)) = Cuts[x][FoldOf(Splits, Cuts, Uncut, s)]
  BY <1>1, FoldOfAppend
<1>5. \A s \in Seq(Letters) : Split(s) = FoldOf(Splits, Cuts, Uncut, s)
  BY SplitFolds
<1>6. <<>> \in Seq(Letters) /\ \A s \in Seq(Letters), x \in Letters : Append(s, x) \in Seq(Letters)
  OBVIOUS
<1>7. Split(<<>>) = Uncut
  BY <1>2, <1>5, <1>6
<1>8. \A s \in Seq(Letters) : Split(s) \in Splits
  BY <1>3, <1>5
<1>9. ASSUME NEW s \in Seq(Letters), NEW x \in Letters PROVE Split(Append(s, x)) = Cut(Split(s), x)
  <2>1. Split(Append(s, x)) = Cuts[x][FoldOf(Splits, Cuts, Uncut, s)]
    BY <1>4, <1>5, <1>6
  <2>2. Split(s) = FoldOf(Splits, Cuts, Uncut, s) /\ Split(s) \in Splits
    BY <1>5, <1>8
  <2> QED BY <1>1, <2>1, <2>2
<1> QED BY <1>7, <1>8, <1>9

\* An event is read letter by letter.
LEMMA ScanFolds ==
  ASSUME NEW s \in Seq(Letters)
  PROVE  Scanned(s) = FoldOf(Scans, Scanning, Unscanned, s)
<1> DEFINE n == Len(s)
           Is(h) == h = [T \in SUBSET DOMAIN s |->
                           IF T = {} THEN Unscanned ELSE Scan(h[T \ {Max(T)}], s[Max(T)])]
           iter == CHOOSE h : Is(h)
           A == Scans
           f == Scanning
           base == Unscanned
<1>1. Scanned(s) = iter[DOMAIN s]
  BY DEF Scanned, FoldLeft, MapThenFoldSet
<1>2. n \in Nat /\ DOMAIN s = 1..n /\ \A i \in 1..n : s[i] \in Letters
  OBVIOUS
<1>3. Step(f, Letters, A) /\ base \in A /\ \A x \in Letters, v \in A : f[x][v] = Scan(v, x)
  BY ScanStep
<1> HIDE DEF A, f, base, n
<1>4. PICK h \in [SUBSET (1..Len(s)) -> A] : SetsOf(h, f, base, s)
  BY <1>3, SetsOfFold
<1>5. Is(h)
  <2> SUFFICES ASSUME NEW T \in SUBSET (1..n)
               PROVE  h[T] = IF T = {} THEN base ELSE Scan(h[T \ {Max(T)}], s[Max(T)])
    BY <1>2, <1>4 DEF base, n
  <2>1. CASE T = {}
    BY <1>4, <2>1 DEF SetsOf
  <2>2. CASE T # {}
    <3>1. Max(T) \in 1..n /\ h[T \ {Max(T)}] \in A /\ h[T] = f[s[Max(T)]][h[T \ {Max(T)}]]
      BY <1>4, <2>2 DEF SetsOf, n
    <3>2. s[Max(T)] \in Letters
      BY <1>2, <3>1
    <3> QED BY <1>3, <2>2, <3>1, <3>2
  <2> QED BY <2>1, <2>2
<1>6. Is(iter)
  BY <1>5
<1>7. SetSteps(iter, A, f, base, s)
  <2> DEFINE k == iter
  <2>1. Is(k)
    BY <1>6
  <2> HIDE DEF k
  <2>2. k[{}] = base
    BY <2>1 DEF base
  <2>3. ASSUME NEW T \in SUBSET (1..n), T # {}, k[T \ {Max(T)}] \in A
        PROVE  k[T] = f[s[Max(T)]][k[T \ {Max(T)}]]
    <3>1. k[T] = Scan(k[T \ {Max(T)}], s[Max(T)])
      BY <1>2, <2>1, <2>3
    <3>2. Max(T) \in 1..n
      BY <1>2, <2>3, LastOfSome
    <3>3. s[Max(T)] \in Letters
      BY <1>2, <3>2
    <3> HIDE DEF Is
    <3> QED BY <1>3, <2>3, <3>1, <3>3
  <2>4. SetSteps(k, A, f, base, s)
    BY <2>2, <2>3 DEF SetSteps, n
  <2> QED BY <2>4 DEF k
<1> HIDE DEF iter
<1>8. iter[1..Len(s)] = FoldOf(A, f, base, s)
  BY <1>3, <1>7, FoldOfSets
<1> QED BY <1>1, <1>2, <1>8 DEF A, f, base, n

\* Nothing read, and a letter more.
LEMMA ScanSteps ==
         /\ Scanned(<<>>) = Unscanned
         /\ \A s \in Seq(Letters) : Scanned(s) \in Scans
         /\ \A s \in Seq(Letters), x \in Letters : Scanned(Append(s, x)) = Scan(Scanned(s), x)
<1>1. Step(Scanning, Letters, Scans) /\ Unscanned \in Scans
      /\ \A x \in Letters, v \in Scans : Scanning[x][v] = Scan(v, x)
  BY ScanStep
<1>2. FoldOf(Scans, Scanning, Unscanned, <<>>) = Unscanned
  BY <1>1, FoldOfNone
<1>3. \A s \in Seq(Letters) : FoldOf(Scans, Scanning, Unscanned, s) \in Scans
  BY <1>1, FoldOfType
<1>4. \A s \in Seq(Letters), x \in Letters :
        FoldOf(Scans, Scanning, Unscanned, Append(s, x)) = Scanning[x][FoldOf(Scans, Scanning, Unscanned, s)]
  BY <1>1, FoldOfAppend
<1>5. \A s \in Seq(Letters) : Scanned(s) = FoldOf(Scans, Scanning, Unscanned, s)
  BY ScanFolds
<1>6. <<>> \in Seq(Letters) /\ \A s \in Seq(Letters), x \in Letters : Append(s, x) \in Seq(Letters)
  OBVIOUS
<1>7. Scanned(<<>>) = Unscanned
  BY <1>2, <1>5, <1>6
<1>8. \A s \in Seq(Letters) : Scanned(s) \in Scans
  BY <1>3, <1>5
<1>9. ASSUME NEW s \in Seq(Letters), NEW x \in Letters PROVE Scanned(Append(s, x)) = Scan(Scanned(s), x)
  <2>1. Scanned(Append(s, x)) = Scanning[x][FoldOf(Scans, Scanning, Unscanned, s)]
    BY <1>4, <1>5, <1>6
  <2>2. Scanned(s) = FoldOf(Scans, Scanning, Unscanned, s) /\ Scanned(s) \in Scans
    BY <1>5, <1>8
  <2> QED BY <1>1, <2>1, <2>2
<1> QED BY <1>7, <1>8, <1>9

\* What an event of a text states.
Applying == [e \in Seq(Letters) |-> [c \in Counts |-> Apply(c, e)]]

\* Applying an event gives counts again.
LEMMA ApplyStep ==
  /\ Step(Applying, Seq(Letters), Counts) /\ Nothing \in Counts
  /\ \A e \in Seq(Letters), c \in Counts : Applying[e][c] = Apply(c, e)
  /\ \A e \in Seq(Letters), c \in Counts : Apply(c, e) \in Counts
<1>1. ASSUME NEW c \in Counts, NEW e \in Seq(Letters) PROVE Apply(c, e) \in Counts
  <2>1. EventData(e) \in Seq(Letters)
    <3>1. Scanned(e) \in Scans
      BY ScanSteps
    <3> QED BY <3>1 DEF Scans, EventData
  <2>2. UsageIn(EventData(e)) \in Usages \/ UsageIn(EventData(e)) = NoUsage
    <3>1. Parts(EventData(e)) \in Seq(Letters)
      BY <2>1, PartsAre
    <3> QED BY <3>1, UsageOfType DEF UsageIn
  <2> QED BY <2>2, UsageOver DEF Apply
<1>2. Nothing \in Counts
  BY DEF Nothing, Counts
<1> QED BY <1>1, <1>2 DEF Applying, Step

\* Events are applied one by one.
LEMMA ApplyFolds ==
  ASSUME NEW s \in Seq(Seq(Letters)), NEW used \in Counts
  PROVE  FoldLeft(Apply, used, s) = FoldOf(Counts, Applying, used, s)
<1> DEFINE n == Len(s)
           Is(h) == h = [T \in SUBSET DOMAIN s |->
                           IF T = {} THEN used ELSE Apply(h[T \ {Max(T)}], s[Max(T)])]
           iter == CHOOSE h : Is(h)
           A == Counts
           f == Applying
           base == used
<1>1. FoldLeft(Apply, used, s) = iter[DOMAIN s]
  BY DEF FoldLeft, MapThenFoldSet
<1>2. n \in Nat /\ DOMAIN s = 1..n /\ \A i \in 1..n : s[i] \in Seq(Letters)
  OBVIOUS
<1>3. Step(f, Seq(Letters), A) /\ base \in A /\ \A x \in Seq(Letters), v \in A : f[x][v] = Apply(v, x)
  BY ApplyStep
<1> HIDE DEF A, f, base, n
<1>4. PICK h \in [SUBSET (1..Len(s)) -> A] : SetsOf(h, f, base, s)
  BY <1>3, SetsOfFold
<1>5. Is(h)
  <2> SUFFICES ASSUME NEW T \in SUBSET (1..n)
               PROVE  h[T] = IF T = {} THEN base ELSE Apply(h[T \ {Max(T)}], s[Max(T)])
    BY <1>2, <1>4 DEF base, n
  <2>1. CASE T = {}
    BY <1>4, <2>1 DEF SetsOf
  <2>2. CASE T # {}
    <3>1. Max(T) \in 1..n /\ h[T \ {Max(T)}] \in A /\ h[T] = f[s[Max(T)]][h[T \ {Max(T)}]]
      BY <1>4, <2>2 DEF SetsOf, n
    <3>2. s[Max(T)] \in Seq(Letters)
      BY <1>2, <3>1
    <3> QED BY <1>3, <2>2, <3>1, <3>2
  <2> QED BY <2>1, <2>2
<1>6. Is(iter)
  BY <1>5
<1>7. SetSteps(iter, A, f, base, s)
  <2> DEFINE k == iter
  <2>1. Is(k)
    BY <1>6
  <2> HIDE DEF k
  <2>2. k[{}] = base
    BY <2>1 DEF base
  <2>3. ASSUME NEW T \in SUBSET (1..n), T # {}, k[T \ {Max(T)}] \in A
        PROVE  k[T] = f[s[Max(T)]][k[T \ {Max(T)}]]
    <3>1. k[T] = Apply(k[T \ {Max(T)}], s[Max(T)])
      BY <1>2, <2>1, <2>3
    <3>2. Max(T) \in 1..n
      BY <1>2, <2>3, LastOfSome
    <3>3. s[Max(T)] \in Seq(Letters)
      BY <1>2, <3>2
    <3> HIDE DEF Is
    <3> QED BY <1>3, <2>3, <3>1, <3>3
  <2>4. SetSteps(k, A, f, base, s)
    BY <2>2, <2>3 DEF SetSteps, n
  <2> QED BY <2>4 DEF k
<1> HIDE DEF iter
<1>8. iter[1..Len(s)] = FoldOf(A, f, base, s)
  BY <1>3, <1>7, FoldOfSets
<1> QED BY <1>1, <1>2, <1>8 DEF A, f, base, n

\* No event applied, and an event more.
LEMMA ApplySteps ==
  ASSUME NEW used \in Counts
  PROVE  /\ FoldLeft(Apply, used, <<>>) = used
         /\ \A s \in Seq(Seq(Letters)) : FoldLeft(Apply, used, s) \in Counts
         /\ \A s \in Seq(Seq(Letters)), x \in Seq(Letters) :
              FoldLeft(Apply, used, Append(s, x)) = Apply(FoldLeft(Apply, used, s), x)
<1>1. Step(Applying, Seq(Letters), Counts) /\ used \in Counts
      /\ \A x \in Seq(Letters), v \in Counts : Applying[x][v] = Apply(v, x)
  BY ApplyStep
<1>2. FoldOf(Counts, Applying, used, <<>>) = used
  BY <1>1, FoldOfNone
<1>3. \A s \in Seq(Seq(Letters)) : FoldOf(Counts, Applying, used, s) \in Counts
  BY <1>1, FoldOfType
<1>4. \A s \in Seq(Seq(Letters)), x \in Seq(Letters) :
        FoldOf(Counts, Applying, used, Append(s, x)) = Applying[x][FoldOf(Counts, Applying, used, s)]
  BY <1>1, FoldOfAppend
<1>5. \A s \in Seq(Seq(Letters)) : FoldLeft(Apply, used, s) = FoldOf(Counts, Applying, used, s)
  BY ApplyFolds
<1>6. <<>> \in Seq(Seq(Letters)) /\ \A s \in Seq(Seq(Letters)), x \in Seq(Letters) : Append(s, x) \in Seq(Seq(Letters))
  OBVIOUS
<1>7. FoldLeft(Apply, used, <<>>) = used
  BY <1>2, <1>5, <1>6
<1>8. \A s \in Seq(Seq(Letters)) : FoldLeft(Apply, used, s) \in Counts
  BY <1>3, <1>5
<1>9. ASSUME NEW s \in Seq(Seq(Letters)), NEW x \in Seq(Letters)
      PROVE  FoldLeft(Apply, used, Append(s, x)) = Apply(FoldLeft(Apply, used, s), x)
  <2>1. FoldLeft(Apply, used, Append(s, x)) = Applying[x][FoldOf(Counts, Applying, used, s)]
    BY <1>4, <1>5, <1>6
  <2>2. FoldLeft(Apply, used, s) = FoldOf(Counts, Applying, used, s) /\ FoldLeft(Apply, used, s) \in Counts
    BY <1>5, <1>8
  <2> QED BY <1>1, <2>1, <2>2
<1> QED BY <1>7, <1>8, <1>9

---------------------------------------------------------------------------
(* A chunk, byte by byte.                                                  *)

\* The letter a byte that ends one stands for, and what becomes of a line end.
LetterOf == [x \in Octets |-> IF x = Trail THEN Char ELSE x]
LineEnd == [b \in Letters |-> IF b = CR THEN LF ELSE b]

\* Both are letters.
LEMMA LetterMaps == Maps(LetterOf, Octets, Letters) /\ Maps(LineEnd, Letters, Letters)
BY LettersAre DEF LetterOf, LineEnd, Maps, Letters

\* The text of some bytes is the letters of those that end one.
LEMMA DecodedAre ==
  ASSUME NEW c \in Seq(Octets)
  PROVE  Decoded(c) = Each(LetterOf, Only(c, Octets \ {Lead})) /\ Decoded(c) \in Seq(Letters)
<1> DEFINE P == {i \in DOMAIN c : c[i] # Lead}
           ends == At(c, P)
<1>1. \A i \in DOMAIN c : i \in P <=> c[i] \in Octets \ {Lead}
  <2>1. \A i \in DOMAIN c : c[i] \in Octets
    OBVIOUS
  <2> QED BY <2>1
<1>2. Decoded(c) = [i \in DOMAIN ends |-> IF ends[i] = Trail THEN Char ELSE ends[i]]
  BY DEF Decoded
<1> HIDE DEF P
<1>3. ends = Only(c, Octets \ {Lead}) /\ ends \in Seq(Octets)
  BY <1>1, OnlyIs, AtType
<1> HIDE DEF ends
<1>4. \A i \in DOMAIN ends : ends[i] \in Octets
  BY <1>3
<1>5. Decoded(c) = [i \in DOMAIN ends |-> LetterOf[ends[i]]]
  BY <1>2, <1>4 DEF LetterOf
<1>6. Each(LetterOf, ends) \in Seq(Letters)
  BY <1>3, LetterMaps, EachType
<1> QED BY <1>3, <1>5, <1>6 DEF Each

\* The text of no byte, and of a byte more.
LEMMA DecodedSteps ==
  /\ Decoded(<<>>) = <<>>
  /\ \A c \in Seq(Octets) : Decoded(c) \in Seq(Letters)
  /\ \A c \in Seq(Octets), x \in Octets :
       Decoded(Append(c, x)) = IF x = Lead THEN Decoded(c) ELSE Append(Decoded(c), LetterOf[x])
<1>1. Decoded(<<>>) = <<>>
  <2>1. <<>> \in Seq(Octets)
    OBVIOUS
  <2>2. Decoded(<<>>) = Each(LetterOf, Only(<<>>, Octets \ {Lead}))
    BY <2>1, DecodedAre
  <2> QED BY <2>2, OnlyNone, EachNone
<1>2. ASSUME NEW c \in Seq(Octets), NEW x \in Octets
      PROVE  Decoded(Append(c, x)) = IF x = Lead THEN Decoded(c) ELSE Append(Decoded(c), LetterOf[x])
  <2> DEFINE R == Octets \ {Lead}
  <2>1. Append(c, x) \in Seq(Octets)
    OBVIOUS
  <2>2. Decoded(Append(c, x)) = Each(LetterOf, Only(Append(c, x), R)) /\ Decoded(c) = Each(LetterOf, Only(c, R))
    BY <2>1, DecodedAre
  <2>3. x \in R <=> x # Lead
    OBVIOUS
  <2> HIDE DEF R
  <2>4. Only(Append(c, x), R) = IF x \in R THEN Append(Only(c, R), x) ELSE Only(c, R)
    BY OnlyAppend
  <2>5. Only(c, R) \in Seq(Octets)
    BY OnlyType
  <2>6. Each(LetterOf, Append(Only(c, R), x)) = Append(Each(LetterOf, Only(c, R)), LetterOf[x])
    BY <2>5, LetterMaps, EachAppend
  <2> QED BY <2>2, <2>3, <2>4, <2>6
<1> QED BY <1>1, <1>2, DecodedAre

\* The letters of a text that stay, an LF behind a CR being part of its line end.
Kept(t) == {i \in DOMAIN t : ~(t[i] = LF /\ i > 1 /\ t[i - 1] = CR)}

\* The line ends of nothing, and of a letter more.
LEMMA NormalSteps ==
  /\ Normal(<<>>) = <<>>
  /\ \A t \in Seq(Letters) : Normal(t) \in Seq(Letters)
  /\ \A t \in Seq(Letters), b \in Letters :
       Normal(Append(t, b)) =
         IF b = LF /\ t # <<>> /\ Last(t) = CR THEN Normal(t) ELSE Append(Normal(t), LineEnd[b])
<1>1. ASSUME NEW t \in Seq(Letters)
      PROVE  /\ Normal(t) = Each(LineEnd, At(t, Kept(t)))
             /\ At(t, Kept(t)) \in Seq(Letters) /\ Normal(t) \in Seq(Letters)
  <2> DEFINE s == At(t, Kept(t))
  <2>1. Normal(t) = [i \in DOMAIN s |-> IF s[i] = CR THEN LF ELSE s[i]]
    BY DEF Normal, Kept
  <2>2. s \in Seq(Letters)
    BY AtType
  <2> HIDE DEF s
  <2>3. \A i \in DOMAIN s : s[i] \in Letters
    BY <2>2
  <2>4. Normal(t) = [i \in DOMAIN s |-> LineEnd[s[i]]]
    BY <2>1, <2>3 DEF LineEnd
  <2>5. Each(LineEnd, s) \in Seq(Letters)
    BY <2>2, LetterMaps, EachType
  <2> QED BY <2>2, <2>4, <2>5 DEF Each, s
<1>2. Normal(<<>>) = <<>>
  <2>1. <<>> \in Seq(Letters)
    OBVIOUS
  <2> QED BY <2>1, <1>1, AtNone, EachNone
<1>3. ASSUME NEW t \in Seq(Letters), NEW b \in Letters
      PROVE  Normal(Append(t, b)) =
               IF b = LF /\ t # <<>> /\ Last(t) = CR THEN Normal(t) ELSE Append(Normal(t), LineEnd[b])
  <2> DEFINE u == Append(t, b)
             n == Len(t)
  <2>1. /\ u \in Seq(Letters) /\ n \in Nat /\ DOMAIN t = 1..n /\ DOMAIN u = 1..(n + 1)
        /\ (\A i \in 1..n : u[i] = t[i]) /\ u[n + 1] = b /\ (t # <<>> <=> n > 0)
    OBVIOUS
  <2>2. Last(t) = t[n]
    BY DEF Last
  <2> HIDE DEF u, n
  <2>3. \A i \in DOMAIN t : i \in Kept(u) <=> i \in Kept(t)
    <3> SUFFICES ASSUME NEW i \in 1..n PROVE i \in Kept(u) <=> i \in Kept(t)
      BY <2>1
    <3>1. i \in 1..(n + 1) /\ u[i] = t[i] /\ (i > 1 => u[i - 1] = t[i - 1])
      <4>1. i > 1 => i - 1 \in 1..n
        BY <2>1
      <4> QED BY <2>1, <4>1
    <3> QED BY <2>1, <3>1 DEF Kept
  <2>4. n + 1 \in Kept(u) <=> ~(b = LF /\ t # <<>> /\ Last(t) = CR)
    <3>1. n + 1 \in Kept(u) <=> ~(b = LF /\ n + 1 > 1 /\ u[n + 1 - 1] = CR)
      <4>1. n + 1 \in DOMAIN u
        BY <2>1
      <4> QED BY <2>1, <4>1 DEF Kept
    <3>2. n + 1 > 1 => u[n + 1 - 1] = t[n]
      BY <2>1
    <3> QED BY <2>1, <2>2, <3>1, <3>2
  <2>5. At(u, Kept(u)) = IF n + 1 \in Kept(u) THEN Append(At(t, Kept(u)), b) ELSE At(t, Kept(u))
    BY AtAppend DEF u, n
  <2>6. At(t, Kept(u)) = At(t, Kept(t))
    BY <2>3, AtOf
  <2>7. Each(LineEnd, Append(At(t, Kept(t)), b)) = Append(Each(LineEnd, At(t, Kept(t))), LineEnd[b])
    BY <1>1, LetterMaps, EachAppend
  <2>8. Normal(u) = Each(LineEnd, At(u, Kept(u))) /\ Normal(t) = Each(LineEnd, At(t, Kept(t)))
    BY <1>1, <2>1
  <2>9. CASE b = LF /\ t # <<>> /\ Last(t) = CR
    BY <2>4, <2>5, <2>6, <2>8, <2>9 DEF u
  <2>10. CASE ~(b = LF /\ t # <<>> /\ Last(t) = CR)
    <3>1. Normal(u) = Append(Normal(t), LineEnd[b])
      BY <2>4, <2>5, <2>6, <2>7, <2>8, <2>10
    <3> QED BY <2>10, <3>1 DEF u
  <2> QED BY <2>9, <2>10
<1> QED BY <1>1, <1>2, <1>3

\* What the capture has of a chunk it was fed: the usage, what is left, and whether
\* the text ends with a CR.
Fed(left, used, chunk) ==
  LET text == left \o Decoded(chunk)
  IN [used |-> FoldLeft(Apply, used, Split(Normal(text)).events),
      left |-> Split(Normal(text)).left,
      cr |-> text # <<>> /\ Last(text) = CR]

Feeds == [used : Counts, left : Seq(Letters), cr : BOOLEAN]

\* A letter more of normal text.
Push(f, b, cr) ==
  IF EventEnds(f.left, b)
  THEN [used |-> Apply(f.used, Front(f.left)), left |-> <<>>, cr |-> cr]
  ELSE [used |-> f.used, left |-> Append(f.left, b), cr |-> cr]

\* A byte more of a chunk.
FeedByte(f, x) ==
  IF x = Lead THEN f
  ELSE IF x = LF /\ f.cr THEN [used |-> f.used, left |-> f.left, cr |-> FALSE]
  ELSE Push(f, LineEnd[LetterOf[x]], x = CR)

\* Feeding is by the byte.
LEMMA FedSteps ==
  ASSUME NEW left \in Seq(Letters), NEW used \in Counts
  PROVE  /\ \A c \in Seq(Octets) : Fed(left, used, c) \in Feeds
         /\ \A c \in Seq(Octets), x \in Octets :
              Fed(left, used, Append(c, x)) = FeedByte(Fed(left, used, c), x)
<1> DEFINE Joint(c) == left \o Decoded(c)
           N(c) == Normal(Joint(c))
           S(c) == Split(N(c))
           U(c) == FoldLeft(Apply, used, S(c).events)
           Q(c) == Joint(c) # <<>> /\ Last(Joint(c)) = CR
<1>1. ASSUME NEW c \in Seq(Octets)
      PROVE  /\ Joint(c) \in Seq(Letters) /\ N(c) \in Seq(Letters) /\ S(c) \in Splits
             /\ S(c).events \in Seq(Seq(Letters)) /\ S(c).left \in Seq(Letters) /\ U(c) \in Counts
  <2>1. Decoded(c) \in Seq(Letters)
    BY DecodedSteps
  <2>2. Joint(c) \in Seq(Letters)
    BY <2>1
  <2> HIDE DEF Joint
  <2>3. N(c) \in Seq(Letters)
    BY <2>2, NormalSteps
  <2> HIDE DEF N
  <2>4. S(c) \in Splits
    BY <2>3, SplitSteps
  <2> HIDE DEF S
  <2>5. S(c).events \in Seq(Seq(Letters)) /\ S(c).left \in Seq(Letters)
    BY <2>4 DEF Splits
  <2> QED BY <2>2, <2>3, <2>4, <2>5, ApplySteps
<1>2. \A c : /\ Fed(left, used, c) = [used |-> U(c), left |-> S(c).left, cr |-> Q(c)]
             /\ Q(c) \in BOOLEAN
  BY DEF Fed
<1>3. ASSUME NEW c \in Seq(Octets) PROVE Fed(left, used, c) \in Feeds
  <2> HIDE DEF U, S, N, Joint, Q
  <2> QED BY <1>1, <1>2 DEF Feeds
<1>4. ASSUME NEW c \in Seq(Octets), NEW x \in Octets
      PROVE  Fed(left, used, Append(c, x)) = FeedByte(Fed(left, used, c), x)
  <2> DEFINE d == Append(c, x)
             y == LetterOf[x]
             b == LineEnd[y]
             f == Fed(left, used, c)
  <2>1. d \in Seq(Octets) /\ y \in Letters /\ b \in Letters
    BY LetterMaps DEF Maps
  <2>2. Decoded(d) = IF x = Lead THEN Decoded(c) ELSE Append(Decoded(c), y)
    BY DecodedSteps
  <2>3. CASE x = Lead
    <3>1. Joint(d) = Joint(c)
      BY <2>2, <2>3
    <3> HIDE DEF Joint, d
    <3>2. Fed(left, used, d) = Fed(left, used, c)
      BY <1>2, <3>1
    <3> QED BY <2>3, <3>2 DEF FeedByte, d
  <2>4. CASE x # Lead
    <3>1. Joint(d) = Append(Joint(c), y)
      <4>1. Decoded(c) \in Seq(Letters) /\ Decoded(d) = Append(Decoded(c), y)
        BY <2>2, <2>4, DecodedSteps
      <4> HIDE DEF y, d
      <4> QED BY <2>1, <4>1
    <3>2. Joint(d) # <<>> /\ Last(Joint(d)) = y
      <4>1. Joint(c) \in Seq(Letters)
        BY <1>1
      <4> HIDE DEF Joint, y, d
      <4> QED BY <2>1, <3>1, <4>1, LastIs
    <3>3. y = CR <=> x = CR
      BY LettersDiffer DEF LetterOf
    <3>4. y = LF <=> x = LF
      BY LettersDiffer DEF LetterOf
    <3>5. f.used = U(c) /\ f.left = S(c).left /\ (f.cr <=> Joint(c) # <<>> /\ Last(Joint(c)) = CR)
      <4>1. f.used = U(c) /\ f.left = S(c).left /\ f.cr = Q(c) /\ Q(c) \in BOOLEAN
        <5> HIDE DEF U, S, Joint, Q
        <5> QED BY <1>2
      <4> HIDE DEF U, S, Joint, f
      <4> QED BY <4>1
    <3>6. N(d) = IF x = LF /\ f.cr THEN N(c) ELSE Append(N(c), b)
      <4>1. Joint(c) \in Seq(Letters)
        BY <1>1
      <4> HIDE DEF Joint, y, d, f
      <4> QED BY <2>1, <3>1, <3>4, <3>5, <4>1, NormalSteps
    <3>7. Fed(left, used, d) = [used |-> U(d), left |-> S(d).left, cr |-> x = CR]
      <4>1. Q(d) = (x = CR)
        BY <3>2, <3>3
      <4> HIDE DEF U, S, Joint, d, y, Q
      <4> QED BY <1>2, <4>1
    <3>8. CASE x = LF /\ f.cr
      <4>1. U(d) = U(c) /\ S(d).left = S(c).left /\ x # CR
        BY <3>6, <3>8, LettersDiffer
      <4> HIDE DEF U, S, Joint, d, f, N
      <4>2. Fed(left, used, d) = [used |-> f.used, left |-> f.left, cr |-> FALSE]
        BY <3>5, <3>7, <4>1
      <4> QED BY <2>4, <3>8, <4>2 DEF FeedByte, f, d
    <3>9. CASE ~(x = LF /\ f.cr)
      <4>1. S(d) = Cut(S(c), b)
        <5>1. N(d) = Append(N(c), b) /\ N(c) \in Seq(Letters)
          BY <1>1, <3>6, <3>9
        <5> HIDE DEF N, b, d, f
        <5> QED BY <2>1, <5>1, SplitSteps
      <4>2. FeedByte(f, x) = Push(f, b, x = CR)
        BY <2>4, <3>9 DEF FeedByte
      <4>t. S(c).events \in Seq(Seq(Letters)) /\ S(c).left \in Seq(Letters) /\ U(c) = FoldLeft(Apply, used, S(c).events)
        BY <1>1
      <4>u. U(d) = FoldLeft(Apply, used, S(d).events)
        OBVIOUS
      <4>3. CASE EventEnds(f.left, b)
        <5>1. S(d) = [events |-> Append(S(c).events, Front(f.left)), left |-> <<>>]
          <6> HIDE DEF S, b, d, f
          <6> QED BY <3>5, <4>1, <4>3 DEF Cut
        <5>2. f.left # <<>>
          BY <4>3 DEF EventEnds
        <5> HIDE DEF S, U, b, d, f
        <5>3. Front(f.left) \in Seq(Letters)
          BY <3>5, <4>t, <5>2, FrontIs
        <5>4. S(d).events = Append(S(c).events, Front(f.left)) /\ S(d).left = <<>>
          BY <5>1
        <5>5. U(d) = Apply(U(c), Front(f.left))
          <6> DEFINE E == S(c).events
                     e == Front(f.left)
          <6>1. E \in Seq(Seq(Letters)) /\ e \in Seq(Letters) /\ U(c) = FoldLeft(Apply, used, E)
            BY <4>t, <5>3
          <6>2. U(d) = FoldLeft(Apply, used, Append(E, e))
            BY <4>u, <5>4
          <6> HIDE DEF E, e
          <6>3. FoldLeft(Apply, used, Append(E, e)) = Apply(FoldLeft(Apply, used, E), e)
            BY <6>1, ApplySteps
          <6> QED BY <6>1, <6>2, <6>3 DEF e
        <5>6. Push(f, b, x = CR) = [used |-> Apply(f.used, Front(f.left)), left |-> <<>>, cr |-> x = CR]
          BY <4>3 DEF Push
        <5> QED BY <3>5, <3>7, <4>2, <5>4, <5>5, <5>6 DEF d, f
      <4>4. CASE ~EventEnds(f.left, b)
        <5>1. S(d) = [events |-> S(c).events, left |-> Append(f.left, b)]
          <6> HIDE DEF S, b, d, f
          <6> QED BY <3>5, <4>1, <4>4 DEF Cut
        <5> HIDE DEF S, U, b, d, f
        <5>2. S(d).events = S(c).events /\ S(d).left = Append(f.left, b)
          BY <5>1
        <5>3. U(d) = U(c)
          BY <4>t, <4>u, <5>2
        <5>4. Push(f, b, x = CR) = [used |-> f.used, left |-> Append(f.left, b), cr |-> x = CR]
          BY <4>4 DEF Push
        <5> QED BY <3>5, <3>7, <4>2, <5>2, <5>3, <5>4 DEF d, f
      <4> QED BY <4>3, <4>4
    <3> QED BY <3>8, <3>9
  <2> QED BY <2>3, <2>4
<1> QED BY <1>3, <1>4

\* A text in which no event is complete and no CR is left.
Drained(left) ==
  /\ left \in Seq(Letters)
  /\ Split(left) = [events |-> <<>>, left |-> left]
  /\ Normal(left) = left
  /\ ~(left # <<>> /\ Last(left) = CR)

\* A buffer is clean before the first byte.
LEMMA DrainedNone == Drained(<<>>)
BY SplitSteps, NormalSteps DEF Drained, Uncut

\* Nothing fed changes nothing.
LEMMA FedNone ==
  ASSUME NEW left, Drained(left), NEW used \in Counts
  PROVE  Fed(left, used, <<>>) = [used |-> used, left |-> left, cr |-> FALSE]
<1>1. left \o Decoded(<<>>) = left
  BY DecodedSteps DEF Drained
<1>2. Split(Normal(left)).events = <<>> /\ Split(Normal(left)).left = left
  BY DEF Drained
<1>3. FoldLeft(Apply, used, <<>>) = used
  BY ApplySteps
<1> QED BY <1>1, <1>2, <1>3 DEF Fed, Drained

\* A byte more leaves the buffer clean.
LEMMA DrainedByte ==
  ASSUME NEW f \in Feeds, Drained(f.left), NEW x \in Octets
  PROVE  Drained(FeedByte(f, x).left)
<1> DEFINE b == LineEnd[LetterOf[x]]
<1>1. b \in Letters /\ b # CR
  BY LetterMaps, LettersDiffer DEF Maps, LetterOf, LineEnd
<1>2. CASE x = Lead \/ (x = LF /\ f.cr)
  BY <1>2 DEF FeedByte
<1>3. CASE ~(x = Lead \/ (x = LF /\ f.cr))
  <2>1. FeedByte(f, x) = Push(f, b, x = CR)
    BY <1>3 DEF FeedByte
  <2> HIDE DEF b
  <2>2. CASE EventEnds(f.left, b)
    <3>1. Push(f, b, x = CR).left = <<>>
      BY <2>2 DEF Push
    <3> QED BY <2>1, <3>1, DrainedNone
  <2>3. CASE ~EventEnds(f.left, b)
    <3> DEFINE t == Append(f.left, b)
    <3>1. Push(f, b, x = CR).left = t
      BY <2>3 DEF Push
    <3>2. t \in Seq(Letters) /\ t # <<>> /\ Last(t) = b /\ f.left \in Seq(Letters)
      BY <1>1, LastIs DEF Drained
    <3>3. Split(t) = Cut(Split(f.left), b)
      BY <1>1, <3>2, SplitSteps
    <3>4. Cut(Split(f.left), b) = [events |-> <<>>, left |-> t]
      BY <2>3 DEF Cut, Drained
    <3>5. Normal(t) = t
      <4>1. LineEnd[b] = b
        BY <1>1 DEF LineEnd
      <4>2. ~(b = LF /\ f.left # <<>> /\ Last(f.left) = CR) /\ Normal(f.left) = f.left
        BY DEF Drained
      <4>3. Normal(t) = Append(Normal(f.left), LineEnd[b])
        BY <1>1, <3>2, <4>2, NormalSteps
      <4> QED BY <4>1, <4>2, <4>3
    <3> HIDE DEF t
    <3> QED BY <1>1, <2>1, <3>1, <3>2, <3>3, <3>4, <3>5 DEF Drained
  <2> QED BY <2>2, <2>3
<1> QED BY <1>2, <1>3

\* A chunk leaves the buffer clean.
LEMMA CleanChunk ==
  ASSUME NEW left, Drained(left), NEW used \in Counts, NEW c \in Seq(Octets)
  PROVE  Fed(left, used, c) \in Feeds /\ Drained(Fed(left, used, c).left)
<1> DEFINE S == {d \in Seq(Octets) : Drained(Fed(left, used, d).left)}
<1>0. left \in Seq(Letters)
  BY DEF Drained
<1>1. <<>> \in S
  <2>1. Fed(left, used, <<>>).left = left
    BY FedNone
  <2> QED BY <2>1
<1>2. ASSUME NEW d \in S, NEW x \in Octets PROVE Append(d, x) \in S
  <2>1. Fed(left, used, d) \in Feeds /\ Fed(left, used, Append(d, x)) = FeedByte(Fed(left, used, d), x)
    BY <1>0, FedSteps
  <2>2. Drained(FeedByte(Fed(left, used, d), x).left)
    BY <2>1, DrainedByte
  <2> QED BY <2>1, <2>2
<1>3. S = Seq(Octets)
  <2>1. S \in SUBSET Seq(Octets)
    OBVIOUS
  <2> HIDE DEF S
  <2> QED BY <1>1, <1>2, <2>1, SeqInd
<1> QED BY <1>0, <1>3, FedSteps

---------------------------------------------------------------------------
(* A reader of the whole response: what the capture would know had no      *)
(* chunk been cut.                                                         *)

\* The ends of a sequence of parts, and what they state.
Endings(p) == {q \in Seq(Letters) : \E w \in Seq(Letters) : p = w \o q}
Ending(p) == {UsageOf(q) : q \in Endings(p)}

(***************************************************************************)
(* What was read: the usage of the events over, the parts of this one, all *)
(* that any run of the parts of an event states, whether a line begins,    *)
(* whether it has data, whether this event has data and any event has data *)
(* on two lines, whether a CR came last, and whether CR LF came.           *)
(***************************************************************************)
Readers == [used : Counts, parts : Seq(Letters), could : SUBSET (Usages \cup {NoUsage}),
            fresh : BOOLEAN, inside : BOOLEAN, one : BOOLEAN, twice : BOOLEAN,
            cr : BOOLEAN, pair : BOOLEAN]

Reader0 == [used |-> Nothing, parts |-> <<>>, could |-> {}, fresh |-> TRUE, inside |-> FALSE,
            one |-> FALSE, twice |-> FALSE, cr |-> FALSE, pair |-> FALSE]

\* The line end goes on, an event is over, a line is over, a line begins, a letter of data comes.
PairEnds(t) == [t EXCEPT !.cr = FALSE, !.pair = TRUE]
EventOver(t, cr) ==
  [t EXCEPT !.used = Over(UsageOf(t.parts), t.used), !.parts = <<>>, !.one = FALSE, !.cr = cr]
LineOver(t, cr) == [t EXCEPT !.fresh = TRUE, !.inside = FALSE, !.cr = cr]
LineBegins(t, x) ==
  [t EXCEPT !.fresh = FALSE, !.inside = (x = Data), !.twice = t.twice \/ (t.one /\ x = Data),
            !.one = t.one \/ x = Data, !.cr = FALSE]
DataComes(t, x) ==
  [t EXCEPT !.parts = Append(t.parts, x), !.could = t.could \cup Ending(Append(t.parts, x))]

ReadByte(t, x) ==
  IF x = LF /\ t.cr THEN PairEnds(t)
  ELSE IF x \in {CR, LF} /\ t.fresh THEN EventOver(t, x = CR)
  ELSE IF x \in {CR, LF} THEN LineOver(t, x = CR)
  ELSE IF t.fresh THEN LineBegins(t, x)
  ELSE IF t.inside /\ x \in Telling THEN DataComes(t, x)
  ELSE t

\* What holds of a reader: no line begins inside data, a CR ends a line, an event with
\* parts has data, and what its parts end with is what could be stated.
Sound(t) ==
  /\ t \in Readers
  /\ t.fresh => ~t.inside
  /\ t.cr => t.fresh
  /\ ~t.one => t.parts = <<>> /\ ~t.inside
  /\ \A q \in Endings(t.parts) : UsageOf(q) \in t.could \cup {NoUsage}

\* Nothing ends with nothing only.
LEMMA EndingsNone ==
  /\ \A q \in Endings(<<>>) : q = <<>>
  /\ \A p \in Seq(Letters) : <<>> \in Endings(p) /\ p \in Endings(p)
  /\ \A p \in Seq(Letters), x \in Letters : \A q \in Endings(p) : Append(q, x) \in Endings(Append(p, x))
<1>1. ASSUME NEW q \in Endings(<<>>) PROVE q = <<>>
  <2>1. PICK w \in Seq(Letters) : <<>> = w \o q
    BY DEF Endings
  <2>2. q \in Seq(Letters)
    BY DEF Endings
  <2> DEFINE both == w \o q
  <2>3. Len(both) = Len(w) + Len(q) /\ Len(w) \in Nat /\ Len(q) \in Nat
    BY ONLY <2>2, w \in Seq(Letters)
  <2>4. both = <<>>
    BY <2>1
  <2> HIDE DEF both
  <2>5. Len(q) = 0
    BY ONLY <2>3, <2>4
  <2> QED BY <2>2, <2>5
<1>2. ASSUME NEW p \in Seq(Letters) PROVE <<>> \in Endings(p) /\ p \in Endings(p)
  <2>1. <<>> \in Seq(Letters) /\ p = p \o <<>> /\ p = <<>> \o p
    OBVIOUS
  <2> QED BY <2>1 DEF Endings
<1>3. ASSUME NEW p \in Seq(Letters), NEW x \in Letters, NEW q \in Endings(p)
      PROVE  Append(q, x) \in Endings(Append(p, x))
  <2>1. PICK w \in Seq(Letters) : p = w \o q
    BY DEF Endings
  <2>2. q \in Seq(Letters)
    BY DEF Endings
  <2>3. Append(q, x) \in Seq(Letters)
    BY <2>2
  <2>4. w \o Append(q, x) = Append(w \o q, x)
    BY <2>2, ConcatAppend
  <2> QED BY <2>1, <2>3, <2>4 DEF Endings
<1> QED BY <1>1, <1>2, <1>3

\* What parts end with states usage objects, or nothing.
LEMMA EndingType ==
  ASSUME NEW p \in Seq(Letters)
  PROVE  Ending(p) \subseteq Usages \cup {NoUsage}
<1>1. \A q \in Endings(p) : UsageOf(q) \in Usages \cup {NoUsage}
  <2>1. \A q \in Endings(p) : q \in Seq(Letters)
    BY DEF Endings
  <2> QED BY <2>1, UsageOfType
<1> QED BY <1>1 DEF Ending

\* The reader is sound before the first byte.
LEMMA SoundFirst == Sound(Reader0)
<1>1. Reader0 \in Readers
  <2>1. Nothing \in Counts
    BY DEF Nothing, Counts
  <2> QED BY <2>1 DEF Reader0, Readers
<1>2. \A q \in Endings(Reader0.parts) : UsageOf(q) \in Reader0.could \cup {NoUsage}
  BY EndingsNone, UsageOfNone DEF Reader0
<1> QED BY <1>1, <1>2 DEF Sound, Reader0

\* What each step makes of a reader.
LEMMA PairEndsIs ==
  ASSUME NEW t \in Readers
  PROVE  LET r == PairEnds(t)
         IN /\ r \in Readers
            /\ r.used = t.used /\ r.parts = t.parts /\ r.could = t.could
            /\ r.fresh = t.fresh /\ r.inside = t.inside /\ r.one = t.one
            /\ r.twice = t.twice /\ r.cr = FALSE /\ r.pair = TRUE
BY DEF PairEnds, Readers

\* An event is over.
LEMMA EventOverIs ==
  ASSUME NEW t \in Readers, NEW cr \in BOOLEAN
  PROVE  LET r == EventOver(t, cr)
         IN /\ r \in Readers
            /\ r.used = Over(UsageOf(t.parts), t.used) /\ r.parts = <<>> /\ r.could = t.could
            /\ r.fresh = t.fresh /\ r.inside = t.inside /\ r.one = FALSE
            /\ r.twice = t.twice /\ r.cr = cr /\ r.pair = t.pair
<1> DEFINE u == Over(UsageOf(t.parts), t.used)
           r == EventOver(t, cr)
<1>1. u \in Counts
  <2>1. t.parts \in Seq(Letters) /\ t.used \in Counts
    BY DEF Readers
  <2> QED BY <2>1, UsageOfType, UsageOver
<1>2. r = [t EXCEPT !.used = u, !.parts = <<>>, !.one = FALSE, !.cr = cr]
  BY DEF EventOver
<1> HIDE DEF u, r
<1>3. /\ r \in Readers /\ r.used = u /\ r.parts = <<>> /\ r.could = t.could /\ r.fresh = t.fresh
      /\ r.inside = t.inside /\ r.one = FALSE /\ r.twice = t.twice /\ r.cr = cr /\ r.pair = t.pair
  <2>1. <<>> \in Seq(Letters)
    OBVIOUS
  <2> QED BY <1>1, <1>2, <2>1 DEF Readers
<1> QED BY <1>3 DEF u, r

\* A line is over.
LEMMA LineOverIs ==
  ASSUME NEW t \in Readers, NEW cr \in BOOLEAN
  PROVE  LET r == LineOver(t, cr)
         IN /\ r \in Readers
            /\ r.used = t.used /\ r.parts = t.parts /\ r.could = t.could
            /\ r.fresh = TRUE /\ r.inside = FALSE /\ r.one = t.one
            /\ r.twice = t.twice /\ r.cr = cr /\ r.pair = t.pair
BY DEF LineOver, Readers

\* A line begins.
LEMMA LineBeginsIs ==
  ASSUME NEW t \in Readers, NEW x
  PROVE  LET r == LineBegins(t, x)
         IN /\ r \in Readers
            /\ r.used = t.used /\ r.parts = t.parts /\ r.could = t.could
            /\ r.fresh = FALSE /\ (r.inside <=> x = Data) /\ (r.one <=> t.one \/ x = Data)
            /\ (r.twice <=> t.twice \/ (t.one /\ x = Data)) /\ r.cr = FALSE /\ r.pair = t.pair
<1> DEFINE begins == x = Data
           two == t.twice \/ (t.one /\ begins)
           one == t.one \/ begins
           r == LineBegins(t, x)
<1>1. r = [t EXCEPT !.fresh = FALSE, !.inside = begins, !.twice = two, !.one = one, !.cr = FALSE]
  BY DEF LineBegins
<1>2. begins \in BOOLEAN /\ two \in BOOLEAN /\ one \in BOOLEAN
  OBVIOUS
<1>3. (begins <=> x = Data) /\ (two <=> t.twice \/ (t.one /\ x = Data)) /\ (one <=> t.one \/ x = Data)
  OBVIOUS
<1> HIDE DEF begins, two, one, r
<1>4. r.used = t.used /\ r.parts = t.parts /\ r.could = t.could /\ r.pair = t.pair
  BY ONLY <1>1, t \in Readers DEF Readers
<1>5. r.fresh = FALSE /\ r.cr = FALSE
  BY ONLY <1>1, t \in Readers DEF Readers
<1>6. r.inside = begins /\ r.one = one /\ r.twice = two
  BY ONLY <1>1, t \in Readers DEF Readers
<1>7. r \in Readers
  <2>1. /\ t.used \in Counts /\ t.parts \in Seq(Letters) /\ t.could \in SUBSET (Usages \cup {NoUsage})
        /\ t.pair \in BOOLEAN
    BY DEF Readers
  <2>2. r = [used |-> t.used, parts |-> t.parts, could |-> t.could, fresh |-> FALSE, inside |-> begins,
             one |-> one, twice |-> two, cr |-> FALSE, pair |-> t.pair]
    BY ONLY <1>1, t \in Readers DEF Readers
  <2> QED BY ONLY <1>2, <2>1, <2>2 DEF Readers
<1> QED BY <1>3, <1>4, <1>5, <1>6, <1>7 DEF r

\* A letter of data comes.
LEMMA DataComesIs ==
  ASSUME NEW t \in Readers, NEW x \in Letters
  PROVE  LET r == DataComes(t, x)
         IN /\ r \in Readers
            /\ r.used = t.used /\ r.parts = Append(t.parts, x) /\ r.could = t.could \cup Ending(Append(t.parts, x))
            /\ r.fresh = t.fresh /\ r.inside = t.inside /\ r.one = t.one
            /\ r.twice = t.twice /\ r.cr = t.cr /\ r.pair = t.pair
<1> DEFINE p == Append(t.parts, x)
           c == t.could \cup Ending(p)
           r == DataComes(t, x)
<1>1. p \in Seq(Letters)
  BY DEF Readers
<1>2. c \in SUBSET (Usages \cup {NoUsage})
  <2> HIDE DEF p
  <2>1. Ending(p) \subseteq Usages \cup {NoUsage}
    BY <1>1, EndingType
  <2> QED BY <2>1 DEF Readers
<1>3. r = [t EXCEPT !.parts = p, !.could = c]
  BY DEF DataComes
<1> HIDE DEF p, c, r
<1>4. /\ r \in Readers /\ r.used = t.used /\ r.parts = p /\ r.could = c /\ r.fresh = t.fresh
      /\ r.inside = t.inside /\ r.one = t.one /\ r.twice = t.twice /\ r.cr = t.cr /\ r.pair = t.pair
  BY <1>1, <1>2, <1>3 DEF Readers
<1> QED BY <1>4 DEF p, c, r

\* A byte more keeps a reader sound.
LEMMA SoundByte ==
  ASSUME NEW t, Sound(t), NEW x \in Octets
  PROVE  Sound(ReadByte(t, x))
<1> DEFINE r == ReadByte(t, x)
<1>0. r = ReadByte(t, x)
  OBVIOUS
<1> SUFFICES Sound(r)
  OBVIOUS
<1> HIDE DEF r
<1>1. t \in Readers
  BY DEF Sound
<1>2. CASE x = LF /\ t.cr
  <2>1. r = PairEnds(t)
    BY <1>0, <1>2 DEF ReadByte
  <2>2. /\ r \in Readers /\ r.parts = t.parts /\ r.could = t.could /\ r.fresh = t.fresh /\ r.inside = t.inside
        /\ r.one = t.one /\ r.cr = FALSE
    BY <1>1, <2>1, PairEndsIs
  <2> QED BY <2>2 DEF Sound
<1>3. CASE ~(x = LF /\ t.cr) /\ x \in {CR, LF} /\ t.fresh
  <2>1. r = EventOver(t, x = CR)
    BY <1>0, <1>3 DEF ReadByte
  <2>2. /\ r \in Readers /\ r.parts = <<>> /\ r.could = t.could /\ r.fresh = t.fresh
        /\ r.inside = t.inside
    <3>1. (x = CR) \in BOOLEAN
      OBVIOUS
    <3> QED BY <1>1, <2>1, <3>1, EventOverIs
  <2>3. \A q \in Endings(r.parts) : UsageOf(q) \in r.could \cup {NoUsage}
    BY <2>2, EndingsNone, UsageOfNone
  <2> QED BY <1>3, <2>2, <2>3 DEF Sound
<1>4. CASE ~(x = LF /\ t.cr) /\ x \in {CR, LF} /\ ~t.fresh
  <2>1. r = LineOver(t, x = CR)
    BY <1>0, <1>4 DEF ReadByte
  <2>2. /\ r \in Readers /\ r.parts = t.parts /\ r.could = t.could /\ r.fresh = TRUE /\ r.inside = FALSE
        /\ r.one = t.one
    <3>1. (x = CR) \in BOOLEAN
      OBVIOUS
    <3> QED BY <1>1, <2>1, <3>1, LineOverIs
  <2> QED BY <2>2 DEF Sound
<1>5. CASE x \notin {CR, LF} /\ t.fresh
  <2>1. r = LineBegins(t, x)
    BY <1>0, <1>5 DEF ReadByte
  <2>2. /\ r \in Readers /\ r.parts = t.parts /\ r.could = t.could /\ r.fresh = FALSE /\ r.cr = FALSE
        /\ (r.inside <=> x = Data) /\ (r.one <=> t.one \/ x = Data)
    BY <1>1, <2>1, LineBeginsIs
  <2> QED BY <2>2 DEF Sound
<1>6. CASE x \notin {CR, LF} /\ ~t.fresh /\ t.inside /\ x \in Telling
  <2>1. r = DataComes(t, x)
    BY <1>0, <1>6 DEF ReadByte
  <2>2. x \in Letters
    BY LettersAre
  <2> DEFINE p == Append(t.parts, x)
  <2>3. /\ r \in Readers /\ r.parts = p /\ r.could = t.could \cup Ending(p)
        /\ r.fresh = t.fresh /\ r.inside = t.inside /\ r.cr = t.cr /\ r.one = t.one
    BY <1>1, <2>1, <2>2, DataComesIs
  <2>4. \A q \in Endings(p) : UsageOf(q) \in Ending(p)
    BY DEF Ending
  <2> HIDE DEF p
  <2>5. ~t.one => ~t.inside
    BY DEF Sound
  <2> QED BY <1>6, <2>3, <2>4, <2>5 DEF Sound
<1>7. CASE x \notin {CR, LF} /\ ~t.fresh /\ ~(t.inside /\ x \in Telling)
  <2>1. r = t
    BY <1>0, <1>7 DEF ReadByte
  <2> QED BY <2>1
<1> QED BY <1>2, <1>3, <1>4, <1>5, <1>6, <1>7

\* A byte more takes nothing from what could be stated.
LEMMA ReadGrows ==
  ASSUME NEW t, Sound(t), NEW x
  PROVE  t.could \subseteq ReadByte(t, x).could
<1>1. t \in Readers
  BY DEF Sound
<1>2. /\ PairEnds(t).could = t.could
      /\ EventOver(t, x = CR).could = t.could
      /\ LineOver(t, x = CR).could = t.could
      /\ LineBegins(t, x).could = t.could
  BY <1>1 DEF PairEnds, EventOver, LineOver, LineBegins, Readers
<1>3. t.could \subseteq DataComes(t, x).could
  <2> DEFINE more == t.could \cup Ending(Append(t.parts, x))
  <2>1. DataComes(t, x) = [t EXCEPT !.parts = Append(t.parts, x), !.could = more]
    BY DEF DataComes
  <2>2. t.could \subseteq more
    OBVIOUS
  <2> HIDE DEF more
  <2>3. DataComes(t, x).could = more
    BY <1>1, <2>1 DEF Readers
  <2> QED BY <2>2, <2>3
<1> QED BY <1>2, <1>3 DEF ReadByte

\* The reading of a response, byte by byte.
Sounds == {t \in Readers : Sound(t)}
Reading == [x \in Octets |-> [t \in Sounds |-> ReadByte(t, x)]]
Reader(s) == FoldOf(Sounds, Reading, Reader0, s)

\* The reader of nothing, and of a byte more.
LEMMA ReaderSteps ==
  /\ Reader(<<>>) = Reader0
  /\ \A s \in Seq(Octets) : Sound(Reader(s))
  /\ \A s \in Seq(Octets), x \in Octets : Reader(Append(s, x)) = ReadByte(Reader(s), x)
<1>1. \A t : Sound(t) <=> t \in Sounds
  BY DEF Sounds, Sound
<1>2. Step(Reading, Octets, Sounds) /\ Reader0 \in Sounds
      /\ \A x \in Octets, t \in Sounds : Reading[x][t] = ReadByte(t, x)
  <2>1. \A t \in Sounds, x \in Octets : ReadByte(t, x) \in Sounds
    BY <1>1, SoundByte
  <2> QED BY <1>1, <2>1, SoundFirst DEF Reading, Step
<1>3. FoldOf(Sounds, Reading, Reader0, <<>>) = Reader0
  BY <1>2, FoldOfNone
<1>4. \A s \in Seq(Octets) : FoldOf(Sounds, Reading, Reader0, s) \in Sounds
  BY <1>2, FoldOfType
<1>5. \A s \in Seq(Octets), x \in Octets :
        FoldOf(Sounds, Reading, Reader0, Append(s, x)) = Reading[x][FoldOf(Sounds, Reading, Reader0, s)]
  BY <1>2, FoldOfAppend
<1> QED BY <1>1, <1>2, <1>3, <1>4, <1>5 DEF Reader

---------------------------------------------------------------------------
(* The capture of chunks and the reader of the whole agree.                *)

\* The parts of the data of the event that is left.
Pending(f) == Parts(EventData(f.left))

\* What a letter makes of the reading of an event.
LEMMA ScanIs ==
  ASSUME NEW e \in Scans, NEW b \in Letters
  PROVE  LET r == Scan(e, b)
         IN /\ r \in Scans
            /\ b = LF => r.fresh = TRUE /\ r.inside = FALSE /\ r.data = e.data
            /\ b # LF /\ e.fresh => r.fresh = FALSE /\ (r.inside <=> b = Data) /\ r.data = e.data
            /\ b # LF /\ ~e.fresh => r.fresh = FALSE /\ (r.inside <=> e.inside)
            /\ b # LF /\ ~e.fresh /\ e.inside => r.data = Append(e.data, b)
            /\ b # LF /\ ~e.fresh /\ ~e.inside => r.data = e.data
<1> DEFINE r == Scan(e, b)
<1>0. r = Scan(e, b)
  OBVIOUS
<1> HIDE DEF r
<1>e. e.fresh \in BOOLEAN /\ e.inside \in BOOLEAN /\ e.data \in Seq(Letters)
  BY DEF Scans
<1>1. CASE b = LF
  <2>1. r = [fresh |-> TRUE, inside |-> FALSE, data |-> e.data]
    BY <1>0, <1>1 DEF Scan
  <2>2. r \in Scans /\ r.fresh = TRUE /\ r.inside = FALSE /\ r.data = e.data
    BY <1>e, <2>1 DEF Scans
  <2> QED BY <1>1, <2>2 DEF r
<1>2. CASE b # LF /\ e.fresh
  <2> DEFINE Q == b = Data
  <2>1. r = [fresh |-> FALSE, inside |-> Q, data |-> e.data] /\ Q \in BOOLEAN
    BY <1>0, <1>2 DEF Scan
  <2>2. r.fresh = FALSE /\ (r.inside <=> b = Data) /\ r.data = e.data
    BY <2>1
  <2> HIDE DEF Q
  <2>3. r \in Scans
    BY <1>e, <2>1 DEF Scans
  <2> QED BY <1>2, <2>2, <2>3 DEF r
<1>3. CASE b # LF /\ ~e.fresh
  <2> DEFINE d == IF e.inside THEN Append(e.data, b) ELSE e.data
  <2>1. r = [e EXCEPT !.data = d] /\ d \in Seq(Letters)
    <3>1. r = [e EXCEPT !.data = IF e.inside THEN Append(@, b) ELSE @]
      BY <1>0, <1>3 DEF Scan
    <3>2. Append(e.data, b) \in Seq(Letters)
      BY <1>e
    <3> QED BY <1>e, <3>1, <3>2
  <2> HIDE DEF d
  <2>2. r \in Scans /\ r.fresh = e.fresh /\ r.inside = e.inside /\ r.data = d
    BY <2>1 DEF Scans
  <2> QED BY <1>3, <2>2 DEF r, d
<1> QED BY <1>1, <1>2, <1>3

\* A line begins where nothing is left or a line end came; an empty text has no data,
\* and a line end adds none.
LEMMA ScannedAre ==
  ASSUME NEW l \in Seq(Letters)
  PROVE  /\ Scanned(l) \in Scans /\ EventData(l) \in Seq(Letters)
         /\ Scanned(l).fresh <=> l = <<>> \/ Last(l) = LF
         /\ l = <<>> => EventData(l) = <<>> /\ ~Scanned(l).inside
         /\ l # <<>> /\ Last(l) = LF => EventData(Front(l)) = EventData(l)
<1>1. Scanned(l) \in Scans /\ EventData(l) \in Seq(Letters)
  BY ScanSteps DEF Scans, EventData
<1>2. CASE l = <<>>
  <2>1. Scanned(l) = Unscanned
    BY <1>2, ScanSteps
  <2> QED BY <1>1, <1>2, <2>1 DEF Unscanned, EventData
<1>3. CASE l # <<>>
  <2>1. Front(l) \in Seq(Letters) /\ Last(l) \in Letters /\ l = Append(Front(l), Last(l))
    BY <1>3, FrontIs
  <2> DEFINE g == Front(l)
             b == Last(l)
             e == Scanned(g)
             r == Scan(e, b)
  <2>2. Scanned(l) = r /\ e \in Scans
    <3>1. Scanned(Append(g, b)) = Scan(Scanned(g), b)
      BY <2>1, ScanSteps
    <3> QED BY <2>1, <3>1, ScanSteps
  <2>3. /\ b = LF => r.fresh = TRUE /\ r.data = e.data
        /\ b # LF /\ e.fresh => r.fresh = FALSE
        /\ b # LF /\ ~e.fresh => r.fresh = FALSE
    <3>1. e \in Scans /\ b \in Letters
      BY <2>1, <2>2
    <3> HIDE DEF e, b
    <3> QED BY <3>1, ScanIs
  <2>4. Scanned(l).fresh <=> b = LF
    <3> HIDE DEF r, e, b
    <3> QED BY <2>2, <2>3
  <2>5. b = LF => EventData(g) = EventData(l)
    <3> HIDE DEF r, b, g
    <3> QED BY <2>2, <2>3 DEF EventData
  <2> QED BY <1>1, <1>3, <2>4, <2>5
<1> QED BY <1>2, <1>3

\* A line end where a line would begin ends an event, if there is any.
LEMMA PushEnd ==
  ASSUME NEW f \in Feeds, NEW cr \in BOOLEAN, Scanned(f.left).fresh
  PROVE  LET g == Push(f, LF, cr)
         IN /\ g \in Feeds /\ g.used = Over(UsageOf(Pending(f)), f.used) /\ g.cr = cr
            /\ Pending(g) = <<>> /\ Scanned(g.left).fresh
<1> DEFINE g == Push(f, LF, cr)
<1>0. g = Push(f, LF, cr)
  OBVIOUS
<1> HIDE DEF g
<1>1. f.left \in Seq(Letters) /\ f.used \in Counts
  BY DEF Feeds
<1>2. /\ f.left = <<>> \/ Last(f.left) = LF
      /\ f.left = <<>> => EventData(f.left) = <<>>
      /\ f.left # <<>> => EventData(Front(f.left)) = EventData(f.left)
      /\ EventData(f.left) \in Seq(Letters)
  BY <1>1, ScannedAre
<1>3. Over(UsageOf(Pending(f)), f.used) \in Counts
  <2>1. Pending(f) \in Seq(Letters)
    BY <1>2, PartsAre DEF Pending
  <2> QED BY <1>1, <2>1, UsageOfType, UsageOver
<1>4. CASE f.left = <<>>
  <2>1. ~EventEnds(f.left, LF)
    BY <1>4 DEF EventEnds
  <2> DEFINE l == Append(f.left, LF)
  <2>2. g = [used |-> f.used, left |-> l, cr |-> cr]
    BY <1>0, <2>1 DEF Push
  <2>3. l \in Seq(Letters) /\ l # <<>> /\ Last(l) = LF /\ Front(l) = f.left
    BY <1>1, LettersAre, LastIs
  <2> HIDE DEF l
  <2>4. Scanned(l).fresh /\ EventData(l) = <<>>
    BY <1>2, <1>4, <2>3, ScannedAre
  <2>5. Pending(f) = <<>> /\ g.left = l /\ g.used = f.used /\ g.cr = cr /\ g \in Feeds
    BY <1>1, <1>2, <1>4, <2>2, <2>3, PartsNone DEF Pending, Feeds
  <2>6. Pending(g) = <<>>
    BY <2>4, <2>5, PartsNone DEF Pending
  <2>7. Over(UsageOf(Pending(f)), f.used) = f.used
    BY <1>1, <2>5, UsageOfNone, UsageAgain
  <2> QED BY <2>4, <2>5, <2>6, <2>7 DEF g
<1>5. CASE f.left # <<>>
  <2>1. EventEnds(f.left, LF)
    BY <1>2, <1>5 DEF EventEnds
  <2> DEFINE u == Apply(f.used, Front(f.left))
  <2>2. g = [used |-> u, left |-> <<>>, cr |-> cr]
    BY <1>0, <2>1 DEF Push
  <2>3. u = Over(UsageOf(Pending(f)), f.used)
    BY <1>2, <1>5 DEF Apply, UsageIn, Pending
  <2> HIDE DEF u
  <2>4. <<>> \in Seq(Letters)
    OBVIOUS
  <2>5. g \in Feeds /\ g.used = u /\ g.left = <<>> /\ g.cr = cr
    BY <1>3, <2>2, <2>3, <2>4 DEF Feeds
  <2>6. Scanned(g.left).fresh /\ EventData(g.left) = <<>>
    BY <2>4, <2>5, ScannedAre
  <2>7. Pending(g) = <<>>
    BY <2>6, PartsNone DEF Pending
  <2> QED BY <2>3, <2>5, <2>6, <2>7 DEF g
<1> QED BY <1>4, <1>5

\* Any other letter goes to what is left.
LEMMA PushMore ==
  ASSUME NEW f \in Feeds, NEW b \in Letters, NEW cr \in BOOLEAN, b # LF \/ ~Scanned(f.left).fresh
  PROVE  LET g == Push(f, b, cr)
         IN /\ g \in Feeds /\ g.used = f.used /\ g.cr = cr
            /\ Scanned(g.left) = Scan(Scanned(f.left), b)
<1> DEFINE l == Append(f.left, b)
           g == Push(f, b, cr)
<1>1. f.left \in Seq(Letters) /\ f.used \in Counts
  BY DEF Feeds
<1>2. ~EventEnds(f.left, b)
  BY <1>1, ScannedAre DEF EventEnds
<1>3. g = [used |-> f.used, left |-> l, cr |-> cr]
  BY <1>2 DEF Push
<1>4. l \in Seq(Letters) /\ Scanned(l) = Scan(Scanned(f.left), b)
  BY <1>1, ScanSteps
<1> HIDE DEF l, g
<1>5. g \in Feeds /\ g.used = f.used /\ g.left = l /\ g.cr = cr
  BY <1>1, <1>3, <1>4 DEF Feeds
<1> QED BY <1>4, <1>5 DEF g

\* Where the capture and the reader are: a CR that came last was read, a character is
\* not waited for where a line begins, and lines and their data begin together, but
\* that the capture has not seen the first byte of a character.
Mode(f, h, t) ==
  /\ f.cr => t.cr \/ h
  /\ h => ~t.fresh
  /\ t.fresh => Scanned(f.left).fresh
  /\ ~t.fresh =>
       \/ ~Scanned(f.left).fresh /\ (Scanned(f.left).inside <=> t.inside)
       \/ h /\ Scanned(f.left).fresh /\ ~t.inside

(***************************************************************************)
(* What the capture knows: what the reader knows, or, an LF between two    *)
(* chunks having ended the event early, what the reader will know when the *)
(* event is over; but for events of data on two lines, cut there.          *)
(***************************************************************************)
Same(f, t) == f.used = t.used /\ Pending(f) = t.parts
Early(f, t) ==
  /\ t.pair /\ t.one /\ ~t.inside
  /\ Pending(f) = <<>> /\ f.used = Over(UsageOf(t.parts), t.used)
Exact(f, t) == (t.pair /\ t.twice) \/ Same(f, t) \/ Early(f, t)

\* At least, all it knows was in the response.
FromText(f, t) ==
  /\ Pending(f) \in Endings(t.parts)
  /\ \A k \in Keys : f.used[k] = 0 \/ \E u \in t.could : k \in DOMAIN u /\ u[k] = f.used[k]

Agree(f, h, t) ==
  f \in Feeds /\ Sound(t) /\ Mode(f, h, t) /\ Exact(f, t) /\ FromText(f, t)

\* The usage of an event that is over is what was pending, over the usage so far.
LEMMA OverFromText ==
  ASSUME NEW f \in Feeds, NEW t, Sound(t), FromText(f, t)
  PROVE  LET c == Over(UsageOf(Pending(f)), f.used)
         IN \A k \in Keys : c[k] = 0 \/ \E u \in t.could : k \in DOMAIN u /\ u[k] = c[k]
<1> DEFINE v == UsageOf(Pending(f))
           c == Over(v, f.used)
<1>1. Pending(f) \in Endings(t.parts) /\ f.used \in Counts /\ Pending(f) \in Seq(Letters)
  BY DEF FromText, Feeds, Endings
<1>2. v \in t.could \cup {NoUsage} /\ (v \in Usages \/ v = NoUsage)
  BY <1>1, UsageOfType DEF Sound
<1> HIDE DEF v
<1>3. \A k \in Keys : c[k] = IF k \in DOMAIN v THEN v[k] ELSE f.used[k]
  BY <1>1, <1>2, UsageOver
<1> HIDE DEF c
<1>4. ASSUME NEW k \in Keys
      PROVE  c[k] = 0 \/ \E u \in t.could : k \in DOMAIN u /\ u[k] = c[k]
  <2>1. CASE k \in DOMAIN v
    <3>1. v # NoUsage
      BY <2>1 DEF NoUsage
    <3> QED BY <1>2, <1>3, <2>1, <3>1
  <2>2. CASE k \notin DOMAIN v
    <3>1. c[k] = f.used[k]
      BY <1>3, <2>2
    <3>2. f.used[k] = 0 \/ \E u \in t.could : k \in DOMAIN u /\ u[k] = f.used[k]
      BY DEF FromText
    <3> QED BY <3>1, <3>2
  <2> QED BY <2>1, <2>2
<1> QED BY <1>4 DEF c, v

\* Nothing more is known, and if data begins on another line of an event, that shows.
LEMMA AgreeKeeps ==
  ASSUME NEW f \in Feeds, NEW g \in Feeds, NEW t, NEW r \in Readers, Sound(t),
         Exact(f, t), FromText(f, t),
         g.used = f.used, Pending(g) = Pending(f),
         r.used = t.used, r.parts = t.parts, r.could = t.could,
         t.pair => r.pair, t.twice => r.twice, t.one => r.one,
         r.inside => t.inside \/ (t.one => r.twice)
  PROVE  Exact(g, r) /\ FromText(g, r)
<1>0. t \in Readers
  BY DEF Sound
<1>1. FromText(g, r)
  BY DEF FromText
<1>2. CASE t.pair /\ t.twice
  BY <1>1, <1>2 DEF Exact
<1>3. CASE Same(f, t)
  BY <1>1, <1>3 DEF Exact, Same
<1>4. CASE Early(f, t)
  <2>1. t.pair /\ t.one /\ ~t.inside /\ Pending(g) = <<>> /\ g.used = Over(UsageOf(r.parts), r.used)
    BY <1>4 DEF Early
  <2>2. CASE r.inside
    <3>1. r.pair /\ r.twice
      BY <2>1, <2>2
    <3> QED BY <1>1, <3>1 DEF Exact
  <2>3. CASE ~r.inside
    <3>1. r.pair /\ r.one
      BY <2>1
    <3> QED BY <1>1, <2>1, <2>3, <3>1 DEF Exact, Early
  <2> QED BY <2>2, <2>3
<1> QED BY <1>1, <1>2, <1>3, <1>4 DEF Exact

\* A letter of data comes.
LEMMA AgreeData ==
  ASSUME NEW f \in Feeds, NEW g \in Feeds, NEW t, NEW r \in Readers, Sound(t),
         Exact(f, t), FromText(f, t), NEW x \in Letters,
         g.used = f.used, Pending(g) = Append(Pending(f), x),
         r.used = t.used, r.parts = Append(t.parts, x), t.could \subseteq r.could,
         r.pair = t.pair, r.twice = t.twice, t.inside
  PROVE  Exact(g, r) /\ FromText(g, r)
<1>0. t \in Readers /\ t.parts \in Seq(Letters)
  BY DEF Sound, Readers
<1>1. FromText(g, r)
  <2>1. Pending(g) \in Endings(r.parts)
    <3>1. Pending(f) \in Endings(t.parts)
      BY DEF FromText
    <3> QED BY <1>0, <3>1, EndingsNone
  <2>2. \A k \in Keys : g.used[k] = 0 \/ \E u \in r.could : k \in DOMAIN u /\ u[k] = g.used[k]
    BY DEF FromText
  <2> QED BY <2>1, <2>2 DEF FromText
<1>2. CASE t.pair /\ t.twice
  BY <1>1, <1>2 DEF Exact
<1>3. CASE Same(f, t)
  BY <1>1, <1>3 DEF Exact, Same
<1>4. CASE Early(f, t)
  BY <1>4 DEF Early
<1> QED BY <1>2, <1>3, <1>4 DEF Exact

\* An event is over.
LEMMA AgreeOver ==
  ASSUME NEW f \in Feeds, NEW g \in Feeds, NEW t, NEW r \in Readers, Sound(t),
         Exact(f, t), FromText(f, t),
         g.used = Over(UsageOf(Pending(f)), f.used), Pending(g) = <<>>,
         r.used = Over(UsageOf(t.parts), t.used), r.parts = <<>>, r.could = t.could,
         r.pair = t.pair, r.twice = t.twice
  PROVE  Exact(g, r) /\ FromText(g, r)
<1>0. t \in Readers /\ t.parts \in Seq(Letters) /\ t.used \in Counts /\ f.used \in Counts
  BY DEF Sound, Readers, Feeds
<1>1. FromText(g, r)
  <2>1. <<>> \in Seq(Letters)
    OBVIOUS
  <2>2. Pending(g) \in Endings(r.parts)
    BY <2>1, EndingsNone
  <2>3. \A k \in Keys : g.used[k] = 0 \/ \E u \in r.could : k \in DOMAIN u /\ u[k] = g.used[k]
    BY OverFromText
  <2> QED BY <2>2, <2>3 DEF FromText
<1>2. CASE t.pair /\ t.twice
  BY <1>1, <1>2 DEF Exact
<1>3. CASE Same(f, t)
  BY <1>1, <1>3 DEF Exact, Same
<1>4. CASE Early(f, t)
  <2>1. Pending(f) = <<>> /\ f.used = r.used
    BY <1>4 DEF Early
  <2>2. g.used = f.used
    <3>1. Over(NoUsage, f.used) = f.used
      BY <1>0, UsageAgain
    <3> QED BY <2>1, <3>1, UsageOfNone
  <2> QED BY <1>1, <2>1, <2>2 DEF Exact, Same
<1> QED BY <1>2, <1>3, <1>4 DEF Exact

\* The capture takes the rest of a line end for the end of the event.
LEMMA AgreeEarly ==
  ASSUME NEW f \in Feeds, NEW g \in Feeds, NEW t, NEW r \in Readers, Sound(t),
         Exact(f, t), FromText(f, t),
         g.used = Over(UsageOf(Pending(f)), f.used), Pending(g) = <<>>,
         r.used = t.used, r.parts = t.parts, r.could = t.could,
         r.pair, r.twice = t.twice, r.one = t.one, ~r.inside
  PROVE  Exact(g, r) /\ FromText(g, r)
<1>0. t \in Readers /\ t.parts \in Seq(Letters) /\ t.used \in Counts /\ f.used \in Counts
  BY DEF Sound, Readers, Feeds
<1>1. FromText(g, r)
  <2>1. Pending(g) \in Endings(r.parts)
    BY <1>0, EndingsNone
  <2>2. \A k \in Keys : g.used[k] = 0 \/ \E u \in r.could : k \in DOMAIN u /\ u[k] = g.used[k]
    BY OverFromText
  <2> QED BY <2>1, <2>2 DEF FromText
<1>2. CASE t.pair /\ t.twice
  BY <1>1, <1>2 DEF Exact
<1>3. CASE Same(f, t)
  <2>1. g.used = Over(UsageOf(r.parts), r.used)
    BY <1>3 DEF Same
  <2>2. CASE t.one
    BY <1>1, <2>1, <2>2 DEF Exact, Early
  <2>3. CASE ~t.one
    <3>1. t.parts = <<>>
      BY <2>3 DEF Sound
    <3>2. Over(NoUsage, t.used) = t.used
      BY <1>0, UsageAgain
    <3>3. g.used = r.used /\ Pending(g) = r.parts
      BY <2>1, <3>1, <3>2, UsageOfNone
    <3> QED BY <1>1, <3>3 DEF Exact, Same
  <2> QED BY <2>2, <2>3
<1>4. CASE Early(f, t)
  <2>1. Pending(f) = <<>> /\ t.one /\ f.used = Over(UsageOf(r.parts), r.used)
    BY <1>4 DEF Early
  <2>2. g.used = f.used
    <3>1. Over(NoUsage, f.used) = f.used
      BY <1>0, UsageAgain
    <3> QED BY <2>1, <3>1, UsageOfNone
  <2> QED BY <1>1, <2>1, <2>2 DEF Exact, Early
<1> QED BY <1>2, <1>3, <1>4 DEF Exact

\* A byte that no character needs elsewhere keeps the capture and the reader agreed.
LEMMA AgreeByte ==
  ASSUME NEW f, NEW h \in BOOLEAN, NEW t, Agree(f, h, t), NEW x \in Octets, x = Trail <=> h
  PROVE  Agree(FeedByte(f, x), x = Lead, ReadByte(t, x))
<1> DEFINE g == FeedByte(f, x)
           r == ReadByte(t, x)
           e == Scanned(f.left)
           b == LineEnd[LetterOf[x]]
<1>g. g = FeedByte(f, x)
  OBVIOUS
<1>r. r = ReadByte(t, x)
  OBVIOUS
<1>e. e = Scanned(f.left)
  OBVIOUS
<1>b. b \in Letters /\ (x \notin {Trail, CR} => b = x) /\ (x = Trail => b = Char) /\ (x = CR => b = LF)
  BY LetterMaps, LettersDiffer, LettersAre DEF Maps, LetterOf, LineEnd
<1> SUFFICES Agree(g, x = Lead, r)
  OBVIOUS
<1> HIDE DEF g, r, e, b
<1>1. f \in Feeds /\ Sound(t) /\ t \in Readers /\ Mode(f, h, t) /\ Exact(f, t) /\ FromText(f, t)
  BY DEF Agree, Sound
<1>2. /\ e \in Scans /\ EventData(f.left) = e.data /\ e.data \in Seq(Letters)
      /\ (f.cr => t.cr \/ h) /\ (h => ~t.fresh) /\ (t.fresh => e.fresh)
      /\ (~t.fresh => (~e.fresh /\ (e.inside <=> t.inside)) \/ (h /\ e.fresh /\ ~t.inside))
      /\ (t.fresh => ~t.inside) /\ (t.cr => t.fresh)
      /\ Pending(f) = Parts(e.data)
  <2>1. e \in Scans /\ EventData(f.left) = e.data
    BY <1>1, <1>e, ScannedAre DEF Feeds, EventData
  <2> QED BY <1>1, <1>e, <2>1 DEF Mode, Sound, Pending, Scans
<1>3. Sound(r) /\ r \in Readers
  BY <1>1, <1>r, SoundByte DEF Sound
<1>4. ASSUME g \in Feeds, Mode(g, x = Lead, r), Exact(g, r), FromText(g, r)
      PROVE  Agree(g, x = Lead, r)
  BY <1>3, <1>4 DEF Agree
\* A letter that is no line end, when the reader knows whether it is in data.
<1>5. ASSUME x # Lead, ~(x = LF /\ f.cr), b # LF
      PROVE  /\ g \in Feeds /\ g.used = f.used /\ g.cr = FALSE
             /\ Scanned(g.left) = Scan(e, b) /\ Scan(e, b) \in Scans
             /\ Scan(e, b).fresh = FALSE /\ Pending(g) = Parts(Scan(e, b).data)
  <2>1. x # CR
    BY <1>5, <1>b
  <2>2. g = Push(f, b, FALSE)
    <3>1. g = Push(f, b, x = CR)
      BY <1>5, <1>g, <1>b DEF FeedByte, b
    <3>2. (x = CR) = FALSE
      BY <2>1
    <3> QED BY <3>1, <3>2
  <2>3. g \in Feeds /\ g.used = f.used /\ g.cr = FALSE /\ Scanned(g.left) = Scan(e, b)
    BY <1>1, <1>5, <1>b, <1>e, <2>2, PushMore
  <2>4. /\ b # LF /\ e.fresh => Scan(e, b).fresh = FALSE
        /\ b # LF /\ ~e.fresh => Scan(e, b).fresh = FALSE
        /\ Scan(e, b) \in Scans
    BY <1>2, <1>b, ScanIs
  <2>5. Scan(e, b).fresh = FALSE
    BY <1>5, <2>4
  <2>6. Pending(g) = Parts(Scan(e, b).data)
    BY <2>3 DEF Pending, EventData
  <2> QED BY <2>3, <2>4, <2>5, <2>6
<1>6. CASE x = Lead
  <2>1. g = f /\ ~h
    BY <1>6, <1>g, LettersDiffer DEF FeedByte
  <2>2. x \notin {CR, LF} /\ x \notin Telling /\ x # Data
    BY <1>6, LettersDiffer DEF Telling
  <2>3. CASE t.fresh
    <3>1. r = LineBegins(t, x)
      BY <1>r, <2>2, <2>3 DEF ReadByte
    <3>2. /\ r.used = t.used /\ r.parts = t.parts /\ r.could = t.could /\ r.fresh = FALSE /\ ~r.inside
          /\ (r.one <=> t.one) /\ (r.twice <=> t.twice) /\ r.pair = t.pair
      <4>1. /\ (r.inside <=> x = Data) /\ (r.one <=> t.one \/ x = Data)
            /\ (r.twice <=> t.twice \/ (t.one /\ x = Data))
            /\ r.used = t.used /\ r.parts = t.parts /\ r.could = t.could /\ r.fresh = FALSE /\ r.pair = t.pair
        BY <1>1, <3>1, LineBeginsIs
      <4> QED BY <2>2, <4>1
    <3>3. Exact(g, r) /\ FromText(g, r)
      BY <1>1, <1>3, <2>1, <3>2, AgreeKeeps
    <3>4. Mode(g, x = Lead, r)
      BY <1>2, <1>6, <1>e, <2>1, <2>3, <3>2 DEF Mode
    <3> QED BY <1>1, <1>4, <2>1, <3>3, <3>4
  <2>4. CASE ~t.fresh
    <3>1. r = t
      BY <1>r, <2>2, <2>4 DEF ReadByte
    <3>2. Mode(g, x = Lead, r)
      BY <1>2, <1>6, <1>e, <2>1, <2>4, <3>1 DEF Mode
    <3> QED BY <1>1, <1>4, <2>1, <3>1, <3>2
  <2> QED BY <2>3, <2>4
<1>7. CASE x = Trail
  <2>1. h /\ ~t.fresh /\ b = Char /\ x # Lead /\ x # LF /\ x # CR /\ x \notin Telling /\ Char \notin Telling
        /\ b # LF /\ b # Data
    BY <1>2, <1>7, <1>b, LettersDiffer DEF Telling
  <2>2. r = t
    BY <1>r, <2>1 DEF ReadByte
  <2>3. /\ g \in Feeds /\ g.used = f.used /\ g.cr = FALSE
        /\ Scanned(g.left) = Scan(e, b) /\ Scan(e, b).fresh = FALSE /\ Pending(g) = Parts(Scan(e, b).data)
    BY <1>5, <2>1
  <2>4. /\ e.fresh => (Scan(e, b).inside <=> b = Data) /\ Scan(e, b).data = e.data
        /\ ~e.fresh => (Scan(e, b).inside <=> e.inside)
        /\ ~e.fresh /\ e.inside => Scan(e, b).data = Append(e.data, b)
        /\ ~e.fresh /\ ~e.inside => Scan(e, b).data = e.data
    <3>1. /\ b # LF /\ e.fresh => (Scan(e, b).inside <=> b = Data) /\ Scan(e, b).data = e.data
          /\ b # LF /\ ~e.fresh => (Scan(e, b).inside <=> e.inside)
          /\ b # LF /\ ~e.fresh /\ e.inside => Scan(e, b).data = Append(e.data, b)
          /\ b # LF /\ ~e.fresh /\ ~e.inside => Scan(e, b).data = e.data
      BY <1>2, <1>b, ScanIs
    <3> QED BY <2>1, <3>1
  <2>5. Pending(g) = Pending(f)
    <3>1. Parts(Append(e.data, b)) = Parts(e.data)
      BY <1>2, <1>b, <2>1, PartsAppend
    <3>2. e.fresh \in BOOLEAN /\ e.inside \in BOOLEAN
      BY <1>2 DEF Scans
    <3> QED BY <1>2, <2>3, <2>4, <3>1, <3>2
  <2>6. Exact(g, r) /\ FromText(g, r)
    BY <1>1, <1>3, <2>2, <2>3, <2>5, AgreeKeeps
  <2>7. Mode(g, x = Lead, r)
    <3>1. Scan(e, b).inside <=> t.inside
      BY <1>2, <2>1, <2>4
    <3> QED BY <2>1, <2>2, <2>3, <3>1 DEF Mode
  <2> QED BY <1>4, <2>3, <2>6, <2>7
<1>8. CASE x # Trail /\ x = LF /\ t.cr
  <2>0. ~h /\ t.fresh /\ e.fresh /\ x # Lead /\ b = LF
    BY <1>2, <1>8, <1>b, LettersDiffer
  <2>1. r = PairEnds(t)
    BY <1>8, <1>r DEF ReadByte
  <2>2. /\ r.used = t.used /\ r.parts = t.parts /\ r.could = t.could
        /\ r.fresh = t.fresh /\ r.inside = t.inside /\ r.one = t.one
        /\ r.twice = t.twice /\ r.cr = FALSE /\ r.pair = TRUE
    BY <1>1, <2>1, PairEndsIs
  <2>3. CASE f.cr
    <3>1. g = [used |-> f.used, left |-> f.left, cr |-> FALSE]
      BY <1>8, <1>g, <2>0, <2>3 DEF FeedByte
    <3>2. g \in Feeds /\ g.used = f.used /\ g.left = f.left /\ g.cr = FALSE /\ Pending(g) = Pending(f)
      BY <1>1, <3>1 DEF Feeds, Pending
    <3>3. Exact(g, r) /\ FromText(g, r)
      BY <1>1, <1>3, <2>2, <3>2, AgreeKeeps
    <3>4. Mode(g, x = Lead, r)
      BY <1>e, <2>0, <2>2, <3>2 DEF Mode
    <3> QED BY <1>4, <3>2, <3>3, <3>4
  <2>4. CASE ~f.cr
    <3>1. g = Push(f, LF, FALSE)
      <4>1. g = Push(f, LF, x = CR)
        BY <1>8, <1>g, <2>0, <2>4 DEF FeedByte, b
      <4>2. (x = CR) = FALSE
        BY <1>8, LettersDiffer
      <4> QED BY <4>1, <4>2
    <3>2. /\ g \in Feeds /\ g.used = Over(UsageOf(Pending(f)), f.used) /\ g.cr = FALSE
          /\ Pending(g) = <<>> /\ Scanned(g.left).fresh
      BY <1>1, <1>e, <2>0, <3>1, PushEnd
    <3>3. ~r.inside
      BY <1>2, <2>0, <2>2
    <3>4. Exact(g, r) /\ FromText(g, r)
      BY <1>1, <1>3, <2>2, <3>2, <3>3, AgreeEarly
    <3>5. Mode(g, x = Lead, r)
      BY <2>0, <2>2, <3>2 DEF Mode
    <3> QED BY <1>4, <3>2, <3>4, <3>5
  <2> QED BY <2>3, <2>4
<1>9. CASE x # Trail /\ x \in {CR, LF} /\ ~(x = LF /\ t.cr)
  <2>0. ~h /\ ~(x = LF /\ f.cr) /\ x # Lead /\ b = LF
    BY <1>2, <1>9, <1>b, LettersDiffer
  <2>1. g = Push(f, LF, x = CR) /\ (x = CR) \in BOOLEAN
    BY <1>g, <2>0 DEF FeedByte, b
  <2>2. CASE t.fresh
    <3>1. r = EventOver(t, x = CR)
      BY <1>9, <1>r, <2>2 DEF ReadByte
    <3>2. /\ r.used = Over(UsageOf(t.parts), t.used) /\ r.parts = <<>> /\ r.could = t.could
          /\ r.fresh = t.fresh /\ r.twice = t.twice /\ (r.cr <=> x = CR) /\ r.pair = t.pair
      BY <1>1, <2>1, <3>1, EventOverIs
    <3>3. /\ g \in Feeds /\ g.used = Over(UsageOf(Pending(f)), f.used) /\ (g.cr <=> x = CR)
          /\ Pending(g) = <<>> /\ Scanned(g.left).fresh
      BY <1>1, <1>2, <1>e, <2>1, <2>2, PushEnd
    <3>4. Exact(g, r) /\ FromText(g, r)
      BY <1>1, <1>3, <3>2, <3>3, AgreeOver
    <3>5. Mode(g, x = Lead, r)
      BY <2>0, <2>2, <3>2, <3>3 DEF Mode
    <3> QED BY <1>4, <3>3, <3>4, <3>5
  <2>3. CASE ~t.fresh
    <3>1. r = LineOver(t, x = CR)
      BY <1>9, <1>r, <2>3 DEF ReadByte
    <3>2. /\ r.used = t.used /\ r.parts = t.parts /\ r.could = t.could
          /\ r.fresh = TRUE /\ r.inside = FALSE /\ r.one = t.one
          /\ r.twice = t.twice /\ (r.cr <=> x = CR) /\ r.pair = t.pair
      BY <1>1, <2>1, <3>1, LineOverIs
    <3>3. ~e.fresh
      BY <1>2, <2>0, <2>3
    <3>4. /\ g \in Feeds /\ g.used = f.used /\ (g.cr <=> x = CR)
          /\ Scanned(g.left) = Scan(e, LF)
      <4>1. LF \in Letters
        BY LettersAre
      <4> QED BY <1>1, <1>e, <2>1, <3>3, <4>1, PushMore
    <3>5. Scan(e, LF).fresh = TRUE /\ Scan(e, LF).data = e.data
      BY <1>2, LettersAre, ScanIs
    <3>6. Pending(g) = Pending(f)
      BY <1>2, <3>4, <3>5 DEF Pending, EventData
    <3>7. Exact(g, r) /\ FromText(g, r)
      BY <1>1, <1>3, <3>2, <3>4, <3>6, AgreeKeeps
    <3>8. Mode(g, x = Lead, r)
      BY <2>0, <3>2, <3>4, <3>5 DEF Mode
    <3> QED BY <1>4, <3>4, <3>7, <3>8
  <2> QED BY <2>2, <2>3
<1>10. CASE x \notin {CR, LF, Lead, Trail}
  <2>0. ~h /\ b = x /\ b # LF /\ x # Lead /\ x # LF
    BY <1>10, <1>b
  <2>1. x \in Telling
    BY <1>10, LettersAre, LettersDiffer DEF Telling
  <2>2. /\ g \in Feeds /\ g.used = f.used /\ g.cr = FALSE
        /\ Scanned(g.left) = Scan(e, x) /\ Scan(e, x).fresh = FALSE /\ Pending(g) = Parts(Scan(e, x).data)
    BY <1>5, <2>0
  <2>3. /\ e.fresh => (Scan(e, x).inside <=> x = Data) /\ Scan(e, x).data = e.data
        /\ ~e.fresh => (Scan(e, x).inside <=> e.inside)
        /\ ~e.fresh /\ e.inside => Scan(e, x).data = Append(e.data, x)
        /\ ~e.fresh /\ ~e.inside => Scan(e, x).data = e.data
    <3>1. /\ x # LF /\ e.fresh => (Scan(e, x).inside <=> x = Data) /\ Scan(e, x).data = e.data
          /\ x # LF /\ ~e.fresh => (Scan(e, x).inside <=> e.inside)
          /\ x # LF /\ ~e.fresh /\ e.inside => Scan(e, x).data = Append(e.data, x)
          /\ x # LF /\ ~e.fresh /\ ~e.inside => Scan(e, x).data = e.data
      <4>1. e \in Scans /\ x \in Letters
        BY <1>2, <1>b, <2>0
      <4> QED BY ONLY <4>1, ScanIs
    <3> QED BY <2>0, <3>1
  <2>4. CASE t.fresh
    <3>1. r = LineBegins(t, x)
      BY <1>10, <1>r, <2>4 DEF ReadByte
    <3>2. /\ r.used = t.used /\ r.parts = t.parts /\ r.could = t.could /\ r.fresh = FALSE
          /\ (r.inside <=> x = Data) /\ (r.one <=> t.one \/ x = Data)
          /\ (r.twice <=> t.twice \/ (t.one /\ x = Data)) /\ r.cr = FALSE /\ r.pair = t.pair
      BY <1>1, <3>1, LineBeginsIs
    <3>3. e.fresh /\ Pending(g) = Pending(f)
      BY <1>2, <2>2, <2>3, <2>4
    <3>4. Exact(g, r) /\ FromText(g, r)
      <4>1. (t.pair => r.pair) /\ (t.twice => r.twice) /\ (t.one => r.one)
            /\ (r.inside => t.inside \/ (t.one => r.twice))
        BY <3>2
      <4> QED BY <1>1, <1>3, <2>2, <3>2, <3>3, <4>1, AgreeKeeps
    <3>5. Mode(g, x = Lead, r)
      BY <2>0, <2>2, <2>3, <3>2, <3>3 DEF Mode
    <3> QED BY <1>4, <2>2, <3>4, <3>5
  <2>5. CASE ~t.fresh /\ t.inside
    <3>1. r = DataComes(t, x)
      BY <1>10, <1>r, <2>1, <2>5 DEF ReadByte
    <3>2. x \in Letters
      BY LettersAre
    <3>3. /\ r.used = t.used /\ r.parts = Append(t.parts, x) /\ r.could = t.could \cup Ending(Append(t.parts, x))
          /\ r.fresh = t.fresh /\ r.inside = t.inside /\ r.twice = t.twice /\ r.pair = t.pair
      BY <1>1, <3>1, <3>2, DataComesIs
    <3>4. ~e.fresh /\ e.inside
      BY <1>2, <2>0, <2>5
    <3>5. Pending(g) = Append(Pending(f), x)
      BY <1>2, <2>1, <2>2, <2>3, <3>2, <3>4, PartsAppend
    <3>6. Exact(g, r) /\ FromText(g, r)
      BY <1>1, <1>3, <2>2, <2>5, <3>2, <3>3, <3>5, AgreeData
    <3>7. Mode(g, x = Lead, r)
      BY <2>0, <2>2, <2>3, <2>5, <3>3, <3>4 DEF Mode
    <3> QED BY <1>4, <2>2, <3>6, <3>7
  <2>6. CASE ~t.fresh /\ ~t.inside
    <3>1. r = t
      BY <1>10, <1>r, <2>6 DEF ReadByte
    <3>2. ~e.fresh /\ ~e.inside
      BY <1>2, <2>0, <2>6
    <3>3. Pending(g) = Pending(f)
      BY <1>2, <2>2, <2>3, <3>2
    <3>4. Exact(g, r) /\ FromText(g, r)
      BY <1>1, <1>3, <2>2, <3>1, <3>3, AgreeKeeps
    <3>5. Mode(g, x = Lead, r)
      BY <2>0, <2>2, <2>3, <2>6, <3>1, <3>2 DEF Mode
    <3> QED BY <1>4, <2>2, <3>4, <3>5
  <2> QED BY <2>4, <2>5, <2>6
<1> QED
  <2>1. \/ x = Lead \/ x = Trail
        \/ x # Trail /\ x = LF /\ t.cr
        \/ x # Trail /\ x \in {CR, LF} /\ ~(x = LF /\ t.cr)
        \/ x \notin {CR, LF, Lead, Trail}
    OBVIOUS
  <2> QED BY <1>6, <1>7, <1>8, <1>9, <1>10, <2>1

\* The decoder, a byte further.
LEMMA DecodeSteps ==
  ASSUME NEW h \in BOOLEAN, NEW c \in Seq(Octets), NEW x \in Octets
  PROVE  /\ Decode(h, <<>>).ok /\ (Decode(h, <<>>).held <=> h)
         /\ Decode(h, c).held \in BOOLEAN
         /\ Decode(h, Append(c, x)).held <=> x = Lead
         /\ Decode(h, Append(c, x)).ok <=> Decode(h, c).ok /\ (x = Trail <=> Decode(h, c).held)
<1> DEFINE d == Append(c, x)
           n == Len(c)
           Fits(s, i) == s[i] = Trail <=> IF i = 1 THEN h ELSE s[i - 1] = Lead
<1>1. Decode(h, <<>>).ok /\ (Decode(h, <<>>).held <=> h)
  BY DEF Decode
<1>2. /\ n \in Nat /\ DOMAIN c = 1..n /\ DOMAIN d = 1..(n + 1) /\ Len(d) = n + 1 /\ d # <<>>
      /\ (c = <<>> <=> n = 0) /\ d[n + 1] = x /\ \A i \in 1..n : d[i] = c[i]
  OBVIOUS
<1>3. /\ Decode(h, d).ok <=> \A i \in DOMAIN d : Fits(d, i)
      /\ Decode(h, c).ok <=> \A i \in DOMAIN c : Fits(c, i)
  BY DEF Decode
<1> HIDE DEF d, n
<1>4. /\ Decode(h, d).held <=> d[Len(d)] = Lead
      /\ Decode(h, c).held <=> IF n = 0 THEN h ELSE c[n] = Lead
      /\ Decode(h, c).held \in BOOLEAN
  <2>1. Decode(h, d).held <=> d[Len(d)] = Lead
    BY <1>2 DEF Decode
  <2>2. Decode(h, c).held = IF c = <<>> THEN h ELSE c[Len(c)] = Lead
    BY DEF Decode
  <2> QED BY <1>2, <2>1, <2>2 DEF n
<1>5. \A i \in 1..n : Fits(d, i) <=> Fits(c, i)
  <2> SUFFICES ASSUME NEW i \in 1..n PROVE Fits(d, i) <=> Fits(c, i)
    OBVIOUS
  <2>1. i # 1 => i - 1 \in 1..n
    BY <1>2
  <2> QED BY <1>2, <2>1
<1>6. Fits(d, n + 1) <=> (x = Trail <=> Decode(h, c).held)
  <2>1. CASE n = 0
    BY <1>2, <1>4, <2>1
  <2>2. CASE n # 0
    <3>1. n + 1 # 1 /\ (n + 1) - 1 = n /\ n \in 1..n
      BY <1>2, <2>2
    <3>2. d[n] = c[n]
      BY <1>2, <3>1
    <3>3. Fits(d, n + 1) <=> (d[n + 1] = Trail <=> d[n] = Lead)
      BY <3>1
    <3> QED BY <1>2, <1>4, <2>2, <3>2, <3>3
  <2> QED BY <2>1, <2>2
<1> HIDE DEF Fits
<1>7. Decode(h, d).ok <=> (\A i \in 1..n : Fits(d, i)) /\ Fits(d, n + 1)
  <2>1. 1..(n + 1) = (1..n) \cup {n + 1}
    BY <1>2
  <2> QED BY <1>2, <1>3, <2>1
<1>8. Decode(h, d).ok <=> Decode(h, c).ok /\ (x = Trail <=> Decode(h, c).held)
  BY <1>2, <1>3, <1>5, <1>6, <1>7
<1>9. Decode(h, d).held <=> x = Lead
  BY <1>2, <1>4
<1> QED BY <1>1, <1>4, <1>8, <1>9 DEF d

\* What the capture keeps between two chunks.
Between(used, left) == [used |-> used, left |-> left, cr |-> FALSE]

\* That the text ended with a CR is forgotten.
LEMMA AgreeBetween ==
  ASSUME NEW f, NEW h \in BOOLEAN, NEW t, Agree(f, h, t)
  PROVE  Agree(Between(f.used, f.left), h, t)
<1> DEFINE g == Between(f.used, f.left)
<1>1. f \in Feeds /\ Sound(t) /\ Mode(f, h, t) /\ Exact(f, t) /\ FromText(f, t)
  BY DEF Agree
<1>2. g \in Feeds /\ g.used = f.used /\ g.left = f.left /\ g.cr = FALSE
  BY <1>1 DEF Between, Feeds
<1>3. Pending(g) = Pending(f)
  BY <1>2 DEF Pending
<1> HIDE DEF g
<1>4. Mode(g, h, t)
  BY <1>1, <1>2 DEF Mode
<1>5. Exact(g, t) /\ FromText(g, t)
  BY <1>1, <1>2, <1>3 DEF Exact, Same, Early, FromText
<1>6. Agree(g, h, t)
  BY <1>1, <1>2, <1>4, <1>5 DEF Agree
<1> QED BY <1>6 DEF g

(***************************************************************************)
(* A chunk that the decoder accepts leaves the capture agreed with the     *)
(* reader of all that was read, wherever the chunk begins and ends.        *)
(***************************************************************************)
LEMMA AgreeChunk ==
  ASSUME NEW left, Drained(left), NEW used \in Counts, NEW h \in BOOLEAN, NEW s \in Seq(Octets),
         Agree(Between(used, left), h, Reader(s)),
         NEW c \in Seq(Octets), Decode(h, c).ok
  PROVE  Agree(Fed(left, used, c), Decode(h, c).held, Reader(s \o c))
<1> DEFINE Good(d) == Decode(h, d).ok => Agree(Fed(left, used, d), Decode(h, d).held, Reader(s \o d))
           S == {d \in Seq(Octets) : Good(d)}
<1>0. left \in Seq(Letters)
  BY DEF Drained
<1>1. Good(<<>>)
  <2>1. Fed(left, used, <<>>) = Between(used, left)
    BY FedNone DEF Between
  <2>2. Decode(h, <<>>).held = h
    BY DEF Decode
  <2>3. s \o <<>> = s
    OBVIOUS
  <2> QED BY <2>1, <2>2, <2>3
<1>2. ASSUME NEW d \in Seq(Octets), Good(d), NEW x \in Octets PROVE Good(Append(d, x))
  <2> SUFFICES ASSUME Decode(h, Append(d, x)).ok
               PROVE  Agree(Fed(left, used, Append(d, x)), Decode(h, Append(d, x)).held, Reader(s \o Append(d, x)))
    OBVIOUS
  <2> DEFINE f == Fed(left, used, d)
             k == Decode(h, d).held
             t == Reader(s \o d)
             dx == Append(d, x)
  <2>1. /\ Decode(h, d).ok /\ (x = Trail <=> k) /\ k \in BOOLEAN
        /\ (Decode(h, dx).held <=> x = Lead)
    BY DecodeSteps
  <2>2. Agree(f, k, t)
    BY <1>2, <2>1
  <2>3. Fed(left, used, dx) = FeedByte(f, x)
    BY <1>0, FedSteps
  <2>4. Reader(s \o dx) = ReadByte(t, x)
    <3>1. s \o dx = Append(s \o d, x) /\ s \o d \in Seq(Octets)
      BY ConcatAppend
    <3> HIDE DEF dx
    <3> QED BY <3>1, ReaderSteps
  <2>5. Decode(h, dx).held = (x = Lead)
    <3>1. Decode(h, dx).held \in BOOLEAN
      BY DEF Decode
    <3> QED BY <2>1, <3>1
  <2> HIDE DEF f, k, t
  <2>6. Agree(FeedByte(f, x), x = Lead, ReadByte(t, x))
    BY <2>1, <2>2, AgreeByte
  <2> QED BY <2>3, <2>4, <2>5, <2>6
<1> HIDE DEF Good
<1>3. S = Seq(Octets)
  <2>1. <<>> \in S
    BY <1>1
  <2>2. \A d \in S, y \in Octets : Append(d, y) \in S
    <3> SUFFICES ASSUME NEW d \in S, NEW y \in Octets PROVE Append(d, y) \in S
      OBVIOUS
    <3>1. Append(d, y) \in Seq(Octets) /\ Good(d) /\ d \in Seq(Octets)
      OBVIOUS
    <3> QED BY <1>2, <3>1
  <2>3. S \in SUBSET Seq(Octets)
    OBVIOUS
  <2> HIDE DEF S
  <2> QED BY <2>1, <2>2, <2>3, SeqInd
<1> QED BY <1>3 DEF Good

\* The text behind what was left, cut into events, and what those state.
Pieces(left, c) == Split(Normal(left \o Decoded(c)))
ToldBy(left, c) == {UsageIn(EventData(e)) : e \in ToSet(Pieces(left, c).events)}

\* A byte more is a letter more of the text, or none.
LEMMA PiecesByte ==
  ASSUME NEW left \in Seq(Letters), NEW c \in Seq(Octets), NEW x \in Octets
  PROVE  /\ Pieces(left, c) \in Splits
         /\ \/ Pieces(left, Append(c, x)) = Pieces(left, c)
            \/ \E b \in Letters : Pieces(left, Append(c, x)) = Cut(Pieces(left, c), b)
<1> DEFINE t == left \o Decoded(c)
           y == LetterOf[x]
           u == left \o Decoded(Append(c, x))
<1>1. /\ y \in Letters /\ Decoded(c) \in Seq(Letters)
      /\ Decoded(Append(c, x)) = IF x = Lead THEN Decoded(c) ELSE Append(Decoded(c), y)
  BY LetterMaps, DecodedSteps DEF Maps
<1>2. t \in Seq(Letters)
  BY <1>1
<1>3. u = IF x = Lead THEN t ELSE Append(t, y)
  <2> HIDE DEF y
  <2>1. left \o Append(Decoded(c), y) = Append(left \o Decoded(c), y)
    BY <1>1
  <2> QED BY <1>1, <2>1
<1>4. Pieces(left, c) = Split(Normal(t)) /\ Pieces(left, Append(c, x)) = Split(Normal(u))
  BY DEF Pieces
<1> HIDE DEF t, u, y
<1>5. Normal(t) \in Seq(Letters) /\ Split(Normal(t)) \in Splits
  BY <1>2, NormalSteps, SplitSteps
<1>6. CASE x = Lead
  BY <1>3, <1>4, <1>5, <1>6
<1>7. CASE x # Lead
  <2>1. Normal(u) = Normal(t) \/ Normal(u) = Append(Normal(t), LineEnd[y])
    BY <1>1, <1>2, <1>3, <1>7, NormalSteps
  <2>2. LineEnd[y] \in Letters
    BY <1>1, LetterMaps DEF Maps
  <2>3. Normal(u) = Append(Normal(t), LineEnd[y]) =>
          Split(Normal(u)) = Cut(Split(Normal(t)), LineEnd[y])
    BY <1>5, <2>2, SplitSteps
  <2> QED BY <1>4, <1>5, <2>1, <2>2, <2>3
<1> QED BY <1>6, <1>7

\* With a letter more, what was left is an event, or no event is over.
LEMMA HeardByte ==
  ASSUME NEW left \in Seq(Letters), NEW used \in Counts, NEW c \in Seq(Octets), NEW x \in Octets
  PROVE  ToldBy(left, Append(c, x)) \subseteq
           ToldBy(left, c) \cup {UsageOf(Pending(Fed(left, used, c)))}
<1> DEFINE p == Pieces(left, c)
           q == Pieces(left, Append(c, x))
           f == Fed(left, used, c)
<1>1. /\ p \in Splits
      /\ q = p \/ \E b \in Letters : q = Cut(p, b)
  BY PiecesByte
<1>2. f.left = p.left
  BY DEF Fed, Pieces
<1>3. ToldBy(left, c) = {UsageIn(EventData(e)) : e \in ToSet(p.events)}
      /\ ToldBy(left, Append(c, x)) = {UsageIn(EventData(e)) : e \in ToSet(q.events)}
  BY DEF ToldBy
<1> HIDE DEF p, q, f
<1>4. p.events \in Seq(Seq(Letters)) /\ p.left \in Seq(Letters)
  BY <1>1 DEF Splits
<1>5. ASSUME NEW e \in ToSet(q.events)
      PROVE  e \in ToSet(p.events) \/ UsageIn(EventData(e)) = UsageOf(Pending(f))
  <2>1. CASE q.events = p.events
    BY <1>5, <2>1
  <2>2. CASE q.events # p.events
    <3>1. PICK b \in Letters : q = Cut(p, b)
      BY <1>1, <2>2
    <3>2. EventEnds(p.left, b) /\ q.events = Append(p.events, Front(p.left))
      BY <2>2, <3>1 DEF Cut
    <3>3. p.left # <<>> /\ Last(p.left) = LF
      BY <3>2 DEF EventEnds
    <3>4. Front(p.left) \in Seq(Letters)
      BY <1>4, <3>3, FrontIs
    <3>5. EventData(Front(p.left)) = EventData(p.left)
      BY <1>4, <3>3, ScannedAre
    <3>6. e \in ToSet(p.events) \/ e = Front(p.left)
      <4> DEFINE E == p.events
                 l == Front(p.left)
      <4>1. E \in Seq(Seq(Letters)) /\ l \in Seq(Letters) /\ e \in ToSet(Append(E, l))
        BY <1>4, <1>5, <3>2, <3>4
      <4> HIDE DEF E, l
      <4>2. PICK i \in DOMAIN Append(E, l) : e = Append(E, l)[i]
        BY <4>1 DEF ToSet
      <4>3. i \in 1..(Len(E) + 1) /\ (i <= Len(E) => Append(E, l)[i] = E[i] /\ i \in DOMAIN E)
            /\ (i = Len(E) + 1 => Append(E, l)[i] = l) /\ Len(E) \in Nat
        BY <4>1
      <4>4. i <= Len(E) \/ i = Len(E) + 1
        BY <4>3
      <4>5. e \in ToSet(E) \/ e = l
        BY <4>2, <4>3, <4>4 DEF ToSet
      <4> QED BY <4>5 DEF E, l
    <3> QED BY <1>2, <3>5, <3>6 DEF UsageIn, Pending
  <2> QED BY <2>1, <2>2
<1> QED BY <1>3, <1>5 DEF f

\* What a reader saw stays seen.
LEMMA CouldGrows ==
  ASSUME NEW s \in Seq(Octets), NEW c \in Seq(Octets)
  PROVE  Reader(s).could \subseteq Reader(s \o c).could
<1> DEFINE S == {d \in Seq(Octets) : Reader(s).could \subseteq Reader(s \o d).could}
<1>1. <<>> \in S
  <2>1. s \o <<>> = s /\ <<>> \in Seq(Octets)
    OBVIOUS
  <2> QED BY <2>1
<1>2. ASSUME NEW d \in S, NEW x \in Octets PROVE Append(d, x) \in S
  <2> DEFINE t == Reader(s \o d)
  <2>1. d \in Seq(Octets) /\ Append(d, x) \in Seq(Octets) /\ s \o d \in Seq(Octets)
        /\ s \o Append(d, x) = Append(s \o d, x)
    BY ConcatAppend
  <2>2. Sound(t) /\ Reader(s \o Append(d, x)) = ReadByte(t, x)
    BY <2>1, ReaderSteps
  <2>3. Reader(s).could \subseteq t.could
    OBVIOUS
  <2> HIDE DEF t, S
  <2>4. t.could \subseteq ReadByte(t, x).could
    BY <2>2, ReadGrows
  <2> QED BY <2>1, <2>2, <2>3, <2>4 DEF S
<1>3. S = Seq(Octets)
  <2>1. S \in SUBSET Seq(Octets)
    OBVIOUS
  <2> HIDE DEF S
  <2> QED BY <1>1, <1>2, <2>1, SeqInd
<1> QED BY <1>3

(***************************************************************************)
(* What the events state that a chunk completes was in the response,       *)
(* wherever the chunk begins and ends.                                     *)
(***************************************************************************)
LEMMA HeardFromText ==
  ASSUME NEW left, Drained(left), NEW used \in Counts, NEW h \in BOOLEAN, NEW s \in Seq(Octets),
         Agree(Between(used, left), h, Reader(s)),
         NEW c \in Seq(Octets), Decode(h, c).ok
  PROVE  ToldBy(left, c) \subseteq Reader(s \o c).could \cup {NoUsage}
<1> DEFINE Good(d) == Decode(h, d).ok => ToldBy(left, d) \subseteq Reader(s \o d).could \cup {NoUsage}
           S == {d \in Seq(Octets) : Good(d)}
<1>0. left \in Seq(Letters)
  BY DEF Drained
<1>1. Good(<<>>)
  <2>1. left \o Decoded(<<>>) = left
    BY DecodedSteps DEF Drained
  <2>2. Pieces(left, <<>>).events = <<>>
    <3>1. Normal(left) = left /\ Split(left) = [events |-> <<>>, left |-> left]
      BY DEF Drained
    <3>2. Pieces(left, <<>>) = [events |-> <<>>, left |-> left]
      BY <2>1, <3>1 DEF Pieces
    <3> QED BY <3>2
  <2>3. ToSet(<<>>) = {}
    BY DEF ToSet
  <2>4. ToldBy(left, <<>>) = {}
    BY <2>2, <2>3 DEF ToldBy
  <2> QED BY <2>4
<1>2. ASSUME NEW d \in Seq(Octets), Good(d), NEW x \in Octets PROVE Good(Append(d, x))
  <2> SUFFICES ASSUME Decode(h, Append(d, x)).ok
               PROVE  ToldBy(left, Append(d, x)) \subseteq Reader(s \o Append(d, x)).could \cup {NoUsage}
    OBVIOUS
  <2> DEFINE f == Fed(left, used, d)
             t == Reader(s \o d)
  <2>1. Decode(h, d).ok
    BY DecodeSteps
  <2>2. ToldBy(left, d) \subseteq t.could \cup {NoUsage}
    BY <1>2, <2>1
  <2>3. Agree(f, Decode(h, d).held, t)
    BY <2>1, AgreeChunk
  <2>4. ToldBy(left, Append(d, x)) \subseteq ToldBy(left, d) \cup {UsageOf(Pending(f))}
    BY <1>0, HeardByte
  <2>5. t.could \subseteq Reader(s \o Append(d, x)).could
    <3>1. s \o Append(d, x) = Append(s \o d, x) /\ s \o d \in Seq(Octets)
      BY ConcatAppend
    <3>2. Sound(t) /\ Reader(Append(s \o d, x)) = ReadByte(t, x)
      BY <3>1, ReaderSteps
    <3> HIDE DEF t
    <3>3. t.could \subseteq ReadByte(t, x).could
      BY <3>2, ReadGrows
    <3> QED BY <3>1, <3>2, <3>3
  <2> HIDE DEF f, t
  <2>6. UsageOf(Pending(f)) \in t.could \cup {NoUsage}
    BY <2>3 DEF Agree, FromText, Sound
  <2> QED BY <2>2, <2>4, <2>5, <2>6
<1> HIDE DEF Good
<1>3. S = Seq(Octets)
  <2>1. <<>> \in S
    BY <1>1
  <2>2. \A d \in S, y \in Octets : Append(d, y) \in S
    <3> SUFFICES ASSUME NEW d \in S, NEW y \in Octets PROVE Append(d, y) \in S
      OBVIOUS
    <3>1. Append(d, y) \in Seq(Octets) /\ Good(d) /\ d \in Seq(Octets)
      OBVIOUS
    <3> QED BY <1>2, <3>1
  <2>3. S \in SUBSET Seq(Octets)
    OBVIOUS
  <2> HIDE DEF S
  <2> QED BY <2>1, <2>2, <2>3, SeqInd
<1> QED BY <1>3 DEF Good

\* What the capture reports when all was read.
LEMMA AgreeLast ==
  ASSUME NEW left, NEW used, NEW h, NEW t, Agree(Between(used, left), h, t)
  PROVE  LET last == Apply(used, left)
         IN /\ last \in Counts
            /\ (t.pair /\ t.twice) \/ last = Over(UsageOf(t.parts), t.used)
            /\ \A k \in Keys : last[k] = 0 \/ \E u \in t.could : k \in DOMAIN u /\ u[k] = last[k]
<1> DEFINE f == Between(used, left)
           last == Apply(used, left)
<1>1. f \in Feeds /\ Sound(t) /\ Exact(f, t) /\ FromText(f, t)
  BY DEF Agree
<1>2. f.used = used /\ f.left = left
  BY DEF Between
<1>3. used \in Counts /\ left \in Seq(Letters)
  BY <1>1, <1>2 DEF Feeds
<1>4. last = Over(UsageOf(Pending(f)), f.used)
  BY <1>2 DEF Apply, UsageIn, Pending
<1>5. last \in Counts
  BY <1>3, ApplyStep
<1> HIDE DEF f, last
<1>6. \A k \in Keys : last[k] = 0 \/ \E u \in t.could : k \in DOMAIN u /\ u[k] = last[k]
  BY <1>1, <1>4, OverFromText
<1>7. CASE t.pair /\ t.twice
  BY <1>5, <1>6, <1>7 DEF last
<1>8. CASE Same(f, t)
  <2>1. last = Over(UsageOf(t.parts), t.used)
    BY <1>4, <1>8 DEF Same
  <2> QED BY <1>5, <1>6, <2>1 DEF last
<1>9. CASE Early(f, t)
  <2>1. Pending(f) = <<>> /\ f.used = Over(UsageOf(t.parts), t.used)
    BY <1>9 DEF Early
  <2>2. Over(NoUsage, used) = used
    BY <1>3, UsageAgain
  <2>3. last = Over(UsageOf(t.parts), t.used)
    BY <1>2, <1>4, <2>1, <2>2, UsageOfNone
  <2> QED BY <1>5, <1>6, <2>3 DEF last
<1> QED BY <1>1, <1>7, <1>8, <1>9 DEF Exact

---------------------------------------------------------------------------
(* What a response states, line by line.                                   *)

\* What a line of data says; a line with its end; the lines of an event with theirs.
Tails == [l \in Lines |-> Tail(l)]
Ended(eol) == [l \in Lines |-> l \o eol]
BodyBytes(lines, eol) == Flat(Ended(eol), lines)

\* The ends of a line of text.
Eols == {<<LF>>, <<CR>>, <<CR, LF>>}

\* What a line is: a first letter, and what comes behind it.
LEMMA LineIs ==
  ASSUME NEW l \in Lines
  PROVE  /\ l \in Seq(Alphabet) /\ l \in Seq(Octets) /\ l[1] \in Alphabet
         /\ Tail(l) \in Seq(Alphabet) /\ l = <<l[1]>> \o Tail(l)
<1>1. l \in Seq(Alphabet) /\ l # <<>>
  BY DEF Lines
<1>2. Alphabet \subseteq Octets
  BY LettersAre
<1>3. l \in Seq(Octets)
  BY <1>1, <1>2
<1>4. l[1] \in Alphabet /\ Tail(l) \in Seq(Alphabet) /\ l = <<l[1]>> \o Tail(l)
  BY <1>1
<1> QED BY <1>1, <1>3, <1>4

\* What follows the first letter of a line is text.
LEMMA TailMaps == Maps(Tails, Lines, Seq(Alphabet))
BY LineIs DEF Tails, Maps

\* The lines of data of no line, and of a line more.
LEMMA DataLinesSteps ==
  /\ DataLines(<<>>) = <<>>
  /\ \A ls \in Seq(Lines) : DataLines(ls) \in Seq(Lines)
  /\ \A ls \in Seq(Lines), l \in Lines :
       DataLines(Append(ls, l)) = IF l[1] = Data THEN Append(DataLines(ls), l) ELSE DataLines(ls)
<1> DEFINE S == {l \in Lines : l[1] = Data}
<1>1. ASSUME NEW ls \in Seq(Lines)
      PROVE  DataLines(ls) = Only(ls, S)
  <2> DEFINE P == {i \in DOMAIN ls : ls[i][1] = Data}
  <2>1. \A i \in DOMAIN ls : ls[i] \in Lines
    OBVIOUS
  <2>2. \A i \in DOMAIN ls : i \in P <=> ls[i] \in S
    BY <2>1
  <2>3. DataLines(ls) = At(ls, P)
    BY DEF DataLines
  <2> HIDE DEF P, S
  <2>4. At(ls, P) = Only(ls, S)
    BY <2>2, OnlyIs
  <2> QED BY <2>3, <2>4
<1>2. DataLines(<<>>) = <<>>
  <2>1. <<>> \in Seq(Lines)
    OBVIOUS
  <2> HIDE DEF S
  <2> QED BY <2>1, <1>1, OnlyNone
<1>3. ASSUME NEW ls \in Seq(Lines), NEW l \in Lines
      PROVE  DataLines(Append(ls, l)) = IF l[1] = Data THEN Append(DataLines(ls), l) ELSE DataLines(ls)
  <2>1. Append(ls, l) \in Seq(Lines)
    OBVIOUS
  <2>2. l \in S <=> l[1] = Data
    OBVIOUS
  <2> HIDE DEF S
  <2>3. Only(Append(ls, l), S) = IF l \in S THEN Append(Only(ls, S), l) ELSE Only(ls, S)
    BY OnlyAppend
  <2> QED BY <1>1, <2>1, <2>2, <2>3
<1>4. \A ls \in Seq(Lines) : DataLines(ls) \in Seq(Lines)
  <2> HIDE DEF S
  <2> QED BY <1>1, OnlyType
<1> QED BY <1>2, <1>3, <1>4

\* What no line says, and what a line more says.
LEMMA SaidSteps ==
  /\ Said(<<>>) = <<>>
  /\ \A ls \in Seq(Lines) : Said(ls) \in Seq(Alphabet)
  /\ \A ls \in Seq(Lines), l \in Lines :
       Said(Append(ls, l)) = IF l[1] = Data THEN Said(ls) \o Tail(l) ELSE Said(ls)
<1>1. ASSUME NEW ls \in Seq(Lines)
      PROVE  Said(ls) = Flat(Tails, DataLines(ls))
  <2> DEFINE d == DataLines(ls)
  <2>1. Said(ls) = FlattenSeq([i \in DOMAIN d |-> Tail(d[i])])
    BY DEF Said
  <2>2. d \in Seq(Lines)
    BY DataLinesSteps
  <2> HIDE DEF d
  <2>3. \A i \in DOMAIN d : d[i] \in Lines
    BY <2>2
  <2>4. [i \in DOMAIN d |-> Tail(d[i])] = [i \in DOMAIN d |-> Tails[d[i]]]
    BY <2>3 DEF Tails
  <2> QED BY <2>1, <2>4 DEF Flat, Each, d
<1>2. Said(<<>>) = <<>>
  <2>1. <<>> \in Seq(Lines)
    OBVIOUS
  <2> QED BY <1>1, <2>1, DataLinesSteps, FlatNone
<1>3. \A ls \in Seq(Lines) : Said(ls) \in Seq(Alphabet)
  BY <1>1, DataLinesSteps, TailMaps, FlatType
<1>4. ASSUME NEW ls \in Seq(Lines), NEW l \in Lines
      PROVE  Said(Append(ls, l)) = IF l[1] = Data THEN Said(ls) \o Tail(l) ELSE Said(ls)
  <2> DEFINE d == DataLines(ls)
             e == DataLines(Append(ls, l))
  <2>1. Append(ls, l) \in Seq(Lines)
    OBVIOUS
  <2>2. d \in Seq(Lines) /\ e = IF l[1] = Data THEN Append(d, l) ELSE d
    BY DataLinesSteps
  <2>3. Said(Append(ls, l)) = Flat(Tails, e) /\ Said(ls) = Flat(Tails, d)
    BY <1>1, <2>1
  <2> HIDE DEF d, e
  <2>4. Flat(Tails, Append(d, l)) = Flat(Tails, d) \o Tails[l]
    BY <2>2, TailMaps, FlatAppend
  <2>5. Tails[l] = Tail(l)
    BY DEF Tails
  <2> QED BY <2>2, <2>3, <2>4, <2>5
<1> QED BY <1>2, <1>3, <1>4

\* The parts of a text in two pieces.
LEMMA PartsConcat ==
  ASSUME NEW s \in Seq(Letters), NEW t \in Seq(Letters)
  PROVE  Parts(s \o t) = Parts(s) \o Parts(t) /\ Parts(s) \in Seq(Letters) /\ Parts(t) \in Seq(Letters)
<1>1. s \o t \in Seq(Letters)
  OBVIOUS
<1>2. Parts(s \o t) = Only(s \o t, Telling) /\ Parts(s) = Only(s, Telling) /\ Parts(t) = Only(t, Telling)
  BY <1>1, PartsAre
<1>3. Only(s \o t, Telling) = Only(s, Telling) \o Only(t, Telling)
  BY OnlyConcat
<1> QED BY <1>2, <1>3, PartsAre

\* The parts of what a line more says.
LEMMA SaidParts ==
  ASSUME NEW ls \in Seq(Lines), NEW l \in Lines
  PROVE  /\ Parts(Said(ls)) \in Seq(Letters) /\ Parts(Tail(l)) \in Seq(Letters) /\ Tail(l) \in Seq(Letters)
         /\ Parts(Said(Append(ls, l))) =
              IF l[1] = Data THEN Parts(Said(ls)) \o Parts(Tail(l)) ELSE Parts(Said(ls))
<1>1. Said(ls) \in Seq(Alphabet) /\ Tail(l) \in Seq(Alphabet)
  BY SaidSteps, LineIs
<1>2. Alphabet \subseteq Letters
  BY LettersAre
<1>3. Said(ls) \in Seq(Letters) /\ Tail(l) \in Seq(Letters)
  BY <1>1, <1>2
<1>4. /\ Parts(Said(ls) \o Tail(l)) = Parts(Said(ls)) \o Parts(Tail(l))
      /\ Parts(Said(ls)) \in Seq(Letters) /\ Parts(Tail(l)) \in Seq(Letters)
  BY <1>3, PartsConcat
<1>5. Said(Append(ls, l)) = IF l[1] = Data THEN Said(ls) \o Tail(l) ELSE Said(ls)
  BY SaidSteps
<1> QED BY <1>3, <1>4, <1>5

\* All that runs of the parts of a text state.
Runs(p) == {UsageOf(q) : q \in {q \in Seq(Letters) :
                                  \E w \in Seq(Letters), z \in Seq(Letters) : p = (w \o q) \o z}}

\* An end of a text is a run of it, and a longer text has the runs of a shorter one.
LEMMA RunsMore ==
  ASSUME NEW p \in Seq(Letters)
  PROVE  /\ Ending(p) \subseteq Runs(p)
         /\ \A z \in Seq(Letters) : Runs(p) \subseteq Runs(p \o z)
<1>1. ASSUME NEW u \in Ending(p) PROVE u \in Runs(p)
  <2>1. PICK q \in Endings(p) : u = UsageOf(q)
    BY DEF Ending
  <2>2. q \in Seq(Letters) /\ \E w \in Seq(Letters) : p = w \o q
    BY <2>1 DEF Endings
  <2>3. PICK w \in Seq(Letters) : p = w \o q
    BY <2>2
  <2>4. <<>> \in Seq(Letters) /\ p = (w \o q) \o <<>>
    BY <2>3, ConcatNone
  <2> QED BY <2>1, <2>2, <2>4 DEF Runs
<1>2. ASSUME NEW z \in Seq(Letters), NEW u \in Runs(p) PROVE u \in Runs(p \o z)
  <2>1. PICK q \in Seq(Letters) : u = UsageOf(q) /\ \E w \in Seq(Letters), y \in Seq(Letters) : p = (w \o q) \o y
    BY DEF Runs
  <2>2. PICK w \in Seq(Letters), y \in Seq(Letters) : p = (w \o q) \o y
    BY <2>1
  <2>3. y \o z \in Seq(Letters) /\ p \o z = (w \o q) \o (y \o z)
    <3> DEFINE v == w \o q
    <3>1. v \in Seq(Letters) /\ y \o z \in Seq(Letters)
      OBVIOUS
    <3> HIDE DEF v
    <3>2. \A a \in Seq(Letters) : (a \o y) \o z = a \o (y \o z)
      BY InPieces, SMTT(30)
    <3>3. (v \o y) \o z = v \o (y \o z)
      BY ONLY <3>1, <3>2
    <3> QED BY <2>2, <3>1, <3>3 DEF v
  <2> QED BY <2>1, <2>3 DEF Runs
<1> QED BY <1>1, <1>2

---------------------------------------------------------------------------
(* The reader over the bytes of a response.                                *)

\* A reader of a stream with this line end.
OfEol(t, eol) == (t.cr => eol = <<CR>>) /\ (t.pair => eol = <<CR, LF>>)

(***************************************************************************)
(* What a reader r has that had t before the lines of an event: nothing of *)
(* the event counts before it is over.                                     *)
(***************************************************************************)
InEvent(t, r, lines, eol) ==
  /\ r.used = t.used
  /\ r.parts = Parts(Said(lines))
  /\ r.could \subseteq t.could \cup Runs(Parts(Said(lines)))
  /\ r.one <=> DataLines(lines) # <<>>
  /\ r.twice <=> t.twice \/ ~OneLine(lines)
  /\ OfEol(r, eol)

\* The rest of a line, behind its first letter.
LEMMA RestIsRead ==
  ASSUME NEW s \in Seq(Octets), ~Reader(s).fresh, ~Reader(s).cr, NEW m \in Seq(Alphabet)
  PROVE  LET t == Reader(s)
             r == Reader(s \o m)
             p == IF t.inside THEN t.parts \o Parts(m) ELSE t.parts
         IN /\ r.used = t.used /\ r.parts = p /\ r.could \subseteq t.could \cup Runs(p)
            /\ r.fresh = FALSE /\ r.inside = t.inside /\ r.one = t.one /\ r.twice = t.twice
            /\ r.cr = FALSE /\ r.pair = t.pair
<1> DEFINE t == Reader(s)
           P(n) == IF t.inside THEN t.parts \o Parts(n) ELSE t.parts
           Good(n) ==
             LET r == Reader(s \o n)
             IN /\ r.used = t.used /\ r.parts = P(n) /\ r.could \subseteq t.could \cup Runs(P(n))
                /\ r.fresh = FALSE /\ r.inside = t.inside /\ r.one = t.one /\ r.twice = t.twice
                /\ r.cr = FALSE /\ r.pair = t.pair
           S == {n \in Seq(Alphabet) : Good(n)}
<1>0. t \in Readers /\ Sound(t) /\ t.parts \in Seq(Letters) /\ ~t.fresh /\ ~t.cr
      /\ t.fresh \in BOOLEAN /\ t.cr \in BOOLEAN
  <2>1. Sound(t)
    BY ReaderSteps
  <2> HIDE DEF t
  <2>2. t \in Readers /\ t.parts \in Seq(Letters) /\ t.fresh \in BOOLEAN /\ t.cr \in BOOLEAN
    BY <2>1 DEF Sound, Readers
  <2> QED BY <2>1, <2>2 DEF t
<1>a. \A n \in Seq(Alphabet) : n \in Seq(Octets) /\ n \in Seq(Letters) /\ s \o n \in Seq(Octets)
  <2>1. Alphabet \subseteq Octets /\ Octets \subseteq Letters
    BY LettersAre
  <2>2. Seq(Alphabet) \subseteq Seq(Octets) /\ Seq(Octets) \subseteq Seq(Letters)
    BY <2>1
  <2> QED BY <2>2
<1>1. Good(<<>>)
  <2>1. s \o <<>> = s
    OBVIOUS
  <2>2. P(<<>>) = t.parts
    <3>1. t.parts \o <<>> = t.parts
      BY <1>0, ConcatNone
    <3> HIDE DEF t
    <3> QED BY <3>1, PartsNone
  <2>3. Reader(s \o <<>>) = t
    BY <2>1
  <2> HIDE DEF t, P
  <2>4. t.fresh = FALSE /\ t.cr = FALSE
    BY <1>0
  <2> QED BY <2>2, <2>3, <2>4
<1>2. ASSUME NEW n \in Seq(Alphabet), Good(n), NEW x \in Alphabet PROVE Good(Append(n, x))
  <2> DEFINE r == Reader(s \o n)
             u == Reader(s \o Append(n, x))
  <2>1. x \in Octets /\ x \in Letters /\ x # CR /\ x # LF /\ n \in Seq(Letters)
    BY <1>a, LettersAre, LettersDiffer
  <2>2. u = ReadByte(r, x)
    <3>1. s \o n \in Seq(Octets) /\ n \in Seq(Octets)
      BY <1>a
    <3>2. s \o Append(n, x) = Append(s \o n, x)
      BY <2>1, <3>1, ConcatAppend
    <3> QED BY <2>1, <3>1, <3>2, ReaderSteps
  <2>3. /\ r.used = t.used /\ r.parts = P(n) /\ r.could \subseteq t.could \cup Runs(P(n))
        /\ r.fresh = FALSE /\ r.inside = t.inside /\ r.one = t.one /\ r.twice = t.twice
        /\ r.cr = FALSE /\ r.pair = t.pair
    BY <1>2
  <2>4. r \in Readers /\ r.parts \in Seq(Letters)
    <3>1. Sound(r)
      BY <1>a, ReaderSteps
    <3> HIDE DEF r
    <3> QED BY <3>1 DEF Sound, Readers
  <2>5. Parts(Append(n, x)) = (IF x \in Telling THEN Append(Parts(n), x) ELSE Parts(n)) /\ Parts(n) \in Seq(Letters)
    BY <2>1, PartsAppend, PartsAre
  <2> HIDE DEF r, u
  <2>6. CASE t.inside /\ x \in Telling
    <3> DEFINE p == Append(P(n), x)
    <3>1. u = DataComes(r, x)
      BY <2>1, <2>2, <2>3, <2>6 DEF ReadByte
    <3>2. /\ u.used = r.used /\ u.parts = p /\ u.could = r.could \cup Ending(p)
          /\ u.fresh = r.fresh /\ u.inside = r.inside /\ u.one = r.one
          /\ u.twice = r.twice /\ u.cr = r.cr /\ u.pair = r.pair
      <4>1. /\ u.used = r.used /\ u.parts = Append(r.parts, x) /\ u.could = r.could \cup Ending(Append(r.parts, x))
            /\ u.fresh = r.fresh /\ u.inside = r.inside /\ u.one = r.one
            /\ u.twice = r.twice /\ u.cr = r.cr /\ u.pair = r.pair
        BY <2>1, <2>4, <3>1, DataComesIs
      <4>2. r.parts = P(n)
        BY <2>3
      <4> HIDE DEF P
      <4> QED BY <4>1, <4>2
    <3>3. P(Append(n, x)) = p
      <4>1. t.parts \o Append(Parts(n), x) = Append(t.parts \o Parts(n), x)
        <5> DEFINE v == t.parts
                   w == Parts(n)
        <5>1. v \in Seq(Letters) /\ w \in Seq(Letters) /\ x \in Letters
          BY <1>0, <2>1, <2>5
        <5> HIDE DEF v, w
        <5>2. v \o Append(w, x) = Append(v \o w, x)
          BY <5>1, ConcatAppend
        <5> QED BY <5>2 DEF v, w
      <4> HIDE DEF t
      <4> QED BY <2>5, <2>6, <4>1
    <3>4. p \in Seq(Letters) /\ Ending(p) \subseteq Runs(p) /\ Runs(P(n)) \subseteq Runs(p)
      <4>1. P(n) \in Seq(Letters)
        BY <2>3, <2>4
      <4> HIDE DEF P
      <4>2. p \in Seq(Letters) /\ <<x>> \in Seq(Letters) /\ p = P(n) \o <<x>>
        BY <2>1, <4>1, ConcatAppend
      <4> HIDE DEF p
      <4> QED BY <4>1, <4>2, RunsMore
    <3> HIDE DEF p, P, t
    <3> QED BY <2>3, <3>2, <3>3, <3>4 DEF u
  <2>7. CASE ~(t.inside /\ x \in Telling)
    <3>1. u = r
      BY <2>1, <2>2, <2>3, <2>7 DEF ReadByte
    <3>2. P(Append(n, x)) = P(n)
      <4> HIDE DEF t
      <4> QED BY <2>5, <2>7
    <3> HIDE DEF P, t
    <3> QED BY <2>3, <3>1, <3>2 DEF u
  <2> QED BY <2>6, <2>7
<1> HIDE DEF Good
<1>3. S = Seq(Alphabet)
  <2>1. <<>> \in S
    BY <1>1
  <2>2. \A d \in S, y \in Alphabet : Append(d, y) \in S
    <3> SUFFICES ASSUME NEW d \in S, NEW y \in Alphabet PROVE Append(d, y) \in S
      OBVIOUS
    <3>1. Append(d, y) \in Seq(Alphabet) /\ Good(d) /\ d \in Seq(Alphabet)
      OBVIOUS
    <3> QED BY <1>2, <3>1
  <2>3. S \in SUBSET Seq(Alphabet)
    OBVIOUS
  <2> HIDE DEF S
  <2> QED BY <2>1, <2>2, <2>3, SeqInd
<1> QED BY <1>3 DEF Good

\* A line, where one begins.
LEMMA LineIsRead ==
  ASSUME NEW t, NEW s \in Seq(Octets), NEW lines \in Seq(Lines), NEW eol,
         InEvent(t, Reader(s), lines, eol), Reader(s).fresh, NEW l \in Lines
  PROVE  InEvent(t, Reader(s \o l), Append(lines, l), eol) /\ ~Reader(s \o l).fresh
<1> DEFINE a == Reader(s)
           x == l[1]
           m == Tail(l)
           b == Reader(Append(s, x))
           r == Reader(s \o l)
<1>0. Sound(a) /\ a \in Readers /\ a.fresh
  BY ReaderSteps DEF Sound
<1>1. x \in Alphabet /\ x \in Octets /\ x # CR /\ x # LF /\ m \in Seq(Alphabet) /\ m \in Seq(Octets)
  <2>1. x \in Alphabet /\ m \in Seq(Alphabet)
    BY LineIs
  <2>2. Alphabet \subseteq Octets
    BY LettersAre
  <2> HIDE DEF x, m
  <2> QED BY <2>1, <2>2, LettersDiffer
<1>2. s \o l = Append(s, x) \o m /\ Append(s, x) \in Seq(Octets)
  <2>1. l = <<x>> \o m
    BY LineIs
  <2> HIDE DEF x, m
  <2>2. <<x>> \in Seq(Octets) /\ Append(s, x) \in Seq(Octets) /\ Append(s, x) = s \o <<x>>
    BY <1>1, ConcatAppend
  <2>3. (s \o <<x>>) \o m = s \o (<<x>> \o m)
    BY <1>1, <2>2, ConcatConcat
  <2> QED BY <2>1, <2>2, <2>3
<1>3. b = LineBegins(a, x)
  <2>1. b = ReadByte(a, x)
    BY <1>1, ReaderSteps
  <2> HIDE DEF a, b, x
  <2> QED BY <1>0, <1>1, <2>1 DEF ReadByte
<1>4. /\ b.used = a.used /\ b.parts = a.parts /\ b.could = a.could
      /\ b.fresh = FALSE /\ (b.inside <=> x = Data) /\ (b.one <=> a.one \/ x = Data)
      /\ (b.twice <=> a.twice \/ (a.one /\ x = Data)) /\ b.cr = FALSE /\ b.pair = a.pair
  <2> HIDE DEF a, b, x
  <2> QED BY <1>0, <1>3, LineBeginsIs
<1> DEFINE p == IF b.inside THEN b.parts \o Parts(m) ELSE b.parts
<1>5. /\ r.used = b.used /\ r.parts = p /\ r.could \subseteq b.could \cup Runs(p)
      /\ r.fresh = FALSE /\ r.one = b.one /\ r.twice = b.twice /\ r.cr = FALSE /\ r.pair = b.pair
  <2>1. ~b.fresh /\ ~b.cr
    BY <1>4
  <2> DEFINE s2 == Append(s, x)
  <2>2. s2 \in Seq(Octets) /\ b = Reader(s2) /\ r = Reader(s2 \o m)
    BY <1>2
  <2> DEFINE q == Reader(s2)
             z == IF q.inside THEN q.parts \o Parts(m) ELSE q.parts
  <2> HIDE DEF s2, b, r, m, x
  <2>3. ~Reader(s2).fresh /\ ~Reader(s2).cr /\ m \in Seq(Alphabet)
    BY <1>1, <2>1, <2>2
  <2>4. /\ Reader(s2 \o m).used = q.used /\ Reader(s2 \o m).parts = z
        /\ Reader(s2 \o m).could \subseteq q.could \cup Runs(z)
        /\ Reader(s2 \o m).fresh = FALSE /\ Reader(s2 \o m).one = q.one
        /\ Reader(s2 \o m).twice = q.twice /\ Reader(s2 \o m).cr = FALSE /\ Reader(s2 \o m).pair = q.pair
    BY <2>2, <2>3, RestIsRead
  <2>5. q = b /\ z = p /\ Reader(s2 \o m) = r
    BY <2>2
  <2> HIDE DEF q, z, p
  <2> QED BY <2>4, <2>5
<1> DEFINE more == Append(lines, l)
<1>6. /\ Parts(Said(lines)) \in Seq(Letters) /\ Parts(m) \in Seq(Letters)
      /\ Parts(Said(more)) = IF x = Data THEN Parts(Said(lines)) \o Parts(m) ELSE Parts(Said(lines))
      /\ DataLines(more) = IF x = Data THEN Append(DataLines(lines), l) ELSE DataLines(lines)
      /\ DataLines(lines) \in Seq(Lines)
  BY SaidParts, DataLinesSteps
<1>7. /\ a.used = t.used /\ a.parts = Parts(Said(lines)) /\ a.could \subseteq t.could \cup Runs(Parts(Said(lines)))
      /\ (a.one <=> DataLines(lines) # <<>>) /\ (a.twice <=> t.twice \/ ~OneLine(lines))
      /\ (a.cr => eol = <<CR>>) /\ (a.pair => eol = <<CR, LF>>)
  BY DEF InEvent, OfEol
<1>8. /\ x = Data => DataLines(more) # <<>> /\ (~OneLine(more) <=> DataLines(lines) # <<>>)
      /\ x # Data => (OneLine(more) <=> OneLine(lines))
      /\ ~OneLine(lines) => DataLines(lines) # <<>>
  <2> DEFINE d == DataLines(lines)
  <2>0. d \in Seq(Lines)
    BY <1>6
  <2> HIDE DEF d, x
  <2>1. Len(d) \in Nat /\ (Len(d) = 0 <=> d = <<>>) /\ Len(Append(d, l)) = Len(d) + 1 /\ Append(d, l) # <<>>
    BY ONLY <2>0, l \in Lines
  <2> QED BY <1>6, <2>1 DEF OneLine, d
<1> HIDE DEF a, b, r, m, x, more
<1>9. p = Parts(Said(more))
  BY <1>4, <1>6, <1>7
<1>10. Runs(Parts(Said(lines))) \subseteq Runs(p)
  <2>1. Runs(Parts(Said(lines))) \subseteq Runs(Parts(Said(lines)) \o Parts(m))
    BY <1>6, RunsMore
  <2> QED BY <1>6, <1>9, <2>1
<1> HIDE DEF p
<1>11. r.could \subseteq t.could \cup Runs(Parts(Said(more)))
  BY <1>4, <1>5, <1>7, <1>9, <1>10
<1>12. (r.one <=> DataLines(more) # <<>>) /\ (r.twice <=> t.twice \/ ~OneLine(more))
  <2>1. CASE x = Data
    BY <1>4, <1>5, <1>7, <1>8, <2>1
  <2>2. CASE x # Data
    BY <1>4, <1>5, <1>6, <1>7, <1>8, <2>2
  <2> QED BY <2>1, <2>2
<1>13. InEvent(t, r, more, eol) /\ ~r.fresh
  BY <1>4, <1>5, <1>7, <1>9, <1>11, <1>12 DEF InEvent, OfEol
<1> QED BY <1>13 DEF r, more

\* The end of a line that has something, and of one that has nothing.
LEMMA EolIsRead ==
  ASSUME NEW s \in Seq(Octets), NEW eol \in Eols, OfEol(Reader(s), eol)
  PROVE  LET t == Reader(s)
             r == Reader(s \o eol)
         IN /\ s \o eol \in Seq(Octets)
            /\ OfEol(r, eol) /\ r.fresh /\ r.could = t.could /\ r.twice = t.twice
            /\ ~t.fresh => r.used = t.used /\ r.parts = t.parts /\ r.one = t.one
            /\ t.fresh => r.used = Over(UsageOf(t.parts), t.used) /\ r.parts = <<>> /\ ~r.one
<1> DEFINE t == Reader(s)
           r == Reader(s \o eol)
<1>t. t = Reader(s)
  OBVIOUS
<1>r. r = Reader(s \o eol)
  OBVIOUS
<1>0. t \in Readers /\ (t.cr => t.fresh) /\ (t.cr => eol = <<CR>>) /\ (t.pair => eol = <<CR, LF>>)
  BY ReaderSteps DEF Sound, OfEol
<1> HIDE DEF t, r
<1>e. \/ eol = <<LF>> \/ eol = <<CR>> \/ eol = <<CR, LF>>
  BY DEF Eols
<1>d. <<LF>> # <<CR>> /\ <<CR>> # <<CR, LF>> /\ <<LF>> # <<CR, LF>> /\ CR # LF
  <2>1. <<LF>>[1] = LF /\ <<CR>>[1] = CR /\ Len(<<CR>>) = 1 /\ Len(<<LF>>) = 1 /\ Len(<<CR, LF>>) = 2
    OBVIOUS
  <2> QED BY <2>1, LettersDiffer
\* One byte of a line end that goes with nothing before it.
<1>1. ASSUME NEW x \in {CR, LF}, ~(x = LF /\ t.cr), NEW b, b = Reader(Append(s, x))
      PROVE  /\ b \in Readers /\ b.fresh /\ b.could = t.could /\ b.twice = t.twice
             /\ b.pair = t.pair /\ (b.cr <=> x = CR)
             /\ ~t.fresh => b.used = t.used /\ b.parts = t.parts /\ b.one = t.one
             /\ t.fresh => b.used = Over(UsageOf(t.parts), t.used) /\ b.parts = <<>> /\ ~b.one
  <2>1. x \in Octets /\ (x = CR) \in BOOLEAN
    BY LettersAre
  <2>2. b = ReadByte(t, x)
    BY <1>1, <1>t, <2>1, ReaderSteps
  <2>3. CASE t.fresh
    <3>1. b = EventOver(t, x = CR)
      BY <1>1, <2>2, <2>3 DEF ReadByte
    <3> QED BY <1>0, <2>1, <2>3, <3>1, EventOverIs
  <2>4. CASE ~t.fresh
    <3>1. b = LineOver(t, x = CR)
      BY <1>1, <2>2, <2>4 DEF ReadByte
    <3> QED BY <1>0, <2>1, <2>4, <3>1, LineOverIs
  <2> QED BY <2>3, <2>4
<1>2. CASE eol = <<LF>>
  <2>1. s \o eol = Append(s, LF) /\ s \o eol \in Seq(Octets)
    BY <1>2, LettersAre, ConcatAppend
  <2>2. ~t.cr /\ ~t.pair
    BY <1>0, <1>2, <1>d
  <2>3. /\ r \in Readers /\ r.fresh /\ r.could = t.could /\ r.twice = t.twice
        /\ r.pair = t.pair /\ (r.cr <=> LF = CR)
        /\ ~t.fresh => r.used = t.used /\ r.parts = t.parts /\ r.one = t.one
        /\ t.fresh => r.used = Over(UsageOf(t.parts), t.used) /\ r.parts = <<>> /\ ~r.one
    <3>1. r = Reader(Append(s, LF))
      BY <1>r, <2>1
    <3>2. LF \in {CR, LF} /\ ~(LF = LF /\ t.cr)
      BY <2>2
    <3> QED BY <1>1, <3>1, <3>2
  <2>4. OfEol(r, eol)
    BY <1>d, <2>2, <2>3 DEF OfEol
  <2> QED BY <2>1, <2>3, <2>4, <1>t, <1>r
<1>3. CASE eol = <<CR>>
  <2>1. s \o eol = Append(s, CR) /\ s \o eol \in Seq(Octets)
    BY <1>3, LettersAre, ConcatAppend
  <2>2. ~t.pair
    BY <1>0, <1>3, <1>d
  <2>3. /\ r \in Readers /\ r.fresh /\ r.could = t.could /\ r.twice = t.twice
        /\ r.pair = t.pair
        /\ ~t.fresh => r.used = t.used /\ r.parts = t.parts /\ r.one = t.one
        /\ t.fresh => r.used = Over(UsageOf(t.parts), t.used) /\ r.parts = <<>> /\ ~r.one
    <3>1. r = Reader(Append(s, CR))
      BY <1>r, <2>1
    <3>2. CR \in {CR, LF} /\ ~(CR = LF /\ t.cr)
      BY <1>d
    <3> QED BY <1>1, <3>1, <3>2
  <2>4. OfEol(r, eol)
    BY <1>3, <2>2, <2>3 DEF OfEol
  <2> QED BY <2>1, <2>3, <2>4, <1>t, <1>r
<1>4. CASE eol = <<CR, LF>>
  <2> DEFINE q == Append(s, CR)
             b == Reader(q)
  <2>1. s \o eol = Append(q, LF) /\ q \in Seq(Octets) /\ s \o eol \in Seq(Octets)
    <3>1. CR \in Octets /\ LF \in Octets
      BY LettersAre
    <3>2. eol = Append(<<CR>>, LF) /\ <<CR>> \in Seq(Octets)
      BY <1>4, <3>1
    <3>3. s \o Append(<<CR>>, LF) = Append(s \o <<CR>>, LF) /\ q = s \o <<CR>> /\ q \in Seq(Octets)
      BY <3>1, <3>2, ConcatAppend
    <3> HIDE DEF q
    <3>4. Append(q, LF) \in Seq(Octets)
      BY <3>1, <3>3
    <3> QED BY <3>2, <3>3, <3>4
  <2>2. /\ b \in Readers /\ b.fresh /\ b.could = t.could /\ b.twice = t.twice
        /\ b.pair = t.pair /\ (b.cr <=> CR = CR)
        /\ ~t.fresh => b.used = t.used /\ b.parts = t.parts /\ b.one = t.one
        /\ t.fresh => b.used = Over(UsageOf(t.parts), t.used) /\ b.parts = <<>> /\ ~b.one
    <3>1. b = Reader(Append(s, CR))
      OBVIOUS
    <3>2. CR \in {CR, LF} /\ ~(CR = LF /\ t.cr)
      BY <1>d
    <3> HIDE DEF b
    <3> QED BY <1>1, <3>1, <3>2
  <2>3. r = PairEnds(b)
    <3>1. r = ReadByte(b, LF)
      BY <1>r, <2>1, LettersAre, ReaderSteps
    <3> HIDE DEF b
    <3> QED BY <2>2, <3>1 DEF ReadByte
  <2> HIDE DEF b, q
  <2>4. /\ r.used = b.used /\ r.parts = b.parts /\ r.could = b.could /\ r.fresh = b.fresh /\ r.one = b.one
        /\ r.twice = b.twice /\ r.cr = FALSE /\ r.pair = TRUE
    BY <2>2, <2>3, PairEndsIs
  <2>5. OfEol(r, eol)
    BY <1>4, <2>4 DEF OfEol
  <2> QED BY <2>1, <2>2, <2>4, <2>5, <1>t, <1>r
<1> QED BY <1>2, <1>3, <1>4, <1>e

---------------------------------------------------------------------------
(* The reader over the events of a response.                               *)

\* What an event states.
Stating == [ls \in Events |-> [c \in Counts |-> Stated(c, ls)]]

\* What an event states gives counts again.
LEMMA StatedStep ==
  /\ Step(Stating, Events, Counts) /\ Nothing \in Counts
  /\ \A ls \in Events, c \in Counts : Stating[ls][c] = Stated(c, ls)
  /\ \A ls \in Events, c \in Counts : Stated(c, ls) \in Counts
<1>1. ASSUME NEW c \in Counts, NEW ls \in Events PROVE Stated(c, ls) \in Counts
  <2>1. ls \in Seq(Lines)
    BY DEF Events
  <2>2. Said(ls) \in Seq(Letters)
    <3>1. Said(ls) \in Seq(Alphabet) /\ Alphabet \subseteq Letters
      BY <2>1, SaidSteps, LettersAre
    <3> QED BY <3>1
  <2>3. UsageIn(Said(ls)) \in Usages \/ UsageIn(Said(ls)) = NoUsage
    <3>1. Parts(Said(ls)) \in Seq(Letters)
      BY <2>2, PartsAre
    <3> QED BY <3>1, UsageOfType DEF UsageIn
  <2> QED BY <2>3, UsageOver DEF Stated
<1>2. Nothing \in Counts
  BY DEF Nothing, Counts
<1> QED BY <1>1, <1>2 DEF Stating, Step

\* What a response states goes event by event.
LEMMA StatedFolds ==
  ASSUME NEW s \in Seq(Events)
  PROVE  FoldLeft(Stated, Nothing, s) = FoldOf(Counts, Stating, Nothing, s)
<1> DEFINE n == Len(s)
           Is(h) == h = [T \in SUBSET DOMAIN s |->
                           IF T = {} THEN Nothing ELSE Stated(h[T \ {Max(T)}], s[Max(T)])]
           iter == CHOOSE h : Is(h)
           A == Counts
           f == Stating
           base == Nothing
<1>1. FoldLeft(Stated, Nothing, s) = iter[DOMAIN s]
  BY DEF FoldLeft, MapThenFoldSet
<1>2. n \in Nat /\ DOMAIN s = 1..n /\ \A i \in 1..n : s[i] \in Events
  OBVIOUS
<1>3. Step(f, Events, A) /\ base \in A /\ \A x \in Events, v \in A : f[x][v] = Stated(v, x)
  BY StatedStep
<1> HIDE DEF A, f, base, n
<1>4. PICK h \in [SUBSET (1..Len(s)) -> A] : SetsOf(h, f, base, s)
  BY <1>3, SetsOfFold
<1>5. Is(h)
  <2> SUFFICES ASSUME NEW T \in SUBSET (1..n)
               PROVE  h[T] = IF T = {} THEN base ELSE Stated(h[T \ {Max(T)}], s[Max(T)])
    BY <1>2, <1>4 DEF base, n
  <2>1. CASE T = {}
    BY <1>4, <2>1 DEF SetsOf
  <2>2. CASE T # {}
    <3>1. Max(T) \in 1..n /\ h[T \ {Max(T)}] \in A /\ h[T] = f[s[Max(T)]][h[T \ {Max(T)}]]
      BY <1>4, <2>2 DEF SetsOf, n
    <3>2. s[Max(T)] \in Events
      BY <1>2, <3>1
    <3> QED BY <1>3, <2>2, <3>1, <3>2
  <2> QED BY <2>1, <2>2
<1>6. Is(iter)
  BY <1>5
<1>7. SetSteps(iter, A, f, base, s)
  <2> DEFINE k == iter
  <2>1. Is(k)
    BY <1>6
  <2> HIDE DEF k
  <2>2. k[{}] = base
    BY <2>1 DEF base
  <2>3. ASSUME NEW T \in SUBSET (1..n), T # {}, k[T \ {Max(T)}] \in A
        PROVE  k[T] = f[s[Max(T)]][k[T \ {Max(T)}]]
    <3>1. k[T] = Stated(k[T \ {Max(T)}], s[Max(T)])
      BY <1>2, <2>1, <2>3
    <3>2. Max(T) \in 1..n
      BY <1>2, <2>3, LastOfSome
    <3>3. s[Max(T)] \in Events
      BY <1>2, <3>2
    <3> HIDE DEF Is
    <3> QED BY <1>3, <2>3, <3>1, <3>3
  <2>4. SetSteps(k, A, f, base, s)
    BY <2>2, <2>3 DEF SetSteps, n
  <2> QED BY <2>4 DEF k
<1> HIDE DEF iter
<1>8. iter[1..Len(s)] = FoldOf(A, f, base, s)
  BY <1>3, <1>7, FoldOfSets
<1> QED BY <1>1, <1>2, <1>8 DEF A, f, base, n

\* No event stated anything, and an event more.
LEMMA StatedSteps ==
  /\ FoldLeft(Stated, Nothing, <<>>) = Nothing
  /\ \A s \in Seq(Events) : FoldLeft(Stated, Nothing, s) \in Counts
  /\ \A s \in Seq(Events), x \in Events :
       FoldLeft(Stated, Nothing, Append(s, x)) = Stated(FoldLeft(Stated, Nothing, s), x)
<1>1. Step(Stating, Events, Counts) /\ Nothing \in Counts
      /\ \A x \in Events, v \in Counts : Stating[x][v] = Stated(v, x)
  BY StatedStep
<1>2. FoldOf(Counts, Stating, Nothing, <<>>) = Nothing
  BY <1>1, FoldOfNone
<1>3. \A s \in Seq(Events) : FoldOf(Counts, Stating, Nothing, s) \in Counts
  BY <1>1, FoldOfType
<1>4. \A s \in Seq(Events), x \in Events :
        FoldOf(Counts, Stating, Nothing, Append(s, x)) = Stating[x][FoldOf(Counts, Stating, Nothing, s)]
  BY <1>1, FoldOfAppend
<1>5. \A s \in Seq(Events) : FoldLeft(Stated, Nothing, s) = FoldOf(Counts, Stating, Nothing, s)
  BY StatedFolds
<1>6. <<>> \in Seq(Events) /\ \A s \in Seq(Events), x \in Events : Append(s, x) \in Seq(Events)
  OBVIOUS
<1>7. FoldLeft(Stated, Nothing, <<>>) = Nothing
  BY <1>2, <1>5, <1>6
<1>8. \A s \in Seq(Events) : FoldLeft(Stated, Nothing, s) \in Counts
  BY <1>3, <1>5
<1>9. ASSUME NEW s \in Seq(Events), NEW x \in Events
      PROVE  FoldLeft(Stated, Nothing, Append(s, x)) = Stated(FoldLeft(Stated, Nothing, s), x)
  <2>1. FoldLeft(Stated, Nothing, Append(s, x)) = Stating[x][FoldOf(Counts, Stating, Nothing, s)]
    BY <1>4, <1>5, <1>6
  <2>2. /\ FoldLeft(Stated, Nothing, s) = FoldOf(Counts, Stating, Nothing, s)
        /\ FoldLeft(Stated, Nothing, s) \in Counts
    BY <1>5, <1>8
  <2> QED BY <1>1, <2>1, <2>2
<1> QED BY <1>7, <1>8, <1>9

\* The ends of a line are bytes.
LEMMA EolsAreBytes == Eols \subseteq Seq(Octets)
<1>1. CR \in Octets /\ LF \in Octets
  BY LettersAre
<1>2. <<LF>> \in Seq(Octets) /\ <<CR>> \in Seq(Octets) /\ <<CR, LF>> \in Seq(Octets)
  BY <1>1
<1> QED BY <1>2 DEF Eols

\* The lines of an event with their ends.
LEMMA EndedMaps ==
  ASSUME NEW eol \in Seq(Octets)
  PROVE  Maps(Ended(eol), Lines, Seq(Octets))
<1>1. ASSUME NEW l \in Lines PROVE l \o eol \in Seq(Octets)
  <2>1. l \in Seq(Octets)
    BY LineIs
  <2> QED BY <2>1, ConcatType
<1> QED BY <1>1 DEF Ended, Maps

\* No line, and a line more; an event ends with an empty line.
LEMMA BodySteps ==
  ASSUME NEW eol \in Seq(Octets)
  PROVE  /\ BodyBytes(<<>>, eol) = <<>>
         /\ \A ls \in Seq(Lines) : BodyBytes(ls, eol) \in Seq(Octets)
         /\ \A ls \in Seq(Lines), l \in Lines : BodyBytes(Append(ls, l), eol) = BodyBytes(ls, eol) \o (l \o eol)
         /\ \A ls \in Seq(Lines) : EventBytes(ls, eol) = BodyBytes(ls, eol) \o eol
<1>1. Maps(Ended(eol), Lines, Seq(Octets))
  BY EndedMaps
<1>2. BodyBytes(<<>>, eol) = <<>>
  BY FlatNone DEF BodyBytes
<1>3. \A ls \in Seq(Lines) : BodyBytes(ls, eol) \in Seq(Octets)
  BY <1>1, FlatType DEF BodyBytes
<1>4. ASSUME NEW ls \in Seq(Lines), NEW l \in Lines
      PROVE  BodyBytes(Append(ls, l), eol) = BodyBytes(ls, eol) \o (l \o eol)
  <2>1. Flat(Ended(eol), Append(ls, l)) = Flat(Ended(eol), ls) \o Ended(eol)[l]
    BY <1>1, FlatAppend
  <2>2. Ended(eol)[l] = l \o eol
    BY DEF Ended
  <2> QED BY <2>1, <2>2 DEF BodyBytes
<1>5. ASSUME NEW ls \in Seq(Lines)
      PROVE  EventBytes(ls, eol) = BodyBytes(ls, eol) \o eol
  <2>1. \A i \in DOMAIN ls : ls[i] \in Lines
    OBVIOUS
  <2>2. [i \in DOMAIN ls |-> ls[i] \o eol] = [i \in DOMAIN ls |-> Ended(eol)[ls[i]]]
    BY <2>1 DEF Ended
  <2>3. FlattenSeq([i \in DOMAIN ls |-> ls[i] \o eol]) = BodyBytes(ls, eol)
    BY <2>2 DEF BodyBytes, Flat, Each
  <2> QED BY <2>3 DEF EventBytes
<1> QED BY <1>2, <1>3, <1>4, <1>5

\* A reader where an event begins.
Begins(t, eol) == t.fresh /\ t.parts = <<>> /\ ~t.one /\ OfEol(t, eol)

\* The lines of an event.
LEMMA LinesAreRead ==
  ASSUME NEW s \in Seq(Octets), NEW eol \in Eols, Begins(Reader(s), eol), NEW lines \in Seq(Lines)
  PROVE  /\ InEvent(Reader(s), Reader(s \o BodyBytes(lines, eol)), lines, eol)
         /\ Reader(s \o BodyBytes(lines, eol)).fresh
<1> DEFINE t == Reader(s)
           Good(ls) == InEvent(t, Reader(s \o BodyBytes(ls, eol)), ls, eol) /\ Reader(s \o BodyBytes(ls, eol)).fresh
           S == {ls \in Seq(Lines) : Good(ls)}
<1>0. t.fresh /\ t.parts = <<>> /\ ~t.one /\ OfEol(t, eol) /\ t \in Readers
  BY ReaderSteps DEF Begins, Sound
<1>1. Good(<<>>)
  <2>1. s \o BodyBytes(<<>>, eol) = s
    BY EolsAreBytes, BodySteps, ConcatNone
  <2>2. DataLines(<<>>) = <<>> /\ Parts(Said(<<>>)) = <<>> /\ OneLine(<<>>)
    BY DataLinesSteps, SaidSteps, PartsNone DEF OneLine
  <2> HIDE DEF t
  <2>3. InEvent(t, t, <<>>, eol)
    BY <1>0, <2>2 DEF InEvent
  <2> QED BY <1>0, <2>1, <2>3 DEF t
<1>2. ASSUME NEW ls \in Seq(Lines), Good(ls), NEW l \in Lines PROVE Good(Append(ls, l))
  <2> DEFINE a == s \o BodyBytes(ls, eol)
             b == a \o l
             more == Append(ls, l)
  <2>1. a \in Seq(Octets) /\ l \in Seq(Octets) /\ eol \in Seq(Octets) /\ b \in Seq(Octets)
    <3> DEFINE q == BodyBytes(ls, eol)
    <3>1. q \in Seq(Octets) /\ l \in Seq(Octets) /\ eol \in Seq(Octets)
      BY EolsAreBytes, BodySteps, LineIs
    <3> HIDE DEF q
    <3>2. s \o q \in Seq(Octets)
      BY <3>1, ConcatType
    <3>3. (s \o q) \o l \in Seq(Octets)
      BY <3>1, <3>2, ConcatType
    <3> QED BY <3>1, <3>2, <3>3 DEF q
  <2>2. s \o BodyBytes(more, eol) = b \o eol
    <3> DEFINE q == BodyBytes(ls, eol)
    <3>1. q \in Seq(Octets) /\ BodyBytes(more, eol) = q \o (l \o eol)
      BY EolsAreBytes, BodySteps
    <3> HIDE DEF q
    <3>2. s \o (q \o (l \o eol)) = (s \o q) \o (l \o eol)
      <4> DEFINE m == l \o eol
      <4>1. m \in Seq(Octets) /\ q \in Seq(Octets)
        BY <2>1, <3>1, ConcatType
      <4> HIDE DEF m
      <4>2. s \in Seq(Octets) /\ (s \o q) \o m = s \o (q \o m)
        BY <4>1, InPieces, SMTT(30)
      <4> QED BY <4>2 DEF m
    <3>3. (s \o q) \o (l \o eol) = ((s \o q) \o l) \o eol
      <4> DEFINE v == s \o q
      <4>1. v \in Seq(Octets)
        BY <3>1, ConcatType
      <4> HIDE DEF v
      <4>2. v \in Seq(Octets) /\ l \in Seq(Octets) /\ eol \in Seq(Octets)
        BY <2>1, <4>1
      <4>3. (v \o l) \o eol = v \o (l \o eol)
        BY ONLY <4>2, InPieces, Zenon
      <4> QED BY <4>3 DEF v
    <3> QED BY <3>1, <3>2, <3>3 DEF q
  <2>3. InEvent(t, Reader(a), ls, eol) /\ Reader(a).fresh
    BY <1>2
  <2> HIDE DEF a, t
  <2>4. InEvent(t, Reader(b), more, eol) /\ ~Reader(b).fresh
    BY <2>1, <2>3, LineIsRead
  <2> HIDE DEF b, more
  <2>5. OfEol(Reader(b), eol)
    BY <2>4 DEF InEvent
  <2>6. /\ OfEol(Reader(b \o eol), eol) /\ Reader(b \o eol).fresh
        /\ Reader(b \o eol).could = Reader(b).could /\ Reader(b \o eol).twice = Reader(b).twice
        /\ Reader(b \o eol).used = Reader(b).used /\ Reader(b \o eol).parts = Reader(b).parts
        /\ Reader(b \o eol).one = Reader(b).one
    BY <2>1, <2>4, <2>5, EolIsRead
  <2>7. InEvent(t, Reader(b \o eol), more, eol)
    BY <2>4, <2>6 DEF InEvent
  <2> QED BY <2>2, <2>6, <2>7 DEF t, more
<1> HIDE DEF Good
<1>3. S = Seq(Lines)
  <2>1. <<>> \in S
    BY <1>1
  <2>2. \A d \in S, y \in Lines : Append(d, y) \in S
    <3> SUFFICES ASSUME NEW d \in S, NEW y \in Lines PROVE Append(d, y) \in S
      OBVIOUS
    <3>1. Append(d, y) \in Seq(Lines) /\ Good(d) /\ d \in Seq(Lines)
      OBVIOUS
    <3> QED BY <1>2, <3>1
  <2>3. S \in SUBSET Seq(Lines)
    OBVIOUS
  <2> HIDE DEF S
  <2> QED BY <2>1, <2>2, <2>3, SeqInd
<1> QED BY <1>3 DEF Good

\* What a reader has after some events: all they state, and no more than some runs of
\* the parts of one of them state.
After(r, events, eol) ==
  /\ r.used = FoldLeft(Stated, Nothing, events)
  /\ \A u \in r.could : \E i \in DOMAIN events : u \in Runs(Parts(Said(events[i])))
  /\ r.twice => \E i \in DOMAIN events : ~OneLine(events[i])
  /\ Begins(r, eol)

\* The same behind the last line of the event that follows them, its end yet to come.
Amid(r, events, lines, eol) ==
  /\ r.used = FoldLeft(Stated, Nothing, events)
  /\ r.parts = Parts(Said(lines))
  /\ \A u \in r.could : \/ \E i \in DOMAIN events : u \in Runs(Parts(Said(events[i])))
                        \/ u \in Runs(Parts(Said(lines)))
  /\ r.twice => ~OneLine(lines) \/ \E i \in DOMAIN events : ~OneLine(events[i])
  /\ OfEol(r, eol)

\* The events of a stream, each with its ends.
EventsOf(eol) == [ls \in Events |-> EventBytes(ls, eol)]
Stream(events, eol) == Flat(EventsOf(eol), events)

\* No event, and an event more.
LEMMA StreamSteps ==
  ASSUME NEW eol \in Seq(Octets)
  PROVE  /\ Stream(<<>>, eol) = <<>>
         /\ \A es \in Seq(Events) : Stream(es, eol) \in Seq(Octets)
         /\ \A es \in Seq(Events), ls \in Events :
              Stream(Append(es, ls), eol) = Stream(es, eol) \o EventBytes(ls, eol)
         /\ \A ls \in Events : EventBytes(ls, eol) \in Seq(Octets) /\ ls \in Seq(Lines) /\ ls # <<>>
         /\ \A es \in Seq(Events) :
              Stream(es, eol) = FlattenSeq([i \in DOMAIN es |-> EventBytes(es[i], eol)])
<1>1. ASSUME NEW ls \in Events
      PROVE  EventBytes(ls, eol) \in Seq(Octets) /\ ls \in Seq(Lines) /\ ls # <<>>
  <2>1. ls \in Seq(Lines) /\ ls # <<>>
    BY DEF Events
  <2> DEFINE q == BodyBytes(ls, eol)
  <2>2. q \in Seq(Octets) /\ EventBytes(ls, eol) = q \o eol
    BY <2>1, BodySteps
  <2> HIDE DEF q
  <2>3. q \o eol \in Seq(Octets)
    BY <2>2, ConcatType
  <2> QED BY <2>1, <2>2, <2>3
<1>2. Maps(EventsOf(eol), Events, Seq(Octets))
  BY <1>1 DEF EventsOf, Maps
<1>3. Stream(<<>>, eol) = <<>>
  BY FlatNone DEF Stream
<1>4. \A es \in Seq(Events) : Stream(es, eol) \in Seq(Octets)
  BY <1>2, FlatType DEF Stream
<1>5. ASSUME NEW es \in Seq(Events), NEW ls \in Events
      PROVE  Stream(Append(es, ls), eol) = Stream(es, eol) \o EventBytes(ls, eol)
  <2>1. Flat(EventsOf(eol), Append(es, ls)) = Flat(EventsOf(eol), es) \o EventsOf(eol)[ls]
    BY <1>2, FlatAppend
  <2>2. EventsOf(eol)[ls] = EventBytes(ls, eol)
    BY DEF EventsOf
  <2> QED BY <2>1, <2>2 DEF Stream
<1>6. ASSUME NEW es \in Seq(Events)
      PROVE  Stream(es, eol) = FlattenSeq([i \in DOMAIN es |-> EventBytes(es[i], eol)])
  <2>1. \A i \in DOMAIN es : es[i] \in Events
    OBVIOUS
  <2>2. [i \in DOMAIN es |-> EventBytes(es[i], eol)] = [i \in DOMAIN es |-> EventsOf(eol)[es[i]]]
    BY <2>1 DEF EventsOf
  <2> QED BY <2>2 DEF Stream, Flat, Each
<1> QED BY <1>1, <1>3, <1>4, <1>5, <1>6

\* An event, where one begins.
LEMMA EventIsRead ==
  ASSUME NEW s \in Seq(Octets), NEW eol \in Eols, Begins(Reader(s), eol), NEW lines \in Events
  PROVE  LET t == Reader(s)
             r == Reader(s \o EventBytes(lines, eol))
         IN /\ r.used = Stated(t.used, lines) /\ Begins(r, eol)
            /\ r.could \subseteq t.could \cup Runs(Parts(Said(lines)))
            /\ r.twice => t.twice \/ ~OneLine(lines)
<1> DEFINE t == Reader(s)
           a == s \o BodyBytes(lines, eol)
           b == Reader(a)
           r == Reader(a \o eol)
<1>0. lines \in Seq(Lines) /\ eol \in Seq(Octets)
  BY EolsAreBytes DEF Events
<1>1. a \in Seq(Octets) /\ s \o EventBytes(lines, eol) = a \o eol
  <2> DEFINE q == BodyBytes(lines, eol)
  <2>1. q \in Seq(Octets) /\ EventBytes(lines, eol) = q \o eol
    BY <1>0, BodySteps
  <2> HIDE DEF q
  <2>2. s \o q \in Seq(Octets) /\ (s \o q) \o eol = s \o (q \o eol)
    BY <1>0, <2>1, ConcatType, InPieces
  <2> QED BY <2>1, <2>2 DEF q
<1>2. InEvent(t, b, lines, eol) /\ b.fresh
  BY <1>0, LinesAreRead
<1> HIDE DEF a
<1>3. OfEol(b, eol)
  BY <1>2 DEF InEvent
<1>4. /\ OfEol(r, eol) /\ r.fresh /\ r.could = b.could /\ r.twice = b.twice
      /\ r.used = Over(UsageOf(b.parts), b.used) /\ r.parts = <<>> /\ ~r.one
  BY <1>1, <1>2, <1>3, EolIsRead
<1> HIDE DEF r, b, t
<1>5. r.used = Stated(t.used, lines)
  BY <1>2, <1>4 DEF InEvent, Stated, UsageIn
<1>6. Begins(r, eol) /\ r.could \subseteq t.could \cup Runs(Parts(Said(lines)))
      /\ (r.twice => t.twice \/ ~OneLine(lines))
  BY <1>2, <1>4 DEF InEvent, Begins
<1> QED BY <1>1, <1>5, <1>6 DEF r, t

\* The events of a stream.
LEMMA EventsAreRead ==
  ASSUME NEW eol \in Eols, NEW events \in Seq(Events)
  PROVE  After(Reader(Stream(events, eol)), events, eol)
<1> DEFINE Good(es) == After(Reader(Stream(es, eol)), es, eol)
           S == {es \in Seq(Events) : Good(es)}
<1>0. eol \in Seq(Octets)
  BY EolsAreBytes
<1>1. Good(<<>>)
  <2>1. Reader(Stream(<<>>, eol)) = Reader0
    BY <1>0, StreamSteps, ReaderSteps
  <2>2. After(Reader0, <<>>, eol)
    BY StatedSteps DEF After, Reader0, Begins, OfEol
  <2> QED BY <2>1, <2>2
<1>2. ASSUME NEW es \in Seq(Events), Good(es), NEW ls \in Events PROVE Good(Append(es, ls))
  <2> DEFINE s == Stream(es, eol)
             more == Append(es, ls)
             t == Reader(s)
             r == Reader(s \o EventBytes(ls, eol))
  <2>1. s \in Seq(Octets) /\ Stream(more, eol) = s \o EventBytes(ls, eol)
    BY <1>0, StreamSteps
  <2>2. After(t, es, eol)
    BY <1>2
  <2> HIDE DEF s
  <2>3. /\ r.used = Stated(t.used, ls) /\ Begins(r, eol)
        /\ r.could \subseteq t.could \cup Runs(Parts(Said(ls)))
        /\ r.twice => t.twice \/ ~OneLine(ls)
    <3>1. Begins(Reader(s), eol)
      BY <2>2 DEF After
    <3> QED BY <2>1, <3>1, EventIsRead
  <2>4. /\ \A i \in DOMAIN es : i \in DOMAIN more /\ more[i] = es[i]
        /\ Len(es) + 1 \in DOMAIN more /\ more[Len(es) + 1] = ls
    BY AppendAt
  <2>5. r.used = FoldLeft(Stated, Nothing, more)
    <3>1. t.used = FoldLeft(Stated, Nothing, es)
      BY <2>2 DEF After
    <3> HIDE DEF t, r
    <3> QED BY <2>3, <3>1, StatedSteps
  <2> HIDE DEF t, r, more
  <2>6. ASSUME NEW u \in r.could PROVE \E i \in DOMAIN more : u \in Runs(Parts(Said(more[i])))
    <3>1. CASE u \in t.could
      <4>1. PICK i \in DOMAIN es : u \in Runs(Parts(Said(es[i])))
        BY <2>2, <3>1 DEF After
      <4> QED BY <2>4, <4>1
    <3>2. CASE u \in Runs(Parts(Said(ls)))
      BY <2>4, <3>2
    <3> QED BY <2>3, <2>6, <3>1, <3>2
  <2>7. ASSUME r.twice PROVE \E i \in DOMAIN more : ~OneLine(more[i])
    <3>1. CASE t.twice
      <4>1. PICK i \in DOMAIN es : ~OneLine(es[i])
        BY <2>2, <3>1 DEF After
      <4> QED BY <2>4, <4>1
    <3>2. CASE ~OneLine(ls)
      BY <2>4, <3>2
    <3> QED BY <2>3, <2>7, <3>1, <3>2
  <2>8. After(r, more, eol)
    BY <2>3, <2>5, <2>6, <2>7 DEF After
  <2> QED BY <2>1, <2>8 DEF r, more
<1> HIDE DEF Good
<1>3. S = Seq(Events)
  <2>1. <<>> \in S
    BY <1>1
  <2>2. \A d \in S, y \in Events : Append(d, y) \in S
    <3> SUFFICES ASSUME NEW d \in S, NEW y \in Events PROVE Append(d, y) \in S
      OBVIOUS
    <3>1. Append(d, y) \in Seq(Events) /\ Good(d) /\ d \in Seq(Events)
      OBVIOUS
    <3> QED BY <1>2, <3>1
  <2>3. S \in SUBSET Seq(Events)
    OBVIOUS
  <2> HIDE DEF S
  <2> QED BY <2>1, <2>2, <2>3, SeqInd
<1> QED BY <1>3 DEF Good

\* A stream without the end of its last line and the line end behind it.
CutShort(events, lines, eol) == (Stream(events, eol) \o BodyBytes(Front(lines), eol)) \o Last(lines)

\* What is read of a stream that is cut there.
LEMMA CutIsRead ==
  ASSUME NEW eol \in Eols, NEW events \in Seq(Events), NEW lines \in Events
  PROVE  LET x == CutShort(events, lines, eol)
         IN /\ x \in Seq(Octets) /\ Stream(Append(events, lines), eol) = (x \o eol) \o eol
            /\ Amid(Reader(x), events, lines, eol)
<1> DEFINE s == Stream(events, eol)
           ls == Front(lines)
           l == Last(lines)
           q == BodyBytes(ls, eol)
           x == CutShort(events, lines, eol)
<1>0. eol \in Seq(Octets) /\ s \in Seq(Octets) /\ lines \in Seq(Lines) /\ lines # <<>>
  BY EolsAreBytes, StreamSteps
<1>1. ls \in Seq(Lines) /\ l \in Lines /\ lines = Append(ls, l)
  BY <1>0, FrontIs
<1>2. q \in Seq(Octets) /\ l \in Seq(Octets) /\ BodyBytes(lines, eol) = q \o (l \o eol)
  <2> HIDE DEF ls, l
  <2> QED BY <1>0, <1>1, BodySteps, LineIs
<1>3. Stream(Append(events, lines), eol) = s \o ((q \o (l \o eol)) \o eol)
  <2>1. EventBytes(lines, eol) = BodyBytes(lines, eol) \o eol
    BY <1>0, BodySteps
  <2>2. Stream(Append(events, lines), eol) = s \o EventBytes(lines, eol)
    BY <1>0, StreamSteps
  <2> QED BY <1>2, <2>1, <2>2
<1>4. After(Reader(s), events, eol)
  BY EventsAreRead
<1>5. x = (s \o q) \o l
  BY DEF CutShort
<1>6. InEvent(Reader(s), Reader(s \o q), ls, eol) /\ Reader(s \o q).fresh
  <2>1. Begins(Reader(s), eol)
    BY <1>4 DEF After
  <2> HIDE DEF s, ls
  <2> QED BY <1>0, <1>1, <2>1, LinesAreRead
<1> HIDE DEF s, q, ls, l, x
<1>7. s \o q \in Seq(Octets) /\ x \in Seq(Octets)
  <2>1. s \o q \in Seq(Octets)
    BY <1>0, <1>2, ConcatType
  <2> DEFINE v == s \o q
  <2>2. x = v \o l /\ v \in Seq(Octets)
    BY <1>5, <2>1
  <2> HIDE DEF v
  <2>3. x \in Seq(Octets)
    BY <1>2, <2>2, ConcatType
  <2> QED BY <2>1, <2>3
<1>8. s \o ((q \o (l \o eol)) \o eol) = (x \o eol) \o eol
  <2> DEFINE m == l \o eol
             v == s \o q
  <2>1. m \in Seq(Octets) /\ v \in Seq(Octets)
    BY <1>0, <1>2, <1>7, ConcatType
  <2> HIDE DEF m
  <2>2. s \o ((q \o m) \o eol) = (v \o m) \o eol
    <3> DEFINE qm == q \o m
    <3>1. qm \in Seq(Octets)
      BY <1>2, <2>1, ConcatType
    <3> HIDE DEF qm
    <3>2. s \in Seq(Octets) /\ q \in Seq(Octets) /\ m \in Seq(Octets) /\ eol \in Seq(Octets)
      BY <1>0, <1>2, <2>1
    <3>3. (s \o qm) \o eol = s \o (qm \o eol)
      <4>1. s \in Seq(Octets) /\ qm \in Seq(Octets) /\ eol \in Seq(Octets)
        BY <3>1, <3>2
      <4> QED BY ONLY <4>1, InPieces, Zenon
    <3>4. (s \o q) \o m = s \o (q \o m)
      <4>1. s \in Seq(Octets) /\ q \in Seq(Octets) /\ m \in Seq(Octets)
        BY <3>2
      <4> QED BY ONLY <4>1, InPieces, Zenon
    <3> QED BY <3>3, <3>4 DEF qm
  <2>3. v \o (l \o eol) = (v \o l) \o eol
    <3> HIDE DEF v
    <3>1. v \in Seq(Octets) /\ l \in Seq(Octets) /\ eol \in Seq(Octets)
      BY <1>0, <1>2, <2>1
    <3>2. (v \o l) \o eol = v \o (l \o eol)
      BY ONLY <3>1, InPieces, Zenon
    <3> QED BY <3>2
  <2> QED BY <1>5, <2>2, <2>3 DEF m
<1> DEFINE r == Reader(x)
<1>9. InEvent(Reader(s), r, lines, eol)
  <2>1. Reader(s \o q).fresh /\ InEvent(Reader(s), Reader(s \o q), ls, eol)
    BY <1>6
  <2> DEFINE v == s \o q
             t == Reader(s)
  <2> HIDE DEF v, t
  <2>2. v \in Seq(Octets) /\ InEvent(t, Reader(v), ls, eol) /\ Reader(v).fresh
    BY <1>7, <2>1 DEF v, t
  <2>3. InEvent(t, Reader(v \o l), Append(ls, l), eol)
    BY <1>1, <2>2, LineIsRead
  <2> QED BY <1>1, <1>5, <2>3 DEF v, t
<1> HIDE DEF r
<1>10. Amid(r, events, lines, eol)
  BY <1>4, <1>9 DEF After, InEvent, Amid
<1> QED BY <1>3, <1>7, <1>8, <1>10 DEF r, x

---------------------------------------------------------------------------
(* The reader of a whole response.                                         *)

\* The bytes of a response, and the end of its lines.
LEMMA ResponseIs ==
  ASSUME NEW resp \in Responses
  PROVE  /\ resp.events \in Seq(Events) /\ resp.events # <<>> /\ resp.eol \in Seq(Octets)
         /\ Stream(resp.events, resp.eol) \in Seq(Octets)
         /\ Bytes(resp) =
              IF resp.type = "json" THEN Said(resp.events[1])
              ELSE IF resp.closed THEN Stream(resp.events, resp.eol)
              ELSE SubSeq(Stream(resp.events, resp.eol), 1,
                          Len(Stream(resp.events, resp.eol)) - 2 * Len(resp.eol))
         /\ resp.type = "sse" => resp.eol \in Eols
         /\ resp.type = "json" => resp.events = <<resp.events[1]>> /\ resp.events[1] \in Events
         /\ resp.type \in {"sse", "json", "other"} /\ resp.closed \in BOOLEAN
<1>1. /\ resp.events \in Seq(Events) /\ resp.events # <<>>
      /\ resp.eol \in {<<>>, <<LF>>, <<CR>>, <<CR, LF>>}
      /\ resp.type \in {"sse", "json", "other"} /\ resp.closed \in BOOLEAN
      /\ resp.type = "sse" => resp.eol # <<>>
      /\ resp.type = "json" => Len(resp.events) = 1
  <2>1. /\ resp \in [type : {"sse", "json", "other"}, events : Seq(Events) \ {<<>>},
                     eol : {<<>>, <<LF>>, <<CR>>, <<CR, LF>>}, closed : BOOLEAN]
        /\ resp.type = "sse" => resp.eol # <<>>
        /\ resp.type = "json" => Len(resp.events) = 1
    BY CaptureAssumption
  <2> QED BY <2>1
<1>2. resp.eol \in Seq(Octets) /\ (resp.type = "sse" => resp.eol \in Eols)
  <2>1. <<>> \in Seq(Octets)
    OBVIOUS
  <2>2. resp.eol = <<>> \/ resp.eol \in Eols
    BY <1>1 DEF Eols
  <2> QED BY <1>1, <2>1, <2>2, EolsAreBytes
<1> DEFINE all == FlattenSeq([i \in DOMAIN resp.events |-> EventBytes(resp.events[i], resp.eol)])
<1>3. all = Stream(resp.events, resp.eol) /\ Stream(resp.events, resp.eol) \in Seq(Octets)
  BY <1>1, <1>2, StreamSteps
<1>4. Bytes(resp) =
        IF resp.type = "json" THEN Said(resp.events[1])
        ELSE IF resp.closed THEN all
        ELSE SubSeq(all, 1, Len(all) - 2 * Len(resp.eol))
  BY DEF Bytes
<1> HIDE DEF all
<1>5. resp.type = "json" => resp.events = <<resp.events[1]>> /\ resp.events[1] \in Events
  <2> DEFINE es == resp.events
  <2>1. es \in Seq(Events)
    BY <1>1
  <2> HIDE DEF es
  <2>2. Len(es) = 1 => es = <<es[1]>> /\ es[1] \in Events
    BY <2>1
  <2> QED BY <1>1, <2>2 DEF es
<1> QED BY <1>1, <1>2, <1>3, <1>4, <1>5

\* The front of bytes are bytes.
LEMMA SubSeqType ==
  ASSUME NEW D, NEW s \in Seq(D), NEW n \in Int, n <= Len(s)
  PROVE  SubSeq(s, 1, n) \in Seq(D)
OBVIOUS

\* A response is a sequence of bytes, and a body has no line end.
LEMMA BytesType ==
  ASSUME NEW resp \in Responses
  PROVE  Bytes(resp) \in Seq(Octets) /\ (resp.type = "json" => Bytes(resp) \in Seq(Alphabet))
<1> DEFINE all == Stream(resp.events, resp.eol)
           n == Len(all) - 2 * Len(resp.eol)
<1>1. /\ all \in Seq(Octets) /\ resp.eol \in Seq(Octets)
      /\ Bytes(resp) = IF resp.type = "json" THEN Said(resp.events[1])
                       ELSE IF resp.closed THEN all ELSE SubSeq(all, 1, n)
  BY ResponseIs
<1> HIDE DEF all
<1>2. SubSeq(all, 1, n) \in Seq(Octets)
  <2>1. n \in Int /\ n <= Len(all)
    <3>1. Len(all) \in Nat /\ Len(resp.eol) \in Nat
      BY <1>1
    <3> QED BY <3>1
  <2> HIDE DEF n
  <2> QED BY <1>1, <2>1, SubSeqType
<1>3. resp.type = "json" => Said(resp.events[1]) \in Seq(Alphabet)
  <2>1. resp.type = "json" => resp.events[1] \in Seq(Lines)
    BY ResponseIs DEF Events
  <2> QED BY <2>1, SaidSteps
<1>4. Seq(Alphabet) \subseteq Seq(Octets)
  <2>1. Alphabet \subseteq Octets
    BY LettersAre
  <2> QED BY <2>1
<1> QED BY <1>1, <1>2, <1>3, <1>4

\* Where the elements of a concatenation are.
LEMMA ConcatIs ==
  ASSUME NEW D, NEW s \in Seq(D), NEW t \in Seq(D)
  PROVE  /\ s \o t \in Seq(D) /\ Len(s \o t) = Len(s) + Len(t) /\ Len(s) \in Nat /\ Len(t) \in Nat
         /\ \A i \in 1..Len(s) : (s \o t)[i] = s[i]
         /\ \A i \in 1..Len(t) : (s \o t)[Len(s) + i] = t[i]
OBVIOUS

\* A line end twice taken from the end.
LEMMA WithoutEnds ==
  ASSUME NEW D, NEW x \in Seq(D), NEW e \in Seq(D)
  PROVE  SubSeq((x \o e) \o e, 1, Len((x \o e) \o e) - 2 * Len(e)) = x
<1> DEFINE all == (x \o e) \o e
           n == Len(x)
           k == Len(e)
<1>1. all \in Seq(D) /\ Len(all) = (n + k) + k /\ n \in Nat /\ k \in Nat
      /\ \A i \in 1..n : all[i] = x[i]
  <2> DEFINE v == x \o e
  <2>1. v \in Seq(D) /\ Len(v) = n + k /\ n \in Nat /\ k \in Nat /\ \A i \in 1..n : v[i] = x[i]
    OBVIOUS
  <2> HIDE DEF v
  <2>2. v \o e \in Seq(D) /\ Len(v \o e) = Len(v) + k /\ \A i \in 1..Len(v) : (v \o e)[i] = v[i]
    BY <2>1, ConcatIs
  <2>3. \A i \in 1..n : i \in 1..Len(v)
    BY <2>1
  <2> QED BY <2>1, <2>2, <2>3 DEF v
<1> HIDE DEF all
<1>2. Len(all) - 2 * k = n
  BY <1>1
<1> DEFINE y == SubSeq(all, 1, n)
<1>3. n <= Len(all) /\ y \in Seq(D) /\ Len(y) = n /\ \A i \in 1..n : y[i] = all[i]
  <2>1. n <= Len(all)
    BY <1>1
  <2> QED BY <1>1, <2>1
<1>4. y = x
  <2> HIDE DEF y
  <2> QED BY <1>1, <1>3
<1> QED BY <1>2, <1>4 DEF all

(***************************************************************************)
(* A reader of all of an event stream knows, counting what it is in as an  *)
(* event, what the response states; line ends are pairs only if the        *)
(* response has such; data was on two lines only if some event has it so.  *)
(***************************************************************************)
LEMMA ResponseIsRead ==
  ASSUME NEW resp \in Responses, resp.type = "sse"
  PROVE  LET t == Reader(Bytes(resp))
         IN /\ Over(UsageOf(t.parts), t.used) = Truth(resp)
            /\ t.pair => resp.eol = <<CR, LF>>
            /\ t.twice => \E i \in DOMAIN resp.events : ~OneLine(resp.events[i])
            /\ \A u \in t.could : \E i \in DOMAIN resp.events : u \in Runs(Parts(Said(resp.events[i])))
<1> DEFINE es == resp.events
           eol == resp.eol
           t == Reader(Bytes(resp))
<1>t. t = Reader(Bytes(resp))
  OBVIOUS
<1> HIDE DEF t
<1>1. /\ es \in Seq(Events) /\ es # <<>> /\ eol \in Eols /\ eol \in Seq(Octets) /\ resp.closed \in BOOLEAN
      /\ Stream(es, eol) \in Seq(Octets)
      /\ Bytes(resp) = IF resp.closed THEN Stream(es, eol)
                       ELSE SubSeq(Stream(es, eol), 1, Len(Stream(es, eol)) - 2 * Len(eol))
  BY ResponseIs
<1>2. Truth(resp) = FoldLeft(Stated, Nothing, es)
  BY DEF Truth
<1>3. CASE resp.closed
  <2>1. t = Reader(Stream(es, eol))
    BY <1>1, <1>3, <1>t
  <2>2. After(t, es, eol)
    BY <1>1, <2>1, EventsAreRead
  <2>3. t.used = FoldLeft(Stated, Nothing, es) /\ t.parts = <<>> /\ (t.pair => eol = <<CR, LF>>)
    BY <2>2 DEF After, Begins, OfEol
  <2>4. Over(UsageOf(t.parts), t.used) = t.used
    <3>1. t.used \in Counts
      BY <1>1, <2>3, StatedSteps
    <3>2. Over(NoUsage, t.used) = t.used
      BY <3>1, UsageAgain
    <3> QED BY <2>3, <3>2, UsageOfNone
  <2> QED BY <1>2, <2>2, <2>3, <2>4, <1>t DEF After
<1>4. CASE ~resp.closed
  <2> DEFINE fs == Front(es)
             ls == Last(es)
             x == CutShort(fs, ls, eol)
  <2>1. fs \in Seq(Events) /\ ls \in Events /\ es = Append(fs, ls)
    BY <1>1, FrontIs
  <2> HIDE DEF fs, ls
  <2>2. x \in Seq(Octets) /\ Stream(es, eol) = (x \o eol) \o eol /\ Amid(Reader(x), fs, ls, eol)
    BY <1>1, <2>1, CutIsRead
  <2> HIDE DEF x
  <2>3. Bytes(resp) = x
    <3>1. SubSeq((x \o eol) \o eol, 1, Len((x \o eol) \o eol) - 2 * Len(eol)) = x
      BY <1>1, <2>2, WithoutEnds
    <3> QED BY <1>1, <1>4, <2>2, <3>1
  <2>4. Amid(t, fs, ls, eol)
    BY <2>2, <2>3, <1>t
  <2>5. /\ \A i \in DOMAIN fs : i \in DOMAIN es /\ es[i] = fs[i]
        /\ Len(fs) + 1 \in DOMAIN es /\ es[Len(fs) + 1] = ls
    <3> HIDE DEF es
    <3> QED BY <2>1, AppendAt
  <2> HIDE DEF es, eol
  <2>6. Over(UsageOf(t.parts), t.used) = FoldLeft(Stated, Nothing, es)
    <3>1. t.used = FoldLeft(Stated, Nothing, fs) /\ t.parts = Parts(Said(ls))
      BY <2>4 DEF Amid
    <3>2. FoldLeft(Stated, Nothing, es) = Stated(FoldLeft(Stated, Nothing, fs), ls)
      BY <2>1, StatedSteps
    <3> QED BY <3>1, <3>2 DEF Stated, UsageIn
  <2>7. ASSUME NEW u \in t.could PROVE \E i \in DOMAIN es : u \in Runs(Parts(Said(es[i])))
    <3>1. CASE u \in Runs(Parts(Said(ls)))
      BY <2>5, <3>1
    <3>2. CASE u \notin Runs(Parts(Said(ls)))
      <4>1. PICK i \in DOMAIN fs : u \in Runs(Parts(Said(fs[i])))
        BY <2>4, <2>7, <3>2 DEF Amid
      <4> QED BY <2>5, <4>1
    <3> QED BY <3>1, <3>2
  <2>8. ASSUME t.twice PROVE \E i \in DOMAIN es : ~OneLine(es[i])
    <3>1. CASE ~OneLine(ls)
      BY <2>5, <3>1
    <3>2. CASE OneLine(ls)
      <4>1. PICK i \in DOMAIN fs : ~OneLine(fs[i])
        BY <2>4, <2>8, <3>2 DEF Amid
      <4> QED BY <2>5, <4>1
    <3> QED BY <3>1, <3>2
  <2>9. t.pair => eol = <<CR, LF>>
    BY <2>4 DEF Amid, OfEol
  <2> QED BY <1>2, <2>6, <2>7, <2>8, <2>9, <1>t DEF es, eol
<1> QED BY <1>1, <1>3, <1>4

\* A run of the parts of an event of a response states what the event does, or nothing.
LEMMA RunsAreStated ==
  ASSUME NEW resp \in Responses, NEW i \in DOMAIN resp.events,
         NEW u \in Runs(Parts(Said(resp.events[i])))
  PROVE  u = NoUsage \/ u \in UsagesIn(resp)
<1> DEFINE p == Parts(Said(resp.events[i]))
<1>1. p \in Seq(Letters)
  <2>1. resp.events[i] \in Seq(Lines)
    <3>1. resp.events \in Seq(Events)
      BY ResponseIs
    <3>2. resp.events[i] \in Events
      BY <3>1
    <3> QED BY <3>2 DEF Events
  <2>2. Said(resp.events[i]) \in Seq(Letters)
    <3>1. Said(resp.events[i]) \in Seq(Alphabet) /\ Alphabet \subseteq Letters
      BY <2>1, SaidSteps, LettersAre
    <3> QED BY <3>1
  <2> QED BY <2>2, PartsAre
<1>2. UsageOf(p) \in UsagesIn(resp)
  BY DEF UsagesIn, UsageIn
<1>3. \A m, n \in DOMAIN p : UsageOf(SubSeq(p, m, n)) \in {NoUsage, UsageOf(p)}
  BY OneTextAssumption
<1>4. PICK q \in Seq(Letters) :
        u = UsageOf(q) /\ \E w \in Seq(Letters), z \in Seq(Letters) : p = (w \o q) \o z
  BY DEF Runs
<1>5. PICK w \in Seq(Letters), z \in Seq(Letters) : p = (w \o q) \o z
  BY <1>4
<1> HIDE DEF p
<1>6. CASE q = <<>>
  BY <1>4, <1>6, UsageOfNone
<1>7. CASE q # <<>>
  <2> DEFINE a == Len(w)
             b == Len(q)
             v == w \o q
  <2>1. /\ a \in Nat /\ b \in Nat /\ b > 0 /\ v \in Seq(Letters) /\ Len(v) = a + b
        /\ \A j \in 1..b : v[a + j] = q[j]
    BY <1>7
  <2> HIDE DEF v
  <2>2. p = v \o z
    BY <1>5 DEF v
  <2>3. Len(p) = Len(v) + Len(z) /\ Len(z) \in Nat /\ \A j \in 1..Len(v) : p[j] = v[j]
    <3>1. v \in Seq(Letters) /\ z \in Seq(Letters)
      BY <2>1
    <3> HIDE DEF a, b
    <3>2. /\ Len(v \o z) = Len(v) + Len(z) /\ Len(z) \in Nat
          /\ \A j \in 1..Len(v) : (v \o z)[j] = v[j]
      BY <3>1, ConcatIs
    <3> QED BY <2>2, <3>2
  <2> HIDE DEF a, b
  <2>4. a + 1 \in DOMAIN p /\ a + b \in DOMAIN p /\ DOMAIN p = 1..Len(p)
    BY <1>1, <2>1, <2>3
  <2>5. \A j \in 1..b : p[a + j] = q[j]
    <3> SUFFICES ASSUME NEW j \in 1..b PROVE p[a + j] = q[j]
      OBVIOUS
    <3>1. a + j \in 1..Len(v)
      BY <2>1
    <3> QED BY <2>1, <2>3, <3>1
  <2> DEFINE y == SubSeq(p, a + 1, a + b)
  <2>6. y \in Seq(Letters) /\ Len(y) = b /\ \A j \in 1..b : y[j] = p[a + j]
    <3>1. a + b <= Len(p) /\ Len(p) \in Nat
      BY <1>1, <2>4
    <3> QED BY <1>1, <2>1, <3>1
  <2>7. y = q
    <3> HIDE DEF y
    <3> QED BY <2>5, <2>6 DEF b
  <2> QED BY <1>2, <1>3, <1>4, <2>4, <2>7
<1> QED BY <1>6, <1>7

---------------------------------------------------------------------------
(* The decoder, in pieces.                                                 *)

\* What the decoder keeps of bytes that came at once.
LEMMA DecodeFields ==
  ASSUME NEW S, NEW waiting \in BOOLEAN, NEW bytes \in Seq(S), Len(bytes) > 0
  PROVE  /\ Decode(waiting, bytes).held <=> bytes[Len(bytes)] = Lead
         /\ Decode(waiting, bytes).ok <=>
              \A i \in 1..Len(bytes) :
                bytes[i] = Trail <=> (i = 1 /\ waiting) \/ (i # 1 /\ bytes[i - 1] = Lead)
<1>1. DOMAIN bytes = 1..Len(bytes) /\ bytes # <<>>
  OBVIOUS
<1>2. Decode(waiting, bytes).ok <=>
        \A i \in DOMAIN bytes :
          bytes[i] = Trail <=> (i = 1 /\ waiting) \/ (i # 1 /\ bytes[i - 1] = Lead)
  BY DEF Decode
<1>3. Decode(waiting, bytes).held <=> bytes[Len(bytes)] = Lead
  BY <1>1 DEF Decode
<1> QED BY <1>1, <1>2, <1>3

\* The same of bytes that nothing comes before.
LEMMA DecodeAfresh ==
  ASSUME NEW S, NEW bytes \in Seq(S)
  PROVE  /\ Decode(FALSE, bytes).held \in BOOLEAN
         /\ Decode(FALSE, bytes).held <=> Len(bytes) # 0 /\ bytes[Len(bytes)] = Lead
         /\ Decode(FALSE, bytes).ok <=>
              \A i \in 1..Len(bytes) : bytes[i] = Trail <=> (i # 1 /\ bytes[i - 1] = Lead)
<1>1. DOMAIN bytes = 1..Len(bytes) /\ (bytes = <<>> <=> Len(bytes) = 0)
  OBVIOUS
<1>2. Decode(FALSE, bytes).ok <=>
        \A i \in DOMAIN bytes : bytes[i] = Trail <=> (i # 1 /\ bytes[i - 1] = Lead)
  BY DEF Decode
<1>3. /\ Decode(FALSE, bytes).held \in BOOLEAN
      /\ Decode(FALSE, bytes).held <=> Len(bytes) # 0 /\ bytes[Len(bytes)] = Lead
  BY <1>1 DEF Decode
<1> QED BY <1>1, <1>2, <1>3

\* Nothing is no half of a character.
LEMMA DecodeNothing ==
  ASSUME NEW S, NEW bytes \in Seq(S), Len(bytes) = 0
  PROVE  Decode(FALSE, bytes).ok /\ Decode(FALSE, bytes).held \in BOOLEAN
         /\ ~Decode(FALSE, bytes).held
<1>1. DOMAIN bytes = {}
  OBVIOUS
<1>2. Decode(FALSE, bytes).ok
  BY <1>1 DEF Decode
<1>3. /\ Decode(FALSE, bytes).held \in BOOLEAN
      /\ Decode(FALSE, bytes).held <=> Len(bytes) # 0 /\ bytes[Len(bytes)] = Lead
  BY DecodeAfresh
<1> QED BY <1>2, <1>3

\* Whether the decoder waits is a truth value.
LEMMA HeldType ==
  ASSUME NEW waiting \in BOOLEAN, NEW bytes
  PROVE  Decode(waiting, bytes).held \in BOOLEAN
BY DEF Decode

\* Feeding more to a decoder: the sequences are what was fed before, what is fed
\* now, and both at once.
LEMMA DecodeMore ==
  ASSUME NEW S, NEW first \in Seq(S), NEW next \in Seq(S), NEW whole \in Seq(S),
         Len(next) > 0, Len(whole) = Len(first) + Len(next),
         \A i \in 1..Len(first) : first[i] = whole[i],
         \A i \in 1..Len(next) : next[i] = whole[Len(first) + i],
         Decode(FALSE, first).ok, NEW h \in BOOLEAN, h <=> Decode(FALSE, first).held
  PROVE  /\ Decode(h, next).ok <=> Decode(FALSE, whole).ok
         /\ Decode(h, next).held <=> Decode(FALSE, whole).held
<1> DEFINE n == Len(first)
           k == Len(next)
           Follows(i) == whole[i] = Trail <=> (i # 1 /\ whole[i - 1] = Lead)
<1>n. n \in Nat /\ k \in Nat /\ k > 0 /\ Len(whole) = n + k
  OBVIOUS
<1>2. h <=> n # 0 /\ whole[n] = Lead
  <2>1. h <=> n # 0 /\ first[n] = Lead
    BY DecodeAfresh
  <2>2. n # 0 => first[n] = whole[n]
    BY <1>n
  <2> QED BY <2>1, <2>2
<1>3. \A i \in 1..n : Follows(i)
  <2>1. \A i \in 1..n : first[i] = Trail <=> (i # 1 /\ first[i - 1] = Lead)
    BY DecodeAfresh
  <2>2. \A i \in 1..n : first[i] = whole[i] /\ (i # 1 => first[i - 1] = whole[i - 1])
    BY <1>n
  <2>3. ASSUME NEW i \in 1..n
        PROVE  Follows(i)
    <3>1. first[i] = Trail <=> (i # 1 /\ first[i - 1] = Lead)
      BY <2>1
    <3>2. first[i] = whole[i] /\ (i # 1 => first[i - 1] = whole[i - 1])
      BY <2>2
    <3> QED BY <3>1, <3>2
  <2> QED BY <2>3
<1>4. Decode(FALSE, whole).ok <=> \A i \in 1..(n + k) : Follows(i)
  <2>1. Decode(FALSE, whole).ok <=> \A i \in 1..Len(whole) : Follows(i)
    BY DecodeAfresh
  <2> HIDE DEF Follows
  <2> QED BY <1>n, <2>1
<1>5. Decode(h, next).ok <=> \A i \in 1..k : Follows(n + i)
  <2>1. Decode(h, next).ok <=>
          \A i \in 1..k : next[i] = Trail <=> (i = 1 /\ h) \/ (i # 1 /\ next[i - 1] = Lead)
    BY <1>n, DecodeFields
  <2>2. ASSUME NEW i \in 1..k
        PROVE  (next[i] = Trail <=> (i = 1 /\ h) \/ (i # 1 /\ next[i - 1] = Lead))
                 <=> Follows(n + i)
    <3>1. CASE i = 1
      BY <1>n, <1>2, <3>1
    <3>2. CASE i # 1
      <4>1. i - 1 \in 1..k /\ n + (i - 1) = (n + i) - 1 /\ n + i # 1
        BY <1>n, <3>2
      <4> QED BY <3>2, <4>1
    <3> QED BY <3>1, <3>2
  <2> HIDE DEF Follows
  <2> QED BY <2>1, <2>2
<1>6. (\A i \in 1..k : Follows(n + i)) <=> \A i \in 1..(n + k) : Follows(i)
  <2>1. ASSUME \A i \in 1..k : Follows(n + i), NEW i \in 1..(n + k)
        PROVE  Follows(i)
    <3>1. CASE i \in 1..n
      BY <3>1, <1>3
    <3>2. CASE i \notin 1..n
      <4>1. i - n \in 1..k /\ n + (i - n) = i
        BY <1>n, <3>2
      <4> HIDE DEF Follows
      <4> QED BY <2>1, <4>1
    <3> QED BY <3>1, <3>2
  <2>2. \A i \in 1..k : n + i \in 1..(n + k)
    BY <1>n
  <2> HIDE DEF Follows
  <2> QED BY <2>1, <2>2
<1>7. Decode(h, next).held <=> Decode(FALSE, whole).held
  <2>1. Decode(h, next).held <=> next[k] = Lead
    BY <1>n, DecodeFields
  <2>2. Decode(FALSE, whole).held <=> Len(whole) # 0 /\ whole[Len(whole)] = Lead
    BY DecodeAfresh
  <2>3. next[k] = whole[n + k] /\ Len(whole) # 0
    BY <1>n
  <2>4. next[k] = whole[Len(whole)]
    BY <1>n, <2>3
  <2> QED BY <2>1, <2>2, <2>3, <2>4
<1>8. Decode(h, next).ok <=> Decode(FALSE, whole).ok
  <2> HIDE DEF Follows
  <2> QED BY <1>4, <1>5, <1>6
<1> QED BY <1>7, <1>8

(***************************************************************************)
(* The decoder is incremental: the k bytes behind the first n, fed to it   *)
(* where those left it, are refused just if all of them at once are, and   *)
(* leave it where all would (codecs.IncrementalDecoder, in _feed_sse).     *)
(***************************************************************************)
LEMMA DecodeInPieces ==
  ASSUME NEW S, NEW s \in Seq(S), NEW n \in 0..Len(s), NEW k \in 1..(Len(s) - n),
         Decode(FALSE, SubSeq(s, 1, n)).ok,
         NEW h \in BOOLEAN, h <=> Decode(FALSE, SubSeq(s, 1, n)).held
  PROVE  /\ Decode(h, SubSeq(s, n + 1, n + k)).ok <=> Decode(FALSE, SubSeq(s, 1, n + k)).ok
         /\ Decode(h, SubSeq(s, n + 1, n + k)).held <=> Decode(FALSE, SubSeq(s, 1, n + k)).held
<1> DEFINE first == SubSeq(s, 1, n)
           next == SubSeq(s, n + 1, n + k)
           whole == SubSeq(s, 1, n + k)
<1>1. /\ first \in Seq(S) /\ Len(first) = n /\ (\A i \in 1..n : first[i] = s[i])
      /\ whole \in Seq(S) /\ Len(whole) = n + k /\ (\A i \in 1..(n + k) : whole[i] = s[i])
      /\ next \in Seq(S) /\ Len(next) = k /\ (\A i \in 1..k : next[i] = s[n + i])
  OBVIOUS
<1>2. Decode(FALSE, first).ok /\ (h <=> Decode(FALSE, first).held)
  OBVIOUS
<1> HIDE DEF first, next, whole
<1>3. /\ Len(next) > 0 /\ Len(whole) = Len(first) + Len(next)
      /\ \A i \in 1..Len(first) : first[i] = whole[i]
      /\ \A i \in 1..Len(next) : next[i] = whole[Len(first) + i]
  <2>1. ASSUME NEW i \in 1..n PROVE first[i] = whole[i]
    <3>1. i \in 1..(n + k)
      OBVIOUS
    <3> QED BY <1>1, <3>1
  <2>2. ASSUME NEW i \in 1..k PROVE next[i] = whole[n + i]
    <3>1. n + i \in 1..(n + k)
      OBVIOUS
    <3> QED BY <1>1, <3>1
  <2>3. Len(next) > 0 /\ Len(whole) = Len(first) + Len(next)
    BY <1>1
  <2>4. Len(first) = n /\ Len(next) = k
    BY <1>1
  <2> QED BY <2>1, <2>2, <2>3, <2>4
<1>4. /\ Decode(h, next).ok <=> Decode(FALSE, whole).ok
      /\ Decode(h, next).held <=> Decode(FALSE, whole).held
  BY <1>1, <1>2, <1>3, DecodeMore
<1> QED BY <1>4 DEF next, whole

---------------------------------------------------------------------------
(* The relay.                                                              *)

\* What is left to read, and where reading n bytes more ends.
LEMMA ReadMore ==
  ASSUME IInv, NEW n \in 1..Left
  PROVE  /\ Bytes(response) \in Seq(Octets)
         /\ taken \in Nat /\ n \in Nat
         /\ n \in 1..(Len(Bytes(response)) - taken)
         /\ taken + n \in 0..Len(Bytes(response))
<1>1. Bytes(response) \in Seq(Octets)
  BY BytesType DEF IInv
<1>2. Len(Bytes(response)) \in Nat
  BY <1>1
<1> QED BY <1>1, <1>2 DEF IInv, Left

\* The feed of an event stream refuses a chunk just if the decoder refuses all it
\* has read then, and leaves the decoder where that does.
LEMMA FedSoFar ==
  ASSUME IInv, status = "relaying", response.type = "sse", NEW n \in 1..Left
  PROVE  LET chunk == SubSeq(Bytes(response), taken + 1, taken + n)
             after == Decode(FALSE, SubSeq(Bytes(response), 1, taken + n))
         IN /\ Decode(held, chunk).ok <=> after.ok
            /\ Decode(held, chunk).held <=> after.held
            /\ after.held \in BOOLEAN
<1>1. /\ Bytes(response) \in Seq(Octets)
      /\ taken \in 0..Len(Bytes(response))
      /\ n \in 1..(Len(Bytes(response)) - taken)
  BY ReadMore DEF IInv
<1>2. held \in BOOLEAN /\ Read.ok /\ (held <=> Read.held)
  BY DEF IInv
<1>3. /\ Decode(FALSE, SubSeq(Bytes(response), 1, taken)).ok
      /\ held <=> Decode(FALSE, SubSeq(Bytes(response), 1, taken)).held
  BY <1>2 DEF Read
<1>4. SubSeq(Bytes(response), 1, taken + n) \in Seq(Octets)
  BY <1>1
<1>5. Decode(FALSE, SubSeq(Bytes(response), 1, taken + n)).held \in BOOLEAN
  BY <1>4, DecodeAfresh
<1>6. /\ Decode(held, SubSeq(Bytes(response), taken + 1, taken + n)).ok <=>
           Decode(FALSE, SubSeq(Bytes(response), 1, taken + n)).ok
      /\ Decode(held, SubSeq(Bytes(response), taken + 1, taken + n)).held <=>
           Decode(FALSE, SubSeq(Bytes(response), 1, taken + n)).held
  BY <1>1, <1>2, <1>3, DecodeInPieces
<1> QED BY <1>5, <1>6

\* Nothing is read at first.
LEMMA InitIInv == Init => IInv
<1> SUFFICES ASSUME Init PROVE IInv
  OBVIOUS
<1>1. response \in Responses /\ taken = 0 /\ yielded = 0 /\ held = FALSE /\ status = "relaying"
  BY DEF Init
<1>2. Bytes(response) \in Seq(Octets)
  BY <1>1, BytesType
<1>3. taken \in 0..Len(Bytes(response))
  BY <1>1, <1>2
<1>4. /\ SubSeq(Bytes(response), 1, taken) \in Seq(Octets)
      /\ Len(SubSeq(Bytes(response), 1, taken)) = 0
  BY <1>1, <1>2
<1>5. Read.ok /\ Read.held \in BOOLEAN /\ ~Read.held
  BY <1>4, DecodeNothing DEF Read
<1>6. held = Read.held
  BY <1>1, <1>5
<1> QED BY <1>1, <1>3, <1>5, <1>6 DEF IInv

\* A step that reads nothing and does not break keeps what was read.
LEMMA ReadsNothing ==
  ASSUME IInv, UNCHANGED <<response, taken, yielded, held>>,
         \/ status' = status
         \/ status = "relaying" /\ status' = "complete" /\ Left = 0
         \/ status = "relaying" /\ status' = "abandoned"
  PROVE  IInv'
<1>1. Read' = Read /\ Left' = Left /\ Bytes(response)' = Bytes(response)
  BY DEF Read, Left
<1> QED BY <1>1 DEF IInv

\* The decoder stays where one of all the bytes would be.
LEMMA StepIInv == IInv /\ [Next]_vars => IInv'
<1> SUFFICES ASSUME IInv, [Next]_vars PROVE IInv'
  OBVIOUS
<1>1. CASE Relay
  <2>1. status = "relaying" /\ status' = "relaying" /\ response' = response
    BY <1>1 DEF Relay
  <2>2. PICK n \in 1..Left :
          LET chunk == SubSeq(Bytes(response), taken + 1, taken + n)
          IN /\ IF response.type = "sse" THEN FeedSse(chunk) ELSE FeedBody(chunk)
             /\ taken' = taken + n
             /\ yielded' = taken + n
    BY <1>1 DEF Relay
  <2>3. taken' \in 0..Len(Bytes(response)) /\ Bytes(response)' = Bytes(response)
    BY <2>1, <2>2, ReadMore
  <2>4. Read' = Decode(FALSE, SubSeq(Bytes(response), 1, taken + n))
    BY <2>1, <2>2 DEF Read
  <2>5. held' \in BOOLEAN /\ (response.type = "sse" => Read'.ok /\ held' = Read'.held)
    <3>1. CASE response.type = "sse"
      <4>1. /\ Decode(held, SubSeq(Bytes(response), taken + 1, taken + n)).ok
            /\ held' = Decode(held, SubSeq(Bytes(response), taken + 1, taken + n)).held
        BY <2>2, <3>1 DEF FeedSse, FeedRaises
      <4>2. held \in BOOLEAN
        BY DEF IInv
      <4>3. Decode(held, SubSeq(Bytes(response), taken + 1, taken + n)).held \in BOOLEAN
        BY <4>2, HeldType
      <4> QED BY <2>1, <2>4, <3>1, <4>1, <4>3, FedSoFar
    <3>2. CASE response.type # "sse"
      BY <2>2, <3>2 DEF FeedBody, IInv
    <3> QED BY <3>1, <3>2
  <2> QED BY <2>1, <2>2, <2>3, <2>5 DEF IInv
<1>2. CASE FeedFails
  <2>1. /\ status = "relaying" /\ status' = "broken" /\ response.type = "sse"
        /\ UNCHANGED <<response, held>>
    BY <1>2 DEF FeedFails
  <2>2. PICK n \in 1..Left : taken' = taken + n
    BY <1>2 DEF FeedFails
  <2>3. taken' \in 0..Len(Bytes(response)) /\ Bytes(response)' = Bytes(response)
    BY <2>1, <2>2, ReadMore
  <2> QED BY <2>1, <2>3 DEF IInv
<1>3. CASE Complete
  BY <1>3, ReadsNothing DEF Complete
<1>4. CASE Abandon
  BY <1>4, ReadsNothing DEF Abandon
<1>5. CASE UNCHANGED vars
  BY <1>5, ReadsNothing DEF vars
<1> QED BY <1>1, <1>2, <1>3, <1>4, <1>5 DEF Next

\* IInv holds throughout.
LEMMA Invariant == Spec => []IInv
BY InitIInv, StepIInv, PTL DEF Spec

---------------------------------------------------------------------------
(* The capture throughout, and what follows.                               *)

\* The bytes read so far.
SoFar == SubSeq(Bytes(response), 1, taken)

(***************************************************************************)
(* Why the capture is right: between two chunks its buffer is clean, and   *)
(* it agrees with a reader of all the bytes read so far; a body is kept as *)
(* it came; what was reported is what was known at the end; what broke the *)
(* relay was in the response.                                              *)
(***************************************************************************)
CaptureInv ==
  /\ IInv
  /\ status \in {"relaying", "complete", "broken", "abandoned"}
  /\ yielded \in 0..taken
  /\ usage \in Counts
  /\ response.type = "sse" => Drained(buffer)
  /\ response.type = "sse" /\ status # "broken" => Agree(Between(usage, buffer), held, Reader(SoFar))
  /\ response.type = "json" => buffer = SoFar
  /\ response.type # "sse" => usage = Nothing
  /\ reported = NoUsage \/ (status = "complete" /\ reported = Final)
  /\ status = "broken" => ~Read.ok \/ UsagesIn(response) \cap Raising # {}

\* The first bytes, a chunk, and both.
LEMMA FirstAndNext ==
  ASSUME NEW D, NEW s \in Seq(D), NEW n \in 0..Len(s), NEW k \in 1..(Len(s) - n)
  PROVE  /\ SubSeq(s, 1, n) \in Seq(D) /\ SubSeq(s, n + 1, n + k) \in Seq(D)
         /\ SubSeq(s, 1, n + k) = SubSeq(s, 1, n) \o SubSeq(s, n + 1, n + k)
<1> DEFINE first == SubSeq(s, 1, n)
           next == SubSeq(s, n + 1, n + k)
           whole == SubSeq(s, 1, n + k)
           both == first \o next
<1>1. /\ first \in Seq(D) /\ Len(first) = n /\ (\A i \in 1..n : first[i] = s[i])
      /\ whole \in Seq(D) /\ Len(whole) = n + k /\ (\A i \in 1..(n + k) : whole[i] = s[i])
      /\ next \in Seq(D) /\ Len(next) = k /\ (\A i \in 1..k : next[i] = s[n + i])
  OBVIOUS
<1> HIDE DEF first, next, whole
<1>2. both \in Seq(D) /\ Len(both) = n + k
      /\ (\A i \in 1..n : both[i] = first[i])
      /\ (\A i \in 1..k : both[n + i] = next[i])
  <2>1. first \in Seq(D) /\ next \in Seq(D) /\ Len(first) = n /\ Len(next) = k
    BY <1>1
  <2>2. first \in Seq(D) /\ next \in Seq(D)
    BY <1>1
  <2>3. /\ first \o next \in Seq(D) /\ Len(first \o next) = Len(first) + Len(next)
        /\ \A i \in 1..Len(first) : (first \o next)[i] = first[i]
        /\ \A i \in 1..Len(next) : (first \o next)[Len(first) + i] = next[i]
    BY ONLY <2>2, ConcatIs
  <2> QED BY <2>1, <2>3
<1> HIDE DEF both
<1>3. \A i \in 1..(n + k) : both[i] = s[i]
  <2> SUFFICES ASSUME NEW i \in 1..(n + k) PROVE both[i] = s[i]
    OBVIOUS
  <2>1. CASE i \in 1..n
    BY <1>1, <1>2, <2>1
  <2>2. CASE i \notin 1..n
    <3> DEFINE j == i - n
    <3>1. j \in 1..k /\ n + j = i
      BY <2>2
    <3> HIDE DEF j
    <3>2. both[n + j] = next[j] /\ next[j] = s[n + j]
      BY <1>1, <1>2, <3>1
    <3> QED BY <3>1, <3>2
  <2> QED BY <2>1, <2>2
<1>4. both = whole
  BY <1>1, <1>2, <1>3
<1> QED BY <1>1, <1>4 DEF both, first, next, whole

\* The capture agrees with a reader of nothing.
LEMMA InitCapture == Init => CaptureInv
<1> SUFFICES ASSUME Init PROVE CaptureInv
  OBVIOUS
<1>1. IInv
  BY InitIInv
<1>2. response \in Responses /\ taken = 0 /\ yielded = 0 /\ held = FALSE /\ buffer = <<>> /\ usage = Nothing
      /\ reported = NoUsage /\ status = "relaying"
  BY DEF Init
<1>3. SoFar = <<>>
  <2>1. Bytes(response) \in Seq(Octets)
    BY <1>2, BytesType
  <2> QED BY <1>2, <2>1 DEF SoFar
<1>4. Agree(Between(Nothing, <<>>), FALSE, Reader0)
  <2> DEFINE f == Between(Nothing, <<>>)
  <2>1. f \in Feeds /\ f.used = Nothing /\ f.left = <<>> /\ f.cr = FALSE
    <3>1. Nothing \in Counts /\ <<>> \in Seq(Letters)
      BY DEF Nothing, Counts
    <3> QED BY <3>1 DEF Between, Feeds
  <2>2. Scanned(<<>>) = Unscanned
    BY ScanSteps
  <2>3. Pending(f) = <<>>
    BY <2>1, <2>2, PartsNone DEF Pending, EventData, Unscanned
  <2> HIDE DEF f
  <2>4. Mode(f, FALSE, Reader0)
    BY <2>1, <2>2 DEF Mode, Reader0, Unscanned
  <2>5. Exact(f, Reader0)
    BY <2>1, <2>3 DEF Exact, Same, Reader0
  <2>6. FromText(f, Reader0)
    <3>1. <<>> \in Seq(Letters)
      OBVIOUS
    <3>2. Pending(f) \in Endings(Reader0.parts)
      BY <2>3, <3>1, EndingsNone DEF Reader0
    <3>3. \A k \in Keys : f.used[k] = 0
      BY <2>1 DEF Nothing
    <3> QED BY <3>2, <3>3 DEF FromText
  <2>7. Agree(f, FALSE, Reader0)
    BY <2>1, <2>4, <2>5, <2>6, SoundFirst DEF Agree
  <2> QED BY <2>7 DEF f
<1>5. Agree(Between(usage, buffer), held, Reader(SoFar))
  BY <1>2, <1>3, <1>4, ReaderSteps
<1>6. usage \in Counts /\ Drained(buffer) /\ yielded \in 0..taken
  BY <1>2, DrainedNone DEF Nothing, Counts
<1> QED BY <1>1, <1>2, <1>3, <1>5, <1>6 DEF CaptureInv

\* A chunk of an event stream that the decoder accepts.
LEMMA FeedSseKeeps ==
  ASSUME CaptureInv, response.type = "sse", status = "relaying", NEW n \in 1..Left,
         FeedSse(SubSeq(Bytes(response), taken + 1, taken + n)),
         response' = response, taken' = taken + n
  PROVE  /\ usage' \in Counts /\ Drained(buffer')
         /\ Agree(Between(usage', buffer'), held', Reader(SoFar'))
<1> DEFINE c == SubSeq(Bytes(response), taken + 1, taken + n)
           s == SoFar
           f == Fed(buffer, usage, c)
<1>1. IInv /\ usage \in Counts /\ Drained(buffer) /\ held \in BOOLEAN /\ taken \in 0..Len(Bytes(response))
      /\ response \in Responses
  BY DEF CaptureInv, IInv
<1>2. Bytes(response) \in Seq(Octets) /\ n \in 1..(Len(Bytes(response)) - taken)
  BY <1>1, ReadMore
<1>3. c \in Seq(Octets) /\ s \in Seq(Octets) /\ SoFar' = s \o c
  <2>1. /\ SubSeq(Bytes(response), 1, taken) \in Seq(Octets) /\ c \in Seq(Octets)
        /\ SubSeq(Bytes(response), 1, taken + n) = SubSeq(Bytes(response), 1, taken) \o c
    BY <1>1, <1>2, FirstAndNext
  <2>2. SoFar' = SubSeq(Bytes(response), 1, taken + n)
    BY DEF SoFar
  <2> HIDE DEF c
  <2> QED BY <2>1, <2>2 DEF SoFar
<1>4. /\ Decode(held, c).ok /\ held' = Decode(held, c).held
      /\ buffer' = f.left /\ usage' = f.used
  <2>1. /\ Decode(held, c).ok /\ held' = Decode(held, c).held
        /\ buffer' = Split(Normal(buffer \o Decode(held, c).text)).left
        /\ usage' = FoldLeft(Apply, usage, Split(Normal(buffer \o Decode(held, c).text)).events)
    BY DEF FeedSse, FeedRaises
  <2>2. Decode(held, c).text = Decoded(c)
    BY DEF Decode
  <2> HIDE DEF c
  <2> QED BY <2>1, <2>2 DEF Fed
<1>5. Agree(Between(usage, buffer), held, Reader(s))
  BY DEF CaptureInv
<1> HIDE DEF c, s
<1>6. Agree(f, Decode(held, c).held, Reader(s \o c))
  BY <1>1, <1>3, <1>4, <1>5, AgreeChunk
<1>7. f \in Feeds /\ Drained(f.left)
  BY <1>1, <1>3, CleanChunk
<1>8. Decode(held, c).held \in BOOLEAN
  BY <1>1, HeldType
<1> HIDE DEF f
<1>9. Agree(Between(f.used, f.left), Decode(held, c).held, Reader(s \o c))
  BY <1>6, <1>8, AgreeBetween
<1>10. usage' \in Counts
  BY <1>4, <1>7 DEF Feeds
<1> QED BY <1>3, <1>4, <1>7, <1>9, <1>10

\* What ends the relay is a byte that is no text, or an event of the response.
LEMMA FeedFailsSo ==
  ASSUME CaptureInv, FeedFails
  PROVE  ~Read'.ok \/ UsagesIn(response') \cap Raising # {}
<1>1. /\ IInv /\ status = "relaying" /\ response.type = "sse" /\ response' = response
      /\ response \in Responses /\ held \in BOOLEAN /\ taken \in 0..Len(Bytes(response))
      /\ usage \in Counts /\ Drained(buffer) /\ Agree(Between(usage, buffer), held, Reader(SoFar))
  BY DEF CaptureInv, IInv, FeedFails
<1>2. PICK n \in 1..Left :
        /\ FeedRaises(SubSeq(Bytes(response), taken + 1, taken + n))
        /\ taken' = taken + n
  BY DEF FeedFails
<1> DEFINE c == SubSeq(Bytes(response), taken + 1, taken + n)
           all == Bytes(response)
<1>3. Read' = Decode(FALSE, SubSeq(all, 1, taken + n))
  BY <1>1, <1>2 DEF Read
<1>4. Decode(held, c).ok <=> Read'.ok
  BY <1>1, <1>3, FedSoFar
<1>5. all \in Seq(Octets) /\ n \in 1..(Len(all) - taken) /\ taken + n \in 0..Len(all)
  BY <1>1, ReadMore
<1>6. c \in Seq(Octets) /\ SoFar \in Seq(Octets) /\ SubSeq(all, 1, taken + n) = SoFar \o c
  <2>1. /\ SubSeq(all, 1, taken) \in Seq(Octets) /\ c \in Seq(Octets)
        /\ SubSeq(all, 1, taken + n) = SubSeq(all, 1, taken) \o c
    BY <1>1, <1>5, FirstAndNext
  <2> HIDE DEF c
  <2> QED BY <2>1 DEF SoFar
<1> HIDE DEF c
<1>7. CASE ~Decode(held, c).ok
  BY <1>4, <1>7
<1>8. CASE Decode(held, c).ok
  <2>1. PICK e \in ToSet(Split(Normal(buffer \o Decode(held, c).text)).events) : Raises(e)
    BY <1>2, <1>8 DEF FeedRaises, c
  <2>2. Decode(held, c).text = Decoded(c)
    BY DEF Decode
  <2>3. UsageIn(EventData(e)) \in ToldBy(buffer, c) /\ UsageIn(EventData(e)) \in Raising
    BY <2>1, <2>2 DEF ToldBy, Pieces, Raises
  <2> DEFINE u == UsageIn(EventData(e))
  <2>4. u \in Raising /\ u # NoUsage
    BY <2>3, CaptureAssumption DEF NoUsage
  <2>5. ToldBy(buffer, c) \subseteq Reader(SoFar \o c).could \cup {NoUsage}
    BY <1>1, <1>6, <1>8, HeardFromText
  <2>6. u \in Reader(SoFar \o c).could
    BY <2>3, <2>4, <2>5
  <2>7. Reader(SoFar \o c).could \subseteq Reader(all).could
    <3>1. SubSeq(all, 1, taken + n) \in Seq(Octets)
      BY <1>5, <1>6
    <3> DEFINE m == taken + n
    <3>2. m \in 0..Len(all)
      BY <1>5
    <3>3. CASE m = Len(all)
      <4>1. SubSeq(all, 1, m) = all
        BY <1>5, <3>3
      <4> QED BY <1>6, <4>1
    <3>4. CASE m # Len(all)
      <4> HIDE DEF m, all
      <4>1. Len(all) - m \in 1..(Len(all) - m) /\ m + (Len(all) - m) = Len(all)
        BY <1>5, <3>2, <3>4
      <4> DEFINE k == Len(all) - m
      <4>2. k \in 1..(Len(all) - m) /\ m + k = Len(all)
        BY <4>1
      <4> HIDE DEF k
      <4>3. /\ SubSeq(all, m + 1, m + k) \in Seq(Octets)
            /\ SubSeq(all, 1, m + k) = SubSeq(all, 1, m) \o SubSeq(all, m + 1, m + k)
        BY <1>5, <3>2, <4>2, FirstAndNext
      <4>4. SubSeq(all, 1, m + k) = all
        BY <1>5, <4>2
      <4>5. SubSeq(all, 1, m) = SoFar \o c /\ SubSeq(all, 1, m) \in Seq(Octets)
        BY <1>6, <3>1 DEF m
      <4> QED BY <4>3, <4>4, <4>5, CouldGrows
    <3> QED BY <3>3, <3>4
  <2> HIDE DEF u
  <2>8. u \in Reader(Bytes(response)).could
    BY <2>6, <2>7
  <2>9. PICK i \in DOMAIN response.events : u \in Runs(Parts(Said(response.events[i])))
    BY <1>1, <2>8, ResponseIsRead
  <2>10. u \in UsagesIn(response)
    BY <1>1, <2>4, <2>9, RunsAreStated
  <2> QED BY <1>1, <2>4, <2>10
<1> QED BY <1>7, <1>8

\* Every chunk keeps the capture where a reader of all the bytes is.
LEMMA StepCapture == CaptureInv /\ [Next]_vars => CaptureInv'
<1> SUFFICES ASSUME CaptureInv, [Next]_vars PROVE CaptureInv'
  OBVIOUS
<1>i. IInv /\ IInv'
  BY StepIInv DEF CaptureInv
<1>t. response \in Responses /\ taken \in Nat /\ yielded \in 0..taken /\ usage \in Counts
      /\ response.type \in {"sse", "json", "other"}
  <2>1. response \in Responses /\ taken \in 0..Len(Bytes(response))
    BY <1>i DEF IInv
  <2>2. Bytes(response) \in Seq(Octets) /\ response.type \in {"sse", "json", "other"}
    BY <2>1, BytesType, ResponseIs
  <2> QED BY <2>1, <2>2 DEF CaptureInv
<1>1. CASE Relay
  <2>1. status = "relaying" /\ status' = "relaying" /\ response' = response /\ reported' = reported
    BY <1>1 DEF Relay
  <2>2. PICK n \in 1..Left :
          LET chunk == SubSeq(Bytes(response), taken + 1, taken + n)
          IN /\ IF response.type = "sse" THEN FeedSse(chunk) ELSE FeedBody(chunk)
             /\ taken' = taken + n
             /\ yielded' = taken + n
    BY <1>1 DEF Relay
  <2>3. yielded' \in 0..taken'
    <3>1. n \in Nat
      BY <1>i, ReadMore
    <3> QED BY <1>t, <2>2, <3>1
  <2>4. reported' = NoUsage
    BY <2>1 DEF CaptureInv
  <2>5. CASE response.type = "sse"
    <3>1. /\ usage' \in Counts /\ Drained(buffer')
          /\ Agree(Between(usage', buffer'), held', Reader(SoFar'))
      <4>1. FeedSse(SubSeq(Bytes(response), taken + 1, taken + n)) /\ taken' = taken + n
        BY <2>2, <2>5
      <4> QED BY <2>1, <2>5, <4>1, FeedSseKeeps
    <3> QED BY <1>i, <2>1, <2>3, <2>4, <2>5, <3>1 DEF CaptureInv
  <2>6. CASE response.type # "sse"
    <3> DEFINE c == SubSeq(Bytes(response), taken + 1, taken + n)
    <3>1. usage' = usage /\ buffer' = IF response.type = "json" THEN buffer \o c ELSE buffer
      BY <2>2, <2>6 DEF FeedBody
    <3>2. SoFar' = SoFar \o c
      <4>1. Bytes(response) \in Seq(Octets) /\ n \in 1..(Len(Bytes(response)) - taken)
            /\ taken \in 0..Len(Bytes(response))
        BY <1>i, ReadMore DEF IInv
      <4>2. SubSeq(Bytes(response), 1, taken + n) = SubSeq(Bytes(response), 1, taken) \o c
        BY <4>1, FirstAndNext
      <4>3. SoFar' = SubSeq(Bytes(response), 1, taken + n)
        BY <2>1, <2>2 DEF SoFar
      <4> HIDE DEF c
      <4> QED BY <4>2, <4>3 DEF SoFar
    <3> HIDE DEF c
    <3>3. response.type = "json" => buffer' = SoFar'
      BY <3>1, <3>2 DEF CaptureInv
    <3>4. usage = Nothing
      BY <2>6 DEF CaptureInv
    <3> QED BY <1>i, <1>t, <2>1, <2>3, <2>4, <2>6, <3>1, <3>3, <3>4 DEF CaptureInv
  <2> QED BY <2>5, <2>6
<1>2. CASE FeedFails
  <2>1. /\ status = "relaying" /\ status' = "broken" /\ response.type = "sse"
        /\ UNCHANGED <<response, yielded, held, buffer, usage, reported>>
    BY <1>2 DEF FeedFails
  <2>2. PICK n \in 1..Left : taken' = taken + n
    BY <1>2 DEF FeedFails
  <2>3. yielded' \in 0..taken'
    <3>1. n \in Nat
      BY <1>i, ReadMore
    <3> QED BY <1>t, <2>1, <2>2, <3>1
  <2>4. reported' = NoUsage
    BY <2>1 DEF CaptureInv
  <2>5. ~Read'.ok \/ UsagesIn(response') \cap Raising # {}
    BY <1>2, FeedFailsSo
  <2> QED BY <1>i, <1>t, <2>1, <2>3, <2>4, <2>5 DEF CaptureInv
<1>3. CASE Complete
  <2>1. /\ status = "relaying" /\ status' = "complete"
        /\ UNCHANGED <<response, taken, yielded, held, buffer, usage>>
        /\ reported' = IF Unreadable THEN NoUsage ELSE Final
    BY <1>3 DEF Complete
  <2>2. SoFar' = SoFar /\ Final' = Final
    BY <2>1 DEF SoFar, Final
  <2>3. reported' = NoUsage \/ (status' = "complete" /\ reported' = Final')
    BY <2>1, <2>2
  <2> QED BY <1>i, <2>1, <2>2, <2>3 DEF CaptureInv
<1>4. CASE Abandon
  <2>1. /\ status = "relaying" /\ status' = "abandoned"
        /\ UNCHANGED <<response, taken, yielded, held, buffer, usage, reported>>
    BY <1>4 DEF Abandon
  <2>2. SoFar' = SoFar
    BY <2>1 DEF SoFar
  <2>3. reported' = NoUsage
    BY <2>1 DEF CaptureInv
  <2> QED BY <1>i, <2>1, <2>2, <2>3 DEF CaptureInv
<1>5. CASE UNCHANGED vars
  <2>1. UNCHANGED <<response, taken, yielded, held, buffer, usage, status, reported>>
    BY <1>5 DEF vars
  <2>2. SoFar' = SoFar /\ Final' = Final /\ Read' = Read
    BY <2>1 DEF SoFar, Final, Read
  <2> QED BY <1>i, <2>1, <2>2 DEF CaptureInv
<1> QED BY <1>1, <1>2, <1>3, <1>4, <1>5 DEF Next

\* CaptureInv holds throughout.
LEMMA CaptureInvariant == Spec => []CaptureInv
BY InitCapture, StepCapture, PTL DEF Spec

(***************************************************************************)
(* Of all responses, in any chunks, the capture ends the relay only of an  *)
(* event stream whose bytes are no text or which states a usage whose      *)
(* reading raises, and a relay that ends by itself has yielded every byte  *)
(* (_relay, _UsageCapture.feed, _parse_sse_event, int_value).              *)
(***************************************************************************)
THEOREM RelayIsWhole == Spec => []OnlyUnreadableBreaks
<1>1. CaptureInv => OnlyUnreadableBreaks
  <2> SUFFICES ASSUME CaptureInv PROVE OnlyUnreadableBreaks
    OBVIOUS
  <2>1. status = "broken" =>
          /\ response.type = "sse"
          /\ \/ ~Decode(FALSE, SubSeq(Bytes(response), 1, taken)).ok
             \/ UsagesIn(response) \cap Raising # {}
    BY DEF CaptureInv, IInv, Read
  <2>2. Bytes(response) \in Seq(Octets)
    BY BytesType DEF CaptureInv, IInv
  <2>3. status = "complete" => yielded = Len(Bytes(response))
    <3>1. Len(Bytes(response)) \in Nat /\ taken \in Nat
      BY <2>2 DEF CaptureInv, IInv
    <3> QED BY <3>1 DEF CaptureInv, IInv, Left
  <2> QED BY <2>1, <2>3 DEF OnlyUnreadableBreaks
<1> QED BY <1>1, CaptureInvariant, PTL

\* The usage that is reported, by the type of the response.
LEMMA FinalIs ==
  ASSUME CaptureInv
  PROVE  /\ status # "broken" => Final \in Counts
         /\ status = "complete" => SoFar = Bytes(response)
         /\ response.type = "other" => Final = Nothing
         /\ response.type = "json" /\ status = "complete" =>
              Final = Over(UsageIn(Said(response.events[1])), Nothing) /\ Truth(response) = Final
<1>1. response \in Responses /\ taken \in 0..Len(Bytes(response)) /\ usage \in Counts
  BY DEF CaptureInv, IInv
<1>2. Bytes(response) \in Seq(Octets) /\ response.type \in {"sse", "json", "other"}
  BY <1>1, BytesType, ResponseIs
<1>3. status = "complete" => SoFar = Bytes(response)
  <2> SUFFICES ASSUME status = "complete" PROVE SoFar = Bytes(response)
    OBVIOUS
  <2>1. Left = 0
    BY DEF CaptureInv, IInv
  <2>2. taken = Len(Bytes(response))
    <3>1. Len(Bytes(response)) \in Nat
      BY <1>2
    <3> QED BY <1>1, <2>1, <3>1 DEF Left
  <2> DEFINE b == Bytes(response)
  <2>3. b \in Seq(Octets)
    BY <1>2
  <2> HIDE DEF b
  <2>4. SubSeq(b, 1, Len(b)) = b
    BY <2>3
  <2> QED BY <2>2, <2>4 DEF SoFar, b
<1>4. response.type = "other" => Final = Nothing /\ Final \in Counts
  BY <1>1 DEF Final, CaptureInv
<1>5. response.type = "sse" /\ status # "broken" => Final \in Counts
  <2> SUFFICES ASSUME response.type = "sse", status # "broken" PROVE Final \in Counts
    OBVIOUS
  <2>1. Drained(buffer)
    BY DEF CaptureInv
  <2>2. Final = Apply(usage, buffer) /\ buffer \in Seq(Letters)
    BY <2>1 DEF Final, Drained
  <2> QED BY <1>1, <2>2, ApplyStep
<1>6. CASE response.type = "json"
  <2>1. buffer = SoFar /\ usage = Nothing /\ Final = Over(UsageIn(buffer), usage)
    BY <1>6 DEF CaptureInv, Final
  <2>2. buffer \in Seq(Letters)
    <3>1. SoFar \in Seq(Octets)
      <4>1. taken \in Int /\ taken <= Len(Bytes(response))
        <5>1. Len(Bytes(response)) \in Nat
          BY <1>2
        <5> QED BY <1>1, <5>1
      <4> QED BY <1>2, <4>1, SubSeqType DEF SoFar
    <3>2. Seq(Octets) \subseteq Seq(Letters)
      BY LettersAre
    <3> QED BY <2>1, <3>1, <3>2
  <2>3. Final \in Counts
    <3>1. Parts(buffer) \in Seq(Letters)
      BY <2>2, PartsAre
    <3>2. UsageIn(buffer) \in Usages \/ UsageIn(buffer) = NoUsage
      BY <3>1, UsageOfType DEF UsageIn
    <3> QED BY <1>1, <2>1, <3>2, UsageOver
  <2> DEFINE e == response.events[1]
  <2>4. response.events = <<e>> /\ e \in Events /\ Bytes(response) = Said(e)
    BY <1>1, <1>6, ResponseIs
  <2> HIDE DEF e
  <2>5. Truth(response) = Over(UsageIn(Said(e)), Nothing)
    <3>1. <<>> \in Seq(Events) /\ <<e>> = Append(<<>>, e)
      OBVIOUS
    <3>2. FoldLeft(Stated, Nothing, <<e>>) = Stated(FoldLeft(Stated, Nothing, <<>>), e)
      BY <2>4, <3>1, StatedSteps
    <3> QED BY <2>4, <3>2, StatedSteps DEF Truth, Stated
  <2>6. status = "complete" => Final = Over(UsageIn(Said(e)), Nothing)
    BY <1>3, <2>1, <2>4
  <2> QED BY <1>3, <1>6, <2>3, <2>5, <2>6 DEF e
<1> QED BY <1>2, <1>3, <1>4, <1>5, <1>6

(***************************************************************************)
(* Types; the client never has more than was read, and the buffer never    *)
(* keeps a complete event, for any response in any chunks (_relay,         *)
(* _feed_sse).                                                             *)
(***************************************************************************)
THEOREM CaptureTypes == Spec => []TypeOK
<1>1. CaptureInv => TypeOK
  <2> SUFFICES ASSUME CaptureInv PROVE TypeOK
    OBVIOUS
  <2>1. /\ response \in Responses /\ taken \in 0..Len(Bytes(response)) /\ yielded \in 0..taken
        /\ held \in BOOLEAN /\ usage \in [Keys -> Nat]
    BY DEF CaptureInv, IInv, Counts
  <2>2. status \in {"relaying", "complete", "broken", "abandoned"}
    BY DEF CaptureInv, IInv
  <2>3. reported = NoUsage \/ reported \in [Keys -> Nat]
    BY FinalIs DEF CaptureInv, Counts
  <2>4. response.type = "sse" => Split(buffer).events = <<>>
    BY DEF CaptureInv, Drained
  <2> QED BY <2>1, <2>2, <2>3, <2>4 DEF TypeOK
<1> QED BY <1>1, CaptureInvariant, PTL

(***************************************************************************)
(* However the response is cut into chunks, the usage that is reported is  *)
(* the one the response states: of any body, of any event stream whose     *)
(* lines do not end with CR LF, and of those too if no event has data on   *)
(* several lines (_UsageCapture).                                          *)
(***************************************************************************)
THEOREM UsageIsTheTruth == Spec => []UsageWhateverTheChunks
<1>1. CaptureInv => UsageWhateverTheChunks
  <2> SUFFICES ASSUME CaptureInv, status = "complete", reported # NoUsage,
                      \/ response.type = "json" \/ response.eol # <<CR, LF>>
                      \/ \A i \in DOMAIN response.events : OneLine(response.events[i])
               PROVE  reported = IF response.type = "other" THEN Nothing ELSE Truth(response)
    BY DEF UsageWhateverTheChunks
  <2>1. reported = Final /\ response \in Responses /\ SoFar = Bytes(response)
    BY FinalIs DEF CaptureInv, IInv
  <2>2. CASE response.type = "other"
    BY <2>1, <2>2, FinalIs
  <2>3. CASE response.type = "json"
    BY <2>1, <2>3, FinalIs
  <2>4. CASE response.type = "sse"
    <3> DEFINE t == Reader(Bytes(response))
    <3>1. Agree(Between(usage, buffer), held, t)
      BY <2>1, <2>4 DEF CaptureInv
    <3>2. /\ Over(UsageOf(t.parts), t.used) = Truth(response)
          /\ t.pair => response.eol = <<CR, LF>>
          /\ t.twice => \E i \in DOMAIN response.events : ~OneLine(response.events[i])
      BY <2>1, <2>4, ResponseIsRead
    <3> HIDE DEF t
    <3>3. (t.pair /\ t.twice) \/ Apply(usage, buffer) = Over(UsageOf(t.parts), t.used)
      BY <3>1, AgreeLast
    <3>4. ~(t.pair /\ t.twice)
      BY <2>4, <3>2
    <3>5. Final = Apply(usage, buffer)
      BY <2>4 DEF Final
    <3> QED BY <2>1, <2>4, <3>2, <3>3, <3>4, <3>5
  <2>5. response.type \in {"sse", "json", "other"}
    BY <2>1, ResponseIs
  <2> QED BY <2>2, <2>3, <2>4, <2>5
<1> QED BY <1>1, CaptureInvariant, PTL

(***************************************************************************)
(* Nothing is invented: wherever the data of an event is cut, every count  *)
(* reported is one that the response states for that key, or none          *)
(* (_apply_sse_event, usage).                                              *)
(***************************************************************************)
THEOREM NothingIsInvented == Spec => []UsageIsStated
<1>1. CaptureInv => UsageIsStated
  <2> SUFFICES ASSUME CaptureInv, NEW k \in DOMAIN reported
               PROVE  \/ reported[k] = 0
                      \/ \E u \in UsagesIn(response) : k \in DOMAIN u /\ u[k] = reported[k]
    BY DEF UsageIsStated
  <2>1. CASE reported = NoUsage
    BY <2>1 DEF NoUsage
  <2>2. CASE reported # NoUsage
    <3>1. reported = Final /\ status = "complete" /\ response \in Responses /\ SoFar = Bytes(response)
          /\ Final \in Counts
      BY <2>2, FinalIs DEF CaptureInv, IInv
    <3>2. k \in Keys
      BY <3>1 DEF Counts
    <3>3. CASE response.type = "other"
      BY <3>1, <3>2, <3>3, FinalIs DEF Nothing
    <3>4. CASE response.type = "json"
      <4> DEFINE v == UsageIn(Said(response.events[1]))
      <4>1. reported = Over(v, Nothing) /\ v \in UsagesIn(response)
        <5>1. 1 \in DOMAIN response.events
          <6> DEFINE e == response.events[1]
          <6>1. response.events = <<e>>
            BY <3>1, <3>4, ResponseIs
          <6> HIDE DEF e
          <6> QED BY <6>1
        <5> QED BY <3>1, <3>4, <5>1, FinalIs DEF UsagesIn
      <4> HIDE DEF v
      <4>2. reported[k] = IF k \in DOMAIN v THEN v[k] ELSE 0
        BY <3>2, <4>1 DEF Over, Nothing
      <4> QED BY <4>1, <4>2
    <3>5. CASE response.type = "sse"
      <4> DEFINE t == Reader(Bytes(response))
      <4>1. Agree(Between(usage, buffer), held, t)
        BY <3>1, <3>5 DEF CaptureInv
      <4>2. \A u \in t.could : \E i \in DOMAIN response.events : u \in Runs(Parts(Said(response.events[i])))
        BY <3>1, <3>5, ResponseIsRead
      <4> HIDE DEF t
      <4> DEFINE last == Apply(usage, buffer)
      <4>3. \A j \in Keys : last[j] = 0 \/ \E u \in t.could : j \in DOMAIN u /\ u[j] = last[j]
        BY <4>1, AgreeLast
      <4>4. reported = last
        BY <3>1, <3>5 DEF Final
      <4> HIDE DEF last
      <4>5. CASE last[k] = 0
        BY <4>4, <4>5
      <4>6. CASE last[k] # 0
        <5>1. PICK u \in t.could : k \in DOMAIN u /\ u[k] = last[k]
          BY <3>2, <4>3, <4>6
        <5>2. PICK i \in DOMAIN response.events : u \in Runs(Parts(Said(response.events[i])))
          BY <4>2, <5>1
        <5>3. u # NoUsage
          BY <5>1 DEF NoUsage
        <5>4. u \in UsagesIn(response)
          BY <3>1, <5>2, <5>3, RunsAreStated
        <5> QED BY <4>4, <5>1, <5>4
      <4> QED BY <4>5, <4>6
    <3>6. response.type \in {"sse", "json", "other"}
      BY <3>1, ResponseIs
    <3> QED BY <3>3, <3>4, <3>5, <3>6
  <2> QED BY <2>1, <2>2
<1> QED BY <1>1, CaptureInvariant, PTL
=============================================================================
