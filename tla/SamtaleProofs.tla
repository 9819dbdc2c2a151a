---------------------------- MODULE SamtaleProofs ----------------------------
(* The conversation of Samtale, proved for all transcripts: that it keeps  *)
(* both speakers' order and that its rows keep every character.            *)
EXTENDS MCProcessCall, Induction

Who == {"agent", "caller"}

(* A line of a transcript: answered after it was asked for, with text of   *)
(* its speaker.                                                            *)
Line ==
    {line \in [speaker : Who, sentence : Seq(Who \X Nat \X Nat), asked : Nat, timestamp : Nat] :
        /\ line.asked <= line.timestamp
        /\ \A k \in 1 .. Len(line.sentence) : line.sentence[k][1] = line.speaker}

By(who) == {line \in Line : line.speaker = who}
InTime(lines) == \A i, j \in 1 .. Len(lines) : i < j => lines[i].timestamp <= lines[j].timestamp

(***************************************************************************)
(* The lines of a transcript are its speaker's, in the order of the time.  *)
(***************************************************************************)
LEMMA TranscriptLines ==
  ASSUME NEW who \in Who, NEW t \in Transcripts(who)
  PROVE  t \in Seq(By(who)) /\ InTime(t)
<1>1. PICK m \in 0 .. MaxTexts :
         t \in {[n \in 1 .. m |-> TranscriptLine(who, n, sizes[n], times[n])] :
                 sizes \in [1 .. m -> Lengths], times \in {a \in [1 .. m -> Times] : InTurn(a)}}
  BY DEF Transcripts
<1>2. PICK sizes \in [1 .. m -> Lengths], times \in {a \in [1 .. m -> Times] : InTurn(a)} :
         t = [n \in 1 .. m |-> TranscriptLine(who, n, sizes[n], times[n])]
  BY <1>1
<1>3. m \in Nat /\ Lengths \subseteq Nat /\ MaxTime \in Nat
  BY SamtaleAssumption
<1>4. times \in [1 .. m -> Times] /\ InTurn(times)
  OBVIOUS
<1>5. ASSUME NEW n \in 1 .. m
      PROVE  /\ TranscriptLine(who, n, sizes[n], times[n]) \in By(who)
             /\ times[n][1] \in Nat /\ times[n][2] \in Nat /\ times[n][1] <= times[n][2]
  <2>1. times[n] \in Times /\ sizes[n] \in Nat /\ n \in Nat
    <3>1. times[n] \in Times
      BY <1>4
    <3>2. sizes[n] \in Lengths /\ n \in Nat
      BY <1>3
    <3>3. QED
      BY <1>3, <3>1, <3>2
  <2>2. times[n][1] \in Nat /\ times[n][2] \in Nat /\ times[n][1] <= times[n][2]
    BY <1>3, <2>1 DEF Times
  <2> DEFINE characters == [k \in 1 .. sizes[n] |-> <<who, n, k>>]
  <2>3. /\ characters \in Seq(Who \X Nat \X Nat)
        /\ Len(characters) = sizes[n]
        /\ \A k \in 1 .. sizes[n] : characters[k][1] = who
    BY <2>1
  <2> HIDE DEF characters
  <2>4. [speaker |-> who, sentence |-> characters, asked |-> times[n][1], timestamp |-> times[n][2]] \in By(who)
    BY <2>2, <2>3 DEF By, Line
  <2>5. QED
    BY <2>2, <2>4 DEF TranscriptLine, characters
<1>6. t \in Seq(By(who)) /\ Len(t) = m
  BY <1>2, <1>3, <1>5
<1>7. ASSUME NEW i \in 1 .. m, NEW j \in 1 .. m, i < j
      PROVE  t[i].timestamp <= t[j].timestamp
  <2>1. times[i][2] <= times[j][1]
    BY <1>4, <1>7 DEF InTurn
  <2>2. t[i].timestamp = times[i][2] /\ t[j].timestamp = times[j][2]
    BY <1>2 DEF TranscriptLine
  <2>3. QED
    BY <1>5, <2>1, <2>2
<1>8. QED
  BY <1>6, <1>7 DEF InTime

-----------------------------------------------------------------------------
(* SortByTime *)

(* The function by which SortByTime is defined.                            *)
LEMMA SortDef ==
  ASSUME NEW S, NEW lines \in Seq(S)
  PROVE  \E f : /\ f = [n \in 0 .. Len(lines) |->
                            IF n = 0 THEN <<>> ELSE InsertByTime(f[n - 1], lines[n])]
                /\ SortByTime(lines) = f[Len(lines)]
<1> DEFINE Sorts(f, m) == f = [n \in 0 .. m |-> IF n = 0 THEN <<>> ELSE InsertByTime(f[n - 1], lines[n])]
           Numbers == {m \in Nat : \E f : Sorts(f, m)}
<1>1. 0 \in Numbers
  <2>1. Sorts([n \in 0 .. 0 |-> <<>>], 0)
    OBVIOUS
  <2>2. QED
    BY <2>1
<1>2. ASSUME NEW m \in Numbers PROVE m + 1 \in Numbers
  <2>1. PICK f : Sorts(f, m)
    OBVIOUS
  <2> DEFINE g == [n \in 0 .. m + 1 |->
                     IF n = m + 1 THEN InsertByTime(f[m], lines[n]) ELSE f[n]]
  <2>2. ASSUME NEW n \in 0 .. m + 1
        PROVE  g[n] = IF n = 0 THEN <<>> ELSE InsertByTime(g[n - 1], lines[n])
    <3>1. CASE n = m + 1
      <4>1. n # 0 /\ n - 1 = m /\ m \in 0 .. m + 1 /\ m # m + 1
        BY <3>1
      <4>2. g[n] = InsertByTime(f[m], lines[n]) /\ g[m] = f[m]
        BY <3>1, <4>1
      <4>3. QED
        BY <4>1, <4>2
    <3>2. CASE n # m + 1
      <4>1. n \in 0 .. m /\ (n # 0 => n - 1 \in 0 .. m + 1 /\ n - 1 # m + 1)
        BY <3>2
      <4>2. g[n] = f[n] /\ (n # 0 => g[n - 1] = f[n - 1])
        BY <3>2, <4>1
      <4>3. f[n] = IF n = 0 THEN <<>> ELSE InsertByTime(f[n - 1], lines[n])
        BY <2>1, <4>1
      <4>4. QED
        BY <4>2, <4>3
    <3>3. QED
      BY <3>1, <3>2
  <2>3. Sorts(g, m + 1)
    BY <2>2
  <2>4. QED
    <3> HIDE DEF g, Sorts
    <3>1. \E h : Sorts(h, m + 1)
      BY <2>3
    <3>2. QED
      BY <3>1
<1>3. Numbers = Nat
  <2> HIDE DEF Numbers
  <2>1. Numbers \in SUBSET Nat
    BY DEF Numbers
  <2>2. QED
    BY <1>1, <1>2, <2>1, NumberInduction
<1>4. \E f : Sorts(f, Len(lines))
  BY <1>3, LenProperties
<1>5. Sorts(CHOOSE f : Sorts(f, Len(lines)), Len(lines))
  BY <1>4
<1>6. QED
  BY <1>5 DEF SortByTime

(* Of no line, and of one line more.                                       *)
LEMMA SortEmpty == SortByTime(<<>>) = <<>>
<1>1. <<>> \in Seq({}) /\ Len(<<>>) = 0
  BY EmptySeq
<1>2. PICK f : /\ f = [n \in 0 .. 0 |-> IF n = 0 THEN <<>> ELSE InsertByTime(f[n - 1], <<>>[n])]
               /\ SortByTime(<<>>) = f[0]
  BY <1>1, SortDef
<1>3. QED
  BY <1>2

LEMMA SortAppend ==
  ASSUME NEW S, NEW lines \in Seq(S), NEW e \in S
  PROVE  SortByTime(Append(lines, e)) = InsertByTime(SortByTime(lines), e)
<1> DEFINE more == Append(lines, e)
           m == Len(lines)
<1>1. /\ more \in Seq(S) /\ m \in Nat /\ Len(more) = m + 1
      /\ \A n \in 1 .. m : more[n] = lines[n]
      /\ more[m + 1] = e
  BY AppendProperties, LenProperties
<1> HIDE DEF more, m
<1>2. PICK f : /\ f = [n \in 0 .. m |-> IF n = 0 THEN <<>> ELSE InsertByTime(f[n - 1], lines[n])]
               /\ SortByTime(lines) = f[m]
  BY SortDef DEF m
<1>3. PICK g : /\ g = [n \in 0 .. m + 1 |-> IF n = 0 THEN <<>> ELSE InsertByTime(g[n - 1], more[n])]
               /\ SortByTime(more) = g[m + 1]
  BY <1>1, SortDef
<1> DEFINE Same == {n \in Nat : n <= m => g[n] = f[n]}
<1>4. 0 \in Same
  BY <1>1, <1>2, <1>3
<1>5. ASSUME NEW n \in Same PROVE n + 1 \in Same
  <2>1. SUFFICES ASSUME n + 1 <= m PROVE g[n + 1] = f[n + 1]
    OBVIOUS
  <2>2. g[n] = f[n]
    BY <1>1, <2>1
  <2>3. /\ n + 1 \in 0 .. m + 1 /\ n + 1 \in 0 .. m /\ n + 1 \in 1 .. m
        /\ n + 1 # 0 /\ (n + 1) - 1 = n
    BY <1>1, <2>1
  <2>4. g[n + 1] = InsertByTime(g[(n + 1) - 1], more[n + 1])
    BY <1>3, <2>3
  <2>5. f[n + 1] = InsertByTime(f[(n + 1) - 1], lines[n + 1])
    BY <1>2, <2>3
  <2>6. QED
    BY <1>1, <2>2, <2>3, <2>4, <2>5
<1>6. Same = Nat
  <2> HIDE DEF Same
  <2>1. Same \in SUBSET Nat
    BY DEF Same
  <2>2. QED
    BY <1>4, <1>5, <2>1, NumberInduction
<1>7. g[m] = f[m]
  <2>1. m \in Same
    BY <1>1, <1>6
  <2>2. QED
    BY <1>1, <2>1
<1>8. g[m + 1] = InsertByTime(g[m], e)
  <2>1. m + 1 \in 0 .. m + 1 /\ m + 1 # 0 /\ (m + 1) - 1 = m
    BY <1>1
  <2>2. g[m + 1] = InsertByTime(g[(m + 1) - 1], more[m + 1])
    BY <1>3, <2>1
  <2>3. QED
    BY <1>1, <2>1, <2>2
<1>9. QED
  BY <1>2, <1>3, <1>7, <1>8 DEF more

(***************************************************************************)
(* A line comes after the lines that were not answered later, and before   *)
(* the others.                                                             *)
(***************************************************************************)
LEMMA InsertSplits ==
  ASSUME NEW s \in Seq(Line), InTime(s), NEW e \in Line
  PROVE  \E b, a \in Seq(Line) :
            /\ s = b \o a
            /\ InsertByTime(s, e) = (b \o <<e>>) \o a
            /\ \A i \in 1 .. Len(b) : b[i].timestamp <= e.timestamp
            /\ \A i \in 1 .. Len(a) : e.timestamp < a[i].timestamp
<1> DEFINE n == Len(s)
           Before == {i \in 1 .. n : s[i].timestamp <= e.timestamp}
           Later == {i \in 1 .. n : ~ (s[i].timestamp <= e.timestamp)}
<1>1. /\ n \in Nat /\ DOMAIN s = 1 .. n /\ e.timestamp \in Nat
      /\ \A i \in 1 .. n : s[i] \in Line /\ s[i].timestamp \in Nat
  <2>1. \A line \in Line : line.timestamp \in Nat
    BY DEF Line
  <2>2. QED
    BY <2>1, LenProperties, ElementOfSeq
<1>2. \A i, j \in 1 .. n : i < j => s[i].timestamp <= s[j].timestamp
  BY DEF InTime
<1> HIDE DEF n
<1>3. \E k \in 0 .. n : Before = 1 .. k
  <2>1. CASE Later = {}
    <3>1. Before = 1 .. n
      BY <2>1
    <3>2. QED
      BY <1>1, <3>1
  <2>2. CASE Later # {}
    <3>1. Later \in SUBSET Nat
      BY <1>1
    <3>2. PICK j \in Later : \A i \in Later : j <= i
      <4> HIDE DEF Later
      <4>1. QED
        BY <2>2, <3>1, LeastNumber
    <3>3. ASSUME NEW i \in 1 .. n PROVE i \in Before <=> i < j
      <4>1. CASE i < j
        <5>1. i \notin Later
          BY <1>1, <3>2, <4>1
        <5>2. QED
          BY <4>1, <5>1
      <4>2. CASE j < i
        <5>1. s[j].timestamp <= s[i].timestamp
          BY <1>2, <4>2
        <5>2. QED
          BY <1>1, <4>2, <5>1
      <4>3. CASE i = j
        BY <4>3
      <4>4. QED
        BY <1>1, <4>1, <4>2, <4>3
    <3>4. j \in 1 .. n /\ j - 1 \in 0 .. n /\ \A i \in 1 .. n : i < j <=> i \in 1 .. j - 1
      BY <1>1
    <3>5. Before = 1 .. j - 1
      BY <1>1, <3>3, <3>4
    <3>6. QED
      BY <3>4, <3>5
  <2>3. QED
    BY <2>1, <2>2
<1>4. PICK k \in 0 .. n : Before = 1 .. k
  BY <1>3
<1>5. Cardinality(Before) = k /\ k \in Nat
  <2>1. k \in Nat
    BY <1>1
  <2>2. Cardinality(1 .. k) = k
    BY <2>1, FS_Interval
  <2>3. QED
    BY <1>4, <2>1, <2>2
<1> DEFINE b == SubSeq(s, 1, k)
           a == SubSeq(s, k + 1, n)
<1>6. /\ b \in Seq(Line) /\ Len(b) = k
      /\ \A i \in 1 .. k : b[i] = s[i]
      /\ a \in Seq(Line) /\ Len(a) = n - k
      /\ \A i \in 1 .. n - k : a[i] = s[k + i]
  <2>1. 1 \in Int /\ k \in Int /\ k + 1 \in Int /\ n \in Int
    BY <1>1
  <2>2. \A i \in 1 .. k : s[i] \in Line
    BY <1>1
  <2>3. \A i \in k + 1 .. n : s[i] \in Line
    BY <1>1
  <2>4. b \in Seq(Line) /\ Len(b) = k /\ \A i \in 1 .. k : b[i] = s[i]
    <3>1. /\ b \in Seq(Line) /\ Len(b) = IF 1 <= k THEN k - 1 + 1 ELSE 0
          /\ \A i \in 1 .. k - 1 + 1 : b[i] = s[1 + i - 1]
      BY <2>1, <2>2, SubSeqProperties
    <3> HIDE DEF b
    <3>2. QED
      BY <1>5, <3>1
  <2>5. a \in Seq(Line) /\ Len(a) = n - k /\ \A i \in 1 .. n - k : a[i] = s[k + i]
    <3>1. /\ a \in Seq(Line) /\ Len(a) = IF k + 1 <= n THEN n - (k + 1) + 1 ELSE 0
          /\ \A i \in 1 .. n - (k + 1) + 1 : a[i] = s[(k + 1) + i - 1]
      BY <2>1, <2>3, SubSeqProperties
    <3> HIDE DEF a
    <3>2. QED
      BY <1>1, <1>5, <3>1
  <2>6. QED
    BY <2>4, <2>5
<1>7. InsertByTime(s, e) = (b \o <<e>>) \o a
  <2>1. InsertByTime(s, e) = InsertAt(s, k + 1, e)
    BY <1>1, <1>5 DEF InsertByTime
  <2>2. (k + 1) - 1 = k
    BY <1>5
  <2>3. QED
    BY <2>1, <2>2 DEF InsertAt, n
<1>8. s = b \o a
  <2> HIDE DEF a, b
  <2>1. b \o a \in Seq(Line) /\ Len(b \o a) = k + (n - k)
        /\ \A i \in 1 .. k + (n - k) : (b \o a)[i] = IF i <= k THEN b[i] ELSE a[i - k]
    <3>1. b \in Seq(Line) /\ a \in Seq(Line) /\ Len(b) = k /\ Len(a) = n - k
      BY <1>6
    <3>2. /\ b \o a \in Seq(Line) /\ Len(b \o a) = Len(b) + Len(a)
          /\ \A i \in 1 .. Len(b) + Len(a) :
                (b \o a)[i] = IF i <= Len(b) THEN b[i] ELSE a[i - Len(b)]
      BY <3>1, ConcatProperties, Zenon
    <3>3. QED
      BY <3>1, <3>2
  <2>2. k + (n - k) = n
    BY <1>1, <1>5
  <2>3. ASSUME NEW i \in 1 .. n PROVE (b \o a)[i] = s[i]
    <3>1. CASE i <= k
      BY <1>1, <1>5, <1>6, <2>1, <2>2, <3>1
    <3>2. CASE ~ (i <= k)
      <4>1. i - k \in 1 .. n - k /\ k + (i - k) = i
        BY <1>1, <1>5, <3>2
      <4>2. QED
        BY <1>6, <2>1, <2>2, <3>2, <4>1
    <3>3. QED
      BY <3>1, <3>2
  <2>4. QED
    BY <2>1, <2>2, <2>3, SeqEqual DEF n
<1>9. \A i \in 1 .. Len(b) : b[i].timestamp <= e.timestamp
  <2> HIDE DEF b
  <2>1. QED
    BY <1>4, <1>6
<1>10. \A i \in 1 .. Len(a) : e.timestamp < a[i].timestamp
  <2> HIDE DEF a
  <2>1. ASSUME NEW i \in 1 .. n - k PROVE e.timestamp < a[i].timestamp
    <3>1. k + i \in 1 .. n /\ k + i \notin 1 .. k
      BY <1>1, <1>5
    <3>2. ~ (s[k + i].timestamp <= e.timestamp)
      BY <1>4, <3>1
    <3>3. QED
      BY <1>1, <1>6, <3>1, <3>2
  <2>2. QED
    BY <1>6, <2>1
<1>11. QED
  <2> HIDE DEF a, b
  <2>1. QED
    BY <1>6, <1>7, <1>8, <1>9, <1>10

(***************************************************************************)
(* SortByTime is stable: it orders the lines, loses and invents none, and  *)
(* any of them that were in order it leaves in the order they had.         *)
(***************************************************************************)
Stable(lines) ==
    LET sorted == SortByTime(lines)
    IN /\ sorted \in Seq(Line)
       /\ InTime(sorted)
       /\ Range(sorted) = Range(lines)
       /\ \A keep : InTime(Only(lines, keep)) => Only(sorted, keep) = Only(lines, keep)

(* OnlyConcat, of lines.                                                   *)
LEMMA OnlyOfLines ==
  \A b, a \in Seq(Line) : \A keep : Only(b \o a, keep) = Only(b, keep) \o Only(a, keep)
BY OnlyConcat

(* What an insertion does to some of the lines.                            *)
LEMMA InsertOnly ==
  ASSUME NEW s \in Seq(Line), InTime(s), NEW e \in Line, NEW keep
  PROVE  \E b, a \in Seq(Line) :
            /\ Only(s, keep) = Only(b, keep) \o Only(a, keep)
            /\ Only(InsertByTime(s, e), keep) = Only(Append(b, e), keep) \o Only(a, keep)
            /\ \A i \in 1 .. Len(a) : e.timestamp < a[i].timestamp
<1>1. PICK b \in Seq(Line), a \in Seq(Line) :
            /\ s = b \o a
            /\ InsertByTime(s, e) = (b \o <<e>>) \o a
            /\ \A i \in 1 .. Len(b) : b[i].timestamp <= e.timestamp
            /\ \A i \in 1 .. Len(a) : e.timestamp < a[i].timestamp
  BY InsertSplits
<1>2. b \in Seq(Line) /\ a \in Seq(Line)
  BY <1>1
<1>3. b \o <<e>> = Append(b, e)
  BY <1>2, AppendIsConcat
<1>4. /\ Only(b \o a, keep) = Only(b, keep) \o Only(a, keep)
      /\ Only(Append(b, e) \o a, keep) = Only(Append(b, e), keep) \o Only(a, keep)
  <2>1. Append(b, e) \in Seq(Line)
    BY <1>2, AppendProperties
  <2>2. Only(b \o a, keep) = Only(b, keep) \o Only(a, keep)
    BY <1>2, OnlyOfLines, ZenonT(60)
  <2>3. Only(Append(b, e) \o a, keep) = Only(Append(b, e), keep) \o Only(a, keep)
    BY <1>2, <2>1, OnlyOfLines, ZenonT(60)
  <2>4. QED
    BY <2>2, <2>3
<1>5. /\ Only(s, keep) = Only(b, keep) \o Only(a, keep)
      /\ Only(InsertByTime(s, e), keep) = Only(Append(b, e), keep) \o Only(a, keep)
  BY <1>1, <1>3, <1>4
<1>6. QED
  BY <1>1, <1>2, <1>5

(* An insertion leaves the order of lines that were in the order of time.  *)
LEMMA InsertIsStable ==
  ASSUME NEW lines \in Seq(Line), NEW s \in Seq(Line), NEW e \in Line, NEW keep,
         InTime(s), InTime(Only(lines, keep)) => Only(s, keep) = Only(lines, keep),
         InTime(Only(Append(lines, e), keep))
  PROVE  Only(InsertByTime(s, e), keep) = Only(Append(lines, e), keep)
<1>1. PICK b \in Seq(Line), a \in Seq(Line) :
            /\ Only(s, keep) = Only(b, keep) \o Only(a, keep)
            /\ Only(InsertByTime(s, e), keep) = Only(Append(b, e), keep) \o Only(a, keep)
            /\ \A i \in 1 .. Len(a) : e.timestamp < a[i].timestamp
  BY InsertOnly
<1>2. b \in Seq(Line) /\ a \in Seq(Line)
  BY <1>1
<1>3. Only(InsertByTime(s, e), keep) = Only(Append(b, e), keep) \o Only(a, keep)
  BY <1>1
<1>4. Only(s, keep) = Only(b, keep) \o Only(a, keep)
  BY <1>1
<1>5. Only(lines, keep) \in Seq(Line) /\ Only(a, keep) \in Seq(Line) /\ Only(b, keep) \in Seq(Line)
  BY <1>2, OnlyType
<1>6. CASE e \notin keep
  <2>1. Only(Append(b, e), keep) = Only(b, keep)
    BY <1>6, OnlyAppend
  <2>2. Only(Append(lines, e), keep) = Only(lines, keep)
    BY <1>6, OnlyAppend
  <2>3. QED
    BY <1>3, <1>4, <2>1, <2>2
<1>7. CASE e \in keep
  <2>1. Only(Append(b, e), keep) = Append(Only(b, keep), e)
    BY <1>7, OnlyAppend
  <2>2. Only(Append(lines, e), keep) = Append(Only(lines, keep), e)
    BY <1>7, OnlyAppend
  <2> DEFINE l == Only(lines, keep)
  <2>3. /\ Len(l) \in Nat /\ Len(Append(l, e)) = Len(l) + 1
        /\ \A i \in 1 .. Len(l) : Append(l, e)[i] = l[i]
        /\ Append(l, e)[Len(l) + 1] = e
    <3>1. l \in Seq(Line)
      BY <1>5
    <3> HIDE DEF l
    <3>2. QED
      BY <3>1, AppendProperties, LenProperties
  <2>4. InTime(Append(l, e))
    BY <2>2
  <2>5. InTime(l) /\ \A i \in 1 .. Len(l) : l[i].timestamp <= e.timestamp
    <3> HIDE DEF l
    <3>1. ASSUME NEW i \in 1 .. Len(l), NEW j \in 1 .. Len(l), i < j
          PROVE  l[i].timestamp <= l[j].timestamp
      <4>1. i \in 1 .. Len(l) + 1 /\ j \in 1 .. Len(l) + 1
        BY <2>3
      <4>2. Append(l, e)[i].timestamp <= Append(l, e)[j].timestamp
        BY <2>3, <2>4, <3>1, <4>1 DEF InTime
      <4>3. QED
        BY <2>3, <4>2
    <3>2. ASSUME NEW i \in 1 .. Len(l) PROVE l[i].timestamp <= e.timestamp
      <4>1. i \in 1 .. Len(l) + 1 /\ Len(l) + 1 \in 1 .. Len(l) + 1 /\ i < Len(l) + 1
        BY <2>3
      <4>2. Append(l, e)[i].timestamp <= Append(l, e)[Len(l) + 1].timestamp
        BY <2>3, <2>4, <4>1 DEF InTime
      <4>3. QED
        BY <2>3, <4>2
    <3>3. QED
      BY <3>1, <3>2 DEF InTime
  <2>6. Only(b, keep) \o Only(a, keep) = l
    BY <1>4, <2>5
  <2>7. \A i \in 1 .. Len(a) : a[i] \notin keep
    <3>1. SUFFICES ASSUME NEW i \in 1 .. Len(a), a[i] \in keep PROVE FALSE
      OBVIOUS
    <3>2. a[i] \in Range(Only(a, keep))
      <4>1. a[i] \in Range(a)
        BY LenProperties DEF Range
      <4>2. QED
        BY <3>1, <4>1, OnlyType
    <3>3. Range(l) = Range(Only(b, keep)) \cup Range(Only(a, keep))
      <4>1. ASSUME NEW u \in Seq(Line), NEW v \in Seq(Line)
            PROVE  Range(u \o v) = Range(u) \cup Range(v)
        BY RangeConcatenation
      <4>2. Range(Only(b, keep) \o Only(a, keep)) = Range(Only(b, keep)) \cup Range(Only(a, keep))
        BY <1>5, <4>1, Zenon
      <4>3. QED
        BY <2>6, <4>2
    <3>4. PICK j \in 1 .. Len(l) : l[j] = a[i]
      <4>1. l \in Seq(Line) /\ a[i] \in Range(l)
        BY <1>5, <3>2, <3>3
      <4> HIDE DEF l
      <4>2. QED
        BY <4>1, LenProperties DEF Range
    <3>5. a[i].timestamp <= e.timestamp /\ e.timestamp < a[i].timestamp
      BY <1>1, <2>5, <3>4
    <3>6. a[i].timestamp \in Nat /\ e.timestamp \in Nat
      BY ElementOfSeq, SMTT(40) DEF Line
    <3>7. QED
      BY <3>5, <3>6
  <2>8. Only(a, keep) = <<>>
    BY <2>7, OnlyNone
  <2>9. Only(b, keep) = l
    BY <1>5, <2>6, <2>8, ConcatEmptySeq
  <2>10. Only(Append(b, e), keep) \o Only(a, keep) = Append(l, e)
    <3>1. Append(Only(b, keep), e) \in Seq(Line)
      BY <1>5, AppendProperties
    <3>2. QED
      BY <2>1, <2>8, <2>9, <3>1, ConcatEmptySeq
  <2>11. QED
    BY <1>3, <2>2, <2>10
<1>8. QED
  BY <1>6, <1>7

LEMMA InsertInTime ==
  ASSUME NEW s \in Seq(Line), NEW e \in Line, InTime(s)
  PROVE  /\ InsertByTime(s, e) \in Seq(Line)
         /\ InTime(InsertByTime(s, e))
         /\ Range(InsertByTime(s, e)) = Range(s) \cup {e}
<1>1. PICK b \in Seq(Line), a \in Seq(Line) :
            /\ s = b \o a
            /\ InsertByTime(s, e) = (b \o <<e>>) \o a
            /\ \A i \in 1 .. Len(b) : b[i].timestamp <= e.timestamp
            /\ \A i \in 1 .. Len(a) : e.timestamp < a[i].timestamp
  BY InsertSplits
<1> DEFINE be == b \o <<e>>
           r == InsertByTime(s, e)
<1>2. /\ be \in Seq(Line) /\ Len(be) = Len(b) + 1 /\ Len(b) \in Nat /\ Len(a) \in Nat
      /\ \A i \in 1 .. Len(b) : be[i] = b[i]
      /\ be[Len(b) + 1] = e
  BY AppendProperties, AppendIsConcat, LenProperties
<1>3. /\ Len(s) = Len(b) + Len(a)
      /\ \A i \in 1 .. Len(b) + Len(a) : s[i] = IF i <= Len(b) THEN b[i] ELSE a[i - Len(b)]
  BY <1>1, ConcatProperties
<1> HIDE DEF be
<1>4. r = be \o a
  BY <1>1 DEF be
<1>5. /\ r \in Seq(Line) /\ Len(r) = Len(be) + Len(a)
      /\ \A i \in 1 .. Len(be) + Len(a) : r[i] = IF i <= Len(be) THEN be[i] ELSE a[i - Len(be)]
  <2>1. ASSUME NEW v \in Seq(Line)
        PROVE  /\ v \o a \in Seq(Line) /\ Len(v \o a) = Len(v) + Len(a)
               /\ \A i \in 1 .. Len(v) + Len(a) : (v \o a)[i] = IF i <= Len(v) THEN v[i] ELSE a[i - Len(v)]
    BY ConcatProperties
  <2>2. be \in Seq(Line)
    BY <1>2
  <2> HIDE DEF r
  <2>3. QED
    BY <1>4, <2>1, <2>2
<1>6. Range(r) = Range(s) \cup {e}
  <2>1. Range(be) = Range(b) \cup {e}
    <3>1. DOMAIN be = 1 .. Len(b) + 1 /\ DOMAIN b = 1 .. Len(b)
      BY <1>2, LenProperties
    <3>2. 1 .. Len(b) + 1 = 1 .. Len(b) \cup {Len(b) + 1}
      BY <1>2
    <3>3. Range(be) = {be[i] : i \in 1 .. Len(b) \cup {Len(b) + 1}} /\ Range(b) = {b[i] : i \in 1 .. Len(b)}
      BY <3>1, <3>2 DEF Range
    <3>4. QED
      BY <1>2, <3>3
  <2>2. Range(r) = Range(be) \cup Range(a)
    BY <1>2, <1>4, RangeConcatenation
  <2>3. Range(s) = Range(b) \cup Range(a)
    BY <1>1, RangeConcatenation
  <2>4. QED
    BY <2>1, <2>2, <2>3
<1>7. /\ \A i, j \in 1 .. Len(b) : i < j => b[i].timestamp <= b[j].timestamp
      /\ \A i, j \in 1 .. Len(a) : i < j => a[i].timestamp <= a[j].timestamp
  <2>1. ASSUME NEW i \in 1 .. Len(b), NEW j \in 1 .. Len(b), i < j
        PROVE  b[i].timestamp <= b[j].timestamp
    <3>1. i \in 1 .. Len(s) /\ j \in 1 .. Len(s) /\ s[i] = b[i] /\ s[j] = b[j]
      BY <1>2, <1>3
    <3>2. QED
      BY <2>1, <3>1 DEF InTime
  <2>2. ASSUME NEW i \in 1 .. Len(a), NEW j \in 1 .. Len(a), i < j
        PROVE  a[i].timestamp <= a[j].timestamp
    <3>1. /\ Len(b) + i \in 1 .. Len(s) /\ Len(b) + j \in 1 .. Len(s) /\ Len(b) + i < Len(b) + j
          /\ s[Len(b) + i] = a[i] /\ s[Len(b) + j] = a[j]
      <4>1. /\ Len(b) + i \in 1 .. Len(b) + Len(a) /\ Len(b) + j \in 1 .. Len(b) + Len(a)
            /\ Len(b) + i < Len(b) + j /\ ~ (Len(b) + i <= Len(b)) /\ ~ (Len(b) + j <= Len(b))
            /\ (Len(b) + i) - Len(b) = i /\ (Len(b) + j) - Len(b) = j
        BY <1>2, <2>2
      <4>2. s[Len(b) + i] = a[(Len(b) + i) - Len(b)] /\ s[Len(b) + j] = a[(Len(b) + j) - Len(b)]
        BY <1>3, <4>1
      <4>3. QED
        BY <1>3, <4>1, <4>2
    <3>2. QED
      BY <3>1 DEF InTime
  <2>3. QED
    BY <2>1, <2>2
<1>8. /\ e.timestamp \in Nat
      /\ \A i \in 1 .. Len(b) : b[i].timestamp \in Nat
      /\ \A i \in 1 .. Len(a) : a[i].timestamp \in Nat
  <2>1. \A line \in Line : line.timestamp \in Nat
    BY DEF Line
  <2>2. QED
    BY <2>1, ElementOfSeq
<1>9. ASSUME NEW i \in 1 .. Len(r), NEW j \in 1 .. Len(r), i < j
      PROVE  r[i].timestamp <= r[j].timestamp
  <2>1. CASE j <= Len(b)
    <3>1. i \in 1 .. Len(b) /\ j \in 1 .. Len(b) /\ r[i] = b[i] /\ r[j] = b[j]
      BY <1>2, <1>5, <1>9, <2>1
    <3>2. QED
      BY <1>7, <1>9, <3>1
  <2>2. CASE j = Len(b) + 1
    <3>1. i \in 1 .. Len(b) /\ r[i] = b[i] /\ r[j] = e
      BY <1>2, <1>5, <1>9, <2>2
    <3>2. QED
      BY <1>1, <3>1
  <2>3. CASE Len(b) + 1 < j
    <3>1. j - Len(be) \in 1 .. Len(a) /\ r[j] = a[j - Len(be)]
      BY <1>2, <1>5, <1>9, <2>3
    <3>2. CASE i <= Len(b)
      <4>1. i \in 1 .. Len(b) /\ r[i] = b[i]
        BY <1>2, <1>5, <1>9, <3>2
      <4>2. r[i].timestamp \in Nat /\ r[i].timestamp <= e.timestamp
        BY <1>1, <1>8, <4>1
      <4>3. r[j].timestamp \in Nat /\ e.timestamp < r[j].timestamp
        BY <1>1, <1>8, <3>1
      <4>4. QED
        BY <1>8, <4>2, <4>3
    <3>3. CASE i = Len(b) + 1
      <4>1. r[i] = e
        <5>1. i \in 1 .. Len(be) + Len(a) /\ i <= Len(be)
          BY <1>2, <3>3
        <5>2. r[i] = be[i]
          BY <1>5, <5>1
        <5>3. QED
          BY <1>2, <3>3, <5>2
      <4>2. r[j].timestamp \in Nat /\ e.timestamp < r[j].timestamp
        BY <1>1, <1>8, <3>1
      <4>3. QED
        BY <1>8, <4>1, <4>2
    <3>4. CASE Len(b) + 1 < i
      <4>1. i - Len(be) \in 1 .. Len(a) /\ r[i] = a[i - Len(be)] /\ i - Len(be) < j - Len(be)
        BY <1>2, <1>5, <1>9, <3>4
      <4>2. QED
        BY <1>7, <3>1, <4>1
    <3>5. QED
      BY <1>2, <3>2, <3>3, <3>4
  <2>4. QED
    BY <1>2, <2>1, <2>2, <2>3
<1>10. QED
  BY <1>5, <1>6, <1>9 DEF InTime

LEMMA SortIsStable ==
  ASSUME NEW lines \in Seq(Line)
  PROVE  Stable(lines)
<1> DEFINE Sorted == {l \in Seq(Line) : Stable(l)}
<1>1. <<>> \in Sorted
  <2>1. InTime(<<>>)
    BY DEF InTime
  <2>2. QED
    BY <2>1, SortEmpty, EmptySeq, OnlyEmpty DEF Stable
<1>2. ASSUME NEW l \in Sorted, NEW e \in Line PROVE Append(l, e) \in Sorted
  <2>1. Stable(l) /\ l \in Seq(Line)
    OBVIOUS
  <2> DEFINE s == SortByTime(l)
  <2>2. s \in Seq(Line) /\ InTime(s) /\ Range(s) = Range(l)
    BY <2>1 DEF Stable
  <2>3. \A keep : InTime(Only(l, keep)) => Only(s, keep) = Only(l, keep)
    BY <2>1 DEF Stable
  <2> HIDE DEF s
  <2>4. SortByTime(Append(l, e)) = InsertByTime(s, e)
    BY SortAppend DEF s
  <2>5. /\ InsertByTime(s, e) \in Seq(Line) /\ InTime(InsertByTime(s, e))
        /\ Range(InsertByTime(s, e)) = Range(s) \cup {e}
    BY <2>2, InsertInTime
  <2>6. Range(Append(l, e)) = Range(l) \cup {e} /\ Append(l, e) \in Seq(Line)
    <3>1. /\ DOMAIN Append(l, e) = 1 .. Len(l) + 1 /\ DOMAIN l = 1 .. Len(l) /\ Len(l) \in Nat
          /\ \A i \in 1 .. Len(l) : Append(l, e)[i] = l[i]
          /\ Append(l, e)[Len(l) + 1] = e
          /\ Append(l, e) \in Seq(Line)
      BY AppendProperties, LenProperties
    <3>2. QED
      BY <3>1 DEF Range
  <2>7. ASSUME NEW keep, InTime(Only(Append(l, e), keep))
        PROVE  Only(InsertByTime(s, e), keep) = Only(Append(l, e), keep)
    BY <2>1, <2>2, <2>3, <2>7, InsertIsStable
  <2>8. Stable(Append(l, e))
    BY <2>2, <2>4, <2>5, <2>6, <2>7 DEF Stable
  <2>9. QED
    BY <2>6, <2>8
<1>3. Sorted = Seq(Line)
  <2> HIDE DEF Sorted
  <2>1. Sorted \in SUBSET Seq(Line)
    BY DEF Sorted
  <2>2. QED
    BY <1>1, <1>2, <2>1, SequenceInduction
<1>4. QED
  BY <1>3

-----------------------------------------------------------------------------
(* InOrder *)

LEMMA OnlyInTime ==
  ASSUME NEW s \in Seq(Line), NEW keep, InTime(s)
  PROVE  InTime(Only(s, keep))
<1> DEFINE Good == {t \in Seq(Line) : InTime(t) => InTime(Only(t, keep))}
<1>1. <<>> \in Good
  BY EmptySeq, OnlyEmpty DEF InTime
<1>2. ASSUME NEW t \in Good, NEW e \in Line PROVE Append(t, e) \in Good
  <2>1. /\ t \in Seq(Line) /\ Append(t, e) \in Seq(Line)
        /\ Len(t) \in Nat /\ Len(Append(t, e)) = Len(t) + 1
        /\ \A i \in 1 .. Len(t) : Append(t, e)[i] = t[i]
        /\ Append(t, e)[Len(t) + 1] = e
    BY AppendProperties, LenProperties
  <2>2. SUFFICES ASSUME InTime(Append(t, e)) PROVE InTime(Only(Append(t, e), keep))
    BY <2>1
  <2>3. ASSUME NEW i \in 1 .. Len(t), NEW j \in 1 .. Len(t), i < j
        PROVE  t[i].timestamp <= t[j].timestamp
    <3>1. i \in 1 .. Len(t) + 1 /\ j \in 1 .. Len(t) + 1
      BY <2>1
    <3>2. Append(t, e)[i].timestamp <= Append(t, e)[j].timestamp
      BY <2>1, <2>2, <2>3, <3>1 DEF InTime
    <3>3. QED
      BY <2>1, <3>2
  <2>4. ASSUME NEW i \in 1 .. Len(t) PROVE t[i].timestamp <= e.timestamp
    <3>1. i \in 1 .. Len(t) + 1 /\ Len(t) + 1 \in 1 .. Len(t) + 1 /\ i < Len(t) + 1
      BY <2>1
    <3>2. Append(t, e)[i].timestamp <= Append(t, e)[Len(t) + 1].timestamp
      BY <2>1, <2>2, <3>1 DEF InTime
    <3>3. QED
      BY <2>1, <3>2
  <2> DEFINE o == Only(t, keep)
  <2>5. InTime(t)
    BY <2>3 DEF InTime
  <2>6. InTime(o) /\ o \in Seq(Line) /\ Range(o) \subseteq Range(t)
    BY <2>1, <2>5, OnlyType
  <2> HIDE DEF o
  <2>7. CASE e \notin keep
    <3>1. Only(Append(t, e), keep) = o
      BY <2>1, <2>7, OnlyAppend DEF o
    <3>2. QED
      BY <2>6, <3>1
  <2>8. CASE e \in keep
    <3>1. Only(Append(t, e), keep) = Append(o, e)
      BY <2>1, <2>8, OnlyAppend DEF o
    <3>2. /\ Len(o) \in Nat /\ DOMAIN o = 1 .. Len(o) /\ Len(Append(o, e)) = Len(o) + 1
          /\ \A i \in 1 .. Len(o) : Append(o, e)[i] = o[i]
          /\ Append(o, e)[Len(o) + 1] = e
      BY <2>6, AppendProperties, LenProperties
    <3>3. ASSUME NEW i \in 1 .. Len(o) PROVE o[i].timestamp <= e.timestamp
      <4>1. DOMAIN t = 1 .. Len(t) /\ o[i] \in Range(t)
        BY <2>1, <2>6, <3>2, LenProperties DEF Range
      <4>2. QED
        BY <2>4, <4>1 DEF Range
    <3>4. ASSUME NEW i \in 1 .. Len(o) + 1, NEW j \in 1 .. Len(o) + 1, i < j
          PROVE  Append(o, e)[i].timestamp <= Append(o, e)[j].timestamp
      <4>1. i \in 1 .. Len(o) /\ (j \in 1 .. Len(o) \/ j = Len(o) + 1)
        BY <3>2, <3>4
      <4>2. CASE j \in 1 .. Len(o)
        <5>1. o[i].timestamp <= o[j].timestamp
          BY <2>6, <3>4, <4>1, <4>2 DEF InTime
        <5>2. QED
          BY <3>2, <4>1, <4>2, <5>1
      <4>3. CASE j = Len(o) + 1
        BY <3>2, <3>3, <4>1, <4>3
      <4>4. QED
        BY <4>1, <4>2, <4>3
    <3>5. QED
      BY <3>1, <3>2, <3>4 DEF InTime
  <2>9. QED
    BY <2>7, <2>8
<1>3. Good = Seq(Line)
  <2> HIDE DEF Good
  <2>1. Good \in SUBSET Seq(Line)
    BY DEF Good
  <2>2. QED
    BY <1>1, <1>2, <2>1, SequenceInduction
<1>4. QED
  BY <1>3

(* The lines of a speaker that were read are those with text, in order.    *)
LEMMA ReadOf ==
  ASSUME NEW agent \in Transcripts("agent"), NEW caller \in Transcripts("caller")
  PROVE  /\ WithText(agent \o caller) \in Seq(Line)
         /\ WithText(agent) \in Seq(Line) /\ InTime(WithText(agent))
         /\ WithText(caller) \in Seq(Line) /\ InTime(WithText(caller))
         /\ Only(WithText(agent \o caller), By("agent")) = WithText(agent)
         /\ Only(WithText(agent \o caller), By("caller")) = WithText(caller)
<1>1. /\ agent \in Seq(By("agent")) /\ InTime(agent)
      /\ caller \in Seq(By("caller")) /\ InTime(caller)
  BY TranscriptLines DEF Who
<1>2. \A who : By(who) \subseteq Line
  BY DEF By
<1>3. agent \in Seq(Line) /\ caller \in Seq(Line)
  BY <1>1, <1>2, SeqMonotonic
<1> DEFINE all == agent \o caller
           text == {line \in Range(all) : line.sentence # <<>>}
<1>4. all \in Seq(Line) /\ Range(all) = Range(agent) \cup Range(caller)
  BY <1>3, ConcatProperties, RangeConcatenation
<1>5. WithText(all) = Only(agent, text) \o Only(caller, text)
  <2> HIDE DEF text
  <2>1. Only(agent \o caller, text) = Only(agent, text) \o Only(caller, text)
    BY <1>3, OnlyConcat
  <2>2. QED
    BY <2>1 DEF WithText, text
<1>6. ASSUME NEW t \in Seq(Line), Range(t) \subseteq Range(all)
      PROVE  WithText(t) = Only(t, text)
  <2>1. DOMAIN t = 1 .. Len(t)
    BY LenProperties
  <2> HIDE DEF all
  <2>2. \A i \in 1 .. Len(t) : t[i] \in {line \in Range(t) : line.sentence # <<>>} <=> t[i] \in text
    BY <1>6, <2>1 DEF Range
  <2> HIDE DEF text
  <2>3. Only(t, {line \in Range(t) : line.sentence # <<>>}) = Only(t, text)
    BY <2>2, OnlySame
  <2>4. QED
    BY <2>3 DEF WithText
<1>7. WithText(agent) = Only(agent, text) /\ WithText(caller) = Only(caller, text)
  <2>1. Range(agent) \subseteq Range(all) /\ Range(caller) \subseteq Range(all)
    BY <1>4
  <2> HIDE DEF all, text
  <2>2. QED
    BY <1>3, <1>6, <2>1
<1> HIDE DEF all, text
<1>8. /\ Only(agent, text) \in Seq(Line) /\ InTime(Only(agent, text))
      /\ Only(caller, text) \in Seq(Line) /\ InTime(Only(caller, text))
      /\ Only(agent, text) \in Seq(By("agent")) /\ Only(caller, text) \in Seq(By("caller"))
  BY <1>1, <1>3, OnlyType, OnlyInTime
<1>9. WithText(all) \in Seq(Line)
  BY <1>5, <1>8, ConcatProperties
<1>10. ASSUME NEW who
       PROVE  Only(WithText(all), By(who)) = Only(Only(agent, text), By(who)) \o Only(Only(caller, text), By(who))
  <2>1. ASSUME NEW s \in Seq(Line), NEW t \in Seq(Line)
        PROVE  Only(s \o t, By(who)) = Only(s, By(who)) \o Only(t, By(who))
    BY OnlyConcat
  <2>2. QED
    BY <1>5, <1>8, <2>1, Zenon
<1>11. ASSUME NEW who \in Who, NEW s \in Seq(By(who)), NEW other \in Who, other # who
       PROVE  Only(s, By(who)) = s /\ Only(s, By(other)) = <<>>
  <2>1. \A i \in 1 .. Len(s) : s[i] \in By(who) /\ s[i] \notin By(other)
    BY <1>11, ElementOfSeq DEF By
  <2>2. QED
    BY <2>1, OnlyAll, OnlyNone
<1>12. /\ Only(Only(agent, text), By("agent")) = Only(agent, text)
       /\ Only(Only(agent, text), By("caller")) = <<>>
       /\ Only(Only(caller, text), By("caller")) = Only(caller, text)
       /\ Only(Only(caller, text), By("agent")) = <<>>
  <2>1. "agent" \in Who /\ "caller" \in Who /\ "agent" # "caller"
    BY DEF Who
  <2>2. QED
    BY <1>8, <1>11, <2>1
<1>13. QED
  BY <1>7, <1>8, <1>9, <1>10, <1>12, ConcatEmptySeq DEF all

(* InOrder, of every pair of transcripts.                                  *)
LEMMA SortedInOrder == InOrder
<1>1. SUFFICES ASSUME NEW agent \in Transcripts("agent"), NEW caller \in Transcripts("caller")
      PROVE  LET conversation == SortMessages(agent, caller)
                 Of(who) == Only(conversation, {line \in Range(conversation) : line.speaker = who})
             IN /\ Of("agent") = WithText(agent)
                /\ Of("caller") = WithText(caller)
                /\ \A i, j \in DOMAIN conversation : conversation[i].timestamp < conversation[j].asked => i < j
  BY DEF InOrder
<1> DEFINE lines == WithText(agent \o caller)
           conversation == SortMessages(agent, caller)
<1>2. /\ lines \in Seq(Line)
      /\ InTime(Only(lines, By("agent"))) /\ Only(lines, By("agent")) = WithText(agent)
      /\ InTime(Only(lines, By("caller"))) /\ Only(lines, By("caller")) = WithText(caller)
  BY ReadOf
<1>3. /\ conversation \in Seq(Line) /\ InTime(conversation)
      /\ \A keep : InTime(Only(lines, keep)) => Only(conversation, keep) = Only(lines, keep)
  <2>1. Stable(lines)
    BY <1>2, SortIsStable
  <2>2. conversation = SortByTime(lines)
    BY DEF SortMessages
  <2> HIDE DEF lines, conversation
  <2>3. QED
    BY <2>1, <2>2 DEF Stable
<1> HIDE DEF lines, conversation
<1>4. ASSUME NEW who
      PROVE  Only(conversation, {line \in Range(conversation) : line.speaker = who}) = Only(conversation, By(who))
  <2> DEFINE ofWho == {line \in Range(conversation) : line.speaker = who}
  <2>1. \A i \in 1 .. Len(conversation) : conversation[i] \in ofWho <=> conversation[i] \in By(who)
    BY <1>3, LenProperties, ElementOfSeq DEF By, Range
  <2> HIDE DEF ofWho
  <2>2. Only(conversation, ofWho) = Only(conversation, By(who))
    BY <1>3, <2>1, OnlySame
  <2>3. QED
    BY <2>2 DEF ofWho
<1>5. ASSUME NEW i \in DOMAIN conversation, NEW j \in DOMAIN conversation,
             conversation[i].timestamp < conversation[j].asked
      PROVE  i < j
  <2>1. i \in 1 .. Len(conversation) /\ j \in 1 .. Len(conversation) /\ Len(conversation) \in Nat
    BY <1>3, LenProperties
  <2>2. conversation[i] \in Line /\ conversation[j] \in Line
    BY <1>3, <2>1, ElementOfSeq
  <2>3. /\ conversation[i].timestamp \in Nat
        /\ conversation[j].asked \in Nat /\ conversation[j].timestamp \in Nat
        /\ conversation[j].asked <= conversation[j].timestamp
    BY <2>2 DEF Line
  <2>4. CASE j < i
    <3>1. conversation[j].timestamp <= conversation[i].timestamp
      BY <1>3, <2>1, <2>4 DEF InTime
    <3>2. QED
      BY <1>5, <2>3, <3>1
  <2>5. CASE i = j
    BY <1>5, <2>3, <2>5
  <2>6. QED
    BY <2>1, <2>4, <2>5
<1>6. /\ Only(conversation, By("agent")) = WithText(agent)
      /\ Only(conversation, By("caller")) = WithText(caller)
  BY <1>2, <1>3
<1>7. QED
  BY <1>4, <1>5, <1>6 DEF conversation

-----------------------------------------------------------------------------
(* IsStored *)

Character == Who \X Nat \X Nat

(* A row as jn.samtale can hold it, and as it says who spoke.              *)
Row ==
    {row \in [rolle : Who, tekst : Seq(Character)] :
        /\ Len(row.tekst) \in 1 .. MaxLen
        /\ \A k \in 1 .. Len(row.tekst) : row.tekst[k][1] = row.rolle}

TextsOf(rows) == [i \in DOMAIN rows |-> rows[i].tekst]
SentencesOf(lines) == [i \in DOMAIN lines |-> lines[i].sentence]

(* Where the chunks of a sentence end.                                     *)
LEMMA ChunkEnds ==
  ASSUME NEW length \in Nat, NEW n, n = (length + MaxLen - 1) \div MaxLen,
         NEW k \in Nat, k < n
  PROVE  /\ k * MaxLen \in Nat /\ (k + 1) * MaxLen = k * MaxLen + MaxLen
         /\ k * MaxLen < length
         /\ k + 1 = n => length <= (k + 1) * MaxLen
         /\ k + 1 < n => (k + 1) * MaxLen < length
<1>1. MaxLen \in Nat \ {0}
  BY SamtaleAssumption
<1>2. /\ n \in Nat
      /\ MaxLen * n <= length + MaxLen - 1
      /\ length + MaxLen - 1 < MaxLen * n + MaxLen
  <2> DEFINE a == length + MaxLen - 1
  <2>1. a \in Nat
    BY <1>1
  <2> HIDE DEF a
  <2>2. (a \div MaxLen) \in Nat /\ MaxLen * (a \div MaxLen) <= a /\ a < MaxLen * (a \div MaxLen) + MaxLen
    BY <1>1, <2>1
  <2>3. QED
    BY <2>2 DEF a
<1>3. k * MaxLen \in Nat /\ (k + 1) * MaxLen = k * MaxLen + MaxLen
  BY <1>1
<1>4. \A m \in Nat : m <= n => m * MaxLen <= n * MaxLen /\ m * MaxLen \in Nat
  BY <1>1, <1>2
<1>5. MaxLen * n = n * MaxLen
  BY <1>1, <1>2
<1>6. (k + 1) * MaxLen <= n * MaxLen /\ n * MaxLen \in Nat
  BY <1>2, <1>4
<1>7. k * MaxLen < length
  BY <1>1, <1>2, <1>3, <1>5, <1>6
<1>8. ASSUME k + 1 = n PROVE length <= (k + 1) * MaxLen
  <2>1. (k + 1) * MaxLen = n * MaxLen
    BY <1>8
  <2>2. QED
    BY <1>1, <1>2, <1>3, <1>5, <1>6, <2>1
<1>9. ASSUME k + 1 < n PROVE (k + 1) * MaxLen < length
  <2>1. (k + 2) * MaxLen <= n * MaxLen /\ (k + 2) * MaxLen = (k + 1) * MaxLen + MaxLen
    <3>1. k + 2 \in Nat /\ k + 2 <= n
      BY <1>2, <1>9
    <3>2. (k + 2) * MaxLen = (k + 1) * MaxLen + MaxLen
      BY <1>1
    <3>3. QED
      BY <1>4, <3>1, <3>2
  <2>2. QED
    BY <1>1, <1>2, <1>3, <1>5, <1>6, <2>1
<1>10. QED
  BY <1>3, <1>7, <1>8, <1>9

(* The chunks of a line are rows; together they are its sentence.          *)
LEMMA ChunksOf ==
  ASSUME NEW e \in Line
  PROVE  /\ Chunks(e) \in Seq(Row)
         /\ FlattenSeq(TextsOf(Chunks(e))) = e.sentence
<1> DEFINE s == e.sentence
           length == Len(s)
           n == (length + MaxLen - 1) \div MaxLen
           End(k) == IF k * MaxLen < length THEN k * MaxLen ELSE length
           Text(k) == SubSeq(s, (k - 1) * MaxLen + 1, End(k))
<1>1. /\ s \in Seq(Character) /\ length \in Nat /\ e.speaker \in Who
      /\ \A k \in 1 .. length : s[k] \in Character /\ s[k][1] = e.speaker
  <2>1. s \in Seq(Character) /\ e.speaker \in Who /\ \A k \in 1 .. Len(s) : s[k][1] = e.speaker
    BY DEF Line, Character
  <2> HIDE DEF s
  <2>2. QED
    BY <2>1, LenProperties, ElementOfSeq
<1>2. Chunks(e) = [k \in 1 .. n |-> [rolle |-> e.speaker, tekst |-> Text(k)]]
  BY DEF Chunks
<1>3. MaxLen \in Nat \ {0} /\ n \in Nat /\ (n = 0 <=> length = 0)
  <2>1. MaxLen \in Nat \ {0}
    BY SamtaleAssumption
  <2> DEFINE a == length + MaxLen - 1
  <2>2. a \in Nat /\ (a < MaxLen <=> length = 0)
    BY <1>1, <2>1
  <2> HIDE DEF a
  <2>3. (a \div MaxLen) \in Nat /\ (a < MaxLen <=> a \div MaxLen = 0)
    BY <2>1, <2>2
  <2>4. QED
    BY <2>1, <2>2, <2>3 DEF a
<1>4. n = (length + MaxLen - 1) \div MaxLen
  OBVIOUS
<1> HIDE DEF s, length, n
<1>5. ASSUME NEW k \in Nat, k < n
      PROVE  /\ k * MaxLen \in Nat /\ k * MaxLen < length /\ End(k) = k * MaxLen
             /\ End(k + 1) \in Nat /\ k * MaxLen < End(k + 1) /\ End(k + 1) <= length
             /\ End(k + 1) <= k * MaxLen + MaxLen
             /\ k + 1 = n => End(k + 1) = length
  <2>1. /\ k * MaxLen \in Nat /\ (k + 1) * MaxLen = k * MaxLen + MaxLen
        /\ k * MaxLen < length
        /\ k + 1 = n => length <= (k + 1) * MaxLen
        /\ k + 1 < n => (k + 1) * MaxLen < length
    BY <1>1, <1>4, <1>5, ChunkEnds
  <2> DEFINE from == k * MaxLen
             to == (k + 1) * MaxLen
  <2>2. End(k) = from /\ End(k + 1) = IF to < length THEN to ELSE length
    BY <2>1
  <2>3. from \in Nat /\ to = from + MaxLen /\ from < length /\ (k + 1 = n => length <= to)
    BY <2>1
  <2> HIDE DEF from, to, End
  <2>4. /\ End(k + 1) \in Nat /\ from < End(k + 1) /\ End(k + 1) <= length
        /\ End(k + 1) <= from + MaxLen
        /\ k + 1 = n => End(k + 1) = length
    BY <1>1, <1>3, <2>2, <2>3
  <2>5. QED
    BY <2>2, <2>3, <2>4 DEF from
<1>6. ASSUME NEW k \in 1 .. n
      PROVE  /\ Text(k) \in Seq(Character)
             /\ Len(Text(k)) \in 1 .. MaxLen
             /\ \A i \in 1 .. Len(Text(k)) : Text(k)[i][1] = e.speaker
  <2>1. k - 1 \in Nat /\ k - 1 < n /\ (k - 1) + 1 = k
    BY <1>3
  <2> DEFINE from == (k - 1) * MaxLen
             to == End(k)
  <2>2. /\ from \in Nat /\ to \in Nat /\ from < to /\ to <= length /\ to <= from + MaxLen
    <3> HIDE DEF End
    <3>1. /\ (k - 1) * MaxLen \in Nat
          /\ End((k - 1) + 1) \in Nat /\ (k - 1) * MaxLen < End((k - 1) + 1) /\ End((k - 1) + 1) <= length
          /\ End((k - 1) + 1) <= (k - 1) * MaxLen + MaxLen
      BY <1>5, <2>1
    <3>2. QED
      BY <2>1, <3>1
  <2>3. Text(k) = SubSeq(s, from + 1, to)
    OBVIOUS
  <2> HIDE DEF from, to, Text
  <2>4. from + 1 \in Int /\ to \in Int /\ \A i \in from + 1 .. to : i \in 1 .. length
    BY <1>1, <2>2
  <2>5. /\ Text(k) \in Seq(Character)
        /\ Len(Text(k)) = IF from + 1 <= to THEN to - (from + 1) + 1 ELSE 0
        /\ \A i \in 1 .. to - (from + 1) + 1 : Text(k)[i] = s[(from + 1) + i - 1]
    <3>1. \A i \in from + 1 .. to : s[i] \in Character
      BY <1>1, <2>4
    <3>2. QED
      BY <2>3, <2>4, <3>1, SubSeqProperties
  <2>6. Len(Text(k)) = to - from /\ to - from \in 1 .. MaxLen
    BY <1>3, <2>2, <2>5
  <2>7. ASSUME NEW i \in 1 .. to - from PROVE Text(k)[i][1] = e.speaker
    <3>1. i \in 1 .. to - (from + 1) + 1 /\ (from + 1) + i - 1 = from + i /\ from + i \in 1 .. length
      BY <1>1, <2>2
    <3>2. Text(k)[i] = s[from + i]
      BY <2>5, <3>1
    <3>3. QED
      BY <1>1, <3>1, <3>2
  <2>8. QED
    BY <2>5, <2>6, <2>7
<1>7. Chunks(e) \in Seq(Row) /\ TextsOf(Chunks(e)) = [k \in 1 .. n |-> Text(k)]
  <2> HIDE DEF Text
  <2>1. \A k \in 1 .. n : [rolle |-> e.speaker, tekst |-> Text(k)] \in Row
    BY <1>1, <1>6 DEF Row
  <2>2. Chunks(e) \in Seq(Row)
    BY <1>2, <1>3, <2>1
  <2>3. TextsOf(Chunks(e)) = [k \in 1 .. n |-> Text(k)]
    BY <1>2 DEF TextsOf
  <2>4. QED
    BY <2>2, <2>3
<1> DEFINE Part(k) == [i \in 1 .. k |-> Text(i)]
           Done == {k \in Nat : k <= n => FlattenSeq(Part(k)) = SubSeq(s, 1, End(k))}
<1>8. 0 \in Done
  <2>1. End(0) = 0
    BY <1>1, <1>3
  <2>2. Part(0) = <<>>
    OBVIOUS
  <2>3. SubSeq(s, 1, 0) = <<>>
    BY SubSeqEmpty
  <2> HIDE DEF Part, End
  <2>4. QED
    BY <2>1, <2>2, <2>3, FlattenEmpty
<1>9. ASSUME NEW k \in Done PROVE k + 1 \in Done
  <2> HIDE DEF Part, End
  <2>1. SUFFICES ASSUME k + 1 <= n PROVE FlattenSeq(Part(k + 1)) = SubSeq(s, 1, End(k + 1))
    OBVIOUS
  <2> USE DEF Part, End
  <2>2. k \in Nat /\ k < n /\ k + 1 \in 1 .. n
    BY <1>3, <2>1
  <2>3. FlattenSeq(Part(k)) = SubSeq(s, 1, k * MaxLen)
    <3>1. End(k) = k * MaxLen
      BY <1>5, <2>2
    <3> HIDE DEF End, Part
    <3>2. QED
      BY <1>3, <2>2, <3>1
  <2>4. Text(k + 1) = SubSeq(s, k * MaxLen + 1, End(k + 1))
    <3>1. (k + 1) - 1 = k
      BY <2>2
    <3> HIDE DEF End
    <3>2. QED
      BY <3>1
  <2>5. /\ k * MaxLen \in Nat /\ End(k + 1) \in Nat
        /\ k * MaxLen < End(k + 1) /\ End(k + 1) <= length
    BY <1>5, <2>2
  <2> HIDE DEF Text, End
  <2>6. /\ Part(k) \in Seq(Seq(Character)) /\ Text(k + 1) \in Seq(Character)
        /\ Part(k + 1) = Append(Part(k), Text(k + 1))
    <3>1. \A i \in 1 .. k + 1 : Text(i) \in Seq(Character)
      BY <1>3, <1>6, <2>2
    <3>2. /\ Part(k) \in Seq(Seq(Character)) /\ Part(k + 1) \in Seq(Seq(Character))
          /\ Len(Part(k)) = k /\ Len(Part(k + 1)) = k + 1
          /\ \A i \in 1 .. k : Part(k)[i] = Text(i)
          /\ \A i \in 1 .. k + 1 : Part(k + 1)[i] = Text(i)
      BY <2>2, <3>1
    <3> HIDE DEF Part
    <3>3. Text(k + 1) \in Seq(Character)
      BY <2>2, <3>1
    <3>4. /\ Append(Part(k), Text(k + 1)) \in Seq(Seq(Character))
          /\ Len(Append(Part(k), Text(k + 1))) = k + 1
          /\ \A i \in 1 .. k : Append(Part(k), Text(k + 1))[i] = Part(k)[i]
          /\ Append(Part(k), Text(k + 1))[k + 1] = Text(k + 1)
      <4> DEFINE p == Part(k)
                 t == Text(k + 1)
      <4>1. p \in Seq(Seq(Character)) /\ Len(p) = k /\ t \in Seq(Character)
        BY <3>2, <3>3
      <4> HIDE DEF p, t
      <4>2. /\ Append(p, t) \in Seq(Seq(Character)) /\ Len(Append(p, t)) = k + 1
            /\ \A i \in 1 .. k : Append(p, t)[i] = p[i]
            /\ Append(p, t)[k + 1] = t
        BY <4>1, AppendProperties
      <4>3. QED
        BY <4>2 DEF p, t
    <3>5. \A i \in 1 .. k + 1 : Part(k + 1)[i] = Append(Part(k), Text(k + 1))[i]
      BY <2>2, <3>2, <3>4
    <3>6. Part(k + 1) = Append(Part(k), Text(k + 1))
      BY <3>2, <3>4, <3>5, SeqEqual
    <3>7. QED
      BY <3>2, <3>3, <3>6
  <2> HIDE DEF Part
  <2>7. FlattenSeq(Part(k + 1)) = SubSeq(s, 1, k * MaxLen) \o SubSeq(s, k * MaxLen + 1, End(k + 1))
    BY <2>3, <2>4, <2>6, FlattenAppend
  <2> DEFINE from == k * MaxLen
             to == End(k + 1)
  <2>8. from \in 1 - 1 .. length /\ to \in from .. length /\ 1 \in 1 .. length + 1
    BY <1>1, <2>5
  <2>9. SubSeq(s, 1, from) \o SubSeq(s, from + 1, to) = SubSeq(s, 1, to)
    <3> HIDE DEF from, to
    <3>1. QED
      BY <1>1, <2>8, ConcatAdjacentSubSeq DEF length
  <2>10. QED
    BY <2>7, <2>9
<1>10. Done = Nat
  <2> HIDE DEF Done
  <2>1. Done \in SUBSET Nat
    BY DEF Done
  <2>2. QED
    BY <1>8, <1>9, <2>1, NumberInduction
<1>11. FlattenSeq(Part(n)) = SubSeq(s, 1, End(n))
  <2>1. n \in Done
    BY <1>3, <1>10
  <2> HIDE DEF Part, End
  <2>2. QED
    BY <1>3, <2>1
<1>12. End(n) = length
  <2>1. CASE n = 0
    BY <1>1, <1>3, <2>1
  <2>2. CASE n # 0
    <3>1. n - 1 \in Nat /\ n - 1 < n /\ (n - 1) + 1 = n
      BY <1>3, <2>2
    <3> HIDE DEF End
    <3>2. End((n - 1) + 1) = length
      BY <1>5, <3>1
    <3>3. QED
      BY <3>1, <3>2
  <2>3. QED
    BY <2>1, <2>2
<1>13. SubSeq(s, 1, length) = s
  BY <1>1, SubSeqFull DEF length
<1>14. QED
  BY <1>7, <1>11, <1>12, <1>13 DEF s

(* The rows of a conversation are rows that give back its sentences.       *)
LEMMA RowsOf ==
  ASSUME NEW lines \in Seq(Line)
  PROVE  /\ GemSamtale(lines) \in Seq(Row)
         /\ FlattenSeq(TextsOf(GemSamtale(lines))) = FlattenSeq(SentencesOf(lines))
<1> DEFINE ChunksOfAll(l) == [i \in DOMAIN l |-> Chunks(l[i])]
           Good == {l \in Seq(Line) : /\ GemSamtale(l) \in Seq(Row)
                                       /\ FlattenSeq(TextsOf(GemSamtale(l))) = FlattenSeq(SentencesOf(l))}
<1>1. <<>> \in Good
  <2>1. ChunksOfAll(<<>>) = <<>> /\ SentencesOf(<<>>) = <<>> /\ TextsOf(<<>>) = <<>>
    BY DEF SentencesOf, TextsOf
  <2>2. GemSamtale(<<>>) = <<>>
    BY <2>1, FlattenEmpty DEF GemSamtale
  <2>3. QED
    BY <2>1, <2>2, EmptySeq
<1>2. ASSUME NEW l \in Good, NEW e \in Line PROVE Append(l, e) \in Good
  <2> DEFINE le == Append(l, e)
             n == Len(l)
             rows == GemSamtale(l)
  <2>1. /\ l \in Seq(Line) /\ rows \in Seq(Row)
        /\ FlattenSeq(TextsOf(rows)) = FlattenSeq(SentencesOf(l))
    OBVIOUS
  <2>2. /\ le \in Seq(Line)
        /\ n \in Nat /\ DOMAIN l = 1 .. n /\ DOMAIN le = 1 .. n + 1
        /\ \A i \in 1 .. n : le[i] = l[i] /\ l[i] \in Line
        /\ le[n + 1] = e
    BY <2>1, AppendProperties, LenProperties, ElementOfSeq
  <2> HIDE DEF le, n, rows
  <2>3. \A i \in 1 .. n + 1 : i \in 1 .. n \/ i = n + 1
    BY <2>2
  <2>4. /\ ChunksOfAll(l) \in Seq(Seq(Row)) /\ Chunks(e) \in Seq(Row)
        /\ ChunksOfAll(le) = Append(ChunksOfAll(l), Chunks(e))
    <3>1. \A line \in Line : Chunks(line) \in Seq(Row)
      BY ChunksOf
    <3>2. /\ ChunksOfAll(l) \in Seq(Seq(Row)) /\ Len(ChunksOfAll(l)) = n
          /\ \A i \in 1 .. n : ChunksOfAll(l)[i] = Chunks(l[i])
      BY <2>2, <3>1
    <3>3. /\ ChunksOfAll(le) \in Seq(Seq(Row)) /\ Len(ChunksOfAll(le)) = n + 1
          /\ \A i \in 1 .. n + 1 : ChunksOfAll(le)[i] = Chunks(le[i])
      BY <2>2, <2>3, <3>1
    <3> DEFINE a == ChunksOfAll(l)
               b == ChunksOfAll(le)
               c == Chunks(e)
    <3>4. /\ a \in Seq(Seq(Row)) /\ Len(a) = n /\ \A i \in 1 .. n : a[i] = Chunks(l[i])
          /\ b \in Seq(Seq(Row)) /\ Len(b) = n + 1 /\ \A i \in 1 .. n + 1 : b[i] = Chunks(le[i])
          /\ c \in Seq(Row) /\ c = Chunks(e)
      BY <3>1, <3>2, <3>3
    <3> HIDE DEF a, b, c
    <3>5. /\ Append(a, c) \in Seq(Seq(Row)) /\ Len(Append(a, c)) = n + 1
          /\ \A i \in 1 .. n : Append(a, c)[i] = a[i]
          /\ Append(a, c)[n + 1] = c
      BY <3>4, AppendProperties
    <3>6. ASSUME NEW i \in 1 .. n + 1 PROVE b[i] = Append(a, c)[i]
      <4>1. CASE i \in 1 .. n
        BY <2>2, <3>4, <3>5, <4>1
      <4>2. CASE i = n + 1
        BY <2>2, <3>4, <3>5, <4>2
      <4>3. QED
        BY <2>3, <4>1, <4>2
    <3>7. b = Append(a, c)
      BY <3>4, <3>5, <3>6, SeqEqual
    <3>8. QED
      BY <3>4, <3>7 DEF a, b, c
  <2>5. GemSamtale(le) = rows \o Chunks(e)
    <3> DEFINE a == ChunksOfAll(l)
               c == Chunks(e)
    <3>1. a \in Seq(Seq(Row)) /\ c \in Seq(Row)
      BY <2>4
    <3>2. GemSamtale(le) = FlattenSeq(Append(a, c)) /\ rows = FlattenSeq(a)
      BY <2>4 DEF GemSamtale, rows
    <3> HIDE DEF a, c
    <3>3. FlattenSeq(Append(a, c)) = FlattenSeq(a) \o c
      BY <3>1, FlattenAppend
    <3>4. QED
      BY <3>2, <3>3 DEF c
  <2>6. TextsOf(rows \o Chunks(e)) = TextsOf(rows) \o TextsOf(Chunks(e))
        /\ TextsOf(rows) \in Seq(Seq(Character)) /\ TextsOf(Chunks(e)) \in Seq(Seq(Character))
        /\ rows \o Chunks(e) \in Seq(Row)
    <3>1. ASSUME NEW r \in Seq(Row)
          PROVE  /\ TextsOf(r) \in Seq(Seq(Character)) /\ Len(TextsOf(r)) = Len(r) /\ Len(r) \in Nat
                 /\ \A i \in 1 .. Len(r) : TextsOf(r)[i] = r[i].tekst
      <4>1. DOMAIN r = 1 .. Len(r) /\ Len(r) \in Nat /\ \A i \in 1 .. Len(r) : r[i].tekst \in Seq(Character)
        BY LenProperties, ElementOfSeq DEF Row
      <4>2. QED
        BY <4>1 DEF TextsOf
    <3>2. ASSUME NEW r \in Seq(Row), NEW c \in Seq(Row)
          PROVE  r \o c \in Seq(Row) /\ TextsOf(r \o c) = TextsOf(r) \o TextsOf(c)
      <4> DEFINE rc == r \o c
                 m == Len(r)
                 k == Len(c)
      <4>1. /\ rc \in Seq(Row) /\ Len(rc) = m + k /\ m \in Nat /\ k \in Nat
            /\ \A i \in 1 .. m + k : rc[i] = IF i <= m THEN r[i] ELSE c[i - m]
        BY ConcatProperties, LenProperties
      <4> HIDE DEF rc
      <4> DEFINE x == TextsOf(r)
                 y == TextsOf(c)
                 z == TextsOf(rc)
      <4>2. /\ x \in Seq(Seq(Character)) /\ Len(x) = m /\ \A i \in 1 .. m : x[i] = r[i].tekst
            /\ y \in Seq(Seq(Character)) /\ Len(y) = k /\ \A i \in 1 .. k : y[i] = c[i].tekst
        BY <3>1
      <4>3. z \in Seq(Seq(Character)) /\ Len(z) = m + k /\ \A i \in 1 .. m + k : z[i] = rc[i].tekst
        BY <3>1, <4>1
      <4> HIDE DEF x, y, z, m, k
      <4>4. /\ x \o y \in Seq(Seq(Character)) /\ Len(x \o y) = m + k
            /\ \A i \in 1 .. m + k : (x \o y)[i] = IF i <= m THEN x[i] ELSE y[i - m]
        BY <4>2, ConcatProperties, ZenonT(60)
      <4>5. ASSUME NEW i \in 1 .. m + k PROVE z[i] = (x \o y)[i]
        <5>1. CASE i <= m
          <6>1. i \in 1 .. m
            BY <4>1, <5>1
          <6>2. QED
            BY <4>1, <4>2, <4>3, <4>4, <5>1, <6>1, ZenonT(60)
        <5>2. CASE ~ (i <= m)
          <6>1. i - m \in 1 .. k
            BY <4>1, <5>2
          <6>2. QED
            BY <4>1, <4>2, <4>3, <4>4, <5>2, <6>1, ZenonT(60)
        <5>3. QED
          BY <5>1, <5>2
      <4>6. z = x \o y
        BY <4>3, <4>4, <4>5, SeqEqual
      <4>7. QED
        BY <4>1, <4>6 DEF x, y, z, rc
    <3>3. QED
      BY <2>1, <2>4, <3>1, <3>2
  <2>7. FlattenSeq(TextsOf(GemSamtale(le))) = FlattenSeq(SentencesOf(l)) \o e.sentence
    <3> DEFINE x == TextsOf(rows)
               y == TextsOf(Chunks(e))
    <3>1. /\ x \in Seq(Seq(Character)) /\ y \in Seq(Seq(Character))
          /\ TextsOf(GemSamtale(le)) = x \o y
          /\ FlattenSeq(x) = FlattenSeq(SentencesOf(l)) /\ FlattenSeq(y) = e.sentence
      BY <2>1, <2>5, <2>6, ChunksOf
    <3> HIDE DEF x, y
    <3>2. FlattenSeq(x \o y) = FlattenSeq(x) \o FlattenSeq(y)
      BY <3>1, FlattenConcat
    <3>3. QED
      BY <3>1, <3>2
  <2>8. /\ SentencesOf(l) \in Seq(Seq(Character)) /\ e.sentence \in Seq(Character)
        /\ SentencesOf(le) = Append(SentencesOf(l), e.sentence)
    <3>1. \A line \in Line : line.sentence \in Seq(Character)
      BY DEF Line, Character
    <3> DEFINE a == SentencesOf(l)
               b == SentencesOf(le)
               c == e.sentence
    <3>2. /\ a \in Seq(Seq(Character)) /\ Len(a) = n /\ \A i \in 1 .. n : a[i] = l[i].sentence
          /\ c \in Seq(Character)
      BY <2>2, <3>1 DEF SentencesOf
    <3>3. b \in Seq(Seq(Character)) /\ Len(b) = n + 1 /\ \A i \in 1 .. n + 1 : b[i] = le[i].sentence
      BY <2>2, <2>3, <3>1 DEF SentencesOf
    <3>4. c = e.sentence
      OBVIOUS
    <3> HIDE DEF a, b, c
    <3>5. /\ Append(a, c) \in Seq(Seq(Character)) /\ Len(Append(a, c)) = n + 1
          /\ \A i \in 1 .. n : Append(a, c)[i] = a[i]
          /\ Append(a, c)[n + 1] = c
      BY <3>2, AppendProperties
    <3>6. ASSUME NEW i \in 1 .. n + 1 PROVE b[i] = Append(a, c)[i]
      <4>1. CASE i \in 1 .. n
        BY <2>2, <3>2, <3>3, <3>5, <4>1
      <4>2. CASE i = n + 1
        BY <2>2, <3>3, <3>4, <3>5, <4>2
      <4>3. QED
        BY <2>3, <4>1, <4>2
    <3>7. b = Append(a, c)
      BY <3>3, <3>5, <3>6, SeqEqual
    <3>8. QED
      BY <3>2, <3>7 DEF a, b, c
  <2>9. FlattenSeq(SentencesOf(le)) = FlattenSeq(SentencesOf(l)) \o e.sentence
    BY <2>8, FlattenAppend
  <2>10. GemSamtale(le) \in Seq(Row)
    BY <2>5, <2>6
  <2>11. QED
    BY <2>2, <2>7, <2>9, <2>10 DEF le
<1>3. Good = Seq(Line)
  <2> HIDE DEF Good
  <2>1. Good \in SUBSET Seq(Line)
    BY DEF Good
  <2>2. QED
    BY <1>1, <1>2, <2>1, SequenceInduction
<1>4. QED
  BY <1>3

(* IsStored, of every pair of transcripts.                                 *)
LEMMA RowsAreStored == IsStored
<1>1. SUFFICES ASSUME NEW agent \in Transcripts("agent"), NEW caller \in Transcripts("caller")
      PROVE  LET conversation == SortMessages(agent, caller)
                 rows == GemSamtale(conversation)
             IN /\ FlattenSeq([i \in DOMAIN rows |-> rows[i].tekst])
                      = FlattenSeq([i \in DOMAIN conversation |-> conversation[i].sentence])
                /\ \A i \in DOMAIN rows :
                      /\ Len(rows[i].tekst) \in 1 .. MaxLen
                      /\ \A k \in DOMAIN rows[i].tekst : rows[i].tekst[k][1] = rows[i].rolle
  BY DEF IsStored
<1> DEFINE conversation == SortMessages(agent, caller)
           rows == GemSamtale(conversation)
<1>2. conversation \in Seq(Line)
  <2>1. WithText(agent \o caller) \in Seq(Line)
    BY ReadOf
  <2>2. QED
    BY <2>1, SortIsStable DEF SortMessages, Stable
<1> HIDE DEF conversation
<1>3. rows \in Seq(Row) /\ FlattenSeq(TextsOf(rows)) = FlattenSeq(SentencesOf(conversation))
  BY <1>2, RowsOf
<1> HIDE DEF rows
<1>4. ASSUME NEW i \in DOMAIN rows
      PROVE  /\ Len(rows[i].tekst) \in 1 .. MaxLen
             /\ \A k \in DOMAIN rows[i].tekst : rows[i].tekst[k][1] = rows[i].rolle
  <2>1. rows[i] \in Row
    BY <1>3, LenProperties, ElementOfSeq
  <2>2. rows[i].tekst \in Seq(Character) /\ DOMAIN rows[i].tekst = 1 .. Len(rows[i].tekst)
    BY <2>1, LenProperties DEF Row
  <2>3. QED
    BY <2>1, <2>2 DEF Row
<1>5. FlattenSeq([i \in DOMAIN rows |-> rows[i].tekst])
        = FlattenSeq([i \in DOMAIN conversation |-> conversation[i].sentence])
  BY <1>3 DEF TextsOf, SentencesOf
<1>6. QED
  BY <1>4, <1>5 DEF rows, conversation

-----------------------------------------------------------------------------
(* The theorems *)

(***************************************************************************)
(* The conversation the model is asked about has all that was transcribed, *)
(* in each speaker's order, whatever the transcripts are                   *)
(* (read_and_sort_messages).                                               *)
(***************************************************************************)
THEOREM ConversationKeepsOrder == Spec => []ConversationInOrder
<1>1. ConversationInOrder
  BY SortedInOrder DEF ConversationInOrder
<1>2. QED
  BY <1>1, PTL

(***************************************************************************)
(* What is stored of it in jn.samtale fits and is all of it (gem_samtale). *)
(***************************************************************************)
THEOREM ConversationKeepsText == Spec => []ConversationIsStored
<1>1. ConversationIsStored
  BY RowsAreStored DEF ConversationIsStored
<1>2. QED
  BY <1>1, PTL
=============================================================================
