---------------------------- MODULE LoggerProofs ----------------------------
(***************************************************************************)
(* Proofs about Logger, for every number of threads, every limit, size of  *)
(* the buffer, length of the prefix and set of messages.                   *)
(***************************************************************************)
EXTENDS Logger, FiniteSetTheorems, SequenceTheorems, WellFoundedInduction, TLAPS

-----------------------------------------------------------------------------
(* The inductive invariant                                                 *)

LogLines == [id : 0..MaxLogs, level : DOMAIN Severity, length : 1..BufSize,
             text : Nat, asked : Nat]

Events == {"race", "limit", "overwritten", "removed", "kept", "unwritten", "late"}

LogConfig ==
  /\ initialized \in BOOLEAN /\ named \in BOOLEAN
  /\ level \in DOMAIN Severity /\ maxLines \in {0, Limit}
  /\ events \in SUBSET Events
  /\ clock \in 0..MaxSeconds /\ count \in 0..MaxLogs /\ faults \in 0..MaxFaults

LogStates ==
  /\ fout \in {"closed", "open", "failed", "moved"} /\ curLines \in Nat
  /\ movedTo \in 0..MaxSeconds
  /\ pc \in [Threads -> {"idle", "flush", "reset", "close", "rename", "reopen", "append"}]

LogFiles ==
  /\ file \in (SUBSET (1..MaxLogs)) \union {NoFile}
  /\ backups \in [0..MaxSeconds -> SUBSET (1..MaxLogs)]

LogBuffer ==
  /\ buffer \in Seq(LogLines) /\ line \in [Threads -> LogLines]
  /\ Offset(buffer) <= BufSize

(* A line that is being logged is in no buffer and no history yet, and what *)
(* an ERROR has made durable is out of the buffer.                          *)
Numbers ==
  /\ \A t \in Threads : pc[t] = "idle" => line[t].id = 0
  /\ \A t \in Threads : pc[t] # "idle" =>
       line[t].id \in 1..count /\ line[t].id \notin logged \union Ids(buffer)
  /\ \A t, u \in Threads : pc[t] # "idle" /\ line[t].id = line[u].id => t = u
  /\ Ids(buffer) \subseteq 1..count /\ logged \subseteq 1..count
  /\ durable \subseteq logged /\ durable \intersect Ids(buffer) = {}

LogType == LogConfig /\ LogStates /\ LogFiles /\ LogBuffer /\ Numbers

(* As long as no thread has logged while another was inside rotate(), and   *)
(* no write has failed, one thread at most is in there, and the buffer, the *)
(* stream and the file are as the statements it has behind it leave them.  *)
Spoiled == events \intersect {"race", "late", "unwritten"} # {}

Calm == ~Spoiled =>
  /\ \A t, u \in Rotating : t = u
  /\ fout \in {"closed", "open"} /\ (fout = "closed" => buffer = <<>>)
  /\ (~initialized => fout = "closed") /\ (initialized => named)
  /\ \A t \in Threads :
       /\ pc[t] = "reset" => Ids(buffer) \subseteq Lines(file)
       /\ pc[t] \in {"close", "rename", "reopen"} => buffer = <<>>
       /\ pc[t] \in {"rename", "reopen"} => fout = "closed"
       /\ pc[t] = "reopen" => file = NoFile \/ "kept" \in events

Kept == events \subseteq {"limit", "kept"} =>
  /\ logged \subseteq Stored \union Ids(buffer)
  /\ durable \subseteq Stored

(* The lines of the file and of the buffer are counted, once init() has    *)
(* named the file, and the threads that will append have tested the count. *)
Content == Lines(file) \union Ids(buffer)
Appending == {t \in Threads : pc[t] = "append"}

Bounded == events \subseteq {"overwritten", "removed"} =>
  /\ maxLines = Limit
  /\ Cardinality(Content) < Limit + Cardinality(Threads)
  /\ named => /\ Cardinality(Content) <= curLines
              /\ curLines + Cardinality(Appending) < Limit + Cardinality(Threads)

LogInv == LogType /\ LinesWhole /\ Calm /\ Kept /\ Bounded


-----------------------------------------------------------------------------
(* Sequences read one element after the other.  A function defined by      *)
(* recursion on a number exists: the first number it could not be extended *)
(* to is a contradiction.                                                  *)

LEMMA LeastNumber ==
  ASSUME NEW T \in SUBSET Nat, T # {}
  PROVE  \E m \in T : \A k \in T : m <= k
<1> DEFINE R == {ss \in Nat \X Nat : ss[1] < ss[2]}
<1>1. IsWellFoundedOn(R, Nat)
  BY NatLessThanWellFounded DEF OpToRel
<1>2. \E m \in T : \A k \in T : ~ (<<k, m>> \in R)
  <2> HIDE DEF R
  <2> QED
    BY <1>1, WFMin
<1>3. ASSUME NEW k \in T, NEW m \in T, ~ (<<k, m>> \in R) PROVE m <= k
  <2>1. k \in Nat /\ m \in Nat /\ ~ (k < m)
    BY <1>3
  <2> QED
    BY <2>1
<1> QED
  <2> HIDE DEF R
  <2> QED
    BY <1>2, <1>3

(* What holds of 0 and of every next number up to n holds up to n.         *)
LEMMA UpTo ==
  ASSUME NEW n \in Nat, NEW P \in SUBSET Nat, 0 \in P,
         \A i \in 1..n : i - 1 \in P => i \in P
  PROVE  \A i \in 0..n : i \in P
<1> DEFINE T == {i \in 0..n : i \notin P}
<1>1. CASE T = {}
  BY <1>1
<1>2. CASE T # {}
  <2>1. PICK m \in T : \A k \in T : m <= k
    <3>1. T \in SUBSET Nat
      OBVIOUS
    <3> HIDE DEF T
    <3> QED
      BY <1>2, <3>1, LeastNumber
  <2>2. m \in 1..n /\ m \notin P /\ m - 1 \in 0..n /\ ~ (m <= m - 1)
    BY <2>1
  <2>3. m - 1 \in P
    BY <2>1, <2>2
  <2> QED
    BY <2>2, <2>3
<1> QED
  BY <1>1, <1>2

Follows(f, a, g, q) ==
  f = [i \in 0..Len(q) |-> IF i = 0 THEN a ELSE g[<<f[i - 1], q[i]>>]]

LEMMA Recursion ==
  ASSUME NEW S, NEW a \in S, NEW D, NEW g \in [S \X D -> S], NEW q \in Seq(D)
  PROVE  \E f \in [0..Len(q) -> S] : Follows(f, a, g, q)
<1> DEFINE Steps(f, n) ==
             \A i \in 0..n : f[i] = IF i = 0 THEN a ELSE g[<<f[i - 1], q[i]>>]
           P == {n \in Nat : n <= Len(q) => \E f \in [0..n -> S] : Steps(f, n)}
<1>1. Len(q) \in Nat /\ \A i \in 1..Len(q) : q[i] \in D
  OBVIOUS
<1>2. 0 \in P
  <2>1. [i \in 0..0 |-> a] \in [0..0 -> S] /\ Steps([i \in 0..0 |-> a], 0)
    OBVIOUS
  <2> QED
    BY <2>1
<1>3. ASSUME NEW n \in 1..Len(q), n - 1 \in P PROVE n \in P
  <2>1. PICK f \in [0..(n - 1) -> S] : Steps(f, n - 1)
    BY <1>1, <1>3
  <2>2. f[n - 1] \in S /\ q[n] \in D
    BY <1>1
  <2>3. g[<<f[n - 1], q[n]>>] \in S
    BY <2>2
  <2> DEFINE h == [i \in 0..n |-> IF i = n THEN g[<<f[n - 1], q[n]>>] ELSE f[i]]
  <2>4. h \in [0..n -> S]
    BY <2>3
  <2>5. ASSUME NEW i \in 0..n PROVE h[i] = IF i = 0 THEN a ELSE g[<<h[i - 1], q[i]>>]
    <3>1. CASE i = n
      <4>1. h[i] = g[<<f[n - 1], q[n]>>] /\ h[i - 1] = f[n - 1] /\ i # 0
        BY <3>1
      <4> QED
        BY <3>1, <4>1
    <3>2. CASE i # n
      <4>1. i \in 0..(n - 1) /\ h[i] = f[i]
        BY <3>2
      <4>2. i # 0 => h[i - 1] = f[i - 1]
        BY <3>2
      <4> HIDE DEF h
      <4> QED
        BY <2>1, <4>1, <4>2
    <3> QED
      BY <3>1, <3>2
  <2> HIDE DEF h
  <2> QED
    BY <2>4, <2>5
<1>4. Len(q) \in P
  <2>1. P \in SUBSET Nat /\ Len(q) \in 0..Len(q)
    BY <1>1
  <2> HIDE DEF P
  <2> QED
    BY <1>1, <1>2, <1>3, <2>1, UpTo
<1>5. PICK f \in [0..Len(q) -> S] : Steps(f, Len(q))
  BY <1>1, <1>4
<1> QED
  BY <1>5 DEF Follows

LEMMA SumsAre ==
  ASSUME NEW q \in Seq(Nat)
  PROVE  /\ Sums(q) \in [0..Len(q) -> Nat] /\ Sums(q)[0] = 0
         /\ \A i \in 1..Len(q) : Sums(q)[i] = Sums(q)[i - 1] + q[i]
<1> DEFINE g == [p \in Nat \X Nat |-> p[1] + p[2]]
           Def(f) == f = [i \in 0..Len(q) |-> IF i = 0 THEN 0 ELSE f[i - 1] + q[i]]
<1>1. Len(q) \in Nat /\ \A i \in 1..Len(q) : q[i] \in Nat
  OBVIOUS
<1>2. \E f \in [0..Len(q) -> Nat] : Def(f)
  <2>1. g \in [Nat \X Nat -> Nat]
    OBVIOUS
  <2>2. \A x, y \in Nat : g[<<x, y>>] = x + y
    OBVIOUS
  <2> HIDE DEF g
  <2>3. PICK f \in [0..Len(q) -> Nat] : Follows(f, 0, g, q)
    <3>1. 0 \in Nat
      OBVIOUS
    <3> QED
      BY <2>1, <3>1, Recursion
  <2>4. ASSUME NEW i \in 0..Len(q), i # 0 PROVE g[<<f[i - 1], q[i]>>] = f[i - 1] + q[i]
    <3>1. i \in 1..Len(q) /\ i - 1 \in 0..Len(q)
      BY <1>1, <2>4
    <3>2. f[i - 1] \in Nat /\ q[i] \in Nat
      BY <1>1, <3>1
    <3> QED
      BY <2>2, <3>2
  <2> QED
    BY <2>3, <2>4 DEF Follows
<1>3. Def(Sums(q))
  <2>1. Sums(q) = CHOOSE f : Def(f)
    BY DEF Sums
  <2> HIDE DEF Def
  <2> QED
    BY <1>2, <2>1
<1>4. DOMAIN Sums(q) = 0..Len(q)
      /\ \A i \in 0..Len(q) : Sums(q)[i] = IF i = 0 THEN 0 ELSE Sums(q)[i - 1] + q[i]
  BY <1>3
<1>5. \A i \in 0..Len(q) : i \in {n \in Nat : Sums(q)[n] \in Nat}
  <2> DEFINE P == {n \in Nat : Sums(q)[n] \in Nat}
  <2>1. P \in SUBSET Nat /\ 0 \in P
    BY <1>1, <1>4
  <2>2. ASSUME NEW i \in 1..Len(q), i - 1 \in P PROVE i \in P
    BY <1>1, <1>4, <2>2
  <2> HIDE DEF P
  <2>3. \A i \in 0..Len(q) : i \in P
    BY <1>1, <2>1, <2>2, UpTo
  <2> QED
    BY <2>3 DEF P
<1>6. Sums(q) \in [0..Len(q) -> Nat]
  <2>1. Sums(q) = [i \in 0..Len(q) |-> Sums(q)[i]]
    BY <1>3
  <2> QED
    BY <1>5, <2>1
<1> QED
  BY <1>1, <1>4, <1>6


LEMMA TotalIs ==
  ASSUME NEW q \in Seq(Nat)
  PROVE  Total(q) \in Nat /\ (q = <<>> => Total(q) = 0) /\ \A i \in 0..Len(q) : Sums(q)[i] <= Total(q)
<1> DEFINE s == Sums(q)
           n == Len(q)
           P == {k \in Nat : k <= n => s[n - k] <= s[n]}
<1>1. n \in Nat /\ (q = <<>> => n = 0) /\ \A i \in 1..n : q[i] \in Nat
  OBVIOUS
<1>2. /\ s \in [0..n -> Nat] /\ s[0] = 0
      /\ \A i \in 1..n : s[i] = s[i - 1] + q[i]
  BY SumsAre
<1> HIDE DEF s, n
<1>3. 0 \in P
  BY <1>1, <1>2
<1>4. ASSUME NEW k \in 1..n, k - 1 \in P PROVE k \in P
  <2>1. PICK i : i = n - (k - 1)
    OBVIOUS
  <2>2. i \in 1..n /\ i - 1 = n - k /\ i - 1 \in 0..n /\ s[i] <= s[n]
    BY <1>1, <1>4, <2>1
  <2>3. s[i] = s[i - 1] + q[i] /\ s[i] \in Nat /\ s[i - 1] \in Nat /\ q[i] \in Nat /\ s[n] \in Nat
    BY <1>1, <1>2, <2>2
  <2>4. s[n - k] <= s[n]
    BY <2>2, <2>3
  <2> QED
    BY <1>1, <2>4
<1>5. \A k \in 0..n : k \in P
  <2>1. P \in SUBSET Nat
    OBVIOUS
  <2> HIDE DEF P
  <2> QED
    BY <1>1, <1>3, <1>4, <2>1, UpTo
<1>6. ASSUME NEW i \in 0..n PROVE s[i] <= s[n]
  <2>1. n - i \in 0..n /\ n - (n - i) = i /\ n - i <= n
    BY <1>1
  <2> QED
    BY <1>5, <2>1
<1>7. Total(q) = s[n]
  BY DEF Total, s, n
<1> QED
  BY <1>1, <1>2, <1>6, <1>7 DEF s, n

LEMMA TotalAppend ==
  ASSUME NEW q \in Seq(Nat), NEW x \in Nat
  PROVE  Total(Append(q, x)) = Total(q) + x
<1> DEFINE p == Append(q, x)
           n == Len(q)
           P == {i \in Nat : i <= n => Sums(p)[i] = Sums(q)[i]}
<1>1. /\ n \in Nat /\ p \in Seq(Nat) /\ Len(p) = n + 1 /\ p[n + 1] = x
      /\ \A i \in 1..n : p[i] = q[i]
  BY AppendProperties
<1> HIDE DEF p
<1>2. /\ Sums(q)[0] = 0 /\ \A i \in 1..n : Sums(q)[i] = Sums(q)[i - 1] + q[i]
  BY SumsAre
<1>3. /\ Sums(p)[0] = 0 /\ \A i \in 1..(n + 1) : Sums(p)[i] = Sums(p)[i - 1] + p[i]
  BY <1>1, SumsAre
<1> HIDE DEF n
<1>4. 0 \in P
  BY <1>2, <1>3
<1>5. ASSUME NEW i \in 1..n, i - 1 \in P PROVE i \in P
  <2>1. i \in 1..(n + 1) /\ i - 1 <= n
    BY <1>1
  <2> QED
    BY <1>1, <1>2, <1>3, <1>5, <2>1
<1>6. n \in P
  <2>1. P \in SUBSET Nat /\ n \in 0..n
    BY <1>1
  <2> HIDE DEF P
  <2> QED
    BY <1>1, <1>4, <1>5, <2>1, UpTo
<1>7. Sums(p)[n + 1] = Sums(p)[n] + x
  <2>1. n + 1 \in 1..(n + 1) /\ (n + 1) - 1 = n
    BY <1>1
  <2> QED
    BY <1>1, <1>3, <2>1
<1>8. Sums(p)[n] = Sums(q)[n]
  BY <1>1, <1>6
<1>9. Total(p) = Sums(p)[n + 1] /\ Total(q) = Sums(q)[n]
  BY <1>1 DEF Total, n
<1> QED
  BY <1>7, <1>8, <1>9 DEF p

-----------------------------------------------------------------------------
(* The buffer.                                                             *)
LEMMA OffsetIs ==
  /\ Offset(<<>>) = 0
  /\ \A b \in Seq(LogLines) : Offset(b) \in Nat
  /\ \A b \in Seq(LogLines), l \in LogLines :
       Offset(Append(b, l)) = Offset(b) + l.length
<1> DEFINE Lengths(b) == [i \in 1..Len(b) |-> b[i].length]
<1>1. ASSUME NEW b \in Seq(LogLines)
      PROVE  Lengths(b) \in Seq(Nat) /\ Len(Lengths(b)) = Len(b)
  <2>1. Len(b) \in Nat /\ \A i \in 1..Len(b) : b[i].length \in Nat
    <3>1. Len(b) \in Nat /\ \A i \in 1..Len(b) : b[i] \in LogLines
      OBVIOUS
    <3>2. \A l \in LogLines : l.length \in Nat
      BY DEF LogLines
    <3> QED
      BY <3>1, <3>2
  <2>2. Lengths(b) \in [1..Len(b) -> Nat]
    BY <2>1
  <2> QED
    BY <2>1, <2>2, LenProperties, SeqDef
<1>2. Lengths(<<>>) = <<>> /\ Lengths(<<>>) \in Seq(Nat)
  OBVIOUS
<1>3. ASSUME NEW b \in Seq(LogLines), NEW l \in LogLines
      PROVE  Lengths(Append(b, l)) = Append(Lengths(b), l.length) /\ l.length \in Nat
  <2>1. PICK p \in Seq(Nat) : p = Lengths(b)
    BY <1>1
  <2>2. l.length \in Nat
    BY DEF LogLines
  <2>3. /\ Len(b) \in Nat /\ Len(Append(b, l)) = Len(b) + 1 /\ Append(b, l)[Len(b) + 1] = l
        /\ \A i \in 1..Len(b) : Append(b, l)[i] = b[i]
    BY AppendProperties
  <2>4. /\ Len(p) = Len(b) /\ DOMAIN Append(p, l.length) = 1..(Len(b) + 1)
        /\ Append(p, l.length)[Len(b) + 1] = l.length
        /\ \A i \in 1..Len(b) : Append(p, l.length)[i] = p[i]
    BY <1>1, <2>1, <2>2, AppendProperties
  <2>5. \A i \in 1..Len(b) : p[i] = b[i].length
    BY <2>1
  <2>6. Append(p, l.length) = [i \in 1..(Len(b) + 1) |-> Append(p, l.length)[i]]
    <3>1. PICK a \in Seq(Nat) : a = Append(p, l.length)
      BY <2>1, <2>2, AppendProperties
    <3> QED
      BY <2>4, <3>1
  <2>7. \A i \in 1..(Len(b) + 1) : Append(p, l.length)[i] = Append(b, l)[i].length
    BY <2>3, <2>4, <2>5
  <2> QED
    BY <2>1, <2>2, <2>3, <2>6, <2>7
<1>4. \A b : Offset(b) = Total(Lengths(b))
  BY DEF Offset
<1> HIDE DEF Lengths
<1>5. Offset(<<>>) = 0
  BY <1>2, <1>4, TotalIs
<1>6. ASSUME NEW b \in Seq(LogLines) PROVE Offset(b) \in Nat
  BY <1>1, <1>4, TotalIs
<1>7. ASSUME NEW b \in Seq(LogLines), NEW l \in LogLines
      PROVE  Offset(Append(b, l)) = Offset(b) + l.length
  BY <1>1, <1>3, <1>4, TotalAppend
<1> QED
  BY <1>5, <1>6, <1>7


-----------------------------------------------------------------------------
(* A line as it is assembled.                                              *)
Parts == [offset : Nat, written : Nat]

LEMMA RoomIs ==
  /\ Prefix \in Nat \ {0} /\ BufSize \in Nat \ {0} /\ Room \in Nat \ {0} /\ Room - 1 \in Nat
  /\ Prefix + 2 < BufSize /\ Begun \in Parts
BY LoggerAssumption DEF Room, Begun, Parts

LEMMA WriteArgIs ==
  ASSUME NEW l \in Parts, NEW n \in Nat
  PROVE  /\ WriteArg(l, n) \in Parts
         /\ l.written = l.offset /\ l.offset + n < Room =>
              WriteArg(l, n) = [offset |-> l.offset + n, written |-> l.offset + n]
<1>1. l.offset \in Nat /\ l.written \in Nat /\ Room - 1 \in Nat /\ Room \in Nat
  BY RoomIs DEF Parts
<1>2. Least(l.offset + n, Room - 1) \in Nat
      /\ (l.offset + n < Room => Least(l.offset + n, Room - 1) = l.offset + n)
  BY <1>1 DEF Least
<1> QED
  BY <1>1, <1>2 DEF WriteArg, Parts

LEMMA WrittenAre ==
  ASSUME NEW q \in Seq(Nat)
  PROVE  /\ Written(q) \in [0..Len(q) -> Parts] /\ Written(q)[0] = Begun
         /\ \A i \in 1..Len(q) : Written(q)[i] = WriteArg(Written(q)[i - 1], q[i])
<1> DEFINE g == [p \in Parts \X Nat |-> WriteArg(p[1], p[2])]
           Def(f) == f = [i \in 0..Len(q) |-> IF i = 0 THEN Begun ELSE WriteArg(f[i - 1], q[i])]
<1>1. Len(q) \in Nat /\ \A i \in 1..Len(q) : q[i] \in Nat
  OBVIOUS
<1>2. \E f \in [0..Len(q) -> Parts] : Def(f)
  <2>1. g \in [Parts \X Nat -> Parts]
    BY WriteArgIs
  <2>2. \A x \in Parts, y \in Nat : g[<<x, y>>] = WriteArg(x, y)
    OBVIOUS
  <2> HIDE DEF g
  <2>3. PICK f \in [0..Len(q) -> Parts] : Follows(f, Begun, g, q)
    <3>1. Begun \in Parts
      BY RoomIs
    <3> QED
      BY <2>1, <3>1, Recursion
  <2>4. ASSUME NEW i \in 0..Len(q), i # 0 PROVE g[<<f[i - 1], q[i]>>] = WriteArg(f[i - 1], q[i])
    <3>1. i \in 1..Len(q) /\ i - 1 \in 0..Len(q)
      BY <1>1, <2>4
    <3>2. f[i - 1] \in Parts /\ q[i] \in Nat
      BY <1>1, <3>1
    <3> QED
      BY <2>2, <3>2
  <2> QED
    BY <2>3, <2>4 DEF Follows
<1>3. Def(Written(q))
  <2>1. Written(q) = CHOOSE f : Def(f)
    BY DEF Written
  <2> HIDE DEF Def
  <2> QED
    BY <1>2, <2>1
<1>4. DOMAIN Written(q) = 0..Len(q)
      /\ \A i \in 0..Len(q) : Written(q)[i] = IF i = 0 THEN Begun ELSE WriteArg(Written(q)[i - 1], q[i])
  BY <1>3
<1>5. \A i \in 0..Len(q) : Written(q)[i] \in Parts
  <2> DEFINE P == {n \in Nat : Written(q)[n] \in Parts}
  <2>1. P \in SUBSET Nat /\ 0 \in P
    BY <1>1, <1>4, RoomIs
  <2>2. ASSUME NEW i \in 1..Len(q), i - 1 \in P PROVE i \in P
    <3>1. Written(q)[i] = WriteArg(Written(q)[i - 1], q[i])
      BY <1>1, <1>4
    <3>2. Written(q)[i - 1] \in Parts /\ q[i] \in Nat
      BY <1>1, <2>2
    <3>3. WriteArg(Written(q)[i - 1], q[i]) \in Parts
      BY <3>2, WriteArgIs
    <3> QED
      BY <2>2, <3>1, <3>3
  <2> HIDE DEF P
  <2>3. \A i \in 0..Len(q) : i \in P
    BY <1>1, <2>1, <2>2, UpTo
  <2> QED
    BY <2>3 DEF P
<1>6. Written(q) = [i \in 0..Len(q) |-> Written(q)[i]]
  BY <1>3
<1>7. Written(q) \in [0..Len(q) -> Parts]
  BY <1>5, <1>6
<1> QED
  BY <1>1, <1>4, <1>7

(* What is shorter than the room by the length of the prefix is written    *)
(* argument after argument.                                                *)
LEMMA WholeArgs ==
  ASSUME NEW q \in Seq(Nat), Prefix + Total(q) < Room
  PROVE  AppendArgs(q) = [offset |-> Prefix + Total(q), written |-> Prefix + Total(q)]
<1> DEFINE w == Written(q)
           s == Sums(q)
           n == Len(q)
           P == {i \in Nat : i <= n => w[i] = [offset |-> Prefix + s[i], written |-> Prefix + s[i]]}
<1>1. n \in Nat /\ Prefix \in Nat /\ Room \in Nat /\ Total(q) \in Nat
      /\ \A i \in 0..n : s[i] <= Total(q)
  BY RoomIs, TotalIs
<1>2. /\ s \in [0..n -> Nat] /\ s[0] = 0
      /\ \A i \in 1..n : s[i] = s[i - 1] + q[i] /\ q[i] \in Nat
  BY SumsAre
<1>3. /\ w \in [0..n -> Parts] /\ w[0] = Begun
      /\ \A i \in 1..n : w[i] = WriteArg(w[i - 1], q[i])
  BY WrittenAre
<1>4. Total(q) = s[n] /\ AppendArgs(q) = w[n]
  BY DEF Total, AppendArgs
<1> HIDE DEF w, s, n
<1>5. 0 \in P
  BY <1>1, <1>2, <1>3 DEF Begun
<1>6. ASSUME NEW i \in 1..n, i - 1 \in P PROVE i \in P
  <2>1. i - 1 \in 0..n /\ i \in 0..n /\ i - 1 <= n
    BY <1>1
  <2>2. s[i - 1] \in Nat /\ s[i] = s[i - 1] + q[i] /\ q[i] \in Nat /\ s[i] <= Total(q)
    BY <1>1, <1>2, <2>1
  <2>3. w[i - 1] \in Parts /\ w[i - 1].offset = Prefix + s[i - 1]
        /\ w[i - 1].written = Prefix + s[i - 1]
    BY <1>3, <1>6, <2>1
  <2>4. Prefix + s[i - 1] + q[i] < Room /\ Prefix + s[i - 1] + q[i] = Prefix + s[i]
    <3>1. Prefix + s[i - 1] + q[i] = Prefix + s[i]
      BY <1>1, <2>2
    <3>2. s[i] \in Nat /\ Prefix + s[i] < Room
      BY <1>1, <2>2
    <3> QED
      BY <3>1, <3>2
  <2>5. WriteArg(w[i - 1], q[i]) = [offset |-> w[i - 1].offset + q[i], written |-> w[i - 1].offset + q[i]]
    BY <2>2, <2>3, <2>4, WriteArgIs
  <2>6. w[i] = [offset |-> Prefix + s[i], written |-> Prefix + s[i]]
    BY <1>3, <2>3, <2>4, <2>5
  <2> QED
    BY <2>6
<1>7. n \in P
  <2>1. P \in SUBSET Nat /\ n \in 0..n
    BY <1>1
  <2> HIDE DEF P
  <2> QED
    BY <1>1, <1>5, <1>6, <2>1, UpTo
<1> QED
  BY <1>1, <1>4, <1>7

(* A line of log() fits the buffer, and is what was asked for if that and   *)
(* the prefix once more fit it.                                            *)
LEMMA LineIs ==
  ASSUME NEW id \in 0..MaxLogs, NEW lv \in DOMAIN Severity, NEW m \in Messages
  PROVE  LET l == LineOf(id, lv, m) IN
         /\ l \in LogLines /\ l.id = id /\ l.level = lv
         /\ l.asked + Prefix < BufSize => l.text = l.asked /\ l.length = l.asked + 1
<1> DEFINE l == LineOf(id, lv, m)
           w == IF m.formatted THEN Printed(m) ELSE AppendArgs(m.args)
<1>1. /\ m.args \in Seq(Nat) /\ Prefix \in Nat \ {0} /\ BufSize \in Nat \ {0}
      /\ Prefix + 2 < BufSize /\ Room = BufSize - Prefix
  BY LoggerAssumption DEF Room
<1>2. Asked(m) \in Nat \ {0} /\ Asked(m) = Prefix + Total(m.args) /\ Total(m.args) \in Nat
  BY <1>1, TotalIs DEF Asked
<1>3. w \in Parts
  <2>1. Printed(m) \in Parts
    BY <1>1, <1>2 DEF Printed, Least, Parts
  <2>2. AppendArgs(m.args) \in Parts
    <3>1. Len(m.args) \in 0..Len(m.args)
      BY <1>1
    <3> QED
      BY <1>1, <3>1, WrittenAre DEF AppendArgs
  <2> QED
    BY <2>1, <2>2
<1>4. Asked(m) + Prefix < BufSize => w.offset = Asked(m) /\ w.written = Asked(m)
  <2>1. ASSUME Asked(m) + Prefix < BufSize
        PROVE  Printed(m).offset = Asked(m) /\ Printed(m).written = Asked(m)
    BY <1>1, <1>2, <2>1 DEF Printed, Least
  <2>2. ASSUME Asked(m) + Prefix < BufSize
        PROVE  AppendArgs(m.args).offset = Asked(m) /\ AppendArgs(m.args).written = Asked(m)
    <3>1. Prefix + Total(m.args) < Room
      BY <1>1, <1>2, <2>2
    <3> QED
      BY <1>1, <1>2, <3>1, WholeArgs
  <2> QED
    BY <2>1, <2>2
<1>5. /\ l.id = id /\ l.level = lv /\ l.asked = Asked(m)
      /\ l.length = Ended(w).length /\ l.text = Ended(w).text
      /\ l = [id |-> id, level |-> lv, length |-> l.length, text |-> l.text, asked |-> Asked(m)]
  BY DEF LineOf
<1> HIDE DEF w
<1>6. w.offset \in Nat /\ w.written \in Nat
  BY <1>3 DEF Parts
<1>7. /\ Ended(w).length \in 1..BufSize /\ Ended(w).text \in Nat
      /\ Ended(w).length = IF w.offset < BufSize - 2 THEN w.offset + 1 ELSE BufSize - 1
      /\ Ended(w).text = Least(w.written, Ended(w).length - 1)
  BY <1>1, <1>6 DEF Ended, Least
<1>8. Asked(m) + Prefix < BufSize => Ended(w).text = Asked(m) /\ Ended(w).length = Asked(m) + 1
  BY <1>1, <1>2, <1>4, <1>7 DEF Least
<1> HIDE DEF l
<1>9. l \in LogLines
  BY <1>2, <1>5, <1>7 DEF LogLines
<1> QED
  BY <1>5, <1>8, <1>9 DEF l


-----------------------------------------------------------------------------
(* The file and the buffer.                                                *)
Files == (SUBSET (1..MaxLogs)) \union {NoFile}

LEMMA LinesAre ==
  /\ Lines(NoFile) = {}
  /\ \A f \in Files : Lines(f) \in SUBSET (1..MaxLogs)
  /\ \A f \in SUBSET (1..MaxLogs) : Lines(f) = f /\ f # NoFile /\ f \in Files
<1>1. \A f \in SUBSET (1..MaxLogs) : f # NoFile
  BY LoggerAssumption
<1>2. Lines(NoFile) = {} /\ \A f : f # NoFile => Lines(f) = f
  BY DEF Lines
<1>3. \A f \in Files : Lines(f) \in SUBSET (1..MaxLogs)
  BY <1>2 DEF Files
<1>4. \A f \in SUBSET (1..MaxLogs) : f \in Files
  BY DEF Files
<1> QED
  BY <1>1, <1>2, <1>3, <1>4

LEMMA IdsAre ==
  /\ Ids(<<>>) = {}
  /\ \A b \in Seq(LogLines), l \in LogLines :
       Append(b, l) \in Seq(LogLines) /\ Ids(Append(b, l)) = Ids(b) \union {l.id}
<1>1. Ids(<<>>) = {}
  BY DEF Ids
<1>2. ASSUME NEW b \in Seq(LogLines), NEW l \in LogLines
      PROVE  Append(b, l) \in Seq(LogLines) /\ Ids(Append(b, l)) = Ids(b) \union {l.id}
  <2>1. /\ Append(b, l) \in Seq(LogLines) /\ Append(b, l)[Len(b) + 1] = l
        /\ DOMAIN Append(b, l) = 1..(Len(b) + 1) /\ DOMAIN b = 1..Len(b)
        /\ \A i \in 1..Len(b) : Append(b, l)[i] = b[i]
    BY AppendProperties
  <2>2. PICK p, n : p = Append(b, l) /\ n = Len(b)
    OBVIOUS
  <2>3. n \in Nat
    BY <2>2
  <2>4. \A x : (\E i \in 1..(n + 1) : x = p[i].id)
               <=> (\E i \in 1..n : x = b[i].id) \/ x = l.id
    BY <2>1, <2>2, <2>3
  <2> QED
    BY <2>1, <2>2, <2>4 DEF Ids
<1> QED
  BY <1>1, <1>2

LEMMA FilesAre ==
  ASSUME LogType
  PROVE  /\ file \in Files /\ Ids(buffer) \in SUBSET (1..MaxLogs) /\ Flushed \in Files
         /\ Lines(Flushed) = IF fout = "open" THEN Content ELSE Lines(file)
         /\ Content \in SUBSET (1..MaxLogs)
         /\ FlushedBackups \in [0..MaxSeconds -> SUBSET (1..MaxLogs)]
<1>1. file \in Files /\ Ids(buffer) \in SUBSET (1..MaxLogs)
  <2>1. Ids(buffer) \subseteq 1..count /\ count \in 0..MaxLogs
    BY DEF LogType, Numbers, LogConfig
  <2>2. 1..count \subseteq 1..MaxLogs
    BY <2>1, LoggerAssumption
  <2>3. file \in Files
    BY DEF LogType, LogFiles, Files
  <2> QED
    BY <2>1, <2>2, <2>3
<1>2. Content \in SUBSET (1..MaxLogs)
  BY <1>1, LinesAre DEF Content
<1>3. Flushed \in Files /\ Lines(Flushed) = IF fout = "open" THEN Content ELSE Lines(file)
  BY <1>1, <1>2, LinesAre DEF Flushed, Content
<1>4. FlushedBackups \in [0..MaxSeconds -> SUBSET (1..MaxLogs)]
  BY <1>1 DEF FlushedBackups, LogType, LogFiles, LogStates
<1> QED
  BY <1>1, <1>2, <1>3, <1>4

LEMMA OpenFileIs ==
  ASSUME LogType, NEW o \in {"closed", "open", "failed", "moved"}, NEW f \in Files,
         OpenFile(o, f)
  PROVE  /\ fout' \in {"closed", "open", "failed", "moved"} /\ file' \in Files
         /\ Lines(file') = Lines(f) /\ faults' \in 0..MaxFaults
         /\ o = "closed" => fout' \in {"closed", "open"}
<1>1. faults \in 0..MaxFaults /\ MaxFaults \in Nat
  BY LoggerAssumption DEF LogType, LogConfig
<1>2. (Fault \/ UNCHANGED faults) => faults' \in 0..MaxFaults
  BY <1>1 DEF Fault
<1> QED
  BY <1>2, LinesAre DEF OpenFile

LEMMA RacedIs ==
  ASSUME LogType, NEW T
  PROVE  Raced(T) \in SUBSET Events
         /\ events \subseteq Raced(T) /\ ("race" \notin Raced(T) => Rotating \subseteq T)
BY DEF LogType, LogConfig, Raced, Events

-----------------------------------------------------------------------------
(* The type invariant, step by step.                                       *)
LEMMA ConfigStep == LogType /\ [Next]_vars => LogConfig'
<1> SUFFICES ASSUME LogType, [Next]_vars PROVE LogConfig'
  OBVIOUS
<1>1. LogConfig /\ file \in Files /\ Flushed \in Files
      /\ fout \in {"closed", "open", "failed", "moved"}
  BY FilesAre DEF LogType, LogStates
<1>2. MaxFaults \in Nat /\ MaxSeconds \in Nat /\ MaxLogs \in Nat /\ "INFO" \in DOMAIN Severity
  BY LoggerAssumption DEF Severity
<1>3. Fault => faults' \in 0..MaxFaults
  BY <1>1, <1>2 DEF Fault, LogConfig
<1>4. CASE InitLogger
  <2>1. faults' \in 0..MaxFaults
    BY <1>1, <1>4, OpenFileIs DEF InitLogger
  <2>2. events' \in SUBSET Events
    BY <1>4, RacedIs DEF InitLogger, Events
  <2> QED
    BY <1>1, <1>2, <1>4, <2>1, <2>2 DEF InitLogger, LogConfig
<1>5. CASE Shutdown
  <2>1. events' \in SUBSET Events
    BY <1>5, RacedIs DEF Shutdown
  <2> QED
    BY <1>1, <1>5, <2>1 DEF Shutdown, LogConfig
<1>6. CASE SetLevel
  BY <1>1, <1>6 DEF SetLevel, LogConfig, historyVars
<1>7. CASE SetMaxLines
  BY <1>1, <1>7 DEF SetMaxLines, LogConfig, Events
<1>8. CASE Exit
  BY <1>1, <1>3, <1>8 DEF Exit, LogConfig
<1>9. CASE Tick
  BY <1>1, <1>2, <1>9 DEF Tick, LogConfig, cfgVars, historyVars
<1>10. CASE UNCHANGED vars
  BY <1>1, <1>10 DEF LogConfig, vars
<1>11. ASSUME NEW t \in Threads, Log(t) PROVE LogConfig'
  BY <1>1, <1>2, <1>11 DEF Log, LogConfig, cfgVars, historyVars
<1>12. ASSUME NEW t \in Threads, RotateFlush(t) \/ RotateReset(t) \/ RotateClose(t) \/ AppendLine(t)
       PROVE LogConfig'
  <2>1. events' \in SUBSET Events
    BY <1>12, RacedIs DEF RotateFlush, RotateReset, RotateClose, AppendLine
  <2> QED
    BY <1>1, <1>12, <2>1 DEF RotateFlush, RotateReset, RotateClose, AppendLine, LogConfig, cfgVars
<1>13. ASSUME NEW t \in Threads, RotateRename(t) PROVE LogConfig'
  <2>1. events' \in SUBSET Events
    BY <1>13, RacedIs DEF RotateRename, Events
  <2>2. faults' \in 0..MaxFaults
    BY <1>1, <1>3, <1>13 DEF RotateRename, LogConfig
  <2> QED
    BY <1>1, <1>13, <2>1, <2>2 DEF RotateRename, LogConfig, cfgVars
<1>14. ASSUME NEW t \in Threads, RotateReopen(t) PROVE LogConfig'
  <2>1. events' \in SUBSET Events
    BY <1>14, RacedIs DEF RotateReopen, Events
  <2>2. faults' \in 0..MaxFaults
    BY <1>1, <1>14, OpenFileIs DEF RotateReopen
  <2> QED
    BY <1>1, <1>14, <2>1, <2>2 DEF RotateReopen, LogConfig, cfgVars
<1>15. CASE WriteFails
  BY <1>1, <1>3, <1>15 DEF WriteFails, LogConfig, Events, cfgVars
<1> QED
  BY <1>4, <1>5, <1>6, <1>7, <1>8, <1>9, <1>10, <1>11, <1>12, <1>13, <1>14, <1>15 DEF Next, LogStep

LEMMA CountsAre ==
  \A S \in SUBSET (1..MaxLogs) : IsFiniteSet(S) /\ Cardinality(S) \in Nat
<1>1. IsFiniteSet(1..MaxLogs)
  BY LoggerAssumption, FS_Interval
<1>2. ASSUME NEW S \in SUBSET (1..MaxLogs) PROVE IsFiniteSet(S)
  BY <1>1, FS_Subset
<1> QED
  BY <1>2, FS_CardinalityType

LEMMA StatesStep == LogType /\ [Next]_vars => LogStates'
<1> SUFFICES ASSUME LogType, [Next]_vars PROVE LogStates'
  OBVIOUS
<1>1. LogStates /\ LogConfig /\ file \in Files /\ Flushed \in Files
  BY FilesAre DEF LogType
<1>2. \A S \in SUBSET (1..MaxLogs) : Cardinality(S) \in Nat
  BY CountsAre
<1>3. CASE InitLogger
  <2>1. fout' \in {"closed", "open", "failed", "moved"}
    BY <1>1, <1>3, OpenFileIs DEF InitLogger, LogStates
  <2>2. curLines' \in Nat
    BY <1>1, <1>2, <1>3, LinesAre DEF InitLogger
  <2> QED
    BY <1>1, <1>3, <2>1, <2>2 DEF InitLogger, LogStates
<1>4. CASE Shutdown \/ SetLevel \/ SetMaxLines \/ Tick
  BY <1>1, <1>4 DEF Shutdown, SetLevel, SetMaxLines, Tick, LogStates, fileVars
<1>5. CASE Exit
  BY <1>1, <1>5 DEF Exit, LogStates
<1>6. CASE UNCHANGED vars
  BY <1>1, <1>6 DEF LogStates, vars
<1>7. ASSUME NEW t \in Threads, Log(t) PROVE LogStates'
  BY <1>1, <1>7 DEF Log, LogStates, fileVars
<1>8. ASSUME NEW t \in Threads, RotateFlush(t) \/ RotateReset(t) \/ RotateClose(t) PROVE LogStates'
  BY <1>1, <1>8 DEF RotateFlush, RotateReset, RotateClose, LogStates
<1>9. ASSUME NEW t \in Threads, RotateRename(t) PROVE LogStates'
  BY <1>1, <1>9 DEF RotateRename, LogStates, LogConfig
<1>10. ASSUME NEW t \in Threads, RotateReopen(t) PROVE LogStates'
  <2>1. fout' \in {"closed", "open", "failed", "moved"}
    BY <1>1, <1>10, OpenFileIs DEF RotateReopen, LogStates
  <2> QED
    BY <1>1, <1>10, <2>1 DEF RotateReopen, LogStates
<1>11. ASSUME NEW t \in Threads, AppendLine(t) PROVE LogStates'
  <2>1. /\ UNCHANGED <<fout, movedTo>> /\ curLines' = curLines + 1
        /\ pc' = [pc EXCEPT ![t] = "idle"]
    BY <1>11 DEF AppendLine
  <2> QED
    BY <1>1, <2>1 DEF LogStates
<1>12. CASE WriteFails
  BY <1>1, <1>12 DEF WriteFails, LogStates
<1> QED
  BY <1>3, <1>4, <1>5, <1>6, <1>7, <1>8, <1>9, <1>10, <1>11, <1>12 DEF Next, LogStep


LEMMA FilesStep == LogType /\ [Next]_vars => LogFiles'
<1> SUFFICES ASSUME LogType, [Next]_vars PROVE LogFiles'
  OBVIOUS
<1> DEFINE BackupSets == [0..MaxSeconds -> SUBSET (1..MaxLogs)]
<1>1. /\ file \in Files /\ Flushed \in Files /\ FlushedBackups \in BackupSets
      /\ backups \in BackupSets /\ fout \in {"closed", "open", "failed", "moved"}
      /\ clock \in 0..MaxSeconds /\ movedTo \in 0..MaxSeconds
      /\ Ids(buffer) \in SUBSET (1..MaxLogs)
  BY FilesAre DEF LogType, LogFiles, LogStates, LogConfig
<1>2. SUFFICES file' \in Files /\ backups' \in BackupSets
  BY DEF LogFiles, Files
<1> HIDE DEF BackupSets
<1>3. CASE InitLogger
  BY <1>1, <1>3, OpenFileIs DEF InitLogger
<1>4. CASE Shutdown \/ SetLevel \/ SetMaxLines \/ Tick \/ Exit \/ WriteFails \/ UNCHANGED vars
  BY <1>1, <1>4 DEF Shutdown, SetLevel, SetMaxLines, Tick, Exit, WriteFails, fileVars, vars
<1>5. ASSUME NEW t \in Threads, Log(t) \/ RotateFlush(t) \/ RotateReset(t) \/ RotateClose(t)
      PROVE  file' \in Files /\ backups' \in BackupSets
  BY <1>1, <1>5 DEF Log, RotateFlush, RotateReset, RotateClose, fileVars
<1>6. ASSUME NEW t \in Threads, RotateRename(t)
      PROVE  file' \in Files /\ backups' \in BackupSets
  <2>1. /\ file' = NoFile \/ file' = file
        /\ UNCHANGED backups \/ (file # NoFile /\ backups' = [backups EXCEPT ![clock] = file])
    BY <1>6 DEF RotateRename
  <2>2. file # NoFile => file \in SUBSET (1..MaxLogs)
    BY <1>1 DEF Files
  <2> QED
    BY <1>1, <2>1, <2>2 DEF Files, BackupSets
<1>7. ASSUME NEW t \in Threads, RotateReopen(t)
      PROVE  file' \in Files /\ backups' \in BackupSets
  BY <1>1, <1>7, OpenFileIs DEF RotateReopen
<1>8. ASSUME NEW t \in Threads, AppendLine(t)
      PROVE  file' \in Files /\ backups' \in BackupSets
  <2>1. CASE fout = "closed"
    BY <1>1, <1>8, <2>1 DEF AppendLine
  <2>2. CASE fout # "closed"
    <3> DEFINE full == Offset(buffer) + line[t].length > BufSize
               b == Append(IF full THEN <<>> ELSE buffer, line[t])
               f == IF full THEN Flushed ELSE file
    <3>1. /\ file' = f \/ file' = Lines(f) \union Ids(b)
          /\ \/ UNCHANGED backups
             \/ \E S : /\ backups' = [backups EXCEPT ![movedTo] = @ \union S]
                       /\ S \subseteq Ids(buffer) \union Ids(b)
      <4>1. PICK flush \in BOOLEAN :
              /\ file' = IF flush /\ fout = "open" THEN Lines(f) \union Ids(b) ELSE f
              /\ backups' =
                   IF fout # "moved" THEN backups
                   ELSE [backups EXCEPT ![movedTo] = @ \union
                          ((IF full THEN Ids(buffer) ELSE {}) \union
                           (IF flush THEN Ids(b) ELSE {}))]
        BY <1>8, <2>2 DEF AppendLine
      <4> HIDE DEF full, b, f
      <4>2. PICK S : S = (IF full THEN Ids(buffer) ELSE {}) \union (IF flush THEN Ids(b) ELSE {})
        OBVIOUS
      <4>3. S \subseteq Ids(buffer) \union Ids(b)
        BY <4>2
      <4> QED
        BY <4>1, <4>2, <4>3
    <3>2. Ids(b) \in SUBSET (1..MaxLogs)
      <4>1. line[t] \in LogLines /\ line[t].id \in 1..MaxLogs
        <5>1. pc[t] # "idle"
          BY <1>8 DEF AppendLine
        <5>2. line[t].id \in 1..count /\ count \in 0..MaxLogs /\ MaxLogs \in Nat
          BY <5>1, LoggerAssumption DEF LogType, Numbers, LogConfig
        <5> QED
          BY <5>2 DEF LogType, LogBuffer
      <4>2. <<>> \in Seq(LogLines) /\ buffer \in Seq(LogLines)
        BY DEF LogType, LogBuffer
      <4>3. Append(<<>>, line[t]) \in Seq(LogLines) /\ Append(buffer, line[t]) \in Seq(LogLines)
        BY <4>1, <4>2
      <4>4. Ids(b) = Ids(IF full THEN <<>> ELSE buffer) \union {line[t].id}
        BY <4>1, <4>2, <4>3, IdsAre
      <4>5. Ids(IF full THEN <<>> ELSE buffer) \in SUBSET (1..MaxLogs)
        BY <1>1, IdsAre
      <4> QED
        BY <4>1, <4>4, <4>5
    <3>3. f \in Files /\ Lines(f) \in SUBSET (1..MaxLogs)
      BY <1>1, LinesAre
    <3> HIDE DEF b, f, full
    <3>4. file' \in Files
      BY <3>1, <3>2, <3>3, LinesAre
    <3>5. backups' \in BackupSets
      BY <1>1, <3>1, <3>2 DEF BackupSets
    <3> QED
      BY <3>4, <3>5
  <2> QED
    BY <2>1, <2>2
<1> QED
  BY <1>3, <1>4, <1>5, <1>6, <1>7, <1>8 DEF Next, LogStep

LEMMA NoLineIs == NoLine \in LogLines /\ NoLine.id = 0
<1>1. 0 \in 0..MaxLogs /\ 1 \in 1..BufSize
  BY LoggerAssumption
<1> QED
  BY <1>1 DEF NoLine, LogLines, Severity

LEMMA BufferStep == LogType /\ [Next]_vars => LogBuffer'
<1> SUFFICES ASSUME LogType, [Next]_vars PROVE LogBuffer'
  OBVIOUS
<1>1. buffer \in Seq(LogLines) /\ line \in [Threads -> LogLines] /\ Offset(buffer) <= BufSize
  BY DEF LogType, LogBuffer
<1>2. /\ <<>> \in Seq(LogLines) /\ Offset(<<>>) <= BufSize
      /\ [t \in Threads |-> NoLine] \in [Threads -> LogLines]
  BY OffsetIs, NoLineIs, LoggerAssumption
<1>3. CASE InitLogger \/ Shutdown \/ SetLevel \/ SetMaxLines \/ WriteFails \/ Tick \/ UNCHANGED vars
  <2>1. (buffer' = <<>> \/ buffer' = buffer) /\ line' = line
    BY <1>3 DEF InitLogger, Shutdown, Left, SetLevel, SetMaxLines, WriteFails, Tick, fileVars, vars
  <2> QED
    BY <1>1, <1>2, <2>1 DEF LogBuffer, Offset
<1>4. CASE Exit
  <2>1. buffer' = <<>> /\ line' = [t \in Threads |-> NoLine]
    BY <1>4 DEF Exit
  <2> QED
    BY <1>1, <1>2, <2>1 DEF LogBuffer, Offset
<1>5. ASSUME NEW t \in Threads,
             \/ RotateFlush(t) \/ RotateReset(t) \/ RotateClose(t) \/ RotateRename(t)
             \/ RotateReopen(t)
      PROVE  LogBuffer'
  <2>1. (buffer' = <<>> \/ buffer' = buffer) /\ line' = line
    BY <1>5 DEF RotateFlush, RotateReset, RotateClose, RotateRename, RotateReopen
  <2> QED
    BY <1>1, <1>2, <2>1 DEF LogBuffer, Offset
<1>6. ASSUME NEW t \in Threads, Log(t) PROVE LogBuffer'
  <2>1. PICK l \in DOMAIN Severity, m \in Messages :
          line' = [line EXCEPT ![t] = LineOf(count + 1, l, m)]
    BY <1>6 DEF Log
  <2>2. count + 1 \in 0..MaxLogs
    BY <1>6, LoggerAssumption DEF Log, LogType, LogConfig
  <2>3. LineOf(count + 1, l, m) \in LogLines
    BY <2>2, LineIs
  <2>4. buffer' = buffer
    BY <1>6 DEF Log, fileVars
  <2> QED
    BY <1>1, <2>1, <2>3, <2>4 DEF LogBuffer, Offset
<1>7. ASSUME NEW t \in Threads, AppendLine(t) PROVE LogBuffer'
  <2>1. line' = [line EXCEPT ![t] = NoLine]
    BY <1>7 DEF AppendLine
  <2>2. line' \in [Threads -> LogLines]
    BY <1>1, <2>1, NoLineIs
  <2> DEFINE full == Offset(buffer) + line[t].length > BufSize
             b == Append(IF full THEN <<>> ELSE buffer, line[t])
  <2>3. buffer' = buffer \/ buffer' = <<>> \/ buffer' = b
    BY <1>7 DEF AppendLine
  <2>4. b \in Seq(LogLines) /\ Offset(b) <= BufSize
    <3>1. line[t] \in LogLines /\ line[t].length \in 1..BufSize /\ BufSize \in Nat
      BY <1>1, LoggerAssumption DEF LogLines
    <3>2. Offset(buffer) \in Nat /\ Offset(<<>>) = 0
      BY <1>1, OffsetIs
    <3>3. CASE full
      <4>1. b = Append(<<>>, line[t])
        BY <3>3
      <4>2. b \in Seq(LogLines) /\ Offset(b) = Offset(<<>>) + line[t].length
        BY <1>2, <3>1, <4>1, IdsAre, OffsetIs
      <4> QED
        BY <3>1, <3>2, <4>2
    <3>4. CASE ~full
      <4>1. b = Append(buffer, line[t])
        BY <3>4
      <4>2. b \in Seq(LogLines) /\ Offset(b) = Offset(buffer) + line[t].length
        BY <1>1, <3>1, <4>1, IdsAre, OffsetIs
      <4>3. Offset(buffer) + line[t].length <= BufSize
        BY <3>1, <3>2, <3>4
      <4> QED
        BY <4>2, <4>3
    <3> QED
      BY <3>3, <3>4
  <2> HIDE DEF b
  <2>5. buffer' \in Seq(LogLines) /\ Offset(buffer') <= BufSize
    BY <1>1, <1>2, <2>3, <2>4
  <2> QED
    BY <2>2, <2>5 DEF LogBuffer, Offset
<1> QED
  BY <1>3, <1>4, <1>5, <1>6, <1>7 DEF Next, LogStep


(* Steps that keep the lines being logged as they are.                     *)
LEMMA SameNumbers ==
  ASSUME LogType, UNCHANGED <<line, logged, durable, count>>,
         buffer' = <<>> \/ buffer' = buffer,
         \A t \in Threads : pc'[t] = "idle" <=> pc[t] = "idle"
  PROVE  Numbers'
<1>1. Ids(buffer') \subseteq Ids(buffer)
  BY IdsAre
<1>2. Ids(buffer)' = Ids(buffer')
  BY DEF Ids
<1> QED
  BY <1>1, <1>2 DEF LogType, Numbers

LEMMA NumbersStep == LogType /\ [Next]_vars => Numbers'
<1> SUFFICES ASSUME LogType, [Next]_vars PROVE Numbers'
  OBVIOUS
<1>1. /\ pc \in [Threads -> {"idle", "flush", "reset", "close", "rename", "reopen", "append"}]
      /\ line \in [Threads -> LogLines] /\ buffer \in Seq(LogLines) /\ count \in Nat
  BY LoggerAssumption DEF LogType, LogStates, LogBuffer, LogConfig
<1>2. CASE InitLogger \/ Shutdown \/ SetLevel \/ SetMaxLines \/ WriteFails \/ Tick \/ UNCHANGED vars
  <2>1. /\ UNCHANGED <<line, logged, durable, count, pc>>
        /\ buffer' = <<>> \/ buffer' = buffer
    BY <1>2 DEF InitLogger, Shutdown, Left, SetLevel, SetMaxLines, WriteFails, Tick, fileVars,
                historyVars, vars
  <2> QED
    BY <2>1, SameNumbers
<1>3. CASE Exit
  <2>1. /\ \A t \in Threads : pc'[t] = "idle" /\ line'[t] = NoLine
        /\ buffer' = <<>> /\ UNCHANGED <<durable, count>>
        /\ logged' = logged \/ logged' = logged \ Ids(buffer)
    BY <1>3 DEF Exit
  <2>2. Ids(buffer)' = {}
    BY <2>1, IdsAre DEF Ids
  <2>3. durable \subseteq logged' /\ logged' \subseteq 1..count
    BY <2>1 DEF LogType, Numbers
  <2> QED
    BY <2>1, <2>2, <2>3, NoLineIs DEF Numbers
<1>4. ASSUME NEW t \in Threads,
             \/ RotateFlush(t) \/ RotateReset(t) \/ RotateClose(t) \/ RotateRename(t)
             \/ RotateReopen(t)
      PROVE  Numbers'
  <2>1. /\ UNCHANGED <<line, logged, durable, count>>
        /\ buffer' = <<>> \/ buffer' = buffer
        /\ pc[t] # "idle" /\ pc'[t] # "idle"
        /\ \A u \in Threads \ {t} : pc'[u] = pc[u]
    <3>1. CASE RotateFlush(t)
      BY <1>1, <3>1 DEF RotateFlush
    <3>2. CASE RotateReset(t)
      BY <1>1, <3>2 DEF RotateReset
    <3>3. CASE RotateClose(t)
      BY <1>1, <3>3 DEF RotateClose
    <3>4. CASE RotateRename(t)
      BY <1>1, <3>4 DEF RotateRename
    <3>5. CASE RotateReopen(t)
      BY <1>1, <3>5 DEF RotateReopen
    <3> QED
      BY <1>4, <3>1, <3>2, <3>3, <3>4, <3>5
  <2>2. \A u \in Threads : pc'[u] = "idle" <=> pc[u] = "idle"
    BY <1>1, <2>1
  <2> QED
    BY <2>1, <2>2, SameNumbers
<1>5. ASSUME NEW t \in Threads, Log(t) PROVE Numbers'
  <2>1. PICK l \in DOMAIN Severity, m \in Messages :
          line' = [line EXCEPT ![t] = LineOf(count + 1, l, m)]
    BY <1>5 DEF Log
  <2>2. count + 1 \in 0..MaxLogs
    BY <1>5, LoggerAssumption DEF Log, LogType, LogConfig
  <2>3. LineOf(count + 1, l, m).id = count + 1
    BY <2>2, LineIs
  <2>4. /\ UNCHANGED <<buffer, logged, durable>> /\ count' = count + 1 /\ pc[t] = "idle"
        /\ pc'[t] # "idle" /\ \A u \in Threads \ {t} : pc'[u] = pc[u]
    BY <1>1, <1>5 DEF Log, fileVars, historyVars
  <2>5. /\ pc'[t] # "idle" /\ line'[t].id = count + 1
        /\ \A u \in Threads \ {t} : pc'[u] = pc[u] /\ line'[u] = line[u]
    BY <1>1, <2>1, <2>3, <2>4
  <2>6. Ids(buffer)' = Ids(buffer)
    BY <2>4 DEF Ids
  <2>7. 1..count \subseteq 1..(count + 1) /\ count + 1 \in 1..(count + 1) /\ count + 1 \notin 1..count
    BY <1>1
  <2>8. \A u \in Threads \ {t} : pc[u] # "idle" => line[u].id \in 1..count
    BY DEF LogType, Numbers
  <2>9. \A u \in Threads \ {t} : line[u].id # count + 1
    <3>1. \A u \in Threads : pc[u] = "idle" => line[u].id = 0
      BY DEF LogType, Numbers
    <3> QED
      BY <1>1, <2>7, <2>8, <3>1
  <2>10. Ids(buffer) \union logged \subseteq 1..count
    BY DEF LogType, Numbers
  <2>11. \A u \in Threads : pc'[u] # "idle" =>
           line'[u].id \in 1..count' /\ line'[u].id \notin logged' \union Ids(buffer)'
    BY <2>4, <2>5, <2>6, <2>7, <2>8, <2>10 DEF LogType, Numbers
  <2>12. \A u, v \in Threads : pc'[u] # "idle" /\ line'[u].id = line'[v].id => u = v
    BY <2>5, <2>9 DEF LogType, Numbers
  <2>13. \A u \in Threads : pc'[u] = "idle" => line'[u].id = 0
    BY <2>5 DEF LogType, Numbers
  <2> QED
    BY <2>4, <2>6, <2>7, <2>11, <2>12, <2>13 DEF LogType, Numbers
<1>6. ASSUME NEW t \in Threads, AppendLine(t) PROVE Numbers'
  <2>1. /\ pc[t] # "idle" /\ pc' = [pc EXCEPT ![t] = "idle"]
        /\ line' = [line EXCEPT ![t] = NoLine] /\ UNCHANGED count
    BY <1>6 DEF AppendLine
  <2>2. PICK n : n = line[t].id
    OBVIOUS
  <2>3. /\ n \in 1..count /\ n \notin logged \union Ids(buffer)
        /\ \A u \in Threads \ {t} : line[u].id # n
        /\ line[t] \in LogLines
    BY <1>1, <2>1, <2>2 DEF LogType, Numbers
  <2>4. /\ \A u \in Threads \ {t} : pc'[u] = pc[u] /\ line'[u] = line[u]
        /\ pc'[t] = "idle" /\ line'[t].id = 0
    BY <1>1, <2>1, NoLineIs
  <2>5. \/ UNCHANGED <<buffer, logged, durable>>
        \/ /\ logged' = logged \union {n} /\ Ids(buffer') \subseteq Ids(buffer) \union {n}
           /\ durable' = durable \/ (durable' = logged' /\ buffer' = <<>>)
    <3>1. CASE fout = "closed"
      BY <1>6, <3>1 DEF AppendLine
    <3>2. CASE fout # "closed"
      <4> DEFINE full == Offset(buffer) + line[t].length > BufSize
                 b == Append(IF full THEN <<>> ELSE buffer, line[t])
      <4>1. /\ (buffer' = b \/ buffer' = <<>>) /\ logged' = logged \union {n}
            /\ line[t].level = "ERROR" => buffer' = <<>>
            /\ durable' = IF line[t].level = "ERROR" THEN logged' ELSE durable
        <5>1. Severity["ERROR"] >= Severity["ERROR"]
          BY DEF Severity
        <5> QED
          BY <1>6, <2>2, <3>2, <5>1 DEF AppendLine
      <4>2. Ids(b) \subseteq Ids(buffer) \union {n}
        <5>1. <<>> \in Seq(LogLines)
          OBVIOUS
        <5> QED
          BY <1>1, <2>2, <2>3, <5>1, IdsAre
      <4> HIDE DEF b
      <4>3. Ids(buffer') \subseteq Ids(buffer) \union {n}
        BY <4>1, <4>2, IdsAre
      <4> QED
        BY <4>1, <4>3
    <3> QED
      BY <3>1, <3>2
  <2>6. Ids(buffer)' = Ids(buffer')
    BY DEF Ids
  <2>7. Ids(buffer') \union logged' \subseteq Ids(buffer) \union logged \union {n}
    BY <2>5
  <2>8. durable' \subseteq logged' /\ durable' \intersect Ids(buffer') = {}
    <3>1. CASE durable' = logged' /\ buffer' = <<>>
      BY <3>1, IdsAre
    <3>2. CASE durable' = durable /\ (buffer' = buffer \/ Ids(buffer') \subseteq Ids(buffer) \union {n})
      BY <2>3, <2>5, <3>2 DEF LogType, Numbers
    <3> QED
      BY <2>5, <3>1, <3>2
  <2>9. \A u \in Threads : pc'[u] # "idle" =>
           line'[u].id \in 1..count' /\ line'[u].id \notin logged' \union Ids(buffer)'
    BY <2>1, <2>3, <2>4, <2>6, <2>7 DEF LogType, Numbers
  <2>10. \A u, v \in Threads : pc'[u] # "idle" /\ line'[u].id = line'[v].id => u = v
    <3>1. \A u \in Threads \ {t} : pc[u] # "idle" => line[u].id # 0
      BY <1>1 DEF LogType, Numbers
    <3> QED
      BY <2>4, <3>1 DEF LogType, Numbers
  <2>11. \A u \in Threads : pc'[u] = "idle" => line'[u].id = 0
    BY <2>4 DEF LogType, Numbers
  <2>12. Ids(buffer)' \subseteq 1..count' /\ logged' \subseteq 1..count'
    BY <2>1, <2>3, <2>6, <2>7 DEF LogType, Numbers
  <2> QED
    BY <2>6, <2>8, <2>9, <2>10, <2>11, <2>12 DEF Numbers
<1> QED
  BY <1>2, <1>3, <1>4, <1>5, <1>6 DEF Next, LogStep


LEMMA TypeStep == LogType /\ [Next]_vars => LogType'
BY ConfigStep, StatesStep, FilesStep, BufferStep, NumbersStep DEF LogType

LEMMA WholeStep == LogType /\ LinesWhole /\ [Next]_vars => LinesWhole'
<1> SUFFICES ASSUME LogType, LinesWhole, [Next]_vars PROVE LinesWhole'
  OBVIOUS
<1>1. line \in [Threads -> LogLines]
  BY DEF LogType, LogBuffer
<1>2. CASE UNCHANGED line
  BY <1>2 DEF LinesWhole
<1>3. CASE Exit
  BY <1>3, NoLineIs DEF Exit, LinesWhole
<1>4. ASSUME NEW t \in Threads, AppendLine(t) PROVE LinesWhole'
  <2>1. line' = [line EXCEPT ![t] = NoLine]
    BY <1>4 DEF AppendLine
  <2> QED
    BY <1>1, <2>1, NoLineIs DEF LinesWhole
<1>5. ASSUME NEW t \in Threads, Log(t) PROVE LinesWhole'
  <2>1. PICK l \in DOMAIN Severity, m \in Messages :
          line' = [line EXCEPT ![t] = LineOf(count + 1, l, m)]
    BY <1>5 DEF Log
  <2>2. count + 1 \in 0..MaxLogs
    BY <1>5, LoggerAssumption DEF Log, LogType, LogConfig
  <2>3. PICK n : n = LineOf(count + 1, l, m)
    OBVIOUS
  <2>4. n.asked + Prefix < BufSize => n.text = n.asked /\ n.length = n.asked + 1
    BY <2>2, <2>3, LineIs
  <2> QED
    BY <1>1, <2>1, <2>3, <2>4 DEF LinesWhole
<1>6. CASE InitLogger \/ Shutdown \/ SetLevel \/ SetMaxLines \/ WriteFails \/ Tick \/ UNCHANGED vars
  BY <1>2, <1>6 DEF InitLogger, Shutdown, SetLevel, SetMaxLines, WriteFails, Tick, vars
<1>7. ASSUME NEW t \in Threads,
             \/ RotateFlush(t) \/ RotateReset(t) \/ RotateClose(t) \/ RotateRename(t)
             \/ RotateReopen(t)
      PROVE  LinesWhole'
  BY <1>2, <1>7 DEF RotateFlush, RotateReset, RotateClose, RotateRename, RotateReopen
<1> QED
  BY <1>3, <1>4, <1>5, <1>6, <1>7 DEF Next, LogStep

-----------------------------------------------------------------------------
(* What a step leaves of the file and the buffer, as long as no thread has *)
(* logged while another rotates.                                           *)
LEMMA EventsStay ==
  ASSUME LogType, [Next]_vars
  PROVE  events \subseteq events' /\ (Spoiled => Spoiled')
<1>0. SUFFICES events \subseteq events'
  BY DEF Spoiled
<1>1. \A T : events \subseteq Raced(T)
  BY RacedIs
<1>2. CASE InitLogger \/ Shutdown \/ SetMaxLines \/ WriteFails
  BY <1>1, <1>2 DEF InitLogger, Shutdown, SetMaxLines, WriteFails
<1>3. CASE SetLevel \/ Exit \/ Tick \/ UNCHANGED vars
  <2>1. CASE SetLevel
    BY <2>1 DEF SetLevel, historyVars
  <2>2. CASE Exit
    BY <2>2 DEF Exit
  <2>3. CASE Tick
    BY <2>3 DEF Tick, historyVars
  <2>4. CASE UNCHANGED vars
    BY <2>4 DEF vars
  <2> QED
    BY <1>3, <2>1, <2>2, <2>3, <2>4
<1>4. ASSUME NEW t \in Threads, Log(t) PROVE events \subseteq events'
  BY <1>4 DEF Log, historyVars
<1>5. ASSUME NEW t \in Threads, RotateFlush(t) \/ RotateReset(t) \/ RotateClose(t) \/ AppendLine(t)
      PROVE  events \subseteq events'
  BY <1>1, <1>5 DEF RotateFlush, RotateReset, RotateClose, AppendLine
<1>6. ASSUME NEW t \in Threads, RotateRename(t) \/ RotateReopen(t)
      PROVE  events \subseteq events'
  BY <1>1, <1>6 DEF RotateRename, RotateReopen
<1> QED
  BY <1>2, <1>3, <1>4, <1>5, <1>6 DEF Next, LogStep

CalmIn == LogType /\ Calm /\ ~Spoiled

LEMMA WriteSpoils ==
  ASSUME ~Spoiled', WriteFails
  PROVE  FALSE
BY DEF Spoiled, WriteFails

LEMMA InitEffect ==
  ASSUME CalmIn, InitLogger, ~Spoiled'
  PROVE  /\ Rotating = {} /\ fout' \in {"closed", "open"} /\ file' \in Files
         /\ Lines(file') = Content /\ buffer' = <<>> /\ backups' = backups
         /\ curLines' = Cardinality(Content)
<1>1. Rotating \subseteq {}
  BY RacedIs DEF CalmIn, InitLogger, Spoiled
<1>2. fout \in {"closed", "open"} /\ (fout = "closed" => Ids(buffer) = {})
      /\ (~initialized => fout = "closed")
  BY IdsAre DEF CalmIn, Calm
<1> DEFINE f == IF initialized THEN Flushed ELSE file
           o == IF initialized THEN "closed" ELSE fout
<1>3. f \in Files /\ Lines(f) = Content
  BY <1>2, FilesAre DEF CalmIn, Content
<1>4. OpenFile(o, f) /\ o = "closed" /\ curLines' = Cardinality(Lines(f)) /\ buffer' = <<>>
      /\ backups' = IF initialized THEN FlushedBackups ELSE backups
  BY <1>2 DEF InitLogger
<1>5. backups' = backups
  BY <1>2, <1>4 DEF FlushedBackups
<1> HIDE DEF f, o
<1> QED
  BY <1>1, <1>3, <1>4, <1>5, OpenFileIs DEF CalmIn

LEMMA ShutdownEffect ==
  ASSUME CalmIn, Shutdown, ~Spoiled'
  PROVE  /\ Rotating = {} /\ fout' = "closed" /\ file' \in Files
         /\ Lines(file') = Content /\ buffer' = <<>> /\ backups' = backups
<1>1. Rotating \subseteq {}
  BY RacedIs DEF CalmIn, Shutdown, Spoiled
<1>2. fout \in {"closed", "open"} /\ (fout = "closed" => buffer = <<>>)
  BY DEF CalmIn, Calm
<1>3. Lines(Flushed) = Content
  BY <1>2, FilesAre, IdsAre DEF CalmIn, Content
<1> QED
  BY <1>1, <1>2, <1>3, FilesAre DEF CalmIn, Shutdown, Left, FlushedBackups

(* In rotate() the thread is alone, and the buffer is written before it is  *)
(* emptied.                                                                *)
LEMMA RotateEffect ==
  ASSUME CalmIn, ~Spoiled', NEW t \in Threads,
         \/ RotateFlush(t) \/ RotateReset(t) \/ RotateClose(t)
  PROVE  /\ Rotating \subseteq {t} /\ Content' = Content /\ Lines(file) \subseteq Lines(file')
         /\ backups' = backups
<1>1. Rotating \subseteq {t}
  BY RacedIs DEF CalmIn, RotateFlush, RotateReset, RotateClose, Spoiled
<1>2. fout \in {"closed", "open"} /\ (fout = "closed" => buffer = <<>>)
  BY DEF CalmIn, Calm
<1>3. Lines(Flushed) = Content
  BY <1>2, FilesAre, IdsAre DEF CalmIn, Content
<1>4. CASE RotateFlush(t)
  BY <1>1, <1>2, <1>3, <1>4 DEF RotateFlush, FlushedBackups, Content, Lines, Ids
<1>5. CASE RotateReset(t)
  <2>1. Ids(buffer) \subseteq Lines(file)
    BY <1>5 DEF RotateReset, CalmIn, Calm
  <2>2. buffer' = <<>> /\ UNCHANGED <<file, backups>> /\ Ids(buffer)' = Ids(buffer')
    BY <1>5 DEF RotateReset, Ids
  <2> QED
    BY <1>1, <2>1, <2>2, IdsAre DEF Content, Lines
<1>6. CASE RotateClose(t)
  BY <1>1, <1>6 DEF RotateClose, Content, Lines, Ids
<1> QED
  BY <1>4, <1>5, <1>6

LEMMA AppendEffect ==
  ASSUME CalmIn, ~Spoiled', NEW t \in Threads, AppendLine(t)
  PROVE  /\ Rotating = {} /\ backups' = backups
         /\ fout = "closed" => UNCHANGED <<file, buffer, logged, durable>>
         /\ fout = "open" =>
              /\ Content' = Content \union {line[t].id} /\ Lines(file) \subseteq Lines(file')
              /\ logged' = logged \union {line[t].id}
              /\ durable' = durable \/ (durable' = logged' /\ buffer' = <<>>)
<1>1. Rotating \subseteq {}
  BY RacedIs DEF CalmIn, AppendLine, Spoiled
<1>2. fout \in {"closed", "open"} /\ (fout = "closed" => buffer = <<>>)
  BY DEF CalmIn, Calm
<1>3. CASE fout = "closed"
  BY <1>1, <1>3 DEF AppendLine
<1>4. CASE fout = "open"
  <2> DEFINE full == Offset(buffer) + line[t].length > BufSize
             b == Append(IF full THEN <<>> ELSE buffer, line[t])
             f == IF full THEN Flushed ELSE file
  <2>1. PICK flush \in BOOLEAN :
          /\ flush = (Severity[line[t].level] >= Severity["ERROR"] \/ Offset(b) >= BufSize \div 2)
          /\ buffer' = IF flush THEN <<>> ELSE b
          /\ file' = IF flush THEN Lines(f) \union Ids(b) ELSE f
          /\ backups' = backups
          /\ logged' = logged \union {line[t].id}
          /\ durable' = IF line[t].level = "ERROR" THEN logged' ELSE durable
    BY <1>4 DEF AppendLine
  <2>2. line[t].level = "ERROR" => flush
    <3>1. Severity["ERROR"] >= Severity["ERROR"]
      BY DEF Severity
    <3> QED
      BY <2>1, <3>1
  <2>3. /\ f \in Files /\ Lines(f) \union Ids(b) = Content \union {line[t].id}
        /\ Lines(file) \subseteq Lines(f) /\ Ids(b) \in SUBSET (1..MaxLogs)
    <3>1. line[t] \in LogLines /\ buffer \in Seq(LogLines) /\ <<>> \in Seq(LogLines)
      BY DEF CalmIn, LogType, LogBuffer
    <3>2. line[t].id \in 1..MaxLogs
      <4>1. pc[t] # "idle"
        BY DEF AppendLine
      <4>2. line[t].id \in 1..count /\ count \in 0..MaxLogs /\ MaxLogs \in Nat
        BY <4>1, LoggerAssumption DEF CalmIn, LogType, Numbers, LogConfig
      <4> QED
        BY <4>2
    <3>3. Ids(b) = (IF full THEN {} ELSE Ids(buffer)) \union {line[t].id}
      BY <3>1, IdsAre
    <3>4. /\ Lines(f) = IF full THEN Content ELSE Lines(file)
          /\ f \in Files /\ Ids(buffer) \in SUBSET (1..MaxLogs)
      BY <1>4, FilesAre DEF CalmIn
    <3> HIDE DEF full, b, f
    <3> QED
      BY <3>2, <3>3, <3>4 DEF Content
  <2> HIDE DEF full, b, f
  <2>4. Lines(f) \in SUBSET (1..MaxLogs)
    BY <2>3, LinesAre
  <2>5. Lines(file') = IF flush THEN Content \union {line[t].id} ELSE Lines(f)
    BY <2>1, <2>3, <2>4, LinesAre
  <2>6. Content' = Lines(file') \union Ids(buffer')
    BY DEF Content, Lines, Ids
  <2>7. Content' = Content \union {line[t].id}
    BY <2>1, <2>3, <2>5, <2>6, IdsAre
  <2>8. Lines(file) \subseteq Lines(file')
    BY <2>3, <2>5 DEF Content
  <2>9. durable' = durable \/ (durable' = logged' /\ buffer' = <<>>)
    BY <2>1, <2>2
  <2> QED
    BY <1>1, <1>4, <2>1, <2>7, <2>8, <2>9
<1> QED
  BY <1>2, <1>3, <1>4


-----------------------------------------------------------------------------
(* Init, and a step of each kind, keep the invariant.                      *)
LEMMA CalmStep == LogType /\ Calm /\ [Next]_vars => Calm'
<1> SUFFICES ASSUME LogType, Calm, [Next]_vars, ~Spoiled' PROVE Calm'
  BY DEF Calm
<1>1. CalmIn /\ ~Spoiled /\ events \subseteq events'
  BY EventsStay DEF CalmIn
<1>2. /\ \A t, u \in Rotating : t = u
      /\ fout \in {"closed", "open"} /\ (fout = "closed" => buffer = <<>>)
      /\ (~initialized => fout = "closed") /\ (initialized => named)
      /\ \A t \in Threads :
           /\ pc[t] = "reset" => Ids(buffer) \subseteq Lines(file)
           /\ pc[t] \in {"close", "rename", "reopen"} => buffer = <<>>
           /\ pc[t] \in {"rename", "reopen"} => fout = "closed"
           /\ pc[t] = "reopen" => file = NoFile \/ "kept" \in events
      /\ pc \in [Threads -> {"idle", "flush", "reset", "close", "rename", "reopen", "append"}]
  BY <1>1 DEF Calm, LogType, LogStates
<1>3. CASE InitLogger \/ Shutdown
  <2>1. /\ Rotating = {} /\ fout' \in {"closed", "open"} /\ buffer' = <<>>
        /\ UNCHANGED pc
    BY <1>1, <1>3, InitEffect, ShutdownEffect DEF InitLogger, Shutdown
  <2>2. (~initialized' => fout' = "closed") /\ (initialized' => named')
    BY <1>1, <1>3, ShutdownEffect DEF InitLogger, Shutdown
  <2>3. Rotating' = {} /\ \A t \in Threads : pc'[t] \notin {"reset", "close", "rename", "reopen"}
    BY <2>1 DEF Rotating
  <2> QED
    BY <2>1, <2>2, <2>3 DEF Calm
<1>4. CASE SetLevel \/ SetMaxLines \/ Tick \/ UNCHANGED vars
  <2>1. UNCHANGED <<pc, fout, buffer, file, initialized, named>>
    BY <1>4 DEF SetLevel, SetMaxLines, Tick, vars, fileVars, cfgVars
  <2> QED
    BY <1>1, <1>2, <2>1 DEF Calm, Rotating, Ids, Lines
<1>5. CASE Exit
  <2>1. /\ fout' = "closed" /\ buffer' = <<>> /\ ~initialized' /\ \A t \in Threads : pc'[t] = "idle"
    BY <1>5 DEF Exit
  <2>2. Rotating' = {}
    BY <2>1 DEF Rotating
  <2> QED
    BY <2>1, <2>2 DEF Calm
<1>6. ASSUME NEW t \in Threads, Log(t) PROVE Calm'
  <2>1. /\ UNCHANGED <<fout, buffer, file, initialized, named>>
        /\ pc[t] = "idle" /\ pc'[t] \in {"flush", "append"}
        /\ \A u \in Threads \ {t} : pc'[u] = pc[u]
    BY <1>2, <1>6 DEF Log, fileVars, cfgVars
  <2>2. Rotating' = Rotating
    BY <2>1 DEF Rotating
  <2> QED
    BY <1>1, <1>2, <2>1, <2>2 DEF Calm, Ids, Lines
<1>7. ASSUME NEW t \in Threads, RotateFlush(t) \/ RotateReset(t) \/ RotateClose(t) PROVE Calm'
  <2>1. Rotating \subseteq {t} /\ \A u \in Threads \ {t} : pc[u] \notin {"reset", "close", "rename", "reopen"}
    BY <1>1, <1>7, RotateEffect DEF Rotating
  <2>2. \A u \in Threads \ {t} : pc'[u] = pc[u]
    BY <1>2, <1>7 DEF RotateFlush, RotateReset, RotateClose
  <2>3. /\ fout' \in {"closed", "open"} /\ (fout' = "closed" => buffer' = <<>>)
        /\ (~initialized' => fout' = "closed") /\ (initialized' => named')
        /\ pc'[t] \in {"reset", "close", "rename"}
        /\ pc'[t] = "reset" => Ids(buffer)' \subseteq Lines(file)'
        /\ pc'[t] \in {"close", "rename"} => buffer' = <<>>
        /\ pc'[t] = "rename" => fout' = "closed"
    <3>1. CASE RotateFlush(t)
      <4>1. fout # "closed" => Ids(buffer) \subseteq Lines(Flushed)
        BY <1>1, <1>2, FilesAre DEF CalmIn, Content
      <4> QED
        BY <1>2, <3>1, <4>1 DEF RotateFlush, cfgVars, Ids, Lines
    <3>2. CASE RotateReset(t)
      BY <1>2, <3>2 DEF RotateReset, cfgVars
    <3>3. CASE RotateClose(t)
      BY <1>2, <3>3 DEF RotateClose, cfgVars
    <3> QED
      BY <1>7, <3>1, <3>2, <3>3
  <2>4. \A u, v \in Rotating' : u = v
    BY <2>1, <2>2 DEF Rotating
  <2> QED
    BY <2>1, <2>2, <2>3, <2>4 DEF Calm
<1>8. ASSUME NEW t \in Threads, RotateRename(t) \/ RotateReopen(t) PROVE Calm'
  <2>1. Rotating \subseteq {t} /\ \A u \in Threads \ {t} : pc[u] \notin {"reset", "close", "rename", "reopen"}
    <3>1. Raced({t}) \subseteq events'
      BY <1>8 DEF RotateRename, RotateReopen
    <3> QED
      BY <1>1, <3>1, RacedIs DEF CalmIn, Spoiled, Rotating
  <2>2. \A u \in Threads \ {t} : pc'[u] = pc[u]
    BY <1>2, <1>8 DEF RotateRename, RotateReopen
  <2>3. buffer = <<>> /\ fout = "closed" /\ buffer' = <<>> /\ UNCHANGED <<initialized, named>>
    BY <1>2, <1>8 DEF RotateRename, RotateReopen, cfgVars
  <2>4. CASE RotateRename(t)
    <3>1. /\ pc'[t] = "reopen" /\ fout' = "closed"
          /\ file' = NoFile \/ "kept" \in events'
      BY <1>2, <2>3, <2>4 DEF RotateRename
    <3>2. \A u, v \in Rotating' : u = v
      BY <2>1, <2>2 DEF Rotating
    <3> QED
      BY <1>2, <2>1, <2>2, <2>3, <3>1, <3>2 DEF Calm
  <2>5. CASE RotateReopen(t)
    <3>1. pc'[t] = "append" /\ fout' \in {"closed", "open"} /\ initialized
      BY <1>2, <2>3, <2>5 DEF RotateReopen, OpenFile, Spoiled
    <3>2. Rotating' = {}
      BY <2>1, <2>2, <3>1 DEF Rotating
    <3> QED
      BY <1>2, <2>1, <2>2, <2>3, <3>1, <3>2 DEF Calm
  <2> QED
    BY <1>8, <2>4, <2>5
<1>9. ASSUME NEW t \in Threads, AppendLine(t) PROVE Calm'
  <2>1. Rotating = {} /\ UNCHANGED <<fout, initialized, named>>
        /\ (fout = "closed" => UNCHANGED buffer)
    BY <1>1, <1>9, AppendEffect DEF AppendLine, cfgVars
  <2>2. pc' = [pc EXCEPT ![t] = "idle"]
    BY <1>9 DEF AppendLine
  <2>3. Rotating' = {} /\ \A u \in Threads : pc'[u] \notin {"reset", "close", "rename", "reopen"}
    BY <1>2, <2>1, <2>2 DEF Rotating
  <2> QED
    BY <1>2, <2>1, <2>3 DEF Calm
<1>10. CASE WriteFails
  BY <1>10, WriteSpoils
<1> QED
  BY <1>3, <1>4, <1>5, <1>6, <1>7, <1>8, <1>9, <1>10 DEF Next, LogStep

LEMMA KeptStep == LogType /\ Calm /\ Kept /\ [Next]_vars => Kept'
<1> SUFFICES ASSUME LogType, Calm, Kept, [Next]_vars, events' \subseteq {"limit", "kept"}
             PROVE  logged' \subseteq Stored' \union Ids(buffer)' /\ durable' \subseteq Stored'
  BY DEF Kept
<1>1. CalmIn /\ ~Spoiled' /\ events \subseteq {"limit", "kept"}
  BY EventsStay DEF CalmIn, Spoiled
<1>2. logged \subseteq Stored \union Ids(buffer) /\ durable \subseteq Stored
  BY <1>1 DEF Kept
<1>3. /\ backups \in [0..MaxSeconds -> SUBSET (1..MaxLogs)] /\ clock \in 0..MaxSeconds
      /\ Stored = Lines(file) \union UNION {backups[s] : s \in 0..MaxSeconds}
  BY DEF LogType, LogFiles, LogConfig, Stored
<1>4. ASSUME UNCHANGED <<logged, durable, backups>>, Lines(file) \subseteq Lines(file'),
             Content \subseteq Lines(file') \union Ids(buffer')
      PROVE  logged' \subseteq Stored' \union Ids(buffer)' /\ durable' \subseteq Stored'
  <2>1. /\ Lines(file)' = Lines(file') /\ Ids(buffer)' = Ids(buffer')
        /\ Stored' = Lines(file') \union UNION {backups[s] : s \in 0..MaxSeconds}
    BY <1>3, <1>4 DEF Stored, Lines, Ids
  <2> QED
    BY <1>2, <1>3, <1>4, <2>1 DEF Content
<1>5. CASE InitLogger \/ Shutdown
  <2>1. /\ Lines(file') = Content /\ buffer' = <<>> /\ backups' = backups
        /\ UNCHANGED <<logged, durable>>
    BY <1>1, <1>5, InitEffect, ShutdownEffect DEF InitLogger, Shutdown
  <2> QED
    BY <1>4, <2>1, IdsAre DEF Content
<1>6. CASE SetLevel \/ SetMaxLines \/ Tick \/ UNCHANGED vars \/ \E t \in Threads : Log(t)
  <2>1. UNCHANGED <<logged, durable, file, buffer, backups>>
    BY <1>6 DEF SetLevel, SetMaxLines, Tick, vars, Log, fileVars, historyVars
  <2> QED
    BY <1>4, <2>1 DEF Content
<1>7. CASE Exit
  <2>1. UNCHANGED durable /\ buffer' = <<>> /\ Ids(buffer)' = {}
    BY <1>7, IdsAre DEF Exit, Ids
  <2>2. CASE file' = Flushed /\ backups' = FlushedBackups /\ UNCHANGED logged
    <3>1. fout \in {"closed", "open"} /\ (fout = "closed" => Ids(buffer) = {})
      BY <1>1, IdsAre DEF CalmIn, Calm
    <3>2. Lines(file') = Content /\ backups' = backups
      BY <2>2, <3>1, FilesAre DEF FlushedBackups, Content
    <3> QED
      BY <1>4, <2>1, <2>2, <3>2 DEF Content
  <2>3. CASE logged' = logged \ Ids(buffer) /\ UNCHANGED <<file, backups>>
    <3>1. Stored' = Stored
      BY <2>3 DEF Stored, Lines
    <3> QED
      BY <1>2, <2>1, <2>3, <3>1
  <2> QED
    BY <1>7, <2>2, <2>3 DEF Exit
<1>8. ASSUME NEW t \in Threads, RotateFlush(t) \/ RotateReset(t) \/ RotateClose(t)
      PROVE  logged' \subseteq Stored' \union Ids(buffer)' /\ durable' \subseteq Stored'
  <2>1. /\ Content' = Content /\ Lines(file) \subseteq Lines(file') /\ backups' = backups
        /\ UNCHANGED <<logged, durable>>
    BY <1>1, <1>8, RotateEffect DEF RotateFlush, RotateReset, RotateClose
  <2>2. Content' = Lines(file') \union Ids(buffer')
    BY DEF Content, Lines, Ids
  <2> QED
    BY <1>4, <2>1, <2>2
<1>9. ASSUME NEW t \in Threads, RotateRename(t)
      PROVE  logged' \subseteq Stored' \union Ids(buffer)' /\ durable' \subseteq Stored'
  <2>1. buffer = <<>> /\ UNCHANGED <<buffer, logged, durable>>
    BY <1>1, <1>9 DEF RotateRename, CalmIn, Calm
  <2>2. CASE file' = file /\ UNCHANGED backups
    BY <1>4, <2>1, <2>2 DEF Content
  <2>3. CASE /\ file # NoFile /\ file' = NoFile
             /\ backups' = [backups EXCEPT ![clock] = file] /\ backups[clock] = {}
    <3>1. Lines(file) = file /\ Lines(file)' = {} /\ backups'[clock] = file
          /\ \A s \in 0..MaxSeconds : s # clock => backups'[s] = backups[s]
      BY <1>3, <2>1, <2>3 DEF Lines
    <3>2. Stored' = UNION {backups'[s] : s \in 0..MaxSeconds}
      BY <1>3, <2>3, <3>1 DEF Stored
    <3>3. Stored \subseteq Stored'
      BY <1>3, <2>3, <3>1, <3>2
    <3> QED
      BY <1>2, <2>1, <3>3 DEF Ids
  <2> QED
    BY <1>9, <2>2, <2>3 DEF RotateRename
<1>10. ASSUME NEW t \in Threads, RotateReopen(t)
       PROVE  logged' \subseteq Stored' \union Ids(buffer)' /\ durable' \subseteq Stored'
  <2>1. UNCHANGED <<buffer, logged, durable, backups>> /\ OpenFile(fout, file)
    BY <1>10 DEF RotateReopen
  <2>2. Lines(file') = Lines(file)
    BY <2>1, FilesAre, OpenFileIs DEF LogType, LogStates
  <2> QED
    BY <1>4, <2>1, <2>2 DEF Content
<1>11. ASSUME NEW t \in Threads, AppendLine(t)
       PROVE  logged' \subseteq Stored' \union Ids(buffer)' /\ durable' \subseteq Stored'
  <2>1. CASE fout = "closed"
    <3>1. UNCHANGED <<logged, durable, backups, file, buffer>>
      BY <1>1, <1>11, <2>1, AppendEffect
    <3> QED
      BY <1>4, <3>1 DEF Content
  <2>2. CASE fout = "open"
    <3>1. /\ backups' = backups
          /\ Content' = Content \union {line[t].id} /\ Lines(file) \subseteq Lines(file')
          /\ logged' = logged \union {line[t].id}
          /\ durable' = durable \/ (durable' = logged' /\ buffer' = <<>>)
      BY <1>1, <1>11, <2>2, AppendEffect
    <3>2. /\ Content' = Lines(file') \union Ids(buffer') /\ Ids(buffer)' = Ids(buffer')
          /\ Stored' = Lines(file') \union UNION {backups[s] : s \in 0..MaxSeconds}
      BY <1>3, <3>1 DEF Content, Lines, Ids, Stored
    <3>3. logged' \subseteq Stored' \union Ids(buffer')
      BY <1>2, <1>3, <3>1, <3>2 DEF Content
    <3>4. Stored \subseteq Stored'
      BY <1>3, <3>1, <3>2
    <3>5. durable' \subseteq Stored'
      BY <1>2, <3>1, <3>3, <3>4, IdsAre
    <3> QED
      BY <3>2, <3>3, <3>5
  <2> QED
    BY <1>1, <2>1, <2>2 DEF CalmIn, Calm
<1>12. CASE WriteFails
  BY <1>1, <1>12, WriteSpoils
<1> QED
  BY <1>5, <1>6, <1>7, <1>8, <1>9, <1>10, <1>11, <1>12 DEF Next, LogStep


(* The number of lines that file and buffer hold, and of the threads that   *)
(* will append one.                                                        *)
LEMMA ContentIs ==
  ASSUME LogType
  PROVE  /\ Content \in SUBSET (1..MaxLogs) /\ IsFiniteSet(Content)
         /\ Cardinality(Content) \in Nat /\ Cardinality(Lines(file)) <= Cardinality(Content)
         /\ \A n : /\ Cardinality(Content \union {n}) \in Nat
                   /\ Cardinality(Content \union {n}) <= Cardinality(Content) + 1
<1>1. Content \in SUBSET (1..MaxLogs) /\ IsFiniteSet(Content) /\ Cardinality(Content) \in Nat
  BY FilesAre, CountsAre
<1>2. Cardinality(Lines(file)) <= Cardinality(Content)
  BY <1>1, FS_Subset DEF Content
<1>3. ASSUME NEW n
      PROVE  /\ Cardinality(Content \union {n}) \in Nat
             /\ Cardinality(Content \union {n}) <= Cardinality(Content) + 1
  <2>1. Cardinality(Content \union {n}) = IF n \in Content THEN Cardinality(Content)
                                          ELSE Cardinality(Content) + 1
    BY <1>1, FS_AddElement
  <2> QED
    BY <1>1, <2>1
<1> QED
  BY <1>1, <1>2, <1>3

LEMMA AppendingIs ==
  /\ IsFiniteSet(Threads) /\ Cardinality(Threads) \in Nat
  /\ \A S \in SUBSET Threads :
       /\ IsFiniteSet(S) /\ Cardinality(S) \in Nat /\ Cardinality(S) <= Cardinality(Threads)
       /\ \A t \in S : Cardinality(S \ {t}) = Cardinality(S) - 1
<1>1. IsFiniteSet(Threads) /\ Cardinality(Threads) \in Nat
  BY LoggerAssumption, FS_CardinalityType
<1>2. ASSUME NEW S \in SUBSET Threads
      PROVE  /\ IsFiniteSet(S) /\ Cardinality(S) \in Nat /\ Cardinality(S) <= Cardinality(Threads)
             /\ \A t \in S : Cardinality(S \ {t}) = Cardinality(S) - 1
  <2>1. IsFiniteSet(S) /\ Cardinality(S) <= Cardinality(Threads)
    BY <1>1, FS_Subset
  <2>2. Cardinality(S) \in Nat
    BY <2>1, FS_CardinalityType
  <2>3. \A t \in S : Cardinality(S \ {t}) = Cardinality(S) - 1
    BY <2>1, FS_RemoveElement
  <2> QED
    BY <2>1, <2>2, <2>3
<1> QED
  BY <1>1, <1>2

Within == /\ maxLines = Limit
          /\ Cardinality(Content) < Limit + Cardinality(Threads)
          /\ named => /\ Cardinality(Content) <= curLines
                      /\ curLines + Cardinality(Appending) < Limit + Cardinality(Threads)

LEMMA BoundedStep == LogType /\ Calm /\ Bounded /\ [Next]_vars => Bounded'
<1> SUFFICES ASSUME LogType, Calm, Bounded, [Next]_vars,
                    events' \subseteq {"overwritten", "removed"}
             PROVE  Within'
  BY DEF Bounded, Within
<1>1. CalmIn /\ ~Spoiled' /\ events \subseteq {"overwritten", "removed"}
  BY EventsStay DEF CalmIn, Spoiled
<1>2. Within
  BY <1>1 DEF Bounded, Within
<1>3. /\ Limit \in Nat \ {0} /\ curLines \in Nat /\ Cardinality(Threads) \in Nat
      /\ Cardinality(Content) \in Nat /\ Cardinality(Appending) \in Nat
      /\ pc \in [Threads -> {"idle", "flush", "reset", "close", "rename", "reopen", "append"}]
  BY LoggerAssumption, ContentIs, AppendingIs DEF LogType, LogStates, Appending
<1>4. /\ fout \in {"closed", "open"} /\ (fout = "closed" => buffer = <<>>)
      /\ (~initialized => fout = "closed") /\ (initialized => named)
  BY <1>1 DEF CalmIn, Calm
<1>5. CASE InitLogger
  <2>1. /\ Lines(file') = Content /\ buffer' = <<>> /\ curLines' = Cardinality(Content)
    BY <1>1, <1>5, InitEffect
  <2>2. Content' = Content
    <3>1. Content' = Lines(file') \union Ids(buffer')
      BY DEF Content, Lines, Ids
    <3> QED
      BY <2>1, <3>1, IdsAre
  <2>3. maxLines' = Limit /\ (\A t \in Threads : pc[t] # "append") /\ pc' = pc
    BY <1>5 DEF InitLogger
  <2>4. Appending' = {}
    BY <2>3 DEF Appending
  <2>5. Cardinality(Appending') = 0
    BY <2>4, FS_EmptySet
  <2> QED
    BY <1>2, <1>3, <2>1, <2>2, <2>3, <2>5 DEF Within
<1>6. CASE Shutdown
  <2>1. Lines(file') = Content /\ buffer' = <<>> /\ UNCHANGED <<named, maxLines, curLines, pc>>
    BY <1>1, <1>6, ShutdownEffect DEF Shutdown
  <2>2. Content' = Content
    <3>1. Content' = Lines(file') \union Ids(buffer')
      BY DEF Content, Lines, Ids
    <3> QED
      BY <2>1, <3>1, IdsAre
  <2> QED
    BY <1>2, <2>1, <2>2 DEF Within, Appending
<1>7. CASE SetLevel \/ Tick \/ UNCHANGED vars
  <2>1. UNCHANGED <<named, maxLines, curLines, pc, file, buffer>>
    BY <1>7 DEF SetLevel, Tick, vars, fileVars, cfgVars
  <2> QED
    BY <1>2, <2>1 DEF Within, Appending, Content, Lines, Ids
<1>8. CASE SetMaxLines
  BY <1>8 DEF SetMaxLines
<1>9. CASE Exit
  <2>1. ~named' /\ maxLines' = maxLines /\ buffer' = <<>> /\ (file' = Flushed \/ file' = file)
    BY <1>9 DEF Exit
  <2>2. Content' = Lines(file') \union Ids(buffer')
    BY DEF Content, Lines, Ids
  <2>3. Content' = Content \/ Content' = Lines(file)
    BY <1>4, <2>1, <2>2, FilesAre, IdsAre DEF Content
  <2>4. Cardinality(Content') <= Cardinality(Content) /\ Cardinality(Content') \in Nat
    BY <1>3, <2>3, ContentIs, CountsAre, FilesAre, LinesAre
  <2> QED
    BY <1>2, <1>3, <2>1, <2>4 DEF Within
<1>10. ASSUME NEW t \in Threads, Log(t) PROVE Within'
  <2>1. /\ UNCHANGED <<file, buffer, named, maxLines, curLines>>
        /\ pc[t] = "idle" /\ \A u \in Threads \ {t} : pc'[u] = pc[u]
        /\ pc'[t] = IF maxLines > 0 /\ curLines >= maxLines /\ named THEN "flush" ELSE "append"
    BY <1>3, <1>10 DEF Log, fileVars, cfgVars
  <2>2. Content' = Content
    BY <2>1 DEF Content, Lines, Ids
  <2>3. CASE pc'[t] = "flush"
    <3>1. Appending' = Appending
      BY <2>1, <2>3 DEF Appending
    <3> QED
      BY <1>2, <2>1, <2>2, <3>1 DEF Within
  <2>4. CASE pc'[t] = "append" /\ named
    <3>1. curLines < Limit
      BY <1>2, <1>3, <2>1, <2>4 DEF Within
    <3>2. Cardinality(Appending') \in Nat /\ Cardinality(Appending') <= Cardinality(Threads)
      BY AppendingIs DEF Appending
    <3>3. curLines + Cardinality(Appending') < Limit + Cardinality(Threads)
      BY <1>3, <3>1, <3>2
    <3> QED
      BY <1>2, <2>1, <2>2, <3>3 DEF Within
  <2>5. CASE ~named
    BY <1>2, <2>1, <2>2, <2>5 DEF Within
  <2> QED
    BY <2>1, <2>3, <2>4, <2>5
<1>11. ASSUME NEW t \in Threads, RotateFlush(t) \/ RotateReset(t) \/ RotateClose(t) PROVE Within'
  <2>1. Content' = Content
    BY <1>1, <1>11, RotateEffect
  <2>2. UNCHANGED <<named, maxLines, curLines>> /\ pc[t] # "append" /\ pc'[t] # "append"
        /\ \A u \in Threads \ {t} : pc'[u] = pc[u]
    BY <1>3, <1>11 DEF RotateFlush, RotateReset, RotateClose, cfgVars
  <2>3. Appending' = Appending
    BY <2>2 DEF Appending
  <2> QED
    BY <1>2, <2>1, <2>2, <2>3 DEF Within
<1>12. ASSUME NEW t \in Threads, RotateRename(t) PROVE Within'
  <2>1. /\ UNCHANGED <<named, maxLines, curLines, buffer>> /\ pc[t] # "append" /\ pc'[t] # "append"
        /\ file' = NoFile /\ \A u \in Threads \ {t} : pc'[u] = pc[u]
    BY <1>3, <1>12 DEF RotateRename, cfgVars
  <2>2. Appending' = Appending
    BY <2>1 DEF Appending
  <2>3. buffer = <<>>
    BY <1>1, <1>12 DEF RotateRename, CalmIn, Calm
  <2>4. Content' = {}
    BY <2>1, <2>3, IdsAre DEF Content, Lines, Ids
  <2>5. Cardinality(Content') = 0
    BY <2>4, FS_EmptySet
  <2> QED
    BY <1>2, <1>3, <2>1, <2>2, <2>5 DEF Within
<1>13. ASSUME NEW t \in Threads, RotateReopen(t) PROVE Within'
  <2>1. /\ UNCHANGED <<named, maxLines, buffer>> /\ curLines' = 0 /\ OpenFile(fout, file)
        /\ pc[t] = "reopen"
    BY <1>13 DEF RotateReopen, cfgVars
  <2>2. buffer = <<>> /\ file = NoFile
    BY <1>1, <2>1 DEF CalmIn, Calm
  <2>3. Lines(file') = {}
    BY <1>4, <2>1, <2>2, FilesAre, OpenFileIs, LinesAre
  <2>4. Content' = {}
    BY <2>1, <2>2, <2>3, IdsAre DEF Content, Lines, Ids
  <2>5. Cardinality(Content') = 0
    BY <2>4, FS_EmptySet
  <2>6. Cardinality(Appending') \in Nat /\ Cardinality(Appending') <= Cardinality(Threads)
    BY AppendingIs DEF Appending
  <2> QED
    BY <1>2, <1>3, <2>1, <2>5, <2>6 DEF Within
<1>14. ASSUME NEW t \in Threads, AppendLine(t) PROVE Within'
  <2>1. /\ UNCHANGED <<named, maxLines>> /\ curLines' = curLines + 1
        /\ pc[t] = "append" /\ pc'[t] = "idle" /\ \A u \in Threads \ {t} : pc'[u] = pc[u]
    BY <1>3, <1>14 DEF AppendLine, cfgVars
  <2>2. Appending' = Appending \ {t} /\ t \in Appending /\ Appending \in SUBSET Threads
    BY <2>1 DEF Appending
  <2>3. Cardinality(Appending') = Cardinality(Appending) - 1
    BY <2>2, AppendingIs
  <2>4. CASE fout = "closed"
    <3>1. Content' = Content
      BY <1>1, <1>14, <2>4, AppendEffect DEF Content, Lines, Ids
    <3> QED
      BY <1>2, <1>3, <2>1, <2>3, <3>1 DEF Within
  <2>5. CASE fout = "open"
    <3>1. Content' = Content \union {line[t].id}
      BY <1>1, <1>14, <2>5, AppendEffect
    <3>2. Cardinality(Content') \in Nat /\ Cardinality(Content') <= Cardinality(Content) + 1
      BY <3>1, ContentIs
    <3>3. named /\ 1 <= Cardinality(Appending)
      <4>1. Cardinality(Appending') \in Nat
        BY <2>2, AppendingIs
      <4> QED
        BY <1>3, <1>4, <2>3, <2>5, <4>1
    <3> QED
      BY <1>2, <1>3, <2>1, <2>3, <3>2, <3>3 DEF Within
  <2> QED
    BY <1>4, <2>4, <2>5
<1>15. CASE WriteFails
  BY <1>1, <1>15, WriteSpoils
<1> QED
  BY <1>5, <1>6, <1>7, <1>8, <1>9, <1>10, <1>11, <1>12, <1>13, <1>14, <1>15 DEF Next, LogStep


-----------------------------------------------------------------------------
LEMMA LogInit == Init => LogInv
<1> SUFFICES ASSUME Init PROVE LogInv
  OBVIOUS
<1>1. /\ Limit \in Nat \ {0} /\ BufSize \in Nat \ {0} /\ MaxLogs \in Nat /\ MaxSeconds \in Nat
      /\ MaxFaults \in Nat
  BY LoggerAssumption
<1>2. LogConfig /\ LogStates
  <2>1. 0 \in 0..MaxSeconds /\ 0 \in 0..MaxLogs /\ 0 \in 0..MaxFaults /\ "INFO" \in DOMAIN Severity
    BY <1>1 DEF Severity
  <2>2. LogConfig
    BY <1>1, <2>1 DEF Init, LogConfig
  <2>3. LogStates
    BY <1>1, <2>1 DEF Init, LogStates
  <2> QED
    BY <2>2, <2>3
<1>3. LogFiles
  BY DEF Init, LogFiles
<1>4. LogBuffer
  <2>1. buffer \in Seq(LogLines) /\ Offset(buffer) = 0
    BY OffsetIs DEF Init
  <2> QED
    BY <1>1, <2>1, NoLineIs DEF Init, LogBuffer
<1>5. Ids(buffer) = {} /\ Content = {} /\ Appending = {} /\ Rotating = {}
  BY IdsAre, LinesAre DEF Init, Content, Appending, Rotating
<1>6. Numbers
  BY <1>5, NoLineIs DEF Init, Numbers
<1>7. LinesWhole
  BY NoLineIs DEF Init, LinesWhole
<1>8. Calm
  BY <1>5 DEF Init, Calm
<1>9. Kept
  BY DEF Init, Kept
<1>10. Bounded
  <2>1. Cardinality(Content) = 0 /\ Cardinality(Threads) \in Nat
    BY <1>5, FS_EmptySet, AppendingIs
  <2> QED
    BY <1>1, <2>1 DEF Init, Bounded
<1> QED
  BY <1>2, <1>3, <1>4, <1>6, <1>7, <1>8, <1>9, <1>10 DEF LogInv, LogType

LEMMA LogInvariant == Spec => []LogInv
<1>1. LogInv /\ [Next]_vars => LogInv'
  BY TypeStep, WholeStep, CalmStep, KeptStep, BoundedStep DEF LogInv
<1> QED
  BY LogInit, <1>1, PTL DEF Spec

(* Everything keeps its type; the offset of the buffer never passes its     *)
(* size, and what is durable was logged.                                   *)
THEOREM LoggerTyped == Spec => []TypeOK
<1>1. LogInv => TypeOK
  <2> SUFFICES ASSUME LogInv PROVE TypeOK
    OBVIOUS
  <2>1. \A t \in Threads : line[t].id \in 0..count
    <3>1. count \in Nat
      BY LoggerAssumption DEF LogInv, LogType, LogConfig
    <3> QED
      BY <3>1 DEF LogInv, LogType, Numbers
  <2> QED
    BY <2>1 DEF LogInv, LogType, LogConfig, LogStates, LogFiles, LogBuffer, Numbers, TypeOK, Events
<1> QED
  BY <1>1, LogInvariant, PTL

(* For any sizes a line that leaves the prefix once more free in the stack  *)
(* buffer is logged as it was asked for, however its arguments are cut up.  *)
THEOREM LoggedWhole == Spec => []LinesWhole
<1>1. LogInv => LinesWhole
  BY DEF LogInv
<1> QED
  BY <1>1, LogInvariant, PTL

(* Without the five ways of losing a line every line that went into the     *)
(* buffer is in the file, in a backup or in the buffer.                    *)
THEOREM NothingLost == Spec => []NoLineLost
<1>1. LogInv => NoLineLost
  BY DEF LogInv, Kept, NoLineLost
<1> QED
  BY <1>1, LogInvariant, PTL

(* What was logged up to an ERROR is out of reach of a crash.              *)
THEOREM ErrorsStay == Spec => []ErrorsDurable
<1>1. LogInv => ErrorsDurable
  BY DEF LogInv, Kept, ErrorsDurable
<1> QED
  BY <1>1, LogInvariant, PTL

(* As long as every rotation takes the file away, by a new name or for      *)
(* good, it passes its limit by fewer lines than there are threads.        *)
THEOREM StaysBounded == Spec => []FileBounded
<1>1. LogInv => FileBounded
  BY DEF LogInv, Bounded, Content, FileBounded
<1> QED
  BY <1>1, LogInvariant, PTL

-----------------------------------------------------------------------------
(* As long as no thread has logged while another was inside rotate(), a    *)
(* line is in one place: in the buffer, in the file or in one backup.      *)
Backed == UNION {backups[s] : s \in 0..MaxSeconds}

Apart ==
  /\ Backed \intersect Content = {}
  /\ \A s, r \in 0..MaxSeconds : s # r => backups[s] \intersect backups[r] = {}

(* The lines of the buffer are not written yet, but for the moment between *)
(* the two halves of flush_buffer() in rotate().                           *)
Unwritten ==
  /\ Lines(file) \intersect Ids(buffer) = {} \/ \E t \in Threads : pc[t] = "reset"
  /\ \A i, j \in DOMAIN buffer : buffer[i].id = buffer[j].id => i = j

(* A line that is being logged is nowhere yet.                             *)
Fresh ==
  /\ Backed \union Content \subseteq 1..count
  /\ \A t \in Threads : pc[t] # "idle" => line[t].id \notin Backed \union Content

Once == ~Spoiled => Apart /\ Unwritten /\ Fresh

LEMMA SameBacked == backups' = backups => Backed' = Backed
BY DEF Backed

LEMMA ContentNext == Content' = Lines(file') \union Ids(buffer') /\ Ids(buffer)' = Ids(buffer')
                     /\ Lines(file)' = Lines(file')
BY DEF Content, Lines, Ids

LEMMA EmptyUnwritten ==
  ASSUME buffer' = <<>>
  PROVE  Unwritten'
BY ContentNext, IdsAre DEF Unwritten

(* Steps that move lines between the buffer and the file, or drop them.    *)
LEMMA OnceKept ==
  ASSUME Apart, Fresh, Unwritten', backups' = backups, Content' \subseteq Content,
         count' = count,
         \A u \in Threads : pc'[u] # "idle" => pc[u] # "idle" /\ line'[u] = line[u]
  PROVE  Apart' /\ Fresh' /\ Unwritten'
<1>1. Backed' = Backed
  BY SameBacked
<1>2. Apart'
  BY <1>1 DEF Apart
<1>3. Fresh'
  BY <1>1 DEF Fresh
<1> QED
  BY <1>2, <1>3

LEMMA AppendDistinct ==
  ASSUME NEW b \in Seq(LogLines), NEW l \in LogLines, l.id \notin Ids(b),
         \A i, j \in DOMAIN b : b[i].id = b[j].id => i = j
  PROVE  \A i, j \in DOMAIN Append(b, l) : Append(b, l)[i].id = Append(b, l)[j].id => i = j
<1>1. /\ Len(b) \in Nat /\ DOMAIN b = 1..Len(b) /\ DOMAIN Append(b, l) = 1..(Len(b) + 1)
      /\ \A i \in 1..Len(b) : Append(b, l)[i] = b[i]
      /\ Append(b, l)[Len(b) + 1] = l
  BY AppendProperties
<1>2. \A i \in 1..Len(b) : b[i].id # l.id
  BY <1>1 DEF Ids
<1> QED
  BY <1>1, <1>2

(* The line goes into the buffer, or with the buffer into the file.        *)
LEMMA AppendUnwritten ==
  ASSUME CalmIn, ~Spoiled', Unwritten, Fresh, NEW t \in Threads, AppendLine(t), fout = "open"
  PROVE  Unwritten'
<1> DEFINE full == Offset(buffer) + line[t].length > BufSize
           b == Append(IF full THEN <<>> ELSE buffer, line[t])
           f == IF full THEN Flushed ELSE file
<1>1. PICK flush \in BOOLEAN : /\ buffer' = IF flush THEN <<>> ELSE b
                               /\ ~flush => file' = f
  BY DEF AppendLine
<1>2. CASE flush
  BY <1>1, <1>2, EmptyUnwritten
<1>3. CASE ~flush
  <2>1. line[t] \in LogLines /\ buffer \in Seq(LogLines) /\ <<>> \in Seq(LogLines)
    BY DEF CalmIn, LogType, LogBuffer
  <2>2. line[t].id \notin Content
    BY DEF AppendLine, Fresh
  <2>3. Rotating = {}
    BY AppendEffect
  <2>4. /\ Lines(file) \intersect Ids(buffer) = {}
        /\ \A i, j \in DOMAIN buffer : buffer[i].id = buffer[j].id => i = j
    BY <2>3 DEF Unwritten, Rotating
  <2>5. Lines(Flushed) = Content /\ Ids(buffer) \subseteq Content /\ Lines(file) \subseteq Content
    BY FilesAre DEF CalmIn, Content
  <2>6. CASE full
    <3>1. buffer' = Append(<<>>, line[t]) /\ file' = Flushed
      BY <1>1, <1>3, <2>6
    <3>2. Ids(buffer') = {line[t].id}
      BY <2>1, <3>1, IdsAre
    <3>3. \A i, j \in DOMAIN buffer' : buffer'[i].id = buffer'[j].id => i = j
      BY <2>1, <3>1, IdsAre, AppendDistinct
    <3> QED
      BY <2>2, <2>5, <3>1, <3>2, <3>3, ContentNext DEF Unwritten
  <2>7. CASE ~full
    <3>1. buffer' = Append(buffer, line[t]) /\ file' = file
      BY <1>1, <1>3, <2>7
    <3>2. Ids(buffer') = Ids(buffer) \union {line[t].id}
      BY <2>1, <3>1, IdsAre
    <3>3. \A i, j \in DOMAIN buffer' : buffer'[i].id = buffer'[j].id => i = j
      BY <2>1, <2>2, <2>4, <2>5, <3>1, AppendDistinct
    <3> QED
      BY <2>2, <2>4, <2>5, <3>1, <3>2, <3>3, ContentNext DEF Unwritten
  <2> QED
    BY <2>6, <2>7
<1> QED
  BY <1>2, <1>3

LEMMA OnceStep == LogType /\ Calm /\ Once /\ [Next]_vars => Once'
<1> SUFFICES ASSUME LogType, Calm, Once, [Next]_vars, ~Spoiled'
             PROVE  Apart' /\ Fresh' /\ Unwritten'
  BY DEF Once
<1>1. CalmIn
  BY EventsStay DEF CalmIn
<1>2. Apart /\ Fresh /\ Unwritten
  BY <1>1 DEF CalmIn, Once
<1>3. /\ backups \in [0..MaxSeconds -> SUBSET (1..MaxLogs)] /\ clock \in 0..MaxSeconds
      /\ pc \in [Threads -> {"idle", "flush", "reset", "close", "rename", "reopen", "append"}]
      /\ line \in [Threads -> LogLines] /\ count \in Nat
  BY LoggerAssumption DEF LogType, LogFiles, LogConfig, LogStates, LogBuffer
<1>4. fout \in {"closed", "open"} /\ (fout = "closed" => Ids(buffer) = {} /\ buffer = <<>>)
  BY <1>1, IdsAre DEF CalmIn, Calm
<1>5. CASE InitLogger \/ Shutdown
  <2>1. Lines(file') = Content /\ buffer' = <<>> /\ backups' = backups
        /\ UNCHANGED <<pc, line, count>>
    BY <1>1, <1>5, InitEffect, ShutdownEffect DEF InitLogger, Shutdown
  <2>2. Content' = Content
    BY <2>1, ContentNext, IdsAre
  <2> QED
    BY <1>2, <2>1, <2>2, EmptyUnwritten, OnceKept
<1>6. CASE SetLevel \/ SetMaxLines \/ Tick \/ UNCHANGED vars
  <2>1. UNCHANGED <<pc, line, count, file, buffer, backups>>
    BY <1>6 DEF SetLevel, SetMaxLines, Tick, vars, fileVars
  <2>2. Content' = Content /\ Unwritten'
    BY <1>2, <2>1 DEF Content, Lines, Ids, Unwritten
  <2> QED
    BY <1>2, <2>1, <2>2, OnceKept
<1>7. CASE Exit
  <2>1. /\ buffer' = <<>> /\ count' = count /\ \A u \in Threads : pc'[u] = "idle"
        /\ \/ file' = Flushed /\ backups' = FlushedBackups
           \/ UNCHANGED <<file, backups>>
    BY <1>7 DEF Exit
  <2>2. Lines(file') \subseteq Content /\ backups' = backups
    BY <1>4, <2>1, FilesAre DEF FlushedBackups, Content
  <2>3. Content' \subseteq Content
    BY <2>1, <2>2, ContentNext, IdsAre
  <2> QED
    BY <1>2, <2>1, <2>2, <2>3, EmptyUnwritten, OnceKept
<1>8. ASSUME NEW t \in Threads, Log(t) PROVE Apart' /\ Fresh' /\ Unwritten'
  <2>1. PICK l \in DOMAIN Severity, m \in Messages :
          line' = [line EXCEPT ![t] = LineOf(count + 1, l, m)]
    BY <1>8 DEF Log
  <2>2. /\ UNCHANGED <<file, buffer, backups>> /\ count' = count + 1
        /\ pc[t] = "idle" /\ pc'[t] \in {"flush", "append"}
        /\ \A u \in Threads \ {t} : pc'[u] = pc[u] /\ line'[u] = line[u]
    BY <1>3, <1>8, <2>1 DEF Log, fileVars
  <2>3. line'[t].id = count + 1
    BY <1>3, <2>1 DEF LineOf
  <2>4. Backed' = Backed /\ Content' = Content
    BY <2>2 DEF Backed, Content, Lines, Ids
  <2>5. Apart'
    BY <1>2, <2>2, <2>4 DEF Apart
  <2>6. Unwritten'
    <3>1. \A u \in Threads : pc[u] = "reset" => pc'[u] = "reset"
      BY <2>2
    <3> QED
      BY <1>2, <2>2, <3>1, ContentNext DEF Unwritten
  <2>7. Fresh'
    <3>1. count + 1 \notin Backed \union Content /\ Backed \union Content \subseteq 1..(count + 1)
      BY <1>2, <1>3 DEF Fresh
    <3> QED
      BY <1>2, <2>2, <2>3, <2>4, <3>1 DEF Fresh
  <2> QED
    BY <2>5, <2>6, <2>7
<1>9. ASSUME NEW t \in Threads, RotateFlush(t) \/ RotateReset(t) \/ RotateClose(t)
      PROVE  Apart' /\ Fresh' /\ Unwritten'
  <2>1. Content' = Content /\ backups' = backups
    BY <1>1, <1>9, RotateEffect
  <2>2. /\ UNCHANGED <<line, count>> /\ pc[t] # "idle"
        /\ \A u \in Threads \ {t} : pc'[u] = pc[u]
    BY <1>3, <1>9 DEF RotateFlush, RotateReset, RotateClose
  <2>3. Unwritten'
    <3>1. CASE RotateFlush(t)
      <4>1. buffer' = buffer /\ pc'[t] = IF fout # "closed" /\ buffer # <<>> THEN "reset" ELSE "close"
        BY <1>3, <3>1 DEF RotateFlush
      <4>2. CASE buffer = <<>>
        BY <4>1, <4>2, EmptyUnwritten
      <4>3. CASE buffer # <<>>
        BY <1>2, <1>4, <4>1, <4>3 DEF Unwritten
      <4> QED
        BY <4>2, <4>3
    <3>2. CASE RotateReset(t)
      BY <3>2, EmptyUnwritten DEF RotateReset
    <3>3. CASE RotateClose(t)
      BY <1>1, <3>3, EmptyUnwritten DEF RotateClose, CalmIn, Calm
    <3> QED
      BY <1>9, <3>1, <3>2, <3>3
  <2> QED
    BY <1>2, <2>1, <2>2, <2>3, OnceKept
<1>10. ASSUME NEW t \in Threads, RotateRename(t) PROVE Apart' /\ Fresh' /\ Unwritten'
  <2>1. /\ pc[t] = "rename" /\ UNCHANGED <<line, count, buffer>>
        /\ file' = NoFile \/ UNCHANGED <<file, backups>>
        /\ \A u \in Threads \ {t} : pc'[u] = pc[u]
    BY <1>3, <1>10 DEF RotateRename
  <2>2. buffer = <<>>
    BY <1>1, <2>1 DEF CalmIn, Calm
  <2>3. Unwritten' /\ Content' = Lines(file')
    BY <2>1, <2>2, ContentNext, IdsAre, EmptyUnwritten
  <2>4. CASE backups' = backups
    <3>1. Content' \subseteq Content
      BY <2>1, <2>3, LinesAre DEF Content
    <3> QED
      BY <1>2, <2>1, <2>3, <2>4, <3>1, OnceKept
  <2>5. CASE file # NoFile /\ file' = NoFile /\ backups' = [backups EXCEPT ![clock] = file]
    <3>1. /\ backups'[clock] = file /\ file \subseteq Content /\ Content' = {}
          /\ \A s \in 0..MaxSeconds : s # clock => backups'[s] = backups[s]
      BY <1>3, <2>3, <2>5, LinesAre DEF Content, Lines
    <3>2. Backed' \subseteq Backed \union Content
      BY <1>3, <3>1 DEF Backed
    <3>3. \A s \in 0..MaxSeconds : backups[s] \subseteq Backed
      BY DEF Backed
    <3>4. Apart'
      BY <1>2, <3>1, <3>3 DEF Apart
    <3>5. Fresh'
      BY <1>2, <2>1, <3>1, <3>2 DEF Fresh
    <3> QED
      BY <2>3, <3>4, <3>5
  <2> QED
    BY <1>10, <2>4, <2>5 DEF RotateRename
<1>11. ASSUME NEW t \in Threads, RotateReopen(t) PROVE Apart' /\ Fresh' /\ Unwritten'
  <2>1. /\ UNCHANGED <<buffer, backups, line, count>> /\ OpenFile(fout, file)
        /\ pc[t] = "reopen" /\ \A u \in Threads \ {t} : pc'[u] = pc[u]
    BY <1>3, <1>11 DEF RotateReopen
  <2>2. buffer = <<>>
    BY <1>1, <2>1 DEF CalmIn, Calm
  <2>3. Lines(file') = Lines(file)
    BY <2>1, FilesAre, OpenFileIs DEF LogType, LogStates
  <2>4. Content' = Content /\ Unwritten'
    BY <2>1, <2>2, <2>3, ContentNext, EmptyUnwritten DEF Content
  <2> QED
    BY <1>2, <2>1, <2>4, OnceKept
<1>12. ASSUME NEW t \in Threads, AppendLine(t) PROVE Apart' /\ Fresh' /\ Unwritten'
  <2>1. /\ count' = count /\ pc[t] = "append" /\ pc'[t] = "idle"
        /\ \A u \in Threads \ {t} : pc'[u] = pc[u] /\ line'[u] = line[u]
    BY <1>3, <1>12 DEF AppendLine
  <2>2. backups' = backups
    BY <1>1, <1>12, AppendEffect
  <2>3. CASE fout = "closed"
    <3>1. UNCHANGED <<file, buffer>>
      BY <1>1, <1>12, <2>3, AppendEffect
    <3>2. Content' = Content /\ Unwritten'
      BY <1>4, <2>3, <3>1, ContentNext, EmptyUnwritten DEF Content
    <3> QED
      BY <1>2, <2>1, <2>2, <3>2, OnceKept
  <2>4. CASE fout = "open"
    <3>1. Content' = Content \union {line[t].id} /\ Backed' = Backed
      BY <1>1, <1>12, <2>2, <2>4, AppendEffect, SameBacked
    <3>2. line[t].id \notin Backed \union Content
      BY <1>2, <2>1 DEF Fresh
    <3>3. line[t].id \in 1..count /\ \A u \in Threads \ {t} : pc[u] # "idle" => line[u].id # line[t].id
      BY <2>1 DEF LogType, Numbers
    <3>4. Apart'
      BY <1>2, <2>2, <3>1, <3>2 DEF Apart
    <3>5. Fresh'
      BY <1>2, <2>1, <3>1, <3>3 DEF Fresh
    <3>6. Unwritten'
      BY <1>1, <1>2, <1>12, <2>4, AppendUnwritten
    <3> QED
      BY <3>4, <3>5, <3>6
  <2> QED
    BY <1>4, <2>3, <2>4
<1>13. CASE WriteFails
  BY <1>13, WriteSpoils
<1> QED
  BY <1>5, <1>6, <1>7, <1>8, <1>9, <1>10, <1>11, <1>12, <1>13 DEF Next, LogStep

LEMMA OnceInit == Init => Once
<1> SUFFICES ASSUME Init PROVE Once
  OBVIOUS
<1>1. /\ file = NoFile /\ buffer = <<>> /\ Content = {} /\ Backed = {}
      /\ backups = [s \in 0..MaxSeconds |-> {}]
      /\ \A t \in Threads : pc[t] = "idle"
  BY IdsAre, LinesAre DEF Init, Content, Backed
<1> QED
  BY <1>1, IdsAre, LinesAre DEF Once, Apart, Unwritten, Fresh

(* Unless a thread logs while another is inside rotate(), or after         *)
(* shutdown() where it rotates, or a write fails, no line is stored twice: *)
(* it is in the buffer once, in the file or in one backup, through         *)
(* rotations, restarts and crashes; what is in the buffer is in the file   *)
(* already only between the two halves of the flush in rotate().           *)
THEOREM StoredOnce == Spec => [](~Spoiled => Apart /\ Unwritten)
<1>1. LogInv /\ Once /\ [Next]_vars => LogInv' /\ Once'
  BY TypeStep, WholeStep, CalmStep, KeptStep, BoundedStep, OnceStep DEF LogInv
<1>2. Once => (~Spoiled => Apart /\ Unwritten)
  BY DEF Once
<1> QED
  BY LogInit, OnceInit, <1>1, <1>2, PTL DEF Spec
=============================================================================
